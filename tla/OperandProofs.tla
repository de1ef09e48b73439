---------------------------- MODULE OperandProofs ----------------------------
(***************************************************************************)
(* The operand stack, from the opcodes to the frames.  The lowering of an  *)
(* opcode and `transfer` together leave on the abstract stack what the JVM *)
(* leaves on the real one (KeepsHeights, EffectsAgree); so the frames of   *)
(* the analysis have the heights and the widths the verifier found for the *)
(* class file (FramesShaped).                                              *)
(***************************************************************************)
EXTENDS VerifiedRun, HandleFlowProofs, FunctionTheorems

-----------------------------------------------------------------------------
(* Sequences.                                                              *)

\* The top n entries of a stack replaced by others.
Replace(s, n, push) == SubSeq(s, 1, Len(s) - n) \o push

\* What a sequence is, without the set of its elements.
LEMMA SequenceFacts ==
  ASSUME NEW s, IsASequence(s)
  PROVE  /\ Len(s) \in Nat /\ DOMAIN s = 1..Len(s)
         /\ s = [k \in 1..Len(s) |-> s[k]]
         /\ \A k \in 1..Len(s) : s[k] \in ToSet(s)
BY LenProperties, ElementOfSeq DEF IsASequence

\* Two sequences with the same elements in the same places are the same.
LEMMA SameSequence ==
  ASSUME NEW s, NEW t, IsASequence(s), IsASequence(t), Len(s) = Len(t),
         \A k \in 1..Len(s) : s[k] = t[k]
  PROVE  s = t
BY SequenceFacts

\* What is where after a replacement.
LEMMA Replaced ==
  ASSUME NEW s, NEW push, NEW n \in Nat, IsASequence(s), IsASequence(push), n <= Len(s)
  PROVE  /\ IsASequence(Replace(s, n, push))
         /\ Len(Replace(s, n, push)) = Len(s) - n + Len(push)
         /\ \A k \in 1..(Len(s) - n) : Replace(s, n, push)[k] = s[k]
         /\ \A k \in 1..Len(push) : Replace(s, n, push)[Len(s) - n + k] = push[k]
<1> DEFINE S == ToSet(s) \cup ToSet(push)
           below == SubSeq(s, 1, Len(s) - n)
<1>1. s \in Seq(S) /\ push \in Seq(S) /\ Len(s) \in Nat /\ Len(push) \in Nat
  BY SeqMonotonic, SequenceFacts DEF IsASequence
<1> HIDE DEF S
<1>2. \A k \in 1..(Len(s) - n) : s[k] \in S
  BY <1>1, ElementOfSeq
<1>3. /\ below \in Seq(S) /\ Len(below) = Len(s) - n
      /\ \A k \in 1..(Len(s) - n) : below[k] = s[k]
  <2>1. /\ below \in Seq(S)
        /\ Len(below) = IF 1 <= Len(s) - n THEN Len(s) - n - 1 + 1 ELSE 0
        /\ \A k \in 1..(Len(s) - n - 1 + 1) : below[k] = s[1 + k - 1]
    BY <1>1, <1>2, SubSeqProperties
  <2> QED BY <1>1, <2>1
<1> HIDE DEF below
<1>4. /\ below \o push \in Seq(S) /\ Len(below \o push) = Len(below) + Len(push)
      /\ \A k \in 1..(Len(below) + Len(push)) :
           (below \o push)[k] = IF k <= Len(below) THEN below[k] ELSE push[k - Len(below)]
  BY <1>1, <1>3, ConcatProperties
<1>5. IsASequence(below \o push)
  BY <1>4, AnySequence
<1>6. \A k \in 1..(Len(s) - n) : (below \o push)[k] = s[k]
  BY <1>1, <1>3, <1>4
<1>7. ASSUME NEW k \in 1..Len(push) PROVE (below \o push)[Len(s) - n + k] = push[k]
  <2>1. Len(below) + k \in 1..(Len(below) + Len(push)) /\ ~(Len(below) + k <= Len(below))
        /\ Len(below) + k - Len(below) = k
    BY <1>1, <1>3
  <2> QED BY <1>3, <1>4, <2>1
<1> QED BY <1>3, <1>4, <1>5, <1>6, <1>7 DEF Replace, below

\* A sequence is what is below its top n entries, and these.
LEMMA Popped ==
  ASSUME NEW s, IsASequence(s), NEW n \in Nat, n <= Len(s)
  PROVE  SubSeq(s, 1, Len(s) - n) = Replace(s, n, <<>>)
<1>1. SubSeq(s, 1, Len(s) - n) \in Seq(ToSet(s))
  <2>1. \A k \in 1..(Len(s) - n) : s[k] \in ToSet(s)
    BY SequenceFacts
  <2> QED BY <2>1, SequenceFacts, SubSeqProperties
<1> QED BY <1>1, ConcatEmptySeq DEF Replace

\* Short sequences.
LEMMA Few ==
  ASSUME NEW x, NEW y
  PROVE  /\ IsASequence(<<>>) /\ Len(<<>>) = 0
         /\ IsASequence(<<x>>) /\ Len(<<x>>) = 1 /\ <<x>>[1] = x
         /\ IsASequence(<<x, y>>) /\ Len(<<x, y>>) = 2 /\ <<x, y>>[1] = x /\ <<x, y>>[2] = y
<1>1. <<x>> \in Seq({x}) /\ <<x, y>> \in Seq({x, y}) /\ <<>> \in Seq({})
  OBVIOUS
<1> QED BY <1>1, AnySequence

\* Appending to what is left of a stack.
LEMMA PushReplaced ==
  ASSUME NEW s, NEW n \in Nat, IsASequence(s), n <= Len(s), NEW push, IsASequence(push), NEW x
  PROVE  Append(Replace(s, n, push), x) = Replace(s, n, Append(push, x))
<1> DEFINE S == ToSet(s) \cup ToSet(push) \cup {x}
<1>1. s \in Seq(S) /\ push \in Seq(S) /\ x \in S /\ Len(s) \in Nat
  BY SeqMonotonic, SequenceFacts DEF IsASequence
<1> HIDE DEF S
<1>2. \A k \in 1..(Len(s) - n) : s[k] \in S
  BY <1>1, ElementOfSeq
<1> DEFINE below == SubSeq(s, 1, Len(s) - n)
<1>3. below \in Seq(S)
  BY <1>1, <1>2, SubSeqProperties
<1> HIDE DEF below
<1>4. below \o push \in Seq(S) /\ <<x>> \in Seq(S)
  BY <1>1, <1>3, ConcatProperties
<1>5. Append(below \o push, x) = (below \o push) \o <<x>>
  BY <1>1, <1>4, AppendIsConcat
<1>6. below \o Append(push, x) = below \o (push \o <<x>>)
  BY <1>1, AppendIsConcat
<1>7. (below \o push) \o <<x>> = below \o (push \o <<x>>)
  BY <1>1, <1>3, <1>4, ConcatAssociative
<1> QED BY <1>5, <1>6, <1>7 DEF Replace, below

\* Pushing one value in place of n, and pushing on the whole stack.
LEMMA PushedOne ==
  ASSUME NEW s, NEW n \in Nat, IsASequence(s), n <= Len(s), NEW x
  PROVE  /\ Append(SubSeq(s, 1, Len(s) - n), x) = Replace(s, n, <<x>>)
         /\ Append(s, x) = Replace(s, 0, <<x>>)
         /\ SubSeq(s, 1, Len(s) - 0) = s
<1>1. PICK e : e = <<>>
  OBVIOUS
<1>2. IsASequence(e)
  BY <1>1, Few
<1>3. Append(e, x) = <<x>>
  BY <1>1
<1>4. Append(Replace(s, n, e), x) = Replace(s, n, Append(e, x))
  BY <1>2, PushReplaced
<1>5. SubSeq(s, 1, Len(s) - 0) = s
  BY SequenceFacts, SubSeqFull DEF IsASequence
<1>6. 0 \in Nat /\ 0 <= Len(s)
  BY SequenceFacts
<1>7. Append(Replace(s, 0, e), x) = Replace(s, 0, Append(e, x))
  BY <1>2, <1>6, PushReplaced
<1>8. SubSeq(s, 1, Len(s) - n) = Replace(s, n, e) /\ SubSeq(s, 1, Len(s) - 0) = Replace(s, 0, e)
  BY <1>1, <1>6, Popped
<1> QED BY <1>3, <1>4, <1>5, <1>7, <1>8

-----------------------------------------------------------------------------
(* The table of the JVM and the lowering.                                  *)

\* The types of one stack word, and of two.
Narrow == {"I", "F", "A"}
Broad  == {"J", "D"}

\* What an instruction takes and leaves by the table of the JVM: n operands, and
\* m results of these types.
Balance(mn, n, m, types) ==
  LET s == SignatureOf(mn)
  IN  /\ IsASequence(s.in) /\ Len(s.in) = n
      /\ IsASequence(s.out) /\ Len(s.out) = m
      /\ \A k \in 1..m : s.out[k] \in types

\* The same of three.
LEMMA Three ==
  ASSUME NEW x, NEW y, NEW z
  PROVE  IsASequence(<<x, y, z>>) /\ Len(<<x, y, z>>) = 3
<1>1. <<x, y, z>> \in Seq({x, y, z})
  OBVIOUS
<1> QED BY <1>1, AnySequence

\* An instruction with this signature is balanced.
LEMMA Shape ==
  ASSUME NEW mn, NEW in, NEW out, SignatureOf(mn) = Sig(mn, in, out),
         IsASequence(in), IsASequence(out), NEW types, \A k \in 1..Len(out) : out[k] \in types
  PROVE  Balance(mn, Len(in), Len(out), types)
BY DEF Balance, Sig

\* The signatures there are, by their lengths: with names for the short
\* sequences the provers need not look into them.
LEMMA Shapes ==
  ASSUME NEW mn, NEW a, NEW b, NEW c, NEW types, NEW d \in types
  PROVE  /\ SignatureOf(mn) = Sig(mn, <<>>, <<>>) => Balance(mn, 0, 0, types)
         /\ SignatureOf(mn) = Sig(mn, <<>>, <<d>>) => Balance(mn, 0, 1, types)
         /\ SignatureOf(mn) = Sig(mn, <<a>>, <<>>) => Balance(mn, 1, 0, types)
         /\ SignatureOf(mn) = Sig(mn, <<a>>, <<d>>) => Balance(mn, 1, 1, types)
         /\ SignatureOf(mn) = Sig(mn, <<a, b>>, <<>>) => Balance(mn, 2, 0, types)
         /\ SignatureOf(mn) = Sig(mn, <<a, b>>, <<d>>) => Balance(mn, 2, 1, types)
         /\ SignatureOf(mn) = Sig(mn, <<a, b, c>>, <<>>) => Balance(mn, 3, 0, types)
<1>1. PICK e : e = <<>>
  OBVIOUS
<1>2. PICK x : x = <<a>>
  OBVIOUS
<1>3. PICK y : y = <<a, b>>
  OBVIOUS
<1>4. PICK z : z = <<a, b, c>>
  OBVIOUS
<1>5. PICK r : r = <<d>>
  OBVIOUS
<1>6. /\ IsASequence(e) /\ Len(e) = 0
      /\ IsASequence(x) /\ Len(x) = 1
      /\ IsASequence(y) /\ Len(y) = 2
  BY <1>1, <1>2, <1>3, Few
<1>7. IsASequence(z) /\ Len(z) = 3
  BY <1>4, Three
<1>8. IsASequence(r) /\ Len(r) = 1 /\ r[1] = d
  BY <1>5, Few
<1>9. (\A k \in 1..Len(e) : e[k] \in types) /\ (\A k \in 1..Len(r) : r[k] \in types)
  BY <1>6, <1>8
<1>a. /\ SignatureOf(mn) = Sig(mn, e, e) => Balance(mn, 0, 0, types)
      /\ SignatureOf(mn) = Sig(mn, e, r) => Balance(mn, 0, 1, types)
      /\ SignatureOf(mn) = Sig(mn, x, e) => Balance(mn, 1, 0, types)
      /\ SignatureOf(mn) = Sig(mn, x, r) => Balance(mn, 1, 1, types)
      /\ SignatureOf(mn) = Sig(mn, y, e) => Balance(mn, 2, 0, types)
      /\ SignatureOf(mn) = Sig(mn, y, r) => Balance(mn, 2, 1, types)
      /\ SignatureOf(mn) = Sig(mn, z, e) => Balance(mn, 3, 0, types)
  BY <1>6, <1>7, <1>8, <1>9, Shape
<1> QED BY <1>1, <1>2, <1>3, <1>4, <1>5, <1>a

\* The families of the lowering (java_loader.rs:849-1073) against the table of
\* the JVM: what the instructions of each family take and leave.
LEMMA Balances ==
  ASSUME NEW mn
  PROVE
    /\ mn \in NarrowSources => Balance(mn, 0, 1, Narrow)
    /\ mn \in WideSources => Balance(mn, 0, 1, Broad)
    /\ mn \in Sinks => Balance(mn, 1, 0, Narrow)
    /\ mn \in ToNarrow => Balance(mn, 1, 1, Narrow)
    /\ mn \in ToWide => Balance(mn, 1, 1, Broad)
    /\ mn \in TwoToNarrow => Balance(mn, 2, 1, Narrow)
    /\ mn \in TwoToWide => Balance(mn, 2, 1, Broad)
    /\ mn \in ArrayStores => Balance(mn, 3, 0, Narrow)
    /\ mn \in LongBinary => Balance(mn, 2, 1, Broad)
    /\ mn \in LongUnary => Balance(mn, 1, 1, Broad)
    /\ mn \in IfOne => Balance(mn, 1, 0, Narrow)
    /\ mn \in IfTwo => Balance(mn, 2, 0, Narrow)
    /\ mn \in ValueReturns => Balance(mn, 1, 0, Narrow)
    /\ mn \in Switches => Balance(mn, 1, 0, Narrow)
    /\ mn = "lconst_1" => Balance(mn, 0, 1, Broad)
    /\ mn = "lconst_0" => Balance(mn, 0, 1, Broad)
    /\ mn = "lcmp" => Balance(mn, 2, 1, Narrow)
    /\ mn = "lload" => Balance(mn, 0, 1, Broad)
    /\ mn = "aload" => Balance(mn, 0, 1, Narrow)
    /\ mn = "lstore" => Balance(mn, 1, 0, Narrow)
    /\ mn = "astore" => Balance(mn, 1, 0, Narrow)
    /\ mn = "athrow" => Balance(mn, 1, 0, Narrow)
    /\ mn = "goto" => Balance(mn, 0, 0, Narrow)
    /\ mn = "nop" => Balance(mn, 0, 0, Narrow)
    /\ mn = "iinc" => Balance(mn, 0, 0, Narrow)
    /\ mn = "return" => Balance(mn, 0, 0, Narrow)
<1> USE DEF IntToInt, TwoInts, TwoLongs, LongAndInt, TwoFloats, TwoDoubles, CompareFloats,
            CompareDoubles, IntElement, SetIntElement, NewArray, IntConstants, LongConstants,
            FloatConstants, DoubleConstants, SomeReference, TakeInt, TakeTwoInts, TakeReference,
            TakeTwoReferences
<1>1. ASSUME mn \in NarrowSources PROVE Balance(mn, 0, 1, Narrow)
  <2>1. ASSUME mn \in {"aconst_null", "jsr", "new"} PROVE Balance(mn, 0, 1, Narrow)
    <3>1. SignatureOf(mn) = Sig(mn, <<>>, <<"A">>)
      BY <2>1, SMTT(60) DEF SignatureOf
    <3> QED BY <3>1, Shapes DEF Narrow, Broad
  <2>2. ASSUME mn \in {"iconst_m1", "iconst_0", "iconst_1", "iconst_2", "iconst_3", "iconst_4",
                          "iconst_5", "bipush", "sipush", "iload", "ldc", "ldc_w"}
        PROVE Balance(mn, 0, 1, Narrow)
    <3>1. SignatureOf(mn) = Sig(mn, <<>>, <<"I">>)
      BY <2>2, SMTT(60) DEF SignatureOf
    <3> QED BY <3>1, Shapes DEF Narrow, Broad
  <2>3. ASSUME mn \in {"fconst_0", "fconst_1", "fconst_2", "fload"} PROVE Balance(mn, 0, 1, Narrow)
    <3>1. SignatureOf(mn) = Sig(mn, <<>>, <<"F">>)
      BY <2>3, SMTT(60) DEF SignatureOf
    <3> QED BY <3>1, Shapes DEF Narrow, Broad
  <2> QED BY <1>1, <2>1, <2>2, <2>3 DEF NarrowSources
<1>2. ASSUME mn \in WideSources PROVE Balance(mn, 0, 1, Broad)
  <2>1. SignatureOf(mn) = Sig(mn, <<>>, <<"D">>)
    BY <1>2, SMTT(60) DEF SignatureOf, WideSources
  <2> QED BY <2>1, Shapes DEF Narrow, Broad
<1>3. ASSUME mn \in Sinks PROVE Balance(mn, 1, 0, Narrow)
  <2>1. ASSUME mn = "istore" PROVE Balance(mn, 1, 0, Narrow)
    <3>1. SignatureOf(mn) = Sig(mn, <<"I">>, <<>>)
      BY <2>1, SMTT(60) DEF SignatureOf
    <3> QED BY <3>1, Shapes DEF Narrow, Broad
  <2>2. ASSUME mn = "fstore" PROVE Balance(mn, 1, 0, Narrow)
    <3>1. SignatureOf(mn) = Sig(mn, <<"F">>, <<>>)
      BY <2>2, SMTT(60) DEF SignatureOf
    <3> QED BY <3>1, Shapes DEF Narrow, Broad
  <2>3. ASSUME mn = "dstore" PROVE Balance(mn, 1, 0, Narrow)
    <3>1. SignatureOf(mn) = Sig(mn, <<"D">>, <<>>)
      BY <2>3, SMTT(60) DEF SignatureOf
    <3> QED BY <3>1, Shapes DEF Narrow, Broad
  <2>4. ASSUME mn \in {"monitorenter", "monitorexit"} PROVE Balance(mn, 1, 0, Narrow)
    <3>1. SignatureOf(mn) = Sig(mn, <<"A">>, <<>>)
      BY <2>4, SMTT(60) DEF SignatureOf
    <3> QED BY <3>1, Shapes DEF Narrow, Broad
  <2> QED BY <1>3, <2>1, <2>2, <2>3, <2>4 DEF Sinks
<1>4. ASSUME mn \in ToNarrow PROVE Balance(mn, 1, 1, Narrow)
  <2>1. ASSUME mn \in {"ineg", "i2b", "i2c", "i2s"} PROVE Balance(mn, 1, 1, Narrow)
    <3>1. SignatureOf(mn) = Sig(mn, <<"I">>, <<"I">>)
      BY <2>1, SMTT(60) DEF SignatureOf
    <3> QED BY <3>1, Shapes DEF Narrow, Broad
  <2>2. ASSUME mn = "i2f" PROVE Balance(mn, 1, 1, Narrow)
    <3>1. SignatureOf(mn) = Sig(mn, <<"I">>, <<"F">>)
      BY <2>2, SMTT(60) DEF SignatureOf
    <3> QED BY <3>1, Shapes DEF Narrow, Broad
  <2>3. ASSUME mn = "l2i" PROVE Balance(mn, 1, 1, Narrow)
    <3>1. SignatureOf(mn) = Sig(mn, <<"J">>, <<"I">>)
      BY <2>3, SMTT(60) DEF SignatureOf
    <3> QED BY <3>1, Shapes DEF Narrow, Broad
  <2>4. ASSUME mn = "l2f" PROVE Balance(mn, 1, 1, Narrow)
    <3>1. SignatureOf(mn) = Sig(mn, <<"J">>, <<"F">>)
      BY <2>4, SMTT(60) DEF SignatureOf
    <3> QED BY <3>1, Shapes DEF Narrow, Broad
  <2>5. ASSUME mn = "f2i" PROVE Balance(mn, 1, 1, Narrow)
    <3>1. SignatureOf(mn) = Sig(mn, <<"F">>, <<"I">>)
      BY <2>5, SMTT(60) DEF SignatureOf
    <3> QED BY <3>1, Shapes DEF Narrow, Broad
  <2>6. ASSUME mn = "fneg" PROVE Balance(mn, 1, 1, Narrow)
    <3>1. SignatureOf(mn) = Sig(mn, <<"F">>, <<"F">>)
      BY <2>6, SMTT(60) DEF SignatureOf
    <3> QED BY <3>1, Shapes DEF Narrow, Broad
  <2>7. ASSUME mn = "d2i" PROVE Balance(mn, 1, 1, Narrow)
    <3>1. SignatureOf(mn) = Sig(mn, <<"D">>, <<"I">>)
      BY <2>7, SMTT(60) DEF SignatureOf
    <3> QED BY <3>1, Shapes DEF Narrow, Broad
  <2>8. ASSUME mn = "d2f" PROVE Balance(mn, 1, 1, Narrow)
    <3>1. SignatureOf(mn) = Sig(mn, <<"D">>, <<"F">>)
      BY <2>8, SMTT(60) DEF SignatureOf
    <3> QED BY <3>1, Shapes DEF Narrow, Broad
  <2>9. ASSUME mn = "arraylength" PROVE Balance(mn, 1, 1, Narrow)
    <3>1. SignatureOf(mn) = Sig(mn, <<"A">>, <<"I">>)
      BY <2>9, SMTT(60) DEF SignatureOf
    <3> QED BY <3>1, Shapes DEF Narrow, Broad
  <2>10. ASSUME mn = "checkcast" PROVE Balance(mn, 1, 1, Narrow)
    <3>1. SignatureOf(mn) = Sig(mn, <<"A">>, <<"A">>)
      BY <2>10, SMTT(60) DEF SignatureOf
    <3> QED BY <3>1, Shapes DEF Narrow, Broad
  <2>11. ASSUME mn = "instanceof" PROVE Balance(mn, 1, 1, Narrow)
    <3>1. SignatureOf(mn) = Sig(mn, <<"A">>, <<"I">>)
      BY <2>11, SMTT(60) DEF SignatureOf
    <3> QED BY <3>1, Shapes DEF Narrow, Broad
  <2>12. ASSUME mn \in {"newarray", "anewarray"} PROVE Balance(mn, 1, 1, Narrow)
    <3>1. SignatureOf(mn) = Sig(mn, <<"I">>, <<"A">>)
      BY <2>12, SMTT(60) DEF SignatureOf
    <3> QED BY <3>1, Shapes DEF Narrow, Broad
  <2> QED BY <1>4, <2>1, <2>2, <2>3, <2>4, <2>5, <2>6, <2>7, <2>8, <2>9, <2>10, <2>11,
             <2>12 DEF ToNarrow
<1>5. ASSUME mn \in ToWide PROVE Balance(mn, 1, 1, Broad)
  <2>1. ASSUME mn = "i2d" PROVE Balance(mn, 1, 1, Broad)
    <3>1. SignatureOf(mn) = Sig(mn, <<"I">>, <<"D">>)
      BY <2>1, SMTT(60) DEF SignatureOf
    <3> QED BY <3>1, Shapes DEF Narrow, Broad
  <2>2. ASSUME mn = "l2d" PROVE Balance(mn, 1, 1, Broad)
    <3>1. SignatureOf(mn) = Sig(mn, <<"J">>, <<"D">>)
      BY <2>2, SMTT(60) DEF SignatureOf
    <3> QED BY <3>1, Shapes DEF Narrow, Broad
  <2>3. ASSUME mn = "f2d" PROVE Balance(mn, 1, 1, Broad)
    <3>1. SignatureOf(mn) = Sig(mn, <<"F">>, <<"D">>)
      BY <2>3, SMTT(60) DEF SignatureOf
    <3> QED BY <3>1, Shapes DEF Narrow, Broad
  <2>4. ASSUME mn = "dneg" PROVE Balance(mn, 1, 1, Broad)
    <3>1. SignatureOf(mn) = Sig(mn, <<"D">>, <<"D">>)
      BY <2>4, SMTT(60) DEF SignatureOf
    <3> QED BY <3>1, Shapes DEF Narrow, Broad
  <2> QED BY <1>5, <2>1, <2>2, <2>3, <2>4 DEF ToWide
<1>6. ASSUME mn \in TwoToNarrow PROVE Balance(mn, 2, 1, Narrow)
  <2>1. ASSUME mn \in {"iadd", "isub", "imul", "idiv", "irem", "iand", "ior", "ixor", "ishl",
                          "ishr", "iushr"}
        PROVE Balance(mn, 2, 1, Narrow)
    <3>1. SignatureOf(mn) = Sig(mn, <<"I", "I">>, <<"I">>)
      BY <2>1, SMTT(60) DEF SignatureOf
    <3> QED BY <3>1, Shapes DEF Narrow, Broad
  <2>2. ASSUME mn \in {"fadd", "fsub", "fmul", "fdiv", "frem"} PROVE Balance(mn, 2, 1, Narrow)
    <3>1. SignatureOf(mn) = Sig(mn, <<"F", "F">>, <<"F">>)
      BY <2>2, SMTT(60) DEF SignatureOf
    <3> QED BY <3>1, Shapes DEF Narrow, Broad
  <2>3. ASSUME mn \in {"fcmpg", "fcmpl"} PROVE Balance(mn, 2, 1, Narrow)
    <3>1. SignatureOf(mn) = Sig(mn, <<"F", "F">>, <<"I">>)
      BY <2>3, SMTT(60) DEF SignatureOf
    <3> QED BY <3>1, Shapes DEF Narrow, Broad
  <2>4. ASSUME mn \in {"dcmpg", "dcmpl"} PROVE Balance(mn, 2, 1, Narrow)
    <3>1. SignatureOf(mn) = Sig(mn, <<"D", "D">>, <<"I">>)
      BY <2>4, SMTT(60) DEF SignatureOf
    <3> QED BY <3>1, Shapes DEF Narrow, Broad
  <2>5. ASSUME mn \in {"iaload", "baload", "caload", "saload"} PROVE Balance(mn, 2, 1, Narrow)
    <3>1. SignatureOf(mn) = Sig(mn, <<"A", "I">>, <<"I">>)
      BY <2>5, SMTT(60) DEF SignatureOf
    <3> QED BY <3>1, Shapes DEF Narrow, Broad
  <2>6. ASSUME mn = "faload" PROVE Balance(mn, 2, 1, Narrow)
    <3>1. SignatureOf(mn) = Sig(mn, <<"A", "I">>, <<"F">>)
      BY <2>6, SMTT(60) DEF SignatureOf
    <3> QED BY <3>1, Shapes DEF Narrow, Broad
  <2>7. ASSUME mn = "aaload" PROVE Balance(mn, 2, 1, Narrow)
    <3>1. SignatureOf(mn) = Sig(mn, <<"A", "I">>, <<"A">>)
      BY <2>7, SMTT(60) DEF SignatureOf
    <3> QED BY <3>1, Shapes DEF Narrow, Broad
  <2> QED BY <1>6, <2>1, <2>2, <2>3, <2>4, <2>5, <2>6, <2>7 DEF TwoToNarrow
<1>7. ASSUME mn \in TwoToWide PROVE Balance(mn, 2, 1, Broad)
  <2>1. ASSUME mn \in {"dadd", "dsub", "dmul", "ddiv", "drem"} PROVE Balance(mn, 2, 1, Broad)
    <3>1. SignatureOf(mn) = Sig(mn, <<"D", "D">>, <<"D">>)
      BY <2>1, SMTT(60) DEF SignatureOf
    <3> QED BY <3>1, Shapes DEF Narrow, Broad
  <2>2. ASSUME mn = "daload" PROVE Balance(mn, 2, 1, Broad)
    <3>1. SignatureOf(mn) = Sig(mn, <<"A", "I">>, <<"D">>)
      BY <2>2, SMTT(60) DEF SignatureOf
    <3> QED BY <3>1, Shapes DEF Narrow, Broad
  <2>3. ASSUME mn = "laload" PROVE Balance(mn, 2, 1, Broad)
    <3>1. SignatureOf(mn) = Sig(mn, <<"A", "I">>, <<"J">>)
      BY <2>3, SMTT(60) DEF SignatureOf
    <3> QED BY <3>1, Shapes DEF Narrow, Broad
  <2> QED BY <1>7, <2>1, <2>2, <2>3 DEF TwoToWide
<1>8. ASSUME mn \in ArrayStores PROVE Balance(mn, 3, 0, Narrow)
  <2>1. ASSUME mn \in {"iastore", "bastore", "castore", "sastore"} PROVE Balance(mn, 3, 0, Narrow)
    <3>1. SignatureOf(mn) = Sig(mn, <<"A", "I", "I">>, <<>>)
      BY <2>1, SMTT(60) DEF SignatureOf
    <3> QED BY <3>1, Shapes DEF Narrow, Broad
  <2>2. ASSUME mn = "fastore" PROVE Balance(mn, 3, 0, Narrow)
    <3>1. SignatureOf(mn) = Sig(mn, <<"A", "I", "F">>, <<>>)
      BY <2>2, SMTT(60) DEF SignatureOf
    <3> QED BY <3>1, Shapes DEF Narrow, Broad
  <2>3. ASSUME mn = "aastore" PROVE Balance(mn, 3, 0, Narrow)
    <3>1. SignatureOf(mn) = Sig(mn, <<"A", "I", "A">>, <<>>)
      BY <2>3, SMTT(60) DEF SignatureOf
    <3> QED BY <3>1, Shapes DEF Narrow, Broad
  <2>4. ASSUME mn = "dastore" PROVE Balance(mn, 3, 0, Narrow)
    <3>1. SignatureOf(mn) = Sig(mn, <<"A", "I", "D">>, <<>>)
      BY <2>4, SMTT(60) DEF SignatureOf
    <3> QED BY <3>1, Shapes DEF Narrow, Broad
  <2>5. ASSUME mn = "lastore" PROVE Balance(mn, 3, 0, Narrow)
    <3>1. SignatureOf(mn) = Sig(mn, <<"A", "I", "J">>, <<>>)
      BY <2>5, SMTT(60) DEF SignatureOf
    <3> QED BY <3>1, Shapes DEF Narrow, Broad
  <2> QED BY <1>8, <2>1, <2>2, <2>3, <2>4, <2>5 DEF ArrayStores
<1>9. ASSUME mn \in LongBinary PROVE Balance(mn, 2, 1, Broad)
  <2>1. ASSUME mn \in {"ladd", "lsub", "lmul", "ldiv", "lrem", "land", "lor", "lxor"}
        PROVE Balance(mn, 2, 1, Broad)
    <3>1. SignatureOf(mn) = Sig(mn, <<"J", "J">>, <<"J">>)
      BY <2>1, SMTT(60) DEF SignatureOf
    <3> QED BY <3>1, Shapes DEF Narrow, Broad
  <2>2. ASSUME mn \in {"lshl", "lshr", "lushr"} PROVE Balance(mn, 2, 1, Broad)
    <3>1. SignatureOf(mn) = Sig(mn, <<"J", "I">>, <<"J">>)
      BY <2>2, SMTT(60) DEF SignatureOf
    <3> QED BY <3>1, Shapes DEF Narrow, Broad
  <2> QED BY <1>9, <2>1, <2>2 DEF LongBinary
<1>10. ASSUME mn \in LongUnary PROVE Balance(mn, 1, 1, Broad)
  <2>1. ASSUME mn = "lneg" PROVE Balance(mn, 1, 1, Broad)
    <3>1. SignatureOf(mn) = Sig(mn, <<"J">>, <<"J">>)
      BY <2>1, SMTT(60) DEF SignatureOf
    <3> QED BY <3>1, Shapes DEF Narrow, Broad
  <2>2. ASSUME mn = "i2l" PROVE Balance(mn, 1, 1, Broad)
    <3>1. SignatureOf(mn) = Sig(mn, <<"I">>, <<"J">>)
      BY <2>2, SMTT(60) DEF SignatureOf
    <3> QED BY <3>1, Shapes DEF Narrow, Broad
  <2>3. ASSUME mn = "f2l" PROVE Balance(mn, 1, 1, Broad)
    <3>1. SignatureOf(mn) = Sig(mn, <<"F">>, <<"J">>)
      BY <2>3, SMTT(60) DEF SignatureOf
    <3> QED BY <3>1, Shapes DEF Narrow, Broad
  <2>4. ASSUME mn = "d2l" PROVE Balance(mn, 1, 1, Broad)
    <3>1. SignatureOf(mn) = Sig(mn, <<"D">>, <<"J">>)
      BY <2>4, SMTT(60) DEF SignatureOf
    <3> QED BY <3>1, Shapes DEF Narrow, Broad
  <2> QED BY <1>10, <2>1, <2>2, <2>3, <2>4 DEF LongUnary
<1>11. ASSUME mn \in IfOne PROVE Balance(mn, 1, 0, Narrow)
  <2>1. ASSUME mn \in {"ifeq", "ifne", "iflt", "ifge", "ifgt", "ifle"}
        PROVE Balance(mn, 1, 0, Narrow)
    <3>1. SignatureOf(mn) = Sig(mn, <<"I">>, <<>>)
      BY <2>1, SMTT(60) DEF SignatureOf
    <3> QED BY <3>1, Shapes DEF Narrow, Broad
  <2>2. ASSUME mn \in {"ifnull", "ifnonnull"} PROVE Balance(mn, 1, 0, Narrow)
    <3>1. SignatureOf(mn) = Sig(mn, <<"A">>, <<>>)
      BY <2>2, SMTT(60) DEF SignatureOf
    <3> QED BY <3>1, Shapes DEF Narrow, Broad
  <2> QED BY <1>11, <2>1, <2>2 DEF IfOne
<1>12. ASSUME mn \in IfTwo PROVE Balance(mn, 2, 0, Narrow)
  <2>1. ASSUME mn \in {"if_icmpeq", "if_icmpne", "if_icmplt", "if_icmpge", "if_icmpgt", "if_icmple"}
        PROVE Balance(mn, 2, 0, Narrow)
    <3>1. SignatureOf(mn) = Sig(mn, <<"I", "I">>, <<>>)
      BY <2>1, SMTT(60) DEF SignatureOf
    <3> QED BY <3>1, Shapes DEF Narrow, Broad
  <2>2. ASSUME mn \in {"if_acmpeq", "if_acmpne"} PROVE Balance(mn, 2, 0, Narrow)
    <3>1. SignatureOf(mn) = Sig(mn, <<"A", "A">>, <<>>)
      BY <2>2, SMTT(60) DEF SignatureOf
    <3> QED BY <3>1, Shapes DEF Narrow, Broad
  <2> QED BY <1>12, <2>1, <2>2 DEF IfTwo
<1>13. ASSUME mn \in ValueReturns PROVE Balance(mn, 1, 0, Narrow)
  <2>1. ASSUME mn = "ireturn" PROVE Balance(mn, 1, 0, Narrow)
    <3>1. SignatureOf(mn) = Sig(mn, <<"I">>, <<>>)
      BY <2>1, SMTT(60) DEF SignatureOf
    <3> QED BY <3>1, Shapes DEF Narrow, Broad
  <2>2. ASSUME mn = "lreturn" PROVE Balance(mn, 1, 0, Narrow)
    <3>1. SignatureOf(mn) = Sig(mn, <<"J">>, <<>>)
      BY <2>2, SMTT(60) DEF SignatureOf
    <3> QED BY <3>1, Shapes DEF Narrow, Broad
  <2>3. ASSUME mn = "freturn" PROVE Balance(mn, 1, 0, Narrow)
    <3>1. SignatureOf(mn) = Sig(mn, <<"F">>, <<>>)
      BY <2>3, SMTT(60) DEF SignatureOf
    <3> QED BY <3>1, Shapes DEF Narrow, Broad
  <2>4. ASSUME mn = "dreturn" PROVE Balance(mn, 1, 0, Narrow)
    <3>1. SignatureOf(mn) = Sig(mn, <<"D">>, <<>>)
      BY <2>4, SMTT(60) DEF SignatureOf
    <3> QED BY <3>1, Shapes DEF Narrow, Broad
  <2>5. ASSUME mn = "areturn" PROVE Balance(mn, 1, 0, Narrow)
    <3>1. SignatureOf(mn) = Sig(mn, <<"A">>, <<>>)
      BY <2>5, SMTT(60) DEF SignatureOf
    <3> QED BY <3>1, Shapes DEF Narrow, Broad
  <2> QED BY <1>13, <2>1, <2>2, <2>3, <2>4, <2>5 DEF ValueReturns
<1>14. ASSUME mn \in Switches PROVE Balance(mn, 1, 0, Narrow)
  <2>1. SignatureOf(mn) = Sig(mn, <<"I">>, <<>>)
    BY <1>14, SMTT(60) DEF SignatureOf, Switches
  <2> QED BY <2>1, Shapes DEF Narrow, Broad
<1>15. ASSUME mn = "lconst_1" PROVE Balance(mn, 0, 1, Broad)
  <2>1. SignatureOf(mn) = Sig(mn, <<>>, <<"J">>)
    BY <1>15, SMTT(60) DEF SignatureOf
  <2> QED BY <2>1, Shapes DEF Narrow, Broad
<1>16. ASSUME mn = "lconst_0" PROVE Balance(mn, 0, 1, Broad)
  <2>1. SignatureOf(mn) = Sig(mn, <<>>, <<"J">>)
    BY <1>16, SMTT(60) DEF SignatureOf
  <2> QED BY <2>1, Shapes DEF Narrow, Broad
<1>17. ASSUME mn = "lcmp" PROVE Balance(mn, 2, 1, Narrow)
  <2>1. SignatureOf(mn) = Sig(mn, <<"J", "J">>, <<"I">>)
    BY <1>17, SMTT(60) DEF SignatureOf
  <2> QED BY <2>1, Shapes DEF Narrow, Broad
<1>18. ASSUME mn = "lload" PROVE Balance(mn, 0, 1, Broad)
  <2>1. SignatureOf(mn) = Sig(mn, <<>>, <<"J">>)
    BY <1>18, SMTT(60) DEF SignatureOf
  <2> QED BY <2>1, Shapes DEF Narrow, Broad
<1>19. ASSUME mn = "aload" PROVE Balance(mn, 0, 1, Narrow)
  <2>1. SignatureOf(mn) = Sig(mn, <<>>, <<"A">>)
    BY <1>19, SMTT(60) DEF SignatureOf
  <2> QED BY <2>1, Shapes DEF Narrow, Broad
<1>20. ASSUME mn = "lstore" PROVE Balance(mn, 1, 0, Narrow)
  <2>1. SignatureOf(mn) = Sig(mn, <<"J">>, <<>>)
    BY <1>20, SMTT(60) DEF SignatureOf
  <2> QED BY <2>1, Shapes DEF Narrow, Broad
<1>21. ASSUME mn = "astore" PROVE Balance(mn, 1, 0, Narrow)
  <2>1. SignatureOf(mn) = Sig(mn, <<"A">>, <<>>)
    BY <1>21, SMTT(60) DEF SignatureOf
  <2> QED BY <2>1, Shapes DEF Narrow, Broad
<1>22. ASSUME mn = "athrow" PROVE Balance(mn, 1, 0, Narrow)
  <2>1. SignatureOf(mn) = Sig(mn, <<"A">>, <<>>)
    BY <1>22, SMTT(60) DEF SignatureOf
  <2> QED BY <2>1, Shapes DEF Narrow, Broad
<1>23. ASSUME mn = "goto" PROVE Balance(mn, 0, 0, Narrow)
  <2>1. SignatureOf(mn) = Sig(mn, <<>>, <<>>)
    BY <1>23, SMTT(60) DEF SignatureOf
  <2> QED BY <2>1, Shapes DEF Narrow, Broad
<1>24. ASSUME mn = "nop" PROVE Balance(mn, 0, 0, Narrow)
  <2>1. SignatureOf(mn) = Sig(mn, <<>>, <<>>)
    BY <1>24, SMTT(60) DEF SignatureOf
  <2> QED BY <2>1, Shapes DEF Narrow, Broad
<1>25. ASSUME mn = "iinc" PROVE Balance(mn, 0, 0, Narrow)
  <2>1. SignatureOf(mn) = Sig(mn, <<>>, <<>>)
    BY <1>25, SMTT(60) DEF SignatureOf
  <2> QED BY <2>1, Shapes DEF Narrow, Broad
<1>26. ASSUME mn = "return" PROVE Balance(mn, 0, 0, Narrow)
  <2>1. SignatureOf(mn) = Sig(mn, <<>>, <<>>)
    BY <1>26, SMTT(60) DEF SignatureOf
  <2> QED BY <2>1, Shapes DEF Narrow, Broad
<1> QED BY <1>1, <1>2, <1>3, <1>4, <1>5, <1>6, <1>7, <1>8, <1>9, <1>10, <1>11, <1>12, <1>13,
           <1>14, <1>15, <1>16, <1>17, <1>18, <1>19, <1>20, <1>21, <1>22, <1>23, <1>24, <1>25,
           <1>26

\* The lowering, by the mnemonic: the one case of ClassifyOp that applies.
LEMMA Classified ==
  ASSUME NEW i
  PROVE
    /\ i.mn \in NarrowSources => ClassifyOp(i) = Other(0, <<FALSE>>)
    /\ i.mn \in WideSources => ClassifyOp(i) = Other(0, <<TRUE>>)
    /\ i.mn \in Sinks => ClassifyOp(i) = Other(1, <<>>)
    /\ i.mn \in ToNarrow => ClassifyOp(i) = Other(1, <<FALSE>>)
    /\ i.mn \in ToWide => ClassifyOp(i) = Other(1, <<TRUE>>)
    /\ i.mn \in TwoToNarrow => ClassifyOp(i) = Other(2, <<FALSE>>)
    /\ i.mn \in TwoToWide => ClassifyOp(i) = Other(2, <<TRUE>>)
    /\ i.mn \in ArrayStores => ClassifyOp(i) = Other(3, <<>>)
    /\ i.mn = "multianewarray" => ClassifyOp(i) = Other(i.dims, <<FALSE>>)
    /\ i.mn \in {"nop", "iinc", "invokedynamic"} => ClassifyOp(i) = Other(0, <<>>)
    /\ i.mn \in LongBinary => ClassifyOp(i) = [name |-> "LongCompute", pops |-> 2]
    /\ i.mn \in LongUnary => ClassifyOp(i) = [name |-> "LongCompute", pops |-> 1]
    /\ i.mn = "lconst_0" => ClassifyOp(i) = [name |-> "LongConst", zero |-> TRUE]
    /\ i.mn = "lconst_1" => ClassifyOp(i) = [name |-> "LongConst", zero |-> FALSE]
    /\ i.mn = "ldc2_w" => ClassifyOp(i) = Constant(i)
    /\ i.mn = "lcmp" => ClassifyOp(i) = [name |-> "LongCmp"]
    /\ i.mn = "lload" => ClassifyOp(i) = [name |-> "LoadLong", n |-> i.n]
    /\ i.mn = "lstore" => ClassifyOp(i) = [name |-> "StoreLong", n |-> i.n]
    /\ i.mn = "aload" => ClassifyOp(i) = [name |-> "LoadRef", n |-> i.n]
    /\ i.mn = "astore" => ClassifyOp(i) = [name |-> "StoreRef", n |-> i.n]
    /\ i.mn = "getfield" => ClassifyOp(i) = Member("GetField", i)
    /\ i.mn = "putfield" => ClassifyOp(i) = Member("PutField", i)
    /\ i.mn = "getstatic" => ClassifyOp(i) = Member("GetStatic", i)
    /\ i.mn = "putstatic" => ClassifyOp(i) = Member("PutStatic", i)
    /\ i.mn \in Invokes => ClassifyOp(i) = Call(i)
    /\ i.mn = "goto" => ClassifyOp(i) = [name |-> "Goto", target |-> Target(i)]
    /\ i.mn \in IfOne => ClassifyOp(i) = Branch(i, 1)
    /\ i.mn \in IfTwo => ClassifyOp(i) = Branch(i, 2)
    /\ i.mn \in Switches => ClassifyOp(i) = [name |-> "Switch", targets |-> {i.at + d : d \in i.to}]
    /\ i.mn \in ValueReturns => ClassifyOp(i) = [name |-> "Return", pops |-> 1]
    /\ i.mn = "return" => ClassifyOp(i) = [name |-> "Return", pops |-> 0]
    /\ i.mn = "athrow" => ClassifyOp(i) = [name |-> "Athrow"]
    /\ i.mn \in Shuffles => ClassifyOp(i) = [name |-> i.mn]
<1> USE DEF LongBinary, LongUnary, Invokes, IfOne, IfTwo, ValueReturns, Shuffles, Switches,
            NarrowSources, WideSources, Sinks, ToNarrow, ToWide, TwoToNarrow, TwoToWide, ArrayStores
<1>1. ASSUME i.mn \in NarrowSources PROVE ClassifyOp(i) = Other(0, <<FALSE>>)
  BY <1>1, SMTT(60) DEF ClassifyOp, Rest
<1>2. ASSUME i.mn \in WideSources PROVE ClassifyOp(i) = Other(0, <<TRUE>>)
  BY <1>2, SMTT(60) DEF ClassifyOp, Rest
<1>3. ASSUME i.mn \in Sinks PROVE ClassifyOp(i) = Other(1, <<>>)
  BY <1>3, SMTT(60) DEF ClassifyOp, Rest
<1>4. ASSUME i.mn \in ToNarrow PROVE ClassifyOp(i) = Other(1, <<FALSE>>)
  BY <1>4, SMTT(60) DEF ClassifyOp, Rest
<1>5. ASSUME i.mn \in ToWide PROVE ClassifyOp(i) = Other(1, <<TRUE>>)
  BY <1>5, SMTT(60) DEF ClassifyOp, Rest
<1>6. ASSUME i.mn \in TwoToNarrow PROVE ClassifyOp(i) = Other(2, <<FALSE>>)
  BY <1>6, SMTT(60) DEF ClassifyOp, Rest
<1>7. ASSUME i.mn \in TwoToWide PROVE ClassifyOp(i) = Other(2, <<TRUE>>)
  BY <1>7, SMTT(60) DEF ClassifyOp, Rest
<1>8. ASSUME i.mn \in ArrayStores PROVE ClassifyOp(i) = Other(3, <<>>)
  BY <1>8, SMTT(60) DEF ClassifyOp, Rest
<1>9. ASSUME i.mn = "multianewarray" PROVE ClassifyOp(i) = Other(i.dims, <<FALSE>>)
  BY <1>9, SMTT(60) DEF ClassifyOp, Rest
<1>10. ASSUME i.mn \in {"nop", "iinc", "invokedynamic"} PROVE ClassifyOp(i) = Other(0, <<>>)
  BY <1>10, SMTT(60) DEF ClassifyOp, Rest
<1>11. ASSUME i.mn \in LongBinary PROVE ClassifyOp(i) = [name |-> "LongCompute", pops |-> 2]
  BY <1>11, SMTT(60) DEF ClassifyOp, Rest
<1>12. ASSUME i.mn \in LongUnary PROVE ClassifyOp(i) = [name |-> "LongCompute", pops |-> 1]
  BY <1>12, SMTT(60) DEF ClassifyOp, Rest
<1>13. ASSUME i.mn = "lconst_0" PROVE ClassifyOp(i) = [name |-> "LongConst", zero |-> TRUE]
  BY <1>13, SMTT(60) DEF ClassifyOp, Rest
<1>14. ASSUME i.mn = "lconst_1" PROVE ClassifyOp(i) = [name |-> "LongConst", zero |-> FALSE]
  BY <1>14, SMTT(60) DEF ClassifyOp, Rest
<1>15. ASSUME i.mn = "ldc2_w" PROVE ClassifyOp(i) = Constant(i)
  BY <1>15, SMTT(60) DEF ClassifyOp, Rest
<1>16. ASSUME i.mn = "lcmp" PROVE ClassifyOp(i) = [name |-> "LongCmp"]
  BY <1>16, SMTT(60) DEF ClassifyOp, Rest
<1>17. ASSUME i.mn = "lload" PROVE ClassifyOp(i) = [name |-> "LoadLong", n |-> i.n]
  BY <1>17, SMTT(60) DEF ClassifyOp, Rest
<1>18. ASSUME i.mn = "lstore" PROVE ClassifyOp(i) = [name |-> "StoreLong", n |-> i.n]
  BY <1>18, SMTT(60) DEF ClassifyOp, Rest
<1>19. ASSUME i.mn = "aload" PROVE ClassifyOp(i) = [name |-> "LoadRef", n |-> i.n]
  BY <1>19, SMTT(60) DEF ClassifyOp, Rest
<1>20. ASSUME i.mn = "astore" PROVE ClassifyOp(i) = [name |-> "StoreRef", n |-> i.n]
  BY <1>20, SMTT(60) DEF ClassifyOp, Rest
<1>21. ASSUME i.mn = "getfield" PROVE ClassifyOp(i) = Member("GetField", i)
  BY <1>21, SMTT(60) DEF ClassifyOp, Rest
<1>22. ASSUME i.mn = "putfield" PROVE ClassifyOp(i) = Member("PutField", i)
  BY <1>22, SMTT(60) DEF ClassifyOp, Rest
<1>23. ASSUME i.mn = "getstatic" PROVE ClassifyOp(i) = Member("GetStatic", i)
  BY <1>23, SMTT(60) DEF ClassifyOp, Rest
<1>24. ASSUME i.mn = "putstatic" PROVE ClassifyOp(i) = Member("PutStatic", i)
  BY <1>24, SMTT(60) DEF ClassifyOp, Rest
<1>25. ASSUME i.mn \in Invokes PROVE ClassifyOp(i) = Call(i)
  BY <1>25, SMTT(60) DEF ClassifyOp, Rest
<1>26. ASSUME i.mn = "goto" PROVE ClassifyOp(i) = [name |-> "Goto", target |-> Target(i)]
  BY <1>26, SMTT(60) DEF ClassifyOp, Rest
<1>27. ASSUME i.mn \in IfOne PROVE ClassifyOp(i) = Branch(i, 1)
  BY <1>27, SMTT(60) DEF ClassifyOp, Rest
<1>28. ASSUME i.mn \in IfTwo PROVE ClassifyOp(i) = Branch(i, 2)
  BY <1>28, SMTT(60) DEF ClassifyOp, Rest
<1>29. ASSUME i.mn \in Switches
       PROVE ClassifyOp(i) = [name |-> "Switch", targets |-> {i.at + d : d \in i.to}]
  BY <1>29, SMTT(60) DEF ClassifyOp, Rest
<1>30. ASSUME i.mn \in ValueReturns PROVE ClassifyOp(i) = [name |-> "Return", pops |-> 1]
  BY <1>30, SMTT(60) DEF ClassifyOp, Rest
<1>31. ASSUME i.mn = "return" PROVE ClassifyOp(i) = [name |-> "Return", pops |-> 0]
  BY <1>31, SMTT(60) DEF ClassifyOp, Rest
<1>32. ASSUME i.mn = "athrow" PROVE ClassifyOp(i) = [name |-> "Athrow"]
  BY <1>32, SMTT(60) DEF ClassifyOp, Rest
<1>33. ASSUME i.mn \in Shuffles PROVE ClassifyOp(i) = [name |-> i.mn]
  BY <1>33, SMTT(60) DEF ClassifyOp, Rest
<1> HIDE DEF LongBinary, LongUnary, Invokes, IfOne, IfTwo, ValueReturns, Shuffles, Switches,
             NarrowSources, WideSources, Sinks, ToNarrow, ToWide, TwoToNarrow, TwoToWide, ArrayStores
<1> QED BY <1>1, <1>2, <1>3, <1>4, <1>5, <1>6, <1>7, <1>8, <1>9, <1>10, <1>11, <1>12, <1>13,
           <1>14, <1>15, <1>16, <1>17, <1>18, <1>19, <1>20, <1>21, <1>22, <1>23, <1>24, <1>25,
           <1>26, <1>27, <1>28, <1>29, <1>30, <1>31, <1>32, <1>33

-----------------------------------------------------------------------------
(* Frames: what `transfer` makes of the stack.                             *)

\* A frame: a stack that is a sequence, the locals and the fields.
Framed(f) ==
  /\ f = [stack |-> f.stack, locals |-> f.locals, fields |-> f.fields]
  /\ IsASequence(f.stack)
  /\ f.locals = [s \in Slots |-> f.locals[s]]
  /\ f.fields = [x \in Fields |-> f.fields[x]]

\* The frame with the top n entries of its stack replaced.
With(f, n, push) ==
  [stack |-> Replace(f.stack, n, push), locals |-> f.locals, fields |-> f.fields]

\* It is a frame.
LEMMA WithFramed ==
  ASSUME NEW f, Framed(f), NEW n \in Nat, n <= Len(f.stack), NEW push, IsASequence(push)
  PROVE  Framed(With(f, n, push))
BY Replaced DEF Framed, With

\* A new stack in a frame.
LEMMA NewStack ==
  ASSUME NEW f, f = [stack |-> f.stack, locals |-> f.locals, fields |-> f.fields], NEW s
  PROVE  [f EXCEPT !.stack = s] = [stack |-> s, locals |-> f.locals, fields |-> f.fields]
OBVIOUS

\* What is popped, and pushed on what is left.
LEMMA Popping ==
  ASSUME NEW f, Framed(f), NEW n \in Nat, n <= Len(f.stack)
  PROVE  Pop(f, n) = With(f, n, <<>>)
BY NewStack, Popped DEF Pop, Framed, With

\* What is pushed on what is left.
LEMMA PushPopped ==
  ASSUME NEW f, Framed(f), NEW n \in Nat, n <= Len(f.stack), NEW x
  PROVE  [Pop(f, n) EXCEPT !.stack = Append(@, x)] = With(f, n, <<x>>)
<1> DEFINE g == Pop(f, n)
<1>1. /\ g.stack = SubSeq(f.stack, 1, Len(f.stack) - n) /\ g.locals = f.locals /\ g.fields = f.fields
      /\ g = [stack |-> g.stack, locals |-> g.locals, fields |-> g.fields]
  BY NewStack DEF Pop, Framed
<1> HIDE DEF g
<1>2. [g EXCEPT !.stack = Append(@, x)]
        = [stack |-> Append(g.stack, x), locals |-> f.locals, fields |-> f.fields]
  BY <1>1, NewStack
<1>3. Append(g.stack, x) = Replace(f.stack, n, <<x>>)
  <2>1. IsASequence(f.stack)
    BY DEF Framed
  <2> QED BY <1>1, <2>1, PushedOne
<1> QED BY <1>2, <1>3 DEF With, g

\* Pushing on the whole stack.
LEMMA Pushing ==
  ASSUME NEW f, Framed(f), NEW x
  PROVE  [f EXCEPT !.stack = Append(@, x)] = With(f, 0, <<x>>)
<1>1. [f EXCEPT !.stack = Append(@, x)] = [stack |-> Append(f.stack, x), locals |-> f.locals, fields |-> f.fields]
  BY NewStack DEF Framed
<1>2. 0 \in Nat /\ 0 <= Len(f.stack) /\ IsASequence(f.stack)
  BY SequenceFacts DEF Framed
<1>3. Append(f.stack, x) = Replace(f.stack, 0, <<x>>)
  BY <1>2, PushedOne
<1> QED BY <1>1, <1>3 DEF With

\* A frame is itself with nothing replaced.
LEMMA Unmoved ==
  ASSUME NEW f, Framed(f)
  PROVE  f = With(f, 0, <<>>)
<1>1. 0 \in Nat /\ 0 <= Len(f.stack) /\ IsASequence(f.stack)
  BY SequenceFacts DEF Framed
<1>2. SubSeq(f.stack, 1, Len(f.stack) - 0) = f.stack
  BY <1>1, PushedOne
<1>3. SubSeq(f.stack, 1, Len(f.stack) - 0) = Replace(f.stack, 0, <<>>)
  BY <1>1, Popped
<1> QED BY <1>2, <1>3 DEF Framed, With

\* The n-th from the top.
LEMMA Topmost ==
  ASSUME NEW f, Framed(f), NEW n \in Nat, n <= Len(f.stack)
  PROVE  /\ Top(f, n) = f.stack[Len(f.stack) - n + 1]
         /\ Again(f, n) = With(f, 0, <<f.stack[Len(f.stack) - n + 1]>>)
<1>1. ~(n > Len(f.stack))
  BY SequenceFacts DEF Framed
<1>2. Top(f, n) = f.stack[Len(f.stack) - n + 1]
  BY <1>1 DEF Top, Item
<1>3. Again(f, n) = [f EXCEPT !.stack = Append(@, Top(f, n))]
  BY <1>1 DEF Again
<1> QED BY <1>2, <1>3, Pushing

\* What is of no interest to handles.
LEMMA OtherShape ==
  ASSUME NEW f, Framed(f), NEW n \in Nat, n <= Len(f.stack), NEW pushes, IsASequence(pushes), NEW at
  PROVE  LET junk == [k \in 1..Len(pushes) |-> Item(NotHandle, pushes[k])]
         IN  /\ Transfer(f, Other(n, pushes), at) = With(f, n, junk)
             /\ IsASequence(junk) /\ Len(junk) = Len(pushes)
<1> DEFINE op == Other(n, pushes)
           junk == [k \in 1..Len(pushes) |-> Item(NotHandle, pushes[k])]
<1>1. op.name = "Other" /\ op.pops = n /\ op.pushes = pushes
  BY DEF Other
<1>2. DOMAIN pushes = 1..Len(pushes) /\ Len(pushes) \in Nat
  BY SequenceFacts
<1> HIDE DEF op
<1>3. Transfer(f, op, at) = [Pop(f, op.pops) EXCEPT
                               !.stack = @ \o [k \in DOMAIN op.pushes |-> Item(NotHandle, op.pushes[k])]]
  BY <1>1, SMTT(60) DEF Transfer, Shuffles
<1>4. Transfer(f, op, at) = [Pop(f, n) EXCEPT !.stack = @ \o junk]
  BY <1>1, <1>2, <1>3
<1>5. Pop(f, n) = [stack |-> SubSeq(f.stack, 1, Len(f.stack) - n), locals |-> f.locals, fields |-> f.fields]
  BY NewStack DEF Pop, Framed
<1>6. IsASequence(junk) /\ Len(junk) = Len(pushes)
  <2>1. junk \in Seq({junk[k] : k \in 1..Len(pushes)}) /\ Len(junk) = Len(pushes)
    BY <1>2
  <2> QED BY <2>1, AnySequence
<1> HIDE DEF junk
<1>7. [Pop(f, n) EXCEPT !.stack = @ \o junk] = With(f, n, junk)
  <2> DEFINE g == Pop(f, n)
  <2>1. /\ g.stack = SubSeq(f.stack, 1, Len(f.stack) - n) /\ g.locals = f.locals /\ g.fields = f.fields
      /\ g = [stack |-> g.stack, locals |-> g.locals, fields |-> g.fields]
    BY <1>5
  <2> HIDE DEF g
  <2>2. [g EXCEPT !.stack = @ \o junk] = [stack |-> g.stack \o junk, locals |-> f.locals, fields |-> f.fields]
    BY <2>1, NewStack
  <2> QED BY <2>1, <2>2 DEF With, Replace, g
<1> QED BY <1>4, <1>6, <1>7 DEF op, junk

\* What reading a field, the assertion flag, a comparison and a constant push.
Read(f, x) == IF Peek(f, 1).tag = "This" /\ x \in Fields THEN Handle(FieldPtr[x], "Live", FieldId(x), x)
              ELSE NotHandle
Flag(x) == IF x = "$assertionsDisabled" THEN Plain("AssertFlag") ELSE NotHandle
Token(f) == LET vs == {Peek(f, 1), Peek(f, 2)}
                read == {v \in vs : IsHandle(v) /\ v.from # NoField}
            IN  IF read # {} /\ Plain("Zero") \in vs THEN CmpFieldZero((CHOOSE v \in read : TRUE).from)
                ELSE NotHandle
Const(i) == IF i.value = 0 THEN Plain("Zero") ELSE Plain("Forged")

\* What the instructions that touch neither the locals nor the fields make of a
\* frame.
LEMMA PureShapes ==
  ASSUME NEW i, NEW f, Framed(f), NEW at
  PROVE  LET T == Transfer(f, ClassifyOp(i), at)
         IN
    /\ i.mn = "lconst_0" => T = With(f, 0, <<Item(Plain("Zero"), TRUE)>>)
    /\ i.mn = "lconst_1" => T = With(f, 0, <<Item(Plain("Forged"), TRUE)>>)
    /\ i.mn = "ldc2_w" /\ i.long => T = With(f, 0, <<Item(Const(i), TRUE)>>)
    /\ i.mn \in LongBinary /\ 2 <= Len(f.stack) => T = With(f, 2, <<Item(Plain("Forged"), TRUE)>>)
    /\ i.mn \in LongUnary /\ 1 <= Len(f.stack) => T = With(f, 1, <<Item(Plain("Forged"), TRUE)>>)
    /\ i.mn = "lload" => T = With(f, 0, <<Item(Reid(f.locals[i.n], LocalId(i.n)), TRUE)>>)
    /\ i.mn = "aload" => T = With(f, 0, <<Item(f.locals[i.n], FALSE)>>)
    /\ i.mn = "getfield" /\ 1 <= Len(f.stack) =>
         T = With(f, 1, <<Item(Read(f, i.field.name), Wide(i.field.type))>>)
    /\ i.mn = "getstatic" => T = With(f, 0, <<Item(Flag(i.field.name), Wide(i.field.type))>>)
    /\ i.mn = "lcmp" /\ 2 <= Len(f.stack) => T = With(f, 2, <<Item(Token(f), FALSE)>>)
    /\ i.mn \in {"putstatic", "athrow"} \cup Switches /\ 1 <= Len(f.stack) => T = With(f, 1, <<>>)
    /\ i.mn \in IfOne /\ 1 <= Len(f.stack) => T = With(f, 1, <<>>)
    /\ i.mn \in IfTwo /\ 2 <= Len(f.stack) => T = With(f, 2, <<>>)
    /\ i.mn = "goto" => T = With(f, 0, <<>>)
<1> DEFINE op == ClassifyOp(i)
<1>1. Len(f.stack) \in Nat /\ 0 \in Nat /\ 1 \in Nat /\ 2 \in Nat /\ 0 <= Len(f.stack)
  BY SequenceFacts DEF Framed
<1>2. ASSUME i.mn = "lconst_0" PROVE Transfer(f, op, at) = With(f, 0, <<Item(Plain("Zero"), TRUE)>>)
  <2>1. op = [name |-> "LongConst", zero |-> TRUE]
    BY <1>2, Classified
  <2>2. op.name = "LongConst" /\ op.zero
    BY <2>1
  <2> HIDE DEF op
  <2>3. Transfer(f, op, at) = [f EXCEPT !.stack = Append(@, Item(Plain("Zero"), TRUE))]
    BY <2>2, SMTT(60) DEF Transfer, Shuffle, Shuffles, Push
  <2> QED BY <1>1, <2>3, Popping, PushPopped, Pushing, Unmoved
<1>3. ASSUME i.mn = "lconst_1"
      PROVE Transfer(f, op, at) = With(f, 0, <<Item(Plain("Forged"), TRUE)>>)
  <2>1. op = [name |-> "LongConst", zero |-> FALSE]
    BY <1>3, Classified
  <2>2. op.name = "LongConst" /\ ~op.zero
    BY <2>1
  <2> HIDE DEF op
  <2>3. Transfer(f, op, at) = [f EXCEPT !.stack = Append(@, Item(Plain("Forged"), TRUE))]
    BY <2>2, SMTT(60) DEF Transfer, Shuffle, Shuffles, Push
  <2> QED BY <1>1, <2>3, Popping, PushPopped, Pushing, Unmoved
<1>4. ASSUME i.mn = "ldc2_w", i.long
      PROVE Transfer(f, op, at) = With(f, 0, <<Item(Const(i), TRUE)>>)
  <2>1. op = [name |-> "LongConst", zero |-> i.value = 0]
    BY <1>4, Classified DEF Constant
  <2>2. PICK b : b = (i.value = 0) /\ op = [name |-> "LongConst", zero |-> b]
    BY <2>1
  <2>3. op.name = "LongConst" /\ op.zero = b
    BY <2>2
  <2> HIDE DEF op
  <2>4. Transfer(f, op, at) = [f EXCEPT !.stack = Append(@, Item(IF op.zero THEN Plain("Zero") ELSE Plain("Forged"), TRUE))]
    BY <2>3, SMTT(60) DEF Transfer, Shuffle, Shuffles, Push
  <2>5. (IF op.zero THEN Plain("Zero") ELSE Plain("Forged")) = Const(i)
    BY <2>2, <2>3 DEF Const
  <2>6. Transfer(f, op, at) = [f EXCEPT !.stack = Append(@, Item(Const(i), TRUE))]
    BY <2>4, <2>5
  <2> QED BY <2>6, Pushing
<1>5. ASSUME i.mn \in LongBinary, 2 <= Len(f.stack)
      PROVE  Transfer(f, op, at) = With(f, 2, <<Item(Plain("Forged"), TRUE)>>)
  <2>1. op = [name |-> "LongCompute", pops |-> 2]
    BY <1>5, Classified
  <2>2. op.name = "LongCompute" /\ op.pops = 2
    BY <2>1
  <2> HIDE DEF op
  <2>3. Transfer(f, op, at) = [Pop(f, 2) EXCEPT !.stack = Append(@, Item(Plain("Forged"), TRUE))]
    BY <2>2, SMTT(60) DEF Transfer, Shuffle, Shuffles, Push
  <2> QED BY <1>5, <1>1, <2>3, Popping, PushPopped, Pushing, Unmoved
<1>6. ASSUME i.mn \in LongUnary, 1 <= Len(f.stack)
      PROVE  Transfer(f, op, at) = With(f, 1, <<Item(Plain("Forged"), TRUE)>>)
  <2>1. op = [name |-> "LongCompute", pops |-> 1]
    BY <1>6, Classified
  <2>2. op.name = "LongCompute" /\ op.pops = 1
    BY <2>1
  <2> HIDE DEF op
  <2>3. Transfer(f, op, at) = [Pop(f, 1) EXCEPT !.stack = Append(@, Item(Plain("Forged"), TRUE))]
    BY <2>2, SMTT(60) DEF Transfer, Shuffle, Shuffles, Push
  <2> QED BY <1>6, <1>1, <2>3, Popping, PushPopped, Pushing, Unmoved
<1>7. ASSUME i.mn = "lload"
      PROVE Transfer(f, op, at) = With(f, 0, <<Item(Reid(f.locals[i.n], LocalId(i.n)), TRUE)>>)
  <2>1. op.name = "LoadLong" /\ op.n = i.n
    BY <1>7, Classified
  <2> HIDE DEF op
  <2>2. Transfer(f, op, at) = [f EXCEPT !.stack = Append(@, Item(Reid(f.locals[i.n], LocalId(i.n)), TRUE))]
    BY <2>1, SMTT(60) DEF Transfer, Shuffle, Shuffles, Push, LoadLong
  <2> QED BY <1>1, <2>2, Popping, PushPopped, Pushing, Unmoved
<1>8. ASSUME i.mn = "aload" PROVE Transfer(f, op, at) = With(f, 0, <<Item(f.locals[i.n], FALSE)>>)
  <2>1. op.name = "LoadRef" /\ op.n = i.n
    BY <1>8, Classified
  <2> HIDE DEF op
  <2>2. Transfer(f, op, at) = [f EXCEPT !.stack = Append(@, Item(f.locals[i.n], FALSE))]
    BY <2>1, SMTT(60) DEF Transfer, Shuffle, Shuffles, Push, LoadRef
  <2> QED BY <1>1, <2>2, Popping, PushPopped, Pushing, Unmoved
<1>9. ASSUME i.mn = "getfield", 1 <= Len(f.stack)
      PROVE  Transfer(f, op, at) = With(f, 1, <<Item(Read(f, i.field.name), Wide(i.field.type))>>)
  <2>1. op = [name |-> "GetField", field |-> i.field.name, wide |-> Wide(i.field.type)]
    BY <1>9, Classified DEF Member
  <2> DEFINE b == Wide(i.field.type)
  <2>2. op.name = "GetField" /\ op.field = i.field.name /\ op.wide = b
    BY <2>1
  <2> HIDE DEF op, b
  <2>3. Transfer(f, op, at) = [Pop(f, 1) EXCEPT !.stack = Append(@, Item(Read(f, i.field.name), b))]
    BY <2>2, SMTT(60) DEF Transfer, Shuffle, Shuffles, Push, GetField, Read, OnThis
  <2> QED BY <1>9, <1>1, <2>3, Popping, PushPopped, Pushing, Unmoved DEF b
<1>10. ASSUME i.mn = "getstatic"
      PROVE  Transfer(f, op, at) = With(f, 0, <<Item(Flag(i.field.name), Wide(i.field.type))>>)
  <2>1. op = [name |-> "GetStatic", field |-> i.field.name, wide |-> Wide(i.field.type)]
    BY <1>10, Classified DEF Member
  <2> DEFINE b == Wide(i.field.type)
  <2>2. op.name = "GetStatic" /\ op.field = i.field.name /\ op.wide = b
    BY <2>1
  <2> HIDE DEF op, b
  <2>3. Transfer(f, op, at) = [f EXCEPT !.stack = Append(@, Item(Flag(i.field.name), b))]
    BY <2>2, SMTT(60) DEF Transfer, Shuffle, Shuffles, Push, GetStatic, Flag
  <2> QED BY <1>1, <2>3, Popping, PushPopped, Pushing, Unmoved DEF b
<1>11. ASSUME i.mn = "lcmp", 2 <= Len(f.stack)
      PROVE  Transfer(f, op, at) = With(f, 2, <<Item(Token(f), FALSE)>>)
  <2>1. op.name = "LongCmp"
    BY <1>11, Classified
  <2> HIDE DEF op
  <2>3. Transfer(f, op, at) = [Pop(f, 2) EXCEPT !.stack = Append(@, Item(Token(f), FALSE))]
    BY <2>1, SMTT(60) DEF Transfer, Shuffle, Shuffles, Push, LongCmp, Token
  <2> QED BY <1>11, <1>1, <2>3, Popping, PushPopped, Pushing, Unmoved
<1>12. ASSUME i.mn \in {"putstatic", "athrow"} \cup Switches, 1 <= Len(f.stack)
      PROVE  Transfer(f, op, at) = With(f, 1, <<>>)
  <2>1. op.name \in {"PutStatic", "Switch", "Athrow"}
    <3>1. CASE i.mn = "putstatic"
      BY <3>1, Classified DEF Member
    <3>2. CASE i.mn = "athrow"
      BY <3>2, Classified
    <3>3. CASE i.mn \in Switches
      BY <3>3, Classified
    <3> QED BY <1>12, <3>1, <3>2, <3>3
  <2> HIDE DEF op
  <2>3. Transfer(f, op, at) = Pop(f, 1)
    BY <2>1, SMTT(60) DEF Transfer, Shuffle, Shuffles, Push
  <2> QED BY <1>12, <1>1, <2>3, Popping, PushPopped, Pushing, Unmoved
<1>13. ASSUME i.mn \in IfOne, 1 <= Len(f.stack) PROVE Transfer(f, op, at) = With(f, 1, <<>>)
  <2>1. op.name = "Branch" /\ op.pops = 1
    BY <1>13, Classified DEF Branch
  <2> HIDE DEF op
  <2>3. Transfer(f, op, at) = Pop(f, 1)
    BY <2>1, SMTT(60) DEF Transfer, Shuffle, Shuffles, Push
  <2> QED BY <1>13, <1>1, <2>3, Popping, PushPopped, Pushing, Unmoved
<1>14. ASSUME i.mn \in IfTwo, 2 <= Len(f.stack) PROVE Transfer(f, op, at) = With(f, 2, <<>>)
  <2>1. op.name = "Branch" /\ op.pops = 2
    BY <1>14, Classified DEF Branch
  <2> HIDE DEF op
  <2>3. Transfer(f, op, at) = Pop(f, 2)
    BY <2>1, SMTT(60) DEF Transfer, Shuffle, Shuffles, Push
  <2> QED BY <1>14, <1>1, <2>3, Popping, PushPopped, Pushing, Unmoved
<1>15. ASSUME i.mn = "goto" PROVE Transfer(f, op, at) = With(f, 0, <<>>)
  <2>1. op.name = "Goto"
    BY <1>15, Classified
  <2> HIDE DEF op
  <2>3. Transfer(f, op, at) = f
    BY <2>1, SMTT(60) DEF Transfer, Shuffle, Shuffles, Push
  <2> QED BY <1>1, <2>3, Popping, PushPopped, Pushing, Unmoved
<1> QED BY <1>2, <1>3, <1>4, <1>5, <1>6, <1>7, <1>8, <1>9, <1>10, <1>11, <1>12, <1>13, <1>14, <1>15

\* Appending to a sequence of one.
LEMMA TwoAppended ==
  ASSUME NEW a, NEW b
  PROVE  Append(<<a>>, b) = <<a, b>>
<1>1. PICK x : x = <<a>>
  OBVIOUS
<1>2. PICK y : y = <<a, b>>
  OBVIOUS
<1>2a. PICK S : S = {a, b}
  OBVIOUS
<1>3. x \in Seq(S) /\ Len(x) = 1 /\ x[1] = a /\ b \in S
  BY <1>1, <1>2a
<1>4. IsASequence(y) /\ Len(y) = 2 /\ y[1] = a /\ y[2] = b
  BY <1>2, Few
<1>5. /\ Append(x, b) \in Seq(S) /\ Len(Append(x, b)) = 2
      /\ Append(x, b)[1] = a /\ Append(x, b)[2] = b
  <2>1. Append(x, b) \in Seq(S) /\ Len(Append(x, b)) = Len(x) + 1
    BY <1>3, AppendProperties
  <2>2. \A i \in 1..Len(x) : Append(x, b)[i] = x[i]
    BY <1>3, AppendProperties
  <2>3. Append(x, b)[Len(x) + 1] = b
    BY <1>3, AppendProperties
  <2> QED BY <1>3, <2>1, <2>2, <2>3
<1>6. IsASequence(Append(x, b))
  BY <1>5, AnySequence
<1>7. \A k \in 1..2 : Append(x, b)[k] = y[k]
  BY <1>4, <1>5
<1>8. Append(x, b) = y
  BY <1>4, <1>5, <1>6, <1>7, SameSequence
<1> QED BY <1>1, <1>2, <1>8

\* Swapping the topmost two is replacing them.
LEMMA Swapped ==
  ASSUME NEW s0, IsASequence(s0), 2 <= Len(s0)
  PROVE  SwapTop(s0) = Replace(s0, 2, <<s0[Len(s0) - 1 + 1], s0[Len(s0) - 2 + 1]>>)
<1> DEFINE n == Len(s0)
           t(k) == s0[n - k + 1]
           s == SwapTop(s0)
<1>0. Len(s0) \in Nat /\ IsASequence(s0) /\ 2 <= Len(s0)
  BY SequenceFacts
<1>3. s = [s0 EXCEPT ![n] = s0[n - 1], ![n - 1] = s0[n]]
  BY <1>0 DEF SwapTop
<1>4. s0 \in Seq(ToSet(s0)) /\ s0[n] \in ToSet(s0) /\ s0[n - 1] \in ToSet(s0)
  BY <1>0, SequenceFacts DEF IsASequence
<1>5. s \in Seq(ToSet(s0)) /\ Len(s) = n
  <2> DEFINE one == [s0 EXCEPT ![n] = s0[n - 1]]
  <2>1. n \in 1..Len(s0)
    BY <1>0
  <2>2. one \in Seq(ToSet(s0)) /\ Len(one) = n
    BY <1>4, <2>1, ExceptSeq
  <2> HIDE DEF one
  <2>3. n - 1 \in 1..Len(one)
    BY <1>0, <2>2
  <2>4. [one EXCEPT ![n - 1] = s0[n]] \in Seq(ToSet(s0)) /\ Len([one EXCEPT ![n - 1] = s0[n]]) = n
    BY <1>4, <2>2, <2>3, ExceptSeq
  <2>5. s = [one EXCEPT ![n - 1] = s0[n]]
    BY <1>3 DEF one
  <2> QED BY <2>4, <2>5
<1>6. IsASequence(s)
  BY <1>5, AnySequence
<1>7a. PICK p : p = <<t(1), t(2)>>
  OBVIOUS
<1>7. IsASequence(p) /\ Len(p) = 2 /\ p[1] = t(1) /\ p[2] = t(2)
  BY <1>7a, Few
<1> DEFINE r == Replace(s0, 2, p)
<1>8. /\ IsASequence(r) /\ Len(r) = n
      /\ \A k \in 1..(n - 2) : r[k] = s0[k]
      /\ \A k \in 1..2 : r[n - 2 + k] = p[k]
  <2>1. 2 \in Nat /\ n - 2 + 2 = n
    BY <1>0
  <2>2. IsASequence(p) /\ IsASequence(s0) /\ 2 <= n /\ 2 \in Nat
    BY <1>0, <1>7
  <2>3. IsASequence(r)
    BY <2>2, Replaced
  <2>4. Len(r) = n - 2 + Len(p)
    BY <2>2, Replaced
  <2>5. \A k \in 1..(n - 2) : r[k] = s0[k]
    BY <2>2, Replaced
  <2>6. \A k \in 1..Len(p) : r[n - 2 + k] = p[k]
    BY <2>2, Replaced
  <2> HIDE DEF r
  <2> QED BY <1>7, <2>1, <2>3, <2>4, <2>5, <2>6
<1> HIDE DEF r
<1>9. r[n - 1] = s0[n] /\ r[n] = s0[n - 1]
  <2>1. r[n - 2 + 1] = p[1] /\ r[n - 2 + 2] = p[2] /\ n - 2 + 1 = n - 1 /\ n - 2 + 2 = n /\ n - 1 + 1 = n
    BY <1>0, <1>8
  <2> QED BY <1>0, <1>7, <2>1
<1>10. /\ \A k \in 1..n : k # n /\ k # n - 1 => s[k] = s0[k]
       /\ s[n] = s0[n - 1] /\ s[n - 1] = s0[n]
  BY <1>0, <1>3, SequenceFacts
<1> HIDE DEF s
<1>11. \A k \in 1..n : s[k] = r[k]
  <2> TAKE k \in 1..n
  <2>1. k \in 1..(n - 2) \/ k = n - 1 \/ k = n
    BY <1>0
  <2> QED BY <1>0, <1>8, <1>9, <1>10, <2>1
<1>12. s = r
  BY <1>0, <1>5, <1>6, <1>8, <1>11, SameSequence
<1> QED BY <1>7a, <1>12 DEF r, s

\* The shuffles replace what is on top by entries that were there.
LEMMA ShuffleShapes ==
  ASSUME NEW i, NEW f, Framed(f), NEW at
  PROVE  LET T == Transfer(f, ClassifyOp(i), at)
             t(k) == f.stack[Len(f.stack) - k + 1]
         IN
    /\ i.mn = "dup" /\ 1 <= Len(f.stack) => T = With(f, 0, <<t(1)>>)
    /\ i.mn = "dup2" /\ 1 <= Len(f.stack) /\ t(1).wide => T = With(f, 0, <<t(1)>>)
    /\ i.mn = "dup2" /\ 2 <= Len(f.stack) /\ ~t(1).wide => T = With(f, 0, <<t(2), t(1)>>)
    /\ i.mn = "pop" /\ 1 <= Len(f.stack) => T = With(f, 1, <<>>)
    /\ i.mn = "pop2" /\ 1 <= Len(f.stack) /\ t(1).wide => T = With(f, 1, <<>>)
    /\ i.mn = "pop2" /\ 2 <= Len(f.stack) /\ ~t(1).wide => T = With(f, 2, <<>>)
    /\ i.mn = "swap" /\ 2 <= Len(f.stack) => T = With(f, 2, <<t(1), t(2)>>)
<1> DEFINE op == ClassifyOp(i)
           t(k) == f.stack[Len(f.stack) - k + 1]
<1>1. Len(f.stack) \in Nat /\ IsASequence(f.stack) /\ 0 \in Nat /\ 0 <= Len(f.stack)
  BY SequenceFacts DEF Framed
<1>2. i.mn \in {"dup", "dup2", "pop", "pop2", "swap"} => op.name = i.mn
  BY Classified DEF Shuffles
<1> HIDE DEF op
<1>3. /\ 1 <= Len(f.stack) => Top(f, 1) = t(1) /\ Again(f, 1) = With(f, 0, <<t(1)>>)
      /\ 2 <= Len(f.stack) => Top(f, 2) = t(2) /\ Again(f, 2) = With(f, 0, <<t(2)>>)
  BY Topmost
<1>4. /\ 1 <= Len(f.stack) => Pop(f, 1) = With(f, 1, <<>>)
      /\ 2 <= Len(f.stack) => Pop(f, 2) = With(f, 2, <<>>)
  <2>1. 1 \in Nat /\ 2 \in Nat
    OBVIOUS
  <2> QED BY <2>1, Popping, PushPopped, Pushing, Unmoved
<1>5. ASSUME i.mn = "dup", 1 <= Len(f.stack) PROVE Transfer(f, op, at) = With(f, 0, <<t(1)>>)
  BY <1>2, <1>3, <1>5, SMTT(60) DEF Transfer, Shuffle, Shuffles, Push
<1>6. ASSUME i.mn = "dup2", 1 <= Len(f.stack), t(1).wide
      PROVE Transfer(f, op, at) = With(f, 0, <<t(1)>>)
  BY <1>2, <1>3, <1>6, SMTT(60) DEF Transfer, Shuffle, Shuffles, Push, Dup2
<1>7. ASSUME i.mn = "dup2", 2 <= Len(f.stack), ~t(1).wide
      PROVE Transfer(f, op, at) = With(f, 0, <<t(2), t(1)>>)
  <2>a. op.name = "dup2"
    BY <1>2, <1>7
  <2>0. Transfer(f, op, at) = Dup2(f)
    BY <2>a, SMTT(60) DEF Transfer, Shuffle, Shuffles
  <2>1. Transfer(f, op, at) = Again(Again(f, 2), 2)
    BY <2>0, <1>1, <1>3, <1>7 DEF Dup2
  <2> DEFINE g == Again(f, 2)
  <2>2. g = With(f, 0, <<t(2)>>)
    BY <1>3, <1>7
  <2>3. PICK p : p = <<t(2)>> /\ IsASequence(p) /\ Len(p) = 1 /\ p[1] = t(2)
    BY Few
  <2>4. g = With(f, 0, p) /\ Framed(g) /\ g.stack = Replace(f.stack, 0, p)
        /\ g.locals = f.locals /\ g.fields = f.fields
    BY <1>1, <2>2, <2>3, WithFramed DEF With
  <2>5. /\ Len(g.stack) = Len(f.stack) + 1 /\ Len(g.stack) \in Nat
        /\ \A k \in 1..Len(f.stack) : g.stack[k] = f.stack[k]
    BY <1>1, <2>3, <2>4, Replaced
  <2> HIDE DEF g
  <2>5a. ~(2 > Len(g.stack)) /\ Len(g.stack) - 2 + 1 = Len(f.stack) /\ Len(f.stack) - 1 + 1 = Len(f.stack)
         /\ g.stack[Len(f.stack)] = f.stack[Len(f.stack)]
    BY <1>1, <1>7, <2>5
  <2>6. Top(g, 2) = t(1)
    BY <2>5a DEF Top, Item
  <2>7. Again(g, 2) = [g EXCEPT !.stack = Append(g.stack, t(1))]
    BY <2>5a, <2>6 DEF Again
  <2>8. Again(g, 2) = [stack |-> Append(g.stack, t(1)), locals |-> g.locals, fields |-> g.fields]
    BY <2>4, <2>7, NewStack DEF Framed
  <2>9. Append(g.stack, t(1)) = Replace(f.stack, 0, Append(p, t(1)))
    <3>1. Append(Replace(f.stack, 0, p), t(1)) = Replace(f.stack, 0, Append(p, t(1)))
      BY <1>1, <2>3, PushReplaced
    <3> QED BY <2>4, <3>1
  <2>10. Append(p, t(1)) = <<t(2), t(1)>>
    BY <2>3, TwoAppended
  <2> QED BY <2>1, <2>4, <2>8, <2>9, <2>10 DEF With, g
<1>8. ASSUME i.mn = "pop", 1 <= Len(f.stack) PROVE Transfer(f, op, at) = With(f, 1, <<>>)
  <2>a. op.name = "pop"
    BY <1>2, <1>8
  <2>1. Transfer(f, op, at) = Pop(f, 1)
    BY <2>a, SMTT(60) DEF Transfer, Shuffle, Shuffles
  <2> QED BY <1>4, <1>8, <2>1
<1>9. ASSUME i.mn = "pop2", 1 <= Len(f.stack), t(1).wide
      PROVE Transfer(f, op, at) = With(f, 1, <<>>)
  <2>a. op.name = "pop2"
    BY <1>2, <1>9
  <2>1. Transfer(f, op, at) = Pop2(f)
    BY <2>a, SMTT(60) DEF Transfer, Shuffle, Shuffles
  <2>2. Pop2(f) = Pop(f, 1)
    BY <1>3, <1>9 DEF Pop2
  <2> QED BY <1>4, <1>9, <2>1, <2>2
<1>10. ASSUME i.mn = "pop2", 2 <= Len(f.stack), ~t(1).wide
       PROVE Transfer(f, op, at) = With(f, 2, <<>>)
  <2>a. op.name = "pop2"
    BY <1>2, <1>10
  <2>1. Transfer(f, op, at) = Pop2(f)
    BY <2>a, SMTT(60) DEF Transfer, Shuffle, Shuffles
  <2>2. Pop2(f) = Pop(f, 2)
    BY <1>1, <1>3, <1>10 DEF Pop2
  <2> QED BY <1>4, <1>10, <2>1, <2>2
<1>11. ASSUME i.mn = "swap", 2 <= Len(f.stack)
       PROVE Transfer(f, op, at) = With(f, 2, <<t(1), t(2)>>)
  <2>1. Transfer(f, op, at) = [f EXCEPT !.stack = SwapTop(@)]
    BY <1>2, <1>11, SMTT(60) DEF Transfer, Shuffle, Shuffles, Push
  <2>2. Transfer(f, op, at) = [stack |-> SwapTop(f.stack), locals |-> f.locals, fields |-> f.fields]
    BY <2>1, NewStack DEF Framed
  <2> QED BY <1>1, <1>11, <2>2, Swapped DEF With
<1> QED BY <1>5, <1>6, <1>7, <1>8, <1>9, <1>10, <1>11 DEF op

-----------------------------------------------------------------------------
(* Widths: what the verifier says an instruction does to the stack.        *)

\* A stack has these widths.
Fits(s, w) == /\ IsASequence(s) /\ IsASequence(w) /\ Len(s) = Len(w)
              /\ \A k \in 1..Len(w) : s[k].wide = w[k]

\* Replacing entries on the stack and in its widths.
LEMMA FitsReplaced ==
  ASSUME NEW s, NEW w, Fits(s, w), NEW n \in Nat, n <= Len(s), NEW push, NEW out, Fits(push, out)
  PROVE  Fits(Replace(s, n, push), Replace(w, n, out))
<1>1. /\ IsASequence(s) /\ IsASequence(w) /\ Len(s) = Len(w)
      /\ IsASequence(push) /\ IsASequence(out) /\ Len(push) = Len(out)
      /\ Len(s) \in Nat /\ Len(push) \in Nat
  BY SequenceFacts DEF Fits
<1> DEFINE r == Replace(s, n, push)
           q == Replace(w, n, out)
           m == Len(s) - n
<1>2. /\ IsASequence(r) /\ Len(r) = m + Len(push)
      /\ \A k \in 1..m : r[k] = s[k]
      /\ \A k \in 1..Len(push) : r[m + k] = push[k]
  <2>1. IsASequence(r) /\ Len(r) = m + Len(push)
    BY <1>1, Replaced
  <2>2. \A k \in 1..m : r[k] = s[k]
    BY <1>1, Replaced
  <2>0. IsASequence(s) /\ IsASequence(push)
    BY <1>1
  <2>3. \A k \in 1..Len(push) : r[m + k] = push[k]
    BY <2>0, Replaced
  <2> QED BY <2>1, <2>2, <2>3
<1>3. /\ IsASequence(q) /\ Len(q) = m + Len(push)
      /\ \A k \in 1..m : q[k] = w[k]
      /\ \A k \in 1..Len(push) : q[m + k] = out[k]
  <2>1. n <= Len(w)
    BY <1>1
  <2>2. /\ IsASequence(q) /\ Len(q) = Len(w) - n + Len(out)
        /\ \A k \in 1..(Len(w) - n) : q[k] = w[k]
    BY <1>1, <2>1, Replaced
  <2>3. \A k \in 1..Len(out) : q[Len(w) - n + k] = out[k]
    BY <1>1, <2>1, Replaced
  <2> HIDE DEF q
  <2> QED BY <1>1, <2>2, <2>3
<1>4. m \in Nat
  BY <1>1
<1> HIDE DEF r, q, m
<1>5. ASSUME NEW k \in 1..Len(q) PROVE r[k].wide = q[k]
  <2>1. CASE k <= m
    <3>1. k \in 1..m /\ k \in 1..Len(w)
      BY <1>1, <1>3, <1>4, <2>1 DEF m
    <3> QED BY <1>2, <1>3, <3>1 DEF Fits
  <2>2. CASE k > m
    <3>1. k - m \in 1..Len(push) /\ k = m + (k - m)
      BY <1>1, <1>3, <1>4, <2>2
    <3>2. r[k] = push[k - m] /\ q[k] = out[k - m]
      BY <1>2, <1>3, <3>1
    <3> QED BY <1>1, <3>1, <3>2 DEF Fits
  <2> QED BY <1>3, <1>4, <2>1, <2>2
<1> QED BY <1>2, <1>3, <1>5 DEF Fits, r, q

\* Putting what is on top there once more.
LEMMA Repeated ==
  ASSUME NEW s, NEW p, IsASequence(s), IsASequence(p), Len(p) <= Len(s), s = Replace(s, Len(p), p)
  PROVE  Replace(s, Len(p), p \o p) = Replace(s, 0, p)
<1> DEFINE S == ToSet(s) \cup ToSet(p)
           below == SubSeq(s, 1, Len(s) - Len(p))
<1>1. s \in Seq(S) /\ p \in Seq(S) /\ Len(s) \in Nat /\ Len(p) \in Nat
  BY SeqMonotonic, SequenceFacts DEF IsASequence
<1> HIDE DEF S
<1>2. \A k \in 1..(Len(s) - Len(p)) : s[k] \in S
  BY <1>1, ElementOfSeq
<1>3. below \in Seq(S)
  BY <1>1, <1>2, SubSeqProperties
<1> HIDE DEF below
<1>4. (below \o p) \o p = below \o (p \o p)
  BY <1>1, <1>3, ConcatAssociative
<1>5. s = below \o p
  BY DEF Replace, below
<1>6. SubSeq(s, 1, Len(s) - 0) = s
  BY <1>1, PushedOne
<1> QED BY <1>4, <1>5, <1>6 DEF Replace, below

\* Short stacks.
LEMMA FitsFew ==
  ASSUME NEW x, NEW y, NEW b, NEW c, x.wide = b, y.wide = c
  PROVE  Fits(<<>>, <<>>) /\ Fits(<<x>>, <<b>>) /\ Fits(<<x, y>>, <<b, c>>)
<1>1. PICK e : e = <<>>
  OBVIOUS
<1>2. PICK p : p = <<x>>
  OBVIOUS
<1>3. PICK q : q = <<b>>
  OBVIOUS
<1>4. PICK r : r = <<x, y>>
  OBVIOUS
<1>5. PICK t : t = <<b, c>>
  OBVIOUS
<1>6. IsASequence(e) /\ Len(e) = 0
  BY <1>1, Few
<1>7. IsASequence(p) /\ Len(p) = 1 /\ p[1] = x
  BY <1>2, Few
<1>8. IsASequence(q) /\ Len(q) = 1 /\ q[1] = b
  BY <1>3, Few
<1>9. IsASequence(r) /\ Len(r) = 2 /\ r[1] = x /\ r[2] = y
  BY <1>4, Few
<1>a. IsASequence(t) /\ Len(t) = 2 /\ t[1] = b /\ t[2] = c
  BY <1>5, Few
<1>b. Fits(e, e)
  BY <1>6 DEF Fits
<1>c. Fits(p, q)
  BY <1>7, <1>8 DEF Fits
<1>d. Fits(r, t)
  BY <1>9, <1>a DEF Fits
<1> QED BY <1>1, <1>2, <1>3, <1>4, <1>5, <1>b, <1>c, <1>d

\* The instructions that have an effect of their own.
Special == {"ldc2_w", "getfield", "putfield", "getstatic", "putstatic", "dup", "dup2", "pop", "pop2",
            "swap", "multianewarray", "invokedynamic"} \cup Invokes

\* The effect of the others is in the table.
LEMMA PlainEffect ==
  ASSUME NEW i, NEW w, i.mn \notin Special
  PROVE  EffectOn(i, w) = Effects(WidthsOf(SignatureOf(i.mn).in), WidthsOf(SignatureOf(i.mn).out))
BY SMTT(60) DEF EffectOn, Special, Invokes

\* The effect of these, one by one.
LEMMA SpecialEffect ==
  ASSUME NEW i, NEW w, NEW pair, pair = (IF w # <<>> /\ w[Len(w)] THEN <<TRUE>> ELSE <<FALSE, FALSE>>)
  PROVE
    /\ i.mn = "ldc2_w"    => EffectOn(i, w) = Effects(<<>>, <<TRUE>>)
    /\ i.mn = "getfield"  => EffectOn(i, w) = Effects(<<FALSE>>, <<Wide(i.field.type)>>)
    /\ i.mn = "putfield"  => EffectOn(i, w) = Effects(<<FALSE, Wide(i.field.type)>>, <<>>)
    /\ i.mn = "getstatic" => EffectOn(i, w) = Effects(<<>>, <<Wide(i.field.type)>>)
    /\ i.mn = "putstatic" => EffectOn(i, w) = Effects(<<Wide(i.field.type)>>, <<>>)
    /\ i.mn = "dup"       => EffectOn(i, w) = Effects(<<FALSE>>, <<FALSE, FALSE>>)
    /\ i.mn = "dup2"      => EffectOn(i, w) = Effects(pair, pair \o pair)
    /\ i.mn = "pop"       => EffectOn(i, w) = Effects(<<FALSE>>, <<>>)
    /\ i.mn = "pop2"      => EffectOn(i, w) = Effects(pair, <<>>)
    /\ i.mn = "swap"      => EffectOn(i, w) = Effects(<<FALSE, FALSE>>, <<FALSE, FALSE>>)
    /\ i.mn = "multianewarray" => EffectOn(i, w) = Effects([k \in 1..i.dims |-> FALSE], <<FALSE>>)
    /\ i.mn = "invokedynamic"  => EffectOn(i, w) = Effects(WidthsOf(i.captured), <<FALSE>>)
    /\ i.mn \in Invokes   => EffectOn(i, w) =
         Effects((IF i.mn = "invokestatic" THEN <<>> ELSE <<FALSE>>) \o WidthsOf(Callees[i.method].types),
                 IF Callees[i.method].result = "V" THEN <<>> ELSE <<Wide(Callees[i.method].result)>>)
<1>1. ASSUME i.mn = "ldc2_w" PROVE EffectOn(i, w) = Effects(<<>>, <<TRUE>>)
  BY <1>1, SMTT(60) DEF EffectOn, Invokes
<1>2. ASSUME i.mn = "getfield" PROVE EffectOn(i, w) = Effects(<<FALSE>>, <<Wide(i.field.type)>>)
  BY <1>2, SMTT(60) DEF EffectOn, Invokes
<1>3. ASSUME i.mn = "putfield" PROVE EffectOn(i, w) = Effects(<<FALSE, Wide(i.field.type)>>, <<>>)
  BY <1>3, SMTT(60) DEF EffectOn, Invokes
<1>4. ASSUME i.mn = "getstatic" PROVE EffectOn(i, w) = Effects(<<>>, <<Wide(i.field.type)>>)
  BY <1>4, SMTT(60) DEF EffectOn, Invokes
<1>5. ASSUME i.mn = "putstatic" PROVE EffectOn(i, w) = Effects(<<Wide(i.field.type)>>, <<>>)
  BY <1>5, SMTT(60) DEF EffectOn, Invokes
<1>6. ASSUME i.mn = "dup" PROVE EffectOn(i, w) = Effects(<<FALSE>>, <<FALSE, FALSE>>)
  BY <1>6, SMTT(60) DEF EffectOn, Invokes
<1>7. ASSUME i.mn = "dup2" PROVE EffectOn(i, w) = Effects(pair, pair \o pair)
  BY <1>7, SMTT(60) DEF EffectOn, Invokes
<1>8. ASSUME i.mn = "pop" PROVE EffectOn(i, w) = Effects(<<FALSE>>, <<>>)
  BY <1>8, SMTT(60) DEF EffectOn, Invokes
<1>9. ASSUME i.mn = "pop2" PROVE EffectOn(i, w) = Effects(pair, <<>>)
  BY <1>9, SMTT(60) DEF EffectOn, Invokes
<1>10. ASSUME i.mn = "swap" PROVE EffectOn(i, w) = Effects(<<FALSE, FALSE>>, <<FALSE, FALSE>>)
  BY <1>10, SMTT(60) DEF EffectOn, Invokes
<1>11. ASSUME i.mn = "multianewarray"
       PROVE EffectOn(i, w) = Effects([k \in 1..i.dims |-> FALSE], <<FALSE>>)
  BY <1>11, SMTT(60) DEF EffectOn, Invokes
<1>12. ASSUME i.mn = "invokedynamic" PROVE EffectOn(i, w) = Effects(WidthsOf(i.captured), <<FALSE>>)
  BY <1>12, SMTT(60) DEF EffectOn, Invokes
<1>13. ASSUME i.mn \in Invokes PROVE EffectOn(i, w) =
         Effects((IF i.mn = "invokestatic" THEN <<>> ELSE <<FALSE>>) \o WidthsOf(Callees[i.method].types),
                 IF Callees[i.method].result = "V" THEN <<>> ELSE <<Wide(Callees[i.method].result)>>)
  BY <1>13, SMTT(60) DEF EffectOn, Invokes
<1> QED BY <1>1, <1>2, <1>3, <1>4, <1>5, <1>6, <1>7, <1>8, <1>9, <1>10, <1>11, <1>12, <1>13

-----------------------------------------------------------------------------
(* Stores and calls, which change more than the stack.                     *)

\* A frame by its parts.
Made(T, stack, locals, fields) == T = [stack |-> stack, locals |-> locals, fields |-> fields]

\* The locals once those in S have been moved out of.
MovedLocals(f, S) == [s \in Slots |-> IF s \in S THEN Moved(f.locals[s]) ELSE f.locals[s]]

\* Marking moved locals changes nothing else.
LEMMA MarkShape ==
  ASSUME NEW f, f = [stack |-> f.stack, locals |-> f.locals, fields |-> f.fields], NEW S
  PROVE  MarkMoved(f, S) = [stack |-> f.stack, locals |-> MovedLocals(f, S), fields |-> f.fields]
BY DEF MarkMoved, MovedLocals

\* Where an operand that is stored was moved from.
Source(f, n) == IF LiveOwned(Peek(f, 1)) THEN LocalOf(Peek(f, 1)) \ {n} ELSE {}

\* The locals after a store of a long, and of a reference, the fields after a
\* store of a field, and what a call leaves on the stack.
StoredLong(f, n) == [s \in Slots |-> IF s = n THEN Reid(Peek(f, 1), LocalId(n))
                                    ELSE IF s \in Source(f, n) THEN Moved(f.locals[s])
                                    ELSE f.locals[s]]
StoredRef(f, n) == [s \in Slots |-> IF s = n THEN Peek(f, 1) ELSE f.locals[s]]
StoredField(f, x) == IF Peek(f, 2).tag = "This" /\ x \in Fields
                     THEN [y \in Fields |-> IF y = x THEN StateOf(Peek(f, 1)) ELSE f.fields[y]]
                     ELSE f.fields
Results(op, at) == IF op.ret = <<>> THEN <<>> ELSE <<Item(Result(op, at), op.ret[1])>>

\* A store of a long takes one operand and changes the locals.
LEMMA StoreLongShape ==
  ASSUME NEW i, i.mn = "lstore", i.n \in Slots, NEW f, Framed(f), 1 <= Len(f.stack), NEW at
  PROVE  Made(Transfer(f, ClassifyOp(i), at), Replace(f.stack, 1, <<>>), StoredLong(f, i.n), f.fields)
<1> DEFINE op == ClassifyOp(i)
           T == Transfer(f, op, at)
           g == Pop(f, 1)
           h == MarkMoved(g, Source(f, i.n))
<1>1. op.name = "StoreLong" /\ op.n = i.n
  BY Classified
<1> HIDE DEF op
<1>2. T = SetLocal(h, i.n, Reid(Peek(f, 1), LocalId(i.n)))
  BY <1>1, SMTT(60) DEF Transfer, Shuffle, Shuffles, StoreLong, Source
<1>3. g = With(f, 1, <<>>)
  BY Popping
<1>4. /\ g = [stack |-> g.stack, locals |-> g.locals, fields |-> g.fields]
      /\ g.stack = Replace(f.stack, 1, <<>>) /\ g.locals = f.locals /\ g.fields = f.fields
  BY <1>3 DEF With
<1> HIDE DEF g
<1>5. h = [stack |-> g.stack, locals |-> MovedLocals(g, Source(f, i.n)), fields |-> g.fields]
  BY <1>4, MarkShape
<1> HIDE DEF h
<1>6. T = [stack |-> h.stack, locals |-> [h.locals EXCEPT ![i.n] = Reid(Peek(f, 1), LocalId(i.n))], fields |-> h.fields]
  BY <1>2, <1>5 DEF SetLocal
<1> HIDE DEF T
<1>7. /\ T = [stack |-> T.stack, locals |-> T.locals, fields |-> T.fields]
      /\ T.stack = g.stack /\ T.fields = g.fields
      /\ T.locals = [h.locals EXCEPT ![i.n] = Reid(Peek(f, 1), LocalId(i.n))]
      /\ h.locals = [s \in Slots |-> IF s \in Source(f, i.n) THEN Moved(g.locals[s]) ELSE g.locals[s]]
  BY <1>5, <1>6 DEF MovedLocals
<1>8. T.locals = [s \in Slots |-> IF s = i.n THEN Reid(Peek(f, 1), LocalId(i.n))
                                  ELSE IF s \in Source(f, i.n) THEN Moved(f.locals[s])
                                  ELSE f.locals[s]]
  BY <1>4, <1>7
<1> QED BY <1>4, <1>7, <1>8 DEF T, op, Made, StoredLong

\* So does a store of a reference.
LEMMA StoreRefShape ==
  ASSUME NEW i, i.mn = "astore", i.n \in Slots, NEW f, Framed(f), 1 <= Len(f.stack), NEW at
  PROVE  Made(Transfer(f, ClassifyOp(i), at), Replace(f.stack, 1, <<>>), StoredRef(f, i.n), f.fields)
<1> DEFINE op == ClassifyOp(i)
           T == Transfer(f, op, at)
           g == Pop(f, 1)
<1>1. op.name = "StoreRef" /\ op.n = i.n
  BY Classified
<1> HIDE DEF op
<1>2. T = SetLocal(g, i.n, Peek(f, 1))
  BY <1>1, SMTT(60) DEF Transfer, Shuffle, Shuffles, StoreRef
<1>3. g = With(f, 1, <<>>)
  BY Popping
<1>4. /\ g = [stack |-> g.stack, locals |-> g.locals, fields |-> g.fields]
      /\ g.stack = Replace(f.stack, 1, <<>>) /\ g.locals = f.locals /\ g.fields = f.fields
  BY <1>3 DEF With
<1> HIDE DEF g
<1>5. T = [stack |-> g.stack, locals |-> [g.locals EXCEPT ![i.n] = Peek(f, 1)], fields |-> g.fields]
  BY <1>2, <1>4 DEF SetLocal
<1> HIDE DEF T
<1>6. /\ T = [stack |-> T.stack, locals |-> T.locals, fields |-> T.fields]
      /\ T.stack = g.stack /\ T.fields = g.fields /\ T.locals = [g.locals EXCEPT ![i.n] = Peek(f, 1)]
  BY <1>5
<1>7. T.locals = [s \in Slots |-> IF s = i.n THEN Peek(f, 1) ELSE f.locals[s]]
  BY <1>4, <1>6 DEF Framed
<1> QED BY <1>4, <1>6, <1>7 DEF T, op, Made, StoredRef

\* A store of a field takes two operands and changes the fields.
LEMMA PutShape ==
  ASSUME NEW i, i.mn = "putfield", NEW f, Framed(f), 2 <= Len(f.stack), NEW at
  PROVE  Made(Transfer(f, ClassifyOp(i), at), Replace(f.stack, 2, <<>>), f.locals,
              StoredField(f, i.field.name))
<1> DEFINE op == ClassifyOp(i)
           T == Transfer(f, op, at)
           g == Pop(f, 2)
           x == i.field.name
<1>1. op.name = "PutField" /\ op.field = x
  BY Classified DEF Member
<1> HIDE DEF op
<1>2. T = IF Peek(f, 2).tag = "This" /\ x \in Fields THEN SetField(g, x, StateOf(Peek(f, 1))) ELSE g
  BY <1>1, SMTT(60) DEF Transfer, Shuffle, Shuffles, PutField, OnThis
<1>3. g = With(f, 2, <<>>)
  BY Popping
<1>4. /\ g = [stack |-> g.stack, locals |-> g.locals, fields |-> g.fields]
      /\ g.stack = Replace(f.stack, 2, <<>>) /\ g.locals = f.locals /\ g.fields = f.fields
  BY <1>3 DEF With
<1> HIDE DEF g
<1>5. CASE Peek(f, 2).tag = "This" /\ x \in Fields
  <2>1. T = [stack |-> g.stack, locals |-> g.locals, fields |-> [g.fields EXCEPT ![x] = StateOf(Peek(f, 1))]]
    BY <1>2, <1>4, <1>5 DEF SetField
  <2> HIDE DEF T
  <2>2. /\ T = [stack |-> T.stack, locals |-> T.locals, fields |-> T.fields]
        /\ T.stack = g.stack /\ T.locals = g.locals /\ T.fields = [g.fields EXCEPT ![x] = StateOf(Peek(f, 1))]
    BY <2>1
  <2>3. T.fields = [y \in Fields |-> IF y = x THEN StateOf(Peek(f, 1)) ELSE f.fields[y]]
    BY <1>4, <2>2 DEF Framed
  <2> QED BY <1>4, <1>5, <2>2, <2>3 DEF T, op, Made, StoredField
<1>6. CASE ~(Peek(f, 2).tag = "This" /\ x \in Fields)
  <2>1. T = g
    BY <1>2, <1>6
  <2> QED BY <1>4, <1>6, <2>1 DEF T, op, Made, StoredField
<1> QED BY <1>5, <1>6

\* A call takes its arguments and its receiver, marks what it consumes, and
\* leaves its result.
LEMMA InvokeShape ==
  ASSUME NEW i, i.mn \in Invokes, NEW f, Framed(f), NEW at,
         Operands(ClassifyOp(i)) \in Nat, Operands(ClassifyOp(i)) <= Len(f.stack)
  PROVE  LET op == ClassifyOp(i)
         IN  Made(Transfer(f, op, at), Replace(f.stack, Operands(op), Results(op, at)),
                  MovedLocals(f, Consumed(f, op)), f.fields)
<1> DEFINE op == ClassifyOp(i)
           T == Transfer(f, op, at)
           n == Operands(op)
           g == Pop(f, n)
           h == MarkMoved(g, Consumed(f, op))
<1>1. op.name = "Invoke"
  BY Classified DEF Call
<1> HIDE DEF op
<1>2. T = IF op.ret = <<>> THEN h ELSE [h EXCEPT !.stack = Append(@, Item(Result(op, at), op.ret[1]))]
  BY <1>1, SMTT(60) DEF Transfer, Shuffle, Shuffles, Invoke, Push
<1>3. g = With(f, n, <<>>)
  BY Popping DEF op
<1>4. /\ g = [stack |-> g.stack, locals |-> g.locals, fields |-> g.fields]
      /\ g.stack = Replace(f.stack, n, <<>>) /\ g.locals = f.locals /\ g.fields = f.fields
  BY <1>3 DEF With
<1>5. g.stack = SubSeq(f.stack, 1, Len(f.stack) - n)
  BY <1>4, Popped DEF Framed, op
<1> HIDE DEF g
<1>6. h = [stack |-> g.stack, locals |-> MovedLocals(g, Consumed(f, op)), fields |-> g.fields]
  BY <1>4, MarkShape
<1>7. MovedLocals(g, Consumed(f, op)) = MovedLocals(f, Consumed(f, op))
  BY <1>4 DEF MovedLocals
<1>8. /\ h = [stack |-> h.stack, locals |-> h.locals, fields |-> h.fields]
      /\ h.stack = g.stack /\ h.locals = MovedLocals(f, Consumed(f, op)) /\ h.fields = f.fields
  BY <1>4, <1>6, <1>7
<1> HIDE DEF h
<1>9. CASE op.ret = <<>>
  BY <1>2, <1>4, <1>8, <1>9 DEF op, Made, Results
<1>10. CASE op.ret # <<>>
  <2> DEFINE x == Item(Result(op, at), op.ret[1])
  <2>1. T = [h EXCEPT !.stack = Append(@, x)]
    BY <1>2, <1>10
  <2>2. T = [stack |-> Append(h.stack, x), locals |-> h.locals, fields |-> h.fields]
    BY <1>8, <2>1, NewStack
  <2>3. Append(SubSeq(f.stack, 1, Len(f.stack) - n), x) = Replace(f.stack, n, <<x>>)
    <3>1. IsASequence(f.stack) /\ n \in Nat /\ n <= Len(f.stack)
      BY DEF Framed, op
    <3> QED BY <3>1, PushedOne
  <2> HIDE DEF T, x
  <2>4. T = [stack |-> T.stack, locals |-> T.locals, fields |-> T.fields] /\ T.stack = Append(h.stack, x) /\ T.locals = h.locals /\ T.fields = h.fields
    BY <2>2
  <2>5. T.stack = Replace(f.stack, n, <<x>>)
    BY <1>5, <1>8, <2>3, <2>4
  <2> QED BY <1>8, <1>10, <2>4, <2>5 DEF T, x, op, Made, Results
<1> QED BY <1>9, <1>10

-----------------------------------------------------------------------------
(* The effect of each kind of instruction is the one of the JVM.           *)

\* The instructions that neither move a handle nor jump.
PlainOnes == NarrowSources \cup WideSources \cup Sinks \cup ToNarrow \cup ToWide \cup TwoToNarrow
               \cup TwoToWide \cup ArrayStores \cup LongBinary \cup LongUnary \cup {"lconst_1", "nop", "iinc"}

\* The kinds of instructions of a verified method.
LEMMA MnemonicKinds ==
  Mnemonics \ {"ret"} \subseteq
    PlainOnes \cup IfOne \cup IfTwo \cup Switches \cup Leaves \cup Special
      \cup {"goto", "athrow", "lconst_0", "lcmp", "lload", "lstore", "aload", "astore"}
<1> DEFINE All == PlainOnes \cup IfOne \cup IfTwo \cup Switches \cup Leaves \cup Special
                    \cup {"goto", "athrow", "lconst_0", "lcmp", "lload", "lstore", "aload", "astore"}
<1>1. IntToInt \cup NewArray \cup {"fneg", "i2f", "l2i", "l2f", "f2i", "d2i", "d2f", "arraylength", "checkcast",
         "instanceof"} \subseteq ToNarrow
  BY DEF IntToInt, NewArray, ToNarrow
<1>2. TwoInts \cup TwoFloats \cup CompareFloats \cup CompareDoubles \cup IntElement \cup {"faload", "aaload"}
         \subseteq TwoToNarrow
  BY DEF TwoInts, TwoFloats, CompareFloats, CompareDoubles, IntElement, TwoToNarrow
<1>3. TwoLongs \cup LongAndInt \subseteq LongBinary /\ {"lneg", "i2l", "f2l", "d2l"} \subseteq LongUnary
  BY DEF TwoLongs, LongAndInt, LongBinary, LongUnary
<1>4. TwoDoubles \cup {"laload", "daload"} \subseteq TwoToWide /\ {"dneg", "i2d", "l2d", "f2d"} \subseteq ToWide
  BY DEF TwoDoubles, TwoToWide, ToWide
<1>5. SetIntElement \cup {"lastore", "fastore", "dastore", "aastore"} \subseteq ArrayStores
  BY DEF SetIntElement, ArrayStores
<1>6. /\ IntConstants \cup FloatConstants \subseteq NarrowSources
      /\ LongConstants \subseteq {"lconst_0", "lconst_1", "lload"} /\ DoubleConstants \subseteq WideSources
      /\ SomeReference \subseteq NarrowSources \cup {"aload"}
  BY DEF IntConstants, FloatConstants, LongConstants, DoubleConstants, NarrowSources,
     WideSources, SomeReference
<1>7. /\ TakeInt \subseteq IfOne \cup Switches \cup Sinks \cup ValueReturns
      /\ TakeTwoInts \cup TakeTwoReferences \subseteq IfTwo
      /\ TakeReference \subseteq {"astore", "athrow"} \cup ValueReturns \cup IfOne \cup Sinks
  BY DEF TakeInt, IfOne, Switches, Sinks, ValueReturns, TakeTwoInts, TakeTwoReferences, IfTwo,
     TakeReference
<1>8. {"fstore", "dstore"} \subseteq Sinks /\ {"lreturn", "freturn", "dreturn"} \subseteq ValueReturns
  BY DEF Sinks, ValueReturns
<1>9. NoOperands \subseteq {"nop", "iinc", "ret", "goto", "return"}
  BY DEF NoOperands
<1>10. PlainOnes \subseteq All /\ IfOne \cup IfTwo \cup Switches \cup ValueReturns \cup {"return"} \subseteq All
  BY DEF Leaves
<1>11. /\ NarrowSources \cup WideSources \cup Sinks \cup ToNarrow \cup ToWide \cup TwoToNarrow
            \cup TwoToWide \cup ArrayStores \cup LongBinary \cup LongUnary \subseteq All
       /\ "lconst_1" \in All /\ "nop" \in All /\ "iinc" \in All
  BY DEF PlainOnes
<1>12. /\ {"goto", "athrow", "lconst_0", "lcmp", "lload", "lstore", "aload", "astore"} \subseteq All
       /\ Special \subseteq All
  OBVIOUS
<1> HIDE DEF All
<1>13. /\ IntToInt \subseteq All /\ TwoInts \subseteq All /\ TwoLongs \subseteq All /\ LongAndInt \subseteq All
       /\ TwoFloats \subseteq All /\ TwoDoubles \subseteq All /\ CompareFloats \subseteq All
       /\ CompareDoubles \subseteq All /\ IntElement \subseteq All /\ SetIntElement \subseteq All
       /\ NewArray \subseteq All
  BY <1>1, <1>2, <1>3, <1>4, <1>5, <1>11
<1>14. /\ IntConstants \subseteq All /\ LongConstants \subseteq All /\ FloatConstants \subseteq All
       /\ DoubleConstants \subseteq All /\ SomeReference \subseteq All
  BY <1>6, <1>11, <1>12
<1>15. /\ TakeInt \subseteq All /\ TakeTwoInts \subseteq All /\ TakeReference \subseteq All
       /\ TakeTwoReferences \subseteq All /\ NoOperands \ {"ret"} \subseteq All
  BY <1>7, <1>9, <1>10, <1>11, <1>12
<1>16. {"lneg", "fneg", "dneg", "i2l", "i2f", "i2d", "l2i", "l2f", "l2d", "f2i", "f2l", "f2d",
          "d2i", "d2l", "d2f", "lcmp", "arraylength", "checkcast", "instanceof",
          "laload", "faload", "daload", "aaload", "lastore", "fastore", "dastore", "aastore",
          "lstore", "lreturn", "fstore", "freturn", "dstore", "dreturn"} \subseteq All
  BY <1>1, <1>2, <1>3, <1>4, <1>5, <1>8, <1>10, <1>11, <1>12
<1>17. Mnemonics \ {"ret"} \subseteq All
  BY <1>13, <1>14, <1>15, <1>16 DEF Mnemonics
<1> QED BY <1>17 DEF All

\* The kinds of instructions of an accepted method.
LEMMA Kinds ==
  ASSUME NEW i, Accepted(i)
  PROVE  i.mn \in PlainOnes \cup IfOne \cup IfTwo \cup Switches \cup Leaves \cup Special
                    \cup {"goto", "athrow", "lconst_0", "lcmp", "lload", "lstore", "aload", "astore"}
<1>1. i.mn \in (Mnemonics \ {"ret"}) \cup Special
  BY DEF Accepted, Special
<1> QED BY <1>1, MnemonicKinds

\* Only what has an effect of its own is special.
LEMMA PlainNotSpecial ==
  /\ \A mn \in PlainOnes \cup IfOne \cup IfTwo \cup Switches \cup Leaves : mn \notin Special
  /\ \A mn \in {"goto", "athrow", "lconst_0", "lcmp", "lload", "lstore", "aload", "astore"} : mn \notin Special
<1>1. \A mn \in NarrowSources \cup WideSources \cup Sinks : mn \notin Special
  BY DEF NarrowSources, WideSources, Sinks, Special, Invokes
<1>2. \A mn \in ToNarrow \cup ToWide : mn \notin Special
  BY DEF ToNarrow, ToWide, Special, Invokes
<1>3. \A mn \in TwoToNarrow \cup TwoToWide : mn \notin Special
  BY DEF TwoToNarrow, TwoToWide, Special, Invokes
<1>4. \A mn \in ArrayStores \cup LongBinary \cup LongUnary \cup {"lconst_1", "nop", "iinc"} : mn \notin Special
  BY DEF ArrayStores, LongBinary, LongUnary, Special, Invokes
<1>5. \A mn \in IfOne \cup IfTwo \cup Switches \cup Leaves : mn \notin Special
  BY DEF IfOne, IfTwo, Switches, Leaves, ValueReturns, Special, Invokes
<1>6. \A mn \in {"goto", "athrow", "lconst_0", "lcmp", "lload", "lstore", "aload", "astore"} : mn \notin Special
  BY DEF Special, Invokes
<1> QED BY <1>1, <1>2, <1>3, <1>4, <1>5, <1>6 DEF PlainOnes

\* The values the analysis gives to what it is not interested in.
Unfollowed == {NotHandle, Plain("Forged")}

\* A plain instruction takes and leaves what the table of the JVM says; what it
\* leaves is no handle.
PlainMove(i, f, T) ==
  LET s == SignatureOf(i.mn)
  IN  /\ IsASequence(s.in) /\ IsASequence(s.out)
      /\ Len(s.in) <= Len(f.stack) =>
           \E push : /\ T = With(f, Len(s.in), push)
                     /\ Fits(push, WidthsOf(s.out))
                     /\ \A k \in 1..Len(push) : push[k].val \in Unfollowed

\* The widths of a sequence of types.
LEMMA WidthsSame ==
  ASSUME NEW types, IsASequence(types)
  PROVE  /\ IsASequence(WidthsOf(types)) /\ Len(WidthsOf(types)) = Len(types)
         /\ \A k \in 1..Len(types) : WidthsOf(types)[k] = Wide(types[k])
<1>1. DOMAIN types = 1..Len(types) /\ Len(types) \in Nat
  BY SequenceFacts
<1> DEFINE w == [k \in 1..Len(types) |-> Wide(types[k])]
<1>2. w \in Seq({w[k] : k \in 1..Len(types)}) /\ Len(w) = Len(types)
  BY <1>1
<1>3. IsASequence(w)
  BY <1>2, AnySequence
<1>4. WidthsOf(types) = w
  BY <1>1 DEF WidthsOf
<1>5. \A k \in 1..Len(types) : w[k] = Wide(types[k])
  OBVIOUS
<1> HIDE DEF w
<1> QED BY <1>2, <1>3, <1>4, <1>5

\* The widths of the letters.
LEMMA Letters ==
  /\ \A c \in Narrow : Wide(c) = FALSE
  /\ \A c \in Broad : Wide(c) = TRUE
BY DEF Narrow, Broad, Wide

\* The first m entries are b; all of these types have the width b.
AllAre(s, m, b) == \A k \in 1..m : s[k] = b
WideIs(types, b) == \A c \in types : Wide(c) = b

\* An instruction that is lowered to Other, with the counts of the table, is
\* plain.
LEMMA OtherMove ==
  ASSUME NEW i, NEW f, Framed(f), NEW at, NEW n \in Nat, NEW m, NEW types, Balance(i.mn, n, m, types),
         NEW pushes, IsASequence(pushes), Len(pushes) = m, NEW b, WideIs(types, b),
         AllAre(pushes, m, b), ClassifyOp(i) = Other(n, pushes)
  PROVE  PlainMove(i, f, Transfer(f, ClassifyOp(i), at))
<1> DEFINE s == SignatureOf(i.mn)
           push == [k \in 1..Len(pushes) |-> Item(NotHandle, pushes[k])]
<1>1. /\ IsASequence(s.in) /\ Len(s.in) = n /\ IsASequence(s.out) /\ Len(s.out) = m
      /\ \A k \in 1..m : s.out[k] \in types
  BY DEF Balance
<1> SUFFICES ASSUME n <= Len(f.stack)
             PROVE  \E p : /\ Transfer(f, ClassifyOp(i), at) = With(f, n, p) /\ Fits(p, WidthsOf(s.out))
                           /\ \A k \in 1..Len(p) : p[k].val \in Unfollowed
  BY <1>1 DEF PlainMove
<1>2. /\ Transfer(f, ClassifyOp(i), at) = With(f, n, push)
      /\ IsASequence(push) /\ Len(push) = m
  BY OtherShape
<1>3. \A k \in 1..m : push[k].val = NotHandle /\ push[k].wide = pushes[k]
  BY DEF Item
<1> HIDE DEF push, s
<1>4. \A k \in 1..m : push[k].wide = WidthsOf(s.out)[k]
  <2>1. \A k \in 1..m : WidthsOf(s.out)[k] = b
    BY <1>1, WidthsSame DEF WideIs
  <2> QED BY <1>3, <2>1 DEF AllAre
<1>5. Fits(push, WidthsOf(s.out))
  BY <1>1, <1>2, <1>4, WidthsSame DEF Fits
<1> QED BY <1>2, <1>3, <1>5 DEF Unfollowed

\* The same where a long is left.
LEMMA ForgedMove ==
  ASSUME NEW i, NEW f, Framed(f), NEW T, NEW n \in Nat, Balance(i.mn, n, 1, Broad),
         n <= Len(f.stack) => T = With(f, n, <<Item(Plain("Forged"), TRUE)>>)
  PROVE  PlainMove(i, f, T)
<1> DEFINE s == SignatureOf(i.mn)
<1>1. /\ IsASequence(s.in) /\ Len(s.in) = n /\ IsASequence(s.out) /\ Len(s.out) = 1
      /\ \A k \in 1..1 : s.out[k] \in Broad
  BY DEF Balance
<1> SUFFICES ASSUME n <= Len(f.stack)
             PROVE  \E p : /\ T = With(f, n, p) /\ Fits(p, WidthsOf(s.out))
                           /\ \A k \in 1..Len(p) : p[k].val \in Unfollowed
  BY <1>1 DEF PlainMove
<1> HIDE DEF s
<1>a. PICK yes : yes = TRUE
  OBVIOUS
<1>2. PICK x : x = Item(Plain("Forged"), yes)
  OBVIOUS
<1>3. x.wide = yes /\ x.val = Plain("Forged")
  BY <1>2 DEF Item
<1>4. PICK p : p = <<x>>
  OBVIOUS
<1>5. IsASequence(p) /\ Len(p) = 1 /\ p[1] = x
  BY <1>4, Few
<1>6. WidthsOf(s.out)[1] = yes
  <2>1. s.out[1] \in Broad /\ WidthsOf(s.out)[1] = Wide(s.out[1])
    BY <1>1, WidthsSame
  <2>2. Wide(s.out[1]) = yes
    BY <1>a, <2>1, Letters
  <2> QED BY <2>1, <2>2
<1>7. Fits(p, WidthsOf(s.out))
  <2>1. IsASequence(WidthsOf(s.out)) /\ Len(WidthsOf(s.out)) = 1
    BY <1>1, WidthsSame
  <2>2. \A k \in 1..1 : p[k].wide = WidthsOf(s.out)[k]
    BY <1>3, <1>5, <1>6
  <2> QED BY <1>5, <2>1, <2>2 DEF Fits
<1>8. \A k \in 1..Len(p) : p[k].val \in Unfollowed
  BY <1>3, <1>5 DEF Unfollowed
<1> QED BY <1>a, <1>2, <1>4, <1>7, <1>8

\* So every plain instruction moves what the table says.
LEMMA PlainMoves ==
  ASSUME NEW i, i.mn \in PlainOnes, NEW f, Framed(f), NEW at
  PROVE  PlainMove(i, f, Transfer(f, ClassifyOp(i), at))
<1> DEFINE T == Transfer(f, ClassifyOp(i), at)
<1>1. 0 \in Nat /\ 1 \in Nat /\ 2 \in Nat /\ 3 \in Nat
  OBVIOUS
<1>2. PICK e : e = <<>>
  OBVIOUS
<1>3. PICK no : no = FALSE
  OBVIOUS
<1>4. PICK yes : yes = TRUE
  OBVIOUS
<1>5. PICK narrow : narrow = <<no>>
  OBVIOUS
<1>6. PICK wide : wide = <<yes>>
  OBVIOUS
<1>7. IsASequence(e) /\ Len(e) = 0 /\ AllAre(e, 0, no)
  <2>1. IsASequence(e) /\ Len(e) = 0
    BY <1>2, Few
  <2> QED BY <2>1 DEF AllAre
<1>8. IsASequence(narrow) /\ Len(narrow) = 1 /\ narrow[1] = no
  BY <1>5, Few
<1>9. IsASequence(wide) /\ Len(wide) = 1 /\ wide[1] = yes
  BY <1>6, Few
<1>10. AllAre(narrow, 1, no) /\ AllAre(wide, 1, yes)
  BY <1>8, <1>9 DEF AllAre
<1>11. WideIs(Narrow, no) /\ WideIs(Broad, yes)
  BY <1>3, <1>4, Letters DEF WideIs
<1>12. CASE i.mn \in NarrowSources
  <2>1. ClassifyOp(i) = Other(0, narrow) /\ Balance(i.mn, 0, 1, Narrow)
    BY <1>12, <1>3, <1>5, Classified, Balances
  <2> QED BY <1>1, <1>8, <1>10, <1>11, <2>1, OtherMove
<1>13. CASE i.mn \in WideSources
  <2>1. ClassifyOp(i) = Other(0, wide) /\ Balance(i.mn, 0, 1, Broad)
    BY <1>13, <1>4, <1>6, Classified, Balances
  <2> QED BY <1>1, <1>9, <1>10, <1>11, <2>1, OtherMove
<1>14. CASE i.mn \in Sinks
  <2>1. ClassifyOp(i) = Other(1, e) /\ Balance(i.mn, 1, 0, Narrow)
    BY <1>14, <1>2, Classified, Balances
  <2> QED BY <1>1, <1>7, <1>11, <2>1, OtherMove
<1>15. CASE i.mn \in ToNarrow
  <2>1. ClassifyOp(i) = Other(1, narrow) /\ Balance(i.mn, 1, 1, Narrow)
    BY <1>15, <1>3, <1>5, Classified, Balances
  <2> QED BY <1>1, <1>8, <1>10, <1>11, <2>1, OtherMove
<1>16. CASE i.mn \in ToWide
  <2>1. ClassifyOp(i) = Other(1, wide) /\ Balance(i.mn, 1, 1, Broad)
    BY <1>16, <1>4, <1>6, Classified, Balances
  <2> QED BY <1>1, <1>9, <1>10, <1>11, <2>1, OtherMove
<1>17. CASE i.mn \in TwoToNarrow
  <2>1. ClassifyOp(i) = Other(2, narrow) /\ Balance(i.mn, 2, 1, Narrow)
    BY <1>17, <1>3, <1>5, Classified, Balances
  <2> QED BY <1>1, <1>8, <1>10, <1>11, <2>1, OtherMove
<1>18. CASE i.mn \in TwoToWide
  <2>1. ClassifyOp(i) = Other(2, wide) /\ Balance(i.mn, 2, 1, Broad)
    BY <1>18, <1>4, <1>6, Classified, Balances
  <2> QED BY <1>1, <1>9, <1>10, <1>11, <2>1, OtherMove
<1>19. CASE i.mn \in ArrayStores
  <2>1. ClassifyOp(i) = Other(3, e) /\ Balance(i.mn, 3, 0, Narrow)
    BY <1>19, <1>2, Classified, Balances
  <2> QED BY <1>1, <1>7, <1>11, <2>1, OtherMove
<1>20. CASE i.mn \in {"nop", "iinc"}
  <2>1. ClassifyOp(i) = Other(0, e) /\ Balance(i.mn, 0, 0, Narrow)
    BY <1>20, <1>2, Classified, Balances
  <2> QED BY <1>1, <1>7, <1>11, <2>1, OtherMove
<1>21. CASE i.mn = "lconst_1"
  <2>1. T = With(f, 0, <<Item(Plain("Forged"), TRUE)>>) /\ Balance(i.mn, 0, 1, Broad)
    BY <1>21, PureShapes, Balances
  <2> QED BY <1>1, <2>1, ForgedMove
<1>22. CASE i.mn \in LongBinary
  <2>1. Balance(i.mn, 2, 1, Broad)
    BY <1>22, Balances
  <2>2. 2 <= Len(f.stack) => T = With(f, 2, <<Item(Plain("Forged"), TRUE)>>)
    BY <1>22, PureShapes
  <2> QED BY <1>1, <2>1, <2>2, ForgedMove
<1>23. CASE i.mn \in LongUnary
  <2>1. Balance(i.mn, 1, 1, Broad)
    BY <1>23, Balances
  <2>2. 1 <= Len(f.stack) => T = With(f, 1, <<Item(Plain("Forged"), TRUE)>>)
    BY <1>23, PureShapes
  <2> QED BY <1>1, <2>1, <2>2, ForgedMove
<1> QED BY <1>12, <1>13, <1>14, <1>15, <1>16, <1>17, <1>18, <1>19, <1>20, <1>21, <1>22,
           <1>23 DEF PlainOnes

\* What an instruction without results, and one with one, leaves.
LEMMA NoneFits ==
  ASSUME NEW mn, NEW n, NEW types, Balance(mn, n, 0, types)
  PROVE  Fits(<<>>, WidthsOf(SignatureOf(mn).out))
<1>1. PICK e : e = <<>>
  OBVIOUS
<1>2. IsASequence(e) /\ Len(e) = 0
  BY <1>1, Few
<1>3. IsASequence(SignatureOf(mn).out) /\ Len(SignatureOf(mn).out) = 0
  BY DEF Balance
<1>4. Fits(e, WidthsOf(SignatureOf(mn).out))
  BY <1>2, <1>3, WidthsSame DEF Fits
<1> QED BY <1>1, <1>4

\* One result of the width of its type.
LEMMA OneFits ==
  ASSUME NEW mn, NEW n, NEW types, Balance(mn, n, 1, types), NEW b, WideIs(types, b), NEW x, x.wide = b
  PROVE  Fits(<<x>>, WidthsOf(SignatureOf(mn).out))
<1>1. PICK p : p = <<x>>
  OBVIOUS
<1>2. IsASequence(p) /\ Len(p) = 1 /\ p[1] = x
  BY <1>1, Few
<1> DEFINE out == SignatureOf(mn).out
<1>3. IsASequence(out) /\ Len(out) = 1 /\ \A k \in 1..1 : out[k] \in types
  BY DEF Balance
<1> HIDE DEF out
<1>4. IsASequence(WidthsOf(out)) /\ Len(WidthsOf(out)) = 1
  BY <1>3, WidthsSame
<1>5. WidthsOf(out)[1] = b
  <2>1. out[1] \in types /\ WidthsOf(out)[1] = Wide(out[1])
    BY <1>3, WidthsSame
  <2>2. Wide(out[1]) = b
    BY <2>1 DEF WideIs
  <2> QED BY <2>1, <2>2
<1>6. \A k \in 1..1 : p[k].wide = WidthsOf(out)[k]
  BY <1>2, <1>5
<1>7. Fits(p, WidthsOf(out))
  BY <1>2, <1>4, <1>6 DEF Fits
<1> QED BY <1>1, <1>7 DEF out

\* The widths of a stack after an instruction that replaces its operands.
LEMMA AfterReplaced ==
  ASSUME NEW i, NEW s, NEW w, Fits(s, w), Finds(i, w), NEW in, NEW out, EffectOn(i, w) = Effects(in, out),
         IsASequence(in)
  PROVE  /\ Len(in) \in Nat /\ Len(in) <= Len(s) /\ w = Replace(w, Len(in), in)
         /\ After(i, w) = Replace(w, Len(in), out)
         /\ \A push : Fits(push, out) => Fits(Replace(s, Len(in), push), After(i, w))
<1>1. EffectOn(i, w).in = in /\ EffectOn(i, w).out = out
  BY DEF Effects
<1>2. Len(s) = Len(w) /\ IsASequence(s)
  BY DEF Fits
<1>3. Len(in) <= Len(w) /\ w = Replace(w, Len(in), in)
  BY <1>1 DEF Finds, Below, Replace
<1>4. After(i, w) = Replace(w, Len(in), out)
  BY <1>1 DEF After, Below, Replace
<1>5. Len(in) \in Nat
  BY SequenceFacts
<1>6. Len(in) <= Len(s)
  BY <1>2, <1>3
<1>7. ASSUME NEW push, Fits(push, out) PROVE Fits(Replace(s, Len(in), push), After(i, w))
  BY <1>4, <1>5, <1>6, <1>7, FitsReplaced
<1> QED BY <1>3, <1>4, <1>5, <1>6, <1>7

\* The frame an instruction leaves has the stack the verifier expects.
Kept(i, w, T) == Framed(T) /\ Fits(T.stack, After(i, w))

\* Replacing the operands by entries of the widths of the results is right.
LEMMA KeptWith ==
  ASSUME NEW i, NEW f, Framed(f), NEW w, Fits(f.stack, w), Finds(i, w), NEW in, NEW out,
         EffectOn(i, w) = Effects(in, out), IsASequence(in), NEW push, Fits(push, out)
  PROVE  Kept(i, w, With(f, Len(in), push))
<1>1. IsASequence(push)
  BY DEF Fits
<1>2. Len(in) \in Nat /\ Len(in) <= Len(f.stack)
  BY AfterReplaced
<1>3. Framed(With(f, Len(in), push))
  BY <1>1, <1>2, WithFramed
<1>4. Fits(Replace(f.stack, Len(in), push), After(i, w))
  BY AfterReplaced
<1>5. With(f, Len(in), push).stack = Replace(f.stack, Len(in), push)
  BY DEF With
<1> QED BY <1>3, <1>4, <1>5 DEF Kept

\* An instruction that takes n operands and leaves what the table says.
Takes(i, w, n) ==
  \E in : /\ EffectOn(i, w) = Effects(in, WidthsOf(SignatureOf(i.mn).out))
          /\ IsASequence(in) /\ Len(in) = n

\* What is not special takes what the table says.
LEMMA TableEffect ==
  ASSUME NEW i, i.mn \notin Special, NEW w, NEW n, NEW m, NEW types, Balance(i.mn, n, m, types)
  PROVE  Takes(i, w, n)
<1>1. IsASequence(SignatureOf(i.mn).in) /\ Len(SignatureOf(i.mn).in) = n
  BY DEF Balance
<1>2. IsASequence(WidthsOf(SignatureOf(i.mn).in)) /\ Len(WidthsOf(SignatureOf(i.mn).in)) = n
  BY <1>1, WidthsSame
<1> QED BY <1>2, PlainEffect DEF Takes

\* Plain instructions keep the widths of the stack.
LEMMA PlainKept ==
  ASSUME NEW i, i.mn \in PlainOnes, NEW f, Framed(f), NEW w, Fits(f.stack, w), Finds(i, w), NEW at
  PROVE  Kept(i, w, Transfer(f, ClassifyOp(i), at))
<1> DEFINE T == Transfer(f, ClassifyOp(i), at)
           s == SignatureOf(i.mn)
           in == WidthsOf(s.in)
           out == WidthsOf(s.out)
<1>1. PlainMove(i, f, T)
  BY PlainMoves
<1> HIDE DEF T
<1>2. /\ IsASequence(s.in) /\ IsASequence(s.out)
      /\ Len(s.in) <= Len(f.stack) => \E push : T = With(f, Len(s.in), push) /\ Fits(push, out)
  BY <1>1 DEF PlainMove
<1>3. EffectOn(i, w) = Effects(in, out)
  BY PlainNotSpecial, PlainEffect
<1> HIDE DEF s
<1>4. IsASequence(in) /\ Len(in) = Len(s.in)
  BY <1>2, WidthsSame
<1> HIDE DEF in, out
<1>5. Len(in) <= Len(f.stack)
  BY <1>3, <1>4, AfterReplaced
<1>6. PICK push : T = With(f, Len(in), push) /\ Fits(push, out)
  BY <1>2, <1>4, <1>5
<1> QED BY <1>3, <1>4, <1>6, KeptWith DEF T

\* So do the jumps, the loads and the comparison of longs.
LEMMA SimpleKept ==
  ASSUME NEW i, NEW f, Framed(f), NEW w, Fits(f.stack, w), Finds(i, w), NEW at,
         i.mn \in IfOne \cup IfTwo \cup Switches \cup {"goto", "lconst_0", "lcmp", "lload", "aload"}
  PROVE  Kept(i, w, Transfer(f, ClassifyOp(i), at))
<1> DEFINE T == Transfer(f, ClassifyOp(i), at)
           out == WidthsOf(SignatureOf(i.mn).out)
<1>0. i.mn \notin Special
  BY PlainNotSpecial
<1>1. PICK no : no = FALSE
  OBVIOUS
<1>2. PICK yes : yes = TRUE
  OBVIOUS
<1>3. WideIs(Narrow, no) /\ WideIs(Broad, yes)
  BY <1>1, <1>2, Letters DEF WideIs
<1>4. CASE i.mn \in IfOne \cup IfTwo \cup Switches \cup {"goto"}
  <2>1. PICK n \in {0, 1, 2} : /\ Balance(i.mn, n, 0, Narrow)
                               /\ n <= Len(f.stack) => T = With(f, n, <<>>)
    <3>1. CASE i.mn \in IfOne \cup Switches
      <4>1. Balance(i.mn, 1, 0, Narrow)
        BY <3>1, Balances
      <4>2. 1 <= Len(f.stack) => T = With(f, 1, <<>>)
        BY <3>1, PureShapes
      <4> QED BY <4>1, <4>2
    <3>2. CASE i.mn \in IfTwo
      <4>1. Balance(i.mn, 2, 0, Narrow)
        BY <3>2, Balances
      <4>2. 2 <= Len(f.stack) => T = With(f, 2, <<>>)
        BY <3>2, PureShapes
      <4> QED BY <4>1, <4>2
    <3>3. CASE i.mn = "goto"
      <4>1. Balance(i.mn, 0, 0, Narrow)
        BY <3>3, Balances
      <4>2. T = With(f, 0, <<>>)
        BY <3>3, PureShapes
      <4> QED BY <4>1, <4>2
    <3> QED BY <1>4, <3>1, <3>2, <3>3
  <2>1a. Balance(i.mn, n, 0, Narrow)
    BY <2>1
  <2>1b. Takes(i, w, n)
    BY <1>0, <2>1a, TableEffect
  <2>2. PICK in : EffectOn(i, w) = Effects(in, out) /\ IsASequence(in) /\ Len(in) = n
    BY <2>1b DEF Takes
  <2>3. Fits(<<>>, out)
    BY <2>1, NoneFits
  <2> HIDE DEF out, T
  <2>4. T = With(f, Len(in), <<>>)
    BY <2>1, <2>2, AfterReplaced
  <2> QED BY <2>2, <2>3, <2>4, KeptWith DEF T
<1>5. CASE i.mn \in {"lconst_0", "lcmp", "lload", "aload"}
  <2>1. \E n, b, types, x :
           /\ n \in {0, 2} /\ Balance(i.mn, n, 1, types) /\ WideIs(types, b) /\ x.wide = b
           /\ n <= Len(f.stack) => T = With(f, n, <<x>>)
    <3>1. CASE i.mn = "lconst_0"
      <4> DEFINE x == Item(Plain("Zero"), yes)
      <4>1. Balance(i.mn, 0, 1, Broad)
        BY <3>1, Balances
      <4>2. x.wide = yes
        BY DEF Item
      <4>3. T = With(f, 0, <<x>>)
        BY <1>2, <3>1, PureShapes
      <4> HIDE DEF x
      <4> QED BY <1>3, <4>1, <4>2, <4>3
    <3>2. CASE i.mn = "lload"
      <4> DEFINE x == Item(Reid(f.locals[i.n], LocalId(i.n)), yes)
      <4>1. Balance(i.mn, 0, 1, Broad)
        BY <3>2, Balances
      <4>2. x.wide = yes
        BY DEF Item
      <4>3. T = With(f, 0, <<x>>)
        BY <1>2, <3>2, PureShapes
      <4> HIDE DEF x
      <4> QED BY <1>3, <4>1, <4>2, <4>3
    <3>3. CASE i.mn = "aload"
      <4> DEFINE x == Item(f.locals[i.n], no)
      <4>1. Balance(i.mn, 0, 1, Narrow)
        BY <3>3, Balances
      <4>2. x.wide = no
        BY DEF Item
      <4>3. T = With(f, 0, <<x>>)
        BY <1>1, <3>3, PureShapes
      <4> HIDE DEF x
      <4> QED BY <1>3, <4>1, <4>2, <4>3
    <3>4. CASE i.mn = "lcmp"
      <4> DEFINE x == Item(Token(f), no)
      <4>1. Balance(i.mn, 2, 1, Narrow)
        BY <3>4, Balances
      <4>2. x.wide = no
        BY DEF Item
      <4>3. 2 <= Len(f.stack) => T = With(f, 2, <<x>>)
        BY <1>1, <3>4, PureShapes
      <4> HIDE DEF x
      <4> QED BY <1>3, <4>1, <4>2, <4>3
    <3> QED BY <1>5, <3>1, <3>2, <3>3, <3>4
  <2>2. PICK n, b, types, x :
           /\ n \in {0, 2} /\ Balance(i.mn, n, 1, types) /\ WideIs(types, b) /\ x.wide = b
           /\ n <= Len(f.stack) => T = With(f, n, <<x>>)
    BY <2>1
  <2>2a. Balance(i.mn, n, 1, types)
    BY <2>2
  <2>2b. Takes(i, w, n)
    BY <1>0, <2>2a, TableEffect
  <2>3. PICK in : EffectOn(i, w) = Effects(in, out) /\ IsASequence(in) /\ Len(in) = n
    BY <2>2b DEF Takes
  <2>4. Fits(<<x>>, out)
    BY <2>2, OneFits
  <2> HIDE DEF out, T
  <2>5. T = With(f, Len(in), <<x>>)
    BY <2>2, <2>3, AfterReplaced
  <2> QED BY <2>3, <2>4, <2>5, KeptWith DEF T
<1> QED BY <1>4, <1>5

\* The same of an instruction that changes the locals or the fields too.
LEMMA KeptShape ==
  ASSUME NEW i, NEW f, Framed(f), NEW w, Fits(f.stack, w), Finds(i, w), NEW in, NEW out,
         EffectOn(i, w) = Effects(in, out), IsASequence(in), NEW push, Fits(push, out),
         NEW T, NEW L, NEW X, Made(T, Replace(f.stack, Len(in), push), L, X),
         L = [s \in Slots |-> L[s]], X = [x \in Fields |-> X[x]]
  PROVE  Kept(i, w, T)
<1>1. IsASequence(push) /\ IsASequence(f.stack)
  BY DEF Fits, Framed
<1>2. Len(in) \in Nat /\ Len(in) <= Len(f.stack)
  BY AfterReplaced
<1>3. /\ T = [stack |-> T.stack, locals |-> T.locals, fields |-> T.fields]
      /\ T.stack = Replace(f.stack, Len(in), push) /\ T.locals = L /\ T.fields = X
  BY DEF Made
<1>4. IsASequence(T.stack)
  BY <1>1, <1>2, <1>3, Replaced
<1>5. Framed(T)
  BY <1>3, <1>4 DEF Framed
<1>6. Fits(Replace(f.stack, Len(in), push), After(i, w))
  BY AfterReplaced
<1> QED BY <1>3, <1>5, <1>6 DEF Kept

\* A store of a local.
LEMMA StoreKept ==
  ASSUME NEW i, i.mn \in {"lstore", "astore"}, i.n \in Slots, NEW f, Framed(f), NEW w, Fits(f.stack, w),
         Finds(i, w), NEW at
  PROVE  Kept(i, w, Transfer(f, ClassifyOp(i), at))
<1> DEFINE T == Transfer(f, ClassifyOp(i), at)
           out == WidthsOf(SignatureOf(i.mn).out)
<1>1. i.mn \notin Special
  BY PlainNotSpecial
<1>2. Balance(i.mn, 1, 0, Narrow)
  BY Balances
<1>3. Takes(i, w, 1)
  BY <1>1, <1>2, TableEffect
<1>4. PICK in : EffectOn(i, w) = Effects(in, out) /\ IsASequence(in) /\ Len(in) = 1
  BY <1>3 DEF Takes
<1>5. Fits(<<>>, out)
  BY <1>2, NoneFits
<1> HIDE DEF out
<1>6. EffectOn(i, w) = Effects(in, out) /\ IsASequence(in)
  BY <1>4
<1>7. Len(in) <= Len(f.stack)
  BY <1>6, AfterReplaced
<1>8. 1 <= Len(f.stack)
  BY <1>4, <1>7
<1>9. PICK L : Made(T, Replace(f.stack, 1, <<>>), L, f.fields) /\ L = [s \in Slots |-> L[s]]
  <2>1. CASE i.mn = "lstore"
    <3>1. Made(T, Replace(f.stack, 1, <<>>), StoredLong(f, i.n), f.fields)
      BY <1>8, <2>1, StoreLongShape
    <3> HIDE DEF T
    <3>2. StoredLong(f, i.n) = [s \in Slots |-> StoredLong(f, i.n)[s]]
      BY DEF StoredLong
    <3> QED BY <3>1, <3>2
  <2>2. CASE i.mn = "astore"
    <3>1. Made(T, Replace(f.stack, 1, <<>>), StoredRef(f, i.n), f.fields)
      BY <1>8, <2>2, StoreRefShape
    <3> HIDE DEF T
    <3>2. StoredRef(f, i.n) = [s \in Slots |-> StoredRef(f, i.n)[s]]
      BY DEF StoredRef
    <3> QED BY <3>1, <3>2
  <2> QED BY <2>1, <2>2
<1> HIDE DEF T
<1>10. Made(T, Replace(f.stack, Len(in), <<>>), L, f.fields)
  BY <1>4, <1>9
<1>11. f.fields = [x \in Fields |-> f.fields[x]]
  BY DEF Framed
<1>12. L = [s \in Slots |-> L[s]]
  BY <1>9
<1>13. Kept(i, w, T)
  BY <1>5, <1>6, <1>10, <1>11, <1>12, KeptShape
<1> QED BY <1>13 DEF T

\* The same of an instruction that changes only the stack.
LEMMA KeptOver ==
  ASSUME NEW i, NEW f, Framed(f), NEW w, Fits(f.stack, w), Finds(i, w), NEW in, NEW out,
         EffectOn(i, w) = Effects(in, out), IsASequence(in), NEW n, Len(in) = n,
         NEW push, Fits(push, out), NEW T, n <= Len(f.stack) => T = With(f, n, push)
  PROVE  Kept(i, w, T)
<1>1. Len(in) <= Len(f.stack)
  BY AfterReplaced
<1>2. T = With(f, Len(in), push)
  BY <1>1
<1> QED BY <1>2, KeptWith

\* Short sequences of widths, by name.
Slim == FALSE
Fat  == TRUE
Empty        == <<>>
Single(b)    == <<b>>
Double(b, c) == <<b, c>>

\* Their lengths and entries.
LEMMA Short ==
  ASSUME NEW b, NEW c
  PROVE  /\ IsASequence(Empty) /\ Len(Empty) = 0
         /\ IsASequence(Single(b)) /\ Len(Single(b)) = 1 /\ Single(b)[1] = b
         /\ IsASequence(Double(b, c)) /\ Len(Double(b, c)) = 2 /\ Double(b, c)[1] = b /\ Double(b, c)[2] = c
BY Few DEF Empty, Single, Double

\* Short stacks and their widths.
LEMMA FitsShort ==
  ASSUME NEW x, NEW y
  PROVE  /\ Fits(Empty, Empty)
         /\ \A b : x.wide = b => Fits(Single(x), Single(b))
         /\ \A b, c : x.wide = b /\ y.wide = c => Fits(Double(x, y), Double(b, c))
<1>1. Fits(Empty, Empty)
  BY Short DEF Fits
<1>2. ASSUME NEW b, x.wide = b PROVE Fits(Single(x), Single(b))
  BY <1>2, Short DEF Fits
<1>3. ASSUME NEW b, NEW c, x.wide = b, y.wide = c PROVE Fits(Double(x, y), Double(b, c))
  BY <1>3, Short DEF Fits
<1> QED BY <1>1, <1>2, <1>3

\* What dup2 and pop2 take: one wide entry or two narrow ones.
PairOn(w) == IF w # <<>> /\ w[Len(w)] THEN Single(Fat) ELSE Double(Slim, Slim)

\* The effects of the special instructions, by name.
LEMMA ShortEffects ==
  ASSUME NEW i, NEW w
  PROVE  /\ i.mn = "ldc2_w"    => EffectOn(i, w) = Effects(Empty, Single(Fat))
         /\ i.mn = "getfield"  => EffectOn(i, w) = Effects(Single(Slim), Single(Wide(i.field.type)))
         /\ i.mn = "putfield"  => EffectOn(i, w) = Effects(Double(Slim, Wide(i.field.type)), Empty)
         /\ i.mn = "getstatic" => EffectOn(i, w) = Effects(Empty, Single(Wide(i.field.type)))
         /\ i.mn = "putstatic" => EffectOn(i, w) = Effects(Single(Wide(i.field.type)), Empty)
         /\ i.mn = "dup"       => EffectOn(i, w) = Effects(Single(Slim), Double(Slim, Slim))
         /\ i.mn = "dup2"      => EffectOn(i, w) = Effects(PairOn(w), PairOn(w) \o PairOn(w))
         /\ i.mn = "pop"       => EffectOn(i, w) = Effects(Single(Slim), Empty)
         /\ i.mn = "pop2"      => EffectOn(i, w) = Effects(PairOn(w), Empty)
         /\ i.mn = "swap"      => EffectOn(i, w) = Effects(Double(Slim, Slim), Double(Slim, Slim))
         /\ i.mn = "multianewarray" => EffectOn(i, w) = Effects([k \in 1..i.dims |-> Slim], Single(Slim))
         /\ i.mn = "invokedynamic"  => EffectOn(i, w) = Effects(WidthsOf(i.captured), Single(Slim))
BY SpecialEffect DEF Slim, Fat, Empty, Single, Double, PairOn

\* What is on top of a stack has these widths.
Topped(s, in) == Len(in) <= Len(s) /\ \A k \in 1..Len(in) : s[Len(s) - Len(in) + k].wide = in[k]

\* The operands an instruction finds have the widths it takes.
LEMMA ShortOperands ==
  ASSUME NEW i, NEW s, NEW w, Fits(s, w), Finds(i, w), NEW in, NEW out, EffectOn(i, w) = Effects(in, out),
         IsASequence(in)
  PROVE  Topped(s, in)
<1>1. Len(in) \in Nat /\ Len(in) <= Len(s) /\ w = Replace(w, Len(in), in)
  BY AfterReplaced
<1>2. IsASequence(w) /\ Len(s) = Len(w) /\ Len(w) \in Nat
  BY SequenceFacts DEF Fits
<1>3. \A k \in 1..Len(in) : Replace(w, Len(in), in)[Len(w) - Len(in) + k] = in[k]
  BY <1>1, <1>2, Replaced
<1>4. ASSUME NEW k \in 1..Len(in) PROVE s[Len(s) - Len(in) + k].wide = in[k]
  <2>1. w[Len(w) - Len(in) + k] = in[k]
    BY <1>1, <1>3
  <2>2. Len(w) - Len(in) + k \in 1..Len(w)
    BY <1>1, <1>2
  <2> QED BY <1>2, <2>1, <2>2 DEF Fits
<1> QED BY <1>1, <1>4 DEF Topped

\* A pair of equal widths.
LEMMA Twice ==
  ASSUME NEW b
  PROVE  Single(b) \o Single(b) = Double(b, b)
<1>1. Single(b) \o Single(b) = Append(Single(b), b)
  <2>1. PICK p : p = Single(b)
    OBVIOUS
  <2>2. p \in Seq({b})
    BY <2>1 DEF Single
  <2>3. Append(p, b) = p \o <<b>>
    BY <2>2, AppendIsConcat
  <2> QED BY <2>1, <2>3 DEF Single
<1> QED BY <1>1, TwoAppended DEF Single, Double

\* The constants and the member instructions keep the widths.
LEMMA MemberKept ==
  ASSUME NEW i, NEW f, Framed(f), NEW w, Fits(f.stack, w), Finds(i, w), NEW at,
         i.mn \in {"ldc2_w", "getfield", "putfield", "getstatic", "putstatic"}
  PROVE  Kept(i, w, Transfer(f, ClassifyOp(i), at))
<1> DEFINE T == Transfer(f, ClassifyOp(i), at)
           b == Wide(i.field.type)
<1>1. PICK two : two = Double(Slim, b)
  OBVIOUS
<1>2. IsASequence(two) /\ Len(two) = 2
  BY <1>1, Short
<1>3. /\ IsASequence(Empty) /\ Len(Empty) = 0
      /\ IsASequence(Single(Slim)) /\ Len(Single(Slim)) = 1
      /\ IsASequence(Single(b)) /\ Len(Single(b)) = 1
  BY Short
<1>4. ASSUME i.mn = "ldc2_w" PROVE Kept(i, w, T)
  <2>1. EffectOn(i, w) = Effects(Empty, Single(Fat))
    BY <1>4, ShortEffects
  <2>2. PICK x : x.wide = Fat /\ T = With(f, 0, Single(x))
    <3>1. CASE i.long
      <4> DEFINE x == Item(Const(i), Fat)
      <4>1. T = With(f, 0, Single(x))
        BY <1>4, <3>1, PureShapes DEF Single, Fat
      <4>2. x.wide = Fat
        BY DEF Item
      <4> HIDE DEF x
      <4> QED BY <4>1, <4>2
    <3>2. CASE ~i.long
      <4>1. ClassifyOp(i) = Other(0, Single(Fat))
        BY <1>4, <3>2, Classified DEF Constant, Single, Fat
      <4>2. 0 \in Nat /\ 0 <= Len(f.stack)
        BY SequenceFacts DEF Framed
      <4> DEFINE junk == [k \in 1..Len(Single(Fat)) |-> Item(NotHandle, Single(Fat)[k])]
                 x == Item(NotHandle, Fat)
      <4>3. IsASequence(Single(Fat)) /\ Len(Single(Fat)) = 1 /\ Single(Fat)[1] = Fat
        BY Short
      <4>4. Transfer(f, Other(0, Single(Fat)), at) = With(f, 0, junk) /\ IsASequence(junk)
            /\ Len(junk) = Len(Single(Fat))
        BY <4>2, <4>3, OtherShape
      <4>5. x.wide = Fat
        BY DEF Item
      <4>6. junk[1] = x
        BY <4>3
      <4> HIDE DEF junk, x
      <4>7. IsASequence(Single(x)) /\ Len(Single(x)) = 1 /\ Single(x)[1] = x
        BY Short
      <4>8. junk = Single(x)
        BY <4>3, <4>4, <4>6, <4>7, SameSequence
      <4> QED BY <4>1, <4>4, <4>5, <4>8
    <3> QED BY <3>1, <3>2
  <2>3. Fits(Single(x), Single(Fat))
    BY <2>2, FitsShort
  <2> HIDE DEF T
  <2> QED BY <1>3, <2>1, <2>2, <2>3, KeptOver
<1>5. ASSUME i.mn = "getfield" PROVE Kept(i, w, T)
  <2>1. EffectOn(i, w) = Effects(Single(Slim), Single(b))
    BY <1>5, ShortEffects
  <2> DEFINE x == Item(Read(f, i.field.name), b)
  <2>2. 1 <= Len(f.stack) => T = With(f, 1, Single(x))
    BY <1>5, PureShapes DEF Single
  <2>3. x.wide = b
    BY DEF Item
  <2> HIDE DEF x
  <2>4. Fits(Single(x), Single(b))
    BY <2>3, FitsShort
  <2> HIDE DEF T, b
  <2> QED BY <1>3, <2>1, <2>2, <2>4, KeptOver
<1>6. ASSUME i.mn = "getstatic" PROVE Kept(i, w, T)
  <2>1. EffectOn(i, w) = Effects(Empty, Single(b))
    BY <1>6, ShortEffects
  <2> DEFINE x == Item(Flag(i.field.name), b)
  <2>2. T = With(f, 0, Single(x))
    BY <1>6, PureShapes DEF Single
  <2>3. x.wide = b
    BY DEF Item
  <2> HIDE DEF x
  <2>4. Fits(Single(x), Single(b))
    BY <2>3, FitsShort
  <2> HIDE DEF T, b
  <2> QED BY <1>3, <2>1, <2>2, <2>4, KeptOver
<1>7. ASSUME i.mn = "putstatic" PROVE Kept(i, w, T)
  <2>1. EffectOn(i, w) = Effects(Single(b), Empty)
    BY <1>7, ShortEffects
  <2>2. 1 <= Len(f.stack) => T = With(f, 1, Empty)
    BY <1>7, PureShapes DEF Empty
  <2>3. Fits(Empty, Empty)
    BY FitsShort
  <2> HIDE DEF T, b
  <2> QED BY <1>3, <2>1, <2>2, <2>3, KeptOver
<1>8. ASSUME i.mn = "putfield" PROVE Kept(i, w, T)
  <2>1. EffectOn(i, w) = Effects(two, Empty)
    BY <1>1, <1>8, ShortEffects
  <2>2. Len(two) <= Len(f.stack)
    BY <1>2, <2>1, AfterReplaced
  <2>3. 2 <= Len(f.stack)
    BY <1>2, <2>2
  <2>4. Made(T, Replace(f.stack, 2, Empty), f.locals, StoredField(f, i.field.name))
    BY <1>8, <2>3, PutShape DEF Empty
  <2> HIDE DEF T
  <2>5. Made(T, Replace(f.stack, Len(two), Empty), f.locals, StoredField(f, i.field.name))
    BY <1>2, <2>4
  <2>6. f.locals = [s \in Slots |-> f.locals[s]]
    BY DEF Framed
  <2>7. StoredField(f, i.field.name) = [x \in Fields |-> StoredField(f, i.field.name)[x]]
    BY DEF Framed, StoredField
  <2>8. Fits(Empty, Empty)
    BY FitsShort
  <2> QED BY <1>2, <2>1, <2>5, <2>6, <2>7, <2>8, KeptShape
<1> QED BY <1>4, <1>5, <1>6, <1>7, <1>8

\* A pair is one wide entry or two narrow ones.
LEMMA PairFacts ==
  ASSUME NEW w
  PROVE  /\ IsASequence(PairOn(w)) /\ Len(PairOn(w)) \in {1, 2}
         /\ Len(PairOn(w)) = 1 <=> PairOn(w) = Single(Fat)
         /\ Len(PairOn(w)) = 2 <=> PairOn(w) = Double(Slim, Slim)
<1>1. IsASequence(Single(Fat)) /\ Len(Single(Fat)) = 1
  BY Short
<1>2. IsASequence(Double(Slim, Slim)) /\ Len(Double(Slim, Slim)) = 2
  BY Short
<1>3. PairOn(w) = Single(Fat) \/ PairOn(w) = Double(Slim, Slim)
  BY DEF PairOn
<1> QED BY <1>1, <1>2, <1>3

\* The shuffles keep the widths: dup2 and pop2 take the form that fits.
LEMMA ShuffleKept ==
  ASSUME NEW i, NEW f, Framed(f), NEW w, Fits(f.stack, w), Finds(i, w), NEW at,
         i.mn \in {"dup", "dup2", "pop", "pop2", "swap"}
  PROVE  Kept(i, w, Transfer(f, ClassifyOp(i), at))
<1> DEFINE T == Transfer(f, ClassifyOp(i), at)
           t(k) == f.stack[Len(f.stack) - k + 1]
           two == Double(Slim, Slim)
<1>1. /\ IsASequence(Empty) /\ Len(Empty) = 0
      /\ IsASequence(Single(Slim)) /\ Len(Single(Slim)) = 1 /\ Single(Slim)[1] = Slim
      /\ IsASequence(two) /\ Len(two) = 2 /\ two[1] = Slim /\ two[2] = Slim
      /\ IsASequence(Single(Fat)) /\ Len(Single(Fat)) = 1 /\ Single(Fat)[1] = Fat
  BY Short
<1>2. Len(f.stack) \in Nat /\ IsASequence(f.stack) /\ IsASequence(w) /\ Len(w) = Len(f.stack)
  BY SequenceFacts DEF Framed, Fits
<1>3. Fits(Empty, Empty)
  BY FitsShort
<1> HIDE DEF two
\* The widths of the operands.
<1>4. ASSUME NEW out, EffectOn(i, w) = Effects(Single(Slim), out)
      PROVE  1 <= Len(f.stack) /\ t(1).wide = Slim
  <2>1. /\ Len(Single(Slim)) <= Len(f.stack)
        /\ \A k \in 1..Len(Single(Slim)) : f.stack[Len(f.stack) - Len(Single(Slim)) + k].wide = Single(Slim)[k]
    <3>1. Topped(f.stack, Single(Slim))
      BY <1>1, <1>4, ShortOperands
    <3> QED BY <3>1 DEF Topped
  <2> QED BY <1>1, <1>2, <2>1
<1>5. ASSUME NEW out, EffectOn(i, w) = Effects(Single(Fat), out)
      PROVE  1 <= Len(f.stack) /\ t(1).wide = Fat
  <2>1. /\ Len(Single(Fat)) <= Len(f.stack)
        /\ \A k \in 1..Len(Single(Fat)) : f.stack[Len(f.stack) - Len(Single(Fat)) + k].wide = Single(Fat)[k]
    <3>1. Topped(f.stack, Single(Fat))
      BY <1>1, <1>5, ShortOperands
    <3> QED BY <3>1 DEF Topped
  <2> QED BY <1>1, <1>2, <2>1
<1>6. ASSUME NEW out, EffectOn(i, w) = Effects(two, out)
      PROVE  2 <= Len(f.stack) /\ t(1).wide = Slim /\ t(2).wide = Slim
  <2>1. /\ Len(two) <= Len(f.stack)
        /\ \A k \in 1..Len(two) : f.stack[Len(f.stack) - Len(two) + k].wide = two[k]
    <3>1. Topped(f.stack, two)
      BY <1>1, <1>6, ShortOperands
    <3> QED BY <3>1 DEF Topped
  <2>2. Len(f.stack) - 2 + 2 = Len(f.stack) - 1 + 1
    BY <1>2
  <2>3. f.stack[Len(f.stack) - 2 + 1].wide = Slim /\ f.stack[Len(f.stack) - 2 + 2].wide = Slim
    BY <1>1, <2>1
  <2> QED BY <1>1, <2>1, <2>2, <2>3
\* Copying what is on top: the rest stays where it is.
<1>7. ASSUME NEW p, NEW q, IsASequence(p), Len(p) <= Len(w), EffectOn(i, w) = Effects(p, p \o p),
             Fits(q, p), T = With(f, 0, q)
      PROVE  Kept(i, w, T)
  <2>1. w = Replace(w, Len(p), p) /\ After(i, w) = Replace(w, Len(p), p \o p)
    BY <1>7, AfterReplaced
  <2>2. After(i, w) = Replace(w, 0, p)
    BY <1>2, <1>7, <2>1, Repeated
  <2>3. 0 \in Nat /\ 0 <= Len(f.stack)
    BY <1>2
  <2>4. Fits(Replace(f.stack, 0, q), After(i, w))
    BY <1>7, <2>2, <2>3, FitsReplaced
  <2>5. IsASequence(q)
    BY <1>7 DEF Fits
  <2> HIDE DEF T
  <2>6. Framed(T)
    BY <1>7, <2>3, <2>5, WithFramed
  <2> QED BY <1>7, <2>4, <2>6 DEF Kept, With
<1>8. ASSUME i.mn = "dup" PROVE Kept(i, w, T)
  <2>1. EffectOn(i, w) = Effects(Single(Slim), two)
    BY <1>8, ShortEffects DEF two
  <2>2. 1 <= Len(f.stack) /\ t(1).wide = Slim
    BY <1>4, <2>1
  <2>3. T = With(f, 0, Single(t(1)))
    BY <1>8, <2>2, ShuffleShapes DEF Single
  <2>4. Fits(Single(t(1)), Single(Slim))
    BY <2>2, FitsShort
  <2>5. Single(Slim) \o Single(Slim) = two
    BY Twice DEF two
  <2> QED BY <1>1, <1>2, <1>7, <2>1, <2>2, <2>3, <2>4, <2>5
<1>9. ASSUME i.mn = "dup2" PROVE Kept(i, w, T)
  <2>1. EffectOn(i, w) = Effects(PairOn(w), PairOn(w) \o PairOn(w))
    BY <1>9, ShortEffects
  <2>2. PairOn(w) = Single(Fat) \/ PairOn(w) = two
    BY DEF PairOn, two
  <2>3. CASE PairOn(w) = Single(Fat)
    <3>1. 1 <= Len(f.stack) /\ t(1).wide = Fat
      BY <1>5, <2>1, <2>3
    <3>2. T = With(f, 0, Single(t(1)))
      BY <1>9, <3>1, ShuffleShapes DEF Single, Fat
    <3>3. Fits(Single(t(1)), Single(Fat))
      BY <3>1, FitsShort
    <3> QED BY <1>1, <1>2, <1>7, <2>1, <2>3, <3>1, <3>2, <3>3
  <2>4. CASE PairOn(w) = two
    <3>1. 2 <= Len(f.stack) /\ t(1).wide = Slim /\ t(2).wide = Slim
      BY <1>6, <2>1, <2>4
    <3>2. T = With(f, 0, Double(t(2), t(1)))
      BY <1>9, <3>1, ShuffleShapes DEF Double, Slim
    <3>3. Fits(Double(t(2), t(1)), two)
      BY <3>1, FitsShort DEF two
    <3> QED BY <1>1, <1>2, <1>7, <2>1, <2>4, <3>1, <3>2, <3>3
  <2> QED BY <2>2, <2>3, <2>4
<1>10. ASSUME i.mn = "pop" PROVE Kept(i, w, T)
  <2>1. EffectOn(i, w) = Effects(Single(Slim), Empty)
    BY <1>10, ShortEffects
  <2>2. 1 <= Len(f.stack) => T = With(f, 1, Empty)
    BY <1>10, ShuffleShapes DEF Empty
  <2> HIDE DEF T
  <2> QED BY <1>1, <1>3, <2>1, <2>2, KeptOver
<1>11. ASSUME i.mn = "pop2" PROVE Kept(i, w, T)
  <2>1. EffectOn(i, w) = Effects(PairOn(w), Empty)
    BY <1>11, ShortEffects
  <2>2. PairOn(w) = Single(Fat) \/ PairOn(w) = two
    BY DEF PairOn, two
  <2>3. CASE PairOn(w) = Single(Fat)
    <3>1. 1 <= Len(f.stack) /\ t(1).wide = Fat
      BY <1>5, <2>1, <2>3
    <3>2. T = With(f, 1, Empty)
      BY <1>11, <3>1, ShuffleShapes DEF Empty, Fat
    <3> HIDE DEF T
    <3> QED BY <1>1, <1>3, <2>1, <2>3, <3>2, KeptOver
  <2>4. CASE PairOn(w) = two
    <3>1. 2 <= Len(f.stack) /\ t(1).wide = Slim
      BY <1>6, <2>1, <2>4
    <3>2. T = With(f, 2, Empty)
      BY <1>11, <3>1, ShuffleShapes DEF Empty, Slim
    <3> HIDE DEF T
    <3> QED BY <1>1, <1>3, <2>1, <2>4, <3>2, KeptOver
  <2> QED BY <2>2, <2>3, <2>4
<1>12. ASSUME i.mn = "swap" PROVE Kept(i, w, T)
  <2>1. EffectOn(i, w) = Effects(two, two)
    BY <1>12, ShortEffects DEF two
  <2>2. 2 <= Len(f.stack) /\ t(1).wide = Slim /\ t(2).wide = Slim
    BY <1>6, <2>1
  <2>3. T = With(f, 2, Double(t(1), t(2)))
    BY <1>12, <2>2, ShuffleShapes DEF Double
  <2>4. Fits(Double(t(1), t(2)), two)
    BY <2>2, FitsShort DEF two
  <2> HIDE DEF T
  <2> QED BY <1>1, <2>1, <2>3, <2>4, KeptOver
<1> QED BY <1>8, <1>9, <1>10, <1>11, <1>12

\* A new array takes as many operands as it has dimensions.
LEMMA ArrayKept ==
  ASSUME NEW i, i.mn = "multianewarray", i.dims \in Nat, NEW f, Framed(f), NEW w, Fits(f.stack, w),
         Finds(i, w), NEW at
  PROVE  Kept(i, w, Transfer(f, ClassifyOp(i), at))
<1> DEFINE in == [k \in 1..i.dims |-> Slim]
           junk == [k \in 1..Len(Single(Slim)) |-> Item(NotHandle, Single(Slim)[k])]
           T == Transfer(f, ClassifyOp(i), at)
<1>1. EffectOn(i, w) = Effects(in, Single(Slim))
  BY ShortEffects
<1>2. IsASequence(in) /\ Len(in) = i.dims
  <2>1. in \in Seq({Slim}) /\ Len(in) = i.dims
    OBVIOUS
  <2> QED BY <2>1, AnySequence
<1> HIDE DEF in
<1>3. Len(in) <= Len(f.stack)
  BY <1>1, <1>2, AfterReplaced
<1>4. ClassifyOp(i) = Other(i.dims, Single(Slim))
  BY Classified DEF Single, Slim
<1>5. IsASequence(Single(Slim)) /\ Len(Single(Slim)) = 1
  BY Short
<1>6. i.dims <= Len(f.stack)
  BY <1>2, <1>3
<1>7. /\ Transfer(f, Other(i.dims, Single(Slim)), at) = With(f, i.dims, junk)
      /\ IsASequence(junk) /\ Len(junk) = Len(Single(Slim))
  BY <1>5, <1>6, OtherShape
<1>8. \A k \in 1..Len(Single(Slim)) : junk[k].wide = Single(Slim)[k]
  BY DEF Item
<1> HIDE DEF junk
<1>9. Fits(junk, Single(Slim))
  BY <1>5, <1>7, <1>8 DEF Fits
<1>10. T = With(f, i.dims, junk)
  BY <1>4, <1>7
<1> HIDE DEF T
<1>11. Kept(i, w, T)
  BY <1>1, <1>2, <1>9, <1>10, KeptOver
<1> QED BY <1>11 DEF T

\* invokedynamic, which the lowering records as doing nothing, is right where it
\* captures one narrow value.
LEMMA DynamicKept ==
  ASSUME NEW i, i.mn = "invokedynamic", i.captured = <<i.captured[1]>>, ~Wide(i.captured[1]),
         NEW f, Framed(f), NEW w, Fits(f.stack, w), Finds(i, w), NEW at
  PROVE  Kept(i, w, Transfer(f, ClassifyOp(i), at)) /\ Transfer(f, ClassifyOp(i), at) = f
         /\ EffectOn(i, w) = Effects(Single(Slim), Single(Slim))
<1> DEFINE T == Transfer(f, ClassifyOp(i), at)
<1>1. PICK c : c = i.captured
  OBVIOUS
<1>2. IsASequence(c) /\ Len(c) = 1 /\ c[1] = i.captured[1]
  <2>1. PICK d : d = i.captured[1]
    OBVIOUS
  <2>2. c = <<d>>
    BY <1>1, <2>1
  <2> QED BY <2>1, <2>2, Few
<1>3. Wide(c[1]) = Slim
  BY <1>2 DEF Slim, Wide
<1>4. WidthsOf(c) = Single(Slim)
  <2>1. IsASequence(WidthsOf(c)) /\ Len(WidthsOf(c)) = 1 /\ WidthsOf(c)[1] = Slim
    BY <1>2, <1>3, WidthsSame
  <2>2. IsASequence(Single(Slim)) /\ Len(Single(Slim)) = 1 /\ Single(Slim)[1] = Slim
    BY Short
  <2> QED BY <2>1, <2>2, SameSequence
<1>5. EffectOn(i, w) = Effects(Single(Slim), Single(Slim))
  BY <1>1, <1>4, ShortEffects
<1>6. After(i, w) = w
  <2>1. IsASequence(Single(Slim))
    BY Short
  <2>2. w = Replace(w, Len(Single(Slim)), Single(Slim))
        /\ After(i, w) = Replace(w, Len(Single(Slim)), Single(Slim))
    BY <1>5, <2>1, AfterReplaced
  <2> QED BY <2>2
<1>7. T = f
  <2>1. ClassifyOp(i) = Other(0, Empty)
    BY Classified DEF Empty
  <2>1a. IsASequence(Empty) /\ Len(Empty) = 0
    BY Short
  <2>1b. 0 \in Nat /\ 0 <= Len(f.stack)
    BY SequenceFacts DEF Framed
  <2>2. IsASequence(Empty) /\ Len(Empty) = 0 /\ 0 \in Nat /\ 0 <= Len(f.stack)
    BY <2>1a, <2>1b
  <2> DEFINE junk == [k \in 1..Len(Empty) |-> Item(NotHandle, Empty[k])]
  <2>3. Transfer(f, Other(0, Empty), at) = With(f, 0, junk) /\ IsASequence(junk) /\ Len(junk) = Len(Empty)
    BY <2>2, OtherShape
  <2> HIDE DEF junk
  <2>4. junk = Empty
    BY <2>2, <2>3, SameSequence
  <2> QED BY <2>1, <2>3, <2>4, Unmoved DEF Empty
<1>8. Kept(i, w, T)
  BY <1>6, <1>7 DEF Kept
<1> QED BY <1>5, <1>7, <1>8

\* An invocation, as the lowering records it.
LEMMA CallFacts ==
  ASSUME NEW i, i.mn \in Invokes, i.method \in DOMAIN Callees
  PROVE  LET op == ClassifyOp(i)
             c == Callees[i.method]
             receiver == IF i.mn = "invokestatic" THEN 0 ELSE 1
         IN  /\ op.name = "Invoke" /\ op.target = i.method
             /\ op.args = WidthsOf(c.types)
             /\ IsASequence(c.types) /\ IsASequence(op.args) /\ Len(op.args) = Len(c.types)
             /\ Operands(op) = Len(c.types) + receiver /\ Operands(op) \in Nat
             /\ c.result = "V" => op.ret = Empty
             /\ c.result # "V" => op.ret = Single(Wide(c.result))
<1> DEFINE op == ClassifyOp(i)
           c == Callees[i.method]
<1>1. op = Call(i)
  BY Classified
<1>2. PICK st : st = (i.mn = "invokestatic")
  OBVIOUS
<1>3. /\ op.name = "Invoke" /\ op.target = i.method /\ op.static = (i.mn = "invokestatic")
      /\ op.args = [k \in DOMAIN c.types |-> Wide(c.types[k])]
      /\ op.ret = IF c.result = "V" THEN <<>> ELSE <<Wide(c.result)>>
  BY <1>1 DEF Call
<1> HIDE DEF op
<1>4. IsASequence(c.types)
  BY CalleesAssumption DEF IsASequence
<1>5. op.args = WidthsOf(c.types)
  BY <1>3 DEF WidthsOf
<1>6. IsASequence(op.args) /\ Len(op.args) = Len(c.types) /\ Len(c.types) \in Nat
  BY <1>4, <1>5, WidthsSame, SequenceFacts
<1>7. Operands(op) = Len(c.types) + (IF i.mn = "invokestatic" THEN 0 ELSE 1) /\ Operands(op) \in Nat
  <2>1. op.static <=> i.mn = "invokestatic"
    BY <1>3
  <2>2. CASE i.mn = "invokestatic"
    <3>1. Operands(op) = Len(op.args) + 0
      BY <2>1, <2>2 DEF Operands
    <3> QED BY <1>6, <2>2, <3>1
  <2>3. CASE i.mn # "invokestatic"
    <3>1. Operands(op) = Len(op.args) + 1
      BY <2>1, <2>3 DEF Operands
    <3> QED BY <1>6, <2>3, <3>1
  <2> QED BY <2>2, <2>3
<1>8. (c.result = "V" => op.ret = Empty) /\ (c.result # "V" => op.ret = Single(Wide(c.result)))
  BY <1>3 DEF Empty, Single
<1> QED BY <1>3, <1>4, <1>5, <1>6, <1>7, <1>8 DEF op

\* What a call takes and leaves.
LEMMA InvokeEffect ==
  ASSUME NEW i, i.mn \in Invokes, i.method \in DOMAIN Callees, NEW w
  PROVE  \E in : /\ EffectOn(i, w) = Effects(in, ClassifyOp(i).ret) /\ IsASequence(in)
                 /\ Len(in) = Operands(ClassifyOp(i))
<1> DEFINE c == Callees[i.method]
           recv == IF i.mn = "invokestatic" THEN Empty ELSE Single(Slim)
           in == recv \o WidthsOf(c.types)
           out == IF c.result = "V" THEN Empty ELSE Single(Wide(c.result))
<1>1. EffectOn(i, w) = Effects(in, out)
  BY SpecialEffect DEF Empty, Single, Slim
<1>2. out = ClassifyOp(i).ret
  BY CallFacts
<1>3. IsASequence(recv) /\ Len(recv) = IF i.mn = "invokestatic" THEN 0 ELSE 1
  BY Short
<1>4. IsASequence(WidthsOf(c.types)) /\ Len(WidthsOf(c.types)) = Len(c.types) /\ Len(c.types) \in Nat
  BY CallFacts, WidthsSame, SequenceFacts
<1> HIDE DEF recv, out
<1>5. IsASequence(in) /\ Len(in) = Len(recv) + Len(c.types)
  <2> DEFINE S == ToSet(recv) \cup ToSet(WidthsOf(c.types))
  <2>1. recv \in Seq(S) /\ WidthsOf(c.types) \in Seq(S)
    BY <1>3, <1>4, SeqMonotonic DEF IsASequence
  <2> HIDE DEF S
  <2>2. in \in Seq(S) /\ Len(in) = Len(recv) + Len(WidthsOf(c.types))
    BY <2>1, ConcatProperties
  <2> QED BY <1>4, <2>2, AnySequence
<1>6. Operands(ClassifyOp(i)) = Len(c.types) + IF i.mn = "invokestatic" THEN 0 ELSE 1
  BY CallFacts
<1> HIDE DEF in
<1>7. Len(in) = Operands(ClassifyOp(i))
  <2>1. Len(recv) \in {0, 1}
    BY <1>3
  <2>2. Operands(ClassifyOp(i)) = Len(c.types) + Len(recv)
    BY <1>3, <1>6
  <2> QED BY <1>4, <1>5, <2>1, <2>2
<1> QED BY <1>1, <1>2, <1>5, <1>7

\* Calls keep the widths, and find their operands.
LEMMA InvokeKept ==
  ASSUME NEW i, i.mn \in Invokes, i.method \in DOMAIN Callees, NEW f, Framed(f), NEW w, Fits(f.stack, w),
         Finds(i, w), NEW at
  PROVE  Kept(i, w, Transfer(f, ClassifyOp(i), at)) /\ Operands(ClassifyOp(i)) <= Len(f.stack)
<1> DEFINE op == ClassifyOp(i)
           T == Transfer(f, op, at)
<1>1. PICK in : /\ EffectOn(i, w) = Effects(in, op.ret) /\ IsASequence(in) /\ Len(in) = Operands(op)
  BY InvokeEffect
<1>2. EffectOn(i, w) = Effects(in, op.ret) /\ IsASequence(in)
  BY <1>1
<1>3. Len(in) <= Len(f.stack)
  BY <1>2, AfterReplaced
<1>4. Operands(op) \in Nat /\ Operands(op) <= Len(f.stack)
  BY <1>1, <1>3, CallFacts
<1>5. Made(T, Replace(f.stack, Operands(op), Results(op, at)), MovedLocals(f, Consumed(f, op)), f.fields)
  BY <1>4, InvokeShape
<1>6. op.ret = Empty \/ op.ret = Single(Wide(Callees[i.method].result))
  BY CallFacts
<1> HIDE DEF T, op
<1>7. Fits(Results(op, at), op.ret)
  <2>1. CASE op.ret = Empty
    <3>1. Results(op, at) = Empty
      BY <2>1 DEF Results, Empty
    <3> QED BY <2>1, <3>1, FitsShort
  <2>2. CASE op.ret # Empty
    <3>0. PICK b : op.ret = Single(b)
      BY <1>6, <2>2
    <3> DEFINE x == Item(Result(op, at), b)
    <3>1. op.ret[1] = b
      BY <3>0, Short
    <3>2. Results(op, at) = Single(x)
      BY <2>2, <3>1 DEF Results, Empty, Single
    <3>3. x.wide = b
      BY DEF Item
    <3> HIDE DEF x
    <3>4. Fits(Single(x), Single(b))
      BY <3>3, FitsShort
    <3> QED BY <3>0, <3>2, <3>4
  <2> QED BY <2>1, <2>2
<1>8. Made(T, Replace(f.stack, Len(in), Results(op, at)), MovedLocals(f, Consumed(f, op)), f.fields)
  BY <1>1, <1>5
<1>9. MovedLocals(f, Consumed(f, op)) = [s \in Slots |-> MovedLocals(f, Consumed(f, op))[s]]
  BY DEF MovedLocals
<1>10. f.fields = [x \in Fields |-> f.fields[x]]
  BY DEF Framed
<1>11. Kept(i, w, T)
  BY <1>2, <1>7, <1>8, <1>9, <1>10, KeptShape
<1> QED BY <1>4, <1>11 DEF T, op

\* Sorting a finite set of numbers gives each of them once.
LEMMA SortedComplete ==
  ASSUME NEW S, IsFiniteSet(S), S \subseteq Int
  PROVE  /\ IsASequence(Sorted(S)) /\ Len(Sorted(S)) = Cardinality(S)
         /\ \A k \in 1..Len(Sorted(S)) : Sorted(S)[k] \in S
         /\ \A x \in S : \E k \in 1..Len(Sorted(S)) : Sorted(S)[k] = x
         /\ \A j, k \in 1..Len(Sorted(S)) : Sorted(S)[j] = Sorted(S)[k] => j = k
<1> DEFINE n == Cardinality(S)
           less(x) == {y \in S : y < x}
           rank == [x \in S |-> Cardinality(less(x)) + 1]
<1>1. n \in Nat /\ IsFiniteSet(1..n) /\ Cardinality(1..n) = n
  <2>1. n \in Nat
    BY FS_CardinalityType
  <2> HIDE DEF n
  <2>2. IsFiniteSet(1..n) /\ Cardinality(1..n) = IF 1 > n THEN 0 ELSE n - 1 + 1
    BY <2>1, FS_Interval
  <2> QED BY <2>1, <2>2
<1>2. ASSUME NEW x \in S
      PROVE  IsFiniteSet(less(x)) /\ Cardinality(less(x)) \in Nat /\ Cardinality(less(x)) < n
  <2>1. less(x) \in SUBSET S /\ less(x) # S
    OBVIOUS
  <2>2. /\ IsFiniteSet(less(x)) /\ Cardinality(less(x)) <= n
        /\ n = Cardinality(less(x)) => S = less(x)
    BY <2>1, FS_Subset
  <2>3. Cardinality(less(x)) \in Nat
    BY <2>2, FS_CardinalityType
  <2> QED BY <1>1, <2>1, <2>2, <2>3
<1>3. ASSUME NEW x \in S, NEW y \in S, x < y
      PROVE  Cardinality(less(x)) < Cardinality(less(y))
  <2>1. less(x) \in SUBSET less(y) /\ less(x) # less(y)
    <3>1. x \in less(y) /\ x \notin less(x)
      BY <1>3
    <3>2. \A z \in less(x) : z \in less(y)
      BY <1>3
    <3> QED BY <3>1, <3>2
  <2>2. IsFiniteSet(less(y)) /\ Cardinality(less(x)) \in Nat /\ Cardinality(less(y)) \in Nat
    BY <1>2
  <2> HIDE DEF less
  <2>3. /\ Cardinality(less(x)) <= Cardinality(less(y))
        /\ Cardinality(less(y)) = Cardinality(less(x)) => less(y) = less(x)
    BY <2>1, <2>2, FS_Subset
  <2> QED BY <2>1, <2>2, <2>3
<1> HIDE DEF less, n
<1>4. ASSUME NEW x \in S PROVE rank[x] = Cardinality(less(x)) + 1 /\ rank[x] \in 1..n
  <2>1. rank[x] = Cardinality(less(x)) + 1
    OBVIOUS
  <2> HIDE DEF rank
  <2> QED BY <1>1, <1>2, <2>1
<1>5. \A x, y \in S : rank[x] = rank[y] => x = y
  <2> TAKE x, y \in S
  <2>1. x = y \/ x < y \/ y < x
    OBVIOUS
  <2>2. x < y => rank[x] # rank[y]
    BY <1>2, <1>3
  <2>3. y < x => rank[x] # rank[y]
    BY <1>2, <1>3
  <2> QED BY <2>1, <2>2, <2>3
<1>6. rank \in [S -> 1..n]
  BY <1>4
<1> HIDE DEF rank, less, n
<1>7. rank \in Injection(S, 1..n)
  BY <1>5, <1>6 DEF Injection, IsInjective
<1>8. rank \in Surjection(S, 1..n)
  BY <1>1, <1>7, FS_Injection DEF n
<1>9. \A k \in 1..n : \E x \in S : rank[x] = k
  BY <1>8 DEF Surjection
<1> DEFINE s == Sorted(S)
<1>10. s = [k \in 1..n |-> CHOOSE x \in S : Cardinality(less(x)) = k - 1]
  BY DEF Sorted, n, less
<1>11. \A k \in 1..n : s[k] \in S /\ rank[s[k]] = k
  <2> TAKE k \in 1..n
  <2>1. PICK x \in S : rank[x] = k
    BY <1>9
  <2>2. Cardinality(less(x)) = k - 1
    BY <1>1, <1>2, <1>4, <2>1
  <2>3. s[k] = CHOOSE z \in S : Cardinality(less(z)) = k - 1
    BY <1>10
  <2>4. s[k] \in S /\ Cardinality(less(s[k])) = k - 1
    BY <2>2, <2>3
  <2>5. rank[s[k]] = Cardinality(less(s[k])) + 1
    BY <1>4, <2>4
  <2>6. k - 1 + 1 = k
    BY <1>1
  <2> HIDE DEF s
  <2> QED BY <2>4, <2>5, <2>6
<1>12. IsASequence(s) /\ Len(s) = n
  <2> HIDE DEF s
  <2>0. s \in [1..n -> S]
    BY <1>10, <1>11
  <2>1. s \in Seq(S) /\ Len(s) = n
    BY <1>1, <2>0
  <2> QED BY <2>1, AnySequence
<1> HIDE DEF s
<1>13. \A x \in S : s[rank[x]] = x
  BY <1>4, <1>5, <1>11
<1> QED BY <1>4, <1>11, <1>12, <1>13 DEF s, n

\* An instruction leaves on the abstract stack what the verifier says it does on
\* the real one.
THEOREM KeepsHeights ==
  ASSUME NEW i, Accepted(i), i.mn \notin Leaves \cup {"athrow"}, NEW f, Framed(f), NEW w,
         Fits(f.stack, w), Finds(i, w), NEW at
  PROVE  Kept(i, w, Transfer(f, ClassifyOp(i), at))
<1>1. CASE i.mn \in PlainOnes
  BY <1>1, PlainKept
<1>2. CASE i.mn \in IfOne \cup IfTwo \cup Switches \cup {"goto", "lconst_0", "lcmp", "lload", "aload"}
  BY <1>2, SimpleKept
<1>3. CASE i.mn \in {"lstore", "astore"}
  <2>1. i.n \in Slots
    BY <1>3 DEF Accepted
  <2> QED BY <1>3, <2>1, StoreKept
<1>4. CASE i.mn \in {"ldc2_w", "getfield", "putfield", "getstatic", "putstatic"}
  BY <1>4, MemberKept
<1>5. CASE i.mn \in {"dup", "dup2", "pop", "pop2", "swap"}
  BY <1>5, ShuffleKept
<1>6. CASE i.mn = "multianewarray"
  <2>1. i.dims \in Nat
    BY <1>6 DEF Accepted
  <2> QED BY <1>6, <2>1, ArrayKept
<1>7. CASE i.mn = "invokedynamic"
  <2>1. i.captured = <<i.captured[1]>> /\ ~Wide(i.captured[1])
    BY <1>7 DEF Accepted
  <2> QED BY <1>7, <2>1, DynamicKept
<1>8. CASE i.mn \in Invokes
  <2>1. i.method \in DOMAIN Callees
    BY <1>8 DEF Accepted
  <2> QED BY <1>8, <2>1, InvokeKept
<1> QED BY <1>1, <1>2, <1>3, <1>4, <1>5, <1>6, <1>7, <1>8, Kinds DEF Special

-----------------------------------------------------------------------------
(* The table as a whole: the property OpcodesBalanced.                     *)

\* What is left on the stack is what the instruction leaves on the JVM's.
LeftOver(i, f, w, at) == Fits(Transfer(f, ClassifyOp(i), at).stack, After(i, w))

\* The instructions that end a method leave nothing behind.
LEMMA EndsFit ==
  ASSUME NEW i, i.mn \in ValueReturns \cup {"return", "ret", "athrow"}, NEW f, Framed(f),
         NEW w, Fits(f.stack, w), Finds(i, w), NEW at
  PROVE  LeftOver(i, f, w, at)
<1> DEFINE T == Transfer(f, ClassifyOp(i), at)
           out == WidthsOf(SignatureOf(i.mn).out)
           op == ClassifyOp(i)
<1>1. i.mn \notin Special
  BY PlainNotSpecial DEF Leaves, Special, Invokes
<1>2. \E n \in {0, 1} : Balance(i.mn, n, 0, Narrow) /\ (n <= Len(f.stack) => T = With(f, n, <<>>))
  <2>1. CASE i.mn \in ValueReturns
    <3>1. op.name = "Return" /\ op.pops = 1
      BY <2>1, Classified
    <3>2. T = Pop(f, 1)
      <4> HIDE DEF op
      <4> QED BY <3>1, SMTT(60) DEF Transfer, Shuffle, Shuffles, op
    <3>3. Balance(i.mn, 1, 0, Narrow)
      BY <2>1, Balances
    <3> HIDE DEF T
    <3>4. 1 <= Len(f.stack) => T = With(f, 1, <<>>)
      BY <3>2, Popping
    <3> QED BY <3>3, <3>4
  <2>2. CASE i.mn = "return"
    <3>1. op.name = "Return" /\ op.pops = 0
      BY <2>2, Classified
    <3>2. T = Pop(f, 0)
      <4> HIDE DEF op
      <4> QED BY <3>1, SMTT(60) DEF Transfer, Shuffle, Shuffles, op
    <3>3. Balance(i.mn, 0, 0, Narrow)
      BY <2>2, Balances
    <3> HIDE DEF T
    <3>4. 0 <= Len(f.stack) => T = With(f, 0, <<>>)
      BY <3>2, Popping
    <3> QED BY <3>3, <3>4
  <2>3. CASE i.mn = "athrow"
    <3>1. Balance(i.mn, 1, 0, Narrow)
      BY <2>3, Balances
    <3>2. 1 <= Len(f.stack) => T = With(f, 1, <<>>)
      BY <2>3, PureShapes
    <3> QED BY <3>1, <3>2
  <2>4. CASE i.mn = "ret"
    <3>1. op = Other(0, <<>>)
      BY <2>4, SMTT(60) DEF ClassifyOp, Rest, NarrowSources, WideSources, Sinks, ToNarrow,
         ToWide, TwoToNarrow,
           TwoToWide, ArrayStores, LongBinary, LongUnary, IfOne, IfTwo, Switches, ValueReturns, Invokes, Shuffles
    <3>2. SignatureOf(i.mn) = Sig(i.mn, <<>>, <<>>)
      BY <2>4, SMTT(60) DEF SignatureOf, IntToInt, TwoInts, TwoLongs, LongAndInt, TwoFloats,
         TwoDoubles,
           CompareFloats, CompareDoubles, IntElement, SetIntElement, NewArray, IntConstants, LongConstants,
           FloatConstants, DoubleConstants, SomeReference, TakeInt, TakeTwoInts, TakeReference, TakeTwoReferences
    <3>3. Balance(i.mn, 0, 0, Narrow)
      BY <3>2, Shapes DEF Narrow
    <3>4. T = With(f, 0, <<>>)
      <4>0. PICK e : e = <<>>
        OBVIOUS
      <4> DEFINE junk == [k \in 1..Len(e) |-> Item(NotHandle, e[k])]
      <4>1. IsASequence(e) /\ Len(e) = 0
        BY <4>0, Few
      <4>2. IsASequence(f.stack)
        BY DEF Framed
      <4>3. 0 \in Nat /\ 0 <= Len(f.stack)
        BY <4>2, SequenceFacts
      <4>4. op = Other(0, e)
        BY <3>1, <4>0
      <4>5. Transfer(f, Other(0, e), at) = With(f, 0, junk) /\ IsASequence(junk) /\ Len(junk) = Len(e)
        BY <4>1, <4>3, OtherShape
      <4> HIDE DEF junk, op
      <4>6. junk = e
        BY <4>1, <4>5, SameSequence
      <4>7. T = Transfer(f, Other(0, e), at)
        BY <4>4 DEF op
      <4> QED BY <4>0, <4>5, <4>6, <4>7
    <3> QED BY <3>3, <3>4
  <2> QED BY <2>1, <2>2, <2>3, <2>4
<1>3. PICK n \in {0, 1} : Balance(i.mn, n, 0, Narrow) /\ (n <= Len(f.stack) => T = With(f, n, <<>>))
  BY <1>2
<1>4. Balance(i.mn, n, 0, Narrow)
  BY <1>3
<1>5. Takes(i, w, n)
  BY <1>1, <1>4, TableEffect
<1>6. PICK in : EffectOn(i, w) = Effects(in, out) /\ IsASequence(in) /\ Len(in) = n
  BY <1>5 DEF Takes
<1>7. Fits(<<>>, out)
  BY <1>4, NoneFits
<1> HIDE DEF out, T
<1>8. T = With(f, Len(in), <<>>)
  BY <1>3, <1>6, AfterReplaced
<1>9. Kept(i, w, T)
  BY <1>6, <1>7, <1>8, KeptWith
<1> QED BY <1>9 DEF T, LeftOver, Kept

\* A store changes the locals only, whatever the number of the local.
LEMMA StoresFit ==
  ASSUME NEW i, i.mn \in {"lstore", "astore"}, NEW f, Framed(f),
         NEW w, Fits(f.stack, w), Finds(i, w), NEW at
  PROVE  LeftOver(i, f, w, at)
<1> DEFINE T == Transfer(f, ClassifyOp(i), at)
           out == WidthsOf(SignatureOf(i.mn).out)
           op == ClassifyOp(i)
<1>1. i.mn \notin Special
  BY PlainNotSpecial
<1>2. T.stack = Pop(f, 1).stack
  <2>1. CASE i.mn = "lstore"
    <3>1. op.name = "StoreLong"
      BY <2>1, Classified
    <3>2. T = StoreLong(f, op.n)
      <4> HIDE DEF op
      <4> QED BY <3>1, SMTT(60) DEF Transfer, Shuffle, Shuffles, op
    <3> HIDE DEF T, op
    <3>3. StoreLong(f, op.n).stack = Pop(f, 1).stack
      BY DEF StoreLong, SetLocal, MarkMoved, Pop
    <3> QED BY <3>2, <3>3
  <2>2. CASE i.mn = "astore"
    <3>1. op.name = "StoreRef"
      BY <2>2, Classified
    <3>2. T = StoreRef(f, op.n)
      <4> HIDE DEF op
      <4> QED BY <3>1, SMTT(60) DEF Transfer, Shuffle, Shuffles, op
    <3> HIDE DEF T, op
    <3>3. StoreRef(f, op.n).stack = Pop(f, 1).stack
      BY DEF StoreRef, SetLocal, Pop
    <3> QED BY <3>2, <3>3
  <2> QED BY <2>1, <2>2
<1>3. Balance(i.mn, 1, 0, Narrow)
  BY Balances
<1>4. Takes(i, w, 1)
  BY <1>1, <1>3, TableEffect
<1>5. PICK in : EffectOn(i, w) = Effects(in, out) /\ IsASequence(in) /\ Len(in) = 1
  BY <1>4 DEF Takes
<1>6. Fits(<<>>, out)
  BY <1>3, NoneFits
<1> HIDE DEF out, T
<1>7a. Len(in) <= Len(f.stack)
  <2>1. EffectOn(i, w) = Effects(in, out)
    BY <1>5
  <2>2. IsASequence(in)
    BY <1>5
  <2>3. PICK s : s = f.stack
    OBVIOUS
  <2>4. Fits(s, w)
    BY <2>3
  <2>5. Len(in) <= Len(s)
    BY <2>1, <2>2, <2>4, AfterReplaced
  <2> QED BY <2>3, <2>5
<1>7b. Kept(i, w, With(f, Len(in), <<>>))
  BY <1>5, <1>6, KeptWith
<1>7. Fits(Replace(f.stack, Len(in), <<>>), After(i, w))
  BY <1>7b DEF Kept, With
<1>8. Pop(f, 1) = With(f, 1, <<>>)
  BY <1>5, <1>7a, Popping
<1>9. Pop(f, 1).stack = Replace(f.stack, 1, <<>>)
  BY <1>8 DEF With
<1> QED BY <1>2, <1>5, <1>7, <1>9 DEF LeftOver, T

\* The effect the lowering records is the one of the table, for every opcode.
LEMMA MnemonicsFit ==
  ASSUME NEW i, i.mn \in Mnemonics \cup {"dup", "dup2", "pop", "pop2", "swap"}, NEW f, Framed(f),
         NEW w, Fits(f.stack, w), Finds(i, w), NEW at
  PROVE  LeftOver(i, f, w, at)
<1>1. CASE i.mn \in PlainOnes
  BY <1>1, PlainKept DEF Kept, LeftOver
<1>2. CASE i.mn \in IfOne \cup IfTwo \cup Switches \cup {"goto", "lconst_0", "lcmp", "lload", "aload"}
  BY <1>2, SimpleKept DEF Kept, LeftOver
<1>3. CASE i.mn \in {"dup", "dup2", "pop", "pop2", "swap"}
  BY <1>3, ShuffleKept DEF Kept, LeftOver
<1>4. CASE i.mn \in {"lstore", "astore"}
  BY <1>4, StoresFit
<1>5. CASE i.mn \in Leaves \cup {"ret", "athrow"}
  BY <1>5, EndsFit DEF Leaves
<1>6. Mnemonics \cap Special = {}
  BY DEF Mnemonics, Special, Invokes, IntToInt, TwoInts, TwoLongs, LongAndInt, TwoFloats,
     TwoDoubles,
         CompareFloats, CompareDoubles, IntElement, SetIntElement, NewArray, IntConstants, LongConstants,
         FloatConstants, DoubleConstants, SomeReference, TakeInt, TakeTwoInts, TakeReference,
         TakeTwoReferences, NoOperands
<1> QED BY <1>1, <1>2, <1>3, <1>4, <1>5, <1>6, MnemonicKinds

\* One sequence after another.
LEMMA Joined ==
  ASSUME NEW a, NEW b, IsASequence(a), IsASequence(b)
  PROVE  /\ a \o b = Replace(a, 0, b)
         /\ IsASequence(a \o b) /\ Len(a \o b) = Len(a) + Len(b)
         /\ \A k \in 1..Len(a) : (a \o b)[k] = a[k]
         /\ \A k \in 1..Len(b) : (a \o b)[Len(a) + k] = b[k]
         /\ SubSeq(a \o b, 1, Len(a \o b) - Len(b)) = a
<1>1. Len(a) \in Nat /\ Len(b) \in Nat /\ 0 <= Len(a) /\ Len(a) - 0 = Len(a)
  BY SequenceFacts
<1>2. a \o b = Replace(a, 0, b)
  <2>1. SubSeq(a, 1, Len(a) - 0) = a
    BY <1>1, PushedOne
  <2> QED BY <2>1 DEF Replace
<1> DEFINE s == a \o b
<1>3. IsASequence(s) /\ Len(s) = Len(a) + Len(b)
  BY <1>1, <1>2, Replaced
<1>4. \A k \in 1..Len(a) : s[k] = a[k]
  BY <1>1, <1>2, Replaced
<1>5. \A k \in 1..Len(b) : s[Len(a) + k] = b[k]
  <2>1. \A k \in 1..Len(b) : s[Len(a) - 0 + k] = b[k]
    BY <1>1, <1>2, Replaced
  <2> QED BY <1>1, <2>1
<1> HIDE DEF s
<1>6. PICK e : e = <<>>
  OBVIOUS
<1>7. IsASequence(e) /\ Len(e) = 0
  BY <1>6, Few
<1>8. SubSeq(s, 1, Len(s) - Len(b)) = Replace(s, Len(b), e)
  <2>1. Len(b) <= Len(s)
    BY <1>1, <1>3
  <2> QED BY <1>1, <1>3, <1>6, <2>1, Popped
<1> DEFINE t == Replace(s, Len(b), e)
<1>9. /\ IsASequence(t) /\ Len(t) = Len(a)
      /\ \A k \in 1..Len(a) : t[k] = s[k]
  <2>1. Len(b) <= Len(s) /\ Len(s) - Len(b) = Len(a)
    BY <1>1, <1>3
  <2>2. IsASequence(t) /\ Len(t) = Len(s) - Len(b) + Len(e)
    BY <1>1, <1>3, <1>7, <2>1, Replaced
  <2>3. \A k \in 1..(Len(s) - Len(b)) : t[k] = s[k]
    BY <1>1, <1>3, <1>7, <2>1, Replaced
  <2> HIDE DEF t
  <2> QED BY <1>1, <1>7, <2>1, <2>2, <2>3
<1> HIDE DEF t
<1>10. t = a
  BY <1>4, <1>9, SameSequence
<1> QED BY <1>2, <1>3, <1>4, <1>5, <1>8, <1>10 DEF s, t

\* Stacks one on the other.
LEMMA FitsJoined ==
  ASSUME NEW s, NEW v, NEW a, NEW b, Fits(s, a), Fits(v, b)
  PROVE  Fits(s \o v, a \o b)
<1>1. /\ IsASequence(s) /\ IsASequence(a) /\ IsASequence(v) /\ IsASequence(b)
      /\ 0 <= Len(s)
  BY SequenceFacts DEF Fits
<1>2. s \o v = Replace(s, 0, v)
  BY <1>1, Joined
<1>3. a \o b = Replace(a, 0, b)
  BY <1>1, Joined
<1>4. Fits(Replace(s, 0, v), Replace(a, 0, b))
  BY <1>1, FitsReplaced
<1> QED BY <1>2, <1>3, <1>4

\* The widths of a stack are what it fits.
LEMMA WidthsFit ==
  ASSUME NEW s, NEW w, Fits(s, w)
  PROVE  Widths(s) = w
<1>1. /\ IsASequence(s) /\ IsASequence(w) /\ Len(s) = Len(w)
      /\ \A k \in 1..Len(w) : s[k].wide = w[k]
  BY DEF Fits
<1>2. DOMAIN s = 1..Len(w) /\ w = [k \in 1..Len(w) |-> w[k]]
  BY <1>1, SequenceFacts
<1>3. Widths(s) = [k \in 1..Len(w) |-> s[k].wide]
  BY <1>2 DEF Widths
<1> QED BY <1>1, <1>2, <1>3

\* A stack of unknown values has the widths of its types.
LEMMA JunksFit ==
  ASSUME NEW types, IsASequence(types)
  PROVE  IsASequence(Junks(types)) /\ Fits(Junks(types), WidthsOf(types))
<1>1. DOMAIN types = 1..Len(types) /\ Len(types) \in Nat
  BY SequenceFacts
<1> DEFINE j == [k \in 1..Len(types) |-> Item(NotHandle, Wide(types[k]))]
<1>2. j \in Seq({j[k] : k \in 1..Len(types)}) /\ Len(j) = Len(types)
  BY <1>1
<1>3. IsASequence(j)
  BY <1>2, AnySequence
<1>4. Junks(types) = j
  BY <1>1 DEF Junks
<1>5. \A k \in 1..Len(types) : j[k].wide = Wide(types[k])
  BY DEF Item
<1> HIDE DEF j
<1>6. \A k \in 1..Len(types) : WidthsOf(types)[k] = Wide(types[k])
  BY WidthsSame
<1>7. IsASequence(WidthsOf(types)) /\ Len(WidthsOf(types)) = Len(types)
  BY WidthsSame
<1>8. \A k \in 1..Len(types) : j[k].wide = WidthsOf(types)[k]
  BY <1>5, <1>6
<1> QED BY <1>2, <1>3, <1>4, <1>7, <1>8 DEF Fits

\* The stack SameEffect starts from, and the one it expects.
Prepared(in) == Junks(<<"A">>) \o Junks(in)

\* Its widths.
Begins(in) == WidthsOf(<<"A">>) \o WidthsOf(in)

\* The frame around it.
Idle(in) == [stack |-> Prepared(in), locals |-> [x \in Slots |-> NotHandle],
             fields |-> [x \in Fields |-> "Unknown"]]

\* It is a frame, with these widths.
LEMMA StartFits ==
  ASSUME NEW in, IsASequence(in)
  PROVE  Framed(Idle(in)) /\ Fits(Prepared(in), Begins(in))
<1>1. PICK one : one = <<"A">>
  OBVIOUS
<1>2. IsASequence(one)
  BY <1>1, Few
<1>3. Fits(Junks(one), WidthsOf(one)) /\ Fits(Junks(in), WidthsOf(in))
  BY <1>2, JunksFit
<1>4. Fits(Prepared(in), Begins(in))
  BY <1>1, <1>3, FitsJoined DEF Prepared, Begins
<1>5. Framed(Idle(in))
  BY <1>4 DEF Framed, Idle, Fits
<1> QED BY <1>4, <1>5

\* SameEffect for one instruction whose effect is known.
LEMMA EffectSame ==
  ASSUME NEW in, NEW out, IsASequence(in), IsASequence(out), NEW i,
         i.mn \in Mnemonics \cup {"dup", "dup2", "pop", "pop2", "swap"},
         EffectOn(i, Begins(in)) = Effects(WidthsOf(in), WidthsOf(out))
  PROVE  Widths(Transfer(Idle(in), ClassifyOp(i), 0).stack) = Widths(Prepared(out))
<1> DEFINE w == Begins(in)
           f == Idle(in)
           a == WidthsOf(<<"A">>)
           n == WidthsOf(in)
           m == WidthsOf(out)
<1>1. Framed(f) /\ Fits(f.stack, w)
  BY StartFits DEF Idle
<1>2. EffectOn(i, w).in = n /\ EffectOn(i, w).out = m
  BY DEF Effects
<1>3. IsASequence(a) /\ IsASequence(n) /\ IsASequence(m)
  <2>1. PICK one : one = <<"A">>
    OBVIOUS
  <2>2. IsASequence(one)
    BY <2>1, Few
  <2> QED BY <2>1, <2>2, WidthsSame
<1>4. w = a \o n
  BY DEF Begins
<1> HIDE DEF w, f, a, n, m
<1>5. Len(w) = Len(a) + Len(n) /\ Len(a) \in Nat /\ Len(n) \in Nat
  BY <1>3, <1>4, Joined, SequenceFacts
<1>6. SubSeq(w, 1, Len(w) - Len(n)) = a
  BY <1>3, <1>4, Joined
<1>7. Finds(i, w)
  BY <1>2, <1>4, <1>5, <1>6 DEF Finds, Below
<1>8. After(i, w) = a \o m
  BY <1>2, <1>6 DEF After, Below
<1>9. LeftOver(i, f, w, 0)
  BY <1>1, <1>7, MnemonicsFit
<1>10. Fits(Transfer(f, ClassifyOp(i), 0).stack, a \o m)
  BY <1>8, <1>9 DEF LeftOver
<1>11. Fits(Prepared(out), a \o m)
  BY StartFits DEF Begins, a, m
<1>12. Widths(Transfer(f, ClassifyOp(i), 0).stack) = a \o m /\ Widths(Prepared(out)) = a \o m
  BY <1>10, <1>11, WidthsFit
<1> QED BY <1>12 DEF f

\* The table names what it was asked for.
LEMMA TableName ==
  ASSUME NEW mn
  PROVE  SignatureOf(mn).mn = mn
<1>1. \A in, out : Sig(mn, in, out).mn = mn
  BY DEF Sig
<1> QED BY <1>1, SMTT(60) DEF SignatureOf

\* The table has sequences.
LEMMA TableShape ==
  ASSUME NEW mn \in Mnemonics
  PROVE  IsASequence(SignatureOf(mn).in) /\ IsASequence(SignatureOf(mn).out)
<1>1. \E n, m, types : Balance(mn, n, m, types)
  <2>1. CASE mn = "ret"
    <3>1. SignatureOf(mn) = Sig(mn, <<>>, <<>>)
      BY <2>1, SMTT(60) DEF SignatureOf, IntToInt, TwoInts, TwoLongs, LongAndInt, TwoFloats,
         TwoDoubles,
           CompareFloats, CompareDoubles, IntElement, SetIntElement, NewArray, IntConstants, LongConstants,
           FloatConstants, DoubleConstants, SomeReference, TakeInt, TakeTwoInts, TakeReference, TakeTwoReferences
    <3>2. Balance(mn, 0, 0, Narrow)
      BY <3>1, Shapes DEF Narrow
    <3> QED BY <3>2
  <2>2. CASE mn \in PlainOnes
    BY <2>2, Balances DEF PlainOnes
  <2>3. CASE mn \in IfOne \cup IfTwo \cup Switches \cup Leaves
    BY <2>3, Balances DEF Leaves
  <2>4. CASE mn \in {"goto", "athrow", "lconst_0", "lcmp", "lload", "lstore", "aload", "astore"}
    BY <2>4, Balances
  <2>5. mn \notin Special
    BY DEF Mnemonics, Special, Invokes, IntToInt, TwoInts, TwoLongs, LongAndInt, TwoFloats,
       TwoDoubles,
         CompareFloats, CompareDoubles, IntElement, SetIntElement, NewArray, IntConstants, LongConstants,
         FloatConstants, DoubleConstants, SomeReference, TakeInt, TakeTwoInts, TakeReference,
         TakeTwoReferences, NoOperands
  <2> QED BY <2>1, <2>2, <2>3, <2>4, <2>5, MnemonicKinds
<1> QED BY <1>1 DEF Balance

\* SameEffect for the instructions of the table.
LEMMA TableFits ==
  ASSUME NEW mn \in Mnemonics
  PROVE  LET s == SignatureOf(mn)
         IN  Widths(Transfer(Idle(s.in), ClassifyOp(Operand(s.mn)), 0).stack) = Widths(Prepared(s.out))
<1> DEFINE s == SignatureOf(mn)
           i == Operand(mn)
<1>1. s.mn = mn /\ IsASequence(s.in) /\ IsASequence(s.out)
  BY TableName, TableShape
<1>2. i.mn = mn
  BY DEF Operand
<1>3. mn \notin Special
  BY DEF Mnemonics, Special, Invokes, IntToInt, TwoInts, TwoLongs, LongAndInt, TwoFloats,
     TwoDoubles,
         CompareFloats, CompareDoubles, IntElement, SetIntElement, NewArray, IntConstants, LongConstants,
         FloatConstants, DoubleConstants, SomeReference, TakeInt, TakeTwoInts, TakeReference,
         TakeTwoReferences, NoOperands
<1>4. EffectOn(i, Begins(s.in)) = Effects(WidthsOf(s.in), WidthsOf(s.out))
  BY <1>2, <1>3, PlainEffect
<1> HIDE DEF i
<1>5. Widths(Transfer(Idle(s.in), ClassifyOp(i), 0).stack) = Widths(Prepared(s.out))
  BY <1>1, <1>2, <1>4, EffectSame
<1> QED BY <1>1, <1>5 DEF i

\* A form of a shuffle has the effect of its opcode.
IsForm(mn, in, out) ==
  /\ mn \in {"dup", "dup2", "pop", "pop2", "swap"}
  /\ IsASequence(in) /\ IsASequence(out)
  /\ \A i : i.mn = mn => EffectOn(i, Begins(in)) = Effects(WidthsOf(in), WidthsOf(out))

\* The widths of short sequences of types.
LEMMA ShortWidths ==
  /\ WidthsOf(<<>>) = Empty
  /\ \A x : WidthsOf(<<x>>) = Single(Wide(x))
  /\ \A x, y : WidthsOf(<<x, y>>) = Double(Wide(x), Wide(y))
BY DEF WidthsOf, Empty, Single, Double

\* The widths of the letters the forms are made of.
LEMMA LetterWidths == Wide("A") = Slim /\ Wide("I") = Slim /\ Wide("J") = Fat /\ Wide("D") = Fat
BY DEF Wide, Slim, Fat

\* What dup2 and pop2 take from the stack SameEffect starts from.
LEMMA PairOnTop ==
  ASSUME NEW in, IsASequence(in), Len(in) # 0
  PROVE  PairOn(Begins(in)) = IF Wide(in[Len(in)]) THEN Single(Fat) ELSE Double(Slim, Slim)
<1> DEFINE a == WidthsOf(<<"A">>)
           b == WidthsOf(in)
           w == Begins(in)
<1>1. IsASequence(a)
  <2>1. PICK one : one = <<"A">>
    OBVIOUS
  <2>2. IsASequence(one)
    BY <2>1, Few
  <2> QED BY <2>1, <2>2, WidthsSame
<1>2. IsASequence(b) /\ Len(b) = Len(in) /\ Len(in) \in 1..Len(in)
  BY WidthsSame, SequenceFacts
<1>3. b[Len(in)] = Wide(in[Len(in)])
  BY <1>2, WidthsSame
<1>4. w = a \o b
  BY DEF Begins
<1> HIDE DEF a, b, w
<1>5. Len(w) = Len(a) + Len(in) /\ w[Len(a) + Len(in)] = b[Len(in)] /\ IsASequence(w)
  <2>1. IsASequence(w) /\ Len(w) = Len(a) + Len(b)
    BY <1>1, <1>2, <1>4, Joined
  <2>2. \A k \in 1..Len(b) : w[Len(a) + k] = b[k]
    BY <1>1, <1>2, <1>4, Joined
  <2> QED BY <1>2, <2>1, <2>2
<1>6. w # <<>>
  <2>1. Len(a) \in Nat /\ Len(in) \in Nat
    BY <1>1, SequenceFacts
  <2>2. Len(w) # 0
    BY <1>5, <2>1
  <2> QED BY <2>2, Few
<1> QED BY <1>3, <1>5, <1>6 DEF PairOn, w

\* The widths of two sequences of types.
LEMMA WidthsJoined ==
  ASSUME NEW s, NEW t, IsASequence(s), IsASequence(t)
  PROVE  WidthsOf(s \o t) = WidthsOf(s) \o WidthsOf(t)
<1>1. IsASequence(s \o t) /\ IsASequence(WidthsOf(s)) /\ IsASequence(WidthsOf(t))
  BY Joined, WidthsSame
<1>3. Len(s \o t) = Len(s) + Len(t) /\ Len(s) \in Nat /\ Len(t) \in Nat
  BY Joined, SequenceFacts
<1> DEFINE u == WidthsOf(s \o t)
           v == WidthsOf(s) \o WidthsOf(t)
<1>4. IsASequence(u) /\ Len(u) = Len(s) + Len(t)
  BY <1>1, <1>3, WidthsSame
<1>5. \A k \in 1..Len(s) : u[k] = Wide(s[k])
  <2>1. \A k \in 1..Len(s \o t) : u[k] = Wide((s \o t)[k])
    BY <1>1, WidthsSame
  <2>2. \A k \in 1..Len(s) : (s \o t)[k] = s[k]
    BY Joined
  <2> HIDE DEF u
  <2> QED BY <1>3, <2>1, <2>2
<1>6. \A k \in 1..Len(t) : u[Len(s) + k] = Wide(t[k])
  <2>1. \A k \in 1..Len(s \o t) : u[k] = Wide((s \o t)[k])
    BY <1>1, WidthsSame
  <2>2. \A k \in 1..Len(t) : (s \o t)[Len(s) + k] = t[k]
    BY Joined
  <2> HIDE DEF u
  <2> QED BY <1>3, <2>1, <2>2
<1>7. Len(WidthsOf(s)) = Len(s) /\ Len(WidthsOf(t)) = Len(t)
  BY WidthsSame
<1>8. IsASequence(v) /\ Len(v) = Len(s) + Len(t)
  <2>1. IsASequence(v) /\ Len(v) = Len(WidthsOf(s)) + Len(WidthsOf(t))
    BY <1>1, Joined
  <2> QED BY <1>7, <2>1
<1>9. \A k \in 1..Len(s) : v[k] = Wide(s[k])
  <2>1. \A k \in 1..Len(WidthsOf(s)) : v[k] = WidthsOf(s)[k]
    BY <1>1, Joined
  <2>2. \A k \in 1..Len(s) : WidthsOf(s)[k] = Wide(s[k])
    BY WidthsSame
  <2> HIDE DEF v
  <2> QED BY <1>7, <2>1, <2>2
<1>10. \A k \in 1..Len(t) : v[Len(s) + k] = Wide(t[k])
  <2>1. \A k \in 1..Len(WidthsOf(t)) : v[Len(WidthsOf(s)) + k] = WidthsOf(t)[k]
    BY <1>1, Joined
  <2>2. \A k \in 1..Len(t) : WidthsOf(t)[k] = Wide(t[k])
    BY WidthsSame
  <2> HIDE DEF v
  <2> QED BY <1>7, <2>1, <2>2
<1> HIDE DEF u, v
<1>11. ASSUME NEW k \in 1..Len(u) PROVE u[k] = v[k]
  <2>1. CASE k <= Len(s)
    BY <1>3, <1>4, <1>5, <1>9, <2>1
  <2>2. CASE ~(k <= Len(s))
    <3>1. k - Len(s) \in 1..Len(t) /\ Len(s) + (k - Len(s)) = k
      BY <1>3, <1>4, <2>2
    <3> QED BY <1>6, <1>10, <3>1
  <2> QED BY <2>1, <2>2
<1>12. u = v
  BY <1>4, <1>8, <1>11, SameSequence
<1> QED BY <1>12 DEF u, v

\* A sequence of one, twice.
LEMMA Paired ==
  ASSUME NEW x
  PROVE  <<x>> \o <<x>> = <<x, x>>
<1>1. PICK s : s = <<x>>
  OBVIOUS
<1>2. PICK t : t = <<x, x>>
  OBVIOUS
<1>3. /\ IsASequence(s) /\ Len(s) = 1 /\ s[1] = x
      /\ IsASequence(t) /\ Len(t) = 2 /\ t[1] = x /\ t[2] = x
  BY <1>1, <1>2, Few
<1>4. IsASequence(s \o s) /\ Len(s \o s) = 2
  BY <1>3, Joined
<1>5. (s \o s)[1] = x
  <2>1. \A k \in 1..Len(s) : (s \o s)[k] = s[k]
    BY <1>3, Joined
  <2> QED BY <1>3, <2>1
<1>6. (s \o s)[2] = x
  <2>1. \A k \in 1..Len(s) : (s \o s)[Len(s) + k] = s[k]
    BY <1>3, Joined
  <2>2. (s \o s)[Len(s) + 1] = s[1]
    BY <1>3, <2>1
  <2> QED BY <1>3, <2>2
<1>7. s \o s = t
  <2>1. \A k \in 1..2 : (s \o s)[k] = t[k]
    BY <1>3, <1>5, <1>6
  <2> QED BY <1>3, <1>4, <2>1, SameSequence
<1> QED BY <1>1, <1>2, <1>7

\* The seven forms are right.
LEMMA Forms ==
  /\ IsForm("dup", <<"A">>, <<"A", "A">>)
  /\ IsForm("dup2", <<"J">>, <<"J", "J">>)
  /\ IsForm("dup2", Narrow2, Narrow2 \o Narrow2)
  /\ IsForm("pop", <<"I">>, <<>>)
  /\ IsForm("pop2", <<"D">>, <<>>)
  /\ IsForm("pop2", Narrow2, <<>>)
  /\ IsForm("swap", Narrow2, <<"A", "I">>)
<1>1. /\ IsASequence(<<>>) /\ (\A x : IsASequence(<<x>>)) /\ (\A x, y : IsASequence(<<x, y>>))
  BY Few
<1>2. IsASequence(Narrow2) /\ IsASequence(Narrow2 \o Narrow2)
  <2>1. IsASequence(Narrow2)
    BY <1>1 DEF Narrow2
  <2> QED BY <2>1, Joined
<1>3. IsForm("dup", <<"A">>, <<"A", "A">>)
  BY <1>1, ShortEffects, ShortWidths, LetterWidths DEF IsForm
<1>4. IsForm("pop", <<"I">>, <<>>)
  BY <1>1, ShortEffects, ShortWidths, LetterWidths DEF IsForm
<1>5. IsForm("swap", Narrow2, <<"A", "I">>)
  BY <1>1, <1>2, ShortEffects, ShortWidths, LetterWidths DEF IsForm, Narrow2
<1>6. PairOn(Begins(<<"J">>)) = Single(Fat) /\ PairOn(Begins(<<"D">>)) = Single(Fat)
  <2>1. ASSUME NEW x, Wide(x) PROVE PairOn(Begins(<<x>>)) = Single(Fat)
    <3>1. PICK s : s = <<x>>
      OBVIOUS
    <3>2. IsASequence(s) /\ Len(s) = 1 /\ s[1] = x
      BY <3>1, Few
    <3>3. PairOn(Begins(s)) = IF Wide(s[Len(s)]) THEN Single(Fat) ELSE Double(Slim, Slim)
      BY <3>2, PairOnTop
    <3> QED BY <2>1, <3>1, <3>2, <3>3
  <2> QED BY <2>1 DEF Wide
<1>7. PairOn(Begins(Narrow2)) = Double(Slim, Slim)
  <2>1. PICK s : s = Narrow2
    OBVIOUS
  <2>2. IsASequence(s) /\ Len(s) = 2 /\ s[2] = "A"
    BY <2>1, Few DEF Narrow2
  <2>3. PairOn(Begins(s)) = IF Wide(s[Len(s)]) THEN Single(Fat) ELSE Double(Slim, Slim)
    BY <2>2, PairOnTop
  <2> QED BY <2>1, <2>2, <2>3 DEF Wide
<1>8. WidthsOf(Narrow2) = Double(Slim, Slim)
  BY ShortWidths, LetterWidths DEF Narrow2
<1>9. IsForm("pop2", <<"D">>, <<>>)
  <2>1. \A i : i.mn = "pop2" => EffectOn(i, Begins(<<"D">>)) = Effects(Single(Fat), Empty)
    BY <1>6, ShortEffects
  <2>2. WidthsOf(<<"D">>) = Single(Fat) /\ WidthsOf(<<>>) = Empty
    BY ShortWidths, LetterWidths
  <2> QED BY <1>1, <2>1, <2>2 DEF IsForm
<1>10. IsForm("pop2", Narrow2, <<>>)
  BY <1>1, <1>2, <1>7, <1>8, ShortEffects, ShortWidths, LetterWidths DEF IsForm
<1>11. IsForm("dup2", <<"J">>, <<"J", "J">>)
  <2>1. \A i : i.mn = "dup2" => EffectOn(i, Begins(<<"J">>)) = Effects(Single(Fat), Single(Fat) \o Single(Fat))
    BY <1>6, ShortEffects
  <2>2. WidthsOf(<<"J">>) = Single(Fat)
    BY ShortWidths, LetterWidths
  <2>3. WidthsOf(<<"J", "J">>) = Single(Fat) \o Single(Fat)
    <3>1. PICK one : one = <<"J">>
      OBVIOUS
    <3>2. IsASequence(one)
      BY <1>1, <3>1
    <3>3. WidthsOf(one \o one) = WidthsOf(one) \o WidthsOf(one)
      BY <3>2, WidthsJoined
    <3>4. one \o one = <<"J", "J">>
      BY <3>1, Paired
    <3> QED BY <2>2, <3>1, <3>3, <3>4
  <2> QED BY <1>1, <2>1, <2>2, <2>3 DEF IsForm
<1>12. IsForm("dup2", Narrow2, Narrow2 \o Narrow2)
  <2>1. \A i : i.mn = "dup2" => EffectOn(i, Begins(Narrow2)) =
                                  Effects(Double(Slim, Slim), Double(Slim, Slim) \o Double(Slim, Slim))
    BY <1>7, ShortEffects
  <2>2. WidthsOf(Narrow2 \o Narrow2) = WidthsOf(Narrow2) \o WidthsOf(Narrow2)
    BY <1>2, WidthsJoined
  <2>3. WidthsOf(Narrow2 \o Narrow2) = Double(Slim, Slim) \o Double(Slim, Slim)
    BY <1>8, <2>2
  <2> QED BY <1>2, <1>8, <2>1, <2>3 DEF IsForm
<1> QED BY <1>3, <1>4, <1>5, <1>9, <1>10, <1>11, <1>12

\* SameEffect for the shuffles.
LEMMA ShuffledFits ==
  ASSUME NEW s \in Shuffled
  PROVE  Widths(Transfer(Idle(s.in), ClassifyOp(Operand(s.mn)), 0).stack) = Widths(Prepared(s.out))
<1> DEFINE i == Operand(s.mn)
<1>1. i.mn = s.mn
  BY DEF Operand
<1> HIDE DEF i
<1>2. IsForm(s.mn, s.in, s.out)
  <2>1. PICK mn, in, out : s = Sig(mn, in, out) /\ IsForm(mn, in, out)
    BY Forms DEF Shuffled
  <2>2. s.mn = mn /\ s.in = in /\ s.out = out
    BY <2>1 DEF Sig
  <2> QED BY <2>1, <2>2
<1>3. EffectOn(i, Begins(s.in)) = Effects(WidthsOf(s.in), WidthsOf(s.out))
  BY <1>1, <1>2 DEF IsForm
<1> QED BY <1>1, <1>2, <1>3, EffectSame DEF i, IsForm

\* For every opcode of the table and every form of a shuffle, the value-level
\* effect the lowering records (java_loader.rs:849-1073) has the operand widths
\* of the JVM's: no abstract stack is ever off by one entry. Only the table and
\* the lowering are involved, no bound.
THEOREM EffectsAgree == SameEffect
<1>1. ASSUME NEW s \in Signatures
      PROVE  Widths(Transfer(Idle(s.in), ClassifyOp(Operand(s.mn)), 0).stack) = Widths(Prepared(s.out))
  BY TableFits, ShuffledFits DEF Signatures
<1> QED BY <1>1 DEF SameEffect, Idle, Prepared

-----------------------------------------------------------------------------
(* Control flow: where an instruction sends its frame.                     *)

\* What two sequences put together hold.
LEMMA Together ==
  ASSUME NEW s, NEW t, IsASequence(s), IsASequence(t)
  PROVE  ToSet(s \o t) = ToSet(s) \cup ToSet(t)
<1> DEFINE S == ToSet(s) \cup ToSet(t)
<1>1. s \in Seq(S) /\ t \in Seq(S) /\ Len(s) \in Nat /\ Len(t) \in Nat
      /\ DOMAIN s = 1..Len(s) /\ DOMAIN t = 1..Len(t)
  BY SeqMonotonic, SequenceFacts DEF IsASequence
<1> HIDE DEF S
<1>2. /\ s \o t \in Seq(S) /\ Len(s \o t) = Len(s) + Len(t)
      /\ \A k \in 1..(Len(s) + Len(t)) : (s \o t)[k] = IF k <= Len(s) THEN s[k] ELSE t[k - Len(s)]
  BY <1>1, ConcatProperties
<1> DEFINE r == s \o t
<1>3. DOMAIN r = 1..(Len(s) + Len(t))
  BY <1>2, LenProperties
<1> HIDE DEF r
<1>4. ASSUME NEW x \in ToSet(r) PROVE x \in ToSet(s) \cup ToSet(t)
  <2>1. PICK k \in 1..(Len(s) + Len(t)) : x = r[k]
    BY <1>3, <1>4 DEF ToSet
  <2>2. CASE k <= Len(s)
    BY <1>1, <1>2, <2>1, <2>2 DEF ToSet, r
  <2>3. CASE ~(k <= Len(s))
    <3>1. k - Len(s) \in 1..Len(t)
      BY <1>1, <2>3
    <3> QED BY <1>1, <1>2, <2>1, <2>3, <3>1 DEF ToSet, r
  <2> QED BY <2>2, <2>3
<1>5. ASSUME NEW x \in ToSet(s) PROVE x \in ToSet(r)
  <2>1. PICK k \in 1..Len(s) : x = s[k]
    BY <1>1, <1>5 DEF ToSet
  <2>2. k \in 1..(Len(s) + Len(t)) /\ k <= Len(s)
    BY <1>1
  <2>3. r[k] = x
    BY <1>2, <2>1, <2>2 DEF r
  <2> QED BY <1>3, <2>2, <2>3 DEF ToSet
<1>6. ASSUME NEW x \in ToSet(t) PROVE x \in ToSet(r)
  <2>1. PICK k \in 1..Len(t) : x = t[k]
    BY <1>1, <1>6 DEF ToSet
  <2>2. Len(s) + k \in 1..(Len(s) + Len(t)) /\ ~(Len(s) + k <= Len(s)) /\ Len(s) + k - Len(s) = k
    BY <1>1
  <2>3. r[Len(s) + k] = x
    BY <1>2, <2>1, <2>2 DEF r
  <2> QED BY <1>3, <2>2, <2>3 DEF ToSet
<1> QED BY <1>4, <1>5, <1>6 DEF r

\* The instructions of a lowered method are its opcodes, in the same places.
LEMMA CodeFacts ==
  ASSUME NEW b
  PROVE  LET m == LowerMethod(b)
         IN  /\ DOMAIN m.code = DOMAIN b.opcodes
             /\ \A k \in DOMAIN b.opcodes : /\ m.code[k].offset = b.opcodes[k].at
                                            /\ m.code[k].op = ClassifyOp(b.opcodes[k])
             /\ m.exceptions = b.exceptions
             /\ \A offset : IndexOf(m, offset) = OpcodesAt(b, offset)
<1> DEFINE m == LowerMethod(b)
<1>1. m.code = [k \in DOMAIN b.opcodes |-> [offset |-> b.opcodes[k].at, op |-> ClassifyOp(b.opcodes[k])]]
  BY DEF LowerMethod
<1>2. m.exceptions = b.exceptions
  BY DEF LowerMethod
<1> HIDE DEF m
<1>3. \A offset : IndexOf(m, offset) = OpcodesAt(b, offset)
  BY <1>1 DEF IndexOf, OpcodesAt
<1> QED BY <1>1, <1>2, <1>3 DEF m

\* The control flow of an instruction, as the lowering records it.
LEMMA OpKinds ==
  ASSUME NEW i, Accepted(i)
  PROVE  LET op == ClassifyOp(i)
         IN  /\ i.mn \in Leaves \cup {"athrow"} => op.name \in {"Return", "Athrow"}
             /\ i.mn = "goto" => op.name = "Goto" /\ op.target = i.at + i.to
             /\ i.mn \in Switches => op.name = "Switch" /\ op.targets = {i.at + d : d \in i.to}
             /\ i.mn \in Branches => /\ op.name = "Branch" /\ op.target = i.at + i.to
                                     /\ op.kind = BranchKind(i.mn)
             /\ i.mn \notin Leaves \cup {"athrow", "goto"} \cup Switches \cup Branches =>
                  op.name \notin {"Return", "Athrow", "Goto", "Switch", "Branch"}
<1> DEFINE op == ClassifyOp(i)
<1>1. i.mn \in Leaves \cup {"athrow"} => op.name \in {"Return", "Athrow"}
  <2>1. CASE i.mn \in ValueReturns
    BY <2>1, Classified
  <2>2. CASE i.mn = "return"
    BY <2>2, Classified
  <2>3. CASE i.mn = "athrow"
    BY <2>3, Classified
  <2> QED BY <2>1, <2>2, <2>3 DEF Leaves
<1>2. i.mn = "goto" => op.name = "Goto" /\ op.target = i.at + i.to
  BY Classified DEF Target
<1>3. i.mn \in Switches => op.name = "Switch" /\ op.targets = {i.at + d : d \in i.to}
  BY Classified
<1>4. i.mn \in Branches => op.name = "Branch" /\ op.target = i.at + i.to /\ op.kind = BranchKind(i.mn)
  <2>1. i.mn \in IfOne => op = Branch(i, 1)
    BY Classified
  <2>2. i.mn \in IfTwo => op = Branch(i, 2)
    BY Classified
  <2> HIDE DEF op
  <2>3. \A n : op = Branch(i, n) => /\ op.name = "Branch" /\ op.target = i.at + i.to
                                    /\ op.kind = BranchKind(i.mn)
    BY DEF Branch, Target
  <2> QED BY <2>1, <2>2, <2>3 DEF Branches
<1>5. i.mn \notin Leaves \cup {"athrow", "goto"} \cup Switches \cup Branches =>
        op.name \in {"Other", "LongConst", "LongCompute", "LongCmp", "LoadLong", "StoreLong", "LoadRef", "StoreRef",
                     "GetField", "PutField", "GetStatic", "PutStatic", "Invoke"} \cup Shuffles
  <2>1. \A n, p : Other(n, p).name = "Other"
    BY DEF Other
  <2>2. i.mn \in NarrowSources \cup WideSources \cup Sinks \cup ToNarrow \cup ToWide \cup TwoToNarrow
                   \cup TwoToWide \cup ArrayStores => op.name = "Other"
    BY <2>1, Classified
  <2>3. i.mn \in {"multianewarray", "nop", "iinc", "invokedynamic"} => op.name = "Other"
    BY <2>1, Classified
  <2>4. i.mn \in LongBinary \cup LongUnary => op.name = "LongCompute"
    BY Classified
  <2>5. i.mn \in {"lconst_0", "lconst_1"} => op.name = "LongConst"
    BY Classified
  <2>6. i.mn = "ldc2_w" => op.name \in {"LongConst", "Other"}
    BY <2>1, Classified DEF Constant
  <2>7. /\ i.mn = "lcmp" => op.name = "LongCmp"
        /\ i.mn = "lload" => op.name = "LoadLong"
        /\ i.mn = "lstore" => op.name = "StoreLong"
        /\ i.mn = "aload" => op.name = "LoadRef"
        /\ i.mn = "astore" => op.name = "StoreRef"
    BY Classified
  <2>8. /\ i.mn = "getfield" => op.name = "GetField"
        /\ i.mn = "putfield" => op.name = "PutField"
        /\ i.mn = "getstatic" => op.name = "GetStatic"
        /\ i.mn = "putstatic" => op.name = "PutStatic"
    BY Classified DEF Member
  <2>9. i.mn \in Invokes => op.name = "Invoke"
    BY Classified DEF Call
  <2>10. i.mn \in {"dup", "dup2", "pop", "pop2", "swap"} => op.name \in Shuffles
    BY Classified DEF Shuffles
  <2> HIDE DEF op
  <2>11. i.mn \in PlainOnes => op.name \in {"Other", "LongConst", "LongCompute"}
    BY <2>2, <2>3, <2>4, <2>5 DEF PlainOnes
  <2> QED BY <2>3, <2>5, <2>6, <2>7, <2>8, <2>9, <2>10, <2>11, Kinds DEF Special, Branches
<1> HIDE DEF op
<1>6. i.mn \notin Leaves \cup {"athrow", "goto"} \cup Switches \cup Branches =>
        op.name \notin {"Return", "Athrow", "Goto", "Switch", "Branch"}
  BY <1>5 DEF Shuffles
<1> QED BY <1>1, <1>2, <1>3, <1>4, <1>6 DEF op

\* What is known where a branch is not taken, and where it is.
KnownPassed(mn, cond) == CASE mn = "ifne" -> IfZero(cond)
                           [] mn = "ifeq" -> IfNonZero(cond)
                           [] OTHER -> <<NoRefine>>

\* What is known where it is.
KnownTaken(mn, cond) == CASE mn = "ifne" -> IfNonZero(cond)
                          [] mn = "ifeq" -> IfZero(cond)
                          [] OTHER -> <<NoRefine>>

\* The edges to one target.
LEMMA SuccSet ==
  ASSUME NEW ts, NEW known
  PROVE  /\ \A e \in ToSet(Succ(ts, known)) : e.to \in ts /\ e.learn \in ToSet(known)
         /\ \A t \in ts, x \in ToSet(known) :
              (\A u \in ts : u = t) => [to |-> t, learn |-> x] \in ToSet(Succ(ts, known))
<1>1. CASE ts = {}
  <2>1. ToSet(Succ(ts, known)) = {}
    BY <1>1, Nothing DEF Succ
  <2> QED BY <1>1, <2>1
<1>2. CASE ts # {}
  <2> DEFINE t0 == CHOOSE t \in ts : TRUE
             s == [k \in DOMAIN known |-> [to |-> t0, learn |-> known[k]]]
  <2>1. Succ(ts, known) = s
    BY <1>2 DEF Succ
  <2>2. t0 \in ts
    BY <1>2
  <2> HIDE DEF t0
  <2>3. ASSUME NEW e \in ToSet(s) PROVE e.to \in ts /\ e.learn \in ToSet(known)
    BY <2>2, <2>3 DEF ToSet
  <2>4. ASSUME NEW t \in ts, NEW x \in ToSet(known), \A u \in ts : u = t
        PROVE  [to |-> t, learn |-> x] \in ToSet(s)
    <3>1. t0 = t
      BY <2>2, <2>4
    <3> QED BY <3>1, <2>4 DEF ToSet
  <2> QED BY <2>1, <2>3, <2>4
<1> QED BY <1>1, <1>2

\* What is known is one thing or nothing.
LEMMA KnownFacts ==
  ASSUME NEW mn, NEW cond
  PROVE  LET either == {NoRefine} \cup (IF cond.tag = "CmpFieldZero"
                                        THEN {Learn(cond.from, "Null"), Learn(cond.from, "Live")} ELSE {})
         IN  /\ ToSet(KnownPassed(mn, cond)) \subseteq either
             /\ ToSet(KnownTaken(mn, cond)) \subseteq either
<1>1. \A x : ToSet(<<x>>) = {x}
  <2> TAKE x
  <2>1. PICK s : s = <<x>>
    OBVIOUS
  <2>2. IsASequence(s) /\ Len(s) = 1 /\ s[1] = x
    BY <2>1, Few
  <2>3. DOMAIN s = {1}
    BY <2>2, SequenceFacts
  <2> QED BY <2>1, <2>2, <2>3 DEF ToSet
<1>2. ToSet(<<>>) = {}
  BY Nothing
<1> DEFINE either == {NoRefine} \cup (IF cond.tag = "CmpFieldZero"
                                      THEN {Learn(cond.from, "Null"), Learn(cond.from, "Live")} ELSE {})
<1>3. ToSet(IfZero(cond)) \subseteq either
  BY <1>1 DEF IfZero
<1>4. ToSet(IfNonZero(cond)) \subseteq either
  BY <1>1, <1>2 DEF IfNonZero
<1>5. ToSet(<<NoRefine>>) \subseteq either
  BY <1>1
<1> HIDE DEF either
<1>6. ToSet(KnownPassed(mn, cond)) \subseteq either
  BY <1>3, <1>4, <1>5 DEF KnownPassed
<1>7. ToSet(KnownTaken(mn, cond)) \subseteq either
  BY <1>3, <1>4, <1>5 DEF KnownTaken
<1> QED BY <1>6, <1>7 DEF either

\* The edges of a branch.
LEMMA BranchSet ==
  ASSUME NEW b, NEW k \in DOMAIN b.opcodes, Accepted(b.opcodes[k]), b.opcodes[k].mn \in Branches, NEW f
  PROVE  LET i == b.opcodes[k]
             m == LowerMethod(b)
         IN  ToSet(NormalSucc(m, k, f)) =
               ToSet(Succ({k + 1} \cap DOMAIN b.opcodes, KnownPassed(i.mn, Peek(f, 1))))
                 \cup ToSet(Succ(OpcodesAt(b, i.at + i.to), KnownTaken(i.mn, Peek(f, 1))))
<1> DEFINE i == b.opcodes[k]
           m == LowerMethod(b)
           op == m.code[k].op
           cond == Peek(f, 1)
           S == Succ({k + 1} \cap DOMAIN b.opcodes, KnownPassed(i.mn, cond))
           T == Succ(OpcodesAt(b, i.at + i.to), KnownTaken(i.mn, cond))
<1>1. /\ op = ClassifyOp(i) /\ DOMAIN m.code = DOMAIN b.opcodes
      /\ \A offset : IndexOf(m, offset) = OpcodesAt(b, offset)
  BY CodeFacts
<1>2. op.name = "Branch" /\ op.target = i.at + i.to /\ op.kind = BranchKind(i.mn)
  BY <1>1, OpKinds
<1>3. Following(m, k) = {k + 1} \cap DOMAIN b.opcodes /\ Taken(m, op) = OpcodesAt(b, i.at + i.to)
  BY <1>1, <1>2 DEF Following, Taken
<1>4. NormalSucc(m, k, f) = BranchEdges(m, k, op, cond)
  BY <1>2 DEF NormalSucc
<1> HIDE DEF m, op
<1>5. BranchEdges(m, k, op, cond) = S \o T
  <2>1. CASE i.mn = "ifne"
    <3>1. op.kind = "IfNe"
      BY <1>2, <2>1 DEF BranchKind
    <3> QED BY <1>3, <2>1, <3>1 DEF BranchEdges, KnownPassed, KnownTaken
  <2>2. CASE i.mn = "ifeq"
    <3>1. op.kind = "IfEq"
      BY <1>2, <2>2 DEF BranchKind
    <3> QED BY <1>3, <2>2, <3>1 DEF BranchEdges, KnownPassed, KnownTaken
  <2>3. CASE i.mn # "ifne" /\ i.mn # "ifeq"
    <3>1. op.kind = "Other"
      BY <1>2, <2>3 DEF BranchKind
    <3> QED BY <1>3, <2>3, <3>1 DEF BranchEdges, KnownPassed, KnownTaken
  <2> QED BY <2>1, <2>2, <2>3
<1>6. IsASequence(S) /\ IsASequence(T)
  <2>1. ASSUME NEW us
        PROVE  /\ IsASequence(Succ(us, IfZero(cond))) /\ IsASequence(Succ(us, IfNonZero(cond)))
               /\ IsASequence(Succ(us, <<NoRefine>>))
    BY SuccIsASequence DEF IfZero, IfNonZero
  <2>2. ASSUME NEW us, NEW mn
        PROVE  IsASequence(Succ(us, KnownPassed(mn, cond))) /\ IsASequence(Succ(us, KnownTaken(mn, cond)))
    BY <2>1 DEF KnownPassed, KnownTaken
  <2> QED BY <2>2
<1> HIDE DEF S, T
<1>7. ToSet(S \o T) = ToSet(S) \cup ToSet(T)
  BY <1>6, Together
<1> QED BY <1>4, <1>5, <1>7 DEF m, op, S, T

\* The edges of any other instruction.
LEMMA StraightSet ==
  ASSUME NEW b, IsFiniteSet(DOMAIN b.opcodes), DOMAIN b.opcodes \subseteq Int, NEW k \in DOMAIN b.opcodes,
         Accepted(b.opcodes[k]), b.opcodes[k].mn \notin Branches, NEW f
  PROVE  LET i == b.opcodes[k]
             ts == IF i.mn \in Leaves \cup {"athrow"} THEN {} ELSE Successors(b, k) \cap DOMAIN b.opcodes
         IN  ToSet(NormalSucc(LowerMethod(b), k, f)) = {[to |-> t, learn |-> NoRefine] : t \in ts}
<1> DEFINE i == b.opcodes[k]
           m == LowerMethod(b)
           op == m.code[k].op
           ts == IF i.mn \in Leaves \cup {"athrow"} THEN {} ELSE Successors(b, k) \cap DOMAIN b.opcodes
           S == CASE op.name \in {"Return", "Athrow"} -> {}
                  [] op.name = "Goto"   -> IndexOf(m, op.target)
                  [] op.name = "Switch" -> UNION {IndexOf(m, t) : t \in op.targets}
                  [] OTHER              -> Following(m, k)
<1>1. /\ op = ClassifyOp(i) /\ DOMAIN m.code = DOMAIN b.opcodes
      /\ \A offset : IndexOf(m, offset) = OpcodesAt(b, offset)
  BY CodeFacts
<1>2. /\ i.mn \in Leaves \cup {"athrow"} => op.name \in {"Return", "Athrow"}
      /\ i.mn = "goto" => op.name = "Goto" /\ op.target = i.at + i.to
      /\ i.mn \in Switches => op.name = "Switch" /\ op.targets = {i.at + d : d \in i.to}
      /\ i.mn \notin Leaves \cup {"athrow", "goto"} \cup Switches =>
           op.name \notin {"Return", "Athrow", "Goto", "Switch", "Branch"}
  BY <1>1, OpKinds
<1>3. \A offset : OpcodesAt(b, offset) \subseteq DOMAIN b.opcodes
  BY DEF OpcodesAt
<1> HIDE DEF m, op
<1>4. op.name # "Branch"
  BY <1>2
<1>5. S = ts
  <2>1. CASE i.mn \in Leaves \cup {"athrow"}
    BY <1>2, <2>1
  <2>2. CASE i.mn = "goto"
    <3>1. i.mn \notin Leaves \cup {"athrow"} /\ Distances(i) = {i.to} /\ ~FallsThrough(i)
      BY <2>2 DEF Leaves, ValueReturns, Distances, Switches, FallsThrough
    <3>2. Successors(b, k) = OpcodesAt(b, i.at + i.to)
      BY <3>1 DEF Successors, Targets
    <3>3. S = OpcodesAt(b, i.at + i.to)
      BY <1>1, <1>2, <2>2
    <3> QED BY <1>3, <3>1, <3>2, <3>3
  <2>3. CASE i.mn \in Switches
    <3>1. i.mn \notin Leaves \cup {"athrow"} /\ Distances(i) = i.to /\ ~FallsThrough(i)
      BY <2>3 DEF Leaves, ValueReturns, Distances, Switches, FallsThrough
    <3>2. Successors(b, k) = UNION {OpcodesAt(b, i.at + d) : d \in i.to}
      BY <3>1 DEF Successors, Targets
    <3>3. S = UNION {IndexOf(m, t) : t \in op.targets}
      BY <1>2, <2>3
    <3>4. S = UNION {OpcodesAt(b, t) : t \in op.targets}
      BY <1>1, <3>3
    <3>5. S = UNION {OpcodesAt(b, i.at + d) : d \in i.to}
      BY <1>2, <2>3, <3>4
    <3>6. UNION {OpcodesAt(b, i.at + d) : d \in i.to} \subseteq DOMAIN b.opcodes
      BY <1>3
    <3> QED BY <3>1, <3>2, <3>5, <3>6
  <2>4. CASE i.mn \notin Leaves \cup {"athrow", "goto"} \cup Switches
    <3>1. S = Following(m, k)
      BY <1>2, <2>4
    <3>2. Distances(i) = {} /\ FallsThrough(i)
      BY <2>4 DEF Distances, FallsThrough
    <3>3. Successors(b, k) = {k + 1}
      BY <3>2 DEF Successors, Targets
    <3> QED BY <1>1, <2>4, <3>1, <3>3 DEF Following
  <2> QED BY <2>1, <2>2, <2>3, <2>4
<1>6. NormalSucc(m, k, f) = [j \in DOMAIN Sorted(S) |-> [to |-> Sorted(S)[j], learn |-> NoRefine]]
  BY <1>4 DEF NormalSucc, op
<1>7. ts \subseteq DOMAIN b.opcodes
  OBVIOUS
<1> HIDE DEF S, ts
<1>8. IsFiniteSet(ts) /\ ts \subseteq Int
  BY <1>7, FS_Subset
<1> DEFINE s == Sorted(ts)
<1>9. /\ DOMAIN s = 1..Len(s) /\ \A j \in 1..Len(s) : s[j] \in ts
      /\ \A x \in ts : \E j \in 1..Len(s) : s[j] = x
  BY <1>8, SortedComplete, SequenceFacts
<1> HIDE DEF s
<1>10. ToSet([j \in DOMAIN s |-> [to |-> s[j], learn |-> NoRefine]]) = {[to |-> t, learn |-> NoRefine] : t \in ts}
  BY <1>9 DEF ToSet
<1>11. ToSet(NormalSucc(m, k, f)) = {[to |-> t, learn |-> NoRefine] : t \in ts}
  BY <1>5, <1>6, <1>10 DEF s
<1> QED BY <1>11 DEF m, ts

\* Where an instruction sends what it leaves: only to where the JVM may go on.
LEMMA NormalTargets ==
  ASSUME NEW b, IsFiniteSet(DOMAIN b.opcodes), DOMAIN b.opcodes \subseteq Int, NEW k \in DOMAIN b.opcodes,
         Accepted(b.opcodes[k]), NEW f, NEW e \in ToSet(NormalSucc(LowerMethod(b), k, f))
  PROVE  /\ e.to \in Successors(b, k) /\ e.to \in DOMAIN b.opcodes
         /\ b.opcodes[k].mn \notin Leaves \cup {"athrow"}
         /\ \/ e.learn = NoRefine
            \/ /\ b.opcodes[k].mn \in Branches /\ Peek(f, 1).tag = "CmpFieldZero"
               /\ e.learn \in {Learn(Peek(f, 1).from, "Null"), Learn(Peek(f, 1).from, "Live")}
<1> DEFINE i == b.opcodes[k]
           cond == Peek(f, 1)
<1>1. CASE i.mn \in Branches
  <2> DEFINE U == {k + 1} \cap DOMAIN b.opcodes
             V == OpcodesAt(b, i.at + i.to)
  <2>1. i.mn \notin Leaves \cup {"athrow"}
    BY <1>1 DEF Branches, IfOne, IfTwo, Leaves, ValueReturns
  <2>2. Distances(i) = {i.to} /\ FallsThrough(i)
    BY <1>1 DEF Branches, IfOne, IfTwo, Leaves, ValueReturns, Distances, FallsThrough, Switches
  <2>3. Successors(b, k) = V \cup {k + 1}
    BY <2>2 DEF Successors, Targets
  <2>4. V \subseteq DOMAIN b.opcodes
    BY DEF OpcodesAt
  <2>5. e \in ToSet(Succ(U, KnownPassed(i.mn, cond))) \/ e \in ToSet(Succ(V, KnownTaken(i.mn, cond)))
    <3>1. ToSet(NormalSucc(LowerMethod(b), k, f)) =
            ToSet(Succ(U, KnownPassed(i.mn, cond))) \cup ToSet(Succ(V, KnownTaken(i.mn, cond)))
      BY <1>1, BranchSet
    <3> HIDE DEF U, V, cond
    <3> QED BY <3>1
  <2> HIDE DEF U, V, cond
  <2>6. /\ e.to \in U \cup V
        /\ e.learn \in ToSet(KnownPassed(i.mn, cond)) \cup ToSet(KnownTaken(i.mn, cond))
    BY <2>5, SuccSet
  <2>7. \/ e.learn = NoRefine
        \/ cond.tag = "CmpFieldZero" /\ e.learn \in {Learn(cond.from, "Null"), Learn(cond.from, "Live")}
    <3>1. CASE cond.tag = "CmpFieldZero"
      BY <2>6, <3>1, KnownFacts
    <3>2. CASE cond.tag # "CmpFieldZero"
      BY <2>6, <3>2, KnownFacts
    <3> QED BY <3>1, <3>2
  <2> QED BY <1>1, <2>1, <2>3, <2>4, <2>6, <2>7 DEF U, cond
<1>2. CASE i.mn \notin Branches
  <2> DEFINE ts == IF i.mn \in Leaves \cup {"athrow"} THEN {} ELSE Successors(b, k) \cap DOMAIN b.opcodes
  <2>1. ToSet(NormalSucc(LowerMethod(b), k, f)) = {[to |-> t, learn |-> NoRefine] : t \in ts}
    BY <1>2, StraightSet
  <2> HIDE DEF ts
  <2>2. e.to \in ts /\ e.learn = NoRefine
    BY <2>1
  <2> QED BY <2>2 DEF ts
<1> QED BY <1>1, <1>2

\* All an instruction sends: what it leaves to its successors, and the frame it
\* finds, without the stack, to the handlers of the ranges it lies in.
LEMMA EdgesSet ==
  ASSUME NEW b, IsFiniteSet(DOMAIN b.opcodes), DOMAIN b.opcodes \subseteq Int, NEW k \in DOMAIN b.opcodes, NEW f
  PROVE  LET m == LowerMethod(b)
             i == b.opcodes[k]
             out == Transfer(f, ClassifyOp(i), i.at)
         IN  ToSet(Edges(m, k, f)) =
               {[to |-> e.to, frame |-> Refined(out, e.learn)] : e \in ToSet(NormalSucc(m, k, f))}
                 \cup {[to |-> h, frame |-> HandlerFrame(f)] :
                        h \in UNION {OpcodesAt(b, e.handler) : e \in Catchers(b, k)}}
<1> DEFINE m == LowerMethod(b)
           i == b.opcodes[k]
           out == Transfer(f, m.code[k].op, m.code[k].offset)
           H == UNION {OpcodesAt(b, e.handler) : e \in Catchers(b, k)}
           ss == NormalSucc(m, k, f)
           hs == Sorted(H)
           s == [j \in DOMAIN ss |-> [to |-> ss[j].to, frame |-> Refined(out, ss[j].learn)]]
           t == [j \in DOMAIN hs |-> [to |-> hs[j], frame |-> HandlerFrame(f)]]
<1>1. /\ m.code[k].op = ClassifyOp(i) /\ m.code[k].offset = i.at /\ DOMAIN m.code = DOMAIN b.opcodes
      /\ m.exceptions = b.exceptions
      /\ \A offset : IndexOf(m, offset) = OpcodesAt(b, offset)
  BY CodeFacts
<1> HIDE DEF m
<1>2. Handlers(m, k) = H
  <2>1. Catchers(b, k) = {x \in m.exceptions : x.start <= m.code[k].offset /\ m.code[k].offset < x.end}
    BY <1>1 DEF Catchers
  <2>2. Handlers(m, k) = UNION {IndexOf(m, e.handler) : e \in Catchers(b, k)}
    BY <2>1 DEF Handlers
  <2>3. Handlers(m, k) = UNION {OpcodesAt(b, e.handler) : e \in Catchers(b, k)}
    BY <1>1, <2>2
  <2> QED BY <2>3
<1>3. H \subseteq DOMAIN b.opcodes
  BY DEF OpcodesAt
<1>4. IsFiniteSet(H) /\ H \subseteq Int
  BY <1>3, FS_Subset
<1>5. Edges(m, k, f) = s \o t
  BY <1>2 DEF Edges
<1>6. PICK n \in Nat : DOMAIN ss = 1..n
  BY <1>1, NormalSuccIsASequence, SequenceFacts DEF m
<1> HIDE DEF H, ss, out
<1>7. /\ Len(hs) \in Nat /\ DOMAIN hs = 1..Len(hs) /\ \A j \in 1..Len(hs) : hs[j] \in H
      /\ \A x \in H : \E j \in 1..Len(hs) : hs[j] = x
  BY <1>4, SortedComplete, SequenceFacts
<1> HIDE DEF hs
<1>8. IsASequence(s)
  BY <1>6, Enumerated
<1>9. IsASequence(t)
  BY <1>7, Enumerated
<1>10. ToSet(s) = {[to |-> e.to, frame |-> Refined(out, e.learn)] : e \in ToSet(ss)}
  BY DEF ToSet
<1>11. ToSet(t) = {[to |-> h, frame |-> HandlerFrame(f)] : h \in H}
  BY <1>7 DEF ToSet
<1> HIDE DEF s, t
<1>12. ToSet(s \o t) = ToSet(s) \cup ToSet(t)
  BY <1>8, <1>9, Together
<1>13. ToSet(Edges(m, k, f)) = {[to |-> e.to, frame |-> Refined(out, e.learn)] : e \in ToSet(ss)}
                                 \cup {[to |-> h, frame |-> HandlerFrame(f)] : h \in H}
  BY <1>5, <1>10, <1>11, <1>12
<1>14. out = Transfer(f, ClassifyOp(i), i.at)
  BY <1>1 DEF out
<1> QED BY <1>13, <1>14 DEF m, H, ss

\* What a branch learns about a field does not change the shape of the frame.
LEMMA RefinedFacts ==
  ASSUME NEW f, Framed(f), NEW learn
  PROVE  /\ Framed(Refined(f, learn))
         /\ Refined(f, learn).stack = f.stack /\ Refined(f, learn).locals = f.locals
         /\ \A x \in Fields : Refined(f, learn).fields[x] = IF x = learn.field THEN learn.is ELSE f.fields[x]
<1> DEFINE X == [x \in Fields |-> IF x = learn.field THEN learn.is ELSE f.fields[x]]
           g == Refined(f, learn)
<1>1. g = [f EXCEPT !.fields = X]
  BY DEF Refined
<1>2. \A x \in Fields : X[x] = IF x = learn.field THEN learn.is ELSE f.fields[x]
  OBVIOUS
<1>2a. X = [x \in Fields |-> X[x]]
  OBVIOUS
<1> HIDE DEF X, g
<1>3. g = [stack |-> f.stack, locals |-> f.locals, fields |-> X]
  BY <1>1 DEF Framed
<1>4. g = [stack |-> g.stack, locals |-> g.locals, fields |-> g.fields]
      /\ g.stack = f.stack /\ g.locals = f.locals /\ g.fields = X
  BY <1>3
<1>5. Framed(g)
  BY <1>2a, <1>4 DEF Framed
<1> QED BY <1>2, <1>4, <1>5 DEF g

\* Where nothing is learnt the frame is the same.
LEMMA UnrefinedFacts ==
  ASSUME NEW f, Framed(f)
  PROVE  Refined(f, NoRefine) = f
<1> DEFINE g == Refined(f, NoRefine)
<1>1. /\ Framed(g) /\ g.stack = f.stack /\ g.locals = f.locals
      /\ \A x \in Fields : g.fields[x] = IF x = NoRefine.field THEN NoRefine.is ELSE f.fields[x]
  BY RefinedFacts
<1>2. \A x \in Fields : g.fields[x] = f.fields[x]
  BY <1>1, NamesAssumption DEF NoRefine
<1> HIDE DEF g
<1>3. g.fields = f.fields
  BY <1>1, <1>2 DEF Framed
<1> QED BY <1>1, <1>3 DEF Framed, g

\* A handler starts from the thrown object alone.
LEMMA HandlerFacts ==
  ASSUME NEW f, Framed(f)
  PROVE  /\ Framed(HandlerFrame(f)) /\ HandlerFrame(f).stack = <<Item(NotHandle, FALSE)>>
         /\ HandlerFrame(f).locals = f.locals /\ HandlerFrame(f).fields = f.fields
         /\ Fits(HandlerFrame(f).stack, <<FALSE>>)
<1>0. PICK x : x = Item(NotHandle, FALSE)
  OBVIOUS
<1>a. PICK no : no = FALSE
  OBVIOUS
<1>1. HandlerFrame(f) = [stack |-> <<x>>, locals |-> f.locals, fields |-> f.fields]
  BY <1>0, NewStack DEF HandlerFrame, Framed
<1> DEFINE g == HandlerFrame(f)
<1> HIDE DEF g
<1>2. /\ g = [stack |-> g.stack, locals |-> g.locals, fields |-> g.fields]
      /\ g.stack = <<x>> /\ g.locals = f.locals /\ g.fields = f.fields
  BY <1>1 DEF g
<1>3. IsASequence(<<x>>)
  BY Few
<1>4. Framed(g)
  BY <1>2, <1>3 DEF Framed
<1>5. x.wide = no
  BY <1>0, <1>a DEF Item
<1>6. Fits(<<x>>, <<no>>)
  BY <1>5, FitsFew
<1> QED BY <1>0, <1>a, <1>2, <1>4, <1>6 DEF g

-----------------------------------------------------------------------------
(* The frames have the shapes of the stack map.                            *)

\* A frame of the shape the verifier gives the instruction.
Shaped(b, k, f) == k \in DOMAIN StackMap(b) /\ Framed(f) /\ Fits(f.stack, StackMap(b)[k])

\* The opcodes of a method, by number.
LEMMA Places ==
  ASSUME NEW b \in Methods
  PROVE  /\ IsFiniteSet(DOMAIN b.opcodes) /\ DOMAIN b.opcodes = 1..Len(b.opcodes) /\ Len(b.opcodes) \in Nat
         /\ DOMAIN b.opcodes \subseteq Int /\ DOMAIN b.opcodes \subseteq Nat \ {0}
<1>1. IsASequence(b.opcodes)
  BY MethodsAssumption DEF IsASequence
<1>2. DOMAIN b.opcodes = 1..Len(b.opcodes) /\ Len(b.opcodes) \in Nat
  BY <1>1, SequenceFacts
<1>3. IsFiniteSet(1..Len(b.opcodes))
  BY <1>2, FS_Interval
<1> QED BY <1>2, <1>3

\* What the verifier says of one instruction.
LEMMA VerifiedAt ==
  ASSUME NEW b \in Methods, NEW k \in DOMAIN StackMap(b)
  PROVE  /\ k \in DOMAIN b.opcodes
         /\ Accepted(b.opcodes[k]) /\ Finds(b.opcodes[k], StackMap(b)[k])
         /\ \A t \in Successors(b, k) : t \in DOMAIN StackMap(b) /\ StackMap(b)[t] = After(b.opcodes[k], StackMap(b)[k])
         /\ \A e \in Catchers(b, k) :
                /\ OpcodesAt(b, e.handler) # {}
                /\ \A t \in OpcodesAt(b, e.handler) : t \in DOMAIN StackMap(b) /\ StackMap(b)[t] = Single(Slim)
         /\ \A d \in Distances(b.opcodes[k]) : OpcodesAt(b, b.opcodes[k].at + d) # {}
BY VerifiedAssumption DEF Verified, Single, Slim

\* What is sent has the shape its receiver has.
LEMMA SentShaped ==
  ASSUME NEW b \in Methods, NEW k, NEW f, Shaped(b, k, f), NEW e \in ToSet(Edges(LowerMethod(b), k, f))
  PROVE  Shaped(b, e.to, e.frame)
<1> DEFINE i == b.opcodes[k]
           w == StackMap(b)[k]
           T == Transfer(f, ClassifyOp(i), i.at)
<1>1. k \in DOMAIN StackMap(b) /\ Framed(f) /\ Fits(f.stack, w)
  BY DEF Shaped
<1>2. /\ k \in DOMAIN b.opcodes /\ Accepted(i) /\ Finds(i, w)
      /\ \A t \in Successors(b, k) : t \in DOMAIN StackMap(b) /\ StackMap(b)[t] = After(i, w)
  BY <1>1, VerifiedAt
<1>3. \A c \in Catchers(b, k) :
         \A t \in OpcodesAt(b, c.handler) : t \in DOMAIN StackMap(b) /\ StackMap(b)[t] = Single(Slim)
  <2>1. k \in DOMAIN StackMap(b)
    BY <1>1
  <2> HIDE DEF w, i, T
  <2> QED BY <2>1, VerifiedAt
<1>4. ToSet(Edges(LowerMethod(b), k, f)) =
               {[to |-> n.to, frame |-> Refined(T, n.learn)] : n \in ToSet(NormalSucc(LowerMethod(b), k, f))}
                 \cup {[to |-> h, frame |-> HandlerFrame(f)] :
                        h \in UNION {OpcodesAt(b, c.handler) : c \in Catchers(b, k)}}
  BY <1>2, Places, EdgesSet
<1>5. CASE \E n \in ToSet(NormalSucc(LowerMethod(b), k, f)) : e = [to |-> n.to, frame |-> Refined(T, n.learn)]
  <2>1. PICK n \in ToSet(NormalSucc(LowerMethod(b), k, f)) : e = [to |-> n.to, frame |-> Refined(T, n.learn)]
    BY <1>5
  <2>2. n.to \in Successors(b, k) /\ i.mn \notin Leaves \cup {"athrow"}
    BY <1>2, Places, NormalTargets
  <2>3. Kept(i, w, T)
    BY <1>1, <1>2, <2>2, KeepsHeights
  <2> HIDE DEF T
  <2>4. Framed(Refined(T, n.learn)) /\ Refined(T, n.learn).stack = T.stack
    BY <2>3, RefinedFacts DEF Kept
  <2>5. e.to = n.to /\ e.frame = Refined(T, n.learn)
    BY <2>1
  <2>6. StackMap(b)[n.to] = After(i, w) /\ n.to \in DOMAIN StackMap(b)
    BY <1>2, <2>2
  <2> QED BY <2>3, <2>4, <2>5, <2>6 DEF Shaped, Kept
<1>6. CASE \E h \in UNION {OpcodesAt(b, c.handler) : c \in Catchers(b, k)} : e = [to |-> h, frame |-> HandlerFrame(f)]
  <2>0. PICK h \in UNION {OpcodesAt(b, c.handler) : c \in Catchers(b, k)} : e = [to |-> h, frame |-> HandlerFrame(f)]
    BY <1>6
  <2>1. PICK c \in Catchers(b, k) : h \in OpcodesAt(b, c.handler)
    OBVIOUS
  <2>2. h \in DOMAIN StackMap(b) /\ StackMap(b)[h] = Single(Slim)
    BY <1>3, <2>1
  <2>3. Framed(HandlerFrame(f)) /\ Fits(HandlerFrame(f).stack, Single(Slim))
    BY <1>1, HandlerFacts DEF Single, Slim
  <2>4. e.to = h /\ e.frame = HandlerFrame(f)
    BY <2>0
  <2> QED BY <2>2, <2>3, <2>4 DEF Shaped
<1> QED BY <1>4, <1>5, <1>6

\* Merging two frames of a shape gives one.
LEMMA MergeShaped ==
  ASSUME NEW b, NEW k, NEW f, Shaped(b, k, f), NEW g
  PROVE  Shaped(b, k, Merge(f, g))
<1> DEFINE w == StackMap(b)[k]
           s == [i \in DOMAIN f.stack |-> JoinItem(f.stack[i], g.stack[i])]
           L == [x \in Slots |-> JoinVal(f.locals[x], g.locals[x])]
           X == [x \in Fields |-> JoinField(f.fields[x], g.fields[x])]
           m == Merge(f, g)
<1>1. k \in DOMAIN StackMap(b) /\ Framed(f) /\ Fits(f.stack, w)
  BY DEF Shaped
<1>2. CASE ~SameHeight(f, g)
  BY <1>2 DEF Merge
<1>3. CASE SameHeight(f, g)
  <2>1. m = [stack |-> s, locals |-> L, fields |-> X]
    BY <1>3 DEF Merge
  <2>2. Len(f.stack) \in Nat /\ DOMAIN f.stack = 1..Len(f.stack)
    BY <1>1, SequenceFacts DEF Framed
  <2>3. s = [i \in 1..Len(f.stack) |-> JoinItem(f.stack[i], g.stack[i])]
    BY <2>2
  <2>4. IsASequence(s) /\ Len(s) = Len(f.stack)
    <3> HIDE DEF s
    <3>1. DOMAIN s = 1..Len(f.stack) /\ s = [i \in DOMAIN s |-> s[i]]
      BY <2>3
    <3>2. IsASequence(s)
      BY <2>2, <3>1, Enumerated
    <3> QED BY <2>2, <3>1, <3>2, SequenceFacts
  <2>5. \A i \in 1..Len(f.stack) : s[i].wide = f.stack[i].wide
    BY <2>2 DEF JoinItem, Item
  <2>6. L = [x \in Slots |-> L[x]] /\ X = [x \in Fields |-> X[x]]
    OBVIOUS
  <2> HIDE DEF s, L, X, m
  <2>7. m = [stack |-> m.stack, locals |-> m.locals, fields |-> m.fields] /\ m.stack = s /\ m.locals = L /\ m.fields = X
    BY <2>1
  <2>8. Framed(m)
    BY <2>4, <2>6, <2>7 DEF Framed
  <2>9. Fits(m.stack, w)
    BY <1>1, <2>4, <2>5, <2>7 DEF Fits
  <2> QED BY <1>1, <2>8, <2>9 DEF Shaped, m
<1> QED BY <1>2, <1>3

\* The frame a method is entered with.
LEMMA EntryShaped ==
  ASSUME NEW b \in Methods
  PROVE  Shaped(b, 1, Entry(LowerMethod(b)))
<1> DEFINE f == Entry(LowerMethod(b))
<1>1. f.stack = <<>> /\ Framed(f)
  <2> DEFINE L == f.locals
             X == f.fields
  <2>1. f = [stack |-> <<>>, locals |-> L, fields |-> X]
    BY DEF Entry
  <2>1a. L = [s \in Slots |-> L[s]] /\ X = [x \in Fields |-> X[x]]
    BY DEF Entry
  <2> HIDE DEF f
  <2>2. f.stack = <<>> /\ f.locals = L /\ f.fields = X /\ f = [stack |-> f.stack, locals |-> f.locals, fields |-> f.fields]
    BY <2>1
  <2>3. IsASequence(<<>>)
    BY Few
  <2> QED BY <2>1a, <2>2, <2>3 DEF Framed
<1>2. 1 \in DOMAIN StackMap(b) /\ StackMap(b)[1] = <<>>
  BY VerifiedAssumption DEF Verified
<1> HIDE DEF f
<1>3. Fits(<<>>, <<>>)
  BY FitsFew, FitsShort DEF Empty
<1> QED BY <1>1, <1>2, <1>3 DEF Shaped, f

\* The frames of the analysis have the shapes the verifier found.
ShapesHold ==
  /\ method \in Methods /\ Analysed(method) /\ body = LowerMethod(method)
  /\ \A k \in DOMAIN state : Shaped(method, k, state[k])
  /\ \A e \in ToSet(edges) : Shaped(method, e.to, e.frame)
  /\ ToSet(work) \subseteq DOMAIN state

\* It holds at the start,
LEMMA ShapesInit == Init => ShapesHold
<1> SUFFICES ASSUME Init PROVE ShapesHold
  OBVIOUS
<1>1. /\ method \in Methods /\ Analysed(method) /\ body = LowerMethod(method)
      /\ state = [i \in {1} |-> Entry(body)] /\ edges = <<>> /\ work = <<1>>
  BY DEF Init
<1>2. ToSet(edges) = {}
  BY <1>1, Nothing
<1>3. ToSet(work) = {1}
  <2>1. IsASequence(work) /\ Len(work) = 1 /\ work[1] = 1
    BY <1>1, Few
  <2> QED BY <2>1, SequenceFacts DEF ToSet
<1>4. Shaped(method, 1, Entry(body))
  BY <1>1, EntryShaped
<1> QED BY <1>1, <1>2, <1>3, <1>4 DEF ShapesHold

\* when an instruction is visited,
LEMMA ShapesVisit == IInv /\ ShapesHold /\ Visit => ShapesHold'
<1> SUFFICES ASSUME IInv, ShapesHold, Visit PROVE ShapesHold'
  OBVIOUS
<1>1. /\ method' = method /\ body' = body /\ state' = state
      /\ work # <<>> /\ work' = Tail(work) /\ edges' = Edges(body, Head(work), state[Head(work)])
  BY DEF Visit
<1>2. ToSet(work') \subseteq ToSet(work) /\ Head(work) \in ToSet(work)
  BY <1>1, HeadOrTail DEF IInv
<1>3. Shaped(method, Head(work), state[Head(work)])
  BY <1>2 DEF ShapesHold
<1>4. \A e \in ToSet(edges') : Shaped(method, e.to, e.frame)
  BY <1>1, <1>3, SentShaped DEF ShapesHold
<1> QED BY <1>1, <1>2, <1>4 DEF ShapesHold

\* when what it sends is merged,
LEMMA ShapesFlow == IInv /\ ShapesHold /\ Flow => ShapesHold'
<1> SUFFICES ASSUME IInv, ShapesHold, Flow PROVE ShapesHold'
  OBVIOUS
<1>0. PICK d : d = Head(edges)
  OBVIOUS
<1> DEFINE old == d.to \in DOMAIN state
           new == IF old THEN Merge(state[d.to], d.frame) ELSE d.frame
<1>1. /\ method' = method /\ body' = body /\ edges # <<>> /\ edges' = Tail(edges)
      /\ state' = WithState(d.to, new)
      /\ work' = work \/ work' = Append(work, d.to)
  BY <1>0 DEF Flow
<1>2. ToSet(edges') \subseteq ToSet(edges) /\ d \in ToSet(edges)
  BY <1>0, <1>1, HeadOrTail DEF IInv
<1>3. /\ DOMAIN state' = DOMAIN state \cup {d.to} /\ state'[d.to] = new
      /\ \A j \in DOMAIN state : j # d.to => state'[j] = state[j]
  BY <1>1 DEF WithState
<1>4. Shaped(method, d.to, new)
  <2>1. CASE old
    BY <2>1, MergeShaped DEF ShapesHold
  <2>2. CASE ~old
    BY <1>2, <2>2 DEF ShapesHold
  <2> QED BY <2>1, <2>2
<1> HIDE DEF new
<1>5. \A k \in DOMAIN state' : Shaped(method, k, state'[k])
  BY <1>3, <1>4 DEF ShapesHold
<1>6. ToSet(work') \subseteq DOMAIN state'
  <2>1. CASE work' = work
    BY <1>3, <2>1 DEF ShapesHold
  <2>2. CASE work' = Append(work, d.to)
    <3>1. \A x \in ToSet(work') : x \in ToSet(work) \/ x = d.to
      <4>1. IsASequence(work)
        BY DEF IInv
      <4> DEFINE S == ToSet(work) \cup {d.to}
      <4>2. work \in Seq(S) /\ d.to \in S
        BY <4>1, SeqMonotonic DEF IsASequence
      <4> HIDE DEF S
      <4>3. work' \in Seq(S)
        BY <2>2, <4>2, AppendProperties
      <4>4. \A k \in 1..Len(work') : work'[k] \in S
        BY <4>3, ElementOfSeq
      <4>5. DOMAIN work' = 1..Len(work')
        BY <4>3, LenProperties
      <4> QED BY <4>4, <4>5 DEF ToSet, S
    <3> QED BY <1>3, <3>1 DEF ShapesHold
  <2> QED BY <1>1, <2>1, <2>2
<1> QED BY <1>1, <1>2, <1>5, <1>6 DEF ShapesHold

\* and of the emission and of stuttering.
LEMMA ShapesRest == ShapesHold /\ (Emit \/ UNCHANGED fvars) => ShapesHold'
BY DEF ShapesHold, Emit, fvars

\* The frames the analysis works on have the heights and widths the verifier
\* found, whatever way control takes to an instruction (flow.rs:401-459 over
\* cfg.rs): the inductive invariant of the worklist, of class files the verifier
\* accepts.
THEOREM FramesShaped == Spec => [](IInv /\ ShapesHold)
<1>1. ShapesHold /\ IInv /\ [Analyse]_fvars => ShapesHold'
  BY ShapesVisit, ShapesFlow, ShapesRest DEF Analyse
<1> QED BY <1>1, ShapesInit, WorklistInvariant, PTL DEF Spec

\* No frame is ever refused by merge for its height, of class files the verifier
\* accepts ("Frames at a merge have equal stack height (the verifier guarantees
\* it)", flow.rs:300-302): the early return there loses no path.
THEOREM HeightsAgree ==
  Spec => [](\A e \in ToSet(edges) : e.to \in DOMAIN state => SameHeight(state[e.to], e.frame))
<1>1. ShapesHold => \A e \in ToSet(edges) : e.to \in DOMAIN state => SameHeight(state[e.to], e.frame)
  <2> SUFFICES ASSUME ShapesHold, NEW e \in ToSet(edges), e.to \in DOMAIN state
               PROVE  SameHeight(state[e.to], e.frame)
    OBVIOUS
  <2>1. Shaped(method, e.to, state[e.to]) /\ Shaped(method, e.to, e.frame)
    BY DEF ShapesHold
  <2>2. Len(state[e.to].stack) = Len(e.frame.stack)
    BY <2>1 DEF Shaped, Fits
  <2>3. DOMAIN state[e.to].stack = 1..Len(state[e.to].stack) /\ DOMAIN e.frame.stack = 1..Len(e.frame.stack)
    BY <2>1, SequenceFacts DEF Shaped, Framed
  <2> QED BY <2>2, <2>3 DEF SameHeight
<1> QED BY <1>1, FramesShaped, PTL
\* An execution is one of the analysis, and then of the method.
LEMMA RunAnalyses == RunSpec => Spec
<1>1. RunInit => Init
  BY DEF RunInit
<1>2. [RunNext]_rvars => [Analyse]_fvars
  BY DEF RunNext, rvars, fvars, Start, Execute, Jump, CallReturns, Throws
<1> QED BY <1>1, <1>2, PTL DEF RunSpec, Spec

\* The property OpcodesBalanced, for every class: the lowering keeps "the
\* abstract stack balanced" (code.rs:9-12).
THEOREM BalancedHolds == RunSpec => []OpcodesBalanced
<1>1. OpcodesBalanced
  BY EffectsAgree DEF OpcodesBalanced
<1> QED BY <1>1, PTL

-----------------------------------------------------------------------------
(* The report, and the annotations of locals.                              *)

\* What the emission pass finds, before the suppressed findings are left out.
Findings == (UNION {CheckInsn(body, state[i], i) : i \in DOMAIN state}) \cup CheckLeaks

\* The report is this, from the frames the analysis ended with.
ReportIs == done => report = Gated(MethodScope, Findings)

\* Nothing is added to the report, and no frame changed, after the emission.
LEMMA ReportAlways == Spec => []ReportIs
<1>1. Init => ReportIs
  BY DEF Init, ReportIs
<1>2. ASSUME IInv, ReportIs, [Analyse]_fvars PROVE ReportIs'
  <2>1. CASE Visit
    <3>1. ~done
      BY <1>2, <2>1 DEF IInv, Visit
    <3> QED BY <2>1, <3>1 DEF Visit, ReportIs
  <2>2. CASE Flow
    <3>1. ~done
      BY <1>2, <2>2 DEF IInv, Flow
    <3> QED BY <2>2, <3>1 DEF Flow, ReportIs
  <2>3. CASE Emit
    BY <2>3 DEF Emit, ReportIs, Findings, MethodScope, CheckLeaks, Returns
  <2>4. CASE UNCHANGED fvars
    BY <1>2, <2>4 DEF fvars, ReportIs, Findings, MethodScope, CheckLeaks, Returns
  <2> QED BY <1>2, <2>1, <2>2, <2>3, <2>4 DEF Analyse
<1> QED BY <1>1, <1>2, WorklistInvariant, PTL DEF Spec

\* A finding about a call is one about an argument, or about two of them.
LEMMA CallFindings ==
  ASSUME NEW f, NEW op, NEW i, NEW d \in CheckCall(f, op, i)
  PROVE  \/ \E k \in HandleParams(op) : d \in Found(CheckArg(f, Params(op)[k], Arg(f, op, k)), i, k)
         \/ AliasesExclusive(f, op) /\ d \in Found({"E065"}, i, 0)
<1> DEFINE g(k) == Found(CheckArg(f, Params(op)[k], Arg(f, op, k)), i, k)
           A == UNION {g(k) : k \in HandleParams(op)}
           B == Found({"E065"}, i, 0)
<1>1. d \in A \cup (IF AliasesExclusive(f, op) THEN B ELSE {})
  BY DEF CheckCall
<1>2. d \in A => \E k \in HandleParams(op) : d \in g(k)
  <2> HIDE DEF g
  <2> QED OBVIOUS
<1> HIDE DEF A, B, g
<1>3. d \in A \/ (AliasesExclusive(f, op) /\ d \in B)
  BY <1>1
<1> QED BY <1>2, <1>3 DEF B, g

\* A finding of an instruction names it; only a call may have an argument.
LEMMA FoundAt ==
  ASSUME NEW m, NEW f, NEW i, NEW d \in CheckInsn(m, f, i)
  PROVE  /\ d.at = i
         /\ d.code \in {"E063", "E065"} => m.code[i].op.name = "Invoke" /\ d \in CheckCall(f, m.code[i].op, i)
<1> DEFINE op == m.code[i].op
<1>1. ASSUME NEW codes, NEW k, NEW e \in Found(codes, i, k)
      PROVE e.at = i /\ e.code \in codes /\ e.arg = k
  BY DEF Found
<1>2. CASE op.name = "Invoke"
  <2>1. d \in CheckCall(f, op, i)
    BY <1>2 DEF CheckInsn
  <2>2. \/ \E k \in HandleParams(op) : d \in Found(CheckArg(f, Params(op)[k], Arg(f, op, k)), i, k)
        \/ d \in Found({"E065"}, i, 0)
    BY <2>1, CallFindings
  <2>3. d.at = i
    BY <1>1, <2>2
  <2> QED BY <1>2, <2>1, <2>3
<1>3. CASE op.name # "Invoke"
  <2>1. d \in CheckUnannotatedLocal(m, f, i) \/ d \in CheckFieldStore(f, op, i) \/ d \in CheckOwnedReturn(m, f, i)
    BY <1>3 DEF CheckInsn
  <2>2. CASE d \in CheckUnannotatedLocal(m, f, i)
    <3>1. d \in Found({"W010"}, i, 0)
      BY <2>2 DEF CheckUnannotatedLocal
    <3> QED BY <1>1, <3>1
  <2>3. CASE d \in CheckFieldStore(f, op, i)
    <3>1. d \in Found({"E060"}, i, 0) \/ d \in Found({"W012"}, i, 0)
      BY <2>3 DEF CheckFieldStore
    <3> QED BY <1>1, <3>1
  <2>4. CASE d \in CheckOwnedReturn(m, f, i)
    <3>1. d \in Found({"E064"}, i, 0)
      BY <2>4 DEF CheckOwnedReturn
    <3> QED BY <1>1, <3>1
  <2> QED BY <2>1, <2>2, <2>3, <2>4
<1> QED BY <1>2, <1>3
=============================================================================
