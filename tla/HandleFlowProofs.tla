-------------------------- MODULE HandleFlowProofs --------------------------
(***************************************************************************)
(* The worklist of analyze_method reaches a solution of the flow equations *)
(* whatever the class file is: any instructions, jumps, handlers and       *)
(* annotations.  The proof needs nothing of the transfer functions; it     *)
(* rests on the laws of the joins.                                         *)
(***************************************************************************)
EXTENDS HandleFlow, FiniteSetTheorems, SequenceTheorems, TLAPS

IsASequence(s) == s \in Seq(ToSet(s))

\* What instruction i sends has been merged, or is about to be.
Sent(i) == \A e \in ToSet(Edges(body, i, state[i])) : e \in ToSet(edges) \/ Absorbed(e)

\* Where the analysis starts: the entry frame, at the first instruction.
EntryEdge == [to |-> 1, frame |-> Entry(body)]

\* The inductive invariant.
IInv ==
  /\ IsFiniteSet(DOMAIN body.code)
  /\ IsASequence(work) /\ IsASequence(edges)
  /\ done => work = <<>> /\ edges = <<>>
  /\ Absorbed(EntryEdge)
  /\ \A i \in DOMAIN state : i \in ToSet(work) \/ Sent(i)

\* The frames are a solution of the flow equations: they are above the entry frame
\* and above what every instruction sends.
Solution ==
  /\ Absorbed(EntryEdge)
  /\ \A i \in DOMAIN state : \A e \in ToSet(Edges(body, i, state[i])) : Absorbed(e)

-----------------------------------------------------------------------------
(* The laws of the joins (join_val, join_field and merge).                 *)

\* Joining a value once more changes nothing.
LEMMA JoinValAgain ==
  ASSUME NEW a, NEW b
  PROVE  /\ JoinVal(JoinVal(a, b), b) = JoinVal(a, b)
         /\ JoinVal(JoinVal(a, b), a) = JoinVal(a, b)
BY DEF JoinVal, IsHandle, Handle, Plain, Value

\* A value that is absorbed stays absorbed when others are joined in.
LEMMA JoinValMonotonic ==
  ASSUME NEW a, NEW b, NEW c, JoinVal(a, b) = a
  PROVE  JoinVal(JoinVal(a, c), b) = JoinVal(a, c)
BY DEF JoinVal, IsHandle, Handle, Plain, Value

\* The same of stack entries, which join_val joins by their values.
LEMMA JoinItemLaws ==
  ASSUME NEW a, NEW b, NEW c
  PROVE  /\ JoinItem(JoinItem(a, b), b) = JoinItem(a, b)
         /\ JoinItem(JoinItem(a, b), a) = JoinItem(a, b)
         /\ JoinItem(a, b) = a => JoinItem(JoinItem(a, c), b) = JoinItem(a, c)
BY JoinValAgain, JoinValMonotonic DEF JoinItem, Item

\* The same of join_field.
LEMMA JoinFieldLaws ==
  ASSUME NEW a, NEW b, NEW c
  PROVE  /\ JoinField(JoinField(a, b), b) = JoinField(a, b)
         /\ JoinField(JoinField(a, b), a) = JoinField(a, b)
         /\ JoinField(a, b) = a => JoinField(JoinField(a, c), b) = JoinField(a, c)
BY DEF JoinField

\* The order in which two paths are joined in makes no difference.
THEOREM JoinOrder ==
  ASSUME NEW a, NEW b, NEW c
  PROVE  JoinVal(JoinVal(a, b), c) = JoinVal(JoinVal(a, c), b)
BY DEF JoinVal, IsHandle, Handle, Plain, Value

\* merge keeps the height of the stack it merges into.
LEMMA MergeHeight ==
  ASSUME NEW f, NEW g
  PROVE  SameHeight(Merge(f, g), f)
BY DEF SameHeight, Merge

\* A frame absorbs what was merged into it, and itself.
LEMMA MergeAgain ==
  ASSUME NEW f, NEW g, SameHeight(f, g)
  PROVE  /\ Merge(Merge(f, g), g) = Merge(f, g)
         /\ Merge(Merge(f, g), f) = Merge(f, g)
<1>1. SameHeight(Merge(f, g), f) /\ SameHeight(Merge(f, g), g)
  BY MergeHeight DEF SameHeight
<1> DEFINE m == Merge(f, g)
<1>2. /\ m.stack = [i \in DOMAIN f.stack |-> JoinItem(f.stack[i], g.stack[i])]
      /\ m.locals = [s \in Slots |-> JoinVal(f.locals[s], g.locals[s])]
      /\ m.fields = [x \in Fields |-> JoinField(f.fields[x], g.fields[x])]
      /\ m = [stack |-> m.stack, locals |-> m.locals, fields |-> m.fields]
  BY DEF Merge
<1>3. ASSUME NEW h \in {f, g}
      PROVE  Merge(m, h) = [stack |-> m.stack, locals |-> m.locals, fields |-> m.fields]
  <2>1. [i \in DOMAIN m.stack |-> JoinItem(m.stack[i], h.stack[i])] = m.stack
    BY <1>2, JoinItemLaws
  <2>2. [s \in Slots |-> JoinVal(m.locals[s], h.locals[s])] = m.locals
    BY <1>2, JoinValAgain
  <2>3. [x \in Fields |-> JoinField(m.fields[x], h.fields[x])] = m.fields
    BY <1>2, JoinFieldLaws
  <2> HIDE DEF m
  <2>4. SameHeight(m, h)
    BY <1>1 DEF m
  <2> QED BY <2>1, <2>2, <2>3, <2>4 DEF Merge
<1> QED BY <1>2, <1>3

\* A frame that is absorbed stays absorbed when others are merged in.
LEMMA MergeMonotonic ==
  ASSUME NEW f, NEW g, NEW h, SameHeight(f, g), SameHeight(f, h), Merge(f, g) = f
  PROVE  Merge(Merge(f, h), g) = Merge(f, h)
<1> DEFINE m == Merge(f, h)
<1>1. SameHeight(m, g)
  BY MergeHeight DEF SameHeight
<1>2. /\ m.stack = [i \in DOMAIN f.stack |-> JoinItem(f.stack[i], h.stack[i])]
      /\ m.locals = [s \in Slots |-> JoinVal(f.locals[s], h.locals[s])]
      /\ m.fields = [x \in Fields |-> JoinField(f.fields[x], h.fields[x])]
      /\ m = [stack |-> m.stack, locals |-> m.locals, fields |-> m.fields]
  BY DEF Merge
<1>3. /\ f.stack = [i \in DOMAIN f.stack |-> JoinItem(f.stack[i], g.stack[i])]
      /\ f.locals = [s \in Slots |-> JoinVal(f.locals[s], g.locals[s])]
      /\ f.fields = [x \in Fields |-> JoinField(f.fields[x], g.fields[x])]
  BY DEF Merge
<1>4. [i \in DOMAIN m.stack |-> JoinItem(m.stack[i], g.stack[i])] = m.stack
  <2>1. \A i \in DOMAIN f.stack : JoinItem(f.stack[i], g.stack[i]) = f.stack[i]
    BY <1>3
  <2> QED BY <1>2, <2>1, JoinItemLaws
<1>5. [s \in Slots |-> JoinVal(m.locals[s], g.locals[s])] = m.locals
  <2>1. \A s \in Slots : JoinVal(f.locals[s], g.locals[s]) = f.locals[s]
    BY <1>3
  <2> QED BY <1>2, <2>1, JoinValMonotonic
<1>6. [x \in Fields |-> JoinField(m.fields[x], g.fields[x])] = m.fields
  <2>1. \A x \in Fields : JoinField(f.fields[x], g.fields[x]) = f.fields[x]
    BY <1>3
  <2> QED BY <1>2, <2>1, JoinFieldLaws
<1> HIDE DEF m
<1>7. Merge(m, g) = m
  BY <1>1, <1>2, <1>4, <1>5, <1>6 DEF Merge
<1> QED BY <1>7 DEF m

-----------------------------------------------------------------------------
(* Sequences.                                                              *)

\* A sequence over some set is one over the set of its elements.
LEMMA AnySequence ==
  ASSUME NEW S, NEW s \in Seq(S)
  PROVE  IsASequence(s)
<1>1. DOMAIN s = 1..Len(s) /\ Len(s) \in Nat /\ s \in [1..Len(s) -> S]
  BY LenProperties
<1>2. s \in [1..Len(s) -> ToSet(s)]
  BY <1>1 DEF ToSet
<1> QED BY <1>1, <1>2, SeqDef DEF IsASequence

\* A function on 1..n is a sequence.
LEMMA Enumerated ==
  ASSUME NEW s, NEW n \in Nat, DOMAIN s = 1..n, s = [k \in DOMAIN s |-> s[k]]
  PROVE  IsASequence(s)
<1>1. s \in [1..n -> ToSet(s)]
  BY DEF ToSet
<1> QED BY <1>1, SeqDef DEF IsASequence

\* Two sequences put together are a sequence.
LEMMA Concatenation ==
  ASSUME NEW s, NEW t, IsASequence(s), IsASequence(t)
  PROVE  IsASequence(s \o t)
<1> DEFINE S == ToSet(s) \cup ToSet(t)
<1>1. s \in Seq(S) /\ t \in Seq(S)
  BY SeqMonotonic DEF IsASequence
<1> HIDE DEF S
<1>2. s \o t \in Seq(S)
  BY <1>1, ConcatProperties
<1> QED BY <1>2, AnySequence

\* What a sequence holds is its head or in its tail.
LEMMA HeadOrTail ==
  ASSUME NEW s, IsASequence(s), s # <<>>
  PROVE  /\ IsASequence(Tail(s))
         /\ \A x : x \in ToSet(s) <=> x = Head(s) \/ x \in ToSet(Tail(s))
<1> DEFINE S == ToSet(s)
<1>1. s \in Seq(S)
  BY DEF IsASequence
<1> HIDE DEF S
<1>2. /\ Tail(s) \in Seq(S) /\ Len(Tail(s)) = Len(s) - 1
      /\ \A i \in 1..Len(Tail(s)) : Tail(s)[i] = s[i + 1]
      /\ Len(s) \in Nat \ {0} /\ DOMAIN s = 1..Len(s) /\ DOMAIN Tail(s) = 1..Len(Tail(s))
      /\ Head(s) = s[1]
  BY <1>1, HeadTailProperties, EmptySeq, LenProperties
<1>3. ASSUME NEW x \in ToSet(s)
      PROVE  x = Head(s) \/ x \in ToSet(Tail(s))
  <2>1. PICK i \in 1..Len(s) : x = s[i]
    BY <1>2 DEF ToSet
  <2>2. CASE i = 1
    BY <1>2, <2>1, <2>2
  <2>3. CASE i # 1
    <3>1. i - 1 \in 1..Len(Tail(s)) /\ i - 1 + 1 = i
      BY <1>2, <2>3
    <3>2. Tail(s)[i - 1] = x
      BY <1>2, <2>1, <3>1
    <3> QED BY <1>2, <3>1, <3>2 DEF ToSet
  <2> QED BY <2>2, <2>3
<1>4. ASSUME NEW x, x = Head(s) \/ x \in ToSet(Tail(s))
      PROVE  x \in ToSet(s)
  <2>1. CASE x = Head(s)
    BY <1>2, <2>1 DEF ToSet
  <2>2. CASE x \in ToSet(Tail(s))
    <3>1. PICK i \in 1..Len(Tail(s)) : x = Tail(s)[i]
      BY <1>2, <2>2 DEF ToSet
    <3>2. i + 1 \in 1..Len(s) /\ x = s[i + 1]
      BY <1>2, <3>1
    <3> QED BY <1>2, <3>2 DEF ToSet
  <2> QED BY <1>4, <2>1, <2>2
<1> QED BY <1>2, <1>3, <1>4, AnySequence

\* Appending keeps what is there and adds the new element.
LEMMA Appended ==
  ASSUME NEW s, IsASequence(s), NEW x
  PROVE  /\ IsASequence(Append(s, x))
         /\ x \in ToSet(Append(s, x)) /\ ToSet(s) \subseteq ToSet(Append(s, x))
<1> DEFINE S == ToSet(s) \cup {x}
<1>1. s \in Seq(S) /\ x \in S
  BY SeqMonotonic DEF IsASequence
<1> HIDE DEF S
<1>2. /\ Append(s, x) \in Seq(S) /\ Len(Append(s, x)) = Len(s) + 1
      /\ \A i \in 1..Len(s) : Append(s, x)[i] = s[i]
      /\ Append(s, x)[Len(s) + 1] = x
      /\ Len(s) \in Nat /\ DOMAIN s = 1..Len(s)
      /\ DOMAIN Append(s, x) = 1..Len(Append(s, x))
  BY <1>1, AppendProperties, LenProperties
<1>3. x \in ToSet(Append(s, x))
  BY <1>2 DEF ToSet
<1>4. ToSet(s) \subseteq ToSet(Append(s, x))
  BY <1>2 DEF ToSet
<1> QED BY <1>2, <1>3, <1>4, AnySequence

\* The empty sequence is a sequence, and holds nothing.
LEMMA Nothing == IsASequence(<<>>) /\ ToSet(<<>>) = {}
<1>1. <<>> \in Seq({}) /\ Len(<<>>) = 0 /\ DOMAIN <<>> = 1..Len(<<>>)
  BY EmptySeq, LenProperties
<1>2. DOMAIN <<>> = {}
  BY <1>1
<1>3. IsASequence(<<>>)
  BY <1>1, AnySequence
<1> QED BY <1>2, <1>3 DEF ToSet

\* Sorting a finite set of indices gives a sequence.
LEMMA SortedIsASequence ==
  ASSUME NEW S, IsFiniteSet(S)
  PROVE  IsASequence(Sorted(S)) /\ \E n \in Nat : DOMAIN Sorted(S) = 1..n
<1>1. Cardinality(S) \in Nat
  BY FS_CardinalityType
<1>2. DOMAIN Sorted(S) = 1..Cardinality(S)
  BY DEF Sorted
<1>3. Sorted(S) = [k \in DOMAIN Sorted(S) |-> Sorted(S)[k]]
  BY DEF Sorted
<1> QED BY <1>1, <1>2, <1>3, Enumerated

\* The successors that a branch gives to one target are a sequence.
LEMMA SuccIsASequence ==
  ASSUME NEW ts, NEW x
  PROVE  IsASequence(Succ(ts, <<>>)) /\ IsASequence(Succ(ts, <<x>>))
<1>1. DOMAIN <<x>> = 1..1
  OBVIOUS
<1>2. IsASequence([k \in DOMAIN <<x>> |-> [to |-> CHOOSE t \in ts : TRUE, learn |-> <<x>>[k]]])
  BY <1>1, Enumerated
<1>3. IsASequence(<<>>)
  BY Nothing
<1>4. [k \in DOMAIN <<>> |-> [to |-> CHOOSE t \in ts : TRUE, learn |-> <<>>[k]]] = <<>>
  OBVIOUS
<1> QED BY <1>2, <1>3, <1>4 DEF Succ

\* The normal successors of an instruction are a sequence.
LEMMA NormalSuccIsASequence ==
  ASSUME NEW m, IsFiniteSet(DOMAIN m.code), NEW i, NEW f
  PROVE  IsASequence(NormalSucc(m, i, f))
<1> DEFINE op == m.code[i].op
           S == CASE op.name \in {"Return", "Athrow"} -> {}
                  [] op.name = "Goto"   -> IndexOf(m, op.target)
                  [] op.name = "Switch" -> UNION {IndexOf(m, t) : t \in op.targets}
                  [] OTHER              -> Following(m, i)
           ts == Sorted(S)
<1>1. S \subseteq DOMAIN m.code
  BY DEF IndexOf, Following
<1>2. IsFiniteSet(S)
  BY <1>1, FS_Subset
<1> HIDE DEF S
<1>3. PICK n \in Nat : DOMAIN ts = 1..n
  BY <1>2, SortedIsASequence
<1> HIDE DEF ts
<1>4. IsASequence([k \in DOMAIN ts |-> [to |-> ts[k], learn |-> NoRefine]])
  BY <1>3, Enumerated
<1>5. ASSUME NEW cond
      PROVE  IsASequence(BranchEdges(m, i, op, cond))
  <2>1. ASSUME NEW us
        PROVE  /\ IsASequence(Succ(us, IfZero(cond))) /\ IsASequence(Succ(us, IfNonZero(cond)))
               /\ IsASequence(Succ(us, <<NoRefine>>))
    BY SuccIsASequence DEF IfZero, IfNonZero
  <2> QED BY <2>1, Concatenation DEF BranchEdges
<1> QED BY <1>4, <1>5 DEF NormalSucc, ts, S

\* All that an instruction sends, to successors and handlers, is a sequence.
LEMMA EdgesAreASequence ==
  ASSUME NEW m, IsFiniteSet(DOMAIN m.code), NEW i, NEW f
  PROVE  IsASequence(Edges(m, i, f))
<1> DEFINE out == Transfer(f, m.code[i].op, m.code[i].offset)
           ss == NormalSucc(m, i, f)
           hs == Sorted(Handlers(m, i))
<1>1. Handlers(m, i) \subseteq DOMAIN m.code
  BY DEF Handlers, IndexOf
<1>2. PICK n \in Nat : DOMAIN hs = 1..n
  BY <1>1, FS_Subset, SortedIsASequence
<1>3. PICK k \in Nat : DOMAIN ss = 1..k
  BY NormalSuccIsASequence, LenProperties DEF IsASequence
<1> HIDE DEF out, ss, hs
<1>4. IsASequence([j \in DOMAIN ss |-> [to |-> ss[j].to, frame |-> Refined(out, ss[j].learn)]])
  BY <1>3, Enumerated
<1>5. IsASequence([j \in DOMAIN hs |-> [to |-> hs[j], frame |-> HandlerFrame(f)]])
  BY <1>2, Enumerated
<1> QED BY <1>4, <1>5, Concatenation DEF Edges, out, ss, hs

-----------------------------------------------------------------------------
(* The worklist.                                                           *)

\* The entry frame is absorbed, and the first instruction waits.
LEMMA InitHolds == Init => IInv
<1> SUFFICES ASSUME Init PROVE IInv
  OBVIOUS
<1>1. PICK b \in Methods : body = LowerMethod(b)
  BY DEF Init
<1>2. DOMAIN body.code = DOMAIN b.opcodes
  BY <1>1 DEF LowerMethod
<1>3. IsFiniteSet(DOMAIN body.code)
  <2>1. DOMAIN b.opcodes = 1..Len(b.opcodes) /\ Len(b.opcodes) \in Nat
    BY MethodsAssumption, LenProperties
  <2> QED BY <1>2, <2>1, FS_Interval
<1>4. IsASequence(edges)
  BY Nothing DEF Init
<1>5. /\ IsASequence(work) /\ ToSet(work) = {1}
  <2>1. work = <<1>>
    BY DEF Init
  <2>2. <<1>> \in Seq({1}) /\ DOMAIN <<1>> = {1} /\ <<1>>[1] = 1
    OBVIOUS
  <2>3. IsASequence(work)
    BY <2>1, <2>2, AnySequence
  <2>4. ToSet(work) = {1}
    BY <2>1, <2>2 DEF ToSet
  <2> QED BY <2>3, <2>4
<1>6. Absorbed(EntryEdge)
  BY DEF Init, Absorbed, EntryEdge
<1> QED BY <1>3, <1>4, <1>5, <1>6 DEF Init, IInv

\* Merging the next frame absorbs it, and loses nothing that was absorbed.
LEMMA FlowAbsorbs ==
  ASSUME Flow
  PROVE  /\ \A e : e = Head(edges) => Absorbed(e)'
         /\ \A e : Absorbed(e) => Absorbed(e)'
         /\ \A j \in DOMAIN state' : j = Head(edges).to \/ (j \in DOMAIN state /\ state'[j] = state[j])
<1> PICK d : d = Head(edges)
  OBVIOUS
<1> DEFINE old == d.to \in DOMAIN state
           new == IF old THEN Merge(state[d.to], d.frame) ELSE d.frame
<1>1. state' = WithState(d.to, new)
  BY DEF Flow
<1>2. /\ DOMAIN state' = DOMAIN state \cup {d.to}
      /\ state'[d.to] = new
      /\ \A j \in DOMAIN state : j # d.to => state'[j] = state[j]
  BY <1>1 DEF WithState
<1>3. Absorbed(d)'
  <2>1. CASE ~old
    BY <1>2, <2>1 DEF Absorbed
  <2>2. CASE old /\ ~SameHeight(state[d.to], d.frame)
    <3>1. new = state[d.to]
      BY <2>2 DEF Merge
    <3> QED BY <1>2, <2>2, <3>1 DEF Absorbed
  <2>3. CASE old /\ SameHeight(state[d.to], d.frame)
    <3>1. Merge(new, d.frame) = new
      BY <2>3, MergeAgain
    <3> QED BY <1>2, <3>1 DEF Absorbed
  <2> QED BY <2>1, <2>2, <2>3
<1>4. ASSUME NEW e, Absorbed(e)
      PROVE  Absorbed(e)'
  <2>1. e.to \in DOMAIN state /\ e.to \in DOMAIN state'
    BY <1>2, <1>4 DEF Absorbed
  <2>2. CASE e.to # d.to
    <3>1. state'[e.to] = state[e.to]
      BY <1>2, <2>1, <2>2
    <3> QED BY <1>4, <2>1, <3>1 DEF Absorbed
  <2>3. CASE e.to = d.to /\ ~SameHeight(state[d.to], d.frame)
    <3>1. state'[e.to] = state[e.to]
      BY <1>2, <2>1, <2>3 DEF Merge
    <3> QED BY <1>4, <2>1, <3>1 DEF Absorbed
  <2>4. CASE e.to = d.to /\ SameHeight(state[d.to], d.frame)
    <3> DEFINE s == state[d.to]
    <3>1. state'[e.to] = Merge(s, d.frame)
      BY <1>2, <2>1, <2>4
    <3>2. CASE s = e.frame
      <4>1. Merge(Merge(s, d.frame), e.frame) = Merge(s, d.frame)
        BY <2>4, <3>2, MergeAgain
      <4> QED BY <2>1, <3>1, <4>1 DEF Absorbed
    <3>3. CASE ~SameHeight(s, e.frame)
      <4>1. ~SameHeight(Merge(s, d.frame), e.frame)
        BY <3>3, MergeHeight DEF SameHeight
      <4> QED BY <2>1, <3>1, <4>1 DEF Absorbed
    <3>4. CASE SameHeight(s, e.frame) /\ Merge(s, e.frame) = s
      <4>1. Merge(Merge(s, d.frame), e.frame) = Merge(s, d.frame)
        BY <2>4, <3>4, MergeMonotonic
      <4> QED BY <2>1, <3>1, <4>1 DEF Absorbed
    <3> QED BY <1>4, <2>4, <3>2, <3>3, <3>4 DEF Absorbed
  <2> QED BY <2>2, <2>3, <2>4
<1> QED BY <1>2, <1>3, <1>4

\* Another frame for an instruction schedules it.
LEMMA FlowSchedules ==
  ASSUME IInv, Flow
  PROVE  /\ IsASequence(work') /\ ToSet(work) \subseteq ToSet(work')
         /\ \A j \in DOMAIN state' :
              j \in ToSet(work') \/ (j \in DOMAIN state /\ state'[j] = state[j])
<1> DEFINE to == Head(edges).to
           old == to \in DOMAIN state
           new == IF old THEN Merge(state[to], Head(edges).frame) ELSE Head(edges).frame
<1>1. /\ state' = WithState(to, new)
      /\ work' = IF old /\ new = state[to] THEN work ELSE Append(work, to)
  BY DEF Flow
<1>2. /\ DOMAIN state' = DOMAIN state \cup {to}
      /\ state'[to] = new
      /\ \A j \in DOMAIN state : j # to => state'[j] = state[j]
  BY <1>1 DEF WithState
<1>3. IsASequence(work)
  BY DEF IInv
<1>4. CASE old /\ new = state[to]
  BY <1>1, <1>2, <1>3, <1>4
<1>5. CASE ~(old /\ new = state[to])
  <2>1. work' = Append(work, to)
    BY <1>1, <1>5
  <2>2. IsASequence(work') /\ to \in ToSet(work') /\ ToSet(work) \subseteq ToSet(work')
    BY <1>3, <2>1, Appended
  <2> QED BY <1>2, <2>2
<1> QED BY <1>4, <1>5

\* Merging an edge keeps the invariant.
LEMMA FlowKeeps == IInv /\ Flow => IInv'
<1> SUFFICES ASSUME IInv, Flow PROVE IInv'
  OBVIOUS
<1>1. body' = body /\ done' = done /\ edges' = Tail(edges) /\ edges # <<>>
  BY DEF Flow
<1>2. /\ IsASequence(edges')
      /\ \A x : x \in ToSet(edges) => x = Head(edges) \/ x \in ToSet(edges')
  BY <1>1, HeadOrTail DEF IInv
<1>3. Absorbed(EntryEdge)'
  <2>1. PICK e : e = EntryEdge
    OBVIOUS
  <2>2. EntryEdge' = e
    BY <1>1, <2>1 DEF EntryEdge
  <2>3. Absorbed(e)'
    BY <2>1, FlowAbsorbs DEF IInv
  <2> QED BY <2>2, <2>3 DEF Absorbed
<1>4. ASSUME NEW i \in DOMAIN state', i \notin ToSet(work')
      PROVE  Sent(i)'
  <2>1. i \in DOMAIN state /\ state'[i] = state[i] /\ i \notin ToSet(work)
    BY <1>4, FlowSchedules
  <2>2. Sent(i)
    BY <2>1 DEF IInv
  <2>3. ASSUME NEW e \in ToSet(Edges(body', i, state'[i]))
        PROVE  e \in ToSet(edges') \/ Absorbed(e)'
    <3>1. e \in ToSet(edges) \/ Absorbed(e)
      BY <1>1, <2>1, <2>2, <2>3 DEF Sent
    <3> QED BY <1>2, <3>1, FlowAbsorbs
  <2> QED BY <2>3 DEF Sent
<1>5. IsFiniteSet(DOMAIN body'.code) /\ IsASequence(work') /\ ~done'
  BY <1>1, FlowSchedules DEF IInv
<1> QED BY <1>2, <1>3, <1>4, <1>5 DEF IInv

\* Visiting an instruction keeps it: everything it sends is put in the queue.
LEMMA VisitKeeps == IInv /\ Visit => IInv'
<1> SUFFICES ASSUME IInv, Visit PROVE IInv'
  OBVIOUS
<1>1. /\ body' = body /\ state' = state /\ done' = done
      /\ edges = <<>> /\ work # <<>> /\ work' = Tail(work)
      /\ edges' = Edges(body, Head(work), state[Head(work)])
  BY DEF Visit
<1>2. IsASequence(edges')
  BY <1>1, EdgesAreASequence DEF IInv
<1>3. /\ IsASequence(work')
      /\ \A x : x \in ToSet(work) => x = Head(work) \/ x \in ToSet(work')
  BY <1>1, HeadOrTail DEF IInv
<1>4. ToSet(edges) = {}
  BY <1>1, Nothing
<1>5. \A e : Absorbed(e)' <=> Absorbed(e)
  BY <1>1 DEF Absorbed
<1>6. ASSUME NEW i \in DOMAIN state', i \notin ToSet(work')
      PROVE  Sent(i)'
  <2>1. CASE i = Head(work)
    BY <1>1, <2>1 DEF Sent
  <2>2. CASE i # Head(work)
    <3>1. Sent(i)
      BY <1>1, <1>3, <1>6, <2>2 DEF IInv
    <3> QED BY <1>1, <1>4, <1>5, <3>1 DEF Sent
  <2> QED BY <2>1, <2>2
<1>7. Absorbed(EntryEdge)'
  BY <1>1 DEF IInv, Absorbed, EntryEdge
<1>8. IsFiniteSet(DOMAIN body'.code) /\ ~done'
  BY <1>1 DEF IInv
<1> QED BY <1>2, <1>3, <1>6, <1>7, <1>8 DEF IInv

\* The emission pass reads the frames and changes none.
LEMMA RestKeeps == IInv /\ (Emit \/ UNCHANGED fvars) => IInv'
<1> SUFFICES ASSUME IInv, Emit \/ UNCHANGED fvars PROVE IInv'
  OBVIOUS
<1>1. /\ body' = body /\ state' = state /\ work' = work /\ edges' = edges
      /\ done' => work = <<>> /\ edges = <<>>
  BY DEF Emit, fvars, IInv
<1>2. Absorbed(EntryEdge)'
  BY <1>1 DEF IInv, Absorbed, EntryEdge
<1>3. ASSUME NEW i \in DOMAIN state, Sent(i)
      PROVE  Sent(i)'
  BY <1>1, <1>3 DEF Sent, Absorbed
<1> QED BY <1>1, <1>2, <1>3 DEF IInv

\* The worklist of analyze_method: an instruction waits, or all it sends has been
\* merged or is in the queue.
THEOREM WorklistInvariant == Spec => []IInv
<1>1. IInv /\ [Analyse]_fvars => IInv'
  BY FlowKeeps, VisitKeeps, RestKeeps DEF Analyse
<1> QED BY <1>1, InitHolds, PTL DEF Spec

\* Whatever an instruction that is not waiting sends has been merged, or is about
\* to be, in every method.
THEOREM NothingIsForgotten == Spec => []Covered
<1>1. IInv => Covered
  BY DEF IInv, Covered, Sent
<1> QED BY <1>1, WorklistInvariant, PTL

\* The frames the emission pass reads are a solution of the flow equations.
THEOREM EmitsFromASolution == Spec => [](done => Solution)
<1>1. IInv => (done => Solution)
  <2> SUFFICES ASSUME IInv, done PROVE Solution
    OBVIOUS
  <2>1. ToSet(work) = {} /\ ToSet(edges) = {}
    BY Nothing DEF IInv
  <2> QED BY <2>1 DEF IInv, Sent, Solution
<1> QED BY <1>1, WorklistInvariant, PTL
=============================================================================
