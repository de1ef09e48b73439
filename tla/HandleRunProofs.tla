--------------------------- MODULE HandleRunProofs ---------------------------
(***************************************************************************)
(* The findings of the handle-flow analysis are so, in every execution of  *)
(* every method in scope.  The frames the analysis ends with simulate the  *)
(* execution: Rel says what a frame says of an execution, each instruction *)
(* of the JVM takes it along an edge of the analysis, and a solution of    *)
(* the flow equations has room for it at the end of that edge.             *)
(***************************************************************************)
EXTENDS OperandProofs

-----------------------------------------------------------------------------
(* What a frame says of an execution.                                      *)

\* The identities a value may have, and the tags.
Ids == {NoId} \cup {LocalId(n) : n \in Slots} \cup {FieldId(x) : x \in Fields} \cup {FreshId(t) : t \in Nat}
Tags == {"Zero", "Forged", "Handle", "This", "AssertFlag", "CmpFieldZero", "NotHandle", "Top"}

\* What an abstract value says of a value of the execution r.
Says(r, a, v) ==
  /\ a.tag \in Tags
  /\ a.tag \in {"Zero", "AssertFlag"} => v = 0
  /\ a.tag = "This" => v = Receiver
  /\ a.tag \in {"Forged", "NotHandle"} => v \in {0, Junk, NonZero}
  /\ a.tag = "CmpFieldZero" => a.from \in Fields /\ v \in {0, NonZero} /\ (v = 0 <=> r.fields[a.from] = 0)
  /\ a.tag = "Handle" =>
       \/ v = 0
       \/ /\ v \in DOMAIN r.objects /\ r.objects[v].type = a.ptr.type
          /\ a.ptr.kind = "Owned" => r.objects[v].kind = "Owned"

\* And where it comes from; w has the results of the calls that are still known.
Identified(r, w, a, v) ==
  /\ a.id \in Ids
  /\ \A n \in Slots : a.id = LocalId(n) => v = r.locals[n]
  /\ \A x \in Fields : a.id = FieldId(x) => v = r.fields[x]
  /\ \A t \in Nat : a.id = FreshId(t) => t \in DOMAIN w /\ v = w[t]

\* What is known of a value: what it is, which local, field or call it came from
\* last, and which field it was read from.
Known(r, w, a, v) ==
  /\ Says(r, a, v) /\ Identified(r, w, a, v)
  /\ ~IsHandle(a) => a.id = NoId /\ a.state = "none"
  /\ IsHandle(a) /\ a.from # NoField => a.from \in Fields /\ v \in r.held[a.from]

\* The same of an entry of the stack: a handle known by a local was loaded from
\* it, and one marked moved is gone, or was moved when it was loaded.
OnStack(r, w, a, e) ==
  /\ a.wide = e.wide /\ Known(r, w, a.val, e.v)
  /\ IsHandle(a.val) => e.wide
  /\ \A n \in Slots : a.val.id = LocalId(n) => e.src = n /\ (e.moved => n \in r.moved)
  /\ a.val.state = "Moved" => e.v = 0 \/ e.v \in r.gone \/ e.moved

\* The same of a local.
InLocal(r, w, a, s) ==
  /\ Known(r, w, a, r.locals[s])
  /\ a.state = "Moved" => r.locals[s] = 0 \/ r.locals[s] \in r.gone \/ s \in r.moved

\* The same of a field.
InField(r, a, x) == (a = "Null" => r.fields[x] = 0) /\ r.fields[x] \in r.held[x]

\* The simulation: frame f of the analysis says nothing of execution r that is
\* not so. w maps each call, by its offset, to the object its last execution
\* returned.
Rel(r, w, f) ==
  /\ Len(f.stack) = Len(r.stack)
  /\ \A k \in 1..Len(f.stack) : OnStack(r, w, f.stack[k], r.stack[k])
  /\ \A s \in Slots : InLocal(r, w, f.locals[s], s)
  /\ \A x \in Fields : InField(r, f.fields[x], x)

\* The parts of an execution.
Good(r) ==
  /\ r = [pc |-> r.pc, stack |-> r.stack, locals |-> r.locals, fields |-> r.fields, held |-> r.held,
          objects |-> r.objects, gone |-> r.gone, moved |-> r.moved]
  /\ IsASequence(r.stack) /\ IsASequence(r.objects)
  /\ r.locals = [s \in Slots |-> r.locals[s]]
  /\ r.fields = [x \in Fields |-> r.fields[x]] /\ r.held = [x \in Fields |-> r.held[x]]

\* Only the stack differs, and the program counter.
SameData(r, q) ==
  /\ q.locals = r.locals /\ q.fields = r.fields /\ q.held = r.held
  /\ q.objects = r.objects /\ q.gone = r.gone /\ q.moved = r.moved

\* What is said of the rest is not disturbed.
LEMMA SameDataKeeps ==
  ASSUME NEW r, NEW q, SameData(r, q), NEW w
  PROVE  /\ \A a, e : OnStack(r, w, a, e) => OnStack(q, w, a, e)
         /\ \A a, s : InLocal(r, w, a, s) => InLocal(q, w, a, s)
         /\ \A a, x : InField(r, a, x) => InField(q, a, x)
<1>1. ASSUME NEW a, NEW v, Known(r, w, a, v) PROVE Known(q, w, a, v)
  BY <1>1 DEF Known, Says, Identified, SameData
<1>2. \A a, e : OnStack(r, w, a, e) => OnStack(q, w, a, e)
  BY <1>1 DEF OnStack, SameData
<1>3. \A a, s : InLocal(r, w, a, s) => InLocal(q, w, a, s)
  BY <1>1 DEF InLocal, SameData
<1>4. \A a, x : InField(r, a, x) => InField(q, a, x)
  BY DEF InField, SameData
<1> QED BY <1>2, <1>3, <1>4

\* The names of values differ.
LEMMA IdsDiffer ==
  /\ \A n, m : LocalId(n) = LocalId(m) => n = m
  /\ \A n, m : FieldId(n) = FieldId(m) => n = m
  /\ \A n, m : FreshId(n) = FreshId(m) => n = m
  /\ \A n, m : LocalId(n) # FieldId(m) /\ LocalId(n) # FreshId(m) /\ FieldId(n) # FreshId(m)
  /\ \A n : LocalId(n) # NoId /\ FieldId(n) # NoId /\ FreshId(n) # NoId
  /\ NoId \in Ids
  /\ \A n \in Slots : LocalId(n) \in Ids
  /\ \A n \in Fields : FieldId(n) \in Ids
  /\ \A n \in Nat : FreshId(n) \in Ids
<1>1. /\ \A n, m : LocalId(n) = LocalId(m) => n = m
      /\ \A n, m : FieldId(n) = FieldId(m) => n = m
      /\ \A n, m : FreshId(n) = FreshId(m) => n = m
  BY DEF LocalId, FieldId, FreshId
<1>2. \A n, m : LocalId(n) # FieldId(m) /\ LocalId(n) # FreshId(m) /\ FieldId(n) # FreshId(m)
  BY DEF LocalId, FieldId, FreshId
<1>3. \A n : LocalId(n) # NoId /\ FieldId(n) # NoId /\ FreshId(n) # NoId
  BY DEF LocalId, FieldId, FreshId, NoId
<1>4. /\ NoId \in Ids
      /\ \A n \in Slots : LocalId(n) \in Ids
      /\ \A n \in Fields : FieldId(n) \in Ids
      /\ \A n \in Nat : FreshId(n) \in Ids
  BY DEF Ids
<1> QED BY <1>1, <1>2, <1>3, <1>4

\* A value the analysis does not follow fits what it does not know.
LEMMA PlainKnown ==
  ASSUME NEW r, NEW w
  PROVE  /\ \A v \in {0, Junk, NonZero} : Known(r, w, NotHandle, v) /\ Known(r, w, Plain("Forged"), v)
         /\ \A v : Known(r, w, Plain("Top"), v)
         /\ Known(r, w, Plain("Zero"), 0) /\ Known(r, w, Plain("AssertFlag"), 0)
         /\ Known(r, w, Plain("This"), Receiver)
<1>1. ASSUME NEW tag \in Tags \ {"Handle", "CmpFieldZero"}, NEW v,
             tag \in {"Zero", "AssertFlag"} => v = 0, tag = "This" => v = Receiver,
             tag \in {"Forged", "NotHandle"} => v \in {0, Junk, NonZero}
      PROVE  Known(r, w, Plain(tag), v)
  <2> DEFINE a == Plain(tag)
  <2>1. a.tag = tag /\ a.id = NoId /\ a.state = "none"
    BY DEF Plain, Value
  <2> HIDE DEF a
  <2>2. Says(r, a, v)
    BY <1>1, <2>1 DEF Says
  <2>3. Identified(r, w, a, v)
    BY <2>1, IdsDiffer DEF Identified
  <2>4. ~IsHandle(a)
    BY <2>1 DEF IsHandle
  <2> QED BY <2>1, <2>2, <2>3, <2>4 DEF Known, a
<1> QED BY <1>1 DEF Tags, NotHandle

\* Pushed by an instruction, such a value has no past.
LEMMA PlainOnStack ==
  ASSUME NEW r, NEW w, NEW tag, NEW v, Known(r, w, Plain(tag), v), tag # "Handle", NEW wide
  PROVE  OnStack(r, w, Item(Plain(tag), wide), Fresh(v, wide))
<1> DEFINE a == Item(Plain(tag), wide)
           e == Fresh(v, wide)
<1>1. a.val = Plain(tag) /\ a.wide = wide /\ e.v = v /\ e.wide = wide
  BY DEF Item, Fresh
<1>2. a.val.tag = tag /\ a.val.id = NoId /\ a.val.state = "none"
  BY DEF Item, Plain, Value
<1> HIDE DEF a, e
<1> QED BY <1>1, <1>2, IdsDiffer DEF OnStack, IsHandle, a, e

\* A replacement, with the height of what stays.
SwappedPair(t, s, m, push) ==
  /\ Len(t) = m + Len(push)
  /\ \A k \in 1..m : t[k] = s[k]
  /\ \A k \in 1..Len(push) : t[m + k] = push[k]

\* Where the entries of a replaced stack come from.
LEMMA ReplacedAt ==
  ASSUME NEW s, NEW push, NEW n \in Nat, IsASequence(s), IsASequence(push), n <= Len(s)
  PROVE  SwappedPair(Replace(s, n, push), s, Len(s) - n, push)
<1>1. Len(Replace(s, n, push)) = Len(s) - n + Len(push)
  BY Replaced
<1>2. \A k \in 1..(Len(s) - n) : Replace(s, n, push)[k] = s[k]
  BY Replaced
<1>3. \A k \in 1..Len(push) : Replace(s, n, push)[Len(s) - n + k] = push[k]
  BY Replaced
<1> QED BY <1>1, <1>2, <1>3 DEF SwappedPair

\* An instruction that replaces n operands keeps the relation if what it pushes on
\* the two stacks is related.
LEMMA StackStep ==
  ASSUME NEW r, NEW w, NEW f, Rel(r, w, f), Framed(f), Good(r), NEW n \in Nat, n <= Len(f.stack),
         NEW push, NEW vals, IsASequence(push), IsASequence(vals), Len(push) = Len(vals),
         \A k \in 1..Len(push) : OnStack(r, w, push[k], vals[k]),
         NEW q, Good(q), q.stack = Replace(r.stack, n, vals), SameData(r, q)
  PROVE  Rel(q, w, With(f, n, push))
<1> DEFINE g == With(f, n, push)
           m == Len(f.stack) - n
<1>1. /\ IsASequence(f.stack) /\ IsASequence(r.stack) /\ Len(f.stack) = Len(r.stack)
      /\ Len(f.stack) \in Nat /\ Len(push) \in Nat
  BY SequenceFacts DEF Framed, Good, Rel
<1>2. g.stack = Replace(f.stack, n, push) /\ g.locals = f.locals /\ g.fields = f.fields
  BY DEF With
<1> HIDE DEF g
<1>3. SwappedPair(g.stack, f.stack, m, push)
  <2>1. SwappedPair(Replace(f.stack, n, push), f.stack, Len(f.stack) - n, push)
    BY <1>1, ReplacedAt
  <2> QED BY <1>2, <2>1
<1>4. SwappedPair(q.stack, r.stack, m, vals)
  <2>1. n <= Len(r.stack)
    BY <1>1
  <2>2. SwappedPair(Replace(r.stack, n, vals), r.stack, Len(r.stack) - n, vals)
    BY <1>1, <2>1, ReplacedAt
  <2> QED BY <1>1, <2>2
<1>5. m \in Nat /\ m <= Len(f.stack)
  BY <1>1
<1> HIDE DEF m
<1>6. ASSUME NEW k \in 1..Len(g.stack) PROVE OnStack(q, w, g.stack[k], q.stack[k])
  <2>1. CASE k <= m
    <3>1. k \in 1..m /\ k \in 1..Len(f.stack)
      BY <1>1, <1>3, <1>5, <2>1 DEF SwappedPair
    <3>2. OnStack(r, w, f.stack[k], r.stack[k])
      BY <3>1 DEF Rel
    <3> QED BY <1>3, <1>4, <3>1, <3>2, SameDataKeeps DEF SwappedPair
  <2>2. CASE k > m
    <3>1. k - m \in 1..Len(push) /\ k = m + (k - m)
      BY <1>1, <1>3, <1>5, <2>2 DEF SwappedPair
    <3>2. g.stack[k] = push[k - m] /\ q.stack[k] = vals[k - m]
      BY <1>3, <1>4, <3>1 DEF SwappedPair
    <3>3. OnStack(r, w, push[k - m], vals[k - m])
      BY <3>1
    <3> QED BY <3>2, <3>3, SameDataKeeps
  <2> QED BY <1>1, <1>3, <1>5, <2>1, <2>2 DEF SwappedPair
<1>7. \A s \in Slots : InLocal(q, w, g.locals[s], s)
  BY <1>2, SameDataKeeps DEF Rel
<1>8. \A x \in Fields : InField(q, g.fields[x], x)
  BY <1>2, SameDataKeeps DEF Rel
<1>9. Len(g.stack) = Len(q.stack)
  BY <1>3, <1>4 DEF SwappedPair
<1> QED BY <1>6, <1>7, <1>8, <1>9 DEF Rel, g

-----------------------------------------------------------------------------
(* Instructions that only move operands.                                   *)

\* The next instruction, from related data.
Stepped(w, T, q) == Good(q) /\ Rel(q, w, T) /\ q.pc = run.pc + 1

\* What Compute does.
LEMMA ComputeFacts ==
  ASSUME Good(run), NEW n \in Nat, n <= Len(run.stack), NEW vals, IsASequence(vals)
  PROVE  LET q == Compute(n, vals)
         IN  /\ Good(q) /\ q.stack = Replace(run.stack, n, vals) /\ SameData(run, q) /\ q.pc = run.pc + 1
<1> DEFINE q == Compute(n, vals)
           s == Replace(run.stack, n, vals)
<1>1. PICK r : r = run
  OBVIOUS
<1>2. q = [r EXCEPT !.pc = @ + 1, !.stack = s]
  BY <1>1 DEF Compute, Depth, Replace
<1>3. /\ r = [pc |-> r.pc, stack |-> r.stack, locals |-> r.locals, fields |-> r.fields, held |-> r.held,
              objects |-> r.objects, gone |-> r.gone, moved |-> r.moved]
      /\ IsASequence(r.stack) /\ IsASequence(r.objects)
      /\ r.locals = [x \in Slots |-> r.locals[x]]
      /\ r.fields = [x \in Fields |-> r.fields[x]] /\ r.held = [x \in Fields |-> r.held[x]]
  BY <1>1 DEF Good
<1>4. IsASequence(s)
  BY <1>1, <1>3, Replaced
<1> HIDE DEF q, s
<1>5. q = [pc |-> r.pc + 1, stack |-> s, locals |-> r.locals, fields |-> r.fields, held |-> r.held,
           objects |-> r.objects, gone |-> r.gone, moved |-> r.moved]
  BY <1>2, <1>3
<1>6. /\ q.pc = r.pc + 1 /\ q.stack = s /\ q.locals = r.locals /\ q.fields = r.fields /\ q.held = r.held
      /\ q.objects = r.objects /\ q.gone = r.gone /\ q.moved = r.moved
  BY <1>5
<1>7. q = [pc |-> q.pc, stack |-> q.stack, locals |-> q.locals, fields |-> q.fields, held |-> q.held,
           objects |-> q.objects, gone |-> q.gone, moved |-> q.moved]
  BY <1>5, <1>6
<1>8. Good(q)
  BY <1>3, <1>4, <1>6, <1>7 DEF Good
<1>9. SameData(r, q)
  BY <1>6 DEF SameData
<1> QED BY <1>1, <1>6, <1>8, <1>9 DEF q, s

\* An instruction that replaces n operands on both stacks, by related entries,
\* keeps the relation.
LEMMA Computed ==
  ASSUME Good(run), NEW w, NEW f, Rel(run, w, f), Framed(f), NEW n \in Nat, n <= Len(f.stack),
         NEW push, NEW vals, IsASequence(push), IsASequence(vals), Len(push) = Len(vals),
         \A k \in 1..Len(push) : OnStack(run, w, push[k], vals[k])
  PROVE  Stepped(w, With(f, n, push), Compute(n, vals))
<1> DEFINE q == Compute(n, vals)
<1>1. n <= Len(run.stack)
  BY DEF Rel
<1>2. Good(q) /\ q.stack = Replace(run.stack, n, vals) /\ SameData(run, q) /\ q.pc = run.pc + 1
  BY <1>1, ComputeFacts
<1> HIDE DEF q
<1>3. Rel(q, w, With(f, n, push))
  BY <1>2, StackStep
<1> QED BY <1>2, <1>3 DEF Stepped, q

\* The same of nothing, one and two values.
LEMMA ComputedFew ==
  ASSUME Good(run), NEW w, NEW f, Rel(run, w, f), Framed(f), NEW n \in Nat, n <= Len(f.stack)
  PROVE  /\ Stepped(w, With(f, n, Empty), Compute(n, Empty))
         /\ \A a, e : OnStack(run, w, a, e) => Stepped(w, With(f, n, Single(a)), Compute(n, Single(e)))
         /\ \A a, b, e, d : OnStack(run, w, a, e) /\ OnStack(run, w, b, d) =>
              Stepped(w, With(f, n, Double(a, b)), Compute(n, Double(e, d)))
<1>1. Stepped(w, With(f, n, Empty), Compute(n, Empty))
  <2>1. IsASequence(Empty) /\ Len(Empty) = 0
    BY Short
  <2>2. \A k \in 1..Len(Empty) : OnStack(run, w, Empty[k], Empty[k])
    BY <2>1
  <2> QED BY <2>1, <2>2, Computed
<1>2. ASSUME NEW a, NEW e, OnStack(run, w, a, e)
      PROVE  Stepped(w, With(f, n, Single(a)), Compute(n, Single(e)))
  <2>1. IsASequence(Single(a)) /\ Len(Single(a)) = 1 /\ Single(a)[1] = a
    BY Short
  <2>2. IsASequence(Single(e)) /\ Len(Single(e)) = 1 /\ Single(e)[1] = e
    BY Short
  <2>3. \A k \in 1..Len(Single(a)) : OnStack(run, w, Single(a)[k], Single(e)[k])
    BY <1>2, <2>1, <2>2
  <2>4. Len(Single(a)) = Len(Single(e))
    BY <2>1, <2>2
  <2>5. IsASequence(Single(a)) /\ IsASequence(Single(e))
    BY <2>1, <2>2
  <2> QED BY <2>3, <2>4, <2>5, Computed
<1>3. ASSUME NEW a, NEW b, NEW e, NEW d, OnStack(run, w, a, e), OnStack(run, w, b, d)
      PROVE  Stepped(w, With(f, n, Double(a, b)), Compute(n, Double(e, d)))
  <2>1. IsASequence(Double(a, b)) /\ Len(Double(a, b)) = 2 /\ Double(a, b)[1] = a /\ Double(a, b)[2] = b
    BY Short
  <2>2. IsASequence(Double(e, d)) /\ Len(Double(e, d)) = 2 /\ Double(e, d)[1] = e /\ Double(e, d)[2] = d
    BY Short
  <2>3. \A k \in 1..2 : OnStack(run, w, Double(a, b)[k], Double(e, d)[k])
    BY <1>3, <2>1, <2>2
  <2>4. Len(Double(a, b)) = Len(Double(e, d)) /\ \A k \in 1..Len(Double(a, b)) : OnStack(run, w, Double(a, b)[k], Double(e, d)[k])
    BY <2>1, <2>2, <2>3
  <2>5. IsASequence(Double(a, b)) /\ IsASequence(Double(e, d))
    BY <2>1, <2>2
  <2> QED BY <2>4, <2>5, Computed
<1> QED BY <1>1, <1>2, <1>3

\* The one outcome of each straight instruction, by name.
LEMMA StraightIs ==
  ASSUME NEW i
  PROVE
    /\ i.mn = "lconst_0" => Straight(i) = Compute(0, Single(Fresh(0, Fat)))
    /\ i.mn = "ldc2_w" => Straight(i) = Compute(0, Single(Fresh(IF i.long /\ i.value = 0 THEN 0 ELSE Junk, Fat)))
    /\ i.mn = "lload" => Straight(i) = Compute(0, Single([v |-> run.locals[i.n], wide |-> Fat, src |-> i.n,
                                                          moved |-> i.n \in run.moved]))
    /\ i.mn = "aload" => Straight(i) = Compute(0, Single(Fresh(run.locals[i.n], Slim)))
    /\ i.mn \in {"lstore", "astore"} => Straight(i) = StoreLocal(i.n)
    /\ i.mn = "getfield" =>
         Straight(i) = Compute(1, Single(Fresh(IF OfThis(1, i.field.name) THEN run.fields[i.field.name] ELSE Junk,
                                               Wide(i.field.type))))
    /\ i.mn = "putfield" => Straight(i) = StoreField(i.field.name)
    /\ i.mn = "getstatic" => Straight(i) = Compute(0, Single(Fresh(Static(i.field), Wide(i.field.type))))
    /\ i.mn = "putstatic" => Straight(i) = Compute(1, Empty)
    /\ i.mn = "lcmp" => Straight(i) = Compute(2, Single(Fresh(IF FromTop(1).v = FromTop(2).v THEN 0 ELSE NonZero, Slim)))
    /\ i.mn = "dup" => Straight(i) = Compute(0, Single(FromTop(1)))
    /\ i.mn = "dup2" => Straight(i) = Compute(0, Duplicate)
    /\ i.mn = "pop" => Straight(i) = Compute(1, Empty)
    /\ i.mn = "pop2" => Straight(i) = Compute(Len(Duplicate), Empty)
    /\ i.mn = "swap" => Straight(i) = Compute(2, Double(FromTop(1), FromTop(2)))
    /\ i.mn = "multianewarray" => Straight(i) = Compute(i.dims, Unknown(<<"A">>))
    /\ i.mn = "invokedynamic" => Straight(i) = Compute(Len(i.captured), Unknown(<<"A">>))
<1>1. i.mn = "lconst_0" => Straight(i) = Compute(0, Single(Fresh(0, Fat)))
  BY SMTT(60) DEF Straight, Single, Fat
<1>2. i.mn = "ldc2_w" => Straight(i) = Compute(0, Single(Fresh(IF i.long /\ i.value = 0 THEN 0 ELSE Junk, Fat)))
  BY SMTT(60) DEF Straight, Single, Fat
<1>3. i.mn = "lload" => Straight(i) = Compute(0, Single([v |-> run.locals[i.n], wide |-> Fat, src |-> i.n,
                                                          moved |-> i.n \in run.moved]))
  BY SMTT(60) DEF Straight, Single, Fat
<1>4. i.mn = "aload" => Straight(i) = Compute(0, Single(Fresh(run.locals[i.n], Slim)))
  BY SMTT(60) DEF Straight, Single, Slim
<1>5. i.mn \in {"lstore", "astore"} => Straight(i) = StoreLocal(i.n)
  BY SMTT(60) DEF Straight
<1>6. i.mn = "getfield" =>
         Straight(i) = Compute(1, Single(Fresh(IF OfThis(1, i.field.name) THEN run.fields[i.field.name] ELSE Junk,
                                               Wide(i.field.type))))
  BY SMTT(60) DEF Straight, Single
<1>7. i.mn = "putfield" => Straight(i) = StoreField(i.field.name)
  BY SMTT(60) DEF Straight
<1>8. i.mn = "getstatic" => Straight(i) = Compute(0, Single(Fresh(Static(i.field), Wide(i.field.type))))
  BY SMTT(60) DEF Straight, Single
<1>9. i.mn = "putstatic" => Straight(i) = Compute(1, Empty)
  BY SMTT(60) DEF Straight, Empty
<1>10. i.mn = "lcmp" => Straight(i) = Compute(2, Single(Fresh(IF FromTop(1).v = FromTop(2).v THEN 0 ELSE NonZero, Slim)))
  BY SMTT(60) DEF Straight, Single, Slim
<1>11. i.mn = "dup" => Straight(i) = Compute(0, Single(FromTop(1)))
  BY SMTT(60) DEF Straight, Single
<1>12. i.mn = "dup2" => Straight(i) = Compute(0, Duplicate)
  BY SMTT(60) DEF Straight
<1>13. i.mn = "pop" => Straight(i) = Compute(1, Empty)
  BY SMTT(60) DEF Straight, Empty
<1>14. i.mn = "pop2" => Straight(i) = Compute(Len(Duplicate), Empty)
  BY SMTT(60) DEF Straight, Empty
<1>15. i.mn = "swap" => Straight(i) = Compute(2, Double(FromTop(1), FromTop(2)))
  BY SMTT(60) DEF Straight, Double
<1>16. i.mn = "multianewarray" => Straight(i) = Compute(i.dims, Unknown(<<"A">>))
  BY SMTT(60) DEF Straight
<1>17. i.mn = "invokedynamic" => Straight(i) = Compute(Len(i.captured), Unknown(<<"A">>))
  BY SMTT(60) DEF Straight
<1> QED BY <1>1, <1>2, <1>3, <1>4, <1>5, <1>6, <1>7, <1>8, <1>9, <1>10, <1>11, <1>12, <1>13, <1>14,
           <1>15, <1>16, <1>17

\* All the others take and leave what the table of the JVM says.
LEMMA PlainStraight ==
  ASSUME NEW i, i.mn \in PlainOnes
  PROVE  Straight(i) = Compute(Len(SignatureOf(i.mn).in), Unknown(SignatureOf(i.mn).out))
<1>1. i.mn \notin Special
  BY PlainNotSpecial
<1>2. i.mn \notin {"lconst_0", "lcmp", "lload", "lstore", "aload", "astore"}
  BY DEF PlainOnes, NarrowSources, WideSources, Sinks, ToNarrow, ToWide, TwoToNarrow, TwoToWide,
     ArrayStores,
         LongBinary, LongUnary
<1> QED BY <1>1, <1>2, SMTT(60) DEF Straight, Special

\* What is unknown has the widths of its types.
LEMMA UnknownFacts ==
  ASSUME NEW types, IsASequence(types)
  PROVE  /\ IsASequence(Unknown(types)) /\ Len(Unknown(types)) = Len(types)
         /\ \A k \in 1..Len(types) : Unknown(types)[k] = Fresh(Junk, Wide(types[k]))
<1>1. DOMAIN types = 1..Len(types) /\ Len(types) \in Nat
  BY SequenceFacts
<1> DEFINE u == [k \in 1..Len(types) |-> Fresh(Junk, Wide(types[k]))]
<1>2. Unknown(types) = u
  BY <1>1 DEF Unknown
<1>3. \A k \in 1..Len(types) : u[k] = Fresh(Junk, Wide(types[k]))
  OBVIOUS
<1>4. DOMAIN u = 1..Len(types) /\ u = [k \in DOMAIN u |-> u[k]]
  OBVIOUS
<1> HIDE DEF u
<1>5. IsASequence(u)
  BY <1>1, <1>4, Enumerated
<1>6. Len(u) = Len(types)
  BY <1>1, <1>4, <1>5, SequenceFacts
<1> QED BY <1>2, <1>3, <1>5, <1>6

\* Pushed by no instruction the analysis follows.
LEMMA UnfollowedOnStack ==
  ASSUME NEW r, NEW w, NEW a, a.val \in Unfollowed, NEW wide, a.wide = wide, NEW v \in {0, Junk, NonZero}
  PROVE  OnStack(r, w, a, Fresh(v, wide))
<1>1. Known(r, w, a.val, v)
  BY PlainKnown DEF Unfollowed
<1>2. a.val.tag \in {"NotHandle", "Forged"} /\ a.val.id = NoId /\ a.val.state = "none"
  BY DEF Unfollowed, NotHandle, Plain, Value
<1> DEFINE e == Fresh(v, wide)
<1>3. e.v = v /\ e.wide = wide
  BY DEF Fresh
<1> HIDE DEF e
<1> QED BY <1>1, <1>2, <1>3, IdsDiffer DEF OnStack, IsHandle, e

\* A plain instruction keeps the relation.
LEMMA PlainStep ==
  ASSUME Good(run), NEW w, NEW f, Rel(run, w, f), Framed(f), NEW i, i.mn \in PlainOnes, NEW m, Fits(f.stack, m),
         Finds(i, m), NEW at
  PROVE  Stepped(w, Transfer(f, ClassifyOp(i), at), Straight(i))
<1> DEFINE s == SignatureOf(i.mn)
           T == Transfer(f, ClassifyOp(i), at)
<1>1. PlainMove(i, f, T)
  BY PlainMoves
<1> HIDE DEF T
<1>2. IsASequence(s.in) /\ IsASequence(s.out)
  BY <1>1 DEF PlainMove
<1>3. Len(s.in) \in Nat /\ Len(s.in) <= Len(f.stack)
  <2>1. EffectOn(i, m) = Effects(WidthsOf(s.in), WidthsOf(s.out))
    BY PlainNotSpecial, PlainEffect
  <2>2. IsASequence(WidthsOf(s.in)) /\ Len(WidthsOf(s.in)) = Len(s.in)
    BY <1>2, WidthsSame
  <2>3. Len(WidthsOf(s.in)) \in Nat /\ Len(WidthsOf(s.in)) <= Len(f.stack)
    BY <2>1, <2>2, AfterReplaced
  <2> QED BY <2>2, <2>3
<1>4. PICK push : /\ T = With(f, Len(s.in), push)
                  /\ Fits(push, WidthsOf(s.out))
                  /\ \A k \in 1..Len(push) : push[k].val \in Unfollowed
  BY <1>1, <1>3 DEF PlainMove
<1> DEFINE vals == Unknown(s.out)
<1>5. /\ IsASequence(vals) /\ Len(vals) = Len(s.out)
      /\ \A k \in 1..Len(s.out) : vals[k] = Fresh(Junk, Wide(s.out[k]))
  BY <1>2, UnknownFacts
<1>6. /\ IsASequence(push) /\ Len(push) = Len(s.out)
      /\ \A k \in 1..Len(s.out) : push[k].wide = Wide(s.out[k])
  BY <1>2, <1>4, WidthsSame DEF Fits
<1>7. Straight(i) = Compute(Len(s.in), vals)
  BY PlainStraight
<1> HIDE DEF s, vals
<1>8. ASSUME NEW k \in 1..Len(push) PROVE OnStack(run, w, push[k], vals[k])
  <2>1. push[k].val \in Unfollowed /\ push[k].wide = Wide(s.out[k]) /\ vals[k] = Fresh(Junk, Wide(s.out[k]))
    BY <1>4, <1>5, <1>6
  <2> QED BY <2>1, UnfollowedOnStack
<1>9. Stepped(w, With(f, Len(s.in), push), Compute(Len(s.in), vals))
  <2>1. Len(push) = Len(vals)
    BY <1>5, <1>6
  <2> QED BY <1>3, <1>5, <1>6, <1>8, <2>1, Computed
<1> QED BY <1>4, <1>7, <1>9 DEF T

\* The operands on top, and their widths.
LEMMA OperandWidth ==
  ASSUME NEW i, NEW s, NEW w, Fits(s, w), Finds(i, w), NEW b, NEW out, EffectOn(i, w) = Effects(Single(b), out)
  PROVE  1 <= Len(s) /\ s[Len(s) - 1 + 1].wide = b
<1>1. Len(s) \in Nat
  BY SequenceFacts DEF Fits
<1>2. PICK one : one = Single(b)
  OBVIOUS
<1>3. IsASequence(one) /\ Len(one) = 1 /\ one[1] = b
  BY <1>2, Short
<1>4. Topped(s, one)
  BY <1>2, <1>3, ShortOperands
<1> QED BY <1>1, <1>3, <1>4 DEF Topped

\* The same of two operands.
LEMMA OperandWidths ==
  ASSUME NEW i, NEW s, NEW w, Fits(s, w), Finds(i, w), NEW b, NEW c, NEW out,
         EffectOn(i, w) = Effects(Double(b, c), out)
  PROVE  2 <= Len(s) /\ s[Len(s) - 2 + 1].wide = b /\ s[Len(s) - 1 + 1].wide = c
<1>1. Len(s) \in Nat
  BY SequenceFacts DEF Fits
<1>2. PICK two : two = Double(b, c)
  OBVIOUS
<1>3. IsASequence(two) /\ Len(two) = 2 /\ two[1] = b /\ two[2] = c
  BY <1>2, Short
<1>4. Topped(s, two)
  BY <1>2, <1>3, ShortOperands
<1>5. Len(s) - 2 + 2 = Len(s) - 1 + 1
  BY <1>1
<1>6. 2 <= Len(s) /\ s[Len(s) - 2 + 1].wide = b /\ s[Len(s) - 2 + 2].wide = c
  BY <1>3, <1>4 DEF Topped
<1> QED BY <1>5, <1>6

\* The operands of the two stacks are related.
LEMMA TopRelated ==
  ASSUME NEW w, NEW f, Rel(run, w, f), Framed(f), NEW n \in {1, 2}, n <= Len(f.stack)
  PROVE  /\ OnStack(run, w, f.stack[Len(f.stack) - n + 1], FromTop(n))
         /\ Top(f, n) = f.stack[Len(f.stack) - n + 1] /\ Peek(f, n) = f.stack[Len(f.stack) - n + 1].val
         /\ Known(run, w, Peek(f, n), FromTop(n).v)
<1>1. Len(f.stack) \in Nat /\ Len(run.stack) = Len(f.stack)
  BY SequenceFacts DEF Framed, Rel
<1>2. Len(f.stack) - n + 1 \in 1..Len(f.stack)
  BY <1>1
<1>3. OnStack(run, w, f.stack[Len(f.stack) - n + 1], FromTop(n))
  BY <1>1, <1>2 DEF Rel, FromTop, Depth
<1>4. Top(f, n) = f.stack[Len(f.stack) - n + 1]
  BY Topmost
<1> QED BY <1>3, <1>4 DEF Peek, OnStack

\* The height of the stack, as arithmetic needs it.
LEMMA Bottom ==
  ASSUME NEW f, Framed(f)
  PROVE  Len(f.stack) \in Nat /\ 0 \in Nat /\ 1 \in Nat /\ 2 \in Nat /\ 0 <= Len(f.stack)
BY SequenceFacts DEF Framed

\* An instruction that loads a constant or a local.
LEMMA LoadStep ==
  ASSUME Good(run), NEW w, NEW f, Rel(run, w, f), Framed(f), NEW i, NEW at, LoadsReference(f, ClassifyOp(i)),
         i.mn \in {"lload", "aload"} => i.n \in Slots,
         i.mn \in {"lconst_0", "lload", "aload", "getstatic"} \/ (i.mn = "ldc2_w" /\ i.long)
  PROVE  Stepped(w, Transfer(f, ClassifyOp(i), at), Straight(i))
<1> DEFINE T == Transfer(f, ClassifyOp(i), at)
<1>1. \A a, e : OnStack(run, w, a, e) => Stepped(w, With(f, 0, Single(a)), Compute(0, Single(e)))
  BY Bottom, ComputedFew
<1>2. ASSUME i.mn = "lconst_0" PROVE Stepped(w, T, Straight(i))
  <2> DEFINE a == Item(Plain("Zero"), Fat)
             e == Fresh(0, Fat)
  <2>1. T = With(f, 0, Single(a)) /\ Straight(i) = Compute(0, Single(e))
    BY <1>2, PureShapes, StraightIs DEF Single, Fat
  <2>2. OnStack(run, w, a, e)
    BY PlainKnown, PlainOnStack
  <2> HIDE DEF T, a, e
  <2> QED BY <1>1, <2>1, <2>2 DEF T
<1>3. ASSUME i.mn = "ldc2_w", i.long PROVE Stepped(w, T, Straight(i))
  <2> DEFINE a == Item(Const(i), Fat)
             v == IF i.long /\ i.value = 0 THEN 0 ELSE Junk
             e == Fresh(v, Fat)
  <2>1. T = With(f, 0, Single(a)) /\ Straight(i) = Compute(0, Single(e))
    BY <1>3, PureShapes, StraightIs DEF Single, Fat
  <2>2. OnStack(run, w, a, e)
    <3>1. CASE i.value = 0
      <4>1. v = 0 /\ Const(i) = Plain("Zero")
        BY <1>3, <3>1 DEF Const
      <4> QED BY <4>1, PlainKnown, PlainOnStack
    <3>2. CASE i.value # 0
      <4>1. v = Junk /\ Const(i) = Plain("Forged")
        BY <3>2 DEF Const
      <4> QED BY <4>1, PlainKnown, PlainOnStack
    <3> QED BY <3>1, <3>2
  <2> HIDE DEF T, a, e
  <2> QED BY <1>1, <2>1, <2>2 DEF T
<1>4. ASSUME i.mn = "lload" PROVE Stepped(w, T, Straight(i))
  <2> DEFINE u == f.locals[i.n]
             c == Reid(u, LocalId(i.n))
             a == Item(c, Fat)
             e == [v |-> run.locals[i.n], wide |-> Fat, src |-> i.n, moved |-> i.n \in run.moved]
  <2>1. T = With(f, 0, Single(a)) /\ Straight(i) = Compute(0, Single(e))
    BY <1>4, PureShapes, StraightIs DEF Single, Fat
  <2>2. i.n \in Slots /\ InLocal(run, w, u, i.n)
    BY <1>4 DEF Rel
  <2>3. /\ a.val = c /\ a.wide = Fat /\ e.v = run.locals[i.n] /\ e.wide = Fat /\ e.src = i.n
        /\ (e.moved <=> i.n \in run.moved)
    BY DEF Item
  <2> HIDE DEF a, e, u
  <2>4. Known(run, w, u, run.locals[i.n])
    BY <2>2 DEF InLocal
  <2>5. CASE IsHandle(u)
    <3>1. c = [u EXCEPT !.id = LocalId(i.n)]
      BY <2>5 DEF Reid
    <3>2. c.tag = u.tag /\ c.ptr = u.ptr /\ c.state = u.state /\ c.from = u.from /\ c.id = LocalId(i.n)
      BY <3>1, <2>4 DEF c
    <3> HIDE DEF c
    <3>3. Identified(run, w, c, run.locals[i.n])
      BY <2>2, <3>2, IdsDiffer DEF Identified
    <3>4. Says(run, c, run.locals[i.n])
      BY <2>4, <3>2 DEF Known, Says
    <3>5. IsHandle(c) /\ Known(run, w, c, run.locals[i.n])
      BY <2>4, <2>5, <3>2, <3>3, <3>4 DEF Known, IsHandle
    <3>6. c.state = "Moved" => e.v = 0 \/ e.v \in run.gone \/ e.moved
      BY <2>2, <2>3, <3>2 DEF InLocal
    <3>7. \A n \in Slots : c.id = LocalId(n) => e.src = n /\ (e.moved => n \in run.moved)
      BY <2>3, <3>2, IdsDiffer
    <3>8. OnStack(run, w, a, e)
      BY <2>3, <3>5, <3>6, <3>7 DEF OnStack, Fat
    <3> HIDE DEF T
    <3> QED BY <1>1, <2>1, <3>8 DEF T
  <2>6. CASE ~IsHandle(u)
    <3>1. c = u
      BY <2>6 DEF Reid
    <3> HIDE DEF c
    <3>2. OnStack(run, w, a, e)
      BY <2>3, <2>4, <2>6, <3>1, IdsDiffer DEF OnStack, Known
    <3> HIDE DEF T
    <3> QED BY <1>1, <2>1, <3>2 DEF T
  <2> QED BY <2>5, <2>6
<1>5. ASSUME i.mn = "aload" PROVE Stepped(w, T, Straight(i))
  <2> DEFINE u == f.locals[i.n]
             a == Item(u, Slim)
             e == Fresh(run.locals[i.n], Slim)
  <2>1. T = With(f, 0, Single(a)) /\ Straight(i) = Compute(0, Single(e))
    BY <1>5, PureShapes, StraightIs DEF Single, Slim
  <2>2. i.n \in Slots /\ InLocal(run, w, u, i.n)
    BY <1>5 DEF Rel
  <2>3. ~IsHandle(u)
    <3>1. ClassifyOp(i).name = "LoadRef" /\ ClassifyOp(i).n = i.n
      BY <1>5, Classified
    <3> QED BY <3>1 DEF LoadsReference
  <2>4. a.val = u /\ a.wide = Slim /\ e.v = run.locals[i.n] /\ e.wide = Slim
    BY DEF Item, Fresh
  <2> HIDE DEF a, e, u, T
  <2>5. OnStack(run, w, a, e)
    BY <2>2, <2>3, <2>4, IdsDiffer DEF OnStack, InLocal, Known
  <2> QED BY <1>1, <2>1, <2>5 DEF T
<1>6. ASSUME i.mn = "getstatic" PROVE Stepped(w, T, Straight(i))
  <2> DEFINE b == Wide(i.field.type)
             a == Item(Flag(i.field.name), b)
             e == Fresh(Static(i.field), b)
  <2>1. T = With(f, 0, Single(a)) /\ Straight(i) = Compute(0, Single(e))
    BY <1>6, PureShapes, StraightIs DEF Single
  <2>2. OnStack(run, w, a, e)
    <3>1. CASE i.field.name = "$assertionsDisabled"
      <4>1. Static(i.field) = 0 /\ Flag(i.field.name) = Plain("AssertFlag")
        BY <3>1 DEF Static, Flag
      <4> QED BY <4>1, PlainKnown, PlainOnStack
    <3>2. CASE i.field.name # "$assertionsDisabled"
      <4>1. Static(i.field) = Junk /\ Flag(i.field.name) = Plain("NotHandle")
        BY <3>2 DEF Static, Flag, NotHandle
      <4>2. Known(run, w, Plain("NotHandle"), Junk)
        BY PlainKnown DEF NotHandle
      <4> QED BY <4>1, <4>2, PlainOnStack
    <3> QED BY <3>1, <3>2
  <2> HIDE DEF T, a, e
  <2> QED BY <1>1, <2>1, <2>2 DEF T
<1> QED BY <1>2, <1>3, <1>4, <1>5, <1>6

\* What a field of `this` holds, where FieldKept says it is what its annotation says.
LEMMA FieldRead ==
  ASSUME Good(run), NEW w, NEW f, Rel(run, w, f), NEW x \in Fields, FieldKept(x)
  PROVE  OnStack(run, w, Item(Handle(FieldPtr[x], "Live", FieldId(x), x), Fat), Fresh(run.fields[x], Fat))
<1> DEFINE c == Handle(FieldPtr[x], "Live", FieldId(x), x)
           a == Item(c, Fat)
           v == run.fields[x]
           e == Fresh(v, Fat)
<1>1. /\ c.tag = "Handle" /\ c.ptr = FieldPtr[x] /\ c.state = "Live" /\ c.id = FieldId(x) /\ c.from = x
      /\ a.val = c /\ a.wide = Fat /\ e.v = v /\ e.wide = Fat
  BY DEF Handle, Value, Item, Fresh
<1> HIDE DEF a, e, c
<1>2. Says(run, c, v)
  BY <1>1 DEF Says, Tags, FieldKept, IsObject
<1>3. Identified(run, w, c, v)
  BY <1>1, IdsDiffer DEF Identified
<1>4. v \in run.held[x]
  BY DEF Rel, InField
<1>5. Known(run, w, c, v)
  BY <1>1, <1>2, <1>3, <1>4 DEF Known, IsHandle
<1> QED BY <1>1, <1>5, IdsDiffer DEF OnStack, Fat, c, a, e

\* Where the analysis cannot be wrong about `this`.
LEMMA ThisKnown ==
  ASSUME NEW r, NEW w, NEW a, NEW v, Known(r, w, a, v), a.tag # "Top", Good(r)
  PROVE  a.tag = "This" <=> v = Receiver
<1>1. Receiver \notin DOMAIN r.objects /\ Receiver \notin {0, Junk, NonZero}
  <2>1. DOMAIN r.objects = 1..Len(r.objects)
    BY SequenceFacts DEF Good
  <2> QED BY <2>1 DEF Receiver, Junk, NonZero
<1>2. a.tag = "This" => v = Receiver
  BY DEF Known, Says
<1>3. ASSUME v = Receiver PROVE a.tag = "This"
  BY <1>1, <1>3 DEF Known, Says, Tags
<1> QED BY <1>2, <1>3

\* Reading a field.
LEMMA GetFieldStep ==
  ASSUME Good(run), NEW w, NEW f, Rel(run, w, f), Framed(f), NEW i, i.mn = "getfield", NEW m, Fits(f.stack, m),
         Finds(i, m), NEW at, UsesField(f, ClassifyOp(i)), i.field.name \in Fields => i.field.type = "J",
         \A x \in Fields : FieldKept(x)
  PROVE  Stepped(w, Transfer(f, ClassifyOp(i), at), Straight(i))
<1> DEFINE x == i.field.name
           b == Wide(i.field.type)
           T == Transfer(f, ClassifyOp(i), at)
           a == Item(Read(f, x), b)
           v == IF OfThis(1, x) THEN run.fields[x] ELSE Junk
           e == Fresh(v, b)
<1>1. EffectOn(i, m) = Effects(Single(Slim), Single(b))
  BY ShortEffects
<1>2. 1 <= Len(f.stack)
  BY <1>1, OperandWidth
<1>3. T = With(f, 1, Single(a)) /\ Straight(i) = Compute(1, Single(e))
  BY <1>2, PureShapes, StraightIs DEF Single
<1>4. Known(run, w, Peek(f, 1), FromTop(1).v)
  BY <1>2, TopRelated
<1>5. ClassifyOp(i).name = "GetField" /\ ClassifyOp(i).field = x
  BY Classified DEF Member
<1>6. CASE x \in Fields
  <2>1. Peek(f, 1).tag # "Top"
    BY <1>5, <1>6 DEF UsesField
  <2>2. Peek(f, 1).tag = "This" <=> FromTop(1).v = Receiver
    BY <1>4, <2>1, ThisKnown
  <2>3. b = Fat
    BY <1>6 DEF Wide, Fat
  <2>4. ASSUME FromTop(1).v = Receiver PROVE OnStack(run, w, a, e)
    <3>1. v = run.fields[x] /\ Read(f, x) = Handle(FieldPtr[x], "Live", FieldId(x), x)
      BY <1>6, <2>2, <2>4 DEF OfThis, Read
    <3>2. OnStack(run, w, Item(Handle(FieldPtr[x], "Live", FieldId(x), x), Fat), Fresh(run.fields[x], Fat))
      BY <1>6, FieldRead
    <3>3. OnStack(run, w, a, e)
      BY <2>3, <3>1, <3>2
    <3> QED BY <3>3
  <2>5. ASSUME FromTop(1).v # Receiver PROVE OnStack(run, w, a, e)
    <3>1. v = Junk /\ Read(f, x) = Plain("NotHandle")
      BY <2>2, <2>5 DEF OfThis, Read, NotHandle
    <3>2. Known(run, w, Plain("NotHandle"), Junk)
      BY PlainKnown DEF NotHandle
    <3>3. OnStack(run, w, a, e)
      BY <3>1, <3>2, PlainOnStack
    <3> QED BY <3>3
  <2>6. OnStack(run, w, a, e)
    BY <2>4, <2>5
  <2> HIDE DEF a, e, T
  <2> QED BY <1>2, <1>3, <2>6, Bottom, ComputedFew DEF T
<1>7. CASE x \notin Fields
  <2>1. v = Junk /\ Read(f, x) = Plain("NotHandle")
    BY <1>7 DEF OfThis, Read, NotHandle
  <2>2. Known(run, w, Plain("NotHandle"), Junk)
    BY PlainKnown DEF NotHandle
  <2>3. OnStack(run, w, a, e)
    BY <2>1, <2>2, PlainOnStack
  <2> HIDE DEF a, e, T
  <2> QED BY <1>2, <1>3, <2>3, Bottom, ComputedFew DEF T
<1> QED BY <1>6, <1>7

\* The token of a comparison with 0.
LEMMA TokenKnown ==
  ASSUME Good(run), NEW w, NEW f, Rel(run, w, f), Framed(f), 2 <= Len(f.stack), NEW i, i.mn = "lcmp",
         ComparesField(f, ClassifyOp(i))
  PROVE  LET v == IF FromTop(1).v = FromTop(2).v THEN 0 ELSE NonZero
         IN  OnStack(run, w, Item(Token(f), Slim), Fresh(v, Slim))
<1> DEFINE v == IF FromTop(1).v = FromTop(2).v THEN 0 ELSE NonZero
           p == Peek(f, 1)
           q == Peek(f, 2)
           vs == {p, q}
           read == {u \in vs : IsHandle(u) /\ u.from # NoField}
           zero == Plain("Zero")
           c == Token(f)
           a == Item(c, Slim)
           e == Fresh(v, Slim)
<1>0. 1 <= Len(f.stack)
  BY Bottom
<1>1. Known(run, w, p, FromTop(1).v)
  BY <1>0, TopRelated
<1>2. Known(run, w, q, FromTop(2).v)
  BY TopRelated
<1>3. \A n \in 1..2 : IsHandle(Peek(f, n)) /\ Peek(f, n).from # NoField => Peek(f, n).id = FieldId(Peek(f, n).from)
  <2>1. ClassifyOp(i).name = "LongCmp"
    BY Classified
  <2> QED BY <2>1 DEF ComparesField
<1>4. /\ IsHandle(p) /\ p.from # NoField => p.id = FieldId(p.from)
      /\ IsHandle(q) /\ q.from # NoField => q.id = FieldId(q.from)
  BY <1>3
<1>5. CASE read # {} /\ zero \in vs
  <2> DEFINE h == CHOOSE u \in read : TRUE
  <2>1. c = CmpFieldZero(h.from)
    BY <1>5 DEF Token
  <2>2. h \in read
    BY <1>5
  <2> HIDE DEF h
  <2>3. zero.tag = "Zero"
    BY DEF Plain, Value
  <2>4. h \in {p, q} /\ IsHandle(h) /\ h.from # NoField
    BY <2>2
  <2>5. h # zero
    BY <2>3, <2>4 DEF IsHandle
  <2>6. (h = p /\ q = zero) \/ (h = q /\ p = zero)
    BY <1>5, <2>4, <2>5
  <2> HIDE DEF p, q, zero
  <2>7. h.from \in Fields /\ (v = 0 <=> run.fields[h.from] = 0)
    <3>1. \A u : Known(run, w, zero, u) => u = 0
      BY <2>3 DEF Known, Says
    <3>2. CASE h = p /\ q = zero
      <4>1. h.from \in Fields
        BY <1>1, <2>4, <3>2 DEF Known
      <4>2. FromTop(1).v = run.fields[h.from]
        BY <1>1, <1>4, <2>4, <3>2, <4>1 DEF Known, Identified
      <4>3. FromTop(2).v = 0
        BY <1>2, <3>1, <3>2
      <4> QED BY <4>1, <4>2, <4>3 DEF NonZero
    <3>3. CASE h = q /\ p = zero
      <4>1. h.from \in Fields
        BY <1>2, <2>4, <3>3 DEF Known
      <4>2. FromTop(2).v = run.fields[h.from]
        BY <1>2, <1>4, <2>4, <3>3, <4>1 DEF Known, Identified
      <4>3. FromTop(1).v = 0
        BY <1>1, <3>1, <3>3
      <4> QED BY <4>1, <4>2, <4>3 DEF NonZero
    <3> QED BY <2>6, <3>2, <3>3
  <2>8. v \in {0, NonZero}
    OBVIOUS
  <2>9. /\ c.tag = "CmpFieldZero" /\ c.id = NoId /\ c.state = "none" /\ c.from = h.from
        /\ a.val = c /\ a.wide = Slim /\ e.v = v /\ e.wide = Slim
    BY <2>1 DEF CmpFieldZero, Value, Item, Fresh
  <2> HIDE DEF v, c, a, e
  <2>10. Says(run, c, v)
    BY <2>7, <2>8, <2>9 DEF Says, Tags
  <2>11. Identified(run, w, c, v)
    BY <2>9, IdsDiffer DEF Identified
  <2>12. Known(run, w, c, v) /\ ~IsHandle(c)
    BY <2>9, <2>10, <2>11 DEF Known, IsHandle
  <2>13. OnStack(run, w, a, e)
    BY <2>9, <2>12, IdsDiffer DEF OnStack
  <2> QED BY <2>13 DEF a, e, c, v
<1>6. CASE ~(read # {} /\ zero \in vs)
  <2>1. c = Plain("NotHandle")
    BY <1>6 DEF Token, NotHandle
  <2>2. v \in {0, Junk, NonZero}
    OBVIOUS
  <2> HIDE DEF v, c
  <2>3. Known(run, w, Plain("NotHandle"), v)
    BY <2>2, PlainKnown DEF NotHandle
  <2>4. OnStack(run, w, Item(Plain("NotHandle"), Slim), Fresh(v, Slim))
    BY <2>3, PlainOnStack
  <2> QED BY <2>1, <2>4 DEF v, c
<1> QED BY <1>5, <1>6

\* Comparing two longs keeps the relation.
LEMMA CompareStep ==
  ASSUME Good(run), NEW w, NEW f, Rel(run, w, f), Framed(f), NEW i, i.mn = "lcmp", NEW m, Fits(f.stack, m),
         Finds(i, m), NEW at, ComparesField(f, ClassifyOp(i))
  PROVE  Stepped(w, Transfer(f, ClassifyOp(i), at), Straight(i))
<1> DEFINE T == Transfer(f, ClassifyOp(i), at)
           v == IF FromTop(1).v = FromTop(2).v THEN 0 ELSE NonZero
           a == Item(Token(f), Slim)
           e == Fresh(v, Slim)
<1>1. 2 <= Len(f.stack)
  <2>1. Balance(i.mn, 2, 1, Narrow)
    BY Balances
  <2>2. i.mn \notin Special
    BY PlainNotSpecial
  <2>3. Takes(i, m, 2)
    BY <2>1, <2>2, TableEffect
  <2>4. PICK in, out : EffectOn(i, m) = Effects(in, out) /\ IsASequence(in) /\ Len(in) = 2
    BY <2>3 DEF Takes
  <2>5. EffectOn(i, m) = Effects(in, out) /\ IsASequence(in)
    BY <2>4
  <2>6. Len(in) <= Len(f.stack)
    BY <2>5, AfterReplaced
  <2> QED BY <2>4, <2>6
<1>2. T = With(f, 2, Single(a)) /\ Straight(i) = Compute(2, Single(e))
  BY <1>1, PureShapes, StraightIs DEF Single, Slim
<1>3. OnStack(run, w, a, e)
  BY <1>1, TokenKnown
<1> HIDE DEF a, e, T
<1> QED BY <1>1, <1>2, <1>3, Bottom, ComputedFew DEF T

\* A reference of which nothing is known.
LEMMA UnknownReference == Unknown(<<"A">>) = Single(Fresh(Junk, Slim))
<1>1. PICK t : t = <<"A">>
  OBVIOUS
<1>2. IsASequence(t) /\ Len(t) = 1 /\ t[1] = "A"
  BY <1>1, Few
<1> DEFINE e == Fresh(Junk, Slim)
<1>3. Wide(t[1]) = Slim
  BY <1>2 DEF Wide, Slim
<1>4. IsASequence(Unknown(t)) /\ Len(Unknown(t)) = 1 /\ Unknown(t)[1] = e
  BY <1>2, <1>3, UnknownFacts
<1>5. IsASequence(Single(e)) /\ Len(Single(e)) = 1 /\ Single(e)[1] = e
  BY Short
<1> HIDE DEF e
<1>6. Unknown(t) = Single(e)
  BY <1>4, <1>5, SameSequence
<1> QED BY <1>1, <1>6 DEF e

\* A constant that is no long, and what is popped or forgotten.
LEMMA ForgetStep ==
  ASSUME Good(run), NEW w, NEW f, Rel(run, w, f), Framed(f), NEW i, NEW m, Fits(f.stack, m), Finds(i, m), NEW at,
         i.mn \in {"putstatic", "multianewarray"} \/ (i.mn = "ldc2_w" /\ ~i.long),
         i.mn = "multianewarray" => i.dims \in Nat
  PROVE  Stepped(w, Transfer(f, ClassifyOp(i), at), Straight(i))
<1> DEFINE T == Transfer(f, ClassifyOp(i), at)
<1>0. PICK no : no = NotHandle
  OBVIOUS
<1>1. ASSUME NEW n \in Nat, n <= Len(f.stack), NEW b, ClassifyOp(i) = Other(n, Single(b)),
             Straight(i) = Compute(n, Single(Fresh(Junk, b)))
      PROVE  Stepped(w, T, Straight(i))
  <2> DEFINE junk == [k \in 1..Len(Single(b)) |-> Item(NotHandle, Single(b)[k])]
             x == Item(NotHandle, b)
             e == Fresh(Junk, b)
  <2>1. IsASequence(Single(b)) /\ Len(Single(b)) = 1 /\ Single(b)[1] = b
    BY Short
  <2>2. Transfer(f, Other(n, Single(b)), at) = With(f, n, junk) /\ IsASequence(junk) /\ Len(junk) = Len(Single(b))
    BY <1>1, <2>1, OtherShape
  <2>3. junk[1] = x
    BY <2>1
  <2>4. Known(run, w, Plain("NotHandle"), Junk)
    BY PlainKnown DEF NotHandle
  <2>5. OnStack(run, w, x, e)
    BY <2>4, PlainOnStack DEF NotHandle
  <2> HIDE DEF junk, x, e
  <2>6. IsASequence(Single(x)) /\ Len(Single(x)) = 1 /\ Single(x)[1] = x
    BY Short
  <2>7. junk = Single(x)
    BY <2>1, <2>2, <2>3, <2>6, SameSequence
  <2>8. T = With(f, n, Single(x))
    BY <1>1, <2>2, <2>7
  <2>9. Straight(i) = Compute(n, Single(e))
    BY <1>1 DEF e
  <2> HIDE DEF T
  <2> QED BY <1>1, <2>5, <2>8, <2>9, ComputedFew
<1>2. ASSUME i.mn = "putstatic" PROVE Stepped(w, T, Straight(i))
  <2>1. EffectOn(i, m) = Effects(Single(Wide(i.field.type)), Empty)
    BY <1>2, ShortEffects
  <2>2. 1 <= Len(f.stack)
    BY <2>1, OperandWidth
  <2>3. T = With(f, 1, Empty) /\ Straight(i) = Compute(1, Empty)
    BY <1>2, <2>2, PureShapes, StraightIs DEF Empty
  <2> HIDE DEF T
  <2> QED BY <2>2, <2>3, Bottom, ComputedFew
<1>3. ASSUME i.mn = "multianewarray" PROVE Stepped(w, T, Straight(i))
  <2> DEFINE in == [k \in 1..i.dims |-> Slim]
  <2>1. EffectOn(i, m) = Effects(in, Single(Slim))
    BY <1>3, ShortEffects
  <2>2. IsASequence(in) /\ Len(in) = i.dims
    <3>1. in \in Seq({Slim}) /\ Len(in) = i.dims
      BY <1>3
    <3> QED BY <3>1, AnySequence
  <2> HIDE DEF in
  <2>3. Len(in) <= Len(f.stack)
    BY <2>1, <2>2, AfterReplaced
  <2>4. i.dims \in Nat /\ i.dims <= Len(f.stack)
    BY <1>3, <2>2, <2>3
  <2>5. ClassifyOp(i) = Other(i.dims, Single(Slim))
    BY <1>3, Classified DEF Single, Slim
  <2>6. Straight(i) = Compute(i.dims, Single(Fresh(Junk, Slim)))
    BY <1>3, StraightIs, UnknownReference
  <2> QED BY <1>1, <2>4, <2>5, <2>6
<1>4. ASSUME i.mn = "ldc2_w", ~i.long PROVE Stepped(w, T, Straight(i))
  <2>1. ClassifyOp(i) = Other(0, Single(Fat))
    BY <1>4, Classified DEF Constant, Single, Fat
  <2>2. Straight(i) = Compute(0, Single(Fresh(Junk, Fat)))
    <3>1. (IF i.long /\ i.value = 0 THEN 0 ELSE Junk) = Junk
      BY <1>4
    <3> QED BY <1>4, <3>1, StraightIs
  <2>3. 0 \in Nat /\ 0 <= Len(f.stack)
    BY Bottom
  <2> QED BY <1>1, <2>1, <2>2, <2>3
<1> QED BY <1>2, <1>3, <1>4

\* invokedynamic puts its result where it took its argument.
LEMMA DynamicStep ==
  ASSUME Good(run), NEW w, NEW f, Rel(run, w, f), Framed(f), NEW i, i.mn = "invokedynamic",
         i.captured = <<i.captured[1]>>, ~Wide(i.captured[1]), NEW m, Fits(f.stack, m), Finds(i, m), NEW at,
         CapturesUnknown(f, i)
  PROVE  Stepped(w, Transfer(f, ClassifyOp(i), at), Straight(i))
<1> DEFINE T == Transfer(f, ClassifyOp(i), at)
           e == Fresh(Junk, Slim)
           x == f.stack[Len(f.stack) - 1 + 1]
<1>1. T = f /\ EffectOn(i, m) = Effects(Single(Slim), Single(Slim))
  BY DynamicKept
<1>2. 1 <= Len(f.stack) /\ x.wide = Slim
  BY <1>1, OperandWidth
<1>3. x.val = NotHandle
  BY <1>2, TopRelated DEF CapturesUnknown
<1>4. Straight(i) = Compute(1, Single(e))
  <2>1. PICK d : d = i.captured[1]
    OBVIOUS
  <2>2. i.captured = <<d>>
    BY <2>1
  <2>3. Len(i.captured) = 1
    BY <2>2, Few
  <2> QED BY <2>3, StraightIs, UnknownReference
<1>5. OnStack(run, w, x, e)
  <2>1. x.val \in Unfollowed /\ Junk \in {0, Junk, NonZero}
    BY <1>3 DEF Unfollowed
  <2> QED BY <1>2, <2>1, UnfollowedOnStack
<1> HIDE DEF e
<1>6. f = With(f, 1, Single(x))
  <2>1. IsASequence(f.stack) /\ Len(f.stack) \in Nat /\ 1 \in Nat
    BY Bottom DEF Framed
  <2> HIDE DEF x
  <2>2. IsASequence(Single(x)) /\ Len(Single(x)) = 1 /\ Single(x)[1] = x
    BY Short
  <2>3. SwappedPair(Replace(f.stack, 1, Single(x)), f.stack, Len(f.stack) - 1, Single(x))
    BY <1>2, <2>1, <2>2, ReplacedAt
  <2> DEFINE t == Replace(f.stack, 1, Single(x))
  <2>4. IsASequence(t)
    BY <1>2, <2>1, <2>2, Replaced
  <2> HIDE DEF t
  <2>5. Len(t) = Len(f.stack)
    BY <2>1, <2>2, <2>3 DEF SwappedPair, t
  <2>6. ASSUME NEW k \in 1..Len(t) PROVE t[k] = f.stack[k]
    <3>1. CASE k <= Len(f.stack) - 1
      BY <2>1, <2>3, <3>1 DEF SwappedPair, t
    <3>2. CASE k = Len(f.stack) - 1 + 1
      BY <2>1, <2>2, <2>3, <3>2 DEF SwappedPair, t, x
    <3> QED BY <2>1, <2>5, <3>1, <3>2
  <2>7. t = f.stack
    BY <2>1, <2>4, <2>5, <2>6, SameSequence
  <2> QED BY <2>7 DEF With, Framed, t
<1> HIDE DEF T, x
<1>7. Stepped(w, With(f, 1, Single(x)), Compute(1, Single(e)))
  BY <1>2, <1>5, Bottom, ComputedFew
<1> QED BY <1>1, <1>4, <1>6, <1>7 DEF T

\* The shuffles move entries about on both stacks.
LEMMA ShuffleStep ==
  ASSUME Good(run), NEW w, NEW f, Rel(run, w, f), Framed(f), NEW i, i.mn \in {"dup", "dup2", "pop", "pop2", "swap"},
         NEW m, Fits(f.stack, m), Finds(i, m), NEW at
  PROVE  Stepped(w, Transfer(f, ClassifyOp(i), at), Straight(i))
<1> DEFINE T == Transfer(f, ClassifyOp(i), at)
           t(k) == f.stack[Len(f.stack) - k + 1]
<1>1. \A n \in {1, 2} : n <= Len(f.stack) => OnStack(run, w, t(n), FromTop(n))
  BY TopRelated
<1>2. \A n \in {1, 2} : n <= Len(f.stack) => t(n).wide = FromTop(n).wide
  BY <1>1 DEF OnStack
<1>3. ASSUME i.mn \in {"dup", "pop"} PROVE Stepped(w, T, Straight(i))
  <2>1. \E out : EffectOn(i, m) = Effects(Single(Slim), out)
    BY <1>3, ShortEffects
  <2>2. 1 <= Len(f.stack)
    BY <2>1, OperandWidth
  <2>3. i.mn = "dup" => T = With(f, 0, Single(t(1))) /\ Straight(i) = Compute(0, Single(FromTop(1)))
    BY <2>2, ShuffleShapes, StraightIs DEF Single
  <2>4. i.mn = "pop" => T = With(f, 1, Empty) /\ Straight(i) = Compute(1, Empty)
    BY <2>2, ShuffleShapes, StraightIs DEF Empty
  <2>5. OnStack(run, w, t(1), FromTop(1))
    BY <1>1, <2>2
  <2>6. /\ Stepped(w, With(f, 0, Single(t(1))), Compute(0, Single(FromTop(1))))
        /\ Stepped(w, With(f, 1, Empty), Compute(1, Empty))
    BY <2>2, <2>5, Bottom, ComputedFew
  <2> HIDE DEF T
  <2> QED BY <1>3, <2>3, <2>4, <2>6
<1>4. ASSUME i.mn = "swap" PROVE Stepped(w, T, Straight(i))
  <2>1. EffectOn(i, m) = Effects(Double(Slim, Slim), Double(Slim, Slim))
    BY <1>4, ShortEffects
  <2>2. 2 <= Len(f.stack)
    BY <2>1, OperandWidths
  <2>3. T = With(f, 2, Double(t(1), t(2))) /\ Straight(i) = Compute(2, Double(FromTop(1), FromTop(2)))
    BY <1>4, <2>2, ShuffleShapes, StraightIs DEF Double
  <2>4. OnStack(run, w, t(1), FromTop(1)) /\ OnStack(run, w, t(2), FromTop(2))
    BY <1>1, <2>2, Bottom
  <2>5. Stepped(w, With(f, 2, Double(t(1), t(2))), Compute(2, Double(FromTop(1), FromTop(2))))
    BY <2>2, <2>4, Bottom, ComputedFew
  <2> HIDE DEF T
  <2> QED BY <2>3, <2>5
<1>5. ASSUME i.mn \in {"dup2", "pop2"} PROVE Stepped(w, T, Straight(i))
  <2>1. \E out : EffectOn(i, m) = Effects(PairOn(m), out)
    BY <1>5, ShortEffects
  <2>2. PairOn(m) = Single(Fat) \/ PairOn(m) = Double(Slim, Slim)
    BY DEF PairOn
  <2>3. CASE PairOn(m) = Single(Fat)
    <3>0. \E out : EffectOn(i, m) = Effects(Single(Fat), out)
      BY <2>1, <2>3
    <3>1. 1 <= Len(f.stack) /\ t(1).wide = Fat
      BY <3>0, OperandWidth
    <3>2. FromTop(1).wide
      BY <1>2, <3>1 DEF Fat
    <3>3. Duplicate = Single(FromTop(1)) /\ Len(Single(FromTop(1))) = 1
      BY <3>2, Short DEF Duplicate, Single
    <3>4. i.mn = "dup2" => T = With(f, 0, Single(t(1))) /\ Straight(i) = Compute(0, Single(FromTop(1)))
      BY <3>1, <3>3, ShuffleShapes, StraightIs DEF Single, Fat
    <3>5. i.mn = "pop2" => T = With(f, 1, Empty) /\ Straight(i) = Compute(1, Empty)
      BY <3>1, <3>3, ShuffleShapes, StraightIs DEF Empty, Fat
    <3>6. OnStack(run, w, t(1), FromTop(1))
      BY <1>1, <3>1
    <3>7. /\ Stepped(w, With(f, 0, Single(t(1))), Compute(0, Single(FromTop(1))))
          /\ Stepped(w, With(f, 1, Empty), Compute(1, Empty))
      BY <3>1, <3>6, Bottom, ComputedFew
    <3> HIDE DEF T
    <3> QED BY <1>5, <3>4, <3>5, <3>7
  <2>4. CASE PairOn(m) = Double(Slim, Slim)
    <3>0. \E out : EffectOn(i, m) = Effects(Double(Slim, Slim), out)
      BY <2>1, <2>4
    <3>1. 2 <= Len(f.stack) /\ 1 <= Len(f.stack) /\ t(1).wide = Slim
      BY <3>0, OperandWidths, Bottom
    <3>2. ~FromTop(1).wide
      BY <1>2, <3>1 DEF Slim
    <3>3. Duplicate = Double(FromTop(2), FromTop(1)) /\ Len(Double(FromTop(2), FromTop(1))) = 2
      BY <3>2, Short DEF Duplicate, Double
    <3>4. i.mn = "dup2" => /\ T = With(f, 0, Double(t(2), t(1)))
                           /\ Straight(i) = Compute(0, Double(FromTop(2), FromTop(1)))
      BY <3>1, <3>3, ShuffleShapes, StraightIs DEF Double, Slim
    <3>5. i.mn = "pop2" => T = With(f, 2, Empty) /\ Straight(i) = Compute(2, Empty)
      BY <3>1, <3>3, ShuffleShapes, StraightIs DEF Empty, Slim
    <3>6. OnStack(run, w, t(1), FromTop(1)) /\ OnStack(run, w, t(2), FromTop(2))
      BY <1>1, <3>1
    <3>7. /\ Stepped(w, With(f, 0, Double(t(2), t(1))), Compute(0, Double(FromTop(2), FromTop(1))))
          /\ Stepped(w, With(f, 2, Empty), Compute(2, Empty))
      BY <3>1, <3>6, Bottom, ComputedFew
    <3> HIDE DEF T
    <3> QED BY <1>5, <3>4, <3>5, <3>7
  <2> QED BY <2>2, <2>3, <2>4
<1> QED BY <1>3, <1>4, <1>5

-----------------------------------------------------------------------------
(* Stores.                                                                 *)

\* What a store of a local does to the execution.
StoredHere(n) == [s \in Slots |-> IF s = n THEN FromTop(1).v ELSE run.locals[s]]

\* An owned handle is on top; the local it leaves, unless it had left before;
\* and the locals moved out of after the store.
OwnedOnTop    == IsObject(FromTop(1).v) /\ run.objects[FromTop(1).v].kind = "Owned"
LeftBehind    == IF OwnedOnTop /\ ~FromTop(1).moved THEN LeavesLocal(FromTop(1)) ELSE {}
MovedHere(n)  == ((run.moved \cup LeftBehind) \ {n}) \cup (IF FromTop(1).moved THEN {n} ELSE {})

\* The parts of an execution after a step.
Parts(q, pc, stack, locals, fields, held, objects, gone, moved) ==
  q = [pc |-> pc, stack |-> stack, locals |-> locals, fields |-> fields, held |-> held,
       objects |-> objects, gone |-> gone, moved |-> moved]

\* What they are.
LEMMA PartsFacts ==
  ASSUME NEW q, NEW pc, NEW stack, NEW locals, NEW fields, NEW held, NEW objects, NEW gone, NEW moved,
         Parts(q, pc, stack, locals, fields, held, objects, gone, moved)
  PROVE  /\ q.pc = pc /\ q.stack = stack /\ q.locals = locals /\ q.fields = fields
         /\ q.held = held /\ q.objects = objects /\ q.gone = gone /\ q.moved = moved
         /\ q = [pc |-> q.pc, stack |-> q.stack, locals |-> q.locals, fields |-> q.fields, held |-> q.held,
                 objects |-> q.objects, gone |-> q.gone, moved |-> q.moved]
BY DEF Parts

\* An execution is its parts.
LEMMA OfParts ==
  ASSUME NEW q, Good(q)
  PROVE  Parts(q, q.pc, q.stack, q.locals, q.fields, q.held, q.objects, q.gone, q.moved)
BY DEF Good, Parts

\* The execution after a store of a local.
LEMMA StoreLocalFacts ==
  ASSUME Good(run), 1 <= Len(run.stack), NEW n \in Slots
  PROVE  LET q == StoreLocal(n)
         IN  /\ Good(q) /\ q.pc = run.pc + 1 /\ q.stack = Replace(run.stack, 1, Empty)
             /\ q.locals = StoredHere(n) /\ q.moved = MovedHere(n)
             /\ q.fields = run.fields /\ q.held = run.held /\ q.objects = run.objects /\ q.gone = run.gone
<1> DEFINE c == Compute(1, Empty)
           q == StoreLocal(n)
<1>1. 1 \in Nat /\ IsASequence(Empty)
  BY Short
<1>2. Good(c) /\ c.stack = Replace(run.stack, 1, Empty) /\ SameData(run, c) /\ c.pc = run.pc + 1
  BY <1>1, ComputeFacts
<1>3. q = [c EXCEPT !.locals[n] = FromTop(1).v,
                    !.moved = ((@ \cup LeftBehind) \ {n}) \cup (IF FromTop(1).moved THEN {n} ELSE {})]
  BY DEF StoreLocal, LeftBehind, OwnedOnTop, Empty
<1> HIDE DEF c, q
<1>4. /\ c = [pc |-> c.pc, stack |-> c.stack, locals |-> c.locals, fields |-> c.fields, held |-> c.held,
              objects |-> c.objects, gone |-> c.gone, moved |-> c.moved]
      /\ c.locals = [s \in Slots |-> c.locals[s]] /\ c.locals = run.locals /\ c.moved = run.moved
  BY <1>2 DEF Good, SameData
<1>5. Parts(q, c.pc, c.stack, [c.locals EXCEPT ![n] = FromTop(1).v], c.fields, c.held, c.objects, c.gone,
            ((c.moved \cup LeftBehind) \ {n}) \cup (IF FromTop(1).moved THEN {n} ELSE {}))
  <2>1. PICK v : v = FromTop(1).v
    OBVIOUS
  <2>2. PICK M : M = ((c.moved \cup LeftBehind) \ {n}) \cup (IF FromTop(1).moved THEN {n} ELSE {})
    OBVIOUS
  <2>3. q = [c EXCEPT !.locals[n] = v, !.moved = M]
    BY <1>3, <2>1, <2>2
  <2>4. Parts(q, c.pc, c.stack, [c.locals EXCEPT ![n] = v], c.fields, c.held, c.objects, c.gone, M)
    BY <1>4, <2>3 DEF Parts
  <2> QED BY <2>1, <2>2, <2>4
<1>6. [c.locals EXCEPT ![n] = FromTop(1).v] = StoredHere(n)
  BY <1>4 DEF StoredHere
<1>7. Parts(q, c.pc, c.stack, StoredHere(n), c.fields, c.held, c.objects, c.gone, MovedHere(n))
  BY <1>4, <1>5, <1>6 DEF MovedHere
<1>8. /\ q.pc = c.pc /\ q.stack = c.stack /\ q.locals = StoredHere(n) /\ q.fields = c.fields
      /\ q.held = c.held /\ q.objects = c.objects /\ q.gone = c.gone /\ q.moved = MovedHere(n)
      /\ q = [pc |-> q.pc, stack |-> q.stack, locals |-> q.locals, fields |-> q.fields, held |-> q.held,
              objects |-> q.objects, gone |-> q.gone, moved |-> q.moved]
  BY <1>7, PartsFacts
<1>9. StoredHere(n) = [s \in Slots |-> StoredHere(n)[s]]
  BY DEF StoredHere
<1>10. Good(q)
  BY <1>2, <1>8, <1>9 DEF Good
<1> QED BY <1>2, <1>8, <1>10 DEF SameData, q

\* What a reference is stored from.
LEMMA StoreEffects ==
  ASSUME NEW i, i.mn \in {"lstore", "astore"}, NEW s, NEW m, Fits(s, m), Finds(i, m)
  PROVE  1 <= Len(s) /\ (i.mn = "astore" => s[Len(s) - 1 + 1].wide = Slim)
<1>1. i.mn \notin Special
  BY PlainNotSpecial
<1>2. Balance(i.mn, 1, 0, Narrow)
  BY Balances
<1>3. Takes(i, m, 1)
  BY <1>1, <1>2, TableEffect
<1>4. PICK in : EffectOn(i, m) = Effects(in, WidthsOf(SignatureOf(i.mn).out)) /\ IsASequence(in) /\ Len(in) = 1
  BY <1>3 DEF Takes
<1>5. Len(in) <= Len(s)
  BY <1>4, AfterReplaced
<1>6. ASSUME i.mn = "astore" PROVE s[Len(s) - 1 + 1].wide = Slim
  <2> DEFINE sig == SignatureOf(i.mn)
  <2>1. sig = Sig("astore", <<"A">>, <<>>)
    BY <1>6, SMTT(60) DEF SignatureOf, IntToInt, TwoInts, TwoLongs, LongAndInt, TwoFloats,
       TwoDoubles, CompareFloats,
       CompareDoubles, IntElement, SetIntElement, NewArray, IntConstants, LongConstants, FloatConstants,
       DoubleConstants, SomeReference, TakeInt, TakeTwoInts, TakeReference, TakeTwoReferences
  <2> HIDE DEF sig
  <2>2. sig.in = <<"A">>
    BY <2>1 DEF Sig
  <2>3. PICK t : t = <<"A">>
    OBVIOUS
  <2>4. IsASequence(t) /\ Len(t) = 1 /\ t[1] = "A"
    BY <2>3, Few
  <2>5. Wide(t[1]) = Slim
    BY <2>4 DEF Wide, Slim
  <2>6. IsASequence(WidthsOf(t)) /\ Len(WidthsOf(t)) = 1 /\ WidthsOf(t)[1] = Slim
    BY <2>4, <2>5, WidthsSame
  <2>7. IsASequence(Single(Slim)) /\ Len(Single(Slim)) = 1 /\ Single(Slim)[1] = Slim
    BY Short
  <2>8. WidthsOf(t) = Single(Slim)
    BY <2>6, <2>7, SameSequence
  <2>9. EffectOn(i, m) = Effects(WidthsOf(sig.in), WidthsOf(sig.out))
    BY <1>1, PlainEffect DEF sig
  <2>10. EffectOn(i, m) = Effects(Single(Slim), WidthsOf(sig.out))
    BY <2>2, <2>3, <2>8, <2>9
  <2> QED BY <2>10, OperandWidth
<1> QED BY <1>4, <1>5, <1>6

\* What is known of a value that is not known by the local is still true.
LEMMA KnownAcross ==
  ASSUME NEW r, NEW q, NEW n, NEW w, q.fields = r.fields, q.held = r.held, q.objects = r.objects,
         \A s \in Slots \ {n} : q.locals[s] = r.locals[s],
         NEW a, NEW v, Known(r, w, a, v), a.id # LocalId(n)
  PROVE  Known(q, w, a, v)
<1>1. Says(q, a, v)
  BY DEF Known, Says
<1>2. Identified(q, w, a, v)
  BY DEF Known, Identified
<1> QED BY <1>1, <1>2 DEF Known

\* Two stacks that lose n operands and gain related entries.
Matched(q, w, s, t) == Len(s) = Len(t) /\ \A k \in 1..Len(s) : OnStack(q, w, s[k], t[k])

\* Replacing the top of two stacks that match below by what matches.
LEMMA StackAcross ==
  ASSUME NEW s, NEW t, IsASequence(s), IsASequence(t), Len(s) = Len(t), NEW n \in Nat, n <= Len(s),
         NEW push, NEW vals, IsASequence(push), IsASequence(vals), NEW q, NEW w, Matched(q, w, push, vals),
         \A k \in 1..(Len(s) - n) : OnStack(q, w, s[k], t[k])
  PROVE  Matched(q, w, Replace(s, n, push), Replace(t, n, vals))
<1> DEFINE g == Replace(s, n, push)
           h == Replace(t, n, vals)
           m == Len(s) - n
<1>1. Len(s) \in Nat /\ Len(push) \in Nat
  BY SequenceFacts
<1>2. SwappedPair(g, s, m, push)
  BY ReplacedAt
<1>3. SwappedPair(h, t, m, vals)
  <2>1. n <= Len(t)
    OBVIOUS
  <2>2. SwappedPair(Replace(t, n, vals), t, Len(t) - n, vals)
    BY <2>1, ReplacedAt
  <2> QED BY <2>2
<1>4. m \in Nat
  BY <1>1
<1> HIDE DEF g, h, m
<1>5. Len(g) = Len(h) /\ Len(g) = m + Len(push)
  BY <1>2, <1>3 DEF SwappedPair, Matched
<1>6. ASSUME NEW k \in 1..Len(g) PROVE OnStack(q, w, g[k], h[k])
  <2>1. CASE k <= m
    <3>1. k \in 1..m
      BY <1>4, <2>1
    <3>2. OnStack(q, w, s[k], t[k])
      BY <3>1 DEF m
    <3> QED BY <1>2, <1>3, <3>1, <3>2 DEF SwappedPair
  <2>2. CASE k > m
    <3>1. k - m \in 1..Len(push) /\ k = m + (k - m) /\ Len(push) = Len(vals)
      BY <1>1, <1>4, <1>5, <2>2 DEF Matched
    <3>2. g[k] = push[k - m] /\ h[k] = vals[k - m]
      BY <1>2, <1>3, <3>1 DEF SwappedPair
    <3> QED BY <3>1, <3>2 DEF Matched
  <2> QED BY <1>1, <1>4, <1>5, <2>1, <2>2
<1> QED BY <1>5, <1>6 DEF Matched, g, h

\* Nothing matches nothing.
LEMMA NothingMatched == ASSUME NEW q, NEW w PROVE Matched(q, w, Empty, Empty) /\ IsASequence(Empty)
BY Short DEF Matched

\* A store changes a local, and what may be moved out of another one.
LEMMA StoreStep ==
  ASSUME Good(run), NEW w, NEW f, Rel(run, w, f), Framed(f), NEW i, i.mn \in {"lstore", "astore"}, i.n \in Slots,
         NEW m, Fits(f.stack, m), Finds(i, m), NEW at, AssignsUnused(f, ClassifyOp(i))
  PROVE  Stepped(w, Transfer(f, ClassifyOp(i), at), Straight(i))
<1> DEFINE n == i.n
           q == StoreLocal(n)
           T == Transfer(f, ClassifyOp(i), at)
           x == f.stack[Len(f.stack) - 1 + 1]
           e == FromTop(1)
           a == Peek(f, 1)
<1>1. 1 <= Len(f.stack) /\ (i.mn = "astore" => x.wide = Slim)
  BY StoreEffects
<1>2. OnStack(run, w, x, e) /\ a = x.val
  BY <1>1, TopRelated
<1>3. Len(f.stack) = Len(run.stack) /\ Len(f.stack) \in Nat /\ 1 \in Nat
  BY Bottom DEF Rel
<1>4. /\ Good(q) /\ q.pc = run.pc + 1 /\ q.stack = Replace(run.stack, 1, Empty)
      /\ q.locals = StoredHere(n) /\ q.moved = MovedHere(n)
      /\ q.fields = run.fields /\ q.held = run.held /\ q.objects = run.objects /\ q.gone = run.gone
  BY <1>1, <1>3, StoreLocalFacts
<1>5. /\ \A k \in 1..(Len(f.stack) - 1) : f.stack[k].val.id # LocalId(n)
      /\ \A s \in Slots \ {n} : f.locals[s].id # LocalId(n)
  <2>1. ClassifyOp(i).name \in {"StoreLong", "StoreRef"} /\ ClassifyOp(i).n = n
    BY Classified
  <2> QED BY <2>1 DEF AssignsUnused, Others
<1>6. PICK L : /\ Made(T, Replace(f.stack, 1, Empty), L, f.fields)
               /\ i.mn = "lstore" => L = StoredLong(f, n)
               /\ i.mn = "astore" => L = StoredRef(f, n)
  <2>1. i.mn = "lstore" => Made(T, Replace(f.stack, 1, Empty), StoredLong(f, n), f.fields)
    BY <1>1, StoreLongShape DEF Empty
  <2>2. i.mn = "astore" => Made(T, Replace(f.stack, 1, Empty), StoredRef(f, n), f.fields)
    BY <1>1, StoreRefShape DEF Empty
  <2> QED BY <2>1, <2>2
<1>7. T.stack = Replace(f.stack, 1, Empty) /\ T.locals = L /\ T.fields = f.fields
  BY <1>6 DEF Made
<1>8. Straight(i) = q
  BY StraightIs
<1> HIDE DEF T, q, x, e, a
<1>9. q.locals[n] = e.v /\ \A s \in Slots \ {n} : q.locals[s] = run.locals[s]
  BY <1>4 DEF StoredHere, e
<1>10. (e.moved => n \in q.moved) /\ \A s \in Slots \ {n} : s \in run.moved \/ s \in LeftBehind => s \in q.moved
  BY <1>4 DEF MovedHere, e
<1>11. \A b, v : Known(run, w, b, v) /\ b.id # LocalId(n) => Known(q, w, b, v)
  BY <1>4, <1>9, KnownAcross
\* The stack below.
<1>12. Matched(q, w, T.stack, q.stack)
  <2>1. ASSUME NEW k \in 1..(Len(f.stack) - 1) PROVE OnStack(q, w, f.stack[k], run.stack[k])
    <3>1. OnStack(run, w, f.stack[k], run.stack[k]) /\ f.stack[k].val.id # LocalId(n)
      BY <1>3, <1>5 DEF Rel
    <3>2. Known(q, w, f.stack[k].val, run.stack[k].v)
      BY <1>11, <3>1 DEF OnStack
    <3>3. \A s \in Slots : f.stack[k].val.id = LocalId(s) =>
             run.stack[k].src = s /\ (run.stack[k].moved => s \in q.moved)
      BY <1>10, <3>1 DEF OnStack
    <3> QED BY <1>4, <3>1, <3>2, <3>3 DEF OnStack
  <2>2. Matched(q, w, Empty, Empty) /\ IsASequence(Empty)
    BY NothingMatched
  <2>3. IsASequence(f.stack) /\ IsASequence(run.stack)
    BY DEF Framed, Good
  <2>4. Matched(q, w, Replace(f.stack, 1, Empty), Replace(run.stack, 1, Empty))
    BY <1>1, <1>3, <2>1, <2>2, <2>3, StackAcross
  <2> QED BY <1>4, <1>7, <2>4
\* The local that is assigned.
<1>13. InLocal(q, w, L[n], n)
  <2>1. Known(run, w, a, e.v)
    BY <1>2 DEF OnStack
  <2>2. a.state = "Moved" => e.v = 0 \/ e.v \in run.gone \/ e.moved
    BY <1>2 DEF OnStack
  <2>3. CASE IsHandle(a)
    <3>1. i.mn = "lstore"
      BY <1>1, <1>2, <2>3 DEF OnStack, Slim
    <3> DEFINE c == L[n]
    <3>2. c = [a EXCEPT !.id = LocalId(n)]
      BY <1>6, <2>3, <3>1 DEF StoredLong, Reid, a
    <3>3. c.tag = a.tag /\ c.ptr = a.ptr /\ c.state = a.state /\ c.from = a.from /\ c.id = LocalId(n)
      <4>1. \A b : Known(run, w, b, e.v) /\ IsHandle(b) => TRUE
        OBVIOUS
      <4> QED BY <3>2, <2>1, <2>3 DEF Known, IsHandle
    <3> HIDE DEF c
    <3>4. Identified(q, w, c, e.v)
      BY <1>9, <3>3, IdsDiffer DEF Identified
    <3>5. Says(q, c, e.v)
      BY <1>4, <2>1, <3>3 DEF Known, Says
    <3>6. Known(q, w, c, q.locals[n])
      BY <1>4, <1>9, <2>1, <2>3, <3>3, <3>4, <3>5 DEF Known, IsHandle
    <3>7. c.state = "Moved" => q.locals[n] = 0 \/ q.locals[n] \in q.gone \/ n \in q.moved
      BY <1>4, <1>9, <1>10, <2>2, <3>3
    <3> QED BY <3>6, <3>7 DEF InLocal, c
  <2>4. CASE ~IsHandle(a)
    <3>1. L[n] = a
      BY <1>6, <2>4 DEF StoredLong, StoredRef, Reid, a
    <3>2. a.id = NoId /\ a.state = "none"
      BY <2>1, <2>4 DEF Known
    <3>3. Known(q, w, a, e.v)
      BY <1>11, <2>1, <3>2, IdsDiffer
    <3> QED BY <1>9, <3>1, <3>2, <3>3 DEF InLocal
  <2> QED BY <2>3, <2>4
\* The other locals.
<1>14. ASSUME NEW s \in Slots \ {n} PROVE InLocal(q, w, L[s], s)
  <2> DEFINE b == f.locals[s]
  <2>1. InLocal(run, w, b, s) /\ b.id # LocalId(n)
    BY <1>5, <1>14 DEF Rel
  <2>2. Known(q, w, b, q.locals[s])
    BY <1>9, <1>11, <2>1 DEF InLocal
  <2>3. InLocal(q, w, b, s)
    BY <1>4, <1>9, <1>10, <2>1, <2>2 DEF InLocal
  <2>4. CASE i.mn = "lstore" /\ s \in Source(f, n)
    <3>1. LiveOwned(a) /\ a.id = LocalId(s)
      <4>1. LiveOwned(a) /\ s \in LocalOf(a)
        BY <2>4 DEF Source, a
      <4>2. a.id[1] = "local" /\ s = a.id[2]
        BY <4>1 DEF LocalOf
      <4>3. a.id \in Ids
        BY <1>2 DEF OnStack, Known, Identified
      <4> QED BY <4>1, <4>2, <4>3 DEF Ids, LocalId, FieldId, FreshId, NoId
    <3>2. e.src = s /\ e.v = run.locals[s] /\ (e.moved => s \in run.moved)
      BY <1>2, <3>1 DEF OnStack, Known, Identified
    <3>3. e.v = 0 \/ OwnedOnTop
      BY <1>2, <3>1 DEF OnStack, Known, Says, LiveOwned, IsHandle, OwnedOnTop, IsObject, e
    <3>4. ASSUME e.v # 0 PROVE s \in q.moved
      <4>1. CASE e.moved
        BY <1>10, <3>2, <4>1
      <4>2. CASE ~e.moved
        <5>1. LeftBehind = LeavesLocal(e)
          BY <3>3, <3>4, <4>2 DEF LeftBehind, e
        <5>2. e.src # NoSlot
          BY <3>2, NamesAssumption DEF NoSlot
        <5>3. s \in LeavesLocal(e)
          BY <3>2, <5>2 DEF LeavesLocal
        <5> QED BY <1>10, <5>1, <5>3
      <4> QED BY <4>1, <4>2
    <3>5. L[s] = Moved(b)
      BY <1>6, <2>4 DEF StoredLong
    <3>6. q.locals[s] = 0 \/ s \in q.moved
      BY <1>9, <3>2, <3>4
    <3> HIDE DEF b
    <3>7. CASE IsHandle(b)
      <4> DEFINE c == Moved(b)
      <4>1. c = [b EXCEPT !.state = "Moved"]
        BY <3>7 DEF Moved
      <4>2. c.tag = b.tag /\ c.ptr = b.ptr /\ c.from = b.from /\ c.id = b.id
        BY <4>1
      <4> HIDE DEF c
      <4>3. Known(q, w, c, q.locals[s])
        BY <2>2, <3>7, <4>2 DEF Known, IsHandle, Says, Identified
      <4> QED BY <3>5, <3>6, <4>3 DEF InLocal, c
    <3>8. CASE ~IsHandle(b)
      BY <2>3, <3>5, <3>8 DEF Moved
    <3> QED BY <3>7, <3>8
  <2>5. CASE ~(i.mn = "lstore" /\ s \in Source(f, n))
    <3>1. L[s] = b
      BY <1>6, <2>5 DEF StoredLong, StoredRef
    <3> QED BY <2>3, <3>1
  <2> QED BY <2>4, <2>5
<1>15. \A y \in Fields : InField(q, T.fields[y], y)
  BY <1>4, <1>7 DEF Rel, InField
<1>16. \A s \in Slots : InLocal(q, w, T.locals[s], s)
  BY <1>7, <1>13, <1>14
<1>17. Rel(q, w, T)
  BY <1>12, <1>15, <1>16 DEF Rel, Matched
<1> QED BY <1>4, <1>8, <1>17 DEF Stepped, T

\* What a store of a field of `this` does to the execution.
FieldsHere(x) == [y \in Fields |-> IF y = x THEN FromTop(1).v ELSE run.fields[y]]

\* and to what it has held.
HeldHere(x)   == [y \in Fields |-> IF y = x THEN run.held[y] \cup {FromTop(1).v} ELSE run.held[y]]

\* The execution after a store of a field.
LEMMA StoreFieldFacts ==
  ASSUME Good(run), 2 <= Len(run.stack), NEW x \in Fields, OfThis(2, x)
  PROVE  LET q == StoreField(x)
         IN  /\ Good(q) /\ q.pc = run.pc + 1 /\ q.stack = Replace(run.stack, 2, Empty)
             /\ q.fields = FieldsHere(x) /\ q.held = HeldHere(x)
             /\ q.locals = run.locals /\ q.moved = run.moved /\ q.objects = run.objects /\ q.gone = run.gone
<1> DEFINE c == Compute(2, Empty)
           q == StoreField(x)
<1>1. 2 \in Nat /\ IsASequence(Empty)
  BY Short
<1>2. Good(c) /\ c.stack = Replace(run.stack, 2, Empty) /\ SameData(run, c) /\ c.pc = run.pc + 1
  BY <1>1, ComputeFacts
<1>3. q = [c EXCEPT !.fields[x] = FromTop(1).v, !.held[x] = @ \cup {FromTop(1).v}]
  BY DEF StoreField, Empty
<1> HIDE DEF c, q
<1>4. /\ c = [pc |-> c.pc, stack |-> c.stack, locals |-> c.locals, fields |-> c.fields, held |-> c.held,
              objects |-> c.objects, gone |-> c.gone, moved |-> c.moved]
      /\ c.fields = [s \in Fields |-> c.fields[s]] /\ c.fields = run.fields
      /\ c.held = [s \in Fields |-> c.held[s]] /\ c.held = run.held
  BY <1>2 DEF Good, SameData
<1>5. Parts(q, c.pc, c.stack, c.locals, FieldsHere(x), HeldHere(x), c.objects, c.gone, c.moved)
  <2>1. PICK v : v = FromTop(1).v
    OBVIOUS
  <2>2. q = [c EXCEPT !.fields[x] = v, !.held[x] = @ \cup {v}]
    BY <1>3, <2>1
  <2>3. Parts(q, c.pc, c.stack, c.locals, [c.fields EXCEPT ![x] = v], [c.held EXCEPT ![x] = @ \cup {v}],
              c.objects, c.gone, c.moved)
    BY <1>4, <2>2 DEF Parts
  <2>4. [c.fields EXCEPT ![x] = v] = FieldsHere(x)
    BY <1>4, <2>1 DEF FieldsHere
  <2>5. [c.held EXCEPT ![x] = @ \cup {v}] = HeldHere(x)
    BY <1>4, <2>1 DEF HeldHere
  <2> QED BY <2>3, <2>4, <2>5
<1>6. /\ q.pc = c.pc /\ q.stack = c.stack /\ q.locals = c.locals /\ q.fields = FieldsHere(x)
      /\ q.held = HeldHere(x) /\ q.objects = c.objects /\ q.gone = c.gone /\ q.moved = c.moved
      /\ q = [pc |-> q.pc, stack |-> q.stack, locals |-> q.locals, fields |-> q.fields, held |-> q.held,
              objects |-> q.objects, gone |-> q.gone, moved |-> q.moved]
  BY <1>5, PartsFacts
<1>7. FieldsHere(x) = [s \in Fields |-> FieldsHere(x)[s]] /\ HeldHere(x) = [s \in Fields |-> HeldHere(x)[s]]
  BY DEF FieldsHere, HeldHere
<1>8. Good(q)
  BY <1>2, <1>6, <1>7 DEF Good
<1> QED BY <1>2, <1>6, <1>8 DEF SameData, q

\* A store of a field keeps the relation: whatever else is known by the field,
\* or compared with it, was excluded.
LEMMA PutFieldStep ==
  ASSUME Good(run), NEW w, NEW f, Rel(run, w, f), Framed(f), NEW i, i.mn = "putfield", NEW m, Fits(f.stack, m),
         Finds(i, m), NEW at, UsesField(f, ClassifyOp(i))
  PROVE  Stepped(w, Transfer(f, ClassifyOp(i), at), Straight(i))
<1> DEFINE x == i.field.name
           q == StoreField(x)
           T == Transfer(f, ClassifyOp(i), at)
<1>1. 2 <= Len(f.stack)
  <2>1. EffectOn(i, m) = Effects(Double(Slim, Wide(i.field.type)), Empty)
    BY ShortEffects
  <2> QED BY <2>1, OperandWidths
<1>2. Len(f.stack) = Len(run.stack) /\ Len(f.stack) \in Nat /\ 1 \in Nat /\ 2 \in Nat /\ 1 <= Len(f.stack)
  BY <1>1, Bottom DEF Rel
<1>3. Known(run, w, Peek(f, 1), FromTop(1).v) /\ Known(run, w, Peek(f, 2), FromTop(2).v)
  BY <1>1, <1>2, TopRelated
<1>4. Made(T, Replace(f.stack, 2, Empty), f.locals, StoredField(f, x))
  BY <1>1, PutShape DEF Empty
<1>5. Straight(i) = q
  BY StraightIs
<1>6. x \in Fields => /\ Peek(f, 2).tag # "Top"
                      /\ \A v \in Others(f, 2, {}) : v.id # FieldId(x) /\ ~(v.tag = "CmpFieldZero" /\ v.from = x)
  <2>1. ClassifyOp(i).name = "PutField" /\ ClassifyOp(i).field = x
    BY Classified DEF Member
  <2> QED BY <2>1 DEF UsesField
<1>7. x \in Fields => (Peek(f, 2).tag = "This" <=> FromTop(2).v = Receiver)
  BY <1>3, <1>6, ThisKnown
<1> HIDE DEF T
<1>8. CASE ~(x \in Fields /\ FromTop(2).v = Receiver)
  <2>1. StoredField(f, x) = f.fields
    BY <1>7, <1>8 DEF StoredField
  <2>2. T = With(f, 2, Empty)
    BY <1>4, <2>1 DEF Made, With
  <2>3. q = Compute(2, Empty)
    BY <1>8 DEF StoreField, OfThis, Empty
  <2>4. Stepped(w, With(f, 2, Empty), Compute(2, Empty))
    BY <1>1, <1>2, ComputedFew
  <2> QED BY <1>5, <2>2, <2>3, <2>4 DEF T
<1>9. CASE x \in Fields /\ FromTop(2).v = Receiver
  <2> DEFINE a == Peek(f, 1)
             v == FromTop(1).v
  <2>1. OfThis(2, x)
    BY <1>9 DEF OfThis
  <2>2. /\ Good(q) /\ q.pc = run.pc + 1 /\ q.stack = Replace(run.stack, 2, Empty)
        /\ q.fields = FieldsHere(x) /\ q.held = HeldHere(x)
        /\ q.locals = run.locals /\ q.moved = run.moved /\ q.objects = run.objects /\ q.gone = run.gone
    BY <1>1, <1>2, <1>9, <2>1, StoreFieldFacts
  <2>3. T.stack = Replace(f.stack, 2, Empty) /\ T.locals = f.locals
        /\ T.fields = [y \in Fields |-> IF y = x THEN StateOf(a) ELSE f.fields[y]]
    BY <1>4, <1>7, <1>9 DEF Made, StoredField
  <2> HIDE DEF q
  <2>4. /\ q.fields[x] = v /\ v \in q.held[x]
        /\ \A y \in Fields \ {x} : q.fields[y] = run.fields[y] /\ q.held[y] = run.held[y]
        /\ \A y \in Fields : run.held[y] \subseteq q.held[y]
    BY <1>9, <2>2 DEF FieldsHere, HeldHere
  <2>5. ASSUME NEW b, NEW u, Known(run, w, b, u), b.id # FieldId(x), ~(b.tag = "CmpFieldZero" /\ b.from = x)
        PROVE  Known(q, w, b, u)
    <3>1. Says(q, b, u)
      BY <2>2, <2>4, <2>5 DEF Known, Says
    <3>2. Identified(q, w, b, u)
      BY <2>2, <2>4, <2>5 DEF Known, Identified
    <3> QED BY <2>4, <2>5, <3>1, <3>2 DEF Known
  <2>6. /\ \A k \in 1..(Len(f.stack) - 2) : f.stack[k].val \in Others(f, 2, {})
        /\ \A s \in Slots : f.locals[s] \in Others(f, 2, {})
    BY DEF Others
  <2>7. Matched(q, w, T.stack, q.stack)
    <3>1. ASSUME NEW k \in 1..(Len(f.stack) - 2) PROVE OnStack(q, w, f.stack[k], run.stack[k])
      <4>1. OnStack(run, w, f.stack[k], run.stack[k])
        BY <1>2 DEF Rel
      <4>2. Known(q, w, f.stack[k].val, run.stack[k].v)
        BY <1>6, <1>9, <2>5, <2>6, <4>1 DEF OnStack
      <4> QED BY <2>2, <4>1, <4>2 DEF OnStack
    <3>2. Matched(q, w, Empty, Empty) /\ IsASequence(Empty)
      BY NothingMatched
    <3>3. IsASequence(f.stack) /\ IsASequence(run.stack)
      BY DEF Framed, Good
    <3>4. Matched(q, w, Replace(f.stack, 2, Empty), Replace(run.stack, 2, Empty))
      BY <1>1, <1>2, <3>1, <3>2, <3>3, StackAcross
    <3> QED BY <2>2, <2>3, <3>4
  <2>8. ASSUME NEW s \in Slots PROVE InLocal(q, w, T.locals[s], s)
    <3>1. InLocal(run, w, f.locals[s], s)
      BY DEF Rel
    <3>2. Known(q, w, f.locals[s], q.locals[s])
      BY <1>6, <1>9, <2>2, <2>5, <2>6, <3>1 DEF InLocal
    <3> QED BY <2>2, <2>3, <3>1, <3>2 DEF InLocal
  <2>9. ASSUME NEW y \in Fields PROVE InField(q, T.fields[y], y)
    <3>1. CASE y = x
      <4>1. StateOf(a) = "Null" => a.tag = "Zero"
        BY DEF StateOf
      <4>2. a.tag = "Zero" => v = 0
        BY <1>3 DEF Known, Says
      <4> QED BY <2>3, <2>4, <3>1, <4>1, <4>2 DEF InField
    <3>2. CASE y # x
      BY <2>3, <2>4, <3>2 DEF Rel, InField
    <3> QED BY <3>1, <3>2
  <2>10. Rel(q, w, T)
    BY <2>7, <2>8, <2>9 DEF Rel, Matched
  <2> QED BY <1>5, <2>2, <2>10 DEF Stepped, q, T
<1> QED BY <1>8, <1>9

-----------------------------------------------------------------------------
(* Calls.                                                                  *)

\* An instruction that neither jumps, calls nor leaves keeps the relation.
LEMMA StraightStep ==
  ASSUME Good(run), NEW w, NEW f, Rel(run, w, f), Framed(f), NEW i, Accepted(i),
         i.mn \notin Branches \cup Switches \cup Invokes \cup Leaves \cup {"goto", "athrow"},
         NEW m, Fits(f.stack, m), Finds(i, m), Followed(i, ClassifyOp(i), f), \A x \in Fields : FieldKept(x), NEW at
  PROVE  Stepped(w, Transfer(f, ClassifyOp(i), at), Straight(i))
<1>1. /\ LoadsReference(f, ClassifyOp(i)) /\ AssignsUnused(f, ClassifyOp(i)) /\ UsesField(f, ClassifyOp(i))
      /\ ComparesField(f, ClassifyOp(i)) /\ CapturesUnknown(f, i)
  BY DEF Followed
<1>2. /\ i.mn \in {"lload", "lstore", "aload", "astore"} => i.n \in Slots
      /\ i.mn = "getfield" /\ i.field.name \in Fields => i.field.type = "J"
      /\ i.mn = "multianewarray" => i.dims \in Nat
      /\ i.mn = "invokedynamic" => i.captured = <<i.captured[1]>> /\ ~Wide(i.captured[1])
  BY DEF Accepted
<1>3. CASE i.mn \in PlainOnes
  BY <1>3, PlainStep
<1>4. CASE i.mn \in {"lconst_0", "lload", "aload", "getstatic"} \/ (i.mn = "ldc2_w" /\ i.long)
  BY <1>1, <1>2, <1>4, LoadStep
<1>5. CASE i.mn = "getfield"
  BY <1>1, <1>2, <1>5, GetFieldStep
<1>6. CASE i.mn = "lcmp"
  BY <1>1, <1>6, CompareStep
<1>7. CASE i.mn \in {"putstatic", "multianewarray"} \/ (i.mn = "ldc2_w" /\ ~i.long)
  BY <1>2, <1>7, ForgetStep
<1>8. CASE i.mn = "invokedynamic"
  BY <1>1, <1>2, <1>8, DynamicStep
<1>9. CASE i.mn \in {"dup", "dup2", "pop", "pop2", "swap"}
  BY <1>9, ShuffleStep
<1>10. CASE i.mn \in {"lstore", "astore"}
  BY <1>1, <1>2, <1>10, StoreStep
<1>11. CASE i.mn = "putfield"
  BY <1>1, <1>11, PutFieldStep
<1>12. i.mn \in PlainOnes \cup Special \cup {"lconst_0", "lcmp", "lload", "lstore", "aload", "astore"}
  BY Kinds DEF Branches
<1> QED BY <1>3, <1>4, <1>5, <1>6, <1>7, <1>8, <1>9, <1>10, <1>11, <1>12 DEF Special

\* More objects, more that is gone and moved; nothing else.
Grown(r, q) ==
  /\ q.locals = r.locals /\ q.fields = r.fields /\ q.held = r.held
  /\ r.gone \subseteq q.gone /\ r.moved \subseteq q.moved
  /\ \A v \in DOMAIN r.objects : v \in DOMAIN q.objects /\ q.objects[v] = r.objects[v]

\* The call at an offset is made anew: what its last result was is forgotten.
SameBut(w, w2, at) == \A t \in DOMAIN w : t # at => t \in DOMAIN w2 /\ w2[t] = w[t]

\* What was known is still, but for the last result of this call.
LEMMA GrownKeeps ==
  ASSUME NEW r, NEW q, Grown(r, q), NEW w, NEW w2, NEW at, SameBut(w, w2, at)
  PROVE  /\ \A a, v : Known(r, w, a, v) /\ a.id # FreshId(at) => Known(q, w2, a, v)
         /\ \A a, e : OnStack(r, w, a, e) /\ a.val.id # FreshId(at) => OnStack(q, w2, a, e)
         /\ \A a, s : InLocal(r, w, a, s) /\ a.id # FreshId(at) => InLocal(q, w2, a, s)
         /\ \A a, x : InField(r, a, x) => InField(q, a, x)
<1>1. ASSUME NEW a, NEW v, Known(r, w, a, v), a.id # FreshId(at) PROVE Known(q, w2, a, v)
  <2>1. Says(q, a, v)
    BY <1>1 DEF Known, Says, Grown
  <2>2. Identified(q, w2, a, v)
    <3>1. a.id \in Ids
      BY <1>1 DEF Known, Identified
    <3>2. \A n \in Slots : a.id = LocalId(n) => v = q.locals[n]
      BY <1>1 DEF Known, Identified, Grown
    <3>3. \A x \in Fields : a.id = FieldId(x) => v = q.fields[x]
      BY <1>1 DEF Known, Identified, Grown
    <3>4. \A t \in Nat : a.id = FreshId(t) => t \in DOMAIN w2 /\ v = w2[t]
      BY <1>1 DEF Known, Identified, SameBut
    <3> QED BY <3>1, <3>2, <3>3, <3>4 DEF Identified
  <2> QED BY <1>1, <2>1, <2>2 DEF Known, Grown
<1>2. \A a, e : OnStack(r, w, a, e) /\ a.val.id # FreshId(at) => OnStack(q, w2, a, e)
  BY <1>1 DEF OnStack, Grown
<1>3. \A a, s : InLocal(r, w, a, s) /\ a.id # FreshId(at) => InLocal(q, w2, a, s)
  BY <1>1 DEF InLocal, Grown
<1>4. \A a, x : InField(r, a, x) => InField(q, a, x)
  BY DEF InField, Grown
<1> QED BY <1>1, <1>2, <1>3, <1>4

\* The arguments a callee takes ownership of, and the locals they leave.
Surrendered(c) == {ActualOf(c, k) : k \in {j \in DOMAIN c.types : ParamPtr(c, j).kind = "Owned"}}

\* and the locals these are moved out of.
Lost(c)   == UNION {LeavesLocal(e) : e \in Surrendered(c)}

\* The execution after the effect of a callee.
LEMMA EffectFacts ==
  ASSUME Good(run), NEW c
  PROVE  LET q == Effect(c)
         IN  /\ Good(q) /\ Grown(run, q) /\ q.pc = run.pc /\ q.stack = run.stack /\ q.objects = run.objects
             /\ Lost(c) \subseteq q.moved
<1> DEFINE q == Effect(c)
           G == {e.v : e \in Surrendered(c)} \cap DOMAIN run.objects
<1>1. PICK r : r = run
  OBVIOUS
<1>2. q = [r EXCEPT !.gone = @ \cup G, !.moved = @ \cup Lost(c)]
  BY <1>1 DEF Effect, Surrendered, Lost
<1>3. /\ r = [pc |-> r.pc, stack |-> r.stack, locals |-> r.locals, fields |-> r.fields, held |-> r.held,
              objects |-> r.objects, gone |-> r.gone, moved |-> r.moved]
      /\ IsASequence(r.stack) /\ IsASequence(r.objects)
      /\ r.locals = [x \in Slots |-> r.locals[x]]
      /\ r.fields = [x \in Fields |-> r.fields[x]] /\ r.held = [x \in Fields |-> r.held[x]]
  BY <1>1 DEF Good
<1> HIDE DEF q, G
<1>4. Parts(q, r.pc, r.stack, r.locals, r.fields, r.held, r.objects, r.gone \cup G, r.moved \cup Lost(c))
  BY <1>2, <1>3 DEF Parts
<1>5. /\ q.pc = r.pc /\ q.stack = r.stack /\ q.locals = r.locals /\ q.fields = r.fields
      /\ q.held = r.held /\ q.objects = r.objects /\ q.gone = r.gone \cup G /\ q.moved = r.moved \cup Lost(c)
      /\ q = [pc |-> q.pc, stack |-> q.stack, locals |-> q.locals, fields |-> q.fields, held |-> q.held,
              objects |-> q.objects, gone |-> q.gone, moved |-> q.moved]
  BY <1>4, PartsFacts
<1>6. Good(q)
  BY <1>3, <1>5 DEF Good
<1>7. Grown(run, q)
  BY <1>1, <1>5 DEF Grown
<1> QED BY <1>1, <1>5, <1>6, <1>7 DEF q

\* An argument, as the analysis sees it and as it is.
LEMMA ArgumentKnown ==
  ASSUME NEW w, NEW f, Rel(run, w, f), Framed(f), NEW i, i.mn \in Invokes, i.method \in DOMAIN Callees,
         Operands(ClassifyOp(i)) <= Len(f.stack), NEW k \in DOMAIN Callees[i.method].types
  PROVE  LET e == ActualOf(Callees[i.method], k)
             a == Arg(f, ClassifyOp(i), k)
         IN  \E x : x.val = a /\ OnStack(run, w, x, e)
<1> DEFINE op == ClassifyOp(i)
           c == Callees[i.method]
           j == Len(f.stack) - Len(c.types) + k
<1>1. /\ Len(op.args) = Len(c.types) /\ IsASequence(c.types)
      /\ Operands(op) = Len(c.types) + (IF i.mn = "invokestatic" THEN 0 ELSE 1)
  BY CallFacts
<1>2. Len(f.stack) \in Nat /\ Len(f.stack) = Len(run.stack) /\ DOMAIN f.stack = 1..Len(f.stack)
  BY SequenceFacts DEF Framed, Rel
<1>3. Len(c.types) \in Nat /\ k \in 1..Len(c.types)
  BY <1>1, SequenceFacts
<1> HIDE DEF op, c
<1>4. Len(c.types) <= Len(f.stack)
  <2>1. Operands(op) <= Len(f.stack)
    BY DEF op
  <2>2. CASE i.mn = "invokestatic"
    <3>1. Operands(op) = Len(c.types) + 0
      BY <1>1, <2>2
    <3> QED BY <1>3, <2>1, <3>1
  <2>3. CASE i.mn # "invokestatic"
    <3>1. Operands(op) = Len(c.types) + 1
      BY <1>1, <2>3
    <3> QED BY <1>2, <1>3, <2>1, <3>1
  <2> QED BY <2>2, <2>3
<1>5. j \in DOMAIN f.stack /\ ~(Len(f.stack) - Len(c.types) < 0)
  <2>1. PICK l \in Nat : l = Len(c.types)
    BY <1>3
  <2>2. PICK h \in Nat : h = Len(f.stack)
    BY <1>2
  <2>3. k \in 1..l /\ l <= h
    BY <1>3, <1>4, <2>1, <2>2
  <2>4. h - l + k \in 1..h /\ ~(h - l < 0)
    BY <2>3
  <2> QED BY <1>2, <2>1, <2>2, <2>4
<1>6. Arg(f, op, k) = f.stack[j].val
  BY <1>1, <1>5 DEF Arg
<1>7. OnStack(run, w, f.stack[j], ActualOf(c, k))
  BY <1>2, <1>5 DEF Rel, ActualOf, Depth
<1> QED BY <1>6, <1>7 DEF op, c

\* The locals the analysis marks are moved out of.
LEMMA MarkedLost ==
  ASSUME NEW w, NEW f, Rel(run, w, f), Framed(f), NEW i, i.mn \in Invokes, i.method \in DOMAIN Callees,
         Operands(ClassifyOp(i)) <= Len(f.stack), NEW s \in Slots, s \in Consumed(f, ClassifyOp(i))
  PROVE  s \in Lost(Callees[i.method])
<1> DEFINE op == ClassifyOp(i)
           c == Callees[i.method]
<1>1. op.target = i.method
  BY CallFacts
<1> HIDE DEF op
<1>2. PICK k \in DOMAIN Params(op) : Params(op)[k].kind = "Owned" /\ s \in LocalOf(Arg(f, op, k))
  BY DEF Consumed, op
<1>3. k \in DOMAIN c.types /\ ParamPtr(c, k).kind = "Owned"
  <2>1. CASE c.loaded
    <3>1. Params(op) = [j \in DOMAIN c.types |-> ToHandle(c.types[j], c.params[j])]
      BY <1>1, <2>1 DEF Params, HasContract, FlowParams
    <3> QED BY <1>2, <3>1 DEF ToHandle, ParamPtr
  <2>2. CASE ~c.loaded
    <3>1. Params(op) = <<>>
      BY <1>1, <2>2 DEF Params, HasContract
    <3> QED BY <1>2, <3>1
  <2> QED BY <2>1, <2>2
<1> HIDE DEF c
<1>4. PICK x : x.val = Arg(f, op, k) /\ OnStack(run, w, x, ActualOf(c, k))
  BY <1>3, ArgumentKnown DEF op, c
<1>5. x.val.id = LocalId(s)
  <2>1. x.val.id[1] = "local" /\ s = x.val.id[2]
    BY <1>2, <1>4 DEF LocalOf
  <2>2. x.val.id \in Ids
    BY <1>4 DEF OnStack, Known, Identified
  <2> QED BY <2>1, <2>2 DEF Ids, LocalId, FieldId, FreshId, NoId
<1>6. ActualOf(c, k).src = s /\ ActualOf(c, k).v = run.locals[s] /\ s # NoSlot
  BY <1>4, <1>5, NamesAssumption DEF OnStack, Known, Identified, NoSlot
<1>7. s \in LeavesLocal(ActualOf(c, k))
  BY <1>6 DEF LeavesLocal
<1> QED BY <1>3, <1>7 DEF Lost, Surrendered, c

\* What CallReturns makes of the execution.
ReturnOf(i, q) ==
  LET c == Callee(i)
      receiver == IF i.mn = "invokestatic" THEN 0 ELSE 1
      after == [Effect(c) EXCEPT !.pc = @ + 1,
                                 !.stack = SubSeq(@, 1, Depth - Len(c.types) - receiver)]
      new == Len(run.objects) + 1
  IN  IF c.result = "J" /\ c.ret # NoPtr
      THEN q = [after EXCEPT !.objects = Append(@, c.ret), !.stack = Append(@, Fresh(new, TRUE))]
      ELSE q = IF c.result = "V" THEN after ELSE [after EXCEPT !.stack = @ \o Unknown(<<c.result>>)]

\* The execution after a call that pushed vals, with these objects.
Came(q, n, vals, objs) ==
  Good(q) /\ Grown(run, q) /\ q.pc = run.pc + 1 /\ q.stack = Replace(run.stack, n, vals) /\ q.objects = objs

\* A result of which nothing is known.
LEMMA UnknownOne == ASSUME NEW t PROVE Unknown(<<t>>) = Single(Fresh(Junk, Wide(t)))
<1>1. PICK s : s = <<t>>
  OBVIOUS
<1>2. IsASequence(s) /\ Len(s) = 1 /\ s[1] = t
  BY <1>1, Few
<1> DEFINE e == Fresh(Junk, Wide(t))
<1>3. Unknown(s)[1] = e
  BY <1>2, UnknownFacts
<1>4. IsASequence(Unknown(s)) /\ Len(Unknown(s)) = 1
  BY <1>2, UnknownFacts
<1> HIDE DEF e
<1>5. IsASequence(Single(e)) /\ Len(Single(e)) = 1 /\ Single(e)[1] = e
  BY Short
<1>6. Unknown(s) = Single(e)
  BY <1>3, <1>4, <1>5, SameSequence
<1> QED BY <1>1, <1>6 DEF e

\* A call returns a new object, nothing, or a value that is none.
LEMMA ReturnFacts ==
  ASSUME Good(run), NEW i, i.mn \in Invokes, i.method \in DOMAIN Callees,
         Operands(ClassifyOp(i)) <= Len(run.stack), NEW q, ReturnOf(i, q)
  PROVE  LET c == Callees[i.method]
             n == Operands(ClassifyOp(i))
             new == Len(run.objects) + 1
         IN  /\ Lost(c) \subseteq q.moved
             /\ \/ /\ c.result = "J" /\ c.ret # NoPtr
                   /\ Came(q, n, Single(Fresh(new, Fat)), Append(run.objects, c.ret))
                \/ c.result = "V" /\ Came(q, n, Empty, run.objects)
                \/ /\ c.result # "V" /\ (c.result # "J" \/ c.ret = NoPtr)
                   /\ Came(q, n, Single(Fresh(Junk, Wide(c.result))), run.objects)
<1> DEFINE c == Callees[i.method]
           n == Operands(ClassifyOp(i))
           a == Effect(c)
           receiver == IF i.mn = "invokestatic" THEN 0 ELSE 1
           after == [a EXCEPT !.pc = @ + 1, !.stack = SubSeq(@, 1, Depth - Len(c.types) - receiver)]
           s == SubSeq(run.stack, 1, Len(run.stack) - n)
           new == Len(run.objects) + 1
<1>1. /\ Good(a) /\ Grown(run, a) /\ a.pc = run.pc /\ a.stack = run.stack /\ a.objects = run.objects
      /\ Lost(c) \subseteq a.moved
  BY EffectFacts
<1>2. n = Len(c.types) + receiver /\ n \in Nat /\ Len(c.types) \in Nat
  BY CallFacts, SequenceFacts
<1>3. IsASequence(run.stack) /\ Len(run.stack) \in Nat /\ n <= Len(run.stack) /\ IsASequence(run.objects)
      /\ Len(run.objects) \in Nat
  BY SequenceFacts DEF Good
<1>4. Depth - Len(c.types) - receiver = Len(run.stack) - n
  <2>1. receiver \in Nat
    OBVIOUS
  <2> HIDE DEF receiver
  <2> QED BY <1>2, <1>3, <2>1 DEF Depth
<1>5. \/ /\ c.result = "J" /\ c.ret # NoPtr
         /\ q = [after EXCEPT !.objects = Append(@, c.ret), !.stack = Append(@, Fresh(new, TRUE))]
      \/ c.result = "V" /\ q = after
      \/ /\ c.result # "V" /\ (c.result # "J" \/ c.ret = NoPtr)
         /\ q = [after EXCEPT !.stack = @ \o Unknown(<<c.result>>)]
  BY DEF ReturnOf, Callee
<1> HIDE DEF a
<1>6. after = [a EXCEPT !.pc = @ + 1, !.stack = s]
  BY <1>1, <1>4
<1> HIDE DEF after, s, n, receiver, c
<1>7. Parts(after, a.pc + 1, s, a.locals, a.fields, a.held, a.objects, a.gone, a.moved)
  BY <1>1, <1>6 DEF Good, Parts
\* An execution made of these parts.
<1>8. ASSUME NEW stack, NEW objs, IsASequence(stack), IsASequence(objs),
             \A v \in DOMAIN run.objects : v \in DOMAIN objs /\ objs[v] = run.objects[v],
             Parts(q, a.pc + 1, stack, a.locals, a.fields, a.held, objs, a.gone, a.moved)
      PROVE  /\ Good(q) /\ Grown(run, q) /\ q.pc = run.pc + 1 /\ q.stack = stack /\ q.objects = objs
             /\ Lost(c) \subseteq q.moved
  <2>1. /\ q.pc = a.pc + 1 /\ q.stack = stack /\ q.locals = a.locals /\ q.fields = a.fields
        /\ q.held = a.held /\ q.objects = objs /\ q.gone = a.gone /\ q.moved = a.moved
        /\ q = [pc |-> q.pc, stack |-> q.stack, locals |-> q.locals, fields |-> q.fields, held |-> q.held,
                objects |-> q.objects, gone |-> q.gone, moved |-> q.moved]
    BY <1>8, PartsFacts
  <2>2. Good(q)
    BY <1>1, <1>8, <2>1 DEF Good
  <2>3. Grown(run, q)
    BY <1>1, <1>8, <2>1 DEF Grown
  <2> QED BY <1>1, <2>1, <2>2, <2>3
<1>9. /\ s = Replace(run.stack, n, Empty)
      /\ \A x : Append(s, x) = Replace(run.stack, n, Single(x))
      /\ \A x : s \o Single(x) = Replace(run.stack, n, Single(x))
  <2>1. s = Replace(run.stack, n, Empty)
    BY <1>2, <1>3, Popped DEF Empty, s
  <2>2. \A x : Append(s, x) = Replace(run.stack, n, Single(x))
    BY <1>2, <1>3, PushedOne DEF Single, s
  <2>3. \A x : s \o Single(x) = Replace(run.stack, n, Single(x))
    BY DEF Replace, s
  <2> QED BY <2>1, <2>2, <2>3
<1>10. /\ IsASequence(Replace(run.stack, n, Empty))
       /\ \A x : IsASequence(Replace(run.stack, n, Single(x)))
  BY <1>2, <1>3, Short, Replaced
<1>11. CASE c.result = "J" /\ c.ret # NoPtr
              /\ q = [after EXCEPT !.objects = Append(@, c.ret), !.stack = Append(@, Fresh(new, TRUE))]
  <2> DEFINE stack == Append(s, Fresh(new, Fat))
             objs == Append(run.objects, c.ret)
  <2>1. Parts(q, a.pc + 1, stack, a.locals, a.fields, a.held, objs, a.gone, a.moved)
    <3>1. PICK x : x = Fresh(new, Fat)
      OBVIOUS
    <3>2. PICK r : r = after
      OBVIOUS
    <3>3. r.stack = s /\ r.objects = run.objects
      BY <1>1, <1>7, <3>2 DEF Parts
    <3>4. q = [r EXCEPT !.objects = objs, !.stack = stack]
      <4>1. q = [r EXCEPT !.objects = Append(@, c.ret), !.stack = Append(@, x)]
        BY <1>11, <3>1, <3>2 DEF Fat
      <4> QED BY <3>1, <3>3, <4>1
    <3> HIDE DEF objs, stack
    <3>5. Parts(r, a.pc + 1, s, a.locals, a.fields, a.held, a.objects, a.gone, a.moved)
      BY <1>7, <3>2
    <3> QED BY <3>4, <3>5 DEF Parts
  <2>2. stack = Replace(run.stack, n, Single(Fresh(new, Fat)))
    BY <1>9
  <2>3. IsASequence(objs) /\ \A v \in DOMAIN run.objects : v \in DOMAIN objs /\ objs[v] = run.objects[v]
    <3> DEFINE S == ToSet(run.objects) \cup {c.ret}
    <3>1. run.objects \in Seq(S) /\ c.ret \in S
      BY <1>3, SeqMonotonic DEF IsASequence
    <3> HIDE DEF S
    <3>2. objs \in Seq(S) /\ Len(objs) = Len(run.objects) + 1
      BY <3>1, AppendProperties
    <3>3. \A k \in 1..Len(run.objects) : objs[k] = run.objects[k]
      BY <3>1, AppendProperties
    <3>4. IsASequence(objs)
      BY <3>2, AnySequence
    <3>5. DOMAIN objs = 1..(Len(run.objects) + 1) /\ DOMAIN run.objects = 1..Len(run.objects)
      BY <1>3, <3>2, <3>4, SequenceFacts
    <3> QED BY <1>3, <3>3, <3>4, <3>5
  <2> HIDE DEF objs, stack
  <2>4. /\ Good(q) /\ Grown(run, q) /\ q.pc = run.pc + 1 /\ q.stack = stack /\ q.objects = objs
        /\ Lost(c) \subseteq q.moved
    BY <1>8, <1>10, <2>1, <2>2, <2>3
  <2> QED BY <1>11, <2>2, <2>4 DEF Came, objs, n, c
<1>12. CASE c.result = "V" /\ q = after
  <2>1. Parts(q, a.pc + 1, s, a.locals, a.fields, a.held, run.objects, a.gone, a.moved)
    BY <1>1, <1>7, <1>12
  <2>2. /\ Good(q) /\ Grown(run, q) /\ q.pc = run.pc + 1 /\ q.stack = s /\ q.objects = run.objects
        /\ Lost(c) \subseteq q.moved
    BY <1>3, <1>8, <1>9, <1>10, <2>1
  <2> QED BY <1>9, <1>12, <2>2 DEF Came, n, c
<1>13. CASE c.result # "V" /\ (c.result # "J" \/ c.ret = NoPtr)
              /\ q = [after EXCEPT !.stack = @ \o Unknown(<<c.result>>)]
  <2> DEFINE x == Fresh(Junk, Wide(c.result))
             stack == s \o Single(x)
  <2>1. Parts(q, a.pc + 1, stack, a.locals, a.fields, a.held, run.objects, a.gone, a.moved)
    <3>1. Unknown(<<c.result>>) = Single(x)
      BY UnknownOne
    <3>2. PICK r : r = after
      OBVIOUS
    <3>3. Parts(r, a.pc + 1, s, a.locals, a.fields, a.held, a.objects, a.gone, a.moved)
      BY <1>7, <3>2
    <3>4. r.stack = s /\ r.objects = run.objects
      BY <1>1, <1>7, <3>2 DEF Parts
    <3> HIDE DEF x
    <3>5. q = [r EXCEPT !.stack = stack]
      <4>1. q = [r EXCEPT !.stack = @ \o Single(x)]
        BY <1>13, <3>1, <3>2
      <4> QED BY <3>4, <4>1
    <3> HIDE DEF stack
    <3> QED BY <1>1, <3>3, <3>5 DEF Parts
  <2>2. stack = Replace(run.stack, n, Single(x))
    BY <1>9
  <2> HIDE DEF x, stack
  <2>3. /\ Good(q) /\ Grown(run, q) /\ q.pc = run.pc + 1 /\ q.stack = stack /\ q.objects = run.objects
        /\ Lost(c) \subseteq q.moved
    BY <1>3, <1>8, <1>10, <2>1, <2>2
  <2> QED BY <1>13, <2>2, <2>3 DEF Came, n, c, x
<1> QED BY <1>5, <1>11, <1>12, <1>13

\* The frame and the execution after a call, once what it returns is related.
LEMMA CallRelated ==
  ASSUME Good(run), NEW w, NEW f, Rel(run, w, f), Framed(f), NEW i, i.mn \in Invokes, i.method \in DOMAIN Callees,
         Operands(ClassifyOp(i)) <= Len(f.stack), NEW at, CallsAnew(f, ClassifyOp(i), at),
         NEW q, NEW vals, IsASequence(vals), NEW objs, Came(q, Operands(ClassifyOp(i)), vals, objs),
         Lost(Callees[i.method]) \subseteq q.moved,
         NEW w2, SameBut(w, w2, at),
         NEW push, IsASequence(push), Results(ClassifyOp(i), at) = push, Matched(q, w2, push, vals)
  PROVE  Stepped(w2, Transfer(f, ClassifyOp(i), at), q)
<1> DEFINE op == ClassifyOp(i)
           n == Operands(op)
           T == Transfer(f, op, at)
           L == MovedLocals(f, Consumed(f, op))
<1>1. n \in Nat
  BY CallFacts
<1>2. Made(T, Replace(f.stack, n, Results(op, at)), L, f.fields)
  BY <1>1, InvokeShape
<1>2a. Made(T, Replace(f.stack, n, push), L, f.fields)
  BY <1>2
<1>3. T.stack = Replace(f.stack, n, push) /\ T.locals = L /\ T.fields = f.fields
  BY <1>2a DEF Made
<1>4. /\ \A k \in 1..(Len(f.stack) - n) : f.stack[k].val.id # FreshId(at)
      /\ \A s \in Slots : f.locals[s].id # FreshId(at)
  <2>1. op.name = "Invoke"
    BY CallFacts
  <2>2. \A v \in Others(f, n, {}) : v.id # FreshId(at)
    BY <2>1 DEF CallsAnew
  <2> HIDE DEF n
  <2> QED BY <2>2 DEF Others
<1>5. Good(q) /\ Grown(run, q) /\ q.pc = run.pc + 1 /\ q.stack = Replace(run.stack, n, vals)
  BY DEF Came
<1>6. Len(f.stack) = Len(run.stack) /\ Len(f.stack) \in Nat /\ n <= Len(f.stack)
      /\ IsASequence(f.stack) /\ IsASequence(run.stack)
  BY Bottom DEF Rel, Framed, Good
<1>6a. \A s \in Slots : s \in Consumed(f, op) => s \in q.moved
  BY MarkedLost
<1> HIDE DEF T, n, op
<1>7. Matched(q, w2, T.stack, q.stack)
  <2>1. ASSUME NEW k \in 1..(Len(f.stack) - n) PROVE OnStack(q, w2, f.stack[k], run.stack[k])
    <3>1. OnStack(run, w, f.stack[k], run.stack[k]) /\ f.stack[k].val.id # FreshId(at)
      BY <1>1, <1>4, <1>6 DEF Rel
    <3> QED BY <1>5, <3>1, GrownKeeps
  <2>2. Matched(q, w2, Replace(f.stack, n, push), Replace(run.stack, n, vals))
    BY <1>1, <1>6, <2>1, StackAcross
  <2> QED BY <1>3, <1>5, <2>2
<1>8. ASSUME NEW s \in Slots PROVE InLocal(q, w2, T.locals[s], s)
  <2> DEFINE b == f.locals[s]
  <2>1. InLocal(run, w, b, s) /\ b.id # FreshId(at)
    BY <1>4 DEF Rel
  <2>2. InLocal(q, w2, b, s)
    BY <1>5, <2>1, GrownKeeps
  <2>3. T.locals[s] = IF s \in Consumed(f, op) THEN Moved(b) ELSE b
    BY <1>3 DEF MovedLocals
  <2>4. CASE s \in Consumed(f, op) /\ IsHandle(b)
    <3>1. s \in q.moved
      BY <1>6a, <2>4
    <3> HIDE DEF b
    <3> DEFINE c == Moved(b)
    <3>2. c = [b EXCEPT !.state = "Moved"]
      BY <2>4 DEF Moved
    <3>3. c.tag = b.tag /\ c.ptr = b.ptr /\ c.from = b.from /\ c.id = b.id
      BY <3>2
    <3>4. T.locals[s] = c
      BY <2>3, <2>4
    <3> HIDE DEF c
    <3>5. Known(q, w2, b, q.locals[s])
      BY <2>2 DEF InLocal
    <3>6. Known(q, w2, c, q.locals[s])
      BY <2>4, <3>3, <3>5 DEF Known, IsHandle, Says, Identified
    <3> QED BY <3>1, <3>4, <3>6 DEF InLocal
  <2>5. CASE ~(s \in Consumed(f, op) /\ IsHandle(b))
    BY <2>2, <2>3, <2>5 DEF Moved
  <2> QED BY <2>4, <2>5
<1>9. \A x \in Fields : InField(q, T.fields[x], x)
  BY <1>3, <1>5, GrownKeeps DEF Rel, SameBut
<1>10. Rel(q, w2, T)
  BY <1>7, <1>8, <1>9 DEF Rel, Matched
<1> QED BY <1>5, <1>10 DEF Stepped, T, op

\* One related entry.
LEMMA OneMatched ==
  ASSUME NEW q, NEW w, NEW a, NEW e, OnStack(q, w, a, e)
  PROVE  Matched(q, w, Single(a), Single(e)) /\ IsASequence(Single(a)) /\ IsASequence(Single(e))
<1>1. /\ IsASequence(Single(a)) /\ Len(Single(a)) = 1 /\ Single(a)[1] = a
      /\ IsASequence(Single(e)) /\ Len(Single(e)) = 1 /\ Single(e)[1] = e
  BY Short
<1> QED BY <1>1 DEF Matched

\* A call that returns keeps the relation.
LEMMA CallStep ==
  ASSUME Good(run), NEW w, NEW f, Rel(run, w, f), Framed(f), NEW i, i.mn \in Invokes, i.method \in DOMAIN Callees,
         Operands(ClassifyOp(i)) <= Len(f.stack), NEW at \in Nat, CallsAnew(f, ClassifyOp(i), at),
         NEW q, ReturnOf(i, q)
  PROVE  \E w2 : Stepped(w2, Transfer(f, ClassifyOp(i), at), q)
<1> DEFINE op == ClassifyOp(i)
           c == Callees[i.method]
           n == Operands(op)
           new == Len(run.objects) + 1
<1>1. n <= Len(run.stack)
  BY DEF Rel
<1>2. /\ Lost(c) \subseteq q.moved
      /\ \/ /\ c.result = "J" /\ c.ret # NoPtr
            /\ Came(q, n, Single(Fresh(new, Fat)), Append(run.objects, c.ret))
         \/ c.result = "V" /\ Came(q, n, Empty, run.objects)
         \/ /\ c.result # "V" /\ (c.result # "J" \/ c.ret = NoPtr)
            /\ Came(q, n, Single(Fresh(Junk, Wide(c.result))), run.objects)
  BY <1>1, ReturnFacts
<1>3. /\ op.target = i.method
      /\ c.result = "V" => op.ret = Empty
      /\ c.result # "V" => op.ret = Single(Wide(c.result))
  BY CallFacts
<1>4. SameBut(w, w, at)
  BY DEF SameBut
<1>5. c.result # "V" => Results(op, at) = Single(Item(Result(op, at), Wide(c.result)))
  <2> DEFINE b == Wide(c.result)
  <2>1. IsASequence(Single(b)) /\ Len(Single(b)) = 1 /\ Single(b)[1] = b
    BY Short
  <2>2. Single(b) # <<>>
    BY <2>1, Few
  <2> HIDE DEF op, b
  <2>3. ASSUME c.result # "V" PROVE Results(op, at) = Single(Item(Result(op, at), b))
    <3>1. op.ret = Single(b)
      BY <1>3, <2>3 DEF op, b
    <3>2. Results(op, at) = <<Item(Result(op, at), op.ret[1])>>
      BY <2>2, <3>1 DEF Results
    <3>3. op.ret[1] = b
      BY <2>1, <3>1
    <3> QED BY <3>2, <3>3 DEF Single
  <2> QED BY <2>3 DEF op, b
<1>6. CASE c.result = "V" /\ Came(q, n, Empty, run.objects)
  <2>1. Results(op, at) = Empty
    BY <1>3, <1>6 DEF Results, Empty
  <2>2. Matched(q, w, Empty, Empty) /\ IsASequence(Empty)
    BY NothingMatched
  <2> QED BY <1>2, <1>4, <1>6, <2>1, <2>2, CallRelated
<1>7. CASE c.result # "V" /\ (c.result # "J" \/ c.ret = NoPtr)
              /\ Came(q, n, Single(Fresh(Junk, Wide(c.result))), run.objects)
  <2> DEFINE b == Wide(c.result)
             a == Item(Result(op, at), b)
             e == Fresh(Junk, b)
  <2>1. Ret(op) = NoPtr
    BY <1>3, <1>7 DEF Ret, ToHandle
  <2>2. a.val \in Unfollowed /\ a.wide = b
    BY <2>1 DEF Result, Unfollowed, Item
  <2>3. OnStack(q, w, a, e)
    BY <2>2, UnfollowedOnStack
  <2>4. Results(op, at) = Single(a)
    BY <1>5, <1>7
  <2> HIDE DEF a, e
  <2>5. Matched(q, w, Single(a), Single(e)) /\ IsASequence(Single(a)) /\ IsASequence(Single(e))
    BY <2>3, OneMatched
  <2>6. Came(q, n, Single(e), run.objects)
    BY <1>7 DEF e
  <2> QED BY <1>2, <1>4, <2>4, <2>5, <2>6, CallRelated
<1>8. CASE c.result = "J" /\ c.ret # NoPtr
             /\ Came(q, n, Single(Fresh(new, Fat)), Append(run.objects, c.ret))
  <2> DEFINE h == Handle(c.ret, "Live", FreshId(at), NoField)
             a == Item(h, Fat)
             e == Fresh(new, Fat)
             w2 == [t \in DOMAIN w \cup {at} |-> IF t = at THEN new ELSE w[t]]
  <2>1. Ret(op) = c.ret
    BY <1>3, <1>8, CalleesAssumption DEF Ret, ToHandle
  <2>2. Results(op, at) = Single(a)
    <3>1. Result(op, at) = h
      BY <1>8, <2>1 DEF Result
    <3>2. Wide(c.result) = Fat
      BY <1>8 DEF Wide, Fat
    <3> QED BY <1>5, <1>8, <3>1, <3>2
  <2>3. SameBut(w, w2, at) /\ at \in DOMAIN w2 /\ w2[at] = new
    BY DEF SameBut
  <2>4. /\ h.tag = "Handle" /\ h.ptr = c.ret /\ h.state = "Live" /\ h.id = FreshId(at) /\ h.from = NoField
        /\ a.val = h /\ a.wide = Fat /\ e.v = new /\ e.wide = Fat
    BY DEF Handle, Value, Item, Fresh
  <2>5. q.objects = Append(run.objects, c.ret) /\ IsASequence(run.objects)
    BY <1>8 DEF Came, Good
  <2>6. new \in DOMAIN q.objects /\ q.objects[new] = c.ret
    <3> DEFINE S == ToSet(run.objects) \cup {c.ret}
    <3>1. run.objects \in Seq(S) /\ c.ret \in S /\ Len(run.objects) \in Nat
      BY <2>5, SeqMonotonic, SequenceFacts DEF IsASequence
    <3> HIDE DEF S
    <3>2. q.objects \in Seq(S) /\ Len(q.objects) = Len(run.objects) + 1
          /\ q.objects[Len(run.objects) + 1] = c.ret
      BY <2>5, <3>1, AppendProperties
    <3>3. DOMAIN q.objects = 1..Len(q.objects)
      BY <3>2, LenProperties
    <3> QED BY <3>1, <3>2, <3>3
  <2> HIDE DEF h, a, e, w2, new
  <2>7. Says(q, h, new)
    BY <2>4, <2>6 DEF Says, Tags
  <2>8. Identified(q, w2, h, new)
    BY <2>3, <2>4, IdsDiffer DEF Identified
  <2>9. Known(q, w2, h, new)
    BY <2>4, <2>7, <2>8 DEF Known, IsHandle
  <2>10. OnStack(q, w2, a, e)
    BY <2>4, <2>9, IdsDiffer DEF OnStack, Fat
  <2>11. Matched(q, w2, Single(a), Single(e)) /\ IsASequence(Single(a)) /\ IsASequence(Single(e))
    BY <2>10, OneMatched
  <2>12. Came(q, n, Single(e), Append(run.objects, c.ret))
    BY <1>8 DEF e, new
  <2>13. Stepped(w2, Transfer(f, op, at), q)
    BY <1>2, <2>2, <2>3, <2>11, <2>12, CallRelated
  <2> QED BY <2>13
<1> QED BY <1>2, <1>6, <1>7, <1>8

-----------------------------------------------------------------------------
(* Exceptions and jumps.                                                   *)

\* Control leaves through a handler, with the locals and the fields as they are,
\* or leaves the method.
LEMMA ThrowFacts ==
  ASSUME NEW r, Good(r), NEW q, q = Thrown(r), method \in Methods, run.pc \in DOMAIN StackMap(method)
  PROVE  /\ Good(q) /\ Grown(r, q)
         /\ \/ q.pc = -1
            \/ /\ q.stack = Single(Fresh(Junk, Slim))
               /\ \E e \in Catchers(method, run.pc) : q.pc \in OpcodesAt(method, e.handler)
<1> DEFINE hs == Catchers(method, run.pc)
           e == CHOOSE x \in hs : TRUE
           to == CHOOSE k \in DOMAIN Opcodes : Opcodes[k].at = e.handler
           u == Unknown(<<"A">>)
<1>1. q = IF hs = {} THEN [r EXCEPT !.pc = -1] ELSE [r EXCEPT !.pc = to, !.stack = u]
  BY DEF Thrown, Catchers, Opcode, Opcodes
<1>2. hs # {} => e \in hs /\ to \in OpcodesAt(method, e.handler)
  <2> SUFFICES ASSUME hs # {} PROVE e \in hs /\ to \in OpcodesAt(method, e.handler)
    OBVIOUS
  <2>1. e \in hs
    OBVIOUS
  <2>2. OpcodesAt(method, e.handler) # {}
    <3> HIDE DEF e, hs
    <3>1. \A x \in hs : OpcodesAt(method, x.handler) # {}
      BY VerifiedAt DEF hs
    <3> QED BY <2>1, <3>1
  <2>3. OpcodesAt(method, e.handler) = {k \in DOMAIN Opcodes : Opcodes[k].at = e.handler}
    BY DEF OpcodesAt, Opcodes
  <2> QED BY <2>1, <2>2, <2>3
<1>3. u = Single(Fresh(Junk, Slim))
  BY UnknownReference
<1> HIDE DEF hs, e, to, u
<1>4. IsASequence(u)
  BY <1>3, Short
<1>5. /\ r = [pc |-> r.pc, stack |-> r.stack, locals |-> r.locals, fields |-> r.fields, held |-> r.held,
              objects |-> r.objects, gone |-> r.gone, moved |-> r.moved]
      /\ IsASequence(r.stack) /\ IsASequence(r.objects)
      /\ r.locals = [x \in Slots |-> r.locals[x]]
      /\ r.fields = [x \in Fields |-> r.fields[x]] /\ r.held = [x \in Fields |-> r.held[x]]
  BY DEF Good
<1>6. ASSUME NEW pc, NEW stack, IsASequence(stack),
             Parts(q, pc, stack, r.locals, r.fields, r.held, r.objects, r.gone, r.moved)
      PROVE  Good(q) /\ Grown(r, q) /\ q.pc = pc /\ q.stack = stack
  <2>1. /\ q.pc = pc /\ q.stack = stack /\ q.locals = r.locals /\ q.fields = r.fields
        /\ q.held = r.held /\ q.objects = r.objects /\ q.gone = r.gone /\ q.moved = r.moved
        /\ q = [pc |-> q.pc, stack |-> q.stack, locals |-> q.locals, fields |-> q.fields, held |-> q.held,
                objects |-> q.objects, gone |-> q.gone, moved |-> q.moved]
    BY <1>6, PartsFacts
  <2>2. Good(q)
    BY <1>5, <1>6, <2>1 DEF Good
  <2>3. Grown(r, q)
    BY <2>1 DEF Grown
  <2> QED BY <2>1, <2>2, <2>3
<1>7. CASE hs = {}
  <2>1. q = [r EXCEPT !.pc = -1]
    BY <1>1, <1>7
  <2>2. Parts(q, -1, r.stack, r.locals, r.fields, r.held, r.objects, r.gone, r.moved)
    BY <1>5, <2>1 DEF Parts
  <2> QED BY <1>5, <1>6, <2>2
<1>8. CASE hs # {}
  <2>1. q = [r EXCEPT !.pc = to, !.stack = u]
    BY <1>1, <1>8
  <2>2. Parts(q, to, u, r.locals, r.fields, r.held, r.objects, r.gone, r.moved)
    BY <1>5, <2>1 DEF Parts
  <2>3. Good(q) /\ Grown(r, q) /\ q.pc = to /\ q.stack = u
    BY <1>4, <1>6, <2>2
  <2> QED BY <1>2, <1>3, <1>8, <2>3 DEF hs
<1> QED BY <1>7, <1>8

\* What a handler knows is true of it.
LEMMA HandlerRelated ==
  ASSUME NEW r, NEW w, NEW f, Rel(r, w, f), Framed(f), NEW q, Grown(r, q), q.stack = Single(Fresh(Junk, Slim))
  PROVE  Rel(q, w, HandlerFrame(f))
<1> DEFINE g == HandlerFrame(f)
           a == Item(NotHandle, Slim)
           e == Fresh(Junk, Slim)
<1>1. g.stack = Single(a) /\ g.locals = f.locals /\ g.fields = f.fields
  BY HandlerFacts DEF Single, Slim
<1> HIDE DEF g
<1>2. \A x : x \in Ids => x # FreshId(-1)
  BY DEF Ids, FreshId, LocalId, FieldId, NoId
<1>3. SameBut(w, w, -1)
  BY DEF SameBut
<1>4. ASSUME NEW s \in Slots PROVE InLocal(q, w, g.locals[s], s)
  <2>1. InLocal(r, w, f.locals[s], s)
    BY DEF Rel
  <2>2. f.locals[s].id # FreshId(-1)
    BY <1>2, <2>1 DEF InLocal, Known, Identified
  <2> QED BY <1>1, <1>3, <2>1, <2>2, GrownKeeps
<1>5. ASSUME NEW x \in Fields PROVE InField(q, g.fields[x], x)
  BY <1>1, <1>3, GrownKeeps DEF Rel
<1>6. OnStack(q, w, a, e)
  <2>1. Known(q, w, NotHandle, Junk)
    BY PlainKnown
  <2> QED BY <2>1, PlainOnStack DEF NotHandle
<1> HIDE DEF a, e
<1>7. Matched(q, w, Single(a), Single(e))
  BY <1>6, OneMatched
<1>8. Len(Single(a)) = Len(Single(e)) /\ \A k \in 1..Len(Single(a)) : OnStack(q, w, Single(a)[k], Single(e)[k])
  BY <1>7 DEF Matched
<1> QED BY <1>1, <1>4, <1>5, <1>8 DEF Rel, g, e

\* So an exception leaves the method, or takes the frame to its handler.
LEMMA ThrowStep ==
  ASSUME Good(run), NEW w, NEW f, Rel(run, w, f), Framed(f), method \in Methods, run.pc \in DOMAIN StackMap(method),
         NEW r, Good(r), Grown(run, r), NEW q, q = Thrown(r)
  PROVE  /\ Good(q) /\ Grown(run, q)
         /\ \/ q.pc = -1
            \/ /\ Rel(q, w, HandlerFrame(f))
               /\ \E e \in Catchers(method, run.pc) : q.pc \in OpcodesAt(method, e.handler)
<1>1. /\ Good(q) /\ Grown(r, q)
      /\ \/ q.pc = -1
         \/ /\ q.stack = Single(Fresh(Junk, Slim))
            /\ \E e \in Catchers(method, run.pc) : q.pc \in OpcodesAt(method, e.handler)
  BY ThrowFacts
<1>2. Grown(run, q)
  BY <1>1 DEF Grown
<1> QED BY <1>1, <1>2, HandlerRelated

\* What a jump takes from the stack.
LEMMA JumpShape ==
  ASSUME NEW i, i.mn \in Branches \cup Switches \cup {"goto"}, NEW f, Framed(f), NEW w, Fits(f.stack, w),
         Finds(i, w), NEW at
  PROVE  LET n == Len(SignatureOf(i.mn).in)
         IN  /\ n \in {0, 1, 2} /\ n <= Len(f.stack)
             /\ i.mn \in Branches => n \in {1, 2}
             /\ Transfer(f, ClassifyOp(i), at) = With(f, n, Empty)
<1> DEFINE T == Transfer(f, ClassifyOp(i), at)
           out == WidthsOf(SignatureOf(i.mn).out)
<1>1. PICK n \in {0, 1, 2} : /\ Balance(i.mn, n, 0, Narrow)
                             /\ n <= Len(f.stack) => T = With(f, n, <<>>)
                             /\ i.mn \in Branches => n \in {1, 2}
  <2>1. CASE i.mn \in IfOne \cup Switches
    <3>1. Balance(i.mn, 1, 0, Narrow)
      BY <2>1, Balances
    <3>2. 1 <= Len(f.stack) => T = With(f, 1, <<>>)
      BY <2>1, PureShapes
    <3> QED BY <3>1, <3>2
  <2>2. CASE i.mn \in IfTwo
    <3>1. Balance(i.mn, 2, 0, Narrow)
      BY <2>2, Balances
    <3>2. 2 <= Len(f.stack) => T = With(f, 2, <<>>)
      BY <2>2, PureShapes
    <3> QED BY <3>1, <3>2
  <2>3. CASE i.mn = "goto"
    <3>1. Balance(i.mn, 0, 0, Narrow)
      BY <2>3, Balances
    <3>2. T = With(f, 0, <<>>)
      BY <2>3, PureShapes
    <3>3. i.mn \notin Branches
      BY <2>3 DEF Branches, IfOne, IfTwo
    <3> QED BY <3>1, <3>2, <3>3
  <2> QED BY <2>1, <2>2, <2>3 DEF Branches
<1>2. i.mn \notin Special
  BY PlainNotSpecial DEF Branches
<1>3. Balance(i.mn, n, 0, Narrow)
  BY <1>1
<1>4. Takes(i, w, n)
  BY <1>2, <1>3, TableEffect
<1>5. PICK in : EffectOn(i, w) = Effects(in, out) /\ IsASequence(in) /\ Len(in) = n
  BY <1>4 DEF Takes
<1> HIDE DEF T, out
<1>6. n <= Len(f.stack)
  BY <1>5, AfterReplaced
<1>7. Len(SignatureOf(i.mn).in) = n
  BY <1>3 DEF Balance
<1> QED BY <1>1, <1>6, <1>7 DEF T, Empty

\* Where a distance leads is one instruction.
LEMMA LandingAt ==
  ASSUME method \in Methods, run.pc \in DOMAIN StackMap(method), NEW d \in Distances(Opcode)
  PROVE  /\ Landing(d) \in OpcodesAt(method, Opcode.at + d)
         /\ \A u \in OpcodesAt(method, Opcode.at + d) : u = Landing(d)
<1>1. OpcodesAt(method, Opcode.at + d) # {}
  BY VerifiedAt DEF Opcode, Opcodes
<1>2. OpcodesAt(method, Opcode.at + d) = {k \in DOMAIN Opcodes : Opcodes[k].at = Opcode.at + d}
  BY DEF OpcodesAt, Opcodes
<1>3. Landing(d) \in OpcodesAt(method, Opcode.at + d)
  BY <1>1, <1>2 DEF Landing
<1>4. \A j, k \in DOMAIN method.opcodes : method.opcodes[j].at = method.opcodes[k].at => j = k
  BY VerifiedAssumption DEF Verified
<1> QED BY <1>3, <1>4 DEF OpcodesAt

\* What a branch has learnt is true of the execution that takes it.
Learnt(r, learn) == learn.is = "Null" => r.fields[learn.field] = 0

\* The only element of a sequence of one.
LEMMA OneKnown == ASSUME NEW x PROVE x \in ToSet(<<x>>)
<1>1. PICK s : s = <<x>>
  OBVIOUS
<1>2. IsASequence(s) /\ Len(s) = 1 /\ s[1] = x
  BY <1>1, Few
<1>3. DOMAIN s = {1}
  BY <1>2, SequenceFacts
<1> QED BY <1>1, <1>2, <1>3 DEF ToSet

\* Where a comparison token is 0, its field is 0.
LEMMA ZeroLearnt ==
  ASSUME NEW w, NEW cond, NEW v, Known(run, w, cond, v), v = Junk \/ v = 0
  PROVE  \E x \in ToSet(IfZero(cond)) : Learnt(run, x)
<1>1. CASE cond.tag = "CmpFieldZero"
  <2>1. v = 0 /\ run.fields[cond.from] = 0
    BY <1>1 DEF Known, Says, Junk, NonZero
  <2> DEFINE x == Learn(cond.from, "Null")
  <2>2. x.field = cond.from
    BY DEF Learn
  <2>3. IfZero(cond) = <<x>>
    BY <1>1 DEF IfZero
  <2> HIDE DEF x
  <2> QED BY <2>1, <2>2, <2>3, OneKnown DEF Learnt
<1>2. CASE cond.tag # "CmpFieldZero"
  <2>1. IfZero(cond) = <<NoRefine>>
    BY <1>2 DEF IfZero
  <2>2. NoRefine.is # "Null"
    BY DEF NoRefine
  <2> QED BY <2>1, <2>2, OneKnown DEF Learnt
<1> QED BY <1>1, <1>2

\* Where it is not, nothing is learnt that the execution has to keep.
LEMMA NonZeroLearnt ==
  ASSUME NEW w, NEW cond, NEW v, Known(run, w, cond, v), v = Junk \/ v # 0
  PROVE  \E x \in ToSet(IfNonZero(cond)) : Learnt(run, x)
<1>1. cond.tag # "AssertFlag"
  BY DEF Known, Says, Junk
<1>2. CASE cond.tag = "CmpFieldZero"
  <2> DEFINE x == Learn(cond.from, "Live")
  <2>1. x.is = "Live"
    BY DEF Learn
  <2>2. IfNonZero(cond) = <<x>>
    BY <1>2 DEF IfNonZero
  <2> HIDE DEF x
  <2> QED BY <2>1, <2>2, OneKnown DEF Learnt
<1>3. CASE cond.tag # "CmpFieldZero"
  <2>1. IfNonZero(cond) = <<NoRefine>>
    BY <1>1, <1>3 DEF IfNonZero
  <2>2. NoRefine.is # "Null"
    BY DEF NoRefine
  <2> QED BY <2>1, <2>2, OneKnown DEF Learnt
<1> QED BY <1>2, <1>3

\* What was learnt may be added to the frame.
LEMMA RefinedRelated ==
  ASSUME NEW q, NEW w, NEW f, Rel(q, w, f), Framed(f), NEW learn, Learnt(q, learn)
  PROVE  Rel(q, w, Refined(f, learn))
<1> DEFINE g == Refined(f, learn)
<1>1. /\ g.stack = f.stack /\ g.locals = f.locals
      /\ \A x \in Fields : g.fields[x] = IF x = learn.field THEN learn.is ELSE f.fields[x]
  BY RefinedFacts
<1> HIDE DEF g
<1>2. ASSUME NEW x \in Fields PROVE InField(q, g.fields[x], x)
  BY <1>1 DEF Rel, InField, Learnt
<1> QED BY <1>1, <1>2 DEF Rel, g

\* The edges along which the execution may jump.
LEMMA JumpEdge ==
  ASSUME method \in Methods, run.pc \in DOMAIN StackMap(method), Opcode.mn \in Branches \cup Switches \cup {"goto"},
         NEW w, NEW f, Rel(run, w, f), Framed(f), Fits(f.stack, StackMap(method)[run.pc]), NEW t \in Landings(Opcode)
  PROVE  \E e \in ToSet(NormalSucc(LowerMethod(method), run.pc, f)) : e.to = t /\ Learnt(run, e.learn)
<1> DEFINE i == Opcode
           k == run.pc
           N == ToSet(NormalSucc(LowerMethod(method), k, f))
           cond == Peek(f, 1)
           v == FromTop(1).v
<1>1. /\ k \in DOMAIN method.opcodes /\ i = method.opcodes[k] /\ Accepted(i) /\ Finds(i, StackMap(method)[k])
      /\ \A u \in Successors(method, k) : u \in DOMAIN method.opcodes
  BY VerifiedAt, VerifiedAssumption DEF Opcode, Opcodes, Verified
<1> HIDE DEF N
<1>2. CASE i.mn \notin Branches
  <2>1. i.mn \notin Leaves \cup {"athrow"}
    BY <1>2 DEF Leaves, ValueReturns, Switches
  <2>2. N = {[to |-> u, learn |-> NoRefine] : u \in Successors(method, k) \cap DOMAIN method.opcodes}
    BY <1>1, <1>2, <2>1, Places, StraightSet DEF N
  <2>3. t \in {Landing(d) : d \in Distances(i)}
    <3>1. CASE i.mn = "goto"
      BY <3>1 DEF Landings, Distances, Branches, IfOne, IfTwo, Switches
    <3>2. CASE i.mn \in Switches
      BY <3>2 DEF Landings, Distances, Switches
    <3> QED BY <1>2, <3>1, <3>2
  <2>4. PICK d \in Distances(i) : t = Landing(d)
    BY <2>3
  <2>5. t \in Successors(method, k)
    BY <1>1, <2>4, LandingAt DEF Successors, Targets
  <2>6. [to |-> t, learn |-> NoRefine] \in N
    BY <1>1, <2>2, <2>5
  <2> DEFINE e == [to |-> t, learn |-> NoRefine]
  <2>7. e.to = t /\ e.learn = NoRefine
    OBVIOUS
  <2> HIDE DEF e
  <2>8. NoRefine.is # "Null"
    BY DEF NoRefine
  <2> QED BY <2>6, <2>7, <2>8 DEF Learnt, e, N
<1>3. CASE i.mn \in Branches
  <2> DEFINE P == {k + 1} \cap DOMAIN method.opcodes
             Q == OpcodesAt(method, i.at + i.to)
             A == ToSet(Succ(P, KnownPassed(i.mn, cond)))
             B == ToSet(Succ(Q, KnownTaken(i.mn, cond)))
  <2>1. N = A \cup B
    <3>1. ToSet(NormalSucc(LowerMethod(method), k, f)) =
            ToSet(Succ({k + 1} \cap DOMAIN method.opcodes, KnownPassed(method.opcodes[k].mn, Peek(f, 1))))
              \cup ToSet(Succ(OpcodesAt(method, method.opcodes[k].at + method.opcodes[k].to),
                              KnownTaken(method.opcodes[k].mn, Peek(f, 1))))
      <4> HIDE DEF i, k
      <4>1. Accepted(method.opcodes[k]) /\ method.opcodes[k].mn \in Branches
        BY <1>1, <1>3
      <4> QED BY <1>1, <4>1, BranchSet
    <3>2. PICK o : o = method.opcodes[k]
      OBVIOUS
    <3>3. i = o
      BY <1>1, <3>2
    <3> QED BY <3>1, <3>2, <3>3 DEF N
  <2>2. Distances(i) = {i.to} /\ FallsThrough(i) /\ i.mn # "goto" /\ i.mn \notin Switches
    BY <1>3 DEF Branches, IfOne, IfTwo, Leaves, ValueReturns, Distances, FallsThrough, Switches
  <2>3. k + 1 \in P /\ \A u \in P : u = k + 1
    BY <1>1, <2>2 DEF Successors
  <2>4. Landing(i.to) \in Q /\ \A u \in Q : u = Landing(i.to)
    BY <2>2, LandingAt
  <2>5. Known(run, w, cond, v)
    <3>1. 1 <= Len(f.stack)
      <4>1. Len(SignatureOf(i.mn).in) \in {1, 2} /\ Len(SignatureOf(i.mn).in) <= Len(f.stack)
        BY <1>1, <1>3, JumpShape
      <4>2. Len(f.stack) \in Nat
        BY SequenceFacts DEF Framed
      <4>3. \A n \in {1, 2}, h \in Nat : n <= h => 1 <= h
        OBVIOUS
      <4> QED BY <4>1, <4>2, <4>3
    <3> QED BY <3>1, TopRelated
  <2>6. \/ t = Landing(i.to) /\ (i.mn = "ifeq" => v = Junk \/ v = 0) /\ (i.mn = "ifne" => v = Junk \/ v # 0)
        \/ t = k + 1 /\ (i.mn = "ifeq" => v = Junk \/ v # 0) /\ (i.mn = "ifne" => v = Junk \/ v = 0)
    <3>1. PICK may1 : may1 = (v = Junk \/ (v = 0) = TRUE)
      OBVIOUS
    <3> QED BY <2>2, SMTT(60) DEF Landings
  <2> HIDE DEF P, Q, cond, v
  <2>7. NoRefine \in ToSet(<<NoRefine>>) /\ Learnt(run, NoRefine)
    BY OneKnown DEF NoRefine, Learnt
  <2>8. CASE t = Landing(i.to) /\ (i.mn = "ifeq" => v = Junk \/ v = 0) /\ (i.mn = "ifne" => v = Junk \/ v # 0)
    <3>1. \E x \in ToSet(KnownTaken(i.mn, cond)) : Learnt(run, x)
      <4>1. CASE i.mn = "ifeq"
        BY <2>5, <2>8, <4>1, ZeroLearnt DEF KnownTaken
      <4>2. CASE i.mn = "ifne"
        BY <2>5, <2>8, <4>2, NonZeroLearnt DEF KnownTaken
      <4>3. CASE i.mn \notin {"ifeq", "ifne"}
        BY <2>7, <4>3 DEF KnownTaken
      <4> QED BY <4>1, <4>2, <4>3
    <3>2. PICK x \in ToSet(KnownTaken(i.mn, cond)) : Learnt(run, x)
      BY <3>1
    <3> DEFINE e == [to |-> t, learn |-> x]
    <3>3. e \in B
      BY <2>4, <2>8, SuccSet
    <3>4. e.to = t /\ e.learn = x
      OBVIOUS
    <3> HIDE DEF e, A, B
    <3> QED BY <2>1, <3>2, <3>3, <3>4 DEF N
  <2>9. CASE t = k + 1 /\ (i.mn = "ifeq" => v = Junk \/ v # 0) /\ (i.mn = "ifne" => v = Junk \/ v = 0)
    <3>1. \E x \in ToSet(KnownPassed(i.mn, cond)) : Learnt(run, x)
      <4>1. CASE i.mn = "ifeq"
        BY <2>5, <2>9, <4>1, NonZeroLearnt DEF KnownPassed
      <4>2. CASE i.mn = "ifne"
        BY <2>5, <2>9, <4>2, ZeroLearnt DEF KnownPassed
      <4>3. CASE i.mn \notin {"ifeq", "ifne"}
        BY <2>7, <4>3 DEF KnownPassed
      <4> QED BY <4>1, <4>2, <4>3
    <3>2. PICK x \in ToSet(KnownPassed(i.mn, cond)) : Learnt(run, x)
      BY <3>1
    <3> DEFINE e == [to |-> t, learn |-> x]
    <3>3. e \in A
      BY <2>3, <2>9, SuccSet
    <3>4. e.to = t /\ e.learn = x
      OBVIOUS
    <3> HIDE DEF e, A, B
    <3> QED BY <2>1, <3>2, <3>3, <3>4 DEF N
  <2> QED BY <2>6, <2>8, <2>9
<1> QED BY <1>2, <1>3

\* The execution went along one of these edges.
Along(S, q, w, T) == \E e \in S : e.to = q.pc /\ Rel(q, w, Refined(T, e.learn))

\* A jump keeps the relation, along one of the edges of the analysis.
LEMMA JumpStep ==
  ASSUME Good(run), method \in Methods, run.pc \in DOMAIN StackMap(method),
         Opcode.mn \in Branches \cup Switches \cup {"goto"},
         NEW w, NEW f, Rel(run, w, f), Framed(f), Fits(f.stack, StackMap(method)[run.pc]), NEW t \in Landings(Opcode),
         NEW q, q = [Compute(Len(SignatureOf(Opcode.mn).in), <<>>) EXCEPT !.pc = t], NEW at
  PROVE  /\ Good(q) /\ q.pc = t
         /\ Along(ToSet(NormalSucc(LowerMethod(method), run.pc, f)), q, w, Transfer(f, ClassifyOp(Opcode), at))
<1> DEFINE i == Opcode
           n == Len(SignatureOf(i.mn).in)
           T == Transfer(f, ClassifyOp(i), at)
<1>1. PICK c : c = Compute(n, Empty)
  OBVIOUS
<1>2. q = [c EXCEPT !.pc = t]
  BY <1>1 DEF Empty
<1>3. Finds(i, StackMap(method)[run.pc])
  BY VerifiedAt DEF Opcode, Opcodes
<1>4. n \in {0, 1, 2} /\ n <= Len(f.stack) /\ T = With(f, n, Empty)
  BY <1>3, JumpShape
<1> HIDE DEF T, n, i
<1>5. n \in Nat /\ n <= Len(run.stack)
  BY <1>4 DEF Rel
<1>6. Stepped(w, T, c)
  BY <1>1, <1>4, <1>5, ComputedFew
<1>7. SameData(run, c)
  BY <1>1, <1>5, ComputeFacts, Short
<1>8. /\ c = [pc |-> c.pc, stack |-> c.stack, locals |-> c.locals, fields |-> c.fields, held |-> c.held,
              objects |-> c.objects, gone |-> c.gone, moved |-> c.moved]
      /\ IsASequence(c.stack) /\ IsASequence(c.objects)
      /\ c.locals = [x \in Slots |-> c.locals[x]]
      /\ c.fields = [x \in Fields |-> c.fields[x]] /\ c.held = [x \in Fields |-> c.held[x]]
  BY <1>6 DEF Stepped, Good
<1>9. Parts(q, t, c.stack, c.locals, c.fields, c.held, c.objects, c.gone, c.moved)
  BY <1>2, <1>8 DEF Parts
<1>10. /\ q.pc = t /\ q.stack = c.stack /\ q.locals = c.locals /\ q.fields = c.fields
       /\ q.held = c.held /\ q.objects = c.objects /\ q.gone = c.gone /\ q.moved = c.moved
       /\ q = [pc |-> q.pc, stack |-> q.stack, locals |-> q.locals, fields |-> q.fields, held |-> q.held,
               objects |-> q.objects, gone |-> q.gone, moved |-> q.moved]
  BY <1>9, PartsFacts
<1>11. Good(q)
  BY <1>8, <1>10 DEF Good
<1>12. SameData(c, q) /\ SameData(run, q)
  BY <1>7, <1>10 DEF SameData
<1>13. Rel(q, w, T)
  <2>1. Rel(c, w, T)
    BY <1>6 DEF Stepped
  <2>2. \A x \in 1..Len(T.stack) : OnStack(q, w, T.stack[x], q.stack[x])
    BY <1>10, <1>12, <2>1, SameDataKeeps DEF Rel
  <2>3. \A x \in Slots : InLocal(q, w, T.locals[x], x)
    BY <1>12, <2>1, SameDataKeeps DEF Rel
  <2>4. \A x \in Fields : InField(q, T.fields[x], x)
    BY <1>12, <2>1, SameDataKeeps DEF Rel
  <2>5. Len(T.stack) = Len(q.stack)
    BY <1>10, <2>1 DEF Rel
  <2> QED BY <2>2, <2>3, <2>4, <2>5 DEF Rel
<1>14. Framed(T)
  BY <1>4, <1>5, Short, WithFramed
<1>15. PICK e \in ToSet(NormalSucc(LowerMethod(method), run.pc, f)) : e.to = t /\ Learnt(run, e.learn)
  BY JumpEdge
<1>16. Learnt(q, e.learn)
  BY <1>12, <1>15 DEF Learnt, SameData
<1>17. Rel(q, w, Refined(T, e.learn))
  BY <1>13, <1>14, <1>16, RefinedRelated
<1> QED BY <1>10, <1>11, <1>15, <1>17 DEF T, i, Along

-----------------------------------------------------------------------------
(* What is sent along an edge is in the frame at its end.                  *)

\* A value that absorbed another says no more than it.
Above(a, b) ==
  \/ a = b
  \/ a = Plain("Top")
  \/ /\ IsHandle(a) /\ IsHandle(b) /\ a.ptr = b.ptr /\ a.state = b.state
     /\ a.id \in {b.id, NoId} /\ a.from \in {b.from, NoField}

\* The join that changed nothing absorbed the other value.
LEMMA JoinedAbove == ASSUME NEW a, NEW b, JoinVal(a, b) = a PROVE Above(a, b)
<1>1. CASE a = b
  BY <1>1 DEF Above
<1>2. CASE a # b /\ IsHandle(a) /\ IsHandle(b) /\ a.ptr = b.ptr /\ a.state = b.state
  <2>1. a = Handle(a.ptr, a.state, IF a.id = b.id THEN a.id ELSE NoId, IF a.from = b.from THEN a.from ELSE NoField)
    BY <1>2 DEF JoinVal
  <2>2. PICK i, fr : i = (IF a.id = b.id THEN a.id ELSE NoId) /\ fr = (IF a.from = b.from THEN a.from ELSE NoField)
    OBVIOUS
  <2>3. a = Handle(a.ptr, a.state, i, fr)
    BY <2>1, <2>2
  <2>4. a.id = i /\ a.from = fr
    BY <2>3 DEF Handle, Value
  <2> QED BY <1>2, <2>2, <2>4 DEF Above
<1>3. CASE a # b /\ ~(IsHandle(a) /\ IsHandle(b) /\ a.ptr = b.ptr /\ a.state = b.state)
  BY <1>3 DEF JoinVal, Above
<1> QED BY <1>1, <1>2, <1>3

\* What is so of the absorbed value is so of the one that absorbed it,
LEMMA KnownAbove ==
  ASSUME NEW r, NEW w, NEW a, NEW b, Above(a, b), NEW v, Known(r, w, b, v)
  PROVE  Known(r, w, a, v)
<1>1. CASE a = b
  BY <1>1
<1>2. CASE a = Plain("Top")
  BY <1>2, PlainKnown
<1>3. CASE /\ IsHandle(a) /\ IsHandle(b) /\ a.ptr = b.ptr /\ a.state = b.state
           /\ a.id \in {b.id, NoId} /\ a.from \in {b.from, NoField}
  <2>1. a.tag = "Handle" /\ b.tag = "Handle"
    BY <1>3 DEF IsHandle
  <2>2. Says(r, a, v)
    BY <1>3, <2>1 DEF Known, Says
  <2>3. Identified(r, w, a, v)
    <3>1. CASE a.id = b.id
      BY <3>1 DEF Known, Identified
    <3>2. CASE a.id = NoId
      BY <3>2, IdsDiffer DEF Identified
    <3> QED BY <1>3, <3>1, <3>2
  <2> QED BY <1>3, <2>2, <2>3 DEF Known
<1> QED BY <1>1, <1>2, <1>3 DEF Above

\* on the stack,
LEMMA OnStackAbove ==
  ASSUME NEW r, NEW w, NEW x, NEW y, Above(x.val, y.val), x.wide = y.wide, NEW e, OnStack(r, w, y, e)
  PROVE  OnStack(r, w, x, e)
<1>1. Known(r, w, x.val, e.v)
  BY KnownAbove DEF OnStack
<1>2. CASE x.val = y.val
  BY <1>2 DEF OnStack
<1>3. CASE x.val = Plain("Top")
  <2>1. x.val.tag = "Top" /\ x.val.id = NoId /\ x.val.state = "none"
    BY <1>3 DEF Plain, Value
  <2> QED BY <1>1, <2>1, IdsDiffer DEF OnStack, IsHandle
<1>4. CASE /\ IsHandle(x.val) /\ IsHandle(y.val) /\ x.val.state = y.val.state /\ x.val.id \in {y.val.id, NoId}
  BY <1>1, <1>4, IdsDiffer DEF OnStack
<1> QED BY <1>2, <1>3, <1>4 DEF Above

\* and in a local.
LEMMA InLocalAbove ==
  ASSUME NEW r, NEW w, NEW a, NEW b, Above(a, b), NEW s, InLocal(r, w, b, s)
  PROVE  InLocal(r, w, a, s)
<1>1. Known(r, w, a, r.locals[s])
  BY KnownAbove DEF InLocal
<1>2. a.state = "Moved" => b.state = "Moved"
  BY DEF Above, Plain, Value
<1> QED BY <1>1, <1>2 DEF InLocal

\* A frame that absorbed a true one is true.
LEMMA FrameAbove ==
  ASSUME NEW q, NEW w, NEW g, Rel(q, w, g), NEW b, NEW k, Shaped(b, k, g), NEW h, Shaped(b, k, h),
         h = g \/ ~SameHeight(h, g) \/ Merge(h, g) = h
  PROVE  Rel(q, w, h)
<1>1. /\ Fits(g.stack, StackMap(b)[k]) /\ Fits(h.stack, StackMap(b)[k]) /\ Framed(g) /\ Framed(h)
  BY DEF Shaped
<1>2. Len(g.stack) = Len(h.stack) /\ \A n \in 1..Len(h.stack) : h.stack[n].wide = g.stack[n].wide
  BY <1>1 DEF Fits
<1>3. DOMAIN g.stack = 1..Len(g.stack) /\ DOMAIN h.stack = 1..Len(g.stack)
  BY <1>1, <1>2, SequenceFacts DEF Framed
<1>4. CASE h = g
  BY <1>4
<1>5. CASE Merge(h, g) = h
  <2> DEFINE s == [i \in DOMAIN h.stack |-> JoinItem(h.stack[i], g.stack[i])]
             L == [x \in Slots |-> JoinVal(h.locals[x], g.locals[x])]
             X == [x \in Fields |-> JoinField(h.fields[x], g.fields[x])]
  <2>1. h = [stack |-> s, locals |-> L, fields |-> X]
    BY <1>3, <1>5 DEF Merge, SameHeight
  <2>2. h.stack = s /\ h.locals = L /\ h.fields = X
    <3> HIDE DEF s, L, X
    <3> QED BY <2>1
  <2>3. ASSUME NEW n \in 1..Len(h.stack) PROVE OnStack(q, w, h.stack[n], q.stack[n])
    <3>1. h.stack[n] = Item(JoinVal(h.stack[n].val, g.stack[n].val), h.stack[n].wide)
      BY <1>2, <1>3, <2>2, <2>3 DEF JoinItem
    <3>2. h.stack[n].val = JoinVal(h.stack[n].val, g.stack[n].val)
      BY <3>1 DEF Item
    <3>3. Above(h.stack[n].val, g.stack[n].val)
      BY <3>2, JoinedAbove
    <3>4. OnStack(q, w, g.stack[n], q.stack[n])
      BY <1>2, <2>3 DEF Rel
    <3> QED BY <1>2, <2>3, <3>3, <3>4, OnStackAbove
  <2>4. ASSUME NEW x \in Slots PROVE InLocal(q, w, h.locals[x], x)
    <3>1. h.locals[x] = JoinVal(h.locals[x], g.locals[x])
      BY <2>2, <2>4
    <3> QED BY <2>4, <3>1, JoinedAbove, InLocalAbove DEF Rel
  <2>5. ASSUME NEW x \in Fields PROVE InField(q, h.fields[x], x)
    <3>1. h.fields[x] = JoinField(h.fields[x], g.fields[x])
      BY <2>2, <2>5
    <3>2. InField(q, g.fields[x], x)
      BY DEF Rel
    <3> QED BY <3>1, <3>2 DEF JoinField, InField
  <2>6. Len(h.stack) = Len(q.stack)
    BY <1>2 DEF Rel
  <2> QED BY <2>3, <2>4, <2>5, <2>6 DEF Rel
<1>6. SameHeight(h, g)
  BY <1>3 DEF SameHeight
<1> QED BY <1>4, <1>5, <1>6

\* What is sent along an edge is in the frame at its end.
LEMMA SentRelated ==
  ASSUME ShapesHold, Solution, NEW k \in DOMAIN state, NEW e \in ToSet(Edges(body, k, state[k])),
         NEW q, NEW w, Rel(q, w, e.frame)
  PROVE  e.to \in DOMAIN state /\ Rel(q, w, state[e.to])
<1>1. Absorbed(e)
  BY DEF Solution
<1>2. Shaped(method, e.to, e.frame)
  BY SentShaped DEF ShapesHold
<1>3. e.to \in DOMAIN state
  BY <1>1 DEF Absorbed
<1>4. Shaped(method, e.to, state[e.to])
  BY <1>3 DEF ShapesHold
<1>5. Rel(q, w, state[e.to])
  BY <1>1, <1>2, <1>4, FrameAbove DEF Absorbed
<1> QED BY <1>3, <1>5

-----------------------------------------------------------------------------
(* The method is entered.                                                  *)

\* A finite set as a sequence.
LEMMA AsSequence == ASSUME NEW S, IsFiniteSet(S) PROVE IsASequence(SetToSeq(S))
<1> DEFINE Q == {f \in [1..Cardinality(S) -> S] : \A a, b \in DOMAIN f : f[a] = f[b] => a = b}
<1>1. Cardinality(S) \in Nat /\ Q # {}
  BY FS_CardinalityType DEF ExistsBijection, Bijection, Injection, IsInjective
<1>2. SetToSeq(S) \in Q
  BY <1>1 DEF SetToSeq, IsInjective
<1>3. SetToSeq(S) \in [1..Cardinality(S) -> S]
  BY <1>2
<1> DEFINE s == SetToSeq(S)
<1> HIDE DEF s
<1>4. DOMAIN s = 1..Cardinality(S) /\ s = [k \in DOMAIN s |-> s[k]]
  BY <1>3 DEF s
<1>5. IsASequence(s)
  BY <1>1, <1>4, Enumerated
<1> QED BY <1>5 DEF s

\* The parameters of a method, by number.
LEMMA TypesFacts ==
  ASSUME NEW b \in Methods
  PROVE  /\ IsASequence(b.types) /\ DOMAIN b.types = 1..Len(b.types) /\ Len(b.types) \in Nat
         /\ DOMAIN b.types \subseteq Int /\ IsFiniteSet(DOMAIN b.types)
<1>1. IsASequence(b.types)
  BY VerifiedAssumption DEF IsASequence
<1>2. DOMAIN b.types = 1..Len(b.types) /\ Len(b.types) \in Nat
  BY <1>1, SequenceFacts
<1>3. IsFiniteSet(1..Len(b.types))
  BY <1>2, FS_Interval
<1> QED BY <1>1, <1>2, <1>3

\* The slots the lowering gives to the parameters are those of the JVM, one for
\* each, after `this`.
LEMMA SlotFacts ==
  ASSUME NEW b \in Methods
  PROVE  /\ \A k \in DOMAIN b.types : Arguments(b)[k] = Slot(b, k)
         /\ \A j, k \in DOMAIN b.types : Slot(b, j) = Slot(b, k) => j = k
         /\ ~IsStatic(b) => \A k \in DOMAIN b.types : Slot(b, k) # 0
<1> DEFINE first == IF IsStatic(b) THEN 0 ELSE 1
           wides(k) == {j \in 1..(k - 1) : Wide(b.types[j])}
           n(k) == Cardinality(wides(k))
<1>1. DOMAIN b.types = 1..Len(b.types) /\ Len(b.types) \in Nat
  BY TypesFacts
<1>2. ASSUME NEW k \in DOMAIN b.types PROVE Slot(b, k) = first + (k - 1) + n(k)
  BY DEF Slot
<1>3. ASSUME NEW k \in DOMAIN b.types PROVE Arguments(b)[k] = first + (k - 1) + n(k)
  <2>1. {j \in 1..(k - 1) : b.types[j] \in {"J", "D"}} = wides(k)
    BY DEF Wide
  <2> QED BY <2>1 DEF Arguments, IsStatic
<1>4. ASSUME NEW k \in DOMAIN b.types PROVE IsFiniteSet(wides(k)) /\ n(k) \in Nat
  <2>1. IsFiniteSet(1..(k - 1))
    BY <1>1, FS_Interval
  <2>2. IsFiniteSet(wides(k))
    BY <2>1, FS_Subset
  <2> QED BY <2>2, FS_CardinalityType
<1>5. ASSUME NEW j \in DOMAIN b.types, NEW k \in DOMAIN b.types, j < k PROVE n(j) <= n(k)
  <2>1. wides(j) \subseteq wides(k)
    BY <1>1, <1>5
  <2>2. IsFiniteSet(wides(k))
    BY <1>4
  <2> HIDE DEF wides
  <2>3. Cardinality(wides(j)) <= Cardinality(wides(k))
    BY <2>1, <2>2, FS_Subset
  <2> QED BY <2>3
<1>6. first \in {0, 1} /\ (~IsStatic(b) => first = 1)
  OBVIOUS
<1> HIDE DEF first, n
<1>7. ASSUME NEW j \in DOMAIN b.types, NEW k \in DOMAIN b.types, j < k PROVE Slot(b, j) # Slot(b, k)
  <2>1. n(j) <= n(k) /\ n(j) \in Nat /\ n(k) \in Nat
    BY <1>4, <1>5, <1>7
  <2>2. Slot(b, j) = first + (j - 1) + n(j) /\ Slot(b, k) = first + (k - 1) + n(k)
    BY <1>2
  <2> QED BY <1>1, <1>6, <1>7, <2>1, <2>2
<1>8. ASSUME NEW j \in DOMAIN b.types, NEW k \in DOMAIN b.types, Slot(b, j) = Slot(b, k) PROVE j = k
  <2>1. j < k \/ j = k \/ k < j
    BY <1>1
  <2> QED BY <1>7, <1>8, <2>1
<1>9. ~IsStatic(b) => \A k \in DOMAIN b.types : Slot(b, k) # 0
  <2> SUFFICES ASSUME ~IsStatic(b), NEW k \in DOMAIN b.types PROVE Slot(b, k) # 0
    OBVIOUS
  <2>1. Slot(b, k) = 1 + (k - 1) + n(k) /\ n(k) \in Nat
    BY <1>2, <1>4, <1>6
  <2> QED BY <1>1, <2>1
<1> QED BY <1>2, <1>3, <1>8, <1>9

\* The handle parameters of a method.
HandleArgs(b) == {k \in DOMAIN b.types : b.types[k] = "J" /\ b.params[k] # NoPtr}

\* The objects the handle parameters stand for.
Numbered(b) == Sorted(HandleArgs(b))

\* Each handle parameter has one number.
LEMMA NumberedFacts ==
  ASSUME NEW b \in Methods
  PROVE  /\ IsASequence(Numbered(b)) /\ ToSet(Numbered(b)) = HandleArgs(b)
         /\ DOMAIN Numbered(b) = 1..Len(Numbered(b)) /\ Len(Numbered(b)) \in Nat
<1>1. IsFiniteSet(HandleArgs(b)) /\ HandleArgs(b) \subseteq Int
  <2>1. HandleArgs(b) \subseteq DOMAIN b.types
    BY DEF HandleArgs
  <2> QED BY <2>1, TypesFacts, FS_Subset
<1> DEFINE S == HandleArgs(b)
           s == Sorted(S)
<1> HIDE DEF S
<1>2. /\ IsASequence(s) /\ \A k \in 1..Len(s) : s[k] \in S
      /\ \A x \in S : \E k \in 1..Len(s) : s[k] = x
  BY <1>1, SortedComplete DEF S
<1> HIDE DEF s
<1>3. DOMAIN s = 1..Len(s) /\ Len(s) \in Nat
  BY <1>2, SequenceFacts
<1>4. ToSet(s) = S
  BY <1>2, <1>3 DEF ToSet
<1> QED BY <1>2, <1>3, <1>4 DEF Numbered, s, S

\* What a local holds when the method is called.
StartsWith(b, s) ==
  IF \E k \in ToSet(Numbered(b)) : Arguments(b)[k] = s
  THEN CHOOSE n \in DOMAIN Numbered(b) : Numbered(b)[n] = CHOOSE k \in ToSet(Numbered(b)) : Arguments(b)[k] = s
  ELSE IF s = 0 /\ ~IsStatic(b) THEN Receiver ELSE Junk

\* The execution at its start.
LEMMA BeginFacts ==
  ASSUME method \in Methods, NEW full \in SUBSET Fields, NEW q, q = Begin(full)
  PROVE  /\ Good(q) /\ q.pc = 1 /\ q.stack = <<>>
         /\ \A s \in Slots : q.locals[s] = StartsWith(method, s)
         /\ \A x \in Fields : q.fields[x] \in q.held[x] /\ (full = {} => q.fields[x] = 0)
         /\ \A n \in DOMAIN Numbered(method) :
              n \in DOMAIN q.objects /\ q.objects[n] = method.params[Numbered(method)[n]]
<1> DEFINE b == method
           at == Arguments(b)
           ks == Numbered(b)
           fs == SetToSeq(full)
           num(seq, x) == CHOOSE k \in DOMAIN seq : seq[k] = x
           content(x) == IF x \in full THEN Len(ks) + num(fs, x) ELSE 0
           L == [s \in Slots |-> IF \E k \in ToSet(ks) : at[k] = s
                                 THEN num(ks, CHOOSE k \in ToSet(ks) : at[k] = s)
                                 ELSE IF s = 0 /\ "static" \notin b.access THEN Receiver ELSE Junk]
           F == [x \in Fields |-> content(x)]
           H == [x \in Fields |-> {content(x)}]
           args == [k \in DOMAIN ks |-> b.params[ks[k]]]
           rest == [k \in DOMAIN fs |-> FieldPtr[fs[k]]]
           O == args \o rest
<1>1. q = [pc |-> 1, stack |-> <<>>, locals |-> L, fields |-> F, held |-> H, objects |-> O, gone |-> {}, moved |-> {}]
  BY DEF Begin, Numbered, HandleArgs
<1>2. IsASequence(ks) /\ DOMAIN ks = 1..Len(ks) /\ Len(ks) \in Nat
  BY NumberedFacts
<1>3. IsASequence(fs) /\ DOMAIN fs = 1..Len(fs) /\ Len(fs) \in Nat
  <2>1. IsFiniteSet(full)
    BY NamesAssumption, FS_Subset
  <2>2. IsASequence(fs)
    BY <2>1, AsSequence
  <2> HIDE DEF fs
  <2> QED BY <2>2, SequenceFacts
<1>4. (\A s \in Slots : L[s] = StartsWith(b, s)) /\ L = [s \in Slots |-> L[s]]
  BY DEF IsStatic, StartsWith
<1>5. /\ \A x \in Fields : F[x] \in H[x] /\ (full = {} => F[x] = 0)
      /\ F = [x \in Fields |-> F[x]] /\ H = [x \in Fields |-> H[x]]
  OBVIOUS
<1> HIDE DEF ks, fs
<1>6. IsASequence(args) /\ Len(args) = Len(ks) /\ \A n \in DOMAIN ks : args[n] = b.params[ks[n]]
  <2>1. DOMAIN args = 1..Len(ks) /\ args = [k \in DOMAIN args |-> args[k]]
    BY <1>2
  <2>2. \A n \in DOMAIN ks : args[n] = b.params[ks[n]]
    OBVIOUS
  <2> HIDE DEF args
  <2>3. IsASequence(args)
    BY <1>2, <2>1, Enumerated
  <2> QED BY <1>2, <2>1, <2>2, <2>3, SequenceFacts
<1>7. IsASequence(rest)
  BY <1>3, Enumerated
<1> HIDE DEF args, rest
<1>8. /\ IsASequence(O)
      /\ \A n \in DOMAIN ks : n \in DOMAIN O /\ O[n] = args[n]
  <2> DEFINE S == ToSet(args) \cup ToSet(rest)
  <2>1. args \in Seq(S) /\ rest \in Seq(S)
    BY <1>6, <1>7, SeqMonotonic DEF IsASequence
  <2> HIDE DEF S
  <2>2. /\ O \in Seq(S) /\ Len(O) = Len(args) + Len(rest)
        /\ \A k \in 1..(Len(args) + Len(rest)) : O[k] = IF k <= Len(args) THEN args[k] ELSE rest[k - Len(args)]
    BY <2>1, ConcatProperties
  <2>3. IsASequence(O) /\ Len(rest) \in Nat
    BY <1>7, <2>2, AnySequence, SequenceFacts
  <2>4. DOMAIN O = 1..Len(O)
    BY <2>3, SequenceFacts
  <2> QED BY <1>2, <1>6, <2>2, <2>3, <2>4
<1> HIDE DEF L, F, H, O
<1>9. PICK e : e = <<>>
  OBVIOUS
<1>10. Parts(q, 1, e, L, F, H, O, {}, {})
  BY <1>1, <1>9 DEF Parts
<1>11. /\ q.pc = 1 /\ q.stack = e /\ q.locals = L /\ q.fields = F
       /\ q.held = H /\ q.objects = O
       /\ q = [pc |-> q.pc, stack |-> q.stack, locals |-> q.locals, fields |-> q.fields, held |-> q.held,
               objects |-> q.objects, gone |-> q.gone, moved |-> q.moved]
  BY <1>10, PartsFacts
<1>12. Good(q)
  <2>1. IsASequence(e)
    BY <1>9, Few
  <2> QED BY <1>4, <1>5, <1>8, <1>11, <2>1 DEF Good
<1> QED BY <1>4, <1>5, <1>6, <1>8, <1>9, <1>11, <1>12 DEF ks

\* What the analysis supposes of a parameter, or of another local, is true of it.
LEMMA LocalEntered ==
  ASSUME method \in Methods, NEW full \in SUBSET Fields, NEW q, q = Begin(full), NEW w, NEW s \in Slots
  PROVE  InLocal(q, w, Entry(LowerMethod(method)).locals[s], s)
<1> DEFINE b == method
           m == LowerMethod(b)
           at(x) == {k \in DOMAIN m.params : m.params[k].slot = x}
           a == Entry(m).locals[s]
           ks == Numbered(b)
           v == q.locals[s]
<1> SUFFICES InLocal(q, w, a, s)
  OBVIOUS
<1>1. /\ v = IF \E k \in ToSet(ks) : Arguments(b)[k] = s
             THEN CHOOSE n \in DOMAIN ks : ks[n] = CHOOSE k \in ToSet(ks) : Arguments(b)[k] = s
             ELSE IF s = 0 /\ ~IsStatic(b) THEN Receiver ELSE Junk
      /\ \A n \in DOMAIN ks : n \in DOMAIN q.objects /\ q.objects[n] = b.params[ks[n]]
  <2>1. v = StartsWith(b, s)
    BY BeginFacts
  <2>2. \A n \in DOMAIN ks : n \in DOMAIN q.objects /\ q.objects[n] = b.params[ks[n]]
    BY BeginFacts
  <2> HIDE DEF v
  <2> QED BY <2>1, <2>2 DEF StartsWith
<1>2. a = IF at(s) # {} THEN Parameter(m.params[CHOOSE k \in at(s) : TRUE])
          ELSE IF s = 0 /\ ~m.static THEN Plain("This") ELSE NotHandle
  BY DEF Entry
<1>3. /\ m.static = IsStatic(b) /\ DOMAIN m.params = DOMAIN b.types
      /\ \A k \in DOMAIN b.types : /\ m.params[k].slot = Slot(b, k) /\ m.params[k].wide = Wide(b.types[k])
                                   /\ m.params[k].handle = ToHandle(b.types[k], b.params[k])
  BY DEF LowerMethod, ParamInfos, FlowParams
<1>4. ToSet(ks) = HandleArgs(b) /\ HandleArgs(b) \subseteq DOMAIN b.types
  BY NumberedFacts DEF HandleArgs
<1>5. /\ \A k \in DOMAIN b.types : Arguments(b)[k] = Slot(b, k)
      /\ \A j, k \in DOMAIN b.types : Slot(b, j) = Slot(b, k) => j = k
      /\ ~IsStatic(b) => \A k \in DOMAIN b.types : Slot(b, k) # 0
  BY SlotFacts
<1> HIDE DEF m, ks, v, a
\* It is not a value the analysis follows.
<1>6. ASSUME NEW tag \in {"Forged", "This", "NotHandle"}, a = Plain(tag),
             tag = "This" => v = Receiver, tag # "This" => v = Junk
      PROVE  InLocal(q, w, a, s)
  <2>1. Known(q, w, a, v)
    BY <1>6, PlainKnown DEF NotHandle
  <2>2. a.state = "none"
    BY <1>6 DEF Plain, Value
  <2> QED BY <2>1, <2>2 DEF InLocal, v
<1>6a. /\ a = Plain("Forged") /\ v = Junk => InLocal(q, w, a, s)
       /\ a = Plain("This") /\ v = Receiver => InLocal(q, w, a, s)
       /\ a = NotHandle /\ v = Junk => InLocal(q, w, a, s)
  <2>1. a = Plain("Forged") /\ v = Junk => InLocal(q, w, a, s)
    BY <1>6
  <2>2. a = Plain("This") /\ v = Receiver => InLocal(q, w, a, s)
    BY <1>6
  <2>3. a = NotHandle /\ v = Junk => InLocal(q, w, a, s)
    BY <1>6 DEF NotHandle
  <2> QED BY <2>1, <2>2, <2>3
<1>7. CASE at(s) = {}
  <2>1. ~\E k \in ToSet(ks) : Arguments(b)[k] = s
    BY <1>3, <1>4, <1>5, <1>7
  <2>2. CASE s = 0 /\ ~IsStatic(b)
    BY <1>1, <1>2, <1>3, <1>6a, <1>7, <2>1, <2>2
  <2>3. CASE ~(s = 0 /\ ~IsStatic(b))
    BY <1>1, <1>2, <1>3, <1>6a, <1>7, <2>1, <2>3
  <2> QED BY <2>2, <2>3
<1>8. CASE at(s) # {}
  <2>1. PICK k : k = CHOOSE x \in at(s) : TRUE
    OBVIOUS
  <2>2. k \in DOMAIN b.types /\ Slot(b, k) = s
    BY <1>3, <1>8, <2>1
  <2>3. a = Parameter(m.params[k])
    BY <1>2, <1>8, <2>1
  <2>4. \A j \in ToSet(ks) : Arguments(b)[j] = s <=> j = k
    BY <1>4, <1>5, <2>2
  <2>5. CASE k \notin ToSet(ks)
    <3>1. m.params[k].handle = NoPtr
      BY <1>3, <1>4, <2>2, <2>5 DEF HandleArgs, ToHandle
    <3>2. v = Junk
      <4>1. ~\E j \in ToSet(ks) : Arguments(b)[j] = s
        BY <2>4, <2>5
      <4>2. ~(s = 0 /\ ~IsStatic(b))
        BY <1>5, <2>2
      <4> QED BY <1>1, <4>1, <4>2
    <3>3. a = Plain("Forged") \/ a = NotHandle
      BY <2>3, <3>1 DEF Parameter
    <3> QED BY <1>6a, <3>2, <3>3
  <2>6. CASE k \in ToSet(ks)
    <3> DEFINE p == b.params[k]
    <3>1. m.params[k].handle = p /\ p # NoPtr /\ m.params[k].slot = s
      BY <1>3, <1>4, <2>2, <2>6 DEF HandleArgs, ToHandle
    <3>2. a = Handle(p, "Live", LocalId(s), NoField)
      BY <2>3, <3>1 DEF Parameter
    <3>3. (CHOOSE j \in ToSet(ks) : Arguments(b)[j] = s) = k
      BY <2>4, <2>6
    <3>4. v = CHOOSE n \in DOMAIN ks : ks[n] = k
      BY <1>1, <2>4, <2>6, <3>3
    <3>5. v \in DOMAIN ks /\ ks[v] = k
      BY <2>6, <3>4 DEF ToSet
    <3> HIDE DEF p
    <3>6. v \in DOMAIN q.objects /\ q.objects[v] = p
      BY <1>1, <3>5 DEF p
    <3>7. a.tag = "Handle" /\ a.ptr = p /\ a.state = "Live" /\ a.id = LocalId(s) /\ a.from = NoField
      BY <3>2 DEF Handle, Value
    <3>8. Says(q, a, v)
      BY <3>6, <3>7 DEF Says, Tags
    <3>9. Identified(q, w, a, v)
      BY <3>7, IdsDiffer DEF Identified, v
    <3>10. Known(q, w, a, v)
      BY <3>7, <3>8, <3>9 DEF Known, IsHandle
    <3> QED BY <3>7, <3>10 DEF InLocal, v
  <2> QED BY <2>5, <2>6
<1> QED BY <1>7, <1>8

\* The method starts with what the analysis starts with.
LEMMA BeginRelated ==
  ASSUME method \in Methods, body = LowerMethod(method), NEW full \in SUBSET Fields, body.ctor => full = {},
         NEW q, q = Begin(full), NEW w
  PROVE  Good(q) /\ q.pc = 1 /\ Rel(q, w, Entry(body))
<1>1. /\ Good(q) /\ q.pc = 1 /\ q.stack = <<>>
      /\ \A x \in Fields : q.fields[x] \in q.held[x] /\ (full = {} => q.fields[x] = 0)
  BY BeginFacts
<1> DEFINE f == Entry(body)
<1>2. f.stack = <<>> /\ \A x \in Fields : f.fields[x] = IF body.ctor THEN "Null" ELSE "Unknown"
  BY DEF Entry
<1>3. \A s \in Slots : InLocal(q, w, f.locals[s], s)
  BY LocalEntered
<1> HIDE DEF f
<1>4. \A x \in Fields : InField(q, f.fields[x], x)
  BY <1>1, <1>2 DEF InField
<1>5. PICK e : e = <<>>
  OBVIOUS
<1>6. Len(e) = 0
  BY <1>5, Few
<1> QED BY <1>1, <1>2, <1>3, <1>4, <1>5, <1>6 DEF Rel, f

-----------------------------------------------------------------------------
(* The invariant of the run.                                               *)

\* The execution is where the analysis has been, with what it has found.
Arrived(q) == Good(q) /\ q.pc \in DOMAIN state /\ \E w : Rel(q, w, state[q.pc])

\* The inductive invariant of the run: the frame at the next instruction is
\* related to the execution.
RunInv ==
  /\ ~done => run = NotStarted
  /\ Running => Arrived(run)

\* What is known of the instruction that is next.
LEMMA Here ==
  ASSUME ShapesHold, InScope, RunInv, Running
  PROVE  /\ done /\ Good(run) /\ run.pc \in DOMAIN state /\ \E w : Rel(run, w, state[run.pc])
         /\ method \in Methods /\ body = LowerMethod(method) /\ run.pc \in DOMAIN StackMap(method)
         /\ run.pc \in DOMAIN method.opcodes /\ Opcode = method.opcodes[run.pc]
         /\ Framed(state[run.pc]) /\ Fits(state[run.pc].stack, StackMap(method)[run.pc])
         /\ Accepted(Opcode) /\ Finds(Opcode, StackMap(method)[run.pc])
         /\ body.code[run.pc].op = ClassifyOp(Opcode)
         /\ Followed(Opcode, ClassifyOp(Opcode), state[run.pc])
         /\ \A x \in Fields : FieldKept(x)
<1>1. done /\ Good(run) /\ run.pc \in DOMAIN state /\ \E w : Rel(run, w, state[run.pc])
  BY DEF RunInv, Arrived, Running
<1>2. method \in Methods /\ body = LowerMethod(method) /\ Shaped(method, run.pc, state[run.pc])
  BY <1>1 DEF ShapesHold
<1>3. run.pc \in DOMAIN StackMap(method) /\ Framed(state[run.pc]) /\ Fits(state[run.pc].stack, StackMap(method)[run.pc])
  BY <1>2 DEF Shaped
<1>4. Opcode = method.opcodes[run.pc]
  BY DEF Opcode, Opcodes
<1>5. run.pc \in DOMAIN method.opcodes /\ Accepted(Opcode) /\ Finds(Opcode, StackMap(method)[run.pc])
  BY <1>2, <1>3, <1>4, VerifiedAt
<1>6. body.code[run.pc].op = ClassifyOp(Opcode)
  BY <1>2, <1>4, <1>5, CodeFacts
<1>7. Followed(Opcode, ClassifyOp(Opcode), state[run.pc])
  BY <1>1, <1>6 DEF InScope, Opcode
<1>8. \A x \in Fields : FieldKept(x)
  BY DEF InScope
<1> QED BY <1>1, <1>2, <1>3, <1>4, <1>5, <1>6, <1>7, <1>8

\* What an instruction leaves is in the frames of its successors.
LEMMA NormalSent ==
  ASSUME ShapesHold, Solution, NEW k \in DOMAIN state, NEW i, i = method.opcodes[k], k \in DOMAIN method.opcodes,
         NEW e \in ToSet(NormalSucc(body, k, state[k])),
         NEW q, NEW w, Rel(q, w, Refined(Transfer(state[k], ClassifyOp(i), i.at), e.learn))
  PROVE  e.to \in DOMAIN state /\ Rel(q, w, state[e.to])
<1> DEFINE T == Transfer(state[k], ClassifyOp(i), i.at)
           H == {[to |-> h, frame |-> HandlerFrame(state[k])] :
                        h \in UNION {OpcodesAt(method, c.handler) : c \in Catchers(method, k)}}
           d == [to |-> e.to, frame |-> Refined(T, e.learn)]
<1>1. method \in Methods /\ body = LowerMethod(method)
  BY DEF ShapesHold
<1>2. ToSet(Edges(LowerMethod(method), k, state[k])) =
         {[to |-> n.to, frame |-> Refined(T, n.learn)] : n \in ToSet(NormalSucc(LowerMethod(method), k, state[k]))} \cup H
  BY <1>1, Places, EdgesSet
<1>3. d \in ToSet(Edges(body, k, state[k]))
  <2> HIDE DEF T, H
  <2> QED BY <1>1, <1>2
<1>4. d.to = e.to /\ d.frame = Refined(T, e.learn)
  OBVIOUS
<1> HIDE DEF d
<1>5. d.to \in DOMAIN state /\ Rel(q, w, state[d.to])
  BY <1>3, <1>4, SentRelated
<1> QED BY <1>4, <1>5

\* What it finds is in the frames of its handlers.
LEMMA HandlerSent ==
  ASSUME ShapesHold, Solution, NEW k \in DOMAIN state, k \in DOMAIN method.opcodes,
         NEW c \in Catchers(method, k), NEW h \in OpcodesAt(method, c.handler),
         NEW q, NEW w, Rel(q, w, HandlerFrame(state[k]))
  PROVE  h \in DOMAIN state /\ Rel(q, w, state[h])
<1> DEFINE i == method.opcodes[k]
           T == Transfer(state[k], ClassifyOp(i), i.at)
           N == {[to |-> n.to, frame |-> Refined(T, n.learn)] : n \in ToSet(NormalSucc(LowerMethod(method), k, state[k]))}
           U == UNION {OpcodesAt(method, x.handler) : x \in Catchers(method, k)}
           d == [to |-> h, frame |-> HandlerFrame(state[k])]
<1>1. method \in Methods /\ body = LowerMethod(method)
  BY DEF ShapesHold
<1>2. ToSet(Edges(LowerMethod(method), k, state[k])) =
         N \cup {[to |-> x, frame |-> HandlerFrame(state[k])] : x \in U}
  BY <1>1, Places, EdgesSet
<1>3. h \in U
  OBVIOUS
<1>4. d \in ToSet(Edges(body, k, state[k]))
  <2> HIDE DEF N, U
  <2> QED BY <1>1, <1>2, <1>3
<1>5. d.to = h /\ d.frame = HandlerFrame(state[k])
  OBVIOUS
<1> HIDE DEF d
<1>6. d.to \in DOMAIN state /\ Rel(q, w, state[d.to])
  BY <1>4, <1>5, SentRelated
<1> QED BY <1>5, <1>6

\* Falling through to the next instruction.
LEMMA FellThrough ==
  ASSUME ShapesHold, Solution, InScope, RunInv, Running, Opcode.mn \notin Branches \cup Switches \cup Leaves \cup {"goto", "athrow"},
         NEW q, NEW w, Stepped(w, Transfer(state[run.pc], ClassifyOp(Opcode), Opcode.at), q)
  PROVE  Arrived(q)
<1> DEFINE k == run.pc
           T == Transfer(state[k], ClassifyOp(Opcode), Opcode.at)
           e == [to |-> k + 1, learn |-> NoRefine]
<1>1. /\ k \in DOMAIN state /\ method \in Methods /\ body = LowerMethod(method) /\ k \in DOMAIN StackMap(method)
      /\ k \in DOMAIN method.opcodes /\ Opcode = method.opcodes[k]
      /\ Framed(state[k]) /\ Fits(state[k].stack, StackMap(method)[k])
      /\ Accepted(Opcode) /\ Finds(Opcode, StackMap(method)[k])
  BY Here
<1>2. Good(q) /\ Rel(q, w, T) /\ q.pc = k + 1
  BY DEF Stepped
<1>3. Successors(method, k) = {k + 1}
  <2>1. Distances(Opcode) = {} /\ FallsThrough(Opcode)
    BY DEF Distances, FallsThrough
  <2> QED BY <1>1, <2>1 DEF Successors, Targets
<1>4. k + 1 \in DOMAIN method.opcodes
  BY <1>1, <1>3, VerifiedAt, VerifiedAssumption DEF Verified
<1>5. ToSet(NormalSucc(LowerMethod(method), k, state[k])) = {[to |-> t, learn |-> NoRefine] : t \in {k + 1}}
  <2> DEFINE ts == IF method.opcodes[k].mn \in Leaves \cup {"athrow"} THEN {} ELSE Successors(method, k) \cap DOMAIN method.opcodes
  <2>1. ToSet(NormalSucc(LowerMethod(method), k, state[k])) = {[to |-> t, learn |-> NoRefine] : t \in ts}
    BY <1>1, Places, StraightSet
  <2>2. ts = {k + 1}
    BY <1>1, <1>3, <1>4
  <2> HIDE DEF ts
  <2> QED BY <2>1, <2>2
<1>6. e \in ToSet(NormalSucc(body, k, state[k])) /\ e.to = k + 1 /\ e.learn = NoRefine
  BY <1>1, <1>5
<1>7. Framed(T)
  BY <1>1, KeepsHeights DEF Kept
<1>8. Rel(q, w, Refined(T, NoRefine))
  <2> HIDE DEF T
  <2>1. Refined(T, NoRefine) = T
    BY <1>7, UnrefinedFacts
  <2> QED BY <1>2, <2>1
<1> HIDE DEF e
<1>9. e.to \in DOMAIN state /\ Rel(q, w, state[e.to])
  BY <1>1, <1>6, <1>8, NormalSent
<1> QED BY <1>2, <1>6, <1>9 DEF Arrived

\* What the steps of the execution rely on.
Bound == IInv /\ ShapesHold /\ (done => Solution) /\ InScope

\* The method is entered with what the analysis starts from.
LEMMA StartKeeps ==
  ASSUME Bound, RunInv, Start
  PROVE  Arrived(run') /\ done
<1>1. PICK full \in SUBSET Fields : (body.ctor => full = {}) /\ run' = Begin(full)
  BY DEF Start
<1>2. done /\ method \in Methods /\ body = LowerMethod(method) /\ Absorbed(EntryEdge)
  BY DEF Start, Bound, ShapesHold, Solution
<1>3. PICK w : w = <<>>
  OBVIOUS
<1> DEFINE q == run'
<1>4. Good(q) /\ q.pc = 1 /\ Rel(q, w, Entry(body))
  <2> HIDE DEF q
  <2>1. q = Begin(full)
    BY <1>1 DEF q
  <2> QED BY <1>1, <1>2, <2>1, BeginRelated
<1>5. EntryEdge.to = 1 /\ EntryEdge.frame = Entry(body)
  BY DEF EntryEdge
<1>6. /\ 1 \in DOMAIN state
      /\ \/ state[1] = Entry(body) \/ ~SameHeight(state[1], Entry(body)) \/ Merge(state[1], Entry(body)) = state[1]
  BY <1>2, <1>5 DEF Absorbed
<1>7. Shaped(method, 1, state[1])
  BY <1>6 DEF Bound, ShapesHold
<1>8. Shaped(method, 1, Entry(body))
  BY <1>2, EntryShaped
<1>9. Rel(q, w, state[1])
  BY <1>4, <1>6, <1>7, <1>8, FrameAbove
<1> QED BY <1>2, <1>4, <1>6, <1>9 DEF Arrived

\* An instruction falls through,
LEMMA ExecuteKeeps ==
  ASSUME Bound, RunInv, Execute
  PROVE  Arrived(run')
<1> DEFINE k == run.pc
           i == Opcode
           T == Transfer(state[k], ClassifyOp(i), i.at)
<1>1. Running /\ i.mn \notin Branches \cup Switches \cup Invokes \cup Leaves \cup {"goto", "athrow"}
      /\ run' = Straight(i)
  BY DEF Execute
<1>2. ShapesHold /\ InScope /\ Solution
  BY <1>1 DEF Bound, Running
<1>3. /\ done /\ Good(run) /\ k \in DOMAIN state /\ \E w : Rel(run, w, state[k])
      /\ Framed(state[k]) /\ Fits(state[k].stack, StackMap(method)[k])
      /\ Accepted(i) /\ Finds(i, StackMap(method)[k])
      /\ Followed(i, ClassifyOp(i), state[k])
      /\ \A x \in Fields : FieldKept(x)
  BY <1>1, <1>2, Here
<1>4. PICK w : Rel(run, w, state[k])
  BY <1>3
<1> HIDE DEF i
<1>5. Stepped(w, T, Straight(i))
  BY <1>1, <1>3, <1>4, StraightStep
<1>6. PICK q : q = Straight(i)
  OBVIOUS
<1>7. Arrived(q)
  BY <1>1, <1>2, <1>5, <1>6, FellThrough DEF i
<1> QED BY <1>1, <1>6, <1>7

\* jumps,
LEMMA JumpKeeps ==
  ASSUME Bound, RunInv, Jump
  PROVE  Arrived(run')
<1> DEFINE k == run.pc
           i == Opcode
           T == Transfer(state[k], ClassifyOp(i), i.at)
<1>1. Running /\ Opcode.mn \in Branches \cup Switches \cup {"goto"}
      /\ \E t \in Landings(Opcode) : run' = [Compute(Len(SignatureOf(Opcode.mn).in), <<>>) EXCEPT !.pc = t]
  BY DEF Jump
<1>2. ShapesHold /\ InScope /\ Solution
  BY <1>1 DEF Bound, Running
<1>3. /\ done /\ Good(run) /\ k \in DOMAIN state /\ \E w : Rel(run, w, state[k])
      /\ method \in Methods /\ body = LowerMethod(method) /\ k \in DOMAIN StackMap(method)
      /\ k \in DOMAIN method.opcodes /\ Opcode = method.opcodes[k]
      /\ Framed(state[k]) /\ Fits(state[k].stack, StackMap(method)[k])
  BY <1>1, <1>2, Here
<1>4. PICK w : Rel(run, w, state[k])
  BY <1>3
<1>5. PICK t \in Landings(Opcode) : run' = [Compute(Len(SignatureOf(Opcode.mn).in), <<>>) EXCEPT !.pc = t]
  BY <1>1
<1>6. PICK q : q = [Compute(Len(SignatureOf(Opcode.mn).in), <<>>) EXCEPT !.pc = t]
  OBVIOUS
<1>7. /\ Good(q) /\ q.pc = t
      /\ Along(ToSet(NormalSucc(LowerMethod(method), k, state[k])), q, w, T)
  <2>1. PICK at : at = Opcode.at
    OBVIOUS
  <2>2. /\ Good(q) /\ q.pc = t
        /\ Along(ToSet(NormalSucc(LowerMethod(method), k, state[k])), q, w, Transfer(state[k], ClassifyOp(Opcode), at))
    BY <1>1, <1>3, <1>4, <1>6, JumpStep
  <2> QED BY <2>1, <2>2
<1>8. PICK e \in ToSet(NormalSucc(body, k, state[k])) : e.to = t /\ Rel(q, w, Refined(T, e.learn))
  BY <1>3, <1>7 DEF Along
<1>9. e.to \in DOMAIN state /\ Rel(q, w, state[e.to])
  BY <1>2, <1>3, <1>8, NormalSent
<1>10. Arrived(q)
  BY <1>7, <1>8, <1>9 DEF Arrived
<1> QED BY <1>5, <1>6, <1>10

\* calls,
LEMMA CallReturnsKeeps ==
  ASSUME Bound, RunInv, CallReturns
  PROVE  Arrived(run')
<1> DEFINE k == run.pc
           i == Opcode
           T == Transfer(state[k], ClassifyOp(i), i.at)
           q == run'
<1>1. Running /\ Opcode.mn \in Invokes /\ ReturnOf(Opcode, q)
  BY DEF CallReturns, ReturnOf
<1> HIDE DEF q
<1>2. ShapesHold /\ InScope /\ Solution
  BY <1>1 DEF Bound, Running
<1>3. /\ done /\ Good(run) /\ k \in DOMAIN state /\ \E w : Rel(run, w, state[k])
      /\ Framed(state[k]) /\ Fits(state[k].stack, StackMap(method)[k])
      /\ Accepted(i) /\ Finds(i, StackMap(method)[k])
      /\ Followed(i, ClassifyOp(i), state[k])
  BY <1>1, <1>2, Here
<1>4. PICK w : Rel(run, w, state[k])
  BY <1>3
<1>5. i.method \in DOMAIN Callees /\ i.at \in Nat
  BY <1>1, <1>3 DEF Accepted
<1>6. Operands(ClassifyOp(i)) <= Len(state[k].stack)
  BY <1>1, <1>3, <1>5, InvokeKept
<1>7. CallsAnew(state[k], ClassifyOp(i), i.at)
  BY <1>3 DEF Followed
<1>8. PICK w2 : Stepped(w2, T, q)
  BY <1>1, <1>3, <1>4, <1>5, <1>6, <1>7, CallStep
<1>9. Opcode.mn \notin Branches \cup Switches \cup Leaves \cup {"goto", "athrow"}
  BY <1>1 DEF Invokes, Branches, IfOne, IfTwo, Switches, Leaves, ValueReturns
<1>10. Arrived(q)
  BY <1>1, <1>2, <1>8, <1>9, FellThrough
<1> QED BY <1>10 DEF q

\* or throws, and the invariant is kept.
LEMMA ThrowsKeeps ==
  ASSUME Bound, RunInv, Throws
  PROVE  Arrived(run') \/ run'.pc \notin DOMAIN Opcodes
<1> DEFINE k == run.pc
<1>1. /\ Running
      /\ \/ Opcode.mn \in Invokes \cup {"athrow"} /\ run' = Thrown(run)
         \/ Opcode.mn \in Invokes /\ run' = Thrown(Effect(Callee(Opcode)))
  BY DEF Throws
<1>2. ShapesHold /\ InScope /\ Solution
  BY <1>1 DEF Bound, Running
<1>3. /\ done /\ Good(run) /\ k \in DOMAIN state /\ \E w : Rel(run, w, state[k])
      /\ method \in Methods /\ k \in DOMAIN StackMap(method) /\ k \in DOMAIN method.opcodes
      /\ Framed(state[k])
  BY <1>1, <1>2, Here
<1>4. PICK w : Rel(run, w, state[k])
  BY <1>3
<1>5. PICK r : Good(r) /\ Grown(run, r) /\ run' = Thrown(r)
  <2>1. Grown(run, run)
    BY DEF Grown
  <2>2. PICK c : c = Callee(Opcode)
    OBVIOUS
  <2>3. Good(Effect(c)) /\ Grown(run, Effect(c))
    BY <1>3, EffectFacts
  <2>4. CASE run' = Thrown(run)
    BY <1>3, <2>1, <2>4
  <2>5. CASE run' = Thrown(Effect(Callee(Opcode)))
    BY <2>2, <2>3, <2>5
  <2> QED BY <1>1, <2>4, <2>5
<1>6. PICK q : q = Thrown(r)
  OBVIOUS
<1>7. /\ Good(q)
      /\ \/ q.pc = -1
         \/ /\ Rel(q, w, HandlerFrame(state[k]))
            /\ \E e \in Catchers(method, k) : q.pc \in OpcodesAt(method, e.handler)
  BY <1>3, <1>4, <1>5, <1>6, ThrowStep
<1>8. CASE q.pc = -1
  <2>1. -1 \notin DOMAIN method.opcodes
    BY <1>3, Places
  <2> QED BY <1>5, <1>6, <1>8, <2>1 DEF Opcodes
<1>9. CASE /\ Rel(q, w, HandlerFrame(state[k]))
           /\ \E e \in Catchers(method, k) : q.pc \in OpcodesAt(method, e.handler)
  <2>1. PICK e \in Catchers(method, k) : q.pc \in OpcodesAt(method, e.handler)
    BY <1>9
  <2>2. q.pc \in DOMAIN state /\ Rel(q, w, state[q.pc])
    BY <1>2, <1>3, <1>9, <2>1, HandlerSent
  <2> QED BY <1>5, <1>6, <1>7, <2>2 DEF Arrived
<1> QED BY <1>7, <1>8, <1>9

\* The analysis is over before the method runs.
LEMMA AnalyseKeeps ==
  ASSUME Bound, RunInv, Analyse, UNCHANGED run
  PROVE  RunInv'
<1>1. ~done
  <2>1. done => work = <<>> /\ edges = <<>>
    BY DEF Bound, IInv
  <2> QED BY <2>1 DEF Analyse, Visit, Flow, Emit
<1>2. run = NotStarted /\ run' = run
  BY <1>1 DEF RunInv
<1>3. run'.pc = 0
  BY <1>2 DEF NotStarted
<1>4. method \in Methods /\ method' = method
  BY DEF Bound, ShapesHold, Analyse, Visit, Flow, Emit
<1>5. 0 \notin DOMAIN method.opcodes
  BY <1>4, Places
<1>6. ~Running'
  BY <1>3, <1>4, <1>5 DEF Running, Opcodes
<1>7. (~done => run = NotStarted)'
  BY <1>2 DEF NotStarted
<1> QED BY <1>6, <1>7 DEF RunInv

\* Every step keeps the invariant.
LEMMA RunKeeps ==
  ASSUME Bound, RunInv, [RunNext]_rvars
  PROVE  RunInv'
<1>1. CASE Analyse /\ UNCHANGED run
  BY <1>1, AnalyseKeeps
<1>2. CASE UNCHANGED rvars
  BY <1>2 DEF rvars, RunInv, Running, Opcodes, Arrived, NotStarted
<1>3. CASE Start \/ Execute \/ Jump \/ CallReturns \/ Throws
  <2>1. done /\ UNCHANGED fvars
    BY <1>3 DEF Start, Execute, Jump, CallReturns, Throws, Running
  <2>2. Arrived(run') \/ run'.pc \notin DOMAIN Opcodes
    BY <1>3, StartKeeps, ExecuteKeeps, JumpKeeps, CallReturnsKeeps, ThrowsKeeps
  <2>3. done' /\ state' = state /\ Opcodes' = Opcodes
    BY <2>1 DEF fvars, Opcodes
  <2>4. Running' => Arrived(run)'
    <3>1. SUFFICES ASSUME Running' PROVE Arrived(run)'
      OBVIOUS
    <3>2. Arrived(run')
      BY <2>2, <2>3, <3>1 DEF Running
    <3> QED BY <2>3, <3>2 DEF Arrived
  <2> QED BY <2>3, <2>4 DEF RunInv
<1> QED BY <1>1, <1>2, <1>3 DEF RunNext

\* It holds at the start, where nothing runs.
LEMMA RunStarts == ASSUME RunInit, ShapesHold PROVE RunInv
<1>1. run = NotStarted /\ method \in Methods
  BY DEF RunInit, ShapesHold
<1>2. run.pc = 0
  BY <1>1 DEF NotStarted
<1>3. 0 \notin DOMAIN Opcodes
  BY <1>1, Places DEF Opcodes
<1> QED BY <1>1, <1>2, <1>3 DEF RunInv, Running

\* The simulation, of every method in scope: wherever the execution is, through
\* whatever loops, handlers and pruned branches, some record w of the calls
\* relates it to the frame the analysis ended with.
THEOREM RunInvariant == RunSpec /\ []InScope => [](Bound /\ RunInv)
<1>1. RunInit => Init
  BY DEF RunInit
<1>2. RunInit /\ ShapesHold => RunInv
  BY RunStarts
<1>3. Bound /\ RunInv /\ [RunNext]_rvars => RunInv'
  BY RunKeeps
<1>4. IInv /\ ShapesHold /\ (done => Solution) /\ InScope => Bound
  BY DEF Bound
<1>5. Spec => [](IInv /\ ShapesHold)
  BY FramesShaped
<1>6. Spec => [](done => Solution)
  BY EmitsFromASolution
<1>7. RunSpec => Spec
  BY RunAnalyses
<1>8. RunSpec => RunInit /\ [][RunNext]_rvars
  BY PTL DEF RunSpec
<1> QED BY <1>2, <1>3, <1>4, <1>5, <1>6, <1>7, <1>8, PTL

-----------------------------------------------------------------------------
(* What the report says is so.                                             *)

\* No object has one of the numbers that stand for what is none.
LEMMA ObjectsNumbered ==
  ASSUME Good(run), NEW v
  PROVE  IsObject(v) => v \notin {0, Junk, Receiver, NonZero}
<1>1. DOMAIN run.objects = 1..Len(run.objects) /\ Len(run.objects) \in Nat
  BY SequenceFacts DEF Good
<1> QED BY <1>1 DEF IsObject, Junk, Receiver, NonZero

\* The relation says what Describes does.
LEMMA SaysDescribes ==
  ASSUME Good(run), NEW a, NEW v, Says(run, a, v)
  PROVE  Describes(a, v)
<1>1. CASE a.tag = "Zero"
  BY <1>1 DEF Says, Describes
<1>2. CASE a.tag = "Forged"
  <2>1. ~IsObject(v)
    BY <1>2, ObjectsNumbered DEF Says
  <2> QED BY <1>2, <2>1 DEF Describes
<1>3. CASE a.tag = "Handle"
  BY <1>3 DEF Says, Describes, IsObject
<1>4. CASE a.tag = "This"
  BY <1>4 DEF Says, Describes
<1>5. CASE a.tag = "AssertFlag"
  BY <1>5 DEF Says, Describes
<1>6. CASE a.tag = "CmpFieldZero"
  BY <1>6 DEF Says, Describes
<1>7. CASE a.tag \notin {"Zero", "Forged", "Handle", "This", "AssertFlag", "CmpFieldZero"}
  BY <1>7 DEF Describes
<1> QED BY <1>1, <1>2, <1>3, <1>4, <1>5, <1>6, <1>7

\* The property Described, for every method in scope and every number of
\* objects: the execution only reaches instructions the analysis reached, and
\* each abstract value, and each field that is "Definitely `0`"
\* (flow.rs:181-183), is so.
THEOREM FramesDescribe == RunSpec /\ []InScope => []Described
<1>1. Bound /\ RunInv => Described
  <2> SUFFICES ASSUME Bound, RunInv, Running PROVE Described
    BY DEF Described
  <2> DEFINE f == state[run.pc]
  <2>1. Good(run) /\ run.pc \in DOMAIN state /\ \E w : Rel(run, w, f)
    BY DEF RunInv, Arrived
  <2>2. PICK w : Rel(run, w, f)
    BY <2>1
  <2> HIDE DEF f
  <2>3. ASSUME NEW k \in 1..Depth
        PROVE  f.stack[k].wide = run.stack[k].wide /\ Describes(f.stack[k].val, run.stack[k].v)
    <3>1. OnStack(run, w, f.stack[k], run.stack[k])
      BY <2>2 DEF Rel, Depth
    <3> QED BY <2>1, <3>1, SaysDescribes DEF OnStack, Known
  <2>4. ASSUME NEW s \in Slots PROVE Describes(f.locals[s], run.locals[s])
    BY <2>1, <2>2, SaysDescribes DEF Rel, InLocal, Known
  <2>5. Len(f.stack) = Depth /\ \A x \in Fields : f.fields[x] = "Null" => run.fields[x] = 0
    BY <2>2 DEF Rel, InField, Depth
  <2> QED BY <2>1, <2>3, <2>4, <2>5 DEF Described, f
<1> QED BY <1>1, RunInvariant, PTL

\* The property ProvenanceIsReal: a handle whose frame names a field was held by
\* that field (flow.rs:174-176).
THEOREM ProvenanceHolds == RunSpec /\ []InScope => []ProvenanceIsReal
<1>1. Bound /\ RunInv => ProvenanceIsReal
  <2> SUFFICES ASSUME Bound, RunInv, Running PROVE ProvenanceIsReal
    BY DEF ProvenanceIsReal
  <2> DEFINE f == state[run.pc]
  <2>1. \E w : Rel(run, w, f)
    BY DEF RunInv, Arrived
  <2>2. PICK w : Rel(run, w, f)
    BY <2>1
  <2> HIDE DEF f
  <2>3. ASSUME NEW k \in 1..Depth PROVE CameFrom(f.stack[k].val, run.stack[k].v)
    BY <2>2 DEF Rel, OnStack, Known, CameFrom, Depth
  <2>4. ASSUME NEW s \in Slots PROVE CameFrom(f.locals[s], run.locals[s])
    BY <2>2 DEF Rel, InLocal, Known, CameFrom
  <2> QED BY <2>3, <2>4 DEF ProvenanceIsReal, f
<1> QED BY <1>1, RunInvariant, PTL

\* Where a finding about a call comes from.
LEMMA ReportedCall ==
  ASSUME ReportIs, Running, NEW code \in {"E063", "E065"}, NEW k, Reported(code, k)
  PROVE  LET f == state[run.pc]
         IN  \/ code = "E063" /\ k \in HandleParams(Op) /\ code \in CheckArg(f, Params(Op)[k], Arg(f, Op, k))
             \/ code = "E065" /\ AliasesExclusive(f, Op)
<1> DEFINE f == state[run.pc]
           d == [code |-> code, at |-> run.pc, arg |-> k]
<1>1. d \in Findings
  BY DEF ReportIs, Running, Reported, Gated
<1>2. d.code = code /\ d.at = run.pc /\ d.arg = k
  OBVIOUS
<1> HIDE DEF d
<1>3. d \notin CheckLeaks
  BY <1>2 DEF CheckLeaks
<1>4. PICK i \in DOMAIN state : d \in CheckInsn(body, state[i], i)
  BY <1>1, <1>3 DEF Findings
<1>5. i = run.pc
  BY <1>2, <1>4, FoundAt
<1>6. d \in CheckCall(f, Op, run.pc)
  BY <1>2, <1>4, <1>5, FoundAt DEF Op
<1>7. ASSUME NEW codes, NEW j, d \in Found(codes, run.pc, j) PROVE code \in codes /\ k = j
  BY <1>2, <1>7 DEF Found
<1>8. \/ \E j \in HandleParams(Op) : d \in Found(CheckArg(f, Params(Op)[j], Arg(f, Op, j)), run.pc, j)
      \/ AliasesExclusive(f, Op) /\ d \in Found({"E065"}, run.pc, 0)
  BY <1>6, CallFindings
<1>9. CASE \E j \in HandleParams(Op) : d \in Found(CheckArg(f, Params(Op)[j], Arg(f, Op, j)), run.pc, j)
  <2>1. PICK j \in HandleParams(Op) : d \in Found(CheckArg(f, Params(Op)[j], Arg(f, Op, j)), run.pc, j)
    BY <1>9
  <2>2. k = j /\ code \in CheckArg(f, Params(Op)[j], Arg(f, Op, j))
    BY <1>7, <2>1
  <2>3. code = "E063"
    BY <2>2 DEF CheckArg
  <2> QED BY <2>1, <2>2, <2>3
<1>10. CASE AliasesExclusive(f, Op) /\ d \in Found({"E065"}, run.pc, 0)
  <2>1. code = "E065"
    BY <1>7, <1>10
  <2> QED BY <1>10, <2>1
<1> QED BY <1>8, <1>9, <1>10

\* An argument of the call that is next.
LEMMA ActualKnown ==
  ASSUME Bound, RunInv, Running, Opcode.mn \in Invokes
  PROVE  \E w : \A k \in HandleParams(Op) :
           \E x : x.val = Arg(state[run.pc], Op, k) /\ OnStack(run, w, x, Actual(Op, k))
<1> DEFINE f == state[run.pc]
           c == Callees[Opcode.method]
           op == ClassifyOp(Opcode)
<1>1. ShapesHold /\ InScope
  BY DEF Bound
<1>2. /\ Good(run) /\ \E w : Rel(run, w, f)
      /\ Framed(f) /\ Fits(f.stack, StackMap(method)[run.pc])
      /\ Accepted(Opcode) /\ Finds(Opcode, StackMap(method)[run.pc]) /\ Op = op
  BY <1>1, Here DEF Op
<1>3. PICK w : Rel(run, w, f)
  BY <1>2
<1>4. Opcode.method \in DOMAIN Callees
  BY <1>2 DEF Accepted
<1>5. Operands(op) <= Len(f.stack)
  BY <1>2, <1>4, InvokeKept
<1>6. op.target = Opcode.method /\ Len(op.args) = Len(c.types)
  BY <1>4, CallFacts
<1>7. ASSUME NEW k \in HandleParams(op) PROVE k \in DOMAIN c.types
  <2>1. k \in DOMAIN Params(op)
    BY DEF HandleParams
  <2>2. CASE c.loaded
    BY <1>6, <2>1, <2>2 DEF Params, HasContract, FlowParams
  <2>3. CASE ~c.loaded
    BY <1>6, <2>1, <2>3 DEF Params, HasContract
  <2> QED BY <2>2, <2>3
<1> HIDE DEF op, f
<1>8. ASSUME NEW k \in HandleParams(op)
      PROVE  \E x : x.val = Arg(f, op, k) /\ OnStack(run, w, x, Actual(op, k))
  <2>1. k \in DOMAIN Callees[Opcode.method].types
    BY <1>7
  <2>2. \E x : x.val = Arg(f, op, k) /\ OnStack(run, w, x, ActualOf(Callees[Opcode.method], k))
    BY <1>2, <1>3, <1>4, <1>5, <2>1, ArgumentKnown DEF op
  <2>3. ActualOf(c, k) = Actual(op, k)
    BY <1>6 DEF ActualOf, Actual
  <2> QED BY <2>2, <2>3
<1>9. \A k \in HandleParams(Op) : \E x : x.val = Arg(f, Op, k) /\ OnStack(run, w, x, Actual(Op, k))
  BY <1>2, <1>8
<1> QED BY <1>9 DEF f

\* The property UseAfterMoveIsReal: E063 is no false alarm. On every execution
\* that reaches the call, the handle was consumed or had been moved out of its
\* local (flow.rs:273-277).
THEOREM UseAfterMoveHolds == RunSpec /\ []InScope => []UseAfterMoveIsReal
<1>1. Bound /\ RunInv /\ ReportIs => UseAfterMoveIsReal
  <2> SUFFICES ASSUME Bound, RunInv, ReportIs, Running, Opcode.mn \in Invokes,
                      NEW k \in HandleParams(Op), Reported("E063", k), IsObject(Actual(Op, k).v)
               PROVE  Actual(Op, k).v \in run.gone \/ Actual(Op, k).moved
    BY DEF UseAfterMoveIsReal, At
  <2> DEFINE e == Actual(Op, k)
             a == Arg(state[run.pc], Op, k)
  <2>1. "E063" \in CheckArg(state[run.pc], Params(Op)[k], a)
    BY ReportedCall
  <2>2. a.state = "Moved"
    BY <2>1 DEF CheckArg
  <2>3. PICK w : \A j \in HandleParams(Op) :
           \E x : x.val = Arg(state[run.pc], Op, j) /\ OnStack(run, w, x, Actual(Op, j))
    BY ActualKnown
  <2>4. PICK x : x.val = a /\ OnStack(run, w, x, e)
    BY <2>3
  <2> HIDE DEF a, e
  <2>5. e.v # 0
    <3>1. Good(run)
      BY DEF RunInv, Arrived
    <3> QED BY <3>1, ObjectsNumbered DEF e
  <2>6. e.v \in run.gone \/ e.moved
    BY <2>2, <2>4, <2>5 DEF OnStack
  <2> QED BY <2>6 DEF e
<1> QED BY <1>1, RunInvariant, ReportAlways, RunAnalyses, PTL

\* The property AliasIsReal: where E065 is reported the two arguments are the
\* same object whenever the call is reached (flow.rs:202-205).
THEOREM AliasHolds == RunSpec /\ []InScope => []AliasIsReal
<1>1. Bound /\ RunInv /\ ReportIs => AliasIsReal
  <2> SUFFICES ASSUME Bound, RunInv, ReportIs, Running, Opcode.mn \in Invokes, Reported("E065", 0)
               PROVE  \E k \in Exclusive(Op), j \in HandleParams(Op) : k # j /\ Actual(Op, k).v = Actual(Op, j).v
    BY DEF AliasIsReal, At
  <2> DEFINE a(k) == Arg(state[run.pc], Op, k)
  <2>1. AliasesExclusive(state[run.pc], Op)
    BY ReportedCall
  <2>2. PICK k \in Exclusive(Op), j \in HandleParams(Op) : k # j /\ a(k).id # NoId /\ a(k).id = a(j).id
    BY <2>1 DEF AliasesExclusive
  <2>3. k \in HandleParams(Op)
    BY DEF Exclusive
  <2>4. PICK w : \A n \in HandleParams(Op) :
           \E x : x.val = Arg(state[run.pc], Op, n) /\ OnStack(run, w, x, Actual(Op, n))
    BY ActualKnown
  <2>5. PICK x : x.val = a(k) /\ OnStack(run, w, x, Actual(Op, k))
    BY <2>3, <2>4
  <2>6. PICK y : y.val = a(j) /\ OnStack(run, w, y, Actual(Op, j))
    BY <2>4
  <2>7. /\ x.val.id = y.val.id /\ x.val.id # NoId
        /\ Identified(run, w, x.val, Actual(Op, k).v) /\ Identified(run, w, y.val, Actual(Op, j).v)
    BY <2>2, <2>5, <2>6 DEF OnStack, Known
  <2>8. Actual(Op, k).v = Actual(Op, j).v
    BY <2>7 DEF Identified, Ids
  <2> QED BY <2>2, <2>8
<1> QED BY <1>1, RunInvariant, ReportAlways, RunAnalyses, PTL

\* The property OverwriteIsReported: no store of a handle over a field that is
\* not 0 escapes W012, unless the analysis lost the stored value or the finding
\* is suppressed (flow.rs:1067-1069).
THEOREM OverwriteHolds == RunSpec /\ []InScope => []OverwriteIsReported
<1>1. Bound /\ RunInv /\ ReportIs => OverwriteIsReported
  <2> DEFINE x == Opcode.field.name
             f == state[run.pc]
             a == Peek(f, 1)
             op == ClassifyOp(Opcode)
             d == [code |-> "W012", at |-> run.pc, arg |-> 0]
  <2> SUFFICES ASSUME Bound, RunInv, ReportIs, Running, Opcode.mn = "putfield", OfThis(2, x),
                      IsObject(FromTop(1).v), run.fields[x] # 0, a.tag # "Top", ~Silenced(MethodScope, "W012")
               PROVE  Reported("W012", 0)
    BY DEF OverwriteIsReported, At
  <2>1. ShapesHold /\ InScope
    BY DEF Bound
  <2>2. /\ done /\ Good(run) /\ run.pc \in DOMAIN state /\ \E w : Rel(run, w, f)
        /\ Framed(f) /\ Fits(f.stack, StackMap(method)[run.pc])
        /\ Finds(Opcode, StackMap(method)[run.pc]) /\ body.code[run.pc].op = op
        /\ Followed(Opcode, op, f)
    BY <2>1, Here
  <2>3. PICK w : Rel(run, w, f)
    BY <2>2
  <2>4. x \in Fields /\ FromTop(2).v = Receiver
    BY DEF OfThis
  <2>5. op.name = "PutField" /\ op.field = x
    BY Classified DEF Member
  <2> HIDE DEF f, a, op, d, x
  <2>6. 2 <= Len(f.stack)
    <3> DEFINE m == StackMap(method)[run.pc]
    <3>1. EffectOn(Opcode, m) = Effects(Double(Slim, Wide(Opcode.field.type)), Empty)
      BY ShortEffects
    <3> HIDE DEF m
    <3>2. Fits(f.stack, m) /\ Finds(Opcode, m)
      BY <2>2 DEF m
    <3> QED BY <2>2, <3>1, <3>2, OperandWidths
  <2>7. 1 <= Len(f.stack)
    <3>1. Len(f.stack) \in Nat
      BY <2>2, SequenceFacts DEF Framed
    <3> QED BY <2>6, <3>1
  <2>8. Known(run, w, Peek(f, 1), FromTop(1).v) /\ Known(run, w, Peek(f, 2), FromTop(2).v)
    BY <2>2, <2>3, <2>6, <2>7, TopRelated
  <2>9. Peek(f, 2).tag # "Top"
    BY <2>2, <2>4, <2>5 DEF Followed, UsesField
  <2>10. OnThis(Peek(f, 2), op)
    <3>1. Peek(f, 2).tag = "This"
      BY <2>2, <2>4, <2>8, <2>9, ThisKnown
    <3> QED BY <2>4, <2>5, <3>1 DEF OnThis
  <2>11. IsHandle(a)
    <3>1. FromTop(1).v \notin {0, Junk, Receiver, NonZero}
      BY <2>2, ObjectsNumbered
    <3> QED BY <2>8, <3>1 DEF a, Known, Says, Tags, IsHandle
  <2>12. f.fields[x] # "Null"
    BY <2>3, <2>4 DEF Rel, InField
  <2>13. CheckFieldStore(f, op, run.pc) = Found({"W012"}, run.pc, 0)
    BY <2>5, <2>10, <2>11, <2>12 DEF CheckFieldStore, IsHandle, a
  <2>14. d \in Found({"W012"}, run.pc, 0) /\ d.code = "W012"
    BY DEF Found, d
  <2>15. CheckInsn(body, f, run.pc) = CheckFieldStore(f, op, run.pc)
    BY <2>2, <2>5 DEF CheckInsn
  <2>16. d \in CheckInsn(body, f, run.pc)
    BY <2>13, <2>14, <2>15
  <2>17. d \in Findings
    BY <2>2, <2>16 DEF Findings, f
  <2>18. d \in report
    BY <2>2, <2>14, <2>17 DEF ReportIs, Gated
  <2> QED BY <2>18 DEF Reported, d
<1> QED BY <1>1, RunInvariant, ReportAlways, RunAnalyses, PTL
=============================================================================
