----------------------------- MODULE FlowDomain -----------------------------
(***************************************************************************)
(* The abstract domain and the transfer functions of the handle-flow       *)
(* analysis, jnisafe-check/src/flow.rs, over the control-flow view of      *)
(* cfg.rs and the instructions of code.rs.                                 *)
(*                                                                         *)
(* A value is one stack entry, which remembers whether it is a long or a   *)
(* double.                                                                 *)
(***************************************************************************)
EXTENDS Lowering

CONSTANTS Slots,      \* local variable slots that are used
          Fields,     \* names of the handle fields of the class
          FieldPtr,   \* the pointer each of them is annotated with
          NoField

-----------------------------------------------------------------------------
(* Values.                                                                 *)

NoId       == <<"none">>
LocalId(n) == <<"local", n>>
FieldId(f) == <<"field", f>>
FreshId(at) == <<"fresh", at>>

Value(tag, p, st, id, f) == [tag |-> tag, ptr |-> p, state |-> st, id |-> id, from |-> f]
Plain(tag)            == Value(tag, NoPtr, "none", NoId, NoField)
Handle(p, st, id, f)  == Value("Handle", p, st, id, f)
CmpFieldZero(f)       == Value("CmpFieldZero", NoPtr, "none", NoId, f)

NotHandle == Plain("NotHandle")

IsHandle(v)  == v.tag = "Handle"
LiveOwned(v) == IsHandle(v) /\ v.ptr.kind = "Owned" /\ v.state = "Live"

\* The local a handle was last loaded from: a set of at most one slot.
LocalOf(v) == IF v.id[1] = "local" THEN {v.id[2]} ELSE {}

-----------------------------------------------------------------------------
(* Joins.                                                                  *)

\* (Changes TLC has to notice: the state, or the identity, of one side is kept.)
JoinValAnyState(a, b) ==
  IF IsHandle(a) /\ IsHandle(b) /\ a.ptr = b.ptr
  THEN Handle(a.ptr, a.state, IF a.id = b.id THEN a.id ELSE NoId,
              IF a.from = b.from THEN a.from ELSE NoField)
  ELSE IF a = b THEN a ELSE Plain("Top")

JoinValKeepsId(a, b) ==
  IF a = b THEN a
  ELSE IF IsHandle(a) /\ IsHandle(b) /\ a.ptr = b.ptr /\ a.state = b.state
       THEN a
       ELSE Plain("Top")

JoinVal(a, b) ==
  IF a = b THEN a
  ELSE IF IsHandle(a) /\ IsHandle(b) /\ a.ptr = b.ptr /\ a.state = b.state
       THEN Handle(a.ptr, a.state, IF a.id = b.id THEN a.id ELSE NoId,
                   IF a.from = b.from THEN a.from ELSE NoField)
       ELSE Plain("Top")

JoinField(a, b) == IF a = b THEN a ELSE "Unknown"

Item(v, wide)  == [val |-> v, wide |-> wide]
JoinItem(a, b) == Item(JoinVal(a.val, b.val), a.wide)

SameHeight(f, g) == DOMAIN f.stack = DOMAIN g.stack

\* (A change TLC has to notice: the later frame replaces the earlier one.)
MergeOverwrites(cur, new) == new

\* `merge`: frames of different heights are not joined.
Merge(cur, new) ==
  IF ~SameHeight(cur, new) THEN cur
  ELSE [stack  |-> [i \in DOMAIN cur.stack |-> JoinItem(cur.stack[i], new.stack[i])],
        locals |-> [s \in Slots |-> JoinVal(cur.locals[s], new.locals[s])],
        fields |-> [x \in Fields |-> JoinField(cur.fields[x], new.fields[x])]]

-----------------------------------------------------------------------------
(* Frames.                                                                 *)

Push(f, v, wide) == [f EXCEPT !.stack = Append(@, Item(v, wide))]

\* What is not there is popped as a value nothing is known of.
Pop(f, n)   == [f EXCEPT !.stack = SubSeq(@, 1, Len(@) - n)]
Top(f, n)   == IF n > Len(f.stack) THEN Item(NotHandle, FALSE)   \* the n-th from the top
               ELSE f.stack[Len(f.stack) - n + 1]
Peek(f, n)  == Top(f, n).val
Again(f, n) == IF n > Len(f.stack) THEN f ELSE [f EXCEPT !.stack = Append(@, Top(f, n))]

SetLocal(f, s, v)    == [f EXCEPT !.locals[s] = v]
SetField(f, x, st)   == [f EXCEPT !.fields[x] = st]

Reid(v, id) == IF IsHandle(v) THEN [v EXCEPT !.id = id] ELSE v
Moved(v)    == IF IsHandle(v) THEN [v EXCEPT !.state = "Moved"] ELSE v
MarkMoved(f, S) ==
  [f EXCEPT !.locals = [s \in Slots |-> IF s \in S THEN Moved(f.locals[s]) ELSE f.locals[s]]]

-----------------------------------------------------------------------------
(* `transfer`, by instruction.                                             *)

LoadLong(f, n) == Push(f, Reid(f.locals[n], LocalId(n)), TRUE)

\* (A change TLC has to notice: a stored handle keeps the identity it had.)
StoreLongKeepsId(f, n) ==
  LET v == Peek(f, 1)
      src == IF LiveOwned(v) THEN LocalOf(v) \ {n} ELSE {}
  IN  SetLocal(MarkMoved(Pop(f, 1), src), n, v)

\* An affine move out of the local a live owned handle came from.
StoreLong(f, n) ==
  LET v == Peek(f, 1)
      src == IF LiveOwned(v) THEN LocalOf(v) \ {n} ELSE {}
  IN  SetLocal(MarkMoved(Pop(f, 1), src), n, Reid(v, LocalId(n)))

LoadRef(f, n)  == Push(f, f.locals[n], FALSE)
StoreRef(f, n) == SetLocal(Pop(f, 1), n, Peek(f, 1))

\* A field is told by its name, on `this` only.
OnThis(recv, op) == recv.tag = "This" /\ op.field \in Fields

GetField(f, op) ==
  Push(Pop(f, 1), IF OnThis(Peek(f, 1), op)
                  THEN Handle(FieldPtr[op.field], "Live", FieldId(op.field), op.field)
                  ELSE NotHandle, op.wide)

StateOf(v) == CASE v.tag = "Zero"   -> "Null"
                [] v.tag = "Handle" -> "Live"
                [] OTHER            -> "Unknown"

PutField(f, op) == IF OnThis(Peek(f, 2), op)
                   THEN SetField(Pop(f, 2), op.field, StateOf(Peek(f, 1)))
                   ELSE Pop(f, 2)

GetStatic(f, op) ==
  Push(f, IF op.field = "$assertionsDisabled" THEN Plain("AssertFlag") ELSE NotHandle, op.wide)

\* The token of a comparison of a handle read from a field with 0.
LongCmp(f) ==
  LET vs == {Peek(f, 1), Peek(f, 2)}
      read == {v \in vs : IsHandle(v) /\ v.from # NoField}
  IN  Push(Pop(f, 2), IF read # {} /\ Plain("Zero") \in vs
                      THEN CmpFieldZero((CHOOSE v \in read : TRUE).from)
                      ELSE NotHandle, FALSE)

\* The contract of a callee; there is none for a class that is not loaded.
HasContract(op) == Callees[op.target].loaded
Params(op) == IF HasContract(op) THEN FlowParams(Callees[op.target]) ELSE <<>>
Ret(op)    == LET c == Callees[op.target] IN IF c.loaded THEN ToHandle(c.result, c.ret) ELSE NoPtr

\* The k-th argument, counted from the bottom if there are too few.
Arg(f, op, k) ==
  LET base == Len(f.stack) - Len(op.args)
      at == IF base < 0 THEN k ELSE base + k
  IN  IF at \in DOMAIN f.stack THEN f.stack[at].val ELSE NotHandle

\* The locals whose handles the call takes ownership of.
Consumed(f, op) ==
  UNION {LocalOf(Arg(f, op, k)) : k \in {j \in DOMAIN Params(op) : Params(op)[j].kind = "Owned"}}

Operands(op) == Len(op.args) + (IF op.static THEN 0 ELSE 1)

Result(op, at) ==
  IF Ret(op) # NoPtr THEN Handle(Ret(op), "Live", FreshId(at), NoField)
  ELSE IF op.ret = <<TRUE>> THEN Plain("Forged") ELSE NotHandle

Invoke(f, op, at) ==
  LET g == MarkMoved(Pop(f, Operands(op)), Consumed(f, op))
  IN  IF op.ret = <<>> THEN g ELSE Push(g, Result(op, at), op.ret[1])

\* dup2 and pop2 take one wide value or two narrow ones.
Dup2(f) == IF Top(f, 1).wide THEN Again(f, 1) ELSE Again(Again(f, 2), 2)
Pop2(f) == IF Top(f, 1).wide THEN Pop(f, 1) ELSE Pop(f, 2)

SwapTop(s) == LET n == Len(s) IN IF n < 2 THEN s ELSE [s EXCEPT ![n] = s[n - 1], ![n - 1] = s[n]]

Shuffle(f, op) ==
  CASE op.name = "dup"  -> Again(f, 1)
    [] op.name = "dup2" -> Dup2(f)
    [] op.name = "pop"  -> Pop(f, 1)
    [] op.name = "pop2" -> Pop2(f)
    [] op.name = "swap" -> [f EXCEPT !.stack = SwapTop(@)]
    [] OTHER -> Again(f, 1)   \* dup_x1 and the like: an approximation

Transfer(f, op, at) ==
  CASE op.name = "LongConst"   -> Push(f, IF op.zero THEN Plain("Zero") ELSE Plain("Forged"), TRUE)
    [] op.name = "LongCompute" -> Push(Pop(f, op.pops), Plain("Forged"), TRUE)
    [] op.name = "LoadLong"    -> LoadLong(f, op.n)
    [] op.name = "StoreLong"   -> StoreLong(f, op.n)
    [] op.name = "LoadRef"     -> LoadRef(f, op.n)
    [] op.name = "StoreRef"    -> StoreRef(f, op.n)
    [] op.name = "GetField"    -> GetField(f, op)
    [] op.name = "PutField"    -> PutField(f, op)
    [] op.name = "GetStatic"   -> GetStatic(f, op)
    [] op.name = "LongCmp"     -> LongCmp(f)
    [] op.name = "Invoke"      -> Invoke(f, op, at)
    [] op.name \in {"PutStatic", "Switch", "Athrow"} -> Pop(f, 1)
    [] op.name \in {"Branch", "Return"}  -> Pop(f, op.pops)
    [] op.name \in Shuffles    -> Shuffle(f, op)
    [] op.name = "Other"       -> [Pop(f, op.pops) EXCEPT
                                     !.stack = @ \o [k \in DOMAIN op.pushes |->
                                                       Item(NotHandle, op.pushes[k])]]
    [] OTHER                   -> f   \* Goto

-----------------------------------------------------------------------------
(* Control flow: where an instruction sends its frame, in the order the    *)
(* successors are merged, and what a branch learns about a field.          *)

NoRefine       == [field |-> NoField, is |-> "Unknown"]
Learn(x, st)   == [field |-> x, is |-> st]
\* An edge to the instruction of ts, if there is one, for each element of known.
Succ(ts, known) ==
  IF ts = {} THEN <<>>
  ELSE [k \in DOMAIN known |-> [to |-> CHOOSE t \in ts : TRUE, learn |-> known[k]]]
Sorted(S) ==
  [k \in 1..Cardinality(S) |-> CHOOSE x \in S : Cardinality({y \in S : y < x}) = k - 1]

\* `branch_edges`: what is known where the popped condition is 0, and where it is
\* not; a dead edge knows nothing and is not taken.
IfZero(cond) == IF cond.tag = "CmpFieldZero" THEN <<Learn(cond.from, "Null")>> ELSE <<NoRefine>>

IfNonZero(cond) == CASE cond.tag = "CmpFieldZero" -> <<Learn(cond.from, "Live")>>
                     [] cond.tag = "AssertFlag"   -> <<>>
                     [] OTHER                     -> <<NoRefine>>

Following(m, i) == {i + 1} \cap DOMAIN m.code
Taken(m, op)    == IndexOf(m, op.target)

\* (A change TLC has to notice: the two edges are taken for each other.)
BranchEdgesSwapped(m, i, op, cond) ==
  CASE op.kind = "IfNe" -> Succ(Following(m, i), IfNonZero(cond)) \o Succ(Taken(m, op), IfZero(cond))
    [] op.kind = "IfEq" -> Succ(Following(m, i), IfZero(cond)) \o Succ(Taken(m, op), IfNonZero(cond))
    [] OTHER -> Succ(Following(m, i), <<NoRefine>>) \o Succ(Taken(m, op), <<NoRefine>>)

BranchEdges(m, i, op, cond) ==
  CASE op.kind = "IfNe" -> Succ(Following(m, i), IfZero(cond)) \o Succ(Taken(m, op), IfNonZero(cond))
    [] op.kind = "IfEq" -> Succ(Following(m, i), IfNonZero(cond)) \o Succ(Taken(m, op), IfZero(cond))
    [] OTHER -> Succ(Following(m, i), <<NoRefine>>) \o Succ(Taken(m, op), <<NoRefine>>)

NormalSucc(m, i, f) ==
  LET op == m.code[i].op
      ts == Sorted(CASE op.name \in {"Return", "Athrow"} -> {}
                     [] op.name = "Goto"   -> IndexOf(m, op.target)
                     [] op.name = "Switch" -> UNION {IndexOf(m, t) : t \in op.targets}
                     [] OTHER              -> Following(m, i))
  IN  IF op.name = "Branch" THEN BranchEdges(m, i, op, Peek(f, 1))
      ELSE [k \in DOMAIN ts |-> [to |-> ts[k], learn |-> NoRefine]]

\* `exc_succ`: the handlers of the ranges an instruction lies in.
Handlers(m, i) ==
  UNION {IndexOf(m, e.handler) :
           e \in {x \in m.exceptions : x.start <= m.code[i].offset /\ m.code[i].offset < x.end}}

\* A handler sees the locals and fields as they were before the instruction.
HandlerFrame(f) == [f EXCEPT !.stack = <<Item(NotHandle, FALSE)>>]

Refined(f, learn) == [f EXCEPT !.fields = [x \in Fields |-> IF x = learn.field THEN learn.is
                                                            ELSE f.fields[x]]]

Edges(m, i, f) ==
  LET out == Transfer(f, m.code[i].op, m.code[i].offset)
      ss == NormalSucc(m, i, f)
      hs == Sorted(Handlers(m, i))
  IN  [k \in DOMAIN ss |-> [to |-> ss[k].to, frame |-> Refined(out, ss[k].learn)]]
        \o [k \in DOMAIN hs |-> [to |-> hs[k], frame |-> HandlerFrame(f)]]

=============================================================================
