----------------------------- MODULE HandleFlow -----------------------------
(***************************************************************************)
(* jnisafe-check/src/flow.rs over a class with one method that has code:   *)
(* the checks of the declarations, then analyze_method, a forward worklist *)
(* over the instructions of the method and one pass over the converged     *)
(* frames that reports.  The merge of an edge is a step of its own; Visit  *)
(* is the pop and the transfer before it.                                  *)
(***************************************************************************)
EXTENDS FlowDomain

CONSTANTS
  Methods,          \* the methods to analyse, as the class file has them
  ExposedFields,    \* the handle fields that are public or protected
  SuppressedFields, \* the @SuppressJni categories of each field
  SuppressedClass   \* and of the class

\* The opcodes of a method are a sequence.
ASSUME MethodsAssumption ==
  \A b \in Methods : b.opcodes \in Seq(ToSet(b.opcodes))

VARIABLES
  method,  \* the method that is analysed
  body,    \* what the lowering makes of it
  state,   \* the frame before each instruction reached so far
  work,    \* the worklist
  edges,   \* out-frames of the instruction just visited, still to merge
  report,  \* the findings about instructions: [code, at, arg]
  members, \* the findings about declarations: [code, member]
  done     \* whether the emission pass has run

fvars == <<method, body, state, work, edges, report, members, done>>

-----------------------------------------------------------------------------
(* @SuppressJni.                                                           *)

Category(code) ==
  CASE code = "E060" -> "forge"
    [] code = "E061" -> "transmute"
    [] code \in {"E062", "E063", "E064", "E065"} -> "alias"
    [] code = "W010" -> "annotate"
    [] code \in {"W011", "W012", "W013"} -> "forget"
    [] code = "W014" -> "expose"

\* `gated`: scopes are the categories silenced on the member and on its class.
Silenced(scopes, code) == scopes \cap {"all", Category(code)} # {}
Gated(scopes, found)   == {d \in found : ~Silenced(scopes, d.code)}

MethodScope   == body.suppressed \cup SuppressedClass
FieldScope(x) == SuppressedFields[x] \cup SuppressedClass

-----------------------------------------------------------------------------
(* Declarations.                                                           *)

About(code, member) == [code |-> code, member |-> member]

\* `check_exposed_handles`; the members of the method are its return and its
\* parameters.
Exposed(m) ==
  (UNION {Gated(FieldScope(x), {About("W014", x)}) : x \in ExposedFields})
    \cup Gated(m.suppressed \cup SuppressedClass,
               {About("W014", part) : part \in
                  IF ~m.exposed THEN {}
                  ELSE (IF m.ret # NoPtr THEN {"return"} ELSE {})
                    \cup {"params" : k \in {k \in DOMAIN m.params : m.params[k].handle # NoPtr}}})

-----------------------------------------------------------------------------
\* What a parameter is when the method is entered.
Parameter(p) == IF p.handle # NoPtr THEN Handle(p.handle, "Live", LocalId(p.slot), NoField)
                ELSE IF p.wide THEN Plain("Forged") ELSE NotHandle

\* The frame a method is entered with.
Entry(m) ==
  LET at(s) == {k \in DOMAIN m.params : m.params[k].slot = s}
  IN  [stack  |-> <<>>,
       locals |-> [s \in Slots |->
                     IF at(s) # {} THEN Parameter(m.params[CHOOSE k \in at(s) : TRUE])
                     ELSE IF s = 0 /\ ~m.static THEN Plain("This") ELSE NotHandle],
       fields |-> [x \in Fields |-> IF m.ctor THEN "Null" ELSE "Unknown"]]

Init ==
  /\ method \in {b \in Methods : Analysed(b)}
  /\ body = LowerMethod(method)
  /\ state = [i \in {1} |-> Entry(body)]
  /\ work = <<1>>
  /\ edges = <<>>
  /\ report = {}
  /\ members = Exposed(body)
  /\ done = FALSE

\* Take the next instruction of the worklist and compute its out-frames.
Visit ==
  /\ edges = <<>>
  /\ work # <<>>
  /\ edges' = Edges(body, Head(work), state[Head(work)])
  /\ work' = Tail(work)
  /\ UNCHANGED <<method, body, state, report, members, done>>

WithState(i, f) == [j \in DOMAIN state \cup {i} |-> IF j = i THEN f ELSE state[j]]

\* (A change TLC has to notice: an instruction is scheduled once only.)
FlowOnce ==
  /\ edges # <<>>
  /\ LET to == Head(edges).to
         old == to \in DOMAIN state
         new == IF old THEN Merge(state[to], Head(edges).frame) ELSE Head(edges).frame
     IN  /\ state' = WithState(to, new)
         /\ work' = IF old THEN work ELSE Append(work, to)
  /\ edges' = Tail(edges)
  /\ UNCHANGED <<method, body, report, members, done>>

\* Merge one out-frame, and schedule its instruction if that changed anything.
Flow ==
  /\ edges # <<>>
  /\ LET to == Head(edges).to
         old == to \in DOMAIN state
         new == IF old THEN Merge(state[to], Head(edges).frame) ELSE Head(edges).frame
     IN  /\ state' = WithState(to, new)
         /\ work' = IF old /\ new = state[to] THEN work ELSE Append(work, to)
  /\ edges' = Tail(edges)
  /\ UNCHANGED <<method, body, report, members, done>>

-----------------------------------------------------------------------------
(* The findings of one instruction, from its converged frame.              *)

Found(codes, i, k) == {[code |-> c, at |-> i, arg |-> k] : c \in codes}

FieldHolds(f, v) == v.from # NoField /\ f.fields[v.from] # "Null"

\* `check_call` for one argument: the first of its cases that applies.
CheckArg(f, expected, v) ==
  IF v.tag = "Forged" \/ (v.tag = "Zero" /\ ~expected.nullable) THEN {"E060"}
  ELSE IF ~IsHandle(v) THEN {}
  ELSE IF v.state = "Moved" THEN {"E063"}
  ELSE IF v.ptr.type # expected.type THEN {"E061"}
  ELSE IF expected.kind = "Mut" /\ v.ptr.kind = "Ref" THEN {"E062"}
  ELSE IF expected.kind = "Owned" /\ FieldHolds(f, v) THEN {"E064"}
  ELSE {}

HandleParams(op) == {k \in DOMAIN Params(op) : Params(op)[k] # NoPtr}
Exclusive(op)    == {k \in HandleParams(op) : Params(op)[k].kind \in {"Mut", "Owned"}}

\* `aliases_exclusive`: an exclusive argument has the identity of another one.
AliasesExclusive(f, op) ==
  \E k \in Exclusive(op), j \in HandleParams(op) :
    /\ k # j
    /\ Arg(f, op, k).id # NoId
    /\ Arg(f, op, k).id = Arg(f, op, j).id

CheckCall(f, op, i) ==
  (UNION {Found(CheckArg(f, Params(op)[k], Arg(f, op, k)), i, k) : k \in HandleParams(op)})
    \cup (IF AliasesExclusive(f, op) THEN Found({"E065"}, i, 0) ELSE {})

\* (A change TLC has to notice: the annotation is looked up at the store.)
CheckUnannotatedAtStore(m, f, i) ==
  IF IsHandle(Peek(f, 1)) /\ ~LocalAnnotatedAt(m, m.code[i].op.n, m.code[i].offset)
  THEN Found({"W010"}, i, 0) ELSE {}

\* `check_unannotated_local`: the scope of a local begins after its first store.
CheckUnannotatedLocal(m, f, i) ==
  LET next == IF i + 1 \in DOMAIN m.code THEN i + 1 ELSE i
  IN  IF IsHandle(Peek(f, 1)) /\ ~LocalAnnotatedAt(m, m.code[i].op.n, m.code[next].offset)
      THEN Found({"W010"}, i, 0) ELSE {}

\* (A change TLC has to notice: a field that may be live is taken for empty.)
CheckFieldStoreLiveOnly(f, op, i) ==
  LET v == Peek(f, 1)
  IN  IF ~OnThis(Peek(f, 2), op) THEN {}
      ELSE IF v.tag = "Forged" THEN Found({"E060"}, i, 0)
      ELSE IF IsHandle(v) /\ f.fields[op.field] = "Live" THEN Found({"W012"}, i, 0)
      ELSE {}

CheckFieldStore(f, op, i) ==
  LET v == Peek(f, 1)
  IN  IF ~OnThis(Peek(f, 2), op) THEN {}
      ELSE IF v.tag = "Forged" THEN Found({"E060"}, i, 0)
      ELSE IF IsHandle(v) /\ f.fields[op.field] # "Null" THEN Found({"W012"}, i, 0)
      ELSE {}

CheckOwnedReturn(m, f, i) ==
  IF m.ret.kind = "Owned" /\ IsHandle(Peek(f, 1)) /\ FieldHolds(f, Peek(f, 1))
  THEN Found({"E064"}, i, 0) ELSE {}

CheckInsn(m, f, i) ==
  LET op == m.code[i].op
  IN  CASE op.name = "Invoke"    -> CheckCall(f, op, i)
        [] op.name = "StoreLong" -> CheckUnannotatedLocal(m, f, i)
        [] op.name = "PutField"  -> CheckFieldStore(f, op, i)
        [] op.name = "Return" /\ op.pops = 1 -> CheckOwnedReturn(m, f, i)
        [] OTHER -> {}

\* `check_leaks`: W011 once for each local that is a live owned handle at some
\* return; arg is the local.
Returns == {i \in DOMAIN state : body.code[i].op.name = "Return"}
CheckLeaks ==
  {[code |-> "W011", at |-> 0, arg |-> s] :
     s \in {s \in Slots : \E i \in Returns : LiveOwned(state[i].locals[s])}}

\* The fields whose handle an instruction hands to an owner.
DisposedAt(m, f, i) ==
  LET op == m.code[i].op
      vs == CASE op.name = "Invoke" ->
                   {Arg(f, op, k) : k \in {k \in HandleParams(op) : Params(op)[k].kind = "Owned"}}
              [] op.name = "Return" /\ op.pops = 1 /\ m.ret.kind = "Owned" -> {Peek(f, 1)}
              [] OTHER -> {}
  IN  {v.from : v \in {v \in vs : IsHandle(v)}} \ {NoField}

\* W013: an owned field that no method disposes of.
NeverDisposed ==
  LET disposed == UNION {DisposedAt(body, state[i], i) : i \in DOMAIN state}
      kept == {x \in Fields : FieldPtr[x].kind = "Owned"} \ disposed
  IN  UNION {Gated(FieldScope(x), {About("W013", x)}) : x \in kept}

\* The emission pass.
Emit ==
  /\ edges = <<>> /\ work = <<>> /\ ~done
  /\ report' = Gated(MethodScope,
                     (UNION {CheckInsn(body, state[i], i) : i \in DOMAIN state}) \cup CheckLeaks)
  /\ members' = members \cup NeverDisposed
  /\ done' = TRUE
  /\ UNCHANGED <<method, body, state, work, edges>>

Analyse == Visit \/ Flow \/ Emit

Spec == Init /\ [][Analyse]_fvars

\* The analyser is a loop that nothing interrupts.
FairSpec == Spec /\ WF_fvars(Analyse)

-----------------------------------------------------------------------------
(* Properties.                                                             *)

\* What an instruction sends is already part of the frame of its successor.
\* Frames of another height are refused by `merge` (flow.rs:300-302).
Absorbed(e) == /\ e.to \in DOMAIN state
               /\ \/ state[e.to] = e.frame
                  \/ ~SameHeight(state[e.to], e.frame)
                  \/ Merge(state[e.to], e.frame) = state[e.to]

\* The worklist forgets nothing: whatever an instruction not waiting in it sends
\* on, to its successors or to a handler, has been merged or is about to be.  At
\* the end the frames are therefore a solution of the flow equations (the loop of
\* analyze_method, flow.rs:401-459).
Covered ==
  ~done => \A i \in DOMAIN state :
    \/ i \in ToSet(work)
    \/ \A e \in ToSet(Edges(body, i, state[i])) : e \in ToSet(edges) \/ Absorbed(e)

\* W010 never names a local whose declaration is annotated, though the annotation
\* covers the variable only after the instruction that defines it (flow.rs:572-573).
\* A method's own parameters are not among its annotated locals; no local of these
\* methods shares its slot with another one or goes out of scope before the end.
UnannotatedIsReal ==
  \A d \in report : d.code = "W010" => \A a \in method.locals : a.slot # body.code[d.at].op.n

\* The worklist runs empty for every method, loops included: the frames of an
\* instruction only ever move up a lattice of finite height (flow.rs:273-303).
AnalysisEnds == <>done
=============================================================================
