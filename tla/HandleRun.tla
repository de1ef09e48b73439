----------------------------- MODULE HandleRun ------------------------------
(***************************************************************************)
(* The findings of jnisafe-check against the method itself.  Once the      *)
(* analysis is done, the method runs: on a JVM with assertions enabled,    *)
(* with natives that do what their annotations say, that may throw before  *)
(* or after they do it, and with a caller that keeps the annotations of    *)
(* the parameters.  Each property then relates what the report says of an  *)
(* instruction to the executions that reach it.                            *)
(*                                                                         *)
(* It is the bytecode of the class file that runs; the analysis has seen   *)
(* what the lowering made of it.                                           *)
(*                                                                         *)
(* A long is 0, a handle (the number of the object behind it) or Junk.     *)
(* The native calls that make objects number them.                         *)
(***************************************************************************)
EXTENDS HandleFlow, Jvm

CONSTANTS MaxObjects   \* bound: objects one execution deals with

VARIABLE
  run   \* the execution: [pc, stack, locals, fields, held, objects, gone, moved]

rvars == <<method, body, state, work, edges, report, members, done, run>>

NoSlot == -1
Junk == -1       \* a long that is no handle, a reference, an int
Receiver == -2   \* the reference `this`
NonZero == -3    \* an int other than 0

\* A stack entry remembers its width, the local it was loaded from, and whether
\* that local had been moved out of by then.  A handle stays moved when it is
\* copied on.
Fresh(v, wide) == [v |-> v, wide |-> wide, src |-> NoSlot, moved |-> FALSE]

\* What a value of an unknown content is on the stack.
Unknown(types) == [k \in DOMAIN types |-> Fresh(Junk, Wide(types[k]))]

NotStarted == [pc |-> 0]
Opcodes    == method.opcodes
Running    == done /\ run.pc \in DOMAIN Opcodes
Opcode     == Opcodes[run.pc]

-----------------------------------------------------------------------------
\* The method is called: its arguments are laid out one after the other, a long
\* over two slots.  Each handle parameter is an object of its own, and so is what
\* a field holds unless it is 0.
Arguments(b) ==
  LET first == IF "static" \in b.access THEN 0 ELSE 1
      longs(k) == {j \in 1..(k - 1) : b.types[j] \in {"J", "D"}}
  IN  [k \in DOMAIN b.types |-> first + (k - 1) + Cardinality(longs(k))]

Begin(full) ==
  LET b == method
      at == Arguments(b)
      ks == Sorted({k \in DOMAIN b.types : b.types[k] = "J" /\ b.params[k] # NoPtr})
      fs == SetToSeq(full)
      num(seq, x) == CHOOSE k \in DOMAIN seq : seq[k] = x
      content(x) == IF x \in full THEN Len(ks) + num(fs, x) ELSE 0
  IN  [pc |-> 1, stack |-> <<>>,
       locals |-> [s \in Slots |-> IF \E k \in ToSet(ks) : at[k] = s
                                   THEN num(ks, CHOOSE k \in ToSet(ks) : at[k] = s)
                                   ELSE IF s = 0 /\ "static" \notin b.access THEN Receiver ELSE Junk],
       fields |-> [x \in Fields |-> content(x)],
       held |-> [x \in Fields |-> {content(x)}],
       objects |-> [k \in DOMAIN ks |-> b.params[ks[k]]] \o [k \in DOMAIN fs |-> FieldPtr[fs[k]]],
       gone |-> {}, moved |-> {}]

Start ==
  /\ done /\ run.pc = 0
  /\ \E full \in SUBSET Fields : (body.ctor => full = {}) /\ run' = Begin(full)
  /\ UNCHANGED fvars

-----------------------------------------------------------------------------
(* Instructions.                                                           *)

Depth      == Len(run.stack)
FromTop(n) == run.stack[Depth - n + 1]
IsObject(v) == v \in DOMAIN run.objects

\* Replace n operands by the values of push, and fall through.
Compute(n, push) == [run EXCEPT !.pc = @ + 1,
                                !.stack = SubSeq(@, 1, Depth - n) \o push]

\* A live owned handle is moved out of the local it was loaded from, if that
\* local still holds it.
LeavesLocal(e) == IF e.src # NoSlot /\ run.locals[e.src] = e.v THEN {e.src} ELSE {}

StoreLocal(s) ==
  LET e == FromTop(1)
      owned == IsObject(e.v) /\ run.objects[e.v].kind = "Owned"
      left == IF owned /\ ~e.moved THEN LeavesLocal(e) ELSE {}
  IN  [Compute(1, <<>>) EXCEPT
         !.locals[s] = e.v,
         !.moved = ((@ \cup left) \ {s}) \cup (IF e.moved THEN {s} ELSE {})]

\* A field of `this` that is not a handle field is of no interest.
OfThis(n, x) == FromTop(n).v = Receiver /\ x \in Fields

StoreField(x) ==
  IF OfThis(2, x) THEN [Compute(2, <<>>) EXCEPT !.fields[x] = FromTop(1).v,
                                                !.held[x] = @ \cup {FromTop(1).v}]
  ELSE Compute(2, <<>>)

\* An assertion is enabled: $assertionsDisabled is 0.
Static(field) == IF field.name = "$assertionsDisabled" THEN 0 ELSE Junk

Duplicate == IF FromTop(1).wide THEN <<FromTop(1)>> ELSE <<FromTop(2), FromTop(1)>>

\* The one outcome of an instruction that neither jumps nor calls.
Straight(i) ==
  CASE i.mn = "lconst_0"  -> Compute(0, <<Fresh(0, TRUE)>>)
    [] i.mn = "ldc2_w"    -> Compute(0, <<Fresh(IF i.long /\ i.value = 0 THEN 0 ELSE Junk, TRUE)>>)
    [] i.mn = "lload"     -> Compute(0, <<[v |-> run.locals[i.n], wide |-> TRUE, src |-> i.n,
                                           moved |-> i.n \in run.moved]>>)
    [] i.mn = "aload"     -> Compute(0, <<Fresh(run.locals[i.n], FALSE)>>)
    [] i.mn \in {"lstore", "astore"} -> StoreLocal(i.n)
    [] i.mn = "getfield"  -> Compute(1, <<Fresh(IF OfThis(1, i.field.name) THEN run.fields[i.field.name]
                                                ELSE Junk, Wide(i.field.type))>>)
    [] i.mn = "putfield"  -> StoreField(i.field.name)
    [] i.mn = "getstatic" -> Compute(0, <<Fresh(Static(i.field), Wide(i.field.type))>>)
    [] i.mn = "putstatic" -> Compute(1, <<>>)
    [] i.mn = "lcmp"      -> Compute(2, <<Fresh(IF FromTop(1).v = FromTop(2).v THEN 0 ELSE NonZero, FALSE)>>)
    [] i.mn = "dup"       -> Compute(0, <<FromTop(1)>>)
    [] i.mn = "dup2"      -> Compute(0, Duplicate)
    [] i.mn = "pop"       -> Compute(1, <<>>)
    [] i.mn = "pop2"      -> Compute(Len(Duplicate), <<>>)
    [] i.mn = "swap"      -> Compute(2, <<FromTop(1), FromTop(2)>>)
    [] i.mn = "multianewarray" -> Compute(i.dims, Unknown(<<"A">>))
    [] i.mn = "invokedynamic"  -> Compute(Len(i.captured), Unknown(<<"A">>))
    [] OTHER -> LET s == SignatureOf(i.mn) IN Compute(Len(s.in), Unknown(s.out))

Branches == IfOne \cup IfTwo
Switches == {"tableswitch", "lookupswitch"}
Leaves   == ValueReturns \cup {"return"}

Execute ==
  /\ Running
  /\ Opcode.mn \notin Branches \cup Switches \cup Invokes \cup Leaves \cup {"goto", "athrow"}
  /\ run' = Straight(Opcode)
  /\ UNCHANGED fvars

\* Where a distance leads.
Landing(d) == CHOOSE k \in DOMAIN Opcodes : Opcodes[k].at = Opcode.at + d

Landings(i) ==
  CASE i.mn = "goto"        -> {Landing(i.to)}
    [] i.mn \in Switches    -> {Landing(d) : d \in i.to}
    [] OTHER ->
         LET v == FromTop(1).v
             may(isZero) == v = Junk \/ (v = 0) = isZero
             taken == CASE i.mn = "ifeq" -> may(TRUE) [] i.mn = "ifne" -> may(FALSE) [] OTHER -> TRUE
             passed == CASE i.mn = "ifeq" -> may(FALSE) [] i.mn = "ifne" -> may(TRUE) [] OTHER -> TRUE
         IN  (IF taken THEN {Landing(i.to)} ELSE {}) \cup (IF passed THEN {run.pc + 1} ELSE {})

Jump ==
  /\ Running
  /\ Opcode.mn \in Branches \cup Switches \cup {"goto"}
  /\ \E t \in Landings(Opcode) :
       run' = [Compute(Len(SignatureOf(Opcode.mn).in), <<>>) EXCEPT !.pc = t]
  /\ UNCHANGED fvars

-----------------------------------------------------------------------------
(* Calls.                                                                  *)

Callee(i) == Callees[i.method]

\* The pointer of the k-th parameter of the callee, and the argument.
ParamPtr(c, k) == IF c.types[k] = "J" THEN c.params[k] ELSE NoPtr
ActualOf(c, k) == run.stack[Depth - Len(c.types) + k]

\* What the callee does to the handles it takes ownership of.
Effect(c) ==
  LET taken == {ActualOf(c, k) : k \in {j \in DOMAIN c.types : ParamPtr(c, j).kind = "Owned"}}
  IN  [run EXCEPT !.gone = @ \cup ({e.v : e \in taken} \cap DOMAIN run.objects),
                  !.moved = @ \cup UNION {LeavesLocal(e) : e \in taken}]

\* A call that returns a handle makes an object.
CallReturns ==
  /\ Running
  /\ Opcode.mn \in Invokes
  /\ LET c == Callee(Opcode)
         receiver == IF Opcode.mn = "invokestatic" THEN 0 ELSE 1
         after == [Effect(c) EXCEPT !.pc = @ + 1,
                                    !.stack = SubSeq(@, 1, Depth - Len(c.types) - receiver)]
         new == Len(run.objects) + 1
     IN  IF c.result = "J" /\ c.ret # NoPtr
         THEN /\ new <= MaxObjects
              /\ run' = [after EXCEPT !.objects = Append(@, c.ret),
                                      !.stack = Append(@, Fresh(new, TRUE))]
         ELSE run' = IF c.result = "V" THEN after
                     ELSE [after EXCEPT !.stack = @ \o Unknown(<<c.result>>)]
  /\ UNCHANGED fvars

\* Control leaves through the handler, or leaves the method.
Thrown(r) ==
  LET hs == {e \in method.exceptions : e.start <= Opcode.at /\ Opcode.at < e.end}
  IN  IF hs = {} THEN [r EXCEPT !.pc = -1]
      ELSE LET e == CHOOSE e \in hs : TRUE
           IN  [r EXCEPT !.pc = CHOOSE k \in DOMAIN Opcodes : Opcodes[k].at = e.handler,
                         !.stack = Unknown(<<"A">>)]

Throws ==
  /\ Running
  /\ \/ Opcode.mn \in Invokes \cup {"athrow"} /\ run' = Thrown(run)
     \/ Opcode.mn \in Invokes /\ run' = Thrown(Effect(Callee(Opcode)))
  /\ UNCHANGED fvars

-----------------------------------------------------------------------------
RunInit == Init /\ run = NotStarted

RunNext == \/ Analyse /\ UNCHANGED run
           \/ Start \/ Execute \/ Jump \/ CallReturns \/ Throws

RunSpec == RunInit /\ [][RunNext]_rvars /\ WF_rvars(Analyse /\ UNCHANGED run)

-----------------------------------------------------------------------------
(* Properties.                                                             *)

\* What an abstract value says of a concrete one.
Describes(a, v) ==
  CASE a.tag = "Zero"         -> v = 0
    [] a.tag = "Forged"       -> ~IsObject(v)
    [] a.tag = "Handle"       -> v = 0 \/ (IsObject(v) /\ run.objects[v].type = a.ptr.type)
    [] a.tag = "This"         -> v = Receiver
    [] a.tag = "AssertFlag"   -> v = 0
    [] a.tag = "CmpFieldZero" -> (v = 0) <=> (run.fields[a.from] = 0)
    [] OTHER                  -> TRUE

\* The analysis is sound for the values it tracks: an execution only reaches
\* instructions the analysis reached, with a stack of the height and the widths it
\* found, and each value is what the converged frame says.  In particular a field
\* the frame calls Null is 0 ("Definitely `0`", flow.rs:181-183), also behind
\* exceptions and pruned branches; and the lowering of the bytecode keeps "the
\* abstract stack balanced" (code.rs:9-12).
Described ==
  Running =>
    /\ run.pc \in DOMAIN state
    /\ LET f == state[run.pc]
       IN  /\ Len(f.stack) = Depth
           /\ \A k \in 1..Depth : /\ f.stack[k].wide = run.stack[k].wide
                                  /\ Describes(f.stack[k].val, run.stack[k].v)
           /\ \A s \in Slots : Describes(f.locals[s], run.locals[s])
           /\ \A x \in Fields : f.fields[x] = "Null" => run.fields[x] = 0

\* A handle the analysis derives from a field is one that field did hold, whatever
\* copies, merges and handlers it came through (flow.rs:174-176 "the owned field
\* this handle was originally read out of").  E064, and the silence of W013 about
\* a field that is disposed of, rest on it.
CameFrom(a, v) == (IsHandle(a) /\ a.from # NoField) => v \in run.held[a.from]
ProvenanceIsReal ==
  Running /\ run.pc \in DOMAIN state =>
    LET f == state[run.pc]
    IN  /\ \A k \in 1..Depth : CameFrom(f.stack[k].val, run.stack[k].v)
        /\ \A s \in Slots : CameFrom(f.locals[s], run.locals[s])

Junks(types) == [k \in DOMAIN types |-> Item(NotHandle, Wide(types[k]))]
Widths(stack) == [k \in DOMAIN stack |-> stack[k].wide]
Operand(mn) == [at |-> 0, mn |-> mn, n |-> CHOOSE s \in Slots : TRUE,
                to |-> IF mn \in Switches THEN {0} ELSE 0]
SameEffect ==
  \A s \in Signatures :
    LET below == Junks(<<"A">>)
        f == [stack  |-> below \o Junks(s.in),
              locals |-> [x \in Slots |-> NotHandle], fields |-> [x \in Fields |-> "Unknown"]]
    IN  Widths(Transfer(f, ClassifyOp(Operand(s.mn)), 0).stack) = Widths(below \o Junks(s.out))

\* Whatever a method is made of, the value-level effect recorded for an opcode is
\* the one it has on the JVM's stack (code.rs:9-12): else every operand below it
\* is taken for another one.  invokedynamic and the dup_x family are approximated
\* and left out.
OpcodesBalanced == done => SameEffect

Reported(code, k) == [code |-> code, at |-> run.pc, arg |-> k] \in report
At(mns) == Running /\ Opcode.mn \in mns

\* The instruction as the analysis sees it.
Op == body.code[run.pc].op
Actual(op, k) == run.stack[Depth - Len(op.args) + k]

\* E063 is no false alarm: on every execution that reaches the call the handle
\* was consumed, or had been moved out of the local it is loaded from, since that
\* local was last assigned (flow.rs:273-277 "avoiding false positives at merges").
UseAfterMoveIsReal ==
  At(Invokes) =>
    \A k \in HandleParams(Op) :
      LET e == Actual(Op, k)
      IN  Reported("E063", k) /\ IsObject(e.v) => e.v \in run.gone \/ e.moved

\* E065 is no false alarm: the call really gets one handle twice, once for an
\* exclusive borrow (flow.rs:202-205 "provably the same handle").
AliasIsReal ==
  At(Invokes) /\ Reported("E065", 0) =>
    \E k \in Exclusive(Op), j \in HandleParams(Op) :
      k # j /\ Actual(Op, k).v = Actual(Op, j).v

\* Storing a handle over another one is reported, unless the analysis lost track
\* of the stored value or the finding is suppressed (flow.rs:1067-1069
\* "overwriting a field that may still hold a live handle is W012").
OverwriteIsReported ==
  At({"putfield"}) =>
    LET x == Opcode.field.name
    IN  OfThis(2, x) /\ IsObject(FromTop(1).v) /\ run.fields[x] # 0
          => \/ Reported("W012", 0)
             \/ Peek(state[run.pc], 1).tag = "Top"
             \/ Silenced(MethodScope, "W012")

\* "This `@Owned` handle is never consumed (passed to an owning native),
\* returned, or stored before the method returns" (flow.rs:630-631): what a
\* method hands to its caller is not reported as leaked.
LeakIsReal ==
  At(ValueReturns) =>
    \A s \in Slots :
      [code |-> "W011", at |-> 0, arg |-> s] \in report /\ IsObject(run.locals[s])
        => run.locals[s] # FromTop(1).v

\* "Owned handle consumed without clearing its field ... move the handle out
\* (read it to a local and set the field to `0`) *before* consuming it"
\* (flow.rs:990-997): a field that is 0 is not complained about.
TakeIsReal ==
  At(Invokes) =>
    \A k \in HandleParams(Op) :
      Reported("E064", k) /\ IsObject(Actual(Op, k).v)
        => run.fields[Arg(state[run.pc], Op, k).from] # 0
=============================================================================
