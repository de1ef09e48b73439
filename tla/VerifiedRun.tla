----------------------------- MODULE VerifiedRun ----------------------------
(***************************************************************************)
(* The class files and the executions the theorems about HandleRun are     *)
(* about.  A class file is one the verifier of the JVM accepts: each       *)
(* instruction finds its operands on the stack, whatever way control takes *)
(* to it.  The other conditions are limits of flow.rs, stated over the     *)
(* frames it ends with: where it follows an operand by the local or the    *)
(* field it was loaded from, that local or field has not been stored to    *)
(* since.                                                                  *)
(***************************************************************************)
EXTENDS HandleRun

\* The stack map of a method: the widths of the operands on the stack before each
\* opcode that can be reached.
CONSTANT StackMap(_)

-----------------------------------------------------------------------------
(* What the verifier knows.                                                *)

WidthsOf(types) == [k \in DOMAIN types |-> Wide(types[k])]

Effects(in, out) == [in |-> in, out |-> out]

\* The operands an instruction takes from a stack of widths w, and leaves on it.
EffectOn(i, w) ==
  LET pair == IF w # <<>> /\ w[Len(w)] THEN <<TRUE>> ELSE <<FALSE, FALSE>>
      c == Callees[i.method]
  IN  CASE i.mn = "ldc2_w"    -> Effects(<<>>, <<TRUE>>)
        [] i.mn = "getfield"  -> Effects(<<FALSE>>, <<Wide(i.field.type)>>)
        [] i.mn = "putfield"  -> Effects(<<FALSE, Wide(i.field.type)>>, <<>>)
        [] i.mn = "getstatic" -> Effects(<<>>, <<Wide(i.field.type)>>)
        [] i.mn = "putstatic" -> Effects(<<Wide(i.field.type)>>, <<>>)
        [] i.mn = "dup"       -> Effects(<<FALSE>>, <<FALSE, FALSE>>)
        [] i.mn = "dup2"      -> Effects(pair, pair \o pair)
        [] i.mn = "pop"       -> Effects(<<FALSE>>, <<>>)
        [] i.mn = "pop2"      -> Effects(pair, <<>>)
        [] i.mn = "swap"      -> Effects(<<FALSE, FALSE>>, <<FALSE, FALSE>>)
        [] i.mn = "multianewarray" -> Effects([k \in 1..i.dims |-> FALSE], <<FALSE>>)
        [] i.mn = "invokedynamic"  -> Effects(WidthsOf(i.captured), <<FALSE>>)
        [] i.mn \in Invokes   ->
             Effects((IF i.mn = "invokestatic" THEN <<>> ELSE <<FALSE>>) \o WidthsOf(c.types),
                     IF c.result = "V" THEN <<>> ELSE <<Wide(c.result)>>)
        [] OTHER -> Effects(WidthsOf(SignatureOf(i.mn).in), WidthsOf(SignatureOf(i.mn).out))

\* The operands are there, and what is on the stack after the instruction.
Below(w, e) == SubSeq(w, 1, Len(w) - Len(e.in))
Finds(i, w) == LET e == EffectOn(i, w) IN Len(e.in) <= Len(w) /\ w = Below(w, e) \o e.in
After(i, w) == LET e == EffectOn(i, w) IN Below(w, e) \o e.out

OpcodesAt(b, offset) == {k \in DOMAIN b.opcodes : b.opcodes[k].at = offset}

Distances(i) == IF i.mn \in Switches THEN i.to
                ELSE IF i.mn \in Branches \cup {"goto"} THEN {i.to} ELSE {}
Targets(b, k) == UNION {OpcodesAt(b, b.opcodes[k].at + d) : d \in Distances(b.opcodes[k])}
FallsThrough(i) == i.mn \notin Switches \cup Leaves \cup {"goto", "athrow"}
Successors(b, k) == Targets(b, k) \cup (IF FallsThrough(b.opcodes[k]) THEN {k + 1} ELSE {})

Catchers(b, k) == {e \in b.exceptions : e.start <= b.opcodes[k].at /\ b.opcodes[k].at < e.end}

\* The subroutines of old class files (jsr and ret) and the dup_x family are out;
\* invokedynamic captures one value that is no long, as a string concatenation or
\* a lambda with one free variable does.  A handle field is a long.
Accepted(i) ==
  /\ i.mn \in (Mnemonics \ {"jsr", "ret"})
                 \cup {"ldc2_w", "getfield", "putfield", "getstatic", "putstatic", "dup", "dup2",
                       "pop", "pop2", "swap", "multianewarray", "invokedynamic"} \cup Invokes
  /\ i.at \in Nat
  /\ i.mn \in {"lload", "lstore", "aload", "astore"} => i.n \in Slots
  /\ i.mn \in {"getfield", "putfield"} /\ i.field.name \in Fields => i.field.type = "J"
  /\ i.mn = "multianewarray" => i.dims \in Nat
  /\ i.mn = "invokedynamic"  => i.captured = <<i.captured[1]>> /\ ~Wide(i.captured[1])
  /\ i.mn \in Invokes => i.method \in DOMAIN Callees
  /\ \A d \in Distances(i) : d \in Int

Verified(b) ==
  LET sm == StackMap(b)
  IN  /\ DOMAIN sm \subseteq DOMAIN b.opcodes
      /\ 1 \in DOMAIN sm /\ sm[1] = <<>>
      /\ \A j, k \in DOMAIN b.opcodes : b.opcodes[j].at = b.opcodes[k].at => j = k
      /\ \A k \in DOMAIN sm :
           /\ sm[k] \in Seq(BOOLEAN)
           /\ Accepted(b.opcodes[k]) /\ Finds(b.opcodes[k], sm[k])
           /\ \A d \in Distances(b.opcodes[k]) : OpcodesAt(b, b.opcodes[k].at + d) # {}
           /\ \A t \in Successors(b, k) : t \in DOMAIN sm /\ sm[t] = After(b.opcodes[k], sm[k])
           /\ \A e \in Catchers(b, k) :
                /\ OpcodesAt(b, e.handler) # {}
                /\ \A t \in OpcodesAt(b, e.handler) : t \in DOMAIN sm /\ sm[t] = <<FALSE>>

ASSUME VerifiedAssumption ==
  \A b \in Methods : Verified(b) /\ b.types \in Seq(ToSet(b.types))

\* Nothing is known of a callee whose class is not checked.
ASSUME CalleesAssumption ==
  \A m \in DOMAIN Callees : /\ Callees[m].types \in Seq(ToSet(Callees[m].types))
                            /\ ~Callees[m].loaded => Callees[m].ret = NoPtr

ASSUME NamesAssumption == Slots \subseteq Nat /\ IsFiniteSet(Fields) /\ NoField \notin Fields

-----------------------------------------------------------------------------
(* What flow.rs does not follow.                                           *)

\* The values of a frame but for the n topmost operands and the locals in S.
Others(f, n, S) == {f.stack[k].val : k \in 1..(Len(f.stack) - n)} \cup {f.locals[s] : s \in Slots \ S}

\* A reference is not loaded from a local that holds a long.
LoadsReference(f, op) == op.name = "LoadRef" => ~IsHandle(f.locals[op.n])

\* A local is not assigned while another value is known by it (flow.rs:661).
AssignsUnused(f, op) ==
  op.name \in {"StoreLong", "StoreRef"} => \A v \in Others(f, 1, {op.n}) : v.id # LocalId(op.n)

\* Nor is a field, or while a comparison with it is on the stack; and the class
\* does not reach its handle fields through what may or may not be `this`.
UsesField(f, op) ==
  /\ op.name = "GetField" /\ op.field \in Fields => Peek(f, 1).tag # "Top"
  /\ op.name = "PutField" /\ op.field \in Fields =>
       /\ Peek(f, 2).tag # "Top"
       /\ \A v \in Others(f, 2, {}) :
            v.id # FieldId(op.field) /\ ~(v.tag = "CmpFieldZero" /\ v.from = op.field)

\* A handle is compared where it was read from its field, and not a copy (flow.rs:733).
ComparesField(f, op) ==
  op.name = "LongCmp" =>
    \A n \in 1..2 : IsHandle(Peek(f, n)) /\ Peek(f, n).from # NoField
                      => Peek(f, n).id = FieldId(Peek(f, n).from)

\* The result of a call is gone when the call is made again.
CallsAnew(f, op, at) ==
  op.name = "Invoke" => \A v \in Others(f, Operands(op), {}) : v.id # FreshId(at)

\* invokedynamic does not capture a value the analysis knows something about.
CapturesUnknown(f, i) == i.mn = "invokedynamic" => Peek(f, 1) = NotHandle

Followed(i, op, f) ==
  /\ LoadsReference(f, op) /\ AssignsUnused(f, op) /\ UsesField(f, op) /\ ComparesField(f, op)
  /\ CallsAnew(f, op, i.at) /\ CapturesUnknown(f, i)

\* A field holds what it is annotated with.
FieldKept(x) ==
  \/ run.fields[x] = 0
  \/ /\ IsObject(run.fields[x])
     /\ run.objects[run.fields[x]].type = FieldPtr[x].type
     /\ FieldPtr[x].kind = "Owned" => run.objects[run.fields[x]].kind = "Owned"

\* A method the analysis can follow, in an execution that keeps the annotations of
\* the fields: what the theorems suppose, beside the class files that are verified.
InScope ==
  /\ done => \A i \in DOMAIN state : Followed(Opcodes[i], body.code[i].op, state[i])
  /\ Running => \A x \in Fields : FieldKept(x)
=============================================================================
