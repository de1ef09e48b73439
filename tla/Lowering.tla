------------------------------ MODULE Lowering ------------------------------
(***************************************************************************)
(* From the Code attribute of a class file, as cafebabe decodes it, to the *)
(* instructions the handle-flow analysis walks: build_flow_class,          *)
(* lower_code and classify_op of java_loader.rs, over the data types of    *)
(* code.rs.                                                                *)
(*                                                                         *)
(* A method of a class file is [name, access, types, result, params, ret,  *)
(* opcodes, exceptions, locals, suppressed]: types are the descriptors of  *)
(* the parameters; params and ret the pointers they are annotated with;    *)
(* locals the type annotations of local variables [class, path, slot,      *)
(* start, length].  An opcode is [at, mn] with its operands: n, dims,      *)
(* value and whether it is long, field [name, type], method, captured, and *)
(* to, the distances of its jumps.                                         *)
(***************************************************************************)
EXTENDS Integers, Sequences, FiniteSets, SequencesExt

CONSTANT Callees   \* the methods that are called: [types, result, params, ret, loaded],
                   \* loaded if the class is among those that are checked

\* ir.rs Pointer, and the absence of an annotation.
NoPtr == [kind |-> "none", type |-> "none", nullable |-> FALSE]

\* A long or double takes two slots; an array is a reference.
Wide(type) == type \in {"J", "D"}

-----------------------------------------------------------------------------
(* `classify_op`.                                                          *)

LongBinary == {"ladd", "lsub", "lmul", "ldiv", "lrem", "land", "lor", "lxor",
               "lshl", "lshr", "lushr"}
LongUnary  == {"lneg", "i2l", "f2l", "d2l"}

\* The shuffles of the stack keep their name.
Shuffles == {"dup", "dup2", "dup_x1", "dup_x2", "dup2_x1", "dup2_x2", "pop", "pop2", "swap"}

IfOne == {"ifeq", "ifne", "iflt", "ifge", "ifgt", "ifle", "ifnull", "ifnonnull"}
IfTwo == {"if_icmpeq", "if_icmpne", "if_icmplt", "if_icmpge", "if_icmpgt", "if_icmple",
          "if_acmpeq", "if_acmpne"}
ValueReturns == {"ireturn", "lreturn", "freturn", "dreturn", "areturn"}
Invokes == {"invokestatic", "invokevirtual", "invokespecial", "invokeinterface"}

Target(i) == i.at + i.to

\* What is of no interest to handles: the values it pops, the widths it pushes.
Other(pops, pushes) == [name |-> "Other", pops |-> pops, pushes |-> pushes]

NarrowSources == {"aconst_null", "iconst_m1", "iconst_0", "iconst_1", "iconst_2", "iconst_3",
  "iconst_4", "iconst_5", "fconst_0", "fconst_1", "fconst_2", "bipush", "sipush", "iload",
  "fload", "ldc", "ldc_w", "jsr", "new"}
WideSources   == {"dconst_0", "dconst_1", "dload"}
Sinks         == {"istore", "fstore", "dstore", "monitorenter", "monitorexit"}
ToNarrow      == {"ineg", "i2f", "i2b", "i2c", "i2s", "l2i", "l2f", "f2i", "fneg", "d2i", "d2f",
  "arraylength", "checkcast", "instanceof", "newarray", "anewarray"}
ToWide        == {"i2d", "l2d", "f2d", "dneg"}
TwoToNarrow   == {"iadd", "isub", "imul", "idiv", "irem", "iand", "ior", "ixor", "ishl", "ishr",
  "iushr", "fadd", "fsub", "fmul", "fdiv", "frem", "fcmpg", "fcmpl", "dcmpg", "dcmpl", "iaload",
  "baload", "caload", "saload", "faload", "aaload"}
TwoToWide     == {"dadd", "dsub", "dmul", "ddiv", "drem", "daload", "laload"}
ArrayStores   == {"iastore", "bastore", "castore", "sastore", "fastore", "aastore", "dastore",
  "lastore"}

\* (A change TLC has to notice: what an element of a long array leaves is narrow.)
RestNarrowElements(i) ==
  CASE i.mn \in NarrowSources -> Other(0, <<FALSE>>)
    [] i.mn \in WideSources   -> Other(0, <<TRUE>>)
    [] i.mn \in Sinks         -> Other(1, <<>>)
    [] i.mn \in ToNarrow      -> Other(1, <<FALSE>>)
    [] i.mn \in ToWide        -> Other(1, <<TRUE>>)
    [] i.mn \in TwoToNarrow \cup {"daload", "laload"} -> Other(2, <<FALSE>>)
    [] i.mn \in TwoToWide     -> Other(2, <<TRUE>>)
    [] i.mn \in ArrayStores   -> Other(3, <<>>)
    [] i.mn = "multianewarray" -> Other(i.dims, <<FALSE>>)
    [] OTHER -> Other(0, <<>>)

\* The last group holds nop, iinc and ret; and invokedynamic, whose arguments
\* stay where they are in place of its result.
Rest(i) ==
  CASE i.mn \in NarrowSources -> Other(0, <<FALSE>>)
    [] i.mn \in WideSources   -> Other(0, <<TRUE>>)
    [] i.mn \in Sinks         -> Other(1, <<>>)
    [] i.mn \in ToNarrow      -> Other(1, <<FALSE>>)
    [] i.mn \in ToWide        -> Other(1, <<TRUE>>)
    [] i.mn \in TwoToNarrow   -> Other(2, <<FALSE>>)
    [] i.mn \in TwoToWide     -> Other(2, <<TRUE>>)
    [] i.mn \in ArrayStores   -> Other(3, <<>>)
    [] i.mn = "multianewarray" -> Other(i.dims, <<FALSE>>)
    [] OTHER -> Other(0, <<>>)

\* An ldc2_w of a long, or of a double.
Constant(i) ==
  IF i.long THEN [name |-> "LongConst", zero |-> i.value = 0] ELSE Other(0, <<TRUE>>)

Member(name, i) == [name |-> name, field |-> i.field.name, wide |-> Wide(i.field.type)]

\* `parse_method_descriptor` gives the widths of an invocation.
Call(i) ==
  LET d == Callees[i.method]
  IN  [name   |-> "Invoke",
       target |-> i.method,
       static |-> i.mn = "invokestatic",
       args   |-> [k \in DOMAIN d.types |-> Wide(d.types[k])],
       ret    |-> IF d.result = "V" THEN <<>> ELSE <<Wide(d.result)>>]

BranchKind(mn) == CASE mn = "ifeq" -> "IfEq" [] mn = "ifne" -> "IfNe" [] OTHER -> "Other"
Branch(i, pops) == [name |-> "Branch", target |-> Target(i), pops |-> pops, kind |-> BranchKind(i.mn)]

ClassifyOp(i) ==
  CASE i.mn = "lconst_0" -> [name |-> "LongConst", zero |-> TRUE]
    [] i.mn = "lconst_1" -> [name |-> "LongConst", zero |-> FALSE]
    [] i.mn = "ldc2_w"   -> Constant(i)
    [] i.mn \in LongBinary -> [name |-> "LongCompute", pops |-> 2]
    [] i.mn \in LongUnary  -> [name |-> "LongCompute", pops |-> 1]
    [] i.mn = "lcmp"   -> [name |-> "LongCmp"]
    [] i.mn = "lload"  -> [name |-> "LoadLong", n |-> i.n]
    [] i.mn = "lstore" -> [name |-> "StoreLong", n |-> i.n]
    [] i.mn = "aload"  -> [name |-> "LoadRef", n |-> i.n]
    [] i.mn = "astore" -> [name |-> "StoreRef", n |-> i.n]
    [] i.mn = "getfield"  -> Member("GetField", i)
    [] i.mn = "putfield"  -> Member("PutField", i)
    [] i.mn = "getstatic" -> Member("GetStatic", i)
    [] i.mn = "putstatic" -> Member("PutStatic", i)
    [] i.mn \in Invokes   -> Call(i)
    [] i.mn = "goto"      -> [name |-> "Goto", target |-> Target(i)]
    [] i.mn \in IfOne     -> Branch(i, 1)
    [] i.mn \in IfTwo     -> Branch(i, 2)
    [] i.mn \in {"tableswitch", "lookupswitch"} ->
         [name |-> "Switch", targets |-> {i.at + d : d \in i.to}]
    [] i.mn \in ValueReturns -> [name |-> "Return", pops |-> 1]
    [] i.mn = "return"       -> [name |-> "Return", pops |-> 0]
    [] i.mn = "athrow"       -> [name |-> "Athrow"]
    [] i.mn \in Shuffles     -> [name |-> i.mn]
    [] OTHER -> Rest(i)

-----------------------------------------------------------------------------
(* `lower_code` and `build_flow_class`.                                    *)

IsStatic(b) == "static" \in b.access

\* Static initializers and what the compiler adds are left alone.
Analysed(b) == b.name # "<clinit>" /\ b.access \cap {"synthetic", "bridge"} = {}

\* Only a bare long can be a handle.
ToHandle(type, ptr) == IF type = "J" THEN ptr ELSE NoPtr
FlowParams(b) == [k \in DOMAIN b.types |-> ToHandle(b.types[k], b.params[k])]

\* The slot of a parameter: after `this` and the parameters before it, of which a
\* wide one takes two.
Slot(b, k) ==
  (IF IsStatic(b) THEN 0 ELSE 1) + (k - 1) + Cardinality({j \in 1..(k - 1) : Wide(b.types[j])})

ParamInfos(b) ==
  [k \in DOMAIN b.types |->
     [slot |-> Slot(b, k), wide |-> Wide(b.types[k]), handle |-> FlowParams(b)[k]]]

\* The pointer annotations of locals: where each is in scope.
LocalHandles(b) ==
  {[slot |-> a.slot, start |-> a.start, end |-> a.start + a.length] :
     a \in {a \in b.locals : a.path = <<>> /\ a.class \in {"Ref", "Mut", "Owned"}}}

LowerMethod(b) ==
  [code       |-> [k \in DOMAIN b.opcodes |->
                     [offset |-> b.opcodes[k].at, op |-> ClassifyOp(b.opcodes[k])]],
   exceptions |-> b.exceptions,
   params     |-> ParamInfos(b),
   ret        |-> ToHandle(b.result, b.ret),
   locals     |-> LocalHandles(b),
   ctor       |-> b.name = "<init>",
   static     |-> IsStatic(b),
   exposed    |-> b.access \cap {"public", "protected"} # {},
   suppressed |-> b.suppressed]

\* `index_of`: the instruction at an offset, if there is one.
IndexOf(m, offset) == {k \in DOMAIN m.code : m.code[k].offset = offset}

\* `local_annotated_at`.
LocalAnnotatedAt(m, slot, offset) ==
  \E a \in m.locals : a.slot = slot /\ a.start <= offset /\ offset < a.end
=============================================================================
