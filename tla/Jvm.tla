-------------------------------- MODULE Jvm ---------------------------------
(***************************************************************************)
(* What the instructions of the JVM take from the operand stack and leave  *)
(* on it, by the type letters of the JVM specification: I, J, F, D, and A  *)
(* for references and return addresses.                                    *)
(***************************************************************************)
EXTENDS Sequences

Sig(mn, in, out) == [mn |-> mn, in |-> in, out |-> out]

IntToInt       == {"ineg", "i2b", "i2c", "i2s"}
TwoInts        == {"iadd", "isub", "imul", "idiv", "irem", "iand", "ior", "ixor", "ishl", "ishr", "iushr"}
TwoLongs       == {"ladd", "lsub", "lmul", "ldiv", "lrem", "land", "lor", "lxor"}
LongAndInt     == {"lshl", "lshr", "lushr"}
TwoFloats      == {"fadd", "fsub", "fmul", "fdiv", "frem"}
TwoDoubles     == {"dadd", "dsub", "dmul", "ddiv", "drem"}
CompareFloats  == {"fcmpl", "fcmpg"}
CompareDoubles == {"dcmpl", "dcmpg"}
IntElement     == {"iaload", "baload", "caload", "saload"}
SetIntElement  == {"iastore", "bastore", "castore", "sastore"}
NewArray       == {"newarray", "anewarray"}
IntConstants   == {"iconst_m1", "iconst_0", "iconst_1", "iconst_2", "iconst_3", "iconst_4",
                   "iconst_5", "bipush", "sipush", "ldc", "ldc_w", "iload"}
LongConstants  == {"lconst_0", "lconst_1", "lload"}
FloatConstants == {"fconst_0", "fconst_1", "fconst_2", "fload"}
DoubleConstants == {"dconst_0", "dconst_1", "dload"}
SomeReference  == {"aconst_null", "aload", "new", "jsr"}
TakeInt        == {"ifeq", "ifne", "iflt", "ifge", "ifgt", "ifle", "tableswitch", "lookupswitch",
                   "istore", "ireturn"}
TakeTwoInts    == {"if_icmpeq", "if_icmpne", "if_icmplt", "if_icmpge", "if_icmpgt", "if_icmple"}
TakeReference  == {"astore", "areturn", "athrow", "ifnull", "ifnonnull", "monitorenter", "monitorexit"}
TakeTwoReferences == {"if_acmpeq", "if_acmpne"}
NoOperands     == {"nop", "iinc", "ret", "goto", "return"}

\* The instructions whose effect their name decides.
Mnemonics ==
  UNION {IntToInt, TwoInts, TwoLongs, LongAndInt, TwoFloats, TwoDoubles, CompareFloats,
         CompareDoubles, IntElement, SetIntElement, NewArray, IntConstants, LongConstants,
         FloatConstants, DoubleConstants, SomeReference, TakeInt, TakeTwoInts, TakeReference,
         TakeTwoReferences, NoOperands,
         {"lneg", "fneg", "dneg", "i2l", "i2f", "i2d", "l2i", "l2f", "l2d", "f2i", "f2l", "f2d",
          "d2i", "d2l", "d2f", "lcmp", "arraylength", "checkcast", "instanceof",
          "laload", "faload", "daload", "aaload", "lastore", "fastore", "dastore", "aastore",
          "lstore", "lreturn", "fstore", "freturn", "dstore", "dreturn"}}

SignatureOf(mn) ==
  CASE mn \in IntToInt        -> Sig(mn, <<"I">>, <<"I">>)
    [] mn \in TwoInts         -> Sig(mn, <<"I", "I">>, <<"I">>)
    [] mn \in TwoLongs        -> Sig(mn, <<"J", "J">>, <<"J">>)
    [] mn \in LongAndInt      -> Sig(mn, <<"J", "I">>, <<"J">>)
    [] mn \in TwoFloats       -> Sig(mn, <<"F", "F">>, <<"F">>)
    [] mn \in TwoDoubles      -> Sig(mn, <<"D", "D">>, <<"D">>)
    [] mn = "lneg"            -> Sig(mn, <<"J">>, <<"J">>)
    [] mn = "fneg"            -> Sig(mn, <<"F">>, <<"F">>)
    [] mn = "dneg"            -> Sig(mn, <<"D">>, <<"D">>)
    [] mn = "i2l"             -> Sig(mn, <<"I">>, <<"J">>)
    [] mn = "i2f"             -> Sig(mn, <<"I">>, <<"F">>)
    [] mn = "i2d"             -> Sig(mn, <<"I">>, <<"D">>)
    [] mn = "l2i"             -> Sig(mn, <<"J">>, <<"I">>)
    [] mn = "l2f"             -> Sig(mn, <<"J">>, <<"F">>)
    [] mn = "l2d"             -> Sig(mn, <<"J">>, <<"D">>)
    [] mn = "f2i"             -> Sig(mn, <<"F">>, <<"I">>)
    [] mn = "f2l"             -> Sig(mn, <<"F">>, <<"J">>)
    [] mn = "f2d"             -> Sig(mn, <<"F">>, <<"D">>)
    [] mn = "d2i"             -> Sig(mn, <<"D">>, <<"I">>)
    [] mn = "d2l"             -> Sig(mn, <<"D">>, <<"J">>)
    [] mn = "d2f"             -> Sig(mn, <<"D">>, <<"F">>)
    [] mn = "lcmp"            -> Sig(mn, <<"J", "J">>, <<"I">>)
    [] mn \in CompareFloats   -> Sig(mn, <<"F", "F">>, <<"I">>)
    [] mn \in CompareDoubles  -> Sig(mn, <<"D", "D">>, <<"I">>)
    [] mn = "arraylength"     -> Sig(mn, <<"A">>, <<"I">>)
    [] mn = "checkcast"       -> Sig(mn, <<"A">>, <<"A">>)
    [] mn = "instanceof"      -> Sig(mn, <<"A">>, <<"I">>)
    [] mn \in IntElement      -> Sig(mn, <<"A", "I">>, <<"I">>)
    [] mn = "laload"          -> Sig(mn, <<"A", "I">>, <<"J">>)
    [] mn = "faload"          -> Sig(mn, <<"A", "I">>, <<"F">>)
    [] mn = "daload"          -> Sig(mn, <<"A", "I">>, <<"D">>)
    [] mn = "aaload"          -> Sig(mn, <<"A", "I">>, <<"A">>)
    [] mn \in SetIntElement   -> Sig(mn, <<"A", "I", "I">>, <<>>)
    [] mn = "lastore"         -> Sig(mn, <<"A", "I", "J">>, <<>>)
    [] mn = "fastore"         -> Sig(mn, <<"A", "I", "F">>, <<>>)
    [] mn = "dastore"         -> Sig(mn, <<"A", "I", "D">>, <<>>)
    [] mn = "aastore"         -> Sig(mn, <<"A", "I", "A">>, <<>>)
    [] mn \in NewArray        -> Sig(mn, <<"I">>, <<"A">>)
    [] mn \in IntConstants    -> Sig(mn, <<>>, <<"I">>)
    [] mn \in LongConstants   -> Sig(mn, <<>>, <<"J">>)
    [] mn \in FloatConstants  -> Sig(mn, <<>>, <<"F">>)
    [] mn \in DoubleConstants -> Sig(mn, <<>>, <<"D">>)
    [] mn \in SomeReference   -> Sig(mn, <<>>, <<"A">>)
    [] mn \in TakeInt         -> Sig(mn, <<"I">>, <<>>)
    [] mn \in TakeTwoInts     -> Sig(mn, <<"I", "I">>, <<>>)
    [] mn \in TakeReference   -> Sig(mn, <<"A">>, <<>>)
    [] mn \in TakeTwoReferences -> Sig(mn, <<"A", "A">>, <<>>)
    [] mn \in {"lstore", "lreturn"} -> Sig(mn, <<"J">>, <<>>)
    [] mn \in {"fstore", "freturn"} -> Sig(mn, <<"F">>, <<>>)
    [] mn \in {"dstore", "dreturn"} -> Sig(mn, <<"D">>, <<>>)
    [] OTHER                  -> Sig(mn, <<>>, <<>>)

\* The forms of the shuffles: what is on top before and after.
Narrow2 == <<"I", "A">>
Shuffled ==
  {Sig("dup", <<"A">>, <<"A", "A">>),
   Sig("dup2", <<"J">>, <<"J", "J">>), Sig("dup2", Narrow2, Narrow2 \o Narrow2),
   Sig("pop", <<"I">>, <<>>),
   Sig("pop2", <<"D">>, <<>>), Sig("pop2", Narrow2, <<>>),
   Sig("swap", Narrow2, <<"A", "I">>)}

\* What each instruction does to the stack, but for those whose operands decide it.
Signatures == {SignatureOf(mn) : mn \in Mnemonics} \cup Shuffled
=============================================================================
