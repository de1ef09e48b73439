--------------------------------- MODULE Ir ---------------------------------
(***************************************************************************)
(* The vocabulary both front ends lower types into (ir.rs), the type       *)
(* correspondence (typemap.rs), the lowering of a Java slot                *)
(* (java_loader.rs) and of a Rust type (rust_loader.rs), and `compare` of  *)
(* check.rs.  Descriptors and class names are sequences of characters.     *)
(*                                                                         *)
(* A Java slot is [desc, ann]: its descriptor and its pointer annotation.  *)
(* A Rust type is the sequence of its path idents from the outside in:     *)
(* Option<JRef<Box<X>>> is <<"Option", "JRef", "Box", "X">>, since the     *)
(* types of this boundary have at most one type argument.                  *)
(***************************************************************************)
EXTENDS Mangle, TLC

Void            == [ir |-> "Void"]
Primitive(c)    == [ir |-> "Primitive", char |-> c]
JavaObject(c)   == [ir |-> "JavaObject", class |-> c]
Handle(k, t, n) == [ir |-> "Pointer", kind |-> k, type |-> t, nullable |-> n]
Misannotated(k) == [ir |-> "Misannotated", kind |-> k]
Unsupported     == [ir |-> "Unsupported"]

NoAnn           == [kind |-> "none", type |-> <<>>, nullable |-> FALSE]
Ann(k, t, n)    == [kind |-> k, type |-> t, nullable |-> n]
Annotated(slot) == slot.ann # NoAnn

Borrows == {"Ref", "Mut"}

\* `jni_field_descriptor`: empty where the type has none; a handle is a long.
FieldDescriptor(t) ==
  CASE t.ir = "Primitive"  -> <<t.char>>
    [] t.ir = "Pointer"    -> <<"J">>
    [] t.ir = "JavaObject" -> IF Head(t.class) = "[" THEN t.class
                              ELSE <<"L">> \o t.class \o <<";">>
    [] OTHER               -> <<>>

Encodable(params) == \A i \in DOMAIN params : FieldDescriptor(params[i]) # <<>>

\* `args_descriptor` of parameters that can all be encoded.
ArgsDescriptor(params) == FlattenSeq([i \in DOMAIN params |-> FieldDescriptor(params[i])])

\* `array_of`, of an element that has a descriptor.
ArrayOf(t) == JavaObject(<<"[">> \o FieldDescriptor(t))

-----------------------------------------------------------------------------
(* Type text.  A token stream prints with blanks, an annotation is written *)
(* by hand; only the blanks between the tokens differ.                     *)

Render(t)            == FlattenSeq([i \in DOMAIN t |-> <<t[i], " ">>])
NormalizeRustType(s) == SelectSeq(s, LAMBDA c : c # " ")

-----------------------------------------------------------------------------
(* Java slots.                                                             *)

PrimitiveChars == {"Z", "B", "C", "S", "I", "J", "F", "D"}

JavaFieldToIr(desc) ==
  CASE desc[1] = "["                -> JavaObject(desc)
    [] desc[1] = "L"                -> JavaObject(SubSeq(desc, 2, Len(desc) - 1))
    [] desc[1] \in PrimitiveChars   -> Primitive(desc[1])
    [] OTHER                        -> Unsupported

\* An annotation is a handle on a bare long only.
PointerIr(slot) ==
  IF slot.desc = <<"J">>
  THEN Handle(slot.ann.kind, slot.ann.type, slot.ann.nullable)
  ELSE Misannotated(slot.ann.kind)

LowerSlot(slot) == IF Annotated(slot) THEN PointerIr(slot) ELSE JavaFieldToIr(slot.desc)

LowerReturn(slot) == IF slot.desc = <<"V">> THEN Void ELSE LowerSlot(slot)

-----------------------------------------------------------------------------
(* Rust types.                                                             *)

RustPrimitive ==
  [jboolean |-> "Z", bool |-> "Z", jbyte |-> "B", i8 |-> "B", jchar |-> "C", u16 |-> "C",
   jshort |-> "S", i16 |-> "S", jint |-> "I", i32 |-> "I", jlong |-> "J", i64 |-> "J",
   jfloat |-> "F", f32 |-> "F", jdouble |-> "D", f64 |-> "D"]

\* One letter stands for each class of the Java library.
RustObject ==
  [JString |-> <<"S">>, jstring |-> <<"S">>, JObject |-> <<"O">>, jobject |-> <<"O">>,
   JClass |-> <<"K">>, jclass |-> <<"K">>, JThrowable |-> <<"T">>, jthrowable |-> <<"T">>,
   JByteBuffer |-> <<"Y">>, JList |-> <<"M">>, JMap |-> <<"P">>, JSet |-> <<"Q">>,
   JByteArray |-> <<"[", "B">>, jbyteArray |-> <<"[", "B">>,
   JBooleanArray |-> <<"[", "Z">>, jbooleanArray |-> <<"[", "Z">>,
   JCharArray |-> <<"[", "C">>, jcharArray |-> <<"[", "C">>,
   JShortArray |-> <<"[", "S">>, jshortArray |-> <<"[", "S">>,
   JIntArray |-> <<"[", "I">>, jintArray |-> <<"[", "I">>,
   JLongArray |-> <<"[", "J">>, jlongArray |-> <<"[", "J">>,
   JFloatArray |-> <<"[", "F">>, jfloatArray |-> <<"[", "F">>,
   JDoubleArray |-> <<"[", "D">>, jdoubleArray |-> <<"[", "D">>,
   JObjectArray |-> <<"[", "L", "O", ";">>, jobjectArray |-> <<"[", "L", "O", ";">>]

Wrappers == [JRef |-> "Ref", JMut |-> "Mut", JOwned |-> "Owned"]

SimpleType(ident, reg) ==
  CASE ident \in DOMAIN RustPrimitive -> Primitive(RustPrimitive[ident])
    [] ident \in DOMAIN RustObject    -> JavaObject(RustObject[ident])
    [] OTHER -> IF ident \in DOMAIN reg THEN JavaObject(reg[ident]) ELSE Unsupported

\* `lower_type`, from the innermost type out; reg gives the classes of the
\* wrappers the crate binds.
LowerType(t, reg) ==
  LET Inner(i) == SubSeq(t, i + 1, Len(t))
      low[i \in 1..Len(t)] ==
        CASE t[i] \in DOMAIN Wrappers /\ i < Len(t) ->
               Handle(Wrappers[t[i]], NormalizeRustType(Render(Inner(i))), FALSE)
          [] t[i] = "Option" /\ i < Len(t) ->
               IF low[i + 1].ir = "Pointer" THEN [low[i + 1] EXCEPT !.nullable = TRUE]
               ELSE low[i + 1]
          [] t[i] \in {"JPrimitiveArray", "JObjectArray"} /\ i < Len(t) ->
               IF FieldDescriptor(low[i + 1]) = <<>> THEN Unsupported ELSE ArrayOf(low[i + 1])
          [] OTHER -> SimpleType(t[i], reg)
  IN  low[1]

LowerTypes(ts, reg) == [i \in DOMAIN ts |-> LowerType(ts[i], reg)]

-----------------------------------------------------------------------------
(* `compare`: the last digits of the codes reported for one slot.          *)

ComparePointers(j, r) ==
  {d \in 3..5 : \/ d = 3 /\ j.kind # r.kind
                \/ d = 4 /\ j.type # r.type
                \/ d = 5 /\ j.kind = r.kind /\ j.kind \in Borrows /\ j.nullable # r.nullable}

Compare(j, r) ==
  IF j.ir = "Misannotated" THEN {6}
  ELSE IF "Unsupported" \in {j.ir, r.ir} THEN {9}
  ELSE IF j.ir # r.ir THEN {0}
  ELSE CASE j.ir = "Pointer"             -> ComparePointers(j, r)
         [] j.ir = "Primitive" /\ j # r  -> {1}
         [] j.ir = "JavaObject" /\ j # r -> {2}
         [] OTHER                        -> {}

=============================================================================
