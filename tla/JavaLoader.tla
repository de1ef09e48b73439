----------------------------- MODULE JavaLoader -----------------------------
(***************************************************************************)
(* java_loader.rs: from a class file, as cafebabe reads it, to the         *)
(* signatures of its native methods and to the model of what Rust may call *)
(* on it.                                                                  *)
(*                                                                         *)
(* A class is [name, supers, methods, fields]; a method [name, static,     *)
(* native, annotations, params, ret]; a field [name, static, type].  A     *)
(* slot (a parameter, a return or a field's type) is [desc, annotations],  *)
(* its type annotations in the order of the class file, each one [class,   *)
(* path, elements]; elements is a record of the elements spelled out.      *)
(***************************************************************************)
EXTENDS Ir

\* `pointer_kind`.
PointerKinds == {"Ref", "Mut", "Owned"}

\* `read_members`: a pointer may be null unless the annotation says otherwise.
ReadMembers(e) ==
  [type     |-> IF "value" \in DOMAIN e THEN NormalizeRustType(e.value) ELSE <<>>,
   nullable |-> IF "nullable" \in DOMAIN e THEN e.nullable ELSE TRUE]

\* The pointer annotations on the type itself, not on a part of it.
TopLevel(slot) ==
  {k \in DOMAIN slot.annotations :
     slot.annotations[k].path = <<>> /\ slot.annotations[k].class \in PointerKinds}

PointerOf(a) ==
  LET m == ReadMembers(a.elements) IN Ann(a.class, m.type, m.nullable)

\* `collect_pointer_annotations`: a later annotation of a slot replaces an
\* earlier one.  `field_pointer_annotation`: a field keeps the first.
Collected(slot) ==
  LET ks == TopLevel(slot)
  IN  [desc |-> slot.desc, ann |-> IF ks = {} THEN NoAnn ELSE PointerOf(slot.annotations[Max(ks)])]

FieldPointerAnnotation(slot) ==
  LET ks == TopLevel(slot) IN IF ks = {} THEN NoAnn ELSE PointerOf(slot.annotations[Min(ks)])

LowerParams(m) == [i \in DOMAIN m.params |-> LowerSlot(Collected(m.params[i]))]

ArgDescriptor(m) == FlattenSeq([i \in DOMAIN m.params |-> m.params[i].desc])

-----------------------------------------------------------------------------
(* Native methods.                                                         *)

HasIgnore(m) == "Ignore" \in m.annotations

\* Every native of the name counts, an ignored one too.
Overloaded(class, m) ==
  Cardinality({i \in DOMAIN class.methods :
                 class.methods[i].native /\ class.methods[i].name = m.name}) > 1

LowerNative(class, m) ==
  [symbol |-> IF Overloaded(class, m) THEN LongSymbol(class.name, m.name, ArgDescriptor(m))
              ELSE ShortSymbol(class.name, m.name),
   class  |-> class.name,
   name   |-> m.name,
   static |-> m.static,
   params |-> LowerParams(m),
   ret    |-> LowerReturn(Collected(m.ret)),
   origin |-> m]

\* `lower_natives`.
LowerNatives(class) ==
  LET Lowered(m) == IF m.native /\ ~HasIgnore(m) THEN <<LowerNative(class, m)>> ELSE <<>>
  IN  FlattenSeq([i \in DOMAIN class.methods |-> Lowered(class.methods[i])])

\* `load`.
Natives(classes) == FlattenSeq([i \in DOMAIN classes |-> LowerNatives(classes[i])])

-----------------------------------------------------------------------------
(* What Rust may call.                                                     *)

MethodSig(m) ==
  [name |-> m.name, static |-> m.static, args |-> ArgDescriptor(m), ret |-> m.ret.desc]

FieldSig(f) ==
  [name |-> f.name, static |-> f.static, desc |-> f.type.desc,
   ann |-> FieldPointerAnnotation(f.type)]

Named(class, names) == {m \in ToSet(class.methods) : m.name \in names}

ClassInit == <<"<clinit>">>
Init_     == <<"<init>">>

\* `build_model`: a static initializer cannot be called, a constructor is no
\* method, and access control does not matter.
BuildModel(class) ==
  [name    |-> class.name,
   supers  |-> class.supers,
   methods |-> {MethodSig(m) : m \in ToSet(class.methods) \ Named(class, {ClassInit, Init_})},
   fields  |-> {FieldSig(f) : f \in ToSet(class.fields)},
   constructors |-> {ArgDescriptor(m) : m \in Named(class, {Init_})}]

\* `load_models`.
Models(classes) == [i \in DOMAIN classes |-> BuildModel(classes[i])]

=============================================================================
