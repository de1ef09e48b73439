------------------------------ MODULE JniLink -------------------------------
(***************************************************************************)
(* What the JVM does with the two sides, as far as the checker speaks      *)
(* about it: which Rust function it calls for a native method, and which   *)
(* member it finds for a name and a descriptor.  None of this is code of   *)
(* the repository: linking is that of the JNI specification (a             *)
(* registration, else the short symbol, else the long one), and the two    *)
(* tables say what the jni crate and the annotations mean by a Rust type.  *)
(* It reads the declarations themselves, not what the front ends made of   *)
(* them.                                                                   *)
(***************************************************************************)
EXTENDS JavaLoader, RustLoader, Jdk

CONSTANTS
  JavaName,  \* the Java name the macros derive from a Rust one
  Wire,      \* the descriptor of a Rust type at the boundary
  Fits       \* the pairs of a Java slot and a Rust type that mean the same

-----------------------------------------------------------------------------
(* The crate.  e is an export, of which only `class` and `origin` is read. *)

IsFn(e)     == "ident" \in DOMAIN e.origin
IsMacro(e)  == ~IsFn(e)
IsLegacy(e) == IsFn(e) /\ e.origin.mangle = None
IsMangle(e) == IsFn(e) /\ e.origin.mangle # None

RustParams(e) ==
  IF IsFn(e) THEN SubSeq(e.origin.inputs, 3, Len(e.origin.inputs)) ELSE e.origin.params

RustReturn(e) == IF IsFn(e) THEN e.origin.output ELSE e.origin.ret

RustName(e) ==
  LET m == ParseJniMangle(e.origin.mangle)
  IN  CASE IsMangle(e) -> IF m.name # None THEN m.name ELSE JavaName[e.origin.ident]
        [] IsMacro(e)  -> IF e.origin.name # None THEN e.origin.name ELSE JavaName[e.origin.fn]

Encoded(types) == FlattenSeq([i \in DOMAIN types |-> Wire[types[i]]])

\* The symbols of the shared library: one for a function, none for a
\* declaration that is registered when the class is loaded.
SymbolsOf(e) ==
  LET m == ParseJniMangle(e.origin.mangle)
  IN  CASE IsMangle(e) -> {IF m.signed THEN LongSymbol(e.class, RustName(e), m.args)
                           ELSE ShortSymbol(e.class, RustName(e))}
        [] IsLegacy(e) -> IF e.origin.noMangle = "no" THEN {} ELSE {e.origin.ident}
        [] IsMacro(e)  -> {}

-----------------------------------------------------------------------------
(* Native methods: m of class c.                                           *)

Registers(e, c, m) ==
  /\ IsMacro(e)
  /\ e.class = c.name /\ RustName(e) = m.name
  /\ Encoded(RustParams(e)) = ArgDescriptor(m)

Short(c, m) == ShortSymbol(c.name, m.name)
Long(c, m)  == LongSymbol(c.name, m.name, ArgDescriptor(m))

\* The exports the JVM calls for m; more than one if several are registered.
LinkOf(exports, c, m) ==
  LET Having(P(_)) == {k \in DOMAIN exports : P(exports[k])}
      registered   == Having(LAMBDA e : Registers(e, c, m))
      short        == Having(LAMBDA e : Short(c, m) \in SymbolsOf(e))
      long         == Having(LAMBDA e : Long(c, m) \in SymbolsOf(e))
  IN  CASE registered # {} -> registered
        [] registered = {} /\ short # {} -> short
        [] OTHER -> long

ReturnFits(slot, type) ==
  \/ slot.desc = <<"V">> /\ type \in {None, <<"()">>, <<"void">>}
  \/ <<slot, type>> \in Fits

\* The slots of m that do not mean what e makes of them; 0 is the return.
Misfits(e, m) ==
  {i \in DOMAIN m.params : <<m.params[i], RustParams(e)[i]>> \notin Fits}
    \cup (IF ReturnFits(m.ret, RustReturn(e)) THEN {} ELSE {0})

TakesClass(e) ==
  IF IsFn(e) THEN LastIdent(e.origin.inputs[2]) \in {"JClass", "jclass"} ELSE e.origin.static

\* e is a function the JVM can call for m.
Agrees(e, m) ==
  /\ IsFn(e) => Len(e.origin.inputs) >= 2
  /\ IsLegacy(e) => e.origin.abi # "Rust"
  /\ TakesClass(e) <=> m.static
  /\ Len(RustParams(e)) = Len(m.params)
  /\ Misfits(e, m) = {}

-----------------------------------------------------------------------------
(* Members: of the classes on --java and, where there is a usable home,    *)
(* those of the JDK.                                                       *)

JdkTable(home) ==
  IF home = NoHome THEN <<>>
  ELSE LET tables == {m.classes : m \in GoodJmods(home)}
                        \cup {r.classes : r \in {x \in ToSet(home.rt) : x.readable}}
       IN  [c \in UNION {DOMAIN t : t \in tables} |->
              (CHOOSE t \in tables : c \in DOMAIN t)[c]]

\* The first class of a name, as on a class path.
UserTable(classes) ==
  [c \in {k.name : k \in ToSet(classes)} |->
     classes[Min({i \in DOMAIN classes : classes[i].name = c})]]

Reaches(table, c, S) ==
  c \in S /\ \A k \in S \cap DOMAIN table : table[k].supers \subseteq S

\* The least set with c and the supertypes of its classes.
Ancestors(table, c) ==
  LET all == {c} \cup UNION {{k} \cup table[k].supers : k \in DOMAIN table}
  IN  {x \in all : \A S \in SUBSET all : Reaches(table, c, S) => x \in S}

HasMethod(class, name, static, args, ret) ==
  \E m \in ToSet(class.methods) :
    /\ m.name = name /\ m.static = static
    /\ ArgDescriptor(m) = args /\ m.ret.desc = ret

RefName(r) == IF r.origin.name # None THEN r.origin.name ELSE JavaName[r.origin.fn]

WireReturn(ret) == IF ret \in {None, <<"()">>, <<"void">>} THEN <<"V">> ELSE Wire[ret]

\* The fields a reference names, in the class and above it.
FieldsFor(r, table) ==
  UNION {{f \in ToSet(table[c].fields) : f.name = RefName(r) /\ f.static = r.origin.static} :
           c \in Ancestors(table, r.class) \cap DOMAIN table}

\* What the annotations of a slot say of the handle in it.
Markers(slot) == {a \in ToSet(slot.annotations) : a.path = <<>> /\ a.class \in {"Ref", "Mut", "Owned"}}

\* The JVM finds what r refers to.
Exists(r, table) ==
  CASE r.kind = "Method" ->
         \E c \in Ancestors(table, r.class) \cap DOMAIN table :
           HasMethod(table[c], RefName(r), r.origin.static, Encoded(r.origin.params),
                     WireReturn(r.origin.ret))
    [] r.kind = "Constructor" ->
         /\ r.class \in DOMAIN table
         /\ HasMethod(table[r.class], Init_, FALSE, Encoded(r.origin.params), <<"V">>)
    [] r.kind = "Field" ->
         \E f \in FieldsFor(r, table) : f.type.desc = Wire[r.origin.type]

=============================================================================
