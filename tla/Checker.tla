------------------------------ MODULE Checker -------------------------------
(***************************************************************************)
(* jnisafe-check as `run` of lib.rs strings it together: read both sides,  *)
(* fetch the classes of the JDK that the bindings need, pair natives with  *)
(* exports and compare them, then look up what the bindings refer to       *)
(* (check.rs).  One action per iteration of a loop; the handle-flow        *)
(* analysis that may follow is HandleFlow.                                 *)
(*                                                                         *)
(* A project is [java, home, files]: the classes on --java, the JDK home,  *)
(* and the crate's files in the order of the walk.                         *)
(***************************************************************************)
EXTENDS JniLink

CONSTANTS
  Plans,         \* what there is to check,
  ProjectOf(_),  \* the project of each plan
  ClassName

IsSeq(s) == s \in Seq(ToSet(s))

\* A class is [name, supers, ..] and is named, like those above it, by a
\* ClassName; its methods and its annotations are in an order, and a constructor is
\* one of an object.
IsClass(c) ==
  /\ c.name \in ClassName /\ c.supers \subseteq ClassName /\ IsSeq(c.methods)
  /\ \A m \in ToSet(c.methods) : m.static \in BOOLEAN /\ IsSeq(m.params)
  /\ \A f \in ToSet(c.fields) : IsSeq(f.type.annotations)
  /\ \A m \in Named(c, {Init_}) : ~m.static /\ m.ret.desc = <<"V">>

\* A module and a jar have each class under its name.
IsTable(t) == \A c \in DOMAIN t : t[c].name = c /\ IsClass(t[c])

\* The modules of a home share no class, and a home is of Java 9 (with jmods),
\* a JDK of Java 8 (jre/lib/rt.jar) or a JRE (lib/rt.jar).
IsHome(home) ==
  /\ IsFiniteSet(home.jmods) /\ IsSeq(home.rt)
  /\ \A m \in home.jmods : IsTable(m.classes)
  /\ \A k \in DOMAIN home.rt : IsTable(home.rt[k].classes)
  /\ \A m, n \in GoodJmods(home) : m # n => DOMAIN m.classes \cap DOMAIN n.classes = {}
  /\ \A k \in DOMAIN home.rt :
       home.rt[k].readable =>
         GoodJmods(home) = {} /\ \A l \in DOMAIN home.rt : home.rt[l].readable => l = k

IsEntry(e) == e.entry = "block" => IsSeq(e.props)

\* How the attributes of a function ask for its name to be kept.
Kept == {"no", "no_mangle", "unsafe(no_mangle)"}

\* The items of a file; a function has its parameters in an order, a macro its
\* entries, and a block its properties.
IsItem(x) ==
  /\ x.item = "fn" => "ident" \in DOMAIN x /\ IsSeq(x.inputs) /\ x.noMangle \in Kept
  /\ x.item = "native_method" => IsSeq(x.entries) /\ \A e \in ToSet(x.entries) : IsEntry(e)
  /\ x.item = "bind" =>
       /\ ClassDottedToInternal(x.class) \in ClassName
       /\ IsSeq(x.natives) /\ IsSeq(x.methods) /\ IsSeq(x.constructors) /\ IsSeq(x.fields)
       /\ \A e \in ToSet(x.natives) : IsEntry(e)

\* The projects there are.
ASSUME ProjectAssumption ==
  \A p \in Plans :
    LET q == ProjectOf(p)
    IN  /\ IsSeq(q.java) /\ \A c \in ToSet(q.java) : IsClass(c)
        /\ q.home # NoHome => IsHome(q.home)
        /\ IsSeq(q.files)
        /\ \A f \in ToSet(q.files) : IsSeq(f) /\ \A x \in ToSet(f) : IsItem(x)

\* Names as Java has them: of identifiers, none of which begins with a digit, not
\* even after a `/`.
EscapeDigits    == {"0", "1", "2", "3"}
IdentStarts(s)  == {k \in DOMAIN s : k = 1 \/ s[k - 1] = "/"}
IsName(s)       ==
  IsSeq(s) /\ "." \notin ToSet(s) /\ \A k \in IdentStarts(s) : s[k] \notin EscapeDigits
IsClassName(s)  == IsName(s) /\ s # <<>> /\ s[Len(s)] # "/" /\ \A k \in IdentStarts(s) : s[k] # "/"
IsMethodName(s) == IsName(s) /\ s # <<>> /\ "/" \notin ToSet(s)

NativesOf(c) == {k \in DOMAIN c.methods : c.methods[k].native}

\* javac writes such names, and no two methods of a class that take the same.
JavaNames(c) ==
  /\ IsClassName(c.name)
  /\ \A k \in NativesOf(c) :
       IsMethodName(c.methods[k].name) /\ IsName(ArgDescriptor(c.methods[k]))
  /\ \A k, l \in NativesOf(c) :
       c.methods[k].name = c.methods[l].name
       /\ ArgDescriptor(c.methods[k]) = ArgDescriptor(c.methods[l]) => k = l

ASSUME JavaNamesAssumption == \A p \in Plans : \A c \in ToSet(ProjectOf(p).java) : JavaNames(c)

VARIABLES
  project,
  phase,    \* what `run` is doing
  natives, exports, refs,
  models,   \* the classes with a model: the user's, then the JDK's
  jdk,      \* `resolver`
  waiting,  \* `queue`
  visited,
  i,        \* where the running loop is
  index,    \* `rust_index`: the position of the export with a symbol
  seen, matched,
  report

sides   == <<natives, exports, refs>>
closing == <<models, jdk, waiting, visited>>
pairing == <<index, seen, matched>>
vars    == <<project, phase, sides, closing, i, pairing, report>>

\* A diagnostic; digit is the last one of an E02x or E03x.
Diag(code, digit, java, rust, slot) ==
  [code |-> code, digit |-> digit, java |-> java, rust |-> rust, slot |-> slot]

\* Both front ends have read the project.
Init ==
  /\ \E p \in Plans : project = ProjectOf(p)
  /\ phase = "seeds"
  /\ natives = Natives(project.java)
  /\ models  = Models(project.java)
  /\ exports = Exports(project.files)
  /\ refs    = References(project.files)
  /\ jdk = <<>> /\ waiting = {} /\ visited = {}
  /\ i = 1
  /\ index = <<>> /\ seen = {} /\ matched = {}
  /\ report = {}

-----------------------------------------------------------------------------
(* `resolve_jdk_models` and `load_jdk_models`.                             *)

ModelNames == {models[k].name : k \in DOMAIN models}

\* `find`: the first class of the name.
FirstModel(c) ==
  LET k == SelectInSeq(models, LAMBDA m : m.name = c) IN models[k]

SeedsOf(r) == IF r.class \in ModelNames THEN FirstModel(r.class).supers ELSE {r.class}

JdkSeeds == (UNION {SeedsOf(refs[k]) : k \in DOMAIN refs}) \ ModelNames

\* The class sources of the home, none if there is no home.
HomeSources == IF project.home = NoHome THEN <<>> ELSE Open(project.home)

\* (A change TLC has to notice: the user's classes are not left alone.)
AllowReload(seeds) == seeds

\* What has been seen when the first class is popped.
InitiallyVisited(seeds) == ModelNames \cup seeds

ResolveJdk ==
  /\ phase = "seeds" /\ JdkSeeds # {} /\ HomeSources # <<>>
  /\ phase' = "closing"
  /\ jdk' = ClassBytes(HomeSources)
  /\ waiting' = JdkSeeds
  /\ visited' = InitiallyVisited(JdkSeeds)
  /\ UNCHANGED <<project, sides, models, i, pairing, report>>

SkipJdk ==
  /\ phase = "seeds" /\ (JdkSeeds = {} \/ HomeSources = <<>>)
  /\ phase' = "index"
  /\ UNCHANGED <<project, sides, closing, i, pairing, report>>

\* (A change TLC has to notice: what a JDK class extends is not fetched.)
NoParents(model) == {}

Parents(model) == model.supers \ visited

\* (A change TLC has to notice: a class the JDK lacks stays in the queue.)
KeepWaiting(c) == waiting

Popped(c) == waiting \ {c}

LoadJdkClass(c) ==
  /\ phase = "closing" /\ c \in waiting /\ c \in DOMAIN jdk
  /\ LET model == BuildModel(jdk[c])
     IN  /\ models'  = Append(models, model)
         /\ waiting' = (waiting \ {c}) \cup Parents(model)
         /\ visited' = visited \cup model.supers
  /\ UNCHANGED <<project, phase, sides, jdk, i, pairing, report>>

DropJdkClass(c) ==
  /\ phase = "closing" /\ c \in waiting /\ c \notin DOMAIN jdk
  /\ waiting' = Popped(c)
  /\ UNCHANGED <<project, phase, sides, models, jdk, visited, i, pairing, report>>

EndJdk ==
  /\ phase = "closing" /\ waiting = {}
  /\ phase' = "index"
  /\ UNCHANGED <<project, sides, closing, i, pairing, report>>

-----------------------------------------------------------------------------
(* `check`.                                                                *)

\* One iteration of the loop over s, and the end of the loop.
Visit(p, s) ==
  /\ phase = p /\ i <= Len(s) /\ i' = i + 1
  /\ UNCHANGED <<project, phase, sides, closing>>

Leave(p, s, next) ==
  /\ phase = p /\ i > Len(s) /\ i' = 1 /\ phase' = next
  /\ UNCHANGED <<project, sides, closing, pairing, report>>

ProblemCode == [NotExported |-> "W002", TooFewParams |-> "E004"]

\* (A change TLC has to notice: a function without receiver is paired.)
BrokenByAttribute(e) == e.problem = "NotExported"

Broken(e) == e.problem # "none"

\* A later export of a symbol replaces the earlier one.
IndexExport ==
  /\ Visit("index", exports)
  /\ LET e == exports[i]
     IN  IF Broken(e)
         THEN /\ report' = report \cup {Diag(ProblemCode[e.problem], 0, 0, i, 0)}
              /\ UNCHANGED index
         ELSE /\ index' = [s \in DOMAIN index \cup {e.symbol} |-> IF s = e.symbol THEN i ELSE index[s]]
              /\ report' = IF e.symbol \in DOMAIN index
                           THEN report \cup {Diag("E000", 0, 0, i, 0)} ELSE report
  /\ UNCHANGED <<seen, matched>>

\* `check_receiver`.
ReceiverCodes(n, e) ==
  IF <<n.static, e.receiver>> \in {<<TRUE, "Object">>, <<FALSE, "Class">>} THEN {"E002"} ELSE {}

\* (A change TLC has to notice: what a native returns is not compared.)
ParamDiags(n, k) ==
  UNION {{Diag("E02", d, i, k, s) : d \in Compare(n.params[s], exports[k].params[s])} :
           s \in DOMAIN n.params}

\* The mismatches of the parameters and of the return (slot 0).
SlotDiags(n, k) ==
  LET e == exports[k]
  IN  (UNION {{Diag("E02", d, i, k, s) : d \in Compare(n.params[s], e.params[s])} :
                s \in DOMAIN n.params})
        \cup {Diag("E03", d, i, k, 0) : d \in Compare(n.ret, e.ret)}

\* What native i has to do with the export k of its symbol.
PairDiags(n, k) ==
  {Diag(c, 0, i, k, 0) : c \in ReceiverCodes(n, exports[k])}
    \cup (IF Len(n.params) # Len(exports[k].params) THEN {Diag("E010", 0, i, k, 0)}
          ELSE SlotDiags(n, k))

MatchNative ==
  /\ Visit("match", natives)
  /\ seen' = seen \cup {natives[i].symbol}
  /\ LET n     == natives[i]
         twice == IF n.symbol \in seen THEN {Diag("E005", 0, i, 0, 0)} ELSE {}
     IN  IF n.symbol \in DOMAIN index
         THEN /\ matched' = matched \cup {n.symbol}
              /\ report' = report \cup twice \cup PairDiags(n, index[n.symbol])
         ELSE /\ report' = report \cup twice \cup {Diag("E001", 0, i, 0, 0)}
              /\ UNCHANGED matched
  /\ UNCHANGED index

IsBorrow(t) == t.ir = "Pointer" /\ t.kind \in Borrows

\* (A change TLC has to notice: exports nobody calls are not reported.)
BorrowCodes(e) == IF IsBorrow(e.ret) THEN {"W003"} ELSE {}

LintCodes(e) ==
  (IF e.symbol \in matched THEN {} ELSE {"W001"})
    \cup (IF IsBorrow(e.ret) THEN {"W003"} ELSE {})

LintExport ==
  /\ Visit("lint", exports)
  /\ report' = IF Broken(exports[i]) THEN report
               ELSE report \cup {Diag(c, 0, 0, i, 0) : c \in LintCodes(exports[i])}
  /\ UNCHANGED pairing

-----------------------------------------------------------------------------
(* `check_java_refs`.                                                      *)

\* The last class of the name.
ModelIndex ==
  [c \in ModelNames |->
     models[CHOOSE k \in DOMAIN models :
              models[k].name = c /\ \A l \in DOMAIN models : models[l].name = c => l <= k]]

\* The models of c and of what is above it, as far as there are models.
Hierarchy(c, idx) ==
  LET Up(S) == S \cup UNION {idx[k].supers : k \in S \cap DOMAIN idx}
      up[n \in Nat] == IF n = 0 THEN {c} ELSE Up(up[n - 1])
  IN  {idx[k] : k \in up[Cardinality(DOMAIN idx)] \cap DOMAIN idx}

ExpectedRet(ret) == IF ret = Void THEN <<"V">> ELSE FieldDescriptor(ret)

\* (A change TLC has to notice: what a method returns is not compared.)
SameArguments(m, r) == m.args = ArgsDescriptor(r.params)

SameDescriptor(m, r) == m.args = ArgsDescriptor(r.params) /\ m.ret = ExpectedRet(r.ret)

\* `check_method_ref`; a type that has no descriptor ends the comparison.
MethodCodes(r, classes) ==
  LET named == {m \in UNION {c.methods : c \in classes} : m.name = r.name /\ m.static = r.static}
      typed == Encodable(r.params) /\ ExpectedRet(r.ret) # <<>>
  IN  IF named = {} THEN {"E040"}
      ELSE IF typed /\ ~\E m \in named : SameDescriptor(m, r) THEN {"E041"} ELSE {}

\* `check_ctor_ref`.
ConstructorCodes(r, class) ==
  IF Encodable(r.params) /\ ArgsDescriptor(r.params) \notin class.constructors
  THEN {"E044"} ELSE {}

\* `pointer_matches`.
PointerMatches(rust, java) ==
  /\ rust.kind = java.kind /\ rust.type = java.type
  /\ rust.kind \in Borrows => rust.nullable = java.nullable

\* (A change TLC has to notice: a field without annotation is accepted.)
HandleCodesAnnotated(r, fields) ==
  LET anns == {f.ann : f \in fields} \ {NoAnn}
  IN  IF anns = {} \/ \E a \in anns : PointerMatches(r.field, a) THEN {} ELSE {"E045"}

\* `check_field_handle_annotation`, of the fields with the descriptor.
HandleCodes(r, fields) ==
  LET anns == {f.ann : f \in fields} \ {NoAnn}
  IN  CASE \E a \in anns : PointerMatches(r.field, a) -> {}
        [] anns = {}                                  -> {"W005"}
        [] OTHER                                      -> {"E045"}

\* `check_field_ref`.
FieldCodes(r, classes) ==
  LET named == {f \in UNION {c.fields : c \in classes} : f.name = r.name /\ f.static = r.static}
      typed == {f \in named : f.desc = FieldDescriptor(r.field)}
  IN  IF named = {} THEN {"E042"}
      ELSE IF FieldDescriptor(r.field) = <<>> THEN {}
      ELSE IF typed = {} THEN {"E043"}
      ELSE IF r.field.ir = "Pointer" THEN HandleCodes(r, typed) ELSE {}

RefCodes(r, idx) ==
  IF r.class \notin DOMAIN idx THEN {"W004"}
  ELSE CASE r.kind = "Method"      -> MethodCodes(r, Hierarchy(r.class, idx))
         [] r.kind = "Constructor" -> ConstructorCodes(r, idx[r.class])
         [] r.kind = "Field"       -> FieldCodes(r, Hierarchy(r.class, idx))

CheckRef ==
  /\ Visit("refs", refs)
  /\ report' = report \cup {Diag(c, 0, 0, i, 0) : c \in RefCodes(refs[i], ModelIndex)}
  /\ UNCHANGED pairing

-----------------------------------------------------------------------------
Resolution == ResolveJdk \/ SkipJdk \/ EndJdk \/ \E c \in waiting : LoadJdkClass(c) \/ DropJdkClass(c)

Matching ==
  \/ IndexExport \/ Leave("index", exports, "match")
  \/ MatchNative \/ Leave("match", natives, "lint")
  \/ LintExport  \/ Leave("lint", exports, "refs")
  \/ CheckRef    \/ Leave("refs", refs, "done")

Next == Resolution \/ Matching

\* The program runs on: nothing it does waits for anybody.
Spec == Init /\ [][Next]_vars /\ WF_vars(Next)

-----------------------------------------------------------------------------
(* Properties.                                                             *)

Done == phase = "done"

Codes      == {"E000", "E001", "E002", "E004", "E005", "E010", "E02", "E03",
               "E040", "E041", "E042", "E043", "E044", "E045",
               "W001", "W002", "W003", "W004", "W005"}
RefErrors  == {"E040", "E041", "E042", "E043", "E044", "E045", "W004", "W005"}
Reported(code, k) == \E d \in report : d.code = code /\ d.rust = k

\* Types and the positions diagnostics name: what a diagnostic points at is a
\* native, an export or a reference that was read, and a symbol's export is an
\* unbroken one that has it.
TypeOK ==
  /\ phase \in {"seeds", "closing", "index", "match", "lint", "refs", "done"}
  /\ waiting \subseteq visited /\ visited \subseteq ClassName
  /\ seen \subseteq {natives[k].symbol : k \in DOMAIN natives}
  /\ matched \subseteq DOMAIN index \cap seen
  /\ \A s \in DOMAIN index : exports[index[s]].symbol = s /\ exports[index[s]].problem = "none"
  /\ \A d \in report :
       /\ d.code \in Codes /\ d.digit \in 0..9
       /\ d.java \in {0} \cup DOMAIN natives
       /\ d.rust \in {0} \cup (IF d.code \in RefErrors THEN DOMAIN refs ELSE DOMAIN exports)

\* The Rust name the Java name of e is derived from, if it is not given.
Derived(e) ==
  CASE IsMangle(e) /\ ParseJniMangle(e.origin.mangle).name = None -> {e.origin.ident}
    [] IsMacro(e) /\ e.origin.name = None                         -> {e.origin.fn}
    [] OTHER                                                      -> {}

\* What e says itself of what it takes.
WrittenArgs(e) ==
  IF IsMacro(e) THEN ArgsDescriptor(e.params) ELSE ParseJniMangle(e.origin.mangle).args

\* Slot for slot, `compare` finds a Java type and a Rust type to mean the same
\* where they do, and those that do have one descriptor, which is that typemap.rs
\* gives the Rust one.  The macros and the attribute name classes and methods as
\* Java does and make of a Rust name what `snake_to_lower_camel` does; no function
\* says `-> ()`.
ASSUME ExportAssumption ==
  /\ \A f \in Fits : f[2] \in DOMAIN Wire /\ Wire[f[2]] = f[1].desc
  /\ \A p \in Plans :
       LET q   == ProjectOf(p)
           reg == Registry(q.files)
       IN  \A e \in ToSet(Exports(q.files)) :
             /\ IsSeq(RustParams(e))
             /\ ~IsLegacy(e) =>
                  IsClassName(e.class) /\ IsMethodName(e.name) /\ IsName(WrittenArgs(e))
             /\ \A n \in Derived(e) : JavaName[n] = SnakeToLowerCamel(n)
             /\ IsFn(e) => e.origin.output \notin {<<"()">>, <<"void">>}
             /\ \A t \in ToSet(RustParams(e)) :
                  FieldDescriptor(LowerType(t, reg)) = IF t \in DOMAIN Wire THEN Wire[t] ELSE <<>>
             /\ \A m \in {n.origin : n \in ToSet(Natives(q.java))} :
                  /\ \A s \in ToSet(m.params), t \in ToSet(RustParams(e)) :
                       Compare(LowerSlot(Collected(s)), LowerType(t, reg)) = {} <=> <<s, t>> \in Fits
                  /\ Compare(LowerReturn(Collected(m.ret)), LowerRet(RustReturn(e), reg)) = {}
                       <=> ReturnFits(m.ret, RustReturn(e))

\* The native methods of the project, as the source declares them.
Declared ==
  UNION {{<<c, m>> : m \in {x \in ToSet(c.methods) : x.native /\ ~HasIgnore(x)}} :
           c \in ToSet(project.java)}

\* Each class is given once.
ClassesOnce == Cardinality({c.name : c \in ToSet(project.java)}) = Len(project.java)

\* No diagnostic about natives and exports but W003.
Clean == \A d \in report : d.code \in RefErrors \cup {"W003"}

\* An attribute that shares its method with another export says its signature,
\* and says it right: the checker believes the types (see README, known limits).
HonestSignatures ==
  \A k \in DOMAIN exports :
    LET e == exports[k]
    IN  IsMangle(e) =>
          \/ \A l \in DOMAIN exports \ {k} : <<exports[l].class, exports[l].name>> # <<e.class, e.name>>
          \/ /\ ParseJniMangle(e.origin.mangle).signed
             /\ ParseJniMangle(e.origin.mangle).args = Encoded(RustParams(e))

\* Nor does it say anything of a receiver that is neither a class nor an object.
ReceiversKnown ==
  \A k \in DOMAIN exports :
    IsFn(exports[k]) /\ ~Broken(exports[k]) => exports[k].receiver # "Unknown"

\* A clean report means that the JVM finds, for each native method, one function
\* that takes and returns what Java declares, and that everything the crate
\* registers is a native method.
CleanMeansLinked ==
  Done /\ ClassesOnce /\ HonestSignatures /\ ReceiversKnown /\ Clean =>
    /\ \A p \in Declared :
         \E k \in DOMAIN exports :
           LinkOf(exports, p[1], p[2]) = {k} /\ Agrees(exports[k], p[2])
    /\ \A k \in DOMAIN exports :
         IsMacro(exports[k]) => \E p \in Declared : Registers(exports[k], p[1], p[2])

SameName(c, m) == {x \in ToSet(c.methods) : x.native /\ x.name = m.name}

\* What the checker takes for granted: no ignored method shares the name of
\* another native, functions have the names javac writes into its headers and an
\* ABI that it knows (not, say, "C-unwind"), and the overloads of a method are not
\* exported partly by name, partly by class.
Conventional ==
  \A p \in Declared :
    LET c == p[1]
        m == p[2]
        overloaded == Cardinality(SameName(c, m)) > 1
        mine == UNION {LinkOf(exports, c, x) : x \in SameName(c, m)}
    IN  /\ \A x \in SameName(c, m) : ~HasIgnore(x)
        /\ \A k \in mine : SymbolsOf(exports[k]) \subseteq
             {IF overloaded THEN Long(c, x) ELSE Short(c, x) : x \in SameName(c, m)}
        /\ \A k \in mine :
             IsLegacy(exports[k]) => exports[k].origin.abi \in {"Rust", "system", "C", "extern"}
        /\ \A k, l \in mine : IsLegacy(exports[k]) <=> IsLegacy(exports[l])

\* A crate that implements each native method by one function that agrees, and
\* has no other export, is reported clean.
NoFalseAlarm ==
  /\ Done /\ ClassesOnce /\ Conventional
  /\ \A p \in Declared :
       \E k \in DOMAIN exports : LinkOf(exports, p[1], p[2]) = {k} /\ Agrees(exports[k], p[2])
  /\ \A k \in DOMAIN exports : \E p \in Declared : k \in LinkOf(exports, p[1], p[2])
  => Clean

\* Where a native and the export of its symbol have as many parameters, the
\* slots reported are exactly those that Java and Rust declare differently.
SlotsExact ==
  Done =>
    \A j \in DOMAIN natives :
      natives[j].symbol \in DOMAIN index =>
        LET k == index[natives[j].symbol]
        IN  Len(natives[j].params) = Len(exports[k].params) =>
              Misfits(exports[k], natives[j].origin)
                = {d.slot : d \in {x \in report : x.java = j /\ x.code \in {"E02", "E03"}}}

\* Natives of classes that are given once never share a symbol: the escapes of
\* the mangling keep `_`, `/` and the descriptors apart.
SymbolsDistinct == Done /\ ClassesOnce => \A d \in report : d.code # "E005"

-----------------------------------------------------------------------------
\* The classes there are, as the JVM sees them.
ClassesOf(q) ==
  LET user == UserTable(q.java)
      jdks == JdkTable(q.home)
  IN  [c \in DOMAIN user \cup DOMAIN jdks |-> IF c \in DOMAIN user THEN user[c] ELSE jdks[c]]

Classes == ClassesOf(project)

Describable(r) ==
  CASE r.kind = "Field" -> r.origin.type \in DOMAIN Wire
    [] OTHER -> /\ ToSet(r.origin.params) \subseteq DOMAIN Wire
                /\ r.origin.ret \in DOMAIN Wire \cup {None, <<"()">>, <<"void">>}

\* The types a reference takes and gives, but what a method returns.
NoType == {None, <<"()">>, <<"void">>}
TypesOf(r) == IF r.kind = "Field" THEN {r.origin.type} ELSE ToSet(r.origin.params)

\* The jni crate makes of the Rust name of a member what `snake_to_lower_camel`
\* does, and of each type in a binding the descriptor that typemap.rs gives it;
\* a method or a field does not have the name of an initializer.  A field that is
\* a long means the same to both sides where `compare` would find so of a slot.
ASSUME BindingAssumption ==
  /\ \A t \in DOMAIN Wire : Wire[t] # <<>>
  /\ \A p \in Plans :
       LET q      == ProjectOf(p)
           reg    == Registry(q.files)
           fields == UNION {ToSet(ClassesOf(q)[c].fields) : c \in DOMAIN ClassesOf(q)}
           longs  == {f.type : f \in {x \in fields : x.type.desc = <<"J">>}}
       IN  \A r \in ToSet(References(q.files)) :
             /\ r.kind # "Constructor" =>
                  /\ MethodName(r.origin) \notin {ClassInit, Init_}
                  /\ r.origin.name = None =>
                       r.origin.fn # None /\ JavaName[r.origin.fn] = SnakeToLowerCamel(r.origin.fn)
             /\ \A t \in TypesOf(r) :
                  LET low == LowerType(t, reg)
                  IN  /\ FieldDescriptor(low) = IF t \in DOMAIN Wire THEN Wire[t] ELSE <<>>
                      /\ r.kind = "Field" =>
                           \A s \in longs : Compare(LowerSlot(Collected(s)), low) = {} <=> <<s, t>> \in Fits
             /\ r.kind = "Method" =>
                  ExpectedRet(LowerRet(r.origin.ret, reg))
                    = IF r.origin.ret \in DOMAIN Wire \cup NoType THEN WireReturn(r.origin.ret) ELSE <<>>

\* A reference nothing is said about is found when it is used.
AcceptedExists ==
  Done /\ ClassesOnce =>
    \A k \in DOMAIN refs :
      Describable(refs[k]) /\ (\A d \in report : d.code \in RefErrors => d.rust # k)
        => Exists(refs[k], Classes)

UserNames == {c.name : c \in ToSet(project.java)}

\* The classes above c are all looked at: there is a home to find the JDK's in,
\* and each of the user's that extends one of them is itself bound.
Resolvable(c) ==
  \A a \in Ancestors(Classes, c) :
    /\ a \notin UserNames => HomeSources # <<>>
    /\ a \in UserNames => \/ a \in {refs[k].class : k \in DOMAIN refs}
                          \/ Classes[a].supers \subseteq UserNames

\* The class of a reference cannot be verified (W004) if and only if it is
\* neither the user's nor one of a JDK that can be read.
UnverifiedIsAbsent ==
  Done =>
    \A k \in DOMAIN refs :
      Reported("W004", k) <=> refs[k].class \notin UserNames \cup DOMAIN JdkTable(project.home)

\* A reference that is reported missing is missing.
MissingIsReal ==
  /\ UnverifiedIsAbsent
  /\ Done /\ ClassesOnce =>
       \A k \in DOMAIN refs :
         /\ Resolvable(refs[k].class)
         /\ \E c \in {"E040", "E041", "E042", "E043", "E044"} : Reported(c, k)
         => ~Exists(refs[k], Classes)

\* A reference to a handle field whose class hierarchy has one field of the
\* name, which says at most one thing of a handle, is accepted if that means the
\* same, warned about if it says none, and rejected otherwise.
HandleFieldExact ==
  Done /\ ClassesOnce =>
    \A k \in DOMAIN refs :
      LET r == refs[k]
          fields == FieldsFor(r, Classes)
      IN  r.kind = "Field" /\ Resolvable(r.class) /\ r.field.ir = "Pointer" =>
            \A f \in fields :
              fields = {f} /\ f.type.desc = <<"J">> /\ (\A a, b \in Markers(f.type) : a = b) =>
                /\ Reported("W005", k) <=> Markers(f.type) = {}
                /\ Reported("E045", k) <=>
                     Markers(f.type) # {} /\ <<f.type, r.origin.type>> \notin Fits

-----------------------------------------------------------------------------
(* The fetching of JDK classes is JdkClosure, over the classes of the      *)
(* project and the classes its bindings name.                              *)

Supers(table) == [c \in DOMAIN table |-> table[c].supers]

\* A binding names its class if one of its entries parses.
HasRefs(item) ==
  \/ \E e \in ToSet(item.methods) \cup ToSet(item.constructors) : IsMethod(e)
  \/ \E e \in ToSet(item.fields) : FieldEntry(e).type # None

Closure == INSTANCE JdkClosure WITH
  Class   <- ClassName,
  user    <- Supers(UserTable(project.java)),
  jdk     <- Supers(JdkTable(project.home)),
  home    <- HomeSources # <<>>,
  bound   <- {ClassDottedToInternal(b.class) :
                b \in {x \in ToSet(Items(project.files, "bind")) : HasRefs(x)}},
  step    <- IF phase \in {"seeds", "closing"} THEN phase ELSE "done",
  waiting <- waiting,
  visited <- visited,
  loaded  <- {models[k].name : k \in (Len(project.java) + 1)..Len(models)}

\* The classes fetched are the least set the bindings need.
ClosureExact == Closure!ClosureExact

\* The checker's resolution implements the abstract one.
ClosureSpec == Closure!Spec

\* The checker comes to an end, whatever the class graph looks like.
CheckerEnds == <>Done

=============================================================================
