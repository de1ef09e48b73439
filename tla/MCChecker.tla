----------------------------- MODULE MCChecker ------------------------------
(***************************************************************************)
(* Projects for Checker.  Class a.B is the user's, with up to two native   *)
(* methods and up to two exports of the crate, in every order; a.B and a   *)
(* over the JDK's Y and O in every class graph and JDK home; and single    *)
(* members against single references.                                      *)
(***************************************************************************)
EXTENDS Checker

AB == <<"a", "/", "B">>
A  == <<"a">>
Y  == <<"Y">>
O  == <<"O">>
Z  == <<"Z">>      \* a class that is nowhere

MCClassName == {AB, A, Y, O, Z}
Dotted == (AB :> <<"a", ".", "B">>) @@ (A :> A) @@ (Y :> Y) @@ (O :> O)

-----------------------------------------------------------------------------
(* Java slots and Rust types.                                              *)

Plain(desc) == [desc |-> desc, annotations |-> <<>>]
Pointer(desc, path, class, elements) ==
  [desc |-> desc, annotations |-> <<[class |-> "Nullness", path |-> <<>>, elements |-> <<>>],
                                    [class |-> class, path |-> path, elements |-> elements]>>]

Value(t)   == [value |-> t]
NonNull(t) == [value |-> t, nullable |-> FALSE]
X  == <<"X">>
BX == <<"Box", " ", "X">>

Slot ==
  [void |-> Plain(<<"V">>), int |-> Plain(<<"I">>), long |-> Plain(<<"J">>),
   bool |-> Plain(<<"Z">>), str |-> Plain(<<"L", "S", ";">>), obj |-> Plain(<<"L", "O", ";">>),
   pose |-> Plain(<<"L", "a", "/", "B", ";">>), bytes |-> Plain(<<"[", "B">>),
   ints |-> Plain(<<"[", "I">>), strs |-> Plain(<<"[", "L", "S", ";">>),
   longs |-> Pointer(<<"[", "J">>, <<"[">>, "Ref", Value(X)),     \* @Ref long[]
   refX  |-> Pointer(<<"J">>, <<>>, "Ref", Value(X)),
   refXN |-> Pointer(<<"J">>, <<>>, "Ref", NonNull(X)),
   refBX |-> Pointer(<<"J">>, <<>>, "Ref", NonNull(BX)),
   mutXN |-> Pointer(<<"J">>, <<>>, "Mut", NonNull(X)),
   ownBX |-> Pointer(<<"J">>, <<>>, "Owned", Value(BX)),
   ownMap |-> Pointer(<<"J">>, <<>>, "Owned", Value(<<"Map", "K", ",", " ", "V">>)),
   tagged |-> Pointer(<<"J">>, <<>>, "Tag", Value(X)),            \* @Tag long
   bad   |-> Pointer(<<"I">>, <<>>, "Ref", Value(X))]             \* @Ref int

Table == <<"JOwned", "Map", "K", ",", "V">>   \* JOwned<Map<K, V>>

\* For each Rust type, its descriptor and the slots that mean the same.
Meaning ==
     (<<"jint">>                       :> [wire |-> <<"I">>, fits |-> {"int"}])
  @@ (<<"i32">>                        :> [wire |-> <<"I">>, fits |-> {"int"}])
  @@ (<<"jlong">>                      :> [wire |-> <<"J">>, fits |-> {"long", "tagged"}])
  @@ (<<"jboolean">>                   :> [wire |-> <<"Z">>, fits |-> {"bool"}])
  @@ (<<"JString">>                    :> [wire |-> Slot.str.desc, fits |-> {"str"}])
  @@ (<<"Option", "JString">>          :> [wire |-> Slot.str.desc, fits |-> {"str"}])
  @@ (<<"JObject">>                    :> [wire |-> Slot.obj.desc, fits |-> {"obj"}])
  @@ (<<"JPose">>                      :> [wire |-> Slot.pose.desc, fits |-> {"pose"}])
  @@ (<<"JByteArray">>                 :> [wire |-> <<"[", "B">>, fits |-> {"bytes"}])
  @@ (<<"jlongArray">>                 :> [wire |-> <<"[", "J">>, fits |-> {"longs"}])
  @@ (<<"JPrimitiveArray", "jint">>    :> [wire |-> <<"[", "I">>, fits |-> {"ints"}])
  @@ (<<"JObjectArray", "JString">>    :> [wire |-> Slot.strs.desc, fits |-> {"strs"}])
  @@ (<<"JRef", "X">>                  :> [wire |-> <<"J">>, fits |-> {"refXN"}])
  @@ (<<"Option", "JRef", "X">>        :> [wire |-> <<"J">>, fits |-> {"refX"}])
  @@ (<<"JRef", "Box", "X">>           :> [wire |-> <<"J">>, fits |-> {"refBX"}])
  @@ (<<"JMut", "X">>                  :> [wire |-> <<"J">>, fits |-> {"mutXN"}])
  @@ (<<"JOwned", "Box", "X">>         :> [wire |-> <<"J">>, fits |-> {"ownBX"}])
  @@ (Table                            :> [wire |-> <<"J">>, fits |-> {"ownMap"}])
  @@ (<<"Option", "JOwned", "Box", "X">> :> [wire |-> <<"J">>, fits |-> {"ownBX"}])

MCWire == [t \in DOMAIN Meaning |-> Meaning[t].wire]
MCFits == {<<Slot[s], t>> : s \in DOMAIN Slot, t \in DOMAIN Meaning}
            \cap UNION {{<<Slot[s], t>> : s \in Meaning[t].fits} : t \in DOMAIN Meaning}

MCJavaName ==
     (<<"f">> :> <<"f">>) @@ (<<"g">> :> <<"g">>) @@ (<<"m">> :> <<"m">>)
  @@ (<<"_", "a", "_", "b">> :> <<"a", "B">>)

-----------------------------------------------------------------------------
(* Natives and exports.                                                    *)

Class(name, supers, methods, fields) ==
  [name |-> name, supers |-> supers, methods |-> methods, fields |-> fields]
Method(name, static, params, ret) ==
  [name |-> name, static |-> static, native |-> FALSE, annotations |-> {},
   params |-> params, ret |-> ret]
Native(name, static, params, ret) == [Method(name, static, params, ret) EXCEPT !.native = TRUE]
Ignored(m) == [m EXCEPT !.annotations = {"Ignore"}]

F == <<"f">>
NativePool ==
  [f     |-> <<AB, Native(F, TRUE, <<>>, Slot.void)>>,
   fInt  |-> <<AB, Native(F, TRUE, <<Slot.int>>, Slot.int)>>,
   fRef  |-> <<AB, Native(F, TRUE, <<Slot.refX>>, Slot.void)>>,
   fSkip |-> <<AB, Ignored(Native(F, TRUE, <<Slot.bool>>, Slot.void))>>,
   fMap  |-> <<AB, Native(F, TRUE, <<>>, Slot.ownMap)>>,
   aB    |-> <<AB, Native(<<"a", "B">>, TRUE, <<Slot.str>>, Slot.void)>>,
   a_b   |-> <<AB, Native(<<"a", "_", "b">>, FALSE, <<Slot.int>>, Slot.void)>>,
   B_f   |-> <<A, Native(<<"B", "_", "f">>, TRUE, <<>>, Slot.void)>>]

\* The class a class file holds for the natives chosen.
ClassOf(c, chosen) ==
  LET ms == SetToSeq({NativePool[n][2] : n \in {x \in chosen : NativePool[x][1] = c}})
  IN  IF ms = <<>> THEN <<>> ELSE <<Class(c, {}, ms, <<>>)>>

Env == <<"JNIEnv">>
K   == <<"&", "JClass">>
J   == <<"JObject">>
Fn(ident, mangle, inputs, output) ==
  [item |-> "fn", ident |-> ident, mangle |-> mangle, noMangle |-> "no", abi |-> "Rust",
   inputs |-> <<Env>> \o inputs, output |-> output]
Legacy(rest, inputs, output) ==
  [Fn(<<"Java", "_", "a", "_", "B", "_">> \o rest, None, inputs, output)
     EXCEPT !.noMangle = "unsafe(no_mangle)", !.abi = "system"]

Shorthand(static, fn, params, ret) ==
  [entry |-> "fn", static |-> static, fn |-> fn, params |-> params, ret |-> ret]
Block(static, fn, props) == [entry |-> "block", static |-> static, fn |-> fn, props |-> props]
Sig(params, ret)  == [entry |-> "sig", params |-> params, ret |-> ret]
StaticIs(b)       == [entry |-> "static", static |-> b]
NameIs(n)         == [entry |-> "name", name |-> n]
JavaType(c)       == [entry |-> "java_type", class |-> c]
Macro(entries)    == [item |-> "native_method", entries |-> entries]
Bind(class, wrapper, ns, ms, cs, fs) ==
  [item |-> "bind", class |-> class, wrapper |-> wrapper, natives |-> ns, methods |-> ms,
   constructors |-> cs, fields |-> fs]

NsAB   == Dotted[AB]
JInt    == <<"jint">>
OptRef == <<"Option", "JRef", "X">>

ExportPool ==
  [short     |-> Legacy(F, <<K>>, None),
   shortInt  |-> Legacy(F, <<K, JInt>>, JInt),
   shortRef  |-> Legacy(F, <<K, <<"JRef", "X">>>>, None),
   long      |-> Legacy(F \o <<"_", "_">>, <<K>>, None),
   longInt   |-> Legacy(F \o <<"_", "_", "I">>, <<K, JInt>>, JInt),
   longRef   |-> Legacy(F \o <<"_", "_", "J">>, <<K, OptRef>>, None),
   underline |-> Legacy(<<"a", "_", "1", "b">>, <<J, JInt>>, None),
   otherName |-> [Legacy(F, <<K>>, None)
                    EXCEPT !.ident = <<"Java", "_", "a", "_", "B", "_", "1", "f">>],
   hidden    |-> [Legacy(F, <<K>>, None) EXCEPT !.noMangle = "no"],
   bare      |-> Legacy(F, <<>>, None),
   helper    |-> Fn(F, None, <<K>>, None),
   attr      |-> Fn(F, <<NsAB>>, <<K>>, None),
   attrInt   |-> Fn(<<"g">>, <<NsAB, F, <<"(", "I", ")", "I">>>>, <<K, JInt>>, JInt),
   attrRef   |-> Fn(F, <<NsAB, <<"(", "J", ")", "V">>>>, <<K, OptRef>>, None),
   attrPlain |-> Fn(<<"g">>, <<NsAB, F>>, <<J, JInt>>, JInt),
   attrName  |-> Fn(<<"_", "a", "_", "b">>, <<NsAB>>, <<K, <<"JString">>>>, None),
   macro     |-> Macro(<<JavaType(NsAB), Shorthand(TRUE, F, <<>>, None)>>),
   macroInt  |-> Macro(<<StaticIs(TRUE), NameIs(F), Sig(<<<<"&", "jint">>>>, JInt), JavaType(NsAB)>>),
   macroMap  |-> Macro(<<JavaType(NsAB), Shorthand(TRUE, F, <<>>, Table)>>),
   bound     |-> Bind(NsAB, "", <<Block(TRUE, F, <<Sig(<<>>, <<"void">>)>>),
                                  Block(FALSE, <<"g">>, <<StaticIs(TRUE), Sig(<<JInt>>, JInt), NameIs(F)>>)>>,
                      <<>>, <<>>, <<>>),
   boundName |-> Bind(NsAB, "", <<Shorthand(TRUE, <<"_", "a", "_", "b">>, <<<<"JString">>>>, <<"()">>),
                                  Block(TRUE, F, <<StaticIs(TRUE)>>)>>, <<>>, <<>>, <<>>)]

Project(java, home, files) == [java |-> java, home |-> home, files |-> files]

\* Overloads of f, an ignored one among them; names whose symbols would meet
\* without escapes; methods of two names.
NativeSets ==
  {S \in SUBSET {"f", "fInt", "fRef", "fSkip"} : Cardinality(S) \in {1, 2}}
    \cup {{}, {"fMap"}, {"aB"}, {"a_b"}, {"B_f"}, {"f", "B_f"}, {"aB", "a_b"}, {"f", "a_b"}}

ExportNames ==
  <<"short", "shortInt", "shortRef", "long", "longInt", "longRef", "underline", "otherName",
    "hidden", "bare", "helper", "attr", "attrInt", "attrRef", "attrPlain", "attrName",
    "macro", "macroInt", "macroMap", "bound", "boundName">>
Exported == DOMAIN ExportNames

\* Up to two exports; in both orders where the class overloads.
NativePlans ==
  {[kind |-> "native", natives |-> ns, walk |-> w] :
     ns \in NativeSets,
     w \in {<<>>} \cup {<<n>> : n \in Exported}
             \cup {x \in Exported \X Exported : x[1] < x[2]}}
  \cup
  {[kind |-> "native", natives |-> {"f", "fInt"}, walk |-> w] :
     w \in {x \in Exported \X Exported : x[1] > x[2]}}

NativeProject(p) ==
  Project(ClassOf(AB, p.natives) \o ClassOf(A, p.natives), NoHome,
          [k \in DOMAIN p.walk |-> <<ExportPool[ExportNames[p.walk[k]]]>>])

\* A slot of each kind against a type of each kind; the wrapper JPose is
\* declared in the file before or in the one after.
RustTypes == DOMAIN Meaning \cup {<<"Foo">>, <<"JPrimitiveArray">>, <<"JObjectArray", "Foo">>}

SlotPlans ==
  {[kind |-> "param", slot |-> s, type |-> t, first |-> t # <<"JPose">>] :
     s \in DOMAIN Slot \ {"void"}, t \in RustTypes}
  \cup
  {[kind |-> "return", slot |-> s, type |-> t, first |-> TRUE] :
     s \in DOMAIN Slot, t \in RustTypes \cup {None}}

Pose == Bind(NsAB, "JPose", <<>>, <<>>, <<>>, <<>>)
SlotProject(p) ==
  LET param == p.kind = "param"
      n == IF param THEN Native(F, TRUE, <<Slot.int, Slot[p.slot]>>, Slot.void)
           ELSE Native(F, TRUE, <<>>, Slot[p.slot])
      f == IF param THEN Legacy(F, <<K, JInt, p.type>>, None) ELSE Legacy(F, <<K>>, p.type)
  IN  Project(<<Class(AB, {}, <<n>>, <<>>)>>, NoHome,
              IF p.first THEN <<<<Pose>>, <<f>>>> ELSE <<<<f>>, <<Pose>>>>)

-----------------------------------------------------------------------------
(* References over class graphs: m in one class of four, a.B over any of   *)
(* the others and a missing one, the JDK in its layouts, or none, or       *)
(* with modules that cannot be opened, alone or beside a jar.              *)

M == <<"m">>

Jmod(name, magic, classes) == [name |-> name, magic |-> magic, classes |-> classes]
Jar(classes) == [readable |-> TRUE, classes |-> classes]
NoJar        == [readable |-> FALSE, classes |-> <<>>]

Home(layout, y, o) ==
  LET both == (Y :> y) @@ (O :> o)
  IN  CASE layout = "none"   -> NoHome
        [] layout = "jmods"  ->
             [jmods |-> {Jmod("java.base", "JM", Y :> y), Jmod("more", "JM", O :> o),
                         Jmod("notes", "PK", both)}, rt |-> <<NoJar, NoJar>>]
        [] layout = "rt"     -> [jmods |-> {}, rt |-> <<NoJar, Jar(both)>>]
        [] layout = "broken" -> [jmods |-> {Jmod("java.base", "PK", both)}, rt |-> <<NoJar, NoJar>>]
        [] layout = "both"   -> [jmods |-> {Jmod("java.base", "PK", both)}, rt |-> <<Jar(both), NoJar>>]

BindM(c) == Bind(Dotted[c], "", <<>>, <<Shorthand(FALSE, M, <<>>, None)>>, <<>>, <<>>)

GraphPlans ==
  [kind : {"graph"}, at : {AB, A, Y, O}, ab : SUBSET {A, Y, Z}, a : {{}, {Y}}, y : {{}, {O}},
   home : {"none", "jmods", "rt", "broken", "both"}, bound : {<<AB>>, <<A>>, <<AB, A>>, <<Y>>, <<Y, AB>>}]

GraphProject(p) ==
  LET With(c, up) == Class(c, up, IF c = p.at THEN <<Method(M, FALSE, <<>>, Slot.void)>> ELSE <<>>, <<>>)
  IN  Project(<<With(AB, p.ab), With(A, p.a)>>, Home(p.home, With(Y, p.y), With(O, {})),
              [k \in DOMAIN p.bound |-> <<BindM(p.bound[k])>>])

-----------------------------------------------------------------------------
(* One member, in the bound class or in the one above it, against one      *)
(* reference to it.                                                        *)

Field(static, slot) == [name |-> M, static |-> static, type |-> slot]
FieldShort(static, t) == [fn |-> M, static |-> static, props |-> <<[prop |-> "sig", type |-> t]>>]
FieldBlock(static, t) ==
  [fn |-> <<"g">>, static |-> FALSE,
   props |-> <<[prop |-> "static", static |-> static], [prop |-> "get"],
               [prop |-> "name", name |-> M], [prop |-> "sig", type |-> t]>>]
Untyped == [FieldShort(FALSE, None) EXCEPT !.props = <<>>]

Owner == <<"JOwned", "Box", "X">>
FieldPlans ==
  {[kind |-> "field", here |-> FALSE, member |-> Field(FALSE, Slot[s]), entry |-> FieldShort(FALSE, t)] :
     s \in DOMAIN Slot \ {"void", "bad"}, t \in RustTypes}
  \cup
  {[kind |-> "field", here |-> h, member |-> Field(js, Slot[s]), entry |-> e] :
     h \in BOOLEAN, js \in BOOLEAN, s \in {"long", "ownBX"},
     e \in {Untyped} \cup UNION {{FieldShort(rs, t), FieldBlock(rs, t)} :
                                 rs \in BOOLEAN, t \in {<<"jlong">>, JInt, Owner}}}

MethodShort(static, t, u) == Shorthand(static, M, <<t>>, u)
MethodBlock(static, t, u) == Block(FALSE, <<"g">>, <<NameIs(M), StaticIs(static), Sig(<<t>>, u)>>)

MethodPlans ==
  {[kind |-> "method", here |-> h, member |-> Method(n, js, <<Slot[s]>>, Slot[r]), entry |-> e] :
     h \in BOOLEAN, n \in {M, F}, js \in BOOLEAN, s \in {"int", "pose"}, r \in {"void", "long"},
     e \in {MethodShort(rs, t, u) : rs \in BOOLEAN, t \in {<<"i32">>, <<"JPose">>, <<"Foo">>},
                                    u \in {None, <<"jlong">>}}
           \cup {MethodBlock(rs, <<"JPose">>, <<"()">>) : rs \in BOOLEAN}}

ConstructorPlans ==
  {[kind |-> "constructor", here |-> h, member |-> Method(n, n = ClassInit, <<Slot[s]>>, Slot.void),
    entry |-> Shorthand(FALSE, F, <<t>>, None)] :
     h \in BOOLEAN, n \in {Init_, ClassInit, M}, s \in {"int", "pose", "refX"},
     t \in {JInt, <<"JPose">>, <<"JMut", "X">>, <<"Foo">>}}

MemberProject(p) ==
  LET field   == p.kind = "field"
      Own(h, x) == IF p.here = h /\ x THEN <<p.member>> ELSE <<>>
      Entry(k)  == IF p.kind = k THEN <<p.entry>> ELSE <<>>
  IN  Project(<<Class(AB, {A}, Own(TRUE, ~field), Own(TRUE, field)),
                Class(A, {}, Own(FALSE, ~field), Own(FALSE, field))>>, NoHome,
              <<<<Bind(NsAB, "JPose", <<>>, Entry("method"), Entry("constructor"), Entry("field"))>>>>)

-----------------------------------------------------------------------------
MCPlans ==
  NativePlans \cup SlotPlans \cup GraphPlans
    \cup FieldPlans \cup MethodPlans \cup ConstructorPlans

MCProjectOf(p) ==
  CASE p.kind = "native"            -> NativeProject(p)
    [] p.kind \in {"param", "return"} -> SlotProject(p)
    [] p.kind = "graph"             -> GraphProject(p)
    [] OTHER                        -> MemberProject(p)

=============================================================================
