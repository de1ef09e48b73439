----------------------------- MODULE RustLoader -----------------------------
(***************************************************************************)
(* rust_loader.rs and rust_loader/macros.rs: from the items of a crate, as *)
(* syn parses them, to the exports that Java may call and to the           *)
(* references to Java members.                                             *)
(*                                                                         *)
(* A file is the sequence of its items, in the order of the file:          *)
(*   fn             [ident, mangle, noMangle, abi, inputs, output]         *)
(*   native_method  [entries]                                              *)
(*   bind           [class, wrapper, natives, methods, constructors,       *)
(*                   fields]                                               *)
(* Names are sequences of characters, types as in Ir; an absent name,      *)
(* class or type is the empty sequence.                                    *)
(***************************************************************************)
EXTENDS Ir

None == <<>>

\* `lower_ret` of macros.rs.
LowerRet(ret, reg) ==
  IF ret \in {None, <<"()">>, <<"void">>} THEN Void ELSE LowerType(ret, reg)

\* An export.  `origin` is what the source says, for the diagnostics' reader.
Export(symbol, class, name, receiver, params, ret, problem, origin) ==
  [symbol |-> symbol, class |-> class, name |-> name, receiver |-> receiver,
   params |-> params, ret |-> ret, problem |-> problem, origin |-> origin]

-----------------------------------------------------------------------------
(* Functions.                                                              *)

IsNoMangle(f)  == f.noMangle \in {"no_mangle", "unsafe(no_mangle)"}
IsSystemAbi(f) == f.abi \in {"system", "C", "extern"}

\* The ident of a type behind any `&`.
LastIdent(t) == t[SelectInSeq(t, LAMBDA x : x # "&")]

ReceiverKind(t) ==
  CASE LastIdent(t) \in {"JClass", "jclass"}   -> "Class"
    [] LastIdent(t) \in {"JObject", "jobject"} -> "Object"
    [] OTHER                                   -> "Unknown"

Find(s, c) == SelectInSeq(s, LAMBDA x : x = c)

\* `jni_sig_args`: what stands between the parentheses, if there are any.
HasArgs(sig)    == Find(sig, "(") \in 1..(Find(sig, ")") - 1)
JniSigArgs(sig) == SubSeq(sig, Find(sig, "(") + 1, Find(sig, ")") - 1)

\* `parse_jni_mangle`: the class, then a name or a signature or both.
ParseJniMangle(args) ==
  LET sig == CASE Len(args) = 1 -> None
               [] Len(args) = 2 -> IF Contains(args[2], "(") THEN args[2] ELSE None
               [] OTHER         -> args[3]
  IN  [namespace |-> args[1],
       name      |-> IF Len(args) = 1 \/ (Len(args) = 2 /\ sig # None) THEN None ELSE args[2],
       signed    |-> HasArgs(sig),
       args      |-> IF HasArgs(sig) THEN JniSigArgs(sig) ELSE None]

TooFewParams(f) == IF Len(f.inputs) < 2 THEN "TooFewParams" ELSE "none"

\* The signature of a function, under the key and with the problem given.
FnExport(f, symbol, class, name, problem, reg) ==
  Export(symbol, class, name,
         IF Len(f.inputs) < 2 THEN "Unknown" ELSE ReceiverKind(f.inputs[2]),
         LowerTypes(SubSeq(f.inputs, 3, Len(f.inputs)), reg),
         IF f.output = None THEN Void ELSE LowerType(f.output, reg),
         problem, f)

\* The attribute derives the symbol and the ABI itself.
LowerMangled(f, reg) ==
  LET m      == ParseJniMangle(f.mangle)
      class  == ClassDottedToInternal(m.namespace)
      method == IF m.name = None THEN SnakeToLowerCamel(f.ident) ELSE m.name
  IN  FnExport(f, IF m.signed THEN LongSymbol(class, method, m.args)
                  ELSE ShortSymbol(class, method),
               class, method, TooFewParams(f), reg)

LegacyProblem(f) ==
  IF IsNoMangle(f) /\ IsSystemAbi(f) THEN TooFewParams(f) ELSE "NotExported"

\* `lower_fn`: no export, or one.
LowerFn(f, reg) ==
  IF f.mangle # None THEN <<LowerMangled(f, reg)>>
  ELSE IF IsPrefix(JavaPrefix, f.ident)
       THEN <<FnExport(f, f.ident, None, None, LegacyProblem(f), reg)>> ELSE <<>>

-----------------------------------------------------------------------------
(* `native_method!` and the blocks of `bind_java_type!`.                   *)

SpecNew == [class |-> None, name |-> None, fn |-> None, static |-> FALSE,
            params |-> <<>>, ret |-> None, haveSig |-> FALSE]

\* `parse_params` ignores a leading `&`.
ParseParams(ps) == [i \in DOMAIN ps |-> IF Head(ps[i]) = "&" THEN Tail(ps[i]) ELSE ps[i]]

\* A comma between the arguments of a generic type ends the entry: `<..>` is no
\* group to `split_top_level_commas`, and what is left does not parse.
SplitTopLevelCommas(t) == Contains(t, ",")

\* A property sets its part of the method, whatever was said before it.
ApplyProperty(spec, e) ==
  CASE e.entry = "java_type" -> [spec EXCEPT !.class = e.class]
    [] e.entry = "name"      -> [spec EXCEPT !.name = e.name]
    [] e.entry = "static"    -> [spec EXCEPT !.static = e.static]
    [] e.entry = "sig" /\ ~SplitTopLevelCommas(e.ret) ->
                                [spec EXCEPT !.params = ParseParams(e.params), !.ret = e.ret,
                                             !.haveSig = TRUE]
    [] OTHER                 -> spec

\* `parse_method`: `[static] fn name(..)`, or a block of properties that counts
\* only with a `sig`.
ParseMethod(e) ==
  LET shorthand == <<[entry |-> "sig", params |-> e.params, ret |-> e.ret]>>
      block     == FoldLeft(ApplyProperty, SpecNew,
                            IF e.entry = "fn" THEN shorthand ELSE e.props)
  IN  [block EXCEPT !.static = @ \/ e.static, !.fn = e.fn]

IsMethod(e) == e.entry \in {"fn", "block"} /\ ParseMethod(e).haveSig

\* `apply_entry`.
ApplyEntry(spec, e) ==
  IF e.entry \notin {"fn", "block"} THEN ApplyProperty(spec, e)
  ELSE IF ~IsMethod(e) THEN spec
  ELSE LET m == ParseMethod(e)
       IN  [m EXCEPT !.class = spec.class, !.static = @ \/ spec.static,
                     !.name = IF @ = None THEN spec.name ELSE @]

\* `method_name`.
MethodName(spec) ==
  IF spec.name # None THEN spec.name
  ELSE IF spec.fn = None THEN None ELSE SnakeToLowerCamel(spec.fn)

\* `build_signature`: a method without class, name or signature is dropped.
BuildSignature(spec, class, reg) ==
  IF None \in {class, MethodName(spec)} \/ ~spec.haveSig THEN <<>>
  ELSE LET c == ClassDottedToInternal(class)
       IN  <<Export(ShortSymbol(c, MethodName(spec)), c, MethodName(spec),
                    IF spec.static THEN "Class" ELSE "Object",
                    LowerTypes(spec.params, reg), LowerRet(spec.ret, reg), "none", spec)>>

NativeMethod(item, reg) ==
  LET spec == FoldLeft(ApplyEntry, SpecNew, item.entries)
  IN  BuildSignature(spec, spec.class, reg)

BoundNatives(item, reg) ==
  FlattenSeq([i \in DOMAIN item.natives |->
    BuildSignature(ApplyEntry(SpecNew, item.natives[i]), item.class, reg)])

-----------------------------------------------------------------------------
(* References to Java members.                                             *)

JavaRef(kind, class, name, static, params, ret, field, origin) ==
  [kind |-> kind, class |-> class, name |-> name, static |-> static,
   params |-> params, ret |-> ret, field |-> field, origin |-> origin]

\* `parse_method_ref`.
MethodRef(e, class, reg) ==
  IF ~IsMethod(e) THEN <<>>
  ELSE LET m == ParseMethod(e)
       IN  <<JavaRef("Method", class, MethodName(m), m.static, LowerTypes(m.params, reg),
                     LowerRet(m.ret, reg), Void, m)>>

\* `parse_ctor_ref`.
CtorRef(e, class, reg) ==
  IF ~IsMethod(e) THEN <<>>
  ELSE <<JavaRef("Constructor", class, <<"<init>">>, FALSE,
                 LowerTypes(ParseMethod(e).params, reg), Void, Void, ParseMethod(e))>>

\* `FieldEntry`: `[static] name: Type`, or a block with the type under `sig`.
FieldEntry(e) ==
  LET Apply(f, p) == CASE p.prop = "sig" /\ ~SplitTopLevelCommas(p.type) -> [f EXCEPT !.type = p.type]
                       [] p.prop = "name"   -> [f EXCEPT !.name = p.name]
                       [] p.prop = "static" -> [f EXCEPT !.static = p.static]
                       [] OTHER             -> f
      block == FoldLeft(Apply, [fn |-> e.fn, name |-> None, static |-> FALSE, type |-> None],
                        e.props)
  IN  [block EXCEPT !.static = @ \/ e.static]

\* `parse_field_ref`: an entry without a type does not parse.
FieldRef(e, class, reg) ==
  LET f == FieldEntry(e)
  IN  IF f.type = None THEN <<>>
      ELSE <<JavaRef("Field", class, MethodName(f), f.static, <<>>, Void,
                     LowerType(f.type, reg), f)>>

BoundRefs(item, reg) ==
  LET class == ClassDottedToInternal(item.class)
      Each(Ref(_, _, _), es) == FlattenSeq([i \in DOMAIN es |-> Ref(es[i], class, reg)])
  IN  Each(MethodRef, item.methods) \o Each(CtorRef, item.constructors)
        \o Each(FieldRef, item.fields)

-----------------------------------------------------------------------------
(* `extract`.                                                              *)

OfKinds(items, kinds) ==
  FlattenSeq([i \in DOMAIN items |-> IF items[i].item \in kinds THEN <<items[i]>> ELSE <<>>])

Items(files, kind) == OfKinds(FlattenSeq(files), {kind})

Wrapped(binds) ==
  LET Bind(reg, b) == IF b.wrapper = "" THEN reg
                      ELSE (b.wrapper :> ClassDottedToInternal(b.class)) @@ reg
  IN  FoldLeft(Bind, <<>>, binds)

\* `collect_type_map` of every file before any type is lowered; a wrapper that
\* is declared twice is the later one's.
Registry(files) == Wrapped(Items(files, "bind"))

\* The functions of a file, then its macros.
FileExports(file, reg) ==
  LET Of(kinds, Lower(_, _)) ==
        LET is == OfKinds(file, kinds)
        IN  FlattenSeq([i \in DOMAIN is |-> Lower(is[i], reg)])
      Macro(i, r) == IF i.item = "bind" THEN BoundNatives(i, r) ELSE NativeMethod(i, r)
  IN  Of({"fn"}, LowerFn) \o Of({"bind", "native_method"}, Macro)

\* (A change TLC has to notice: overloads keep the short symbol.)
KeepSymbols(exports) == exports

\* `resolve_overloads`: exports of one class and method take the long symbol,
\* made from the types of the Rust side.
ResolveOverloads(exports) ==
  LET Group(e) == {i \in DOMAIN exports :
                     exports[i].class = e.class /\ exports[i].name = e.name}
      Long(e)  == e.class # None /\ Cardinality(Group(e)) > 1 /\ Encodable(e.params)
  IN  [i \in DOMAIN exports |->
         LET e == exports[i]
         IN  IF Long(e) THEN [e EXCEPT !.symbol = LongSymbol(e.class, e.name, ArgsDescriptor(e.params))]
             ELSE e]

Exports(files) ==
  LET reg == Registry(files)
  IN  ResolveOverloads(FlattenSeq([i \in DOMAIN files |-> FileExports(files[i], reg)]))

References(files) ==
  LET reg   == Registry(files)
      binds == Items(files, "bind")
  IN  FlattenSeq([i \in DOMAIN binds |-> BoundRefs(binds[i], reg)])

=============================================================================
