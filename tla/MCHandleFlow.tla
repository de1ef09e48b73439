---------------------------- MODULE MCHandleFlow ----------------------------
(***************************************************************************)
(* Class files for VerifiedRun: statements over three handle locals and one  *)
(* handle field, compiled as javac compiles them and put into each of the  *)
(* shapes Java has (sequence, if, loop, try, null check, assert,           *)
(* conditional expression, switch).  A method is named by its shape and    *)
(* its three statements.                                                   *)
(*                                                                         *)
(*   void m(@Owned long x, @Owned long y, int k, @Ref long r,              *)
(*          @Owned long i, long n)                                         *)
(*                                                                         *)
(* i points to another type than the rest; n is not annotated.             *)
(***************************************************************************)
EXTENDS VerifiedRun

Ptr(k, t) == [kind |-> k, type |-> t, nullable |-> FALSE]

\* The locals; Caught is what a handler stores, T a local the body declares.
X == 1
Y == 3
K == 5
R == 6
I == 8
N == 10
Caught == 12
T == 13
MCSlots == {0, X, Y, K, R, I, N, Caught, T}

MCFields   == {"f"}
MCFieldPtr == [x \in MCFields |-> Ptr("Owned", "T")]
NothingSuppressed == [x \in MCFields |-> {}]

Native(types, params, result, ret) ==
  [types |-> types, params |-> params, result |-> result, ret |-> ret, loaded |-> TRUE]
Foreign(types, result) ==
  [types |-> types, params |-> [k \in DOMAIN types |-> NoPtr], result |-> result, ret |-> NoPtr,
   loaded |-> FALSE]
MCCallees ==
  [create |-> Native(<<>>, <<>>, "J", Ptr("Owned", "T")),
   drop   |-> Native(<<"J">>, <<Ptr("Owned", "T")>>, "V", NoPtr),
   use    |-> Native(<<"J">>, <<Ptr("Ref", "T")>>, "V", NoPtr),
   put    |-> Native(<<"I", "J", "A">>, <<Ptr("Ref", "T"), Ptr("Owned", "T"), NoPtr>>, "I", NoPtr),
   assign |-> Native(<<"J", "J">>, <<Ptr("Mut", "T"), Ptr("Ref", "T")>>, "V", NoPtr),
   hash   |-> Native(<<"J">>, <<Ptr("Ref", "T")>>, "J", NoPtr),
   println |-> Foreign(<<"A">>, "V"),
   record  |-> Foreign(<<"J">>, "V"),
   init    |-> Foreign(<<>>, "V")]

-----------------------------------------------------------------------------
(* Instructions and statements.  The target of a jump is the number of an  *)
(* instruction until the method is assembled.                              *)

Do(mn)   == [mn |-> mn]
Load(n)  == [mn |-> "lload", n |-> n]
Store(n) == [mn |-> "lstore", n |-> n]
This     == [mn |-> "aload", n |-> 0]
LoadK      == [mn |-> "iload", n |-> K]
Zero     == Do("lconst_0")
Field(mn, name, type) == [mn |-> mn, field |-> [name |-> name, type |-> type]]
Get      == Field("getfield", "f", "J")
Put      == Field("putfield", "f", "J")
Disabled == Field("getstatic", "$assertionsDisabled", "Z")
Goto(t)  == [mn |-> "goto", label |-> t]
If(c, t) == [mn |-> c, label |-> t]
Static_(m) == [mn |-> "invokestatic", method |-> m]
New      == <<Do("new"), Do("dup"), [mn |-> "invokespecial", method |-> "init"]>>

Code ==
  [ xNew  |-> <<Static_("create"), Store(X)>>,           \* x = create()
    yNew  |-> <<Static_("create"), Store(Y)>>,
    xyNew |-> <<Static_("create"), Do("dup2"), Store(X), Store(Y)>>,   \* y = x = create()
    fxNew |-> <<This, Static_("create"), Do("dup2"), Store(X), Put>>,  \* this.f = x = create()
    newPop |-> <<Static_("create"), Do("pop2")>>,        \* create()
    yIsX  |-> <<Load(X), Store(Y)>>,
    xIsY  |-> <<Load(Y), Store(X)>>,
    xIsR  |-> <<Load(R), Store(X)>>,
    xIs0  |-> <<Zero, Store(X)>>,
    xIs7  |-> <<[mn |-> "ldc2_w", long |-> TRUE, value |-> 7], Store(X)>>,
    xSum  |-> <<Load(X), Load(Y), Do("ladd"), Store(X)>>,   \* x = x + y
    xInt  |-> <<LoadK, Do("i2l"), Store(X)>>,                 \* x = k
    xArr  |-> <<LoadK, Do("newarray"), Do("iconst_0"), Do("laload"), Store(X)>>,
    xHash |-> <<Load(X), Static_("hash"), Store(X)>>,
    xIsF  |-> <<This, Get, Store(X)>>,
    fIsX  |-> <<This, Load(X), Put>>,
    fIs0  |-> <<This, Zero, Put>>,
    fNew  |-> <<This, Static_("create"), Put>>,
    dropX |-> <<Load(X), Static_("drop")>>,
    dropY |-> <<Load(Y), Static_("drop")>>,
    dropF |-> <<This, Get, Static_("drop")>>,
    useX  |-> <<Load(X), Static_("use")>>,
    useY  |-> <<Load(Y), Static_("use")>>,
    putX  |-> <<LoadK, Load(X), Do("aconst_null"), Static_("put"), Do("pop")>>,
    mixXY |-> <<Load(X), Load(Y), Static_("assign")>>,
    mixXX |-> <<Load(X), Load(X), Static_("assign")>>,
    mixFF |-> <<This, Get, This, Get, Static_("assign")>>,
    mixXI |-> <<Load(X), Load(I), Static_("assign")>>,
    xOut  |-> <<Load(X), Field("putstatic", "last", "J")>>,
    xTold |-> <<This, Load(X), [mn |-> "invokevirtual", method |-> "record"]>>,
    useN  |-> <<Load(N), Static_("use")>>,
    flip  |-> <<Load(X), Store(T), Load(Y), Store(X), Load(T), Store(Y)>>,
    print |-> <<LoadK, [mn |-> "invokedynamic", captured |-> <<"I">>], Static_("println")>>,
    other |-> <<This, Field("getfield", "count", "I"), Do("aconst_null"), Do("swap"), Do("pop2")>>,
    field |-> New \o <<Zero, Put>>,                         \* new C().f = 0
    none  |-> <<>> ]

-----------------------------------------------------------------------------
(* Shapes.  The condition of an if or a loop is one the analysis knows     *)
(* nothing about: k > 0.                                                   *)

Cond == <<LoadK>>

IsFNull == <<This, Get, Zero, Do("lcmp")>>   \* this.f == 0

\* pre; if (test, tested by c) { a } else { b }; c
IfElse(test, jump, a, b, c) ==
  LET orElse == Len(test) + 1 + Len(a) + 2
      end == orElse + Len(b)
  IN  test \o <<If(jump, orElse)>> \o a \o <<Goto(end)>> \o b \o c \o <<Do("return")>>

\* while (test) { a; b } c
While(test, jump, a, b, c) ==
  LET exit == Len(test) + 1 + Len(a \o b) + 2
  IN  test \o <<If(jump, exit)>> \o a \o b \o <<Goto(1)>> \o c \o <<Do("return")>>

\* try { a; b } catch { c } use(y)
TryHandler(a, b) == Len(a \o b) + 2
TryCatch(a, b, c) ==
  a \o b \o <<Goto(TryHandler(a, b) + 1 + Len(c))>> \o <<[mn |-> "astore", n |-> Caught]>> \o c
    \o Code.useY \o <<Do("return")>>

\* a; assert this.f == 0; b; c
Assertion(a, b, c) ==
  LET live == Len(a) + Len(IsFNull) + 8
  IN  a \o <<Disabled, If("ifne", live)>> \o IsFNull \o <<If("ifeq", live)>>
        \o New \o <<Do("athrow")>> \o b \o c \o <<Do("return")>>

\* a; m(cond ? v : w); b
Choice(a, v, w, m, b) ==
  LET other == Len(a) + Len(v) + 4
  IN  a \o Cond \o <<If("ifle", other)>> \o v \o <<Goto(other + Len(w))>> \o w
        \o <<Static_(m)>> \o b \o <<Do("return")>>

\* switch (k) { case: a; break; case: b; break; default: c }
Switch3(a, b, c) ==
  LET atB == Len(a) + 4
      atC == atB + Len(b) + 1
      end == atC + Len(c)
  IN  Cond \o <<[mn |-> "tableswitch", labels |-> {3, atB, atC}]>>
        \o a \o <<Goto(end)>> \o b \o <<Goto(end)>> \o c \o Code.useX \o <<Do("return")>>

\* long t = x; x = y; y = t in a loop.
Rotate(a) ==
  LET exit == Len(a) + 10
  IN  a \o Cond \o <<If("ifle", exit)>> \o Code.flip \o <<Goto(Len(a) + 1), Do("return")>>

-----------------------------------------------------------------------------
(* Methods.                                                                *)

Statements(d) ==
  LET a == Code[d[2]]  b == Code[d[3]]  c == Code[d[4]]
  IN  CASE d[1] \in {"seq", "init", "static", "quiet"} -> a \o b \o c \o <<Do("return")>>
        [] d[1] = "if"     -> IfElse(Cond, "ifle", a, b, c)
        [] d[1] = "ifnull" -> IfElse(IsFNull, "ifne", a, b, c)
        [] d[1] = "iffull" -> IfElse(IsFNull, "ifeq", a, b, c)
        [] d[1] = "loop"   -> While(Cond, "ifle", a, b, c)
        [] d[1] = "drain"  -> While(IsFNull, "ifeq", a, b, c)
        [] d[1] = "try"    -> TryCatch(a, b, c)
        [] d[1] = "assert" -> Assertion(a, b, c)
        [] d[1] = "switch" -> Switch3(a, b, c)
        [] d[1] = "useXI"  -> Choice(a, <<Load(X)>>, <<Load(I)>>, "use", b \o c)
        [] d[1] = "useIX"  -> Choice(a, <<Load(I)>>, <<Load(X)>>, "use", b \o c)
        [] d[1] = "dropXY" -> Choice(a, <<Load(X)>>, <<Load(Y)>>, "drop", b \o c)
        [] d[1] = "dropFX" -> Choice(a, <<This, Get>>, <<Load(X)>>, "drop", b \o c)
        [] d[1] = "mixYXX" -> Choice(a, <<Load(Y), Load(X)>>, <<Load(X), Load(X)>>, "assign", b \o c)
        [] d[1] = "rotate" -> Rotate(a \o b \o c)
        [] d[1] = "return" -> a \o b \o c \o <<Load(X), Do("lreturn")>>
        [] d[1] = "take"   -> \* x = this.f; this.f = 0; if (x != 0) drop(x)
             Code.xIsF \o Code.fIs0 \o <<Load(X), Zero, Do("lcmp"), If("ifeq", 13)>>
               \o Code.dropX \o <<Do("return")>>

\* How many bytes an instruction takes at an offset.
Size(i, at) ==
  CASE "n" \in DOMAIN i     -> IF i.n <= 3 THEN 1 ELSE 2
    [] "label" \in DOMAIN i \/ "field" \in DOMAIN i \/ "method" \in DOMAIN i -> 3
    [] i.mn \in {"ldc2_w", "new"} -> 3
    [] i.mn = "newarray"      -> 2
    [] i.mn = "invokedynamic" -> 5
    [] i.mn = "tableswitch"   -> (4 - (at % 4)) + 12 + 4 * (Cardinality(i.labels) - 1)
    [] OTHER -> 1

Offsets(s) ==
  LET at[k \in 1..Len(s) + 1] == IF k = 1 THEN 0 ELSE at[k - 1] + Size(s[k - 1], at[k - 1])
  IN  at

\* Jumps become distances.
Assembled(s, at, k) ==
  [at |-> at[k]] @@
  CASE "label" \in DOMAIN s[k]  -> [mn |-> s[k].mn, to |-> at[s[k].label] - at[k]]
    [] "labels" \in DOMAIN s[k] -> [mn |-> s[k].mn, to |-> {at[t] - at[k] : t \in s[k].labels}]
    [] OTHER -> s[k]

\* The locals a body declares, each with an annotation from its first store on.
Declared(shape) == IF shape = "take" THEN {X} ELSE {T}

Types(shape) ==
  CASE shape = "take"   -> <<>>
    [] shape = "static" -> <<"I", "J", "J", "I", "J", "J", "J">>
    [] OTHER            -> <<"J", "J", "I", "J", "J", "J">>

Annotated(shape) ==
  LET five == <<Ptr("Owned", "T"), Ptr("Owned", "T"), NoPtr, Ptr("Ref", "T"), Ptr("Owned", "I"), NoPtr>>
  IN  CASE shape = "take"   -> <<>>
        [] shape = "static" -> <<NoPtr>> \o five
        [] OTHER            -> five

MethodOf(d) ==
  LET s == Statements(d)
      at == Offsets(s)
      handler == TryHandler(Code[d[2]], Code[d[3]])
      returns == d[1] = "return"
  IN  [name       |-> IF d[1] = "init" THEN "<init>" ELSE "m",
       access     |-> CASE d[1] = "static" -> {"static", "public"} [] d[1] = "init" -> {"public"}
                        [] OTHER -> {},
       types      |-> Types(d[1]),
       params     |-> Annotated(d[1]),
       result     |-> IF returns THEN "J" ELSE "V",
       ret        |-> IF returns THEN Ptr("Owned", "T") ELSE NoPtr,
       opcodes    |-> [k \in DOMAIN s |-> Assembled(s, at, k)],
       exceptions |-> IF d[1] = "try"
                      THEN {[start |-> 0, end |-> at[handler - 1], handler |-> at[handler]]} ELSE {},
       locals     |-> {[class |-> "Owned", path |-> <<>>, slot |-> s[k].n,
                        start |-> at[k + 1], length |-> at[Len(s) + 1] - at[k + 1]] :
                         k \in {k \in DOMAIN s : s[k].mn = "lstore" /\ s[k].n \in Declared(d[1])}},
       suppressed |-> IF d[1] = "quiet" THEN {"forget"} ELSE {}]

Moves    == {"yIsX", "xIsY", "xNew", "dropX", "dropY", "useX", "mixXY"}
FieldOps == {"xIsF", "fIsX", "fIs0", "fNew", "dropF", "dropX"}
Oddities == {"xyNew", "fxNew", "newPop", "xIsR", "xIs0", "xIs7", "xSum", "xInt", "xArr", "xHash",
             "putX", "mixXX", "mixFF", "mixXI", "xOut", "xTold", "useN", "flip", "print", "other",
             "field"}

Descriptors ==
  ({"seq", "if", "loop", "try", "static"} \X Moves \X Moves \X Moves)
    \cup ({"seq", "init", "if", "ifnull", "iffull", "drain", "try", "assert", "quiet"}
            \X FieldOps \X FieldOps \X FieldOps)
    \cup ({"seq", "if", "try", "switch"} \X Oddities \X {"dropX", "yIsX"} \X {"useX", "mixXY"})
    \cup ({"useXI", "useIX", "dropXY", "dropFX", "mixYXX"} \X Moves \X {"useX", "mixXY"} \X {"none"})
    \cup {<<"rotate", "none", "none", "none">>, <<"rotate", "dropY", "none", "none">>,
          <<"rotate", "xIs0", "none", "none">>, <<"seq", "none", "none", "none">>}

MCMethods == {MethodOf(d) : d \in Descriptors}

\* The stack map of what javac makes: jumps back lead to what has been reached.
MCStackMap(b) ==
  LET reach[k \in 0..Len(b.opcodes)] ==
        IF k = 0 THEN 1 :> <<>>
        ELSE LET sm == reach[k - 1]
             IN  IF k \notin DOMAIN sm THEN sm
                 ELSE sm @@ [t \in Successors(b, k) |-> After(b.opcodes[k], sm[k])]
                         @@ [t \in UNION {OpcodesAt(b, e.handler) : e \in Catchers(b, k)} |-> <<FALSE>>]
  IN  reach[Len(b.opcodes)]

\* The idioms the findings are about.
TakeField   == {MethodOf(<<"take", "none", "none", "none">>)}
ReturnOwned == {MethodOf(<<"return", "none", "none", "none">>),
                MethodOf(<<"return", "xNew", "useX", "none">>)}
=============================================================================
