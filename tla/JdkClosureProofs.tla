-------------------------- MODULE JdkClosureProofs --------------------------
(***************************************************************************)
(* The worklist of `load_jdk_models` computes the least closed set, for    *)
(* every class graph and every order in which classes leave the queue.     *)
(***************************************************************************)
EXTENDS JdkClosure, TLAPS

\* What is known before the worklist starts.
BeforeInv == step = "seeds" => waiting = {} /\ visited = {} /\ loaded = {}

\* Only a home is read, and only the classes it has; the user's are left alone.
HomeInv ==
  /\ step = "closing" => home /\ DOMAIN user \subseteq visited
  /\ ~home => loaded = {}
  /\ loaded \subseteq DOMAIN jdk
  /\ (loaded \cup waiting) \cap DOMAIN user = {}

\* A class is loaded or waits, not both, and has been seen.
OnceInv ==
  /\ NeverTwice
  /\ loaded \cup waiting \subseteq visited

\* What was seen of the JDK is loaded or waits; what was reached was seen.
FrontierInv ==
  /\ (visited \ DOMAIN user) \cap DOMAIN jdk \subseteq loaded \cup waiting
  /\ step # "seeds" /\ home => Seeds \subseteq visited
  /\ \A c \in loaded : jdk[c] \subseteq visited
  /\ step = "done" => waiting = {}

\* Nothing is read that a closed set lacks.
LeastInv ==
  \A S \in SUBSET Class : Closed(S) => (loaded \cup waiting) \cap DOMAIN jdk \subseteq S

IInv == TypeOK /\ BeforeInv /\ HomeInv /\ OnceInv /\ FrontierInv /\ LeastInv

-----------------------------------------------------------------------------
\* The seeds are classes, none of them the user's.
LEMMA SeedsType ==
  ASSUME TypeOK
  PROVE  Seeds \subseteq Class /\ Seeds \cap DOMAIN user = {}
<1>1. \A c \in bound : SeedsOf(c) \subseteq Class
  BY DEF TypeOK, IsGraph, SeedsOf
<1>2. UNION {SeedsOf(c) : c \in bound} \subseteq Class
  BY <1>1
<1>3. \A c \in Seeds : c \in Class /\ c \notin DOMAIN user
  BY <1>2 DEF Seeds
<1> QED BY <1>3

\* What the supertypes of a class are.
LEMMA SupersType ==
  ASSUME TypeOK, NEW c \in DOMAIN jdk
  PROVE  jdk[c] \subseteq Class
BY DEF TypeOK, IsGraph

\* Unchanged inputs keep the seeds and what is closed.
LEMMA SameInputs ==
  ASSUME UNCHANGED inputs
  PROVE  Seeds' = Seeds /\ \A S : Closed(S)' <=> Closed(S)
BY DEF inputs, Seeds, SeedsOf, Closed

LEMMA InitIInv == Init => IInv
BY DEF Init, IInv, TypeOK, BeforeInv, HomeInv, OnceInv, NeverTwice, FrontierInv, LeastInv

\* The first classes to look for.
LEMMA ResolveKeeps == IInv /\ Resolve => IInv'
<1> SUFFICES ASSUME IInv, Resolve PROVE IInv'
  OBVIOUS
<1> USE DEF IInv
<1>1. UNCHANGED inputs /\ UNCHANGED <<user, jdk, home, bound>>
  BY DEF Resolve, inputs
<1>2. Seeds' = Seeds /\ \A S : Closed(S)' <=> Closed(S)
  BY <1>1, SameInputs
<1>3. Seeds \subseteq Class /\ Seeds \cap DOMAIN user = {}
  BY SeedsType
<1>4. loaded = {} /\ loaded' = {} /\ home /\ step' = "closing"
  BY DEF Resolve, BeforeInv
<1>5. waiting' = Seeds /\ visited' = DOMAIN user \cup Seeds
  BY DEF Resolve
<1>6. TypeOK'
  BY <1>1, <1>3, <1>4, <1>5 DEF TypeOK, IsGraph
<1>7. BeforeInv' /\ HomeInv' /\ OnceInv'
  BY <1>1, <1>3, <1>4, <1>5 DEF BeforeInv, HomeInv, OnceInv, NeverTwice
<1>8. FrontierInv'
  BY <1>1, <1>2, <1>4, <1>5 DEF FrontierInv
<1>9. LeastInv'
  BY <1>1, <1>2, <1>4, <1>5 DEF LeastInv, Closed
<1> QED BY <1>6, <1>7, <1>8, <1>9

\* A class with its supertypes: what is new waits, and a closed set has it.
LEMMA LoadKeeps == ASSUME NEW c \in Class PROVE IInv /\ Load(c) => IInv'
<1> SUFFICES ASSUME IInv, Load(c) PROVE IInv'
  OBVIOUS
<1> USE DEF IInv
<1>1. UNCHANGED inputs /\ UNCHANGED <<user, jdk, home, bound>> /\ step = "closing" /\ step' = "closing"
  BY DEF Load, inputs
<1>2. Seeds' = Seeds /\ \A S : Closed(S)' <=> Closed(S)
  BY <1>1, SameInputs
<1>3. c \in waiting /\ c \in DOMAIN jdk /\ jdk[c] \subseteq Class
  BY SupersType DEF Load
<1>4. /\ loaded' = loaded \cup {c}
      /\ waiting' = (waiting \ {c}) \cup (jdk[c] \ visited)
      /\ visited' = visited \cup jdk[c]
  BY DEF Load
<1>5. TypeOK'
  BY <1>1, <1>3, <1>4 DEF TypeOK, IsGraph
<1>6. BeforeInv'
  BY <1>1 DEF BeforeInv
<1>7. HomeInv'
  BY <1>1, <1>3, <1>4 DEF HomeInv
<1>8. OnceInv'
  BY <1>3, <1>4 DEF OnceInv, NeverTwice
<1>9. FrontierInv'
  <2>1. ((visited \ DOMAIN user) \cap DOMAIN jdk \subseteq loaded \cup waiting)'
    BY <1>1, <1>4 DEF FrontierInv
  <2>2. (\A d \in loaded : jdk[d] \subseteq visited)'
    BY <1>1, <1>4 DEF FrontierInv
  <2> QED BY <1>1, <1>2, <1>4, <2>1, <2>2 DEF FrontierInv
<1>10. LeastInv'
  <2> SUFFICES ASSUME NEW S \in SUBSET Class, Closed(S)'
               PROVE  (loaded' \cup waiting') \cap DOMAIN jdk' \subseteq S
    BY DEF LeastInv
  <2>1. Closed(S) /\ (loaded \cup waiting) \cap DOMAIN jdk \subseteq S
    BY <1>2 DEF LeastInv
  <2>2. c \in S
    BY <1>3, <2>1
  <2>3. (jdk[c] \ DOMAIN user) \cap DOMAIN jdk \subseteq S
    BY <1>3, <2>1, <2>2 DEF Closed
  <2>4. (jdk[c] \ visited) \cap DOMAIN jdk \subseteq S
    BY <1>1, <2>3 DEF HomeInv
  <2> QED BY <1>1, <1>3, <1>4, <2>1, <2>2, <2>4
<1> QED BY <1>5, <1>6, <1>7, <1>8, <1>9, <1>10

\* Leaving a class out, ending or skipping the search.
LEMMA EndKeeps ==
  ASSUME IInv, Skip \/ Finish \/ \E c \in Class : Drop(c)
  PROVE  IInv'
<1> USE DEF IInv
<1>1. UNCHANGED inputs /\ UNCHANGED <<user, jdk, home, bound, visited, loaded>>
  BY DEF Skip, Finish, Drop, inputs
<1>2. Seeds' = Seeds /\ \A S : Closed(S)' <=> Closed(S)
  BY <1>1, SameInputs
<1>3. CASE Skip
  <2>1. step = "seeds" /\ step' = "done" /\ waiting' = waiting /\ (~home \/ Seeds = {})
    BY <1>3 DEF Skip
  <2>2. waiting = {} /\ visited = {} /\ loaded = {}
    BY <2>1 DEF BeforeInv
  <2>3. TypeOK' /\ BeforeInv' /\ HomeInv' /\ OnceInv'
    BY <1>1, <2>1, <2>2 DEF TypeOK, IsGraph, BeforeInv, HomeInv, OnceInv, NeverTwice
  <2>4. FrontierInv' /\ LeastInv'
    BY <1>1, <1>2, <2>1, <2>2 DEF FrontierInv, LeastInv
  <2> QED BY <2>3, <2>4
<1>4. CASE Finish
  <2>1. step = "closing" /\ step' = "done" /\ waiting' = waiting /\ waiting = {}
    BY <1>4 DEF Finish
  <2>2. TypeOK' /\ BeforeInv' /\ HomeInv' /\ OnceInv'
    BY <1>1, <2>1 DEF TypeOK, IsGraph, BeforeInv, HomeInv, OnceInv, NeverTwice
  <2>3. FrontierInv' /\ LeastInv'
    BY <1>1, <1>2, <2>1 DEF FrontierInv, LeastInv
  <2> QED BY <2>2, <2>3
<1>5. CASE \E c \in Class : Drop(c)
  <2>1. PICK c \in Class : Drop(c)
    BY <1>5
  <2>2. step = "closing" /\ step' = "closing" /\ c \notin DOMAIN jdk /\ waiting' = waiting \ {c}
    BY <2>1 DEF Drop
  <2>3. TypeOK' /\ BeforeInv' /\ HomeInv' /\ OnceInv'
    BY <1>1, <2>2 DEF TypeOK, IsGraph, BeforeInv, HomeInv, OnceInv, NeverTwice
  <2>4. FrontierInv' /\ LeastInv'
    BY <1>1, <1>2, <2>2 DEF FrontierInv, LeastInv
  <2> QED BY <2>3, <2>4
<1> QED BY <1>3, <1>4, <1>5

-----------------------------------------------------------------------------
\* The strengthened invariant of the worklist holds throughout.
THEOREM Invariance == Spec => []IInv
<1>1. IInv /\ [Next]_vars => IInv'
  <2> SUFFICES ASSUME IInv, [Next]_vars PROVE IInv'
    OBVIOUS
  <2>1. CASE Resolve
    BY <2>1, ResolveKeeps
  <2>2. CASE \E c \in Class : Load(c)
    BY <2>2, LoadKeeps
  <2>3. CASE Skip \/ Finish \/ \E c \in Class : Drop(c)
    BY <2>3, EndKeeps
  <2>4. CASE UNCHANGED vars
    BY <2>4 DEF vars, IInv, TypeOK, IsGraph, BeforeInv, HomeInv, OnceInv, NeverTwice,
                FrontierInv, LeastInv, Seeds, SeedsOf, Closed
  <2> QED BY <2>1, <2>2, <2>3, <2>4 DEF Next
<1> QED BY InitIInv, <1>1, PTL DEF Spec

\* The sets of the worklist hold classes, and its inputs stay class graphs.
THEOREM TypeCorrect == Spec => []TypeOK
<1>1. IInv => TypeOK
  BY DEF IInv
<1> QED BY <1>1, Invariance, PTL

\* No class of the JDK is read twice, however the class graph loops.
THEOREM ReadOnce == Spec => []NeverTwice
<1>1. IInv => NeverTwice
  BY DEF IInv, OnceInv
<1> QED BY <1>1, Invariance, PTL

\* When the worklist of `load_jdk_models` is empty, the classes it has read are
\* the least set that has the seeds and is closed under supertypes.
THEOREM LeastClosure == Spec => []ClosureExact
<1>1. IInv => ClosureExact
  <2> SUFFICES ASSUME IInv, step = "done" PROVE ClosureExact
    BY DEF ClosureExact
  <2> USE DEF IInv
  <2>1. waiting = {} /\ loaded \subseteq DOMAIN jdk
    BY DEF FrontierInv, HomeInv
  <2>2. loaded \cap DOMAIN user = {} /\ (~home => loaded = {})
    BY DEF HomeInv
  <2>3. ASSUME home PROVE Closed(loaded)
    <3>1. Seeds \cap DOMAIN jdk \subseteq loaded
      BY <2>1, <2>3, SeedsType DEF FrontierInv
    <3>2. \A c \in loaded : (jdk[c] \ DOMAIN user) \cap DOMAIN jdk \subseteq loaded
      BY <2>1 DEF FrontierInv
    <3> QED BY <3>1, <3>2 DEF Closed
  <2>4. \A S \in SUBSET Class : Closed(S) => loaded \subseteq S
    BY <2>1 DEF LeastInv
  <2> QED BY <2>2, <2>3, <2>4 DEF ClosureExact
<1> QED BY <1>1, Invariance, PTL

=============================================================================
