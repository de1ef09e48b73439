----------------------------- MODULE JdkClosure -----------------------------
(***************************************************************************)
(* Which classes of the JDK the checker reads: the seeds of                *)
(* `resolve_jdk_models` (lib.rs) and the worklist of `load_jdk_models`     *)
(* (java_loader.rs).                                                       *)
(*                                                                         *)
(* The worklist is a set from which any class may come next: seeds come    *)
(* out of a HashSet in no fixed order, and which classes end up loaded     *)
(* does not depend on it (ClosureExact).                                   *)
(***************************************************************************)
EXTENDS Naturals, FiniteSets

CONSTANT Class

VARIABLES
  user,     \* supertypes of each class given on --java
  jdk,      \* supertypes of each class the JDK at --java-home has, readable
  home,     \* whether there is a JDK home
  bound,    \* the classes that `bind_java_type!` bindings refer to
  step,     \* "seeds", "closing" or "done"
  waiting,  \* `queue`
  visited,
  loaded    \* the JDK classes that have a model

inputs == <<user, jdk, home, bound>>
vars   == <<user, jdk, home, bound, step, waiting, visited, loaded>>

IsGraph(g) == DOMAIN g \subseteq Class /\ g \in [DOMAIN g -> SUBSET Class]

TypeOK ==
  /\ IsGraph(user) /\ IsGraph(jdk)
  /\ home \in BOOLEAN
  /\ bound \subseteq Class
  /\ step \in {"seeds", "closing", "done"}
  /\ waiting \subseteq Class /\ visited \subseteq Class /\ loaded \subseteq Class

\* A bound class that is not the user's, and the supertypes of one that is.
SeedsOf(c) == IF c \in DOMAIN user THEN user[c] ELSE {c}
Seeds == (UNION {SeedsOf(c) : c \in bound}) \ DOMAIN user

Init ==
  /\ IsGraph(user) /\ IsGraph(jdk) /\ home \in BOOLEAN /\ bound \subseteq Class
  /\ step = "seeds"
  /\ waiting = {} /\ visited = {} /\ loaded = {}

Resolve ==
  /\ step = "seeds" /\ home /\ Seeds # {}
  /\ step' = "closing"
  /\ waiting' = Seeds
  /\ visited' = DOMAIN user \cup Seeds
  /\ UNCHANGED <<inputs, loaded>>

\* No home, or nothing to look for.
Skip ==
  /\ step = "seeds" /\ (~home \/ Seeds = {})
  /\ step' = "done"
  /\ UNCHANGED <<inputs, waiting, visited, loaded>>

Load(c) ==
  /\ step = "closing" /\ c \in waiting /\ c \in DOMAIN jdk
  /\ loaded' = loaded \cup {c}
  /\ waiting' = (waiting \ {c}) \cup (jdk[c] \ visited)
  /\ visited' = visited \cup jdk[c]
  /\ UNCHANGED <<inputs, step>>

\* A class the JDK does not have is left to W004.
Drop(c) ==
  /\ step = "closing" /\ c \in waiting /\ c \notin DOMAIN jdk
  /\ waiting' = waiting \ {c}
  /\ UNCHANGED <<inputs, step, visited, loaded>>

Finish ==
  /\ step = "closing" /\ waiting = {}
  /\ step' = "done"
  /\ UNCHANGED <<inputs, waiting, visited, loaded>>

Next == Resolve \/ Skip \/ Finish \/ \E c \in Class : Load(c) \/ Drop(c)

Spec == Init /\ [][Next]_vars

-----------------------------------------------------------------------------
\* A set with the readable seeds and, with a class, its readable supertypes;
\* a class of the user's is neither replaced nor looked behind.
Closed(S) ==
  /\ Seeds \cap DOMAIN jdk \subseteq S
  /\ \A c \in S \cap DOMAIN jdk : (jdk[c] \ DOMAIN user) \cap DOMAIN jdk \subseteq S

\* With a JDK home the models loaded from it are the least closed set: no
\* supertype is missing, even past a cycle or a class the JDK lacks, and
\* nothing is read that no binding needs.  Without a home nothing is loaded.
ClosureExact ==
  step = "done" =>
    /\ loaded \cap DOMAIN user = {}
    /\ ~home => loaded = {}
    /\ home  => Closed(loaded)
    /\ \A S \in SUBSET Class : Closed(S) => loaded \subseteq S

\* No class is read a second time: one that waits has not been loaded.
NeverTwice == waiting \cap loaded = {}

=============================================================================
