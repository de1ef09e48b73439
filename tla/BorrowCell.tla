----------------------------- MODULE BorrowCell -----------------------------
(***************************************************************************)
(* What a NativeObject promises (NativeObject.java:16-27): the borrow      *)
(* rules of Rust, kept at run time over an object owned from Java.  An     *)
(* object is lent to any number of readers, or to one writer, or it is     *)
(* taken out for good, which needs it to be lent to nobody.                *)
(***************************************************************************)
CONSTANTS Threads, Objects,
          Nobody   \* no thread

VARIABLES state,    \* "unmade", "held" or "taken"
          readers,  \* threads the object is lent to, shared
          writer    \* the thread it is lent to, exclusively

cvars == <<state, readers, writer>>

Init == /\ state = [o \in Objects |-> "unmade"]
        /\ readers = [o \in Objects |-> {}]
        /\ writer = [o \in Objects |-> Nobody]

Make(o) == /\ state[o] = "unmade"
           /\ state' = [state EXCEPT ![o] = "held"]
           /\ UNCHANGED <<readers, writer>>

Lend(t, o) == /\ state[o] = "held"
              /\ writer[o] = Nobody
              /\ readers' = [readers EXCEPT ![o] = @ \cup {t}]
              /\ UNCHANGED <<state, writer>>

GiveBack(t, o) == /\ t \in readers[o]
                  /\ readers' = [readers EXCEPT ![o] = @ \ {t}]
                  /\ UNCHANGED <<state, writer>>

LendMut(t, o) == /\ state[o] = "held"
                 /\ writer[o] = Nobody
                 /\ readers[o] = {}
                 /\ writer' = [writer EXCEPT ![o] = t]
                 /\ UNCHANGED <<state, readers>>

GiveBackMut(t, o) == /\ writer[o] = t
                     /\ writer' = [writer EXCEPT ![o] = Nobody]
                     /\ UNCHANGED <<state, readers>>

Take(o) == /\ state[o] = "held"
           /\ writer[o] = Nobody
           /\ readers[o] = {}
           /\ state' = [state EXCEPT ![o] = "taken"]
           /\ UNCHANGED <<readers, writer>>

Next == \E o \in Objects :
          \/ Make(o) \/ Take(o)
          \/ \E t \in Threads : \/ Lend(t, o) \/ GiveBack(t, o)
                                \/ LendMut(t, o) \/ GiveBackMut(t, o)

Spec == Init /\ [][Next]_cvars
=============================================================================
