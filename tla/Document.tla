------------------------------ MODULE Document ------------------------------
(***************************************************************************)
(* example.Document (Document.java, rust/src/document.rs): a Box<String>   *)
(* that lives in a Java field across calls.  Threads create documents,     *)
(* read them with text(), write them with appendText() and close them.     *)
(*                                                                         *)
(* The module puts NativeObject, which guards the field, around            *)
(* HandleRegistry, whose handles the natives create, get, append and drop  *)
(* receive.  Nothing here restricts what is passed to a native to what the *)
(* Safety sections of handle.rs permit: that it is permitted is what has   *)
(* to come out of the lock (document.rs:6-10).                             *)
(***************************************************************************)
EXTENDS Integers, Sequences, FiniteSets

CONSTANTS Threads, Objects, Addrs,
          Null, Unmade, NoAddr, NoTarget, String

ASSUME DocumentAssumption ==
  /\ IsFiniteSet(Threads) /\ Null \notin Threads
  /\ Null \notin Addrs /\ Unmade \notin Addrs /\ Null # Unmade
  /\ NoAddr \notin Addrs /\ NoTarget # String

BoxString == [target |-> String, smart |-> "Box"]

VARIABLES ptr, held, calls,                \* NativeObject
          table, heap, java, rust, frame   \* HandleRegistry; a frame per thread

nvars == <<ptr, held, calls>>
rvars == <<table, heap, java, rust, frame>>
vars  == <<nvars, rvars>>

R == INSTANCE HandleRegistry WITH
       Frames <- Threads, Pointers <- {BoxString}, Disciplined <- TRUE, MaxRefs <- 1

\* The handles Java holds, in a field or on their way to drop.
Alive == {a \in Addrs : \/ java[a] > 0
                        \/ \E t \in Threads : /\ frame[t].addr = a
                                              /\ calls[t] # <<>>
                                              /\ calls[t][1].pc = "destroy"}

N == INSTANCE NativeObject WITH
       Handles <- Addrs, Reentrant <- FALSE, Consuming <- FALSE, MaxDepth <- 1, alive <- Alive

Init == /\ R!Init
        /\ ptr = [o \in Objects |-> Unmade]
        /\ held = [o \in Objects |-> [t \in Threads |-> N!NoHold]]
        /\ calls = [t \in Threads |-> <<>>]

InNative(t) == frame[t] # R!Idle
Handle(t) == N!Top(t).p

-----------------------------------------------------------------------------
\* new Document(initial): the Java object is there before its constructor runs,
\* so no more threads are in one than there are objects left.
Creating == {t \in Threads : N!Idle(t) /\ InNative(t)}
Blank == {o \in Objects : ptr[o] = Unmade}

\* The native create boxes the string...
CreateBox(t) == /\ N!Idle(t)
                /\ Cardinality(Creating) < Cardinality(Blank)
                /\ \E a \in Addrs : R!FromNew(t, a, BoxString)
                /\ UNCHANGED nvars

\* ... and registers it in JOwned::from ...
CreateRegister(t) == R!Register(t) /\ UNCHANGED nvars

\* ... and returns it to the constructor, which keeps it in the field.
CreateReturn(t, o) ==
  /\ N!Idle(t)
  /\ InNative(t)
  /\ ptr[o] = Unmade
  /\ ptr' = [ptr EXCEPT ![o] = frame[t].addr]
  /\ R!GiveToJava(t)
  /\ UNCHANGED <<held, calls>>

\* text(), appendText() and close(): the part that runs in NativeObject.
Invoke(t, o, op) == ~InNative(t) /\ UNCHANGED rvars /\ N!Call(t, o, op)

\* (A change TLC has to notice: the methods do not lock.)
NoLock(t) == /\ UNCHANGED rvars
             /\ \/ /\ N!At(t, "lock")
                   /\ N!Goto(t, "check")
                   /\ UNCHANGED <<ptr, held>>
                \/ N!CheckReleased(t) \/ N!CheckBorrow(t) \/ N!CheckClose(t)
                \/ /\ N!At(t, "unlock")
                   /\ calls' = [calls EXCEPT ![t] = <<>>]
                   /\ UNCHANGED <<ptr, held>>

InLock(t) == /\ UNCHANGED rvars
             /\ \/ N!LockRead(t) \/ N!LockWrite(t)
                \/ N!CheckReleased(t) \/ N!CheckBorrow(t) \/ N!CheckClose(t)
                \/ N!Unlock(t)

-----------------------------------------------------------------------------
\* get(@Ref ptr): one shared borrow, `&*ptr`.
GetEnter(t) == /\ N!At(t, "fn") /\ N!Top(t).op = "read"
               /\ R!Pass(t, Handle(t), BoxString, "Ref", "body")
               /\ UNCHANGED nvars
GetUse(t) == /\ N!At(t, "fn") /\ N!Top(t).op = "read"
             /\ R!Deref(t) \/ R!EndUse(t)
             /\ UNCHANGED nvars

\* append(@Mut ptr, suffix): a guard for the length of the write.
AppendEnter(t) == /\ N!At(t, "fn") /\ N!Top(t).op = "write"
                  /\ R!Pass(t, Handle(t), BoxString, "Mut", "body")
                  /\ UNCHANGED nvars
AppendUse(t) == /\ N!At(t, "fn") /\ N!Top(t).op = "write"
                /\ R!BorrowMut(t) \/ R!BeginGuard(t) \/ R!EndGuard(t)
                /\ UNCHANGED nvars

\* (A change TLC has to notice: the method is left without its `finally`.)
NativeReturnKeepsLock(t) == /\ N!At(t, "fn")
                            /\ R!Return(t)
                            /\ calls' = [calls EXCEPT ![t] = <<>>]
                            /\ UNCHANGED <<ptr, held>>

\* Either native returns, also without the borrow when an argument is bad.
NativeReturn(t) == /\ N!At(t, "fn")
                   /\ R!Return(t)
                   /\ N!Goto(t, "unlock")
                   /\ UNCHANGED <<ptr, held>>

\* drop(@Owned ptr): the JOwned is dropped inside with_env.
DropEnter(t) == /\ N!At(t, "destroy")
                /\ R!Pass(t, Handle(t), BoxString, "Owned", "body")
                /\ UNCHANGED nvars
DropUse(t) == /\ N!At(t, "destroy")
              /\ R!DropOwned(t) \/ R!DropOwnedDereg(t)
              /\ UNCHANGED nvars
\* (A change TLC has to notice: the box is forgotten, not dropped.)
DropForgets(t) == /\ N!At(t, "destroy")
                  /\ frame[t].pc = "free"
                  /\ R!End(t)
                  /\ N!Goto(t, "unlock")
                  /\ UNCHANGED <<ptr, held, table, heap, java, rust>>

DropReturn(t) == /\ N!At(t, "destroy")
                 /\ R!DropOwnedFree(t)
                 /\ N!Goto(t, "unlock")
                 /\ UNCHANGED <<ptr, held>>

-----------------------------------------------------------------------------
Create(t) == CreateBox(t) \/ CreateRegister(t) \/ \E o \in Objects : CreateReturn(t, o)

Native(t) == \/ GetEnter(t) \/ GetUse(t) \/ AppendEnter(t) \/ AppendUse(t)
             \/ NativeReturn(t) \/ DropEnter(t) \/ DropUse(t) \/ DropReturn(t)

Next == \E t \in Threads : \/ Create(t) \/ InLock(t) \/ Native(t)
                           \/ \E o \in Objects, op \in N!Ops : Invoke(t, o, op)

Spec == Init /\ [][Next]_vars

-----------------------------------------------------------------------------
(* Properties.                                                             *)

\* A program that uses only Document keeps the contract of the handles: each
\* handle it passes to a native is one the Safety sections permit, whatever the
\* threads do (document.rs:6-10).  With the theorems about HandleRegistry no
\* check ever fails, every access is sound and every `&mut` is alone.
KeepsTheContract == R!Spec

\* The natives do to the handle what NativeObject expects of a subclass:
\* create returns one that is alive and nobody's, and destroy frees it.
IsANativeObject == N!Spec

\* No handle is lost: an address with an allocation is in the field of a
\* document, or a thread that creates or closes one is holding it.
NothingLeaks ==
  \A a \in Addrs : heap[a].refs > 0 =>
    \/ \E o \in Objects : ptr[o] = a
    \/ \E t \in Threads : frame[t].addr = a /\ frame[t].role = "Owned"
    \/ \E t \in Threads : N!At(t, "destroy") /\ Handle(t) = a
=============================================================================
