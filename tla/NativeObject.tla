---------------------------- MODULE NativeObject ----------------------------
(***************************************************************************)
(* example/java/example/NativeObject.java: Java objects that own a Rust    *)
(* value through a long, and guard every use of it with a                  *)
(* ReentrantReadWriteLock.  Threads call nativeRead, nativeWrite and close *)
(* on several objects.  The function passed to nativeRead or nativeWrite,  *)
(* and destroy, run with the lock held; with Reentrant they may call back  *)
(* into these objects, as any Java method a native calls may.              *)
(*                                                                         *)
(* An exception leaves a method through the same `finally` as a result, so *)
(* the two are not told apart.                                             *)
(***************************************************************************)
EXTENDS Integers, Sequences, FiniteSets

CONSTANTS Threads, Objects,
          Handles,     \* the non-zero longs `create` may return
          Null,        \* the long 0
          Unmade,      \* the ptr of an object whose constructor has not run
          Reentrant,   \* whether callbacks call these objects again
          Consuming,   \* whether nativeWrite is passed an @Owned native
          MaxDepth     \* bound: calls one thread is in at a time

ASSUME NativeAssumption ==
  /\ IsFiniteSet(Threads) /\ Null \notin Threads
  /\ Null \notin Handles /\ Unmade \notin Handles /\ Null # Unmade
  /\ Reentrant \in BOOLEAN /\ Consuming \in BOOLEAN
  /\ MaxDepth \in Nat \ {0}

VARIABLES
  ptr,    \* the field NativeObject.ptr
  held,   \* NativeObject.lock: read and write holds of each thread
  calls,  \* the calls each thread is in, outermost first: [obj, op, pc, p]
  alive   \* handles whose Rust value has not been freed

nvars == <<ptr, held, calls, alive>>

Ops == {"read", "write", "close"}
CallPC == {"lock", "check", "fn", "destroy", "unlock"}
NoHold == [read |-> 0, write |-> 0]

TypeOK ==
  /\ ptr \in [Objects -> Handles \cup {Null, Unmade}]
  /\ held \in [Objects -> [Threads -> [read : Nat, write : Nat]]]
  /\ calls \in [Threads -> Seq([obj : Objects, op : Ops, pc : CallPC,
                                p : Handles \cup {Null}])]
  /\ alive \subseteq Handles

Init ==
  /\ ptr = [o \in Objects |-> Unmade]
  /\ held = [o \in Objects |-> [t \in Threads |-> NoHold]]
  /\ calls = [t \in Threads |-> <<>>]
  /\ alive = {}

-----------------------------------------------------------------------------
Idle(t) == calls[t] = <<>>
Depth(t) == Len(calls[t])
Top(t) == calls[t][Depth(t)]
At(t, pc) == ~Idle(t) /\ Top(t).pc = pc

Goto(t, pc) == calls' = [calls EXCEPT ![t][Depth(t)].pc = pc]
GotoWith(t, pc, p) == calls' = [calls EXCEPT ![t][Depth(t)].pc = pc, ![t][Depth(t)].p = p]

\* java.util.concurrent's lock: a writer may read, a reader may not upgrade.
CanRead(t, o) == \A u \in Threads \ {t} : held[o][u].write = 0
CanWrite(t, o) == /\ \A u \in Threads \ {t} : held[o][u] = NoHold
                  /\ held[o][t].read > 0 => held[o][t].write > 0

-----------------------------------------------------------------------------
\* new NativeObject(create(...)); a null handle throws, and there is no object.
Construct(o, h) ==
  /\ ptr[o] = Unmade
  /\ h \notin alive
  /\ ptr' = [ptr EXCEPT ![o] = h]
  /\ alive' = alive \cup {h}
  /\ UNCHANGED <<held, calls>>

Call(t, o, op) ==
  /\ ptr[o] # Unmade
  /\ Depth(t) < MaxDepth
  /\ Idle(t) \/ (Reentrant /\ (At(t, "fn") \/ At(t, "destroy")))
  /\ calls' = [calls EXCEPT ![t] = Append(@, [obj |-> o, op |-> op, pc |-> "lock", p |-> Null])]
  /\ UNCHANGED <<ptr, held, alive>>

\* (Changes TLC has to notice: nativeWrite, or close, takes the read lock.)
WriteLocksRead(t) ==
  /\ At(t, "lock")
  /\ Top(t).op # "close"
  /\ CanRead(t, Top(t).obj)
  /\ held' = [held EXCEPT ![Top(t).obj][t].read = @ + 1]
  /\ Goto(t, "check")
  /\ UNCHANGED <<ptr, alive>>

CloseLocksRead(t) ==
  /\ At(t, "lock")
  /\ Top(t).op # "write"
  /\ CanRead(t, Top(t).obj)
  /\ held' = [held EXCEPT ![Top(t).obj][t].read = @ + 1]
  /\ Goto(t, "check")
  /\ UNCHANGED <<ptr, alive>>

LockRead(t) ==
  /\ At(t, "lock")
  /\ Top(t).op = "read"
  /\ CanRead(t, Top(t).obj)
  /\ held' = [held EXCEPT ![Top(t).obj][t].read = @ + 1]
  /\ Goto(t, "check")
  /\ UNCHANGED <<ptr, alive>>

LockWrite(t) ==
  /\ At(t, "lock")
  /\ Top(t).op # "read"
  /\ CanWrite(t, Top(t).obj)
  /\ held' = [held EXCEPT ![Top(t).obj][t].write = @ + 1]
  /\ Goto(t, "check")
  /\ UNCHANGED <<ptr, alive>>

\* (A change TLC has to notice: the exception leaves without unlocking.)
ReleasedKeepsLock(t) ==
  /\ At(t, "check")
  /\ ptr[Top(t).obj] = Null
  /\ calls' = [calls EXCEPT ![t] = SubSeq(@, 1, Depth(t) - 1)]
  /\ UNCHANGED <<ptr, held, alive>>

\* (A change TLC has to notice: the lock is given back and the call tries again.)
ReleasedRetries(t) ==
  /\ At(t, "check")
  /\ ptr[Top(t).obj] = Null
  /\ Goto(t, "lock")
  /\ held' = IF Top(t).op = "read" THEN [held EXCEPT ![Top(t).obj][t].read = @ - 1]
                                   ELSE [held EXCEPT ![Top(t).obj][t].write = @ - 1]
  /\ UNCHANGED <<ptr, alive>>

\* `long p = this.ptr`, and what follows when it is 0: throw or return.
CheckReleased(t) ==
  /\ At(t, "check")
  /\ ptr[Top(t).obj] = Null
  /\ Goto(t, "unlock")
  /\ UNCHANGED <<ptr, held, alive>>

CheckBorrow(t) ==
  /\ At(t, "check")
  /\ Top(t).op # "close"
  /\ ptr[Top(t).obj] # Null
  /\ GotoWith(t, "fn", ptr[Top(t).obj])
  /\ UNCHANGED <<ptr, held, alive>>

\* (A change TLC has to notice: the field keeps the handle.)
CloseKeepsField(t) ==
  /\ At(t, "check")
  /\ Top(t).op = "close"
  /\ ptr[Top(t).obj] # Null
  /\ GotoWith(t, "destroy", ptr[Top(t).obj])
  /\ UNCHANGED <<ptr, held, alive>>

\* close: `this.ptr = 0` before destroy(p).
CheckClose(t) ==
  /\ At(t, "check")
  /\ Top(t).op = "close"
  /\ ptr[Top(t).obj] # Null
  /\ GotoWith(t, "destroy", ptr[Top(t).obj])
  /\ ptr' = [ptr EXCEPT ![Top(t).obj] = Null]
  /\ UNCHANGED <<held, alive>>

FnReturns(t) ==
  /\ At(t, "fn")
  /\ Goto(t, "unlock")
  /\ UNCHANGED <<ptr, held, alive>>

\* An @Owned native under nativeWrite (NativeObject.java:21-23) frees the value;
\* `ptr` is private, so nobody clears it.
FnConsumes(t) ==
  /\ Consuming
  /\ At(t, "fn")
  /\ Top(t).op = "write"
  /\ alive' = alive \ {Top(t).p}
  /\ Goto(t, "unlock")
  /\ UNCHANGED <<ptr, held>>

DestroyReturns(t) ==
  /\ At(t, "destroy")
  /\ alive' = alive \ {Top(t).p}
  /\ Goto(t, "unlock")
  /\ UNCHANGED <<ptr, held>>

\* (A change TLC has to notice: the handle goes back into the field.)
DestroyThrowsRestores(t) ==
  /\ At(t, "destroy")
  /\ ptr' = [ptr EXCEPT ![Top(t).obj] = Top(t).p]
  /\ Goto(t, "unlock")
  /\ UNCHANGED <<held, alive>>

\* destroy throws before the value is freed: it is leaked.
DestroyThrows(t) ==
  /\ At(t, "destroy")
  /\ Goto(t, "unlock")
  /\ UNCHANGED <<ptr, held, alive>>

\* (A change TLC has to notice: a read unlocks the write lock.)
UnlockWrite(t) ==
  /\ At(t, "unlock")
  /\ held' = [held EXCEPT ![Top(t).obj][t].write = @ - 1]
  /\ calls' = [calls EXCEPT ![t] = SubSeq(@, 1, Depth(t) - 1)]
  /\ UNCHANGED <<ptr, alive>>

\* `finally { unlock() }`, and the method is left.
Unlock(t) ==
  /\ At(t, "unlock")
  /\ held' = IF Top(t).op = "read" THEN [held EXCEPT ![Top(t).obj][t].read = @ - 1]
                                   ELSE [held EXCEPT ![Top(t).obj][t].write = @ - 1]
  /\ calls' = [calls EXCEPT ![t] = SubSeq(@, 1, Depth(t) - 1)]
  /\ UNCHANGED <<ptr, alive>>

-----------------------------------------------------------------------------
\* The steps of a call once it is made.
Proceed(t) ==
  \/ LockRead(t) \/ LockWrite(t)
  \/ CheckReleased(t) \/ CheckBorrow(t) \/ CheckClose(t)
  \/ FnReturns(t) \/ FnConsumes(t) \/ DestroyReturns(t) \/ DestroyThrows(t)
  \/ Unlock(t)

CallSome(t) == \E o \in Objects, op \in Ops : Call(t, o, op)

Next == \/ \E o \in Objects, h \in Handles : Construct(o, h)
        \/ \E t \in Threads : CallSome(t) \/ Proceed(t)

Spec == Init /\ [][Next]_nvars

\* A thread that can take a step does: the JVM schedules it, callbacks and
\* destroy return.
FairSpec == Spec /\ \A t \in Threads : WF_nvars(Proceed(t))

-----------------------------------------------------------------------------
(* Properties.                                                             *)

\* The calls that have passed a handle to native code.
Uses(t) == {i \in 1..Depth(t) : calls[t][i].pc \in {"fn", "destroy"}}
InFlight(o) == {u \in Threads \X (1..MaxDepth) :
                  u[2] \in Uses(u[1]) /\ calls[u[1]][u[2]].obj = o}

\* A handle in native code is alive and belongs to the object the call is on,
\* also when another object was given the same address since
\* (NativeObject.java:9-14: "a validated pointer only ever reaches Rust ...
\* under a held lock").
HandlesAreLive ==
  \A t \in Threads : \A i \in Uses(t) :
    /\ calls[t][i].p \in alive
    /\ calls[t][i].pc = "fn" => ptr[calls[t][i].obj] = calls[t][i].p
    /\ \A o \in Objects : ptr[o] = calls[t][i].p => o = calls[t][i].obj

\* "The lock maps Rust's borrow rules onto the runtime" (NativeObject.java:16):
\* a write, or a close that frees, is the only call in flight on its object.
BorrowRules ==
  \A o \in Objects : \A u \in InFlight(o) :
    calls[u[1]][u[2]].op # "read" => InFlight(o) = {u}

\* The calls that are destroying o.
Destroyers(o) == {u \in InFlight(o) : calls[u[1]][u[2]].pc = "destroy"}

\* An object is destroyed at most once in its life, whichever threads and
\* callbacks close it and whether or not destroy throws (NativeObject.java:99-101):
\* a call starts to destroy it only by taking the handle out of its field, and a
\* field that was nulled is never filled again.
DestroyedOnce ==
  [][\A o \in Objects :
       /\ ptr[o] = Null => ptr'[o] = Null
       /\ Destroyers(o)' \subseteq Destroyers(o) \/ (ptr[o] \in Handles /\ ptr'[o] = Null)]_nvars

\* The calls of t on o, of the kinds ops, that are past the lock.
Holding(o, t, ops) ==
  {i \in 1..Depth(t) : calls[t][i].obj = o /\ calls[t][i].pc # "lock" /\ calls[t][i].op \in ops}

\* Every path out of a call releases what the call took, no more and no less:
\* the holds of a thread are those of the calls it is in.
LockBalanced ==
  \A o \in Objects, t \in Threads :
    /\ held[o][t].read = Cardinality(Holding(o, t, {"read"}))
    /\ held[o][t].write = Cardinality(Holding(o, t, {"write", "close"}))

\* Once threads stop making calls, every call that was made returns: no call
\* leaves the lock behind and no two wait for each other.
CallsReturn ==
  <>[][\A t \in Threads : ~CallSome(t)]_nvars
    => \A t \in Threads : []<>Idle(t)

\* The object as a cell that is lent and taken.
Users(o, op) == {t \in Threads : \E i \in 1..Depth(t) : /\ calls[t][i].obj = o
                                                        /\ calls[t][i].op = op
                                                        /\ calls[t][i].pc = "fn"}

\* The one that writes, if there is one.
WriterOf(users) == IF users = {} THEN Null ELSE CHOOSE t \in Threads : t \in users

Cell == INSTANCE BorrowCell WITH
          Nobody <- Null,
          state <- [o \in Objects |-> IF ptr[o] = Unmade THEN "unmade"
                                      ELSE IF ptr[o] = Null THEN "taken" ELSE "held"],
          readers <- [o \in Objects |-> Users(o, "read")],
          writer <- [o \in Objects |-> WriterOf(Users(o, "write"))]

\* The class keeps the promise of BorrowCell.
ImplementsBorrowCell == Cell!Spec
=============================================================================
