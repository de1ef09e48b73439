--------------------------- MODULE HandleRegistry ---------------------------
(***************************************************************************)
(* The run-time half of jnisafe: the handle types of jnisafe/src/handle.rs *)
(* (JRef, JMut, MutGuard, JOwned) over the debug side table of             *)
(* jnisafe/src/registry.rs.                                                *)
(*                                                                         *)
(* A FRAME is one handle in the hands of native code: it is created when   *)
(* Java passes a jlong to a native (or Rust rebuilds a handle from a jlong *)
(* or makes one from a value) and ends when the handle is dropped, given   *)
(* back to Java or lost in a panic.  Two frames may belong to two threads  *)
(* or to two parameters of one native: either way the steps of the two     *)
(* interleave.  One step is one critical section of the table's mutex, or  *)
(* one use of the memory behind the handle, so everything that may happen  *)
(* between a check and the use it protects does happen here.               *)
(*                                                                         *)
(* The null handle (jlong 0) is left out: every operation on it returns    *)
(* without touching the table or memory.                                   *)
(***************************************************************************)
EXTENDS Integers, FiniteSets

CONSTANTS Frames,      \* handles that can be in native code at once
          Addrs,       \* machine addresses the allocator hands out
          Pointers,    \* smart pointer types: [target, smart] with smart Box or Arc
          NoAddr, NoTarget,
          Disciplined, \* TRUE: Java keeps the contract of the handles' Safety sections
          MaxRefs      \* bound: strong count of one Arc

Targets == {p.target : p \in Pointers}
Roles == {"Ref", "Mut", "Owned"}     \* JRef, JMut, JOwned

ASSUME ConstantsAssumption ==
  /\ IsFiniteSet(Frames)
  /\ \A p \in Pointers : p = [target |-> p.target, smart |-> p.smart]
  /\ \A p \in Pointers : p.smart \in {"Box", "Arc"}
  /\ NoAddr \notin Addrs
  /\ NoTarget \notin Targets
  /\ Disciplined \in BOOLEAN
  /\ MaxRefs \in Nat

VARIABLES
  table,   \* registry.rs TABLE: address -> [target, owners, guarded]
  heap,    \* the allocator: address -> [ptr, refs]; refs = 0 is free memory
  java,    \* owned handles Java holds at each address and may still give up
  rust,    \* owners on the Rust side: values of into_inner, Arcs of clone_arc
  frame    \* what each frame is: [pc, addr, ptr, role]

vars == <<table, heap, java, rust, frame>>

ActivePC == {"register", "from_raw", "body", "shared", "exclusive", "begin",
             "guard", "clone", "into_dereg", "take", "drop_dereg", "free",
             "panic", "unwind", "unwind_dereg", "abort"}

NoRecord == [target |-> NoTarget, owners |-> 0, guarded |-> FALSE]
NoPointer == [target |-> NoTarget, smart |-> "none"]
FreeCell == [ptr |-> NoPointer, refs |-> 0]
Idle     == [pc |-> "idle", addr |-> NoAddr, ptr |-> NoPointer, role |-> "none"]

TypeOK ==
  /\ table \in [Addrs -> [target : Targets \cup {NoTarget}, owners : Nat, guarded : BOOLEAN]]
  /\ heap \in [Addrs -> [ptr : Pointers \cup {NoPointer}, refs : Nat]]
  /\ java \in [Addrs -> Nat]
  /\ rust \in [Addrs -> Nat]
  /\ frame \in [Frames -> {Idle} \cup
                 [pc : ActivePC, addr : Addrs, ptr : Pointers, role : Roles]]

Init ==
  /\ table = [a \in Addrs |-> NoRecord]
  /\ heap  = [a \in Addrs |-> FreeCell]
  /\ java  = [a \in Addrs |-> 0]
  /\ rust  = [a \in Addrs |-> 0]
  /\ frame = [f \in Frames |-> Idle]

-----------------------------------------------------------------------------
(* The side table.  Valid is what `validate` accepts: note that the key is *)
(* the pointee type, T::Target, not the smart pointer around it.           *)

Registered(a) == table[a].owners > 0

\* (A change TLC has to notice: the type is not compared.)
ValidUntyped(f) == Registered(frame[f].addr)

Valid(f) == /\ Registered(frame[f].addr)
            /\ table[frame[f].addr].target = frame[f].ptr.target

Goto(f, to) == frame' = [frame EXCEPT ![f].pc = to]
End(f)      == frame' = [frame EXCEPT ![f] = Idle]

\* `validate`: one critical section, after which the lock is released again.
Validate(f, from, to, failed) ==
  /\ frame[f].pc = from
  /\ Goto(f, IF Valid(f) THEN to ELSE failed)
  /\ UNCHANGED <<table, heap, java, rust>>

\* Where a violation reported in the body of a native leads: the panic unwinds
\* the frame, and unwinding drops an owned handle.
Violation(f) == IF frame[f].role = "Owned" THEN "unwind" ELSE "panic"

\* (A change TLC has to notice: a record that is there is written over.)
RegisterOverwrites(f) ==
  LET a == frame[f].addr
  IN  /\ frame[f].pc = "register"
      /\ table' = [table EXCEPT ![a] = [target |-> frame[f].ptr.target,
                                        owners |-> 1, guarded |-> FALSE]]
      /\ Goto(f, "body")
      /\ UNCHANGED <<heap, java, rust>>

\* `register`: the JOwned that From returns.
Register(f) ==
  LET a == frame[f].addr
  IN  /\ frame[f].pc = "register"
      /\ IF Registered(a) /\ table[a].target # frame[f].ptr.target
         THEN Goto(f, "panic") /\ UNCHANGED table
         ELSE /\ table' = IF Registered(a)
                          THEN [table EXCEPT ![a].owners = @ + 1]
                          ELSE [table EXCEPT ![a] = [target |-> frame[f].ptr.target,
                                                     owners |-> 1, guarded |-> FALSE]]
              /\ Goto(f, "body")
      /\ UNCHANGED <<heap, java, rust>>

\* (Changes TLC has to notice: an absent record is not reported; the record goes
\* with the first owner.)
DeregisterUnchecked(f, from, to, failed) ==
  LET a == frame[f].addr
  IN  /\ frame[f].pc = from
      /\ table' = IF table[a].owners = 1 THEN [table EXCEPT ![a] = NoRecord]
                                         ELSE [table EXCEPT ![a].owners = @ - 1]
      /\ Goto(f, to)
      /\ UNCHANGED <<heap, java, rust>>

DeregisterAll(f, from, to, failed) ==
  LET a == frame[f].addr
  IN  /\ frame[f].pc = from
      /\ IF Registered(a) THEN table' = [table EXCEPT ![a] = NoRecord] /\ Goto(f, to)
                          ELSE Goto(f, failed) /\ UNCHANGED table
      /\ UNCHANGED <<heap, java, rust>>

\* `deregister`: an absent record is a double free; the last owner removes it.
Deregister(f, from, to, failed) ==
  LET a == frame[f].addr
  IN  /\ frame[f].pc = from
      /\ IF Registered(a)
         THEN /\ table' = IF table[a].owners = 1
                          THEN [table EXCEPT ![a] = NoRecord]
                          ELSE [table EXCEPT ![a].owners = @ - 1]
              /\ Goto(f, to)
         ELSE Goto(f, failed) /\ UNCHANGED table
      /\ UNCHANGED <<heap, java, rust>>

-----------------------------------------------------------------------------
(* Memory.  A reclaim (from_raw of the smart pointer, or Arc's count) has  *)
(* a defined outcome only on the allocation that smart pointer made: when  *)
(* it has none the frame takes no step, and Sound below is already false.  *)

Owns(f) == /\ heap[frame[f].addr].refs > 0
           /\ heap[frame[f].addr].ptr = frame[f].ptr

\* The pointee is there and has the type the frame believes in.
PointeeLive(f) == /\ heap[frame[f].addr].refs > 0
                  /\ heap[frame[f].addr].ptr.target = frame[f].ptr.target

DropRef(a) == heap' = IF heap[a].refs = 1
                      THEN [heap EXCEPT ![a] = FreeCell]
                      ELSE [heap EXCEPT ![a].refs = @ - 1]

-----------------------------------------------------------------------------
(* Entering native code.                                                   *)

Users(a) == {g \in Frames : frame[g].addr = a}

\* The contract of the Safety sections of JRef/JMut/JOwned::from_raw and of the
\* parameter path: the handle is live and of this type, a mutable borrow is
\* alone, and no borrow outlives the last handle that backs it.
Permitted(a, p, r) ==
  /\ heap[a].ptr = p
  /\ java[a] > 0
  /\ \A g \in Users(a) : frame[g].role # "Mut"
  /\ r = "Mut" => Users(a) = {}
  /\ r = "Owned" => (java[a] > 1 \/ \A g \in Users(a) : frame[g].role = "Owned")

\* Java passes the jlong a to a native whose parameter is declared r over p, or
\* to one that rebuilds the handle with from_raw ("from_raw").
Pass(f, a, p, r, to) ==
  /\ frame[f].pc = "idle"
  /\ frame' = [frame EXCEPT ![f] = [pc |-> to, addr |-> a, ptr |-> p, role |-> r]]
  /\ java' = IF Disciplined /\ r = "Owned" THEN [java EXCEPT ![a] = @ - 1] ELSE java
  /\ UNCHANGED <<table, heap, rust>>

Enter(f, a, p, r, to) == /\ Disciplined => Permitted(a, p, r)
                         /\ Pass(f, a, p, r, to)

\* JRef/JMut/JOwned::from_raw: the handle is built only if it validates.
FromRaw(f) == Validate(f, "from_raw", "body", "panic")

\* JOwned::from of a new Box or Arc: to_raw, before `register` runs.
FromNew(f, a, p) ==
  /\ frame[f].pc = "idle"
  /\ heap[a].refs = 0
  /\ heap' = [heap EXCEPT ![a] = [ptr |-> p, refs |-> 1]]
  /\ frame' = [frame EXCEPT ![f] = [pc |-> "register", addr |-> a, ptr |-> p, role |-> "Owned"]]
  /\ UNCHANGED <<table, java, rust>>

\* JOwned::from of a value Rust already owns (recovered, or an Arc clone).
FromValue(f, a) ==
  /\ frame[f].pc = "idle"
  /\ rust[a] > 0
  /\ rust' = [rust EXCEPT ![a] = @ - 1]
  /\ frame' = [frame EXCEPT ![f] = [pc |-> "register", addr |-> a,
                                    ptr |-> heap[a].ptr, role |-> "Owned"]]
  /\ UNCHANGED <<table, heap, java>>

-----------------------------------------------------------------------------
(* What the body of a native does with its handle.                         *)

\* JRef/JMut/JOwned::deref, JOwned::get: validate, then a reference is out.
Deref(f) == Validate(f, "body", "shared", Violation(f))

\* (A change TLC has to notice: deref_mut for every smart pointer.)
DerefMutOfAny(f) == /\ frame[f].role # "Ref"
                    /\ Validate(f, "body", "exclusive", Violation(f))

\* JMut/JOwned::deref_mut, JOwned::get_mut: Box only.
DerefMut(f) == /\ frame[f].role # "Ref"
               /\ frame[f].ptr.smart = "Box"
               /\ Validate(f, "body", "exclusive", Violation(f))

\* The reference is not used any more.
EndUse(f) == /\ frame[f].pc \in {"shared", "exclusive"}
             /\ Goto(f, "body")
             /\ UNCHANGED <<table, heap, java, rust>>

\* JMut/JOwned::borrow_mut: begin_mut_guard locks the table twice.
BorrowMut(f) == /\ frame[f].role # "Ref"
                /\ frame[f].ptr.smart = "Box"
                /\ Validate(f, "body", "begin", Violation(f))

BeginGuard(f) ==
  LET a == frame[f].addr
  IN  /\ frame[f].pc = "begin"
      /\ IF Registered(a) /\ table[a].guarded
         THEN Goto(f, Violation(f)) /\ UNCHANGED table
         ELSE /\ table' = IF Registered(a) THEN [table EXCEPT ![a].guarded = TRUE] ELSE table
              /\ Goto(f, "guard")
      /\ UNCHANGED <<heap, java, rust>>

\* (A change TLC has to notice: the flag is not cleared.)
EndGuardKeepsFlag(f) == /\ frame[f].pc = "guard"
                        /\ Goto(f, "body")
                        /\ UNCHANGED <<table, heap, java, rust>>

\* MutGuard::drop: end_mut_guard clears the flag of whatever record is there.
EndGuard(f) ==
  LET a == frame[f].addr
  IN  /\ frame[f].pc = "guard"
      /\ table' = IF Registered(a) THEN [table EXCEPT ![a].guarded = FALSE] ELSE table
      /\ Goto(f, "body")
      /\ UNCHANGED <<heap, java, rust>>

\* JRef::clone_arc: validate, then increment the strong count.
CloneArc(f) == /\ frame[f].role = "Ref"
               /\ frame[f].ptr.smart = "Arc"
               /\ heap[frame[f].addr].refs < MaxRefs
               /\ Validate(f, "body", "clone", "panic")

\* (A change TLC has to notice: the count is not incremented.)
CloneUncounted(f) == /\ frame[f].pc = "clone"
                     /\ Owns(f)
                     /\ rust' = [rust EXCEPT ![frame[f].addr] = @ + 1]
                     /\ Goto(f, "body")
                     /\ UNCHANGED <<table, heap, java>>

CloneCount(f) ==
  LET a == frame[f].addr
  IN  /\ frame[f].pc = "clone"
      /\ Owns(f)
      /\ heap' = [heap EXCEPT ![a].refs = @ + 1]
      /\ rust' = [rust EXCEPT ![a] = @ + 1]
      /\ Goto(f, "body")
      /\ UNCHANGED <<table, java>>

\* JOwned::into_inner: validate, deregister, from_raw.  The handle is in a
\* ManuallyDrop, so a violation does not drop it again.
IntoInner(f)      == /\ frame[f].role = "Owned"
                     /\ Validate(f, "body", "into_dereg", "panic")
IntoInnerDereg(f) == Deregister(f, "into_dereg", "take", "panic")
IntoInnerTake(f) ==
  /\ frame[f].pc = "take"
  /\ Owns(f)
  /\ rust' = [rust EXCEPT ![frame[f].addr] = @ + 1]
  /\ End(f)
  /\ UNCHANGED <<table, heap, java>>

\* (A change TLC has to notice: memory is released before the record.)
DropOwnedFreesFirst(f) == /\ frame[f].role = "Owned"
                          /\ frame[f].pc = "body"
                          /\ Valid(f)
                          /\ Owns(f)
                          /\ DropRef(frame[f].addr)
                          /\ Goto(f, "drop_dereg")
                          /\ UNCHANGED <<table, java, rust>>

\* JOwned::drop: validate, deregister, from_raw and drop.
DropOwned(f)      == /\ frame[f].role = "Owned"
                     /\ Validate(f, "body", "drop_dereg", "panic")
DropOwnedDereg(f) == Deregister(f, "drop_dereg", "free", "panic")
DropOwnedFree(f) ==
  /\ frame[f].pc = "free"
  /\ Owns(f)
  /\ DropRef(frame[f].addr)
  /\ End(f)
  /\ UNCHANGED <<table, java, rust>>

\* (A change TLC has to notice: into_raw gives up the registration.)
GiveToJavaDeregisters(f) ==
  /\ frame[f].pc = "body"
  /\ frame[f].role = "Owned"
  /\ table' = [table EXCEPT ![frame[f].addr] = NoRecord]
  /\ java' = IF Disciplined THEN [java EXCEPT ![frame[f].addr] = @ + 1] ELSE java
  /\ End(f)
  /\ UNCHANGED <<heap, rust>>

\* The native returns its JOwned, or stores it with into_raw: Java owns it.
GiveToJava(f) ==
  /\ frame[f].pc = "body"
  /\ frame[f].role = "Owned"
  /\ java' = IF Disciplined THEN [java EXCEPT ![frame[f].addr] = @ + 1] ELSE java
  /\ End(f)
  /\ UNCHANGED <<table, heap, rust>>

\* The native returns: a borrowed handle has no destructor.
Return(f) ==
  /\ frame[f].pc = "body"
  /\ frame[f].role # "Owned"
  /\ End(f)
  /\ UNCHANGED <<table, heap, java, rust>>

\* Rust drops a value of its own.
DropValue(a) ==
  /\ rust[a] > 0
  /\ rust' = [rust EXCEPT ![a] = @ - 1]
  /\ DropRef(a)
  /\ UNCHANGED <<table, java, frame>>

-----------------------------------------------------------------------------
(* Violations.  `report` panics after the lock is released; with_env turns *)
(* the panic into a Throwable.  An owned handle is dropped on the way, and *)
(* a second panic while unwinding aborts the process.                      *)

Throw(f) ==
  /\ frame[f].pc = "panic"
  /\ End(f)
  /\ UNCHANGED <<table, heap, java, rust>>

UnwindDrop(f)  == Validate(f, "unwind", "unwind_dereg", "abort")
UnwindDereg(f) == Deregister(f, "unwind_dereg", "free", "abort")

-----------------------------------------------------------------------------
EnterSome(f) == \E a \in Addrs, p \in Pointers, r \in Roles :
                  Enter(f, a, p, r, "body") \/ Enter(f, a, p, r, "from_raw")

FromSome(f) == \E a \in Addrs : FromValue(f, a) \/ \E p \in Pointers : FromNew(f, a, p)

Borrow(f) == \/ Deref(f) \/ DerefMut(f) \/ EndUse(f)
             \/ BorrowMut(f) \/ BeginGuard(f) \/ EndGuard(f)
             \/ CloneArc(f) \/ CloneCount(f)

Consume(f) == \/ IntoInner(f) \/ IntoInnerDereg(f) \/ IntoInnerTake(f)
              \/ DropOwned(f) \/ DropOwnedDereg(f) \/ DropOwnedFree(f)

Leave(f) == \/ GiveToJava(f) \/ Return(f)
            \/ Throw(f) \/ UnwindDrop(f) \/ UnwindDereg(f)

Step(f) == \/ EnterSome(f) \/ FromRaw(f) \/ FromSome(f) \/ Register(f)
           \/ Borrow(f) \/ Consume(f) \/ Leave(f)

Running == \A f \in Frames : frame[f].pc # "abort"

Next == /\ Running
        /\ \/ \E f \in Frames : Step(f)
           \/ \E a \in Addrs : DropValue(a)

Spec == Init /\ [][Next]_vars
-----------------------------------------------------------------------------
(* Properties.                                                             *)

\* Owners on their way into the table (to_raw done, `register` not) or out of
\* it (`deregister` done, from_raw not).
TransitPC == {"register", "take", "free"}
InTransit(a) == {f \in Frames : frame[f].addr = a /\ frame[f].pc \in TransitPC}

\* Every reference to an allocation is accounted for exactly once: by the owner
\* count of its record, by the Rust side, or by a frame between the table and
\* the allocator.  A double free is the case in which the left side runs out
\* first; the claim is that no interleaving and no misuse by Java gets there
\* (registry.rs `register`, `deregister`; JOwned::drop, into_inner, from).
RefsAccounted ==
  \A a \in Addrs :
    heap[a].refs = table[a].owners + rust[a] + Cardinality(InTransit(a))

\* A record always describes the allocation now at its address, so an address
\* the allocator reuses never meets the record of its predecessor and
\* `register` never reports "re-registered with a different type".  It rests on
\* JOwned::drop and into_inner deregistering before memory is released.
RecordDescribesMemory ==
  /\ \A a \in Addrs : Registered(a) => table[a].target = heap[a].ptr.target
  /\ \A f \in Frames : frame[f].pc = "register" => heap[frame[f].addr].ptr = frame[f].ptr

\* No frame holds a reference to, or is about to reclaim or count, memory that
\* is free or is not what the frame takes it for: "the panic is raised before
\* any unsafe dereference" (registry.rs:4-5).
SoundAccess ==
  \A f \in Frames :
    /\ frame[f].pc \in {"shared", "exclusive", "guard"} => PointeeLive(f)
    /\ frame[f].pc \in {"clone", "take", "free"} => Owns(f)

\* A program that keeps the contract is never accused: no validation, no
\* `deregister` and no `begin_mut_guard` fails, and nothing unwinds.
NoFalseAlarm ==
  \A f \in Frames : frame[f].pc \notin {"panic", "unwind", "unwind_dereg", "abort"}

\* Under the contract a `&mut` (deref_mut, get_mut or a MutGuard) is the only
\* reference to its object.
MutIsExclusive ==
  \A f, g \in Frames :
    /\ f # g /\ frame[f].addr = frame[g].addr
    /\ frame[f].pc \in {"exclusive", "guard"}
    => frame[g].pc \notin {"shared", "exclusive", "guard", "clone"}

\* Under the contract the exclusive-borrow flag of a record is set exactly while
\* a guard over that object is alive, and the guard outlives nothing.
GuardFlagExact ==
  \A a \in Addrs :
    table[a].guarded <=> \E f \in Frames : frame[f].addr = a /\ frame[f].pc = "guard"

\* The frames at a that carry an owner the table counts.
ArmedPC == {"from_raw", "body", "shared", "exclusive", "begin", "guard",
            "into_dereg", "drop_dereg", "unwind", "unwind_dereg"}
Armed(a) == {f \in Frames : /\ frame[f].addr = a
                            /\ frame[f].role = "Owned"
                            /\ frame[f].pc \in ArmedPC}

\* Under the contract the owner count of a record is the number of owned handles
\* that exist, in Java's hands and in native code: none is lost and none is
\* counted twice, whatever the order of from, into_raw, drop and into_inner.
OwnersAreHandles ==
  \A a \in Addrs : table[a].owners = java[a] + Cardinality(Armed(a))

\* "the jni `with_env` glue converts the panic into a Java `Throwable`"
\* (registry.rs:5-6): no violation takes the process down.
ViolationIsThrowable == \A f \in Frames : frame[f].pc # "abort"
=============================================================================
