--------------------------- MODULE DocumentProofs ---------------------------
(***************************************************************************)
(* Document keeps the contract of the handles and is a NativeObject, and   *)
(* loses no handle, for every set of threads, documents and addresses.     *)
(*                                                                         *)
(* The argument is by composition.  What NativeObject and HandleRegistry   *)
(* guarantee is known from their own proofs, as long as each step of       *)
(* Document is a step of both.  That it is follows from the two invariants *)
(* together and from how they meet: what a thread is doing in Java and in  *)
(* native code, and where each owned handle is.                            *)
(***************************************************************************)
EXTENDS Document, SequenceTheorems, TLAPS

\* HandleRegistry and NativeObject again, with what is proved of them.
RP == INSTANCE HandleRegistryProofs WITH
        Frames <- Threads, Pointers <- {BoxString}, Disciplined <- TRUE, MaxRefs <- 1

NP == INSTANCE NativeObjectProofs WITH
        Handles <- Addrs, Reentrant <- FALSE, Consuming <- FALSE, MaxDepth <- 1, alive <- Alive

\* What the two assume of their constants (ConstantsAssumption and
\* NativeAssumption) holds here.
LEMMA AssumptionsHold ==
  /\ /\ RP!IsFiniteSet(Threads)
     /\ \A p \in {BoxString} : p = [target |-> p.target, smart |-> p.smart]
     /\ \A p \in {BoxString} : p.smart \in {"Box", "Arc"}
     /\ NoAddr \notin Addrs
     /\ NoTarget \notin RP!Targets
     /\ TRUE \in BOOLEAN
     /\ 1 \in Nat
  /\ /\ NP!IsFiniteSet(Threads) /\ Null \notin Threads
     /\ Null \notin Addrs /\ Unmade \notin Addrs /\ Null # Unmade
     /\ FALSE \in BOOLEAN /\ FALSE \in BOOLEAN
     /\ 1 \in Nat \ {0}
<1>1. RP!IsFiniteSet(Threads) /\ NP!IsFiniteSet(Threads)
  BY DocumentAssumption DEF IsFiniteSet, RP!IsFiniteSet, NP!IsFiniteSet
<1> QED BY <1>1, DocumentAssumption DEF BoxString, RP!Targets

\* The two instances of each module are the same.
LEMMA SameStep == \A t \in Threads : R!Step(t) <=> RP!Step(t)
BY 
   DEF R!Step, R!Register, R!FromRaw, R!EnterSome, R!FromSome, R!Borrow, R!Consume,
       R!Leave, R!Registered, R!Goto, R!Validate, R!Roles, R!Enter, R!FromNew,
       R!FromValue, R!Deref, R!DerefMut, R!EndUse, R!BorrowMut, R!BeginGuard,
       R!EndGuard, R!CloneArc, R!CloneCount, R!IntoInner, R!IntoInnerDereg,
       R!IntoInnerTake, R!DropOwned, R!DropOwnedDereg, R!DropOwnedFree,
       R!GiveToJava, R!Return, R!Throw, R!UnwindDrop, R!UnwindDereg, R!Valid,
       R!Targets, R!Permitted, R!Pass, R!Violation, R!Owns, R!Deregister, R!End,
       R!DropRef, R!Users, R!NoRecord, R!Idle, R!FreeCell, R!NoPointer, RP!Step,
       RP!Register, RP!FromRaw, RP!EnterSome, RP!FromSome, RP!Borrow, RP!Consume,
       RP!Leave, RP!Registered, RP!Goto, RP!Validate, RP!Roles, RP!Enter,
       RP!FromNew, RP!FromValue, RP!Deref, RP!DerefMut, RP!EndUse, RP!BorrowMut,
       RP!BeginGuard, RP!EndGuard, RP!CloneArc, RP!CloneCount, RP!IntoInner,
       RP!IntoInnerDereg, RP!IntoInnerTake, RP!DropOwned, RP!DropOwnedDereg,
       RP!DropOwnedFree, RP!GiveToJava, RP!Return, RP!Throw, RP!UnwindDrop,
       RP!UnwindDereg, RP!Valid, RP!Targets, RP!Permitted, RP!Pass, RP!Violation,
       RP!Owns, RP!Deregister, RP!End, RP!DropRef, RP!Users, RP!NoRecord, RP!Idle,
       RP!FreeCell, RP!NoPointer

LEMMA SameNext == N!Next <=> NP!Next
BY 
   DEF N!Next, N!Construct, N!Proceed, N!CallSome, N!LockRead, N!LockWrite,
       N!CheckReleased, N!CheckBorrow, N!CheckClose, N!FnReturns, N!FnConsumes,
       N!DestroyReturns, N!DestroyThrows, N!Unlock, N!Ops, N!Call, N!Top, N!At,
       N!Goto, N!CanRead, N!CanWrite, N!GotoWith, N!Depth, N!Idle, N!NoHold,
       NP!Next, NP!Construct, NP!Proceed, NP!CallSome, NP!LockRead, NP!LockWrite,
       NP!CheckReleased, NP!CheckBorrow, NP!CheckClose, NP!FnReturns, NP!FnConsumes,
       NP!DestroyReturns, NP!DestroyThrows, NP!Unlock, NP!Ops, NP!Call, NP!Top,
       NP!At, NP!Goto, NP!CanRead, NP!CanWrite, NP!GotoWith, NP!Depth, NP!Idle,
       NP!NoHold

LEMMA SameInit == (R!Init <=> RP!Init) /\ (N!Init <=> NP!Init)
BY DEF R!Init, R!NoRecord, R!FreeCell, R!NoPointer, R!Idle, N!Init, N!NoHold,
       RP!Init, RP!NoRecord, RP!FreeCell, RP!NoPointer, RP!Idle, NP!Init, NP!NoHold

-----------------------------------------------------------------------------
(* The invariant.                                                          *)

\* What a thread does in native code fits the call it is in.
Fits(t) ==
  \/ frame[t] = R!Idle
  \/ calls[t] = <<>> /\ frame[t].role = "Owned" /\ frame[t].pc \in {"register", "body"}
  \/ /\ calls[t] # <<>>
     /\ frame[t].addr = calls[t][1].p
     /\ \/ /\ calls[t][1].pc = "fn" /\ calls[t][1].op = "read"
           /\ frame[t].role = "Ref" /\ frame[t].pc \in {"body", "shared"}
        \/ /\ calls[t][1].pc = "fn" /\ calls[t][1].op = "write"
           /\ frame[t].role = "Mut" /\ frame[t].pc \in {"body", "begin", "guard"}
        \/ /\ calls[t][1].pc = "destroy"
           /\ frame[t].role = "Owned" /\ frame[t].pc \in {"body", "drop_dereg", "free"}

\* Java has a handle in a field, or has taken it out to destroy it.
Stored(a) == \E o \in Objects : ptr[o] = a
Waits(t, a) == /\ frame[t] = R!Idle
               /\ calls[t] # <<>> /\ calls[t][1].pc = "destroy" /\ calls[t][1].p = a
Kept(a) == Stored(a) \/ \E t \in Threads : Waits(t, a)

JavaHas == \A a \in Addrs : /\ Kept(a) => java[a] = 1
                            /\ ~Kept(a) => java[a] = 0

RustHasNone == \A a \in Addrs : rust[a] = 0

DocInv == /\ RP!Contract /\ NP!BorrowInv
          /\ \A t \in Threads : Fits(t)
          /\ JavaHas /\ RustHasNone

\* What is shown of every step.
Sound == DocInv' /\ [R!Next]_(R!vars) /\ [N!Next]_(N!nvars)

LEMMA DocInit == Init => DocInv
<1> SUFFICES ASSUME Init PROVE DocInv
  OBVIOUS
<1>1. RP!Contract
  BY RP!ContractInit, AssumptionsHold, SameInit DEF Init
<1>2. Alive = {}
  BY DEF Init, R!Init, Alive
<1>3. NP!BorrowInv
  BY <1>2, NP!BorrowInit, AssumptionsHold, SameInit DEF Init, N!Init, NP!Init, NP!NoHold, N!NoHold
<1>4. \A t \in Threads : Fits(t) /\ \A a : ~Waits(t, a)
  BY DEF Init, R!Init, Fits, Waits
<1>5. \A a \in Addrs : ~Stored(a)
  BY DocumentAssumption DEF Init, Stored
<1>6. JavaHas /\ RustHasNone
  BY <1>4, <1>5 DEF Init, R!Init, JavaHas, RustHasNone, Kept
<1> QED BY <1>1, <1>3, <1>4, <1>6 DEF DocInv

-----------------------------------------------------------------------------
(* What the invariant says of a state.                                     *)

LEMMA FrameFacts ==
  ASSUME DocInv, NEW t \in Threads
  PROVE  /\ frame[t] = R!Idle => /\ frame[t].pc = "idle" /\ frame[t].addr = NoAddr
                                 /\ frame[t].role = "none" /\ frame[t].addr \notin Addrs
         /\ frame[t] # R!Idle => /\ frame[t].pc # "idle" /\ frame[t].addr \in Addrs
                                 /\ frame[t].ptr = BoxString
                                 /\ frame[t].role \in {"Ref", "Mut", "Owned"}
<1>1. RP!TypeOK
  BY DEF DocInv, RP!Contract, RP!Accounting
<1>2. frame[t] \in {R!Idle} \cup [pc : RP!ActivePC, addr : Addrs, ptr : {BoxString}, role : RP!Roles]
  BY <1>1 DEF RP!TypeOK, RP!Idle, R!Idle, RP!NoPointer, R!NoPointer
<1> QED BY <1>2, DocumentAssumption DEF RP!ActivePC, RP!Roles, R!Idle

LEMMA CallFacts ==
  ASSUME DocInv, NEW t \in Threads, calls[t] # <<>>
  PROVE  /\ N!Depth(t) = 1 /\ N!Top(t) = calls[t][1]
         /\ calls[t][1] \in [obj : Objects, op : {"read", "write", "close"},
                             pc : {"lock", "check", "fn", "destroy", "unlock"},
                             p : Addrs \cup {Null}]
         /\ calls[t][1].pc \in {"fn", "destroy"} => 1 \in NP!Uses(t)
<1>1. NP!BorrowInv /\ ~NP!Idle(t)
  BY DEF DocInv, NP!Idle
<1>2. /\ NP!Depth(t) = 1 /\ NP!Top(t) = calls[t][1] /\ calls[t][1] \in NP!Record
      /\ NP!At(t, "fn") \/ NP!At(t, "destroy") => 1 \in NP!Uses(t)
  BY <1>1, NP!OnlyCall, AssumptionsHold
<1>3. N!Depth(t) = NP!Depth(t) /\ N!Top(t) = NP!Top(t)
  BY DEF N!Depth, NP!Depth, N!Top, NP!Top
<1> QED BY <1>1, <1>2, <1>3 DEF NP!Record, NP!Ops, NP!CallPC, NP!At

\* A handle in native code is in the field of the object the call is on, or the
\* call is the one that destroys it.
LEMMA UseFacts ==
  ASSUME DocInv, NEW t \in Threads, calls[t] # <<>>, calls[t][1].pc \in {"fn", "destroy"}
  PROVE  /\ calls[t][1].p \in Addrs
         /\ calls[t][1].pc = "fn" => Stored(calls[t][1].p)
         /\ \A u \in Threads : /\ u # t /\ calls[u] # <<>> /\ calls[u][1].p = calls[t][1].p
                               /\ calls[u][1].pc \in {"fn", "destroy"}
              => /\ calls[t][1].pc = "fn" /\ calls[u][1].pc = "fn"
                 /\ calls[t][1].op = "read" /\ calls[u][1].op = "read"
<1>1. NP!HandlesAreLive /\ NP!TypeOK /\ NP!BorrowInv
  BY DEF DocInv, NP!BorrowInv, NP!LockInv
<1>2. 1 \in NP!Uses(t) /\ calls[t][1].obj \in Objects
  BY CallFacts
<1>3. calls[t][1].p \in Addrs
  BY <1>1, <1>2 DEF NP!HandlesAreLive, NP!TypeOK
<1>4. calls[t][1].pc = "fn" => Stored(calls[t][1].p)
  BY <1>1, <1>2 DEF NP!HandlesAreLive, Stored
<1>5. ASSUME NEW u \in Threads, u # t, calls[u] # <<>>, calls[u][1].p = calls[t][1].p,
             calls[u][1].pc \in {"fn", "destroy"}
      PROVE  /\ calls[t][1].pc = "fn" /\ calls[u][1].pc = "fn"
             /\ calls[t][1].op = "read" /\ calls[u][1].op = "read"
  <2>1. 1 \in NP!Uses(u)
    BY <1>5, CallFacts
  <2> QED BY <1>1, <1>2, <1>5, <2>1, NP!SharedReads, AssumptionsHold
<1> QED BY <1>3, <1>4, <1>5

\* A thread in native code that owns its handle is the only one that has it.
LEMMA OwnerFacts ==
  ASSUME DocInv, NEW t \in Threads, frame[t].role = "Owned"
  PROVE  /\ frame[t].addr \in Addrs /\ java[frame[t].addr] = 0 /\ ~Kept(frame[t].addr)
         /\ \A u \in Threads : frame[u].addr = frame[t].addr => u = t
<1>1. frame[t] # R!Idle /\ frame[t].addr \in Addrs /\ frame[t].ptr = BoxString
  BY FrameFacts
<1>2. RP!Users(frame[t].addr) = {t} /\ java[frame[t].addr] = 0
  BY <1>1, RP!OwnerIsAlone, AssumptionsHold DEF DocInv, BoxString
<1>3. ~Kept(frame[t].addr)
  BY <1>1, <1>2 DEF DocInv, JavaHas
<1> QED BY <1>1, <1>2, <1>3 DEF RP!Users
\* A handle that is being destroyed is in no field.
LEMMA TakenOut ==
  ASSUME DocInv, NEW t \in Threads, calls[t] # <<>>, calls[t][1].pc = "destroy"
  PROVE  ~Stored(calls[t][1].p)
<1>1. NP!HandlesAreLive /\ NP!Destroying /\ 1 \in NP!Uses(t)
  BY CallFacts DEF DocInv, NP!BorrowInv, NP!LockInv
<1>2. 1 \in 1..NP!Depth(t)
  BY <1>1 DEF NP!Uses
<1>3. ptr[calls[t][1].obj] = Null
  BY <1>1, <1>2 DEF NP!Destroying
<1>4. calls[t][1].p # Null
  BY UseFacts, DocumentAssumption
<1> QED BY <1>1, <1>3, <1>4 DEF NP!HandlesAreLive, Stored

-----------------------------------------------------------------------------
(* Steps of either side.                                                   *)

\* A step of one handle keeps the contract.
LEMMA RuntimeStep ==
  ASSUME DocInv, NEW t \in Threads, R!Step(t)
  PROVE  R!Next /\ RP!Contract' /\ RP!NoFalseAlarm'
<1>1. \A f \in Threads : frame[f].pc # "abort"
  BY DEF DocInv, RP!Contract, RP!NoFalseAlarm
<1>2. R!Next
  BY <1>1 DEF R!Next, R!Running
<1>3. RP!Next
  BY <1>1, SameStep DEF RP!Next, RP!Running
<1>4. RP!Contract'
  BY <1>3, RP!ContractNext, AssumptionsHold DEF DocInv
<1> QED BY <1>2, <1>4 DEF RP!Contract

\* When native code does nothing, the contract is kept.
LEMMA RuntimeStutter ==
  ASSUME DocInv, UNCHANGED rvars
  PROVE  RP!Contract' /\ UNCHANGED R!vars
<1>1. UNCHANGED RP!vars /\ UNCHANGED R!vars
  BY DEF rvars, RP!vars, R!vars
<1> QED BY <1>1, RP!ContractNext, AssumptionsHold DEF DocInv

\* A step of NativeObject keeps what its lock protects.
LEMMA ObjectStep ==
  ASSUME DocInv, [N!Next]_(N!nvars)
  PROVE  NP!BorrowInv'
<1>1. [NP!Next]_(NP!nvars)
  BY SameNext DEF N!nvars, NP!nvars
<1> QED BY <1>1, NP!BorrowNext, AssumptionsHold DEF DocInv

\* How a frame moves.
LEMMA GotoFrame ==
  ASSUME DocInv, NEW t \in Threads, frame[t] # R!Idle, NEW to, R!Goto(t, to)
  PROVE  /\ frame'[t].pc = to /\ frame'[t].addr = frame[t].addr
         /\ frame'[t].role = frame[t].role
         /\ \A u \in Threads : u # t => frame'[u] = frame[u]
<1>1. RP!TypeOK
  BY DEF DocInv, RP!Contract, RP!Accounting
<1>2. frame[t] \in [pc : RP!ActivePC, addr : Addrs, ptr : {BoxString}, role : RP!Roles]
  BY <1>1 DEF RP!TypeOK, RP!Idle, R!Idle, RP!NoPointer, R!NoPointer
<1>3. frame'[t] = [frame[t] EXCEPT !.pc = to]
  BY <1>1 DEF RP!TypeOK, R!Goto
<1> QED BY <1>1, <1>2, <1>3 DEF RP!TypeOK, R!Goto

LEMMA SetFrame ==
  ASSUME DocInv, NEW t \in Threads, NEW v, frame' = [frame EXCEPT ![t] = v]
  PROVE  frame'[t] = v /\ \A u \in Threads : u # t => frame'[u] = frame[u]
BY DEF DocInv, RP!Contract, RP!Accounting, RP!TypeOK

\* How a call moves.
LEMMA GotoCall ==
  ASSUME DocInv, NEW t \in Threads, calls[t] # <<>>,
         NEW pc \in {"lock", "check", "fn", "destroy", "unlock"}, NEW p \in Addrs \cup {Null},
         (N!Goto(t, pc) /\ p = calls[t][1].p) \/ N!GotoWith(t, pc, p)
  PROVE  /\ calls'[t] # <<>> /\ calls'[t][1].pc = pc /\ calls'[t][1].p = p
         /\ \A u \in Threads : u # t => calls'[u] = calls[u]
<1>1. NP!TypeOK /\ ~NP!Idle(t)
  BY DEF DocInv, NP!BorrowInv, NP!LockInv, NP!Idle
<1>2. (NP!Goto(t, pc) /\ p = calls[t][1].p) \/ NP!GotoWith(t, pc, p)
  BY DEF N!Goto, NP!Goto, N!GotoWith, NP!GotoWith, N!Depth, NP!Depth
<1>3. NP!Depth(t) = 1 /\ NP!Top(t) = calls[t][1]
  BY CallFacts DEF N!Depth, NP!Depth, N!Top, NP!Top
<1>4. pc \in NP!CallPC
  BY DEF NP!CallPC
<1>5. NP!Advances(t, pc, p)
  <2>1. /\ NP!Goto(t, pc) => NP!Advances(t, pc, NP!Top(t).p)
        /\ NP!GotoWith(t, pc, p) => NP!Advances(t, pc, p)
    BY <1>1, <1>4, NP!GotoAdvances, AssumptionsHold
  <2> QED BY <1>2, <1>3, <2>1
<1>6. Len(calls'[t]) = 1 /\ calls'[t][1].pc = pc /\ calls'[t][1].p = p
  BY <1>3, <1>5 DEF NP!Advances, NP!Depth
<1>7. calls'[t] # <<>>
  BY <1>6
<1>8. \A u \in Threads : u # t => calls'[u] = calls[u]
  BY <1>1, <1>2 DEF NP!TypeOK, NP!Goto, NP!GotoWith
<1> QED BY <1>6, <1>7, <1>8

\* A step in native code that leaves Java's handles alone.
LEMMA InNativeStep ==
  ASSUME DocInv, NEW t \in Threads, R!Step(t), UNCHANGED nvars, rust' = rust,
         \A u \in Threads : u # t => frame'[u] = frame[u],
         Fits(t)', JavaHas', Alive' = Alive
  PROVE  Sound
<1>1. R!Next /\ RP!Contract'
  BY RuntimeStep
<1>2. UNCHANGED N!nvars
  BY DEF nvars, N!nvars
<1>3. NP!BorrowInv'
  BY <1>2, ObjectStep
<1>4. \A u \in Threads : Fits(u)'
  BY DEF DocInv, Fits, nvars
<1> QED BY <1>1, <1>2, <1>3, <1>4 DEF Sound, DocInv, RustHasNone

\* A step that moves a handle on in its native, and succeeds because the
\* contract is kept.
LEMMA MoveStep ==
  ASSUME DocInv, NEW t \in Threads, R!Step(t), UNCHANGED nvars, java' = java, rust' = rust,
         frame[t] # R!Idle,
         NEW to \in {"body", "shared", "begin", "guard", "drop_dereg", "free"},
         NEW failed \in {"panic", "unwind"},
         R!Goto(t, to) \/ R!Goto(t, failed),
         calls[t] = <<>> => to = "body",
         frame[t].role = "Ref" => to \in {"body", "shared"},
         frame[t].role = "Mut" => to \in {"body", "begin", "guard"},
         frame[t].role = "Owned" => to \in {"body", "drop_dereg", "free"}
  PROVE  Sound
<1>1. R!Goto(t, to)
  <2>1. CASE R!Goto(t, failed)
    <3>1. frame'[t].pc = failed
      BY <2>1, GotoFrame
    <3> QED BY <3>1, RuntimeStep DEF RP!NoFalseAlarm
  <2> QED BY <2>1
<1>2. /\ frame'[t].pc = to /\ frame'[t].addr = frame[t].addr /\ frame'[t].role = frame[t].role
      /\ \A u \in Threads : u # t => frame'[u] = frame[u]
  BY <1>1, GotoFrame
<1>3. frame'[t] # R!Idle
  BY <1>2 DEF R!Idle
<1>4. ptr' = ptr /\ held' = held /\ calls' = calls
  BY DEF nvars
<1>5. Fits(t)'
  BY <1>2, <1>4 DEF DocInv, Fits
<1>6. \A u \in Threads : frame'[u].addr = frame[u].addr
  BY <1>2
<1>7. Alive' = Alive
  BY <1>4, <1>6 DEF Alive
<1>8. \A u \in Threads : \A a : Waits(u, a)' <=> Waits(u, a)
  BY <1>2, <1>3, <1>4 DEF Waits
<1>9. JavaHas'
  BY <1>4, <1>8 DEF DocInv, JavaHas, Kept, Stored
<1> QED BY <1>2, <1>5, <1>7, <1>9, InNativeStep

\* The call a thread is in.
LEMMA CallAt ==
  ASSUME DocInv, NEW t \in Threads, NEW pc, N!At(t, pc)
  PROVE  calls[t] # <<>> /\ calls[t][1].pc = pc /\ N!Top(t) = calls[t][1]
BY CallFacts DEF N!At, N!Idle

-----------------------------------------------------------------------------
(* Steps of a document.                                                    *)

\* The handle is made.
LEMMA CreateBoxStep ==
  ASSUME DocInv, NEW t \in Threads, CreateBox(t)
  PROVE  Sound
<1>1. PICK a \in Addrs : R!FromNew(t, a, BoxString)
  BY DEF CreateBox
<1> DEFINE v == [pc |-> "register", addr |-> a, ptr |-> BoxString, role |-> "Owned"]
<1>2. R!Step(t)
  BY <1>1 DEF R!Step, R!FromSome
<1>3. /\ frame[t].pc = "idle" /\ java' = java /\ rust' = rust /\ UNCHANGED nvars
      /\ frame' = [frame EXCEPT ![t] = v]
  BY <1>1 DEF R!FromNew, CreateBox
<1>4. frame'[t] = v /\ \A u \in Threads : u # t => frame'[u] = frame[u]
  BY <1>3, SetFrame
<1>5. calls[t] = <<>> /\ ptr' = ptr /\ calls' = calls
  BY <1>3 DEF CreateBox, N!Idle, nvars
<1>6. Fits(t)'
  BY <1>4, <1>5 DEF Fits
<1>7. \A u \in Threads : \A x : Waits(u, x)' <=> Waits(u, x)
  BY <1>4, <1>5 DEF Waits
<1>8. JavaHas'
  BY <1>3, <1>5, <1>7 DEF DocInv, JavaHas, Kept, Stored
<1>9. Alive' = Alive
  BY <1>3, <1>4, <1>5 DEF Alive
<1> QED BY <1>2, <1>3, <1>4, <1>6, <1>8, <1>9, InNativeStep

\* It is registered.
LEMMA CreateRegisterStep ==
  ASSUME DocInv, NEW t \in Threads, CreateRegister(t)
  PROVE  Sound
<1>1. R!Register(t) /\ UNCHANGED nvars
  BY DEF CreateRegister
<1>2. R!Step(t)
  BY <1>1 DEF R!Step
<1>3. frame[t].pc = "register" /\ java' = java /\ rust' = rust
  BY <1>1 DEF R!Register
<1>4. R!Goto(t, "body") \/ R!Goto(t, "panic")
  BY <1>1 DEF R!Register
<1>5. frame[t] # R!Idle
  BY <1>3 DEF R!Idle
<1>6. frame[t].role = "Owned"
  BY <1>3, <1>5 DEF DocInv, Fits
<1> QED BY <1>1, <1>2, <1>3, <1>4, <1>5, <1>6, MoveStep

\* It is handed to the constructor.
LEMMA CreateReturnStep ==
  ASSUME DocInv, NEW t \in Threads, NEW o \in Objects, CreateReturn(t, o)
  PROVE  Sound
<1>1. PICK h : h = frame[t].addr
  OBVIOUS
<1>2. /\ calls[t] = <<>> /\ ptr[o] = Unmade /\ ptr' = [ptr EXCEPT ![o] = h]
      /\ held' = held /\ calls' = calls /\ R!GiveToJava(t)
  BY <1>1 DEF CreateReturn, N!Idle
<1>3. /\ frame[t].role = "Owned" /\ frame' = [frame EXCEPT ![t] = R!Idle]
      /\ java' = [java EXCEPT ![h] = @ + 1] /\ rust' = rust
  BY <1>1, <1>2 DEF R!GiveToJava, R!End
<1>4. /\ h \in Addrs /\ java[h] = 0 /\ ~Kept(h)
      /\ \A u \in Threads : frame[u].addr = h => u = t
  BY <1>1, <1>3, OwnerFacts
<1>5. R!Next /\ RP!Contract'
  BY <1>2, RuntimeStep DEF R!Step, R!Leave
<1>6. frame'[t] = R!Idle /\ \A u \in Threads : u # t => frame'[u] = frame[u]
  BY <1>3, SetFrame
<1>7. /\ java \in [Addrs -> Nat] /\ ptr \in [Objects -> Addrs \cup {Null, Unmade}]
  BY DEF DocInv, RP!Contract, RP!Accounting, RP!TypeOK, NP!BorrowInv, NP!LockInv, NP!TypeOK
<1>8. java'[h] = 1 /\ \A a \in Addrs : a # h => java'[a] = java[a]
  BY <1>3, <1>4, <1>7
<1>9. ptr'[o] = h /\ \A x \in Objects : x # o => ptr'[x] = ptr[x]
  BY <1>2, <1>7
<1>10. h \notin Alive
  BY <1>2, <1>4 DEF Alive
<1>11. Alive' = Alive \cup {h}
  <2>1. \A a \in Addrs : a # h => (a \in Alive' <=> a \in Alive)
    BY <1>2, <1>6, <1>8 DEF Alive
  <2>2. h \in Alive'
    BY <1>4, <1>8 DEF Alive
  <2> QED BY <1>4, <2>1, <2>2 DEF Alive
<1>12. N!Next
  BY <1>2, <1>4, <1>10, <1>11 DEF N!Next, N!Construct
<1>13. NP!BorrowInv'
  BY <1>12, ObjectStep
<1>14. \A u \in Threads : Fits(u)'
  BY <1>2, <1>6 DEF DocInv, Fits
<1>15. \A u \in Threads : \A a : Waits(u, a)' <=> Waits(u, a)
  BY <1>2, <1>6 DEF Waits
<1>16. Stored(h)' /\ \A a \in Addrs : a # h => (Stored(a)' <=> Stored(a))
  BY <1>2, <1>9, DocumentAssumption DEF Stored
<1>17. JavaHas'
  BY <1>8, <1>15, <1>16 DEF DocInv, JavaHas, Kept
<1> QED BY <1>3, <1>5, <1>12, <1>13, <1>14, <1>17 DEF Sound, DocInv, RustHasNone

-----------------------------------------------------------------------------
(* Passing a handle to a native.                                           *)

\* What get, append and drop declare their parameter.
Declares(t, r) ==
  \/ calls[t][1].pc = "fn" /\ calls[t][1].op = "read" /\ r = "Ref"
  \/ calls[t][1].pc = "fn" /\ calls[t][1].op = "write" /\ r = "Mut"
  \/ calls[t][1].pc = "destroy" /\ r = "Owned"

\* The lock has seen to it that the Safety sections permit the handle.
LEMMA LockPermits ==
  ASSUME DocInv, NEW t \in Threads, calls[t] # <<>>, frame[t] = R!Idle,
         NEW r, Declares(t, r)
  PROVE  R!Permitted(calls[t][1].p, BoxString, r) /\ java[calls[t][1].p] = 1
<1> DEFINE a == calls[t][1].p
<1>1. calls[t][1].pc \in {"fn", "destroy"}
  BY DEF Declares
<1>2. a \in Addrs /\ (calls[t][1].pc = "fn" => Stored(a))
  BY <1>1, UseFacts
<1>3. Kept(a)
  BY <1>1, <1>2 DEF Kept, Waits
<1>4. java[a] = 1
  BY <1>2, <1>3 DEF DocInv, JavaHas
<1>5. heap[a].ptr = BoxString
  BY <1>2, <1>4, RP!JavaOwnsMemory, AssumptionsHold DEF DocInv
<1>6. ASSUME NEW g \in Threads, frame[g].addr = a
      PROVE  frame[g].role = "Ref" /\ r = "Ref"
  <2>1. frame[g] # R!Idle
    BY <1>2, <1>6, FrameFacts
  <2>2. g # t
    BY <2>1
  <2>3. frame[g].role # "Owned" \/ calls[g] # <<>>
    BY <1>3, <1>6, OwnerFacts
  <2>4. /\ calls[g] # <<>> /\ calls[g][1].p = a
        /\ calls[g][1].pc \in {"fn", "destroy"}
        /\ calls[g][1].pc = "fn" /\ calls[g][1].op = "read" => frame[g].role = "Ref"
    BY <1>6, <2>1, <2>3 DEF DocInv, Fits
  <2>5. /\ calls[t][1].pc = "fn" /\ calls[g][1].pc = "fn"
        /\ calls[t][1].op = "read" /\ calls[g][1].op = "read"
    BY <1>1, <2>2, <2>4, UseFacts
  <2> QED BY <2>4, <2>5 DEF Declares
<1> QED BY <1>2, <1>4, <1>5, <1>6 DEF R!Permitted, R!Users

LEMMA EnterStep ==
  ASSUME DocInv, NEW t \in Threads, calls[t] # <<>>, UNCHANGED nvars,
         NEW r \in {"Ref", "Mut", "Owned"}, Declares(t, r),
         R!Pass(t, calls[t][1].p, BoxString, r, "body")
  PROVE  Sound
<1>1. PICK a : a = calls[t][1].p
  OBVIOUS
<1> DEFINE v == [pc |-> "body", addr |-> a, ptr |-> BoxString, role |-> r]
<1>2. /\ frame[t].pc = "idle" /\ frame' = [frame EXCEPT ![t] = v] /\ rust' = rust
      /\ r = "Owned" => java' = [java EXCEPT ![a] = @ - 1]
      /\ r # "Owned" => java' = java
  BY <1>1 DEF R!Pass
<1>3. frame[t] = R!Idle
  BY <1>2, FrameFacts
<1>4. calls[t][1].pc \in {"fn", "destroy"} /\ a \in Addrs
  BY <1>1, UseFacts DEF Declares
<1>5. R!Permitted(a, BoxString, r) /\ java[a] = 1
  BY <1>1, <1>3, LockPermits
<1>6. R!Step(t)
  BY <1>1, <1>4, <1>5 DEF R!Step, R!EnterSome, R!Enter, R!Roles
<1>7. frame'[t] = v /\ \A u \in Threads : u # t => frame'[u] = frame[u]
  BY <1>2, SetFrame
<1>8. ptr' = ptr /\ calls' = calls
  BY DEF nvars
<1>9. Fits(t)'
  BY <1>1, <1>7, <1>8 DEF Fits, Declares
<1>10. java \in [Addrs -> Nat]
  BY DEF DocInv, RP!Contract, RP!Accounting, RP!TypeOK
<1>11. /\ r = "Owned" => java'[a] = 0
       /\ \A b \in Addrs : b # a => java'[b] = java[b]
  BY <1>2, <1>4, <1>5, <1>10
<1>12. frame'[t] # R!Idle
  BY <1>7 DEF R!Idle
<1>13. \A u \in Threads : \A b : u # t \/ b # a \/ r # "Owned" => (Waits(u, b)' <=> Waits(u, b))
  BY <1>1, <1>7, <1>8, <1>12 DEF Waits, Declares
<1>14. r = "Owned" => ~Kept(a)'
  <2> SUFFICES ASSUME r = "Owned" PROVE ~Kept(a)'
    OBVIOUS
  <2>1. calls[t][1].pc = "destroy"
    BY DEF Declares
  <2>2. ~Stored(a)
    BY <1>1, <2>1, TakenOut
  <2>3. \A u \in Threads : ~Waits(u, a)'
    <3>1. ~Waits(t, a)'
      BY <1>12 DEF Waits
    <3>2. ASSUME NEW u \in Threads, u # t, Waits(u, a) PROVE FALSE
      BY <1>1, <2>1, <3>2, UseFacts DEF Waits
    <3> QED BY <1>13, <3>1, <3>2
  <2> QED BY <1>8, <2>2, <2>3 DEF Kept, Stored
<1>15. JavaHas'
  <2> SUFFICES ASSUME NEW b \in Addrs
               PROVE  (Kept(b)' => java'[b] = 1) /\ (~Kept(b)' => java'[b] = 0)
    BY DEF JavaHas
  <2>1. CASE b = a /\ r = "Owned"
    BY <1>11, <1>14, <2>1
  <2>2. CASE b # a \/ r # "Owned"
    <3>1. Kept(b)' <=> Kept(b)
      BY <1>8, <1>13, <2>2 DEF Kept, Stored
    <3>2. java'[b] = java[b]
      BY <1>2, <1>11, <2>2
    <3> QED BY <3>1, <3>2 DEF DocInv, JavaHas
  <2> QED BY <2>1, <2>2
<1>16. Alive' = Alive
  <2>1. ASSUME NEW b \in Addrs, b # a PROVE b \in Alive' <=> b \in Alive
    <3>1. \A u \in Threads : frame'[u].addr = b <=> frame[u].addr = b
      BY <1>3, <1>7, <2>1, DocumentAssumption, FrameFacts
    <3> QED BY <1>8, <1>11, <2>1, <3>1 DEF Alive
  <2>2. a \in Alive
    BY <1>4, <1>5 DEF Alive
  <2>3. a \in Alive'
    <3>1. CASE r = "Owned"
      BY <1>1, <1>4, <1>7, <1>8, <3>1 DEF Alive, Declares
    <3>2. CASE r # "Owned"
      BY <1>2, <1>4, <1>5, <3>2 DEF Alive
    <3> QED BY <3>1, <3>2
  <2> QED BY <2>1, <2>2, <2>3 DEF Alive
<1> QED BY <1>2, <1>6, <1>7, <1>9, <1>15, <1>16, InNativeStep

\* get, append and drop are called.
LEMMA EnterSteps ==
  ASSUME DocInv, NEW t \in Threads, GetEnter(t) \/ AppendEnter(t) \/ DropEnter(t)
  PROVE  Sound
<1>1. CASE GetEnter(t)
  <2>1. /\ calls[t] # <<>> /\ calls[t][1].pc = "fn" /\ N!Top(t) = calls[t][1]
    BY <1>1, CallAt DEF GetEnter
  <2>2. /\ calls[t][1].op = "read" /\ UNCHANGED nvars
        /\ R!Pass(t, calls[t][1].p, BoxString, "Ref", "body")
    BY <1>1, <2>1 DEF GetEnter, Handle
  <2>3. Declares(t, "Ref")
    BY <2>1, <2>2 DEF Declares
  <2> QED BY <2>1, <2>2, <2>3, EnterStep
<1>2. CASE AppendEnter(t)
  <2>1. /\ calls[t] # <<>> /\ calls[t][1].pc = "fn" /\ N!Top(t) = calls[t][1]
    BY <1>2, CallAt DEF AppendEnter
  <2>2. /\ calls[t][1].op = "write" /\ UNCHANGED nvars
        /\ R!Pass(t, calls[t][1].p, BoxString, "Mut", "body")
    BY <1>2, <2>1 DEF AppendEnter, Handle
  <2>3. Declares(t, "Mut")
    BY <2>1, <2>2 DEF Declares
  <2> QED BY <2>1, <2>2, <2>3, EnterStep
<1>3. CASE DropEnter(t)
  <2>1. /\ calls[t] # <<>> /\ calls[t][1].pc = "destroy" /\ N!Top(t) = calls[t][1]
    BY <1>3, CallAt DEF DropEnter
  <2>2. /\ UNCHANGED nvars
        /\ R!Pass(t, calls[t][1].p, BoxString, "Owned", "body")
    BY <1>3, <2>1 DEF DropEnter, Handle
  <2>3. Declares(t, "Owned")
    BY <2>1 DEF Declares
  <2> QED BY <2>1, <2>2, <2>3, EnterStep
<1> QED BY <1>1, <1>2, <1>3

\* get and append use what they borrowed, drop takes it apart.
LEMMA UseSteps ==
  ASSUME DocInv, NEW t \in Threads, GetUse(t) \/ AppendUse(t) \/ DropUse(t)
  PROVE  Sound
<1>1. CASE GetUse(t)
  <2>1. /\ calls[t] # <<>> /\ calls[t][1].pc = "fn" /\ calls[t][1].op = "read"
        /\ UNCHANGED nvars /\ (R!Deref(t) \/ R!EndUse(t))
    BY <1>1, CallAt DEF GetUse
  <2>2. frame[t].pc # "idle" /\ java' = java /\ rust' = rust
    BY <2>1 DEF R!Deref, R!Validate, R!EndUse
  <2>3. frame[t] # R!Idle /\ frame[t].role = "Ref"
    BY <2>1, <2>2, FrameFacts DEF DocInv, Fits
  <2>4. R!Step(t)
    BY <2>1 DEF R!Step, R!Borrow
  <2>5. CASE R!Deref(t)
    <3>1. R!Goto(t, "shared") \/ R!Goto(t, "panic")
      BY <2>3, <2>5 DEF R!Deref, R!Validate, R!Violation
    <3> QED BY <2>1, <2>2, <2>3, <2>4, <3>1, MoveStep
  <2>6. CASE R!EndUse(t)
    <3>1. R!Goto(t, "body")
      BY <2>6 DEF R!EndUse
    <3> QED BY <2>1, <2>2, <2>3, <2>4, <3>1, MoveStep
  <2> QED BY <2>1, <2>5, <2>6
<1>2. CASE AppendUse(t)
  <2>1. /\ calls[t] # <<>> /\ calls[t][1].pc = "fn" /\ calls[t][1].op = "write"
        /\ UNCHANGED nvars /\ (R!BorrowMut(t) \/ R!BeginGuard(t) \/ R!EndGuard(t))
    BY <1>2, CallAt DEF AppendUse
  <2>2. frame[t].pc # "idle" /\ java' = java /\ rust' = rust
    BY <2>1 DEF R!BorrowMut, R!Validate, R!BeginGuard, R!EndGuard
  <2>3. frame[t] # R!Idle /\ frame[t].role = "Mut"
    BY <2>1, <2>2, FrameFacts DEF DocInv, Fits
  <2>4. R!Step(t)
    BY <2>1 DEF R!Step, R!Borrow
  <2>5. CASE R!BorrowMut(t)
    <3>1. R!Goto(t, "begin") \/ R!Goto(t, "panic")
      BY <2>3, <2>5 DEF R!BorrowMut, R!Validate, R!Violation
    <3> QED BY <2>1, <2>2, <2>3, <2>4, <3>1, MoveStep
  <2>6. CASE R!BeginGuard(t)
    <3>1. R!Goto(t, "guard") \/ R!Goto(t, "panic")
      BY <2>3, <2>6 DEF R!BeginGuard, R!Violation
    <3> QED BY <2>1, <2>2, <2>3, <2>4, <3>1, MoveStep
  <2>7. CASE R!EndGuard(t)
    <3>1. R!Goto(t, "body")
      BY <2>7 DEF R!EndGuard
    <3> QED BY <2>1, <2>2, <2>3, <2>4, <3>1, MoveStep
  <2> QED BY <2>1, <2>5, <2>6, <2>7
<1>3. CASE DropUse(t)
  <2>1. /\ calls[t] # <<>> /\ calls[t][1].pc = "destroy"
        /\ UNCHANGED nvars /\ (R!DropOwned(t) \/ R!DropOwnedDereg(t))
    BY <1>3, CallAt DEF DropUse
  <2>2. frame[t].pc # "idle" /\ java' = java /\ rust' = rust
    BY <2>1 DEF R!DropOwned, R!Validate, R!DropOwnedDereg, R!Deregister
  <2>3. frame[t] # R!Idle /\ frame[t].role = "Owned"
    BY <2>1, <2>2, FrameFacts DEF DocInv, Fits
  <2>4. R!Step(t)
    BY <2>1 DEF R!Step, R!Consume
  <2>5. CASE R!DropOwned(t)
    <3>1. R!Goto(t, "drop_dereg") \/ R!Goto(t, "panic")
      BY <2>5 DEF R!DropOwned, R!Validate
    <3> QED BY <2>1, <2>2, <2>3, <2>4, <3>1, MoveStep
  <2>6. CASE R!DropOwnedDereg(t)
    <3>1. R!Goto(t, "free") \/ R!Goto(t, "panic")
      BY <2>6 DEF R!DropOwnedDereg, R!Deregister
    <3> QED BY <2>1, <2>2, <2>3, <2>4, <3>1, MoveStep
  <2> QED BY <2>1, <2>5, <2>6
<1> QED BY <1>1, <1>2, <1>3

-----------------------------------------------------------------------------
(* Returning from a native.                                                *)

\* A native ends and its call goes on to unlock.
LEMMA EndStep ==
  ASSUME DocInv, NEW t \in Threads, calls[t] # <<>>, R!Step(t), R!End(t), N!Goto(t, "unlock"),
         frame[t] # R!Idle, UNCHANGED <<ptr, held, java, rust>>, N!Next
  PROVE  Sound
<1>1. frame'[t] = R!Idle /\ \A u \in Threads : u # t => frame'[u] = frame[u]
  BY SetFrame DEF R!End
<1>2. calls[t][1].p \in Addrs \cup {Null}
  BY CallFacts
<1>3. /\ calls'[t] # <<>> /\ calls'[t][1].pc = "unlock"
      /\ \A u \in Threads : u # t => calls'[u] = calls[u]
  BY <1>2, GotoCall
<1>4. R!Next /\ RP!Contract' /\ NP!BorrowInv'
  BY RuntimeStep, ObjectStep
<1>5. \A u \in Threads : Fits(u)'
  BY <1>1, <1>3 DEF DocInv, Fits
<1>6. \A u \in Threads : \A a : Waits(u, a)' <=> Waits(u, a)
  BY <1>1, <1>3 DEF Waits
<1>7. JavaHas'
  BY <1>6 DEF DocInv, JavaHas, Kept, Stored
<1> QED BY <1>4, <1>5, <1>7 DEF Sound, DocInv, RustHasNone

\* get and append return.
LEMMA NativeReturnStep ==
  ASSUME DocInv, NEW t \in Threads, NativeReturn(t)
  PROVE  Sound
<1>1. /\ calls[t] # <<>> /\ calls[t][1].pc = "fn" /\ N!At(t, "fn")
      /\ R!Return(t) /\ N!Goto(t, "unlock") /\ ptr' = ptr /\ held' = held
  BY CallAt DEF NativeReturn
<1>2. /\ frame[t].pc = "body" /\ R!End(t) /\ java' = java /\ rust' = rust
  BY <1>1 DEF R!Return
<1>3. frame[t] # R!Idle /\ R!Step(t)
  BY <1>1, <1>2, FrameFacts DEF R!Step, R!Leave
<1>4. calls[t][1].p \in Addrs \cup {Null}
  BY <1>1, CallFacts
<1>5. /\ calls'[t] # <<>> /\ calls'[t][1].pc = "unlock"
      /\ \A u \in Threads : u # t => calls'[u] = calls[u]
  BY <1>1, <1>4, GotoCall
<1>6. frame'[t] = R!Idle /\ \A u \in Threads : u # t => frame'[u] = frame[u]
  BY <1>2, SetFrame DEF R!End
<1>7. Alive' = Alive
  BY <1>1, <1>2, <1>5, <1>6 DEF Alive
<1>8. N!FnReturns(t)
  BY <1>1, <1>7 DEF N!FnReturns
<1>9. N!Next
  BY <1>8 DEF N!Next, N!Proceed
<1> QED BY <1>1, <1>2, <1>3, <1>9, EndStep

\* drop returns, and the box is gone.
LEMMA DropReturnStep ==
  ASSUME DocInv, NEW t \in Threads, DropReturn(t)
  PROVE  Sound
<1>1. PICK h : h = frame[t].addr
  OBVIOUS
<1>2. /\ calls[t] # <<>> /\ calls[t][1].pc = "destroy" /\ N!At(t, "destroy")
      /\ N!Top(t) = calls[t][1]
      /\ R!DropOwnedFree(t) /\ N!Goto(t, "unlock") /\ ptr' = ptr /\ held' = held
  BY CallAt DEF DropReturn
<1>3. /\ frame[t].pc = "free" /\ R!End(t) /\ java' = java /\ rust' = rust
  BY <1>2 DEF R!DropOwnedFree
<1>4. frame[t] # R!Idle /\ R!Step(t)
  BY <1>2, <1>3, FrameFacts DEF R!Step, R!Consume
<1>5. frame[t].role = "Owned" /\ calls[t][1].p = h
  BY <1>1, <1>2, <1>4 DEF DocInv, Fits
<1>6. h \in Addrs /\ java[h] = 0 /\ \A u \in Threads : frame[u].addr = h => u = t
  BY <1>1, <1>5, OwnerFacts
<1>7. /\ calls'[t] # <<>> /\ calls'[t][1].pc = "unlock"
      /\ \A u \in Threads : u # t => calls'[u] = calls[u]
  BY <1>2, <1>5, <1>6, GotoCall
<1>8. frame'[t] = R!Idle /\ \A u \in Threads : u # t => frame'[u] = frame[u]
  BY <1>3, SetFrame DEF R!End
<1>9. Alive' = Alive \ {h}
  <2>1. h \notin Alive'
    BY <1>3, <1>6, <1>7, <1>8 DEF Alive
  <2>2. ASSUME NEW a \in Addrs, a # h PROVE a \in Alive' <=> a \in Alive
    <3>1. frame[t].addr # a /\ calls'[t][1].pc # "destroy"
      BY <1>1, <1>7, <2>2
    <3> QED BY <1>3, <1>7, <1>8, <3>1 DEF Alive
  <2> QED BY <2>1, <2>2 DEF Alive
<1>10. N!DestroyReturns(t)
  BY <1>2, <1>5, <1>9 DEF N!DestroyReturns
<1>11. N!Next
  BY <1>10 DEF N!Next, N!Proceed
<1> QED BY <1>2, <1>3, <1>4, <1>11, EndStep

-----------------------------------------------------------------------------
(* Steps in Java.                                                          *)

\* A call moves and the fields keep their handles.
LEMMA JavaStep ==
  ASSUME DocInv, NEW t \in Threads, N!Next, UNCHANGED rvars, frame[t] = R!Idle,
         \A u \in Threads : u # t => calls'[u] = calls[u],
         \A a \in Addrs : Kept(a)' <=> Kept(a)
  PROVE  Sound
<1>1. RP!Contract' /\ UNCHANGED R!vars /\ NP!BorrowInv'
  BY RuntimeStutter, ObjectStep
<1>2. frame' = frame /\ java' = java /\ rust' = rust
  BY DEF rvars
<1>3. \A u \in Threads : Fits(u)'
  BY <1>2 DEF DocInv, Fits
<1>4. JavaHas' /\ RustHasNone'
  BY <1>2 DEF DocInv, JavaHas, RustHasNone
<1> QED BY <1>1, <1>3, <1>4 DEF Sound, DocInv

\* text, appendText or close is called.
LEMMA InvokeStep ==
  ASSUME DocInv, NEW t \in Threads, NEW o \in Objects, NEW op \in N!Ops, Invoke(t, o, op)
  PROVE  Sound
<1> DEFINE r == [obj |-> o, op |-> op, pc |-> "lock", p |-> Null]
<1>1. /\ frame[t] = R!Idle /\ UNCHANGED rvars /\ N!Call(t, o, op)
      /\ calls' = [calls EXCEPT ![t] = Append(@, r)] /\ ptr' = ptr
      /\ calls[t] = <<>>
  BY DEF Invoke, InNative, N!Call, N!Idle
<1>2. calls \in [Threads -> Seq(NP!Record)]
  BY DEF DocInv, NP!BorrowInv, NP!LockInv, NP!TypeOK, NP!Record
<1>3. calls'[t] = <<r>> /\ \A u \in Threads : u # t => calls'[u] = calls[u]
  <2>1. calls'[t] = Append(calls[t], r) /\ \A u \in Threads : u # t => calls'[u] = calls[u]
    BY <1>1, <1>2
  <2>2. Append(<<>>, r) = <<r>>
    OBVIOUS
  <2> QED BY <1>1, <2>1, <2>2
<1>4. calls'[t][1].pc = "lock"
  BY <1>3
<1>5. frame' = frame
  BY <1>1 DEF rvars
<1>6. \A u \in Threads : \A a : Waits(u, a)' <=> Waits(u, a)
  BY <1>1, <1>3, <1>4, <1>5 DEF Waits
<1>7. \A a \in Addrs : Kept(a)' <=> Kept(a)
  BY <1>1, <1>6 DEF Kept, Stored
<1>8. N!Next
  BY <1>1 DEF N!Next, N!CallSome
<1> QED BY <1>1, <1>3, <1>7, <1>8, JavaStep

\* A call goes on, short of freeing.
LEMMA AdvanceStep ==
  ASSUME DocInv, NEW t \in Threads, N!Next, UNCHANGED rvars, calls[t] # <<>>,
         calls[t][1].pc \notin {"fn", "destroy"}, ptr' = ptr,
         NEW pc \in {"check", "fn", "unlock"}, NEW p \in Addrs \cup {Null},
         (N!Goto(t, pc) /\ p = calls[t][1].p) \/ N!GotoWith(t, pc, p)
  PROVE  Sound
<1>1. /\ calls'[t] # <<>> /\ calls'[t][1].pc = pc
      /\ \A u \in Threads : u # t => calls'[u] = calls[u]
  BY GotoCall
<1>2. frame[t] = R!Idle /\ frame' = frame
  BY DEF DocInv, Fits, rvars
<1>3. \A u \in Threads : \A a : Waits(u, a)' <=> Waits(u, a)
  BY <1>1, <1>2 DEF Waits
<1>4. \A a \in Addrs : Kept(a)' <=> Kept(a)
  BY <1>3 DEF Kept, Stored
<1> QED BY <1>1, <1>2, <1>4, JavaStep

\* close takes the handle out of the field.
LEMMA CloseStep ==
  ASSUME DocInv, NEW t \in Threads, UNCHANGED rvars, N!CheckClose(t)
  PROVE  Sound
<1>1. calls[t] # <<>> /\ calls[t][1].pc = "check" /\ N!Top(t) = calls[t][1]
  BY CallAt DEF N!CheckClose
<1>2. PICK o, h : o = calls[t][1].obj /\ h = ptr[o]
  OBVIOUS
<1>3. /\ h # Null /\ ptr' = [ptr EXCEPT ![o] = Null] /\ N!GotoWith(t, "destroy", h)
  BY <1>1, <1>2 DEF N!CheckClose
<1>4. NP!TypeOK /\ NP!Made /\ NP!FieldsOwn
  BY DEF DocInv, NP!BorrowInv, NP!LockInv
<1>5. o \in Objects /\ h \in Addrs
  <2>1. o \in Objects /\ NP!Depth(t) = 1
    BY <1>1, <1>2, CallFacts DEF N!Depth, NP!Depth
  <2>2. h # Unmade
    BY <1>2, <1>4, <2>1 DEF NP!Made
  <2> QED BY <1>2, <1>3, <1>4, <2>1, <2>2 DEF NP!TypeOK
<1>6. /\ calls'[t] # <<>> /\ calls'[t][1].pc = "destroy" /\ calls'[t][1].p = h
      /\ \A u \in Threads : u # t => calls'[u] = calls[u]
  BY <1>1, <1>3, <1>5, GotoCall
<1>7. frame[t] = R!Idle /\ frame' = frame
  BY <1>1 DEF DocInv, Fits, rvars
<1>8. ptr'[o] = Null /\ \A x \in Objects : x # o => ptr'[x] = ptr[x]
  BY <1>3, <1>4, <1>5 DEF NP!TypeOK
<1>9. \A a \in Addrs : a # h => (Stored(a)' <=> Stored(a))
  BY <1>2, <1>5, <1>8, DocumentAssumption DEF Stored
<1>10. Stored(h) /\ Waits(t, h)'
  BY <1>2, <1>5, <1>6, <1>7 DEF Stored, Waits
<1>11. \A u \in Threads : \A a : a # h => (Waits(u, a)' <=> Waits(u, a))
  BY <1>1, <1>6, <1>7 DEF Waits
<1>12. \A a \in Addrs : Kept(a)' <=> Kept(a)
  BY <1>9, <1>10, <1>11 DEF Kept
<1>13. N!Next
  BY DEF N!Next, N!Proceed
<1> QED BY <1>6, <1>7, <1>12, <1>13, JavaStep

\* A call unlocks and is left.
LEMMA UnlockStep ==
  ASSUME DocInv, NEW t \in Threads, UNCHANGED rvars, N!Unlock(t)
  PROVE  Sound
<1>1. calls[t] # <<>> /\ calls[t][1].pc = "unlock" /\ NP!TypeOK
  BY CallAt DEF N!Unlock, DocInv, NP!BorrowInv, NP!LockInv
<1>2. /\ calls' = [calls EXCEPT ![t] = SubSeq(@, 1, NP!Depth(t) - 1)] /\ ptr' = ptr
      /\ NP!Depth(t) = 1 /\ ~NP!Idle(t)
  BY <1>1, CallFacts DEF N!Unlock, N!Depth, NP!Depth, NP!Idle
<1>3. calls' \in [Threads -> Seq(NP!Record)] /\ NP!Leaves(t)
  BY <1>1, <1>2, NP!Leave, AssumptionsHold
<1>4. calls'[t] = <<>>
  <2>1. Len(calls'[t]) = 0 /\ calls'[t] \in Seq(NP!Record)
    BY <1>2, <1>3 DEF NP!Leaves, NP!Depth
  <2> QED BY <2>1, EmptySeq
<1>5. \A u \in Threads : u # t => calls'[u] = calls[u]
  BY <1>1, <1>2 DEF NP!TypeOK
<1>6. frame[t] = R!Idle /\ frame' = frame
  BY <1>1 DEF DocInv, Fits, rvars
<1>7. \A u \in Threads : \A a : Waits(u, a)' <=> Waits(u, a)
  BY <1>1, <1>4, <1>5, <1>6 DEF Waits
<1>8. \A a \in Addrs : Kept(a)' <=> Kept(a)
  BY <1>2, <1>7 DEF Kept, Stored
<1>9. N!Next
  BY DEF N!Next, N!Proceed
<1> QED BY <1>5, <1>6, <1>8, <1>9, JavaStep

LEMMA InLockStep ==
  ASSUME DocInv, NEW t \in Threads, InLock(t)
  PROVE  Sound
<1>1. UNCHANGED rvars
  BY DEF InLock
<1>2. CASE N!LockRead(t) \/ N!LockWrite(t)
  <2>1. /\ calls[t] # <<>> /\ calls[t][1].pc = "lock" /\ N!Goto(t, "check") /\ ptr' = ptr
    BY <1>2, CallAt DEF N!LockRead, N!LockWrite
  <2>2. N!Next /\ calls[t][1].p \in Addrs \cup {Null}
    BY <1>2, <2>1, CallFacts DEF N!Next, N!Proceed
  <2> QED BY <1>1, <2>1, <2>2, AdvanceStep
<1>3. CASE N!CheckReleased(t)
  <2>1. /\ calls[t] # <<>> /\ calls[t][1].pc = "check" /\ N!Goto(t, "unlock") /\ ptr' = ptr
    BY <1>3, CallAt DEF N!CheckReleased
  <2>2. N!Next /\ calls[t][1].p \in Addrs \cup {Null}
    BY <1>3, <2>1, CallFacts DEF N!Next, N!Proceed
  <2> QED BY <1>1, <2>1, <2>2, AdvanceStep
<1>4. CASE N!CheckBorrow(t)
  <2>1. /\ calls[t] # <<>> /\ calls[t][1].pc = "check" /\ N!Top(t) = calls[t][1]
    BY <1>4, CallAt DEF N!CheckBorrow
  <2>2. /\ N!GotoWith(t, "fn", ptr[calls[t][1].obj]) /\ ptr' = ptr /\ N!Next
    BY <1>4, <2>1 DEF N!CheckBorrow, N!Next, N!Proceed
  <2>3. ptr[calls[t][1].obj] \in Addrs \cup {Null}
    <3>1. NP!TypeOK /\ NP!Made /\ NP!Depth(t) = 1 /\ calls[t][1].obj \in Objects
      BY <2>1, CallFacts DEF DocInv, NP!BorrowInv, NP!LockInv, N!Depth, NP!Depth
    <3> QED BY <3>1 DEF NP!TypeOK, NP!Made
  <2> QED BY <1>1, <2>1, <2>2, <2>3, AdvanceStep
<1>5. CASE N!CheckClose(t)
  BY <1>1, <1>5, CloseStep
<1>6. CASE N!Unlock(t)
  BY <1>1, <1>6, UnlockStep
<1> QED BY <1>2, <1>3, <1>4, <1>5, <1>6 DEF InLock

-----------------------------------------------------------------------------
(* The results.                                                            *)

LEMMA DocNext == DocInv /\ [Next]_vars => Sound
<1> SUFFICES ASSUME DocInv, [Next]_vars PROVE Sound
  OBVIOUS
<1>1. ASSUME NEW t \in Threads, Create(t) PROVE Sound
  BY <1>1, CreateBoxStep, CreateRegisterStep, CreateReturnStep DEF Create
<1>2. ASSUME NEW t \in Threads, InLock(t) PROVE Sound
  BY <1>2, InLockStep
<1>3. ASSUME NEW t \in Threads, Native(t) PROVE Sound
  BY <1>3, EnterSteps, UseSteps, NativeReturnStep, DropReturnStep DEF Native
<1>4. ASSUME NEW t \in Threads, NEW o \in Objects, NEW op \in N!Ops, Invoke(t, o, op) PROVE Sound
  BY <1>4, InvokeStep
<1>5. CASE UNCHANGED vars
  <2>1. UNCHANGED <<nvars, rvars>>
    BY <1>5 DEF vars
  <2>2. /\ ptr' = ptr /\ held' = held /\ calls' = calls
        /\ java' = java /\ rust' = rust /\ frame' = frame
    BY <2>1 DEF nvars, rvars
  <2>3. Alive' = Alive
    BY <2>2 DEF Alive
  <2>4. UNCHANGED N!nvars
    BY <2>2, <2>3 DEF N!nvars
  <2>5. RP!Contract' /\ UNCHANGED R!vars /\ NP!BorrowInv'
    BY <2>1, <2>4, RuntimeStutter, ObjectStep
  <2>6. (\A t \in Threads : Fits(t)') /\ JavaHas' /\ RustHasNone'
    BY <2>2 DEF DocInv, Fits, JavaHas, RustHasNone, Kept, Stored, Waits
  <2> QED BY <2>4, <2>5, <2>6 DEF Sound, DocInv
<1> QED BY <1>1, <1>2, <1>3, <1>4, <1>5 DEF Next

\* The two invariants meet as they do throughout.
THEOREM DocumentInvariance == Spec => []DocInv
<1>1. DocInv /\ [Next]_vars => DocInv'
  BY DocNext DEF Sound
<1> QED BY <1>1, DocInit, PTL DEF Spec

\* A program that uses only Document keeps the Safety sections of handle.rs:
\* what it does with handles is a behaviour of HandleRegistry, disciplined.
THEOREM ContractIsKept == Spec => KeepsTheContract
<1>1. DocInv /\ [Next]_vars => [R!Next]_(R!vars)
  BY DocNext DEF Sound
<1>2. Init => R!Init
  BY DEF Init
<1> QED BY <1>1, <1>2, DocumentInvariance, PTL DEF Spec, KeepsTheContract, R!Spec

\* The natives treat the handle as NativeObject expects of a subclass.
THEOREM DocumentIsANativeObject == Spec => IsANativeObject
<1>1. DocInv /\ [Next]_vars => [N!Next]_(N!nvars)
  BY DocNext DEF Sound
<1>2. Init => N!Init
  <2> SUFFICES ASSUME Init PROVE N!Init
    OBVIOUS
  <2>1. Alive = {}
    BY DEF Init, R!Init, Alive
  <2> QED BY <2>1 DEF Init, N!Init
<1> QED BY <1>1, <1>2, DocumentInvariance, PTL DEF Spec, IsANativeObject, N!Spec

\* A box that is allocated is in a field, or a thread that creates or closes a
\* document has it.
THEOREM NoLeak == Spec => []NothingLeaks
<1>1. DocInv => NothingLeaks
  <2> SUFFICES ASSUME DocInv, NEW a \in Addrs, heap[a].refs > 0
               PROVE  \/ \E o \in Objects : ptr[o] = a
                      \/ \E t \in Threads : frame[t].addr = a /\ frame[t].role = "Owned"
                      \/ \E t \in Threads : N!At(t, "destroy") /\ Handle(t) = a
    BY DEF NothingLeaks
  <2>1. \/ java[a] > 0 \/ rust[a] > 0
        \/ \E t \in Threads : frame[t].addr = a /\ frame[t].role = "Owned"
    BY RP!MemoryIsOwned, AssumptionsHold DEF DocInv
  <2>2. ~(rust[a] > 0)
    BY DEF DocInv, RustHasNone
  <2>3. ASSUME java[a] > 0 PROVE Kept(a)
    BY <2>3 DEF DocInv, JavaHas
  <2>4. ASSUME NEW t \in Threads, Waits(t, a)
        PROVE  N!At(t, "destroy") /\ Handle(t) = a
    BY <2>4, CallFacts DEF Waits, N!At, N!Idle, Handle
  <2> QED BY <2>1, <2>2, <2>3, <2>4 DEF Kept, Stored
<1> QED BY <1>1, DocumentInvariance, PTL

\* What the contract buys: in a program that uses only Document no check ever
\* fails, every access is to the box it is meant for, and every &mut is alone.
THEOREM DocumentIsSafe == Spec => [](R!SoundAccess /\ R!NoFalseAlarm /\ R!MutIsExclusive)
<1>1. DocInv /\ [Next]_vars => [RP!Next]_(RP!vars)
  <2>1. ASSUME DocInv, R!Next PROVE RP!Next
    BY <2>1, SameStep DEF R!Next, RP!Next, R!Running, RP!Running,
      R!DropValue, RP!DropValue, R!DropRef, RP!DropRef, R!FreeCell, RP!FreeCell,
      R!NoPointer, RP!NoPointer
  <2> QED BY <2>1, DocNext DEF Sound, R!vars, RP!vars
<1>2. Init => RP!Init
  BY SameInit DEF Init
<1>3. Spec => RP!Spec
  BY <1>1, <1>2, DocumentInvariance, PTL DEF Spec, RP!Spec
<1>4. RP!Spec => []RP!SoundAccess
  BY RP!AccessIsSound, AssumptionsHold
<1>5. RP!Spec => []RP!NoFalseAlarm
  BY RP!NeverAccused, AssumptionsHold
<1>6. RP!Spec => []RP!MutIsExclusive
  BY RP!MutExcludes, AssumptionsHold
<1>7. /\ RP!SoundAccess => R!SoundAccess
      /\ RP!NoFalseAlarm => R!NoFalseAlarm
      /\ RP!MutIsExclusive => R!MutIsExclusive
  BY DEF RP!SoundAccess, R!SoundAccess, RP!PointeeLive, R!PointeeLive, RP!Owns, R!Owns,
         RP!NoFalseAlarm, R!NoFalseAlarm, RP!MutIsExclusive, R!MutIsExclusive
<1> QED BY <1>3, <1>4, <1>5, <1>6, <1>7, PTL
===========================================================================
