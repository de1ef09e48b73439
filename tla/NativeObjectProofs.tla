------------------------ MODULE NativeObjectProofs -------------------------
(***************************************************************************)
(* Proofs about NativeObject, for every set of threads, objects and        *)
(* handles.  What the lock does holds with callbacks at any depth; what it *)
(* protects is proved of callers that do not come back into the objects    *)
(* and do not free the value under nativeWrite (README, known limits).     *)
(***************************************************************************)
EXTENDS NativeObject, FiniteSetTheorems, SequenceTheorems, TLAPS

Record == [obj : Objects, op : Ops, pc : CallPC, p : Handles \cup {Null}]

\* Thread t's innermost call goes on to pc with p; no other call moves.
Advances(t, pc, p) ==
  /\ \A u \in Threads : Len(calls'[u]) = Len(calls[u])
  /\ \A u \in Threads : \A i \in 1..Len(calls[u]) :
       <<u, i>> # <<t, Depth(t)>> => calls'[u][i] = calls[u][i]
  /\ calls'[t][Depth(t)] = [obj |-> Top(t).obj, op |-> Top(t).op, pc |-> pc, p |-> p]

\* Thread t leaves its innermost call.
Leaves(t) ==
  /\ \A u \in Threads : Len(calls'[u]) = IF u = t THEN Len(calls[u]) - 1 ELSE Len(calls[u])
  /\ \A u \in Threads : \A i \in 1..Len(calls'[u]) : calls'[u][i] = calls[u][i]

\* Thread t makes a call, which has not locked anything yet.
Enters(t, o, op) ==
  /\ \A u \in Threads : Len(calls'[u]) = IF u = t THEN Len(calls[u]) + 1 ELSE Len(calls[u])
  /\ \A u \in Threads : \A i \in 1..Len(calls[u]) : calls'[u][i] = calls[u][i]
  /\ calls'[t][Depth(t) + 1] = [obj |-> o, op |-> op, pc |-> "lock", p |-> Null]

\* A write hold excludes every hold of another thread.
Exclusive ==
  \A o \in Objects : \A t, u \in Threads :
    t # u /\ held[o][t].write > 0 => held[o][u] = NoHold

\* An object that is being destroyed is being destroyed by one call.
Destroying ==
  /\ \A t \in Threads : \A i \in 1..Depth(t) :
       calls[t][i].pc = "destroy" => ptr[calls[t][i].obj] = Null
  /\ \A t, u \in Threads : \A i \in 1..Depth(t), j \in 1..Depth(u) :
       /\ calls[t][i].pc = "destroy" /\ calls[u][j].pc = "destroy"
       /\ calls[t][i].obj = calls[u][j].obj
       => t = u /\ i = j

\* A call is on an object whose constructor has run.
Made == \A t \in Threads : \A i \in 1..Depth(t) : ptr[calls[t][i].obj] # Unmade

LockInv == TypeOK /\ LockBalanced /\ Exclusive /\ Destroying /\ Made

-----------------------------------------------------------------------------
\* The innermost call of a thread that is in one.
LEMMA TopType ==
  ASSUME TypeOK, NEW t \in Threads, ~Idle(t)
  PROVE  Depth(t) \in Nat /\ Depth(t) \in 1..Depth(t) /\ Top(t) \in Record
<1>1. calls[t] \in Seq(Record)
  BY DEF TypeOK, Record
<1>2. Len(calls[t]) \in Nat \ {0}
  BY <1>1, EmptySeq DEF Idle
<1>3. Len(calls[t]) \in 1..Len(calls[t])
  BY <1>2
<1>4. calls[t][Len(calls[t])] \in Record
  BY <1>1, <1>3, ElementOfSeq
<1> QED BY <1>2, <1>3, <1>4 DEF Depth, Top

\* The calls of a thread are records.
LEMMA CallType ==
  ASSUME TypeOK, NEW t \in Threads
  PROVE  /\ calls[t] \in Seq(Record) /\ Depth(t) \in Nat
         /\ \A i \in 1..Depth(t) : calls[t][i] \in Record
<1>1. calls[t] \in Seq(Record)
  BY DEF TypeOK, Record
<1> QED BY <1>1, LenProperties, ElementOfSeq DEF Depth

\* What a step to another point of the method does to the calls.
LEMMA Advance ==
  ASSUME TypeOK, NEW t \in Threads, ~Idle(t),
         NEW pc \in CallPC, NEW p \in Handles \cup {Null},
         calls' = [calls EXCEPT ![t] =
                     [calls[t] EXCEPT ![Depth(t)] =
                        [obj |-> Top(t).obj, op |-> Top(t).op, pc |-> pc, p |-> p]]]
  PROVE  calls' \in [Threads -> Seq(Record)] /\ Advances(t, pc, p)
<1> DEFINE r == [obj |-> Top(t).obj, op |-> Top(t).op, pc |-> pc, p |-> p]
           s == [calls[t] EXCEPT ![Depth(t)] = r]
<1>1. r \in Record
  BY TopType DEF Record
<1>2. calls[t] \in Seq(Record) /\ Depth(t) \in 1..Len(calls[t])
  BY TopType, CallType DEF Depth
<1>3. s \in Seq(Record) /\ Len(s) = Len(calls[t])
  BY <1>1, <1>2, ExceptSeq
<1>4. \A j \in 1..Len(calls[t]) : s[j] = IF j = Depth(t) THEN r ELSE calls[t][j]
  BY <1>1, <1>2, ExceptSeq
<1> HIDE DEF r, s
<1>5. calls' = [calls EXCEPT ![t] = s]
  BY DEF r, s
<1>6. calls \in [Threads -> Seq(Record)]
  BY DEF TypeOK, Record
<1>7. calls' \in [Threads -> Seq(Record)] /\ calls'[t] = s /\ \A u \in Threads : u # t => calls'[u] = calls[u]
  BY <1>3, <1>5, <1>6
<1>8. calls'[t][Depth(t)] = r
  BY <1>2, <1>4, <1>7
<1>9. \A u \in Threads : \A i \in 1..Len(calls[u]) :
        <<u, i>> # <<t, Depth(t)>> => calls'[u][i] = calls[u][i]
  BY <1>4, <1>7
<1> QED BY <1>3, <1>7, <1>8, <1>9 DEF Advances, r

\* `Goto` and `GotoWith` are such steps.
LEMMA GotoAdvances ==
  ASSUME TypeOK, NEW t \in Threads, ~Idle(t), NEW pc \in CallPC
  PROVE  /\ Goto(t, pc) => calls' \in [Threads -> Seq(Record)] /\ Advances(t, pc, Top(t).p)
         /\ \A p \in Handles \cup {Null} :
              GotoWith(t, pc, p) => calls' \in [Threads -> Seq(Record)] /\ Advances(t, pc, p)
<1>1. Top(t) \in Record /\ Depth(t) \in DOMAIN calls[t]
  BY TopType, CallType, LenProperties DEF Depth
<1>2. ASSUME Goto(t, pc) PROVE calls' \in [Threads -> Seq(Record)] /\ Advances(t, pc, Top(t).p)
  <2>1. [calls[t][Depth(t)] EXCEPT !.pc = pc]
          = [obj |-> Top(t).obj, op |-> Top(t).op, pc |-> pc, p |-> Top(t).p]
    BY <1>1 DEF Record, Top
  <2>2. Top(t).p \in Handles \cup {Null}
    BY <1>1 DEF Record
  <2> QED BY <1>2, <2>1, <2>2, Advance DEF Goto
<1>3. ASSUME NEW p \in Handles \cup {Null}, GotoWith(t, pc, p)
      PROVE  calls' \in [Threads -> Seq(Record)] /\ Advances(t, pc, p)
  <2>1. [[calls[t][Depth(t)] EXCEPT !.pc = pc] EXCEPT !.p = p]
          = [obj |-> Top(t).obj, op |-> Top(t).op, pc |-> pc, p |-> p]
    <3>1. PICK r : r = [calls[t][Depth(t)] EXCEPT !.pc = pc]
      OBVIOUS
    <3>2. r = [obj |-> Top(t).obj, op |-> Top(t).op, pc |-> pc, p |-> Top(t).p]
      BY <1>1, <3>1 DEF Record, Top
    <3>3. [r EXCEPT !.p = p] = [obj |-> Top(t).obj, op |-> Top(t).op, pc |-> pc, p |-> p]
      BY <3>2
    <3> QED BY <3>1, <3>3
  <2>2. calls' = [calls EXCEPT ![t] = [calls[t] EXCEPT ![Depth(t)] =
                    [[calls[t][Depth(t)] EXCEPT !.pc = pc] EXCEPT !.p = p]]]
    BY <1>1, <1>3 DEF GotoWith, TypeOK
  <2> QED BY <2>1, <2>2, Advance
<1> QED BY <1>2, <1>3

\* What a return does to the calls.
LEMMA Leave ==
  ASSUME TypeOK, NEW t \in Threads, ~Idle(t),
         calls' = [calls EXCEPT ![t] = SubSeq(@, 1, Depth(t) - 1)]
  PROVE  calls' \in [Threads -> Seq(Record)] /\ Leaves(t)
<1> DEFINE s == SubSeq(calls[t], 1, Depth(t) - 1)
<1>1. calls[t] \in Seq(Record) /\ Depth(t) \in 1..Len(calls[t]) /\ Depth(t) = Len(calls[t])
  BY TopType, CallType DEF Depth
<1>2. \A i \in 1..(Depth(t) - 1) : calls[t][i] \in Record
  BY CallType, <1>1
<1>3. s \in Seq(Record) /\ Len(s) = Depth(t) - 1 /\ \A i \in 1..(Depth(t) - 1) : s[i] = calls[t][i]
  BY <1>1, <1>2, SubSeqProperties, Z3
<1> HIDE DEF s
<1>4. calls' = [calls EXCEPT ![t] = s]
  BY DEF s
<1>5. calls \in [Threads -> Seq(Record)]
  BY DEF TypeOK, Record
<1> QED BY <1>1, <1>3, <1>4, <1>5 DEF Leaves

\* What a call does to them.
LEMMA Enter ==
  ASSUME TypeOK, NEW t \in Threads, NEW o \in Objects, NEW op \in Ops, Call(t, o, op)
  PROVE  calls' \in [Threads -> Seq(Record)] /\ Enters(t, o, op)
<1> DEFINE r == [obj |-> o, op |-> op, pc |-> "lock", p |-> Null]
           s == Append(calls[t], r)
<1>1. calls[t] \in Seq(Record) /\ Depth(t) = Len(calls[t])
  BY CallType DEF Depth
<1>2. r \in Record
  BY DEF Record, CallPC
<1>3. /\ s \in Seq(Record) /\ Len(s) = Len(calls[t]) + 1
      /\ s[Len(calls[t]) + 1] = r
      /\ \A i \in 1..Len(calls[t]) : s[i] = calls[t][i]
  BY <1>1, <1>2
<1> HIDE DEF s
<1>4. calls' = [calls EXCEPT ![t] = s]
  BY DEF s, Call
<1>5. calls \in [Threads -> Seq(Record)]
  BY DEF TypeOK, Record
<1> QED BY <1>1, <1>3, <1>4, <1>5 DEF Enters

-----------------------------------------------------------------------------
\* The calls that hold a lock are finitely many.
LEMMA HoldingFinite ==
  ASSUME TypeOK, NEW t \in Threads, NEW o, NEW ops
  PROVE  IsFiniteSet(Holding(o, t, ops)) /\ Cardinality(Holding(o, t, ops)) \in Nat
<1>1. IsFiniteSet(1..Depth(t))
  BY CallType, FS_Interval
<1>2. Holding(o, t, ops) \in SUBSET (1..Depth(t))
  BY DEF Holding
<1> QED BY <1>1, <1>2, FS_Subset, FS_CardinalityType

\* A step behind the lock keeps what is held.
LEMMA HoldingKept ==
  ASSUME TypeOK, NEW t \in Threads, ~Idle(t), Top(t).pc # "lock", NEW pc, pc # "lock", NEW p,
         Advances(t, pc, p), NEW o, NEW u \in Threads, NEW ops
  PROVE  Holding(o, u, ops)' = Holding(o, u, ops)
<1>1. Depth(t) \in 1..Depth(t) /\ Top(t) = calls[t][Depth(t)]
  BY TopType DEF Top
<1>2. Depth(u)' = Depth(u)
  BY DEF Advances, Depth
<1>3. \A i \in 1..Depth(u) : u # t \/ i # Depth(t) => calls'[u][i] = calls[u][i]
  BY DEF Advances, Depth
<1>4. calls'[t][Depth(t)].obj = Top(t).obj /\ calls'[t][Depth(t)].op = Top(t).op /\ calls'[t][Depth(t)].pc = pc
  BY DEF Advances
<1>5. CASE u = t
  BY <1>1, <1>2, <1>3, <1>4, <1>5 DEF Holding
<1>6. CASE u # t
  BY <1>1, <1>2, <1>3, <1>6 DEF Holding
<1> QED BY <1>5, <1>6

\* A lock is taken for the innermost call alone.
LEMMA HoldingGrows ==
  ASSUME TypeOK, NEW t \in Threads, ~Idle(t), Top(t).pc = "lock", NEW pc, pc # "lock", NEW p,
         Advances(t, pc, p), NEW o, NEW u \in Threads, NEW ops
  PROVE  /\ Depth(t) \notin Holding(o, t, ops)
         /\ u = t /\ o = Top(t).obj /\ Top(t).op \in ops
              => Holding(o, u, ops)' = Holding(o, u, ops) \cup {Depth(t)}
         /\ ~(u = t /\ o = Top(t).obj /\ Top(t).op \in ops)
              => Holding(o, u, ops)' = Holding(o, u, ops)
<1>1. Depth(t) \in 1..Depth(t) /\ Top(t) = calls[t][Depth(t)]
  BY TopType DEF Top
<1>2. Depth(u)' = Depth(u)
  BY DEF Advances, Depth
<1>3. \A i \in 1..Depth(u) : u # t \/ i # Depth(t) => calls'[u][i] = calls[u][i]
  BY DEF Advances, Depth
<1>4. calls'[t][Depth(t)].obj = Top(t).obj /\ calls'[t][Depth(t)].op = Top(t).op /\ calls'[t][Depth(t)].pc = pc
  BY DEF Advances
<1>5. CASE u = t
  BY <1>1, <1>2, <1>3, <1>4, <1>5 DEF Holding
<1>6. CASE u # t
  BY <1>1, <1>2, <1>3, <1>6 DEF Holding
<1> QED BY <1>5, <1>6

\* A return gives back what the innermost call has locked.
LEMMA HoldingLeaves ==
  ASSUME TypeOK, NEW t \in Threads, ~Idle(t), Top(t).pc # "lock", Leaves(t), NEW o, NEW ops
  PROVE  /\ Depth(t) \in Holding(o, t, ops) <=> o = Top(t).obj /\ Top(t).op \in ops
         /\ Holding(o, t, ops)' = Holding(o, t, ops) \ {Depth(t)}
<1>1. Depth(t) \in 1..Depth(t) /\ Top(t) = calls[t][Depth(t)] /\ Depth(t) \in Nat
  BY TopType DEF Top
<1>2. Depth(t)' = Depth(t) - 1
  BY DEF Leaves, Depth
<1>3. \A i \in 1..Depth(t)' : calls'[t][i] = calls[t][i]
  BY DEF Leaves, Depth
<1> QED BY <1>1, <1>2, <1>3 DEF Holding

\* A call that has just been made holds nothing.
LEMMA HoldingEnters ==
  ASSUME TypeOK, NEW t \in Threads, NEW x, NEW op, Enters(t, x, op),
         NEW o, NEW u \in Threads, NEW ops
  PROVE  Holding(o, u, ops)' = Holding(o, u, ops)
<1>1. Depth(t) \in Nat /\ Depth(u) \in Nat
  BY CallType
<1>2. Depth(u)' = IF u = t THEN Depth(t) + 1 ELSE Depth(u)
  BY DEF Enters, Depth
<1>3. \A i \in 1..Depth(u) : calls'[u][i] = calls[u][i]
  BY DEF Enters, Depth
<1>4. calls'[t][Depth(t) + 1].pc = "lock"
  BY DEF Enters
<1>5. CASE u = t
  BY <1>1, <1>2, <1>3, <1>4, <1>5 DEF Holding
<1>6. CASE u # t
  BY <1>1, <1>2, <1>3, <1>6 DEF Holding
<1> QED BY <1>5, <1>6

\* With the holdings and the lock as they were, so is the balance.
LEMMA BalanceKept ==
  ASSUME LockBalanced, held' = held,
         \A o \in Objects, t \in Threads : \A ops \in SUBSET Ops :
           Holding(o, t, ops)' = Holding(o, t, ops)
  PROVE  LockBalanced'
<1>1. \A o \in Objects, t \in Threads :
        /\ Holding(o, t, {"read"})' = Holding(o, t, {"read"})
        /\ Holding(o, t, {"write", "close"})' = Holding(o, t, {"write", "close"})
  BY DEF Ops
<1> QED BY <1>1 DEF LockBalanced

-----------------------------------------------------------------------------
(* What the lock does, with callbacks at any depth.                        *)

LEMMA LockInit == Init => LockInv
<1> SUFFICES ASSUME Init PROVE LockInv
  OBVIOUS
<1>1. \A t \in Threads : calls[t] = <<>> /\ Depth(t) = 0 /\ <<>> \in Seq(Record)
  BY EmptySeq DEF Init, Depth
<1>2. \A o, t, ops : t \in Threads => Holding(o, t, ops) = {}
  BY <1>1 DEF Holding
<1>3. TypeOK
  BY <1>1 DEF Init, TypeOK, NoHold, Record
<1>4. LockBalanced /\ Exclusive
  BY <1>2, FS_EmptySet DEF Init, LockBalanced, Exclusive, NoHold
<1>5. Destroying
  BY <1>1 DEF Destroying
<1>6. Made
  BY <1>1 DEF Made
<1> QED BY <1>3, <1>4, <1>5, <1>6 DEF LockInv

\* A step behind the lock keeps what is known of it.
LEMMA QuietStep ==
  ASSUME LockInv, NEW t \in Threads, ~Idle(t), Top(t).pc # "lock",
         NEW pc \in CallPC \ {"lock"}, NEW p,
         calls' \in [Threads -> Seq(Record)], Advances(t, pc, p),
         held' = held, alive' \subseteq Handles,
         ptr' \in [Objects -> Handles \cup {Null, Unmade}]
  PROVE  TypeOK' /\ LockBalanced' /\ Exclusive'
<1>1. TypeOK'
  BY DEF LockInv, TypeOK, Record
<1>2. LockBalanced'
  <2>1. \A o \in Objects, u \in Threads : \A ops \in SUBSET Ops :
          Holding(o, u, ops)' = Holding(o, u, ops)
    <3> TAKE o \in Objects, u \in Threads
    <3> TAKE ops \in SUBSET Ops
    <3>1. TypeOK
      BY DEF LockInv
    <3> QED BY <3>1, HoldingKept
  <2> QED BY <2>1, BalanceKept DEF LockInv
<1>3. Exclusive'
  BY DEF LockInv, Exclusive
<1> QED BY <1>1, <1>2, <1>3

\* So does one that does not come to destroy, of the destruction.
LEMMA DestroyingKept ==
  ASSUME LockInv, NEW t \in Threads, ~Idle(t), NEW pc, pc # "destroy", NEW p,
         Advances(t, pc, p), ptr' = ptr
  PROVE  Destroying'
<1>1. \A u \in Threads : \A i \in 1..Depth(u)' :
        calls'[u][i].pc = "destroy" => i \in 1..Depth(u) /\ calls'[u][i] = calls[u][i]
  BY TopType DEF Advances, Depth
<1> QED BY <1>1 DEF LockInv, Destroying

\* A step on the way through a method is on the object the call is on.
LEMMA MadeKept ==
  ASSUME LockInv, NEW t \in Threads, ~Idle(t), NEW pc, NEW p, Advances(t, pc, p),
         \A o \in Objects : ptr[o] # Unmade => ptr'[o] # Unmade
  PROVE  Made'
<1>1. \A u \in Threads : \A i \in 1..Depth(u)' :
        i \in 1..Depth(u) /\ calls'[u][i].obj = calls[u][i].obj
  BY TopType DEF Advances, Depth, Top
<1>2. \A u \in Threads : \A i \in 1..Depth(u) : calls[u][i].obj \in Objects
  BY CallType DEF LockInv, Record
<1> QED BY <1>1, <1>2 DEF LockInv, Made

LEMMA QuietSteps ==
  ASSUME LockInv, NEW t \in Threads,
         \/ CheckReleased(t) \/ CheckBorrow(t)
         \/ FnReturns(t) \/ FnConsumes(t) \/ DestroyReturns(t) \/ DestroyThrows(t)
  PROVE  LockInv'
<1>1. ~Idle(t) /\ Top(t).pc # "lock"
  BY DEF CheckReleased, CheckBorrow, FnReturns, FnConsumes, DestroyReturns, DestroyThrows, At
<1>2. TypeOK /\ Top(t) \in Record
  BY <1>1, TopType DEF LockInv
<1>3. \E pc \in CallPC \ {"lock", "destroy"}, p \in Handles \cup {Null} :
        calls' \in [Threads -> Seq(Record)] /\ Advances(t, pc, p)
  <2>1. CASE CheckBorrow(t)
    <3>1. ptr[Top(t).obj] # Unmade
      BY <1>1, TopType DEF LockInv, Made, Top
    <3>2. ptr[Top(t).obj] \in Handles \cup {Null}
      BY <1>2, <3>1 DEF TypeOK, Record
    <3>3. GotoWith(t, "fn", ptr[Top(t).obj])
      BY <2>1 DEF CheckBorrow
    <3> QED BY <1>1, <1>2, <3>2, <3>3, GotoAdvances DEF CallPC
  <2>2. CASE ~CheckBorrow(t)
    <3>1. Goto(t, "unlock")
      BY <2>2 DEF CheckReleased, FnReturns, FnConsumes, DestroyReturns, DestroyThrows
    <3> QED BY <1>1, <1>2, <3>1, GotoAdvances DEF CallPC, Record
  <2> QED BY <2>1, <2>2
<1>4. held' = held /\ ptr' = ptr /\ alive' \subseteq alive
  BY DEF CheckReleased, CheckBorrow, FnReturns, FnConsumes, DestroyReturns, DestroyThrows
<1> QED BY <1>1, <1>2, <1>3, <1>4, QuietStep, DestroyingKept, MadeKept DEF LockInv, TypeOK

\* close: nobody else is destroying an object whose field is not null.
LEMMA CloseStep ==
  ASSUME LockInv, NEW t \in Threads, CheckClose(t)
  PROVE  LockInv'
<1> DEFINE o == Top(t).obj
<1>1. ~Idle(t) /\ Top(t).pc = "check" /\ TypeOK
  BY DEF CheckClose, At, LockInv
<1>2. Top(t) \in Record /\ Depth(t) \in 1..Depth(t) /\ ptr[o] # Unmade
  BY <1>1, TopType DEF LockInv, Made, Top
<1>3. o \in Objects /\ ptr[o] \in Handles
  BY <1>2 DEF CheckClose, Record, LockInv, TypeOK
<1>4. /\ GotoWith(t, "destroy", ptr[o])
      /\ ptr' = [ptr EXCEPT ![o] = Null]
      /\ held' = held /\ alive' = alive
  BY DEF CheckClose
<1>5. calls' \in [Threads -> Seq(Record)] /\ Advances(t, "destroy", ptr[o])
  BY <1>1, <1>3, <1>4, GotoAdvances DEF CallPC
<1>6. ptr' \in [Objects -> Handles \cup {Null, Unmade}] /\ alive' \subseteq Handles
  BY <1>1, <1>3, <1>4 DEF TypeOK
<1>7. TypeOK' /\ LockBalanced' /\ Exclusive'
  BY <1>1, <1>4, <1>5, <1>6, QuietStep DEF CallPC
<1>8. Made'
  BY <1>1, <1>3, <1>4, <1>5, MadeKept, NativeAssumption DEF TypeOK
<1>9. Destroying'
  <2>1. \A u \in Threads : Depth(u)' = Depth(u)
    BY <1>5 DEF Advances, Depth
  <2>2. \A u \in Threads : \A i \in 1..Depth(u) :
          <<u, i>> # <<t, Depth(t)>> => calls'[u][i] = calls[u][i]
    BY <1>5 DEF Advances, Depth
  <2>3. calls'[t][Depth(t)].obj = o
    BY <1>5 DEF Advances
  <2>4. \A u \in Threads : \A i \in 1..Depth(u) :
          calls[u][i].pc = "destroy" => ptr[calls[u][i].obj] = Null /\ calls[u][i].obj # o
    BY <1>3, NativeAssumption DEF LockInv, Destroying
  <2>5. \A x : ptr[x] = Null => ptr'[x] = Null
    BY <1>1, <1>3, <1>4 DEF TypeOK
  <2>6. ptr'[o] = Null
    BY <1>1, <1>3, <1>4 DEF TypeOK
  <2>7. \A u \in Threads : \A i \in 1..Depth(u)' :
          calls'[u][i].pc = "destroy" => ptr'[calls'[u][i].obj] = Null
    BY <2>1, <2>2, <2>3, <2>4, <2>5, <2>6
  <2>8. ASSUME NEW u \in Threads, NEW v \in Threads, NEW i \in 1..Depth(u)', NEW j \in 1..Depth(v)',
               calls'[u][i].pc = "destroy", calls'[v][j].pc = "destroy",
               calls'[u][i].obj = calls'[v][j].obj
        PROVE  u = v /\ i = j
    <3>1. CASE <<u, i>> = <<t, Depth(t)>>
      BY <2>1, <2>2, <2>3, <2>4, <2>8, <3>1
    <3>2. CASE <<v, j>> = <<t, Depth(t)>>
      BY <2>1, <2>2, <2>3, <2>4, <2>8, <3>2
    <3>3. CASE <<u, i>> # <<t, Depth(t)>> /\ <<v, j>> # <<t, Depth(t)>>
      BY <2>1, <2>2, <2>8, <3>3 DEF LockInv, Destroying
    <3> QED BY <3>1, <3>2, <3>3
  <2> QED BY <2>7, <2>8 DEF Destroying
<1> QED BY <1>7, <1>8, <1>9 DEF LockInv

\* Thread t's holds on x become r and w; nothing else changes.
Sets(x, t, r, w) ==
  /\ held' \in [Objects -> [Threads -> [read : Nat, write : Nat]]]
  /\ \A o \in Objects, u \in Threads : o # x \/ u # t => held'[o][u] = held[o][u]
  /\ held'[x][t].read = r /\ held'[x][t].write = w

LEMMA HoldSet ==
  ASSUME TypeOK, NEW x \in Objects, NEW t \in Threads, NEW n \in Nat
  PROVE  /\ held' = [held EXCEPT ![x][t].read = n] => Sets(x, t, n, held[x][t].write)
         /\ held' = [held EXCEPT ![x][t].write = n] => Sets(x, t, held[x][t].read, n)
<1>1. held \in [Objects -> [Threads -> [read : Nat, write : Nat]]]
  BY DEF TypeOK
<1>2. held[x][t] = [read |-> held[x][t].read, write |-> held[x][t].write]
      /\ held[x][t].read \in Nat /\ held[x][t].write \in Nat
  BY <1>1
<1>3. ASSUME NEW g \in [read : Nat, write : Nat],
             held' = [held EXCEPT ![x] = [held[x] EXCEPT ![t] = g]]
      PROVE  Sets(x, t, g.read, g.write)
  BY <1>1, <1>3 DEF Sets
<1>4. ASSUME held' = [held EXCEPT ![x][t].read = n] PROVE Sets(x, t, n, held[x][t].write)
  <2>1. PICK g : g = [held[x][t] EXCEPT !.read = n]
    OBVIOUS
  <2>2. g = [read |-> n, write |-> held[x][t].write]
    BY <1>2, <2>1
  <2>3. held' = [held EXCEPT ![x] = [held[x] EXCEPT ![t] = g]]
    BY <1>4, <2>1
  <2>4. g \in [read : Nat, write : Nat] /\ g.read = n /\ g.write = held[x][t].write
    BY <1>2, <2>2
  <2> QED BY <1>3, <2>3, <2>4
<1>5. ASSUME held' = [held EXCEPT ![x][t].write = n] PROVE Sets(x, t, held[x][t].read, n)
  <2>1. PICK g : g = [held[x][t] EXCEPT !.write = n]
    OBVIOUS
  <2>2. g = [read |-> held[x][t].read, write |-> n]
    BY <1>2, <2>1
  <2>3. held' = [held EXCEPT ![x] = [held[x] EXCEPT ![t] = g]]
    BY <1>5, <2>1
  <2>4. g \in [read : Nat, write : Nat] /\ g.read = held[x][t].read /\ g.write = n
    BY <1>2, <2>2
  <2> QED BY <1>3, <2>3, <2>4
<1> QED BY <1>4, <1>5

\* Taking the lock.
LEMMA LockStep ==
  ASSUME LockInv, NEW t \in Threads, LockRead(t) \/ LockWrite(t)
  PROVE  LockInv'
<1> DEFINE x == Top(t).obj
<1>1. ~Idle(t) /\ Top(t).pc = "lock" /\ TypeOK /\ ptr' = ptr /\ alive' = alive
  BY DEF LockRead, LockWrite, At, LockInv
<1>2. Top(t) \in Record /\ x \in Objects /\ Top(t).op \in Ops
  BY <1>1, TopType DEF Record
<1>3. calls' \in [Threads -> Seq(Record)] /\ Advances(t, "check", Top(t).p)
  BY <1>1, GotoAdvances DEF LockRead, LockWrite, CallPC
<1>4. \/ Top(t).op = "read" /\ CanRead(t, x) /\ held' = [held EXCEPT ![x][t].read = @ + 1]
      \/ Top(t).op # "read" /\ CanWrite(t, x) /\ held' = [held EXCEPT ![x][t].write = @ + 1]
  BY DEF LockRead, LockWrite
<1>5. held \in [Objects -> [Threads -> [read : Nat, write : Nat]]]
  BY <1>1 DEF TypeOK
<1>6. /\ Top(t).op = "read" => Sets(x, t, held[x][t].read + 1, held[x][t].write)
      /\ Top(t).op # "read" => Sets(x, t, held[x][t].read, held[x][t].write + 1)
  <2>1. held[x][t].read \in Nat /\ held[x][t].write \in Nat
    BY <1>2, <1>5
  <2>2. CASE Top(t).op = "read"
    <3>1. PICK n \in Nat : n = held[x][t].read + 1
      BY <2>1
    <3>2. held' = [held EXCEPT ![x][t].read = n]
      BY <1>4, <2>2, <3>1
    <3>3. Sets(x, t, n, held[x][t].write)
      BY <1>1, <1>2, <3>2, HoldSet
    <3> QED BY <2>2, <3>1, <3>3
  <2>3. CASE Top(t).op # "read"
    <3>1. PICK n \in Nat : n = held[x][t].write + 1
      BY <2>1
    <3>2. held' = [held EXCEPT ![x][t].write = n]
      BY <1>4, <2>3, <3>1
    <3>3. Sets(x, t, held[x][t].read, n)
      BY <1>1, <1>2, <3>2, HoldSet
    <3> QED BY <2>3, <3>1, <3>3
  <2> QED BY <2>2, <2>3
<1>7. TypeOK'
  BY <1>1, <1>3, <1>6 DEF TypeOK, Record, Sets
<1>8. LockBalanced'
  <2> SUFFICES ASSUME NEW o \in Objects, NEW u \in Threads
               PROVE  /\ held'[o][u].read = Cardinality(Holding(o, u, {"read"})')
                      /\ held'[o][u].write = Cardinality(Holding(o, u, {"write", "close"})')
    BY DEF LockBalanced
  <2>1. /\ held[o][u].read = Cardinality(Holding(o, u, {"read"}))
        /\ held[o][u].write = Cardinality(Holding(o, u, {"write", "close"}))
    BY DEF LockInv, LockBalanced
  <2>2. \A ops : /\ u = t /\ o = x /\ Top(t).op \in ops
                      => Holding(o, u, ops)' = Holding(o, u, ops) \cup {Depth(t)}
                 /\ ~(u = t /\ o = x /\ Top(t).op \in ops)
                      => Holding(o, u, ops)' = Holding(o, u, ops)
    <3> TAKE ops
    <3>1. PICK pc, p : pc # "lock" /\ Advances(t, pc, p)
      BY <1>3
    <3> QED BY <1>1, <3>1, HoldingGrows
  <2>3. \A ops : Cardinality(Holding(o, t, ops) \cup {Depth(t)}) = Cardinality(Holding(o, t, ops)) + 1
    <3> TAKE ops
    <3>1. Depth(t) \notin Holding(o, t, ops)
      BY <1>1, <1>3, HoldingGrows
    <3>2. IsFiniteSet(Holding(o, t, ops))
      BY <1>1, HoldingFinite
    <3> QED BY <3>1, <3>2, FS_AddElement
  <2>4. CASE u = t /\ o = x /\ Top(t).op = "read"
    BY <1>6, <2>1, <2>2, <2>3, <2>4 DEF Sets
  <2>5. CASE u = t /\ o = x /\ Top(t).op # "read"
    BY <1>2, <1>6, <2>1, <2>2, <2>3, <2>5 DEF Sets, Ops
  <2>6. CASE u # t \/ o # x
    BY <1>6, <2>1, <2>2, <2>6 DEF Sets
  <2> QED BY <2>4, <2>5, <2>6
<1>9. Exclusive'
  <2> SUFFICES ASSUME NEW o \in Objects, NEW u \in Threads, NEW v \in Threads,
                      u # v, held'[o][u].write > 0
               PROVE  held'[o][v] = NoHold
    BY DEF Exclusive
  <2>1. CASE o # x \/ (u # t /\ v # t)
    BY <1>6, <2>1 DEF Sets, LockInv, Exclusive
  <2>2. CASE o = x /\ u = t
    <3>1. CASE Top(t).op = "read"
      BY <1>6, <2>2, <3>1 DEF Sets, LockInv, Exclusive
    <3>2. CASE Top(t).op # "read"
      BY <1>4, <1>6, <2>2, <3>2 DEF Sets, CanWrite
    <3> QED BY <3>1, <3>2
  <2>3. CASE o = x /\ v = t /\ u # t
    <3>1. held'[x][u] = held[x][u] /\ held[x][u].write \in Nat /\ held[x][u].write > 0
      BY <1>2, <1>5, <1>6, <2>3 DEF Sets
    <3>2. held[x][u].write = 0
      BY <1>4, <2>3 DEF CanRead, CanWrite, NoHold
    <3> QED BY <3>1, <3>2
  <2> QED BY <2>1, <2>2, <2>3
<1>10. Destroying' /\ Made'
  BY <1>1, <1>3, DestroyingKept, MadeKept
<1> QED BY <1>7, <1>8, <1>9, <1>10 DEF LockInv

\* Giving it back: the call that leaves holds what it gives back.
LEMMA UnlockStep ==
  ASSUME LockInv, NEW t \in Threads, Unlock(t)
  PROVE  LockInv'
<1> DEFINE x == Top(t).obj
<1>1. ~Idle(t) /\ Top(t).pc = "unlock" /\ TypeOK /\ ptr' = ptr /\ alive' = alive
  BY DEF Unlock, At, LockInv
<1>2. Top(t) \in Record /\ x \in Objects /\ Top(t).op \in Ops /\ Depth(t) \in Nat
  BY <1>1, TopType DEF Record
<1>3. calls' \in [Threads -> Seq(Record)] /\ Leaves(t)
  BY <1>1, Leave DEF Unlock
<1>4. held[x][t].read \in Nat /\ held[x][t].write \in Nat
  BY <1>1, <1>2 DEF TypeOK
<1>5. \A ops : /\ IsFiniteSet(Holding(x, t, ops)) /\ Cardinality(Holding(x, t, ops)) \in Nat
               /\ Depth(t) \in Holding(x, t, ops) <=> Top(t).op \in ops
  <2> TAKE ops
  <2> QED BY <1>1, <1>3, HoldingFinite, HoldingLeaves
<1>6. \A ops : Top(t).op \in ops =>
        Cardinality(Holding(x, t, ops) \ {Depth(t)}) = Cardinality(Holding(x, t, ops)) - 1
  BY <1>5, FS_RemoveElement
<1>7. \A ops : Top(t).op \in ops => Cardinality(Holding(x, t, ops)) > 0
  <2> SUFFICES ASSUME NEW ops, Top(t).op \in ops PROVE Cardinality(Holding(x, t, ops)) > 0
    OBVIOUS
  <2>1. Holding(x, t, ops) # {} /\ Cardinality(Holding(x, t, ops)) \in Nat
    BY <1>5
  <2> QED BY <1>5, <2>1, FS_EmptySet
<1>8. /\ held[x][t].read = Cardinality(Holding(x, t, {"read"}))
      /\ held[x][t].write = Cardinality(Holding(x, t, {"write", "close"}))
  BY <1>2 DEF LockInv, LockBalanced
<1>9. /\ Top(t).op = "read" => Sets(x, t, held[x][t].read - 1, held[x][t].write)
      /\ Top(t).op # "read" => Sets(x, t, held[x][t].read, held[x][t].write - 1)
  <2>1. CASE Top(t).op = "read"
    <3>1. PICK n \in Nat : n = held[x][t].read - 1
      BY <1>4, <1>7, <1>8, <2>1
    <3>2. held' = [held EXCEPT ![x][t].read = n]
      BY <2>1, <3>1 DEF Unlock
    <3>3. Sets(x, t, n, held[x][t].write)
      BY <1>1, <1>2, <3>2, HoldSet
    <3> QED BY <2>1, <3>1, <3>3
  <2>2. CASE Top(t).op # "read"
    <3>1. held[x][t].write > 0
      BY <1>2, <1>7, <1>8, <2>2 DEF Ops
    <3>2. PICK n \in Nat : n = held[x][t].write - 1
      BY <1>4, <3>1
    <3>3. held' = [held EXCEPT ![x][t].write = n]
      BY <2>2, <3>2 DEF Unlock
    <3>4. Sets(x, t, held[x][t].read, n)
      BY <1>1, <1>2, <3>3, HoldSet
    <3> QED BY <2>2, <3>2, <3>4
  <2> QED BY <2>1, <2>2
<1>10. TypeOK'
  BY <1>1, <1>3, <1>9 DEF TypeOK, Record, Sets
<1>11. LockBalanced'
  <2> SUFFICES ASSUME NEW o \in Objects, NEW u \in Threads
               PROVE  /\ held'[o][u].read = Cardinality(Holding(o, u, {"read"})')
                      /\ held'[o][u].write = Cardinality(Holding(o, u, {"write", "close"})')
    BY DEF LockBalanced
  <2>1. /\ held[o][u].read = Cardinality(Holding(o, u, {"read"}))
        /\ held[o][u].write = Cardinality(Holding(o, u, {"write", "close"}))
    BY DEF LockInv, LockBalanced
  <2>2. \A ops : /\ u = t /\ o = x /\ Top(t).op \in ops
                      => Holding(o, u, ops)' = Holding(o, u, ops) \ {Depth(t)}
                 /\ ~(u = t /\ o = x /\ Top(t).op \in ops)
                      => Holding(o, u, ops)' = Holding(o, u, ops)
    <3> TAKE ops
    <3>1. Depth(t) \in Holding(o, t, ops) <=> o = x /\ Top(t).op \in ops
      BY <1>1, <1>3, HoldingLeaves
    <3>2. Holding(o, t, ops)' = Holding(o, t, ops) \ {Depth(t)}
      BY <1>1, <1>3, HoldingLeaves
    <3>3. ASSUME u # t PROVE Holding(o, u, ops)' = Holding(o, u, ops)
      BY <1>3, <3>3 DEF Leaves, Holding, Depth
    <3> QED BY <3>1, <3>2, <3>3
  <2>3. CASE u = t /\ o = x /\ Top(t).op = "read"
    BY <1>6, <1>9, <2>1, <2>2, <2>3 DEF Sets
  <2>4. CASE u = t /\ o = x /\ Top(t).op # "read"
    <3>1. Top(t).op \in {"write", "close"}
      BY <1>2, <2>4 DEF Ops
    <3>2. Holding(o, u, {"read"})' = Holding(o, u, {"read"})
      BY <2>2, <2>4
    <3>3. Cardinality(Holding(o, u, {"write", "close"})') = Cardinality(Holding(o, u, {"write", "close"})) - 1
      BY <1>6, <2>2, <2>4, <3>1
    <3> QED BY <1>9, <2>1, <2>4, <3>2, <3>3 DEF Sets
  <2>5. CASE u # t \/ o # x
    BY <1>9, <2>1, <2>2, <2>5 DEF Sets
  <2> QED BY <2>3, <2>4, <2>5
<1>12. Exclusive'
  <2> SUFFICES ASSUME NEW o \in Objects, NEW u \in Threads, NEW v \in Threads,
                      u # v, held'[o][u].write > 0
               PROVE  held'[o][v] = NoHold
    BY DEF Exclusive
  <2>1. held[o][u].write > 0
    BY <1>4, <1>9 DEF Sets
  <2>2. held[o][v] = NoHold
    BY <2>1 DEF LockInv, Exclusive
  <2>3. ~(o = x /\ v = t)
    BY <1>2, <1>7, <1>8, <2>2 DEF NoHold, Ops
  <2> QED BY <1>9, <2>2, <2>3 DEF Sets
<1>13. \A u \in Threads : \A i \in 1..Depth(u)' : i \in 1..Depth(u) /\ calls'[u][i] = calls[u][i]
  <2>1. \A u \in Threads : Depth(u) \in Nat
    BY <1>1, CallType
  <2> QED BY <1>3, <2>1 DEF Leaves, Depth
<1>14. Destroying' /\ Made'
  BY <1>1, <1>13 DEF LockInv, Destroying, Made
<1> QED BY <1>10, <1>11, <1>12, <1>14 DEF LockInv

\* A new call.
LEMMA CallStep ==
  ASSUME LockInv, NEW t \in Threads, NEW o \in Objects, NEW op \in Ops, Call(t, o, op)
  PROVE  LockInv'
<1>1. calls' \in [Threads -> Seq(Record)] /\ Enters(t, o, op)
  BY Enter DEF LockInv
<1>2. ptr' = ptr /\ held' = held /\ alive' = alive /\ ptr[o] # Unmade
  BY DEF Call
<1>3. TypeOK' /\ Exclusive'
  BY <1>1, <1>2 DEF LockInv, TypeOK, Record, Exclusive
<1>4. LockBalanced'
  <2>1. \A x \in Objects, u \in Threads : \A ops \in SUBSET Ops :
          Holding(x, u, ops)' = Holding(x, u, ops)
    <3> TAKE x \in Objects, u \in Threads
    <3> TAKE ops \in SUBSET Ops
    <3> QED BY <1>1, HoldingEnters DEF LockInv
  <2> QED BY <1>2, <2>1, BalanceKept DEF LockInv
<1>5. \A u \in Threads : \A i \in 1..Depth(u)' :
        \/ i \in 1..Depth(u) /\ calls'[u][i] = calls[u][i]
        \/ calls'[u][i].pc = "lock" /\ calls'[u][i].obj = o
  <2>1. \A u \in Threads : Depth(u) \in Nat
    BY CallType DEF LockInv
  <2>2. \A u \in Threads : \A i \in 1..Depth(u)' :
          i \in 1..Depth(u) \/ (u = t /\ i = Depth(t) + 1)
    BY <1>1, <2>1 DEF Enters, Depth
  <2> QED BY <1>1, <2>2 DEF Enters, Depth
<1>6. Destroying' /\ Made'
  BY <1>2, <1>5 DEF LockInv, Destroying, Made
<1> QED BY <1>3, <1>4, <1>6 DEF LockInv

\* A new object: no call is on it.
LEMMA ConstructStep ==
  ASSUME LockInv, NEW o \in Objects, NEW h \in Handles, Construct(o, h)
  PROVE  LockInv'
<1>1. calls' = calls /\ held' = held /\ ptr[o] = Unmade
      /\ ptr' = [ptr EXCEPT ![o] = h] /\ alive' = alive \cup {h}
  BY DEF Construct
<1>2. TypeOK' /\ Exclusive' /\ LockBalanced'
  <2>1. TypeOK' /\ Exclusive'
    BY <1>1 DEF LockInv, TypeOK, Exclusive
  <2>2. \A x, t, ops : Holding(x, t, ops)' = Holding(x, t, ops)
    BY <1>1 DEF Holding, Depth
  <2> QED BY <1>1, <2>1, <2>2, BalanceKept DEF LockInv
<1>3. \A t \in Threads : \A i \in 1..Depth(t) :
        calls[t][i].obj \in Objects /\ ptr'[calls[t][i].obj] = ptr[calls[t][i].obj]
  BY <1>1, CallType DEF LockInv, Made, TypeOK, Record
<1>4. Destroying' /\ Made'
  BY <1>1, <1>3 DEF LockInv, Destroying, Made, Depth
<1> QED BY <1>2, <1>4 DEF LockInv

LEMMA LockNext == LockInv /\ [Next]_nvars => LockInv'
<1> SUFFICES ASSUME LockInv, [Next]_nvars PROVE LockInv'
  OBVIOUS
<1>1. CASE \E o \in Objects, h \in Handles : Construct(o, h)
  BY <1>1, ConstructStep
<1>2. CASE \E t \in Threads : CallSome(t)
  BY <1>2, CallStep DEF CallSome
<1>3. CASE \E t \in Threads : Proceed(t)
  BY <1>3, QuietSteps, CloseStep, LockStep, UnlockStep DEF Proceed
<1>4. CASE UNCHANGED nvars
  <2>1. TypeOK' /\ Exclusive' /\ Destroying' /\ Made'
    <3>1. ptr' = ptr /\ held' = held /\ calls' = calls /\ alive' = alive
      BY <1>4 DEF nvars
    <3>2. TypeOK'
      BY <3>1 DEF LockInv, TypeOK
    <3>3. Exclusive' /\ Made'
      BY <3>1 DEF LockInv, Exclusive, Made, Depth
    <3>4. Destroying'
      BY <3>1 DEF LockInv, Destroying, Depth
    <3> QED BY <3>2, <3>3, <3>4
  <2>2. \A x, t, ops : Holding(x, t, ops)' = Holding(x, t, ops)
    BY <1>4 DEF nvars, Holding, Depth
  <2> QED BY <1>4, <2>1, <2>2, BalanceKept DEF nvars, LockInv
<1> QED BY <1>1, <1>2, <1>3, <1>4 DEF Next

\* What is known of the lock holds throughout.
THEOREM LockInvariance == Spec => []LockInv
BY LockInit, LockNext, PTL DEF Spec

\* The fields of a NativeObject, its lock and the calls on it have their types.
THEOREM TypeCorrect == Spec => []TypeOK
<1>1. LockInv => TypeOK
  BY DEF LockInv
<1> QED BY <1>1, LockInvariance, PTL

\* Every path out of nativeRead, nativeWrite and close gives back what the call
\* took, whatever the callbacks do.
THEOREM LocksBalance == Spec => []LockBalanced
<1>1. LockInv => LockBalanced
  BY DEF LockInv
<1> QED BY <1>1, LockInvariance, PTL

\* A step that brings no call to destroy brings no new destroyer.
LEMMA NoNewDestroyers ==
  ASSUME NEW o \in Objects,
         \A u \in Threads : \A i \in 1..Depth(u)' :
           calls'[u][i].pc = "destroy" => i \in 1..Depth(u) /\ calls'[u][i] = calls[u][i]
  PROVE  Destroyers(o)' \subseteq Destroyers(o)
<1> SUFFICES ASSUME NEW u \in Destroyers(o)' PROVE u \in Destroyers(o)
  OBVIOUS
<1>1. /\ u \in Threads \X (1..MaxDepth) /\ u[1] \in Threads /\ u[2] \in 1..Depth(u[1])'
      /\ calls'[u[1]][u[2]].obj = o /\ calls'[u[1]][u[2]].pc = "destroy"
  BY DEF Destroyers, InFlight, Uses
<1>2. u[2] \in 1..Depth(u[1]) /\ calls[u[1]][u[2]] = calls'[u[1]][u[2]]
  BY <1>1
<1> QED BY <1>1, <1>2 DEF Destroyers, InFlight, Uses

\* An innermost call that goes on, but not to destroy, is such a step.
LEMMA AdvanceDestroys ==
  ASSUME TypeOK, NEW t \in Threads, ~Idle(t), NEW pc, pc # "destroy", NEW p, Advances(t, pc, p),
         NEW o \in Objects
  PROVE  Destroyers(o)' \subseteq Destroyers(o)
<1>1. \A u \in Threads : \A i \in 1..Depth(u)' :
        calls'[u][i].pc = "destroy" => i \in 1..Depth(u) /\ calls'[u][i] = calls[u][i]
  BY TopType DEF Advances, Depth
<1> QED BY <1>1, NoNewDestroyers

\* The steps that leave the fields alone.
LEMMA DestroyQuiet ==
  ASSUME LockInv, NEW t \in Threads, NEW o \in Objects,
         \/ LockRead(t) \/ LockWrite(t) \/ CheckReleased(t) \/ CheckBorrow(t) \/ FnReturns(t)
         \/ FnConsumes(t) \/ DestroyReturns(t) \/ DestroyThrows(t) \/ Unlock(t) \/ CallSome(t)
  PROVE  ptr' = ptr /\ Destroyers(o)' \subseteq Destroyers(o)
<1>0. TypeOK
  BY DEF LockInv
<1>1. CASE LockRead(t) \/ LockWrite(t)
  <2>1. ~Idle(t) /\ Goto(t, "check") /\ ptr' = ptr
    BY <1>1 DEF LockRead, LockWrite, At
  <2>2. Advances(t, "check", Top(t).p)
    BY <1>0, <2>1, GotoAdvances DEF CallPC
  <2> QED BY <1>0, <2>1, <2>2, AdvanceDestroys
<1>2. CASE CheckReleased(t) \/ FnReturns(t) \/ FnConsumes(t) \/ DestroyReturns(t) \/ DestroyThrows(t)
  <2>1. ~Idle(t) /\ Goto(t, "unlock") /\ ptr' = ptr
    BY <1>2 DEF CheckReleased, FnReturns, FnConsumes, DestroyReturns, DestroyThrows, At
  <2>2. Advances(t, "unlock", Top(t).p)
    BY <1>0, <2>1, GotoAdvances DEF CallPC
  <2> QED BY <1>0, <2>1, <2>2, AdvanceDestroys
<1>3. CASE CheckBorrow(t)
  <2> DEFINE x == Top(t).obj
  <2>1. ~Idle(t) /\ GotoWith(t, "fn", ptr[x]) /\ ptr[x] # Null /\ ptr' = ptr
    BY <1>3 DEF CheckBorrow, At
  <2>2. ptr[x] \in Handles
    <3>1. x \in Objects /\ Depth(t) \in 1..Depth(t) /\ Top(t) = calls[t][Depth(t)]
      BY <1>0, <2>1, TopType DEF Record, Top
    <3> QED BY <1>0, <2>1, <3>1 DEF LockInv, Made, TypeOK
  <2>3. Advances(t, "fn", ptr[x])
    BY <1>0, <2>1, <2>2, GotoAdvances DEF CallPC
  <2> QED BY <1>0, <2>1, <2>3, AdvanceDestroys
<1>4. CASE Unlock(t)
  <2>1. ~Idle(t) /\ ptr' = ptr /\ Leaves(t)
    BY <1>0, <1>4, Leave DEF Unlock, At
  <2>2. \A u \in Threads : Depth(u) \in Nat
    BY <1>0, CallType
  <2>3. \A u \in Threads : \A i \in 1..Depth(u)' : i \in 1..Depth(u) /\ calls'[u][i] = calls[u][i]
    BY <2>1, <2>2 DEF Leaves, Depth
  <2> QED BY <2>1, <2>3, NoNewDestroyers
<1>5. CASE CallSome(t)
  <2>1. PICK x \in Objects, op \in Ops : Call(t, x, op)
    BY <1>5 DEF CallSome
  <2>2. ptr' = ptr /\ Enters(t, x, op)
    BY <1>0, <2>1, Enter DEF Call
  <2>3. \A u \in Threads : Depth(u) \in Nat
    BY <1>0, CallType
  <2>4. \A u \in Threads : \A i \in 1..Depth(u)' :
          i \in 1..Depth(u) \/ (u = t /\ i = Depth(t) + 1)
    BY <2>2, <2>3 DEF Enters, Depth
  <2>5. \A u \in Threads : \A i \in 1..Depth(u)' :
          calls'[u][i].pc = "destroy" => i \in 1..Depth(u) /\ calls'[u][i] = calls[u][i]
    BY <2>2, <2>4 DEF Enters, Depth
  <2> QED BY <2>2, <2>5, NoNewDestroyers
<1> QED BY <1>1, <1>2, <1>3, <1>4, <1>5

\* An object is destroyed at most once in its life, whoever closes it, whether or
\* not destroy throws, and whatever the callbacks do (NativeObject.java:99-101):
\* destroy starts only with a handle that is taken out of the field, and the field
\* is never filled again.
THEOREM DestroyedAtMostOnce == Spec => DestroyedOnce
<1> DEFINE Keeps(o) ==
      /\ ptr[o] = Null => ptr'[o] = Null
      /\ Destroyers(o)' \subseteq Destroyers(o) \/ (ptr[o] \in Handles /\ ptr'[o] = Null)
<1>1. LockInv /\ [Next]_nvars => [\A o \in Objects : Keeps(o)]_nvars
  <2> SUFFICES ASSUME LockInv, Next, NEW o \in Objects PROVE Keeps(o)
    OBVIOUS
  <2>1. TypeOK /\ ptr \in [Objects -> Handles \cup {Null, Unmade}]
    BY DEF LockInv, TypeOK
  <2>2. ASSUME NEW x \in Objects, NEW h \in Handles, Construct(x, h) PROVE Keeps(o)
    <3>1. calls' = calls /\ ptr[x] = Unmade /\ ptr' = [ptr EXCEPT ![x] = h]
      BY <2>2 DEF Construct
    <3>2. Destroyers(o)' \subseteq Destroyers(o)
      BY <3>1, NoNewDestroyers DEF Depth
    <3>3. ptr[o] = Null => ptr'[o] = Null
      BY <2>1, <3>1, NativeAssumption
    <3> QED BY <3>2, <3>3
  <2>3. ASSUME NEW t \in Threads, CheckClose(t) PROVE Keeps(o)
    <3> DEFINE x == Top(t).obj
    <3>1. ~Idle(t) /\ ptr[x] # Null /\ ptr' = [ptr EXCEPT ![x] = Null]
          /\ GotoWith(t, "destroy", ptr[x])
      BY <2>3 DEF CheckClose, At
    <3>2. x \in Objects /\ Depth(t) \in 1..Depth(t) /\ Top(t) = calls[t][Depth(t)]
      BY <2>1, <3>1, TopType DEF Record, Top
    <3>3. ptr[x] \in Handles
      BY <2>1, <3>1, <3>2 DEF LockInv, Made
    <3>4. CASE o = x
      BY <2>1, <3>1, <3>2, <3>3, <3>4
    <3>5. CASE o # x
      <4>1. Advances(t, "destroy", ptr[x])
        BY <2>1, <3>1, <3>3, GotoAdvances DEF CallPC
      <4>2. \A u \in Threads : \A i \in 1..Depth(u)' :
              calls'[u][i].obj = o => i \in 1..Depth(u) /\ calls'[u][i] = calls[u][i]
        BY <3>2, <3>5, <4>1 DEF Advances, Depth
      <4>3. Destroyers(o)' \subseteq Destroyers(o)
        BY <4>2 DEF Destroyers, InFlight, Uses
      <4> QED BY <2>1, <3>1, <3>2, <3>5, <4>3
    <3> QED BY <3>4, <3>5
  <2>4. ASSUME NEW t \in Threads, CallSome(t) \/ Proceed(t), ~CheckClose(t) PROVE Keeps(o)
    BY <2>1, <2>4, DestroyQuiet DEF Proceed
  <2> QED BY <2>2, <2>3, <2>4 DEF Next
<1>2. [][\A o \in Objects : Keeps(o)]_nvars => DestroyedOnce
  BY PTL DEF DestroyedOnce
<1> QED BY <1>1, <1>2, LockInvariance, PTL DEF Spec

-----------------------------------------------------------------------------
(* What the lock protects, if callbacks stay out of the objects and        *)
(* nativeWrite does not free the value (TLC shows what happens otherwise). *)

OneCall == \A t \in Threads : Depth(t) <= 1

\* A handle in a field is alive and in no other field.
FieldsOwn ==
  /\ \A o \in Objects : ptr[o] \in Handles => ptr[o] \in alive
  /\ \A o, x \in Objects : ptr[o] = ptr[x] /\ ptr[o] \in Handles => o = x

\* No two calls destroy the same handle.
DestroyApart ==
  \A t, u \in Threads : \A i \in Uses(t), j \in Uses(u) :
    /\ calls[t][i].pc = "destroy" /\ calls[u][j].pc = "destroy"
    /\ calls[t][i].p = calls[u][j].p
    => t = u /\ i = j

\* A close passes the handle to destroy only.
CloseFrees ==
  \A t \in Threads : \A i \in Uses(t) : calls[t][i].pc = "fn" => calls[t][i].op # "close"

BorrowInv ==
  LockInv /\ OneCall /\ FieldsOwn /\ HandlesAreLive /\ DestroyApart /\ CloseFrees

-----------------------------------------------------------------------------
\* A call that has passed a handle on is past the lock.
LEMMA UseType ==
  ASSUME TypeOK, NEW t \in Threads, NEW i \in Uses(t)
  PROVE  /\ i \in 1..Depth(t) /\ calls[t][i] \in Record
         /\ calls[t][i].pc \in {"fn", "destroy"} /\ calls[t][i].pc # "lock"
BY CallType DEF Uses

\* The lock keeps a write or a close alone on its object.
LEMMA Alone ==
  ASSUME LockInv, NEW t \in Threads, NEW u \in Threads, t # u,
         NEW i \in 1..Depth(t), NEW j \in 1..Depth(u),
         calls[t][i].pc # "lock", calls[u][j].pc # "lock",
         calls[t][i].obj = calls[u][j].obj, calls[t][i].op # "read"
  PROVE  FALSE
<1> DEFINE o == calls[t][i].obj
           W == {"write", "close"}
<1>1. calls[t][i] \in Record /\ calls[u][j] \in Record
  BY CallType DEF LockInv
<1>2. o \in Objects /\ calls[t][i].op \in W /\ calls[u][j].op \in {"read"} \cup W
  BY <1>1 DEF Record, Ops
<1>3. \A v \in Threads : \A ops : Cardinality(Holding(o, v, ops)) = 0 => Holding(o, v, ops) = {}
  BY HoldingFinite, FS_EmptySet DEF LockInv
<1>4. i \in Holding(o, t, W)
  BY <1>2 DEF Holding
<1>5. held[o][t].write \in Nat /\ held[o][t].write = Cardinality(Holding(o, t, W))
  BY <1>2 DEF LockInv, TypeOK, LockBalanced
<1>6. held[o][t].write > 0
  BY <1>3, <1>4, <1>5
<1>7. held[o][u] = NoHold
  BY <1>2, <1>6 DEF LockInv, Exclusive
<1>8. Cardinality(Holding(o, u, {"read"})) = 0 /\ Cardinality(Holding(o, u, W)) = 0
  BY <1>2, <1>7 DEF LockInv, LockBalanced, NoHold
<1>9. Holding(o, u, {"read"}) = {} /\ Holding(o, u, W) = {}
  BY <1>3, <1>8
<1> QED BY <1>2, <1>9 DEF Holding

LEMMA BorrowInit == Init => BorrowInv
<1> SUFFICES ASSUME Init PROVE BorrowInv
  OBVIOUS
<1>1. \A t \in Threads : Depth(t) = 0 /\ Uses(t) = {}
  BY EmptySeq DEF Init, Depth, Uses
<1>2. \A o \in Objects : ptr[o] \notin Handles
  BY NativeAssumption DEF Init
<1> QED BY <1>1, <1>2, LockInit DEF BorrowInv, OneCall, FieldsOwn, HandlesAreLive, DestroyApart, CloseFrees

\* A step that passes no handle on and leaves the handles alone.
LEMMA UsesShrink ==
  ASSUME BorrowInv, ptr' = ptr, alive' = alive,
         \A u \in Threads : \A i \in Uses(u)' : i \in Uses(u) /\ calls'[u][i] = calls[u][i]
  PROVE  FieldsOwn' /\ HandlesAreLive' /\ DestroyApart' /\ CloseFrees'
<1>1. FieldsOwn'
  BY DEF BorrowInv, FieldsOwn
<1>2. HandlesAreLive'
  BY DEF BorrowInv, HandlesAreLive
<1>3. DestroyApart' /\ CloseFrees'
  BY DEF BorrowInv, DestroyApart, CloseFrees
<1> QED BY <1>1, <1>2, <1>3

\* What the steps of a call do to the uses.
LEMMA UsesAdvance ==
  ASSUME TypeOK, NEW t \in Threads, ~Idle(t), NEW pc, NEW p, Advances(t, pc, p)
  PROVE  /\ \A u \in Threads : Depth(u)' = Depth(u)
         /\ \A u \in Threads : \A i \in Uses(u)' :
              \/ i \in Uses(u) /\ calls'[u][i] = calls[u][i]
              \/ u = t /\ i = Depth(t) /\ pc \in {"fn", "destroy"}
         /\ calls'[t][Depth(t)].obj = Top(t).obj /\ calls'[t][Depth(t)].op = Top(t).op
         /\ calls'[t][Depth(t)].pc = pc /\ calls'[t][Depth(t)].p = p
<1>1. \A u \in Threads : Depth(u)' = Depth(u)
  BY DEF Advances, Depth
<1>2. \A u \in Threads : \A i \in 1..Depth(u) : u # t \/ i # Depth(t) => calls'[u][i] = calls[u][i]
  BY DEF Advances, Depth
<1>3. /\ calls'[t][Depth(t)].obj = Top(t).obj /\ calls'[t][Depth(t)].op = Top(t).op
      /\ calls'[t][Depth(t)].pc = pc /\ calls'[t][Depth(t)].p = p
  BY DEF Advances
<1> QED BY <1>1, <1>2, <1>3 DEF Uses

\* Every step but those that pass or free a handle, or make one.
LEMMA PlainSteps ==
  ASSUME BorrowInv, ~Reentrant, NEW t \in Threads,
         \/ CallSome(t) \/ LockRead(t) \/ LockWrite(t) \/ CheckReleased(t)
         \/ FnReturns(t) \/ DestroyThrows(t) \/ Unlock(t)
  PROVE  OneCall' /\ FieldsOwn' /\ HandlesAreLive' /\ DestroyApart' /\ CloseFrees'
<1>1. TypeOK /\ ptr' = ptr /\ alive' = alive
  BY DEF BorrowInv, LockInv, CallSome, Call, LockRead, LockWrite, CheckReleased, FnReturns,
         DestroyThrows, Unlock
<1>2. /\ OneCall'
      /\ \A u \in Threads : \A i \in Uses(u)' : i \in Uses(u) /\ calls'[u][i] = calls[u][i]
  <2>1. CASE CallSome(t)
    <3>1. PICK o \in Objects, op \in Ops : Call(t, o, op)
      BY <2>1 DEF CallSome
    <3>2. Enters(t, o, op)
      BY <1>1, <3>1, Enter
    <3>3. calls[t] = <<>> /\ Depth(t) = 0
      BY <3>1, EmptySeq DEF Call, Idle, Depth
    <3>4. \A u \in Threads : Depth(u) \in Nat
      BY <1>1, CallType
    <3>5. \A u \in Threads : Depth(u)' = IF u = t THEN 1 ELSE Depth(u)
      BY <3>2, <3>3 DEF Enters, Depth
    <3>6. calls'[t][1].pc = "lock"
      BY <3>2, <3>3 DEF Enters
    <3>7. \A u \in Threads : \A i \in 1..Depth(u) : calls'[u][i] = calls[u][i]
      BY <3>2 DEF Enters, Depth
    <3>8. OneCall'
      BY <3>5 DEF BorrowInv, OneCall
    <3>9. ASSUME NEW u \in Threads, NEW i \in Uses(u)'
          PROVE  i \in Uses(u) /\ calls'[u][i] = calls[u][i]
      <4>1. u # t
        BY <3>5, <3>6, <3>9 DEF Uses
      <4> QED BY <3>5, <3>7, <3>9, <4>1 DEF Uses
    <3> QED BY <3>8, <3>9
  <2>2. CASE Unlock(t)
    <3>1. ~Idle(t)
      BY <2>2 DEF Unlock, At
    <3>2. Leaves(t)
      BY <1>1, <2>2, <3>1, Leave DEF Unlock
    <3>3. \A u \in Threads : Depth(u) \in Nat
      BY <1>1, CallType
    <3>4. \A u \in Threads : /\ Depth(u)' <= Depth(u)
                             /\ \A i \in 1..Depth(u)' : i \in 1..Depth(u) /\ calls'[u][i] = calls[u][i]
      BY <3>2, <3>3 DEF Leaves, Depth
    <3>5. \A u \in Threads : Depth(u)' \in Int
      BY <3>2, <3>3 DEF Leaves, Depth
    <3>6. OneCall'
      BY <3>3, <3>4, <3>5 DEF BorrowInv, OneCall
    <3> QED BY <3>4, <3>6 DEF Uses
  <2>3. CASE ~CallSome(t) /\ ~Unlock(t)
    <3>1. ~Idle(t)
      BY <2>3 DEF LockRead, LockWrite, CheckReleased, FnReturns, DestroyThrows, At
    <3>2. Goto(t, "check") \/ Goto(t, "unlock")
      BY <2>3 DEF LockRead, LockWrite, CheckReleased, FnReturns, DestroyThrows
    <3>3. \E pc \in CallPC \ {"fn", "destroy"} : Advances(t, pc, Top(t).p)
      BY <1>1, <3>1, <3>2, GotoAdvances DEF CallPC
    <3>4. PICK pc : pc \notin {"fn", "destroy"} /\ Advances(t, pc, Top(t).p)
      BY <3>3
    <3>5. \A u \in Threads : \A i \in Uses(u)' : i \in Uses(u) /\ calls'[u][i] = calls[u][i]
      BY <1>1, <3>1, <3>4, UsesAdvance
    <3>6. \A u \in Threads : Depth(u)' = Depth(u)
      BY <1>1, <3>1, <3>4, UsesAdvance
    <3> QED BY <3>5, <3>6 DEF BorrowInv, OneCall
  <2> QED BY <2>1, <2>2, <2>3
<1> QED BY <1>1, <1>2, UsesShrink

\* Passing the handle of the field on to the function.
LEMMA BorrowStep ==
  ASSUME BorrowInv, NEW t \in Threads, CheckBorrow(t)
  PROVE  OneCall' /\ FieldsOwn' /\ HandlesAreLive' /\ DestroyApart' /\ CloseFrees'
<1> DEFINE o == Top(t).obj
<1>1. ~Idle(t) /\ TypeOK /\ ptr' = ptr /\ alive' = alive
  BY DEF BorrowInv, LockInv, CheckBorrow, At
<1>2. Top(t) \in Record /\ o \in Objects /\ ptr[o] # Unmade
  BY <1>1, TopType DEF BorrowInv, LockInv, Made, Top, Record
<1>3. ptr[o] \in Handles
  BY <1>1, <1>2 DEF TypeOK, CheckBorrow
<1>4. PICK p : p = ptr[o] /\ Advances(t, "fn", p)
  BY <1>1, <1>3, GotoAdvances DEF CheckBorrow, CallPC
<1>5. /\ \A u \in Threads : Depth(u)' = Depth(u)
      /\ \A u \in Threads : \A i \in Uses(u)' :
           \/ i \in Uses(u) /\ calls'[u][i] = calls[u][i]
           \/ u = t /\ i = Depth(t)
      /\ calls'[t][Depth(t)].obj = o /\ calls'[t][Depth(t)].op # "close"
      /\ calls'[t][Depth(t)].pc = "fn" /\ calls'[t][Depth(t)].p = p
  BY <1>1, <1>4, UsesAdvance DEF CheckBorrow
<1>6. OneCall' /\ FieldsOwn'
  BY <1>1, <1>5 DEF BorrowInv, OneCall, FieldsOwn
<1>7. p \in alive /\ ptr[o] = p /\ \A x \in Objects : ptr[x] = p => x = o
  BY <1>2, <1>3, <1>4 DEF BorrowInv, FieldsOwn
<1>8. HandlesAreLive'
  <2> SUFFICES ASSUME NEW u \in Threads, NEW i \in Uses(u)'
               PROVE  /\ calls'[u][i].p \in alive'
                      /\ calls'[u][i].pc = "fn" => ptr'[calls'[u][i].obj] = calls'[u][i].p
                      /\ \A x \in Objects : ptr'[x] = calls'[u][i].p => x = calls'[u][i].obj
    BY DEF HandlesAreLive
  <2>1. CASE i \in Uses(u) /\ calls'[u][i] = calls[u][i]
    BY <1>1, <2>1 DEF BorrowInv, HandlesAreLive
  <2>2. CASE u = t /\ i = Depth(t)
    BY <1>1, <1>5, <1>7, <2>2
  <2> QED BY <1>5, <2>1, <2>2
<1>9. DestroyApart' /\ CloseFrees'
  BY <1>5 DEF BorrowInv, DestroyApart, CloseFrees
<1> QED BY <1>6, <1>8, <1>9

\* Taking the handle out of the field: the lock keeps other calls off it.
LEMMA TakeStep ==
  ASSUME BorrowInv, NEW t \in Threads, CheckClose(t)
  PROVE  OneCall' /\ FieldsOwn' /\ HandlesAreLive' /\ DestroyApart' /\ CloseFrees'
<1> DEFINE o == Top(t).obj
<1>1. /\ ~Idle(t) /\ TypeOK /\ alive' = alive /\ LockInv
      /\ ptr' = [ptr EXCEPT ![o] = Null]
      /\ Top(t).op = "close" /\ Top(t).pc = "check"
  BY DEF BorrowInv, LockInv, CheckClose, At
<1>2. /\ Top(t) \in Record /\ o \in Objects /\ ptr[o] # Unmade
      /\ Depth(t) \in 1..Depth(t) /\ Top(t) = calls[t][Depth(t)]
  BY <1>1, TopType DEF BorrowInv, LockInv, Made, Top, Record
<1>3. ptr[o] \in Handles
  BY <1>1, <1>2 DEF TypeOK, CheckClose
<1>4. PICK p : p = ptr[o] /\ Advances(t, "destroy", p)
  BY <1>1, <1>3, GotoAdvances DEF CheckClose, CallPC
<1>5. /\ \A u \in Threads : Depth(u)' = Depth(u)
      /\ \A u \in Threads : \A i \in Uses(u)' :
           \/ i \in Uses(u) /\ calls'[u][i] = calls[u][i]
           \/ u = t /\ i = Depth(t)
      /\ calls'[t][Depth(t)].obj = o
      /\ calls'[t][Depth(t)].pc = "destroy" /\ calls'[t][Depth(t)].p = p
  BY <1>1, <1>4, UsesAdvance
<1>6. /\ \A x \in Objects : x # o => ptr'[x] = ptr[x]
      /\ ptr'[o] = Null /\ Null \notin Handles
  BY <1>1, <1>2, NativeAssumption DEF TypeOK
<1>7. OneCall' /\ FieldsOwn'
  BY <1>1, <1>5, <1>6 DEF BorrowInv, OneCall, FieldsOwn
<1>8. p \in alive /\ \A x \in Objects : ptr'[x] # p
  BY <1>2, <1>3, <1>4, <1>6 DEF BorrowInv, FieldsOwn
<1>9. ASSUME NEW u \in Threads, NEW i \in Uses(u), i \in 1..Depth(u)
      PROVE  calls[u][i].obj # o
  <2>1. i = 1 /\ Depth(t) = 1
    BY <1>2, <1>9, CallType, <1>1 DEF BorrowInv, OneCall
  <2>2. calls[u][i].pc \in {"fn", "destroy"} /\ calls[u][i].pc # "lock"
    BY DEF Uses
  <2>3. u # t
    BY <1>1, <1>2, <2>1, <2>2
  <2> QED BY <1>1, <1>2, <1>9, <2>2, <2>3, Alone
<1>10. \A u \in Threads : \A i \in Uses(u) :
         calls[u][i].obj \in Objects /\ calls[u][i].p \in Handles /\ calls[u][i].p # p
  <2> SUFFICES ASSUME NEW u \in Threads, NEW i \in Uses(u)
               PROVE  calls[u][i].obj \in Objects /\ calls[u][i].p \in Handles /\ calls[u][i].p # p
    OBVIOUS
  <2>1. i \in 1..Depth(u) /\ calls[u][i] \in Record
    BY <1>1, UseType
  <2>2. calls[u][i].obj # o
    BY <1>9, <2>1
  <2>3. calls[u][i].p \in alive /\ (ptr[o] = calls[u][i].p => o = calls[u][i].obj)
    BY <1>2 DEF BorrowInv, HandlesAreLive
  <2> QED BY <1>1, <1>4, <2>1, <2>2, <2>3 DEF Record, TypeOK
<1>11. HandlesAreLive'
  <2> SUFFICES ASSUME NEW u \in Threads, NEW i \in Uses(u)'
               PROVE  /\ calls'[u][i].p \in alive'
                      /\ calls'[u][i].pc = "fn" => ptr'[calls'[u][i].obj] = calls'[u][i].p
                      /\ \A x \in Objects : ptr'[x] = calls'[u][i].p => x = calls'[u][i].obj
    BY DEF HandlesAreLive
  <2>1. CASE i \in Uses(u) /\ calls'[u][i] = calls[u][i]
    <3>1. calls[u][i].obj # o /\ calls[u][i].obj \in Objects /\ calls[u][i].p \in Handles
      BY <1>9, <1>10, <2>1 DEF Uses
    <3> QED BY <1>1, <1>6, <2>1, <3>1 DEF BorrowInv, HandlesAreLive
  <2>2. CASE u = t /\ i = Depth(t)
    BY <1>1, <1>5, <1>8, <2>2
  <2> QED BY <1>5, <2>1, <2>2
<1>12. DestroyApart'
  <2> SUFFICES ASSUME NEW u \in Threads, NEW v \in Threads, NEW i \in Uses(u)', NEW j \in Uses(v)',
                      calls'[u][i].pc = "destroy", calls'[v][j].pc = "destroy",
                      calls'[u][i].p = calls'[v][j].p
               PROVE  u = v /\ i = j
    BY DEF DestroyApart
  <2>1. CASE (u = t /\ i = Depth(t)) \/ (v = t /\ j = Depth(t))
    BY <1>5, <1>10, <2>1
  <2>2. CASE ~((u = t /\ i = Depth(t)) \/ (v = t /\ j = Depth(t)))
    BY <1>5, <2>2 DEF BorrowInv, DestroyApart
  <2> QED BY <2>1, <2>2
<1>13. CloseFrees'
  BY <1>5 DEF BorrowInv, CloseFrees
<1> QED BY <1>7, <1>11, <1>12, <1>13

\* Freeing the value: nobody else has its handle.
LEMMA FreeStep ==
  ASSUME BorrowInv, NEW t \in Threads, DestroyReturns(t)
  PROVE  OneCall' /\ FieldsOwn' /\ HandlesAreLive' /\ DestroyApart' /\ CloseFrees'
<1> DEFINE o == Top(t).obj
           q == Top(t).p
<1>1. ~Idle(t) /\ TypeOK /\ LockInv /\ ptr' = ptr /\ alive' = alive \ {q} /\ Top(t).pc = "destroy"
  BY DEF BorrowInv, LockInv, DestroyReturns, At
<1>2. /\ Top(t) \in Record /\ o \in Objects
      /\ Depth(t) \in 1..Depth(t) /\ Top(t) = calls[t][Depth(t)]
  BY <1>1, TopType DEF Top, Record
<1>3. Depth(t) \in Uses(t)
  BY <1>1, <1>2 DEF Uses
<1>4. Advances(t, "unlock", q)
  BY <1>1, GotoAdvances DEF DestroyReturns, CallPC
<1>5. \A u \in Threads : Depth(u)' = Depth(u)
  BY <1>1, <1>4, UsesAdvance
<1>6. \A u \in Threads : \A i \in Uses(u)' : i \in Uses(u) /\ calls'[u][i] = calls[u][i]
                                              /\ <<u, i>> # <<t, Depth(t)>>
  <2>1. PICK pc : pc = "unlock" /\ Advances(t, pc, q)
    BY <1>4
  <2>2. calls'[t][Depth(t)].pc = "unlock"
    BY <1>1, <2>1, UsesAdvance
  <2>3. \A u \in Threads : \A i \in Uses(u)' : i \in Uses(u) /\ calls'[u][i] = calls[u][i]
    BY <1>1, <2>1, UsesAdvance
  <2> QED BY <1>1, <1>2, <2>2, <2>3
<1>7. ptr[o] = Null
  BY <1>1, <1>2 DEF LockInv, Destroying
<1>8. q \in alive /\ \A x \in Objects : ptr[x] # q
  <2>1. q \in alive /\ \A x \in Objects : ptr[x] = q => x = o
    BY <1>2, <1>3 DEF BorrowInv, HandlesAreLive
  <2>2. q # Null
    BY <1>1, <2>1, NativeAssumption DEF TypeOK
  <2> QED BY <1>7, <2>1, <2>2
<1>9. OneCall' /\ FieldsOwn' /\ DestroyApart' /\ CloseFrees'
  BY <1>1, <1>5, <1>6, <1>8 DEF BorrowInv, OneCall, FieldsOwn, DestroyApart, CloseFrees
<1>10. HandlesAreLive'
  <2> SUFFICES ASSUME NEW u \in Threads, NEW i \in Uses(u)'
               PROVE  /\ calls'[u][i].p \in alive'
                      /\ calls'[u][i].pc = "fn" => ptr'[calls'[u][i].obj] = calls'[u][i].p
                      /\ \A x \in Objects : ptr'[x] = calls'[u][i].p => x = calls'[u][i].obj
    BY DEF HandlesAreLive
  <2>1. i \in Uses(u) /\ calls'[u][i] = calls[u][i] /\ <<u, i>> # <<t, Depth(t)>>
    BY <1>6
  <2>2. calls[u][i] \in Record /\ calls[u][i].pc \in {"fn", "destroy"}
    BY <1>1, <2>1, UseType
  <2>3. calls[u][i].p # q
    <3>1. CASE calls[u][i].pc = "fn"
      BY <1>8, <2>1, <2>2, <3>1 DEF BorrowInv, HandlesAreLive, Record
    <3>2. CASE calls[u][i].pc = "destroy"
      BY <1>1, <1>2, <1>3, <2>1, <3>2 DEF BorrowInv, DestroyApart
    <3> QED BY <2>2, <3>1, <3>2
  <2> QED BY <1>1, <2>1, <2>3 DEF BorrowInv, HandlesAreLive
<1> QED BY <1>9, <1>10

\* A new object owns a handle that nothing else has.
LEMMA MakeStep ==
  ASSUME BorrowInv, NEW o \in Objects, NEW h \in Handles, Construct(o, h)
  PROVE  OneCall' /\ FieldsOwn' /\ HandlesAreLive' /\ DestroyApart' /\ CloseFrees'
<1>1. /\ calls' = calls /\ ptr[o] = Unmade /\ h \notin alive /\ TypeOK
      /\ ptr' = [ptr EXCEPT ![o] = h] /\ alive' = alive \cup {h}
  BY DEF Construct, BorrowInv, LockInv
<1>2. (\A x \in Objects : x # o => ptr'[x] = ptr[x]) /\ ptr'[o] = h
  BY <1>1 DEF TypeOK
<1>3. \A u \in Threads : Uses(u)' = Uses(u) /\ Depth(u)' = Depth(u)
  BY <1>1 DEF Uses, Depth
<1>4. OneCall' /\ DestroyApart' /\ CloseFrees'
  BY <1>1, <1>3 DEF BorrowInv, OneCall, DestroyApart, CloseFrees
<1>5. \A x \in Objects : ptr[x] # h
  BY <1>1 DEF BorrowInv, FieldsOwn
<1>6. FieldsOwn'
  BY <1>1, <1>2, <1>5 DEF BorrowInv, FieldsOwn
<1>7. HandlesAreLive'
  <2> SUFFICES ASSUME NEW u \in Threads, NEW i \in Uses(u)
               PROVE  /\ calls[u][i].p \in alive'
                      /\ calls[u][i].pc = "fn" => ptr'[calls[u][i].obj] = calls[u][i].p
                      /\ \A x \in Objects : ptr'[x] = calls[u][i].p => x = calls[u][i].obj
    BY <1>1, <1>3 DEF HandlesAreLive
  <2>1. i \in 1..Depth(u) /\ calls[u][i] \in Record
    BY <1>1, UseType
  <2>2. calls[u][i].obj \in Objects /\ calls[u][i].obj # o
    BY <1>1, <2>1 DEF BorrowInv, LockInv, Made, Record
  <2> QED BY <1>1, <1>2, <2>2 DEF BorrowInv, HandlesAreLive
<1> QED BY <1>4, <1>6, <1>7

LEMMA BorrowNext == ~Reentrant /\ ~Consuming /\ BorrowInv /\ [Next]_nvars => BorrowInv'
<1> SUFFICES ASSUME ~Reentrant, ~Consuming, BorrowInv, [Next]_nvars PROVE BorrowInv'
  OBVIOUS
<1>1. LockInv'
  BY LockNext DEF BorrowInv
<1>2. OneCall' /\ FieldsOwn' /\ HandlesAreLive' /\ DestroyApart' /\ CloseFrees'
  <2>1. CASE \E o \in Objects, h \in Handles : Construct(o, h)
    BY <2>1, MakeStep
  <2>2. CASE \E t \in Threads : CallSome(t) \/ Proceed(t)
    <3>1. PICK t \in Threads : CallSome(t) \/ Proceed(t)
      BY <2>2
    <3>2. ~FnConsumes(t)
      BY DEF FnConsumes
    <3>3. CASE CheckBorrow(t)
      BY <3>3, BorrowStep
    <3>4. CASE CheckClose(t)
      BY <3>4, TakeStep
    <3>5. CASE DestroyReturns(t)
      BY <3>5, FreeStep
    <3> QED BY <3>1, <3>2, <3>3, <3>4, <3>5, PlainSteps DEF Proceed
  <2>3. CASE UNCHANGED nvars
    <3>1. ptr' = ptr /\ calls' = calls /\ alive' = alive
      BY <2>3 DEF nvars
    <3>2. \A u \in Threads : Uses(u)' = Uses(u) /\ Depth(u)' = Depth(u)
      BY <3>1 DEF Uses, Depth
    <3> QED BY <3>1, <3>2, UsesShrink DEF BorrowInv, OneCall
  <2> QED BY <2>1, <2>2, <2>3 DEF Next
<1> QED BY <1>1, <1>2 DEF BorrowInv

\* What the lock protects is protected throughout.
THEOREM BorrowInvariance ==
  ASSUME ~Reentrant, ~Consuming
  PROVE  Spec => []BorrowInv
BY BorrowInit, BorrowNext, PTL DEF Spec

\* A handle that is in native code is alive and the field it came from has not
\* been given another one: no use after free through a NativeObject.
THEOREM HandlesStayLive ==
  ASSUME ~Reentrant, ~Consuming
  PROVE  Spec => []HandlesAreLive
<1>1. BorrowInv => HandlesAreLive
  BY DEF BorrowInv
<1> QED BY <1>1, BorrowInvariance, PTL

\* A write, or a close that frees, is the only call in flight on its object.
THEOREM BorrowRulesHold ==
  ASSUME ~Reentrant, ~Consuming
  PROVE  Spec => []BorrowRules
<1>1. BorrowInv => BorrowRules
  <2> SUFFICES ASSUME BorrowInv, NEW o \in Objects, NEW u \in InFlight(o), NEW v \in InFlight(o),
                      calls[u[1]][u[2]].op # "read"
               PROVE  u = v
    BY DEF BorrowRules
  <2>1. \A w \in InFlight(o) :
          /\ w = <<w[1], w[2]>> /\ w[1] \in Threads /\ w[2] \in 1..Depth(w[1]) /\ w[2] \in Nat
          /\ calls[w[1]][w[2]].obj = o /\ calls[w[1]][w[2]].pc # "lock"
    BY DEF InFlight, Uses
  <2>2. \A w \in InFlight(o) : w[2] = 1
    BY <2>1, CallType DEF BorrowInv, LockInv, OneCall
  <2>3. CASE u[1] = v[1]
    BY <2>1, <2>2, <2>3
  <2>4. CASE u[1] # v[1]
    BY <2>1, <2>4, Alone DEF BorrowInv
  <2> QED BY <2>3, <2>4
<1> QED BY <1>1, BorrowInvariance, PTL

-----------------------------------------------------------------------------
(* A NativeObject is a BorrowCell.                                         *)

State   == [o \in Objects |-> IF ptr[o] = Unmade THEN "unmade"
                              ELSE IF ptr[o] = Null THEN "taken" ELSE "held"]
Readers == [o \in Objects |-> Users(o, "read")]
Writer  == [o \in Objects |-> WriterOf(Users(o, "write"))]

LEMMA NoWriter == WriterOf({}) = Null
BY DEF WriterOf

LEMMA OneWriter == ASSUME NEW t \in Threads PROVE WriterOf({t}) = t
BY DEF WriterOf

\* Who uses which object when the innermost call of t moves.
LEMMA UsersMove ==
  ASSUME TypeOK, OneCall, NEW t \in Threads, ~Idle(t), NEW pc, NEW p, Advances(t, pc, p),
         NEW o, NEW op
  PROVE  /\ \A u \in Threads : u # t => (u \in Users(o, op)' <=> u \in Users(o, op))
         /\ t \in Users(o, op)' <=> Top(t).obj = o /\ Top(t).op = op /\ pc = "fn"
         /\ t \in Users(o, op)  <=> Top(t).obj = o /\ Top(t).op = op /\ Top(t).pc = "fn"
<1>1. Depth(t) = 1 /\ Top(t) = calls[t][1]
  BY TopType DEF OneCall, Top
<1>2. \A u \in Threads : Depth(u)' = Depth(u)
  BY DEF Advances, Depth
<1>3. \A u \in Threads : u # t => \A i \in 1..Depth(u) : calls'[u][i] = calls[u][i]
  BY DEF Advances, Depth
<1>4. calls'[t][1] = [obj |-> Top(t).obj, op |-> Top(t).op, pc |-> pc, p |-> p]
  BY <1>1 DEF Advances
<1>5. \A u \in Threads : u # t => (u \in Users(o, op)' <=> u \in Users(o, op))
  BY <1>2, <1>3 DEF Users
<1>6. t \in Users(o, op)' <=> Top(t).obj = o /\ Top(t).op = op /\ pc = "fn"
  BY <1>1, <1>2, <1>4 DEF Users
<1>7. t \in Users(o, op)  <=> Top(t).obj = o /\ Top(t).op = op /\ Top(t).pc = "fn"
  BY <1>1 DEF Users
<1> QED BY <1>5, <1>6, <1>7

\* A call that uses an object excludes a writer, and a closer.
LEMMA UsersAlone ==
  ASSUME LockInv, OneCall, NEW t \in Threads, ~Idle(t), Top(t).pc # "lock",
         NEW u \in Threads, NEW op, u \in Users(Top(t).obj, op), u # t
  PROVE  op = "read" /\ Top(t).op = "read"
<1>1. Depth(t) \in 1..Depth(t) /\ Top(t) = calls[t][Depth(t)]
  BY TopType DEF LockInv, Top
<1>2. PICK i \in 1..Depth(u) : calls[u][i].obj = Top(t).obj /\ calls[u][i].op = op /\ calls[u][i].pc = "fn"
  BY DEF Users
<1>3. calls[u][i].pc # "lock"
  BY <1>2
<1> QED BY <1>1, <1>2, <1>3, Alone

\* Steps that change neither a field nor who uses an object.
LEMMA CellSame ==
  ASSUME ptr' = ptr, \A o, op : Users(o, op)' = Users(o, op)
  PROVE  UNCHANGED Cell!cvars
<1>1. State' = State /\ Readers' = Readers /\ Writer' = Writer
  BY DEF State, Readers, Writer
<1> QED BY <1>1 DEF Cell!cvars, State, Readers, Writer

LEMMA CellInit == Init => Cell!Init
<1> SUFFICES ASSUME Init PROVE Cell!Init
  OBVIOUS
<1>1. \A t \in Threads : Depth(t) = 0
  BY EmptySeq DEF Init, Depth
<1>2. \A o, op : Users(o, op) = {}
  BY <1>1 DEF Users
<1>3. State = [o \in Objects |-> "unmade"]
  BY DEF Init, State
<1>4. Readers = [o \in Objects |-> {}] /\ Writer = [o \in Objects |-> Null]
  BY <1>2, NoWriter DEF Readers, Writer
<1> QED BY <1>3, <1>4 DEF Cell!Init, State, Readers, Writer

\* Lending the object.
LEMMA CellLend ==
  ASSUME BorrowInv, NEW t \in Threads, CheckBorrow(t)
  PROVE  Cell!Next
<1>0. PICK o, op : o = Top(t).obj /\ op = Top(t).op
  OBVIOUS
<1>1. ~Idle(t) /\ Top(t).pc = "check" /\ TypeOK /\ LockInv /\ OneCall /\ ptr' = ptr
  BY DEF BorrowInv, LockInv, CheckBorrow, At
<1>2. Top(t) \in Record /\ o \in Objects /\ op \in {"read", "write"} /\ ptr[o] # Unmade
  BY <1>0, <1>1, TopType DEF CheckBorrow, LockInv, Made, Top, Record, Ops
<1>3. ptr[o] \in Handles /\ ptr[o] # Null
  BY <1>0, <1>1, <1>2 DEF TypeOK, CheckBorrow
<1>4. PICK pc, p : pc = "fn" /\ Advances(t, pc, p)
  BY <1>0, <1>1, <1>3, GotoAdvances DEF CheckBorrow, CallPC
<1>5. /\ Users(o, op)' = Users(o, op) \cup {t}
      /\ \A x, k : x # o \/ k # op => Users(x, k)' = Users(x, k)
      /\ \A x, k : t \notin Users(x, k)
  <2>1. \A x, k : /\ \A u \in Threads : u # t => (u \in Users(x, k)' <=> u \in Users(x, k))
                  /\ t \in Users(x, k)' <=> o = x /\ op = k
                  /\ t \notin Users(x, k)
    <3> TAKE x, k
    <3> QED BY <1>0, <1>1, <1>4, UsersMove
  <2>2. \A x, k : Users(x, k) \subseteq Threads /\ Users(x, k)' \subseteq Threads
    BY DEF Users
  <2>3. \A x, k : x # o \/ k # op => Users(x, k)' = Users(x, k)
    BY <2>1, <2>2
  <2>4. Users(o, op)' = Users(o, op) \cup {t}
    BY <2>1, <2>2
  <2> QED BY <2>1, <2>3, <2>4
<1>6. Users(o, "write") = {} /\ (op = "write" => Users(o, "read") = {})
  <2>1. \A k : \A u \in Users(o, k) : u \in Threads /\ u # t
    BY <1>5 DEF Users
  <2>2. \A k : \A u \in Users(o, k) : k = "read" /\ op = "read"
    <3> TAKE k
    <3> TAKE u \in Users(o, k)
    <3> QED BY <1>0, <1>1, <2>1, UsersAlone
  <2> QED BY <2>2
<1>7. State' = State /\ State[o] = "held" /\ Writer[o] = Null
  BY <1>1, <1>2, <1>3, <1>6, NoWriter DEF State, Writer
<1>8. CASE op = "read"
  <2>1. Readers' = [Readers EXCEPT ![o] = @ \cup {t}]
    <3>1. \A x \in Objects : Users(x, "read")' = IF x = o THEN Users(x, "read") \cup {t}
                                                ELSE Users(x, "read")
      BY <1>5, <1>8
    <3> QED BY <1>2, <3>1 DEF Readers
  <2>2. Writer' = Writer
    BY <1>5, <1>8 DEF Writer
  <2>3. Cell!Lend(t, o)
    BY <1>7, <2>1, <2>2 DEF Cell!Lend, State, Readers, Writer
  <2>4. \E u \in Threads : \/ Cell!Lend(u, o) \/ Cell!GiveBack(u, o)
                           \/ Cell!LendMut(u, o) \/ Cell!GiveBackMut(u, o)
    BY <2>3
  <2> QED BY <1>2, <2>4 DEF Cell!Next
<1>9. CASE op = "write"
  <2>1. Readers' = Readers /\ Readers[o] = {}
    BY <1>2, <1>5, <1>6, <1>9 DEF Readers
  <2>2. Users(o, "write")' = Users(o, "write") \cup {t}
    BY <1>5, <1>9
  <2>3. WriterOf(Users(o, "write")') = t
    BY <1>6, <2>2, OneWriter
  <2>4. Writer' = [Writer EXCEPT ![o] = t]
    <3>1. \A x \in Objects : WriterOf(Users(x, "write")')
                               = IF x = o THEN t ELSE WriterOf(Users(x, "write"))
      BY <1>5, <2>3
    <3> QED BY <1>2, <3>1 DEF Writer
  <2>5. Cell!LendMut(t, o)
    BY <1>7, <2>1, <2>4 DEF Cell!LendMut, State, Readers, Writer
  <2>6. \E u \in Threads : \/ Cell!Lend(u, o) \/ Cell!GiveBack(u, o)
                           \/ Cell!LendMut(u, o) \/ Cell!GiveBackMut(u, o)
    BY <2>5
  <2> QED BY <1>2, <2>6 DEF Cell!Next
<1> QED BY <1>2, <1>8, <1>9

\* Giving it back.
LEMMA CellGiveBack ==
  ASSUME BorrowInv, NEW t \in Threads, FnReturns(t)
  PROVE  Cell!Next
<1>0. PICK o, op : o = Top(t).obj /\ op = Top(t).op
  OBVIOUS
<1>1. ~Idle(t) /\ Top(t).pc = "fn" /\ TypeOK /\ LockInv /\ OneCall /\ ptr' = ptr
  BY DEF BorrowInv, LockInv, FnReturns, At
<1>2. Top(t) \in Record /\ o \in Objects /\ op \in Ops /\ Top(t) = calls[t][Depth(t)]
      /\ Depth(t) \in 1..Depth(t)
  BY <1>0, <1>1, TopType DEF Top, Record
<1>3. PICK pc, p : pc = "unlock" /\ Advances(t, pc, p)
  BY <1>1, GotoAdvances DEF FnReturns, CallPC
<1>4. /\ Users(o, op)' = Users(o, op) \ {t} /\ t \in Users(o, op)
      /\ \A x, k : x # o \/ k # op => Users(x, k)' = Users(x, k)
  <2>1. \A x, k : /\ \A u \in Threads : u # t => (u \in Users(x, k)' <=> u \in Users(x, k))
                  /\ t \notin Users(x, k)'
                  /\ t \in Users(x, k) <=> o = x /\ op = k
    <3> TAKE x, k
    <3> QED BY <1>0, <1>1, <1>3, UsersMove
  <2>2. \A x, k : Users(x, k) \subseteq Threads /\ Users(x, k)' \subseteq Threads
    BY DEF Users
  <2>3. \A x, k : x # o \/ k # op => Users(x, k)' = Users(x, k)
    BY <2>1, <2>2
  <2>4. Users(o, op)' = Users(o, op) \ {t}
    BY <2>1, <2>2
  <2> QED BY <2>1, <2>3, <2>4
<1>5. State' = State
  BY <1>1 DEF State
<1>6. CASE op = "read"
  <2>1. Readers' = [Readers EXCEPT ![o] = @ \ {t}]
    <3>1. \A x \in Objects : Users(x, "read")' = IF x = o THEN Users(x, "read") \ {t}
                                                ELSE Users(x, "read")
      BY <1>4, <1>6
    <3> QED BY <1>2, <3>1 DEF Readers
  <2>2. Writer' = Writer
    BY <1>4, <1>6 DEF Writer
  <2>3. t \in Readers[o]
    BY <1>2, <1>4, <1>6 DEF Readers
  <2>4. Cell!GiveBack(t, o)
    BY <1>5, <2>1, <2>2, <2>3 DEF Cell!GiveBack, State, Readers, Writer
  <2>5. \E u \in Threads : \/ Cell!Lend(u, o) \/ Cell!GiveBack(u, o)
                           \/ Cell!LendMut(u, o) \/ Cell!GiveBackMut(u, o)
    BY <2>4
  <2> QED BY <1>2, <2>5 DEF Cell!Next
<1>7. CASE op # "read"
  <2>1. op = "write"
    <3>1. op # "close"
      BY <1>0, <1>1, <1>2 DEF BorrowInv, CloseFrees, Uses
    <3> QED BY <1>2, <1>7, <3>1 DEF Ops
  <2>2. Users(o, "write") = {t}
    <3>1. ASSUME NEW u \in Users(o, "write"), u # t PROVE FALSE
      <4>1. u \in Threads
        BY DEF Users
      <4> QED BY <1>0, <1>1, <2>1, <3>1, <4>1, UsersAlone
    <3> QED BY <1>4, <2>1, <3>1
  <2>3. Users(o, "write")' = {}
    BY <1>4, <2>1, <2>2
  <2>4. Writer' = [Writer EXCEPT ![o] = Null]
    <3>1. \A x \in Objects : WriterOf(Users(x, "write")')
                               = IF x = o THEN Null ELSE WriterOf(Users(x, "write"))
      BY <1>4, <2>1, <2>3, NoWriter
    <3> QED BY <1>2, <3>1 DEF Writer
  <2>5. Writer[o] = t
    BY <1>2, <2>2, OneWriter DEF Writer
  <2>6. Readers' = Readers
    BY <1>4, <2>1 DEF Readers
  <2>7. Cell!GiveBackMut(t, o)
    BY <1>5, <2>4, <2>5, <2>6 DEF Cell!GiveBackMut, State, Readers, Writer
  <2>8. \E u \in Threads : \/ Cell!Lend(u, o) \/ Cell!GiveBack(u, o)
                           \/ Cell!LendMut(u, o) \/ Cell!GiveBackMut(u, o)
    BY <2>7
  <2> QED BY <1>2, <2>8 DEF Cell!Next
<1> QED BY <1>6, <1>7

\* Taking it out for good.
LEMMA CellTake ==
  ASSUME BorrowInv, NEW t \in Threads, CheckClose(t)
  PROVE  Cell!Next
<1>0. PICK o, op : o = Top(t).obj /\ op = Top(t).op
  OBVIOUS
<1>1. /\ ~Idle(t) /\ Top(t).pc = "check" /\ op = "close" /\ TypeOK /\ LockInv /\ OneCall
      /\ ptr' = [ptr EXCEPT ![o] = Null]
  BY <1>0 DEF BorrowInv, LockInv, CheckClose, At
<1>2. Top(t) \in Record /\ o \in Objects /\ ptr[o] # Unmade
  BY <1>0, <1>1, TopType DEF LockInv, Made, Top, Record
<1>3. ptr[o] \in Handles /\ ptr[o] # Null
  BY <1>0, <1>1, <1>2 DEF TypeOK, CheckClose
<1>4. PICK pc, p : pc = "destroy" /\ Advances(t, pc, p)
  BY <1>0, <1>1, <1>3, GotoAdvances DEF CheckClose, CallPC
<1>5. \A x, k : Users(x, k)' = Users(x, k) /\ t \notin Users(x, k)
  <2>1. \A x, k : /\ \A u \in Threads : u # t => (u \in Users(x, k)' <=> u \in Users(x, k))
                  /\ t \notin Users(x, k)' /\ t \notin Users(x, k)
    <3> TAKE x, k
    <3> QED BY <1>1, <1>4, UsersMove
  <2>2. \A x, k : Users(x, k) \subseteq Threads /\ Users(x, k)' \subseteq Threads
    BY DEF Users
  <2> QED BY <2>1, <2>2
<1>6. \A k : Users(o, k) = {}
  <2> TAKE k
  <2>1. ASSUME NEW u \in Users(o, k) PROVE FALSE
    <3>1. u \in Threads /\ u # t
      BY <1>5 DEF Users
    <3> QED BY <1>0, <1>1, <3>1, UsersAlone
  <2> QED BY <2>1
<1>7. State' = [State EXCEPT ![o] = "taken"] /\ State[o] = "held"
  <2>1. ptr'[o] = Null /\ \A x \in Objects : x # o => ptr'[x] = ptr[x]
    BY <1>1, <1>2 DEF TypeOK
  <2> QED BY <1>2, <1>3, <2>1, NativeAssumption DEF State
<1>8. Readers' = Readers /\ Writer' = Writer
  BY <1>5 DEF Readers, Writer
<1>9. Readers[o] = {} /\ Writer[o] = Null
  BY <1>2, <1>6, NoWriter DEF Readers, Writer
<1>10. Cell!Take(o)
  BY <1>7, <1>8, <1>9 DEF Cell!Take, State, Readers, Writer
<1> QED BY <1>2, <1>10 DEF Cell!Next

\* Making it.
LEMMA CellMake ==
  ASSUME BorrowInv, NEW o \in Objects, NEW h \in Handles, Construct(o, h)
  PROVE  Cell!Next
<1>1. calls' = calls /\ ptr[o] = Unmade /\ ptr' = [ptr EXCEPT ![o] = h] /\ TypeOK
  BY DEF Construct, BorrowInv, LockInv
<1>2. \A x, k : Users(x, k)' = Users(x, k)
  BY <1>1 DEF Users, Depth
<1>3. Readers' = Readers /\ Writer' = Writer
  BY <1>2 DEF Readers, Writer
<1>4. State' = [State EXCEPT ![o] = "held"] /\ State[o] = "unmade"
  <2>1. ptr'[o] = h /\ \A x \in Objects : x # o => ptr'[x] = ptr[x]
    BY <1>1 DEF TypeOK
  <2> QED BY <1>1, <2>1, NativeAssumption DEF State
<1>5. Cell!Make(o)
  BY <1>3, <1>4 DEF Cell!Make, State, Readers, Writer
<1> QED BY <1>5 DEF Cell!Next

\* Every other step is one the cell does not see.
LEMMA CellStutters ==
  ASSUME BorrowInv, ~Reentrant, NEW t \in Threads,
         \/ CallSome(t) \/ LockRead(t) \/ LockWrite(t) \/ CheckReleased(t)
         \/ DestroyReturns(t) \/ DestroyThrows(t) \/ Unlock(t)
  PROVE  UNCHANGED Cell!cvars
<1>1. TypeOK /\ OneCall /\ ptr' = ptr
  BY DEF BorrowInv, LockInv, CallSome, Call, LockRead, LockWrite, CheckReleased,
         DestroyReturns, DestroyThrows, Unlock
<1>2. \A x, k : Users(x, k)' = Users(x, k)
  <2>1. CASE CallSome(t)
    <3>1. PICK o \in Objects, op \in Ops : Call(t, o, op)
      BY <2>1 DEF CallSome
    <3>2. Enters(t, o, op)
      BY <1>1, <3>1, Enter
    <3>3. calls[t] = <<>> /\ Depth(t) = 0
      BY <3>1, EmptySeq DEF Call, Idle, Depth
    <3>4. calls'[t][1].pc = "lock" /\ Depth(t)' = 1
      <4>1. Len(calls'[t]) = Len(calls[t]) + 1 /\ calls'[t][Depth(t) + 1].pc = "lock"
        BY <3>2 DEF Enters
      <4>2. Len(calls[t]) = 0
        BY <3>3 DEF Depth
      <4> QED BY <3>3, <4>1, <4>2 DEF Depth
    <3>5. \A u \in Threads : u # t => /\ Depth(u)' = Depth(u)
                                      /\ \A i \in 1..Depth(u) : calls'[u][i] = calls[u][i]
      BY <3>2 DEF Enters, Depth
    <3> QED BY <3>3, <3>4, <3>5 DEF Users
  <2>2. CASE Unlock(t)
    <3>1. ~Idle(t) /\ Top(t).pc = "unlock"
      BY <2>2 DEF Unlock, At
    <3>2. Leaves(t)
      BY <1>1, <2>2, <3>1, Leave DEF Unlock
    <3>3. Depth(t) = 1 /\ Depth(t)' = 0 /\ calls[t][1].pc = "unlock"
      <4>1. Depth(t) = 1 /\ calls[t][1].pc = "unlock"
        BY <1>1, <3>1, TopType DEF OneCall, Top
      <4>2. Len(calls'[t]) = Len(calls[t]) - 1
        BY <3>2 DEF Leaves
      <4> QED BY <4>1, <4>2 DEF Depth
    <3>4. \A u \in Threads : u # t => /\ Depth(u)' = Depth(u)
                                      /\ \A i \in 1..Depth(u) : calls'[u][i] = calls[u][i]
      BY <3>2 DEF Leaves, Depth
    <3> QED BY <3>3, <3>4 DEF Users
  <2>3. CASE ~CallSome(t) /\ ~Unlock(t)
    <3>1. ~Idle(t) /\ Top(t).pc # "fn"
      BY <2>3 DEF LockRead, LockWrite, CheckReleased, DestroyReturns, DestroyThrows, At
    <3>2. Goto(t, "check") \/ Goto(t, "unlock")
      BY <2>3 DEF LockRead, LockWrite, CheckReleased, DestroyReturns, DestroyThrows
    <3>3. PICK pc : pc # "fn" /\ Advances(t, pc, Top(t).p)
      BY <1>1, <3>1, <3>2, GotoAdvances DEF CallPC
    <3>4. \A x, k : /\ \A u \in Threads : u # t => (u \in Users(x, k)' <=> u \in Users(x, k))
                    /\ t \notin Users(x, k)' /\ t \notin Users(x, k)
      <4> TAKE x, k
      <4> QED BY <1>1, <3>1, <3>3, UsersMove
    <3>5. \A x, k : Users(x, k) \subseteq Threads /\ Users(x, k)' \subseteq Threads
      BY DEF Users
    <3> QED BY <3>4, <3>5
  <2> QED BY <2>1, <2>2, <2>3
<1> QED BY <1>1, <1>2, CellSame

LEMMA CellNext == ~Reentrant /\ ~Consuming /\ BorrowInv /\ [Next]_nvars => [Cell!Next]_(Cell!cvars)
<1> SUFFICES ASSUME ~Reentrant, ~Consuming, BorrowInv, [Next]_nvars
             PROVE  Cell!Next \/ UNCHANGED Cell!cvars
  OBVIOUS
<1>1. CASE \E o \in Objects, h \in Handles : Construct(o, h)
  BY <1>1, CellMake
<1>2. CASE \E t \in Threads : CallSome(t) \/ Proceed(t)
  <2>1. PICK t \in Threads : CallSome(t) \/ Proceed(t)
    BY <1>2
  <2>2. ~FnConsumes(t)
    BY DEF FnConsumes
  <2>3. CASE CheckBorrow(t)
    BY <2>3, CellLend
  <2>4. CASE CheckClose(t)
    BY <2>4, CellTake
  <2>5. CASE FnReturns(t)
    BY <2>5, CellGiveBack
  <2> QED BY <2>1, <2>2, <2>3, <2>4, <2>5, CellStutters DEF Proceed
<1>3. CASE UNCHANGED nvars
  <2>1. ptr' = ptr /\ \A o, k : Users(o, k)' = Users(o, k)
    BY <1>3 DEF nvars, Users, Depth
  <2> QED BY <2>1, CellSame
<1> QED BY <1>1, <1>2, <1>3 DEF Next

\* NativeObject keeps the promise of BorrowCell.
THEOREM IsABorrowCell ==
  ASSUME ~Reentrant, ~Consuming
  PROVE  Spec => ImplementsBorrowCell
BY BorrowInvariance, CellInit, CellNext, PTL DEF Spec, ImplementsBorrowCell, Cell!Spec

-----------------------------------------------------------------------------
(* What a composition needs of the invariant.                              *)

\* A thread is in one call at most.
LEMMA OnlyCall ==
  ASSUME BorrowInv, NEW t \in Threads, ~Idle(t)
  PROVE  /\ Depth(t) = 1 /\ Top(t) = calls[t][1] /\ calls[t][1] \in Record
         /\ At(t, "fn") \/ At(t, "destroy") => 1 \in Uses(t)
<1>1. TypeOK /\ OneCall
  BY DEF BorrowInv, LockInv
<1>2. Depth(t) \in Nat /\ Depth(t) \in 1..Depth(t) /\ Top(t) \in Record
  BY <1>1, TopType
<1>3. Depth(t) = 1
  BY <1>1, <1>2 DEF OneCall
<1> QED BY <1>2, <1>3 DEF Top, Uses, At

\* Two threads that have one handle in native code both read it.
LEMMA SharedReads ==
  ASSUME BorrowInv, NEW t \in Threads, NEW u \in Threads, t # u,
         NEW i \in Uses(t), NEW j \in Uses(u), calls[t][i].p = calls[u][j].p
  PROVE  /\ calls[t][i].pc = "fn" /\ calls[u][j].pc = "fn"
         /\ calls[t][i].op = "read" /\ calls[u][j].op = "read"
<1>1. LockInv /\ TypeOK /\ HandlesAreLive /\ DestroyApart /\ Destroying
  BY DEF BorrowInv, LockInv
<1>2. /\ i \in 1..Depth(t) /\ calls[t][i] \in Record /\ calls[t][i].pc \in {"fn", "destroy"}
      /\ j \in 1..Depth(u) /\ calls[u][j] \in Record /\ calls[u][j].pc \in {"fn", "destroy"}
  BY <1>1, UseType
<1>3. calls[t][i].obj \in Objects /\ calls[u][j].obj \in Objects
  BY <1>2 DEF Record
<1>4. calls[t][i].p \in Handles /\ calls[t][i].p # Null
  BY <1>1, NativeAssumption DEF HandlesAreLive, TypeOK
<1>5. ~(calls[t][i].pc = "destroy" /\ calls[u][j].pc = "destroy")
  BY <1>1 DEF DestroyApart
<1>6. calls[t][i].obj = calls[u][j].obj
  BY <1>1, <1>2, <1>3, <1>5 DEF HandlesAreLive
<1>7. calls[t][i].pc = "fn" /\ calls[u][j].pc = "fn"
  BY <1>1, <1>2, <1>4, <1>5, <1>6 DEF HandlesAreLive, Destroying
<1>8. calls[t][i].op = "read" /\ calls[u][j].op = "read"
  BY <1>1, <1>2, <1>6, <1>7, Alone
<1> QED BY <1>7, <1>8
=============================================================================
