----------------------- MODULE HandleRegistryProofs -----------------------
(***************************************************************************)
(* Proofs about HandleRegistry, for every set of frames, addresses and     *)
(* smart pointer types.                                                    *)
(***************************************************************************)
EXTENDS HandleRegistry, FiniteSetTheorems, TLAPS

\* Two finite sets that differ at most in one element.
LEMMA OneMember ==
  ASSUME NEW S, NEW T, NEW f, IsFiniteSet(S), S \ {f} = T \ {f}
  PROVE  /\ IsFiniteSet(T)
         /\ Cardinality(S) \in Nat
         /\ Cardinality(T) \in Nat
         /\ (f \in S <=> f \in T) => Cardinality(T) = Cardinality(S)
         /\ f \notin S /\ f \in T => Cardinality(T) = Cardinality(S) + 1
         /\ f \in S /\ f \notin T => Cardinality(T) = Cardinality(S) - 1
<1>1. CASE f \in S /\ f \in T
  <2>1. S = T
    BY <1>1
  <2> QED
    BY <1>1, <2>1, FS_CardinalityType
<1>2. CASE f \notin S /\ f \notin T
  <2>1. S = T
    BY <1>2
  <2> QED
    BY <1>2, <2>1, FS_CardinalityType
<1>3. CASE f \notin S /\ f \in T
  <2>1. T = S \cup {f}
    BY <1>3
  <2> QED
    BY <1>3, <2>1, FS_AddElement, FS_CardinalityType
<1>4. CASE f \in S /\ f \notin T
  <2>1. T = S \ {f}
    BY <1>4
  <2> QED
    BY <1>4, <2>1, FS_RemoveElement, FS_CardinalityType
<1> QED
  BY <1>1, <1>2, <1>3, <1>4

\* A step of one frame changes the frames in transit at an address by at most
\* that frame.
LEMMA TransitStep ==
  ASSUME TypeOK, NEW f \in Frames, NEW a,
         frame' = [frame EXCEPT ![f] = frame'[f]]
  PROVE  /\ IsFiniteSet(InTransit(a))
         /\ Cardinality(InTransit(a)) \in Nat
         /\ Cardinality(InTransit(a)') \in Nat
         /\ (f \in InTransit(a) <=> f \in InTransit(a)')
              => Cardinality(InTransit(a)') = Cardinality(InTransit(a))
         /\ f \notin InTransit(a) /\ f \in InTransit(a)'
              => Cardinality(InTransit(a)') = Cardinality(InTransit(a)) + 1
         /\ f \in InTransit(a) /\ f \notin InTransit(a)'
              => Cardinality(InTransit(a)') = Cardinality(InTransit(a)) - 1
<1>1. IsFiniteSet(InTransit(a))
  BY FS_Subset, ConstantsAssumption DEF InTransit
<1>2. InTransit(a) \ {f} = InTransit(a)' \ {f}
  BY DEF InTransit, TypeOK
<1> QED
  BY <1>1, <1>2, OneMember

-----------------------------------------------------------------------------
(* How a step changes its frame.                                           *)

FrameType == {Idle} \cup [pc : ActivePC, addr : Addrs, ptr : Pointers, role : Roles]

LEMMA ActiveFrame ==
  ASSUME TypeOK, NEW f \in Frames, frame[f].pc # "idle"
  PROVE  /\ frame[f] \in [pc : ActivePC, addr : Addrs, ptr : Pointers, role : Roles]
         /\ frame[f].addr \in Addrs
         /\ frame[f].ptr \in Pointers
         /\ frame[f].role \in Roles
BY DEF TypeOK, Idle

LEMMA GotoStep ==
  ASSUME TypeOK, NEW f \in Frames, frame[f].pc # "idle", NEW to \in ActivePC, Goto(f, to)
  PROVE  /\ frame' \in [Frames -> FrameType]
         /\ frame' = [frame EXCEPT ![f] = frame'[f]]
         /\ frame'[f].pc = to
         /\ frame'[f].addr = frame[f].addr
         /\ frame'[f].ptr = frame[f].ptr
         /\ frame'[f].role = frame[f].role
<1>1. frame[f] \in [pc : ActivePC, addr : Addrs, ptr : Pointers, role : Roles]
  BY ActiveFrame
<1>2. frame'[f] = [frame[f] EXCEPT !.pc = to]
  BY DEF Goto, TypeOK
<1>3. frame'[f] \in [pc : ActivePC, addr : Addrs, ptr : Pointers, role : Roles]
  BY <1>1, <1>2
<1> QED
  BY <1>1, <1>2, <1>3 DEF Goto, TypeOK, FrameType

LEMMA EndStep ==
  ASSUME TypeOK, NEW f \in Frames, End(f)
  PROVE  /\ frame' \in [Frames -> FrameType]
         /\ frame' = [frame EXCEPT ![f] = frame'[f]]
         /\ frame'[f] = Idle
BY DEF End, TypeOK, FrameType

-----------------------------------------------------------------------------
(* Accounting.  No contract is assumed: Java may pass any jlong, as any    *)
(* type, to any native, and the frames interleave freely.                  *)

\* Live memory was allocated by a smart pointer.
HeapTyped == \A a \in Addrs : heap[a].refs > 0 => heap[a].ptr \in Pointers

Accounting == TypeOK /\ HeapTyped /\ RefsAccounted /\ RecordDescribesMemory

LEMMA AccountingInit == Init => Accounting
<1> SUFFICES ASSUME Init PROVE Accounting
  OBVIOUS
<1>1. TypeOK
  BY DEF Init, TypeOK, NoRecord, FreeCell
<1>2. HeapTyped /\ RecordDescribesMemory
  BY DEF Init, HeapTyped, RecordDescribesMemory, Registered, NoRecord, FreeCell, Idle
<1>3. \A a \in Addrs : InTransit(a) = {}
  BY DEF Init, InTransit, Idle, TransitPC
<1>4. \A a \in Addrs : Cardinality(InTransit(a)) = 0
  BY <1>3, FS_EmptySet
<1>5. RefsAccounted
  BY <1>4 DEF Init, RefsAccounted, NoRecord, FreeCell
<1> QED
  BY <1>1, <1>2, <1>5 DEF Accounting

\* A step that leaves counts, types and memory alone, and whose frame is not in
\* transit before or after it.
LEMMA AccountingQuiet ==
  ASSUME Accounting, NEW f \in Frames,
         frame' = [frame EXCEPT ![f] = frame'[f]],
         frame' \in [Frames -> FrameType],
         frame[f].pc \notin TransitPC, frame'[f].pc \notin TransitPC,
         java' \in [Addrs -> Nat],
         UNCHANGED <<heap, rust>>,
         table' \in [Addrs -> [target : Targets \cup {NoTarget}, owners : Nat, guarded : BOOLEAN]],
         \A a \in Addrs : /\ table'[a].owners = table[a].owners
                          /\ table'[a].target = table[a].target
  PROVE  Accounting'
<1>1. TypeOK'
  BY DEF Accounting, TypeOK, FrameType
<1>2. HeapTyped'
  BY DEF Accounting, HeapTyped
<1>3. ASSUME NEW a \in Addrs
      PROVE  Cardinality(InTransit(a)') = Cardinality(InTransit(a))
  <2>1. f \notin InTransit(a) /\ f \notin InTransit(a)'
    BY DEF InTransit
  <2> QED
    BY <2>1, TransitStep DEF Accounting
<1>4. RefsAccounted'
  BY <1>3 DEF Accounting, RefsAccounted
<1>5. RecordDescribesMemory'
  BY DEF Accounting, RecordDescribesMemory, Registered, TransitPC, TypeOK
<1> QED
  BY <1>1, <1>2, <1>4, <1>5 DEF Accounting

\* A validation, and any other step that only moves a frame outside the table.
LEMMA AccountingGoto ==
  ASSUME Accounting, NEW f \in Frames, frame[f].pc # "idle", NEW to \in ActivePC,
         Goto(f, to), frame[f].pc \notin TransitPC, to \notin TransitPC,
         UNCHANGED <<table, heap, java, rust>>
  PROVE  Accounting'
<1>1. TypeOK
  BY DEF Accounting
<1> QED
  BY <1>1, GotoStep, AccountingQuiet DEF TypeOK

LEMMA AccountingValidate ==
  ASSUME Accounting, NEW f \in Frames,
         NEW from \in ActivePC, NEW to \in ActivePC, NEW failed \in ActivePC,
         from \notin TransitPC, to \notin TransitPC, failed \notin TransitPC,
         Validate(f, from, to, failed)
  PROVE  Accounting'
<1>1. from # "idle"
  BY DEF ActivePC
<1>2. CASE Valid(f)
  BY <1>1, <1>2, AccountingGoto DEF Validate
<1>3. CASE ~Valid(f)
  BY <1>1, <1>3, AccountingGoto DEF Validate
<1> QED
  BY <1>2, <1>3

\* A frame that leaves native code while it is not in transit.
LEMMA AccountingEnd ==
  ASSUME Accounting, NEW f \in Frames, End(f), frame[f].pc \notin TransitPC,
         java' \in [Addrs -> Nat], UNCHANGED <<table, heap, rust>>
  PROVE  Accounting'
<1>1. TypeOK
  BY DEF Accounting
<1>2. Idle.pc \notin TransitPC
  BY DEF Idle, TransitPC
<1> QED
  BY <1>1, <1>2, EndStep, AccountingQuiet DEF TypeOK

LEMMA AccountingEnter ==
  ASSUME Accounting, NEW f \in Frames, NEW a \in Addrs, NEW p \in Pointers,
         NEW r \in Roles, NEW to \in {"body", "from_raw"}, Enter(f, a, p, r, to)
  PROVE  Accounting'
<1>1. TypeOK /\ table \in [Addrs -> [target : Targets \cup {NoTarget}, owners : Nat, guarded : BOOLEAN]]
  BY DEF Accounting, TypeOK
<1>2. java' \in [Addrs -> Nat]
  BY <1>1 DEF Enter, Pass, TypeOK, Permitted
<1>3. /\ frame'[f] = [pc |-> to, addr |-> a, ptr |-> p, role |-> r]
      /\ frame' = [frame EXCEPT ![f] = frame'[f]]
  BY <1>1 DEF Enter, Pass, TypeOK
<1>4. frame'[f] \in FrameType
  BY <1>3 DEF FrameType, ActivePC
<1>5. frame' \in [Frames -> FrameType]
  BY <1>1, <1>3, <1>4 DEF TypeOK, FrameType
<1>6. frame[f].pc \notin TransitPC /\ frame'[f].pc \notin TransitPC
  BY <1>3 DEF Enter, Pass, TransitPC
<1> QED
  BY <1>1, <1>2, <1>3, <1>5, <1>6, AccountingQuiet DEF Enter, Pass

-----------------------------------------------------------------------------
\* 1 if the frame value v is in transit at a.
Transit(v, a) == IF v.addr = a /\ v.pc \in TransitPC THEN 1 ELSE 0

\* A step at one address keeps the references accounted for if the changes it
\* makes there to the four places an owner can be in add up.
LEMMA AccountingCount ==
  ASSUME Accounting, NEW f \in Frames, NEW a \in Addrs,
         frame' = [frame EXCEPT ![f] = frame'[f]],
         frame[f].addr = a \/ frame[f].pc \notin TransitPC,
         frame'[f].addr = a \/ frame'[f].pc \notin TransitPC,
         \A b \in Addrs \ {a} : /\ heap'[b].refs = heap[b].refs
                                /\ table'[b].owners = table[b].owners
                                /\ rust'[b] = rust[b],
         heap'[a].refs \in Nat, table'[a].owners \in Nat, rust'[a] \in Nat,
         heap'[a].refs - heap[a].refs
           = (table'[a].owners - table[a].owners) + (rust'[a] - rust[a])
             + (Transit(frame'[f], a) - Transit(frame[f], a))
  PROVE  RefsAccounted'
<1> SUFFICES ASSUME NEW b \in Addrs
             PROVE  heap'[b].refs = table'[b].owners + rust'[b] + Cardinality(InTransit(b)')
  BY DEF RefsAccounted
<1>1. TypeOK
  BY DEF Accounting
<1>2. heap[b].refs = table[b].owners + rust[b] + Cardinality(InTransit(b))
  BY DEF Accounting, RefsAccounted
<1>3. table[b].owners \in Nat /\ rust[b] \in Nat /\ heap[b].refs \in Nat
  BY <1>1 DEF TypeOK
<1>4. /\ f \in InTransit(b)  <=> Transit(frame[f], b) = 1
      /\ f \in InTransit(b)' <=> Transit(frame'[f], b) = 1
      /\ Transit(frame[f], b) \in {0, 1} /\ Transit(frame'[f], b) \in {0, 1}
  BY DEF InTransit, Transit
<1>5. /\ Cardinality(InTransit(b)) \in Nat
      /\ Cardinality(InTransit(b)') \in Nat
      /\ Cardinality(InTransit(b)') - Cardinality(InTransit(b))
           = Transit(frame'[f], b) - Transit(frame[f], b)
  <2> HIDE DEF Transit
  <2> QED
    BY <1>1, <1>4, TransitStep
<1>6. CASE b = a
  <2> HIDE DEF Transit
  <2>1. Transit(frame[f], b) \in Int /\ Transit(frame'[f], b) \in Int
    BY <1>4
  <2> QED
    BY <1>2, <1>3, <1>5, <1>6, <2>1
<1>7. CASE b # a
  <2>1. Transit(frame[f], b) = 0 /\ Transit(frame'[f], b) = 0
    BY <1>7 DEF Transit
  <2>2. Cardinality(InTransit(b)') = Cardinality(InTransit(b))
    BY <1>5, <2>1
  <2> QED
    BY <1>2, <1>7, <2>2
<1> QED
  BY <1>6, <1>7

\* `register` moves the owner a frame carries into the table; no record is
\* there unless it describes the same allocation.
LEMMA AccountingRegister ==
  ASSUME Accounting, NEW f \in Frames, Register(f)
  PROVE  Accounting'
<1> DEFINE a == frame[f].addr
           p == frame[f].ptr
<1>1. TypeOK /\ frame[f].pc = "register" /\ frame[f].pc # "idle"
  BY DEF Accounting, Register
<1>2. a \in Addrs /\ p \in Pointers
  BY <1>1, ActiveFrame
<1>3. heap[a].ptr = p /\ (Registered(a) => table[a].target = p.target)
  BY <1>1, <1>2 DEF Accounting, RecordDescribesMemory
<1>4. /\ table' = IF Registered(a)
                  THEN [table EXCEPT ![a].owners = @ + 1]
                  ELSE [table EXCEPT ![a] = [target |-> p.target, owners |-> 1, guarded |-> FALSE]]
      /\ Goto(f, "body")
      /\ UNCHANGED <<heap, java, rust>>
  BY <1>3 DEF Register
<1>5. /\ frame' \in [Frames -> FrameType]
      /\ frame' = [frame EXCEPT ![f] = frame'[f]]
      /\ frame'[f].pc = "body" /\ frame'[f].addr = a
  BY <1>1, <1>4, GotoStep DEF ActivePC
<1>6. p.target \in Targets
  BY <1>2 DEF Targets
<1>7. /\ table' \in [Addrs -> [target : Targets \cup {NoTarget}, owners : Nat, guarded : BOOLEAN]]
      /\ table'[a].owners = table[a].owners + 1
      /\ table'[a].target = p.target
      /\ \A b \in Addrs \ {a} : table'[b] = table[b]
  BY <1>1, <1>2, <1>3, <1>4, <1>6 DEF TypeOK, Registered
<1>8. TypeOK'
  BY <1>1, <1>4, <1>5, <1>7 DEF TypeOK, FrameType
<1>9. HeapTyped'
  BY <1>4 DEF Accounting, HeapTyped
<1>10. RefsAccounted'
  <2>1. Transit(frame[f], a) = 1 /\ Transit(frame'[f], a) = 0
    BY <1>1, <1>5 DEF Transit, TransitPC
  <2>2. heap[a].refs \in Nat /\ rust[a] \in Nat /\ table[a].owners \in Nat
    BY <1>1, <1>2 DEF TypeOK
  <2>3. heap'[a].refs - heap[a].refs
          = (table'[a].owners - table[a].owners) + (rust'[a] - rust[a])
            + (Transit(frame'[f], a) - Transit(frame[f], a))
    BY <1>4, <1>7, <2>1, <2>2
  <2> HIDE DEF a
  <2> QED
    BY <1>2, <1>4, <1>5, <1>7, <2>2, <2>3, AccountingCount DEF a
<1>11. RecordDescribesMemory'
  BY <1>1, <1>3, <1>4, <1>5, <1>7 DEF Accounting, RecordDescribesMemory, Registered, TypeOK
<1> QED
  BY <1>8, <1>9, <1>10, <1>11 DEF Accounting

\* What the accounting says of one address.
LEMMA AccountingFacts ==
  ASSUME Accounting, NEW a \in Addrs
  PROVE  /\ heap[a].refs \in Nat /\ table[a].owners \in Nat /\ rust[a] \in Nat
         /\ table[a].owners + rust[a] <= heap[a].refs
         /\ \A f \in InTransit(a) : table[a].owners + rust[a] + 1 <= heap[a].refs
         /\ \A f, g \in InTransit(a) : f # g => table[a].owners + rust[a] + 2 <= heap[a].refs
<1> DEFINE S == InTransit(a)
<1>1. heap[a].refs \in Nat /\ table[a].owners \in Nat /\ rust[a] \in Nat
  BY DEF Accounting, TypeOK
<1>2. heap[a].refs = table[a].owners + rust[a] + Cardinality(S)
  BY DEF Accounting, RefsAccounted
<1>3. IsFiniteSet(S)
  BY FS_Subset, ConstantsAssumption DEF InTransit
<1> HIDE DEF S
<1>4. Cardinality(S) \in Nat
  BY <1>3, FS_CardinalityType
<1>5. ASSUME NEW f \in S
      PROVE  /\ IsFiniteSet(S \ {f})
             /\ Cardinality(S \ {f}) \in Nat
             /\ Cardinality(S) = Cardinality(S \ {f}) + 1
  <2>1. IsFiniteSet(S \ {f}) /\ Cardinality(S \ {f}) = Cardinality(S) - 1
    BY <1>3, FS_RemoveElement
  <2>2. Cardinality(S \ {f}) \in Nat
    BY <2>1, FS_CardinalityType
  <2> QED
    BY <1>4, <2>1, <2>2
<1>6. ASSUME NEW f \in S, NEW g \in S, f # g
      PROVE  Cardinality(S) >= 2
  <2>1. g \in S \ {f}
    BY <1>6
  <2>2. Cardinality(S \ {f}) # 0
    BY <1>5, <2>1, FS_EmptySet
  <2> QED
    BY <1>5, <2>2
<1>7. ASSUME NEW f \in S
      PROVE  Cardinality(S) >= 1
  <2>1. Cardinality(S \ {f}) \in Nat /\ Cardinality(S) = Cardinality(S \ {f}) + 1
    BY <1>5
  <2> QED
    BY <2>1
<1>8. \A f, g \in S : f # g => Cardinality(S) >= 2
  BY <1>6
<1> QED
  BY <1>1, <1>2, <1>4, <1>7, <1>8 DEF S

\* `deregister` moves an owner out of the table, to the frame that will reclaim it.
LEMMA AccountingDeregister ==
  ASSUME Accounting, NEW f \in Frames,
         NEW from \in ActivePC, NEW to \in {"take", "free"}, NEW failed \in ActivePC,
         from \notin TransitPC, failed \notin TransitPC,
         Deregister(f, from, to, failed)
  PROVE  Accounting'
<1> DEFINE a == frame[f].addr
<1>1. TypeOK /\ frame[f].pc = from /\ from # "idle"
  BY DEF Accounting, Deregister, ActivePC
<1>2. a \in Addrs
  BY <1>1, ActiveFrame
<1>3. CASE ~Registered(a)
  <2>1. Goto(f, failed) /\ UNCHANGED <<table, heap, java, rust>>
    BY <1>3 DEF Deregister
  <2> QED
    BY <1>1, <2>1, AccountingGoto
<1>4. CASE Registered(a)
  <2>1. /\ table' = IF table[a].owners = 1
                    THEN [table EXCEPT ![a] = NoRecord]
                    ELSE [table EXCEPT ![a].owners = @ - 1]
        /\ Goto(f, to)
        /\ UNCHANGED <<heap, java, rust>>
    BY <1>4 DEF Deregister
  <2>2. /\ frame' \in [Frames -> FrameType]
        /\ frame' = [frame EXCEPT ![f] = frame'[f]]
        /\ frame'[f].pc = to /\ frame'[f].addr = a
    BY <1>1, <2>1, GotoStep DEF ActivePC
  <2>3. table[a].owners \in Nat /\ table[a].owners > 0
    BY <1>1, <1>2, <1>4 DEF TypeOK, Registered
  <2>4. /\ table' \in [Addrs -> [target : Targets \cup {NoTarget}, owners : Nat, guarded : BOOLEAN]]
        /\ table'[a].owners = table[a].owners - 1
        /\ table'[a].owners > 0 => table'[a].target = table[a].target
        /\ \A b \in Addrs \ {a} : table'[b] = table[b]
    BY <1>1, <1>2, <2>1, <2>3 DEF TypeOK, NoRecord
  <2>5. TypeOK'
    BY <1>1, <2>1, <2>2, <2>4 DEF TypeOK, FrameType
  <2>6. HeapTyped'
    BY <2>1 DEF Accounting, HeapTyped
  <2>7. RefsAccounted'
    <3>1. Transit(frame[f], a) = 0 /\ Transit(frame'[f], a) = 1
      BY <1>1, <2>2 DEF Transit, TransitPC
    <3>2. heap[a].refs \in Nat /\ rust[a] \in Nat /\ table'[a].owners \in Nat
      BY <1>1, <1>2, <2>3, <2>4 DEF TypeOK
    <3>3. heap'[a].refs - heap[a].refs
            = (table'[a].owners - table[a].owners) + (rust'[a] - rust[a])
              + (Transit(frame'[f], a) - Transit(frame[f], a))
      BY <2>1, <2>3, <2>4, <3>1, <3>2
    <3> HIDE DEF a
    <3> QED
      BY <1>2, <2>1, <2>2, <2>4, <3>2, <3>3, AccountingCount DEF a
  <2>8. RecordDescribesMemory'
    BY <1>1, <1>2, <1>4, <2>1, <2>2, <2>4
       DEF Accounting, RecordDescribesMemory, Registered, TypeOK
  <2> QED
    BY <2>5, <2>6, <2>7, <2>8 DEF Accounting
<1> QED
  BY <1>3, <1>4

\* The exclusive-borrow flag is not part of the accounting.
LEMMA FlagStep ==
  ASSUME TypeOK, NEW a \in Addrs, NEW flag \in BOOLEAN,
         table' = table \/ table' = [table EXCEPT ![a].guarded = flag]
  PROVE  /\ table' \in [Addrs -> [target : Targets \cup {NoTarget}, owners : Nat, guarded : BOOLEAN]]
         /\ \A b \in Addrs : /\ table'[b].owners = table[b].owners
                             /\ table'[b].target = table[b].target
<1> DEFINE T == Targets \cup {NoTarget}
<1>1. table \in [Addrs -> [target : T, owners : Nat, guarded : BOOLEAN]]
  BY DEF TypeOK
<1> HIDE DEF T
<1>2. CASE table' = table
  BY <1>1, <1>2 DEF T
<1>3. CASE table' = [table EXCEPT ![a].guarded = flag]
  <2>1. table' \in [Addrs -> [target : T, owners : Nat, guarded : BOOLEAN]]
    BY <1>1, <1>3
  <2>2. \A b \in Addrs : /\ table'[b].owners = table[b].owners
                         /\ table'[b].target = table[b].target
    BY <1>1, <1>3
  <2> QED
    BY <2>1, <2>2 DEF T
<1> QED
  BY <1>2, <1>3

LEMMA AccountingBeginGuard ==
  ASSUME Accounting, NEW f \in Frames, BeginGuard(f)
  PROVE  Accounting'
<1> DEFINE a == frame[f].addr
<1>1. TypeOK /\ frame[f].pc = "begin" /\ frame[f].pc # "idle" /\ frame[f].pc \notin TransitPC
  BY DEF Accounting, BeginGuard, TransitPC
<1>2. CASE Registered(a) /\ table[a].guarded
  <2>1. Goto(f, Violation(f)) /\ UNCHANGED <<table, heap, java, rust>>
    BY <1>2 DEF BeginGuard
  <2>2. Violation(f) \in ActivePC /\ Violation(f) \notin TransitPC
    BY DEF Violation, ActivePC, TransitPC
  <2> QED
    BY <1>1, <2>1, <2>2, AccountingGoto
<1>3. CASE ~(Registered(a) /\ table[a].guarded)
  <2>1. /\ table' = IF Registered(a) THEN [table EXCEPT ![a].guarded = TRUE] ELSE table
        /\ Goto(f, "guard")
        /\ UNCHANGED <<heap, java, rust>>
    BY <1>3 DEF BeginGuard
  <2>2. /\ table' \in [Addrs -> [target : Targets \cup {NoTarget}, owners : Nat, guarded : BOOLEAN]]
        /\ \A b \in Addrs : /\ table'[b].owners = table[b].owners
                            /\ table'[b].target = table[b].target
    BY <1>1, <2>1, ActiveFrame, FlagStep
  <2>3. "guard" \in ActivePC /\ "guard" \notin TransitPC
    BY DEF ActivePC, TransitPC
  <2> QED
    BY <1>1, <2>1, <2>2, <2>3, GotoStep, AccountingQuiet DEF TypeOK
<1> QED
  BY <1>2, <1>3

LEMMA AccountingEndGuard ==
  ASSUME Accounting, NEW f \in Frames, EndGuard(f)
  PROVE  Accounting'
<1> DEFINE a == frame[f].addr
<1>1. TypeOK /\ frame[f].pc = "guard" /\ frame[f].pc # "idle" /\ frame[f].pc \notin TransitPC
  BY DEF Accounting, EndGuard, TransitPC
<1>2. /\ table' = IF Registered(a) THEN [table EXCEPT ![a].guarded = FALSE] ELSE table
      /\ Goto(f, "body")
      /\ UNCHANGED <<heap, java, rust>>
  BY DEF EndGuard
<1>3. /\ table' \in [Addrs -> [target : Targets \cup {NoTarget}, owners : Nat, guarded : BOOLEAN]]
      /\ \A b \in Addrs : /\ table'[b].owners = table[b].owners
                          /\ table'[b].target = table[b].target
  BY <1>1, <1>2, ActiveFrame, FlagStep
<1>4. "body" \in ActivePC /\ "body" \notin TransitPC
  BY DEF ActivePC, TransitPC
<1> QED
  BY <1>1, <1>2, <1>3, <1>4, GotoStep, AccountingQuiet DEF TypeOK

-----------------------------------------------------------------------------
\* Steps that allocate.  The address is free, so by the accounting no record and
\* no frame refers to what was there before.
LEMMA AccountingFromNew ==
  ASSUME Accounting, NEW f \in Frames, NEW a \in Addrs, NEW p \in Pointers, FromNew(f, a, p)
  PROVE  Accounting'
<1>1. TypeOK
  BY DEF Accounting
<1>2. /\ frame' = [frame EXCEPT ![f] = frame'[f]]
      /\ frame'[f] = [pc |-> "register", addr |-> a, ptr |-> p, role |-> "Owned"]
      /\ frame[f].pc = "idle"
  BY <1>1 DEF FromNew, TypeOK
<1>3. frame'[f] \in FrameType
  BY <1>2 DEF FrameType, ActivePC, Roles
<1>4. /\ heap[a].refs = 0
      /\ heap' = [heap EXCEPT ![a] = [ptr |-> p, refs |-> 1]]
      /\ UNCHANGED <<table, java, rust>>
  BY DEF FromNew
<1>5. heap'[a].refs = 1 /\ heap'[a].ptr = p /\ \A b \in Addrs \ {a} : heap'[b] = heap[b]
  BY <1>1, <1>4 DEF TypeOK
<1>6. table[a].owners = 0 /\ InTransit(a) = {}
  BY <1>4, AccountingFacts
<1>7. TypeOK'
  <2>1. frame' \in [Frames -> FrameType]
    BY <1>1, <1>2, <1>3 DEF TypeOK, FrameType
  <2>2. heap' \in [Addrs -> [ptr : Pointers \cup {NoPointer}, refs : Nat]]
    BY <1>1, <1>4 DEF TypeOK
  <2> QED
    BY <1>1, <1>4, <2>1, <2>2 DEF TypeOK, FrameType
<1>8. HeapTyped'
  BY <1>5 DEF Accounting, HeapTyped
<1>9. RefsAccounted'
  <2>1. Transit(frame[f], a) = 0 /\ Transit(frame'[f], a) = 1
    BY <1>2 DEF Transit, TransitPC
  <2>2. rust[a] \in Nat /\ table[a].owners \in Nat
    BY <1>1 DEF TypeOK
  <2>3. heap'[a].refs - heap[a].refs
          = (table'[a].owners - table[a].owners) + (rust'[a] - rust[a])
            + (Transit(frame'[f], a) - Transit(frame[f], a))
    BY <1>4, <1>5, <2>1, <2>2
  <2>4. frame[f].pc \notin TransitPC /\ frame'[f].addr = a
    BY <1>2 DEF TransitPC
  <2> QED
    BY <1>2, <1>4, <1>5, <2>2, <2>3, <2>4, AccountingCount
<1>10. RecordDescribesMemory'
  <2>1. \A b \in Addrs : Registered(b)' => table'[b].target = heap'[b].ptr.target
    BY <1>4, <1>5, <1>6 DEF Accounting, RecordDescribesMemory, Registered
  <2>2. ASSUME NEW g \in Frames, frame'[g].pc = "register"
        PROVE  heap'[frame'[g].addr].ptr = frame'[g].ptr
    <3>1. CASE g = f
      BY <1>2, <1>5, <3>1
    <3>2. CASE g # f
      <4>1. frame'[g] = frame[g]
        BY <1>1, <1>2, <3>2 DEF TypeOK
      <4>2. frame[g].addr \in Addrs /\ frame[g].addr # a
        BY <1>1, <1>6, <2>2, <4>1, ActiveFrame DEF InTransit, TransitPC
      <4> QED
        BY <1>5, <2>2, <4>1, <4>2 DEF Accounting, RecordDescribesMemory
    <3> QED
      BY <3>1, <3>2
  <2> QED
    BY <2>1, <2>2 DEF RecordDescribesMemory
<1> QED
  BY <1>7, <1>8, <1>9, <1>10 DEF Accounting

LEMMA AccountingFromValue ==
  ASSUME Accounting, NEW f \in Frames, NEW a \in Addrs, FromValue(f, a)
  PROVE  Accounting'
<1> DEFINE p == heap[a].ptr
<1>1. TypeOK
  BY DEF Accounting
<1>2. /\ frame' = [frame EXCEPT ![f] = frame'[f]]
      /\ frame'[f] = [pc |-> "register", addr |-> a, ptr |-> p, role |-> "Owned"]
      /\ frame[f].pc = "idle"
  BY <1>1 DEF FromValue, TypeOK
<1>3. /\ rust[a] > 0
      /\ rust' = [rust EXCEPT ![a] = @ - 1]
      /\ UNCHANGED <<table, heap, java>>
  BY DEF FromValue
<1>4. p \in Pointers
  <2>1. heap[a].refs > 0
    BY <1>3, AccountingFacts
  <2> QED
    BY <2>1 DEF Accounting, HeapTyped
<1>5. frame' \in [Frames -> FrameType]
  <2>1. frame'[f] \in FrameType
    BY <1>2, <1>4 DEF FrameType, ActivePC, Roles
  <2> QED
    BY <1>1, <1>2, <2>1 DEF TypeOK, FrameType
<1>6. rust' \in [Addrs -> Nat] /\ rust'[a] = rust[a] - 1 /\ \A b \in Addrs \ {a} : rust'[b] = rust[b]
  BY <1>1, <1>3 DEF TypeOK
<1>7. TypeOK'
  BY <1>1, <1>3, <1>5, <1>6 DEF TypeOK, FrameType
<1>8. HeapTyped'
  BY <1>3 DEF Accounting, HeapTyped
<1>9. RefsAccounted'
  <2>1. Transit(frame[f], a) = 0 /\ Transit(frame'[f], a) = 1
    BY <1>2 DEF Transit, TransitPC
  <2>2. rust[a] \in Nat /\ rust'[a] \in Nat /\ table[a].owners \in Nat /\ heap[a].refs \in Nat
    BY <1>1, <1>6 DEF TypeOK
  <2>3. heap'[a].refs - heap[a].refs
          = (table'[a].owners - table[a].owners) + (rust'[a] - rust[a])
            + (Transit(frame'[f], a) - Transit(frame[f], a))
    BY <1>3, <1>6, <2>1, <2>2
  <2>4. frame[f].pc \notin TransitPC /\ frame'[f].addr = a
    BY <1>2 DEF TransitPC
  <2> QED
    BY <1>2, <1>3, <1>6, <2>2, <2>3, <2>4, AccountingCount
<1>10. RecordDescribesMemory'
  BY <1>1, <1>2, <1>3 DEF Accounting, RecordDescribesMemory, Registered, TypeOK
<1> QED
  BY <1>7, <1>8, <1>9, <1>10 DEF Accounting

\* Steps that count up, hand over or release one reference to the allocation.
LEMMA AccountingCloneCount ==
  ASSUME Accounting, NEW f \in Frames, CloneCount(f)
  PROVE  Accounting'
<1> DEFINE a == frame[f].addr
<1>1. TypeOK /\ frame[f].pc = "clone" /\ frame[f].pc # "idle"
  BY DEF Accounting, CloneCount
<1>2. a \in Addrs
  BY <1>1, ActiveFrame
<1>3. /\ heap[a].refs > 0
      /\ heap' = [heap EXCEPT ![a].refs = @ + 1]
      /\ rust' = [rust EXCEPT ![a] = @ + 1]
      /\ Goto(f, "body")
      /\ UNCHANGED <<table, java>>
  BY DEF CloneCount, Owns
<1>4. /\ frame' \in [Frames -> FrameType]
      /\ frame' = [frame EXCEPT ![f] = frame'[f]]
      /\ frame'[f].pc = "body"
  BY <1>1, <1>3, GotoStep DEF ActivePC
<1>5. frame[f].pc \notin TransitPC /\ frame'[f].pc \notin TransitPC
  BY <1>1, <1>4 DEF TransitPC
<1>6. /\ heap' \in [Addrs -> [ptr : Pointers \cup {NoPointer}, refs : Nat]]
      /\ heap'[a].refs = heap[a].refs + 1
      /\ \A b \in Addrs : heap'[b].ptr = heap[b].ptr
      /\ \A b \in Addrs \ {a} : heap'[b] = heap[b]
  BY <1>1, <1>2, <1>3 DEF TypeOK
<1>7. /\ rust' \in [Addrs -> Nat]
      /\ rust'[a] = rust[a] + 1
      /\ \A b \in Addrs \ {a} : rust'[b] = rust[b]
  BY <1>1, <1>2, <1>3 DEF TypeOK
<1>8. TypeOK'
  BY <1>1, <1>3, <1>4, <1>6, <1>7 DEF TypeOK, FrameType
<1>9. HeapTyped'
  BY <1>2, <1>3, <1>6 DEF Accounting, HeapTyped
<1>10. RefsAccounted'
  <2>1. Transit(frame[f], a) = 0 /\ Transit(frame'[f], a) = 0
    BY <1>5 DEF Transit
  <2>2. rust[a] \in Nat /\ table[a].owners \in Nat /\ heap[a].refs \in Nat
    BY <1>1, <1>2 DEF TypeOK
  <2>3. heap'[a].refs - heap[a].refs
          = (table'[a].owners - table[a].owners) + (rust'[a] - rust[a])
            + (Transit(frame'[f], a) - Transit(frame[f], a))
    BY <1>3, <1>6, <1>7, <2>1, <2>2
  <2>4. heap'[a].refs \in Nat /\ rust'[a] \in Nat
    BY <1>6, <1>7, <2>2
  <2> HIDE DEF a
  <2> QED
    BY <1>2, <1>3, <1>4, <1>5, <1>6, <1>7, <2>2, <2>3, <2>4, AccountingCount
<1>11. RecordDescribesMemory'
  <2>1. \A g \in Frames : frame'[g].pc = "register" => frame'[g] = frame[g] /\ frame[g].addr \in Addrs
    BY <1>1, <1>4, ActiveFrame DEF TypeOK
  <2> QED
    BY <1>3, <1>6, <2>1 DEF Accounting, RecordDescribesMemory, Registered
<1> QED
  BY <1>8, <1>9, <1>10, <1>11 DEF Accounting

LEMMA DropRefStep ==
  ASSUME TypeOK, NEW a \in Addrs, heap[a].refs > 0, DropRef(a)
  PROVE  /\ heap' \in [Addrs -> [ptr : Pointers \cup {NoPointer}, refs : Nat]]
         /\ heap'[a].refs = heap[a].refs - 1
         /\ heap[a].refs > 1 => heap'[a].ptr = heap[a].ptr
         /\ \A b \in Addrs \ {a} : heap'[b] = heap[b]
<1>1. heap \in [Addrs -> [ptr : Pointers \cup {NoPointer}, refs : Nat]]
  BY DEF TypeOK
<1>2. CASE heap[a].refs = 1
  <2>1. heap' = [heap EXCEPT ![a] = FreeCell]
    BY <1>2 DEF DropRef
  <2> QED
    BY <1>1, <1>2, <2>1 DEF FreeCell
<1>3. CASE heap[a].refs # 1
  <2>1. heap' = [heap EXCEPT ![a].refs = @ - 1]
    BY <1>3 DEF DropRef
  <2>2. heap[a].refs \in Nat /\ heap[a].refs - 1 \in Nat
    BY <1>1
  <2> QED
    BY <1>1, <1>3, <2>1, <2>2
<1> QED
  BY <1>2, <1>3

LEMMA AccountingTake ==
  ASSUME Accounting, NEW f \in Frames, IntoInnerTake(f)
  PROVE  Accounting'
<1> DEFINE a == frame[f].addr
<1>1. TypeOK /\ frame[f].pc = "take" /\ frame[f].pc # "idle"
  BY DEF Accounting, IntoInnerTake
<1>2. a \in Addrs
  BY <1>1, ActiveFrame
<1>3. /\ rust' = [rust EXCEPT ![a] = @ + 1]
      /\ End(f)
      /\ UNCHANGED <<table, heap, java>>
  BY DEF IntoInnerTake
<1>4. /\ frame' \in [Frames -> FrameType]
      /\ frame' = [frame EXCEPT ![f] = frame'[f]]
      /\ frame'[f].pc \notin TransitPC
  BY <1>1, <1>3, EndStep DEF TransitPC, Idle
<1>5. /\ rust' \in [Addrs -> Nat]
      /\ rust'[a] = rust[a] + 1
      /\ \A b \in Addrs \ {a} : rust'[b] = rust[b]
  BY <1>1, <1>2, <1>3 DEF TypeOK
<1>6. TypeOK' /\ HeapTyped'
  BY <1>1, <1>3, <1>4, <1>5 DEF Accounting, TypeOK, FrameType, HeapTyped
<1>7. RefsAccounted'
  <2>1. Transit(frame[f], a) = 1 /\ Transit(frame'[f], a) = 0
    BY <1>1, <1>4 DEF Transit, TransitPC
  <2>2. rust[a] \in Nat /\ rust'[a] \in Nat /\ table[a].owners \in Nat /\ heap[a].refs \in Nat
    BY <1>1, <1>2, <1>5 DEF TypeOK
  <2>3. heap'[a].refs - heap[a].refs
          = (table'[a].owners - table[a].owners) + (rust'[a] - rust[a])
            + (Transit(frame'[f], a) - Transit(frame[f], a))
    BY <1>3, <1>5, <2>1, <2>2
  <2> HIDE DEF a
  <2> QED
    BY <1>2, <1>3, <1>4, <1>5, <2>2, <2>3, AccountingCount DEF a
<1>8. RecordDescribesMemory'
  <2>1. \A g \in Frames : frame'[g].pc = "register" => frame'[g] = frame[g]
    BY <1>1, <1>4 DEF TypeOK, TransitPC
  <2> QED
    BY <1>3, <2>1 DEF Accounting, RecordDescribesMemory, Registered
<1> QED
  BY <1>6, <1>7, <1>8 DEF Accounting

\* The last reference goes only when no record and no other frame is left at the
\* address, so nothing describes the memory that becomes free.
LEMMA AccountingFree ==
  ASSUME Accounting, NEW f \in Frames, DropOwnedFree(f)
  PROVE  Accounting'
<1> DEFINE a == frame[f].addr
<1>1. TypeOK /\ frame[f].pc = "free" /\ frame[f].pc # "idle"
  BY DEF Accounting, DropOwnedFree
<1>2. a \in Addrs
  BY <1>1, ActiveFrame
<1>3. /\ heap[a].refs > 0
      /\ DropRef(a)
      /\ End(f)
      /\ UNCHANGED <<table, java, rust>>
  BY DEF DropOwnedFree, Owns
<1>4. /\ frame' \in [Frames -> FrameType]
      /\ frame' = [frame EXCEPT ![f] = frame'[f]]
      /\ frame'[f].pc \notin TransitPC
  BY <1>1, <1>3, EndStep DEF TransitPC, Idle
<1>5. /\ heap' \in [Addrs -> [ptr : Pointers \cup {NoPointer}, refs : Nat]]
      /\ heap'[a].refs = heap[a].refs - 1
      /\ heap[a].refs > 1 => heap'[a].ptr = heap[a].ptr
      /\ \A b \in Addrs \ {a} : heap'[b] = heap[b]
  <2> HIDE DEF a
  <2> QED
    BY <1>1, <1>2, <1>3, DropRefStep
<1>6. TypeOK'
  BY <1>1, <1>3, <1>4, <1>5 DEF TypeOK, FrameType
<1>7. rust[a] \in Nat /\ table[a].owners \in Nat /\ heap[a].refs \in Nat
  BY <1>1, <1>2 DEF TypeOK
<1>8. HeapTyped'
  BY <1>2, <1>5, <1>7 DEF Accounting, HeapTyped
<1>9. RefsAccounted'
  <2>1. Transit(frame[f], a) = 1 /\ Transit(frame'[f], a) = 0
    BY <1>1, <1>4 DEF Transit, TransitPC
  <2>2. heap'[a].refs - heap[a].refs
          = (table'[a].owners - table[a].owners) + (rust'[a] - rust[a])
            + (Transit(frame'[f], a) - Transit(frame[f], a))
    BY <1>3, <1>5, <1>7, <2>1
  <2>3. heap'[a].refs \in Nat
    BY <1>2, <1>5
  <2> HIDE DEF a
  <2> QED
    BY <1>2, <1>3, <1>4, <1>5, <1>7, <2>2, <2>3, AccountingCount DEF a
<1>10. f \in InTransit(a)
  BY <1>1 DEF InTransit, TransitPC
<1>11. table[a].owners > 0 => heap[a].refs > 1
  BY <1>2, <1>7, <1>10, AccountingFacts
<1>12. ASSUME NEW g \in Frames, frame'[g].pc = "register"
       PROVE  heap'[frame'[g].addr].ptr = frame'[g].ptr
  <2>1. g # f /\ frame'[g] = frame[g]
    BY <1>1, <1>4, <1>12 DEF TypeOK, TransitPC
  <2>2. frame[g].addr \in Addrs
    BY <1>1, <1>12, <2>1, ActiveFrame
  <2>3. CASE frame[g].addr = a
    <3>1. g \in InTransit(a)
      BY <1>12, <2>1, <2>3 DEF InTransit, TransitPC
    <3>2. heap[a].refs > 1
      BY <1>2, <1>7, <1>10, <2>1, <3>1, AccountingFacts
    <3> QED
      BY <1>5, <1>12, <2>1, <2>3, <3>2 DEF Accounting, RecordDescribesMemory
  <2>4. CASE frame[g].addr # a
    BY <1>5, <1>12, <2>1, <2>2, <2>4 DEF Accounting, RecordDescribesMemory
  <2> QED
    BY <2>3, <2>4
<1>13. RecordDescribesMemory'
  BY <1>3, <1>5, <1>11, <1>12 DEF Accounting, RecordDescribesMemory, Registered
<1> QED
  BY <1>6, <1>8, <1>9, <1>13 DEF Accounting

LEMMA AccountingDropValue ==
  ASSUME Accounting, NEW a \in Addrs, DropValue(a)
  PROVE  Accounting'
<1>1. TypeOK
  BY DEF Accounting
<1>2. /\ rust[a] > 0
      /\ rust' = [rust EXCEPT ![a] = @ - 1]
      /\ DropRef(a)
      /\ UNCHANGED <<table, java, frame>>
  BY DEF DropValue
<1>3. rust[a] \in Nat /\ table[a].owners \in Nat /\ heap[a].refs \in Nat
  BY <1>1 DEF TypeOK
<1>4. heap[a].refs > 0 /\ (table[a].owners > 0 => heap[a].refs > 1)
  BY <1>2, <1>3, AccountingFacts
<1>5. \A f \in InTransit(a) : heap[a].refs > 1
  BY <1>2, <1>3, AccountingFacts
<1>6. /\ heap' \in [Addrs -> [ptr : Pointers \cup {NoPointer}, refs : Nat]]
      /\ heap'[a].refs = heap[a].refs - 1
      /\ heap[a].refs > 1 => heap'[a].ptr = heap[a].ptr
      /\ \A b \in Addrs \ {a} : heap'[b] = heap[b]
  BY <1>1, <1>2, <1>4, DropRefStep
<1>7. /\ rust' \in [Addrs -> Nat]
      /\ rust'[a] = rust[a] - 1
      /\ \A b \in Addrs \ {a} : rust'[b] = rust[b]
  BY <1>1, <1>2, <1>3 DEF TypeOK
<1>8. TypeOK' /\ HeapTyped'
  BY <1>1, <1>2, <1>3, <1>6, <1>7 DEF Accounting, TypeOK, HeapTyped
<1>9. RefsAccounted'
  <2> SUFFICES ASSUME NEW b \in Addrs
               PROVE  heap'[b].refs = table'[b].owners + rust'[b] + Cardinality(InTransit(b)')
    BY DEF RefsAccounted
  <2>1. InTransit(b)' = InTransit(b)
    BY <1>2 DEF InTransit
  <2>2. heap[b].refs = table[b].owners + rust[b] + Cardinality(InTransit(b))
    BY DEF Accounting, RefsAccounted
  <2>3. IsFiniteSet(InTransit(b))
    BY FS_Subset, ConstantsAssumption DEF InTransit
  <2>4. Cardinality(InTransit(b)) \in Nat
    BY <2>3, FS_CardinalityType
  <2>5. CASE b = a
    BY <1>2, <1>3, <1>6, <1>7, <2>1, <2>2, <2>4, <2>5
  <2>6. CASE b # a
    BY <1>2, <1>6, <1>7, <2>1, <2>2, <2>6
  <2> QED
    BY <2>5, <2>6
<1>10. ASSUME NEW g \in Frames, frame[g].pc = "register"
       PROVE  heap'[frame[g].addr].ptr = frame[g].ptr
  <2>1. frame[g].addr \in Addrs
    BY <1>1, <1>10, ActiveFrame
  <2>2. frame[g].addr = a => g \in InTransit(a)
    BY <1>10 DEF InTransit, TransitPC
  <2> QED
    BY <1>5, <1>6, <1>10, <2>1, <2>2 DEF Accounting, RecordDescribesMemory
<1>11. RecordDescribesMemory'
  BY <1>2, <1>4, <1>6, <1>10 DEF Accounting, RecordDescribesMemory, Registered
<1> QED
  BY <1>8, <1>9, <1>11 DEF Accounting

-----------------------------------------------------------------------------
LEMMA AccountingNext == Accounting /\ [Next]_vars => Accounting'
<1> SUFFICES ASSUME Accounting, [Next]_vars PROVE Accounting'
  OBVIOUS
<1> USE DEF ActivePC, TransitPC
<1>1. TypeOK
  BY DEF Accounting
<1>2. ASSUME NEW f \in Frames, EnterSome(f) PROVE Accounting'
  BY <1>2, AccountingEnter DEF EnterSome
<1>3. ASSUME NEW f \in Frames, FromRaw(f) PROVE Accounting'
  BY <1>3, AccountingValidate DEF FromRaw
<1>4. ASSUME NEW f \in Frames, FromSome(f) PROVE Accounting'
  BY <1>4, AccountingFromNew, AccountingFromValue DEF FromSome
<1>5. ASSUME NEW f \in Frames, Register(f) PROVE Accounting'
  BY <1>5, AccountingRegister
<1>6. ASSUME NEW f \in Frames, Borrow(f) PROVE Accounting'
  <2>1. Violation(f) \in {"unwind", "panic"}
    BY DEF Violation
  <2>2. CASE Deref(f) \/ DerefMut(f) \/ BorrowMut(f)
    BY <2>1, <2>2, AccountingValidate DEF Deref, DerefMut, BorrowMut
  <2>3. CASE EndUse(f)
    BY <2>3, AccountingGoto DEF EndUse
  <2>4. CASE BeginGuard(f)
    BY <2>4, AccountingBeginGuard
  <2>5. CASE EndGuard(f)
    BY <2>5, AccountingEndGuard
  <2>6. CASE CloneArc(f)
    BY <2>6, AccountingValidate DEF CloneArc
  <2>7. CASE CloneCount(f)
    BY <2>7, AccountingCloneCount
  <2> QED
    BY <1>6, <2>2, <2>3, <2>4, <2>5, <2>6, <2>7 DEF Borrow
<1>7. ASSUME NEW f \in Frames, Consume(f) PROVE Accounting'
  <2>1. CASE IntoInner(f) \/ DropOwned(f)
    BY <2>1, AccountingValidate DEF IntoInner, DropOwned
  <2>2. CASE IntoInnerDereg(f) \/ DropOwnedDereg(f)
    BY <2>2, AccountingDeregister DEF IntoInnerDereg, DropOwnedDereg
  <2>3. CASE IntoInnerTake(f)
    BY <2>3, AccountingTake
  <2>4. CASE DropOwnedFree(f)
    BY <2>4, AccountingFree
  <2> QED
    BY <1>7, <2>1, <2>2, <2>3, <2>4 DEF Consume
<1>8. ASSUME NEW f \in Frames, Leave(f) PROVE Accounting'
  <2>1. CASE GiveToJava(f)
    <3>1. frame[f].addr \in Addrs
      BY <1>1, <2>1, ActiveFrame DEF GiveToJava
    <3>2. java' \in [Addrs -> Nat]
      BY <1>1, <2>1, <3>1 DEF GiveToJava, TypeOK
    <3> QED
      BY <2>1, <3>2, AccountingEnd DEF GiveToJava
  <2>2. CASE Return(f) \/ Throw(f)
    BY <1>1, <2>2, AccountingEnd DEF Return, Throw, TypeOK
  <2>3. CASE UnwindDrop(f)
    BY <2>3, AccountingValidate DEF UnwindDrop
  <2>4. CASE UnwindDereg(f)
    BY <2>4, AccountingDeregister DEF UnwindDereg
  <2> QED
    BY <1>8, <2>1, <2>2, <2>3, <2>4 DEF Leave
<1>9. ASSUME NEW a \in Addrs, DropValue(a) PROVE Accounting'
  BY <1>9, AccountingDropValue
<1>10. CASE UNCHANGED vars
  BY <1>10 DEF vars, Accounting, TypeOK, HeapTyped, RefsAccounted, InTransit,
               RecordDescribesMemory, Registered
<1> QED
  BY <1>2, <1>3, <1>4, <1>5, <1>6, <1>7, <1>8, <1>9, <1>10 DEF Next, Step

\* Whatever Java passes and however the frames interleave: the state is well
\* typed, every reference to an allocation is counted in exactly one place, and
\* a record always describes the allocation at its address.
THEOREM AccountingTheorem == Spec => []Accounting
<1>1. Init => Accounting
  BY AccountingInit
<1>2. Accounting /\ [Next]_vars => Accounting'
  BY AccountingNext
<1> QED
  BY <1>1, <1>2, PTL DEF Spec

\* The side table and the heap keep their types.
THEOREM TypeCorrect == Spec => []TypeOK
BY AccountingTheorem, PTL DEF Accounting

\* No double free: every owner counted by a record, held by Rust or in transit
\* is a reference of the allocation, and no other is.
THEOREM NoDoubleFree == Spec => []RefsAccounted
BY AccountingTheorem, PTL DEF Accounting

\* No address is found registered for an allocation that is gone, so `register`
\* never meets a record of a different type.
THEOREM NoStaleRecord == Spec => []RecordDescribesMemory
BY AccountingTheorem, PTL DEF Accounting

-----------------------------------------------------------------------------
(* What a program is guaranteed without the contract.  Java may pass       *)
(* handles that are stale or of another type, alias a mutable one and keep *)
(* copies; what the table cannot see is only that a handle is consumed     *)
(* while a check of the same object is still relied on.                    *)

\* The frame is between a check that succeeded and the last use of what it checked,
ConsumePC == {"into_dereg", "drop_dereg", "unwind_dereg"}
UsePC     == {"shared", "exclusive", "begin", "guard", "clone"} \cup ConsumePC
ClaimPC   == {"take", "free"}   \* or has taken an owner out of the table.

\* No object is consumed by one frame while another uses it.
ConsumesAlone ==
  \A f, g \in Frames :
    /\ f # g /\ frame[f].addr = frame[g].addr
    /\ frame[g].pc \in ConsumePC
    => frame[f].pc \notin UsePC

\* A pointee is handed to Java by one smart pointer: a record does not say which.
OnePointer == \A p, q \in Pointers : p.target = q.target => p = q

\* What was checked is still so, and memory is reclaimed by the pointer that made it.
Checked(f) ==
  /\ frame[f].pc \in UsePC => Valid(f)
  /\ frame[f].pc \in ClaimPC => heap[frame[f].addr].ptr = frame[f].ptr

AllChecked == Accounting /\ \A f \in Frames : Checked(f)

\* A step of one frame that fits if the records and the memory the others rely
\* on are as they were.
LEMMA CheckedStep ==
  ASSUME AllChecked, Accounting', NEW g \in Frames,
         frame' = [frame EXCEPT ![g] = frame'[g]],
         Checked(g)',
         \A f \in Frames \ {g} :
           /\ frame[f].pc \in UsePC =>
                /\ table'[frame[f].addr].owners > 0
                /\ table'[frame[f].addr].target = table[frame[f].addr].target
           /\ frame[f].pc \in ClaimPC => heap'[frame[f].addr].ptr = heap[frame[f].addr].ptr
  PROVE  AllChecked'
<1>1. ASSUME NEW f \in Frames \ {g} PROVE Checked(f)'
  <2>1. frame'[f] = frame[f]
    BY DEF AllChecked, Accounting, TypeOK
  <2> QED
    BY <2>1 DEF AllChecked, Checked, Valid, Registered
<1> QED
  BY <1>1 DEF AllChecked

\* A step that leaves memory and, but for flags, the table alone, and starts to
\* rely only on a record that is valid.
LEMMA CheckedMove ==
  ASSUME AllChecked, Accounting', NEW g \in Frames,
         frame' = [frame EXCEPT ![g] = frame'[g]],
         \A a \in Addrs : /\ table'[a].owners = table[a].owners
                          /\ table'[a].target = table[a].target
                          /\ heap'[a].ptr = heap[a].ptr,
         frame'[g].pc \notin ClaimPC,
         frame'[g].pc \in UsePC =>
           Valid(g) /\ frame[g].pc # "idle"
           /\ frame'[g].addr = frame[g].addr /\ frame'[g].ptr = frame[g].ptr
  PROVE  AllChecked'
<1>1. TypeOK
  BY DEF AllChecked, Accounting
<1>2. Checked(g)'
  <2>1. frame[g].pc # "idle" => frame[g].addr \in Addrs
    BY <1>1, ActiveFrame
  <2> QED
    BY <2>1 DEF Checked, Valid, Registered
<1>3. ASSUME NEW f \in Frames \ {g}, frame[f].pc \in UsePC \cup ClaimPC
      PROVE  /\ frame[f].addr \in Addrs
             /\ frame[f].pc \in UsePC => table[frame[f].addr].owners > 0
  <2>1. frame[f].pc # "idle"
    BY <1>3 DEF UsePC, ConsumePC, ClaimPC
  <2> QED
    BY <1>1, <2>1, ActiveFrame DEF AllChecked, Checked, Valid, Registered
<1> QED
  BY <1>2, <1>3, CheckedStep

LEMMA CheckedGoto ==
  ASSUME AllChecked, Accounting', NEW g \in Frames, frame[g].pc # "idle",
         NEW to \in ActivePC, Goto(g, to), UNCHANGED heap,
         \A a \in Addrs : /\ table'[a].owners = table[a].owners
                          /\ table'[a].target = table[a].target,
         to \notin ClaimPC, to \in UsePC => Valid(g)
  PROVE  AllChecked'
<1>1. TypeOK
  BY DEF AllChecked, Accounting
<1> QED
  BY <1>1, GotoStep, CheckedMove

LEMMA CheckedValidate ==
  ASSUME AllChecked, Accounting', NEW g \in Frames,
         NEW from \in ActivePC, NEW to \in ActivePC, NEW failed \in ActivePC,
         to \notin ClaimPC, failed \notin ClaimPC \cup UsePC,
         Validate(g, from, to, failed)
  PROVE  AllChecked'
<1>1. from # "idle" /\ frame[g].pc = from /\ UNCHANGED <<table, heap>>
  BY DEF ActivePC, Validate
<1>2. CASE Valid(g)
  BY <1>1, <1>2, CheckedGoto DEF Validate
<1>3. CASE ~Valid(g)
  BY <1>1, <1>3, CheckedGoto DEF Validate
<1> QED
  BY <1>2, <1>3

LEMMA CheckedEnd ==
  ASSUME AllChecked, Accounting', NEW g \in Frames, End(g), UNCHANGED <<table, heap>>
  PROVE  AllChecked'
<1>1. TypeOK
  BY DEF AllChecked, Accounting
<1>2. Idle.pc \notin UsePC \cup ClaimPC
  BY DEF Idle, UsePC, ConsumePC, ClaimPC
<1> QED
  BY <1>1, <1>2, EndStep, CheckedMove

\* An owner more: whoever relies on a record there finds it, as it was.
LEMMA CheckedRegister ==
  ASSUME AllChecked, Accounting', NEW g \in Frames, Register(g)
  PROVE  AllChecked'
<1> DEFINE a == frame[g].addr
<1>1. TypeOK /\ frame[g].pc = "register" /\ frame[g].pc # "idle"
  BY DEF AllChecked, Accounting, Register
<1>2. CASE Registered(a) /\ table[a].target # frame[g].ptr.target
  <2>1. Goto(g, "panic") /\ UNCHANGED <<table, heap>>
    BY <1>2 DEF Register
  <2> QED
    BY <1>1, <2>1, CheckedGoto DEF ActivePC, UsePC, ConsumePC, ClaimPC
<1>3. CASE ~(Registered(a) /\ table[a].target # frame[g].ptr.target)
  <2>1. /\ table' = IF Registered(a) THEN [table EXCEPT ![a].owners = @ + 1]
                    ELSE [table EXCEPT ![a] = [target |-> frame[g].ptr.target,
                                               owners |-> 1, guarded |-> FALSE]]
        /\ Goto(g, "body") /\ UNCHANGED heap
    BY <1>3 DEF Register
  <2>2. frame' = [frame EXCEPT ![g] = frame'[g]] /\ frame'[g].pc = "body"
    BY <1>1, <2>1, GotoStep DEF ActivePC
  <2>3. Checked(g)'
    BY <2>2 DEF Checked, UsePC, ConsumePC, ClaimPC
  <2>4. ASSUME NEW f \in Frames \ {g}, frame[f].pc \in UsePC
        PROVE  /\ table'[frame[f].addr].owners > 0
               /\ table'[frame[f].addr].target = table[frame[f].addr].target
    <3>1. Registered(frame[f].addr)
      BY <2>4 DEF AllChecked, Checked, Valid
    <3>2. frame[f].addr \in Addrs
      BY <1>1, <2>4, ActiveFrame DEF UsePC, ConsumePC
    <3>3. table[frame[f].addr].owners \in Nat
      BY <1>1, <3>2 DEF TypeOK
    <3> QED
      BY <1>1, <2>1, <3>1, <3>2, <3>3 DEF TypeOK, Registered
  <2> QED
    BY <2>1, <2>2, <2>3, <2>4, CheckedStep
<1> QED
  BY <1>2, <1>3

\* What is consumed is relied on by nobody else, and was checked to be the frame's.
LEMMA CheckedDeregister ==
  ASSUME AllChecked, Accounting', ConsumesAlone, OnePointer, NEW g \in Frames,
         NEW from \in ConsumePC, NEW to \in ClaimPC, NEW failed \in {"panic", "abort"},
         Deregister(g, from, to, failed)
  PROVE  AllChecked'
<1> DEFINE a == frame[g].addr
<1>1. TypeOK /\ frame[g].pc = from /\ frame[g].pc # "idle"
  BY DEF AllChecked, Accounting, Deregister, ConsumePC
<1>2. a \in Addrs /\ frame[g].ptr \in Pointers
  BY <1>1, ActiveFrame
<1>3. Valid(g)
  BY <1>1 DEF AllChecked, Checked, UsePC
<1>4. /\ table' = IF table[a].owners = 1 THEN [table EXCEPT ![a] = NoRecord]
                                         ELSE [table EXCEPT ![a].owners = @ - 1]
      /\ Goto(g, to) /\ UNCHANGED heap
  BY <1>3 DEF Deregister, Valid
<1>5. /\ frame' = [frame EXCEPT ![g] = frame'[g]]
      /\ frame'[g].pc = to /\ frame'[g].addr = a /\ frame'[g].ptr = frame[g].ptr
  BY <1>1, <1>4, GotoStep DEF ActivePC, ClaimPC
<1>6. heap[a].ptr = frame[g].ptr
  <2>1. heap[a].ptr.target = frame[g].ptr.target
    BY <1>2, <1>3 DEF Valid, AllChecked, Accounting, RecordDescribesMemory
  <2>2. heap[a].refs > 0
    BY <1>2, <1>3, AccountingFacts DEF Valid, Registered, AllChecked
  <2>3. heap[a].ptr \in Pointers
    BY <1>2, <2>2 DEF AllChecked, Accounting, HeapTyped
  <2> QED
    BY <1>2, <2>1, <2>3 DEF OnePointer
<1>7. Checked(g)'
  BY <1>4, <1>5, <1>6 DEF Checked, UsePC, ConsumePC, ClaimPC
<1>8. ASSUME NEW f \in Frames \ {g}, frame[f].pc \in UsePC
      PROVE  /\ table'[frame[f].addr].owners > 0
             /\ table'[frame[f].addr].target = table[frame[f].addr].target
  <2>1. frame[f].addr # a
    BY <1>1, <1>8 DEF ConsumesAlone
  <2>2. frame[f].addr \in Addrs
    BY <1>1, <1>8, ActiveFrame DEF UsePC, ConsumePC
  <2>3. table'[frame[f].addr] = table[frame[f].addr]
    BY <1>1, <1>4, <2>1, <2>2 DEF TypeOK
  <2> QED
    BY <1>8, <2>3 DEF AllChecked, Checked, Valid, Registered
<1> QED
  BY <1>4, <1>5, <1>7, <1>8, CheckedStep

\* Memory that somebody still claims is not let go: each claim is a reference.
LEMMA ClaimsStay ==
  ASSUME AllChecked, NEW a \in Addrs, NEW f \in Frames,
         frame[f].addr = a, frame[f].pc \in ClaimPC
  PROVE  /\ heap[a].refs \in Nat /\ heap[a].refs >= 1
         /\ rust[a] > 0 => heap[a].refs > 1
         /\ \A g \in Frames \ {f} : frame[g].addr = a /\ frame[g].pc \in ClaimPC => heap[a].refs > 1
<1>1. f \in InTransit(a)
  BY DEF InTransit, TransitPC, ClaimPC
<1>2. \A g \in Frames \ {f} : frame[g].addr = a /\ frame[g].pc \in ClaimPC => g \in InTransit(a)
  BY DEF InTransit, TransitPC, ClaimPC
<1> QED
  BY <1>1, <1>2, AccountingFacts DEF AllChecked

LEMMA CheckedFromNew ==
  ASSUME AllChecked, Accounting', NEW g \in Frames, NEW a \in Addrs, NEW p \in Pointers,
         FromNew(g, a, p)
  PROVE  AllChecked'
<1>1. TypeOK /\ heap[a].refs = 0 /\ table' = table
      /\ heap' = [heap EXCEPT ![a] = [ptr |-> p, refs |-> 1]]
  BY DEF AllChecked, Accounting, FromNew
<1>2. frame' = [frame EXCEPT ![g] = frame'[g]] /\ frame'[g].pc = "register"
  BY <1>1 DEF FromNew, TypeOK
<1>3. Checked(g)'
  BY <1>2 DEF Checked, UsePC, ConsumePC, ClaimPC
<1>4. ASSUME NEW f \in Frames, frame[f].pc \in ClaimPC
      PROVE  heap'[frame[f].addr].ptr = heap[frame[f].addr].ptr
  <2>1. frame[f].addr \in Addrs
    BY <1>1, <1>4, ActiveFrame DEF ClaimPC
  <2>2. frame[f].addr # a
    BY <1>1, <1>4, <2>1, ClaimsStay
  <2> QED
    BY <1>1, <2>1, <2>2 DEF TypeOK
<1> QED
  BY <1>1, <1>2, <1>3, <1>4, CheckedStep DEF AllChecked, Checked, Valid, Registered

LEMMA CheckedFree ==
  ASSUME AllChecked, Accounting', NEW g \in Frames, DropOwnedFree(g)
  PROVE  AllChecked'
<1> DEFINE a == frame[g].addr
<1>1. TypeOK /\ frame[g].pc = "free" /\ table' = table /\ DropRef(a) /\ End(g)
  BY DEF AllChecked, Accounting, DropOwnedFree
<1>2. frame' = [frame EXCEPT ![g] = frame'[g]] /\ frame'[g] = Idle
  BY <1>1, EndStep
<1>3. Checked(g)'
  BY <1>2 DEF Checked, Idle, UsePC, ConsumePC, ClaimPC
<1>4. a \in Addrs
  BY <1>1, ActiveFrame
<1>5. ASSUME NEW f \in Frames \ {g}, frame[f].pc \in ClaimPC
      PROVE  heap'[frame[f].addr].ptr = heap[frame[f].addr].ptr
  <2>1. frame[f].addr \in Addrs
    BY <1>1, <1>5, ActiveFrame DEF ClaimPC
  <2>2. heap[a].refs > 0
    BY <1>1, <1>4, ClaimsStay DEF ClaimPC
  <2>3. frame[f].addr = a => heap[a].refs > 1
    BY <1>1, <1>4, <1>5, ClaimsStay DEF ClaimPC
  <2> HIDE DEF a
  <2> QED
    BY <1>1, <1>4, <2>1, <2>2, <2>3, DropRefStep
<1> QED
  BY <1>1, <1>2, <1>3, <1>5, CheckedStep DEF AllChecked, Checked, Valid, Registered

LEMMA CheckedDropValue ==
  ASSUME AllChecked, Accounting', NEW a \in Addrs, DropValue(a)
  PROVE  AllChecked'
<1>1. TypeOK /\ table' = table /\ frame' = frame /\ rust[a] > 0 /\ DropRef(a)
  BY DEF AllChecked, Accounting, DropValue
<1>2. ASSUME NEW f \in Frames, frame[f].pc \in ClaimPC
      PROVE  heap'[frame[f].addr].ptr = heap[frame[f].addr].ptr
  <2>1. frame[f].addr \in Addrs
    BY <1>1, <1>2, ActiveFrame DEF ClaimPC
  <2>2. heap[a].refs > 0
    BY <1>1, AccountingFacts DEF AllChecked
  <2>3. frame[f].addr = a => heap[a].refs > 1
    BY <1>1, <1>2, ClaimsStay
  <2> QED
    BY <1>1, <2>1, <2>2, <2>3, DropRefStep
<1> QED
  BY <1>1, <1>2 DEF AllChecked, Checked, Valid, Registered

LEMMA CheckedNext ==
  ASSUME OnePointer
  PROVE  AllChecked /\ ConsumesAlone /\ [Next]_vars => AllChecked'
<1> SUFFICES ASSUME AllChecked, ConsumesAlone, [Next]_vars PROVE AllChecked'
  OBVIOUS
<1> USE DEF ActivePC, UsePC, ConsumePC, ClaimPC
<1>1. TypeOK /\ Accounting'
  BY AccountingNext DEF AllChecked, Accounting
<1>2. ASSUME NEW f \in Frames, EnterSome(f) \/ \E a \in Addrs : FromValue(f, a) PROVE AllChecked'
  <2>1. /\ UNCHANGED <<table, heap>>
        /\ frame' = [frame EXCEPT ![f] = frame'[f]]
        /\ frame'[f].pc \in {"body", "from_raw", "register"}
    BY <1>1, <1>2 DEF EnterSome, Enter, Pass, FromValue, TypeOK
  <2> QED
    BY <1>1, <2>1, CheckedMove
<1>3. ASSUME NEW f \in Frames, FromRaw(f) PROVE AllChecked'
  BY <1>1, <1>3, CheckedValidate DEF FromRaw
<1>4. ASSUME NEW f \in Frames, FromSome(f) PROVE AllChecked'
  BY <1>1, <1>2, <1>4, CheckedFromNew DEF FromSome
<1>5. ASSUME NEW f \in Frames, Register(f) PROVE AllChecked'
  BY <1>1, <1>5, CheckedRegister
<1>6. ASSUME NEW f \in Frames, Borrow(f) PROVE AllChecked'
  <2>1. Violation(f) \in {"unwind", "panic"}
    BY DEF Violation
  <2>2. CASE Deref(f) \/ DerefMut(f) \/ BorrowMut(f)
    BY <1>1, <2>1, <2>2, CheckedValidate DEF Deref, DerefMut, BorrowMut
  <2>3. CASE EndUse(f)
    BY <1>1, <2>3, CheckedGoto DEF EndUse
  <2>4. CASE BeginGuard(f)
    <3>1. frame[f].pc = "begin" /\ Valid(f) /\ UNCHANGED heap
      BY <2>4 DEF BeginGuard, AllChecked, Checked
    <3>2. \A a \in Addrs : table'[a].owners = table[a].owners /\ table'[a].target = table[a].target
      BY <1>1, <2>4 DEF BeginGuard, TypeOK
    <3>3. Goto(f, Violation(f)) \/ Goto(f, "guard")
      BY <2>4 DEF BeginGuard
    <3> QED
      BY <1>1, <2>1, <3>1, <3>2, <3>3, CheckedGoto
  <2>5. CASE EndGuard(f)
    <3>1. frame[f].pc = "guard" /\ UNCHANGED heap /\ Goto(f, "body")
      BY <2>5 DEF EndGuard
    <3>2. \A a \in Addrs : table'[a].owners = table[a].owners /\ table'[a].target = table[a].target
      BY <1>1, <2>5 DEF EndGuard, TypeOK
    <3> QED
      BY <1>1, <3>1, <3>2, CheckedGoto
  <2>6. CASE CloneArc(f)
    BY <1>1, <2>6, CheckedValidate DEF CloneArc
  <2>7. CASE CloneCount(f)
    <3>1. frame[f].pc = "clone" /\ frame[f].pc # "idle" /\ Goto(f, "body") /\ table' = table
      BY <2>7 DEF CloneCount
    <3>2. \A a \in Addrs : heap'[a].ptr = heap[a].ptr
      BY <1>1, <2>7 DEF CloneCount, TypeOK
    <3>3. frame' = [frame EXCEPT ![f] = frame'[f]] /\ frame'[f].pc = "body"
      BY <1>1, <3>1, GotoStep
    <3> QED
      BY <1>1, <3>1, <3>2, <3>3, CheckedMove
  <2> QED
    BY <1>6, <2>2, <2>3, <2>4, <2>5, <2>6, <2>7 DEF Borrow
<1>7. ASSUME NEW f \in Frames, Consume(f) PROVE AllChecked'
  <2>1. CASE IntoInner(f) \/ DropOwned(f)
    BY <1>1, <2>1, CheckedValidate DEF IntoInner, DropOwned
  <2>2. CASE IntoInnerDereg(f) \/ DropOwnedDereg(f)
    BY <1>1, <2>2, CheckedDeregister DEF IntoInnerDereg, DropOwnedDereg
  <2>3. CASE IntoInnerTake(f)
    BY <1>1, <2>3, CheckedEnd DEF IntoInnerTake
  <2>4. CASE DropOwnedFree(f)
    BY <1>1, <2>4, CheckedFree
  <2> QED
    BY <1>7, <2>1, <2>2, <2>3, <2>4 DEF Consume
<1>8. ASSUME NEW f \in Frames, Leave(f) PROVE AllChecked'
  <2>1. CASE GiveToJava(f) \/ Return(f) \/ Throw(f)
    BY <1>1, <2>1, CheckedEnd DEF GiveToJava, Return, Throw
  <2>2. CASE UnwindDrop(f)
    BY <1>1, <2>2, CheckedValidate DEF UnwindDrop
  <2>3. CASE UnwindDereg(f)
    BY <1>1, <2>3, CheckedDeregister DEF UnwindDereg
  <2> QED
    BY <1>8, <2>1, <2>2, <2>3 DEF Leave
<1>9. ASSUME NEW a \in Addrs, DropValue(a) PROVE AllChecked'
  BY <1>1, <1>9, CheckedDropValue
<1>10. CASE UNCHANGED vars
  BY <1>1, <1>10 DEF vars, AllChecked, Checked, Valid, Registered
<1> QED
  BY <1>3, <1>4, <1>5, <1>6, <1>7, <1>8, <1>9, <1>10, <1>2 DEF Next, Step

LEMMA CheckedInit == Init => AllChecked
<1>1. Init => \A f \in Frames : Checked(f)
  BY DEF Init, Checked, Idle, UsePC, ConsumePC, ClaimPC
<1> QED
  BY <1>1, AccountingInit DEF AllChecked

LEMMA CheckedIsSound ==
  ASSUME OnePointer
  PROVE  AllChecked => SoundAccess
<1> SUFFICES ASSUME AllChecked, NEW f \in Frames, frame[f].pc \in UsePC \cup ClaimPC
             PROVE  /\ frame[f].pc \in UsePC => PointeeLive(f)
                    /\ Owns(f)
  BY DEF SoundAccess, UsePC, ClaimPC
<1> DEFINE a == frame[f].addr
<1>1. TypeOK /\ frame[f].pc # "idle"
  BY DEF AllChecked, Accounting, UsePC, ConsumePC, ClaimPC
<1>2. a \in Addrs /\ frame[f].ptr \in Pointers
  BY <1>1, ActiveFrame
<1>3. CASE frame[f].pc \in UsePC
  <2>1. Valid(f)
    BY <1>3 DEF AllChecked, Checked
  <2>2. heap[a].ptr.target = frame[f].ptr.target
    BY <1>2, <2>1 DEF Valid, AllChecked, Accounting, RecordDescribesMemory
  <2>3. heap[a].refs > 0
    BY <1>2, <2>1, AccountingFacts DEF Valid, Registered, AllChecked
  <2>4. heap[a].ptr \in Pointers
    BY <1>2, <2>3 DEF AllChecked, Accounting, HeapTyped
  <2> QED
    BY <1>2, <2>2, <2>3, <2>4 DEF OnePointer, PointeeLive, Owns
<1>4. CASE frame[f].pc \in ClaimPC
  <2>1. heap[a].refs > 0
    BY <1>2, <1>4, ClaimsStay
  <2> QED
    BY <1>4, <2>1 DEF AllChecked, Checked, Owns, UsePC, ConsumePC, ClaimPC
<1> QED
  BY <1>3, <1>4

\* Whatever Java passes, every access is sound as long as nothing is consumed
\* while another handle of it is in use: "the panic is raised before any unsafe
\* dereference" (registry.rs:4-5) fails in no other way.
THEOREM OnlyRacesAreUnsound ==
  ASSUME OnePointer
  PROVE  Spec /\ []ConsumesAlone => []SoundAccess
<1>1. Init => AllChecked
  BY CheckedInit
<1>2. AllChecked /\ ConsumesAlone /\ [Next]_vars => AllChecked'
  BY CheckedNext
<1>3. AllChecked => SoundAccess
  BY CheckedIsSound
<1> QED
  BY <1>1, <1>2, <1>3, PTL DEF Spec

\* With one handle in native code at a time, the checks are enough.
THEOREM OneHandleIsSound ==
  ASSUME OnePointer, \A f, g \in Frames : f = g
  PROVE  Spec => []SoundAccess
<1>1. ConsumesAlone
  BY DEF ConsumesAlone
<1> QED
  BY <1>1, OnlyRacesAreUnsound, PTL

-----------------------------------------------------------------------------
(* What a program is guaranteed whose Java side keeps the contract: no      *)
(* check ever fails, every access is sound and every `&mut` is alone.       *)

\* What native code may rely on for every handle it holds.
FrameFits(f) ==
  LET a == frame[f].addr
  IN  /\ heap[a].ptr = frame[f].ptr
      /\ frame[f].role # "Owned" => java[a] > 0
      /\ frame[f].role = "Mut" /\ frame[f].ptr.smart = "Box" => Users(a) = {f}
      /\ frame[f].role = "Owned" => frame[f].pc \in ArmedPC \cup TransitPC
      /\ frame[f].pc \in TransitPC \cup {"into_dereg", "drop_dereg"} => frame[f].role = "Owned"
      /\ frame[f].pc = "clone" => frame[f].role = "Ref" /\ frame[f].ptr.smart = "Arc"
      /\ frame[f].pc \in {"exclusive", "begin", "guard"}
           => frame[f].role # "Ref" /\ frame[f].ptr.smart = "Box"

FramesFit == \A f \in Frames : frame[f].pc # "idle" => FrameFits(f)

\* A Box has one owner.
BoxIsUnique == \A a \in Addrs : heap[a].ptr.smart = "Box" => heap[a].refs <= 1

Contract == /\ Accounting
            /\ FramesFit
            /\ BoxIsUnique
            /\ OwnersAreHandles
            /\ NoFalseAlarm
            /\ GuardFlagExact

-----------------------------------------------------------------------------
(* What the invariant says of a state.                                     *)

LEMMA ArmedFinite ==
  ASSUME NEW a
  PROVE  IsFiniteSet(Armed(a)) /\ Cardinality(Armed(a)) \in Nat
<1>1. IsFiniteSet(Armed(a))
  BY FS_Subset, ConstantsAssumption DEF Armed
<1> QED
  BY <1>1, FS_CardinalityType

\* The owner count covers the handles of Java and of native code.
LEMMA OwnersFacts ==
  ASSUME Contract, NEW a \in Addrs
  PROVE  /\ table[a].owners \in Nat /\ java[a] \in Nat /\ rust[a] \in Nat /\ heap[a].refs \in Nat
         /\ java[a] <= table[a].owners
         /\ \A f \in Armed(a) : java[a] + 1 <= table[a].owners
         /\ \A f, g \in Armed(a) : f # g => java[a] + 2 <= table[a].owners
<1> DEFINE S == Armed(a)
<1>1. table[a].owners \in Nat /\ java[a] \in Nat /\ rust[a] \in Nat /\ heap[a].refs \in Nat
  BY DEF Contract, Accounting, TypeOK
<1>2. table[a].owners = java[a] + Cardinality(S)
  BY DEF Contract, OwnersAreHandles
<1>3. IsFiniteSet(S) /\ Cardinality(S) \in Nat
  BY ArmedFinite
<1> HIDE DEF S
<1>4. ASSUME NEW f \in S
      PROVE  /\ IsFiniteSet(S \ {f})
             /\ Cardinality(S \ {f}) \in Nat
             /\ Cardinality(S) = Cardinality(S \ {f}) + 1
  <2>1. IsFiniteSet(S \ {f}) /\ Cardinality(S \ {f}) = Cardinality(S) - 1
    BY <1>3, FS_RemoveElement
  <2>2. Cardinality(S \ {f}) \in Nat
    BY <2>1, FS_CardinalityType
  <2> QED
    BY <1>3, <2>1, <2>2
<1>5. ASSUME NEW f \in S
      PROVE  Cardinality(S) >= 1
  <2>1. Cardinality(S \ {f}) \in Nat /\ Cardinality(S) = Cardinality(S \ {f}) + 1
    BY <1>4
  <2> QED
    BY <2>1
<1>6. ASSUME NEW f \in S, NEW g \in S, f # g
      PROVE  Cardinality(S) >= 2
  <2>1. /\ IsFiniteSet(S \ {f}) /\ Cardinality(S \ {f}) \in Nat
        /\ Cardinality(S) = Cardinality(S \ {f}) + 1
    BY <1>4
  <2>2. g \in S \ {f}
    BY <1>6
  <2>3. Cardinality(S \ {f}) # 0
    BY <2>1, <2>2, FS_EmptySet
  <2> QED
    BY <2>1, <2>3
<1> QED
  BY <1>1, <1>2, <1>3, <1>5, <1>6 DEF S

\* A frame is in transit, or its handle is counted by the record of its address.
LEMMA Backed ==
  ASSUME Contract, NEW f \in Frames, frame[f].pc # "idle"
  PROVE  /\ frame[f] \in [pc : ActivePC, addr : Addrs, ptr : Pointers, role : Roles]
         /\ frame[f].addr \in Addrs /\ frame[f].ptr \in Pointers
         /\ heap[frame[f].addr].ptr = frame[f].ptr
         /\ heap[frame[f].addr].refs >= 1
         /\ \/ f \in InTransit(frame[f].addr)
            \/ table[frame[f].addr].owners >= 1 /\ Valid(f)
<1> DEFINE a == frame[f].addr
<1>1. TypeOK /\ Accounting /\ FrameFits(f)
  BY DEF Contract, Accounting, FramesFit
<1>2. /\ frame[f] \in [pc : ActivePC, addr : Addrs, ptr : Pointers, role : Roles]
      /\ a \in Addrs /\ frame[f].ptr \in Pointers /\ frame[f].role \in Roles
  BY <1>1, ActiveFrame
<1>3. heap[a].ptr = frame[f].ptr
  BY <1>1 DEF FrameFits
<1>4. f \in InTransit(a) \/ table[a].owners >= 1
  <2>1. CASE frame[f].role # "Owned"
    <3>1. java[a] > 0
      BY <1>1, <2>1 DEF FrameFits
    <3> QED
      BY <1>2, <3>1, OwnersFacts
  <2>2. CASE frame[f].role = "Owned" /\ frame[f].pc \in ArmedPC
    <3>1. f \in Armed(a)
      BY <2>2 DEF Armed
    <3> QED
      BY <1>2, <3>1, OwnersFacts
  <2>3. CASE frame[f].role = "Owned" /\ frame[f].pc \in TransitPC
    BY <2>3 DEF InTransit
  <2> QED
    BY <1>1, <2>1, <2>2, <2>3 DEF FrameFits
<1>5. heap[a].refs >= 1
  BY <1>1, <1>2, <1>4, AccountingFacts
<1>6. table[a].owners >= 1 => Valid(f)
  BY <1>1, <1>2, <1>3 DEF Accounting, RecordDescribesMemory, Valid, Registered, TypeOK
<1> QED
  BY <1>2, <1>3, <1>4, <1>5, <1>6

\* A frame that may write is alone at its address.
LEMMA WriterIsAlone ==
  ASSUME Contract, NEW f \in Frames, frame[f].pc # "idle",
         frame[f].ptr.smart = "Box",
         frame[f].role = "Mut" \/ f \in Armed(frame[f].addr)
  PROVE  Users(frame[f].addr) = {f}
<1> DEFINE a == frame[f].addr
<1>1. FrameFits(f)
  BY DEF Contract, FramesFit
<1>2. CASE frame[f].role = "Mut"
  BY <1>1, <1>2 DEF FrameFits
<1>3. CASE f \in Armed(a)
  <2>1. a \in Addrs /\ heap[a].ptr.smart = "Box" /\ heap[a].refs >= 1
    BY Backed
  <2>2. heap[a].refs <= 1
    BY <2>1 DEF Contract, BoxIsUnique
  <2>3. Accounting
    BY DEF Contract
  <2>4. /\ heap[a].refs \in Nat /\ table[a].owners \in Nat /\ rust[a] \in Nat /\ java[a] \in Nat
        /\ table[a].owners = 1 /\ java[a] = 0
    BY <1>3, <2>1, <2>2, <2>3, OwnersFacts, AccountingFacts
  <2>5. InTransit(a) = {}
    BY <2>1, <2>2, <2>3, <2>4, AccountingFacts
  <2>6. ASSUME NEW g \in Frames, frame[g].addr = a, g # f
        PROVE  FALSE
    <3>1. frame[g].pc # "idle"
      BY <2>1, <2>3, <2>6, ConstantsAssumption DEF Accounting, TypeOK, Idle, ActivePC
    <3>2. FrameFits(g)
      BY <3>1 DEF Contract, FramesFit
    <3>3. frame[g].role = "Owned"
      BY <2>4, <2>6, <3>2 DEF FrameFits
    <3>4. frame[g].pc \notin TransitPC
      BY <2>5, <2>6 DEF InTransit
    <3>5. g \in Armed(a)
      BY <2>6, <3>2, <3>3, <3>4 DEF FrameFits, Armed
    <3> QED
      BY <1>3, <2>1, <2>4, <2>6, <3>5, OwnersFacts
  <2> QED
    BY <2>6 DEF Users
<1> QED
  BY <1>2, <1>3

-----------------------------------------------------------------------------
(* How steps change the owners and the frames of an address.               *)

\* 1 if the frame value v carries an owner at a.
Carries(v, a) == IF v.addr = a /\ v.role = "Owned" /\ v.pc \in ArmedPC THEN 1 ELSE 0

\* A step of f at one address changes owners and handles by the same amount.
Balanced(f, a) ==
  /\ frame' = [frame EXCEPT ![f] = frame'[f]]
  /\ Carries(frame[f], a) = 1 \/ \A b \in Addrs : Carries(frame[f], b) = 0
  /\ Carries(frame'[f], a) = 1 \/ \A b \in Addrs : Carries(frame'[f], b) = 0
  /\ \A b \in Addrs \ {a} : table'[b].owners = table[b].owners /\ java'[b] = java[b]
  /\ table'[a].owners \in Nat /\ java'[a] \in Nat
  /\ table'[a].owners + java[a] + Carries(frame[f], a)
       = table[a].owners + java'[a] + Carries(frame'[f], a)

LEMMA OwnersCount ==
  ASSUME Contract, NEW f \in Frames, NEW a \in Addrs, Balanced(f, a)
  PROVE  OwnersAreHandles'
<1> SUFFICES ASSUME NEW b \in Addrs
             PROVE  table'[b].owners = java'[b] + Cardinality(Armed(b)')
  BY DEF OwnersAreHandles
<1>1. TypeOK
  BY DEF Contract, Accounting
<1>2. table[b].owners = java[b] + Cardinality(Armed(b))
  BY DEF Contract, OwnersAreHandles
<1>3. table[b].owners \in Nat /\ java[b] \in Nat
  BY <1>1 DEF TypeOK
<1>4. /\ f \in Armed(b)  <=> Carries(frame[f], b) = 1
      /\ f \in Armed(b)' <=> Carries(frame'[f], b) = 1
      /\ Carries(frame[f], b) \in {0, 1} /\ Carries(frame'[f], b) \in {0, 1}
  BY DEF Armed, Carries
<1>5. IsFiniteSet(Armed(b)) /\ Armed(b) \ {f} = Armed(b)' \ {f}
  BY <1>1, ArmedFinite DEF Armed, TypeOK, Balanced
<1>6. /\ Cardinality(Armed(b)) \in Nat
      /\ Cardinality(Armed(b)') \in Nat
      /\ Cardinality(Armed(b)') + Carries(frame[f], b) = Cardinality(Armed(b)) + Carries(frame'[f], b)
  BY <1>4, <1>5, OneMember
<1>7. CASE b = a
  <2>1. Carries(frame[f], b) \in Nat /\ Carries(frame'[f], b) \in Nat
    BY <1>4
  <2>2. /\ table'[b].owners \in Nat /\ java'[b] \in Nat
        /\ table'[b].owners + java[b] + Carries(frame[f], b)
             = table[b].owners + java'[b] + Carries(frame'[f], b)
    BY <1>7 DEF Balanced
  <2> QED
    BY <1>2, <1>3, <1>6, <2>1, <2>2
<1>8. CASE b # a
  <2>1. table'[b].owners = table[b].owners /\ java'[b] = java[b]
    BY <1>8 DEF Balanced
  <2>2. Carries(frame[f], b) = 0 /\ Carries(frame'[f], b) = 0
    BY <1>8 DEF Carries, Balanced
  <2>3. Cardinality(Armed(b)') = Cardinality(Armed(b))
    BY <1>6, <2>2
  <2> QED
    BY <1>2, <2>1, <2>3
<1> QED
  BY <1>7, <1>8

\* The frames other than the one that moves still fit, if the memory and the
\* handles that back them are still there and nobody joins them.
LEMMA OthersFit ==
  ASSUME Contract, NEW f \in Frames, NEW g \in Frames \ {f},
         frame' = [frame EXCEPT ![f] = frame'[f]],
         frame[g].pc # "idle",
         heap'[frame[g].addr].ptr = heap[frame[g].addr].ptr,
         frame[g].role # "Owned" => java'[frame[g].addr] > 0,
         frame'[f].addr = frame[g].addr
           => \/ frame[f].addr = frame[g].addr
              \/ ~(frame[g].role = "Mut" /\ frame[g].ptr.smart = "Box")
  PROVE  frame'[g] = frame[g] /\ FrameFits(g)'
<1>1. frame'[g] = frame[g] /\ FrameFits(g)
  BY DEF Contract, Accounting, TypeOK, FramesFit
<1>2. frame[g].role = "Mut" /\ frame[g].ptr.smart = "Box"
        => Users(frame[g].addr)' = {g}
  <2> SUFFICES ASSUME frame[g].role = "Mut", frame[g].ptr.smart = "Box"
               PROVE  Users(frame[g].addr)' = {g}
    OBVIOUS
  <2>1. Users(frame[g].addr) = {g}
    BY <1>1 DEF FrameFits
  <2>2. frame'[f].addr # frame[g].addr
    BY <2>1 DEF Users
  <2>3. \A h \in Frames : h # f => frame'[h] = frame[h]
    BY DEF Contract, Accounting, TypeOK
  <2> QED
    BY <2>1, <2>2, <2>3 DEF Users
<1> QED
  BY <1>1, <1>2 DEF FrameFits

-----------------------------------------------------------------------------
\* A step that only moves a frame from one place in native code to another.
LEMMA ContractGoto ==
  ASSUME Contract, Accounting', NEW f \in Frames, frame[f].pc # "idle",
         NEW to \in ActivePC, Goto(f, to), UNCHANGED <<table, heap, java>>,
         frame[f].pc \notin TransitPC \cup {"guard"},
         to \notin TransitPC \cup {"guard", "panic", "unwind", "unwind_dereg", "abort"},
         frame[f].role = "Owned" => to \in ArmedPC,
         to \in {"into_dereg", "drop_dereg"} => frame[f].role = "Owned",
         to = "clone" => frame[f].role = "Ref" /\ frame[f].ptr.smart = "Arc",
         to \in {"exclusive", "begin"} => frame[f].role # "Ref" /\ frame[f].ptr.smart = "Box"
  PROVE  Contract'
<1> DEFINE a == frame[f].addr
<1>1. TypeOK /\ FrameFits(f)
  BY DEF Contract, Accounting, FramesFit
<1>2. a \in Addrs
  BY Backed
<1>3. /\ frame' = [frame EXCEPT ![f] = frame'[f]]
      /\ frame'[f].pc = to
      /\ frame'[f].addr = a
      /\ frame'[f].ptr = frame[f].ptr
      /\ frame'[f].role = frame[f].role
      /\ \A g \in Frames \ {f} : frame'[g] = frame[g]
  BY <1>1, GotoStep DEF TypeOK
<1>4. \A b : Users(b)' = Users(b)
  BY <1>3 DEF Users
<1>5. FrameFits(f)'
  BY <1>1, <1>3, <1>4 DEF FrameFits
<1>6. FramesFit'
  <2> SUFFICES ASSUME NEW g \in Frames, frame'[g].pc # "idle"
               PROVE  FrameFits(g)'
    BY DEF FramesFit
  <2>1. CASE g # f
    <3>1. FrameFits(g)
      BY <1>3, <2>1 DEF Contract, FramesFit
    <3> QED
      BY <1>3, <1>4, <2>1, <3>1 DEF FrameFits
  <2> QED
    BY <1>5, <2>1
<1>7. OwnersAreHandles'
  <2>1. frame[f].role = "Owned" => frame[f].pc \in ArmedPC
    BY <1>1 DEF FrameFits
  <2>2. \A b : Armed(b)' = Armed(b)
    BY <1>3, <2>1 DEF Armed
  <2> QED
    BY <2>2 DEF Contract, OwnersAreHandles
<1>8. NoFalseAlarm' /\ GuardFlagExact' /\ BoxIsUnique'
  BY <1>3 DEF Contract, NoFalseAlarm, GuardFlagExact, BoxIsUnique
<1> QED
  BY <1>6, <1>7, <1>8 DEF Contract

\* Under the contract a validation in native code always succeeds.
LEMMA ContractValidate ==
  ASSUME Contract, Accounting', NEW f \in Frames,
         NEW from \in ActivePC, NEW to \in ActivePC, NEW failed,
         Validate(f, from, to, failed),
         from \notin TransitPC \cup {"guard"},
         to \notin TransitPC \cup {"guard", "panic", "unwind", "unwind_dereg", "abort"},
         frame[f].role = "Owned" => to \in ArmedPC,
         to \in {"into_dereg", "drop_dereg"} => frame[f].role = "Owned",
         to = "clone" => frame[f].role = "Ref" /\ frame[f].ptr.smart = "Arc",
         to \in {"exclusive", "begin"} => frame[f].role # "Ref" /\ frame[f].ptr.smart = "Box"
  PROVE  Contract'
<1>1. frame[f].pc = from /\ from # "idle"
  BY DEF Validate, ActivePC
<1>2. Valid(f)
  BY <1>1, Backed DEF InTransit
<1>3. Goto(f, to) /\ UNCHANGED <<table, heap, java>>
  BY <1>2 DEF Validate
<1> QED
  BY <1>1, <1>3, ContractGoto

-----------------------------------------------------------------------------
\* An unregistered address has no guard, and its flag is down.
LEMMA UnregisteredUnguarded ==
  ASSUME Contract, NEW a \in Addrs, ~Registered(a)
  PROVE  table[a].owners = 0 /\ table[a].guarded = FALSE
<1>1. TypeOK
  BY DEF Contract, Accounting
<1>2. table[a].owners = 0 /\ table[a].guarded \in BOOLEAN
  BY <1>1 DEF TypeOK, Registered
<1>3. ASSUME NEW f \in Frames, frame[f].addr = a, frame[f].pc = "guard"
      PROVE  FALSE
  <2>1. table[a].owners >= 1
    BY <1>3, Backed DEF InTransit, TransitPC
  <2> QED
    BY <1>2, <2>1
<1> QED
  BY <1>2, <1>3 DEF Contract, GuardFlagExact

\* A step of one frame that is not about guards preserves the contract if the
\* others keep the memory and the handles that back them and f itself fits.
LEMMA ContractMove ==
  ASSUME Contract, Accounting', NEW f \in Frames, NEW a \in Addrs, Balanced(f, a),
         frame[f].pc # "guard",
         frame'[f].pc \notin {"guard", "panic", "unwind", "unwind_dereg", "abort"},
         \A b \in Addrs : table'[b].guarded = table[b].guarded,
         \A g \in Frames \ {f} : frame[g].pc # "idle" =>
           /\ heap'[frame[g].addr].ptr = heap[frame[g].addr].ptr
           /\ frame[g].role # "Owned" => java'[frame[g].addr] > 0
           /\ frame'[f].addr = frame[g].addr /\ frame[f].addr # frame[g].addr
                => ~(frame[g].role = "Mut" /\ frame[g].ptr.smart = "Box"),
         frame'[f].pc # "idle" => FrameFits(f)',
         BoxIsUnique'
  PROVE  Contract'
<1>1. TypeOK /\ frame' = [frame EXCEPT ![f] = frame'[f]]
  BY DEF Contract, Accounting, Balanced
<1>2. \A g \in Frames \ {f} : frame'[g] = frame[g]
  BY <1>1 DEF TypeOK
<1>3. FramesFit'
  <2> SUFFICES ASSUME NEW g \in Frames, g # f, frame'[g].pc # "idle"
               PROVE  FrameFits(g)'
    BY DEF FramesFit
  <2>1. g \in Frames \ {f} /\ frame[g].pc # "idle"
    BY <1>2
  <2> QED
    BY <1>1, <2>1, OthersFit
<1>4. OwnersAreHandles'
  BY OwnersCount
<1>5. NoFalseAlarm'
  BY <1>2 DEF Contract, NoFalseAlarm
<1>6. GuardFlagExact'
  BY <1>2 DEF Contract, GuardFlagExact
<1> QED
  BY <1>3, <1>4, <1>5, <1>6 DEF Contract

-----------------------------------------------------------------------------
(* Entering native code.                                                   *)

LEMMA ContractEnter ==
  ASSUME Disciplined, Contract, NEW f \in Frames, NEW a \in Addrs, NEW p \in Pointers,
         NEW r \in Roles, NEW to \in {"body", "from_raw"}, Enter(f, a, p, r, to)
  PROVE  Contract'
<1> DEFINE v == [pc |-> to, addr |-> a, ptr |-> p, role |-> r]
<1>1. TypeOK /\ Accounting
  BY DEF Contract, Accounting
<1>2. Accounting'
  BY <1>1, AccountingEnter
<1>3. /\ frame[f] = Idle
      /\ Permitted(a, p, r)
      /\ frame' = [frame EXCEPT ![f] = v]
      /\ frame'[f] = v
      /\ frame' = [frame EXCEPT ![f] = frame'[f]]
      /\ java' = IF r = "Owned" THEN [java EXCEPT ![a] = @ - 1] ELSE java
      /\ UNCHANGED <<table, heap, rust>>
  BY <1>1 DEF Enter, Pass, TypeOK, ActivePC
<1>4. java \in [Addrs -> Nat] /\ java[a] > 0
  BY <1>1, <1>3 DEF TypeOK, Permitted
<1>5. /\ \A b \in Addrs \ {a} : java'[b] = java[b]
      /\ java'[a] = IF r = "Owned" THEN java[a] - 1 ELSE java[a]
      /\ java'[a] \in Nat
  BY <1>3, <1>4
<1>6. Balanced(f, a)
  <2>1. \A b \in Addrs : Carries(frame[f], b) = 0
    BY <1>3 DEF Carries, Idle
  <2>2. /\ Carries(v, a) = IF r = "Owned" THEN 1 ELSE 0
        /\ r # "Owned" => \A b \in Addrs : Carries(v, b) = 0
    BY DEF Carries, ArmedPC
  <2>3. table[a].owners \in Nat
    BY <1>1 DEF TypeOK
  <2>4. table'[a].owners + java[a] + Carries(frame[f], a)
          = table[a].owners + java'[a] + Carries(frame'[f], a)
    <3> HIDE DEF v
    <3> QED
      BY <1>3, <1>4, <1>5, <2>1, <2>2, <2>3
  <2> QED
    BY <1>3, <1>5, <2>1, <2>2, <2>3, <2>4 DEF Balanced
<1>7. ASSUME NEW g \in Frames \ {f}, frame[g].pc # "idle"
      PROVE  /\ frame[g].role # "Owned" => java'[frame[g].addr] > 0
             /\ frame[g].addr = a => frame[g].role # "Mut"
  <2>1. FrameFits(g) /\ frame[g].addr \in Addrs
    BY <1>7, Backed DEF Contract, FramesFit
  <2>2. CASE frame[g].addr # a
    BY <1>5, <2>1, <2>2 DEF FrameFits
  <2>3. CASE frame[g].addr = a
    <3>1. g \in Users(a)
      BY <2>3 DEF Users
    <3>2. frame[g].role # "Mut"
      BY <1>3, <3>1 DEF Permitted
    <3>3. frame[g].role # "Owned" /\ r = "Owned" => java[a] > 1
      BY <1>3, <3>1 DEF Permitted
    <3> QED
      BY <1>4, <1>5, <2>3, <3>2, <3>3
  <2> QED
    BY <2>2, <2>3
<1>8. FrameFits(f)'
  <2>1. r = "Mut" => Users(a)' = {f}
    <3>1. ASSUME r = "Mut"
          PROVE  Users(a)' = {f}
      <4>1. Users(a) = {}
        BY <1>3, <3>1 DEF Permitted
      <4>2. \A g \in Frames : (frame'[g].addr = a) <=> (g = f)
        BY <1>1, <1>3, <4>1 DEF Users, TypeOK
      <4> QED
        BY <4>2 DEF Users
    <3> QED
      BY <3>1
  <2>2. heap'[a].ptr = p /\ (r # "Owned" => java'[a] > 0)
    BY <1>3, <1>4, <1>5 DEF Permitted
  <2> QED
    BY <1>3, <2>1, <2>2 DEF FrameFits, ArmedPC, TransitPC
<1>9. BoxIsUnique'
  BY <1>3 DEF Contract, BoxIsUnique
<1> QED
  BY <1>2, <1>3, <1>6, <1>7, <1>8, <1>9, ContractMove DEF Idle

\* The allocator hands out an address nobody uses.
LEMMA ContractFromNew ==
  ASSUME Contract, NEW f \in Frames, NEW a \in Addrs, NEW p \in Pointers, FromNew(f, a, p)
  PROVE  Contract'
<1> DEFINE v == [pc |-> "register", addr |-> a, ptr |-> p, role |-> "Owned"]
<1>1. TypeOK /\ Accounting
  BY DEF Contract, Accounting
<1>2. Accounting'
  BY <1>1, AccountingFromNew
<1>3. /\ frame[f] = Idle
      /\ heap[a].refs = 0
      /\ heap' = [heap EXCEPT ![a] = [ptr |-> p, refs |-> 1]]
      /\ frame' = [frame EXCEPT ![f] = v]
      /\ frame'[f] = v
      /\ frame' = [frame EXCEPT ![f] = frame'[f]]
      /\ UNCHANGED <<table, java, rust>>
  BY <1>1 DEF FromNew, TypeOK, ActivePC
<1>4. Balanced(f, a)
  <2>1. \A b \in Addrs : Carries(frame[f], b) = 0 /\ Carries(v, b) = 0
    BY <1>3 DEF Carries, Idle, ArmedPC
  <2>2. table[a].owners \in Nat /\ java[a] \in Nat
    BY <1>1 DEF TypeOK
  <2> HIDE DEF v
  <2> QED
    BY <1>3, <2>1, <2>2 DEF Balanced
<1>5. ASSUME NEW g \in Frames, frame[g].pc # "idle"
      PROVE  FrameFits(g) /\ frame[g].addr # a
  BY <1>3, <1>5, Backed DEF Contract, FramesFit
<1>6. heap \in [Addrs -> [ptr : Pointers \cup {NoPointer}, refs : Nat]]
  BY <1>1 DEF TypeOK
<1>7. FrameFits(f)'
  BY <1>3, <1>6 DEF FrameFits, TransitPC
<1>8. BoxIsUnique'
  BY <1>3, <1>6 DEF Contract, BoxIsUnique
<1> QED
  BY <1>2, <1>3, <1>4, <1>5, <1>6, <1>7, <1>8, ContractMove DEF Idle, FrameFits

\* A value Rust owns becomes a handle; a Box nobody can be looking at.
LEMMA ContractFromValue ==
  ASSUME Contract, Accounting', NEW f \in Frames, NEW a \in Addrs, FromValue(f, a)
  PROVE  Contract'
<1> DEFINE v == [pc |-> "register", addr |-> a, ptr |-> heap[a].ptr, role |-> "Owned"]
<1>1. TypeOK /\ Accounting
  BY DEF Contract, Accounting
<1>2. /\ frame[f] = Idle
      /\ rust[a] > 0
      /\ frame' = [frame EXCEPT ![f] = v]
      /\ frame'[f] = v
      /\ frame' = [frame EXCEPT ![f] = frame'[f]]
      /\ UNCHANGED <<table, heap, java>>
  BY <1>1 DEF FromValue, TypeOK, ActivePC
<1>3. Balanced(f, a)
  <2>1. \A b \in Addrs : Carries(frame[f], b) = 0 /\ Carries(v, b) = 0
    BY <1>2 DEF Carries, Idle, ArmedPC
  <2>2. table[a].owners \in Nat /\ java[a] \in Nat
    BY <1>1 DEF TypeOK
  <2> HIDE DEF v
  <2> QED
    BY <1>2, <2>1, <2>2 DEF Balanced
<1>4. ASSUME NEW g \in Frames, frame[g].pc # "idle", frame[g].addr = a,
             frame[g].role = "Mut", frame[g].ptr.smart = "Box"
      PROVE  FALSE
  <2>1. FrameFits(g) /\ heap[a].ptr.smart = "Box"
    BY <1>4 DEF Contract, FramesFit, FrameFits
  <2>2. java[a] > 0
    BY <1>4, <2>1 DEF FrameFits
  <2>3. heap[a].refs <= 1
    BY <2>1 DEF Contract, BoxIsUnique
  <2>4. rust[a] \in Nat /\ heap[a].refs \in Nat /\ table[a].owners \in Nat /\ java[a] \in Nat
    BY OwnersFacts
  <2>5. table[a].owners >= java[a] /\ table[a].owners + rust[a] <= heap[a].refs
    BY <1>1, OwnersFacts, AccountingFacts
  <2> QED
    BY <1>2, <2>2, <2>3, <2>4, <2>5
<1>5. ASSUME NEW g \in Frames, frame[g].pc # "idle"
      PROVE  FrameFits(g)
  BY <1>5 DEF Contract, FramesFit
<1>6. FrameFits(f)'
  BY <1>2 DEF FrameFits, TransitPC
<1>7. BoxIsUnique'
  BY <1>2 DEF Contract, BoxIsUnique
<1> QED
  BY <1>2, <1>3, <1>4, <1>5, <1>6, <1>7, ContractMove DEF Idle, FrameFits

-----------------------------------------------------------------------------
(* The critical sections of the table.                                     *)

LEMMA ContractRegister ==
  ASSUME Contract, NEW f \in Frames, Register(f)
  PROVE  Contract'
<1> DEFINE a == frame[f].addr
<1>1. TypeOK /\ Accounting
  BY DEF Contract, Accounting
<1>2. Accounting'
  BY <1>1, AccountingRegister
<1>3. frame[f].pc = "register" /\ frame[f].pc # "idle" /\ UNCHANGED <<heap, java, rust>>
  BY DEF Register
<1>4. a \in Addrs /\ FrameFits(f) /\ frame[f].role = "Owned" /\ heap[a].ptr = frame[f].ptr
  BY <1>3, Backed DEF Contract, FramesFit, FrameFits, TransitPC
<1>5. table[a].target = frame[f].ptr.target \/ ~Registered(a)
  BY <1>1, <1>4 DEF Accounting, RecordDescribesMemory
<1>6. table \in [Addrs -> [target : Targets \cup {NoTarget}, owners : Nat, guarded : BOOLEAN]]
  BY <1>1 DEF TypeOK
<1>7. /\ Goto(f, "body")
      /\ table' = IF Registered(a) THEN [table EXCEPT ![a].owners = @ + 1]
                  ELSE [table EXCEPT ![a] = [target |-> frame[f].ptr.target,
                                             owners |-> 1, guarded |-> FALSE]]
  BY <1>5 DEF Register
<1>8. /\ frame' = [frame EXCEPT ![f] = frame'[f]]
      /\ frame'[f].pc = "body"
      /\ frame'[f].addr = a
      /\ frame'[f].ptr = frame[f].ptr
      /\ frame'[f].role = "Owned"
      /\ \A g \in Frames \ {f} : frame'[g] = frame[g]
  BY <1>1, <1>3, <1>4, <1>7, GotoStep DEF ActivePC, TypeOK
<1>9. /\ \A b \in Addrs : table'[b].guarded = table[b].guarded
      /\ \A b \in Addrs \ {a} : table'[b].owners = table[b].owners
      /\ table'[a].owners = table[a].owners + 1
      /\ table[a].owners \in Nat
  <2>1. CASE Registered(a)
    BY <1>4, <1>6, <1>7, <2>1
  <2>2. CASE ~Registered(a)
    <3>1. table[a].owners = 0 /\ table[a].guarded = FALSE
      BY <1>4, <2>2, UnregisteredUnguarded
    <3>2. /\ table'[a] = [target |-> frame[f].ptr.target, owners |-> 1, guarded |-> FALSE]
          /\ \A b \in Addrs \ {a} : table'[b] = table[b]
      BY <1>4, <1>6, <1>7, <2>2
    <3>3. table'[a].owners = 1 /\ table'[a].guarded = FALSE
      BY <3>2
    <3>4. \A b \in Addrs : table'[b].guarded = table[b].guarded
      BY <3>1, <3>2, <3>3
    <3>5. table'[a].owners = table[a].owners + 1 /\ table[a].owners \in Nat
      BY <3>1, <3>3
    <3> QED
      BY <3>2, <3>4, <3>5
  <2> QED
    BY <2>1, <2>2
<1>10. Balanced(f, a)
  <2>1. \A b \in Addrs : Carries(frame[f], b) = 0
    BY <1>3 DEF Carries, ArmedPC
  <2>2. Carries(frame'[f], a) = 1
    BY <1>8 DEF Carries, ArmedPC
  <2>3. java[a] \in Nat
    BY <1>1, <1>4 DEF TypeOK
  <2> QED
    BY <1>3, <1>4, <1>8, <1>9, <2>1, <2>2, <2>3 DEF Balanced
<1>11. \A g \in Frames \ {f} : frame[g].pc # "idle" => FrameFits(g)
  BY DEF Contract, FramesFit
<1>12. FrameFits(f)'
  BY <1>3, <1>4, <1>8 DEF FrameFits, ArmedPC, TransitPC
<1>13. BoxIsUnique'
  BY <1>3 DEF Contract, BoxIsUnique
<1> QED
  BY <1>2, <1>3, <1>4, <1>8, <1>9, <1>10, <1>11, <1>12, <1>13, ContractMove DEF FrameFits

\* Deregistering never finds the record gone, nor one with its flag up that it
\* would remove.
LEMMA ContractDeregister ==
  ASSUME Contract, Accounting', NEW f \in Frames, NEW from \in {"into_dereg", "drop_dereg"},
         NEW to \in {"take", "free"}, NEW failed, Deregister(f, from, to, failed)
  PROVE  Contract'
<1> DEFINE a == frame[f].addr
<1>1. TypeOK /\ Accounting
  BY DEF Contract, Accounting
<1>2. frame[f].pc = from /\ frame[f].pc # "idle" /\ UNCHANGED <<heap, java, rust>>
  BY DEF Deregister
<1>3. /\ a \in Addrs /\ FrameFits(f) /\ frame[f].role = "Owned"
      /\ table[a].owners >= 1
  BY <1>2, Backed DEF Contract, FramesFit, FrameFits, InTransit, TransitPC
<1>4. table \in [Addrs -> [target : Targets \cup {NoTarget}, owners : Nat, guarded : BOOLEAN]]
  BY <1>1 DEF TypeOK
<1>5. /\ Goto(f, to)
      /\ table' = IF table[a].owners = 1 THEN [table EXCEPT ![a] = NoRecord]
                  ELSE [table EXCEPT ![a].owners = @ - 1]
  <2>1. table[a].owners \in Nat
    BY <1>3, <1>4
  <2>2. Registered(a)
    BY <1>3, <2>1 DEF Registered
  <2> QED
    BY <2>2 DEF Deregister
<1>6. /\ frame' = [frame EXCEPT ![f] = frame'[f]]
      /\ frame'[f].pc = to
      /\ frame'[f].addr = a
      /\ frame'[f].ptr = frame[f].ptr
      /\ frame'[f].role = "Owned"
      /\ \A g \in Frames \ {f} : frame'[g] = frame[g]
  BY <1>1, <1>2, <1>3, <1>5, GotoStep DEF ActivePC, TypeOK
<1>7. f \in Armed(a)
  BY <1>2, <1>3 DEF Armed, ArmedPC
<1>8. table[a].owners = 1 => table[a].guarded = FALSE
  <2> SUFFICES ASSUME table[a].owners = 1, NEW g \in Frames, frame[g].addr = a,
                      frame[g].pc = "guard"
               PROVE  FALSE
    BY <1>3, <1>4 DEF Contract, GuardFlagExact
  <2>1. g # f /\ frame[g].pc # "idle" /\ FrameFits(g)
    BY <1>2 DEF Contract, FramesFit
  <2>2. frame[g].ptr.smart = "Box" /\ frame[g].role # "Ref" /\ frame[g].role \in Roles
    BY <1>1, <2>1, ActiveFrame DEF FrameFits
  <2>3. frame[g].role = "Mut" \/ g \in Armed(a)
    BY <2>2 DEF Armed, ArmedPC, Roles
  <2>4. Users(a) = {g}
    BY <2>1, <2>2, <2>3, WriterIsAlone
  <2> QED
    BY <2>1, <2>4 DEF Users
<1>9. /\ \A b \in Addrs : table'[b].guarded = table[b].guarded
      /\ \A b \in Addrs \ {a} : table'[b].owners = table[b].owners
      /\ table'[a].owners = table[a].owners - 1
      /\ table[a].owners \in Nat
  <2>1. table[a].owners \in Nat
    BY <1>3, <1>4
  <2>2. CASE table[a].owners = 1
    <3>1. table'[a] = NoRecord /\ \A b \in Addrs \ {a} : table'[b] = table[b]
      BY <1>3, <1>4, <1>5, <2>2
    <3>2. table'[a].owners = 0 /\ table'[a].guarded = FALSE
      BY <3>1 DEF NoRecord
    <3>3. \A b \in Addrs : table'[b].guarded = table[b].guarded
      BY <1>8, <2>2, <3>1, <3>2
    <3> QED
      BY <2>1, <2>2, <3>1, <3>2, <3>3
  <2>3. CASE table[a].owners # 1
    BY <1>3, <1>4, <1>5, <2>1, <2>3
  <2> QED
    BY <2>2, <2>3
<1>10. Balanced(f, a)
  <2>1. Carries(frame[f], a) = 1
    BY <1>7 DEF Carries, Armed
  <2>2. \A b \in Addrs : Carries(frame'[f], b) = 0
    BY <1>6 DEF Carries, ArmedPC
  <2>3. java[a] \in Nat
    BY <1>1, <1>3 DEF TypeOK
  <2> QED
    BY <1>2, <1>3, <1>6, <1>9, <2>1, <2>2, <2>3 DEF Balanced
<1>11. \A g \in Frames \ {f} : frame[g].pc # "idle" => FrameFits(g)
  BY DEF Contract, FramesFit
<1>12. FrameFits(f)'
  BY <1>2, <1>3, <1>6 DEF FrameFits, TransitPC
<1>13. BoxIsUnique'
  BY <1>2 DEF Contract, BoxIsUnique
<1> QED
  BY <1>2, <1>3, <1>6, <1>9, <1>10, <1>11, <1>12, <1>13, ContractMove DEF FrameFits

-----------------------------------------------------------------------------
(* The exclusive-borrow flag.                                              *)

\* A frame at a guard, or about to be, is the only one at its address.
LEMMA GuardIsAlone ==
  ASSUME Contract, NEW f \in Frames, frame[f].pc \in {"begin", "guard", "exclusive"}
  PROVE  /\ frame[f].addr \in Addrs
         /\ Users(frame[f].addr) = {f}
         /\ Registered(frame[f].addr)
<1>1. frame[f].pc # "idle" /\ TypeOK
  BY DEF Contract, Accounting
<1>2. FrameFits(f) /\ frame[f].role \in Roles /\ frame[f].addr \in Addrs
  BY <1>1, ActiveFrame DEF Contract, FramesFit
<1>3. frame[f].ptr.smart = "Box" /\ frame[f].role # "Ref"
  BY <1>2 DEF FrameFits
<1>4. frame[f].role = "Mut" \/ f \in Armed(frame[f].addr)
  BY <1>2, <1>3 DEF Roles, Armed, ArmedPC
<1>5. table[frame[f].addr].owners >= 1 /\ table[frame[f].addr].owners \in Nat
  BY <1>1, <1>2, Backed DEF InTransit, TransitPC, TypeOK
<1> QED
  BY <1>1, <1>2, <1>3, <1>4, <1>5, WriterIsAlone DEF Registered

LEMMA ContractBeginGuard ==
  ASSUME Contract, Accounting', NEW f \in Frames, BeginGuard(f)
  PROVE  Contract'
<1> DEFINE a == frame[f].addr
<1>1. TypeOK /\ frame[f].pc = "begin" /\ frame[f].pc # "idle" /\ UNCHANGED <<heap, java, rust>>
  BY DEF Contract, Accounting, BeginGuard
<1>2. a \in Addrs /\ Users(a) = {f} /\ Registered(a) /\ FrameFits(f)
  BY <1>1, GuardIsAlone DEF Contract, FramesFit
<1>3. table[a].guarded = FALSE
  <2>1. table[a].guarded \in BOOLEAN
    BY <1>1, <1>2 DEF TypeOK
  <2>2. ~ \E g \in Frames : frame[g].addr = a /\ frame[g].pc = "guard"
    BY <1>1, <1>2 DEF Users
  <2> QED
    BY <1>2, <2>1, <2>2 DEF Contract, GuardFlagExact
<1>4. Goto(f, "guard") /\ table' = [table EXCEPT ![a].guarded = TRUE]
  BY <1>2, <1>3 DEF BeginGuard
<1>5. /\ frame' = [frame EXCEPT ![f] = frame'[f]]
      /\ frame'[f].pc = "guard"
      /\ frame'[f].addr = a
      /\ frame'[f].ptr = frame[f].ptr
      /\ frame'[f].role = frame[f].role
      /\ \A g \in Frames \ {f} : frame'[g] = frame[g]
  BY <1>1, <1>4, GotoStep DEF ActivePC, TypeOK
<1>6. \A b \in Addrs : table'[b].owners = table[b].owners
  BY <1>1, <1>2, <1>4, FlagStep
<1>7. table'[a].guarded = TRUE /\ \A b \in Addrs \ {a} : table'[b].guarded = table[b].guarded
  BY <1>1, <1>2, <1>4 DEF TypeOK
<1>8. \A b : Users(b)' = Users(b) /\ Armed(b)' = Armed(b)
  BY <1>1, <1>5 DEF Users, Armed, ArmedPC
<1>9. FramesFit'
  <2>1. FrameFits(f)'
    BY <1>1, <1>2, <1>5, <1>8 DEF FrameFits, ArmedPC, TransitPC
  <2>2. \A g \in Frames \ {f} : frame[g].pc # "idle" => FrameFits(g)'
    BY <1>1, <1>5, <1>8 DEF Contract, FramesFit, FrameFits
  <2> QED
    BY <1>5, <2>1, <2>2 DEF FramesFit
<1>10. OwnersAreHandles'
  BY <1>1, <1>6, <1>8 DEF Contract, OwnersAreHandles
<1>11. GuardFlagExact'
  BY <1>1, <1>5, <1>7 DEF Contract, GuardFlagExact
<1>12. NoFalseAlarm' /\ BoxIsUnique'
  BY <1>1, <1>5 DEF Contract, NoFalseAlarm, BoxIsUnique
<1> QED
  BY <1>9, <1>10, <1>11, <1>12 DEF Contract

LEMMA ContractEndGuard ==
  ASSUME Contract, Accounting', NEW f \in Frames, EndGuard(f)
  PROVE  Contract'
<1> DEFINE a == frame[f].addr
<1>1. TypeOK /\ frame[f].pc = "guard" /\ frame[f].pc # "idle" /\ UNCHANGED <<heap, java, rust>>
  BY DEF Contract, Accounting, EndGuard
<1>2. a \in Addrs /\ Users(a) = {f} /\ Registered(a) /\ FrameFits(f)
  BY <1>1, GuardIsAlone DEF Contract, FramesFit
<1>3. Goto(f, "body") /\ table' = [table EXCEPT ![a].guarded = FALSE]
  BY <1>2 DEF EndGuard
<1>4. /\ frame' = [frame EXCEPT ![f] = frame'[f]]
      /\ frame'[f].pc = "body"
      /\ frame'[f].addr = a
      /\ frame'[f].ptr = frame[f].ptr
      /\ frame'[f].role = frame[f].role
      /\ \A g \in Frames \ {f} : frame'[g] = frame[g]
  BY <1>1, <1>3, GotoStep DEF ActivePC, TypeOK
<1>5. \A b \in Addrs : table'[b].owners = table[b].owners
  BY <1>1, <1>2, <1>3, FlagStep
<1>6. table'[a].guarded = FALSE /\ \A b \in Addrs \ {a} : table'[b].guarded = table[b].guarded
  BY <1>1, <1>2, <1>3 DEF TypeOK
<1>7. \A b : Users(b)' = Users(b) /\ Armed(b)' = Armed(b)
  BY <1>1, <1>4 DEF Users, Armed, ArmedPC
<1>8. FramesFit'
  <2>1. FrameFits(f)'
    BY <1>1, <1>2, <1>4, <1>7 DEF FrameFits, ArmedPC, TransitPC
  <2>2. \A g \in Frames \ {f} : frame[g].pc # "idle" => FrameFits(g)'
    BY <1>1, <1>4, <1>7 DEF Contract, FramesFit, FrameFits
  <2> QED
    BY <1>4, <2>1, <2>2 DEF FramesFit
<1>9. OwnersAreHandles'
  BY <1>1, <1>5, <1>7 DEF Contract, OwnersAreHandles
<1>10. GuardFlagExact'
  <2>1. \A g \in Frames : frame'[g].addr = a => frame'[g].pc # "guard"
    BY <1>2, <1>4 DEF Users
  <2>2. \A g \in Frames : frame[g].pc = "guard" /\ g # f => frame[g].addr # a
    BY <1>2 DEF Users
  <2> QED
    BY <1>1, <1>4, <1>6, <2>1, <2>2 DEF Contract, GuardFlagExact
<1>11. NoFalseAlarm' /\ BoxIsUnique'
  BY <1>1, <1>4 DEF Contract, NoFalseAlarm, BoxIsUnique
<1> QED
  BY <1>8, <1>9, <1>10, <1>11 DEF Contract

-----------------------------------------------------------------------------
(* Taking, counting and freeing.                                           *)

\* Whoever releases the last reference to an allocation is alone there.
LEMMA LastIsAlone ==
  ASSUME Contract, NEW a \in Addrs, heap[a].refs = 1, NEW g \in Users(a)
  PROVE  rust[a] = 0 /\ \A f \in InTransit(a) : g = f
<1>1. g \in Frames /\ frame[g].addr = a /\ TypeOK /\ Accounting
  BY DEF Users, Contract, Accounting
<1>2. frame[g].pc # "idle"
  BY <1>1, ConstantsAssumption DEF TypeOK, Idle, ActivePC
<1>3. table[a].owners \in Nat /\ rust[a] \in Nat
  BY <1>1 DEF TypeOK
<1>4. CASE g \in InTransit(a)
  BY <1>1, <1>3, <1>4, AccountingFacts
<1>5. CASE table[a].owners >= 1
  BY <1>1, <1>3, <1>5, AccountingFacts
<1> QED
  BY <1>1, <1>2, <1>4, <1>5, Backed

\* The frame ends, and the owner it carried out of the table leaves with it.
LEMMA ContractTransitEnd ==
  ASSUME Contract, Accounting', NEW f \in Frames, frame[f].pc \in {"take", "free"},
         End(f), UNCHANGED <<table, java>>,
         heap' = heap \/ (heap[frame[f].addr].refs > 0 /\ DropRef(frame[f].addr))
  PROVE  Contract'
<1> DEFINE a == frame[f].addr
<1>1. TypeOK /\ Accounting /\ frame[f].pc # "idle"
  BY DEF Contract, Accounting
<1>2. a \in Addrs /\ f \in InTransit(a)
  BY <1>1, ActiveFrame DEF InTransit, TransitPC
<1>3. frame' = [frame EXCEPT ![f] = frame'[f]] /\ frame'[f] = Idle
  BY <1>1, EndStep
<1>4. Balanced(f, a)
  <2>1. \A b \in Addrs : Carries(frame[f], b) = 0 /\ Carries(frame'[f], b) = 0
    BY <1>3 DEF Carries, Idle, ArmedPC
  <2>2. table[a].owners \in Nat /\ java[a] \in Nat
    BY <1>1, <1>2 DEF TypeOK
  <2> QED
    BY <1>2, <1>3, <2>1, <2>2 DEF Balanced
<1>5. /\ \A b \in Addrs \ {a} : heap'[b] = heap[b]
      /\ heap[a].refs # 1 => heap'[a].ptr = heap[a].ptr
      /\ heap'[a].refs <= heap[a].refs
      /\ heap'[a].refs \in Nat /\ heap[a].refs \in Nat
      /\ heap'[a].ptr = heap[a].ptr \/ heap' = [heap EXCEPT ![a] = FreeCell]
  <2>1. heap[a].refs \in Nat
    BY <1>1, <1>2 DEF TypeOK
  <2>2. CASE heap' = heap
    BY <2>1, <2>2
  <2>3. CASE heap[a].refs > 0 /\ DropRef(a)
    <3>1. /\ heap'[a].refs = heap[a].refs - 1
          /\ heap[a].refs > 1 => heap'[a].ptr = heap[a].ptr
          /\ \A b \in Addrs \ {a} : heap'[b] = heap[b]
      BY <1>1, <1>2, <2>3, DropRefStep
    <3>2. heap[a].refs = 1 => heap' = [heap EXCEPT ![a] = FreeCell]
      BY <2>3 DEF DropRef
    <3> QED
      BY <2>1, <2>3, <3>1, <3>2
  <2> QED
    BY <2>2, <2>3
<1>6. BoxIsUnique'
  <2>1. heap' = [heap EXCEPT ![a] = FreeCell] => heap'[a].ptr.smart # "Box"
    BY <1>1, <1>2 DEF TypeOK, FreeCell, NoPointer
  <2>2. heap'[a].ptr.smart = "Box" => heap'[a].refs <= 1
    BY <1>2, <1>5, <2>1 DEF Contract, BoxIsUnique
  <2> QED
    BY <1>5, <2>2 DEF Contract, BoxIsUnique
<1>7. ASSUME NEW g \in Frames \ {f}, frame[g].pc # "idle"
      PROVE  FrameFits(g) /\ frame[g].addr \in Addrs
             /\ heap'[frame[g].addr].ptr = heap[frame[g].addr].ptr
  <2>1. FrameFits(g) /\ frame[g].addr \in Addrs
    BY <1>1, <1>7, ActiveFrame DEF Contract, FramesFit
  <2>2. frame[g].addr = a => heap[a].refs # 1
    BY <1>2, <1>7, LastIsAlone DEF Users
  <2> QED
    BY <1>5, <2>1, <2>2
<1>8. frame'[f].addr \notin Addrs
  BY <1>3, ConstantsAssumption DEF Idle
<1> QED
  BY <1>2, <1>3, <1>4, <1>6, <1>7, <1>8, ContractMove DEF FrameFits, Idle

LEMMA ContractCloneCount ==
  ASSUME Contract, Accounting', NEW f \in Frames, CloneCount(f)
  PROVE  Contract'
<1> DEFINE a == frame[f].addr
<1>1. TypeOK /\ Accounting /\ frame[f].pc = "clone" /\ frame[f].pc # "idle"
  BY DEF Contract, Accounting, CloneCount
<1>2. a \in Addrs /\ FrameFits(f)
  BY <1>1, ActiveFrame DEF Contract, FramesFit
<1>3. frame[f].role = "Ref" /\ heap[a].ptr.smart = "Arc"
  BY <1>1, <1>2 DEF FrameFits
<1>4. /\ heap' = [heap EXCEPT ![a].refs = @ + 1]
      /\ Goto(f, "body")
      /\ UNCHANGED <<table, java>>
  BY DEF CloneCount
<1>5. /\ frame' = [frame EXCEPT ![f] = frame'[f]]
      /\ frame'[f].pc = "body"
      /\ frame'[f].addr = a
      /\ frame'[f].ptr = frame[f].ptr
      /\ frame'[f].role = frame[f].role
  BY <1>1, <1>4, GotoStep DEF ActivePC
<1>6. \A b \in Addrs : heap'[b].ptr = heap[b].ptr /\ (b # a => heap'[b] = heap[b])
  BY <1>1, <1>2, <1>4 DEF TypeOK
<1>7. Balanced(f, a)
  <2>1. \A b \in Addrs : Carries(frame[f], b) = 0 /\ Carries(frame'[f], b) = 0
    BY <1>3, <1>5 DEF Carries
  <2>2. table[a].owners \in Nat /\ java[a] \in Nat
    BY <1>1, <1>2 DEF TypeOK
  <2> QED
    BY <1>2, <1>4, <1>5, <2>1, <2>2 DEF Balanced
<1>8. BoxIsUnique'
  BY <1>3, <1>6 DEF Contract, BoxIsUnique
<1>9. \A g \in Frames : frame[g].pc # "idle" => FrameFits(g) /\ frame[g].addr \in Addrs
  BY <1>1, ActiveFrame DEF Contract, FramesFit
<1>10. FrameFits(f)'
  BY <1>1, <1>2, <1>3, <1>4, <1>5, <1>6 DEF FrameFits, TransitPC
<1> QED
  BY <1>1, <1>2, <1>4, <1>5, <1>6, <1>7, <1>8, <1>9, <1>10, ContractMove DEF FrameFits

\* Rust drops a value of its own: no handle refers to the last of them.
LEMMA ContractDropValue ==
  ASSUME Contract, Accounting', NEW a \in Addrs, DropValue(a)
  PROVE  Contract'
<1>1. TypeOK /\ Accounting
  BY DEF Contract, Accounting
<1>2. rust[a] > 0 /\ DropRef(a) /\ UNCHANGED <<table, java, frame>>
  BY DEF DropValue
<1>3. heap[a].refs \in Nat /\ rust[a] \in Nat /\ table[a].owners \in Nat
  BY <1>1 DEF TypeOK
<1>4. heap[a].refs > 0
  BY <1>1, <1>2, <1>3, AccountingFacts
<1>5. /\ heap'[a].refs = heap[a].refs - 1
      /\ heap[a].refs > 1 => heap'[a].ptr = heap[a].ptr
      /\ \A b \in Addrs \ {a} : heap'[b] = heap[b]
  BY <1>1, <1>2, <1>4, DropRefStep
<1>6. heap[a].refs = 1 => heap'[a] = FreeCell
  BY <1>1, <1>2 DEF DropRef, TypeOK
<1>7. FramesFit'
  <2> SUFFICES ASSUME NEW g \in Frames, frame[g].pc # "idle"
               PROVE  FrameFits(g)'
    BY <1>2 DEF FramesFit
  <2>1. FrameFits(g) /\ frame[g].addr \in Addrs
    BY <1>1, ActiveFrame DEF Contract, FramesFit
  <2>2. frame[g].addr = a => heap[a].refs # 1
    BY <1>2, <1>3, LastIsAlone DEF Users
  <2>3. heap'[frame[g].addr].ptr = heap[frame[g].addr].ptr
    BY <1>3, <1>4, <1>5, <2>1, <2>2
  <2>4. Users(frame[g].addr)' = Users(frame[g].addr)
    BY <1>2 DEF Users
  <2> QED
    BY <1>2, <2>1, <2>3, <2>4 DEF FrameFits
<1>8. BoxIsUnique'
  <2>1. heap[a].refs = 1 => heap'[a].ptr.smart # "Box"
    BY <1>6 DEF FreeCell, NoPointer
  <2>2. heap'[a].ptr.smart = "Box" => heap'[a].refs <= 1
    BY <1>3, <1>4, <1>5, <2>1 DEF Contract, BoxIsUnique
  <2> QED
    BY <1>5, <2>2 DEF Contract, BoxIsUnique
<1>9. OwnersAreHandles' /\ NoFalseAlarm' /\ GuardFlagExact'
  BY <1>2 DEF Contract, OwnersAreHandles, NoFalseAlarm, GuardFlagExact, Armed
<1> QED
  BY <1>7, <1>8, <1>9 DEF Contract

-----------------------------------------------------------------------------
(* Leaving native code.                                                    *)

LEMMA ContractLeave ==
  ASSUME Disciplined, Contract, Accounting', NEW f \in Frames, GiveToJava(f) \/ Return(f)
  PROVE  Contract'
<1> DEFINE a == frame[f].addr
           c == IF frame[f].role = "Owned" THEN 1 ELSE 0
<1>1. /\ TypeOK /\ frame[f].pc = "body" /\ frame[f].pc # "idle"
      /\ End(f) /\ UNCHANGED <<table, heap>>
      /\ java' = IF frame[f].role = "Owned" THEN [java EXCEPT ![a] = @ + 1] ELSE java
  BY DEF Contract, Accounting, GiveToJava, Return
<1>2. a \in Addrs
  BY <1>1, ActiveFrame
<1>3. frame' = [frame EXCEPT ![f] = frame'[f]] /\ frame'[f] = Idle
  BY <1>1, EndStep
<1>4. /\ java[a] \in Nat /\ table[a].owners \in Nat
      /\ \A b \in Addrs \ {a} : java'[b] = java[b]
      /\ java'[a] = java[a] + c
      /\ c \in Nat
  BY <1>1, <1>2 DEF TypeOK
<1>5. Balanced(f, a)
  <2>1. Carries(frame[f], a) = 1 \/ \A b \in Addrs : Carries(frame[f], b) = 0
    BY DEF Carries
  <2>2. Carries(frame[f], a) = c
    BY <1>1 DEF Carries, ArmedPC
  <2>3. \A b \in Addrs : Carries(frame'[f], b) = 0
    BY <1>3 DEF Carries, Idle
  <2> HIDE DEF c
  <2>4. table'[a].owners + java[a] + Carries(frame[f], a)
          = table[a].owners + java'[a] + Carries(frame'[f], a)
    BY <1>1, <1>2, <1>4, <2>2, <2>3
  <2> QED
    BY <1>1, <1>2, <1>3, <1>4, <2>1, <2>3, <2>4 DEF Balanced
<1>6. ASSUME NEW g \in Frames \ {f}, frame[g].pc # "idle"
      PROVE  frame[g].addr \in Addrs /\ (frame[g].role # "Owned" => java'[frame[g].addr] > 0)
  <2>1. FrameFits(g) /\ frame[g].addr \in Addrs
    BY <1>1, <1>6, ActiveFrame DEF Contract, FramesFit
  <2>2. java[frame[g].addr] \in Nat
    BY <1>1, <2>1 DEF TypeOK
  <2>3. CASE frame[g].addr = a
    BY <1>4, <2>1, <2>2, <2>3 DEF FrameFits
  <2>4. CASE frame[g].addr # a
    BY <1>4, <2>1, <2>4 DEF FrameFits
  <2> QED
    BY <2>1, <2>3, <2>4
<1>7. frame'[f].addr \notin Addrs
  BY <1>3, ConstantsAssumption DEF Idle
<1>8. BoxIsUnique'
  BY <1>1 DEF Contract, BoxIsUnique
<1> QED
  BY <1>1, <1>2, <1>3, <1>5, <1>6, <1>7, <1>8, ContractMove DEF Idle

-----------------------------------------------------------------------------
LEMMA ContractInit == Init => Contract
<1> SUFFICES ASSUME Init PROVE Contract
  OBVIOUS
<1>1. Accounting
  BY AccountingInit
<1>2. \A f \in Frames : frame[f].pc = "idle" /\ frame[f].addr = NoAddr
  BY DEF Init, Idle
<1>3. FramesFit /\ NoFalseAlarm
  BY <1>2 DEF FramesFit, NoFalseAlarm
<1>4. BoxIsUnique /\ GuardFlagExact
  BY <1>2 DEF Init, BoxIsUnique, GuardFlagExact, FreeCell, NoPointer, NoRecord
<1>5. ASSUME NEW a \in Addrs
      PROVE  table[a].owners = java[a] + Cardinality(Armed(a))
  <2>1. Armed(a) = {}
    BY <1>2, <1>5, ConstantsAssumption DEF Armed
  <2>2. table[a].owners = 0 /\ java[a] = 0
    BY DEF Init, NoRecord
  <2> QED
    BY <2>1, <2>2, FS_EmptySet
<1> QED
  BY <1>1, <1>3, <1>4, <1>5 DEF Contract, OwnersAreHandles

LEMMA ContractNext ==
  ASSUME Disciplined, Contract, [Next]_vars
  PROVE  Contract'
<1> USE DEF ActivePC, TransitPC, ArmedPC
<1>1. Accounting /\ TypeOK /\ NoFalseAlarm
  BY DEF Contract, Accounting
<1>2. Accounting'
  BY <1>1, AccountingNext
<1>3. ASSUME NEW f \in Frames, EnterSome(f) PROVE Contract'
  BY <1>3, ContractEnter DEF EnterSome
<1>4. ASSUME NEW f \in Frames, FromRaw(f) PROVE Contract'
  BY <1>2, <1>4, ContractValidate DEF FromRaw
<1>5. ASSUME NEW f \in Frames, FromSome(f) PROVE Contract'
  BY <1>2, <1>5, ContractFromNew, ContractFromValue DEF FromSome
<1>6. ASSUME NEW f \in Frames, Register(f) PROVE Contract'
  BY <1>6, ContractRegister
<1>7. ASSUME NEW f \in Frames, Borrow(f) PROVE Contract'
  <2>1. CASE Deref(f)
    BY <1>2, <2>1, ContractValidate DEF Deref
  <2>2. CASE DerefMut(f)
    BY <1>2, <2>2, ContractValidate DEF DerefMut
  <2>3. CASE BorrowMut(f)
    BY <1>2, <2>3, ContractValidate DEF BorrowMut
  <2>4. CASE CloneArc(f)
    BY <1>2, <2>4, ContractValidate DEF CloneArc
  <2>5. CASE EndUse(f)
    BY <1>2, <2>5, ContractGoto DEF EndUse
  <2>6. CASE BeginGuard(f)
    BY <1>2, <2>6, ContractBeginGuard
  <2>7. CASE EndGuard(f)
    BY <1>2, <2>7, ContractEndGuard
  <2>8. CASE CloneCount(f)
    BY <1>2, <2>8, ContractCloneCount
  <2> QED
    BY <1>7, <2>1, <2>2, <2>3, <2>4, <2>5, <2>6, <2>7, <2>8 DEF Borrow
<1>8. ASSUME NEW f \in Frames, Consume(f) PROVE Contract'
  <2>1. CASE IntoInner(f)
    BY <1>2, <2>1, ContractValidate DEF IntoInner
  <2>2. CASE DropOwned(f)
    BY <1>2, <2>2, ContractValidate DEF DropOwned
  <2>3. CASE IntoInnerDereg(f) \/ DropOwnedDereg(f)
    BY <1>2, <2>3, ContractDeregister DEF IntoInnerDereg, DropOwnedDereg
  <2>4. CASE IntoInnerTake(f)
    BY <1>2, <2>4, ContractTransitEnd DEF IntoInnerTake
  <2>5. CASE DropOwnedFree(f)
    BY <1>2, <2>5, ContractTransitEnd DEF DropOwnedFree, Owns
  <2> QED
    BY <1>8, <2>1, <2>2, <2>3, <2>4, <2>5 DEF Consume
<1>9. ASSUME NEW f \in Frames, Leave(f) PROVE Contract'
  <2>1. CASE GiveToJava(f) \/ Return(f)
    BY <1>2, <2>1, ContractLeave
  <2>2. ~(Throw(f) \/ UnwindDrop(f) \/ UnwindDereg(f))
    BY <1>1 DEF Throw, UnwindDrop, UnwindDereg, Validate, Deregister, NoFalseAlarm
  <2> QED
    BY <1>9, <2>1, <2>2 DEF Leave
<1>10. ASSUME NEW a \in Addrs, DropValue(a) PROVE Contract'
  BY <1>2, <1>10, ContractDropValue
<1>11. CASE UNCHANGED vars
  BY <1>2, <1>11 DEF vars, Contract, FramesFit, FrameFits, BoxIsUnique, Users, OwnersAreHandles,
                     Armed, NoFalseAlarm, GuardFlagExact
<1> QED
  BY <1>3, <1>4, <1>5, <1>6, <1>7, <1>8, <1>9, <1>10, <1>11 DEF Next, Step

-----------------------------------------------------------------------------
(* The results.  Disciplined is a hypothesis of each: it says that Java    *)
(* passes only handles the Safety sections of handle.rs permit.            *)

THEOREM ContractTheorem ==
  ASSUME Disciplined
  PROVE  Spec => []Contract
<1>1. Init => Contract
  BY ContractInit
<1>2. Contract /\ [Next]_vars => Contract'
  BY ContractNext
<1> QED
  BY <1>1, <1>2, PTL DEF Spec

\* A program that keeps the contract is never accused of breaking it.
THEOREM NeverAccused ==
  ASSUME Disciplined
  PROVE  Spec => []NoFalseAlarm
<1>1. Contract => NoFalseAlarm
  BY DEF Contract
<1> QED
  BY <1>1, ContractTheorem, PTL

\* And every access it makes is to memory that is there and of the right type.
THEOREM AccessIsSound ==
  ASSUME Disciplined
  PROVE  Spec => []SoundAccess
<1>1. Contract => SoundAccess
  <2> SUFFICES ASSUME Contract, NEW f \in Frames, frame[f].pc # "idle"
               PROVE  Owns(f) /\ PointeeLive(f)
    BY DEF SoundAccess
  <2>1. frame[f].addr \in Addrs /\ TypeOK
    BY Backed DEF Contract, Accounting
  <2>2. heap[frame[f].addr].refs \in Nat
    BY <2>1 DEF TypeOK
  <2> QED
    BY <2>2, Backed DEF Owns, PointeeLive
<1> QED
  BY <1>1, ContractTheorem, PTL

\* A `&mut` is the only reference to its object, although the code checks that
\* for guards only: the rest is the caller's side of the contract.
THEOREM MutExcludes ==
  ASSUME Disciplined
  PROVE  Spec => []MutIsExclusive
<1>1. Contract => MutIsExclusive
  <2> SUFFICES ASSUME Contract, NEW f \in Frames, NEW g \in Frames, f # g,
                      frame[f].addr = frame[g].addr, frame[f].pc \in {"exclusive", "guard"}
               PROVE  FALSE
    BY DEF MutIsExclusive
  <2>1. Users(frame[f].addr) = {f}
    BY GuardIsAlone
  <2> QED
    BY <2>1 DEF Users
<1> QED
  BY <1>1, ContractTheorem, PTL

\* The owner count of a record is the number of owned handles there are.
THEOREM OwnersCounted ==
  ASSUME Disciplined
  PROVE  Spec => []OwnersAreHandles
<1>1. Contract => OwnersAreHandles
  BY DEF Contract
<1> QED
  BY <1>1, ContractTheorem, PTL

\* The exclusive-borrow flag is up exactly while a guard is alive.
THEOREM FlagIsExact ==
  ASSUME Disciplined
  PROVE  Spec => []GuardFlagExact
<1>1. Contract => GuardFlagExact
  BY DEF Contract
<1> QED
  BY <1>1, ContractTheorem, PTL

-----------------------------------------------------------------------------
(* What a program that composes with the handles needs of the invariant.   *)

\* The frame that owns a Box is alone with it, and Java does not have it.
LEMMA OwnerIsAlone ==
  ASSUME Contract, NEW f \in Frames, frame[f].role = "Owned", frame[f].ptr.smart = "Box"
  PROVE  Users(frame[f].addr) = {f} /\ java[frame[f].addr] = 0
<1> DEFINE a == frame[f].addr
<1>1. frame[f].pc # "idle" /\ TypeOK /\ Accounting
  <2>1. TypeOK /\ Accounting
    BY DEF Contract, Accounting
  <2>2. frame[f] # Idle
    BY DEF Idle
  <2>3. frame[f] \in [pc : ActivePC, addr : Addrs, ptr : Pointers, role : Roles]
    BY <2>1, <2>2 DEF TypeOK
  <2> QED BY <2>1, <2>3 DEF ActivePC
<1>2. a \in Addrs /\ heap[a].ptr = frame[f].ptr /\ heap[a].refs >= 1
  BY <1>1, Backed
<1>3. heap[a].refs = 1
  BY <1>1, <1>2, AccountingFacts DEF Contract, BoxIsUnique
<1>4. /\ java[a] \in Nat /\ table[a].owners \in Nat /\ rust[a] \in Nat
      /\ java[a] <= table[a].owners
  BY <1>2, OwnersFacts
<1>5. CASE f \in Armed(a)
  <2>1. java[a] + 1 <= table[a].owners
    BY <1>2, <1>5, OwnersFacts
  <2>2. table[a].owners + rust[a] <= 1
    BY <1>1, <1>2, <1>3, AccountingFacts
  <2> QED BY <1>1, <1>4, <1>5, <2>1, <2>2, WriterIsAlone
<1>6. CASE f \in InTransit(a)
  <2>1. table[a].owners + rust[a] + 1 <= 1
    BY <1>1, <1>2, <1>3, <1>6, AccountingFacts
  <2>2. java[a] = 0
    BY <1>4, <2>1
  <2>3. \A g \in Users(a) : g = f
    BY <1>2, <1>3, <1>6, LastIsAlone
  <2> QED BY <2>2, <2>3 DEF Users
<1>7. frame[f].pc \in ArmedPC \cup TransitPC
  BY <1>1 DEF Contract, FramesFit, FrameFits
<1> QED BY <1>5, <1>6, <1>7 DEF Armed, InTransit

\* A handle Java may give up is a live allocation of one of the pointer types.
LEMMA JavaOwnsMemory ==
  ASSUME Contract, NEW a \in Addrs, java[a] > 0
  PROVE  heap[a].refs >= 1 /\ heap[a].ptr \in Pointers
<1>1. Accounting /\ heap[a].refs \in Nat /\ table[a].owners \in Nat /\ rust[a] \in Nat
  BY AccountingFacts DEF Contract
<1>2. java[a] \in Nat /\ java[a] <= table[a].owners
  BY OwnersFacts
<1>3. heap[a].refs >= 1
  BY <1>1, <1>2, AccountingFacts
<1> QED BY <1>1, <1>3 DEF Accounting, HeapTyped

\* Memory that is allocated has an owner.
LEMMA MemoryIsOwned ==
  ASSUME Contract, NEW a \in Addrs, heap[a].refs > 0
  PROVE  \/ java[a] > 0 \/ rust[a] > 0
         \/ \E f \in Frames : frame[f].addr = a /\ frame[f].role = "Owned"
<1>1. CASE Armed(a) # {}
  BY <1>1 DEF Armed
<1>2. CASE InTransit(a) # {}
  <2>1. PICK f \in InTransit(a) : TRUE
    BY <1>2
  <2>2. f \in Frames /\ frame[f].addr = a /\ frame[f].pc \in TransitPC /\ frame[f].pc # "idle"
    BY <2>1 DEF InTransit, TransitPC
  <2> QED BY <2>2 DEF Contract, FramesFit, FrameFits
<1>3. CASE Armed(a) = {} /\ InTransit(a) = {}
  <2>1. Cardinality(Armed(a)) = 0 /\ Cardinality(InTransit(a)) = 0
    BY <1>3, FS_EmptySet
  <2>2. heap[a].refs = table[a].owners + rust[a] + Cardinality(InTransit(a))
    BY DEF Contract, Accounting, RefsAccounted
  <2>3. table[a].owners = java[a] + Cardinality(Armed(a))
    BY DEF Contract, OwnersAreHandles
  <2>4. java[a] \in Nat /\ rust[a] \in Nat
    BY OwnersFacts
  <2> QED BY <2>1, <2>2, <2>3, <2>4
<1> QED BY <1>1, <1>2, <1>3
=============================================================================
