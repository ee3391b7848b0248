------------------------- MODULE LlmSchedulerProofs -------------------------
(***************************************************************************)
(* The safety of the LLM scheduler for any number of calls and any ceiling,*)
(* proved from one inductive invariant, IInv.                              *)
(***************************************************************************)
EXTENDS LlmScheduler, FiniteSetTheorems, TLAPS

\* The entries of a queue are of its class and have not been served.
QueueShape ==
    \A p \in Priority : \A r \in waiters[p] :
        Class(r) = p /\ st[r] \in {"waiting", "cancelled"}

\* What the pump holds in its hands: only while it has the mutex, an entry it
\* has removed from its queue, a slot below the ceiling, and never a
\* background entry while a user-chat entry is queued.
PumpShape ==
    chosen # None =>
        /\ pumping
        /\ st[chosen] \in {"waiting", "cancelled"}
        /\ chosen \notin Queued
        /\ inflight <= maxInflight
        /\ chosen \in BackgroundCalls => waiters["UserChat"] = {}

IInv == /\ TypeOK
        /\ QueueShape
        /\ PumpShape
        /\ SlotAccounting
        /\ WorkConserving
        /\ NeverDropsQueuedWaiter
-----------------------------------------------------------------------------
\* The holders are finitely many, and counted.
LEMMA HoldersCounted ==
    IsFiniteSet(Holders) /\ Cardinality(Holders) \in Nat
  <1>1. IsFiniteSet(Request) /\ Holders \in SUBSET Request
    BY RequestsAssumption DEF Holders
  <1> QED
    BY <1>1, FS_Subset, FS_CardinalityType

\* To be queued is to stand in one of the two queues.
LEMMA QueuedIn ==
    ASSUME NEW r
    PROVE  r \in Queued <=> r \in waiters["UserChat"] \/ r \in waiters["Background"]
  BY DEF Queued, Priority

\* The same, of the state after a step.
LEMMA QueuedInNext ==
    ASSUME NEW r
    PROVE  (r \in Queued)' <=> r \in waiters'["UserChat"] \/ r \in waiters'["Background"]
  BY DEF Queued, Priority

\* Every request has one of the two priorities.
LEMMA ClassIsPriority ==
    ASSUME NEW r
    PROVE  Class(r) \in Priority
  BY DEF Class, Priority

\* The scheduler starts idle.
LEMMA InitInvariant == Init => IInv
  <1> SUFFICES ASSUME Init PROVE IInv
    OBVIOUS
  <1>1. TypeOK
    BY CeilingAssumption DEF Init, TypeOK, Status, Priority
  <1>2. QueueShape /\ PumpShape /\ NeverDropsQueuedWaiter
    BY DEF Init, QueueShape, PumpShape, NeverDropsQueuedWaiter, Waiting, Priority
  <1>3. SlotAccounting
    <2>1. Holders = {}
      BY DEF Init, Holders, HoldsSlot
    <2> QED
      BY <2>1, FS_EmptySet DEF Init, SlotAccounting
  <1>4. WorkConserving
    BY DEF Init, WorkConserving, Queued, Priority
  <1> QED
    BY <1>1, <1>2, <1>3, <1>4 DEF IInv
-----------------------------------------------------------------------------
(* One lemma per action: it keeps the invariant.                           *)

\* acquire: served at once, or queued behind its class.
LEMMA AcquireKeeps ==
    ASSUME IInv, NEW r \in Request, Acquire(r)
    PROVE  IInv'
  <1> USE DEF IInv
  <1>1. chosen = None /\ chosen' = None /\ ~pumping /\ ~pumping'
    BY DEF Acquire, PumpShape
  <1>2. CASE CanAdmit
    <2>1. /\ inflight' = inflight + 1
          /\ st' = [st EXCEPT ![r] = "running"]
          /\ UNCHANGED <<waiters, ahead, maxInflight, pumping, chosen>>
      BY <1>2 DEF Acquire
    <2>2. Queued = {}
      BY <1>1, <1>2 DEF WorkConserving
    <2>3. TypeOK'
      BY <2>1 DEF TypeOK, Status
    <2>4. QueueShape'
      BY <2>1, <2>2 DEF QueueShape, Queued
    <2>5. PumpShape'
      BY <1>1 DEF PumpShape
    <2>6. SlotAccounting'
      <3>1. Holders' = Holders \cup {r} /\ r \notin Holders
        BY <2>1 DEF Acquire, Holders, HoldsSlot, TypeOK
      <3> QED
        BY <3>1, <2>1, <1>1, HoldersCounted, FS_AddElement DEF SlotAccounting
    <2>7. WorkConserving'
      BY <2>1, <2>2 DEF WorkConserving, Queued
    <2>8. NeverDropsQueuedWaiter'
      BY <2>1 DEF NeverDropsQueuedWaiter, Waiting, TypeOK
    <2> QED
      BY <2>3, <2>4, <2>5, <2>6, <2>7, <2>8
  <1>3. CASE ~CanAdmit
    <2>1. /\ waiters' = [waiters EXCEPT ![Class(r)] = @ \cup {r}]
          /\ ahead' = ahead \cup (waiters[Class(r)] \X {r})
          /\ st' = [st EXCEPT ![r] = "waiting"]
          /\ UNCHANGED <<inflight, maxInflight, pumping, chosen>>
      BY <1>3 DEF Acquire
    <2>2. Class(r) \in Priority
      BY ClassIsPriority
    <2>3. TypeOK'
      <3>1. waiters[Class(r)] \in SUBSET Request
        BY <2>2 DEF TypeOK
      <3>2. waiters' \in [Priority -> SUBSET Request]
        BY <2>1, <2>2, <3>1 DEF TypeOK
      <3>3. ahead' \in SUBSET (Request \X Request)
        BY <2>1, <3>1 DEF TypeOK
      <3> QED
        BY <2>1, <3>2, <3>3 DEF TypeOK, Status
    <2>4. QueueShape'
      BY <2>1, <2>2 DEF QueueShape, TypeOK
    <2>5. PumpShape'
      BY <1>1 DEF PumpShape
    <2>6. SlotAccounting'
      <3>1. Holders' = Holders
        BY <2>1 DEF Acquire, Holders, HoldsSlot, TypeOK
      <3> QED
        BY <3>1, <2>1 DEF SlotAccounting
    <2>7. WorkConserving'
      BY <1>3, <2>1 DEF WorkConserving, CanAdmit
    <2>8. NeverDropsQueuedWaiter'
      BY <2>1, <2>2, ClassIsPriority DEF NeverDropsQueuedWaiter, Waiting, TypeOK
    <2> QED
      BY <2>3, <2>4, <2>5, <2>6, <2>7, <2>8
  <1> QED
    BY <1>2, <1>3

\* Receive, Finish and CancelGranted only move a holder from one holding
\* status to another.
LEMMA HolderStepKeeps ==
    ASSUME IInv, NEW r \in Request, NEW s \in HoldsSlot,
           st[r] \in HoldsSlot,
           st' = [st EXCEPT ![r] = s],
           UNCHANGED <<maxInflight, inflight, waiters, ahead, pumping, chosen>>
    PROVE  IInv'
  <1> USE DEF IInv
  <1>1. TypeOK'
    BY DEF TypeOK, Status, HoldsSlot
  <1>2. QueueShape' /\ PumpShape'
    BY DEF QueueShape, PumpShape, HoldsSlot, TypeOK, Queued, Priority
  <1>3. SlotAccounting'
    <2>1. Holders' = Holders
      BY DEF Holders, TypeOK
    <2> QED
      BY <2>1 DEF SlotAccounting
  <1>4. WorkConserving'
    BY DEF WorkConserving, CanAdmit, Queued
  <1>5. NeverDropsQueuedWaiter'
    BY DEF NeverDropsQueuedWaiter, Waiting, TypeOK, HoldsSlot
  <1> QED
    BY <1>1, <1>2, <1>3, <1>4, <1>5

\* A queued caller drops its future: its entry stays behind.
LEMMA CancelWaitingKeeps ==
    ASSUME IInv, NEW r \in Request, CancelWaiting(r)
    PROVE  IInv'
  <1> USE DEF IInv, CancelWaiting
  <1>1. TypeOK'
    BY DEF TypeOK, Status
  <1>2. QueueShape' /\ PumpShape'
    BY DEF QueueShape, PumpShape, TypeOK, Queued, Priority
  <1>3. SlotAccounting'
    <2>1. Holders' = Holders
      BY DEF Holders, HoldsSlot, TypeOK
    <2> QED
      BY <2>1 DEF SlotAccounting
  <1>4. WorkConserving'
    BY DEF WorkConserving, CanAdmit, Queued
  <1>5. NeverDropsQueuedWaiter'
    BY DEF NeverDropsQueuedWaiter, Waiting, TypeOK
  <1> QED
    BY <1>1, <1>2, <1>3, <1>4, <1>5

\* A permit is dropped: its slot is free and the lock holder scans.
LEMMA ReleaseKeeps ==
    ASSUME IInv, NEW r \in Request, Release(r)
    PROVE  IInv'
  <1> USE DEF IInv
  <1>1. chosen = None /\ chosen' = None /\ pumping'
    BY DEF Release, PumpShape
  <1>2. Holders' = Holders \ {r} /\ r \in Holders
    BY DEF Release, Holders, HoldsSlot, TypeOK
  <1>3. Cardinality(Holders') = inflight - 1 /\ inflight - 1 \in Nat
    <2>1. inflight = Cardinality(Holders)
      BY <1>1, HoldersCounted DEF SlotAccounting
    <2>2. Cardinality(Holders \ {r}) \in Nat
      BY HoldersCounted, FS_RemoveElement, FS_CardinalityType
    <2>3. Cardinality(Holders \ {r}) = Cardinality(Holders) - 1
      BY <1>2, HoldersCounted, FS_RemoveElement
    <2> QED
      BY <1>2, <2>1, <2>2, <2>3
  <1>4. TypeOK' /\ SlotAccounting'
    <2>1. TypeOK'
      BY <1>3 DEF Release, TypeOK, Status
    <2>2. SlotAccounting'
      <3>1. SlotAccounting' <=> inflight' = Cardinality(Holders')
        BY <1>1, <1>3 DEF SlotAccounting, Release
      <3> QED
        BY <1>3, <3>1 DEF Release
    <2> QED
      BY <2>1, <2>2
  <1>5. QueueShape' /\ PumpShape'
    BY <1>1 DEF Release, QueueShape, PumpShape, TypeOK
  <1>6. WorkConserving'
    BY <1>1 DEF WorkConserving
  <1>7. NeverDropsQueuedWaiter'
    BY <1>1 DEF Release, NeverDropsQueuedWaiter, Waiting, TypeOK
  <1> QED
    BY <1>4, <1>5, <1>6, <1>7

\* The ceiling changes under the lock, which is followed by a scan.
LEMMA SetMaxInflightKeeps ==
    ASSUME IInv, NEW n \in 1..MaxCeiling, SetMaxInflight(n)
    PROVE  IInv'
  <1> USE DEF IInv, SetMaxInflight
  <1>1. chosen = None /\ chosen' = None
    BY DEF PumpShape
  <1>2. TypeOK'
    BY DEF TypeOK
  <1>3. QueueShape' /\ PumpShape' /\ WorkConserving' /\ NeverDropsQueuedWaiter'
    BY <1>1 DEF QueueShape, PumpShape, WorkConserving, NeverDropsQueuedWaiter, Waiting
  <1>4. SlotAccounting'
    <2>1. Holders' = Holders
      BY DEF Holders
    <2> QED
      BY <2>1 DEF SlotAccounting
  <1> QED
    BY <1>2, <1>3, <1>4
-----------------------------------------------------------------------------
(* The steps of the pump.                                                  *)

\* pump takes the oldest entry that lives and reserves a slot for it.
LEMMA PumpPopKeeps ==
    ASSUME IInv, NEW r \in Request, PumpPop(r)
    PROVE  IInv'
  <1> USE DEF IInv
  <1> DEFINE P == ScannedFor(Class(r))
  <1>1. /\ pumping /\ chosen = None /\ inflight < maxInflight
        /\ r \in waiters[Class(r)] /\ st[r] = "waiting"
        /\ r \in BackgroundCalls => Live(waiters["UserChat"]) = {}
    BY DEF PumpPop, CanAdmit, Live
  <1>2. /\ waiters' = [p \in Priority |->
                         IF p \in P THEN Live(waiters[p]) \ {r} ELSE waiters[p]]
        /\ st' = Forgotten(P)
        /\ inflight' = inflight + 1
        /\ chosen' = r
        /\ UNCHANGED <<maxInflight, pumping>>
    BY DEF PumpPop
  <1>3. Class(r) \in P /\ P \subseteq Priority
    BY DEF ScannedFor, Class, Priority
  <1>4. \A p \in Priority : waiters'[p] \subseteq waiters[p]
    BY <1>2 DEF Live
  \* Only closed entries of the scanned queues are forgotten.
  <1>5. \A q \in Request :
          st'[q] = IF st[q] = "cancelled" /\ \E p \in P : q \in waiters[p]
                     THEN "idle" ELSE st[q]
    BY <1>2 DEF Forgotten
  <1> HIDE DEF P
  <1>6. TypeOK'
    <2>1. waiters' \in [Priority -> SUBSET Request]
      BY <1>2 DEF TypeOK, Live
    <2>2. ahead' \in SUBSET (Request \X Request)
      BY DEF TypeOK, PumpPop
    <2>3. st' \in [Request -> Status]
      BY <1>2 DEF TypeOK, Forgotten, Status
    <2> QED
      BY <1>1, <1>2, <2>1, <2>2, <2>3 DEF TypeOK
  <1>7. QueueShape'
    <2> SUFFICES ASSUME NEW p \in Priority, NEW q \in waiters'[p]
                 PROVE  Class(q) = p /\ st'[q] \in {"waiting", "cancelled"}
      BY DEF QueueShape
    <2>1. q \in waiters[p] /\ q \in Request
      BY <1>4 DEF TypeOK
    <2>2. Class(q) = p /\ st[q] \in {"waiting", "cancelled"}
      BY <2>1 DEF QueueShape
    <2>3. CASE p \in P
      <3>1. st[q] = "waiting"
        BY <1>2, <2>3 DEF Live
      <3> QED
        BY <1>5, <2>1, <2>2, <3>1
    <2>4. CASE p \notin P
      <3>1. \A o \in P : q \notin waiters[o]
        BY <1>3, <2>2, <2>4 DEF QueueShape
      <3> QED
        BY <1>5, <2>1, <2>2, <3>1
    <2> QED
      BY <2>3, <2>4
  <1>8. PumpShape'
    <2>1. st'[r] = "waiting"
      BY <1>1, <1>5
    <2>2. \A p \in Priority : r \notin waiters'[p]
      <3> SUFFICES ASSUME NEW p \in Priority, r \in waiters'[p]
                   PROVE  FALSE
        OBVIOUS
      <3>1. p = Class(r)
        BY <1>4 DEF QueueShape
      <3> QED
        BY <1>2, <1>3, <3>1
    <2>3. (r \notin Queued)'
      BY <2>2, QueuedInNext DEF Priority
    <2>4. inflight' <= maxInflight'
      BY <1>1, <1>2 DEF TypeOK
    <2>5. r \in BackgroundCalls => waiters'["UserChat"] = {}
      <3> SUFFICES ASSUME r \in BackgroundCalls PROVE waiters'["UserChat"] = {}
        OBVIOUS
      <3>1. "UserChat" \in P
        BY RequestsAssumption DEF P, ScannedFor, Class, Priority
      <3> QED
        BY <1>1, <1>2, <3>1 DEF Priority
    <2> QED
      BY <1>1, <1>2, <2>1, <2>3, <2>4, <2>5 DEF PumpShape
  <1>9. SlotAccounting'
    <2>1. Holders' = Holders
      BY <1>5 DEF Holders, HoldsSlot
    <2>2. inflight = Cardinality(Holders)
      BY <1>1, HoldersCounted DEF SlotAccounting
    <2>3. r # None
      BY RequestsAssumption
    <2> QED
      BY <1>2, <2>1, <2>2, <2>3 DEF SlotAccounting
  <1>10. WorkConserving'
    BY <1>1, <1>2 DEF WorkConserving
  <1>11. NeverDropsQueuedWaiter'
    <2> SUFFICES ASSUME NEW q \in Request, st'[q] = "waiting", q # r
                 PROVE  q \in waiters'[Class(q)]
      BY <1>2 DEF NeverDropsQueuedWaiter, Waiting
    <2>1. st[q] = "waiting"
      BY <1>5
    <2>2. q \in waiters[Class(q)]
      BY <1>1, <2>1, RequestsAssumption DEF NeverDropsQueuedWaiter, Waiting
    <2> QED
      BY <1>2, <2>1, <2>2, ClassIsPriority DEF Live
  <1> QED
    BY <1>6, <1>7, <1>8, <1>9, <1>10, <1>11

\* pump sends the permit; a receiver that is gone gives the slot back.
LEMMA PumpSendKeeps ==
    ASSUME IInv, PumpSend
    PROVE  IInv'
  <1> USE DEF IInv
  <1>1. /\ chosen \in Request /\ pumping
        /\ st[chosen] \in {"waiting", "cancelled"}
        /\ chosen \notin Queued
        /\ chosen' = None
        /\ UNCHANGED <<maxInflight, waiters, ahead, pumping>>
    BY DEF PumpSend, PumpShape, TypeOK
  <1>2. inflight = Cardinality(Holders) + 1
    BY <1>1, RequestsAssumption DEF SlotAccounting
  <1>3. /\ st' \in [Request -> Status]
        /\ st'[chosen] \in {"granted", "idle"}
        /\ \A q \in Request \ {chosen} : st'[q] = st[q]
    BY <1>1 DEF PumpSend, TypeOK, Status
  <1>4. SlotAccounting' /\ inflight' \in Nat
    <2>1. CASE st[chosen] = "waiting"
      <3>1. Holders' = Holders \cup {chosen} /\ chosen \notin Holders
        BY <1>1, <2>1 DEF PumpSend, Holders, HoldsSlot, TypeOK
      <3>2. inflight' = inflight
        BY <2>1 DEF PumpSend
      <3>3. Cardinality(Holders') = Cardinality(Holders) + 1
        BY <3>1, HoldersCounted, FS_AddElement
      <3> QED
        BY <1>1, <1>2, <3>2, <3>3, HoldersCounted DEF SlotAccounting
    <2>2. CASE st[chosen] = "cancelled"
      <3>1. Holders' = Holders
        BY <1>1, <2>2 DEF PumpSend, Holders, HoldsSlot, TypeOK
      <3>2. inflight' = inflight - 1
        BY <2>2 DEF PumpSend
      <3> QED
        BY <1>1, <1>2, <3>1, <3>2, HoldersCounted DEF SlotAccounting
    <2> QED
      BY <1>1, <2>1, <2>2
  <1>5. TypeOK'
    BY <1>1, <1>3, <1>4 DEF TypeOK
  <1>6. QueueShape'
    <2> SUFFICES ASSUME NEW p \in Priority, NEW q \in waiters[p]
                 PROVE  Class(q) = p /\ st'[q] \in {"waiting", "cancelled"}
      BY <1>1 DEF QueueShape
    <2>1. q \in Request /\ q # chosen
      BY <1>1 DEF TypeOK, Queued
    <2> QED
      BY <1>3, <2>1 DEF QueueShape
  <1>7. PumpShape' /\ WorkConserving'
    BY <1>1 DEF PumpShape, WorkConserving
  <1>8. NeverDropsQueuedWaiter'
    BY <1>1, <1>3 DEF NeverDropsQueuedWaiter, Waiting
  <1> QED
    BY <1>4, <1>5, <1>6, <1>7, <1>8

\* pump stops at the ceiling or when both queues are empty.
LEMMA PumpStopKeeps ==
    ASSUME IInv, PumpFull \/ PumpDrained
    PROVE  IInv'
  <1> USE DEF IInv
  <1>1. CASE PumpFull
    <2>1. Holders' = Holders
      BY <1>1 DEF PumpFull, Holders
    <2> QED
      BY <1>1, <2>1 DEF PumpFull, TypeOK, QueueShape, PumpShape, SlotAccounting,
                        WorkConserving, CanAdmit, NeverDropsQueuedWaiter, Waiting
  <1>2. CASE PumpDrained
    <2>1. /\ chosen = None /\ chosen' = None
          /\ waiters' = [p \in Priority |-> {}]
          /\ UNCHANGED <<maxInflight, inflight>>
      BY <1>2 DEF PumpDrained
    <2>2. st' \in [Request -> Status]
          /\ \A q \in Request : st'[q] \in {st[q], "idle"}
                               /\ (st[q] # "cancelled" => st'[q] = st[q])
      BY <1>2 DEF PumpDrained, Forgotten, TypeOK, Status
    <2>3. TypeOK'
      BY <1>2, <2>1, <2>2 DEF PumpDrained, TypeOK
    <2>4. QueueShape' /\ PumpShape'
      BY <2>1 DEF QueueShape, PumpShape
    <2>5. SlotAccounting'
      <3>1. Holders' = Holders
        BY <2>2 DEF Holders, HoldsSlot
      <3> QED
        BY <2>1, <3>1 DEF SlotAccounting
    <2>6. WorkConserving'
      BY <2>1 DEF WorkConserving, Queued
    <2>7. NeverDropsQueuedWaiter'
      <3> SUFFICES ASSUME NEW q \in Request, st'[q] = "waiting"
                   PROVE  FALSE
        BY DEF NeverDropsQueuedWaiter, Waiting
      <3>1. st[q] = "waiting"
        BY <2>2
      <3>2. q \in waiters[Class(q)]
        BY <2>1, <3>1, RequestsAssumption DEF NeverDropsQueuedWaiter, Waiting
      <3> QED
        BY <1>2, <3>1, <3>2, ClassIsPriority DEF PumpDrained, Live
    <2> QED
      BY <2>3, <2>4, <2>5, <2>6, <2>7
  <1> QED
    BY <1>1, <1>2
-----------------------------------------------------------------------------
\* Every step of the scheduler keeps the invariant.
LEMMA NextKeeps ==
    ASSUME IInv, [Next]_vars
    PROVE  IInv'
  <1>1. ASSUME NEW r \in Request, Acquire(r) PROVE IInv'
    BY <1>1, AcquireKeeps
  <1>2. ASSUME NEW r \in Request, Receive(r) \/ CancelGranted(r) \/ Finish(r)
        PROVE  IInv'
    <2>1. \E s \in HoldsSlot : st' = [st EXCEPT ![r] = s]
      BY <1>2 DEF Receive, CancelGranted, Finish, HoldsSlot
    <2>2. /\ st[r] \in HoldsSlot
          /\ UNCHANGED <<maxInflight, inflight, waiters, ahead, pumping, chosen>>
      BY <1>2 DEF Receive, CancelGranted, Finish, HoldsSlot
    <2> QED
      BY <2>1, <2>2, HolderStepKeeps
  <1>3. ASSUME NEW r \in Request, CancelWaiting(r) PROVE IInv'
    BY <1>3, CancelWaitingKeeps
  <1>4. ASSUME NEW r \in Request, Release(r) PROVE IInv'
    BY <1>4, ReleaseKeeps
  <1>5. ASSUME NEW n \in 1..MaxCeiling, SetMaxInflight(n) PROVE IInv'
    BY <1>5, SetMaxInflightKeeps
  <1>6. ASSUME NEW r \in Request, PumpPop(r) PROVE IInv'
    BY <1>6, PumpPopKeeps
  <1>7. CASE PumpSend
    BY <1>7, PumpSendKeeps
  <1>8. CASE PumpFull \/ PumpDrained
    BY <1>8, PumpStopKeeps
  <1>9. CASE UNCHANGED vars
    BY <1>9 DEF vars, IInv, TypeOK, QueueShape, PumpShape, SlotAccounting, Holders,
                WorkConserving, CanAdmit, NeverDropsQueuedWaiter, Waiting, Queued
  <1> QED
    BY <1>1, <1>2, <1>3, <1>4, <1>5, <1>6, <1>7, <1>8, <1>9 DEF Next, Pump

\* IInv holds in every reachable state.
THEOREM Invariant == Spec => []IInv
  <1>1. Init => IInv
    BY InitInvariant
  <1>2. IInv /\ [Next]_vars => IInv'
    BY NextKeeps
  <1> QED
    BY <1>1, <1>2, PTL DEF Spec

\* The state is well typed; in particular the in-flight counter, a usize in
\* the code, is never decremented below zero (lib.rs:162).
THEOREM TypeCorrect == Spec => []TypeOK
  <1>1. IInv => TypeOK
    BY DEF IInv
  <1> QED
    BY <1>1, Invariant, PTL

\* The counter is exact: every permit that exists is counted once, whatever
\* is cancelled while the pump runs.
THEOREM AccountingExact == Spec => []SlotAccounting
  <1>1. IInv => SlotAccounting
    BY DEF IInv
  <1> QED
    BY <1>1, Invariant, PTL

\* No wake-up is lost: outside the pump a free slot means an empty queue.
THEOREM NoLostWakeup == Spec => []WorkConserving
  <1>1. IInv => WorkConserving
    BY DEF IInv
  <1> QED
    BY <1>1, Invariant, PTL

\* The expect of lib.rs:114 never fires: a caller that waits always has its
\* sender in the scheduler.
THEOREM SenderKept == Spec => []NeverDropsQueuedWaiter
  <1>1. IInv => NeverDropsQueuedWaiter
    BY DEF IInv
  <1> QED
    BY <1>1, Invariant, PTL
-----------------------------------------------------------------------------
(* LlmScheduler implements SlotPool.                                       *)

\* The cardinality SlotPool counts its holders with is this module's.
LEMMA PoolCardinality ==
    ASSUME NEW S
    PROVE  Pool!Cardinality(S) = Cardinality(S)
  BY DEF Pool!Cardinality, Cardinality

\* A slot of the abstract pool is free when fewer than the ceiling are held.
LEMMA PoolFreeSlot == Pool!FreeSlot <=> Cardinality(Holders) < maxInflight
  BY PoolCardinality DEF Pool!FreeSlot

\* A call served at once finds a free slot and nobody waiting; a call that
\* queues finds the pool full.
LEMMA AcquireArrives ==
    ASSUME IInv, NEW r \in Request, Acquire(r)
    PROVE  Pool!Arrive(r)
  <1>1. chosen = None /\ ~pumping /\ inflight = Cardinality(Holders)
    BY HoldersCounted DEF IInv, PumpShape, SlotAccounting, Acquire
  <1>2. r \notin Waiting \cup Holders
    BY DEF Acquire, Waiting, Holders, HoldsSlot
  <1>3. CASE CanAdmit
    <2>1. Waiting = {}
      <3> SUFFICES ASSUME NEW q \in Waiting PROVE FALSE
        OBVIOUS
      <3>1. q \in waiters[Class(q)]
        BY <1>1, RequestsAssumption DEF IInv, NeverDropsQueuedWaiter, Waiting
      <3>2. Queued = {}
        BY <1>1, <1>3 DEF IInv, WorkConserving
      <3> QED
        BY <3>1, <3>2, ClassIsPriority DEF Queued
    <2>2. Holders' = Holders \cup {r} /\ Waiting' = Waiting /\ maxInflight' = maxInflight
      BY <1>3 DEF Acquire, Holders, Waiting, HoldsSlot, IInv, TypeOK
    <2> QED
      BY <1>1, <1>2, <1>3, <2>1, <2>2, PoolFreeSlot DEF Pool!Arrive, CanAdmit
  <1>4. CASE ~CanAdmit
    <2>1. Waiting' = Waiting \cup {r} /\ Holders' = Holders /\ maxInflight' = maxInflight
      BY <1>4 DEF Acquire, Holders, Waiting, HoldsSlot, IInv, TypeOK
    <2> QED
      BY <1>1, <1>2, <1>4, <2>1, PoolFreeSlot DEF Pool!Arrive, CanAdmit
  <1> QED
    BY <1>3, <1>4

\* The send is the moment a slot is granted; a failed send changes nothing.
LEMMA SendGrants ==
    ASSUME IInv, PumpSend
    PROVE  Pool!Grant(chosen) \/ UNCHANGED Pool!poolVars
  <1>1. /\ chosen \in Request /\ chosen # None
        /\ inflight <= maxInflight
        /\ chosen \in BackgroundCalls => waiters["UserChat"] = {}
        /\ maxInflight' = maxInflight
    BY DEF PumpSend, IInv, PumpShape, TypeOK
  <1>2. CASE st[chosen] = "waiting"
    <2>1. /\ chosen \in Waiting
          /\ Waiting' = Waiting \ {chosen}
          /\ Holders' = Holders \cup {chosen}
      BY <1>1, <1>2 DEF PumpSend, Waiting, Holders, HoldsSlot, IInv, TypeOK
    <2>2. Cardinality(Holders) < maxInflight
      BY <1>1, HoldersCounted DEF IInv, SlotAccounting, TypeOK
    <2>3. chosen \in BackgroundCalls => Waiting \cap ChatCalls = {}
      <3> SUFFICES ASSUME chosen \in BackgroundCalls, NEW q \in Waiting \cap ChatCalls
                   PROVE  FALSE
        OBVIOUS
      <3>1. q # chosen /\ Class(q) = "UserChat"
        BY RequestsAssumption DEF Class
      <3> QED
        BY <1>1, <3>1 DEF IInv, NeverDropsQueuedWaiter
    <2> QED
      BY <1>1, <2>1, <2>2, <2>3, PoolFreeSlot DEF Pool!Grant
  <1>3. CASE st[chosen] = "cancelled"
    <2>1. Waiting' = Waiting /\ Holders' = Holders
      BY <1>1, <1>3 DEF PumpSend, Waiting, Holders, HoldsSlot, IInv, TypeOK
    <2> QED
      BY <1>1, <2>1 DEF Pool!poolVars
  <1> QED
    BY <1>2, <1>3 DEF PumpSend

\* The other steps of the pump only touch entries nobody waits for.
LEMMA PumpIsInvisible ==
    ASSUME IInv, NEW P, st' = st \/ st' = Forgotten(P), maxInflight' = maxInflight
    PROVE  UNCHANGED Pool!poolVars
  <1>1. \A q \in Request : st'[q] = st[q] \/ (st[q] = "cancelled" /\ st'[q] = "idle")
    BY DEF Forgotten
  <1>2. Waiting' = Waiting /\ Holders' = Holders
    BY <1>1 DEF Waiting, Holders, HoldsSlot
  <1> QED
    BY <1>2 DEF Pool!poolVars

\* Every step of the scheduler is a step of the pool or leaves it alone.
LEMMA StepRefines ==
    ASSUME IInv, [Next]_vars
    PROVE  [Pool!Next]_(Pool!poolVars)
  <1> USE DEF Request
  <1>1. ASSUME NEW r \in Request, Acquire(r) PROVE Pool!Next
    BY <1>1, AcquireArrives DEF Pool!Next
  <1>2. ASSUME NEW r \in Request, Receive(r) \/ CancelGranted(r) \/ Finish(r)
        PROVE  UNCHANGED Pool!poolVars
    <2>1. Waiting' = Waiting /\ Holders' = Holders /\ maxInflight' = maxInflight
      BY <1>2 DEF Receive, CancelGranted, Finish, Waiting, Holders, HoldsSlot,
                  IInv, TypeOK
    <2> QED
      BY <2>1 DEF Pool!poolVars
  <1>3. ASSUME NEW r \in Request, CancelWaiting(r) PROVE Pool!Next
    <2>1. /\ r \in Waiting /\ Waiting' = Waiting \ {r}
          /\ Holders' = Holders /\ maxInflight' = maxInflight
      BY <1>3 DEF CancelWaiting, Waiting, Holders, HoldsSlot, IInv, TypeOK
    <2> QED
      BY <2>1 DEF Pool!Next, Pool!GiveUp
  <1>4. ASSUME NEW r \in Request, Release(r) PROVE Pool!Next
    <2>1. /\ r \in Holders /\ Holders' = Holders \ {r}
          /\ Waiting' = Waiting /\ maxInflight' = maxInflight
      BY <1>4 DEF Release, Waiting, Holders, HoldsSlot, IInv, TypeOK
    <2> QED
      BY <2>1 DEF Pool!Next, Pool!Leave
  <1>5. ASSUME NEW n \in 1..MaxCeiling, SetMaxInflight(n) PROVE Pool!Next
    <2>1. Waiting' = Waiting /\ Holders' = Holders /\ maxInflight' = n
      BY <1>5 DEF SetMaxInflight, Waiting, Holders
    <2> QED
      BY <2>1 DEF Pool!Next, Pool!SetCeiling
  <1>6. ASSUME NEW r \in Request, PumpPop(r) PROVE UNCHANGED Pool!poolVars
    BY <1>6, PumpIsInvisible DEF PumpPop
  <1>7. CASE PumpSend
    <2>1. chosen \in Request
      BY <1>7 DEF PumpSend, IInv, TypeOK
    <2> QED
      BY <1>7, <2>1, SendGrants DEF Pool!Next
  <1>8. CASE PumpFull \/ PumpDrained
    BY <1>8, PumpIsInvisible DEF PumpFull, PumpDrained
  <1>9. CASE UNCHANGED vars
    BY <1>9 DEF vars, Pool!poolVars, Waiting, Holders
  <1> QED
    BY <1>1, <1>2, <1>3, <1>4, <1>5, <1>6, <1>7, <1>8, <1>9 DEF Next, Pump

\* The scheduler, with its lock, its queues and its pump, does nothing a pool
\* of slots would not do: a slot is granted only below the ceiling, never to
\* background work while a user-chat request waits, and a newcomer overtakes
\* nobody.
THEOREM Refinement == Spec => ImplementsSlotPool
  <1>1. Init => Pool!Init
    BY DEF Init, Pool!Init, Waiting, Holders, HoldsSlot
  <1>2. IInv /\ [Next]_vars => [Pool!Next]_(Pool!poolVars)
    BY StepRefines
  <1> QED
    BY <1>1, <1>2, Invariant, PTL DEF Spec, Pool!Spec, ImplementsSlotPool
-----------------------------------------------------------------------------
(* The order of service.                                                   *)

\* Only entries that stand in one and the same queue are ordered.
OrderShape == \A r, q : <<r, q>> \in ahead =>
                 \E p \in Priority : r \in waiters[p] /\ q \in waiters[p]

\* Only calls that wait in the same queue are ordered.
LEMMA OrderShapeKept ==
    ASSUME IInv, OrderShape, [Next]_vars
    PROVE  OrderShape'
  <1> SUFFICES ASSUME NEW a, NEW b, <<a, b>> \in ahead'
               PROVE  \E p \in Priority : a \in waiters'[p] /\ b \in waiters'[p]
    BY DEF OrderShape
  <1>1. ASSUME UNCHANGED <<waiters, ahead>>
        PROVE  \E p \in Priority : a \in waiters'[p] /\ b \in waiters'[p]
    BY <1>1 DEF OrderShape
  <1>2. ASSUME NEW r \in Request, Acquire(r)
        PROVE  \E p \in Priority : a \in waiters'[p] /\ b \in waiters'[p]
    <2>1. CASE UNCHANGED <<waiters, ahead>>
      BY <1>1, <2>1
    <2>2. CASE /\ waiters' = [waiters EXCEPT ![Class(r)] = @ \cup {r}]
               /\ ahead' = ahead \cup (waiters[Class(r)] \X {r})
      <3>1. \A p \in Priority : waiters[p] \subseteq waiters'[p]
        BY <2>2 DEF IInv, TypeOK
      <3>2. r \in waiters'[Class(r)] /\ Class(r) \in Priority
        BY <2>2, ClassIsPriority DEF IInv, TypeOK
      <3>3. CASE <<a, b>> \in ahead
        BY <3>1, <3>3 DEF OrderShape
      <3>4. CASE a \in waiters[Class(r)] /\ b = r
        BY <3>1, <3>2, <3>4
      <3> QED
        BY <2>2, <3>3, <3>4
    <2> QED
      BY <1>2, <2>1, <2>2 DEF Acquire
  <1>3. ASSUME NEW r \in Request, PumpPop(r)
        PROVE  \E p \in Priority : a \in waiters'[p] /\ b \in waiters'[p]
    <2>1. <<a, b>> \in ahead
      BY <1>3 DEF PumpPop
    <2>2. PICK p \in Priority : a \in waiters[p] /\ b \in waiters[p]
      BY <2>1 DEF OrderShape
    <2>3. \A o \in Priority : waiters'[o] \subseteq waiters[o]
      BY <1>3 DEF PumpPop, Live
    <2>4. \E o \in Priority : a \in waiters'[o]
      BY <1>3 DEF PumpPop
    <2>5. \E o \in Priority : b \in waiters'[o]
      BY <1>3 DEF PumpPop
    <2> QED
      BY <2>2, <2>3, <2>4, <2>5 DEF IInv, QueueShape
  <1>4. CASE PumpDrained
    BY <1>4 DEF PumpDrained
  <1>5. CASE UNCHANGED vars
    BY <1>1, <1>5 DEF vars
  <1> QED
    BY <1>1, <1>2, <1>3, <1>4, <1>5 DEF Next, Pump, Receive, CancelWaiting,
         CancelGranted, Finish, Release, SetMaxInflight, PumpSend, PumpFull

\* While r and s both wait, r stays before s and s is not served.
LEMMA OrderStep ==
    ASSUME IInv, OrderShape, [Next]_vars,
           NEW r \in Request, NEW s \in Request,
           st[r] = "waiting", st'[r] = "waiting", st[s] = "waiting", Before(r, s)
    PROVE  st'[s] \notin HoldsSlot /\ (st'[s] = "waiting" => Before(r, s)')
  <1>1. CASE <<r, s>> \notin ahead
    <2>1. r = chosen /\ s \in waiters[Class(r)] /\ s # chosen /\ chosen # None /\ pumping
      BY <1>1, RequestsAssumption, ClassIsPriority
      DEF Before, IInv, PumpShape, Queued
    <2>2. UNCHANGED <<chosen, waiters>>
      BY <2>1 DEF Next, Pump, Acquire, Receive, CancelWaiting, CancelGranted, Finish,
                  Release, SetMaxInflight, PumpPop, PumpSend, PumpFull, PumpDrained,
                  vars, IInv, TypeOK
    <2>3. st'[s] \in {"waiting", "cancelled"}
      BY <2>1 DEF Next, Pump, Acquire, Receive, CancelWaiting, CancelGranted, Finish,
                  Release, SetMaxInflight, PumpPop, PumpSend, PumpFull, PumpDrained,
                  vars, IInv, TypeOK
    <2> QED
      BY <2>1, <2>2, <2>3 DEF Before, HoldsSlot
  <1>2. CASE <<r, s>> \in ahead
    <2>1. PICK p \in Priority : r \in waiters[p] /\ s \in waiters[p]
      BY <1>2 DEF OrderShape
    <2>2. p = Class(r) /\ p = Class(s) /\ r \in Queued /\ s \in Queued
      BY <2>1 DEF IInv, QueueShape, Queued
    <2>3. ASSUME NEW c \in Request, PumpPop(c)
          PROVE  st'[s] = "waiting" /\ Before(r, s)'
      <3>1. /\ r \in Live(waiters[p]) /\ s \in Live(waiters[p])
            /\ chosen' = c
        BY <2>1, <2>3 DEF Live, PumpPop
      <3>2. s # c
        BY <1>2, <2>2, <2>3, <3>1 DEF PumpPop, AtFront
      <3>3. s \in waiters'[p]
        BY <2>1, <2>3, <3>1, <3>2 DEF PumpPop
      <3>4. st'[s] = "waiting"
        BY <2>3 DEF PumpPop, Forgotten
      <3>5. CASE r = c
        BY <2>2, <3>1, <3>3, <3>4, <3>5 DEF Before
      <3>6. CASE r # c
        <4>1. r \in waiters'[p]
          BY <2>1, <2>3, <3>1, <3>6 DEF PumpPop
        <4>2. <<r, s>> \in ahead'
          BY <1>2, <2>3, <3>3, <4>1 DEF PumpPop
        <4> QED
          BY <3>4, <4>2 DEF Before
      <3> QED
        BY <3>5, <3>6
    <2>4. ASSUME PumpSend
          PROVE  st'[s] = "waiting" /\ <<r, s>> \in ahead'
      <3>1. s # chosen
        BY <2>2, <2>4 DEF PumpSend, IInv, PumpShape
      <3> QED
        BY <1>2, <2>4, <3>1 DEF PumpSend, IInv, TypeOK
    <2>5. CASE PumpDrained
      BY <2>1, <2>5 DEF PumpDrained, Live
    <2>6. CASE \/ \E q \in Request : \/ Acquire(q) \/ Receive(q) \/ CancelWaiting(q)
                                     \/ CancelGranted(q) \/ Finish(q) \/ Release(q)
               \/ \E n \in 1..MaxCeiling : SetMaxInflight(n)
               \/ PumpFull \/ UNCHANGED vars
      <3>1. st'[s] \in {"waiting", "cancelled"}
        BY <2>6 DEF Acquire, Receive, CancelWaiting, CancelGranted, Finish, Release,
                    SetMaxInflight, PumpFull, vars, IInv, TypeOK
      <3>2. <<r, s>> \in ahead'
        BY <1>2, <2>6 DEF Acquire, Receive, CancelWaiting, CancelGranted, Finish,
                          Release, SetMaxInflight, PumpFull, vars
      <3> QED
        BY <3>1, <3>2 DEF Before, HoldsSlot
    <2> QED
      BY <2>3, <2>4, <2>5, <2>6 DEF Next, Pump, HoldsSlot, Before
  <1> QED
    BY <1>1, <1>2

\* A newcomer is before nobody.
LEMMA NewcomerStep ==
    ASSUME IInv, OrderShape, [Next]_vars,
           NEW r \in Request, NEW s \in Request,
           st[r] # "waiting", st'[r] = "waiting", st'[s] = "waiting"
    PROVE  ~Before(r, s)'
  <1>1. Acquire(r) /\ ~CanAdmit
    BY DEF Next, Pump, Acquire, Receive, CancelWaiting, CancelGranted, Finish, Release,
           SetMaxInflight, PumpPop, PumpSend, PumpFull, PumpDrained, Forgotten, vars,
           IInv, TypeOK
  <1>2. st[r] = "idle" /\ chosen' = None
    BY <1>1 DEF Acquire, IInv, PumpShape
  <1>3. r \notin Queued
    BY <1>2 DEF IInv, QueueShape, Queued
  <1>4. <<r, s>> \notin ahead
    BY <1>3 DEF OrderShape, Queued
  <1>5. r \notin waiters[Class(r)]
    BY <1>3, ClassIsPriority DEF Queued
  <1> QED
    BY <1>1, <1>2, <1>4, <1>5, RequestsAssumption DEF Acquire, Before

\* Within a class the order of arrival is the order of service.
THEOREM FirstComeFirstServed == Spec => ArrivalOrderKept
  <1>1. Init => OrderShape
    BY DEF Init, OrderShape
  <1>2. IInv /\ OrderShape /\ [Next]_vars => OrderShape'
    BY OrderShapeKept
  <1> DEFINE Order ==
        \A r, s \in Request :
          /\ st[r] = "waiting" /\ st'[r] = "waiting" /\ st[s] = "waiting"
             /\ Before(r, s)
             => st'[s] \notin HoldsSlot /\ (st'[s] = "waiting" => Before(r, s)')
          /\ st[r] # "waiting" /\ st'[r] = "waiting" /\ st'[s] = "waiting"
             => ~Before(r, s)'
  <1>3. IInv /\ OrderShape /\ [Next]_vars => [Order]_vars
    BY OrderStep, NewcomerStep
  <1>4. ArrivalOrderKept <=> [][Order]_vars
    BY DEF ArrivalOrderKept
  <1> HIDE DEF Order
  <1> QED
    BY <1>1, <1>2, <1>3, <1>4, Invariant, PTL DEF Spec
=============================================================================
