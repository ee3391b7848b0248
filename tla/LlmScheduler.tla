---------------------------- MODULE LlmScheduler ----------------------------
(***************************************************************************)
(* The priority scheduler every LLM request goes through                   *)
(* (crates/llm-scheduler/src/lib.rs).  One mutex guards the counter and    *)
(* the two queues of one-shot senders; a caller drops its receiver without *)
(* the mutex, so cancellation may fall between any two steps of the pump.  *)
(*                                                                         *)
(* A queue (VecDeque) is the set of its entries and the strict order they  *)
(* stand in, ahead: <<q, r>> \in ahead when q is nearer the front than r.  *)
(* A request name stands for one call of acquire; it is free for another   *)
(* call once nothing in the scheduler remembers the previous one.          *)
(***************************************************************************)
EXTENDS Naturals, FiniteSets

CONSTANTS ChatCalls,        \* calls of acquire at Priority::UserChat
          BackgroundCalls,  \* calls of acquire at Priority::Background
          MaxCeiling,       \* bound: the largest in-flight ceiling that is set
          None              \* no request

Request == ChatCalls \cup BackgroundCalls

ASSUME RequestsAssumption == /\ IsFiniteSet(Request)
                             /\ ChatCalls \cap BackgroundCalls = {}
                             /\ None \notin Request
ASSUME CeilingAssumption == MaxCeiling \in Nat \ {0}

VARIABLES
    maxInflight,  \* State::max_inflight
    inflight,     \* State::inflight
    waiters,      \* State::waiters: the entries of each class's queue
    ahead,        \* ... and the order they stand in
    st,           \* where each call of acquire / its permit is
    pumping,      \* some thread holds the mutex and is inside pump
    chosen        \* the sender pump has popped and not yet sent to

vars == <<maxInflight, inflight, waiters, ahead, st, pumping, chosen>>

Priority == {"UserChat", "Background"}
Class(r) == IF r \in ChatCalls THEN "UserChat" ELSE "Background"

(* idle      no call, or one that is completely over                       *)
(* waiting   queued, its receiver alive                                    *)
(* cancelled receiver dropped while queued: the sender is closed           *)
(* granted   the permit lies in the channel, not yet received              *)
(* running   the caller holds the permit                                   *)
(* releasing the permit is being dropped and waits for the mutex           *)
Status == {"idle", "waiting", "cancelled", "granted", "running", "releasing"}

HoldsSlot == {"granted", "running", "releasing"}
Holders == {r \in Request : st[r] \in HoldsSlot}
Waiting == {r \in Request : st[r] = "waiting"}
Queued == UNION {waiters[p] : p \in Priority}

\* MUTANT: one slot too many.
CanAdmitOneMore == inflight <= maxInflight

CanAdmit == inflight < maxInflight

\* MUTANT: the closed senders are kept and the live ones dropped.
LiveInverted(S) == {r \in S : st[r] = "cancelled"}

\* What retain(|tx| !tx.is_closed()) leaves of a queue.
Live(S) == {r \in S : st[r] = "waiting"}
-----------------------------------------------------------------------------
Init == /\ maxInflight \in 1..MaxCeiling
        /\ inflight = 0
        /\ waiters = [p \in Priority |-> {}]
        /\ ahead = {}
        /\ st = [r \in Request |-> "idle"]
        /\ pumping = FALSE
        /\ chosen = None

\* acquire: a free slot is taken on the spot, otherwise the caller joins the
\* back of its class's queue.
Acquire(r) ==
    /\ ~pumping
    /\ st[r] = "idle"
    /\ \/ /\ CanAdmit
          /\ inflight' = inflight + 1
          /\ st' = [st EXCEPT ![r] = "running"]
          /\ UNCHANGED <<waiters, ahead>>
       \/ /\ ~CanAdmit
          /\ waiters' = [waiters EXCEPT ![Class(r)] = @ \cup {r}]
          /\ ahead' = ahead \cup (waiters[Class(r)] \X {r})
          /\ st' = [st EXCEPT ![r] = "waiting"]
          /\ UNCHANGED inflight
    /\ UNCHANGED <<maxInflight, pumping, chosen>>

\* rx.await returns the permit the pump sent.
Receive(r) ==
    /\ st[r] = "granted"
    /\ st' = [st EXCEPT ![r] = "running"]
    /\ UNCHANGED <<maxInflight, inflight, waiters, ahead, pumping, chosen>>

\* The future is dropped while it waits.  No lock is taken: the sender stays
\* in the queue, closed, until a pump scans past it.
CancelWaiting(r) ==
    /\ st[r] = "waiting"
    /\ st' = [st EXCEPT ![r] = "cancelled"]
    /\ UNCHANGED <<maxInflight, inflight, waiters, ahead, pumping, chosen>>

\* The future is dropped while the permit is in its channel: dropping the
\* receiver drops the permit, whose Drop goes for the mutex.
CancelGranted(r) ==
    /\ st[r] = "granted"
    /\ st' = [st EXCEPT ![r] = "releasing"]
    /\ UNCHANGED <<maxInflight, inflight, waiters, ahead, pumping, chosen>>

\* The operation ends, or its future is dropped: execute drops the permit.
Finish(r) ==
    /\ st[r] = "running"
    /\ st' = [st EXCEPT ![r] = "releasing"]
    /\ UNCHANGED <<maxInflight, inflight, waiters, ahead, pumping, chosen>>

\* MUTANT: release gives the slot back but does not pump.
ReleaseNoPump(r) ==
    /\ ~pumping
    /\ st[r] = "releasing"
    /\ inflight' = inflight - 1
    /\ st' = [st EXCEPT ![r] = "idle"]
    /\ UNCHANGED <<maxInflight, waiters, ahead, chosen, pumping>>

\* Permit::drop: release takes the mutex, gives the slot back and pumps.
Release(r) ==
    /\ ~pumping
    /\ st[r] = "releasing"
    /\ inflight' = inflight - 1
    /\ st' = [st EXCEPT ![r] = "idle"]
    /\ pumping' = TRUE
    /\ UNCHANGED <<maxInflight, waiters, ahead, chosen>>

SetMaxInflight(n) ==
    /\ ~pumping
    /\ maxInflight' = n
    /\ pumping' = TRUE
    /\ UNCHANGED <<inflight, waiters, ahead, st, chosen>>
-----------------------------------------------------------------------------
(* pump, with the mutex held: scan and pop, then send, until it stops.     *)

\* The queues the search for r's class has retained from: user chat always,
\* background only when no user-chat entry was left.
ScannedFor(p) == IF p = "UserChat" THEN {"UserChat"} ELSE Priority

\* The statuses once the closed senders of the queues in P are thrown away.
Forgotten(P) ==
    [q \in Request |-> IF st[q] = "cancelled" /\ \E p \in P : q \in waiters[p]
                         THEN "idle" ELSE st[q]]

\* MUTANT: the newest entry is popped (pop_back).
AtFrontNewest(r) == \A q \in Live(waiters[Class(r)]) : <<r, q>> \notin ahead

\* r stands at the front of its queue after retain.
AtFront(r) == \A q \in Live(waiters[Class(r)]) : <<q, r>> \notin ahead

PumpPop(r) ==
    /\ pumping /\ chosen = None
    /\ CanAdmit
    /\ r \in Live(waiters[Class(r)])
    /\ AtFront(r)
    /\ r \in BackgroundCalls => Live(waiters["UserChat"]) = {}
    /\ waiters' = [p \in Priority |->
                     IF p \in ScannedFor(Class(r))
                       THEN Live(waiters[p]) \ {r} ELSE waiters[p]]
    /\ ahead' = {pair \in ahead :
                   /\ pair[1] \in UNION {waiters'[p] : p \in Priority}
                   /\ pair[2] \in UNION {waiters'[p] : p \in Priority}}
    /\ st' = Forgotten(ScannedFor(Class(r)))
    /\ inflight' = inflight + 1
    /\ chosen' = r
    /\ UNCHANGED <<maxInflight, pumping>>

\* MUTANT: the permit that comes back is forgotten, its slot is not reclaimed.
PumpSendLeaks ==
    /\ chosen # None
    /\ st' = [st EXCEPT ![chosen] = IF @ = "waiting" THEN "granted" ELSE "idle"]
    /\ chosen' = None
    /\ UNCHANGED <<maxInflight, inflight, waiters, ahead, pumping>>

\* tx.send succeeds while the receiver lives; otherwise the permit comes
\* back, is forgotten (no Drop under the lock) and the slot is reclaimed.
PumpSend ==
    /\ chosen # None
    /\ \/ /\ st[chosen] = "waiting"
          /\ st' = [st EXCEPT ![chosen] = "granted"]
          /\ UNCHANGED inflight
       \/ /\ st[chosen] = "cancelled"
          /\ st' = [st EXCEPT ![chosen] = "idle"]
          /\ inflight' = inflight - 1
    /\ chosen' = None
    /\ UNCHANGED <<maxInflight, waiters, ahead, pumping>>

\* The loop ends at the ceiling ...
PumpFull ==
    /\ pumping /\ chosen = None
    /\ ~CanAdmit
    /\ pumping' = FALSE
    /\ UNCHANGED <<maxInflight, inflight, waiters, ahead, st, chosen>>

\* ... or when both queues are empty after retain.
PumpDrained ==
    /\ pumping /\ chosen = None
    /\ CanAdmit
    /\ \A p \in Priority : Live(waiters[p]) = {}
    /\ waiters' = [p \in Priority |-> {}]
    /\ ahead' = {}
    /\ st' = Forgotten(Priority)
    /\ pumping' = FALSE
    /\ UNCHANGED <<maxInflight, inflight, chosen>>

Pump == PumpSend \/ PumpFull \/ PumpDrained \/ \E r \in Request : PumpPop(r)
-----------------------------------------------------------------------------
Next == \/ \E r \in Request :
             \/ Acquire(r)
             \/ Receive(r)
             \/ CancelWaiting(r)
             \/ CancelGranted(r)
             \/ Finish(r)
             \/ Release(r)
        \/ \E n \in 1..MaxCeiling : SetMaxInflight(n)
        \/ Pump

Spec == Init /\ [][Next]_vars

(* A thread inside pump runs on; a task that was sent a permit is polled; a*)
(* dropped permit gets the mutex in the end (the mutex may be taken by     *)
(* others in between, hence strong fairness).  Nothing is assumed of       *)
(* Acquire, of cancellation, of SetMaxInflight, nor of Finish.             *)
Fairness == /\ WF_vars(Pump)
            /\ \A r \in Request : WF_vars(Receive(r)) /\ SF_vars(Release(r))

FairSpec == Spec /\ Fairness
-----------------------------------------------------------------------------
TypeOK == /\ maxInflight \in 1..MaxCeiling
          /\ inflight \in Nat
          /\ waiters \in [Priority -> SUBSET Request]
          /\ ahead \in SUBSET (Request \X Request)
          /\ st \in [Request -> Status]
          /\ pumping \in BOOLEAN
          /\ chosen \in Request \cup {None}

\* The counter is exactly the permits that exist: one per holder and one in
\* the pump's hands.  A lost or doubled release would skew it for ever, and
\* the usize would underflow at lib.rs:162.
SlotAccounting ==
    inflight = Cardinality(Holders) + (IF chosen = None THEN 0 ELSE 1)

\* Whenever the mutex is free, a free slot means nobody is queued: no
\* release, cancellation or change of ceiling leaves a waiter behind.
WorkConserving == ~pumping /\ CanAdmit => Queued = {}

\* The expect of lib.rs:114, "scheduler never drops a queued waiter": a live
\* receiver always has its sender in its class's queue or in the pump's hands.
NeverDropsQueuedWaiter ==
    \A r \in Waiting : r \in waiters[Class(r)] \/ r = chosen

\* r is to be served before s, both of one class.
Before(r, s) == \/ <<r, s>> \in ahead
                \/ r = chosen /\ s \in waiters[Class(r)]

\* Within a class the order of arrival is the order of service: as long as
\* two calls both wait their order stays, and a newcomer is before nobody.
ArrivalOrderKept ==
    [][\A r, s \in Request :
         /\ st[r] = "waiting" /\ st'[r] = "waiting" /\ st[s] = "waiting"
            /\ Before(r, s)
            => st'[s] \notin HoldsSlot /\ (st'[s] = "waiting" => Before(r, s)')
         /\ st[r] # "waiting" /\ st'[r] = "waiting" /\ st'[s] = "waiting"
            => ~Before(r, s)']_vars

\* The scheduler implements the pool of slots its callers rely on.
Pool == INSTANCE SlotPool WITH ceiling <- maxInflight,
                               waiting <- Waiting,
                               holding <- Holders
ImplementsSlotPool == Pool!Spec
-----------------------------------------------------------------------------
\* The backend ends every request it was given, or its caller gives up: the
\* HTTP client sets no timeout, so the code alone does not ensure it.
BackendAnswers == \A r \in Request : [](st[r] = "running" => <>(st[r] # "running"))

\* A user-chat request that waits is granted a slot or gives up, whatever
\* the ceiling does, as long as running requests end.
UserChatServed ==
    BackendAnswers =>
      \A r \in Request :
        (st[r] = "waiting" /\ r \in ChatCalls) ~> (st[r] # "waiting")

\* Background work may starve only under user chat: a waiting background
\* request is served, gives up, or sees a user-chat request wait.
BackgroundServedWhenQuiet ==
    BackendAnswers =>
      \A r \in Request :
        (st[r] = "waiting" /\ r \in BackgroundCalls)
          ~> (st[r] # "waiting" \/ Waiting \cap ChatCalls # {})

\* The mutex is always given back: no permit is dropped inside pump, where
\* its Drop would wait for the mutex the thread itself holds.
PumpTerminates == pumping ~> ~pumping

\* The liveness of the scheduler (execute, acquire, pump): waiters are served and
\* pump gives the mutex back.
Progress == UserChatServed /\ BackgroundServedWhenQuiet /\ PumpTerminates
=============================================================================
