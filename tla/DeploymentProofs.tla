-------------------------- MODULE DeploymentProofs --------------------------
(***************************************************************************)
(* What a deployment promises holds for any number of requests, commits,   *)
(* failures and restarts, from DeploymentAssumption alone: the one request *)
(* with the lock is as far as its plan says, and so are the containers.    *)
(***************************************************************************)
EXTENDS Deployment, Integers, FiniteSetTheorems, SequenceTheorems, WellFoundedInduction, TLAPS

\* Where a request is that has the lock; and that its plan has come to command n.
Locked == {"duplicate", "read", "choose", "compare", "checkpoint", "previous", "plan", "cleanup"}
Past(q, n) == req[q].pc = "cleanup" \/ (req[q].pc = "plan" /\ req[q].stage >= n)

\* Where a request can be with the lock, by what it is for.
FromItsKind(r) == /\ r.pc = "duplicate" => r.kind = "webhook"
                  /\ r.pc \in {"read", "choose", "compare"} => r.kind \in {"update", "startup"}
                  /\ r.pc = "previous" => r.kind = "rollback"
                  /\ r.pc = "compare" => r.commit \in Commit

\* What a request is for says where it can be, and what it names.
KindsKnown ==
    \A q \in Request : /\ req[q].kind = "none" => req[q].pc = "idle"
                       /\ req[q].kind = "over" => req[q].pc = "done"
                       /\ req[q].kind = "confirm" => req[q].commit \in Commit
                       /\ FromItsKind(req[q])

\* The lock is with the one request that looks at the containers or changes them.
LockHeld ==
    /\ \A q \in Request : req[q].pc \in Locked <=> lock = q
    /\ \A q \in Request : req[q].pc = "plan" => req[q].stage \in 1..Len(Plan)
    /\ \A q \in Request : req[q].pc \in {"checkpoint", "plan", "cleanup"} => req[q].commit \in Commit
    /\ KindsKnown
    /\ phase = "down" => \A q \in Request : req[q] = Idle

\* What the commands of a plan have done so far is still so.
ImagesPulled ==
    \A q \in Request : /\ Past(q, 2) => <<"housebot", req[q].commit>> \in images
                       /\ Past(q, 3) => <<"sandboxd", req[q].commit>> \in images
                       /\ Past(q, 4) => <<"sandbox", req[q].commit>> \in images
ChatbotReplaced ==
    \A q \in Request : /\ Past(q, 6) /\ ~Past(q, 11) => chatbot = None
                       /\ Past(q, 11) /\ chatbot # None => chatbot.commit = req[q].commit
DaemonReplaced == ~torn /\ phase = "up" => \A q \in Request : Past(q, 9) => daemon = req[q].commit

\* The release in service is whole on the host.
ServiceWhole == chatbot # None => Release(chatbot.commit) \subseteq images

\* A stop that met no request leaves no chatbot, and nobody to start one.
StoppedClean ==
    ~torn /\ phase \in {"stopping", "stopped"} => chatbot = None /\ \A q \in Request : ~Active(q)

\* The last build deployed is the last event; who holds the lock past the check
\* is to deploy another one.
LastIsBuilt ==
    /\ lastEvent = IF built = <<>> THEN None ELSE built[Len(built)]
    /\ \A q \in Request : req[q].kind = "webhook" =>
          /\ req[q].commit \in Commit
          /\ req[q].pc \in {"checkpoint", "plan", "cleanup"} => req[q].commit # lastEvent

IInv == /\ TypeOK
        /\ LockHeld /\ ImagesPulled /\ ChatbotReplaced /\ DaemonReplaced /\ ServiceWhole
        /\ StoppedClean /\ LastIsBuilt /\ PreviousStaysWhole /\ PairMatches /\ BuildDeployedOnce
-----------------------------------------------------------------------------
\* The eleven commands, and where the plan ends.
LEMMA PlanStages ==
    /\ Len(Plan) = 11
    /\ Plan[1] = "pull_housebot_image" /\ Plan[2] = "pull_sandbox_daemon_image"
    /\ Plan[3] = "pull_sandbox_image" /\ Plan[4] = "run_database_migrations"
    /\ Plan[5] = "remove_previous_container" /\ Plan[6] = "remove_previous_sandbox_daemon"
    /\ Plan[7] = "create_sandbox_socket_volume" /\ Plan[8] = "start_sandbox_daemon"
    /\ Plan[9] = "check_sandbox_daemon" /\ Plan[10] = "start_requested_image"
    /\ Plan[11] = "check_container_state"
  BY DEF Plan

\* A request that does not exist yet, and one that is over, are records of the type.
LEMMA IdleType == Idle \in RequestRecord /\ Over \in RequestRecord
<1>1. 0 \in 0..(Len(Plan) + 1) /\ 0 \in 0..MaxAttempts
  BY PlanStages, DeploymentAssumption
<1> QED
  BY <1>1 DEF Idle, Over, RequestRecord

\* The order of the naturals as a relation, to which WFMin applies.
Before == {p \in Nat \X Nat : p[1] < p[2]}

\* Every set of naturals that is not empty has a least element.
LEMMA LeastNatural ==
    ASSUME NEW T \in SUBSET Nat, T # {}
    PROVE  \E m \in T : \A y \in T : m <= y
<1>1. OpToRel(<, Nat) = Before
  BY Zenon DEF OpToRel, Before
<1>2. IsWellFoundedOn(Before, Nat)
  BY <1>1, NatLessThanWellFounded, Zenon
<1>3. PICK m \in T : \A y \in T : <<y, m>> \notin Before
  BY <1>2, WFMin, Zenon
<1>4. \A y \in T : ~(y < m)
  <2> SUFFICES ASSUME NEW y \in T, y < m PROVE <<y, m>> \in Before
    BY <1>3
  <2>1. <<y, m>> \in Nat \X Nat /\ <<y, m>>[1] < <<y, m>>[2]
    OBVIOUS
  <2> QED
    BY <2>1, Zenon DEF Before
<1> QED
  BY <1>4

\* Among the recent commits there is a newest.
LEMMA NewestIsCommit == TypeOK => NewestPublished \subseteq Commit
<1> SUFFICES ASSUME TypeOK, Recent \cap published # {} PROVE Max(Recent \cap published) \in Commit
  BY DEF NewestPublished
<1> DEFINE S == Recent \cap published
           gaps == {tip - c : c \in S}
<1>1. tip \in Nat /\ \A c \in S : c \in Nat /\ c <= tip
  BY DeploymentAssumption DEF TypeOK, Recent, Commit
<1>2. gaps \in SUBSET Nat /\ gaps # {}
  BY <1>1
<1>3. PICK g \in gaps : \A h \in gaps : g <= h
  BY <1>2, LeastNatural
<1>4. PICK c \in S : g = tip - c
  BY <1>3
<1>5. \A d \in S : tip - c <= tip - d
  BY <1>3, <1>4
<1>6. \A d \in S : c >= d
  BY <1>1, <1>5
<1>7. Max(S) \in S
  BY <1>4, <1>6 DEF Max
<1> QED
  BY <1>7 DEF Recent

\* The initial state.
LEMMA InitInv == Init => IInv
<1> SUFFICES ASSUME Init PROVE IInv
  OBVIOUS
<1> USE DeploymentAssumption DEF Init
<1>1. \A q \in Request : req[q] = Idle /\ req[q].pc = "idle" /\ req[q].kind = "none"
  BY DEF Idle
<1>2. TypeOK
  <2>1. 1 \in Commit /\ tip \in Commit
    BY DEF Commit
  <2>2. chatbot \in {None} \cup [commit : Commit, running : BOOLEAN] /\ daemon \in {None} \cup Commit
    <3>1. [commit |-> 1, running |-> TRUE] \in [commit : Commit, running : BOOLEAN]
      BY <2>1
    <3> QED
      BY <2>1, <3>1
  <2>3. images \subseteq {"housebot", "sandboxd", "sandbox"} \X Commit /\ published \subseteq 1..tip
    BY <2>1 DEF Release
  <2>4. req \in [Request -> RequestRecord]
    BY IdleType
  <2>5. starts \in 0..MaxStarts /\ faults \in 0..MaxFaults /\ built \in Seq(Commit)
    OBVIOUS
  <2> QED
    BY <2>1, <2>2, <2>3, <2>4, <2>5, Zenon DEF TypeOK
<1>3. LockHeld /\ ImagesPulled /\ ChatbotReplaced /\ DaemonReplaced
  BY <1>1 DEF LockHeld, KindsKnown, FromItsKind, Locked, ImagesPulled, ChatbotReplaced, DaemonReplaced, Past
<1>4. ServiceWhole /\ StoppedClean /\ PreviousStaysWhole /\ PairMatches
  BY DEF ServiceWhole, StoppedClean, PreviousStaysWhole, PairMatches
<1>5. LastIsBuilt /\ BuildDeployedOnce
  BY <1>1 DEF LastIsBuilt, BuildDeployedOnce
<1> QED
  BY <1>2, <1>3, <1>4, <1>5 DEF IInv
-----------------------------------------------------------------------------
\* A request of the state before a step, and who else is near the containers.
LEMMA Prior ==
    ASSUME IInv, NEW q \in Request
    PROVE  /\ req[q] \in RequestRecord
           /\ req[q].pc \in Locked => lock = q /\ \A e \in Request : e # q => req[e].pc \notin Locked
           /\ (req[q].pc \in Locked <=> lock = q)
           /\ req[q].kind = "none" => req[q].pc = "idle"
           /\ req[q].kind = "over" => req[q].pc = "done"
           /\ req[q].kind \in {"webhook", "confirm"} => req[q].commit \in Commit
           /\ req[q].pc \in {"checkpoint", "plan", "cleanup"} => req[q].commit \in Commit
           /\ phase = "down" => req[q] = Idle
           /\ FromItsKind(req[q])
           /\ \A n : Past(q, n) => req[q].pc \in Locked
<1>1. /\ req[q] \in RequestRecord /\ (req[q].pc \in Locked <=> lock = q)
      /\ req[q].pc \in Locked => lock = q /\ \A e \in Request : e # q => req[e].pc \notin Locked
  BY DEF IInv, TypeOK, LockHeld
<1>2. /\ req[q].kind = "none" => req[q].pc = "idle"
      /\ req[q].kind = "over" => req[q].pc = "done"
      /\ req[q].kind \in {"webhook", "confirm"} => req[q].commit \in Commit
      /\ req[q].pc \in {"checkpoint", "plan", "cleanup"} => req[q].commit \in Commit
  <2>1. req[q].kind = "webhook" => req[q].commit \in Commit
    BY DEF IInv, LastIsBuilt
  <2>2. LockHeld
    BY DEF IInv
  <2>3. /\ req[q].kind = "none" => req[q].pc = "idle"
        /\ req[q].kind = "over" => req[q].pc = "done"
        /\ req[q].kind = "confirm" => req[q].commit \in Commit
    <3>1. KindsKnown
      BY <2>2 DEF LockHeld
    <3> QED
      BY <3>1 DEF KindsKnown
  <2>4. req[q].pc \in {"checkpoint", "plan", "cleanup"} => req[q].commit \in Commit
    BY <2>2 DEF LockHeld
  <2> QED
    BY <2>1, <2>3, <2>4
<1>3. (phase = "down" => req[q] = Idle) /\ FromItsKind(req[q])
  BY DEF IInv, LockHeld, KindsKnown
<1> QED
  BY <1>1, <1>2, <1>3 DEF Past, Locked

\* One request changes to r, which has the lock or gives it up, and is not
\* further than the first command of a plan.
Fits(q, r) ==
    /\ r \in RequestRecord /\ r.kind # "none" /\ req' = [req EXCEPT ![q] = r]
    /\ r.kind = "over" => r.pc = "done"
    /\ r.kind = "confirm" => r.commit \in Commit
    /\ FromItsKind(r)
    /\ \/ lock' = lock /\ (r.pc \in Locked <=> lock = q)
       \/ lock = None /\ lock' = q /\ r.pc \in Locked
       \/ lock = q /\ lock' = None /\ r.pc \notin Locked
    /\ r.pc = "plan" => r.stage = 1
    /\ r.pc # "cleanup"
    /\ r.pc \in {"checkpoint", "plan"} => r.commit \in Commit
    /\ r.kind = "webhook" => /\ r.commit \in Commit
                             /\ r.pc \in {"checkpoint", "plan"} => r.commit # lastEvent
    /\ r.pc \notin {"idle", "card", "done"} => Active(q) \/ phase = "up"

\* Such a step keeps the invariant if it leaves the containers alone and takes
\* for a checkpoint at most the release in service.
LEMMA QuietStep ==
    ASSUME DeploymentAssumption, IInv, NEW q \in Request, NEW r, Fits(q, r), phase # "down",
           UNCHANGED <<world, docker, phase, starts, lastEvent, torn, built>>,
           twin' \in BOOLEAN, faults' \in 0..MaxFaults,
           previous' = previous \/ (chatbot # None /\ previous' = chatbot.commit)
    PROVE  IInv'
<1> USE DEF world, docker
<1>1. req'[q] = r /\ \A e \in Request : e # q => req'[e] = req[e]
  BY DEF IInv, TypeOK, Fits
<1>2. lock' \in {None} \cup Request /\ req' \in [Request -> RequestRecord]
  BY DEF IInv, TypeOK, Fits
<1>3. previous' \in {None} \cup Commit
  BY DEF IInv, TypeOK
<1>4. TypeOK'
  BY <1>2, <1>3 DEF IInv, TypeOK
<1>5. LockHeld'
  <2>1. \A e \in Request : req'[e].pc \in Locked <=> lock' = e
    BY <1>1, DeploymentAssumption DEF IInv, LockHeld, Fits
  <2>2. r.pc = "plan" => r.stage \in 1..Len(Plan)
    BY PlanStages DEF Fits
  <2>3. KindsKnown'
    BY <1>1 DEF IInv, LockHeld, KindsKnown, Fits
  <2> QED
    BY <1>1, <2>1, <2>2, <2>3 DEF IInv, LockHeld, Fits
<1>6. \A e \in Request, n \in 2..12 : Past(e, n)' => Past(e, n) /\ e # q
  BY <1>1 DEF Past, Fits
<1>7. \A e \in Request, n \in 2..12 : e # q => (Past(e, n)' <=> Past(e, n))
  BY <1>1 DEF Past
<1>8. ImagesPulled' /\ ChatbotReplaced' /\ DaemonReplaced'
  BY <1>1, <1>6, <1>7 DEF IInv, ImagesPulled, ChatbotReplaced, DaemonReplaced
<1>9. ServiceWhole' /\ PairMatches' /\ PreviousStaysWhole' /\ BuildDeployedOnce'
  BY DEF IInv, ServiceWhole, PairMatches, PreviousStaysWhole, BuildDeployedOnce, Release
<1>10. StoppedClean'
  BY <1>1 DEF IInv, StoppedClean, Fits, Active
<1>11. LastIsBuilt'
  BY <1>1 DEF IInv, LastIsBuilt, Fits
<1> QED
  BY <1>4, <1>5, <1>8, <1>9, <1>10, <1>11 DEF IInv

\* The end of a request with the lock.
LEMMA SucceedFits ==
    ASSUME DeploymentAssumption, IInv, NEW q \in Request, Succeed(q)
    PROVE  Fits(q, Over)
  BY IdleType, Prior DEF Succeed, Fits, Over, Idle, Locked, IInv, LockHeld, FromItsKind

\* A request that fails gets a record that fits, over or to be tried again.
LEMMA FailFits ==
    ASSUME DeploymentAssumption, IInv, NEW q \in Request, req[q].pc \in Locked, Fail(q)
    PROVE  \E r : Fits(q, r)
<1> DEFINE again == [Idle EXCEPT !.kind = "startup", !.pc = "wait", !.attempt = req[q].attempt + 1]
<1>1. lock = q /\ lock' = None /\ Active(q)
  BY Prior DEF Fail, Active, Locked
<1>2. CASE req' = [req EXCEPT ![q] = Over]
  <2>1. Over.pc = "done" /\ Over.kind = "over" /\ Over \in RequestRecord
    BY IdleType DEF Over, Idle
  <2>2. Fits(q, Over)
    BY <1>1, <1>2, <2>1 DEF Fits, Locked, FromItsKind
  <2> QED
    BY <2>2
<1>3. CASE req' = [req EXCEPT ![q] = again] /\ req[q].attempt < MaxAttempts
  <2>1. req[q].attempt + 1 \in 0..MaxAttempts
    BY <1>3, Prior, DeploymentAssumption DEF RequestRecord
  <2>2. again \in RequestRecord /\ again.pc = "wait" /\ again.kind = "startup"
    BY <2>1, IdleType DEF RequestRecord, Idle
  <2> HIDE DEF again
  <2>3. Fits(q, again)
    BY <1>1, <1>3, <2>2 DEF Fits, Locked, FromItsKind
  <2> QED
    BY <2>3
<1> QED
  BY <1>2, <1>3 DEF Fail, IInv, TypeOK
-----------------------------------------------------------------------------
\* A step of one request that touches no container.
Quiet == UNCHANGED <<world, docker, phase, starts, lastEvent, torn, built>>

\* A failure is counted once, and only while one is left to count.
LEMMA FaultCounts ==
    ASSUME IInv, DeploymentAssumption, Fault \/ NoFault
    PROVE  faults' \in 0..MaxFaults
  BY DEF IInv, TypeOK, Fault, NoFault, DeploymentAssumption

\* A failing step that changes nothing else keeps the invariant.
LEMMA FailKeeps ==
    ASSUME DeploymentAssumption, IInv, NEW q \in Request, phase # "down",
           req[q].pc \in Locked, Fail(q), Quiet, Fault \/ NoFault, UNCHANGED <<twin, previous>>
    PROVE  IInv'
<1>1. PICK r : Fits(q, r)
  BY FailFits
<1>2. twin' \in BOOLEAN /\ faults' \in 0..MaxFaults
  BY FaultCounts DEF IInv, TypeOK
<1> QED
  BY <1>1, <1>2, QuietStep DEF Quiet

\* So does a step that succeeds.
LEMMA SucceedKeeps ==
    ASSUME DeploymentAssumption, IInv, NEW q \in Request, phase # "down", Succeed(q), Quiet,
           Fault \/ NoFault, UNCHANGED <<twin, previous>>
    PROVE  IInv'
<1>1. twin' \in BOOLEAN /\ faults' \in 0..MaxFaults
  BY FaultCounts DEF IInv, TypeOK
<1> QED
  BY <1>1, SucceedFits, QuietStep DEF Quiet

\* A request is asked for, confirmed or denied.
LEMMA AskKeeps ==
    ASSUME DeploymentAssumption, IInv, NEW q \in Request,
           NEW kind \in {"webhook", "update", "rollback", "startup", "confirm"},
           NEW c \in Commit \cup {None}, NEW pc \in {"wait", "card", "duplicates"},
           phase = "up", req[q].kind = "none", Quiet,
           req' = [req EXCEPT ![q] = [Idle EXCEPT !.kind = kind, !.commit = c, !.pc = pc]],
           kind \in {"webhook", "confirm"} => c \in Commit,
           Fault \/ NoFault, UNCHANGED <<twin, previous, lock>>
    PROVE  IInv'
<1> DEFINE r == [Idle EXCEPT !.kind = kind, !.commit = c, !.pc = pc]
<1>1. r \in RequestRecord /\ r.kind = kind /\ r.commit = c /\ r.pc = pc
  BY IdleType DEF RequestRecord, Idle
<1>2. lock # q
  BY Prior DEF Locked
<1> HIDE DEF r
<1>3. Fits(q, r)
  BY <1>1, <1>2 DEF Fits, Locked, FromItsKind, r
<1> QED
  BY <1>3, FaultCounts, QuietStep DEF Quiet, IInv, TypeOK

\* A request goes on to another point before its plan.
LEMMA GoOn ==
    ASSUME DeploymentAssumption, IInv, NEW q \in Request, phase # "down",
           req[q].pc \notin {"idle", "done"}, Active(q) \/ phase = "up",
           NEW r \in RequestRecord, req' = [req EXCEPT ![q] = r], r.kind = req[q].kind,
           Quiet, Fault \/ NoFault, twin' \in BOOLEAN,
           previous' = previous \/ (chatbot # None /\ previous' = chatbot.commit),
           \/ lock' = lock /\ (r.pc \in Locked <=> req[q].pc \in Locked)
           \/ lock = None /\ lock' = q /\ r.pc \in Locked,
           r.pc = "plan" => r.stage = 1, r.pc # "cleanup",
           r.pc \in {"checkpoint", "plan"} => r.commit \in Commit, FromItsKind(r),
           r.kind \in {"webhook", "confirm"} => r.commit = req[q].commit,
           r.kind = "webhook" /\ r.pc \in {"checkpoint", "plan"} => r.commit # lastEvent
    PROVE  IInv'
<1>1. r.kind \notin {"none", "over"}
  BY Prior
<1>2. r.kind \in {"webhook", "confirm"} => r.commit \in Commit
  BY Prior
<1>3. req[q].pc \in Locked <=> lock = q
  BY Prior
<1>4. Fits(q, r)
  BY <1>1, <1>2, <1>3 DEF Fits
<1> QED
  BY <1>4, FaultCounts, QuietStep DEF Quiet

\* A new request brings nothing but its own record.
LEMMA AskersKeep ==
    ASSUME DeploymentAssumption, IInv, NEW q \in Request,
           Webhook(q) \/ Update(q) \/ Rollback(q) \/ BotReady(q) \/ Deploy(q)
    PROVE  IInv'
<1> USE DEF Ask, Quiet
<1>1. CASE Webhook(q)
  <2>1. published \subseteq Commit
    BY DeploymentAssumption DEF IInv, TypeOK, Commit
  <2> QED
    BY <1>1, <2>1, AskKeeps DEF Webhook, NoFault
<1>2. CASE Update(q) \/ Rollback(q) \/ BotReady(q)
  BY <1>2, AskKeeps DEF Update, Rollback, BotReady, NoFault
<1>3. CASE Deploy(q)
  <2>1. CardFor \subseteq Commit
    BY NewestIsCommit, DeploymentAssumption DEF CardFor, IInv, TypeOK, Commit
  <2>2. PICK c \in CardFor :
          /\ req' = [req EXCEPT ![q] = [Idle EXCEPT !.kind = "confirm", !.commit = c, !.pc = "card"]]
          /\ Fault \/ NoFault
    BY <1>3 DEF Deploy, SeemsPublished
  <2> QED
    BY <1>3, <2>1, <2>2, AskKeeps DEF Deploy
<1> QED
  BY <1>1, <1>2, <1>3

\* An answered card starts its own request or ends it.
LEMMA CardKeeps ==
    ASSUME DeploymentAssumption, IInv, NEW q \in Request, Confirm(q) \/ Deny(q)
    PROVE  IInv'
<1> USE DEF Quiet, NoFault
<1>1. phase = "up" /\ req[q].pc = "card" /\ req[q] \in RequestRecord /\ twin \in BOOLEAN
  BY Prior DEF Confirm, Deny, IInv, TypeOK
<1>2. CASE Confirm(q)
  <2> DEFINE r == [req[q] EXCEPT !.pc = "wait"]
  <2>1. r \in RequestRecord /\ r.pc = "wait" /\ r.kind = req[q].kind /\ r.commit = req[q].commit
    BY <1>1 DEF RequestRecord
  <2>2. req' = [req EXCEPT ![q] = r]
    BY <1>2 DEF Confirm, Goto
  <2> HIDE DEF r
  <2> QED
    BY <1>1, <1>2, <2>1, <2>2, GoOn DEF Confirm, Locked, FromItsKind
<1>3. CASE Deny(q)
  <2>1. lock # q
    BY <1>1 DEF IInv, LockHeld, Locked
  <2>2. Over.pc = "done" /\ Over.kind = "over" /\ Over \in RequestRecord
    BY IdleType DEF Over, Idle
  <2>3. Fits(q, Over)
    BY <1>3, <2>1, <2>2 DEF Fits, Deny, Locked, FromItsKind
  <2> QED
    BY <1>1, <1>3, <2>3, FaultCounts, QuietStep DEF Deny
<1> QED
  BY <1>2, <1>3

\* The start of the bot finds a chatbot, or deploys one.
LEMMA ReadyKeeps ==
    ASSUME DeploymentAssumption, IInv, NEW q \in Request, RemoveDuplicates(q) \/ Ensure(q)
    PROVE  IInv'
<1> USE DEF Quiet
<1>1. /\ phase # "down" /\ req[q].pc \in {"duplicates", "ensure"} /\ Active(q)
      /\ req[q] \in RequestRecord /\ (Fault \/ NoFault) /\ twin \in BOOLEAN /\ lock # q
      /\ twin' \in BOOLEAN
  BY Prior DEF RemoveDuplicates, Ensure, at, Alive, Active, IInv, TypeOK, LockHeld, Locked
<1>2. CASE RemoveDuplicates(q)
  <2> DEFINE r == [req[q] EXCEPT !.pc = "ensure"]
  <2>1. r \in RequestRecord /\ r.pc = "ensure" /\ r.kind = req[q].kind /\ r.commit = req[q].commit
    BY Prior DEF RequestRecord
  <2>2. req' = [req EXCEPT ![q] = r]
    BY <1>2 DEF RemoveDuplicates, Goto
  <2> HIDE DEF r
  <2> QED
    BY <1>1, <1>2, <2>1, <2>2, GoOn DEF RemoveDuplicates, Locked, FromItsKind
<1>3. CASE Ensure(q) /\ req' = [req EXCEPT ![q] = Over]
  <2>1. Over.pc = "done" /\ Over.kind = "over" /\ Over \in RequestRecord
    BY IdleType DEF Over, Idle
  <2>2. Fits(q, Over)
    BY <1>1, <1>3, <2>1 DEF Fits, Ensure, Locked, FromItsKind
  <2> QED
    BY <1>1, <1>3, <2>2, FaultCounts, QuietStep DEF Ensure
<1>4. CASE Ensure(q) /\ req' = [req EXCEPT ![q].pc = "wait", ![q].attempt = 1]
  <2> DEFINE r == [req[q] EXCEPT !.pc = "wait", !.attempt = 1]
  <2>1. r \in RequestRecord /\ r.pc = "wait" /\ r.kind = req[q].kind /\ r.commit = req[q].commit
    <3>1. 1 \in 0..MaxAttempts
      BY DEF DeploymentAssumption
    <3>2. req[q] \in RequestRecord
      BY <1>1
    <3> QED
      BY <3>1, <3>2 DEF RequestRecord
  <2>2. req' = [req EXCEPT ![q] = r]
    BY <1>4 DEF IInv, TypeOK
  <2> HIDE DEF r
  <2> QED
    BY <1>1, <1>4, <2>1, <2>2, GoOn DEF Ensure, Locked, FromItsKind
<1> QED
  BY <1>2, <1>3, <1>4 DEF Ensure

\* The mutex is taken by one request.
LEMMA AcquireKeeps ==
    ASSUME DeploymentAssumption, IInv, NEW q \in Request, Acquire(q)
    PROVE  IInv'
<1> DEFINE pc == CASE req[q].kind = "webhook" -> "duplicate"
                   [] req[q].kind \in {"update", "startup"} -> "read"
                   [] req[q].kind = "rollback" -> "previous"
                   [] OTHER -> "checkpoint"
           r == [req[q] EXCEPT !.pc = pc]
<1>1. /\ phase # "down" /\ req[q].pc = "wait" /\ Active(q) /\ lock = None /\ lock' = q
      /\ req[q] \in RequestRecord /\ twin' \in BOOLEAN /\ NoFault
  BY Prior DEF Acquire, at, Alive, Active, IInv, TypeOK, NoFault
<1>2. /\ pc \in {"duplicate", "read", "previous", "checkpoint"}
      /\ pc = "checkpoint" => req[q].kind \notin {"webhook", "update", "startup", "rollback"}
      /\ pc = "duplicate" => req[q].kind = "webhook"
      /\ pc = "read" => req[q].kind \in {"update", "startup"}
      /\ pc = "previous" => req[q].kind = "rollback"
  OBVIOUS
<1> HIDE DEF pc
<1>3. r \in RequestRecord /\ r.pc = pc /\ r.kind = req[q].kind /\ r.commit = req[q].commit
  BY <1>1, <1>2 DEF RequestRecord
<1>4. req' = [req EXCEPT ![q] = r]
  BY DEF Acquire, Goto, pc
<1>5. pc = "checkpoint" => req[q].commit \in Commit
  BY <1>1, <1>2, Prior DEF RequestRecord
<1>6. FromItsKind(r)
  BY <1>2, <1>3 DEF FromItsKind
<1> HIDE DEF r
<1> QED
  BY <1>1, <1>2, <1>3, <1>4, <1>5, <1>6, GoOn DEF Acquire, Locked, Quiet

\* What a request that has the lock chooses to deploy.
LEMMA ChoosersKeep ==
    ASSUME DeploymentAssumption, IInv, NEW q \in Request,
           SkipDuplicate(q) \/ ReadCurrent(q) \/ Choose(q) \/ Compare(q)
    PROVE  IInv'
<1> USE DEF Quiet
<1>1. /\ phase # "down" /\ req[q].pc \in {"duplicate", "read", "choose", "compare"} /\ Active(q)
      /\ req[q] \in RequestRecord /\ req[q].pc \in Locked /\ twin' \in BOOLEAN
      /\ req \in [Request -> RequestRecord]
  BY Prior DEF SkipDuplicate, ReadCurrent, Choose, Compare, at, Alive, Active, IInv, TypeOK, Locked
<1>2. req[q].kind \in {"webhook", "confirm"} => req[q].commit \in Commit
  BY Prior
<1>3. CASE SkipDuplicate(q) /\ lastEvent = req[q].commit
  BY <1>1, <1>3, SucceedKeeps DEF SkipDuplicate, NoFault
<1>4. CASE SkipDuplicate(q) /\ lastEvent # req[q].commit
  <2> DEFINE r == [req[q] EXCEPT !.pc = "checkpoint"]
  <2>1. r \in RequestRecord /\ r.pc = "checkpoint" /\ r.kind = req[q].kind /\ r.commit = req[q].commit
    BY <1>1 DEF RequestRecord
  <2>2. req' = [req EXCEPT ![q] = r]
    BY <1>1, <1>4 DEF SkipDuplicate, Goto
  <2>3. req[q].commit \in Commit /\ req[q].pc = "duplicate"
    BY <1>2, <1>4, Prior DEF SkipDuplicate, at, FromItsKind
  <2> HIDE DEF r
  <2> QED
    BY <1>1, <1>4, <2>1, <2>2, <2>3, GoOn DEF SkipDuplicate, Locked, NoFault, FromItsKind
<1>5. CASE ReadCurrent(q) /\ Fail(q) /\ Fault
  BY <1>1, <1>5, FailKeeps DEF ReadCurrent
<1>6. CASE ReadCurrent(q) /\ ~(Fail(q) /\ Fault)
  <2> DEFINE r == [req[q] EXCEPT !.pc = "choose", !.running = IF chatbot = None THEN None ELSE chatbot.commit]
  <2>1. r \in RequestRecord /\ r.pc = "choose" /\ r.kind = req[q].kind /\ r.commit = req[q].commit
    <3>1. chatbot # None => chatbot.commit \in Commit
      BY DEF IInv, TypeOK
    <3> QED
      BY <1>1, <3>1 DEF RequestRecord
  <2>2. req' = [req EXCEPT ![q] = r] /\ req[q].pc = "read"
    BY <1>1, <1>6 DEF ReadCurrent, at
  <2>3. req[q].kind \in {"update", "startup"}
    BY <2>2, Prior DEF FromItsKind
  <2> HIDE DEF r
  <2> QED
    BY <1>1, <1>6, <2>1, <2>2, <2>3, GoOn DEF ReadCurrent, Locked, NoFault, FromItsKind
<1>7. CASE Choose(q) /\ Fail(q) /\ (Fault \/ NoFault)
  BY <1>1, <1>7, FailKeeps DEF Choose
<1>8. CASE Choose(q) /\ ~(Fail(q) /\ (Fault \/ NoFault))
  <2>1. NewestPublished \subseteq Commit /\ tip \in Commit
    BY NewestIsCommit DEF IInv, TypeOK
  <2>2. PICK c \in Commit : req' = [req EXCEPT ![q].pc = "compare", ![q].commit = c]
    BY <1>8, <2>1 DEF Choose
  <2> DEFINE r == [req[q] EXCEPT !.pc = "compare", !.commit = c]
  <2>3. r \in RequestRecord /\ r.pc = "compare" /\ r.kind = req[q].kind /\ r.commit = c
    BY <1>1 DEF RequestRecord
  <2>4. req' = [req EXCEPT ![q] = r] /\ req[q].pc = "choose" /\ (Fault \/ NoFault) /\ lock' = lock
    BY <1>1, <1>8, <2>2 DEF Choose, at, SeemsPublished
  <2>5. req[q].kind \in {"update", "startup"}
    BY <2>4, Prior DEF FromItsKind
  <2> HIDE DEF r
  <2> QED
    BY <1>1, <1>8, <2>3, <2>4, <2>5, GoOn DEF Choose, Locked, FromItsKind
<1>9. CASE Compare(q) /\ Succeed(q) /\ NoFault
  BY <1>1, <1>9, SucceedKeeps DEF Compare
<1>10. CASE Compare(q) /\ Fail(q) /\ Fault
  BY <1>1, <1>10, FailKeeps DEF Compare
<1>11. CASE Compare(q) /\ ~(Succeed(q) /\ NoFault) /\ ~(Fail(q) /\ Fault)
  <2> DEFINE r == [req[q] EXCEPT !.pc = "checkpoint", !.running = None]
  <2>1. r \in RequestRecord /\ r.pc = "checkpoint" /\ r.kind = req[q].kind /\ r.commit = req[q].commit
    BY <1>1 DEF RequestRecord
  <2>2. req' = [req EXCEPT ![q] = r] /\ req[q].pc = "compare" /\ NoFault /\ lock' = lock
    BY <1>1, <1>11 DEF Compare, at, ChangelogFails
  <2>3. req[q].commit \in Commit /\ req[q].kind \in {"update", "startup"}
    BY <2>2, Prior DEF FromItsKind
  <2> HIDE DEF r
  <2> QED
    BY <1>1, <1>11, <2>1, <2>2, <2>3, GoOn DEF Compare, Locked, FromItsKind
<1> QED
  BY <1>3, <1>4, <1>5, <1>6, <1>7, <1>8, <1>9, <1>10, <1>11

\* The plan begins, with the release in service as the checkpoint, or the one
\* before it.
LEMMA PlanKeeps ==
    ASSUME DeploymentAssumption, IInv, NEW q \in Request, Checkpoint(q) \/ TakePrevious(q)
    PROVE  IInv'
<1> USE DEF Quiet
<1>1. /\ phase # "down" /\ req[q].pc \in {"checkpoint", "previous"} /\ Active(q)
      /\ req[q] \in RequestRecord /\ req[q].pc \in Locked /\ twin' \in BOOLEAN
      /\ req \in [Request -> RequestRecord] /\ 1 \in 0..(Len(Plan) + 1)
  <2>1. req[q].pc \in {"checkpoint", "previous"} /\ phase # "down" /\ twin' = twin
    BY DEF Checkpoint, TakePrevious, at, Alive
  <2>2. req \in [Request -> RequestRecord] /\ twin \in BOOLEAN
    BY DEF IInv, TypeOK
  <2>3. 1 \in 0..(Len(Plan) + 1)
    BY PlanStages
  <2> QED
    BY <2>1, <2>2, <2>3 DEF Active, Locked
<1>2. CASE Checkpoint(q)
  <2> DEFINE r == [req[q] EXCEPT !.pc = "plan", !.stage = 1]
  <2>1. r \in RequestRecord /\ r.pc = "plan" /\ r.stage = 1 /\ r.kind = req[q].kind /\ r.commit = req[q].commit
    BY <1>1 DEF RequestRecord
  <2>2. req' = [req EXCEPT ![q] = r] /\ req[q].pc = "checkpoint"
    BY <1>1, <1>2 DEF Checkpoint, at
  <2>3. req[q].commit \in Commit
    BY <2>2, Prior
  <2>4. req[q].kind = "webhook" => req[q].commit # lastEvent
    BY <2>2 DEF IInv, LastIsBuilt
  <2>5. previous' = previous \/ (chatbot # None /\ previous' = chatbot.commit)
    BY <1>2 DEF Checkpoint
  <2> HIDE DEF r
  <2> QED
    BY <1>1, <1>2, <2>1, <2>2, <2>3, <2>4, <2>5, GoOn DEF Checkpoint, Locked, NoFault, FromItsKind
<1>3. CASE TakePrevious(q) /\ previous = None
  BY <1>1, <1>3, FailKeeps DEF TakePrevious, NoFault
<1>4. CASE TakePrevious(q) /\ previous # None
  <2> DEFINE r == [req[q] EXCEPT !.pc = "plan", !.stage = 1, !.commit = previous]
  <2>1. previous \in Commit
    BY <1>4 DEF IInv, TypeOK
  <2>2. r \in RequestRecord /\ r.pc = "plan" /\ r.stage = 1 /\ r.kind = req[q].kind /\ r.commit = previous
    BY <1>1, <2>1 DEF RequestRecord
  <2>3. req' = [req EXCEPT ![q] = r] /\ req[q].pc = "previous"
    BY <1>1, <1>4 DEF TakePrevious, at
  <2>4. req[q].kind = "rollback"
    BY <2>3, Prior DEF FromItsKind
  <2> HIDE DEF r
  <2> QED
    BY <1>1, <1>4, <2>1, <2>2, <2>3, <2>4, GoOn DEF TakePrevious, Locked, NoFault, FromItsKind
<1> QED
  BY <1>2, <1>3, <1>4
-----------------------------------------------------------------------------
\* What each command does when it works.
PulledBy(s, c) == CASE s = 1 -> {<<"housebot", c>>} [] s = 2 -> {<<"sandboxd", c>>}
                    [] s = 3 -> {<<"sandbox", c>>} [] OTHER -> {}

\* What the command of each stage does to the images and the services.
LEMMA CommandDoes ==
    ASSUME NEW q \in Request, NEW c, req[q].stage \in 1..11, Command(q, c)
    PROVE  /\ images' = images \cup PulledBy(req[q].stage, c)
           /\ chatbot' = CASE req[q].stage = 5 -> None
                           [] req[q].stage = 10 -> [commit |-> c, running |-> TRUE] [] OTHER -> chatbot
           /\ daemon' = CASE req[q].stage = 6 -> None [] req[q].stage = 8 -> c [] OTHER -> daemon
<1> USE PlanStages DEF Command, Stage, docker, PulledBy
<1>1. DOMAIN Pulls = {Plan[1], Plan[2], Plan[3]}
  BY DEF Pulls
<1>2. Pulls[Plan[1]] = "housebot" /\ Pulls[Plan[2]] = "sandboxd" /\ Pulls[Plan[3]] = "sandbox"
  BY DEF Pulls
<1> HIDE DEF Plan, Pulls
<1>3. CASE req[q].stage \in {1, 2, 3}
  BY <1>1, <1>2, <1>3
<1>4. CASE req[q].stage \in {4, 5, 6, 7}
  BY <1>1, <1>4
<1>5. CASE req[q].stage \in {8, 9, 10, 11}
  BY <1>1, <1>5
<1> QED
  BY <1>3, <1>4, <1>5

\* Only the request with the lock is past anything; it has met no stop, unless
\* one that is marked.
LEMMA Holder ==
    ASSUME IInv, NEW q \in Request, req[q].pc \in {"plan", "cleanup"}
    PROVE  /\ lock = q /\ phase # "down" /\ Active(q)
           /\ torn \/ phase = "up"
           /\ req[q].commit \in Commit /\ req[q] \in RequestRecord /\ req \in [Request -> RequestRecord]
           /\ \A e \in Request : e # q => req[e].pc \notin Locked
           /\ req[q].pc = "plan" => req[q].stage \in 1..11
<1>1. req[q].pc \in Locked /\ req[q].pc \in {"checkpoint", "plan", "cleanup"} /\ Active(q)
  BY DEF Locked, Active
<1>2. phase # "down"
  BY <1>1, Prior DEF Idle, Locked
<1>3. phase \in {"up", "stopping", "stopped"} /\ torn \in BOOLEAN /\ req \in [Request -> RequestRecord]
  BY <1>2 DEF IInv, TypeOK
<1>4. torn \/ phase = "up"
  BY <1>1, <1>3 DEF IInv, StoppedClean
<1>5. req[q].pc = "plan" => req[q].stage \in 1..11
  BY PlanStages DEF IInv, LockHeld
<1> QED
  BY <1>1, <1>2, <1>3, <1>4, <1>5, Prior

\* What the stage after s says of s.
LEMMA NextStage ==
    ASSUME NEW s \in 1..11
    PROVE  /\ s + 1 >= 2 => s = 1 \/ s >= 2
           /\ s + 1 >= 3 => s = 2 \/ s >= 3
           /\ s + 1 >= 4 => s = 3 \/ s >= 4
           /\ s + 1 >= 6 /\ s + 1 < 11 => s = 5 \/ (s >= 6 /\ s < 11 /\ s # 5 /\ s # 10)
           /\ s + 1 >= 11 => s = 10 \/ (s >= 11 /\ s # 5 /\ s # 10)
           /\ s + 1 >= 9 => s = 8 \/ (s >= 9 /\ s # 6 /\ s # 8)
           /\ (s < 11 <=> ~(s >= 11)) /\ (s + 1 < 11 <=> ~(s + 1 >= 11))
  OBVIOUS

\* A command that works brings the request, and the containers, one step on.
LEMMA CommandKeeps ==
    ASSUME DeploymentAssumption, IInv, NEW q \in Request, req[q].pc = "plan",
           NEW c \in Commit, NEW s \in 1..11, c = req[q].commit, s = req[q].stage,
           Command(q, c), NoFault, lock' = lock,
           req' = [req EXCEPT ![q].stage = @ + 1, ![q].pc = IF Stage(q) = Plan[Len(Plan)] THEN "cleanup" ELSE @],
           UNCHANGED <<world, twin, phase, starts, previous, lastEvent, torn, built>>
    PROVE  IInv'
<1> DEFINE pc == IF s = 11 THEN "cleanup" ELSE "plan"
           r == [req[q] EXCEPT !.stage = s + 1, !.pc = pc]
<1>1. lock = q /\ phase # "down" /\ (torn \/ phase = "up") /\ Active(q)
  BY Holder
<1>2. req[q] \in RequestRecord /\ req \in [Request -> RequestRecord]
  BY Holder
<1>3. \A e \in Request : e # q => req[e].pc \notin Locked
  BY Holder
<1>4. req' = [req EXCEPT ![q] = r]
  <2>1. Plan[s] = "check_container_state" <=> s = 11
    BY PlanStages
  <2>2. Stage(q) = Plan[Len(Plan)] <=> s = 11
    BY <2>1, PlanStages DEF Stage
  <2> QED
    BY <1>2, <2>2
<1>5. r \in RequestRecord /\ r.kind = req[q].kind /\ r.commit = c /\ r.stage = s + 1 /\ r.pc = pc
  <2>1. s + 1 \in 0..(Len(Plan) + 1)
    BY PlanStages
  <2>2. pc \in {"plan", "cleanup"}
    OBVIOUS
  <2> HIDE DEF pc
  <2> QED
    BY <1>2, <2>1, <2>2 DEF RequestRecord
<1> HIDE DEF r
<1>6. req'[q] = r /\ \A e \in Request : e # q => req'[e] = req[e]
  BY <1>2, <1>4
<1>7. \A n \in 1..11 : (Past(q, n) <=> s >= n) /\ (Past(q, n)' <=> s + 1 >= n)
  <2>1. \A n \in 1..11 : Past(q, n) <=> s >= n
    BY DEF Past
  <2>2. req[q]'.stage = s + 1 /\ req[q]'.pc = pc
    BY <1>5, <1>6
  <2>3. \A n \in 1..11 : Past(q, n)' <=> s + 1 >= n
    <3>2. \A n \in 1..11 : Past(q, n)' <=> pc = "cleanup" \/ (pc = "plan" /\ s + 1 >= n)
      BY <2>2 DEF Past
    <3>3. CASE s = 11
      BY <3>2, <3>3
    <3>4. CASE s # 11
      BY <3>2, <3>4
    <3> QED
      BY <3>3, <3>4
  <2> QED
    BY <2>1, <2>3
<1>23. /\ (Past(q, 2) <=> s >= 2) /\ (Past(q, 3) <=> s >= 3) /\ (Past(q, 4) <=> s >= 4)
       /\ (Past(q, 6) <=> s >= 6) /\ (Past(q, 9) <=> s >= 9) /\ (Past(q, 11) <=> s >= 11)
  BY <1>7
<1>24. /\ (Past(q, 2)' <=> s + 1 >= 2) /\ (Past(q, 3)' <=> s + 1 >= 3) /\ (Past(q, 4)' <=> s + 1 >= 4)
       /\ (Past(q, 6)' <=> s + 1 >= 6) /\ (Past(q, 9)' <=> s + 1 >= 9) /\ (Past(q, 11)' <=> s + 1 >= 11)
  BY <1>7
<1>25. (s < 11 <=> ~(s >= 11)) /\ (s + 1 < 11 <=> ~(s + 1 >= 11))
  BY NextStage
<1>8. \A e \in Request, n \in 1..11 : e # q => ~Past(e, n) /\ ~Past(e, n)'
  BY <1>3, <1>6 DEF Past, Locked
<1>9. /\ images' = images \cup PulledBy(s, c)
      /\ chatbot' = CASE s = 5 -> None [] s = 10 -> [commit |-> c, running |-> TRUE] [] OTHER -> chatbot
      /\ daemon' = CASE s = 6 -> None [] s = 8 -> c [] OTHER -> daemon
  BY CommandDoes
<1>20. /\ s = 1 => <<"housebot", c>> \in images'
       /\ s = 2 => <<"sandboxd", c>> \in images'
       /\ s = 3 => <<"sandbox", c>> \in images'
       /\ images \subseteq images'
  BY <1>9 DEF PulledBy
<1>21. /\ s = 5 => chatbot' = None
       /\ s = 10 => chatbot' = [commit |-> c, running |-> TRUE]
       /\ s # 5 /\ s # 10 => chatbot' = chatbot
       /\ s = 8 => daemon' = c
       /\ s # 6 /\ s # 8 => daemon' = daemon
  BY <1>9
<1>22. /\ s + 1 >= 2 => s = 1 \/ s >= 2
       /\ s + 1 >= 3 => s = 2 \/ s >= 3
       /\ s + 1 >= 4 => s = 3 \/ s >= 4
       /\ s + 1 >= 6 /\ s + 1 < 11 => s = 5 \/ (s >= 6 /\ s < 11 /\ s # 5 /\ s # 10)
       /\ s + 1 >= 11 => s = 10 \/ (s >= 11 /\ s # 5 /\ s # 10)
       /\ s + 1 >= 9 => s = 8 \/ (s >= 9 /\ s # 6 /\ s # 8)
  BY NextStage
<1>10. /\ s >= 2 => <<"housebot", c>> \in images
       /\ s >= 3 => <<"sandboxd", c>> \in images
       /\ s >= 4 => <<"sandbox", c>> \in images
  <2>1. /\ Past(q, 2) => <<"housebot", c>> \in images
        /\ Past(q, 3) => <<"sandboxd", c>> \in images
        /\ Past(q, 4) => <<"sandbox", c>> \in images
    BY DEF IInv, ImagesPulled
  <2> QED
    BY <1>23, <2>1, Zenon
<1>11. /\ s >= 6 /\ s < 11 => chatbot = None
       /\ s >= 11 /\ chatbot # None => chatbot.commit = c
       /\ s >= 9 /\ ~torn => daemon = c
  <2>1. /\ Past(q, 6) /\ ~Past(q, 11) => chatbot = None
        /\ Past(q, 11) /\ chatbot # None => chatbot.commit = c
        /\ Past(q, 9) /\ ~torn => daemon = c
    BY <1>1 DEF IInv, ChatbotReplaced, DaemonReplaced
  <2> QED
    BY <1>23, <1>25, <2>1, Zenon
<1>12. TypeOK'
  <2>1. chatbot' \in {None} \cup [commit : Commit, running : BOOLEAN]
    <3>1. [commit |-> c, running |-> TRUE] \in [commit : Commit, running : BOOLEAN]
      OBVIOUS
    <3> QED
      BY <1>9, <3>1 DEF IInv, TypeOK
  <2>2. daemon' \in {None} \cup Commit
    BY <1>9 DEF IInv, TypeOK
  <2>3. PulledBy(s, c) \subseteq {"housebot", "sandboxd", "sandbox"} \X Commit
    BY DEF PulledBy
  <2>4. images' \subseteq {"housebot", "sandboxd", "sandbox"} \X Commit
    BY <1>9, <2>3 DEF IInv, TypeOK
  <2>5. req' \in [Request -> RequestRecord]
    BY <1>2, <1>4, <1>5
  <2> QED
    BY <2>1, <2>2, <2>4, <2>5 DEF IInv, TypeOK, world, NoFault
<1>13. LockHeld'
  <2>1. \A e \in Request : req'[e].pc \in Locked <=> lock' = e
    BY <1>1, <1>3, <1>5, <1>6 DEF Locked
  <2>2. \A e \in Request : e # q => req[e].pc \notin {"checkpoint", "plan", "cleanup"}
    BY <1>3 DEF Locked
  <2>3. r.pc = "plan" => r.stage \in 1..Len(Plan)
    BY <1>5, PlanStages
  <2>4. \A e \in Request : req'[e].pc = "plan" => req'[e].stage \in 1..Len(Plan)
    BY <1>6, <2>2, <2>3
  <2>5. \A e \in Request : req'[e].pc \in {"checkpoint", "plan", "cleanup"} => req'[e].commit \in Commit
    BY <1>5, <1>6, <2>2
  <2>6. FromItsKind(r) /\ req[q].kind \notin {"none", "over"}
    BY <1>5, Prior DEF FromItsKind
  <2>7. KindsKnown'
    <3>1. /\ r.kind = req[q].kind /\ r.commit = c /\ r.pc # "idle"
          /\ req[q].kind = "confirm" => req[q].commit \in Commit
      BY <1>5 DEF IInv, LockHeld, KindsKnown
    <3>2. \A e \in Request \ {q} : req'[e] = req[e]
      BY <1>6
    <3>3. KindsKnown /\ c \in Commit
      BY DEF IInv, LockHeld
    <3> QED
      BY <1>6, <2>6, <3>1, <3>2, <3>3 DEF KindsKnown
  <2> QED
    BY <1>1, <2>1, <2>4, <2>5, <2>7 DEF LockHeld
<1>14. ImagesPulled'
  <2>1. /\ s + 1 >= 2 => <<"housebot", c>> \in images'
        /\ s + 1 >= 3 => <<"sandboxd", c>> \in images'
        /\ s + 1 >= 4 => <<"sandbox", c>> \in images'
    BY <1>10, <1>20, <1>22
  <2>2. /\ Past(q, 2)' => <<"housebot", c>> \in images'
        /\ Past(q, 3)' => <<"sandboxd", c>> \in images'
        /\ Past(q, 4)' => <<"sandbox", c>> \in images'
    BY <1>24, <2>1, Zenon
  <2>3. \A e \in Request : e # q => ~Past(e, 2)' /\ ~Past(e, 3)' /\ ~Past(e, 4)'
    BY <1>8
  <2> QED
    BY <1>5, <1>6, <2>2, <2>3 DEF ImagesPulled
<1>15. ChatbotReplaced'
  <2>1. /\ s + 1 >= 6 /\ s + 1 < 11 => chatbot' = None
        /\ s + 1 >= 11 /\ chatbot' # None => chatbot'.commit = c
    BY <1>11, <1>21, <1>22
  <2>2. /\ Past(q, 6)' /\ ~Past(q, 11)' => chatbot' = None
        /\ Past(q, 11)' /\ chatbot' # None => chatbot'.commit = c
    BY <1>24, <1>25, <2>1, Zenon
  <2>3. \A e \in Request : e # q => ~Past(e, 6)' /\ ~Past(e, 11)'
    BY <1>8
  <2> QED
    BY <1>5, <1>6, <2>2, <2>3 DEF ChatbotReplaced
<1>16. DaemonReplaced'
  <2>1. s + 1 >= 9 /\ ~torn => daemon' = c
    BY <1>11, <1>21, <1>22
  <2>2. Past(q, 9)' /\ ~torn => daemon' = c
    BY <1>24, <2>1, Zenon
  <2>3. \A e \in Request : e # q => ~Past(e, 9)'
    BY <1>8
  <2> QED
    BY <1>5, <1>6, <2>2, <2>3 DEF DaemonReplaced
<1>17. ServiceWhole' /\ PairMatches'
  <2>1. CASE s = 10
    <3>1. chatbot' = [commit |-> c, running |-> TRUE] /\ images' = images /\ daemon' = daemon
      BY <1>9, <2>1 DEF PulledBy
    <3>2. Release(c) \subseteq images
      BY <1>10, <2>1 DEF Release
    <3> QED
      BY <1>11, <2>1, <3>1, <3>2 DEF ServiceWhole, PairMatches
  <2>2. CASE s # 10 /\ (chatbot' = None \/ (chatbot' = chatbot /\ daemon' = daemon))
    BY <1>9, <2>2 DEF IInv, ServiceWhole, PairMatches
  <2>3. s # 10 => chatbot' = None \/ (chatbot' = chatbot /\ daemon' = daemon)
    BY <1>9, <1>11
  <2> QED
    BY <2>1, <2>2, <2>3
<1>18. StoppedClean' /\ PreviousStaysWhole' /\ BuildDeployedOnce'
  BY <1>1, <1>9 DEF IInv, StoppedClean, PreviousStaysWhole, BuildDeployedOnce
<1>19. LastIsBuilt'
  <2>1. r.kind = "webhook" => r.commit \in Commit /\ r.commit # lastEvent
    BY <1>5 DEF IInv, LastIsBuilt
  <2>2. LastIsBuilt /\ lastEvent' = lastEvent /\ built' = built
    BY DEF IInv
  <2> QED
    BY <1>6, <2>1, <2>2 DEF LastIsBuilt
<1> QED
  BY <1>12, <1>13, <1>14, <1>15, <1>16, <1>17, <1>18, <1>19 DEF IInv

\* The chatbot that was created and did not start is of the release whose daemon
\* and images are there.
LEMMA HalfStartedKeeps ==
    ASSUME DeploymentAssumption, IInv, NEW q \in Request, req[q].pc = "plan", req[q].stage = 10,
           Fail(q), Fault, UNCHANGED <<daemon, images>>,
           chatbot' = [commit |-> req[q].commit, running |-> FALSE],
           UNCHANGED <<world, twin, phase, starts, previous, lastEvent, torn, built>>
    PROVE  IInv'
<1>1. lock = q /\ phase # "down" /\ (torn \/ phase = "up") /\ req[q].commit \in Commit
  BY Holder
<1>2. \A e \in Request : e # q => req[e].pc \notin Locked
  BY Holder
<1>3. PICK r : Fits(q, r)
  BY FailFits DEF Locked
<1>4. req'[q] = r /\ \A e \in Request : e # q => req'[e] = req[e]
  BY <1>3 DEF IInv, TypeOK, Fits
<1>5. lock' = None /\ r.pc \notin Locked
  BY <1>1, <1>3, DeploymentAssumption DEF Fail, Fits
<1>6. \A e \in Request : req'[e].pc \notin Locked
  BY <1>2, <1>4, <1>5
<1>7. \A e \in Request, n \in 1..11 : ~Past(e, n)'
  BY <1>6 DEF Past, Locked
<1>8. TypeOK'
  <2>1. chatbot' \in [commit : Commit, running : BOOLEAN]
    BY <1>1
  <2>2. req' \in [Request -> RequestRecord]
    BY <1>3 DEF Fits, IInv, TypeOK
  <2> QED
    BY <1>5, <2>1, <2>2, FaultCounts DEF IInv, TypeOK, world
<1>9. LockHeld'
  <2>1. \A e \in Request : req'[e].pc \notin {"checkpoint", "plan", "cleanup"} /\ lock' # e
    BY <1>5, <1>6, DeploymentAssumption DEF Locked
  <2>2. KindsKnown'
    BY <1>3, <1>4 DEF IInv, LockHeld, KindsKnown, Fits
  <2> QED
    BY <1>1, <1>6, <2>1, <2>2 DEF LockHeld
<1>10. ImagesPulled' /\ ChatbotReplaced' /\ DaemonReplaced'
  BY <1>7 DEF ImagesPulled, ChatbotReplaced, DaemonReplaced
<1>11. ServiceWhole' /\ PairMatches'
  <2>1. Past(q, 2) /\ Past(q, 3) /\ Past(q, 4) /\ Past(q, 9)
    BY DEF Past
  <2>2. Release(req[q].commit) \subseteq images
    <3>1. /\ <<"housebot", req[q].commit>> \in images /\ <<"sandboxd", req[q].commit>> \in images
          /\ <<"sandbox", req[q].commit>> \in images
      BY <2>1 DEF IInv, ImagesPulled
    <3> QED
      BY <3>1 DEF Release
  <2>3. ~torn => daemon = req[q].commit
    BY <1>1, <2>1 DEF IInv, DaemonReplaced
  <2> QED
    BY <1>1, <2>2, <2>3 DEF ServiceWhole, PairMatches
<1>12. StoppedClean' /\ PreviousStaysWhole' /\ BuildDeployedOnce'
  BY <1>1 DEF IInv, StoppedClean, PreviousStaysWhole, BuildDeployedOnce
<1>13. LastIsBuilt'
  BY <1>3, <1>4 DEF IInv, LastIsBuilt, Fits
<1> QED
  BY <1>8, <1>9, <1>10, <1>11, <1>12, <1>13 DEF IInv

\* A stage of the plan keeps the invariant, whichever it is.
LEMMA RunStageKeeps ==
    ASSUME DeploymentAssumption, IInv, NEW q \in Request, RunStage(q)
    PROVE  IInv'
<1>1. req[q].pc = "plan" /\ req[q].pc \in Locked
  BY DEF RunStage, at, Locked
<1>2. phase # "down" /\ req[q].commit \in Commit /\ req[q].stage \in 1..11
  BY <1>1, Holder
<1>3. CASE Fail(q) /\ (Fault \/ NoFault) /\ UNCHANGED docker
  BY <1>1, <1>2, <1>3, FailKeeps DEF RunStage, Quiet
<1>4. CASE Command(q, req[q].commit) /\ NoFault /\ lock' = lock
           /\ req' = [req EXCEPT ![q].stage = @ + 1,
                                 ![q].pc = IF Stage(q) = Plan[Len(Plan)] THEN "cleanup" ELSE @]
  BY <1>1, <1>2, <1>4, CommandKeeps DEF RunStage
<1>5. CASE /\ Stage(q) = "start_requested_image" /\ Fail(q) /\ Fault /\ UNCHANGED <<daemon, images>>
           /\ chatbot' = [commit |-> req[q].commit, running |-> FALSE]
  <2>1. req[q].stage = 10
    BY <1>2, <1>5, PlanStages DEF Stage
  <2> QED
    BY <1>1, <1>5, <2>1, HalfStartedKeeps DEF RunStage
<1> QED
  BY <1>3, <1>4, <1>5 DEF RunStage

\* The cleanup leaves what the release in service and the checkpoint are made
\* of; a build is noted as deployed.
LEMMA FinishKeeps ==
    ASSUME DeploymentAssumption, IInv, NEW q \in Request, Finish(q)
    PROVE  IInv'
<1> DEFINE c == req[q].commit
<1>1. req[q].pc = "cleanup" /\ req[q].pc \in Locked
  BY DEF Finish, at, Locked
<1>2. lock = q /\ phase # "down" /\ (torn \/ phase = "up") /\ c \in Commit
  BY <1>1, Holder
<1>3. \A e \in Request : e # q => req[e].pc \notin Locked
  BY <1>1, Holder
<1>4. /\ Over.pc = "done" /\ Over.kind = "over" /\ Over \in RequestRecord
      /\ req \in [Request -> RequestRecord] /\ lock' = None
  BY <1>2, IdleType DEF Finish, Succeed, IInv, TypeOK, Over, Idle
<1>5. req'[q] = Over /\ \A e \in Request : e # q => req'[e] = req[e]
  BY <1>4 DEF Finish, Succeed
<1>6. \A e \in Request : req'[e].pc \notin Locked
  BY <1>3, <1>4, <1>5 DEF Locked
<1>7. \A e \in Request, n \in 1..11 : ~Past(e, n)'
  BY <1>6 DEF Past, Locked
<1>8. /\ req[q].kind = "webhook" => lastEvent' = c /\ built' = Append(built, c)
      /\ req[q].kind # "webhook" => lastEvent' = lastEvent /\ built' = built
      /\ UNCHANGED <<world, chatbot, daemon, twin, phase, starts, previous, torn>>
      /\ Fault \/ NoFault
  BY DEF Finish
<1>9. /\ images' \subseteq images
      /\ previous # None => Release(previous) \cap images \subseteq images'
      /\ Release(c) \cap images \subseteq images'
  BY DEF Finish, Kept
<1>10. TypeOK'
  <2>1. req' \in [Request -> RequestRecord] /\ lock' \in {None} \cup Request
    BY <1>4 DEF Finish, Succeed
  <2>2. lastEvent' \in {None} \cup Commit
    BY <1>2, <1>8 DEF IInv, TypeOK
  <2>3. built' \in Seq(Commit)
    <3>1. built \in Seq(Commit)
      BY DEF IInv, TypeOK
    <3>2. Append(built, c) \in Seq(Commit)
      BY <1>2, <3>1
    <3> QED
      BY <1>8, <3>1, <3>2
  <2> QED
    BY <1>8, <1>9, <2>1, <2>2, <2>3, FaultCounts DEF IInv, TypeOK, world
<1>11. LockHeld'
  <2>1. \A e \in Request : req'[e].pc \notin {"checkpoint", "plan", "cleanup"} /\ lock' # e
    BY <1>4, <1>6, DeploymentAssumption DEF Locked
  <2>2. KindsKnown'
    BY <1>4, <1>5 DEF IInv, LockHeld, KindsKnown, FromItsKind
  <2> QED
    BY <1>2, <1>6, <1>8, <2>1, <2>2 DEF LockHeld
<1>12. ImagesPulled' /\ ChatbotReplaced' /\ DaemonReplaced'
  BY <1>7 DEF ImagesPulled, ChatbotReplaced, DaemonReplaced
<1>13. ServiceWhole'
  <2>1. Past(q, 11)
    BY <1>1 DEF Past
  <2>2. chatbot # None => chatbot.commit = c
    BY <2>1 DEF IInv, ChatbotReplaced
  <2>3. chatbot # None => Release(chatbot.commit) \subseteq images
    BY DEF IInv, ServiceWhole
  <2> QED
    BY <1>8, <1>9, <2>2, <2>3 DEF ServiceWhole
<1>14. PreviousStaysWhole' /\ PairMatches' /\ StoppedClean'
  <2>1. PreviousStaysWhole'
    BY <1>8, <1>9 DEF IInv, PreviousStaysWhole
  <2> QED
    BY <1>2, <1>8, <2>1 DEF IInv, PairMatches, StoppedClean
<1>15. LastIsBuilt' /\ BuildDeployedOnce'
  <2>1. lastEvent = IF built = <<>> THEN None ELSE built[Len(built)]
    BY DEF IInv, LastIsBuilt
  <2>2. built \in Seq(Commit) /\ \A i \in 1..(Len(built) - 1) : built[i] # built[i + 1]
    BY DEF IInv, TypeOK, BuildDeployedOnce
  <2>3. \A e \in Request : req'[e].kind = "webhook" =>
          req'[e].commit \in Commit /\ req'[e].pc \notin {"checkpoint", "plan", "cleanup"}
    BY <1>4, <1>5, <1>6 DEF IInv, LastIsBuilt, Locked
  <2>4. CASE req[q].kind # "webhook"
    BY <1>8, <2>1, <2>2, <2>3, <2>4 DEF LastIsBuilt, BuildDeployedOnce
  <2>5. CASE req[q].kind = "webhook"
    <3>1. c # lastEvent
      BY <1>1, <2>5 DEF IInv, LastIsBuilt
    <3>2. lastEvent' = c /\ built' = Append(built, c)
      BY <1>8, <2>5
    <3>3. /\ Len(built') = Len(built) + 1 /\ built'[Len(built) + 1] = c /\ built' # <<>>
          /\ \A i \in 1..Len(built) : built'[i] = built[i]
      BY <1>2, <2>2, <3>2
    <3>4. Len(built) \in Nat /\ (built = <<>> <=> Len(built) = 0)
      BY <2>2
    <3>5. LastIsBuilt'
      BY <2>3, <3>2, <3>3 DEF LastIsBuilt
    <3>6. ASSUME NEW i \in 1..Len(built) PROVE built'[i] # built'[i + 1]
      <4>1. CASE i = Len(built)
        BY <2>1, <3>1, <3>3, <3>4, <4>1
      <4>2. CASE i # Len(built)
        <5>1. i \in 1..(Len(built) - 1) /\ i + 1 \in 1..Len(built)
          BY <3>4, <4>2
        <5> QED
          BY <2>2, <3>3, <5>1
      <4> QED
        BY <4>1, <4>2
    <3>7. 1..(Len(built') - 1) = 1..Len(built)
      BY <3>3, <3>4
    <3> QED
      BY <3>5, <3>6, <3>7 DEF BuildDeployedOnce
  <2> QED
    BY <2>4, <2>5
<1> QED
  BY <1>10, <1>11, <1>12, <1>13, <1>14, <1>15 DEF IInv
-----------------------------------------------------------------------------
\* The branch, the registry and the chatbot itself.
LEMMA WorldKeeps ==
    ASSUME DeploymentAssumption, IInv, Push \/ Publish \/ Die
    PROVE  IInv'
<1>1. /\ UNCHANGED <<daemon, images, twin, phase, starts, previous, lastEvent, lock, req, faults, torn, built>>
      /\ chatbot' = chatbot \/ (chatbot # None /\ chatbot' = [chatbot EXCEPT !.running = FALSE])
  BY DEF Push, Publish, Die, docker, Running
<1>2. /\ chatbot' \in {None} \cup [commit : Commit, running : BOOLEAN]
      /\ chatbot = None => chatbot' = None
      /\ chatbot # None => chatbot'.commit = chatbot.commit
  <2>1. CASE chatbot' = chatbot
    BY <2>1 DEF IInv, TypeOK
  <2>2. CASE chatbot # None /\ chatbot' = [chatbot EXCEPT !.running = FALSE]
    <3>1. chatbot \in [commit : Commit, running : BOOLEAN]
      BY <2>2 DEF IInv, TypeOK
    <3>2. chatbot' \in [commit : Commit, running : BOOLEAN] /\ chatbot'.commit = chatbot.commit
      BY <2>2, <3>1
    <3> QED
      BY <2>2, <3>2
  <2> QED
    BY <1>1, <2>1, <2>2
<1>3. tip' \in Commit /\ published' \subseteq 1..tip'
  BY DeploymentAssumption DEF Push, Publish, Die, world, IInv, TypeOK, Commit
<1>4. TypeOK'
  BY <1>1, <1>2, <1>3 DEF IInv, TypeOK
<1>5. LockHeld' /\ StoppedClean' /\ LastIsBuilt' /\ BuildDeployedOnce'
  BY <1>1, <1>2 DEF IInv, LockHeld, KindsKnown, StoppedClean, LastIsBuilt, BuildDeployedOnce, Active
<1>6. \A e \in Request, n \in 1..11 : Past(e, n)' <=> Past(e, n)
  BY <1>1 DEF Past
<1>7. ImagesPulled' /\ ChatbotReplaced' /\ DaemonReplaced'
  BY <1>1, <1>2, <1>6 DEF IInv, ImagesPulled, ChatbotReplaced, DaemonReplaced
<1>8. ServiceWhole' /\ PreviousStaysWhole' /\ PairMatches'
  BY <1>1, <1>2 DEF IInv, ServiceWhole, PreviousStaysWhole, PairMatches
<1> QED
  BY <1>4, <1>5, <1>7, <1>8 DEF IInv

\* The bot starts, is told to stop, stops and is gone.
LEMMA StartKeeps == ASSUME DeploymentAssumption, IInv, Start PROVE IInv'
<1> USE DEF Start, world, docker
<1>1. TypeOK'
  BY DeploymentAssumption DEF IInv, TypeOK
<1>2. \A e \in Request : req[e] = Idle
  BY DEF IInv, LockHeld
<1>3. \A e \in Request, n \in 1..11 : ~Past(e, n)'
  BY <1>2 DEF Past, Idle
<1>4. LockHeld'
  BY DEF IInv, LockHeld, KindsKnown
<1>5. ImagesPulled' /\ ChatbotReplaced' /\ DaemonReplaced'
  BY <1>3 DEF ImagesPulled, ChatbotReplaced, DaemonReplaced
<1>6. ServiceWhole' /\ PreviousStaysWhole' /\ PairMatches' /\ StoppedClean' /\ LastIsBuilt' /\ BuildDeployedOnce'
  BY DEF IInv, ServiceWhole, PreviousStaysWhole, PairMatches, StoppedClean, LastIsBuilt, BuildDeployedOnce
<1> QED
  BY <1>1, <1>4, <1>5, <1>6 DEF IInv

\* Stopping the bots, by the admin or of the daemon alone, keeps the invariant.
LEMMA StopKeeps == ASSUME DeploymentAssumption, IInv, Stop \/ StopDaemon PROVE IInv'
<1> USE DEF Stop, StopDaemon, world
<1>1. /\ phase' \in {"stopping", "stopped"} /\ phase \in {"up", "stopping"}
      /\ UNCHANGED <<images, previous, lastEvent, lock, req, built>>
      /\ chatbot' \in {None, chatbot} /\ daemon' \in {None, daemon} /\ torn' \in BOOLEAN
      /\ faults' \in 0..MaxFaults
  BY FaultCounts DEF IInv, TypeOK
<1>2. TypeOK'
  BY <1>1 DEF IInv, TypeOK
<1>3. \A e \in Request, n \in 1..11 : Past(e, n)' <=> Past(e, n)
  BY <1>1 DEF Past
<1>4. LockHeld'
  BY <1>1 DEF IInv, LockHeld, KindsKnown
<1>5. ImagesPulled' /\ ChatbotReplaced' /\ DaemonReplaced'
  BY <1>1, <1>3 DEF IInv, ImagesPulled, ChatbotReplaced, DaemonReplaced
<1>6. ServiceWhole' /\ PreviousStaysWhole' /\ PairMatches'
  BY <1>1 DEF IInv, ServiceWhole, PreviousStaysWhole, PairMatches
<1>7. StoppedClean'
  <2>1. CASE Stop
    BY <2>1 DEF StoppedClean, Active
  <2>2. CASE StopDaemon
    BY <2>2 DEF IInv, StoppedClean, Active
  <2> QED
    BY <2>1, <2>2
<1>8. LastIsBuilt' /\ BuildDeployedOnce'
  BY <1>1 DEF IInv, LastIsBuilt, BuildDeployedOnce
<1> QED
  BY <1>2, <1>4, <1>5, <1>6, <1>7, <1>8 DEF IInv

\* When the deployment bot exits, its requests are gone and the images stay.
LEMMA ExitKeeps == ASSUME DeploymentAssumption, IInv, Exit PROVE IInv'
<1> USE DEF Exit, world, docker
<1>1. \A e \in Request : req'[e] = Idle
  OBVIOUS
<1>2. Idle.pc = "idle" /\ Idle.kind = "none"
  BY DEF Idle
<1>3. TypeOK'
  <2>1. req' \in [Request -> RequestRecord] /\ built' \in Seq(Commit)
    BY IdleType
  <2> QED
    BY <2>1 DEF IInv, TypeOK
<1>4. \A e \in Request, n \in 1..11 : ~Past(e, n)'
  BY <1>1, <1>2 DEF Past
<1>5. LockHeld' /\ LastIsBuilt' /\ BuildDeployedOnce'
  BY <1>1, <1>2, DeploymentAssumption
     DEF LockHeld, KindsKnown, FromItsKind, Locked, LastIsBuilt, BuildDeployedOnce
<1>6. ImagesPulled' /\ ChatbotReplaced' /\ DaemonReplaced'
  BY <1>4 DEF ImagesPulled, ChatbotReplaced, DaemonReplaced
<1>7. ServiceWhole' /\ PreviousStaysWhole' /\ StoppedClean'
  BY DEF IInv, ServiceWhole, PreviousStaysWhole, StoppedClean
<1>8. PairMatches'
  BY DEF IInv, TypeOK, PairMatches, StoppedClean
<1> QED
  BY <1>3, <1>5, <1>6, <1>7, <1>8 DEF IInv
-----------------------------------------------------------------------------
\* A stuttering step keeps everything.
LEMMA StutterKeeps == ASSUME IInv, UNCHANGED vars PROVE IInv'
<1> USE DEF vars, world, docker
<1>1. TypeOK' /\ LockHeld' /\ LastIsBuilt' /\ BuildDeployedOnce'
  BY DEF IInv, TypeOK, LockHeld, KindsKnown, LastIsBuilt, BuildDeployedOnce
<1>2. \A e \in Request, n \in 1..11 : Past(e, n)' <=> Past(e, n)
  BY DEF Past
<1>3. ImagesPulled' /\ ChatbotReplaced' /\ DaemonReplaced'
  BY <1>2 DEF IInv, ImagesPulled, ChatbotReplaced, DaemonReplaced
<1>4. ServiceWhole' /\ PreviousStaysWhole' /\ PairMatches' /\ StoppedClean'
  BY DEF IInv, ServiceWhole, PreviousStaysWhole, PairMatches, StoppedClean, Active
<1> QED
  BY <1>1, <1>3, <1>4 DEF IInv

\* Every step of the bot, its requests and the world keeps it.
LEMMA StepInv == IInv /\ [Next]_vars => IInv'
<1> SUFFICES ASSUME IInv, [Next]_vars PROVE IInv'
  OBVIOUS
<1>1. ASSUME NEW q \in Request, Webhook(q) \/ Update(q) \/ Rollback(q) \/ Deploy(q) \/ BotReady(q) PROVE IInv'
  BY <1>1, AskersKeep, DeploymentAssumption
<1>2. ASSUME NEW q \in Request, Confirm(q) \/ Deny(q) PROVE IInv'
  BY <1>2, CardKeeps, DeploymentAssumption
<1>3. ASSUME NEW q \in Request, Acquire(q) PROVE IInv'
  BY <1>3, AcquireKeeps, DeploymentAssumption
<1>4. ASSUME NEW q \in Request, Step(q) PROVE IInv'
  BY <1>4, ReadyKeeps, ChoosersKeep, PlanKeeps, RunStageKeeps, FinishKeeps, DeploymentAssumption DEF Step
<1>5. CASE Push \/ Publish \/ Die
  BY <1>5, WorldKeeps, DeploymentAssumption
<1>6. CASE Start \/ Stop \/ StopDaemon \/ Exit
  BY <1>6, StartKeeps, StopKeeps, ExitKeeps, DeploymentAssumption
<1>7. CASE UNCHANGED vars
  BY <1>7, StutterKeeps
<1> QED
  BY <1>1, <1>2, <1>3, <1>4, <1>5, <1>6, <1>7 DEF Next

\* The invariant of the deployment bot: every request is where its lock, its
\* kind and its plan say, and so are the images and the containers
\* (deploy_commit and container_commands_with_env of the deployment bot).
THEOREM DeploymentInvariant == Spec => []IInv
<1>1. Init => IInv
  BY InitInv
<1>2. IInv /\ [Next]_vars => IInv'
  BY StepInv
<1> QED
  BY <1>1, <1>2, PTL DEF Spec

\* Every variable keeps its type.
THEOREM DeploymentTyped == Spec => []TypeOK
<1>1. IInv => TypeOK
  BY DEF IInv
<1> QED
  BY <1>1, DeploymentInvariant, PTL

\* One request at a time looks at the containers or changes them
\* (deployment_lock is held from the first look to the last command).
THEOREM OneDeploymentAtATime ==
    Spec => [](\A q, r \in Request : req[q].pc \in Locked /\ req[r].pc \in Locked => q = r)
<1>1. IInv => \A q, r \in Request : req[q].pc \in Locked /\ req[r].pc \in Locked => q = r
  BY DEF IInv, LockHeld
<1> QED
  BY <1>1, DeploymentInvariant, PTL

\* What is in service and what a rollback goes back to is whole on the host,
\* through every failure, stop and cleanup (cleanup_old_images and rollback).
THEOREM ReleasesStayWhole == Spec => [](PreviousStaysWhole /\ ServiceWhole)
<1>1. IInv => PreviousStaysWhole /\ ServiceWhole
  BY DEF IInv
<1> QED
  BY <1>1, DeploymentInvariant, PTL

\* A chatbot is beside the daemon of its own release (the order of the commands
\* of container_commands_with_env, and the order of a stop).
THEOREM PairsMatch == Spec => []PairMatches
<1>1. IInv => PairMatches
  BY DEF IInv
<1> QED
  BY <1>1, DeploymentInvariant, PTL

\* The build that was deployed last is not deployed again, even when it is
\* announced twice at the same time (last_event, read with the lock held).
THEOREM NoBuildTwice == Spec => []BuildDeployedOnce
<1>1. IInv => BuildDeployedOnce
  BY DEF IInv
<1> QED
  BY <1>1, DeploymentInvariant, PTL
=============================================================================
