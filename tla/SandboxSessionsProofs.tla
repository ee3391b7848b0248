----------------------- MODULE SandboxSessionsProofs -----------------------
(***************************************************************************)
(* What the sandbox daemon promises holds for any number of turns,         *)
(* connections, sandboxes and users, from SandboxAssumption alone.         *)
(***************************************************************************)
EXTENDS SandboxSessions, TLAPS

Settled(b) == container[b] \in {"running", "gone"}

\* Only a turn of somebody sends requests.
TurnsOK == TurnTypes /\ \A t \in Turn : turn[t].pc # "ready" => turn[t].user \in User
Requests == \A c \in Conn : conn[c].pc = "arrived" => conn[c].user \in User

\* A container under provision is in no other hands, and serves no request.
Provisions ==
    /\ \A c \in Conn : conn[c].pc = "provisioning" =>
          /\ conn[c].box \in Box /\ owner[conn[c].box] # None
          /\ conn[c].box \notin tracked \cup condemned
          /\ container[conn[c].box] \in {"requested", "running"}
    /\ \A c, d \in Conn : /\ c # d /\ conn[c].pc = "provisioning"
                          /\ conn[d].pc \in {"provisioning", "exec", "destroy", "forget"}
                          => conn[c].box # conn[d].box

\* A request in service has a container that was started, and one that was
\* destroyed is gone unless Docker failed.
Services ==
    \A c \in Conn :
       /\ conn[c].pc \in {"exec", "destroy", "forget"} =>
             conn[c].box \in Box /\ Settled(conn[c].box)
       /\ conn[c].pc = "forget" =>
             container[conn[c].box] # "running" \/ conn[c].box \in faulty

\* A fresh id is nowhere; a listed one was started; a requested container is
\* waited for unless its task failed or was stopped.
Boxes ==
    /\ \A b \in Box : owner[b] = None => container[b] = "none" /\ b \notin tracked \cup condemned
    /\ \A b \in tracked \cup condemned : Settled(b)
    /\ \A b \in Box : container[b] = "requested" =>
          b \in faulty \/ \E c \in Conn : conn[c].pc = "provisioning" /\ conn[c].box = b

\* While the daemon is down it holds nothing.
Down == ~up => /\ tracked = {} /\ condemned = {}
               /\ \A c \in Conn : conn[c].pc = "free"

IInv == /\ DaemonTypes /\ ConnTypes /\ TurnsOK /\ Requests /\ Provisions /\ Services
        /\ Boxes /\ Down /\ TrackedRuns /\ OnlyFaultsLeak
-----------------------------------------------------------------------------
\* The initial state: everything is empty.
LEMMA InitInv == Init => IInv
  BY SandboxAssumption DEF Init, IInv, DaemonTypes, ConnTypes, ConnRecord, TurnTypes,
     TurnRecord, TurnsOK, Requests, Provisions, Services, Boxes, Settled, Down, TrackedRuns,
     OnlyFaultsLeak, InHand, FreeConn, NewTurn

\* One turn changes to a turn of its user, and what it has seen to a box.
LEMMA TurnChanges ==
    ASSUME TurnsOK, NEW t \in Turn, NEW r \in TurnRecord, NEW x \in Box \cup {None},
           r.pc # "ready" => r.user \in User,
           turn' = [turn EXCEPT ![t] = r], last' = [last EXCEPT ![t] = x]
    PROVE  TurnsOK'
<1>1. turn' \in [Turn -> TurnRecord] /\ last' \in [Turn -> Box \cup {None}]
  BY DEF TurnsOK, TurnTypes
<1>2. \A u \in Turn : turn'[u] = IF u = t THEN r ELSE turn[u]
  BY DEF TurnsOK, TurnTypes
<1> QED
  BY <1>1, <1>2 DEF TurnsOK, TurnTypes

\* Whatever a turn does with an answer, it stays a turn of its user.
LEMMA TakeKeeps ==
    ASSUME TurnsOK, NEW t \in Turn, NEW kind, NEW b \in Box \cup {None}, Take(t, kind, b)
    PROVE  TurnsOK'
<1>1. turn[t] \in TurnRecord /\ last[t] \in Box \cup {None} /\ turn[t].box \in Box \cup {None}
  BY DEF TurnsOK, TurnTypes, TurnRecord
<1>2. last = [last EXCEPT ![t] = last[t]]
  BY DEF TurnsOK, TurnTypes
<1>3. ASSUME NEW pc \in {"start", "copy", "op"}, NEW x \in Box \cup {None}, turn[t].pc # "ready",
             Goto(t, pc, x)
      PROVE  TurnsOK'
  <2> DEFINE r == [turn[t] EXCEPT !.pc = pc, !.box = x, !.sent = FALSE]
  <2>1. r \in TurnRecord
    BY <1>1 DEF TurnRecord
  <2>2. r.user \in User
    BY <1>1, <1>3 DEF TurnsOK, TurnRecord
  <2>3. turn' = [turn EXCEPT ![t] = r] /\ last' = [last EXCEPT ![t] = last[t]]
    BY <1>2, <1>3 DEF Goto, TurnsOK, TurnTypes
  <2> HIDE DEF r
  <2> QED
    BY <1>1, <2>1, <2>2, <2>3, TurnChanges
<1>4. ASSUME NEW n \in BOOLEAN, NEW x \in Box \cup {None}, Reply(t, n, x)
      PROVE  TurnsOK'
  <2> DEFINE r == [turn[t] EXCEPT !.pc = "ready", !.sent = FALSE, !.retry = FALSE, !.noticed = n]
  <2>1. r \in TurnRecord
    BY <1>1 DEF TurnRecord
  <2>2. r.pc = "ready"
    BY <1>1 DEF TurnRecord
  <2>3. turn' = [turn EXCEPT ![t] = r] /\ last' = [last EXCEPT ![t] = x]
    BY <1>4 DEF Reply, TurnsOK, TurnTypes
  <2> HIDE DEF r
  <2> QED
    BY <2>1, <2>2, <2>3, TurnChanges
<1>5. ASSUME turn[t].pc # "ready", Reattach(t)
      PROVE  TurnsOK'
  <2> DEFINE r == [turn[t] EXCEPT !.pc = "start", !.box = None, !.retry = TRUE, !.sent = FALSE]
  <2>1. r \in TurnRecord
    BY <1>1 DEF TurnRecord
  <2>2. r.user \in User
    BY <1>1, <1>5 DEF TurnsOK, TurnRecord
  <2>3. turn' = [turn EXCEPT ![t] = r] /\ last' = [last EXCEPT ![t] = last[t]]
    BY <1>2, <1>5 DEF Reattach, TurnsOK, TurnTypes
  <2> HIDE DEF r
  <2> QED
    BY <1>1, <2>1, <2>2, <2>3, TurnChanges
<1>6. CASE turn[t].pc = "start" /\ TakeStart(t, kind, b)
  BY <1>6, <1>1, <1>3, <1>4 DEF TakeStart
<1>7. CASE turn[t].pc = "copy" /\ TakeCopy(t)
  BY <1>7, <1>1, <1>3 DEF TakeCopy
<1>8. CASE turn[t].pc = "op" /\ TakeOp(t, kind)
  BY <1>8, <1>1, <1>4, <1>5 DEF TakeOp
<1> QED
  BY <1>6, <1>7, <1>8 DEF Take

\* One connection changes to what is left of its task.
LEMMA ConnChanges ==
    ASSUME ConnTypes, NEW c \in Conn, NEW k \in ConnRecord, conn' = [conn EXCEPT ![c] = k]
    PROVE  ConnTypes' /\ \A d \in Conn : conn'[d] = IF d = c THEN k ELSE conn[d]
  BY DEF ConnTypes

\* An answer frees the connection and goes to whoever still waits for it.
LEMMA AnswerKeeps ==
    ASSUME ConnTypes, TurnsOK, NEW c \in Conn, NEW kind, NEW b \in Box \cup {None},
           Answer(c, kind, b)
    PROVE  /\ TurnsOK' /\ ConnTypes'
           /\ \A d \in Conn : conn'[d] = IF d = c THEN FreeConn ELSE conn[d]
<1>1. FreeConn \in ConnRecord
  BY DEF FreeConn, ConnRecord
<1>2. ConnTypes' /\ \A d \in Conn : conn'[d] = IF d = c THEN FreeConn ELSE conn[d]
  BY <1>1, ConnChanges DEF Answer
<1>3. CASE conn[c].client = None
  BY <1>2, <1>3 DEF Answer, TurnsOK, TurnTypes
<1>4. CASE conn[c].client # None
  <2>1. conn[c].client \in Turn
    BY <1>4 DEF ConnTypes, ConnRecord
  <2> QED
    BY <1>2, <1>4, <2>1, TakeKeeps DEF Answer
<1> QED
  BY <1>3, <1>4

\* A task that goes on keeps its request.
LEMMA AdvanceKeeps ==
    ASSUME ConnTypes, TurnsOK, NEW c \in Conn, NEW pc \in {"exec", "destroy", "forget"},
           Advance(c, pc)
    PROVE  /\ TurnsOK' /\ ConnTypes'
           /\ \A d \in Conn : conn'[d] = IF d = c THEN [conn[c] EXCEPT !.pc = pc] ELSE conn[d]
<1>1. [conn[c] EXCEPT !.pc = pc] \in ConnRecord
  BY DEF ConnTypes, ConnRecord
<1>2. conn' = [conn EXCEPT ![c] = [conn[c] EXCEPT !.pc = pc]]
  BY DEF Advance, ConnTypes
<1>3. TurnsOK'
  BY DEF Advance, TurnsOK, TurnTypes
<1> QED
  BY <1>1, <1>2, <1>3, ConnChanges

\* handle_start with a box of the session: the daemon holds what it held.
LEMMA ReuseStep == ASSUME IInv, NEW c \in Conn, Reuse(c) PROVE IInv'
<1>1. PICK b \in SessionBoxes(conn[c].user) : idle' = idle \ {b} /\ Answer(c, "ok", b)
  BY DEF Reuse
<1>2. b \in tracked /\ b \in Box
  BY DEF SessionBoxes, IInv, DaemonTypes
<1>3. /\ TurnsOK' /\ ConnTypes'
      /\ \A d \in Conn : conn'[d] = IF d = c THEN FreeConn ELSE conn[d]
  BY <1>1, <1>2, AnswerKeeps DEF IInv
<1>4. UNCHANGED <<up, owner, container, tracked, condemned, faulty>> /\ conn[c].pc = "arrived"
  BY DEF Reuse, starts
<1>5. DaemonTypes'
  BY <1>1, <1>4 DEF IInv, DaemonTypes
<1>6. Requests' /\ Provisions' /\ Services' /\ Boxes' /\ Down'
  BY <1>3, <1>4 DEF IInv, Requests, Provisions, Services, Boxes, Settled, Down, FreeConn
<1>7. TrackedRuns' /\ OnlyFaultsLeak'
  BY <1>3, <1>4 DEF IInv, TrackedRuns, OnlyFaultsLeak, InHand, serves, FreeConn
<1> QED
  BY <1>3, <1>5, <1>6, <1>7 DEF IInv

\* handle_start without a box: a fresh id enters the hands of this task.
LEMMA ProvisionStep == ASSUME IInv, NEW c \in Conn, Provision(c) PROVE IInv'
<1>1. PICK b \in Box : /\ owner[b] = None
                       /\ owner' = [owner EXCEPT ![b] = conn[c].user]
                       /\ container' = [container EXCEPT ![b] = "requested"]
                       /\ conn' = [conn EXCEPT ![c].pc = "provisioning", ![c].box = b]
  BY DEF Provision
<1>2. UNCHANGED <<up, tracked, idle, condemned, turn, last, faulty>> /\ conn[c].pc = "arrived"
  BY DEF Provision, starts
<1> DEFINE k == [conn[c] EXCEPT !.pc = "provisioning", !.box = b]
<1>3. k \in ConnRecord /\ k.pc = "provisioning" /\ k.box = b
  BY DEF IInv, ConnTypes, ConnRecord
<1>4. conn' = [conn EXCEPT ![c] = k]
  BY <1>1 DEF IInv, ConnTypes
<1> HIDE DEF k
<1>5. ConnTypes' /\ \A d \in Conn : conn'[d] = IF d = c THEN k ELSE conn[d]
  BY <1>3, <1>4, ConnChanges DEF IInv
<1>6. /\ conn[c].user \in User /\ conn[c].user # None
      /\ container[b] = "none" /\ b \notin tracked \cup condemned
  BY <1>1, <1>2, SandboxAssumption DEF IInv, Requests, Boxes
<1>7. /\ DaemonTypes'
      /\ \A x \in Box : container'[x] = IF x = b THEN "requested" ELSE container[x]
      /\ \A x \in Box : owner'[x] = IF x = b THEN conn[c].user ELSE owner[x]
  BY <1>1, <1>2, <1>6 DEF IInv, DaemonTypes
<1>8. TurnsOK' /\ Requests' /\ Down'
  BY <1>2, <1>3, <1>5 DEF IInv, TurnsOK, TurnTypes, Requests, Down
<1>8a. \A d \in Conn : conn[d].pc \in {"provisioning", "exec", "destroy", "forget"} =>
          conn[d].box \in Box /\ conn[d].box # b
  BY <1>1, <1>6 DEF IInv, Provisions, Services, Settled
<1>9. Provisions'
  <2>1. ASSUME NEW d \in Conn, conn'[d].pc = "provisioning"
        PROVE  /\ conn'[d].box \in Box /\ owner'[conn'[d].box] # None
               /\ conn'[d].box \notin tracked \cup condemned
               /\ container'[conn'[d].box] \in {"requested", "running"}
    BY <1>2, <1>3, <1>5, <1>6, <1>7, <1>8a, <2>1 DEF IInv, Provisions
  <2>2. ASSUME NEW d \in Conn, NEW e \in Conn, d # e, conn'[d].pc = "provisioning",
               conn'[e].pc \in {"provisioning", "exec", "destroy", "forget"}
        PROVE  conn'[d].box # conn'[e].box
    BY <1>3, <1>5, <1>8a, <2>2 DEF IInv, Provisions
  <2> QED
    BY <1>2, <2>1, <2>2 DEF Provisions
<1>10. Services'
  BY <1>2, <1>3, <1>5, <1>7, <1>8a DEF IInv, Services, Settled
<1>11. Boxes'
  <2>1. \A x \in Box : owner'[x] = None => container'[x] = "none" /\ x \notin tracked \cup condemned
    BY <1>6, <1>7 DEF IInv, Boxes
  <2>2. \A x \in tracked \cup condemned : container'[x] \in {"running", "gone"}
    BY <1>6, <1>7 DEF IInv, DaemonTypes, Boxes, Settled
  <2>3. ASSUME NEW x \in Box, container'[x] = "requested"
        PROVE  x \in faulty \/ \E d \in Conn : conn'[d].pc = "provisioning" /\ conn'[d].box = x
    <3>1. CASE x = b
      BY <1>3, <1>5, <3>1
    <3>2. CASE x # b
      <4>1. CASE x \in faulty
        BY <4>1
      <4>2. CASE x \notin faulty
        <5>1. PICK d \in Conn : conn[d].pc = "provisioning" /\ conn[d].box = x
          BY <1>7, <2>3, <3>2, <4>2 DEF IInv, Boxes
        <5> QED
          BY <1>2, <1>5, <5>1
      <4> QED
        BY <4>1, <4>2
    <3> QED
      BY <3>1, <3>2
  <2> QED
    BY <1>2, <2>1, <2>2, <2>3 DEF Boxes, Settled
<1>12. TrackedRuns' /\ OnlyFaultsLeak'
  BY <1>2, <1>3, <1>5, <1>6, <1>7 DEF IInv, DaemonTypes, TrackedRuns, OnlyFaultsLeak, InHand, serves
<1> QED
  BY <1>5, <1>7, <1>8, <1>9, <1>10, <1>11, <1>12 DEF IInv

\* docker run succeeded: the box passes from the task to the map.
LEMMA ProvisionedStep == ASSUME IInv, NEW c \in Conn, Provisioned(c) PROVE IInv'
<1>1. /\ conn[c].pc = "provisioning" /\ container[conn[c].box] = "running"
      /\ tracked' = tracked \cup {conn[c].box}
      /\ UNCHANGED <<up, owner, container, idle, condemned, faulty>>
  BY DEF Provisioned, serves
<1>2. conn[c].box \in Box /\ conn[c].box \notin condemned /\ owner[conn[c].box] # None
  BY <1>1 DEF IInv, Provisions
<1>3. /\ TurnsOK' /\ ConnTypes'
      /\ \A d \in Conn : conn'[d] = IF d = c THEN FreeConn ELSE conn[d]
  BY <1>2, AnswerKeeps DEF IInv, Provisioned
<1>4. DaemonTypes'
  BY <1>1, <1>2 DEF IInv, DaemonTypes
<1>5. Requests' /\ Provisions' /\ Services' /\ Down'
  BY <1>1, <1>3 DEF IInv, Requests, Provisions, Services, Settled, Down, FreeConn
<1>6. Boxes'
  BY <1>1, <1>2, <1>3 DEF IInv, Boxes, Settled, FreeConn
<1>7. TrackedRuns' /\ OnlyFaultsLeak'
  BY <1>1, <1>3 DEF IInv, TrackedRuns, OnlyFaultsLeak, InHand, serves, FreeConn
<1> QED
  BY <1>3, <1>4, <1>5, <1>6, <1>7 DEF IInv

\* docker run failed: the box it may start all the same is a fault's.
LEMMA ProvisionFailsStep == ASSUME IInv, NEW c \in Conn, ProvisionFails(c) PROVE IInv'
<1>1. UNCHANGED <<up, owner, container, tracked, idle, condemned>>
  BY DEF ProvisionFails, daemon
<1>2. /\ TurnsOK' /\ ConnTypes'
      /\ \A d \in Conn : conn'[d] = IF d = c THEN FreeConn ELSE conn[d]
  BY AnswerKeeps DEF IInv, ProvisionFails
<1>3. CASE serves(c, "provisioning") /\ faulty' = faulty \cup {conn[c].box}
  <2>1. conn[c].pc = "provisioning" /\ conn[c].box \in Box
    BY <1>3 DEF IInv, Provisions, serves
  <2>2. DaemonTypes'
    BY <1>1, <1>3, <2>1 DEF IInv, DaemonTypes
  <2>3. Requests' /\ Provisions' /\ Services' /\ Down'
    BY <1>1, <1>2, <1>3 DEF IInv, Requests, Provisions, Services, Settled, Down, FreeConn
  <2>4. Boxes'
    BY <1>1, <1>2, <1>3, <2>1 DEF IInv, Boxes, Settled, FreeConn
  <2>5. TrackedRuns'
    BY <1>1, <1>2, <2>1 DEF IInv, TrackedRuns, serves, FreeConn
  <2>6. OnlyFaultsLeak'
    BY <1>1, <1>2, <1>3, <2>1 DEF IInv, OnlyFaultsLeak, InHand, FreeConn
  <2> QED
    BY <1>2, <2>2, <2>3, <2>4, <2>5, <2>6 DEF IInv
<1>4. CASE starts(c) /\ UNCHANGED faulty
  <2>1. conn[c].pc = "arrived"
    BY <1>4 DEF starts
  <2>2. DaemonTypes'
    BY <1>1, <1>4 DEF IInv, DaemonTypes
  <2>3. Requests' /\ Provisions' /\ Services' /\ Boxes' /\ Down'
    BY <1>1, <1>2, <1>4, <2>1 DEF IInv, Requests, Provisions, Services, Boxes, Settled, Down, FreeConn
  <2>4. TrackedRuns' /\ OnlyFaultsLeak'
    BY <1>1, <1>2, <1>4, <2>1 DEF IInv, TrackedRuns, OnlyFaultsLeak, InHand, serves, FreeConn
  <2> QED
    BY <1>2, <2>2, <2>3, <2>4 DEF IInv
<1> QED
  BY <1>3, <1>4 DEF ProvisionFails

\* A task that is answered while the daemon holds what it held.
LEMMA QuietAnswer ==
    ASSUME IInv, NEW c \in Conn, NEW kind, NEW b \in Box \cup {None}, Answer(c, kind, b),
           conn[c].pc \in {"arrived", "exec"},
           UNCHANGED <<up, owner, container, tracked, condemned, faulty>>, idle' \subseteq idle
    PROVE  IInv'
<1>1. /\ TurnsOK' /\ ConnTypes'
      /\ \A d \in Conn : conn'[d] = IF d = c THEN FreeConn ELSE conn[d]
  BY AnswerKeeps DEF IInv
<1>2. DaemonTypes'
  BY DEF IInv, DaemonTypes
<1>3. Requests' /\ Provisions' /\ Services' /\ Boxes' /\ Down'
  BY <1>1 DEF IInv, Requests, Provisions, Services, Boxes, Settled, Down, FreeConn
<1>4. TrackedRuns' /\ OnlyFaultsLeak'
  BY <1>1 DEF IInv, TrackedRuns, OnlyFaultsLeak, InHand, serves, FreeConn
<1> QED
  BY <1>1, <1>2, <1>3, <1>4 DEF IInv

\* A task that goes on with a request in a started box.
LEMMA QuietAdvance ==
    ASSUME IInv, NEW c \in Conn, NEW pc \in {"exec", "destroy"}, Advance(c, pc),
           conn[c].pc \in {"arrived", "exec"}, conn[c].box \in Box, Settled(conn[c].box),
           \A d \in Conn : conn[d].pc = "provisioning" => conn[d].box # conn[c].box,
           UNCHANGED <<up, owner, container, tracked, condemned, faulty>>, idle' \subseteq idle
    PROVE  IInv'
<1>1. /\ TurnsOK' /\ ConnTypes'
      /\ \A d \in Conn : conn'[d] = IF d = c THEN [conn[c] EXCEPT !.pc = pc] ELSE conn[d]
  <2>1. ConnTypes /\ TurnsOK /\ pc \in {"exec", "destroy", "forget"}
    BY DEF IInv
  <2> QED
    BY <2>1, AdvanceKeeps
<1>2. conn'[c].pc = pc /\ conn'[c].box = conn[c].box /\ \A d \in Conn \ {c} : conn'[d] = conn[d]
  BY <1>1 DEF IInv, ConnTypes, ConnRecord
<1>3. DaemonTypes'
  BY DEF IInv, DaemonTypes
<1>4. up
  BY DEF IInv, Down
<1>5. Requests' /\ Provisions' /\ Services' /\ Boxes' /\ Down'
  BY <1>2, <1>4 DEF IInv, Requests, Provisions, Services, Boxes, Settled, Down
<1>6. TrackedRuns' /\ OnlyFaultsLeak'
  BY <1>2 DEF IInv, TrackedRuns, OnlyFaultsLeak, InHand, serves
<1> QED
  BY <1>1, <1>3, <1>5, <1>6 DEF IInv

\* require_sandbox: a listed box is served, an unknown one refused.
LEMMA RequireStep == ASSUME IInv, NEW c \in Conn, Require(c) PROVE IInv'
<1>1. conn[c].pc = "arrived" /\ conn[c].box \in Box \cup {None}
  BY DEF Require, serves, IInv, ConnTypes, ConnRecord
<1>2. UNCHANGED <<up, owner, container, tracked, condemned, faulty>>
  BY DEF Require
<1>3. CASE conn[c].box \in tracked
  <2>1. /\ conn[c].box \in Box /\ Settled(conn[c].box)
        /\ \A d \in Conn : conn[d].pc = "provisioning" => conn[d].box # conn[c].box
    BY <1>3 DEF IInv, DaemonTypes, Boxes, Provisions
  <2> QED
    BY <1>1, <1>2, <1>3, <2>1, QuietAdvance DEF Require
<1>4. CASE conn[c].box \notin tracked
  BY <1>1, <1>2, <1>4, QuietAnswer DEF Require
<1> QED
  BY <1>3, <1>4

\* A file request, done or failed, leaves every box as it was.
LEMMA FileRequestStep == ASSUME IInv, NEW c \in Conn, FileRequest(c) PROVE IInv'
<1>1. conn[c].pc = "exec" /\ conn[c].box \in Box \cup {None}
  BY DEF FileRequest, serves, IInv, ConnTypes, ConnRecord
<1>2. UNCHANGED <<up, owner, container, tracked, idle, condemned, faulty>>
  BY DEF FileRequest, daemon
<1> QED
  BY <1>1, <1>2, QuietAnswer DEF FileRequest

\* A command is answered, or its timeout makes the task destroy the box.
LEMMA RunCommandStep == ASSUME IInv, NEW c \in Conn, RunCommand(c) PROVE IInv'
<1>1. conn[c].pc = "exec"
  BY DEF RunCommand, serves
<1>2. /\ conn[c].box \in Box /\ Settled(conn[c].box)
      /\ \A d \in Conn : conn[d].pc = "provisioning" => conn[d].box # conn[c].box
  BY <1>1 DEF IInv, Services, Provisions
<1>3. UNCHANGED <<up, owner, container, tracked, idle, condemned, faulty>>
  BY DEF RunCommand, daemon
<1> QED
  BY <1>1, <1>2, <1>3, QuietAnswer, QuietAdvance DEF RunCommand

\* docker rm of a started container: it is gone, or a fault keeps it.
LEMMA RemoveGone ==
    ASSUME DaemonTypes, NEW b \in Box, Settled(b), Remove(b)
    PROVE  /\ container' \in [Box -> {"none", "requested", "running", "gone"}]
           /\ \A x \in Box : x # b => container'[x] = container[x]
           /\ container'[b] \in {"running", "gone"}
           /\ container'[b] = "gone" \/ b \in faulty'
           /\ faulty \subseteq faulty' /\ faulty' \subseteq Box
  BY DEF DaemonTypes, Settled, Remove

\* A command timed out: its box is destroyed while the map still holds it.
LEMMA DestroyTimedOutStep == ASSUME IInv, NEW c \in Conn, DestroyTimedOut(c) PROVE IInv'
<1> DEFINE b == conn[c].box
<1>1. conn[c].pc = "destroy" /\ UNCHANGED <<up, owner, tracked, idle, condemned>> /\ Remove(b)
  BY DEF DestroyTimedOut, serves
<1>2. b \in Box /\ Settled(b) /\ up
  BY <1>1 DEF IInv, Services, Down
<1>3. /\ container' \in [Box -> {"none", "requested", "running", "gone"}]
      /\ \A x \in Box : x # b => container'[x] = container[x]
      /\ container'[b] \in {"running", "gone"}
      /\ container'[b] = "gone" \/ b \in faulty'
      /\ faulty \subseteq faulty' /\ faulty' \subseteq Box
  BY <1>1, <1>2, RemoveGone DEF IInv
<1>4. /\ TurnsOK' /\ ConnTypes'
      /\ \A d \in Conn : conn'[d] = IF d = c THEN [conn[c] EXCEPT !.pc = "forget"] ELSE conn[d]
  BY AdvanceKeeps DEF IInv, DestroyTimedOut
<1>5. conn'[c].pc = "forget" /\ conn'[c].box = b /\ \A d \in Conn \ {c} : conn'[d] = conn[d]
  BY <1>4 DEF IInv, ConnTypes, ConnRecord
<1> HIDE DEF b
<1>6. DaemonTypes' /\ Requests' /\ Down'
  BY <1>1, <1>2, <1>3, <1>5 DEF IInv, DaemonTypes, Requests, Down
<1>7. Provisions'
  <2>1. \A d \in Conn \ {c} : conn[d].pc = "provisioning" => conn[d].box # b
    BY <1>1 DEF IInv, Provisions, b
  <2> QED
    BY <1>1, <1>3, <1>5, <2>1 DEF IInv, Provisions
<1>8. Services'
  BY <1>1, <1>2, <1>3, <1>5 DEF IInv, Services, Settled
<1>9. Boxes'
  BY <1>1, <1>2, <1>3, <1>5 DEF IInv, DaemonTypes, Boxes, Settled
<1>10. TrackedRuns'
  BY <1>1, <1>2, <1>3, <1>5 DEF IInv, DaemonTypes, TrackedRuns, serves
<1>11. OnlyFaultsLeak'
  <2> SUFFICES ASSUME NEW x \in Box, container'[x] = "running", x \notin faulty'
               PROVE  InHand(x)'
    BY DEF OnlyFaultsLeak
  <2>1. x # b /\ container[x] = "running" /\ x \notin faulty
    BY <1>3
  <2>2. InHand(x)
    BY <1>2, <2>1 DEF IInv, OnlyFaultsLeak
  <2>3. \A d \in Conn : conn[d].box = x => conn'[d] = conn[d]
    BY <1>5, <2>1 DEF b
  <2> QED
    BY <1>1, <2>2, <2>3 DEF InHand
<1> QED
  BY <1>4, <1>6, <1>7, <1>8, <1>9, <1>10, <1>11 DEF IInv

\* The destroyed box leaves the map.
LEMMA ForgetStep == ASSUME IInv, NEW c \in Conn, Forget(c) PROVE IInv'
<1>1. /\ conn[c].pc = "forget"
      /\ tracked' = tracked \ {conn[c].box} /\ idle' = idle \ {conn[c].box}
      /\ UNCHANGED <<up, owner, container, condemned, faulty>>
  BY DEF Forget, serves
<1>2. conn[c].box \in Box /\ (container[conn[c].box] # "running" \/ conn[c].box \in faulty)
  BY <1>1 DEF IInv, Services
<1>3. /\ TurnsOK' /\ ConnTypes'
      /\ \A d \in Conn : conn'[d] = IF d = c THEN FreeConn ELSE conn[d]
  BY <1>2, AnswerKeeps DEF IInv, Forget
<1>4. DaemonTypes'
  BY <1>1 DEF IInv, DaemonTypes
<1>5. Requests' /\ Provisions' /\ Services' /\ Down'
  BY <1>1, <1>3 DEF IInv, Requests, Provisions, Services, Settled, Down, FreeConn
<1>6. Boxes'
  BY <1>1, <1>3 DEF IInv, Boxes, Settled, FreeConn
<1>7. TrackedRuns'
  BY <1>1, <1>3 DEF IInv, TrackedRuns, serves, FreeConn
<1>8. OnlyFaultsLeak'
  BY <1>1, <1>2, <1>3 DEF IInv, OnlyFaultsLeak, InHand, FreeConn
<1> QED
  BY <1>3, <1>4, <1>5, <1>6, <1>7, <1>8 DEF IInv

\* Every step of a connection task keeps the invariant.
LEMMA ServeStep == ASSUME IInv, NEW c \in Conn, Serve(c) PROVE IInv'
  BY ReuseStep, ProvisionStep, ProvisionedStep, ProvisionFailsStep, RequireStep,
     FileRequestStep, RunCommandStep, DestroyTimedOutStep, ForgetStep DEF Serve

\* Which boxes count as idle matters only to the types.
LEMMA IdleStep ==
    ASSUME IInv, (\E u \in User : Touch(u)) \/ (\E b \in Box : GrowIdle(b))
    PROVE  IInv'
<1>1. UNCHANGED <<up, owner, container, tracked, condemned, conn, turn, last, faulty>>
  BY DEF Touch, GrowIdle
<1>2. idle' \subseteq tracked
  BY DEF Touch, GrowIdle, IInv, DaemonTypes
<1>3. DaemonTypes'
  BY <1>1, <1>2 DEF IInv, DaemonTypes
<1> QED
  BY <1>1, <1>3 DEF IInv, ConnTypes, TurnsOK, TurnTypes, Requests, Provisions, Services, Boxes,
     Settled, Down, TrackedRuns, OnlyFaultsLeak, InHand, serves

\* The swept boxes pass from the map to the sweeper.
LEMMA SweepStep == ASSUME IInv, Sweep PROVE IInv'
<1>1. /\ up /\ condemned = {}
      /\ tracked' = tracked \ idle /\ condemned' = idle /\ idle' = {}
      /\ UNCHANGED <<up, owner, container, conn, turn, last, faulty>>
  BY DEF Sweep
<1>2. DaemonTypes'
  BY <1>1 DEF IInv, DaemonTypes
<1>3. tracked' \cup condemned' = tracked \cup condemned
  BY <1>1 DEF IInv, DaemonTypes
<1>4. ConnTypes' /\ TurnsOK' /\ Requests' /\ Services' /\ Down'
  BY <1>1 DEF IInv, ConnTypes, TurnsOK, TurnTypes, Requests, Services, Settled, Down
<1>5. Provisions' /\ Boxes'
  BY <1>1, <1>3 DEF IInv, Provisions, Boxes, Settled
<1>6. TrackedRuns' /\ OnlyFaultsLeak'
  BY <1>1, <1>3 DEF IInv, TrackedRuns, OnlyFaultsLeak, InHand, serves
<1> QED
  BY <1>2, <1>4, <1>5, <1>6 DEF IInv

\* The sweeper destroys a box that no longer is in the map.
LEMMA ReapStep == ASSUME IInv, Reap PROVE IInv'
<1>1. PICK b \in condemned : condemned' = condemned \ {b} /\ Remove(b)
  BY DEF Reap
<1>2. UNCHANGED <<up, owner, tracked, idle, conn, turn, last>>
  BY DEF Reap
<1>3. /\ b \in Box /\ Settled(b) /\ b \notin tracked
      /\ \A d \in Conn : conn[d].pc = "provisioning" => conn[d].box # b
  BY DEF IInv, DaemonTypes, Boxes, Provisions
<1>4. /\ container' \in [Box -> {"none", "requested", "running", "gone"}]
      /\ \A x \in Box : x # b => container'[x] = container[x]
      /\ container'[b] \in {"running", "gone"}
      /\ container'[b] = "gone" \/ b \in faulty'
      /\ faulty \subseteq faulty' /\ faulty' \subseteq Box
  BY <1>1, <1>3, RemoveGone DEF IInv
<1>5. DaemonTypes' /\ ConnTypes' /\ TurnsOK' /\ Requests' /\ Down'
  BY <1>1, <1>2, <1>4 DEF IInv, DaemonTypes, ConnTypes, TurnsOK, TurnTypes, Requests, Down
<1>6. Provisions'
  BY <1>1, <1>2, <1>3, <1>4 DEF IInv, Provisions
<1>7. Services'
  BY <1>2, <1>3, <1>4 DEF IInv, Services, Settled
<1>8. Boxes'
  BY <1>1, <1>2, <1>3, <1>4 DEF IInv, DaemonTypes, Boxes, Settled
<1>9. TrackedRuns'
  BY <1>2, <1>3, <1>4 DEF IInv, DaemonTypes, TrackedRuns, serves
<1>10. OnlyFaultsLeak'
  <2> SUFFICES ASSUME up, NEW x \in Box, container'[x] = "running", x \notin faulty'
               PROVE  InHand(x)'
    BY <1>2 DEF OnlyFaultsLeak
  <2>1. x # b /\ container[x] = "running" /\ x \notin faulty
    BY <1>4
  <2>2. InHand(x)
    BY <2>1 DEF IInv, OnlyFaultsLeak
  <2> QED
    BY <1>1, <1>2, <2>1, <2>2 DEF InHand
<1> QED
  BY <1>5, <1>6, <1>7, <1>8, <1>9, <1>10 DEF IInv

\* A late container is in the hands of the task that waits for it, or a fault's.
LEMMA DockerRunsStep == ASSUME IInv, NEW b \in Box, DockerRuns(b) PROVE IInv'
<1>1. /\ container[b] = "requested" /\ container' = [container EXCEPT ![b] = "running"]
      /\ UNCHANGED <<up, owner, tracked, idle, condemned, conn, turn, last, faulty>>
  BY DEF DockerRuns
<1>2. /\ DaemonTypes' /\ ConnTypes' /\ TurnsOK' /\ Requests' /\ Down'
      /\ \A x \in Box : container'[x] = IF x = b THEN "running" ELSE container[x]
  BY <1>1 DEF IInv, DaemonTypes, ConnTypes, TurnsOK, TurnTypes, Requests, Down
<1>3. owner[b] # None /\ b \notin tracked \cup condemned /\ (b \in faulty \/ InHand(b))
  BY <1>1 DEF IInv, Boxes, Settled, InHand
<1>4. Provisions'
  BY <1>1, <1>2 DEF IInv, Provisions
<1>5. Services'
  BY <1>1, <1>2 DEF IInv, Services, Settled
<1>6. Boxes'
  BY <1>1, <1>2, <1>3 DEF IInv, DaemonTypes, Boxes, Settled
<1>7. TrackedRuns'
  BY <1>1, <1>2, <1>3 DEF IInv, DaemonTypes, TrackedRuns, serves
<1>8. OnlyFaultsLeak'
  BY <1>1, <1>2, <1>3 DEF IInv, OnlyFaultsLeak, InHand
<1> QED
  BY <1>2, <1>4, <1>5, <1>6, <1>7, <1>8 DEF IInv

\* A stopped daemon holds nothing; what Docker still starts is a fault's.
LEMMA StopStep == ASSUME IInv, Stop PROVE IInv'
<1>1. /\ up' = FALSE /\ tracked' = {} /\ idle' = {} /\ condemned' = {}
      /\ conn' = [c \in Conn |-> FreeConn]
      /\ faulty' = faulty \cup {b \in Box : container[b] = "requested"}
      /\ UNCHANGED <<owner, container, turn, last>>
  BY DEF Stop
<1>2. ConnTypes' /\ \A d \in Conn : conn'[d].pc = "free"
  BY <1>1 DEF ConnTypes, ConnRecord, FreeConn
<1>3. DaemonTypes' /\ TurnsOK'
  BY <1>1 DEF IInv, DaemonTypes, TurnsOK, TurnTypes
<1>4. Requests' /\ Provisions' /\ Services' /\ Boxes' /\ Down'
  BY <1>1, <1>2 DEF IInv, Requests, Provisions, Services, Boxes, Down
<1>5. TrackedRuns' /\ OnlyFaultsLeak'
  BY <1>1 DEF TrackedRuns, OnlyFaultsLeak
<1> QED
  BY <1>2, <1>3, <1>4, <1>5 DEF IInv

\* The restarted daemon removes what runs, but for what Docker keeps.
LEMMA RecoverStep == ASSUME IInv, Recover PROVE IInv'
<1>1. PICK missed \in SUBSET {b \in Box : container[b] = "running"} :
          /\ faulty' = faulty \cup missed
          /\ container' = [b \in Box |-> IF container[b] = "running" /\ b \notin missed
                                           THEN "gone" ELSE container[b]]
  BY DEF Recover
<1>2. up' = TRUE /\ ~up /\ UNCHANGED <<owner, tracked, idle, condemned, conn, turn, last>>
  BY DEF Recover
<1>3. tracked = {} /\ condemned = {} /\ \A c \in Conn : conn[c].pc = "free"
  BY <1>2 DEF IInv, Down
<1>4. DaemonTypes' /\ ConnTypes' /\ TurnsOK'
  BY <1>1, <1>2 DEF IInv, DaemonTypes, ConnTypes, TurnsOK, TurnTypes
<1>5. Requests' /\ Provisions' /\ Services' /\ Down' /\ TrackedRuns'
  BY <1>2, <1>3 DEF IInv, Requests, Provisions, Services, Down, TrackedRuns
<1>6. Boxes'
  BY <1>1, <1>2, <1>3 DEF IInv, Boxes, Settled
<1>7. OnlyFaultsLeak'
  BY <1>1 DEF OnlyFaultsLeak
<1> QED
  BY <1>4, <1>5, <1>6, <1>7 DEF IInv

\* Who waits for an answer is nothing to the daemon.
LEMMA ClientsOnly ==
    ASSUME IInv, TurnsOK', ConnTypes', UNCHANGED <<up, daemon, faulty>>,
           \A d \in Conn : /\ conn'[d].pc = conn[d].pc
                           /\ conn[d].pc # "free" =>
                                 conn'[d].box = conn[d].box /\ conn'[d].user = conn[d].user
    PROVE  IInv'
<1>1. DaemonTypes' /\ Requests' /\ Services' /\ Down'
  BY DEF IInv, daemon, DaemonTypes, Requests, Services, Settled, Down
<1>2. Provisions'
  BY DEF IInv, daemon, Provisions
<1>3. Boxes'
  BY DEF IInv, daemon, Boxes, Settled
<1>4. TrackedRuns' /\ OnlyFaultsLeak'
  BY DEF IInv, daemon, TrackedRuns, OnlyFaultsLeak, InHand, serves
<1> QED
  BY <1>1, <1>2, <1>3, <1>4 DEF IInv

\* A tool call begins.
LEMMA CallStep == ASSUME IInv, NEW t \in Turn, NEW u \in User, Call(t, u) PROVE IInv'
<1> DEFINE r == [turn[t] EXCEPT !.pc = IF turn[t].box = None THEN "start" ELSE "op",
                                !.user = u, !.noticed = FALSE]
<1>1. turn[t] \in TurnRecord /\ last[t] \in Box \cup {None}
  BY DEF IInv, TurnsOK, TurnTypes
<1>2. r \in TurnRecord /\ r.user = u
  BY <1>1 DEF TurnRecord
<1>3. turn' = [turn EXCEPT ![t] = r] /\ last' = [last EXCEPT ![t] = last[t]]
  BY DEF Call, IInv, TurnsOK, TurnTypes
<1> HIDE DEF r
<1>4. TurnsOK'
  BY <1>1, <1>2, <1>3, TurnChanges DEF IInv
<1>5. ConnTypes' /\ conn' = conn /\ UNCHANGED <<up, daemon, faulty>>
  BY DEF Call, IInv, ConnTypes
<1> QED
  BY <1>4, <1>5, ClientsOnly

\* A request arrives at a free connection, or never does.
LEMMA SendStep == ASSUME IInv, NEW t \in Turn, Send(t) PROVE IInv'
<1>1. /\ UNCHANGED <<up, daemon, faulty>>
      /\ turn[t].pc # "ready" /\ turn[t] \in TurnRecord /\ turn[t].user \in User
      /\ last[t] \in Box \cup {None}
  BY DEF Send, IInv, TurnsOK, TurnTypes
<1>2. CASE Take(t, "error", None) /\ UNCHANGED conn
  <2>1. TurnsOK' /\ ConnTypes'
    BY <1>2, TakeKeeps DEF IInv, ConnTypes
  <2> QED
    BY <1>1, <1>2, <2>1, ClientsOnly
<1>3. ASSUME up, NEW c \in Conn, conn[c].pc = "free", UNCHANGED last,
             turn' = [turn EXCEPT ![t].sent = TRUE],
             conn' = [conn EXCEPT ![c] =
               [pc |-> "arrived", box |-> turn[t].box, user |-> turn[t].user, client |-> t,
                method |-> IF turn[t].pc = "start" THEN "start" ELSE "call"]]
      PROVE  IInv'
  <2> DEFINE r == [turn[t] EXCEPT !.sent = TRUE]
             k == [pc |-> "arrived", box |-> turn[t].box, user |-> turn[t].user, client |-> t,
                   method |-> IF turn[t].pc = "start" THEN "start" ELSE "call"]
  <2>1. r \in TurnRecord /\ r.user \in User
    BY <1>1 DEF TurnRecord
  <2>2. turn' = [turn EXCEPT ![t] = r] /\ last' = [last EXCEPT ![t] = last[t]]
    BY <1>3 DEF IInv, TurnsOK, TurnTypes
  <2>3. k \in ConnRecord /\ k.pc = "arrived" /\ k.user \in User
    BY <1>1 DEF ConnRecord, TurnRecord
  <2>4. conn' = [conn EXCEPT ![c] = k]
    BY <1>3
  <2> HIDE DEF r, k
  <2>5. TurnsOK'
    BY <1>1, <2>1, <2>2, TurnChanges DEF IInv
  <2>6. ConnTypes' /\ \A d \in Conn : conn'[d] = IF d = c THEN k ELSE conn[d]
    BY <2>3, <2>4, ConnChanges DEF IInv
  <2>7. DaemonTypes' /\ Requests' /\ Provisions' /\ Services' /\ Down'
    BY <1>1, <1>3, <2>3, <2>6 DEF IInv, daemon, DaemonTypes, Requests, Provisions, Services, Settled, Down
  <2>8. Boxes'
    BY <1>1, <1>3, <2>6 DEF IInv, daemon, Boxes, Settled
  <2>9. TrackedRuns' /\ OnlyFaultsLeak'
    BY <1>1, <1>3, <2>6 DEF IInv, daemon, TrackedRuns, OnlyFaultsLeak, InHand, serves
  <2> QED
    BY <2>5, <2>6, <2>7, <2>8, <2>9 DEF IInv
<1> QED
  BY <1>2, <1>3 DEF Send, serves

\* A client that gives up leaves its task running.
LEMMA GiveUpStep == ASSUME IInv, NEW t \in Turn, GiveUp(t) PROVE IInv'
<1>1. TurnsOK'
  BY TakeKeeps DEF GiveUp, IInv
<1>2. \A d \in Conn : conn'[d] = IF conn[d].client = t THEN [conn[d] EXCEPT !.client = None]
                                 ELSE conn[d]
  BY DEF GiveUp
<1>3. \A d \in Conn : conn[d] \in ConnRecord /\ [conn[d] EXCEPT !.client = None] \in ConnRecord
  BY DEF IInv, ConnTypes, ConnRecord
<1>4. ConnTypes'
  BY <1>2, <1>3 DEF GiveUp, ConnTypes
<1>5. \A d \in Conn : /\ conn'[d].pc = conn[d].pc
                      /\ conn'[d].box = conn[d].box /\ conn'[d].user = conn[d].user
  BY <1>2, <1>3 DEF ConnRecord
<1> QED
  BY <1>1, <1>4, <1>5, ClientsOnly DEF GiveUp

\* The next turn of the slot has nothing.
LEMMA EndTurnStep == ASSUME IInv, NEW t \in Turn, EndTurn(t) PROVE IInv'
<1>1. NewTurn \in TurnRecord /\ NewTurn.pc = "ready"
  BY DEF NewTurn, TurnRecord
<1>2. TurnsOK'
  BY <1>1, TurnChanges DEF EndTurn, IInv
<1>3. ConnTypes' /\ conn' = conn /\ UNCHANGED <<up, daemon, faulty>>
  BY DEF EndTurn, IInv, ConnTypes
<1> QED
  BY <1>2, <1>3, ClientsOnly

\* A restarted bot has no turns; the tasks it left answer nobody.
LEMMA BotRestartsStep == ASSUME IInv, BotRestarts PROVE IInv'
<1>1. TurnsOK'
  BY DEF BotRestarts, TurnsOK, TurnTypes, TurnRecord, NewTurn
<1>2. \A d \in Conn : conn'[d] = IF conn[d].pc = "free" THEN FreeConn
                                 ELSE [conn[d] EXCEPT !.client = None]
  BY DEF BotRestarts, serves
<1>3. \A d \in Conn : conn[d] \in ConnRecord /\ [conn[d] EXCEPT !.client = None] \in ConnRecord
  BY DEF IInv, ConnTypes, ConnRecord
<1>4. FreeConn \in ConnRecord /\ FreeConn.pc = "free"
  BY DEF FreeConn, ConnRecord
<1>5. ConnTypes'
  BY <1>2, <1>3, <1>4 DEF BotRestarts, ConnTypes
<1>6. \A d \in Conn : /\ conn'[d].pc = conn[d].pc
                      /\ conn[d].pc # "free" =>
                            conn'[d].box = conn[d].box /\ conn'[d].user = conn[d].user
  <2> TAKE d \in Conn
  <2>1. CASE conn[d].pc = "free"
    BY <1>2, <1>4, <2>1
  <2>2. CASE conn[d].pc # "free"
    BY <1>2, <1>3, <2>2 DEF ConnRecord
  <2> QED
    BY <2>1, <2>2
<1> QED
  BY <1>1, <1>5, <1>6, ClientsOnly DEF BotRestarts

\* Every step of the daemon, its clients and Docker keeps the invariant.
LEMMA NextInv == IInv /\ [Next]_vars => IInv'
<1> SUFFICES ASSUME IInv, [Next]_vars PROVE IInv'
  OBVIOUS
<1>1. CASE \E c \in Conn : Serve(c)
  BY <1>1, ServeStep
<1>2. CASE \E t \in Turn : Client(t) \/ EndTurn(t) \/ \E u \in User : Call(t, u)
  BY <1>2, SendStep, GiveUpStep, EndTurnStep, CallStep DEF Client
<1>3. CASE \/ \E u \in User : Touch(u)
           \/ \E b \in Box : GrowIdle(b)
  BY <1>3, IdleStep
<1>4. CASE \E b \in Box : DockerRuns(b)
  BY <1>4, DockerRunsStep
<1>5. CASE Sweep \/ Reap \/ Stop \/ Recover \/ BotRestarts
  BY <1>5, SweepStep, ReapStep, StopStep, RecoverStep, BotRestartsStep
<1>6. CASE UNCHANGED vars
  <2>1. TurnsOK' /\ ConnTypes' /\ conn' = conn /\ UNCHANGED <<up, daemon, faulty>>
    BY <1>6 DEF vars, IInv, TurnsOK, TurnTypes, ConnTypes
  <2> QED
    BY <2>1, ClientsOnly
<1> QED
  BY <1>1, <1>2, <1>3, <1>4, <1>5, <1>6 DEF Next

\* The strengthened invariant holds in every state the sandbox can reach.
THEOREM Invariance == Spec => []IInv
  BY InitInv, NextInv, PTL DEF Spec
-----------------------------------------------------------------------------
\* The daemon's map, its tasks and the turns' handles keep their types.
THEOREM TypeCorrect == Spec => []TypeOK
<1>1. IInv => TypeOK
  BY DEF IInv, TypeOK, TurnsOK
<1> QED
  BY <1>1, Invariance, PTL

\* No box the daemon would hand out or serve is dead, but for the window of a
\* timed out command (server.rs, handle_run: destroy before forget).
THEOREM HandedOutAlive == Spec => []TrackedRuns
<1>1. IInv => TrackedRuns
  BY DEF IInv
<1> QED
  BY <1>1, Invariance, PTL

\* With the daemon up, a running container is accounted for by the map, a task
\* or the sweeper, however many clients gave up and however starts overlap.
THEOREM NothingLeaks == Spec => []OnlyFaultsLeak
<1>1. IInv => OnlyFaultsLeak
  BY DEF IInv
<1> QED
  BY <1>1, Invariance, PTL
-----------------------------------------------------------------------------
(* The notice.  A box that has left the map never comes back to it: the     *)
(* workspace a recycled turn gets is not the one it had.                    *)

\* The boxes that were handed out: their docker run is over.
Known == {b \in Box : /\ owner[b] # None
                      /\ \A c \in Conn : conn[c].pc = "provisioning" => conn[c].box # b}

\* The request that turn t waits for is the one it sent, and the only one.
Linked ==
    \A c \in Conn, t \in Turn : conn[c].client = t =>
       /\ conn[c].pc # "free" /\ conn[c].method \in {"start", "call"} /\ turn[t].sent
       /\ \A d \in Conn : conn[d].client = t => d = c
       /\ conn[c].pc = "provisioning" => conn[c].method = "start"
       /\ conn[c].pc \in {"exec", "destroy", "forget"} => conn[c].method = "call"
       /\ conn[c].method = "start" => turn[t].pc = "start"
       /\ conn[c].method = "call" => turn[t].pc \in {"copy", "op"} /\ conn[c].box = turn[t].box

\* What a turn has seen is its box, or one that has left the map; a turn that
\* attached again has another box than the one it has seen.
Sees(t) ==
    /\ turn[t].box # None => turn[t].box \in Known
    /\ last[t] # None => last[t] \in Known /\ (last[t] = turn[t].box \/ last[t] \notin tracked)
    /\ turn[t].pc = "start" => turn[t].box = None
    /\ turn[t].pc \in {"copy", "op"} => turn[t].box # None
    /\ turn[t].pc = "ready" => ~turn[t].retry
    /\ turn[t].retry => turn[t].box # last[t] \/ turn[t].box = None

NInv == IInv /\ Linked /\ \A t \in Turn : Sees(t)

\* What a step leaves: a known box stays known, and one that left the map
\* stays out of it.
NoReturn == \A b \in Known : b \in Known' /\ (b \notin tracked => b \notin tracked')

\* The notice comes with another box than the one that was seen.
Told == \A t \in Turn : ~turn[t].noticed /\ turn'[t].noticed => last'[t] # last[t]

\* Ids are fresh, so only the task that got one enters it into the map.
LEMMA NoReturnStep == ASSUME IInv, [Next]_vars PROVE NoReturn
<1>1. ASSUME UNCHANGED owner, tracked' \subseteq tracked,
             \A c \in Conn : conn'[c].pc = "provisioning" =>
                conn[c].pc = "provisioning" /\ conn'[c].box = conn[c].box
      PROVE  NoReturn
  BY <1>1 DEF NoReturn, Known
<1>2. ASSUME NEW c \in Conn, NEW kind, NEW b \in Box \cup {None}, Answer(c, kind, b),
             UNCHANGED owner, tracked' \subseteq tracked
      PROVE  NoReturn
  <2>1. \A d \in Conn : conn'[d] = IF d = c THEN FreeConn ELSE conn[d]
    BY <1>2, AnswerKeeps DEF IInv
  <2> QED
    BY <1>1, <1>2, <2>1 DEF FreeConn
<1>3. ASSUME NEW c \in Conn, NEW pc \in {"exec", "destroy", "forget"}, Advance(c, pc),
             UNCHANGED <<owner, tracked>>
      PROVE  NoReturn
  <2>1. /\ \A d \in Conn : conn'[d] = IF d = c THEN [conn[c] EXCEPT !.pc = pc] ELSE conn[d]
        /\ conn[c] \in ConnRecord
    BY <1>3, AdvanceKeeps DEF IInv, ConnTypes
  <2>2. conn'[c].pc = pc
    BY <2>1 DEF ConnRecord
  <2> QED
    BY <1>1, <1>3, <2>1, <2>2
<1>4. ASSUME \A c \in Conn : conn'[c].pc = "provisioning" =>
                conn[c].pc = "provisioning" /\ conn'[c].box = conn[c].box,
             UNCHANGED daemon
      PROVE  NoReturn
  BY <1>1, <1>4 DEF daemon
<1>5. ASSUME NEW c \in Conn, Serve(c) PROVE NoReturn
  <2>1. conn[c].box \in Box \cup {None} /\ tracked \subseteq Box
    BY DEF IInv, ConnTypes, ConnRecord, DaemonTypes
  <2>2. CASE Reuse(c)
    BY <2>1, <2>2, <1>2 DEF Reuse, SessionBoxes
  <2>3. CASE Provision(c)
    <3>1. PICK b \in Box : /\ owner[b] = None
                           /\ owner' = [owner EXCEPT ![b] = conn[c].user]
                           /\ conn' = [conn EXCEPT ![c].pc = "provisioning", ![c].box = b]
      BY <2>3 DEF Provision
    <3>2. /\ \A d \in Conn \ {c} : conn'[d] = conn[d]
          /\ conn'[c].pc = "provisioning" /\ conn'[c].box = b
          /\ \A x \in Box \ {b} : owner'[x] = owner[x]
      BY <3>1 DEF IInv, ConnTypes, ConnRecord, DaemonTypes
    <3>3. ASSUME NEW x \in Known PROVE x \in Known' /\ x # b
      <4>1. x # b
        BY <3>1, <3>3 DEF Known
      <4>2. ASSUME NEW d \in Conn, conn'[d].pc = "provisioning" PROVE conn'[d].box # x
        BY <3>2, <3>3, <4>1, <4>2 DEF Known
      <4> QED
        BY <3>2, <3>3, <4>1, <4>2 DEF Known
    <3> QED
      BY <2>3, <3>3 DEF NoReturn, Provision
  <2>4. CASE Provisioned(c)
    <3>1. /\ conn[c].pc = "provisioning" /\ tracked' = tracked \cup {conn[c].box}
          /\ UNCHANGED owner
      BY <2>4 DEF Provisioned, serves
    <3>2. \A d \in Conn : conn'[d] = IF d = c THEN FreeConn ELSE conn[d]
      BY <2>1, <2>4, AnswerKeeps DEF Provisioned, IInv
    <3> QED
      BY <3>1, <3>2 DEF NoReturn, Known, FreeConn
  <2>5. CASE ProvisionFails(c)
    BY <2>5, <1>2 DEF ProvisionFails, daemon
  <2>6. CASE Require(c)
    BY <2>1, <2>6, <1>2, <1>3 DEF Require
  <2>7. CASE FileRequest(c) \/ RunCommand(c)
    BY <2>1, <2>7, <1>2, <1>3 DEF FileRequest, RunCommand, daemon
  <2>8. CASE DestroyTimedOut(c)
    BY <2>8, <1>3 DEF DestroyTimedOut
  <2>9. CASE Forget(c)
    BY <2>1, <2>9, <1>2 DEF Forget
  <2> QED
    BY <1>5, <2>2, <2>3, <2>4, <2>5, <2>6, <2>7, <2>8, <2>9 DEF Serve
<1>6. ASSUME NEW t \in Turn, Client(t) PROVE NoReturn
  <2>1. CASE Send(t)
    <3>1. CASE UNCHANGED conn
      BY <1>4, <2>1, <3>1 DEF Send
    <3>2. ASSUME NEW c \in Conn, NEW k, k.pc = "arrived", conn' = [conn EXCEPT ![c] = k]
          PROVE  NoReturn
      BY <1>4, <2>1, <3>2 DEF Send, IInv, ConnTypes
    <3> QED
      BY <2>1, <3>1, <3>2 DEF Send
  <2>2. CASE GiveUp(t)
    <3>1. \A d \in Conn : conn'[d] = IF conn[d].client = t THEN [conn[d] EXCEPT !.client = None]
                                     ELSE conn[d]
      BY <2>2 DEF GiveUp
    <3>2. \A d \in Conn : conn'[d].pc = conn[d].pc /\ conn'[d].box = conn[d].box
      BY <3>1 DEF IInv, ConnTypes, ConnRecord
    <3> QED
      BY <1>4, <2>2, <3>2 DEF GiveUp
  <2> QED
    BY <1>6, <2>1, <2>2 DEF Client
<1>7. ASSUME NEW t \in Turn, EndTurn(t) \/ \E u \in User : Call(t, u) PROVE NoReturn
  BY <1>4, <1>7 DEF EndTurn, Call
<1>8. CASE \/ \E u \in User : Touch(u)
           \/ \E b \in Box : GrowIdle(b) \/ DockerRuns(b)
           \/ Sweep \/ Reap \/ Recover
  BY <1>1, <1>8 DEF Touch, GrowIdle, DockerRuns, Sweep, Reap, Recover
<1>9. CASE Stop
  BY <1>1, <1>9 DEF Stop, FreeConn
<1>10. CASE BotRestarts
  <2>1. \A d \in Conn : conn'[d] = IF conn[d].pc = "free" THEN FreeConn
                                   ELSE [conn[d] EXCEPT !.client = None]
    BY <1>10 DEF BotRestarts, serves
  <2>2. ASSUME NEW d \in Conn, conn'[d].pc = "provisioning"
        PROVE  conn[d].pc = "provisioning" /\ conn'[d].box = conn[d].box
    <3>1. FreeConn.pc = "free" /\ conn[d] \in ConnRecord
      BY DEF IInv, ConnTypes, FreeConn
    <3>2. conn'[d] = [conn[d] EXCEPT !.client = None]
      BY <2>1, <2>2, <3>1
    <3> QED
      BY <2>2, <3>1, <3>2 DEF ConnRecord
  <2> QED
    BY <1>4, <1>10, <2>2 DEF BotRestarts
<1>11. CASE UNCHANGED vars
  BY <1>1, <1>11 DEF vars, daemon
<1> QED
  BY <1>5, <1>6, <1>7, <1>8, <1>9, <1>10, <1>11 DEF Next

\* A turn that is left alone sees what it saw.
LEMMA SeesStays ==
    ASSUME TurnsOK, NoReturn, NEW t \in Turn, turn'[t] = turn[t], last'[t] = last[t], Sees(t)
    PROVE  Sees(t)'
<1>1. turn[t].box \in Box \cup {None} /\ last[t] \in Box \cup {None}
  BY DEF TurnsOK, TurnTypes, TurnRecord
<1> QED
  BY <1>1 DEF Sees, NoReturn

\* What an answer, an error or a timeout makes of a turn.
LEMMA TakeSees ==
    ASSUME TurnsOK, NoReturn, NEW t \in Turn, NEW kind, NEW b, Take(t, kind, b), Sees(t),
           turn[t].pc = "start" /\ kind = "ok" => b \in Box \cap Known' /\ b # last[t],
           turn[t].pc = "op" /\ kind = "unknown" => turn[t].box \notin tracked
    PROVE  /\ Sees(t)' /\ (~turn[t].noticed /\ turn'[t].noticed => last'[t] # last[t])
           /\ \A u \in Turn \ {t} : turn'[u] = turn[u] /\ last'[u] = last[u]
<1>1. turn[t] \in TurnRecord /\ last[t] \in Box \cup {None} /\ turn[t].box \in Box \cup {None}
  BY DEF TurnsOK, TurnTypes, TurnRecord
<1> DEFINE Other == \A u \in Turn \ {t} : turn'[u] = turn[u] /\ last'[u] = last[u]
           OK == Sees(t)' /\ (~turn[t].noticed /\ turn'[t].noticed => last'[t] # last[t]) /\ Other
<1>2. ASSUME NEW pc \in {"start", "copy", "op"}, NEW x \in Box \cup {None}, Goto(t, pc, x)
      PROVE  /\ Other /\ last'[t] = last[t]
             /\ turn'[t].pc = pc /\ turn'[t].box = x
             /\ turn'[t].retry = turn[t].retry /\ turn'[t].noticed = turn[t].noticed
  BY <1>1, <1>2 DEF Goto, TurnsOK, TurnTypes, TurnRecord
<1>3. ASSUME NEW n \in BOOLEAN, NEW x \in Box \cup {None}, Reply(t, n, x)
      PROVE  /\ Other /\ last'[t] = x
             /\ turn'[t].pc = "ready" /\ turn'[t].box = turn[t].box
             /\ turn'[t].retry = FALSE /\ turn'[t].noticed = n
  BY <1>1, <1>3 DEF Reply, TurnsOK, TurnTypes, TurnRecord
<1>4. ASSUME Reattach(t)
      PROVE  /\ Other /\ last'[t] = last[t]
             /\ turn'[t].pc = "start" /\ turn'[t].box = None
             /\ turn'[t].retry = TRUE /\ turn'[t].noticed = turn[t].noticed
  BY <1>1, <1>4 DEF Reattach, TurnsOK, TurnTypes, TurnRecord
<1> SUFFICES OK
  OBVIOUS
<1> HIDE DEF Other
<1>5. ASSUME Reply(t, FALSE, last[t]) PROVE OK
  BY <1>1, <1>3, <1>5 DEF Sees, NoReturn
<1>6. CASE turn[t].pc = "start" /\ TakeStart(t, kind, b)
  <2>1. CASE kind = "ok"
    <3>1. /\ b \in Box \cap Known' /\ b # last[t] /\ Goto(t, "copy", b) /\ turn[t].box = None
          /\ last[t] # None => last[t] \in Known' /\ last[t] \notin tracked'
      BY <1>6, <2>1 DEF TakeStart, Sees, NoReturn
    <3> QED
      BY <1>1, <1>2, <3>1, SandboxAssumption DEF Sees
  <2> QED
    BY <1>5, <1>6, <2>1 DEF TakeStart
<1>7. CASE turn[t].pc = "copy" /\ TakeCopy(t)
  BY <1>1, <1>2, <1>7 DEF TakeCopy, Sees, NoReturn
<1>8. CASE turn[t].pc = "op" /\ TakeOp(t, kind)
  <2>1. turn[t].box # None /\ (turn[t].retry => turn[t].box # last[t]) /\ turn[t].retry \in BOOLEAN
    BY <1>1, <1>8 DEF Sees, TurnRecord
  <2>2. CASE kind = "unknown" /\ Reattach(t)
    BY <1>1, <1>4, <1>8, <2>2 DEF Sees, NoReturn
  <2>3. CASE Reply(t, FALSE, None)
    BY <1>1, <1>3, <2>3 DEF Sees, NoReturn
  <2>4. CASE Reply(t, FALSE, turn[t].box)
    BY <1>1, <1>3, <2>4 DEF Sees, NoReturn
  <2>5. CASE turn[t].retry /\ Reply(t, TRUE, turn[t].box)
    BY <1>1, <1>3, <2>1, <2>5 DEF Sees, NoReturn
  <2> QED
    BY <1>5, <1>8, <2>2, <2>3, <2>4, <2>5 DEF TakeOp
<1> QED
  BY <1>6, <1>7, <1>8 DEF Take

\* An answer goes to the turn that waits for it, and to nobody else.
LEMMA AnswerSees ==
    ASSUME NInv, NoReturn, NEW c \in Conn, NEW kind, NEW b \in Box \cup {None}, Answer(c, kind, b),
           conn[c].pc # "free",
           kind = "ok" /\ conn[c].method = "start" =>
              /\ b \in Box \cap Known'
              /\ \A t \in Turn : conn[c].client = t /\ turn[t].pc = "start" => b # last[t],
           kind = "unknown" => conn[c].method = "call" /\ conn[c].box \notin tracked
    PROVE  Linked' /\ (\A t \in Turn : Sees(t)') /\ Told
<1>1. /\ \A d \in Conn : conn'[d] = IF d = c THEN FreeConn ELSE conn[d]
      /\ conn[c] \in ConnRecord /\ TurnsOK
  BY AnswerKeeps DEF NInv, IInv, ConnTypes
<1>2. None \notin Turn /\ FreeConn.client = None
  BY SandboxAssumption DEF FreeConn
<1>3. CASE conn[c].client = None
  <2>1. UNCHANGED <<turn, last>>
    BY <1>3 DEF Answer
  <2>2. Linked'
    BY <1>1, <1>2, <2>1 DEF NInv, Linked
  <2>3. (\A t \in Turn : Sees(t)') /\ Told
    BY <1>1, <2>1, SeesStays DEF NInv, Told
  <2> QED
    BY <2>2, <2>3
<1>4. CASE conn[c].client # None
  <2>1. PICK t \in Turn : conn[c].client = t /\ Take(t, kind, b)
    BY <1>1, <1>4 DEF Answer, ConnRecord
  <2>2. /\ turn[t].sent /\ \A d \in Conn : conn[d].client = t => d = c
        /\ conn[c].method = "start" => turn[t].pc = "start"
        /\ conn[c].method = "call" => turn[t].pc \in {"copy", "op"} /\ conn[c].box = turn[t].box
        /\ conn[c].method \in {"start", "call"}
    BY <2>1 DEF NInv, Linked
  <2>3. turn[t].pc = "start" /\ kind = "ok" => b \in Box \cap Known' /\ b # last[t]
    BY <2>1, <2>2
  <2>4. turn[t].pc = "op" /\ kind = "unknown" => turn[t].box \notin tracked
    BY <2>2
  <2>5. /\ Sees(t)' /\ (~turn[t].noticed /\ turn'[t].noticed => last'[t] # last[t])
        /\ \A u \in Turn \ {t} : turn'[u] = turn[u] /\ last'[u] = last[u]
    <3>1. TurnsOK /\ Sees(t) /\ t \in Turn
      BY <1>1, <2>1 DEF NInv
    <3> QED
      BY <3>1, <2>1, <2>3, <2>4, TakeSees
  <2>6. Linked'
    BY <1>1, <1>2, <2>1, <2>2, <2>5 DEF NInv, Linked
  <2>7. \A u \in Turn \ {t} : Sees(u)'
    BY <1>1, <2>5, SeesStays DEF NInv
  <2>8. Told
    BY <2>5 DEF Told
  <2> QED
    BY <2>5, <2>6, <2>7, <2>8
<1> QED
  BY <1>3, <1>4

\* A task that goes on, in whatever box, still serves its turn.
LEMMA AdvanceSees ==
    ASSUME NInv, NoReturn, NEW c \in Conn, NEW k \in ConnRecord, conn' = [conn EXCEPT ![c] = k],
           UNCHANGED <<turn, last>>, conn[c].pc # "free", k.pc # "free",
           k.client = conn[c].client, k.method = conn[c].method,
           k.pc = "provisioning" => k.method = "start",
           k.pc \in {"exec", "destroy", "forget"} => k.method = "call" \/ k.client = None,
           k.method = "call" => k.box = conn[c].box
    PROVE  Linked' /\ (\A t \in Turn : Sees(t)') /\ Told
<1>1. \A d \in Conn : conn'[d] = IF d = c THEN k ELSE conn[d]
  BY ConnChanges DEF NInv, IInv
<1>2. Linked'
  BY <1>1, SandboxAssumption DEF NInv, Linked
<1>3. (\A t \in Turn : Sees(t)') /\ Told
  BY SeesStays DEF NInv, IInv, Told
<1> QED
  BY <1>2, <1>3

\* The same for the steps that do no more than advance.
LEMMA GoesOnSees ==
    ASSUME NInv, NoReturn, NEW c \in Conn, NEW pc \in {"exec", "destroy", "forget"},
           Advance(c, pc), conn[c].pc # "free", conn[c].method = "call" \/ conn[c].client = None
    PROVE  Linked' /\ (\A t \in Turn : Sees(t)') /\ Told
<1> DEFINE k == [conn[c] EXCEPT !.pc = pc]
<1>1. conn[c] \in ConnRecord /\ UNCHANGED <<turn, last>> /\ conn' = [conn EXCEPT ![c] = k]
  BY DEF Advance, NInv, IInv, ConnTypes
<1>2. /\ k \in ConnRecord /\ k.pc = pc /\ k.client = conn[c].client
      /\ k.method = conn[c].method /\ k.box = conn[c].box
  BY <1>1 DEF ConnRecord
<1> HIDE DEF k
<1> QED
  BY <1>1, <1>2, AdvanceSees

\* A task in service is a call's.
LEMMA ServesCall ==
    ASSUME NInv, NEW c \in Conn, conn[c].pc \in {"exec", "destroy", "forget"}
    PROVE  conn[c].method = "call" \/ conn[c].client = None
  BY DEF NInv, Linked, IInv, ConnTypes, ConnRecord

\* The steps of the daemon's tasks.
LEMMA ServeSees ==
    ASSUME NInv, NoReturn, NEW c \in Conn, Serve(c)
    PROVE  Linked' /\ (\A t \in Turn : Sees(t)') /\ Told
<1>1. conn[c] \in ConnRecord /\ conn[c].box \in Box \cup {None}
  BY DEF NInv, IInv, ConnTypes, ConnRecord
<1>2. CASE Reuse(c)
  <2>1. PICK b \in SessionBoxes(conn[c].user) : Answer(c, "ok", b)
    BY <1>2 DEF Reuse
  <2>2. /\ conn[c].pc = "arrived" /\ conn[c].method = "start"
        /\ UNCHANGED <<owner, tracked>> /\ b \in tracked /\ b \in Box
    BY <1>2 DEF Reuse, starts, SessionBoxes, NInv, IInv, DaemonTypes
  <2>3. b \in Known
    BY <2>2 DEF Known, NInv, IInv, Boxes, Provisions
  <2>4. \A t \in Turn : turn[t].pc = "start" => b # last[t]
    BY <2>2, SandboxAssumption DEF NInv, Sees
  <2> QED
    BY <2>1, <2>2, <2>3, <2>4, AnswerSees DEF NoReturn
<1>3. CASE Provision(c)
  <2>1. PICK b \in Box : conn' = [conn EXCEPT ![c].pc = "provisioning", ![c].box = b]
    BY <1>3 DEF Provision
  <2>2. conn[c].pc = "arrived" /\ conn[c].method = "start" /\ UNCHANGED <<turn, last>>
    BY <1>3 DEF Provision, starts
  <2> DEFINE k == [conn[c] EXCEPT !.pc = "provisioning", !.box = b]
  <2>3. /\ k \in ConnRecord /\ k.pc = "provisioning" /\ k.client = conn[c].client
        /\ k.method = conn[c].method
    BY <1>1 DEF ConnRecord
  <2>4. conn' = [conn EXCEPT ![c] = k]
    BY <2>1 DEF NInv, IInv, ConnTypes
  <2> HIDE DEF k
  <2> QED
    BY <2>2, <2>3, <2>4, AdvanceSees
<1>4. CASE Provisioned(c)
  <2>1. /\ conn[c].pc = "provisioning" /\ Answer(c, "ok", conn[c].box) /\ UNCHANGED owner
    BY <1>4 DEF Provisioned, serves
  <2>2. conn[c].box \in Box /\ owner[conn[c].box] # None
    BY <2>1 DEF NInv, IInv, Provisions
  <2>3. PICK b \in Box : b = conn[c].box
    BY <2>2
  <2>4. \A d \in Conn : conn'[d] = IF d = c THEN FreeConn ELSE conn[d]
    BY <1>1, <2>1, AnswerKeeps DEF NInv, IInv
  <2>5. \A d \in Conn \ {c} : conn[d].pc = "provisioning" => conn[d].box # b
    BY <2>1, <2>3 DEF NInv, IInv, Provisions
  <2>6. b \in Known'
    BY <2>1, <2>2, <2>3, <2>4, <2>5 DEF Known, FreeConn
  <2>7. \A t \in Turn : turn[t].pc = "start" => b # last[t]
    BY <2>1, <2>3, SandboxAssumption DEF NInv, Sees, Known
  <2> QED
    BY <2>1, <2>3, <2>6, <2>7, AnswerSees
<1>5. CASE ProvisionFails(c)
  BY <1>5, AnswerSees DEF ProvisionFails, serves, starts
<1>6. CASE Require(c)
  BY <1>1, <1>6, AnswerSees, GoesOnSees DEF Require, serves
<1>7. CASE FileRequest(c) \/ RunCommand(c)
  <2>1. conn[c].pc = "exec"
    BY <1>7 DEF FileRequest, RunCommand, serves
  <2>2. (conn[c].method = "call" \/ conn[c].client = None) /\ conn[c].box \in Box
    BY <2>1, ServesCall DEF NInv, IInv, Services
  <2>3. conn[c].box \in Known
    BY <2>1, <2>2 DEF NInv, IInv, Boxes, Services, Settled, Provisions, Known
  <2>4. conn[c].box \in Known'
    BY <1>7, <2>2, <2>3 DEF FileRequest, RunCommand, NoReturn, daemon, Known
  <2>5. ASSUME NEW kind \in {"ok", "error", "dead"}, Answer(c, kind, conn[c].box)
        PROVE  Linked' /\ (\A t \in Turn : Sees(t)') /\ Told
    <3>1. \A t \in Turn : conn[c].client = t /\ turn[t].pc = "start" => conn[c].method = "start"
      BY <2>1 DEF NInv, Linked
    <3>2. \A t \in Turn : conn[c].client = t => turn[t].pc # "start"
      BY <2>2, <3>1, SandboxAssumption DEF NInv, Linked
    <3>3. conn[c].pc # "free" /\ conn[c].box \in Box \cap Known' /\ kind # "unknown"
      BY <2>1, <2>2, <2>4
    <3> QED
      BY <2>5, <3>2, <3>3, AnswerSees
  <2> QED
    BY <1>7, <2>1, <2>2, <2>5, GoesOnSees DEF FileRequest, RunCommand
<1>8. CASE DestroyTimedOut(c)
  BY <1>8, ServesCall, GoesOnSees DEF DestroyTimedOut, serves
<1>9. CASE Forget(c)
  BY <1>1, <1>9, AnswerSees DEF Forget, serves
<1> QED
  BY <1>2, <1>3, <1>4, <1>5, <1>6, <1>7, <1>8, <1>9 DEF Serve

\* A turn whose request fails before anybody serves it, or is given up.
LEMMA ErrorSees ==
    ASSUME NInv, NoReturn, NEW t \in Turn, Take(t, "error", None),
           \A c \in Conn : conn'[c].client # t,
           \A c \in Conn : conn'[c] = conn[c] \/ conn'[c].client = None
    PROVE  Linked' /\ (\A u \in Turn : Sees(u)') /\ Told
<1>1. /\ Sees(t)' /\ (~turn[t].noticed /\ turn'[t].noticed => last'[t] # last[t])
      /\ \A u \in Turn \ {t} : turn'[u] = turn[u] /\ last'[u] = last[u]
  BY TakeSees DEF NInv, IInv
<1>2. \A u \in Turn \ {t} : Sees(u)'
  BY <1>1, SeesStays DEF NInv, IInv
<1>3. Linked'
  BY <1>1, SandboxAssumption DEF NInv, Linked
<1>4. Told
  BY <1>1 DEF Told
<1> QED
  BY <1>1, <1>2, <1>3, <1>4

\* A request is sent, or given up.
LEMMA ClientSees ==
    ASSUME NInv, NoReturn, NEW t \in Turn, Client(t)
    PROVE  Linked' /\ (\A u \in Turn : Sees(u)') /\ Told
<1>1. CASE Send(t) /\ Take(t, "error", None) /\ UNCHANGED conn
  <2>1. \A c \in Conn : conn[c].client # t
    BY <1>1 DEF Send, NInv, Linked
  <2> QED
    BY <1>1, <2>1, ErrorSees
<1>2. ASSUME turn[t].pc # "ready", ~turn[t].sent, NEW c \in Conn, conn[c].pc = "free",
             UNCHANGED <<last, daemon>>, turn' = [turn EXCEPT ![t].sent = TRUE],
             conn' = [conn EXCEPT ![c] =
               [pc |-> "arrived", box |-> turn[t].box, user |-> turn[t].user, client |-> t,
                method |-> IF turn[t].pc = "start" THEN "start" ELSE "call"]]
      PROVE  Linked' /\ (\A u \in Turn : Sees(u)') /\ Told
  <2> DEFINE k == [pc |-> "arrived", box |-> turn[t].box, user |-> turn[t].user, client |-> t,
                   method |-> IF turn[t].pc = "start" THEN "start" ELSE "call"]
  <2>1. /\ conn' = [conn EXCEPT ![c] = k]
        /\ k.pc = "arrived" /\ k.box = turn[t].box /\ k.client = t
        /\ k.method = IF turn[t].pc = "start" THEN "start" ELSE "call"
    BY <1>2
  <2> HIDE DEF k
  <2>2. \A d \in Conn : conn'[d] = IF d = c THEN k ELSE conn[d]
    BY <2>1 DEF NInv, IInv, ConnTypes
  <2>3. turn[t].pc \in {"start", "copy", "op"} /\ t # None
    BY <1>2, SandboxAssumption DEF NInv, IInv, TurnsOK, TurnTypes, TurnRecord
  <2>4. /\ \A u \in Turn \ {t} : turn'[u] = turn[u] /\ last'[u] = last[u]
        /\ turn'[t].pc = turn[t].pc /\ turn'[t].box = turn[t].box /\ turn'[t].sent
        /\ turn'[t].retry = turn[t].retry /\ turn'[t].noticed = turn[t].noticed
        /\ last'[t] = last[t]
    BY <1>2 DEF NInv, IInv, TurnsOK, TurnTypes, TurnRecord
  <2>5. \A d \in Conn : conn[d].client # t
    BY <1>2 DEF NInv, Linked
  <2>6. Linked'
    <3> SUFFICES ASSUME NEW d \in Conn, NEW u \in Turn, conn'[d].client = u
                 PROVE  /\ conn'[d].pc # "free" /\ conn'[d].method \in {"start", "call"}
                        /\ turn'[u].sent
                        /\ \A e \in Conn : conn'[e].client = u => e = d
                        /\ conn'[d].pc = "provisioning" => conn'[d].method = "start"
                        /\ conn'[d].pc \in {"exec", "destroy", "forget"} => conn'[d].method = "call"
                        /\ conn'[d].method = "start" => turn'[u].pc = "start"
                        /\ conn'[d].method = "call" =>
                              turn'[u].pc \in {"copy", "op"} /\ conn'[d].box = turn'[u].box
      BY DEF Linked
    <3>1. CASE u = t
      BY <2>1, <2>2, <2>3, <2>4, <2>5, <3>1
    <3>2. CASE u # t
      <4>1. d # c /\ conn'[d] = conn[d] /\ turn'[u] = turn[u]
        BY <2>1, <2>2, <2>4, <3>2
      <4>2. \A e \in Conn : conn'[e].client = u => conn[e].client = u
        BY <2>1, <2>2, <3>2
      <4> QED
        BY <4>1, <4>2 DEF NInv, Linked
    <3> QED
      BY <3>1, <3>2
  <2>7. Sees(t)'
    BY <1>2, <2>4 DEF NInv, IInv, TurnsOK, TurnTypes, TurnRecord, Sees, NoReturn
  <2>8. \A u \in Turn \ {t} : Sees(u)'
    BY <2>4, SeesStays DEF NInv, IInv
  <2>9. Told
    BY <2>4 DEF Told
  <2> QED
    BY <2>6, <2>7, <2>8, <2>9
<1>3. CASE GiveUp(t)
  <2>1. \A d \in Conn : /\ conn'[d] = IF conn[d].client = t THEN [conn[d] EXCEPT !.client = None]
                                      ELSE conn[d]
                        /\ conn[d] \in ConnRecord
    BY <1>3 DEF GiveUp, NInv, IInv, ConnTypes
  <2>2. \A d \in Conn : conn[d].client = t => conn'[d].client = None
    BY <2>1 DEF ConnRecord
  <2>3. t # None
    BY SandboxAssumption
  <2> QED
    BY <1>3, <2>1, <2>2, <2>3, ErrorSees DEF GiveUp
<1> QED
  BY <1>1, <1>2, <1>3 DEF Client, Send, serves

\* The other steps of a turn: it calls, it is over, or the bot restarts.
LEMMA TurnSees ==
    ASSUME NInv, NoReturn,
           BotRestarts \/ \E t \in Turn : EndTurn(t) \/ \E u \in User : Call(t, u)
    PROVE  Linked' /\ (\A t \in Turn : Sees(t)') /\ Told
<1>1. ASSUME NEW t \in Turn, EndTurn(t) \/ \E u \in User : Call(t, u)
      PROVE  Linked' /\ (\A u \in Turn : Sees(u)') /\ Told
  <2>1. turn[t].pc = "ready" /\ conn' = conn /\ UNCHANGED daemon
    BY <1>1 DEF EndTurn, Call
  <2>2. \A u \in Turn \ {t} : turn'[u] = turn[u] /\ last'[u] = last[u]
    BY <1>1 DEF EndTurn, Call, NInv, IInv, TurnsOK, TurnTypes
  <2>3. \A c \in Conn : conn[c].client # t
    BY <2>1 DEF NInv, Linked
  <2>4. Linked'
    BY <2>1, <2>2, <2>3 DEF NInv, Linked
  <2>5. Sees(t)' /\ ~turn'[t].noticed
    <3>1. /\ turn[t] \in TurnRecord /\ turn \in [Turn -> TurnRecord] /\ last \in [Turn -> Box \cup {None}]
          /\ Sees(t)
      BY DEF NInv, IInv, TurnsOK, TurnTypes
    <3>2. CASE EndTurn(t)
      BY <3>1, <3>2 DEF EndTurn, NewTurn, Sees
    <3>3. CASE \E u \in User : Call(t, u)
      <4>1. /\ turn'[t].pc = IF turn[t].box = None THEN "start" ELSE "op"
            /\ turn'[t].box = turn[t].box /\ turn'[t].retry = turn[t].retry
            /\ turn'[t].noticed = FALSE /\ last'[t] = last[t]
        <5>1. PICK u \in User : Call(t, u)
          BY <3>3
        <5> DEFINE r == [turn[t] EXCEPT !.pc = IF turn[t].box = None THEN "start" ELSE "op",
                                        !.user = u, !.noticed = FALSE]
        <5>2. /\ r.pc = (IF turn[t].box = None THEN "start" ELSE "op") /\ r.box = turn[t].box
              /\ r.retry = turn[t].retry /\ r.noticed = FALSE
          BY <3>1 DEF TurnRecord
        <5>3. turn' = [turn EXCEPT ![t] = r] /\ last' = last
          BY <3>1, <5>1 DEF Call
        <5> HIDE DEF r
        <5> QED
          BY <3>1, <5>2, <5>3
      <4> QED
        BY <2>1, <3>1, <4>1 DEF Sees, NoReturn, TurnRecord
    <3> QED
      BY <1>1, <3>2, <3>3
  <2>6. \A u \in Turn \ {t} : Sees(u)'
    BY <2>2, SeesStays DEF NInv, IInv
  <2>7. Told
    BY <2>2, <2>5 DEF Told
  <2> QED
    BY <2>4, <2>5, <2>6, <2>7
<1>2. CASE BotRestarts
  <2>1. \A c \in Conn : conn'[c].client = None
    BY <1>2 DEF BotRestarts, serves, FreeConn, NInv, IInv, ConnTypes, ConnRecord
  <2>2. \A t \in Turn : turn'[t] = NewTurn /\ last'[t] = None
    BY <1>2 DEF BotRestarts
  <2> QED
    BY <2>1, <2>2, SandboxAssumption DEF Linked, Sees, Told, NewTurn
<1> QED
  BY <1>1, <1>2

\* The steps that concern no turn.
LEMMA ElsewhereSees ==
    ASSUME NInv, NoReturn, UNCHANGED <<turn, last>>,
           UNCHANGED conn \/ \A c \in Conn : conn'[c] = FreeConn
    PROVE  Linked' /\ (\A t \in Turn : Sees(t)') /\ Told
<1>1. Linked'
  BY SandboxAssumption DEF NInv, Linked, FreeConn
<1>2. (\A t \in Turn : Sees(t)') /\ Told
  BY SeesStays DEF NInv, IInv, Told
<1> QED
  BY <1>1, <1>2

\* Every step keeps the strengthened invariant, and no step gives a false notice.
LEMMA NextSees == NInv /\ [Next]_vars => NInv' /\ Told
<1> SUFFICES ASSUME NInv, [Next]_vars PROVE NInv' /\ Told
  OBVIOUS
<1>1. IInv' /\ NoReturn
  BY NextInv, NoReturnStep DEF NInv
<1>2. Linked' /\ (\A t \in Turn : Sees(t)') /\ Told
  <2>1. CASE \E c \in Conn : Serve(c)
    BY <1>1, <2>1, ServeSees
  <2>2. CASE \E t \in Turn : Client(t)
    BY <1>1, <2>2, ClientSees
  <2>3. CASE BotRestarts \/ \E t \in Turn : EndTurn(t) \/ \E u \in User : Call(t, u)
    BY <1>1, <2>3, TurnSees
  <2>4. CASE \/ \E u \in User : Touch(u)
             \/ \E b \in Box : GrowIdle(b) \/ DockerRuns(b)
             \/ Sweep \/ Reap \/ Stop \/ Recover \/ UNCHANGED vars
    <3>1. UNCHANGED <<turn, last>> /\ (UNCHANGED conn \/ \A c \in Conn : conn'[c] = FreeConn)
      BY <2>4 DEF Touch, GrowIdle, DockerRuns, Sweep, Reap, Stop, Recover, vars
    <3> QED
      BY <1>1, <3>1, ElsewhereSees
  <2> QED
    BY <2>1, <2>2, <2>3, <2>4 DEF Next
<1> QED
  BY <1>1, <1>2 DEF NInv

\* The invariant of the notice.
THEOREM NoticeInvariance == Spec => []NInv
<1>1. Init => Linked /\ \A t \in Turn : Sees(t)
  BY SandboxAssumption DEF Init, Linked, Sees, FreeConn, NewTurn
<1> QED
  BY <1>1, InitInv, NextSees, PTL DEF Spec, NInv

\* A turn is told that its workspace was replaced only when it works in another
\* one, whatever was given up, reaped or restarted (tools/src/sandbox.rs:64).
THEOREM NoticeIsTrue == Spec => NoticeMeansReplaced
<1>1. NInv /\ [Next]_vars => [Told]_vars
  BY NextSees
<1>2. Told => \A t \in Turn : ~turn[t].noticed /\ turn'[t].noticed => last'[t] # last[t]
  BY DEF Told
<1> QED
  BY <1>1, <1>2, NoticeInvariance, PTL DEF Spec, NoticeMeansReplaced
=============================================================================
