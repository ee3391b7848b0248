-------------------------- MODULE SandboxSessions --------------------------
(***************************************************************************)
(* The sandbox daemon (crates/sandbox/src/server.rs), its client           *)
(* (client.rs) and the per-turn handle of the agent (tools/src/sandbox.rs).*)
(*                                                                         *)
(* A turn t attaches to its user's sandbox on its first tool call, copies  *)
(* the skills in, and runs its calls against it, one at a time.  Every     *)
(* request is a connection c that the daemon serves in a task of its own;  *)
(* a client that gives up leaves the task running.  The daemon keeps a map *)
(* from sandbox ids (boxes) to containers, a sweeper removes the idle      *)
(* ones, and a restart forgets the map and cleans up what it finds.        *)
(***************************************************************************)
EXTENDS Naturals, FiniteSets

CONSTANTS
    User,         \* session keys
    Turn,         \* turns of the agent that may run at once
    Conn,         \* connections the daemon serves at once (a bound)
    Box,          \* fresh sandbox ids (a bound: Docker refuses further ones)
    Faults,       \* whether Docker may fail and the daemon and bot restart
    None

ASSUME SandboxAssumption ==
    /\ Faults \in BOOLEAN
    /\ None \notin Turn \cup Box \cup User

VARIABLES
    up,         \* the daemon listens
    owner,      \* the session key a box was requested for, None before
    container,  \* what Docker holds under the box's name
    tracked,    \* the ids in the daemon's map
    idle,       \* the boxes unused for the whole timeout
    condemned,  \* removed by the sweeper, still to be destroyed
    conn,       \* the daemon's connection tasks
    turn,       \* the agent's turns
    last,       \* observer: the box whose contents the model has seen
    faulty      \* observer: boxes a Docker fault or a crash has hit

daemon == <<owner, container, tracked, idle, condemned>>
vars == <<up, daemon, conn, turn, last, faulty>>
-----------------------------------------------------------------------------
FreeConn == [pc |-> "free", method |-> "none", box |-> None, user |-> None, client |-> None]
NewTurn == [pc |-> "ready", user |-> None, sent |-> FALSE, box |-> None, retry |-> FALSE,
            noticed |-> FALSE]

Init == /\ up = TRUE
        /\ owner = [b \in Box |-> None]
        /\ container = [b \in Box |-> "none"]
        /\ tracked = {}
        /\ idle = {}
        /\ condemned = {}
        /\ conn = [c \in Conn |-> FreeConn]
        /\ turn = [t \in Turn |-> NewTurn]
        /\ last = [t \in Turn |-> None]
        /\ faulty = {}

SessionBoxes(u) == {b \in tracked : owner[b] = u}

\* What a turn does with the answer to its request.  The answer is read at
\* once: until then it could only be given up, as it can before it is written.
Goto(t, pc, box) ==
    /\ turn' = [turn EXCEPT ![t].pc = pc, ![t].box = box, ![t].sent = FALSE]
    /\ UNCHANGED last

\* The tool's text goes to the model, with the notice or without it; seen is
\* the box whose contents the model now knows.
Reply(t, noticed, seen) ==
    /\ turn' = [turn EXCEPT ![t].pc = "ready", ![t].sent = FALSE, ![t].retry = FALSE,
                            ![t].noticed = noticed]
    /\ last' = [last EXCEPT ![t] = seen]

\* LazySandbox::attach: the handle is cached once the skills are copied.  The
\* calls of a turn run one at a time, so caching it before is the same.
TakeStart(t, kind, b) ==
    IF kind = "ok" THEN Goto(t, "copy", b) ELSE Reply(t, FALSE, last[t])

\* copy_skills: one request stands for them all; its errors are logged only.
TakeCopy(t) == Goto(t, "op", turn[t].box)

Reattach(t) ==
    /\ turn' = [turn EXCEPT ![t].pc = "start", ![t].box = None, ![t].retry = TRUE,
                            ![t].sent = FALSE]
    /\ UNCHANGED last

\* MUTANT: any error makes the call attach again.
TakeOpRetriesAll(t, kind) ==
    IF kind # "ok" /\ ~turn[t].retry THEN Reattach(t) ELSE Reply(t, turn[t].retry, turn[t].box)

\* with_sandbox: an unknown sandbox is replaced once and the call retried; a
\* result of the retry carries the notice, an error of the retry does not.
TakeOp(t, kind) ==
    \/ kind = "unknown" /\ ~turn[t].retry /\ Reattach(t)
    \/ kind = "unknown" /\ turn[t].retry /\ Reply(t, FALSE, last[t])
    \/ kind = "error" /\ Reply(t, FALSE, last[t])
    \/ kind = "destroyed" /\ Reply(t, FALSE, None)
    \/ kind = "dead" /\ ~turn[t].retry /\ Reply(t, FALSE, last[t])
    \/ kind = "ok" /\ ~turn[t].retry /\ Reply(t, FALSE, turn[t].box)
    \/ kind \in {"ok", "dead"} /\ turn[t].retry /\ Reply(t, TRUE, turn[t].box)

Take(t, kind, b) == \/ turn[t].pc = "start" /\ TakeStart(t, kind, b)
                    \/ turn[t].pc = "copy" /\ TakeCopy(t)
                    \/ turn[t].pc = "op" /\ TakeOp(t, kind)

\* The answer is written to the connection; nobody reads it when the client
\* has given up.
Answer(c, kind, b) ==
    /\ conn' = [conn EXCEPT ![c] = FreeConn]
    /\ IF conn[c].client = None THEN UNCHANGED <<turn, last>> ELSE Take(conn[c].client, kind, b)

Advance(c, pc) ==
    /\ conn' = [conn EXCEPT ![c].pc = pc]
    /\ UNCHANGED <<turn, last>>

serves(c, pc) == conn[c].pc = pc
starts(c) == conn[c].pc = "arrived" /\ conn[c].method = "start"
-----------------------------------------------------------------------------
\* handle_start, reuse_session: any box of the session that the map yields.
Reuse(c) ==
    /\ starts(c)
    /\ \E b \in SessionBoxes(conn[c].user) :
          /\ idle' = idle \ {b}
          /\ Answer(c, "ok", b)
    /\ UNCHANGED <<up, owner, container, tracked, condemned, faulty>>

\* handle_start without a box: docker run is under way, the map is unlocked.
Provision(c) ==
    /\ starts(c) /\ SessionBoxes(conn[c].user) = {}
    /\ \E b \in Box :
          /\ owner[b] = None
          /\ owner' = [owner EXCEPT ![b] = conn[c].user]
          /\ container' = [container EXCEPT ![b] = "requested"]
          /\ conn' = [conn EXCEPT ![c].pc = "provisioning", ![c].box = b]
    /\ UNCHANGED <<up, tracked, idle, condemned, turn, last, faulty>>

\* docker run succeeds and the box enters the map, even when another start of
\* the session has entered one meanwhile.
Provisioned(c) ==
    /\ serves(c, "provisioning") /\ container[conn[c].box] = "running"
    /\ tracked' = tracked \cup {conn[c].box}
    /\ Answer(c, "ok", conn[c].box)
    /\ UNCHANGED <<up, owner, container, idle, condemned, faulty>>

\* docker run fails or exceeds its 60 seconds: Docker may start the container
\* all the same.  With no fresh id left it refuses at once.
ProvisionFails(c) ==
    /\ \/ /\ serves(c, "provisioning") /\ Faults
          /\ faulty' = faulty \cup {conn[c].box}
       \/ /\ starts(c) /\ SessionBoxes(conn[c].user) = {}
          /\ \A b \in Box : owner[b] # None
          /\ UNCHANGED faulty
    /\ Answer(c, "error", None)
    /\ UNCHANGED <<up, daemon>>

\* A call is a command or a file request.  require_sandbox: the box counts as used from here, not from the command's end.
Require(c) ==
    /\ serves(c, "arrived") /\ conn[c].method = "call"
    /\ IF conn[c].box \in tracked
         THEN idle' = idle \ {conn[c].box} /\ Advance(c, "exec")
         ELSE Answer(c, "unknown", conn[c].box) /\ UNCHANGED idle
    /\ UNCHANGED <<up, owner, container, tracked, condemned, faulty>>

\* handle_read_file, handle_write_file, handle_edit_file: they need the container
\* and may fail (no such file, a Docker error); a timeout leaves it alone.
FileRequest(c) ==
    /\ serves(c, "exec")
    /\ \/ container[conn[c].box] = "running" /\ Answer(c, "ok", conn[c].box)
       \/ Answer(c, "error", conn[c].box)
    /\ UNCHANGED <<up, daemon, faulty>>

\* handle_run: in a container that is gone the command exits non-zero, which is
\* reported as a result; a timeout destroys the container.
RunCommand(c) ==
    /\ serves(c, "exec")
    /\ IF container[conn[c].box] = "running"
         THEN Answer(c, "ok", conn[c].box) \/ Advance(c, "destroy")
         ELSE Answer(c, "dead", conn[c].box)
    /\ UNCHANGED <<up, daemon, faulty>>

\* destroy_container: the outcome of docker rm is dropped.
Remove(b) ==
    \/ /\ container' = [container EXCEPT ![b] = IF @ = "running" THEN "gone" ELSE @]
       /\ UNCHANGED faulty
    \/ /\ Faults
       /\ faulty' = faulty \cup {b}
       /\ UNCHANGED container

\* handle_run after a timeout: destroyed first, forgotten in a later step.
DestroyTimedOut(c) ==
    /\ serves(c, "destroy")
    /\ Remove(conn[c].box)
    /\ Advance(c, "forget")
    /\ UNCHANGED <<up, owner, tracked, idle, condemned>>

\* MUTANT: the destroyed box stays in the map.
ForgetNothing(c) ==
    /\ serves(c, "forget")
    /\ Answer(c, "destroyed", conn[c].box)
    /\ UNCHANGED <<up, daemon, faulty>>

Forget(c) ==
    /\ serves(c, "forget")
    /\ tracked' = tracked \ {conn[c].box}
    /\ idle' = idle \ {conn[c].box}
    /\ Answer(c, "destroyed", conn[c].box)
    /\ UNCHANGED <<up, owner, container, condemned, faulty>>

Serve(c) == \/ Reuse(c) \/ Provision(c) \/ Provisioned(c) \/ ProvisionFails(c)
            \/ Require(c) \/ FileRequest(c) \/ RunCommand(c)
            \/ DestroyTimedOut(c) \/ Forget(c)
-----------------------------------------------------------------------------
\* handle_touch, from the detached requests at a turn's start and end.
Touch(u) ==
    /\ up /\ SessionBoxes(u) \cap idle # {}
    /\ idle' = idle \ SessionBoxes(u)
    /\ UNCHANGED <<up, owner, container, tracked, condemned, conn, turn, last, faulty>>

\* A box goes unused for the whole timeout, a command in it or not.
GrowIdle(b) ==
    /\ b \in tracked \ idle
    /\ idle' = idle \cup {b}
    /\ UNCHANGED <<up, owner, container, tracked, condemned, conn, turn, last, faulty>>

\* reap_idle_containers: one sweep under the lock, then the containers one by
\* one, and no further sweep before they are all gone.
Sweep ==
    /\ up /\ condemned = {} /\ idle # {}
    /\ tracked' = tracked \ idle
    /\ condemned' = idle
    /\ idle' = {}
    /\ UNCHANGED <<up, owner, container, conn, turn, last, faulty>>

\* MUTANT: the sweeper only forgets.
ReapNothing ==
    /\ \E b \in condemned : condemned' = condemned \ {b}
    /\ UNCHANGED <<up, owner, container, tracked, idle, conn, turn, last, faulty>>

Reap ==
    /\ \E b \in condemned :
          /\ condemned' = condemned \ {b}
          /\ Remove(b)
    /\ UNCHANGED <<up, owner, tracked, idle, conn, turn, last>>

\* Docker: a requested container runs, if late.
DockerRuns(b) ==
    /\ container[b] = "requested"
    /\ container' = [container EXCEPT ![b] = "running"]
    /\ UNCHANGED <<up, owner, tracked, idle, condemned, conn, turn, last, faulty>>

\* The daemon stops between any two steps: its map and its tasks are gone, the
\* containers stay, and what was under way is in nobody's hands.
Stop ==
    /\ up /\ Faults
    /\ up' = FALSE
    /\ tracked' = {} /\ idle' = {} /\ condemned' = {}
    /\ conn' = [c \in Conn |-> FreeConn]
    /\ faulty' = faulty \cup {b \in Box : container[b] = "requested"}
    /\ UNCHANGED <<owner, container, turn, last>>

\* MUTANT: the socket is bound without a cleanup.
RecoverDirty ==
    /\ ~up
    /\ up' = TRUE
    /\ UNCHANGED <<daemon, conn, turn, last, faulty>>

\* run_daemon: cleanup_stale_containers removes what docker ps lists, if
\* Docker answers, and only then the socket is bound.
Recover ==
    /\ ~up
    /\ up' = TRUE
    /\ \E missed \in SUBSET {b \in Box : container[b] = "running"} :
          /\ faulty' = faulty \cup missed
          /\ container' = [b \in Box |-> IF container[b] = "running" /\ b \notin missed
                                           THEN "gone" ELSE container[b]]
    /\ UNCHANGED <<owner, tracked, idle, condemned, conn, turn, last>>

-----------------------------------------------------------------------------
\* A tool call of the user's turn: attach first, unless the handle is cached.
Call(t, u) ==
    /\ turn[t].pc = "ready" /\ turn[t].user \in {u, None}
    /\ turn' = [turn EXCEPT ![t].pc = IF turn[t].box = None THEN "start" ELSE "op",
                            ![t].user = u, ![t].noticed = FALSE]
    /\ UNCHANGED <<up, daemon, conn, last, faulty>>

\* SandboxClient::send_request: a connection of its own for every request.
Send(t) ==
    /\ turn[t].pc # "ready" /\ ~turn[t].sent
    /\ \/ /\ up
          /\ \E c \in Conn :
                /\ serves(c, "free")
                /\ conn' = [conn EXCEPT ![c] =
                     [pc |-> "arrived", box |-> turn[t].box, user |-> turn[t].user, client |-> t,
                      method |-> IF turn[t].pc = "start" THEN "start" ELSE "call"]]
          /\ turn' = [turn EXCEPT ![t].sent = TRUE]
          /\ UNCHANGED last
       \/ (~up \/ Faults) /\ Take(t, "error", None) /\ UNCHANGED conn
    /\ UNCHANGED <<up, daemon, faulty>>

\* The response timeout, or the connection is closed: the daemon's task runs on.
GiveUp(t) ==
    /\ turn[t].sent
    /\ Take(t, "error", None)
    /\ conn' = [c \in Conn |-> IF conn[c].client = t THEN [conn[c] EXCEPT !.client = None]
                              ELSE conn[c]]
    /\ UNCHANGED <<up, daemon, faulty>>

Client(t) == Send(t) \/ GiveUp(t)

\* The turn is over; the next one of the slot has a new handle.
EndTurn(t) ==
    /\ turn[t].pc = "ready" /\ turn[t] # NewTurn
    /\ turn' = [turn EXCEPT ![t] = NewTurn]
    /\ last' = [last EXCEPT ![t] = None]
    /\ UNCHANGED <<up, daemon, conn, faulty>>

\* The bot stops and starts: its turns are gone, the daemon's tasks run on.
BotRestarts ==
    /\ Faults /\ \E t \in Turn : turn[t].pc # "ready"
    /\ turn' = [t \in Turn |-> NewTurn]
    /\ last' = [t \in Turn |-> None]
    /\ conn' = [c \in Conn |-> IF serves(c, "free") THEN FreeConn
                              ELSE [conn[c] EXCEPT !.client = None]]
    /\ UNCHANGED <<up, daemon, faulty>>
-----------------------------------------------------------------------------
Next == \/ \E c \in Conn : Serve(c)
        \/ \E t \in Turn : Client(t) \/ EndTurn(t) \/ \E u \in User : Call(t, u)
        \/ \E u \in User : Touch(u)
        \/ \E b \in Box : GrowIdle(b) \/ DockerRuns(b)
        \/ Sweep \/ Reap \/ Stop \/ Recover \/ BotRestarts

Spec == Init /\ [][Next]_vars

\* Tasks that have begun run on, every wait of a client has a timeout, the
\* sweeper ticks, and a stopped daemon is started again.
FairSpec == /\ Spec
            /\ \A c \in Conn : WF_vars(Serve(c))
            /\ \A t \in Turn : WF_vars(Client(t))
            /\ WF_vars(Sweep) /\ WF_vars(Reap) /\ WF_vars(Recover)
-----------------------------------------------------------------------------
DaemonTypes ==
    /\ up \in BOOLEAN
    /\ owner \in [Box -> User \cup {None}]
    /\ container \in [Box -> {"none", "requested", "running", "gone"}]
    /\ idle \subseteq tracked /\ tracked \subseteq Box
    /\ condemned \subseteq Box /\ condemned \cap tracked = {}
    /\ faulty \subseteq Box

ConnRecord == [pc : {"free", "arrived", "provisioning", "exec", "destroy", "forget"},
               method : {"start", "call", "none"}, box : Box \cup {None},
               user : User \cup {None}, client : Turn \cup {None}]
ConnTypes == conn \in [Conn -> ConnRecord]

TurnRecord == [pc : {"ready", "start", "copy", "op"}, user : User \cup {None}, sent : BOOLEAN,
               box : Box \cup {None}, retry : BOOLEAN, noticed : BOOLEAN]
TurnTypes == turn \in [Turn -> TurnRecord] /\ last \in [Turn -> Box \cup {None}]

TypeOK == DaemonTypes /\ ConnTypes /\ TurnTypes

\* A session's box that the daemon would hand out or serve is alive, except
\* between the destruction of a timed out command and its removal from the
\* map: no call is sent to a container that will never answer again.
TrackedRuns ==
    \A b \in tracked : \/ container[b] = "running"
                       \/ \E c \in Conn : serves(c, "forget") /\ conn[c].box = b

\* A container that runs while the daemon is up is in the map or in the hands
\* of a task or of the sweeper, whatever clients gave up and whichever starts
\* of a session overlapped: only Docker faults and stops leak one.
InHand(b) == \/ b \in tracked \cup condemned
             \/ \E c \in Conn : conn[c].box = b /\ conn[c].pc \in {"provisioning", "destroy"}
OnlyFaultsLeak ==
    up => \A b \in Box : container[b] = "running" => InHand(b) \/ b \in faulty

\* Only a workspace that differs from the one the model has worked in is
\* reported as recycled (RESET_NOTICE): the notice never sends the model off to
\* redo work that is still there.
NoticeMeansReplaced ==
    [][\A t \in Turn : ~turn[t].noticed /\ turn'[t].noticed => last'[t] # last[t]]_vars

\* A workspace is not exchanged for another under the model without the notice
\* ("so callers can tell the model its files are gone", sandbox.rs:64).
ReplacementAnnounced ==
    [][\A t \in Turn : last[t] # None /\ last'[t] \notin {None, last[t]}
                         => turn'[t].noticed]_vars

\* A tool call ends, with one retry at most, though the daemon stops, the
\* sandbox is reaped under it or Docker hangs.
CallEnds == \A t \in Turn : turn[t].pc # "ready" ~> turn[t].pc = "ready"

\* An idle container is destroyed, unless its session uses it again or a
\* fault keeps it.
IdleBoxGoes ==
    \A b \in Box : b \in idle ~> b \in tracked \ idle \/ container[b] = "gone" \/ b \in faulty

\* Neither a call nor an idle container stays for ever (server.rs, sandbox.rs).
NothingLingers == CallEnds /\ IdleBoxGoes
=============================================================================
