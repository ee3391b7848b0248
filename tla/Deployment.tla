----------------------------- MODULE Deployment -----------------------------
(***************************************************************************)
(* The deployment bot (crates/deployment-bot): webhooks, slash commands    *)
(* and the start of the bot itself replace the chatbot and its sandbox     *)
(* daemon by the containers of another commit, one docker command at a     *)
(* time.                                                                   *)
(*                                                                         *)
(* Every request runs in a task of its own; a deployment holds             *)
(* deployment_lock from its first look at the running container to its     *)
(* last command.  Any command, and any call of GitHub or Discord, may      *)
(* fail; the bot may be killed or told to stop between any two of them;    *)
(* and a chatbot may die by itself.  Commits are numbered as they land.    *)
(***************************************************************************)
EXTENDS Naturals, Sequences, FiniteSets, FiniteSetsExt

CONSTANTS
    Request,       \* requests in one life of the bot (a bound)
    MaxCommit,     \* commits of the branch (a bound)
    Broken,        \* commits whose chatbot dies
    SearchDepth,   \* PUBLISHED_COMMIT_SEARCH_DEPTH
    MaxAttempts,   \* STARTUP_DEPLOY_ATTEMPTS
    MaxFaults,     \* failures of docker, GitHub and Discord (a bound)
    MaxStarts,     \* starts of the bot (a bound)
    None

Commit == 1..MaxCommit

ASSUME DeploymentAssumption ==
    /\ {MaxCommit, SearchDepth, MaxAttempts} \subseteq Nat \ {0} /\ {MaxFaults, MaxStarts} \subseteq Nat
    /\ Broken \subseteq Commit /\ None \notin Commit \cup Request

VARIABLES
    tip, published,            \* the branch, and the commits with images
    chatbot, daemon, images,   \* docker: the two containers, the local images
    twin,                      \* a chatbot an earlier compose left running
    phase, starts,             \* the bot: "down", "up", "stopping", "stopped"
    previous, lastEvent, lock, req,
    faults,
    torn,                      \* observer: a stop met a request under way
    built                      \* observer: the builds this life has deployed

world == <<tip, published>>
docker == <<chatbot, daemon, images>>
vars == <<world, docker, twin, phase, starts, previous, lastEvent, lock, req, faults, torn, built>>

\* MUTANT: the daemon goes before the chatbot that uses it.
PlanSwapped == <<"pull_housebot_image", "pull_sandbox_daemon_image", "pull_sandbox_image",
                 "run_database_migrations", "remove_previous_sandbox_daemon", "remove_previous_container",
                 "create_sandbox_socket_volume", "start_sandbox_daemon", "check_sandbox_daemon",
                 "start_requested_image", "check_container_state">>

\* container_commands_with_env, in order.
Plan == <<"pull_housebot_image", "pull_sandbox_daemon_image", "pull_sandbox_image",
          "run_database_migrations", "remove_previous_container", "remove_previous_sandbox_daemon",
          "create_sandbox_socket_volume", "start_sandbox_daemon", "check_sandbox_daemon",
          "start_requested_image", "check_container_state">>
Release(c) == {"housebot", "sandboxd", "sandbox"} \X {c}
Pulls == [pull_housebot_image |-> "housebot", pull_sandbox_daemon_image |-> "sandboxd",
          pull_sandbox_image |-> "sandbox"]

\* A request before it comes, and when it is over.
Idle == [kind |-> "none", pc |-> "idle", commit |-> None, running |-> None, stage |-> 0, attempt |-> 0]
Over == [Idle EXCEPT !.kind = "over", !.pc = "done"]

Init == /\ tip = 1 /\ published \in SUBSET {1}
        /\ twin = TRUE
        /\ \/ chatbot = None /\ daemon = None /\ images = {}
           \/ /\ published = {1} /\ images = Release(1)
              /\ chatbot = [commit |-> 1, running |-> TRUE] /\ daemon = 1
        /\ phase = "down" /\ starts = 0
        /\ previous = None /\ lastEvent = None /\ lock = None /\ req = [q \in Request |-> Idle]
        /\ faults = 0 /\ torn = FALSE /\ built = <<>>

Active(q) == req[q].pc \notin {"idle", "card", "done"}
Alive == phase \in {"up", "stopping"}
at(q, pc) == Alive /\ req[q].pc = pc
Goto(q, pc) == req' = [req EXCEPT ![q].pc = pc]
Fault == faults < MaxFaults /\ faults' = faults + 1
NoFault == faults' = faults
Running == chatbot # None /\ chatbot.running
-----------------------------------------------------------------------------
\* The end of a request.  A failed startup deployment sleeps and tries again.
Succeed(q) == /\ lock' = IF lock = q THEN None ELSE lock
              /\ req' = [req EXCEPT ![q] = Over]

\* MUTANT: a failed attempt is not counted.
FailUncounted(q) == /\ lock' = IF lock = q THEN None ELSE lock
                    /\ req' = [req EXCEPT ![q] = IF @.kind = "startup" THEN [@ EXCEPT !.pc = "wait"] ELSE Over]

Fail(q) == /\ lock' = IF lock = q THEN None ELSE lock
           /\ req' = [req EXCEPT ![q] =
                IF @.kind = "startup" /\ @.attempt < MaxAttempts
                  THEN [Idle EXCEPT !.kind = "startup", !.pc = "wait", !.attempt = req[q].attempt + 1]
                  ELSE Over]

\* What images_published says of a commit: an answer other than "no such
\* manifest" counts as published.
SeemsPublished(c) == \/ c \in published /\ NoFault
                     \/ c \notin published /\ Fault
Recent == {c \in Commit : c <= tip /\ c > tip - SearchDepth}
NewestPublished == IF Recent \cap published = {} THEN {} ELSE {Max(Recent \cap published)}

\* MUTANT: of the previous release only the chatbot's image is kept.
KeptHalf(c) == Release(c) \cup (IF previous = None THEN {} ELSE {<<"housebot", previous>>})

\* cleanup_old_images: what is neither of this release nor of the previous one
\* goes, unless a container uses it.
Kept(c) == Release(c) \cup (IF previous = None THEN {} ELSE Release(previous))
InUse == (IF chatbot = None THEN {} ELSE {<<"housebot", chatbot.commit>>})
            \cup (IF daemon = None THEN {} ELSE {<<"sandboxd", daemon>>})
-----------------------------------------------------------------------------
\* Whoever may deploy asks for something.
Ask(q, kind, c, pc) ==
    /\ phase = "up" /\ req[q].kind = "none"
    /\ req' = [req EXCEPT ![q] = [Idle EXCEPT !.kind = kind, !.commit = c, !.pc = pc]]
    /\ UNCHANGED <<world, docker, twin, phase, starts, previous, lastEvent, lock,
                   torn, built, faults>>

\* A build or deployment webhook for a commit; others are not acted upon.
Webhook(q) == \E c \in published : Ask(q, "webhook", c, "wait")

\* /update and /rollback.
Update(q) == Ask(q, "update", None, "wait")
Rollback(q) == Ask(q, "rollback", None, "wait")

\* deploy_card: the commit the card of /deploy is for, an explicit one if it has
\* images; without a SHA the newest that has them.
CardFor == {c \in 1..tip : c \in published \/ faults < MaxFaults}
              \cup (IF tip \in published THEN {} ELSE NewestPublished)
Deploy(q) ==
    /\ phase = "up" /\ req[q].kind = "none"
    /\ \E c \in CardFor : /\ req' = [req EXCEPT ![q] = [Idle EXCEPT !.kind = "confirm", !.commit = c, !.pc = "card"]]
                          /\ SeemsPublished(c) \/ (c \in NewestPublished /\ NoFault)
    /\ UNCHANGED <<world, docker, twin, phase, starts, previous, lastEvent, lock, torn, built>>

\* The card's buttons.
Confirm(q) ==
    /\ phase = "up" /\ req[q].pc = "card"
    /\ Goto(q, "wait")
    /\ UNCHANGED <<world, docker, twin, phase, starts, previous, lastEvent, lock,
                   torn, built, faults>>
Deny(q) ==
    /\ phase = "up" /\ req[q].pc = "card" /\ req' = [req EXCEPT ![q] = Over]
    /\ UNCHANGED <<world, docker, twin, phase, starts, previous, lastEvent, lock,
                   torn, built, faults>>
-----------------------------------------------------------------------------
\* ready: containers of an earlier compose are removed, or the attempt is logged.
RemoveDuplicates(q) ==
    /\ at(q, "duplicates") /\ Goto(q, "ensure")
    /\ \/ twin' = FALSE /\ NoFault
       \/ twin' = twin /\ Fault
    /\ UNCHANGED <<world, docker, phase, starts, previous, lastEvent, lock, torn, built>>

\* ensure_house_chatbot_running: a running one, or no answer, ends it.
Ensure(q) ==
    /\ at(q, "ensure")
    /\ \/ Running /\ req' = [req EXCEPT ![q] = Over] /\ NoFault
       \/ ~Running /\ req' = [req EXCEPT ![q].pc = "wait", ![q].attempt = 1] /\ NoFault
       \/ req' = [req EXCEPT ![q] = Over] /\ Fault
    /\ UNCHANGED <<world, docker, twin, phase, starts, previous, lastEvent, lock, torn, built>>

\* deployment_lock, a fair mutex.
Acquire(q) ==
    /\ at(q, "wait") /\ lock = None
    /\ lock' = q
    /\ Goto(q, CASE req[q].kind = "webhook" -> "duplicate"
                 [] req[q].kind \in {"update", "startup"} -> "read"
                 [] req[q].kind = "rollback" -> "previous"
                 [] OTHER -> "checkpoint")
    /\ UNCHANGED <<world, docker, twin, phase, starts, previous, lastEvent, faults, torn, built>>

\* MUTANT: a build that was deployed last is deployed again.
SkipDuplicateNever(q) ==
    /\ at(q, "duplicate") /\ Goto(q, "checkpoint")
    /\ UNCHANGED <<world, docker, twin, phase, starts, previous, lastEvent, lock, faults, torn, built>>

\* message: the build that was deployed last is not deployed again.
SkipDuplicate(q) ==
    /\ at(q, "duplicate")
    /\ IF lastEvent = req[q].commit THEN Succeed(q) ELSE Goto(q, "checkpoint") /\ UNCHANGED lock
    /\ UNCHANGED <<world, docker, twin, phase, starts, previous, lastEvent, faults, torn, built>>

\* update_to_latest: the commit the container was made from.
ReadCurrent(q) ==
    /\ at(q, "read")
    /\ \/ /\ req' = [req EXCEPT ![q].pc = "choose", ![q].running = IF chatbot = None THEN None ELSE chatbot.commit]
          /\ NoFault /\ UNCHANGED lock
       \/ Fail(q) /\ Fault
    /\ UNCHANGED <<world, docker, twin, phase, starts, previous, lastEvent, torn, built>>

\* deployable_branch_commit: the tip, or else the newest with images.
Choose(q) ==
    /\ at(q, "choose")
    /\ \/ /\ SeemsPublished(tip)
          /\ req' = [req EXCEPT ![q].pc = "compare", ![q].commit = tip] /\ UNCHANGED lock
       \/ /\ tip \notin published /\ NoFault
          /\ \E c \in NewestPublished : req' = [req EXCEPT ![q].pc = "compare", ![q].commit = c]
          /\ UNCHANGED lock
       \/ tip \notin published /\ NewestPublished = {} /\ Fail(q) /\ NoFault
       \/ Fail(q) /\ Fault
    /\ UNCHANGED <<world, docker, twin, phase, starts, previous, lastEvent, torn, built>>

AlreadyDeployed(q) == Running /\ req[q].running = req[q].commit
\* changelog: GitHub compares the two commits, if there are two.
ChangelogFails(q) == req[q].running # None /\ Fail(q) /\ Fault

Compare(q) ==
    /\ at(q, "compare")
    /\ \/ AlreadyDeployed(q) /\ Succeed(q) /\ NoFault
       \/ /\ ~AlreadyDeployed(q) /\ NoFault /\ UNCHANGED lock
          /\ req' = [req EXCEPT ![q].pc = "checkpoint", ![q].running = None]
       \/ ~AlreadyDeployed(q) /\ ChangelogFails(q)
    /\ UNCHANGED <<world, docker, twin, phase, starts, previous, lastEvent, torn, built>>

\* checkpoint_current_image: what cannot be read leaves the checkpoint as it is.
Checkpoint(q) ==
    /\ at(q, "checkpoint")
    /\ \/ previous' = (IF chatbot = None THEN previous ELSE chatbot.commit) /\ NoFault
       \/ UNCHANGED previous /\ Fault
    /\ req' = [req EXCEPT ![q].pc = "plan", ![q].stage = 1]
    /\ UNCHANGED <<world, docker, twin, phase, starts, lastEvent, lock, torn, built>>

\* rollback: to the checkpoint, if this life has one.
TakePrevious(q) ==
    /\ at(q, "previous")
    /\ IF previous = None THEN Fail(q)
       ELSE req' = [req EXCEPT ![q].pc = "plan", ![q].stage = 1, ![q].commit = previous] /\ UNCHANGED lock
    /\ UNCHANGED <<world, docker, twin, phase, starts, previous, lastEvent, faults, torn, built>>

Stage(q) == Plan[req[q].stage]

\* A docker command of the plan that works.
Command(q, c) ==
    \/ /\ Stage(q) \in DOMAIN Pulls /\ c \in published
       /\ images' = images \cup {<<Pulls[Stage(q)], c>>} /\ UNCHANGED <<chatbot, daemon>>
    \/ /\ Stage(q) \in {"run_database_migrations", "create_sandbox_socket_volume"} /\ UNCHANGED docker
    \/ /\ Stage(q) = "remove_previous_container" /\ chatbot' = None /\ UNCHANGED <<daemon, images>>
    \/ /\ Stage(q) = "remove_previous_sandbox_daemon" /\ daemon' = None /\ UNCHANGED <<chatbot, images>>
    \/ /\ Stage(q) = "start_sandbox_daemon" /\ daemon = None
       /\ daemon' = c /\ UNCHANGED <<chatbot, images>>
    \/ /\ Stage(q) = "check_sandbox_daemon" /\ daemon # None /\ UNCHANGED docker
    \/ /\ Stage(q) = "start_requested_image" /\ chatbot = None
       /\ chatbot' = [commit |-> c, running |-> TRUE] /\ UNCHANGED <<daemon, images>>
    \/ /\ Stage(q) = "check_container_state" /\ Running /\ UNCHANGED docker

\* The commands that cannot work: what is to be pulled, checked or named is not there.
Refused(q, c) == \/ Stage(q) \in DOMAIN Pulls /\ c \notin published
                 \/ Stage(q) = "start_sandbox_daemon" /\ daemon # None
                 \/ Stage(q) = "check_sandbox_daemon" /\ daemon = None
                 \/ Stage(q) = "start_requested_image" /\ chatbot # None
                 \/ Stage(q) = "check_container_state" /\ ~Running

RunStage(q) ==
    /\ at(q, "plan")
    /\ \/ /\ Command(q, req[q].commit) /\ NoFault
          /\ req' = [req EXCEPT ![q].stage = @ + 1, ![q].pc = IF Stage(q) = Plan[Len(Plan)] THEN "cleanup" ELSE @]
          /\ UNCHANGED lock
       \/ Refused(q, req[q].commit) /\ Fail(q) /\ NoFault /\ UNCHANGED docker
       \/ Fail(q) /\ Fault /\ UNCHANGED docker
       \/ /\ Stage(q) = "start_requested_image" /\ chatbot = None   \* created, and not started
          /\ Fail(q) /\ Fault /\ UNCHANGED <<daemon, images>>
          /\ chatbot' = [commit |-> req[q].commit, running |-> FALSE]
    /\ UNCHANGED <<world, twin, phase, starts, previous, lastEvent, torn, built>>

\* A deployment ends with the cleanup, a webhook's with last_event, a rollback with neither.
Finish(q) ==
    /\ at(q, "cleanup") /\ Succeed(q)
    /\ \/ /\ req[q].kind # "rollback"
          /\ images' = images \cap (Kept(req[q].commit) \cup InUse) /\ NoFault
       \/ req[q].kind = "rollback" /\ NoFault /\ UNCHANGED images
       \/ req[q].kind # "rollback" /\ Fault /\ UNCHANGED images
    /\ IF req[q].kind = "webhook"
         THEN lastEvent' = req[q].commit /\ built' = Append(built, req[q].commit)
         ELSE UNCHANGED <<lastEvent, built>>
    /\ UNCHANGED <<world, chatbot, daemon, twin, phase, starts, previous, torn>>
-----------------------------------------------------------------------------
Push == /\ tip < MaxCommit /\ tip' = tip + 1
        /\ UNCHANGED <<published, docker, twin, phase, starts, previous, lastEvent, lock, req,
                       faults, torn, built>>
Publish == /\ \E c \in 1..tip : c \notin published /\ published' = published \cup {c}
           /\ UNCHANGED <<tip, docker, twin, phase, starts, previous, lastEvent, lock, req,
                          faults, torn, built>>

\* A broken chatbot dies, whenever it likes.
Die == /\ Running /\ chatbot.commit \in Broken
       /\ chatbot' = [chatbot EXCEPT !.running = FALSE]
       /\ UNCHANGED <<world, daemon, images, twin, phase, starts, previous, lastEvent, lock, req,
                      faults, torn, built>>

\* The process starts, and is ready; a new session of the gateway is ready again.
Start == /\ phase = "down" /\ starts < MaxStarts /\ phase' = "up" /\ starts' = starts + 1
         /\ UNCHANGED <<world, docker, twin, previous, lastEvent, lock, req, faults, torn, built>>
BotReady(q) == Ask(q, "startup", None, "duplicates")

\* SIGTERM: the containers are removed while the handlers run on, then the process ends.
Stop == /\ phase = "up" /\ phase' = "stopping"
        /\ \/ chatbot' = None /\ NoFault /\ torn' = (torn \/ \E q \in Request : Active(q))
           \/ UNCHANGED chatbot /\ Fault /\ torn' = TRUE
        /\ UNCHANGED <<world, daemon, images, twin, starts, previous, lastEvent, lock, req, built>>
StopDaemon == /\ phase = "stopping" /\ phase' = "stopped"
              /\ \/ daemon' = None /\ NoFault
                 \/ UNCHANGED daemon /\ Fault
              /\ UNCHANGED <<world, chatbot, images, twin, starts, previous, lastEvent, lock, req,
                             torn, built>>

\* The end of the process, after a stop or at any moment.
Exit == /\ phase # "down" /\ phase' = "down"
        /\ previous' = None /\ lastEvent' = None /\ lock' = None
        /\ req' = [q \in Request |-> Idle] /\ built' = <<>>
        /\ UNCHANGED <<world, docker, twin, starts, faults, torn>>

Step(q) == \/ RemoveDuplicates(q) \/ Ensure(q) \/ SkipDuplicate(q) \/ ReadCurrent(q) \/ Choose(q)
           \/ Compare(q) \/ Checkpoint(q) \/ TakePrevious(q) \/ RunStage(q) \/ Finish(q)

Next == \/ \E q \in Request : \/ Webhook(q) \/ Update(q) \/ Rollback(q) \/ Deploy(q) \/ Confirm(q) \/ Deny(q)
                             \/ BotReady(q) \/ Acquire(q) \/ Step(q)
        \/ Push \/ Publish \/ Die \/ Start \/ Stop \/ StopDaemon \/ Exit

\* Handlers are run, the mutex is fair, and a bot told to stop stops.
Fairness == /\ \A q \in Request : WF_vars(Step(q)) /\ SF_vars(Acquire(q))
            /\ WF_vars(StopDaemon) /\ WF_vars(phase = "stopped" /\ Exit)
Spec == Init /\ [][Next]_vars /\ Fairness
-----------------------------------------------------------------------------
RequestRecord ==
    [kind : {"none", "webhook", "update", "rollback", "confirm", "startup", "over"},
     pc : {"idle", "card", "duplicates", "ensure", "wait", "duplicate", "read", "choose", "compare",
           "checkpoint", "previous", "plan", "cleanup", "done"},
     commit : {None} \cup Commit, running : {None} \cup Commit,
     stage : 0..(Len(Plan) + 1), attempt : 0..MaxAttempts]
TypeOK ==
    /\ tip \in Commit /\ published \subseteq 1..tip
    /\ chatbot \in {None} \cup [commit : Commit, running : BOOLEAN]
    /\ daemon \in {None} \cup Commit /\ images \subseteq {"housebot", "sandboxd", "sandbox"} \X Commit
    /\ phase \in {"down", "up", "stopping", "stopped"} /\ starts \in 0..MaxStarts
    /\ previous \in {None} \cup Commit /\ lastEvent \in {None} \cup Commit /\ lock \in {None} \cup Request
    /\ req \in [Request -> RequestRecord]
    /\ twin \in BOOLEAN /\ torn \in BOOLEAN /\ faults \in 0..MaxFaults /\ built \in Seq(Commit)

\* The release a rollback goes back to is whole on the host, whatever failed and
\* was cleaned up since ("the previous release stays whole", lib.rs:170).
PreviousStaysWhole == previous # None => Release(previous) \subseteq images

\* A chatbot has the daemon of its own release beside it, whatever failed or was
\* killed half way, unless the bot was stopped in the middle of a request.
PairMatches == ~torn /\ phase \in {"up", "down"} /\ chatbot # None => daemon = chatbot.commit

\* A build that is announced twice in a row, even at the same time, is deployed once.
BuildDeployedOnce == \A i \in 1..(Len(built) - 1) : built[i] # built[i + 1]

\* Every request is answered in the end, and the lock comes free, if the bot lives on.
RequestEnds == \A q \in Request : Active(q) ~> ~Active(q)
=============================================================================
