----------------------------- MODULE PendingJobs -----------------------------
(***************************************************************************)
(* Feature-development jobs: the in-memory store and its stage machine     *)
(* (crates/coding-agent/src/pending.rs), the tool that creates jobs        *)
(* (crates/tools/src/feature_development.rs), the delivery of their cards  *)
(* (src/bot/message_flow.rs, develop.rs) and the handlers of the cards'    *)
(* buttons (src/bot/develop_component.rs, develop_actions.rs).             *)
(*                                                                         *)
(* Every button press is an event of its own, handled by a task of its own *)
(* in a slot.  A press is issued while the card shows the button and may   *)
(* be handled after the card or the job has moved on.  A handler takes the *)
(* store's mutex once per step; Discord and GitHub calls lie between steps.*)
(***************************************************************************)
EXTENDS Naturals, FiniteSets

CONSTANTS Job,          \* job ids (Uuid), each used once
          Owner,        \* the configured owner
          Configurers,  \* users who go straight to the interactive flow
          Users,        \* everybody else
          Slot,         \* bound: button presses being handled at once
          Buttons,      \* the buttons that are pressed in this instance
          MaxPending,   \* DEVELOPMENT_PENDING_GLOBAL_MAX
          MaxRuns,      \* bound: workflow runs counted per job
          UpdatesAccepted,  \* instance: Discord accepts every update of a card
          None

Person == Configurers \cup Users

ASSUME OwnerAssumption == Owner \in Configurers /\ Configurers \cap Users = {}
ASSUME PendingAssumption == /\ MaxPending \in Nat /\ MaxRuns \in Nat
                            /\ None \notin Job \cup Person
                            /\ UpdatesAccepted \in BOOLEAN

VARIABLES
    stage,     \* DispatchStage of each job, or where it is outside the store
    hasModel,  \* selection.model is set
    expired,   \* is_expired: the clock passed expires_at
    by,        \* requester.user_id
    turn,      \* the agent turn that prepares the job
    card,      \* the components the job's Discord message shows
    press,     \* the button presses in flight and their handlers
    approved,  \* observer: the owner approved or took over the request
    runs       \* external: GitHub workflow runs started for the job

vars == <<stage, hasModel, expired, by, turn, card, press, approved, runs>>
store == <<stage, hasModel, expired, by>>

Terminal == {"Dispatched", "Rejected", "Cancelled"}
Live == {"AwaitingOwnerApproval", "ChoosingModel", "Confirming", "Dispatching"}
Stage == {"absent", "gone"} \cup Live \cup Terminal   \* absent: not prepared yet

Present(j) == stage[j] \in Live \cup Terminal
Pending == {j \in Job : stage[j] \in Live}            \* pending_count, ..._for_requester
PendingOf(u) == {j \in Pending : by[j] = u}

\* What each kind of card offers (develop_*_components).
ButtonsOn(c) ==
    CASE c = "approval" -> {"approve", "configure", "reject"}
      [] c = "model"    -> {"model", "cancel"}
      [] c = "confirm"  -> {"confirm", "back", "cancel"}
      [] OTHER          -> {}
Card == {"none", "approval", "model", "confirm", "closed"}
OwnerOnly == {"approve", "configure", "reject"}

Idle == [pc |-> "idle", job |-> None, button |-> None, who |-> None, shows |-> "none"]
PC == {"idle", "arrived", "act", "goBack", "respond", "ack", "gather", "trigger",
       "succeeded", "failed"}

Init == /\ stage = [j \in Job |-> "absent"]
        /\ hasModel = [j \in Job |-> FALSE]
        /\ expired = [j \in Job |-> FALSE]
        /\ by = [j \in Job |-> None]
        /\ turn = [j \in Job |-> "none"]
        /\ card = [j \in Job |-> "none"]
        /\ press = [s \in Slot |-> Idle]
        /\ approved = [j \in Job |-> FALSE]
        /\ runs = [j \in Job |-> 0]
-----------------------------------------------------------------------------
(* prepare_feature_development, inside an agent turn.                      *)

\* An owner or configurer gets an interactive job, unthrottled.
PrepareInteractive(j, u) ==
    /\ turn[j] = "none" /\ u \in Configurers
    /\ stage' = [stage EXCEPT ![j] = "ChoosingModel"]
    /\ by' = [by EXCEPT ![j] = u]
    /\ turn' = [turn EXCEPT ![j] = "prepared"]
    /\ UNCHANGED <<hasModel, expired, card, press, approved, runs>>

\* Anyone else passes the queue and per-requester limits first; the store's
\* mutex is released again before the job is inserted.
CheckLimits(j, u) ==
    /\ turn[j] = "none" /\ u \in Users
    /\ by' = [by EXCEPT ![j] = u]
    /\ turn' = [turn EXCEPT ![j] =
         IF Cardinality(Pending) < MaxPending /\ PendingOf(u) = {}
           THEN "checked" ELSE "over"]
    /\ UNCHANGED <<stage, hasModel, expired, card, press, approved, runs>>

\* The rate limiter refuses the request, or the job is inserted with the
\* configured default agent and model.
InsertRequest(j) ==
    /\ turn[j] = "checked"
    /\ \/ /\ turn' = [turn EXCEPT ![j] = "over"]
          /\ UNCHANGED <<stage, hasModel>>
       \/ /\ stage' = [stage EXCEPT ![j] = "AwaitingOwnerApproval"]
          /\ hasModel' = [hasModel EXCEPT ![j] = TRUE]
          /\ turn' = [turn EXCEPT ![j] = "prepared"]
    /\ UNCHANGED <<expired, by, card, press, approved, runs>>

(* handle_message, once the turn is over.                                  *)

\* start_develop_flow / notify_owner_for_approval: the card is sent.
DeliverCard(j) ==
    /\ turn[j] = "prepared"
    /\ turn' = [turn EXCEPT ![j] = "over"]
    /\ card' = [card EXCEPT ![j] = IF by[j] \in Configurers THEN "model" ELSE "approval"]
    /\ UNCHANGED <<store, press, approved, runs>>

\* Discord takes no card: an approval request is cancelled, the send error of
\* an interactive job is dropped.
DeliverFails(j) ==
    /\ turn[j] = "prepared"
    /\ turn' = [turn EXCEPT ![j] = "over"]
    /\ stage' = IF by[j] \in Users /\ Present(j)
                  THEN [stage EXCEPT ![j] = "Cancelled"] ELSE stage
    /\ UNCHANGED <<hasModel, expired, by, card, press, approved, runs>>

\* The turn was cancelled by its author, nobody addressed the bot, or a later
\* call of the tool replaced control_action: no card is sent.
AbandonTurn(j) ==
    /\ turn[j] = "prepared"
    /\ turn' = [turn EXCEPT ![j] = "over"]
    /\ UNCHANGED <<store, card, press, approved, runs>>
-----------------------------------------------------------------------------
(* handle_develop_component and the handlers it calls.                     *)

Free(s) == press' = [press EXCEPT ![s] = Idle]
Goto(s, pc) == press' = [press EXCEPT ![s].pc = pc]
Answer(s, c) == press' = [press EXCEPT ![s].pc = "respond", ![s].shows = c]

\* at(s, pc): handler s is about to do step pc; on(s, b): for button b.
at(s, pc) == press[s].pc = pc
on(s, b) == at(s, "act") /\ press[s].button = b
SetStage(j, g) == stage' = [stage EXCEPT ![j] = g]

\* The press of slot s is the owner's answer to an approval card.
OwnerDecided(s) == press[s].who = Owner /\ press[s].button \in {"approve", "configure"}

Press(s, j, b, u) ==
    /\ at(s, "idle")
    /\ b \in ButtonsOn(card[j]) \cap Buttons
    /\ press' = [press EXCEPT ![s] = [pc |-> "arrived", job |-> j, button |-> b,
                                      who |-> u, shows |-> "none"]]
    /\ UNCHANGED <<store, turn, card, approved, runs>>

\* MUTANT: the requester may press every button of the job's card.
AdmitRequester(s) ==
    /\ at(s, "arrived")
    /\ LET j == press[s].job IN
         IF Present(j) /\ press[s].who \in {Owner, by[j]} /\ ~expired[j]
           THEN Goto(s, "act") ELSE Free(s)
    /\ UNCHANGED <<store, turn, card, approved, runs>>

\* Unknown job, unauthorized caller, expired job: an ephemeral reply only.
Admit(s) ==
    /\ at(s, "arrived")
    /\ LET j == press[s].job
           authorized == \/ press[s].who = Owner
                         \/ press[s].button \notin OwnerOnly /\ press[s].who = by[j]
       IN  IF Present(j) /\ authorized /\ ~expired[j] THEN Goto(s, "act") ELSE Free(s)
    /\ UNCHANGED <<store, turn, card, approved, runs>>

\* develop_on_model: whatever the stage is by now.
OnModel(s) ==
    /\ on(s, "model")
    /\ LET j == press[s].job IN
         IF Present(j)
           THEN /\ SetStage(j, "Confirming")
                /\ hasModel' = [hasModel EXCEPT ![j] = TRUE]
                /\ Answer(s, "confirm")
           ELSE Free(s) /\ UNCHANGED <<stage, hasModel>>
    /\ UNCHANGED <<expired, by, turn, card, approved, runs>>

\* develop_on_back reads the stage, and in a later step goes back.
OnBack(s) ==
    /\ on(s, "back")
    /\ IF stage[press[s].job] = "Confirming" THEN Goto(s, "goBack") ELSE Free(s)
    /\ UNCHANGED <<store, turn, card, approved, runs>>

GoBack(s) ==
    /\ at(s, "goBack")
    /\ LET j == press[s].job IN
         IF Present(j)
           THEN /\ SetStage(j, "ChoosingModel")
                /\ hasModel' = [hasModel EXCEPT ![j] = FALSE]
           ELSE UNCHANGED <<stage, hasModel>>
    /\ Answer(s, "model")
    /\ UNCHANGED <<expired, by, turn, card, approved, runs>>

\* try_begin_configuration.
OnConfigure(s) ==
    /\ on(s, "configure")
    /\ LET j == press[s].job IN
         IF stage[j] = "AwaitingOwnerApproval" /\ ~expired[j]
           THEN /\ SetStage(j, "ChoosingModel")
                /\ approved' = [approved EXCEPT ![j] = @ \/ OwnerDecided(s)]
                /\ Answer(s, "model")
           ELSE Free(s) /\ UNCHANGED <<stage, approved>>
    /\ UNCHANGED <<hasModel, expired, by, turn, card, runs>>

\* try_reject.
OnReject(s) ==
    /\ on(s, "reject")
    /\ LET j == press[s].job IN
         IF stage[j] \in Live \ {"Dispatching"}
           THEN SetStage(j, "Rejected") /\ Answer(s, "closed")
           ELSE Free(s) /\ UNCHANGED stage
    /\ UNCHANGED <<hasModel, expired, by, turn, card, approved, runs>>

\* cancel: whatever the stage is by now.
OnCancel(s) ==
    /\ on(s, "cancel")
    /\ LET j == press[s].job IN
         IF Present(j) THEN SetStage(j, "Cancelled") ELSE UNCHANGED stage
    /\ Answer(s, "closed")
    /\ UNCHANGED <<hasModel, expired, by, turn, card, approved, runs>>

\* try_start_dispatch (confirm) and try_approve_with_defaults (approve).
StartDispatch(s) ==
    /\ on(s, "confirm") \/ on(s, "approve")
    /\ LET j == press[s].job
           ready == IF press[s].button = "confirm"
                      THEN stage[j] = "Confirming"
                      ELSE stage[j] = "AwaitingOwnerApproval" /\ hasModel[j]
       IN  IF ready /\ ~expired[j]
             THEN /\ SetStage(j, "Dispatching")
                  /\ approved' = [approved EXCEPT ![j] = @ \/ OwnerDecided(s)]
                  /\ Goto(s, "ack")
             ELSE Free(s) /\ UNCHANGED <<stage, approved>>
    /\ UNCHANGED <<hasModel, expired, by, turn, card, runs>>

\* MUTANT: the update leaves the card's buttons where they are.
AckKeepsButtons(s) ==
    /\ at(s, "ack")
    /\ Goto(s, "gather")
    /\ UNCHANGED <<store, turn, card, approved, runs>>

\* The interaction is answered: the card loses its buttons, unless Discord
\* refuses the update (the error is dropped).
Ack(s) ==
    /\ at(s, "ack")
    /\ \/ card' = [card EXCEPT ![press[s].job] = "closed"]
       \/ ~UpdatesAccepted /\ UNCHANGED card
    /\ Goto(s, "gather")
    /\ UNCHANGED <<store, turn, approved, runs>>

\* The selection is read again; without a model the dispatch fails.  So does
\* a default model that is not in the catalog.
Gather(s) ==
    /\ at(s, "gather")
    /\ \/ hasModel[press[s].job] /\ Present(press[s].job) /\ Goto(s, "trigger")
       \/ Goto(s, "failed")
    /\ UNCHANGED <<store, turn, card, approved, runs>>

\* trigger_workflow_dispatch: GitHub starts a run and says so; it does not;
\* or it starts one and the answer is lost.
Trigger(s) ==
    /\ at(s, "trigger")
    /\ LET j == press[s].job IN
         \/ /\ runs[j] < MaxRuns
            /\ runs' = [runs EXCEPT ![j] = @ + 1]
            /\ Goto(s, "succeeded") \/ Goto(s, "failed")
         \/ Goto(s, "failed") /\ UNCHANGED runs
    /\ UNCHANGED <<store, turn, card, approved>>

\* mark_dispatched / mark_dispatch_failed, then the reply's text is edited;
\* its components stay as they are.
MarkDispatched(s) ==
    /\ at(s, "succeeded")
    /\ LET j == press[s].job IN
         IF Present(j) THEN SetStage(j, "Dispatched") ELSE UNCHANGED stage
    /\ Free(s)
    /\ UNCHANGED <<hasModel, expired, by, turn, card, approved, runs>>

\* MUTANT: the stage is not reset.
MarkDispatchFailedForgets(s) ==
    /\ at(s, "failed")
    /\ Free(s)
    /\ UNCHANGED <<store, turn, card, approved, runs>>

MarkDispatchFailed(s) ==
    /\ at(s, "failed")
    /\ LET j == press[s].job IN
         IF stage[j] = "Dispatching" THEN SetStage(j, "Confirming") ELSE UNCHANGED stage
    /\ Free(s)
    /\ UNCHANGED <<hasModel, expired, by, turn, card, approved, runs>>

\* CreateInteractionResponse::UpdateMessage, or its dropped error.
Respond(s) ==
    /\ at(s, "respond")
    /\ \/ card' = [card EXCEPT ![press[s].job] = press[s].shows]
       \/ ~UpdatesAccepted /\ UNCHANGED card
    /\ Free(s)
    /\ UNCHANGED <<store, turn, approved, runs>>

Handle(s) == \/ Admit(s) \/ OnModel(s) \/ OnBack(s) \/ GoBack(s)
             \/ OnConfigure(s) \/ OnReject(s) \/ OnCancel(s) \/ StartDispatch(s)
             \/ Ack(s) \/ Gather(s) \/ MarkDispatched(s) \/ MarkDispatchFailed(s)
             \/ Respond(s)
-----------------------------------------------------------------------------
Expire(j) ==
    /\ Present(j) /\ ~expired[j]
    /\ expired' = [expired EXCEPT ![j] = TRUE]
    /\ UNCHANGED <<stage, hasModel, by, turn, card, press, approved, runs>>

\* The process restarts: jobs are held in memory only, their cards remain.
Restart ==
    /\ stage' = [j \in Job |-> IF Present(j) THEN "gone" ELSE stage[j]]
    /\ turn' = [j \in Job |-> IF turn[j] = "none" THEN "none" ELSE "over"]
    /\ press' = [s \in Slot |-> Idle]
    /\ UNCHANGED <<hasModel, expired, by, card, approved, runs>>

Turn(j) == \/ \E u \in Person : PrepareInteractive(j, u) \/ CheckLimits(j, u)
           \/ InsertRequest(j)
           \/ DeliverCard(j) \/ DeliverFails(j) \/ AbandonTurn(j)

Next == \/ \E j \in Job : Turn(j) \/ Expire(j)
        \/ \E s \in Slot :
             \/ Handle(s) \/ Trigger(s)
             \/ \E j \in Job, u \in Person : \E b \in Buttons : Press(s, j, b, u)
        \/ Restart

Spec == Init /\ [][Next]_vars

\* A handler that has started runs on; nothing is assumed of GitHub.
FairSpec == Spec /\ \A s \in Slot : WF_vars(Handle(s))
-----------------------------------------------------------------------------
TypeOK == /\ stage \in [Job -> Stage]
          /\ hasModel \in [Job -> BOOLEAN]
          /\ expired \in [Job -> BOOLEAN]
          /\ by \in [Job -> Person \cup {None}]
          /\ turn \in [Job -> {"none", "checked", "prepared", "over"}]
          /\ card \in [Job -> Card]
          /\ press \in [Slot -> [pc : PC, job : Job \cup {None},
                                 button : Buttons \cup {None},
                                 who : Person \cup {None}, shows : Card]]
          /\ \A j \in Job : Present(j) => by[j] \in Person
          /\ approved \in [Job -> BOOLEAN]
          /\ runs \in [Job -> 0..MaxRuns]

\* "Only the owner may authorize execution" (feature_development.rs:174): no
\* workflow runs, and no dispatch starts, for the request of somebody who is
\* neither owner nor configurer until the owner pressed approve or configure,
\* however many presses of whomever are in flight.
OwnerDecidesFirst ==
    \A j \in Job : by[j] \in Users /\ (runs[j] > 0 \/ stage[j] = "Dispatching")
                     => approved[j]

\* One job starts at most one workflow run ("prevents double-dispatch",
\* pending.rs:252).
DispatchedAtMostOnce == \A j \in Job : runs[j] <= 1

\* A job that was dispatched, rejected or cancelled stays so: its stage is
\* never revived by a press that was in flight.
TerminalIsFinal ==
    [][\A j \in Job : stage[j] \in Terminal => stage'[j] \in {stage[j], "gone"}]_vars

\* No dispatch hangs half-way: whichever way the handler leaves the
\* Dispatching stage, it leaves it, provided GitHub answers.
GitHubAnswers == \A s \in Slot : [](at(s, "trigger") => <>~at(s, "trigger"))
DispatchSettles ==
    GitHubAnswers =>
      \A j \in Job : stage[j] = "Dispatching" ~> stage[j] # "Dispatching"
=============================================================================
