-------------------------- MODULE PendingJobsProofs --------------------------
(***************************************************************************)
(* What the development jobs keep for any number of jobs, people and       *)
(* presses in flight: nothing runs for a user before the owner decides;    *)
(* an approval card starts one run; and presses handled one at a time      *)
(* start one run and revive no job.                                        *)
(***************************************************************************)
EXTENDS PendingJobs, TLAPS

\* Slot s handles a press on a card of job j.
For(s, j) == press[s].pc # "idle" /\ press[s].job = j

\* A press is of a job, and only the owner gets past the admission with an
\* owner's button.
Admitted ==
    \A s \in Slot : press[s].pc # "idle" =>
       /\ press[s].job \in Job /\ press[s].button \in Buttons /\ press[s].who \in Person
       /\ press[s].pc = "act" /\ press[s].button \in OwnerOnly => press[s].who = Owner
       /\ press[s].pc \in {"ack", "gather", "trigger", "succeeded", "failed"} =>
             press[s].button \in {"confirm", "approve"}

\* Of a job that is not prepared yet there is nothing.
Unprepared ==
    \A j \in Job : turn[j] \in {"none", "checked"} =>
       /\ stage[j] = "absent" /\ card[j] = "none" /\ runs[j] = 0 /\ ~approved[j]
       /\ turn[j] = "checked" => by[j] \in Users
       /\ \A s \in Slot : ~For(s, j)

\* A user's request the owner has not decided on shows at most the approval
\* card, and its presses are on that card.
Undecided ==
    \A j \in Job : by[j] \in Users /\ ~approved[j] =>
       /\ stage[j] \notin {"ChoosingModel", "Confirming", "Dispatching"} /\ runs[j] = 0
       /\ card[j] \in {"none", "approval", "closed"}
       /\ \A s \in Slot : For(s, j) =>
             \/ press[s].pc \in {"arrived", "act"} /\ press[s].button \in OwnerOnly
             \/ press[s].pc = "respond" /\ press[s].shows = "closed"

OInv == TypeOK /\ Admitted /\ Unprepared /\ Undecided

\* The one dispatch of a job that only its approval card can start.
Working(s, j) == For(s, j) /\ press[s].pc \in {"ack", "gather", "trigger", "succeeded", "failed"}
OneDispatch ==
    \A j \in Job :
       /\ runs[j] <= 1
       /\ \A s, r \in Slot : Working(s, j) /\ Working(r, j) => s = r
       /\ \A s \in Slot : Working(s, j) /\ press[s].pc \in {"ack", "gather", "trigger"} => runs[j] = 0
       /\ stage[j] = "AwaitingOwnerApproval" => runs[j] = 0 /\ \A s \in Slot : ~Working(s, j)

AInv == OInv /\ OneDispatch

\* With one press at a time and every update shown, a card that has buttons is
\* of a job that waits for one of them.
Waits(j) == stage[j] \notin Terminal \cup {"Dispatching"} /\ runs[j] = 0
InStep ==
    /\ \A j \in Job : turn[j] = "prepared" =>
          /\ stage[j] \in {"AwaitingOwnerApproval", "ChoosingModel"} /\ card[j] = "none" /\ runs[j] = 0
          /\ \A s \in Slot : ~For(s, j)
    /\ \A j \in Job : runs[j] <= 1
    /\ \A j \in Job : card[j] \in {"approval", "model", "confirm"} =>
          Waits(j) \/ \E s \in Slot : For(s, j) /\ press[s].pc \in {"respond", "ack"}
    /\ \A s \in Slot : press[s].pc # "idle" =>
          /\ press[s].pc \in {"arrived", "act", "goBack"} => Waits(press[s].job)
          /\ press[s].pc = "respond" => Waits(press[s].job) \/ press[s].shows = "closed"
          /\ press[s].pc \in {"respond", "ack", "gather", "trigger"} => runs[press[s].job] = 0
          /\ press[s].pc \in {"ack", "gather", "trigger", "succeeded", "failed"} => stage[press[s].job] = "Dispatching"
          /\ press[s].pc \in {"gather", "trigger", "succeeded", "failed"} => card[press[s].job] = "closed"

SInv == OInv /\ InStep

-----------------------------------------------------------------------------
(* What a handler does to its slot.                                        *)

\* The press of slot s goes on to step pc; the others stay.
Moved(s, pc) == /\ press'[s].pc = pc /\ press'[s].job = press[s].job
                /\ press'[s].button = press[s].button /\ press'[s].who = press[s].who
                /\ \A r \in Slot \ {s} : press'[r] = press[r]

\* Slot s is free again; the others stay.
Freed(s) == press'[s] = Idle /\ \A r \in Slot \ {s} : press'[r] = press[r]

Presses == [Slot -> [pc : PC, job : Job \cup {None}, button : Buttons \cup {None},
                     who : Person \cup {None}, shows : Card]]

\* A press's fields have their types.
LEMMA PressFields ==
  ASSUME press \in Presses, NEW s \in Slot
  PROVE  /\ press[s].pc \in PC /\ press[s].job \in Job \cup {None}
         /\ press[s].button \in Buttons \cup {None} /\ press[s].who \in Person \cup {None}
         /\ press[s].shows \in Card
BY DEF Presses

\* Goto moves the press and changes no other field.
LEMMA GotoMoves ==
  ASSUME press \in Presses, NEW s \in Slot, NEW pc \in PC, Goto(s, pc)
  PROVE  press' \in Presses /\ Moved(s, pc) /\ press'[s].shows = press[s].shows
BY DEF Presses, Moved, Goto

\* Answer moves the press to its response.
LEMMA AnswerMoves ==
  ASSUME press \in Presses, NEW s \in Slot, NEW c \in Card, Answer(s, c)
  PROVE  press' \in Presses /\ Moved(s, "respond") /\ press'[s].shows = c
<1>1. "respond" \in PC BY DEF PC
<1> QED BY <1>1 DEF Presses, Moved, Answer

\* Free empties the slot.
LEMMA FreeFrees ==
  ASSUME press \in Presses, NEW s \in Slot, Free(s)
  PROVE  press' \in Presses /\ Freed(s)
<1>1. Idle \in [pc : PC, job : Job \cup {None}, button : Buttons \cup {None},
                who : Person \cup {None}, shows : Card]
  BY DEF Idle, PC, Card
<1> QED BY <1>1 DEF Presses, Freed, Free

(* What each handler does, its effects on the slot as Moved and Freed.       *)

\* A press is refused, or admitted with an owner's button from the owner only.
LEMMA AdmitDoes ==
  ASSUME press \in Presses, NEW s \in Slot, Admit(s)
  PROVE  /\ press' \in Presses
         /\ at(s, "arrived")
         /\ UNCHANGED <<stage, hasModel, expired, by, turn, card, approved, runs>>
         /\ \/ Freed(s)
            \/ /\ Moved(s, "act") /\ Present(press[s].job)
               /\ press[s].button \in OwnerOnly => press[s].who = Owner
BY GotoMoves, AnswerMoves, FreeFrees DEF Admit, PC, Card, at, on, store

\* The model menu writes Confirming into any job that is present.
LEMMA OnModelDoes ==
  ASSUME press \in Presses, NEW s \in Slot, OnModel(s)
  PROVE  /\ press' \in Presses
         /\ on(s, "model")
         /\ UNCHANGED <<expired, by, turn, card, approved, runs>>
         /\ \/ Freed(s) /\ UNCHANGED <<stage, hasModel>>
            \/ /\ Moved(s, "respond") /\ press'[s].shows = "confirm" /\ Present(press[s].job)
               /\ SetStage(press[s].job, "Confirming")
               /\ hasModel' = [hasModel EXCEPT ![press[s].job] = TRUE]
BY GotoMoves, AnswerMoves, FreeFrees DEF OnModel, PC, Card, at, on, store

\* Back looks at the stage and leaves it.
LEMMA OnBackDoes ==
  ASSUME press \in Presses, NEW s \in Slot, OnBack(s)
  PROVE  /\ press' \in Presses
         /\ on(s, "back")
         /\ UNCHANGED <<stage, hasModel, expired, by, turn, card, approved, runs>>
         /\ \/ Freed(s)
            \/ Moved(s, "goBack")
BY GotoMoves, AnswerMoves, FreeFrees DEF OnBack, PC, Card, at, on, store

\* Going back writes ChoosingModel into any job that is present.
LEMMA GoBackDoes ==
  ASSUME press \in Presses, NEW s \in Slot, GoBack(s)
  PROVE  /\ press' \in Presses
         /\ at(s, "goBack")
         /\ UNCHANGED <<expired, by, turn, card, approved, runs>>
         /\ Moved(s, "respond") /\ press'[s].shows = "model"
         /\ \/ UNCHANGED <<stage, hasModel>>
            \/ /\ Present(press[s].job) /\ SetStage(press[s].job, "ChoosingModel")
               /\ hasModel' = [hasModel EXCEPT ![press[s].job] = FALSE]
BY GotoMoves, AnswerMoves, FreeFrees DEF GoBack, PC, Card, at, on, store

\* Configure takes a request that waits for the owner, and notes who did.
LEMMA OnConfigureDoes ==
  ASSUME press \in Presses, NEW s \in Slot, OnConfigure(s)
  PROVE  /\ press' \in Presses
         /\ on(s, "configure")
         /\ UNCHANGED <<hasModel, expired, by, turn, card, runs>>
         /\ \/ Freed(s) /\ UNCHANGED <<stage, approved>>
            \/ /\ Moved(s, "respond") /\ press'[s].shows = "model"
               /\ stage[press[s].job] = "AwaitingOwnerApproval"
               /\ SetStage(press[s].job, "ChoosingModel")
               /\ approved' = [approved EXCEPT ![press[s].job] = @ \/ OwnerDecided(s)]
BY GotoMoves, AnswerMoves, FreeFrees DEF OnConfigure, PC, Card, at, on, store

\* Reject ends a job that is live and not being dispatched.
LEMMA OnRejectDoes ==
  ASSUME press \in Presses, NEW s \in Slot, OnReject(s)
  PROVE  /\ press' \in Presses
         /\ on(s, "reject")
         /\ UNCHANGED <<hasModel, expired, by, turn, card, approved, runs>>
         /\ \/ Freed(s) /\ UNCHANGED stage
            \/ /\ Moved(s, "respond") /\ press'[s].shows = "closed"
               /\ stage[press[s].job] \in Live \ {"Dispatching"}
               /\ SetStage(press[s].job, "Rejected")
BY GotoMoves, AnswerMoves, FreeFrees DEF OnReject, PC, Card, at, on, store

\* Cancel ends any job that is present.
LEMMA OnCancelDoes ==
  ASSUME press \in Presses, NEW s \in Slot, OnCancel(s)
  PROVE  /\ press' \in Presses
         /\ on(s, "cancel")
         /\ UNCHANGED <<hasModel, expired, by, turn, card, approved, runs>>
         /\ Moved(s, "respond") /\ press'[s].shows = "closed"
         /\ \/ UNCHANGED stage
            \/ Present(press[s].job) /\ SetStage(press[s].job, "Cancelled")
BY GotoMoves, AnswerMoves, FreeFrees DEF OnCancel, PC, Card, at, on, store

\* A dispatch begins at the stage its button requires.
LEMMA StartDispatchDoes ==
  ASSUME press \in Presses, NEW s \in Slot, StartDispatch(s)
  PROVE  /\ press' \in Presses
         /\ (on(s, "confirm") \/ on(s, "approve"))
         /\ UNCHANGED <<hasModel, expired, by, turn, card, runs>>
         /\ \/ Freed(s) /\ UNCHANGED <<stage, approved>>
            \/ /\ Moved(s, "ack") /\ SetStage(press[s].job, "Dispatching")
               /\ \/ press[s].button = "confirm" /\ stage[press[s].job] = "Confirming"
                  \/ press[s].button = "approve" /\ stage[press[s].job] = "AwaitingOwnerApproval"
               /\ approved' = [approved EXCEPT ![press[s].job] = @ \/ OwnerDecided(s)]
BY GotoMoves, AnswerMoves, FreeFrees DEF StartDispatch, PC, Card, at, on, store

\* The acknowledgement closes the card, unless Discord refuses it.
LEMMA AckDoes ==
  ASSUME press \in Presses, NEW s \in Slot, Ack(s)
  PROVE  /\ press' \in Presses
         /\ at(s, "ack")
         /\ UNCHANGED <<stage, hasModel, expired, by, turn, approved, runs>>
         /\ Moved(s, "gather")
         /\ \/ card' = [card EXCEPT ![press[s].job] = "closed"]
            \/ ~UpdatesAccepted /\ UNCHANGED card
BY GotoMoves, AnswerMoves, FreeFrees DEF Ack, PC, Card, at, on, store

\* Gathering the selection leads to the trigger or to a failure.
LEMMA GatherDoes ==
  ASSUME press \in Presses, NEW s \in Slot, Gather(s)
  PROVE  /\ press' \in Presses
         /\ at(s, "gather")
         /\ UNCHANGED <<stage, hasModel, expired, by, turn, card, approved, runs>>
         /\ Moved(s, "trigger") \/ Moved(s, "failed")
BY GotoMoves, AnswerMoves, FreeFrees DEF Gather, PC, Card, at, on, store

\* The trigger starts at most one run.
LEMMA TriggerDoes ==
  ASSUME press \in Presses, NEW s \in Slot, Trigger(s)
  PROVE  /\ press' \in Presses
         /\ at(s, "trigger")
         /\ UNCHANGED <<stage, hasModel, expired, by, turn, card, approved>>
         /\ \/ /\ Moved(s, "succeeded") \/ Moved(s, "failed")
               /\ runs[press[s].job] < MaxRuns
               /\ runs' = [runs EXCEPT ![press[s].job] = @ + 1]
            \/ Moved(s, "failed") /\ UNCHANGED runs
BY GotoMoves, AnswerMoves, FreeFrees DEF Trigger, PC, Card, at, on, store

\* A dispatched job is marked so if it is still there.
LEMMA MarkDispatchedDoes ==
  ASSUME press \in Presses, NEW s \in Slot, MarkDispatched(s)
  PROVE  /\ press' \in Presses
         /\ at(s, "succeeded")
         /\ UNCHANGED <<hasModel, expired, by, turn, card, approved, runs>>
         /\ Freed(s)
         /\ \/ UNCHANGED stage
            \/ Present(press[s].job) /\ SetStage(press[s].job, "Dispatched")
BY GotoMoves, AnswerMoves, FreeFrees DEF MarkDispatched, PC, Card, at, on, store

\* A failed dispatch goes back to Confirming.
LEMMA MarkDispatchFailedDoes ==
  ASSUME press \in Presses, NEW s \in Slot, MarkDispatchFailed(s)
  PROVE  /\ press' \in Presses
         /\ at(s, "failed")
         /\ UNCHANGED <<hasModel, expired, by, turn, card, approved, runs>>
         /\ Freed(s)
         /\ \/ UNCHANGED stage
            \/ stage[press[s].job] = "Dispatching" /\ SetStage(press[s].job, "Confirming")
BY GotoMoves, AnswerMoves, FreeFrees DEF MarkDispatchFailed, PC, Card, at, on, store

\* The answer changes the card, unless Discord refuses it.
LEMMA RespondDoes ==
  ASSUME press \in Presses, NEW s \in Slot, Respond(s)
  PROVE  /\ press' \in Presses
         /\ at(s, "respond")
         /\ UNCHANGED <<stage, hasModel, expired, by, turn, approved, runs>>
         /\ Freed(s)
         /\ \/ card' = [card EXCEPT ![press[s].job] = press[s].shows]
            \/ ~UpdatesAccepted /\ UNCHANGED card
BY GotoMoves, AnswerMoves, FreeFrees DEF Respond, PC, Card, at, on, store

-----------------------------------------------------------------------------
(* Types.                                                                  *)

\* Everything of TypeOK but the presses.
Fields == /\ stage \in [Job -> Stage]
          /\ hasModel \in [Job -> BOOLEAN]
          /\ expired \in [Job -> BOOLEAN]
          /\ by \in [Job -> Person \cup {None}]
          /\ turn \in [Job -> {"none", "checked", "prepared", "over"}]
          /\ card \in [Job -> Card]
          /\ \A j \in Job : Present(j) => by[j] \in Person
          /\ approved \in [Job -> BOOLEAN]
          /\ runs \in [Job -> 0..MaxRuns]

\* TypeOK is the type of the slots and that of the jobs.
LEMMA TypeParts == TypeOK <=> press \in Presses /\ Fields
BY DEF TypeOK, Presses, Fields

\* A press in flight names a job.
LEMMA PressedJob ==
  ASSUME press \in Presses, Admitted, NEW s \in Slot, press[s].pc # "idle"
  PROVE  press[s].job \in Job
BY DEF Admitted

\* A job that is present gets another stage.
LEMMA StageSet ==
  ASSUME Fields, NEW j \in Job, NEW g \in Stage, Present(j), SetStage(j, g), by' = by
  PROVE  stage' \in [Job -> Stage] /\ \A i \in Job : Present(i)' => by'[i] \in Person
<1>1. \A i \in Job : i # j => stage'[i] = stage[i]
  BY DEF SetStage, Fields
<1>2. stage' \in [Job -> Stage]
  BY DEF SetStage, Fields
<1>3. \A i \in Job : Present(i)' => Present(i)
  BY <1>1 DEF Present
<1> QED BY <1>2, <1>3 DEF Fields

\* The slots keep their type.
LEMMA PressesStep ==
  ASSUME press \in Presses, Fields, [Next]_vars PROVE press' \in Presses
<1>1. ASSUME NEW j \in Job, NEW u \in Person, PrepareInteractive(j, u)
      PROVE  press' \in Presses
  BY <1>1, PressFields DEF PrepareInteractive, Presses
<1>2. ASSUME NEW j \in Job, NEW u \in Person, CheckLimits(j, u)
      PROVE  press' \in Presses
  BY <1>2, PressFields DEF CheckLimits, Presses
<1>3. ASSUME NEW j \in Job, InsertRequest(j)
      PROVE  press' \in Presses
  BY <1>3, PressFields DEF InsertRequest, Presses
<1>4. ASSUME NEW j \in Job, DeliverCard(j)
      PROVE  press' \in Presses
  BY <1>4, PressFields DEF DeliverCard, Presses
<1>5. ASSUME NEW j \in Job, DeliverFails(j)
      PROVE  press' \in Presses
  BY <1>5, PressFields DEF DeliverFails, Presses
<1>6. ASSUME NEW j \in Job, AbandonTurn(j)
      PROVE  press' \in Presses
  BY <1>6, PressFields DEF AbandonTurn, Presses
<1>7. ASSUME NEW j \in Job, Expire(j)
      PROVE  press' \in Presses
  BY <1>7, PressFields DEF Expire, Presses
<1>8. ASSUME NEW s \in Slot, Admit(s)
      PROVE  press' \in Presses
  BY <1>8, AdmitDoes 
<1>9. ASSUME NEW s \in Slot, OnModel(s)
      PROVE  press' \in Presses
  BY <1>9, OnModelDoes 
<1>10. ASSUME NEW s \in Slot, OnBack(s)
      PROVE  press' \in Presses
  BY <1>10, OnBackDoes 
<1>11. ASSUME NEW s \in Slot, GoBack(s)
      PROVE  press' \in Presses
  BY <1>11, GoBackDoes 
<1>12. ASSUME NEW s \in Slot, OnConfigure(s)
      PROVE  press' \in Presses
  BY <1>12, OnConfigureDoes 
<1>13. ASSUME NEW s \in Slot, OnReject(s)
      PROVE  press' \in Presses
  BY <1>13, OnRejectDoes 
<1>14. ASSUME NEW s \in Slot, OnCancel(s)
      PROVE  press' \in Presses
  BY <1>14, OnCancelDoes 
<1>15. ASSUME NEW s \in Slot, StartDispatch(s)
      PROVE  press' \in Presses
  BY <1>15, StartDispatchDoes 
<1>16. ASSUME NEW s \in Slot, Ack(s)
      PROVE  press' \in Presses
  BY <1>16, AckDoes 
<1>17. ASSUME NEW s \in Slot, Gather(s)
      PROVE  press' \in Presses
  BY <1>17, GatherDoes 
<1>18. ASSUME NEW s \in Slot, Trigger(s)
      PROVE  press' \in Presses
  BY <1>18, TriggerDoes 
<1>19. ASSUME NEW s \in Slot, MarkDispatched(s)
      PROVE  press' \in Presses
  BY <1>19, MarkDispatchedDoes 
<1>20. ASSUME NEW s \in Slot, MarkDispatchFailed(s)
      PROVE  press' \in Presses
  BY <1>20, MarkDispatchFailedDoes 
<1>21. ASSUME NEW s \in Slot, Respond(s)
      PROVE  press' \in Presses
  BY <1>21, RespondDoes 
<1>22. ASSUME NEW s \in Slot, NEW j \in Job, NEW b \in Buttons, NEW u \in Person, Press(s, j, b, u)
      PROVE  press' \in Presses
  BY <1>22, PressFields DEF Press, Presses, PC, Card, store
<1>23. ASSUME Restart
      PROVE  press' \in Presses
  BY <1>23, PressFields DEF Restart, Presses, Idle, PC, Card
<1>24. CASE UNCHANGED vars
  BY <1>24 DEF vars, Presses
<1> QED
  BY <1>1, <1>2, <1>3, <1>4, <1>5, <1>6, <1>7, <1>8, <1>9, <1>10, <1>11, <1>12,
  <1>13, <1>14, <1>15, <1>16, <1>17, <1>18, <1>19, <1>20, <1>21, <1>22, <1>23,
  <1>24 DEF Next, Turn, Handle

\* The jobs keep their types.
LEMMA FieldsStep ==
  ASSUME press \in Presses, Admitted, Unprepared, Fields, [Next]_vars PROVE Fields'
<1>1. ASSUME NEW j \in Job, NEW u \in Person, PrepareInteractive(j, u)
      PROVE  Fields'
  BY <1>1, PressFields DEF PrepareInteractive, Fields, Stage, Live, Terminal,
  Present, Card, store, Person
<1>2. ASSUME NEW j \in Job, NEW u \in Person, CheckLimits(j, u)
      PROVE  Fields'
  BY <1>2, PressFields DEF CheckLimits, Fields, Stage, Live, Terminal, Present,
  Card, store, Person
<1>3. ASSUME NEW j \in Job, InsertRequest(j)
      PROVE  Fields'
  <2>1. by[j] \in Person BY <1>3 DEF InsertRequest, Unprepared, Person
  <2> QED BY <1>3, <2>1 DEF InsertRequest, Fields, Stage, Live, Terminal, Present
<1>4. ASSUME NEW j \in Job, DeliverCard(j)
      PROVE  Fields'
  BY <1>4, PressFields DEF DeliverCard, Fields, Stage, Live, Terminal, Present,
  Card, store, Person
<1>5. ASSUME NEW j \in Job, DeliverFails(j)
      PROVE  Fields'
  BY <1>5, PressFields DEF DeliverFails, Fields, Stage, Live, Terminal,
  Present, Card, store, Person
<1>6. ASSUME NEW j \in Job, AbandonTurn(j)
      PROVE  Fields'
  BY <1>6, PressFields DEF AbandonTurn, Fields, Stage, Live, Terminal, Present,
  Card, store, Person
<1>7. ASSUME NEW j \in Job, Expire(j)
      PROVE  Fields'
  BY <1>7, PressFields DEF Expire, Fields, Stage, Live, Terminal, Present,
  Card, store, Person
<1>8. ASSUME NEW s \in Slot, Admit(s)
      PROVE  Fields'
  BY <1>8, AdmitDoes, PressFields, PressedJob DEF Fields, Stage, Live, Terminal, Present,
  SetStage, OwnerDecided, Card, at, on
<1>9. ASSUME NEW s \in Slot, OnModel(s)
      PROVE  Fields'
  <2> DEFINE jj == press[s].job
  <2>1. jj \in Job BY <1>9, OnModelDoes, PressedJob DEF at, on
  <2>2. CASE UNCHANGED <<stage, hasModel>>
    BY <1>9, <2>2, OnModelDoes DEF Fields, Present
  <2>3. CASE /\ Present(jj) /\ SetStage(jj, "Confirming")
             /\ hasModel' = [hasModel EXCEPT ![jj] = TRUE]
    <3>1. stage' \in [Job -> Stage] /\ \A i \in Job : Present(i)' => by'[i] \in Person
      BY <1>9, <2>1, <2>3, OnModelDoes, StageSet DEF Stage, Live
    <3>2. hasModel' \in [Job -> BOOLEAN]
      BY <2>3 DEF Fields
    <3> QED BY <1>9, <3>1, <3>2, OnModelDoes DEF Fields
  <2> QED BY <1>9, <2>2, <2>3, OnModelDoes
<1>10. ASSUME NEW s \in Slot, OnBack(s)
      PROVE  Fields'
  BY <1>10, OnBackDoes, PressFields, PressedJob DEF Fields, Stage, Live, Terminal, Present,
  SetStage, OwnerDecided, Card, at, on
<1>11. ASSUME NEW s \in Slot, GoBack(s)
      PROVE  Fields'
  <2> DEFINE jj == press[s].job
  <2>1. jj \in Job BY <1>11, GoBackDoes, PressedJob DEF at, on
  <2>2. CASE UNCHANGED <<stage, hasModel>>
    BY <1>11, <2>2, GoBackDoes DEF Fields, Present
  <2>3. CASE /\ Present(jj) /\ SetStage(jj, "ChoosingModel")
             /\ hasModel' = [hasModel EXCEPT ![jj] = FALSE]
    <3>1. stage' \in [Job -> Stage] /\ \A i \in Job : Present(i)' => by'[i] \in Person
      BY <1>11, <2>1, <2>3, GoBackDoes, StageSet DEF Stage, Live
    <3>2. hasModel' \in [Job -> BOOLEAN]
      BY <2>3 DEF Fields
    <3> QED BY <1>11, <3>1, <3>2, GoBackDoes DEF Fields
  <2> QED BY <1>11, <2>2, <2>3, GoBackDoes
<1>12. ASSUME NEW s \in Slot, OnConfigure(s)
      PROVE  Fields'
  <2> DEFINE jj == press[s].job
  <2>1. jj \in Job BY <1>12, OnConfigureDoes, PressedJob DEF at, on
  <2>2. approved' \in [Job -> BOOLEAN]
    <3>1. \A ok \in BOOLEAN : [approved EXCEPT ![jj] = ok] \in [Job -> BOOLEAN]
      BY DEF Fields
    <3>2. (approved[jj] \/ OwnerDecided(s)) \in BOOLEAN BY <2>1 DEF Fields
    <3>3. approved' = [approved EXCEPT ![jj] = approved[jj] \/ OwnerDecided(s)] \/ approved' = approved
      BY <1>12, OnConfigureDoes
    <3> QED BY <3>1, <3>2, <3>3 DEF Fields
  <2> QED BY <1>12, <2>1, <2>2, OnConfigureDoes DEF Fields, Stage, Live, Terminal, Present, SetStage
<1>13. ASSUME NEW s \in Slot, OnReject(s)
      PROVE  Fields'
  BY <1>13, OnRejectDoes, PressFields, PressedJob DEF Fields, Stage, Live, Terminal,
  Present, SetStage, OwnerDecided, Card, at, on
<1>14. ASSUME NEW s \in Slot, OnCancel(s)
      PROVE  Fields'
  BY <1>14, OnCancelDoes, PressFields, PressedJob DEF Fields, Stage, Live, Terminal,
  Present, SetStage, OwnerDecided, Card, at, on
<1>15. ASSUME NEW s \in Slot, StartDispatch(s)
      PROVE  Fields'
  <2> DEFINE jj == press[s].job
  <2>1. jj \in Job BY <1>15, StartDispatchDoes, PressedJob DEF at, on
  <2>2. approved' \in [Job -> BOOLEAN]
    <3>1. \A ok \in BOOLEAN : [approved EXCEPT ![jj] = ok] \in [Job -> BOOLEAN]
      BY DEF Fields
    <3>2. (approved[jj] \/ OwnerDecided(s)) \in BOOLEAN BY <2>1 DEF Fields
    <3>3. approved' = [approved EXCEPT ![jj] = approved[jj] \/ OwnerDecided(s)] \/ approved' = approved
      BY <1>15, StartDispatchDoes
    <3> QED BY <3>1, <3>2, <3>3 DEF Fields
  <2> QED BY <1>15, <2>1, <2>2, StartDispatchDoes DEF Fields, Stage, Live, Terminal, Present, SetStage
<1>16. ASSUME NEW s \in Slot, Ack(s)
      PROVE  Fields'
  BY <1>16, AckDoes, PressFields, PressedJob DEF Fields, Stage, Live, Terminal, Present,
  SetStage, OwnerDecided, Card, at, on
<1>17. ASSUME NEW s \in Slot, Gather(s)
      PROVE  Fields'
  BY <1>17, GatherDoes, PressFields, PressedJob DEF Fields, Stage, Live, Terminal, Present,
  SetStage, OwnerDecided, Card, at, on
<1>18. ASSUME NEW s \in Slot, Trigger(s)
      PROVE  Fields'
  <2> DEFINE jj == press[s].job
  <2>1. jj \in Job BY <1>18, TriggerDoes, PressedJob DEF at
  <2>2. runs' \in [Job -> 0..MaxRuns]
    <3>1. ASSUME runs[jj] < MaxRuns PROVE runs[jj] + 1 \in 0..MaxRuns
      BY <2>1, <3>1, PendingAssumption DEF Fields
    <3> QED BY <1>18, <2>1, <3>1, TriggerDoes DEF Fields
  <2> QED BY <1>18, <2>2, TriggerDoes DEF Fields, Present
<1>19. ASSUME NEW s \in Slot, MarkDispatched(s)
      PROVE  Fields'
  BY <1>19, MarkDispatchedDoes, PressFields, PressedJob DEF Fields, Stage, Live, Terminal,
  Present, SetStage, OwnerDecided, Card, at, on
<1>20. ASSUME NEW s \in Slot, MarkDispatchFailed(s)
      PROVE  Fields'
  BY <1>20, MarkDispatchFailedDoes, PressFields, PressedJob DEF Fields, Stage, Live,
  Terminal, Present, SetStage, OwnerDecided, Card, at, on
<1>21. ASSUME NEW s \in Slot, Respond(s)
      PROVE  Fields'
  BY <1>21, RespondDoes, PressFields, PressedJob DEF Fields, Stage, Live, Terminal,
  Present, SetStage, OwnerDecided, Card, at, on
<1>22. ASSUME NEW s \in Slot, NEW j \in Job, NEW b \in Buttons, NEW u \in Person, Press(s, j, b, u)
      PROVE  Fields'
  BY <1>22, PressFields DEF Press, Fields, Stage, Live, Terminal, Present,
  Card, store, Person
<1>23. ASSUME Restart
      PROVE  Fields'
  BY <1>23, PressFields DEF Restart, Fields, Stage, Live, Terminal, Present,
  Card, store, Person
<1>24. CASE UNCHANGED vars
  BY <1>24 DEF vars, Fields, Stage, Live, Terminal, Present, Card, store,
  Person
<1> QED
  BY <1>1, <1>2, <1>3, <1>4, <1>5, <1>6, <1>7, <1>8, <1>9, <1>10, <1>11, <1>12,
  <1>13, <1>14, <1>15, <1>16, <1>17, <1>18, <1>19, <1>20, <1>21, <1>22, <1>23,
  <1>24 DEF Next, Turn, Handle

-----------------------------------------------------------------------------
(* The owner decides first.                                                *)

\* A press that got past the admission keeps its button and its presser.
LEMMA AdmittedStep ==
  ASSUME press \in Presses, Fields, Admitted, [Next]_vars PROVE Admitted'
<1>1. ASSUME NEW j \in Job, NEW u \in Person, PrepareInteractive(j, u)
      PROVE  Admitted'
  BY <1>1, PressFields DEF PrepareInteractive, Admitted, at, Idle, OwnerOnly
<1>2. ASSUME NEW j \in Job, NEW u \in Person, CheckLimits(j, u)
      PROVE  Admitted'
  BY <1>2, PressFields DEF CheckLimits, Admitted, at, Idle, OwnerOnly
<1>3. ASSUME NEW j \in Job, InsertRequest(j)
      PROVE  Admitted'
  BY <1>3, PressFields DEF InsertRequest, Admitted, at, Idle, OwnerOnly
<1>4. ASSUME NEW j \in Job, DeliverCard(j)
      PROVE  Admitted'
  BY <1>4, PressFields DEF DeliverCard, Admitted, at, Idle, OwnerOnly
<1>5. ASSUME NEW j \in Job, DeliverFails(j)
      PROVE  Admitted'
  BY <1>5, PressFields DEF DeliverFails, Admitted, at, Idle, OwnerOnly
<1>6. ASSUME NEW j \in Job, AbandonTurn(j)
      PROVE  Admitted'
  BY <1>6, PressFields DEF AbandonTurn, Admitted, at, Idle, OwnerOnly
<1>7. ASSUME NEW j \in Job, Expire(j)
      PROVE  Admitted'
  BY <1>7, PressFields DEF Expire, Admitted, at, Idle, OwnerOnly
<1>8. ASSUME NEW s \in Slot, Admit(s)
      PROVE  Admitted'
  BY <1>8, AdmitDoes, PressFields DEF Admitted, Moved, Freed, Idle, at, on,
  OwnerOnly
<1>9. ASSUME NEW s \in Slot, OnModel(s)
      PROVE  Admitted'
  BY <1>9, OnModelDoes, PressFields DEF Admitted, Moved, Freed, Idle, at, on,
  OwnerOnly
<1>10. ASSUME NEW s \in Slot, OnBack(s)
      PROVE  Admitted'
  BY <1>10, OnBackDoes, PressFields DEF Admitted, Moved, Freed, Idle, at, on,
  OwnerOnly
<1>11. ASSUME NEW s \in Slot, GoBack(s)
      PROVE  Admitted'
  BY <1>11, GoBackDoes, PressFields DEF Admitted, Moved, Freed, Idle, at, on,
  OwnerOnly
<1>12. ASSUME NEW s \in Slot, OnConfigure(s)
      PROVE  Admitted'
  BY <1>12, OnConfigureDoes, PressFields DEF Admitted, Moved, Freed, Idle, at,
  on, OwnerOnly
<1>13. ASSUME NEW s \in Slot, OnReject(s)
      PROVE  Admitted'
  BY <1>13, OnRejectDoes, PressFields DEF Admitted, Moved, Freed, Idle, at, on,
  OwnerOnly
<1>14. ASSUME NEW s \in Slot, OnCancel(s)
      PROVE  Admitted'
  BY <1>14, OnCancelDoes, PressFields DEF Admitted, Moved, Freed, Idle, at, on,
  OwnerOnly
<1>15. ASSUME NEW s \in Slot, StartDispatch(s)
      PROVE  Admitted'
  BY <1>15, StartDispatchDoes, PressFields DEF Admitted, Moved, Freed, Idle,
  at, on, OwnerOnly
<1>16. ASSUME NEW s \in Slot, Ack(s)
      PROVE  Admitted'
  BY <1>16, AckDoes, PressFields DEF Admitted, Moved, Freed, Idle, at, on,
  OwnerOnly
<1>17. ASSUME NEW s \in Slot, Gather(s)
      PROVE  Admitted'
  BY <1>17, GatherDoes, PressFields DEF Admitted, Moved, Freed, Idle, at, on,
  OwnerOnly
<1>18. ASSUME NEW s \in Slot, Trigger(s)
      PROVE  Admitted'
  BY <1>18, TriggerDoes, PressFields DEF Admitted, Moved, Freed, Idle, at, on,
  OwnerOnly
<1>19. ASSUME NEW s \in Slot, MarkDispatched(s)
      PROVE  Admitted'
  BY <1>19, MarkDispatchedDoes, PressFields DEF Admitted, Moved, Freed, Idle,
  at, on, OwnerOnly
<1>20. ASSUME NEW s \in Slot, MarkDispatchFailed(s)
      PROVE  Admitted'
  BY <1>20, MarkDispatchFailedDoes, PressFields DEF Admitted, Moved, Freed,
  Idle, at, on, OwnerOnly
<1>21. ASSUME NEW s \in Slot, Respond(s)
      PROVE  Admitted'
  BY <1>21, RespondDoes, PressFields DEF Admitted, Moved, Freed, Idle, at, on,
  OwnerOnly
<1>22. ASSUME NEW s \in Slot, NEW j \in Job, NEW b \in Buttons, NEW u \in Person, Press(s, j, b, u)
      PROVE  Admitted'
  BY <1>22, PressFields DEF Press, Admitted, at, Idle, OwnerOnly
<1>23. ASSUME Restart
      PROVE  Admitted'
  BY <1>23, PressFields DEF Restart, Admitted, at, Idle, OwnerOnly
<1>24. CASE UNCHANGED vars
  BY <1>24 DEF vars, Admitted, at, Idle, OwnerOnly
<1> QED
  BY <1>1, <1>2, <1>3, <1>4, <1>5, <1>6, <1>7, <1>8, <1>9, <1>10, <1>11, <1>12,
  <1>13, <1>14, <1>15, <1>16, <1>17, <1>18, <1>19, <1>20, <1>21, <1>22, <1>23,
  <1>24 DEF Next, Turn, Handle

\* A job comes into being by its preparation only.
LEMMA UnpreparedStep ==
  ASSUME press \in Presses, Fields, Admitted, Unprepared, [Next]_vars PROVE Unprepared'
<1>1. ASSUME NEW j \in Job, NEW u \in Person, PrepareInteractive(j, u)
      PROVE  Unprepared'
  BY <1>1, PressFields DEF PrepareInteractive, Unprepared, For, Fields,
  Admitted, at, Idle, ButtonsOn, Present, Live, Terminal, store
<1>2. ASSUME NEW j \in Job, NEW u \in Person, CheckLimits(j, u)
      PROVE  Unprepared'
  BY <1>2, PressFields DEF CheckLimits, Unprepared, For, Fields, Admitted, at,
  Idle, ButtonsOn, Present, Live, Terminal, store
<1>3. ASSUME NEW j \in Job, InsertRequest(j)
      PROVE  Unprepared'
  BY <1>3, PressFields DEF InsertRequest, Unprepared, For, Fields, Admitted,
  at, Idle, ButtonsOn, Present, Live, Terminal, store
<1>4. ASSUME NEW j \in Job, DeliverCard(j)
      PROVE  Unprepared'
  BY <1>4, PressFields DEF DeliverCard, Unprepared, For, Fields, Admitted, at,
  Idle, ButtonsOn, Present, Live, Terminal, store
<1>5. ASSUME NEW j \in Job, DeliverFails(j)
      PROVE  Unprepared'
  BY <1>5, PressFields DEF DeliverFails, Unprepared, For, Fields, Admitted, at,
  Idle, ButtonsOn, Present, Live, Terminal, store
<1>6. ASSUME NEW j \in Job, AbandonTurn(j)
      PROVE  Unprepared'
  BY <1>6, PressFields DEF AbandonTurn, Unprepared, For, Fields, Admitted, at,
  Idle, ButtonsOn, Present, Live, Terminal, store
<1>7. ASSUME NEW j \in Job, Expire(j)
      PROVE  Unprepared'
  BY <1>7, PressFields DEF Expire, Unprepared, For, Fields, Admitted, at, Idle,
  ButtonsOn, Present, Live, Terminal, store
<1>8. ASSUME NEW s \in Slot, Admit(s)
      PROVE  Unprepared'
  BY <1>8, AdmitDoes, PressFields DEF Unprepared, For, Fields, Admitted, Moved,
  Freed, Idle, at, on, SetStage, Present, Live, Terminal
<1>9. ASSUME NEW s \in Slot, OnModel(s)
      PROVE  Unprepared'
  BY <1>9, OnModelDoes, PressFields DEF Unprepared, For, Fields, Admitted,
  Moved, Freed, Idle, at, on, SetStage, Present, Live, Terminal
<1>10. ASSUME NEW s \in Slot, OnBack(s)
      PROVE  Unprepared'
  BY <1>10, OnBackDoes, PressFields DEF Unprepared, For, Fields, Admitted,
  Moved, Freed, Idle, at, on, SetStage, Present, Live, Terminal
<1>11. ASSUME NEW s \in Slot, GoBack(s)
      PROVE  Unprepared'
  BY <1>11, GoBackDoes, PressFields DEF Unprepared, For, Fields, Admitted,
  Moved, Freed, Idle, at, on, SetStage, Present, Live, Terminal
<1>12. ASSUME NEW s \in Slot, OnConfigure(s)
      PROVE  Unprepared'
  BY <1>12, OnConfigureDoes, PressFields DEF Unprepared, For, Fields, Admitted,
  Moved, Freed, Idle, at, on, SetStage, Present, Live, Terminal
<1>13. ASSUME NEW s \in Slot, OnReject(s)
      PROVE  Unprepared'
  BY <1>13, OnRejectDoes, PressFields DEF Unprepared, For, Fields, Admitted,
  Moved, Freed, Idle, at, on, SetStage, Present, Live, Terminal
<1>14. ASSUME NEW s \in Slot, OnCancel(s)
      PROVE  Unprepared'
  BY <1>14, OnCancelDoes, PressFields DEF Unprepared, For, Fields, Admitted,
  Moved, Freed, Idle, at, on, SetStage, Present, Live, Terminal
<1>15. ASSUME NEW s \in Slot, StartDispatch(s)
      PROVE  Unprepared'
  BY <1>15, StartDispatchDoes, PressFields DEF Unprepared, For, Fields,
  Admitted, Moved, Freed, Idle, at, on, SetStage, Present, Live, Terminal
<1>16. ASSUME NEW s \in Slot, Ack(s)
      PROVE  Unprepared'
  BY <1>16, AckDoes, PressFields DEF Unprepared, For, Fields, Admitted, Moved,
  Freed, Idle, at, on, SetStage, Present, Live, Terminal
<1>17. ASSUME NEW s \in Slot, Gather(s)
      PROVE  Unprepared'
  BY <1>17, GatherDoes, PressFields DEF Unprepared, For, Fields, Admitted,
  Moved, Freed, Idle, at, on, SetStage, Present, Live, Terminal
<1>18. ASSUME NEW s \in Slot, Trigger(s)
      PROVE  Unprepared'
  BY <1>18, TriggerDoes, PressFields DEF Unprepared, For, Fields, Admitted,
  Moved, Freed, Idle, at, on, SetStage, Present, Live, Terminal
<1>19. ASSUME NEW s \in Slot, MarkDispatched(s)
      PROVE  Unprepared'
  BY <1>19, MarkDispatchedDoes, PressFields DEF Unprepared, For, Fields,
  Admitted, Moved, Freed, Idle, at, on, SetStage, Present, Live, Terminal
<1>20. ASSUME NEW s \in Slot, MarkDispatchFailed(s)
      PROVE  Unprepared'
  BY <1>20, MarkDispatchFailedDoes, PressFields DEF Unprepared, For, Fields,
  Admitted, Moved, Freed, Idle, at, on, SetStage, Present, Live, Terminal
<1>21. ASSUME NEW s \in Slot, Respond(s)
      PROVE  Unprepared'
  BY <1>21, RespondDoes, PressFields DEF Unprepared, For, Fields, Admitted,
  Moved, Freed, Idle, at, on, SetStage, Present, Live, Terminal
<1>22. ASSUME NEW s \in Slot, NEW j \in Job, NEW b \in Buttons, NEW u \in Person, Press(s, j, b, u)
      PROVE  Unprepared'
  BY <1>22, PressFields DEF Press, Unprepared, For, Fields, Admitted, at, Idle,
  ButtonsOn, Present, Live, Terminal, store
<1>23. ASSUME Restart
      PROVE  Unprepared'
  BY <1>23, PressFields DEF Restart, Unprepared, For, Fields, Admitted, at,
  Idle, ButtonsOn, Present, Live, Terminal, store
<1>24. CASE UNCHANGED vars
  BY <1>24 DEF vars, Unprepared, For, Fields, Admitted, at, Idle, ButtonsOn,
  Present, Live, Terminal, store
<1> QED
  BY <1>1, <1>2, <1>3, <1>4, <1>5, <1>6, <1>7, <1>8, <1>9, <1>10, <1>11, <1>12,
  <1>13, <1>14, <1>15, <1>16, <1>17, <1>18, <1>19, <1>20, <1>21, <1>22, <1>23,
  <1>24 DEF Next, Turn, Handle

\* A decision of the owner is noted.
LEMMA DecisionNoted ==
  ASSUME Fields, NEW s \in Slot, NEW j \in Job, OwnerDecided(s),
         approved' = [approved EXCEPT ![j] = @ \/ OwnerDecided(s)]
  PROVE  approved'[j] /\ \A k \in Job \ {j} : approved'[k] = approved[k]
<1>1. (approved[j] \/ OwnerDecided(s)) = TRUE
  BY Zenon
<1>2. approved' = [approved EXCEPT ![j] = TRUE]
  BY <1>1, Zenon
<1> QED BY <1>2 DEF Fields

\* Nothing but the owner's decision moves a user's request on.
LEMMA UndecidedStep ==
  ASSUME press \in Presses, Fields, Admitted, Unprepared, Undecided, [Next]_vars
  PROVE  Undecided'
<1>1. ASSUME NEW j \in Job, NEW u \in Person, PrepareInteractive(j, u)
      PROVE  Undecided'
  BY <1>1, OwnerAssumption DEF PrepareInteractive, Undecided, For, Fields, Admitted,
  Unprepared, OwnerOnly, store, Card
<1>2. ASSUME NEW j \in Job, NEW u \in Person, CheckLimits(j, u)
      PROVE  Undecided'
  BY <1>2, PressFields DEF CheckLimits, Undecided, For, Fields, Admitted,
  Unprepared, OwnerOnly, at, Idle, ButtonsOn, Present, store, Card
<1>3. ASSUME NEW j \in Job, InsertRequest(j)
      PROVE  Undecided'
  BY <1>3, PressFields DEF InsertRequest, Undecided, For, Fields, Admitted,
  Unprepared, OwnerOnly, at, Idle, ButtonsOn, Present, store, Card
<1>4. ASSUME NEW j \in Job, DeliverCard(j)
      PROVE  Undecided'
  BY <1>4, OwnerAssumption DEF DeliverCard, Undecided, For, Fields, Admitted,
  Unprepared, OwnerOnly, store, Card
<1>5. ASSUME NEW j \in Job, DeliverFails(j)
      PROVE  Undecided'
  BY <1>5, PressFields DEF DeliverFails, Undecided, For, Fields, Admitted,
  Unprepared, OwnerOnly, at, Idle, ButtonsOn, Present, store, Card
<1>6. ASSUME NEW j \in Job, AbandonTurn(j)
      PROVE  Undecided'
  BY <1>6, PressFields DEF AbandonTurn, Undecided, For, Fields, Admitted,
  Unprepared, OwnerOnly, at, Idle, ButtonsOn, Present, store, Card
<1>7. ASSUME NEW j \in Job, Expire(j)
      PROVE  Undecided'
  BY <1>7, PressFields DEF Expire, Undecided, For, Fields, Admitted,
  Unprepared, OwnerOnly, at, Idle, ButtonsOn, Present, store, Card
<1>8. ASSUME NEW s \in Slot, Admit(s)
      PROVE  Undecided'
  BY <1>8, AdmitDoes, PressFields DEF Undecided, For, Fields, Admitted, Moved,
  Freed, Idle, at, on, SetStage, OwnerDecided, OwnerOnly, Live
<1>9. ASSUME NEW s \in Slot, OnModel(s)
      PROVE  Undecided'
  BY <1>9, OnModelDoes, PressFields DEF Undecided, For, Fields, Admitted,
  Moved, Freed, Idle, at, on, SetStage, OwnerDecided, OwnerOnly, Live
<1>10. ASSUME NEW s \in Slot, OnBack(s)
      PROVE  Undecided'
  BY <1>10, OnBackDoes, PressFields DEF Undecided, For, Fields, Admitted,
  Moved, Freed, Idle, at, on, SetStage, OwnerDecided, OwnerOnly, Live
<1>11. ASSUME NEW s \in Slot, GoBack(s)
      PROVE  Undecided'
  BY <1>11, GoBackDoes, PressFields DEF Undecided, For, Fields, Admitted,
  Moved, Freed, Idle, at, on, SetStage, OwnerDecided, OwnerOnly, Live
<1>12. ASSUME NEW s \in Slot, OnConfigure(s)
      PROVE  Undecided'
  <2> DEFINE jj == press[s].job
  <2>1. jj \in Job /\ OwnerDecided(s)
    BY <1>12, OnConfigureDoes, PressedJob DEF Admitted, OwnerDecided, OwnerOnly, at, on
  <2>2. \/ Freed(s) /\ UNCHANGED <<stage, approved>>
        \/ /\ Moved(s, "respond") /\ approved'[jj]
           /\ \A j \in Job \ {jj} : approved'[j] = approved[j]
    BY <1>12, <2>1, OnConfigureDoes, DecisionNoted
  <2> QED BY <1>12, <2>1, <2>2, OnConfigureDoes DEF Undecided, For, Fields, Moved, Freed, Idle, SetStage
<1>13. ASSUME NEW s \in Slot, OnReject(s)
      PROVE  Undecided'
  BY <1>13, OnRejectDoes, PressFields DEF Undecided, For, Fields, Admitted,
  Moved, Freed, Idle, at, on, SetStage, OwnerDecided, OwnerOnly, Live
<1>14. ASSUME NEW s \in Slot, OnCancel(s)
      PROVE  Undecided'
  BY <1>14, OnCancelDoes, PressFields DEF Undecided, For, Fields, Admitted,
  Moved, Freed, Idle, at, on, SetStage, OwnerDecided, OwnerOnly, Live
<1>15. ASSUME NEW s \in Slot, StartDispatch(s)
      PROVE  Undecided'
  <2> DEFINE jj == press[s].job
  <2>1. jj \in Job BY <1>15, StartDispatchDoes, PressedJob DEF at, on
  <2>2. CASE Freed(s) /\ UNCHANGED <<stage, approved>>
    BY <1>15, <2>2, StartDispatchDoes DEF Undecided, For, Freed, Idle
  <2>3. CASE Moved(s, "ack") /\ SetStage(jj, "Dispatching")
    <3>1. \A j \in Job \ {jj} : stage'[j] = stage[j] /\ approved'[j] = approved[j]
      BY <1>15, <2>1, <2>3, StartDispatchDoes DEF Fields, SetStage, Moved, Freed, Idle
    <3>2. by[jj] \in Users => approved'[jj]
      <4>1. CASE stage[jj] = "Confirming"
        BY <1>15, <2>1, <2>3, <4>1, StartDispatchDoes DEF Undecided, Fields, Moved, Freed, Idle
      <4>2. CASE press[s].button = "approve"
        <5>1. OwnerDecided(s)
          BY <1>15, <4>2, StartDispatchDoes DEF Admitted, OwnerDecided, OwnerOnly, at, on
        <5> QED BY <1>15, <2>1, <2>3, <5>1, StartDispatchDoes, DecisionNoted DEF Moved, Freed, Idle
      <4> QED BY <1>15, <2>3, <4>1, <4>2, StartDispatchDoes DEF Moved, Freed, Idle
    <3> QED BY <1>15, <2>1, <2>3, <3>1, <3>2, StartDispatchDoes DEF Undecided, For, Moved
  <2> QED BY <1>15, <2>2, <2>3, StartDispatchDoes
<1>16. ASSUME NEW s \in Slot, Ack(s)
      PROVE  Undecided'
  BY <1>16, AckDoes, PressFields DEF Undecided, For, Fields, Admitted, Moved,
  Freed, Idle, at, on, SetStage, OwnerDecided, OwnerOnly, Live
<1>17. ASSUME NEW s \in Slot, Gather(s)
      PROVE  Undecided'
  BY <1>17, GatherDoes, PressFields DEF Undecided, For, Fields, Admitted,
  Moved, Freed, Idle, at, on, SetStage, OwnerDecided, OwnerOnly, Live
<1>18. ASSUME NEW s \in Slot, Trigger(s)
      PROVE  Undecided'
  BY <1>18, TriggerDoes, PressFields DEF Undecided, For, Fields, Admitted,
  Moved, Freed, Idle, at, on, SetStage, OwnerDecided, OwnerOnly, Live
<1>19. ASSUME NEW s \in Slot, MarkDispatched(s)
      PROVE  Undecided'
  BY <1>19, MarkDispatchedDoes, PressFields DEF Undecided, For, Fields,
  Admitted, Moved, Freed, Idle, at, on, SetStage, OwnerDecided, OwnerOnly, Live
<1>20. ASSUME NEW s \in Slot, MarkDispatchFailed(s)
      PROVE  Undecided'
  BY <1>20, MarkDispatchFailedDoes, PressFields DEF Undecided, For, Fields,
  Admitted, Moved, Freed, Idle, at, on, SetStage, OwnerDecided, OwnerOnly, Live
<1>21. ASSUME NEW s \in Slot, Respond(s)
      PROVE  Undecided'
  BY <1>21, RespondDoes, PressFields DEF Undecided, For, Fields, Admitted,
  Moved, Freed, Idle, at, on, SetStage, OwnerDecided, OwnerOnly, Live
<1>22. ASSUME NEW s \in Slot, NEW j \in Job, NEW b \in Buttons, NEW u \in Person, Press(s, j, b, u)
      PROVE  Undecided'
  BY <1>22, PressFields DEF Press, Undecided, For, Fields, Admitted,
  Unprepared, OwnerOnly, at, Idle, ButtonsOn, Present, store, Card
<1>23. ASSUME Restart
      PROVE  Undecided'
  BY <1>23, PressFields DEF Restart, Undecided, For, Fields, Admitted,
  Unprepared, OwnerOnly, at, Idle, ButtonsOn, Present, store, Card
<1>24. CASE UNCHANGED vars
  BY <1>24 DEF vars, Undecided, For, Fields, Admitted, Unprepared, OwnerOnly,
  at, Idle, ButtonsOn, Present, store, Card
<1> QED
  BY <1>1, <1>2, <1>3, <1>4, <1>5, <1>6, <1>7, <1>8, <1>9, <1>10, <1>11, <1>12,
  <1>13, <1>14, <1>15, <1>16, <1>17, <1>18, <1>19, <1>20, <1>21, <1>22, <1>23,
  <1>24 DEF Next, Turn, Handle


\* The same after a step.
LEMMA TypePartsNext == TypeOK' <=> press' \in Presses /\ Fields'
BY DEF TypeOK, Presses, Fields

LEMMA InitOInv == Init => OInv
<1> SUFFICES ASSUME Init PROVE OInv
  OBVIOUS
<1>1. press \in Presses
  BY DEF Init, Presses, Idle, PC, Card
<1>2. Fields
  BY PendingAssumption DEF Init, Fields, Card, Stage, Present, Live, Terminal
<1>3. Admitted /\ Unprepared /\ Undecided
  BY PendingAssumption DEF Init, Admitted, Unprepared, Undecided, Idle, For, Person
<1> QED BY <1>1, <1>2, <1>3, TypeParts DEF OInv

LEMMA OInvStep == OInv /\ [Next]_vars => OInv'
BY TypeParts, PressesStep, FieldsStep, AdmittedStep, UnpreparedStep, UndecidedStep, TypePartsNext
   DEF OInv

\* The inductive invariant of the owner's authority.
THEOREM OwnerFirstInvariant == Spec => []OInv
BY InitOInv, OInvStep, PTL DEF Spec

\* The store, the cards and the slots keep their types.
THEOREM JobsTyped == Spec => []TypeOK
BY OwnerFirstInvariant, PTL DEF OInv

LEMMA OInvSafe == OInv => OwnerDecidesFirst
BY DEF OInv, TypeOK, Undecided, OwnerDecidesFirst

\* Whatever presses of whomever are in flight and however the flow fails, no
\* workflow runs for a user's request before the owner approved it or took it
\* over (feature_development.rs:174).
THEOREM OwnerAuthorizes == Spec => []OwnerDecidesFirst
<1>1. OInv => OwnerDecidesFirst
  BY OInvSafe
<1> QED BY <1>1, OwnerFirstInvariant, PTL
-----------------------------------------------------------------------------
(* An approval card starts one run.                                        *)

\* A press that gives up, or that goes on to its answer, takes its job nowhere
\* near a second dispatch.
LEMMA LetsGo ==
  ASSUME OneDispatch, NEW s \in Slot, runs' = runs, Freed(s) \/ Moved(s, "respond"),
         \A j \in Job : stage'[j] = "AwaitingOwnerApproval" => stage[j] = "AwaitingOwnerApproval"
  PROVE  OneDispatch'
<1>1. \A r \in Slot, j \in Job : Working(r, j)' => Working(r, j) /\ press'[r].pc = press[r].pc
  BY DEF Working, For, Freed, Moved, Idle
<1> QED BY <1>1 DEF OneDispatch

\* An approval card's job has at most one handler that dispatches it.
LEMMA OneDispatchStep ==
  ASSUME Buttons \subseteq OwnerOnly, press \in Presses, Fields, Admitted, Unprepared, OneDispatch,
         [Next]_vars
  PROVE  OneDispatch'
<1>1. ASSUME NEW j \in Job, NEW u \in Person, PrepareInteractive(j, u)
      PROVE  OneDispatch'
  BY <1>1, PressFields DEF PrepareInteractive, OneDispatch, Working, For,
  Fields, Admitted, Unprepared, at, Idle, Present, store
<1>2. ASSUME NEW j \in Job, NEW u \in Person, CheckLimits(j, u)
      PROVE  OneDispatch'
  BY <1>2, PressFields DEF CheckLimits, OneDispatch, Working, For, Fields,
  Admitted, Unprepared, at, Idle, Present, store
<1>3. ASSUME NEW j \in Job, InsertRequest(j)
      PROVE  OneDispatch'
  BY <1>3, PressFields DEF InsertRequest, OneDispatch, Working, For, Fields,
  Admitted, Unprepared, at, Idle, Present, store
<1>4. ASSUME NEW j \in Job, DeliverCard(j)
      PROVE  OneDispatch'
  BY <1>4, PressFields DEF DeliverCard, OneDispatch, Working, For, Fields,
  Admitted, Unprepared, at, Idle, Present, store
<1>5. ASSUME NEW j \in Job, DeliverFails(j)
      PROVE  OneDispatch'
  BY <1>5, PressFields DEF DeliverFails, OneDispatch, Working, For, Fields,
  Admitted, Unprepared, at, Idle, Present, store
<1>6. ASSUME NEW j \in Job, AbandonTurn(j)
      PROVE  OneDispatch'
  BY <1>6, PressFields DEF AbandonTurn, OneDispatch, Working, For, Fields,
  Admitted, Unprepared, at, Idle, Present, store
<1>7. ASSUME NEW j \in Job, Expire(j)
      PROVE  OneDispatch'
  BY <1>7, PressFields DEF Expire, OneDispatch, Working, For, Fields, Admitted,
  Unprepared, at, Idle, Present, store
<1>8. ASSUME NEW s \in Slot, Admit(s)
      PROVE  OneDispatch'
  BY <1>8, AdmitDoes, PressFields DEF OneDispatch, Working, For, Fields,
  Admitted, Moved, Freed, Idle, at, on, SetStage, OwnerOnly
<1>9. ASSUME NEW s \in Slot, OnModel(s)
      PROVE  OneDispatch'
  <2>1. \A j \in Job : stage'[j] = "AwaitingOwnerApproval" => stage[j] = "AwaitingOwnerApproval"
    BY <1>9, OnModelDoes DEF SetStage, Fields
  <2> QED BY <1>9, <2>1, OnModelDoes, LetsGo
<1>10. ASSUME NEW s \in Slot, OnBack(s)
      PROVE  OneDispatch'
  BY <1>10, OnBackDoes, PressFields DEF OneDispatch, Working, For, Fields,
  Admitted, Moved, Freed, Idle, at, on, SetStage, OwnerOnly
<1>11. ASSUME NEW s \in Slot, GoBack(s)
      PROVE  OneDispatch'
  <2>1. \A j \in Job : stage'[j] = "AwaitingOwnerApproval" => stage[j] = "AwaitingOwnerApproval"
    BY <1>11, GoBackDoes DEF SetStage, Fields
  <2> QED BY <1>11, <2>1, GoBackDoes, LetsGo
<1>12. ASSUME NEW s \in Slot, OnConfigure(s)
      PROVE  OneDispatch'
  BY <1>12, OnConfigureDoes, PressFields DEF OneDispatch, Working, For, Fields,
  Admitted, Moved, Freed, Idle, at, on, SetStage, OwnerOnly
<1>13. ASSUME NEW s \in Slot, OnReject(s)
      PROVE  OneDispatch'
  <2>1. \A j \in Job : stage'[j] = "AwaitingOwnerApproval" => stage[j] = "AwaitingOwnerApproval"
    BY <1>13, OnRejectDoes DEF SetStage, Fields
  <2> QED BY <1>13, <2>1, OnRejectDoes, LetsGo
<1>14. ASSUME NEW s \in Slot, OnCancel(s)
      PROVE  OneDispatch'
  <2>1. \A j \in Job : stage'[j] = "AwaitingOwnerApproval" => stage[j] = "AwaitingOwnerApproval"
    BY <1>14, OnCancelDoes DEF SetStage, Fields
  <2> QED BY <1>14, <2>1, OnCancelDoes, LetsGo
<1>15. ASSUME NEW s \in Slot, StartDispatch(s)
      PROVE  OneDispatch'
  <2>4. press[s].job \in Job /\ press[s].pc = "act"
    BY <1>15, StartDispatchDoes DEF Admitted, at, on
  <2>5. PICK jj \in Job : jj = press[s].job
    BY <2>4
  <2>1. CASE Freed(s) /\ UNCHANGED stage
    BY <1>15, <2>1, StartDispatchDoes, LetsGo
  <2>2. CASE Moved(s, "ack") /\ SetStage(jj, "Dispatching") /\ stage[jj] = "AwaitingOwnerApproval"
    <3>1. runs' = runs
      BY <1>15, StartDispatchDoes
    <3>2. runs[jj] = 0 /\ \A r \in Slot : ~Working(r, jj)
      BY <2>2 DEF OneDispatch
    <3>3. \A r \in Slot, j \in Job : Working(r, j)' => Working(r, j) \/ (r = s /\ j = jj)
      BY <2>2, <2>5 DEF Working, For, Moved
    <3>4. \A r \in Slot, j \in Job : Working(r, j) => press'[r].pc = press[r].pc
      BY <2>2, <2>4 DEF Working, Moved
    <3>5. /\ stage'[jj] = "Dispatching"
          /\ \A j \in Job \ {jj} : stage'[j] = stage[j]
      BY <2>2 DEF SetStage, Fields
    <3>6. \A r \in Slot : Working(r, jj)' => r = s
      BY <3>2, <3>3
    <3>7. \A r \in Slot, j \in Job \ {jj} : Working(r, j)' => Working(r, j) /\ press'[r].pc = press[r].pc
      BY <3>3, <3>4
    <3>8. \A j \in Job \ {jj} :
             /\ runs'[j] <= 1
             /\ \A t, r \in Slot : Working(t, j)' /\ Working(r, j)' => t = r
             /\ \A t \in Slot : Working(t, j)' /\ press'[t].pc \in {"ack", "gather", "trigger"} => runs'[j] = 0
             /\ stage'[j] = "AwaitingOwnerApproval" => runs'[j] = 0 /\ \A t \in Slot : ~Working(t, j)'
      BY <3>1, <3>5, <3>7 DEF OneDispatch
    <3> QED BY <3>1, <3>2, <3>5, <3>6, <3>8 DEF OneDispatch
  <2>3. \/ Freed(s) /\ UNCHANGED stage
        \/ Moved(s, "ack") /\ SetStage(jj, "Dispatching") /\ stage[jj] = "AwaitingOwnerApproval"
    <3>1. press[s].button # "confirm"
      BY <2>4 DEF Admitted, OwnerOnly
    <3>2. CASE Freed(s) /\ UNCHANGED <<stage, approved>>
      BY <3>2
    <3>3. CASE /\ Moved(s, "ack") /\ SetStage(press[s].job, "Dispatching")
               /\ press[s].button = "approve" /\ stage[press[s].job] = "AwaitingOwnerApproval"
      BY <3>3, <2>5
    <3> QED BY <1>15, <3>1, <3>2, <3>3, StartDispatchDoes, Zenon
  <2> QED BY <2>1, <2>2, <2>3
<1>16. ASSUME NEW s \in Slot, Ack(s)
      PROVE  OneDispatch'
  BY <1>16, AckDoes, PressFields DEF OneDispatch, Working, For, Fields,
  Admitted, Moved, Freed, Idle, at, on, SetStage, OwnerOnly
<1>17. ASSUME NEW s \in Slot, Gather(s)
      PROVE  OneDispatch'
  BY <1>17, GatherDoes, PressFields DEF OneDispatch, Working, For, Fields,
  Admitted, Moved, Freed, Idle, at, on, SetStage, OwnerOnly
<1>18. ASSUME NEW s \in Slot, Trigger(s)
      PROVE  OneDispatch'
  <2>7. press[s].job \in Job /\ press[s].pc = "trigger" /\ stage' = stage
    BY <1>18, TriggerDoes DEF Admitted, at
  <2>8. PICK jj \in Job : jj = press[s].job
    BY <2>7
  <2>1. stage' = stage /\ Working(s, jj)
    BY <2>7, <2>8 DEF Working, For
  <2>2. runs[jj] = 0 /\ stage[jj] # "AwaitingOwnerApproval" /\ \A r \in Slot : Working(r, jj) => r = s
    BY <2>1, <2>7 DEF OneDispatch
  <2>3. /\ press'[s].pc \in {"succeeded", "failed"}
        /\ \A r \in Slot, j \in Job : Working(r, j)' => Working(r, j)
        /\ \A r \in Slot \ {s} : press'[r] = press[r]
    BY <1>18, <2>7, TriggerDoes DEF Moved, Working, For
  <2>4. runs'[jj] \in {0, 1} /\ \A j \in Job \ {jj} : runs'[j] = runs[j]
    BY <1>18, <2>8, <2>2, TriggerDoes DEF Fields
  <2>5. \A r \in Slot, j \in Job \ {jj} : Working(r, j)' => r # s
    BY <2>3, <2>8 DEF Working, For
  <2>6. \A j \in Job \ {jj} :
           /\ runs'[j] <= 1
           /\ \A t, r \in Slot : Working(t, j)' /\ Working(r, j)' => t = r
           /\ \A t \in Slot : Working(t, j)' /\ press'[t].pc \in {"ack", "gather", "trigger"} => runs'[j] = 0
           /\ stage'[j] = "AwaitingOwnerApproval" => runs'[j] = 0 /\ \A t \in Slot : ~Working(t, j)'
    BY <2>1, <2>3, <2>4, <2>5 DEF OneDispatch
  <2> QED BY <2>1, <2>2, <2>3, <2>4, <2>6 DEF OneDispatch
<1>19. ASSUME NEW s \in Slot, MarkDispatched(s)
      PROVE  OneDispatch'
  BY <1>19, MarkDispatchedDoes, PressFields DEF OneDispatch, Working, For,
  Fields, Admitted, Moved, Freed, Idle, at, on, SetStage, OwnerOnly
<1>20. ASSUME NEW s \in Slot, MarkDispatchFailed(s)
      PROVE  OneDispatch'
  BY <1>20, MarkDispatchFailedDoes, PressFields DEF OneDispatch, Working, For,
  Fields, Admitted, Moved, Freed, Idle, at, on, SetStage, OwnerOnly
<1>21. ASSUME NEW s \in Slot, Respond(s)
      PROVE  OneDispatch'
  BY <1>21, RespondDoes, PressFields DEF OneDispatch, Working, For, Fields,
  Admitted, Moved, Freed, Idle, at, on, SetStage, OwnerOnly
<1>22. ASSUME NEW s \in Slot, NEW j \in Job, NEW b \in Buttons, NEW u \in Person, Press(s, j, b, u)
      PROVE  OneDispatch'
  BY <1>22, PressFields DEF Press, OneDispatch, Working, For, Fields, Admitted,
  Unprepared, at, Idle, Present, store
<1>23. ASSUME Restart
      PROVE  OneDispatch'
  BY <1>23, PressFields DEF Restart, OneDispatch, Working, For, Fields,
  Admitted, Unprepared, at, Idle, Present, store
<1>24. CASE UNCHANGED vars
  BY <1>24 DEF vars, OneDispatch, Working, For, Fields, Admitted, Unprepared,
  at, Idle, Present, store
<1> QED
  BY <1>1, <1>2, <1>3, <1>4, <1>5, <1>6, <1>7, <1>8, <1>9, <1>10, <1>11, <1>12,
  <1>13, <1>14, <1>15, <1>16, <1>17, <1>18, <1>19, <1>20, <1>21, <1>22, <1>23,
  <1>24 DEF Next, Turn, Handle

LEMMA InitAInv == Init => AInv
BY InitOInv DEF Init, AInv, OneDispatch, Working, For, Idle

LEMMA AInvStep ==
  ASSUME Buttons \subseteq OwnerOnly PROVE AInv /\ [Next]_vars => AInv'
BY TypeParts, OInvStep, OneDispatchStep DEF AInv, OInv

LEMMA AInvSafe == AInv => DispatchedAtMostOnce
BY DEF AInv, OneDispatch, DispatchedAtMostOnce

\* The inductive invariant of the approval card, for any number of slots.
THEOREM ApprovalInvariant ==
  ASSUME Buttons \subseteq OwnerOnly PROVE Spec => []AInv
<1>1. AInv /\ [Next]_vars => AInv'
  BY AInvStep
<1> QED BY <1>1, InitAInv, PTL DEF Spec

\* The approval card starts at most one workflow run, however many presses of
\* it are handled at once (pending.rs:252).
THEOREM ApprovalRunsOnce ==
  ASSUME Buttons \subseteq OwnerOnly PROVE Spec => []DispatchedAtMostOnce
BY AInvSafe, ApprovalInvariant, PTL
-----------------------------------------------------------------------------
(* One press at a time.                                                    *)

\* Presses are handled one at a time and Discord shows what it is told.
Serial == (\A s, r \in Slot : s = r) /\ UpdatesAccepted

\* With one press at a time the card and the stage stay in step.
LEMMA InStepStep ==
  ASSUME Serial, press \in Presses, Fields, Admitted, Unprepared, InStep, [Next]_vars
  PROVE  InStep'
<1>1. ASSUME NEW j \in Job, NEW u \in Person, PrepareInteractive(j, u)
      PROVE  InStep'
  BY <1>1, PressFields DEF PrepareInteractive, InStep, Waits, For, Serial,
  Fields, Admitted, Unprepared, at, Idle, Present, Terminal, Live, store,
  ButtonsOn
<1>2. ASSUME NEW j \in Job, NEW u \in Person, CheckLimits(j, u)
      PROVE  InStep'
  BY <1>2, PressFields DEF CheckLimits, InStep, Waits, For, Serial, Fields,
  Admitted, Unprepared, at, Idle, Present, Terminal, Live, store, ButtonsOn
<1>3. ASSUME NEW j \in Job, InsertRequest(j)
      PROVE  InStep'
  BY <1>3, PressFields DEF InsertRequest, InStep, Waits, For, Serial, Fields,
  Admitted, Unprepared, at, Idle, Present, Terminal, Live, store, ButtonsOn
<1>4. ASSUME NEW j \in Job, DeliverCard(j)
      PROVE  InStep'
  BY <1>4, PressFields DEF DeliverCard, InStep, Waits, For, Serial, Fields,
  Admitted, Unprepared, at, Idle, Present, Terminal, Live, store, ButtonsOn
<1>5. ASSUME NEW j \in Job, DeliverFails(j)
      PROVE  InStep'
  BY <1>5, PressFields DEF DeliverFails, InStep, Waits, For, Serial, Fields,
  Admitted, Unprepared, at, Idle, Present, Terminal, Live, store, ButtonsOn
<1>6. ASSUME NEW j \in Job, AbandonTurn(j)
      PROVE  InStep'
  BY <1>6, PressFields DEF AbandonTurn, InStep, Waits, For, Serial, Fields,
  Admitted, Unprepared, at, Idle, Present, Terminal, Live, store, ButtonsOn
<1>7. ASSUME NEW j \in Job, Expire(j)
      PROVE  InStep'
  BY <1>7, PressFields DEF Expire, InStep, Waits, For, Serial, Fields,
  Admitted, Unprepared, at, Idle, Present, Terminal, Live, store, ButtonsOn
<1>8. ASSUME NEW s \in Slot, Admit(s)
      PROVE  InStep'
  BY <1>8, AdmitDoes, PressFields DEF InStep, Waits, For, Serial, Fields,
  Admitted, Moved, Freed, Idle, at, on, SetStage, Terminal, Live
<1>9. ASSUME NEW s \in Slot, OnModel(s)
      PROVE  InStep'
  BY <1>9, OnModelDoes, PressFields DEF InStep, Waits, For, Serial, Fields,
  Admitted, Moved, Freed, Idle, at, on, SetStage, Terminal, Live
<1>10. ASSUME NEW s \in Slot, OnBack(s)
      PROVE  InStep'
  BY <1>10, OnBackDoes, PressFields DEF InStep, Waits, For, Serial, Fields,
  Admitted, Moved, Freed, Idle, at, on, SetStage, Terminal, Live
<1>11. ASSUME NEW s \in Slot, GoBack(s)
      PROVE  InStep'
  BY <1>11, GoBackDoes, PressFields DEF InStep, Waits, For, Serial, Fields,
  Admitted, Moved, Freed, Idle, at, on, SetStage, Terminal, Live
<1>12. ASSUME NEW s \in Slot, OnConfigure(s)
      PROVE  InStep'
  BY <1>12, OnConfigureDoes, PressFields DEF InStep, Waits, For, Serial,
  Fields, Admitted, Moved, Freed, Idle, at, on, SetStage, Terminal, Live
<1>13. ASSUME NEW s \in Slot, OnReject(s)
      PROVE  InStep'
  BY <1>13, OnRejectDoes, PressFields DEF InStep, Waits, For, Serial, Fields,
  Admitted, Moved, Freed, Idle, at, on, SetStage, Terminal, Live
<1>14. ASSUME NEW s \in Slot, OnCancel(s)
      PROVE  InStep'
  BY <1>14, OnCancelDoes, PressFields DEF InStep, Waits, For, Serial, Fields,
  Admitted, Moved, Freed, Idle, at, on, SetStage, Terminal, Live
<1>15. ASSUME NEW s \in Slot, StartDispatch(s)
      PROVE  InStep'
  BY <1>15, StartDispatchDoes, PressFields DEF InStep, Waits, For, Serial,
  Fields, Admitted, Moved, Freed, Idle, at, on, SetStage, Terminal, Live
<1>16. ASSUME NEW s \in Slot, Ack(s)
      PROVE  InStep'
  BY <1>16, AckDoes, PressFields DEF InStep, Waits, For, Serial, Fields,
  Admitted, Moved, Freed, Idle, at, on, SetStage, Terminal, Live
<1>17. ASSUME NEW s \in Slot, Gather(s)
      PROVE  InStep'
  BY <1>17, GatherDoes, PressFields DEF InStep, Waits, For, Serial, Fields,
  Admitted, Moved, Freed, Idle, at, on, SetStage, Terminal, Live
<1>18. ASSUME NEW s \in Slot, Trigger(s)
      PROVE  InStep'
  BY <1>18, TriggerDoes, PressFields DEF InStep, Waits, For, Serial, Fields,
  Admitted, Moved, Freed, Idle, at, on, SetStage, Terminal, Live
<1>19. ASSUME NEW s \in Slot, MarkDispatched(s)
      PROVE  InStep'
  BY <1>19, MarkDispatchedDoes, PressFields DEF InStep, Waits, For, Serial,
  Fields, Admitted, Moved, Freed, Idle, at, on, SetStage, Terminal, Live
<1>20. ASSUME NEW s \in Slot, MarkDispatchFailed(s)
      PROVE  InStep'
  BY <1>20, MarkDispatchFailedDoes, PressFields DEF InStep, Waits, For, Serial,
  Fields, Admitted, Moved, Freed, Idle, at, on, SetStage, Terminal, Live
<1>21. ASSUME NEW s \in Slot, Respond(s)
      PROVE  InStep'
  BY <1>21, RespondDoes, PressFields DEF InStep, Waits, For, Serial, Fields,
  Admitted, Moved, Freed, Idle, at, on, SetStage, Terminal, Live
<1>22. ASSUME NEW s \in Slot, NEW j \in Job, NEW b \in Buttons, NEW u \in Person, Press(s, j, b, u)
      PROVE  InStep'
  BY <1>22, PressFields DEF Press, InStep, Waits, For, Serial, Fields,
  Admitted, Unprepared, at, Idle, Present, Terminal, Live, store, ButtonsOn
<1>23. ASSUME Restart
      PROVE  InStep'
  <2>1. \A s \in Slot : press'[s].pc = "idle"
    BY <1>23 DEF Restart, Idle
  <2>2. \A j \in Job : card[j] \in {"approval", "model", "confirm"} => runs[j] = 0
    BY DEF InStep, Waits, For
  <2>3. \A j \in Job : stage'[j] \notin Terminal \cup Live
    BY <1>23 DEF Restart, Fields, Stage, Present, Terminal, Live
  <2> QED BY <1>23, <2>1, <2>2, <2>3 DEF Restart, InStep, Waits, Live, Terminal
<1>24. CASE UNCHANGED vars
  BY <1>24 DEF vars, InStep, Waits, For, Serial, Fields, Admitted, Unprepared,
  at, Idle, Present, Terminal, Live, store, ButtonsOn
<1> QED
  BY <1>1, <1>2, <1>3, <1>4, <1>5, <1>6, <1>7, <1>8, <1>9, <1>10, <1>11, <1>12,
  <1>13, <1>14, <1>15, <1>16, <1>17, <1>18, <1>19, <1>20, <1>21, <1>22, <1>23,
  <1>24 DEF Next, Turn, Handle

\* The inductive invariant of the serial flow.
THEOREM SerialInvariant ==
  ASSUME Serial PROVE Spec => []SInv
<1>1. Init => InStep
  BY DEF Init, InStep, Waits, For, Idle, Terminal
<1>2. OInv /\ InStep /\ [Next]_vars => InStep'
  BY TypeParts, InStepStep DEF OInv
<1> QED BY <1>1, <1>2, OwnerFirstInvariant, PTL DEF Spec, SInv

\* One press at a time, a job starts at most one workflow run on every path
\* through the flow, failures of GitHub and restarts included (pending.rs:252).
THEOREM SerialRunsOnce ==
  ASSUME Serial PROVE Spec => []DispatchedAtMostOnce
<1>1. SInv => DispatchedAtMostOnce
  BY DEF SInv, InStep, DispatchedAtMostOnce
<1> QED BY <1>1, SerialInvariant, PTL

\* No step revives a job.
Stays == \A j \in Job : stage[j] \in Terminal => stage'[j] \in {stage[j], "gone"}

\* No step takes a job out of a terminal stage, but by forgetting it.
LEMMA StaysStep ==
  ASSUME press \in Presses, Fields, Admitted, Unprepared, InStep, [Next]_vars
  PROVE  Stays
<1>1. ASSUME NEW j \in Job, NEW u \in Person, PrepareInteractive(j, u)
      PROVE  Stays
  BY <1>1, PressFields DEF PrepareInteractive, Stays, Fields, Unprepared,
  Present, InStep, Terminal, Live, store
<1>2. ASSUME NEW j \in Job, NEW u \in Person, CheckLimits(j, u)
      PROVE  Stays
  BY <1>2, PressFields DEF CheckLimits, Stays, Fields, Unprepared, Present,
  InStep, Terminal, Live, store
<1>3. ASSUME NEW j \in Job, InsertRequest(j)
      PROVE  Stays
  BY <1>3, PressFields DEF InsertRequest, Stays, Fields, Unprepared, Present,
  InStep, Terminal, Live, store
<1>4. ASSUME NEW j \in Job, DeliverCard(j)
      PROVE  Stays
  BY <1>4, PressFields DEF DeliverCard, Stays, Fields, Unprepared, Present,
  InStep, Terminal, Live, store
<1>5. ASSUME NEW j \in Job, DeliverFails(j)
      PROVE  Stays
  BY <1>5, PressFields DEF DeliverFails, Stays, Fields, Unprepared, Present,
  InStep, Terminal, Live, store
<1>6. ASSUME NEW j \in Job, AbandonTurn(j)
      PROVE  Stays
  BY <1>6, PressFields DEF AbandonTurn, Stays, Fields, Unprepared, Present,
  InStep, Terminal, Live, store
<1>7. ASSUME NEW j \in Job, Expire(j)
      PROVE  Stays
  BY <1>7, PressFields DEF Expire, Stays, Fields, Unprepared, Present, InStep,
  Terminal, Live, store
<1>8. ASSUME NEW s \in Slot, Admit(s)
      PROVE  Stays
  BY <1>8, AdmitDoes, PressFields DEF Stays, Fields, Admitted, InStep, Waits,
  SetStage, Terminal, Live, at, on
<1>9. ASSUME NEW s \in Slot, OnModel(s)
      PROVE  Stays
  BY <1>9, OnModelDoes, PressFields DEF Stays, Fields, Admitted, InStep, Waits,
  SetStage, Terminal, Live, at, on
<1>10. ASSUME NEW s \in Slot, OnBack(s)
      PROVE  Stays
  BY <1>10, OnBackDoes, PressFields DEF Stays, Fields, Admitted, InStep, Waits,
  SetStage, Terminal, Live, at, on
<1>11. ASSUME NEW s \in Slot, GoBack(s)
      PROVE  Stays
  BY <1>11, GoBackDoes, PressFields DEF Stays, Fields, Admitted, InStep, Waits,
  SetStage, Terminal, Live, at, on
<1>12. ASSUME NEW s \in Slot, OnConfigure(s)
      PROVE  Stays
  BY <1>12, OnConfigureDoes, PressFields DEF Stays, Fields, Admitted, InStep,
  Waits, SetStage, Terminal, Live, at, on
<1>13. ASSUME NEW s \in Slot, OnReject(s)
      PROVE  Stays
  BY <1>13, OnRejectDoes, PressFields DEF Stays, Fields, Admitted, InStep,
  Waits, SetStage, Terminal, Live, at, on
<1>14. ASSUME NEW s \in Slot, OnCancel(s)
      PROVE  Stays
  BY <1>14, OnCancelDoes, PressFields DEF Stays, Fields, Admitted, InStep,
  Waits, SetStage, Terminal, Live, at, on
<1>15. ASSUME NEW s \in Slot, StartDispatch(s)
      PROVE  Stays
  BY <1>15, StartDispatchDoes, PressFields DEF Stays, Fields, Admitted, InStep,
  Waits, SetStage, Terminal, Live, at, on
<1>16. ASSUME NEW s \in Slot, Ack(s)
      PROVE  Stays
  BY <1>16, AckDoes, PressFields DEF Stays, Fields, Admitted, InStep, Waits,
  SetStage, Terminal, Live, at, on
<1>17. ASSUME NEW s \in Slot, Gather(s)
      PROVE  Stays
  BY <1>17, GatherDoes, PressFields DEF Stays, Fields, Admitted, InStep, Waits,
  SetStage, Terminal, Live, at, on
<1>18. ASSUME NEW s \in Slot, Trigger(s)
      PROVE  Stays
  BY <1>18, TriggerDoes, PressFields DEF Stays, Fields, Admitted, InStep,
  Waits, SetStage, Terminal, Live, at, on
<1>19. ASSUME NEW s \in Slot, MarkDispatched(s)
      PROVE  Stays
  BY <1>19, MarkDispatchedDoes, PressFields DEF Stays, Fields, Admitted,
  InStep, Waits, SetStage, Terminal, Live, at, on
<1>20. ASSUME NEW s \in Slot, MarkDispatchFailed(s)
      PROVE  Stays
  BY <1>20, MarkDispatchFailedDoes, PressFields DEF Stays, Fields, Admitted,
  InStep, Waits, SetStage, Terminal, Live, at, on
<1>21. ASSUME NEW s \in Slot, Respond(s)
      PROVE  Stays
  BY <1>21, RespondDoes, PressFields DEF Stays, Fields, Admitted, InStep,
  Waits, SetStage, Terminal, Live, at, on
<1>22. ASSUME NEW s \in Slot, NEW j \in Job, NEW b \in Buttons, NEW u \in Person, Press(s, j, b, u)
      PROVE  Stays
  BY <1>22, PressFields DEF Press, Stays, Fields, Unprepared, Present, InStep,
  Terminal, Live, store
<1>23. ASSUME Restart
      PROVE  Stays
  BY <1>23, PressFields DEF Restart, Stays, Fields, Unprepared, Present,
  InStep, Terminal, Live, store
<1>24. CASE UNCHANGED vars
  BY <1>24 DEF vars, Stays, Fields, Unprepared, Present, InStep, Terminal,
  Live, store
<1> QED
  BY <1>1, <1>2, <1>3, <1>4, <1>5, <1>6, <1>7, <1>8, <1>9, <1>10, <1>11, <1>12,
  <1>13, <1>14, <1>15, <1>16, <1>17, <1>18, <1>19, <1>20, <1>21, <1>22, <1>23,
  <1>24 DEF Next, Turn, Handle

\* One press at a time, a job that was dispatched, rejected or cancelled is
\* never revived.
THEOREM SerialDecisionsStand ==
  ASSUME Serial PROVE Spec => TerminalIsFinal
<1>1. SInv /\ [Next]_vars => [Stays]_vars
  BY TypeParts, StaysStep DEF SInv, OInv
<1>2. Stays => \A j \in Job : stage[j] \in Terminal => stage'[j] \in {stage[j], "gone"}
  BY DEF Stays
<1> QED BY <1>1, <1>2, SerialInvariant, PTL DEF Spec, TerminalIsFinal
=============================================================================
