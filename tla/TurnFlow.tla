------------------------------ MODULE TurnFlow ------------------------------
(***************************************************************************)
(* One user turn: handle_message posts the progress message, registers its *)
(* cancel token, drives Agent::run, unregisters the token and closes the   *)
(* turn (src/bot/message_flow.rs, src/agent/run.rs, src/bot/progress.rs),  *)
(* while gateway tasks handle the author's cross reactions on the progress *)
(* message (reaction_add, src/bot/handler.rs).                             *)
(*                                                                         *)
(* Every .await and every lock is a step boundary.  What the model says is *)
(* abstracted to its kind (tool calls, text, empty text, an error); how    *)
(* many calls a batch holds, which one asks for a development job and      *)
(* which one is rate limited are chosen freely.                            *)
(***************************************************************************)
EXTENDS Naturals, FiniteSets

CONSTANTS MaxRounds,     \* max_tool_rounds
          MaxCalls,      \* bound: tool calls in one completion
          Reactions,     \* the author's reactions, each handled by a task
          EditsAccepted, \* the outcomes of an edit or delete of the progress message
          RepliesSent    \* the outcomes of sending the final reply

ASSUME TurnAssumption == /\ MaxRounds \in Nat \ {0}
                         /\ MaxCalls \in Nat \ {0}
                         /\ EditsAccepted \subseteq BOOLEAN
                         /\ RepliesSent \subseteq BOOLEAN

VARIABLES
    at,          \* where the turn's task is
    prompted,    \* the response mode is not Unprompted
    progress,    \* what the progress message shows
    registered,  \* progress_messages holds the token
    flag,        \* CancelState::cancelled
    armed,       \* a Notified future exists in the select
    woken,       \* ... and notify_waiters has reached it
    rounds,      \* rounds of the tool loop begun
    calls,       \* tool calls of the last completion without a result
    tools,       \* tools_called is not empty
    limited,     \* this batch met a search rate limit
    action,      \* control_action is set
    answered,    \* final_text is not empty
    cancelled,   \* Agent::run ended cancelled / the turn is cancelled
    saved,       \* "no", or the history has the turn: "whole" or "torn"
    reply,       \* what the channel got: "no", "text", "card", "lost"
    task,        \* where each reaction's handler is
    inTime       \* auxiliary: the flag was set while the token was registered

run == <<rounds, calls, tools, limited, action, answered, cancelled>>
cancel == <<flag, armed, woken>>
vars == <<at, prompted, progress, registered, cancel, run, saved, reply, task, inTime>>

BeforeRun == {"start", "react", "register", "prepare", "compact"}
InRun == {"check", "listen", "arm", "stream", "recheck", "completed", "tools", "batch", "persist"}
AfterRun == {"unregister", "settle", "finish", "over"}

Shown == {"none", "status", "cancelled", "summary", "deleted"}
-----------------------------------------------------------------------------
Init == /\ at = "start"
        /\ prompted \in BOOLEAN
        /\ progress = "none"
        /\ registered = FALSE
        /\ flag = FALSE /\ armed = FALSE /\ woken = FALSE
        /\ rounds = 0 /\ calls = 0
        /\ tools = FALSE /\ limited = FALSE /\ action = FALSE
        /\ answered = FALSE /\ cancelled = FALSE
        /\ saved = "no"
        /\ reply = "no"
        /\ task = [r \in Reactions |-> "out"]
        /\ inTime = FALSE

\* An edit of the progress message that Discord may refuse; a deleted message
\* takes no edit.
Edit(status) ==
    \E ok \in EditsAccepted :
        progress' = IF ok /\ progress \notin {"none", "deleted"} THEN status ELSE progress

Delete ==
    \E ok \in EditsAccepted :
        progress' = IF ok /\ progress # "none" THEN "deleted" ELSE progress
-----------------------------------------------------------------------------
(* handle_message up to the agent's run.                                   *)

\* The placeholder reply.  When it cannot be sent the turn runs without it.
SendProgress ==
    /\ at = "start"
    /\ \/ progress' = "status" /\ at' = "react"
       \/ progress' = "none" /\ at' = "prepare"
    /\ UNCHANGED <<prompted, registered, cancel, run, saved, reply, task, inTime>>

\* The bot puts the cross on its own message ...
React ==
    /\ at = "react"
    /\ at' = "register"
    /\ UNCHANGED <<prompted, progress, registered, cancel, run, saved, reply, task, inTime>>

\* ... and only then makes the message known to reaction_add.
Register ==
    /\ at = "register"
    /\ registered' = TRUE
    /\ at' = "prepare"
    /\ UNCHANGED <<prompted, progress, cancel, run, saved, reply, task, inTime>>

\* Loading memory and history; a full context is compacted first.  Neither
\* listens to the token.
Prepare ==
    /\ at = "prepare"
    /\ at' \in {"compact", "check"}
    /\ UNCHANGED <<prompted, progress, registered, cancel, run, saved, reply, task, inTime>>

\* The model has answered the compaction's call, which no select guards.
Compacted ==
    /\ at = "compact"
    /\ at' = "check"
    /\ UNCHANGED <<prompted, progress, registered, cancel, run, saved, reply, task, inTime>>
-----------------------------------------------------------------------------
(* The tool loop of Agent::run.                                            *)

\* The loop breaks with a final text (possibly empty).
BreakWith(text) ==
    /\ at' = "persist"
    /\ answered' = text
    /\ UNCHANGED <<rounds, calls, tools, limited, action, cancelled>>

BreakCancelled ==
    /\ at' = "persist"
    /\ cancelled' = TRUE
    /\ UNCHANGED <<rounds, calls, tools, limited, action, answered>>

\* The top of the loop: the round bound first, the token second.
CheckRound ==
    /\ at = "check"
    /\ rounds' = rounds + 1
    /\ \/ /\ rounds' > MaxRounds
          /\ at' = "persist" /\ answered' = TRUE
          /\ UNCHANGED cancelled
       \/ /\ rounds' <= MaxRounds
          /\ flag
          /\ at' = "persist" /\ cancelled' = TRUE
          /\ UNCHANGED answered
       \/ /\ rounds' <= MaxRounds
          /\ ~flag
          /\ at' = "listen"
          /\ UNCHANGED <<answered, cancelled>>
    /\ UNCHANGED <<prompted, progress, registered, cancel, calls, tools, limited, action, saved, reply, task, inTime>>

\* CancelToken::cancelled: the Notified future is created ...
Listen ==
    /\ at = "listen"
    /\ armed' = TRUE /\ woken' = FALSE
    /\ at' = "arm"
    /\ UNCHANGED <<prompted, progress, registered, flag, run, saved, reply, task, inTime>>

\* MUTANT: the wait begins without another look at the flag.
CheckFlagSkipped ==
    /\ at = "arm"
    /\ at' = "stream"
    /\ UNCHANGED <<prompted, progress, registered, cancel, run, saved, reply, task, inTime>>

\* ... before the flag is looked at, so no cancel falls between the two.
CheckFlag ==
    /\ at = "arm"
    /\ woken' = (woken \/ flag)
    /\ at' = "stream"
    /\ UNCHANGED <<prompted, progress, registered, flag, armed, run, saved, reply, task, inTime>>

\* A delta arrives: on_text_stream rewrites the status line.
StreamDelta ==
    /\ at = "stream"
    /\ Edit("status")
    /\ UNCHANGED <<at, prompted, registered, cancel, run, saved, reply, task, inTime>>

\* select!: the cancelled branch wins and the completion is dropped.
SelectCancelled ==
    /\ at = "stream"
    /\ woken
    /\ armed' = FALSE /\ woken' = FALSE
    /\ BreakCancelled
    /\ UNCHANGED <<prompted, progress, registered, flag, saved, reply, task, inTime>>

\* select!: the completion wins.
LlmAnswers ==
    /\ at = "stream"
    /\ armed' = FALSE /\ woken' = FALSE
    /\ at' = "recheck"
    /\ UNCHANGED <<prompted, progress, registered, flag, run, saved, reply, task, inTime>>

\* The token again: a cancel may have raced with the completed stream.
Recheck ==
    /\ at = "recheck"
    /\ \/ flag /\ BreakCancelled
       \/ ~flag /\ at' = "completed" /\ UNCHANGED run
    /\ UNCHANGED <<prompted, progress, registered, cancel, saved, reply, task, inTime>>

\* The completion failed, or has no tool calls: its text ends the turn.
CompletionEnds ==
    /\ at = "completed"
    /\ \E text \in BOOLEAN : BreakWith(text)
    /\ UNCHANGED <<prompted, progress, registered, cancel, saved, reply, task, inTime>>

\* The completion asks for n tools; the assistant message holds the calls.
CompletionCalls ==
    /\ at = "completed"
    /\ \E n \in 1..MaxCalls : calls' = n
    /\ limited' = FALSE
    /\ at' = "tools"
    /\ UNCHANGED <<prompted, progress, registered, cancel, rounds, tools, action, answered, cancelled, saved, reply, task, inTime>>

\* The next call of the batch is recorded and shown before it is dispatched.
ToolCalled ==
    /\ at = "tools"
    /\ calls > 0
    /\ tools' = TRUE
    /\ Edit("status")
    /\ at' = "batch"
    /\ UNCHANGED <<prompted, registered, cancel, rounds, calls, limited, action, answered, cancelled, saved, reply, task, inTime>>

\* MUTANT: a rate-limited search ends the turn at once.
ToolDoneStops ==
    /\ at = "batch"
    /\ calls' = calls - 1
    /\ \E development, search \in BOOLEAN :
          /\ action' = (action \/ development)
          /\ at' = IF search THEN "persist" ELSE "tools"
          /\ answered' = search
    /\ UNCHANGED <<prompted, progress, registered, cancel, rounds, tools, limited, cancelled, saved, reply, task, inTime>>

\* The tool ends; its result answers the call, whatever it is.
ToolDone ==
    /\ at = "batch"
    /\ calls' = calls - 1
    /\ \E development, search \in BOOLEAN :
          /\ action' = (action \/ development)
          /\ limited' = (limited \/ search)
    /\ at' = "tools"
    /\ UNCHANGED <<prompted, progress, registered, cancel, rounds, tools, answered, cancelled, saved, reply, task, inTime>>

\* Every call of the batch has its result: a rate limit ends the turn now.
BatchDone ==
    /\ at = "tools"
    /\ calls = 0
    /\ \/ limited /\ BreakWith(TRUE)
       \/ ~limited /\ at' = "check" /\ UNCHANGED run
    /\ UNCHANGED <<prompted, progress, registered, cancel, saved, reply, task, inTime>>

\* append_turn: the user's message and everything the loop collected.
Persist ==
    /\ at = "persist"
    /\ saved' = IF calls = 0 THEN "whole" ELSE "torn"
    /\ at' = "unregister"
    /\ UNCHANGED <<prompted, progress, registered, cancel, run, reply, task, inTime>>
-----------------------------------------------------------------------------
(* handle_message after the run.                                           *)

\* MUTANT: only the agent's own verdict is kept.
UnregisterForgets ==
    /\ at = "unregister"
    /\ registered' = FALSE
    /\ at' = "settle"
    /\ UNCHANGED <<prompted, progress, cancel, run, saved, reply, task, inTime>>

\* The token leaves the registry and is looked at a last time, under its lock.
Unregister ==
    /\ at = "unregister"
    /\ registered' = FALSE
    /\ cancelled' = (cancelled \/ (registered /\ flag))
    /\ at' = "settle"
    /\ UNCHANGED <<prompted, progress, cancel, rounds, calls, tools, limited, action, answered, saved, reply, task, inTime>>

\* MUTANT: a cancelled turn returns without closing its status line.
SettleCancelledSilently ==
    /\ at = "settle"
    /\ cancelled
    /\ at' = "over"
    /\ UNCHANGED <<prompted, progress, registered, cancel, run, saved, reply, task, inTime>>

\* A cancelled turn goes straight to finish, which writes the cancelled line.
SettleCancelled ==
    /\ at = "settle"
    /\ cancelled
    /\ Edit("cancelled")
    /\ at' = "over"
    /\ UNCHANGED <<prompted, registered, cancel, run, saved, reply, task, inTime>>

\* Nobody asked: an answer that failed or opened a development flow is
\* withheld, and handle_message returns.
SettleWithheld ==
    /\ at = "settle"
    /\ ~cancelled
    /\ ~prompted /\ (~answered \/ action)
    /\ at' = "over"
    /\ UNCHANGED <<prompted, progress, registered, cancel, run, saved, reply, task, inTime>>

\* MUTANT: the development flow is shown and the turn returns.
SettleActionReturns ==
    /\ at = "settle"
    /\ ~cancelled
    /\ prompted /\ action
    /\ reply' = "card"
    /\ at' = "over"
    /\ UNCHANGED <<prompted, progress, registered, cancel, run, saved, task, inTime>>

\* A development job was proposed: its flow is shown instead of the text.
SettleAction ==
    /\ at = "settle"
    /\ ~cancelled
    /\ prompted /\ action
    /\ reply' = "card"
    /\ at' = "finish"
    /\ UNCHANGED <<prompted, progress, registered, cancel, run, saved, task, inTime>>

\* send_final_message: an error of Discord is logged and otherwise ignored.
SettleReply ==
    /\ at = "settle"
    /\ ~cancelled
    /\ ~action
    /\ prompted \/ answered
    /\ \E ok \in RepliesSent : reply' = IF ok THEN "text" ELSE "lost"
    /\ at' = "finish"
    /\ UNCHANGED <<prompted, progress, registered, cancel, run, saved, task, inTime>>

\* finish(.., cancelled = false): the line becomes the tools' summary, or goes.
Finish ==
    /\ at = "finish"
    /\ IF tools THEN Edit("summary") ELSE Delete
    /\ at' = "over"
    /\ UNCHANGED <<prompted, registered, cancel, run, saved, reply, task, inTime>>
-----------------------------------------------------------------------------
(* reaction_add, one task per reaction.                                    *)

\* A reaction on a message the registry does not know is not a cancel.
Lookup(r) ==
    /\ task[r] = "out"
    /\ progress # "none"
    /\ task' = [task EXCEPT ![r] = IF registered THEN "set" ELSE "ignored"]
    /\ UNCHANGED <<at, prompted, progress, registered, cancel, run, saved, reply, inTime>>

\* CancelToken::cancel on the clone it took: the flag ...
SetFlag(r) ==
    /\ task[r] = "set"
    /\ flag' = TRUE
    /\ inTime' = (inTime \/ registered)
    /\ task' = [task EXCEPT ![r] = "notify"]
    /\ UNCHANGED <<at, prompted, progress, registered, armed, woken, run, saved, reply>>

\* ... then notify_waiters, which wakes the futures that exist now.
NotifyWaiters(r) ==
    /\ task[r] = "notify"
    /\ woken' = (woken \/ armed)
    /\ task' = [task EXCEPT ![r] = "edit"]
    /\ UNCHANGED <<at, prompted, progress, registered, flag, armed, run, saved, reply, inTime>>

EditCancelled(r) ==
    /\ task[r] = "edit"
    /\ Edit("cancelled")
    /\ task' = [task EXCEPT ![r] = "done"]
    /\ UNCHANGED <<at, prompted, registered, cancel, run, saved, reply, inTime>>
-----------------------------------------------------------------------------
Handle(r) == Lookup(r) \/ SetFlag(r) \/ NotifyWaiters(r) \/ EditCancelled(r)

\* The steps of the turn that wait for no model.
TurnStep == \/ SendProgress \/ React \/ Register \/ Prepare
            \/ CheckRound \/ Listen \/ CheckFlag \/ SelectCancelled \/ Recheck
            \/ CompletionEnds \/ CompletionCalls \/ ToolCalled \/ ToolDone \/ BatchDone
            \/ Persist \/ Unregister \/ SettleCancelled \/ SettleWithheld
            \/ SettleAction \/ SettleReply \/ Finish

\* The turn is over and every reaction was handled.
Done == /\ at = "over"
        /\ \A r \in Reactions : task[r] \in {"ignored", "done"} \/ progress = "none"
        /\ UNCHANGED vars

Next == TurnStep \/ Compacted \/ StreamDelta \/ LlmAnswers \/ (\E r \in Reactions : Handle(r)) \/ Done

Spec == Init /\ [][Next]_vars

\* The runtime runs every ready task, and loads, saves and tool calls come back.
\* Nothing is assumed of the model: the client sets no timeout, so neither a
\* stream nor a compaction's call need ever end.
FairSpec == Spec /\ WF_vars(TurnStep)
                 /\ \A r \in Reactions : WF_vars(SetFlag(r) \/ NotifyWaiters(r) \/ EditCancelled(r))
-----------------------------------------------------------------------------
\* The token and its observers, the loop's own variables, and what is seen of the turn.
TokenTypes == /\ registered \in BOOLEAN
              /\ flag \in BOOLEAN /\ armed \in BOOLEAN /\ woken \in BOOLEAN
              /\ task \in [Reactions -> {"out", "ignored", "set", "notify", "edit", "done"}]
              /\ inTime \in BOOLEAN
LoopTypes == /\ rounds \in 0..(MaxRounds + 1)
             /\ calls \in 0..MaxCalls
             /\ tools \in BOOLEAN /\ limited \in BOOLEAN /\ action \in BOOLEAN
             /\ answered \in BOOLEAN /\ cancelled \in BOOLEAN
TurnTypes == /\ at \in BeforeRun \cup InRun \cup AfterRun
             /\ prompted \in BOOLEAN
             /\ progress \in Shown
             /\ saved \in {"no", "whole", "torn"}
             /\ reply \in {"no", "text", "card", "lost"}
TypeOK == TokenTypes /\ LoopTypes /\ TurnTypes

\* A cancel that takes effect while the turn is registered is final: whatever
\* the loop was doing, the user gets no reply (message_flow.rs:371-393).
CancelInTimeSticks == inTime => reply = "no"

\* What append_turn writes never holds a tool call without its result
\* (run.rs:224-228): such a history is refused by the model on every later turn.
TranscriptBalanced == saved # "torn"

\* An addressed turn that ends does not leave "Thinking" standing under it
\* (progress.rs:190-193), unless Discord refuses an edit.
AddressedTurnCloses ==
    (at = "over" /\ prompted /\ EditsAccepted = {TRUE}) => progress # "status"

\* A cancelled turn keeps saying so (progress.rs:191), although the hooks may
\* have rewritten the line after the reaction handler wrote it.
CancelledSaysSo ==
    (at = "over" /\ inTime /\ EditsAccepted = {TRUE}) => progress = "cancelled"

\* A cancel in time ends the turn even when the model never answers again
\* (CancelToken::cancelled in the select): no wake-up falls between the look
\* at the flag and the wait.  Only the call that compacts the session before the
\* run can hold a cancelled turn, and only until the model answers it.
CancelEndsTurn == inTime ~> at \in {"over", "compact"}
=============================================================================
