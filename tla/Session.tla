------------------------------- MODULE Session -------------------------------
(***************************************************************************)
(* One user's session: the history file, the token counters that decide    *)
(* when to compact it, and the conversation row that counts its tokens     *)
(* (src/agent/session.rs, src/agent/run.rs, crates/history,                *)
(* crates/token-monitor).  Messages and slash commands are handled by      *)
(* independent tasks, and nothing serialises the tasks of one user: every  *)
(* .await is a step boundary.                                              *)
(*                                                                         *)
(* A history is abstracted to what it still remembers: the turns it holds  *)
(* word for word, the turns its summary stands for, and whether it opens   *)
(* with the session-context message.                                       *)
(***************************************************************************)
EXTENDS Naturals, FiniteSets

CONSTANTS Tasks,         \* bound: handler tasks of this user, each run once
          Ops,           \* what a task may be: "turn", "compact", "new", "erase"
          Convs,         \* bound: conversation identifiers (UUIDs)
          None,          \* no conversation
          MaxAtOnce,     \* bound: tasks at work at once
          MaxMishaps,    \* bound: restarts of the bot and failures of the disk
          DbAnswers      \* the outcomes of a query to the token monitor

ASSUME SessionAssumption == /\ IsFiniteSet(Tasks) /\ IsFiniteSet(Convs)
                            /\ Ops \subseteq {"turn", "compact", "new", "erase"}
                            /\ None \notin Convs
                            /\ MaxAtOnce \in Nat /\ MaxMishaps \in Nat
                            /\ DbAnswers \subseteq BOOLEAN /\ DbAnswers # {}

VARIABLES
    file,      \* data/history/<user>.jsonl
    stats,     \* session_stats: absent, or how full the context was last reported
    active,    \* active_conversations: the user's conversation
    rows,      \* the conversations table: "none", "open", "ended"
    task,      \* the state of each task
    mishaps,   \* restarts and failures of the disk so far
    overlapped, \* auxiliary: a task has begun beside another
    said,      \* auxiliary: the turns appended since the last reset
    lost,      \* auxiliary: the turns that a fault named below forgot
    owed       \* auxiliary: a full session whose compaction failed is to be retried

vars == <<file, stats, active, rows, task, mishaps, overlapped, said, lost, owed>>

History == [ctx : BOOLEAN, turns : SUBSET Tasks, gist : SUBSET Tasks]
Empty == [ctx |-> FALSE, turns |-> {}, gist |-> {}]
Remembered(h) == h.turns \cup h.gist

Stats == {"none", "low", "full"}

(* at    where the task is                                                 *)
(* past  the history it has loaded, or is about to write                   *)
(* prev  the statistics a compaction has taken away                        *)
(* fd    its open file is still the one under the user's name              *)
(* cid   the conversation it records usage on, or is closing               *)
(* then  what follows a save, or the end of a summary                      *)
(* saw   (auxiliary) the turns that its clearing of the file left nowhere  *)
Fresh(o) == [op |-> o, at |-> "idle", past |-> Empty, prev |-> "none", fd |-> FALSE,
             cid |-> None, then |-> "over", saw |-> {}]

Places == {"idle", "over",
           "load", "decide", "reload", "converse", "llm", "append",
           "truncate", "write",
           "take", "digest", "open", "summarize", "drop", "restore", "clear",
           "erase", "forget", "wipe", "leave", "end_row", "delete"}

At(t) == task[t].at
Running == {t \in Tasks : At(t) \notin {"idle", "over"}}
Begun == {t \in Tasks : At(t) # "idle" /\ task[t].op = "turn"}

Init == /\ file = Empty
        /\ stats = "none"
        /\ active = None
        /\ rows = [c \in Convs |-> "none"]
        /\ \E ops \in [Tasks -> Ops] : task = [t \in Tasks |-> Fresh(ops[t])]
        /\ mishaps = 0 /\ overlapped = FALSE
        /\ said = {} /\ lost = {}
        /\ owed = FALSE

Goto(t, at) == task' = [task EXCEPT ![t].at = at]

Begin(t) ==
    /\ At(t) = "idle"
    /\ Cardinality(Running) < MaxAtOnce
    /\ overlapped' = (overlapped \/ Running # {})
    /\ Goto(t, CASE task[t].op = "turn" -> "load"
                 [] task[t].op = "compact" -> "take"
                 [] task[t].op = "new" -> "forget"
                 [] task[t].op = "erase" -> "erase")
    /\ UNCHANGED <<file, stats, active, rows, mishaps, said, lost, owed>>

\* What follows reset_session and compact_session in their callers.
Return(t) == CASE task[t].op = "turn" -> "reload"
               [] task[t].op = "erase" -> "delete"
               [] OTHER -> "over"
-----------------------------------------------------------------------------
(* History::load, History::save and History::clear.                        *)

\* The disk fails.
Fault == mishaps < MaxMishaps /\ mishaps' = mishaps + 1

\* A load that is followed by a save: any error of the read gives an empty
\* history, so that save forgets what the file holds.
Read(h) == \/ h = file /\ UNCHANGED <<mishaps, lost>>
           \/ h = Empty /\ file # Empty /\ Fault /\ lost' = lost \cup Remembered(file)

\* A text written from the start of a file that another writer has filled: what
\* lies beyond the end of the new text stays behind, and where it begins within
\* a character nothing of the file can be read.
Onto(new, tail, gist) == [new EXCEPT !.turns = @ \cup tail, !.gist = @ \cup gist]
Overlaid(new, old) ==
    IF old = Empty THEN {new}
    ELSE {Empty} \cup {Onto(new, tail, gist) : tail \in SUBSET old.turns, gist \in {{}, old.gist}}

\* What a write that breaks off leaves of a text.
Partial(h) == {Empty, [h EXCEPT !.turns = {}, !.gist = {}]} \cup {[h EXCEPT !.turns = s] : s \in SUBSET h.turns}

\* tokio::fs::write opens the file truncated ...
Truncate(t) ==
    /\ At(t) = "truncate"
    /\ file' = Empty
    /\ task' = [task EXCEPT ![t].at = "write", ![t].fd = TRUE]
    /\ UNCHANGED <<stats, active, rows, mishaps, overlapped, said, lost, owed>>

\* ... and writes from its start; another writer may have written since.
Write(t) ==
    /\ At(t) = "write"
    /\ file' \in IF task[t].fd THEN Overlaid(task[t].past, file) ELSE {file}
    /\ task' = [task EXCEPT ![t].at = task[t].then, ![t].fd = FALSE]
    /\ said' = IF task[t].then = "over" THEN said \cup {t} ELSE said
    /\ owed' = (owed /\ task[t].then # "leave")
    /\ UNCHANGED <<stats, active, rows, mishaps, overlapped, lost>>

\* The directory or the file cannot be opened: the error is logged, or not even
\* that, and the turn or the compaction goes on.  After a compaction's clearing
\* the summary was all there was.
SaveFails(t) ==
    /\ At(t) = "truncate"
    /\ Fault
    /\ lost' = IF task[t].then = "leave" THEN lost \cup (said \ Remembered(file)) ELSE lost
    /\ owed' = (owed /\ task[t].then # "leave")
    /\ Goto(t, task[t].then)
    /\ UNCHANGED <<file, stats, active, rows, overlapped, said>>

\* The write breaks off: the file was truncated before, and holds a part.
WriteFails(t) ==
    /\ At(t) = "write"
    /\ Fault
    /\ file' \in IF task[t].fd THEN UNION {Overlaid(h, file) : h \in Partial(task[t].past)} ELSE {file}
    /\ lost' = lost \cup (said \ Remembered(file'))
    /\ owed' = (owed /\ task[t].then # "leave" /\ file' # Empty)
    /\ task' = [task EXCEPT ![t].at = task[t].then, ![t].fd = FALSE]
    /\ UNCHANGED <<stats, active, rows, overlapped, said>>

\* The turns that a task may still write back: it has read them, and the file it
\* will write is not the one it had open.
InHand(t) ==
    IF \/ At(t) \in {"truncate", "open", "summarize", "clear"}
       \/ At(t) \in {"decide", "converse"} /\ ~task[t].past.ctx
       \/ At(t) = "drop" /\ task[t].then = "clear"
    THEN Remembered(task[t].past) ELSE {}

\* The turns that are over and in nobody's hands.
Settled == {t \in Begun \ Running : \A s \in Tasks : t \notin InHand(s)}

\* remove_file: the files that writers have open lose their name.
Clear(t, next) ==
    /\ file' = Empty
    /\ task' = [s \in Tasks |->
                  IF s = t THEN [task[s] EXCEPT !.fd = FALSE, !.at = next, !.saw = @ \cup Settled]
                           ELSE [task[s] EXCEPT !.fd = FALSE]]

\* The file cannot be removed: an erase will say so, a reset and a compaction
\* do not look.
ClearFails(t) ==
    /\ Fault
    /\ \/ At(t) = "erase" /\ Goto(t, "forget")
       \/ At(t) = "wipe" /\ Goto(t, "leave")
       \/ At(t) = "clear" /\ task' = [task EXCEPT ![t].at = "truncate", ![t].then = "leave"]
    /\ UNCHANGED <<file, stats, active, rows, overlapped, said, lost, owed>>
-----------------------------------------------------------------------------
(* Agent::run.                                                             *)

Load(t) ==
    /\ At(t) = "load"
    /\ \E h \in {file, Empty} :
          Read(h) /\ task' = [task EXCEPT ![t].past = h, ![t].at = "decide"]
    /\ UNCHANGED <<file, stats, active, rows, overlapped, said, owed>>

\* A context at 90 % is compacted before the turn.
Decide(t) ==
    /\ At(t) = "decide"
    /\ Goto(t, IF task[t].past # Empty /\ stats = "full" THEN "take" ELSE "converse")
    /\ UNCHANGED <<file, stats, active, rows, mishaps, overlapped, said, lost, owed>>

Reload(t) ==
    /\ At(t) = "reload"
    /\ \E h \in {file, Empty} :
          Read(h) /\ task' = [task EXCEPT ![t].past = h, ![t].at = "converse"]
    /\ UNCHANGED <<file, stats, active, rows, overlapped, said, owed>>

\* A UUID nothing else has.
Unused(c) == rows[c] = "none" /\ \A t \in Tasks : task[t].cid # c

\* MUTANT: the database is not asked for the row a former process left open.
JoinNewRow(c) ==
    \/ active = c /\ UNCHANGED <<active, rows>>
    \/ /\ active = None
       /\ Unused(c)
       /\ active' = c
       /\ rows' = [rows EXCEPT ![c] = "open"]

\* current_conversation_id, under the lock of the map: the user's entry, else
\* the row the database has open, else a new one.  A failed query counts as no
\* row; a failed insert leaves the entry without one.
Join(c) ==
    \/ active = c /\ UNCHANGED <<active, rows>>
    \/ /\ active = None
       /\ active' = c
       /\ \/ rows[c] = "open" /\ TRUE \in DbAnswers /\ UNCHANGED rows
          \/ /\ Unused(c)
             /\ FALSE \in DbAnswers \/ \A d \in Convs : rows[d] # "open"
             /\ \E ok \in DbAnswers :
                   rows' = IF ok THEN [rows EXCEPT ![c] = "open"] ELSE rows

\* The turn joins its conversation, and a history that does not open with the
\* session context is saved with it.
Converse(t) ==
    /\ At(t) = "converse"
    /\ \E c \in Convs :
          /\ Join(c)
          /\ task' = [task EXCEPT ![t].cid = c,
                                  ![t].past = [@ EXCEPT !.ctx = TRUE],
                                  ![t].at = IF task[t].past.ctx THEN "llm" ELSE "truncate",
                                  ![t].then = "llm"]
    /\ UNCHANGED <<file, stats, mishaps, overlapped, said, lost, owed>>

\* A round of the tool loop: record_usage keeps the prompt's size.
Round(t) ==
    /\ At(t) = "llm"
    /\ stats' \in {"low", "full"}
    /\ owed' = FALSE
    /\ \E next \in {"llm", "append"} : Goto(t, next)
    /\ UNCHANGED <<file, active, rows, mishaps, overlapped, said, lost>>

\* The loop ends without another completion: an error, a cancel.
RoundFails(t) ==
    /\ At(t) = "llm"
    /\ Goto(t, "append")
    /\ UNCHANGED <<file, stats, active, rows, mishaps, overlapped, said, lost, owed>>

\* MUTANT: the turn is added to the history the turn began with.
AppendStale(t) ==
    /\ At(t) = "append"
    /\ task' = [task EXCEPT ![t].past.turns = @ \cup {t},
                            ![t].at = "truncate", ![t].then = "over"]
    /\ UNCHANGED <<file, stats, active, rows, mishaps, overlapped, said, lost, owed>>

\* append_turn reads the file again, adds the turn and saves.
Append(t) ==
    /\ At(t) = "append"
    /\ \E h \in {file, Empty} :
          /\ Read(h)
          /\ task' = [task EXCEPT ![t].past = [h EXCEPT !.turns = @ \cup {t}],
                                  ![t].at = "truncate", ![t].then = "over"]
    /\ UNCHANGED <<file, stats, active, rows, overlapped, said, owed>>
-----------------------------------------------------------------------------
(* compact_session_with_hooks, on its own or before a turn.                *)

Take(t) ==
    /\ At(t) = "take"
    /\ stats' = "none"
    /\ task' = [task EXCEPT ![t].prev = stats, ![t].at = "digest"]
    /\ UNCHANGED <<file, active, rows, mishaps, overlapped, said, lost, owed>>

Digest(t) ==
    /\ At(t) = "digest"
    /\ task' = [task EXCEPT ![t].past = file,
                            ![t].at = IF file = Empty THEN "leave" ELSE "open"]
    /\ UNCHANGED <<file, stats, active, rows, mishaps, overlapped, said, lost, owed>>

\* A history that cannot be read is nothing to compact: the compaction counts as
\* done, and the statistics stay dropped.
DigestFails(t) ==
    /\ At(t) = "digest"
    /\ file # Empty
    /\ Fault
    /\ owed' = FALSE
    /\ task' = [task EXCEPT ![t].past = Empty, ![t].at = "leave"]
    /\ UNCHANGED <<file, stats, active, rows, overlapped, said, lost>>

Open(t) ==
    /\ At(t) = "open"
    /\ \E c \in Convs :
          /\ Join(c)
          /\ task' = [task EXCEPT ![t].cid = c, ![t].at = "summarize"]
    /\ UNCHANGED <<file, stats, mishaps, overlapped, said, lost, owed>>

\* MUTANT: a summary that is empty replaces the history.
SummarizeAnyway(t) ==
    /\ At(t) = "summarize"
    /\ stats' \in {stats, "low", "full"}
    /\ \E gist \in {Remembered(task[t].past), {}} :
          task' = [task EXCEPT ![t].past = [ctx |-> FALSE, turns |-> {}, gist |-> gist],
                               ![t].at = "drop", ![t].then = "clear"]
    /\ UNCHANGED <<file, active, rows, mishaps, overlapped, said, lost, owed>>

\* The summary, whose usage is recorded like any other; or none, from an error
\* or an empty answer.
Summarize(t) ==
    /\ At(t) = "summarize"
    /\ stats' \in {stats, "low", "full"}
    /\ \/ task' = [task EXCEPT ![t].past = [ctx |-> FALSE, turns |-> {}, gist |-> Remembered(@)],
                               ![t].at = "drop", ![t].then = "clear"]
       \/ task' = [task EXCEPT ![t].at = "drop", ![t].then = "restore"]
    /\ UNCHANGED <<file, active, rows, mishaps, overlapped, said, lost, owed>>

DropStats(t) ==
    /\ At(t) = "drop"
    /\ stats' = "none"
    /\ Goto(t, task[t].then)
    /\ UNCHANGED <<file, active, rows, mishaps, overlapped, said, lost, owed>>

\* MUTANT: the statistics stay dropped.
RestoreNothing(t) ==
    /\ At(t) = "restore"
    /\ owed' = (owed \/ task[t].prev = "full")
    /\ Goto(t, Return(t))
    /\ UNCHANGED <<file, stats, active, rows, mishaps, overlapped, said, lost>>

\* No summary: the history is kept, and the statistics are put back.
Restore(t) ==
    /\ At(t) = "restore"
    /\ stats' = IF task[t].prev = "none" THEN stats ELSE task[t].prev
    /\ owed' = (owed \/ task[t].prev = "full")
    /\ Goto(t, Return(t))
    /\ UNCHANGED <<file, active, rows, mishaps, overlapped, said, lost>>

\* The old history goes, then the summary is saved in its place.
ClearForSummary(t) ==
    /\ At(t) = "clear"
    /\ file' = Empty
    /\ task' = [s \in Tasks |->
                  IF s = t THEN [task[s] EXCEPT !.fd = FALSE, !.at = "truncate", !.then = "leave"]
                           ELSE [task[s] EXCEPT !.fd = FALSE]]
    /\ UNCHANGED <<stats, active, rows, mishaps, overlapped, said, lost, owed>>
-----------------------------------------------------------------------------
(* reset_session and /data erase.                                          *)

\* erase_data_command clears the history first ...
Erase(t) ==
    /\ At(t) = "erase"
    /\ Clear(t, "forget")
    /\ said' = {}
    /\ UNCHANGED <<stats, active, rows, mishaps, overlapped, lost, owed>>

\* ... then, as for /session new, the statistics go, ...
Forget(t) ==
    /\ At(t) = "forget"
    /\ stats' = "none"
    /\ owed' = FALSE
    /\ Goto(t, "wipe")
    /\ UNCHANGED <<file, active, rows, mishaps, overlapped, said, lost>>

\* ... the history (once more), ...
Wipe(t) ==
    /\ At(t) = "wipe"
    /\ Clear(t, "leave")
    /\ said' = {}
    /\ UNCHANGED <<stats, active, rows, mishaps, overlapped, lost, owed>>

\* ... and the active conversation: out of the map first, ...
Leave(t) ==
    /\ At(t) = "leave"
    /\ active' = None
    /\ task' = [task EXCEPT ![t].cid = active,
                            ![t].at = IF active = None THEN Return(t) ELSE "end_row"]
    /\ UNCHANGED <<file, stats, rows, mishaps, overlapped, said, lost, owed>>

\* ... ended in the database afterwards.
EndRow(t) ==
    /\ At(t) = "end_row"
    /\ \E ok \in DbAnswers :
          rows' = IF ok /\ rows[task[t].cid] = "open"
                    THEN [rows EXCEPT ![task[t].cid] = "ended"] ELSE rows
    /\ task' = [task EXCEPT ![t].cid = None, ![t].at = Return(t)]
    /\ UNCHANGED <<file, stats, active, mishaps, overlapped, said, lost, owed>>

\* clear_token_data deletes every row of the user; then the erase is confirmed.
Delete(t) ==
    /\ At(t) = "delete"
    /\ \E ok \in DbAnswers : rows' = IF ok THEN [c \in Convs |-> "none"] ELSE rows
    /\ Goto(t, "over")
    /\ UNCHANGED <<file, stats, active, mishaps, overlapped, said, lost, owed>>
-----------------------------------------------------------------------------
\* The only copy of the history is in the task's hands.
Saving(t) == \/ At(t) = "write" /\ task[t].fd
             \/ At(t) = "truncate" /\ task[t].then = "leave"

\* The process stops and starts again: the tasks and the maps are gone.  (What a
\* stop in the middle of a write leaves is what WriteFails leaves.)
Restart ==
    /\ mishaps < MaxMishaps /\ mishaps' = mishaps + 1
    /\ lost' = IF \E t \in Tasks : Saving(t) THEN lost \cup (said \ Remembered(file)) ELSE lost
    /\ stats' = "none"
    /\ active' = None
    /\ owed' = FALSE
    /\ task' = [t \in Tasks |-> IF t \in Running
                              THEN [Fresh(task[t].op) EXCEPT !.at = "over", !.saw = task[t].saw]
                              ELSE task[t]]
    /\ UNCHANGED <<file, rows, overlapped, said>>

Step(t) == \/ Begin(t) \/ Truncate(t) \/ Write(t)
           \/ SaveFails(t) \/ WriteFails(t) \/ ClearFails(t) \/ DigestFails(t)
           \/ Load(t) \/ Decide(t) \/ Reload(t) \/ Converse(t)
           \/ Round(t) \/ RoundFails(t) \/ Append(t)
           \/ Take(t) \/ Digest(t) \/ Open(t) \/ Summarize(t)
           \/ DropStats(t) \/ Restore(t) \/ ClearForSummary(t)
           \/ Erase(t) \/ Forget(t) \/ Wipe(t) \/ Leave(t) \/ EndRow(t) \/ Delete(t)

Next == Restart \/ \E t \in Tasks : Step(t)

Spec == Init /\ [][Next]_vars
-----------------------------------------------------------------------------
TaskRecord == [op : Ops, at : Places, past : History, prev : Stats, fd : BOOLEAN,
               cid : Convs \cup {None}, then : Places, saw : SUBSET Tasks]
TypeOK == /\ file \in History
          /\ stats \in Stats
          /\ active \in Convs \cup {None}
          /\ rows \in [Convs -> {"none", "open", "ended"}]
          /\ task \in [Tasks -> TaskRecord]
          /\ \A t \in Tasks : At(t) = "end_row" => task[t].cid # None
          /\ mishaps \in 0..MaxMishaps
          /\ overlapped \in BOOLEAN
          /\ said \subseteq Tasks /\ lost \subseteq Tasks
          /\ owed \in BOOLEAN

\* History is never trimmed (crates/history/src/lib.rs:28, HANDOFF.md:175-177):
\* between tasks the file remembers every turn appended since the last reset,
\* word for word or in its summary.  What forgets turns is `lost': a failed read
\* by a turn, a write that breaks off, and a compaction that has cleared the file
\* and fails to open it or is stopped.  A failed clear, a save that cannot begin,
\* a compaction that cannot read and a stop anywhere else forget nothing.
NeverTrimmed == Running = {} => said \ lost \subseteq Remembered(file)

\* ... as long as no two tasks of the user have overlapped.
HistoryKept == ~overlapped => NeverTrimmed

\* All stored data has been erased (bot-commands/src/lib.rs:263): what a reset or
\* an erase clears is not remembered again, whatever other tasks are in flight,
\* restarted or failing; only what such a task had in hand can come back.
ErasedStaysErased == \A e \in Tasks : Remembered(file) \cap task[e].saw = {}

\* Auto-compaction retries only while the statistics still show a full context
\* (session.rs:73): a failed compaction leaves them so, until new usage, a reset,
\* or a compaction that counts as done replaces them (one that could not read the
\* history, or could not save the summary, counts too).
FullContextRetried == (~overlapped /\ Running = {} /\ owed) => stats = "full"

\* The conversation the map names is an open row of the database: usage is not
\* counted on an ended conversation, nor lost on one without a row.
ActiveIsOpen == (~overlapped /\ Running = {} /\ active # None) => rows[active] = "open"

\* A user never has two open conversations, however tasks interleave and
\* whenever the bot restarts, as long as the database answers
\* (token-monitor/src/lib.rs:236-241).
OneOpenConversation ==
    \A c, d \in Convs : (rows[c] = "open" /\ rows[d] = "open") => c = d

\* So what a turn records is counted once, on the user's one conversation.
UsageOnOneRow == OneOpenConversation /\ ActiveIsOpen
=============================================================================
