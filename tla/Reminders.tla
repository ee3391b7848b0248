------------------------------ MODULE Reminders ------------------------------
(***************************************************************************)
(* The reminders file (crates/reminders) and those who rewrite it: the     *)
(* set_reminder tool, the erase of a user's data and the delivery loop of  *)
(* the bot (src/bot/handler.rs).  Each loads the whole file and writes it  *)
(* back, with no lock; a write truncates the file first, and what is not a *)
(* whole array, or cannot be read, loads as empty.                         *)
(***************************************************************************)
EXTENDS Naturals, FiniteSets

CONSTANTS Reminder,      \* bound: the reminders ever set
          OwnerOf(_),    \* the user a reminder is for
          Writer,        \* bound: tool calls and erases running at once
          MinDelay, MaxDelay,     \* the bounds on delay_minutes
          Delay,         \* the delays an instance asks for
          MaxTime, MaxFaults, MaxErases, MaxRestarts,    \* bounds
          Torn, Garbled, \* a file cut short, and one with two texts in it
          None

VARIABLES
    file,      \* reminders.json: the set of reminders, Torn or Garbled
    due,       \* when each reminder is due
    job,       \* the tool calls and erases, and the loop
    clock, faults, erases, restarts,
    status,    \* auxiliary: "new", "set", "sent" or "gone" of each reminder
    wrong,     \* auxiliary: the reminders sent more than once, or after their erase
    unsure     \* auxiliary: the reminders that a race, a fault or a restart has put
               \*   at risk

vars == <<file, due, job, clock, faults, erases, restarts, status, wrong, unsure>>

Loop == "loop"

\* A damaged file is no set of reminders, a delay that is granted is no less than
\* nothing, and the loop is no tool call.
RemindersAssumption == /\ \A s \in SUBSET Reminder : s \notin {Torn, Garbled}
                       /\ \A d \in Delay : d >= MinDelay => d \in Nat
                       /\ Loop \notin Writer
Jobs == Writer \cup {Loop}
Idle == [at |-> "idle", kind |-> None, what |-> None, held |-> {}, send |-> {}]

Now(j) == job[j].at
Whole == file \notin {Torn, Garbled}

\* Reminders::load of a file that can be read.
Loaded == IF Whole THEN file ELSE {}

Begin(j, rec) == job' = [job EXCEPT ![j] = rec]

\* create_reminder: the delay is checked before the file is touched.
SetReminder(j) ==
    /\ Now(j) = "idle"
    /\ \E r \in Reminder, d \in Delay :
          /\ status[r] = "new"
          /\ d >= MinDelay /\ d <= MaxDelay
          /\ due' = [due EXCEPT ![r] = clock + d]
          /\ status' = [status EXCEPT ![r] = "asked"]
          /\ Begin(j, [Idle EXCEPT !.at = "load", !.kind = "add", !.what = r])
    /\ UNCHANGED <<file, clock, faults, erases, restarts, wrong, unsure>>

\* erase_data_command: the reminders of one user.
Erase(j) ==
    /\ Now(j) = "idle" /\ erases < MaxErases
    /\ erases' = erases + 1
    /\ \E r \in Reminder : Begin(j, [Idle EXCEPT !.at = "load", !.kind = "erase", !.what = OwnerOf(r)])
    /\ UNCHANGED <<file, due, clock, faults, restarts, status, wrong, unsure>>

\* The loop of `ready', every 30 seconds.
Wake ==
    /\ Now(Loop) = "idle"
    /\ Begin(Loop, [Idle EXCEPT !.at = "load", !.kind = "pop"])
    /\ UNCHANGED <<file, due, clock, faults, erases, restarts, status, wrong, unsure>>

Due(rs) == {r \in rs : due[r] <= clock}

\* MUTANT: pop_due leaves what it hands out in the file.
BackUnpopped(me, rs) ==
    CASE me.kind = "add"   -> rs \cup {me.what}
      [] me.kind = "erase" -> {r \in rs : OwnerOf(r) # me.what}
      [] me.kind = "pop"   -> rs

\* What each writes back of what it read: add, remove_user and pop_due.
Back(me, rs) ==
    CASE me.kind = "add"   -> rs \cup {me.what}
      [] me.kind = "erase" -> {r \in rs : OwnerOf(r) # me.what}
      [] me.kind = "pop"   -> rs \ Due(rs)

Confirmed == {r \in Reminder : status[r] = "set"}

\* pop_due writes only when something is due.  Whoever goes on to write from a
\* list that came back empty puts every confirmed reminder at risk.
Take(j, rs, blind) ==
    LET me == job[j]
        sent == IF me.kind = "pop" THEN Due(rs) ELSE {}
        none == me.kind = "pop" /\ sent = {}
    IN  /\ job' = [job EXCEPT ![j] = IF none THEN Idle
                                     ELSE [me EXCEPT !.at = "open", !.held = Back(me, rs), !.send = sent]]
        /\ unsure' = IF blind /\ ~none THEN unsure \cup Confirmed ELSE unsure

Load(j) ==
    /\ Now(j) = "load"
    /\ Take(j, Loaded, ~Whole)
    /\ UNCHANGED <<file, due, clock, faults, erases, restarts, status, wrong>>

\* A file that cannot be read is an empty one.
ReadFails(j) ==
    /\ Now(j) = "load" /\ faults < MaxFaults
    /\ faults' = faults + 1
    /\ Take(j, {}, TRUE)
    /\ UNCHANGED <<file, due, clock, erases, restarts, status, wrong>>

\* What happens once the array is stored, or could not be.
Finished(j, stored) ==
    /\ job' = [job EXCEPT ![j] = IF @.kind = "pop" THEN [@ EXCEPT !.at = "send"] ELSE Idle]
    /\ status' = CASE job[j].kind = "add" /\ stored ->
                          [status EXCEPT ![job[j].what] = IF @ = "asked" THEN "set" ELSE @]
                   [] job[j].kind = "add" /\ ~stored ->
                          [status EXCEPT ![job[j].what] = "gone"]
                   [] job[j].kind = "erase" /\ stored ->
                          [r \in Reminder |-> IF OwnerOf(r) = job[j].what /\ status[r] = "set" THEN "gone" ELSE status[r]]
                   [] OTHER -> status

Open(j) ==
    /\ Now(j) = "open"
    /\ file' = Torn
    /\ job' = [job EXCEPT ![j].at = "write"]
    /\ UNCHANGED <<due, clock, faults, erases, restarts, status, wrong, unsure>>

InFlight(j) == Now(j) \in {"open", "write"}

\* What a write adds or takes away ...
Touched(me) == CASE me.kind = "add"   -> {me.what}
                 [] me.kind = "erase" -> {r \in Reminder : OwnerOf(r) = me.what}
                 [] me.kind = "pop"   -> me.send

\* ... and what of it crosses a list, or messages, that somebody else has in hand.
Crossed(j) == IF \E k \in Jobs \ {j} : InFlight(k) THEN Touched(job[j])
              ELSE IF j = Loop THEN {} ELSE Touched(job[j]) \cap job[Loop].send

\* Over the text of another write, what is left of a longer one stays behind.
Write(j) ==
    /\ Now(j) = "write"
    /\ file' \in IF file = Torn THEN {job[j].held} ELSE {job[j].held, Garbled}
    /\ Finished(j, TRUE)
    /\ unsure' = unsure \cup Crossed(j)
    /\ UNCHANGED <<due, clock, faults, erases, restarts, wrong>>

\* The disk refuses, or breaks off; pop_due sends all the same, the erase tells
\* nobody.
WriteFails(j) ==
    /\ InFlight(j) /\ faults < MaxFaults
    /\ faults' = faults + 1
    /\ file' \in IF Now(j) = "write" THEN {file, Garbled} ELSE {file}
    /\ Finished(j, FALSE)
    /\ unsure' = IF job[j].kind = "pop" THEN unsure \cup job[j].send ELSE unsure
    /\ UNCHANGED <<due, clock, erases, restarts, wrong>>

\* One direct message per reminder; its errors are dropped.
Send ==
    /\ Now(Loop) = "send"
    /\ IF job[Loop].send = {}
       THEN /\ job' = [job EXCEPT ![Loop] = Idle]
            /\ UNCHANGED <<status, wrong>>
       ELSE \E r \in job[Loop].send :
               /\ job' = [job EXCEPT ![Loop].send = @ \ {r}]
               /\ status' = [status EXCEPT ![r] = "sent"]
               /\ wrong' = IF status[r] = "set" THEN wrong ELSE wrong \cup {r}
    /\ UNCHANGED <<file, due, clock, faults, erases, restarts, unsure>>

\* The bot stops; inside a write that leaves a truncated file, between the
\* write and the message it leaves the reminder nowhere.
Restart ==
    /\ restarts < MaxRestarts
    /\ restarts' = restarts + 1
    /\ job' = [j \in Jobs |-> Idle]
    /\ unsure' = unsure \cup job[Loop].send
    /\ UNCHANGED <<file, due, clock, faults, erases, status, wrong>>

Tick == /\ clock < MaxTime
        /\ clock' = clock + 1
        /\ UNCHANGED <<file, due, job, faults, erases, restarts, status, wrong, unsure>>

Init == /\ file = {}
        /\ due = [r \in Reminder |-> 0]
        /\ job = [j \in Jobs |-> Idle]
        /\ clock = 0 /\ faults = 0 /\ erases = 0 /\ restarts = 0
        /\ status = [r \in Reminder |-> "new"]
        /\ wrong = {}
        /\ unsure = {}

Next == \/ \E j \in Writer : SetReminder(j) \/ Erase(j)
        \/ Wake \/ Send
        \/ \E j \in Jobs : Load(j) \/ ReadFails(j) \/ Open(j) \/ Write(j) \/ WriteFails(j)
        \/ Restart \/ Tick

-----------------------------------------------------------------------------
(* A reminder is never sent before it is due.  One that was confirmed is   *)
(* in the file, in the loop's hands, sent or erased, and is sent once and  *)
(* not after its erase, unless it was put at risk: the write that added it *)
(* or took it away crossed another or, erasing, the loop that was sending  *)
(* it; somebody wrote back a list read as empty, inside a write, after a   *)
(* broken one or by a failed read; or the loop had it in hand when its     *)
(* write failed or the bot stopped.                                        *)
NoneLostNoneTwice ==
    /\ \A r \in Reminder : status[r] = "sent" => due[r] <= clock
    /\ \A r \in Reminder \ unsure :
          /\ r \notin wrong
          /\ status[r] = "set" /\ Whole => r \in file \cup job[Loop].send
          /\ status[r] \in {"sent", "gone"} /\ Whole => r \notin file
=============================================================================
