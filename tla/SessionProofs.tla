---------------------------- MODULE SessionProofs ----------------------------
(***************************************************************************)
(* What a user's session keeps, for any number of tasks, conversations,    *)
(* restarts and failures of the disk: what was cleared stays cleared       *)
(* however the tasks overlap, and nothing is forgotten, and the statistics *)
(* and the conversation rows are right, as long as they have not.          *)
(***************************************************************************)
EXTENDS Session, FiniteSetTheorems, TLAPS

Out == {"idle", "over"}

\* Where a task can be, by what it is, and what follows a save or a summary.
OfItsKind(t) ==
    /\ task[t].op = "erase" => At(t) \in Out \cup {"erase", "forget", "wipe", "leave", "end_row", "delete"}
    /\ At(t) \in {"erase", "delete"} => task[t].op = "erase"
    /\ At(t) \in {"truncate", "write"} => task[t].then \in {"llm", "over", "leave"}
    /\ At(t) = "drop" => task[t].then \in {"clear", "restore"}

\* What a task may put into the file.
Held(t) == InHand(t) \cup (IF At(t) = "write" /\ task[t].fd THEN Remembered(task[t].past) ELSE {})

\* What was cleared away belongs to turns that are over, and nobody holds it.
Buried == \A e \in Tasks : \A x \in task[e].saw :
             At(x) = "over" /\ x \notin Remembered(file) /\ \A s \in Tasks : x \notin Held(s)

\* Where the only copy of the history may be in the task's hands.
InTransit(t) == At(t) = "write" \/ (At(t) = "truncate" /\ task[t].then = "leave")

\* A task at work has what was said in the file, or in its hands to be written.
Remembers(t) ==
    /\ ~InTransit(t) => said \ lost \subseteq Remembered(file)
    /\ \/ At(t) \in {"decide", "converse", "truncate", "write", "clear"}
       \/ At(t) = "drop" /\ task[t].then = "clear"
       => said \ lost \subseteq Remembered(task[t].past)
    /\ At(t) \in {"open", "summarize"} => task[t].past = file
    /\ At(t) = "write" => task[t].fd /\ file = Empty
    /\ At(t) \in {"truncate", "write"} /\ task[t].then = "over" => t \in task[t].past.turns

\* A full context whose compaction failed is on record, or in the hands of the
\* compaction that retries; there is a history to compact.
Retries(t) ==
    /\ At(t) \in {"open", "summarize", "drop", "restore", "clear"} => file # Empty
    /\ At(t) \in {"truncate", "write"} /\ task[t].then # "leave" => task[t].past # Empty
    /\ owed =>
         /\ At(t) # "wipe"
         /\ \/ At(t) \in {"digest", "open", "summarize", "drop", "restore", "clear"}
            \/ At(t) \in {"truncate", "write"} /\ task[t].then = "leave"
            \/ stats = "full"
         /\ At(t) \in {"digest", "open", "summarize", "drop", "restore"} => task[t].prev = "full"
         /\ \/ InTransit(t)
            \/ At(t) = "forget" /\ task[t].op = "erase"
            \/ file # Empty

\* Whoever ends a row has left its conversation.
Leaves(t) == At(t) \in {"end_row", "delete"} => active = None

\* What holds of tasks that run one at a time.
Serial == /\ \A s, t \in Running : s = t
          /\ NeverTrimmed
          /\ Running = {} /\ owed => stats = "full" /\ file # Empty
          /\ \A t \in Running : Remembers(t) /\ Retries(t) /\ Leaves(t)
IInv == /\ TypeOK
        /\ \A t \in Tasks : OfItsKind(t)
        /\ Buried
        /\ ~overlapped => Serial
-----------------------------------------------------------------------------
\* The types of what a step finds.
LEMMA Types ==
    ASSUME IInv, NEW t \in Tasks
    PROVE  /\ task \in [Tasks -> TaskRecord] /\ task[t] \in TaskRecord /\ OfItsKind(t)
           /\ file \in History /\ stats \in Stats /\ active \in Convs \cup {None} /\ owed \in BOOLEAN
           /\ rows \in [Convs -> {"none", "open", "ended"}]
           /\ said \subseteq Tasks /\ lost \subseteq Tasks /\ overlapped \in BOOLEAN
           /\ mishaps \in 0..MaxMishaps
  BY DEF IInv, TypeOK

\* What the steps of one task find in the state before them, if none overlapped.
LEMMA Finds ==
    ASSUME IInv, NEW t \in Tasks, At(t) # "over", ~overlapped, At(t) = "idle" => Running = {}
    PROVE  /\ Remembers(t) /\ Retries(t) /\ Leaves(t)
           /\ \A s \in Tasks \ {t} : At(s) \in Out
<1>1. CASE At(t) = "idle"
  <2>1. Running = {} /\ said \ lost \subseteq Remembered(file) /\ (owed => stats = "full" /\ file # Empty)
    BY <1>1 DEF IInv, Serial, NeverTrimmed
  <2>2. Remembers(t) /\ Retries(t) /\ Leaves(t)
    BY <1>1, <2>1 DEF Remembers, Retries, Leaves, InTransit
  <2>3. \A s \in Tasks : At(s) \in Out
    BY <2>1 DEF Running, Out
  <2> QED
    BY <2>2, <2>3
<1>2. CASE At(t) # "idle"
  <2>1. t \in Running
    BY <1>2 DEF Running
  <2>2. \A s \in Tasks \ {t} : At(s) \in Out
    BY <2>1 DEF IInv, Serial, Running, Out
  <2> QED
    BY <2>1, <2>2 DEF IInv, Serial
<1> QED
  BY <1>1, <1>2

\* The others are where they were; at most a file they had open lost its name.
Others(t) == \A s \in Tasks \ {t} : task'[s] = task[s] \/ task'[s] = [task[s] EXCEPT !.fd = FALSE]

LEMMA OthersStay ==
    ASSUME NEW t \in Tasks, task \in [Tasks -> TaskRecord], Others(t), NEW s \in Tasks \ {t}
    PROVE  /\ task'[s].op = task[s].op /\ task'[s].at = task[s].at /\ task'[s].past = task[s].past
           /\ task'[s].then = task[s].then /\ task'[s].saw = task[s].saw /\ task'[s].cid = task[s].cid
           /\ task'[s].fd => task[s].fd
           /\ At(s)' = At(s) /\ (OfItsKind(s) => OfItsKind(s)') /\ Held(s)' \subseteq Held(s)
<1>1. task[s] \in TaskRecord
  OBVIOUS
<1>2. /\ task'[s].op = task[s].op /\ task'[s].at = task[s].at /\ task'[s].past = task[s].past
      /\ task'[s].then = task[s].then /\ task'[s].saw = task[s].saw /\ task'[s].cid = task[s].cid
      /\ task'[s].fd => task[s].fd
  <2>1. CASE task'[s] = task[s]
    BY <2>1
  <2>2. CASE task'[s] = [task[s] EXCEPT !.fd = FALSE]
    BY <1>1, <2>2 DEF TaskRecord
  <2> QED
    BY <2>1, <2>2 DEF Others
<1>3. At(s)' = At(s)
  BY <1>2 DEF At
<1>4. OfItsKind(s) => OfItsKind(s)'
  BY <1>2, <1>3 DEF OfItsKind
<1>5. InHand(s)' = InHand(s)
  BY <1>2, <1>3 DEF InHand, Remembered
<1>6. Held(s)' \subseteq Held(s)
  BY <1>2, <1>3, <1>5 DEF Held, Remembered
<1> QED
  BY <1>2, <1>3, <1>4, <1>6

\* Nothing that was cleared away comes back by a step that holds none of it.
LEMMA StaysBuried ==
    ASSUME IInv, NEW t \in Tasks, At(t) # "over", task' \in [Tasks -> TaskRecord], Others(t),
           task'[t].saw = task[t].saw,
           Remembered(file') \subseteq Remembered(file) \cup Held(t),
           Held(t)' \subseteq Remembered(file) \cup Held(t) \cup {t}
    PROVE  Buried'
<1> SUFFICES ASSUME NEW e \in Tasks, NEW x \in task'[e].saw
             PROVE  At(x)' = "over" /\ x \notin Remembered(file') /\ \A s \in Tasks : x \notin Held(s)'
  BY DEF Buried
<1>1. task \in [Tasks -> TaskRecord]
  BY Types
<1>2. x \in task[e].saw
  BY <1>1, OthersStay
<1>3. x \in Tasks /\ At(x) = "over" /\ x \notin Remembered(file) /\ \A s \in Tasks : x \notin Held(s)
  BY <1>1, <1>2 DEF IInv, Buried, TaskRecord
<1>4. x # t
  BY <1>3
<1>5. At(x)' = "over"
  BY <1>1, <1>3, <1>4, OthersStay
<1>6. \A s \in Tasks \ {t} : x \notin Held(s)'
  BY <1>1, <1>3, OthersStay
<1> QED
  BY <1>3, <1>4, <1>5, <1>6

\* What a step of a task that does not overlap has to see to, itself.
LEMMA StaysSerial ==
    ASSUME IInv, NEW t \in Tasks, At(t) # "over", ~overlapped, At(t) = "idle" => Running = {},
           Others(t), Remembers(t)', Retries(t)', Leaves(t)'
    PROVE  Serial'
<1>1. task \in [Tasks -> TaskRecord] /\ \A s \in Tasks \ {t} : At(s) \in Out
  BY Types, Finds
<1>2. \A s \in Tasks \ {t} : At(s)' \in Out
  BY <1>1, OthersStay
<1>3. Running' \subseteq {t}
  BY <1>2 DEF Running, Out
<1>4. Running' = {} => At(t)' \in Out
  BY DEF Running, Out
<1>5. NeverTrimmed' /\ (Running' = {} /\ owed' => stats' = "full" /\ file' # Empty)
  BY <1>4 DEF NeverTrimmed, Remembers, Retries, InTransit, Out
<1> QED
  BY <1>3, <1>5 DEF Serial

\* A step keeps the invariant if it keeps its parts.
LEMMA Kept ==
    ASSUME IInv, NEW t \in Tasks, At(t) # "over", Others(t), TypeOK', OfItsKind(t)', Buried',
           ~overlapped' => /\ ~overlapped
                           /\ At(t) = "idle" => Running = {}
                           /\ Remembers(t)' /\ Retries(t)' /\ Leaves(t)'
    PROVE  IInv'
<1>1. task \in [Tasks -> TaskRecord]
  BY Types
<1>2. \A s \in Tasks : OfItsKind(s)'
  BY <1>1, OthersStay DEF IInv
<1>3. ~overlapped' => Serial'
  BY StaysSerial
<1> QED
  BY <1>2, <1>3 DEF IInv

\* The types of what a step changes.
LEMMA Typed ==
    ASSUME IInv, NEW t \in Tasks, NEW r \in TaskRecord, task' = [task EXCEPT ![t] = r],
           r.at = "end_row" => r.cid # None, file' \in History,
           stats' \in Stats, active' \in Convs \cup {None}, rows' \in [Convs -> {"none", "open", "ended"}],
           said' \subseteq Tasks, lost' \subseteq Tasks, owed' \in BOOLEAN, overlapped' \in BOOLEAN,
           mishaps' \in 0..MaxMishaps
    PROVE  /\ TypeOK' /\ task'[t] = r /\ At(t)' = r.at /\ task' \in [Tasks -> TaskRecord] /\ Others(t)
<1>1. task \in [Tasks -> TaskRecord]
  BY Types
<1>2. task' \in [Tasks -> TaskRecord] /\ task'[t] = r /\ \A s \in Tasks \ {t} : task'[s] = task[s]
  BY <1>1
<1>3. \A s \in Tasks : At(s)' = "end_row" => task'[s].cid # None
  BY <1>2 DEF IInv, TypeOK, At
<1> QED
  BY <1>2, <1>3 DEF TypeOK, At, Others

\* A fault is within its bound.
LEMMA FaultCounted ==
    ASSUME SessionAssumption, Fault, mishaps \in 0..MaxMishaps PROVE mishaps' \in 0..MaxMishaps
  BY DEF SessionAssumption, Fault

\* An empty history remembers nothing.
LEMMA EmptyIsHistory == Empty \in History /\ Remembered(Empty) = {}
  BY DEF Empty, History, Remembered

\* A load gives the file, or nothing, which counts as lost what the file holds.
LEMMA ReadGives ==
    ASSUME SessionAssumption, IInv, NEW h \in {file, Empty}, Read(h)
    PROVE  /\ h \in History /\ Remembered(h) \subseteq Remembered(file)
           /\ lost' \subseteq Tasks /\ mishaps' \in 0..MaxMishaps
           /\ lost \subseteq lost' /\ (said \ lost \subseteq Remembered(file) => said \ lost' \subseteq Remembered(h))
<1>1. file \in History /\ lost \subseteq Tasks /\ mishaps \in 0..MaxMishaps
  BY DEF IInv, TypeOK
<1>2. Remembered(file) \subseteq Tasks
  BY <1>1 DEF Remembered, History
<1> QED
  BY <1>1, <1>2, EmptyIsHistory, FaultCounted DEF Read

\* A text over another remembers what either does.
LEMMA OverlaidIs ==
    ASSUME NEW new \in History, NEW old \in History, NEW h \in Overlaid(new, old)
    PROVE  /\ h \in History /\ Remembered(h) \subseteq Remembered(new) \cup Remembered(old)
           /\ old = Empty => h = new
<1>1. CASE old = Empty
  <2>1. Overlaid(new, old) = {new}
    BY <1>1 DEF Overlaid
  <2> QED
    BY <2>1
<1>2. CASE old # Empty
  <2> SUFFICES ASSUME h # Empty
               PROVE  h \in History /\ Remembered(h) \subseteq Remembered(new) \cup Remembered(old)
    BY <1>2, EmptyIsHistory
  <2>1. PICK tail \in SUBSET old.turns, gist \in {{}, old.gist} : h = Onto(new, tail, gist)
    BY <1>2 DEF Overlaid
  <2>2. /\ h = [ctx |-> new.ctx, turns |-> new.turns \cup tail, gist |-> new.gist \cup gist]
        /\ old.turns \subseteq Tasks /\ old.gist \subseteq Tasks
    BY <2>1 DEF Onto, History
  <2>3. h \in History
    BY <2>1, <2>2 DEF History
  <2>4. Remembered(h) \subseteq Remembered(new) \cup Remembered(old)
    BY <2>1, <2>2 DEF Remembered
  <2> QED
    BY <2>3, <2>4
<1> QED
  BY <1>1, <1>2

\* A part of a text remembers no more.
LEMMA PartialIs ==
    ASSUME NEW h \in History, NEW g \in Partial(h)
    PROVE  g \in History /\ Remembered(g) \subseteq Remembered(h)
  BY EmptyIsHistory DEF Partial, Remembered, History

\* Joining a conversation keeps the rows' types.
LEMMA JoinTypes ==
    ASSUME NEW c \in Convs, Join(c), active \in Convs \cup {None},
           rows \in [Convs -> {"none", "open", "ended"}]
    PROVE  active' \in Convs \cup {None} /\ rows' \in [Convs -> {"none", "open", "ended"}]
  BY DEF Join
-----------------------------------------------------------------------------
\* A task begins, beside others or alone.
LEMMA BeginKeeps ==
    ASSUME SessionAssumption, IInv, NEW t \in Tasks, Begin(t)
    PROVE  IInv'
<1>1. /\ task \in [Tasks -> TaskRecord] /\ task[t] \in TaskRecord /\ OfItsKind(t)
      /\ file \in History /\ stats \in Stats /\ active \in Convs \cup {None} /\ owed \in BOOLEAN
      /\ rows \in [Convs -> {"none", "open", "ended"}]
      /\ said \subseteq Tasks /\ lost \subseteq Tasks /\ overlapped \in BOOLEAN
      /\ mishaps \in 0..MaxMishaps
  BY Types
<1>2. At(t) = "idle"
  BY DEF Begin
<1> DEFINE at == CASE task[t].op = "turn" -> "load" [] task[t].op = "compact" -> "take"
                    [] task[t].op = "new" -> "forget" [] task[t].op = "erase" -> "erase"
<1>3. at \in {"load", "take", "forget", "erase"} /\ (task[t].op = "erase" <=> at = "erase")
  BY <1>1 DEF TaskRecord, SessionAssumption
<1> HIDE DEF at
<1> DEFINE r == [task[t] EXCEPT !.at = at]
<1>4. /\ r \in TaskRecord
      /\ r.op = task[t].op /\ r.at = at /\ r.past = task[t].past /\ r.prev = task[t].prev
      /\ r.fd = task[t].fd /\ r.cid = task[t].cid /\ r.then = task[t].then /\ r.saw = task[t].saw
  BY <1>1, <1>2, <1>3 DEF TaskRecord, Places
<1>5. task' = [task EXCEPT ![t] = r]
  BY <1>1, <1>2, <1>3, <1>4 DEF Begin, Goto, r, at
<1> HIDE DEF r
<1>6. TypeOK' /\ task'[t] = r /\ At(t)' = r.at /\ task' \in [Tasks -> TaskRecord] /\ Others(t)
  <2>1. /\ file' \in History /\ stats' \in Stats /\ active' \in Convs \cup {None} /\ owed' \in BOOLEAN
        /\ rows' \in [Convs -> {"none", "open", "ended"}] /\ mishaps' \in 0..MaxMishaps
        /\ said' \subseteq Tasks /\ lost' \subseteq Tasks /\ overlapped' \in BOOLEAN
    BY <1>1, <1>2, <1>3, <1>4, <1>5, FaultCounted, EmptyIsHistory DEF Begin, Stats, TaskRecord
  <2> QED
    BY <1>1, <1>2, <1>3, <1>4, <1>5, <2>1, Typed
<1>7. OfItsKind(t)'
  BY <1>1, <1>2, <1>3, <1>4, <1>5, <1>6 DEF Begin, OfItsKind, Out
<1>8. /\ Remembered(file') \subseteq Remembered(file) \cup Held(t)
      /\ Held(t)' \subseteq Remembered(file) \cup Held(t) \cup {t}
  BY <1>1, <1>2, <1>3, <1>4, <1>6, <1>7, EmptyIsHistory DEF Begin, Held, InHand, OfItsKind
<1>9. Buried'
  BY <1>2, <1>4, <1>6, <1>8, StaysBuried
<1>10. ASSUME ~overlapped' PROVE ~overlapped /\ (At(t) = "idle" => Running = {}) /\ Remembers(t)' /\ Retries(t)' /\ Leaves(t)'
  <2>1. ~overlapped /\ (At(t) = "idle" => Running = {})
    BY <1>10, <1>2 DEF Begin
  <2>2. Remembers(t) /\ Retries(t) /\ Leaves(t)
    BY <1>2, <2>1, Finds
  <2>3. Remembers(t)'
    BY <1>1, <1>2, <1>3, <1>4, <1>6, <1>7, <2>2, EmptyIsHistory DEF Begin, Remembers, InTransit, OfItsKind
  <2>4. Retries(t)' /\ Leaves(t)'
    BY <1>1, <1>2, <1>3, <1>4, <1>6, <1>7, <2>2, EmptyIsHistory DEF Begin, Retries, Leaves, InTransit, OfItsKind, Out
  <2> QED
    BY <2>1, <2>3, <2>4
<1> QED
  BY <1>2, <1>6, <1>7, <1>9, <1>10, Kept

\* A save opens the file, ...
LEMMA TruncateKeeps ==
    ASSUME SessionAssumption, IInv, NEW t \in Tasks, Truncate(t)
    PROVE  IInv'
<1>1. /\ task \in [Tasks -> TaskRecord] /\ task[t] \in TaskRecord /\ OfItsKind(t)
      /\ file \in History /\ stats \in Stats /\ active \in Convs \cup {None} /\ owed \in BOOLEAN
      /\ rows \in [Convs -> {"none", "open", "ended"}]
      /\ said \subseteq Tasks /\ lost \subseteq Tasks /\ overlapped \in BOOLEAN
      /\ mishaps \in 0..MaxMishaps
  BY Types
<1>2. At(t) = "truncate"
  BY DEF Truncate
<1> DEFINE r == [task[t] EXCEPT !.at = "write", !.fd = TRUE]
<1>3. /\ r \in TaskRecord
      /\ r.op = task[t].op /\ r.at = "write" /\ r.past = task[t].past /\ r.prev = task[t].prev
      /\ r.fd = TRUE /\ r.cid = task[t].cid /\ r.then = task[t].then /\ r.saw = task[t].saw
  BY <1>1, <1>2 DEF TaskRecord, Places
<1>4. task' = [task EXCEPT ![t] = r]
  BY <1>1, <1>2, <1>3 DEF Truncate, Goto, r
<1> HIDE DEF r
<1>5. TypeOK' /\ task'[t] = r /\ At(t)' = r.at /\ task' \in [Tasks -> TaskRecord] /\ Others(t)
  <2>1. /\ file' \in History /\ stats' \in Stats /\ active' \in Convs \cup {None} /\ owed' \in BOOLEAN
        /\ rows' \in [Convs -> {"none", "open", "ended"}] /\ mishaps' \in 0..MaxMishaps
        /\ said' \subseteq Tasks /\ lost' \subseteq Tasks /\ overlapped' \in BOOLEAN
    BY <1>1, <1>2, <1>3, <1>4, FaultCounted, EmptyIsHistory DEF Truncate, Stats, TaskRecord
  <2> QED
    BY <1>1, <1>2, <1>3, <1>4, <2>1, Typed
<1>6. OfItsKind(t)'
  BY <1>1, <1>2, <1>3, <1>4, <1>5 DEF Truncate, OfItsKind, Out
<1>7. /\ Remembered(file') \subseteq Remembered(file) \cup Held(t)
      /\ Held(t)' \subseteq Remembered(file) \cup Held(t) \cup {t}
  BY <1>1, <1>2, <1>3, <1>5, <1>6, EmptyIsHistory DEF Truncate, Held, InHand, OfItsKind
<1>8. Buried'
  BY <1>2, <1>3, <1>5, <1>7, StaysBuried
<1>9. ASSUME ~overlapped' PROVE ~overlapped /\ (At(t) = "idle" => Running = {}) /\ Remembers(t)' /\ Retries(t)' /\ Leaves(t)'
  <2>1. ~overlapped /\ (At(t) = "idle" => Running = {})
    BY <1>9, <1>2 DEF Truncate
  <2>2. Remembers(t) /\ Retries(t) /\ Leaves(t)
    BY <1>2, <2>1, Finds
  <2>3. Remembers(t)'
    BY <1>1, <1>2, <1>3, <1>5, <1>6, <2>2, EmptyIsHistory DEF Truncate, Remembers, InTransit, OfItsKind
  <2>4. Retries(t)' /\ Leaves(t)'
    BY <1>1, <1>2, <1>3, <1>5, <1>6, <2>2, EmptyIsHistory DEF Truncate, Retries, Leaves, InTransit, OfItsKind, Out
  <2> QED
    BY <2>1, <2>3, <2>4
<1> QED
  BY <1>2, <1>5, <1>6, <1>8, <1>9, Kept

\* ... and writes what it has, over what another wrote.
LEMMA WriteKeeps ==
    ASSUME SessionAssumption, IInv, NEW t \in Tasks, Write(t)
    PROVE  IInv'
<1>1. /\ task \in [Tasks -> TaskRecord] /\ task[t] \in TaskRecord /\ OfItsKind(t)
      /\ file \in History /\ stats \in Stats /\ active \in Convs \cup {None} /\ owed \in BOOLEAN
      /\ rows \in [Convs -> {"none", "open", "ended"}]
      /\ said \subseteq Tasks /\ lost \subseteq Tasks /\ overlapped \in BOOLEAN
      /\ mishaps \in 0..MaxMishaps
  BY Types
<1>2. At(t) = "write"
  BY DEF Write
<1>3. /\ file' \in History /\ Remembered(file') \subseteq Remembered(file) \cup Held(t)
      /\ task[t].fd /\ file = Empty => file' = task[t].past
  <2>1. task[t].past \in History
    BY <1>1 DEF TaskRecord
  <2>2. CASE task[t].fd
    BY <1>1, <1>2, <2>1, <2>2, OverlaidIs DEF Write, Held
  <2>3. CASE ~task[t].fd
    BY <1>1, <2>3 DEF Write
  <2> QED
    BY <2>2, <2>3
<1> DEFINE at == task[t].then
<1>4. at \in {"llm", "over", "leave"} /\ at = task[t].then
  BY <1>1, <1>2 DEF OfItsKind
<1> HIDE DEF at
<1> DEFINE r == [task[t] EXCEPT !.at = at, !.fd = FALSE]
<1>5. /\ r \in TaskRecord
      /\ r.op = task[t].op /\ r.at = at /\ r.past = task[t].past /\ r.prev = task[t].prev
      /\ r.fd = FALSE /\ r.cid = task[t].cid /\ r.then = task[t].then /\ r.saw = task[t].saw
  BY <1>1, <1>2, <1>3, <1>4 DEF TaskRecord, Places
<1>6. task' = [task EXCEPT ![t] = r]
  BY <1>1, <1>2, <1>3, <1>4, <1>5 DEF Write, Goto, r, at
<1> HIDE DEF r
<1>7. TypeOK' /\ task'[t] = r /\ At(t)' = r.at /\ task' \in [Tasks -> TaskRecord] /\ Others(t)
  <2>1. /\ file' \in History /\ stats' \in Stats /\ active' \in Convs \cup {None} /\ owed' \in BOOLEAN
        /\ rows' \in [Convs -> {"none", "open", "ended"}] /\ mishaps' \in 0..MaxMishaps
        /\ said' \subseteq Tasks /\ lost' \subseteq Tasks /\ overlapped' \in BOOLEAN
    BY <1>1, <1>2, <1>3, <1>4, <1>5, <1>6, FaultCounted, EmptyIsHistory DEF Write, Stats, TaskRecord
  <2> QED
    BY <1>1, <1>2, <1>3, <1>4, <1>5, <1>6, <2>1, Typed
<1>8. OfItsKind(t)'
  BY <1>1, <1>2, <1>3, <1>4, <1>5, <1>6, <1>7 DEF Write, OfItsKind, Out
<1>9. /\ Remembered(file') \subseteq Remembered(file) \cup Held(t)
      /\ Held(t)' \subseteq Remembered(file) \cup Held(t) \cup {t}
  BY <1>1, <1>2, <1>3, <1>4, <1>5, <1>7, <1>8, EmptyIsHistory DEF Write, Held, InHand, OfItsKind
<1>10. Buried'
  BY <1>2, <1>5, <1>7, <1>9, StaysBuried
<1>11. ASSUME ~overlapped' PROVE ~overlapped /\ (At(t) = "idle" => Running = {}) /\ Remembers(t)' /\ Retries(t)' /\ Leaves(t)'
  <2>1. ~overlapped /\ (At(t) = "idle" => Running = {})
    BY <1>11, <1>2 DEF Write
  <2>2. Remembers(t) /\ Retries(t) /\ Leaves(t)
    BY <1>2, <2>1, Finds
  <2>3. Remembers(t)'
    BY <1>1, <1>2, <1>3, <1>4, <1>5, <1>7, <1>8, <2>2, EmptyIsHistory DEF Write, Remembers, InTransit, OfItsKind, Remembered
  <2>4. file' = task[t].past
    BY <1>1, <1>2, <1>3, <2>2, OverlaidIs DEF Write, Remembers, TaskRecord
  <2>5. Retries(t)' /\ Leaves(t)'
    BY <1>1, <1>2, <1>4, <1>5, <1>7, <1>8, <2>2, <2>4 DEF Write, Retries, Leaves, InTransit, OfItsKind, Out
  <2> QED
    BY <2>1, <2>3, <2>5
<1> QED
  BY <1>2, <1>7, <1>8, <1>10, <1>11, Kept

\* A save that cannot begin leaves the file as it is.
LEMMA SaveFailsKeeps ==
    ASSUME SessionAssumption, IInv, NEW t \in Tasks, SaveFails(t)
    PROVE  IInv'
<1>1. /\ task \in [Tasks -> TaskRecord] /\ task[t] \in TaskRecord /\ OfItsKind(t)
      /\ file \in History /\ stats \in Stats /\ active \in Convs \cup {None} /\ owed \in BOOLEAN
      /\ rows \in [Convs -> {"none", "open", "ended"}]
      /\ said \subseteq Tasks /\ lost \subseteq Tasks /\ overlapped \in BOOLEAN
      /\ mishaps \in 0..MaxMishaps
  BY Types
<1>2. At(t) = "truncate"
  BY DEF SaveFails
<1>3. Fault
  BY DEF SaveFails
<1> DEFINE at == task[t].then
<1>4. at \in {"llm", "over", "leave"} /\ at = task[t].then
  BY <1>1, <1>2 DEF OfItsKind
<1> HIDE DEF at
<1> DEFINE r == [task[t] EXCEPT !.at = at]
<1>5. /\ r \in TaskRecord
      /\ r.op = task[t].op /\ r.at = at /\ r.past = task[t].past /\ r.prev = task[t].prev
      /\ r.fd = task[t].fd /\ r.cid = task[t].cid /\ r.then = task[t].then /\ r.saw = task[t].saw
  BY <1>1, <1>2, <1>3, <1>4 DEF TaskRecord, Places
<1>6. task' = [task EXCEPT ![t] = r]
  BY <1>1, <1>2, <1>3, <1>4, <1>5 DEF SaveFails, Goto, r, at
<1> HIDE DEF r
<1>7. TypeOK' /\ task'[t] = r /\ At(t)' = r.at /\ task' \in [Tasks -> TaskRecord] /\ Others(t)
  <2>1. /\ file' \in History /\ stats' \in Stats /\ active' \in Convs \cup {None} /\ owed' \in BOOLEAN
        /\ rows' \in [Convs -> {"none", "open", "ended"}] /\ mishaps' \in 0..MaxMishaps
        /\ said' \subseteq Tasks /\ lost' \subseteq Tasks /\ overlapped' \in BOOLEAN
    BY <1>1, <1>2, <1>3, <1>4, <1>5, <1>6, FaultCounted, EmptyIsHistory DEF SaveFails, Stats, TaskRecord
  <2> QED
    BY <1>1, <1>2, <1>3, <1>4, <1>5, <1>6, <2>1, Typed
<1>8. OfItsKind(t)'
  BY <1>1, <1>2, <1>3, <1>4, <1>5, <1>6, <1>7 DEF SaveFails, OfItsKind, Out
<1>9. /\ Remembered(file') \subseteq Remembered(file) \cup Held(t)
      /\ Held(t)' \subseteq Remembered(file) \cup Held(t) \cup {t}
  BY <1>1, <1>2, <1>3, <1>4, <1>5, <1>7, <1>8, EmptyIsHistory DEF SaveFails, Held, InHand, OfItsKind
<1>10. Buried'
  BY <1>2, <1>5, <1>7, <1>9, StaysBuried
<1>11. ASSUME ~overlapped' PROVE ~overlapped /\ (At(t) = "idle" => Running = {}) /\ Remembers(t)' /\ Retries(t)' /\ Leaves(t)'
  <2>1. ~overlapped /\ (At(t) = "idle" => Running = {})
    BY <1>11, <1>2 DEF SaveFails
  <2>2. Remembers(t) /\ Retries(t) /\ Leaves(t)
    BY <1>2, <2>1, Finds
  <2>3. Remembers(t)'
    BY <1>1, <1>2, <1>3, <1>4, <1>5, <1>7, <1>8, <2>2, EmptyIsHistory DEF SaveFails, Remembers, InTransit, OfItsKind
  <2>4. Retries(t)' /\ Leaves(t)'
    BY <1>1, <1>2, <1>3, <1>4, <1>5, <1>7, <1>8, <2>2, EmptyIsHistory DEF SaveFails, Retries, Leaves, InTransit, OfItsKind, Out
  <2> QED
    BY <2>1, <2>3, <2>4
<1> QED
  BY <1>2, <1>7, <1>8, <1>10, <1>11, Kept

\* A write that breaks off leaves a part.
LEMMA WriteFailsKeeps ==
    ASSUME SessionAssumption, IInv, NEW t \in Tasks, WriteFails(t)
    PROVE  IInv'
<1>1. /\ task \in [Tasks -> TaskRecord] /\ task[t] \in TaskRecord /\ OfItsKind(t)
      /\ file \in History /\ stats \in Stats /\ active \in Convs \cup {None} /\ owed \in BOOLEAN
      /\ rows \in [Convs -> {"none", "open", "ended"}]
      /\ said \subseteq Tasks /\ lost \subseteq Tasks /\ overlapped \in BOOLEAN
      /\ mishaps \in 0..MaxMishaps
  BY Types
<1>2. At(t) = "write"
  BY DEF WriteFails
<1>3. Fault
  BY DEF WriteFails
<1>4. file' \in History /\ Remembered(file') \subseteq Remembered(file) \cup Held(t)
  <2>1. task[t].past \in History
    BY <1>1 DEF TaskRecord
  <2>2. CASE task[t].fd
    <3>1. PICK h \in Partial(task[t].past) : file' \in Overlaid(h, file)
      BY <2>2 DEF WriteFails
    <3>2. h \in History /\ Remembered(h) \subseteq Remembered(task[t].past)
      BY <2>1, PartialIs
    <3>3. file' \in History /\ Remembered(file') \subseteq Remembered(h) \cup Remembered(file)
      BY <1>1, <3>1, <3>2, OverlaidIs
    <3> QED
      BY <1>2, <2>2, <3>2, <3>3 DEF Held
  <2>3. CASE ~task[t].fd
    BY <1>1, <2>3 DEF WriteFails
  <2> QED
    BY <2>2, <2>3
<1> DEFINE at == task[t].then
<1>5. at \in {"llm", "over", "leave"} /\ at = task[t].then
  BY <1>1, <1>2 DEF OfItsKind
<1> HIDE DEF at
<1> DEFINE r == [task[t] EXCEPT !.at = at, !.fd = FALSE]
<1>6. /\ r \in TaskRecord
      /\ r.op = task[t].op /\ r.at = at /\ r.past = task[t].past /\ r.prev = task[t].prev
      /\ r.fd = FALSE /\ r.cid = task[t].cid /\ r.then = task[t].then /\ r.saw = task[t].saw
  BY <1>1, <1>2, <1>3, <1>4, <1>5 DEF TaskRecord, Places
<1>7. task' = [task EXCEPT ![t] = r]
  BY <1>1, <1>2, <1>3, <1>4, <1>5, <1>6 DEF WriteFails, Goto, r, at
<1> HIDE DEF r
<1>8. TypeOK' /\ task'[t] = r /\ At(t)' = r.at /\ task' \in [Tasks -> TaskRecord] /\ Others(t)
  <2>1. /\ file' \in History /\ stats' \in Stats /\ active' \in Convs \cup {None} /\ owed' \in BOOLEAN
        /\ rows' \in [Convs -> {"none", "open", "ended"}] /\ mishaps' \in 0..MaxMishaps
        /\ said' \subseteq Tasks /\ lost' \subseteq Tasks /\ overlapped' \in BOOLEAN
    BY <1>1, <1>2, <1>3, <1>4, <1>5, <1>6, <1>7, FaultCounted, EmptyIsHistory DEF WriteFails, Stats, TaskRecord
  <2> QED
    BY <1>1, <1>2, <1>3, <1>4, <1>5, <1>6, <1>7, <2>1, Typed
<1>9. OfItsKind(t)'
  BY <1>1, <1>2, <1>3, <1>4, <1>5, <1>6, <1>7, <1>8 DEF WriteFails, OfItsKind, Out
<1>10. /\ Remembered(file') \subseteq Remembered(file) \cup Held(t)
      /\ Held(t)' \subseteq Remembered(file) \cup Held(t) \cup {t}
  BY <1>1, <1>2, <1>3, <1>4, <1>5, <1>6, <1>8, <1>9, EmptyIsHistory DEF WriteFails, Held, InHand, OfItsKind
<1>11. Buried'
  BY <1>2, <1>6, <1>8, <1>10, StaysBuried
<1>12. ASSUME ~overlapped' PROVE ~overlapped /\ (At(t) = "idle" => Running = {}) /\ Remembers(t)' /\ Retries(t)' /\ Leaves(t)'
  <2>1. ~overlapped /\ (At(t) = "idle" => Running = {})
    BY <1>12, <1>2 DEF WriteFails
  <2>2. Remembers(t) /\ Retries(t) /\ Leaves(t)
    BY <1>2, <2>1, Finds
  <2>3. Remembers(t)'
    BY <1>1, <1>2, <1>3, <1>4, <1>5, <1>6, <1>8, <1>9, <2>2, EmptyIsHistory DEF WriteFails, Remembers, InTransit, OfItsKind
  <2>4. Retries(t)' /\ Leaves(t)'
    BY <1>1, <1>2, <1>3, <1>4, <1>5, <1>6, <1>8, <1>9, <2>2, EmptyIsHistory DEF WriteFails, Retries, Leaves, InTransit, OfItsKind, Out
  <2> QED
    BY <2>1, <2>3, <2>4
<1> QED
  BY <1>2, <1>8, <1>9, <1>11, <1>12, Kept

\* A file that cannot be removed stays as it is.
LEMMA ClearFailsKeeps ==
    ASSUME SessionAssumption, IInv, NEW t \in Tasks, ClearFails(t)
    PROVE  IInv'
<1>1. /\ task \in [Tasks -> TaskRecord] /\ task[t] \in TaskRecord /\ OfItsKind(t)
      /\ file \in History /\ stats \in Stats /\ active \in Convs \cup {None} /\ owed \in BOOLEAN
      /\ rows \in [Convs -> {"none", "open", "ended"}]
      /\ said \subseteq Tasks /\ lost \subseteq Tasks /\ overlapped \in BOOLEAN
      /\ mishaps \in 0..MaxMishaps
  BY Types
<1>2. At(t) \in {"erase", "wipe", "clear"}
  BY DEF ClearFails
<1>3. Fault
  BY DEF ClearFails
<1> DEFINE at == CASE At(t) = "erase" -> "forget" [] At(t) = "wipe" -> "leave" [] OTHER -> "truncate"
<1> DEFINE then == IF At(t) = "clear" THEN "leave" ELSE task[t].then
<1>4. /\ At(t) = "erase" => at = "forget" /\ then = task[t].then
      /\ At(t) = "wipe" => at = "leave" /\ then = task[t].then
      /\ At(t) = "clear" => at = "truncate" /\ then = "leave"
      /\ then \in Places
  BY <1>1 DEF TaskRecord, Places
<1>5. task' = [task EXCEPT ![t] = [task[t] EXCEPT !.at = at, !.then = then]]
  BY <1>1, <1>2, <1>4 DEF ClearFails, Goto, TaskRecord
<1> HIDE DEF at, then
<1> DEFINE r == [task[t] EXCEPT !.at = at, !.then = then]
<1>6. /\ r \in TaskRecord
      /\ r.op = task[t].op /\ r.at = at /\ r.past = task[t].past /\ r.prev = task[t].prev
      /\ r.fd = task[t].fd /\ r.cid = task[t].cid /\ r.then = then /\ r.saw = task[t].saw
  BY <1>1, <1>2, <1>3, <1>4, <1>5 DEF TaskRecord, Places
<1>7. task' = [task EXCEPT ![t] = r]
  BY <1>1, <1>2, <1>3, <1>4, <1>5, <1>6 DEF ClearFails, Goto, r
<1> HIDE DEF r
<1>8. TypeOK' /\ task'[t] = r /\ At(t)' = r.at /\ task' \in [Tasks -> TaskRecord] /\ Others(t)
  <2>1. /\ file' \in History /\ stats' \in Stats /\ active' \in Convs \cup {None} /\ owed' \in BOOLEAN
        /\ rows' \in [Convs -> {"none", "open", "ended"}] /\ mishaps' \in 0..MaxMishaps
        /\ said' \subseteq Tasks /\ lost' \subseteq Tasks /\ overlapped' \in BOOLEAN
    BY <1>1, <1>2, <1>3, <1>4, <1>5, <1>6, <1>7, FaultCounted, EmptyIsHistory DEF ClearFails, Stats, TaskRecord
  <2> QED
    BY <1>1, <1>2, <1>3, <1>4, <1>5, <1>6, <1>7, <2>1, Typed
<1>9. OfItsKind(t)'
  BY <1>1, <1>2, <1>3, <1>4, <1>5, <1>6, <1>7, <1>8 DEF ClearFails, OfItsKind, Out
<1>10. /\ Remembered(file') \subseteq Remembered(file) \cup Held(t)
      /\ Held(t)' \subseteq Remembered(file) \cup Held(t) \cup {t}
  BY <1>1, <1>2, <1>3, <1>4, <1>5, <1>6, <1>8, <1>9, EmptyIsHistory DEF ClearFails, Held, InHand, OfItsKind
<1>11. Buried'
  BY <1>2, <1>6, <1>8, <1>10, StaysBuried
<1>12. ASSUME ~overlapped' PROVE ~overlapped /\ (At(t) = "idle" => Running = {}) /\ Remembers(t)' /\ Retries(t)' /\ Leaves(t)'
  <2>1. ~overlapped /\ (At(t) = "idle" => Running = {})
    BY <1>12, <1>2 DEF ClearFails
  <2>2. Remembers(t) /\ Retries(t) /\ Leaves(t)
    BY <1>2, <2>1, Finds
  <2>3. Remembers(t)'
    BY <1>1, <1>2, <1>3, <1>4, <1>5, <1>6, <1>8, <1>9, <2>2, EmptyIsHistory DEF ClearFails, Remembers, InTransit, OfItsKind
  <2>4. Retries(t)' /\ Leaves(t)'
    BY <1>1, <1>2, <1>3, <1>4, <1>5, <1>6, <1>8, <1>9, <2>2, EmptyIsHistory DEF ClearFails, Retries, Leaves, InTransit, OfItsKind, Out
  <2> QED
    BY <2>1, <2>3, <2>4
<1> QED
  BY <1>2, <1>8, <1>9, <1>11, <1>12, Kept

\* A turn begins by loading the history.
LEMMA LoadKeeps ==
    ASSUME SessionAssumption, IInv, NEW t \in Tasks, Load(t)
    PROVE  IInv'
<1>1. /\ task \in [Tasks -> TaskRecord] /\ task[t] \in TaskRecord /\ OfItsKind(t)
      /\ file \in History /\ stats \in Stats /\ active \in Convs \cup {None} /\ owed \in BOOLEAN
      /\ rows \in [Convs -> {"none", "open", "ended"}]
      /\ said \subseteq Tasks /\ lost \subseteq Tasks /\ overlapped \in BOOLEAN
      /\ mishaps \in 0..MaxMishaps
  BY Types
<1>2. At(t) = "load"
  BY DEF Load
<1>3. PICK h \in {file, Empty} : Read(h) /\ task' = [task EXCEPT ![t].past = h, ![t].at = "decide"]
  BY DEF Load
<1>4. /\ h \in History /\ Remembered(h) \subseteq Remembered(file)
      /\ lost' \subseteq Tasks /\ mishaps' \in 0..MaxMishaps
      /\ lost \subseteq lost' /\ (said \ lost \subseteq Remembered(file) => said \ lost' \subseteq Remembered(h))
  BY <1>3, ReadGives
<1> DEFINE r == [task[t] EXCEPT !.past = h, !.at = "decide"]
<1>5. /\ r \in TaskRecord
      /\ r.op = task[t].op /\ r.at = "decide" /\ r.past = h /\ r.prev = task[t].prev
      /\ r.fd = task[t].fd /\ r.cid = task[t].cid /\ r.then = task[t].then /\ r.saw = task[t].saw
  BY <1>1, <1>2, <1>3, <1>4 DEF TaskRecord, Places
<1>6. task' = [task EXCEPT ![t] = r]
  BY <1>1, <1>2, <1>3, <1>4, <1>5 DEF Load, Goto, r
<1> HIDE DEF r
<1>7. TypeOK' /\ task'[t] = r /\ At(t)' = r.at /\ task' \in [Tasks -> TaskRecord] /\ Others(t)
  <2>1. /\ file' \in History /\ stats' \in Stats /\ active' \in Convs \cup {None} /\ owed' \in BOOLEAN
        /\ rows' \in [Convs -> {"none", "open", "ended"}] /\ mishaps' \in 0..MaxMishaps
        /\ said' \subseteq Tasks /\ lost' \subseteq Tasks /\ overlapped' \in BOOLEAN
    BY <1>1, <1>2, <1>3, <1>4, <1>5, <1>6, FaultCounted, EmptyIsHistory DEF Load, Stats, TaskRecord
  <2> QED
    BY <1>1, <1>2, <1>3, <1>4, <1>5, <1>6, <2>1, Typed
<1>8. OfItsKind(t)'
  BY <1>1, <1>2, <1>3, <1>4, <1>5, <1>6, <1>7 DEF Load, OfItsKind, Out
<1>9. /\ Remembered(file') \subseteq Remembered(file) \cup Held(t)
      /\ Held(t)' \subseteq Remembered(file) \cup Held(t) \cup {t}
  BY <1>1, <1>2, <1>3, <1>4, <1>5, <1>7, <1>8, EmptyIsHistory DEF Load, Held, InHand, OfItsKind
<1>10. Buried'
  BY <1>2, <1>5, <1>7, <1>9, StaysBuried
<1>11. ASSUME ~overlapped' PROVE ~overlapped /\ (At(t) = "idle" => Running = {}) /\ Remembers(t)' /\ Retries(t)' /\ Leaves(t)'
  <2>1. ~overlapped /\ (At(t) = "idle" => Running = {})
    BY <1>11, <1>2 DEF Load
  <2>2. Remembers(t) /\ Retries(t) /\ Leaves(t)
    BY <1>2, <2>1, Finds
  <2>3. Remembers(t)'
    BY <1>1, <1>2, <1>3, <1>4, <1>5, <1>7, <1>8, <2>2, EmptyIsHistory DEF Load, Remembers, InTransit, OfItsKind
  <2>4. Retries(t)' /\ Leaves(t)'
    BY <1>1, <1>2, <1>3, <1>4, <1>5, <1>7, <1>8, <2>2, EmptyIsHistory DEF Load, Retries, Leaves, InTransit, OfItsKind, Out
  <2> QED
    BY <2>1, <2>3, <2>4
<1> QED
  BY <1>2, <1>7, <1>8, <1>10, <1>11, Kept

\* The turn decides whether it compacts first.
LEMMA DecideKeeps ==
    ASSUME SessionAssumption, IInv, NEW t \in Tasks, Decide(t)
    PROVE  IInv'
<1>1. /\ task \in [Tasks -> TaskRecord] /\ task[t] \in TaskRecord /\ OfItsKind(t)
      /\ file \in History /\ stats \in Stats /\ active \in Convs \cup {None} /\ owed \in BOOLEAN
      /\ rows \in [Convs -> {"none", "open", "ended"}]
      /\ said \subseteq Tasks /\ lost \subseteq Tasks /\ overlapped \in BOOLEAN
      /\ mishaps \in 0..MaxMishaps
  BY Types
<1>2. At(t) = "decide"
  BY DEF Decide
<1> DEFINE at == IF task[t].past # Empty /\ stats = "full" THEN "take" ELSE "converse"
<1>3. at \in {"take", "converse"}
  OBVIOUS
<1> HIDE DEF at
<1> DEFINE r == [task[t] EXCEPT !.at = at]
<1>4. /\ r \in TaskRecord
      /\ r.op = task[t].op /\ r.at = at /\ r.past = task[t].past /\ r.prev = task[t].prev
      /\ r.fd = task[t].fd /\ r.cid = task[t].cid /\ r.then = task[t].then /\ r.saw = task[t].saw
  BY <1>1, <1>2, <1>3 DEF TaskRecord, Places
<1>5. task' = [task EXCEPT ![t] = r]
  BY <1>1, <1>2, <1>3, <1>4 DEF Decide, Goto, r, at
<1> HIDE DEF r
<1>6. TypeOK' /\ task'[t] = r /\ At(t)' = r.at /\ task' \in [Tasks -> TaskRecord] /\ Others(t)
  <2>1. /\ file' \in History /\ stats' \in Stats /\ active' \in Convs \cup {None} /\ owed' \in BOOLEAN
        /\ rows' \in [Convs -> {"none", "open", "ended"}] /\ mishaps' \in 0..MaxMishaps
        /\ said' \subseteq Tasks /\ lost' \subseteq Tasks /\ overlapped' \in BOOLEAN
    BY <1>1, <1>2, <1>3, <1>4, <1>5, FaultCounted, EmptyIsHistory DEF Decide, Stats, TaskRecord
  <2> QED
    BY <1>1, <1>2, <1>3, <1>4, <1>5, <2>1, Typed
<1>7. OfItsKind(t)'
  BY <1>1, <1>2, <1>3, <1>4, <1>5, <1>6 DEF Decide, OfItsKind, Out
<1>8. /\ Remembered(file') \subseteq Remembered(file) \cup Held(t)
      /\ Held(t)' \subseteq Remembered(file) \cup Held(t) \cup {t}
  BY <1>1, <1>2, <1>3, <1>4, <1>6, <1>7, EmptyIsHistory DEF Decide, Held, InHand, OfItsKind
<1>9. Buried'
  BY <1>2, <1>4, <1>6, <1>8, StaysBuried
<1>10. ASSUME ~overlapped' PROVE ~overlapped /\ (At(t) = "idle" => Running = {}) /\ Remembers(t)' /\ Retries(t)' /\ Leaves(t)'
  <2>1. ~overlapped /\ (At(t) = "idle" => Running = {})
    BY <1>10, <1>2 DEF Decide
  <2>2. Remembers(t) /\ Retries(t) /\ Leaves(t)
    BY <1>2, <2>1, Finds
  <2>3. Remembers(t)'
    BY <1>1, <1>2, <1>3, <1>4, <1>6, <1>7, <2>2, EmptyIsHistory DEF Decide, Remembers, InTransit, OfItsKind
  <2>4. Retries(t)' /\ Leaves(t)'
    BY <1>1, <1>2, <1>3, <1>4, <1>6, <1>7, <2>2, EmptyIsHistory DEF Decide, Retries, Leaves, InTransit, OfItsKind, Out
  <2> QED
    BY <2>1, <2>3, <2>4
<1> QED
  BY <1>2, <1>6, <1>7, <1>9, <1>10, Kept

\* A turn reads the history again after a compaction.
LEMMA ReloadKeeps ==
    ASSUME SessionAssumption, IInv, NEW t \in Tasks, Reload(t)
    PROVE  IInv'
<1>1. /\ task \in [Tasks -> TaskRecord] /\ task[t] \in TaskRecord /\ OfItsKind(t)
      /\ file \in History /\ stats \in Stats /\ active \in Convs \cup {None} /\ owed \in BOOLEAN
      /\ rows \in [Convs -> {"none", "open", "ended"}]
      /\ said \subseteq Tasks /\ lost \subseteq Tasks /\ overlapped \in BOOLEAN
      /\ mishaps \in 0..MaxMishaps
  BY Types
<1>2. At(t) = "reload"
  BY DEF Reload
<1>3. PICK h \in {file, Empty} : Read(h) /\ task' = [task EXCEPT ![t].past = h, ![t].at = "converse"]
  BY DEF Reload
<1>4. /\ h \in History /\ Remembered(h) \subseteq Remembered(file)
      /\ lost' \subseteq Tasks /\ mishaps' \in 0..MaxMishaps
      /\ lost \subseteq lost' /\ (said \ lost \subseteq Remembered(file) => said \ lost' \subseteq Remembered(h))
  BY <1>3, ReadGives
<1> DEFINE r == [task[t] EXCEPT !.past = h, !.at = "converse"]
<1>5. /\ r \in TaskRecord
      /\ r.op = task[t].op /\ r.at = "converse" /\ r.past = h /\ r.prev = task[t].prev
      /\ r.fd = task[t].fd /\ r.cid = task[t].cid /\ r.then = task[t].then /\ r.saw = task[t].saw
  BY <1>1, <1>2, <1>3, <1>4 DEF TaskRecord, Places
<1>6. task' = [task EXCEPT ![t] = r]
  BY <1>1, <1>2, <1>3, <1>4, <1>5 DEF Reload, Goto, r
<1> HIDE DEF r
<1>7. TypeOK' /\ task'[t] = r /\ At(t)' = r.at /\ task' \in [Tasks -> TaskRecord] /\ Others(t)
  <2>1. /\ file' \in History /\ stats' \in Stats /\ active' \in Convs \cup {None} /\ owed' \in BOOLEAN
        /\ rows' \in [Convs -> {"none", "open", "ended"}] /\ mishaps' \in 0..MaxMishaps
        /\ said' \subseteq Tasks /\ lost' \subseteq Tasks /\ overlapped' \in BOOLEAN
    BY <1>1, <1>2, <1>3, <1>4, <1>5, <1>6, FaultCounted, EmptyIsHistory DEF Reload, Stats, TaskRecord
  <2> QED
    BY <1>1, <1>2, <1>3, <1>4, <1>5, <1>6, <2>1, Typed
<1>8. OfItsKind(t)'
  BY <1>1, <1>2, <1>3, <1>4, <1>5, <1>6, <1>7 DEF Reload, OfItsKind, Out
<1>9. /\ Remembered(file') \subseteq Remembered(file) \cup Held(t)
      /\ Held(t)' \subseteq Remembered(file) \cup Held(t) \cup {t}
  BY <1>1, <1>2, <1>3, <1>4, <1>5, <1>7, <1>8, EmptyIsHistory DEF Reload, Held, InHand, OfItsKind
<1>10. Buried'
  BY <1>2, <1>5, <1>7, <1>9, StaysBuried
<1>11. ASSUME ~overlapped' PROVE ~overlapped /\ (At(t) = "idle" => Running = {}) /\ Remembers(t)' /\ Retries(t)' /\ Leaves(t)'
  <2>1. ~overlapped /\ (At(t) = "idle" => Running = {})
    BY <1>11, <1>2 DEF Reload
  <2>2. Remembers(t) /\ Retries(t) /\ Leaves(t)
    BY <1>2, <2>1, Finds
  <2>3. Remembers(t)'
    BY <1>1, <1>2, <1>3, <1>4, <1>5, <1>7, <1>8, <2>2, EmptyIsHistory DEF Reload, Remembers, InTransit, OfItsKind
  <2>4. Retries(t)' /\ Leaves(t)'
    BY <1>1, <1>2, <1>3, <1>4, <1>5, <1>7, <1>8, <2>2, EmptyIsHistory DEF Reload, Retries, Leaves, InTransit, OfItsKind, Out
  <2> QED
    BY <2>1, <2>3, <2>4
<1> QED
  BY <1>2, <1>7, <1>8, <1>10, <1>11, Kept

\* A turn joins its conversation.
LEMMA ConverseKeeps ==
    ASSUME SessionAssumption, IInv, NEW t \in Tasks, Converse(t)
    PROVE  IInv'
<1>1. /\ task \in [Tasks -> TaskRecord] /\ task[t] \in TaskRecord /\ OfItsKind(t)
      /\ file \in History /\ stats \in Stats /\ active \in Convs \cup {None} /\ owed \in BOOLEAN
      /\ rows \in [Convs -> {"none", "open", "ended"}]
      /\ said \subseteq Tasks /\ lost \subseteq Tasks /\ overlapped \in BOOLEAN
      /\ mishaps \in 0..MaxMishaps
  BY Types
<1>2. At(t) = "converse"
  BY DEF Converse
<1>3. PICK c \in Convs : Join(c) /\ task' = [task EXCEPT ![t].cid = c, ![t].past = [@ EXCEPT !.ctx = TRUE],
            ![t].at = IF task[t].past.ctx THEN "llm" ELSE "truncate", ![t].then = "llm"]
  BY DEF Converse
<1>4. active' \in Convs \cup {None} /\ rows' \in [Convs -> {"none", "open", "ended"}]
  BY <1>1, <1>3, JoinTypes
<1> DEFINE h == [task[t].past EXCEPT !.ctx = TRUE]
<1>5. /\ h \in History /\ h # Empty /\ Remembered(h) = Remembered(task[t].past)
  BY <1>1 DEF History, Remembered, Empty, TaskRecord
<1> DEFINE at == IF task[t].past.ctx THEN "llm" ELSE "truncate"
<1>6. at \in {"llm", "truncate"} /\ (at = "truncate" => ~task[t].past.ctx)
  OBVIOUS
<1> HIDE DEF h, at
<1> DEFINE r == [task[t] EXCEPT !.cid = c, !.past = h, !.at = at, !.then = "llm"]
<1>7. /\ r \in TaskRecord
      /\ r.op = task[t].op /\ r.at = at /\ r.past = h /\ r.prev = task[t].prev
      /\ r.fd = task[t].fd /\ r.cid = c /\ r.then = "llm" /\ r.saw = task[t].saw
  BY <1>1, <1>2, <1>3, <1>4, <1>5, <1>6 DEF TaskRecord, Places
<1>8. task' = [task EXCEPT ![t] = r]
  BY <1>1, <1>3 DEF r, h, at, TaskRecord
<1> HIDE DEF r
<1>9. TypeOK' /\ task'[t] = r /\ At(t)' = r.at /\ task' \in [Tasks -> TaskRecord] /\ Others(t)
  <2>1. /\ file' \in History /\ stats' \in Stats /\ active' \in Convs \cup {None} /\ owed' \in BOOLEAN
        /\ rows' \in [Convs -> {"none", "open", "ended"}] /\ mishaps' \in 0..MaxMishaps
        /\ said' \subseteq Tasks /\ lost' \subseteq Tasks /\ overlapped' \in BOOLEAN
    BY <1>1, <1>2, <1>3, <1>4, <1>5, <1>6, <1>7, <1>8, FaultCounted, EmptyIsHistory DEF Converse, Stats, TaskRecord
  <2> QED
    BY <1>1, <1>2, <1>3, <1>4, <1>5, <1>6, <1>7, <1>8, <2>1, Typed
<1>10. OfItsKind(t)'
  BY <1>1, <1>2, <1>3, <1>4, <1>5, <1>6, <1>7, <1>8, <1>9 DEF Converse, OfItsKind, Out
<1>11. /\ Remembered(file') \subseteq Remembered(file) \cup Held(t)
      /\ Held(t)' \subseteq Remembered(file) \cup Held(t) \cup {t}
  BY <1>1, <1>2, <1>3, <1>4, <1>5, <1>6, <1>7, <1>9, <1>10, EmptyIsHistory DEF Converse, Held, InHand, OfItsKind
<1>12. Buried'
  BY <1>2, <1>7, <1>9, <1>11, StaysBuried
<1>13. ASSUME ~overlapped' PROVE ~overlapped /\ (At(t) = "idle" => Running = {}) /\ Remembers(t)' /\ Retries(t)' /\ Leaves(t)'
  <2>1. ~overlapped /\ (At(t) = "idle" => Running = {})
    BY <1>13, <1>2 DEF Converse
  <2>2. Remembers(t) /\ Retries(t) /\ Leaves(t)
    BY <1>2, <2>1, Finds
  <2>3. Remembers(t)'
    BY <1>1, <1>2, <1>3, <1>4, <1>5, <1>6, <1>7, <1>9, <1>10, <2>2, EmptyIsHistory DEF Converse, Remembers, InTransit, OfItsKind
  <2>4. Retries(t)' /\ Leaves(t)'
    BY <1>1, <1>2, <1>3, <1>4, <1>5, <1>6, <1>7, <1>9, <1>10, <2>2, EmptyIsHistory DEF Converse, Retries, Leaves, InTransit, OfItsKind, Out
  <2> QED
    BY <2>1, <2>3, <2>4
<1> QED
  BY <1>2, <1>9, <1>10, <1>12, <1>13, Kept

\* A round of the model counts its usage.
LEMMA RoundKeeps ==
    ASSUME SessionAssumption, IInv, NEW t \in Tasks, Round(t)
    PROVE  IInv'
<1>1. /\ task \in [Tasks -> TaskRecord] /\ task[t] \in TaskRecord /\ OfItsKind(t)
      /\ file \in History /\ stats \in Stats /\ active \in Convs \cup {None} /\ owed \in BOOLEAN
      /\ rows \in [Convs -> {"none", "open", "ended"}]
      /\ said \subseteq Tasks /\ lost \subseteq Tasks /\ overlapped \in BOOLEAN
      /\ mishaps \in 0..MaxMishaps
  BY Types
<1>2. At(t) = "llm"
  BY DEF Round
<1>3. PICK next \in {"llm", "append"} : Goto(t, next)
  BY DEF Round
<1> DEFINE r == [task[t] EXCEPT !.at = next]
<1>4. /\ r \in TaskRecord
      /\ r.op = task[t].op /\ r.at = next /\ r.past = task[t].past /\ r.prev = task[t].prev
      /\ r.fd = task[t].fd /\ r.cid = task[t].cid /\ r.then = task[t].then /\ r.saw = task[t].saw
  BY <1>1, <1>2, <1>3 DEF TaskRecord, Places
<1>5. task' = [task EXCEPT ![t] = r]
  BY <1>1, <1>2, <1>3, <1>4 DEF Round, Goto, r
<1> HIDE DEF r
<1>6. TypeOK' /\ task'[t] = r /\ At(t)' = r.at /\ task' \in [Tasks -> TaskRecord] /\ Others(t)
  <2>1. /\ file' \in History /\ stats' \in Stats /\ active' \in Convs \cup {None} /\ owed' \in BOOLEAN
        /\ rows' \in [Convs -> {"none", "open", "ended"}] /\ mishaps' \in 0..MaxMishaps
        /\ said' \subseteq Tasks /\ lost' \subseteq Tasks /\ overlapped' \in BOOLEAN
    BY <1>1, <1>2, <1>3, <1>4, <1>5, FaultCounted, EmptyIsHistory DEF Round, Stats, TaskRecord
  <2> QED
    BY <1>1, <1>2, <1>3, <1>4, <1>5, <2>1, Typed
<1>7. OfItsKind(t)'
  BY <1>1, <1>2, <1>3, <1>4, <1>5, <1>6 DEF Round, OfItsKind, Out
<1>8. /\ Remembered(file') \subseteq Remembered(file) \cup Held(t)
      /\ Held(t)' \subseteq Remembered(file) \cup Held(t) \cup {t}
  BY <1>1, <1>2, <1>3, <1>4, <1>6, <1>7, EmptyIsHistory DEF Round, Held, InHand, OfItsKind
<1>9. Buried'
  BY <1>2, <1>4, <1>6, <1>8, StaysBuried
<1>10. ASSUME ~overlapped' PROVE ~overlapped /\ (At(t) = "idle" => Running = {}) /\ Remembers(t)' /\ Retries(t)' /\ Leaves(t)'
  <2>1. ~overlapped /\ (At(t) = "idle" => Running = {})
    BY <1>10, <1>2 DEF Round
  <2>2. Remembers(t) /\ Retries(t) /\ Leaves(t)
    BY <1>2, <2>1, Finds
  <2>3. Remembers(t)'
    BY <1>1, <1>2, <1>3, <1>4, <1>6, <1>7, <2>2, EmptyIsHistory DEF Round, Remembers, InTransit, OfItsKind
  <2>4. Retries(t)' /\ Leaves(t)'
    BY <1>1, <1>2, <1>3, <1>4, <1>6, <1>7, <2>2, EmptyIsHistory DEF Round, Retries, Leaves, InTransit, OfItsKind, Out
  <2> QED
    BY <2>1, <2>3, <2>4
<1> QED
  BY <1>2, <1>6, <1>7, <1>9, <1>10, Kept

\* A failed round goes on to the save.
LEMMA RoundFailsKeeps ==
    ASSUME SessionAssumption, IInv, NEW t \in Tasks, RoundFails(t)
    PROVE  IInv'
<1>1. /\ task \in [Tasks -> TaskRecord] /\ task[t] \in TaskRecord /\ OfItsKind(t)
      /\ file \in History /\ stats \in Stats /\ active \in Convs \cup {None} /\ owed \in BOOLEAN
      /\ rows \in [Convs -> {"none", "open", "ended"}]
      /\ said \subseteq Tasks /\ lost \subseteq Tasks /\ overlapped \in BOOLEAN
      /\ mishaps \in 0..MaxMishaps
  BY Types
<1>2. At(t) = "llm"
  BY DEF RoundFails
<1> DEFINE r == [task[t] EXCEPT !.at = "append"]
<1>3. /\ r \in TaskRecord
      /\ r.op = task[t].op /\ r.at = "append" /\ r.past = task[t].past /\ r.prev = task[t].prev
      /\ r.fd = task[t].fd /\ r.cid = task[t].cid /\ r.then = task[t].then /\ r.saw = task[t].saw
  BY <1>1, <1>2 DEF TaskRecord, Places
<1>4. task' = [task EXCEPT ![t] = r]
  BY <1>1, <1>2, <1>3 DEF RoundFails, Goto, r
<1> HIDE DEF r
<1>5. TypeOK' /\ task'[t] = r /\ At(t)' = r.at /\ task' \in [Tasks -> TaskRecord] /\ Others(t)
  <2>1. /\ file' \in History /\ stats' \in Stats /\ active' \in Convs \cup {None} /\ owed' \in BOOLEAN
        /\ rows' \in [Convs -> {"none", "open", "ended"}] /\ mishaps' \in 0..MaxMishaps
        /\ said' \subseteq Tasks /\ lost' \subseteq Tasks /\ overlapped' \in BOOLEAN
    BY <1>1, <1>2, <1>3, <1>4, FaultCounted, EmptyIsHistory DEF RoundFails, Stats, TaskRecord
  <2> QED
    BY <1>1, <1>2, <1>3, <1>4, <2>1, Typed
<1>6. OfItsKind(t)'
  BY <1>1, <1>2, <1>3, <1>4, <1>5 DEF RoundFails, OfItsKind, Out
<1>7. /\ Remembered(file') \subseteq Remembered(file) \cup Held(t)
      /\ Held(t)' \subseteq Remembered(file) \cup Held(t) \cup {t}
  BY <1>1, <1>2, <1>3, <1>5, <1>6, EmptyIsHistory DEF RoundFails, Held, InHand, OfItsKind
<1>8. Buried'
  BY <1>2, <1>3, <1>5, <1>7, StaysBuried
<1>9. ASSUME ~overlapped' PROVE ~overlapped /\ (At(t) = "idle" => Running = {}) /\ Remembers(t)' /\ Retries(t)' /\ Leaves(t)'
  <2>1. ~overlapped /\ (At(t) = "idle" => Running = {})
    BY <1>9, <1>2 DEF RoundFails
  <2>2. Remembers(t) /\ Retries(t) /\ Leaves(t)
    BY <1>2, <2>1, Finds
  <2>3. Remembers(t)'
    BY <1>1, <1>2, <1>3, <1>5, <1>6, <2>2, EmptyIsHistory DEF RoundFails, Remembers, InTransit, OfItsKind
  <2>4. Retries(t)' /\ Leaves(t)'
    BY <1>1, <1>2, <1>3, <1>5, <1>6, <2>2, EmptyIsHistory DEF RoundFails, Retries, Leaves, InTransit, OfItsKind, Out
  <2> QED
    BY <2>1, <2>3, <2>4
<1> QED
  BY <1>2, <1>5, <1>6, <1>8, <1>9, Kept

\* The turn is added to what is read.
LEMMA AppendKeeps ==
    ASSUME SessionAssumption, IInv, NEW t \in Tasks, Append(t)
    PROVE  IInv'
<1>1. /\ task \in [Tasks -> TaskRecord] /\ task[t] \in TaskRecord /\ OfItsKind(t)
      /\ file \in History /\ stats \in Stats /\ active \in Convs \cup {None} /\ owed \in BOOLEAN
      /\ rows \in [Convs -> {"none", "open", "ended"}]
      /\ said \subseteq Tasks /\ lost \subseteq Tasks /\ overlapped \in BOOLEAN
      /\ mishaps \in 0..MaxMishaps
  BY Types
<1>2. At(t) = "append"
  BY DEF Append
<1>3. PICK h \in {file, Empty} : Read(h) /\ task' = [task EXCEPT ![t].past = [h EXCEPT !.turns = @ \cup {t}],
            ![t].at = "truncate", ![t].then = "over"]
  BY DEF Append
<1>4. /\ h \in History /\ Remembered(h) \subseteq Remembered(file)
      /\ lost' \subseteq Tasks /\ mishaps' \in 0..MaxMishaps
      /\ lost \subseteq lost' /\ (said \ lost \subseteq Remembered(file) => said \ lost' \subseteq Remembered(h))
  BY <1>3, ReadGives
<1> DEFINE g == [h EXCEPT !.turns = @ \cup {t}]
<1>5. /\ g \in History /\ g # Empty /\ t \in g.turns /\ Remembered(g) = Remembered(h) \cup {t}
  BY <1>4 DEF History, Remembered, Empty
<1> HIDE DEF g
<1> DEFINE r == [task[t] EXCEPT !.past = g, !.at = "truncate", !.then = "over"]
<1>6. /\ r \in TaskRecord
      /\ r.op = task[t].op /\ r.at = "truncate" /\ r.past = g /\ r.prev = task[t].prev
      /\ r.fd = task[t].fd /\ r.cid = task[t].cid /\ r.then = "over" /\ r.saw = task[t].saw
  BY <1>1, <1>2, <1>3, <1>4, <1>5 DEF TaskRecord, Places
<1>7. task' = [task EXCEPT ![t] = r]
  BY <1>1, <1>2, <1>3, <1>4, <1>5, <1>6 DEF Append, Goto, r, g
<1> HIDE DEF r
<1>8. TypeOK' /\ task'[t] = r /\ At(t)' = r.at /\ task' \in [Tasks -> TaskRecord] /\ Others(t)
  <2>1. /\ file' \in History /\ stats' \in Stats /\ active' \in Convs \cup {None} /\ owed' \in BOOLEAN
        /\ rows' \in [Convs -> {"none", "open", "ended"}] /\ mishaps' \in 0..MaxMishaps
        /\ said' \subseteq Tasks /\ lost' \subseteq Tasks /\ overlapped' \in BOOLEAN
    BY <1>1, <1>2, <1>3, <1>4, <1>5, <1>6, <1>7, FaultCounted, EmptyIsHistory DEF Append, Stats, TaskRecord
  <2> QED
    BY <1>1, <1>2, <1>3, <1>4, <1>5, <1>6, <1>7, <2>1, Typed
<1>9. OfItsKind(t)'
  BY <1>1, <1>2, <1>3, <1>4, <1>5, <1>6, <1>7, <1>8 DEF Append, OfItsKind, Out
<1>10. /\ Remembered(file') \subseteq Remembered(file) \cup Held(t)
      /\ Held(t)' \subseteq Remembered(file) \cup Held(t) \cup {t}
  BY <1>1, <1>2, <1>3, <1>4, <1>5, <1>6, <1>8, <1>9, EmptyIsHistory DEF Append, Held, InHand, OfItsKind
<1>11. Buried'
  BY <1>2, <1>6, <1>8, <1>10, StaysBuried
<1>12. ASSUME ~overlapped' PROVE ~overlapped /\ (At(t) = "idle" => Running = {}) /\ Remembers(t)' /\ Retries(t)' /\ Leaves(t)'
  <2>1. ~overlapped /\ (At(t) = "idle" => Running = {})
    BY <1>12, <1>2 DEF Append
  <2>2. Remembers(t) /\ Retries(t) /\ Leaves(t)
    BY <1>2, <2>1, Finds
  <2>3. Remembers(t)'
    BY <1>1, <1>2, <1>3, <1>4, <1>5, <1>6, <1>8, <1>9, <2>2, EmptyIsHistory DEF Append, Remembers, InTransit, OfItsKind
  <2>4. Retries(t)' /\ Leaves(t)'
    BY <1>1, <1>2, <1>3, <1>4, <1>5, <1>6, <1>8, <1>9, <2>2, EmptyIsHistory DEF Append, Retries, Leaves, InTransit, OfItsKind, Out
  <2> QED
    BY <2>1, <2>3, <2>4
<1> QED
  BY <1>2, <1>8, <1>9, <1>11, <1>12, Kept

\* The statistics are taken for the compaction.
LEMMA TakeKeeps ==
    ASSUME SessionAssumption, IInv, NEW t \in Tasks, Take(t)
    PROVE  IInv'
<1>1. /\ task \in [Tasks -> TaskRecord] /\ task[t] \in TaskRecord /\ OfItsKind(t)
      /\ file \in History /\ stats \in Stats /\ active \in Convs \cup {None} /\ owed \in BOOLEAN
      /\ rows \in [Convs -> {"none", "open", "ended"}]
      /\ said \subseteq Tasks /\ lost \subseteq Tasks /\ overlapped \in BOOLEAN
      /\ mishaps \in 0..MaxMishaps
  BY Types
<1>2. At(t) = "take"
  BY DEF Take
<1> DEFINE r == [task[t] EXCEPT !.prev = stats, !.at = "digest"]
<1>3. /\ r \in TaskRecord
      /\ r.op = task[t].op /\ r.at = "digest" /\ r.past = task[t].past /\ r.prev = stats
      /\ r.fd = task[t].fd /\ r.cid = task[t].cid /\ r.then = task[t].then /\ r.saw = task[t].saw
  BY <1>1, <1>2 DEF TaskRecord, Places
<1>4. task' = [task EXCEPT ![t] = r]
  BY <1>1, <1>2, <1>3 DEF Take, Goto, r
<1> HIDE DEF r
<1>5. TypeOK' /\ task'[t] = r /\ At(t)' = r.at /\ task' \in [Tasks -> TaskRecord] /\ Others(t)
  <2>1. /\ file' \in History /\ stats' \in Stats /\ active' \in Convs \cup {None} /\ owed' \in BOOLEAN
        /\ rows' \in [Convs -> {"none", "open", "ended"}] /\ mishaps' \in 0..MaxMishaps
        /\ said' \subseteq Tasks /\ lost' \subseteq Tasks /\ overlapped' \in BOOLEAN
    BY <1>1, <1>2, <1>3, <1>4, FaultCounted, EmptyIsHistory DEF Take, Stats, TaskRecord
  <2> QED
    BY <1>1, <1>2, <1>3, <1>4, <2>1, Typed
<1>6. OfItsKind(t)'
  BY <1>1, <1>2, <1>3, <1>4, <1>5 DEF Take, OfItsKind, Out
<1>7. /\ Remembered(file') \subseteq Remembered(file) \cup Held(t)
      /\ Held(t)' \subseteq Remembered(file) \cup Held(t) \cup {t}
  BY <1>1, <1>2, <1>3, <1>5, <1>6, EmptyIsHistory DEF Take, Held, InHand, OfItsKind
<1>8. Buried'
  BY <1>2, <1>3, <1>5, <1>7, StaysBuried
<1>9. ASSUME ~overlapped' PROVE ~overlapped /\ (At(t) = "idle" => Running = {}) /\ Remembers(t)' /\ Retries(t)' /\ Leaves(t)'
  <2>1. ~overlapped /\ (At(t) = "idle" => Running = {})
    BY <1>9, <1>2 DEF Take
  <2>2. Remembers(t) /\ Retries(t) /\ Leaves(t)
    BY <1>2, <2>1, Finds
  <2>3. Remembers(t)'
    BY <1>1, <1>2, <1>3, <1>5, <1>6, <2>2, EmptyIsHistory DEF Take, Remembers, InTransit, OfItsKind
  <2>4. Retries(t)' /\ Leaves(t)'
    BY <1>1, <1>2, <1>3, <1>5, <1>6, <2>2, EmptyIsHistory DEF Take, Retries, Leaves, InTransit, OfItsKind, Out
  <2> QED
    BY <2>1, <2>3, <2>4
<1> QED
  BY <1>2, <1>5, <1>6, <1>8, <1>9, Kept

\* The history to be summarized is read, ...
LEMMA DigestKeeps ==
    ASSUME SessionAssumption, IInv, NEW t \in Tasks, Digest(t)
    PROVE  IInv'
<1>1. /\ task \in [Tasks -> TaskRecord] /\ task[t] \in TaskRecord /\ OfItsKind(t)
      /\ file \in History /\ stats \in Stats /\ active \in Convs \cup {None} /\ owed \in BOOLEAN
      /\ rows \in [Convs -> {"none", "open", "ended"}]
      /\ said \subseteq Tasks /\ lost \subseteq Tasks /\ overlapped \in BOOLEAN
      /\ mishaps \in 0..MaxMishaps
  BY Types
<1>2. At(t) = "digest"
  BY DEF Digest
<1> DEFINE at == IF file = Empty THEN "leave" ELSE "open"
<1>3. at \in {"leave", "open"} /\ (at = "leave" <=> file = Empty)
  OBVIOUS
<1> HIDE DEF at
<1> DEFINE r == [task[t] EXCEPT !.past = file, !.at = at]
<1>4. /\ r \in TaskRecord
      /\ r.op = task[t].op /\ r.at = at /\ r.past = file /\ r.prev = task[t].prev
      /\ r.fd = task[t].fd /\ r.cid = task[t].cid /\ r.then = task[t].then /\ r.saw = task[t].saw
  BY <1>1, <1>2, <1>3 DEF TaskRecord, Places
<1>5. task' = [task EXCEPT ![t] = r]
  BY <1>1, <1>2, <1>3, <1>4 DEF Digest, Goto, r, at
<1> HIDE DEF r
<1>6. TypeOK' /\ task'[t] = r /\ At(t)' = r.at /\ task' \in [Tasks -> TaskRecord] /\ Others(t)
  <2>1. /\ file' \in History /\ stats' \in Stats /\ active' \in Convs \cup {None} /\ owed' \in BOOLEAN
        /\ rows' \in [Convs -> {"none", "open", "ended"}] /\ mishaps' \in 0..MaxMishaps
        /\ said' \subseteq Tasks /\ lost' \subseteq Tasks /\ overlapped' \in BOOLEAN
    BY <1>1, <1>2, <1>3, <1>4, <1>5, FaultCounted, EmptyIsHistory DEF Digest, Stats, TaskRecord
  <2> QED
    BY <1>1, <1>2, <1>3, <1>4, <1>5, <2>1, Typed
<1>7. OfItsKind(t)'
  BY <1>1, <1>2, <1>3, <1>4, <1>5, <1>6 DEF Digest, OfItsKind, Out
<1>8. /\ Remembered(file') \subseteq Remembered(file) \cup Held(t)
      /\ Held(t)' \subseteq Remembered(file) \cup Held(t) \cup {t}
  BY <1>1, <1>2, <1>3, <1>4, <1>6, <1>7, EmptyIsHistory DEF Digest, Held, InHand, OfItsKind
<1>9. Buried'
  BY <1>2, <1>4, <1>6, <1>8, StaysBuried
<1>10. ASSUME ~overlapped' PROVE ~overlapped /\ (At(t) = "idle" => Running = {}) /\ Remembers(t)' /\ Retries(t)' /\ Leaves(t)'
  <2>1. ~overlapped /\ (At(t) = "idle" => Running = {})
    BY <1>10, <1>2 DEF Digest
  <2>2. Remembers(t) /\ Retries(t) /\ Leaves(t)
    BY <1>2, <2>1, Finds
  <2>3. Remembers(t)'
    BY <1>1, <1>2, <1>3, <1>4, <1>6, <1>7, <2>2, EmptyIsHistory DEF Digest, Remembers, InTransit, OfItsKind
  <2>4. Retries(t)' /\ Leaves(t)'
    BY <1>1, <1>2, <1>3, <1>4, <1>6, <1>7, <2>2, EmptyIsHistory DEF Digest, Retries, Leaves, InTransit, OfItsKind, Out
  <2> QED
    BY <2>1, <2>3, <2>4
<1> QED
  BY <1>2, <1>6, <1>7, <1>9, <1>10, Kept

\* ... or cannot be.
LEMMA DigestFailsKeeps ==
    ASSUME SessionAssumption, IInv, NEW t \in Tasks, DigestFails(t)
    PROVE  IInv'
<1>1. /\ task \in [Tasks -> TaskRecord] /\ task[t] \in TaskRecord /\ OfItsKind(t)
      /\ file \in History /\ stats \in Stats /\ active \in Convs \cup {None} /\ owed \in BOOLEAN
      /\ rows \in [Convs -> {"none", "open", "ended"}]
      /\ said \subseteq Tasks /\ lost \subseteq Tasks /\ overlapped \in BOOLEAN
      /\ mishaps \in 0..MaxMishaps
  BY Types
<1>2. At(t) = "digest"
  BY DEF DigestFails
<1>3. Fault /\ Empty \in History
  BY EmptyIsHistory DEF DigestFails
<1> DEFINE r == [task[t] EXCEPT !.past = Empty, !.at = "leave"]
<1>4. /\ r \in TaskRecord
      /\ r.op = task[t].op /\ r.at = "leave" /\ r.past = Empty /\ r.prev = task[t].prev
      /\ r.fd = task[t].fd /\ r.cid = task[t].cid /\ r.then = task[t].then /\ r.saw = task[t].saw
  BY <1>1, <1>2, <1>3 DEF TaskRecord, Places
<1>5. task' = [task EXCEPT ![t] = r]
  BY <1>1, <1>2, <1>3, <1>4 DEF DigestFails, Goto, r
<1> HIDE DEF r
<1>6. TypeOK' /\ task'[t] = r /\ At(t)' = r.at /\ task' \in [Tasks -> TaskRecord] /\ Others(t)
  <2>1. /\ file' \in History /\ stats' \in Stats /\ active' \in Convs \cup {None} /\ owed' \in BOOLEAN
        /\ rows' \in [Convs -> {"none", "open", "ended"}] /\ mishaps' \in 0..MaxMishaps
        /\ said' \subseteq Tasks /\ lost' \subseteq Tasks /\ overlapped' \in BOOLEAN
    BY <1>1, <1>2, <1>3, <1>4, <1>5, FaultCounted, EmptyIsHistory DEF DigestFails, Stats, TaskRecord
  <2> QED
    BY <1>1, <1>2, <1>3, <1>4, <1>5, <2>1, Typed
<1>7. OfItsKind(t)'
  BY <1>1, <1>2, <1>3, <1>4, <1>5, <1>6 DEF DigestFails, OfItsKind, Out
<1>8. /\ Remembered(file') \subseteq Remembered(file) \cup Held(t)
      /\ Held(t)' \subseteq Remembered(file) \cup Held(t) \cup {t}
  BY <1>1, <1>2, <1>3, <1>4, <1>6, <1>7, EmptyIsHistory DEF DigestFails, Held, InHand, OfItsKind
<1>9. Buried'
  BY <1>2, <1>4, <1>6, <1>8, StaysBuried
<1>10. ASSUME ~overlapped' PROVE ~overlapped /\ (At(t) = "idle" => Running = {}) /\ Remembers(t)' /\ Retries(t)' /\ Leaves(t)'
  <2>1. ~overlapped /\ (At(t) = "idle" => Running = {})
    BY <1>10, <1>2 DEF DigestFails
  <2>2. Remembers(t) /\ Retries(t) /\ Leaves(t)
    BY <1>2, <2>1, Finds
  <2>3. Remembers(t)'
    BY <1>1, <1>2, <1>3, <1>4, <1>6, <1>7, <2>2, EmptyIsHistory DEF DigestFails, Remembers, InTransit, OfItsKind
  <2>4. Retries(t)' /\ Leaves(t)'
    BY <1>1, <1>2, <1>3, <1>4, <1>6, <1>7, <2>2, EmptyIsHistory DEF DigestFails, Retries, Leaves, InTransit, OfItsKind, Out
  <2> QED
    BY <2>1, <2>3, <2>4
<1> QED
  BY <1>2, <1>6, <1>7, <1>9, <1>10, Kept

\* The conversation's row is found or made.
LEMMA OpenKeeps ==
    ASSUME SessionAssumption, IInv, NEW t \in Tasks, Open(t)
    PROVE  IInv'
<1>1. /\ task \in [Tasks -> TaskRecord] /\ task[t] \in TaskRecord /\ OfItsKind(t)
      /\ file \in History /\ stats \in Stats /\ active \in Convs \cup {None} /\ owed \in BOOLEAN
      /\ rows \in [Convs -> {"none", "open", "ended"}]
      /\ said \subseteq Tasks /\ lost \subseteq Tasks /\ overlapped \in BOOLEAN
      /\ mishaps \in 0..MaxMishaps
  BY Types
<1>2. At(t) = "open"
  BY DEF Open
<1>3. PICK c \in Convs : Join(c) /\ task' = [task EXCEPT ![t].cid = c, ![t].at = "summarize"]
  BY DEF Open
<1>4. active' \in Convs \cup {None} /\ rows' \in [Convs -> {"none", "open", "ended"}]
  BY <1>1, <1>3, JoinTypes
<1> DEFINE r == [task[t] EXCEPT !.cid = c, !.at = "summarize"]
<1>5. /\ r \in TaskRecord
      /\ r.op = task[t].op /\ r.at = "summarize" /\ r.past = task[t].past /\ r.prev = task[t].prev
      /\ r.fd = task[t].fd /\ r.cid = c /\ r.then = task[t].then /\ r.saw = task[t].saw
  BY <1>1, <1>2, <1>3, <1>4 DEF TaskRecord, Places
<1>6. task' = [task EXCEPT ![t] = r]
  BY <1>1, <1>2, <1>3, <1>4, <1>5 DEF Open, Goto, r
<1> HIDE DEF r
<1>7. TypeOK' /\ task'[t] = r /\ At(t)' = r.at /\ task' \in [Tasks -> TaskRecord] /\ Others(t)
  <2>1. /\ file' \in History /\ stats' \in Stats /\ active' \in Convs \cup {None} /\ owed' \in BOOLEAN
        /\ rows' \in [Convs -> {"none", "open", "ended"}] /\ mishaps' \in 0..MaxMishaps
        /\ said' \subseteq Tasks /\ lost' \subseteq Tasks /\ overlapped' \in BOOLEAN
    BY <1>1, <1>2, <1>3, <1>4, <1>5, <1>6, FaultCounted, EmptyIsHistory DEF Open, Stats, TaskRecord
  <2> QED
    BY <1>1, <1>2, <1>3, <1>4, <1>5, <1>6, <2>1, Typed
<1>8. OfItsKind(t)'
  BY <1>1, <1>2, <1>3, <1>4, <1>5, <1>6, <1>7 DEF Open, OfItsKind, Out
<1>9. /\ Remembered(file') \subseteq Remembered(file) \cup Held(t)
      /\ Held(t)' \subseteq Remembered(file) \cup Held(t) \cup {t}
  BY <1>1, <1>2, <1>3, <1>4, <1>5, <1>7, <1>8, EmptyIsHistory DEF Open, Held, InHand, OfItsKind
<1>10. Buried'
  BY <1>2, <1>5, <1>7, <1>9, StaysBuried
<1>11. ASSUME ~overlapped' PROVE ~overlapped /\ (At(t) = "idle" => Running = {}) /\ Remembers(t)' /\ Retries(t)' /\ Leaves(t)'
  <2>1. ~overlapped /\ (At(t) = "idle" => Running = {})
    BY <1>11, <1>2 DEF Open
  <2>2. Remembers(t) /\ Retries(t) /\ Leaves(t)
    BY <1>2, <2>1, Finds
  <2>3. Remembers(t)'
    BY <1>1, <1>2, <1>3, <1>4, <1>5, <1>7, <1>8, <2>2, EmptyIsHistory DEF Open, Remembers, InTransit, OfItsKind
  <2>4. Retries(t)' /\ Leaves(t)'
    BY <1>1, <1>2, <1>3, <1>4, <1>5, <1>7, <1>8, <2>2, EmptyIsHistory DEF Open, Retries, Leaves, InTransit, OfItsKind, Out
  <2> QED
    BY <2>1, <2>3, <2>4
<1> QED
  BY <1>2, <1>7, <1>8, <1>10, <1>11, Kept

\* A summary, or none.
NoSummary(t) == task' = [task EXCEPT ![t].at = "drop", ![t].then = "restore"]

\* A compaction without a summary goes on to put the statistics back.
LEMMA NoSummaryKeeps ==
    ASSUME SessionAssumption, IInv, NEW t \in Tasks, Summarize(t), NoSummary(t)
    PROVE  IInv'
<1>1. /\ task \in [Tasks -> TaskRecord] /\ task[t] \in TaskRecord /\ OfItsKind(t)
      /\ file \in History /\ stats \in Stats /\ active \in Convs \cup {None} /\ owed \in BOOLEAN
      /\ rows \in [Convs -> {"none", "open", "ended"}]
      /\ said \subseteq Tasks /\ lost \subseteq Tasks /\ overlapped \in BOOLEAN
      /\ mishaps \in 0..MaxMishaps
  BY Types
<1>2. At(t) = "summarize"
  BY DEF Summarize
<1> DEFINE r == [task[t] EXCEPT !.at = "drop", !.then = "restore"]
<1>3. /\ r \in TaskRecord
      /\ r.op = task[t].op /\ r.at = "drop" /\ r.past = task[t].past /\ r.prev = task[t].prev
      /\ r.fd = task[t].fd /\ r.cid = task[t].cid /\ r.then = "restore" /\ r.saw = task[t].saw
  BY <1>1, <1>2 DEF TaskRecord, Places
<1>4. task' = [task EXCEPT ![t] = r]
  BY <1>1, <1>2, <1>3 DEF Summarize, Goto, r, NoSummary
<1> HIDE DEF r
<1>5. TypeOK' /\ task'[t] = r /\ At(t)' = r.at /\ task' \in [Tasks -> TaskRecord] /\ Others(t)
  <2>1. /\ file' \in History /\ stats' \in Stats /\ active' \in Convs \cup {None} /\ owed' \in BOOLEAN
        /\ rows' \in [Convs -> {"none", "open", "ended"}] /\ mishaps' \in 0..MaxMishaps
        /\ said' \subseteq Tasks /\ lost' \subseteq Tasks /\ overlapped' \in BOOLEAN
    BY <1>1, <1>2, <1>3, <1>4, FaultCounted, EmptyIsHistory DEF Summarize, Stats, TaskRecord
  <2> QED
    BY <1>1, <1>2, <1>3, <1>4, <2>1, Typed
<1>6. OfItsKind(t)'
  BY <1>1, <1>2, <1>3, <1>4, <1>5 DEF Summarize, OfItsKind, Out
<1>7. /\ Remembered(file') \subseteq Remembered(file) \cup Held(t)
      /\ Held(t)' \subseteq Remembered(file) \cup Held(t) \cup {t}
  BY <1>1, <1>2, <1>3, <1>5, <1>6, EmptyIsHistory DEF Summarize, Held, InHand, OfItsKind
<1>8. Buried'
  BY <1>2, <1>3, <1>5, <1>7, StaysBuried
<1>9. ASSUME ~overlapped' PROVE ~overlapped /\ (At(t) = "idle" => Running = {}) /\ Remembers(t)' /\ Retries(t)' /\ Leaves(t)'
  <2>1. ~overlapped /\ (At(t) = "idle" => Running = {})
    BY <1>9, <1>2 DEF Summarize
  <2>2. Remembers(t) /\ Retries(t) /\ Leaves(t)
    BY <1>2, <2>1, Finds
  <2>3. Remembers(t)'
    BY <1>1, <1>2, <1>3, <1>5, <1>6, <2>2, EmptyIsHistory DEF Summarize, Remembers, InTransit, OfItsKind
  <2>4. Retries(t)' /\ Leaves(t)'
    BY <1>1, <1>2, <1>3, <1>5, <1>6, <2>2, EmptyIsHistory DEF Summarize, Retries, Leaves, InTransit, OfItsKind, Out
  <2> QED
    BY <2>1, <2>3, <2>4
<1> QED
  BY <1>2, <1>5, <1>6, <1>8, <1>9, Kept

\* The summary stands for what it was made from.
LEMMA SummarizeKeeps ==
    ASSUME SessionAssumption, IInv, NEW t \in Tasks, Summarize(t), ~NoSummary(t)
    PROVE  IInv'
<1>1. /\ task \in [Tasks -> TaskRecord] /\ task[t] \in TaskRecord /\ OfItsKind(t)
      /\ file \in History /\ stats \in Stats /\ active \in Convs \cup {None} /\ owed \in BOOLEAN
      /\ rows \in [Convs -> {"none", "open", "ended"}]
      /\ said \subseteq Tasks /\ lost \subseteq Tasks /\ overlapped \in BOOLEAN
      /\ mishaps \in 0..MaxMishaps
  BY Types
<1>2. At(t) = "summarize"
  BY DEF Summarize
<1> DEFINE h == [ctx |-> FALSE, turns |-> {}, gist |-> Remembered(task[t].past)]
<1>3. h \in History /\ Remembered(h) = Remembered(task[t].past)
  BY <1>1 DEF History, Remembered, TaskRecord
<1> HIDE DEF h
<1> DEFINE r == [task[t] EXCEPT !.past = h, !.at = "drop", !.then = "clear"]
<1>4. /\ r \in TaskRecord
      /\ r.op = task[t].op /\ r.at = "drop" /\ r.past = h /\ r.prev = task[t].prev
      /\ r.fd = task[t].fd /\ r.cid = task[t].cid /\ r.then = "clear" /\ r.saw = task[t].saw
  BY <1>1, <1>2, <1>3 DEF TaskRecord, Places
<1>5. task' = [task EXCEPT ![t] = r]
  BY <1>1, <1>2, <1>3, <1>4 DEF Summarize, Goto, r, h, NoSummary
<1> HIDE DEF r
<1>6. TypeOK' /\ task'[t] = r /\ At(t)' = r.at /\ task' \in [Tasks -> TaskRecord] /\ Others(t)
  <2>1. /\ file' \in History /\ stats' \in Stats /\ active' \in Convs \cup {None} /\ owed' \in BOOLEAN
        /\ rows' \in [Convs -> {"none", "open", "ended"}] /\ mishaps' \in 0..MaxMishaps
        /\ said' \subseteq Tasks /\ lost' \subseteq Tasks /\ overlapped' \in BOOLEAN
    BY <1>1, <1>2, <1>3, <1>4, <1>5, FaultCounted, EmptyIsHistory DEF Summarize, Stats, TaskRecord
  <2> QED
    BY <1>1, <1>2, <1>3, <1>4, <1>5, <2>1, Typed
<1>7. OfItsKind(t)'
  BY <1>1, <1>2, <1>3, <1>4, <1>5, <1>6 DEF Summarize, OfItsKind, Out
<1>8. /\ Remembered(file') \subseteq Remembered(file) \cup Held(t)
      /\ Held(t)' \subseteq Remembered(file) \cup Held(t) \cup {t}
  BY <1>1, <1>2, <1>3, <1>4, <1>6, <1>7, EmptyIsHistory DEF Summarize, Held, InHand, OfItsKind
<1>9. Buried'
  BY <1>2, <1>4, <1>6, <1>8, StaysBuried
<1>10. ASSUME ~overlapped' PROVE ~overlapped /\ (At(t) = "idle" => Running = {}) /\ Remembers(t)' /\ Retries(t)' /\ Leaves(t)'
  <2>1. ~overlapped /\ (At(t) = "idle" => Running = {})
    BY <1>10, <1>2 DEF Summarize
  <2>2. Remembers(t) /\ Retries(t) /\ Leaves(t)
    BY <1>2, <2>1, Finds
  <2>3. Remembers(t)'
    BY <1>1, <1>2, <1>3, <1>4, <1>6, <1>7, <2>2, EmptyIsHistory DEF Summarize, Remembers, InTransit, OfItsKind
  <2>4. Retries(t)' /\ Leaves(t)'
    BY <1>1, <1>2, <1>3, <1>4, <1>6, <1>7, <2>2, EmptyIsHistory DEF Summarize, Retries, Leaves, InTransit, OfItsKind, Out
  <2> QED
    BY <2>1, <2>3, <2>4
<1> QED
  BY <1>2, <1>6, <1>7, <1>9, <1>10, Kept

\* The usage the summary recorded is dropped.
LEMMA DropStatsKeeps ==
    ASSUME SessionAssumption, IInv, NEW t \in Tasks, DropStats(t)
    PROVE  IInv'
<1>1. /\ task \in [Tasks -> TaskRecord] /\ task[t] \in TaskRecord /\ OfItsKind(t)
      /\ file \in History /\ stats \in Stats /\ active \in Convs \cup {None} /\ owed \in BOOLEAN
      /\ rows \in [Convs -> {"none", "open", "ended"}]
      /\ said \subseteq Tasks /\ lost \subseteq Tasks /\ overlapped \in BOOLEAN
      /\ mishaps \in 0..MaxMishaps
  BY Types
<1>2. At(t) = "drop"
  BY DEF DropStats
<1> DEFINE at == task[t].then
<1>3. at \in {"clear", "restore"} /\ at = task[t].then
  BY <1>1, <1>2 DEF OfItsKind
<1> HIDE DEF at
<1> DEFINE r == [task[t] EXCEPT !.at = at]
<1>4. /\ r \in TaskRecord
      /\ r.op = task[t].op /\ r.at = at /\ r.past = task[t].past /\ r.prev = task[t].prev
      /\ r.fd = task[t].fd /\ r.cid = task[t].cid /\ r.then = task[t].then /\ r.saw = task[t].saw
  BY <1>1, <1>2, <1>3 DEF TaskRecord, Places
<1>5. task' = [task EXCEPT ![t] = r]
  BY <1>1, <1>2, <1>3, <1>4 DEF DropStats, Goto, r, at
<1> HIDE DEF r
<1>6. TypeOK' /\ task'[t] = r /\ At(t)' = r.at /\ task' \in [Tasks -> TaskRecord] /\ Others(t)
  <2>1. /\ file' \in History /\ stats' \in Stats /\ active' \in Convs \cup {None} /\ owed' \in BOOLEAN
        /\ rows' \in [Convs -> {"none", "open", "ended"}] /\ mishaps' \in 0..MaxMishaps
        /\ said' \subseteq Tasks /\ lost' \subseteq Tasks /\ overlapped' \in BOOLEAN
    BY <1>1, <1>2, <1>3, <1>4, <1>5, FaultCounted, EmptyIsHistory DEF DropStats, Stats, TaskRecord
  <2> QED
    BY <1>1, <1>2, <1>3, <1>4, <1>5, <2>1, Typed
<1>7. OfItsKind(t)'
  BY <1>1, <1>2, <1>3, <1>4, <1>5, <1>6 DEF DropStats, OfItsKind, Out
<1>8. /\ Remembered(file') \subseteq Remembered(file) \cup Held(t)
      /\ Held(t)' \subseteq Remembered(file) \cup Held(t) \cup {t}
  BY <1>1, <1>2, <1>3, <1>4, <1>6, <1>7, EmptyIsHistory DEF DropStats, Held, InHand, OfItsKind
<1>9. Buried'
  BY <1>2, <1>4, <1>6, <1>8, StaysBuried
<1>10. ASSUME ~overlapped' PROVE ~overlapped /\ (At(t) = "idle" => Running = {}) /\ Remembers(t)' /\ Retries(t)' /\ Leaves(t)'
  <2>1. ~overlapped /\ (At(t) = "idle" => Running = {})
    BY <1>10, <1>2 DEF DropStats
  <2>2. Remembers(t) /\ Retries(t) /\ Leaves(t)
    BY <1>2, <2>1, Finds
  <2>3. Remembers(t)'
    BY <1>1, <1>2, <1>3, <1>4, <1>6, <1>7, <2>2, EmptyIsHistory DEF DropStats, Remembers, InTransit, OfItsKind
  <2>4. Retries(t)' /\ Leaves(t)'
    BY <1>1, <1>2, <1>3, <1>4, <1>6, <1>7, <2>2, EmptyIsHistory DEF DropStats, Retries, Leaves, InTransit, OfItsKind, Out
  <2> QED
    BY <2>1, <2>3, <2>4
<1> QED
  BY <1>2, <1>6, <1>7, <1>9, <1>10, Kept

\* A compaction without a summary puts the statistics back.
LEMMA RestoreKeeps ==
    ASSUME SessionAssumption, IInv, NEW t \in Tasks, Restore(t)
    PROVE  IInv'
<1>1. /\ task \in [Tasks -> TaskRecord] /\ task[t] \in TaskRecord /\ OfItsKind(t)
      /\ file \in History /\ stats \in Stats /\ active \in Convs \cup {None} /\ owed \in BOOLEAN
      /\ rows \in [Convs -> {"none", "open", "ended"}]
      /\ said \subseteq Tasks /\ lost \subseteq Tasks /\ overlapped \in BOOLEAN
      /\ mishaps \in 0..MaxMishaps
  BY Types
<1>2. At(t) = "restore"
  BY DEF Restore
<1> DEFINE at == Return(t)
<1>3. at \in {"reload", "over"} /\ task[t].op # "erase"
  BY <1>1, <1>2 DEF OfItsKind, Out, Return
<1> HIDE DEF at
<1> DEFINE r == [task[t] EXCEPT !.at = at]
<1>4. /\ r \in TaskRecord
      /\ r.op = task[t].op /\ r.at = at /\ r.past = task[t].past /\ r.prev = task[t].prev
      /\ r.fd = task[t].fd /\ r.cid = task[t].cid /\ r.then = task[t].then /\ r.saw = task[t].saw
  BY <1>1, <1>2, <1>3 DEF TaskRecord, Places
<1>5. task' = [task EXCEPT ![t] = r]
  BY <1>1, <1>2, <1>3, <1>4 DEF Restore, Goto, r, at
<1> HIDE DEF r
<1>6. TypeOK' /\ task'[t] = r /\ At(t)' = r.at /\ task' \in [Tasks -> TaskRecord] /\ Others(t)
  <2>1. /\ file' \in History /\ stats' \in Stats /\ active' \in Convs \cup {None} /\ owed' \in BOOLEAN
        /\ rows' \in [Convs -> {"none", "open", "ended"}] /\ mishaps' \in 0..MaxMishaps
        /\ said' \subseteq Tasks /\ lost' \subseteq Tasks /\ overlapped' \in BOOLEAN
    BY <1>1, <1>2, <1>3, <1>4, <1>5, FaultCounted, EmptyIsHistory DEF Restore, Stats, TaskRecord
  <2> QED
    BY <1>1, <1>2, <1>3, <1>4, <1>5, <2>1, Typed
<1>7. OfItsKind(t)'
  BY <1>1, <1>2, <1>3, <1>4, <1>5, <1>6 DEF Restore, OfItsKind, Out
<1>8. /\ Remembered(file') \subseteq Remembered(file) \cup Held(t)
      /\ Held(t)' \subseteq Remembered(file) \cup Held(t) \cup {t}
  BY <1>1, <1>2, <1>3, <1>4, <1>6, <1>7, EmptyIsHistory DEF Restore, Held, InHand, OfItsKind
<1>9. Buried'
  BY <1>2, <1>4, <1>6, <1>8, StaysBuried
<1>10. ASSUME ~overlapped' PROVE ~overlapped /\ (At(t) = "idle" => Running = {}) /\ Remembers(t)' /\ Retries(t)' /\ Leaves(t)'
  <2>1. ~overlapped /\ (At(t) = "idle" => Running = {})
    BY <1>10, <1>2 DEF Restore
  <2>2. Remembers(t) /\ Retries(t) /\ Leaves(t)
    BY <1>2, <2>1, Finds
  <2>3. Remembers(t)'
    BY <1>1, <1>2, <1>3, <1>4, <1>6, <1>7, <2>2, EmptyIsHistory DEF Restore, Remembers, InTransit, OfItsKind
  <2>4. Retries(t)' /\ Leaves(t)'
    BY <1>1, <1>2, <1>3, <1>4, <1>6, <1>7, <2>2, EmptyIsHistory DEF Restore, Retries, Leaves, InTransit, OfItsKind, Out
  <2> QED
    BY <2>1, <2>3, <2>4
<1> QED
  BY <1>2, <1>6, <1>7, <1>9, <1>10, Kept

\* A reset or an erase forgets the statistics.
LEMMA ForgetKeeps ==
    ASSUME SessionAssumption, IInv, NEW t \in Tasks, Forget(t)
    PROVE  IInv'
<1>1. /\ task \in [Tasks -> TaskRecord] /\ task[t] \in TaskRecord /\ OfItsKind(t)
      /\ file \in History /\ stats \in Stats /\ active \in Convs \cup {None} /\ owed \in BOOLEAN
      /\ rows \in [Convs -> {"none", "open", "ended"}]
      /\ said \subseteq Tasks /\ lost \subseteq Tasks /\ overlapped \in BOOLEAN
      /\ mishaps \in 0..MaxMishaps
  BY Types
<1>2. At(t) = "forget"
  BY DEF Forget
<1> DEFINE r == [task[t] EXCEPT !.at = "wipe"]
<1>3. /\ r \in TaskRecord
      /\ r.op = task[t].op /\ r.at = "wipe" /\ r.past = task[t].past /\ r.prev = task[t].prev
      /\ r.fd = task[t].fd /\ r.cid = task[t].cid /\ r.then = task[t].then /\ r.saw = task[t].saw
  BY <1>1, <1>2 DEF TaskRecord, Places
<1>4. task' = [task EXCEPT ![t] = r]
  BY <1>1, <1>2, <1>3 DEF Forget, Goto, r
<1> HIDE DEF r
<1>5. TypeOK' /\ task'[t] = r /\ At(t)' = r.at /\ task' \in [Tasks -> TaskRecord] /\ Others(t)
  <2>1. /\ file' \in History /\ stats' \in Stats /\ active' \in Convs \cup {None} /\ owed' \in BOOLEAN
        /\ rows' \in [Convs -> {"none", "open", "ended"}] /\ mishaps' \in 0..MaxMishaps
        /\ said' \subseteq Tasks /\ lost' \subseteq Tasks /\ overlapped' \in BOOLEAN
    BY <1>1, <1>2, <1>3, <1>4, FaultCounted, EmptyIsHistory DEF Forget, Stats, TaskRecord
  <2> QED
    BY <1>1, <1>2, <1>3, <1>4, <2>1, Typed
<1>6. OfItsKind(t)'
  BY <1>1, <1>2, <1>3, <1>4, <1>5 DEF Forget, OfItsKind, Out
<1>7. /\ Remembered(file') \subseteq Remembered(file) \cup Held(t)
      /\ Held(t)' \subseteq Remembered(file) \cup Held(t) \cup {t}
  BY <1>1, <1>2, <1>3, <1>5, <1>6, EmptyIsHistory DEF Forget, Held, InHand, OfItsKind
<1>8. Buried'
  BY <1>2, <1>3, <1>5, <1>7, StaysBuried
<1>9. ASSUME ~overlapped' PROVE ~overlapped /\ (At(t) = "idle" => Running = {}) /\ Remembers(t)' /\ Retries(t)' /\ Leaves(t)'
  <2>1. ~overlapped /\ (At(t) = "idle" => Running = {})
    BY <1>9, <1>2 DEF Forget
  <2>2. Remembers(t) /\ Retries(t) /\ Leaves(t)
    BY <1>2, <2>1, Finds
  <2>3. Remembers(t)'
    BY <1>1, <1>2, <1>3, <1>5, <1>6, <2>2, EmptyIsHistory DEF Forget, Remembers, InTransit, OfItsKind
  <2>4. Retries(t)' /\ Leaves(t)'
    BY <1>1, <1>2, <1>3, <1>5, <1>6, <2>2, EmptyIsHistory DEF Forget, Retries, Leaves, InTransit, OfItsKind, Out
  <2> QED
    BY <2>1, <2>3, <2>4
<1> QED
  BY <1>2, <1>5, <1>6, <1>8, <1>9, Kept

\* Leaving a conversation clears the active id.
LEMMA LeaveKeeps ==
    ASSUME SessionAssumption, IInv, NEW t \in Tasks, Leave(t)
    PROVE  IInv'
<1>1. /\ task \in [Tasks -> TaskRecord] /\ task[t] \in TaskRecord /\ OfItsKind(t)
      /\ file \in History /\ stats \in Stats /\ active \in Convs \cup {None} /\ owed \in BOOLEAN
      /\ rows \in [Convs -> {"none", "open", "ended"}]
      /\ said \subseteq Tasks /\ lost \subseteq Tasks /\ overlapped \in BOOLEAN
      /\ mishaps \in 0..MaxMishaps
  BY Types
<1>2. At(t) = "leave"
  BY DEF Leave
<1> DEFINE at == IF active = None THEN Return(t) ELSE "end_row"
<1>3. /\ at \in {"reload", "over", "delete", "end_row"} /\ (at = "delete" => task[t].op = "erase")
      /\ (at = "end_row" => active # None) /\ (task[t].op = "erase" => at \in {"delete", "end_row"})
  BY DEF Return
<1> HIDE DEF at
<1> DEFINE r == [task[t] EXCEPT !.cid = active, !.at = at]
<1>4. /\ r \in TaskRecord
      /\ r.op = task[t].op /\ r.at = at /\ r.past = task[t].past /\ r.prev = task[t].prev
      /\ r.fd = task[t].fd /\ r.cid = active /\ r.then = task[t].then /\ r.saw = task[t].saw
  BY <1>1, <1>2, <1>3 DEF TaskRecord, Places
<1>5. task' = [task EXCEPT ![t] = r]
  BY <1>1, <1>2, <1>3, <1>4 DEF Leave, Goto, r, at
<1> HIDE DEF r
<1>6. TypeOK' /\ task'[t] = r /\ At(t)' = r.at /\ task' \in [Tasks -> TaskRecord] /\ Others(t)
  <2>1. /\ file' \in History /\ stats' \in Stats /\ active' \in Convs \cup {None} /\ owed' \in BOOLEAN
        /\ rows' \in [Convs -> {"none", "open", "ended"}] /\ mishaps' \in 0..MaxMishaps
        /\ said' \subseteq Tasks /\ lost' \subseteq Tasks /\ overlapped' \in BOOLEAN
    BY <1>1, <1>2, <1>3, <1>4, <1>5, FaultCounted, EmptyIsHistory DEF Leave, Stats, TaskRecord
  <2> QED
    BY <1>1, <1>2, <1>3, <1>4, <1>5, <2>1, Typed
<1>7. OfItsKind(t)'
  BY <1>1, <1>2, <1>3, <1>4, <1>5, <1>6 DEF Leave, OfItsKind, Out
<1>8. /\ Remembered(file') \subseteq Remembered(file) \cup Held(t)
      /\ Held(t)' \subseteq Remembered(file) \cup Held(t) \cup {t}
  BY <1>1, <1>2, <1>3, <1>4, <1>6, <1>7, EmptyIsHistory DEF Leave, Held, InHand, OfItsKind
<1>9. Buried'
  BY <1>2, <1>4, <1>6, <1>8, StaysBuried
<1>10. ASSUME ~overlapped' PROVE ~overlapped /\ (At(t) = "idle" => Running = {}) /\ Remembers(t)' /\ Retries(t)' /\ Leaves(t)'
  <2>1. ~overlapped /\ (At(t) = "idle" => Running = {})
    BY <1>10, <1>2 DEF Leave
  <2>2. Remembers(t) /\ Retries(t) /\ Leaves(t)
    BY <1>2, <2>1, Finds
  <2>3. Remembers(t)'
    BY <1>1, <1>2, <1>3, <1>4, <1>6, <1>7, <2>2, EmptyIsHistory DEF Leave, Remembers, InTransit, OfItsKind
  <2>4. Retries(t)' /\ Leaves(t)'
    BY <1>1, <1>2, <1>3, <1>4, <1>6, <1>7, <2>2, EmptyIsHistory DEF Leave, Retries, Leaves, InTransit, OfItsKind, Out
  <2> QED
    BY <2>1, <2>3, <2>4
<1> QED
  BY <1>2, <1>6, <1>7, <1>9, <1>10, Kept

\* The row of the conversation that was left is ended.
LEMMA EndRowKeeps ==
    ASSUME SessionAssumption, IInv, NEW t \in Tasks, EndRow(t)
    PROVE  IInv'
<1>1. /\ task \in [Tasks -> TaskRecord] /\ task[t] \in TaskRecord /\ OfItsKind(t)
      /\ file \in History /\ stats \in Stats /\ active \in Convs \cup {None} /\ owed \in BOOLEAN
      /\ rows \in [Convs -> {"none", "open", "ended"}]
      /\ said \subseteq Tasks /\ lost \subseteq Tasks /\ overlapped \in BOOLEAN
      /\ mishaps \in 0..MaxMishaps
  BY Types
<1>2. At(t) = "end_row"
  BY DEF EndRow
<1> DEFINE at == Return(t)
<1>3. at \in {"reload", "over", "delete"} /\ (at = "delete" <=> task[t].op = "erase")
  BY DEF Return
<1> HIDE DEF at
<1> DEFINE r == [task[t] EXCEPT !.cid = None, !.at = at]
<1>4. /\ r \in TaskRecord
      /\ r.op = task[t].op /\ r.at = at /\ r.past = task[t].past /\ r.prev = task[t].prev
      /\ r.fd = task[t].fd /\ r.cid = None /\ r.then = task[t].then /\ r.saw = task[t].saw
  BY <1>1, <1>2, <1>3 DEF TaskRecord, Places
<1>5. task' = [task EXCEPT ![t] = r]
  BY <1>1, <1>2, <1>3, <1>4 DEF EndRow, Goto, r, at
<1> HIDE DEF r
<1>6. TypeOK' /\ task'[t] = r /\ At(t)' = r.at /\ task' \in [Tasks -> TaskRecord] /\ Others(t)
  <2>1. /\ file' \in History /\ stats' \in Stats /\ active' \in Convs \cup {None} /\ owed' \in BOOLEAN
        /\ rows' \in [Convs -> {"none", "open", "ended"}] /\ mishaps' \in 0..MaxMishaps
        /\ said' \subseteq Tasks /\ lost' \subseteq Tasks /\ overlapped' \in BOOLEAN
    <3>1. rows' \in [Convs -> {"none", "open", "ended"}]
      BY <1>1 DEF EndRow
    <3> QED
      BY <1>1, <3>1 DEF EndRow
  <2> QED
    BY <1>1, <1>2, <1>3, <1>4, <1>5, <2>1, Typed
<1>7. OfItsKind(t)'
  BY <1>1, <1>2, <1>3, <1>4, <1>5, <1>6 DEF EndRow, OfItsKind, Out
<1>8. /\ Remembered(file') \subseteq Remembered(file) \cup Held(t)
      /\ Held(t)' \subseteq Remembered(file) \cup Held(t) \cup {t}
  BY <1>1, <1>2, <1>3, <1>4, <1>6, <1>7, EmptyIsHistory DEF EndRow, Held, InHand, OfItsKind
<1>9. Buried'
  BY <1>2, <1>4, <1>6, <1>8, StaysBuried
<1>10. ASSUME ~overlapped' PROVE ~overlapped /\ (At(t) = "idle" => Running = {}) /\ Remembers(t)' /\ Retries(t)' /\ Leaves(t)'
  <2>1. ~overlapped /\ (At(t) = "idle" => Running = {})
    BY <1>10, <1>2 DEF EndRow
  <2>2. Remembers(t) /\ Retries(t) /\ Leaves(t)
    BY <1>2, <2>1, Finds
  <2>3. Remembers(t)'
    BY <1>1, <1>2, <1>3, <1>4, <1>6, <1>7, <2>2, EmptyIsHistory DEF EndRow, Remembers, InTransit, OfItsKind
  <2>4. Retries(t)' /\ Leaves(t)'
    BY <1>1, <1>2, <1>3, <1>4, <1>6, <1>7, <2>2, EmptyIsHistory DEF EndRow, Retries, Leaves, InTransit, OfItsKind, Out
  <2> QED
    BY <2>1, <2>3, <2>4
<1> QED
  BY <1>2, <1>6, <1>7, <1>9, <1>10, Kept

\* The rows of the user are deleted.
LEMMA DeleteKeeps ==
    ASSUME SessionAssumption, IInv, NEW t \in Tasks, Delete(t)
    PROVE  IInv'
<1>1. /\ task \in [Tasks -> TaskRecord] /\ task[t] \in TaskRecord /\ OfItsKind(t)
      /\ file \in History /\ stats \in Stats /\ active \in Convs \cup {None} /\ owed \in BOOLEAN
      /\ rows \in [Convs -> {"none", "open", "ended"}]
      /\ said \subseteq Tasks /\ lost \subseteq Tasks /\ overlapped \in BOOLEAN
      /\ mishaps \in 0..MaxMishaps
  BY Types
<1>2. At(t) = "delete"
  BY DEF Delete
<1> DEFINE r == [task[t] EXCEPT !.at = "over"]
<1>3. /\ r \in TaskRecord
      /\ r.op = task[t].op /\ r.at = "over" /\ r.past = task[t].past /\ r.prev = task[t].prev
      /\ r.fd = task[t].fd /\ r.cid = task[t].cid /\ r.then = task[t].then /\ r.saw = task[t].saw
  BY <1>1, <1>2 DEF TaskRecord, Places
<1>4. task' = [task EXCEPT ![t] = r]
  BY <1>1, <1>2, <1>3 DEF Delete, Goto, r
<1> HIDE DEF r
<1>5. TypeOK' /\ task'[t] = r /\ At(t)' = r.at /\ task' \in [Tasks -> TaskRecord] /\ Others(t)
  <2>1. /\ file' \in History /\ stats' \in Stats /\ active' \in Convs \cup {None} /\ owed' \in BOOLEAN
        /\ rows' \in [Convs -> {"none", "open", "ended"}] /\ mishaps' \in 0..MaxMishaps
        /\ said' \subseteq Tasks /\ lost' \subseteq Tasks /\ overlapped' \in BOOLEAN
    BY <1>1, <1>2, <1>3, <1>4, FaultCounted, EmptyIsHistory DEF Delete, Stats, TaskRecord
  <2> QED
    BY <1>1, <1>2, <1>3, <1>4, <2>1, Typed
<1>6. OfItsKind(t)'
  BY <1>1, <1>2, <1>3, <1>4, <1>5 DEF Delete, OfItsKind, Out
<1>7. /\ Remembered(file') \subseteq Remembered(file) \cup Held(t)
      /\ Held(t)' \subseteq Remembered(file) \cup Held(t) \cup {t}
  BY <1>1, <1>2, <1>3, <1>5, <1>6, EmptyIsHistory DEF Delete, Held, InHand, OfItsKind
<1>8. Buried'
  BY <1>2, <1>3, <1>5, <1>7, StaysBuried
<1>9. ASSUME ~overlapped' PROVE ~overlapped /\ (At(t) = "idle" => Running = {}) /\ Remembers(t)' /\ Retries(t)' /\ Leaves(t)'
  <2>1. ~overlapped /\ (At(t) = "idle" => Running = {})
    BY <1>9, <1>2 DEF Delete
  <2>2. Remembers(t) /\ Retries(t) /\ Leaves(t)
    BY <1>2, <2>1, Finds
  <2>3. Remembers(t)'
    BY <1>1, <1>2, <1>3, <1>5, <1>6, <2>2, EmptyIsHistory DEF Delete, Remembers, InTransit, OfItsKind
  <2>4. Retries(t)' /\ Leaves(t)'
    BY <1>1, <1>2, <1>3, <1>5, <1>6, <2>2, EmptyIsHistory DEF Delete, Retries, Leaves, InTransit, OfItsKind, Out
  <2> QED
    BY <2>1, <2>3, <2>4
<1> QED
  BY <1>2, <1>5, <1>6, <1>8, <1>9, Kept

-----------------------------------------------------------------------------
\* A task goes on with r, and the files that the others have open lose their name.
Cleared(t, r) == task' = [s \in Tasks |-> IF s = t THEN r ELSE [task[s] EXCEPT !.fd = FALSE]]

\* A removed file is taken from whoever had it open.
LEMMA TypedCleared ==
    ASSUME IInv, NEW t \in Tasks, NEW r \in TaskRecord, r.at # "end_row",
           Cleared(t, r),
           file' = Empty, stats' \in Stats, active' \in Convs \cup {None},
           rows' \in [Convs -> {"none", "open", "ended"}],
           said' \subseteq Tasks, lost' \subseteq Tasks, owed' \in BOOLEAN, overlapped' \in BOOLEAN,
           mishaps' \in 0..MaxMishaps
    PROVE  /\ TypeOK' /\ task'[t] = r /\ At(t)' = r.at /\ task' \in [Tasks -> TaskRecord] /\ Others(t)
           /\ \A s \in Tasks \ {t} : ~task'[s].fd
<1>1. task \in [Tasks -> TaskRecord]
  BY Types
<1>2. \A s \in Tasks : /\ [task[s] EXCEPT !.fd = FALSE] \in TaskRecord
                       /\ [task[s] EXCEPT !.fd = FALSE].at = task[s].at
                       /\ [task[s] EXCEPT !.fd = FALSE].cid = task[s].cid
                       /\ [task[s] EXCEPT !.fd = FALSE].fd = FALSE
  BY <1>1 DEF TaskRecord
<1>3. /\ task' \in [Tasks -> TaskRecord] /\ task'[t] = r
      /\ \A s \in Tasks \ {t} : task'[s] = [task[s] EXCEPT !.fd = FALSE]
  BY <1>2 DEF Cleared
<1>4. \A s \in Tasks : At(s)' = "end_row" => task'[s].cid # None
  BY <1>2, <1>3 DEF IInv, TypeOK, At
<1> QED
  BY <1>2, <1>3, <1>4, EmptyIsHistory DEF TypeOK, At, Others

\* Whatever a clearing sees buried is in no file and in nobody's hands.
LEMMA ClearBuries ==
    ASSUME IInv, NEW t \in Tasks, At(t) # "over", task' \in [Tasks -> TaskRecord], Others(t),
           \A s \in Tasks \ {t} : ~task'[s].fd, ~task'[t].fd, file' = Empty,
           InHand(t)' = {}, task'[t].saw = task[t].saw \cup Settled
    PROVE  Buried'
<1> SUFFICES ASSUME NEW e \in Tasks, NEW x \in task'[e].saw
             PROVE  At(x)' = "over" /\ x \notin Remembered(file') /\ \A s \in Tasks : x \notin Held(s)'
  BY DEF Buried
<1>1. task \in [Tasks -> TaskRecord]
  BY Types
<1>2. x \in task[e].saw \/ x \in Settled
  BY <1>1, OthersStay
<1>3. /\ x \in Tasks /\ At(x) = "over" /\ \A s \in Tasks : x \notin InHand(s)
  BY <1>1, <1>2 DEF IInv, Buried, TaskRecord, Settled, Begun, Running, Held
<1>4. x # t
  BY <1>3
<1>5. At(x)' = "over"
  BY <1>1, <1>3, <1>4, OthersStay
<1>6. \A s \in Tasks \ {t} : InHand(s)' = InHand(s)
  <2>1. SUFFICES ASSUME NEW s \in Tasks \ {t} PROVE InHand(s)' = InHand(s)
    OBVIOUS
  <2>2. At(s)' = At(s) /\ task'[s].past = task[s].past /\ task'[s].then = task[s].then
    BY <1>1, OthersStay
  <2> QED
    BY <2>2 DEF InHand, Remembered
<1>7. \A s \in Tasks : Held(s)' = InHand(s)'
  BY DEF Held
<1> QED
  BY <1>3, <1>5, <1>6, <1>7, EmptyIsHistory

\* Clearing leaves the empty history, and no open file under its name.
LEMMA ClearIs ==
    ASSUME NEW t \in Tasks, NEW next, Clear(t, next)
    PROVE  /\ file' = Empty
           /\ task' = [s \in Tasks |->
                         IF s = t THEN [task[t] EXCEPT !.fd = FALSE, !.at = next, !.saw = task[t].saw \cup Settled]
                                  ELSE [task[s] EXCEPT !.fd = FALSE]]
  BY DEF Clear

\* The old history goes before the summary is saved.
LEMMA ClearForSummaryKeeps ==
    ASSUME SessionAssumption, IInv, NEW t \in Tasks, ClearForSummary(t)
    PROVE  IInv'
<1>1. /\ task \in [Tasks -> TaskRecord] /\ task[t] \in TaskRecord /\ OfItsKind(t)
      /\ file \in History /\ stats \in Stats /\ active \in Convs \cup {None} /\ owed \in BOOLEAN
      /\ rows \in [Convs -> {"none", "open", "ended"}]
      /\ said \subseteq Tasks /\ lost \subseteq Tasks /\ overlapped \in BOOLEAN
      /\ mishaps \in 0..MaxMishaps
  BY Types
<1>2. At(t) = "clear"
  BY DEF ClearForSummary
<1> DEFINE r == [task[t] EXCEPT !.fd = FALSE, !.at = "truncate", !.then = "leave"]
<1>3. /\ r \in TaskRecord
      /\ r.op = task[t].op /\ r.at = "truncate" /\ r.past = task[t].past /\ r.prev = task[t].prev
      /\ r.fd = FALSE /\ r.cid = task[t].cid /\ r.then = "leave" /\ r.saw = task[t].saw
  BY <1>1 DEF TaskRecord, Places, Settled, Begun
<1>4. file' = Empty /\ Cleared(t, r)
  BY <1>1 DEF Cleared, ClearForSummary, r
<1> HIDE DEF r
<1>5. /\ TypeOK' /\ task'[t] = r /\ At(t)' = r.at /\ task' \in [Tasks -> TaskRecord] /\ Others(t)
      /\ \A s \in Tasks \ {t} : ~task'[s].fd
  <2>1. /\ stats' \in Stats /\ active' \in Convs \cup {None} /\ owed' \in BOOLEAN
        /\ rows' \in [Convs -> {"none", "open", "ended"}] /\ mishaps' \in 0..MaxMishaps
        /\ said' \subseteq Tasks /\ lost' \subseteq Tasks /\ overlapped' \in BOOLEAN /\ owed' \in BOOLEAN
    BY <1>1 DEF ClearForSummary
  <2>2. r.at # "end_row"
    BY <1>3
  <2> QED
    BY <1>3, <1>4, <2>1, <2>2, TypedCleared
<1>6. OfItsKind(t)'
  BY <1>1, <1>2, <1>3, <1>5 DEF OfItsKind, Out
<1>7. Buried'
  <2>1. Held(t)' = Held(t)
    BY <1>2, <1>3, <1>5 DEF Held, InHand, Remembered
  <2> QED
    BY <1>2, <1>3, <1>4, <1>5, <2>1, EmptyIsHistory, StaysBuried
<1>8. ASSUME ~overlapped' PROVE ~overlapped /\ Remembers(t)' /\ Retries(t)' /\ Leaves(t)'
  <2>1. ~overlapped
    BY <1>8 DEF ClearForSummary
  <2>2. Remembers(t) /\ Retries(t) /\ Leaves(t)
    BY <1>2, <2>1, Finds
  <2>3. Remembers(t)'
    BY <1>1, <1>2, <1>3, <1>4, <1>5, <2>2, EmptyIsHistory DEF ClearForSummary, Remembers, InTransit, OfItsKind
  <2>4. Retries(t)' /\ Leaves(t)'
    BY <1>1, <1>2, <1>3, <1>4, <1>5, <2>2 DEF ClearForSummary, Retries, Leaves, InTransit, OfItsKind, Out
  <2> QED
    BY <2>1, <2>3, <2>4
<1> QED
  BY <1>2, <1>5, <1>6, <1>7, <1>8, Kept

\* An erase clears the history.
LEMMA EraseKeeps ==
    ASSUME SessionAssumption, IInv, NEW t \in Tasks, Erase(t)
    PROVE  IInv'
<1>1. /\ task \in [Tasks -> TaskRecord] /\ task[t] \in TaskRecord /\ OfItsKind(t)
      /\ file \in History /\ stats \in Stats /\ active \in Convs \cup {None} /\ owed \in BOOLEAN
      /\ rows \in [Convs -> {"none", "open", "ended"}]
      /\ said \subseteq Tasks /\ lost \subseteq Tasks /\ overlapped \in BOOLEAN
      /\ mishaps \in 0..MaxMishaps
  BY Types
<1>2. At(t) = "erase"
  BY DEF Erase
<1> DEFINE r == [task[t] EXCEPT !.fd = FALSE, !.at = "forget", !.saw = task[t].saw \cup Settled]
<1>3. /\ r \in TaskRecord
      /\ r.op = task[t].op /\ r.at = "forget" /\ r.past = task[t].past /\ r.prev = task[t].prev
      /\ r.fd = FALSE /\ r.cid = task[t].cid /\ r.then = task[t].then /\ r.saw = task[t].saw \cup Settled
  BY <1>1 DEF TaskRecord, Places, Settled, Begun
<1>4. file' = Empty /\ Cleared(t, r)
  BY <1>1, ClearIs DEF Cleared, Erase, r
<1> HIDE DEF r
<1>5. /\ TypeOK' /\ task'[t] = r /\ At(t)' = r.at /\ task' \in [Tasks -> TaskRecord] /\ Others(t)
      /\ \A s \in Tasks \ {t} : ~task'[s].fd
  <2>1. /\ stats' \in Stats /\ active' \in Convs \cup {None} /\ owed' \in BOOLEAN
        /\ rows' \in [Convs -> {"none", "open", "ended"}] /\ mishaps' \in 0..MaxMishaps
        /\ said' \subseteq Tasks /\ lost' \subseteq Tasks /\ overlapped' \in BOOLEAN /\ owed' \in BOOLEAN
    BY <1>1 DEF Erase
  <2>2. r.at # "end_row"
    BY <1>3
  <2> QED
    BY <1>3, <1>4, <2>1, <2>2, TypedCleared
<1>6. OfItsKind(t)'
  BY <1>1, <1>2, <1>3, <1>5 DEF OfItsKind, Out
<1>7. Buried'
  <2>1. InHand(t)' = {}
    BY <1>3, <1>5 DEF InHand
  <2> QED
    BY <1>2, <1>3, <1>4, <1>5, <2>1, ClearBuries
<1>8. ASSUME ~overlapped' PROVE ~overlapped /\ Remembers(t)' /\ Retries(t)' /\ Leaves(t)'
  <2>1. ~overlapped
    BY <1>8 DEF Erase
  <2>2. Remembers(t) /\ Retries(t) /\ Leaves(t)
    BY <1>2, <2>1, Finds
  <2>3. Remembers(t)'
    BY <1>1, <1>2, <1>3, <1>4, <1>5, <2>2, EmptyIsHistory DEF Erase, Remembers, InTransit, OfItsKind
  <2>4. Retries(t)' /\ Leaves(t)'
    BY <1>1, <1>2, <1>3, <1>4, <1>5, <2>2 DEF Erase, Retries, Leaves, InTransit, OfItsKind, Out
  <2> QED
    BY <2>1, <2>3, <2>4
<1> QED
  BY <1>2, <1>5, <1>6, <1>7, <1>8, Kept

\* The history is cleared once more.
LEMMA WipeKeeps ==
    ASSUME SessionAssumption, IInv, NEW t \in Tasks, Wipe(t)
    PROVE  IInv'
<1>1. /\ task \in [Tasks -> TaskRecord] /\ task[t] \in TaskRecord /\ OfItsKind(t)
      /\ file \in History /\ stats \in Stats /\ active \in Convs \cup {None} /\ owed \in BOOLEAN
      /\ rows \in [Convs -> {"none", "open", "ended"}]
      /\ said \subseteq Tasks /\ lost \subseteq Tasks /\ overlapped \in BOOLEAN
      /\ mishaps \in 0..MaxMishaps
  BY Types
<1>2. At(t) = "wipe"
  BY DEF Wipe
<1> DEFINE r == [task[t] EXCEPT !.fd = FALSE, !.at = "leave", !.saw = task[t].saw \cup Settled]
<1>3. /\ r \in TaskRecord
      /\ r.op = task[t].op /\ r.at = "leave" /\ r.past = task[t].past /\ r.prev = task[t].prev
      /\ r.fd = FALSE /\ r.cid = task[t].cid /\ r.then = task[t].then /\ r.saw = task[t].saw \cup Settled
  BY <1>1 DEF TaskRecord, Places, Settled, Begun
<1>4. file' = Empty /\ Cleared(t, r)
  BY <1>1, ClearIs DEF Cleared, Wipe, r
<1> HIDE DEF r
<1>5. /\ TypeOK' /\ task'[t] = r /\ At(t)' = r.at /\ task' \in [Tasks -> TaskRecord] /\ Others(t)
      /\ \A s \in Tasks \ {t} : ~task'[s].fd
  <2>1. /\ stats' \in Stats /\ active' \in Convs \cup {None} /\ owed' \in BOOLEAN
        /\ rows' \in [Convs -> {"none", "open", "ended"}] /\ mishaps' \in 0..MaxMishaps
        /\ said' \subseteq Tasks /\ lost' \subseteq Tasks /\ overlapped' \in BOOLEAN /\ owed' \in BOOLEAN
    BY <1>1 DEF Wipe
  <2>2. r.at # "end_row"
    BY <1>3
  <2> QED
    BY <1>3, <1>4, <2>1, <2>2, TypedCleared
<1>6. OfItsKind(t)'
  BY <1>1, <1>2, <1>3, <1>5 DEF OfItsKind, Out
<1>7. Buried'
  <2>1. InHand(t)' = {}
    BY <1>3, <1>5 DEF InHand
  <2> QED
    BY <1>2, <1>3, <1>4, <1>5, <2>1, ClearBuries
<1>8. ASSUME ~overlapped' PROVE ~overlapped /\ Remembers(t)' /\ Retries(t)' /\ Leaves(t)'
  <2>1. ~overlapped
    BY <1>8 DEF Wipe
  <2>2. Remembers(t) /\ Retries(t) /\ Leaves(t)
    BY <1>2, <2>1, Finds
  <2>3. Remembers(t)'
    BY <1>1, <1>2, <1>3, <1>4, <1>5, <2>2, EmptyIsHistory DEF Wipe, Remembers, InTransit, OfItsKind
  <2>4. Retries(t)' /\ Leaves(t)'
    BY <1>1, <1>2, <1>3, <1>4, <1>5, <2>2 DEF Wipe, Retries, Leaves, InTransit, OfItsKind, Out
  <2> QED
    BY <2>1, <2>3, <2>4
<1> QED
  BY <1>2, <1>5, <1>6, <1>7, <1>8, Kept

\* A restart loses what is in nobody's hands but the tasks'.
LEMMA RestartKeeps ==
    ASSUME SessionAssumption, IInv, Restart
    PROVE  IInv'
<1>1. /\ task \in [Tasks -> TaskRecord] /\ file \in History /\ said \subseteq Tasks /\ lost \subseteq Tasks
      /\ rows \in [Convs -> {"none", "open", "ended"}] /\ overlapped \in BOOLEAN /\ mishaps \in 0..MaxMishaps
  BY DEF IInv, TypeOK
<1>2. \A s \in Tasks : /\ task'[s].op = task[s].op /\ task'[s].saw = task[s].saw
                       /\ At(s)' = IF At(s) = "idle" THEN "idle" ELSE "over"
                       /\ task'[s] \in TaskRecord
  <2> SUFFICES ASSUME NEW s \in Tasks
               PROVE  /\ task'[s].op = task[s].op /\ task'[s].saw = task[s].saw
                      /\ At(s)' = IF At(s) = "idle" THEN "idle" ELSE "over"
                      /\ task'[s] \in TaskRecord
    OBVIOUS
  <2>1. task[s] \in TaskRecord
    BY <1>1
  <2>2. CASE s \in Running
    <3> DEFINE q == Fresh(task[s].op)
    <3>1. q \in TaskRecord /\ q.op = task[s].op
      BY <2>1, EmptyIsHistory DEF Fresh, TaskRecord, Stats, Places
    <3> HIDE DEF q
    <3>2. task'[s] = [q EXCEPT !.at = "over", !.saw = task[s].saw]
      BY <2>2 DEF Restart, q
    <3>3. task'[s] \in TaskRecord /\ task'[s].op = task[s].op /\ task'[s].saw = task[s].saw /\ task'[s].at = "over"
      BY <2>1, <3>1, <3>2 DEF TaskRecord, Places
    <3> QED
      BY <2>2, <3>3 DEF At, Running
  <2>3. CASE s \notin Running
    BY <2>1, <2>3 DEF Restart, Running, At
  <2> QED
    BY <2>2, <2>3
<1>3. task' \in [Tasks -> TaskRecord]
  BY <1>2 DEF Restart
<1>4. lost' \subseteq Tasks /\ lost \subseteq lost' /\ mishaps' \in 0..MaxMishaps
  <2>1. lost' \subseteq Tasks /\ lost \subseteq lost'
    BY <1>1 DEF Restart
  <2>2. mishaps' \in 0..MaxMishaps
    <3>1. MaxMishaps \in Nat /\ mishaps < MaxMishaps /\ mishaps' = mishaps + 1 /\ mishaps \in 0..MaxMishaps
      BY <1>1 DEF Restart, SessionAssumption
    <3> QED
      BY <3>1
  <2> QED
    BY <2>1, <2>2
<1>5. TypeOK'
  BY <1>1, <1>2, <1>3, <1>4 DEF Restart, TypeOK, Stats
<1>6. \A s \in Tasks : OfItsKind(s)'
  BY <1>2 DEF IInv, OfItsKind, Out
<1>7. Buried'
  <2>1. \A s \in Tasks : Held(s)' = {}
    BY <1>2 DEF Held, InHand
  <2>2. \A e \in Tasks : \A x \in task[e].saw : x \in Tasks /\ At(x)' = "over"
    BY <1>1, <1>2 DEF IInv, Buried, TaskRecord
  <2> QED
    BY <1>2, <2>1, <2>2 DEF IInv, Buried, Restart
<1>8. Running' = {}
  BY <1>2 DEF Running
<1>9. ASSUME ~overlapped' PROVE Serial'
  <2>1. Serial
    BY <1>9 DEF Restart, IInv
  <2>2. CASE \E t \in Tasks : Saving(t)
    BY <1>8, <2>2 DEF Restart, Serial, NeverTrimmed
  <2>3. CASE ~\E t \in Tasks : Saving(t)
    <3>1. said \ lost \subseteq Remembered(file)
      <4>1. CASE Running = {}
        BY <2>1, <4>1 DEF Serial, NeverTrimmed
      <4>2. CASE Running # {}
        <5>1. PICK t \in Tasks : t \in Running /\ Remembers(t)
          BY <2>1, <4>2 DEF Serial, Running
        <5>2. ~InTransit(t)
          BY <2>3, <5>1 DEF InTransit, Saving, Remembers
        <5> QED
          BY <5>1, <5>2 DEF Remembers
      <4> QED
        BY <4>1, <4>2
    <3> QED
      BY <1>4, <1>8, <3>1 DEF Restart, Serial, NeverTrimmed
  <2> QED
    BY <2>2, <2>3
<1> QED
  BY <1>5, <1>6, <1>7, <1>9 DEF IInv

\* A stuttering step keeps everything.
LEMMA StutterKeeps == ASSUME IInv, UNCHANGED vars PROVE IInv'
<1> USE DEF vars
<1>1. TypeOK' /\ Running' = Running
  BY DEF IInv, TypeOK, Running, At
<1>2. \A t \in Tasks : /\ OfItsKind(t) => OfItsKind(t)'
                       /\ Remembers(t) => Remembers(t)'
                       /\ Retries(t) => Retries(t)'
                       /\ Leaves(t) => Leaves(t)'
                       /\ At(t)' = At(t)
  BY DEF OfItsKind, Remembers, Retries, Leaves, InTransit, At
<1>3. \A t \in Tasks : Held(t)' = Held(t)
  BY DEF Held, InHand, Remembered, At
<1>4. Buried'
  BY <1>2, <1>3 DEF IInv, Buried, TypeOK, TaskRecord
<1>5. ASSUME ~overlapped' PROVE Serial'
  <2>1. Serial
    BY <1>5 DEF IInv
  <2>2. \A t \in Running' : t \in Tasks /\ Remembers(t)' /\ Retries(t)' /\ Leaves(t)'
    BY <1>1, <1>2, <2>1 DEF Serial, Running
  <2> QED
    BY <1>1, <2>1, <2>2 DEF Serial, NeverTrimmed
<1> QED
  BY <1>1, <1>2, <1>4, <1>5 DEF IInv

\* The invariant holds at the start.
LEMMA InitInv == ASSUME SessionAssumption, Init PROVE IInv
<1>1. PICK ops \in [Tasks -> Ops] : task = [t \in Tasks |-> Fresh(ops[t])]
  BY DEF Init
<1>2. \A o \in Ops : Fresh(o) \in TaskRecord
  BY EmptyIsHistory DEF Fresh, TaskRecord, Stats, Places
<1>3. task \in [Tasks -> TaskRecord]
  BY <1>1, <1>2
<1>4. \A t \in Tasks : At(t) = "idle" /\ task[t].saw = {}
  BY <1>1 DEF Fresh, At
<1>5. TypeOK
  <2>1. 0 \in 0..MaxMishaps
    BY SessionAssumption DEF SessionAssumption
  <2> QED
    BY <1>3, <1>4, <2>1, EmptyIsHistory DEF Init, TypeOK, Stats
<1>6. Running = {}
  BY <1>4 DEF Running
<1> QED
  BY <1>4, <1>5, <1>6 DEF Init, IInv, Serial, NeverTrimmed, Buried, OfItsKind, Out

\* Every step keeps the invariant.
LEMMA StepInv == ASSUME SessionAssumption PROVE IInv /\ [Next]_vars => IInv'
<1> SUFFICES ASSUME IInv, [Next]_vars PROVE IInv'
  OBVIOUS
<1>1. CASE Restart
  BY <1>1, RestartKeeps
<1>2. ASSUME NEW t \in Tasks, Step(t) PROVE IInv'
  <2>1. CASE Begin(t) \/ Truncate(t) \/ Write(t) \/ Load(t) \/ Decide(t) \/ Reload(t)
    BY <2>1, BeginKeeps, TruncateKeeps, WriteKeeps, LoadKeeps, DecideKeeps, ReloadKeeps
  <2>2. CASE SaveFails(t) \/ WriteFails(t) \/ ClearFails(t) \/ DigestFails(t)
    BY <2>2, SaveFailsKeeps, WriteFailsKeeps, ClearFailsKeeps, DigestFailsKeeps
  <2>3. CASE Converse(t) \/ Round(t) \/ RoundFails(t) \/ Append(t)
    BY <2>3, ConverseKeeps, RoundKeeps, RoundFailsKeeps, AppendKeeps
  <2>4. CASE Take(t) \/ Digest(t) \/ Open(t) \/ Summarize(t) \/ DropStats(t)
    BY <2>4, TakeKeeps, DigestKeeps, OpenKeeps, SummarizeKeeps, NoSummaryKeeps, DropStatsKeeps
  <2>5. CASE Restore(t) \/ ClearForSummary(t) \/ Erase(t) \/ Forget(t)
    BY <2>5, RestoreKeeps, ClearForSummaryKeeps, EraseKeeps, ForgetKeeps
  <2>6. CASE Wipe(t) \/ Leave(t) \/ EndRow(t) \/ Delete(t)
    BY <2>6, WipeKeeps, LeaveKeeps, EndRowKeeps, DeleteKeeps
  <2> QED
    BY <1>2, <2>1, <2>2, <2>3, <2>4, <2>5, <2>6 DEF Step
<1>3. CASE UNCHANGED vars
  BY <1>3, StutterKeeps
<1> QED
  BY <1>1, <1>2, <1>3 DEF Next

\* The invariant of a session: what was cleared away is in nobody's hands, and
\* a task that works alone has in its hands whatever the file and the statistics
\* lack (Agent::run, compact_session_with_hooks, reset_session and
\* erase_data_command).
THEOREM SessionInvariant == Spec => []IInv
<1>1. Init => IInv
  BY InitInv, SessionAssumption
<1>2. IInv /\ [Next]_vars => IInv'
  BY StepInv, SessionAssumption
<1> QED
  BY <1>1, <1>2, PTL DEF Spec

\* Every variable keeps its type.
THEOREM SessionTyped == Spec => []TypeOK
<1>1. IInv => TypeOK
  BY DEF IInv
<1> QED
  BY <1>1, SessionInvariant, PTL

\* As long as no two tasks have overlapped, no turn is forgotten but by a reset,
\* a failed read, a write that broke off, or a compaction that lost its own save,
\* through any sequence of turns, compactions, failures of the disk and restarts
\* (History::load, save, clear and append_turn, compact_session_with_hooks).
THEOREM NothingForgotten == Spec => []HistoryKept
<1>1. IInv => HistoryKept
  BY DEF IInv, Serial, HistoryKept
<1> QED
  BY <1>1, SessionInvariant, PTL

\* What a reset or an erase has cleared does not come back, whatever tasks are in
\* flight, unless one of them had it in hand at that moment (append_turn reads
\* the file again, and whoever had the file open writes to one without a name).
THEOREM ErasedIsGone == Spec => []ErasedStaysErased
<1>1. IInv => ErasedStaysErased
  BY DEF IInv, Buried, ErasedStaysErased
<1> QED
  BY <1>1, SessionInvariant, PTL

\* A compaction that failed leaves the statistics that make the next turn retry
\* it (compact_session_with_hooks puts them back), as long as no two tasks overlap.
THEOREM FullContextStays == Spec => []FullContextRetried
<1>1. IInv => FullContextRetried
  BY DEF IInv, Serial, FullContextRetried
<1> QED
  BY <1>1, SessionInvariant, PTL
-----------------------------------------------------------------------------
(* The conversation rows.                                                  *)

\* The conversation of the map has an open row, also while a task is at work.
Linked == ~overlapped /\ active # None => rows[active] = "open"

\* Joining a conversation leaves it open.
LEMMA JoinLinks ==
    ASSUME DbAnswers = {TRUE}, NEW c \in Convs, Join(c), TypeOK, Linked, overlapped' = overlapped
    PROVE  Linked'
  BY DEF Join, Linked, TypeOK

\* Every step keeps the active conversation open, until tasks overlap.
LEMMA StepLinks ==
    ASSUME DbAnswers = {TRUE}, IInv, Linked, [Next]_vars
    PROVE  Linked'
<1>1. CASE Restart
  BY <1>1 DEF Restart, Linked
<1>2. ASSUME NEW t \in Tasks, Converse(t) \/ Open(t) PROVE Linked'
  <2>1. PICK c \in Convs : Join(c)
    BY <1>2 DEF Converse, Open
  <2>2. overlapped' = overlapped
    BY <1>2 DEF Converse, Open
  <2> QED
    BY <2>1, <2>2, JoinLinks DEF IInv
<1>3. ASSUME NEW t \in Tasks, Leave(t) \/ EndRow(t) \/ Delete(t) PROVE Linked'
  <2>1. CASE Leave(t)
    BY <2>1 DEF Leave, Linked
  <2>2. CASE EndRow(t) \/ Delete(t)
    <3>1. At(t) \in {"end_row", "delete"} /\ active' = active /\ overlapped' = overlapped
      BY <2>2 DEF EndRow, Delete
    <3>2. ~overlapped => active = None
      BY <3>1, Finds DEF Leaves
    <3> QED
      BY <3>1, <3>2 DEF Linked
  <2> QED
    BY <1>3, <2>1, <2>2
<1>4. ASSUME NEW t \in Tasks, Step(t), ~(Converse(t) \/ Open(t)), ~(Leave(t) \/ EndRow(t) \/ Delete(t))
      PROVE  UNCHANGED <<active, rows>> /\ (~overlapped' => ~overlapped)
  <2>1. CASE Begin(t)
    BY <2>1, Types DEF Begin
  <2>2. CASE Truncate(t) \/ Write(t) \/ SaveFails(t) \/ WriteFails(t) \/ ClearFails(t) \/ DigestFails(t)
    BY <2>2 DEF Truncate, Write, SaveFails, WriteFails, ClearFails, DigestFails
  <2>3. CASE Load(t) \/ Decide(t) \/ Reload(t) \/ Round(t) \/ RoundFails(t) \/ Append(t)
    BY <2>3 DEF Load, Decide, Reload, Round, RoundFails, Append
  <2>4. CASE Take(t) \/ Digest(t) \/ Summarize(t) \/ DropStats(t) \/ Restore(t)
    BY <2>4 DEF Take, Digest, Summarize, DropStats, Restore
  <2>5. CASE Erase(t) \/ Forget(t) \/ Wipe(t)
    BY <2>5 DEF Erase, Forget, Wipe
  <2>6. CASE ClearForSummary(t)
    BY <2>6 DEF ClearForSummary
  <2> QED
    BY <1>4, <2>1, <2>2, <2>3, <2>4, <2>5, <2>6 DEF Step
<1>5. CASE UNCHANGED <<active, rows>> /\ (~overlapped' => ~overlapped)
  BY <1>5 DEF Linked
<1>6. CASE UNCHANGED vars
  BY <1>5, <1>6 DEF vars
<1> QED
  BY <1>1, <1>2, <1>3, <1>4, <1>5, <1>6 DEF Next

\* Usage is counted on an open conversation, as long as the database answers and
\* no two tasks overlap: whoever ends a row has taken it out of the map before
\* (current_conversation_id, end_active_conversation).
THEOREM UsageCounted == ASSUME DbAnswers = {TRUE} PROVE Spec => []ActiveIsOpen
<1>1. Init => Linked
  BY DEF Init, Linked
<1>2. IInv /\ Linked /\ [Next]_vars => Linked'
  BY StepLinks
<1>3. Linked => ActiveIsOpen
  BY DEF Linked, ActiveIsOpen
<1> QED
  BY <1>1, <1>2, <1>3, SessionInvariant, PTL DEF Spec

\* A user has one open conversation at most, however many tasks overlap and
\* whenever the bot restarts, as long as the database answers
\* (current_conversation_id asks it under the lock of the map).
THEOREM OneConversation == ASSUME DbAnswers = {TRUE} PROVE Spec => []OneOpenConversation
<1> DEFINE Inv == rows \in [Convs -> {"none", "open", "ended"}] /\ OneOpenConversation
<1>1. Init => Inv
  BY DEF Init, OneOpenConversation
<1>2. ASSUME Inv, [Next]_vars PROVE Inv'
  <2>1. ASSUME NEW c \in Convs, Join(c) PROVE Inv'
    BY <1>2, <2>1 DEF Join, OneOpenConversation
  <2>2. ASSUME NEW t \in Tasks, EndRow(t) PROVE Inv'
    BY <1>2, <2>2 DEF EndRow, OneOpenConversation
  <2>3. ASSUME NEW t \in Tasks, Delete(t) PROVE Inv'
    BY <1>2, <2>3 DEF Delete, OneOpenConversation
  <2>4. ASSUME NEW t \in Tasks, Step(t), ~EndRow(t), ~Delete(t) PROVE rows' = rows \/ \E c \in Convs : Join(c)
    BY <2>4 DEF Step, Begin, Truncate, Write, SaveFails, WriteFails, ClearFails, DigestFails, Load, Decide,
                Reload, Converse, Round, RoundFails, Append, Take, Digest, Open, Summarize, DropStats, Restore,
                ClearForSummary, Erase, Forget, Wipe, Leave
  <2>5. CASE rows' = rows
    BY <1>2, <2>5 DEF OneOpenConversation
  <2>6. CASE Restart
    BY <2>5, <2>6 DEF Restart
  <2> QED
    BY <1>2, <2>1, <2>2, <2>3, <2>4, <2>5, <2>6 DEF Next, vars
<1>3. Inv => OneOpenConversation
  OBVIOUS
<1> HIDE DEF Inv
<1> QED
  BY <1>1, <1>2, <1>3, PTL DEF Spec

\* Both at once: what a turn records is counted on the user's one open conversation
\* (record_usage, current_conversation_id).
THEOREM UsageRecorded == ASSUME DbAnswers = {TRUE} PROVE Spec => []UsageOnOneRow
<1>1. Spec => []OneOpenConversation
  BY OneConversation
<1>2. Spec => []ActiveIsOpen
  BY UsageCounted
<1>3. OneOpenConversation /\ ActiveIsOpen => UsageOnOneRow
  BY DEF UsageOnOneRow
<1> QED
  BY <1>1, <1>2, <1>3, PTL
=============================================================================
