---------------------------- MODULE ServicesProofs ----------------------------
(***************************************************************************)
(* Proofs about Services, for every value of the constants that satisfies  *)
(* ServicesAssumption.  The parts come first, each by itself: its          *)
(* inductive invariant, a lemma per action, and that the invariant implies *)
(* the property the runs check.  Their names start with Config, Rem, Skl,  *)
(* Git and Web, as the instances of Services do.  Then each part is lifted *)
(* to Services: where it runs, Next is its Next, and where it does not run *)
(* it never will.                                                          *)
(***************************************************************************)
EXTENDS Services, Integers, FiniteSetTheorems, SequenceTheorems, TLAPS

ConfigRecords == {"server", "user"}

\* A handler's entry has the four fields, and whoever is at work has a command.
ConfigEntry(r) == /\ r = [at |-> r.at, cmd |-> r.cmd, by |-> r.by, snap |-> r.snap]
                  /\ r.at # "idle" => r.cmd \in Command /\ r.by \in ConfigUser
ConfigTables == /\ stored = [k \in Config!Keys |-> stored[k]] /\ intended = [k \in Config!Keys |-> intended[k]]
                /\ live = [k \in Config!InMemory |-> live[k]]
                /\ task = [t \in Task |-> task[t]] /\ \A t \in Task : ConfigEntry(task[t])
                /\ clock \in Nat /\ faults \in Nat /\ since \in [ConfigUser -> Nat \cup {None}]

\* Where a command can be, by its key.
ConfigPlaced(r) ==
    /\ r.at \in {"lock", "reload", "refresh"} => r.cmd.key = "access"
    /\ r.at = "load" => r.cmd.key \in ConfigRecords /\ r.cmd.what # "erase"
    /\ r.at \in {"apply", "info"} => r.cmd.key = "ceiling"
    /\ r.at = "use" => r.cmd.key = "classifier"
    /\ r.at \in {"apply", "info", "save"} /\ r.cmd.key = "ceiling" => r.cmd.value \in Nat \ {0}

\* An update of the access record is made under write_lock.
ConfigLocks(r) == r.at \in {"reload", "refresh"} \/ (r.at = "save" /\ r.cmd.key = "access")

\* What a handler has in hand is the change of what is stored or runs now.
ConfigCurrent(r) ==
    /\ r.at = "save" /\ r.cmd.key \in {"access"} \cup (ConfigRecords \ unsure) =>
          r.cmd.what = "erase" \/ r.snap = Config!Changed(r.cmd, stored[r.cmd.key])
    /\ r.at = "refresh" => r.snap = stored["access"]
    /\ r.at = "save" /\ r.cmd.key = "ceiling" /\ "ceiling" \notin unsure =>
          r.snap = live["ceiling"] /\ r.snap \in Nat \ {0}
    /\ r.at = "info" /\ "ceiling" \notin unsure => live["ceiling"] = r.cmd.value
    /\ r.at = "use" /\ "classifier" \notin unsure => r.snap = stored["classifier"]
ConfigTasks == \A t \in Task : ConfigPlaced(task[t]) /\ ConfigCurrent(task[t]) /\ (ConfigLocks(task[t]) => writer = t)

\* Outside the races only one handler is at work on a key.
ConfigAlone == \A k \in Config!Keys \ unsure : \A s, t \in Config!Busy(k) : s = t

\* What runs is what is stored, unless a command is between the two.
ConfigBetween == {"info", "save", "use"}
ConfigInForce == \A k \in Config!InMemory \ unsure :
                    live[k] = Config!Loaded(stored)[k] \/ \E t \in Config!Busy(k) : task[t].at \in ConfigBetween

\* The executed commands compose.
ConfigComposed == \A k \in {"access"} \cup (ConfigRecords \ unsure) : stored[k] = intended[k]

\* Who is configurer in a snapshot and no more in storage ceased to be one at
\* the time of the snapshot or after it.
ConfigAged(snap, time) ==
          \A u \in ConfigUser : <<"configurer", u>> \in snap \ stored["access"] => since[u] \in Nat /\ since[u] >= time
ConfigAges == /\ cache # None => cache.at \in Nat /\ cache.at <= clock /\ ConfigAged(cache.snap, cache.at)
              /\ \A t \in Task : task[t].at = "fill" => ConfigAged(task[t].snap, clock)

ConfigIInv == ConfigTables /\ ConfigTasks /\ ConfigAlone /\ ConfigInForce /\ ConfigComposed /\ ConfigAges
-----------------------------------------------------------------------------
\* A step of one handler.
LEMMA ConfigOneEntry ==
    ASSUME ConfigTables, NEW t \in Task, NEW r, task' = [task EXCEPT ![t] = r]
    PROVE  task' = [s \in Task |-> task'[s]] /\ task'[t] = r /\ \A s \in Task \ {t} : task'[s] = task[s]
  BY DEF ConfigTables

\* The reset handler is idle.
LEMMA ConfigIdleEntry == /\ ConfigEntry(Config!Idle) /\ ConfigPlaced(Config!Idle) /\ ConfigCurrent(Config!Idle) /\ ~ConfigLocks(Config!Idle) /\ Config!Idle.at = "idle"
  BY DEF Config!Idle, ConfigEntry, ConfigPlaced, ConfigCurrent, ConfigLocks

\* A step that stores nothing, applies nothing and ends nothing half done.
LEMMA ConfigQuiet ==
    ASSUME ConfigIInv, NEW t \in Task, NEW r, task' = [task EXCEPT ![t] = r],
           ConfigEntry(r), ConfigPlaced(r), ConfigCurrent(r) \/ ConfigCurrent(r)', ConfigLocks(r) => writer' = t,
           r.at = "fill" => ConfigAged(r.snap, clock),
           r.at = "idle" \/ (task[t].at # "idle" /\ r.cmd = task[t].cmd)
                         \/ r.cmd.key \in unsure' \/ Config!Busy(r.cmd.key) = {},
           task[t].at \in ConfigBetween => r.at \in ConfigBetween /\ r.cmd = task[t].cmd,
           \A s \in Task \ {t} : writer = s => writer' = s,
           UNCHANGED <<stored, live, clock, intended, since>>, unsure \subseteq unsure', faults' \in Nat,
           cache' = cache \/ (cache' = [snap |-> cache'.snap, at |-> clock] /\ ConfigAged(cache'.snap, clock))
    PROVE  ConfigIInv'
<1>1. /\ task' = [s \in Task |-> task'[s]] /\ task'[t] = r
      /\ \A s \in Task \ {t} : task'[s] = task[s]
  BY ConfigOneEntry DEF ConfigIInv
<1>2. ConfigTables'
  BY <1>1 DEF ConfigIInv, ConfigTables, ConfigEntry
<1>3. ConfigTasks'
  <2> SUFFICES ASSUME NEW s \in Task
               PROVE  ConfigPlaced(task'[s]) /\ ConfigCurrent(task[s])' /\ (ConfigLocks(task'[s]) => writer' = s)
    BY DEF ConfigTasks, ConfigPlaced, ConfigLocks
  <2>1. PICK e : e = task'[s]
    OBVIOUS
  <2>2. ConfigPlaced(e) /\ (ConfigCurrent(e) \/ ConfigCurrent(e)') /\ (ConfigLocks(e) => writer' = s)
    BY <1>1, <2>1 DEF ConfigIInv, ConfigTasks
  <2>3. ConfigCurrent(task[s])'
    BY <2>1, <2>2 DEF ConfigCurrent
  <2> QED
    BY <2>1, <2>2, <2>3
<1>4. ConfigAlone'
  BY <1>1 DEF ConfigIInv, ConfigAlone, Config!Busy
<1>5. ConfigInForce'
  <2>1. ASSUME NEW k \in Config!InMemory \ unsure', NEW s \in Config!Busy(k), task[s].at \in ConfigBetween
        PROVE  s \in Config!Busy(k)' /\ task'[s].at \in ConfigBetween
    BY <1>1, <2>1 DEF Config!Busy, ConfigBetween
  <2>2. \A k \in Config!InMemory : Config!Loaded(stored')[k] = Config!Loaded(stored)[k]
    OBVIOUS
  <2> QED
    BY <2>1, <2>2 DEF ConfigIInv, ConfigInForce
<1>6. ConfigComposed'
  BY DEF ConfigIInv, ConfigComposed
<1>7. ConfigAges'
  <2>1. \A snap, time : ConfigAged(snap, time) => ConfigAged(snap, time)'
    BY DEF ConfigAged
  <2>2. \A s \in Task : task'[s].at = "fill" => ConfigAged(task'[s].snap, clock)
    BY <1>1 DEF ConfigIInv, ConfigAges
  <2>3. cache' # None => cache'.at \in Nat /\ cache'.at <= clock /\ ConfigAged(cache'.snap, cache'.at)
    BY DEF ConfigIInv, ConfigAges, ConfigTables
  <2> QED
    BY <2>1, <2>2, <2>3 DEF ConfigAges
<1> QED
  BY <1>2, <1>3, <1>4, <1>5, <1>6, <1>7 DEF ConfigIInv
-----------------------------------------------------------------------------
(* Who gets to give a command.                                             *)

\* An entry that begins command c of user who.
ConfigBegins(r, c, who) ==
    \/ r = Config!Idle
    \/ Config!Valid(c) /\ r = [at |-> Config!FirstStep(c), cmd |-> c, by |-> who,
                               snap |-> IF c.key = "classifier" THEN c.value ELSE {}]

LEMMA ConfigBeginsWell ==
    ASSUME Config!CommandsKnown, NEW c \in Command, NEW who \in ConfigUser, NEW r, ConfigBegins(r, c, who)
    PROVE  /\ ConfigEntry(r) /\ ConfigPlaced(r) /\ ConfigCurrent(r) /\ ~ConfigLocks(r) /\ r.at # "fill"
           /\ r.at = "idle" \/ r.cmd = c
<1>1. CASE r = Config!Idle
  BY <1>1, ConfigIdleEntry DEF Config!Idle
<1>2. CASE Config!Valid(c) /\ r = [at |-> Config!FirstStep(c), cmd |-> c, by |-> who,
                                   snap |-> IF c.key = "classifier" THEN c.value ELSE {}]
  <2>1. r.at = Config!FirstStep(c) /\ r.cmd = c /\ r.by = who
    BY <1>2
  <2>2. ConfigEntry(r)
    BY <1>2 DEF ConfigEntry
  <2>3. c.key \in Config!Keys
    BY DEF Config!CommandsKnown
  <2>4. /\ c.key = "access" => r.at = "lock"
        /\ c.key = "ceiling" => r.at = "apply" /\ c.value \in Nat \ {0}
        /\ c.key = "classifier" => r.at = "save"
        /\ c.key \in ConfigRecords => \/ r.at = "save" /\ c.what = "erase"
                                      \/ r.at = "load" /\ c.what # "erase"
    BY <1>2, <2>1 DEF Config!FirstStep, Config!Valid, Config!CommandsKnown, ConfigRecords
  <2> QED
    BY <2>1, <2>2, <2>3, <2>4 DEF ConfigPlaced, ConfigCurrent, ConfigLocks, Config!Keys, ConfigRecords
<1> QED
  BY <1>1, <1>2 DEF ConfigBegins

\* A judgement begins the command, or ends it.
LEMMA ConfigJudged ==
    ASSUME ConfigTables, NEW t \in Task, NEW access, Config!Judge(t, access)
    PROVE  \E r : /\ task' = [task EXCEPT ![t] = r] /\ ConfigBegins(r, task[t].cmd, task[t].by)
                  /\ ~Config!May(task[t].cmd, task[t].by, access) => r = Config!Idle
<1>1. CASE Config!May(task[t].cmd, task[t].by, access)
  BY <1>1 DEF Config!Judge, Config!Proceed, ConfigBegins
<1>2. CASE ~Config!May(task[t].cmd, task[t].by, access)
  BY <1>2 DEF Config!Judge, ConfigBegins
<1> QED
  BY <1>1, <1>2

\* A reader of the access record.
LEMMA ConfigReaderKeeps ==
    ASSUME Config!CommandsKnown, ConfigIInv, NEW t \in Task, NEW access, Config!Judge(t, access),
           task[t].at \in {"access", "fill"},
           UNCHANGED <<stored, live, writer, clock, issued, restarts, intended, since, unsure>>,
           faults' \in Nat,
           cache' = cache \/ (cache' = [snap |-> cache'.snap, at |-> clock] /\ ConfigAged(cache'.snap, clock))
    PROVE  ConfigIInv'
<1>1. task[t].cmd \in Command /\ task[t].by \in ConfigUser /\ task[t].at # "idle" /\ task[t].at \notin ConfigBetween
  BY DEF ConfigIInv, ConfigTables, ConfigEntry, ConfigBetween
<1>2. PICK r : task' = [task EXCEPT ![t] = r] /\ ConfigBegins(r, task[t].cmd, task[t].by)
  BY ConfigJudged DEF ConfigIInv
<1>3. /\ ConfigEntry(r) /\ ConfigPlaced(r) /\ ConfigCurrent(r) /\ ~ConfigLocks(r) /\ r.at # "fill"
      /\ r.at = "idle" \/ r.cmd = task[t].cmd
  BY <1>1, <1>2, ConfigBeginsWell
<1> QED
  BY <1>1, <1>2, <1>3, ConfigQuiet

\* Receive starts a command, at once or by reading who may give it.
LEMMA ConfigReceiveKeeps ==
    ASSUME Config!CommandsKnown, ConfigIInv, NEW t \in Task, Config!Receive(t)
    PROVE  ConfigIInv'
<1>1. PICK c \in Command, who \in ConfigUser :
        /\ \/ Config!Proceed(t, c, who)
           \/ task' = [task EXCEPT ![t] = [at |-> "access", cmd |-> c, by |-> who, snap |-> {}]]
        /\ unsure' = IF Config!Busy(c.key) # {} THEN unsure \cup {c.key} ELSE unsure
  BY DEF Config!Receive
<1>2. PICK r : /\ task' = [task EXCEPT ![t] = r]
               /\ ConfigBegins(r, c, who) \/ r = [at |-> "access", cmd |-> c, by |-> who, snap |-> {}]
  BY <1>1 DEF Config!Proceed, ConfigBegins
<1>3. /\ ConfigEntry(r) /\ ConfigPlaced(r) /\ ConfigCurrent(r) /\ ~ConfigLocks(r) /\ r.at # "fill"
      /\ r.at = "idle" \/ r.cmd = c
  <2>1. CASE ConfigBegins(r, c, who)
    BY <2>1, ConfigBeginsWell
  <2>2. CASE r = [at |-> "access", cmd |-> c, by |-> who, snap |-> {}]
    <3>1. r.at = "access" /\ r.cmd = c /\ r.by = who
      BY <2>2
    <3> QED
      BY <2>2, <3>1 DEF ConfigEntry, ConfigPlaced, ConfigCurrent, ConfigLocks
  <2> QED
    BY <1>2, <2>1, <2>2
<1>4. c.key \in unsure' \/ Config!Busy(c.key) = {}
  BY <1>1
<1>5. /\ UNCHANGED <<stored, live, cache, writer, clock, faults, intended, since>>
      /\ unsure \subseteq unsure' /\ task[t].at = "idle" /\ faults \in Nat
  BY <1>1 DEF Config!Receive, ConfigIInv, ConfigTables
<1> QED
  BY <1>2, <1>3, <1>4, <1>5, ConfigQuiet DEF ConfigBetween
-----------------------------------------------------------------------------
(* The steps that store nothing.                                           *)

\* UseCache, Fill and FetchFails judge by what they have.
LEMMA ConfigLoadKeeps ==
    ASSUME Config!CommandsKnown, ConfigIInv, NEW t \in Task, Config!UseCache(t) \/ Config!Fill(t) \/ Config!FetchFails(t)
    PROVE  ConfigIInv'
<1>1. faults' \in Nat
  BY DEF Config!UseCache, Config!Fill, Config!FetchFails, Config!Fail, ConfigIInv, ConfigTables
<1>2. CASE Config!UseCache(t)
  BY <1>1, <1>2, ConfigReaderKeeps DEF Config!UseCache
<1>3. CASE Config!Fill(t)
  <2>1. task[t].at = "fill" /\ Config!Judge(t, task[t].snap)
        /\ UNCHANGED <<stored, live, writer, clock, issued, restarts, intended, since, unsure>>
    BY <1>3 DEF Config!Fill
  <2>2. cache' = [snap |-> task[t].snap, at |-> clock] /\ ConfigAged(task[t].snap, clock)
    BY <1>3, <2>1 DEF Config!Fill, ConfigIInv, ConfigAges
  <2> QED
    BY <1>1, <2>1, <2>2, ConfigReaderKeeps
<1>4. CASE Config!FetchFails(t)
  <2>1. PICK access : Config!Judge(t, access)
    BY <1>4 DEF Config!FetchFails
  <2> QED
    BY <1>1, <1>4, <2>1, ConfigReaderKeeps DEF Config!FetchFails
<1> QED
  BY <1>2, <1>3, <1>4

\* What a handler reads is what is stored.
LEMMA ConfigFetchKeeps ==
    ASSUME ConfigIInv, NEW t \in Task, Config!Fetch(t)
    PROVE  ConfigIInv'
<1>5. PICK r : r = [task[t] EXCEPT !.at = "fill", !.snap = stored["access"]]
  OBVIOUS
<1>1. ConfigEntry(task[t]) /\ task[t].at = "access" /\ faults \in Nat
  BY DEF ConfigIInv, ConfigTables, Config!Fetch
<1>2. r.at = "fill" /\ r.cmd = task[t].cmd /\ r.by = task[t].by /\ r.snap = stored["access"] /\ ConfigEntry(r)
  <2>1. PICK a, c, b, s : task[t] = [at |-> a, cmd |-> c, by |-> b, snap |-> s]
    BY <1>1, Zenon DEF ConfigEntry
  <2>2. [task[t] EXCEPT !.at = "fill"] = [at |-> "fill", cmd |-> c, by |-> b, snap |-> s]
    BY <2>1
  <2>3. r = [[task[t] EXCEPT !.at = "fill"] EXCEPT !.snap = stored["access"]]
    BY <1>5, <2>1
  <2>4. r = [at |-> "fill", cmd |-> c, by |-> b, snap |-> stored["access"]]
    BY <2>2, <2>3
  <2> QED
    BY <1>1, <2>1, <2>4 DEF ConfigEntry
<1>3. task' = [task EXCEPT ![t] = r]
  BY <1>1, <1>5 DEF Config!Fetch, ConfigIInv, ConfigTables
<1>4. ConfigPlaced(r) /\ ConfigCurrent(r) /\ ~ConfigLocks(r) /\ ConfigAged(r.snap, clock)
  BY <1>2 DEF ConfigPlaced, ConfigCurrent, ConfigLocks, ConfigAged
<1> QED
  BY <1>1, <1>2, <1>3, <1>4, ConfigQuiet DEF Config!Fetch, ConfigBetween

\* write_lock is free, and taken.
LEMMA ConfigLockKeeps ==
    ASSUME None \notin Task, ConfigIInv, NEW t \in Task, Config!Lock(t)
    PROVE  ConfigIInv'
<1> DEFINE r == [task[t] EXCEPT !.at = "reload"]
<1>1. ConfigEntry(task[t]) /\ task[t].at = "lock" /\ faults \in Nat /\ task[t].cmd.key = "access"
  BY DEF ConfigIInv, ConfigTables, Config!Lock, ConfigTasks, ConfigPlaced
<1>2. r.at = "reload" /\ r.cmd = task[t].cmd /\ r.by = task[t].by /\ ConfigEntry(r)
  BY <1>1 DEF ConfigEntry
<1>3. task' = [task EXCEPT ![t] = r]
  BY <1>1 DEF Config!Lock, ConfigIInv, ConfigTables
<1> HIDE DEF r
<1>4. ConfigPlaced(r) /\ ConfigCurrent(r)
  BY <1>1, <1>2 DEF ConfigPlaced, ConfigCurrent
<1>5. writer' = t /\ \A s \in Task : writer # s
  BY DEF Config!Lock
<1> QED
  BY <1>1, <1>2, <1>3, <1>4, <1>5, ConfigQuiet DEF Config!Lock, ConfigBetween

\* A change is made to what was loaded.
LEMMA ConfigReloadKeeps ==
    ASSUME ConfigIInv, NEW t \in Task, Config!Reload(t)
    PROVE  ConfigIInv'
<1>6. PICK new : new = Config!Changed(task[t].cmd, stored["access"])
  OBVIOUS
<1>5. PICK r : r = [task[t] EXCEPT !.at = "save", !.snap = new]
  OBVIOUS
<1>1. /\ ConfigEntry(task[t]) /\ task[t].at = "reload" /\ faults \in Nat
      /\ task[t].cmd.key = "access" /\ writer = t
  BY DEF ConfigIInv, ConfigTables, Config!Reload, ConfigTasks, ConfigPlaced, ConfigLocks
<1>2. r.at = "save" /\ r.cmd = task[t].cmd /\ r.by = task[t].by /\ r.snap = new /\ ConfigEntry(r)
  <2>1. PICK a, c, b, s : task[t] = [at |-> a, cmd |-> c, by |-> b, snap |-> s]
    BY <1>1, Zenon DEF ConfigEntry
  <2>2. [task[t] EXCEPT !.at = "save"] = [at |-> "save", cmd |-> c, by |-> b, snap |-> s]
    BY <2>1
  <2>3. r = [[task[t] EXCEPT !.at = "save"] EXCEPT !.snap = new]
    BY <1>5, <2>1
  <2>4. r = [at |-> "save", cmd |-> c, by |-> b, snap |-> new]
    BY <2>2, <2>3
  <2> QED
    BY <1>1, <2>1, <2>4 DEF ConfigEntry
<1>3. task' = [task EXCEPT ![t] = r]
  BY <1>1, <1>5, <1>6 DEF Config!Reload, ConfigIInv, ConfigTables
<1>4. ConfigPlaced(r) /\ ConfigCurrent(r)
  BY <1>1, <1>2, <1>6 DEF ConfigPlaced, ConfigCurrent
<1> QED
  BY <1>1, <1>2, <1>3, <1>4, ConfigQuiet DEF Config!Reload, ConfigBetween

\* The server and the user record are loaded, or taken for the defaults.
LEMMA ConfigLoadRecordKeeps ==
    ASSUME ConfigIInv, NEW t \in Task, Config!LoadRecord(t) \/ Config!LoadRecordFails(t)
    PROVE  ConfigIInv'
<1>1. /\ ConfigEntry(task[t]) /\ task[t].at = "load" /\ faults' \in Nat
      /\ task[t].cmd.key \in ConfigRecords /\ task[t].cmd.key \in Config!Keys
  BY DEF ConfigIInv, ConfigTables, Config!LoadRecord, Config!LoadRecordFails, Config!Fail,
     ConfigTasks, ConfigPlaced, ConfigRecords, Config!Keys
<1>2. PICK snap : /\ task' = [task EXCEPT ![t] = [task[t] EXCEPT !.at = "save", !.snap = snap]]
                  /\ unsure \subseteq unsure'
                  /\ \/ snap = Config!Changed(task[t].cmd, stored[task[t].cmd.key])
                     \/ task[t].cmd.key \in unsure'
  BY <1>1 DEF Config!LoadRecord, Config!LoadRecordFails, ConfigIInv, ConfigTables
<1>3. PICK r : r = [task[t] EXCEPT !.at = "save", !.snap = snap]
  OBVIOUS
<1>4. r.at = "save" /\ r.cmd = task[t].cmd /\ r.by = task[t].by /\ r.snap = snap /\ ConfigEntry(r)
  <2>1. PICK a, c, b, s : task[t] = [at |-> a, cmd |-> c, by |-> b, snap |-> s]
    BY <1>1, Zenon DEF ConfigEntry
  <2>2. [task[t] EXCEPT !.at = "save"] = [at |-> "save", cmd |-> c, by |-> b, snap |-> s]
    BY <2>1
  <2>3. r = [[task[t] EXCEPT !.at = "save"] EXCEPT !.snap = snap]
    BY <1>3, <2>1
  <2>4. r = [at |-> "save", cmd |-> c, by |-> b, snap |-> snap]
    BY <2>2, <2>3
  <2> QED
    BY <1>1, <2>1, <2>4 DEF ConfigEntry
<1>5. ConfigPlaced(r) /\ ~ConfigLocks(r)
  BY <1>1, <1>4 DEF ConfigPlaced, ConfigLocks, ConfigRecords
<1>6. UNCHANGED <<stored, live, cache, writer, clock, intended, since>>
  BY DEF Config!LoadRecord, Config!LoadRecordFails
<1>7. ConfigCurrent(r)'
  BY <1>1, <1>2, <1>4, <1>6 DEF ConfigCurrent, ConfigRecords
<1> QED
  BY <1>1, <1>2, <1>3, <1>4, <1>5, <1>6, <1>7, ConfigQuiet DEF ConfigBetween
\* The ceiling that runs is read back.
LEMMA ConfigReadCeilingKeeps ==
    ASSUME ConfigIInv, NEW t \in Task, Config!ReadCeiling(t)
    PROVE  ConfigIInv'
<1>1. PICK new : new = live["ceiling"]
  OBVIOUS
<1>2. PICK r : r = [task[t] EXCEPT !.at = "save", !.snap = new]
  OBVIOUS
<1>3. /\ ConfigEntry(task[t]) /\ task[t].at = "info" /\ faults \in Nat
      /\ task[t].cmd.key = "ceiling" /\ task[t].cmd.value \in Nat \ {0}
      /\ "ceiling" \notin unsure => new = task[t].cmd.value
  BY <1>1 DEF ConfigIInv, ConfigTables, Config!ReadCeiling, ConfigTasks, ConfigPlaced, ConfigCurrent
<1>4. r.at = "save" /\ r.cmd = task[t].cmd /\ r.by = task[t].by /\ r.snap = new /\ ConfigEntry(r)
  <2>1. PICK a, c, b, s : task[t] = [at |-> a, cmd |-> c, by |-> b, snap |-> s]
    BY <1>3, Zenon DEF ConfigEntry
  <2>2. [task[t] EXCEPT !.at = "save"] = [at |-> "save", cmd |-> c, by |-> b, snap |-> s]
    BY <2>1
  <2>3. r = [[task[t] EXCEPT !.at = "save"] EXCEPT !.snap = new]
    BY <1>2, <2>1
  <2>4. r = [at |-> "save", cmd |-> c, by |-> b, snap |-> new]
    BY <2>2, <2>3
  <2> QED
    BY <1>3, <2>1, <2>4 DEF ConfigEntry
<1>5. task' = [task EXCEPT ![t] = r]
  BY <1>1, <1>2, <1>3 DEF Config!ReadCeiling, ConfigIInv, ConfigTables
<1>6. ConfigPlaced(r) /\ ~ConfigLocks(r)
  BY <1>3, <1>4 DEF ConfigPlaced, ConfigLocks
<1>7. ConfigCurrent(r)
  BY <1>1, <1>3, <1>4 DEF ConfigCurrent, ConfigRecords
<1> QED
  BY <1>3, <1>4, <1>5, <1>6, <1>7, ConfigQuiet DEF Config!ReadCeiling, ConfigBetween

\* An update gives up before it has stored anything.
LEMMA ConfigReloadFailsKeeps ==
    ASSUME None \notin Task, ConfigIInv, NEW t \in Task, Config!ReloadFails(t)
    PROVE  ConfigIInv'
<1>1. task[t].at = "reload" /\ faults' \in Nat
  BY DEF Config!ReloadFails, Config!Fail, ConfigIInv, ConfigTables
<1>2. \A s \in Task \ {t} : writer = s => writer' = s
  BY DEF Config!ReloadFails, Config!Unlocked
<1> QED
  BY <1>1, <1>2, ConfigIdleEntry, ConfigQuiet DEF Config!ReloadFails, ConfigBetween

\* An update ends with what it stored in the cache.
LEMMA ConfigRefreshKeeps ==
    ASSUME None \notin Task, ConfigIInv, NEW t \in Task, Config!Refresh(t)
    PROVE  ConfigIInv'
<1>1. task[t].at = "refresh" /\ faults' \in Nat /\ task[t].snap = stored["access"]
  BY DEF Config!Refresh, ConfigIInv, ConfigTables, ConfigTasks, ConfigCurrent
<1>2. \A s \in Task \ {t} : writer = s => writer' = s
  BY DEF Config!Refresh, Config!Unlocked
<1>3. cache' = [snap |-> cache'.snap, at |-> clock] /\ ConfigAged(cache'.snap, clock)
  BY <1>1 DEF Config!Refresh, ConfigAged
<1> QED
  BY <1>1, <1>2, <1>3, ConfigIdleEntry, ConfigQuiet DEF Config!Refresh, ConfigBetween
-----------------------------------------------------------------------------
(* The steps that apply a setting or restart the bot.                      *)

\* The ceiling runs before it is stored.
LEMMA ConfigApplyCeilingKeeps ==
    ASSUME ConfigIInv, NEW t \in Task, Config!ApplyCeiling(t)
    PROVE  ConfigIInv'
<1>1. PICK r : r = [task[t] EXCEPT !.at = "info"]
  OBVIOUS
<1>2. /\ ConfigEntry(task[t]) /\ task[t].at = "apply" /\ task[t].cmd.key = "ceiling"
      /\ task[t].cmd.value \in Nat \ {0}
  BY DEF ConfigIInv, ConfigTables, Config!ApplyCeiling, ConfigTasks, ConfigPlaced
<1>3. r.at = "info" /\ r.cmd = task[t].cmd /\ r.by = task[t].by /\ ConfigEntry(r)
  BY <1>1, <1>2 DEF ConfigEntry
<1>4. task' = [task EXCEPT ![t] = r]
  BY <1>1, <1>2 DEF Config!ApplyCeiling, ConfigIInv, ConfigTables
<1>5. /\ task' = [s \in Task |-> task'[s]] /\ task'[t] = r
      /\ \A s \in Task \ {t} : task'[s] = task[s]
  BY <1>4, ConfigOneEntry DEF ConfigIInv
<1>6. /\ live' = [k \in Config!InMemory |-> live'[k]]
      /\ live'["ceiling"] = task[t].cmd.value /\ live'["classifier"] = live["classifier"]
      /\ UNCHANGED <<stored, cache, writer, clock, issued, faults, restarts, intended, since, unsure>>
  BY DEF Config!ApplyCeiling, ConfigIInv, ConfigTables, Config!InMemory
<1>7. ConfigTables'
  BY <1>3, <1>5, <1>6 DEF ConfigIInv, ConfigTables, ConfigEntry
<1>8. \A s \in Task \ {t} : task[s].at # "idle" /\ "ceiling" \notin unsure => task[s].cmd.key # "ceiling"
  BY <1>2 DEF ConfigIInv, ConfigAlone, Config!Busy, Config!Keys
<1>9. ConfigTasks'
  <2> SUFFICES ASSUME NEW s \in Task
               PROVE  ConfigPlaced(task'[s]) /\ ConfigCurrent(task[s])' /\ (ConfigLocks(task'[s]) => writer' = s)
    BY DEF ConfigTasks, ConfigPlaced, ConfigLocks
  <2>1. CASE s = t
    <3>1. ConfigPlaced(r) /\ ~ConfigLocks(r)
      BY <1>2, <1>3 DEF ConfigPlaced, ConfigLocks
    <3> QED
      BY <1>3, <1>5, <1>6, <2>1, <3>1 DEF ConfigCurrent
  <2>2. CASE s # t
    <3>1. PICK e : e = task[s] /\ e = task'[s]
      BY <1>5, <2>2
    <3>2. ConfigPlaced(e) /\ ConfigCurrent(e) /\ (ConfigLocks(e) => writer = s)
      BY <3>1 DEF ConfigIInv, ConfigTasks
    <3>3. ConfigCurrent(task[s])'
      BY <1>6, <1>8, <2>2, <3>1, <3>2 DEF ConfigCurrent, ConfigPlaced
    <3> QED
      BY <1>6, <3>1, <3>2, <3>3
  <2> QED
    BY <2>1, <2>2
<1>10. ConfigAlone'
  BY <1>2, <1>3, <1>5, <1>6 DEF ConfigIInv, ConfigAlone, Config!Busy
<1>11. ConfigInForce'
  <2>1. t \in Config!Busy("ceiling")' /\ task'[t].at \in ConfigBetween
    BY <1>2, <1>3, <1>5 DEF Config!Busy, ConfigBetween
  <2>2. \A s \in Config!Busy("classifier") : s \in Config!Busy("classifier")' /\ task'[s] = task[s]
    BY <1>2, <1>5 DEF Config!Busy
  <2>3. Config!Loaded(stored')["classifier"] = Config!Loaded(stored)["classifier"]
    BY <1>6
  <2> QED
    BY <1>6, <2>1, <2>2, <2>3 DEF ConfigIInv, ConfigInForce, Config!InMemory
<1>12. ConfigComposed' /\ ConfigAges'
  <2>1. \A snap, time : ConfigAged(snap, time) => ConfigAged(snap, time)'
    BY <1>6 DEF ConfigAged
  <2>2. \A s \in Task : task'[s].at = "fill" => task'[s] = task[s]
    BY <1>3, <1>5
  <2> QED
    BY <1>6, <2>1, <2>2 DEF ConfigIInv, ConfigComposed, ConfigAges
<1> QED
  BY <1>7, <1>9, <1>10, <1>11, <1>12 DEF ConfigIInv
\* The classifier that is stored is used.
LEMMA ConfigApplyClassifierKeeps ==
    ASSUME ConfigIInv, NEW t \in Task, Config!ApplyClassifier(t)
    PROVE  ConfigIInv'
<1>1. /\ task[t].at = "use" /\ task[t].cmd.key = "classifier"
      /\ "classifier" \notin unsure => task[t].snap = stored["classifier"]
  BY DEF ConfigIInv, Config!ApplyClassifier, ConfigTasks, ConfigPlaced, ConfigCurrent
<1>2. task' = [task EXCEPT ![t] = Config!Idle]
  BY DEF Config!ApplyClassifier
<1>3. /\ task' = [s \in Task |-> task'[s]] /\ task'[t] = Config!Idle
      /\ \A s \in Task \ {t} : task'[s] = task[s]
  BY <1>2, ConfigOneEntry DEF ConfigIInv
<1>4. /\ live' = [k \in Config!InMemory |-> live'[k]]
      /\ live'["classifier"] = task[t].snap /\ live'["ceiling"] = live["ceiling"]
      /\ UNCHANGED <<stored, cache, writer, clock, issued, faults, restarts, intended, since, unsure>>
  BY DEF Config!ApplyClassifier, ConfigIInv, ConfigTables, Config!InMemory
<1>5. ConfigTables'
  BY <1>3, <1>4, ConfigIdleEntry DEF ConfigIInv, ConfigTables, ConfigEntry
<1>6. ConfigTasks'
  <2> SUFFICES ASSUME NEW s \in Task
               PROVE  ConfigPlaced(task'[s]) /\ ConfigCurrent(task[s])' /\ (ConfigLocks(task'[s]) => writer' = s)
    BY DEF ConfigTasks, ConfigPlaced, ConfigLocks
  <2>1. PICK e : e = task'[s]
    OBVIOUS
  <2>2. ConfigPlaced(e) /\ ConfigCurrent(e) /\ (ConfigLocks(e) => writer' = s)
    BY <1>3, <1>4, <2>1, ConfigIdleEntry DEF ConfigIInv, ConfigTasks
  <2>3. ConfigCurrent(task[s])'
    BY <1>4, <2>1, <2>2 DEF ConfigCurrent
  <2> QED
    BY <2>1, <2>2, <2>3
<1>7. ConfigAlone'
  BY <1>3, <1>4, ConfigIdleEntry DEF ConfigIInv, ConfigAlone, Config!Busy
<1>8. ConfigInForce'
  <2>1. "classifier" \notin unsure => live'["classifier"] = Config!Loaded(stored')["classifier"]
    BY <1>1, <1>4 DEF Config!Loaded, Config!InMemory
  <2>2. \A s \in Config!Busy("ceiling") : s \in Config!Busy("ceiling")' /\ task'[s] = task[s]
    BY <1>1, <1>3 DEF Config!Busy
  <2>3. Config!Loaded(stored')["ceiling"] = Config!Loaded(stored)["ceiling"]
    BY <1>4
  <2> QED
    BY <1>4, <2>1, <2>2, <2>3 DEF ConfigIInv, ConfigInForce, Config!InMemory
<1>9. ConfigComposed' /\ ConfigAges'
  <2>1. \A snap, time : ConfigAged(snap, time) => ConfigAged(snap, time)'
    BY <1>4 DEF ConfigAged
  <2>2. \A s \in Task : task'[s].at = "fill" => task'[s] = task[s]
    BY <1>3, ConfigIdleEntry
  <2> QED
    BY <1>4, <2>1, <2>2 DEF ConfigIInv, ConfigComposed, ConfigAges
<1> QED
  BY <1>5, <1>6, <1>7, <1>8, <1>9 DEF ConfigIInv

\* A restart forgets the handlers, the cache and the lock, and loads what is stored.
LEMMA ConfigRestartKeeps ==
    ASSUME ConfigIInv, Config!Restart
    PROVE  ConfigIInv'
<1>1. /\ \A t \in Task : task'[t] = Config!Idle
      /\ task' = [t \in Task |-> task'[t]]
      /\ UNCHANGED <<stored, clock, issued, faults, intended, since>>
      /\ live' = Config!Loaded(stored) /\ cache' = None /\ unsure' = unsure \ Config!InMemory
  BY DEF Config!Restart
<1>2. ConfigTables'
  BY <1>1, ConfigIdleEntry DEF ConfigIInv, ConfigTables, ConfigEntry, Config!Loaded
<1>3. ConfigTasks'
  BY <1>1, ConfigIdleEntry DEF ConfigTasks, ConfigPlaced, ConfigLocks, ConfigCurrent
<1>4. ConfigAlone' /\ ConfigInForce'
  BY <1>1, ConfigIdleEntry DEF ConfigAlone, ConfigInForce, Config!Busy
<1>5. ConfigComposed'
  BY <1>1 DEF ConfigIInv, ConfigComposed, ConfigRecords, Config!InMemory
<1>6. ConfigAges'
  BY <1>1, ConfigIdleEntry DEF ConfigAges
<1> QED
  BY <1>2, <1>3, <1>4, <1>5, <1>6 DEF ConfigIInv

\* Time passes when no answer of a query is in hand.
LEMMA ConfigTickKeeps ==
    ASSUME ConfigIInv, Config!Tick
    PROVE  ConfigIInv'
<1>1. /\ UNCHANGED <<stored, live, cache, writer, task, issued, faults, restarts, intended, since, unsure>>
      /\ clock' = clock + 1 /\ clock \in Nat /\ \A t \in Task : task[t].at # "fill"
  BY DEF Config!Tick, ConfigIInv, ConfigTables
<1>2. ConfigTables' /\ ConfigAlone' /\ ConfigComposed'
  BY <1>1 DEF ConfigIInv, ConfigTables, ConfigAlone, ConfigComposed, Config!Busy
<1>3. ConfigTasks'
  BY <1>1 DEF ConfigIInv, ConfigTasks, ConfigCurrent
<1>4. ConfigInForce'
  BY <1>1 DEF ConfigIInv, ConfigInForce, Config!Busy, Config!Loaded
<1>5. ConfigAges'
  BY <1>1 DEF ConfigIInv, ConfigAges, ConfigAged
<1> QED
  BY <1>2, <1>3, <1>4, <1>5 DEF ConfigIInv
-----------------------------------------------------------------------------
(* The steps that store.                                                   *)

\* A save that storage executes, whether it says so or not.
LEMMA ConfigStores ==
    ASSUME Config!CommandsKnown, None \notin Nat, ConfigIInv, NEW t \in Task, task[t].at = "save", Config!Executes(t),
           NEW r, task' = [task EXCEPT ![t] = r],
           ConfigEntry(r), ConfigPlaced(r), ConfigLocks(r) => writer' = t, r.at \in {"idle", "refresh", "use"},
           r.at # "idle" => r.cmd = task[t].cmd /\ r.snap = task[t].snap,
           task[t].cmd.key = "classifier" => r.at = "use" \/ "classifier" \in unsure',
           \A s \in Task \ {t} : writer = s => writer' = s,
           UNCHANGED <<live, cache, clock>>, unsure \subseteq unsure', faults' \in Nat
    PROVE  ConfigIInv'
<1>1. PICK k, c, new : /\ c = task[t].cmd /\ k = c.key
                       /\ new = IF c.what = "erase" THEN {} ELSE task[t].snap
  OBVIOUS
<1>2. /\ c \in Command /\ k \in Config!Keys /\ t \in Config!Busy(k)
      /\ c.what = "erase" => k = "user"
  BY <1>1 DEF ConfigIInv, ConfigTables, ConfigEntry, Config!CommandsKnown, Config!Busy
<1>3. /\ task' = [s \in Task |-> task'[s]] /\ task'[t] = r
      /\ \A s \in Task \ {t} : task'[s] = task[s]
  BY ConfigOneEntry DEF ConfigIInv
<1>4. /\ stored' = [stored EXCEPT ![k] = new]
      /\ intended' = [intended EXCEPT ![k] = Config!Changed(c, @)]
      /\ since' = IF k # "access" THEN since
                  ELSE [u \in ConfigUser |-> IF <<"configurer", u>> \in new THEN None
                                             ELSE IF <<"configurer", u>> \in stored[k] THEN clock ELSE since[u]]
  BY <1>1 DEF Config!Executes
<1>5. /\ stored' = [j \in Config!Keys |-> stored'[j]] /\ stored'[k] = new
      /\ \A j \in Config!Keys \ {k} : stored'[j] = stored[j]
      /\ intended' = [j \in Config!Keys |-> intended'[j]] /\ intended'[k] = Config!Changed(c, intended[k])
      /\ \A j \in Config!Keys \ {k} : intended'[j] = intended[j]
  BY <1>2, <1>4 DEF ConfigIInv, ConfigTables
<1>6. ConfigTables'
  <2>1. since' \in [ConfigUser -> Nat \cup {None}]
    BY <1>4 DEF ConfigIInv, ConfigTables
  <2> QED
    BY <1>3, <1>5, <2>1 DEF ConfigIInv, ConfigTables, ConfigEntry
<1>7. ConfigComposed'
  <2>1. k \in {"access"} \cup (ConfigRecords \ unsure) => new = Config!Changed(c, stored[k])
    <3>1. c.what = "erase" => Config!Changed(c, stored[k]) = {}
      BY <1>1, <1>2 DEF Config!Changed, Config!CommandsKnown
    <3> QED
      BY <1>1, <3>1 DEF ConfigIInv, ConfigTasks, ConfigCurrent
  <2> QED
    BY <1>2, <1>5, <2>1 DEF ConfigIInv, ConfigComposed, ConfigRecords, Config!Keys
<1>8. ConfigTasks'
  <2> SUFFICES ASSUME NEW s \in Task
               PROVE  ConfigPlaced(task'[s]) /\ ConfigCurrent(task[s])' /\ (ConfigLocks(task'[s]) => writer' = s)
    BY DEF ConfigTasks, ConfigPlaced, ConfigLocks
  <2>1. CASE s = t
    <3>1. r.at = "refresh" => k = "access" /\ new = r.snap
      BY <1>1, <1>2 DEF ConfigPlaced
    <3>2. r.at = "use" => k = "classifier" /\ new = r.snap
      BY <1>1, <1>2 DEF ConfigPlaced
    <3>3. ConfigCurrent(task[s])'
      BY <1>3, <1>5, <2>1, <3>1, <3>2 DEF ConfigCurrent
    <3> QED
      BY <1>3, <2>1, <3>3
  <2>2. CASE s # t
    <3>1. PICK e : e = task[s] /\ e = task'[s]
      BY <1>3, <2>2
    <3>2. ConfigPlaced(e) /\ ConfigCurrent(e) /\ (ConfigLocks(e) => writer = s)
      BY <3>1 DEF ConfigIInv, ConfigTasks
    <3>3. ~(ConfigLocks(e) /\ k = "access")
      BY <1>1, <2>2, <3>2 DEF ConfigIInv, ConfigTasks, ConfigLocks
    <3>4. e.at # "idle" /\ k \notin unsure => e.cmd.key # k
      BY <1>2, <2>2, <3>1 DEF ConfigIInv, ConfigAlone, Config!Busy
    <3>5. e.at # "idle" => e.cmd \in Command /\ e.cmd.key \in Config!Keys
      BY <3>1 DEF ConfigIInv, ConfigTables, ConfigEntry, Config!CommandsKnown
    <3>6. stored'["access"] = stored["access"] \/ ~ConfigLocks(e)
      BY <1>5, <3>3 DEF Config!Keys
    <3>7. e.at = "save" /\ e.cmd.key \in ConfigRecords \ unsure => stored'[e.cmd.key] = stored[e.cmd.key]
      BY <1>5, <3>4, <3>5
    <3>8. e.at = "use" /\ "classifier" \notin unsure => stored'["classifier"] = stored["classifier"]
      BY <1>5, <3>2, <3>4 DEF ConfigPlaced, Config!Keys
    <3>9. ConfigCurrent(task[s])'
      BY <3>1, <3>2, <3>6, <3>7, <3>8 DEF ConfigCurrent, ConfigLocks
    <3> QED
      BY <2>2, <3>1, <3>2, <3>9
  <2> QED
    BY <2>1, <2>2
<1>9. ConfigAlone'
  BY <1>1, <1>3 DEF ConfigIInv, ConfigAlone, Config!Busy
<1>10. ConfigInForce'
  <2> SUFFICES ASSUME NEW j \in Config!InMemory \ unsure'
               PROVE  live[j] = Config!Loaded(stored')[j] \/ \E s \in Config!Busy(j)' : task'[s].at \in ConfigBetween
    BY DEF ConfigInForce
  <2>1. CASE j # k
    <3>1. Config!Loaded(stored')[j] = Config!Loaded(stored)[j]
      BY <1>5, <2>1 DEF Config!Loaded, Config!InMemory, Config!Keys
    <3>2. \A s \in Config!Busy(j) : s \in Config!Busy(j)' /\ task'[s] = task[s]
      BY <1>1, <1>3, <2>1 DEF Config!Busy
    <3> QED
      BY <3>1, <3>2 DEF ConfigIInv, ConfigInForce
  <2>2. CASE j = k /\ k = "ceiling"
    <3>1. new = live["ceiling"] /\ new \in Nat \ {0}
      BY <1>1, <1>2, <2>2 DEF ConfigIInv, ConfigTasks, ConfigCurrent
    <3> QED
      BY <1>5, <2>2, <3>1 DEF Config!Loaded, Config!LoadedCeiling, Config!InMemory
  <2>3. CASE j = k /\ k = "classifier"
    BY <1>1, <1>3, <2>3 DEF Config!Busy, ConfigBetween
  <2> QED
    BY <2>1, <2>2, <2>3 DEF Config!InMemory
<1>11. ConfigAges'
  <2>1. ASSUME NEW snap, NEW time, time \in Nat, time <= clock, ConfigAged(snap, time)
        PROVE  ConfigAged(snap, time)'
    <3>1. CASE k # "access"
      BY <1>4, <1>5, <2>1, <3>1 DEF ConfigAged, Config!Keys
    <3>2. CASE k = "access"
      BY <1>4, <1>5, <2>1, <3>2 DEF ConfigAged, ConfigIInv, ConfigTables
    <3> QED
      BY <3>1, <3>2
  <2>2. \A s \in Task : task'[s].at = "fill" => task'[s] = task[s]
    BY <1>3
  <2>3. clock \in Nat
    BY DEF ConfigIInv, ConfigTables
  <2> QED
    BY <2>1, <2>2, <2>3 DEF ConfigIInv, ConfigAges
<1> QED
  BY <1>6, <1>7, <1>8, <1>9, <1>10, <1>11 DEF ConfigIInv
\* A save that is answered.
LEMMA ConfigSaveKeeps ==
    ASSUME Config!CommandsKnown, None \notin Nat, ConfigIInv, NEW t \in Task, Config!Save(t)
    PROVE  ConfigIInv'
<1>1. PICK c : c = task[t].cmd
  OBVIOUS
<1>2. /\ task[t].at = "save" /\ ConfigEntry(task[t]) /\ c \in Command /\ faults \in Nat
      /\ c.key = "access" => writer = t
  BY <1>1 DEF Config!Save, ConfigIInv, ConfigTables, ConfigEntry, ConfigTasks, ConfigLocks
<1>3. PICK r : /\ task' = [task EXCEPT ![t] = r]
               /\ r = IF Config!NextStep(c) = "idle" THEN Config!Idle ELSE [task[t] EXCEPT !.at = Config!NextStep(c)]
  BY <1>1, <1>2 DEF Config!Save, ConfigIInv, ConfigTables
<1>4. \/ r = Config!Idle /\ c.key \notin {"access", "classifier"}
      \/ r = [task[t] EXCEPT !.at = "refresh"] /\ c.key = "access"
      \/ r = [task[t] EXCEPT !.at = "use"] /\ c.key = "classifier"
  BY <1>2, <1>3 DEF Config!NextStep, Config!CommandsKnown, Config!Keys
<1>5. CASE r = Config!Idle /\ c.key \notin {"access", "classifier"}
  BY <1>1, <1>2, <1>3, <1>5, ConfigIdleEntry, ConfigStores DEF Config!Save
<1>6. ASSUME NEW at \in {"refresh", "use"}, r = [task[t] EXCEPT !.at = at],
             at = "refresh" => c.key = "access", at = "use" => c.key = "classifier"
      PROVE  ConfigIInv'
  <2>1. r.at = at /\ r.cmd = c /\ r.by = task[t].by /\ r.snap = task[t].snap /\ ConfigEntry(r)
    BY <1>1, <1>2, <1>6 DEF ConfigEntry
  <2>2. ConfigPlaced(r) /\ (ConfigLocks(r) => writer = t)
    BY <1>2, <1>6, <2>1 DEF ConfigPlaced, ConfigLocks
  <2>3. c.key = "classifier" => r.at = "use"
    BY <1>6, <2>1
  <2> QED
    BY <1>1, <1>2, <1>3, <2>1, <2>2, <2>3, ConfigStores DEF Config!Save
<1> QED
  BY <1>4, <1>5, <1>6

\* A save that fails, before or after storage has executed it.
LEMMA ConfigSaveFailsKeeps ==
    ASSUME Config!CommandsKnown, None \notin Nat, None \notin Task, ConfigIInv, NEW t \in Task, Config!SaveFails(t)
    PROVE  ConfigIInv'
<1>1. /\ task[t].at = "save" /\ task' = [task EXCEPT ![t] = Config!Idle] /\ faults' \in Nat
      /\ unsure \subseteq unsure' /\ (task[t].cmd.key \in Config!InMemory => task[t].cmd.key \in unsure')
      /\ \A s \in Task \ {t} : writer = s => writer' = s
      /\ UNCHANGED <<live, cache, clock, issued, restarts>>
  BY DEF Config!SaveFails, Config!Fail, Config!Unlocked, ConfigIInv, ConfigTables
<1>2. CASE Config!Executes(t)
  BY <1>1, <1>2, ConfigIdleEntry, ConfigStores DEF Config!InMemory
<1>3. CASE UNCHANGED <<stored, intended, since>>
  <2>1. /\ task' = [s \in Task |-> task'[s]] /\ task'[t] = Config!Idle
        /\ \A s \in Task \ {t} : task'[s] = task[s]
    BY <1>1, ConfigOneEntry DEF ConfigIInv
  <2>2. ConfigAlone'
    BY <1>1, <1>3, <2>1, ConfigIdleEntry DEF ConfigIInv, ConfigAlone, Config!Busy
  <2>6. ConfigComposed'
    BY <1>1, <1>3 DEF ConfigIInv, ConfigComposed
  <2>7. ConfigTables'
    <3>1. \A s \in Task : ConfigEntry(task'[s])
      BY <2>1, ConfigIdleEntry DEF ConfigIInv, ConfigTables
    <3> QED
      BY <1>1, <1>3, <2>1, <3>1 DEF ConfigIInv, ConfigTables
  <2>3. ConfigTasks'
    <3> SUFFICES ASSUME NEW s \in Task
                 PROVE  ConfigPlaced(task'[s]) /\ ConfigCurrent(task[s])' /\ (ConfigLocks(task'[s]) => writer' = s)
      BY DEF ConfigTasks, ConfigPlaced, ConfigLocks
    <3>1. PICK e : e = task'[s]
      OBVIOUS
    <3>2. ConfigPlaced(e) /\ ConfigCurrent(e) /\ (ConfigLocks(e) => writer' = s)
      BY <1>1, <2>1, <3>1, ConfigIdleEntry DEF ConfigIInv, ConfigTasks
    <3>3. ConfigCurrent(task[s])'
      BY <1>1, <1>3, <3>1, <3>2 DEF ConfigCurrent
    <3> QED
      BY <3>1, <3>2, <3>3
  <2>4. ConfigInForce'
    <3> SUFFICES ASSUME NEW j \in Config!InMemory \ unsure'
                 PROVE  live[j] = Config!Loaded(stored)[j] \/ \E s \in Config!Busy(j)' : task'[s].at \in ConfigBetween
      BY <1>1, <1>3 DEF ConfigInForce, Config!Loaded
    <3>1. \A s \in Config!Busy(j) : s \in Config!Busy(j)' /\ task'[s] = task[s]
      BY <1>1, <2>1 DEF Config!Busy
    <3> QED
      BY <1>1, <3>1 DEF ConfigIInv, ConfigInForce
  <2>5. ConfigAges'
    <3>1. \A snap, time : ConfigAged(snap, time) => ConfigAged(snap, time)'
      BY <1>3 DEF ConfigAged
    <3>2. \A s \in Task : task'[s].at = "fill" => task'[s] = task[s]
      BY <2>1, ConfigIdleEntry
    <3> QED
      BY <1>1, <3>1, <3>2 DEF ConfigIInv, ConfigAges
  <2> QED
    BY <2>2, <2>3, <2>4, <2>5, <2>6, <2>7 DEF ConfigIInv
<1> QED
  BY <1>2, <1>3 DEF Config!SaveFails
-----------------------------------------------------------------------------
\* None names no handler and is no number.
LEMMA ConfigInitInv ==
    ASSUME Config!Init
    PROVE  ConfigIInv
<1>1. PICK n \in Ceilings : stored = [k \in Config!Keys |-> CASE k = "ceiling" -> n [] k = "classifier" -> "off"
                                         [] k = "access" -> {<<"configurer", u>> : u \in Delegates}
                                         [] OTHER -> {}]
  BY DEF Config!Init
<1>2. \A t \in Task : task[t] = Config!Idle
  BY DEF Config!Init
<1>3. ConfigTables
  BY <1>1, <1>2, ConfigIdleEntry DEF Config!Init, ConfigTables, Config!Loaded, ConfigEntry
<1>4. ConfigTasks /\ ConfigAlone /\ ConfigInForce /\ ConfigAges
  BY <1>2, ConfigIdleEntry DEF Config!Init, ConfigTasks, ConfigAlone, ConfigInForce, Config!Busy, ConfigAges
<1>5. ConfigComposed
  BY DEF Config!Init, ConfigComposed
<1> QED
  BY <1>3, <1>4, <1>5 DEF ConfigIInv

LEMMA ConfigStepInv ==
    ASSUME Config!ConfigurationAssumption, ConfigIInv, [Config!Next]_Config!vars
    PROVE  ConfigIInv'
<1>1. Config!CommandsKnown /\ None \notin Nat /\ None \notin Task
  BY DEF Config!ConfigurationAssumption
<1>2. CASE Config!Next
  BY <1>1, <1>2, ConfigReceiveKeeps, ConfigLoadKeeps, ConfigFetchKeeps, ConfigLockKeeps,
     ConfigReloadKeeps, ConfigReloadFailsKeeps, ConfigRefreshKeeps,
     ConfigLoadRecordKeeps, ConfigApplyCeilingKeeps, ConfigReadCeilingKeeps,
     ConfigApplyClassifierKeeps, ConfigSaveKeeps,
     ConfigSaveFailsKeeps, ConfigRestartKeeps, ConfigTickKeeps DEF Config!Next
<1>3. CASE UNCHANGED Config!vars
  <2>1. UNCHANGED <<stored, live, cache, writer, task, clock, faults, intended, since, unsure>>
    BY <1>3 DEF Config!vars
  <2>2. ConfigTables' /\ ConfigComposed'
    BY <2>1 DEF ConfigIInv, ConfigTables, ConfigComposed
  <2>3. ConfigAlone'
    BY <2>1 DEF ConfigIInv, ConfigAlone, Config!Busy
  <2>4. ConfigTasks'
    BY <2>1 DEF ConfigIInv, ConfigTasks, ConfigCurrent
  <2>5. ConfigInForce'
    BY <2>1 DEF ConfigIInv, ConfigInForce, Config!Loaded, Config!Busy
  <2>6. ConfigAges'
    BY <2>1 DEF ConfigIInv, ConfigAges, ConfigAged
  <2> QED
    BY <2>2, <2>3, <2>4, <2>5, <2>6 DEF ConfigIInv
<1> QED
  BY <1>2, <1>3

-----------------------------------------------------------------------------
LEMMA ConfigSafe ==
    ASSUME ConfigIInv
    PROVE  Config!ChangesCompose
  BY DEF ConfigIInv, ConfigComposed, ConfigInForce, Config!ChangesCompose, ConfigRecords

-----------------------------------------------------------------------------
(* The readers of the access record.                                       *)

\* A judgement by a snapshot that is as old as `time' lets nobody in who ceased to
\* be a configurer before that.
LEMMA ConfigJudgedByAged ==
    ASSUME ConfigTables, NEW t \in Task, NEW access, Config!Judge(t, access), task'[t].at # "idle",
           task[t].at # "idle", NEW time, ConfigAged(access, time),
           ~Config!May(task[t].cmd, task[t].by, {}), <<"configurer", task[t].by>> \notin stored["access"]
    PROVE  since[task[t].by] \in Nat /\ since[task[t].by] >= time
<1>1. PICK r : /\ task' = [task EXCEPT ![t] = r]
               /\ ~Config!May(task[t].cmd, task[t].by, access) => r = Config!Idle
  BY ConfigJudged
<1>2. task'[t] = r
  BY <1>1, ConfigOneEntry
<1>3. Config!May(task[t].cmd, task[t].by, access)
  BY <1>1, <1>2, ConfigIdleEntry
<1>4. <<"configurer", task[t].by>> \in access
  BY <1>3 DEF Config!May, Config!MayServer, Config!MayEffort, Config!MayConfigure, Config!IsConfigurer
<1>5. task[t].by \in ConfigUser
  BY DEF ConfigTables, ConfigEntry
<1> QED
  BY <1>4, <1>5 DEF ConfigAged

\* Nobody leaves the load but by a judgement.
LEMMA ConfigLeavesLoad ==
    ASSUME ConfigTables, [Config!Next]_Config!vars, NEW t \in Task, task[t].at \in {"access", "fill"},
           task'[t].at \notin {"idle", "access", "fill"}
    PROVE  Config!UseCache(t) \/ Config!Fill(t) \/ Config!FetchFails(t)
<1>1. task' # task
  OBVIOUS
<1>2. CASE Config!Restart
  BY <1>2, ConfigIdleEntry DEF Config!Restart
<1>3. CASE Config!Tick
  BY <1>1, <1>3 DEF Config!Tick
<1>4. ASSUME NEW s \in Task, s # t, NEW r, task' = [task EXCEPT ![s] = r]
      PROVE  FALSE
  BY <1>4, ConfigOneEntry
<1>5. ASSUME NEW s \in Task, Config!UseCache(s) \/ Config!Fill(s) \/ Config!FetchFails(s)
      PROVE  s = t
  <2>1. PICK access : Config!Judge(s, access)
    BY <1>5 DEF Config!UseCache, Config!Fill, Config!FetchFails
  <2>2. PICK r : task' = [task EXCEPT ![s] = r]
    BY <2>1, ConfigJudged
  <2> QED
    BY <1>4, <2>2
<1>6. ASSUME NEW s \in Task, Config!Receive(s)
      PROVE  FALSE
  <2>1. PICK r : task' = [task EXCEPT ![s] = r]
    BY <1>6 DEF Config!Receive, Config!Proceed
  <2> QED
    BY <1>4, <1>6, <2>1 DEF Config!Receive
<1>7. ASSUME NEW s \in Task, Config!Fetch(s)
      PROVE  FALSE
  <2>1. PICK r : r = [task[s] EXCEPT !.at = "fill", !.snap = stored["access"]]
    OBVIOUS
  <2>2. task' = [task EXCEPT ![s] = r]
    BY <1>7, <2>1 DEF Config!Fetch, ConfigTables
  <2>3. s = t /\ task'[t] = r
    BY <1>4, <2>2, ConfigOneEntry
  <2>8. task[t] = [at |-> task[t].at, cmd |-> task[t].cmd, by |-> task[t].by, snap |-> task[t].snap]
    BY DEF ConfigTables, ConfigEntry
  <2>4. PICK a, c, b, x : task[t] = [at |-> a, cmd |-> c, by |-> b, snap |-> x]
    BY <2>8, Zenon
  <2>5. [task[t] EXCEPT !.at = "fill"] = [at |-> "fill", cmd |-> c, by |-> b, snap |-> x]
    BY <2>4
  <2>6. r = [[task[t] EXCEPT !.at = "fill"] EXCEPT !.snap = stored["access"]]
    BY <2>1, <2>3, <2>4
  <2>7. r.at = "fill"
    BY <2>5, <2>6
  <2> QED
    BY <2>3, <2>7
<1>8. ASSUME NEW s \in Task,
             Config!Lock(s) \/ Config!Reload(s) \/ Config!ReloadFails(s) \/ Config!Refresh(s) \/ Config!LoadRecord(s) \/ Config!LoadRecordFails(s)
             \/ Config!ApplyCeiling(s) \/ Config!ReadCeiling(s) \/ Config!ApplyClassifier(s) \/ Config!Save(s) \/ Config!SaveFails(s)
      PROVE  FALSE
  <2>1. task[s].at \notin {"access", "fill"}
    BY <1>8 DEF Config!Lock, Config!Reload, Config!ReloadFails, Config!Refresh, Config!LoadRecord,
       Config!LoadRecordFails, Config!ApplyCeiling,
                Config!ReadCeiling, Config!ApplyClassifier, Config!Save, Config!SaveFails
  <2>2. \E r : task' = [task EXCEPT ![s] = r]
    BY <1>8 DEF Config!Lock, Config!Reload, Config!ReloadFails, Config!Refresh, Config!LoadRecord,
       Config!LoadRecordFails, Config!ApplyCeiling,
                Config!ReadCeiling, Config!ApplyClassifier, Config!Save, Config!SaveFails
  <2> QED
    BY <1>4, <2>1, <2>2
<1> QED
  BY <1>1, <1>2, <1>3, <1>5, <1>6, <1>7, <1>8 DEF Config!Next, Config!vars

LEMMA ConfigRevocationHolds ==
    ASSUME Config!ConfigurationAssumption, ConfigIInv, [Config!Next]_Config!vars
    PROVE  Config!RevocationStep
<1> SUFFICES ASSUME NEW t \in Task, task[t].at \in {"access", "fill"},
                    task'[t].at \notin {"idle", "access", "fill"},
                    ~Config!May(task[t].cmd, task[t].by, {}), <<"configurer", task[t].by>> \notin stored["access"]
             PROVE  since[task[t].by] # None /\ (faults' > 0 \/ clock - since[task[t].by] < TTL)
  BY DEF Config!RevocationStep
<1>1. ConfigTables /\ clock \in Nat /\ faults \in Nat /\ None \notin Nat /\ TTL \in Nat \ {0}
  BY DEF ConfigIInv, ConfigTables, Config!ConfigurationAssumption
<1>2. Config!UseCache(t) \/ Config!Fill(t) \/ Config!FetchFails(t)
  BY <1>1, ConfigLeavesLoad
<1>3. CASE Config!UseCache(t)
  <2>1. cache.at \in Nat /\ clock - cache.at < TTL /\ ConfigAged(cache.snap, cache.at) /\ Config!Judge(t, cache.snap)
    BY <1>3 DEF Config!UseCache, Config!Fresh, ConfigIInv, ConfigAges
  <2>2. since[task[t].by] \in Nat /\ since[task[t].by] >= cache.at
    BY <1>1, <2>1, ConfigJudgedByAged
  <2> QED
    BY <1>1, <2>1, <2>2
<1>4. CASE Config!Fill(t)
  <2>1. ConfigAged(task[t].snap, clock) /\ Config!Judge(t, task[t].snap)
    BY <1>4 DEF Config!Fill, ConfigIInv, ConfigAges
  <2>2. since[task[t].by] \in Nat /\ since[task[t].by] >= clock
    BY <1>1, <2>1, ConfigJudgedByAged
  <2> QED
    BY <1>1, <2>2
<1>5. CASE Config!FetchFails(t)
  <2>1. PICK access : access = (IF cache = None THEN {} ELSE cache.snap)
    OBVIOUS
  <2>2. Config!Judge(t, access) /\ faults' = faults + 1
    BY <1>5, <2>1 DEF Config!FetchFails, Config!Fail
  <2>3. PICK time : ConfigAged(access, time)
    BY <2>1 DEF ConfigIInv, ConfigAges, ConfigAged
  <2>4. since[task[t].by] \in Nat
    BY <1>1, <2>2, <2>3, ConfigJudgedByAged
  <2> QED
    BY <1>1, <2>2, <2>4
<1> QED
  BY <1>2, <1>3, <1>4, <1>5

(***************************************************************************)
(* Reminders.                                                              *)
(***************************************************************************)
\* A writer's entry, by who it is and where it stands.
RemEntry(j, r) ==
    /\ r = [at |-> r.at, kind |-> r.kind, what |-> r.what, held |-> r.held, send |-> r.send]
    /\ r.at \in {"idle", "load", "open", "write", "send"}
    /\ r.at # "idle" => r.kind \in (IF j = Rem!Loop THEN {"pop"} ELSE {"add", "erase"})
    /\ r.at = "send" => j = Rem!Loop
    /\ r.at # "idle" /\ r.kind = "add" => r.what \in Reminder
    /\ r.held \subseteq Reminder /\ r.send \subseteq Reminder
    /\ r.at \in {"idle", "load"} => r.send = {}
    /\ r.at \in {"open", "write"} =>
          /\ r.kind = "add" => r.what \in r.held
          /\ r.kind = "erase" => \A x \in r.held : OwnerOf(x) # r.what
          /\ r.kind = "pop" => \A x \in r.send : x \notin r.held
RemTables == /\ job = [j \in Rem!Jobs |-> job[j]] /\ \A j \in Rem!Jobs : RemEntry(j, job[j])
             /\ status = [r \in Reminder |-> status[r]]
             /\ due \in [Reminder -> Nat] /\ clock \in Nat
             /\ Rem!Whole => file \subseteq Reminder

RemAdds(j, x) == job[j].at # "idle" /\ job[j].kind = "add" /\ job[j].what = x
RemHolds(j, x) == job[j].at \in {"open", "write"} /\ x \in job[j].held
RemSending(x) == job[Rem!Loop].at = "send" /\ x \in job[Rem!Loop].send

\* A reminder on its way, whatever its risk: sent in its time, added once, and
\* nowhere before.
RemOnItsWay(x) ==
    /\ status[x] = "sent" \/ x \in job[Rem!Loop].send => due[x] <= clock
    /\ \A j \in Rem!Jobs : RemAdds(j, x) => status[x] = "asked" /\ \A i \in Rem!Jobs : RemAdds(i, x) => i = j
    /\ status[x] \in {"new", "asked"} =>
          /\ x \notin job[Rem!Loop].send
          /\ Rem!Whole => x \notin file
          /\ \A j \in Rem!Jobs : RemHolds(j, x) => RemAdds(j, x)

\* One that is not at risk: whoever has a list in hand has it there while it is
\* confirmed, and nobody once it is out of the file.
RemKept(x) ==
       /\ x \notin wrong
       /\ Rem!Whole /\ x \in file => status[x] = "set"
       /\ \A j \in Rem!Jobs : RemHolds(j, x) => status[x] = "set" \/ RemAdds(j, x)
       /\ x \in job[Rem!Loop].send => status[x] = "set"
       /\ RemSending(x) => /\ Rem!Whole => x \notin file
                           /\ \A j \in Rem!Jobs : ~RemHolds(j, x)
       /\ status[x] = "set" /\ ~RemSending(x) =>
             /\ Rem!Whole => x \in file
             /\ \A j \in Rem!Jobs : Rem!InFlight(j) => x \in job[j].held \/ x \in Rem!Touched(job[j])

RemTraced == \A x \in Reminder : RemOnItsWay(x)
RemAccounted == \A x \in Reminder \ unsure : RemKept(x)
RemIInv == RemTables /\ RemTraced /\ RemAccounted
-----------------------------------------------------------------------------
\* A step of one writer.
LEMMA RemOneEntry ==
    ASSUME RemTables, NEW j \in Rem!Jobs, NEW r, job' = [job EXCEPT ![j] = r]
    PROVE  job' = [i \in Rem!Jobs |-> job'[i]] /\ job'[j] = r /\ \A i \in Rem!Jobs \ {j} : job'[i] = job[i]
  BY DEF RemTables

\* What a tool call or an erase begins with.
LEMMA RemBeginning ==
    ASSUME NEW k, NEW w
    PROVE  [Rem!Idle EXCEPT !.at = "load", !.kind = k, !.what = w] =
              [at |-> "load", kind |-> k, what |-> w, held |-> {}, send |-> {}]
<1>1. PICK a, b, c : Rem!Idle = [at |-> a, kind |-> b, what |-> c, held |-> {}, send |-> {}]
  BY DEF Rem!Idle
<1>2. PICK y : y = [Rem!Idle EXCEPT !.at = "load"]
  OBVIOUS
<1>3. y = [at |-> "load", kind |-> b, what |-> c, held |-> {}, send |-> {}]
  BY <1>1, <1>2
<1>4. PICK z : z = [y EXCEPT !.kind = k]
  OBVIOUS
<1>5. z = [at |-> "load", kind |-> k, what |-> c, held |-> {}, send |-> {}]
  BY <1>3, <1>4
<1>6. [z EXCEPT !.what = w] = [at |-> "load", kind |-> k, what |-> w, held |-> {}, send |-> {}]
  BY <1>5
<1> QED
  BY <1>2, <1>4, <1>6

\* What the loop begins with.
LEMMA RemWaking ==
    [Rem!Idle EXCEPT !.at = "load", !.kind = "pop"] =
       [at |-> "load", kind |-> "pop", what |-> None, held |-> {}, send |-> {}]
<1>1. Rem!Idle = [at |-> "idle", kind |-> None, what |-> None, held |-> {}, send |-> {}]
  BY DEF Rem!Idle
<1>2. PICK y : y = [Rem!Idle EXCEPT !.at = "load"]
  OBVIOUS
<1>3. y = [at |-> "load", kind |-> None, what |-> None, held |-> {}, send |-> {}]
  BY <1>1, <1>2
<1>4. [y EXCEPT !.kind = "pop"] = [at |-> "load", kind |-> "pop", what |-> None, held |-> {}, send |-> {}]
  BY <1>3
<1> QED
  BY <1>2, <1>4

LEMMA RemIdleEntry == Rem!Idle.at = "idle" /\ Rem!Idle.send = {} /\ \A j \in Rem!Jobs : RemEntry(j, Rem!Idle)
  BY DEF Rem!Idle, RemEntry

\* What stands where in an entry, by the place alone.
LEMMA RemPlaces ==
    ASSUME NEW j
    PROVE  Rem!InFlight(j) <=> job[j].at \in {"open", "write"}
  BY DEF Rem!InFlight, Rem!Now

\* A writer begins: it has nothing in hand yet.
LEMMA RemBeginKeeps ==
    ASSUME RemIInv, NEW j \in Rem!Jobs, NEW r, Rem!Now(j) = "idle", Rem!Begin(j, r), RemEntry(j, r)', r.at = "load",
           status' = [x \in Reminder |-> status'[x]], due' \in [Reminder -> Nat], UNCHANGED <<file, clock, wrong, unsure>>,
           r.kind = "add" => status[r.what] = "new" /\ status'[r.what] = "asked",
           \A x \in Reminder : (status'[x] = status[x] /\ due'[x] = due[x]) \/ (r.kind = "add" /\ x = r.what)
    PROVE  RemIInv'
<1>1. /\ job' = [i \in Rem!Jobs |-> job'[i]] /\ job'[j] = r /\ \A i \in Rem!Jobs \ {j} : job'[i] = job[i]
  BY RemOneEntry DEF Rem!Begin, RemIInv
<1>2. RemTables'
  BY <1>1 DEF RemIInv, RemTables, RemEntry, Rem!Whole
<1>3. /\ Rem!Loop \in Rem!Jobs /\ job[j].at = "idle" /\ job[j].send = {} /\ r.send = {}
      /\ job'[Rem!Loop].send = job[Rem!Loop].send
  BY <1>1 DEF Rem!Jobs, RemIInv, RemTables, RemEntry, Rem!Now
<1>4. \A i \in Rem!Jobs : \A x : RemHolds(i, x)' <=> RemHolds(i, x)
  BY <1>1, <1>3 DEF RemHolds
<1>5. \A i \in Rem!Jobs : \A x : RemAdds(i, x)' <=> RemAdds(i, x) \/ (i = j /\ r.kind = "add" /\ x = r.what)
  BY <1>1, <1>3 DEF RemAdds
<1>6. \A x : RemSending(x)' <=> RemSending(x)
  BY <1>1, <1>3 DEF RemSending
<1>7. Rem!Whole' <=> Rem!Whole
  BY DEF Rem!Whole
<1>8. \A i \in Rem!Jobs : Rem!InFlight(i)' => Rem!InFlight(i) /\ job'[i] = job[i]
  BY <1>1 DEF Rem!InFlight, Rem!Now
<1>9. ASSUME NEW x \in Reminder
      PROVE  RemOnItsWay(x)'
  <2>1. RemOnItsWay(x)
    BY DEF RemIInv, RemTraced
  <2>2. CASE r.kind = "add" /\ x = r.what
    BY <1>3, <1>4, <1>5, <1>7, <2>1, <2>2 DEF RemOnItsWay
  <2>3. CASE ~(r.kind = "add" /\ x = r.what)
    BY <1>3, <1>4, <1>5, <1>7, <2>1, <2>3 DEF RemOnItsWay
  <2> QED
    BY <2>2, <2>3
<1>10. ASSUME NEW x \in Reminder, x \notin unsure'
       PROVE  RemKept(x)'
  <2>1. RemOnItsWay(x) /\ RemKept(x)
    BY <1>10 DEF RemIInv, RemTraced, RemAccounted
  <2>2. CASE r.kind = "add" /\ x = r.what
    BY <1>3, <1>4, <1>5, <1>6, <1>7, <2>1, <2>2 DEF RemOnItsWay, RemKept
  <2>3. CASE ~(r.kind = "add" /\ x = r.what)
    BY <1>3, <1>4, <1>5, <1>6, <1>7, <1>8, <2>1, <2>3 DEF RemKept
  <2> QED
    BY <2>2, <2>3
<1> QED
  BY <1>2, <1>9, <1>10 DEF RemIInv, RemTraced, RemAccounted

LEMMA RemSetReminderKeeps ==
    ASSUME Rem!RemindersAssumption, RemIInv, NEW j \in Writer, Rem!SetReminder(j)
    PROVE  RemIInv'
<1>1. PICK x \in Reminder, d \in Delay :
          /\ status[x] = "new" /\ d >= MinDelay
          /\ due' = [due EXCEPT ![x] = clock + d]
          /\ status' = [status EXCEPT ![x] = "asked"]
          /\ Rem!Begin(j, [Rem!Idle EXCEPT !.at = "load", !.kind = "add", !.what = x])
  BY DEF Rem!SetReminder
<1>2. PICK r : r = [at |-> "load", kind |-> "add", what |-> x, held |-> {}, send |-> {}]
  OBVIOUS
<1>8. r = [Rem!Idle EXCEPT !.at = "load", !.kind = "add", !.what = x]
  BY <1>2, RemBeginning
<1>3. Rem!Begin(j, r)
  BY <1>1, <1>8, Zenon
<1>4. j \in Rem!Jobs /\ j # Rem!Loop /\ d \in Nat
  BY <1>1 DEF Rem!Jobs, Rem!RemindersAssumption
<1>5. RemEntry(j, r)' /\ r.at = "load" /\ Rem!Now(j) = "idle"
  BY <1>2, <1>4 DEF RemEntry, Rem!SetReminder
<1>6. status' = [y \in Reminder |-> status'[y]] /\ due' \in [Reminder -> Nat]
  BY <1>1, <1>4 DEF RemIInv, RemTables
<1>7. /\ status[r.what] = "new" /\ status'[r.what] = "asked"
      /\ \A y \in Reminder : (status'[y] = status[y] /\ due'[y] = due[y]) \/ (r.kind = "add" /\ y = r.what)
  BY <1>1, <1>2 DEF RemIInv, RemTables
<1> QED
  BY <1>3, <1>4, <1>5, <1>6, <1>7, RemBeginKeeps DEF Rem!SetReminder

LEMMA RemEraseKeeps ==
    ASSUME Rem!RemindersAssumption, RemIInv, NEW j \in Writer, Rem!Erase(j)
    PROVE  RemIInv'
<1>1. PICK x \in Reminder : Rem!Begin(j, [Rem!Idle EXCEPT !.at = "load", !.kind = "erase", !.what = OwnerOf(x)])
  BY DEF Rem!Erase
<1>2. PICK r : r = [at |-> "load", kind |-> "erase", what |-> OwnerOf(x), held |-> {}, send |-> {}]
  OBVIOUS
<1>8. r = [Rem!Idle EXCEPT !.at = "load", !.kind = "erase", !.what = OwnerOf(x)]
  BY <1>2, RemBeginning
<1>3. Rem!Begin(j, r)
  BY <1>1, <1>8, Zenon
<1>4. j \in Rem!Jobs /\ j # Rem!Loop
  BY DEF Rem!Jobs, Rem!RemindersAssumption
<1>5. RemEntry(j, r)' /\ r.at = "load" /\ r.kind # "add" /\ Rem!Now(j) = "idle"
  BY <1>2, <1>4 DEF RemEntry, Rem!Erase
<1> QED
  BY <1>3, <1>4, <1>5, RemBeginKeeps DEF Rem!Erase, RemIInv, RemTables

LEMMA RemWakeKeeps ==
    ASSUME Rem!RemindersAssumption, RemIInv, Rem!Wake
    PROVE  RemIInv'
<1>2. PICK r : r = [at |-> "load", kind |-> "pop", what |-> None, held |-> {}, send |-> {}]
  OBVIOUS
<1>8. r = [Rem!Idle EXCEPT !.at = "load", !.kind = "pop"]
  BY <1>2, RemWaking
<1>3. Rem!Begin(Rem!Loop, r)
  BY <1>8, Zenon DEF Rem!Wake
<1>4. Rem!Loop \in Rem!Jobs
  BY DEF Rem!Jobs
<1>5. RemEntry(Rem!Loop, r)' /\ r.at = "load" /\ r.kind # "add" /\ Rem!Now(Rem!Loop) = "idle"
  BY <1>2, <1>4 DEF RemEntry, Rem!Wake
<1> QED
  BY <1>3, <1>4, <1>5, RemBeginKeeps DEF Rem!Wake, RemIInv, RemTables

-----------------------------------------------------------------------------
\* What is read: the file when it is whole, and otherwise nothing.
LEMMA RemTakeKeeps ==
    ASSUME RemIInv, NEW j \in Rem!Jobs, Rem!Now(j) = "load", NEW rs, NEW blind \in BOOLEAN, Rem!Take(j, rs, blind),
           (Rem!Whole /\ rs = file /\ ~blind) \/ (rs = {} /\ blind),
           UNCHANGED <<file, due, clock, status, wrong>>
    PROVE  RemIInv'
<1> DEFINE me == job[j]
           sent == IF me.kind = "pop" THEN Rem!Due(rs) ELSE {}
           none == me.kind = "pop" /\ sent = {}
<1>0. PICK r : /\ job' = [job EXCEPT ![j] = r]
               /\ none => r = Rem!Idle
               /\ ~none => r = [me EXCEPT !.at = "open", !.held = Rem!Back(me, rs), !.send = sent]
               /\ unsure' = IF blind /\ ~none THEN unsure \cup Rem!Confirmed ELSE unsure
  BY DEF Rem!Take
<1>1. me = [at |-> me.at, kind |-> me.kind, what |-> me.what, held |-> me.held, send |-> me.send]
      /\ me.at = "load" /\ me.send = {} /\ RemEntry(j, me) /\ me.kind \in {"add", "erase", "pop"} /\ Rem!Loop \in Rem!Jobs
  BY DEF RemIInv, RemTables, RemEntry, Rem!Now, Rem!Jobs
<1>2. ~none => r = [at |-> "open", kind |-> me.kind, what |-> me.what, held |-> Rem!Back(me, rs), send |-> sent]
  BY <1>0, <1>1
<1>3. /\ job' = [i \in Rem!Jobs |-> job'[i]] /\ job'[j] = r /\ \A i \in Rem!Jobs \ {j} : job'[i] = job[i]
  BY <1>0, RemOneEntry DEF RemIInv
<1>4. rs \subseteq Reminder /\ Rem!Due(rs) = {x \in rs : due[x] <= clock}
  BY DEF RemIInv, RemTables, Rem!Due
<1>5. /\ me.kind = "add" => Rem!Back(me, rs) = rs \cup {me.what}
      /\ me.kind = "erase" => Rem!Back(me, rs) = {x \in rs : OwnerOf(x) # me.what}
      /\ me.kind = "pop" => Rem!Back(me, rs) = rs \ Rem!Due(rs)
  BY DEF Rem!Back
<1>6. RemEntry(j, r)
  <2>1. CASE none
    BY <1>0, <2>1, RemIdleEntry
  <2>2. CASE ~none
    BY <1>1, <1>2, <1>4, <1>5, <2>2 DEF RemEntry
  <2> QED
    BY <2>1, <2>2
<1>7. RemTables'
  BY <1>3, <1>6 DEF RemIInv, RemTables, RemEntry, Rem!Whole
<1>8. /\ Rem!Whole' <=> Rem!Whole
      /\ j # Rem!Loop => job'[Rem!Loop] = job[Rem!Loop]
      /\ none => r.at = "idle" /\ r.send = {}
      /\ ~none => r.at = "open" /\ r.kind = me.kind /\ r.what = me.what /\ r.held = Rem!Back(me, rs) /\ r.send = sent
      /\ j = Rem!Loop <=> me.kind = "pop"
  BY <1>0, <1>1, <1>2, <1>3, RemIdleEntry DEF Rem!Whole, RemEntry
<1>9. ASSUME NEW x \in Reminder
      PROVE  RemOnItsWay(x)'
  <2>1. RemOnItsWay(x)
    BY DEF RemIInv, RemTraced
  <2>2. \A i \in Rem!Jobs : RemAdds(i, x)' <=> RemAdds(i, x)
    BY <1>1, <1>3, <1>8 DEF RemAdds
  <2>3. \A i \in Rem!Jobs \ {j} : RemHolds(i, x)' <=> RemHolds(i, x)
    BY <1>3 DEF RemHolds
  <2>4. x \in job'[Rem!Loop].send => x \in job[Rem!Loop].send \/ (x \in rs /\ due[x] <= clock)
    BY <1>3, <1>4, <1>8
  <2>5. RemHolds(j, x)' => x \in rs \/ RemAdds(j, x)
    BY <1>1, <1>3, <1>5, <1>8 DEF RemHolds, RemAdds
  <2>6. x \in rs => Rem!Whole /\ x \in file
    OBVIOUS
  <2> QED
    BY <1>8, <2>1, <2>2, <2>3, <2>4, <2>5, <2>6 DEF RemOnItsWay
<1>10. ASSUME NEW x \in Reminder, x \notin unsure'
       PROVE  RemKept(x)'
  <2>1. RemOnItsWay(x) /\ RemKept(x)
    BY <1>0, <1>10 DEF RemIInv, RemTraced, RemAccounted
  <2>2. \A i \in Rem!Jobs : RemAdds(i, x)' <=> RemAdds(i, x)
    BY <1>1, <1>3, <1>8 DEF RemAdds
  <2>3. \A i \in Rem!Jobs \ {j} : (RemHolds(i, x)' <=> RemHolds(i, x)) /\ (Rem!InFlight(i)' <=> Rem!InFlight(i))
    BY <1>3 DEF RemHolds, Rem!InFlight, Rem!Now
  <2>4. x \in job'[Rem!Loop].send => x \in job[Rem!Loop].send \/ x \in rs
    BY <1>3, <1>4, <1>8
  <2>5. RemHolds(j, x)' => x \in rs \/ RemAdds(j, x)
    BY <1>1, <1>3, <1>5, <1>8 DEF RemHolds, RemAdds
  <2>6. RemSending(x)' <=> RemSending(x)
    BY <1>1, <1>3, <1>8 DEF RemSending
  <2>7. RemSending(x) => ~RemHolds(j, x)'
    BY <1>1, <2>1, <2>5 DEF RemKept, RemOnItsWay, RemSending
  <2>8. ASSUME status[x] = "set", ~RemSending(x), Rem!InFlight(j)'
        PROVE  x \in job'[j].held \/ x \in Rem!Touched(job'[j])
    <3>1. ~none
      BY <1>3, <1>8, <2>8 DEF Rem!InFlight, Rem!Now
    <3>2. ~blind
      BY <1>0, <1>10, <2>8, <3>1 DEF Rem!Confirmed
    <3>3. x \in rs
      BY <2>1, <2>8, <3>2 DEF RemKept
    <3>4. CASE me.kind = "add"
      BY <1>3, <1>5, <1>8, <3>1, <3>3, <3>4
    <3>5. CASE me.kind = "erase"
      BY <1>3, <1>5, <1>8, <3>1, <3>3, <3>5 DEF Rem!Touched
    <3>6. CASE me.kind = "pop"
      BY <1>3, <1>5, <1>8, <3>1, <3>3, <3>6 DEF Rem!Touched
    <3> QED
      BY <1>1, <3>4, <3>5, <3>6
  <2> QED
    BY <1>3, <1>8, <2>1, <2>2, <2>3, <2>4, <2>5, <2>6, <2>7, <2>8 DEF RemKept
<1> QED
  BY <1>7, <1>9, <1>10 DEF RemIInv, RemTraced, RemAccounted

LEMMA RemLoadKeeps ==
    ASSUME RemIInv, NEW j \in Rem!Jobs, Rem!Load(j)
    PROVE  RemIInv'
<1>1. Rem!Take(j, Rem!Loaded, ~Rem!Whole) /\ Rem!Now(j) = "load" /\ UNCHANGED <<file, due, clock, status, wrong>>
  BY DEF Rem!Load
<1>2. CASE Rem!Whole
  BY <1>1, <1>2, RemTakeKeeps DEF Rem!Loaded
<1>3. CASE ~Rem!Whole
  BY <1>1, <1>3, RemTakeKeeps DEF Rem!Loaded
<1> QED
  BY <1>2, <1>3

LEMMA RemReadFailsKeeps ==
    ASSUME RemIInv, NEW j \in Rem!Jobs, Rem!ReadFails(j)
    PROVE  RemIInv'
  BY RemTakeKeeps DEF Rem!ReadFails

LEMMA RemOpenKeeps ==
    ASSUME Rem!RemindersAssumption, RemIInv, NEW j \in Rem!Jobs, Rem!Open(j)
    PROVE  RemIInv'
<1> DEFINE me == job[j]
<1>1. PICK r : /\ job' = [job EXCEPT ![j] = r] /\ r = [me EXCEPT !.at = "write"]
  BY DEF Rem!Open, RemIInv, RemTables
<1>2. me = [at |-> me.at, kind |-> me.kind, what |-> me.what, held |-> me.held, send |-> me.send] /\ me.at = "open"
      /\ Rem!Loop \in Rem!Jobs
  BY DEF RemIInv, RemTables, RemEntry, Rem!Open, Rem!Now, Rem!Jobs
<1>3. r = [at |-> "write", kind |-> me.kind, what |-> me.what, held |-> me.held, send |-> me.send]
  BY <1>1, <1>2
<1>4. file' = Torn /\ UNCHANGED <<due, clock, status, wrong, unsure>>
  BY DEF Rem!Open
<1>5. /\ job' = [i \in Rem!Jobs |-> job'[i]] /\ job'[j] = r /\ \A i \in Rem!Jobs \ {j} : job'[i] = job[i]
  BY <1>1, RemOneEntry DEF RemIInv
<1>6. ~Rem!Whole'
  BY <1>4 DEF Rem!Whole
<1>7. RemEntry(j, r)
  <2>1. RemEntry(j, me)
    BY DEF RemIInv, RemTables
  <2> QED
    BY <1>2, <1>3, <2>1 DEF RemEntry
<1>8. RemTables'
  BY <1>4, <1>5, <1>6, <1>7 DEF RemIInv, RemTables, RemEntry
<1>12. r.at = "write" /\ r.kind = me.kind /\ r.what = me.what /\ r.held = me.held /\ r.send = me.send
  BY <1>3
<1>13. \A i \in Rem!Jobs : /\ job'[i].send = job[i].send /\ job'[i].held = job[i].held
                          /\ job'[i].kind = job[i].kind /\ job'[i].what = job[i].what
                          /\ (job'[i].at \in {"open", "write"} <=> job[i].at \in {"open", "write"})
                          /\ (job'[i].at = "idle" <=> job[i].at = "idle")
                          /\ (job'[i].at = "send" <=> job[i].at = "send")
  BY <1>2, <1>5, <1>12
<1>9. /\ \A i \in Rem!Jobs : /\ job'[i].send = job[i].send /\ job'[i].held = job[i].held
                             /\ Rem!InFlight(i)' <=> Rem!InFlight(i)
                             /\ Rem!Touched(job'[i]) = Rem!Touched(job[i])
      /\ \A i \in Rem!Jobs : \A x : (RemHolds(i, x)' <=> RemHolds(i, x)) /\ (RemAdds(i, x)' <=> RemAdds(i, x))
      /\ \A x : RemSending(x)' <=> RemSending(x)
  BY <1>2, <1>13, Zenon DEF Rem!InFlight, Rem!Now, Rem!Touched, RemHolds, RemAdds, RemSending
<1>10. RemTraced'
  BY <1>2, <1>4, <1>6, <1>9 DEF RemIInv, RemTraced, RemOnItsWay
<1>11. RemAccounted'
  <2> SUFFICES ASSUME NEW x \in Reminder, x \notin unsure' PROVE RemKept(x)'
    BY DEF RemAccounted
  <2>1. RemKept(x)
    BY <1>4 DEF RemIInv, RemAccounted
  <2> QED
    BY <1>2, <1>4, <1>6, <1>9, <2>1 DEF RemKept
<1> QED
  BY <1>8, <1>10, <1>11 DEF RemIInv
-----------------------------------------------------------------------------
\* How a writer that is done, or refused, leaves its entry and the statuses.
LEMMA RemFinishedEntry ==
    ASSUME RemTables, NEW j \in Rem!Jobs, NEW done \in BOOLEAN, Rem!InFlight(j), Rem!Finished(j, done)
    PROVE  \E r : /\ job' = [job EXCEPT ![j] = r] /\ RemEntry(j, r)
                  /\ r = IF job[j].kind = "pop"
                         THEN [at |-> "send", kind |-> "pop", what |-> job[j].what, held |-> job[j].held, send |-> job[j].send]
                         ELSE Rem!Idle
                  /\ status' = [x \in Reminder |-> status'[x]]
<1> DEFINE me == job[j]
<1>1. me = [at |-> me.at, kind |-> me.kind, what |-> me.what, held |-> me.held, send |-> me.send]
      /\ RemEntry(j, me) /\ me.at # "idle"
  BY DEF RemTables, RemEntry, Rem!InFlight, Rem!Now
<1>2. PICK r : job' = [job EXCEPT ![j] = r] /\ r = IF me.kind = "pop" THEN [me EXCEPT !.at = "send"] ELSE Rem!Idle
  BY DEF Rem!Finished, RemTables
<1>3. ASSUME me.kind = "pop"
      PROVE  r = [at |-> "send", kind |-> "pop", what |-> me.what, held |-> me.held, send |-> me.send]
  BY <1>1, <1>2, <1>3
<1>4. me.kind = "pop" => j = Rem!Loop
  BY <1>1 DEF RemEntry
<1>5. RemEntry(j, r)
  BY <1>1, <1>2, <1>3, <1>4, RemIdleEntry DEF RemEntry
<1>6. status' = [x \in Reminder |-> status'[x]]
  <2>1. status = [x \in Reminder |-> status[x]]
    BY DEF RemTables
  <2>2. me.kind \in {"add", "erase", "pop"}
    BY <1>1 DEF RemEntry
  <2>3. CASE me.kind = "add"
    BY <2>1, <2>3 DEF Rem!Finished
  <2>4. CASE me.kind # "add"
    BY <2>1, <2>4 DEF Rem!Finished
  <2> QED
    BY <2>3, <2>4
<1> QED
  BY <1>2, <1>3, <1>5, <1>6

\* The statuses after a write that was stored, and after one that was not.
LEMMA RemStored ==
    ASSUME RemTables, RemTraced, NEW j \in Rem!Jobs, Rem!InFlight(j), Rem!Finished(j, TRUE), NEW x \in Reminder
    PROVE  status'[x] = IF RemAdds(j, x) THEN "set"
                        ELSE IF job[j].kind = "erase" /\ OwnerOf(x) = job[j].what /\ status[x] = "set" THEN "gone"
                        ELSE status[x]
<1>1. job[j].kind \in {"add", "erase", "pop"} /\ job[j].at # "idle"
  BY DEF RemTables, RemEntry, Rem!InFlight, Rem!Now
<1>2. status = [y \in Reminder |-> status[y]] /\ (RemAdds(j, x) => status[x] = "asked")
  BY DEF RemTables, RemTraced, RemOnItsWay
<1>3. CASE job[j].kind = "add"
  <2>1. status' = [status EXCEPT ![job[j].what] = IF @ = "asked" THEN "set" ELSE @]
    BY <1>3 DEF Rem!Finished
  <2>2. job[j].what \in Reminder
    BY <1>1, <1>3 DEF RemTables, RemEntry
  <2> QED
    BY <1>1, <1>2, <1>3, <2>1, <2>2 DEF RemAdds
<1>4. CASE job[j].kind = "erase"
  BY <1>2, <1>4 DEF Rem!Finished, RemAdds
<1>5. CASE job[j].kind = "pop"
  BY <1>2, <1>5 DEF Rem!Finished, RemAdds
<1> QED
  BY <1>1, <1>3, <1>4, <1>5

LEMMA RemRefused ==
    ASSUME RemTables, NEW j \in Rem!Jobs, Rem!InFlight(j), Rem!Finished(j, FALSE), NEW x \in Reminder
    PROVE  status'[x] = IF RemAdds(j, x) THEN "gone" ELSE status[x]
<1>1. job[j].kind \in {"add", "erase", "pop"} /\ job[j].at # "idle"
  BY DEF RemTables, RemEntry, Rem!InFlight, Rem!Now
<1>2. status = [y \in Reminder |-> status[y]]
  BY DEF RemTables
<1>3. CASE job[j].kind = "add"
  <2>1. status' = [status EXCEPT ![job[j].what] = "gone"]
    BY <1>3 DEF Rem!Finished
  <2>2. job[j].what \in Reminder
    BY <1>1, <1>3 DEF RemTables, RemEntry
  <2> QED
    BY <1>1, <1>2, <1>3, <2>1, <2>2 DEF RemAdds
<1>4. CASE job[j].kind # "add"
  BY <1>1, <1>2, <1>4 DEF Rem!Finished, RemAdds
<1> QED
  BY <1>3, <1>4

\* What is common to both: the entry of the writer, and nobody else's.
LEMMA RemFinishing ==
    ASSUME RemTables, NEW j \in Rem!Jobs, NEW done \in BOOLEAN, Rem!InFlight(j), Rem!Finished(j, done)
    PROVE  /\ job' = [i \in Rem!Jobs |-> job'[i]] /\ \A i \in Rem!Jobs : RemEntry(i, job'[i])
           /\ \A i \in Rem!Jobs \ {j} : job'[i] = job[i]
           /\ status' = [x \in Reminder |-> status'[x]]
           /\ job'[j].at = (IF job[j].kind = "pop" THEN "send" ELSE "idle")
           /\ job'[j].send = (IF job[j].kind = "pop" THEN job[j].send ELSE {})
           /\ job'[j].kind # "add" \/ job'[j].at = "idle"
           /\ j = Rem!Loop <=> job[j].kind = "pop"
<1>1. PICK r : /\ job' = [job EXCEPT ![j] = r] /\ RemEntry(j, r)
               /\ r = IF job[j].kind = "pop"
                      THEN [at |-> "send", kind |-> "pop", what |-> job[j].what, held |-> job[j].held, send |-> job[j].send]
                      ELSE Rem!Idle
               /\ status' = [x \in Reminder |-> status'[x]]
  BY RemFinishedEntry
<1>2. /\ job' = [i \in Rem!Jobs |-> job'[i]] /\ job'[j] = r /\ \A i \in Rem!Jobs \ {j} : job'[i] = job[i]
  BY <1>1, RemOneEntry
<1>3. j = Rem!Loop <=> job[j].kind = "pop"
  BY DEF RemTables, RemEntry, Rem!InFlight, Rem!Now
<1> QED
  BY <1>1, <1>2, <1>3, RemIdleEntry DEF RemTables

LEMMA RemWriteKeeps ==
    ASSUME Rem!RemindersAssumption, RemIInv, NEW j \in Rem!Jobs, Rem!Write(j)
    PROVE  RemIInv'
<1> DEFINE me == job[j]
<1>1. /\ Rem!Now(j) = "write" /\ Rem!InFlight(j) /\ Rem!Finished(j, TRUE) /\ file' \in {me.held, Damaged}
      /\ unsure' = unsure \cup Rem!Crossed(j) /\ UNCHANGED <<due, clock, wrong>> /\ RemTables /\ RemTraced
      /\ Rem!Loop \in Rem!Jobs /\ me.at = "write"
  BY DEF Rem!Write, Rem!InFlight, Rem!Now, RemIInv, Rem!Jobs
<1>2. /\ job' = [i \in Rem!Jobs |-> job'[i]] /\ \A i \in Rem!Jobs : RemEntry(i, job'[i])
      /\ \A i \in Rem!Jobs \ {j} : job'[i] = job[i]
      /\ status' = [x \in Reminder |-> status'[x]]
      /\ job'[j].at = (IF me.kind = "pop" THEN "send" ELSE "idle")
      /\ job'[j].send = (IF me.kind = "pop" THEN me.send ELSE {})
      /\ job'[j].kind # "add" \/ job'[j].at = "idle"
      /\ j = Rem!Loop <=> me.kind = "pop"
  BY <1>1, RemFinishing
<1>3. RemEntry(j, me)
  BY <1>1 DEF RemTables
<1>4. Rem!Whole' => file' = me.held /\ file' \subseteq Reminder
  BY <1>1, <1>3 DEF Rem!Whole, RemEntry
<1>5. RemTables'
  BY <1>1, <1>2, <1>4 DEF RemTables, RemEntry
<1>6. \A x \in Reminder :
         status'[x] = IF RemAdds(j, x) THEN "set"
                      ELSE IF me.kind = "erase" /\ OwnerOf(x) = me.what /\ status[x] = "set" THEN "gone"
                      ELSE status[x]
  BY <1>1, RemStored
<1>7. \A x : /\ ~RemHolds(j, x)' /\ ~RemAdds(j, x)'
             /\ \A i \in Rem!Jobs \ {j} : (RemHolds(i, x)' <=> RemHolds(i, x)) /\ (RemAdds(i, x)' <=> RemAdds(i, x))
             /\ RemHolds(j, x) <=> x \in me.held
  BY <1>1, <1>2 DEF RemHolds, RemAdds
<1>8. ~Rem!InFlight(j)' /\ \A i \in Rem!Jobs \ {j} : (Rem!InFlight(i)' <=> Rem!InFlight(i)) /\ job'[i] = job[i]
  BY <1>2 DEF Rem!InFlight, Rem!Now
<1>9. job'[Rem!Loop].send = job[Rem!Loop].send
  BY <1>1, <1>2, <1>3 DEF RemTables, RemEntry
<1>10. ASSUME NEW x \in Reminder
       PROVE  RemOnItsWay(x)'
  <2>1. RemOnItsWay(x)
    BY <1>1 DEF RemTraced
  <2>2. status'[x] = "sent" => status[x] = "sent"
    BY <1>6
  <2>3. status'[x] \in {"new", "asked"} => status[x] \in {"new", "asked"} /\ ~RemAdds(j, x)
    BY <1>6
  <2>4. \A i \in Rem!Jobs : RemAdds(i, x)' => status'[x] = "asked" /\ \A k \in Rem!Jobs : RemAdds(k, x)' => k = i
    BY <1>6, <1>7, <2>1 DEF RemOnItsWay
  <2>5. status'[x] \in {"new", "asked"} => /\ x \notin job'[Rem!Loop].send
                                           /\ Rem!Whole' => x \notin file'
                                           /\ \A i \in Rem!Jobs : RemHolds(i, x)' => RemAdds(i, x)'
    BY <1>4, <1>7, <1>9, <2>1, <2>3 DEF RemOnItsWay
  <2> QED
    BY <1>1, <1>9, <2>1, <2>2, <2>4, <2>5 DEF RemOnItsWay
<1>11. ASSUME NEW x \in Reminder, x \notin unsure'
       PROVE  RemKept(x)'
  <2>1. RemOnItsWay(x) /\ RemKept(x)
    BY <1>1, <1>11 DEF RemIInv, RemTraced, RemAccounted
  <2>2. \A k \in Rem!Jobs \ {j} : Rem!InFlight(k) => x \notin Rem!Touched(me)
    BY <1>1, <1>11 DEF Rem!Crossed
  <2>3. j # Rem!Loop => x \notin Rem!Touched(me) \/ x \notin job[Rem!Loop].send
    BY <1>1, <1>11 DEF Rem!Crossed
  <2>4. /\ me.kind = "add" => Rem!Touched(me) = {me.what} /\ me.what \in me.held
        /\ me.kind = "erase" => (Rem!Touched(me) = {y \in Reminder : OwnerOf(y) = me.what}) /\ \A y \in me.held : OwnerOf(y) # me.what
        /\ me.kind = "pop" => Rem!Touched(me) = me.send /\ \A y \in me.send : y \notin me.held
        /\ me.kind \in {"add", "erase", "pop"}
    BY <1>1, <1>3 DEF Rem!Touched, RemEntry
  <2>5. RemAdds(j, x) <=> me.kind = "add" /\ me.what = x
    BY <1>1 DEF RemAdds
  <2>6. RemSending(x)' <=> (IF j = Rem!Loop THEN x \in me.send ELSE RemSending(x))
    BY <1>1, <1>2, <1>9 DEF RemSending
  <2>7. j = Rem!Loop => ~RemSending(x)
    BY <1>1 DEF RemSending
  <2>8. Rem!Whole' /\ x \in file' => status'[x] = "set"
    BY <1>4, <1>6, <1>7, <2>1, <2>4 DEF RemKept
  <2>9. \A i \in Rem!Jobs : RemHolds(i, x)' => status'[x] = "set" \/ RemAdds(i, x)'
    <3> SUFFICES ASSUME NEW i \in Rem!Jobs \ {j}, RemHolds(i, x), ~RemAdds(i, x)
                 PROVE  status'[x] = "set"
      BY <1>7
    <3>1. status[x] = "set" /\ Rem!InFlight(i)
      BY <2>1, RemPlaces DEF RemKept, RemHolds
    <3> QED
      BY <1>6, <2>2, <2>4, <3>1
  <2>10. x \in job'[Rem!Loop].send => status'[x] = "set"
    BY <1>2, <1>6, <1>9, <2>1, <2>3, <2>4 DEF RemKept
  <2>11. ASSUME RemSending(x)'
         PROVE  (Rem!Whole' => x \notin file') /\ \A i \in Rem!Jobs : ~RemHolds(i, x)'
    <3>1. CASE j = Rem!Loop
      BY <1>2, <1>4, <1>7, <2>1, <2>2, <2>4, <2>6, <2>11, <3>1, RemPlaces DEF RemHolds
    <3>2. CASE j # Rem!Loop
      BY <1>4, <1>7, <2>1, <2>6, <2>11, <3>2 DEF RemKept
    <3> QED
      BY <3>1, <3>2
  <2>12. ASSUME status'[x] = "set", ~RemSending(x)'
         PROVE  /\ Rem!Whole' => x \in file'
                /\ \A i \in Rem!Jobs : Rem!InFlight(i)' => x \in job'[i].held \/ x \in Rem!Touched(job'[i])
    <3>1. CASE RemAdds(j, x)
      BY <1>4, <1>8, <2>2, <2>4, <2>5, <3>1
    <3>2. CASE ~RemAdds(j, x)
      <4>1. status[x] = "set" /\ ~(me.kind = "erase" /\ OwnerOf(x) = me.what)
        BY <1>6, <2>12, <3>2
      <4>2. ~RemSending(x)
        BY <2>6, <2>7, <2>12
      <4>3. x \in me.held \/ x \in Rem!Touched(me)
        BY <1>1, <2>1, <4>1, <4>2 DEF RemKept
      <4>4. x \in me.held
        BY <1>2, <2>4, <2>6, <2>12, <4>1, <4>3
      <4> QED
        BY <1>4, <1>8, <2>1, <4>1, <4>2, <4>4 DEF RemKept
    <3> QED
      BY <3>1, <3>2
  <2> QED
    BY <1>1, <2>1, <2>8, <2>9, <2>10, <2>11, <2>12 DEF RemKept
<1> QED
  BY <1>5, <1>10, <1>11 DEF RemIInv, RemTraced, RemAccounted

LEMMA RemWriteFailsKeeps ==
    ASSUME Rem!RemindersAssumption, RemIInv, NEW j \in Rem!Jobs, Rem!WriteFails(j)
    PROVE  RemIInv'
<1> DEFINE me == job[j]
<1>1. /\ Rem!InFlight(j) /\ Rem!Finished(j, FALSE) /\ file' \in {file, Damaged}
      /\ unsure' = (IF me.kind = "pop" THEN unsure \cup me.send ELSE unsure) /\ UNCHANGED <<due, clock, wrong>>
      /\ RemTables /\ RemTraced /\ Rem!Loop \in Rem!Jobs /\ me.at \in {"open", "write"}
  BY DEF Rem!WriteFails, Rem!InFlight, Rem!Now, RemIInv, Rem!Jobs
<1>2. /\ job' = [i \in Rem!Jobs |-> job'[i]] /\ \A i \in Rem!Jobs : RemEntry(i, job'[i])
      /\ \A i \in Rem!Jobs \ {j} : job'[i] = job[i]
      /\ status' = [x \in Reminder |-> status'[x]]
      /\ job'[j].at = (IF me.kind = "pop" THEN "send" ELSE "idle")
      /\ job'[j].send = (IF me.kind = "pop" THEN me.send ELSE {})
      /\ job'[j].kind # "add" \/ job'[j].at = "idle"
      /\ j = Rem!Loop <=> me.kind = "pop"
  BY <1>1, RemFinishing
<1>4. Rem!Whole' => Rem!Whole /\ file' = file
  BY <1>1 DEF Rem!Whole
<1>5. RemTables'
  BY <1>1, <1>2, <1>4 DEF RemTables, RemEntry
<1>6. \A x \in Reminder : status'[x] = IF RemAdds(j, x) THEN "gone" ELSE status[x]
  BY <1>1, RemRefused
<1>7. \A x : /\ ~RemHolds(j, x)' /\ ~RemAdds(j, x)'
             /\ \A i \in Rem!Jobs \ {j} : (RemHolds(i, x)' <=> RemHolds(i, x)) /\ (RemAdds(i, x)' <=> RemAdds(i, x))
  BY <1>2 DEF RemHolds, RemAdds
<1>8. ~Rem!InFlight(j)' /\ \A i \in Rem!Jobs \ {j} : (Rem!InFlight(i)' <=> Rem!InFlight(i)) /\ job'[i] = job[i]
  BY <1>2 DEF Rem!InFlight, Rem!Now
<1>9. job'[Rem!Loop].send = job[Rem!Loop].send
  BY <1>1, <1>2 DEF RemTables, RemEntry
<1>10. ASSUME NEW x \in Reminder
       PROVE  RemOnItsWay(x)'
  <2>1. RemOnItsWay(x)
    BY <1>1 DEF RemTraced
  <2> QED
    BY <1>1, <1>4, <1>6, <1>7, <1>9, <2>1 DEF RemOnItsWay
<1>11. ASSUME NEW x \in Reminder, x \notin unsure'
       PROVE  RemKept(x)'
  <2>1. RemOnItsWay(x) /\ RemKept(x)
    BY <1>1, <1>11 DEF RemIInv, RemTraced, RemAccounted
  <2>2. me.kind = "pop" => x \notin me.send
    BY <1>1, <1>11
  <2>3. RemSending(x)' <=> RemSending(x)
    <3>1. CASE j = Rem!Loop
      BY <1>1, <1>2, <2>2, <3>1 DEF RemSending
    <3>2. CASE j # Rem!Loop
      BY <1>1, <1>2, <3>2 DEF RemSending
    <3> QED
      BY <3>1, <3>2
  <2>4. CASE RemAdds(j, x)
    <3>1. status[x] = "asked" /\ status'[x] = "gone"
      BY <1>6, <2>1, <2>4 DEF RemOnItsWay
    <3>2. x \notin job[Rem!Loop].send /\ (Rem!Whole => x \notin file) /\ \A i \in Rem!Jobs \ {j} : ~RemHolds(i, x)
      BY <2>1, <2>4, <3>1 DEF RemOnItsWay
    <3>3. \A i \in Rem!Jobs : ~RemHolds(i, x)'
      BY <1>7, <3>2
    <3> QED
      BY <1>1, <1>4, <1>9, <2>1, <2>3, <3>1, <3>2, <3>3 DEF RemKept
  <2>5. CASE ~RemAdds(j, x)
    <3>1. status'[x] = status[x]
      BY <1>6, <2>5
    <3>2. \A i \in Rem!Jobs : RemHolds(i, x)' => RemHolds(i, x) /\ (RemAdds(i, x)' <=> RemAdds(i, x))
      BY <1>7
    <3>3. \A i \in Rem!Jobs : Rem!InFlight(i)' => Rem!InFlight(i) /\ job'[i] = job[i]
      BY <1>8
    <3> QED
      BY <1>1, <1>4, <1>9, <2>1, <2>3, <3>1, <3>2, <3>3 DEF RemKept
  <2> QED
    BY <2>4, <2>5
<1> QED
  BY <1>5, <1>10, <1>11 DEF RemIInv, RemTraced, RemAccounted
-----------------------------------------------------------------------------
LEMMA RemSendKeeps ==
    ASSUME RemIInv, Rem!Send
    PROVE  RemIInv'
<1> DEFINE me == job[Rem!Loop]
<1>1. Rem!Loop \in Rem!Jobs /\ RemTables /\ me.at = "send" /\ UNCHANGED <<file, due, clock, unsure>> /\ (Rem!Whole' <=> Rem!Whole)
  BY DEF Rem!Jobs, RemIInv, Rem!Send, Rem!Now, Rem!Whole
<1>2. me = [at |-> "send", kind |-> me.kind, what |-> me.what, held |-> me.held, send |-> me.send]
      /\ RemEntry(Rem!Loop, me) /\ me.kind = "pop"
  BY <1>1 DEF RemTables, RemEntry
<1>3. CASE me.send = {}
  <2>1. job' = [job EXCEPT ![Rem!Loop] = Rem!Idle] /\ UNCHANGED <<status, wrong>>
    BY <1>3 DEF Rem!Send
  <2>2. /\ job' = [i \in Rem!Jobs |-> job'[i]] /\ job'[Rem!Loop] = Rem!Idle /\ \A i \in Rem!Jobs \ {Rem!Loop} : job'[i] = job[i]
    BY <1>1, <2>1, RemOneEntry
  <2>3. RemTables'
    BY <1>1, <2>1, <2>2, RemIdleEntry DEF RemTables, RemEntry
  <2>4. \A x : /\ \A i \in Rem!Jobs : (RemHolds(i, x)' <=> RemHolds(i, x)) /\ (RemAdds(i, x)' <=> RemAdds(i, x))
               /\ ~RemSending(x) /\ ~RemSending(x)' /\ job'[Rem!Loop].send = job[Rem!Loop].send
    BY <1>1, <1>2, <1>3, <2>2, RemIdleEntry DEF RemHolds, RemAdds, RemSending
  <2>5. \A i \in Rem!Jobs : Rem!InFlight(i)' => Rem!InFlight(i) /\ job'[i] = job[i]
    BY <2>2, RemIdleEntry DEF Rem!InFlight, Rem!Now
  <2>6. RemTraced'
    BY <1>1, <2>1, <2>4 DEF RemIInv, RemTraced, RemOnItsWay
  <2>7. RemAccounted'
    <3> SUFFICES ASSUME NEW x \in Reminder, x \notin unsure' PROVE RemKept(x)'
      BY DEF RemAccounted
    <3>1. RemKept(x)
      BY <1>1 DEF RemIInv, RemAccounted
    <3> QED
      BY <1>1, <2>1, <2>4, <2>5, <3>1 DEF RemKept
  <2> QED
    BY <2>3, <2>6, <2>7 DEF RemIInv
<1>4. CASE me.send # {}
  <2>1. PICK x \in me.send :
           /\ job' = [job EXCEPT ![Rem!Loop].send = @ \ {x}]
           /\ status' = [status EXCEPT ![x] = "sent"]
           /\ wrong' = IF status[x] = "set" THEN wrong ELSE wrong \cup {x}
    BY <1>4 DEF Rem!Send
  <2>2. PICK r : r = [me EXCEPT !.send = @ \ {x}]
    OBVIOUS
  <2>3. r = [at |-> "send", kind |-> "pop", what |-> me.what, held |-> me.held, send |-> me.send \ {x}]
    BY <1>2, <2>2
  <2>4. job' = [job EXCEPT ![Rem!Loop] = r]
    BY <1>1, <2>1, <2>2 DEF RemTables
  <2>5. /\ job' = [i \in Rem!Jobs |-> job'[i]] /\ job'[Rem!Loop] = r /\ \A i \in Rem!Jobs \ {Rem!Loop} : job'[i] = job[i]
    BY <1>1, <2>4, RemOneEntry
  <2>6. x \in Reminder /\ \A y \in Reminder : status'[y] = IF y = x THEN "sent" ELSE status[y]
    BY <1>1, <1>2, <2>1 DEF RemTables, RemEntry
  <2>7. RemTables'
    <3>1. RemEntry(Rem!Loop, r)
      BY <1>2, <2>3 DEF RemEntry
    <3>2. status' = [y \in Reminder |-> status'[y]]
      BY <1>1, <2>1 DEF RemTables
    <3> QED
      BY <1>1, <2>5, <3>1, <3>2 DEF RemTables, RemEntry
  <2>8. \A y : /\ \A i \in Rem!Jobs : (RemHolds(i, y)' <=> RemHolds(i, y)) /\ (RemAdds(i, y)' <=> RemAdds(i, y))
               /\ RemSending(y)' <=> RemSending(y) /\ y # x
               /\ y \in job'[Rem!Loop].send <=> y \in me.send /\ y # x
    BY <1>1, <1>2, <2>3, <2>5 DEF RemHolds, RemAdds, RemSending
  <2>9. \A i \in Rem!Jobs : Rem!InFlight(i)' => Rem!InFlight(i) /\ job'[i] = job[i]
    BY <2>3, <2>5 DEF Rem!InFlight, Rem!Now
  <2>10. RemSending(x)
    BY <1>1 DEF RemSending
  <2>11. ASSUME NEW y \in Reminder PROVE RemOnItsWay(y)'
    <3>1. RemOnItsWay(y)
      BY DEF RemIInv, RemTraced
    <3>2. y = x => status[y] \notin {"new", "asked"}
      BY <3>1 DEF RemOnItsWay
    <3> QED
      BY <1>1, <2>6, <2>8, <3>1, <3>2 DEF RemOnItsWay
  <2>12. ASSUME NEW y \in Reminder, y \notin unsure' PROVE RemKept(y)'
    <3>1. RemKept(y)
      BY <1>1, <2>12 DEF RemIInv, RemAccounted
    <3>2. y \notin wrong'
      BY <2>1, <3>1 DEF RemKept
    <3> QED
      BY <1>1, <2>6, <2>8, <2>9, <2>10, <3>1, <3>2 DEF RemKept
  <2> QED
    BY <2>7, <2>11, <2>12 DEF RemIInv, RemTraced, RemAccounted
<1> QED
  BY <1>3, <1>4

LEMMA RemRestartKeeps ==
    ASSUME RemIInv, Rem!Restart
    PROVE  RemIInv'
<1>1. job' = [j \in Rem!Jobs |-> Rem!Idle] /\ unsure' = unsure \cup job[Rem!Loop].send /\ UNCHANGED <<file, due, clock, status, wrong>>
  BY DEF Rem!Restart
<1>2. RemTables'
  BY <1>1, RemIdleEntry DEF RemIInv, RemTables, RemEntry, Rem!Whole
<1>3. /\ Rem!Loop \in Rem!Jobs /\ (Rem!Whole' <=> Rem!Whole) /\ job'[Rem!Loop].send = {}
      /\ \A x : ~RemSending(x)' /\ \A i \in Rem!Jobs : ~RemHolds(i, x)' /\ ~RemAdds(i, x)'
      /\ \A i \in Rem!Jobs : ~Rem!InFlight(i)'
  BY <1>1, RemIdleEntry DEF Rem!Jobs, Rem!Whole, RemSending, RemHolds, RemAdds, Rem!InFlight, Rem!Now
<1>4. RemTraced'
  BY <1>1, <1>3 DEF RemIInv, RemTraced, RemOnItsWay
<1>5. ASSUME NEW x \in Reminder, x \notin unsure' PROVE RemKept(x)'
  <2>1. RemKept(x) /\ x \notin job[Rem!Loop].send
    BY <1>1, <1>5 DEF RemIInv, RemAccounted
  <2> QED
    BY <1>1, <1>3, <2>1 DEF RemKept, RemSending
<1> QED
  BY <1>2, <1>4, <1>5 DEF RemIInv, RemAccounted

LEMMA RemTickKeeps ==
    ASSUME RemIInv, Rem!Tick
    PROVE  RemIInv'
<1>1. clock' = clock + 1 /\ UNCHANGED <<file, due, job, status, wrong, unsure>>
  BY DEF Rem!Tick
<1>2. RemTables' /\ clock \in Nat /\ clock' \in Nat /\ \A x \in Reminder : due[x] \in Nat
  BY <1>1 DEF RemIInv, RemTables, RemEntry, Rem!Whole
<1>3. \A x \in Reminder : due[x] <= clock => due'[x] <= clock'
  BY <1>1, <1>2
<1>4. RemTraced'
  BY <1>1, <1>3 DEF RemIInv, RemTraced, RemOnItsWay, Rem!Whole, RemHolds, RemAdds
<1>5. RemAccounted'
  BY <1>1 DEF RemIInv, RemAccounted, RemKept, Rem!Whole, RemHolds, RemAdds, RemSending, Rem!InFlight,
     Rem!Now, Rem!Touched
<1> QED
  BY <1>2, <1>4, <1>5 DEF RemIInv

LEMMA RemStutterKeeps ==
    ASSUME RemIInv, UNCHANGED Rem!vars
    PROVE  RemIInv'
<1>1. UNCHANGED <<file, due, job, clock, status, wrong, unsure>>
  BY DEF Rem!vars
<1>2. RemTables'
  BY <1>1 DEF RemIInv, RemTables, RemEntry, Rem!Whole
<1>3. RemTraced'
  BY <1>1 DEF RemIInv, RemTraced, RemOnItsWay, Rem!Whole, RemHolds, RemAdds
<1>4. RemAccounted'
  BY <1>1 DEF RemIInv, RemAccounted, RemKept, Rem!Whole, RemHolds, RemAdds, RemSending, Rem!InFlight,
     Rem!Now, Rem!Touched
<1> QED
  BY <1>2, <1>3, <1>4 DEF RemIInv

LEMMA RemInitInv ==
    ASSUME Rem!RemindersAssumption, Rem!Init
    PROVE  RemIInv
<1>1. /\ Rem!Loop \in Rem!Jobs /\ job[Rem!Loop].send = {}
      /\ \A x : ~RemSending(x) /\ \A i \in Rem!Jobs : ~RemHolds(i, x) /\ ~RemAdds(i, x)
      /\ \A i \in Rem!Jobs : ~Rem!InFlight(i)
  BY RemIdleEntry DEF Rem!Init, Rem!Jobs, RemSending, RemHolds, RemAdds, Rem!InFlight, Rem!Now
<1>2. RemTables
  BY RemIdleEntry DEF Rem!Init, RemTables, RemEntry
<1>3. RemTraced
  BY <1>1 DEF Rem!Init, RemTraced, RemOnItsWay
<1>4. RemAccounted
  BY <1>1 DEF Rem!Init, RemAccounted, RemKept
<1> QED
  BY <1>2, <1>3, <1>4 DEF RemIInv

LEMMA RemStepInv ==
    ASSUME Rem!RemindersAssumption, RemIInv, [Rem!Next]_Rem!vars
    PROVE  RemIInv'
<1>1. CASE Rem!Next
  BY <1>1, RemSetReminderKeeps, RemEraseKeeps, RemWakeKeeps, RemSendKeeps, RemLoadKeeps, RemReadFailsKeeps,
     RemOpenKeeps, RemWriteKeeps,
     RemWriteFailsKeeps, RemRestartKeeps, RemTickKeeps DEF Rem!Next
<1> QED
  BY <1>1, RemStutterKeeps

LEMMA RemSafe ==
    ASSUME RemIInv
    PROVE  Rem!NoneLostNoneTwice
<1>1. \A r \in Reminder : status[r] = "sent" => due[r] <= clock
  BY DEF RemIInv, RemTraced, RemOnItsWay
<1>2. ASSUME NEW r \in Reminder \ unsure
      PROVE  /\ r \notin wrong
             /\ status[r] = "set" /\ Rem!Whole => r \in file \cup job[Rem!Loop].send
             /\ status[r] \in {"sent", "gone"} /\ Rem!Whole => r \notin file
  BY DEF RemIInv, RemAccounted, RemKept, RemSending
<1> QED
  BY <1>1, <1>2 DEF Rem!NoneLostNoneTwice

(***************************************************************************)
(* Skills: whatever overlaps, the tables keep their types, and a file that *)
(* is open to one save alone is cut short until that writes it; one        *)
(* operation at a time keeps a listing and the directory in step, and what *)
(* is about to be written its author.                                      *)
(***************************************************************************)
SklListing(v) == DOMAIN v \subseteq Name /\ \A n \in DOMAIN v : v[n] \in Skl!Skill

\* An operation, by where it stands.
SklEntry(k) ==
    /\ k = [at |-> k.at, op |-> k.op, via |-> k.via, by |-> k.by, name |-> k.name,
            who |-> k.who, view |-> k.view, new |-> k.new, shut |-> k.shut]
    /\ k.at # "idle" => k.via \in SkillHandle /\ k.by \in User /\ k.name \in Name /\ k.who \in User
    /\ SklListing(k.view)
    /\ k.at \in {"create", "write"} => k.new \in Skl!Skill
    /\ k.shut \in BOOLEAN /\ (k.shut => k.at \in {"write", "forget"})

SklTables ==
    /\ disk = [n \in Name |-> disk[n]] /\ \A n \in Name : disk[n] \in Skl!Skill \cup {None, Damaged, Torn}
    /\ founder = [n \in Name |-> founder[n]]
    /\ \A n \in Name : founder[n] \in User \cup {None} /\ (founder[n] = None <=> disk[n] = None)
    /\ cache = [h \in SkillHandle |-> cache[h]] /\ \A h \in SkillHandle : cache[h] = None \/ SklListing(cache[h])
    /\ task = [t \in Task |-> task[t]] /\ \A t \in Task : SklEntry(task[t])
    /\ ops \in 0..MaxOps /\ faults \in Nat

\* What is open is open to one save, and cut short until that writes.
SklIntact ==
    faults = 0 => \A n \in Name \ crossed :
        /\ \A t, v \in Task : Skl!Opens(t, n) /\ Skl!Opens(v, n) => t = v
        /\ \A t \in Task : Skl!Opens(t, n) => disk[n] = Damaged /\ task[t].new.body # Torn
        /\ Skl!Whole(disk[n]) \/ \E t \in Task : Skl!Opens(t, n)

\* One at a time, and no fault.
SklSerial == unsure \subseteq {"stale"}

SklAlone == SklSerial => faults = 0 /\ \A t, v \in Task : task[t].at # "idle" /\ task[v].at # "idle" => t = v

\* ... and the files are whole but inside a write.
SklOrderly == SklSerial => \A n \in Name : disk[n] # Torn /\ (disk[n] = Damaged <=> \E t \in Task : Skl!Opens(t, n))

\* The listing is behind only from a write to the moment it is forgotten.
SklBehind(h) == \E t \in Task : task[t].at \in {"write", "forget"} /\ task[t].via = h

SklListed ==
    SklSerial => /\ \A h \in SkillHandle \ foreign : cache[h] # None /\ ~SklBehind(h) => cache[h] = Skl!Readable(disk)
                 /\ \A t \in Task : task[t].at = "fill" => task[t].view = Skl!Readable(disk)
                 /\ \A t \in Task : task[t].at = "write" => SkillHandle \ {task[t].via} \subseteq foreign

\* What is about to be written has the author of what is there.
SklFaithful(k) == k.at \in {"create", "write"}
                  => k.new.author = IF founder[k.name] = None THEN k.by ELSE founder[k.name]

SklAuthored ==
    unsure = {} => /\ \A n \in Name : disk[n] \in Skl!Skill => disk[n].author = founder[n]
                   /\ \A t \in Task : SklFaithful(task[t])

\* What is open stands.
SklStanding == \A t \in Task, n \in Name : Skl!Opens(t, n) => disk[n] # None

SklCore == SklTables /\ SklIntact /\ SklAlone /\ SklOrderly /\ SklListed /\ SklAuthored
SklIInv == SklCore /\ SklStanding
-----------------------------------------------------------------------------
LEMMA SklIdleEntry == SklEntry(Skl!Idle) /\ Skl!Idle.at = "idle"
<1>1. DOMAIN <<>> = {}
  OBVIOUS
<1>2. Skl!Idle.at = "idle" /\ Skl!Idle.view = <<>>
  BY DEF Skl!Idle
<1>3. SklListing(Skl!Idle.view)
  BY <1>1, <1>2 DEF SklListing
<1> QED
  BY <1>2, <1>3 DEF SklEntry, Skl!Idle

LEMMA SklReadableListing ==
    ASSUME SklTables
    PROVE  /\ SklListing(Skl!Readable(disk))
           /\ \A n \in Name : n \in DOMAIN Skl!Readable(disk) <=> disk[n] \in Skl!Skill \ {None, Damaged, Torn}
           /\ \A n \in DOMAIN Skl!Readable(disk) : Skl!Readable(disk)[n] = disk[n]
<1>1. Skl!Readable(disk) = [n \in {m \in Name : disk[m] \notin {None, Damaged, Torn}} |-> disk[n]]
  BY DEF Skl!Readable
<1>2. \A n \in Name : disk[n] \in Skl!Skill \cup {None, Damaged, Torn}
  BY DEF SklTables
<1> QED
  BY <1>1, <1>2 DEF SklListing

\* Who saves does not change the author, but of a skill that is not there.
LEMMA SklWantedWell ==
    ASSUME Skl!SkillsAssumption, NEW k, k.by \in User, k.who \in User, ops \in 0..MaxOps, NEW s, s = None \/ s \in Skl!Skill,
           Skl!Wanted(k, s) # None
    PROVE  Skl!Wanted(k, s) \in Skl!Skill /\ Skl!Wanted(k, s).author = IF s = None THEN k.by ELSE s.author
<1>1. CASE s = None
  <2>1. Skl!Wanted(k, s) = Skl!Made(k.by, ops)
    BY <1>1 DEF Skl!Wanted, Skl!Edited
  <2> QED
    BY <1>1, <2>1 DEF Skl!Made, Skl!Skill
<1>2. CASE s \in Skl!Skill /\ s # None
  <2>1. s = [author |-> s.author, editors |-> s.editors, body |-> s.body] /\ s.author \in User /\ s.editors \in SUBSET User
    BY <1>2 DEF Skl!Skill
  <2>2. ASSUME NEW b \in 0..MaxOps \cup {Torn} PROVE [s EXCEPT !.body = b] \in Skl!Skill /\ [s EXCEPT !.body = b].author = s.author
    <3>1. [s EXCEPT !.body = b] = [author |-> s.author, editors |-> s.editors, body |-> b]
      BY <2>1
    <3> QED
      BY <2>1, <3>1 DEF Skl!Skill
  <2>3. ASSUME NEW e \in SUBSET User PROVE [s EXCEPT !.editors = e] \in Skl!Skill /\ [s EXCEPT !.editors = e].author = s.author
    <3>1. [s EXCEPT !.editors = e] = [author |-> s.author, editors |-> e, body |-> s.body]
      BY <2>1
    <3> QED
      BY <1>2, <2>1, <3>1 DEF Skl!Skill
  <2>4. PICK o \in SUBSET User, w \in SUBSET User : o = s.editors \cup {k.who} /\ w = s.editors \ {k.who}
    BY <2>1
  <2>5. [s EXCEPT !.editors = @ \cup {k.who}] = [s EXCEPT !.editors = o] /\ [s EXCEPT !.editors = @ \ {k.who}] = [s EXCEPT !.editors = w]
    BY <2>1, <2>4
  <2>6. \/ Skl!Wanted(k, s) = [s EXCEPT !.body = ops]
        \/ Skl!Wanted(k, s) = [s EXCEPT !.editors = @ \cup {k.who}]
        \/ Skl!Wanted(k, s) = [s EXCEPT !.editors = @ \ {k.who}]
    BY <1>2 DEF Skl!Wanted, Skl!Edited, Skl!Delegated
  <2>7. CASE Skl!Wanted(k, s) = [s EXCEPT !.body = ops]
    BY <1>2, <2>2, <2>7
  <2>8. CASE Skl!Wanted(k, s) = [s EXCEPT !.editors = @ \cup {k.who}]
    BY <1>2, <2>3, <2>5, <2>8
  <2>9. CASE Skl!Wanted(k, s) = [s EXCEPT !.editors = @ \ {k.who}]
    BY <1>2, <2>3, <2>5, <2>9
  <2> QED
    BY <2>6, <2>7, <2>8, <2>9
<1> QED
  BY <1>1, <1>2

\* What is decided: the operation goes on with what it wants, or is over.
LEMMA SklDecidedWell ==
    ASSUME Skl!SkillsAssumption, NEW k, SklEntry(k), k.at \in {"scan", "fill"}, ops \in 0..MaxOps, NEW view, SklListing(view)
    PROVE  /\ SklEntry(Skl!Decided(k, view)) /\ Skl!Decided(k, view).at \in {"idle", "remove", "create", "copied"}
           /\ Skl!Decided(k, view).at = "create"
              => /\ Skl!Decided(k, view).new.author = (IF k.name \in DOMAIN view THEN view[k.name].author ELSE k.by)
                 /\ Skl!Decided(k, view).name = k.name /\ Skl!Decided(k, view).by = k.by
<1> DEFINE s == Skl!Find(view, k.name)
<1>1. s = None \/ s \in Skl!Skill
  BY DEF Skl!Find, SklListing
<1>2. (s = None <=> k.name \notin DOMAIN view) /\ (s # None => s = view[k.name])
  BY DEF Skl!Find, SklListing, Skl!SkillsAssumption
<1>3. k = [at |-> k.at, op |-> k.op, via |-> k.via, by |-> k.by, name |-> k.name, who |-> k.who, view |-> k.view, new |-> k.new, shut |-> k.shut]
      /\ k.via \in SkillHandle /\ k.by \in User /\ k.name \in Name /\ k.who \in User /\ k.shut = FALSE
  BY DEF SklEntry
<1>4. PICK w : w = Skl!Wanted(k, s)
  OBVIOUS
<1>5. w # None => w \in Skl!Skill /\ w.author = IF k.name \in DOMAIN view THEN view[k.name].author ELSE k.by
  BY <1>1, <1>2, <1>3, <1>4, SklWantedWell
<1>6. PICK r : r = Skl!Decided(k, view)
  OBVIOUS
<1>7. \/ r = [k EXCEPT !.at = "remove", !.view = view]
      \/ r = [k EXCEPT !.at = "create", !.view = view, !.new = w] /\ w # None
      \/ r = [k EXCEPT !.at = "copied", !.view = view]
      \/ r = Skl!Idle
  BY <1>4, <1>6 DEF Skl!Decided
<1>8. CASE r = [k EXCEPT !.at = "remove", !.view = view]
  <2>1. r = [at |-> "remove", op |-> k.op, via |-> k.via, by |-> k.by, name |-> k.name, who |-> k.who, view |-> view, new |-> k.new, shut |-> k.shut]
    BY <1>3, <1>8
  <2> QED
    BY <1>3, <1>6, <2>1 DEF SklEntry
<1>9. CASE r = [k EXCEPT !.at = "create", !.view = view, !.new = w] /\ w # None
  <2>1. r = [at |-> "create", op |-> k.op, via |-> k.via, by |-> k.by, name |-> k.name, who |-> k.who, view |-> view, new |-> w, shut |-> k.shut]
    BY <1>3, <1>9
  <2>2. r.at = "create" /\ r.new = w /\ r.name = k.name /\ r.by = k.by
    BY <2>1
  <2>3. SklEntry(r)
    BY <1>3, <1>5, <1>9, <2>1 DEF SklEntry
  <2> QED
    BY <1>5, <1>6, <1>9, <2>2, <2>3
<1>10. CASE r = [k EXCEPT !.at = "copied", !.view = view]
  <2>1. r = [at |-> "copied", op |-> k.op, via |-> k.via, by |-> k.by, name |-> k.name, who |-> k.who, view |-> view, new |-> k.new, shut |-> k.shut]
    BY <1>3, <1>10
  <2> QED
    BY <1>3, <1>6, <2>1 DEF SklEntry
<1>11. CASE r = Skl!Idle
  BY <1>6, <1>11, SklIdleEntry
<1> QED
  BY <1>7, <1>8, <1>9, <1>10, <1>11

\* A step of one task.
LEMMA SklOneTask ==
    ASSUME SklTables, NEW t \in Task, NEW r, SklEntry(r), task' = [task EXCEPT ![t] = r]
    PROVE  /\ task' = [v \in Task |-> task'[v]] /\ \A v \in Task : SklEntry(task'[v])
           /\ task'[t] = r /\ \A v \in Task \ {t} : task'[v] = task[v]
  BY DEF SklTables

LEMMA SklStutterKeeps ==
    ASSUME SklCore, UNCHANGED Skl!vars
    PROVE  SklCore'
<1>1. /\ disk' = disk /\ cache' = cache /\ task' = task /\ ops' = ops /\ faults' = faults
      /\ foreign' = foreign /\ founder' = founder /\ crossed' = crossed /\ unsure' = unsure
  BY DEF Skl!vars
<1>2. SklTables' /\ SklAlone'
  BY <1>1 DEF SklCore, SklTables, SklAlone, SklSerial
<1>3. SklIntact' /\ SklOrderly'
  BY <1>1 DEF SklCore, SklIntact, SklOrderly, SklSerial, Skl!Opens, Skl!Whole
<1>4. SklListed'
  BY <1>1 DEF SklCore, SklListed, SklSerial, SklBehind, Skl!Readable
<1>5. SklAuthored'
  BY <1>1 DEF SklCore, SklAuthored, SklFaithful
<1> QED
  BY <1>2, <1>3, <1>4, <1>5 DEF SklCore

\* Without overlap whoever is at work is alone.
LEMMA SklSole ==
    ASSUME SklCore, SklSerial, NEW t \in Task, task[t].at # "idle"
    PROVE  faults = 0 /\ \A v \in Task \ {t} : task[v].at = "idle"
  BY DEF SklCore, SklAlone

\* A fault is noted, and only the types are left to keep.
LEMMA SklFaultKeeps ==
    ASSUME SklCore, SklTables', faults' = faults + 1, unsure' = unsure \cup {"fault"}
    PROVE  SklCore'
<1>1. ~SklSerial' /\ unsure' # {}
  BY DEF SklSerial
<1>2. faults' # 0
  BY DEF SklCore, SklTables
<1> QED
  BY <1>1, <1>2 DEF SklCore, SklIntact, SklAlone, SklOrderly, SklListed, SklAuthored

\* A step that touches neither the directory nor a listing.
LEMMA SklMoveKeeps ==
    ASSUME SklCore, NEW t \in Task, NEW r, SklEntry(r), task' = [task EXCEPT ![t] = r],
           UNCHANGED <<disk, cache, founder, crossed, foreign, faults>>, ops' \in 0..MaxOps, unsure \subseteq unsure',
           task[t].at \notin {"write", "forget"}, r.at \notin {"write", "forget"},
           SklSerial' /\ r.at # "idle" => \A v \in Task \ {t} : task[v].at = "idle",
           SklSerial' /\ r.at = "fill" => r.view = Skl!Readable(disk),
           unsure' = {} => SklFaithful(r)
    PROVE  SklCore'
<1>1. /\ task' = [v \in Task |-> task'[v]] /\ \A v \in Task : SklEntry(task'[v])
      /\ task'[t] = r /\ \A v \in Task \ {t} : task'[v] = task[v]
  BY SklOneTask DEF SklCore
<1>2. /\ disk' = disk /\ cache' = cache /\ founder' = founder /\ foreign' = foreign /\ faults' = faults
      /\ Skl!Readable(disk)' = Skl!Readable(disk)
  BY DEF Skl!Readable
<1>3. (SklSerial' => SklSerial) /\ (unsure' = {} => unsure = {})
  BY DEF SklSerial
<1>4. SklTables'
  BY <1>1, <1>2 DEF SklCore, SklTables
<1>5. SklIntact' /\ SklOrderly'
  <2>1. \A v \in Task, n \in Name : Skl!Opens(v, n)' <=> Skl!Opens(v, n)
    BY <1>1 DEF Skl!Opens
  <2>2. \A v \in Task, n \in Name : Skl!Opens(v, n) => task'[v] = task[v]
    BY <1>1 DEF Skl!Opens
  <2>3. crossed' = crossed /\ \A n \in Name : Skl!Whole(disk'[n]) <=> Skl!Whole(disk[n])
    BY <1>2
  <2> QED
    BY <1>2, <1>3, <2>1, <2>2, <2>3 DEF SklCore, SklIntact, SklOrderly
<1>6. SklAlone'
  BY <1>1, <1>2, <1>3 DEF SklCore, SklAlone
<1>7. SklListed'
  <2>1. ASSUME NEW h, SklBehind(h) PROVE SklBehind(h)'
    BY <1>1, <2>1 DEF SklBehind
  <2> QED
    BY <1>1, <1>2, <1>3, <2>1 DEF SklCore, SklListed
<1>8. SklAuthored'
  <2>1. ASSUME unsure = {}, unsure' = {}, NEW v \in Task PROVE SklFaithful(task[v])'
    BY <1>1, <1>2, <2>1 DEF SklCore, SklAuthored, SklFaithful
  <2> QED
    BY <1>2, <1>3, <2>1 DEF SklCore, SklAuthored
<1> QED
  BY <1>4, <1>5, <1>6, <1>7, <1>8 DEF SklCore

\* What is decided by the directory's own content has its authors.
LEMMA SklDecidedFaithful ==
    ASSUME Skl!SkillsAssumption, SklCore, unsure = {}, NEW t \in Task, task[t].at \in {"scan", "fill"},
           NEW view, view = Skl!Readable(disk)
    PROVE  SklFaithful(Skl!Decided(task[t], view))
<1> DEFINE k == task[t]
<1>1. SklEntry(k) /\ k.at # "idle" /\ k.at \in {"scan", "fill"} /\ k.name \in Name /\ ops \in 0..MaxOps
  BY DEF SklCore, SklTables, SklEntry
<1>2. SklListing(view) /\ (k.name \in DOMAIN view <=> disk[k.name] \in Skl!Skill \ {None, Damaged, Torn})
      /\ (k.name \in DOMAIN view => view[k.name] = disk[k.name])
  BY <1>1, SklReadableListing DEF SklCore
<1>3. PICK r : r = Skl!Decided(k, view)
  OBVIOUS
<1>4. r.at = "create" \/ r.at \notin {"create", "write"}
  BY <1>1, <1>2, <1>3, SklDecidedWell
<1>5. ASSUME r.at = "create"
      PROVE  r.new.author = IF founder[r.name] = None THEN r.by ELSE founder[r.name]
  <2>1. /\ r.new.author = IF k.name \in DOMAIN view THEN view[k.name].author ELSE k.by
        /\ r.name = k.name /\ r.by = k.by
    BY <1>1, <1>2, <1>3, <1>5, SklDecidedWell
  <2>2. disk[k.name] \in Skl!Skill \cup {None, Damaged, Torn} /\ (founder[k.name] = None <=> disk[k.name] = None)
    BY <1>1 DEF SklCore, SklTables
  <2>3. disk[k.name] \notin {Damaged, Torn}
    <3>1. SklSerial /\ \A v \in Task \ {t} : task[v].at = "idle"
      BY <1>1, SklSole DEF SklSerial
    <3>2. \A v \in Task : ~Skl!Opens(v, k.name)
      BY <3>1 DEF Skl!Opens
    <3> QED
      BY <1>1, <3>1, <3>2 DEF SklCore, SklOrderly
  <2>4. disk[k.name] \in Skl!Skill => disk[k.name].author = founder[k.name]
    BY <1>1 DEF SklCore, SklAuthored
  <2>5. CASE disk[k.name] = None
    BY <1>2, <2>1, <2>2, <2>5
  <2>6. CASE disk[k.name] # None
    BY <1>2, <2>1, <2>2, <2>3, <2>4, <2>6 DEF Skl!SkillsAssumption
  <2> QED
    BY <2>5, <2>6
<1> QED
  BY <1>3, <1>4, <1>5 DEF SklFaithful
-----------------------------------------------------------------------------
LEMMA SklStartKeeps ==
    ASSUME Skl!SkillsAssumption, SklCore, NEW t \in Task, Skl!Start(t)
    PROVE  SklCore'
<1>0. PICK h \in SkillHandle, n \in Name, u \in User, v \in User :
         \E o \in OpsOf(h) :
            task' = [task EXCEPT ![t] = [Skl!Idle EXCEPT !.at = "scan", !.op = o, !.via = h, !.by = u, !.name = n, !.who = v]]
  BY DEF Skl!Start
<1>1. PICK o \in OpsOf(h) :
         task' = [task EXCEPT ![t] = [Skl!Idle EXCEPT !.at = "scan", !.op = o, !.via = h, !.by = u, !.name = n, !.who = v]]
  BY <1>0
<1>2. PICK r : r = [Skl!Idle EXCEPT !.at = "scan", !.op = o, !.via = h, !.by = u, !.name = n, !.who = v]
  OBVIOUS
<1>3. r = [at |-> "scan", op |-> o, via |-> h, by |-> u, name |-> n, who |-> v, view |-> <<>>, new |-> None, shut |-> FALSE]
  BY <1>2 DEF Skl!Idle
<1>4. SklEntry(r)
  <2>1. Skl!Idle.view = <<>>
    BY DEF Skl!Idle
  <2>2. SklListing(<<>>)
    BY <2>1, SklIdleEntry DEF SklEntry
  <2> QED
    BY <1>3, <2>2 DEF SklEntry
<1>5. ops' \in 0..MaxOps
  BY DEF Skl!Start, SklCore, SklTables, Skl!SkillsAssumption
<1>6. unsure \subseteq unsure' /\ (SklSerial' => \A v2 \in Task : task[v2].at = "idle")
  BY DEF Skl!Start, SklSerial
<1> QED
  BY <1>1, <1>2, <1>3, <1>4, <1>5, <1>6, SklMoveKeeps DEF Skl!Start, SklFaithful

LEMMA SklScanCachedKeeps ==
    ASSUME Skl!SkillsAssumption, SklCore, NEW t \in Task, Skl!ScanCached(t)
    PROVE  SklCore'
<1>1. PICK view : view = cache[Skl!Via(t)]
  OBVIOUS
<1>2. SklEntry(task[t]) /\ task[t].at = "scan" /\ ops \in 0..MaxOps /\ Skl!Via(t) \in SkillHandle /\ SklListing(view)
  BY <1>1 DEF Skl!ScanCached, SklCore, SklTables, SklEntry, Skl!Via
<1>3. PICK r : r = Skl!Decided(task[t], view)
  OBVIOUS
<1>4. SklEntry(r) /\ r.at \in {"idle", "remove", "create", "copied"}
  BY <1>2, <1>3, SklDecidedWell
<1>5. unsure \subseteq unsure' /\ (SklSerial' => SklSerial)
  BY DEF Skl!ScanCached, SklSerial
<1>6. SklSerial => \A v \in Task \ {t} : task[v].at = "idle"
  BY <1>2, SklSole
<1>7. ASSUME unsure' = {} PROVE SklFaithful(r)
  <2>1. unsure = {} /\ Skl!Via(t) \notin foreign
    BY <1>7 DEF Skl!ScanCached
  <2>2. ~SklBehind(Skl!Via(t)) /\ SklSerial
    BY <1>2, <1>6, <2>1 DEF SklBehind, SklSerial
  <2>3. view = Skl!Readable(disk)
    BY <1>1, <1>2, <2>1, <2>2 DEF Skl!ScanCached, SklCore, SklListed
  <2> QED
    BY <1>2, <1>3, <2>1, <2>3, SklDecidedFaithful
<1> QED
  BY <1>1, <1>2, <1>3, <1>4, <1>5, <1>6, <1>7, SklMoveKeeps DEF Skl!ScanCached

LEMMA SklScanDiskKeeps ==
    ASSUME SklCore, NEW t \in Task, Skl!ScanDisk(t)
    PROVE  SklCore'
<1> DEFINE k == task[t]
<1>1. SklEntry(k) /\ k.at = "scan" /\ ops \in 0..MaxOps
  BY DEF Skl!ScanDisk, SklCore, SklTables
<1>2. PICK view : view = Skl!Readable(disk)
  OBVIOUS
<1>3. PICK r : r = [k EXCEPT !.at = "fill", !.view = view]
  OBVIOUS
<1>4. r = [at |-> "fill", op |-> k.op, via |-> k.via, by |-> k.by, name |-> k.name, who |-> k.who, view |-> view, new |-> k.new, shut |-> k.shut]
  BY <1>1, <1>3 DEF SklEntry
<1>5. SklListing(view)
  BY <1>2, SklReadableListing DEF SklCore
<1>6. SklEntry(r) /\ r.at = "fill" /\ r.view = view
  BY <1>1, <1>4, <1>5 DEF SklEntry
<1>7. task' = [task EXCEPT ![t] = r]
  BY <1>2, <1>3 DEF Skl!ScanDisk, SklCore, SklTables
<1>8. SklSerial => \A v \in Task \ {t} : task[v].at = "idle"
  BY <1>1, SklSole
<1>9. SklFaithful(r) /\ r.at \notin {"write", "forget"} /\ k.at \notin {"write", "forget"}
  BY <1>1, <1>6 DEF SklFaithful
<1>10. UNCHANGED <<disk, cache, founder, crossed, foreign, faults>> /\ ops' \in 0..MaxOps /\ unsure' = unsure
  BY <1>1 DEF Skl!ScanDisk
<1>11. SklSerial' => SklSerial
  BY <1>10 DEF SklSerial
<1> QED
  BY <1>2, <1>6, <1>7, <1>8, <1>9, <1>10, <1>11, SklMoveKeeps

LEMMA SklCopiedKeeps ==
    ASSUME SklCore, NEW t \in Task, Skl!Copied(t) \/ Skl!RemoveGone(t)
    PROVE  SklCore'
<1>1. UNCHANGED <<disk, cache, founder, crossed, foreign, faults>> /\ ops' \in 0..MaxOps /\ unsure' = unsure
  BY DEF Skl!Copied, Skl!RemoveGone, SklCore, SklTables
<1>2. task' = [task EXCEPT ![t] = Skl!Idle] /\ task[t].at \notin {"write", "forget"}
  BY DEF Skl!Copied, Skl!RemoveGone
<1> QED
  BY <1>1, <1>2, SklIdleEntry, SklMoveKeeps DEF SklFaithful

LEMMA SklFillKeeps ==
    ASSUME Skl!SkillsAssumption, SklCore, NEW t \in Task, Skl!Fill(t)
    PROVE  SklCore'
<1> DEFINE k == task[t]
<1>1. SklEntry(k) /\ k.at = "fill" /\ ops \in 0..MaxOps /\ Skl!Via(t) \in SkillHandle /\ SklListing(k.view)
  BY DEF Skl!Fill, SklCore, SklTables, SklEntry, Skl!Via
<1>2. PICK r : r = Skl!Decided(k, k.view)
  OBVIOUS
<1>3. SklEntry(r) /\ r.at \in {"idle", "remove", "create", "copied"}
  BY <1>1, <1>2, SklDecidedWell
<1>4. /\ task' = [v \in Task |-> task'[v]] /\ \A v \in Task : SklEntry(task'[v])
      /\ task'[t] = r /\ \A v \in Task \ {t} : task'[v] = task[v]
  BY <1>2, <1>3, SklOneTask DEF Skl!Fill, SklCore
<1>5. /\ disk' = disk /\ founder' = founder /\ faults' = faults /\ ops' = ops /\ unsure' = unsure
      /\ Skl!Readable(disk)' = Skl!Readable(disk) /\ foreign' = foreign \ {Skl!Via(t)} /\ crossed' = crossed
  BY DEF Skl!Fill, Skl!Readable
<1>6. /\ cache' = [h \in SkillHandle |-> cache'[h]] /\ cache'[Skl!Via(t)] = k.view
      /\ \A h \in SkillHandle \ {Skl!Via(t)} : cache'[h] = cache[h]
  BY <1>1 DEF Skl!Fill, SklCore, SklTables
<1>7. SklTables'
  BY <1>1, <1>4, <1>5, <1>6 DEF SklCore, SklTables
<1>14. /\ \A v \in Task, n \in Name : (Skl!Opens(v, n)' <=> Skl!Opens(v, n)) /\ (Skl!Opens(v, n) => task'[v] = task[v])
       /\ \A n \in Name : Skl!Whole(disk'[n]) <=> Skl!Whole(disk[n])
  BY <1>1, <1>3, <1>4, <1>5 DEF Skl!Opens
<1>8. SklIntact'
  BY <1>5, <1>14 DEF SklCore, SklIntact
<1>9. ASSUME SklSerial PROVE k.view = Skl!Readable(disk) /\ \A v \in Task \ {t} : task[v].at = "idle"
  BY <1>1, <1>9, SklSole DEF SklCore, SklListed
<1>10. SklSerial' => SklSerial
  BY <1>5 DEF SklSerial
<1>11. SklAlone'
  BY <1>4, <1>5, <1>9, <1>10 DEF SklCore, SklAlone
<1>15. SklOrderly'
  BY <1>5, <1>10, <1>14 DEF SklCore, SklOrderly
<1>12. SklListed'
  <2>1. ASSUME SklSerial, NEW h \in SkillHandle PROVE ~SklBehind(h)
    BY <1>1, <1>9, <2>1 DEF SklBehind
  <2> QED
    BY <1>3, <1>4, <1>5, <1>6, <1>9, <1>10, <2>1 DEF SklCore, SklListed
<1>13. SklAuthored'
  <2>1. ASSUME unsure = {}, NEW v \in Task PROVE SklFaithful(task[v])'
    <3>1. SklSerial
      BY <2>1 DEF SklSerial
    <3>2. SklFaithful(r)
      BY <1>1, <1>2, <1>9, <2>1, <3>1, SklDecidedFaithful
    <3>3. CASE v = t
      BY <1>4, <1>5, <3>2, <3>3 DEF SklFaithful
    <3>4. CASE v # t
      BY <1>4, <1>5, <2>1, <3>4 DEF SklCore, SklAuthored, SklFaithful
    <3> QED
      BY <3>3, <3>4
  <2> QED
    BY <1>5, <2>1 DEF SklCore, SklAuthored
<1> QED
  BY <1>7, <1>8, <1>11, <1>12, <1>13, <1>15 DEF SklCore

\* One task goes on; those whose file is removed are shut, and stay where they are.
SklSame(k, j) == /\ k.at = j.at /\ k.op = j.op /\ k.via = j.via /\ k.by = j.by /\ k.name = j.name
                 /\ k.who = j.who /\ k.view = j.view /\ k.new = j.new

LEMMA SklShutWell ==
    ASSUME SklTables, NEW t \in Task, NEW r, SklEntry(r), NEW n, task' = Skl!ShutFor(t, n, r)
    PROVE  /\ task' = [v \in Task |-> task'[v]] /\ \A v \in Task : SklEntry(task'[v])
           /\ task'[t] = r /\ \A v \in Task \ {t} : SklSame(task'[v], task[v])
           /\ \A v \in Task \ {t} : ~Skl!Opens(v, n) => task'[v] = task[v]
           /\ \A v \in Task \ {t} : ~Skl!Opens(v, n)'
<1>1. task' = [v \in Task |-> task'[v]] /\ task'[t] = r
      /\ \A v \in Task \ {t} : task'[v] = IF Skl!Opens(v, n) THEN [task[v] EXCEPT !.shut = TRUE] ELSE task[v]
  BY DEF Skl!ShutFor
<1>2. ASSUME NEW v \in Task \ {t}, Skl!Opens(v, n)
      PROVE  SklEntry(task'[v]) /\ SklSame(task'[v], task[v]) /\ task'[v].shut
  <2>1. PICK k : k = task[v]
    OBVIOUS
  <2>2. SklEntry(k) /\ k.at = "write"
    BY <1>2, <2>1 DEF SklTables, Skl!Opens
  <2>3. PICK j : j = [k EXCEPT !.shut = TRUE]
    OBVIOUS
  <2>4. j = [at |-> k.at, op |-> k.op, via |-> k.via, by |-> k.by, name |-> k.name, who |-> k.who, view |-> k.view,
             new |-> k.new, shut |-> TRUE]
    BY <2>2, <2>3 DEF SklEntry
  <2>5. SklEntry(j) /\ SklSame(j, k) /\ j.shut
    BY <2>2, <2>4 DEF SklEntry, SklSame
  <2> QED
    BY <1>1, <1>2, <2>1, <2>3, <2>5
<1>3. ASSUME NEW v \in Task \ {t}, ~Skl!Opens(v, n)
      PROVE  task'[v] = task[v] /\ SklEntry(task'[v]) /\ SklSame(task'[v], task[v])
  BY <1>1, <1>3 DEF SklTables, SklSame
<1>4. \A v \in Task \ {t} : ~Skl!Opens(v, n)'
  BY <1>2, <1>3 DEF Skl!Opens
<1> QED
  BY <1>1, <1>2, <1>3, <1>4

\* A skill with a body that is no text of anybody is a skill.
LEMMA SklSpoiltWell ==
    ASSUME NEW s \in Skl!Skill
    PROVE  [s EXCEPT !.body = Torn] \in Skl!Skill /\ [s EXCEPT !.body = Torn].author = s.author
<1>1. s = [author |-> s.author, editors |-> s.editors, body |-> s.body] /\ s.author \in User /\ s.editors \in SUBSET User
  BY DEF Skl!Skill
<1>2. [s EXCEPT !.body = Torn] = [author |-> s.author, editors |-> s.editors, body |-> Torn]
  BY <1>1
<1> QED
  BY <1>1, <1>2 DEF Skl!Skill

\* A file of the directory is changed to something that is no file before, if
\* there was none.
LEMMA SklOneFile ==
    ASSUME Skl!SkillsAssumption, SklTables, NEW n \in Name, NEW d \in Skl!Skill \cup {Damaged, Torn},
           disk' = [disk EXCEPT ![n] = d],
           \/ founder' = founder /\ disk[n] # None
           \/ \E u \in User : founder' = Skl!Founded(n, u)
    PROVE  /\ disk' = [m \in Name |-> disk'[m]] /\ disk'[n] = d /\ \A m \in Name \ {n} : disk'[m] = disk[m]
           /\ \A m \in Name : disk'[m] \in Skl!Skill \cup {None, Damaged, Torn}
           /\ founder' = [m \in Name |-> founder'[m]]
           /\ \A m \in Name : founder'[m] \in User \cup {None} /\ (founder'[m] = None <=> disk'[m] = None)
<1>1. /\ disk = [m \in Name |-> disk[m]] /\ founder = [m \in Name |-> founder[m]]
      /\ \A m \in Name : disk[m] \in Skl!Skill \cup {None, Damaged, Torn}
      /\ \A m \in Name : founder[m] \in User \cup {None} /\ (founder[m] = None <=> disk[m] = None)
  BY DEF SklTables
<1>2. /\ disk' = [m \in Name |-> disk'[m]] /\ disk'[n] = d /\ \A m \in Name \ {n} : disk'[m] = disk[m]
  BY <1>1
<1>3. d # None
  BY DEF Skl!SkillsAssumption
<1>4. CASE founder' = founder /\ disk[n] # None
  BY <1>1, <1>2, <1>3, <1>4
<1>5. ASSUME NEW u \in User, founder' = Skl!Founded(n, u)
      PROVE  /\ founder' = [m \in Name |-> founder'[m]]
             /\ \A m \in Name : founder'[m] \in User \cup {None} /\ (founder'[m] = None <=> disk'[m] = None)
  <2>1. founder' = [m \in Name |-> founder'[m]] /\ (founder'[n] = IF founder[n] = None THEN u ELSE founder[n])
        /\ \A m \in Name \ {n} : founder'[m] = founder[m]
    BY <1>1, <1>5 DEF Skl!Founded
  <2>2. u # None
    BY DEF Skl!SkillsAssumption
  <2> QED
    BY <1>1, <1>2, <1>3, <2>1, <2>2
<1> QED
  BY <1>1, <1>2, <1>4, <1>5

LEMMA SklScanFaultsKeep ==
    ASSUME Skl!SkillsAssumption, SklCore, NEW t \in Task, Skl!ScanFails(t) \/ Skl!ScanSkips(t)
    PROVE  SklCore'
<1> DEFINE k == task[t]
<1>1. /\ faults' = faults + 1 /\ unsure' = unsure \cup {"fault"} /\ ops' = ops /\ cache' = cache /\ founder' = founder
      /\ disk' = disk
  BY DEF Skl!ScanFails, Skl!ScanSkips
<1>2. SklEntry(k) /\ ops \in 0..MaxOps /\ faults \in Nat
  BY DEF SklCore, SklTables
<1>5. k.at = "scan" /\ faults' \in Nat
  <2>1. k.at = "scan"
    BY DEF Skl!ScanFails, Skl!ScanSkips
  <2>2. faults' \in Nat
    BY <1>1, <1>2
  <2> QED
    BY <2>1, <2>2
<1>3. CASE Skl!ScanFails(t)
  <2>1. task' = [task EXCEPT ![t] = Skl!Decided(k, <<>>)]
    BY <1>3 DEF Skl!ScanFails
  <2>2. PICK r : r = Skl!Decided(k, <<>>)
    OBVIOUS
  <2>3. SklListing(<<>>)
    <3>1. Skl!Idle.view = <<>>
      BY DEF Skl!Idle
    <3> QED
      BY <3>1, SklIdleEntry DEF SklEntry
  <2>4. SklEntry(r)
    BY <1>2, <1>5, <2>2, <2>3, SklDecidedWell
  <2>5. task' = [v \in Task |-> task'[v]] /\ \A v \in Task : SklEntry(task'[v])
    BY <2>1, <2>2, <2>4, SklOneTask DEF SklCore
  <2>6. SklTables'
    BY <1>1, <1>2, <1>5, <2>5 DEF SklCore, SklTables
  <2> QED
    BY <1>1, <2>6, SklFaultKeeps
<1>4. CASE Skl!ScanSkips(t)
  <2>1. PICK n \in DOMAIN Skl!Readable(disk) :
           task' = [task EXCEPT ![t] = [@ EXCEPT !.at = "fill", !.view = [m \in DOMAIN Skl!Readable(disk) \ {n} |-> disk[m]]]]
    BY <1>4 DEF Skl!ScanSkips
  <2>2. PICK view : view = [m \in DOMAIN Skl!Readable(disk) \ {n} |-> disk[m]]
    OBVIOUS
  <2>3. SklListing(view)
    BY <2>2, SklReadableListing DEF SklCore, SklListing
  <2>4. PICK r : r = [k EXCEPT !.at = "fill", !.view = view]
    OBVIOUS
  <2>5. r = [at |-> "fill", op |-> k.op, via |-> k.via, by |-> k.by, name |-> k.name, who |-> k.who, view |-> view,
             new |-> k.new, shut |-> k.shut]
    BY <1>2, <2>4 DEF SklEntry
  <2>6. SklEntry(r)
    BY <1>2, <1>5, <2>3, <2>5 DEF SklEntry
  <2>7. task' = [task EXCEPT ![t] = r]
    BY <2>1, <2>2, <2>4 DEF SklCore, SklTables
  <2>8. task' = [v \in Task |-> task'[v]] /\ \A v \in Task : SklEntry(task'[v])
    BY <2>6, <2>7, SklOneTask DEF SklCore
  <2>9. SklTables'
    BY <1>1, <1>2, <1>5, <2>8 DEF SklCore, SklTables
  <2> QED
    BY <1>1, <2>9, SklFaultKeeps
<1> QED
  BY <1>3, <1>4

LEMMA SklSaveFaultsKeep ==
    ASSUME Skl!SkillsAssumption, SklCore, SklStanding, NEW t \in Task, Skl!CreateFails(t) \/ Skl!WriteFails(t)
    PROVE  SklCore'
<1> DEFINE k == task[t]
<1>1. faults' = faults + 1 /\ unsure' = unsure \cup {"fault"} /\ ops' = ops /\ cache' = cache
      /\ task' = [task EXCEPT ![t] = Skl!Idle]
  BY DEF Skl!CreateFails, Skl!WriteFails
<1>2. SklEntry(k) /\ k.at \in {"create", "write"} /\ faults' \in Nat /\ SklTables
  BY <1>1 DEF SklCore, SklTables, Skl!CreateFails, Skl!WriteFails
<1>3. k.name \in Name /\ k.by \in User /\ k.new \in Skl!Skill
  BY <1>2 DEF SklEntry
<1>4. task' = [v \in Task |-> task'[v]] /\ \A v \in Task : SklEntry(task'[v])
  BY <1>1, SklIdleEntry, SklOneTask DEF SklCore
<1>5. CASE disk' = disk /\ founder' = founder
  <2>1. SklTables'
    BY <1>1, <1>2, <1>4, <1>5 DEF SklTables
  <2> QED
    BY <1>1, <2>1, SklFaultKeeps
<1>6. ASSUME NEW d \in Skl!Skill \cup {Damaged, Torn}, disk' = [disk EXCEPT ![k.name] = d],
             \/ founder' = founder /\ disk[k.name] # None
             \/ founder' = Skl!Founded(k.name, k.by)
      PROVE  SklCore'
  <2>1. SklTables'
    BY <1>1, <1>2, <1>3, <1>4, <1>6, SklOneFile DEF SklTables
  <2> QED
    BY <1>1, <2>1, SklFaultKeeps
<1>7. CASE Skl!CreateFails(t)
  BY <1>5, <1>6, <1>7 DEF Skl!CreateFails
<1>8. CASE Skl!WriteFails(t)
  <2>1. PICK d \in {disk[k.name]} \cup (IF k.shut THEN {} ELSE Skl!Spoilt(k.new)) : disk' = [disk EXCEPT ![k.name] = d]
    BY <1>8 DEF Skl!WriteFails
  <2>2. founder' = founder
    BY <1>8 DEF Skl!WriteFails
  <2>3. CASE d = disk[k.name]
    BY <1>2, <1>5, <2>1, <2>2, <2>3 DEF SklTables
  <2>4. CASE d # disk[k.name]
    <3>1. ~k.shut /\ d \in Skl!Spoilt(k.new)
      BY <2>1, <2>4
    <3>2. d \in Skl!Skill \cup {Damaged, Torn}
      BY <1>3, <3>1, SklSpoiltWell DEF Skl!Spoilt
    <3>3. disk[k.name] # None
      BY <1>2, <1>3, <1>8, <3>1 DEF Skl!WriteFails, SklEntry, SklStanding, Skl!Opens
    <3> QED
      BY <1>6, <2>1, <2>2, <3>2, <3>3
  <2> QED
    BY <2>3, <2>4
<1> QED
  BY <1>7, <1>8

LEMMA SklRemoveFailsKeeps ==
    ASSUME Skl!SkillsAssumption, SklCore, NEW t \in Task, Skl!RemoveFails(t)
    PROVE  SklCore'
<1> DEFINE k == task[t]
<1>1. faults' = faults + 1 /\ unsure' = unsure \cup {"fault"} /\ ops' = ops /\ cache' = cache /\ founder' = founder
      /\ disk[k.name] # None
  BY DEF Skl!RemoveFails
<1>2. SklEntry(k) /\ k.at = "remove" /\ faults' \in Nat /\ SklTables
  BY <1>1 DEF SklCore, SklTables, Skl!RemoveFails
<1>3. k.name \in Name
  BY <1>2 DEF SklEntry
<1>4. CASE disk' = disk /\ task' = [task EXCEPT ![t] = Skl!Idle]
  <2>1. task' = [v \in Task |-> task'[v]] /\ \A v \in Task : SklEntry(task'[v])
    BY <1>4, SklIdleEntry, SklOneTask DEF SklCore
  <2>2. SklTables'
    BY <1>1, <1>2, <1>4, <2>1 DEF SklTables
  <2> QED
    BY <1>1, <2>2, SklFaultKeeps
<1>5. CASE disk' = [disk EXCEPT ![k.name] = Damaged] /\ task' = Skl!ShutFor(t, k.name, Skl!Idle)
  <2>1. task' = [v \in Task |-> task'[v]] /\ \A v \in Task : SklEntry(task'[v])
    BY <1>2, <1>5, SklIdleEntry, SklShutWell
  <2>2. SklTables'
    BY <1>1, <1>2, <1>3, <1>5, <2>1, SklOneFile DEF SklTables
  <2> QED
    BY <1>1, <2>2, SklFaultKeeps
<1> QED
  BY <1>4, <1>5 DEF Skl!RemoveFails

LEMMA SklCreateKeeps ==
    ASSUME Skl!SkillsAssumption, SklCore, NEW t \in Task, Skl!Create(t)
    PROVE  SklCore'
<1> DEFINE k == task[t]
<1>1. /\ k = [at |-> k.at, op |-> k.op, via |-> k.via, by |-> k.by, name |-> k.name, who |-> k.who, view |-> k.view, new |-> k.new, shut |-> k.shut]
      /\ SklEntry(k) /\ k.at = "create" /\ k.via \in SkillHandle /\ k.by \in User /\ k.name \in Name
  BY DEF Skl!Create, SklCore, SklTables, SklEntry
<1>2. PICK r : r = [k EXCEPT !.at = "write"]
  OBVIOUS
<1>3. r = [at |-> "write", op |-> k.op, via |-> k.via, by |-> k.by, name |-> k.name, who |-> k.who, view |-> k.view, new |-> k.new, shut |-> k.shut]
  BY <1>1, <1>2
<1>4. SklEntry(r) /\ r.at = "write" /\ r.via = k.via /\ r.name = k.name /\ r.by = k.by /\ r.new = k.new
  BY <1>1, <1>3 DEF SklEntry
<1>5. task' = [task EXCEPT ![t] = r]
  BY <1>2 DEF Skl!Create, SklCore, SklTables
<1>6. /\ task' = [v \in Task |-> task'[v]] /\ \A v \in Task : SklEntry(task'[v])
      /\ task'[t] = r /\ \A v \in Task \ {t} : task'[v] = task[v]
  BY <1>4, <1>5, SklOneTask DEF SklCore
<1>7. /\ disk' = [n \in Name |-> disk'[n]] /\ disk'[k.name] = Damaged /\ \A n \in Name \ {k.name} : disk'[n] = disk[n]
      /\ founder' = [n \in Name |-> founder'[n]] /\ \A n \in Name \ {k.name} : founder'[n] = founder[n]
      /\ founder'[k.name] = IF founder[k.name] = None THEN k.by ELSE founder[k.name]
  <2>1. disk = [n \in Name |-> disk[n]] /\ founder = [n \in Name |-> founder[n]]
    BY DEF SklCore, SklTables
  <2>2. disk' = [disk EXCEPT ![k.name] = Damaged]
    BY DEF Skl!Create
  <2>3. founder' = [founder EXCEPT ![k.name] = IF @ = None THEN k.by ELSE @]
    BY DEF Skl!Create, Skl!Founded
  <2> QED
    BY <1>1, <2>1, <2>2, <2>3
<1>8. cache' = cache /\ ops' = ops /\ faults' = faults /\ unsure' = unsure /\ foreign' = foreign \cup (SkillHandle \ {k.via})
  BY DEF Skl!Create, Skl!Via
<1>9. SklTables'
  BY <1>1, <1>6, <1>7, <1>8 DEF SklCore, SklTables, Skl!SkillsAssumption
<1>15. /\ \A v \in Task \ {t}, n \in Name : (Skl!Opens(v, n)' <=> Skl!Opens(v, n)) /\ task'[v] = task[v]
       /\ \A n \in Name : Skl!Opens(t, n)' <=> n = k.name
       /\ \A n \in Name : ~Skl!Opens(t, n)
  BY <1>1, <1>3, <1>6 DEF Skl!Opens, SklEntry
<1>16. crossed' = IF k.new.body = Torn \/ \E v \in Task \ {t} : Skl!Opens(v, k.name)
                  THEN crossed \cup {k.name} ELSE crossed \ {k.name}
  BY DEF Skl!Create
<1>10. SklIntact'
  <2> SUFFICES ASSUME faults = 0, NEW n \in Name, n \notin crossed'
               PROVE  /\ \A u, v \in Task : Skl!Opens(u, n)' /\ Skl!Opens(v, n)' => u = v
                      /\ \A u \in Task : Skl!Opens(u, n)' => disk'[n] = Damaged /\ task'[u].new.body # Torn
                      /\ Skl!Whole(disk'[n]) \/ \E u \in Task : Skl!Opens(u, n)'
    BY <1>8 DEF SklIntact
  <2>1. CASE n = k.name
    <3>1. k.new.body # Torn /\ \A v \in Task \ {t} : ~Skl!Opens(v, n)
      BY <1>16, <2>1
    <3> QED
      BY <1>4, <1>6, <1>7, <1>15, <2>1, <3>1
  <2>2. CASE n # k.name
    <3>1. n \notin crossed
      BY <1>16, <2>2
    <3> QED
      BY <1>7, <1>15, <2>2, <3>1 DEF SklCore, SklIntact
  <2> QED
    BY <2>1, <2>2
<1>11. SklSerial' => SklSerial /\ faults = 0 /\ \A v \in Task \ {t} : task[v].at = "idle"
  BY <1>1, <1>8, SklSole DEF SklSerial
<1>12. SklAlone'
  BY <1>6, <1>8, <1>11 DEF SklAlone
<1>17. SklOrderly'
  BY <1>7, <1>11, <1>15 DEF SklCore, SklOrderly, Skl!SkillsAssumption
<1>13. SklListed'
  <2>1. SklBehind(k.via)'
    BY <1>4, <1>6 DEF SklBehind
  <2> QED
    BY <1>4, <1>6, <1>8, <1>11, <2>1 DEF SklListed
<1>14. SklAuthored'
  <2>1. SUFFICES ASSUME unsure = {}
                 PROVE  /\ \A n \in Name : disk'[n] \in Skl!Skill => disk'[n].author = founder'[n]
                        /\ \A v \in Task : SklFaithful(task[v])'
    BY <1>8 DEF SklAuthored
  <2>2. k.new.author = IF founder[k.name] = None THEN k.by ELSE founder[k.name]
    BY <1>1, <2>1 DEF SklCore, SklAuthored, SklFaithful
  <2>3. founder'[k.name] # None
    BY <1>1, <1>7 DEF Skl!SkillsAssumption
  <2>4. SklFaithful(task[t])'
    BY <1>4, <1>6, <1>7, <2>2, <2>3 DEF SklFaithful
  <2>5. ASSUME NEW v \in Task \ {t} PROVE SklFaithful(task[v])'
    BY <1>6, <1>8, <1>11, <2>1, <2>5 DEF SklFaithful, SklSerial
  <2>6. Damaged \notin Skl!Skill
    BY DEF Skl!SkillsAssumption
  <2> QED
    BY <1>7, <2>1, <2>4, <2>5, <2>6 DEF SklCore, SklAuthored
<1> QED
  BY <1>9, <1>10, <1>12, <1>13, <1>14, <1>17 DEF SklCore

LEMMA SklWriteKeeps ==
    ASSUME Skl!SkillsAssumption, SklCore, SklStanding, NEW t \in Task, Skl!Write(t)
    PROVE  SklCore'
<1> DEFINE k == task[t]
<1>1. /\ k = [at |-> k.at, op |-> k.op, via |-> k.via, by |-> k.by, name |-> k.name, who |-> k.who, view |-> k.view, new |-> k.new, shut |-> k.shut]
      /\ SklEntry(k) /\ k.at = "write" /\ k.via \in SkillHandle /\ k.name \in Name /\ k.new \in Skl!Skill
  BY DEF Skl!Write, SklCore, SklTables, SklEntry
<1>2. PICK r : r = [k EXCEPT !.at = "forget"]
  OBVIOUS
<1>3. r = [at |-> "forget", op |-> k.op, via |-> k.via, by |-> k.by, name |-> k.name, who |-> k.who, view |-> k.view, new |-> k.new, shut |-> k.shut]
  BY <1>1, <1>2
<1>4. SklEntry(r) /\ r.at = "forget" /\ r.via = k.via
  BY <1>1, <1>3 DEF SklEntry
<1>5. task' = [task EXCEPT ![t] = r]
  BY <1>2 DEF Skl!Write, SklCore, SklTables
<1>6. /\ task' = [v \in Task |-> task'[v]] /\ \A v \in Task : SklEntry(task'[v])
      /\ task'[t] = r /\ \A v \in Task \ {t} : task'[v] = task[v]
  BY <1>4, <1>5, SklOneTask DEF SklCore
<1>7. PICK d \in Skl!Written(t) : disk' = [disk EXCEPT ![k.name] = d]
  BY DEF Skl!Write
<1>8. /\ disk' = [n \in Name |-> disk'[n]] /\ disk'[k.name] = d /\ \A n \in Name \ {k.name} : disk'[n] = disk[n]
  BY <1>1, <1>7 DEF SklCore, SklTables
<1>9. cache' = cache /\ ops' = ops /\ faults' = faults /\ unsure' = unsure /\ foreign' = foreign /\ founder' = founder
      /\ crossed' = crossed
  BY DEF Skl!Write
<1>10. k.new \notin {None, Damaged, Torn} /\ None \notin {Damaged, Torn} /\ Damaged # Torn
  BY <1>1 DEF Skl!SkillsAssumption
<1>11. /\ k.shut => d = disk[k.name]
       /\ ~k.shut /\ disk[k.name] = Damaged => d = k.new
       /\ ~k.shut => d \in {k.new, [k.new EXCEPT !.body = Torn], Torn}
       /\ Skl!Opens(t, k.name) <=> ~k.shut
  BY <1>1, <1>7 DEF Skl!Written, Skl!Spoilt, Skl!Opens
<1>12. ~k.shut => disk[k.name] # None /\ d \in Skl!Skill \cup {Torn}
  BY <1>1, <1>11, SklSpoiltWell DEF SklStanding
<1>13. SklTables'
  <2>1. \A n \in Name : disk'[n] \in Skl!Skill \cup {None, Damaged, Torn} /\ (founder[n] = None <=> disk'[n] = None)
    BY <1>1, <1>8, <1>10, <1>11, <1>12 DEF SklCore, SklTables, Skl!SkillsAssumption
  <2> QED
    BY <1>6, <1>8, <1>9, <2>1 DEF SklCore, SklTables
<1>14. /\ \A v \in Task \ {t}, n \in Name : (Skl!Opens(v, n)' <=> Skl!Opens(v, n)) /\ task'[v] = task[v]
       /\ \A n \in Name : ~Skl!Opens(t, n)'
       /\ \A n \in Name : Skl!Opens(t, n) => n = k.name
  BY <1>1, <1>4, <1>6 DEF Skl!Opens
<1>15. SklIntact'
  <2> SUFFICES ASSUME faults = 0, NEW n \in Name, n \notin crossed
               PROVE  /\ \A u, v \in Task : Skl!Opens(u, n)' /\ Skl!Opens(v, n)' => u = v
                      /\ \A u \in Task : Skl!Opens(u, n)' => disk'[n] = Damaged /\ task'[u].new.body # Torn
                      /\ Skl!Whole(disk'[n]) \/ \E u \in Task : Skl!Opens(u, n)'
    BY <1>9 DEF SklIntact
  <2>1. /\ \A u, v \in Task : Skl!Opens(u, n) /\ Skl!Opens(v, n) => u = v
        /\ \A u \in Task : Skl!Opens(u, n) => disk[n] = Damaged /\ task[u].new.body # Torn
        /\ Skl!Whole(disk[n]) \/ \E u \in Task : Skl!Opens(u, n)
    BY DEF SklCore, SklIntact
  <2>2. CASE Skl!Opens(t, n)
    <3>1. n = k.name /\ ~k.shut /\ disk[n] = Damaged /\ k.new.body # Torn
      BY <1>11, <1>14, <2>1, <2>2
    <3>2. disk'[n] = k.new
      BY <1>8, <1>11, <3>1
    <3>3. Skl!Whole(disk'[n])
      BY <1>10, <3>1, <3>2 DEF Skl!Whole
    <3>4. \A v \in Task : ~Skl!Opens(v, n)'
      BY <1>14, <2>1, <2>2
    <3> QED
      BY <3>3, <3>4
  <2>3. CASE ~Skl!Opens(t, n)
    <3>1. disk'[n] = disk[n]
      BY <1>8, <1>11, <2>3
    <3> QED
      BY <1>14, <2>1, <2>3, <3>1
  <2> QED
    BY <2>2, <2>3
<1>16. SklSerial' => SklSerial /\ faults = 0 /\ \A v \in Task \ {t} : task[v].at = "idle"
  BY <1>1, <1>9, SklSole DEF SklSerial
<1>17. SklAlone'
  BY <1>6, <1>9, <1>16 DEF SklAlone
<1>18. ASSUME SklSerial PROVE d = (IF k.shut THEN disk[k.name] ELSE k.new) /\ \A v \in Task \ {t}, n \in Name : ~Skl!Opens(v, n)
  <2>1. ~k.shut => disk[k.name] = Damaged
    BY <1>1, <1>11, <1>18 DEF SklCore, SklOrderly
  <2>2. \A v \in Task \ {t} : task[v].at = "idle"
    BY <1>1, <1>18, SklSole
  <2> QED
    BY <1>11, <2>1, <2>2 DEF Skl!Opens
<1>19. SklOrderly'
  <2> SUFFICES ASSUME SklSerial, NEW n \in Name
               PROVE  disk'[n] # Torn /\ (disk'[n] = Damaged <=> \E v \in Task : Skl!Opens(v, n)')
    BY <1>16 DEF SklOrderly
  <2>1. disk[n] # Torn /\ (disk[n] = Damaged <=> \E v \in Task : Skl!Opens(v, n))
    BY DEF SklCore, SklOrderly
  <2>2. \A v \in Task : ~Skl!Opens(v, n)'
    BY <1>14, <1>18
  <2>3. disk[n] = Damaged => Skl!Opens(t, n)
    BY <1>18, <2>1
  <2>4. CASE Skl!Opens(t, n)
    BY <1>8, <1>10, <1>11, <1>14, <1>18, <2>2, <2>4
  <2>5. CASE ~Skl!Opens(t, n)
    <3>1. disk'[n] = disk[n]
      BY <1>8, <1>11, <2>5
    <3> QED
      BY <2>1, <2>2, <2>3, <2>5, <3>1
  <2> QED
    BY <2>4, <2>5
<1>20. SklListed'
  <2>1. SklBehind(k.via)'
    BY <1>4, <1>6 DEF SklBehind
  <2>2. SklSerial => SkillHandle \ {k.via} \subseteq foreign
    BY <1>1 DEF SklCore, SklListed
  <2> QED
    BY <1>4, <1>6, <1>9, <1>16, <2>1, <2>2 DEF SklListed
<1>21. SklAuthored'
  <2>1. SUFFICES ASSUME unsure = {}
                 PROVE  /\ \A n \in Name : disk'[n] \in Skl!Skill => disk'[n].author = founder[n]
                        /\ \A v \in Task : SklFaithful(task[v])'
    BY <1>9 DEF SklAuthored
  <2>2. k.new.author = IF founder[k.name] = None THEN k.by ELSE founder[k.name]
    BY <1>1, <2>1 DEF SklCore, SklAuthored, SklFaithful
  <2>3. founder[k.name] = None <=> disk[k.name] = None
    BY <1>1 DEF SklCore, SklTables
  <2>4. SklSerial
    BY <2>1 DEF SklSerial
  <2>5. disk'[k.name] \in Skl!Skill => disk'[k.name].author = founder[k.name]
    <3>1. CASE k.shut
      BY <1>1, <1>8, <1>18, <2>1, <2>4, <3>1 DEF SklCore, SklAuthored
    <3>2. CASE ~k.shut
      BY <1>8, <1>12, <1>18, <2>2, <2>3, <2>4, <3>2
    <3> QED
      BY <3>1, <3>2
  <2>6. ASSUME NEW v \in Task PROVE SklFaithful(task[v])'
    BY <1>4, <1>6, <1>9, <1>16, <2>1, <2>6 DEF SklFaithful, SklSerial
  <2> QED
    BY <1>8, <2>1, <2>5, <2>6 DEF SklCore, SklAuthored
<1> QED
  BY <1>13, <1>15, <1>17, <1>19, <1>20, <1>21 DEF SklCore

LEMMA SklForgetKeeps ==
    ASSUME SklCore, NEW t \in Task, Skl!Forget(t)
    PROVE  SklCore'
<1>1. SklEntry(task[t]) /\ task[t].at = "forget" /\ Skl!Via(t) \in SkillHandle
  BY DEF Skl!Forget, SklCore, SklTables, SklEntry, Skl!Via
<1>2. task' = [task EXCEPT ![t] = Skl!Idle]
  BY DEF Skl!Forget
<1>3. /\ task' = [v \in Task |-> task'[v]] /\ \A v \in Task : SklEntry(task'[v])
      /\ task'[t] = Skl!Idle /\ \A v \in Task \ {t} : task'[v] = task[v]
  BY <1>2, SklIdleEntry, SklOneTask DEF SklCore
<1>4. /\ disk' = disk /\ ops' = ops /\ faults' = faults /\ unsure' = unsure /\ foreign' = foreign /\ founder' = founder
      /\ Skl!Readable(disk)' = Skl!Readable(disk)
  BY DEF Skl!Forget, Skl!Readable
<1>5. /\ cache' = [h \in SkillHandle |-> cache'[h]] /\ cache'[Skl!Via(t)] = None
      /\ \A h \in SkillHandle \ {Skl!Via(t)} : cache'[h] = cache[h]
  BY <1>1 DEF Skl!Forget, SklCore, SklTables
<1>6. SklTables'
  BY <1>1, <1>3, <1>4, <1>5 DEF SklCore, SklTables
<1>12. /\ \A v \in Task, n \in Name : (Skl!Opens(v, n)' <=> Skl!Opens(v, n)) /\ (Skl!Opens(v, n) => task'[v] = task[v])
       /\ crossed' = crossed /\ \A n \in Name : Skl!Whole(disk'[n]) <=> Skl!Whole(disk[n])
  BY <1>1, <1>3, <1>4, SklIdleEntry DEF Skl!Forget, Skl!Opens
<1>7. SklIntact'
  BY <1>4, <1>12 DEF SklCore, SklIntact
<1>8. SklSerial' => SklSerial /\ faults = 0 /\ \A v \in Task \ {t} : task[v].at = "idle"
  BY <1>1, <1>4, SklSole DEF SklSerial
<1>9. SklAlone'
  BY <1>3, <1>4, <1>8, SklIdleEntry DEF SklAlone
<1>13. SklOrderly'
  BY <1>4, <1>8, <1>12 DEF SklCore, SklOrderly
<1>10. SklListed'
  <2>1. ASSUME SklSerial, NEW h \in SkillHandle \ {Skl!Via(t)} PROVE ~SklBehind(h)
    BY <1>1, <1>4, <1>8, <2>1 DEF SklBehind, SklSerial, Skl!Via
  <2> QED
    BY <1>3, <1>4, <1>5, <1>8, <2>1, SklIdleEntry DEF SklCore, SklListed
<1>11. SklAuthored'
  <2>1. ASSUME unsure = {}, NEW v \in Task PROVE SklFaithful(task[v])'
    BY <1>3, <1>4, <1>8, <2>1, SklIdleEntry DEF SklFaithful, SklSerial
  <2> QED
    BY <1>4, <2>1 DEF SklCore, SklAuthored
<1> QED
  BY <1>6, <1>7, <1>9, <1>10, <1>11, <1>13 DEF SklCore

LEMMA SklRemoveKeeps ==
    ASSUME Skl!SkillsAssumption, SklCore, NEW t \in Task, Skl!Remove(t)
    PROVE  SklCore'
<1> DEFINE k == task[t]
<1>1. /\ k = [at |-> k.at, op |-> k.op, via |-> k.via, by |-> k.by, name |-> k.name, who |-> k.who, view |-> k.view, new |-> k.new, shut |-> k.shut]
      /\ SklEntry(k) /\ k.at = "remove" /\ k.via \in SkillHandle /\ k.name \in Name
  BY DEF Skl!Remove, SklCore, SklTables, SklEntry
<1>0. PICK m \in Name : m = k.name
  BY <1>1
<1>2. PICK r : r = [k EXCEPT !.at = "forget"]
  OBVIOUS
<1>3. r = [at |-> "forget", op |-> k.op, via |-> k.via, by |-> k.by, name |-> k.name, who |-> k.who, view |-> k.view, new |-> k.new, shut |-> k.shut]
  BY <1>1, <1>2
<1>4. SklEntry(r) /\ r.at = "forget" /\ r.via = k.via
  BY <1>1, <1>3 DEF SklEntry
<1>5. task' = Skl!ShutFor(t, m, r)
  BY <1>2, <1>0 DEF Skl!Remove
<1>6. /\ task' = [v \in Task |-> task'[v]] /\ \A v \in Task : SklEntry(task'[v])
      /\ task'[t] = r /\ \A v \in Task \ {t} : SklSame(task'[v], task[v])
      /\ \A v \in Task \ {t} : ~Skl!Opens(v, m) => task'[v] = task[v]
      /\ \A v \in Task \ {t} : ~Skl!Opens(v, m)'
  <2>1. SklTables
    BY DEF SklCore
  <2> QED
    BY <1>4, <1>5, <2>1, SklShutWell
<1>7. /\ disk' = [n \in Name |-> disk'[n]] /\ disk'[m] = None /\ \A n \in Name \ {m} : disk'[n] = disk[n]
      /\ founder' = [n \in Name |-> founder'[n]] /\ founder'[m] = None
      /\ \A n \in Name \ {m} : founder'[n] = founder[n]
  BY <1>1, <1>0 DEF Skl!Remove, SklCore, SklTables
<1>8. cache' = cache /\ ops' = ops /\ faults' = faults /\ unsure' = unsure /\ foreign' = foreign \cup (SkillHandle \ {k.via})
  BY DEF Skl!Remove, Skl!Via
<1>9. None # Damaged /\ None # Torn /\ None \notin Skl!Skill
  BY DEF Skl!SkillsAssumption
<1>10. SklTables'
  BY <1>1, <1>6, <1>7, <1>8 DEF SklCore, SklTables
<1>16. /\ \A v \in Task : ~Skl!Opens(v, m)'
       /\ \A n \in Name \ {m}, v \in Task : (Skl!Opens(v, n)' <=> Skl!Opens(v, n)) /\ (Skl!Opens(v, n) => task'[v] = task[v])
       /\ crossed' = crossed /\ Skl!Whole(disk'[m])
  <2>1. \A n \in Name : ~Skl!Opens(t, n) /\ ~Skl!Opens(t, n)'
    BY <1>1, <1>4, <1>6 DEF Skl!Opens
  <2>2. ASSUME NEW n \in Name \ {m}, NEW v \in Task \ {t}
        PROVE  (Skl!Opens(v, n)' <=> Skl!Opens(v, n)) /\ (Skl!Opens(v, n) => task'[v] = task[v])
    <3>1. CASE Skl!Opens(v, m)
      <4>1. task[v].name = m /\ task'[v].name = m
        BY <1>6, <3>1 DEF Skl!Opens, SklSame
      <4> QED
        BY <2>2, <4>1 DEF Skl!Opens
    <3>2. CASE ~Skl!Opens(v, m)
      BY <1>6, <3>2 DEF Skl!Opens
    <3> QED
      BY <3>1, <3>2
  <2>3. crossed' = crossed /\ Skl!Whole(disk'[m])
    BY <1>7, <1>9 DEF Skl!Remove, Skl!Whole
  <2> QED
    BY <1>6, <2>1, <2>2, <2>3
<1>11. SklIntact'
  <2> SUFFICES ASSUME faults = 0, NEW n \in Name, n \notin crossed
               PROVE  /\ \A u, v \in Task : Skl!Opens(u, n)' /\ Skl!Opens(v, n)' => u = v
                      /\ \A u \in Task : Skl!Opens(u, n)' => disk'[n] = Damaged /\ task'[u].new.body # Torn
                      /\ Skl!Whole(disk'[n]) \/ \E u \in Task : Skl!Opens(u, n)'
    BY <1>8, <1>16 DEF SklIntact
  <2>1. CASE n = m
    <3>1. Skl!Whole(disk'[n])
      BY <1>16, <2>1
    <3>2. \A v \in Task : ~Skl!Opens(v, n)'
      BY <1>16, <2>1
    <3> QED
      BY <3>1, <3>2
  <2>2. CASE n # m
    BY <1>7, <1>16, <2>2 DEF SklCore, SklIntact
  <2> QED
    BY <2>1, <2>2
<1>12. SklSerial' => SklSerial /\ faults = 0 /\ \A v \in Task \ {t} : task[v].at = "idle"
  BY <1>1, <1>8, SklSole DEF SklSerial
<1>13. SklAlone'
  BY <1>6, <1>8, <1>12 DEF SklAlone, SklSame
<1>17. SklOrderly'
  <2> SUFFICES ASSUME SklSerial', NEW n \in Name
               PROVE  disk'[n] # Torn /\ (disk'[n] = Damaged <=> \E v \in Task : Skl!Opens(v, n)')
    BY DEF SklOrderly
  <2>1. disk[n] # Torn /\ (disk[n] = Damaged <=> \E v \in Task : Skl!Opens(v, n))
    BY <1>12 DEF SklCore, SklOrderly
  <2>2. CASE n = m
    <3>1. disk'[n] = None /\ \A v \in Task : ~Skl!Opens(v, n)'
      BY <1>7, <1>16, <2>2
    <3> QED
      BY <1>9, <3>1
  <2>3. CASE n # m
    <3>1. disk'[n] = disk[n] /\ \A v \in Task : Skl!Opens(v, n)' <=> Skl!Opens(v, n)
      BY <1>7, <1>16, <2>3
    <3> QED
      BY <2>1, <3>1
  <2> QED
    BY <2>2, <2>3
<1>18. SklSerial => \A v \in Task \ {t} : task'[v] = task[v]
  BY <1>6, <1>8, <1>12 DEF Skl!Opens, SklSerial
<1>14. SklListed'
  <2>1. SklBehind(k.via)'
    BY <1>4, <1>6 DEF SklBehind
  <2> QED
    BY <1>4, <1>6, <1>8, <1>12, <1>18, <2>1 DEF SklListed, SklSerial
<1>15. SklAuthored'
  <2>1. ASSUME unsure = {}, NEW v \in Task PROVE SklFaithful(task[v])'
    BY <1>4, <1>6, <1>8, <1>12, <1>18, <2>1 DEF SklFaithful, SklSerial
  <2> QED
    BY <1>7, <1>8, <1>9, <2>1 DEF SklCore, SklAuthored
<1> QED
  BY <1>10, <1>11, <1>13, <1>14, <1>15, <1>17 DEF SklCore
-----------------------------------------------------------------------------
\* A file that is open has not been removed: whoever removes it shuts it.
LEMMA SklOpenStands ==
    ASSUME SklTables, SklStanding, NEW t \in Task, NEW r, task' = [task EXCEPT ![t] = r],
           \A n \in Name : disk'[n] = None => disk[n] = None,
           r.at = "write" => disk'[r.name] # None
    PROVE  SklStanding'
<1>1. task'[t] = r /\ \A v \in Task \ {t} : task'[v] = task[v]
  BY DEF SklTables
<1>2. ASSUME NEW v \in Task, NEW n \in Name, Skl!Opens(v, n)'
      PROVE  disk'[n] # None
  <2>1. CASE v = t
    BY <1>1, <1>2, <2>1 DEF Skl!Opens
  <2>2. CASE v # t
    BY <1>1, <1>2, <2>2 DEF Skl!Opens, SklStanding
  <2> QED
    BY <2>1, <2>2
<1> QED
  BY <1>2 DEF SklStanding

LEMMA SklShutStands ==
    ASSUME SklTables, SklStanding, NEW t \in Task, NEW r, SklEntry(r), r.at # "write", NEW m \in Name, task' = Skl!ShutFor(t, m, r),
           \A n \in Name \ {m} : disk'[n] = disk[n]
    PROVE  SklStanding'
<1>1. /\ task'[t] = r /\ \A v \in Task \ {t} : ~Skl!Opens(v, m) => task'[v] = task[v]
      /\ \A v \in Task \ {t} : ~Skl!Opens(v, m)'
      /\ \A v \in Task \ {t} : SklSame(task'[v], task[v])
  BY SklShutWell
<1>2. ASSUME NEW v \in Task, NEW n \in Name, Skl!Opens(v, n)'
      PROVE  disk'[n] # None
  <2>1. v # t /\ n # m
    BY <1>1, <1>2 DEF Skl!Opens
  <2>2. ~Skl!Opens(v, m)
    BY <1>1, <1>2, <2>1 DEF Skl!Opens, SklSame
  <2>3. Skl!Opens(v, n)
    BY <1>1, <1>2, <2>1, <2>2 DEF Skl!Opens
  <2> QED
    BY <2>1, <2>3 DEF SklStanding
<1> QED
  BY <1>2 DEF SklStanding

LEMMA SklStandingKept ==
    ASSUME Skl!SkillsAssumption, SklCore, SklStanding, NEW t \in Task,
           \/ Skl!Start(t) \/ Skl!ScanCached(t) \/ Skl!ScanDisk(t) \/ Skl!Fill(t) \/ Skl!ScanFails(t) \/ Skl!ScanSkips(t)
           \/ Skl!Create(t) \/ Skl!CreateFails(t) \/ Skl!Write(t) \/ Skl!WriteFails(t) \/ Skl!Forget(t)
           \/ Skl!Remove(t) \/ Skl!RemoveGone(t) \/ Skl!RemoveFails(t) \/ Skl!Copied(t)
    PROVE  SklStanding'
<1> DEFINE k == task[t]
<1>1. SklTables /\ SklEntry(k) /\ ops \in 0..MaxOps
      /\ k = [at |-> k.at, op |-> k.op, via |-> k.via, by |-> k.by, name |-> k.name, who |-> k.who, view |-> k.view,
              new |-> k.new, shut |-> k.shut]
  BY DEF SklCore, SklTables, SklEntry
<1>2. CASE disk' = disk /\ \E r : r.at # "write" /\ task' = [task EXCEPT ![t] = r]
  BY <1>1, <1>2, SklOpenStands
<1>3. CASE Skl!Start(t)
  <2>1. PICK h \in SkillHandle, n \in Name, u \in User, v \in User :
         \E o \in OpsOf(h) :
            task' = [task EXCEPT ![t] = [Skl!Idle EXCEPT !.at = "scan", !.op = o, !.via = h, !.by = u, !.name = n, !.who = v]]
    BY <1>3 DEF Skl!Start
  <2>2. PICK o \in OpsOf(h) :
         task' = [task EXCEPT ![t] = [Skl!Idle EXCEPT !.at = "scan", !.op = o, !.via = h, !.by = u, !.name = n, !.who = v]]
    BY <2>1
  <2>3. PICK r : r = [Skl!Idle EXCEPT !.at = "scan", !.op = o, !.via = h, !.by = u, !.name = n, !.who = v]
    OBVIOUS
  <2>4. r.at = "scan"
    BY <2>3 DEF Skl!Idle
  <2> QED
    BY <1>2, <1>3, <2>2, <2>3, <2>4 DEF Skl!Start
<1>4. ASSUME NEW view, SklListing(view), k.at \in {"scan", "fill"}, disk' = disk, task' = [task EXCEPT ![t] = Skl!Decided(k, view)]
      PROVE  SklStanding'
  <2>1. PICK r : r = Skl!Decided(k, view)
    OBVIOUS
  <2>2. r.at # "write"
    BY <1>1, <1>4, <2>1, SklDecidedWell
  <2> QED
    BY <1>2, <1>4, <2>1, <2>2
<1>5. CASE Skl!ScanCached(t)
  <2>1. SklListing(cache[Skl!Via(t)]) /\ k.at = "scan"
    BY <1>1, <1>5 DEF Skl!ScanCached, SklTables, SklEntry, Skl!Via
  <2> QED
    BY <1>4, <1>5, <2>1 DEF Skl!ScanCached
<1>6. CASE Skl!Fill(t)
  BY <1>1, <1>4, <1>6 DEF Skl!Fill, SklEntry
<1>7. CASE Skl!ScanFails(t)
  <2>1. SklListing(<<>>)
    <3>1. Skl!Idle.view = <<>>
      BY DEF Skl!Idle
    <3> QED
      BY <3>1, SklIdleEntry DEF SklEntry
  <2> QED
    BY <1>4, <1>7, <2>1 DEF Skl!ScanFails
<1>8. ASSUME NEW view, disk' = disk, task' = [task EXCEPT ![t] = [@ EXCEPT !.at = "fill", !.view = view]]
      PROVE  SklStanding'
  <2>1. PICK r : r = [k EXCEPT !.at = "fill", !.view = view]
    OBVIOUS
  <2>2. r.at = "fill"
    BY <1>1, <2>1
  <2>3. task' = [task EXCEPT ![t] = r]
    BY <1>1, <1>8, <2>1 DEF SklTables
  <2> QED
    BY <1>2, <1>8, <2>2, <2>3
<1>9. CASE Skl!ScanDisk(t)
  BY <1>8, <1>9 DEF Skl!ScanDisk
<1>10. CASE Skl!ScanSkips(t)
  BY <1>8, <1>10 DEF Skl!ScanSkips
<1>11. CASE Skl!Forget(t) \/ Skl!RemoveGone(t) \/ Skl!Copied(t)
  BY <1>2, <1>11, SklIdleEntry DEF Skl!Forget, Skl!RemoveGone, Skl!Copied
<1>12. CASE Skl!Create(t)
  <2>1. PICK r : r = [k EXCEPT !.at = "write"]
    OBVIOUS
  <2>2. r.name = k.name /\ k.name \in Name
    BY <1>1, <1>12, <2>1 DEF Skl!Create, SklEntry
  <2>3. task' = [task EXCEPT ![t] = r] /\ disk' = [disk EXCEPT ![k.name] = Damaged]
    BY <1>1, <1>12, <2>1 DEF Skl!Create, SklTables
  <2>4. disk'[k.name] = Damaged /\ \A n \in Name \ {k.name} : disk'[n] = disk[n]
    BY <1>1, <2>2, <2>3 DEF SklTables
  <2> QED
    BY <1>1, <2>2, <2>3, <2>4, SklOpenStands DEF Skl!SkillsAssumption
<1>13. CASE Skl!Write(t)
  <2>1. PICK r : r = [k EXCEPT !.at = "forget"]
    OBVIOUS
  <2>2. r.at = "forget" /\ k.name \in Name /\ k.new \in Skl!Skill
    BY <1>1, <1>13, <2>1 DEF Skl!Write, SklEntry
  <2>3. task' = [task EXCEPT ![t] = r]
    BY <1>1, <1>13, <2>1 DEF Skl!Write, SklTables
  <2>4. PICK d \in Skl!Written(t) : disk' = [disk EXCEPT ![k.name] = d]
    BY <1>13 DEF Skl!Write
  <2>5. d = None => disk[k.name] = None
    BY <2>2, <2>4, SklSpoiltWell DEF Skl!Written, Skl!Spoilt, Skl!SkillsAssumption
  <2>6. disk'[k.name] = d /\ \A n \in Name \ {k.name} : disk'[n] = disk[n]
    BY <1>1, <2>2, <2>4 DEF SklTables
  <2> QED
    BY <1>1, <2>2, <2>3, <2>5, <2>6, SklOpenStands
<1>14. CASE Skl!CreateFails(t)
  <2>1. k.name \in Name /\ task' = [task EXCEPT ![t] = Skl!Idle]
    BY <1>1, <1>14 DEF Skl!CreateFails, SklEntry
  <2>2. \A n \in Name : disk'[n] = None => disk[n] = None
    <3>1. CASE disk' = disk
      BY <3>1
    <3>2. CASE disk' = [disk EXCEPT ![k.name] = Damaged]
      BY <1>1, <2>1, <3>2 DEF SklTables, Skl!SkillsAssumption
    <3> QED
      BY <1>14, <3>1, <3>2 DEF Skl!CreateFails
  <2> QED
    BY <1>1, <2>1, <2>2, SklIdleEntry, SklOpenStands
<1>15. CASE Skl!WriteFails(t)
  <2>1. k.name \in Name /\ k.new \in Skl!Skill /\ task' = [task EXCEPT ![t] = Skl!Idle]
    BY <1>1, <1>15 DEF Skl!WriteFails, SklEntry
  <2>2. PICK d \in {disk[k.name]} \cup (IF k.shut THEN {} ELSE Skl!Spoilt(k.new)) : disk' = [disk EXCEPT ![k.name] = d]
    BY <1>15 DEF Skl!WriteFails
  <2>3. d = None => disk[k.name] = None
    BY <2>1, <2>2, SklSpoiltWell DEF Skl!Spoilt, Skl!SkillsAssumption
  <2>4. disk'[k.name] = d /\ \A n \in Name \ {k.name} : disk'[n] = disk[n]
    BY <1>1, <2>1, <2>2 DEF SklTables
  <2> QED
    BY <1>1, <2>1, <2>3, <2>4, SklIdleEntry, SklOpenStands
<1>16. CASE Skl!Remove(t)
  <2>1. PICK r : r = [k EXCEPT !.at = "forget"]
    OBVIOUS
  <2>2. r = [at |-> "forget", op |-> k.op, via |-> k.via, by |-> k.by, name |-> k.name, who |-> k.who, view |-> k.view,
             new |-> k.new, shut |-> k.shut]
    BY <1>1, <2>1
  <2>3. SklEntry(r) /\ r.at = "forget" /\ k.name \in Name
    BY <1>1, <1>16, <2>2 DEF Skl!Remove, SklEntry
  <2>4. task' = Skl!ShutFor(t, k.name, r) /\ disk' = [disk EXCEPT ![k.name] = None]
    BY <1>16, <2>1 DEF Skl!Remove
  <2>5. \A n \in Name \ {k.name} : disk'[n] = disk[n]
    BY <1>1, <2>3, <2>4 DEF SklTables
  <2> QED
    BY <1>1, <2>3, <2>4, <2>5, SklShutStands
<1>17. CASE Skl!RemoveFails(t)
  <2>1. k.name \in Name
    BY <1>1, <1>17 DEF Skl!RemoveFails, SklEntry
  <2>2. CASE disk' = disk /\ task' = [task EXCEPT ![t] = Skl!Idle]
    BY <1>2, <2>2, SklIdleEntry
  <2>3. CASE disk' = [disk EXCEPT ![k.name] = Damaged] /\ task' = Skl!ShutFor(t, k.name, Skl!Idle)
    <3>1. \A n \in Name \ {k.name} : disk'[n] = disk[n]
      BY <1>1, <2>1, <2>3 DEF SklTables
    <3> QED
      BY <1>1, <2>1, <2>3, <3>1, SklIdleEntry, SklShutStands
  <2> QED
    BY <1>17, <2>2, <2>3 DEF Skl!RemoveFails
<1> QED
  BY <1>3, <1>5, <1>6, <1>7, <1>9, <1>10, <1>11, <1>12, <1>13, <1>14, <1>15, <1>16, <1>17

-----------------------------------------------------------------------------
LEMMA SklInitInv ==
    ASSUME Skl!SkillsAssumption, Skl!Init
    PROVE  SklIInv
<1>1. SklTables
  BY SklIdleEntry DEF Skl!Init, SklTables, Skl!SkillsAssumption
<1>4. \A v \in Task : \A n : ~Skl!Opens(v, n)
  BY SklIdleEntry DEF Skl!Init, Skl!Opens
<1>2. SklIntact /\ SklAlone /\ SklOrderly /\ SklListed
  BY <1>4, SklIdleEntry DEF Skl!Init, SklIntact, Skl!Whole, SklAlone, SklOrderly, SklListed,
     Skl!SkillsAssumption
<1>3. SklAuthored
  BY SklIdleEntry DEF Skl!Init, SklAuthored, SklFaithful, Skl!SkillsAssumption
<1>5. SklStanding
  BY <1>4 DEF SklStanding
<1> QED
  BY <1>1, <1>2, <1>3, <1>5 DEF SklIInv, SklCore

LEMMA SklStepInv ==
    ASSUME Skl!SkillsAssumption, SklIInv, [Skl!Next]_Skl!vars
    PROVE  SklIInv'
<1>1. SklCore /\ SklStanding
  BY DEF SklIInv
<1>2. CASE Skl!Next
  <2>1. SklCore'
    BY <1>1, <1>2, SklStartKeeps, SklScanCachedKeeps, SklScanDiskKeeps, SklFillKeeps, SklCopiedKeeps,
       SklCreateKeeps, SklWriteKeeps, SklForgetKeeps,
       SklRemoveKeeps, SklScanFaultsKeep, SklSaveFaultsKeep, SklRemoveFailsKeeps DEF Skl!Next
  <2>2. SklStanding'
    BY <1>1, <1>2, SklStandingKept DEF Skl!Next
  <2> QED
    BY <2>1, <2>2 DEF SklIInv
<1>3. CASE UNCHANGED Skl!vars
  <2>1. SklCore'
    BY <1>1, <1>3, SklStutterKeeps
  <2>2. SklStanding'
    BY <1>1, <1>3 DEF Skl!vars, SklStanding, Skl!Opens
  <2> QED
    BY <2>1, <2>2 DEF SklIInv
<1> QED
  BY <1>2, <1>3

LEMMA SklSafe ==
    ASSUME Skl!SkillsAssumption, SklIInv
    PROVE  Skl!SkillsKept
<1>1. faults = 0 => \A n \in Name \ crossed : Skl!Whole(disk[n]) \/ \E t \in Task : Skl!Opens(t, n)
  BY DEF SklIInv, SklCore, SklIntact
<1>2. unsure \subseteq {"stale"} /\ Skl!Quiet => \A h \in SkillHandle \ foreign : cache[h] # None => cache[h] = Skl!Readable(disk)
  BY DEF SklIInv, SklCore, SklListed, SklSerial, Skl!Quiet, SklBehind
<1>3. unsure = {} => \A n \in DOMAIN Skl!Readable(disk) : disk[n].author = founder[n]
  BY SklReadableListing DEF SklIInv, SklCore, SklAuthored, SklListing
<1> QED
  BY <1>1, <1>2, <1>3 DEF Skl!SkillsKept

\* A call has all its fields.
GitComplete(k) ==
    k = [at |-> k.at, call |-> k.call, by |-> k.by, todo |-> k.todo, token |-> k.token, asked |-> k.asked,
         fresh |-> k.fresh, got |-> k.got, nums |-> k.nums, bad |-> k.bad, failed |-> k.failed,
         did |-> k.did, lost |-> k.lost, mixed |-> k.mixed, want |-> k.want, dead |-> k.dead]
GitStored == /\ \E m \in Nat : repo = [n \in 1..m |-> repo[n]]
             /\ \A n \in Git!Numbers : Git!Whole(repo[n])
GitTables == GitStored /\ task = [t \in Task |-> task[t]] /\ (\A t \in Task : GitComplete(task[t])) /\ faults \in Nat

\* What a merge and an edit are about to send, and who has asked for them.
GitSending(k) == k.at \in {"token", "asked", "send"}
GitFits(k) ==
       /\ GitSending(k) /\ k.call.kind = "merge" =>
             k.by \in Admin /\ k.nums = <<>> /\ ~k.failed /\ k.todo = <<Git!Request("merge", k.call.n, {}, 1)>>
       /\ GitSending(k) /\ k.call.kind = "edit" =>
             /\ k.nums = <<>>
             /\ \/ k.todo = <<Git!Request("get", k.call.n, {}, 1)>>
                \/ /\ k.todo = <<Git!Request("patch", k.call.n, {}, 1)>>
                   /\ k.call.n \in Git!Numbers \cup {None}
                   /\ k.call.n \in Git!Numbers => repo[k.call.n].by = k.by
       /\ k.at = "audit" => k.call.kind = "merge" /\ k.by \in Admin
GitCallsFit == \A t \in Task : GitFits(task[t])

\* A merge is accounted for, by the log or by the call that is about to write it.
GitAccounted(n) ==
    \/ n \in unaudited
    \/ \E t \in Task : task[t].at = "audit" /\ task[t].call.n = n /\ (faults = 0 => ~task[t].failed)
    \/ \E e \in audit : e.n = n /\ e.authorized /\ e.by \in Admin /\ (faults = 0 => e.result = "success")
GitPrivileges == \A n \in Git!Numbers : /\ repo[n].merged => GitAccounted(n)
                                        /\ repo[n].editor # None => repo[n].editor = repo[n].by

GitIInv == GitTables /\ GitCallsFit /\ GitPrivileges
-----------------------------------------------------------------------------
\* As far as the invariant is concerned.
GitAlike(a, b) == /\ a.at = b.at /\ a.call = b.call /\ a.by = b.by /\ a.todo = b.todo
                  /\ a.nums = b.nums /\ a.failed = b.failed

\* No issue goes, or changes its author.
GitGrown == Git!Numbers \subseteq Git!Numbers' /\ \A n \in Git!Numbers : repo'[n].by = repo[n].by

LEMMA GitGrownFits ==
    ASSUME Git!GitHubAssumption, GitStored', GitGrown, NEW k, GitFits(k)
    PROVE  GitFits(k)'
<1>1. \A n : n \in Git!Numbers => n \in Git!Numbers' /\ repo'[n].by = repo[n].by
  BY DEF GitGrown
<1>2. None \notin Git!Numbers'
  <2>1. PICK m \in Nat : repo' = [n \in 1..m |-> repo'[n]]
    BY DEF GitStored
  <2>2. Git!Numbers' = 1..m
    BY <2>1 DEF Git!Numbers
  <2> QED
    BY <2>2 DEF Git!GitHubAssumption
<1> QED
  BY <1>1, <1>2 DEF GitFits, GitSending, Git!Request

\* A step of one call that leaves the invariant be.
LEMMA GitCallStep ==
    ASSUME Git!GitHubAssumption, GitIInv, NEW t \in Task, NEW k, k = task[t], NEW r, GitComplete(r), GitFits(r),
           task' = [s \in Task |-> task'[s]], task'[t] = r,
           \A s \in Task \ {t} : GitComplete(task'[s]) /\ GitAlike(task'[s], task[s]),
           GitStored', GitGrown, faults' \in Nat, faults' >= faults, audit \subseteq audit', unaudited \subseteq unaudited',
           \A n \in Git!Numbers' :
              /\ repo'[n].merged => \/ n \in Git!Numbers /\ repo[n].merged
                                    \/ r.at = "audit" /\ r.call.n = n /\ (faults' = 0 => ~r.failed)
              /\ repo'[n].editor # None => repo'[n].editor = repo'[n].by,
           k.at = "audit" =>
              \/ k.call.n \in unaudited'
              \/ \E e \in audit' : e.n = k.call.n /\ e.authorized /\ e.by \in Admin /\ (~k.failed => e.result = "success")
    PROVE  GitIInv'
<1>1. \A s \in Task \ {t} : /\ task'[s].at = task[s].at /\ task'[s].call = task[s].call /\ task'[s].by = task[s].by
                            /\ task'[s].todo = task[s].todo /\ task'[s].nums = task[s].nums
                            /\ task'[s].failed = task[s].failed
  BY DEF GitAlike
<1>2. faults \in Nat /\ (faults' = 0 => faults = 0)
  BY DEF GitIInv, GitTables
<1>3. GitTables'
  BY DEF GitIInv, GitTables
<1>4. GitCallsFit'
  <2> SUFFICES ASSUME NEW s \in Task PROVE GitFits(task[s])'
    BY DEF GitCallsFit
  <2>1. CASE s = t
    BY <2>1, GitGrownFits
  <2>2. CASE s # t
    <3>1. PICK a, b : a = task[s] /\ b = task'[s]
      OBVIOUS
    <3>2. GitFits(a)
      BY <3>1 DEF GitIInv, GitCallsFit
    <3>3. /\ b.at = a.at /\ b.call = a.call /\ b.by = a.by /\ b.todo = a.todo
          /\ b.nums = a.nums /\ b.failed = a.failed
      BY <1>1, <2>2, <3>1
    <3>4. GitFits(b)
      BY <3>2, <3>3 DEF GitFits, GitSending
    <3> QED
      BY <3>1, <3>4, GitGrownFits
  <2> QED
    BY <2>1, <2>2
<1>5. GitPrivileges'
  <2> SUFFICES ASSUME NEW n \in Git!Numbers', repo'[n].merged PROVE GitAccounted(n)'
    BY DEF GitPrivileges
  <2>1. CASE r.at = "audit" /\ r.call.n = n /\ (faults' = 0 => ~r.failed)
    BY <2>1 DEF GitAccounted
  <2>2. CASE n \in Git!Numbers /\ repo[n].merged
    <3>1. GitAccounted(n)
      BY <2>2 DEF GitIInv, GitPrivileges
    <3>2. CASE n \in unaudited
      BY <3>2 DEF GitAccounted
    <3>3. CASE \E e \in audit : e.n = n /\ e.authorized /\ e.by \in Admin /\ (faults = 0 => e.result = "success")
      BY <1>2, <3>3 DEF GitAccounted
    <3>4. CASE \E s \in Task : task[s].at = "audit" /\ task[s].call.n = n /\ (faults = 0 => ~task[s].failed)
      <4>1. PICK s \in Task : task[s].at = "audit" /\ task[s].call.n = n /\ (faults = 0 => ~task[s].failed)
        BY <3>4
      <4>2. CASE s # t
        BY <1>1, <1>2, <4>1, <4>2 DEF GitAccounted
      <4>3. CASE s = t
        BY <1>2, <4>1, <4>3 DEF GitAccounted
      <4> QED
        BY <4>2, <4>3
    <3> QED
      BY <3>1, <3>2, <3>3, <3>4 DEF GitAccounted
  <2> QED
    BY <2>1, <2>2
<1> QED
  BY <1>3, <1>4, <1>5 DEF GitIInv

\* ... in particular one that leaves the repository and the log alone.
LEMMA GitQuietStep ==
    ASSUME Git!GitHubAssumption, GitIInv, NEW t \in Task, task[t].at # "audit", NEW r, GitComplete(r), GitFits(r),
           task' = [task EXCEPT ![t] = r],
           UNCHANGED <<repo, audit, unaudited>>, faults' \in Nat, faults' >= faults
    PROVE  GitIInv'
<1>1. PICK k : k = task[t]
  OBVIOUS
<1>2. /\ task' = [s \in Task |-> task'[s]] /\ task'[t] = r
      /\ \A s \in Task \ {t} : GitComplete(task'[s]) /\ GitAlike(task'[s], task[s])
  BY DEF GitIInv, GitTables, GitAlike
<1>4. GitStored' /\ GitGrown
  BY DEF GitIInv, GitTables, GitStored, GitGrown, Git!Numbers, Git!Whole
<1>5. \A n \in Git!Numbers' : /\ repo'[n].merged => n \in Git!Numbers /\ repo[n].merged
                              /\ repo'[n].editor # None => repo'[n].editor = repo'[n].by
  BY DEF GitIInv, GitPrivileges, Git!Numbers
<1> QED
  BY <1>1, <1>2, <1>4, <1>5, GitCallStep
-----------------------------------------------------------------------------
\* A new call.
LEMMA GitBeginFits ==
    ASSUME NEW c, NEW u, NEW r, r = Git!Begin(c, u), c.kind = "merge" => u \in Admin
    PROVE  GitComplete(r) /\ GitFits(r) /\ r.call = c
<1>1. PICK nums : nums = IF c.kind = "touch" THEN <<c.n>> ELSE <<>>
  OBVIOUS
<1>2. PICK todo : todo = Git!FirstRequests(c)
  OBVIOUS
<1>3. r = [at |-> "token", call |-> c, by |-> u, todo |-> todo, token |-> None, asked |-> 0,
           fresh |-> TRUE, got |-> <<>>, nums |-> nums, bad |-> {}, failed |-> FALSE,
           did |-> {}, lost |-> FALSE, mixed |-> FALSE, want |-> {}, dead |-> FALSE]
  BY <1>1, <1>2 DEF Git!Begin, Git!Idle
<1>4. /\ c.kind = "merge" => nums = <<>> /\ todo = <<Git!Request("merge", c.n, {}, 1)>>
      /\ c.kind = "edit" => nums = <<>> /\ todo = <<Git!Request("get", c.n, {}, 1)>>
  BY <1>1, <1>2 DEF Git!FirstRequests
<1> QED
  BY <1>3, <1>4 DEF GitComplete, GitFits, GitSending

LEMMA GitIdleFits == GitComplete(Git!Idle) /\ GitFits(Git!Idle)
  BY DEF Git!Idle, GitComplete, GitFits, GitSending

\* A call ends, or goes on; it becomes a record for the log only as a merge.
LEMMA GitClosingFits ==
    ASSUME NEW k, GitComplete(k), k.call.kind = "merge" => k.by \in Admin, NEW r, r = Git!Closing(k)
    PROVE  /\ GitComplete(r) /\ GitFits(r) /\ r.call = k.call /\ r.failed = k.failed
           /\ k.call.kind = "merge" => r.at = "audit"
<1>1. PICK at : at = (IF k.call.kind = "merge" THEN "audit" ELSE "over")
  OBVIOUS
<1>2. r = [at |-> at, call |-> k.call, by |-> k.by, todo |-> k.todo, token |-> k.token, asked |-> k.asked,
           fresh |-> k.fresh, got |-> k.got, nums |-> k.nums, bad |-> k.bad, failed |-> k.failed,
           did |-> k.did, lost |-> k.lost, mixed |-> k.mixed, want |-> k.want, dead |-> k.dead]
  BY <1>1 DEF Git!Closing, GitComplete
<1> QED
  BY <1>1, <1>2 DEF GitComplete, GitFits, GitSending

LEMMA GitOnwardFits ==
    ASSUME NEW k, GitComplete(k), k.call.kind \notin {"merge", "edit"}, NEW rest, NEW r, r = Git!Onward(k, rest)
    PROVE  GitComplete(r) /\ GitFits(r) /\ r.call = k.call
<1>1. CASE rest = <<>>
  BY <1>1, GitClosingFits DEF Git!Onward
<1>2. CASE rest # <<>>
  <2>1. PICK same : same = (rest[1].i = k.todo[1].i)
    OBVIOUS
  <2>2. PICK at, fresh : at = (IF same THEN "send" ELSE "token") /\ fresh = ~same
    OBVIOUS
  <2>3. r = [at |-> at, call |-> k.call, by |-> k.by, todo |-> rest, token |-> k.token, asked |-> k.asked,
             fresh |-> fresh, got |-> k.got, nums |-> k.nums, bad |-> k.bad, failed |-> k.failed,
             did |-> k.did, lost |-> k.lost, mixed |-> k.mixed, want |-> k.want, dead |-> k.dead]
    BY <1>2, <2>1, <2>2 DEF Git!Onward, GitComplete
  <2>4. at # "audit"
    BY <2>2
  <2> QED
    BY <2>3, <2>4 DEF GitComplete, GitFits
<1> QED
  BY <1>1, <1>2

LEMMA GitFailedFits ==
    ASSUME NEW k, GitComplete(k), GitFits(k), k.at = "send", NEW r, r = Git!Failed(k)
    PROVE  /\ GitComplete(r) /\ GitFits(r) /\ r.call = k.call
           /\ k.call.kind = "merge" => r.at = "audit"
<1>1. CASE k.nums # <<>>
  <2>1. PICK h : h = [k EXCEPT !.bad = @ \cup {k.todo[1].i}]
    OBVIOUS
  <2>2. PICK bad : bad = k.bad \cup {k.todo[1].i}
    OBVIOUS
  <2>3. h = [at |-> k.at, call |-> k.call, by |-> k.by, todo |-> k.todo, token |-> k.token, asked |-> k.asked,
             fresh |-> k.fresh, got |-> k.got, nums |-> k.nums, bad |-> bad, failed |-> k.failed,
             did |-> k.did, lost |-> k.lost, mixed |-> k.mixed, want |-> k.want, dead |-> k.dead]
    BY <2>1, <2>2 DEF GitComplete
  <2>4. GitComplete(h) /\ h.call = k.call /\ k.call.kind \notin {"merge", "edit"}
    BY <1>1, <2>3 DEF GitComplete, GitFits, GitSending
  <2> QED
    BY <1>1, <2>1, <2>4, GitOnwardFits DEF Git!Failed
<1>2. CASE k.nums = <<>>
  <2>1. PICK h : h = [k EXCEPT !.failed = TRUE]
    OBVIOUS
  <2>2. h = [at |-> k.at, call |-> k.call, by |-> k.by, todo |-> k.todo, token |-> k.token, asked |-> k.asked,
             fresh |-> k.fresh, got |-> k.got, nums |-> k.nums, bad |-> k.bad, failed |-> TRUE,
             did |-> k.did, lost |-> k.lost, mixed |-> k.mixed, want |-> k.want, dead |-> k.dead]
    BY <2>1 DEF GitComplete
  <2>3. GitComplete(h) /\ h.call = k.call /\ (h.call.kind = "merge" => h.by \in Admin)
    BY <2>2 DEF GitComplete, GitFits, GitSending
  <2> QED
    BY <1>2, <2>1, <2>3, GitClosingFits DEF Git!Failed
<1> QED
  BY <1>1, <1>2

LEMMA GitUnsentFits ==
    ASSUME NEW k, GitComplete(k), GitFits(k), k.at = "asked", NEW r, r = Git!Unsent(k)
    PROVE  GitComplete(r) /\ GitFits(r) /\ r.call = k.call
<1>1. CASE k.nums # <<>>
  <2>1. PICK h : h = [k EXCEPT !.bad = @ \cup {k.todo[1].i}]
    OBVIOUS
  <2>2. PICK bad : bad = k.bad \cup {k.todo[1].i}
    OBVIOUS
  <2>3. h = [at |-> k.at, call |-> k.call, by |-> k.by, todo |-> k.todo, token |-> k.token, asked |-> k.asked,
             fresh |-> k.fresh, got |-> k.got, nums |-> k.nums, bad |-> bad, failed |-> k.failed,
             did |-> k.did, lost |-> k.lost, mixed |-> k.mixed, want |-> k.want, dead |-> k.dead]
    BY <2>1, <2>2 DEF GitComplete
  <2>4. GitComplete(h) /\ h.call = k.call /\ k.call.kind \notin {"merge", "edit"}
    BY <1>1, <2>3 DEF GitComplete, GitFits, GitSending
  <2>5. PICK rest : rest = SelectSeq(k.todo, LAMBDA q : q.i # k.todo[1].i)
    OBVIOUS
  <2>6. r = Git!Onward(h, rest)
    BY <1>1, <2>1, <2>5 DEF Git!Unsent
  <2> QED
    BY <2>4, <2>6, GitOnwardFits
<1>2. CASE k.nums = <<>>
  <2>1. PICK h : h = [k EXCEPT !.failed = TRUE]
    OBVIOUS
  <2>2. h = [at |-> k.at, call |-> k.call, by |-> k.by, todo |-> k.todo, token |-> k.token, asked |-> k.asked,
             fresh |-> k.fresh, got |-> k.got, nums |-> k.nums, bad |-> k.bad, failed |-> TRUE,
             did |-> k.did, lost |-> k.lost, mixed |-> k.mixed, want |-> k.want, dead |-> k.dead]
    BY <2>1 DEF GitComplete
  <2>3. GitComplete(h) /\ h.call = k.call /\ (h.call.kind = "merge" => h.by \in Admin)
    BY <2>2 DEF GitComplete, GitFits, GitSending
  <2>4. r = Git!Closing(h)
    BY <1>2, <2>1 DEF Git!Unsent
  <2> QED
    BY <2>3, <2>4, GitClosingFits
<1> QED
  BY <1>1, <1>2

LEMMA GitPageReadFits ==
    ASSUME NEW k, GitComplete(k), k.at = "send", k.call.kind \notin {"merge", "edit"}, NEW p, NEW r, r = Git!PageRead(k, p)
    PROVE  GitComplete(r) /\ GitFits(r) /\ r.call = k.call
<1>1. PICK pages : pages = k.got \o Git!PageOf(Git!Paged(k.call), p)
  OBVIOUS
<1>2. PICK nums : nums = Git!OnlyIssues(pages)
  OBVIOUS
<1>3. PICK failed : failed = (k.call.kind # "detail")
  OBVIOUS
<1>4. PICK more, todo, want : /\ more = <<Git!Request("page", None, {}, p + 1)>>
                              /\ todo = Git!Work(k.call, nums)
                              /\ want = {n \in Git!Range(Git!Paged(k.call)) : ~Git!IsPR(n)}
  OBVIOUS
<1>5. \/ r = [k EXCEPT !.got = pages, !.fresh = FALSE, !.todo = more]
      \/ r = [k EXCEPT !.got = pages, !.at = "over", !.failed = failed]
      \/ r = [k EXCEPT !.got = pages, !.at = "token", !.nums = nums, !.todo = todo, !.want = want]
  BY <1>1, <1>2, <1>3, <1>4 DEF Git!PageRead
<1>6. CASE r = [k EXCEPT !.got = pages, !.fresh = FALSE, !.todo = more]
  <2>1. r = [at |-> k.at, call |-> k.call, by |-> k.by, todo |-> more, token |-> k.token, asked |-> k.asked,
             fresh |-> FALSE, got |-> pages, nums |-> k.nums, bad |-> k.bad, failed |-> k.failed,
             did |-> k.did, lost |-> k.lost, mixed |-> k.mixed, want |-> k.want, dead |-> k.dead]
    BY <1>6 DEF GitComplete
  <2> QED
    BY <2>1 DEF GitComplete, GitFits
<1>7. CASE r = [k EXCEPT !.got = pages, !.at = "over", !.failed = failed]
  <2>1. r = [at |-> "over", call |-> k.call, by |-> k.by, todo |-> k.todo, token |-> k.token, asked |-> k.asked,
             fresh |-> k.fresh, got |-> pages, nums |-> k.nums, bad |-> k.bad, failed |-> failed,
             did |-> k.did, lost |-> k.lost, mixed |-> k.mixed, want |-> k.want, dead |-> k.dead]
    BY <1>7 DEF GitComplete
  <2> QED
    BY <2>1 DEF GitComplete, GitFits
<1>8. CASE r = [k EXCEPT !.got = pages, !.at = "token", !.nums = nums, !.todo = todo, !.want = want]
  <2>1. r = [at |-> "token", call |-> k.call, by |-> k.by, todo |-> todo, token |-> k.token, asked |-> k.asked,
             fresh |-> k.fresh, got |-> pages, nums |-> nums, bad |-> k.bad, failed |-> k.failed,
             did |-> k.did, lost |-> k.lost, mixed |-> k.mixed, want |-> want, dead |-> k.dead]
    BY <1>8 DEF GitComplete
  <2> QED
    BY <2>1 DEF GitComplete, GitFits
<1> QED
  BY <1>5, <1>6, <1>7, <1>8

\* A success: of a merge it is on record next, of an edit the author alone may go on.
LEMMA GitSucceededFits ==
    ASSUME NEW k, GitComplete(k), GitFits(k), k.at = "send", ~Git!Refuses(k.todo[1]), NEW r, r = Git!Succeeded(k)
    PROVE  /\ GitComplete(r) /\ GitFits(r) /\ r.call = k.call
           /\ k.call.kind = "merge" => r.at = "audit" /\ ~r.failed
<1>1. CASE k.call.kind = "merge"
  <2>1. k.by \in Admin /\ ~k.failed /\ k.todo = <<Git!Request("merge", k.call.n, {}, 1)>>
    BY <1>1 DEF GitFits, GitSending
  <2>2. Tail(k.todo) = <<>> /\ k.todo[1].verb = "merge"
    BY <2>1 DEF Git!Request
  <2>3. r = Git!Onward(k, Tail(k.todo))
    BY <2>2 DEF Git!Succeeded
  <2>4. r = Git!Closing(k)
    BY <2>2, <2>3 DEF Git!Onward
  <2> QED
    BY <2>1, <2>4, GitClosingFits
<1>2. CASE k.call.kind = "edit"
  <2>1. PICK q : q = k.todo[1]
    OBVIOUS
  <2>2. CASE k.todo = <<Git!Request("get", k.call.n, {}, 1)>>
    <3>1. q.verb = "get" /\ q.n = k.call.n
      BY <2>1, <2>2 DEF Git!Request
    <3>2. CASE Git!MayEdit(q.n, k.by)
      <4>1. PICK todo : todo = <<Git!Request("patch", k.call.n, {}, 1)>>
        OBVIOUS
      <4>2. r = [k EXCEPT !.at = "token", !.todo = todo]
        <5>1. r = [k EXCEPT !.at = "token", !.todo = <<Git!Request("patch", q.n, {}, 1)>>]
          BY <1>2, <2>1, <3>1, <3>2 DEF Git!Succeeded
        <5> QED
          BY <3>1, <4>1, <5>1
      <4>3. r = [at |-> "token", call |-> k.call, by |-> k.by, todo |-> todo, token |-> k.token, asked |-> k.asked,
                 fresh |-> k.fresh, got |-> k.got, nums |-> k.nums, bad |-> k.bad, failed |-> k.failed,
                 did |-> k.did, lost |-> k.lost, mixed |-> k.mixed, want |-> k.want, dead |-> k.dead]
        BY <4>2 DEF GitComplete
      <4>4. k.nums = <<>>
        BY <1>2 DEF GitFits, GitSending
      <4>5. k.call.n \in Git!Numbers \cup {None}
        BY <2>1, <3>1 DEF Git!Refuses
      <4>6. k.call.n \in Git!Numbers => repo[k.call.n].by = k.by
        BY <3>1, <3>2 DEF Git!MayEdit
      <4> QED
        BY <1>2, <4>1, <4>3, <4>4, <4>5, <4>6 DEF GitComplete, GitFits, GitSending
    <3>3. CASE ~Git!MayEdit(q.n, k.by)
      <4>1. r = [k EXCEPT !.at = "over", !.failed = TRUE]
        BY <1>2, <2>1, <3>1, <3>3 DEF Git!Succeeded
      <4>2. r = [at |-> "over", call |-> k.call, by |-> k.by, todo |-> k.todo, token |-> k.token, asked |-> k.asked,
                 fresh |-> k.fresh, got |-> k.got, nums |-> k.nums, bad |-> k.bad, failed |-> TRUE,
                 did |-> k.did, lost |-> k.lost, mixed |-> k.mixed, want |-> k.want, dead |-> k.dead]
        BY <4>1 DEF GitComplete
      <4> QED
        BY <1>2, <4>2 DEF GitComplete, GitFits, GitSending
    <3> QED
      BY <3>2, <3>3
  <2>3. CASE k.todo = <<Git!Request("patch", k.call.n, {}, 1)>>
    <3>1. Tail(k.todo) = <<>> /\ q.verb = "patch"
      BY <2>1, <2>3 DEF Git!Request
    <3>2. r = Git!Onward(k, Tail(k.todo))
      BY <2>1, <3>1 DEF Git!Succeeded
    <3>3. r = Git!Closing(k)
      BY <3>1, <3>2 DEF Git!Onward
    <3> QED
      BY <1>2, <3>3, GitClosingFits
  <2> QED
    BY <1>2, <2>2, <2>3 DEF GitFits, GitSending
<1>3. CASE k.call.kind \notin {"merge", "edit"}
  <2>1. PICK q : q = k.todo[1]
    OBVIOUS
  <2>2. CASE q.verb = "page"
    <3>1. r = Git!PageRead(k, q.i)
      BY <2>1, <2>2 DEF Git!Succeeded
    <3> QED
      BY <1>3, <3>1, GitPageReadFits
  <2>3. CASE q.verb = "list"
    <3>1. PICK got : got = Git!OnlyIssues(Git!PageOf(Git!Listing(k.call), 1))
      OBVIOUS
    <3>2. r = [k EXCEPT !.at = "over", !.got = got]
      BY <2>1, <2>3, <3>1 DEF Git!Succeeded
    <3>3. r = [at |-> "over", call |-> k.call, by |-> k.by, todo |-> k.todo, token |-> k.token, asked |-> k.asked,
               fresh |-> k.fresh, got |-> got, nums |-> k.nums, bad |-> k.bad, failed |-> k.failed,
               did |-> k.did, lost |-> k.lost, mixed |-> k.mixed, want |-> k.want, dead |-> k.dead]
      BY <3>2 DEF GitComplete
    <3> QED
      BY <1>3, <3>3 DEF GitComplete, GitFits, GitSending
  <2>4. CASE q.verb = "get" /\ k.call.kind = "detail"
    <3>1. PICK todo : todo = <<Git!Request("page", None, {}, 1)>>
      OBVIOUS
    <3>2. r = [k EXCEPT !.fresh = FALSE, !.todo = todo]
      BY <2>1, <2>4, <3>1 DEF Git!Succeeded
    <3>3. r = [at |-> k.at, call |-> k.call, by |-> k.by, todo |-> todo, token |-> k.token, asked |-> k.asked,
               fresh |-> FALSE, got |-> k.got, nums |-> k.nums, bad |-> k.bad, failed |-> k.failed,
               did |-> k.did, lost |-> k.lost, mixed |-> k.mixed, want |-> k.want, dead |-> k.dead]
      BY <3>2 DEF GitComplete
    <3> QED
      BY <1>3, <3>3 DEF GitComplete, GitFits, GitSending
  <2>5. CASE q.verb \notin {"page", "list"} /\ ~(q.verb = "get" /\ k.call.kind = "detail")
    <3>1. r = Git!Onward(k, Tail(k.todo))
      BY <1>3, <2>1, <2>5 DEF Git!Succeeded
    <3> QED
      BY <1>3, <3>1, GitOnwardFits
  <2> QED
    BY <2>2, <2>3, <2>4, <2>5
<1> QED
  BY <1>1, <1>2, <1>3
-----------------------------------------------------------------------------
\* What GitHub does for a request.
LEMMA GitIssueChanged ==
    ASSUME GitStored, NEW i, NEW x, i \in Git!Numbers => Git!Whole(x) /\ x.by = repo[i].by, repo' = [repo EXCEPT ![i] = x]
    PROVE  GitStored' /\ GitGrown /\ Git!Numbers' = Git!Numbers /\ \A n \in Git!Numbers : repo'[n] = IF n = i THEN x ELSE repo[n]
<1>1. PICK m \in Nat : repo = [n \in 1..m |-> repo[n]]
  BY DEF GitStored
<1>2. Git!Numbers = 1..m /\ Git!Numbers' = 1..m
  BY <1>1 DEF Git!Numbers
<1>3. \A n \in Git!Numbers : repo'[n] = IF n = i THEN x ELSE repo[n]
  BY <1>1, <1>2
<1>4. repo' = [n \in 1..m |-> repo'[n]]
  BY <1>1
<1>5. \A n \in Git!Numbers : Git!Whole(repo'[n])
  BY <1>3 DEF GitStored
<1>6. GitStored'
  BY <1>2, <1>4, <1>5 DEF GitStored
<1> QED
  BY <1>2, <1>3, <1>6 DEF GitGrown

LEMMA GitIssueFiled ==
    ASSUME GitStored, NEW x, Git!Whole(x), repo' = Append(repo, x)
    PROVE  GitStored' /\ GitGrown /\ \A n \in Git!Numbers' : (n \in Git!Numbers /\ repo'[n] = repo[n]) \/ repo'[n] = x
<1>1. PICK m \in Nat : repo = [n \in 1..m |-> repo[n]]
  BY DEF GitStored
<1>2. PICK S : S = Git!Range(repo) \cup {x}
  OBVIOUS
<1>3. \A n \in 1..m : repo[n] \in S
  BY <1>1, <1>2 DEF Git!Range
<1>4. repo \in Seq(S) /\ Len(repo) = m /\ x \in S
  <2>1. PICK g : g = repo
    OBVIOUS
  <2>2. g \in [1..m -> S]
    BY <1>1, <1>3, <2>1
  <2>3. g \in Seq(S) /\ Len(g) = m
    BY <2>2
  <2> QED
    BY <1>2, <2>1, <2>3
<1>5. /\ Append(repo, x) \in Seq(S) /\ Len(Append(repo, x)) = m + 1
      /\ Append(repo, x)[m + 1] = x /\ \A n \in 1..m : Append(repo, x)[n] = repo[n]
  BY <1>4, AppendProperties
<1>6. repo' \in Seq(S) /\ Len(repo') = m + 1
  BY <1>5
<1>7. repo' = [n \in 1..(m + 1) |-> repo'[n]] /\ DOMAIN repo' = 1..(m + 1)
  <2>1. PICK g : g = repo'
    OBVIOUS
  <2>2. g \in [1..(m + 1) -> S]
    BY <1>6, <2>1, LenProperties
  <2> QED
    BY <2>1, <2>2
<1>8. Git!Numbers = 1..m /\ Git!Numbers' = 1..(m + 1)
  BY <1>1, <1>7 DEF Git!Numbers
<1>9. repo'[m + 1] = x /\ \A n \in 1..m : repo'[n] = repo[n]
  BY <1>5
<1>10. \A n \in 1..(m + 1) : n \in 1..m \/ n = m + 1
  OBVIOUS
<1>11. \A n \in Git!Numbers' : Git!Whole(repo'[n])
  BY <1>8, <1>9, <1>10 DEF GitStored
<1>12. GitStored'
  <2>1. \E l \in Nat : repo' = [n \in 1..l |-> repo'[n]]
    <3> WITNESS m + 1 \in Nat
    <3> QED
      BY <1>7
  <2> QED
    BY <1>11, <2>1 DEF GitStored
<1>13. GitGrown
  <2>1. Git!Numbers \subseteq Git!Numbers'
    BY <1>8
  <2>2. \A n \in Git!Numbers : repo'[n] = repo[n]
    BY <1>8, <1>9
  <2> QED
    BY <2>1, <2>2 DEF GitGrown
<1>14. \A n \in Git!Numbers' : (n \in Git!Numbers /\ repo'[n] = repo[n]) \/ repo'[n] = x
  BY <1>8, <1>9, <1>10
<1> QED
  BY <1>12, <1>13, <1>14

LEMMA GitEffectKeeps ==
    ASSUME GitStored, GitPrivileges, NEW k, GitFits(k), k.at = "send", NEW q, q = k.todo[1], repo' = Git!Effect(k, q)
    PROVE  /\ GitStored' /\ GitGrown
           /\ \A n \in Git!Numbers' :
                 /\ repo'[n].merged => (n \in Git!Numbers /\ repo[n].merged) \/ (k.call.kind = "merge" /\ k.call.n = n)
                 /\ repo'[n].editor # None => repo'[n].editor = repo'[n].by
<1>0. \A n \in Git!Numbers : repo[n].editor # None => repo[n].editor = repo[n].by
  BY DEF GitPrivileges
<1>9. \A n \in Git!Numbers : Git!Whole(repo[n])
  BY DEF GitStored
<1>1. CASE k.call.kind = "file"
  <2>1. PICK x : x = Git!Filed(k.by, q.x)
    OBVIOUS
  <2>2. Git!Whole(x) /\ ~x.merged /\ x.editor = None
    BY <2>1 DEF Git!Whole, Git!Filed
  <2>3. repo' = Append(repo, x)
    BY <1>1, <2>1 DEF Git!Effect
  <2>4. /\ GitStored' /\ GitGrown
        /\ \A n \in Git!Numbers' : (n \in Git!Numbers /\ repo'[n] = repo[n]) \/ repo'[n] = x
    BY <2>2, <2>3, GitIssueFiled
  <2> QED
    BY <1>0, <2>2, <2>4
<1>2. CASE k.call.kind = "merge"
  <2>1. q.n = k.call.n
    BY <1>2 DEF GitFits, GitSending, Git!Request
  <2>2. PICK x : x = Git!Merged(repo[q.n])
    OBVIOUS
  <2>3. repo' = [repo EXCEPT ![q.n] = x]
    BY <1>2, <2>2 DEF Git!Effect
  <2>4. q.n \in Git!Numbers => /\ Git!Whole(x) /\ x.by = repo[q.n].by /\ x.editor = repo[q.n].editor
    <3>1. SUFFICES ASSUME q.n \in Git!Numbers PROVE Git!Whole(x) /\ x.by = repo[q.n].by /\ x.editor = repo[q.n].editor
      OBVIOUS
    <3>2. PICK i : i = repo[q.n]
      OBVIOUS
    <3>4. i = [pr |-> i.pr, open |-> i.open, labels |-> i.labels, by |-> i.by,
               editor |-> i.editor, merged |-> i.merged, comments |-> i.comments]
      BY <1>9, <3>1, <3>2 DEF Git!Whole
    <3>5. Git!Whole(x) /\ x.by = i.by /\ x.editor = i.editor
      BY <2>2, <3>2, <3>4 DEF Git!Merged, Git!Whole
    <3> QED
      BY <3>2, <3>5
  <2>5. /\ GitStored' /\ GitGrown /\ Git!Numbers' = Git!Numbers
        /\ \A n \in Git!Numbers : repo'[n] = IF n = q.n THEN x ELSE repo[n]
    BY <2>3, <2>4, GitIssueChanged
  <2>6. SUFFICES ASSUME NEW n \in Git!Numbers
                 PROVE  /\ repo'[n].merged => repo[n].merged \/ k.call.n = n
                        /\ repo'[n].editor # None => repo'[n].editor = repo'[n].by
    BY <1>2, <2>5
  <2>7. CASE n = q.n
    BY <1>0, <2>1, <2>4, <2>5, <2>7
  <2>8. CASE n # q.n
    BY <1>0, <2>5, <2>8
  <2> QED
    BY <2>7, <2>8
<1>3. CASE k.call.kind = "edit" /\ q.verb = "patch"
  <2>1. k.todo = <<Git!Request("patch", k.call.n, {}, 1)>> /\ (k.call.n \in Git!Numbers => repo[k.call.n].by = k.by)
    BY <1>3 DEF GitFits, GitSending, Git!Request
  <2>2. q.n = k.call.n
    BY <2>1 DEF Git!Request
  <2>3. PICK x : x = Git!Edited(repo[q.n], k.by)
    OBVIOUS
  <2>4. repo' = [repo EXCEPT ![q.n] = x]
    BY <1>3, <2>3 DEF Git!Effect
  <2>5. q.n \in Git!Numbers =>
           Git!Whole(x) /\ x.by = repo[q.n].by /\ x.editor = repo[q.n].by /\ (x.merged => repo[q.n].merged)
    <3>1. SUFFICES ASSUME q.n \in Git!Numbers
                   PROVE  Git!Whole(x) /\ x.by = repo[q.n].by /\ x.editor = repo[q.n].by /\ (x.merged => repo[q.n].merged)
      OBVIOUS
    <3>2. PICK i : i = repo[q.n]
      OBVIOUS
    <3>4. i = [pr |-> i.pr, open |-> i.open, labels |-> i.labels, by |-> i.by,
               editor |-> i.editor, merged |-> i.merged, comments |-> i.comments]
      BY <1>9, <3>1, <3>2 DEF Git!Whole
    <3>5. Git!Whole(x) /\ x.by = i.by /\ x.editor = k.by /\ x.merged = i.merged
      BY <2>3, <3>2, <3>4 DEF Git!Edited, Git!Whole
    <3>6. k.by = i.by
      BY <2>1, <2>2, <3>1, <3>2
    <3> QED
      BY <3>2, <3>5, <3>6
  <2>6. /\ GitStored' /\ GitGrown /\ Git!Numbers' = Git!Numbers
        /\ \A n \in Git!Numbers : repo'[n] = IF n = q.n THEN x ELSE repo[n]
    <3>1. q.n \in Git!Numbers => Git!Whole(x) /\ x.by = repo[q.n].by
      BY <2>5
    <3> QED
      BY <2>4, <3>1, GitIssueChanged
  <2>7. SUFFICES ASSUME NEW n \in Git!Numbers
                 PROVE  /\ repo'[n].merged => repo[n].merged
                        /\ repo'[n].editor # None => repo'[n].editor = repo'[n].by
    BY <2>6
  <2>8. CASE n = q.n
    BY <1>0, <2>5, <2>6, <2>8
  <2>9. CASE n # q.n
    BY <1>0, <2>6, <2>9
  <2> QED
    BY <2>8, <2>9
<1>4. CASE k.call.kind \in {"touch", "prune"} /\ q.verb # "page"
  <2>1. PICK x : x = Git!Touched(q.verb, repo[q.n], q.x)
    OBVIOUS
  <2>2. repo' = [repo EXCEPT ![q.n] = x]
    BY <1>4, <2>1 DEF Git!Effect
  <2>3. q.n \in Git!Numbers =>
           Git!Whole(x) /\ x.by = repo[q.n].by /\ x.editor = repo[q.n].editor /\ (x.merged => repo[q.n].merged)
    <3>1. SUFFICES ASSUME q.n \in Git!Numbers
                   PROVE  Git!Whole(x) /\ x.by = repo[q.n].by /\ x.editor = repo[q.n].editor /\ (x.merged => repo[q.n].merged)
      OBVIOUS
    <3>2. PICK i : i = repo[q.n]
      OBVIOUS
    <3>3. x = Git!Closed(i) \/ x = Git!Labelled(i, q.x) \/ x = Git!Unlabelled(i, q.x)
      BY <2>1, <3>2 DEF Git!Touched
    <3>4. i = [pr |-> i.pr, open |-> i.open, labels |-> i.labels, by |-> i.by,
               editor |-> i.editor, merged |-> i.merged, comments |-> i.comments]
      BY <1>9, <3>1, <3>2 DEF Git!Whole
    <3>5. Git!Whole(x) /\ x.by = i.by /\ x.editor = i.editor /\ x.merged = i.merged
      BY <3>3, <3>4 DEF Git!Closed, Git!Labelled, Git!Unlabelled, Git!Whole
    <3> QED
      BY <3>2, <3>5
  <2>4. /\ GitStored' /\ GitGrown /\ Git!Numbers' = Git!Numbers
        /\ \A n \in Git!Numbers : repo'[n] = IF n = q.n THEN x ELSE repo[n]
    <3>1. q.n \in Git!Numbers => Git!Whole(x) /\ x.by = repo[q.n].by
      BY <2>3
    <3> QED
      BY <2>2, <3>1, GitIssueChanged
  <2>5. SUFFICES ASSUME NEW n \in Git!Numbers
                 PROVE  /\ repo'[n].merged => repo[n].merged
                        /\ repo'[n].editor # None => repo'[n].editor = repo'[n].by
    BY <2>4
  <2>6. CASE n = q.n
    BY <1>0, <2>3, <2>4, <2>6
  <2>7. CASE n # q.n
    BY <1>0, <2>4, <2>7
  <2> QED
    BY <2>6, <2>7
<1>5. CASE repo' = repo
  <2>1. Git!Numbers' = Git!Numbers /\ \A n \in Git!Numbers : repo'[n] = repo[n]
    BY <1>5 DEF Git!Numbers
  <2>2. GitStored'
    BY <1>5 DEF GitStored, Git!Numbers, Git!Whole
  <2> QED
    BY <1>0, <2>1, <2>2 DEF GitGrown
<1> QED
  BY <1>1, <1>2, <1>3, <1>4, <1>5 DEF Git!Effect

LEMMA GitDoneFits ==
    ASSUME NEW k, GitComplete(k), GitFits(k), NEW j, j = Git!Done(k)
    PROVE  GitComplete(j) /\ GitFits(j) /\ j.at = k.at /\ j.call = k.call /\ j.todo = k.todo
<1>1. PICK did : did = k.did \cup {k.todo[1]}
  OBVIOUS
<1>2. j = [at |-> k.at, call |-> k.call, by |-> k.by, todo |-> k.todo, token |-> k.token, asked |-> k.asked,
           fresh |-> k.fresh, got |-> k.got, nums |-> k.nums, bad |-> k.bad, failed |-> k.failed,
           did |-> did, lost |-> k.lost, mixed |-> k.mixed, want |-> k.want, dead |-> k.dead]
  BY <1>1 DEF Git!Done, GitComplete
<1> QED
  BY <1>2 DEF GitComplete, GitFits, GitSending

\* The calls that are listing are alike, disturbed or not.
LEMMA GitDisturbed ==
    ASSUME GitTables, NEW t \in Task, NEW r, NEW new, task' = Git!Disturb([task EXCEPT ![t] = r], t, new)
    PROVE  /\ task' = [s \in Task |-> task'[s]] /\ task'[t] = r
           /\ \A s \in Task \ {t} : GitComplete(task'[s]) /\ GitAlike(task'[s], task[s])
<1>1. PICK ts : ts = [task EXCEPT ![t] = r]
  OBVIOUS
<1>2. ts[t] = r /\ \A s \in Task \ {t} : ts[s] = task[s]
  BY <1>1 DEF GitTables
<1>3. task' = [s \in Task |-> task'[s]] /\ task'[t] = r
  BY <1>1, <1>2 DEF Git!Disturb
<1>4. ASSUME NEW s \in Task \ {t} PROVE GitComplete(task'[s]) /\ GitAlike(task'[s], task[s])
  <2>1. PICK k : k = task[s]
    OBVIOUS
  <2>2. GitComplete(k)
    BY <2>1 DEF GitTables
  <2>3. task'[s] = k \/ task'[s] = [k EXCEPT !.mixed = TRUE]
    BY <1>1, <1>2, <2>1 DEF Git!Disturb
  <2>4. CASE task'[s] = k
    BY <2>1, <2>2, <2>4 DEF GitAlike
  <2>5. CASE task'[s] = [k EXCEPT !.mixed = TRUE]
    <3>1. PICK j : j = task'[s]
      OBVIOUS
    <3>2. j = [at |-> k.at, call |-> k.call, by |-> k.by, todo |-> k.todo, token |-> k.token, asked |-> k.asked,
               fresh |-> k.fresh, got |-> k.got, nums |-> k.nums, bad |-> k.bad, failed |-> k.failed,
               did |-> k.did, lost |-> k.lost, mixed |-> TRUE, want |-> k.want, dead |-> k.dead]
      BY <2>2, <2>5, <3>1 DEF GitComplete
    <3>3. GitComplete(j) /\ GitAlike(j, k)
      BY <3>2 DEF GitComplete, GitAlike
    <3> QED
      BY <2>1, <3>1, <3>3
  <2> QED
    BY <2>3, <2>4, <2>5
<1> QED
  BY <1>3, <1>4
-----------------------------------------------------------------------------
\* The handlers, one by one.
LEMMA GitReceivesKeeps ==
    ASSUME Git!GitHubAssumption, GitIInv, NEW t \in Task, Git!FileOrEdit(t) \/ Git!Api(t) \/ Git!Merge(t)
    PROVE  GitIInv'
<1>1. Git!Receives(t)
  BY DEF Git!FileOrEdit, Git!Api, Git!Merge
<1>2. task[t].at # "audit" /\ UNCHANGED <<repo, audit, unaudited>> /\ faults' \in Nat /\ faults' >= faults
  BY <1>1 DEF Git!Receives, GitIInv, GitTables
<1>3. ASSUME NEW r, GitComplete(r), GitFits(r), task' = [task EXCEPT ![t] = r] PROVE GitIInv'
  BY <1>2, <1>3, GitQuietStep
<1>4. CASE Git!FileOrEdit(t)
  <2>1. PICK c \in Call, u \in User :
           /\ c.kind \in {"file", "edit"}
           /\ task' = [task EXCEPT ![t] = IF Git!Limited(c, u).limited THEN Git!Idle ELSE Git!Begin(c, u)]
    BY <1>4 DEF Git!FileOrEdit
  <2>2. PICK r : r = IF Git!Limited(c, u).limited THEN Git!Idle ELSE Git!Begin(c, u)
    OBVIOUS
  <2>3. GitComplete(r) /\ GitFits(r)
    BY <2>1, <2>2, GitBeginFits, GitIdleFits
  <2> QED
    BY <1>3, <2>1, <2>2, <2>3
<1>5. CASE Git!Api(t)
  <2>1. PICK c \in Call : c.kind \in {"touch", "prune", "list", "detail"} /\ task' = [task EXCEPT ![t] = Git!Begin(c, None)]
    BY <1>5 DEF Git!Api
  <2>2. PICK r : r = Git!Begin(c, None)
    OBVIOUS
  <2>3. GitComplete(r) /\ GitFits(r)
    BY <2>1, <2>2, GitBeginFits
  <2> QED
    BY <1>3, <2>1, <2>2, <2>3
<1>6. CASE Git!Merge(t)
  <2>1. PICK c \in Call, u \in User :
           /\ c.kind = "merge"
           /\ task' = [task EXCEPT ![t] = IF ~Git!MayMerge(u) THEN [Git!Begin(c, u) EXCEPT !.at = "denied"]
                                         ELSE IF Git!Valid(c) THEN Git!Begin(c, u) ELSE Git!Idle]
    BY <1>6 DEF Git!Merge
  <2>2. CASE ~Git!MayMerge(u)
    <3>1. PICK k : k = Git!Begin(c, u)
      OBVIOUS
    <3>2. k.call = c /\ GitComplete(k)
      <4>1. PICK nums, todo : nums = (IF c.kind = "touch" THEN <<c.n>> ELSE <<>>) /\ todo = Git!FirstRequests(c)
        OBVIOUS
      <4>2. k = [at |-> "token", call |-> c, by |-> u, todo |-> todo, token |-> None, asked |-> 0,
                 fresh |-> TRUE, got |-> <<>>, nums |-> nums, bad |-> {}, failed |-> FALSE,
                 did |-> {}, lost |-> FALSE, mixed |-> FALSE, want |-> {}, dead |-> FALSE]
        BY <3>1, <4>1 DEF Git!Begin, Git!Idle
      <4> QED
        BY <4>2 DEF GitComplete
    <3>3. PICK r : r = [k EXCEPT !.at = "denied"]
      OBVIOUS
    <3>4. r = [at |-> "denied", call |-> k.call, by |-> k.by, todo |-> k.todo, token |-> k.token, asked |-> k.asked,
               fresh |-> k.fresh, got |-> k.got, nums |-> k.nums, bad |-> k.bad, failed |-> k.failed,
               did |-> k.did, lost |-> k.lost, mixed |-> k.mixed, want |-> k.want, dead |-> k.dead]
      BY <3>2, <3>3 DEF GitComplete
    <3>6. task' = [task EXCEPT ![t] = r]
      BY <2>1, <2>2, <3>1, <3>3
    <3>5. GitComplete(r) /\ GitFits(r)
      BY <3>4 DEF GitComplete, GitFits, GitSending
    <3> QED
      BY <1>3, <3>5, <3>6
  <2>3. CASE Git!MayMerge(u) /\ Git!Valid(c)
    <3>1. PICK r : r = Git!Begin(c, u)
      OBVIOUS
    <3>2. GitComplete(r) /\ GitFits(r)
      BY <2>3, <3>1, GitBeginFits DEF Git!MayMerge
    <3> QED
      BY <1>3, <2>1, <2>3, <3>1, <3>2
  <2>4. CASE Git!MayMerge(u) /\ ~Git!Valid(c)
    <3>1. PICK r : r = Git!Idle
      OBVIOUS
    <3>2. GitComplete(r) /\ GitFits(r)
      BY <3>1, GitIdleFits
    <3> QED
      BY <1>3, <2>1, <2>4, <3>1, <3>2
  <2> QED
    BY <2>2, <2>3, <2>4
<1> QED
  BY <1>4, <1>5, <1>6

LEMMA GitUseCachedKeeps ==
    ASSUME Git!GitHubAssumption, GitIInv, NEW t \in Task, Git!UseCached(t)
    PROVE  GitIInv'
<1>1. PICK k : k = task[t] /\ GitComplete(k) /\ GitFits(k)
  BY DEF GitIInv, GitTables, GitCallsFit
<1>2. PICK token, when : token = cached.token /\ when = task[t].asked
  OBVIOUS
<1>3. PICK r : r = [k EXCEPT !.at = "send", !.token = token, !.fresh = TRUE]
  OBVIOUS
<1>4. r = [at |-> "send", call |-> k.call, by |-> k.by, todo |-> k.todo, token |-> token, asked |-> k.asked,
           fresh |-> TRUE, got |-> k.got, nums |-> k.nums, bad |-> k.bad, failed |-> k.failed,
           did |-> k.did, lost |-> k.lost, mixed |-> k.mixed, want |-> k.want, dead |-> k.dead]
  BY <1>1, <1>3 DEF GitComplete
<1>6. task' = [task EXCEPT ![t] = r]
  BY <1>1, <1>2, <1>3 DEF Git!UseCached
<1>5. GitComplete(r) /\ GitFits(r)
  BY <1>1, <1>4 DEF Git!UseCached, GitComplete, GitFits, GitSending
<1>7. task[t].at # "audit" /\ UNCHANGED <<repo, audit, unaudited>> /\ faults' \in Nat /\ faults' >= faults
  BY DEF Git!UseCached, GitIInv, GitTables
<1> QED
  BY <1>1, <1>5, <1>6, <1>7, GitQuietStep

LEMMA GitAskTokenKeeps ==
    ASSUME Git!GitHubAssumption, GitIInv, NEW t \in Task, Git!AskToken(t)
    PROVE  GitIInv'
<1>1. PICK k : k = task[t] /\ GitComplete(k) /\ GitFits(k)
  BY DEF GitIInv, GitTables, GitCallsFit
<1>2. PICK token, when : token = task[t].token /\ when = clock
  OBVIOUS
<1>3. PICK r : r = [k EXCEPT !.at = "asked", !.asked = when]
  OBVIOUS
<1>4. r = [at |-> "asked", call |-> k.call, by |-> k.by, todo |-> k.todo, token |-> k.token, asked |-> when,
           fresh |-> k.fresh, got |-> k.got, nums |-> k.nums, bad |-> k.bad, failed |-> k.failed,
           did |-> k.did, lost |-> k.lost, mixed |-> k.mixed, want |-> k.want, dead |-> k.dead]
  BY <1>1, <1>3 DEF GitComplete
<1>6. task' = [task EXCEPT ![t] = r]
  BY <1>1, <1>2, <1>3 DEF Git!AskToken
<1>5. GitComplete(r) /\ GitFits(r)
  BY <1>1, <1>4 DEF Git!AskToken, GitComplete, GitFits, GitSending
<1>7. task[t].at # "audit" /\ UNCHANGED <<repo, audit, unaudited>> /\ faults' \in Nat /\ faults' >= faults
  BY DEF Git!AskToken, GitIInv, GitTables
<1> QED
  BY <1>1, <1>5, <1>6, <1>7, GitQuietStep

LEMMA GitTokenAnsweredKeeps ==
    ASSUME Git!GitHubAssumption, GitIInv, NEW t \in Task, Git!TokenAnswered(t)
    PROVE  GitIInv'
<1>1. PICK k : k = task[t] /\ GitComplete(k) /\ GitFits(k)
  BY DEF GitIInv, GitTables, GitCallsFit
<1>2. PICK token, when : token = task[t].asked /\ when = task[t].asked
  OBVIOUS
<1>3. PICK r : r = [k EXCEPT !.at = "send", !.token = token, !.fresh = TRUE]
  OBVIOUS
<1>4. r = [at |-> "send", call |-> k.call, by |-> k.by, todo |-> k.todo, token |-> token, asked |-> k.asked,
           fresh |-> TRUE, got |-> k.got, nums |-> k.nums, bad |-> k.bad, failed |-> k.failed,
           did |-> k.did, lost |-> k.lost, mixed |-> k.mixed, want |-> k.want, dead |-> k.dead]
  BY <1>1, <1>3 DEF GitComplete
<1>6. task' = [task EXCEPT ![t] = r]
  BY <1>1, <1>2, <1>3 DEF Git!TokenAnswered
<1>5. GitComplete(r) /\ GitFits(r)
  BY <1>1, <1>4 DEF Git!TokenAnswered, GitComplete, GitFits, GitSending
<1>7. task[t].at # "audit" /\ UNCHANGED <<repo, audit, unaudited>> /\ faults' \in Nat /\ faults' >= faults
  BY DEF Git!TokenAnswered, GitIInv, GitTables
<1> QED
  BY <1>1, <1>5, <1>6, <1>7, GitQuietStep

LEMMA GitAnsweredKeeps ==
    ASSUME Git!GitHubAssumption, GitIInv, NEW t \in Task, Git!Answered(t)
    PROVE  GitIInv'
<1>1. PICK k : k = task[t] /\ GitComplete(k) /\ GitFits(k)
  BY DEF GitIInv, GitTables, GitCallsFit
<1>2. PICK q : q = k.todo[1]
  OBVIOUS
<1>3. PICK j : j = Git!Done(k)
  OBVIOUS
<1>4. PICK r : r = Git!Succeeded(j)
  OBVIOUS
<1>5. /\ k.at = "send" /\ ~Git!Refuses(q) /\ repo' = Git!Effect(k, q)
      /\ task' = Git!Disturb([task EXCEPT ![t] = r], t, repo')
      /\ UNCHANGED <<audit, faults, unaudited>>
  BY <1>1, <1>2, <1>3, <1>4 DEF Git!Answered
<1>6. GitComplete(j) /\ GitFits(j) /\ j.at = k.at /\ j.call = k.call /\ j.todo = k.todo
  BY <1>1, <1>3, GitDoneFits
<1>7. GitComplete(r) /\ GitFits(r) /\ r.call = k.call /\ (k.call.kind = "merge" => r.at = "audit" /\ ~r.failed)
  BY <1>2, <1>4, <1>5, <1>6, GitSucceededFits
<1>8. /\ GitStored' /\ GitGrown
      /\ \A n \in Git!Numbers' :
            /\ repo'[n].merged => (n \in Git!Numbers /\ repo[n].merged) \/ (k.call.kind = "merge" /\ k.call.n = n)
            /\ repo'[n].editor # None => repo'[n].editor = repo'[n].by
  BY <1>1, <1>2, <1>5, GitEffectKeeps DEF GitIInv, GitTables
<1>9. PICK new : new = repo'
  OBVIOUS
<1>10. /\ task' = [s \in Task |-> task'[s]] /\ task'[t] = r
       /\ \A s \in Task \ {t} : GitComplete(task'[s]) /\ GitAlike(task'[s], task[s])
  BY <1>5, <1>9, GitDisturbed DEF GitIInv, GitTables
<1>11. faults' \in Nat /\ faults' >= faults /\ audit \subseteq audit' /\ unaudited \subseteq unaudited'
  BY <1>5 DEF GitIInv, GitTables
<1>12. \A n \in Git!Numbers' :
          /\ repo'[n].merged => \/ n \in Git!Numbers /\ repo[n].merged
                                \/ r.at = "audit" /\ r.call.n = n /\ (faults' = 0 => ~r.failed)
          /\ repo'[n].editor # None => repo'[n].editor = repo'[n].by
  BY <1>7, <1>8
<1> QED
  BY <1>1, <1>5, <1>7, <1>8, <1>10, <1>11, <1>12, GitCallStep

LEMMA GitRefusedKeeps ==
    ASSUME Git!GitHubAssumption, GitIInv, NEW t \in Task, Git!Refused(t)
    PROVE  GitIInv'
<1>1. PICK k : k = task[t] /\ GitComplete(k) /\ GitFits(k)
  BY DEF GitIInv, GitTables, GitCallsFit
<1>2. PICK dead : dead = (k.dead \/ (k.fresh /\ ~Git!Alive(k)))
  OBVIOUS
<1>3. PICK j : j = [k EXCEPT !.dead = dead]
  OBVIOUS
<1>4. j = [at |-> k.at, call |-> k.call, by |-> k.by, todo |-> k.todo, token |-> k.token, asked |-> k.asked,
           fresh |-> k.fresh, got |-> k.got, nums |-> k.nums, bad |-> k.bad, failed |-> k.failed,
           did |-> k.did, lost |-> k.lost, mixed |-> k.mixed, want |-> k.want, dead |-> dead]
  BY <1>1, <1>3 DEF GitComplete
<1>5. PICK r : r = Git!Failed(j)
  OBVIOUS
<1>6. k.at = "send" /\ task' = [task EXCEPT ![t] = r] /\ UNCHANGED <<repo, audit, unaudited, faults>>
  BY <1>1, <1>2, <1>3, <1>5 DEF Git!Refused
<1>7. GitComplete(j) /\ GitFits(j) /\ j.at = "send"
  BY <1>1, <1>4, <1>6 DEF GitComplete, GitFits, GitSending
<1>8. GitComplete(r) /\ GitFits(r)
  BY <1>5, <1>7, GitFailedFits
<1> QED
  BY <1>1, <1>6, <1>8, GitQuietStep DEF GitIInv, GitTables

LEMMA GitBreaksKeeps ==
    ASSUME Git!GitHubAssumption, GitIInv, NEW t \in Task, Git!Breaks(t)
    PROVE  GitIInv'
<1>1. PICK k : k = task[t] /\ GitComplete(k) /\ GitFits(k)
  BY DEF GitIInv, GitTables, GitCallsFit
<1>2. /\ faults \in Nat /\ faults' = faults + 1 /\ k.at # "audit" /\ k.at \in {"asked", "send"}
      /\ UNCHANGED <<audit, unaudited>>
  BY <1>1 DEF Git!Breaks, GitIInv, GitTables
<1>3. faults' \in Nat /\ faults' >= faults /\ faults' # 0
  BY <1>2
<1>4. CASE k.at = "asked"
  <2>1. PICK r : r = Git!Unsent(k)
    OBVIOUS
  <2>2. task' = [task EXCEPT ![t] = r] /\ UNCHANGED repo
    BY <1>1, <1>4, <2>1 DEF Git!Breaks
  <2>3. GitComplete(r) /\ GitFits(r)
    BY <1>1, <1>4, <2>1, GitUnsentFits
  <2> QED
    BY <1>1, <1>2, <1>3, <2>2, <2>3, GitQuietStep
<1>5. CASE k.at = "send" /\ task' = [task EXCEPT ![t] = Git!Failed(k)] /\ UNCHANGED repo
  <2>1. PICK r : r = Git!Failed(k)
    OBVIOUS
  <2>2. GitComplete(r) /\ GitFits(r)
    BY <1>1, <1>5, <2>1, GitFailedFits
  <2> QED
    BY <1>1, <1>2, <1>3, <1>5, <2>1, <2>2, GitQuietStep
<1>6. CASE /\ k.at = "send" /\ repo' = Git!Effect(k, k.todo[1])
           /\ task' = Git!Disturb([task EXCEPT ![t] = [Git!Failed(Git!Done(k)) EXCEPT !.lost = TRUE]], t, repo')
  <2>1. PICK j : j = Git!Done(k)
    OBVIOUS
  <2>2. GitComplete(j) /\ GitFits(j) /\ j.at = k.at /\ j.call = k.call
    BY <1>1, <2>1, GitDoneFits
  <2>3. PICK h : h = Git!Failed(j)
    OBVIOUS
  <2>4. GitComplete(h) /\ GitFits(h) /\ h.call = k.call /\ (k.call.kind = "merge" => h.at = "audit")
    BY <1>6, <2>2, <2>3, GitFailedFits
  <2>5. PICK r : r = [h EXCEPT !.lost = TRUE]
    OBVIOUS
  <2>6. r = [at |-> h.at, call |-> h.call, by |-> h.by, todo |-> h.todo, token |-> h.token, asked |-> h.asked,
             fresh |-> h.fresh, got |-> h.got, nums |-> h.nums, bad |-> h.bad, failed |-> h.failed,
             did |-> h.did, lost |-> TRUE, mixed |-> h.mixed, want |-> h.want, dead |-> h.dead]
    BY <2>4, <2>5 DEF GitComplete
  <2>7. GitComplete(r) /\ GitFits(r) /\ r.call = k.call /\ (k.call.kind = "merge" => r.at = "audit")
    BY <2>4, <2>6 DEF GitComplete, GitFits, GitSending
  <2>8. PICK q, new : q = k.todo[1] /\ new = repo'
    OBVIOUS
  <2>9. /\ GitStored' /\ GitGrown
        /\ \A n \in Git!Numbers' :
              /\ repo'[n].merged => (n \in Git!Numbers /\ repo[n].merged) \/ (k.call.kind = "merge" /\ k.call.n = n)
              /\ repo'[n].editor # None => repo'[n].editor = repo'[n].by
    BY <1>1, <1>6, <2>8, GitEffectKeeps DEF GitIInv, GitTables
  <2>10. task' = Git!Disturb([task EXCEPT ![t] = r], t, new)
    BY <1>6, <2>1, <2>3, <2>5, <2>8
  <2>11. /\ task' = [s \in Task |-> task'[s]] /\ task'[t] = r
         /\ \A s \in Task \ {t} : GitComplete(task'[s]) /\ GitAlike(task'[s], task[s])
    BY <2>10, GitDisturbed DEF GitIInv, GitTables
  <2>12. \A n \in Git!Numbers' :
            /\ repo'[n].merged => \/ n \in Git!Numbers /\ repo[n].merged
                                  \/ r.at = "audit" /\ r.call.n = n /\ (faults' = 0 => ~r.failed)
            /\ repo'[n].editor # None => repo'[n].editor = repo'[n].by
    BY <1>3, <2>7, <2>9
  <2>13. audit \subseteq audit' /\ unaudited \subseteq unaudited'
    BY <1>2
  <2> QED
    BY <1>1, <1>2, <1>3, <2>7, <2>9, <2>11, <2>12, <2>13, GitCallStep
<1> QED
  BY <1>1, <1>2, <1>4, <1>5, <1>6 DEF Git!Breaks

LEMMA GitRecordKeeps ==
    ASSUME Git!GitHubAssumption, GitIInv, NEW t \in Task, Git!Record(t) \/ Git!RecordFails(t)
    PROVE  GitIInv'
<1>1. PICK k : k = task[t] /\ GitComplete(k) /\ GitFits(k)
  BY DEF GitIInv, GitTables, GitCallsFit
<1>2. PICK r : r = [k EXCEPT !.at = "over"]
  OBVIOUS
<1>3. r = [at |-> "over", call |-> k.call, by |-> k.by, todo |-> k.todo, token |-> k.token, asked |-> k.asked,
           fresh |-> k.fresh, got |-> k.got, nums |-> k.nums, bad |-> k.bad, failed |-> k.failed,
           did |-> k.did, lost |-> k.lost, mixed |-> k.mixed, want |-> k.want, dead |-> k.dead]
  BY <1>1, <1>2 DEF GitComplete
<1>4. GitComplete(r) /\ GitFits(r)
  BY <1>3 DEF GitComplete, GitFits, GitSending
<1>5. task' = [task EXCEPT ![t] = r] /\ UNCHANGED repo
  BY <1>1, <1>2 DEF Git!Record, Git!RecordFails
<1>6. /\ task' = [s \in Task |-> task'[s]] /\ task'[t] = r
      /\ \A s \in Task \ {t} : GitComplete(task'[s]) /\ GitAlike(task'[s], task[s])
  BY <1>5 DEF GitIInv, GitTables, GitAlike
<1>7. faults' \in Nat /\ faults' >= faults /\ audit \subseteq audit' /\ unaudited \subseteq unaudited'
  BY DEF Git!Record, Git!RecordFails, GitIInv, GitTables
<1>8. k.at = "audit" =>
         \/ k.call.n \in unaudited'
         \/ \E e \in audit' : e.n = k.call.n /\ e.authorized /\ e.by \in Admin /\ (~k.failed => e.result = "success")
  <2>1. SUFFICES ASSUME k.at = "audit"
                 PROVE  \/ k.call.n \in unaudited'
                        \/ \E e \in audit' : /\ e.n = k.call.n /\ e.authorized /\ e.by \in Admin
                                              /\ (~k.failed => e.result = "success")
    OBVIOUS
  <2>2. k.call.kind = "merge" /\ k.by \in Admin
    BY <1>1, <2>1 DEF GitFits
  <2>3. CASE Git!Record(t)
    <3>1. PICK e : e = Git!Entry(k)
      OBVIOUS
    <3>2. e \in audit'
      BY <1>1, <2>3, <3>1 DEF Git!Record
    <3>3. e.n = k.call.n /\ e.authorized /\ e.by \in Admin /\ (~k.failed => e.result = "success")
      BY <2>1, <2>2, <3>1 DEF Git!Entry
    <3> QED
      BY <3>2, <3>3
  <2>4. CASE Git!RecordFails(t)
    BY <1>1, <2>2, <2>4 DEF Git!RecordFails, Git!Merging
  <2> QED
    BY <2>3, <2>4
<1>9. GitStored' /\ GitGrown
  BY <1>5 DEF GitIInv, GitTables, GitStored, GitGrown, Git!Numbers, Git!Whole
<1>10. \A n \in Git!Numbers' : /\ repo'[n].merged => n \in Git!Numbers /\ repo[n].merged
                               /\ repo'[n].editor # None => repo'[n].editor = repo'[n].by
  BY <1>5 DEF GitIInv, GitPrivileges, Git!Numbers
<1> QED
  BY <1>1, <1>4, <1>6, <1>7, <1>8, <1>9, <1>10, GitCallStep

LEMMA GitRestartKeeps ==
    ASSUME GitIInv, Git!Restart
    PROVE  GitIInv'
<1>1. GitTables'
  BY GitIdleFits DEF Git!Restart, GitIInv, GitTables, GitStored, Git!Numbers, Git!Whole
<1>2. GitCallsFit'
  BY DEF Git!Restart, GitCallsFit, GitFits, GitSending, Git!Idle
<1>3. ASSUME NEW n \in Git!Numbers', repo'[n].merged PROVE GitAccounted(n)'
  <2>1. GitAccounted(n) /\ faults \in Nat /\ faults' = faults + 1 /\ audit' = audit /\ unaudited \subseteq unaudited'
    BY <1>3 DEF Git!Restart, GitIInv, GitTables, GitPrivileges, Git!Numbers
  <2>2. ASSUME NEW s \in Task, task[s].at = "audit", task[s].call.n = n PROVE n \in unaudited'
    <3>1. GitFits(task[s])
      BY DEF GitIInv, GitCallsFit
    <3>2. n \in Git!Merging(s)
      BY <2>2, <3>1 DEF GitFits, Git!Merging
    <3> QED
      BY <2>2, <3>2 DEF Git!Restart
  <2> QED
    BY <2>1, <2>2 DEF GitAccounted
<1> QED
  BY <1>1, <1>2, <1>3 DEF Git!Restart, GitIInv, GitPrivileges, Git!Numbers

LEMMA GitTickKeeps ==
    ASSUME GitIInv, Git!Tick \/ UNCHANGED Git!vars
    PROVE  GitIInv'
<1>1. UNCHANGED <<repo, task, audit, unaudited, faults>>
  BY DEF Git!Tick, Git!vars
<1> QED
  BY <1>1 DEF GitIInv, GitTables, GitStored, GitComplete, Git!Whole, GitCallsFit, GitFits,
     GitSending, GitPrivileges, GitAccounted, Git!Numbers
-----------------------------------------------------------------------------
LEMMA GitInitInv ==
    ASSUME Git!GitHubAssumption, Git!Init
    PROVE  GitIInv
<1>1. GitTables
  BY GitIdleFits DEF Git!GitHubAssumption, Git!Init, GitTables, GitStored, Git!Numbers
<1>2. GitCallsFit
  BY GitIdleFits DEF Git!Init, GitCallsFit
<1>3. GitPrivileges
  BY DEF Git!GitHubAssumption, Git!Init, GitPrivileges, Git!Numbers
<1> QED
  BY <1>1, <1>2, <1>3 DEF GitIInv

LEMMA GitStepInv ==
    ASSUME Git!GitHubAssumption, GitIInv, [Git!Next]_Git!vars
    PROVE  GitIInv'
<1>1. CASE UNCHANGED Git!vars \/ Git!Tick
  BY <1>1, GitTickKeeps
<1>2. CASE Git!Restart
  BY <1>2, GitRestartKeeps
<1>3. ASSUME NEW t \in Task,
             \/ Git!FileOrEdit(t) \/ Git!Api(t) \/ Git!Merge(t) \/ Git!UseCached(t) \/ Git!AskToken(t) \/ Git!TokenAnswered(t)
             \/ Git!Answered(t) \/ Git!Refused(t) \/ Git!Breaks(t) \/ Git!Record(t) \/ Git!RecordFails(t)
      PROVE  GitIInv'
  BY <1>3, GitReceivesKeeps, GitUseCachedKeeps, GitAskTokenKeeps, GitTokenAnsweredKeeps,
     GitAnsweredKeeps, GitRefusedKeeps,
     GitBreaksKeeps, GitRecordKeeps
<1> QED
  BY <1>1, <1>2, <1>3 DEF Git!Next

LEMMA GitSafe ==
    ASSUME GitIInv
    PROVE  Git!PrivilegeAccounted
  BY DEF GitIInv, GitPrivileges, GitAccounted, Git!PrivilegeAccounted

(***************************************************************************)
(* WebTools.                                                               *)
(***************************************************************************)
\* The order of the naturals as a relation, to which WFMin applies.
WebLower == {p \in Nat \X Nat : p[1] < p[2]}

\* Min returns the least of a set of naturals.
LEMMA WebLeastOf ==
    ASSUME NEW T \in SUBSET Nat, T # {}
    PROVE  Web!Min(T) \in T /\ \A y \in T : Web!Min(T) <= y
<1>1. OpToRel(<, Nat) = WebLower
  BY Zenon DEF OpToRel, WebLower
<1>2. IsWellFoundedOn(WebLower, Nat)
  BY <1>1, NatLessThanWellFounded, Zenon
<1>3. PICK m \in T : \A y \in T : <<y, m>> \notin WebLower
  BY <1>2, WFMin, Zenon
<1>4. \A y \in T : <<y, m>> \in Nat \X Nat /\ (y < m => <<y, m>>[1] < <<y, m>>[2])
  OBVIOUS
<1>5. \A y \in T : ~(y < m)
  BY <1>3, <1>4, Zenon DEF WebLower
<1>6. \A y \in T : m <= y
  BY <1>5
<1> QED
  BY <1>6 DEF Web!Min

\* h is g without its first k elements.
WebNewest(h, g, k) == /\ h \in Seq(Nat) /\ k + Len(h) = Len(g)
                      /\ \A i \in 1..Len(h) : h[i] = g[k + i]

\* The first m elements have left the window.
WebGone(g, m, time, w) == \A i \in 1..m : ~(time - g[i] < w)

\* What Live leaves are the newest, and what it takes is out of the window.
LEMMA WebLiveIsNewest ==
    ASSUME NEW g \in Seq(Nat), NEW k \in Nat, NEW h, NEW time \in Nat, NEW w \in Nat
    PROVE  WebNewest(h, g, k)
           => \E m \in Nat : /\ WebNewest(Web!Live(h, time, w), g, m) /\ k <= m
                             /\ \A i \in 1..m : i > k => ~(time - g[i] < w)
<1>0. SUFFICES ASSUME WebNewest(h, g, k)
               PROVE  \E m \in Nat : /\ WebNewest(Web!Live(h, time, w), g, m) /\ k <= m
                                     /\ \A i \in 1..m : i > k => ~(time - g[i] < w)
  OBVIOUS
<1>1. PICK n \in Nat, l \in Nat : n = Len(g) /\ l = Len(h) /\ k + l = n /\ DOMAIN h = 1..l
  BY <1>0 DEF WebNewest
<1>2. h \in Seq(Nat) /\ \A i \in 1..l : h[i] = g[k + i] /\ h[i] \in Nat
  BY <1>0, <1>1 DEF WebNewest
<1>3. PICK P : P = {i \in DOMAIN h : time - h[i] < w}
  OBVIOUS
<1>4. Web!Live(h, time, w) = IF P = {} THEN <<>> ELSE SubSeq(h, Web!Min(P), Len(h))
  BY <1>3 DEF Web!Live, Web!From
<1>5. CASE P = {}
  <2>1. WebNewest(<<>>, g, n)
    BY <1>1 DEF WebNewest
  <2>2. ASSUME NEW i \in 1..n, i > k PROVE ~(time - g[i] < w)
    <3>1. i - k \in 1..l /\ k + (i - k) = i
      BY <1>1, <2>2
    <3>2. ~(time - h[i - k] < w)
      BY <1>1, <1>3, <1>5, <3>1
    <3> QED
      BY <1>2, <3>1, <3>2
  <2> QED
    BY <1>1, <1>4, <1>5, <2>1, <2>2
<1>6. CASE P # {}
  <2>1. P \in SUBSET Nat /\ P \subseteq 1..l
    BY <1>1, <1>3
  <2>2. PICK p \in P : p = Web!Min(P) /\ \A y \in P : p <= y
    BY <1>6, <2>1, WebLeastOf
  <2>3. p \in 1..l /\ p \in Nat
    BY <2>1
  <2>4. PICK u : u = SubSeq(h, p, l)
    OBVIOUS
  <2>5. u \in Seq(Nat) /\ Len(u) = l - p + 1 /\ \A i \in 1..(l - p + 1) : u[i] = h[p + i - 1]
    <3>1. p \in 1..Len(h)
      BY <1>1, <2>3
    <3>2. /\ SubSeq(h, p, Len(h)) \in Seq(Nat)
          /\ Len(SubSeq(h, p, Len(h))) = Len(h) - p + 1
          /\ \A i \in 1..(Len(h) - p + 1) : SubSeq(h, p, Len(h))[i] = h[p + i - 1]
      BY <1>2, <3>1
    <3> QED
      BY <1>1, <2>4, <3>2, Zenon
  <2>6. PICK m \in Nat : m = k + p - 1
    BY <2>3
  <2>7. ASSUME NEW i \in 1..Len(u) PROVE u[i] = g[m + i]
    <3>1. p + i - 1 \in 1..l /\ k + (p + i - 1) = m + i /\ i \in 1..(l - p + 1)
      BY <2>3, <2>5, <2>6
    <3> QED
      BY <1>2, <2>5, <3>1
  <2>8. m + Len(u) = Len(g) /\ k <= m
    <3>1. m + Len(u) = n /\ k <= m
      <4>1. k + l = n
        BY <1>1
      <4>2. Len(u) = l - p + 1
        BY <2>5
      <4> QED
        BY <2>3, <2>6, <4>1, <4>2
    <3> QED
      BY <1>1, <3>1, Zenon
  <2>9. ASSUME NEW i \in 1..m, i > k PROVE ~(time - g[i] < w)
    <3>1. i - k \in 1..l /\ k + (i - k) = i /\ ~(p <= i - k)
      BY <1>1, <2>3, <2>6, <2>9
    <3>2. ~(time - h[i - k] < w)
      BY <1>1, <1>3, <2>2, <3>1
    <3> QED
      BY <1>2, <3>1, <3>2
  <2>10. WebNewest(u, g, m)
    BY <2>5, <2>7, <2>8 DEF WebNewest
  <2> QED
    BY <1>1, <1>4, <1>6, <2>2, <2>4, <2>8, <2>9, <2>10
<1> QED
  BY <1>5, <1>6

\* Elements so many places apart are a window apart.
WebSpread(g, max, w) == \A i, j \in 1..Len(g) : i + max <= j => ~(g[j] - g[i] < w)

\* One more, when fewer than max are within the window.
LEMMA WebSpreadAppended ==
    ASSUME NEW g \in Seq(Nat), NEW h, NEW m \in Nat, NEW time \in Nat, NEW w \in Nat, NEW max \in Nat
    PROVE  WebNewest(h, g, m) /\ WebGone(g, m, time, w) /\ Len(h) < max /\ WebSpread(g, max, w)
           => /\ Append(g, time) \in Seq(Nat) /\ WebSpread(Append(g, time), max, w)
              /\ WebNewest(Append(h, time), Append(g, time), m)
<1>0. SUFFICES ASSUME WebNewest(h, g, m) /\ WebGone(g, m, time, w) /\ Len(h) < max /\ WebSpread(g, max, w)
               PROVE  /\ Append(g, time) \in Seq(Nat) /\ WebSpread(Append(g, time), max, w)
                      /\ WebNewest(Append(h, time), Append(g, time), m)
  OBVIOUS
<1>1. PICK n \in Nat, l \in Nat : n = Len(g) /\ l = Len(h) /\ m + l = n /\ l < max
  <2>1. h \in Seq(Nat) /\ m + Len(h) = Len(g) /\ Len(h) < max
    BY <1>0 DEF WebNewest
  <2>2. Len(g) \in Nat /\ Len(h) \in Nat
    BY <2>1, LenProperties
  <2> QED
    BY <2>1, <2>2
<1>2. PICK u : u = Append(g, time) /\ u \in Seq(Nat)
  <2>1. Append(g, time) \in Seq(Nat)
    OBVIOUS
  <2> QED
    BY <2>1
<1>3. Len(u) = n + 1 /\ u[n + 1] = time /\ \A i \in 1..n : u[i] = g[i]
  BY <1>1, <1>2
<1>4. h \in Seq(Nat) /\ \A i \in 1..l : h[i] = g[m + i]
  BY <1>0, <1>1 DEF WebNewest
<1>5. PICK v : v = Append(h, time) /\ v \in Seq(Nat)
  BY <1>4, AppendProperties
<1>6. Len(v) = l + 1 /\ v[l + 1] = time /\ \A i \in 1..l : v[i] = h[i]
  BY <1>1, <1>4, <1>5
<1>7. WebSpread(u, max, w)
  <2> SUFFICES ASSUME NEW i \in 1..(n + 1), NEW j \in 1..(n + 1), i + max <= j
               PROVE  ~(u[j] - u[i] < w)
    BY <1>3 DEF WebSpread
  <2>1. i \in 1..n
    BY <1>1
  <2>2. CASE j \in 1..n
    BY <1>0, <1>1, <1>3, <2>1, <2>2 DEF WebSpread
  <2>3. CASE j = n + 1
    <3>1. i \in 1..m
      BY <1>1, <2>1, <2>3
    <3> QED
      BY <1>0, <1>3, <2>1, <2>3, <3>1 DEF WebGone
  <2> QED
    BY <2>2, <2>3
<1>8. ASSUME NEW i \in 1..(l + 1) PROVE v[i] = u[m + i]
  <2>1. CASE i \in 1..l
    <3>1. m + i \in 1..n
      BY <1>1, <2>1
    <3> QED
      BY <1>3, <1>4, <1>6, <2>1, <3>1
  <2>2. CASE i = l + 1
    <3>1. m + i = n + 1
      BY <1>1, <2>2
    <3> QED
      BY <1>3, <1>6, <2>2, <3>1
  <2> QED
    BY <2>1, <2>2
<1>9. m + Len(v) = Len(u)
  BY <1>1, <1>3, <1>6
<1>10. WebNewest(v, u, m)
  BY <1>5, <1>6, <1>8, <1>9 DEF WebNewest
<1> QED
  BY <1>2, <1>5, <1>7, <1>10

\* FiniteSets as WebTools has it.
LEMMA WebFinite == \A S : Web!Cardinality(S) = Cardinality(S) /\ (Web!IsFiniteSet(S) <=> IsFiniteSet(S))
  BY DEF Web!Cardinality, Cardinality, Web!IsFiniteSet, IsFiniteSet

\* ... so no window holds more than max of them.
LEMMA WebSpreadIsPromise ==
    ASSUME NEW g \in Seq(Nat), NEW max \in Nat, NEW w \in Nat, WebSpread(g, max, w)
    PROVE  Web!Promise(g, max, w)
<1> SUFFICES ASSUME NEW i \in DOMAIN g
             PROVE  Cardinality({j \in DOMAIN g : j >= i /\ g[j] - g[i] < w}) <= max
  BY WebFinite DEF Web!Promise
<1>1. PICK n \in Nat : n = Len(g) /\ DOMAIN g = 1..n
  OBVIOUS
<1>2. PICK S : S = {j \in DOMAIN g : j >= i /\ g[j] - g[i] < w}
  OBVIOUS
<1>3. ASSUME NEW j \in S PROVE j \in i..(i + max - 1)
  BY <1>1, <1>2 DEF WebSpread
<1>4. i \in Int /\ i + max - 1 \in Int
  BY <1>1
<1>5. IsFiniteSet(i..(i + max - 1)) /\ Cardinality(i..(i + max - 1)) = (IF i > i + max - 1 THEN 0 ELSE (i + max - 1) - i + 1)
  BY <1>4, FS_Interval
<1>6. Cardinality(i..(i + max - 1)) = max
  BY <1>1, <1>5
<1>7. S \in SUBSET (i..(i + max - 1))
  BY <1>3
<1>8. Cardinality(S) <= Cardinality(i..(i + max - 1))
  BY <1>5, <1>7, FS_Subset, Zenon
<1> QED
  BY <1>2, <1>6, <1>8
-----------------------------------------------------------------------------
\* A call, by where it stands.
WebEntry(r) ==
    /\ r = [at |-> r.at, tool |-> r.tool, url |-> r.url, left |-> r.left, until |-> r.until, month |-> r.month]
    /\ r.left \in Nat /\ (r.at = "wait" => r.tool \in Web!Tool)

WebTables ==
    /\ call = [t \in Task |-> call[t]] /\ \A t \in Task : WebEntry(call[t])
    /\ slots = [k \in Web!Tool |-> slots[k]] /\ \A k \in Web!Tool : slots[k] \in Seq(Nat)
    /\ asked = [t \in Task |-> asked[t]]
    /\ credits = [x \in Web!Months |-> credits[x]] /\ \A x \in Web!Months : credits[x] \in Nat
    /\ scrapes = [x \in Web!Months |-> scrapes[x]] /\ \A x \in Web!Months : scrapes[x] \in Nat
    /\ began \in Seq(Nat) /\ now \in Nat

\* The table has the newest fetches; the others have left the window.
WebLimiter == /\ \E k \in Nat : WebNewest(slots["fetch"], began, k) /\ WebGone(began, k, now, SlotWindow)
              /\ WebSpread(began, SlotLimit, SlotWindow)

\* A credit is spent before the scrape it is for.
WebPaying(x) == {t \in Task : call[t].at = "scrape" /\ call[t].month = x}
WebPaid == \A x \in Web!Months : scrapes[x] + Cardinality(WebPaying(x)) <= credits[x] /\ credits[x] <= CreditLimit

LEMMA WebPayingFinite ==
    ASSUME IsFiniteSet(Task), NEW x
    PROVE  IsFiniteSet(WebPaying(x)) /\ Cardinality(WebPaying(x)) \in Nat
<1>1. WebPaying(x) \in SUBSET Task
  BY DEF WebPaying
<1> QED
  BY <1>1, FS_Subset, FS_CardinalityType

\* Every request is of a public url and uses up one of the hops.
WebHopped(n, s) == /\ IsFiniteSet(s) /\ Cardinality(s) + n <= MaxRedirects + 1
                   /\ \A r \in s : r[1] \in Public
WebHops == \A t \in Task : WebHopped(call[t].left, asked[t])

WebIInv == WebTables /\ WebLimiter /\ WebPaid /\ WebHops
-----------------------------------------------------------------------------
LEMMA WebIdleEntry == WebEntry(Web!Idle) /\ Web!Idle.at = "idle" /\ Web!Idle.left = 0
  BY DEF Web!Idle, WebEntry

\* A step of one call.
LEMMA WebOneCall ==
    ASSUME WebTables, NEW t \in Task, NEW r, call' = [call EXCEPT ![t] = r], WebEntry(r)
    PROVE  /\ call' = [u \in Task |-> call'[u]] /\ call'[t] = r /\ \A u \in Task \ {t} : call'[u] = call[u]
           /\ \A u \in Task : WebEntry(call'[u])
  BY DEF WebTables

LEMMA WebSlotsKept ==
    ASSUME WebLimiter, UNCHANGED <<slots, began, now>>
    PROVE  WebLimiter'
  BY DEF WebLimiter

LEMMA WebPaidKept ==
    ASSUME WebTables, WebPaid, NEW t \in Task, NEW r, call' = [call EXCEPT ![t] = r], WebEntry(r),
           call[t].at # "scrape", r.at # "scrape", UNCHANGED <<credits, scrapes>>
    PROVE  WebPaid'
<1>1. call'[t] = r /\ \A u \in Task \ {t} : call'[u] = call[u]
  BY WebOneCall
<1>2. ASSUME NEW x PROVE WebPaying(x)' = WebPaying(x)
  BY <1>1 DEF WebPaying
<1> QED
  BY <1>2 DEF WebPaid

LEMMA WebHopsKept ==
    ASSUME Web!WebToolsAssumption, WebTables, WebHops, NEW t \in Task, NEW r, call' = [call EXCEPT ![t] = r], WebEntry(r),
           \A u \in Task \ {t} : asked'[u] = asked[u], WebHopped(r.left, asked'[t])
    PROVE  WebHops'
<1>1. call'[t] = r /\ \A u \in Task \ {t} : call'[u] = call[u]
  BY WebOneCall
<1> QED
  BY <1>1 DEF WebHops, WebHopped

LEMMA WebFewerHops ==
    ASSUME Web!WebToolsAssumption, NEW n \in Nat, NEW l \in Nat, l <= n, NEW s, WebHopped(n, s)
    PROVE  WebHopped(l, s)
<1>1. Cardinality(s) \in Nat /\ MaxRedirects \in Nat
  BY FS_CardinalityType DEF WebHopped, Web!WebToolsAssumption
<1> QED
  BY <1>1 DEF WebHopped

\* A call goes on, or ends, with no more hops left than it had.
LEMMA WebMoveKeeps ==
    ASSUME Web!WebToolsAssumption, WebIInv, NEW t \in Task, NEW r, call' = [call EXCEPT ![t] = r], WebEntry(r),
           call[t].at # "scrape", r.at # "scrape", r.left <= call[t].left,
           UNCHANGED <<slots, credits, now, began, asked, scrapes>>
    PROVE  WebIInv'
<1>1. WebTables'
  BY WebOneCall DEF WebIInv, WebTables
<1>2. WebHopped(r.left, asked'[t])
  BY WebFewerHops DEF WebIInv, WebTables, WebHops, WebEntry
<1> QED
  BY <1>1, <1>2, WebSlotsKept, WebPaidKept, WebHopsKept DEF WebIInv
-----------------------------------------------------------------------------
LEMMA WebStartKeeps ==
    ASSUME Web!WebToolsAssumption, WebIInv, NEW t \in Task, Web!Start(t)
    PROVE  WebIInv'
<1>1. PICK k \in Web!Tool, u \in Url :
          call' = [call EXCEPT ![t] = [Web!Idle EXCEPT !.at = "wait", !.tool = k, !.url = u, !.until = now,
                                                       !.left = MaxRedirects + 1]]
  BY DEF Web!Start
<1>2. PICK r : r = [Web!Idle EXCEPT !.at = "wait", !.tool = k, !.url = u, !.until = now, !.left = MaxRedirects + 1]
  OBVIOUS
<1>3. WebEntry(r) /\ r.at = "wait" /\ r.left = MaxRedirects + 1
  <2>1. PICK a : a = [Web!Idle EXCEPT !.at = "wait", !.tool = k]
    OBVIOUS
  <2>2. a = [at |-> "wait", tool |-> k, url |-> None, left |-> 0, until |-> 0, month |-> 0]
    BY <2>1 DEF Web!Idle
  <2>3. r = [a EXCEPT !.url = u, !.until = now, !.left = MaxRedirects + 1]
    BY <1>2, <2>1, Zenon
  <2>4. r = [at |-> "wait", tool |-> k, url |-> u, left |-> MaxRedirects + 1, until |-> now, month |-> 0]
    BY <2>2, <2>3
  <2> QED
    BY <2>4 DEF WebEntry, Web!WebToolsAssumption
<1>4. call' = [call EXCEPT ![t] = r] /\ call[t].at = "idle" /\ asked' = [asked EXCEPT ![t] = {}]
      /\ UNCHANGED <<slots, credits, now, began, scrapes>>
  BY <1>1, <1>2 DEF Web!Start
<1>5. WebTables'
  BY <1>3, <1>4, WebOneCall DEF WebIInv, WebTables
<1>6. /\ \A u1 \in Task \ {t} : asked'[u1] = asked[u1]
      /\ asked'[t] = {}
  BY <1>4 DEF WebIInv, WebTables
<1>7. WebHopped(r.left, asked'[t])
  BY <1>3, <1>6, FS_EmptySet DEF WebHopped, Web!WebToolsAssumption
<1>8. WebLimiter' /\ WebPaid' /\ WebHops'
  BY <1>3, <1>4, <1>6, <1>7, WebSlotsKept, WebPaidKept, WebHopsKept DEF WebIInv
<1> QED
  BY <1>5, <1>8 DEF WebIInv

LEMMA WebWaitForSlotKeeps ==
    ASSUME Web!WebToolsAssumption, WebIInv, NEW t \in Task, Web!WaitForSlot(t)
    PROVE  WebIInv'
<1>1. PICK k, recent, begin : /\ k = call[t].tool /\ recent = Web!Live(slots[k], now, SlotWindow)
                              /\ begin = (Len(recent) < SlotLimit)
  OBVIOUS
<1>2. call[t].at = "wait" /\ UNCHANGED <<credits, now, asked, scrapes>>
  BY DEF Web!WaitForSlot
<1>3. PICK l : l = IF begin THEN Append(recent, now) ELSE recent
  OBVIOUS
<1>4. /\ slots' = [slots EXCEPT ![k] = l]
      /\ began' = IF begin /\ k = "fetch" THEN Append(began, now) ELSE began
  BY <1>1, <1>3 DEF Web!WaitForSlot
<1>5. PICK r : /\ call' = [call EXCEPT ![t] = r]
               /\ \/ r = [call[t] EXCEPT !.at = IF k = "fetch" THEN "validate" ELSE "search"]
                  \/ r = [call[t] EXCEPT !.until = recent[1] + SlotWindow]
  <2>1. call' = [call EXCEPT ![t] = IF begin THEN [@ EXCEPT !.at = IF k = "fetch" THEN "validate" ELSE "search"]
                                    ELSE [@ EXCEPT !.until = recent[1] + SlotWindow]]
    BY <1>1 DEF Web!WaitForSlot
  <2> QED
    BY <2>1 DEF WebIInv, WebTables
<1>6. WebEntry(r) /\ r.at # "scrape" /\ r.left = call[t].left /\ k \in Web!Tool
  BY <1>1, <1>2, <1>5 DEF WebIInv, WebTables, WebEntry
<1>7. now \in Nat /\ SlotWindow \in Nat /\ SlotLimit \in Nat /\ slots[k] \in Seq(Nat) /\ began \in Seq(Nat)
  BY <1>6 DEF Web!WebToolsAssumption, WebIInv, WebTables
<1>8. recent \in Seq(Nat) /\ l \in Seq(Nat)
  <2>1. WebNewest(slots[k], slots[k], 0)
    BY <1>7 DEF WebNewest
  <2>2. recent \in Seq(Nat)
    <3>1. PICK n \in Nat : WebNewest(Web!Live(slots[k], now, SlotWindow), slots[k], n)
      BY <1>7, <2>1, WebLiveIsNewest
    <3> QED
      BY <1>1, <3>1 DEF WebNewest
  <2> QED
    BY <1>3, <1>7, <2>2, AppendProperties
<1>9. ASSUME k = "fetch"
      PROVE  WebLimiter'
  <2>1. PICK m \in Nat : WebNewest(slots[k], began, m) /\ WebGone(began, m, now, SlotWindow)
    BY <1>9 DEF WebIInv, WebLimiter
  <2>2. PICK n \in Nat : /\ WebNewest(recent, began, n) /\ m <= n
                         /\ \A i \in 1..n : i > m => ~(now - began[i] < SlotWindow)
    BY <1>1, <1>7, <2>1, WebLiveIsNewest
  <2>3. WebGone(began, n, now, SlotWindow)
    <3> SUFFICES ASSUME NEW i \in 1..n PROVE ~(now - began[i] < SlotWindow)
      BY DEF WebGone
    <3>1. CASE i > m
      BY <2>2, <3>1
    <3>2. CASE i \in 1..m
      BY <2>1, <3>2 DEF WebGone
    <3> QED
      BY <3>1, <3>2
  <2>4. WebSpread(began, SlotLimit, SlotWindow)
    BY DEF WebIInv, WebLimiter
  <2>5. slots'["fetch"] = l
    BY <1>4, <1>6, <1>9 DEF WebIInv, WebTables
  <2>6. CASE begin
    <3>1. began' = Append(began, now) /\ l = Append(recent, now) /\ Len(recent) < SlotLimit
      BY <1>1, <1>3, <1>4, <1>9, <2>6
    <3>2. /\ began' \in Seq(Nat) /\ WebSpread(began', SlotLimit, SlotWindow) /\ WebNewest(l, began', n)
      BY <1>7, <2>2, <2>3, <2>4, <3>1, WebSpreadAppended
    <3>3. WebGone(began', n, now, SlotWindow)
      <4>1. \A i \in 1..Len(began) : began'[i] = began[i]
        BY <1>7, <3>1
      <4>2. n <= Len(began) /\ Len(began) \in Nat
        BY <1>7, <2>2 DEF WebNewest
      <4>3. \A i \in 1..n : i \in 1..Len(began)
        BY <4>2
      <4> QED
        BY <2>3, <4>1, <4>3 DEF WebGone
    <3>4. WebNewest(slots'["fetch"], began', n) /\ WebGone(began', n, now', SlotWindow)
      BY <1>2, <2>5, <3>2, <3>3, Zenon
    <3> QED
      BY <3>2, <3>4 DEF WebLimiter
  <2>7. CASE ~begin
    <3>1. began' = began /\ l = recent
      BY <1>3, <1>4, <2>7
    <3>2. WebNewest(slots'["fetch"], began', n) /\ WebGone(began', n, now', SlotWindow)
      BY <1>2, <2>2, <2>3, <2>5, <3>1, Zenon
    <3> QED
      BY <2>4, <3>1, <3>2 DEF WebLimiter
  <2> QED
    BY <2>6, <2>7
<1>10. ASSUME k # "fetch"
       PROVE  WebLimiter'
  <2>1. slots'["fetch"] = slots["fetch"] /\ began' = began
    BY <1>4, <1>10 DEF WebIInv, WebTables, Web!Tool
  <2> QED
    BY <1>2, <2>1 DEF WebIInv, WebLimiter
<1>11. began' \in Seq(Nat)
  BY <1>4, <1>7, AppendProperties
<1>12. WebTables'
  <2>1. slots' = [j \in Web!Tool |-> slots'[j]] /\ \A j \in Web!Tool : slots'[j] \in Seq(Nat)
    BY <1>4, <1>6, <1>8 DEF WebIInv, WebTables
  <2> QED
    BY <1>2, <1>5, <1>6, <1>11, <2>1, WebOneCall DEF WebIInv, WebTables
<1>13. WebHopped(r.left, asked'[t])
  BY <1>2, <1>6 DEF WebIInv, WebHops
<1>14. WebPaid' /\ WebHops'
  BY <1>2, <1>5, <1>6, <1>13, WebPaidKept, WebHopsKept DEF WebIInv
<1> QED
  BY <1>9, <1>10, <1>12, <1>14 DEF WebIInv

LEMMA WebHopKeeps ==
    ASSUME Web!WebToolsAssumption, WebIInv, NEW t \in Task, Web!Hop(t)
    PROVE  WebIInv'
<1> DEFINE me == call[t]
<1>1. /\ me.at = "validate" /\ UNCHANGED <<slots, credits, now, began, scrapes>>
      /\ me = [at |-> me.at, tool |-> me.tool, url |-> me.url, left |-> me.left, until |-> me.until, month |-> me.month]
      /\ me.left \in Nat
  BY DEF Web!Hop, WebIInv, WebTables, WebEntry
<1>2. CASE me.left = 0 \/ me.url \notin Public
  BY <1>1, <1>2, WebIdleEntry, WebMoveKeeps DEF Web!Hop, Web!Return
<1>3. CASE ~(me.left = 0 \/ me.url \notin Public)
  <2>1. PICK r : r = [me EXCEPT !.at = "get", !.left = @ - 1]
    OBVIOUS
  <2>2. PICK n \in Nat : n = me.left - 1 /\ n + 1 = me.left
    BY <1>1, <1>3
  <2>3. r = [at |-> "get", tool |-> me.tool, url |-> me.url, left |-> n, until |-> me.until, month |-> me.month]
    BY <1>1, <2>1, <2>2
  <2>4. /\ call' = [call EXCEPT ![t] = r]
        /\ asked' = [asked EXCEPT ![t] = @ \cup {<<me.url, me.left>>}]
    <3>1. call' = [call EXCEPT ![t] = [call[t] EXCEPT !.at = "get", !.left = @ - 1]]
      BY <1>3 DEF Web!Hop
    <3>2. call' = [call EXCEPT ![t] = r]
      BY <2>1, <3>1, Zenon
    <3> QED
      BY <1>3, <3>2 DEF Web!Hop
  <2>8. WebEntry(r) /\ r.at = "get" /\ r.left = n
    BY <2>3 DEF WebEntry
  <2>9. /\ \A u \in Task \ {t} : asked'[u] = asked[u]
        /\ asked'[t] = asked[t] \cup {<<me.url, me.left>>}
    BY <2>4 DEF WebIInv, WebTables
  <2>10. WebHopped(n, asked'[t])
    <3>1. WebHopped(me.left, asked[t])
      BY DEF WebIInv, WebHops
    <3>7. IsFiniteSet(asked[t])
      BY <3>1 DEF WebHopped
    <3>2. /\ IsFiniteSet(asked'[t])
          /\ Cardinality(asked'[t]) = (IF <<me.url, me.left>> \in asked[t] THEN Cardinality(asked[t])
                                       ELSE Cardinality(asked[t]) + 1)
      <4>1. PICK x : x = <<me.url, me.left>>
        OBVIOUS
      <4>2. asked'[t] = asked[t] \cup {x}
        BY <2>9, <4>1, Zenon
      <4>3. /\ IsFiniteSet(asked[t] \cup {x})
            /\ Cardinality(asked[t] \cup {x}) = (IF x \in asked[t] THEN Cardinality(asked[t]) ELSE Cardinality(asked[t]) + 1)
        BY <3>7, FS_AddElement
      <4> QED
        BY <4>1, <4>2, <4>3
    <3>3. Cardinality(asked[t]) \in Nat /\ MaxRedirects \in Nat
      BY <3>1, FS_CardinalityType DEF WebHopped, Web!WebToolsAssumption
    <3>4. Cardinality(asked[t]) + me.left <= MaxRedirects + 1
      BY <3>1 DEF WebHopped
    <3>5. Cardinality(asked'[t]) + n <= MaxRedirects + 1
      BY <2>2, <3>2, <3>3, <3>4
    <3>6. \A q \in asked'[t] : q[1] \in Public
      BY <1>3, <2>9, <3>1 DEF WebHopped
    <3> QED
      BY <3>2, <3>5, <3>6 DEF WebHopped
  <2>11. WebTables'
    <3>1. asked' = [u \in Task |-> asked'[u]]
      BY <2>4 DEF WebIInv, WebTables
    <3> QED
      BY <1>1, <2>4, <2>8, <3>1, WebOneCall DEF WebIInv, WebTables
  <2>12. WebLimiter' /\ WebPaid' /\ WebHops'
    BY <1>1, <2>4, <2>8, <2>9, <2>10, WebSlotsKept, WebPaidKept, WebHopsKept DEF WebIInv
  <2> QED
    BY <2>11, <2>12 DEF WebIInv
<1> QED
  BY <1>2, <1>3

LEMMA WebRedirectedKeeps ==
    ASSUME Web!WebToolsAssumption, WebIInv, NEW t \in Task, Web!Redirected(t)
    PROVE  WebIInv'
<1> DEFINE me == call[t]
<1>1. PICK u \in Url : call' = [call EXCEPT ![t] = [@ EXCEPT !.at = "validate", !.url = u]]
  BY DEF Web!Redirected
<1>2. /\ me.at = "get" /\ UNCHANGED <<slots, credits, now, began, asked, scrapes>>
      /\ me = [at |-> me.at, tool |-> me.tool, url |-> me.url, left |-> me.left, until |-> me.until, month |-> me.month]
      /\ me.left \in Nat
  BY DEF Web!Redirected, WebIInv, WebTables, WebEntry
<1>3. PICK r : r = [me EXCEPT !.at = "validate", !.url = u]
  OBVIOUS
<1>5. r = [at |-> "validate", tool |-> me.tool, url |-> u, left |-> me.left, until |-> me.until, month |-> me.month]
  BY <1>2, <1>3
<1>7. call' = [call EXCEPT ![t] = r]
  BY <1>1, <1>3 DEF WebIInv, WebTables
<1>8. WebEntry(r) /\ r.at = "validate" /\ r.left <= me.left
  BY <1>2, <1>5 DEF WebEntry
<1> QED
  BY <1>2, <1>7, <1>8, WebMoveKeeps

\* A credit more, and at most a scrape more that is to come.
LEMMA WebReserveCreditKeeps ==
    ASSUME Web!WebToolsAssumption, WebIInv, NEW t \in Task, Web!ReserveCredit(t)
    PROVE  WebIInv'
<1> DEFINE me == call[t]
<1>1. /\ me.at = "get" /\ UNCHANGED <<slots, now, began, asked, scrapes>>
      /\ me = [at |-> me.at, tool |-> me.tool, url |-> me.url, left |-> me.left, until |-> me.until, month |-> me.month]
      /\ me.left \in Nat
  BY DEF Web!ReserveCredit, WebIInv, WebTables, WebEntry
<1>2. CASE Web!Return(t) /\ UNCHANGED credits
  <2>1. call' = [call EXCEPT ![t] = Web!Idle] /\ Web!Idle.left <= me.left /\ Web!Idle.at # "scrape"
    BY <1>1, <1>2, WebIdleEntry DEF Web!Return
  <2> QED
    BY <1>1, <1>2, <2>1, WebIdleEntry, WebMoveKeeps
<1>3. CASE /\ credits[Web!Month] < CreditLimit
           /\ credits' = [credits EXCEPT ![Web!Month] = @ + 1]
           /\ \/ call' = [call EXCEPT ![t] = [@ EXCEPT !.at = "scrape", !.month = Web!Month]]
              \/ Web!Return(t)
  <2>1. PICK s : s = [me EXCEPT !.at = "scrape", !.month = Web!Month]
    OBVIOUS
  <2>3. s = [at |-> "scrape", tool |-> me.tool, url |-> me.url, left |-> me.left, until |-> me.until, month |-> Web!Month]
    BY <1>1, <2>1
  <2>5. PICK r : call' = [call EXCEPT ![t] = r] /\ (r = s \/ r = Web!Idle)
    BY <1>3, <2>1 DEF Web!Return, WebIInv, WebTables
  <2>6. /\ WebEntry(r) /\ r.left <= me.left
        /\ r.at = "scrape" => r.month = Web!Month
    BY <1>1, <2>3, <2>5, WebIdleEntry DEF WebEntry
  <2>7. /\ call' = [v \in Task |-> call'[v]] /\ call'[t] = r /\ \A v \in Task \ {t} : call'[v] = call[v]
        /\ \A v \in Task : WebEntry(call'[v])
    BY <2>5, <2>6, WebOneCall DEF WebIInv
  <2>8. credits' = [x \in Web!Months |-> credits'[x]] /\ \A x \in Web!Months : credits'[x] \in Nat
    <3>1. credits = [x \in Web!Months |-> credits[x]] /\ \A x \in Web!Months : credits[x] \in Nat
      BY DEF WebIInv, WebTables
    <3>2. PICK z : z = Web!Month
      OBVIOUS
    <3>3. credits' = [credits EXCEPT ![z] = @ + 1]
      BY <1>3, <3>2
    <3>4. credits' = [x \in Web!Months |-> IF x = z THEN credits[x] + 1 ELSE credits[x]]
      BY <3>1, <3>3
    <3> QED
      BY <3>1, <3>4
  <2>9. WebTables'
    BY <1>1, <2>7, <2>8 DEF WebIInv, WebTables
  <2>10. ASSUME NEW x \in Web!Months
         PROVE  scrapes'[x] + Cardinality(WebPaying(x)') <= credits'[x] /\ credits'[x] <= CreditLimit
    <3>1. /\ scrapes[x] \in Nat /\ credits[x] \in Nat /\ scrapes'[x] = scrapes[x] /\ CreditLimit \in Nat
          /\ scrapes[x] + Cardinality(WebPaying(x)) <= credits[x] /\ credits[x] <= CreditLimit
      BY <1>1 DEF WebIInv, WebTables, WebPaid, Web!WebToolsAssumption
    <3>2. IsFiniteSet(WebPaying(x)) /\ Cardinality(WebPaying(x)) \in Nat
      BY WebPayingFinite, WebFinite DEF Web!WebToolsAssumption
    <3>3. t \notin WebPaying(x)
      BY <1>1 DEF WebPaying
    <3>4. CASE x = Web!Month
      <4>1. credits'[x] = credits[x] + 1 /\ credits[x] < CreditLimit
        BY <1>3, <3>4 DEF WebIInv, WebTables
      <4>2. WebPaying(x)' = WebPaying(x) \cup {t} \/ WebPaying(x)' = WebPaying(x)
        <5>1. CASE r.at = "scrape"
          BY <2>6, <2>7, <3>4, <5>1 DEF WebPaying
        <5>2. CASE r.at # "scrape"
          <6>1. \A v \in Task : call'[v].at = "scrape" <=> call[v].at = "scrape"
            BY <1>1, <2>7, <5>2
          <6>2. \A v \in Task : call'[v].at = "scrape" => call'[v].month = call[v].month
            BY <2>7, <5>2
          <6> QED
            BY <6>1, <6>2 DEF WebPaying
        <5> QED
          BY <5>1, <5>2
      <4>3. Cardinality(WebPaying(x) \cup {t}) = Cardinality(WebPaying(x)) + 1
        BY <3>2, <3>3, FS_AddElement
      <4>4. Cardinality(WebPaying(x)') <= Cardinality(WebPaying(x)) + 1 /\ Cardinality(WebPaying(x)') \in Nat
        <5>1. CASE WebPaying(x)' = WebPaying(x) \cup {t}
          BY <3>2, <4>3, <5>1
        <5>2. CASE WebPaying(x)' = WebPaying(x)
          BY <3>2, <5>2
        <5> QED
          BY <4>2, <5>1, <5>2
      <4> QED
        BY <3>1, <3>2, <4>1, <4>4
    <3>5. CASE x # Web!Month
      <4>1. credits'[x] = credits[x]
        BY <1>3, <3>5 DEF WebIInv, WebTables
      <4>2. WebPaying(x)' = WebPaying(x)
        BY <2>6, <2>7, <3>3, <3>5 DEF WebPaying
      <4> QED
        BY <3>1, <4>1, <4>2
    <3> QED
      BY <3>4, <3>5
  <2>11. WebPaid'
    BY <2>10 DEF WebPaid
  <2>12. WebHopped(r.left, asked'[t]) /\ \A v \in Task \ {t} : asked'[v] = asked[v]
    BY <1>1, <2>6, WebFewerHops DEF WebIInv, WebHops, WebEntry
  <2>13. WebLimiter' /\ WebHops'
    BY <1>1, <2>5, <2>6, <2>12, WebSlotsKept, WebHopsKept DEF WebIInv
  <2> QED
    BY <2>9, <2>11, <2>13 DEF WebIInv
<1> QED
  BY <1>2, <1>3 DEF Web!ReserveCredit

LEMMA WebScrapeKeeps ==
    ASSUME Web!WebToolsAssumption, WebIInv, NEW t \in Task, Web!Scrape(t)
    PROVE  WebIInv'
<1>1. PICK z : z = call[t].month
  OBVIOUS
<1>2. /\ call[t].at = "scrape" /\ scrapes' = [scrapes EXCEPT ![z] = @ + 1]
      /\ call' = [call EXCEPT ![t] = Web!Idle]
      /\ UNCHANGED <<slots, credits, now, began, asked>>
  BY <1>1 DEF Web!Scrape, Web!Return
<1>3. /\ call' = [v \in Task |-> call'[v]] /\ call'[t] = Web!Idle /\ \A v \in Task \ {t} : call'[v] = call[v]
      /\ \A v \in Task : WebEntry(call'[v])
  BY <1>2, WebIdleEntry, WebOneCall DEF WebIInv
<1>4. /\ scrapes' = [x \in Web!Months |-> IF x = z THEN scrapes[x] + 1 ELSE scrapes[x]]
      /\ \A x \in Web!Months : scrapes[x] \in Nat /\ scrapes'[x] \in Nat
  <2>1. scrapes = [x \in Web!Months |-> scrapes[x]] /\ \A x \in Web!Months : scrapes[x] \in Nat
    BY DEF WebIInv, WebTables
  <2>2. scrapes' = [x \in Web!Months |-> IF x = z THEN scrapes[x] + 1 ELSE scrapes[x]]
    BY <1>2, <2>1
  <2> QED
    BY <2>1, <2>2
<1>5. WebTables'
  BY <1>2, <1>3, <1>4 DEF WebIInv, WebTables
<1>6. ASSUME NEW x \in Web!Months
      PROVE  scrapes'[x] + Cardinality(WebPaying(x)') <= credits'[x] /\ credits'[x] <= CreditLimit
  <2>1. /\ scrapes[x] \in Nat /\ credits[x] \in Nat /\ credits'[x] = credits[x]
        /\ scrapes[x] + Cardinality(WebPaying(x)) <= credits[x] /\ credits[x] <= CreditLimit
    BY <1>2 DEF WebIInv, WebTables, WebPaid
  <2>2. IsFiniteSet(WebPaying(x)) /\ Cardinality(WebPaying(x)) \in Nat
    BY WebPayingFinite, WebFinite DEF Web!WebToolsAssumption
  <2>3. CASE x = z
    <3>1. t \in WebPaying(x) /\ WebPaying(x)' = WebPaying(x) \ {t}
      BY <1>1, <1>2, <1>3, <2>3, WebIdleEntry DEF WebPaying
    <3>2. Cardinality(WebPaying(x)') = Cardinality(WebPaying(x)) - 1
      BY <2>2, <3>1, FS_RemoveElement
    <3>3. scrapes'[x] = scrapes[x] + 1
      BY <1>4, <2>3
    <3> QED
      BY <2>1, <2>2, <3>2, <3>3
  <2>4. CASE x # z
    <3>1. WebPaying(x)' = WebPaying(x)
      BY <1>1, <1>3, <2>4, WebIdleEntry DEF WebPaying
    <3>2. scrapes'[x] = scrapes[x]
      BY <1>4, <2>4
    <3> QED
      BY <2>1, <3>1, <3>2
  <2> QED
    BY <2>3, <2>4
<1>7. WebPaid'
  BY <1>6 DEF WebPaid
<1>8. WebHopped(Web!Idle.left, asked'[t]) /\ \A v \in Task \ {t} : asked'[v] = asked[v]
  <2>1. call[t].left \in Nat /\ WebHopped(call[t].left, asked[t]) /\ Web!Idle.left \in Nat /\ Web!Idle.left <= call[t].left
    BY WebIdleEntry DEF WebIInv, WebTables, WebHops, WebEntry
  <2> QED
    BY <1>2, <2>1, WebFewerHops
<1>9. WebLimiter' /\ WebHops'
  BY <1>2, <1>8, WebIdleEntry, WebSlotsKept, WebHopsKept DEF WebIInv
<1> QED
  BY <1>5, <1>7, <1>9 DEF WebIInv

LEMMA WebRestartKeeps ==
    ASSUME Web!WebToolsAssumption, WebIInv, Web!Restart
    PROVE  WebIInv'
<1>1. /\ call' = [t \in Task |-> Web!Idle] /\ slots' = [k \in Web!Tool |-> <<>>] /\ began' = <<>>
      /\ UNCHANGED <<credits, now, asked, scrapes>>
  BY DEF Web!Restart
<1>2. WebTables'
  BY <1>1, WebIdleEntry DEF WebIInv, WebTables
<1>3. WebNewest(<<>>, <<>>, 0) /\ WebGone(<<>>, 0, now, SlotWindow) /\ WebSpread(<<>>, SlotLimit, SlotWindow)
  BY DEF WebNewest, WebGone, WebSpread
<1>4. WebLimiter'
  <2>1. slots'["fetch"] = <<>> /\ began' = <<>> /\ now' = now
    BY <1>1 DEF Web!Tool
  <2> QED
    BY <1>3, <2>1 DEF WebLimiter
<1>5. WebPaid'
  <2>1. ASSUME NEW x \in Web!Months
        PROVE  scrapes[x] + Cardinality(WebPaying(x)') <= credits[x]
    <3>1. WebPaying(x)' = {}
      BY <1>1, WebIdleEntry DEF WebPaying
    <3>2. Cardinality(WebPaying(x)) \in Nat
      BY WebPayingFinite, WebFinite DEF Web!WebToolsAssumption
    <3>3. scrapes[x] \in Nat /\ credits[x] \in Nat /\ scrapes[x] + Cardinality(WebPaying(x)) <= credits[x]
      BY DEF WebIInv, WebTables, WebPaid
    <3> QED
      BY <3>1, <3>2, <3>3, FS_EmptySet
  <2> QED
    BY <1>1, <2>1 DEF WebIInv, WebPaid
<1>6. WebHops'
  <2>1. ASSUME NEW t \in Task PROVE WebHopped(Web!Idle.left, asked[t])
    <3>1. call[t].left \in Nat /\ WebHopped(call[t].left, asked[t]) /\ Web!Idle.left \in Nat /\ Web!Idle.left <= call[t].left
      BY WebIdleEntry DEF WebIInv, WebTables, WebHops, WebEntry
    <3> QED
      BY <3>1, WebFewerHops
  <2> QED
    BY <1>1, <2>1 DEF WebHops, WebHopped
<1> QED
  BY <1>2, <1>4, <1>5, <1>6 DEF WebIInv

LEMMA WebTickKeeps ==
    ASSUME Web!WebToolsAssumption, WebIInv, Web!Tick
    PROVE  WebIInv'
<1>1. now' = now + 1 /\ now \in Nat /\ UNCHANGED <<slots, credits, call, began, asked, scrapes>>
  BY DEF Web!Tick, WebIInv, WebTables
<1>2. PICK k \in Nat : WebNewest(slots["fetch"], began, k) /\ WebGone(began, k, now, SlotWindow)
  BY DEF WebIInv, WebLimiter
<1>3. WebGone(began, k, now', SlotWindow)
  <2>1. ASSUME NEW i \in 1..k PROVE ~(now' - began[i] < SlotWindow)
    <3>1. began[i] \in Nat
      <4>1. i \in 1..Len(began) /\ began \in Seq(Nat)
        BY <1>2 DEF WebNewest, WebIInv, WebTables
      <4> QED
        BY <4>1
    <3>2. ~(now - began[i] < SlotWindow)
      BY <1>2 DEF WebGone
    <3> QED
      BY <1>1, <3>1, <3>2 DEF Web!WebToolsAssumption
  <2> QED
    BY <2>1 DEF WebGone
<1>4. WebLimiter'
  BY <1>1, <1>2, <1>3 DEF WebIInv, WebLimiter
<1> QED
  <2>3. WebTables'
    BY <1>1 DEF WebIInv, WebTables, WebEntry
  <2>1. WebPaid'
    BY <1>1 DEF WebIInv, WebPaid, WebPaying
  <2>2. WebHops'
    BY <1>1 DEF WebIInv, WebHops, WebHopped
  <2> QED
    BY <1>4, <2>1, <2>2, <2>3 DEF WebIInv

LEMMA WebStepInv ==
    ASSUME Web!WebToolsAssumption, WebIInv, [Web!Next]_Web!vars
    PROVE  WebIInv'
<1>1. ASSUME NEW t \in Task, Web!Search(t) \/ Web!Answered(t) PROVE WebIInv'
  <2>1. /\ call' = [call EXCEPT ![t] = Web!Idle] /\ call[t].at # "scrape"
        /\ UNCHANGED <<slots, credits, now, began, asked, scrapes>>
    BY <1>1 DEF Web!Search, Web!Answered, Web!Return
  <2>2. Web!Idle.left <= call[t].left
    BY WebIdleEntry DEF WebIInv, WebTables, WebEntry
  <2> QED
    BY <2>1, <2>2, WebIdleEntry, WebMoveKeeps
<1>2. CASE UNCHANGED Web!vars
  BY <1>2, WebSlotsKept DEF Web!vars, WebIInv, WebTables, WebPaid, WebPaying, WebHops
<1> QED
  BY <1>1, <1>2, WebStartKeeps, WebWaitForSlotKeeps, WebHopKeeps, WebRedirectedKeeps,
     WebReserveCreditKeeps, WebScrapeKeeps,
     WebRestartKeeps, WebTickKeeps DEF Web!Next

LEMMA WebInitInv ==
    ASSUME Web!WebToolsAssumption, Web!Init
    PROVE  WebIInv
<1>1. WebTables
  BY WebIdleEntry DEF Web!Init, WebTables
<1>2. WebNewest(<<>>, <<>>, 0) /\ WebGone(<<>>, 0, now, SlotWindow) /\ WebSpread(<<>>, SlotLimit, SlotWindow)
  BY DEF WebNewest, WebGone, WebSpread
<1>3. WebLimiter
  BY <1>2 DEF Web!Init, WebLimiter, Web!Tool
<1>4. WebPaid
  <2>1. ASSUME NEW x \in Web!Months PROVE Cardinality(WebPaying(x)) = 0
    <3>1. WebPaying(x) = {}
      BY WebIdleEntry DEF Web!Init, WebPaying
    <3> QED
      BY <3>1, FS_EmptySet
  <2> QED
    BY <2>1 DEF Web!Init, WebPaid, Web!WebToolsAssumption
<1>5. WebHops
  BY WebIdleEntry, FS_EmptySet DEF Web!Init, WebHops, WebHopped, Web!WebToolsAssumption
<1> QED
  BY <1>1, <1>3, <1>4, <1>5 DEF WebIInv

LEMMA WebSafe ==
    ASSUME Web!WebToolsAssumption, WebIInv
    PROVE  Web!WebWithinBudget
<1>1. Web!Promise(began, SlotLimit, SlotWindow)
  BY WebSpreadIsPromise DEF WebIInv, WebTables, WebLimiter, Web!WebToolsAssumption
<1>2. ASSUME NEW t \in Task
      PROVE  Cardinality(asked[t]) <= MaxRedirects + 1 /\ \A r \in asked[t] : r[1] \in Public
  <2>1. WebHopped(call[t].left, asked[t]) /\ call[t].left \in Nat
    BY DEF WebIInv, WebHops, WebTables, WebEntry
  <2>2. Cardinality(asked[t]) \in Nat /\ MaxRedirects \in Nat
    BY <2>1, FS_CardinalityType DEF WebHopped, Web!WebToolsAssumption
  <2> QED
    BY <2>1, <2>2 DEF WebHopped
<1>3. ASSUME NEW x \in Web!Months PROVE scrapes[x] <= credits[x]
  <2>1. Cardinality(WebPaying(x)) \in Nat
    BY WebPayingFinite, WebFinite DEF Web!WebToolsAssumption
  <2> QED
    BY <2>1 DEF WebIInv, WebTables, WebPaid
<1> QED
  BY <1>1, <1>2, <1>3, WebFinite DEF Web!WebWithinBudget, WebIInv, WebPaid

-----------------------------------------------------------------------------
(* The parts together.  Approval is Presses with what PendingJobsProofs     *)
(* proves about it.                                                        *)
Approval == INSTANCE PendingJobsProofs
              WITH Configurers <- {Owner}, Users <- Requester,
                   Buttons <- {"approve", "configure", "reject"}, UpdatesAccepted <- FALSE

LEMMA ApprovalIsPresses ==
    /\ Presses!Init => Approval!Init
    /\ Presses!Next => Approval!Next
    /\ Presses!vars = Approval!vars
    /\ Approval!OwnerDecidesFirst /\ Approval!DispatchedAtMostOnce
       => Presses!OwnerDecidesFirst /\ Presses!DispatchedAtMostOnce
<1>1. Presses!Next => Approval!Next
  BY DEF Presses!Next, Approval!Next, Presses!Turn, Approval!Turn, Presses!Handle, Approval!Handle,
       Presses!Expire, Approval!Expire, Presses!Restart, Approval!Restart, Presses!Trigger, Approval!Trigger,
       Presses!PrepareInteractive, Approval!PrepareInteractive, Presses!CheckLimits, Approval!CheckLimits,
       Presses!InsertRequest, Approval!InsertRequest, Presses!DeliverCard, Approval!DeliverCard,
       Presses!DeliverFails, Approval!DeliverFails, Presses!AbandonTurn, Approval!AbandonTurn, Presses!Admit,
       Approval!Admit, Presses!OnModel, Approval!OnModel, Presses!OnBack, Approval!OnBack, Presses!GoBack,
       Approval!GoBack, Presses!OnConfigure, Approval!OnConfigure, Presses!OnReject, Approval!OnReject,
       Presses!OnCancel, Approval!OnCancel, Presses!StartDispatch, Approval!StartDispatch, Presses!Ack,
       Approval!Ack, Presses!Gather, Approval!Gather, Presses!MarkDispatched, Approval!MarkDispatched,
       Presses!MarkDispatchFailed, Approval!MarkDispatchFailed, Presses!Respond, Approval!Respond,
       Presses!Press, Approval!Press, Presses!Free, Approval!Free, Presses!Goto, Approval!Goto, Presses!Answer,
       Approval!Answer, Presses!at, Approval!at, Presses!on, Approval!on, Presses!SetStage, Approval!SetStage,
       Presses!OwnerDecided, Approval!OwnerDecided, Presses!Person, Approval!Person, Presses!store,
       Approval!store, Presses!Terminal, Approval!Terminal, Presses!Live, Approval!Live, Presses!Stage,
       Approval!Stage, Presses!Present, Approval!Present, Presses!Pending, Approval!Pending, Presses!PendingOf,
       Approval!PendingOf, Presses!ButtonsOn, Approval!ButtonsOn, Presses!Card, Approval!Card,
       Presses!OwnerOnly, Approval!OwnerOnly, Presses!Idle, Approval!Idle, Presses!PC, Approval!PC,
       Presses!Cardinality, Approval!Cardinality
<1> QED
  BY <1>1 DEF Presses!Init, Approval!Init, Presses!Idle, Approval!Idle, Presses!vars, Approval!vars,
       Presses!OwnerDecidesFirst, Approval!OwnerDecidesFirst, Presses!DispatchedAtMostOnce, Approval!DispatchedAtMostOnce

LEMMA ApprovalAssumptions ==
    /\ Owner \in {Owner} /\ {Owner} \cap Requester = {}
    /\ MaxPending \in Nat /\ MaxRuns \in Nat /\ None \notin Job \cup Approval!Person /\ FALSE \in BOOLEAN
    /\ {"approve", "configure", "reject"} \subseteq Approval!OwnerOnly
<1>1. Owner \notin Requester /\ MaxPending \in Nat /\ MaxRuns \in Nat /\ None \notin Job \cup Requester \cup {Owner}
  BY ServicesAssumption
<1> QED
  BY <1>1 DEF Approval!Person, Approval!OwnerOnly

LEMMA ApprovalInitInv ==
    ASSUME Presses!Init
    PROVE  Approval!AInv
  BY ApprovalIsPresses, ApprovalAssumptions, Approval!InitAInv

LEMMA ApprovalStepInv ==
    ASSUME Approval!AInv, [Presses!Next]_(Presses!vars)
    PROVE  Approval!AInv'
<1>1. [Approval!Next]_(Approval!vars)
  BY ApprovalIsPresses DEF Presses!vars, Approval!vars
<1> QED
  BY <1>1, ApprovalAssumptions, Approval!AInvStep

LEMMA ApprovalSafe ==
    ASSUME Approval!AInv
    PROVE  Presses!OwnerDecidesFirst /\ Presses!DispatchedAtMostOnce
<1>1. Approval!OInv
  BY DEF Approval!AInv
<1> QED
  BY <1>1, ApprovalIsPresses, ApprovalAssumptions, Approval!OInvSafe, Approval!AInvSafe

-----------------------------------------------------------------------------
ConfigurationPart == part = "config" => ConfigIInv

\* The invariant of the part, for every value of the constants.
THEOREM ConfigurationInvariant == Spec => []ConfigurationPart
<1>1. Config!ConfigurationAssumption
  BY ServicesAssumption
<1>2. Init => ConfigurationPart
  BY ConfigInitInv DEF Init, ConfigurationPart
<1>3. ASSUME ConfigurationPart, [Next]_all PROVE ConfigurationPart'
  <2>1. SUFFICES ASSUME part' = "config" PROVE ConfigIInv'
    BY DEF ConfigurationPart
  <2>2. part = "config"
    BY <1>3, <2>1 DEF Next, Frame, all
  <2>3. [Config!Next]_(Config!vars)
    BY <1>3, <2>2 DEF Next, all, Config!vars
  <2> QED
    BY <1>1, <1>3, <2>2, <2>3, ConfigStepInv DEF ConfigurationPart
<1> QED
  BY <1>2, <1>3, PTL DEF Spec

\* A change of the access record is lost to no other change, to no failed query and
\* to no restart (AccessControlStore::update), nor are those of the other records
\* outside the races and failures in `unsure'; between commands the scheduler and
\* the agent run what a restart would load.
THEOREM NoChangeLost == Spec => []ChangesCompose
<1>1. ConfigurationPart => ChangesCompose
  BY ConfigSafe DEF ConfigurationPart, ChangesCompose
<1> QED
  BY <1>1, ConfigurationInvariant, PTL

\* Whoever is no configurer any more is refused ACCESS_CACHE_TTL later at the
\* latest while storage answers, and whoever never was one always
\* (AccessControlStore::load), however loads and updates interleave.
THEOREM RevocationTakesHold == Spec => RevocationBites
<1>1. Config!ConfigurationAssumption
  BY ServicesAssumption
<1>2. ASSUME ConfigurationPart, [Next]_all PROVE [part = "config" => Config!RevocationStep]_all
  <2>1. SUFFICES ASSUME Next, part = "config" PROVE Config!RevocationStep
    BY <1>2
  <2>2. Config!Next
    BY <2>1 DEF Next
  <2> QED
    BY <1>1, <1>2, <2>1, <2>2, ConfigRevocationHolds DEF ConfigurationPart
<1> QED
  BY <1>2, ConfigurationInvariant, PTL DEF Spec, RevocationBites

-----------------------------------------------------------------------------
RemindersPart == part = "reminders" => RemIInv

\* The invariant of the part, for every value of the constants.
THEOREM RemindersInvariant == Spec => []RemindersPart
<1>1. Rem!RemindersAssumption
  BY ServicesAssumption
<1>2. Init => RemindersPart
  BY <1>1, RemInitInv DEF Init, RemindersPart
<1>3. ASSUME RemindersPart, [Next]_all PROVE RemindersPart'
  <2>1. SUFFICES ASSUME part' = "reminders" PROVE RemIInv'
    BY DEF RemindersPart
  <2>2. part = "reminders"
    BY <1>3, <2>1 DEF Next, Frame, all
  <2>3. [Rem!Next]_(Rem!vars)
    BY <1>3, <2>2 DEF Next, all, Rem!vars
  <2> QED
    BY <1>1, <1>3, <2>2, <2>3, RemStepInv DEF RemindersPart
<1> QED
  BY <1>2, <1>3, PTL DEF Spec

\* A confirmed reminder stays in the file, or with the loop that is sending it, until
\* it is sent in its time, once, or its user erases it (Reminders::add, pop_due), for
\* any number of writers, however they overlap, fail and are restarted.  The exceptions
\* are single reminders that were put at risk: their own write crossed another one,
\* somebody wrote back a list read as empty (inside a write, after a broken one, by a
\* failed read), or the loop had them in hand when its write failed, the bot stopped or
\* their user was erased.
THEOREM RemindersKept == Spec => []NoneLostNoneTwice
<1>1. RemindersPart => NoneLostNoneTwice
  BY RemSafe DEF RemindersPart, NoneLostNoneTwice
<1> QED
  BY <1>1, RemindersInvariant, PTL

-----------------------------------------------------------------------------
SkillsPart == part = "skills" => SklIInv

\* The invariant of the part, for every value of the constants.
THEOREM SkillsInvariant == Spec => []SkillsPart
<1>1. Skl!SkillsAssumption
  BY ServicesAssumption
<1>2. Init => SkillsPart
  BY <1>1, SklInitInv DEF Init, SkillsPart
<1>3. ASSUME SkillsPart, [Next]_all PROVE SkillsPart'
  <2>1. SUFFICES ASSUME part' = "skills" PROVE SklIInv'
    BY DEF SkillsPart
  <2>2. part = "skills"
    BY <1>3, <2>1 DEF Next, Frame, all
  <2>3. [Skl!Next]_(Skl!vars)
    BY <1>3, <2>2 DEF Next, all, Skl!vars
  <2> QED
    BY <1>1, <1>3, <2>2, <2>3, SklStepInv DEF SkillsPart
<1> QED
  BY <1>2, <1>3, PTL DEF Spec

\* As long as the disk works, a SKILL.md is a text that was saved, but inside a write
\* and where the skill's last save crossed another save of it or wrote back what such
\* a save had left; and operations that do not overlap keep a cached listing and the
\* directory in step, and a skill its author, for any number of handles, names, users
\* and operations (Skills::save, delete, scan).
THEOREM SkillsWhole == Spec => []SkillsKept
<1>1. SkillsPart => SkillsKept
  BY SklSafe, ServicesAssumption DEF SkillsPart, SkillsKept
<1> QED
  BY <1>1, SkillsInvariant, PTL

-----------------------------------------------------------------------------
GitHubPart == part = "github" => GitIInv

\* The invariant of the part, for every value of the constants.
THEOREM GitHubInvariant == Spec => []GitHubPart
<1>1. Git!GitHubAssumption
  BY ServicesAssumption
<1>2. Init => GitHubPart
  BY <1>1, GitInitInv DEF Init, GitHubPart
<1>3. ASSUME GitHubPart, [Next]_all PROVE GitHubPart'
  <2>1. SUFFICES ASSUME part' = "github" PROVE GitIInv'
    BY DEF GitHubPart
  <2>2. part = "github"
    BY <1>3, <2>1 DEF Next, Frame, all
  <2>3. [Git!Next]_(Git!vars)
    BY <1>3, <2>2 DEF Next, all, Git!vars
  <2> QED
    BY <1>1, <1>3, <2>2, <2>3, GitStepInv DEF GitHubPart
<1> QED
  BY <1>2, <1>3, PTL DEF Spec

\* Every pull request the bot merged is in the audit under an administrator's name, or
\* its record was lost to the disk or a restart, and a report is edited by the user who
\* filed it alone (github_api.rs, edit_feature_request.rs), for any number of calls and
\* users, of any kind, on any repository.
THEOREM PrivilegesKept == Spec => []PrivilegeAccounted
<1>1. GitHubPart => PrivilegeAccounted
  BY GitSafe DEF GitHubPart, PrivilegeAccounted
<1> QED
  BY <1>1, GitHubInvariant, PTL

-----------------------------------------------------------------------------
WebToolsPart == part = "web" => WebIInv

\* The invariant of the part, for every value of the constants.
THEOREM WebToolsInvariant == Spec => []WebToolsPart
<1>1. Web!WebToolsAssumption
  BY ServicesAssumption
<1>2. Init => WebToolsPart
  BY <1>1, WebInitInv DEF Init, WebToolsPart
<1>3. ASSUME WebToolsPart, [Next]_all PROVE WebToolsPart'
  <2>1. SUFFICES ASSUME part' = "web" PROVE WebIInv'
    BY DEF WebToolsPart
  <2>2. part = "web"
    BY <1>3, <2>1 DEF Next, Frame, all
  <2>3. [Web!Next]_(Web!vars)
    BY <1>3, <2>2 DEF Next, all, Web!vars
  <2> QED
    BY <1>1, <1>3, <2>2, <2>3, WebStepInv DEF WebToolsPart
<1> QED
  BY <1>2, <1>3, PTL DEF Spec

\* No window holds more fetches than its tool is granted, no call asks more urls than
\* its hops nor one that its validation did not find public (the request resolves the
\* name once more, which is one step with it here), and no month pays more scrapes than
\* its credits, for any number of calls at once (tools lib.rs, web_fetch.rs, firecrawl.rs).
THEOREM BudgetsHold == Spec => []WebWithinBudget
<1>1. WebToolsPart => WebWithinBudget
  BY WebSafe, ServicesAssumption DEF WebToolsPart, WebWithinBudget
<1> QED
  BY <1>1, WebToolsInvariant, PTL

-----------------------------------------------------------------------------
PressesPart == part = "presses" => Approval!AInv

\* The invariant of the part, for every value of the constants.
THEOREM PressesInvariant == Spec => []PressesPart
<1>2. Init => PressesPart
  BY ApprovalInitInv DEF Init, PressesPart
<1>3. ASSUME PressesPart, [Next]_all PROVE PressesPart'
  <2>1. SUFFICES ASSUME part' = "presses" PROVE Approval!AInv'
    BY DEF PressesPart
  <2>2. part = "presses"
    BY <1>3, <2>1 DEF Next, Frame, all
  <2>3. [Presses!Next]_(Presses!vars)
    BY <1>3, <2>2 DEF Next, all, Presses!vars
  <2> QED
    BY <1>3, <2>2, <2>3, ApprovalStepInv DEF PressesPart
<1> QED
  BY <1>2, <1>3, PTL DEF Spec

\* Any number of presses of a request's card at once run nothing before the owner
\* decides and start one run (pending.rs:252, feature_development.rs:174).
THEOREM ApprovalsHold == Spec => []ApprovalHolds
<1>1. PressesPart => ApprovalHolds
  BY ApprovalSafe DEF PressesPart, ApprovalHolds
<1> QED
  BY <1>1, PressesInvariant, PTL
=============================================================================
