---------------------------- MODULE Configuration ----------------------------
(***************************************************************************)
(* The configuration stores (crates/bot-config) and the commands that      *)
(* change them: /config, /server-config, /personalize, /effort, /labs, the *)
(* erase of a user's configuration and the agent's configure_bot tool.     *)
(*                                                                         *)
(* A record is the set of the settings that are in force in it.  Three     *)
(* disciplines live side by side: the access record is cached and changed  *)
(* under a lock from a fresh load; the server and the user record are      *)
(* loaded, changed and saved with neither; the scheduler's ceiling and the *)
(* classifier also live in memory.  Every query is a step, because other   *)
(* commands run while it is awaited.                                       *)
(***************************************************************************)
EXTENDS Naturals, FiniteSets

CONSTANTS User, Owner,   \* Discord users; OWNER_DISCORD_ID, None when not set
          Admin,         \* administrators of the server
          Command,       \* the commands of an instance
          Task,          \* bound: handlers running at once
          TTL,           \* ACCESS_CACHE_TTL in ticks
          Delegates,     \* who is configurer at the start, besides the owner
          Ceilings,      \* what the scheduler record may hold at the start
          Default,       \* MAX_INFLIGHT_LLM
          MaxCommands, MaxFaults, MaxRestarts, MaxTime,    \* bounds
          None

VARIABLES
    stored,    \* what storage holds under each key
    live,      \* the running scheduler's ceiling and the agent's classifier
    cache,     \* AccessControlStore.cache: None, or a snapshot and its time
    writer,    \* the command that holds write_lock, or None
    task,      \* the handler each command runs in
    clock, issued, faults, restarts,
    intended,  \* auxiliary: the records as the executed commands compose
    since,     \* auxiliary: when a user ceased to be a configurer in storage
    unsure     \* auxiliary: keys under which commands overlapped or storage failed

vars == <<stored, live, cache, writer, task, clock, issued, faults, restarts, intended, since, unsure>>

Keys == {"access", "server", "user", "ceiling", "classifier"}
InMemory == {"ceiling", "classifier"}
Idle == [at |-> "idle", cmd |-> None, by |-> None, snap |-> {}]

\* What a command does depends on its key (Changed has one case for each), and a
\* ceiling is a number.
CommandsKnown ==
    \A c \in Command :
       /\ c.key \in Keys
       /\ c.what = "configurer" => c.key = "access"
       /\ c.what = "proactive" => c.key = "server"
       /\ c.what \in {"personality", "effort", "erase"} <=> c.key = "user"
       /\ c.key = "ceiling" => c.value \in Nat

\* None stands for no time, no handler and no stored ceiling.
ConfigurationAssumption == CommandsKnown /\ None \notin Nat \cup Task /\ TTL \in Nat \ {0}

-----------------------------------------------------------------------------
(* What the commands do to a record.                                       *)

Put(s, facts, on) == IF on THEN s \cup facts ELSE s \ facts

WithPolicy(access) == {u \in User : <<"policy", u>> \in access}

\* configurer_ids.insert and remove.
Delegate(c, access) == Put(access, {<<"configurer", c.target>>}, c.on)

\* /config user limit and respond create the entry they change.
SetPolicy(c, access) == Put(access, {<<c.what, c.target>>}, c.on) \cup {<<"policy", c.target>>}

\* set_user_limit_all and set_user_respond_all change the entries there are.
SetPolicyOfAll(c, access) == Put(access, {<<c.what, u>> : u \in WithPolicy(access)}, c.on)

SetServer(c, server) ==
    IF c.what = "clear" THEN {f \in server : f[1] # "allowed"} ELSE Put(server, {<<c.what, c.target>>}, c.on)

SetProactive(c, server) == Put(server, {<<c.what, c.target>>}, c.on)

SetPersonality(c, user) == Put(user, {c.what}, c.on)
SetEffort(c, user) == Put(user, {c.what}, c.on)

Changed(c, s) ==
    CASE c.what = "configurer" -> Delegate(c, s)
      [] c.key = "access" /\ c.what # "configurer" /\ c.target # None -> SetPolicy(c, s)
      [] c.key = "access" /\ c.what # "configurer" /\ c.target = None -> SetPolicyOfAll(c, s)
      [] c.what = "proactive"   -> SetProactive(c, s)
      [] c.key = "server" /\ c.what # "proactive" -> SetServer(c, s)
      [] c.what = "personality" -> SetPersonality(c, s)
      [] c.what = "effort"      -> SetEffort(c, s)
      [] c.what = "erase"       -> {}
      [] OTHER                  -> c.value

-----------------------------------------------------------------------------
(* Who may give a command.                                                 *)

IsConfigurer(u, access) == u = Owner \/ <<"configurer", u>> \in access

\* The owner is configurer for good; the scheduler panics on a ceiling of zero.
Valid(c) == /\ c.what = "configurer" => c.target # Owner
            /\ c.key = "ceiling" => c.value > 0

\* is_server_admin || is_configurer, with the short circuit of /server-config.
Unchecked(c, by) == \/ c.what \in {"personality", "erase"}
                    \/ c.key = "server" /\ c.what # "proactive" /\ by \in Admin

MayConfigure(c, by, access) == IsConfigurer(by, access)
MayServer(c, by, access) == by \in Admin \/ IsConfigurer(by, access)
MayEffort(c, by, access) == c.target = by \/ by \in Admin \/ IsConfigurer(by, access)

May(c, by, access) == CASE c.key = "server"   -> MayServer(c, by, access)
                        [] c.what = "effort" -> MayEffort(c, by, access)
                        [] OTHER              -> MayConfigure(c, by, access)

\* Where a command starts once it is allowed.
FirstStep(c) == CASE c.key = "access"     -> "lock"
                  [] c.key = "ceiling"    -> "apply"
                  [] c.key = "classifier" -> "save"
                  [] c.what = "erase"     -> "save"
                  [] OTHER                -> "load"

Proceed(t, c, by) ==
    task' = [task EXCEPT ![t] = IF Valid(c)
                                THEN [at |-> FirstStep(c), cmd |-> c, by |-> by,
                                      snap |-> IF c.key = "classifier" THEN c.value ELSE {}]
                                ELSE Idle]

Judge(t, access) == IF May(task[t].cmd, task[t].by, access)
                    THEN Proceed(t, task[t].cmd, task[t].by)
                    ELSE task' = [task EXCEPT ![t] = Idle]

Busy(k) == {t \in Task : task[t].at # "idle" /\ task[t].cmd.key = k}

Receive(t) ==
    /\ task[t].at = "idle" /\ issued < MaxCommands
    /\ issued' = issued + 1
    /\ \E c \in Command, by \in User :
          /\ c.what \in {"personality", "erase"} => c.target = by
          /\ IF Unchecked(c, by) THEN Proceed(t, c, by)
             ELSE task' = [task EXCEPT ![t] = [at |-> "access", cmd |-> c, by |-> by, snap |-> {}]]
          /\ unsure' = IF Busy(c.key) # {} THEN unsure \cup {c.key} ELSE unsure
    /\ UNCHANGED <<stored, live, cache, writer, clock, faults, restarts, intended, since>>

-----------------------------------------------------------------------------
(* AccessControlStore::load.                                               *)

\* MUTANT: a snapshot never ages.
FreshForEver == cache # None

Fresh == cache # None /\ clock - cache.at < TTL

Fail == faults < MaxFaults /\ faults' = faults + 1

UseCache(t) ==
    /\ task[t].at = "access" /\ Fresh
    /\ Judge(t, cache.snap)
    /\ UNCHANGED <<stored, live, cache, writer, clock, issued, faults, restarts, intended, since, unsure>>

Fetch(t) ==
    /\ task[t].at = "access" /\ ~Fresh
    /\ task' = [task EXCEPT ![t].at = "fill", ![t].snap = stored["access"]]
    /\ UNCHANGED <<stored, live, cache, writer, clock, issued, faults, restarts, intended, since, unsure>>

\* The snapshot is as old as the query, its time is that of the write.
Fill(t) ==
    /\ task[t].at = "fill"
    /\ cache' = [snap |-> task[t].snap, at |-> clock]
    /\ Judge(t, task[t].snap)
    /\ UNCHANGED <<stored, live, writer, clock, issued, faults, restarts, intended, since, unsure>>

\* The last known policy, however old; nothing when there is none.
FetchFails(t) ==
    /\ task[t].at = "access" /\ ~Fresh /\ Fail
    /\ Judge(t, IF cache = None THEN {} ELSE cache.snap)
    /\ UNCHANGED <<stored, live, cache, writer, clock, issued, restarts, intended, since, unsure>>

-----------------------------------------------------------------------------
(* AccessControlStore::update.                                             *)

Lock(t) ==
    /\ task[t].at = "lock" /\ writer = None
    /\ writer' = t
    /\ task' = [task EXCEPT ![t].at = "reload"]
    /\ UNCHANGED <<stored, live, cache, clock, issued, faults, restarts, intended, since, unsure>>

\* MUTANT: the change is made to what the readers' cache holds.
ReloadCached(t) ==
    /\ task[t].at = "reload"
    /\ task' = [task EXCEPT ![t].at = "save",
                            ![t].snap = Changed(task[t].cmd, IF cache = None THEN stored["access"] ELSE cache.snap)]
    /\ UNCHANGED <<stored, live, cache, writer, clock, issued, faults, restarts, intended, since, unsure>>

Reload(t) ==
    /\ task[t].at = "reload"
    /\ task' = [task EXCEPT ![t].at = "save", ![t].snap = Changed(task[t].cmd, stored["access"])]
    /\ UNCHANGED <<stored, live, cache, writer, clock, issued, faults, restarts, intended, since, unsure>>

Unlocked(t) == IF writer = t THEN None ELSE writer

ReloadFails(t) ==
    /\ task[t].at = "reload" /\ Fail
    /\ writer' = Unlocked(t)
    /\ task' = [task EXCEPT ![t] = Idle]
    /\ UNCHANGED <<stored, live, cache, clock, issued, restarts, intended, since, unsure>>

Refresh(t) ==
    /\ task[t].at = "refresh"
    /\ cache' = [snap |-> task[t].snap, at |-> clock]
    /\ writer' = Unlocked(t)
    /\ task' = [task EXCEPT ![t] = Idle]
    /\ UNCHANGED <<stored, live, clock, issued, faults, restarts, intended, since, unsure>>

-----------------------------------------------------------------------------
(* The records that are loaded, changed and saved without a lock.          *)

LoadRecord(t) ==
    /\ task[t].at = "load"
    /\ task' = [task EXCEPT ![t].at = "save", ![t].snap = Changed(task[t].cmd, stored[task[t].cmd.key])]
    /\ UNCHANGED <<stored, live, cache, writer, clock, issued, faults, restarts, intended, since, unsure>>

\* A failed load is taken for the defaults, which the save then stores.
LoadRecordFails(t) ==
    /\ task[t].at = "load" /\ Fail
    /\ task' = [task EXCEPT ![t].at = "save", ![t].snap = Changed(task[t].cmd, {})]
    /\ unsure' = unsure \cup {task[t].cmd.key}
    /\ UNCHANGED <<stored, live, cache, writer, clock, issued, restarts, intended, since>>

-----------------------------------------------------------------------------
(* The settings that are also in memory.                                   *)

\* scheduler.set_max_inflight, then scheduler.info for what to save.
ApplyCeiling(t) ==
    /\ task[t].at = "apply"
    /\ live' = [live EXCEPT !["ceiling"] = task[t].cmd.value]
    /\ task' = [task EXCEPT ![t].at = "info"]
    /\ UNCHANGED <<stored, cache, writer, clock, issued, faults, restarts, intended, since, unsure>>

ReadCeiling(t) ==
    /\ task[t].at = "info"
    /\ task' = [task EXCEPT ![t].at = "save", ![t].snap = live["ceiling"]]
    /\ UNCHANGED <<stored, live, cache, writer, clock, issued, faults, restarts, intended, since, unsure>>

\* The classifier is stored before it is used.
ApplyClassifier(t) ==
    /\ task[t].at = "use"
    /\ live' = [live EXCEPT !["classifier"] = task[t].snap]
    /\ task' = [task EXCEPT ![t] = Idle]
    /\ UNCHANGED <<stored, cache, writer, clock, issued, faults, restarts, intended, since, unsure>>

-----------------------------------------------------------------------------
(* Backend::save and Backend::delete.                                      *)

Executes(t) ==
    LET k == task[t].cmd.key
        new == IF task[t].cmd.what = "erase" THEN {} ELSE task[t].snap
    IN  /\ stored' = [stored EXCEPT ![k] = new]
        /\ intended' = [intended EXCEPT ![k] = Changed(task[t].cmd, @)]
        /\ since' = IF k # "access" THEN since
                    ELSE [u \in User |-> IF <<"configurer", u>> \in new THEN None
                                         ELSE IF <<"configurer", u>> \in stored[k] THEN clock ELSE since[u]]

NextStep(c) == CASE c.key = "access" -> "refresh" [] c.key = "classifier" -> "use" [] OTHER -> "idle"

Save(t) ==
    /\ task[t].at = "save"
    /\ Executes(t)
    /\ LET next == NextStep(task[t].cmd)
       IN  task' = [task EXCEPT ![t] = IF next = "idle" THEN Idle ELSE [@ EXCEPT !.at = next]]
    /\ UNCHANGED <<live, cache, writer, clock, issued, faults, restarts, unsure>>

\* The error may come before or after storage has executed the query.
SaveFails(t) ==
    /\ task[t].at = "save" /\ Fail
    /\ \/ Executes(t)
       \/ UNCHANGED <<stored, intended, since>>
    /\ writer' = Unlocked(t)
    /\ task' = [task EXCEPT ![t] = Idle]
    /\ unsure' = IF task[t].cmd.key \in InMemory THEN unsure \cup {task[t].cmd.key} ELSE unsure
    /\ UNCHANGED <<live, cache, clock, issued, restarts>>

-----------------------------------------------------------------------------
(* SchedulerLimitsStore::load and the start of the agent.                  *)
LoadedCeiling(n) == IF n = None THEN Default ELSE IF n = 0 THEN 1 ELSE n

\* The classifier is taken as it is stored.
Loaded(s) == [k \in InMemory |-> IF k = "ceiling" THEN LoadedCeiling(s[k]) ELSE s[k]]

Restart ==
    /\ restarts < MaxRestarts
    /\ restarts' = restarts + 1
    /\ live' = Loaded(stored)
    /\ cache' = None
    /\ writer' = None
    /\ task' = [t \in Task |-> Idle]
    /\ unsure' = unsure \ InMemory
    /\ UNCHANGED <<stored, clock, issued, faults, intended, since>>

\* Assumption: a query is answered, and its answer used, within a tick.
Tick == /\ clock < MaxTime
        /\ \A t \in Task : task[t].at \notin {"fill", "refresh"}
        /\ clock' = clock + 1
        /\ UNCHANGED <<stored, live, cache, writer, task, issued, faults, restarts, intended, since, unsure>>

Init == /\ \E n \in Ceilings :
              stored = [k \in Keys |-> CASE k = "ceiling" -> n [] k = "classifier" -> "off"
                                         [] k = "access" -> {<<"configurer", u>> : u \in Delegates}
                                         [] OTHER -> {}]
        /\ intended = stored
        /\ live = Loaded(stored)
        /\ cache = None /\ writer = None
        /\ task = [t \in Task |-> Idle]
        /\ clock = 0 /\ issued = 0 /\ faults = 0 /\ restarts = 0
        /\ since = [u \in User |-> None]
        /\ unsure = {}

Next == \/ \E t \in Task : \/ Receive(t) \/ UseCache(t) \/ Fetch(t) \/ Fill(t) \/ FetchFails(t)
                           \/ Lock(t) \/ Reload(t) \/ ReloadFails(t) \/ Refresh(t)
                           \/ LoadRecord(t) \/ LoadRecordFails(t)
                           \/ ApplyCeiling(t) \/ ReadCeiling(t) \/ ApplyClassifier(t)
                           \/ Save(t) \/ SaveFails(t)
        \/ Restart \/ Tick

-----------------------------------------------------------------------------
(* No change of the access record is lost to another one, to a failed      *)
(* query or to a restart, and outside the races and failures named in      *)
(* `unsure' the same holds for the other records, and a restart finds what *)
(* was running.                                                            *)
ChangesCompose ==
    /\ stored["access"] = intended["access"]
    /\ \A k \in {"server", "user"} \ unsure : stored[k] = intended[k]
    /\ \A k \in InMemory \ unsure : Busy(k) = {} => live[k] = Loaded(stored)[k]

(* A user who is no configurer any more is refused a TTL later at the      *)
(* latest, whichever commands and loads were under way, unless storage     *)
(* fails; one who never was is always refused.                             *)
RevocationStep ==
    \A t \in Task :
       LET c == task[t].cmd  by == task[t].by
       IN  /\ task[t].at \in {"access", "fill"} /\ task'[t].at \notin {"idle", "access", "fill"}
           /\ ~May(c, by, {}) /\ <<"configurer", by>> \notin stored["access"]
           => since[by] # None /\ (faults' > 0 \/ clock - since[by] < TTL)
RevocationBites == [][RevocationStep]_vars
=============================================================================
