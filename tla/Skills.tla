-------------------------------- MODULE Skills --------------------------------
(***************************************************************************)
(* The skill store (crates/skills) with the tool and the commands that     *)
(* change it (manage_skills.rs, bot-commands).  A skill is a directory     *)
(* whose SKILL.md says who wrote it and who else may edit it; a handle     *)
(* caches the whole listing until it writes something itself.  The bot and *)
(* its agent each have a handle of their own (src/bot/mod.rs:202,          *)
(* src/agent/mod.rs:334) over the same directory.                          *)
(***************************************************************************)
EXTENDS Naturals, FiniteSets

CONSTANTS Name, User,
          Handle,                  \* "bot" and "agent"
          OpsOf(_),                \* what is done through each handle
          Task,                    \* bound: operations at once
          MaxOps, MaxFaults,       \* bounds
          None, Damaged,           \* no skill; a SKILL.md that is empty or gone
          Garbled                  \* a text that is not one that was saved: of a whole
                                   \*   file that does not parse, or of the body alone

VARIABLES
    disk,      \* what each skill's directory holds
    cache,     \* each handle's listing, or None
    task,
    ops, faults,
    foreign,   \* auxiliary: handles under whose listing the other handle has written
    founder,   \* auxiliary: who created each skill that exists
    crossed,   \* auxiliary: skills saved while another save had the file open, or
               \*   with a body that such a save had left
    unsure     \* auxiliary: what may cost a skill its author: "overlap" of operations,
               \*   "fault" of the disk, "stale" listing decided by

vars == <<disk, cache, task, ops, faults, foreign, founder, crossed, unsure>>

Idle == [at |-> "idle", op |-> None, via |-> None, by |-> None, name |-> None,
         who |-> None, view |-> <<>>, new |-> None, shut |-> FALSE]

Skill == [author : User, editors : SUBSET User, body : 0..MaxOps \cup {Garbled}]

\* What is no skill is told from one, and nobody is called None.
SkillsAssumption == /\ MaxOps \in Nat /\ None \notin User \cup {Damaged, Garbled} /\ Damaged # Garbled
                    /\ Garbled \notin 0..MaxOps
                    /\ \A s \in Skill : s \notin {None, Damaged, Garbled}

Made(by, n) == [author |-> by, editors |-> {}, body |-> n]

\* A file that does not parse is skipped.
Readable(d) == [n \in {m \in Name : d[m] \notin {None, Damaged, Garbled}} |-> d[n]]

Find(view, n) == IF n \in DOMAIN view THEN view[n] ELSE None

-----------------------------------------------------------------------------
IsAuthor(s, u) == s.author = u
CanEdit(s, u) == IsAuthor(s, u) \/ u \in s.editors

\* skill_delegate_editor: None when nothing is to be saved.
Delegated(s, u, who, grant) ==
    IF ~IsAuthor(s, u) \/ (grant <=> who \in s.editors) THEN None
    ELSE [s EXCEPT !.editors = IF grant THEN @ \cup {who} ELSE @ \ {who}]

\* manage_skill's save: the author stays, a new skill is the caller's.
Edited(s, u, n) == IF s = None THEN Made(u, n)
                   ELSE IF CanEdit(s, u) THEN [s EXCEPT !.body = n] ELSE None

Wanted(k, s) == CASE k.op = "save"   -> Edited(s, k.by, ops)
                  [] k.op = "grant"  -> IF s = None THEN None ELSE Delegated(s, k.by, k.who, TRUE)
                  [] k.op = "revoke" -> IF s = None THEN None ELSE Delegated(s, k.by, k.who, FALSE)
                  [] OTHER           -> None

MayDelete(k, s) == s # None /\ CanEdit(s, k.by)

\* Once the listing is known: nothing, a save or a delete.
Decided(k, view) ==
    LET s == Find(view, k.name)
    IN  CASE k.op = "delete" /\ MayDelete(k, s) -> [k EXCEPT !.at = "remove", !.view = view]
          [] k.op # "delete" /\ Wanted(k, s) # None  -> [k EXCEPT !.at = "create", !.view = view, !.new = Wanted(k, s)]
          [] k.op = "copy"                         -> [k EXCEPT !.at = "copied", !.view = view]
          [] OTHER                                 -> Idle

-----------------------------------------------------------------------------
Start(t) ==
    /\ task[t].at = "idle" /\ ops < MaxOps
    /\ ops' = ops + 1
    /\ \E h \in Handle, n \in Name, u, v \in User : \E o \in OpsOf(h) :
          /\ o \notin {"grant", "revoke"} => v = u
          /\ task' = [task EXCEPT ![t] = [Idle EXCEPT !.at = "scan", !.op = o, !.via = h, !.by = u,
                                                      !.name = n, !.who = v]]
    /\ unsure' = IF \E k \in Task : task[k].at # "idle" THEN unsure \cup {"overlap"} ELSE unsure
    /\ UNCHANGED <<disk, cache, faults, foreign, founder, crossed>>

Via(t) == task[t].via

\* Skills::scan: the lock of the cache is not held while the disk is read.
ScanCached(t) ==
    /\ task[t].at = "scan" /\ cache[Via(t)] # None
    /\ task' = [task EXCEPT ![t] = Decided(task[t], cache[Via(t)])]
    /\ unsure' = IF Via(t) \in foreign THEN unsure \cup {"stale"} ELSE unsure
    /\ UNCHANGED <<disk, cache, ops, faults, foreign, founder, crossed>>

ScanDisk(t) ==
    /\ task[t].at = "scan" /\ cache[Via(t)] = None
    /\ task' = [task EXCEPT ![t] = [@ EXCEPT !.at = "fill", !.view = Readable(disk)]]
    /\ UNCHANGED <<disk, cache, ops, faults, foreign, founder, crossed, unsure>>

Fill(t) ==
    /\ task[t].at = "fill"
    /\ cache' = [cache EXCEPT ![Via(t)] = task[t].view]
    /\ foreign' = foreign \ {Via(t)}
    /\ task' = [task EXCEPT ![t] = Decided(task[t], task[t].view)]
    /\ UNCHANGED <<disk, ops, faults, founder, crossed, unsure>>

\* One file that cannot be read is skipped, and the listing is cached without it.
ScanSkips(t) ==
    /\ task[t].at = "scan" /\ cache[Via(t)] = None /\ faults < MaxFaults
    /\ faults' = faults + 1
    /\ \E n \in DOMAIN Readable(disk) :
          task' = [task EXCEPT ![t] = [@ EXCEPT !.at = "fill", !.view = [m \in DOMAIN Readable(disk) \ {n} |-> disk[m]]]]
    /\ unsure' = unsure \cup {"fault"}
    /\ UNCHANGED <<disk, cache, ops, foreign, founder, crossed>>

\* load_all: the built-in skill alone, and nothing is cached.
ScanFails(t) ==
    /\ task[t].at = "scan" /\ cache[Via(t)] = None /\ faults < MaxFaults
    /\ faults' = faults + 1
    /\ task' = [task EXCEPT ![t] = Decided(task[t], <<>>)]
    /\ unsure' = unsure \cup {"fault"}
    /\ UNCHANGED <<disk, cache, ops, foreign, founder, crossed>>

\* copy_skills: what the listing says goes into the sandbox of the turn.
Copied(t) ==
    /\ task[t].at = "copied"
    /\ task' = [task EXCEPT ![t] = Idle]
    /\ UNCHANGED <<disk, cache, ops, faults, foreign, founder, crossed, unsure>>

\* A save has the file of n open; the file may be removed under it.
Opens(t, n) == task[t].at = "write" /\ task[t].name = n /\ ~task[t].shut

Founded(n, u) == [founder EXCEPT ![n] = IF @ = None THEN u ELSE @]

\* Skills::save: create truncates, then the text is written, then the cache goes.
Create(t) ==
    /\ task[t].at = "create"
    /\ LET n == task[t].name
           risky == task[t].new.body = Garbled \/ \E v \in Task \ {t} : Opens(v, n)
       IN  /\ disk' = [disk EXCEPT ![n] = Damaged]
           /\ founder' = Founded(n, task[t].by)
           /\ crossed' = IF risky THEN crossed \cup {n} ELSE crossed \ {n}
    /\ foreign' = foreign \cup (Handle \ {Via(t)})
    /\ task' = [task EXCEPT ![t].at = "write"]
    /\ UNCHANGED <<cache, ops, faults, unsure>>

\* The save ends before the file is open, perhaps with the directory made.
CreateFails(t) ==
    /\ task[t].at = "create" /\ faults < MaxFaults
    /\ faults' = faults + 1
    /\ \/ UNCHANGED <<disk, founder>>
       \/ /\ disk[task[t].name] = None
          /\ disk' = [disk EXCEPT ![task[t].name] = Damaged]
          /\ founder' = Founded(task[t].name, task[t].by)
    /\ task' = [task EXCEPT ![t] = Idle]
    /\ unsure' = unsure \cup {"fault"}
    /\ UNCHANGED <<cache, ops, foreign, crossed>>

\* Over another save's text the rest of a longer one stays behind: more body,
\* as a rule, or half a character, and nothing of it can be read.
Spoilt(new) == {[new EXCEPT !.body = Garbled], Garbled}
Written(t) == LET there == disk[task[t].name]
              IN  IF task[t].shut THEN {there}
                  ELSE IF there = Damaged THEN {task[t].new}
                  ELSE {task[t].new} \cup Spoilt(task[t].new)

Write(t) ==
    /\ task[t].at = "write"
    /\ \E d \in Written(t) : disk' = [disk EXCEPT ![task[t].name] = d]
    /\ task' = [task EXCEPT ![t].at = "forget"]
    /\ UNCHANGED <<cache, ops, faults, foreign, founder, crossed, unsure>>

\* The text is cut short, and the listing stays.
WriteFails(t) ==
    /\ task[t].at = "write" /\ faults < MaxFaults
    /\ faults' = faults + 1
    /\ \E d \in {disk[task[t].name]} \cup (IF task[t].shut THEN {} ELSE Spoilt(task[t].new)) :
          disk' = [disk EXCEPT ![task[t].name] = d]
    /\ task' = [task EXCEPT ![t] = Idle]
    /\ unsure' = unsure \cup {"fault"}
    /\ UNCHANGED <<cache, ops, foreign, founder, crossed>>

\* MUTANT: the listing outlives the change.
ForgetNothing(t) ==
    /\ task[t].at = "forget"
    /\ task' = [task EXCEPT ![t] = Idle]
    /\ UNCHANGED <<disk, cache, ops, faults, foreign, founder, crossed, unsure>>

Forget(t) ==
    /\ task[t].at = "forget"
    /\ cache' = [cache EXCEPT ![Via(t)] = None]
    /\ task' = [task EXCEPT ![t] = Idle]
    /\ UNCHANGED <<disk, ops, faults, foreign, founder, crossed, unsure>>

\* Skills::delete: a directory that is gone leaves the listing as it is.
RemoveGone(t) ==
    /\ task[t].at = "remove" /\ disk[task[t].name] = None
    /\ task' = [task EXCEPT ![t] = Idle]
    /\ UNCHANGED <<disk, cache, ops, faults, foreign, founder, crossed, unsure>>

\* Whoever has the file of n open writes to a file that is no more.
ShutFor(t, n, k) == [v \in Task |-> IF v = t THEN k ELSE IF Opens(v, n) THEN [task[v] EXCEPT !.shut = TRUE] ELSE task[v]]

Remove(t) ==
    /\ task[t].at = "remove" /\ disk[task[t].name] # None
    /\ disk' = [disk EXCEPT ![task[t].name] = None]
    /\ founder' = [founder EXCEPT ![task[t].name] = None]
    /\ foreign' = foreign \cup (Handle \ {Via(t)})
    /\ task' = ShutFor(t, task[t].name, [task[t] EXCEPT !.at = "forget"])
    /\ UNCHANGED <<cache, ops, faults, crossed, unsure>>

\* remove_dir_all fails half way, before the file is gone or after.
RemoveFails(t) ==
    /\ task[t].at = "remove" /\ disk[task[t].name] # None /\ faults < MaxFaults
    /\ faults' = faults + 1
    /\ \/ disk' = disk /\ task' = [task EXCEPT ![t] = Idle]
       \/ /\ disk' = [disk EXCEPT ![task[t].name] = Damaged]
          /\ task' = ShutFor(t, task[t].name, Idle)
    /\ unsure' = unsure \cup {"fault"}
    /\ UNCHANGED <<cache, ops, foreign, founder, crossed>>

Init == /\ disk = [n \in Name |-> None]
        /\ cache = [h \in Handle |-> None]
        /\ task = [t \in Task |-> Idle]
        /\ ops = 0 /\ faults = 0
        /\ foreign = {}
        /\ founder = [n \in Name |-> None]
        /\ crossed = {}
        /\ unsure = {}

Next == \E t \in Task : \/ Start(t) \/ ScanCached(t) \/ ScanDisk(t) \/ Fill(t) \/ ScanFails(t) \/ ScanSkips(t)
                        \/ Create(t) \/ CreateFails(t) \/ Write(t) \/ WriteFails(t) \/ Forget(t)
                        \/ Remove(t) \/ RemoveGone(t) \/ RemoveFails(t) \/ Copied(t)

-----------------------------------------------------------------------------
Quiet == \A t \in Task : task[t].at \notin {"create", "write", "forget", "remove"}

Whole(d) == d \notin {Damaged, Garbled} /\ (d # None => d.body # Garbled)

(* Unless the disk fails, a SKILL.md is a text that was saved, but inside  *)
(* a write, however saves, deletes and scans overlap; the exception is a   *)
(* skill whose last save crossed another of the same skill, or wrote back  *)
(* a body that such a save had left.  As long as operations do not overlap *)
(* either, a cached listing is the directory's content unless the other    *)
(* handle has written since it was cached; and a skill stays its author's  *)
(* until it is deleted, as long as nothing is decided by such a listing: a *)
(* skill that was deleted and created anew through the other handle would  *)
(* go back to who wrote it first.                                          *)
SkillsKept ==
    /\ faults = 0 => \A n \in Name \ crossed : Whole(disk[n]) \/ \E t \in Task : Opens(t, n)
    /\ unsure \subseteq {"stale"} /\ Quiet =>
           \A h \in Handle \ foreign : cache[h] # None => cache[h] = Readable(disk)
    /\ unsure = {} => \A n \in DOMAIN Readable(disk) : disk[n].author = founder[n]

(* "The skills are copied in on the first attach of every turn, so a skill *)
(* saved or deleted since the last turn is reflected in the workspace."    *)
CopiesCurrentSkills ==
    \A t \in Task : task[t].at = "copied" => task[t].view = Readable(disk)
=============================================================================
