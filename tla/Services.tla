------------------------------- MODULE Services -------------------------------
(***************************************************************************)
(* The components that are checked for safety alone, in one specification. *)
(* They share no state with one another, so a behaviour runs one of them,  *)
(* its `part'; a variable whose name two components have serves whichever  *)
(* of them is running, and the rest stay None.                             *)
(***************************************************************************)
EXTENDS Naturals, FiniteSets

CONSTANTS None, Torn, Damaged,
          Task, Slot,              \* bounds: handlers, and button presses, at once
          MaxFaults, MaxRestarts, MaxErases,    \* bounds
          \* Configuration
          ConfigUser, Owner, ConfigAdmin, Delegates, Command, TTL, Ceilings, Default, MaxCommands, ConfigTime,
          \* Reminders
          Reminder, OwnerOf(_), Writer, MinDelay, MaxDelay, Delay, ReminderTime,
          \* Skills, of which GitHubIssues and TokenLedger have the users
          Name, User, SkillHandle, OpsOf(_), MaxOps,
          \* GitHubIssues
          Seed, Admin, Call, Life, Margin, PageSize, FileMax, FileWindow, GitCalls, GitTime,
          \* TokenLedger
          Conv, SpeakerOf(_), Usage, Windowed, Days(_), Limit, MaxUses, LedgerTime,
          \* WebTools
          Url, Public, SlotLimit, SlotWindow, MaxRedirects, CreditLimit, MonthLength, WebCalls, WebTime,
          \* PendingJobs
          Job, Requester, MaxPending, MaxRuns

VARIABLES
    part,
    stored, live, cache, writer, task, clock, issued, faults, restarts, intended, since, unsure,
    file, due, job, erases, status, wrong,
    disk, ops, foreign, founder, crossed,
    repo, cached, hits, audit, calls, unaudited,
    rows, events, now, board, spent, disturbed,
    slots, credits, call, began, asked, scrapes,
    stage, hasModel, expired, by, turn, card, press, approved, runs

all == <<part, stored, live, cache, writer, task, clock, issued, faults, restarts, intended, since, unsure,
         file, due, job, erases, status, wrong, disk, ops, foreign, founder, crossed,
         repo, cached, hits, audit, calls, unaudited, rows, events, now, board, spent, disturbed,
         slots, credits, call, began, asked, scrapes,
         stage, hasModel, expired, by, turn, card, press, approved, runs>>

-----------------------------------------------------------------------------
Config == INSTANCE Configuration
            WITH User <- ConfigUser, Admin <- ConfigAdmin, MaxTime <- ConfigTime

Rem == INSTANCE Reminders WITH MaxTime <- ReminderTime, Garbled <- Damaged

Skl == INSTANCE Skills WITH Handle <- SkillHandle, Garbled <- Torn

Git == INSTANCE GitHubIssues WITH MaxCalls <- GitCalls, MaxTime <- GitTime

Ledger == INSTANCE TokenLedger WITH OwnerOf <- SpeakerOf, MaxTime <- LedgerTime

Web == INSTANCE WebTools WITH MaxCalls <- WebCalls, MaxTime <- WebTime

\* PendingJobs: the buttons of an approval card, and updates of the card may be
\* refused.
Presses == INSTANCE PendingJobs
             WITH Configurers <- {Owner}, Users <- Requester,
                  Buttons <- {"approve", "configure", "reject"}, UpdatesAccepted <- FALSE

\* What the proofs about the parts suppose.
ASSUME ServicesAssumption ==
    /\ Config!ConfigurationAssumption /\ Rem!RemindersAssumption /\ Skl!SkillsAssumption
    /\ Git!GitHubAssumption /\ Web!WebToolsAssumption
    /\ Owner \notin Requester /\ MaxPending \in Nat /\ MaxRuns \in Nat /\ None \notin Job \cup Requester \cup {Owner}

-----------------------------------------------------------------------------
\* What a part does not use is None (IF, because TLC would take an implication
\* in an initial predicate for two cases), ...
Blank ==
    /\ IF part \in {"config"} THEN TRUE ELSE stored = None /\ live = None /\ writer = None /\ issued = None /\ intended = None /\ since = None
    /\ IF part \in {"config", "skills"} THEN TRUE ELSE cache = None
    /\ IF part \in {"config", "skills", "github"} THEN TRUE ELSE task = None
    /\ IF part \in {"config", "reminders", "github"} THEN TRUE ELSE clock = None
    /\ IF part \in {"config", "reminders", "skills", "github"} THEN TRUE ELSE faults = None
    /\ IF part \in {"config", "reminders"} THEN TRUE ELSE restarts = None
    /\ IF part \in {"config", "reminders", "skills"} THEN TRUE ELSE unsure = None
    /\ IF part \in {"reminders"} THEN TRUE ELSE file = None /\ due = None /\ job = None /\ status = None /\ wrong = None
    /\ IF part \in {"reminders", "ledger"} THEN TRUE ELSE erases = None
    /\ IF part \in {"skills"} THEN TRUE ELSE disk = None /\ ops = None /\ foreign = None /\ founder = None /\ crossed = None
    /\ IF part \in {"github"} THEN TRUE ELSE repo = None /\ cached = None /\ hits = None /\ audit = None /\ unaudited = None
    /\ IF part \in {"github", "web"} THEN TRUE ELSE calls = None
    /\ IF part \in {"ledger"} THEN TRUE ELSE rows = None
    /\ IF part \in {"ledger"} THEN TRUE ELSE events = None /\ board = None /\ spent = None /\ disturbed = None
    /\ IF part \in {"ledger", "web"} THEN TRUE ELSE now = None
    /\ IF part \in {"web"} THEN TRUE ELSE slots = None /\ credits = None /\ call = None /\ began = None /\ asked = None /\ scrapes = None
    /\ IF part \in {"presses"} THEN TRUE ELSE stage = None /\ hasModel = None /\ expired = None /\ by = None /\ turn = None /\ card = None /\ press = None /\ approved = None /\ runs = None

\* ... and stays so.
Frame ==
    /\ UNCHANGED part
    /\ IF part \in {"config"} THEN TRUE ELSE UNCHANGED <<stored, live, writer, issued, intended, since>>
    /\ IF part \in {"config", "skills"} THEN TRUE ELSE UNCHANGED cache
    /\ IF part \in {"config", "skills", "github"} THEN TRUE ELSE UNCHANGED task
    /\ IF part \in {"config", "reminders", "github"} THEN TRUE ELSE UNCHANGED clock
    /\ IF part \in {"config", "reminders", "skills", "github"} THEN TRUE ELSE UNCHANGED faults
    /\ IF part \in {"config", "reminders"} THEN TRUE ELSE UNCHANGED restarts
    /\ IF part \in {"config", "reminders", "skills"} THEN TRUE ELSE UNCHANGED unsure
    /\ IF part \in {"reminders"} THEN TRUE ELSE UNCHANGED <<file, due, job, status, wrong>>
    /\ IF part \in {"reminders", "ledger"} THEN TRUE ELSE UNCHANGED erases
    /\ IF part \in {"skills"} THEN TRUE ELSE UNCHANGED <<disk, ops, foreign, founder, crossed>>
    /\ IF part \in {"github"} THEN TRUE ELSE UNCHANGED <<repo, cached, hits, audit, unaudited>>
    /\ IF part \in {"github", "web"} THEN TRUE ELSE UNCHANGED calls
    /\ IF part \in {"ledger"} THEN TRUE ELSE UNCHANGED rows
    /\ IF part \in {"ledger"} THEN TRUE ELSE UNCHANGED <<events, board, spent, disturbed>>
    /\ IF part \in {"ledger", "web"} THEN TRUE ELSE UNCHANGED now
    /\ IF part \in {"web"} THEN TRUE ELSE UNCHANGED <<slots, credits, call, began, asked, scrapes>>
    /\ IF part \in {"presses"} THEN TRUE ELSE UNCHANGED <<stage, hasModel, expired, by, turn, card, press, approved, runs>>

Init == \/ part = "config" /\ Config!Init /\ Blank
        \/ part = "reminders" /\ Rem!Init /\ Blank
        \/ part = "skills" /\ Skl!Init /\ Blank
        \/ part = "github" /\ Git!Init /\ Blank
        \/ part = "ledger" /\ Ledger!Init /\ Blank
        \/ part = "web" /\ Web!Init /\ Blank
        \/ part = "presses" /\ Presses!Init /\ Blank

Next == \/ part = "config" /\ Config!Next /\ Frame
        \/ part = "reminders" /\ Rem!Next /\ Frame
        \/ part = "skills" /\ Skl!Next /\ Frame
        \/ part = "github" /\ Git!Next /\ Frame
        \/ part = "ledger" /\ Ledger!Next /\ Frame
        \/ part = "web" /\ Web!Next /\ Frame
        \/ part = "presses" /\ Presses!Next /\ Frame

Spec == Init /\ [][Next]_all

-----------------------------------------------------------------------------
\* INVARIANT (config_cmd.rs, bot-config): Configuration!ChangesCompose, no
\* change of a record is lost but in the races and failures it names.
ChangesCompose == part = "config" => Config!ChangesCompose

\* ACTION PROPERTY (bot-config lib.rs): whoever ceases to be a configurer is
\* refused once the cached policy has aged.
RevocationBites == [][part = "config" => Config!RevocationStep]_all

\* INVARIANT (crates/reminders): a confirmed reminder that no crossing write, list
\* read as empty or lost hand put at risk is kept until it is sent, once, or erased.
NoneLostNoneTwice == part = "reminders" => Rem!NoneLostNoneTwice

\* INVARIANT (crates/skills): skills are whole unless saves of one crossed, their
\* author's, and listed as they are on disk.
SkillsKept == part = "skills" => Skl!SkillsKept

\* INVARIANT (crates/github-issues, github_api.rs): the report of a call is what
\* it did.
SaysWhatItDid == part = "github" => Git!SaysWhatItDid

\* INVARIANT (github_api.rs, edit_feature_request.rs): merges are audited, and a
\* report is edited by its author alone.
PrivilegeAccounted == part = "github" => Git!PrivilegeAccounted

\* INVARIANT (crates/token-monitor): rows, events and boards add up.
LeaderboardAdds == part = "ledger" => Ledger!LeaderboardAdds

\* INVARIANT (crates/tools): fetches keep to their slots, hops and credits.
WebWithinBudget == part = "web" => Web!WebWithinBudget

\* INVARIANT (pending.rs:252, feature_development.rs:174): with three presses of
\* a request's card at once nothing runs before the owner decides, nor twice.
ApprovalHolds == part = "presses" => Presses!OwnerDecidesFirst /\ Presses!DispatchedAtMostOnce
=============================================================================
