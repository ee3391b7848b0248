----------------------------- MODULE GitHubIssues -----------------------------
(***************************************************************************)
(* The GitHub client (crates/github-issues) and the tools built on it:     *)
(* create_feature_request, edit_feature_request and github_api with its    *)
(* audit of merges (crates/tools).  A call is a list of requests still to  *)
(* send; a request carries a token, which is cached, and its answer may be *)
(* lost after GitHub has done what was asked.  GitHub itself is external:  *)
(* a sequence of numbered issues and pull requests.                        *)
(***************************************************************************)
EXTENDS Naturals, Sequences, FiniteSetsExt, RateLimiter

CONSTANTS Seed,            \* the issues and pull requests there are
          User, Admin,     \* who asks; those who are configurers
          Call, Task,      \* the calls of an instance; bound: calls at once
          Life, Margin,    \* how long a token lives; how early it is renewed
          PageSize,        \* per_page
          FileMax, FileWindow,    \* RATE_LIMIT_MAX_REQUESTS, RATE_LIMIT_WINDOW
          MaxCalls, MaxFaults, MaxTime,    \* bounds
          None

VARIABLES
    repo,        \* the issues and pull requests, by number
    cached,      \* GitHubIssueReporter.cached
    task, hits,  \* the calls under way; the two limiters
    audit,       \* pr_merge_audit.jsonl
    clock, calls, faults,
    unaudited    \* auxiliary: merges whose record the disk or a restart lost

vars == <<repo, cached, task, hits, audit, clock, calls, faults, unaudited>>

Whole(i) == i = [pr |-> i.pr, open |-> i.open, labels |-> i.labels, by |-> i.by,
                 editor |-> i.editor, merged |-> i.merged, comments |-> i.comments]

\* The bot has merged and edited nothing yet.
GitHubAssumption ==
    /\ None \notin Nat
    /\ Len(Seed) \in Nat /\ Seed = [n \in 1..Len(Seed) |-> Seed[n]]
    /\ \A n \in DOMAIN Seed : Whole(Seed[n]) /\ ~Seed[n].merged /\ Seed[n].editor = None

\* `todo' is what is still to be sent, `nums' the issues the call works on,
\* `bad' those it reports as failed; the rest is auxiliary.
Idle == [at |-> "idle", call |-> None, by |-> None, todo |-> <<>>, token |-> None, asked |-> 0,
         fresh |-> TRUE, got |-> <<>>, nums |-> <<>>, bad |-> {}, failed |-> FALSE,
         did |-> {}, lost |-> FALSE, mixed |-> FALSE, want |-> {}, dead |-> FALSE]

Numbers == DOMAIN repo
IsPR(n) == repo[n].pr
OnlyIssues(nums) == SelectSeq(nums, LAMBDA n : ~IsPR(n))
Request(verb, n, x, i) == [verb |-> verb, n |-> n, x |-> x, i |-> i]

-----------------------------------------------------------------------------
(* What GitHub answers (external).                                         *)

\* Newest first.
Listing(c) == SelectSeq([n \in Numbers |-> Len(repo) + 1 - n],
                        LAMBDA n : (c.state = "all" \/ repo[n].open) /\ c.label \subseteq repo[n].labels)

Paged(c) == IF c.kind = "detail" THEN [j \in 1..repo[c.n].comments |-> j] ELSE Listing(c)

PageOf(s, k) == SubSeq(s, (k - 1) * PageSize + 1, IF k * PageSize < Len(s) THEN k * PageSize ELSE Len(s))
HasNext(s, k) == k * PageSize < Len(s)

Refuses(r) == \/ r.n # None /\ r.n \notin Numbers
              \/ r.verb = "drop" /\ ~(r.x \subseteq repo[r.n].labels)
              \/ r.verb = "merge" /\ ~(IsPR(r.n) /\ repo[r.n].open)

Filed(u, labels) == [pr |-> FALSE, open |-> TRUE, labels |-> labels, by |-> u,
                     editor |-> None, merged |-> FALSE, comments |-> 0]
Edited(i, u) == [i EXCEPT !.editor = u]
Closed(i) == [i EXCEPT !.open = FALSE]
Labelled(i, labels) == [i EXCEPT !.labels = @ \cup labels]
Unlabelled(i, labels) == [i EXCEPT !.labels = @ \ labels]
Merged(i) == [i EXCEPT !.merged = TRUE, !.open = FALSE]

Touched(verb, i, x) == IF verb = "close" THEN Closed(i)
                       ELSE IF verb = "label" THEN Labelled(i, x)
                       ELSE Unlabelled(i, x)

Effect(k, r) ==
    CASE k.call.kind = "file"  -> Append(repo, Filed(k.by, r.x))
      [] k.call.kind = "merge" -> [repo EXCEPT ![r.n] = Merged(@)]
      [] k.call.kind = "edit" /\ r.verb = "patch" -> [repo EXCEPT ![r.n] = Edited(@, k.by)]
      [] k.call.kind \in {"touch", "prune"} /\ r.verb # "page" -> [repo EXCEPT ![r.n] = Touched(r.verb, @, r.x)]
      [] OTHER -> repo

-----------------------------------------------------------------------------
(* What a call sends.                                                      *)

\* close_issue, add_labels, remove_labels on one issue; the labels go one by one.
Touch(c, n, i) == IF c.what = "close" THEN <<Request("close", n, {}, i)>>
                  ELSE IF c.what = "label" THEN <<Request("label", n, c.x, i)>>
                  ELSE LET order == CHOOSE f \in [1..Cardinality(c.x) -> c.x] : IsInjective(f)
                       IN  [j \in DOMAIN order |-> Request("drop", n, {order[j]}, i)]

\* Without a label there is nothing to do but to say so.
Work(c, nums) == IF c.what # "close" /\ c.x = {} THEN <<>>
                 ELSE MapThenFoldSet(LAMBDA s, t : s \o t, <<>>, LAMBDA i : Touch(c, nums[i], i), Min, DOMAIN nums)

\* What a report is filed under.
FiledUnder(c) == IF c.x = {} THEN {"bug"} ELSE c.x

FirstRequests(c) ==
    CASE c.kind = "file"  -> <<Request("post", None, FiledUnder(c), 1)>>
      [] c.kind = "merge" -> <<Request("merge", c.n, {}, 1)>>
      [] c.kind = "list"  -> <<Request("list", None, {}, 1)>>
      [] c.kind = "prune" -> <<Request("page", None, {}, 1)>>
      [] c.kind \in {"edit", "detail"} -> <<Request("get", c.n, {}, 1)>>
      [] OTHER            -> Work(c, <<c.n>>)

\* Each tool refuses the number 0, and github_api an empty list of labels.
Valid(c) == c.n # 0 /\ ~(c.kind = "touch" /\ c.what # "close" /\ c.x = {})

Limited(c, u) == Check(hits[c.kind], u, clock, FileMax, FileWindow)

MayMerge(u) == u \in Admin

Begin(c, u) == [Idle EXCEPT !.at = "token", !.call = c, !.by = u, !.todo = FirstRequests(c),
                            !.nums = IF c.kind = "touch" THEN <<c.n>> ELSE <<>>]

Receives(t) == /\ task[t].at \in {"idle", "over"} /\ calls < MaxCalls
               /\ calls' = calls + 1
               /\ UNCHANGED <<repo, cached, audit, clock, faults, unaudited>>

\* create_feature_request and edit_feature_request have a limiter each, which
\* counts what is valid, successful or not.
FileOrEdit(t) ==
    /\ Receives(t)
    /\ \E c \in Call, u \in User :
          /\ c.kind \in {"file", "edit"} /\ Valid(c)
          /\ hits' = [hits EXCEPT ![c.kind] = Limited(c, u).hits]
          /\ task' = [task EXCEPT ![t] = IF Limited(c, u).limited THEN Idle ELSE Begin(c, u)]

\* The other actions of github_api do not look at who asks.
Api(t) ==
    /\ Receives(t)
    /\ \E c \in Call :
          /\ c.kind \in {"touch", "prune", "list", "detail"} /\ Valid(c)
          /\ task' = [task EXCEPT ![t] = Begin(c, None)]
    /\ UNCHANGED hits

\* Who may not merge is refused before the number is looked at.
Merge(t) ==
    /\ Receives(t)
    /\ \E c \in Call, u \in User :
          /\ c.kind = "merge"
          /\ task' = [task EXCEPT ![t] = IF ~MayMerge(u) THEN [Begin(c, u) EXCEPT !.at = "denied"]
                                         ELSE IF Valid(c) THEN Begin(c, u) ELSE Idle]
    /\ UNCHANGED hits

-----------------------------------------------------------------------------
(* installation_token: the lock is not held while GitHub is asked.         *)

\* MUTANT: the token is used to its last second.
UsableToTheEnd(now) == cached # None /\ now < cached.exp

Usable(now) == cached # None /\ now < (IF cached.exp > Margin THEN cached.exp - Margin ELSE 0)

UseCached(t) ==
    /\ task[t].at = "token" /\ Usable(clock)
    /\ task' = [task EXCEPT ![t] = [@ EXCEPT !.at = "send", !.token = cached.token, !.fresh = TRUE]]
    /\ UNCHANGED <<repo, cached, hits, audit, clock, calls, faults, unaudited>>

AskToken(t) ==
    /\ task[t].at = "token" /\ ~Usable(clock)
    /\ task' = [task EXCEPT ![t] = [@ EXCEPT !.at = "asked", !.asked = clock]]
    /\ UNCHANGED <<repo, cached, hits, audit, clock, calls, faults, unaudited>>

\* A token is the time it was issued; its end is reckoned from the answer.
TokenAnswered(t) ==
    /\ task[t].at = "asked"
    /\ cached' = [token |-> task[t].asked, exp |-> clock + Life]
    /\ task' = [task EXCEPT ![t] = [@ EXCEPT !.at = "send", !.token = task[t].asked, !.fresh = TRUE]]
    /\ UNCHANGED <<repo, hits, audit, clock, calls, faults, unaudited>>

-----------------------------------------------------------------------------
(* The answers.                                                            *)

Closing(k) == [k EXCEPT !.at = IF k.call.kind = "merge" THEN "audit" ELSE "over"]

\* On to the next request: of the same issue, with the same token, or of another one.
Onward(k, rest) ==
    IF rest = <<>> THEN Closing(k)
    ELSE LET same == rest[1].i = k.todo[1].i
         IN  [k EXCEPT !.todo = rest, !.at = IF same THEN "send" ELSE "token", !.fresh = ~same]

\* A failure ends a call, but in a touch only the request at hand.
Failed(k) ==
    LET r == k.todo[1]
    IN  IF k.nums # <<>> THEN Onward([k EXCEPT !.bad = @ \cup {r.i}], Tail(k.todo))
        ELSE Closing([k EXCEPT !.failed = TRUE])

\* Without a token nothing of the issue's requests is sent.
Unsent(k) ==
    LET rest == SelectSeq(k.todo, LAMBDA r : r.i # k.todo[1].i)
    IN  IF k.nums # <<>> THEN Onward([k EXCEPT !.bad = @ \cup {k.todo[1].i}], rest)
        ELSE Closing([k EXCEPT !.failed = TRUE])

\* A page is read; after the last one a prune sets to work on what is no pull request.
PageRead(k, p) ==
    LET all == k.got \o PageOf(Paged(k.call), p)
        nums == OnlyIssues(all)
    IN  IF HasNext(Paged(k.call), p)
        THEN [k EXCEPT !.got = all, !.fresh = FALSE, !.todo = <<Request("page", None, {}, p + 1)>>]
        ELSE IF k.call.kind = "detail" \/ Work(k.call, nums) = <<>>
        THEN [k EXCEPT !.got = all, !.at = "over", !.failed = k.call.kind # "detail"]
        ELSE [k EXCEPT !.got = all, !.at = "token", !.nums = nums, !.todo = Work(k.call, nums),
                       !.want = {n \in Range(Paged(k.call)) : ~IsPR(n)}]

\* MUTANT: whoever asks may edit what was filed through the bot.
MayEditAny(n, u) == repo[n].by # None

\* requester_from_body: whom the issue's body names, if the bot has filed it.
MayEdit(n, u) == repo[n].by = u

Succeeded(k) ==
    LET r == k.todo[1]
        issue == r.verb = "get"
    IN  CASE r.verb = "page" -> PageRead(k, r.i)
          [] r.verb = "list" -> [k EXCEPT !.at = "over", !.got = OnlyIssues(PageOf(Listing(k.call), 1))]
          [] issue /\ k.call.kind = "detail" -> [k EXCEPT !.fresh = FALSE, !.todo = <<Request("page", None, {}, 1)>>]
          [] issue /\ k.call.kind = "edit" /\ MayEdit(r.n, k.by) ->
                [k EXCEPT !.at = "token", !.todo = <<Request("patch", r.n, {}, 1)>>]
          [] issue /\ k.call.kind = "edit" /\ ~MayEdit(r.n, k.by) -> [k EXCEPT !.at = "over", !.failed = TRUE]
          [] OTHER -> Onward(k, Tail(k.todo))

\* The calls that are listing when the repository changes under them.
Disturb(ts, t, new) ==
    [s \in Task |-> IF s # t /\ new # repo /\ ts[s].got # <<>> /\ ts[s].nums = <<>>
                    THEN [ts[s] EXCEPT !.mixed = TRUE] ELSE ts[s]]

Alive(k) == clock < k.token + Life

Done(k) == [k EXCEPT !.did = @ \cup {k.todo[1]}]

Answered(t) ==
    LET k == task[t]  r == k.todo[1]
    IN  /\ k.at = "send" /\ Alive(k) /\ ~Refuses(r)
        /\ repo' = Effect(k, r)
        /\ task' = Disturb([task EXCEPT ![t] = Succeeded(Done(k))], t, repo')
        /\ UNCHANGED <<cached, hits, audit, clock, calls, faults, unaudited>>

Refused(t) ==
    LET k == task[t]
    IN  /\ k.at = "send" /\ (~Alive(k) \/ Refuses(k.todo[1]))
        /\ task' = [task EXCEPT ![t] = Failed([k EXCEPT !.dead = @ \/ (k.fresh /\ ~Alive(k))])]
        /\ UNCHANGED <<repo, cached, hits, audit, clock, calls, faults, unaudited>>

\* The connection breaks: before the token came, before the request was
\* executed or after it.
Breaks(t) ==
    LET k == task[t]
    IN  /\ k.at \in {"asked", "send"} /\ faults < MaxFaults
        /\ faults' = faults + 1
        /\ \/ /\ k.at = "asked"
              /\ task' = [task EXCEPT ![t] = Unsent(k)]
              /\ UNCHANGED repo
           \/ /\ k.at = "send"
              /\ task' = [task EXCEPT ![t] = Failed(k)]
              /\ UNCHANGED repo
           \/ /\ k.at = "send" /\ Alive(k) /\ ~Refuses(k.todo[1])
              /\ repo' = Effect(k, k.todo[1])
              /\ task' = Disturb([task EXCEPT ![t] = [Failed(Done(k)) EXCEPT !.lost = TRUE]], t, repo')
        /\ UNCHANGED <<cached, hits, audit, clock, calls, unaudited>>

-----------------------------------------------------------------------------
(* MergeAuditLog.                                                          *)

Entry(k) == [n |-> k.call.n, by |-> k.by, authorized |-> k.at = "audit",
             result |-> IF k.at = "denied" THEN "denied" ELSE IF k.failed THEN "error" ELSE "success"]

Record(t) ==
    /\ task[t].at \in {"denied", "audit"}
    /\ audit' = audit \cup {Entry(task[t])}
    /\ task' = [task EXCEPT ![t].at = "over"]
    /\ UNCHANGED <<repo, cached, hits, clock, calls, faults, unaudited>>

Merging(t) == IF task[t].call.kind = "merge" THEN {task[t].call.n} ELSE {}

\* The log never keeps the result from the caller.
RecordFails(t) ==
    /\ task[t].at \in {"denied", "audit"} /\ faults < MaxFaults
    /\ faults' = faults + 1
    /\ unaudited' = unaudited \cup Merging(t)
    /\ task' = [task EXCEPT ![t].at = "over"]
    /\ UNCHANGED <<repo, cached, hits, audit, clock, calls>>

\* The bot restarts, whatever its calls were waiting for: a cancelled turn
\* would still have seen its tools through.
Restart ==
    /\ \E t \in Task : task[t].at \notin {"idle", "over"}
    /\ faults < MaxFaults /\ faults' = faults + 1
    /\ unaudited' = unaudited \cup UNION {Merging(t) : t \in {s \in Task : task[s].at \notin {"idle", "over"}}}
    /\ task' = [t \in Task |-> Idle]
    /\ cached' = None
    /\ hits' = [l \in DOMAIN hits |-> [u \in User |-> <<>>]]
    /\ UNCHANGED <<repo, audit, clock, calls>>

\* Assumption: a token comes within Margin, and the first request it is for
\* is sent at once.
Tick ==
    /\ clock < MaxTime
    /\ \A t \in Task : /\ task[t].at = "asked" => clock - task[t].asked < Margin
                       /\ task[t].at = "send" => ~task[t].fresh
    /\ clock' = clock + 1
    /\ UNCHANGED <<repo, cached, task, hits, audit, calls, faults, unaudited>>

Init == /\ repo = Seed
        /\ cached = None
        /\ task = [t \in Task |-> Idle]
        /\ hits = [l \in {"file", "edit"} |-> [u \in User |-> <<>>]]
        /\ audit = {}
        /\ clock = 0 /\ calls = 0 /\ faults = 0
        /\ unaudited = {}

Next == \/ \E t \in Task : \/ FileOrEdit(t) \/ Api(t) \/ Merge(t) \/ UseCached(t) \/ AskToken(t) \/ TokenAnswered(t)
                           \/ Answered(t) \/ Refused(t) \/ Breaks(t)
                           \/ Record(t) \/ RecordFails(t)
        \/ Restart \/ Tick

-----------------------------------------------------------------------------
(* A call says what it did.  An issue it reports as closed, labelled or    *)
(* unlabelled got every request of that; one it reports as failed did not, *)
(* unless an answer was lost.  A prune nobody disturbs works on all the    *)
(* issues that match, on each once and on no pull request; a detail has    *)
(* every comment.  No token expires between its choice and its use.        *)
SaysWhatItDid ==
    \A t \in Task :
        LET k == task[t]
        IN  /\ ~k.dead
            /\ k.at = "over" =>
                  /\ \A i \in DOMAIN k.nums :
                        LET all == Range(Touch(k.call, k.nums[i], i)) \subseteq k.did
                        IN  /\ i \notin k.bad => all
                            /\ i \in k.bad /\ all => k.lost
                  /\ k.call.kind = "detail" /\ ~k.failed => Len(k.got) = repo[k.call.n].comments
                  /\ k.call.kind = "list" => \A n \in Range(k.got) : ~IsPR(n)
            /\ k.call # None /\ k.call.kind = "prune" /\ k.nums # <<>> =>
                  /\ \A n \in Range(k.nums) : ~IsPR(n)
                  /\ ~k.mixed => IsInjective(k.nums) /\ Range(k.nums) = k.want

(* Every pull request the bot merged is in the audit under the name of an  *)
(* administrator, as a success unless the answer was lost, but for those   *)
(* whose record the disk or a restart has lost; and every report    *)
(* that was edited was edited by the user who filed it.                    *)
PrivilegeAccounted ==
    \A n \in Numbers :
        /\ repo[n].merged =>
              \/ n \in unaudited
              \/ \E t \in Task : task[t].at = "audit" /\ task[t].call.n = n
              \/ \E e \in audit : e.n = n /\ e.authorized /\ e.by \in Admin /\ (faults = 0 => e.result = "success")
        /\ repo[n].editor # None => repo[n].editor = repo[n].by
=============================================================================
