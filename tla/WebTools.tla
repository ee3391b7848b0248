------------------------------- MODULE WebTools -------------------------------
(***************************************************************************)
(* The web tools of crates/tools: a fetch that waits for a slot, follows   *)
(* redirects hop by hop and falls back to a metered scrape, and a search   *)
(* that waits for a slot of its own.  The page, its text and its summary   *)
(* are abstract: only whether there is any text matters to the control.    *)
(***************************************************************************)
EXTENDS Naturals, Sequences, FiniteSets, RateLimiter

CONSTANTS Url, Public,             \* the urls that pass validation
          Task,
          SlotLimit, SlotWindow,   \* fetches a minute
          MaxRedirects,
          CreditLimit, MonthLength,
          MaxCalls, MaxTime,       \* bounds
          None

VARIABLES
    slots,     \* fetch_requests and search_requests: when the recent ones began
    credits,   \* firecrawl_usage, per month
    call,
    now, calls,
    began,     \* auxiliary: when each fetch began
    asked,     \* auxiliary: the urls the running fetch of each task has requested
    scrapes    \* auxiliary: scrapes posted, per month of their credit

vars == <<slots, credits, call, now, calls, began, asked, scrapes>>

Tool == {"fetch", "search"}
Month == now \div MonthLength
Months == 0 .. (MaxTime \div MonthLength)

Idle == [at |-> "idle", tool |-> None, url |-> None, left |-> 0, until |-> 0, month |-> 0]

\* The limits are numbers, and no more than so many calls run at once.
WebToolsAssumption == /\ SlotLimit \in Nat /\ SlotWindow \in Nat /\ MaxRedirects \in Nat /\ CreditLimit \in Nat
                      /\ IsFiniteSet(Task)

-----------------------------------------------------------------------------
Start(t) ==
    /\ call[t].at = "idle" /\ calls < MaxCalls
    /\ calls' = calls + 1
    /\ \E k \in Tool, u \in Url :
          call' = [call EXCEPT ![t] = [Idle EXCEPT !.at = "wait", !.tool = k, !.url = u, !.until = now,
                                                   !.left = MaxRedirects + 1]]
    /\ asked' = [asked EXCEPT ![t] = {}]
    /\ UNCHANGED <<slots, credits, now, began, scrapes>>

\* MUTANT: a caller that has slept its time takes the slot unasked.
WaitForSlotOnce(t) ==
    /\ call[t].at = "wait" /\ call[t].until <= now
    /\ LET k == call[t].tool
           recent == Live(slots[k], now, SlotWindow)
           begin == Len(recent) < SlotLimit \/ call[t].left = 0
       IN  /\ slots' = [slots EXCEPT ![k] = IF begin THEN Append(recent, now) ELSE recent]
           /\ call' = [call EXCEPT ![t] = IF begin THEN [@ EXCEPT !.at = "validate"]
                                          ELSE [@ EXCEPT !.until = recent[1] + SlotWindow, !.left = 0]]
           /\ began' = IF begin /\ k = "fetch" THEN Append(began, now) ELSE began
    /\ UNCHANGED <<credits, now, calls, asked, scrapes>>

\* One turn of wait_for_slot's loop, under its lock: a slot, or a sleep until
\* the oldest leaves the window.  Whoever comes meanwhile may be faster.
WaitForSlot(t) ==
    /\ call[t].at = "wait" /\ call[t].until <= now
    /\ LET k == call[t].tool
           recent == Live(slots[k], now, SlotWindow)
           begin == Len(recent) < SlotLimit
       IN  /\ slots' = [slots EXCEPT ![k] = IF begin THEN Append(recent, now) ELSE recent]
           /\ call' = [call EXCEPT ![t] = IF begin THEN [@ EXCEPT !.at = IF k = "fetch" THEN "validate" ELSE "search"]
                                          ELSE [@ EXCEPT !.until = recent[1] + SlotWindow]]
           /\ began' = IF begin /\ k = "fetch" THEN Append(began, now) ELSE began
    /\ UNCHANGED <<credits, now, calls, asked, scrapes>>

Return(t) == call' = [call EXCEPT ![t] = Idle]

\* search_response: one request, answered or not.
Search(t) ==
    /\ call[t].at = "search"
    /\ Return(t)
    /\ UNCHANGED <<slots, credits, now, calls, began, asked, scrapes>>

\* Every hop of the loop is validated before it is requested; after
\* 0..=MAX_REDIRECTS hops without a page the fetch gives up.  The validation and
\* the request each resolve the name; here that is one step, so what is said of
\* `asked' is said of what was validated.
Hop(t) ==
    /\ call[t].at = "validate"
    /\ IF call[t].left = 0 \/ call[t].url \notin Public
       THEN Return(t) /\ UNCHANGED asked
       ELSE /\ call' = [call EXCEPT ![t] = [call[t] EXCEPT !.at = "get", !.left = @ - 1]]
            /\ asked' = [asked EXCEPT ![t] = @ \cup {<<call[t].url, call[t].left>>}]
    /\ UNCHANGED <<slots, credits, now, calls, began, scrapes>>

\* A redirect, whose location is joined to the url.
Redirected(t) ==
    /\ call[t].at = "get"
    /\ \E u \in Url : call' = [call EXCEPT ![t] = [@ EXCEPT !.at = "validate", !.url = u]]
    /\ UNCHANGED <<slots, credits, now, calls, began, asked, scrapes>>

\* An error, a status other than 200, a redirect to nowhere, or a page with
\* enough text, which goes to the model whole, or saved in the sandbox, or cut.
Answered(t) ==
    /\ call[t].at = "get"
    /\ Return(t)
    /\ UNCHANGED <<slots, credits, now, calls, began, asked, scrapes>>

\* An HTML page with too little text: a credit first.  The check and the
\* increment are one statement; an answer that is lost costs the credit.
ReserveCredit(t) ==
    /\ call[t].at = "get"
    /\ \/ /\ credits[Month] < CreditLimit
          /\ credits' = [credits EXCEPT ![Month] = @ + 1]
          /\ \/ call' = [call EXCEPT ![t] = [@ EXCEPT !.at = "scrape", !.month = Month]]
             \/ Return(t)
       \/ Return(t) /\ UNCHANGED credits
    /\ UNCHANGED <<slots, now, calls, began, asked, scrapes>>

\* The scrape, whatever comes of it: the extracted text stands in for it.
Scrape(t) ==
    /\ call[t].at = "scrape"
    /\ scrapes' = [scrapes EXCEPT ![call[t].month] = @ + 1]
    /\ Return(t)
    /\ UNCHANGED <<slots, credits, now, calls, began, asked>>

\* The bot restarts under its calls: the slots are in memory, the credits in
\* the database.
Restart ==
    /\ \E t \in Task : call[t].at # "idle"
    /\ call' = [t \in Task |-> Idle]
    /\ slots' = [k \in Tool |-> <<>>] /\ began' = <<>>
    /\ UNCHANGED <<credits, now, calls, asked, scrapes>>

Tick == /\ now < MaxTime
        /\ now' = now + 1
        /\ UNCHANGED <<slots, credits, call, calls, began, asked, scrapes>>

Init == /\ slots = [k \in Tool |-> <<>>] /\ credits = [x \in Months |-> 0]
        /\ call = [t \in Task |-> Idle] /\ now = 0 /\ calls = 0
        /\ began = <<>> /\ asked = [t \in Task |-> {}] /\ scrapes = [x \in Months |-> 0]

Next == \/ \E t \in Task : \/ Start(t) \/ WaitForSlot(t) \/ Search(t) \/ Hop(t) \/ Redirected(t)
                           \/ Answered(t) \/ ReserveCredit(t) \/ Scrape(t)
        \/ Restart \/ Tick

Spec == Init /\ [][Next]_vars

-----------------------------------------------------------------------------
\* INVARIANT (tools/lib.rs 44-64, web_fetch.rs 67-99, firecrawl.rs 119-136):
\* however callers sleep and overtake, no window of a run of the bot sees more
\* fetches begin than it has slots; a fetch asks only for validated urls, at most MaxRedirects + 1
\* times; and no month's scrapes exceed its credits, nor these the limit.
WebWithinBudget ==
    /\ Promise(began, SlotLimit, SlotWindow)
    /\ \A t \in Task : /\ Cardinality(asked[t]) <= MaxRedirects + 1
                       /\ \A r \in asked[t] : r[1] \in Public
    /\ \A x \in Months : scrapes[x] <= credits[x] /\ credits[x] <= CreditLimit
=============================================================================
