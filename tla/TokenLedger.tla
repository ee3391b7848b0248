----------------------------- MODULE TokenLedger -----------------------------
(***************************************************************************)
(* The token ledger and its leaderboards (crates/token-monitor): running   *)
(* totals in one row per conversation, one event per recorded usage, and   *)
(* boards drawn from the rows for all time and from the events for a       *)
(* window.  Every statement is its own transaction; a board takes two.     *)
(* The in-memory backend is here as the aggregation its tests rely on.     *)
(***************************************************************************)
EXTENDS Naturals, Sequences, FiniteSetsExt

CONSTANTS User, Conv,
          OwnerOf(_),              \* who a conversation id is made for
          Usage,                   \* [input, output, cached] of one request
          Windowed, Days(_),       \* the periods other than all time, and their length
          Limit,                   \* entries on a board
          MaxUses, MaxErases, MaxTime,   \* bounds
          None                     \* no row, no board

Period == Windowed \cup {"all"}
Metric == {"tokens", "efficiency"}

VARIABLES
    rows,      \* conversations: running totals, None for no row
    events,    \* token_usage_events
    now, erases,
    board,     \* the board being drawn, or the last one drawn
    spent,     \* auxiliary: what each user's surviving requests have cost
    disturbed  \* auxiliary: something happened between the board's two queries

vars == <<rows, events, now, erases, board, spent, disturbed>>

Nothing == [input |-> 0, output |-> 0, cached |-> 0]
Plus(a, b) == [input |-> a.input + b.input, output |-> a.output + b.output,
               cached |-> a.cached + b.cached]
Tally(S, value(_)) == [input |-> MapThenSumSet(LAMBDA x : value(x).input, S),
                       output |-> MapThenSumSet(LAMBDA x : value(x).output, S),
                       cached |-> MapThenSumSet(LAMBDA x : value(x).cached, S)]

-----------------------------------------------------------------------------
\* A board is sent once it is drawn.
Shown == IF board # None /\ board.at = "drawn" THEN None ELSE board

\* Insert unless it is there.  An id whose row could not be stored, or has been
\* erased, is for the ledger as one never made.
StartConversation(c) ==
    /\ rows[c] = None
    /\ rows' = [rows EXCEPT ![c] = Nothing]
    /\ disturbed' = TRUE
    /\ board' = Shown
    /\ UNCHANGED <<events, now, erases, spent>>

\* One statement updates the row and inserts the event of the row it updated:
\* of a conversation erased meanwhile neither comes back.
RecordUsage(c, used) ==
    /\ rows[c] # None /\ Len(events) < MaxUses
    /\ rows' = [rows EXCEPT ![c] = Plus(@, used)]
    /\ events' = Append(events, [conv |-> c, used |-> used, at |-> now])
    /\ spent' = [spent EXCEPT ![OwnerOf(c)] = Plus(@, used)]
    /\ disturbed' = TRUE
    /\ board' = Shown
    /\ UNCHANGED <<now, erases>>

\* MUTANT: the events outlive the rows they belong to.
ClearUserRowsOnly(u) ==
    /\ erases < MaxErases /\ erases' = erases + 1
    /\ rows' = [c \in Conv |-> IF OwnerOf(c) = u THEN None ELSE rows[c]]
    /\ spent' = [spent EXCEPT ![u] = Nothing]
    /\ disturbed' = TRUE
    /\ board' = Shown
    /\ UNCHANGED <<events, now>>

\* clear_user; the events go with their rows (ON DELETE CASCADE).
ClearUser(u) ==
    /\ erases < MaxErases /\ erases' = erases + 1
    /\ rows' = [c \in Conv |-> IF OwnerOf(c) = u THEN None ELSE rows[c]]
    /\ events' = SelectSeq(events, LAMBDA e : OwnerOf(e.conv) # u)
    /\ spent' = [spent EXCEPT ![u] = Nothing]
    /\ disturbed' = TRUE
    /\ board' = Shown
    /\ UNCHANGED now

Tick == /\ now < MaxTime
        /\ now' = now + 1
        /\ disturbed' = TRUE
        /\ board' = Shown
        /\ UNCHANGED <<rows, events, erases, spent>>

-----------------------------------------------------------------------------
\* cutoff: the events a windowed period counts.
InWindow(p) == {i \in DOMAIN events : now - events[i].at <= Days(p)}

Line(key, n, t) == [key |-> key, conversations |-> n, input |-> t.input,
                    output |-> t.output, cached |-> t.cached]

RowsOf(u) == {c \in Conv : rows[c] # None /\ OwnerOf(c) = u}
EventsOf(u, p) == {i \in InWindow(p) : OwnerOf(events[i].conv) = u}

\* get_user_stats: None for a user with no row, or no event in the window.
UserStats(u, p) ==
    LET mine == IF p = "all" THEN RowsOf(u) ELSE EventsOf(u, p)
    IN  IF mine = {} THEN None
        ELSE IF p = "all" THEN Line(u, Cardinality(mine), Tally(mine, LAMBDA c : rows[c]))
        ELSE Line(u, Cardinality({events[i].conv : i \in mine}),
                  Tally(mine, LAMBDA i : events[i].used))

\* GROUP BY user_id, straight from the source.
SqlUsers(p) == {UserStats(u, p) : u \in User} \ {None}

ConvLines(p) ==
    IF p = "all" THEN {Line(c, 1, rows[c]) : c \in {d \in Conv : rows[d] # None}}
    ELSE {Line(c, 1, Tally({i \in InWindow(p) : events[i].conv = c}, LAMBDA i : events[i].used)) :
             c \in {events[i].conv : i \in InWindow(p)}}

\* memory_leaderboard: by conversation first, then by user.
MemoryUsers(p) ==
    LET linesOf(u) == {l \in ConvLines(p) : OwnerOf(l.key) = u}
    IN  {Line(u, Cardinality(linesOf(u)), Tally(linesOf(u), LAMBDA l : l)) :
            u \in {v \in User : linesOf(v) # {}}}

TotalTokens(l) == l.input + l.output
\* cache_efficiency of a against that of b, without the division.
Efficiency(a, b) == a.cached * (IF b.input = 0 THEN 1 ELSE b.input)

\* sort_entries puts a strictly before b.
Above(a, b, metric) ==
    \/ metric = "tokens" /\ TotalTokens(a) > TotalTokens(b)
    \/ /\ metric = "efficiency"
       /\ \/ Efficiency(a, b) > Efficiency(b, a)
          \/ Efficiency(a, b) = Efficiency(b, a) /\ TotalTokens(a) > TotalTokens(b)

\* Ties come in any order.
Sorted(lines, metric) ==
    {s \in Bijection(1..Cardinality(lines), lines) : \A i, j \in DOMAIN s : i < j => ~Above(s[j], s[i], metric)}

Truncated(s) == SubSeq(s, 1, IF Len(s) < Limit THEN Len(s) ELSE Limit)

\* The first query of a board.
QueryUsers ==
    /\ board # None => board.at = "drawn"
    /\ \E p \in Period, metric \in Metric :
          \E s \in Sorted(SqlUsers(p), metric) :
             board' = [at |-> "users", period |-> p, metric |-> metric, who |-> None,
                       users |-> s, conversations |-> <<>>, rank |-> 0]
    /\ disturbed' = FALSE
    /\ UNCHANGED <<rows, events, now, erases, spent>>

\* The second, and finish_leaderboard: the rank is of the whole list.  The
\* requester is chosen here, where they first matter.
QueryConversations ==
    /\ board # None /\ board.at = "users"
    /\ \E s \in Sorted(ConvLines(board.period), board.metric), u \in User :
          LET at == {i \in DOMAIN board.users : board.users[i].key = u}
          IN  board' = [board EXCEPT !.at = "drawn", !.who = u, !.users = Truncated(@),
                                     !.conversations = Truncated(s),
                                     !.rank = IF at = {} THEN 0 ELSE CHOOSE i \in at : TRUE]
    /\ UNCHANGED <<rows, events, now, erases, spent, disturbed>>

\* Either query fails: the requester is told so.
QueryFails ==
    /\ board # None /\ board.at = "users"
    /\ board' = None
    /\ UNCHANGED <<rows, events, now, erases, spent, disturbed>>

Init == /\ rows = [c \in Conv |-> None] /\ events = <<>>
        /\ now = 0 /\ erases = 0 /\ board = None
        /\ spent = [u \in User |-> Nothing] /\ disturbed = FALSE

Next == \/ \E c \in Conv : StartConversation(c) \/ \E x \in Usage : RecordUsage(c, x)
        \/ \E u \in User : ClearUser(u)
        \/ Tick \/ QueryUsers \/ QueryConversations \/ QueryFails

Spec == Init /\ [][Next]_vars

-----------------------------------------------------------------------------
\* Rows and events tell one story: per conversation, and per user since the
\* last erasure, whatever failed.
Reconciles ==
    /\ \A c \in Conv :
          LET cs == {i \in DOMAIN events : events[i].conv = c}
          IN  IF rows[c] = None THEN cs = {} ELSE rows[c] = Tally(cs, LAMBDA i : events[i].used)
    /\ \A u \in User : spent[u] = Tally(RowsOf(u), LAMBDA c : rows[c])

\* Both backends draw one board, and no window counts more than all time.
BackendsAgree ==
    \A p \in Period :
        /\ SqlUsers(p) = MemoryUsers(p)
        /\ \A l \in SqlUsers(p) : \E a \in SqlUsers("all") :
              a.key = l.key /\ l.input <= a.input /\ TotalTokens(l) <= TotalTokens(a)

\* A requester's rank is the place they are listed at, if they are listed, and
\* they are missed out only with no usage or below the board's last entry.  The
\* two halves of a board agree when nothing came between their queries.
BoardFits ==
    board # None /\ board.at = "drawn" =>
        /\ \A i \in DOMAIN board.users : (board.users[i].key = board.who) <=> (board.rank = i)
        /\ board.rank > Len(board.users) => Len(board.users) = Limit
        /\ ~disturbed =>
              \A i \in DOMAIN board.conversations :
                 LET c == board.conversations[i]
                 IN  /\ \A j \in DOMAIN board.users :
                           OwnerOf(c.key) = board.users[j].key => TotalTokens(c) <= TotalTokens(board.users[j])
                     /\ OwnerOf(c.key) = board.who => board.rank # 0

\* INVARIANT (lib.rs 135-193, 216-240, 270-370): the ledger adds up.
LeaderboardAdds == Reconciles /\ BackendsAgree /\ BoardFits
=============================================================================
