---------------------------- MODULE RateLimiter ----------------------------
(***************************************************************************)
(* The sliding-window limiter (crates/rate-limit/src/lib.rs) as a function *)
(* from a table of hits to the table and the verdict of one check.  The    *)
(* mutex makes a check one step; the clock is coarser than the wait for    *)
(* the mutex, so a user's hits are in order.                               *)
(***************************************************************************)
EXTENDS Naturals, Sequences, FiniteSetsExt

\* What is left of a sequence when all before the first of these positions goes.
From(seq, positions) ==
    IF positions = {} THEN <<>> ELSE SubSeq(seq, Min(positions), Len(seq))

\* retain: the hits are in order, so those that expire are the first ones.
Live(times, now, window) == From(times, {i \in DOMAIN times : now - times[i] < window})

\* The users whose newest hit has expired are dropped from the table.
Swept(hits, now, window) ==
    [u \in DOMAIN hits |->
        IF hits[u] # <<>> /\ now - hits[u][Len(hits[u])] < window THEN hits[u] ELSE <<>>]

\* MUTANT: hits never leave the window's table for good, nor count in it.
CheckForgetful(hits, user, now, max, window) ==
    [limited |-> Len(hits[user]) > max, hits |-> [hits EXCEPT ![user] = Append(@, now)]]

\* check_at: an attempt over the limit is not recorded.
Check(hits, user, now, max, window) ==
    LET entry == Live(Swept(hits, now, window)[user], now, window)
        over == Len(entry) >= max
    IN  [limited |-> over,
         hits |-> [Swept(hits, now, window) EXCEPT
                     ![user] = IF over THEN entry ELSE Append(entry, now)]]

\* What a limiter promises of all the hits it ever let through: no window
\* holds more than max of them.
Promise(granted, max, window) ==
    \A i \in DOMAIN granted :
        Cardinality({j \in DOMAIN granted : j >= i /\ granted[j] - granted[i] < window}) <= max
=============================================================================
