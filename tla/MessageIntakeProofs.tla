------------------------ MODULE MessageIntakeProofs ------------------------
(***************************************************************************)
(* What the intake promises of every message holds for any number of       *)
(* deliveries, authors and channels and any limits and windows, from       *)
(* IntakeAssumption alone.  First the promise of the limiter: whoever      *)
(* keeps a table with Check lets no window hold more than its maximum,     *)
(* for any number of users, any maximum and any window.  Last the buffers  *)
(* of the channels, which no other table of the intake depends on.         *)
(***************************************************************************)
EXTENDS MessageIntake, Integers, FiniteSetTheorems, SequenceTheorems, WellFoundedInduction, TLAPS

-----------------------------------------------------------------------------
(* Lemmas about naturals and the ends of sequences.                        *)

\* The order of the naturals as a relation, to which WFMin applies.
Before == {p \in Nat \X Nat : p[1] < p[2]}

\* Every set of naturals that is not empty has a least element.
LEMMA LeastNatural ==
    ASSUME NEW T \in SUBSET Nat, T # {}
    PROVE  \E m \in T : \A y \in T : m <= y
<1>1. OpToRel(<, Nat) = Before
  BY Zenon DEF OpToRel, Before
<1>2. IsWellFoundedOn(Before, Nat)
  BY <1>1, NatLessThanWellFounded, Zenon
<1>3. PICK m \in T : \A y \in T : <<y, m>> \notin Before
  BY <1>2, WFMin, Zenon
<1>4. \A y \in T : ~(y < m)
  <2> SUFFICES ASSUME NEW y \in T, y < m PROVE <<y, m>> \in Before
    BY <1>3
  <2>1. <<y, m>> \in Nat \X Nat /\ <<y, m>>[1] < <<y, m>>[2]
    OBVIOUS
  <2> QED
    BY <2>1, Zenon DEF Before
<1> QED
  BY <1>4

\* Min returns it.
LEMMA MinOfNaturals ==
    ASSUME NEW T \in SUBSET Nat, T # {}
    PROVE  Min(T) \in T /\ \A y \in T : Min(T) <= y
  BY LeastNatural DEF Min

\* Induction, over a set instead of a predicate.
LEMMA Induction ==
    ASSUME NEW P \in SUBSET Nat, 0 \in P, \A n \in P : n + 1 \in P
    PROVE  P = Nat
<1> SUFFICES ASSUME Nat \ P # {} PROVE FALSE
  OBVIOUS
<1>1. PICK m \in Nat \ P : \A y \in Nat \ P : m <= y
  BY LeastNatural
<1> QED
  BY <1>1
-----------------------------------------------------------------------------
\* t is the end of s.
EndOf(t, s) == /\ Len(t) <= Len(s)
               /\ \A i \in 1..Len(t) : t[i] = s[Len(s) - Len(t) + i]

\* From leaves an end of the sequence that starts with the first position.
LEMMA FromIsEnd ==
    ASSUME NEW S, NEW s \in Seq(S), NEW positions \in SUBSET (1..Len(s))
    PROVE  /\ From(s, positions) \in Seq(S) /\ EndOf(From(s, positions), s)
           /\ \A i \in 1..(Len(s) - Len(From(s, positions))) : i \notin positions
           /\ From(s, positions) # <<>> => Len(s) - Len(From(s, positions)) + 1 \in positions
<1>1. CASE positions = {}
  BY <1>1 DEF From, EndOf
<1>2. CASE positions # {}
  <2>1. positions \in SUBSET Nat
    OBVIOUS
  <2>2. PICK m \in positions : m = Min(positions) /\ \A y \in positions : m <= y
    BY <1>2, <2>1, MinOfNaturals
  <2>3. From(s, positions) = SubSeq(s, m, Len(s))
    BY <1>2, <2>2 DEF From
  <2>4. m \in 1..Len(s)
    OBVIOUS
  <2>5. /\ SubSeq(s, m, Len(s)) \in Seq(S)
        /\ Len(SubSeq(s, m, Len(s))) = Len(s) - m + 1
        /\ \A i \in 1..(Len(s) - m + 1) : SubSeq(s, m, Len(s))[i] = s[m + i - 1]
    BY <2>4
  <2>6. Len(s) \in Nat /\ m \in Nat /\ m <= Len(s)
    BY <2>4
  <2> DEFINE t == SubSeq(s, m, Len(s))
  <2>7. t \in Seq(S) /\ Len(t) = Len(s) - m + 1
    BY <2>5
  <2>8. EndOf(t, s)
    <3>1. Len(t) <= Len(s)
      BY <2>6, <2>7
    <3>2. ASSUME NEW i \in 1..Len(t) PROVE t[i] = s[Len(s) - Len(t) + i]
      <4>1. i \in 1..(Len(s) - m + 1) /\ m + i - 1 = Len(s) - Len(t) + i
        BY <2>6, <2>7
      <4> QED
        BY <4>1, <2>5
    <3> QED
      BY <3>1, <3>2 DEF EndOf
  <2> HIDE DEF t
  <2>9. Len(s) - Len(t) = m - 1
    BY <2>6, <2>7
  <2>10. \A i \in 1..(Len(s) - Len(t)) : i \notin positions
    BY <2>2, <2>4, <2>9
  <2>11. Len(s) - Len(t) + 1 = m
    BY <2>6, <2>9
  <2> QED
    BY <2>3, <2>7, <2>8, <2>10, <2>11 DEF t
<1> QED
  BY <1>1, <1>2

\* The end of an end is an end.
LEMMA EndOfEnd ==
    ASSUME NEW s, NEW t, NEW u, Len(s) \in Nat, Len(t) \in Nat, Len(u) \in Nat,
           EndOf(t, s), EndOf(u, t)
    PROVE  EndOf(u, s)
<1> SUFFICES ASSUME NEW i \in 1..Len(u) PROVE u[i] = s[Len(s) - Len(u) + i]
  BY DEF EndOf
<1>1. PICK k \in 1..Len(t) : k = Len(t) - Len(u) + i
  BY DEF EndOf
<1>2. u[i] = t[k] /\ t[k] = s[Len(s) - Len(t) + k]
  BY <1>1 DEF EndOf
<1>3. Len(s) - Len(t) + k = Len(s) - Len(u) + i
  BY <1>1
<1> QED
  BY <1>2, <1>3
-----------------------------------------------------------------------------
Sorted(s) == \A i, j \in DOMAIN s : i <= j => s[i] <= s[j]

\* A table's hits h of a user who was granted g: they are the newest of g, and
\* what the table has forgotten of g is out of the window.
Remembers(h, g, now, window) ==
    /\ h \in Seq(Nat) /\ g \in Seq(Nat) /\ now \in Nat
    /\ Sorted(g) /\ \A i \in DOMAIN g : g[i] <= now
    /\ EndOf(h, g)
    /\ \A i \in 1..(Len(g) - Len(h)) : now - g[i] >= window

\* At the start nothing was granted.
LEMMA RemembersNothing ==
    ASSUME NEW now \in Nat, NEW window \in Nat
    PROVE  Remembers(<<>>, <<>>, now, window)
  BY DEF Remembers, Sorted, EndOf

\* Time passes.
LEMMA RemembersLater ==
    ASSUME NEW h, NEW g, NEW now \in Nat, NEW window \in Nat, NEW later \in Nat,
           now <= later, Remembers(h, g, now, window)
    PROVE  Remembers(h, g, later, window)
<1>1. \A i \in DOMAIN g : g[i] \in Nat /\ g[i] <= later
  BY DEF Remembers
<1>2. ASSUME NEW i \in 1..(Len(g) - Len(h)) PROVE later - g[i] >= window
  <2>1. i \in DOMAIN g /\ now - g[i] >= window
    BY DEF Remembers, EndOf
  <2> QED
    BY <1>1, <2>1
<1> QED
  BY <1>1, <1>2 DEF Remembers

\* Sweeping drops a user none of whose hits is in the window.
LEMMA RemembersSwept ==
    ASSUME NEW hits, NEW u \in DOMAIN hits, NEW g, NEW now \in Nat, NEW window \in Nat,
           Remembers(hits[u], g, now, window)
    PROVE  Remembers(Swept(hits, now, window)[u], g, now, window)
<1> DEFINE h == hits[u]
<1>1. CASE Swept(hits, now, window)[u] = h
  BY <1>1
<1>2. CASE h # <<>> /\ now - h[Len(h)] >= window /\ Swept(hits, now, window)[u] = <<>>
  <2>1. Len(h) \in Nat \ {0} /\ h[Len(h)] = g[Len(g)]
    BY <1>2 DEF Remembers, EndOf
  <2>2. ASSUME NEW i \in 1..Len(g) PROVE now - g[i] >= window
    <3>1. g[i] \in Nat /\ g[Len(g)] \in Nat /\ g[i] <= g[Len(g)]
      BY DEF Remembers, Sorted
    <3>2. now - g[Len(g)] >= window
      BY <1>2, <2>1
    <3> QED
      BY <3>1, <3>2
  <2> QED
    BY <1>2, <2>2 DEF Remembers, EndOf
<1>3. h # <<>> => h[Len(h)] \in Nat
  BY DEF Remembers
<1> QED
  BY <1>1, <1>2, <1>3 DEF Swept

\* So does expiring the first hits; what is left is in the window.
LEMMA RemembersLive ==
    ASSUME NEW h, NEW g, NEW now \in Nat, NEW window \in Nat, Remembers(h, g, now, window)
    PROVE  /\ Remembers(Live(h, now, window), g, now, window)
           /\ \A i \in DOMAIN g : now - g[i] < window => i > Len(g) - Len(Live(h, now, window))
<1> DEFINE positions == {i \in DOMAIN h : now - h[i] < window}
           l == From(h, positions)
<1>1. h \in Seq(Nat) /\ g \in Seq(Nat) /\ positions \in SUBSET (1..Len(h))
  BY DEF Remembers
<1>2. /\ l \in Seq(Nat) /\ EndOf(l, h)
      /\ \A i \in 1..(Len(h) - Len(l)) : i \notin positions
  BY <1>1, FromIsEnd
<1>3. /\ Len(l) \in Nat /\ Len(h) \in Nat /\ Len(g) \in Nat
      /\ Len(l) <= Len(h) /\ Len(h) <= Len(g)
  BY <1>1, <1>2 DEF Remembers, EndOf
<1> HIDE DEF l
<1>4. EndOf(l, g)
  BY <1>2, <1>3, EndOfEnd DEF Remembers
<1>5. ASSUME NEW i \in 1..(Len(g) - Len(l))
      PROVE  now - g[i] >= window
  <2>1. CASE i <= Len(g) - Len(h)
    BY <2>1, <1>3 DEF Remembers
  <2>2. CASE i > Len(g) - Len(h)
    <3> DEFINE j == i - (Len(g) - Len(h))
    <3>1. j \in 1..(Len(h) - Len(l)) /\ j \in 1..Len(h)
      BY <2>2, <1>3
    <3>2. Len(g) - Len(h) + j = i
      BY <1>3
    <3> HIDE DEF j
    <3>3. h[j] = g[i] /\ h[j] \in Nat
      <4>1. h[j] = g[Len(g) - Len(h) + j]
        BY <3>1 DEF Remembers, EndOf
      <4>2. h[j] \in Nat
        BY <3>1, <1>1, ElementOfSeq
      <4> QED
        BY <4>1, <4>2, <3>2
    <3>4. DOMAIN h = 1..Len(h)
      BY <1>1
    <3>5. j \in DOMAIN h /\ j \notin positions
      <4> HIDE DEF positions
      <4> QED
        BY <3>1, <3>4, <1>2
    <3> QED
      BY <3>3, <3>5
  <2> QED
    BY <2>1, <2>2, <1>3
<1>6. Remembers(l, g, now, window)
  BY <1>2, <1>4, <1>5 DEF Remembers
<1>7. \A i \in DOMAIN g : now - g[i] < window => i > Len(g) - Len(l)
  <2> TAKE i \in DOMAIN g
  <2>1. i \in 1..Len(g) /\ now - g[i] \in Int
    BY <1>1
  <2>2. i <= Len(g) - Len(l) => i \in 1..(Len(g) - Len(l))
    BY <2>1, <1>3
  <2> QED
    BY <2>1, <2>2, <1>3, <1>5
<1> QED
  BY <1>6, <1>7 DEF Live, l

\* An attempt that is granted is remembered.
LEMMA RemembersAppended ==
    ASSUME NEW h, NEW g, NEW now \in Nat, NEW window \in Nat, Remembers(h, g, now, window)
    PROVE  Remembers(Append(h, now), Append(g, now), now, window)
<1>1. /\ h \in Seq(Nat) /\ g \in Seq(Nat) /\ Len(h) <= Len(g)
      /\ Len(h) \in Nat /\ Len(g) \in Nat
  BY DEF Remembers, EndOf
<1> DEFINE h1 == Append(h, now)
           g1 == Append(g, now)
<1>2. /\ h1 \in Seq(Nat) /\ Len(h1) = Len(h) + 1 /\ h1[Len(h) + 1] = now
      /\ \A i \in 1..Len(h) : h1[i] = h[i]
  BY <1>1, AppendProperties
<1>3. /\ g1 \in Seq(Nat) /\ Len(g1) = Len(g) + 1 /\ g1[Len(g) + 1] = now
      /\ \A i \in 1..Len(g) : g1[i] = g[i]
  BY <1>1, AppendProperties
<1> HIDE DEF h1, g1
<1>4. Sorted(g1) /\ \A i \in DOMAIN g1 : g1[i] <= now
  <2>1. \A i \in 1..Len(g) : g[i] \in Nat /\ g[i] <= now
    BY <1>1 DEF Remembers
  <2>2. \A i, j \in 1..Len(g) : i <= j => g[i] <= g[j]
    BY <1>1 DEF Remembers, Sorted
  <2>3. DOMAIN g1 = 1..(Len(g) + 1)
    BY <1>3
  <2>4. ASSUME NEW i \in 1..(Len(g) + 1), NEW j \in 1..(Len(g) + 1), i <= j
        PROVE  g1[i] <= g1[j] /\ g1[j] <= now
    <3>1. CASE j = Len(g) + 1 /\ i = Len(g) + 1
      BY <3>1, <1>3
    <3>2. CASE j = Len(g) + 1 /\ i \in 1..Len(g)
      BY <3>2, <2>1, <1>3
    <3>3. CASE j \in 1..Len(g) /\ i \in 1..Len(g)
      BY <3>3, <2>1, <2>2, <2>4, <1>3
    <3> QED
      BY <3>1, <3>2, <3>3, <2>4, <1>1
  <2> QED
    BY <2>3, <2>4, <1>1 DEF Sorted
<1>5. EndOf(h1, g1)
  <2> SUFFICES ASSUME NEW i \in 1..(Len(h) + 1) PROVE h1[i] = g1[Len(g1) - Len(h1) + i]
    BY <1>1, <1>2, <1>3 DEF EndOf
  <2>1. Len(g1) - Len(h1) + i = Len(g) - Len(h) + i
    BY <1>1, <1>2, <1>3
  <2>2. CASE i = Len(h) + 1
    BY <2>1, <2>2, <1>1, <1>2, <1>3
  <2>3. CASE i \in 1..Len(h)
    <3>1. Len(g) - Len(h) + i \in 1..Len(g)
      BY <2>3, <1>1
    <3>2. h[i] = g[Len(g) - Len(h) + i]
      BY <2>3 DEF Remembers, EndOf
    <3> QED
      BY <3>1, <3>2, <2>1, <2>3, <1>2, <1>3
  <2> QED
    BY <2>2, <2>3, <1>1
<1>6. \A i \in 1..(Len(g1) - Len(h1)) : now - g1[i] >= window
  <2>1. Len(g1) - Len(h1) = Len(g) - Len(h)
    BY <1>1, <1>2, <1>3
  <2>2. \A i \in 1..(Len(g) - Len(h)) : i \in 1..Len(g)
    BY <1>1
  <2> QED
    BY <2>1, <2>2, <1>3 DEF Remembers
<1> QED
  BY <1>2, <1>3, <1>4, <1>5, <1>6 DEF Remembers, h1, g1

\* The hits an attempt meets in its window.
Within(g, i, window) == {j \in DOMAIN g : j >= i /\ g[j] - g[i] < window}

\* An attempt that meets fewer live hits than the maximum breaks no promise.
LEMMA PromiseAppended ==
    ASSUME NEW g \in Seq(Nat), NEW n \in Nat, NEW now \in Nat, NEW max \in Nat, NEW window \in Nat,
           n <= Len(g), n < max, Promise(g, max, window),
           \A i \in DOMAIN g : now - g[i] < window => i > Len(g) - n
    PROVE  Promise(Append(g, now), max, window)
<1> DEFINE g1 == Append(g, now)
           m == Len(g) + 1
<1>1. /\ g1 \in Seq(Nat) /\ Len(g1) = m /\ g1[m] = now /\ DOMAIN g1 = 1..m
      /\ \A i \in 1..Len(g) : g1[i] = g[i]
  BY AppendProperties
<1>2. Len(g) \in Nat /\ DOMAIN g = 1..Len(g)
  OBVIOUS
<1> HIDE DEF g1
<1> SUFFICES ASSUME NEW i \in 1..m PROVE Cardinality(Within(g1, i, window)) <= max
  BY <1>1 DEF Promise, Within, g1
<1>3. CASE i \in 1..Len(g) /\ ~(now - g[i] < window)
  <2>1. \A j \in 1..Len(g) : g1[j] - g1[i] = g[j] - g[i]
    BY <1>1, <1>3
  <2>2. ~(g1[m] - g1[i] < window)
    BY <1>1, <1>3
  <2>3. \A j \in 1..m : j \in Within(g1, i, window) <=> j \in Within(g, i, window)
    <3> TAKE j \in 1..m
    <3>1. j = m \/ j \in 1..Len(g)
      BY <1>2
    <3>2. m \notin Within(g1, i, window) /\ m \notin Within(g, i, window)
      BY <2>2, <1>2 DEF Within
    <3>3. ASSUME j \in 1..Len(g)
          PROVE  j \in Within(g1, i, window) <=> j \in Within(g, i, window)
      BY <3>3, <2>1, <1>1, <1>2 DEF Within
    <3> QED
      BY <3>1, <3>2, <3>3
  <2>4. Within(g1, i, window) = Within(g, i, window)
    <3>1. Within(g1, i, window) \subseteq 1..m /\ Within(g, i, window) \subseteq 1..m
      BY <1>1, <1>2 DEF Within
    <3> QED
      BY <2>3, <3>1
  <2> QED
    BY <2>4, <1>2, <1>3 DEF Promise, Within
<1>4. CASE i > Len(g) - n
  <2>1. Within(g1, i, window) \in SUBSET (i..m)
    BY <1>1, <1>2 DEF Within
  <2>2. IsFiniteSet(i..m) /\ Cardinality(i..m) <= max
    <3>1. i \in Int /\ m \in Int /\ i <= m
      BY <1>2
    <3>2. IsFiniteSet(i..m) /\ Cardinality(i..m) = m - i + 1
      BY <3>1, FS_Interval
    <3> QED
      BY <3>2, <1>2, <1>4
  <2>3. Cardinality(Within(g1, i, window)) <= Cardinality(i..m) /\ Cardinality(i..m) \in Nat
        /\ Cardinality(Within(g1, i, window)) \in Nat
    BY <2>1, <2>2, FS_Subset, FS_CardinalityType
  <2> QED
    BY <2>2, <2>3
<1>5. i = Len(g) + 1 \/ i \in 1..Len(g)
  BY <1>2
<1>6. i = Len(g) + 1 => i > Len(g) - n
  BY <1>2
<1>7. i \in 1..Len(g) /\ now - g[i] < window => i > Len(g) - n
  BY <1>2
<1> QED
  BY <1>3, <1>4, <1>5, <1>6, <1>7

\* What one user was granted stands in a table kept by Check.
Promised(h, g, now, max, window) == Remembers(h, g, now, window) /\ Promise(g, max, window)

\* check_at: whoever attempts, the table remembers of every user what is still
\* in the window, and the attempt is let through only if the promise holds.
THEOREM CheckKeepsPromise ==
    ASSUME NEW D, NEW hits, hits = [u \in D |-> hits[u]], NEW user \in D, NEW u \in D,
           NEW now \in Nat, NEW max \in Nat, NEW window \in Nat,
           NEW g, Promised(hits[u], g, now, max, window)
    PROVE  LET r == Check(hits, user, now, max, window)
           IN  /\ r.hits = [v \in D |-> r.hits[v]]
               /\ u # user \/ r.limited => Promised(r.hits[u], g, now, max, window)
               /\ u = user /\ ~r.limited => Promised(r.hits[u], Append(g, now), now, max, window)
<1> DEFINE swept == Swept(hits, now, window)
           entry == Live(swept[user], now, window)
           over == Len(entry) >= max
           r == Check(hits, user, now, max, window)
<1>1. DOMAIN hits = D /\ swept = [v \in D |-> swept[v]]
  BY DEF Swept
<1>2. Remembers(swept[u], g, now, window)
  BY <1>1, RemembersSwept DEF Promised
<1>3. /\ r.limited = over
      /\ r.hits = [v \in D |-> IF v = user THEN (IF over THEN entry ELSE Append(entry, now)) ELSE swept[v]]
  BY <1>1 DEF Check
<1>4. u = user => /\ Remembers(entry, g, now, window)
                  /\ \A i \in DOMAIN g : now - g[i] < window => i > Len(g) - Len(entry)
  BY <1>2, RemembersLive
<1> HIDE DEF swept, entry, r
<1>5. ASSUME u = user, ~over
      PROVE  Promised(Append(entry, now), Append(g, now), now, max, window)
  <2>1. Remembers(Append(entry, now), Append(g, now), now, window)
    BY <1>4, <1>5, RemembersAppended
  <2>2. g \in Seq(Nat) /\ Len(entry) \in Nat /\ Len(entry) <= Len(g) /\ Len(entry) < max
    BY <1>4, <1>5 DEF Remembers, EndOf
  <2>3. Promise(Append(g, now), max, window)
    BY <2>2, <1>4, <1>5, PromiseAppended DEF Promised
  <2> QED
    BY <2>1, <2>3 DEF Promised
<1> QED
  BY <1>2, <1>3, <1>4, <1>5 DEF Promised, r
-----------------------------------------------------------------------------
(* The intake.                                                             *)

\* Whoever is past already_seen and before mark_done is in the table of ids
\* being handled, alone under its id.
Holds ==
    /\ \A d \in Delivery : task[d].pc # "unborn" => task[d].id \in Delivery
    /\ \A d \in Delivery : task[d].pc \in InHand => task[d].id \in processing

\* A bot gets past the routing by a mention, or to the classifier only.
BotOK(t) == IsBot(t.m) /\ ~t.m.mention =>
    /\ t.pc \notin {"limit", "ping", "turn"}
    /\ t.pc = "seen" => t.mode = "unprompted"
    /\ t.said # "reply"
    /\ t.said = "command" => t.m.command /\ t.m.author \notin Silenced
    /\ t.said = "notice" => t.m.author \in Silenced /\ t.m.reply
BotsRouted == \A d \in Delivery : BotOK(task[d])

\* Each limiter remembers what it has to of what it let through.
Limited(hits, keys, name, max, window) ==
    /\ hits = [k \in keys |-> hits[k]]
    /\ granted[name] = [k \in keys |-> granted[name][k]]
    /\ \A k \in keys : Promised(hits[k], granted[name][k], clock, max, window)
LimitersKeep ==
    /\ granted = [name \in {"chat", "notice", "proactive"} |-> granted[name]]
    /\ Limited(chatHits, Author, "chat", ChatMax, ChatWindow)
    /\ Limited(noticeHits, Author, "notice", 1, NoticeWindow)
    /\ Limited(proactiveHits, Channel, "proactive", 1, ProactiveWindow)

IInv == TableTypes /\ Holds /\ OneDeliveryInHand /\ BotsRouted /\ LimitersKeep
-----------------------------------------------------------------------------
\* A task that has not been spawned is a record of the type.
LEMMA UnbornType == Unborn \in Task
  BY IntakeAssumption DEF Unborn, Task, NoKind

\* The initial state: nothing was delivered, said or granted.
LEMMA InitInv == Init => IInv
<1> SUFFICES ASSUME Init PROVE IInv
  OBVIOUS
<1> USE IntakeAssumption, UnbornType DEF Init
<1>1. TableTypes
  <2>1. clock \in 0..MaxTime /\ -1 \in -1..MaxTime
    OBVIOUS
  <2>2. active \in [Channel \X Author -> -1..MaxTime]
    BY <2>1
  <2>3. task \in [Delivery -> Task] /\ processing \subseteq Delivery
    OBVIOUS
  <2>4. responded \in Seq(Delivery) /\ Len(responded) <= RespondedSize
    OBVIOUS
  <2> QED
    BY <2>1, <2>2, <2>3, <2>4 DEF TableTypes
<1>2. Holds /\ OneDeliveryInHand /\ BotsRouted
  BY DEF Holds, OneDeliveryInHand, BotsRouted, BotOK, Unborn, InHand
<1>3. \A max, window \in Nat : Promised(<<>>, <<>>, 0, max, window)
  BY RemembersNothing DEF Promised, Promise
<1>4. LimitersKeep
  BY <1>3 DEF LimitersKeep, Limited
<1> QED
  BY <1>1, <1>2, <1>4 DEF IInv
-----------------------------------------------------------------------------
\* One task changes to a task.
LEMMA TaskChanges ==
    ASSUME TableTypes, NEW d \in Delivery, NEW r \in Task, task' = [task EXCEPT ![d] = r]
    PROVE  task' \in [Delivery -> Task] /\ task'[d] = r
           /\ \A e \in Delivery : e # d => task'[e] = task[e]
  BY DEF TableTypes

\* What the steps of a task write.
LEMMA GotoType ==
    ASSUME TableTypes, NEW d \in Delivery, NEW pc \in {"append", "recent", "look", "seen",
             "proactive", "limit", "ping", "turn", "forget", "record", "done", "dropped"}
    PROVE  /\ Goto(d, pc) => task' = [task EXCEPT ![d] = [task[d] EXCEPT !.pc = pc]]
           /\ [task[d] EXCEPT !.pc = pc] \in Task
<1>1. task[d] \in Task
  BY DEF TableTypes
<1>2. \A t \in Task : [t EXCEPT !.pc = pc] \in Task
  BY DEF Task
<1> QED
  BY <1>1, <1>2 DEF TableTypes, Goto

\* What is said to a sender keeps the observer's type.
LEMMA SayType ==
    ASSUME TableTypes, NEW d \in Delivery, NEW pc \in {"forget"}, NEW what \in {"notice", "reaction", "reply"}
    PROVE  /\ Say(d, what, pc) =>
                task' = [task EXCEPT ![d] = [task[d] EXCEPT !.pc = pc, !.said = what, !.mode = "none"]]
           /\ [task[d] EXCEPT !.pc = pc, !.said = what, !.mode = "none"] \in Task
<1>1. task[d] \in Task
  BY DEF TableTypes
<1>2. \A t \in Task : [t EXCEPT !.pc = pc, !.said = what, !.mode = "none"] \in Task
  <2>1. \A t \in Task : [t EXCEPT !.pc = pc] \in Task
    BY DEF Task
  <2>2. \A t \in Task : [t EXCEPT !.said = what] \in Task
    BY DEF Task
  <2>3. \A t \in Task : [t EXCEPT !.mode = "none"] \in Task
    BY DEF Task
  <2> QED
    BY <2>1, <2>2, <2>3
<1> QED
  BY <1>1, <1>2 DEF TableTypes, Say
-----------------------------------------------------------------------------
\* The routing of one delivery.
LEMMA TriageType ==
    ASSUME TableTypes, NEW d \in Delivery, NEW id \in Delivery, NEW k \in Kind, Triage(d, id, k)
    PROVE  \E r \in Task : /\ task' = [task EXCEPT ![d] = r]
                           /\ r.pc \in {"dropped", "append", "look"}
                           /\ r.id = id /\ r.m = k /\ r.mode = "none"
                           /\ r.said \in {"nothing", "command", "notice"}
                           /\ r.said = "command" => k.command /\ k.author \notin Silenced
                           /\ r.said = "notice" => ~Unwanted(k) /\ Noticed(k)
<1> USE UnbornType
<1> DEFINE t == [Unborn EXCEPT !.id = id, !.m = k, !.pc = "dropped"]
<1>1. t \in Task /\ t.pc = "dropped" /\ t.id = id /\ t.m = k /\ t.mode = "none" /\ t.said = "nothing"
  BY DEF Unborn, Task
<1> DEFINE notice == [t EXCEPT !.said = "notice"]
           command == [t EXCEPT !.said = "command"]
           on(pc) == [t EXCEPT !.pc = pc]
<1>2. notice \in Task /\ command \in Task /\ \A pc \in {"dropped", "look", "append"} : on(pc) \in Task
  <2> HIDE DEF t
  <2>1. notice \in Task
    BY <1>1 DEF Task
  <2>2. command \in Task
    BY <1>1 DEF Task
  <2>3. \A pc \in {"dropped", "look", "append"} : on(pc) \in Task
    BY <1>1 DEF Task
  <2> QED
    BY <2>1, <2>2, <2>3
<1>3. /\ notice.pc = "dropped" /\ notice.id = id /\ notice.m = k /\ notice.mode = "none" /\ notice.said = "notice"
      /\ command.pc = "dropped" /\ command.id = id /\ command.m = k /\ command.mode = "none" /\ command.said = "command"
  BY <1>1 DEF Task
<1>4. \A pc \in {"dropped", "look", "append"} :
        on(pc).pc = pc /\ on(pc).id = id /\ on(pc).m = k /\ on(pc).mode = "none" /\ on(pc).said = "nothing"
  BY <1>1 DEF Task
<1> HIDE DEF t
<1>5. CASE task' = [task EXCEPT ![d] = t]
  BY <1>5, <1>1
<1>6. CASE task' = [task EXCEPT ![d] = command] /\ k.command /\ k.author \notin Silenced
  BY <1>6, <1>2, <1>3
<1>7. CASE task' = [task EXCEPT ![d] = notice] /\ ~Unwanted(k) /\ Noticed(k)
  BY <1>7, <1>2, <1>3
<1>8. CASE \E pc \in {"dropped", "look", "append"} : task' = [task EXCEPT ![d] = on(pc)]
  BY <1>8, <1>2, <1>4
<1> DEFINE pc == CASE ConfigChannel(k.chan) = None -> "dropped"
                   [] k.chan \in Direct -> "look" [] OTHER -> "append"
<1>9. pc \in {"dropped", "look", "append"}
  OBVIOUS
<1> HIDE DEF notice, command, on, pc
<1> QED
  BY <1>5, <1>6, <1>7, <1>8, <1>9 DEF Triage, t, notice, command, on, pc
-----------------------------------------------------------------------------
\* A step of one task keeps the table of ids if it enters the table with a
\* fresh id, stays in hand, or leaves the table with its own.
LEMMA HandsKept ==
    ASSUME TableTypes, Holds, OneDeliveryInHand,
           NEW d \in Delivery, NEW r \in Task, task' = [task EXCEPT ![d] = r],
           r.id \in Delivery,
           \/ r.pc \notin InHand /\ processing' = processing
           \/ task[d].pc \in InHand /\ r.id = task[d].id /\ processing' = processing
           \/ r.id \notin processing /\ processing' = processing \cup {r.id}
           \/ /\ task[d].pc \in InHand /\ r.pc \notin InHand /\ r.id = task[d].id
              /\ processing' = processing \ {r.id}
    PROVE  Holds' /\ OneDeliveryInHand' /\ processing' \subseteq Delivery
<1> DEFINE old == task[d]
<1>1. task'[d] = r /\ \A e \in Delivery : e # d => task'[e] = task[e]
  BY TaskChanges
<1>2. processing' \subseteq Delivery
  BY DEF TableTypes
<1>3. \A e \in Delivery : task'[e].pc # "unborn" => task'[e].id \in Delivery
  BY <1>1 DEF Holds
<1>4. ASSUME NEW e \in Delivery, task'[e].pc \in InHand
      PROVE  task'[e].id \in processing'
  <2>1. CASE e = d
    BY <2>1, <1>1, <1>4 DEF Holds
  <2>2. CASE e # d
    BY <2>2, <1>1, <1>4 DEF Holds, OneDeliveryInHand
  <2> QED
    BY <2>1, <2>2
<1>5. ASSUME NEW e \in Delivery, e # d, task'[e].pc \in InHand, r.pc \in InHand
      PROVE  task'[e].id # r.id
  BY <1>1, <1>5 DEF Holds, OneDeliveryInHand
<1>6. OneDeliveryInHand'
  BY <1>1, <1>5 DEF OneDeliveryInHand
<1> QED
  BY <1>2, <1>3, <1>4, <1>6 DEF Holds

\* A step of one task keeps the bots where they belong.
LEMMA BotsKept ==
    ASSUME TableTypes, BotsRouted, NEW d \in Delivery, NEW r \in Task,
           task' = [task EXCEPT ![d] = r], BotOK(r)
    PROVE  BotsRouted'
  BY TaskChanges DEF BotsRouted, BotOK, IsBot

\* What the limiters remember survives the clock.
LEMMA LimitersLater ==
    ASSUME IntakeAssumption, LimitersKeep, clock \in Nat, clock' \in Nat, clock <= clock',
           UNCHANGED limiters
    PROVE  LimitersKeep'
<1>1. ASSUME NEW h, NEW g, NEW max, NEW window \in Nat, Promised(h, g, clock, max, window)
      PROVE  Promised(h, g, clock', max, window)
  BY <1>1, RemembersLater DEF Promised
<1>2. ChatWindow \in Nat /\ NoticeWindow \in Nat /\ ProactiveWindow \in Nat
  BY DEF IntakeAssumption
<1> QED
  BY <1>1, <1>2 DEF LimitersKeep, Limited, limiters

\* What a limiter remembers survives an attempt of anybody.
LEMMA LimiterChecked ==
    ASSUME NEW keys, NEW name, NEW hits, NEW key \in keys, NEW max \in Nat, NEW window \in Nat,
           clock \in Nat, clock' = clock, Limited(hits, keys, name, max, window),
           granted = [n \in {"chat", "notice", "proactive"} |-> granted[n]],
           name \in {"chat", "notice", "proactive"},
           NEW hits1, hits1 = Limit(name, hits, key, max, window).hits,
           granted' = Limit(name, hits, key, max, window).granted
    PROVE  /\ hits1 = [k \in keys |-> hits1[k]]
           /\ granted'[name] = [k \in keys |-> granted'[name][k]]
           /\ \A k \in keys : Promised(hits1[k], granted'[name][k], clock', max, window)
           /\ granted' = [n \in {"chat", "notice", "proactive"} |-> granted'[n]]
           /\ \A n \in {"chat", "notice", "proactive"} : n # name => granted'[n] = granted[n]
<1> DEFINE r == Check(hits, key, clock, max, window)
<1>1. /\ hits1 = r.hits
      /\ granted' = IF r.limited THEN granted ELSE [granted EXCEPT ![name][key] = Append(@, clock)]
  BY DEF Limit
<1>2. \A k \in keys : /\ r.hits = [v \in keys |-> r.hits[v]]
                      /\ k # key \/ r.limited => Promised(r.hits[k], granted[name][k], clock, max, window)
                      /\ k = key /\ ~r.limited =>
                            Promised(r.hits[k], Append(granted[name][k], clock), clock, max, window)
  BY CheckKeepsPromise DEF Limited
<1> HIDE DEF r
<1>3. CASE r.limited
  BY <1>1, <1>2, <1>3 DEF Limited
<1>4. CASE ~r.limited
  <2>1. granted' = [n \in {"chat", "notice", "proactive"} |->
                      IF n = name THEN [granted[name] EXCEPT ![key] = Append(@, clock)] ELSE granted[n]]
    BY <1>1, <1>4
  <2>3. PICK g : g = granted[name] /\ g = [k \in keys |-> g[k]]
    BY DEF Limited
  <2>4. granted'[name] = [g EXCEPT ![key] = Append(@, clock)]
    BY <2>1, <2>3
  <2>5. granted'[name] = [k \in keys |-> IF k = key THEN Append(g[k], clock) ELSE g[k]]
    BY <2>3, <2>4
  <2>2. granted'[name] = [k \in keys |-> IF k = key THEN Append(granted[name][k], clock) ELSE granted[name][k]]
    BY <2>3, <2>5
  <2> QED
    BY <2>1, <2>2, <1>1, <1>2, <1>4
<1> QED
  BY <1>3, <1>4

Windows == [Channel \X Author -> -1..MaxTime]
Recent(s) == s \in Seq(Delivery) /\ Len(s) <= RespondedSize

\* A step that changes one task and leaves the limiters alone.
LEMMA StepKeeps ==
    ASSUME IInv, NEW d \in Delivery, NEW r \in Task, task' = [task EXCEPT ![d] = r],
           r.id \in Delivery, BotOK(r), clock' = clock, active' \in Windows, Recent(responded'),
           \/ r.pc \notin InHand /\ processing' = processing
           \/ task[d].pc \in InHand /\ r.id = task[d].id /\ processing' = processing
           \/ r.id \notin processing /\ processing' = processing \cup {r.id}
           \/ /\ task[d].pc \in InHand /\ r.pc \notin InHand /\ r.id = task[d].id
              /\ processing' = processing \ {r.id},
           LimitersKeep'
    PROVE  IInv'
<1>1. Holds' /\ OneDeliveryInHand' /\ processing' \subseteq Delivery
  BY HandsKept DEF IInv
<1>2. BotsRouted'
  BY BotsKept DEF IInv
<1>3. task' \in [Delivery -> Task]
  BY TaskChanges DEF IInv
<1>4. TableTypes'
  BY <1>1, <1>3 DEF IInv, TableTypes, Windows, Recent
<1> QED
  BY <1>1, <1>2, <1>4 DEF IInv

\* What the parts of the invariant say of the state before a step.
LEMMA Prior ==
    ASSUME IntakeAssumption, IInv
    PROVE  /\ active \in Windows /\ Recent(responded) /\ clock \in Nat
           /\ \A d \in Delivery : /\ task[d] \in Task /\ BotOK(task[d])
                                  /\ task[d].pc # "unborn" => task[d].id \in Delivery
           /\ clock' = clock /\ UNCHANGED limiters => LimitersKeep'
<1>1. clock \in Nat
  BY DEF IntakeAssumption, IInv, TableTypes
<1>2. clock' = clock /\ UNCHANGED limiters => LimitersKeep'
  BY <1>1, LimitersLater DEF IInv
<1> QED
  BY <1>1, <1>2 DEF IInv, TableTypes, Windows, Recent, Holds, BotsRouted

\* A step of one task to another point that answers nothing.
LEMMA GotoKeeps ==
    ASSUME IntakeAssumption, IInv, NEW d \in Delivery, task[d].pc # "unborn",
           NEW pc \in {"append", "recent", "look", "seen", "proactive", "limit", "ping", "turn",
                       "forget", "record", "done", "dropped"}, Goto(d, pc),
           clock' = clock, active' \in Windows, Recent(responded'), LimitersKeep',
           pc \in {"limit", "ping", "turn"} => ~IsBot(Msg(d)) \/ Msg(d).mention,
           pc = "seen" => task[d].mode = "unprompted",
           \/ pc \notin InHand /\ processing' = processing
           \/ task[d].pc \in InHand /\ processing' = processing
           \/ task[d].id \notin processing /\ processing' = processing \cup {task[d].id}
           \/ task[d].pc \in InHand /\ pc \notin InHand /\ processing' = processing \ {task[d].id}
    PROVE  IInv'
<1> DEFINE r == [task[d] EXCEPT !.pc = pc]
<1>1. r \in Task /\ task' = [task EXCEPT ![d] = r]
  BY GotoType DEF IInv
<1>2. task[d] \in Task /\ BotOK(task[d]) /\ task[d].id \in Delivery
  BY Prior
<1>3. r.pc = pc /\ r.id = task[d].id /\ r.m = Msg(d) /\ r.mode = task[d].mode /\ r.said = task[d].said
  BY <1>2 DEF Task, Msg
<1> HIDE DEF r
<1>4. BotOK(r)
  BY <1>2, <1>3 DEF BotOK, Msg
<1> QED
  BY <1>1, <1>2, <1>3, <1>4, StepKeeps

\* A step of one task that answers, and gives the message up.
LEMMA SayKeeps ==
    ASSUME IntakeAssumption, IInv, NEW d \in Delivery, task[d].pc \in InHand,
           NEW what \in {"notice", "reaction", "reply"}, Say(d, what, "forget"),
           clock' = clock, active' \in Windows, Recent(responded'), LimitersKeep',
           processing' = processing,
           what # "reaction" => ~IsBot(Msg(d)) \/ Msg(d).mention
    PROVE  IInv'
<1> DEFINE r == [task[d] EXCEPT !.pc = "forget", !.said = what, !.mode = "none"]
<1>1. r \in Task /\ task' = [task EXCEPT ![d] = r]
  BY SayType DEF IInv
<1>2. task[d] \in Task /\ BotOK(task[d]) /\ task[d].id \in Delivery
  BY Prior DEF InHand
<1>3. r.pc = "forget" /\ r.id = task[d].id /\ r.m = Msg(d) /\ r.said = what
  BY <1>2 DEF Task, Msg
<1> HIDE DEF r
<1>4. BotOK(r)
  BY <1>3 DEF BotOK
<1> QED
  BY <1>1, <1>2, <1>3, <1>4, StepKeeps
-----------------------------------------------------------------------------
\* The limiter of notices, when it is asked for one author.
LEMMA NoticeChecked ==
    ASSUME IntakeAssumption, LimitersKeep, NEW u \in Author, clock \in Nat, clock' = clock,
           noticeHits' = Limit("notice", noticeHits, u, 1, NoticeWindow).hits,
           granted' = Limit("notice", noticeHits, u, 1, NoticeWindow).granted
    PROVE  /\ noticeHits' = [v \in Author |-> noticeHits'[v]]
           /\ granted'["notice"] = [v \in Author |-> granted'["notice"][v]]
           /\ \A v \in Author : Promised(noticeHits'[v], granted'["notice"][v], clock', 1, NoticeWindow)
           /\ granted' = [n \in {"chat", "notice", "proactive"} |-> granted'[n]]
           /\ \A n \in {"chat", "notice", "proactive"} : n # "notice" => granted'[n] = granted[n]
<1>1. /\ Limited(noticeHits, Author, "notice", 1, NoticeWindow)
      /\ granted = [n \in {"chat", "notice", "proactive"} |-> granted[n]]
  BY DEF LimitersKeep
<1>2. NoticeWindow \in Nat
  BY DEF IntakeAssumption
<1> QED
  BY <1>1, <1>2, LimiterChecked

\* The limiter of turns, when it is asked for one author.
LEMMA ChatChecked ==
    ASSUME LimitersKeep, NEW u \in Author, clock \in Nat, clock' = clock, ChatMax \in Nat, ChatWindow \in Nat,
           chatHits' = Limit("chat", chatHits, u, ChatMax, ChatWindow).hits,
           granted' = Limit("chat", chatHits, u, ChatMax, ChatWindow).granted
    PROVE  /\ chatHits' = [v \in Author |-> chatHits'[v]]
           /\ granted'["chat"] = [v \in Author |-> granted'["chat"][v]]
           /\ \A v \in Author : Promised(chatHits'[v], granted'["chat"][v], clock', ChatMax, ChatWindow)
           /\ granted' = [n \in {"chat", "notice", "proactive"} |-> granted'[n]]
           /\ \A n \in {"chat", "notice", "proactive"} : n # "chat" => granted'[n] = granted[n]
<1>1. /\ Limited(chatHits, Author, "chat", ChatMax, ChatWindow)
      /\ granted = [n \in {"chat", "notice", "proactive"} |-> granted[n]]
  BY DEF LimitersKeep
<1> QED
  BY <1>1, LimiterChecked

\* The limiter of unprompted answers, when it is asked for one channel.
LEMMA ProactiveChecked ==
    ASSUME IntakeAssumption, LimitersKeep, NEW c \in Channel, clock \in Nat, clock' = clock,
           proactiveHits' = Limit("proactive", proactiveHits, c, 1, ProactiveWindow).hits,
           granted' = Limit("proactive", proactiveHits, c, 1, ProactiveWindow).granted
    PROVE  /\ proactiveHits' = [u \in Channel |-> proactiveHits'[u]]
           /\ granted'["proactive"] = [u \in Channel |-> granted'["proactive"][u]]
           /\ \A u \in Channel : Promised(proactiveHits'[u], granted'["proactive"][u], clock', 1, ProactiveWindow)
           /\ granted' = [n \in {"chat", "notice", "proactive"} |-> granted'[n]]
           /\ \A n \in {"chat", "notice", "proactive"} : n # "proactive" => granted'[n] = granted[n]
<1>1. /\ Limited(proactiveHits, Channel, "proactive", 1, ProactiveWindow)
      /\ granted = [n \in {"chat", "notice", "proactive"} |-> granted[n]]
  BY DEF LimitersKeep
<1>2. ProactiveWindow \in Nat
  BY DEF IntakeAssumption
<1> QED
  BY <1>1, <1>2, LimiterChecked

\* Routing a delivery: the notice to the silenced is the only limited answer.
LEMMA TriageKeeps ==
    ASSUME IntakeAssumption, IInv, NEW d \in Delivery, at(d, "unborn"), NEW id \in Delivery,
           NEW k \in Kind, Triage(d, id, k), UNCHANGED <<clock, buffers, active, ids>>
    PROVE  IInv'
<1> USE Prior DEF ids
<1>1. PICK r \in Task : /\ task' = [task EXCEPT ![d] = r]
                        /\ r.pc \in {"dropped", "append", "look"}
                        /\ r.id = id /\ r.m = k /\ r.said \in {"nothing", "command", "notice"}
                        /\ r.said = "command" => k.command /\ k.author \notin Silenced
                        /\ r.said = "notice" => ~Unwanted(k) /\ Noticed(k)
  BY TriageType DEF IInv
<1>2. BotOK(r)
  BY <1>1 DEF BotOK, Unwanted, Noticed, IsBot
<1>3. LimitersKeep'
  <2>1. CASE UNCHANGED limiters
    BY <2>1
  <2>2. CASE /\ Noticed(k) /\ UNCHANGED <<chatHits, proactiveHits>>
             /\ noticeHits' = Limit("notice", noticeHits, k.author, 1, NoticeWindow).hits
             /\ granted' = Limit("notice", noticeHits, k.author, 1, NoticeWindow).granted
    <3>1. k.author \in Author /\ NoticeWindow \in Nat
      BY DEF IntakeAssumption, Author
    <3> HIDE Prior
    <3>2. /\ noticeHits' = [u \in Author |-> noticeHits'[u]]
          /\ granted'["notice"] = [u \in Author |-> granted'["notice"][u]]
          /\ \A u \in Author : Promised(noticeHits'[u], granted'["notice"][u], clock', 1, NoticeWindow)
          /\ granted' = [n \in {"chat", "notice", "proactive"} |-> granted'[n]]
          /\ \A n \in {"chat", "notice", "proactive"} : n # "notice" => granted'[n] = granted[n]
      <4>1. LimitersKeep
        BY DEF IInv
      <4>2. clock \in Nat /\ clock' = clock
        BY Prior
      <4> QED
        BY <2>2, <3>1, <4>1, <4>2, NoticeChecked
    <3> QED
      BY <2>2, <3>2 DEF IInv, LimitersKeep, Limited
  <2> QED
    BY <2>1, <2>2 DEF Triage
<1>4. r.pc \notin InHand /\ processing' = processing
  BY <1>1 DEF InHand
<1> QED
  BY <1>1, <1>2, <1>3, <1>4, StepKeeps

\* A delivery spawns a task at its first step.
LEMMA DeliverKeeps ==
    ASSUME IntakeAssumption, IInv, NEW d \in Delivery, Deliver(d)
    PROVE  IInv'
<1>1. at(d, "unborn") /\ UNCHANGED <<clock, buffers, active, ids>>
  BY DEF Deliver
<1>2. CASE \E k \in Kind : Triage(d, d, k)
  BY <1>1, <1>2, TriageKeeps
<1>3. CASE \E e \in Delivery : Triage(d, e, Msg(e))
  <2>1. \A e \in Delivery : Msg(e) \in Kind
    BY DEF IInv, TableTypes, Task, Msg
  <2> QED
    BY <1>1, <1>3, <2>1, TriageKeeps
<1> QED
  BY <1>2, <1>3 DEF Deliver

\* The buffer, the window, the classifier and the answer of one task.
LEMMA AppendContextKeeps ==
    ASSUME IntakeAssumption, IInv, NEW d \in Delivery, AppendContext(d) \/ TakeRecent(d)
    PROVE  IInv'
<1>1. /\ task[d].pc \in {"append", "recent"} /\ UNCHANGED <<clock, active, ids, limiters>>
      /\ Goto(d, "recent") \/ Goto(d, "look")
  BY DEF AppendContext, TakeRecent, Goto, at
<1> QED
  BY <1>1, Prior, GotoKeeps DEF ids, InHand

\* Looking at a delivery drops an expired conversation at most.
LEMMA LookKeeps ==
    ASSUME IntakeAssumption, IInv, NEW d \in Delivery, Look(d)
    PROVE  IInv'
<1> DEFINE m == Msg(d)
           old == task[d]
<1>1. /\ old.pc = "look" /\ UNCHANGED <<clock, ids, limiters>>
      /\ \/ active' = active
         \/ active' = [active EXCEPT ![<<m.chan, m.author>>] = -1]
      /\ \/ /\ Addressed(m) \/ Watched(m)
            /\ task' = [task EXCEPT ![d].pc = "seen", ![d].mode = Mode(m)]
         \/ task' = [task EXCEPT ![d].pc = "dropped"]
  <2>1. active = [active EXCEPT ![<<m.chan, m.author>>] = active[<<m.chan, m.author>>]]
    BY Prior DEF Windows
  <2> QED
    BY <2>1, Prior DEF Look, at, Windows
<1>2. old \in Task /\ old.id \in Delivery /\ BotOK(old)
  BY <1>1, Prior
<1>3. active' \in Windows
  BY <1>1, Prior DEF Windows, IntakeAssumption
<1>4. Recent(responded') /\ LimitersKeep' /\ clock' = clock /\ processing' = processing
  BY <1>1, Prior DEF ids
<1>5. CASE task' = [task EXCEPT ![d].pc = "dropped"]
  BY <1>1, <1>3, <1>4, <1>5, GotoKeeps DEF Goto, InHand
<1>6. CASE (Addressed(m) \/ Watched(m)) /\ task' = [task EXCEPT ![d].pc = "seen", ![d].mode = Mode(m)]
  <2> DEFINE r == [old EXCEPT !.pc = "seen", !.mode = Mode(m)]
  <2>1. Mode(m) \in {"unprompted", "emoji", "full"}
    BY DEF Mode
  <2>2. r \in Task /\ r.pc = "seen" /\ r.id = old.id /\ r.m = m /\ r.mode = Mode(m) /\ r.said = old.said
    BY <1>2, <2>1 DEF Task, Msg
  <2>3. task' = [task EXCEPT ![d] = r]
    BY <1>6 DEF IInv, TableTypes
  <2> HIDE DEF r
  <2>4. BotOK(r)
    BY <1>2, <1>6, <2>2 DEF BotOK, Addressed, Mode, Msg
  <2> QED
    BY <1>2, <1>3, <1>4, <2>2, <2>3, <2>4, StepKeeps DEF InHand
<1> QED
  BY <1>1, <1>5, <1>6

\* Marking a message seen makes its task the only one that handles it.
LEMMA SeenKeeps ==
    ASSUME IntakeAssumption, IInv, NEW d \in Delivery, Seen(d)
    PROVE  IInv'
<1>1. /\ task[d].pc = "seen" /\ UNCHANGED <<clock, active, responded, limiters>>
      /\ \/ Goto(d, "dropped") /\ processing' = processing
         \/ /\ task[d].id \notin processing /\ processing' = processing \cup {task[d].id}
            /\ \/ Goto(d, "proactive")
               \/ Goto(d, "limit") /\ task[d].mode # "unprompted"
  BY DEF Seen, at
<1>2. BotOK(task[d])
  BY Prior
<1> QED
  BY <1>1, <1>2, Prior, GotoKeeps DEF InHand, BotOK, Msg

\* A reaction, or the way on when Discord refuses it.
LEMMA ReactKeeps ==
    ASSUME IntakeAssumption, IInv, NEW d \in Delivery, task[d].pc \in {"proactive", "ping"},
           NEW otherwise \in {"forget", "turn"}, React(d, otherwise),
           otherwise = "turn" => task[d].pc = "ping",
           UNCHANGED <<clock, buffers, active, ids, limiters>>
    PROVE  IInv'
<1>1. CASE Say(d, "reaction", "forget")
  BY <1>1, Prior, SayKeeps DEF ids, InHand
<1>2. CASE Goto(d, otherwise)
  <2>1. task[d].pc = "ping" => ~IsBot(Msg(d)) \/ Msg(d).mention
    BY Prior DEF BotOK, Msg
  <2> QED
    BY <1>2, <2>1, Prior, GotoKeeps DEF ids, InHand
<1> QED
  BY <1>1, <1>2 DEF React

\* A message of a proactive channel starts a turn only if its author may.
LEMMA ClassifyProactiveKeeps ==
    ASSUME IntakeAssumption, IInv, NEW d \in Delivery, ClassifyProactive(d)
    PROVE  IInv'
<1> USE DEF ids
<1>1. task[d].pc = "proactive" /\ UNCHANGED <<clock, buffers, active, ids>>
  BY DEF ClassifyProactive, at
<1>2. CASE Goto(d, "forget") /\ UNCHANGED limiters
  BY <1>1, <1>2, Prior, GotoKeeps DEF InHand
<1>3. CASE React(d, "forget") /\ UNCHANGED limiters
  BY <1>1, <1>3, ReactKeeps
<1> DEFINE r == Limit("proactive", proactiveHits, Msg(d).chan, 1, ProactiveWindow)
<1>4. CASE /\ ~IsBot(Msg(d)) /\ UNCHANGED <<chatHits, noticeHits>>
           /\ Goto(d, "forget") \/ Goto(d, "limit")
           /\ proactiveHits' = r.hits /\ granted' = r.granted
  <2>1. Msg(d).chan \in Channel /\ ProactiveWindow \in Nat /\ clock \in Nat
    BY Prior DEF IntakeAssumption, Task, Msg
  <2>2. /\ proactiveHits' = [u \in Channel |-> proactiveHits'[u]]
        /\ granted'["proactive"] = [u \in Channel |-> granted'["proactive"][u]]
        /\ \A u \in Channel : Promised(proactiveHits'[u], granted'["proactive"][u], clock', 1, ProactiveWindow)
        /\ granted' = [n \in {"chat", "notice", "proactive"} |-> granted'[n]]
        /\ \A n \in {"chat", "notice", "proactive"} : n # "proactive" => granted'[n] = granted[n]
    <3>1. PICK c \in Channel : c = Msg(d).chan
      BY <2>1
    <3>2. /\ proactiveHits' = Limit("proactive", proactiveHits, c, 1, ProactiveWindow).hits
          /\ granted' = Limit("proactive", proactiveHits, c, 1, ProactiveWindow).granted
      BY <1>4, <3>1
    <3>3. clock' = clock /\ LimitersKeep
      BY <1>1 DEF IInv
    <3> QED
      BY <2>1, <3>2, <3>3, ProactiveChecked
  <2>3. LimitersKeep'
    BY <1>1, <1>4, <2>2 DEF IInv, LimitersKeep, Limited
  <2> HIDE DEF r
  <2> QED
    BY <1>1, <1>4, <2>3, Prior, GotoKeeps DEF InHand
<1> QED
  BY <1>2, <1>3, <1>4 DEF ClassifyProactive

\* The chat limiter lets a message through as its window allows.
LEMMA LimitChatKeeps ==
    ASSUME IntakeAssumption, IInv, NEW d \in Delivery, LimitChat(d)
    PROVE  IInv'
<1> USE DEF ids
<1> DEFINE r == Limit("chat", chatHits, Msg(d).author, ChatMax, ChatWindow)
<1>1. /\ task[d].pc = "limit" /\ UNCHANGED <<clock, buffers, active, ids, noticeHits, proactiveHits>>
      /\ chatHits' = r.hits /\ granted' = r.granted
      /\ Say(d, "notice", "forget") \/ Goto(d, "forget") \/ Goto(d, "ping") \/ Goto(d, "turn")
  BY DEF LimitChat, at
<1>2. ~IsBot(Msg(d)) \/ Msg(d).mention
  BY <1>1, Prior DEF BotOK, Msg
<1>3. /\ Msg(d).author \in Author /\ ChatMax \in Nat /\ ChatWindow \in Nat /\ clock \in Nat
  BY Prior DEF IntakeAssumption, Task, Msg, Author
<1>4. /\ chatHits' = [u \in Author |-> chatHits'[u]]
      /\ granted'["chat"] = [u \in Author |-> granted'["chat"][u]]
      /\ \A u \in Author : Promised(chatHits'[u], granted'["chat"][u], clock', ChatMax, ChatWindow)
      /\ granted' = [n \in {"chat", "notice", "proactive"} |-> granted'[n]]
      /\ \A n \in {"chat", "notice", "proactive"} : n # "chat" => granted'[n] = granted[n]
  <2>1. PICK u \in Author : u = Msg(d).author
    BY <1>3
  <2>2. /\ chatHits' = Limit("chat", chatHits, u, ChatMax, ChatWindow).hits
        /\ granted' = Limit("chat", chatHits, u, ChatMax, ChatWindow).granted
    BY <1>1, <2>1
  <2>3. clock' = clock /\ LimitersKeep
    BY <1>1 DEF IInv
  <2> QED
    BY <1>3, <2>2, <2>3, ChatChecked
<1>5. LimitersKeep'
  BY <1>1, <1>4 DEF IInv, LimitersKeep, Limited
<1> HIDE DEF r
<1>6. CASE Say(d, "notice", "forget")
  BY <1>1, <1>2, <1>5, <1>6, Prior, SayKeeps DEF InHand
<1>7. CASE Goto(d, "forget") \/ Goto(d, "ping") \/ Goto(d, "turn")
  BY <1>1, <1>2, <1>5, <1>7, Prior, GotoKeeps DEF InHand
<1> QED
  BY <1>1, <1>6, <1>7

\* A ping is answered by a reaction at most before its turn.
LEMMA ClassifyPingKeeps ==
    ASSUME IntakeAssumption, IInv, NEW d \in Delivery, ClassifyPing(d)
    PROVE  IInv'
<1>1. /\ task[d].pc = "ping" /\ UNCHANGED <<clock, buffers, active, ids, limiters>>
      /\ React(d, "turn") \/ Goto(d, "turn")
  BY DEF ClassifyPing, at
<1> QED
  BY <1>1, ReactKeeps DEF React

\* A turn ends in a reply, a notice or nothing.
LEMMA RunTurnKeeps ==
    ASSUME IntakeAssumption, IInv, NEW d \in Delivery, RunTurn(d)
    PROVE  IInv'
<1> USE DEF ids
<1>1. task[d].pc = "turn" /\ UNCHANGED <<clock, buffers, ids, limiters>>
  BY DEF RunTurn, at
<1>2. ~IsBot(Msg(d)) \/ Msg(d).mention
  BY <1>1, Prior DEF BotOK, Msg
<1>3. CASE Goto(d, "forget") /\ UNCHANGED active
  BY <1>1, <1>3, Prior, GotoKeeps DEF InHand
<1>4. CASE /\ Say(d, "reply", "forget")
           /\ active' = [active EXCEPT ![<<Msg(d).chan, Msg(d).author>>] = clock]
  <2>1. clock \in -1..MaxTime
    BY DEF IntakeAssumption, IInv, TableTypes
  <2>2. active' \in Windows
    BY <1>4, <2>1, Prior DEF Windows
  <2> QED
    BY <1>1, <1>2, <1>4, <2>2, Prior, SayKeeps DEF InHand
<1> QED
  BY <1>3, <1>4 DEF RunTurn

\* mark_done: the id leaves the table, and is remembered as answered.
LEMMA ForgetKeeps ==
    ASSUME IntakeAssumption, IInv, NEW d \in Delivery, Forget(d)
    PROVE  IInv'
  BY Prior, GotoKeeps DEF Forget, at, InHand

\* Recording the message changes the channel's buffer only.
LEMMA RecordKeeps ==
    ASSUME IntakeAssumption, IInv, NEW d \in Delivery, Record(d)
    PROVE  IInv'
<1>1. /\ task[d].pc = "record" /\ Goto(d, "done")
      /\ responded' = Append(IF Len(responded) >= RespondedSize THEN Tail(responded) ELSE responded, task[d].id)
      /\ UNCHANGED <<clock, buffers, active, processing, limiters>>
  BY DEF Record, at
<1>2. task[d].id \in Delivery /\ RespondedSize \in Nat \ {0}
  BY <1>1, Prior DEF IntakeAssumption
<1> DEFINE rest == IF Len(responded) >= RespondedSize THEN Tail(responded) ELSE responded
<1>3. rest \in Seq(Delivery) /\ Len(rest) < RespondedSize
  <2>1. responded \in Seq(Delivery) /\ Len(responded) <= RespondedSize /\ Len(responded) \in Nat
    BY Prior DEF Recent
  <2>2. CASE Len(responded) >= RespondedSize
    <3>1. responded # <<>>
      BY <2>1, <2>2, <1>2
    <3> QED
      BY <2>1, <2>2, <3>1, <1>2, HeadTailProperties
  <2> QED
    BY <2>1, <2>2, <1>2
<1>4. Recent(responded')
  BY <1>1, <1>2, <1>3, AppendProperties DEF Recent
<1> HIDE DEF rest
<1> QED
  BY <1>1, <1>4, Prior, GotoKeeps DEF InHand
-----------------------------------------------------------------------------
\* A step of no task: a conversation is left, a buffer purged, or time passes.
LEMMA OthersKeep ==
    ASSUME IntakeAssumption, IInv, UNCHANGED <<task, ids, limiters>>, active' \in Windows,
           clock' \in 0..MaxTime, clock <= clock'
    PROVE  IInv'
<1>1. clock \in Nat /\ clock' \in Nat
  BY Prior DEF IntakeAssumption
<1>2. LimitersKeep'
  BY <1>1, LimitersLater DEF IInv
<1>3. Holds' /\ OneDeliveryInHand' /\ BotsRouted'
  BY DEF IInv, Holds, OneDeliveryInHand, BotsRouted, BotOK, ids, IsBot
<1>4. TableTypes'
  BY DEF IInv, TableTypes, Windows, ids
<1> QED
  BY <1>2, <1>3, <1>4 DEF IInv

\* Every step of the intake keeps the invariant.
LEMMA StepInv == IntakeAssumption /\ IInv /\ [Next]_vars => IInv'
<1> SUFFICES ASSUME IntakeAssumption, IInv, [Next]_vars PROVE IInv'
  OBVIOUS
<1>1. clock \in 0..MaxTime /\ active \in Windows /\ clock <= clock /\ MaxTime \in Nat /\ -1 \in -1..MaxTime
  BY DEF IInv, TableTypes, Windows, IntakeAssumption
<1>2. ASSUME NEW d \in Delivery, Deliver(d) PROVE IInv'
  BY <1>2, DeliverKeeps
<1>3. ASSUME NEW d \in Delivery, Handle(d) PROVE IInv'
  BY <1>3, AppendContextKeeps, LookKeeps, SeenKeeps, ClassifyProactiveKeeps, LimitChatKeeps,
     ClassifyPingKeeps, RunTurnKeeps, ForgetKeeps, RecordKeeps DEF Handle
<1>4. ASSUME NEW c \in Channel, NEW u \in User, LeaveConversation(c, u) PROVE IInv'
  <2>1. active' \in Windows
    BY <1>1, <1>4 DEF LeaveConversation, Windows
  <2> QED
    BY <1>1, <1>4, <2>1, OthersKeep DEF LeaveConversation
<1>5. ASSUME NEW u \in User, RemoveUserEntries(u) PROVE IInv'
  BY <1>1, <1>5, OthersKeep DEF RemoveUserEntries
<1>6. ASSUME NEW c \in Channel, Consult(c) PROVE IInv'
  BY <1>1, <1>6, OthersKeep DEF Consult
<1>7. CASE Tick
  BY <1>1, <1>7, OthersKeep DEF Tick
<1>8. CASE UNCHANGED vars
  BY <1>1, <1>8, OthersKeep DEF vars
<1> QED
  BY <1>2, <1>3, <1>4, <1>5, <1>6, <1>7, <1>8 DEF Next
-----------------------------------------------------------------------------
\* The inductive invariant of message intake.
THEOREM IntakeInvariant == Spec => []IInv
  BY IntakeAssumption, InitInv, StepInv, PTL DEF Spec

\* However a message is redelivered, one of its deliveries is handled at a time.
THEOREM OneDeliveryAtATime == Spec => []OneDeliveryInHand
<1>1. IInv => OneDeliveryInHand
  BY DEF IInv
<1> QED
  BY <1>1, IntakeInvariant, PTL

\* A bot that mentions nobody gets a reaction at most, but for a command's answer
\* and the notice to a silenced one that replies: its talk is never answered.
THEOREM NoBotLoop == Spec => []BotsDoNotConverse
<1>1. IInv => BotsDoNotConverse
  <2> SUFFICES ASSUME IInv, NEW d \in Delivery, IsBot(Msg(d)) /\ ~Msg(d).mention
               PROVE  \/ task[d].said \in {"nothing", "reaction"}
                      \/ task[d].said = "command" /\ Msg(d).command /\ Msg(d).author \notin Silenced
                      \/ task[d].said = "notice" /\ Msg(d).reply /\ Msg(d).author \in Silenced
    BY DEF BotsDoNotConverse
  <2>1. task[d].said \in {"nothing", "command", "notice", "reaction", "reply"} /\ BotOK(task[d])
    BY DEF IInv, TableTypes, Task, BotsRouted
  <2> QED
    BY <2>1 DEF BotOK, Msg
<1> QED
  BY <1>1, IntakeInvariant, PTL

\* No limiter lets more through in any of its windows than it promises.
THEOREM LimitersHold == Spec => []WithinLimits
<1>1. IInv => WithinLimits
  BY DEF IInv, LimitersKeep, Limited, Promised, WithinLimits
<1> QED
  BY <1>1, IntakeInvariant, PTL
-----------------------------------------------------------------------------
(* The buffers of the channels.                                            *)

\* Without, as the recursion it is.
Kept(s, u) ==
    CHOOSE kept : kept = [i \in 0..Len(s) |->
                            IF i = 0 THEN <<>>
                            ELSE IF s[i].by = u THEN kept[i - 1] ELSE Append(kept[i - 1], s[i])]

LEMMA WithoutIsKept == \A s, u : Without(s, u) = Kept(s, u)[Len(s)]
  BY DEF Without, Kept

\* There is a function that satisfies it.
LEMMA KeptIs ==
    ASSUME NEW s, Len(s) \in Nat, NEW u
    PROVE  Kept(s, u) = [i \in 0..Len(s) |->
                           IF i = 0 THEN <<>>
                           ELSE IF s[i].by = u THEN Kept(s, u)[i - 1] ELSE Append(Kept(s, u)[i - 1], s[i])]
<1> DEFINE Is(f, n) == f = [i \in 0..n |->
                              IF i = 0 THEN <<>>
                              ELSE IF s[i].by = u THEN f[i - 1] ELSE Append(f[i - 1], s[i])]
           P == {n \in Nat : \E f : Is(f, n)}
<1>1. 0 \in P
  <2>1. PICK f : f = [i \in 0..0 |-> <<>>]
    OBVIOUS
  <2>2. Is(f, 0)
    BY <2>1
  <2> QED
    BY <2>2
<1>2. ASSUME NEW n \in P PROVE n + 1 \in P
  <2>5. n \in Nat
    OBVIOUS
  <2>1. PICK f : Is(f, n)
    OBVIOUS
  <2>2. PICK g : g = [i \in 0..(n + 1) |->
                        IF i <= n THEN f[i]
                        ELSE IF s[i].by = u THEN f[n] ELSE Append(f[n], s[i])]
    OBVIOUS
  <2>3. ASSUME NEW i \in 0..(n + 1)
        PROVE  g[i] = IF i = 0 THEN <<>> ELSE IF s[i].by = u THEN g[i - 1] ELSE Append(g[i - 1], s[i])
    <3>1. CASE i = 0
      BY <2>1, <2>2, <3>1
    <3>2. CASE i \in 1..n
      <4>1. g[i] = f[i] /\ g[i - 1] = f[i - 1] /\ i \in 0..n
        BY <2>2, <3>2
      <4>2. f[i] = IF s[i].by = u THEN f[i - 1] ELSE Append(f[i - 1], s[i])
        <5>1. i # 0 /\ i \in 0..n
          BY <2>5, <3>2
        <5> QED
          BY <2>1, <5>1
      <4> QED
        BY <3>2, <4>1, <4>2
    <3>3. CASE i = n + 1
      <4>1. g[i - 1] = f[n]
        BY <2>2, <3>3
      <4> QED
        BY <2>2, <3>3, <4>1
    <3> QED
      BY <3>1, <3>2, <3>3
  <2>4. Is(g, n + 1)
    <3>1. g = [i \in 0..(n + 1) |-> g[i]]
      BY <2>2
    <3> QED
      BY <2>3, <3>1
  <2>6. n + 1 \in Nat
    BY <2>5
  <2> HIDE DEF Is
  <2> QED
    BY <2>4, <2>6
<1>3. Len(s) \in P
  <2>1. P = Nat
    <3> HIDE DEF P
    <3>1. P \in SUBSET Nat
      BY DEF P
    <3> QED
      BY <1>1, <1>2, <3>1, Induction
  <2> QED
    BY <2>1
<1>4. PICK f : Is(f, Len(s))
  BY <1>3
<1> QED
  BY <1>4, Zenon DEF Kept
-----------------------------------------------------------------------------
\* A sequence t is what is left of s at the positions m, in order.
Embeds(m, t, s) ==
    /\ m \in [DOMAIN t -> DOMAIN s]
    /\ \A j \in DOMAIN t : t[j] = s[m[j]]
    /\ \A j, k \in DOMAIN t : j < k => m[j] < m[k]

\* Without keeps, in order, what is not of u.
LEMMA WithoutEmbeds ==
    ASSUME NEW S, NEW s \in Seq(S), NEW u
    PROVE  /\ Without(s, u) \in Seq(S)
           /\ \E m : /\ Embeds(m, Without(s, u), s)
                     /\ \A i \in DOMAIN s : s[i].by # u <=> i \in Range(m)
<1>1. PICK K : K = Kept(s, u)
  OBVIOUS
<1>2. Len(s) \in Nat /\ DOMAIN s = 1..Len(s) /\ \A i \in 1..Len(s) : s[i] \in S
  OBVIOUS
<1>3. /\ K[0] = <<>>
      /\ \A i \in 1..Len(s) : K[i] = IF s[i].by = u THEN K[i - 1] ELSE Append(K[i - 1], s[i])
  <2>1. K = [i \in 0..Len(s) |-> IF i = 0 THEN <<>>
                                 ELSE IF s[i].by = u THEN K[i - 1] ELSE Append(K[i - 1], s[i])]
    <3>1. Len(s) \in Nat
      BY <1>2
    <3> QED
      BY <1>1, <3>1, KeptIs
  <2>2. 0 \in 0..Len(s) /\ \A i \in 1..Len(s) : i \in 0..Len(s) /\ i # 0
    BY <1>2
  <2> QED
    BY <2>1, <2>2
<1> DEFINE Good(m, n) == /\ K[n] \in Seq(S)
                         /\ m \in [1..Len(K[n]) -> 1..n]
                         /\ \A j \in 1..Len(K[n]) : K[n][j] = s[m[j]]
                         /\ \A j, k \in 1..Len(K[n]) : j < k => m[j] < m[k]
                         /\ \A i \in 1..n : s[i].by # u <=> \E j \in 1..Len(K[n]) : m[j] = i
           P == {n \in Nat : n <= Len(s) => \E m : Good(m, n)}
<1>4. 0 \in P
  <2>1. K[0] \in Seq(S) /\ Len(K[0]) = 0
    BY <1>3
  <2>2. Good(<<>>, 0)
    BY <2>1
  <2> QED
    BY <2>2
<1>5. ASSUME NEW n \in Nat, n + 1 <= Len(s), NEW m, Good(m, n) PROVE \E w : Good(w, n + 1)
  <2>1. PICK t \in Seq(S), l \in Nat : t = K[n] /\ l = Len(t)
    BY <1>5
  <2>2. n + 1 \in 1..Len(s) /\ s[n + 1] \in S /\ (n + 1) - 1 = n
    BY <1>2, <1>5
  <2>3. /\ m \in [1..l -> 1..n] /\ \A j \in 1..l : t[j] = s[m[j]]
        /\ \A j, k \in 1..l : j < k => m[j] < m[k]
        /\ \A i \in 1..n : s[i].by # u <=> \E j \in 1..l : m[j] = i
    BY <1>5, <2>1
  <2>4. \A i \in 1..(n + 1) : i \in 1..n \/ i = n + 1
    OBVIOUS
  <2>5. CASE s[n + 1].by = u
    <3>1. K[n + 1] = t
      BY <1>3, <2>1, <2>2, <2>5
    <3>2. \A j \in 1..l : m[j] \in 1..(n + 1) /\ m[j] # n + 1
      <4> TAKE j \in 1..l
      <4>1. m[j] \in 1..n
        BY <2>3
      <4> QED
        BY <4>1
    <3>3. \A i \in 1..(n + 1) : s[i].by # u <=> \E j \in 1..l : m[j] = i
      BY <2>3, <2>4, <2>5, <3>2
    <3>4. m \in [1..l -> 1..(n + 1)]
      BY <2>3, <3>2
    <3>5. Good(m, n + 1)
      BY <2>1, <2>3, <3>1, <3>3, <3>4
    <3> HIDE DEF Good
    <3> QED
      BY <3>5
  <2>6. CASE s[n + 1].by # u
    <3>1. K[n + 1] = Append(t, s[n + 1])
      BY <1>3, <2>1, <2>2, <2>6
    <3>2. PICK a : a = Append(t, s[n + 1])
      OBVIOUS
    <3>3. /\ a \in Seq(S) /\ Len(a) = l + 1 /\ a[l + 1] = s[n + 1]
          /\ \A j \in 1..l : a[j] = t[j]
      BY <2>1, <2>2, <3>2, AppendProperties
    <3>4. PICK w : w = [j \in 1..(l + 1) |-> IF j <= l THEN m[j] ELSE n + 1]
      OBVIOUS
    <3>5. \A j \in 1..(l + 1) : j \in 1..l \/ j = l + 1
      OBVIOUS
    <3>6. w[l + 1] = n + 1 /\ \A j \in 1..l : w[j] = m[j] /\ m[j] \in 1..n
      BY <2>3, <3>4
    <3>7. \A j \in 1..(l + 1) : w[j] \in 1..(n + 1)
      BY <3>5, <3>6
    <3>8. w \in [1..(l + 1) -> 1..(n + 1)]
      BY <3>4, <3>7
    <3>9. \A j \in 1..(l + 1) : a[j] = s[w[j]]
      BY <2>3, <3>3, <3>5, <3>6
    <3>10. ASSUME NEW j \in 1..(l + 1), NEW k \in 1..(l + 1), j < k PROVE w[j] < w[k]
      <4>1. j \in 1..l
        BY <3>10
      <4>2. CASE k \in 1..l
        <5>1. m[j] < m[k]
          BY <2>3, <3>10, <4>1, <4>2
        <5> QED
          BY <3>6, <4>1, <4>2, <5>1
      <4>3. CASE k = l + 1
        <5>1. w[j] \in 1..n /\ w[k] = n + 1
          BY <3>6, <4>1, <4>3
        <5> QED
          BY <5>1
      <4> QED
        BY <3>5, <4>2, <4>3
    <3>11. ASSUME NEW i \in 1..(n + 1) PROVE s[i].by # u <=> \E j \in 1..(l + 1) : w[j] = i
      <4>1. CASE i = n + 1
        <5>1. l + 1 \in 1..(l + 1)
          OBVIOUS
        <5> QED
          BY <2>6, <3>6, <4>1, <5>1
      <4>2. CASE i \in 1..n
        <5>1. \A j \in 1..(l + 1) : w[j] = i <=> j \in 1..l /\ m[j] = i
          BY <3>5, <3>6, <4>2
        <5>2. \A j \in 1..l : j \in 1..(l + 1)
          OBVIOUS
        <5> QED
          BY <2>3, <4>2, <5>1, <5>2
      <4> QED
        BY <2>4, <4>1, <4>2
    <3>13. K[n + 1] = a /\ Len(K[n + 1]) = l + 1 /\ K[n + 1] \in Seq(S)
      BY <3>1, <3>2, <3>3
    <3>12. Good(w, n + 1)
      BY <3>8, <3>9, <3>10, <3>11, <3>13, Zenon
    <3> HIDE DEF Good
    <3> QED
      BY <3>12
  <2> QED
    BY <2>5, <2>6
<1>6. PICK m : Good(m, Len(s))
  <2> HIDE DEF Good
  <2>1. \A n \in P : n + 1 \in P
    BY <1>2, <1>5
  <2>2. P \in SUBSET Nat
    OBVIOUS
  <2>3. P = Nat
    <3> HIDE DEF P
    <3> QED
      BY <1>4, <2>1, <2>2, Induction
  <2> QED
    BY <1>2, <2>3
<1>8. K[Len(s)] = Without(s, u)
  BY <1>1, WithoutIsKept
<1>9. Without(s, u) \in Seq(S)
  BY <1>6, <1>8
<1>10. Embeds(m, Without(s, u), s)
  <2>1. DOMAIN Without(s, u) = 1..Len(Without(s, u))
    BY <1>9
  <2> QED
    BY <1>2, <1>6, <1>8, <2>1 DEF Embeds
<1>11. DOMAIN m = 1..Len(Without(s, u))
  BY <1>6, <1>8
<1>12. \A i \in DOMAIN s : s[i].by # u <=> i \in Range(m)
  BY <1>2, <1>6, <1>8, <1>11 DEF Range
<1> QED
  BY <1>9, <1>10, <1>12
-----------------------------------------------------------------------------
\* The newest of what was said: ContextIsNewest of one channel.
Newest(buffer, said) ==
    \E shown \in [DOMAIN buffer -> DOMAIN said] :
       /\ Shows(shown, buffer, said)
       /\ \A i \in DOMAIN said : i \in Range(shown) \/ Gone(said, i)

Logged == [id : Delivery, by : Author \cup {None}, at : 0..MaxTime]

\* An increasing function leaves room between its values.
LEMMA Spaced ==
    ASSUME NEW n \in Nat, NEW l \in Nat, NEW m \in [1..n -> 1..l],
           \A j, k \in 1..n : j < k => m[j] < m[k]
    PROVE  \A j, k \in 1..n : j <= k => m[k] - m[j] >= k - j
<1> DEFINE P == {d \in Nat : \A j \in 1..n : j + d \in 1..n => m[j + d] - m[j] >= d}
<1>1. \A j \in 1..n : m[j] \in Nat
  OBVIOUS
<1>2. 0 \in P
  BY <1>1
<1>3. ASSUME NEW d \in P PROVE d + 1 \in P
  <2> SUFFICES ASSUME NEW j \in 1..n, j + (d + 1) \in 1..n PROVE m[j + (d + 1)] - m[j] >= d + 1
    OBVIOUS
  <2>1. d \in Nat /\ j + d \in 1..n /\ j + d < j + (d + 1)
    OBVIOUS
  <2>2. m[j + d] - m[j] >= d /\ m[j + d] < m[j + (d + 1)]
    BY <2>1
  <2>3. PICK x \in Nat, y \in Nat, z \in Nat : x = m[j] /\ y = m[j + d] /\ z = m[j + (d + 1)]
    BY <1>1, <2>1
  <2>4. y - x >= d /\ y < z
    BY <2>2, <2>3
  <2>5. z - x >= d + 1
    BY <2>1, <2>4
  <2> QED
    BY <2>3, <2>5
<1>4. P = Nat
  <2>1. P \in SUBSET Nat
    OBVIOUS
  <2> HIDE DEF P
  <2> QED
    BY <1>2, <1>3, <2>1, Induction
<1> SUFFICES ASSUME NEW j \in 1..n, NEW k \in 1..n, j <= k PROVE m[k] - m[j] >= k - j
  OBVIOUS
<1>5. PICK d \in Nat : d = k - j /\ j + d = k
  OBVIOUS
<1>6. d \in P
  BY <1>4
<1>7. m[j + d] - m[j] >= d
  BY <1>5, <1>6
<1> QED
  BY <1>5, <1>7

\* So it has at least as many values as arguments to take them from.
LEMMA AtLeastAsMany ==
    ASSUME NEW d \in Nat, NEW n \in Nat, NEW v \in [1..d -> 1..n],
           \A j, k \in 1..d : j < k => v[j] < v[k]
    PROVE  d <= n
<1>1. \A j, k \in 1..d : j <= k => v[k] - v[j] >= k - j
  BY Spaced
<1>2. CASE d # 0
  <2>1. 1 \in 1..d /\ d \in 1..d
    BY <1>2
  <2>2. PICK y \in 1..n, z \in 1..n : y = v[1] /\ z = v[d]
    BY <2>1
  <2>3. z - y >= d - 1
    BY <1>1, <2>1, <2>2
  <2> QED
    BY <2>2, <2>3
<1> QED
  BY <1>2

\* What is too old, and stays so.
LEMMA TooOld ==
    ASSUME NEW said \in Nat, NEW now \in Nat, NEW retention \in Nat, ~(said >= now - retention)
    PROVE  said < now - retention
  OBVIOUS
LEMMA OlderLater ==
    ASSUME NEW said \in Nat, NEW now \in Nat, NEW later \in Nat, NEW retention \in Nat,
           said < now - retention, now <= later
    PROVE  said < later - retention
  OBVIOUS

\* The messages of positions m that a buffer loses none of but its first.
StillShows(b, t, L, m) ==
    \E w \in [DOMAIN t -> DOMAIN L] :
       /\ Shows(w, t, L)
       /\ \A j \in DOMAIN b : j <= Len(b) - Len(t) \/ m[j] \in Range(w)

\* What is left of a buffer when its first entries go still shows what it did.
LEMMA EndShows ==
    ASSUME NEW b \in Seq(Entry), NEW t \in Seq(Entry), EndOf(t, b), NEW L \in Seq(Logged),
           NEW m \in [DOMAIN b -> DOMAIN L], Shows(m, b, L)
    PROVE  StillShows(b, t, L, m)
<1>10. PICK w : w = [j \in DOMAIN t |-> m[Len(b) - Len(t) + j]]
  OBVIOUS
<1>9. PICK n \in Nat, l \in Nat : n = Len(b) /\ l = Len(t) /\ DOMAIN b = 1..n /\ DOMAIN t = 1..l
  OBVIOUS
<1>11. l <= n /\ \A j \in 1..l : t[j] = b[n - l + j]
  BY <1>9 DEF EndOf
<1>12. PICK d \in Nat : d = n - l
  BY <1>11
<1>1. /\ d = n - l /\ n = Len(b) /\ l = Len(t)
      /\ DOMAIN b = 1..n /\ DOMAIN t = 1..l
  BY <1>9, <1>12
<1>2. \A j \in 1..l : d + j \in 1..n /\ w[j] = m[d + j] /\ t[j] = b[d + j]
  <2> TAKE j \in 1..l
  <2>1. d + j \in 1..n
    BY <1>12
  <2>2. w[j] = m[d + j]
    BY <1>1, <1>10
  <2> QED
    BY <1>11, <1>12, <2>1, <2>2
<1>3. w \in [DOMAIN t -> DOMAIN L]
  BY <1>1, <1>2, <1>10
<1>4. \A j \in 1..n : j > d => \E k \in 1..l : d + k = j
  <2> TAKE j \in 1..n
  <2> HAVE j > d
  <2>1. j - d \in 1..l /\ d + (j - d) = j
    BY <1>1
  <2> QED
    BY <2>1
<1>5. \A j \in 1..n : j > d => m[j] \in Range(w)
  <2>1. \A k \in 1..l : w[k] \in Range(w)
    BY <1>1, <1>3 DEF Range
  <2> QED
    BY <1>2, <1>4, <2>1
<1>6. /\ \A j \in 1..l : t[j] = L[w[j]] /\ L[w[j]].by # None
      /\ \A j, k \in 1..l : j < k => w[j] < w[k]
  <2>1. /\ \A j \in 1..n : b[j] = L[m[j]] /\ L[m[j]].by # None
        /\ \A j, k \in 1..n : j < k => m[j] < m[k]
    BY <1>1 DEF Shows
  <2>2. \A j \in 1..l : t[j] = L[w[j]] /\ L[w[j]].by # None
    BY <1>2, <2>1
  <2>3. ASSUME NEW j \in 1..l, NEW k \in 1..l, j < k PROVE w[j] < w[k]
    <3>1. PICK x \in 1..n, y \in 1..n : x = d + j /\ y = d + k
      BY <1>2
    <3>2. x < y
      BY <2>3, <3>1
    <3>3. w[j] = m[x] /\ w[k] = m[y]
      BY <1>2, <3>1
    <3> QED
      BY <2>1, <3>2, <3>3
  <2> QED
    BY <2>2, <2>3
<1>7. ASSUME NEW i \in DOMAIN L, L[i].by # None
      PROVE  i \in Range(w) \/ \A j \in 1..l : i < w[j]
  <2>1. CASE \A j \in 1..n : i < m[j]
    BY <1>2, <2>1
  <2>2. CASE i \in Range(m)
    <3>1. PICK k \in 1..n : i = m[k]
      BY <1>1, <2>2 DEF Range
    <3>2. CASE k > d
      BY <1>5, <3>1, <3>2
    <3>3. CASE k <= d
      <4>1. \A j \in 1..l : k < d + j
        BY <3>3
      <4>2. \A x, y \in 1..n : x < y => m[x] < m[y]
        BY <1>1 DEF Shows
      <4> QED
        BY <1>2, <3>1, <4>1, <4>2
    <3> QED
      BY <1>1, <3>2, <3>3
  <2> QED
    BY <1>1, <1>7, <2>1, <2>2 DEF Shows
<1>8. Shows(w, t, L)
  BY <1>1, <1>6, <1>7 DEF Shows
<1> QED
  <2>1. \A j \in 1..n : j <= d \/ m[j] \in Range(w)
    BY <1>5, <1>12
  <2> QED
    BY <1>1, <1>3, <1>8, <2>1 DEF StillShows

\* Expire takes what is too old, and nothing that is not.
LEMMA ExpireIsEnd ==
    ASSUME NEW b \in Seq(Entry)
    PROVE  /\ Expire(b) \in Seq(Entry) /\ EndOf(Expire(b), b) /\ Len(Expire(b)) <= Len(b)
           /\ \A j \in DOMAIN b : j <= Len(b) - Len(Expire(b)) => ~(b[j].at >= clock - Retention)
<1> DEFINE positions == {i \in DOMAIN b : b[i].at >= clock - Retention}
<1>1. positions \in SUBSET (1..Len(b)) /\ DOMAIN b = 1..Len(b) /\ Len(b) \in Nat
  OBVIOUS
<1>2. Expire(b) = From(b, positions)
  BY DEF Expire
<1> HIDE DEF positions
<1>3. /\ Expire(b) \in Seq(Entry) /\ EndOf(Expire(b), b)
      /\ \A i \in 1..(Len(b) - Len(Expire(b))) : i \notin positions
  BY <1>1, <1>2, FromIsEnd
<1>4. ASSUME NEW j \in DOMAIN b, j <= Len(b) - Len(Expire(b)) PROVE ~(b[j].at >= clock - Retention)
  <2>1. j \in 1..(Len(b) - Len(Expire(b)))
    BY <1>1, <1>3, <1>4
  <2>2. j \notin positions
    BY <1>3, <2>1
  <2> QED
    BY <2>2 DEF positions
<1> QED
  BY <1>3, <1>4 DEF EndOf

\* A buffer that lost its expired entries is still the newest.
LEMMA ExpireNewest ==
    ASSUME IntakeAssumption, clock \in 0..MaxTime, NEW b \in Seq(Entry), NEW L \in Seq(Logged), Newest(b, L)
    PROVE  Newest(Expire(b), L)
<1>1. PICK m \in [DOMAIN b -> DOMAIN L] :
        Shows(m, b, L) /\ \A i \in DOMAIN L : i \in Range(m) \/ Gone(L, i)
  BY DEF Newest
<1>2. PICK t \in Seq(Entry) : t = Expire(b) /\ EndOf(t, b)
  BY ExpireIsEnd
<1>3. StillShows(b, t, L, m)
  BY <1>1, <1>2, EndShows
<1>4. PICK w \in [DOMAIN t -> DOMAIN L] :
        Shows(w, t, L) /\ \A j \in DOMAIN b : j <= Len(b) - Len(t) \/ m[j] \in Range(w)
  BY <1>3, Zenon DEF StillShows
<1>5. ASSUME NEW i \in DOMAIN L, i \in Range(m) PROVE i \in Range(w) \/ Gone(L, i)
  <2>1. PICK j \in DOMAIN b : i = m[j]
    BY <1>5 DEF Range
  <2>2. CASE m[j] \in Range(w)
    BY <2>1, <2>2
  <2>3. CASE j <= Len(b) - Len(t)
    <3>1. ~(b[j].at >= clock - Retention) /\ b[j] = L[i]
      <4>1. ~(b[j].at >= clock - Retention)
        BY <1>2, <2>3, ExpireIsEnd
      <4> QED
        BY <1>1, <2>1, <4>1 DEF Shows
    <3>2. L[i].at \in Nat /\ clock \in Nat /\ Retention \in Nat
      <4>1. L[i] \in Logged /\ MaxTime \in Nat
        BY DEF IntakeAssumption
      <4> QED
        BY <4>1 DEF Logged, IntakeAssumption
    <3>4. ~(L[i].at >= clock - Retention)
      BY <3>1
    <3>3. L[i].at < clock - Retention
      BY <3>2, <3>4, TooOld, Zenon
    <3> QED
      BY <3>3 DEF Gone
  <2> QED
    BY <1>4, <2>2, <2>3
<1> QED
  BY <1>1, <1>2, <1>4, <1>5 DEF Newest
\* A position is the last or one before it.
LEMMA LastOrBefore == ASSUME NEW n \in Nat, NEW i \in 1..(n + 1) PROVE i = n + 1 \/ i \in 1..n
  OBVIOUS

\* What is dropped is the first, if anything.
LEMMA OnlyFirst ==
    ASSUME NEW dropped \in {0, 1}, NEW i \in Nat \ {0}, i <= dropped PROVE dropped = 1 /\ i = 1
  OBVIOUS

\* A full buffer drops its first entry.
LEMMA MakeRoom ==
    ASSUME IntakeAssumption, NEW k \in Seq(Entry), Len(k) <= Capacity
    PROVE  \E t \in Seq(Entry) :
              /\ t = IF Len(k) >= Capacity THEN Tail(k) ELSE k
              /\ EndOf(t, k) /\ Len(t) < Capacity /\ Len(k) - Len(t) \in {0, 1}
              /\ Len(k) - Len(t) = 1 => Len(k) = Capacity
<1>1. Capacity \in Nat \ {0} /\ Len(k) \in Nat
  BY DEF IntakeAssumption
<1>2. CASE Len(k) >= Capacity
  <2>1. k # <<>>
    BY <1>1, <1>2
  <2>2. PICK t : t = Tail(k)
    OBVIOUS
  <2>3. t \in Seq(Entry) /\ Len(t) = Len(k) - 1 /\ \A i \in 1..Len(t) : t[i] = k[i + 1]
    BY <2>1, <2>2, HeadTailProperties
  <2>4. \A i \in 1..Len(t) : i + 1 = Len(k) - Len(t) + i
    BY <1>1, <2>3
  <2>5. EndOf(t, k)
    BY <1>1, <2>3, <2>4 DEF EndOf
  <2>6. Len(t) < Capacity /\ Len(k) - Len(t) = 1 /\ Len(k) = Capacity
    <3>1. PICK p \in Nat, q \in Nat : p = Len(k) /\ q = Len(t) /\ q = p - 1
      BY <2>3
    <3> QED
      BY <1>1, <1>2, <3>1
  <2>7. t = (IF Len(k) >= Capacity THEN Tail(k) ELSE k)
    BY <1>2, <2>2
  <2> QED
    BY <2>3, <2>5, <2>6, <2>7
<1>3. CASE ~(Len(k) >= Capacity)
  <2>1. EndOf(k, k) /\ Len(k) - Len(k) = 0 /\ Len(k) < Capacity
    BY <1>1, <1>3 DEF EndOf
  <2> QED
    BY <1>3, <2>1
<1> QED
  BY <1>2, <1>3

\* The buffer shows what it did and the message i.
Showing(buffer, said, old, i) ==
    \E x \in [DOMAIN buffer -> DOMAIN said] : Shows(x, buffer, said) /\ old \cup {i} \subseteq Range(x)

\* An entry is shown by the last message.
LEMMA AppendShows ==
    ASSUME NEW t \in Seq(Entry), NEW L \in Seq(Logged), NEW e \in Entry, e.by # None, e \in Logged,
           NEW w \in [DOMAIN t -> DOMAIN L], Shows(w, t, L)
    PROVE  Showing(Append(t, e), Append(L, e), Range(w), Len(L) + 1)
<1>1. PICK n \in Nat, l \in Nat : n = Len(t) /\ l = Len(L) /\ DOMAIN t = 1..n /\ DOMAIN L = 1..l
  OBVIOUS
<1>2. PICK a, M : a = Append(t, e) /\ M = Append(L, e)
  OBVIOUS
<1>3. /\ a \in Seq(Entry) /\ DOMAIN a = 1..(n + 1) /\ a[n + 1] = e /\ \A j \in 1..n : a[j] = t[j]
      /\ M \in Seq(Logged) /\ DOMAIN M = 1..(l + 1) /\ M[l + 1] = e /\ \A i \in 1..l : M[i] = L[i]
  BY <1>1, <1>2, AppendProperties
<1>4. PICK x : x = [j \in 1..(n + 1) |-> IF j <= n THEN w[j] ELSE l + 1]
  OBVIOUS
<1>5. x[n + 1] = l + 1 /\ \A j \in 1..n : x[j] = w[j] /\ w[j] \in 1..l
  <2>1. w \in [1..n -> 1..l]
    BY <1>1
  <2>2. x[n + 1] = l + 1
    BY <1>4
  <2>3. \A j \in 1..n : x[j] = w[j]
    BY <1>4
  <2> QED
    BY <2>1, <2>2, <2>3
<1>6. \A j \in 1..(n + 1) : j \in 1..n \/ j = n + 1
  OBVIOUS
<1>7. /\ \A j \in 1..n : t[j] = L[w[j]] /\ L[w[j]].by # None
      /\ \A j, k \in 1..n : j < k => w[j] < w[k]
      /\ \A i \in 1..l : L[i].by # None => i \in Range(w) \/ \A j \in 1..n : i < w[j]
  BY <1>1 DEF Shows
<1>8. x \in [1..(n + 1) -> 1..(l + 1)]
  <2>1. ASSUME NEW j \in 1..(n + 1) PROVE x[j] \in 1..(l + 1)
    <3>1. CASE j \in 1..n
      <4>1. x[j] \in 1..l
        BY <1>5, <3>1
      <4> QED
        BY <4>1
    <3>2. CASE j = n + 1
      <4>1. x[j] = l + 1
        BY <1>5, <3>2
      <4> QED
        BY <4>1
    <3> QED
      BY <1>6, <3>1, <3>2
  <2> QED
    BY <1>4, <2>1
<1>9. Range(w) \cup {l + 1} \subseteq Range(x)
  <2>1. \A j \in 1..(n + 1) : x[j] \in Range(x)
    BY <1>8 DEF Range
  <2>2. \A i \in Range(w) : \E j \in 1..n : w[j] = i
    BY <1>1 DEF Range
  <2>3. n + 1 \in 1..(n + 1) /\ \A j \in 1..n : j \in 1..(n + 1)
    OBVIOUS
  <2> QED
    BY <1>5, <2>1, <2>2, <2>3
<1>10. \A j \in 1..(n + 1) : a[j] = M[x[j]] /\ M[x[j]].by # None
  BY <1>3, <1>5, <1>6, <1>7
<1>11. ASSUME NEW j \in 1..(n + 1), NEW k \in 1..(n + 1), j < k PROVE x[j] < x[k]
  <2>1. j \in 1..n
    BY <1>11
  <2>2. CASE k \in 1..n
    <3>1. w[j] < w[k]
      BY <1>7, <1>11, <2>1, <2>2
    <3> QED
      BY <1>5, <2>1, <2>2, <3>1
  <2>3. CASE k = n + 1
    <3>1. x[j] \in 1..l /\ x[k] = l + 1
      BY <1>5, <2>1, <2>3
    <3> QED
      BY <3>1
  <2> QED
    BY <1>6, <2>2, <2>3
<1>12. ASSUME NEW i \in 1..(l + 1), M[i].by # None
       PROVE  i \in Range(x) \/ \A j \in 1..(n + 1) : i < x[j]
  <2>1. CASE i = l + 1
    BY <1>9, <2>1
  <2>2. CASE i \in 1..l
    <3>1. i \in Range(w) \/ \A j \in 1..n : i < w[j]
      BY <1>3, <1>7, <1>12, <2>2
    <3> QED
      BY <1>5, <1>6, <1>9, <2>2, <3>1
  <2> QED
    BY <2>1, <2>2
<1>13. Shows(x, a, M)
  BY <1>3, <1>10, <1>11, <1>12 DEF Shows
<1> QED
  BY <1>1, <1>2, <1>3, <1>8, <1>9, <1>13 DEF Showing

\* ChannelContext::append keeps the buffer the newest: what it drops is too old,
\* or Capacity messages came after it.
LEMMA PushNewest ==
    ASSUME IntakeAssumption, clock \in 0..MaxTime, NEW b \in Seq(Entry), Len(b) <= Capacity,
           NEW L \in Seq(Logged), NEW e \in Entry, Newest(b, L)
    PROVE  /\ Pushed(b, e) \in Seq(Entry) /\ Len(Pushed(b, e)) <= Capacity
           /\ Newest(Pushed(b, e), Append(L, e))
<1>1. PICK k \in Seq(Entry) : k = Expire(b) /\ Len(k) <= Capacity /\ Newest(k, L)
  <2>3. Expire(b) \in Seq(Entry) /\ Len(Expire(b)) <= Len(b)
    BY ExpireIsEnd
  <2>1. Expire(b) \in Seq(Entry) /\ Len(Expire(b)) <= Len(b) /\ Len(b) \in Nat /\ Len(Expire(b)) \in Nat
    BY <2>3
  <2>2. Capacity \in Nat
    BY DEF IntakeAssumption
  <2> QED
    BY <2>1, <2>2, ExpireNewest
<1>2. PICK t \in Seq(Entry) :
        /\ t = IF Len(k) >= Capacity THEN Tail(k) ELSE k
        /\ EndOf(t, k) /\ Len(t) < Capacity /\ Len(k) - Len(t) \in {0, 1}
        /\ Len(k) - Len(t) = 1 => Len(k) = Capacity
  BY <1>1, MakeRoom
<1>3. Pushed(b, e) = Append(t, e)
  BY <1>1, <1>2 DEF Pushed
<1>4. PICK m \in [DOMAIN k -> DOMAIN L] :
        Shows(m, k, L) /\ \A i \in DOMAIN L : i \in Range(m) \/ Gone(L, i)
  BY <1>1 DEF Newest
<1>52. StillShows(k, t, L, m)
  BY <1>2, <1>4, EndShows
<1>50. PICK w \in [DOMAIN t -> DOMAIN L] :
        Shows(w, t, L) /\ \A j \in DOMAIN k : j <= Len(k) - Len(t) \/ m[j] \in Range(w)
  BY <1>52, Zenon DEF StillShows
<1>5. Shows(w, t, L)
  BY <1>50
<1>51. \A j \in DOMAIN k : j <= Len(k) - Len(t) \/ m[j] \in Range(w)
  BY <1>50
<1>6. e.by # None /\ e \in Logged
  BY DEF IntakeAssumption, Entry, Logged, Author
<1>70. Showing(Append(t, e), Append(L, e), Range(w), Len(L) + 1)
  BY <1>2, <1>5, <1>50, <1>6, AppendShows
<1>7. PICK x \in [DOMAIN Append(t, e) -> DOMAIN Append(L, e)] :
        Shows(x, Append(t, e), Append(L, e)) /\ Range(w) \cup {Len(L) + 1} \subseteq Range(x)
  BY <1>70 DEF Showing
<1>82. PICK n \in Nat : n = Len(k) /\ DOMAIN k = 1..n
  BY LenProperties
<1>83. PICK l \in Nat : l = Len(L) /\ DOMAIN L = 1..l
  BY LenProperties
<1>80. /\ n \in Nat /\ n = Len(k) /\ DOMAIN k = 1..n
       /\ l \in Nat /\ l = Len(L) /\ DOMAIN L = 1..l
  BY <1>82, <1>83
<1>81. PICK M : M = Append(L, e)
  OBVIOUS
<1>8. /\ n = Len(k) /\ l = Len(L) /\ M = Append(L, e)
      /\ DOMAIN k = 1..n /\ DOMAIN L = 1..l
  BY <1>80, <1>81
<1>9. /\ M \in Seq(Logged) /\ Len(M) = l + 1 /\ DOMAIN M = 1..(l + 1)
      /\ \A i \in 1..l : M[i] = L[i]
  BY <1>6, <1>8, AppendProperties
<1>10. Capacity \in Nat \ {0} /\ Len(t) \in Nat
  BY <1>2 DEF IntakeAssumption
<1>11. ASSUME NEW i \in 1..l, Gone(L, i) PROVE Gone(M, i)
  <2>1. M[i] = L[i] /\ Len(M) = l + 1 /\ Len(L) = l /\ i \in 1..l
    BY <1>8, <1>9
  <2> QED
    BY <1>10, <1>11, <2>1 DEF Gone
<1>12. ASSUME NEW i \in 1..l, i \in Range(m) PROVE i \in Range(x) \/ Gone(M, i)
  <2>1. PICK j \in 1..n : i = m[j]
    BY <1>8, <1>12 DEF Range
  <2>2. CASE m[j] \in Range(w)
    BY <1>7, <2>1, <2>2
  <2>3. CASE j <= Len(k) - Len(t)
    <3>9. Len(k) - Len(t) \in {0, 1} /\ j \in Nat \ {0}
      BY <1>2, <1>80
    <3>10. Len(k) - Len(t) = 1 /\ j = 1
      BY <2>3, <3>9, OnlyFirst, Zenon
    <3>1. Len(k) - Len(t) = 1 /\ j = 1 /\ n = Capacity
      BY <1>2, <1>8, <3>10
    <3>2. \A x1, y1 \in 1..n : x1 <= y1 => m[y1] - m[x1] >= y1 - x1
      BY <1>4, <1>8, Spaced DEF Shows
    <3>8. 1 \in 1..n /\ n \in 1..n
      BY <1>10, <3>1
    <3>3. 1 \in 1..n /\ n \in 1..n /\ m[n] \in 1..l
      BY <1>8, <3>8
    <3>4. m[n] - i >= n - 1
      BY <2>1, <3>1, <3>2, <3>3
    <3>6. PICK y \in 1..l : y = m[n]
      BY <3>3
    <3>7. y - i >= n - 1 /\ Len(M) = l + 1 /\ n = Capacity
      BY <1>9, <3>1, <3>4, <3>6
    <3>5. Len(M) - i >= Capacity
      <4>1. \A p, q \in Nat : \A f, g \in 1..p : g - f >= q - 1 => (p + 1) - f >= q
        OBVIOUS
      <4>2. (l + 1) - i >= n
        BY <1>80, <3>6, <3>7, <4>1
      <4> QED
        BY <3>7, <4>2
    <3> QED
      BY <3>5 DEF Gone
  <2> QED
    BY <1>8, <1>51, <2>1, <2>2, <2>3
<1>13. \A i \in DOMAIN M : i \in Range(x) \/ Gone(M, i)
  <2> TAKE i \in DOMAIN M
  <2>1. i = l + 1 \/ i \in 1..l
    <3>1. i \in 1..(l + 1)
      BY <1>9
    <3> QED
      BY <1>80, <3>1, LastOrBefore
  <2>2. CASE i = l + 1
    BY <1>7, <1>8, <2>2
  <2>3. CASE i \in 1..l
    BY <1>4, <1>8, <1>11, <1>12, <2>3
  <2> QED
    BY <2>1, <2>2, <2>3
<1>14. Newest(Append(t, e), M)
  BY <1>7, <1>8, <1>13 DEF Newest
<1>15. Append(t, e) \in Seq(Entry) /\ Len(Append(t, e)) <= Capacity
  BY <1>2, <1>10, AppendProperties
<1> QED
  BY <1>3, <1>8, <1>14, <1>15

\* remove_user_entries keeps it the newest of what is not erased.
Erased(L, u) == [i \in DOMAIN L |-> [L[i] EXCEPT !.by = IF @ = u THEN None ELSE @]]

LEMMA EraseNewest ==
    ASSUME IntakeAssumption, NEW b \in Seq(Entry), NEW L \in Seq(Logged), NEW u \in User, Newest(b, L)
    PROVE  /\ Without(b, u) \in Seq(Entry) /\ Len(Without(b, u)) <= Len(b)
           /\ Erased(L, u) \in Seq(Logged) /\ Newest(Without(b, u), Erased(L, u))
<1>1. PICK m \in [DOMAIN b -> DOMAIN L] :
        Shows(m, b, L) /\ \A i \in DOMAIN L : i \in Range(m) \/ Gone(L, i)
  BY DEF Newest
<1>2. Without(b, u) \in Seq(Entry)
  BY WithoutEmbeds
<1>3. PICK v : /\ Embeds(v, Without(b, u), b)
               /\ \A j \in DOMAIN b : b[j].by # u <=> j \in Range(v)
  BY WithoutEmbeds
<1>4. PICK t \in Seq(Entry) : t = Without(b, u)
  BY <1>2
<1>5. PICK n \in Nat, l \in Nat, d \in Nat : /\ n = Len(b) /\ l = Len(L) /\ d = Len(t)
                                             /\ DOMAIN b = 1..n /\ DOMAIN L = 1..l /\ DOMAIN t = 1..d
  OBVIOUS
<1>6. /\ v \in [1..d -> 1..n] /\ \A j \in 1..d : t[j] = b[v[j]]
      /\ \A j, k \in 1..d : j < k => v[j] < v[k]
  BY <1>3, <1>4, <1>5 DEF Embeds
<1>7. PICK M : M = Erased(L, u)
  OBVIOUS
<1>8. ASSUME NEW i \in 1..l
      PROVE  /\ M[i] \in Logged /\ M[i].at = L[i].at
             /\ M[i].by = (IF L[i].by = u THEN None ELSE L[i].by) /\ (L[i].by # u => M[i] = L[i])
  <2>0. i \in 1..Len(L)
    BY <1>5
  <2>1. L[i] \in Logged
    BY <2>0, ElementOfSeq
  <2>2. M[i] = [L[i] EXCEPT !.by = IF @ = u THEN None ELSE @]
    BY <1>5, <1>7 DEF Erased
  <2>3. M[i].by = (IF L[i].by = u THEN None ELSE L[i].by) /\ M[i].at = L[i].at /\ M[i] \in Logged
    BY <2>1, <2>2 DEF Logged
  <2>4. L[i].by # u => M[i] = L[i]
    BY <2>1, <2>2 DEF Logged
  <2> QED
    BY <2>3, <2>4
<1>9. M \in Seq(Logged) /\ Len(M) = l /\ DOMAIN M = 1..l
  <2>1. M = [i \in 1..l |-> M[i]]
    BY <1>5, <1>7 DEF Erased
  <2>2. M \in Seq(Logged)
    <3>1. \A i \in 1..l : M[i] \in Logged
      BY <1>8
    <3> QED
      BY <1>5, <2>1, <3>1, IsASeq
  <2>3. DOMAIN M = 1..l
    BY <2>1
  <2> QED
    BY <2>2, <2>3
<1>10. d <= n
  BY <1>6, AtLeastAsMany
<1>11. PICK x : x = [j \in 1..d |-> m[v[j]]]
  OBVIOUS
<1>12. \A j \in 1..d : v[j] \in 1..n /\ x[j] = m[v[j]] /\ x[j] \in 1..l
  BY <1>5, <1>6, <1>11
<1>13. x \in [1..d -> 1..l]
  BY <1>11, <1>12
<1>14. /\ \A j \in 1..n : b[j] = L[m[j]] /\ L[m[j]].by # None
       /\ \A j, k \in 1..n : j < k => m[j] < m[k]
       /\ \A i \in 1..l : L[i].by # None => i \in Range(m) \/ \A j \in 1..n : i < m[j]
  BY <1>1, <1>5 DEF Shows
<1>15. ASSUME NEW i \in 1..l, i \in Range(m), L[i].by # u PROVE i \in Range(x)
  <2>1. PICK j \in 1..n : i = m[j]
    BY <1>5, <1>15 DEF Range
  <2>2. j \in Range(v)
    BY <1>3, <1>5, <1>14, <1>15, <2>1
  <2>3. PICK k \in 1..d : j = v[k]
    BY <1>6, <2>2 DEF Range
  <2>4. x[k] \in Range(x)
    BY <1>13 DEF Range
  <2> QED
    BY <1>12, <2>1, <2>3, <2>4
<1>16. ASSUME NEW j \in 1..d PROVE t[j] = M[x[j]] /\ M[x[j]].by # None
  <2>1. v[j] \in Range(v)
    BY <1>6 DEF Range
  <2>2. b[v[j]].by # u
    BY <1>3, <1>5, <1>12, <2>1
  <2>3. b[v[j]] = L[x[j]] /\ L[x[j]].by # None
    BY <1>12, <1>14
  <2>4. M[x[j]] = L[x[j]]
    BY <1>8, <1>12, <2>2, <2>3
  <2> QED
    BY <1>6, <2>3, <2>4
<1>17. ASSUME NEW j \in 1..d, NEW k \in 1..d, j < k PROVE x[j] < x[k]
  <2>1. PICK y \in 1..n, z \in 1..n : y = v[j] /\ z = v[k]
    BY <1>12
  <2>2. y < z
    BY <1>6, <1>17, <2>1
  <2>3. m[y] < m[z]
    BY <1>14, <2>2
  <2> QED
    BY <1>12, <2>1, <2>3
<1>18. ASSUME NEW i \in 1..l, M[i].by # None
       PROVE  i \in Range(x) \/ \A j \in 1..d : i < x[j]
  <2>1. L[i].by # u /\ L[i].by # None
    BY <1>8, <1>18
  <2>2. i \in Range(m) \/ \A j \in 1..n : i < m[j]
    BY <1>14, <2>1
  <2> QED
    BY <1>12, <1>15, <2>1, <2>2
<1>19. ASSUME NEW i \in 1..l PROVE i \in Range(x) \/ Gone(M, i)
  <2>1. CASE L[i].by = u
    BY <1>8, <2>1 DEF Gone
  <2>2. CASE L[i].by # u /\ Gone(L, i)
    BY <1>5, <1>8, <1>9, <2>2 DEF Gone
  <2>3. CASE L[i].by # u /\ i \in Range(m)
    BY <1>15, <2>3
  <2> QED
    BY <1>1, <1>5, <2>1, <2>2, <2>3
<1>20. Shows(x, t, M)
  BY <1>5, <1>9, <1>16, <1>17, <1>18 DEF Shows
<1>21. Newest(t, M)
  BY <1>5, <1>9, <1>13, <1>19, <1>20 DEF Newest
<1> QED
  BY <1>4, <1>5, <1>7, <1>9, <1>10, <1>21
-----------------------------------------------------------------------------
\* What the steps keep of the buffers: of every channel, the log and a buffer
\* that holds the newest of it.
BufferOf(buffer, said) ==
    /\ buffer \in Seq(Entry) /\ Len(buffer) <= Capacity
    /\ said \in Seq(Logged) /\ Newest(buffer, said)
BInv == /\ context \in [Channel -> Seq(Entry)] /\ log \in [Channel -> Seq(Logged)]
        /\ \A c \in Channel : BufferOf(context[c], log[c])

\* At first there is nothing to show.
LEMMA InitBuffers == IntakeAssumption /\ Init => BInv
<1> SUFFICES ASSUME IntakeAssumption, Init, NEW c \in Channel PROVE BufferOf(context[c], log[c])
  <2>1. Init => context \in [Channel -> Seq(Entry)] /\ log \in [Channel -> Seq(Logged)]
    BY DEF Init
  <2> QED
    BY <2>1 DEF BInv
<1>1. context[c] = <<>> /\ log[c] = <<>> /\ Capacity \in Nat
  BY DEF Init, IntakeAssumption
<1>2. Newest(<<>>, <<>>)
  <2>1. <<>> \in [DOMAIN <<>> -> DOMAIN <<>>]
    OBVIOUS
  <2>2. Shows(<<>>, <<>>, <<>>)
    BY DEF Shows
  <2>3. \A i \in DOMAIN <<>> : FALSE
    OBVIOUS
  <2> QED
    BY <2>1, <2>2, <2>3 DEF Newest
<1> QED
  BY <1>1, <1>2 DEF BufferOf

\* What is gone when time passes stays gone.
LEMMA NewestLater ==
    ASSUME IntakeAssumption, clock \in Nat, clock' \in Nat, clock <= clock',
           NEW b, NEW L \in Seq(Logged), Newest(b, L)
    PROVE  Newest(b, L)'
<1>1. PICK m \in [DOMAIN b -> DOMAIN L] :
        Shows(m, b, L) /\ \A i \in DOMAIN L : i \in Range(m) \/ Gone(L, i)
  BY DEF Newest
<1>2. ASSUME NEW i \in DOMAIN L, Gone(L, i) PROVE Gone(L, i)'
  <2>2. L[i] \in Logged /\ MaxTime \in Nat /\ Retention \in Nat
    BY DEF IntakeAssumption
  <2>1. L[i].at \in Nat /\ Retention \in Nat
    BY <2>2 DEF Logged
  <2>3. CASE L[i].at < clock - Retention
    <3>1. L[i].at < clock' - Retention
      BY <2>1, <2>3, OlderLater, Zenon
    <3> QED
      BY <3>1 DEF Gone
  <2>4. CASE L[i].by = None \/ Len(L) - i >= Capacity
    BY <2>4 DEF Gone
  <2> QED
    BY <1>2, <2>3, <2>4 DEF Gone
<1> QED
  BY <1>1, <1>2 DEF Newest, Shows

\* A step that changes the buffer and the log of one channel, or neither.
LEMMA BufferChanges ==
    ASSUME BInv, NEW c \in Channel, NEW buffer, NEW said,
           context' = [context EXCEPT ![c] = buffer], log' = [log EXCEPT ![c] = said],
           clock' = clock, BufferOf(buffer, said)
    PROVE  BInv'
<1>1. context' \in [Channel -> Seq(Entry)] /\ log' \in [Channel -> Seq(Logged)]
  BY DEF BInv, BufferOf
<1>2. ASSUME NEW x \in Channel PROVE BufferOf(context'[x], log'[x])
  BY <1>2 DEF BInv
<1>3. \A x \in Channel : BufferOf(context[x], log[x])'
  BY <1>2 DEF BufferOf, Newest, Shows, Gone
<1> QED
  BY <1>1, <1>3 DEF BInv

\* The buffer of a delivery's channel takes its message.
LEMMA AppendBuffers ==
    ASSUME IntakeAssumption, IInv, BInv, NEW d \in Delivery, AppendContext(d)
    PROVE  BInv'
<1>1. PICK c \in Channel, b \in Seq(Entry), L \in Seq(Logged) :
        /\ c = Msg(d).chan /\ b = context[c] /\ L = log[c]
        /\ Len(b) <= Capacity /\ Newest(b, L) /\ Msg(d).author \in Author
  <2>1. Msg(d) \in Kind
    BY Prior DEF Task, Msg
  <2>2. Msg(d).chan \in Channel /\ Msg(d).author \in Author
    BY <2>1 DEF IntakeAssumption, Author
  <2> QED
    BY <2>2 DEF BInv, BufferOf
<1>2. PICK e \in Entry : e = Own(d)
  <2>1. task[d].id \in Delivery /\ clock \in 0..MaxTime
    BY Prior DEF AppendContext, at, IInv, TableTypes
  <2> QED
    BY <1>1, <2>1 DEF Entry, Own
<1>3. /\ context' = [context EXCEPT ![c] = Pushed(b, e)]
      /\ log' = [log EXCEPT ![c] = Append(L, e)] /\ clock' = clock
  BY <1>1, <1>2 DEF AppendContext, BInv
<1>4. e \in Logged
  BY DEF Entry, Logged
<1>5. clock \in 0..MaxTime
  BY DEF IInv, TableTypes
<1>6. BufferOf(Pushed(b, e), Append(L, e))
  BY <1>1, <1>2, <1>4, <1>5, PushNewest, AppendProperties DEF BufferOf
<1> QED
  BY <1>3, <1>6, BufferChanges

\* A buffer that is looked into loses what is too old.
LEMMA ExpireBuffers ==
    ASSUME IntakeAssumption, IInv, BInv, NEW c \in Channel,
           context' = [context EXCEPT ![c] = Expire(context[c])], UNCHANGED <<clock, log>>
    PROVE  BInv'
<1>1. PICK b \in Seq(Entry), L \in Seq(Logged) :
        b = context[c] /\ L = log[c] /\ Len(b) <= Capacity /\ Newest(b, L)
  BY DEF BInv, BufferOf
<1>2. log' = [log EXCEPT ![c] = L]
  BY <1>1 DEF BInv
<1>3. clock \in 0..MaxTime /\ Capacity \in Nat
  BY DEF IInv, TableTypes, IntakeAssumption
<1>4. Expire(b) \in Seq(Entry) /\ Len(Expire(b)) <= Len(b)
  BY ExpireIsEnd
<1>5. Newest(Expire(b), L)
  BY <1>1, <1>3, ExpireNewest
<1>6. Len(Expire(b)) <= Capacity
  <2>1. Len(b) \in Nat /\ Len(Expire(b)) \in Nat
    BY <1>4
  <2> QED
    BY <1>1, <1>3, <1>4, <2>1
<1>7. BufferOf(Expire(b), L)
  BY <1>1, <1>4, <1>5, <1>6 DEF BufferOf
<1> QED
  BY <1>1, <1>2, <1>7, BufferChanges

\* An erase takes a user's messages from every buffer.
LEMMA EraseBuffers ==
    ASSUME IntakeAssumption, BInv, NEW u \in User, RemoveUserEntries(u)
    PROVE  BInv'
<1>1. /\ context' = [c \in Channel |-> Without(context[c], u)]
      /\ log' = [c \in Channel |-> Erased(log[c], u)] /\ clock' = clock
  BY DEF RemoveUserEntries, Erased
<1>2. ASSUME NEW c \in Channel PROVE BufferOf(context'[c], log'[c])
  <2>1. PICK b \in Seq(Entry), L \in Seq(Logged) :
          b = context[c] /\ L = log[c] /\ Len(b) <= Capacity /\ Newest(b, L)
    BY DEF BInv, BufferOf
  <2>2. /\ Without(b, u) \in Seq(Entry) /\ Len(Without(b, u)) <= Len(b)
        /\ Erased(L, u) \in Seq(Logged) /\ Newest(Without(b, u), Erased(L, u))
    BY <2>1, EraseNewest
  <2>3. Len(b) \in Nat /\ Len(Without(b, u)) \in Nat /\ Capacity \in Nat
    BY <2>1, <2>2 DEF IntakeAssumption
  <2>4. Len(Without(b, u)) <= Capacity
    BY <2>1, <2>2, <2>3
  <2> QED
    BY <1>1, <2>1, <2>2, <2>4 DEF BufferOf
<1>5. clock' = clock
  BY <1>1
<1>3. \A c \in Channel : BufferOf(context[c], log[c])'
  BY <1>2, <1>5 DEF BufferOf, Newest, Shows, Gone
<1>4. context' \in [Channel -> Seq(Entry)] /\ log' \in [Channel -> Seq(Logged)]
  BY <1>1, <1>2 DEF BufferOf
<1> QED
  BY <1>3, <1>4 DEF BInv

\* Time and the other steps leave every buffer the newest.
LEMMA TimeBuffers ==
    ASSUME IntakeAssumption, BInv, UNCHANGED <<context, log>>, clock \in Nat, clock' \in Nat, clock <= clock'
    PROVE  BInv'
<1>1. ASSUME NEW c \in Channel PROVE BufferOf(context[c], log[c])'
  <2>1. PICK b, L : b = context[c] /\ L = log[c] /\ BufferOf(b, L)
    BY DEF BInv
  <2>2. Newest(b, L)'
    BY <2>1, NewestLater DEF BufferOf
  <2>3. BufferOf(b, L)'
    BY <2>1, <2>2 DEF BufferOf
  <2>4. b = context'[c] /\ L = log'[c]
    BY <2>1
  <2> QED
    BY ONLY <2>3, <2>4 DEF BufferOf, Newest, Shows, Gone
<1> QED
  BY <1>1 DEF BInv

\* Every step keeps every buffer the newest of what was said.
LEMMA StepBuffers == IntakeAssumption /\ IInv /\ BInv /\ [Next]_vars => BInv'
<1> SUFFICES ASSUME IntakeAssumption, IInv, BInv, [Next]_vars PROVE BInv'
  OBVIOUS
<1>1. clock \in Nat /\ clock <= clock
  BY Prior
<1>2. ASSUME NEW d \in Delivery, Deliver(d) PROVE BInv'
  BY <1>1, <1>2, TimeBuffers DEF Deliver, buffers
<1>3. ASSUME NEW d \in Delivery, AppendContext(d) PROVE BInv'
  BY <1>3, AppendBuffers
<1>4. ASSUME NEW d \in Delivery, TakeRecent(d) PROVE BInv'
  <2>1. Msg(d) \in Kind
    BY Prior DEF Task, Msg
  <2>2. Msg(d).chan \in Channel
    BY <2>1 DEF IntakeAssumption
  <2> QED
    BY <1>4, <2>2, ExpireBuffers DEF TakeRecent, BInv
<1>5. ASSUME NEW d \in Delivery,
             \/ Look(d) \/ Seen(d) \/ ClassifyProactive(d) \/ LimitChat(d)
             \/ ClassifyPing(d) \/ RunTurn(d) \/ Forget(d) \/ Record(d)
      PROVE  BInv'
  <2>1. UNCHANGED <<context, log>> /\ clock' = clock
    BY <1>5 DEF Look, Seen, ClassifyProactive, LimitChat, ClassifyPing, RunTurn, Forget, Record, buffers
  <2> QED
    BY <1>1, <2>1, TimeBuffers
<1>6. ASSUME NEW u \in User, RemoveUserEntries(u) PROVE BInv'
  BY <1>6, EraseBuffers
<1>7. ASSUME NEW c \in Channel, Consult(c) PROVE BInv'
  BY <1>7, ExpireBuffers DEF Consult, BInv
<1>8. ASSUME NEW c \in Channel, NEW u \in User, LeaveConversation(c, u) PROVE BInv'
  BY <1>1, <1>8, TimeBuffers DEF LeaveConversation, buffers
<1>9. CASE Tick
  <2>1. clock' \in Nat /\ clock <= clock' /\ UNCHANGED <<context, log>>
    BY <1>1, <1>9 DEF Tick, buffers
  <2> QED
    BY <1>1, <2>1, TimeBuffers
<1>10. CASE UNCHANGED vars
  BY <1>1, <1>10, TimeBuffers DEF vars, buffers
<1> QED
  BY <1>2, <1>3, <1>4, <1>5, <1>6, <1>7, <1>8, <1>9, <1>10 DEF Next, Handle

\* The inductive invariant of the channels' buffers.
THEOREM BufferInvariant == Spec => []BInv
  BY IntakeAssumption, InitBuffers, IntakeInvariant, StepBuffers, PTL DEF Spec

\* The buffer of every channel is the newest of what was said there and not
\* erased, whatever expires, is erased, looked into or pushed out.
THEOREM BufferIsNewest == Spec => []ContextIsNewest
<1>1. BInv => ContextIsNewest
  BY DEF BInv, BufferOf, Newest, ContextIsNewest
<1> QED
  BY <1>1, BufferInvariant, PTL

-----------------------------------------------------------------------------
(* The copies that the classifier is shown.                                *)

\* A log that goes on: what was said keeps its id and its time, and what was
\* erased stays erased.
GoesOn(L, M) ==
    /\ Len(L) <= Len(M)
    /\ \A i \in DOMAIN L : /\ M[i].id = L[i].id /\ M[i].at = L[i].at
                           /\ L[i].by = None => M[i].by = None

\* What the last of a copy may be, for the task of a message id.
LastIsFit(v, id, said) ==
    LET last == Last(v.recent)
    IN  \/ last.id = id
        \/ \E i \in (v.mine + 1)..v.upto : said[i].id = last.id /\ said[i].at = last.at
        \/ said[v.mine].by = None
Fit(v, id, said) ==
    /\ v.mine \in DOMAIN said /\ v.upto \in 0..Len(said)
    /\ LastIsFit(v, id, said)

\* A task that waits to copy knows its message in the log; a copy ends fitly.
ViewOK(t, v, said) ==
    /\ t.pc \in {"unborn", "append", "recent"} => v.recent = <<>>
    /\ t.pc = "recent" => v.mine \in DOMAIN said /\ said[v.mine].id = t.id
    /\ v.recent # <<>> => Fit(v, t.id, said)
VInv == /\ view \in [Delivery -> View]
        /\ \A d \in Delivery : ViewOK(task[d], view[d], log[Msg(d).chan])

\* A copy that is fit stays so.
LEMMA FitLater ==
    ASSUME NEW v, v.mine \in Nat, v.upto \in Nat, NEW id, NEW L \in Seq(Logged), NEW M \in Seq(Logged),
           GoesOn(L, M), Fit(v, id, L)
    PROVE  Fit(v, id, M)
<1>1. DOMAIN L = 1..Len(L) /\ DOMAIN M = 1..Len(M) /\ Len(L) \in Nat /\ Len(M) \in Nat /\ Len(L) <= Len(M)
  BY DEF GoesOn
<1>2. \A i \in DOMAIN L : M[i].id = L[i].id /\ M[i].at = L[i].at /\ (L[i].by = None => M[i].by = None)
  BY DEF GoesOn
<1>3. \A i \in (v.mine + 1)..v.upto : i \in DOMAIN L
  BY <1>1 DEF Fit
<1>4. v.mine \in DOMAIN M /\ v.upto \in 0..Len(M)
  BY <1>1 DEF Fit
<1>5. LastIsFit(v, id, M)
  BY <1>2, <1>3 DEF Fit, LastIsFit
<1> QED
  BY <1>4, <1>5 DEF Fit

\* A task whose view stays and whose message is the same stays right if it does
\* not come to the copying.
LEMMA ViewLater ==
    ASSUME NEW t, NEW u, NEW v \in View, NEW L \in Seq(Logged), NEW M \in Seq(Logged), GoesOn(L, M),
           ViewOK(t, v, L), u.id = t.id \/ t.pc = "unborn",
           u.pc \in {"unborn", "append", "recent"} => t.pc \in {"unborn", "append", "recent"},
           u.pc = "recent" => t.pc = "recent" /\ u.id = t.id
    PROVE  ViewOK(u, v, M)
<1>1. v.mine \in Nat /\ v.upto \in Nat
  BY DEF View
<1>2. v.recent # <<>> => Fit(v, u.id, M)
  BY <1>1, FitLater DEF ViewOK
<1>3. DOMAIN L \subseteq DOMAIN M
  BY DEF GoesOn
<1> QED
  BY <1>2, <1>3 DEF ViewOK, GoesOn


\* The last that a buffer shows is a task's own message or came after it, if the
\* message was not erased.
LEMMA LastShown ==
    ASSUME NEW b \in Seq(Entry), b # <<>>, NEW L \in Seq(Logged), Newest(b, L),
           NEW mine \in DOMAIN L, L[mine].by # None
    PROVE  \E j \in mine..Len(L) : Last(b) = L[j]
<1>1. PICK m \in [DOMAIN b -> DOMAIN L] : Shows(m, b, L)
  BY DEF Newest
<1>2. PICK n \in Nat, l \in Nat : n = Len(b) /\ l = Len(L) /\ DOMAIN b = 1..n /\ DOMAIN L = 1..l
  OBVIOUS
<1>3. n \in 1..n /\ mine \in 1..l /\ m \in [1..n -> 1..l]
  BY <1>1, <1>2
<1>4. PICK j \in 1..l : j = m[n]
  BY <1>3
<1>5. Last(b) = L[j]
  BY <1>1, <1>2, <1>3, <1>4 DEF Last, Shows
<1>6. ~(j < mine)
  <2> SUFFICES ASSUME j < mine PROVE FALSE
    OBVIOUS
  <2>1. mine \in Range(m) \/ mine < m[n]
    BY <1>1, <1>2, <1>3 DEF Shows
  <2>2. ~(mine < m[n])
    BY <1>3, <1>4
  <2>3. PICK k \in 1..n : m[k] = mine
    BY <1>3, <2>1, <2>2 DEF Range
  <2>4. k = n \/ k < n
    OBVIOUS
  <2>5. k < n => m[k] < m[n]
    BY <1>1, <1>2, <1>3 DEF Shows
  <2> QED
    BY <1>3, <1>4, <2>3, <2>4, <2>5
<1> QED
  BY <1>2, <1>3, <1>4, <1>5, <1>6

\* recent takes an end of the buffer, not empty if the buffer is not.
LEMMA LatestIsEnd ==
    ASSUME IntakeAssumption, NEW b \in Seq(Entry)
    PROVE  /\ Latest(b) \in Seq(Entry)
           /\ Latest(b) # <<>> => b # <<>> /\ Last(Latest(b)) = Last(b)
<1>1. PICK n \in Nat, k \in Nat \ {0} : n = Len(b) /\ k = ContextMessages
  BY DEF IntakeAssumption
<1>2. CASE n = 0
  <2>1. Latest(b) = SubSeq(b, 1, 0)
    BY <1>1, <1>2 DEF Latest
  <2>2. SubSeq(b, 1, 0) = <<>>
    OBVIOUS
  <2> QED
    BY <2>1, <2>2
<1>3. CASE n # 0
  <2>1. PICK x \in 1..n : x = IF n > k THEN n - k + 1 ELSE 1
    <3>1. CASE n > k
      <4>1. n - k + 1 \in 1..n
        BY <3>1
      <4> QED
        BY <3>1, <4>1
    <3>2. CASE ~(n > k)
      <4>1. 1 \in 1..n
        BY <1>3
      <4> QED
        BY <3>2, <4>1
    <3> QED
      BY <3>1, <3>2
  <2>2. Latest(b) = SubSeq(b, x, n)
    BY <1>1, <2>1 DEF Latest
  <2>3. /\ SubSeq(b, x, n) \in Seq(Entry) /\ Len(SubSeq(b, x, n)) = n - x + 1
        /\ \A i \in 1..(n - x + 1) : SubSeq(b, x, n)[i] = b[x + i - 1]
    <3>1. x \in 1..Len(b)
      BY <1>1, <2>1
    <3>2. /\ SubSeq(b, x, Len(b)) \in Seq(Entry)
          /\ Len(SubSeq(b, x, Len(b))) = Len(b) - x + 1
          /\ \A i \in 1..(Len(b) - x + 1) : SubSeq(b, x, Len(b))[i] = b[x + i - 1]
      BY <3>1
    <3> QED
      BY <1>1, <3>2
  <2>4. n - x + 1 \in 1..(n - x + 1) /\ x + (n - x + 1) - 1 = n
    BY <2>1
  <2>5. Last(Latest(b)) = b[n]
    BY <2>2, <2>3, <2>4 DEF Last
  <2> QED
    BY <1>1, <1>3, <2>2, <2>3, <2>5 DEF Last
<1> QED
  BY <1>2, <1>3

\* Every step lets every log go on.
LEMMA LogsGoOn ==
    ASSUME IntakeAssumption, IInv, BInv, [Next]_vars
    PROVE  \A c \in Channel : log'[c] \in Seq(Logged) /\ GoesOn(log[c], log'[c])
<1>1. BInv'
  BY StepBuffers
<1> SUFFICES ASSUME NEW c \in Channel PROVE GoesOn(log[c], log'[c])
  BY <1>1 DEF BInv
<1>2. PICK L \in Seq(Logged) : L = log[c]
  BY DEF BInv
<1>3. GoesOn(L, L)
  BY DEF GoesOn
<1>4. ASSUME NEW d \in Delivery, AppendContext(d) PROVE GoesOn(log[c], log'[c])
  <2>1. CASE c # Msg(d).chan
    <3>1. log'[c] = log[c]
      BY <1>4, <2>1 DEF AppendContext, BInv
    <3> QED
      BY <1>2, <1>3, <3>1
  <2>2. CASE c = Msg(d).chan
    <3>1. log'[c] = Append(L, Own(d))
      BY <1>2, <1>4, <2>2 DEF AppendContext, BInv
    <3>2. Len(Append(L, Own(d))) = Len(L) + 1 /\ \A i \in 1..Len(L) : Append(L, Own(d))[i] = L[i]
      OBVIOUS
    <3>3. GoesOn(L, Append(L, Own(d)))
      BY <3>2 DEF GoesOn
    <3> QED
      BY <1>2, <3>1, <3>3
  <2> QED
    BY <2>1, <2>2
<1>5. ASSUME NEW u \in User, RemoveUserEntries(u) PROVE GoesOn(log[c], log'[c])
  <2>1. log'[c] = Erased(L, u)
    BY <1>2, <1>5 DEF RemoveUserEntries, Erased
  <2>2. PICK M : M = Erased(L, u)
    OBVIOUS
  <2>3. M = [i \in 1..Len(L) |-> [L[i] EXCEPT !.by = IF @ = u THEN None ELSE @]]
    BY <2>2 DEF Erased
  <2>4. None # u
    BY DEF IntakeAssumption
  <2>5. ASSUME NEW i \in 1..Len(L)
        PROVE  M[i].id = L[i].id /\ M[i].at = L[i].at /\ (L[i].by = None => M[i].by = None)
    <3>1. L[i] \in Logged
      BY ElementOfSeq
    <3>2. M[i] = [L[i] EXCEPT !.by = IF @ = u THEN None ELSE @]
      BY <2>3
    <3> QED
      BY <2>4, <3>1, <3>2 DEF Logged
  <2>6. Len(M) = Len(L)
    <3>1. M \in Seq(Logged)
      BY <1>1, <2>1, <2>2 DEF BInv
    <3>2. DOMAIN M = 1..Len(M) /\ DOMAIN M = 1..Len(L)
      BY <2>3, <3>1
    <3> QED
      BY <3>1, <3>2
  <2> QED
    BY <1>2, <2>1, <2>2, <2>5, <2>6 DEF GoesOn
<1>6. CASE log' = log
  BY <1>2, <1>3, <1>6
<1> QED
  BY <1>4, <1>5, <1>6 DEF Next, Handle, Deliver, TakeRecent, Look, Seen, ClassifyProactive, LimitChat,
     ClassifyPing, RunTurn, Forget, Record, LeaveConversation, Consult, Tick, vars, buffers

\* At first there is no copy.
LEMMA InitViews == IntakeAssumption /\ Init => VInv
<1> SUFFICES ASSUME IntakeAssumption, Init PROVE VInv
  OBVIOUS
<1>1. NoView \in View
  BY DEF NoView, View
<1>2. \A d \in Delivery : view[d] = NoView /\ task[d] = Unborn
  BY DEF Init
<1> QED
  BY <1>1, <1>2 DEF Init, VInv, ViewOK, NoView, Unborn

\* The channel of a task's message.
LEMMA ItsChannel ==
    ASSUME IntakeAssumption, IInv, NEW d \in Delivery
    PROVE  task[d] \in Task /\ Msg(d) \in Kind /\ Msg(d).chan \in Channel
<1>1. task[d] \in Task /\ Msg(d) \in Kind
  BY Prior DEF Task, Msg
<1> QED
  BY <1>1 DEF IntakeAssumption

\* A step of one task is right if that task is.
LEMMA TaskView ==
    ASSUME IntakeAssumption, IInv, BInv, VInv, [Next]_vars,
           NEW d \in Delivery, NEW r \in Task, task' = [task EXCEPT ![d] = r],
           NEW w \in View, view' = [view EXCEPT ![d] = w], ViewOK(r, w, log'[r.m.chan])
    PROVE  VInv'
<1>1. view' \in [Delivery -> View]
  BY DEF VInv
<1>2. task'[d] = r /\ \A e \in Delivery : e # d => task'[e] = task[e]
  BY TaskChanges DEF IInv
<1>3. view'[d] = w /\ \A e \in Delivery : e # d => view'[e] = view[e]
  BY DEF VInv
<1>4. ASSUME NEW e \in Delivery, e # d PROVE ViewOK(task'[e], view'[e], log'[task'[e].m.chan])
  <2>1. PICK c \in Channel : c = Msg(e).chan
    BY ItsChannel
  <2>2. log[c] \in Seq(Logged) /\ log'[c] \in Seq(Logged) /\ GoesOn(log[c], log'[c])
    BY LogsGoOn DEF BInv
  <2>3. ViewOK(task[e], view[e], log[c]) /\ view[e] \in View
    BY <2>1 DEF VInv
  <2>4. ViewOK(task[e], view[e], log'[c])
    BY <2>2, <2>3, ViewLater
  <2> QED
    BY <1>2, <1>3, <1>4, <2>1, <2>4 DEF Msg
<1>5. ViewOK(task'[d], view'[d], log'[task'[d].m.chan])
  BY <1>2, <1>3
<1>6. \A e \in Delivery : ViewOK(task'[e], view'[e], log'[task'[e].m.chan])
  BY <1>4, <1>5
<1> QED
  BY <1>1, <1>6 DEF VInv, ViewOK, Msg, Fit, LastIsFit

\* A step that copies nothing.
LEMMA SameView ==
    ASSUME IntakeAssumption, IInv, BInv, VInv, [Next]_vars,
           NEW d \in Delivery, task[d].pc \notin {"unborn", "append", "recent"},
           NEW r \in Task, task' = [task EXCEPT ![d] = r], r.id = task[d].id, r.m = Msg(d),
           r.pc \notin {"unborn", "append", "recent"}, view' = view
    PROVE  VInv'
<1>1. PICK c \in Channel : c = Msg(d).chan
  BY ItsChannel
<1>2. log[c] \in Seq(Logged) /\ log'[c] \in Seq(Logged) /\ GoesOn(log[c], log'[c])
  BY LogsGoOn DEF BInv
<1>3. ViewOK(task[d], view[d], log[c]) /\ view[d] \in View
  BY <1>1 DEF VInv
<1>4. ViewOK(r, view[d], log'[c])
  BY <1>2, <1>3, ViewLater
<1>5. view' = [view EXCEPT ![d] = view[d]]
  BY DEF VInv
<1> QED
  BY <1>1, <1>3, <1>4, <1>5, TaskView

\* Going on, or answering, copies nothing.
LEMMA GoneOnView ==
    ASSUME IntakeAssumption, IInv, BInv, VInv, [Next]_vars,
           NEW d \in Delivery, task[d].pc \notin {"unborn", "append", "recent"}, view' = view,
           \/ \E pc \in {"seen", "proactive", "limit", "ping", "turn", "forget", "record", "done", "dropped"} :
                 Goto(d, pc)
           \/ \E what \in {"notice", "reaction", "reply"} : Say(d, what, "forget")
    PROVE  VInv'
<1>1. task[d] \in Task
  BY ItsChannel
<1>2. ASSUME NEW pc \in {"seen", "proactive", "limit", "ping", "turn", "forget", "record", "done", "dropped"},
             Goto(d, pc)
      PROVE  VInv'
  <2>3. pc \in {"append", "recent", "look", "seen", "proactive", "limit", "ping", "turn", "forget",
                "record", "done", "dropped"}
    OBVIOUS
  <2>4. [task[d] EXCEPT !.pc = pc] \in Task /\ task' = [task EXCEPT ![d] = [task[d] EXCEPT !.pc = pc]]
    BY <1>2, <2>3, GotoType DEF IInv
  <2>1. PICK r \in Task : r = [task[d] EXCEPT !.pc = pc] /\ task' = [task EXCEPT ![d] = r]
    BY <2>4
  <2>2. r.pc = pc /\ r.id = task[d].id /\ r.m = Msg(d)
    BY <1>1, <2>1 DEF Task, Msg
  <2> QED
    BY <2>1, <2>2, SameView
<1>3. ASSUME NEW what \in {"notice", "reaction", "reply"}, Say(d, what, "forget") PROVE VInv'
  <2>1. PICK r \in Task : /\ r = [task[d] EXCEPT !.pc = "forget", !.said = what, !.mode = "none"]
                          /\ task' = [task EXCEPT ![d] = r]
    BY <1>3, SayType DEF IInv
  <2>2. r.pc = "forget" /\ r.id = task[d].id /\ r.m = Msg(d)
    BY <1>1, <2>1 DEF Task, Msg
  <2> QED
    BY <2>1, <2>2, SameView
<1> QED
  BY <1>2, <1>3

\* A task begins without a copy.
LEMMA DeliverView ==
    ASSUME IntakeAssumption, IInv, BInv, VInv, [Next]_vars, NEW d \in Delivery, Deliver(d)
    PROVE  VInv'
<1>1. task[d].pc = "unborn" /\ view' = view
  BY DEF Deliver, at, buffers
<1>2. \E id \in Delivery, k \in Kind : Triage(d, id, k)
  BY ItsChannel DEF Deliver
<1>3. PICK r \in Task : task' = [task EXCEPT ![d] = r] /\ r.pc \in {"dropped", "append", "look"}
  BY <1>2, TriageType DEF IInv
<1>4. view[d] \in View /\ view[d].recent = <<>> /\ view' = [view EXCEPT ![d] = view[d]]
  BY <1>1 DEF VInv, ViewOK
<1>5. ViewOK(r, view[d], log'[r.m.chan])
  BY <1>3, <1>4 DEF ViewOK
<1> QED
  BY <1>3, <1>4, <1>5, TaskView

\* A task notes where its message stands.
LEMMA AppendView ==
    ASSUME IntakeAssumption, IInv, BInv, VInv, [Next]_vars, NEW d \in Delivery, AppendContext(d)
    PROVE  VInv'
<1>1. PICK c \in Channel, L \in Seq(Logged) : c = Msg(d).chan /\ L = log[c]
  BY ItsChannel DEF BInv
<1>2. task[d].pc = "append" /\ view[d] \in View /\ view[d].recent = <<>> /\ task[d] \in Task
  BY ItsChannel DEF AppendContext, at, VInv, ViewOK
<1>3. PICK r \in Task : r = [task[d] EXCEPT !.pc = "recent"] /\ task' = [task EXCEPT ![d] = r]
  BY GotoType DEF IInv, AppendContext
<1>4. r.pc = "recent" /\ r.id = task[d].id /\ r.m = Msg(d)
  BY <1>2, <1>3 DEF Task, Msg
<1>5. PICK w : w = [view[d] EXCEPT !.mine = Len(L) + 1]
  OBVIOUS
<1>6. w \in View /\ w.recent = <<>> /\ w.mine = Len(L) + 1
  <2>1. PICK v \in View, k \in Nat : v = view[d] /\ k = Len(L) + 1 /\ v.recent = <<>>
    BY <1>2
  <2>2. w = [v EXCEPT !.mine = k]
    BY <1>5, <2>1
  <2> QED
    BY <2>1, <2>2 DEF View
<1>7. view' = [view EXCEPT ![d] = w]
  BY <1>1, <1>5 DEF AppendContext, VInv
<1>8. log'[c] = Append(L, Own(d)) /\ Own(d).id = task[d].id
  BY <1>1 DEF AppendContext, BInv, Own
<1>9. Len(L) + 1 \in DOMAIN Append(L, Own(d)) /\ Append(L, Own(d))[Len(L) + 1] = Own(d)
  OBVIOUS
<1>10. ViewOK(r, w, log'[c])
  BY <1>4, <1>6, <1>8, <1>9 DEF ViewOK
<1> QED
  BY <1>1, <1>3, <1>4, <1>6, <1>7, <1>10, TaskView

\* The copy ends with the task's message, a later one, or an older one if the
\* message was erased.
LEMMA TakeView ==
    ASSUME IntakeAssumption, IInv, BInv, VInv, [Next]_vars, NEW d \in Delivery, TakeRecent(d)
    PROVE  VInv'
<1>1. PICK c \in Channel, L \in Seq(Logged), b \in Seq(Entry) :
        c = Msg(d).chan /\ L = log[c] /\ b = context[c] /\ Newest(b, L)
  BY ItsChannel DEF BInv, BufferOf
<1>2. PICK mine \in DOMAIN L : mine = view[d].mine /\ L[mine].id = task[d].id
  BY <1>1 DEF TakeRecent, at, VInv, ViewOK
<1>3. task[d] \in Task /\ view[d] \in View
  BY ItsChannel DEF VInv
<1>4. PICK r \in Task : r = [task[d] EXCEPT !.pc = "look"] /\ task' = [task EXCEPT ![d] = r]
  BY GotoType DEF IInv, TakeRecent
<1>5. r.pc = "look" /\ r.id = task[d].id /\ r.m = Msg(d)
  BY <1>3, <1>4 DEF Task, Msg
<1>6. PICK e \in Seq(Entry) : e = Expire(b) /\ Newest(e, L)
  <2>1. clock \in 0..MaxTime
    BY DEF IInv, TableTypes
  <2> QED
    BY <1>1, <2>1, ExpireIsEnd, ExpireNewest
<1>7. PICK t \in Seq(Entry) : t = Latest(e) /\ (t # <<>> => e # <<>> /\ Last(t) = Last(e))
  BY LatestIsEnd
<1>8. PICK w : w = [view[d] EXCEPT !.recent = t, !.upto = Len(L)]
  OBVIOUS
<1>9. w \in View /\ w.recent = t /\ w.mine = mine /\ w.upto = Len(L)
  <2>1. PICK v \in View, k \in Nat : v = view[d] /\ k = Len(L) /\ v.mine = mine
    BY <1>2, <1>3
  <2>2. w = [v EXCEPT !.recent = t, !.upto = k]
    BY <1>8, <2>1
  <2> QED
    BY <2>1, <2>2 DEF View
<1>10. view' = [view EXCEPT ![d] = w]
  BY <1>1, <1>6, <1>7, <1>8 DEF TakeRecent, VInv
<1>11. ASSUME t # <<>> PROVE LastIsFit(w, r.id, L)
  <2>1. CASE L[mine].by = None
    BY <1>9, <2>1 DEF LastIsFit
  <2>2. CASE L[mine].by # None
    <3>1. PICK j \in mine..Len(L) : Last(e) = L[j]
      BY <1>6, <1>7, <1>11, <2>2, LastShown
    <3>2. j = mine \/ j \in (mine + 1)..Len(L)
      <4>1. mine \in Nat /\ Len(L) \in Nat
        OBVIOUS
      <4> QED
        BY <4>1
    <3>3. Last(t) = L[j]
      BY <1>7, <1>11, <3>1
    <3> QED
      BY <1>2, <1>5, <1>9, <3>2, <3>3 DEF LastIsFit
  <2> QED
    BY <2>1, <2>2
<1>12. log'[c] = L
  BY <1>1 DEF TakeRecent
<1>13. Len(L) \in 0..Len(L)
  OBVIOUS
<1>14. ViewOK(r, w, log'[c])
  BY <1>5, <1>9, <1>11, <1>12, <1>13 DEF ViewOK, Fit
<1> QED
  BY <1>1, <1>4, <1>5, <1>9, <1>10, <1>14, TaskView

\* Looking keeps the copy or drops it.
LEMMA LookView ==
    ASSUME IntakeAssumption, IInv, BInv, VInv, [Next]_vars, NEW d \in Delivery, Look(d)
    PROVE  VInv'
<1>1. PICK c \in Channel : c = Msg(d).chan
  BY ItsChannel
<1>2. task[d].pc = "look" /\ task[d] \in Task /\ log' = log /\ view[d] \in View
  BY ItsChannel DEF Look, at, VInv
<1>3. \E r \in Task : /\ task' = [task EXCEPT ![d] = r] /\ r.id = task[d].id /\ r.m = Msg(d)
                      /\ r.pc \in {"seen", "dropped"}
  <2>1. CASE task' = [task EXCEPT ![d].pc = "dropped"]
    <3>1. PICK r \in Task : r = [task[d] EXCEPT !.pc = "dropped"] /\ task' = [task EXCEPT ![d] = r]
      BY <2>1, GotoType DEF IInv, Goto
    <3> QED
      BY <1>2, <3>1 DEF Task, Msg
  <2>2. CASE task' = [task EXCEPT ![d].pc = "seen", ![d].mode = Mode(Msg(d))]
    <3>1. PICK r : r = [task[d] EXCEPT !.pc = "seen", !.mode = Mode(Msg(d))]
      OBVIOUS
    <3>2. Mode(Msg(d)) \in {"unprompted", "emoji", "full"}
      BY DEF Mode
    <3>3. r \in Task /\ r.id = task[d].id /\ r.m = Msg(d) /\ r.pc = "seen"
      BY <1>2, <3>1, <3>2 DEF Task, Msg
    <3>4. task' = [task EXCEPT ![d] = r]
      BY <2>2, <3>1 DEF IInv, TableTypes
    <3> QED
      BY <3>3, <3>4
  <2> QED
    BY <2>1, <2>2 DEF Look
<1>4. PICK r \in Task : /\ task' = [task EXCEPT ![d] = r] /\ r.id = task[d].id /\ r.m = Msg(d)
                        /\ r.pc \in {"seen", "dropped"}
  BY <1>3
<1>5. CASE view' = view
  BY <1>2, <1>4, <1>5, SameView
<1>6. CASE view' = [view EXCEPT ![d] = NoView]
  <2>1. NoView \in View /\ NoView.recent = <<>>
    BY DEF NoView, View
  <2>2. ViewOK(r, NoView, log'[r.m.chan])
    BY <1>4, <2>1 DEF ViewOK
  <2> QED
    BY <1>4, <1>6, <2>1, <2>2, TaskView
<1> QED
  BY <1>5, <1>6 DEF Look

\* Every step keeps every copy fit.
LEMMA StepViews == IntakeAssumption /\ IInv /\ BInv /\ VInv /\ [Next]_vars => VInv'
<1> SUFFICES ASSUME IntakeAssumption, IInv, BInv, VInv, [Next]_vars PROVE VInv'
  OBVIOUS
<1>1. ASSUME NEW d \in Delivery, Seen(d) \/ ClassifyProactive(d) PROVE VInv'
  <2>1. view' = view /\ task[d].pc \in {"seen", "proactive"}
    BY <1>1 DEF Seen, ClassifyProactive, at, buffers
  <2>2. \/ Goto(d, "dropped") \/ Goto(d, "proactive") \/ Goto(d, "limit") \/ Goto(d, "forget")
        \/ Say(d, "reaction", "forget")
    BY <1>1 DEF Seen, ClassifyProactive, React
  <2> QED
    BY <2>1, <2>2, GoneOnView
<1>2. ASSUME NEW d \in Delivery, LimitChat(d) \/ ClassifyPing(d) \/ RunTurn(d) PROVE VInv'
  <2>1. view' = view /\ task[d].pc \in {"limit", "ping", "turn"}
    BY <1>2 DEF LimitChat, ClassifyPing, RunTurn, at, buffers
  <2>2. \/ Goto(d, "forget") \/ Goto(d, "ping") \/ Goto(d, "turn")
        \/ \E what \in {"notice", "reaction", "reply"} : Say(d, what, "forget")
    BY <1>2 DEF LimitChat, ClassifyPing, RunTurn, React
  <2> QED
    BY <2>1, <2>2, GoneOnView
<1>3. ASSUME NEW d \in Delivery, Forget(d) \/ Record(d) PROVE VInv'
  <2>1. view' = view /\ task[d].pc \in {"forget", "record"} /\ (Goto(d, "record") \/ Goto(d, "done"))
    BY <1>3 DEF Forget, Record, at, buffers
  <2> QED
    BY <2>1, GoneOnView
<1>4. CASE UNCHANGED <<task, view>>
  <2>1. ASSUME NEW e \in Delivery PROVE ViewOK(task[e], view[e], log'[Msg(e).chan])
    <3>1. PICK c \in Channel : c = Msg(e).chan
      BY ItsChannel
    <3>2. log[c] \in Seq(Logged) /\ log'[c] \in Seq(Logged) /\ GoesOn(log[c], log'[c])
      BY LogsGoOn DEF BInv
    <3>3. ViewOK(task[e], view[e], log[c]) /\ view[e] \in View
      BY <3>1 DEF VInv
    <3>4. ViewOK(task[e], view[e], log'[c])
      BY <3>2, <3>3, ViewLater
    <3> QED
      BY <3>1, <3>4
  <2> QED
    BY <1>4, <2>1 DEF VInv, ViewOK, Msg, Fit, LastIsFit
<1> QED
  BY <1>1, <1>2, <1>3, <1>4, DeliverView, AppendView, TakeView, LookView
     DEF Next, Handle, LeaveConversation, RemoveUserEntries, Consult, Tick, vars, buffers

\* The invariant of the copies.
THEOREM ViewInvariant == Spec => []VInv
  BY IntakeAssumption, InitViews, IntakeInvariant, BufferInvariant, StepViews, PTL DEF Spec

\* The classifier judges the message it is asked about, or one that came while
\* the copy was taken, however many come before it is asked.
THEOREM RightOneJudged == Spec => []JudgesItsMessage
<1>1. IInv /\ BInv /\ VInv => JudgesItsMessage
  <2> SUFFICES ASSUME IInv, BInv, VInv, NEW d \in Delivery, task[d].pc \in {"proactive", "ping"}
               PROVE  LET v == view[d]
                          said == log[Msg(d).chan]
                      IN  \/ Judged(d).id = task[d].id
                          \/ \E i \in (v.mine + 1)..v.upto :
                                said[i].id = Judged(d).id /\ said[i].at = Judged(d).at
                          \/ v.mine > 0 /\ said[v.mine].by = None
    BY DEF JudgesItsMessage
  <2>1. CASE view[d].recent = <<>>
    BY <2>1 DEF Judged, ClassifierInput, Last, Own
  <2>2. CASE view[d].recent # <<>>
    <3>1. Fit(view[d], task[d].id, log[Msg(d).chan])
      BY <2>2 DEF VInv, ViewOK
    <3>2. Judged(d) = Last(view[d].recent)
      BY <2>2 DEF Judged, ClassifierInput
    <3>3. log[Msg(d).chan] \in Seq(Logged)
      BY IntakeAssumption, ItsChannel DEF BInv
    <3>4. view[d].mine > 0
      BY <3>1, <3>3 DEF Fit
    <3> QED
      BY <3>1, <3>2, <3>4 DEF Fit, LastIsFit
  <2> QED
    BY <2>1, <2>2
<1> QED
  BY <1>1, IntakeInvariant, BufferInvariant, ViewInvariant, PTL

\* Every table and buffer of the intake keeps its type, and what is bounded its
\* bound: the ids answered last and the entries of a channel.
THEOREM IntakeTyped == Spec => []TypeOK
<1>1. IInv /\ BInv /\ VInv => TypeOK
  BY DEF IInv, BInv, VInv, BufferOf, TypeOK, BufferTypes
<1> QED
  BY <1>1, IntakeInvariant, BufferInvariant, ViewInvariant, PTL
=============================================================================
