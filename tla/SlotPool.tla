------------------------------ MODULE SlotPool ------------------------------
(***************************************************************************)
(* What the LLM scheduler promises its callers, with no lock, no queue and *)
(* no counter: a request either holds a slot, waits for one, or is neither.*)
(* A slot is granted only below the ceiling, never to background work      *)
(* while a user-chat request waits, and a newcomer is served at once only  *)
(* when nobody is waiting.  LlmScheduler implements this specification.    *)
(***************************************************************************)
EXTENDS Naturals, FiniteSets

CONSTANTS ChatCalls,        \* requests a human is waiting for
          BackgroundCalls,  \* reminders and maintenance
          MaxCeiling        \* the largest ceiling a configurer sets

VARIABLES ceiling,    \* how many requests may execute
          waiting,    \* requests whose caller awaits a slot
          holding     \* requests that own a slot

poolVars == <<ceiling, waiting, holding>>

FreeSlot == Cardinality(holding) < ceiling

Init == /\ ceiling \in 1..MaxCeiling
        /\ waiting = {}
        /\ holding = {}

\* A request arrives: served at once when a slot is free, and then nobody
\* is waiting for it; otherwise it waits.
Arrive(r) ==
    /\ r \notin waiting \cup holding
    /\ \/ /\ FreeSlot /\ waiting = {}
          /\ holding' = holding \cup {r}
          /\ UNCHANGED waiting
       \/ /\ ~FreeSlot
          /\ waiting' = waiting \cup {r}
          /\ UNCHANGED holding
    /\ UNCHANGED ceiling

Grant(r) ==
    /\ r \in waiting
    /\ FreeSlot
    /\ r \in BackgroundCalls => waiting \cap ChatCalls = {}
    /\ waiting' = waiting \ {r}
    /\ holding' = holding \cup {r}
    /\ UNCHANGED ceiling

GiveUp(r) ==
    /\ r \in waiting
    /\ waiting' = waiting \ {r}
    /\ UNCHANGED <<ceiling, holding>>

Leave(r) ==
    /\ r \in holding
    /\ holding' = holding \ {r}
    /\ UNCHANGED <<ceiling, waiting>>

SetCeiling(n) ==
    /\ ceiling' = n
    /\ UNCHANGED <<waiting, holding>>

Next == \/ \E r \in ChatCalls \cup BackgroundCalls :
             \/ Arrive(r)
             \/ Grant(r)
             \/ GiveUp(r)
             \/ Leave(r)
        \/ \E n \in 1..MaxCeiling : SetCeiling(n)

Spec == Init /\ [][Next]_poolVars
=============================================================================
