-------------------------- MODULE MCMessageIntake --------------------------
\* The messages and channels of an instance: a direct message, a proactive
\* channel on the allowlist and a thread below it, a channel on the allowlist
\* that is not proactive, and one that is off the list.
EXTENDS MessageIntake, TLC

CONSTANTS u1, u2, bot1, bot2, dm, room, thread, den, hall,
          Instants   \* the times at which something happens

Deliveries == Permutations(Delivery)

MCParentOf == [c \in Channel |-> IF c = thread THEN room ELSE None]

said(who, where) == [author |-> who, chan |-> where, mention |-> FALSE, reply |-> FALSE,
                     attachment |-> FALSE, bare |-> FALSE, command |-> FALSE]
ping(who, where) == [said(who, where) EXCEPT !.mention = TRUE]
reply(who, where) == [said(who, where) EXCEPT !.reply = TRUE]
command(who, where) == [said(who, where) EXCEPT !.command = TRUE]

\* u2 and bot2 are silenced.
Talk == {ping(bot1, den), said(u1, den)}
MCKind == Talk \cup {said(u1, dm), said(u1, thread), reply(bot1, thread), ping(u2, room),
                    command(bot1, room), reply(bot2, room), said(bot1, dm), ping(u1, hall)}

\* Bounds: the clock leaps from one instant to the next, and a third message
\* comes to the talk in the den only, in which the bot is pinged once at most.
Bounded ==
    /\ clock' \in Instants
    /\ (\A d \in Delivery : task'[d].pc # "unborn") =>
          /\ \A d \in Delivery : task'[d].m \in Talk
          /\ \E d \in Delivery : \A e \in Delivery \ {d} : ~task'[e].m.mention
=============================================================================
