--------------------------- MODULE MessageIntake ---------------------------
(***************************************************************************)
(* What happens to a message before it becomes a turn: EventHandler::      *)
(* message (src/bot/handler.rs), the first half of handle_message and      *)
(* handle_proactive (message_flow.rs), the classifier (classify.rs), the   *)
(* trackers of src/bot/mod.rs, the channel buffer and the rate limiters.   *)
(*                                                                         *)
(* Discord delivers each message to a task of its own, some twice.  The    *)
(* tasks run on several threads and meet in five small tables, each behind *)
(* a mutex of its own; the awaits between them are steps between.          *)
(***************************************************************************)
EXTENDS Integers, Sequences, SequencesExt, RateLimiter

CONSTANTS
    Delivery,      \* deliveries of messages by the gateway (a bound)
    User, Bot,     \* authors other than this bot
    Channel,       \* channels, threads and direct messages
    Direct,        \* the direct messages among them
    ParentOf,      \* the channel a thread belongs to, None for others
    AllowList,     \* the server's allowed channels; empty: all of them
    Proactive,     \* the server's proactive channels
    Silenced,      \* authors the access policy silences
    BotPings,      \* whether the server lets other bots through
    Kind,          \* the messages that may come
    Capacity, Retention, RespondedSize,
    ContextMessages, \* CLASSIFIER_CONTEXT_MESSAGES: what the classifier is shown of a channel
    IdleTimeout, ChatMax, ChatWindow, NoticeWindow, ProactiveWindow,
    MaxTime,       \* the clock (a bound)
    None

ASSUME IntakeAssumption ==
    /\ User \cap Bot = {} /\ Direct \subseteq Channel
    /\ ParentOf \in [Channel -> Channel \cup {None}]
    /\ Kind \subseteq [author : User \cup Bot, chan : Channel, mention : BOOLEAN,
                       reply : BOOLEAN, attachment : BOOLEAN, bare : BOOLEAN, command : BOOLEAN]
    /\ {Capacity, Retention, RespondedSize, ContextMessages, ChatMax} \subseteq Nat \ {0}
    /\ {IdleTimeout, ChatWindow, NoticeWindow, ProactiveWindow, MaxTime} \subseteq Nat
    /\ Silenced \subseteq User \cup Bot /\ Kind # {} /\ None \notin User \cup Bot

VARIABLES
    clock,
    task,          \* the task that handles each delivery
    context,       \* ChannelContext: the buffer of each channel
    active,        \* ConversationTracker: when a user was last answered in a channel
    processing, responded,                         \* ids being handled, answered last
    chatHits, noticeHits, proactiveHits,           \* the three limiters
    view,          \* the recent messages of its channel that each task has copied
    log,           \* observer: all that was ever appended, without the names erased
    granted        \* observer: the times each limiter let an attempt through

limiters == <<chatHits, noticeHits, proactiveHits, granted>>
buffers == <<context, view, log>>
ids == <<processing, responded>>
vars == <<clock, task, buffers, active, ids, limiters>>

Author == User \cup Bot
NoKind == CHOOSE k \in Kind : TRUE
Unborn == [pc |-> "unborn", id |-> None, m |-> NoKind, mode |-> "none", said |-> "nothing"]
\* No copy.  For the observer a view also has the place of the task's message in
\* the log, and how long the log was when the copy was taken.
NoView == [recent |-> <<>>, mine |-> 0, upto |-> 0]

Init == /\ clock = 0
        /\ task = [d \in Delivery |-> Unborn]
        /\ context = [c \in Channel |-> <<>>] /\ view = [d \in Delivery |-> NoView]
        /\ active = [w \in Channel \X Author |-> -1]
        /\ processing = {} /\ responded = <<>>
        /\ chatHits = [u \in Author |-> <<>>]
        /\ noticeHits = [u \in Author |-> <<>>]
        /\ proactiveHits = [c \in Channel |-> <<>>]
        /\ log = [c \in Channel |-> <<>>]
        /\ granted = [chat |-> chatHits, notice |-> noticeHits, proactive |-> proactiveHits]

at(d, pc) == task[d].pc = pc
Msg(d) == task[d].m
Goto(d, pc) == task' = [task EXCEPT ![d].pc = pc]
Say(d, what, pc) == task' = [task EXCEPT ![d].pc = pc, ![d].said = what, ![d].mode = "none"]

\* One check of a limiter, and what the observer notes of it.
Limit(name, table, key, max, window) ==
    LET r == Check(table, key, clock, max, window)
    IN  [limited |-> r.limited, hits |-> r.hits,
         granted |-> IF r.limited THEN granted
                     ELSE [granted EXCEPT ![name][key] = Append(@, clock)]]
-----------------------------------------------------------------------------
\* The buffers of the channels.
\* The oldest messages go while they are too old.
Expire(buffer) == From(buffer, {i \in DOMAIN buffer : buffer[i].at >= clock - Retention})

\* MUTANT: a full buffer takes no more.
PushedFull(buffer, e) ==
    LET kept == Expire(buffer) IN IF Len(kept) >= Capacity THEN kept ELSE Append(kept, e)

\* ChannelContext::append: expire, make room, push.
Pushed(buffer, e) ==
    LET kept == Expire(buffer)
    IN  Append(IF Len(kept) >= Capacity THEN Tail(kept) ELSE kept, e)

\* ChannelContext::recent: the last messages of an expired buffer.
Latest(buffer) ==
    SubSeq(buffer, IF Len(buffer) > ContextMessages THEN Len(buffer) - ContextMessages + 1 ELSE 1,
           Len(buffer))

\* What an erase retains of a buffer, as a function the provers can unfold.
Without(buffer, u) ==
    LET kept[i \in 0..Len(buffer)] ==
            IF i = 0 THEN <<>>
            ELSE IF buffer[i].by = u THEN kept[i - 1] ELSE Append(kept[i - 1], buffer[i])
    IN  kept[Len(buffer)]
-----------------------------------------------------------------------------
\* The channel whose settings govern c; None when the allowlist excludes it.
Listed(c) == c \in Direct \/ AllowList = {} \/ c \in AllowList
ConfigChannel(c) == CASE Listed(c) -> c
                      [] ~Listed(c) /\ ParentOf[c] # None /\ Listed(ParentOf[c]) -> ParentOf[c]
                      [] OTHER -> None

IsBot(m) == m.author \in Bot
IsActive(c, u, now) == active[c, u] >= 0 /\ now - active[c, u] <= IdleTimeout
HasTimedOut(c, u, now) == active[c, u] >= 0 /\ now - active[c, u] > IdleTimeout

\* The bots the server does not want, and the users the access policy silences.
Unwanted(m) == IsBot(m) /\ ~(BotPings /\ m.chan \notin Direct)
Noticed(m) == /\ m.author \in Silenced
              /\ m.chan \in Direct \/ m.mention \/ m.reply
              /\ ConfigChannel(m.chan) # None

\* message, up to the allowlist, for message m with this id.  Commands are
\* answered wherever they come from.
Triage(d, id, m) ==
    LET t == [Unborn EXCEPT !.id = id, !.m = m, !.pc = "dropped"]
        r == Limit("notice", noticeHits, m.author, 1, NoticeWindow)
    IN  \/ /\ Unwanted(m) \/ (m.author \in Silenced /\ ~Noticed(m))
           /\ task' = [task EXCEPT ![d] = t] /\ UNCHANGED limiters
        \/ /\ ~Unwanted(m) /\ Noticed(m)
           /\ task' = [task EXCEPT ![d] = IF r.limited THEN t ELSE [t EXCEPT !.said = "notice"]]
           /\ noticeHits' = r.hits /\ granted' = r.granted
           /\ UNCHANGED <<chatHits, proactiveHits>>
        \/ /\ ~Unwanted(m) /\ m.author \notin Silenced /\ m.command
           /\ task' = [task EXCEPT ![d] = [t EXCEPT !.said = "command"]] /\ UNCHANGED limiters
        \/ /\ ~Unwanted(m) /\ m.author \notin Silenced /\ ~m.command
           /\ task' = [task EXCEPT ![d] = [t EXCEPT !.pc = CASE ConfigChannel(m.chan) = None -> "dropped"
                                                             [] m.chan \in Direct -> "look"
                                                             [] OTHER -> "append"]]
           /\ UNCHANGED limiters

\* The gateway hands a message to a task, or hands one out again.
Deliver(d) ==
    /\ at(d, "unborn")
    /\ \/ \E k \in Kind : Triage(d, d, k)
       \/ \E e \in Delivery : ~at(e, "unborn") /\ task[e].id = e /\ Triage(d, e, Msg(e))
    /\ UNCHANGED <<clock, buffers, active, ids>>

\* channel_context.append, and in a critical section of its own recent, which
\* expires the buffer before it copies it.  Between the two another task may
\* append, and an erase may take the message away again.
Own(d) == [id |-> task[d].id, by |-> Msg(d).author, at |-> clock]
AppendContext(d) ==
    /\ at(d, "append")
    /\ context' = [context EXCEPT ![Msg(d).chan] = Pushed(@, Own(d))]
    /\ log' = [log EXCEPT ![Msg(d).chan] = Append(@, Own(d))]
    /\ view' = [view EXCEPT ![d].mine = Len(log[Msg(d).chan]) + 1]
    /\ Goto(d, "recent")
    /\ UNCHANGED <<clock, active, ids, limiters>>

TakeRecent(d) ==
    /\ at(d, "recent")
    /\ context' = [context EXCEPT ![Msg(d).chan] = Expire(@)]
    /\ view' = [view EXCEPT ![d].recent = Latest(Expire(context[Msg(d).chan])),
                            ![d].upto = Len(log[Msg(d).chan])]
    /\ Goto(d, "look")
    /\ UNCHANGED <<clock, log, active, ids, limiters>>

\* What a message asks of the bot: an answer, as the author's own conversation
\* or because the bot is spoken to, or nothing.
Follows(m) == m.chan \in Direct /\ IsActive(m.chan, m.author, clock)
Addressed(m) == /\ ~IsBot(m) \/ m.mention
                /\ m.chan \in Direct \/ m.mention \/ m.reply \/ m.attachment \/ Follows(m)
Watched(m) == /\ m.chan \notin Direct /\ ~Addressed(m)
              /\ Proactive \cap {ConfigChannel(m.chan), ParentOf[m.chan]} # {}
Mode(m) == IF Watched(m) THEN "unprompted"
           ELSE IF m.mention /\ ~m.reply /\ ~m.attachment THEN "emoji" ELSE "full"

\* The conversation's window, read and cleared under one lock.  Only a message
\* that the classifier may be asked about keeps its copy.
Look(d) ==
    /\ at(d, "look")
    /\ LET m == Msg(d)
           expired == ~Follows(m) /\ HasTimedOut(m.chan, m.author, clock)
       IN  /\ active' = [active EXCEPT ![<<m.chan, m.author>>] = IF expired THEN -1 ELSE @]
           /\ task' = IF Addressed(m) \/ Watched(m)
                        THEN [task EXCEPT ![d].pc = "seen", ![d].mode = Mode(m)]
                        ELSE [task EXCEPT ![d].pc = "dropped"]
           /\ view' = IF Watched(m) \/ (Addressed(m) /\ Mode(m) = "emoji")
                        THEN view ELSE [view EXCEPT ![d] = NoView]
    /\ UNCHANGED <<clock, context, log, ids, limiters>>

\* MUTANT: only the answered messages are looked up.
SeenResponded(d) ==
    /\ at(d, "seen")
    /\ IF task[d].id \in ToSet(responded)
         THEN Goto(d, "dropped") /\ UNCHANGED processing
         ELSE /\ processing' = processing \cup {task[d].id}
              /\ Goto(d, IF task[d].mode = "unprompted" THEN "proactive" ELSE "limit")
    /\ UNCHANGED <<clock, buffers, active, responded, limiters>>

\* already_seen: both tables under their locks at once.
Seen(d) ==
    /\ at(d, "seen")
    /\ IF task[d].id \in processing \cup ToSet(responded)
         THEN Goto(d, "dropped") /\ UNCHANGED processing
         ELSE /\ processing' = processing \cup {task[d].id}
              /\ Goto(d, IF task[d].mode = "unprompted" THEN "proactive" ELSE "limit")
    /\ UNCHANGED <<clock, buffers, active, responded, limiters>>

\* classifier_input: what the classifier is shown, the last of which it judges.
\* MUTANT: the buffer as it is when the classifier is asked.
ClassifierInputNow(d) ==
    IF context[Msg(d).chan] = <<>> THEN <<Own(d)>> ELSE Latest(context[Msg(d).chan])
ClassifierInput(d) ==
    IF view[d].recent = <<>> THEN <<Own(d)>> ELSE view[d].recent
Judged(d) == Last(ClassifierInput(d))

\* What the classifier makes of a message; None when it is off, fails or is late.
Answers == {None} \cup [answer : BOOLEAN, react : BOOLEAN, emoji : BOOLEAN]
ProactiveDecision(a) == CASE a = None -> "ignore"
                          [] a # None /\ a.answer -> "escalate"
                          [] a # None /\ ~a.answer /\ a.react /\ a.emoji -> "react"
                          [] OTHER -> "ignore"
PingReaction(a) == a # None /\ a.react /\ a.emoji

\* react_with: Discord may refuse the reaction.
React(d, otherwise) == Say(d, "reaction", "forget") \/ Goto(d, otherwise)

\* MUTANT: bots are answered as well.
ClassifyProactiveAnyone(d) ==
    /\ at(d, "proactive")
    /\ Goto(d, "limit")
    /\ UNCHANGED <<clock, buffers, active, ids, limiters>>

\* handle_proactive: nothing, a reaction, or an answer, for users and once per cooldown.
ClassifyProactive(d) ==
    /\ at(d, "proactive")
    /\ \E a \in Answers :
         \/ /\ ProactiveDecision(a) = "ignore" \/ (ProactiveDecision(a) = "escalate" /\ IsBot(Msg(d)))
            /\ Goto(d, "forget") /\ UNCHANGED limiters
         \/ /\ ProactiveDecision(a) = "react"
            /\ React(d, "forget") /\ UNCHANGED limiters
         \/ /\ ProactiveDecision(a) = "escalate" /\ ~IsBot(Msg(d))
            /\ LET r == Limit("proactive", proactiveHits, Msg(d).chan, 1, ProactiveWindow)
               IN  /\ Goto(d, IF r.limited THEN "forget" ELSE "limit")
                   /\ proactiveHits' = r.hits /\ granted' = r.granted
            /\ UNCHANGED <<chatHits, noticeHits>>
    /\ UNCHANGED <<clock, buffers, active, ids>>

\* handle_message: who writes too fast is told so, if the bot was asked.
LimitChat(d) ==
    /\ at(d, "limit")
    /\ LET r == Limit("chat", chatHits, Msg(d).author, ChatMax, ChatWindow)
       IN  /\ CASE r.limited /\ task[d].mode # "unprompted" -> Say(d, "notice", "forget")
                [] r.limited /\ task[d].mode = "unprompted" -> Goto(d, "forget")
                [] OTHER -> Goto(d, IF task[d].mode = "emoji" /\ ~Msg(d).bare THEN "ping" ELSE "turn")
           /\ chatHits' = r.hits /\ granted' = r.granted
    /\ UNCHANGED <<clock, buffers, active, ids, noticeHits, proactiveHits>>

\* classify_ping: one reaction may do; a ping always gets an answer.
ClassifyPing(d) ==
    /\ at(d, "ping")
    /\ \E a \in Answers : IF PingReaction(a) THEN React(d, "turn") ELSE Goto(d, "turn")
    /\ UNCHANGED <<clock, buffers, active, ids, limiters>>

\* The rest of handle_message, after a compaction if the conversation had timed
\* out (Session.tla and TurnFlow.tla): it is cancelled, fails or is answered.
RunTurn(d) ==
    /\ at(d, "turn")
    /\ \/ Goto(d, "forget") /\ UNCHANGED active
       \/ /\ Say(d, "reply", "forget")
          /\ active' = [active EXCEPT ![<<Msg(d).chan, Msg(d).author>>] = clock]
    /\ UNCHANGED <<clock, buffers, ids, limiters>>

\* mark_done, in two critical sections.
Forget(d) ==
    /\ at(d, "forget")
    /\ processing' = processing \ {task[d].id}
    /\ Goto(d, "record")
    /\ UNCHANGED <<clock, buffers, active, responded, limiters>>

Record(d) ==
    /\ at(d, "record")
    /\ responded' = Append(IF Len(responded) >= RespondedSize THEN Tail(responded) ELSE responded,
                           task[d].id)
    /\ Goto(d, "done")
    /\ UNCHANGED <<clock, buffers, active, processing, limiters>>

Handle(d) == \/ AppendContext(d) \/ TakeRecent(d) \/ Look(d) \/ Seen(d)
             \/ ClassifyProactive(d) \/ LimitChat(d) \/ ClassifyPing(d) \/ RunTurn(d)
             \/ Forget(d) \/ Record(d)
-----------------------------------------------------------------------------
\* handle_new, and the last step of a compaction or an erase.
LeaveConversation(c, u) ==
    /\ active[c, u] >= 0
    /\ active' = [active EXCEPT ![<<c, u>>] = -1]
    /\ UNCHANGED <<clock, task, buffers, ids, limiters>>

\* remove_user_entries, from an erase: every channel under one lock.
RemoveUserEntries(u) ==
    /\ \E c \in Channel : \E i \in DOMAIN context[c] : context[c][i].by = u
    /\ context' = [c \in Channel |-> Without(context[c], u)]
    /\ log' = [c \in Channel |-> [i \in DOMAIN log[c] |->
                 [log[c][i] EXCEPT !.by = IF @ = u THEN None ELSE @]]]
    /\ UNCHANGED <<clock, task, view, active, ids, limiters>>

\* A tool or a statistic looks into a channel: search and len expire it first.
Consult(c) ==
    /\ context[c] # Expire(context[c])
    /\ context' = [context EXCEPT ![c] = Expire(@)]
    /\ UNCHANGED <<clock, task, view, log, active, ids, limiters>>

\* Time passes, as much as it likes.
Tick == /\ \E later \in (clock + 1)..MaxTime : clock' = later
        /\ UNCHANGED <<task, buffers, active, ids, limiters>>

Next == \/ \E d \in Delivery : Deliver(d) \/ Handle(d)
        \/ \E c \in Channel, u \in User : LeaveConversation(c, u)
        \/ \E u \in User : RemoveUserEntries(u)
        \/ \E c \in Channel : Consult(c)
        \/ Tick

Spec == Init /\ [][Next]_vars
-----------------------------------------------------------------------------
Entry == [id : Delivery, by : Author, at : 0..MaxTime]
Task == [pc : {"unborn", "append", "recent", "look", "seen", "proactive", "limit", "ping", "turn",
               "forget", "record", "done", "dropped"},
         id : Delivery \cup {None}, m : Kind, mode : {"none", "emoji", "full", "unprompted"},
         said : {"nothing", "command", "notice", "reaction", "reply"}]
View == [recent : Seq(Entry), mine : Nat, upto : Nat]
TableTypes ==
    /\ clock \in 0..MaxTime
    /\ task \in [Delivery -> Task]
    /\ active \in [Channel \X Author -> -1..MaxTime]
    /\ processing \subseteq Delivery /\ responded \in Seq(Delivery)
    /\ Len(responded) <= RespondedSize
BufferTypes == /\ \A c \in Channel : context[c] \in Seq(Entry) /\ Len(context[c]) <= Capacity
               /\ view \in [Delivery -> View]
TypeOK == TableTypes /\ BufferTypes

\* A message that is redelivered while it is handled starts nothing: at most
\* one of its deliveries is past already_seen and before mark_done.
InHand == {"proactive", "limit", "ping", "turn", "forget"}
OneDeliveryInHand ==
    \A d, e \in Delivery : d # e /\ task[d].pc \in InHand /\ task[e].pc \in InHand
                             => task[d].id # task[e].id

\* No window of any limiter lets more through than it promises, whatever
\* expired users the limiter has swept and however the attempts fall.
WithinLimits ==
    /\ \A u \in Author : Promise(granted.chat[u], ChatMax, ChatWindow)
    /\ \A u \in Author : Promise(granted.notice[u], 1, NoticeWindow)
    /\ \A c \in Channel : Promise(granted.proactive[c], 1, ProactiveWindow)

\* Another bot that does not mention this one gets a reaction at most, "so two
\* bots cannot answer each other in a loop" (handler.rs:293), but for what the
\* handler says before it looks at mentions: the answer to a command, and the
\* notice to a bot that the access policy silences when it replies.
BotsDoNotConverse ==
    \A d \in Delivery : IsBot(Msg(d)) /\ ~Msg(d).mention =>
        \/ task[d].said \in {"nothing", "reaction"}
        \/ task[d].said = "command" /\ Msg(d).command /\ Msg(d).author \notin Silenced
        \/ task[d].said = "notice" /\ Msg(d).reply /\ Msg(d).author \in Silenced

\* The buffer of a channel is the newest of what was said and not erased, in
\* order and without a gap; what is missing has expired, or as many later
\* messages came as the buffer holds.  shown says which message of the log an
\* entry of the buffer is.
Shows(shown, buffer, said) ==
    /\ \A j \in DOMAIN buffer : buffer[j] = said[shown[j]] /\ said[shown[j]].by # None
    /\ \A j, k \in DOMAIN buffer : j < k => shown[j] < shown[k]
    /\ \A i \in DOMAIN said : said[i].by # None => i \in Range(shown) \/ \A j \in DOMAIN buffer : i < shown[j]
Gone(said, i) == said[i].by = None \/ said[i].at < clock - Retention \/ Len(said) - i >= Capacity
ContextIsNewest ==
    \A c \in Channel :
        \E shown \in [DOMAIN context[c] -> DOMAIN log[c]] :
           /\ Shows(shown, context[c], log[c])
           /\ \A i \in DOMAIN log[c] : i \in Range(shown) \/ Gone(log[c], i)

\* "a message that arrives during the awaits below cannot become the one the
\* classifier judges" (handler.rs:405): it judges the message it is asked about,
\* however much is said before it is asked; but as append and recent are two
\* critical sections, one that was appended between them may take its place,
\* and an older one if the author's messages were erased.
JudgesItsMessage ==
    \A d \in Delivery : task[d].pc \in {"proactive", "ping"} =>
        LET v == view[d]
            said == log[Msg(d).chan]
        IN  \/ Judged(d).id = task[d].id
            \/ \E i \in (v.mine + 1)..v.upto : said[i].id = Judged(d).id /\ said[i].at = Judged(d).at
            \/ v.mine > 0 /\ said[v.mine].by = None
=============================================================================
