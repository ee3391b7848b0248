------------------------------ MODULE MCServices ------------------------------
(* An instance of Services for TLC.                                        *)
EXTENDS Services, Sequences, TLC

CONSTANTS o, u1, u2,            \* users; o is the bot's owner
          t1, t2, t3,           \* handlers at work at once
          c1, c2, c3,           \* conversations
          r1, r2                \* reminders

\* Configuration: u1 is a configurer until that is taken back, and the server's
\* own administrator.
Cmd(key, what, target, on, value) == [key |-> key, what |-> what, target |-> target, on |-> on, value |-> value]

MCCommand == {Cmd("access", "configurer", u1, FALSE, None), Cmd("access", "silenced", u1, TRUE, None),
              Cmd("server", "proactive", "hall", TRUE, None), Cmd("server", "clear", None, FALSE, None),
              Cmd("user", "effort", u1, TRUE, None), Cmd("user", "erase", u1, TRUE, None),
              Cmd("ceiling", "ceiling", None, TRUE, 2), Cmd("classifier", "classifier", None, TRUE, "on")}

\* Reminders: two users' reminders, two tool calls or erases beside the loop.
OwnReminder(r) == r

\* Skills: one skill, the two handles, three operations of which two overlap.
OpsVia(h) == IF h = "agent" THEN {"save", "delete", "copy"} ELSE {"delete", "grant", "revoke"}

\* GitHubIssues: a report of u1, a pull request and a stranger's issue; a listing
\* takes two pages, a token lives two ticks.
Item(pr, labels, of, n) == [pr |-> pr, open |-> TRUE, labels |-> labels, by |-> of,
                            editor |-> None, merged |-> FALSE, comments |-> n]
MCSeed == <<Item(FALSE, {"bug"}, u1, 3), Item(TRUE, {"bug"}, None, 0), Item(FALSE, {"bug", "old"}, None, 0)>>
Ask(kind, what, n, x) == [kind |-> kind, what |-> what, n |-> n, x |-> x, state |-> "open", label |-> {"bug"}]
MCCall == {Ask("file", None, None, {}), Ask("edit", None, 1, {}),
           Ask("touch", "unlabel", 3, {"bug", "old"}),
           Ask("prune", "close", None, {}), Ask("prune", "unlabel", None, {"old"}), Ask("prune", "label", None, {}),
           Ask("merge", None, 2, {}), Ask("merge", None, 0, {}), Ask("detail", None, 1, {}), Ask("list", None, None, {})}

\* TokenLedger: one user with two conversations, one with one; a day is over
\* after the first tick.
Speaker(c) == IF c = c3 THEN u2 ELSE u1
NoDays(p) == 0
MCUsage == {[input |-> 2, output |-> 1, cached |-> 1], [input |-> 1, output |-> 2, cached |-> 1]}

Symmetry == Permutations({t1, t2}) \cup Permutations({c1, c2}) \cup Permutations({r1, r2})
=============================================================================
