# Formal models of Housebot

Housebot is a Discord bot (Rust, tokio, serenity): messages become agent turns
that call a language model and tools; slash commands, buttons and reactions
steer it; a sandbox daemon runs code; jobs are dispatched to GitHub; a second
bot deploys it. This directory holds TLA+ models of its stateful and concurrent
parts, the TLC configurations that check them, and TLAPS proofs about the safety
of all of them but the token ledger and the GitHub client's reports. The source is
the reference: every definition of a model is mapped to the lines it stands for in
`PROJECT.json` ("map"), paths there begin with `src/`.

## The system

| Part | Source | State it keeps | Who touches it | Module |
|---|---|---|---|---|
| Message intake | `src/bot/mod.rs`, `handler.rs`, `message_flow.rs`, `classify.rs` | ids in processing / responded, follow-up windows, three limiters | gateway events | `MessageIntake` |
| Channel context | `crates/channel-context` | a bounded, expiring buffer per channel | intake, tools, erase | `MessageIntake` |
| Rate limits | `crates/rate-limit` | a window of hits per user | intake, GitHub tools | `RateLimiter` |
| User turn | `src/bot/message_flow.rs`, `src/agent/run.rs`, `src/bot/progress.rs` | the tool loop's messages, the progress message, `progress_messages` (cancel registry) | one task per message, one per reaction | `TurnFlow` |
| Session | `src/agent/session.rs`, `crates/history`, `crates/token-monitor` | history file, `session_stats`, `active_conversations`, conversation rows | turns, `/session`, `/data erase`, restarts | `Session` |
| LLM scheduler | `crates/llm-scheduler` | in-flight counter, ceiling, two queues of one-shot senders | every LLM call, cancellation, `/config scheduler` | `LlmScheduler` |
| Development jobs | `crates/coding-agent`, `crates/tools/.../feature_development.rs`, `src/bot/develop*.rs` | `PendingJobStore`, cards in Discord, GitHub runs | turns (create), buttons (advance) | `PendingJobs` |
| Sandbox daemon | `crates/sandbox`, `crates/tools/src/sandbox.rs` | session map, containers | one task per connection, the idle sweeper | `SandboxSessions` |
| Skills | `crates/skills`, `manage_skills.rs`, `bot-commands` | a directory and two cached listings of it | tool, `!skill`, sandbox start | `Skills` |
| Reminders | `crates/reminders`, `remind.rs` | one JSON file | tool, erase, delivery loop | `Reminders` |
| Configuration | `crates/bot-config`, `config_cmd.rs`, `interactions.rs`, `dispatch.rs` | five kinds of record, one cache, two settings in memory | commands, `configure_bot` | `Configuration` |
| GitHub client | `crates/github-issues`, `github_api.rs`, `*feature_request.rs` | token cache, merge audit | tools | `GitHubIssues` |
| Token ledger | `crates/token-monitor` | conversation rows, usage events | turns, erase, leaderboards | `TokenLedger` |
| Web tools | `web_fetch.rs`, `searxng.rs`, `firecrawl.rs` | two slot windows, a monthly credit | tools | `WebTools` |
| Deployment bot | `crates/deployment-bot` | lock, checkpoint, last event; Docker's containers and images | webhooks, commands, its own start | `Deployment` |
| Stateless or text-only parts | formatting, media, prompts, LLM client, memory, migrations | none that is shared | turns | not modelled |

Calls run downwards (a turn calls the scheduler's client, the session, the job
store, the sandbox client, the tools); callbacks run upwards (progress hooks).
Nothing serialises the tasks of one user: two messages, a slash command and a
reaction of the same user interleave at every `.await`.

### What is hard, and what correctness means, per part

- **Message intake.** The gateway redelivers; each delivery runs in a task of
  its own through five tables with a lock each. Correct: a message is handled by
  one task at a time, limits hold, two bots do not talk for ever, the classifier
  sees the newest messages and judges the one it is asked about.
- **User turn.** A cancel may arrive at every step of a turn that spends its
  time in awaits on a model with no timeout. Correct: a cancel in time is
  final and prompt, the transcript is whole, the status line is closed.
- **Session.** Load-modify-save of one file by unserialised tasks, and a
  database row mirrored by a map that a restart clears; whatever fails on the
  disk is at most logged. Correct: history is kept, an erase erases, a failed compaction is retried, a user has one open
  conversation.
- **Scheduler.** A waiter may be cancelled while queued, between the pump's
  look at it and the send, or with its permit in the channel. Correct: the
  counter is exact, no slot idles while somebody waits, user chat goes first,
  first come first served within a class, everybody waiting is served if
  backends answer.
- **Development jobs.** Buttons outlive the state they were drawn for; presses
  are handled concurrently; acknowledgements and GitHub's answers get lost;
  the store dies with the process. Correct: only the owner's decision runs
  somebody else's request, one job runs once, decisions are final, a dispatch
  settles.
- **Sandbox.** Clients give up on requests the daemon goes on serving, the
  sweeper and timed out commands remove sandboxes under their users, Docker
  fails, either process restarts. Correct: a listed sandbox is alive, no
  container is forgotten, the model is told when, and only when, its files are
  gone, calls end, idle sandboxes go.
- **Skills.** A save truncates, writes, then clears a cache; two handles cache
  the same directory. Two saves of one skill may cross. Correct: a
  skill is whole, stays its author's, and what is listed is what is there.
- **Reminders.** Three writers rewrite a file they loaded before, and what cannot
  be read counts as empty. Correct: a
  confirmed reminder is kept until it is sent, once, not early, or erased.
- **Configuration.** Three disciplines of saving side by side; storage fails
  before or after it executes; readers cache. Correct: changes compose, what is
  stored is what runs, a revoked configurer is refused soon.
- **GitHub client.** Tokens age between their choice and their use, answers are
  lost after GitHub acted, listings change between pages. Correct: a report says
  what was done, merges are accounted for, an issue is edited by its author.
- **Token ledger.** Two records of one fact, two backends, boards of two
  queries. Correct: they add up and agree, a rank is a place on the board.
- **Web tools.** Sleepers and newcomers compete for slots, redirects lead
  anywhere, a paid fallback. Correct: budgets hold, only urls that were
  validated are asked.
- **Deployment.** Eleven docker commands that replace two containers, any of
  which may fail, under webhooks, commands and a retrying start. Correct: the
  rollback target is whole, chatbot and daemon match, a build goes out once,
  every request ends.

`PROJECT.json` lists the hazards line by line with the properties that cover
them.

## The modules

### MessageIntake, MCMessageIntake, MessageIntakeProofs, RateLimiter

`task[d]` is the task that handles delivery `d`, from `EventHandler::message` to
`mark_done`; a delivery brings a new message or one delivered before. `Triage`
is everything up to the allowlist (no state but the notice limiter);
`AppendContext` / `TakeRecent`, `Look`, `Seen`, `ClassifyProactive`, `LimitChat`,
`ClassifyPing`, `RunTurn`, `Forget`, `Record` are the critical sections that
follow, in the order of the code, and the awaits lie between them. `!skill` and
`!stats` are answered before the allowlist is looked at, as the code does.
`RunTurn` stands for `TurnFlow` and `Session`: what the intake sees of a turn is
whether the conversation became active. `view` is the copy of the recent messages
that a task takes right after its append and hands to the classifier later
(`ClassifierInput`); the two are critical sections of their own, so the handler's
comment that they are one step (`handler.rs:404`) holds only while no other
thread comes between. `log` and `granted` are observers, and so are the two
numbers in a view that say where in the log it was taken.
`Without` is `retain` as a function over the positions of the buffer, because no
prover can unfold `SelectSeq`; `ContextIsNewest` says which message of `log` each
entry of a buffer is instead of filtering `log`, for the same reason.
`RateLimiter` is the sliding window as a function from table to table, one check
under one lock; its clock is coarser than the wait for the lock, because the
code reads the time before it takes the lock.

### SlotPool, LlmScheduler, LlmSchedulerProofs

`SlotPool` is what the scheduler promises: requests wait or hold a slot; a slot
is granted only below the ceiling, to background work only when no user chat
waits, to a newcomer only when nobody waits. `LlmScheduler` is the code.

| Model | Code (`crates/llm-scheduler/src/lib.rs`) |
|---|---|
| `waiters`, `ahead` | the two `VecDeque`s: each queue's entries and their order |
| `st[r]` | where one call of `acquire` is, from queueing to the drop of its permit |
| `pumping` | the mutex is held by a thread inside `pump` |
| `Acquire`, `Release`, `SetMaxInflight` | the three entries into the mutex |
| `CancelWaiting`, `CancelGranted` | a receiver dropped **without** the mutex, at any moment, also while pump runs |
| `PumpPop`, `PumpSend`, `PumpFull`, `PumpDrained` | the loop of `pump`; the send may find its receiver dead, and reclaims the slot |

The queue is a set with a strict order instead of a sequence: the two say the
same, and the set is within reach of the provers. `NeverDropsQueuedWaiter`
is about `retain`, `WorkConserving` about lost wake-ups, `ArrivalOrderKept` about
overtaking, `ImplementsSlotPool` is the refinement.

### PendingJobs, MCPendingJobs, PendingJobsProofs

One variable per field of a job that control depends on (`stage`,
`selection.model`, expiry, requester), plus the turn that prepares it, the card
Discord shows and the presses in flight. A handler is a sequence of steps with
one lock of the store per step; `Press` may happen whenever the *card* shows the
button, whatever the job's stage has become. `Trigger` is external: GitHub
starts a run and says so, does not, or starts one and the answer is lost.
`develop_on_confirm` and `develop_on_approve` share the steps from `StartDispatch`
to `MarkDispatched`/`MarkDispatchFailed`.

### TurnFlow, TurnFlowProofs

The turn's program counter `at` goes through `handle_message` (placeholder,
cross, registration), the loop of `Agent::run` and the closing part of
`handle_message`; `task[r]` goes through `reaction_add`. The cancel token is
modelled at the level of its atomics: `SetFlag` and `NotifyWaiters` are two
steps, and so are the creation of the `Notified` future (`Listen`) and the look
at the flag (`CheckFlag`). A future that exists when `notify_waiters` runs is
woken even if it was not polled yet, as tokio documents. Text, tools and usage
are abstracted to: how many calls a batch holds, whether one proposed a
development job or was rate limited, whether the final text is empty. `Prepare`
may go through `compact`, the compaction before the run: it asks the model
without a timeout and without looking at the token (`run.rs:54-58`,
`session.rs:53-60`), so its end, `Compacted`, is an action without fairness.

### Session, MCSession, SessionProofs

A history is the set of turns it holds word for word, the set its summary stands
for, and whether it starts with the session-context message. (The summary is
made of the first 6000 characters; what it leaves out of the turns it stands for
is wording here.) `save` is two steps because `tokio::fs::write` truncates and then
writes: a reader in between sees an empty file, overlapping writers may leave a
tail of each other (`Overlaid`), and a writer whose file was removed writes to
nothing. `Take` ... `ClearForSummary` is `compact_session_with_hooks`, called on its
own or before a turn; `Forget`, `Wipe`, `Leave`, `EndRow` are `reset_session`; `Erase`
and `Delete` surround it for `/data erase`. `Join` is `current_conversation_id`, atomic
because it holds the map's lock across its queries.

The disk may fail at every access, and the code goes on after each:

| Fault | Code | What follows |
|---|---|---|
| a read (`Read`, `DigestFails`) | `History::load` returns an empty history for any error | the next save of a turn forgets what the file holds; a compaction counts as done |
| a save that cannot begin (`SaveFails`) | the error is logged (`run.rs:83`, `run.rs:285`) or dropped (`session.rs:109`) | the turn is not in the history; after a compaction's clear the history is gone |
| a write that breaks off (`WriteFails`) | the same | the file holds a part of the text |
| a removal (`ClearFails`) | a reset and a compaction drop the error, an erase reports it | the file stays, and is written over by a compaction |

`lost` are the turns that such a fault, or a stop with the only copy in hand,
forgot: a failed read by a turn, a broken write, a save that fails or a stop
after a compaction's clear. Everything else has to keep them. `saw` are, per
clearing task, the turns that its clear left neither in the file nor in another
task's hands (`InHand`).

### SandboxSessions, SandboxSessionsProofs

| Model | Code |
|---|---|
| `tracked`, `owner`, `idle`, `condemned` | the daemon's map (`sandbox/src/server.rs`), each entry's session key, the entries unused for the whole timeout, the list the sweeper is destroying |
| `container` | what Docker holds; `DockerRuns` is external, and may come after the daemon has given up on the `docker run` |
| `conn[c]` | one connection task, between the places where it takes the map's lock or waits for Docker |
| `turn[t]` | the `LazySandbox` of a turn: attaching, copying the skills, calling; its one retry |
| `Reuse`, `Provision`, `Provisioned`, `ProvisionFails` | `handle_start`: look, run a container without the lock, insert |
| `Require`, `FileRequest`, `RunCommand`, `DestroyTimedOut`, `Forget` | a request on a box, and the timeout of a command |
| `GiveUp` | the client's timeout, or a closed connection: the task runs on |
| `Stop`, `Recover`, `BotRestarts` | the restarts of either process |

An answer is read in the step that writes it: until it is read it could only be
given up, which `GiveUp` may do in any earlier state. One turn slot is enough
for the daemon, because abandoned requests, also those of turns that are over,
are served next to the later ones. A container that dies by itself is outside
the model: the code cannot tell, and keeps the dead entry for as long as the
session uses it. `close` and the network check of a start are left out: no code
calls `close`, and every start asks for the public network.

### Deployment, DeploymentProofs

| Model | Code (`crates/deployment-bot`) |
|---|---|
| `chatbot`, `daemon`, `images`, `twin` | Docker: the two containers and their commits, the local images, a chatbot an earlier compose left behind |
| `tip`, `published` | the branch on GitHub and the commits whose images are in the registry |
| `req[q]` | one task: a webhook, `/update`, `/rollback`, a `/deploy` card, the deployment at start |
| `lock`, `previous`, `lastEvent` | `deployment_lock`, `previous_image`, `last_event` |
| `Plan`, `RunStage` | `container_commands_with_env`, one docker command per step, each of which may fail; `start_requested_image` may create a container and not start it |
| `Fail` | what an error does: an answer, or the sleep and the next attempt of the start |
| `Stop`, `StopDaemon`, `Exit` | SIGTERM while handlers run on; a kill at any moment |

Commits are numbered as they land, so "the newest published commit" is a
maximum. `torn` and `built` are observers: a stop met a request under way; the
builds this life of the bot has deployed.

### The services: Services, ServicesProofs, Configuration, Reminders, Skills, GitHubIssues, TokenLedger, WebTools

Each component is a module of its own, with a handler or a file access as a step
wherever the code awaits. `Services` instantiates them, and a concurrent instance
of `PendingJobs`, in one specification: they share no state, so
a behaviour runs one of them, its `part`, and every property speaks of its part
alone. A variable whose name several modules have serves whichever is running,
the others' variables are None (`Blank`) and stay so (`Frame`). That is a disjoint
sum of state graphs, no interaction is claimed or lost. `MCServices` only gives
the constants.

- **Configuration**: a record is the set of settings in force. The access record
  goes through `write_lock`, a fresh load, a save and a cache refill (`Lock`,
  `Reload`, `Save`, `Refresh`), readers through the cache (`UseCache`, `Fetch`,
  `Fill`, `FetchFails`); server and user records are loaded, changed and saved without either; the ceiling is applied,
  read back and stored, the classifier stored and then applied. A failing query
  may or may not have been executed.
- **Reminders**: `Load`, `Open` (truncates), `Write` for each of the three kinds of
  writer, of which any number overlap; a truncated file, one with a mix of two
  texts in it and one that cannot be read (`ReadFails`) all load as no reminders,
  and are written back so. `Send` drops errors. `unsure` holds the reminders that a
  crossing write, such a list or the loop's hands have put at risk (`Take`,
  `Crossed`).
- **Skills**: one directory per name, two handles with a cache. A scan reads the
  disk without the cache's lock (`ScanDisk`, `Fill`) and skips a file it cannot
  read (`ScanSkips`); `Create`, `Write`, `Forget` are a save, `Remove`, `Forget` a delete,
  whose removal may fail half way. A save that writes over the text of another
  one may leave the rest of the longer text: the file still parses, with a body
  nobody wrote, or is no text at all (`Spoilt`). `crossed` are the skills whose
  last save met another.
- **GitHubIssues**: a call is a list of requests still to send, `todo`. A token is
  chosen once per issue (`UseCached`, `AskToken`), each request is answered,
  refused or `Breaks`: before or after GitHub (external) executed it. A prune
  and a detail read page by page while the repository changes (`Disturb`).
- **TokenLedger**: `RecordUsage` is one SQL statement, a board two. The
  in-memory backend is there as `MemoryUsers`, a reference for the aggregation.
  A user with conversations but no usage has a rank in Postgres and none in the
  in-memory backend's `get_user_stats`; that backend serves tests only, and
  `UserStats` models Postgres.
- **WebTools**: `WaitForSlot` is one turn of the loop of `wait_for_slot`; `Hop`,
  `Redirected`, `Answered` the redirect loop; `ReserveCredit` and `Scrape` the
  fallback.

The other `MC*` modules only add symmetry sets and the inputs of an instance.

## The runs

| Run | What it asks | Bounds and why they are enough |
|---|---|---|
| `scheduler` | safety, refinement and liveness of the scheduler | 2 chat + 1 background call, ceiling 1..2: a waiter behind a waiter behind a holder, and a ceiling that drops below what is in flight; the proofs cover the safety part at every size |
| `jobs_serial` | all paths through a job, one press at a time; a dispatch leaves `Dispatching` | 2 jobs, every button, restarts, expiry, failures of GitHub; Discord accepts the card updates |
| `turn` | a turn against its cancels | 2 rounds of up to 2 calls (a batch that ends early needs 2), 2 reactions; 1 round more than the bound ends the loop |
| `session` | what a session promises while its tasks do not overlap, and what an erase and the conversation row promise however they do | 3 tasks of any kind, 2 at once, 1 restart or failure of the disk at any step: an erase under a turn or a compaction in flight; turn, failing compaction, turn; a conversation each |
| `sandbox` | live containers only, no leak, true notices, calls that end, idle containers that go | 1 turn slot, 2 connections, 2 sandbox ids: two requests of a session in service at once, and a replacement for a lost sandbox; with no id left Docker refuses |
| `intake` | one task per message, limits, no talk of bots, the newest context, the right message judged | 2 deliveries of 10 kinds of message (a bot's command, a silenced bot's reply among them) in 5 channels, or 3 of a talk between a user and a bot in one channel; the clock leaps from 0 to 2, as far as the windows are long; buffers of 2, a classifier that sees 1, `responded` of 1: a duplicate at every point of its twin, a third message overflows a buffer that holds two in order, and one comes between another's append and copy. `Bounded` is the ACTION_CONSTRAINT that says so |
| `deploy` | whole rollback target, matching pair, builds once, requests end | 2 requests of any kind, 2 commits of which the second is broken, 1 failure anywhere, 2 attempts at start, 1 life of the bot |
| `services` | nine questions about seven components | per instance: 2 handlers at once (for the reminders 2 tool calls or erases beside the loop), 2 or 3 operations, 1 failure, 1 restart, clock 1 to 3, one of each limit (a slot, a credit, a redirect, an entry on a board); 3 presses of an approval card |
| `jobs_double`, `session_two_turns`, `sandbox_notice`, `skills_stale` | expected violations, see below | the smallest instance that shows each |

`jobs_serial` takes card updates as accepted: with a lost update *and* a lost
answer of GitHub the owner's second press starts a second run, which no code on
this side can know. Deadlock is checked in the scheduler, turn
and sandbox runs; in the others the system may stop: every task is over, every
job terminal, every bound reached.

Properties about races and faults the code does not exclude say so in the
formula: `overlapped` and `lost` in `Session`; the reminders in `unsure` in `Reminders`;
`unsure` in `Configuration` and `Skills`, the set of what happened (an overlap, a
fault of the disk, a decision by a stale listing), and `crossed` in `Skills`; `mixed`
and `lost` in `GitHubIssues`, `disturbed` in `TokenLedger`, `torn` in `Deployment`. They
hold for every behaviour in which the named thing did not happen to what they
speak of, and the rest of the formula for every behaviour. `ErasedStaysErased` and
the first half of `UsageOnOneRow` (`OneOpenConversation`), `ChangesCompose` for the access record,
`PrivilegeAccounted` but for lost records and `WebWithinBudget` have no such
exception.

Each property of a passing run has a mutant, an operator marked `MUTANT` that
changes one mapped definition the way a plausible bug would; with it, the
property fails.

### Assumptions of the models

- A configuration query is answered within a tick of its cache's clock.
- GitHub issues a token within the 60 s the client renews it early (`Margin`),
  and the first request a token was chosen for is sent at once.
- A cancelled turn still sees its running tools through, so only a restart cuts a
  tool call (`GitHubIssues`, `WebTools`).
- Hits of a limiter are recorded in the order of their times.

### Fairness

- Scheduler: every ready step of a task is eventually taken, and the mutex is
  eventually obtained by who keeps trying (strong fairness on `Release`, because
  others may hold it in between). The LLM client sets no timeout
  (`crates/llm/src/lib.rs:175`), so that a backend answers is a premise of
  `Progress` (`BackendAnswers`), never fairness of the specification. Background
  work is only promised a slot once user chat is quiet: the code starves it
  otherwise, by design.
- Jobs: a handler that has started runs on; nothing is assumed of GitHub, whose
  answer is a premise (`GitHubAnswers`).
- Turn: the steps of the turn and of a reaction's handler are taken; the model's
  answer is not, so `CancelEndsTurn` holds for a stream that never ends. Nothing is
  assumed of the compaction before the run either: it may hang in the model,
  a cancelled turn hangs with it, and the property says that a cancel ends the
  turn or finds it there. Loading, the disk and tools are assumed to end (they do
  not listen to the token).
- Sandbox: connection tasks and the sweeper run on, every wait of the client has
  a timeout, and a stopped daemon is started again. Docker may fail every time.
- Deployment: docker commands return, tokio's mutex is fair (strong fairness on
  `Acquire`), and a bot that was told to stop stops. That it is not stopped is
  not assumed: a request of a dead bot is over.

## What the violations show

- `jobs_double`: the model menu and Cancel write the stage without looking at
  it, so a stale press takes a dispatching job back to `Confirming`; a second
  confirm starts a second run.
- `session_two_turns`: two overlapping turns of one user lose one of them from
  the history, without any fault (`NeverTrimmed`, which is `HistoryKept` without its
  hypothesis that nothing overlapped).
- `sandbox_notice`: the sandbox is reaped between two calls of a turn, the retried
  call fails in the new one (an edit finds no file), the notice is dropped with
  the error, and the next call works in the empty workspace without a word.
- `skills_stale`: the bot and its agent cache the skills directory separately, and
  each forgets only when it writes itself; a skill deleted in the chat is copied
  into the sandboxes of later turns.

The models also contain, as ordinary behaviour, other gaps that no property, or
only a property with an exception, is about:

- a withheld unprompted answer returns without `finish`, and its status line
  stays (`TurnFlow`, `message_flow.rs:397`; `HANDOFF.md:46-48` says otherwise);
- a turn or compaction in flight writes back what it had loaded, and a turn
  itself, after an erase was confirmed (`InHand`, `handler.rs:217`;
  `bot-commands/src/lib.rs:263`);
- a history that cannot be read counts as empty and is written back so (`Read`,
  `history/src/lib.rs:40-43`); a compaction whose clear succeeds and whose save
  fails has lost the conversation and counts as done (`SaveFails`,
  `session.rs:94,109`); so does one that could not read the history (`DigestFails`);
- a cancelled turn waits for the compaction before its run (`Compacted`);
- a job whose turn is cancelled or withheld stays pending without a card
  (`AbandonTurn`); expired jobs are never evicted (`Expire`); two turns of one
  requester both pass the limit (`CheckLimits`, `InsertRequest`); a failed
  dispatch leaves a card without its button (`Ack`, `MarkDispatchFailed`);
- a cross handled before the registration is ignored, one handled after the last
  look does not stop the reply (`Lookup`, `SetFlag`); when the reply cannot be sent
  the progress message goes as well (`SettleReply`, `Finish`);
- two overlapping starts of a session, of one client that gave up and retried
  even, leave it with two sandboxes (`Provision`, `Provisioned`), although
  `protocol.rs:102` says that two starts with the same key share one container;
- a silenced bot that replies to the bot is told that it is silenced, and a bot's
  `!skill` or `!stats` is answered wherever it is written, although the comment at
  `handler.rs:291-294` has an unmentioned bot reach the classifier only (`Triage`);
- a message that another thread appends between a task's append and its copy of
  the recent ones is the one the classifier judges, although `handler.rs:404-405`
  calls the two one step (`AppendContext`, `TakeRecent`);
- a delivery that falls between the two halves of `mark_done` is handled again
  (`Forget`, `Record`); the expired window of a message that is then dropped is
  lost with it (`Look`); a proactive slot is spent on an answer the chat limit
  refuses (`ClassifyProactive`, `LimitChat`);
- a failed load of a server or user record resets it with the next save
  (`LoadRecordFails`); overlapping commands lose one change, and overlapping
  changes of the ceiling store another value than the one that runs;
- overlapping writers of the reminders lose one change, a failed write sends
  twice, a restart before the message loses the reminder, and a list that cannot
  be read is written back empty by the next add, erase or delivery (`ReadFails`,
  `reminders/src/lib.rs:37-40`);
- two saves of one skill that overlap may leave a file that mixes the two texts
  (`Spoilt`, `skills/src/lib.rs:338-343`);
- a save or a delegation that was decided by a stale skills listing gives a skill
  that was deleted and created anew back to its first author (`Decided`, `Write`);
- a skills scan that fails once, or skips a file it cannot read, lets anyone
  create a skill over an existing one (`ScanFails`, `ScanSkips`); a scan that races a save caches what it read before it (`Fill`);
- between the validation of a url and its request the name is resolved again
  (`Hop`, `web_fetch.rs:73,77`): that the second answer is public too is not claimed;
- a retry after a lost answer files an issue twice; a restart between a merge and
  its record leaves the merge unaudited (`Restart`); a page that changed between
  two reads makes a prune miss or repeat an issue;
- a startup deployment that retries may replace a manual one; a failed
  deployment's image becomes the checkpoint of the next; a build announced again
  after another one is deployed again; a failed edit of the Discord message
  leaves a deployment half way (`RunStage`'s failures).

## What is proved

TLC checks small instances; the theorems below hold for every value of the
constants that satisfies the named assumption (TLC evaluates each of them on the
instances of the runs). Every proof has the same plan: an inductive invariant
`IInv` that strengthens the properties, one lemma per action (or per way an action
changes the state), and a temporal step. No module that is proved about uses a
RECURSIVE operator.

`LlmSchedulerProofs`, from `RequestsAssumption` (finitely many requests, chat and
background disjoint) and `CeilingAssumption` (a positive ceiling) only:

- `Invariant`: `IInv`, the conjunction of the type invariant, `QueueShape` (each
  queue holds calls of its class that wait or were cancelled, and is strictly
  ordered), `PumpShape` (what pump has in hand), and the three safety
  properties. `WorkConserving` is not inductive alone: it has to know that a
  lock holder is still going to scan, and that a cancelled entry's sender is
  still queued, which the two shapes say.
- `TypeCorrect`, `AccountingExact`, `NoLostWakeup`, `SenderKept`: its consequences.
- `Refinement`: each step of the scheduler maps to a step of `SlotPool` or a
  stutter. `Cardinality` of the holders is tied to `inflight` by
  `SlotAccounting`; a grant to background work needs that the scan has just
  found the chat queue without a live entry.
- `FirstComeFirstServed`: the action property `ArrivalOrderKept`, from the
  invariant and the shape of the order.

`TurnFlowProofs`, from `TurnAssumption`:

- `TurnInvariant`: `IInv` strengthens the properties by `Registration` (between
  which steps the token is registered), `Silence` (nothing is said before the
  turn settles), `Caught` (a cancel in time is still to be seen under the
  registry's lock, or was), `Batches`, `Message` and `Bounded`.
- `CancelWins`, `SavedWhole`, `LineCloses`, `CancelShown`, `TurnTyped`.

`MessageIntakeProofs`, from `IntakeAssumption` (bots are no users, what a message
may be, positive sizes, limits and windows that are numbers):

- `CheckKeepsPromise` is about `RateLimiter` alone: whatever the maximum, the
  window and the times of the attempts, no window of `check` ever holds more than
  its maximum. What a table has to remember is `Remembers`: a user's hits are
  the newest of those granted, and every hit it has forgotten is out of the
  window. That the first live hit exists and is the least is `LeastNatural`, from
  the well-foundedness of the naturals; the library's induction theorems are not
  used, because they take a predicate.
- `IntakeInvariant`: the types, `Holds` (whoever is between `already_seen` and
  `mark_done` is in `processing` under its id), `BotsRouted` (where a bot that
  nobody mentioned can be) and `LimitersKeep` (each of the three tables
  `Remembers` what it let through). `OneDeliveryInHand` is not inductive without
  `Holds`: a second delivery is turned away only because the first one is in the
  table. `WithinLimits` speaks of what was granted, which a table of
  recent hits alone says nothing about.
- `BInv`: every buffer is bounded and shows the newest of its log (`Newest`).
  An entry that leaves a full buffer has `Capacity` later messages behind it in
  the log, those still in the buffer and the new one, because positions in the
  log grow by one at least (`Spaced`); what expires and what is erased is `Gone`;
  what is gone stays gone when the log grows or time passes. `EndShows`,
  `AppendShows` and `EraseNewest` say how the positions change when a buffer
  loses its first entries, gains one or is filtered. What `Without` returns for a
  buffer of any length (`WithoutEmbeds`) is proved by induction over its
  prefixes, as a set of naturals (`Induction`).
- `VInv`: the last entry of a task's copy is its own message, one appended between
  its append and the copy, or its own was erased (`LastIsFit`, `Fit`). A copy that
  is fit stays so, because the log only grows and an erase only takes names away
  (`GoesOn`, `FitLater`); that a fresh copy is fit follows from `BInv`: the buffer
  shows the newest of the log, and the message is in it or is `Gone`. A
  copy taken after the message expired may be empty: then it is judged alone.
- `OneDeliveryAtATime`, `NoBotLoop` (`BotsDoNotConverse`), `LimitersHold`
  (`WithinLimits`), `BufferIsNewest` (`ContextIsNewest`), `RightOneJudged`
  (`JudgesItsMessage`), `IntakeTyped`.

`SandboxSessionsProofs`, from `SandboxAssumption` (`None` is no turn, box or
user), for any number of users, turns, connections and boxes:

- `Invariance`: `IInv` strengthens the types and the two safety properties by
  `Provisions` (a container under provision is in one task's hands only, and no
  request runs in it), `Services` (what a request runs in was started, and what
  a timed out command destroyed is gone or a fault's), `Boxes` (a fresh id is
  nowhere, a listed one was started, a requested container is waited for),
  `Requests` and `Down` (a stopped daemon holds nothing). Neither property is
  inductive alone: that a destroyed box may leave the map needs `Services`, that
  a late container is in somebody's hands needs `Boxes`.
- `TypeCorrect`, `HandedOutAlive` (`TrackedRuns`), `NothingLeaks`
  (`OnlyFaultsLeak`): its consequences. The run's two boxes and connections are
  the small instance; the theorems cover overlapping starts of several users.
- `NoticeIsTrue` (`NoticeMeansReplaced`), from `NoticeInvariance`: each turn waits
  for the one request it sent (`Linked`), and what it has seen is its box or one
  that has left the map (`Sees`). The step that matters is `NoReturn`: ids are
  fresh, so a box that left the map never comes back to it, and "unknown"
  means another workspace however many daemons and requests came between.

`DeploymentProofs`, from `DeploymentAssumption` (bounds are numbers, `None` is
no commit or request), for any number of requests,
commits, faults, attempts and restarts:

- `DeploymentInvariant`: `LockHeld` (the lock is with the one request that looks
  at the containers or changes them), `KindsKnown`, `ImagesPulled`,
  `ChatbotReplaced`, `DaemonReplaced` (what the commands of a plan have done so
  far is still so), `ServiceWhole`, `StoppedClean` (a stop that met no request
  leaves no chatbot behind that nobody starts) and `LastIsBuilt` (the last event
  is the last build deployed). `PairMatches` and `PreviousStaysWhole` say nothing
  of the middle of a plan: a failure there becomes a state they speak of, so
  the invariant has to follow the plan command by command.
- `OneDeploymentAtATime`, `ReleasesStayWhole` (`PreviousStaysWhole`), `PairsMatch`,
  `NoBuildTwice` (`BuildDeployedOnce`), `DeploymentTyped`.

`SessionProofs`, from `SessionAssumption`, for any number of tasks, restarts and
failures of the disk:

- `SessionInvariant`: `IInv` has a half that holds however tasks overlap and one
  about those that have not. The first is the types, `OfItsKind` (what follows
  what in a task) and `Buried`: what was cleared away belongs to turns that are
  over, is not in the file, and nobody holds it (`Held` adds to `InHand` the text of
  an open write). The second is `Serial`: of the one task that is at work,
  `Remembers` (what was said is in the file or in its hands to be written),
  `Retries` (a full context that was not compacted is on record, or in the hands
  of a compaction that retries) and `Leaves` (whoever ends a row has left the
  conversation).
- `ErasedIsGone` (`ErasedStaysErased`): without any hypothesis about order. An erase
  under turns and compactions in flight is the case that matters: `Clear` takes
  the name from every open file, so a write in progress brings nothing back, and
  what comes back was loaded before.
- `NothingForgotten` (`HistoryKept`) and `FullContextStays` (`FullContextRetried`):
  while no tasks have overlapped, which `session_two_turns` shows to be needed.
  Failures of the disk are steps like any other; what they may forget is in
  `lost`, and the proofs show that a failed clear, a save that cannot begin, a
  compaction that cannot read and a stop outside a save forget nothing.
- `UsageCounted` (`ActiveIsOpen`): also while the database answers
  (`DbAnswers = {TRUE}`), as in the run.
- `OneConversation` (`OneOpenConversation`): a user has one open conversation while
  the database answers, **however tasks overlap** and whenever the bot restarts;
  `Join` holds the map's lock across its queries, and that is all it needs.
- `UsageRecorded` (`UsageOnOneRow`): the two together.
- `SessionTyped`.

`PendingJobsProofs`, from `OwnerAssumption` and `PendingAssumption`:

- `OwnerAuthorizes` (`OwnerDecidesFirst`): for any jobs, people, buttons and presses
  in flight, without any hypothesis about their order. `OInv` says who gets past
  the admission (`Admitted`), that a job nobody prepared has no trace
  (`Unprepared`), and that a user's undecided request shows at most the
  approval card, whose presses in flight are all on that card (`Undecided`).
- `ApprovalRunsOnce` (`DispatchedAtMostOnce` when only the buttons of the approval
  card are pressed): concurrent presses of it start one run, because
  `AInv` ties the stage to the one press that works on the job.
- `SerialRunsOnce` and `SerialDecisionsStand` (`DispatchedAtMostOnce`,
  `TerminalIsFinal`) under `Serial`, one press at a time and updates of the card
  that Discord accepts, which is what `jobs_serial` checks: `InStep` keeps the
  card and the stage in step. Beyond that hypothesis both are false:
  `jobs_double` is the counterexample.

`ServicesProofs`, from `ServicesAssumption`: the assumptions of the parts (what
kinds of commands there are and a positive `ACCESS_CACHE_TTL`; an accepted delay
is a number and the delivery loop is no other writer; no skill is `None`; the bot
has neither merged nor edited anything in the repository at first; limits,
windows and hops are numbers, and web calls are finitely many at once), an owner
who is no requester, bounds that are numbers, `None` apart. Each part is proved
by itself, for any number of handlers, users, names, urls, commands, faults and
restarts, with its invariant, a lemma per action and a lemma that the invariant
implies the property; names start with the part's. Then `<Part>Invariant` lifts
it to `Services`: where the part runs, `Next` is its `Next`, and where it does not
run it never will.

- *Configuration*. `ConfigIInv` is `Tables` (types), `Tasks` (where a command can be
  by its key; that an update of the access record has `write_lock`; that what it
  is about to save is its change of what is stored **now**), `Alone` (outside
  the overlaps in `unsure` one handler is at work on a key), `InForce` (what runs
  is what is stored, unless a command is between the two), `Composed` and `Ages`
  (whoever is configurer in a snapshot and no more in storage ceased to be one
  after the snapshot was taken). `NoChangeLost` (`ChangesCompose`): the access
  record's half comes from the lock and the fresh load under it, without
  exception; a failed save that storage has executed composes like one it has
  answered; the other records' half holds where nobody overlapped.
  `RevocationTakesHold` (`RevocationBites`) is an action property, from `Ages` and
  the age limit of the cache. A snapshot that was already stale when it was
  written to the cache is the case that needs `Ages` for a load in flight too.
- *Reminders*. `RemindersKept` (`NoneLostNoneTwice`), for writers that overlap in
  any way. `RemIInv` is the types, `RemTraced` (of every reminder: sent or in the
  loop's hands only when it is due, added by one call, and nowhere before) and
  `RemAccounted` (of each that is not at risk: whoever has a list in hand that will
  be written has it there while it is confirmed, unless it is what that write
  takes away, and nobody has it once it is out of the file). The step that
  matters is a write while others are between their load and their own: it puts
  at risk what it adds or removes and nothing else, because every other reminder
  is in all the lists alike.
- *Skills*. `SkillsWhole` (`SkillsKept`). `SklIntact` says that a file outside `crossed`
  is open to one save at most, is cut short while it is, and is whole otherwise,
  for operations that overlap in any way; a deleted file's writer writes to
  nothing (`ShutFor`). The rest of `SklIInv` follows a save from the listing it
  decided by to the cache it clears: the author in the hands of whoever writes is
  the author on disk as long as nobody overlapped and no listing was stale. That
  a stale listing has to be excepted is what the proof showed: a save decided by
  one gives a skill, deleted and created anew through the other handle in the
  meantime, back to its first author.
- *GitHub*. `PrivilegesKept` (`PrivilegeAccounted`). `GitCallsFit` says what a call
  has still to send, by its kind: a merge sends one merge and only after
  `MayMerge`, an edit one patch, to an issue of the caller's; `GitPrivileges` that a
  merged request is in the audit, in the hands of the call that merged it, or
  its record was lost to the disk or a restart. Numbers are never reused, so what
  `MayEdit` read of an issue stays true until the patch arrives.
- *Web tools*. `BudgetsHold` (`WebWithinBudget`): `WebLimiter` (the slots table holds
  the newest grants, and what it forgot is out of the window; two grants that
  lie `SlotLimit` apart are a window apart), `WebPaid` (the scrapes of a month and
  the credits reserved and not yet spent are no more than its credits),
  `WebHops` (what a call asked was validated and no more than the redirects it
  has used).
- *Presses*: `ApprovalsHold` (`ApprovalHolds`), from `OInv` and `AInv` of
  `PendingJobsProofs`, instantiated as `Approval`; `ApprovalIsPresses` says that the
  two instances of `PendingJobs` are one.

### Only model-checked

- Liveness and ENABLED: `Progress`, `CancelEndsTurn`, the dispatch and deployment
  that end, sandbox calls that end and idle sandboxes that go.
- Induction over data: `LeaderboardAdds` (sums over rows and events) and
  `SaysWhatItDid` (listings built by filtering and folding over a repository).
- The expected violations, by their nature.

## Not modelled

Every component with state is modelled. What is left out, and why:

- Sandbox: `close` (no caller), path and command validation, file contents.
- Deployment: the permission table (one row per user, added and looked up by
  single statements), the `latest` tag and digest images, change logs.
- GitHub: reads of runs and logs, `post_issue_comment` and `create_error_issue`
  (no caller).
- Leaderboards: who may see them, display names, saturating sums.
- Configuration: the one-time import of legacy files.
- Memory: a text per user, saved as a whole by one statement.
- Migrations: one sequential task at the start.
- Formatting, prompts, media, HTTP request building, Discord command tables, the
  stream parser of the LLM client: text and I/O without shared state.
