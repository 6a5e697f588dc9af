# HiAgent in TLA+

HiAgent is an agent service: a FastAPI backend (`src/backend`) runs a conversation's turns
as asyncio tasks around an LLM, tools and sandboxes, and streams their events to a web client
(`src/web`) and to chat providers. This directory holds TLA+ models of the parts whose
correctness depends on interleavings, cancellations and failures, the TLC runs that check them
on small instances, and TLAPS proofs for every value of the constants. Paths below are relative
to `src/backend`.

## The system

| Component | State | Operations | Hard behaviour | Here |
|---|---|---|---|---|
| Sub-agent manager `agent/runtime/sub_agent_manager.py` | configs, tasks, results, executors, semaphore, reservations, announced agents | `spawn`, `wait`, `_run_agent`, `cleanup` | dependency failure policy, cancellation at any await, announcements from two places, interrupted cleanup | `SubAgents`, `TaskGraph` |
| Conversation turns `api/routes/conversations.py`, `agent/runtime/orchestrator.py` | the entry (lock, turn task, idempotency cache, orchestrator with messages and cancel event), the row and messages in the database | send, cancel, retry, bootstrap, reconstruction, reaper, delete | requests racing with turns, a five-second force, a signal that outlives its turn, eviction under a running turn | `Conversation` |
| Planner turn and plan state `planner.py`, `tools/meta/planner_state.py` | steps, spawned and waited agents, limits | `plan_create`, `agent_spawn`, `agent_wait`, the policy of an explicit turn | a second plan in a turn, limits that count again | `Planning`, `SubAgents` |
| Agent message bus `tools/meta/send_message.py` | mailboxes, cursors | send, broadcast, receive, clear | a cleanup that is cut short leaves letters | `Planning` |
| Agent loop `agent/runtime/engine.py` and its three runtimes | the message history, its working copy, skills, iterations | a turn: model calls, batches of tool calls, signals, rollback | a batch cut in the middle, a history the model rejects | `AgentLoop` (partly) |
| Compaction and memory of a turn `agent/context/compaction.py` | a history | `compact` with its summaries and shortening | what is dropped, what stays paired | `Compaction` (partly) |
| Event emitter and SSE queue `api/events.py`, `api/sse.py` | subscribers, pending count, bounded queue | `emit`, queue subscriber, the generator | backpressure, which events are dropped | `Delivery` |
| Database subscriber `api/db_subscriber.py` | persistence queue, worker, pending writes | subscriber, worker, drain | idle timeout against enqueue, retries of unsure commits, shutdown | `Delivery` |
| User prompts `api/user_responses.py` | prompt row, local waiters | register, wait, submit | timeout against answer, two processes | `Channel` |
| Public v1 API `api/routes/v1.py` | runs, idempotency keys, event log | create, follow up, cancel, stream | repeated creates, a cancel racing the turn's end, history against live events | `AgentRuns` (partly) |
| Messaging channels `api/channels`, `api/routes/channels.py` | bots, tokens, accounts, sessions; message log, responders, timers | linking, webhooks, replies | repeated webhooks, overlapping transactions, a responder meant for another turn | `Channel`, `Links`, `Streaming` (partly) |
| LLM client `agent/llm/client.py` | an attempt of a stream | `create_message_stream` | a stream that breaks and begins anew | `Streaming` (partly) |
| Tool executor `agent/tools/executor.py` | sandbox sessions per template, cached artifacts | `execute`, `cleanup` | a look and then an await, a cleanup under a call | `Sandboxes`, `Artifacts` (partly) |
| Sandbox pool `agent/sandbox/e2b_pool.py` | paused sandboxes, reservations | `acquire`, `release`, `drain` | a reservation seen by others, a release after the drain | `Sandboxes`, `Lending` |
| Sandbox providers `agent/sandbox` | sandboxes | create, pause, connect, kill | expiry, a call that has happened and failed | `Sandboxes` (partly) |
| Shell sessions, background tasks `tools/sandbox/shell_*.py`, `tools/local/background_tasks.py` | processes, files of a session; scheduled notices | run, wait, write, kill; schedule, cancel | files an earlier command left, a cancel as the notice is sent | `Background` |
| MCP client and bridge `agent/mcp`, `api/routes/mcp.py` | rows, configs, clients, tools; sessions, pending calls | the requests; connect, call, close | overlapping requests, a stream that ends under its calls | `McpServers`, `McpClient` |
| Skills `agent/skills`, `api/routes/skills.py` | directories, rows, bundled skills | install, uninstall, switch, list | rows written from a stale snapshot | `SkillShelf`, `AgentLoop` (partly) |
| Long-term memory `agent/memory/store.py` | facts, ledger, entries | upserts, `/forget`, store, delete | upserts of several conversations | `Memories` |
| Artifacts `agent/artifacts`, `api/artifact_previews.py` | rows, files, previews, locks | extract, serve, delete, render | a lock that leaves its table, a row written after its deletion | `Artifacts` (partly) |
| Persistence layer `agent/state` | tables | repositories | commits | the tables of the models above (partly) |
| Web client `src/web` | transcript, event stream | reconnect, merge | history against live events | not modelled |
| Authentication, settings, migrations, evaluation harness | tables, files | configuration, I/O | none of the kind above | not modelled |

The components meet as follows. A request, of the web client, of the public API or of a chat,
finds or reconstructs the conversation's entry and, under the entry's lock, starts a turn task.
The task runs the orchestrator, or the planner, which owns a sub-agent manager, a plan and a
message bus; both run the agent loop, which compacts its history, activates skills and makes tool
calls; the executor holds sandboxes from the pool, calls MCP clients, starts shells and extracts
artifacts. Everything emits events through the entry's emitter, whose subscribers are the SSE
queue, the database subscriber and the responders of a chat. Cancelling a turn is a flag that the
agent loop polls and, five seconds later, `task.cancel()`. The backend runs on one event loop, so
what interleaves is the code between two awaits; only the database and the sandboxes are shared
with other processes.

## Modules

| Module | Role |
|---|---|
| `SubAgents` | the manager, its agents and the planner turn |
| `TaskGraph` | what a scheduler of dependent tasks promises; `SubAgents` implements it |
| `Lending` | what a lender of things used by one reader at a time promises; `Sandboxes` implements it |
| `Conversation` | one conversation: entries, turns and requests |
| `Channel` | one linked chat: inbound messages, responders, questions and their answers |
| `Links` | how a chat gets to a conversation: bots, tokens, accounts, sessions |
| `Streaming` | the text of a turn, from the model's stream to the chat |
| `Delivery` | events on their way to the web client and to the database |
| `AgentRuns` | the runs of the public API |
| `AgentLoop`, `Compaction` | a runtime with its loop and history; what the Observer makes of a history |
| `Planning` | plan, delegation and message bus |
| `Background` | shell sessions and scheduled notices |
| `Sandboxes` | executors, pool and provider |
| `McpServers`, `McpClient` | the servers of a user; one client |
| `SkillShelf`, `Memories`, `Artifacts` | a user's skills; what is remembered; files and previews |
| `MCSubAgents`, `MCConversation`, `MCChannel`, `MCEvents`, `MCServices` | instances for TLC |
| `SubAgentsProofs`, `ConversationProofs`, `SandboxesProofs`, `AgentRunsProofs` | theorems about the module of that name |
| `ChannelProofs`, `DeliveryProofs` | theorems about `Channel`, `Links` and `Streaming`; about `Delivery` |
| `ServicesProofs` | theorems about `McpClient`, `Background`, `AgentLoop`, `Artifacts`, `Planning` |
| `StoresProofs` | theorems about `SkillShelf`, `Memories`, `McpServers` |

Each module names the files it models at its head and each action the handler or the part of it
between two awaits; `map` in `PROJECT.json` gives the lines. Operators whose names begin with
`Mutant` are altered copies of the definition next to them. They show that a property can fail,
and nothing else uses them. The modules of an MC module share no state: its variable `part` says
which a behaviour is about, and what the others do is rest. The components do meet in the code;
where one depends on another, the model of the one has the other's behaviour as choices (the
outcome of a stage in `SubAgents`, what a tool returns in `AgentLoop`, whether a turn hangs in
`AgentRuns`).

### SubAgents

An agent's `pc` is the await its task is suspended in: `waitdeps` (the gather over its
dependencies), `starting` (AGENT_START), `queued` (the semaphore), `running` (the runner),
`closing` (`executor.cleanup()` in the finally clause), `handoff` (the two handoff events),
`emitting` (the terminal events), then `done` or `cancelled`. `cancelling` holds the tasks whose
`cancel()` has been called and whose CancelledError has not arrived yet; it may arrive at each of
those awaits (`CancelOutside`, `CancelRunning`, `CancelClosing`). `result`, `reserved`, `spent`,
`emitted`, `registered` are the manager's dictionaries and sets. `holders` are the agents whose
executor has sandboxes in its table. `ToolExecutor.cleanup` empties that table before it destroys the
first (`BeginClose`), so a cancel inside it puts the agent among the `lost`, and the manager's own call of it
finds nothing. The planner walks through
`turn`, `waiting` (agent_wait), and the phases of `cleanup()`: `gathering`, `announcing`,
`closing`. A second force-cancel of the turn may interrupt each phase (`Interrupt...`); the next
turn then starts on the same manager with what is left.

Abstractions: ids are numbers in spawn order (the code's uuids are only compared, and its
dictionaries keep that order); a stage of an agent is its outcome (success, failure with a
timeout among the failures, handoff, cancelled); a token reservation is one unit and a finished
agent's usage a choice from `Usage`; the results of a gather over dependencies are taken when
all of them are done, where the code stores them one by one in order. An event in flight when a
cancel arrives is delivered or lost, by choice.

### Conversation

`stage` is where a turn stands: `boot` (bootstrap), `fresh` (created, not yet in `_run_turn`),
`hook` (`before_turn`), `setup` (after TURN_START: skills and attachments), `loop` (the agent
loop), `final` or `stopping` (its end is being emitted), `cancelling` (the CancelledError
handler is reporting), `done` with an `outcome`. `rpc` is where a request stands: `rebuilding`
(`_reconstruct_conversation`), `queued` (about to take the lock), `waiting` (send, for the
running turn, without the lock), `building` and `switching` (send, in the router or a change of
mode, with the lock), `forcing` (the background task of a cancel), `stopping`, `forced`,
`refusing`, `refusingForced` (a retry that waits for the turn it cancelled, with the lock). Each
reconstruction makes a new entry; a request keeps working on the entry it found.

Abstractions: the history is the sequence of user messages (what the assistant adds is rolled
back with them); the five seconds and the hour of the reaper are choices; TURN_START is saved at
once although a queue lies between; the reconstruction reads the messages when it installs its
entry. `asked`, `started`, `ended`, `made` and `outcome` are history variables for the
properties. `asked` grows where the code calls `cancel()` for a turn on purpose.

### Channel, Links, Streaming

In `Channel`, `inbound` is where a webhook delivery stands in `_handle_channel_message`: `fresh`
(the log has no row for it), `logged`, then `answering` (in `submit_response`), or `joining`
(subscribed, fetching its attachment) and `waiting` (for the running turn), and `processed`.
`turn` is the turn a delivery starts, `aborted` if its task ended cancelled. `pc` is where
`emit_and_wait` stands: `emitting` (the responders handle ASK_USER; `todo` has those that have
not), `polling` (reading the row), `sleeping`. `row` and `reply` are the persisted prompt,
`waiter` the future in `_waiters`, and `submit` an answer's place in `submit_response`. `subs`,
`timer`, `latest` and `pending` are the emitter's responders, their running timeout tasks, the one
each can still cancel, and the router's `_pending_prompts`. One account, session and entry
(eviction is in `Conversation`); a turn either asks or ends; a responder's sending is one step, as
failures to send are swallowed. Turns of a web client are left out, their answers (`Submits`) not.

`Links` has the rows before that: a job is a message of the chat (`text`, `/start`, `/new`,
`/unlink`), a request of a user (`token`, `web` for unlinking there, `save` and `disable` for a
bot) or the failure of a Discord client, and `at` the statement it has come to. Rows are numbers in
the order of insertion; a query that expects one row and finds two fails the job. `raced` and
`disturbed` are the bots whose transactions overlapped.

`Streaming` numbers the deltas of a turn; `said` counts them, `answer` is `extract_final_text`.
`flushTimer` and `flushes` are the responder's timer and the tasks of `_flush_buffer` that have not
begun, `sending` the messages on their way, which may overtake each other.

### Delivery, AgentRuns

An event in `Delivery` is its number in the order of the calls of `emit`, and `kind` says how
each queue ranks it. `starting` has the subscriber tasks the event loop has yet to start, `live` is
the queue of the stream, `queue` the one of the worker, `job` its write with step and attempt,
`stored` the rows, and `count` the pending writes a shutdown waits for. A commit that raises may
have committed. `abandoned` marks a worker whose idle timeout came with a put.

In `AgentRuns` a run and the conversation of a create bear the name of the request that made
them. `call`, `answer` and `known` are a request's place, its reply and what it has read; `stage`
and `status` a run's task and its row; `log` the stored events of each conversation and `view` what
each stream has shown. An update of the row that raises may have been made (`RecordFails`, `StopFails`).
`early` marks a conversation that got a message before its first turn had started. `Crash` stops the server once: tasks end, and rows stay.

### AgentLoop, Compaction, Planning, Background

The loop works on `messages` and the runtime keeps `kept`, which it replaces when the loop returns.
A message is a record of its kind, batch and weight. The model's answer is any batch of up to
`MaxCalls` calls of a few kinds (a tool, a skill activation, the ones that end a turn), a tool's
result good or bad; a cancel may come at each await. Compaction weighs in units of the shortest
text the code shortens nothing below. It starts from the texts a turn has made and shortens one text
a round until the budget fits, nothing is left to shorten, or 32 rounds are over; a result that is
previewed keeps `PreviewWeight`.

`Planning` changes plan and bus in one step per tool, as the tools do. How workers run is in
`SubAgents`; here a worker runs, reads its mail and ends. `Background` lets the processes of the
sandbox run between the commands of a call: `dir` is the directory of a session, `since` what was
written after its marker. A command may leave the session's shell before that has recorded its exit
code (`Quits`).

### Sandboxes, McpServers, McpClient

An actor of `Sandboxes` is the tool call or the cleanup of an executor. `at` is its await and
`hand` the sandbox it works with; `stopping` holds the calls whose CancelledError is on its way.
The pool has one key. Time, quotas and the checks of age are choices. `mishap` is set by whatever
fails, expires or is cancelled, because `PoolKept` promises that nothing is lost only without it.
To `Lending` a sandbox is lent to an executor that has it as its session or in hand, and on the shelf
when it is in the list of the pool.

`McpServers` has the requests of one user on the three tables in memory and the rows, with the
lock where the code takes it and the looks it makes outside; `overrun` has the names under which an add or
a rename was put over a client. `McpClient` is one client, on either transport; `table` has the
calls whose futures are pending, `stream` the reader tasks, `sid` the session, and `unheard` the calls that
were sent when nobody read the stream any more. The server is external and answers, refuses, forgets or says nothing.

### SkillShelf, Memories, Artifacts

`SkillShelf` has the directories and the rows of one user; a request that lists or changes them
gives up the event loop at every statement, and `late` marks one under which something changed.
`Memories` has one fact and one entry of a user under unique indexes; what the user says comes
from `Scripts`, and `faded` says that the last commit kept a fact gone stale since it was read. `Artifacts` has one file with the calls of a turn that extract it, and the
preview of one presentation with its lock, its two directories and its manifest.

## Runs

| Run | Question | Bounds |
|---|---|---|
| `turns` | Do permits, executors, reservations, announcements and waits survive handoffs, cancels and interrupted cleanups, and do tasks and cleanups end? | two agents, one permit, one handoff, a token budget, two turns |
| `stale` (violation) | Is the agent named by `redundant_active_agent_id` active? | two agents, two turns |
| `conv_turns` | Do concurrent sends, a retry and a cancel ever run two turns, change the history under a turn, force the wrong turn or answer a keyed message twice? | two sends of one key, one retry, one cancel, one entry, a cache of one answer; the two sends are alike (symmetry) |
| `conv_eviction` | With the reaper, a deletion and reconstruction: is every end announced, does a cancel end a turn that hangs, and does every send return? | one request of each kind, two entries |
| `conv_stop` (violation) | Does the cancel signal stop the turn it was meant for only? | one send, one cancel |
| `conv_retry` (violation) | Does a retry re-run the message it stopped? | one send, one retry |
| `channel` | Do a turn, its prompt's row and the history agree on one answer, is a repeated webhook processed once, does a committed answer end the wait? Does a chat's text enter its user's conversations only, and is a chat or a bot lost? Is every streamed delta accounted for? | three deliveries of two messages, one question, one answer through another process; two bots, one token, twelve triples of jobs; two rounds of two attempts, three deltas, a threshold of two |
| `chan_answer` (violation) | Does every turn of the chat have a responder when it ends? | two messages, no question |
| `events` | Is the count of pending writes right, are rows and stream in order, is a structural event dropped in vain, does the drain end? Does a key have one run, is a stream faithful, who revises an outcome, does a cancel settle? | queues of two, three events of three kinds, two attempts, one responder; up to three requests on one conversation, one restart |
| `run_cancel` (violation) | Is a run whose turn was cut off recorded as cancelled? | as `events` |
| `services` | Twelve parts, listed below, one at a time | below |
| `agent_chain` (violation) | Are tool calls always followed by their results? | as `services` |

`services` asks of each part:

| Part | Properties | Bounds |
|---|---|---|
| `agents` (`SubAgents`) | `DependencyPolicy`, `ReplanClimbs`, `ImplementsTaskGraph` | three agents in every small dependency graph and failure mode, one turn |
| `sandboxes` (`Sandboxes`) | `PoolKept`, `ImplementsLending` | two executors, two sandboxes, a pool of one |
| `mcp` (`McpServers`) | `ClientsAgree` | every set of up to three of eight requests on two names |
| `client` (`McpClient`) | `NoCallStranded` | two calls beside initialize, three sessions, two candidate streams |
| `loop` (`AgentLoop`, `Compaction`) | `RequestSound` | each kind of runtime, two turns for the orchestrator, three iterations for planner and worker, two calls a batch, one skill, a budget of six |
| `shells`, `notices` (`Background`) | `ToldTruthfully` | two processes of one session, one file, one notice |
| `planning` | `TeamKept` | two plans in a turn, or two letters, or two turns with a cleanup cut short; two steps, two workers |
| `skills` (`SkillShelf`) | `SkillsShown` | every three requests about a bundled skill, one of the user and one of the same directory |
| `memory` (`Memories`) | `Remembered` | two messages in one or two conversations, one `/forget`, one compaction, one repetition; two calls of `memory_store` |
| `files`, `previews` (`Artifacts`) | `ArtifactsShown` | two calls, two artifacts, two turns; three requests for one preview, two render slots |

The bounds let the hazards happen that the property of the run is about, with three exceptions. Two
reconstructions of one conversation at once (H16 of the list in `PROJECT.json`) need two entries beside the first;
`conv_turns`, which checks `OneTurn`, has one and `conv_eviction` two, so for them there is only the theorem,
which speaks of each entry. That 32 rounds of shortening run out (H31) takes longer histories and texts than
`services` has, and no property is about it. And adds and renames put over a client (H28) happen in `services`, but
`ClientsAgree` asserts little of a name where one did. Two agents are enough for a dependency, a queue for the
permit and a cancel between them; three for a chain and for a join of two dependencies; a second
turn for what an interrupted cleanup leaves. One retry and two sends give a waiter that wakes
while another request starts a turn; two entries give an orphan turn next to a new entry. Three
deliveries give a repeated webhook and a second message that answers the first one's question or
waits for its turn; an answer in this process that is not from the chat takes the same path as one
from the chat. Queues of two with three events are full, with structural and with droppable
events in either place. A pool of one with two executors has a reservation another acquires, a full
pool and a release after the drain. Three requests on MCP servers or skills give one that works on
what the second has changed while the third is under way; three requests for a preview give one
that holds a lock, one that waits for it and one that finds it gone. The number of turns bounds
nothing more: every request starts at most one. `MaxEntries` holds the reaper back so that each
request that may still have to reconstruct can. Deadlock is not checked: the requests of an
instance are finite and the system then stops.

### What a passing run does not promise

Some overlaps are known to break what a property says. The property or the instance excludes
them by name, and they are behaviours of the code that a reader should know of:

* `McpServers`, `overrun`: an add, and a rename, look at the names before they take the lock. A
  list or another add of that name in between connects a second client, which nobody closes; of
  three requests an add can follow a remove that an update has not noticed. `Compatible` says of
  which requests this is not possible.
* `McpClient`, `unheard`: `_send_legacy_rpc` does not ask whether its reader is alive, so a call sent
  after the end of the stream waits for its timeout.
* `SubAgents`, `lost`: `ToolExecutor.cleanup` empties its table of sandboxes and then destroys them one
  after the other. When the manager's `cleanup()` cancels an agent in the middle of that, its own call of
  the executor's cleanup, made for agents which did not get that far, finds an empty table and the
  rest is lost. `SandboxesKept` says that they are lost in no other way.
* `AgentRuns`, `early`: a repeated create is answered while the first still looks up its locale; a
  message sent to that conversation then overlaps the first turn, and a stream cannot tell the
  events of the two apart.
* `AgentRuns`: an outcome may still be revised by a cancel that read the run while it was under
  way, and from completed to failed by the run's own task when the update that recorded it was made
  and raised; `OutcomeRevised` says that nothing else can. A restart cuts streams and leaves runs as
  they were recorded. `StreamFaithful` does not say that a stream misses nothing: what is emitted
  between its look at the history and its subscription (`v1.py:888-927`) may be missed.
* `Delivery`: `abandoned` is an idle timeout of the worker that comes with a put; the event stays
  until the next one or for ever. `DropsJustified` is about structural events; of the lossy kinds a
  full queue drops whichever comes first.
* `Links`: two first messages, or two `/start`, that overlap can leave a chat two open sessions or
  accounts (`raced`), and every later query that expects one fails; changes of a bot that overlap or
  are refused half-way (`disturbed`) can leave it called active and unreachable.
* `Streaming`: a question and an error discard the buffer, and a message whose sending fails is gone
  (`dropped`); messages of two flushes may overtake each other (`swapped`); an answer that was flushed
  before the end of the turn is sent again (`again`).
* `Sandboxes`: what fails, expires or is cancelled (`mishap`) can lose a sandbox until its lifetime
  ends, as can a release after the drain; a release cancelled between reservation and entry keeps
  its slot (`cut`). `Exclusive`, a part of `PoolKept`, and `ImplementsLending` hold all the same.
* `Compaction`: each of the 32 rounds of shortening halves one text, the first that can be halved. A few
  results of 5,000 characters and a summary use them up before a result of 480,000 behind them is
  touched, and the history stays over its budget. In the code each result of a batch counts, so
  parallel calls get there with fewer batches and larger budgets.
* `AgentLoop`: a batch whose skill activation raised (`broken`) stays without results, and a
  compaction may begin its suffix with results whose calls are folded away.
* `Planning`: a cleanup cut short leaves agents and letters to the next turn (`leftover`); a second
  plan counts its workers anew.
* `Background`: a session name that is taken over while another command of it lives (`overlapped`)
  may be told that one's exit code. `exit 1` in a command ends the shell that would write its
  code, and `shell_wait` takes a missing file for 0.
* `SkillShelf`: requests that cross (`crossed`), skills that share a directory (`replaced`), and a list
  that drops the row by which a bundled skill was off (`Relisted`).
* `Memories`: the active fact is always what reached the store last, unless that commit kept a row which
  another had made stale since it was read (`faded`). What was told last may differ: a fact may be lost or
  come out of order (`awry`), as when a compaction tells again what was said before `/forget`; and a
  call that updates an entry just deleted reports success and keeps nothing (`missed`).
* `Artifacts`: after a failed render the lock is gone from the table while others wait for it, and
  renders then overlap (`entwined`, `faulty`); calls of one turn that overlap may make two artifacts
  of one file; a row may be written after its deletion while a write is left.

### What the violations show

* `stale`: a cleanup that a second force-cancel interrupts leaves agents without results;
  `redundant_active_agent_id` goes by missing results, so the next turn's spawn of the same task
  is refused in favour of an agent that no longer runs.
* `conv_stop`: only `finalize_conversation_turn` clears the cancel event. A turn that is
  cancelled and then ends in its setup, or is force-cancelled, leaves it set; the next send
  starts a turn that stops at once and is reported as cancelled.
* `conv_retry`: a turn that stops by the signal has restored the messages from before it; the
  retry then takes the last user message of the turn before, rolls that back and re-runs it.
* `chan_answer`: a message that comes while a turn runs subscribes its responder before it waits;
  the end of that turn unsubscribes both responders, and the second turn has none.
* `run_cancel`: a turn that stops after it has produced text returns that text, and the run is
  recorded as completed unless the text is exactly "Cancelled.".
* `agent_chain`: `apply_mid_turn` may raise inside `process_tool_calls`, after the message with the
  tool calls was appended and before their results are; the history keeps it that way.

One more behaviour of the code is in the model with nothing in the repository to check it
against: after a bootstrap that failed or was aborted the placeholder orchestrator stays, counts
as ready, and every later turn in the same mode fails (`RunFailed` of `Conversation`). Likewise in `Channel`: an
answer committed while the wait for it times out (`user_responses.py:101`) is reported as accepted and
no turn ever sees it; `AnswersKept` speaks of answers that a turn got, and `AnswerArrives` allows the
timeout.

### Fairness

`FairSpec` of `SubAgents`: weak fairness of each agent's steps and of cleanup's. The event loop
runs every ready task, the runner is inside `asyncio.wait_for` with AGENT_TIMEOUT_SECONDS, and the
semaphore wakes waiters in order. The planner's own steps and second force-cancels are not fair.

`TimerFairness` of `Conversation`: a CancelledError is delivered, its report is emitted and the
five-second timers fire; a turn itself may hang for ever. `CancelEnds` needs no more. For a planner
turn the delivery includes `cleanup()` in the turn's finally clause, whose end is `CleanupEnds` of
`SubAgents`. `SendReturns` states its additional assumption in its antecedent `Progress`: every await
of a turn and of a request ends, as the iteration limit and the timeouts of client and tools make
them.

`PollFairness` of `Channel`: for each question, the responders' sending and the look at future and
row go on, since sends fail or end and the loop of `_poll_or_wait` sleeps a quarter of a second.
Nothing is assumed of answers or timers, so `AnswerArrives` holds by the polls alone when the
submitting request fails after its commit.

`DeliveryFairness`: the event loop runs the subscribers' tasks and the worker, whose commits return
or raise. `DrainEnds` follows because retries are bounded. `RunsFairness` of `AgentRuns`: updates and
sends end, timers fire and ready tasks run; a turn may hang for ever, and a run's task may fail to
record itself, which `CancelSettles` names. The other modules state no liveness property, so no
fairness is assumed of them.

## Proofs

All theorems hold for every value of the constants that satisfies the ASSUMEs, which are the
ones the code states: sizes of queues, limits and numbers of attempts are positive, a placeholder is
none of the things it stands for, requests of different kinds have different names, only an
update gives an MCP server another name, a message of the public API is for a conversation that some
create makes, and what texts, previews and summaries weigh are natural numbers with a longest summary. The bounds
of the instances (`Scopes`, `Casts`, `Scripts`, `MaxProcs`) are constants too, and the theorems hold
whatever they are.

`SubAgentsProofs` proves `Spec => []IInv`. The safety properties are not inductive on their own:
`DependencyPolicy` needs that an agent before its terminal events has no result and one after them
has one (`Resolved`), that dependencies are older agents (`Staged`), and that ids not yet given out
have left no trace (`Unborn`), or the next spawn could inherit one; `WaitedHaveResults` and the
end of `cleanup()` need what each phase knows (`Phases`); `PermitsConserved` needs a cardinality
lemma for an agent entering or leaving the semaphore. There is one lemma per action group and one
step per conjunct that the action can disturb. `TypeOK`, `PermitsConserved`, `DependencyPolicy`,
`ReplanClimbs`, `AtMostOneComplete`, `SandboxesKept`, `ReservationsExact` and
`WaitedHaveResults` follow.

It proves `Spec => ImplementsTaskGraph` from that invariant: the initial state
maps to the empty graph, and each action to a submission, an advance of some tasks, the forgetting of
all, or a stutter.

`ConversationProofs` proves `Spec => []IInv` of `Conversation`. `OneTurn` is not inductive: a send
that left the lock free while it awaited a router could start its turn beside another's. `Locked` says
what the code relies on: the lock has one holder; while a send builds its turn none runs; while a
retry waits, the turn it waits for is still the turn task; and a turn named to be forced has been
asked to stop. `Numbered` says that entries and turns are made in order, so an evicted entry never
comes back and a reconstruction touches no history that a turn uses; `Unstarted` marks the stages
before TURN_START. All steps have one of five shapes, each with one lemma: a turn moves between
stages (`Moves`), a request moves and leaves the others alone (`LeavesOthers`), a request starts a
turn on an idle entry, an entry is reconstructed, an entry is evicted. `TypeOK`, `OneTurn`,
`HistoryKept`, `ForcedWasAsked` and `EndAnnounced` follow.

`AnsweredOnce` has an invariant of its own beside it, `OnceInv`. While the first entry stays in memory
it has all turns, one after another, and the key of the one that is answering is not in the cache.
A key that was answered is still there, and after it only keys of turns that came since (`Followed`); or
it was pushed out by `CacheLimit` of those (`Forgotten`). No two places of the cache have one key, so that many places
mean that many turns, which is the cardinality lemma `DistinctKeys`.

`ChannelProofs` proves `ChannelInv`. `AnswersKept` needs that a waiter's future never holds anything
but the row's reply (`Futures`), that a pending row has none (`QuestionRows`), that an answer past its update
is the one in the row (`Aims`), and that a question not yet asked has left nothing (`Unasked`);
`ProcessedOnce` needs that a message that is processed is in the log (`Logged`).

It proves `LinksInv` of `Links` too, from its three kinds of parts. What a job remembers of rows
and tokens is still so when it writes (`Remembers`), from which `Owned` follows for every token and
chat; a job about to insert knows the rows that are there, unless transactions overlapped (`Alone`,
`AloneSessions`); a request that changes a bot knows what it has stopped or started (`BotInv`). With
them `ChatsBelong` holds.

And it proves `StreamInv` of `Streaming`, for `TextAccounted`. Each delta is in the chat, in the buffer and in
messages on their way once altogether, if it came and was neither dropped nor sent again (`Counts`); the three are
in the order of the deltas, one behind the other, unless a message overtook another (`Ordered`); and an answer is
sent again only with the buffer empty and the turn over, so nothing comes behind it (`AgainLast`). The lemmas of `How often a
delta is in a sequence` say what an occurrence count becomes when a text is appended to the chat, a
message joins those on their way, or one of them leaves.

`DeliveryProofs` proves `DeliveryInv`. Every event has a place among those to be delivered, queued,
being written and stored, and the places are in order (`LiveAhead`, `QueueAhead`, `StoredAhead`), so
`InOrder` survives evictions from the middle of a queue and retries; `Counted` is the count. The
lemmas about `Offer`, in `The bounded queues`, say what the eviction of the first droppable event
leaves of a queue. `WritesKept` and the action property `DropsJustified` follow.

`ServicesProofs` begins with `ClientInv` of `McpClient`: a call has a future only on the legacy stream,
such a future is among the pending calls from before the request is posted until it is resolved, and
whoever empties the table resolves what is in it; the stream that will empty it is not over, unless
it was when the call was sent. `NoCallStranded` follows.

`SandboxesProofs` proves `SandboxInv` of `Sandboxes`. `Exclusive` is not inductive: it says nothing of
a call that waits for its cancellation, or of what a call has in hand beside its session.
`CallsFit` adds that a call that goes on works with its executor's session, that an executor that was
cleaned up has none and its call is being stopped, and that one that was not has no cleanup under way;
`InOnePlace`, that a sandbox with an executor is not in the pool, nor about to be killed, nor still to
be created. Two lemmas have the shape of every step of a call (`CallMoves`) and of a cleanup
(`CleanerMoves`): what enters the hand was there, or nowhere else, and what enters the pool leaves
the hand. The lemmas about lists say that no sandbox is listed twice through the taking of the last
entry and the replacing of a reservation.

`PoolKept` needs `SlotInv` beside it. There are no more reservations in the list than releases in
progress and releases that were cancelled, counted over all executors and cleanups; as long as
nothing has failed and the pool is not drained there are exactly as many, so a release that returns
finds a place to enter, its own or that of another. Every running or paused sandbox is then listed,
a session, or in the hand of a call or cleanup, which is why none is lost; and the list stays
within its bound because a place is reserved below it only, and entered without adding another.

It proves `SandboxSpec => ImplementsLending`. The invariant says where a sandbox is, not where it
came from, so every lemma about a step also proves `BoxesPass`: what an executor has next it had
before, or nobody had it and it was in the pool or not created yet; what enters the pool was in use or
there already. With both states of a step in `InOnePlace` that leaves the four moves of `Lending`.

`AgentRunsProofs` proves `RunsInv` of `AgentRuns`, which has `RunPerKey` as a part. Beside it stand
what `OutcomeRevised` needs: a run that is over in the database while its task may still record it
was cancelled by a stopper who read it unfinished, or is stopped by one that waits for it
(`OutcomeInv`), and a run has a row before it has a task (`RowsInv`); what is left is the task's own
failure after an update that was made and raised. `StreamFaithful` needs `StreamsInv`:
whoever starts a turn finds none (`TurnsInv`), so between the start of a run and an event of another
lies the end of the first (`LogInv`); and a view is what history held up to some event, then what
came after (`ViewInv`). All of this is said of conversations that are not `early`; a message is under
way in one that is not only after its create was answered (`ApartInv`).

`ServicesProofs` also proves

* `BackgroundInv`, for `ToldTruthfully`: the latest command of a session, if it was started while no
  other lived, is the only one that writes the exit code and the marker (`SessionTrue`), and what a call
  has read of it stays so until it reports (`ToolTrue`, `ReportTrue`).
* `ChainInv`, for `RequestChain`, one half of `RequestSound`. The history that is kept, the one a
  rollback goes back to and the one the turn works on pair calls with results (`Sound`), but for
  the batch under way. Most of the proof is that every way `Compaction` rewrites a history keeps this: what is shortened or previewed keeps its
  kind, batch and size (`SameShape`); a suffix stands behind a "work" summary, so only its head can be
  results whose calls are gone, the one exception that the property names (`SuffixSound`); a history
  without results has excused calls only, so any tail of it will do (`TailSound`). That cuts
  fall within the history (`FullBoundaryIs`) needs the greatest of a set of positions.
  It follows that what the run `agent_chain` shows has one cause: while no activation has raised,
  `NoChainWarnings` holds.
* `SkillsInv`, for `SkillsAgree`, the other half: between the calls of a batch the skill that is
  waiting to be offered is the one the executor already allows.
* `FilesInv` and `PreviewsInv`, for `ArtifactsShown`: an artifact about to be announced belongs to one call
  and to this turn (`CallTrue`, `NamesTrue`), and a row is not written after its deletion while no write
  is left (`ArtifactRowsTrue`); a render that was never under way with another finds what the step before
  left (`AloneTrue`), and while no render has failed there is one lock, its holder alone renders, and a
  manifest comes with all its slides (`Calm`).
* `TeamInv`, for `TeamKept`: what an agent has got, what is in its mailbox and what it has not heard are,
  one after the other, the letters to it, and so with the broadcasts (`MailKept`); this needs that the
  bus holds letters of this turn's workers only, unless a cleanup was cut short (`MailTypes`,
  `BornTrue`), and is empty between turns (`BusAtRest`).

`StoresProofs` proves `ShelfInv`, for `SkillsShown`: as long as no request has changed anything under
another, what a request carries is what it would read now (`VisitFresh`), and rows and directories agree
but for what is pending (`RowsKept`). `FactsInv` and `EntriesInv` give `Remembered`: one fact at most is
active, the newest that reached the store, whatever came out of order, unless the commit of that
one kept a row gone stale (`FactsTrue`); a message in the ledger has reached the store or is about to, as long as
nothing came out of order (`LedgerTrue`); and a conversation's context holds messages of its own (`ChatTrue`).

It also proves `ServersInv` of `McpServers`, for `ClientsAgree`. A connection is the client of its server or in
the hand of the one request that opened it (`Connections`), and who has put it in place has let go of it
(`Bearers`), so closing what is taken out closes nobody else's. Tools, clients and configurations of
a name agree unless the holder of the lock has just emptied it (`Matched`). All of this leaves out the `overrun` names,
under which a client was covered. Which requests can cover one is `Kept`: as long as the cast is
`Compatible`, between the look of an add, or the write of a
rename, and its lock the name stays free (`Room`), because a change of the server that bears it finds it
taken (`Occupied`), a remove has emptied it (`Removed`), and no list has read it (`Unlisted`). The theorem
assumes nothing of the requests. Of the eight in the run seven sets are not compatible, `{add1, lst}` for one,
nor are those that contain them; in each of the seven TLC finds a name overrun.

Two arguments stand in for induction, whose theorems the provers cannot instantiate. `LeastNumber`, from
the well-foundedness of the naturals, gives the least counterexample. With it `ServicesProofs` proves
what the recursive function `Among` (the broadcasts that are not one's own) returns for a sequence with
one element more, and for two sequences in a row, and that all 32 rounds of the recursive function `Shrunk`
keep what one round keeps (`ShrunkSound`); `AgentRunsProofs`, that an ascending sequence is the only one
of its set. Everything else that recurses is out of reach.

The proofs have corrected three properties that the bounded runs did not refute. For more viewers than
the run has, a viewer can get broken slides of a render that failed and then was repeated, so
`PreviewsWhole` now says that somebody's render failed if any slides are broken. With six requests, a
skill that is off loses its directory to a copy that fails, a list drops its row, and the copy that is
repeated switches it on, so `SkillsShown` excuses `wiped` skills after a list. And an execution type that
is neither `planner_owned` nor `parallel_worker` is delegated as well, since nothing validates it:
`PlanKept` says only that a step of the planner's own is not.

Model-checked only:

* the liveness properties (`TasksEnd`, `CleanupEnds`, `CancelEnds`, `SendReturns`, `AnswerArrives`, `DrainEnds`,
  `CancelSettles`), which are out of the prover's reach;
* the violations, each of which is one behaviour of the code. How far the rounds of a compaction get is
  a matter of sums over a history, which would need induction over data; what they do to the pairing of
  calls and results is proved.

## Not modelled

* The web client: a React application in another language and process. What it is sent is in
  `Delivery` and `AgentRuns`; what it renders of it is not.
* Authentication, settings, migrations and the evaluation harness: configuration, database schema
  and I/O, with no state that steps of several actors share.
* Of the agent loop: hooks, quotas, prompts and the streaming of text to the web. Of compaction: what
  the texts say. Of the tools: what each does inside the sandbox or a service; the ones that keep
  state between calls are in `Background`, `Planning`, `Memories` and `Artifacts`.
* Of the sandbox providers: file transfer, and the two providers without a pool. Of the v1 API:
  read-only routes and limits by key. Of the channels: memory commands, attachments and formats. Of
  skills: the registry of a development server, downloads, matching and parsing. Of artifacts: the
  storage backends and the proxy to a server in a sandbox. Of memory: extraction and ranking.
* Modules are composed where state is shared. The seams that are left are choices: an agent's
  stage in `SubAgents`, a turn's course in `Channel` and `AgentRuns`, tool results in `AgentLoop`. A
  fault that needs two of them at once, such as a cleanup of the manager that is interrupted while
  the executor releases a sandbox, is seen from each side only.
