# Formal models of agntchat-bridge

TLA+ models of the bridge that connects AI agents to AgentChat: the executor's
gateway and its connection, the SDK client, what a turn goes through from its
delivery to its last frame (setup, toolkit, tool loop, progress, bubble), the CLI
runs and sub-agents that are processes of their own, the computer-use server,
and the hooks that tie a user's own CLI session to an agent. TLC checks each of
them on small instances; TLAPS proves, for every value of the constants, that the
executor implements an abstract turn queue, that the stream callback implements an
abstract bubble, and all of the safety properties that the passing runs check:
section 4 says from what. Liveness stays with TLC.

All paths below are relative to the repository. `executor.py`, `client.py` and
`transport.py` are under `agentchat/`, `claude_cli.py`, `cli_runs.py`,
`anthropic.py` and `_cli_utils.py` under `agentchat/backends/`, `guardrails.py`
under `agentchat/tools/`, `compactor.py` under `agentchat/context/`.

## 1. The system

A bridge process runs one *executor* per agent. The executor registers with the
AgentChat server, joins a Phoenix channel over a WebSocket, and gets *rows*
pushed to it: messages and tasks. A row is claimed by the server when it is
pushed, worked on by a coroutine of the executor, and settled by HTTP POSTs
(accept, complete, fail, ack, reply). The handler of a row, in
`agent_bridge.py`, builds a prompt, calls a model backend and reports progress
while it goes. Everything in one process is asyncio: between two awaits a
coroutine is atomic, and at every await any other may run, the network may fail
and a stop may arrive as a `CancelledError`.

### Inventory

| Component | State it keeps | Operations | What is hard | What makes it correct |
|---|---|---|---|---|
| Gateway executor (`executor.py`) | turn semaphore, `_active_message_runs`, `_active_task_runs`, `MessageDedup`, `_turn_cleanups` | dispatch of a push, message turn, task turn, stop directives | redelivery, parking on the semaphore, a cancel at any await, POSTs that fail on either side of the server | permits exact, one turn per row, every row settled, a stop reaches exactly its runs |
| Gateway connection (`executor.py`) | `_running`, `_ws_healthy`, `_ws_transport`, `_executor_id` | `start`, gateway loop, heartbeat, `stop` | a drop inside the handshake, a stop at every stage, two `stop()` at once | reconnects after every loss, leaves no row behind, exits and deregisters |
| Transport (`transport.py`) | socket, pending replies, two loops | `connect`, `join`, `push`, `disconnect` | dead sockets, replies that never come | no call waits for ever, a loss is noticed |
| SDK client (`client.py`) | `_joined`, `_disconnect_event`, `_connected` | `connect`, `disconnect`, `_join_conv`, `_reconnect_loop` | drops during a reconnect, announcements that race a listing | no conversation missed, the channel comes back |
| Streaming bubble (`agent_bridge.py`) | `_send_queue`, `_send_wake`, `_sender_task`, `_stream_terminal` | callback, sender, `complete`, `cancel` | coalescing, cancel while draining | in order, one terminal frame, no bubble that spins for ever |
| Task turn and its progress (`agent_bridge.py`, `executor.py`) | `pending`, `_task_terminal`, `_heartbeat_task`, the result | `on_progress`, heartbeat, `flush`, `handle_task`, `_handle_task` | a heartbeat that outlives its turn, reports refused or lost | every task accounted for, no progress after the end |
| CLI runs (`backends/`) | run records on disk, `_live_cli_procs` | `spawn`, `find_adoptable`, `finish`, `begin_shutdown` | the bridge dies at any point, a second bridge adopts | no orphan, no two runs on one key, a result delivered, and again only without its ack |
| Tool loops of the backends (`backends/`, `tools/`, `context/compactor.py`) | messages of the loop, calls, guardrail counters, attachment files | request, execute, verify, compact, finish | limits that answer only some calls, compaction in mid-turn, every way out | requests well formed, ask and tail kept, degenerate calls cut off, a finisher is the last word |
| Message turn setup (`agent_bridge.py`) | the backend's per-turn settings, `_conv_message_cache` | triage, task card, sync of settings, history window | concurrent turns share both | a turn runs as directed, history bounded |
| Toolkit refresh (`agent_bridge.py`) | resolved tools, stamp, degraded streak | fetch, diff, swap | overlapping fetches, degraded answers | never emptied, stale only behind a fetch, wired as at boot |
| Sub-agents (`agent_bridge.py`) | `_child_processes`, `_child_intentional_stops` | spawn, despawn, monitor, exit | three threads, crash against stop | one process per agent, tracked as long as it lives |
| Computer use (`computer_use_mcp_server.py`) | lock file, `_transform`, pause file | lock, gate, screenshot, act | a dead owner's lock, screens that change between any two system calls | one driver of the machine, the pointer goes where the model saw it |
| Session messages (`agntchat_mcp_server.py`, `agntchat_hook.py`, `agntchat_session.py`) | the server's rows, `seen`, `pushed.json` | poll, announce, claim, render, type | two readers of one inbox, lost answers | each message seen |
| Session presence (`agntchat_hook.py`) | pid file, heartbeat process | start hook, beat, session end | hooks of overlapping CLIs | a live session is beaten for |
| Session binding (`external.py`, `agntchat_mcp_server.py`) | `sessions.json`, agent, catalog, executor | bind, take the title, switch, serve | main thread, poller and permission relays, a file that is rewritten | a call acts as an agent the session was bound to |
| Token cache (`agntchat_hook.py`) | `hook-token.json` | read, exchange, write | many processes, key rotation | a token is not thrown away for another's failure |
| Token manager, REST (`auth.py`, `rest.py`) | token, expiry | exchange, refresh, retry | 401 during a call | bounded retries |
| Onboarding, entry point, logging, data classes | none that lasts | one request each | nothing a sequence of steps could break | - |

The executor calls the handler, the handler calls back into the executor
(progress, stream updates), the executor's cleanup closes what the handler left
open, and all of them go through the transport or HTTP. `PROJECT.json` lists
every component with its sources and what is modelled of it, and, under
`hazards`, what can go wrong at which line with the properties that speak of it.

## 2. The modules

| Module | Models | Composed with |
|---|---|---|
| `TurnQueue` | abstract: at most `Limit` turns, begun in the order of the line | implemented by `Gateway` |
| `Gateway` | rows, semaphore, registries, message and task runs, stops, exits, redelivery | `MCGateway`, `GatewayProofs` |
| `Transport` | one Phoenix socket with its receive loop, ping loop and calls | extended by the next two |
| `GatewayConnection` | `start`, gateway loop, heartbeat, `stop` | `Transport`, `MCGatewayConnection` |
| `SdkClient` | `connect`, joins, reconnect loop, `disconnect` | `Transport`, `MCSdkClient` |
| `Bubble` | abstract: frames said one after another, sent one at a time, only the redundant ones skipped | implemented by `StreamTurn` |
| `StreamTurn` | the stream callback, its sender, the turn that closes it | - |
| `TaskTurn` | `handle_task`, its progress callback, the executor's report | - |
| `CliRuns` | bridges, CLI processes, records, adoption, shutdown | `MCCliRuns` |
| `ToolExecutor` | what one tool call can come to, as operators | extended by the next |
| `ToolLoop` | `chat_with_tools` of every backend, guardrail, compactor | `ToolExecutor`, `MCToolLoop` |
| `Toolkit` | the refresh of the resolved tools | `Machine` |
| `TurnSetup` | `handle_message` up to the model call | `Machine` |
| `SubAgents` | spawn, stop, monitor and exit hook of sub-agent processes | `Machine` |
| `ComputerUse` | the computer-use servers of a machine | `Machine` |
| `SessionInbox`, `SessionPresence`, `SessionBinding`, `HookToken` | a CLI session that a user drives | `Machine` |
| `Machine` | these eight side by side | `MCMachine` |
| `GatewayProofs` | theorems about `Gateway`: the semaphore, the registry and the refinement; what the runs do to their rows | `Gateway` |
| `GatewayConnectionProofs`, `SdkClientProofs` | theorems about the two clients of `Transport` | each its client |
| `StreamTurnProofs`, `TaskTurnProofs`, `CliRunsProofs`, `ToolLoopProofs` | theorems about these four | each its module |
| `MachineProofs` | theorems about the eight parts | `Machine` |

How a model reads the code:

- **A step is what happens between two awaits.** A run's place `pc` names the
  await it is at. Where the code awaits a POST, the action that resolves it
  picks an outcome: `"ok"`, `"nosend"` (the server never saw it) or `"noreply"`
  (the server acted, the caller gets an exception).
- **A cancel is a step of its own** at each await (`Interrupt` in `Gateway`,
  `Cancelled` in `GatewayConnection`, `Stopped` and `TimedOut` in `TaskTurn`,
  `Cut` in `StreamTurn` and `CliRuns`), with what the `except` and `finally`
  clauses on that path do.
- **The server is external**: its queue rows, its answers to a report on a
  closed task (refused), its hard cap on claims are modelled from how the
  bridge uses them. `PROJECT.json` marks these definitions.
- **History variables** are read by properties only, and their comment says so.

### Gateway

A run is `parked` (waiting for the semaphore), then `starting` (it has a permit
and has not registered), then in a message stage (`notify`, `turn`, `ack`,
`reply`, `xack` for the acknowledgement of the `except` path, `notice`,
`cleanup`) or a task stage (`accept`, `work`, `check`, `complete`, `fail`). A
duplicate is in `dupack` only. `Receive` is `_ws_dispatch_event` with the dedup
check; `Acquire` the `semaphore.acquire()` of `_handle_ws_message` and
`_handle_ws_task`; `Register` the entry of the wrapper in the registry;
`DeliverStop` is `_cancel_runs`; `Crash` and `Restart` are the process. `age`
counts the server's claim in units that make `HardCap` and `TTL` of one order,
as 1800 s and 1900 s are: only which comes first matters. `Prompt` says whether
the server redelivers at once and POSTs are short against the cap.

### Transport, GatewayConnection, SdkClient

`Transport` has the calls in flight of each caller, the reader and the pinger.
Its clients take its actions and add what the callback, the awaited reply or
the closed socket does to them. A mute socket (no data, no close) is only found
by the pings. `GatewayConnection` has one transport, since each pass of the loop
disconnects its own before the next one; `SdkClient` has connect() and the
reconnect loop walk the same stages, as they do in the code.

### StreamTurn

Frames are numbered in the order in which they are emitted. The queue holds
numbers, 0 the stop sentinel. `shown` is the server's view. The POST that paints
the bubble is awaited by the handler and is outside the queue
(`agent_bridge.py:5104` against `:2925`).

`Bubble` has no queue, sender or turn: a frame is said, sent or skipped, and then
shown, lost or adrift. It is the refinement of the queue: `taken` is the newest
frame that left the queue (`Taken`), the sentinel is nobody's frame, and a turn
that ends the bubble without ever having started the sender says and sends its
terminal frame in one step (`SayAtOnce`). Everything the turn does besides is a
stutter.

### TaskTurn

Begins after the accept, which `Gateway` has. The model's events, the stage
event after the flush and the heartbeat all go through one `OnProgress`; the
result of the handler decides in `Settle` what the executor reports. Finisher
tools are tallied in tool_use mode only, as in the code.

### CliRuns

A bridge process is a model value and never comes back; the next one follows it.
A record exists without `meta.json` between the fork and its writing. When the
event file has been read to its end the `finally` of the call kills the run and
discards its record (`Reap`), and only then is anything sent: the turn is
`answering`, with the result in its hands alone, then `closing`, with the ack of a
message (`complete_task` closes its task itself) or the failure report of a task
outstanding. Between any two of these the bridge may stop, exit or crash. `loose`
marks the processes that the code itself leaves in nobody's hands, `unacked` the keys
whose turn answered and ended without its ack, `dropped` those whose result went with
a bridge that had discarded the record.

### ToolLoop and ToolExecutor

A message of the history is what can go wrong with it: the tool_use ids it makes and
answers, its size, and what it `stands` for: itself, and for a summary whatever the
summary call was shown. Tools that return something bulky make the compactor prune
and summarise; the summary may fail, and it is shown the middle only up to some
message: `_render_for_summary` cuts the transcript at 24,000 characters and each
message at 2,000 (`compactor.py:329-351`), so that the first `Transcript` messages
are sure to be in it. `ToolExecutor` has everything that `execute()` writes into the
caller's dictionary: the two ambient ids, and in `Written` the user, the source, the
opening task, the active conversation and the last message seen
(`tools/executor.py:310-383`). `blocks` are the calls of a response still to be
handled: each is executed, answered because the limit is reached, or blocked by the
guardrail, whose counters are keyed by the arguments as `execute()` left them. What
differs between backends is which steps they have: the five disjuncts at the end.

### Toolkit, TurnSetup, SubAgents

Time in `Toolkit` is counted in ticks, and a fetch takes up to `SlowestFetch` of
them, more than the refresh period, so that fetches overtake each other. A
message of `TurnSetup` is its number in the conversation: the window a turn reads
before its await and stores after it is a sequence of numbers, and whether it is
right can be read off it. `crossed` marks a turn whose setting another turn wrote
over. In `SubAgents` each region under the registry's lock is one step; the
worker thread, the monitor of each process and the exit hook interleave.

### ComputerUse

A server is its process id. The lock file is created, written, read, judged and
removed in separate steps, as the system calls are; `robbed` marks a server whose
lock another one removed by mistake, be it a thief that judged an older owner dead
or one that gives up a lock it had already lost (`RemovesFile`, used by both).
Coordinates are of one axis, scaled and rounded as the code does it, all the way to
the pointer: the mapping of the last capture gives a physical pixel (`Points`),
`_win_mouse_event` puts it on the grid of absolute mouse events by the screen metrics
of the moment and clamps it (`Normalises`), Windows spreads the grid over the screens
there are when the event arrives (`Injects`). A capture reads the origin, then grabs
(`Screenshot`, `Grabs`). Screens may be rearranged between any two of these; `misled`
marks a mapping that is not that of the screenshot the model has. The gates in front
of an action (pause, audit, screening, recheck) change nothing and count as one step.

### SessionInbox, SessionPresence, SessionBinding, HookToken

Each hook, heartbeat, poller and wrapper is a process (or thread) of its own and
each file operation a step. `SessionInbox` keeps both ways a message may reach
the model; `SessionPresence` lets CLIs of one session follow each other while
hooks and heartbeats of the earlier ones are still there; `SessionBinding` has
the main thread of one MCP server and, beside it, `Threads`: the poller and the
permission relays, each of which reads the binding and then applies it
(`_sync_binding`, `agntchat_mcp_server.py:309`), and the prompt hook that rewrites the
file they all read. The executor is looked up, made and handed out in steps of their
own; another thread may have it forgotten in between. `HookToken` has processes over
two keys; `_write_token_cache` truncates the file and then writes it, so that another
process may read an empty entry, two writers may leave one that does not parse, and a
writer may be killed half way.

### Machine

These eight parts run side by side on a machine and share no variable: the
toolkit and the turn setup are different variables of the bridge, the session
files are four different files. Every behaviour of the whole is therefore one
behaviour of each part, a property of one part holds of the whole exactly if it
holds of the part, and their product adds no case, only states. `Machine` says so
in its next-state relation: `part` is the part that moves, the others rest in one
initial state. A part that reads what another one writes would have to be
composed for real; `GatewayConnection` and `SdkClient` are, with `Transport`.

## 3. The runs

State counts are distinct states, times are for two workers.

| Run | Instance | States | Shows |
|---|---|---|---|
| `gateway_messages` | two messages (one a status card), three runs, two permits, a stop | 454,692 (30 s) | permits, registry, each message left in order, one turn per message |
| `gateway_tasks` | a task and a pulse, two runs, two permits, one drop, one exit, one stop | 524,036 (30 s) | types, one hand per task |
| `gateway_live` | one message, two runs, one permit, one lost POST, drop and exit | 79,842 (80 s) | every message settles, no starvation, refinement of `TurnQueue` |
| `sdk_client` | two conversations, one announcer, two faults, two errors | 395,166 (90 s) | no orphan call, joins exact, recovery |
| `gateway_connection` | one row, two faults, one error, two stops | 256,363 (90 s) | connection exact, recovery, exit |
| `stream_turn` | a phase besides writing, four frames, a lost and a late POST, two cuts | 1,179,991 (115 s) | frames exact, bubble closes, turn ends, refinement of `Bubble` |
| `task_turn` | three events, two failed POSTs, two cuts | 15,463 (5 s) | no ghost progress, task settled, both coroutines end |
| `cli_runs` | two bridges, a task and a machine-driving run, three processes, a crash, a cut | 216,659 (105 s) | one run per key, runs in hand, a task answered once and a message again only without its ack, result delivered |
| `tool_loop` | five backends, five calls of four tools, four iterations, three calls, two blocks to a response | 1,540,403 (105 s) | requests paired, the ask, the tail and what was shown kept, degenerate calls cut off, left clean |
| `machine` | two turns over three catalogs; three messages; three processes of two sub-agents; two servers and a dead one's lock; four letters; three CLIs, two hooks and two heartbeats; two agents, a poller and a permission relay; two processes over two keys | 1,434,605 (150 s) | the eleven properties of the eight parts |
| `toolkit_unwired` | the toolkit of `machine` | violation | finding 1 |
| `inbox_unregistered` | the inbox of `machine` | violation | finding 2 |

Why the bounds are enough. The hazards are about pairs: a run and the one
parked behind it, a copy and its redelivery, a stop and the run it hits, one
bridge and its successor. Two rows, three coroutines and two permits contain
every such pair, with one coroutine left to be the third party. One drop or exit
makes every redelivery happen; a second fault is allowed where a loss *during*
the recovery of another is the point (`sdk_client`, `gateway_connection`), and
two cuts where the second one hits the `except` path of the first (`task_turn`,
`gateway_messages` by way of a stop and the handler's own timeout). The turn queue is
checked in `gateway_live`, over one permit, where the limit binds: a copy that comes
after the dedup entry expired parks behind the turn it repeats. Every action
and disjunct fires in some passing run. What the theorems of section 4 say is in
addition proved for any numbers.

In `tool_loop`, three calls over four iterations of two blocks put the limit in the
middle of a response, at its end and after a finisher; the token budgets are such
that one bulky result prunes and two compact, with `Transcript = 1` the summary call
is shown all of a longer middle or only its beginning, and `BlockAfter = 2` is
reached twice within a turn. Of the five calls one has its task filled in and one is
given the last message seen, so that both are counted under other arguments. In
`machine`: two turns and a fetch slower than the period are one overtaking, of one
change of the catalog; three messages over a window of one are the merge of two
concurrent turns and an eviction; three processes of two agents are one crash, one
stop and one respawn; `MaxTries` is 3 where the code has 5, enough for an attempt
that loses to a creator, one that loses to a thief and one that wins; the two
layouts differ in origin, size and scale, and the grid is the real one; the two
threads beside the main one are the poller and one permission relay; the four
letters are two for the model and two commands, one of each before and after the one
restart of the server; three CLIs are a resumed session whose predecessor's
heartbeat is still ending.

`RunSymmetry` permutes the runs in the two safety runs of the gateway, `Alike` the
results of a read in `tool_loop` and the computer-use servers in `machine`: model
values that nothing orders. No run that checks liveness uses symmetry.

`CHECK_DEADLOCK FALSE` is set where the program does stop: the turns end, the
processes exit, the letters of a session are read. The safety runs of the gateway
and `tool_loop` check deadlock: a gateway that is up can always go on, and a tool
loop that cannot is over.

### Fairness

Weak fairness only. What it stands for: the asyncio loop runs every task that is
ready (steps of runs, loops, sender, heartbeat); a POST, join or push is answered
or times out (`wait_for` and httpx timeouts bound them); the model answers or
fails (`wait_for` bounds every turn); the server pushes rows it holds,
redelivers at the hard cap, and sends announcements; the supervisor restarts an
exited process and a new bridge starts. No fairness is assumed for faults, stops,
events of the model, or the server closing a task.

`ToolLoop` and the parts of `Machine` state no fairness: their properties are about
what a step or a state may never be. That the tool loop ends needs none either:
every step lowers a rank (`EveryStepCounts`), so it ends if it is scheduled.

### Properties by hazard

The list is in `PROJECT.json`. A run's property that is a conjunction has its
parts stated one by one above it in the module. Those that took most care:

- `AckedBeforeAnswer`: a turn reaches its teardown without having tried to
  acknowledge only if a stop caught it in the `except` path.
- `NoRowLeftBehind`: a polling executor has no backlog unless its catchup failed.
- `SdkClient!Recovers`: exactly two ways not to get the channel back, both named.
- `BubbleCloses`: every ending of a turn sends a terminal frame, except a stop
  that hits the wait for the sender.
- `NoGhostProgress`: a heartbeat left running by its turn runs against a closed
  task, whose next refusal ends it.
- `AnsweredOnceIfAcked` and `NoOrphan`: adoption by the next bridge. A message is
  answered twice only if a turn that had answered it ended without its ack.
- `RequestsPaired` and `RemembersAskAndTail`: what compaction, limits and blocks
  leave of the history is a request the API accepts; the ask and the last messages
  are in it as they were, and the tail, an earlier summary and what the summary call
  was sure to be shown are still told.
- `StaleOnlyBehindAFetch`: fetches that overtake each other may load an older
  answer over a newer one, and yet no turn leaves the refresh with tools the
  server stopped offering long ago, except past a fetch in flight or a failed one.
- `OneControllerUnlessRobbed`, `DirectedUnlessCrossed`, `BeatsUnlessHandedOver`,
  `TokenKept`, `PointsWhereSeen`: what the code gives in place of a lock it does not
  take. Each names the interleavings that break the unconditional statement.
- `ActsAsBound`: a call acts as an agent the session was bound to since it came, or
  that the poller or a permission relay was just switching to.

## 4. Proofs

For any values of the constants that satisfy the assumptions of the modules:

| Theorem | Says |
|---|---|
| `GatewayProofs` | |
| `TypeCorrect` | `Spec => [](TypeOK /\ RunInv)` |
| `SemaphoreExact` | `Spec => []PermitsExact`: free permits and holders add up to `MaxConcurrent` |
| `StopReachesItsRuns` | `Spec => []RegistryExact`: a stop directive cancels exactly the runs of its key |
| `Refinement` | `Spec => ImplementsTurnQueue`: the executor implements `TurnQueue` |
| `TaskInOneHand` | `Spec => []OneHandPerTask`: one run works on a task, until it is reported or left open on purpose |
| `AnswerAcked` | `Spec => []AckedBeforeAnswer`: no reply and no notice before the acknowledgement was tried |
| `TurnOnce`, `TurnLeftInOrder` | `Spec => [](WindowOutlasts => OneTurnPerMessage)`, and the same for `LeftInOrder` |
| `GatewayConnectionProofs` | |
| `ConnectionAgrees` | `Spec => []ConnectionExact`: what is healthy is connected, what listens has caught up, an orderly stop deregisters |
| `SdkClientProofs` | |
| `NoCallIsOrphaned` | `Spec => []NoOrphanCall`: no call outlives the receive loop that would answer it |
| `JoinsAreExact` | `Spec => []JoinsExact`: what counts as joined is joined; a client at rest misses no conversation |
| `StreamTurnProofs` | |
| `FramesInOrder` | `Spec => []FramesExact`: order, coalescing, one terminal frame |
| `BubbleIsClosed` | `Spec => []BubbleCloses`: a turn that is over has closed its bubble |
| `BubbleKept` | `Spec => ImplementsBubble`: the callback implements `Bubble` |
| `TaskTurnProofs` | |
| `EveryTaskSettled` | `Spec => []TaskSettled` |
| `NoGhostLeft` | `Spec => []NoGhostProgress` |
| `QuietAfterFlush` | `Spec => NoProgressAfterFlush`: a part of `Quiets` |
| `CliRunsProofs` | |
| `NobodyForgotten` | `Spec => []RunsInHand`: whatever bridges crash, a run is in hand or on record |
| `NeverSideBySide` | `Spec => []OneRunPerKey` |
| `AnsweredOnce` | `Spec => []AnsweredOnceIfAcked`: a task is answered once, a message again only after an answer without its ack |
| `ToolLoopProofs` | |
| `RequestsArePaired` | `Spec => []RequestsPaired`: no limit, block or compaction parts a tool_use from its result |
| `AskAndTailStay` | `Spec => RemembersAndEnds`, a property of steps: the ask, the last messages, the tail, an earlier summary and what the summary call was sure to be shown stay; every step lowers the rank |
| `NoLoopAsIs` | `Spec => []NoDegenerateLoopAsIs` |
| `TurnIsLeftClean` | `Spec => []LeftClean` |
| `MachineProofs` | |
| `SubAgentsAreKnown` | `Spec => []SubAgentsKnown` |
| `OneController`, `PointerWhereSeen` | `Spec => []OneControllerUnlessRobbed`, `Spec => []PointsWhereSeen` |
| `NothingReadAway`, `LiveSessionBeats`, `CallsActAsBound` | `Spec => []NoneReadAway`, `Spec => []BeatsUnlessHandedOver`, `Spec => []ActsAsBound` |
| `TokenKeeps` | `Spec => TokenKept`, a property of steps |
| `TurnsAsDirected` | `Spec => []TurnAsDirected` |
| `HistoryStaysBounded` | `Spec => []HistoryBounded`: no message twice in a history, no window beyond twice the limit |
| `FastCadenceEnds`, `ToolkitStaysGood` | `Spec => []CadenceExact`, `Spec => ToolkitKept`, a property of steps |

### The arguments

Every theorem follows one pattern: an inductive invariant, whose parts are named
for what they say and were checked by TLC on the run's instance first; `Init`
establishes it, every action keeps it, it implies the property. What had to be
added to the property is the point of each proof.

**Gateway.** `TypeOK` is not inductive: a run that releases a permit must be
known to hold one, and the head of `waiters` must be a parked run. The
strengthening is `RunInv == RunTypeOK /\ ItemFits /\ LineExact`: what a run
serves fits its place, and the line in front of the semaphore holds every parked
run exactly once. `Next` has some forty disjuncts, but for the semaphore, the
registry and the line only a few things ever happen: nothing, a run is received,
lines up, begins, registers, moves within its stages, ends, or the process goes.
`Shaped` is their disjunction; `StepShape` shows, action by action, that each
step has one of these shapes. `RunInvStep`, `PermitsStep`, `RegistryStep` and
`TurnsStep` then argue about the shapes only. `RestTypes` has the variables that
take no part in it. Cardinality facts come from `FiniteSetTheorems`, which is
what `IsFiniteSet(Runs)` in the assumption is for.

**Rows.** For tasks (`TaskInv`) the row is the lock: a run that is past its accept
has the row `accepted` or `settled`, and none goes back, so no second accept can
succeed. For messages the lock is the dedup entry, which expires. `Budget` is the
time that may pass before the last redelivery: one `HardCap`, and one more for
each acknowledgement or push that is lost. `WithinBudget` says that a message that
can be redelivered will have an entry no older than the budget when it is.
`WindowOutlasts`, the hypothesis of the two theorems, is that the window
covers the budget: `Prompt` (the server redelivers at once and POSTs are short
against the cap) and `HardCap * (1 + MaxLost + MaxDrops) <= TTL`. It holds in
`gateway_messages`, and it is as weak as it can be: with `HardCap = 2`, one loss and
`TTL = 3` TLC finds a message with two turns. With the code's 1800 s and 1900 s
(`executor.py:70-77`) it holds without losses and not with one.

**GatewayConnection.** `HealthKept` says who may close the socket has cleared the
health flag before; `QueueKept` that a catchup that was answered has emptied the
queue while the channel is bound; `StopKept` that, without errors, a registration
that is still there after an orderly stop was called has a `stop()` on its way to
the DELETE, in a process that cannot end before it.

**SdkClient.** Two facts about the moment the socket is replaced carry the proof: no
reply of the old socket is left to be taken by a coroutine that would enter it in
`joined` of the new one (`CallsKept`: the seconds of the back-off let them run
first), and past the listing each conversation is joined, given up, announced or
`Coming`, that is, in the hands of somebody whose join was not cancelled
(`AllHeard`).

**StreamTurn.** `QueueShaped`: the queue holds the consecutive numbers behind `Taken`,
the newest frame that was taken off, and the sentinel last. What was sent is never
newer than `Taken`, and while nothing is served late frames go one by one
(`SentInOrder`); so the order, and which frames coalescing may drop, can be read off
the numbers. That the run of writing frames at the head has an end (`CoalescedRun`)
is well-foundedness of the naturals. `QueueInOrder` is stated by index, without a
filter, for the prover's sake. The refinement (`BubbleKept`) needs no invariant of its
own: each action has a lemma that names the step of `Bubble` it is (`TakeRefines`,
`PostRefines`, `CloseRefines`, ...). The one with substance is the sender's: the
frames between `Taken` and the one it takes are the run of writing frames at the head
of the queue (`RunTaken`), hence `Redundant` to the bubble.

**TaskTurn.** Where the heartbeat is against where the turn is (`BeatsWithTheModel`,
`Silenced`), and that a turn that told the executor of a closed task left it closed
(`ClosedBehind`).

**CliRuns.** Whose a run is follows from three things that only hold together: where
the turn that has it stands, what the record of its key says, what the bridge
tracks. `OwnRunsServed`: a bridge that is up works on what its own records say is
running, so that what an adopting bridge finds is nobody's. How often a key is
answered is a matter of counting bridges (`Answering`): as long as its answer is still
to come a key was answered by no more than the bridges that are gone, and an answer
uses up the bridge that gives it; what was answered is closed, or its turn is still at
the ack, or it is `unacked`, which a task never is.

**ToolLoop.** A history is `Sound` when each message answers what the one before it
left open, and `Whole` when its last message leaves nothing open. `TailBounds` is
the reason for the compactor's step back: the tail it keeps never begins with
results. So a history with its middle folded into a summary is `Whole` again,
whatever the budgets are, and what it no longer tells was after the first messages
of the middle (`FoldKeeps`); the last messages are in the tail because the tail was
never shorter (`RecentInTail`), and pruning takes nothing away but size
(`ShrunkRemembers`). Between a response and its results the open ids are those
answered and those of the blocks left (`HistoryKept`). The same lemma of each action
shows that the rank drops. For the guardrail, `Bounded` relates its two counters to
the calls: a stretch of executions with the same outcome is no longer than the
counter when it reaches the last call, and never longer than `BlockAfter`; one more
execution (`OneMore`) is made below it only.

**Machine.** Each part has its own invariant and lemmas; a step of one leaves the
others alone. `SubAgents` needs that a mark names a process that is being stopped;
`ComputerUse` who may still be about to remove which file; `SessionInbox` that what
is recorded as pushed was shown; `Toolkit` relates each fetch to the catalogs the
server had while it was in flight; `SessionBinding` that every agent in the hands of a
thread, of the main one or of the executor is allowed, or came with a switch.

That the pointer comes out where it was aimed is arithmetic. A rounded quotient is
within half a unit of the quotient (`RoundedNear`), and multiples of different numbers
are at least one unit apart (`MultiplesApart`); so the two roundings, onto a grid that
is no coarser than the screens are wide (`captured <= Grid`) and back, give back the
pixel, or the one at the edge for a pixel that is off the screens of now (`OnTheGrid`),
and that is the nearest there is (`NearestPixel`).

For the history of a turn the invariant (`HistoryInv`) says of each list that is
anywhere in a turn's hands, the server's answer, the window read before the await
and the context, that no message is twice in it and how long it may be, and the same
of the cached window, which another turn may have stored since. The step that counts
is the merge: the window followed by what is `Fresh` of the answer. `Fresh` is a
recursive function over the places of the answer. That there is such a function
(`KeptExists`), and that each of its values lists messages of the answer, none twice,
none of the window (`FreshListed`), is argued without an induction rule: of the
numbers where it failed there would be a least one (`LeastNumber`), and the one before
it refutes that.

### Assumptions

Sets of runs and bridges are finite; callers of one transport are distinct, and so
are the three callers of `stop()`; the loops of an SDK client are distinct from each other
and from its join tasks; the places of an idle loop are no loops
(`SessionPresence`); `Toolkit` has a turn, and catalogs that are finite and not
empty (an empty answer is the degraded one and modelled apart); screens are no wider
than the grid of mouse events; the values that stand for no layout and no file are
none. All are in the `ASSUME` of the module that declares the
constants, and TLC evaluates them in the runs.

What the proofs changed in the models: the release of a computer-use lock did not
record whom it robbed, and the invariant would not go through; the bounds and names
above were missing from the assumptions. The
first proof of `NoDegenerateLoopAsIs` failed for a good reason: a call that
`execute()` fills in to become another call of the model clears that call's
failures, so the property now excludes such calls too (`AsIs`). It is stated by
stretches of the turn, without a filter. `Fresh` was a filter of the library, whose
recursion nothing can be proved about, and is now a recursive function of the same
values. The proof of `PointsWhereSeen` asked for the bound of a screen by the grid, beyond
which two pixels share a place. Otherwise no definition that models code changed what
it says for a proof's sake; a few properties were regrouped.

### Only model-checked

Liveness (`EveryMessageSettles`, `NoStarvation`, `Recovers`, `StopExits`,
`TurnEnds`, `Quiets`, `ResultDelivered`): fairness and `ENABLED` are out of the
prover's reach. All other properties of the passing runs are stated by a theorem.

## 5. Findings

Each is a run of its own that TLC finds violated.

1. **A refresh loses the server tools the bridge dispatches itself**
   (`toolkit_unwired`). `agent_bridge.py:4302` says a refreshed tool is wired
   identically to one present at boot. On a backend that cannot attach
   `web_search` and `web_fetch`, the start-up block adds them to the resolved tools
   (`:4106-4115`); the refresh replaces those by the fetched partition without them
   (`:4299`), and as their names are then missing, the very first refresh does so.
2. **A message is read away from a session whose channel was never confirmed**
   (`inbox_unregistered`). `agntchat_mcp_server.py:106-108` says nothing is lost when
   the channel does not work. The poller starts on the command-line flag alone and
   records what it announced to nobody as pushed; the hook's claim marks it read
   and leaves it out.

### Known divergences

Sentences of the repository that the models contradict, or almost; the models have
the code's behaviour, and the checked property names the exception.

- **A message's turn may run twice.** `executor.py:70-76` says the dedup window
  outlasts the server's claim. A redelivery that is lost with the socket starts a
  second claim; the next copy comes after the entry expired. `gateway_messages`
  has no lost redelivery; theorem `TurnOnce` has the window each loss would need,
  and 1800 s against 1900 s is enough for none.
- **A lost wake-up in the SDK's reconnect loop.** `client.py:497` says a drop wakes
  up the loop. The loop clears the event at the top of its next pass (`:614`): a
  drop between the last join and that line is forgotten (`NoLostWakeup`).
- **A bubble without a terminal frame.** `executor.py:3437` says the cleanup
  guarantees teardown. A stop that hits `complete()` in its wait for the sender
  (`agent_bridge.py:2977`) cancels the sender with the frame unsent, and the cleanup
  finds the callback terminal (`TeardownGuaranteed`).
- **A reply posted twice across a restart.** `cli_runs.py:25-26` says a record is
  dropped when its run is handled. A stopping bridge keeps the record
  (`claude_cli.py:1793`) even when it goes on to answer; and any bridge that goes, or
  loses its ack, between the reply to a message and the ack leaves the row to the next
  one, which runs the turn anew (`unacked`).
- **A finished result lost.** `cli_runs.py:5` says the next bridge must deliver the
  result of a run it finds, and `:25-26` that a record is dropped when its run is
  finished and handled. The `finally` of the call discards it
  (`claude_cli.py:1793-1795`) before the result is returned, posted and acknowledged:
  a bridge that goes in between takes the result with it (`dropped`).
- **A degenerate call that is not cut off.** `guardrails.py:6` says identical calls
  are blocked. `execute()` writes ids and other ambient arguments into the caller's
  dictionary (`tools/executor.py:310-383`), so that a result is recorded under other
  arguments than the next identical call is looked up by.
- **Two controllers.** `computer_use_mcp_server.py:94-97` says only one agent holds
  computer control at a time. Reading the owner and removing the file are two steps
  in the taking of a dead owner's lock and in the release of one's own; either may
  remove a lock that is a third server's by then (`robbed`).
- **A token discarded.** `agntchat_hook.py:310` says a token already held is kept.
  A process that read the file before the token was in it, or has another key,
  writes its failure over it; so does one that met the file truncated and not yet
  written (`:252-258`).
- **A catalog of the old agent under the new one.** `agntchat_mcp_server.py:414`
  says a switch resets the catalog. A switch by the poller or by a permission relay
  during `get_profile` resets it before the old agent's profile is stored; likewise
  an executor made across a switch keeps the old credentials (`across`).
- **A tail shorter than configured.** `compactor.py:306-307` says the tail keeps at least
  `minTailMessages`. The message that goes over the budget is counted and not kept
  (`:312-317`): it may be one fewer.

Behaviour met while modelling that contradicts no sentence of the repository:

- An accept whose reply is lost ends the run and strands the task until the
  server's own timeout (`executor.py:1243`).
- A duplicate is acknowledged while the first copy is still parked; an exit
  before that one runs loses the message (`executor.py:827`).
- The SDK's reconnect loop ends when a drop cancels its own join
  (`client.py:667`).
- `stop()` during the catchup ends the process before the DELETE
  (`executor.py:719`); during the registration it has nothing to deregister
  (`:1110`); during the join it closes nothing, and the loop joins and catches up
  once more (`:669`).
- `spawn()` that is cut while feeding a long prompt leaves a CLI that is neither
  tracked nor reaped (`claude_cli.py:1573`).
- `flush()` takes a stop or timeout that hits its wait for the heartbeat for the
  heartbeat's own (`agent_bridge.py:2876`).
- A failure report that is lost leaves the turn's heartbeat reporting progress on
  a task nobody works on (`agent_bridge.py:2815`, `executor.py:1448`).
- Finisher tools called by tags, in a compound step or in code_action are not
  tallied, and the executor sends a completion that is refused, then a failure
  that is refused (`executor.py:1309`).
- A task without directives is failed by the handler and reported on again by
  the executor (`agent_bridge.py:4427`).
- Toolkit: an `AuthError` of the token exchange during a refresh ends the turn and
  is not counted in the degraded streak; the difference only sees the names of local
  tools and the number of server tools, so that one server tool in place of another
  goes unnoticed.
- Settings: concurrent turns overwrite each other's skip-permissions, computer-use
  and prompt-cache settings (`agent_bridge.py:4341-4402`).
- History: the merge may put older messages after newer ones and leaves holes when
  more than `limit` messages come between two turns (`agent_bridge.py:1980`).
- Sub-agents: a spawn that comes while the process is being stopped, or is dead and
  not yet reaped, counts as "already running" (`agent_bridge.py:3636`).
- Tool loop: a refused finisher still ends an API backend's loop; the XML loop has no
  stop at a finisher and leaves its attachment files behind when it is cancelled or
  raises.
- Computer use: a capture that is refused for its size moves the mapping away from
  the screenshot the model has (`computer_use_mcp_server.py:1378`); so do screens that
  are rearranged between the reading of the origin and the grab (`:1417`), and screens
  rearranged between the normalising and the event put the pointer anywhere (`:584`).
- Compaction: what comes after the first 24,000 characters of a long middle reaches no
  summary (`compactor.py:329-351`).
- MCP server: an executor that another thread has forgotten between its making and its
  use in `_ensure_standalone_context` is met as an AttributeError nobody catches; the
  server ends (`agntchat_mcp_server.py:524-532`).
- Sessions: a claim whose answer is lost takes its messages with it; a typed command
  whose acknowledgement is lost is typed again; a message may be shown twice when a
  poll and a claim overlap or the server restarts; a CLI resumed within a minute of
  the last one's end gets no heartbeat of its own (`agntchat_hook.py:536`); a binding
  file caught in its rewrite binds the machine's own agent.

## 6. What is not modelled

- Prompt building, formatting, parsing, attachments, logging: data no property
  is about.
- In `Gateway`: scope requests, agent queries and the platform tool calls (one
  POST each, no state).
- In `SdkClient`: the message filter and the REST helpers.
- In `CliRuns`: the batch path, records past `_MAX_RECORD_AGE`, the 256 KB tail,
  process-id reuse, Windows, two bridges that overlap, several generations under
  one key.
- In `TaskTurn`: the accept, the semaphore and the registry, which `Gateway` has;
  what the tools of a run do; the steps of a compound task.
- In `TurnSetup`: what prompts say, the sections of the context, the other settings
  (which are written and read as the one that is modelled).
- In `ToolLoop`: the content of requests, at which character a message or a transcript
  is cut for the summary call, retries inside one request, the
  single-shot `generate()` of each backend.
- In `ComputerUse`: the macOS driver (coordinates pass through), the desktop, which
  applications are denied.
- In the session modules: the prompt of a permission relay and its answer (that it
  switches the agent is modelled), tasks and other
  conversations in the digest, the wrapper's terminal, several sessions that share
  `pushed.json`, installation into a CLI's settings.
- Onboarding, the entry point, logging, data classes, the token manager's retries.

## 7. Plan

Done: all modules of section 2, and the theorems of section 4. No safety property
is left to prove.

Worth modelling next: the SDK's message filter, the steps of a compound task, the
prompt of a session's permission relay.

## 8. Running

    tlc -workers 2 -config GatewayMessages.cfg MCGateway
    tlapm GatewayProofs.tla

`PROJECT.json` names the module and configuration of every run, the mutants that
show each property can fail, and the source lines behind every definition.
