# A TLA+ model of the OpenClaw A2A gateway

The gateway is an OpenClaw plugin that speaks the A2A protocol in both
directions: it serves tasks that other agents send (inbound), and sends
messages to peers (outbound). All of it runs in one Node.js process. This
directory models the parts of it that keep state across steps and that more
than one activity touches at a time, checks them with TLC on small instances,
and proves the most important invariants with TLAPS for every instance.

Paths below are relative to the repository; `executor.ts` stands for
`src/executor.ts`, and so on.

## 1. The system: parts, state, interactions

| Part | Code | State it keeps | Operations |
|---|---|---|---|
| Admission queue | `queueing-executor.ts` | `activeTasks`, `queue`, `pendingByTaskId`, one promise per call, two gauges of `telemetry.ts` | `execute`, `cancelTask`, the end of `runEntry`, `drainQueue` |
| Agent executor | `executor.ts` 1300-1732 | `dispatchQueues`, `taskContextByTaskId`, one heartbeat interval per call | `execute`, `cancelTask`, heartbeat tick, `/hooks/wake` fallback |
| Dispatch chains | `dispatch-queue.ts` | the tail promise of each context | `enqueueDispatch`, the cleanup callback |
| Gateway connection | `executor.ts` 555-1040 | socket, pending requests, pending agent runs, challenge waiter | `connect`, `reconnect`, `request`, `handleMessage`, `close` |
| Connection pool | `executor.ts` 1060-1295 | entries per gateway key with use counts, heartbeat and eviction timers | `acquire`, `release`, `destroy`, eviction |
| Task store | `task-store.ts` | one JSON file per task | `load`, `save` (temp file, rename, retries, overwrite), `delete`, `listAll` |
| Task recovery | `task-recovery.ts` | none of its own | one scan at start-up |
| Task cleanup | `task-cleanup.ts` | a timer | a scan per interval |
| Push notifications | `push-notifications.ts`, `index.ts` 446-472 | registrations, importance and decay per task | `register`, `unregister`, `send` with retries, `cleanup` |
| Peer health | `peer-health.ts` | circuit, failure count, health, in-flight marker, capacity counter per peer | `isAvailable`, `recordSuccess`, `recordFailure`, periodic `checkPeer` |
| Outbound client | `client.ts`, `peer-retry.ts`, `transport-fallback.ts` | transport statistics per peer | `sendMessage` with retries around a loop over transports |
| Discovery | `dns-discovery.ts`, `quorum-discovery.ts` | the peer cache with TTLs, timers, density window | `discover`, `start`, `stop`, ticks |
| mDNS responder | `dns-responder.ts` | a socket, an interval | `start`, `stop`, announcements, the goodbye |
| Routing | `routing-rules.ts`; `index.ts` 840-1016 | the parsed rules; the skills that health checks cached | `parseRoutingRules`, `matchRule`, `matchAllRules`; `a2a.send`, `a2a_send_file` |
| Gateway-to-gateway relay | `internal/outbox.ts`, `internal/transport.ts`, `internal/security.ts`, `internal/envelope.ts`, `internal/idempotency.ts`, `internal/routing.ts` | entries with retries, the relay's interval and flag; nonces, idempotency entries, rules | `enqueue`, `startRelay`, `stopRelay`, `cleanup`, `send`; `handleRequest`; not wired into the plugin |
| Service | `index.ts` 769-771, 1029-1186 | the servers and timers | `start`, `stop` |
| Value-level code | `agent-card.ts`, `file-security.ts`, `saturation-model.ts`, `audit.ts`, `telemetry.ts`, `connection-pool.ts` | counters, agents | formatting, validation, I/O |

How they interact. The SDK's request handler (`@a2a-js/sdk`, not part of the
repository) calls `execute` or `cancelTask` of the queueing executor, which calls
the agent executor (the delegate) when a slot is free. The agent executor puts
the call into the chain of its context; the dispatch itself acquires a gateway
connection from the pool, sends an agent request and waits for an answer or a
timeout. Both executors publish task and status events on the bus of the task;
the SDK saves what it sees there through the task store, in order, and refuses to
cancel a task whose saved status is terminal. At start-up the servers listen
first, then recovery scans the store, then the cleanup timer and the mDNS responder
start; discovery and health probes have started before. Outbound messages name a
peer or are given one by the routing rules, out of the static and the discovered
peers; they ask the peer's circuit breaker before they start and report to it when
they end, while health probes report on their own and refresh the skills that the
rules go by. The relay posts the entries of its outbox, signed, to the inbox of
another gateway, which checks nonce, envelope, idempotency key and route.

What is hard about it. Everything interleaves at `await`s, promise callbacks and
timers: arrivals, cancellations and completions at the queue; heartbeats and
cancellations against late answers; cleanup callbacks of promise chains against
new links; late send results against a breaker that has moved on; requests served
while recovery scans; a process that dies in the middle of a save. Section 6 says
which properties go after which of these, and `PROJECT.json` lists each with its
line.

What makes each part correct:

- Admission queue: no slot leaks and none idles while a call waits; the limits
  hold; calls start in arrival order; every call settles exactly once, its bus is
  finished, and only calls somebody waits for are started.
- Agent executor and chains: dispatches of one context are serialised in order,
  contexts are independent, a failure does not block, chains are dropped; outcomes
  are final; every call settles.
- Task store, recovery and cleanup: nothing is left hanging over a restart,
  outcomes are kept until their TTL and deleted after it, recovery spares the tasks of
  this run, but for those that began before it listed the store.
- Breaker: the circuit, the marker and the reported health agree with the
  failures in a row; an open circuit blocks; a peer that is back is used again.
- Gateway connection: a request is settled exactly once, by its own answer;
  `connect()` ends; `reconnect()` leaves no socket behind.
- Connection pool: use counts are exact, so that no connection in use is closed and
  none is kept open for ever.
- Push: failed deliveries cost no registration, and retries are bounded.
- Discovery: polling goes on through failing lookups, in one loop for each start; peers that
  are up become known.
- Outbound client: the breaker's probe always has an owner; connection errors make
  the fallback reach every transport, in whatever order the statistics put them.
- Routing: a message goes to the peer of the best matching rule, by the skills that
  peer has now.
- Relay: a message is handed over at most once however often it is sent, confirmed
  only when it was, and every entry gets a verdict.
- Service: nothing outlives `stop()`, nothing runs twice, and others learn of it.

## 2. Modules

| Module | What it is |
|---|---|
| `QueueingExecutor` | the admission queue: state, handlers, properties |
| `QueueingExecutor_proofs` | its inductive invariant and six theorems |
| `AgentExecutor` | the agent executor with the dispatch chains |
| `SerialDispatch` | what the chains promise: one first-come-first-served line per context |
| `GatewayExecutor` | both executors composed as `index.ts` wires them |
| `GatewayExecutor_proofs` | that it drives the queue as specified, the invariants of chains, slots, cache and statuses, eleven theorems with two refinements |
| `TaskLifecycle` | the statuses of a task a client may rely on |
| `GatewayConnection` | one connection to the gateway: handshake, requests, close |
| `WsPool` | the pool of these connections, for one key |
| `WsPool_proofs` | the inductive invariants of the connection and of the pool, four and three theorems |
| `TaskPersistence` | store, recovery and cleanup over several runs of the process |
| `TaskPersistence_proofs` | its inductive invariant and three theorems |
| `PushDelivery` | webhook registrations and deliveries of one task |
| `PushDelivery_proofs` | its inductive invariant and two theorems |
| `PeerHealth` | the breaker of one peer with concurrent sends and probes |
| `PeerHealth_proofs` | its inductive invariant and five theorems; two about the breaker under `PeerRouting`, one about its rules, three about `OutboundSend` |
| `OutboundSend` | sends to one peer: retries and fallback, composed with `PeerHealth` |
| `RoutingRules` | parsing, matching and ordering of routing rules, as operators |
| `PeerRouting` | `a2a.send` and `a2a_send_file`: rules and cached skills before the breaker of `PeerHealth` |
| `Discovery` | the cache of discovered peers, the two ways of polling |
| `PluginService` | `start()` and `stop()` of the service, with `Discovery` and the mDNS responder |
| `PluginService_proofs` | the invariants of `Discovery` and of the service, that the one drives the other as specified, five theorems |
| `Outbox` | the entries and the relay of the gateway-to-gateway layer |
| `Inbox` | the receiving half: nonces, envelopes, idempotency keys, routes |
| `RelayedDelivery` | both over a network that loses, delays and doubles |
| `ReliableMail` | what they promise together |
| `RelayedDelivery_proofs` | the invariants of the outbox and of the delivery, six theorems, the refinement of `ReliableMail` among them |
| `MC_*` | instances for TLC: the model values, the assignment of calls to tasks and contexts |

The rule for actions is the one JavaScript gives: a handler runs up to its first
`await` without interleaving, so one action is one such run, with every call it
makes. The one exception is the synchronous loop in `drainQueue`, which is
unrolled into one step per iteration; `draining` keeps every other action out
until the loop has ended, so that no interleaving is added.

Definitions named `X_Something` that stand before `X` and are introduced as
"Mutant" are deliberately wrong versions of `X`. They are used to show that each
property can fail; no specification refers to them.

A module that keeps state of its own states its type invariant as `TypeOK` (`ConnTypeOK`
and `SendTypeOK` where the proofs of two modules stand in one, which extends both). It is
proved; that of `AgentExecutor` within the composition, that of `Inbox` within the relay.

### 2.1 QueueingExecutor

`ExecuteNow`, `ExecuteRejected` and `ExecuteQueued` are the three ways through
`execute`; `FinishRun` is what `runEntry` does once the delegate has settled, and
`DrainQueue`/`DrainQueueEnds` the loop it calls last; `CancelQueued` is
`cancelTask` of a queued task (of any other task, the call goes to the delegate
and changes nothing here). `promise[c]` is the promise `execute` returned,
`finished[c]` whether `eventBus.finished()` was called. `FirstOf` and
`QueueDelete` keep what the code does with several calls for one task: it drops
the *first* entry of the task, whichever call made it.

`TaskStateBound` deserves a word. `queueing-executor.ts:3` and `executor.ts:7`
import `TaskState` with `import type`, which every transpiler erases, and then
use it as a value: as the files stand, each such expression throws a
`ReferenceError`. `TaskStateBound = FALSE` models that; `TRUE` is the same code
with the enum imported as a value, which is what the comment at
`queueing-executor.ts:30` asks for. The runs use `TRUE`, because with `FALSE`
no task of the gateway ever succeeds; the theorems hold for both.

Left out: the saturation delay, which is dead code (the constructor drops
`options.saturation`), and the audit log.

### 2.2 AgentExecutor, SerialDispatch

`phase[c]` says how far `execute` of call `c` has come. `Execute` is its synchronous
part, up to the call of `enqueueDispatch`; `DispatchStarts`, `DispatchSettles` and
`FallbackEnds` are the continuations; `CleanUp` is the callback that drops the
chain's map entry; `Heartbeat` is a tick of the interval, which may fire at any
time between the first status and the end of the dispatch; `CancelTask` is
`cancelTask`. `prev` and `tail` are the promise chain as a linked list. The call
to the gateway is one step with two outcomes.

`SerialDispatch` has, per context, a line of calls and a flag: join at the end,
serve the head, leave. `FifoPerContext` is the refinement: the line is the chain of
unsettled links that ends in the tail, and the context is busy while one of its
calls dispatches.

### 2.3 GatewayExecutor, TaskLifecycle

Joint actions of the two modules: a call the queue starts is executed by the
agent executor in the same step (`Q!ExecuteNow /\ A!Execute`), and `FinishRun` may
happen once `execute` has settled, with that outcome. Here the end of a delegate
run is not assumed fair; it follows from the fairness of its own steps.
`TaskLifecycle` is the abstract machine of a task's statuses: nothing, submitted
or working, working repeated by heartbeats, then one terminal status; or turned
away. `FollowsLifecycle` is the refinement for the tasks nobody cancels.

### 2.4 TaskPersistence

`file[t]` is the content of the task's file as far as anybody tells it apart:
absent, working, an outcome, the string `"rejected"` ("turned away"), or torn.
A save is a record in `saves` from the moment the temporary file is written until
the rename, or the overwrite in place after five failed renames. `up` is how far
`start()` has come; `Crash` may come at any point and drops everything in memory.
`TaskBegins` and `TaskEnds` stand for the SDK, which saves the statuses of a task
in order. `GrowsOld` lets a file's timestamp pass the TTL.

The servers listen before recovery runs (`index.ts:1050-1111`, 1119), so requests are
served from then on (`TakesRequests`). A task that begins before recovery has listed the
store may be on the list, though `index.ts:1118` means tasks "from a previous run": recovery
then fails it while it runs, and its executor and recovery replace each other's outcome. The
history variable `early` has these tasks, and the properties say that the harm ends there.
`RecoverySparesLater`: a task that begins once the scan is under way is not failed, since
the scan goes by its list. `OutcomeKept`: the outcome of every other task is final. The
two saves of an early task may even meet in one millisecond, in which they share a
temporary file (`SharedTemp`, `task-store.ts:41`), or one of them in the overwrite of the
other (`OverwriteEnds`). `EveryTaskGetsOutcome` holds of early tasks too.

Left out: a `stop()`/`start()` within one process (`PluginService` has those, without the
store).

### 2.5 PeerHealth

One peer, since the manager treats its peers independently. `Ask` is
`isAvailable` at the start of a send, one disjunct per branch of the code;
`SendEnds` is the report of its result; `ProbeEnds` that of a health probe. Time is
two actions: `Cool` (the reset timeout has passed since the last failure) and
`RampUp` (the recovery capacity has grown by a tenth). Failures are counted up to
the threshold only, since every comparison is with a threshold; the round-robin
counter is kept modulo its period. The cache of the peer's skills is in
`PeerRouting`.

### 2.6 GatewayConnection

`awaiting` is what `connect()` waits for, and the actions of `Handshake` are the answers
to that wait: the socket opens or fails, the challenge arrives or its timer fires,
the connect request is granted or refused. `ScopeMissing` and `PairingRequired`
are the two ways into `reconnect()`: the first is called inside the `try` block of
`connect()`, so that its own pairing error is caught there and starts another one;
`inTry` keeps track of that, and `Sockets` has the three that one `connect()` can
open. `pending` is the request map, `reply` what the caller of each agent request
got, `gateway` what the gateway has done for it. An agent event carries no request
id, so the code gives it to the only pending agent request if there is exactly
one (`Sole`).

Assumed of the gateway (it is not in the repository): it sends the final event of
a run once, before the final response, and only for runs started on this
connection. "accepted" responses are ignored, as the code does with `expectFinal`.
A promise that is rejected while nobody awaits it (the challenge, while the socket
is still opening) has no effect in the model.

### 2.7 WsPool

One key, so the pool is `entry`. Connections are named after the dispatch that
opened them. `acquire` has one disjunct per path (destroyed, healthy entry, none,
dead entry), `Connected` is its continuation after the `await`, which puts the new
entry in place of whatever is there by then; `Release` goes by the key, as the
code does. When a connection goes down, the requests pending on it are rejected
and the `finally` block of the dispatch runs as a microtask: `MicrotasksDone` keeps
timers, messages and calls out until then. `overwritten` remembers that a cold
acquire has replaced an entry it did not see, which two overlapping cold acquires
do (section 6); the count is exact as long as that has not happened.
`OpenClawAgentExecutor.close()`, which would call `destroy()`, is not wired into
the plugin; `Destroy` is an action all the same.

### 2.8 PushDelivery

One task, since the store keeps registrations by task. A delivery goes through
loading the task, then, per attempt, `checking`, `posting` and `waiting`; between
any two of these, clients may register and unregister, and a second call for the
task may end and start a delivery of its own. `AfterFailure` is the rest of the
loop body after an attempt that failed: put the configuration back if nothing is
registered, give up if its importance has decayed, else wait. `Fades` is the
passing of time. Whether a URL is accepted is an input. Left out: `cleanupExpired`,
which nobody calls, and `sendWithRetry` without a decay configuration.

### 2.9 Discovery

Both wirings of `index.ts`: `quorum` is chosen in `Init`. Without it, the interval of
`DnsDiscoveryManager` starts lookups; with it, the loop of
`QuorumDiscoveryManager` does, one tick per timeout, and `orphans` counts the
timeouts that `this.timer` no longer points to. A lookup awaits the SRV answer,
then the TXT answer (`stage`, `found`). `expired` are the cached peers whose TTL has
passed; they stay until the next merge or eviction. Polling intervals are
abstracted: a timer that is pending may fire.

### 2.10 OutboundSend

Extends `PeerHealth` with the send itself: `SendBegins` is its `Ask`, and `Returns` its
`RecordSuccess` or `RecordFailure`. In between: resolve the card, put its
transports in order, try one after the other, wait, resolve the card again. The
score of a transport is abstracted to "untried" (exactly 1), "failing" (exactly 0:
no success in the window) and "working" (between them, and 1 in the extreme, so
that untried ones come first or tie); `Orders` has every order these allow.
A transport outside `works` fails with an error of one of two kinds (`Answers`). A
"connection" error is one of those whose text `isRetryableTransportError` knows
(`transport-fallback.ts:76-95`), or an unknown transport; "reply" is any other `Error` of the
SDK, as for an HTTP status 500, 502 or 404 or a reply that does not parse. Only the first
(`IsRetryable`) leads to the next transport; the second ends the loop with transports left
(`client.ts:392`), and so does a refusal of the credentials. Every failed attempt ends as a result with status
500, so that `withRetry` tries again whatever the reason was. Left out: `destroy()`
of the client at shutdown, and a malformed card URL, which throws before the
`try` block.

### 2.11 RoutingRules, PeerRouting

A rule is a record: the texts its pattern matches, the tags and skills it asks for,
its peer, its priority. `parseRoutingRules` drops malformed rules and sorts by
priority; `matchAllRules` sorts the matches by affinity, a fraction, when affinity is
configured. `hillScore` is left out: it only grows with the affinity, as long as its
two parameters are positive (the configuration does not check that), so the order
is the same. Both sorts are `Arranged`: the places that are kept, by rank, where the rank of
a place is the number of kept ones before it, in the order asked for or, of two which that
does not tell apart, as they stood. `RouteIsBest` is the reference definition: one order over the rules
*as configured*, instead of two stable sorts one after the other.

`Monitored` is the static peer, whose breaker is `PeerHealth`; the `Discoverable`
ones come and go and are asked by no health check, so that no skills of theirs are
ever known. `a2a_send` resolves and asks the breaker in one step; `a2a_send_file`
awaits the check of its URI in between and goes on with the peer it found before,
also when that one has left the cache by then. A chosen peer that is not found is
an error: the next match is not tried (`index.ts:884`). The success rate of a rule
is always its default, since `a2a.send` passes none. Left out:
`mergeWithStatic: false`, and static peers besides the one.

### 2.12 PluginService

Calls of `start()` that get past its first line are numbered. `at[i]` is the `await`
that start `i` has reached: `listen`, `bind`, `recover`. `StopCalled` is all of
`stop()`, which takes away what is in the handles at that time. A `start()` that is
under way goes on afterwards: `overlapped` remembers which those were, and
`NothingLeaks` says that only they leave anything behind. What they do leave, the
model shows: an HTTP server that listens after `server` was cleared, a cleanup
interval whose handle a later start overwrites, a responder that announces a service
that is down. `ListenFails` keeps `server` as the code does: the next `start()`
returns at once until somebody calls `stop()`.

`heard` is the cache of the resolver in another gateway. Announcements and the
goodbye may be lost; `RecordsExpire` is its TTL. Whether a server that was closed
before it listened still listens is left open, as it depends on the version of Node;
nothing is assumed of it. `Discovery` runs within: `ServiceDrivesDiscovery` proves
that the service keeps to it.

Left out: the outcome of recovery and cleanup (in `TaskPersistence`), requests, and
`client.destroy()` (section 6).

### 2.13 Outbox, Inbox, RelayedDelivery, ReliableMail

`Outbox` has the entries and the interval that sends them. A flush works on the
snapshot in `batch` and awaits `sendFn` for `sending`; an entry that was removed
meanwhile is sent all the same, but not marked. `isFlushing` keeps a second flush
out across a `stopRelay` and `startRelay`; the module lets several run to show that
it does.

`Inbox` has the four checks of the receiving side. The handler that puts them in a
row (`InboundHandlers.onMessage`) is given to the server from outside. It is modelled
as one step that stores the idempotency key as it hands the message over: a handler
that awaits between `check` and `store` would let a retry through, since neither of
the two marks a key as in progress (section 6). Signatures are taken to verify and
bodies to parse.

`RelayedDelivery` signs every attempt anew, so a nonce does not tell a retry from a
first try; a request arrives any number of times, at any time, and its answer reaches
the client only while that waits. `ReliableMail` is what comes of it, and
`DeliversOnce` the refinement. An idempotency entry is kept at least as long as its
envelope is valid, which holds while both gateways use the TTL of the envelope; that
is the one assumption about the configuration.

## 3. Runs

| Run | Instance | What it shows |
|---|---|---|
| `queue_distinct` | 5 calls for 5 tasks, 2 slots, 2 queue places | the limits hold, no slot idles while a call waits, arrival order, every call settles, the map of pending tasks and the gauges are exact |
| `queue_shared_lost` | 3 and 2 calls for two tasks, 1 slot | a violation: with two calls for one task, starting one drops the other from the queue and its promise never settles |
| `agent_canceled` | the agent executor alone: 4 calls, 3 in one context, cache of 4, one task cancelable | a violation: heartbeats and the outcome of the dispatch are published after CANCELED |
| `gateway_executor` | 4 calls in 2 contexts, 2 slots, 1 queue place, one task cancelable | the two executors together: slots agree with runs, chains implement `SerialDispatch` and leave nothing behind, live tasks stay cancelable, `TaskLifecycle` is implemented, every call ends |
| `conn_requests` | 3 agent requests | handshake with up to two reconnects, answers, timeouts and a socket that breaks at any point |
| `pool_shared` | 3 dispatches, 2 attempts to connect | counts, idle timers, no socket open for ever |
| `store_restart` | 2 tasks, 3 runs of the process, requests from the time it listens, renames may fail | recovery, cleanup and saves across crashes; what recovery and outcomes promise of the tasks that did not begin early |
| `push_delivery` | 2 deliveries, 3 registrations (one filters the outcome), 2 retries | no failure costs a registration, deliveries end |
| `service_discovery` | one peer that comes and goes, 2 lookups, 2 starts, `stop()` at any time | polling loop, knowledge of peers, nothing outlives `stop()`, `start()` completes without gRPC, others forget a gateway that is gone |
| `routed_sends` | a static and a discovered peer, 2 skills, 3 rules in 2 orders and a malformed one, with and without affinity; soft threshold 2, threshold 3, gradual recovery, probes, 2 senders | the circuit agrees with the failures, blocks while open, closes when the peer is back; the best rule wins, by fresh skills |
| `relay_delivery` | 2 messages with keys of their own or one in common, 2 tries, 2 flushes, 1 route key | one flush at a time, `ReliableMail` is implemented, every entry gets a verdict |
| `outbound_probe` | 2 sends, 2 transports, 1 retry, threshold 1, single-probe mode | the probe marker has an owner; connection errors lead to every transport |

The two violations are disagreements between the code and its comments or tests;
`PROJECT.json` quotes both under "findings".

Bounds, and why they are enough:

- Queue: five calls fill two slots and both queue places and leave one to be
  turned away; a queue of two is the smallest in which order, "first entry of a
  task" and "the next entry" differ, and two slots the smallest number for which
  a slot counted twice is not the only one.
- Agent (`agent_canceled`): a chain of three has a link that is neither first nor last, so that
  cleanup can meet a later link; the fourth call shows that another context is
  independent. With four tasks a cache of three evicts one.
- Composition: two calls of one context may hold both slots, one waiting for the
  other in its chain, while the third is queued and the fourth turned away.
- Connection: three requests are one that is answered, one that makes it the sole
  one or not, and one that comes later. `Sockets` is not a bound: no path opens a
  fourth.
- Pool: three dispatches are two that share an entry and one that replaces it
  after it died. `MaxReconnectAttempts` is 1 instead of 2: the counter is only
  compared with it.
- Store: `MaxRuns` caps the starts of the process. Three runs allow a crash while a
  task runs and another one during the recovery of that. Tasks meet only through the list
  of the scan, which takes one at a time: of two, one can be of an earlier run, or early,
  while the other begins during the scan.
- Push: each registration is made at most once; three are the one a delivery
  starts with, one that replaces it, and one more whose events do not include the
  outcome. Two retries have a wait that is not the last (the code has three).
- Discovery: `Lookup` caps the lookups under way at a time: two are one that
  overtakes another; `MaxStarts` caps how often the service starts: the second
  start meets the tick, or the half-done start, that the first has left behind.
  With one peer the thresholds are 1 and 0, so the mode changes only once; it
  decides how long a timer takes, which is abstracted, and the proofs have any
  number of peers.
- Routing: two rules have the same priority, so that ties, priorities and scores
  disagree; the two orders configure the default rule first and last; two skills
  make an affinity that is neither none nor full.
- Relay: two messages are one that waits while the other is sent, and two for one
  key; two tries are one retry; a second flush is one that must not happen. One
  envelope goes to the agent, the other by a rule that comes and goes.
- Breaker: the thresholds 2 and 3 give every circuit a failure to spare; `Period`
  is 3 instead of 10, since the code compares the counter only with the allowance.
- Outbound: one send is the probe while the other is an old one, late; two
  transports in every order; one retry. The threshold is 1, so that the breaker
  opens while the other send is still under way.

Deadlock is not checked where calls are one-shot or the process starts a bounded
number of times: those models stop when everything has been done. The routing,
outbound, relay and service runs check it.

## 4. Fairness

- Synchronous code runs to its end (`DrainQueue`), and promise callbacks run
  (`Progress`, `StoreSteps`, `Release`).
- A delegate run ends (`FinishRun` in `QueueingExecutor`): its waits (connect, agent
  answer, wake-up call) all have timers. In `GatewayExecutor` this is not assumed.
- Waits with a timer end: the open, the challenge and every request of a
  connection (`OpenSucceeds \/ OpenFails`, `ChallengeTimesOut`, `ConnectRefused`,
  `RequestTimesOut`), an attempt to connect (`Connecting`), a post (aborted after
  10 s), a send of the relay's client (`AnswerEnds`), a send to a peer (`Ends` in
  `PeerRouting`). Nothing forces the
  gateway, a webhook or a peer to answer.
- Timers fire: evictions, retries, the polling loop, probes, the relay's interval
  (`TickPosts`) and its backoffs. A socket that is
  closing closes. The resolver answers or fails.
- A process that died is started again (`Start`); time passes (`GrowsOld`, `Cool`,
  `RampUp`).
- The client of the relay has an idle timeout only: `AnswerEnds` assumes besides that no
  inbox sends an answer byte by byte for ever.
- `bindAsync` calls back and recovery ends (`Proceeds`); records expire in the caches of
  others (`RecordsExpire`). That an HTTP server listens is not assumed.
- Nobody needs to send anything: the circuit of the static peer closes through health
  probes.
- Nothing forces a client to call, cancel, register or stay away, a heartbeat to
  fire, a process to crash, the service to start or stop, a
  request of the relay to arrive or a peer to come back: none of these is fair. `RecoversWhenUp` has "the peer stays up" as its
  hypothesis, `KnownWhenUp` "the peer and the resolver stay up", `RoutesFresh`
  "the peer stays up and its card as it is", `EveryMessageSettles` "the relay stays
  on", `Forgotten` "the service stays stopped, and no stop() came into a start()", and
  `SocketsClose` that no two cold acquires overlapped.

Weak fairness suffices everywhere: each of these actions stays enabled until it
is taken, or until what it was meant to bring about has happened.

## 5. What is proved

`QueueingExecutor_proofs`, for every finite set of calls, every assignment of task
ids to them, every pair of integer limits, and `TaskStateBound` either way:

- `TypeCorrect`, `NeverOverCap` (`ConcurrencyCap`), `QueueNeverOverflows`
  (`QueueBound`), `NeverIdleWhileQueued` (`WorkConservation`), `FirstComeFirstServed`
  (`ArrivalOrder`, an action property);
- `BooksExact` (`BookkeepingExact`), where no two calls share a task id and `TaskState`
  is a value.

The argument is the inductive invariant `IInv`: the four formulas and `EntriesApart`,
which says that no entry is queued twice or both queued and running. It is
needed because `activeTasks` counts up and down while `running` is a set: starting an
entry that runs already would move one and not the other. `EntriesApart` survives
because every change of the queue other than a push takes entries away and keeps
the order of the rest; the lemmas about `Thins` say so for `splice` and `shift`.
`FirstComeFirstServed` rests on the same fact for two entries at once (`KeepsOrder`): a
call that is behind another stays behind it, and `shift()` starts the first. It holds for
shared task ids too. `BooksExact` does not, which is why it assumes `OwnTasks`: with one
id for two calls, forgetting the first forgets the second. It goes through `GaugesExact`,
the gauges being right at the end of every handler, also while the queue drains.

`GatewayExecutor_proofs`, for every finite set of calls, every assignment of tasks and
contexts to them, every cache limit, and what holds of the queue:

- `DrivesQueue` and `AdmissionLimitsHold`: the composition is a behaviour of
  `QueueingExecutor`, so that the limits proved there for any delegate hold with the
  agent executor as the delegate;
- `ChainsWellFormed`, `ChainsDoNotLeak` (`NoChainLeak`), `ChainsAreLines`
  (`FifoPerContext`, the refinement of `SerialDispatch`);
- `ExecutorsAgree`, `SlotsAreRuns` (`SlotsMatchRuns`, with `TaskState` bound: without it
  the promise of a queued call is rejected while its entry stays, and the code does start
  that);
- `LiveTasksCancelable` (`CancelReachesLiveTask`);
- `StatusesFollow`, `CanceledIsLeftAlone` (`CanceledInQueueStays`), `LifecycleIsFollowed`
  (`FollowsLifecycle`, the refinement of `TaskLifecycle`), where no two calls share a task.

Two abstractions of `Next` carry the rest: `AgentStep`, what a step is to the agent
executor, and `JointStep`, what it is to a call's queue entry, slot and phase. Each is
shown once to cover every action, and the invariants are proved from it.

The chains are a linked list (`prev`, `tail`), and what they promise is a line. `IsLine(s, x)`
says that `s` lists the open calls of context `x` as they are chained, up to the tail;
`LinesExist`, that there is one for each context, is the inductive invariant. It survives
because a call joins at the tail, only the head dispatches (`HeadOnly`: any other has an
unsettled link before it), and so only the head leaves. `UpToEquation` shows that the
recursive function by which the refinement mapping finds the line meets its own equation:
there is a function that does, taken from the lines themselves. With it `LineIs` proves
that the mapping's line is that one, by the least position where they would differ, and
each step of a chain is a step of `SerialDispatch` or none.

`JointInv` relates the two executors: nothing in the queue or still to come has a phase,
and a run that has started and is not settled is in `running`. `SlotsMatchRuns` is its
consequence. `CacheInv` goes by counting: an entry of the cache is evicted only when it is
full, and then as many tasks as the limit have been shown since. `TasksInv` says how far
the status of a task can be by the phase of its call. This one needs `OwnTasks`: with one
id for two calls, the end of one gives a status to the other, in the code too.

`PeerHealth_proofs`, for every set of senders, all thresholds and both recovery
modes:

- `TypeCorrect`, `CircuitCounts` (`CircuitMatchesFailures`), `MarkerExact`
  (`MarkerMatchesCircuit`), `OpenReported` (`OpenIsUnhealthy`), `NothingPassesOpen`
  (`OpenBlocks`).

`IInv` is the conjunction of the first four. The marker and the circuit have to go
together: the branch of `isAvailable` that would let a second single probe through
is dead exactly because the marker is set whenever the circuit recovers.

There too, for every set of rules, peers and skills, and for every number of transports
and of retries:

- `RoutingDrivesBreaker`, `RoutedBreaker`: `PeerRouting` uses the breaker as `PeerHealth`
  has it, so the same holds under routed sends, `OpenBlocks` included;
- `RoutesToBest` (`RouteIsBest`), of the rules;
- `SendsCount`, `ProbeIsOwned` (`ProbeHasOwner`), `FallbackIsComplete` (`FallbackReaches`),
  of `OutboundSend`.

`OutboundSend` is no refinement of `PeerHealth`, since whether its result is a success does not
depend on the peer alone. It keeps the invariant all the same: the lemmas about results are
about any result. The marker's owner is the send that set it: what clears the marker is a result, and what makes
a new one is an admission. For the fallback, `Covered` says that what an attempt has left to
try has every transport of its card that works, as long as the peer stays up. It starts with
a permutation of the card (`Orders`), and an attempt that goes on loses only transports that
have failed. So when the last one ends with a connection error, none works.

For the rules, `ArrangedFacts` says what a sort leaves, for any order that is weak (irreflexive,
transitive, and so is being tied): two places differ in rank (`RanksDiffer`), so that ranks map
the places one to one onto `0..n-1`, and the result has every kept member once, in order, ties
as they stood. No induction is needed. Priorities are such an order; so are affinities, which
are fractions with positive denominators, so that comparing them crosswise is transitive
(`HigherOrders`). `FirstMatch` is that nothing beats the first match among the parsed rules, and
`BestTarget` carries it back to the rules as configured, since a place in the parsed list *is*
the order by priority and place (`ParsedFacts`). That is what a reader of the two sorts has to
believe: the second keeps what the first has done.

`WsPool_proofs`, first for `GatewayConnection`, for every set of agent requests:

- `ConnTypeCorrect`, `NoSocketLeft` (`OneSocket`), `MapExact` (`PendingExact`),
  `AnswersOwn` (`OwnAnswer`).

The handshake half of its invariant `ConnInv` (`Handshaking`) says how many sockets have
been opened at each wait of `connect()`, and that only the last one is current: without it a
late open or a second `reconnect()` could revive an old one. The other half
(`RunsKnown`) relates the two ends: a run under way at the gateway, while the socket
is open, is pending here unless its request has timed out. So an event without an
id, which settles the sole pending request, settles the right one.

Then for `WsPool`, for every finite set of dispatches and number of attempts:

- `TypeCorrect`, `IdleTimed` (`IdleIsTimed`), `CountsExact` (`CountExact`).

`release()` goes by the key, so it may count down an entry that somebody else
acquired. What survives is one-sided, `AtMostUsers`: the count never exceeds the
users of the entry. With `ZeroIsTimed` (a count of zero has its timeout, since
nothing but `release()` reaches zero and the timeout itself closes an entry at zero)
it gives `IdleTimed` without any assumption on overlaps. `OnlyPooled` is the exact
statement while no entry was overwritten.

`TaskPersistence_proofs`, for every set of tasks and number of runs of the process:

- `TypeCorrect`, `LaterOnesSpared` (`RecoverySparesLater`), `OutcomesFinal` (`OutcomeKept`,
  an action property).

None of them assumes when requests come. The invariant `IInv` goes by the tasks that are not
`early`: what the scan has still to look at is of an earlier run (`ScanKnown`), so that such a
task is saved by recovery or by the SDK, never by both (`SaversKnown`), by one save at a time
(`OneSave`), and not while its file has an outcome (`OutcomesLeftAlone`). So what an overwrite
tears was no outcome, whenever the process dies, and no two saves of it meet in a
temporary file. Early tasks have none of this, and need none: no conjunct says anything
of another task by what an early one does.

`PushDelivery_proofs`, for every set of deliveries and registrations and number of
retries:

- `TypeCorrect`, `WebhooksKept` (`KeptUntilDelivered`, an action property).

`Remembers` says that a delivery under way has a configuration to put back, no
result yet, and a retry left while it waits. So what an HTTP error has deleted is
always put back, also by the attempt that gives up, unless it has decayed.

`PluginService_proofs`, for `Discovery`, for every finite set of peers and lookups, all
thresholds and any number of starts:

- `TypeCorrect`, `LoopsCounted` (`LoopPerStart`).

The proof counts the turns of the loop: a tick under way, the timer that is held, or
one that was forgotten. Ticks and timers turn into each other, so only `start()` adds
one; `HeldRuns` (a stopped manager holds no timer) makes that count right.

There too, for the service and any number of starts, peers and lookups:

- `ServiceDrivesDiscovery`, `ServiceLoops` (`LoopPerStart`), `NothingLeaksHolds`
  (`NothingLeaks`).

The first is a refinement: every step of the service is one of `Discovery` or leaves it
alone, so that what is shown of the polling loop holds of the service.
`ServiceInv` adds to `NothingLeaks` that a start under way is the current one or was
overlapped (`UnderWayKnown`), and that, with no overlap, the handles are those of the
current start (`HandlesCurrent`): without the latter `stop()` might clear a handle other
than the one that is in use.

`RelayedDelivery_proofs`, for the outbox, for every finite set of messages, any number of
flushes and of retries:

- `TypesHold`, `OneFlushHolds` (`OneFlush`), `SettledHolds` (`SettledStays`, an action
  property).

The flag is up while a flush awaits a send, and nothing but the end of that flush takes
it down; and what a flush still has to send, or sends, is pending, removed or marked as
sending by it. So a settled entry is in no snapshot, old as this may be.

There too, for the relay as a whole, with any keys and nonces and whatever the network
does:

- `RelayDrivesOutbox`: signing, posting and the receiver leave the outbox what it is, so
  that the above holds here too;
- `HandedOverOnce` (`Remembered`), `MailIsReliable` (`DeliversOnce`, the refinement of
  `ReliableMail`).

`Remembered` is why a retry does no harm: the key of a message that was handed over is in the
idempotency store as long as its envelope could still be accepted, and stands for that message.
`Answered` ties it to the sender: a confirmation that is still to be read says that the message
whose answer is awaited was handed over, since every answer of an earlier post has gone
when the next one is sent, and no two flushes wait at once (`OneFlush` again).

Assumptions: `CallAssumption`, `LimitAssumption`, `BoundAssumption`, `ExecutorAssumption`,
`BreakerAssumption`, `RoutingAssumption`, `SendAssumption`, `RequestAssumption`,
`PoolAssumption`, `PersistenceAssumption`, `PushAssumption`, `DiscoveryAssumption`,
`OutboxAssumption`, `InboxAssumption` and `RulesAssumption`, which give the constants their types (and a
threshold that is not 0, finite sets where something is counted, and a "none" that is no
element). TLC evaluates them in the runs. Beyond these, `OwnTasks` (no two
calls for one task) and `TaskStateBound` are hypotheses of the theorems named above;
the runs check the properties under the same ones.

Only model-checked:

- every liveness property: TLAPS does not reason about `ENABLED`, so a proof from weak
  fairness is out of its reach;
- the two violations, which are single behaviours.

## 6. Hazards

`PROJECT.json` lists what is hard to test in this code, at its line, with the
properties that go after it. By part:

| What may go wrong | Where | Properties |
|---|---|---|
| a slot leaks, idles or is counted twice; the queue overflows | `queueing-executor.ts` 273, 298 | `ConcurrencyCap`, `QueueBound`, `WorkConservation`, `SlotsMatchRuns` |
| a call is lost, overtaken, started after it was canceled, or settles twice | `queueing-executor.ts` 180, 213, 298, 299 | `EveryCallSettles`, `ArrivalOrder`, `CanceledInQueueStays`, `EveryCallEnds` |
| the map of pending tasks or the gauges drift | `queueing-executor.ts` 184 | `BookkeepingExact` |
| calls of one context hold every slot, waiting for each other | `queueing-executor.ts` 132 | `EveryCallEnds` |
| dispatches of a context overlap, one that fails blocks the next, chains stay | `dispatch-queue.ts` 46, 51 | `FifoPerContext`, `EveryCallEnds`, `NoChainLeak` |
| a late heartbeat or answer overwrites an outcome | `executor.ts` 1412 | `TerminalIsFinal`, `FollowsLifecycle` |
| a running task cannot be canceled any more | `executor.ts` 1528 | `CancelReachesLiveTask` |
| handshake and reconnect interleave with timers and socket events | `executor.ts` 667, 1036 | `OneSocket`, `PendingExact`, `EveryRequestSettles` |
| an event without an id settles the wrong request | `executor.ts` 988 | `OwnAnswer` |
| the count of the pool is that of another entry; idle or lost connections stay open | `executor.ts` 1143, 1168, 1245, 1282 | `CountExact`, `IdleIsTimed`, `SocketsClose` |
| the process dies in or between saves, or during recovery | `task-recovery.ts` 95, `task-store.ts` 73 | `EveryTaskGetsOutcome` |
| recovery and the tasks of this run meet | `index.ts` 1119 | `RecoverySparesLater`, `OutcomeKept` |
| a late result moves the circuit; a marker is left behind | `peer-health.ts` 131, 168, 211 | `CircuitMatchesFailures`, `OpenBlocks`, `ProbeHasOwner`, `RecoversWhenUp` |
| the fallback gives up too early | `client.ts` 345 | `FallbackReaches` |
| a webhook is forgotten, or retried for ever | `push-notifications.ts` 296 | `KeptUntilDelivered`, `EveryDeliveryEnds` |
| polling dies, doubles, or forgets who is up | `quorum-discovery.ts` 182, 215 | `LoopPerStart`, `KnownWhenUp` |
| the wrong rule wins; rules go by old skills | `routing-rules.ts` 305, `index.ts` 368 | `RouteIsBest`, `RoutesFresh` |
| `stop()` comes into a `start()`; gRPC cannot be bound | `index.ts` 1097, 1131 | `NothingLeaks`, `Forgotten`, `StartCompletes` |
| two flushes send the same entries; a send that fails silences the relay | `internal/outbox.ts` 139, 157 | `OneFlush`, `EveryMessageSettles` |
| an answer is lost and the message delivered again by the retry | `internal/transport.ts` 274 | `DeliversOnce` |

Disagreements and surprises met while modelling, besides the two violation runs.
Each can be seen in the module named; no run claims the opposite:

- `TaskState` is imported with `import type` and used as a value
  (`queueing-executor.ts:171`, `executor.ts:1359`): as the files stand these lines
  throw, after the entry of a queued call was stored (`ExecuteQueued` with
  `TaskStateBound = FALSE`).
- "Recover tasks stuck in non-terminal states from a previous run" (`index.ts:1118`):
  requests are served by then, so that recovery may fail a task of this run that runs, and
  "completed" replaces that "failed" or the reverse. The tasks that began before the store
  was listed are exempt from `RecoverySparesLater` and `OutcomeKept` for this reason; without
  `early`, TLC finds both violated. (`TaskPersistence`)
- "on transport-level errors (connection, timeout, 5xx) fall back to the next available
  transport" (`client.ts:213`, likewise `transport-fallback.ts:67`): the errors of a
  transport are `Error` objects, which are told apart by their text alone
  (`transport-fallback.ts:76-95`); the branch for status codes (98) sees only the result for
  an unknown transport. So a status 500 or 502, or a reply that does not parse, ends the
  loop with transports left. The next attempt starts with the order that the statistics
  have by then. `FallbackReaches` is about connection errors for this reason. (`OutboundSend`)
- A file torn by a crash in the overwrite (`task-store.ts:73`) is neither read,
  recovered nor deleted. A task turned away is stored with the string `"rejected"`
  (`queueing-executor.ts:149`), which no scan takes for a terminal state: it is
  failed at the next start. (`TaskPersistence`)
- A late failure clears the marker of another send's probe, so that a second probe
  may run beside the first (`peer-health.ts:211`). A recovery capacity below 0.05
  rounds to no call at all (`peer-health.ts:179`): without health checks such a
  circuit never closes. (`PeerHealth`)
- Two cold `acquire()` calls for one key overwrite each other's entry: the first
  connection is never closed, and its `release()` counts down the other's entry
  (`executor.ts:1152`, 1168; `tests/ws-pool.test.ts:478` acquires concurrently but
  does not look at the sockets). After `destroy()`, a connection that was being
  opened is still put into the pool. (`WsPool`)
- An open or challenge that fails leaves the socket of `connect()` open
  (`executor.ts:667`), and a challenge timer that fires while the socket is opening
  rejects a promise nobody awaits (`executor.ts:843`). After a request has timed out,
  the event of its run may settle the request that is sole by then
  (`executor.ts:988`). (`GatewayConnection`)
- "it only cleans on success" (`push-notifications.ts:295`) is not what `send` does: it
  deletes on any HTTP answer (231). So a registration made during a post is lost, or
  replaced by the old one; and one unregistered during a wait comes back.
  (`PushDelivery`)
- "quorum manager stops the underlying DNS manager" (`index.ts:1144`): it does not, so
  the cache survives a stop. A lookup in flight at `stop()` fills the cleared cache
  again, and a tick in flight at `stop()` and `start()` makes a second loop.
  (`Discovery`)
- Every failure of an attempt becomes status 500, so that `withRetry` retries what
  `peer-retry.ts:10` calls not retryable; and every retry has a new `messageId`
  unless the caller gave one (`client.ts:233`). (`OutboundSend`)
- A `stop()` while `start()` awaits does not stop what that starts afterwards: the
  cleanup interval, the responder and, depending on Node, an HTTP server
  (`index.ts:1131`, 1138, 1050). After a listen that failed, `server` is still set, so
  that the next `start()` returns without doing anything (`index.ts:1032`). `stop()`
  destroys the `A2AClient` that `register()` created once (`index.ts:1154`,
  `client.ts:84`): after a stop and a start in one process, its HTTP requests throw.
  (`PluginService`, but for the client)
- The rule that wins may name a peer that is not there; the next match is not tried
  (`index.ts:884`). Peers that were discovered are in no health check, so that a rule
  which asks for skills never matches for them (`index.ts:368`). (`PeerRouting`)
- `IdempotencyStore` has no entry for a message in progress (`internal/idempotency.ts:42`),
  and an entry removed from the outbox during a flush is sent all the same
  (`internal/outbox.ts:143`). (`Inbox`, `ReliableMail`)

## 7. Not modelled

- `saturation-model.ts`: a floating-point formula the wired executor never calls.
- `agent-card.ts`, and the rules of `file-security.ts`: building and validating single
  values (`PeerRouting` has that the validation of a URI awaits, and may refuse).
- `telemetry.ts`, `audit.ts`, `internal/metrics.ts`: counters and lines of a log; the two
  gauges that the queue sets are in `QueueingExecutor`.
- `connection-pool.ts`: a layer over the runtime's HTTP agent.
- In `index.ts`: parsing the configuration, the express routes, read-only methods.
- In `internal/`: the computation and check of signatures, the parsing of bodies.
- `cli/`, `skill/`: sequential clients of the gateway.
- The SDK, the OpenClaw gateway, the peers, the resolver and the file system appear as
  the environment of the modules above.

## 8. Plan

Done: the queue, the agent executor and their composition; connection and pool;
persistence; push; breaker and routing; outbound sends; discovery, the responder and the
life cycle of the service; the relay between gateways. Proofs for all of these, the
refinements of `SerialDispatch`, `TaskLifecycle` and `ReliableMail` among them: every safety
property of the passing runs.

Next:

1. *Widen the model.* The dispatch of `AgentExecutor` as the composition of `WsPool` and
   `GatewayConnection` instead of one step; the store within `PluginService`, so that
   recovery meets a `stop()` and `start()` in one process.
2. *Compose the store with the SDK's request handler*: what a client sees of a task that began
   early, whose file and whose bus say different outcomes.
