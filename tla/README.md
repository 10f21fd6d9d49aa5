# A formal model of the Aristote Dispatcher

This directory holds TLA+ modules that model the dispatcher of this repository, the TLC
configurations that check them on small instances, and proofs checked by TLAPS. Paths are
relative to the root of the repository.

## The system

Users send OpenAI-style requests to a **sender**. For each one the sender makes an RPC call
through RabbitMQ; a **consumer** of the model takes the message, chooses a vLLM server and
answers with its url, or defers the message. The sender then proxies the request to that server
by itself and sends a **completion** message, from which the consumers learn that the server has
one request less.

| Component | Source | State | Operations |
|---|---|---|---|
| RPC client (sender) | `src/sender/rpc_client.py` | `futures`, one per call; connection, exclusive queue of answers | `call`, `on_response`, `send_completion_message`, `reconnect_callback` |
| Proxy (sender) | `src/sender/main.py` | the coroutine of each HTTP request | validation, threshold, call, forwarding, streaming, background tasks |
| RPC server (consumer) | `src/consumer/rpc_server.py` | `current_parallel_requests`, subscriptions, tasks | `on_message_callback`, `server_specific_callback`, `on_completion_callback`, `_expire_request`, `first_connect`, `reconnect_callback` |
| Quality of service policies | `src/consumer/quality_of_service_policy/` | none; sleeping `requeue` tasks | `apply_policy` (three policies), `requeue` |
| Selection strategies | `src/consumer/strategy/` | `servers`, `round_robin_idx` | `choose_server`, `get_server_score`, `update_servers` |
| Metrics tracker | `src/consumer/strategy/metrics_tracker.py`, `histogram.py` | rings of histograms, window indexes, monitoring tasks | `monitor`, `stop_monitor`, `_monitor_server`, `update_histogram` |
| Server pinger | `src/consumer/server_pinger.py` | its task | `_monitor_servers` |
| Startup and probes | `src/consumer/main.py`, `metrics.py`, `probes.py` | stage of `main_consumer`, shutdown event, one ping task per server | `wait_for_vllms`, first connection, signal, closing, `/health`, `/ready` |
| Model cache (sender) | `src/sender/models.py` | the list of models, fetches under way | `get_models`, `get_model_by_id`, refresh after `ChannelClosed` |
| Users and metrics | `src/sender/db.py`, `entities/`, `command/manage_users.py` | database rows | one ORM statement per command |
| RabbitMQ | external | queues | publication, delivery, ack, redelivery, expiration |

The parts share no memory: sender and consumers meet in four kinds of queues, the *model queue*,
the *private queue* of each organization, the *completed queue* and the sender's exclusive queue
of answers. Inside a process everything runs in one asyncio event loop, so steps interleave only
at awaits. What is hard is what happens between two awaits and between two processes:

- the policy reads a counter that is increased two awaits later, by callbacks of several
  subscriptions, while completions, expiries and other callbacks change it;
- `requeue` acknowledges a message, sleeps and publishes it again;
- answers race with `MESSAGE_TIMEOUT`, completions with the counting of the request they complete,
  expiries with requests that still run;
- a completion may be handled by a consumer that did not count the request;
- connections drop: unacknowledged messages are delivered again, and a reconnection adds a
  subscription to the model queue;
- the pinger cancels and waits for monitoring tasks while callbacks choose servers, and may itself
  be cancelled by the shutdown in the middle of that;
- queues expire while nobody consumes them, with the requests they hold; messages have a time to
  live, which races with the timeout of the call and starts again with every requeue;
- fetches of the list of models overlap and each replaces the list when it returns, however old;
- a passive declaration of a missing queue closes the channel all the calls share;
- consumers are signalled or killed before they serve, between the declarations of two queues.

What makes each part correct:

- *RPC client*: a call returns; a future belongs to a call under way; at most one answer is taken.
- *RPC server and policies*: a counted request is released one day; no waiting request is lost or
  doubled; the counter and the real load of a server stay within a known distance of the limit;
  a private-only request stays in its organization.
- *Strategies, tracker, pinger*: a server is found whenever one is known; the score is that of the
  window; the known servers end up being those that answer; nothing runs on after the shutdown.
- *Startup*: no request is taken before a server answers; a wait ends; a signal is not lost.
- *Model cache*: a model is called unknown only if it was missing; every request gets an answer.
- *Durations of the settings*: no server is asked for on behalf of a call that has given up; a queue
  that was found is there until the message is.

`PROJECT.json` lists the hazards with the line where each one bites and the properties aimed at it.

## Modules

| Module | Models | State |
|---|---|---|
| `Broker` | RabbitMQ as this code uses it (external) | `modelQueue`, `privateQueue` (bags of requests), `callbackQueue`, `completedQueue` (sets), `faults` |
| `RPCClient` | a request of the sender, from its validation to its completion message | `call`, `answer`, `futures` |
| `RPCServer` | the consumers: callbacks, policies, counters, deferred messages, reconnection, restart | `callback`, `mainTags`, `slots`, `timers`, `deferred`, `wedged`, `healthy` |
| `Dispatcher` | composes the three; `Next`, fairness, the properties of the whole | one history variable, `outlived`: the requests a server still works on although their slot expired |
| `RequestContract` | the abstract specification: what the dispatcher promises for a request | `status`, `offers`, `taken` |
| `DispatcherProofs` | theorems about `Dispatcher`, for any faults | |
| `ContractProofs` | `Dispatcher` implements `RequestContract` | |
| `DeliveryProofs` | theorems about `Dispatcher` that need some faults excluded | |
| `SumTheorems` | facts about sums over finite sets, by induction on their subsets | |
| `CountingProofs` | theorems about what `Dispatcher` counts over all queues and consumers | |
| `MCDispatcher` | values of the constants of `Dispatcher` for TLC | |
| `Histogram` | latency histograms, their difference, the 95th percentile and the score | |
| `ServerSelection` | one consumer's pinger, strategies and metrics tracker, to the end of the process | `up`, `served`, `strategy`, `stage`, `pinger`, `pending`, `answered`, `servers`, `next`, `urls`, `monitoring`, `task`, `window`, `last`, `diff`, and four history variables: `outcomes`, `faults`, `turns`, `fetched` |
| `SelectionProofs` | theorems about `ServerSelection` | |
| `MCServerSelection` | values of the constants of `ServerSelection` for TLC | |
| `Lifetime` | by a clock: a request against `MESSAGE_TIMEOUT`, `x-message-ttl`, `x-expires` and the delay of a requeue | `now`, `call`, `place`, `requeues`, the queues and their leases, the moments each of these began |
| `LifetimeProofs` | theorems about `Lifetime` | |
| `MCLifetime` | values of the constants of `Lifetime` for TLC | |
| `QueueRegistry` | which queues exist and who consumes them (external) | `queues`, `subscribers`, `faults` |
| `ConsumerProcess` | `main_consumer`: wait for a server, connection, service, signal, end | `stage`, `probe`, `attempts`, `todo`, `signalled` |
| `ModelCache` | the sender's list of models and the requests that rely on it, up to their publication | `kind`, `cache`, `step`, `fetch`, `snapshot`, `place` |
| `Deployment` | composes the last three; fairness, properties | two history variables, `absent` and `unserved` |
| `DeploymentProofs` | theorems about `Deployment` | |
| `MCDeployment` | values of the constants of `Deployment` for TLC | |

`Dispatcher` EXTENDS `RPCClient` and `RPCServer`, which both EXTEND `Broker`; the actions of each
leave the variables of the other unchanged. `Deployment` composes `ConsumerProcess` and `ModelCache`
over `QueueRegistry` in the same way. The three compositions look at one system at three scales: a
request between its processes, a request against the clock, and processes that come and go.
Operators announced by "Mutant:" are plausible bugs of
the definition that follows; none is used by a specification. For every checked property one of
them, put in place of that definition, makes TLC find the property violated.

### From the code to the actions

An action is the code from one await to the next.

- `StartCall` is `call` from the answer of the passive declaration (`rpc_client.py:92`) to the
  publication; `PublishRequest` the write of the message. A call then is "waiting", for the
  confirmation and then for the future: an answer may come before the confirmation.
- `DeliverMain` and `DeliverPrivate` are the two callbacks up to their first await: choice of a
  server, policy, and either the answer to publish or the start of a `requeue` task. The states of
  `callback[c][t]` are the awaits: `publishing`, `replied` (the answer is at the broker, the
  confirmation is not back), `acking` (the ack is written, the broker has not seen it),
  `deferring`. `prefetch_count=1` holds per subscription: a subscription gets its next message when
  it is idle again. A callback that an exception ended is `stuck`: its message is never
  acknowledged, so its subscription gets no other one until the connection is lost or the process
  restarts. Three things lead there: a publication of the answer that is refused
  (`PublishReplyFails`), a score that raises after a restart of a server, and every refusal of the
  performance policy (`Raised`), whose log line reads `settings.MAX_PARALLEL_REQUESTS`, a setting
  that does not exist, before the requeue is started
  (`performance_based_requeue_policy.py:31`, `settings.py:45`).
- The ack, the increase of the counter and the start of `_expire_request` (`rpc_server.py:175-182`)
  are one action, `FinishCallback`: awaiting the ack awaits a write only, and nothing the broker
  does about it comes before the rest of the callback.
- `DeferAck` and `Republish` are the two halves of `requeue`, around its sleep; `deferred` is what
  only a sleeping task remembers.
- `HandleCompletion` and `WedgeOnCompletion` are `on_completion_callback` for a known and an unknown
  server; the second one raises at line 210 and leaves the message unacknowledged.
- `ConnectionLost` returns what was not acknowledged, ends the callbacks and adds a subscription
  (`reconnect_callback` consumes the queue the robust channel has restored already); counters and
  sleeping tasks survive. `Crash` loses them.
- In `ServerSelection`, `Toggle` and `Restart` may break the fetch of the metrics of their server
  (`BreakFetch`): only `ClientConnectorError`, a connection that was not made, is caught
  (`metrics_tracker.py:95`); a connection that is reset or times out in the middle ends the task,
  and so do an error status or a timeout without an outage (`RefreshRaises`). `StopMonitor`, `TaskEnds` and `RestartMonitor` are the three parts of
  `MetricsBasedStrategy.update_servers`: before, during and after the wait for the cancelled tasks.
  `StopPinger`, `PingerEnds`, `StopTracker` and `Exit` are the end of `main_consumer`
  (`main.py:66-75`): the pinger is cancelled wherever it is, awaited, and the tracker is stopped.
- In `Lifetime`, an action takes no time and `Tick` advances the clock. `LookUp` is the passive
  declaration of the model queue, which renews its lease; `Confirm` starts the timeout, which runs
  from the confirmation of the publication and not from the call. `Leave` is the end of a
  connection or of a process; `RemoveQueue` the `x-expires` of a queue, `Expire` the
  `x-message-ttl`, which only the model queue has.
- In `ConsumerProcess`, `Ping` and `Awake` are one task of `wait_for_vllms`; `FirstAnswers` and
  `FirstFails` what follows `asyncio.wait`, which looks at the tasks that are done by then;
  `Consume` declares and consumes the next queue of `first_connect`; `Signal` may come at any time,
  and `Close` is what it leads to once the process serves.
- In `ModelCache`, `Arrive` is `get_models` or `get_model_by_id` up to the fetch; `ReadBindings` the
  moment RabbitMQ answers it and `FetchReturns` the moment the sender replaces its list. `NoQueue`
  is `ChannelClosed` in every call it reaches, with the refresh each of them starts.

### Abstractions

- Requests are identified by their correlation id; bodies, tokens, HTTP responses, logging, usage
  metrics, requeue counts and forwarded priorities are left out.
- Time is left out of `Dispatcher`: a timeout, an expiry or a delay may end at any moment. In
  particular the slot of a request may expire while a server works on it, or is still to: with the
  default values it does (15 s for `VLLM_TREATMENT_TIMEOUT_SECONDS`, against 600 s for
  `PROXY_CLIENT_REQUEST_TIMEOUT`). `outlived` remembers those requests, until their service ends.
- Order among messages of one priority is left out, which allows more behaviours. Answers and
  completions are sets: a second identical one has no effect on its receiver. Several expiries of
  one request on one server are one element of `timers`: which of them releases the slot cannot be
  told without time.
- `RPCServer` takes any healthy server, of any set of them, with any score the strategy can return,
  or none when the fault "restart" allows a score that raises;
  `ServerSelection` models the choice itself. What the first relies on is proved of the second: there
  is a server to choose, among the known ones, whenever one is known (`AlwaysChooses`,
  `RoundRobinEven`), and the known ones are those a cycle of pings found (`KnownFromTheCycle`). No
  abstract specification joins the two modules.
- A message published to a private queue nobody declared is returned by the broker and ignored by
  the sender, so it disappears.
- The acknowledgement of a completion is one step with its discard: the discard is idempotent, so
  a redelivery in between changes nothing.
- `Lifetime` bounds the time a publication takes by `PublishTime`, and the horizon of the clock.
  It assumes, as `quality_of_service_policy/README.md` asks, that the time to live of a message is
  not longer than the timeout of the call, and that a publication takes less than the 30 s of
  `x-expires`.
- `Deployment` leaves out the completed queue, where no request goes, and what the callbacks do. A
  ping succeeds or fails at will. `Kill` also stands for a `first_connect` that RabbitMQ refuses.
  Which other calls a closed channel takes along is any set of those under way on it. The lease of
  a model queue that a call has just found is `FoundQueueStays`, proved of `Lifetime`.
- A server of `ServerSelection` that is not `up` refuses new connections: a monitoring task then
  tries again at once, which changes nothing (`metrics_tracker.py:95`). Latencies are a few buckets.
- The processes of `Deployment` keep their connection while they serve: they close it at a signal
  or are killed. A lost connection of a serving process is modelled in `RPCServer`, where queues do
  not expire, and not here; a private queue that expires meanwhile, with its subscription restored
  later by the robust channel, is therefore outside `ReturnedOnlyUnserved` and its theorem.

## Properties and runs

| Run | Instance | Checks |
|---|---|---|
| `Limit` | 3 requests, one per routing mode, 1 server of limit 1, 1 consumer, no fault, slots that may expire at any moment, fairness without the message timeout | `TypeOK`, `OvershootBounded`, `OneCopy`, `ServiceIsCounted`, `LoadBounded`, `EveryCallReturns`, `QueuesDrain` |
| `Faults` | 2 requests (any, private-only), 2 consumers of two organizations with a server each, one lost connection of a consumer or of the sender, or one refused publication | `EverySlotExpires`, `NothingLost`, `FuturesOwned`, `ContractHolds`: refinement of `RequestContract` |
| `Released` | 3 requests of different priorities and routings, 2 consumers with a server each, scores that may raise, threshold 0, an organization listed without a queue and one not listed, one fault of any kind, fairness with the message timeout | `EveryCallReturns`, `SlotsReleased` |
| `Selection` | 2 servers, both strategies, windows of 2 readings, one outage, restart, failed or empty fetch, and the signal at any moment, fairness | `TypeOK`, `AlwaysChooses`, `WindowExact`, `RoundRobinEven`, `NothingMonitoredAtExit`, `KnownFromTheCycle`, `HealthConverges`, `ShutdownCompletes`, `MonitoringGoesOn` |
| `Lifetime` | 1 request of any routing mode, timeout and time to live of 3, queue expiration of 2, delay and publication of 1, 8 units of time | `TypeOK`, `LostTimeBounded`, `FoundQueueStays`, `NoStaleDelivery` |
| `Deployment` | 1 consumer of 2 servers of one organization, a private call, a second request that is a call or a lookup, 2 attempts, one signal, kill or failed fetch and any number of restarts, fairness | `TypeOK`, `NoFalseUnknown`, `ReturnedOnlyUnserved`, `NothingConsumedUnready`, `EveryRequestAnswered`, `StartupEnds`, `SignalStops` |

Every property is stated in words above its definition. In short: the policy does not keep the
load within the limit (it reads the counter two awaits before it is increased, and lets the best
priorities through without reading it), but the distance is known. The counter exceeds the limit by
less than the number of subscriptions that may choose the server (`OvershootBounded`), one more
after each reconnection. While nothing fails, only the expiry of its slot uncounts a request that a
server works on (`ServiceIsCounted`), and the requests a server works on whose slot has not expired
are bounded likewise (`LoadBounded`). Nothing bounds those whose slot has expired: the default
expiry is forty times shorter than the longest service, and each expiry lets one more request in.
The two properties say that no other interleaving adds to that.

Nothing is lost that a fault does not drop (`NothingLost`): while a call waits, its request is in a
queue, with a callback, in a sleeping requeue, answered, or unacknowledged with a stuck subscription.
Being there is no promise of an answer: under the performance policy the first refusal leaves its
message with a stuck subscription, and only the timeout ends the call (`DocDeferral`).

Several properties hold until faults of some kinds (`Spared`, read from the history `faults`): the
runs that allow these faults check the property before them and all the rest after them.

In the selection of servers, `KnownFromTheCycle` relates what the strategy is left with at the end of
a cycle to what the servers were while that cycle pinged them (`outcomes`): the pings of one cycle
are compared with the list of an earlier one, and installed after a wait for the tasks of the old
servers, while servers keep coming and going. `MonitoringGoesOn` says what is left of the monitoring:
only an exception in a fetch ends it for a server that answers, no update of the servers and no
cancelled task does. That such an exception ends it for good, against what the policy's
documentation expects, is the run `DocMetrics`.

By the clock: a message that was never requeued is not delivered after its call has timed out
(`NoStaleDelivery`), for the timeout starts after the time to live does; a call whose message has
expired waits in vain no longer than the timeout exceeds the time to live, and the confirmation of
its publication (`LostTimeBounded`): with settings that match, no longer than that confirmation; the
lookup of a call keeps the model queue alive until its message is there (`FoundQueueStays`). None of
the three holds of the private queues, which have no time to live and whose lease a lookup does not
renew.

Over a deployment: a lookup answers "unknown" only for a model that had no queue while the request
was under way, although an old fetch may overwrite a newer list; a call may also be told so because
the queue of the model of another call is missing, for they share the channel (`NoFalseUnknown`).

Six runs state what a document or a comment says, and show that the code does something else:

| Run | Claim | What TLC finds |
|---|---|---|
| `DocRestart` | restarting the consumers is safe (`docs/troubleshooting.md:40`) | a request acknowledged and not yet published again is lost |
| `DocDeferral` | a request that is not dispatched is requeued (`quality_of_service_policy/README.md:1`) | under the performance policy the refusal raises (`performance_based_requeue_policy.py:31`) and the message stays unacknowledged |
| `DocHealing` | the consumer is self-healing (`src/consumer/probes.py:26`) | a completion for the server of another consumer stops the completion subscription |
| `DocPercentile` | the exception of `get_percentile` is never reached (`least_busy.py:63`) | it is, after a restart of a server |
| `DocMetrics` | the metrics of a server are updated while requests wait (`quality_of_service_policy/README.md:1`) | one failed fetch ends the monitoring of a server that answers (`metrics_tracker.py:95`) |
| `DocLifetime` | the time to live counts from the first time a message was enqueued (`quality_of_service_policy/README.md:3`) | a requeue publishes a new message (`utils.py:23`), whose time to live starts again |

### Bounds

`MaxFaults` bounds the faults of a behaviour, `MainTags` the subscriptions a consumer may have on
the model queue (`MaxFaults + 1`), `MaxServed` the requests a vLLM server serves, `MaxChoices` the
choices of the round robin between two updates; the signal of `ServerSelection` comes once and is
not counted among the faults. `MaxAttempts` (`MAX_VLLM_CONNECTION_ATTEMPTS`, a
setting) bounds the pings of a startup, `Horizon` the time of `Lifetime`. Three requests and a limit of 1
are enough to reach
the limit, exceed it through both kinds of subscriptions and have one request left to defer; two
consumers are enough for a message to move from one to the other and for a completion to be handled
by the wrong one; windows of two readings make the ring of histograms wrap. `Faults` and `Selection`
add one fault to each interleaving, `Faults` of the kinds its properties are about: a restart, which
drops what a consumer holds and starts from nothing, is in `Released`, in `DocRestart` and in the
proofs, and the others leave the places of a message and the futures alone. Several faults in one behaviour are the business of the
proofs of `EverySlotExpires`, `FuturesOwned`, `OvershootBounded`, `NothingLost` and `ContractHolds`. Eight
units of time let a request be looked up, published, expire or be requeued, and its queue be removed
and declared again. Two servers are enough for one to answer while the other is out of attempts; two
requests for a fetch to overlap another and for a channel to be closed under a call. Larger
deployments are covered by the four theorems of `DeploymentProofs`. The `warning-log` policy is the
parallel requests policy below its limit and has no run of its own; the performance policy, whose
first refusal ends a subscription, has `DocDeferral`, and the theorems hold under each of the three.

### Fairness

`SenderFairness`, `ConsumerFairness` and `Fairness` (of `ServerSelection`) are weak fairness of the
steps an event loop runs once they are ready, of timers that are due, and of the broker delivering
to a subscription with room. Users need not send requests, and faults need not happen.
`TimeoutFairness` (`MESSAGE_TIMEOUT` fires) is separate: `Limit` shows that calls return without
it when nothing fails. The end of a service is fair because `httpx` bounds it with
`PROXY_CLIENT_REQUEST_TIMEOUT`. No strong fairness is assumed: under the parallel requests policy a
deferred request is published again, so the broker always has one to deliver, and every slot is
released. Nothing is requeued under the performance policy: a refusal raises, the message stays with
its stuck subscription, and only the timeout ends the call. A subscription that is stuck gets no
message, so no fairness of the broker towards it is assumed.

`Deployment` assumes weak fairness of the event loop of each consumer process as a whole and of each
request of the sender: enough, because what else they could do is bounded by `MaxAttempts` and by the
requests. Starting a process again, a signal, a request that comes and a consumer that takes a
message are left to the environment. In `ServerSelection` the end of the process is fair too, once the
signal has come. `Lifetime` states safety only.

## Proofs

All the theorems hold for every value of the constants that satisfies the assumptions stated with
them in the modules (`RequestsAssumption`, `ServersAssumption`, `BoundsAssumption`,
`FaultsAssumption`, `ClientAssumption`, `ConsumersAssumption`; `BucketsAssumption`,
`SelectionAssumption`; `LifetimeAssumption`; `RegistryAssumption`, `AttemptsAssumption`,
`CacheAssumption`): any number of requests, servers, consumers and faults.

`DispatcherProofs`:

- `TypesHold`: `Spec => []TypeOK`. Types alone are not inductive: `SendCompletion` puts
  `answer[r]` in a completion, which must be a server, and a callback that publishes must hold a
  request. `TypeInv` adds `ServedHaveServers` and `CallbacksHoldRequests`.
- `SlotsExpire`: `Spec => []EverySlotExpires`, under any number of faults.
- `FuturesAreOwned`: `Spec => []FuturesOwned`, with the help of `IdleUnanswered`.
- `OvershootIsBounded`: `Spec => []OvershootBounded`. Not inductive: a callback that has passed the
  test and not yet counted must be counted in advance. The invariant `Bounded` says that the
  requests counted, plus the subscriptions that chose the server and have not counted yet
  (`Undecided`), stay below the limit plus the subscriptions that may choose it (`Feeders`), and
  that the undecided are among the feeders. A new decision is taken when the counter is below the
  limit, so then the undecided subscriptions, all of them feeders, are the only excess; counting
  moves one from the undecided to the counted; expiries, completions and faults only shrink the
  left side, and a reconnection enlarges the right one.

`ContractProofs`:

- `ContractIsMet`: `Spec => ContractHolds`, the refinement of `RequestContract`, under every fault.
  Each step of `Dispatcher` maps to a step of the contract or to a stutter. It needs to know where
  the copies of a request are (`Whereabouts`): an unsent request has none (`Nowhere`), and one that
  is private-only is only in the queue of its organization and in the callbacks that consume it
  (`Confined`), whatever was redelivered.

`DeliveryProofs` (until some faults happen, for with them the properties fail; `DocRestart` shows it):

- `NothingIsLost`: under every policy, no waiting call loses its request until a process crashes, a
  publication is refused, a message expires or the sender loses its answers, however often consumers
  lose their connection and whatever raises: a request whose callback raised is `Stranded` with its
  subscription, and comes back with the next connection. It assumes that `MODEL_HOST_MAPPING` names
  only organizations that have a queue, for a message to another one is returned. The invariant
  (`PlacesInv`) adds that what a callback holds is from a queue its subscription is on, so it can be
  given back, and that a call under way passed the validation of its routing (`Accepted`). The
  condition on faults is on the state: a behaviour in which one happens is covered up to it
  (`FaultMarks`).
- `ServicesAreCounted`: a request a server works on is counted by a consumer or about to be, or its
  slot has expired (`outlived`), if no process crashes, no consumer reconnects and no publication
  fails. Nothing is assumed of the duration of a service. The invariant follows every grant from the
  answer on its way (`GrantsAccounted`); a completion in the queue belongs to a call that is done
  (`CompletedDone`).

`LifetimeProofs` proves `TypesHold` and the three other properties of the `Lifetime` run, from one
inductive invariant that orders the moments written down (`Ordered`), says which exist (`Exists`),
bounds the confirmation (`Confirmed`), keeps the lease of the model queue as old as the latest
lookup at most (`Leased`) and dates expiries (`Ended`). That the time to live is not longer than the
timeout is enough for `NoStaleDelivery`; `LostTimeBounded` carries their difference.

`DeploymentProofs` proves `TypesHold` (with `Trying`: a server is pinged only if attempts are left),
`NothingIsConsumedUnready`, `ReturnedWereUnserved` and `UnknownWereMissing`. `Ready` and `Declared`
follow a process through its startup, `Kept` says that a queue somebody consumes exists, and
`Honest` what a request has witnessed: a fetch that has read and does not show its model read it
while the model was missing (`Sure`), which is why a late fetch that overwrites a newer list is
harmless to the requests that wait.

`CountingProofs`, over the sums of `SumTheorems`:

- `OneCopyOnly`: a request is in one place at most, while no process crashes and no consumer loses its
  connection. `OneCopy` is inductive with the types and `Nowhere`: the publication makes the first
  copy, and every other step takes as many copies from one place as it puts in others. What each
  step does to each of the five counts is a lemma. With `reconnect` it fails: a channel lost
  between the publication of an answer and the ack of its request gives the request back.
- `LoadIsBounded`: under the parallel requests policy, without the faults of `ServicesAreCounted`, the
  requests a server works on that are subject to its limit and whose slot has not expired exceed the
  sum of the limits of its consumers by less than the subscriptions that choose it; the expired ones
  come on top. It combines `OvershootHolds` (per consumer), `CountHolds` (a running request is
  counted) and `HostedInv` (only a consumer of a server counts for it), through the bound of a union
  by the sum of its parts.

`SumTheorems` proves of the library's sum over a finite set, a recursive function on its subsets,
that it exists, whatever the order in which it takes elements, and then how it splits, compares and
changes. The induction over subsets (`SubsetInduction`) is first-order: the set of the subsets for
which the fact holds plays the part of the predicate.

`SelectionProofs`:

- `TypesHold`: under every fault. The histograms that come out of `dict.update` and of differences
  are histograms (`UpdateType`, `DifferenceType`), the slots stay in the ring, and the healthy servers
  are a list of servers. That list is a CHOOSE: `ListExists` shows that every set of servers has one,
  by counting how many do not come after each, and `ListedServers` that it has each of them once.
- `NothingIsLeftRunning`: no monitoring task outlives `main_consumer`. When the pinger has ended no
  task is being cancelled, and when the tracker has stopped none can be started (`ShutdownInv`).
- `WindowsAreExact`: until a server restarts or returns nothing, the histogram of a server is the
  difference of the readings at both ends of its window. Not inductive: the ring of readings must be
  known whole (`SlotsHoldReadings`), and a server that has exposed a histogram always does
  (`KeepsBuckets`).
- `KnownServersWereFound`: `Spec => KnownFromTheCycle`, an action property. `CycleInv` says that a
  ping that has returned gave what its server was meanwhile, that one under way still may, and that
  none is under way while the tasks are waited for.
- `TurnsAreEven`: `RoundRobinEven`. `TurnsInv` knows the number of turns exactly: one more for the
  servers before the index than for the others. It needs the list to have no server twice.
- `ChoicesExist`: `AlwaysChooses`, until a server restarts (`DocPercentile` shows what happens when
  one does). `ScoreHolds` says that no slot of a ring counts more requests than the server has served,
  hence that no bound of a difference is negative, its last bound is covering and a score exists;
  and that the urls of the tracker are those of the servers. A greatest position or a least score
  exists because the servers and the bounds are finite (`GreatestExists`).

Only model-checked: liveness, which is out of the prover's reach. Every safety property of the
passing runs is proved. `OneCopy` and `LoadBounded` need the consumers, servers and requests to be
finite sets, which the assumptions on the constants say.

## Not modelled

Authorization, JSON validation and the HTTP details of the proxy; priority handlers (the value only
goes in the body); the database, its commands and migrations; dashboards; parsing of settings and of
the metrics' text; the probes, which only read the state of the connection and answer.

What the code does and no run states, because no document says otherwise or because it is outside
the models:

- the handlers of `src/consumer/probes.py` take no request argument, and `check_connection` of the
  RPC server, a coroutine, is not awaited there (`probes.py:32`), so it is always true;
- the end of the sender awaits `database.close()`, which is not a coroutine, so
  `rpc_client.close()` is not reached;
- a graceful shutdown loses the requests that sleep in `requeue`, like the restart of `DocRestart`;
- `wait_for_vllms` fails when the first task to end has failed, while others still try
  (`FirstFails`);
- the private queues have no `x-message-ttl`, and a lookup does not renew them;
- `requeue` documents that it "republishes directly" to a queue it is given and delays only without
  one (`utils.py:16`); every caller gives it a delay, which applies in both cases (`utils.py:36`);
- RabbitMQ deletes a queue after `x-expires` without a consumer, messages or not, while
  `quality_of_service_policy/README.md:5` describes the argument as counting only "no message in queue
  and no consumer attached": a model queue without consumers loses its requests 30 s after its last
  use (`rpc_server.py:62`, `RemoveQueue` of `Lifetime`);
- the private callback does not look at the list of healthy servers, which `CHANGELOG.md:59`
  excludes "if possible" (`DeliverPrivate`);
- the threshold of a model queue, "maximum number" for `README.md:101`, is exceeded by calls that
  look at it together (`StartCall`).

## Plan

1. *(done)* `Broker`, `RPCClient`, `RPCServer`, `Dispatcher`, `RequestContract`; first theorems.
2. *(done)* `Histogram`, `ServerSelection`, its shutdown and both its strategies.
3. *(done)* `Lifetime` and what `quality_of_service_policy/README.md` says of requeued messages.
4. *(done)* `ConsumerProcess`, `ModelCache` and `Deployment`: startup, shutdown, the deletion of queues.
5. *(done)* Theorems: the refinement of `RequestContract`, `NothingLost` and `ServiceIsCounted` without
   the faults that break them, `WindowExact` until a restart, `Lifetime`, `Deployment`.
6. *(done)* `OneCopy` and `LoadBounded` with sums that a prover can follow; the order of the servers,
   the types, the turns, the cycles and the choices of `ServerSelection`.
7. `ServerSelection` implements the choice of `RPCServer`: an abstract `SelectionContract` both meet.
8. `Deployment` with two models over one sender, where the closed channel crosses from one to the
   other (proved of any instance, checked on one model only).
