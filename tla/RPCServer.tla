----------------------------- MODULE RPCServer -----------------------------
(***************************************************************************)
(* The consumers of one model (src/consumer/rpc_server.py) with their      *)
(* quality of service policy: they take request messages, choose a server, *)
(* answer or defer, and count the requests each server is working on.      *)
(*                                                                         *)
(* A consumer process has one subscription per queue it consumes, each     *)
(* with prefetch_count=1: the callbacks of one subscription run one at a   *)
(* time, those of different subscriptions interleave at their awaits.      *)
(* Each action is the code from one await to the next.                     *)
(***************************************************************************)
EXTENDS Broker

CONSTANTS
  Consumers,    \* the consumer processes of the model
  MainTags,     \* the subscriptions a consumer may hold on the model queue
  FirstTag,     \* the one first_connect makes
  NoRequest,
  Hosts,        \* Consumers -> the servers of its VLLM_SERVERS
  MaxParallel,  \* Servers -> max_parallel_requests
  Policy,       \* QUALITY_OF_SERVICE_POLICY
  Strategy,     \* ROUTING_STRATEGY
  BestPriority  \* BEST_PRIORITY

PerformanceBased == "performance-based-requeue"
ParallelRequests == "parallel-requests-threshold-requeue"
Policies == {"warning-log", PerformanceBased, ParallelRequests}
Strategies == {"round-robin", "least-busy"}

ASSUME ConsumersAssumption ==
  /\ IsFiniteSet(Consumers)
  /\ IsFiniteSet(MainTags)
  /\ IsFiniteSet(Servers)
  /\ FirstTag \in MainTags
  /\ MainTags \cap Servers = {}
  /\ NoRequest \notin Requests
  /\ Hosts \in [Consumers -> SUBSET Servers]
  /\ MaxParallel \in [Servers -> Nat]
  /\ Policy \in Policies
  /\ Strategy \in Strategies
  /\ BestPriority \in Nat

\* The subscription on a private queue is named after the server first_connect
\* makes it for: two servers of one organization are two subscriptions on the
\* queue of that organization.
Tags == MainTags \cup Servers

VARIABLES
  callback,  \* callback[c][t]: the message subscription t of c has taken
  mainTags,  \* mainTags[c]: the subscriptions of c on the model queue
  slots,     \* slots[c][s]: RPCServer.current_parallel_requests
  timers,    \* timers[c][s]: the requests with a pending _expire_request
  deferred,  \* deferred[c]: the messages acknowledged by a requeue that sleeps
  wedged,    \* wedged[c]: the completion that was never acknowledged, if any
  healthy    \* healthy[c]: the servers of the selection strategy

serverVars == <<callback, mainTags, slots, timers, deferred, wedged, healthy>>

\* A callback is "publishing" once it has chosen a server, "replied" when its
\* answer reached the broker, "deferring" when the policy started a requeue,
\* "acking" when its ack is written and the broker has not seen it, and "stuck"
\* when an exception ended it without one.
Phases == {"idle", "publishing", "replied", "deferring", "acking", "stuck"}

Idle == [phase |-> "idle", id |-> NoRequest, server |-> NoServer]
Callbacks ==
  [phase : Phases, id : Requests \cup {NoRequest}, server : Servers \cup {NoServer}]

ServerTypeOK ==
  /\ callback \in [Consumers -> [Tags -> Callbacks]]
  /\ mainTags \in [Consumers -> SUBSET MainTags]
  /\ slots \in [Consumers -> [Servers -> SUBSET Requests]]
  /\ timers \in [Consumers -> [Servers -> SUBSET Requests]]
  /\ deferred \in [Consumers -> Bags]
  /\ wedged \in [Consumers -> SUBSET Completions]
  /\ healthy \in [Consumers -> SUBSET Servers]

ServerInit ==
  /\ callback = [c \in Consumers |-> [t \in Tags |-> Idle]]
  /\ mainTags = [c \in Consumers |-> {FirstTag}]
  /\ slots = [c \in Consumers |-> [s \in Servers |-> {}]]
  /\ timers = [c \in Consumers |-> [s \in Servers |-> {}]]
  /\ deferred = [c \in Consumers |-> EmptyBag]
  /\ wedged = [c \in Consumers |-> {}]
  /\ healthy = [c \in Consumers |-> Hosts[c]]

SetCallback(c, t, record) == callback' = [callback EXCEPT ![c][t] = record]
Advance(c, t, phase) == callback' = [callback EXCEPT ![c][t].phase = phase]

-----------------------------------------------------------------------------
(* The quality of service policies.  What a policy reads of the score of a  *)
(* server is whether there is one and whether it exceeds the threshold.     *)

\* A vLLM server that restarted makes get_percentile raise until its window is
\* past it (ServerSelection), for as many deliveries as come: "restart" is not
\* drawn from the budget of faults.
Raises == IF "restart" \in FaultKinds THEN {"raises"} ELSE {}

\* choose_server returns no score for a server that has no histogram yet, and
\* choose_among_duplicates returns -1 for it; a round robin never has a score.
MainScores ==
  IF Strategy = "least-busy" THEN {"none", "low", "high"} \cup Raises ELSE {"none"}
PrivateScores ==
  IF Strategy = "least-busy" THEN {"low", "high"} \cup Raises ELSE {"none"}

\* Mutant: the limit itself is still let through.
FullOffByOne(c, s) == Cardinality(slots[c][s]) > MaxParallel[s]

Full(c, s) == Cardinality(slots[c][s]) >= MaxParallel[s]

\* A priority the parallel requests policy always lets through.
Express(r) == Priority[r] >= BestPriority - 1

PolicyAdmits(c, s, r, score) ==
  \/ Policy = "warning-log"
  \/ Policy = PerformanceBased /\ (score = "none" \/ (score = "low" /\ ~Full(c, s)))
  \/ Policy = ParallelRequests /\ (Express(r) \/ ~Full(c, s))

-----------------------------------------------------------------------------
(* The callbacks. *)

\* An exception leaves the callback before it has started anything: the score
\* raises, or the performance policy refuses, whose log line reads a setting
\* that does not exist (MAX_PARALLEL_REQUESTS) before it starts the requeue.
Raised(c, s, r, score) ==
  \/ score = "raises"
  \/ Policy = PerformanceBased /\ ~PolicyAdmits(c, s, r, score)

\* The callback of subscription t has message r and the strategy proposes s.
Decide(c, t, r, s, score) ==
  \/ /\ Raised(c, s, r, score)
     /\ SetCallback(c, t, [phase |-> "stuck", id |-> r, server |-> NoServer])
  \/ /\ ~Raised(c, s, r, score)
     /\ PolicyAdmits(c, s, r, score)
     /\ SetCallback(c, t, [phase |-> "publishing", id |-> r, server |-> s])
  \/ /\ ~Raised(c, s, r, score)
     /\ ~PolicyAdmits(c, s, r, score)
     /\ SetCallback(c, t, [phase |-> "deferring", id |-> r, server |-> s])

\* on_message_callback up to its first await.  Without a server to choose the
\* answer has no url; otherwise the strategy chooses one of the servers it
\* holds, and the policy answers for it.  Only ServerNotFound is caught.
DeliverMain(c, t, r) ==
  /\ t \in mainTags[c]
  /\ callback[c][t] = Idle
  /\ Foremost(r)
  /\ modelQueue' = Take(modelQueue, r)
  /\ \/ /\ healthy[c] = {}
        /\ SetCallback(c, t, [phase |-> "publishing", id |-> r, server |-> NoServer])
     \/ \E s \in healthy[c], score \in MainScores : Decide(c, t, r, s, score)
  /\ UNCHANGED <<privateQueue, callbackQueue, completedQueue, faults, mainTags,
                 slots, timers, deferred, wedged, healthy>>

\* server_specific_callback up to its first await, on the subscription made for
\* server t: it chooses among the servers of the organization in the settings,
\* not among those of the strategy.  What raises is logged and swallowed.
DeliverPrivate(c, t, r) ==
  /\ t \in Hosts[c]
  /\ callback[c][t] = Idle
  /\ privateQueue[Org[t]][r] > 0
  /\ privateQueue' = [privateQueue EXCEPT ![Org[t]] = Take(@, r)]
  /\ \E s \in {s \in Hosts[c] : Org[s] = Org[t]}, score \in PrivateScores :
       Decide(c, t, r, s, score)
  /\ UNCHANGED <<modelQueue, callbackQueue, completedQueue, faults, mainTags,
                 slots, timers, deferred, wedged, healthy>>

\* The answer reaches the broker, and the callback awaits the confirmation.
PublishReply(c, t) ==
  /\ callback[c][t].phase = "publishing"
  /\ callbackQueue' = callbackQueue \cup
       {[id |-> callback[c][t].id, server |-> callback[c][t].server]}
  /\ Advance(c, t, "replied")
  /\ UNCHANGED <<modelQueue, privateQueue, completedQueue, faults, mainTags,
                 slots, timers, deferred, wedged, healthy>>

\* Mutant: the request is counted and nothing will stop counting it.
CountWithoutExpiry(c, s, r) ==
  IF s \in Servers
    THEN slots' = [slots EXCEPT ![c][s] = @ \cup {r}] /\ UNCHANGED timers
    ELSE UNCHANGED <<slots, timers>>

\* Mutant: only the expiry is started.
ForgetCount(c, s, r) ==
  IF s \in Servers
    THEN timers' = [timers EXCEPT ![c][s] = @ \cup {r}] /\ UNCHANGED slots
    ELSE UNCHANGED <<slots, timers>>

\* Request r is one more of server s, until its expiry; an answer without a
\* server counts for none.
CountRequest(c, s, r) ==
  IF s \in Servers
    THEN /\ slots' = [slots EXCEPT ![c][s] = @ \cup {r}]
         /\ timers' = [timers EXCEPT ![c][s] = @ \cup {r}]
    ELSE UNCHANGED <<slots, timers>>

\* Mutant: the callback of a private queue forgets to count the request.
FinishUncountedPrivate(c, t) ==
  /\ callback[c][t].phase = "replied"
  /\ Advance(c, t, "acking")
  /\ IF t \in MainTags THEN CountRequest(c, callback[c][t].server, callback[c][t].id)
       ELSE UNCHANGED <<slots, timers>>
  /\ UNCHANGED <<brokerVars, mainTags, deferred, wedged, healthy>>

\* The confirmation is there: ack, then count the request and start the task
\* that will stop counting it.  The ack only awaits that it is written, so
\* nothing the broker does about it comes before the rest of the callback.
FinishCallback(c, t) ==
  /\ callback[c][t].phase = "replied"
  /\ Advance(c, t, "acking")
  /\ CountRequest(c, callback[c][t].server, callback[c][t].id)
  /\ UNCHANGED <<brokerVars, mainTags, deferred, wedged, healthy>>

\* requeue: the message is acknowledged first, then the task sleeps.
DeferAck(c, t) ==
  /\ callback[c][t].phase = "deferring"
  /\ Advance(c, t, "acking")
  /\ deferred' = [deferred EXCEPT ![c] = Put(@, callback[c][t].id)]
  /\ UNCHANGED <<brokerVars, mainTags, slots, timers, wedged, healthy>>

\* The broker sees the ack: the message is gone and the subscription may be
\* given the next one.
BrokerAck(c, t) ==
  /\ callback[c][t].phase = "acking"
  /\ SetCallback(c, t, Idle)
  /\ UNCHANGED <<brokerVars, mainTags, slots, timers, deferred, wedged, healthy>>

\* The publication of the answer is refused, or its confirmation is: the
\* exception ends the callback and the message is never acknowledged.
PublishReplyFails(c, t) ==
  /\ callback[c][t].phase \in {"publishing", "replied"}
  /\ Fault("publish")
  /\ Advance(c, t, "stuck")
  /\ UNCHANGED <<modelQueue, privateQueue, callbackQueue, completedQueue, mainTags,
                 slots, timers, deferred, wedged, healthy>>

-----------------------------------------------------------------------------
(* The tasks the callbacks start. *)

\* Mutant: every deferred message goes to the model queue.
RepublishToModel(c, r) ==
  /\ deferred[c][r] > 0
  /\ deferred' = [deferred EXCEPT ![c] = Take(@, r)]
  /\ modelQueue' = Put(modelQueue, r)
  /\ UNCHANGED <<privateQueue, callbackQueue, completedQueue, faults, callback,
                 mainTags, slots, timers, wedged, healthy>>

\* Mutant: a private-first message goes to both queues.
RepublishToBoth(c, r) ==
  /\ deferred[c][r] > 0
  /\ deferred' = [deferred EXCEPT ![c] = Take(@, r)]
  /\ IF Mode[r] = "any" THEN UNCHANGED privateQueue
       ELSE privateQueue' = [privateQueue EXCEPT ![UserOrg[r]] = Put(@, r)]
  /\ IF Mode[r] = "private-only" THEN UNCHANGED modelQueue
       ELSE modelQueue' = Put(modelQueue, r)
  /\ UNCHANGED <<callbackQueue, completedQueue, faults, callback, mainTags, slots,
                 timers, wedged, healthy>>

\* requeue wakes up and publishes the message again: to the queue it came from
\* if the request is private-only, to the model queue otherwise.
Republish(c, r) ==
  /\ deferred[c][r] > 0
  /\ deferred' = [deferred EXCEPT ![c] = Take(@, r)]
  /\ IF Mode[r] = "private-only"
       THEN /\ privateQueue' = [privateQueue EXCEPT ![UserOrg[r]] = Put(@, r)]
            /\ UNCHANGED modelQueue
       ELSE /\ modelQueue' = Put(modelQueue, r)
            /\ UNCHANGED privateQueue
  /\ UNCHANGED <<callbackQueue, completedQueue, faults, callback, mainTags, slots,
                 timers, wedged, healthy>>

\* The publication raises in a task nobody awaits.
RepublishFails(c, r) ==
  /\ deferred[c][r] > 0
  /\ Fault("publish")
  /\ deferred' = [deferred EXCEPT ![c] = Take(@, r)]
  /\ UNCHANGED <<modelQueue, privateQueue, callbackQueue, completedQueue, callback,
                 mainTags, slots, timers, wedged, healthy>>

\* Mutant: the expiry of a request logs and does not release its slot.
ExpireWithoutRelease(c, s, r) ==
  /\ r \in timers[c][s]
  /\ timers' = [timers EXCEPT ![c][s] = @ \ {r}]
  /\ UNCHANGED <<brokerVars, callback, mainTags, slots, deferred, wedged, healthy>>

\* _expire_request, VLLM_TREATMENT_TIMEOUT_SECONDS later.
ExpireRequest(c, s, r) ==
  /\ r \in timers[c][s]
  /\ timers' = [timers EXCEPT ![c][s] = @ \ {r}]
  /\ slots' = [slots EXCEPT ![c][s] = @ \ {r}]
  /\ UNCHANGED <<brokerVars, callback, mainTags, deferred, wedged, healthy>>

\* on_completion_callback for a server of the settings.  The discard is
\* idempotent, so the ack is taken with it.
HandleCompletion(c, m) ==
  /\ wedged[c] = {}
  /\ m \in completedQueue
  /\ m.server \in Hosts[c]
  /\ completedQueue' = completedQueue \ {m}
  /\ slots' = [slots EXCEPT ![c][m.server] = @ \ {m.id}]
  /\ UNCHANGED <<modelQueue, privateQueue, callbackQueue, faults, callback, mainTags,
                 timers, deferred, wedged, healthy>>

\* For another server the debug line reads the counter of None and raises: the
\* completion is not acknowledged, and with prefetch_count=1 it is the last.
WedgeOnCompletion(c, m) ==
  /\ wedged[c] = {}
  /\ m \in completedQueue
  /\ m.server \notin Hosts[c]
  /\ completedQueue' = completedQueue \ {m}
  /\ wedged' = [wedged EXCEPT ![c] = {m}]
  /\ UNCHANGED <<modelQueue, privateQueue, callbackQueue, faults, callback, mainTags,
                 slots, timers, deferred, healthy>>

\* A cycle of the pinger finds another set of servers healthy.
UpdateServers(c) ==
  /\ Fault("health")
  /\ \E up \in SUBSET Hosts[c] :
       /\ up # healthy[c]
       /\ healthy' = [healthy EXCEPT ![c] = up]
  /\ UNCHANGED <<modelQueue, privateQueue, callbackQueue, completedQueue, callback,
                 mainTags, slots, timers, deferred, wedged>>

-----------------------------------------------------------------------------
(* Faults: the broker takes back what a lost channel had not acknowledged.  *)

\* The messages r that c took from the model queue, and from a private one.
HeldFromMain(c, r) ==
  Cardinality({t \in mainTags[c] : callback[c][t].id = r})
HeldFromPrivate(c, o, r) ==
  Cardinality({t \in Hosts[c] : Org[t] = o /\ callback[c][t].id = r})

\* Mutant: the subscriptions acknowledge what they are given at once.
DropUnacked(c) ==
  /\ callback' = [callback EXCEPT ![c] = [t \in Tags |-> Idle]]
  /\ wedged' = [wedged EXCEPT ![c] = {}]
  /\ UNCHANGED <<modelQueue, privateQueue, completedQueue>>

ReturnUnacked(c) ==
  /\ modelQueue' = [r \in Requests |-> modelQueue[r] + HeldFromMain(c, r)]
  /\ privateQueue' = [o \in PrivateOrgs |->
       [r \in Requests |-> privateQueue[o][r] + HeldFromPrivate(c, o, r)]]
  /\ completedQueue' = completedQueue \cup wedged[c]
  /\ callback' = [callback EXCEPT ![c] = [t \in Tags |-> Idle]]
  /\ wedged' = [wedged EXCEPT ![c] = {}]

\* The connection drops and comes back: the callbacks that awaited the channel
\* raise, the counters and the sleeping tasks survive.  The robust channel
\* restores its subscriptions and reconnect_callback adds one to the model queue.
ConnectionLost(c) ==
  /\ Fault("reconnect")
  /\ ReturnUnacked(c)
  /\ \E t \in MainTags \ mainTags[c] :
       mainTags' = [mainTags EXCEPT ![c] = @ \cup {t}]
  /\ UNCHANGED <<callbackQueue, slots, timers, deferred, healthy>>

\* The process stops, or is restarted, and a new one starts from nothing.
Crash(c) ==
  /\ Fault("crash")
  /\ ReturnUnacked(c)
  /\ mainTags' = [mainTags EXCEPT ![c] = {FirstTag}]
  /\ slots' = [slots EXCEPT ![c] = [s \in Servers |-> {}]]
  /\ timers' = [timers EXCEPT ![c] = [s \in Servers |-> {}]]
  /\ deferred' = [deferred EXCEPT ![c] = EmptyBag]
  /\ healthy' = [healthy EXCEPT ![c] = Hosts[c]]
  /\ UNCHANGED callbackQueue
-----------------------------------------------------------------------------
(* Properties. *)

\* Every request a consumer counts has a task that will stop counting it,
\* whatever happens to its completion message: a lost, misrouted or early
\* completion cannot hold a slot for ever (_expire_request, rpc_server.py:305).
EverySlotExpires ==
  \A c \in Consumers, s \in Servers : slots[c][s] \subseteq timers[c][s]

\* The subscriptions of c whose callbacks may choose server s.
Feeders(c, s) == mainTags[c] \cup {t \in Hosts[c] : Org[t] = Org[s]}

\* Those that have chosen s for a request and do not count it yet.
Undecided(c, s) ==
  {t \in Tags : /\ callback[c][t].phase \in {"publishing", "replied"}
                /\ callback[c][t].server = s
                /\ ~Express(callback[c][t].id)}

Counted(c, s) == {r \in slots[c][s] : ~Express(r)}

\* The callbacks read the counter before two awaits and add to it after them,
\* so the limit can be exceeded; but each subscription has at most one callback
\* in between, so it is exceeded by less than the number of subscriptions that
\* can choose the server, one more after each reconnection (the check of
\* parallel_requests_threshold_requeue_policy.py:27 against rpc_server.py:177).
OvershootBounded ==
  Policy = ParallelRequests =>
    \A c \in Consumers : \A s \in Hosts[c] :
      Cardinality(Counted(c, s)) + 1 <= MaxParallel[s] + Cardinality(Feeders(c, s))
=============================================================================
