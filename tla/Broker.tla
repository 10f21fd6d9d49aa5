------------------------------- MODULE Broker -------------------------------
(***************************************************************************)
(* The RabbitMQ broker as the sender and the consumers of one model use    *)
(* it.  Its code is not part of the repository: the queues are modelled    *)
(* from the declarations, publications, consumptions and acknowledgements  *)
(* of src/sender/rpc_client.py and src/consumer/rpc_server.py.             *)
(*                                                                         *)
(*   modelQueue       the queue named after the model (x-max-priority,     *)
(*                    x-message-ttl), shared by all the consumers          *)
(*   privateQueue     the queues {model}_{organization}_private            *)
(*   completedQueue   the queue {model}_completed                          *)
(*   callbackQueue    the exclusive queue of answers of the sender         *)
(*                                                                         *)
(* A request message is identified by the correlation id of its call.  The *)
(* two request queues are bags, since a redelivery or a repeated requeue   *)
(* puts several copies of a message in a queue; FIFO order inside one      *)
(* priority is left out.  An answer or a completion is a record            *)
(* [id, server]; a second identical one changes nothing for its receiver,  *)
(* so these queues are sets.                                               *)
(***************************************************************************)
EXTENDS Naturals, FiniteSets, Functions

CONSTANTS
  Requests,    \* the calls of the sender, by correlation id
  Servers,     \* the vLLM servers, by url
  NoServer,    \* the answer that carries no llm_url
  Priority,    \* Requests -> the priority of the message of the call
  Mode,        \* Requests -> its routing mode
  UserOrg,     \* Requests -> the organization of its user
  Org,         \* Servers -> the organization of the server
  MaxPriority, \* RPC_MAX_PRIORITY, the x-max-priority of the model queue
  FaultKinds,  \* the faults that may happen
  MaxFaults    \* BOUND: how many faults one behaviour contains

RoutingModes == {"any", "private-first", "private-only"}

ASSUME RequestsAssumption ==
  /\ IsFiniteSet(Requests)
  /\ Priority \in [Requests -> Nat]
  /\ Mode \in [Requests -> RoutingModes]
ASSUME ServersAssumption == NoServer \notin Servers
ASSUME BoundsAssumption == MaxPriority \in Nat /\ MaxFaults \in Nat
ASSUME FaultsAssumption == IsFiniteSet(FaultKinds)

\* The organizations that have a private queue: a consumer declares one for
\* the organization of each of its servers.
PrivateOrgs == {Org[s] : s \in Servers}

Answers == [id : Requests, server : Servers \cup {NoServer}]
Completions == [id : Requests, server : Servers]
Bags == [Requests -> Nat]

VARIABLES
  modelQueue, privateQueue, callbackQueue, completedQueue,
  faults  \* HISTORY: how many faults of each kind there were

brokerVars ==
  <<modelQueue, privateQueue, callbackQueue, completedQueue, faults>>

BrokerTypeOK ==
  /\ modelQueue \in Bags
  /\ privateQueue \in [PrivateOrgs -> Bags]
  /\ callbackQueue \in SUBSET Answers
  /\ completedQueue \in SUBSET Completions
  /\ faults \in [FaultKinds -> Nat]

EmptyBag == [r \in Requests |-> 0]

BrokerInit ==
  /\ modelQueue = EmptyBag
  /\ privateQueue = [o \in PrivateOrgs |-> EmptyBag]
  /\ callbackQueue = {}
  /\ completedQueue = {}
  /\ faults = [kind \in FaultKinds |-> 0]

Put(bag, r) == [bag EXCEPT ![r] = @ + 1]
Take(bag, r) == [bag EXCEPT ![r] = @ - 1]

\* The broker knows no priority above the maximum of the queue.
QueuePriority(r) == IF Priority[r] < MaxPriority THEN Priority[r] ELSE MaxPriority

\* A message the model queue may deliver next: one of the highest priority
\* among those that are ready.
Foremost(r) ==
  /\ modelQueue[r] > 0
  /\ \A q \in Requests : modelQueue[q] > 0 => QueuePriority(q) <= QueuePriority(r)

\* The message count a passive declaration of the model queue returns: the
\* ready messages, those delivered and not yet acknowledged excluded.
QueueLength == SumFunction(modelQueue)

\* A fault of the environment, drawn from the budget.
Fault(kind) ==
  /\ kind \in FaultKinds
  /\ SumFunction(faults) < MaxFaults
  /\ faults' = [faults EXCEPT ![kind] = @ + 1]

\* There has been no fault of these kinds.
Spared(kinds) == \A kind \in kinds \cap FaultKinds : faults[kind] = 0

\* x-message-ttl: the model queue drops a message that stayed too long.  The
\* private queues are declared without it.
MessageExpires(r) ==
  /\ Fault("ttl")
  /\ modelQueue[r] > 0
  /\ modelQueue' = Take(modelQueue, r)
  /\ UNCHANGED <<privateQueue, callbackQueue, completedQueue>>
=============================================================================
