---------------------------- MODULE QueueRegistry ----------------------------
(***************************************************************************)
(* The queues of a RabbitMQ server shared by several models: which ones    *)
(* exist and who consumes them.  Its code is not part of the repository:   *)
(* it is modelled from the declarations and subscriptions of               *)
(* src/consumer/rpc_server.py and from what src/sender reads of them.      *)
(***************************************************************************)
EXTENDS Naturals, Sequences, FiniteSets

CONSTANTS
  Consumers,   \* the consumer processes
  Models,
  Orgs,
  Served,      \* Consumers -> the MODEL of the consumer
  VllmServers, \* Consumers -> its VLLM_SERVERS, a sequence of servers
  OrgOf,       \* servers -> the organization of the server
  FaultKinds,  \* what may happen: "signal", "kill", "fetch"
  MaxFaults    \* BOUND: how often, in all

\* A queue is named after a model and, for a private one, an organization.  The
\* queues of completions are left out: no request goes there.
Queues == Models \X ({"model"} \cup Orgs)
ModelQueue(m) == <<m, "model">>

ServersOf(c) == {VllmServers[c][i] : i \in DOMAIN VllmServers[c]}
Servers == UNION {ServersOf(c) : c \in Consumers}

ASSUME RegistryAssumption ==
  /\ Served \in [Consumers -> Models]
  /\ \A c \in Consumers : VllmServers[c] \in Seq(Servers) \ {<<>>}
  /\ OrgOf \in [Servers -> Orgs]

VARIABLES
  queues,      \* the queues that exist
  subscribers, \* the consumers of each queue
  faults

registryVars == <<queues, subscribers, faults>>

RegistryTypeOK ==
  /\ queues \in SUBSET Queues
  /\ subscribers \in [Queues -> SUBSET Consumers]
  /\ faults \in Nat

RegistryInit ==
  /\ queues = {}
  /\ subscribers = [q \in Queues |-> {}]
  /\ faults = 0

Fault(kind) ==
  /\ kind \in FaultKinds
  /\ faults < MaxFaults
  /\ faults' = faults + 1

\* A consumer goes away with all its subscriptions; the queues stay.
Unsubscribe(c) == subscribers' = [q \in Queues |-> subscribers[q] \ {c}]

\* The models whose queue is not there.
Missing == {m \in Models : ModelQueue(m) \notin queues}
=============================================================================
