----------------------------- MODULE Deployment -----------------------------
(***************************************************************************)
(* Consumers that start, stop and are killed, and a sender whose requests  *)
(* find their queues or not: ConsumerProcess and ModelCache over the       *)
(* queues of one RabbitMQ.                                                 *)
(***************************************************************************)
EXTENDS ConsumerProcess, ModelCache

VARIABLES
  absent,  \* HISTORY: the models that had no queue at some moment of a request
  unserved \* HISTORY: nobody served the private queue of the request at some moment

vars == <<registryVars, processVars, cacheVars, absent, unserved>>

\* A process that has come to serve consumes the queue.
IsServed(q) ==
  \E c \in Consumers :
    stage[c] = "serving" /\ \E i \in DOMAIN Declarations(c) : Declarations(c)[i] = q

Underway(r) == step[r] \notin {"new"} \cup Answered

Init ==
  /\ RegistryInit
  /\ ProcessInit
  /\ CacheInit
  /\ absent = [r \in Requests |-> {}]
  /\ unserved = [r \in Requests |-> FALSE]

Process ==
  /\ \E c \in Consumers : ProcessStep(c) \/ ProcessFaults(c)
  /\ UNCHANGED cacheVars

Proxy ==
  /\ \/ \E r \in Requests : Arrive(r) \/ ProxyStep(r) \/ Take(r) \/ FetchFails(r)
     \/ \E q \in Queues : ExpireQueue(q)
  /\ UNCHANGED processVars

\* What a request sees from the moment it comes until it is answered, or its
\* message published.
Witnessed ==
  /\ absent' = [r \in Requests |->
       IF Underway(r) \/ Underway(r)' THEN absent[r] \cup Missing \cup Missing' ELSE absent[r]]
  /\ unserved' = [r \in Requests |->
       \/ unserved[r]
       \/ Underway(r) /\ place[r] = "nowhere" /\ ~IsServed(QueueOf(r))
       \/ Underway(r)' /\ place'[r] = "nowhere" /\ ~IsServed(QueueOf(r))']

Next == (Process \/ Proxy) /\ Witnessed

Spec == Init /\ [][Next]_vars

\* The steps the event loops run, the timers of asyncio and the deliveries of the
\* broker.  Nobody has to send a request, start a process or signal it.
Fairness ==
  /\ \A c \in Consumers : WF_processVars(ProcessStep(c))
  /\ \A r \in Requests : WF_cacheVars(ProxyStep(r))

FairSpec == Spec /\ Fairness
-----------------------------------------------------------------------------
(* Properties. *)

TypeOK ==
  /\ RegistryTypeOK
  /\ ProcessTypeOK
  /\ CacheTypeOK
  /\ absent \in [Requests -> SUBSET Models]
  /\ unserved \in [Requests -> BOOLEAN]

\* A request is told that its model is unknown only if, while it was under way,
\* that model had no queue, whatever old list a late fetch left in the cache; or,
\* for a call, if another model that some call asked for had none
\* (models.py:18, models.py:37, main.py:239).
NoFalseUnknown ==
  \A r \in Requests :
    step[r] = "unknown" =>
      \/ Model[r] \in absent[r]
      \/ kind[r] = "call" /\ \E x \in Requests : Model[x] \in absent[r]

\* A private request is returned for lack of a queue only if, while it was under
\* way, no consumer that had finished to start served its organization
\* (rpc_server.py:80, rpc_client.py:118).
ReturnedOnlyUnserved ==
  \A r \in Requests : place[r] = "returned" => unserved[r]

\* A consumer takes no request before a server of its own has answered it
\* (metrics.py:38, main.py:52).
NothingConsumedUnready ==
  \A q \in Queues : \A c \in subscribers[q] : \E s \in ServersOf(c) : probe[c][s] = "ready"

\* Whatever happens to the consumers and their queues, the requests that came are
\* all answered again and again (rpc_client.py:135, main.py:239).
EveryRequestAnswered == []<>(\A r \in Requests : ~Underway(r))

\* The wait for a first server ends, one way or the other (metrics.py:34).
StartupEnds ==
  \A c \in Consumers : (stage[c] = "waiting") ~> (stage[c] # "waiting")

\* A signal is not lost, even when it comes before the process can look at it
\* (main.py:66).
SignalStops ==
  \A c \in Consumers : signalled[c] ~> (stage[c] \in {"exited", "failed"})
=============================================================================
