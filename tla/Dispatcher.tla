----------------------------- MODULE Dispatcher -----------------------------
(***************************************************************************)
(* The dispatcher of one model: a sender and the consumers, which meet     *)
(* only in the queues of the broker.  The sender asks, a consumer grants a *)
(* server, the sender works with that server and reports the completion,   *)
(* and the counters of the consumers follow from afar.                     *)
(***************************************************************************)
EXTENDS RPCClient, RPCServer

VARIABLE
  outlived  \* HISTORY: outlived[s]: the requests whose slot on server s expired
            \* before the end of their service there, until that end

vars == <<brokerVars, clientVars, serverVars, outlived>>

TypeOK ==
  /\ BrokerTypeOK /\ ClientTypeOK /\ ServerTypeOK
  /\ outlived \in [Servers -> SUBSET Requests]

Init == BrokerInit /\ ClientInit /\ ServerInit /\ outlived = [s \in Servers |-> {}]

-----------------------------------------------------------------------------
(* The steps of each part, the variables of the other one unchanged. *)

ToServe == {r \in Requests : call[r] \in {"waiting", "forwarded"}}

\* A step of the sender.
SenderOnly ==
  /\ UNCHANGED serverVars
  /\ outlived' = [s \in Servers |-> outlived[s] \cap ToServe']

Validate(r) == RefuseRouting(r) \/ RejectOverloaded(r) \/ StartCall(r)
Answered(r) == Forward(r) \/ Busy(r)

ClientFaults(r) == PublishRequestFails(r) \/ FailService(r) \/ DropCompletion(r)

ClientStep(r) ==
  /\ \/ Validate(r)
     \/ PublishRequest(r)
     \/ Answered(r)
     \/ Timeout(r)
     \/ EndService(r)
     \/ SendCompletion(r)
     \/ ClientFaults(r)
  /\ SenderOnly

Receive == (\E m \in callbackQueue : OnResponse(m)) /\ SenderOnly

Deliver(c, t) == \E r \in Requests : DeliverMain(c, t, r) \/ DeliverPrivate(c, t, r)
Proceed(c, t) ==
  PublishReply(c, t) \/ FinishCallback(c, t) \/ DeferAck(c, t) \/ BrokerAck(c, t)
Complete(c) ==
  \E m \in completedQueue : HandleCompletion(c, m) \/ WedgeOnCompletion(c, m)

\* VLLM_TREATMENT_TIMEOUT_SECONDS is 15 s by default and a service may take 600 s:
\* the slot of a request may well expire while a server is to work on it.
Expire(c, s, r) ==
  /\ ExpireRequest(c, s, r)
  /\ outlived' = IF r \in ToServe THEN [outlived EXCEPT ![s] = @ \cup {r}] ELSE outlived

ConsumerStep(c) ==
  /\ \/ /\ \/ \E t \in Tags : Deliver(c, t) \/ Proceed(c, t) \/ PublishReplyFails(c, t)
           \/ \E r \in Requests : Republish(c, r) \/ RepublishFails(c, r)
           \/ Complete(c)
           \/ UpdateServers(c)
           \/ ConnectionLost(c)
           \/ Crash(c)
        /\ UNCHANGED outlived
     \/ \E s \in Servers, r \in Requests : Expire(c, s, r)
  /\ UNCHANGED clientVars

BrokerStep ==
  \/ \E r \in Requests : MessageExpires(r) /\ UNCHANGED <<clientVars, serverVars, outlived>>
  \/ LoseReplies /\ SenderOnly

\* Every request has been answered one way or another: nothing more has to
\* happen, though queues and counters may still drain.
Finished == (\A r \in Requests : call[r] \in Final) /\ UNCHANGED vars

Next ==
  \/ \E r \in Requests : ClientStep(r)
  \/ Receive
  \/ \E c \in Consumers : ConsumerStep(c)
  \/ BrokerStep
  \/ Finished

Spec == Init /\ [][Next]_vars

-----------------------------------------------------------------------------
(* Fairness.  An event loop runs every coroutine that is ready and every    *)
(* timer that is due, a server ends every request it began, and the broker  *)
(* delivers what it holds to a subscription that has room.  Users need not  *)
(* send their requests, and no fault has to happen.                         *)

SenderFairness ==
  /\ \A r \in Requests :
       /\ WF_vars(PublishRequest(r) /\ SenderOnly)
       /\ WF_vars(Answered(r) /\ SenderOnly)
       /\ WF_vars(EndService(r) /\ SenderOnly)
       /\ WF_vars(SendCompletion(r) /\ SenderOnly)
  /\ WF_vars(Receive)

ConsumerFairness ==
  \A c \in Consumers :
    /\ \A t \in Tags :
         /\ WF_vars(Deliver(c, t) /\ UNCHANGED <<clientVars, outlived>>)
         /\ WF_vars(Proceed(c, t) /\ UNCHANGED <<clientVars, outlived>>)
    /\ \A r \in Requests : WF_vars(Republish(c, r) /\ UNCHANGED <<clientVars, outlived>>)
    /\ \A s \in Servers, r \in Requests :
         WF_vars(Expire(c, s, r) /\ UNCHANGED clientVars)
    /\ WF_vars(Complete(c) /\ UNCHANGED <<clientVars, outlived>>)

\* The event loop of the sender also fires MESSAGE_TIMEOUT.
TimeoutFairness ==
  \A r \in Requests : WF_vars(Timeout(r) /\ SenderOnly)

\* FairSpec lets a call wait for ever: what holds of it does not owe anything
\* to the timeout.
FairSpec == Spec /\ SenderFairness /\ ConsumerFairness
TimedSpec == FairSpec /\ TimeoutFairness
-----------------------------------------------------------------------------
(* Safety. *)

Has(c, t, r, phases) == callback[c][t].id = r /\ callback[c][t].phase \in phases

\* Subscription t of c has taken request r and done nothing with it yet.
Held(c, t, r) == Has(c, t, r, {"publishing", "deferring"})

\* An exception left it with subscription t of c, unacknowledged: the broker will
\* give it back when the connection ends.
Stranded(c, t, r) == Has(c, t, r, {"stuck"})

\* The places a request that is not answered yet may be in.
InFlight(r) ==
  \/ modelQueue[r] > 0
  \/ \E o \in PrivateOrgs : privateQueue[o][r] > 0
  \/ \E c \in Consumers :
       deferred[c][r] > 0 \/ \E t \in Tags : Held(c, t, r) \/ Stranded(c, t, r)
  \/ \E m \in callbackQueue : m.id = r

\* What may drop a request: a process that ends, a publication that is refused, a
\* message that expires, a lost queue of answers.
Losses == {"crash", "publish", "ttl", "reconnect-sender"}

Found == \A r \in Requests : Unanswered(r) => InFlight(r)

\* While a call waits, its request is in a queue, with a callback, in a sleeping
\* requeue or answered: no interleaving of deliveries, deferrals and lost
\* connections drops it (ack before republication in requeue, utils.py:33;
\* publication before ack in rpc_server.py:165).
NothingLost == Spared(Losses) => Found

\* The copies of a request in those places.
Copies(r) ==
  modelQueue[r]
  + SumFunction([o \in PrivateOrgs |-> privateQueue[o][r]])
  + SumFunction([c \in Consumers |-> deferred[c][r]])
  + Cardinality({p \in Consumers \X Tags : Held(p[1], p[2], r)})
  + Cardinality({m \in callbackQueue : m.id = r})

\* Without faults a request is in one place at a time: it is not answered twice
\* nor deferred in two copies, by one consumer or by two.
OneCopy == \A r \in Requests : Copies(r) <= 1

\* A request a server works on is counted by a consumer, or is about to be by the
\* callback that granted it, whoever handles the completion and whenever: only
\* the expiry of its slot may uncount it (rpc_server.py:177,204,313).
ServiceIsCounted ==
  \A s \in Servers : \A r \in Running(s) \ outlived[s] :
    \E c \in Consumers :
      \/ r \in slots[c][s]
      \/ \E t \in Tags : callback[c][t] = [phase |-> "replied", id |-> r, server |-> s]

\* Then the requests a server really works on are bounded too, those whose slot
\* expired excepted: the limit, plus what the subscriptions of each of its
\* consumers can overshoot.
Overshoot(c, s) == MaxParallel[s] + Cardinality(Feeders(c, s)) - 1
LoadBounded ==
  \A s \in Servers :
    Cardinality({r \in Running(s) \ outlived[s] : ~Express(r)})
      <= SumFunction([c \in {c \in Consumers : s \in Hosts[c]} |-> Overshoot(c, s)])

\* The futures of the sender: one for each call under way that is not answered,
\* and those leaked by a publication that raised (rpc_client.py:101 and 103).
FuturesOwned ==
  /\ \A r \in futures : call[r] \in {"publishing", "waiting", "failed"} /\ answer[r] = NoAnswer
  /\ \A r \in Requests :
       call[r] \in {"publishing", "waiting"} /\ answer[r] = NoAnswer => r \in futures

-----------------------------------------------------------------------------
(* The contract of a request, which the dispatcher implements. *)

Status(r) ==
  CASE call[r] = "idle" -> "new"
    [] call[r] \in {"publishing", "waiting"} -> "pending"
    [] call[r] \in {"forwarded", "completing"} -> "served"
    [] OTHER -> "closed"

Contract == INSTANCE RequestContract WITH
  status <- [r \in Requests |-> Status(r)],
  offers <- [r \in Requests |-> {m.server : m \in {m \in callbackQueue : m.id = r}}],
  taken  <- answer

\* Under every fault: a call takes one answer at most, made for it by a consumer
\* after it was submitted, is served once by that server, and a private-only
\* request never leaves its organization, requeues included.
ContractHolds == Contract!Spec

-----------------------------------------------------------------------------
(* Liveness. *)

\* A call comes back, with an answer or without.
EveryCallReturns ==
  \A r \in Requests : call[r] \in {"publishing", "waiting"} ~> call[r] \in Final

\* A request that is counted is one day not counted any more, whatever is lost.
SlotsReleased ==
  \A c \in Consumers, s \in Servers, r \in Requests :
    r \in slots[c][s] ~> r \notin slots[c][s]

\* No message stays behind: all are consumed in the end, the late ones included.
QueuesDrain == \A r \in Requests : <>[]~InFlight(r)

-----------------------------------------------------------------------------
(* What the documents of the repository say and the code does not do. *)

\* Restarting the consumers is safe (docs/troubleshooting.md:40): no waiting
\* call loses its request by it.
RestartIsSafe == Found

\* Requests that are not dispatched: "In this case, we requeue the request message
\* in the rabbit message queue (after some time"
\* (quality_of_service_policy/README.md:1): without faults no callback ends with
\* its message neither answered nor requeued.
RefusedAreRequeued ==
  \A c \in Consumers, t \in Tags : callback[c][t].phase # "stuck"

\* "Consumer is self-healing, it is unhealthy only if it has crashed"
\* (src/consumer/probes.py:26): a message a consumer failed to process does not
\* keep its subscription for ever.
SelfHealing ==
  \A c \in Consumers :
    /\ wedged[c] # {} ~> wedged[c] = {}
    /\ \A t \in Tags : callback[c][t].phase = "stuck" ~> callback[c][t].phase = "idle"
=============================================================================
