----------------------------- MODULE RPCClient -----------------------------
(***************************************************************************)
(* The sender: one proxied HTTP request per element of Requests, from its  *)
(* validation (src/sender/main.py, proxy) through the RPC call that asks   *)
(* the consumers for a server (src/sender/rpc_client.py, call) to the      *)
(* stream from that server and the completion message.  The requests are   *)
(* concurrent coroutines of one event loop; each action is the code from   *)
(* one await to the next.                                                  *)
(***************************************************************************)
EXTENDS Broker

CONSTANTS
  Threshold,   \* Requests -> the threshold of the user of the request
  HostMapping, \* the organizations MODEL_HOST_MAPPING lists for the model
  NoAnswer     \* the result of a future that is not set

ASSUME ClientAssumption ==
  /\ Threshold \in [Requests -> Nat]
  /\ NoAnswer \notin Servers \cup {NoServer}

VARIABLES
  call,    \* where the coroutine of each request is
  answer,  \* the result of the future of the call, or NoAnswer
  futures  \* the keys of RPCClient.futures

clientVars == <<call, answer, futures>>

\* A coroutine is "publishing" from the count of the queue to the write of
\* the message, "waiting" until the future is set or the call gives up,
\* "forwarded" while the server works on it, "completing" while its
\* background tasks run.  The other states are final.
Active == {"idle", "publishing", "waiting", "forwarded", "completing"}
Final == {"refused", "overloaded", "timeout", "busy", "failed", "done"}

ClientTypeOK ==
  /\ call \in [Requests -> Active \cup Final]
  /\ answer \in [Requests -> Servers \cup {NoServer, NoAnswer}]
  /\ futures \in SUBSET Requests

ClientInit ==
  /\ call = [r \in Requests |-> "idle"]
  /\ answer = [r \in Requests |-> NoAnswer]
  /\ futures = {}

Goto(r, state) == call' = [call EXCEPT ![r] = state]

\* The organization has a queue of its own for the model, says the setting.
RoutingAccepted(r) == Mode[r] = "any" \/ UserOrg[r] \in HostMapping

RefuseRouting(r) ==
  /\ call[r] = "idle"
  /\ ~RoutingAccepted(r)
  /\ Goto(r, "refused")
  /\ UNCHANGED <<answer, futures, brokerVars>>

\* The count is of the model queue, whatever queue the request will go to.
QueueOverloaded(r) == QueueLength > Threshold[r]

RejectOverloaded(r) ==
  /\ call[r] = "idle"
  /\ RoutingAccepted(r)
  /\ QueueOverloaded(r)
  /\ Goto(r, "overloaded")
  /\ UNCHANGED <<answer, futures, brokerVars>>

\* From the answer of the passive declaration to the publication.
StartCall(r) ==
  /\ call[r] = "idle"
  /\ RoutingAccepted(r)
  /\ ~QueueOverloaded(r)
  /\ futures' = futures \cup {r}
  /\ Goto(r, "publishing")
  /\ UNCHANGED <<answer, brokerVars>>

\* Where the message of a request goes.  One published to a queue that does
\* not exist is returned by the broker and dropped.
Enqueue(r) ==
  \/ /\ Mode[r] = "any"
     /\ modelQueue' = Put(modelQueue, r)
     /\ UNCHANGED privateQueue
  \/ /\ Mode[r] # "any"
     /\ UserOrg[r] \in PrivateOrgs
     /\ privateQueue' = [privateQueue EXCEPT ![UserOrg[r]] = Put(@, r)]
     /\ UNCHANGED modelQueue
  \/ /\ Mode[r] # "any"
     /\ UserOrg[r] \notin PrivateOrgs
     /\ UNCHANGED <<modelQueue, privateQueue>>

\* The message reaches the broker; the coroutine then awaits the confirmation
\* and the future, which may be set before the confirmation comes.
PublishRequest(r) ==
  /\ call[r] = "publishing"
  /\ Enqueue(r)
  /\ Goto(r, "waiting")
  /\ UNCHANGED <<answer, futures, callbackQueue, completedQueue, faults>>

\* The publication raises, before the message reached the broker
\* ("publishing") or after ("waiting"): the exception leaves call() before
\* its try, so the future stays registered.
PublishRequestFails(r) ==
  /\ call[r] \in {"publishing", "waiting"}
  /\ Fault("publish")
  /\ Goto(r, "failed")
  /\ UNCHANGED <<answer, futures, modelQueue, privateQueue, callbackQueue,
                 completedQueue>>

\* Mutant: a response nobody waits for goes back to the queue.
RequeueLateResponse(m) ==
  /\ m \in callbackQueue
  /\ m.id \in futures
  /\ callbackQueue' = callbackQueue \ {m}
  /\ futures' = futures \ {m.id}
  /\ answer' = [answer EXCEPT ![m.id] = m.server]
  /\ UNCHANGED <<call, modelQueue, privateQueue, completedQueue, faults>>

\* on_response pops the future and sets it; for an id that is not registered
\* (the call timed out, or was answered already) it raises KeyError and the
\* message, consumed without acknowledgement, is gone.
OnResponse(m) ==
  /\ m \in callbackQueue
  /\ callbackQueue' = callbackQueue \ {m}
  /\ IF m.id \in futures
       THEN /\ futures' = futures \ {m.id}
            /\ answer' = [answer EXCEPT ![m.id] = m.server]
       ELSE UNCHANGED <<futures, answer>>
  /\ UNCHANGED <<call, modelQueue, privateQueue, completedQueue, faults>>

\* Mutant: the timeout leaves the future behind.
TimeoutKeepsFuture(r) ==
  /\ call[r] = "waiting"
  /\ Goto(r, "timeout")
  /\ UNCHANGED <<answer, futures, brokerVars>>

\* Mutant: after a timeout the call waits again, for a future no longer there.
TimeoutWaitsAgain(r) ==
  /\ call[r] = "waiting"
  /\ futures' = futures \ {r}
  /\ UNCHANGED <<call, answer, brokerVars>>

\* Mutant: a completion is sent for a call that timed out.
TimeoutCompletes(r) ==
  /\ call[r] = "waiting"
  /\ futures' = futures \ {r}
  /\ Goto(r, "completing")
  /\ UNCHANGED <<answer, brokerVars>>

\* MESSAGE_TIMEOUT.  It may also fire after the future was set and before the
\* coroutine ran again: the answer is then discarded.
Timeout(r) ==
  /\ call[r] = "waiting"
  /\ futures' = futures \ {r}
  /\ Goto(r, "timeout")
  /\ UNCHANGED <<answer, brokerVars>>

\* The request goes to the server of the answer.
Forward(r) ==
  /\ call[r] = "waiting"
  /\ answer[r] \in Servers
  /\ Goto(r, "forwarded")
  /\ UNCHANGED <<answer, futures, brokerVars>>

\* The answer carries no llm_url: the user is told the model is busy.
Busy(r) ==
  /\ call[r] = "waiting"
  /\ answer[r] = NoServer
  /\ Goto(r, "busy")
  /\ UNCHANGED <<answer, futures, brokerVars>>

\* The server has answered in full and the stream is closed.
EndService(r) ==
  /\ call[r] = "forwarded"
  /\ Goto(r, "completing")
  /\ UNCHANGED <<answer, futures, brokerVars>>

\* The request to the server raises, or the client goes away in the middle of
\* the stream: the background tasks, hence the completion, never run.
FailService(r) ==
  /\ call[r] = "forwarded"
  /\ Fault("service")
  /\ Goto(r, "failed")
  /\ UNCHANGED <<answer, futures, modelQueue, privateQueue, callbackQueue,
                 completedQueue>>

SendCompletion(r) ==
  /\ call[r] = "completing"
  /\ completedQueue' = completedQueue \cup {[id |-> r, server |-> answer[r]]}
  /\ Goto(r, "done")
  /\ UNCHANGED <<answer, futures, modelQueue, privateQueue, callbackQueue, faults>>

\* A completion that cannot be published is logged and forgotten.
DropCompletion(r) ==
  /\ call[r] = "completing"
  /\ Fault("publish")
  /\ Goto(r, "done")
  /\ UNCHANGED <<answer, futures, modelQueue, privateQueue, callbackQueue,
                 completedQueue>>

\* The sender loses its connection: its exclusive queue of answers goes with
\* it, and the one it declares again is empty.
LoseReplies ==
  /\ Fault("reconnect-sender")
  /\ callbackQueue' = {}
  /\ UNCHANGED <<modelQueue, privateQueue, completedQueue, clientVars>>

\* The requests the server s is working on.
Running(s) == {r \in Requests : call[r] = "forwarded" /\ answer[r] = s}

\* A request that waits for an answer that has not come.
Unanswered(r) == call[r] = "waiting" /\ answer[r] = NoAnswer
=============================================================================
