--------------------------- MODULE ConsumerProcess ---------------------------
(***************************************************************************)
(* The life of the consumer processes (src/consumer/main.py): each waits   *)
(* for a first vLLM server (src/consumer/metrics.py), declares and         *)
(* consumes its queues one after the other (first_connect of               *)
(* src/consumer/rpc_server.py), serves until a signal and closes.  Each    *)
(* action is the code from one await to the next.                          *)
(***************************************************************************)
EXTENDS QueueRegistry

CONSTANT MaxAttempts \* MAX_VLLM_CONNECTION_ATTEMPTS

ASSUME AttemptsAssumption == MaxAttempts \in Nat \ {0}

VARIABLES
  stage,     \* where main_consumer is
  probe,     \* the task wait_for_vllm of each server
  attempts,  \* the iteration it is at
  todo,      \* the queues first_connect has not consumed yet
  signalled  \* shutdown_signal is set

processVars == <<stage, probe, attempts, todo, signalled>>

Stages == {"waiting", "connecting", "serving", "exited", "failed"}
ProbeStates == {"pinging", "asleep", "ready", "failed", "cancelled"}

ProcessTypeOK ==
  /\ stage \in [Consumers -> Stages]
  /\ probe \in [Consumers -> [Servers -> ProbeStates]]
  /\ attempts \in [Consumers -> [Servers -> 0 .. MaxAttempts]]
  /\ todo \in [Consumers -> Seq(Queues)]
  /\ signalled \in [Consumers -> BOOLEAN]

\* The queues of first_connect, in its order.
Declarations(c) ==
  <<ModelQueue(Served[c])>>
    \o [i \in DOMAIN VllmServers[c] |-> <<Served[c], OrgOf[VllmServers[c][i]]>>]

ProcessInit ==
  /\ stage = [c \in Consumers |-> "waiting"]
  /\ probe = [c \in Consumers |-> [s \in Servers |-> "pinging"]]
  /\ attempts = [c \in Consumers |-> [s \in Servers |-> 0]]
  /\ todo = [c \in Consumers |-> Declarations(c)]
  /\ signalled = [c \in Consumers |-> FALSE]

Enter(c, to) == stage' = [stage EXCEPT ![c] = to]

\* The process ends, and with it what it remembered and its subscriptions.
End(c, how) ==
  /\ Enter(c, how)
  /\ Unsubscribe(c)
  /\ probe' = [probe EXCEPT ![c] = [s \in Servers |-> "pinging"]]
  /\ attempts' = [attempts EXCEPT ![c] = [s \in Servers |-> 0]]
  /\ todo' = [todo EXCEPT ![c] = Declarations(c)]
  /\ signalled' = [signalled EXCEPT ![c] = FALSE]

-----------------------------------------------------------------------------
(* wait_for_vllms. *)

\* ping_server of metrics.py: the server answers, or not; after a failure, the last
\* one included, the task sleeps.
Ping(c, s) ==
  /\ stage[c] = "waiting"
  /\ probe[c][s] = "pinging"
  /\ \/ /\ probe' = [probe EXCEPT ![c][s] = "ready"]
        /\ UNCHANGED attempts
     \/ /\ probe' = [probe EXCEPT ![c][s] = "asleep"]
        /\ attempts' = [attempts EXCEPT ![c][s] = @ + 1]
  /\ UNCHANGED <<stage, todo, signalled, registryVars>>

\* Mutant: the attempts are not counted.
AwakeForEver(c, s) ==
  /\ stage[c] = "waiting"
  /\ probe[c][s] = "asleep"
  /\ probe' = [probe EXCEPT ![c][s] = "pinging"]
  /\ attempts' = [attempts EXCEPT ![c][s] = 0]
  /\ UNCHANGED <<stage, todo, signalled, registryVars>>

\* Mutant: one attempt more.
AwakeOnceMore(c, s) ==
  /\ stage[c] = "waiting"
  /\ probe[c][s] = "asleep"
  /\ probe' = [probe EXCEPT ![c][s] =
                 IF attempts[c][s] <= MaxAttempts THEN "pinging" ELSE "failed"]
  /\ UNCHANGED <<stage, attempts, todo, signalled, registryVars>>

Awake(c, s) ==
  /\ stage[c] = "waiting"
  /\ probe[c][s] = "asleep"
  /\ probe' = [probe EXCEPT ![c][s] =
                 IF attempts[c][s] < MaxAttempts THEN "pinging" ELSE "failed"]
  /\ UNCHANGED <<stage, attempts, todo, signalled, registryVars>>

\* asyncio.wait returns with the tasks done by then: one of them at least.
Done(c) == {s \in ServersOf(c) : probe[c][s] \in {"ready", "failed"}}

\* The tasks that are not done are cancelled, and what all counted is forgotten.
StopWaiting(c) ==
  /\ Enter(c, "connecting")
  /\ probe' = [probe EXCEPT ![c] =
                 [s \in Servers |-> IF s \in Done(c) THEN @[s] ELSE "cancelled"]]
  /\ attempts' = [attempts EXCEPT ![c] = [s \in Servers |-> 0]]
  /\ UNCHANGED <<todo, signalled, registryVars>>

\* Mutant: a task that is done is taken for a success.
FirstAnswersOrFails(c) ==
  /\ stage[c] = "waiting"
  /\ Done(c) # {}
  /\ StopWaiting(c)

FirstAnswers(c) ==
  /\ stage[c] = "waiting"
  /\ \E s \in Done(c) : probe[c][s] = "ready"
  /\ StopWaiting(c)

\* None of those done has succeeded: the exception ends the process, whatever the
\* other tasks would have found.
FirstFails(c) ==
  /\ stage[c] = "waiting"
  /\ Done(c) # {}
  /\ \A s \in Done(c) : probe[c][s] = "failed"
  /\ End(c, "failed")
  /\ UNCHANGED <<queues, faults>>

-----------------------------------------------------------------------------
(* first_connect, and until the end. *)

\* One queue is declared and consumed.
Consume(c) ==
  /\ stage[c] = "connecting"
  /\ Len(todo[c]) > 0
  /\ queues' = queues \cup {Head(todo[c])}
  /\ subscribers' = [subscribers EXCEPT ![Head(todo[c])] = @ \cup {c}]
  /\ todo' = [todo EXCEPT ![c] = Tail(@)]
  /\ UNCHANGED <<faults, stage, probe, attempts, signalled>>

\* Mutant: the process takes itself for ready once the model queue is there.
ServeAtOnce(c) ==
  /\ stage[c] = "connecting"
  /\ Len(todo[c]) < Len(Declarations(c))
  /\ Enter(c, "serving")
  /\ UNCHANGED <<registryVars, probe, attempts, todo, signalled>>

\* Mutant: the event is cleared before it is waited for.
StartServingCleared(c) ==
  /\ stage[c] = "connecting"
  /\ todo[c] = <<>>
  /\ Enter(c, "serving")
  /\ signalled' = [signalled EXCEPT ![c] = FALSE]
  /\ UNCHANGED <<registryVars, probe, attempts, todo>>

\* The pinger starts, and the process waits for its signal.
StartServing(c) ==
  /\ stage[c] = "connecting"
  /\ todo[c] = <<>>
  /\ Enter(c, "serving")
  /\ UNCHANGED <<registryVars, probe, attempts, todo, signalled>>

\* shutdown() of main.py: the event is set; only a process that serves looks at it.
Signal(c) ==
  /\ stage[c] \in {"waiting", "connecting", "serving"}
  /\ Fault("signal")
  /\ signalled' = [signalled EXCEPT ![c] = TRUE]
  /\ UNCHANGED <<queues, subscribers, stage, probe, attempts, todo>>

\* close() of the RPC server; the pinger and the tracker are then stopped.
Close(c) ==
  /\ stage[c] = "serving"
  /\ signalled[c]
  /\ End(c, "exited")
  /\ UNCHANGED <<queues, faults>>

\* The process is killed, or RabbitMQ refuses what first_connect asks, which
\* raises and ends it.
Kill(c) ==
  /\ stage[c] \in {"waiting", "connecting", "serving"}
  /\ Fault("kill")
  /\ End(c, "failed")
  /\ UNCHANGED queues

\* The process is started again.
Start(c) ==
  /\ stage[c] \in {"exited", "failed"}
  /\ Enter(c, "waiting")
  /\ UNCHANGED <<registryVars, probe, attempts, todo, signalled>>

ProcessStep(c) ==
  \/ \E s \in ServersOf(c) : Ping(c, s) \/ Awake(c, s)
  \/ FirstAnswers(c) \/ FirstFails(c)
  \/ Consume(c) \/ StartServing(c) \/ Close(c)

ProcessFaults(c) == Signal(c) \/ Kill(c) \/ Start(c)
=============================================================================
