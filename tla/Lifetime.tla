------------------------------- MODULE Lifetime -------------------------------
(***************************************************************************)
(* How long a request lives, by the clock: the message timeout of the      *)
(* sender (src/sender/rpc_client.py, call), the time to live of messages   *)
(* and of queues declared by the consumer (src/consumer/rpc_server.py,     *)
(* first_connect), and the delay of a requeue                              *)
(* (src/consumer/quality_of_service_policy/utils.py).                      *)
(*                                                                         *)
(* Requests of one organization go to the queue of the model or to the     *)
(* private queue of the organization, which one consumer serves when it is *)
(* attached.  All durations are in one unit; an action takes no time.      *)
(***************************************************************************)
EXTENDS Integers

CONSTANTS
  Requests,        \* the calls of the sender
  MessageTimeout,  \* MESSAGE_TIMEOUT
  MessageTtl,      \* RPC_MESSAGE_EXPIRATION, x-message-ttl of the model queue
  QueueExpiration, \* RPC_QUEUE_EXPIRATION, x-expires of the queues
  RefreshRate,     \* METRICS_REFRESH_RATE, the delay of a requeue
  PublishTime,     \* how long a publication may take to be confirmed
  Horizon          \* BOUND: when the clock stops

RoutingModes == {"any", "private-first", "private-only"}

\* The README of the policies asks that MESSAGE_TIMEOUT match x-message-ttl; the
\* defaults are 570 s for both, 30 s for x-expires and 1 s for the delay.
ASSUME LifetimeAssumption ==
  /\ MessageTtl \in Nat
  /\ MessageTimeout \in Nat
  /\ MessageTtl <= MessageTimeout
  /\ PublishTime \in Nat
  /\ QueueExpiration \in Nat
  /\ PublishTime < QueueExpiration
  /\ RefreshRate \in Nat
  /\ Horizon \in Nat

VARIABLES
  now,       \* the clock
  mode,      \* the routing mode of each request
  call,      \* where the call of each request is
  started,   \* when the call looked the model queue up
  since,     \* when it began to wait for its answer
  place,     \* where its message is
  published, \* when its message was last published
  requeues,  \* the x-requeue-count of its message
  slept,     \* when its requeue began to sleep
  reply,     \* an answer is on its way
  queues,    \* the queues that exist
  attached,  \* the consumer consumes them
  lease,     \* when each queue was last declared or consumed
  first      \* HISTORY: when its message was first published

callVars == <<mode, call, started, since>>
messageVars == <<place, published, requeues, slept, first>>
queueVars == <<queues, attached, lease>>
vars == <<now, callVars, messageVars, reply, queueVars>>

\* "declared" once the queue is found, "published" from the arrival of the
\* message to its confirmation.
Pending == {"declared", "published"}
CallStates == {"idle", "waiting", "answered", "timeout", "unknown"} \cup Pending
\* A message delivered is in a "callback", and "replied" until the answer is
\* confirmed; it may end as "expired", "removed" with its queue, "returned" for
\* lack of one, or "lost" with the consumer.
Held == {"callback", "replied"}
Places ==
  {"nowhere", "queue", "asleep", "done", "expired", "removed", "returned", "lost"} \cup Held
Queues == {"model", "private"}

\* The queue a message was last published to: requeue() sends a private-first one
\* to the model queue.
QueueOf(r) ==
  IF mode[r] = "any" \/ (mode[r] = "private-first" /\ requeues[r] > 0)
    THEN "model" ELSE "private"

Times == [Requests -> Nat]

TypeOK ==
  /\ now \in Nat
  /\ mode \in [Requests -> RoutingModes]
  /\ call \in [Requests -> CallStates]
  /\ place \in [Requests -> Places]
  /\ started \in Times /\ since \in Times
  /\ published \in Times /\ slept \in Times /\ first \in Times
  /\ requeues \in [Requests -> Nat]
  /\ reply \in [Requests -> BOOLEAN]
  /\ queues \in SUBSET Queues
  /\ attached \in BOOLEAN
  /\ lease \in [Queues -> Nat]

\* The consumer has just made its first connection.
Init ==
  /\ now = 0
  /\ mode \in [Requests -> RoutingModes]
  /\ call = [r \in Requests |-> "idle"]
  /\ started = [r \in Requests |-> 0]
  /\ since = [r \in Requests |-> 0]
  /\ place = [r \in Requests |-> "nowhere"]
  /\ published = [r \in Requests |-> 0]
  /\ requeues = [r \in Requests |-> 0]
  /\ slept = [r \in Requests |-> 0]
  /\ reply = [r \in Requests |-> FALSE]
  /\ queues = Queues
  /\ attached = TRUE
  /\ lease = [q \in Queues |-> 0]
  /\ first = [r \in Requests |-> 0]

-----------------------------------------------------------------------------
(* The call. *)

\* Mutant: looking the queue up does not renew its lease.
LookUpWithoutRenewal(r) ==
  /\ call[r] = "idle"
  /\ "model" \in queues
  /\ call' = [call EXCEPT ![r] = "declared"]
  /\ started' = [started EXCEPT ![r] = now]
  /\ UNCHANGED <<now, mode, since, messageVars, reply, queueVars>>

\* get_queue is a passive declaration of the model queue, which renews its lease;
\* the private queue is not declared.
LookUp(r) ==
  /\ call[r] = "idle"
  /\ "model" \in queues
  /\ call' = [call EXCEPT ![r] = "declared"]
  /\ started' = [started EXCEPT ![r] = now]
  /\ lease' = [lease EXCEPT !["model"] = now]
  /\ UNCHANGED <<now, mode, since, messageVars, reply, queues, attached>>

\* ChannelClosed: the model is unknown.
UnknownModel(r) ==
  /\ call[r] = "idle"
  /\ "model" \notin queues
  /\ call' = [call EXCEPT ![r] = "unknown"]
  /\ UNCHANGED <<now, mode, started, since, messageVars, reply, queueVars>>

\* The message reaches the broker, which returns it when its queue is not there.
Publish(r) ==
  /\ call[r] = "declared"
  /\ call' = [call EXCEPT ![r] = "published"]
  /\ place' = [place EXCEPT ![r] = IF QueueOf(r) \in queues THEN "queue" ELSE "returned"]
  /\ published' = [published EXCEPT ![r] = now]
  /\ first' = [first EXCEPT ![r] = now]
  /\ UNCHANGED <<now, mode, started, since, requeues, slept, reply, queueVars>>

\* Mutant: the timeout counts from the start of the call.
ConfirmFromStart(r) ==
  /\ call[r] = "published"
  /\ call' = [call EXCEPT ![r] = "waiting"]
  /\ since' = [since EXCEPT ![r] = started[r]]
  /\ UNCHANGED <<now, mode, started, messageVars, reply, queueVars>>

\* The publication is confirmed: the timeout of wait_for begins.
Confirm(r) ==
  /\ call[r] = "published"
  /\ call' = [call EXCEPT ![r] = "waiting"]
  /\ since' = [since EXCEPT ![r] = now]
  /\ UNCHANGED <<now, mode, started, messageVars, reply, queueVars>>

Timeout(r) ==
  /\ call[r] = "waiting"
  /\ now >= since[r] + MessageTimeout
  /\ call' = [call EXCEPT ![r] = "timeout"]
  /\ UNCHANGED <<now, mode, started, since, messageVars, reply, queueVars>>

\* on_response; the answer may come before the confirmation.
Receive(r) ==
  /\ reply[r]
  /\ reply' = [reply EXCEPT ![r] = FALSE]
  /\ call' = [call EXCEPT ![r] = IF @ \in {"published", "waiting"} THEN "answered" ELSE @]
  /\ UNCHANGED <<now, mode, started, since, messageVars, queueVars>>

-----------------------------------------------------------------------------
(* The consumer. *)

Move(r, to) == place' = [place EXCEPT ![r] = to]
OnlyMoves == UNCHANGED <<now, callVars, published, requeues, slept, first, reply, queueVars>>

\* Mutant: the two expirations are swapped.
OverdueSwapped(r) == QueueOf(r) = "model" /\ now >= published[r] + QueueExpiration

\* Only the model queue has a time to live.
Overdue(r) == QueueOf(r) = "model" /\ now >= published[r] + MessageTtl

Deliver(r) ==
  /\ place[r] = "queue"
  /\ attached
  /\ ~Overdue(r)
  /\ Move(r, "callback")
  /\ OnlyMoves

\* The policy admits the request, or there is no server: an answer is published.
Grant(r) ==
  /\ place[r] = "callback"
  /\ Move(r, "replied")
  /\ reply' = [reply EXCEPT ![r] = TRUE]
  /\ UNCHANGED <<now, callVars, published, requeues, slept, first, queueVars>>

Acknowledge(r) ==
  /\ place[r] = "replied"
  /\ Move(r, "done")
  /\ OnlyMoves

\* requeue() acknowledges the message and sleeps.
Defer(r) ==
  /\ place[r] = "callback"
  /\ Move(r, "asleep")
  /\ slept' = [slept EXCEPT ![r] = now]
  /\ UNCHANGED <<now, callVars, published, requeues, first, reply, queueVars>>

\* Mutant: the count of requeues is not increased but decreased.
RepublishCountsDown(r) ==
  /\ place[r] = "asleep"
  /\ attached
  /\ now >= slept[r] + RefreshRate
  /\ Move(r, "queue")
  /\ published' = [published EXCEPT ![r] = now]
  /\ requeues' = [requeues EXCEPT ![r] = @ - 1]
  /\ UNCHANGED <<now, callVars, slept, first, reply, queueVars>>

\* It publishes another message, whose time to live is a new one.
Republish(r) ==
  /\ place[r] = "asleep"
  /\ attached
  /\ now >= slept[r] + RefreshRate
  /\ Move(r, "queue")
  /\ published' = [published EXCEPT ![r] = now]
  /\ requeues' = [requeues EXCEPT ![r] = @ + 1]
  /\ UNCHANGED <<now, callVars, slept, first, reply, queueVars>>

\* The connection or the process ends: what was not acknowledged goes back to its
\* queue, as old as it is; the sleeping requeues outlive a connection only.
Leave(processEnds) ==
  /\ attached
  /\ attached' = FALSE
  /\ lease' = [q \in Queues |-> now]
  /\ place' = [r \in Requests |->
                 IF place[r] \in Held THEN "queue"
                 ELSE IF place[r] = "asleep" /\ processEnds THEN "lost"
                 ELSE place[r]]
  /\ UNCHANGED <<now, callVars, published, requeues, slept, first, reply, queues>>

\* The queues are declared and consumed again.
Join ==
  /\ ~attached
  /\ attached' = TRUE
  /\ queues' = Queues
  /\ lease' = [q \in Queues |-> now]
  /\ UNCHANGED <<now, callVars, messageVars, reply>>

-----------------------------------------------------------------------------
(* The broker and the clock. *)

\* x-message-ttl: the message is dropped, at the latest when it is foremost.
Expire(r) ==
  /\ place[r] = "queue"
  /\ Overdue(r)
  /\ Move(r, "expired")
  /\ OnlyMoves

\* x-expires: a queue nobody consumes, or declares, for that long is deleted with
\* its messages.
RemoveQueue(q) ==
  /\ q \in queues
  /\ ~attached
  /\ now >= lease[q] + QueueExpiration
  /\ queues' = queues \ {q}
  /\ place' = [r \in Requests |->
                 IF place[r] = "queue" /\ QueueOf(r) = q THEN "removed" ELSE place[r]]
  /\ UNCHANGED <<now, callVars, published, requeues, slept, first, reply, attached, lease>>

\* Publications are confirmed in time, and the timers of wait_for are not late.
Tick ==
  /\ now < Horizon
  /\ \A r \in Requests :
       /\ call[r] \in Pending => now < started[r] + PublishTime
       /\ call[r] = "waiting" => now < since[r] + MessageTimeout
  /\ now' = now + 1
  /\ UNCHANGED <<callVars, messageVars, reply, queueVars>>

Next ==
  \/ \E r \in Requests :
       \/ LookUp(r) \/ UnknownModel(r) \/ Publish(r) \/ Confirm(r)
       \/ Timeout(r) \/ Receive(r)
       \/ Deliver(r) \/ Grant(r) \/ Acknowledge(r) \/ Defer(r) \/ Republish(r)
       \/ Expire(r)
  \/ \E processEnds \in BOOLEAN : Leave(processEnds)
  \/ Join
  \/ \E q \in Queues : RemoveQueue(q)
  \/ Tick

Spec == Init /\ [][Next]_vars
-----------------------------------------------------------------------------
(* Properties. *)

Delivered(r) == place[r] = "queue" /\ place'[r] = "callback"

\* A server is never asked for on behalf of a call that has given up, as long as
\* its message is in the model queue and was not requeued: its timeout comes after
\* the time to live, even for a message that came back from a consumer that went
\* away (rpc_client.py:135, rpc_server.py:63).
NoStaleDelivery ==
  [][\A r \in Requests :
       Delivered(r) /\ QueueOf(r) = "model" /\ requeues[r] = 0 => call[r] # "timeout"]_vars

\* How long a call that waits will go on waiting.
TimeLeft(r) == since[r] + MessageTimeout - now

\* A call whose message expired waits in vain for no longer than the message
\* timeout exceeds the time to live, and the confirmation of its publication:
\* when the two settings match, for that confirmation at the most
\* (rpc_client.py:135, rpc_server.py:63).
LostTimeBounded ==
  \A r \in Requests :
    call[r] = "waiting" /\ place[r] = "expired" =>
      TimeLeft(r) <= (MessageTimeout - MessageTtl) + PublishTime

\* The model queue outlives the lookup of a call until its message is there: a
\* request for any server is never returned, even if the last consumer has been
\* gone for as long as the queue can last (rpc_client.py:91 and 104).
FoundQueueStays == \A r \in Requests : mode[r] = "any" => place[r] # "returned"

\* "how long a message can stay in the queue (counted from the first time it's
\* been enqueued, timestamp not reset by subsequent enqueuing)"
\* (quality_of_service_policy/README.md:3).
FirstEnqueuingCounts ==
  [][\A r \in Requests :
       Delivered(r) /\ QueueOf(r) = "model" => now < first[r] + MessageTtl]_vars
=============================================================================
