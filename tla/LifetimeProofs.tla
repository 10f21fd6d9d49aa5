--------------------------- MODULE LifetimeProofs ---------------------------
(***************************************************************************)
(* Theorems about Lifetime, for every value of its constants: any number   *)
(* of requests, any horizon.                                               *)
(***************************************************************************)
EXTENDS Lifetime, TLAPS

Unpublished == {"idle", "declared", "unknown"}

\* What is written down is past, and in its order.
Ordered(r) ==
  /\ started[r] <= now
  /\ slept[r] <= now
  /\ first[r] <= published[r]
  /\ published[r] <= now
  /\ requeues[r] = 0 => published[r] = first[r]
  /\ place[r] = "asleep" => published[r] <= slept[r]

\* A message exists once it is published.
Exists(r) ==
  /\ call[r] \in Unpublished <=> place[r] = "nowhere"
  /\ place[r] = "nowhere" => requeues[r] = 0 /\ ~reply[r]
  /\ place[r] # "nowhere" => started[r] <= first[r]

\* A publication is confirmed within PublishTime of the lookup, and the timeout
\* counts from then.
Confirmed(r) ==
  /\ call[r] \in Pending => now <= started[r] + PublishTime
  /\ call[r] \in {"waiting", "timeout"} =>
       first[r] <= since[r] /\ since[r] <= started[r] + PublishTime
  /\ call[r] = "timeout" => since[r] + MessageTimeout <= now

\* The model queue is kept QueueExpiration after each lookup.
Leased(r) ==
  /\ call[r] \notin {"idle", "unknown"} => started[r] <= lease["model"]
  /\ call[r] = "declared" => "model" \in queues
  /\ place[r] = "removed" /\ QueueOf(r) = "model" => started[r] + QueueExpiration <= now
  /\ mode[r] = "any" => place[r] # "returned"

Ended(r) == place[r] = "expired" => published[r] + MessageTtl <= now

Inv ==
  /\ TypeOK
  /\ \A r \in Requests :
       Ordered(r) /\ Exists(r) /\ Confirmed(r) /\ Leased(r) /\ Ended(r)
-----------------------------------------------------------------------------
LEMMA InvInit == Init => Inv
<1> SUFFICES ASSUME Init PROVE Inv
  OBVIOUS
<1>1. TypeOK
  BY DEF Init, TypeOK, Times, CallStates, Pending, Places, Held
<1>2. ASSUME NEW r \in Requests
      PROVE  Ordered(r) /\ Exists(r) /\ Confirmed(r) /\ Leased(r) /\ Ended(r)
  BY DEF Init, Ordered, Exists, Unpublished, Confirmed, Pending, Leased, Ended
<1> QED
  BY <1>1, <1>2 DEF Inv

\* The invariant of one request.
Timed(r) == Ordered(r) /\ Exists(r) /\ Confirmed(r) /\ Leased(r) /\ Ended(r)

CallStep(r) ==
  LookUp(r) \/ UnknownModel(r) \/ Publish(r) \/ Confirm(r) \/ Timeout(r) \/ Receive(r)

ConsumerStep(r) ==
  Deliver(r) \/ Grant(r) \/ Acknowledge(r) \/ Defer(r) \/ Republish(r) \/ Expire(r)

CommonStep ==
  \/ \E processEnds \in BOOLEAN : Leave(processEnds)
  \/ Join
  \/ \E q \in Queues : RemoveQueue(q)
  \/ Tick

LEMMA TypeStep == TypeOK /\ [Next]_vars => TypeOK'
<1> SUFFICES ASSUME TypeOK, [Next]_vars PROVE TypeOK'
  OBVIOUS
<1> USE DEF TypeOK, Times
<1>1. ASSUME NEW r \in Requests, CallStep(r) PROVE TypeOK'
  <2> USE DEF CallStates, Pending, Places, Held, messageVars, queueVars
  <2>1. CASE LookUp(r)
    BY <2>1 DEF LookUp
  <2>2. CASE UnknownModel(r)
    BY <2>2 DEF UnknownModel
  <2>3. CASE Publish(r)
    BY <2>3 DEF Publish
  <2>4. CASE Confirm(r)
    BY <2>4 DEF Confirm
  <2>5. CASE Timeout(r)
    BY <2>5 DEF Timeout
  <2>6. CASE Receive(r)
    BY <2>6 DEF Receive
  <2> QED
    BY <1>1, <2>1, <2>2, <2>3, <2>4, <2>5, <2>6 DEF CallStep
<1>2. ASSUME NEW r \in Requests, ConsumerStep(r) PROVE TypeOK'
  <2> USE DEF Move, OnlyMoves, Places, Held, callVars, queueVars
  <2>1. CASE Deliver(r) \/ Acknowledge(r) \/ Expire(r)
    BY <2>1 DEF Deliver, Acknowledge, Expire
  <2>2. CASE Grant(r)
    BY <2>2 DEF Grant
  <2>3. CASE Defer(r)
    BY <2>3 DEF Defer
  <2>4. CASE Republish(r)
    BY <2>4 DEF Republish
  <2> QED
    BY <1>2, <2>1, <2>2, <2>3, <2>4 DEF ConsumerStep
<1>3. CASE CommonStep
  <2> USE DEF Places, Held, Queues, callVars, messageVars, queueVars
  <2>1. ASSUME NEW processEnds \in BOOLEAN, Leave(processEnds) PROVE TypeOK'
    BY <2>1 DEF Leave
  <2>2. CASE Join
    BY <2>2 DEF Join
  <2>3. ASSUME NEW q \in Queues, RemoveQueue(q) PROVE TypeOK'
    BY <2>3 DEF RemoveQueue
  <2>4. CASE Tick
    BY <2>4 DEF Tick
  <2> QED
    BY <1>3, <2>1, <2>2, <2>3, <2>4 DEF CommonStep
<1>4. CASE UNCHANGED vars
  BY <1>4 DEF vars, callVars, messageVars, queueVars
<1> QED
  BY <1>1, <1>2, <1>3, <1>4 DEF Next, CallStep, ConsumerStep, CommonStep

LEMMA CallKeepsTimed ==
  ASSUME TypeOK, NEW r \in Requests, CallStep(r), NEW x \in Requests, Timed(x)
  PROVE  Timed(x)'
<1> USE LifetimeAssumption DEF TypeOK, Times, Timed, Ordered, Exists, Confirmed, Leased, Ended,
        Unpublished, Pending, QueueOf
<1>1. CASE LookUp(r)
  BY <1>1 DEF LookUp, messageVars
<1>2. CASE UnknownModel(r)
  BY <1>2 DEF UnknownModel, messageVars, queueVars
<1>3. CASE Publish(r)
  BY <1>3 DEF Publish, queueVars
<1>4. CASE Confirm(r)
  BY <1>4 DEF Confirm, messageVars, queueVars
<1>5. CASE Timeout(r)
  BY <1>5 DEF Timeout, messageVars, queueVars
<1>6. CASE Receive(r)
  BY <1>6 DEF Receive, messageVars, queueVars
<1> QED
  BY <1>1, <1>2, <1>3, <1>4, <1>5, <1>6 DEF CallStep

LEMMA ConsumerKeepsTimed ==
  ASSUME TypeOK, NEW r \in Requests, ConsumerStep(r), NEW x \in Requests, Timed(x)
  PROVE  Timed(x)'
<1> USE LifetimeAssumption DEF TypeOK, Times, Timed, Ordered, Exists, Confirmed, Leased, Ended,
        Unpublished, Pending, QueueOf, Move, OnlyMoves, callVars, queueVars
<1>1. CASE Deliver(r) \/ Acknowledge(r)
  BY <1>1 DEF Deliver, Acknowledge
<1>2. CASE Grant(r)
  BY <1>2 DEF Grant
<1>3. CASE Defer(r)
  BY <1>3 DEF Defer
<1>4. CASE Republish(r)
  BY <1>4 DEF Republish
<1>5. CASE Expire(r)
  BY <1>5 DEF Expire, Overdue
<1> QED
  BY <1>1, <1>2, <1>3, <1>4, <1>5 DEF ConsumerStep

LEMMA CommonKeepsTimed ==
  ASSUME TypeOK, CommonStep, NEW x \in Requests, Timed(x)
  PROVE  Timed(x)'
<1> USE LifetimeAssumption DEF TypeOK, Times, Timed, Ordered, Exists, Confirmed, Leased, Ended,
        Unpublished, Pending, QueueOf, Queues
<1>1. ASSUME NEW processEnds \in BOOLEAN, Leave(processEnds) PROVE Timed(x)'
  BY <1>1 DEF Leave, Held, callVars
<1>2. CASE Join
  BY <1>2 DEF Join, callVars, messageVars
<1>3. ASSUME NEW q \in Queues, RemoveQueue(q) PROVE Timed(x)'
  BY <1>3 DEF RemoveQueue, callVars
<1>4. CASE Tick
  BY <1>4 DEF Tick, callVars, messageVars, queueVars
<1> QED
  BY <1>1, <1>2, <1>3, <1>4 DEF CommonStep

LEMMA InvStep == Inv /\ [Next]_vars => Inv'
<1> SUFFICES ASSUME Inv, [Next]_vars PROVE Inv'
  OBVIOUS
<1>1. TypeOK'
  BY TypeStep DEF Inv
<1>2. ASSUME NEW x \in Requests PROVE Timed(x)'
  <2>1. TypeOK /\ Timed(x)
    BY DEF Inv, Timed
  <2>2. CASE \E r \in Requests : CallStep(r)
    BY <2>1, <2>2, CallKeepsTimed
  <2>3. CASE \E r \in Requests : ConsumerStep(r)
    BY <2>1, <2>3, ConsumerKeepsTimed
  <2>4. CASE CommonStep
    BY <2>1, <2>4, CommonKeepsTimed
  <2>5. CASE UNCHANGED vars
    BY <2>1, <2>5 DEF vars, callVars, messageVars, queueVars, Timed, Ordered, Exists, Confirmed,
                      Leased, Ended, QueueOf
  <2> QED
    BY <2>2, <2>3, <2>4, <2>5 DEF Next, CallStep, ConsumerStep, CommonStep
<1> QED
  BY <1>1, <1>2 DEF Inv, Timed

LEMMA Invariant == Spec => []Inv
BY InvInit, InvStep, PTL DEF Spec

\* What the clocks hold are times, and what a message may become is one of Places.
THEOREM TypesHold == Spec => []TypeOK
<1>1. Inv => TypeOK
  BY DEF Inv
<1> QED
  BY <1>1, Invariant, PTL

\* A message expires no earlier than its time to live after the lookup, and the
\* timeout counts from a publication after it: what is left of the wait then is
\* what the timeout exceeds the time to live, and the publication.
THEOREM LostTimeIsBounded == Spec => []LostTimeBounded
<1>1. Inv => LostTimeBounded
  BY LifetimeAssumption DEF Inv, TypeOK, Times, LostTimeBounded, TimeLeft, Ordered, Exists,
                            Confirmed, Ended, Unpublished
<1> QED
  BY <1>1, Invariant, PTL

\* The model queue is there when a call publishes, however close to its end the
\* call found it.
THEOREM FoundQueuesStay == Spec => []FoundQueueStays
<1>1. Inv => FoundQueueStays
  BY DEF Inv, FoundQueueStays, Leased
<1> QED
  BY <1>1, Invariant, PTL

\* Only Deliver delivers.
LEMMA DeliveredInTime ==
  ASSUME TypeOK, [Next]_vars, NEW r \in Requests, Delivered(r)
  PROVE  ~Overdue(r)
<1> USE DEF TypeOK, Delivered
<1>1. ASSUME NEW x \in Requests, CallStep(x) PROVE FALSE
  BY <1>1 DEF CallStep, LookUp, UnknownModel, Publish, Confirm, Timeout, Receive, messageVars
<1>2. ASSUME NEW x \in Requests, ConsumerStep(x) PROVE x = r /\ Deliver(r)
  BY <1>2 DEF ConsumerStep, Deliver, Grant, Acknowledge, Defer, Republish, Expire, Move
<1>3. ASSUME CommonStep \/ UNCHANGED vars PROVE FALSE
  BY <1>3 DEF CommonStep, Leave, Join, RemoveQueue, Tick, Held, vars, messageVars
<1> QED
  BY <1>1, <1>2, <1>3 DEF Next, CallStep, ConsumerStep, CommonStep, Deliver

\* A call that has given up has outlived its message: none is delivered for it
\* from the model queue, unless it was requeued.
THEOREM NothingStaleDelivered == Spec => NoStaleDelivery
<1>1. ASSUME Inv, [Next]_vars, NEW r \in Requests, Delivered(r), QueueOf(r) = "model",
             requeues[r] = 0
      PROVE  call[r] # "timeout"
  <2>1. ~Overdue(r)
    BY <1>1, DeliveredInTime DEF Inv
  <2> QED
    BY <1>1, <2>1, LifetimeAssumption DEF Inv, TypeOK, Times, Overdue, Ordered, Confirmed
<1>2. Inv /\ [Next]_vars => [\A r \in Requests :
       Delivered(r) /\ QueueOf(r) = "model" /\ requeues[r] = 0 => call[r] # "timeout"]_vars
  BY <1>1
<1> QED
  BY <1>2, Invariant, PTL DEF Spec, NoStaleDelivery
=============================================================================
