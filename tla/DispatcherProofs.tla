-------------------------- MODULE DispatcherProofs --------------------------
(***************************************************************************)
(* Theorems about Dispatcher, for every value of its constants.            *)
(***************************************************************************)
EXTENDS Dispatcher, FiniteSetTheorems, TLAPS

\* The assumptions of the modules of the dispatcher, in one name.
LEMMA Assumptions ==
  /\ IsFiniteSet(Requests) /\ IsFiniteSet(Servers) /\ IsFiniteSet(MainTags)
  /\ NoServer \notin Servers /\ NoRequest \notin Requests
  /\ NoAnswer \notin Servers \cup {NoServer}
  /\ FirstTag \in MainTags /\ MainTags \cap Servers = {}
  /\ Hosts \in [Consumers -> SUBSET Servers]
  /\ MaxParallel \in [Servers -> Nat]
BY RequestsAssumption, ServersAssumption, ClientAssumption, ConsumersAssumption

-----------------------------------------------------------------------------
(* Types and futures.  TypeOK is not inductive: a callback past its first   *)
(* await has a request, and a request past its answer has a server.  That   *)
(* no answer comes once the request is forwarded is what FuturesOwned says. *)

CallbacksHoldRequests ==
  \A c \in Consumers, t \in Tags :
    callback[c][t].phase # "idle" => callback[c][t].id \in Requests

ServedHaveServers ==
  \A r \in Requests : call[r] \in {"forwarded", "completing"} => answer[r] \in Servers

IdleUnanswered == \A r \in Requests : call[r] = "idle" => answer[r] = NoAnswer

TypeInv ==
  /\ TypeOK
  /\ CallbacksHoldRequests
  /\ ServedHaveServers
  /\ IdleUnanswered
  /\ FuturesOwned

\* Messages are put in a bag, and taken from it when it has one.
LEMMA PutType ==
  ASSUME NEW bag \in Bags, NEW r \in Requests
  PROVE  Put(bag, r) \in Bags
BY DEF Put, Bags

LEMMA PutInType ==
  ASSUME NEW f \in [PrivateOrgs -> Bags], NEW o, NEW r \in Requests
  PROVE  [f EXCEPT ![o] = Put(@, r)] \in [PrivateOrgs -> Bags]
<1>1. CASE o \in PrivateOrgs
  <2>1. Put(f[o], r) \in Bags
    BY <1>1, PutType
  <2> QED
    BY <2>1
<1>2. CASE o \notin PrivateOrgs
  BY <1>2
<1> QED
  BY <1>1, <1>2

LEMMA TakeType ==
  ASSUME NEW bag \in Bags, NEW r \in Requests, bag[r] > 0
  PROVE  Take(bag, r) \in Bags
BY DEF Take, Bags

\* The sets of requests a consumer keeps for each server.
Counters == [Consumers -> [Servers -> SUBSET Requests]]

LEMMA CounterType ==
  ASSUME NEW f \in Counters, NEW c \in Consumers, NEW s \in Servers, NEW set \in SUBSET Requests
  PROVE  [f EXCEPT ![c][s] = set] \in Counters
BY DEF Counters

LEMMA CounterLookup ==
  ASSUME NEW f \in Counters, NEW c \in Consumers, NEW s \in Servers, NEW set,
         NEW d \in Consumers, NEW u \in Servers
  PROVE  /\ [f EXCEPT ![c][s] = set][c][s] = set
         /\ d # c \/ u # s => [f EXCEPT ![c][s] = set][d][u] = f[d][u]
BY DEF Counters

LEMMA EmptyBagType == EmptyBag \in Bags
BY DEF EmptyBag, Bags

\* A fault is counted.
LEMMA FaultType ==
  ASSUME faults \in [FaultKinds -> Nat], NEW kind, Fault(kind)
  PROVE  faults' \in [FaultKinds -> Nat]
BY DEF Fault

\* A step of the sender may only end the services that outlived their slot.
LEMMA SenderOnlyType ==
  ASSUME TypeInv, SenderOnly
  PROVE  ServerTypeOK' /\ CallbacksHoldRequests' /\ outlived' \in [Servers -> SUBSET Requests]
<1>1. ServerTypeOK' /\ CallbacksHoldRequests'
  BY DEF SenderOnly, serverVars, TypeInv, TypeOK, ServerTypeOK, CallbacksHoldRequests
<1>2. \A s \in Servers : outlived[s] \cap ToServe' \subseteq Requests
  BY DEF TypeInv, TypeOK
<1>3. outlived' \in [Servers -> SUBSET Requests]
  BY <1>2 DEF SenderOnly
<1> QED
  BY <1>1, <1>3

LEMMA ExpireType ==
  ASSUME TypeInv, NEW c, NEW s \in Servers, NEW r \in Requests, Expire(c, s, r)
  PROVE  outlived' \in [Servers -> SUBSET Requests]
<1>1. outlived \in [Servers -> SUBSET Requests]
  BY DEF TypeInv, TypeOK
<1> QED
  BY <1>1 DEF Expire

LEMMA TypeInit == Init => TypeInv
<1> SUFFICES ASSUME Init PROVE TypeInv
  OBVIOUS
<1> USE DEF Init
<1>1. BrokerTypeOK
  BY EmptyBagType DEF BrokerInit, BrokerTypeOK
<1>2. ClientTypeOK
  BY DEF ClientInit, ClientTypeOK, Active
<1>3. ServerTypeOK
  BY Assumptions, EmptyBagType DEF ServerInit, ServerTypeOK, Callbacks, Phases, Idle
<1>4. CallbacksHoldRequests
  BY DEF ServerInit, CallbacksHoldRequests, Idle
<1>5. ServedHaveServers /\ IdleUnanswered /\ FuturesOwned
  BY DEF ClientInit, ServedHaveServers, IdleUnanswered, FuturesOwned
<1>6. outlived \in [Servers -> SUBSET Requests]
  OBVIOUS
<1> QED
  BY <1>1, <1>2, <1>3, <1>4, <1>5, <1>6 DEF TypeInv, TypeOK

\* The steps of the sender.
LEMMA TypeClient ==
  ASSUME TypeInv, NEW r \in Requests, ClientStep(r)
  PROVE  TypeInv'
<1> USE DEF TypeInv, TypeOK, BrokerTypeOK, ClientTypeOK, Active, Final, Goto,
            ServedHaveServers, IdleUnanswered, FuturesOwned
<1>1. ServerTypeOK' /\ CallbacksHoldRequests' /\ outlived' \in [Servers -> SUBSET Requests]
  BY SenderOnlyType DEF ClientStep
<1>2. CASE Validate(r) \/ Timeout(r)
  BY <1>1, <1>2 DEF Validate, RefuseRouting, RejectOverloaded, StartCall, Timeout, brokerVars
<1>3. CASE PublishRequest(r)
  <2>1. modelQueue' \in Bags /\ privateQueue' \in [PrivateOrgs -> Bags]
    BY <1>3, PutType DEF PublishRequest, Enqueue
  <2> QED
    BY <1>1, <1>3, <2>1 DEF PublishRequest
<1>4. CASE Answered(r) \/ EndService(r)
  BY <1>1, <1>4, Assumptions DEF Answered, Forward, Busy, EndService, brokerVars
<1>5. CASE SendCompletion(r)
  BY <1>1, <1>5 DEF SendCompletion, Completions
<1>6. CASE ClientFaults(r)
  <2>1. faults' \in [FaultKinds -> Nat]
    BY <1>6, FaultType DEF ClientFaults, PublishRequestFails, FailService, DropCompletion
  <2> QED
    BY <1>1, <1>6, <2>1 DEF ClientFaults, PublishRequestFails, FailService, DropCompletion
<1> QED
  BY <1>2, <1>3, <1>4, <1>5, <1>6 DEF ClientStep

LEMMA TypeReceive ==
  ASSUME TypeInv, Receive
  PROVE  TypeInv'
<1> USE DEF TypeInv, TypeOK, BrokerTypeOK, ClientTypeOK
<1>1. ServerTypeOK' /\ CallbacksHoldRequests' /\ outlived' \in [Servers -> SUBSET Requests]
  BY SenderOnlyType DEF Receive
<1>2. PICK m \in callbackQueue : OnResponse(m)
  BY DEF Receive
<1>3. m \in Answers
  BY <1>2
<1>4. m.id \in Requests /\ m.server \in Servers \cup {NoServer} /\ m.server # NoAnswer
  BY <1>3, Assumptions DEF Answers
<1>5. BrokerTypeOK' /\ ClientTypeOK'
  BY <1>2, <1>4 DEF OnResponse
<1>6. ServedHaveServers' /\ IdleUnanswered' /\ FuturesOwned'
  BY <1>2, <1>4 DEF OnResponse, ServedHaveServers, IdleUnanswered, FuturesOwned
<1> QED
  BY <1>1, <1>5, <1>6

\* The sender's part of the invariant is about its variables only.
LEMMA ClientUnchanged ==
  ASSUME TypeInv, UNCHANGED clientVars
  PROVE  ClientTypeOK' /\ ServedHaveServers' /\ IdleUnanswered' /\ FuturesOwned'
BY DEF TypeInv, TypeOK, ClientTypeOK, ServedHaveServers, IdleUnanswered, FuturesOwned,
   clientVars

\* A callback moves between well-typed records.
LEMMA CallbackType ==
  ASSUME ServerTypeOK, NEW c \in Consumers, NEW t \in Tags, NEW record \in Callbacks,
         SetCallback(c, t, record)
  PROVE  callback' \in [Consumers -> [Tags -> Callbacks]]
BY DEF ServerTypeOK, SetCallback

LEMMA AdvanceType ==
  ASSUME TypeInv, NEW c \in Consumers, NEW t \in Tags, NEW phase \in Phases,
         callback[c][t].phase # "idle", Advance(c, t, phase)
  PROVE  callback' \in [Consumers -> [Tags -> Callbacks]] /\ CallbacksHoldRequests'
<1> DEFINE record == [callback[c][t] EXCEPT !.phase = phase]
<1> USE DEF TypeInv, TypeOK, ServerTypeOK
<1>1. callback' = [callback EXCEPT ![c][t] = record]
  BY DEF Advance
<1>2. callback[c][t] \in Callbacks
  OBVIOUS
<1>3. record \in Callbacks /\ record.id = callback[c][t].id
  BY <1>2 DEF Callbacks
<1> HIDE DEF record
<1> QED
  BY <1>1, <1>3 DEF CallbacksHoldRequests

LEMMA DecideType ==
  ASSUME TypeInv, NEW c \in Consumers, NEW t \in Tags, NEW r \in Requests,
         NEW s \in Servers, NEW score, Decide(c, t, r, s, score)
  PROVE  callback' \in [Consumers -> [Tags -> Callbacks]] /\ CallbacksHoldRequests'
<1> DEFINE Record(phase, u) == [phase |-> phase, id |-> r, server |-> u]
<1>1. PICK phase \in {"publishing", "deferring", "stuck"}, u \in {s, NoServer} :
        SetCallback(c, t, Record(phase, u))
  BY DEF Decide
<1>2. Record(phase, u) \in Callbacks
  BY DEF Callbacks, Phases
<1>3. callback' \in [Consumers -> [Tags -> Callbacks]]
  BY <1>1, <1>2, CallbackType DEF TypeInv, TypeOK
<1>4. CallbacksHoldRequests'
  BY <1>1 DEF SetCallback, CallbacksHoldRequests, TypeInv, TypeOK, ServerTypeOK
<1> QED
  BY <1>3, <1>4

\* The deliveries.
LEMMA TypeDeliver ==
  ASSUME TypeInv, NEW c \in Consumers, NEW t \in Tags, Deliver(c, t)
  PROVE  BrokerTypeOK' /\ ServerTypeOK' /\ CallbacksHoldRequests'
<1> USE DEF TypeInv, TypeOK, BrokerTypeOK, ServerTypeOK
<1>1. PICK r \in Requests : DeliverMain(c, t, r) \/ DeliverPrivate(c, t, r)
  BY DEF Deliver
<1>2. CASE DeliverMain(c, t, r)
  <2>1. modelQueue' \in Bags
    BY <1>2, TakeType DEF DeliverMain, Foremost
  <2>2. callback' \in [Consumers -> [Tags -> Callbacks]] /\ CallbacksHoldRequests'
    <3>1. CASE healthy[c] = {} /\ SetCallback(c, t,
                 [phase |-> "publishing", id |-> r, server |-> NoServer])
      <4>1. [phase |-> "publishing", id |-> r, server |-> NoServer] \in Callbacks
        BY DEF Callbacks, Phases
      <4> QED
        BY <3>1, <4>1, CallbackType DEF SetCallback, CallbacksHoldRequests
    <3>2. CASE \E s \in healthy[c], score \in MainScores : Decide(c, t, r, s, score)
      <4>1. PICK s \in healthy[c], score \in MainScores : Decide(c, t, r, s, score)
        BY <3>2
      <4> QED
        BY <4>1, DecideType
    <3> QED
      BY <1>2, <3>1, <3>2 DEF DeliverMain
  <2> QED
    BY <1>2, <2>1, <2>2 DEF DeliverMain
<1>3. CASE DeliverPrivate(c, t, r)
  <2>1. t \in Servers /\ Org[t] \in PrivateOrgs
    BY <1>3, Assumptions DEF DeliverPrivate, PrivateOrgs
  <2>2. privateQueue' \in [PrivateOrgs -> Bags]
    BY <1>3, <2>1, TakeType DEF DeliverPrivate
  <2>3. PICK s \in {s \in Hosts[c] : Org[s] = Org[t]}, score \in PrivateScores :
          Decide(c, t, r, s, score)
    BY <1>3 DEF DeliverPrivate
  <2>4. callback' \in [Consumers -> [Tags -> Callbacks]] /\ CallbacksHoldRequests'
    BY <2>3, DecideType, Assumptions
  <2> QED
    BY <1>3, <2>2, <2>4 DEF DeliverPrivate
<1> QED
  BY <1>1, <1>2, <1>3

\* The rest of the callbacks.
LEMMA TypeProceed ==
  ASSUME TypeInv, NEW c \in Consumers, NEW t \in Tags,
         Proceed(c, t) \/ PublishReplyFails(c, t)
  PROVE  BrokerTypeOK' /\ ServerTypeOK' /\ CallbacksHoldRequests'
<1> USE DEF TypeInv, TypeOK, BrokerTypeOK, ServerTypeOK
<1>1. callback[c][t].phase # "idle" => callback[c][t].id \in Requests
  BY DEF CallbacksHoldRequests
<1>2. callback[c][t].server \in Servers \cup {NoServer}
  BY DEF Callbacks
<1>3. CASE PublishReply(c, t)
  <2>1. [id |-> callback[c][t].id, server |-> callback[c][t].server] \in Answers
    BY <1>1, <1>2, <1>3 DEF PublishReply, Answers
  <2>2. callbackQueue' \in SUBSET Answers
    BY <1>3, <2>1 DEF PublishReply
  <2>3. callback' \in [Consumers -> [Tags -> Callbacks]] /\ CallbacksHoldRequests'
    BY <1>3, AdvanceType DEF PublishReply, Phases
  <2> QED
    BY <1>3, <2>2, <2>3 DEF PublishReply
<1>4. CASE FinishCallback(c, t)
  <2> DEFINE r == callback[c][t].id
             s == callback[c][t].server
  <2>1. callback' \in [Consumers -> [Tags -> Callbacks]] /\ CallbacksHoldRequests'
    BY <1>4, AdvanceType DEF FinishCallback, CountRequest, Phases
  <2>2. r \in Requests
    BY <1>1, <1>4 DEF FinishCallback, CountRequest
  <2>3. CASE s \in Servers
    <3>1. slots[c][s] \cup {r} \in SUBSET Requests /\ timers[c][s] \cup {r} \in SUBSET Requests
      BY <2>2, <2>3
    <3>2. slots' = [slots EXCEPT ![c][s] = slots[c][s] \cup {r}]
          /\ timers' = [timers EXCEPT ![c][s] = timers[c][s] \cup {r}]
      BY <1>4, <2>3 DEF FinishCallback, CountRequest
    <3> HIDE DEF r, s
    <3>3. slots' \in Counters /\ timers' \in Counters
      BY <2>3, <3>1, <3>2, CounterType DEF Counters
    <3> QED
      BY <1>4, <2>1, <3>3 DEF FinishCallback, CountRequest, brokerVars, Counters
  <2>4. CASE s \notin Servers
    BY <1>4, <2>1, <2>4 DEF FinishCallback, CountRequest, brokerVars
  <2> QED
    BY <2>3, <2>4
<1>5. CASE DeferAck(c, t)
  BY <1>1, <1>5, AdvanceType, PutType DEF DeferAck, Phases, brokerVars
<1>6. CASE BrokerAck(c, t)
  <2>1. Idle \in Callbacks
    BY DEF Idle, Callbacks, Phases
  <2> QED
    BY <1>6, <2>1, CallbackType DEF BrokerAck, brokerVars, SetCallback, Idle,
       CallbacksHoldRequests
<1>7. CASE PublishReplyFails(c, t)
  BY <1>7, AdvanceType, FaultType DEF PublishReplyFails, Phases
<1> QED
  BY <1>3, <1>4, <1>5, <1>6, <1>7 DEF Proceed

\* The tasks, the completions and the pinger.
LEMMA TypeTasks ==
  ASSUME TypeInv, NEW c \in Consumers,
         \/ \E r \in Requests : Republish(c, r) \/ RepublishFails(c, r)
         \/ \E s \in Servers, r \in Requests : Expire(c, s, r)
         \/ Complete(c)
         \/ UpdateServers(c)
  PROVE  BrokerTypeOK' /\ ServerTypeOK' /\ CallbacksHoldRequests'
<1> USE DEF TypeInv, TypeOK, BrokerTypeOK, ServerTypeOK
<1>0. CallbacksHoldRequests' /\ callback' \in [Consumers -> [Tags -> Callbacks]]
  BY DEF CallbacksHoldRequests, Republish, RepublishFails, Expire, ExpireRequest, Complete,
     HandleCompletion, WedgeOnCompletion, UpdateServers
<1>1. CASE \E r \in Requests : Republish(c, r) \/ RepublishFails(c, r)
  <2>1. PICK r \in Requests : Republish(c, r) \/ RepublishFails(c, r)
    BY <1>1
  <2>2. deferred' \in [Consumers -> Bags]
    <3>1. deferred[c] \in Bags /\ deferred[c][r] > 0
      BY <2>1 DEF Republish, RepublishFails
    <3>2. Take(deferred[c], r) \in Bags
      BY <3>1, TakeType
    <3> QED
      BY <2>1, <3>2 DEF Republish, RepublishFails
  <2>3. modelQueue' \in Bags /\ privateQueue' \in [PrivateOrgs -> Bags]
    <3>1. modelQueue' = modelQueue \/ modelQueue' = Put(modelQueue, r)
      BY <2>1 DEF Republish, RepublishFails
    <3>2. privateQueue' = privateQueue
          \/ privateQueue' = [privateQueue EXCEPT ![UserOrg[r]] = Put(@, r)]
      BY <2>1 DEF Republish, RepublishFails
    <3>3. modelQueue' \in Bags
      BY <3>1, PutType
    <3>4. privateQueue' \in [PrivateOrgs -> Bags]
      <4>1. privateQueue \in [PrivateOrgs -> Bags]
        OBVIOUS
      <4>2. [privateQueue EXCEPT ![UserOrg[r]] = Put(@, r)] \in [PrivateOrgs -> Bags]
        BY <4>1, PutInType, Zenon
      <4> QED
        BY <3>2, <4>1, <4>2
    <3> QED
      BY <3>3, <3>4
  <2> QED
    BY <1>0, <2>1, <2>2, <2>3, FaultType DEF Republish, RepublishFails
<1>2. CASE \E s \in Servers, r \in Requests : Expire(c, s, r)
  <2>1. PICK s \in Servers, r \in Requests : ExpireRequest(c, s, r)
    BY <1>2 DEF Expire
  <2>2. slots[c][s] \ {r} \in SUBSET Requests /\ timers[c][s] \ {r} \in SUBSET Requests
    OBVIOUS
  <2>3. slots' \in Counters /\ timers' \in Counters
    BY <2>1, <2>2, CounterType DEF Counters, ExpireRequest
  <2> QED
    BY <1>0, <2>1, <2>3 DEF ExpireRequest, brokerVars, Counters
<1>3. CASE Complete(c)
  <2>1. PICK m \in completedQueue : HandleCompletion(c, m) \/ WedgeOnCompletion(c, m)
    BY <1>3 DEF Complete
  <2>2. m \in Completions /\ m.server \in Servers
    BY <2>1 DEF Completions
  <2>3. CASE HandleCompletion(c, m)
    <3>1. slots[c][m.server] \ {m.id} \in SUBSET Requests
      BY <2>2
    <3>2. slots' \in Counters
      BY <2>2, <2>3, <3>1, CounterType DEF HandleCompletion, Counters
    <3> QED
      BY <1>0, <2>3, <3>2 DEF HandleCompletion, Counters
  <2>4. CASE WedgeOnCompletion(c, m)
    <3>1. {m} \in SUBSET Completions
      BY <2>2
    <3>2. wedged' \in [Consumers -> SUBSET Completions]
      BY <2>4, <3>1 DEF WedgeOnCompletion
    <3> QED
      BY <1>0, <2>4, <3>2 DEF WedgeOnCompletion
  <2> QED
    BY <2>1, <2>3, <2>4
<1>4. CASE UpdateServers(c)
  <2>1. PICK up \in SUBSET Hosts[c] : healthy' = [healthy EXCEPT ![c] = up]
    BY <1>4 DEF UpdateServers
  <2>2. healthy' \in [Consumers -> SUBSET Servers]
    BY <2>1, Assumptions
  <2> QED
    BY <1>0, <1>4, <2>2, FaultType DEF UpdateServers
<1> QED
  BY <1>1, <1>2, <1>3, <1>4

\* What the broker takes back from a lost channel.
LEMMA TypeReturnUnacked ==
  ASSUME TypeInv, NEW c \in Consumers, ReturnUnacked(c)
  PROVE  /\ modelQueue' \in Bags /\ privateQueue' \in [PrivateOrgs -> Bags]
         /\ completedQueue' \in SUBSET Completions
         /\ callback' \in [Consumers -> [Tags -> Callbacks]]
         /\ wedged' \in [Consumers -> SUBSET Completions]
         /\ CallbacksHoldRequests'
<1> USE DEF TypeInv, TypeOK, BrokerTypeOK, ServerTypeOK
<1>1. \A r \in Requests : HeldFromMain(c, r) \in Nat
  <2> SUFFICES ASSUME NEW r \in Requests PROVE HeldFromMain(c, r) \in Nat
    OBVIOUS
  <2>1. IsFiniteSet({t \in mainTags[c] : callback[c][t].id = r})
    BY Assumptions, FS_Subset
  <2> QED
    BY <2>1, FS_CardinalityType DEF HeldFromMain
<1>2. \A o \in PrivateOrgs, r \in Requests : HeldFromPrivate(c, o, r) \in Nat
  <2> SUFFICES ASSUME NEW o \in PrivateOrgs, NEW r \in Requests
               PROVE  HeldFromPrivate(c, o, r) \in Nat
    OBVIOUS
  <2>1. IsFiniteSet({t \in Hosts[c] : Org[t] = o /\ callback[c][t].id = r})
    BY Assumptions, FS_Subset
  <2> QED
    BY <2>1, FS_CardinalityType DEF HeldFromPrivate
<1>3. modelQueue' \in Bags
  BY <1>1 DEF ReturnUnacked, Bags
<1>4. privateQueue' \in [PrivateOrgs -> Bags]
  BY <1>2 DEF ReturnUnacked, Bags
<1>5. completedQueue' \in SUBSET Completions
  BY DEF ReturnUnacked
<1>6. wedged' \in [Consumers -> SUBSET Completions]
  BY DEF ReturnUnacked
<1>7. Idle \in Callbacks
  BY DEF Idle, Callbacks, Phases
<1>8. callback' \in [Consumers -> [Tags -> Callbacks]]
  BY <1>7 DEF ReturnUnacked
<1>9. CallbacksHoldRequests'
  BY DEF ReturnUnacked, CallbacksHoldRequests, Idle
<1> QED
  BY <1>3, <1>4, <1>5, <1>6, <1>8, <1>9

LEMMA TypeConsumerFaults ==
  ASSUME TypeInv, NEW c \in Consumers, ConnectionLost(c) \/ Crash(c)
  PROVE  BrokerTypeOK' /\ ServerTypeOK' /\ CallbacksHoldRequests'
<1> USE DEF TypeInv, TypeOK, BrokerTypeOK, ServerTypeOK
<1>1. ReturnUnacked(c) /\ faults' \in [FaultKinds -> Nat] /\ callbackQueue' = callbackQueue
  BY FaultType DEF ConnectionLost, Crash
<1>2. CASE ConnectionLost(c)
  BY <1>1, <1>2, TypeReturnUnacked DEF ConnectionLost
<1>3. CASE Crash(c)
  BY <1>1, <1>3, TypeReturnUnacked, EmptyBagType, Assumptions DEF Crash
<1> QED
  BY <1>2, <1>3

LEMMA TypeNext ==
  ASSUME TypeInv, [Next]_vars
  PROVE  TypeInv'
<1>1. ASSUME NEW r \in Requests, ClientStep(r) PROVE TypeInv'
  BY <1>1, TypeClient
<1>2. ASSUME Receive PROVE TypeInv'
  BY <1>2, TypeReceive
<1>3. ASSUME NEW c \in Consumers, ConsumerStep(c) PROVE TypeInv'
  <2>1. BrokerTypeOK' /\ ServerTypeOK' /\ CallbacksHoldRequests'
    BY <1>3, TypeDeliver, TypeProceed, TypeTasks, TypeConsumerFaults DEF ConsumerStep
  <2>2. outlived' \in [Servers -> SUBSET Requests]
    BY <1>3, ExpireType DEF ConsumerStep, TypeInv, TypeOK
  <2> QED
    BY <1>3, <2>1, <2>2, ClientUnchanged DEF ConsumerStep, TypeInv, TypeOK
<1>4. ASSUME BrokerStep PROVE TypeInv'
  <2>1. CASE \E r \in Requests :
               MessageExpires(r) /\ UNCHANGED <<clientVars, serverVars, outlived>>
    <3>1. ServerTypeOK' /\ CallbacksHoldRequests' /\ outlived' \in [Servers -> SUBSET Requests]
      BY <2>1 DEF serverVars, TypeInv, TypeOK, ServerTypeOK, CallbacksHoldRequests
    <3>2. BrokerTypeOK'
      BY <2>1, TakeType, FaultType DEF MessageExpires, TypeInv, TypeOK, BrokerTypeOK
    <3> QED
      BY <2>1, <3>1, <3>2, ClientUnchanged DEF TypeInv, TypeOK
  <2>2. CASE LoseReplies /\ SenderOnly
    <3>1. ServerTypeOK' /\ CallbacksHoldRequests' /\ outlived' \in [Servers -> SUBSET Requests]
      BY <2>2, SenderOnlyType
    <3>2. BrokerTypeOK' /\ UNCHANGED clientVars
      BY <2>2, FaultType DEF LoseReplies, TypeInv, TypeOK, BrokerTypeOK
    <3> QED
      BY <3>1, <3>2, ClientUnchanged DEF TypeInv, TypeOK
  <2> QED
    BY <1>4, <2>1, <2>2 DEF BrokerStep
<1>5. ASSUME UNCHANGED vars PROVE TypeInv'
  BY <1>5 DEF vars, brokerVars, clientVars, serverVars, TypeInv, TypeOK,
     BrokerTypeOK, ClientTypeOK, ServerTypeOK, CallbacksHoldRequests, ServedHaveServers,
     IdleUnanswered, FuturesOwned
<1> QED
  BY <1>1, <1>2, <1>3, <1>4, <1>5 DEF Next, Finished

LEMMA TypeInvariant == Spec => []TypeInv
BY TypeInit, TypeNext, PTL DEF Spec

\* The variables of the dispatcher keep their types.
THEOREM TypesHold == Spec => []TypeOK
BY TypeInvariant, PTL DEF TypeInv

\* Every call that waits for an answer has a future, and a future that is still
\* registered belongs to such a call or to one whose publication raised: an
\* answer always finds the future of the call it is for, and no other.
THEOREM FuturesAreOwned == Spec => []FuturesOwned
BY TypeInvariant, PTL DEF TypeInv

-----------------------------------------------------------------------------
(* Slots and timers. *)

LEMMA SlotsExpireStep ==
  ASSUME TypeInv, EverySlotExpires, NEW c \in Consumers, ConsumerStep(c)
  PROVE  EverySlotExpires'
<1> USE DEF TypeInv, TypeOK, ServerTypeOK, EverySlotExpires
<1>1. CASE \E t \in Tags : FinishCallback(c, t)
  <2>1. PICK t \in Tags : FinishCallback(c, t)
    BY <1>1
  <2> DEFINE r == callback[c][t].id
             s == callback[c][t].server
  <2>2. \/ /\ s \in Servers
           /\ slots' = [slots EXCEPT ![c][s] = slots[c][s] \cup {r}]
           /\ timers' = [timers EXCEPT ![c][s] = timers[c][s] \cup {r}]
        \/ UNCHANGED <<slots, timers>>
    BY <2>1 DEF FinishCallback, CountRequest
  <2> HIDE DEF r, s
  <2>3. CASE UNCHANGED <<slots, timers>>
    BY <2>3
  <2>4. CASE ~UNCHANGED <<slots, timers>>
    <3> SUFFICES ASSUME NEW d \in Consumers, NEW u \in Servers
                 PROVE  slots'[d][u] \subseteq timers'[d][u]
      OBVIOUS
    <3>1. slots \in Counters /\ timers \in Counters
      BY DEF Counters
    <3>2. /\ s \in Servers
          /\ slots' = [slots EXCEPT ![c][s] = slots[c][s] \cup {r}]
          /\ timers' = [timers EXCEPT ![c][s] = timers[c][s] \cup {r}]
      BY <2>2, <2>4
    <3>3. slots'[c][s] = slots[c][s] \cup {r} /\ timers'[c][s] = timers[c][s] \cup {r}
      BY <3>1, <3>2, CounterLookup
    <3>4. d # c \/ u # s => slots'[d][u] = slots[d][u] /\ timers'[d][u] = timers[d][u]
      BY <3>1, <3>2, CounterLookup
    <3>5. CASE d = c /\ u = s
      <4>1. slots[c][s] \subseteq timers[c][s]
        BY <3>2
      <4> QED
        BY <3>3, <3>5, <4>1
    <3>6. CASE d # c \/ u # s
      BY <3>4, <3>6
    <3> QED
      BY <3>5, <3>6
  <2> QED
    BY <2>3, <2>4
<1>2. CASE \E s \in Servers, r \in Requests : Expire(c, s, r)
  BY <1>2 DEF Expire, ExpireRequest
<1>3. CASE Complete(c)
  <2>1. PICK m \in completedQueue : HandleCompletion(c, m) \/ WedgeOnCompletion(c, m)
    BY <1>3 DEF Complete
  <2>2. m.server \in Servers
    BY <2>1 DEF BrokerTypeOK, Completions
  <2>3. timers' = timers
    BY <2>1 DEF HandleCompletion, WedgeOnCompletion
  <2>4. \A d \in Consumers, u \in Servers : slots'[d][u] \subseteq slots[d][u]
    <3>1. CASE WedgeOnCompletion(c, m)
      BY <3>1 DEF WedgeOnCompletion
    <3>2. CASE HandleCompletion(c, m)
      <4>1. slots \in Counters
        BY DEF Counters
      <4>2. slots' = [slots EXCEPT ![c][m.server] = slots[c][m.server] \ {m.id}]
        BY <3>2 DEF HandleCompletion
      <4> QED
        BY <2>2, <4>1, <4>2, CounterLookup
    <3> QED
      BY <2>1, <3>1, <3>2
  <2> QED
    BY <2>3, <2>4
<1>4. CASE Crash(c)
  BY <1>4 DEF Crash
<1>5. CASE UNCHANGED <<slots, timers>>
  BY <1>5
<1>6. \/ \E t \in Tags : FinishCallback(c, t)
      \/ \E s \in Servers, r \in Requests : Expire(c, s, r)
      \/ Complete(c)
      \/ Crash(c)
      \/ UNCHANGED <<slots, timers>>
  BY DEF ConsumerStep, Deliver, DeliverMain, DeliverPrivate, Proceed, PublishReply, DeferAck,
     BrokerAck, PublishReplyFails, Republish, RepublishFails, UpdateServers, ConnectionLost
<1> QED
  BY <1>1, <1>2, <1>3, <1>4, <1>5, <1>6

\* A slot is always one that expires, under every fault and every interleaving.
THEOREM SlotsExpire == Spec => []EverySlotExpires
<1>1. Init => EverySlotExpires
  BY DEF Init, ServerInit, EverySlotExpires
<1>2. TypeInv /\ EverySlotExpires /\ [Next]_vars => EverySlotExpires'
  <2> SUFFICES ASSUME TypeInv, EverySlotExpires, [Next]_vars PROVE EverySlotExpires'
    OBVIOUS
  <2>1. CASE \E c \in Consumers : ConsumerStep(c)
    BY <2>1, SlotsExpireStep
  <2>2. CASE UNCHANGED serverVars
    BY <2>2 DEF serverVars, EverySlotExpires
  <2> QED
    BY <2>1, <2>2 DEF Next, ClientStep, Receive, BrokerStep, SenderOnly, Finished, vars, serverVars
<1> QED
  BY <1>1, <1>2, TypeInvariant, PTL DEF Spec

-----------------------------------------------------------------------------
(* The overshoot of the limit.  What is inductive counts the callbacks that *)
(* are between their check and their addition together with the slots: such *)
(* a callback needs a subscription of its own, and the last one that passed *)
(* the check saw a free slot.                                               *)

Bounded(c, s) ==
  /\ Undecided(c, s) \subseteq Feeders(c, s)
  /\ Cardinality(Counted(c, s)) + Cardinality(Undecided(c, s)) + 1
       <= MaxParallel[s] + Cardinality(Feeders(c, s))

ConsumerInv(c) ==
  /\ FirstTag \in mainTags[c]
  /\ healthy[c] \subseteq Hosts[c]
  /\ \A s \in Hosts[c] : Bounded(c, s)

OvershootInv == \A c \in Consumers : ConsumerInv(c)

\* The sets that are counted are finite.
LEMMA FiniteSets ==
  ASSUME TypeInv, NEW c \in Consumers, NEW s \in Servers
  PROVE  /\ IsFiniteSet(slots[c][s]) /\ IsFiniteSet(Counted(c, s))
         /\ IsFiniteSet(Undecided(c, s)) /\ IsFiniteSet(Feeders(c, s))
         /\ Cardinality(slots[c][s]) \in Nat /\ Cardinality(Counted(c, s)) \in Nat
         /\ Cardinality(Undecided(c, s)) \in Nat /\ Cardinality(Feeders(c, s)) \in Nat
<1> USE DEF TypeInv, TypeOK, ServerTypeOK
<1>1. IsFiniteSet(Tags)
  BY Assumptions, FS_Union DEF Tags
<1>2. slots[c][s] \subseteq Requests /\ Counted(c, s) \subseteq Requests
  BY DEF Counted
<1>3. Undecided(c, s) \subseteq Tags /\ Feeders(c, s) \subseteq Tags
  BY Assumptions DEF Undecided, Feeders, Tags
<1>4. /\ IsFiniteSet(slots[c][s]) /\ IsFiniteSet(Counted(c, s))
      /\ IsFiniteSet(Undecided(c, s)) /\ IsFiniteSet(Feeders(c, s))
  BY <1>1, <1>2, <1>3, FS_Subset, Assumptions
<1> QED
  BY <1>4, FS_CardinalityType

\* A step that adds to neither side of the bound, and removes no subscription,
\* keeps it.
LEMMA BoundShrinks ==
  ASSUME TypeInv, TypeInv', NEW c \in Consumers, NEW s \in Servers, Bounded(c, s),
         Counted(c, s)' \subseteq Counted(c, s),
         Undecided(c, s)' \subseteq Undecided(c, s),
         Feeders(c, s) \subseteq Feeders(c, s)'
  PROVE  Bounded(c, s)'
<1>1. /\ IsFiniteSet(Counted(c, s)) /\ IsFiniteSet(Undecided(c, s))
      /\ IsFiniteSet(Feeders(c, s)')
      /\ Cardinality(Counted(c, s)) \in Nat /\ Cardinality(Undecided(c, s)) \in Nat
      /\ Cardinality(Feeders(c, s)) \in Nat
      /\ Cardinality(Counted(c, s)') \in Nat /\ Cardinality(Undecided(c, s)') \in Nat
      /\ Cardinality(Feeders(c, s)') \in Nat
  <2>1. Feeders(c, s)' \subseteq Tags
    BY Assumptions DEF Feeders, Tags, TypeInv, TypeOK, ServerTypeOK
  <2>2. IsFiniteSet(Tags)
    BY Assumptions, FS_Union DEF Tags
  <2> QED
    BY <2>1, <2>2, FiniteSets, FS_Subset, FS_CardinalityType
<1>2. Cardinality(Counted(c, s)') <= Cardinality(Counted(c, s))
  BY <1>1, FS_Subset
<1>3. Cardinality(Undecided(c, s)') <= Cardinality(Undecided(c, s))
  BY <1>1, FS_Subset
<1>4. Cardinality(Feeders(c, s)) <= Cardinality(Feeders(c, s)')
  BY <1>1, FS_Subset
<1>5. Undecided(c, s)' \subseteq Feeders(c, s)'
  BY DEF Bounded
<1>6. Cardinality(Counted(c, s)) + Cardinality(Undecided(c, s)) + 1
        <= MaxParallel[s] + Cardinality(Feeders(c, s))
  BY DEF Bounded
<1>7. MaxParallel[s] \in Nat
  BY Assumptions
<1> QED
  BY <1>1, <1>2, <1>3, <1>4, <1>5, <1>6, <1>7 DEF Bounded

\* A step that leaves alone what the bound reads of consumer c keeps it.
LEMMA BoundUnchanged ==
  ASSUME NEW c \in Consumers, ConsumerInv(c),
         callback'[c] = callback[c], slots'[c] = slots[c],
         mainTags'[c] = mainTags[c], healthy'[c] = healthy[c]
  PROVE  ConsumerInv(c)'
BY DEF ConsumerInv, Bounded, Undecided, Counted, Feeders

\* The policy is asked for a request it could refuse: there is a free slot, so
\* one more subscription may be between its check and its addition.
LEMMA BoundDecide ==
  ASSUME TypeInv, TypeInv', Policy = ParallelRequests,
         NEW c \in Consumers, NEW t \in Tags, NEW r \in Requests, NEW s \in Hosts[c],
         NEW score, callback[c][t] = Idle, t \in Feeders(c, s), Decide(c, t, r, s, score),
         ConsumerInv(c), UNCHANGED <<slots, mainTags, healthy>>
  PROVE  ConsumerInv(c)'
<1> USE DEF TypeInv, TypeOK, ServerTypeOK
<1> SUFFICES ASSUME NEW u \in Hosts[c] PROVE Bounded(c, u)'
  BY DEF ConsumerInv
<1>1. u \in Servers /\ s \in Servers /\ Bounded(c, u) /\ Bounded(c, s)
  BY Assumptions DEF ConsumerInv
<1>2. Counted(c, u)' = Counted(c, u) /\ Feeders(c, u)' = Feeders(c, u)
  BY DEF Counted, Feeders
<1>3. \A v \in Tags : v # t => callback'[c][v] = callback[c][v]
  BY DEF Decide, SetCallback
<1>4. CASE Undecided(c, u)' \subseteq Undecided(c, u)
  BY <1>1, <1>2, <1>4, BoundShrinks
<1>5. CASE ~ (Undecided(c, u)' \subseteq Undecided(c, u))
  <2>1. /\ callback'[c][t].phase = "publishing" /\ callback'[c][t].id = r
        /\ callback'[c][t].server = u /\ ~Express(r)
    <3>1. \/ callback'[c][t] = [phase |-> "publishing", id |-> r, server |-> s]
          \/ callback'[c][t] = [phase |-> "deferring", id |-> r, server |-> s]
          \/ callback'[c][t] = [phase |-> "stuck", id |-> r, server |-> NoServer]
      BY DEF Decide, SetCallback
    <3>2. t \in Undecided(c, u)'
      BY <1>3, <1>5 DEF Undecided
    <3>3. /\ callback'[c][t].phase \in {"publishing", "replied"}
          /\ callback'[c][t].server = u /\ ~Express(callback'[c][t].id)
      BY <3>2 DEF Undecided
    <3> QED
      BY <3>1, <3>3
  <2>2. u = s /\ PolicyAdmits(c, s, r, score)
    BY <2>1 DEF Decide, SetCallback
  <2>3. ~ (Cardinality(slots[c][u]) >= MaxParallel[u])
    BY <2>1, <2>2 DEF PolicyAdmits, Full, ParallelRequests, PerformanceBased, Policies
  <2>4. Cardinality(Counted(c, u)) <= Cardinality(slots[c][u])
    BY <1>1, FiniteSets, FS_Subset DEF Counted
  <2>5. Undecided(c, u)' \subseteq Feeders(c, u)
    BY <1>1, <1>3, <2>2 DEF Undecided, Bounded
  <2>6. Cardinality(Undecided(c, u)') <= Cardinality(Feeders(c, u))
    BY <1>1, <2>5, FiniteSets, FS_Subset
  <2>7. Cardinality(Undecided(c, u)') \in Nat
    BY <1>1, <2>5, FiniteSets, FS_Subset, FS_CardinalityType
  <2>8. Cardinality(Counted(c, u)) + Cardinality(Undecided(c, u)') + 1
          <= MaxParallel[u] + Cardinality(Feeders(c, u))
    BY <1>1, <2>3, <2>4, <2>6, <2>7, FiniteSets, Assumptions
  <2> QED
    BY <1>2, <2>5, <2>8 DEF Bounded
<1> QED
  BY <1>4, <1>5

\* The callback that adds a request to the slots leaves the undecided ones.
LEMMA BoundFinish ==
  ASSUME TypeInv, TypeInv', NEW c \in Consumers, NEW t \in Tags, FinishCallback(c, t),
         ConsumerInv(c)
  PROVE  ConsumerInv(c)'
<1> USE DEF TypeInv, TypeOK, ServerTypeOK
<1> DEFINE r == callback[c][t].id
           s == callback[c][t].server
<1> SUFFICES ASSUME NEW u \in Hosts[c] PROVE Bounded(c, u)'
  BY DEF ConsumerInv, FinishCallback, CountRequest
<1>1. u \in Servers /\ Bounded(c, u)
  BY Assumptions DEF ConsumerInv
<1>2. callback[c][t].phase = "replied" /\ callback'[c][t].phase = "acking"
  BY DEF FinishCallback, CountRequest, Advance
<1>3. \A v \in Tags : v # t => callback'[c][v] = callback[c][v]
  BY DEF FinishCallback, CountRequest, Advance
<1>4. Undecided(c, u)' \subseteq Undecided(c, u) \ {t}
  BY <1>2, <1>3 DEF Undecided
<1>5. Feeders(c, u)' = Feeders(c, u)
  BY DEF FinishCallback, CountRequest, Feeders
<1>6. slots'[c][u] = slots[c][u] \/ (u = s /\ slots'[c][u] = slots[c][u] \cup {r})
  BY <1>1 DEF FinishCallback, CountRequest
<1> HIDE DEF r
<1>7. CASE Counted(c, u)' \subseteq Counted(c, u)
  BY <1>1, <1>4, <1>5, <1>7, BoundShrinks
<1>8. CASE ~ (Counted(c, u)' \subseteq Counted(c, u))
  <2>1. u = s /\ ~Express(r) /\ Counted(c, u)' \subseteq Counted(c, u) \cup {r}
    BY <1>6, <1>8 DEF Counted
  <2>2. t \in Undecided(c, u)
    BY <1>2, <2>1 DEF Undecided, r
  <2>3. Cardinality(Counted(c, u)') <= Cardinality(Counted(c, u)) + 1
    <3>1. /\ IsFiniteSet(Counted(c, u) \cup {r})
          /\ Cardinality(Counted(c, u) \cup {r}) \in Nat
          /\ Cardinality(Counted(c, u) \cup {r}) <= Cardinality(Counted(c, u)) + 1
      <4>1. IsFiniteSet(Counted(c, u)) /\ Cardinality(Counted(c, u)) \in Nat
        BY <1>1, FiniteSets
      <4>2. /\ IsFiniteSet(Counted(c, u) \cup {r})
            /\ Cardinality(Counted(c, u) \cup {r}) =
                 IF r \in Counted(c, u) THEN Cardinality(Counted(c, u))
                                        ELSE Cardinality(Counted(c, u)) + 1
        BY <4>1, FS_AddElement, Zenon
      <4> QED
        BY <4>1, <4>2
    <3>2. /\ Cardinality(Counted(c, u)') <= Cardinality(Counted(c, u) \cup {r})
          /\ Cardinality(Counted(c, u)') \in Nat
      BY <2>1, <3>1, FS_Subset, FS_CardinalityType
    <3>3. Cardinality(Counted(c, u)) \in Nat
      BY <1>1, FiniteSets
    <3> QED
      BY <3>1, <3>2, <3>3
  <2>4. /\ Cardinality(Undecided(c, u)') + 1 <= Cardinality(Undecided(c, u))
        /\ Cardinality(Undecided(c, u)') \in Nat
    <3>1. /\ IsFiniteSet(Undecided(c, u) \ {t})
          /\ Cardinality(Undecided(c, u) \ {t}) = Cardinality(Undecided(c, u)) - 1
      BY <1>1, <2>2, FiniteSets, FS_RemoveElement
    <3>2. /\ Cardinality(Undecided(c, u)') <= Cardinality(Undecided(c, u) \ {t})
          /\ Cardinality(Undecided(c, u)') \in Nat
      BY <1>4, <3>1, FS_Subset, FS_CardinalityType
    <3> QED
      BY <1>1, <3>1, <3>2, FiniteSets
  <2>5. Cardinality(Counted(c, u)') \in Nat
    <3>1. Counted(c, u)' \subseteq Requests
      BY <1>1 DEF Counted
    <3> QED
      BY <3>1, Assumptions, FS_Subset, FS_CardinalityType
  <2>6. Cardinality(Counted(c, u)') + Cardinality(Undecided(c, u)') + 1
          <= MaxParallel[u] + Cardinality(Feeders(c, u)')
    BY <1>1, <1>5, <2>3, <2>4, <2>5, FiniteSets, Assumptions DEF Bounded
  <2>7. Undecided(c, u)' \subseteq Feeders(c, u)'
    BY <1>1, <1>4, <1>5 DEF Bounded
  <2> QED
    BY <2>6, <2>7 DEF Bounded
<1> QED
  BY <1>7, <1>8

\* The deliveries are where the policy is asked.
LEMMA BoundDeliver ==
  ASSUME TypeInv, TypeInv', Policy = ParallelRequests,
         NEW c \in Consumers, NEW t \in Tags, Deliver(c, t), ConsumerInv(c)
  PROVE  ConsumerInv(c)'
<1>1. PICK r \in Requests : DeliverMain(c, t, r) \/ DeliverPrivate(c, t, r)
  BY DEF Deliver
<1>2. callback[c][t] = Idle /\ UNCHANGED <<slots, mainTags, healthy>>
  BY <1>1 DEF DeliverMain, DeliverPrivate
<1>3. ASSUME NEW s \in Hosts[c], NEW score, t \in Feeders(c, s), Decide(c, t, r, s, score)
      PROVE  ConsumerInv(c)'
  BY <1>2, <1>3, BoundDecide
<1>4. CASE DeliverMain(c, t, r)
  <2>1. CASE \E s \in healthy[c], score \in MainScores : Decide(c, t, r, s, score)
    <3>1. PICK s \in healthy[c], score \in MainScores : Decide(c, t, r, s, score)
      BY <2>1
    <3>2. s \in Hosts[c] /\ t \in Feeders(c, s)
      BY <1>4, <3>1 DEF ConsumerInv, DeliverMain, Feeders
    <3> QED
      BY <1>3, <3>1, <3>2
  <2>2. CASE SetCallback(c, t, [phase |-> "publishing", id |-> r, server |-> NoServer])
    <3> SUFFICES ASSUME NEW u \in Hosts[c] PROVE Bounded(c, u)'
      BY <1>2 DEF ConsumerInv
    <3>1. u \in Servers /\ u # NoServer /\ Bounded(c, u)
      BY Assumptions DEF ConsumerInv
    <3>2. callback'[c][t].server = NoServer
          /\ \A v \in Tags : v # t => callback'[c][v] = callback[c][v]
      BY <2>2 DEF SetCallback, TypeInv, TypeOK, ServerTypeOK
    <3>3. Undecided(c, u)' \subseteq Undecided(c, u)
      BY <3>1, <3>2 DEF Undecided
    <3>4. Counted(c, u)' = Counted(c, u) /\ Feeders(c, u)' = Feeders(c, u)
      BY <1>2 DEF Counted, Feeders
    <3> QED
      BY <3>1, <3>3, <3>4, BoundShrinks
  <2> QED
    BY <1>4, <2>1, <2>2 DEF DeliverMain
<1>5. CASE DeliverPrivate(c, t, r)
  <2>1. PICK s \in {s \in Hosts[c] : Org[s] = Org[t]}, score \in PrivateScores :
          Decide(c, t, r, s, score)
    BY <1>5 DEF DeliverPrivate
  <2>2. s \in Hosts[c] /\ t \in Feeders(c, s)
    BY <1>5, <2>1 DEF DeliverPrivate, Feeders
  <2> QED
    BY <1>3, <2>1, <2>2
<1> QED
  BY <1>1, <1>4, <1>5

\* The other steps of a callback only move it on, out of the undecided ones or
\* inside them.
LEMMA BoundProceed ==
  ASSUME TypeInv, TypeInv', NEW c \in Consumers, NEW t \in Tags,
         \/ PublishReply(c, t) \/ DeferAck(c, t) \/ BrokerAck(c, t)
         \/ PublishReplyFails(c, t),
         ConsumerInv(c)
  PROVE  ConsumerInv(c)'
<1> USE DEF TypeInv, TypeOK, ServerTypeOK
<1>1. UNCHANGED <<slots, mainTags, healthy>>
  BY DEF PublishReply, DeferAck, BrokerAck, PublishReplyFails
<1> SUFFICES ASSUME NEW u \in Hosts[c] PROVE Bounded(c, u)'
  BY <1>1 DEF ConsumerInv
<1>2. u \in Servers /\ Bounded(c, u)
  BY Assumptions DEF ConsumerInv
<1>3. \A v \in Tags : v # t => callback'[c][v] = callback[c][v]
  BY DEF PublishReply, DeferAck, BrokerAck, PublishReplyFails, Advance, SetCallback
<1>4. \/ callback'[c][t].phase \notin {"publishing", "replied"}
      \/ /\ callback[c][t].phase = "publishing"
         /\ callback'[c][t] = [callback[c][t] EXCEPT !.phase = "replied"]
  <2>1. CASE PublishReply(c, t)
    BY <2>1 DEF PublishReply, Advance
  <2>2. CASE DeferAck(c, t) \/ PublishReplyFails(c, t)
    <3>1. PICK phase \in {"acking", "stuck"} :
            callback' = [callback EXCEPT ![c][t] = [callback[c][t] EXCEPT !.phase = phase]]
      BY <2>2 DEF DeferAck, PublishReplyFails, Advance
    <3>2. callback[c][t] \in Callbacks
      OBVIOUS
    <3>3. [callback[c][t] EXCEPT !.phase = phase].phase = phase
      BY <3>2 DEF Callbacks
    <3> QED
      BY <3>1, <3>3
  <2>3. CASE BrokerAck(c, t)
    BY <2>3 DEF BrokerAck, SetCallback, Idle
  <2> QED
    BY <2>1, <2>2, <2>3
<1>5. callback[c][t] \in Callbacks
  OBVIOUS
<1>6. t \in Undecided(c, u)' => t \in Undecided(c, u)
  BY <1>4, <1>5 DEF Undecided, Callbacks
<1>7. Undecided(c, u)' \subseteq Undecided(c, u)
  BY <1>3, <1>6 DEF Undecided
<1>8. Counted(c, u)' = Counted(c, u) /\ Feeders(c, u)' = Feeders(c, u)
  BY <1>1 DEF Counted, Feeders
<1> QED
  BY <1>2, <1>7, <1>8, BoundShrinks

\* The tasks and the completions only remove slots; the pinger only picks among
\* the servers of the consumer.
LEMMA BoundTasks ==
  ASSUME TypeInv, TypeInv', NEW c \in Consumers, ConsumerInv(c),
         \/ \E r \in Requests : Republish(c, r) \/ RepublishFails(c, r)
         \/ \E s \in Servers, r \in Requests : Expire(c, s, r)
         \/ Complete(c)
         \/ UpdateServers(c)
  PROVE  ConsumerInv(c)'
<1> USE DEF TypeInv, TypeOK, ServerTypeOK
<1>1. UNCHANGED <<callback, mainTags>>
  BY DEF Republish, RepublishFails, Expire, ExpireRequest, Complete, HandleCompletion,
     WedgeOnCompletion, UpdateServers
<1>2. healthy'[c] \subseteq Hosts[c]
  BY DEF Republish, RepublishFails, Expire, ExpireRequest, Complete, HandleCompletion,
     WedgeOnCompletion, UpdateServers, ConsumerInv
<1> SUFFICES ASSUME NEW u \in Hosts[c] PROVE Bounded(c, u)'
  BY <1>1, <1>2 DEF ConsumerInv
<1>3. u \in Servers /\ Bounded(c, u)
  BY Assumptions DEF ConsumerInv
<1>4. slots'[c][u] \subseteq slots[c][u]
  <2>1. CASE \E s \in Servers, r \in Requests : Expire(c, s, r)
    BY <1>3, <2>1 DEF Expire, ExpireRequest
  <2>2. CASE Complete(c)
    BY <1>3, <2>2 DEF Complete, HandleCompletion, WedgeOnCompletion
  <2>3. CASE UNCHANGED slots
    BY <2>3
  <2> QED
    BY <2>1, <2>2, <2>3 DEF Republish, RepublishFails, UpdateServers
<1>5. Counted(c, u)' \subseteq Counted(c, u)
  BY <1>4 DEF Counted
<1>6. Undecided(c, u)' = Undecided(c, u) /\ Feeders(c, u)' = Feeders(c, u)
  BY <1>1 DEF Undecided, Feeders
<1> QED
  BY <1>3, <1>5, <1>6, BoundShrinks

\* A lost connection ends every callback and adds a subscription; after a crash
\* there is nothing to count and still a subscription.
LEMMA BoundFaults ==
  ASSUME TypeInv, TypeInv', NEW c \in Consumers, ConsumerInv(c),
         ConnectionLost(c) \/ Crash(c)
  PROVE  ConsumerInv(c)'
<1> USE DEF TypeInv, TypeOK, ServerTypeOK
<1>1. \A t \in Tags : callback'[c][t] = Idle
  BY DEF ConnectionLost, Crash, ReturnUnacked
<1>2. FirstTag \in mainTags'[c] /\ healthy'[c] \subseteq Hosts[c]
  BY DEF ConnectionLost, Crash, ConsumerInv
<1> SUFFICES ASSUME NEW u \in Hosts[c] PROVE Bounded(c, u)'
  BY <1>2 DEF ConsumerInv
<1>3. u \in Servers /\ Bounded(c, u)
  BY Assumptions DEF ConsumerInv
<1>4. Undecided(c, u)' = {}
  BY <1>1 DEF Undecided, Idle
<1>5. CASE ConnectionLost(c)
  <2>1. Counted(c, u)' = Counted(c, u)
    BY <1>5 DEF ConnectionLost, Counted
  <2>2. mainTags[c] \subseteq mainTags'[c]
    BY <1>5 DEF ConnectionLost
  <2>3. Feeders(c, u) \subseteq Feeders(c, u)'
    BY <2>2 DEF Feeders
  <2> QED
    BY <1>3, <1>4, <2>1, <2>3, BoundShrinks
<1>6. CASE Crash(c)
  <2>1. Counted(c, u)' = {}
    BY <1>3, <1>6 DEF Crash, Counted
  <2>2. FirstTag \in Feeders(c, u)'
    BY <1>2 DEF Feeders
  <2>3. IsFiniteSet(Feeders(c, u)')
    <3>1. Feeders(c, u)' \subseteq Tags
      BY Assumptions DEF Feeders, Tags
    <3> QED
      BY <3>1, Assumptions, FS_Union, FS_Subset DEF Tags
  <2>4. Cardinality(Feeders(c, u)') \in Nat /\ Cardinality(Feeders(c, u)') # 0
    BY <2>2, <2>3, FS_CardinalityType, FS_EmptySet
  <2>5. MaxParallel[u] \in Nat /\ Cardinality({}) = 0
    BY <1>3, Assumptions, FS_EmptySet
  <2>6. Cardinality(Counted(c, u)') = 0 /\ Cardinality(Undecided(c, u)') = 0
    BY <1>4, <2>1, <2>5
  <2>7. Undecided(c, u)' \subseteq Feeders(c, u)'
    BY <1>4
  <2>8. Cardinality(Counted(c, u)') + Cardinality(Undecided(c, u)') + 1
          <= MaxParallel[u] + Cardinality(Feeders(c, u)')
    <3> HIDE DEF TypeInv, TypeOK, ServerTypeOK
    <3>1. \A counted, undecided, limit, feeders \in Nat :
            counted = 0 /\ undecided = 0 /\ feeders # 0
              => counted + undecided + 1 <= limit + feeders
      OBVIOUS
    <3> QED
      BY <3>1, <2>4, <2>5, <2>6, Zenon
  <2> QED
    BY <2>7, <2>8 DEF Bounded
<1> QED
  BY <1>5, <1>6

LEMMA OvershootStep ==
  ASSUME TypeInv, TypeInv', Policy = ParallelRequests, OvershootInv,
         NEW c \in Consumers, ConsumerStep(c)
  PROVE  OvershootInv'
<1> SUFFICES ASSUME NEW d \in Consumers PROVE ConsumerInv(d)'
  BY DEF OvershootInv
<1>1. CASE d = c
  BY <1>1, BoundDeliver, BoundFinish, BoundProceed, BoundTasks, BoundFaults
     DEF OvershootInv, ConsumerStep, Proceed
<1>2. CASE d # c
  <2> USE DEF TypeInv, TypeOK, ServerTypeOK
  <2>1. /\ callback'[d] = callback[d] /\ slots'[d] = slots[d]
        /\ mainTags'[d] = mainTags[d] /\ healthy'[d] = healthy[d]
    <3>1. CASE \E t \in Tags : Deliver(c, t) \/ Proceed(c, t) \/ PublishReplyFails(c, t)
      BY <1>2, <3>1 DEF Deliver, DeliverMain, DeliverPrivate, Decide, SetCallback, Advance,
         Proceed, PublishReply, FinishCallback, CountRequest, DeferAck, BrokerAck, PublishReplyFails
    <3>2. CASE \/ \E r \in Requests : Republish(c, r) \/ RepublishFails(c, r)
               \/ \E s \in Servers, r \in Requests : Expire(c, s, r)
      BY <1>2, <3>2 DEF Republish, RepublishFails, Expire, ExpireRequest
    <3>3. CASE Complete(c) \/ UpdateServers(c)
      BY <1>2, <3>3 DEF Complete, HandleCompletion, WedgeOnCompletion, UpdateServers
    <3>4. CASE ConnectionLost(c) \/ Crash(c)
      BY <1>2, <3>4 DEF ConnectionLost, Crash, ReturnUnacked
    <3> QED
      BY <3>1, <3>2, <3>3, <3>4 DEF ConsumerStep
  <2> QED
    BY <2>1, BoundUnchanged DEF OvershootInv
<1> QED
  BY <1>1, <1>2

LEMMA OvershootInit == Init => OvershootInv
<1> SUFFICES ASSUME Init, NEW c \in Consumers PROVE ConsumerInv(c)
  BY DEF OvershootInv
<1>1. FirstTag \in mainTags[c] /\ healthy[c] = Hosts[c]
  BY DEF Init, ServerInit
<1> SUFFICES ASSUME NEW u \in Hosts[c] PROVE Bounded(c, u)
  BY <1>1 DEF ConsumerInv
<1>2. u \in Servers
  BY Assumptions
<1>3. Undecided(c, u) = {} /\ Counted(c, u) = {} /\ FirstTag \in Feeders(c, u)
  BY <1>1, <1>2 DEF Init, ServerInit, Undecided, Counted, Feeders, Idle
<1>4. IsFiniteSet(Feeders(c, u)) /\ Cardinality(Feeders(c, u)) \in Nat
  BY <1>2, TypeInit, FiniteSets
<1>5. Cardinality(Feeders(c, u)) # 0
  BY <1>3, <1>4, FS_EmptySet
<1>6. MaxParallel[u] \in Nat /\ Cardinality({}) = 0
  BY <1>2, Assumptions, FS_EmptySet
<1> QED
  BY <1>3, <1>4, <1>5, <1>6 DEF Bounded

LEMMA OvershootInvImplies ==
  ASSUME TypeInv, OvershootInv, NEW c \in Consumers, NEW s \in Hosts[c]
  PROVE  Cardinality(Counted(c, s)) + 1 <= MaxParallel[s] + Cardinality(Feeders(c, s))
<1>1. s \in Servers /\ MaxParallel[s] \in Nat
  BY Assumptions
<1> QED
  BY <1>1, FiniteSets DEF OvershootInv, ConsumerInv, Bounded

LEMMA OvershootHolds ==
  ASSUME Policy = ParallelRequests
  PROVE  Spec => []OvershootInv
<1>1. TypeInv /\ TypeInv' /\ OvershootInv /\ [Next]_vars => OvershootInv'
  <2> SUFFICES ASSUME TypeInv, TypeInv', OvershootInv, [Next]_vars PROVE OvershootInv'
    OBVIOUS
  <2>1. CASE \E c \in Consumers : ConsumerStep(c)
    BY <2>1, OvershootStep
  <2>2. CASE UNCHANGED serverVars
    BY <2>2, BoundUnchanged DEF serverVars, OvershootInv
  <2> QED
    BY <2>1, <2>2 DEF Next, ClientStep, Receive, BrokerStep, SenderOnly, Finished, vars, serverVars
<1> QED
  BY <1>1, OvershootInit, TypeInvariant, PTL DEF Spec

\* With the parallel requests policy a consumer counts less than one request
\* above the limit for each subscription it has, reconnections, crashes and
\* redeliveries included.
THEOREM OvershootIsBounded == Spec => []OvershootBounded
<1>1. CASE Policy = ParallelRequests
  <2>1. TypeInv /\ OvershootInv => OvershootBounded
    BY OvershootInvImplies DEF OvershootBounded
  <2>2. Spec => []OvershootInv
    BY <1>1, OvershootHolds
  <2> QED
    BY <2>1, <2>2, TypeInvariant, PTL
<1>2. CASE Policy # ParallelRequests
  <2>1. OvershootBounded
    BY <1>2 DEF OvershootBounded
  <2> QED
    BY <2>1, PTL
<1> QED
  BY <1>1, <1>2
=============================================================================
