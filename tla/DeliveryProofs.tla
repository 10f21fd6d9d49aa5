---------------------------- MODULE DeliveryProofs ----------------------------
(***************************************************************************)
(* What becomes of a request and of the count of it, for every value of    *)
(* the constants: which faults can make the dispatcher lose a request, and *)
(* which can make a consumer forget one that a server works on.            *)
(***************************************************************************)
EXTENDS ContractProofs

-----------------------------------------------------------------------------
(* No request is lost.  A request that waits was accepted, so its private   *)
(* queue exists if the setting of the sender names organizations that have  *)
(* one; and what a subscription holds is from a queue it is on, so the      *)
(* broker can give it back.                                                 *)

Accepted == \A r \in Requests : call[r] \in {"publishing", "waiting"} => RoutingAccepted(r)

Subscribed ==
  \A c \in Consumers, t \in Tags :
    callback[c][t].id \in Requests => t \in mainTags[c] \cup Hosts[c]

PlacesInv == Inv /\ Accepted /\ Subscribed

KeptInv == PlacesInv /\ NothingLost

LEMMA KeptTypes ==
  ASSUME PlacesInv
  PROVE  /\ Inv /\ Accepted /\ Subscribed
         /\ answer \in [Requests -> Servers \cup {NoServer, NoAnswer}]
         /\ callbackQueue \in SUBSET Answers
         /\ faults \in [FaultKinds -> Nat]
         /\ FuturesOwned
BY DEF PlacesInv, Inv, TypeInv, TypeOK, ClientTypeOK, BrokerTypeOK

\* A fault of some kind is never forgotten, and a state that was spared it follows
\* one that was.
LEMMA FaultMarks ==
  ASSUME faults \in [FaultKinds -> Nat], NEW kinds, Spared(kinds)',
         faults' = faults \/ \E kind : Fault(kind)
  PROVE  Spared(kinds) /\ \A kind \in kinds : ~Fault(kind)
<1>1. \A kind \in kinds : ~Fault(kind)
  BY DEF Spared, Fault
<1>2. Spared(kinds)
  BY DEF Spared, Fault
<1> QED
  BY <1>1, <1>2

LEMMA FaultsOnly ==
  ASSUME [Next]_vars
  PROVE  faults' = faults \/ \E kind : Fault(kind)
<1>1. ASSUME NEW r \in Requests, ClientStep(r)
      PROVE  faults' = faults \/ \E kind : Fault(kind)
  BY <1>1 DEF ClientStep, Validate, RefuseRouting, RejectOverloaded, StartCall, Timeout,
     PublishRequest, Answered, Forward, Busy, EndService, SendCompletion, ClientFaults,
     PublishRequestFails, FailService, DropCompletion, brokerVars
<1>2. ASSUME NEW c \in Consumers, ConsumerStep(c)
      PROVE  faults' = faults \/ \E kind : Fault(kind)
  BY <1>2 DEF ConsumerStep, Deliver, DeliverMain, DeliverPrivate, Proceed, PublishReply,
     FinishCallback, DeferAck, BrokerAck, PublishReplyFails, Republish, RepublishFails,
     Expire, ExpireRequest, Complete, HandleCompletion, WedgeOnCompletion, UpdateServers,
     ConnectionLost, Crash, brokerVars
<1>3. CASE Receive \/ BrokerStep \/ UNCHANGED vars
  BY <1>3 DEF Receive, OnResponse, BrokerStep, MessageExpires, LoseReplies, vars, brokerVars
<1> QED
  BY <1>1, <1>2, <1>3 DEF Next, Finished

\* Subscription t of c has request r, which it took and did not answer.
Keeps(c, t, r) == Held(c, t, r) \/ Stranded(c, t, r)

\* A request stays in flight when none of its places loses it.
LEMMA StaysInFlight ==
  ASSUME NEW r \in Requests, InFlight(r),
         modelQueue[r] > 0 => modelQueue'[r] > 0,
         \A o \in PrivateOrgs : privateQueue[o][r] > 0 => privateQueue'[o][r] > 0,
         \A c \in Consumers : deferred[c][r] > 0 => deferred'[c][r] > 0,
         \A c \in Consumers, t \in Tags : Keeps(c, t, r) => Keeps(c, t, r)' \/ InFlight(r)',
         \A m \in callbackQueue : m.id = r => m \in callbackQueue'
  PROVE  InFlight(r)'
BY DEF InFlight, Keeps

LEMMA PutOne ==
  ASSUME NEW bag \in Bags, NEW r \in Requests
  PROVE  /\ Put(bag, r)[r] > 0
         /\ \A q \in Requests : bag[q] > 0 => Put(bag, r)[q] > 0
BY DEF Bags, Put

LEMMA KeptInit == Init => Accepted /\ Subscribed /\ NothingLost
BY Assumptions DEF Init, ClientInit, ServerInit, Accepted, Subscribed, NothingLost, Found,
   Unanswered, Idle

LEMMA AcceptedNext ==
  ASSUME PlacesInv, [Next]_vars
  PROVE  Accepted'
<1>1. ASSUME NEW r \in Requests, ClientStep(r) PROVE Accepted'
  <2>1. \A q \in Requests : q # r => call'[q] = call[q]
    BY <1>1, KeptTypes, PlaceTypes DEF ClientStep, Validate, RefuseRouting, RejectOverloaded,
       StartCall, Timeout, PublishRequest, Answered, Forward, Busy, EndService, SendCompletion,
       ClientFaults, PublishRequestFails, FailService, DropCompletion, Goto
  <2>2. call'[r] \in {"publishing", "waiting"} => RoutingAccepted(r)
    BY <1>1, KeptTypes, PlaceTypes DEF ClientStep, Validate, RefuseRouting, RejectOverloaded,
       StartCall, Timeout, PublishRequest, Answered, Forward, Busy, EndService, SendCompletion,
       ClientFaults, PublishRequestFails, FailService, DropCompletion, Goto, Accepted
  <2> QED
    BY <2>1, <2>2, KeptTypes DEF Accepted, RoutingAccepted
<1>2. CASE UNCHANGED call
  BY <1>2, KeptTypes DEF Accepted, RoutingAccepted
<1>3. (\E r \in Requests : ClientStep(r)) \/ UNCHANGED call
  BY DEF Next, Finished, Receive, OnResponse, ConsumerStep, BrokerStep, LoseReplies, vars,
     clientVars
<1> QED
  BY <1>1, <1>2, <1>3

LEMMA SubscribedNext ==
  ASSUME PlacesInv, [Next]_vars
  PROVE  Subscribed'
<1>1. ASSUME NEW c \in Consumers, NEW t \in Tags, Deliver(c, t) PROVE Subscribed'
  <2>1. t \in mainTags[c] \cup Hosts[c] /\ mainTags' = mainTags
    BY <1>1 DEF Deliver, DeliverMain, DeliverPrivate
  <2>2. \A d \in Consumers, u \in Tags : d # c \/ u # t => callback'[d][u] = callback[d][u]
    BY <1>1, KeptTypes, PlaceTypes DEF Deliver, DeliverMain, DeliverPrivate, Decide, SetCallback
  <2> QED
    BY <2>1, <2>2, KeptTypes DEF Subscribed
<1>2. ASSUME NEW c \in Consumers, NEW t \in Tags, Proceed(c, t) \/ PublishReplyFails(c, t)
      PROVE  Subscribed'
  <2>1. mainTags' = mainTags
    BY <1>2 DEF Proceed, PublishReply, FinishCallback, DeferAck, BrokerAck, PublishReplyFails
  <2> QED
    BY <1>2, <2>1, KeptTypes, SameMessage DEF Subscribed
<1>3. ASSUME NEW c \in Consumers, ConnectionLost(c) \/ Crash(c) PROVE Subscribed'
  <2>1. \A d \in Consumers, u \in Tags : callback'[d][u].id \in Requests =>
          d # c /\ callback'[d][u] = callback[d][u]
    BY <1>3, KeptTypes, PlaceTypes, Assumptions DEF ConnectionLost, Crash, ReturnUnacked, Idle
  <2>2. \A d \in Consumers : d # c => mainTags'[d] = mainTags[d]
    BY <1>3, KeptTypes, PlaceTypes DEF ConnectionLost, Crash
  <2> QED
    BY <2>1, <2>2, KeptTypes DEF Subscribed
<1>4. CASE UNCHANGED <<callback, mainTags>>
  BY <1>4, KeptTypes DEF Subscribed
<1>5. \/ \E c \in Consumers :
           \/ \E t \in Tags : Deliver(c, t) \/ Proceed(c, t) \/ PublishReplyFails(c, t)
           \/ ConnectionLost(c) \/ Crash(c)
      \/ UNCHANGED <<callback, mainTags>>
  BY DEF Next, Finished, ClientStep, Receive, SenderOnly, ConsumerStep, BrokerStep, Republish,
     RepublishFails, Expire, ExpireRequest, Complete, HandleCompletion, WedgeOnCompletion,
     UpdateServers, vars, serverVars
<1> QED
  BY <1>1, <1>2, <1>3, <1>4, <1>5

LEMMA LostClient ==
  ASSUME PlacesInv, Found, HostMapping \subseteq PrivateOrgs, NEW r \in Requests, ClientStep(r),
         NEW q \in Requests, Unanswered(q)'
  PROVE  InFlight(q)'
<1>1. UNCHANGED <<deferred, callback, callbackQueue, answer>>
  BY DEF ClientStep, SenderOnly, serverVars, Validate, RefuseRouting, RejectOverloaded, StartCall,
     Timeout,
     PublishRequest, Answered, Forward, Busy, EndService, SendCompletion, ClientFaults,
     PublishRequestFails, FailService, DropCompletion, brokerVars
<1>2. CASE PublishRequest(r)
  <2>1. Enqueue(r) /\ call[r] = "publishing" /\ call' = [call EXCEPT ![r] = "waiting"]
    BY <1>2 DEF PublishRequest, Goto
  <2>2. CASE q = r
    <3>1. Mode[r] = "any" \/ UserOrg[r] \in PrivateOrgs
      BY <2>1, KeptTypes DEF Accepted, RoutingAccepted
    <3>2. \/ modelQueue' = Put(modelQueue, r)
          \/ /\ UserOrg[r] \in PrivateOrgs
             /\ privateQueue' = [privateQueue EXCEPT ![UserOrg[r]] = Put(@, r)]
      BY <2>1, <3>1 DEF Enqueue
    <3>3. modelQueue'[r] > 0 \/ \E o \in PrivateOrgs : privateQueue'[o][r] > 0
      BY <3>2, KeptTypes, PlaceTypes, PutOne
    <3> QED
      BY <2>2, <3>3 DEF InFlight
  <2>3. CASE q # r
    <3>1. modelQueue'[q] = modelQueue[q]
      BY <2>1, <2>3, KeptTypes, PlaceTypes, BagOfOthers DEF Enqueue
    <3>2. \A o \in PrivateOrgs : privateQueue'[o][q] = privateQueue[o][q]
      <4>1. privateQueue \in [PrivateOrgs -> Bags]
        BY KeptTypes, PlaceTypes
      <4>2. \/ privateQueue' = privateQueue
            \/ privateQueue' = [privateQueue EXCEPT ![UserOrg[r]] = Put(@, r)]
        BY <2>1 DEF Enqueue
      <4> QED
        BY <2>3, <4>1, <4>2, BagsOfOthers
    <3>3. Unanswered(q)
      BY <1>1, <2>1, <2>3, KeptTypes, PlaceTypes DEF Unanswered
    <3>4. InFlight(q)
      BY <3>3 DEF Found
    <3>5. \A c \in Consumers, t \in Tags : Keeps(c, t, q) => Keeps(c, t, q)'
      BY <1>1 DEF Keeps, Held, Stranded, Has
    <3> QED
      BY <1>1, <3>1, <3>2, <3>4, <3>5, StaysInFlight
  <2> QED
    BY <2>2, <2>3
<1>3. CASE ~PublishRequest(r)
  <2>1. UNCHANGED <<modelQueue, privateQueue>>
    BY <1>3 DEF ClientStep, Validate, RefuseRouting, RejectOverloaded, StartCall, Timeout,
       Answered, Forward, Busy, EndService, SendCompletion, ClientFaults,
       PublishRequestFails, FailService, DropCompletion, brokerVars
  <2>2. Unanswered(q)
    BY <1>1, <1>3, KeptTypes, PlaceTypes DEF Unanswered, ClientStep, Validate, RefuseRouting,
       RejectOverloaded, StartCall, Timeout, Answered, Forward, Busy, EndService,
       SendCompletion, ClientFaults, PublishRequestFails, FailService, DropCompletion, Goto
  <2> QED
    BY <1>1, <2>1, <2>2, KeptTypes, StaysInFlight DEF Found, Keeps, Held, Stranded, Has
<1> QED
  BY <1>2, <1>3

\* An answer that leaves the queue answers the call that has a future.
LEMMA LostReceive ==
  ASSUME PlacesInv, Found, Receive, NEW q \in Requests, Unanswered(q)'
  PROVE  InFlight(q)'
<1>1. PICK m \in callbackQueue : OnResponse(m)
  BY DEF Receive
<1>2. m.id \in Requests /\ m.server \in Servers \cup {NoServer} /\ m.server # NoAnswer
  BY KeptTypes, Assumptions DEF Answers
<1>3. UNCHANGED <<call, modelQueue, privateQueue, deferred, callback>>
  BY <1>1 DEF Receive, SenderOnly, OnResponse, serverVars
<1>4. m.id # q
  <2> SUFFICES ASSUME m.id = q PROVE FALSE
    OBVIOUS
  <2>1. CASE q \in futures
    BY <1>1, <1>2, <2>1, KeptTypes DEF OnResponse, Unanswered
  <2>2. CASE q \notin futures
    <3>1. answer' = answer
      BY <1>1, <2>2 DEF OnResponse
    <3> QED
      BY <1>3, <2>2, <3>1, KeptTypes DEF Unanswered, FuturesOwned
  <2> QED
    BY <2>1, <2>2
<1>5. Unanswered(q)
  BY <1>1, <1>2, <1>3, <1>4, KeptTypes DEF Unanswered, OnResponse
<1>6. callbackQueue' = callbackQueue \ {m}
  BY <1>1 DEF OnResponse
<1> QED
  BY <1>3, <1>4, <1>5, <1>6, KeptTypes, StaysInFlight DEF Found, Keeps, Held, Stranded, Has

LEMMA LostDeliver ==
  ASSUME PlacesInv, NEW c \in Consumers, NEW t \in Tags, Deliver(c, t),
         NEW q \in Requests, InFlight(q)
  PROVE  InFlight(q)'
<1>1. PICK r \in Requests : DeliverMain(c, t, r) \/ DeliverPrivate(c, t, r)
  BY DEF Deliver
<1>2. UNCHANGED <<deferred, callbackQueue>> /\ callback[c][t] = Idle
  BY <1>1 DEF DeliverMain, DeliverPrivate
<1>3. PICK phase \in {"publishing", "deferring", "stuck"}, s \in Servers \cup {NoServer} :
        SetCallback(c, t, [phase |-> phase, id |-> r, server |-> s])
  BY <1>1, KeptTypes, Delivery
<1>4. /\ callback'[c][t].id = r /\ callback'[c][t].phase = phase
      /\ \A d \in Consumers, u \in Tags : d # c \/ u # t => callback'[d][u] = callback[d][u]
  BY <1>3, KeptTypes, PlaceTypes DEF SetCallback
<1>5. CASE q = r
  <2>1. Keeps(c, t, q)'
    BY <1>3, <1>4, <1>5 DEF Keeps, Held, Stranded, Has
  <2> QED
    BY <2>1 DEF InFlight, Keeps
<1>6. CASE q # r
  <2>1. modelQueue'[q] = modelQueue[q]
    BY <1>1, <1>6, KeptTypes, PlaceTypes, BagOfOthers DEF DeliverMain, DeliverPrivate
  <2>2. \A o \in PrivateOrgs : privateQueue'[o][q] = privateQueue[o][q]
    <3>1. \/ privateQueue' = privateQueue
          \/ privateQueue' = [privateQueue EXCEPT ![Org[t]] = Take(@, r)]
      BY <1>1 DEF DeliverMain, DeliverPrivate
    <3>2. privateQueue \in [PrivateOrgs -> Bags]
      BY KeptTypes, PlaceTypes
    <3> QED
      BY <1>6, <3>1, <3>2, BagsOfOthers
  <2>3. \A d \in Consumers, u \in Tags : Keeps(d, u, q) => Keeps(d, u, q)'
    BY <1>2, <1>4 DEF Keeps, Held, Stranded, Has, Idle
  <2> QED
    BY <1>2, <2>1, <2>2, <2>3, StaysInFlight
<1> QED
  BY <1>5, <1>6

\* A callback answers the request it holds, or puts it to sleep.
LEMMA LostProceed ==
  ASSUME PlacesInv, NEW c \in Consumers, NEW t \in Tags, Proceed(c, t),
         NEW q \in Requests, InFlight(q)
  PROVE  InFlight(q)'
<1>1. UNCHANGED <<modelQueue, privateQueue>>
  BY DEF Proceed, PublishReply, FinishCallback, DeferAck, BrokerAck, brokerVars
<1>2. \A d \in Consumers, u \in Tags : d # c \/ u # t => callback'[d][u] = callback[d][u]
  BY KeptTypes, PlaceTypes DEF Proceed, PublishReply, FinishCallback, DeferAck, BrokerAck,
     SetCallback, Advance
<1>3. callbackQueue \subseteq callbackQueue'
  BY DEF Proceed, PublishReply, FinishCallback, DeferAck, BrokerAck, brokerVars
<1>4. \A d \in Consumers : deferred[d][q] > 0 => deferred'[d][q] > 0
  <2>1. CASE DeferAck(c, t)
    <3>1. callback[c][t].id \in Requests
      BY <2>1, KeptTypes, PlaceTypes DEF DeferAck, CallbacksHoldRequests
    <3>2. deferred' = [deferred EXCEPT ![c] = Put(@, callback[c][t].id)]
      BY <2>1 DEF DeferAck
    <3> QED
      BY <3>1, <3>2, KeptTypes, PlaceTypes, PutOne
  <2>2. CASE ~DeferAck(c, t)
    BY <2>2 DEF Proceed, PublishReply, FinishCallback, BrokerAck
  <2> QED
    BY <2>1, <2>2
<1>5. Keeps(c, t, q) => InFlight(q)'
  <2> SUFFICES ASSUME Keeps(c, t, q) PROVE InFlight(q)'
    OBVIOUS
  <2>0. callback[c][t].id = q /\ callback[c][t].phase # "replied" /\ callback[c][t].phase # "acking"
    BY DEF Keeps, Held, Stranded, Has
  <2>1. CASE PublishReply(c, t)
    <3> DEFINE m == [id |-> callback[c][t].id, server |-> callback[c][t].server]
    <3>1. m \in callbackQueue' /\ m.id = q
      BY <2>0, <2>1 DEF PublishReply
    <3> QED
      BY <3>1 DEF InFlight
  <2>2. CASE DeferAck(c, t)
    <3>1. deferred' = [deferred EXCEPT ![c] = Put(@, q)]
      BY <2>0, <2>2 DEF DeferAck
    <3>2. deferred'[c][q] > 0
      BY <3>1, KeptTypes, PlaceTypes, PutOne
    <3> QED
      BY <3>2 DEF InFlight
  <2> QED
    BY <2>0, <2>1, <2>2 DEF Proceed, FinishCallback, BrokerAck
<1>6. \A d \in Consumers, u \in Tags : Keeps(d, u, q) => Keeps(d, u, q)' \/ InFlight(q)'
  BY <1>2, <1>5 DEF Keeps, Held, Stranded, Has
<1> QED
  BY <1>1, <1>3, <1>4, <1>6, StaysInFlight

\* A requeue publishes what it acknowledged, to a queue that exists.
LEMMA LostRepublish ==
  ASSUME PlacesInv, Found, NEW c \in Consumers, NEW r \in Requests, Republish(c, r), UNCHANGED clientVars,
         HostMapping \subseteq PrivateOrgs, NEW q \in Requests, Unanswered(q)
  PROVE  InFlight(q)'
<1>1. callback' = callback /\ callbackQueue' = callbackQueue
  BY DEF Republish
<1>2. \/ modelQueue' = Put(modelQueue, r) /\ privateQueue' = privateQueue
      \/ /\ privateQueue' = [privateQueue EXCEPT ![UserOrg[r]] = Put(@, r)]
         /\ Mode[r] = "private-only" /\ modelQueue' = modelQueue
  BY DEF Republish
<1>3. CASE q = r
  <2>1. Mode[r] = "private-only" => UserOrg[r] \in PrivateOrgs
    BY <1>3, KeptTypes DEF Accepted, RoutingAccepted, Unanswered
  <2>2. modelQueue'[r] > 0 \/ \E o \in PrivateOrgs : privateQueue'[o][r] > 0
    <3>1. CASE modelQueue' = Put(modelQueue, r)
      BY <3>1, KeptTypes, PlaceTypes, PutOne
    <3>2. CASE privateQueue' = [privateQueue EXCEPT ![UserOrg[r]] = Put(@, r)]
               /\ UserOrg[r] \in PrivateOrgs
      <4>1. privateQueue'[UserOrg[r]] = Put(privateQueue[UserOrg[r]], r)
        BY <3>2, KeptTypes, PlaceTypes
      <4>2. privateQueue[UserOrg[r]] \in Bags
        BY <3>2, KeptTypes, PlaceTypes
      <4> QED
        BY <3>2, <4>1, <4>2, PutOne
    <3> QED
      BY <1>2, <2>1, <3>1, <3>2
  <2> QED
    BY <1>3, <2>2 DEF InFlight
<1>4. CASE q # r
  <2>1. modelQueue'[q] = modelQueue[q]
    BY <1>2, <1>4, KeptTypes, PlaceTypes, BagOfOthers
  <2>2. \A o \in PrivateOrgs : privateQueue'[o][q] = privateQueue[o][q]
    <3>1. privateQueue \in [PrivateOrgs -> Bags]
      BY KeptTypes, PlaceTypes
    <3> QED
      BY <1>2, <1>4, <3>1, BagsOfOthers
  <2>3. \A d \in Consumers : deferred'[d][q] = deferred[d][q]
    <3>1. deferred \in [Consumers -> Bags] /\ deferred' = [deferred EXCEPT ![c] = Take(@, r)]
      BY KeptTypes, PlaceTypes DEF Republish
    <3> QED
      BY <1>4, <3>1, BagsOfOthers
  <2> QED
    BY <1>1, <2>1, <2>2, <2>3, KeptTypes, StaysInFlight DEF Found, Keeps, Held, Stranded, Has
<1> QED
  BY <1>3, <1>4

\* A subscription that holds a message is on the queue the broker gives it back to.
LEMMA HeldComesBack ==
  ASSUME PlacesInv, NEW c \in Consumers, ReturnUnacked(c), NEW q \in Requests
  PROVE  /\ modelQueue'[q] >= modelQueue[q]
         /\ \A o \in PrivateOrgs : privateQueue'[o][q] >= privateQueue[o][q]
         /\ \A t \in Tags : callback[c][t].id = q =>
              modelQueue'[q] > 0 \/ \E o \in PrivateOrgs : privateQueue'[o][q] > 0
<1> DEFINE FromMain == {t \in mainTags[c] : callback[c][t].id = q}
           FromPrivate(o) == {t \in Hosts[c] : Org[t] = o /\ callback[c][t].id = q}
<1>1. IsFiniteSet(FromMain)
  BY KeptTypes, PlaceTypes, Assumptions, FS_Subset
<1>2. \A o \in PrivateOrgs : IsFiniteSet(FromPrivate(o))
  <2> TAKE o \in PrivateOrgs
  <2>1. FromPrivate(o) \subseteq Servers
    BY Assumptions
  <2> QED
    BY <2>1, Assumptions, FS_Subset
<1>3. Cardinality(FromMain) \in Nat /\ (FromMain # {} => Cardinality(FromMain) > 0)
  BY <1>1, FS_CardinalityType, FS_EmptySet
<1>4. \A o \in PrivateOrgs : /\ Cardinality(FromPrivate(o)) \in Nat
                             /\ FromPrivate(o) # {} => Cardinality(FromPrivate(o)) > 0
  BY <1>2, FS_CardinalityType, FS_EmptySet
<1>5. modelQueue[q] \in Nat /\ modelQueue'[q] = modelQueue[q] + Cardinality(FromMain)
  BY KeptTypes, PlaceTypes DEF ReturnUnacked, HeldFromMain, Bags
<1>6. \A o \in PrivateOrgs :
        /\ privateQueue[o][q] \in Nat
        /\ privateQueue'[o][q] = privateQueue[o][q] + Cardinality(FromPrivate(o))
  BY KeptTypes, PlaceTypes DEF ReturnUnacked, HeldFromPrivate, Bags
<1>7. ASSUME NEW t \in Tags, callback[c][t].id = q
      PROVE  FromMain # {} \/ \E o \in PrivateOrgs : FromPrivate(o) # {}
  <2>1. t \in mainTags[c] \/ t \in Hosts[c]
    BY <1>7, KeptTypes DEF Subscribed
  <2>2. t \in Hosts[c] => Org[t] \in PrivateOrgs
    BY Assumptions DEF PrivateOrgs
  <2> QED
    BY <1>7, <2>1, <2>2
<1> HIDE DEF FromMain, FromPrivate
<1> QED
  BY <1>3, <1>4, <1>5, <1>6, <1>7

LEMMA LostConnection ==
  ASSUME PlacesInv, NEW c \in Consumers, ConnectionLost(c), NEW q \in Requests, InFlight(q)
  PROVE  InFlight(q)'
<1>1. ReturnUnacked(c) /\ UNCHANGED <<callbackQueue, deferred>>
  BY DEF ConnectionLost
<1>2. modelQueue[q] \in Nat /\ \A o \in PrivateOrgs : privateQueue[o][q] \in Nat
  BY KeptTypes, PlaceTypes DEF Bags
<1>3. modelQueue'[q] \in Nat /\ \A o \in PrivateOrgs : privateQueue'[o][q] \in Nat
  BY <1>1, KeptTypes, TypeReturnUnacked DEF Inv, Bags
<1>4. \A d \in Consumers, t \in Tags : d # c => callback'[d][t] = callback[d][t]
  BY <1>1, KeptTypes, PlaceTypes DEF ReturnUnacked
<1>5. \A t \in Tags : Keeps(c, t, q) => InFlight(q)'
  BY <1>1, HeldComesBack DEF Keeps, Held, Stranded, Has, InFlight
<1>6. modelQueue[q] > 0 => modelQueue'[q] > 0
  BY <1>1, <1>2, <1>3, HeldComesBack
<1>7. \A o \in PrivateOrgs : privateQueue[o][q] > 0 => privateQueue'[o][q] > 0
  BY <1>1, <1>2, <1>3, HeldComesBack
<1>8. \A d \in Consumers, t \in Tags : Keeps(d, t, q) => Keeps(d, t, q)' \/ InFlight(q)'
  BY <1>4, <1>5 DEF Keeps, Held, Stranded, Has
<1> QED
  BY <1>1, <1>6, <1>7, <1>8, StaysInFlight

LEMMA LostNext ==
  ASSUME KeptInv, [Next]_vars, HostMapping \subseteq PrivateOrgs
  PROVE  NothingLost'
<1> SUFFICES ASSUME Spared(Losses)', NEW q \in Requests, Unanswered(q)' PROVE InFlight(q)'
  BY DEF NothingLost, Found
<1>0. PlacesInv /\ Found /\ \A kind \in Losses : ~Fault(kind)
  <2>1. PlacesInv /\ Spared(Losses) /\ \A kind \in Losses : ~Fault(kind)
    BY KeptTypes, FaultsOnly, FaultMarks DEF KeptInv
  <2> QED
    BY <2>1 DEF KeptInv, NothingLost
<1>1. ASSUME NEW r \in Requests, ClientStep(r) PROVE InFlight(q)'
  BY <1>0, <1>1, LostClient
<1>2. ASSUME Receive PROVE InFlight(q)'
  BY <1>0, <1>2, LostReceive
<1>3. ASSUME NEW c \in Consumers, ConsumerStep(c) PROVE InFlight(q)'
  <2>1. Unanswered(q) /\ InFlight(q) /\ UNCHANGED clientVars
    BY <1>0, <1>3 DEF ConsumerStep, clientVars, Unanswered, Found
  <2>2. CASE \E t \in Tags : Deliver(c, t) \/ Proceed(c, t)
    BY <1>0, <2>1, <2>2, LostDeliver, LostProceed
  <2>3. CASE \E r \in Requests : Republish(c, r)
    BY <1>0, <2>1, <2>3, LostRepublish
  <2>4. CASE ConnectionLost(c)
    BY <1>0, <2>1, <2>4, LostConnection
  <2>5. CASE UNCHANGED <<modelQueue, privateQueue, deferred, callback, callbackQueue>>
    BY <2>1, <2>5, StaysInFlight DEF Keeps, Held, Stranded, Has
  <2>6. /\ ~Crash(c)
        /\ \A t \in Tags : ~PublishReplyFails(c, t)
        /\ \A r \in Requests : ~RepublishFails(c, r)
    BY <1>0 DEF Crash, PublishReplyFails, RepublishFails, Losses
  <2> QED
    BY <1>3, <2>2, <2>3, <2>4, <2>5, <2>6 DEF ConsumerStep, Expire, ExpireRequest, Complete,
       HandleCompletion, WedgeOnCompletion, UpdateServers, brokerVars
<1>4. ASSUME UNCHANGED vars PROVE InFlight(q)'
  <2>1. Unanswered(q) /\ UNCHANGED <<modelQueue, privateQueue, deferred, callback, callbackQueue>>
    BY <1>4 DEF vars, brokerVars, clientVars, serverVars, Unanswered
  <2> QED
    BY <1>0, <2>1, StaysInFlight DEF Found, Keeps, Held, Stranded, Has
<1>5. ~BrokerStep
  BY <1>0 DEF BrokerStep, MessageExpires, LoseReplies, Losses
<1> QED
  BY <1>1, <1>2, <1>3, <1>4, <1>5 DEF Next, Finished

\* Until a process crashes, a publication is refused, a message outlives its time
\* to live or the sender loses its connection, no call waits for a request that is
\* nowhere, however often consumers lose their connections and whichever policy
\* raises: it is the order of acknowledgement and publication in the callbacks and
\* in requeue that does it (rpc_server.py:165, utils.py:33).  A request that an
\* exception left unacknowledged with a subscription is still somewhere.  The
\* mapping names only organizations that have a queue: a message to another one
\* would be returned.
THEOREM NothingIsLost ==
  ASSUME HostMapping \subseteq PrivateOrgs
  PROVE  Spec => []NothingLost
<1>1. Init => KeptInv
  BY KeptInit, TypeInit, WhereaboutsInit DEF KeptInv, PlacesInv, Inv
<1>2. KeptInv /\ [Next]_vars => KeptInv'
  <2> SUFFICES ASSUME KeptInv, [Next]_vars PROVE KeptInv'
    OBVIOUS
  <2>1. PlacesInv /\ Inv'
    BY TypeNext, WhereaboutsNext DEF KeptInv, PlacesInv, Inv
  <2> QED
    BY <2>1, AcceptedNext, SubscribedNext, LostNext DEF KeptInv, PlacesInv
<1>3. KeptInv => NothingLost
  BY DEF KeptInv
<1> QED
  BY <1>1, <1>2, <1>3, PTL DEF Spec

-----------------------------------------------------------------------------
(* No work is forgotten.  A server is granted by the answer on its way or   *)
(* taken; every grant of a call under way is counted by a consumer, or      *)
(* about to be by the callback that made it.  Slots are released by a       *)
(* completion, which comes when the call is done, and by the expiry, which  *)
(* may come before: then the request has outlived its slot.                 *)

Granted(r, s) == answer[r] = s \/ \E m \in callbackQueue : m.id = r /\ m.server = s

Replied(r, s) == [phase |-> "replied", id |-> r, server |-> s]

Accounted(r, s) ==
  \E c \in Consumers : r \in slots[c][s] \/ \E t \in Tags : callback[c][t] = Replied(r, s)

UnderWay == {"waiting", "forwarded"}

GrantsAccounted ==
  \A r \in Requests, s \in Servers :
    call[r] \in UnderWay /\ r \notin outlived[s] /\ Granted(r, s) => Accounted(r, s)

\* What a step of the sender leaves outlived.
LEMMA OutlivedBySender ==
  ASSUME SenderOnly, NEW r \in Requests, call'[r] \in UnderWay, NEW s \in Servers,
         r \notin outlived'[s]
  PROVE  r \notin outlived[s]
BY DEF SenderOnly, ToServe, UnderWay

CompletedDone == \A m \in completedQueue : call[m.id] = "done"

UnsentUnanswered == \A r \in Requests : call[r] \in Unsent => answer[r] = NoAnswer

CountInv == Inv /\ GrantsAccounted /\ CompletedDone /\ UnsentUnanswered

LEMMA CountTypes ==
  ASSUME CountInv
  PROVE  /\ Inv /\ GrantsAccounted /\ CompletedDone /\ UnsentUnanswered
         /\ answer \in [Requests -> Servers \cup {NoServer, NoAnswer}]
         /\ callbackQueue \in SUBSET Answers
         /\ completedQueue \in SUBSET Completions
         /\ slots \in Counters
         /\ outlived \in [Servers -> SUBSET Requests]
BY DEF CountInv, Inv, TypeInv, TypeOK, ClientTypeOK, BrokerTypeOK, ServerTypeOK, Counters

LEMMA StaysAccounted ==
  ASSUME NEW r \in Requests, NEW s \in Servers, Accounted(r, s),
         \A c \in Consumers : r \in slots[c][s] => r \in slots'[c][s],
         \A c \in Consumers, t \in Tags : callback[c][t] = Replied(r, s) =>
           callback'[c][t] = Replied(r, s) \/ Accounted(r, s)'
  PROVE  Accounted(r, s)'
BY DEF Accounted, Replied

LEMMA CountInit == Init => GrantsAccounted /\ CompletedDone /\ UnsentUnanswered
BY DEF Init, BrokerInit, ClientInit, GrantsAccounted, CompletedDone, UnsentUnanswered, UnderWay

LEMMA CountClient ==
  ASSUME CountInv, NEW r \in Requests, ClientStep(r)
  PROVE  GrantsAccounted' /\ CompletedDone' /\ UnsentUnanswered'
<1>1. UNCHANGED <<slots, callback, callbackQueue, answer>>
  BY DEF ClientStep, SenderOnly, serverVars, Validate, RefuseRouting, RejectOverloaded, StartCall,
     Timeout,
     PublishRequest, Answered, Forward, Busy, EndService, SendCompletion, ClientFaults,
     PublishRequestFails, FailService, DropCompletion, brokerVars
<1>2. \A q \in Requests : q # r => call'[q] = call[q]
  BY CountTypes, PlaceTypes DEF ClientStep, Validate, RefuseRouting, RejectOverloaded,
     StartCall, Timeout, PublishRequest, Answered, Forward, Busy, EndService, SendCompletion,
     ClientFaults, PublishRequestFails, FailService, DropCompletion, Goto
<1>3. /\ call'[r] \in Unsent => call[r] \in Unsent
      /\ call'[r] \in UnderWay => call[r] \in UnderWay \cup {"publishing"}
      /\ call[r] # "done"
  BY CountTypes, PlaceTypes DEF ClientStep, Validate, RefuseRouting, RejectOverloaded,
     StartCall, Timeout, PublishRequest, Answered, Forward, Busy, EndService, SendCompletion,
     ClientFaults, PublishRequestFails, FailService, DropCompletion, Goto, Unsent, UnderWay
<1>4. GrantsAccounted'
  <2> SUFFICES ASSUME NEW q \in Requests, NEW s \in Servers, call'[q] \in UnderWay,
                      q \notin outlived'[s], Granted(q, s)'
               PROVE  Accounted(q, s)'
    BY DEF GrantsAccounted
  <2>1. Granted(q, s)
    BY <1>1 DEF Granted
  <2>2. call[q] \notin Unsent
    BY <2>1, CountTypes, PlaceTypes, Assumptions DEF Granted, UnsentUnanswered, Placed, Nowhere
  <2>3. call[q] \in UnderWay
    BY <1>2, <1>3, <2>2 DEF Unsent
  <2>4. q \notin outlived[s]
    BY OutlivedBySender DEF ClientStep
  <2> QED
    BY <1>1, <2>1, <2>3, <2>4, CountTypes DEF GrantsAccounted, Accounted
<1>5. CompletedDone'
  <2> SUFFICES ASSUME NEW m \in completedQueue' PROVE call'[m.id] = "done"
    BY DEF CompletedDone
  <2>1. CASE m \in completedQueue
    <3>1. m.id \in Requests /\ call[m.id] = "done"
      BY <2>1, CountTypes DEF CompletedDone, Completions
    <3> QED
      BY <1>2, <1>3, <3>1
  <2>2. CASE m \notin completedQueue
    <3>1. SendCompletion(r) /\ m = [id |-> r, server |-> answer[r]]
      BY <2>2 DEF ClientStep, Validate, RefuseRouting, RejectOverloaded, StartCall, Timeout,
         PublishRequest, Answered, Forward, Busy, EndService, SendCompletion, ClientFaults,
         PublishRequestFails, FailService, DropCompletion, brokerVars
    <3> QED
      BY <3>1, CountTypes, PlaceTypes DEF SendCompletion, Goto
  <2> QED
    BY <2>1, <2>2
<1>6. UnsentUnanswered'
  BY <1>1, <1>2, <1>3, CountTypes DEF UnsentUnanswered
<1> QED
  BY <1>4, <1>5, <1>6

LEMMA CountReceive ==
  ASSUME CountInv, Receive
  PROVE  GrantsAccounted' /\ CompletedDone' /\ UnsentUnanswered'
<1>1. PICK m \in callbackQueue : OnResponse(m)
  BY DEF Receive
<1>2. m.id \in Requests /\ callbackQueue' = callbackQueue \ {m}
  BY <1>1, CountTypes DEF Answers, OnResponse
<1>3. UNCHANGED <<call, slots, callback, completedQueue>>
  BY <1>1 DEF Receive, SenderOnly, OnResponse, serverVars
<1>4. \A r \in Requests : answer'[r] = answer[r] \/ (r = m.id /\ answer'[r] = m.server)
  BY <1>1, <1>2, CountTypes DEF OnResponse
<1>5. \A r \in Requests, s \in Servers : Granted(r, s)' => Granted(r, s)
  BY <1>1, <1>2, <1>4 DEF Granted
<1>6. call[m.id] \notin Unsent
  BY <1>2, CountTypes, PlaceTypes DEF Placed, Nowhere
<1>7. GrantsAccounted'
  BY <1>3, <1>5, CountTypes, OutlivedBySender DEF Receive, GrantsAccounted, Accounted
<1>8. CompletedDone' /\ UnsentUnanswered'
  BY <1>3, <1>4, <1>6, CountTypes DEF CompletedDone, UnsentUnanswered
<1> QED
  BY <1>7, <1>8

\* The callbacks: an answer is accounted by the callback that publishes it,
\* until it counts the request.
LEMMA CountProceed ==
  ASSUME CountInv, NEW c \in Consumers, NEW t \in Tags, Deliver(c, t) \/ Proceed(c, t),
         UNCHANGED <<clientVars, outlived>>
  PROVE  GrantsAccounted'
<1>1. UNCHANGED <<call, answer>>
  BY DEF clientVars
<1>2. \A d \in Consumers, u \in Tags : d # c \/ u # t => callback'[d][u] = callback[d][u]
  BY CountTypes, PlaceTypes DEF Deliver, DeliverMain, DeliverPrivate, Decide, Proceed,
     PublishReply, FinishCallback, DeferAck, BrokerAck, SetCallback, Advance
<1>3. callback[c][t] \in Callbacks
  BY CountTypes, PlaceTypes
<1> SUFFICES ASSUME NEW r \in Requests, NEW s \in Servers, call[r] \in UnderWay,
                    r \notin outlived[s], Granted(r, s)'
             PROVE  Accounted(r, s)'
  BY <1>1 DEF GrantsAccounted
<1>4. CASE PublishReply(c, t)
  <2>1. slots' = slots /\ callback[c][t].phase = "publishing"
    BY <1>4 DEF PublishReply
  <2>2. CASE r = callback[c][t].id /\ s = callback[c][t].server
    <3>1. callback'[c][t] = [callback[c][t] EXCEPT !.phase = "replied"]
      BY <1>4, CountTypes, PlaceTypes DEF PublishReply, Advance
    <3>2. [callback[c][t] EXCEPT !.phase = "replied"] = Replied(r, s)
      BY <1>3, <2>2 DEF Callbacks, Replied
    <3> QED
      BY <3>1, <3>2 DEF Accounted, Replied
  <2>3. CASE ~(r = callback[c][t].id /\ s = callback[c][t].server)
    <3>1. Granted(r, s)
      BY <1>1, <1>4, <2>3 DEF Granted, PublishReply
    <3>2. Accounted(r, s)
      BY <3>1, CountTypes DEF GrantsAccounted
    <3>3. callback[c][t] # Replied(r, s)
      BY <2>1 DEF Replied
    <3> QED
      BY <1>2, <2>1, <3>2, <3>3, StaysAccounted
  <2> QED
    BY <2>2, <2>3
<1>5. CASE ~PublishReply(c, t)
  <2>1. callbackQueue' = callbackQueue
    BY <1>5 DEF Deliver, DeliverMain, DeliverPrivate, Proceed, FinishCallback, DeferAck,
       BrokerAck, brokerVars
  <2>2. Accounted(r, s)
    BY <1>1, <2>1, CountTypes DEF Granted, GrantsAccounted
  <2>3. CASE FinishCallback(c, t)
    <3> DEFINE q == callback[c][t].id
               u == callback[c][t].server
    <3>1. \/ /\ u \in Servers
             /\ slots' = [slots EXCEPT ![c][u] = slots[c][u] \cup {q}]
          \/ u \notin Servers /\ slots' = slots
      BY <2>3 DEF FinishCallback, CountRequest
    <3>2. callback[c][t] = Replied(r, s) => q = r /\ u = s
      BY DEF Replied
    <3> HIDE DEF q, u
    <3>3. u \in Servers => /\ slots'[c][u] = slots[c][u] \cup {q}
                           /\ \A d \in Consumers : d # c \/ s # u =>
                                slots'[d][s] = slots[d][s]
      <4> SUFFICES ASSUME u \in Servers
                   PROVE  /\ slots'[c][u] = slots[c][u] \cup {q}
                          /\ \A d \in Consumers : d # c \/ s # u => slots'[d][s] = slots[d][s]
        OBVIOUS
      <4>1. slots \in Counters /\ slots' = [slots EXCEPT ![c][u] = slots[c][u] \cup {q}]
        BY <3>1, CountTypes
      <4> QED
        BY <4>1, CounterLookup
    <3>4. \A d \in Consumers : r \in slots[d][s] => r \in slots'[d][s]
      BY <3>1, <3>3
    <3>5. callback[c][t] = Replied(r, s) => Accounted(r, s)'
      BY <3>2, <3>3 DEF Accounted
    <3>6. \A d \in Consumers, v \in Tags : callback[d][v] = Replied(r, s) =>
            callback'[d][v] = Replied(r, s) \/ Accounted(r, s)'
      BY <1>2, <3>5
    <3> QED
      BY <2>2, <3>4, <3>6, StaysAccounted
  <2>4. CASE ~FinishCallback(c, t)
    <3>1. slots' = slots /\ callback[c][t].phase # "replied"
      <4>1. CASE \E q \in Requests : DeliverMain(c, t, q) \/ DeliverPrivate(c, t, q)
        <5>1. slots' = slots /\ callback[c][t] = Idle
          BY <4>1 DEF DeliverMain, DeliverPrivate
        <5> QED
          BY <5>1 DEF Idle
      <4>2. CASE DeferAck(c, t) \/ BrokerAck(c, t)
        BY <4>2 DEF DeferAck, BrokerAck
      <4> QED
        BY <1>5, <2>4, <4>1, <4>2 DEF Deliver, Proceed
    <3>2. callback[c][t] # Replied(r, s)
      BY <3>1 DEF Replied
    <3> QED
      BY <1>2, <2>2, <3>1, <3>2, StaysAccounted
  <2> QED
    BY <2>3, <2>4
<1> QED
  BY <1>4, <1>5

\* The slots released are those of calls that are not under way, or outlived.
LEMMA CountRelease ==
  ASSUME CountInv, NEW c \in Consumers, UNCHANGED clientVars,
         \/ \E s \in Servers, r \in Requests : Expire(c, s, r)
         \/ Complete(c) /\ UNCHANGED outlived
  PROVE  GrantsAccounted'
<1>1. UNCHANGED <<call, answer, callbackQueue, callback>>
  BY DEF clientVars, brokerVars, Expire, ExpireRequest, Complete, HandleCompletion,
     WedgeOnCompletion
<1> SUFFICES ASSUME NEW r \in Requests, NEW s \in Servers, call[r] \in UnderWay,
                    r \notin outlived'[s], Granted(r, s)'
             PROVE  Accounted(r, s)'
  BY <1>1 DEF GrantsAccounted
<1>2. r \notin outlived[s]
  BY CountTypes DEF Expire
<1>3. Accounted(r, s)
  BY <1>1, <1>2, CountTypes DEF Granted, GrantsAccounted
<1>4. \A d \in Consumers : r \in slots[d][s] => r \in slots'[d][s]
  <2>1. ASSUME NEW u \in Servers, NEW q \in Requests, q # r \/ u # s,
               slots' = [slots EXCEPT ![c][u] = slots[c][u] \ {q}]
        PROVE  \A d \in Consumers : r \in slots[d][s] => r \in slots'[d][s]
    BY <2>1, CountTypes, CounterLookup
  <2>2. CASE \E u \in Servers, q \in Requests : Expire(c, u, q)
    <3>1. PICK u \in Servers, q \in Requests : Expire(c, u, q)
      BY <2>2
    <3>2. slots' = [slots EXCEPT ![c][u] = slots[c][u] \ {q}]
      BY <3>1 DEF Expire, ExpireRequest
    <3>3. q # r \/ u # s
      BY <3>1, CountTypes DEF Expire, UnderWay, ToServe
    <3> QED
      BY <2>1, <3>2, <3>3
  <2>3. CASE Complete(c)
    <3>1. PICK m \in completedQueue : HandleCompletion(c, m) \/ WedgeOnCompletion(c, m)
      BY <2>3 DEF Complete
    <3>2. m.id \in Requests /\ m.server \in Servers /\ m.id # r
      BY <3>1, CountTypes DEF Completions, CompletedDone, UnderWay
    <3>3. CASE HandleCompletion(c, m)
      <4>1. slots' = [slots EXCEPT ![c][m.server] = slots[c][m.server] \ {m.id}]
        BY <3>3 DEF HandleCompletion
      <4> QED
        BY <2>1, <3>2, <4>1
    <3>4. CASE WedgeOnCompletion(c, m)
      BY <3>4 DEF WedgeOnCompletion
    <3> QED
      BY <3>1, <3>3, <3>4
  <2> QED
    BY <2>2, <2>3
<1> QED
  BY <1>1, <1>3, <1>4, StaysAccounted

LEMMA CountNext ==
  ASSUME CountInv, [Next]_vars,
         FaultKinds \cap {"crash", "reconnect", "publish"} = {}
  PROVE  GrantsAccounted' /\ CompletedDone' /\ UnsentUnanswered'
<1>1. ASSUME NEW r \in Requests, ClientStep(r)
      PROVE  GrantsAccounted' /\ CompletedDone' /\ UnsentUnanswered'
  BY <1>1, CountClient
<1>2. ASSUME Receive PROVE GrantsAccounted' /\ CompletedDone' /\ UnsentUnanswered'
  BY <1>2, CountReceive
<1>3. ASSUME UNCHANGED <<call, answer, slots, callback>>, callbackQueue' \subseteq callbackQueue,
             UNCHANGED outlived \/ SenderOnly
      PROVE  GrantsAccounted'
  BY <1>3, CountTypes, OutlivedBySender DEF GrantsAccounted, Granted, Accounted
<1>4. ASSUME UNCHANGED <<call, answer>>, completedQueue' \subseteq completedQueue
      PROVE  CompletedDone' /\ UnsentUnanswered'
  BY <1>4, CountTypes DEF CompletedDone, UnsentUnanswered
<1>5. ASSUME NEW c \in Consumers, ConsumerStep(c)
      PROVE  GrantsAccounted' /\ CompletedDone' /\ UnsentUnanswered'
  <2>1. UNCHANGED clientVars /\ UNCHANGED <<call, answer>>
    BY <1>5 DEF ConsumerStep, clientVars
  <2>2. ~ConnectionLost(c) /\ ~Crash(c)
    BY DEF ConnectionLost, Crash, Fault
  <2>3. completedQueue' \subseteq completedQueue
    BY <1>5, <2>2 DEF ConsumerStep, Deliver, DeliverMain, DeliverPrivate, Proceed, PublishReply,
       FinishCallback, DeferAck, BrokerAck, PublishReplyFails, Republish, RepublishFails,
       Expire, ExpireRequest, Complete, HandleCompletion, WedgeOnCompletion, UpdateServers,
       brokerVars
  <2>4. GrantsAccounted'
    <3>1. CASE (\E t \in Tags : Deliver(c, t) \/ Proceed(c, t)) /\ UNCHANGED outlived
      BY <2>1, <3>1, CountProceed
    <3>2. CASE \/ \E s \in Servers, r \in Requests : Expire(c, s, r)
               \/ Complete(c) /\ UNCHANGED outlived
      BY <2>1, <3>2, CountRelease
    <3>3. CASE UNCHANGED <<slots, callback, callbackQueue, outlived>>
      BY <1>3, <2>1, <3>3
    <3> QED
      BY <1>5, <2>2, <3>1, <3>2, <3>3 DEF ConsumerStep, PublishReplyFails, Republish,
         RepublishFails, Fault, UpdateServers
  <2> QED
    BY <1>4, <2>1, <2>3, <2>4
<1>6. ASSUME BrokerStep \/ UNCHANGED vars
      PROVE  GrantsAccounted' /\ CompletedDone' /\ UnsentUnanswered'
  <2>1. /\ UNCHANGED <<call, answer, slots, callback, completedQueue>>
        /\ callbackQueue' \subseteq callbackQueue
        /\ UNCHANGED outlived \/ SenderOnly
    BY <1>6 DEF BrokerStep, MessageExpires, LoseReplies, SenderOnly, vars, brokerVars,
       clientVars, serverVars
  <2> QED
    BY <1>3, <1>4, <2>1
<1> QED
  BY <1>1, <1>2, <1>5, <1>6 DEF Next, Finished

LEMMA CountHolds ==
  ASSUME FaultKinds \cap {"crash", "reconnect", "publish"} = {}
  PROVE  Spec => []CountInv
<1>1. Init => CountInv
  BY CountInit, TypeInit, WhereaboutsInit DEF CountInv, Inv
<1>2. CountInv /\ [Next]_vars => CountInv'
  <2> SUFFICES ASSUME CountInv, [Next]_vars PROVE CountInv'
    OBVIOUS
  <2>1. Inv'
    BY TypeNext, WhereaboutsNext DEF CountInv, Inv
  <2> QED
    BY <2>1, CountNext DEF CountInv
<1> QED
  BY <1>1, <1>2, PTL DEF Spec

LEMMA RunningAccounted ==
  ASSUME CountInv, NEW s \in Servers, NEW r \in Running(s) \ outlived[s]
  PROVE  r \in Requests /\ Accounted(r, s)
<1>1. r \in Requests /\ call[r] = "forwarded" /\ answer[r] = s /\ r \notin outlived[s]
  BY DEF Running
<1> QED
  BY <1>1, CountTypes DEF GrantsAccounted, Granted, UnderWay

\* Without a crash, a lost connection or a refused publication of a consumer, a
\* request a server works on is counted by a consumer or about to be by the
\* callback that granted it until its slot expires, even when messages expire and
\* the sender loses answers: nothing but the expiry makes the count on which the
\* limit relies miss a running request (rpc_server.py:177,204,313).
THEOREM ServicesAreCounted ==
  ASSUME FaultKinds \cap {"crash", "reconnect", "publish"} = {}
  PROVE  Spec => []ServiceIsCounted
<1>1. CountInv => ServiceIsCounted
  BY RunningAccounted DEF ServiceIsCounted, Accounted, Replied
<1> QED
  BY <1>1, CountHolds, PTL
=============================================================================
