---------------------------- MODULE ContractProofs ----------------------------
(***************************************************************************)
(* The dispatcher implements RequestContract, for every value of the       *)
(* constants and under every fault: its initial states are initial states  *)
(* of the contract, and each of its steps is a step of the contract, or a  *)
(* stutter.                                                                *)
(*                                                                         *)
(* Two facts are needed besides the types and the futures.  A request that *)
(* was not submitted is nowhere, so no consumer answers it; and a          *)
(* private-only request is only ever in the queue of its organization and  *)
(* in the callbacks that consume this queue, with a server of it once one  *)
(* is chosen.                                                              *)
(***************************************************************************)
EXTENDS DispatcherProofs

\* The calls whose message has not reached the broker.
Unsent == {"idle", "publishing"}

\* The phases of a callback that has chosen what to answer and may do it.
Answering == {"publishing", "replied"}

Nowhere(r) ==
  /\ modelQueue[r] = 0
  /\ \A o \in PrivateOrgs : privateQueue[o][r] = 0
  /\ \A c \in Consumers : deferred[c][r] = 0
  /\ \A c \in Consumers, t \in Tags : callback[c][t].id # r
  /\ \A m \in callbackQueue : m.id # r

Confined(r) ==
  /\ modelQueue[r] = 0
  /\ \A o \in PrivateOrgs : o # UserOrg[r] => privateQueue[o][r] = 0
  /\ \A c \in Consumers, t \in Tags : callback[c][t].id = r =>
       /\ t \in Servers /\ Org[t] = UserOrg[r]
       /\ callback[c][t].phase \in Answering =>
            callback[c][t].server \in Servers /\ Org[callback[c][t].server] = UserOrg[r]

Placed(r) ==
  /\ call[r] \in Unsent => Nowhere(r)
  /\ Mode[r] = "private-only" => Confined(r)

Whereabouts == \A r \in Requests : Placed(r)

Inv == TypeInv /\ Whereabouts

LEMMA WhereaboutsInit == Init => Whereabouts
BY Assumptions DEF Init, BrokerInit, ServerInit, EmptyBag, Idle, Whereabouts, Placed, Nowhere,
   Confined

\* What most steps do to a request: it gets to no new place.
NoNewPlace(r) ==
  /\ call'[r] \in Unsent => call[r] \in Unsent
  /\ modelQueue[r] = 0 => modelQueue'[r] = 0
  /\ \A o \in PrivateOrgs : privateQueue[o][r] = 0 => privateQueue'[o][r] = 0
  /\ \A c \in Consumers : deferred[c][r] = 0 => deferred'[c][r] = 0
  /\ \A c \in Consumers, t \in Tags : callback'[c][t].id = r =>
       /\ callback[c][t].id = r
       /\ callback'[c][t].phase \in Answering =>
            callback[c][t].phase \in Answering /\ callback'[c][t].server = callback[c][t].server
  /\ \A m \in callbackQueue' : m.id = r => m \in callbackQueue

LEMMA StaysPlaced ==
  ASSUME NEW r \in Requests, Placed(r), NoNewPlace(r)
  PROVE  Placed(r)'
<1>1. Nowhere(r) => Nowhere(r)'
  BY DEF Nowhere, NoNewPlace
<1>2. Confined(r) => Confined(r)'
  BY DEF Confined, NoNewPlace
<1>3. call'[r] \in Unsent => call[r] \in Unsent
  BY DEF NoNewPlace
<1> QED
  BY <1>1, <1>2, <1>3 DEF Placed

\* The types the steps below need.
LEMMA PlaceTypes ==
  ASSUME Inv
  PROVE  /\ modelQueue \in Bags
         /\ privateQueue \in [PrivateOrgs -> Bags]
         /\ deferred \in [Consumers -> Bags]
         /\ callback \in [Consumers -> [Tags -> Callbacks]]
         /\ mainTags \in [Consumers -> SUBSET MainTags]
         /\ healthy \in [Consumers -> SUBSET Servers]
         /\ call \in [Requests -> Active \cup Final]
         /\ CallbacksHoldRequests
         /\ \A r \in Requests : Placed(r)
BY DEF Inv, TypeInv, TypeOK, BrokerTypeOK, ClientTypeOK, ServerTypeOK, Whereabouts

\* A message put in a bag, or taken from it, is one of its own request.
LEMMA BagOfOthers ==
  ASSUME NEW bag \in Bags, NEW r \in Requests, NEW q \in Requests, q # r
  PROVE  Put(bag, r)[q] = bag[q] /\ Take(bag, r)[q] = bag[q]
BY DEF Bags, Put, Take

LEMMA BagsOfOthers ==
  ASSUME NEW Keys, NEW f \in [Keys -> Bags], NEW o, NEW p \in Keys,
         NEW r \in Requests, NEW q \in Requests
  PROVE  /\ q # r => [f EXCEPT ![o] = Put(@, r)][p][q] = f[p][q]
         /\ q # r => [f EXCEPT ![o] = Take(@, r)][p][q] = f[p][q]
         /\ p # o => [f EXCEPT ![o] = Put(@, r)][p] = f[p]
         /\ p # o => [f EXCEPT ![o] = Take(@, r)][p] = f[p]
<1>1. p # o => /\ [f EXCEPT ![o] = Put(@, r)][p] = f[p]
               /\ [f EXCEPT ![o] = Take(@, r)][p] = f[p]
  OBVIOUS
<1>2. p = o => /\ [f EXCEPT ![o] = Put(@, r)][p] = Put(f[p], r)
               /\ [f EXCEPT ![o] = Take(@, r)][p] = Take(f[p], r)
  OBVIOUS
<1>3. q # r => Put(f[p], r)[q] = f[p][q] /\ Take(f[p], r)[q] = f[p][q]
  BY BagOfOthers
<1> QED
  BY <1>1, <1>2, <1>3

-----------------------------------------------------------------------------
(* The steps of the sender. *)

LEMMA WhereaboutsClient ==
  ASSUME Inv, NEW r \in Requests, ClientStep(r)
  PROVE  Whereabouts'
<1>1. UNCHANGED <<deferred, callback, callbackQueue>>
  BY DEF ClientStep, SenderOnly, serverVars, Validate, RefuseRouting, RejectOverloaded, StartCall,
     Timeout,
     PublishRequest, Answered, Forward, Busy, EndService, SendCompletion, ClientFaults,
     PublishRequestFails, FailService, DropCompletion, brokerVars
<1> SUFFICES ASSUME NEW q \in Requests PROVE Placed(q)'
  BY DEF Whereabouts
<1>2. CASE PublishRequest(r)
  <2>1. call[r] = "publishing" /\ call' = [call EXCEPT ![r] = "waiting"] /\ Enqueue(r)
    BY <1>2 DEF PublishRequest, Goto
  <2>2. CASE q # r
    <3>1. modelQueue'[q] = modelQueue[q]
      BY <2>1, <2>2, PlaceTypes, BagOfOthers DEF Enqueue
    <3>2. \A o \in PrivateOrgs : privateQueue'[o][q] = privateQueue[o][q]
      BY <2>1, <2>2, PlaceTypes, BagsOfOthers DEF Enqueue
    <3>3. call'[q] = call[q]
      BY <2>1, <2>2, PlaceTypes
    <3> QED
      BY <1>1, <3>1, <3>2, <3>3, PlaceTypes, StaysPlaced DEF NoNewPlace
  <2>3. CASE q = r
    <3>1. call'[q] \notin Unsent
      BY <2>1, <2>3, PlaceTypes DEF Unsent
    <3>2. ASSUME Mode[q] = "private-only" PROVE Confined(q)'
      <4>1. Confined(q)
        BY <3>2, PlaceTypes DEF Placed
      <4>2. modelQueue' = modelQueue
        BY <2>1, <2>3, <3>2 DEF Enqueue
      <4>3. \A o \in PrivateOrgs : o # UserOrg[q] => privateQueue'[o] = privateQueue[o]
        BY <2>1, <2>3, PlaceTypes, BagsOfOthers DEF Enqueue
      <4> QED
        BY <1>1, <4>1, <4>2, <4>3 DEF Confined
    <3> QED
      BY <3>1, <3>2 DEF Placed
  <2> QED
    BY <2>2, <2>3
<1>3. CASE ~PublishRequest(r)
  <2>1. UNCHANGED <<modelQueue, privateQueue>>
    BY <1>3 DEF ClientStep, Validate, RefuseRouting, RejectOverloaded, StartCall, Timeout,
       Answered, Forward, Busy, EndService, SendCompletion, ClientFaults,
       PublishRequestFails, FailService, DropCompletion, brokerVars
  <2>2. \E state \in {"refused", "overloaded", "publishing", "failed", "timeout",
                      "forwarded", "busy", "completing", "done"} :
          Goto(r, state) /\ (state = "publishing" => call[r] = "idle")
    BY <1>3 DEF ClientStep, Validate, RefuseRouting, RejectOverloaded, StartCall, Timeout,
       Answered, Forward, Busy, EndService, SendCompletion, ClientFaults,
       PublishRequestFails, FailService, DropCompletion
  <2>3. call'[q] \in Unsent => call[q] \in Unsent
    BY <2>2, PlaceTypes DEF Goto, Unsent
  <2> QED
    BY <1>1, <2>1, <2>3, PlaceTypes, StaysPlaced DEF NoNewPlace
<1> QED
  BY <1>2, <1>3

-----------------------------------------------------------------------------
(* The steps of the consumers, none of which changes a call. *)

\* What a delivery does to its callback.
LEMMA Delivery ==
  ASSUME Inv, NEW c \in Consumers, NEW t \in Tags, NEW r \in Requests,
         DeliverMain(c, t, r) \/ DeliverPrivate(c, t, r)
  PROVE  \E phase \in {"publishing", "deferring", "stuck"}, s \in Servers \cup {NoServer} :
           /\ SetCallback(c, t, [phase |-> phase, id |-> r, server |-> s])
           /\ \/ DeliverMain(c, t, r)
              \/ /\ DeliverPrivate(c, t, r)
                 /\ phase = "publishing" => s \in Servers /\ Org[s] = Org[t]
<1>1. CASE DeliverMain(c, t, r)
  <2>1. CASE SetCallback(c, t, [phase |-> "publishing", id |-> r, server |-> NoServer])
    <3> WITNESS "publishing" \in {"publishing", "deferring", "stuck"},
                NoServer \in Servers \cup {NoServer}
    <3> QED
      BY <1>1, <2>1
  <2>2. CASE \E s \in healthy[c], score \in MainScores : Decide(c, t, r, s, score)
    <3>1. PICK s \in healthy[c], score \in MainScores : Decide(c, t, r, s, score)
      BY <2>2
    <3>2. PICK phase \in {"publishing", "deferring", "stuck"}, u \in {s, NoServer} :
            SetCallback(c, t, [phase |-> phase, id |-> r, server |-> u])
      BY <3>1 DEF Decide
    <3>3. u \in Servers \cup {NoServer}
      BY PlaceTypes
    <3> QED
      BY <1>1, <3>2, <3>3
  <2> QED
    BY <1>1, <2>1, <2>2 DEF DeliverMain
<1>2. CASE DeliverPrivate(c, t, r)
  <2>1. PICK s \in {s \in Hosts[c] : Org[s] = Org[t]}, score \in PrivateScores :
          Decide(c, t, r, s, score)
    BY <1>2 DEF DeliverPrivate
  <2>2. PICK phase \in {"publishing", "deferring", "stuck"}, u \in {s, NoServer} :
          /\ SetCallback(c, t, [phase |-> phase, id |-> r, server |-> u])
          /\ phase = "publishing" => u = s
    BY <2>1 DEF Decide
  <2>3. u \in Servers \cup {NoServer} /\ s \in Servers
    BY Assumptions
  <2> QED
    BY <1>2, <2>2, <2>3
<1> QED
  BY <1>1, <1>2

LEMMA WhereaboutsDeliver ==
  ASSUME Inv, NEW c \in Consumers, NEW t \in Tags, Deliver(c, t), UNCHANGED call
  PROVE  Whereabouts'
<1>1. PICK r \in Requests : DeliverMain(c, t, r) \/ DeliverPrivate(c, t, r)
  BY DEF Deliver
<1>2. PICK phase \in {"publishing", "deferring", "stuck"}, s \in Servers \cup {NoServer} :
        /\ SetCallback(c, t, [phase |-> phase, id |-> r, server |-> s])
        /\ \/ DeliverMain(c, t, r)
           \/ /\ DeliverPrivate(c, t, r)
              /\ phase = "publishing" => s \in Servers /\ Org[s] = Org[t]
  BY <1>1, Delivery
<1> DEFINE record == [phase |-> phase, id |-> r, server |-> s]
<1>3. /\ record.id = r /\ record.server = s /\ record.phase = phase
      /\ \A d \in Consumers, u \in Tags :
           callback'[d][u] = IF d = c /\ u = t THEN record ELSE callback[d][u]
  BY <1>2, PlaceTypes DEF SetCallback
<1> HIDE DEF record
<1>4. deferred' = deferred /\ callbackQueue' = callbackQueue
  BY <1>1 DEF DeliverMain, DeliverPrivate
<1>5. CASE DeliverMain(c, t, r)
  <2>1. modelQueue' = Take(modelQueue, r) /\ modelQueue[r] > 0 /\ privateQueue' = privateQueue
    BY <1>5 DEF DeliverMain, Foremost
  <2>2. call[r] \notin Unsent /\ Mode[r] # "private-only"
    BY <2>1, PlaceTypes DEF Placed, Nowhere, Confined
  <2> SUFFICES ASSUME NEW q \in Requests PROVE Placed(q)'
    BY DEF Whereabouts
  <2>3. CASE q = r
    BY <2>2, <2>3 DEF Placed
  <2>4. CASE q # r
    <3>1. modelQueue'[q] = modelQueue[q]
      BY <2>1, <2>4, PlaceTypes, BagOfOthers
    <3>2. NoNewPlace(q)
      BY <1>2, <1>3, <1>4, <2>1, <2>4, <3>1 DEF NoNewPlace
    <3> QED
      BY <3>2, PlaceTypes, StaysPlaced
  <2> QED
    BY <2>3, <2>4
<1>6. CASE DeliverPrivate(c, t, r) /\ ~DeliverMain(c, t, r)
  <2>1. /\ privateQueue' = [privateQueue EXCEPT ![Org[t]] = Take(@, r)]
        /\ privateQueue[Org[t]][r] > 0 /\ modelQueue' = modelQueue
        /\ t \in Servers /\ Org[t] \in PrivateOrgs
        /\ phase \in Answering => s \in Servers /\ Org[s] = Org[t]
    BY <1>2, <1>6, Assumptions DEF DeliverPrivate, PrivateOrgs, Answering
  <2>2. call[r] \notin Unsent /\ (Mode[r] = "private-only" => Org[t] = UserOrg[r])
    BY <2>1, PlaceTypes DEF Placed, Nowhere, Confined
  <2> SUFFICES ASSUME NEW q \in Requests PROVE Placed(q)'
    BY DEF Whereabouts
  <2>3. CASE q = r
    <3>1. ASSUME Mode[r] = "private-only" PROVE Confined(r)'
      <4>1. Confined(r)
        BY <3>1, PlaceTypes DEF Placed
      <4>2. \A o \in PrivateOrgs : o # UserOrg[r] => privateQueue'[o] = privateQueue[o]
        BY <2>1, <2>2, <3>1, PlaceTypes
      <4> QED
        BY <1>2, <1>3, <2>1, <2>2, <3>1, <4>1, <4>2 DEF Confined
    <3> QED
      BY <2>2, <2>3, <3>1 DEF Placed
  <2>4. CASE q # r
    <3>1. \A o \in PrivateOrgs : privateQueue'[o][q] = privateQueue[o][q]
      BY <2>1, <2>4, PlaceTypes, BagsOfOthers
    <3>2. NoNewPlace(q)
      BY <1>2, <1>3, <1>4, <2>1, <2>4, <3>1 DEF NoNewPlace
    <3> QED
      BY <3>2, PlaceTypes, StaysPlaced
  <2> QED
    BY <2>3, <2>4
<1> QED
  BY <1>1, <1>5, <1>6

\* A callback goes on with its message or ends.
LEMMA SameMessage ==
  ASSUME Inv, NEW c \in Consumers, NEW t \in Tags,
         Proceed(c, t) \/ PublishReplyFails(c, t),
         NEW d \in Consumers, NEW u \in Tags, callback'[d][u].id \in Requests
  PROVE  /\ callback'[d][u].id = callback[d][u].id
         /\ callback'[d][u].server = callback[d][u].server
         /\ callback'[d][u].phase \in Answering => callback[d][u].phase \in Answering
<1>1. CASE BrokerAck(c, t)
  BY <1>1, PlaceTypes, Assumptions DEF BrokerAck, SetCallback, Idle
<1>2. CASE ~BrokerAck(c, t)
  <2>1. PICK phase \in Phases :
          /\ Advance(c, t, phase)
          /\ phase \in Answering => callback[c][t].phase \in Answering
    BY <1>2 DEF Proceed, PublishReply, FinishCallback, DeferAck, PublishReplyFails, Phases,
       Answering
  <2>2. callback[c][t] \in Callbacks
    BY PlaceTypes
  <2>3. /\ [callback[c][t] EXCEPT !.phase = phase].id = callback[c][t].id
        /\ [callback[c][t] EXCEPT !.phase = phase].server = callback[c][t].server
        /\ [callback[c][t] EXCEPT !.phase = phase].phase = phase
    BY <2>2 DEF Callbacks
  <2>4. callback' = [callback EXCEPT ![c][t] = [callback[c][t] EXCEPT !.phase = phase]]
    BY <2>1 DEF Advance
  <2> QED
    BY <2>1, <2>3, <2>4, PlaceTypes
<1> QED
  BY <1>1, <1>2

LEMMA WhereaboutsProceed ==
  ASSUME Inv, NEW c \in Consumers, NEW t \in Tags,
         Proceed(c, t) \/ PublishReplyFails(c, t), UNCHANGED call
  PROVE  Whereabouts'
<1>1. UNCHANGED <<modelQueue, privateQueue>>
  BY DEF Proceed, PublishReply, FinishCallback, DeferAck, BrokerAck, PublishReplyFails, brokerVars
<1>2. \A q \in Requests, d \in Consumers, u \in Tags : callback'[d][u].id = q =>
        /\ callback[d][u].id = q /\ callback'[d][u].server = callback[d][u].server
        /\ callback'[d][u].phase \in Answering => callback[d][u].phase \in Answering
  BY SameMessage
<1> SUFFICES ASSUME NEW q \in Requests PROVE Placed(q)'
  BY DEF Whereabouts
<1>3. callback[c][t].id = q => Placed(q)'
  <2> SUFFICES ASSUME callback[c][t].id = q PROVE Placed(q)'
    OBVIOUS
  <2>1. call[q] \notin Unsent
    BY PlaceTypes DEF Placed, Nowhere
  <2>2. Confined(q) => Confined(q)'
    BY <1>1, <1>2 DEF Confined
  <2> QED
    BY <2>1, <2>2, PlaceTypes DEF Placed
<1>4. CASE ~\E m \in callbackQueue' : m \notin callbackQueue /\ m.id = q
  <2>1. CASE \A d \in Consumers : deferred'[d][q] = deferred[d][q]
    BY <1>1, <1>2, <1>4, <2>1, PlaceTypes, StaysPlaced DEF NoNewPlace
  <2>2. CASE ~\A d \in Consumers : deferred'[d][q] = deferred[d][q]
    <3>1. DeferAck(c, t)
      BY <2>2 DEF Proceed, PublishReply, FinishCallback, BrokerAck, PublishReplyFails
    <3>2. callback[c][t].id \in Requests
      BY <3>1, PlaceTypes DEF DeferAck, CallbacksHoldRequests
    <3>3. deferred' = [deferred EXCEPT ![c] = Put(@, callback[c][t].id)]
      BY <3>1 DEF DeferAck
    <3>4. q = callback[c][t].id
      BY <2>2, <3>2, <3>3, PlaceTypes, BagsOfOthers
    <3> QED
      BY <1>3, <3>4
  <2> QED
    BY <2>1, <2>2
<1>5. CASE \E m \in callbackQueue' : m \notin callbackQueue /\ m.id = q
  <2>1. q = callback[c][t].id
    BY <1>5 DEF Proceed, PublishReply, FinishCallback, DeferAck, BrokerAck, PublishReplyFails,
       brokerVars
  <2> QED
    BY <1>3, <2>1
<1> QED
  BY <1>4, <1>5

LEMMA WhereaboutsTasks ==
  ASSUME Inv, NEW c \in Consumers, UNCHANGED call,
         \/ \E r \in Requests : Republish(c, r) \/ RepublishFails(c, r)
         \/ \E s \in Servers, r \in Requests : Expire(c, s, r)
         \/ Complete(c)
         \/ UpdateServers(c)
  PROVE  Whereabouts'
<1>1. callback' = callback /\ callbackQueue' = callbackQueue
  BY DEF Republish, RepublishFails, Expire, ExpireRequest, Complete,
     HandleCompletion, WedgeOnCompletion, UpdateServers, brokerVars
<1> SUFFICES ASSUME NEW q \in Requests PROVE Placed(q)'
  BY DEF Whereabouts
<1>2. ASSUME NEW r \in Requests, Republish(c, r) \/ RepublishFails(c, r) PROVE Placed(q)'
  <2>1. deferred[c][r] > 0 /\ deferred' = [deferred EXCEPT ![c] = Take(@, r)]
    BY <1>2 DEF Republish, RepublishFails
  <2>2. CASE q # r
    <3>1. \A d \in Consumers : deferred'[d][q] = deferred[d][q]
      BY <2>1, <2>2, PlaceTypes, BagsOfOthers
    <3>2. modelQueue'[q] = modelQueue[q]
      BY <1>2, <2>2, PlaceTypes, BagOfOthers DEF Republish, RepublishFails
    <3>3. \A o \in PrivateOrgs : privateQueue'[o][q] = privateQueue[o][q]
      BY <1>2, <2>2, PlaceTypes, BagsOfOthers DEF Republish, RepublishFails
    <3> QED
      BY <1>1, <3>1, <3>2, <3>3, PlaceTypes, StaysPlaced DEF NoNewPlace
  <2>3. CASE q = r
    <3>1. call[q] \notin Unsent
      BY <2>1, <2>3, PlaceTypes DEF Placed, Nowhere
    <3>2. ASSUME Mode[q] = "private-only" PROVE Confined(q)'
      <4>1. Confined(q)
        BY <3>2, PlaceTypes DEF Placed
      <4>2. modelQueue' = modelQueue
        BY <1>2, <2>3, <3>2 DEF Republish, RepublishFails
      <4>3. \A o \in PrivateOrgs : o # UserOrg[q] => privateQueue'[o] = privateQueue[o]
        BY <1>2, <2>3, PlaceTypes, BagsOfOthers DEF Republish, RepublishFails
      <4> QED
        BY <1>1, <4>1, <4>2, <4>3 DEF Confined
    <3> QED
      BY <3>1, <3>2 DEF Placed
  <2> QED
    BY <2>2, <2>3
<1>3. CASE UNCHANGED <<modelQueue, privateQueue, deferred>>
  BY <1>1, <1>3, PlaceTypes, StaysPlaced DEF NoNewPlace
<1>4. \/ \E r \in Requests : Republish(c, r) \/ RepublishFails(c, r)
      \/ UNCHANGED <<modelQueue, privateQueue, deferred>>
  BY DEF Expire, ExpireRequest, Complete, HandleCompletion, WedgeOnCompletion, UpdateServers,
     brokerVars
<1> QED
  BY <1>2, <1>3, <1>4

\* A lost channel gives back what its subscriptions hold, to the queues they
\* are on: nothing of a request they do not hold.
LEMMA HeldByNone ==
  ASSUME Inv, NEW c \in Consumers, ReturnUnacked(c), NEW q \in Requests
  PROVE  /\ (\A t \in mainTags[c] : callback[c][t].id # q) => modelQueue'[q] = modelQueue[q]
         /\ \A o \in PrivateOrgs :
              (\A t \in Hosts[c] : Org[t] = o => callback[c][t].id # q)
                => privateQueue'[o][q] = privateQueue[o][q]
<1>1. ASSUME \A t \in mainTags[c] : callback[c][t].id # q
      PROVE  modelQueue'[q] = modelQueue[q]
  <2>1. {t \in mainTags[c] : callback[c][t].id = q} = {}
    BY <1>1
  <2>2. HeldFromMain(c, q) = 0
    BY <2>1, FS_EmptySet DEF HeldFromMain
  <2>3. modelQueue'[q] = modelQueue[q] + HeldFromMain(c, q)
    BY DEF ReturnUnacked
  <2>4. modelQueue[q] \in Nat
    BY PlaceTypes DEF Bags
  <2> QED
    BY <2>2, <2>3, <2>4
<1>2. ASSUME NEW o \in PrivateOrgs,
             \A t \in Hosts[c] : Org[t] = o => callback[c][t].id # q
      PROVE  privateQueue'[o][q] = privateQueue[o][q]
  <2>1. {t \in Hosts[c] : Org[t] = o /\ callback[c][t].id = q} = {}
    BY <1>2
  <2>2. HeldFromPrivate(c, o, q) = 0
    BY <2>1, FS_EmptySet DEF HeldFromPrivate
  <2>3. privateQueue'[o][q] = privateQueue[o][q] + HeldFromPrivate(c, o, q)
    BY DEF ReturnUnacked
  <2>4. privateQueue[o][q] \in Nat
    BY PlaceTypes DEF Bags
  <2> QED
    BY <2>2, <2>3, <2>4
<1> QED
  BY <1>1, <1>2

LEMMA WhereaboutsFaults ==
  ASSUME Inv, NEW c \in Consumers, ConnectionLost(c) \/ Crash(c), UNCHANGED call
  PROVE  Whereabouts'
<1>1. ReturnUnacked(c)
  BY DEF ConnectionLost, Crash
<1>2. /\ callbackQueue' = callbackQueue
      /\ \A d \in Consumers, q \in Requests : deferred[d][q] = 0 => deferred'[d][q] = 0
  BY PlaceTypes DEF ConnectionLost, Crash, EmptyBag
<1>3. mainTags[c] \subseteq MainTags /\ mainTags[c] \subseteq Tags
      /\ Hosts[c] \subseteq Servers /\ Hosts[c] \subseteq Tags
  BY PlaceTypes, Assumptions DEF Tags
<1> SUFFICES ASSUME NEW q \in Requests PROVE Placed(q)'
  BY DEF Whereabouts
<1>4. \A d \in Consumers, u \in Tags :
        callback'[d][u].id = q => callback'[d][u] = callback[d][u]
  BY <1>1, Assumptions, PlaceTypes DEF ReturnUnacked, Idle
<1>5. Nowhere(q) => Nowhere(q)'
  <2> SUFFICES ASSUME Nowhere(q) PROVE Nowhere(q)'
    OBVIOUS
  <2>1. modelQueue'[q] = 0
    BY <1>1, <1>3, HeldByNone DEF Nowhere
  <2>2. \A o \in PrivateOrgs : privateQueue'[o][q] = 0
    BY <1>1, <1>3, HeldByNone DEF Nowhere
  <2> QED
    BY <1>2, <1>4, <2>1, <2>2 DEF Nowhere
<1>6. Confined(q) => Confined(q)'
  <2> SUFFICES ASSUME Confined(q) PROVE Confined(q)'
    OBVIOUS
  <2>1. modelQueue'[q] = 0
    <3>1. \A t \in mainTags[c] : callback[c][t].id # q
      BY <1>3, Assumptions DEF Confined
    <3> QED
      BY <1>1, <3>1, HeldByNone DEF Confined
  <2>2. \A o \in PrivateOrgs : o # UserOrg[q] => privateQueue'[o][q] = 0
    <3> SUFFICES ASSUME NEW o \in PrivateOrgs, o # UserOrg[q] PROVE privateQueue'[o][q] = 0
      OBVIOUS
    <3>1. \A t \in Hosts[c] : Org[t] = o => callback[c][t].id # q
      BY <1>3 DEF Confined
    <3>2. privateQueue[o][q] = 0
      BY DEF Confined
    <3> QED
      BY <1>1, <3>1, <3>2, HeldByNone
  <2> QED
    BY <1>4, <2>1, <2>2 DEF Confined
<1> QED
  BY <1>5, <1>6, PlaceTypes DEF Placed

LEMMA WhereaboutsNext ==
  ASSUME Inv, [Next]_vars
  PROVE  Whereabouts'
<1>1. ASSUME NEW r \in Requests, ClientStep(r) PROVE Whereabouts'
  BY <1>1, WhereaboutsClient
<1>2. ASSUME NEW c \in Consumers, ConsumerStep(c) PROVE Whereabouts'
  <2>1. UNCHANGED call
    BY <1>2 DEF ConsumerStep, clientVars
  <2> QED
    BY <1>2, <2>1, WhereaboutsDeliver, WhereaboutsProceed, WhereaboutsTasks, WhereaboutsFaults
       DEF ConsumerStep
<1>3. ASSUME NEW r \in Requests, MessageExpires(r),
             UNCHANGED <<clientVars, serverVars, outlived>>
      PROVE  Whereabouts'
  <2> SUFFICES ASSUME NEW q \in Requests PROVE Placed(q)'
    BY DEF Whereabouts
  <2>1. UNCHANGED <<call, privateQueue, deferred, callback, callbackQueue>>
    BY <1>3 DEF MessageExpires, clientVars, serverVars
  <2>2. modelQueue' = Take(modelQueue, r) /\ modelQueue[r] > 0
    BY <1>3 DEF MessageExpires
  <2>3. modelQueue[q] = 0 => modelQueue'[q] = 0
    BY <2>2, PlaceTypes, BagOfOthers
  <2> QED
    BY <2>1, <2>3, PlaceTypes, StaysPlaced DEF NoNewPlace
<1>4. ASSUME UNCHANGED <<call, modelQueue, privateQueue, deferred, callback>>,
             callbackQueue' \subseteq callbackQueue
      PROVE  Whereabouts'
  BY <1>4, PlaceTypes, StaysPlaced DEF NoNewPlace, Whereabouts
<1>5. (LoseReplies /\ SenderOnly) \/ Receive \/ UNCHANGED vars
        => /\ UNCHANGED <<call, modelQueue, privateQueue, deferred, callback>>
           /\ callbackQueue' \subseteq callbackQueue
  BY DEF LoseReplies, Receive, SenderOnly, OnResponse, vars, brokerVars, clientVars, serverVars
<1> QED
  BY <1>1, <1>2, <1>3, <1>4, <1>5 DEF Next, Finished, BrokerStep

LEMMA InvHolds == Spec => []Inv
<1>1. Init => Inv
  BY TypeInit, WhereaboutsInit DEF Inv
<1>2. Inv /\ [Next]_vars => Inv'
  BY TypeNext, WhereaboutsNext DEF Inv
<1> QED
  BY <1>1, <1>2, PTL DEF Spec

-----------------------------------------------------------------------------
(* The contract.  Its variables are functions of those of the dispatcher;   *)
(* a step of one request is described by what it does to them.              *)

StatusOf == [r \in Requests |-> Status(r)]
OffersOf == [r \in Requests |-> {m.server : m \in {m \in callbackQueue : m.id = r}}]

LEMMA StatusKept ==
  ASSUME NEW q, call'[q] = call[q]
  PROVE  Status(q)' = Status(q)
BY DEF Status

LEMMA StatusKeptByAll ==
  ASSUME call' = call
  PROVE  StatusOf' = StatusOf
BY StatusKept DEF StatusOf

LEMMA OffersKept ==
  ASSUME callbackQueue' = callbackQueue
  PROVE  OffersOf' = OffersOf
BY DEF OffersOf

\* A request of which only the call goes on.
OnlyCall(r, state) ==
  /\ call' = [call EXCEPT ![r] = state]
  /\ UNCHANGED <<answer, callbackQueue>>

LEMMA StatusMoves ==
  ASSUME Inv, NEW r \in Requests, NEW state \in Active \cup Final,
         call' = [call EXCEPT ![r] = state]
  PROVE  /\ StatusOf' = [StatusOf EXCEPT ![r] = Status(r)']
         /\ call'[r] = state
<1>1. call'[r] = state /\ \A q \in Requests : q # r => call'[q] = call[q]
  BY PlaceTypes
<1>2. \A q \in Requests : q # r => Status(q)' = Status(q)
  BY <1>1, StatusKept
<1> QED
  BY <1>1, <1>2 DEF StatusOf

LEMMA StutterStep ==
  ASSUME UNCHANGED <<StatusOf, OffersOf, answer>>
  PROVE  UNCHANGED Contract!vars
BY DEF Contract!vars, StatusOf, OffersOf

LEMMA CloseStep ==
  ASSUME Inv, NEW r \in Requests, call[r] \notin Final, NEW state \in Final, OnlyCall(r, state)
  PROVE  Contract!Close(r)
<1>1. StatusOf' = [StatusOf EXCEPT ![r] = Status(r)'] /\ call'[r] = state
  BY StatusMoves DEF OnlyCall
<1>2. Status(r)' = "closed"
  BY <1>1 DEF Status, Final
<1>3. StatusOf[r] # "closed"
  <2>1. call[r] \in Active
    BY PlaceTypes
  <2> QED
    BY <2>1 DEF StatusOf, Status, Active
<1>4. UNCHANGED <<OffersOf, answer>>
  BY OffersKept DEF OnlyCall
<1> QED
  BY <1>1, <1>2, <1>3, <1>4 DEF Contract!Close, Contract!Become, StatusOf, OffersOf

LEMMA ContractInit == Init => Contract!Init
BY DEF Init, BrokerInit, ClientInit, Contract!Init, Status

\* The steps of the sender.
LEMMA ContractClient ==
  ASSUME Inv, NEW r \in Requests, ClientStep(r)
  PROVE  [Contract!Next]_(Contract!vars)
<1>1. CASE \E state \in Final : call[r] \notin Final /\ OnlyCall(r, state)
  BY <1>1, CloseStep DEF Contract!Next
<1>2. CASE StartCall(r)
  <2>1. OnlyCall(r, "publishing") /\ call[r] = "idle"
    BY <1>2 DEF StartCall, Goto, OnlyCall, brokerVars
  <2>2. StatusOf' = [StatusOf EXCEPT ![r] = Status(r)'] /\ call'[r] = "publishing"
    BY <2>1, StatusMoves DEF OnlyCall, Active
  <2>3. Status(r)' = "pending" /\ StatusOf[r] = "new"
    BY <2>1, <2>2 DEF Status, StatusOf
  <2>4. UNCHANGED <<OffersOf, answer>>
    BY <2>1, OffersKept DEF OnlyCall
  <2>5. Contract!Submit(r)
    BY <2>2, <2>3, <2>4 DEF Contract!Submit, Contract!Become, StatusOf, OffersOf
  <2> QED
    BY <2>5 DEF Contract!Next
<1>3. CASE Forward(r)
  <2>1. OnlyCall(r, "forwarded") /\ call[r] = "waiting" /\ answer[r] \in Servers
    BY <1>3 DEF Forward, Goto, OnlyCall, brokerVars
  <2>2. StatusOf' = [StatusOf EXCEPT ![r] = Status(r)'] /\ call'[r] = "forwarded"
    BY <2>1, StatusMoves DEF OnlyCall, Active
  <2>3. Status(r)' = "served" /\ StatusOf[r] = "pending"
    BY <2>1, <2>2 DEF Status, StatusOf
  <2>4. UNCHANGED <<OffersOf, answer>>
    BY <2>1, OffersKept DEF OnlyCall
  <2>5. Contract!Serve(r)
    BY <2>1, <2>2, <2>3, <2>4 DEF Contract!Serve, Contract!Become, StatusOf, OffersOf
  <2> QED
    BY <2>5 DEF Contract!Next
<1>4. CASE PublishRequest(r) \/ EndService(r)
  <2>1. PICK state \in Active : OnlyCall(r, state)
          /\ \/ call[r] = "publishing" /\ state = "waiting"
             \/ call[r] = "forwarded" /\ state = "completing"
    BY <1>4 DEF PublishRequest, EndService, Goto, OnlyCall, brokerVars, Active
  <2>2. StatusOf' = [StatusOf EXCEPT ![r] = Status(r)'] /\ call'[r] = state
    BY <2>1, StatusMoves DEF OnlyCall
  <2>3. Status(r)' = StatusOf[r]
    BY <2>1, <2>2 DEF Status, StatusOf
  <2>4. StatusOf' = StatusOf
    BY <2>2, <2>3 DEF StatusOf
  <2> QED
    BY <2>1, <2>4, OffersKept, StutterStep DEF OnlyCall
<1>5. \/ \E state \in Final : call[r] \notin Final /\ OnlyCall(r, state)
      \/ StartCall(r) \/ Forward(r) \/ PublishRequest(r) \/ EndService(r)
  BY DEF ClientStep, Validate, RefuseRouting, RejectOverloaded, Timeout, Answered, Busy,
     SendCompletion, ClientFaults, PublishRequestFails, FailService, DropCompletion,
     brokerVars, OnlyCall, Goto, Final
<1> QED
  BY <1>1, <1>2, <1>3, <1>4, <1>5

\* An answer is taken by the call it is for, or lost.
LEMMA ContractReceive ==
  ASSUME Inv, Receive
  PROVE  Contract!Next
<1>1. PICK m \in callbackQueue : OnResponse(m)
  BY DEF Receive
<1>2. callbackQueue \in SUBSET Answers /\ answer \in [Requests -> Servers \cup {NoServer, NoAnswer}]
      /\ FuturesOwned
  BY DEF Inv, TypeInv, TypeOK, BrokerTypeOK, ClientTypeOK
<1>3. m.id \in Requests /\ m.server \in Servers \cup {NoServer}
  BY <1>2 DEF Answers
<1>4. \A x \in callbackQueue : x.id = m.id /\ x.server = m.server => x = m
  BY <1>2 DEF Answers
<1>5. OffersOf' = [OffersOf EXCEPT ![m.id] = @ \ {m.server}]
  <2>1. callbackQueue' = callbackQueue \ {m}
    BY <1>1 DEF OnResponse
  <2>2. \A q \in Requests : q # m.id => OffersOf'[q] = OffersOf[q]
    BY <2>1 DEF OffersOf
  <2>3. OffersOf'[m.id] = OffersOf[m.id] \ {m.server}
    BY <1>3, <1>4, <2>1 DEF OffersOf
  <2> QED
    BY <1>3, <2>2, <2>3 DEF OffersOf
<1>6. m.server \in OffersOf[m.id]
  BY <1>1, <1>3 DEF OffersOf
<1>7. StatusOf' = StatusOf
  BY <1>1, StatusKeptByAll DEF OnResponse
<1>8. CASE m.id \in futures
  <2>1. answer' = [answer EXCEPT ![m.id] = m.server] /\ answer[m.id] = NoAnswer
    BY <1>1, <1>2, <1>8 DEF OnResponse, FuturesOwned
  <2>2. Contract!Take(m.id)
    BY <1>5, <1>6, <1>7, <2>1 DEF Contract!Take, StatusOf, OffersOf
  <2> QED
    BY <1>3, <2>2 DEF Contract!Next
<1>9. CASE m.id \notin futures
  <2>1. answer' = answer
    BY <1>1, <1>9 DEF OnResponse
  <2>2. \A q \in Requests : OffersOf[q] \subseteq Servers \cup {NoServer}
    BY <1>2 DEF OffersOf, Answers
  <2>3. /\ OffersOf' \in [Requests -> SUBSET (Servers \cup {NoServer})]
        /\ \A q \in Requests : OffersOf'[q] \subseteq OffersOf[q]
    BY <1>3, <1>5, <2>2 DEF OffersOf
  <2>4. Contract!Withdraw
    BY <1>7, <2>1, <2>3 DEF Contract!Withdraw, StatusOf, OffersOf
  <2> QED
    BY <2>4 DEF Contract!Next
<1> QED
  BY <1>8, <1>9

\* The answer of a consumer is an offer the request allows.
LEMMA ContractReply ==
  ASSUME Inv, NEW c \in Consumers, NEW t \in Tags, PublishReply(c, t), UNCHANGED clientVars
  PROVE  Contract!Next
<1>1. PICK r \in Requests, s \in Servers \cup {NoServer} :
        r = callback[c][t].id /\ s = callback[c][t].server
  BY PlaceTypes DEF PublishReply, CallbacksHoldRequests, Callbacks
<1>2. call[r] \notin Unsent /\ (Mode[r] = "private-only" => s \in Servers /\ Org[s] = UserOrg[r])
  BY <1>1, PlaceTypes DEF PublishReply, Placed, Nowhere, Confined, Answering
<1> DEFINE m == [id |-> r, server |-> s]
<1>3. callbackQueue' = callbackQueue \cup {m} /\ m.id = r /\ m.server = s
  BY <1>1 DEF PublishReply
<1>4. UNCHANGED <<call, answer>>
  BY DEF clientVars
<1> HIDE DEF m
<1>5. OffersOf' = [OffersOf EXCEPT ![r] = @ \cup {s}]
  <2>1. \A q \in Requests : q # r => OffersOf'[q] = OffersOf[q]
    BY <1>3 DEF OffersOf
  <2>2. OffersOf'[r] = OffersOf[r] \cup {s}
    BY <1>1, <1>3 DEF OffersOf
  <2> QED
    BY <1>1, <2>1, <2>2 DEF OffersOf
<1>6. StatusOf' = StatusOf /\ StatusOf[r] # "new"
  BY <1>1, <1>2, <1>4, StatusKeptByAll DEF StatusOf, Status, Unsent
<1>7. s \in Contract!Allowed(r)
  BY <1>1, <1>2 DEF Contract!Allowed
<1>8. Contract!Offer(r)
  BY <1>4, <1>5, <1>6, <1>7 DEF Contract!Offer, StatusOf, OffersOf
<1> QED
  BY <1>1, <1>8 DEF Contract!Next

\* The sender that loses its queue of answers loses the offers.
LEMMA ContractLose ==
  ASSUME Inv, LoseReplies
  PROVE  Contract!Next
<1>1. callbackQueue' = {} /\ UNCHANGED <<call, answer>>
  BY DEF LoseReplies, clientVars
<1>2. OffersOf' = [q \in Requests |-> {}]
  BY <1>1 DEF OffersOf
<1>3. StatusOf' = StatusOf
  BY <1>1, StatusKeptByAll
<1>4. Contract!Withdraw
  BY <1>1, <1>2, <1>3 DEF Contract!Withdraw, StatusOf, OffersOf
<1> QED
  BY <1>4 DEF Contract!Next

LEMMA ContractNext ==
  ASSUME Inv, [Next]_vars
  PROVE  [Contract!Next]_(Contract!vars)
<1>1. ASSUME NEW r \in Requests, ClientStep(r) PROVE [Contract!Next]_(Contract!vars)
  BY <1>1, ContractClient
<1>2. ASSUME NEW c \in Consumers, NEW t \in Tags, PublishReply(c, t), UNCHANGED clientVars
      PROVE  Contract!Next
  BY <1>2, ContractReply
<1>3. ASSUME UNCHANGED <<call, answer, callbackQueue>>
      PROVE  UNCHANGED Contract!vars
  BY <1>3, StatusKeptByAll, OffersKept, StutterStep
<1>4. ASSUME NEW c \in Consumers, ConsumerStep(c) PROVE [Contract!Next]_(Contract!vars)
  <2>1. UNCHANGED clientVars /\ UNCHANGED <<call, answer>>
    BY <1>4 DEF ConsumerStep, clientVars
  <2>2. \/ \E t \in Tags : PublishReply(c, t)
        \/ UNCHANGED callbackQueue
    BY <1>4 DEF ConsumerStep, Deliver, DeliverMain, DeliverPrivate, Proceed, FinishCallback,
       DeferAck, BrokerAck, PublishReplyFails, Republish, RepublishFails, Expire,
       ExpireRequest, Complete, HandleCompletion, WedgeOnCompletion, UpdateServers,
       ConnectionLost, Crash, brokerVars
  <2> QED
    BY <1>2, <1>3, <2>1, <2>2
<1>5. ASSUME BrokerStep PROVE [Contract!Next]_(Contract!vars)
  <2>1. \/ LoseReplies
        \/ UNCHANGED <<call, answer, callbackQueue>>
    BY <1>5 DEF BrokerStep, MessageExpires, clientVars
  <2> QED
    BY <1>3, <2>1, ContractLose
<1>6. ASSUME UNCHANGED vars PROVE [Contract!Next]_(Contract!vars)
  BY <1>3, <1>6 DEF vars, brokerVars, clientVars
<1> QED
  BY <1>1, <1>4, <1>5, <1>6, ContractReceive DEF Next, Finished

\* The dispatcher meets the contract of a request, whatever the number of
\* consumers, servers and requests, whatever the policy, and under every fault
\* the model has: one answer at most is taken by a call, it was made for it
\* after it was submitted, and a private-only request is only ever given a
\* server of its organization, requeues included.
THEOREM ContractIsMet == Spec => ContractHolds
<1>1. Init => Contract!Init
  BY ContractInit
<1>2. Inv /\ [Next]_vars => [Contract!Next]_(Contract!vars)
  BY ContractNext
<1> QED
  BY <1>1, <1>2, InvHolds, PTL DEF Spec, ContractHolds, Contract!Spec
=============================================================================
