---------------------------- MODULE CountingProofs ----------------------------
(***************************************************************************)
(* What is counted over all the queues and all the consumers at once, for  *)
(* every number of them: the copies of a request, and the requests a       *)
(* server works on.                                                        *)
(***************************************************************************)
EXTENDS DeliveryProofs, SumTheorems

-----------------------------------------------------------------------------
(* The copies of a request.  A request that was not sent is nowhere, so its *)
(* publication makes the first copy; every other step moves a copy or loses *)
(* one.  Only a lost channel, which gives back a message whose answer left  *)
(* already, and the restart of a consumer make a second one.                *)

InPrivate(r) == [o \in PrivateOrgs |-> privateQueue[o][r]]
InDeferred(r) == [c \in Consumers |-> deferred[c][r]]
Holders(r) == {p \in Consumers \X Tags : Held(p[1], p[2], r)}
AnswersTo(r) == {m \in callbackQueue : m.id = r}

CopiesIn(r) ==
  modelQueue[r] + SumFunctionOnSet(InPrivate(r), PrivateOrgs)
  + SumFunctionOnSet(InDeferred(r), Consumers)
  + Cardinality(Holders(r)) + Cardinality(AnswersTo(r))

LEMMA CopiesAre ==
  ASSUME NEW r
  PROVE  Copies(r) = CopiesIn(r) /\ Copies(r)' = CopiesIn(r)'
BY DEF Copies, CopiesIn, InPrivate, InDeferred, Holders, AnswersTo, SumFunction

LEMMA FinitePlaces ==
  /\ IsFiniteSet(PrivateOrgs) /\ IsFiniteSet(Consumers)
  /\ IsFiniteSet(Tags) /\ IsFiniteSet(Answers)
<1>1. IsFiniteSet(Servers) /\ IsFiniteSet(Consumers) /\ IsFiniteSet(MainTags)
      /\ IsFiniteSet(Requests)
  BY ConsumersAssumption, RequestsAssumption
<1>2. IsFiniteSet(PrivateOrgs)
  <2>1. [s \in Servers |-> Org[s]] \in Surjection(Servers, PrivateOrgs)
    BY DEF Surjection, PrivateOrgs
  <2> QED
    BY <1>1, <2>1, FS_Surjection
<1>3. IsFiniteSet(Tags)
  BY <1>1, FS_Union DEF Tags
<1>4. IsFiniteSet(Answers)
  <2> DEFINE Targets == Servers \cup {NoServer}
             pairs == Requests \X Targets
             record == [p \in pairs |-> [id |-> p[1], server |-> p[2]]]
  <2>1. IsFiniteSet(pairs)
    <3>1. IsFiniteSet(Targets)
      BY <1>1, FS_AddElement
    <3> HIDE DEF Targets
    <3> QED
      BY <1>1, <3>1, FS_Product
  <2>2. record \in Surjection(pairs, Answers)
    <3>1. record \in [pairs -> Answers]
      BY DEF Answers
    <3>2. \A m \in Answers : \E p \in pairs : record[p] = m
      <4> SUFFICES ASSUME NEW m \in Answers PROVE \E p \in pairs : record[p] = m
        OBVIOUS
      <4>1. <<m.id, m.server>> \in pairs /\ record[<<m.id, m.server>>] = m
        BY DEF Answers
      <4> QED
        BY <4>1
    <3> QED
      BY <3>1, <3>2 DEF Surjection
  <2> HIDE DEF pairs, record
  <2> QED
    BY <2>1, <2>2, FS_Surjection
<1> QED
  BY <1>1, <1>2, <1>3, <1>4

\* Each of the five places has a number of copies.
PlacesTyped(r) ==
  /\ modelQueue[r] \in Nat
  /\ \A o \in PrivateOrgs : InPrivate(r)[o] \in Nat
  /\ \A c \in Consumers : InDeferred(r)[c] \in Nat
  /\ IsFiniteSet(Holders(r)) /\ Cardinality(Holders(r)) \in Nat
  /\ IsFiniteSet(AnswersTo(r)) /\ Cardinality(AnswersTo(r)) \in Nat
  /\ SumFunctionOnSet(InPrivate(r), PrivateOrgs) \in Nat
  /\ SumFunctionOnSet(InDeferred(r), Consumers) \in Nat

LEMMA PlacesHaveTypes ==
  ASSUME BrokerTypeOK, ServerTypeOK, NEW r \in Requests
  PROVE  PlacesTyped(r)
<1>1. /\ modelQueue[r] \in Nat
      /\ \A o \in PrivateOrgs : InPrivate(r)[o] \in Nat
      /\ \A c \in Consumers : InDeferred(r)[c] \in Nat
  BY DEF BrokerTypeOK, ServerTypeOK, Bags, InPrivate, InDeferred
<1>2. IsFiniteSet(Holders(r))
  <2>1. IsFiniteSet(Consumers \X Tags)
    BY FinitePlaces, FS_Product
  <2>2. Holders(r) \in SUBSET (Consumers \X Tags)
    BY DEF Holders
  <2> QED
    BY <2>1, <2>2, FS_Subset
<1>3. IsFiniteSet(AnswersTo(r))
  <2>1. AnswersTo(r) \in SUBSET Answers
    BY DEF AnswersTo, BrokerTypeOK
  <2> QED
    BY <2>1, FinitePlaces, FS_Subset
<1>4. SumFunctionOnSet(InPrivate(r), PrivateOrgs) \in Nat
      /\ SumFunctionOnSet(InDeferred(r), Consumers) \in Nat
  <2>1. PrivateOrgs \in SUBSET PrivateOrgs /\ Consumers \in SUBSET Consumers
    OBVIOUS
  <2> QED
    BY <1>1, <2>1, FinitePlaces, SumType
<1> QED
  BY <1>1, <1>2, <1>3, <1>4, FS_CardinalityType DEF PlacesTyped

LEMMA CopiesTyped ==
  ASSUME Inv, Inv', NEW r \in Requests
  PROVE  PlacesTyped(r) /\ PlacesTyped(r)'
<1>1. PlacesTyped(r)
  BY PlacesHaveTypes DEF Inv, TypeInv, TypeOK
<1>2. BrokerTypeOK' /\ ServerTypeOK'
  BY DEF Inv, TypeInv, TypeOK
<1> HIDE DEF Inv
<1>3. (BrokerTypeOK /\ ServerTypeOK => PlacesTyped(r))'
  BY PlacesHaveTypes, PTL
<1> QED
  BY <1>1, <1>2, <1>3

\* A step that brings a request to no place it was not in makes no copy of it.
LEMMA NoNewCopy ==
  ASSUME NEW r \in Requests, PlacesTyped(r), PlacesTyped(r)',
         modelQueue'[r] <= modelQueue[r],
         \A o \in PrivateOrgs : privateQueue'[o][r] <= privateQueue[o][r],
         \A c \in Consumers : deferred'[c][r] <= deferred[c][r],
         \A c \in Consumers, t \in Tags : Held(c, t, r)' => Held(c, t, r),
         AnswersTo(r)' \subseteq AnswersTo(r)
  PROVE  Copies(r)' <= Copies(r)
<1>1. SumFunctionOnSet(InPrivate(r)', PrivateOrgs) <= SumFunctionOnSet(InPrivate(r), PrivateOrgs)
  <2>1. \A o \in PrivateOrgs : InPrivate(r)'[o] \in Int /\ InPrivate(r)[o] \in Int
          /\ InPrivate(r)'[o] <= InPrivate(r)[o]
    BY DEF PlacesTyped, InPrivate
  <2> QED
    BY <2>1, FinitePlaces, SumMonotone
<1>2. SumFunctionOnSet(InDeferred(r)', Consumers) <= SumFunctionOnSet(InDeferred(r), Consumers)
  <2>1. \A c \in Consumers : InDeferred(r)'[c] \in Int /\ InDeferred(r)[c] \in Int
          /\ InDeferred(r)'[c] <= InDeferred(r)[c]
    BY DEF PlacesTyped, InDeferred
  <2> QED
    BY <2>1, FinitePlaces, SumMonotone
<1>3. Cardinality(Holders(r)') <= Cardinality(Holders(r))
  <2>1. Holders(r)' \in SUBSET Holders(r)
    BY DEF Holders
  <2> QED
    BY <2>1, FS_Subset DEF PlacesTyped
<1>4. Cardinality(AnswersTo(r)') <= Cardinality(AnswersTo(r))
  BY FS_Subset DEF PlacesTyped
<1> QED
  BY <1>1, <1>2, <1>3, <1>4, CopiesAre DEF PlacesTyped, CopiesIn

\* What a step that changes one bag does to a sum.
LEMMA SumsMove ==
  ASSUME NEW r \in Requests, PlacesTyped(r), PlacesTyped(r)'
  PROVE  /\ \A o \in PrivateOrgs :
              (\A p \in PrivateOrgs : p # o => privateQueue'[p][r] = privateQueue[p][r]) =>
                SumFunctionOnSet(InPrivate(r)', PrivateOrgs)
                  - SumFunctionOnSet(InPrivate(r), PrivateOrgs)
                  = privateQueue'[o][r] - privateQueue[o][r]
         /\ \A c \in Consumers :
              (\A d \in Consumers : d # c => deferred'[d][r] = deferred[d][r]) =>
                SumFunctionOnSet(InDeferred(r)', Consumers)
                  - SumFunctionOnSet(InDeferred(r), Consumers)
                  = deferred'[c][r] - deferred[c][r]
<1>1. ASSUME NEW o \in PrivateOrgs,
             \A p \in PrivateOrgs : p # o => privateQueue'[p][r] = privateQueue[p][r]
      PROVE  SumFunctionOnSet(InPrivate(r)', PrivateOrgs)
               - SumFunctionOnSet(InPrivate(r), PrivateOrgs)
               = privateQueue'[o][r] - privateQueue[o][r]
  <2>1. \A p \in PrivateOrgs : /\ InPrivate(r)[p] \in Int /\ InPrivate(r)'[p] \in Int
                               /\ p # o => InPrivate(r)'[p] = InPrivate(r)[p]
    BY <1>1 DEF PlacesTyped, InPrivate
  <2>2. InPrivate(r)[o] = privateQueue[o][r] /\ InPrivate(r)'[o] = privateQueue'[o][r]
    BY DEF InPrivate
  <2>3. SumFunctionOnSet(InPrivate(r)', PrivateOrgs) - SumFunctionOnSet(InPrivate(r), PrivateOrgs)
          = InPrivate(r)'[o] - InPrivate(r)[o]
    BY <2>1, FinitePlaces, SumChange
  <2> QED
    BY <2>2, <2>3
<1>2. ASSUME NEW c \in Consumers,
             \A d \in Consumers : d # c => deferred'[d][r] = deferred[d][r]
      PROVE  SumFunctionOnSet(InDeferred(r)', Consumers)
               - SumFunctionOnSet(InDeferred(r), Consumers)
               = deferred'[c][r] - deferred[c][r]
  <2>1. \A d \in Consumers : /\ InDeferred(r)[d] \in Int /\ InDeferred(r)'[d] \in Int
                             /\ d # c => InDeferred(r)'[d] = InDeferred(r)[d]
    BY <1>2 DEF PlacesTyped, InDeferred
  <2>2. InDeferred(r)[c] = deferred[c][r] /\ InDeferred(r)'[c] = deferred'[c][r]
    BY DEF InDeferred
  <2>3. SumFunctionOnSet(InDeferred(r)', Consumers) - SumFunctionOnSet(InDeferred(r), Consumers)
          = InDeferred(r)'[c] - InDeferred(r)[c]
    BY <2>1, FinitePlaces, SumChange
  <2> QED
    BY <2>2, <2>3
<1> QED
  BY <1>1, <1>2

\* What a step of one callback does to those that hold the request.
LEMMA HoldersMove ==
  ASSUME NEW r \in Requests, PlacesTyped(r), NEW c \in Consumers, NEW t \in Tags,
         \A d \in Consumers, u \in Tags : d # c \/ u # t => callback'[d][u] = callback[d][u]
  PROVE  /\ ~Held(c, t, r) /\ Held(c, t, r)' =>
              Cardinality(Holders(r)') = Cardinality(Holders(r)) + 1
         /\ Held(c, t, r) /\ ~Held(c, t, r)' =>
              Cardinality(Holders(r)') = Cardinality(Holders(r)) - 1
<1>1. \A p \in Consumers \X Tags :
        p # <<c, t>> => callback'[p[1]][p[2]] = callback[p[1]][p[2]]
  OBVIOUS
<1>2. ASSUME ~Held(c, t, r), Held(c, t, r)'
      PROVE  Cardinality(Holders(r)') = Cardinality(Holders(r)) + 1
  <2>1. Holders(r)' = Holders(r) \cup {<<c, t>>} /\ <<c, t>> \notin Holders(r)
    BY <1>1, <1>2 DEF Holders, Held, Has
  <2> QED
    BY <2>1, FS_AddElement DEF PlacesTyped
<1>3. ASSUME Held(c, t, r), ~Held(c, t, r)'
      PROVE  Cardinality(Holders(r)') = Cardinality(Holders(r)) - 1
  <2>1. Holders(r)' = Holders(r) \ {<<c, t>>} /\ <<c, t>> \in Holders(r)
    BY <1>1, <1>3 DEF Holders, Held, Has
  <2> QED
    BY <2>1, FS_RemoveElement DEF PlacesTyped
<1> QED
  BY <1>2, <1>3

LEMMA NowhereNoCopy ==
  ASSUME NEW r \in Requests, Nowhere(r)
  PROVE  Copies(r) = 0
<1>1. SumFunctionOnSet(InPrivate(r), PrivateOrgs) = 0
  <2>1. \A o \in PrivateOrgs : InPrivate(r)[o] = 0
    BY DEF Nowhere, InPrivate
  <2> QED
    BY <2>1, FinitePlaces, SumZero
<1>2. SumFunctionOnSet(InDeferred(r), Consumers) = 0
  <2>1. \A c \in Consumers : InDeferred(r)[c] = 0
    BY DEF Nowhere, InDeferred
  <2> QED
    BY <2>1, FinitePlaces, SumZero
<1>3. Holders(r) = {} /\ AnswersTo(r) = {}
  BY DEF Nowhere, Holders, Held, Has, AnswersTo
<1>4. Cardinality(Holders(r)) = 0 /\ Cardinality(AnswersTo(r)) = 0
  BY <1>3, FS_EmptySet
<1>5. modelQueue[r] = 0
  BY DEF Nowhere
<1>6. CopiesIn(r) = 0
  BY <1>1, <1>2, <1>4, <1>5 DEF CopiesIn
<1> QED
  BY <1>6, CopiesAre

LEMMA BagCounts ==
  ASSUME NEW bag \in Bags, NEW r \in Requests
  PROVE  Put(bag, r)[r] = bag[r] + 1 /\ Take(bag, r)[r] = bag[r] - 1
BY DEF Bags, Put, Take

CopyInv == Inv /\ OneCopy

\* Publications and requeues make no copy of the other requests.
LEMMA OneCopyClient ==
  ASSUME CopyInv, Inv', NEW r \in Requests, ClientStep(r)
  PROVE  OneCopy'
<1>1. UNCHANGED <<deferred, callback, callbackQueue>>
  BY DEF ClientStep, SenderOnly, serverVars, Validate, RefuseRouting, RejectOverloaded,
     StartCall, Timeout, PublishRequest, Answered, Forward, Busy, EndService, SendCompletion, ClientFaults,
     PublishRequestFails, FailService, DropCompletion, brokerVars
<1> SUFFICES ASSUME NEW q \in Requests PROVE Copies(q)' <= 1
  BY DEF OneCopy
<1>2. PlacesTyped(q) /\ PlacesTyped(q)' /\ Copies(q) <= 1 /\ Copies(q) \in Nat
      /\ Copies(q)' \in Nat
  BY CopiesTyped, CopiesAre DEF CopyInv, OneCopy, PlacesTyped, CopiesIn
<1>3. InDeferred(q)' = InDeferred(q) /\ Holders(q)' = Holders(q)
      /\ AnswersTo(q)' = AnswersTo(q)
  BY <1>1 DEF InDeferred, Holders, Held, Has, AnswersTo
<1>4. CASE PublishRequest(r) /\ q = r
  <2>1. Copies(q) = 0
    <3>1. call[q] \in Unsent
      BY <1>4 DEF PublishRequest, Unsent
    <3> QED
      BY <3>1, PlaceTypes, NowhereNoCopy DEF CopyInv, Placed
  <2>2. CASE modelQueue' = Put(modelQueue, r) /\ privateQueue' = privateQueue
    <3>1. modelQueue'[q] = modelQueue[q] + 1
      BY <1>4, <2>2, PlaceTypes, BagCounts DEF CopyInv
    <3>2. InPrivate(q)' = InPrivate(q)
      BY <2>2 DEF InPrivate
    <3> QED
      BY <1>2, <1>3, <2>1, <3>1, <3>2, CopiesAre DEF CopiesIn, PlacesTyped
  <2>3. CASE UserOrg[r] \in PrivateOrgs /\ modelQueue' = modelQueue
             /\ privateQueue' = [privateQueue EXCEPT ![UserOrg[r]] = Put(@, r)]
    <3>1. privateQueue[UserOrg[r]] \in Bags
          /\ privateQueue'[UserOrg[r]] = Put(privateQueue[UserOrg[r]], r)
          /\ \A p \in PrivateOrgs : p # UserOrg[r] => privateQueue'[p] = privateQueue[p]
      BY <2>3, PlaceTypes DEF CopyInv
    <3>2. privateQueue'[UserOrg[r]][q] = privateQueue[UserOrg[r]][q] + 1
      BY <1>4, <3>1, BagCounts
    <3>3. SumFunctionOnSet(InPrivate(q)', PrivateOrgs)
            - SumFunctionOnSet(InPrivate(q), PrivateOrgs)
            = privateQueue'[UserOrg[r]][q] - privateQueue[UserOrg[r]][q]
      BY <1>2, <2>3, <3>1, SumsMove
    <3>4. privateQueue[UserOrg[r]][q] \in Nat
      BY <3>1 DEF Bags
    <3> QED
      BY <1>2, <1>3, <2>1, <2>3, <3>2, <3>3, <3>4, CopiesAre DEF CopiesIn, PlacesTyped
  <2>4. CASE modelQueue' = modelQueue /\ privateQueue' = privateQueue
    <3>1. InPrivate(q)' = InPrivate(q)
      BY <2>4 DEF InPrivate
    <3> QED
      BY <1>2, <1>3, <2>1, <2>4, <3>1, CopiesAre DEF CopiesIn, PlacesTyped
  <2> QED
    BY <1>4, <2>2, <2>3, <2>4 DEF PublishRequest, Enqueue
<1>5. CASE ~(PublishRequest(r) /\ q = r)
  <2>1. CASE PublishRequest(r)
    <3>1. modelQueue'[q] = modelQueue[q]
      BY <1>5, <2>1, PlaceTypes, BagOfOthers DEF CopyInv, PublishRequest, Enqueue
    <3>2. \A o \in PrivateOrgs : privateQueue'[o][q] = privateQueue[o][q]
      BY <1>5, <2>1, PlaceTypes, BagsOfOthers DEF CopyInv, PublishRequest, Enqueue
    <3>3. InPrivate(q)' = InPrivate(q)
      BY <3>2 DEF InPrivate
    <3> QED
      BY <1>2, <1>3, <3>1, <3>3, CopiesAre DEF CopiesIn
  <2>2. CASE ~PublishRequest(r)
    <3>1. UNCHANGED <<modelQueue, privateQueue>>
      BY <2>2 DEF ClientStep, Validate, RefuseRouting, RejectOverloaded, StartCall, Timeout,
         Answered, Forward, Busy, EndService, SendCompletion, ClientFaults,
         PublishRequestFails, FailService, DropCompletion, brokerVars
    <3>2. InPrivate(q)' = InPrivate(q)
      BY <3>1 DEF InPrivate
    <3> QED
      BY <1>2, <1>3, <3>1, <3>2, CopiesAre DEF CopiesIn
  <2> QED
    BY <2>1, <2>2
<1> QED
  BY <1>4, <1>5

\* A delivery moves a copy from a queue to a callback.
LEMMA OneCopyDeliver ==
  ASSUME CopyInv, Inv', NEW c \in Consumers, NEW t \in Tags, Deliver(c, t)
  PROVE  OneCopy'
<1>1. PICK r \in Requests : DeliverMain(c, t, r) \/ DeliverPrivate(c, t, r)
  BY DEF Deliver
<1>2. UNCHANGED <<deferred, callbackQueue>> /\ callback[c][t] = Idle
  BY <1>1 DEF DeliverMain, DeliverPrivate
<1>3. PICK phase \in {"publishing", "deferring", "stuck"}, s \in Servers \cup {NoServer} :
        SetCallback(c, t, [phase |-> phase, id |-> r, server |-> s])
  BY <1>1, Delivery DEF CopyInv
<1>4. /\ callback'[c][t].id = r /\ callback'[c][t].phase = phase
      /\ \A d \in Consumers, u \in Tags : d # c \/ u # t => callback'[d][u] = callback[d][u]
  BY <1>3, PlaceTypes DEF CopyInv, SetCallback
<1> SUFFICES ASSUME NEW q \in Requests PROVE Copies(q)' <= 1
  BY DEF OneCopy
<1>5. PlacesTyped(q) /\ PlacesTyped(q)' /\ Copies(q) <= 1 /\ Copies(q) \in Nat
      /\ Copies(q)' \in Nat
  BY CopiesTyped, CopiesAre DEF CopyInv, OneCopy, PlacesTyped, CopiesIn
<1>6. InDeferred(q)' = InDeferred(q) /\ AnswersTo(q)' = AnswersTo(q)
  BY <1>2 DEF InDeferred, AnswersTo
<1>7. CASE q # r
  <2>1. modelQueue'[q] = modelQueue[q]
    BY <1>1, <1>7, PlaceTypes, BagOfOthers DEF CopyInv, DeliverMain, DeliverPrivate
  <2>2. \A o \in PrivateOrgs : privateQueue'[o][q] = privateQueue[o][q]
    <3>1. \/ privateQueue' = privateQueue
          \/ privateQueue' = [privateQueue EXCEPT ![Org[t]] = Take(@, r)]
      BY <1>1 DEF DeliverMain, DeliverPrivate
    <3>2. privateQueue \in [PrivateOrgs -> Bags]
      BY PlaceTypes DEF CopyInv
    <3> QED
      BY <1>7, <3>1, <3>2, BagsOfOthers
  <2>3. InPrivate(q)' = InPrivate(q)
    BY <2>2 DEF InPrivate
  <2>4. Holders(q)' = Holders(q)
    <3>1. \A p \in Consumers \X Tags : Held(p[1], p[2], q)' <=> Held(p[1], p[2], q)
      BY <1>2, <1>4, <1>7, Assumptions DEF Held, Has, Idle
    <3> QED
      BY <3>1 DEF Holders
  <2> QED
    BY <1>5, <1>6, <2>1, <2>3, <2>4, CopiesAre DEF CopiesIn
<1>8. CASE q = r
  <2>1. Cardinality(Holders(q)') <= Cardinality(Holders(q)) + 1
        /\ Cardinality(Holders(q)') \in Nat /\ Cardinality(Holders(q)) \in Nat
    <3>1. ~Held(c, t, q)
      BY <1>2 DEF Held, Has, Idle
    <3>2. CASE Held(c, t, q)'
      BY <1>4, <1>5, <3>1, <3>2, HoldersMove DEF PlacesTyped
    <3>3. CASE ~Held(c, t, q)'
      <4>1. Holders(q)' = Holders(q)
        BY <1>4, <3>1, <3>3 DEF Holders, Held, Has
      <4> QED
        BY <1>5, <4>1 DEF PlacesTyped
    <3> QED
      BY <3>2, <3>3
  <2>2. CASE DeliverMain(c, t, r)
    <3>1. modelQueue' = Take(modelQueue, q) /\ privateQueue' = privateQueue
      BY <1>8, <2>2 DEF DeliverMain
    <3>2. modelQueue'[q] = modelQueue[q] - 1
      BY <3>1, PlaceTypes, BagCounts DEF CopyInv
    <3>3. InPrivate(q)' = InPrivate(q)
      BY <3>1 DEF InPrivate
    <3> QED
      BY <1>5, <1>6, <2>1, <3>2, <3>3, CopiesAre DEF CopiesIn, PlacesTyped
  <2>3. CASE DeliverPrivate(c, t, r)
    <3>1. modelQueue' = modelQueue /\ Org[t] \in PrivateOrgs
          /\ privateQueue' = [privateQueue EXCEPT ![Org[t]] = Take(@, q)]
      BY <1>8, <2>3, Assumptions DEF DeliverPrivate, PrivateOrgs
    <3>2. privateQueue[Org[t]] \in Bags
          /\ privateQueue'[Org[t]] = Take(privateQueue[Org[t]], q)
          /\ \A o \in PrivateOrgs : o # Org[t] => privateQueue'[o] = privateQueue[o]
      BY <3>1, PlaceTypes DEF CopyInv
    <3>3. privateQueue'[Org[t]][q] = privateQueue[Org[t]][q] - 1
          /\ privateQueue[Org[t]][q] \in Nat
      BY <3>2, BagCounts DEF Bags
    <3>4. SumFunctionOnSet(InPrivate(q)', PrivateOrgs)
            - SumFunctionOnSet(InPrivate(q), PrivateOrgs)
            = privateQueue'[Org[t]][q] - privateQueue[Org[t]][q]
      BY <1>5, <3>1, <3>2, SumsMove
    <3> QED
      BY <1>5, <1>6, <2>1, <3>1, <3>3, <3>4, CopiesAre DEF CopiesIn, PlacesTyped
  <2> QED
    BY <1>1, <2>2, <2>3
<1> QED
  BY <1>7, <1>8

\* A callback moves its copy to the answers or to the sleeping requeues.
LEMMA OneCopyProceed ==
  ASSUME CopyInv, Inv', NEW c \in Consumers, NEW t \in Tags,
         Proceed(c, t) \/ PublishReplyFails(c, t)
  PROVE  OneCopy'
<1> DEFINE r == callback[c][t].id
<1>1. UNCHANGED <<modelQueue, privateQueue>>
      /\ \A d \in Consumers, u \in Tags : d # c \/ u # t => callback'[d][u] = callback[d][u]
  BY PlaceTypes DEF CopyInv, Proceed, PublishReply, FinishCallback, DeferAck, BrokerAck,
     PublishReplyFails, SetCallback, Advance, brokerVars
<1>2. callback[c][t] \in Callbacks /\ Idle \in Callbacks
  BY PlaceTypes, Assumptions DEF CopyInv, Callbacks, Idle, Phases
<1>3. \A q \in Requests : ~Held(c, t, q)'
  <2>1. callback'[c][t].phase \notin {"publishing", "deferring"}
    <3>1. CASE BrokerAck(c, t)
      BY <3>1, PlaceTypes DEF CopyInv, BrokerAck, SetCallback, Idle
    <3>2. CASE ~BrokerAck(c, t)
      <4>1. PICK phase \in {"replied", "acking", "stuck"} : Advance(c, t, phase)
        BY <3>2 DEF Proceed, PublishReply, FinishCallback, DeferAck, PublishReplyFails
      <4>2. callback'[c][t] = [callback[c][t] EXCEPT !.phase = phase]
        BY <4>1, PlaceTypes DEF CopyInv, Advance
      <4>3. callback'[c][t].phase = phase
        BY <1>2, <4>2 DEF Callbacks
      <4> QED
        BY <4>3
    <3> QED
      BY <3>1, <3>2
  <2> QED
    BY <2>1 DEF Held, Has
<1> SUFFICES ASSUME NEW q \in Requests PROVE Copies(q)' <= 1
  BY DEF OneCopy
<1>4. PlacesTyped(q) /\ PlacesTyped(q)' /\ Copies(q) <= 1 /\ Copies(q) \in Nat
      /\ Copies(q)' \in Nat
  BY CopiesTyped, CopiesAre DEF CopyInv, OneCopy, PlacesTyped, CopiesIn
<1>5. InPrivate(q)' = InPrivate(q)
  BY <1>1 DEF InPrivate
<1>6. \A d \in Consumers, u \in Tags : Held(d, u, q)' => Held(d, u, q)
  BY <1>1, <1>3 DEF Held, Has
<1>7. CASE PublishReply(c, t) /\ q = r
  <2> DEFINE m == [id |-> r, server |-> callback[c][t].server]
  <2>1. callbackQueue' = callbackQueue \cup {m} /\ deferred' = deferred /\ Held(c, t, q)
    BY <1>7 DEF PublishReply, Held, Has
  <2>2. Cardinality(Holders(q)') = Cardinality(Holders(q)) - 1
    BY <1>1, <1>3, <1>4, <2>1, HoldersMove
  <2>3. AnswersTo(q)' = AnswersTo(q) \cup {m}
    BY <1>7, <2>1 DEF AnswersTo
  <2> HIDE DEF m
  <2>4. Cardinality(AnswersTo(q)') <= Cardinality(AnswersTo(q)) + 1
    BY <1>4, <2>3, FS_AddElement DEF PlacesTyped
  <2>5. InDeferred(q)' = InDeferred(q)
    BY <2>1 DEF InDeferred
  <2> QED
    BY <1>1, <1>4, <1>5, <2>2, <2>4, <2>5, CopiesAre DEF CopiesIn, PlacesTyped
<1>8. CASE DeferAck(c, t) /\ q = r
  <2>1. deferred' = [deferred EXCEPT ![c] = Put(@, q)] /\ callbackQueue' = callbackQueue
        /\ Held(c, t, q)
    BY <1>8 DEF DeferAck, brokerVars, Held, Has
  <2>2. Cardinality(Holders(q)') = Cardinality(Holders(q)) - 1
    BY <1>1, <1>3, <1>4, <2>1, HoldersMove
  <2>3. AnswersTo(q)' = AnswersTo(q)
    BY <2>1 DEF AnswersTo
  <2>4. deferred[c] \in Bags /\ deferred'[c] = Put(deferred[c], q)
        /\ \A d \in Consumers : d # c => deferred'[d] = deferred[d]
    BY <2>1, PlaceTypes DEF CopyInv
  <2>5. deferred'[c][q] = deferred[c][q] + 1 /\ deferred[c][q] \in Nat
    BY <2>4, BagCounts DEF Bags
  <2>6. SumFunctionOnSet(InDeferred(q)', Consumers) - SumFunctionOnSet(InDeferred(q), Consumers)
          = deferred'[c][q] - deferred[c][q]
    BY <1>4, <2>4, SumsMove
  <2> QED
    BY <1>1, <1>4, <1>5, <2>2, <2>3, <2>5, <2>6, CopiesAre DEF CopiesIn, PlacesTyped
<1>9. CASE ~(PublishReply(c, t) /\ q = r) /\ ~(DeferAck(c, t) /\ q = r)
  <2>1. AnswersTo(q)' \subseteq AnswersTo(q)
    BY <1>9 DEF Proceed, PublishReply, FinishCallback, DeferAck, BrokerAck, PublishReplyFails,
       brokerVars, AnswersTo
  <2>2. \A d \in Consumers : deferred'[d][q] <= deferred[d][q]
    <3>1. \A d \in Consumers : deferred'[d][q] = deferred[d][q]
      <4>1. CASE DeferAck(c, t)
        <5>1. r \in Requests /\ deferred' = [deferred EXCEPT ![c] = Put(@, r)]
          BY <4>1, PlaceTypes DEF CopyInv, DeferAck, CallbacksHoldRequests
        <5> QED
          BY <1>9, <4>1, <5>1, PlaceTypes, BagsOfOthers DEF CopyInv
      <4>2. CASE ~DeferAck(c, t)
        BY <4>2 DEF Proceed, PublishReply, FinishCallback, BrokerAck, PublishReplyFails
      <4> QED
        BY <4>1, <4>2
    <3>2. \A d \in Consumers : deferred[d][q] \in Nat
      BY PlaceTypes DEF CopyInv, Bags
    <3> QED
      BY <3>1, <3>2
  <2>3. modelQueue'[q] <= modelQueue[q]
        /\ \A o \in PrivateOrgs : privateQueue'[o][q] <= privateQueue[o][q]
    BY <1>1, PlaceTypes DEF CopyInv, Bags
  <2> QED
    BY <1>4, <1>6, <2>1, <2>2, <2>3, NoNewCopy
<1> QED
  BY <1>7, <1>8, <1>9

\* A requeue moves its copy back to a queue.
LEMMA OneCopyRepublish ==
  ASSUME CopyInv, Inv', NEW c \in Consumers, NEW r \in Requests, Republish(c, r)
  PROVE  OneCopy'
<1>1. /\ callback' = callback /\ callbackQueue' = callbackQueue
      /\ deferred' = [deferred EXCEPT ![c] = Take(@, r)]
  BY DEF Republish
<1> SUFFICES ASSUME NEW q \in Requests PROVE Copies(q)' <= 1
  BY DEF OneCopy
<1>2. PlacesTyped(q) /\ PlacesTyped(q)' /\ Copies(q) <= 1 /\ Copies(q) \in Nat
      /\ Copies(q)' \in Nat
  BY CopiesTyped, CopiesAre DEF CopyInv, OneCopy, PlacesTyped, CopiesIn
<1>3. Holders(q)' = Holders(q) /\ AnswersTo(q)' = AnswersTo(q)
  BY <1>1 DEF Holders, Held, Has, AnswersTo
<1>4. CASE q # r
  <2>1. modelQueue'[q] = modelQueue[q]
    BY <1>4, PlaceTypes, BagOfOthers DEF CopyInv, Republish
  <2>2. \A o \in PrivateOrgs : privateQueue'[o][q] = privateQueue[o][q]
    <3>1. \/ privateQueue' = privateQueue
          \/ privateQueue' = [privateQueue EXCEPT ![UserOrg[r]] = Put(@, r)]
      BY DEF Republish
    <3>2. privateQueue \in [PrivateOrgs -> Bags]
      BY PlaceTypes DEF CopyInv
    <3> QED
      BY <1>4, <3>1, <3>2, BagsOfOthers
  <2>3. \A d \in Consumers : deferred'[d][q] = deferred[d][q]
    BY <1>1, <1>4, PlaceTypes, BagsOfOthers DEF CopyInv
  <2>4. InPrivate(q)' = InPrivate(q) /\ InDeferred(q)' = InDeferred(q)
    BY <2>2, <2>3 DEF InPrivate, InDeferred
  <2> QED
    BY <1>2, <1>3, <2>1, <2>4, CopiesAre DEF CopiesIn
<1>5. CASE q = r
  <2>1. deferred[c] \in Bags /\ deferred'[c] = Take(deferred[c], q)
        /\ \A d \in Consumers : d # c => deferred'[d] = deferred[d]
    BY <1>1, <1>5, PlaceTypes DEF CopyInv
  <2>2. deferred'[c][q] = deferred[c][q] - 1 /\ deferred[c][q] \in Nat
    BY <2>1, BagCounts DEF Bags
  <2>3. SumFunctionOnSet(InDeferred(q)', Consumers) - SumFunctionOnSet(InDeferred(q), Consumers)
          = deferred'[c][q] - deferred[c][q]
    BY <1>2, <2>1, SumsMove
  <2>4. CASE modelQueue' = Put(modelQueue, r) /\ privateQueue' = privateQueue
    <3>1. modelQueue'[q] = modelQueue[q] + 1
      BY <1>5, <2>4, PlaceTypes, BagCounts DEF CopyInv
    <3>2. InPrivate(q)' = InPrivate(q)
      BY <2>4 DEF InPrivate
    <3> QED
      BY <1>2, <1>3, <2>2, <2>3, <3>1, <3>2, CopiesAre DEF CopiesIn, PlacesTyped
  <2>5. CASE modelQueue' = modelQueue /\ UserOrg[r] \in PrivateOrgs
             /\ privateQueue' = [privateQueue EXCEPT ![UserOrg[r]] = Put(@, r)]
    <3>1. privateQueue[UserOrg[r]] \in Bags
          /\ privateQueue'[UserOrg[r]] = Put(privateQueue[UserOrg[r]], r)
          /\ \A p \in PrivateOrgs : p # UserOrg[r] => privateQueue'[p] = privateQueue[p]
      BY <2>5, PlaceTypes DEF CopyInv
    <3>2. privateQueue'[UserOrg[r]][q] = privateQueue[UserOrg[r]][q] + 1
          /\ privateQueue[UserOrg[r]][q] \in Nat
      BY <1>5, <3>1, BagCounts DEF Bags
    <3>3. SumFunctionOnSet(InPrivate(q)', PrivateOrgs)
            - SumFunctionOnSet(InPrivate(q), PrivateOrgs)
            = privateQueue'[UserOrg[r]][q] - privateQueue[UserOrg[r]][q]
      BY <1>2, <2>5, <3>1, SumsMove
    <3> QED
      BY <1>2, <1>3, <2>2, <2>3, <2>5, <3>2, <3>3, CopiesAre DEF CopiesIn, PlacesTyped
  <2>6. CASE modelQueue' = modelQueue /\ UserOrg[r] \notin PrivateOrgs
             /\ privateQueue' = [privateQueue EXCEPT ![UserOrg[r]] = Put(@, r)]
    <3>1. \A o \in PrivateOrgs : privateQueue'[o] = privateQueue[o]
      BY <2>6, PlaceTypes DEF CopyInv
    <3>2. InPrivate(q)' = InPrivate(q)
      BY <3>1 DEF InPrivate
    <3> QED
      BY <1>2, <1>3, <2>2, <2>3, <2>6, <3>2, CopiesAre DEF CopiesIn, PlacesTyped
  <2> QED
    BY <2>4, <2>5, <2>6 DEF Republish
<1> QED
  BY <1>4, <1>5

\* What else happens to messages only loses copies.
LEMMA OneCopyLess ==
  ASSUME CopyInv, Inv', callback' = callback, callbackQueue' \subseteq callbackQueue,
         \A q \in Requests : modelQueue'[q] <= modelQueue[q],
         \A q \in Requests, c \in Consumers : deferred'[c][q] <= deferred[c][q],
         privateQueue' = privateQueue
  PROVE  OneCopy'
<1> SUFFICES ASSUME NEW q \in Requests PROVE Copies(q)' <= 1
  BY DEF OneCopy
<1>1. PlacesTyped(q) /\ PlacesTyped(q)' /\ Copies(q) <= 1 /\ Copies(q) \in Nat
      /\ Copies(q)' \in Nat
  BY CopiesTyped, CopiesAre DEF CopyInv, OneCopy, PlacesTyped, CopiesIn
<1>2. \A o \in PrivateOrgs : privateQueue'[o][q] <= privateQueue[o][q]
  BY PlaceTypes DEF CopyInv, Bags
<1>3. \A c \in Consumers, t \in Tags : Held(c, t, q)' => Held(c, t, q)
  BY DEF Held, Has
<1>4. AnswersTo(q)' \subseteq AnswersTo(q)
  BY DEF AnswersTo
<1> QED
  BY <1>1, <1>2, <1>3, <1>4, NoNewCopy

LEMMA OneCopyTasks ==
  ASSUME CopyInv, Inv',
         \/ \E r \in Requests : MessageExpires(r) /\ UNCHANGED serverVars
         \/ \E c \in Consumers :
              \/ \E r \in Requests : RepublishFails(c, r)
              \/ \E s \in Servers, r \in Requests : Expire(c, s, r)
              \/ Complete(c)
              \/ UpdateServers(c)
         \/ LoseReplies /\ SenderOnly
         \/ Receive
         \/ UNCHANGED vars
  PROVE  OneCopy'
<1>1. callback' = callback /\ callbackQueue' \subseteq callbackQueue /\ privateQueue' = privateQueue
  BY DEF MessageExpires, RepublishFails, Expire, ExpireRequest, Complete, HandleCompletion,
     WedgeOnCompletion, UpdateServers, LoseReplies, Receive, OnResponse, SenderOnly, vars,
     brokerVars, serverVars
<1>2. /\ \A q \in Requests : modelQueue[q] \in Nat
      /\ \A q \in Requests, c \in Consumers : deferred[c][q] \in Nat
  BY PlaceTypes DEF CopyInv, Bags
<1>3. \A q \in Requests : modelQueue'[q] <= modelQueue[q]
  <2>1. CASE \E r \in Requests : MessageExpires(r)
    <3>1. PICK r \in Requests : modelQueue' = Take(modelQueue, r)
      BY <2>1 DEF MessageExpires
    <3>2. modelQueue \in Bags
      BY PlaceTypes DEF CopyInv
    <3> QED
      BY <3>1, <3>2 DEF Bags, Take
  <2>2. CASE modelQueue' = modelQueue
    BY <1>2, <2>2
  <2> QED
    BY <2>1, <2>2 DEF RepublishFails, Expire, ExpireRequest, Complete, HandleCompletion,
       WedgeOnCompletion, UpdateServers, LoseReplies, Receive, OnResponse, SenderOnly, vars,
       brokerVars
<1>4. \A q \in Requests, c \in Consumers : deferred'[c][q] <= deferred[c][q]
  <2>1. CASE \E d \in Consumers, r \in Requests : RepublishFails(d, r)
    <3>1. PICK d \in Consumers, r \in Requests : deferred' = [deferred EXCEPT ![d] = Take(@, r)]
      BY <2>1 DEF RepublishFails
    <3>2. deferred \in [Consumers -> Bags]
      BY PlaceTypes DEF CopyInv
    <3>3. \A c \in Consumers : deferred'[c] = IF c = d THEN Take(deferred[c], r) ELSE deferred[c]
      BY <3>1, <3>2
    <3>4. \A bag \in Bags, q \in Requests : Take(bag, r)[q] <= bag[q]
      BY DEF Bags, Take
    <3> QED
      BY <1>2, <3>2, <3>3, <3>4
  <2>2. CASE deferred' = deferred
    BY <1>2, <2>2
  <2> QED
    BY <2>1, <2>2 DEF MessageExpires, Expire, ExpireRequest, Complete, HandleCompletion,
       WedgeOnCompletion, UpdateServers, LoseReplies, Receive, OnResponse, SenderOnly, vars,
       brokerVars, serverVars
<1> QED
  BY <1>1, <1>3, <1>4, OneCopyLess

LEMMA OneCopyNext ==
  ASSUME CopyInv, Inv', [Next]_vars, FaultKinds \cap {"crash", "reconnect"} = {}
  PROVE  OneCopy'
<1>1. ASSUME NEW r \in Requests, ClientStep(r) PROVE OneCopy'
  BY <1>1, OneCopyClient
<1>2. ASSUME NEW c \in Consumers, ConsumerStep(c) PROVE OneCopy'
  <2>1. ~Crash(c) /\ ~ConnectionLost(c)
    BY DEF Crash, ConnectionLost, Fault
  <2> QED
    BY <1>2, <2>1, OneCopyDeliver, OneCopyProceed, OneCopyRepublish, OneCopyTasks
       DEF ConsumerStep
<1> QED
  BY <1>1, <1>2, OneCopyTasks DEF Next, BrokerStep, Finished

\* Whatever is published, refused, expired, deferred or lost on the way, and
\* however many consumers take part, a request is never in two places.
THEOREM OneCopyOnly ==
  ASSUME FaultKinds \cap {"crash", "reconnect"} = {}
  PROVE  Spec => []OneCopy
<1>1. Init => OneCopy
  <2> SUFFICES ASSUME Init, NEW r \in Requests PROVE Copies(r) <= 1
    BY DEF OneCopy
  <2>1. Nowhere(r)
    BY WhereaboutsInit DEF Whereabouts, Placed, Init, ClientInit, Unsent
  <2> QED
    BY <2>1, NowhereNoCopy
<1>2. CopyInv /\ Inv' /\ [Next]_vars => OneCopy'
  BY OneCopyNext
<1> QED
  BY <1>1, <1>2, InvHolds, PTL DEF Spec, CopyInv

-----------------------------------------------------------------------------
(* The load of a server.  A consumer only grants the servers it hosts, so   *)
(* the requests a server works on are covered by what its hosts count and   *)
(* what their callbacks are about to: each host by no more than its limit   *)
(* and its overshoot.                                                       *)

GrantsHosted(c) ==
  /\ \A t \in Tags : callback[c][t].server \in Hosts[c] \cup {NoServer}
  /\ \A s \in Servers : slots[c][s] # {} => s \in Hosts[c]

HostedInv == \A c \in Consumers : GrantsHosted(c)

\* A consumer that chooses only among its hosts keeps to them.
LEMMA HostedStep ==
  ASSUME TypeInv, NEW c \in Consumers, GrantsHosted(c), healthy[c] \subseteq Hosts[c],
         NEW d \in Consumers, ConsumerStep(d)
  PROVE  GrantsHosted(c)'
<1>1. /\ callback \in [Consumers -> [Tags -> Callbacks]]
      /\ slots \in [Consumers -> [Servers -> SUBSET Requests]]
      /\ Hosts[c] \subseteq Servers
  BY Assumptions DEF TypeInv, TypeOK, ServerTypeOK
<1>2. ASSUME NEW t \in Tags PROVE callback'[c][t].server \in Hosts[c] \cup {NoServer}
  <2>1. callback[c][t].server \in Hosts[c] \cup {NoServer} /\ callback[c][t] \in Callbacks
    BY <1>1 DEF GrantsHosted
  <2>2. CASE callback'[c][t] = callback[c][t]
    BY <2>1, <2>2
  <2>3. CASE \E u \in Tags, phase \in Phases : Advance(d, u, phase)
    <3>1. PICK u \in Tags, phase \in Phases :
            callback' = [callback EXCEPT ![d][u] = [callback[d][u] EXCEPT !.phase = phase]]
      BY <2>3 DEF Advance
    <3>2. [callback[c][t] EXCEPT !.phase = phase].server = callback[c][t].server
      BY <2>1 DEF Callbacks
    <3>3. callback'[c][t] \in {callback[c][t], [callback[c][t] EXCEPT !.phase = phase]}
      BY <1>1, <3>1
    <3> QED
      BY <2>1, <3>2, <3>3
  <2>4. CASE \E u \in Tags : SetCallback(d, u, Idle)
    BY <1>1, <2>1, <2>4 DEF SetCallback, Idle
  <2>5. CASE ReturnUnacked(d)
    BY <1>1, <2>1, <2>5 DEF ReturnUnacked, Idle
  <2>6. CASE \E u \in Tags : Deliver(d, u)
    <3>1. PICK u \in Tags, r \in Requests : DeliverMain(d, u, r) \/ DeliverPrivate(d, u, r)
      BY <2>6 DEF Deliver
    <3>2. \E phase \in Phases, s \in healthy[d] \cup Hosts[d] \cup {NoServer} :
            SetCallback(d, u, [phase |-> phase, id |-> r, server |-> s])
      BY <3>1 DEF DeliverMain, DeliverPrivate, Decide, Phases
    <3>3. PICK phase \in Phases, s \in healthy[d] \cup Hosts[d] \cup {NoServer} :
            callback' = [callback EXCEPT ![d][u] = [phase |-> phase, id |-> r, server |-> s]]
      BY <3>2 DEF SetCallback
    <3> QED
      BY <1>1, <2>1, <3>3
  <2>7. \/ \E u \in Tags, phase \in Phases : Advance(d, u, phase)
        \/ \E u \in Tags : SetCallback(d, u, Idle)
        \/ \E u \in Tags : Deliver(d, u)
        \/ ReturnUnacked(d)
        \/ callback' = callback
    BY DEF ConsumerStep, Proceed, PublishReply, FinishCallback, DeferAck, BrokerAck,
       PublishReplyFails, Republish, RepublishFails, Expire, ExpireRequest, Complete,
       HandleCompletion, WedgeOnCompletion, UpdateServers, ConnectionLost, Crash, Phases
  <2> QED
    BY <2>2, <2>3, <2>4, <2>5, <2>6, <2>7
<1>3. ASSUME NEW s \in Servers, slots'[c][s] # {} PROVE s \in Hosts[c]
  <2>1. CASE \E t \in Tags : FinishCallback(d, t)
    <3>1. PICK t \in Tags : CountRequest(d, callback[d][t].server, callback[d][t].id)
      BY <2>1 DEF FinishCallback
    <3>2. CASE slots'[c][s] = slots[c][s]
      BY <1>3, <3>2 DEF GrantsHosted
    <3>3. CASE slots'[c][s] # slots[c][s]
      <4> DEFINE q == callback[d][t].server
                 id == callback[d][t].id
      <4>1. q \in Servers /\ slots' = [slots EXCEPT ![d][q] = @ \cup {id}]
        BY <3>1, <3>3 DEF CountRequest
      <4> HIDE DEF q, id
      <4>2. d = c /\ q = s
        BY <1>1, <3>3, <4>1
      <4> QED
        BY <4>2, ServersAssumption DEF GrantsHosted, q
    <3> QED
      BY <3>2, <3>3
  <2>2. CASE ~\E t \in Tags : FinishCallback(d, t)
    <3>1. \/ slots' = slots
          \/ \E id : \E q \in Servers : slots' = [slots EXCEPT ![d][q] = @ \ {id}]
          \/ slots' = [slots EXCEPT ![d] = [q \in Servers |-> {}]]
      <4>1. CASE Complete(d)
        BY <1>1, <4>1, Assumptions DEF Complete, HandleCompletion, WedgeOnCompletion
      <4>2. CASE \E q \in Servers, id \in Requests : Expire(d, q, id)
        BY <4>2 DEF Expire, ExpireRequest
      <4> QED
        BY <2>2, <4>1, <4>2 DEF ConsumerStep, Deliver, DeliverMain, DeliverPrivate, Proceed,
           PublishReply, DeferAck, BrokerAck, PublishReplyFails, Republish, RepublishFails,
           UpdateServers, ConnectionLost, Crash
    <3>2. slots'[c][s] \subseteq slots[c][s]
      BY <1>1, <3>1
    <3> QED
      BY <1>3, <3>2 DEF GrantsHosted
  <2> QED
    BY <2>1, <2>2
<1> QED
  BY <1>2, <1>3 DEF GrantsHosted

LEMMA HostedHolds ==
  ASSUME Policy = ParallelRequests
  PROVE  Spec => []HostedInv
<1>1. Init => HostedInv
  BY DEF Init, ServerInit, HostedInv, GrantsHosted, Idle
<1>2. TypeInv /\ OvershootInv /\ HostedInv /\ [Next]_vars => HostedInv'
  <2> SUFFICES ASSUME TypeInv, OvershootInv, HostedInv, [Next]_vars PROVE HostedInv'
    OBVIOUS
  <2>1. ASSUME NEW d \in Consumers, ConsumerStep(d) PROVE HostedInv'
    BY <2>1, HostedStep DEF HostedInv, OvershootInv, ConsumerInv
  <2>2. CASE UNCHANGED serverVars
    BY <2>2 DEF serverVars, HostedInv, GrantsHosted
  <2> QED
    BY <2>1, <2>2 DEF Next, ClientStep, Receive, SenderOnly, BrokerStep, Finished, vars,
       serverVars
<1>3. Spec => []OvershootInv
  BY OvershootHolds
<1> QED
  BY <1>1, <1>2, <1>3, TypeInvariant, PTL DEF Spec

\* What consumer c counts of server s, or is about to.
Share(c, s) == Counted(c, s) \cup {callback[c][t].id : t \in Undecided(c, s)}

LEMMA ShareBounded ==
  ASSUME TypeInv, OvershootInv, NEW c \in Consumers, NEW s \in Hosts[c]
  PROVE  IsFiniteSet(Share(c, s)) /\ Cardinality(Share(c, s)) <= Overshoot(c, s)
         /\ Overshoot(c, s) \in Int
<1> DEFINE ids == {callback[c][t].id : t \in Undecided(c, s)}
<1>1. s \in Servers /\ MaxParallel[s] \in Nat
  BY Assumptions
<1>2. IsFiniteSet(ids) /\ Cardinality(ids) <= Cardinality(Undecided(c, s))
      /\ Cardinality(ids) \in Nat
  <2>1. [t \in Undecided(c, s) |-> callback[c][t].id] \in Surjection(Undecided(c, s), ids)
    BY DEF Surjection
  <2> HIDE DEF ids
  <2> QED
    BY <1>1, <2>1, FiniteSets, FS_Surjection, FS_CardinalityType
<1> HIDE DEF ids
<1>3. IsFiniteSet(Counted(c, s)) /\ Cardinality(Counted(c, s)) \in Nat
      /\ Cardinality(Undecided(c, s)) \in Nat /\ Cardinality(Feeders(c, s)) \in Nat
  BY <1>1, FiniteSets
<1>4. Share(c, s) = Counted(c, s) \cup ids
  BY DEF Share, ids
<1>5. IsFiniteSet(Share(c, s))
      /\ Cardinality(Share(c, s)) <= Cardinality(Counted(c, s)) + Cardinality(ids)
  <2>1. Cardinality(Share(c, s)) = Cardinality(Counted(c, s)) + Cardinality(ids)
                                   - Cardinality(Counted(c, s) \cap ids)
    BY <1>2, <1>3, <1>4, FS_Union
  <2>2. Cardinality(Counted(c, s) \cap ids) \in Nat
    BY <1>3, FS_Intersection, FS_CardinalityType
  <2> QED
    BY <1>2, <1>3, <1>4, <2>1, <2>2, FS_Union
<1>6. Cardinality(Counted(c, s)) + Cardinality(Undecided(c, s)) + 1
        <= MaxParallel[s] + Cardinality(Feeders(c, s))
  BY DEF OvershootInv, ConsumerInv, Bounded
<1>7. Overshoot(c, s) = MaxParallel[s] + Cardinality(Feeders(c, s)) - 1
  BY DEF Overshoot
<1>8. Cardinality(Share(c, s)) \in Nat
  BY <1>5, FS_CardinalityType
<1> QED
  BY <1>1, <1>2, <1>3, <1>5, <1>6, <1>7, <1>8

\* With the parallel requests policy a server never works on more requests that
\* are subject to the limit, and whose slot has not expired, than its limit and the
\* overshoot of each of its hosts, however many there are, unless a fault makes a
\* consumer forget a request it granted.  Nothing bounds the expired ones: the
\* expiry is 15 s by default, and a service may take 600 s (rpc_server.py:305).
THEOREM LoadIsBounded ==
  ASSUME Policy = ParallelRequests,
         FaultKinds \cap {"crash", "reconnect", "publish"} = {}
  PROVE  Spec => []LoadBounded
<1>1. TypeInv /\ OvershootInv /\ HostedInv /\ CountInv => LoadBounded
  <2> SUFFICES ASSUME TypeInv, OvershootInv, HostedInv, CountInv, NEW s \in Servers
               PROVE  Cardinality({r \in Running(s) \ outlived[s] : ~Express(r)})
                        <= SumFunction([c \in {c \in Consumers : s \in Hosts[c]} |->
                                          Overshoot(c, s)])
    BY DEF LoadBounded
  <2> DEFINE hosts == {c \in Consumers : s \in Hosts[c]}
             bound == [c \in hosts |-> Overshoot(c, s)]
             part == [c \in hosts |-> Share(c, s)]
             running == {r \in Running(s) \ outlived[s] : ~Express(r)}
             all == UNION {part[c] : c \in hosts}
  <2>1. running \subseteq all
    <3> SUFFICES ASSUME NEW r \in Running(s) \ outlived[s], ~Express(r)
                 PROVE r \in all
      OBVIOUS
    <3>1. r \in Requests /\ Accounted(r, s)
      BY RunningAccounted
    <3>2. PICK c \in Consumers :
            r \in slots[c][s] \/ \E t \in Tags : callback[c][t] = Replied(r, s)
      BY <3>1 DEF Accounted
    <3>3. CASE r \in slots[c][s]
      <4>1. c \in hosts
        BY <3>3 DEF HostedInv, GrantsHosted
      <4>2. r \in part[c]
        BY <3>3, <4>1 DEF Share, Counted
      <4> QED
        BY <4>1, <4>2
    <3>4. CASE \E t \in Tags : callback[c][t] = Replied(r, s)
      <4>1. PICK t \in Tags : callback[c][t] = Replied(r, s)
        BY <3>4
      <4>2. c \in hosts
        BY <4>1, ServersAssumption DEF HostedInv, GrantsHosted, Replied
      <4>3. t \in Undecided(c, s) /\ callback[c][t].id = r
        BY <4>1 DEF Undecided, Replied
      <4>4. r \in part[c]
        BY <4>2, <4>3 DEF Share
      <4> QED
        BY <4>2, <4>4
    <3> QED
      BY <3>2, <3>3, <3>4
  <2>2. IsFiniteSet(hosts)
    <3>1. hosts \in SUBSET Consumers
      OBVIOUS
    <3> QED
      BY <3>1, FinitePlaces, FS_Subset
  <2>3. \A c \in hosts :
          bound[c] \in Int /\ IsFiniteSet(part[c]) /\ Cardinality(part[c]) <= bound[c]
    BY ShareBounded
  <2> HIDE DEF hosts, bound, part
  <2>4. IsFiniteSet(all) /\ Cardinality(all) <= SumFunctionOnSet(bound, hosts)
    BY <2>2, <2>3, UnionBound
  <2>5. Cardinality(running) <= Cardinality(all)
    <3> HIDE DEF running, all
    <3> QED
      BY <2>1, <2>4, FS_Subset
  <2>6. Cardinality(running) \in Nat /\ Cardinality(all) \in Nat
        /\ SumFunctionOnSet(bound, hosts) \in Int
    <3>1. IsFiniteSet(running)
      <4> HIDE DEF running, all
      <4> QED
        BY <2>1, <2>4, FS_Subset
    <3>2. hosts \in SUBSET hosts
      OBVIOUS
    <3>3. SumFunctionOnSet(bound, hosts) \in Int
      BY <2>2, <2>3, <3>2, SumType
    <3> HIDE DEF running, all
    <3> QED
      BY <2>4, <3>1, <3>3, FS_CardinalityType
  <2>7. Cardinality(running) <= SumFunctionOnSet(bound, hosts)
    BY <2>4, <2>5, <2>6
  <2>8. SumFunction(bound) = SumFunctionOnSet(bound, hosts)
    BY DEF SumFunction, bound
  <2> QED
    BY <2>7, <2>8 DEF bound, hosts
<1> QED
  BY <1>1, OvershootHolds, HostedHolds, CountHolds, TypeInvariant, PTL
=============================================================================
