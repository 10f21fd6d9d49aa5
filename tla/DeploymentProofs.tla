--------------------------- MODULE DeploymentProofs ---------------------------
(***************************************************************************)
(* Theorems about Deployment, for every value of its constants: any number *)
(* of consumers, servers, models, requests and faults.                     *)
(***************************************************************************)
EXTENDS Deployment, TLAPS

\* A consumer that takes requests knows a server that has answered.
Ready(c) ==
  /\ stage[c] \in {"connecting", "serving"} => \E s \in ServersOf(c) : probe[c][s] = "ready"
  /\ \A q \in Queues : c \in subscribers[q] => stage[c] \in {"connecting", "serving"}

\* What a process has declared it consumes, or has still to do.
Declared(c) ==
  /\ stage[c] \in {"connecting", "serving"} =>
       \A i \in DOMAIN Declarations(c) :
         \/ c \in subscribers[Declarations(c)[i]]
         \/ \E j \in DOMAIN todo[c] : todo[c][j] = Declarations(c)[i]
  /\ stage[c] = "serving" => todo[c] = <<>>
  /\ stage[c] \notin {"connecting", "serving"} => todo[c] = Declarations(c)

\* A queue that is consumed exists.
Kept == \A q \in Queues : subscribers[q] # {} => q \in queues

\* What a request has seen while it was under way.
Sure(r) ==
  /\ step[r] \in {"new", "looking", "calling", "declared"} => place[r] = "nowhere"
  /\ step[r] \in OnChannel => kind[r] = "call"
  /\ step[r] = "looking" /\ fetch[r] = "read" /\ Model[r] \notin snapshot[r] =>
       Model[r] \in absent[r]

\* What a request is told, and what becomes of its message.
Honest(r) ==
  /\ Sure(r)
  /\ step[r] = "unknown" =>
       \/ Model[r] \in absent[r]
       \/ kind[r] = "call" /\ \E x \in Requests : Model[x] \in absent[r]
  /\ place[r] = "returned" => unserved[r]

\* A server is pinged as long as there are attempts left.
Trying(c) ==
  \A s \in Servers : probe[c][s] = "pinging" => attempts[c][s] < MaxAttempts

Inv ==
  /\ TypeOK
  /\ \A c \in Consumers : Trying(c) /\ Ready(c) /\ Declared(c)
  /\ Kept
  /\ \A r \in Requests : Honest(r)
-----------------------------------------------------------------------------
LEMMA DeclarationsAreQueues ==
  ASSUME NEW c \in Consumers
  PROVE  /\ Declarations(c) \in Seq(Queues)
         /\ Declarations(c) # <<>>
<1>1. Served[c] \in Models /\ VllmServers[c] \in Seq(Servers)
  BY RegistryAssumption
<1>2. \A s \in Servers : OrgOf[s] \in Orgs
  BY RegistryAssumption
<1> DEFINE first == <<ModelQueue(Served[c])>>
           rest == [i \in DOMAIN VllmServers[c] |-> <<Served[c], OrgOf[VllmServers[c][i]]>>]
<1>3. first \in Seq(Queues) /\ Len(first) = 1
  BY <1>1 DEF ModelQueue, Queues
<1>4. rest \in Seq(Queues)
  BY <1>1, <1>2 DEF Queues
<1>5. first \o rest \in Seq(Queues) /\ Len(first \o rest) >= 1
  <2> HIDE DEF first, rest
  <2> QED
    BY <1>3, <1>4
<1> QED
  BY <1>5 DEF Declarations

LEMMA InvInit == Init => Inv
<1> SUFFICES ASSUME Init PROVE Inv
  OBVIOUS
<1>1. TypeOK
  <2>1. RegistryTypeOK
    BY DEF Init, RegistryInit, RegistryTypeOK
  <2>2. ProcessTypeOK
    BY AttemptsAssumption, DeclarationsAreQueues
    DEF Init, ProcessInit, ProcessTypeOK, Stages, ProbeStates
  <2>3. CacheTypeOK
    BY DEF Init, CacheInit, CacheTypeOK, Steps
  <2>4. absent \in [Requests -> SUBSET Models] /\ unserved \in [Requests -> BOOLEAN]
    BY DEF Init
  <2> QED
    BY <2>1, <2>2, <2>3, <2>4 DEF TypeOK
<1>2. ASSUME NEW c \in Consumers PROVE Trying(c) /\ Ready(c) /\ Declared(c)
  BY AttemptsAssumption DEF Init, ProcessInit, RegistryInit, Trying, Ready, Declared
<1>3. Kept
  BY DEF Init, RegistryInit, Kept
<1>4. ASSUME NEW r \in Requests PROVE Honest(r)
  BY DEF Init, CacheInit, Honest, Sure, OnChannel
<1> QED
  BY <1>1, <1>2, <1>3, <1>4 DEF Inv
-----------------------------------------------------------------------------
(* Types. *)

LEMMA EndTyped ==
  ASSUME RegistryTypeOK, ProcessTypeOK, NEW c \in Consumers,
         NEW how \in Stages, End(c, how)
  PROVE  /\ ProcessTypeOK'
         /\ subscribers' \in [Queues -> SUBSET Consumers]
         /\ (\A d \in Consumers : Trying(d)) => \A d \in Consumers : Trying(d)'
BY AttemptsAssumption, DeclarationsAreQueues
DEF RegistryTypeOK, ProcessTypeOK, End, Enter, Unsubscribe, ProbeStates, Trying

LEMMA StopWaitingTyped ==
  ASSUME RegistryTypeOK, ProcessTypeOK, NEW c \in Consumers, StopWaiting(c)
  PROVE  /\ ProcessTypeOK'
         /\ (\A d \in Consumers : Trying(d)) => \A d \in Consumers : Trying(d)'
BY AttemptsAssumption
DEF ProcessTypeOK, StopWaiting, Enter, Stages, ProbeStates, Trying

LEMMA ProcessTyped ==
  ASSUME RegistryTypeOK, ProcessTypeOK, \A c \in Consumers : Trying(c), Process
  PROVE  RegistryTypeOK' /\ ProcessTypeOK' /\ \A c \in Consumers : Trying(c)'
<1> PICK c \in Consumers : ProcessStep(c) \/ ProcessFaults(c)
  BY DEF Process
<1> USE DEF registryVars
<1>1. ASSUME NEW s \in ServersOf(c), Ping(c, s)
      PROVE  RegistryTypeOK' /\ ProcessTypeOK' /\ \A d \in Consumers : Trying(d)'
  <2>1. s \in Servers
    BY DEF Servers
  <2>2. attempts[c][s] < MaxAttempts /\ attempts[c][s] \in 0 .. MaxAttempts
    BY <1>1, <2>1 DEF Ping, Trying, ProcessTypeOK
  <2>3. attempts[c][s] + 1 \in 0 .. MaxAttempts
    BY <2>2, AttemptsAssumption
  <2>4. CASE /\ probe' = [probe EXCEPT ![c][s] = "ready"]
             /\ attempts' = attempts
    <3>1. probe' \in [Consumers -> [Servers -> ProbeStates]]
      BY <2>1, <2>4 DEF ProcessTypeOK, ProbeStates
    <3>2. ASSUME NEW d \in Consumers PROVE Trying(d)'
      BY <2>1, <2>4 DEF ProcessTypeOK, Trying
    <3> QED
      BY <1>1, <2>4, <3>1, <3>2 DEF Ping, RegistryTypeOK, ProcessTypeOK
  <2>5. CASE /\ probe' = [probe EXCEPT ![c][s] = "asleep"]
             /\ attempts' = [attempts EXCEPT ![c][s] = attempts[c][s] + 1]
    <3>1. probe' \in [Consumers -> [Servers -> ProbeStates]]
      BY <2>1, <2>5 DEF ProcessTypeOK, ProbeStates
    <3>2. attempts' \in [Consumers -> [Servers -> 0 .. MaxAttempts]]
      BY <2>1, <2>3, <2>5 DEF ProcessTypeOK
    <3>3. ASSUME NEW d \in Consumers PROVE Trying(d)'
      BY <2>1, <2>5 DEF ProcessTypeOK, Trying
    <3> QED
      BY <1>1, <3>1, <3>2, <3>3 DEF Ping, RegistryTypeOK, ProcessTypeOK
  <2> QED
    BY <1>1, <2>4, <2>5 DEF Ping
<1>2. ASSUME NEW s \in ServersOf(c), Awake(c, s)
      PROVE  RegistryTypeOK' /\ ProcessTypeOK' /\ \A d \in Consumers : Trying(d)'
  <2>1. s \in Servers
    BY DEF Servers
  <2> QED
    BY <1>2, <2>1 DEF Awake, RegistryTypeOK, ProcessTypeOK, ProbeStates, Trying
<1>3. CASE FirstAnswers(c)
  BY <1>3, StopWaitingTyped DEF FirstAnswers, StopWaiting, RegistryTypeOK
<1>4. CASE FirstFails(c)
  BY <1>4, EndTyped DEF FirstFails, RegistryTypeOK, Stages
<1>5. CASE Consume(c)
  <2>1. Head(todo[c]) \in Queues /\ Tail(todo[c]) \in Seq(Queues)
    BY <1>5 DEF Consume, ProcessTypeOK
  <2> QED
    BY <1>5, <2>1 DEF Consume, RegistryTypeOK, ProcessTypeOK, Trying
<1>6. CASE StartServing(c)
  BY <1>6 DEF StartServing, Enter, RegistryTypeOK, ProcessTypeOK, Stages, Trying
<1>7. CASE Close(c)
  BY <1>7, EndTyped DEF Close, RegistryTypeOK, Stages
<1>8. CASE Signal(c)
  BY <1>8 DEF Signal, Fault, RegistryTypeOK, ProcessTypeOK, Trying
<1>9. CASE Kill(c)
  BY <1>9, EndTyped DEF Kill, Fault, RegistryTypeOK, Stages
<1>10. CASE Start(c)
  BY <1>10 DEF Start, Enter, RegistryTypeOK, ProcessTypeOK, Stages, Trying
<1> QED
  BY <1>1, <1>2, <1>3, <1>4, <1>5, <1>6, <1>7, <1>8, <1>9, <1>10
  DEF ProcessStep, ProcessFaults

LEMMA ProxyTyped ==
  ASSUME RegistryTypeOK, CacheTypeOK, Proxy
  PROVE  RegistryTypeOK' /\ CacheTypeOK'
<1> USE DEF registryVars, RegistryTypeOK, CacheTypeOK
<1>1. ASSUME NEW q \in Queues, ExpireQueue(q) PROVE RegistryTypeOK' /\ CacheTypeOK'
  BY <1>1 DEF ExpireQueue
<1>2. ASSUME NEW r \in Requests,
             Arrive(r) \/ ProxyStep(r) \/ Take(r) \/ FetchFails(r)
      PROVE  RegistryTypeOK' /\ CacheTypeOK'
  <2> USE DEF Goto, Steps, Answered, OnChannel
  <2>1. \A list : AfterLookup(r, list) \in Steps
    BY CacheAssumption DEF AfterLookup, RequestKinds
  <2>2. CASE Arrive(r)
    BY <2>1, <2>2 DEF Arrive
  <2>3. CASE ReadBindings(r)
    BY <2>3 DEF ReadBindings
  <2>4. CASE FetchReturns(r)
    BY <2>1, <2>4 DEF FetchReturns
  <2>5. CASE FetchFails(r)
    BY <2>5 DEF FetchFails, Fault
  <2>6. CASE FindQueue(r)
    BY <2>6 DEF FindQueue
  <2>7. CASE NoQueue(r)
    BY <2>7 DEF NoQueue
  <2>8. CASE Publish(r)
    BY <2>8 DEF Publish
  <2>9. CASE Confirm(r)
    BY <2>9 DEF Confirm
  <2>10. CASE Answer(r) \/ Timeout(r)
    BY <2>10 DEF Answer, Timeout
  <2>11. CASE Take(r)
    BY <2>11 DEF Take
  <2> QED
    BY <1>2, <2>2, <2>3, <2>4, <2>5, <2>6, <2>7, <2>8, <2>9, <2>10, <2>11 DEF ProxyStep
<1> QED
  BY <1>1, <1>2 DEF Proxy

LEMMA WitnessTyped ==
  ASSUME TypeOK, Witnessed
  PROVE  /\ absent' \in [Requests -> SUBSET Models]
         /\ unserved' \in [Requests -> BOOLEAN]
         /\ \A r \in Requests : absent[r] \subseteq absent'[r]
         /\ \A r \in Requests : unserved[r] => unserved'[r]
<1>1. Missing \subseteq Models /\ Missing' \subseteq Models
  BY DEF Missing
<1>2. /\ absent' \in [Requests -> SUBSET Models]
      /\ \A r \in Requests : absent[r] \subseteq absent'[r]
  BY <1>1 DEF TypeOK, Witnessed
<1>3. /\ unserved' \in [Requests -> BOOLEAN]
      /\ \A r \in Requests : unserved[r] => unserved'[r]
  BY Zenon DEF TypeOK, Witnessed
<1> QED
  BY <1>2, <1>3

LEMMA TypeStep ==
  ASSUME TypeOK, \A c \in Consumers : Trying(c), [Next]_vars
  PROVE  TypeOK' /\ \A c \in Consumers : Trying(c)'
<1>1. CASE Process /\ Witnessed
  BY <1>1, ProcessTyped, WitnessTyped DEF TypeOK, Process, cacheVars, CacheTypeOK
<1>2. CASE Proxy /\ Witnessed
  BY <1>2, ProxyTyped, WitnessTyped DEF TypeOK, Proxy, processVars, ProcessTypeOK, Trying
<1>3. CASE UNCHANGED vars
  BY <1>3 DEF vars, registryVars, processVars, cacheVars, TypeOK, RegistryTypeOK,
    ProcessTypeOK, CacheTypeOK, Trying
<1> QED
  BY <1>1, <1>2, <1>3 DEF Next
-----------------------------------------------------------------------------
(* Consumers and their queues. *)

ConsumerInv == \A c \in Consumers : Ready(c) /\ Declared(c)

\* A consumer that a step leaves alone keeps its part of the invariant.
LEMMA LeftAlone ==
  ASSUME NEW c \in Consumers, Ready(c), Declared(c),
         stage'[c] = stage[c], probe'[c] = probe[c], todo'[c] = todo[c],
         \A q \in Queues : c \in subscribers'[q] <=> c \in subscribers[q]
  PROVE  Ready(c)' /\ Declared(c)'
<1>1. \A i \in DOMAIN Declarations(c) : Declarations(c)[i] \in Queues
  BY DeclarationsAreQueues
<1>2. Ready(c)'
  BY DEF Ready
<1>3. Declared(c)'
  BY <1>1 DEF Declared, Declarations
<1> QED
  BY <1>2, <1>3

\* An end leaves nothing to keep but the queues still to be declared.
LEMMA EndKeeps ==
  ASSUME TypeOK, ConsumerInv, Kept,
         NEW c \in Consumers, NEW how \in {"exited", "failed"}, End(c, how),
         queues' = queues
  PROVE  ConsumerInv' /\ Kept'
<1> USE DEF TypeOK, RegistryTypeOK, ProcessTypeOK
<1>1. \A q \in Queues : subscribers'[q] = subscribers[q] \ {c}
  BY DEF End, Unsubscribe
<1>2. Ready(c)' /\ Declared(c)'
  BY <1>1 DEF End, Enter, Ready, Declared, Declarations
<1>3. ASSUME NEW d \in Consumers, d # c PROVE Ready(d)' /\ Declared(d)'
  <2>1. /\ stage'[d] = stage[d] /\ probe'[d] = probe[d] /\ todo'[d] = todo[d]
        /\ \A q \in Queues : d \in subscribers'[q] <=> d \in subscribers[q]
    BY <1>1, <1>3 DEF End, Enter
  <2> QED
    BY <2>1, LeftAlone DEF ConsumerInv
<1>4. Kept'
  BY <1>1 DEF Kept
<1> QED
  BY <1>2, <1>3, <1>4 DEF ConsumerInv

LEMMA ProcessKeeps ==
  ASSUME TypeOK, ConsumerInv, Kept, Process
  PROVE  ConsumerInv' /\ Kept'
<1> PICK c \in Consumers : ProcessStep(c) \/ ProcessFaults(c)
  BY DEF Process
<1> USE DEF TypeOK, RegistryTypeOK, ProcessTypeOK, registryVars
\* Those that neither end nor consume: only c changes, and no queue.
<1>1. ASSUME UNCHANGED <<queues, subscribers>>,
             Ready(c)' /\ Declared(c)',
             \A d \in Consumers \ {c} :
               stage'[d] = stage[d] /\ probe'[d] = probe[d] /\ todo'[d] = todo[d]
      PROVE  ConsumerInv' /\ Kept'
  <2>1. ASSUME NEW d \in Consumers, d # c PROVE Ready(d)' /\ Declared(d)'
    BY <1>1, <2>1, LeftAlone DEF ConsumerInv
  <2> QED
    BY <1>1, <2>1 DEF ConsumerInv, Kept
<1>2. Ready(c) /\ Declared(c)
  BY DEF ConsumerInv
<1>3. \A q \in Queues : stage[c] \notin {"connecting", "serving"} => c \notin subscribers[q]
  BY <1>2 DEF Ready
<1>4. ASSUME NEW s \in ServersOf(c), Ping(c, s) \/ Awake(c, s)
      PROVE  ConsumerInv' /\ Kept'
  <2>1. /\ stage[c] = "waiting"
        /\ UNCHANGED <<stage, todo, queues, subscribers>>
        /\ \A d \in Consumers \ {c} : probe'[d] = probe[d]
    BY <1>4 DEF Ping, Awake
  <2>2. Ready(c)' /\ Declared(c)'
    BY <1>2, <2>1 DEF Ready, Declared, Declarations
  <2> QED
    BY <1>1, <2>1, <2>2
<1>5. CASE FirstAnswers(c)
  <2>1. PICK s \in Done(c) : probe[c][s] = "ready"
    BY <1>5 DEF FirstAnswers
  <2>2. s \in ServersOf(c) /\ s \in Servers
    BY DEF Done, Servers
  <2>3. probe'[c][s] = "ready"
    BY <1>5, <2>1, <2>2 DEF FirstAnswers, StopWaiting
  <2>4. stage[c] = "waiting" /\ stage'[c] = "connecting" /\ UNCHANGED <<todo, subscribers>>
    BY <1>5 DEF FirstAnswers, StopWaiting, Enter
  <2>5. Ready(c)'
    BY <2>2, <2>3, <2>4 DEF Ready, ServersOf
  <2>6. Declared(c)'
    BY <1>2, <2>4 DEF Declared, Declarations
  <2> QED
    BY <1>1, <1>5, <2>5, <2>6 DEF FirstAnswers, StopWaiting, Enter
<1>6. CASE FirstFails(c) \/ Close(c) \/ Kill(c)
  BY <1>6, EndKeeps DEF FirstFails, Close, Kill
<1>7. CASE Consume(c)
  <2> DEFINE q == Head(todo[c])
  <2>1. /\ stage[c] = "connecting" /\ todo[c] \in Seq(Queues) /\ Len(todo[c]) > 0
        /\ q \in Queues
        /\ UNCHANGED <<stage, probe>>
        /\ queues' = queues \cup {q}
        /\ todo'[c] = Tail(todo[c])
        /\ \A d \in Consumers \ {c} : todo'[d] = todo[d]
    BY <1>7 DEF Consume
  <2>2. \A p \in Queues :
          subscribers'[p] = IF p = q THEN subscribers[p] \cup {c} ELSE subscribers[p]
    BY <1>7, <2>1 DEF Consume
  <2> HIDE DEF q
  <2>3. Ready(c)'
    BY <1>2, <2>1, <2>2 DEF Ready
  <2>4. ASSUME NEW i \in DOMAIN Declarations(c)
        PROVE  \/ c \in subscribers'[Declarations(c)[i]]
               \/ \E j \in DOMAIN todo'[c] : todo'[c][j] = Declarations(c)[i]
    <3>1. Declarations(c)[i] \in Queues
      BY DeclarationsAreQueues
    <3>2. CASE c \in subscribers[Declarations(c)[i]]
      BY <2>2, <3>1, <3>2
    <3>3. ASSUME NEW j \in DOMAIN todo[c], todo[c][j] = Declarations(c)[i]
          PROVE  \/ c \in subscribers'[Declarations(c)[i]]
                 \/ \E k \in DOMAIN todo'[c] : todo'[c][k] = Declarations(c)[i]
      <4>1. CASE j = 1
        <5>1. Declarations(c)[i] = q
          BY <2>1, <3>3, <4>1 DEF q
        <5> QED
          BY <2>1, <2>2, <5>1
      <4>2. CASE j # 1
        <5>1. j - 1 \in DOMAIN Tail(todo[c]) /\ Tail(todo[c])[j - 1] = todo[c][j]
          BY <2>1, <4>2
        <5> QED
          BY <2>1, <3>3, <5>1
      <4> QED
        BY <4>1, <4>2
    <3> QED
      BY <1>2, <2>1, <3>2, <3>3 DEF Declared
  <2>5. Declared(c)'
    BY <2>1, <2>4 DEF Declared, Declarations
  <2>6. ASSUME NEW d \in Consumers, d # c PROVE Ready(d)' /\ Declared(d)'
    <3>1. \A p \in Queues : d \in subscribers'[p] <=> d \in subscribers[p]
      BY <2>2, <2>6
    <3> QED
      BY <2>1, <2>6, <3>1, LeftAlone DEF ConsumerInv
  <2>7. Kept'
    BY <2>1, <2>2 DEF Kept
  <2> QED
    BY <2>3, <2>5, <2>6, <2>7 DEF ConsumerInv
<1>8. CASE StartServing(c)
  <2>1. Ready(c)' /\ Declared(c)'
    BY <1>2, <1>8 DEF StartServing, Enter, Ready, Declared, Declarations
  <2> QED
    BY <1>1, <1>8, <2>1 DEF StartServing, Enter
<1>9. CASE Signal(c)
  <2>1. Ready(c)' /\ Declared(c)'
    BY <1>2, <1>9 DEF Signal, Ready, Declared, Declarations
  <2> QED
    BY <1>1, <1>9, <2>1 DEF Signal
<1>10. CASE Start(c)
  <2>1. stage[c] \in {"exited", "failed"} /\ stage'[c] = "waiting"
        /\ UNCHANGED <<probe, todo, subscribers>>
    BY <1>10 DEF Start, Enter
  <2>2. Ready(c)' /\ Declared(c)'
    BY <1>2, <1>3, <2>1 DEF Ready, Declared, Declarations
  <2> QED
    BY <1>1, <1>10, <2>2 DEF Start, Enter
<1> QED
  BY <1>4, <1>5, <1>6, <1>7, <1>8, <1>9, <1>10 DEF ProcessStep, ProcessFaults

LEMMA ProxyKeeps ==
  ASSUME TypeOK, ConsumerInv, Kept, Proxy
  PROVE  ConsumerInv' /\ Kept'
<1> USE DEF registryVars
<1>1. UNCHANGED <<processVars, subscribers>>
  BY DEF Proxy, ExpireQueue, Arrive, Take, FetchFails, Fault, ProxyStep, ReadBindings,
    FetchReturns, FindQueue, NoQueue, Publish, Confirm, Answer, Timeout
<1>2. ConsumerInv'
  <2>1. ASSUME NEW c \in Consumers PROVE Ready(c)' /\ Declared(c)'
    BY <1>1, LeftAlone DEF ConsumerInv, processVars
  <2> QED
    BY <2>1 DEF ConsumerInv
<1>3. \A q \in queues : subscribers[q] # {} => q \in queues'
  BY DEF Proxy, ExpireQueue, Arrive, Take, FetchFails, Fault, ProxyStep, ReadBindings,
    FetchReturns, FindQueue, NoQueue, Publish, Confirm, Answer, Timeout
<1>4. Kept'
  BY <1>1, <1>3 DEF Kept
<1> QED
  BY <1>2, <1>4
-----------------------------------------------------------------------------
(* Requests. *)

\* A queue that is not there is served by nobody.
LEMMA MissingUnserved ==
  ASSUME TypeOK, ConsumerInv, Kept, NEW q \in Queues, q \notin queues
  PROVE  ~IsServed(q)
<1> SUFFICES ASSUME NEW c \in Consumers, stage[c] = "serving",
                    NEW i \in DOMAIN Declarations(c), Declarations(c)[i] = q
             PROVE  FALSE
  BY DEF IsServed
<1>1. todo[c] = <<>>
  BY DEF ConsumerInv, Declared
<1>2. c \in subscribers[q]
  BY <1>1 DEF ConsumerInv, Declared
<1> QED
  BY <1>2 DEF Kept

\* What is under way sees the queues that are missing before or after a step.
LEMMA Seen ==
  ASSUME TypeOK, Witnessed, NEW r \in Requests, Underway(r)
  PROVE  /\ Missing \subseteq absent'[r]
         /\ place[r] = "nowhere" /\ ~IsServed(QueueOf(r)) => unserved'[r]
<1>1. Missing \subseteq absent'[r]
  BY DEF Witnessed
<1>2. ASSUME place[r] = "nowhere", ~IsServed(QueueOf(r)) PROVE unserved'[r]
  BY <1>2, Zenon DEF Witnessed
<1> QED
  BY <1>1, <1>2

\* A request a step leaves where it was, but for the end of its message.
LEMMA LeftWaiting ==
  ASSUME TypeOK, Witnessed, NEW r \in Requests, Honest(r),
         kind' = kind, step'[r] = step[r], fetch'[r] = fetch[r], snapshot'[r] = snapshot[r],
         \/ place'[r] = place[r]
         \/ place[r] = "queue" /\ place'[r] \in {"taken", "removed"}
  PROVE  Honest(r)'
<1>1. /\ \A x \in Requests : absent[x] \subseteq absent'[x]
      /\ unserved[r] => unserved'[r]
  BY WitnessTyped
<1>2. Sure(r)'
  BY <1>1 DEF Honest, Sure
<1> QED
  BY <1>1, <1>2 DEF Honest

LEMMA ProxySpares ==
  ASSUME TypeOK, ConsumerInv, Kept, \A r \in Requests : Honest(r), Proxy, Witnessed
  PROVE  \A r \in Requests : Honest(r)'
<1> USE DEF TypeOK, CacheTypeOK
<1>1. ASSUME NEW q \in Queues, ExpireQueue(q), NEW r \in Requests PROVE Honest(r)'
  <2>1. /\ kind' = kind
        /\ step'[r] = step[r] /\ fetch'[r] = fetch[r] /\ snapshot'[r] = snapshot[r]
        /\ \/ place'[r] = place[r]
           \/ place[r] = "queue" /\ place'[r] \in {"taken", "removed"}
    BY <1>1 DEF ExpireQueue
  <2> QED
    BY <2>1, LeftWaiting
<1>2. ASSUME NEW r \in Requests, NoQueue(r), NEW x \in Requests PROVE Honest(x)'
  <2>1. PICK others \in SUBSET {y \in Requests : step[y] \in OnChannel} :
          /\ step' = [y \in Requests |-> IF y \in others \cup {r} THEN "unknown" ELSE step[y]]
          /\ fetch' = [y \in Requests |-> IF y \in others \cup {r} THEN "sent" ELSE fetch[y]]
    BY <1>2 DEF NoQueue
  <2>2. step[r] = "calling" /\ ModelQueue(Model[r]) \notin queues
        /\ UNCHANGED <<kind, snapshot, place>>
    BY <1>2 DEF NoQueue
  <2>3. Model[r] \in Missing
    BY <2>2, CacheAssumption DEF Missing
  <2>4. CASE x \in others \cup {r}
    <3>1. step[x] \in OnChannel /\ kind[x] = "call"
      BY <2>1, <2>2, <2>4 DEF OnChannel, Honest, Sure
    <3>2. step'[x] = "unknown" /\ fetch'[x] = "sent"
      BY <2>1, <2>4
    <3>3. place'[x] = "returned" => unserved'[x]
      BY <2>2, WitnessTyped DEF Honest
    <3>4. Sure(x)'
      BY <3>2 DEF Sure, OnChannel
    <3>5. Model[r] \in absent'[x]
      BY <2>3, <3>1, Seen DEF Underway, Answered, OnChannel
    <3> QED
      BY <2>2, <3>1, <3>2, <3>3, <3>4, <3>5 DEF Honest
  <2>5. CASE x \notin others \cup {r}
    BY <2>1, <2>2, <2>5, LeftWaiting
  <2> QED
    BY <2>4, <2>5
<1>3. ASSUME NEW r \in Requests, Take(r), NEW x \in Requests PROVE Honest(x)'
  <2>1. /\ kind' = kind
        /\ step'[x] = step[x] /\ fetch'[x] = fetch[x] /\ snapshot'[x] = snapshot[x]
        /\ \/ place'[x] = place[x]
           \/ place[x] = "queue" /\ place'[x] \in {"taken", "removed"}
    BY <1>3 DEF Take
  <2> QED
    BY <2>1, LeftWaiting
<1>4. ASSUME NEW r \in Requests,
             \/ Arrive(r) \/ ReadBindings(r) \/ FetchReturns(r) \/ FetchFails(r)
             \/ FindQueue(r) \/ Publish(r) \/ Confirm(r) \/ Answer(r) \/ Timeout(r)
      PROVE  \A x \in Requests : Honest(x)'
  <2> USE DEF Goto
  <2>1. /\ kind' = kind
        /\ \A x \in Requests \ {r} :
             /\ step'[x] = step[x] /\ fetch'[x] = fetch[x] /\ snapshot'[x] = snapshot[x]
             /\ place'[x] = place[x]
    BY <1>4 DEF Arrive, ReadBindings, FetchReturns, FetchFails, FindQueue, Publish, Confirm,
      Answer, Timeout
  <2>2. Honest(r)
    OBVIOUS
  <2>3. /\ \A x \in Requests : absent[x] \subseteq absent'[x]
        /\ unserved[r] => unserved'[r]
    BY WitnessTyped
  <2>4. Honest(r)'
    <3>1. CASE Arrive(r)
      <4>1. /\ step[r] = "new" /\ place[r] = "nowhere" /\ place' = place
        BY <2>2, <3>1 DEF Arrive, Honest, Sure
      <4>2. \/ step'[r] = "looking" /\ fetch'[r] = "sent"
            \/ /\ step'[r] \in {"found", "error", "refused", "calling"}
               /\ step'[r] = "calling" => kind[r] = "call"
        BY <3>1, CacheAssumption DEF Arrive, AfterLookup, RequestKinds
      <4>3. Sure(r)'
        BY <2>1, <4>1, <4>2 DEF Sure, OnChannel
      <4> QED
        BY <4>1, <4>2, <4>3 DEF Honest
    <3>2. CASE ReadBindings(r)
      <4>1. ASSUME step[r] = "looking", Model[r] \notin snapshot'[r]
            PROVE  Model[r] \in absent'[r]
        <5>1. Model[r] \in Missing
          BY <3>2, <4>1, CacheAssumption DEF ReadBindings
        <5> QED
          BY <4>1, <5>1, Seen DEF Underway, Answered
      <4>2. UNCHANGED <<step, place>>
        BY <3>2 DEF ReadBindings
      <4>3. Sure(r)'
        BY <2>1, <2>2, <4>1, <4>2 DEF Honest, Sure
      <4> QED
        BY <2>1, <2>2, <2>3, <4>2, <4>3 DEF Honest
    <3>3. CASE FetchReturns(r)
      <4>1. fetch[r] = "read" /\ fetch'[r] = "none" /\ place' = place
        BY <3>3 DEF FetchReturns
      <4>2. CASE step[r] # "looking"
        <5>1. step'[r] = step[r]
          BY <3>3, <4>2 DEF FetchReturns
        <5>2. Sure(r)'
          BY <2>1, <2>2, <4>1, <5>1 DEF Honest, Sure
        <5> QED
          BY <2>1, <2>2, <2>3, <4>1, <5>1, <5>2 DEF Honest
      <4>3. CASE step[r] = "looking"
        <5>1. step'[r] = AfterLookup(r, snapshot[r])
          BY <3>3, <4>3 DEF FetchReturns
        <5>2. /\ step'[r] \in {"listed", "unknown", "found", "error", "refused", "calling"}
              /\ step'[r] = "calling" => kind[r] = "call"
              /\ step'[r] = "unknown" => Model[r] \notin snapshot[r]
          BY <5>1, CacheAssumption DEF AfterLookup, RequestKinds
        <5>3. place[r] = "nowhere"
          BY <2>2, <4>3 DEF Honest, Sure
        <5>4. Sure(r)'
          BY <2>1, <4>1, <5>2, <5>3 DEF Sure, OnChannel
        <5>5. step'[r] = "unknown" => Model[r] \in absent'[r]
          BY <2>2, <2>3, <4>1, <4>3, <5>2 DEF Honest, Sure
        <5> QED
          BY <4>1, <5>3, <5>4, <5>5 DEF Honest
      <4> QED
        BY <4>2, <4>3
    <3>4. CASE FetchFails(r)
      <4>1. /\ fetch'[r] = "none" /\ place' = place
            /\ step'[r] = step[r] \/ step'[r] = "error"
        BY <3>4 DEF FetchFails
      <4>2. Sure(r)'
        BY <2>1, <2>2, <4>1 DEF Honest, Sure, OnChannel
      <4> QED
        BY <2>1, <2>2, <2>3, <4>1, <4>2 DEF Honest
    <3>5. CASE FindQueue(r)
      <4>1. step[r] = "calling" /\ step'[r] = "declared" /\ place' = place
        BY <3>5 DEF FindQueue
      <4>2. Sure(r)'
        BY <2>1, <2>2, <4>1 DEF Honest, Sure, OnChannel
      <4> QED
        BY <2>2, <2>3, <4>1, <4>2 DEF Honest
    <3>6. CASE Publish(r)
      <4>1. /\ step[r] = "declared" /\ step'[r] = "published"
            /\ place'[r] = IF QueueOf(r) \in queues THEN "queue" ELSE "returned"
        BY <3>6 DEF Publish
      <4>2. Sure(r)'
        BY <2>1, <2>2, <4>1 DEF Honest, Sure, OnChannel
      <4>3. ASSUME QueueOf(r) \notin queues PROVE unserved'[r]
        <5>1. QueueOf(r) \in Queues
          BY CacheAssumption DEF QueueOf, ModelQueue, Queues
        <5>2. ~IsServed(QueueOf(r))
          BY <4>3, <5>1, MissingUnserved
        <5>3. place[r] = "nowhere"
          BY <2>2, <4>1 DEF Honest, Sure
        <5> QED
          BY <4>1, <5>2, <5>3, Seen DEF Underway, Answered
      <4> QED
        BY <4>1, <4>2, <4>3 DEF Honest
    <3>7. CASE Confirm(r) \/ Answer(r) \/ Timeout(r)
      <4>1. step'[r] \in {"waiting", "answered", "timeout"} /\ place' = place
        BY <3>7 DEF Confirm, Answer, Timeout
      <4>2. Sure(r)'
        BY <4>1 DEF Sure, OnChannel
      <4> QED
        BY <2>2, <2>3, <4>1, <4>2 DEF Honest
    <3> QED
      BY <1>4, <3>1, <3>2, <3>3, <3>4, <3>5, <3>6, <3>7
  <2>5. ASSUME NEW x \in Requests, x # r PROVE Honest(x)'
    BY <2>1, <2>5, LeftWaiting
  <2> QED
    BY <2>4, <2>5
<1> QED
  BY <1>1, <1>2, <1>3, <1>4 DEF Proxy, ProxyStep
-----------------------------------------------------------------------------
LEMMA InvStep == Inv /\ [Next]_vars => Inv'
<1> SUFFICES ASSUME Inv, [Next]_vars PROVE Inv'
  OBVIOUS
<1>1. /\ TypeOK /\ ConsumerInv /\ Kept
      /\ \A c \in Consumers : Trying(c)
      /\ \A r \in Requests : Honest(r)
  BY DEF Inv, ConsumerInv
<1>2. TypeOK' /\ \A c \in Consumers : Trying(c)'
  BY <1>1, TypeStep
<1>3. CASE Process /\ Witnessed
  <2>1. ConsumerInv' /\ Kept'
    BY <1>1, <1>3, ProcessKeeps
  <2>2. ASSUME NEW r \in Requests PROVE Honest(r)'
    BY <1>1, <1>3, LeftWaiting DEF Process, cacheVars
  <2> QED
    BY <1>2, <2>1, <2>2 DEF Inv, ConsumerInv
<1>4. CASE Proxy /\ Witnessed
  <2>1. ConsumerInv' /\ Kept'
    BY <1>1, <1>4, ProxyKeeps
  <2>2. \A r \in Requests : Honest(r)'
    BY <1>1, <1>4, ProxySpares
  <2> QED
    BY <1>2, <2>1, <2>2 DEF Inv, ConsumerInv
<1>5. CASE UNCHANGED vars
  <2> USE <1>5 DEF vars, registryVars, processVars, cacheVars
  <2>1. ASSUME NEW c \in Consumers PROVE Ready(c)' /\ Declared(c)'
    BY <1>1, LeftAlone DEF ConsumerInv
  <2>2. Kept'
    BY <1>1 DEF Kept
  <2>3. ASSUME NEW r \in Requests PROVE Honest(r)'
    BY <1>1 DEF Honest, Sure
  <2> QED
    BY <1>2, <2>1, <2>2, <2>3 DEF Inv
<1> QED
  BY <1>3, <1>4, <1>5 DEF Next

THEOREM InvHolds == Spec => []Inv
  BY InvInit, InvStep, PTL DEF Spec

\* The variables of the deployment keep their types.
THEOREM TypesHold == Spec => []TypeOK
<1>1. Inv => TypeOK
  BY DEF Inv
<1> QED
  BY <1>1, InvHolds, PTL

\* A consumer takes requests only when a server of its own has answered it, even
\* if it was killed and started again in between (metrics.py:38).
THEOREM NothingIsConsumedUnready == Spec => []NothingConsumedUnready
<1>1. Inv => NothingConsumedUnready
  BY DEF Inv, TypeOK, RegistryTypeOK, Ready, NothingConsumedUnready
<1> QED
  BY <1>1, InvHolds, PTL

\* A private request is returned only if its queue was served by nobody at some
\* moment (rpc_server.py:80).
THEOREM ReturnedWereUnserved == Spec => []ReturnedOnlyUnserved
<1>1. Inv => ReturnedOnlyUnserved
  BY DEF Inv, Honest, ReturnedOnlyUnserved
<1> QED
  BY <1>1, InvHolds, PTL

\* A model is said to be unknown only if its queue, or that of another call when
\* the channel is closed, was missing at some moment (models.py:37, main.py:239).
THEOREM UnknownWereMissing == Spec => []NoFalseUnknown
<1>1. Inv => NoFalseUnknown
  BY DEF Inv, Honest, NoFalseUnknown
<1> QED
  BY <1>1, InvHolds, PTL
=============================================================================
