--------------------------- MODULE SelectionProofs ---------------------------
(***************************************************************************)
(* Theorems about ServerSelection, for every list of servers, every set of *)
(* buckets and every size of the window.                                   *)
(***************************************************************************)
EXTENDS ServerSelection, SumTheorems

-----------------------------------------------------------------------------
(* Lists of servers. *)

LEMMA ServersFinite == IsFiniteSet(AllServers)
<1>1. DOMAIN VllmServers = 1 .. Len(VllmServers) /\ Len(VllmServers) \in Nat
  BY SelectionAssumption
<1>2. VllmServers \in Surjection(DOMAIN VllmServers, AllServers)
  BY SelectionAssumption DEF Surjection, AllServers
<1>3. IsFiniteSet(DOMAIN VllmServers)
  BY <1>1, FS_Interval
<1> QED
  BY <1>2, <1>3, FS_Surjection

LEMMA PositionType ==
  ASSUME NEW s \in AllServers
  PROVE  Position(s) \in Nat /\ VllmServers[Position(s)] = s
<1>1. \E i \in DOMAIN VllmServers : VllmServers[i] = s
  BY DEF AllServers
<1>2. DOMAIN VllmServers \subseteq Nat
  BY SelectionAssumption
<1> QED
  BY <1>1, <1>2 DEF Position

\* A function on a finite set has a greatest value.
LEMMA GreatestExists ==
  ASSUME NEW S, IsFiniteSet(S), S # {}, NEW f, \A x \in S : f[x] \in Int
  PROVE  \E m \in S : \A x \in S : f[x] <= f[m]
<1> DEFINE Good == {T \in SUBSET S : T # {} => \E m \in T : \A x \in T : f[x] <= f[m]}
<1>1. ASSUME NEW T \in SUBSET S, \A U \in SUBSET T : U # T => U \in Good
      PROVE  T \in Good
  <2> SUFFICES ASSUME NEW y \in T PROVE \E m \in T : \A x \in T : f[x] <= f[m]
    OBVIOUS
  <2>1. T \ {y} \in Good
    BY <1>1
  <2>2. CASE T \ {y} = {}
    BY <2>2
  <2>3. CASE T \ {y} # {}
    <3>1. PICK m \in T \ {y} : \A x \in T \ {y} : f[x] <= f[m]
      BY <2>1, <2>3
    <3>2. CASE f[y] <= f[m]
      BY <3>1, <3>2
    <3>3. CASE f[m] < f[y]
      BY <3>1, <3>3
    <3> QED
      BY <3>2, <3>3
  <2> QED
    BY <2>2, <2>3
<1> HIDE DEF Good
<1>2. SUBSET S \subseteq Good
  BY <1>1, SubsetInduction
<1> QED
  BY <1>2 DEF Good

LEMMA PositionsDiffer ==
  ASSUME NEW s \in AllServers, NEW t \in AllServers, Position(s) = Position(t)
  PROVE  s = t
BY PositionType

Ordered(list, some) ==
  /\ list \in [1 .. Cardinality(some) -> some]
  /\ \A i, j \in DOMAIN list : i < j => Position(list[i]) < Position(list[j])

\* Any set of servers can be listed: each one goes where as many servers as do
\* not come after it say.
LEMMA ListExists ==
  ASSUME NEW T \in SUBSET AllServers
  PROVE  \E list : Ordered(list, T)
<1> DEFINE n == Cardinality(T)
           upTo(s) == {t \in T : Position(t) <= Position(s)}
           rank == [s \in T |-> Cardinality(upTo(s))]
           list == [i \in 1 .. n |-> CHOOSE s \in T : rank[s] = i]
<1>1. IsFiniteSet(T) /\ n \in Nat
  BY ServersFinite, FS_Subset, FS_CardinalityType
<1>2. \A s \in T : Position(s) \in Nat
  BY PositionType
<1>3. ASSUME NEW s \in T
      PROVE  rank[s] \in 1 .. n
  <2>1. upTo(s) \in SUBSET T /\ s \in upTo(s)
    BY <1>2
  <2>2. IsFiniteSet(upTo(s)) /\ Cardinality(upTo(s)) <= n
    BY <1>1, <2>1, FS_Subset
  <2>3. Cardinality(upTo(s)) \in Nat /\ Cardinality(upTo(s)) # 0
    BY <2>1, <2>2, FS_CardinalityType, FS_EmptySet
  <2> QED
    BY <1>1, <2>2, <2>3
<1>4. ASSUME NEW s \in T, NEW t \in T, Position(s) < Position(t)
      PROVE  rank[s] < rank[t]
  <2>1. upTo(s) \in SUBSET upTo(t) /\ t \in upTo(t) /\ t \notin upTo(s)
    BY <1>2, <1>4
  <2>2. IsFiniteSet(upTo(t))
    BY <1>1, FS_Subset
  <2>3. Cardinality(upTo(s)) <= Cardinality(upTo(t))
        /\ Cardinality(upTo(s)) # Cardinality(upTo(t))
    BY <2>1, <2>2, FS_Subset
  <2>4. rank[s] \in Nat /\ rank[t] \in Nat
    BY <1>1, <1>3
  <2> QED
    BY <2>3, <2>4
<1> HIDE DEF rank, n
<1>5. rank \in Surjection(T, 1 .. n)
  <2>1. rank \in [T -> 1 .. n]
    BY <1>3 DEF rank
  <2>2. rank \in Injection(T, 1 .. n)
    <3> SUFFICES ASSUME NEW s \in T, NEW t \in T, rank[s] = rank[t] PROVE s = t
      BY <2>1 DEF Injection, IsInjective
    <3>1. rank[s] \in Nat /\ rank[t] \in Nat
      BY <1>1, <2>1
    <3>2. Position(s) = Position(t)
      BY <1>2, <1>4, <3>1
    <3> QED
      BY <3>2, PositionsDiffer
  <2>3. IsFiniteSet(1 .. n) /\ Cardinality(1 .. n) = Cardinality(T)
    BY <1>1, FS_Interval DEF n
  <2> QED
    BY <2>2, <2>3, FS_Injection
<1>6. DOMAIN list = 1 .. n /\ \A i \in 1 .. n : list[i] \in T /\ rank[list[i]] = i
  BY <1>5 DEF Surjection
<1> HIDE DEF list
<1>7. ASSUME NEW i \in 1 .. n, NEW j \in 1 .. n, i < j
      PROVE  Position(list[i]) < Position(list[j])
  <2>1. list[i] \in T /\ list[j] \in T /\ rank[list[i]] < rank[list[j]]
    BY <1>6, <1>7
  <2>2. rank[list[i]] \in Int /\ rank[list[j]] \in Int
    BY <1>6
  <2>3. list[i] # list[j]
    BY <2>1, <2>2
  <2>4. Position(list[i]) # Position(list[j])
    BY <2>1, <2>3, PositionsDiffer
  <2>5. ~ (Position(list[j]) < Position(list[i]))
    BY <1>4, <2>1, <2>2
  <2>6. Position(list[i]) \in Nat /\ Position(list[j]) \in Nat
    BY <1>2, <2>1
  <2> QED
    BY <2>4, <2>5, <2>6
<1>8. list \in [1 .. n -> T]
  BY <1>6 DEF list
<1>9. Ordered(list, T)
  BY <1>7, <1>8 DEF Ordered, n
<1> QED
  BY <1>9

\* The list of a set of servers has each of them, once.
LEMMA ListedServers ==
  ASSUME NEW T \in SUBSET AllServers
  PROVE  /\ Listed(T) \in Seq(AllServers)
         /\ SetOf(Listed(T)) = T
         /\ \A i, j \in DOMAIN Listed(T) : Listed(T)[i] = Listed(T)[j] => i = j
<1> DEFINE n == Cardinality(T)
           list == Listed(T)
<1>1. IsFiniteSet(T) /\ n \in Nat
  BY ServersFinite, FS_Subset, FS_CardinalityType
<1>2. Ordered(list, T)
  <2>1. \E some \in [1 .. n -> T] :
          \A i, j \in DOMAIN some : i < j => Position(some[i]) < Position(some[j])
    BY ListExists DEF Ordered
  <2> QED
    BY <2>1 DEF Listed, Ordered
<1> HIDE DEF list
<1>3. list \in [1 .. n -> T] /\ DOMAIN list = 1 .. n
  BY <1>2 DEF Ordered
<1>4. ASSUME NEW i \in 1 .. n, NEW j \in 1 .. n, list[i] = list[j]
      PROVE  i = j
  <2>1. Position(list[i]) \in Nat /\ Position(list[j]) \in Nat
    BY <1>3, PositionType
  <2>2. (i < j => Position(list[i]) < Position(list[j]))
        /\ (j < i => Position(list[j]) < Position(list[i]))
    BY <1>2, <1>3 DEF Ordered
  <2> QED
    BY <1>4, <2>1, <2>2
<1>5. list \in Surjection(1 .. n, T)
  <2>1. list \in Injection(1 .. n, T)
    BY <1>3, <1>4 DEF Injection, IsInjective
  <2>2. Cardinality(1 .. n) = n
    BY <1>1, FS_Interval
  <2> QED
    BY <1>1, <2>1, <2>2, FS_Injection
<1>6. list \in Seq(AllServers)
  BY <1>1, <1>3
<1>7. SetOf(list) = T
  BY <1>3, <1>5 DEF SetOf, Surjection
<1> QED
  BY <1>3, <1>4, <1>6, <1>7 DEF list

-----------------------------------------------------------------------------
(* Histograms. *)

\* Histograms are all over the buckets, but for the empty one.
LEMMA EmptyDiffers ==
  /\ DOMAIN EmptyHistogram = {}
  /\ \A h \in Histograms : h # EmptyHistogram => h \in [Buckets -> Int] /\ DOMAIN h = Buckets
  /\ EmptyHistogram \notin [Buckets -> Int]
BY BucketsAssumption DEF Histograms, EmptyHistogram

LEMMA BucketsIntegers == Buckets \subseteq Int
<1>1. Buckets \subseteq Nat
  BY BucketsAssumption
<1> QED
  BY <1>1

LEMMA CountType ==
  ASSUME NEW h \in Histograms, NEW b
  PROVE  Count(h, b) \in Int
BY EmptyDiffers DEF Count

LEMMA DifferenceType ==
  ASSUME NEW h \in Histograms, NEW g \in Histograms
  PROVE  /\ Difference(h, g) \in Histograms
         /\ DOMAIN Difference(h, g) = DOMAIN h \cup DOMAIN g
<1>1. DOMAIN Difference(h, g) = DOMAIN h \cup DOMAIN g
  BY DEF Difference
<1>2. CASE h = EmptyHistogram /\ g = EmptyHistogram
  <2>1. Difference(h, g) = EmptyHistogram
    BY <1>2, EmptyDiffers DEF Difference, EmptyHistogram
  <2> QED
    BY <1>1, <2>1 DEF Histograms
<1>3. CASE h # EmptyHistogram \/ g # EmptyHistogram
  <2>1. DOMAIN h \cup DOMAIN g = Buckets
    BY <1>3, EmptyDiffers
  <2>2. \A b \in Buckets : Count(h, b) - Count(g, b) \in Int
    BY CountType
  <2>3. Difference(h, g) \in [Buckets -> Int]
    BY <2>1, <2>2 DEF Difference
  <2> QED
    BY <1>1, <2>3 DEF Histograms
<1> QED
  BY <1>2, <1>3

\* dict.update keeps nothing of a histogram that has no other keys.
LEMMA UpdateReplaces ==
  ASSUME NEW h \in Histograms, NEW new \in Histograms, DOMAIN h \subseteq DOMAIN new
  PROVE  Update(h, new) = new
<1>1. Update(h, new) = [b \in DOMAIN new |-> new[b]]
  BY DEF Update
<1>2. CASE new = EmptyHistogram
  BY <1>1, <1>2, EmptyDiffers DEF EmptyHistogram
<1>3. CASE new # EmptyHistogram
  BY <1>1, <1>3, EmptyDiffers
<1> QED
  BY <1>2, <1>3

LEMMA UpdateType ==
  ASSUME NEW h \in Histograms, NEW new \in Histograms
  PROVE  Update(h, new) \in Histograms
<1>1. CASE h = EmptyHistogram
  <2>1. Update(h, new) = new
    BY <1>1, EmptyDiffers, UpdateReplaces
  <2> QED
    BY <2>1
<1>2. CASE h # EmptyHistogram /\ new = EmptyHistogram
  <2>1. Update(h, new) = [b \in DOMAIN h |-> h[b]] /\ h \in [Buckets -> Int]
    BY <1>2, EmptyDiffers DEF Update
  <2> QED
    BY <2>1
<1>3. CASE h # EmptyHistogram /\ new # EmptyHistogram
  <2>1. Update(h, new) = new
    BY <1>3, EmptyDiffers, UpdateReplaces
  <2> QED
    BY <2>1
<1> QED
  BY <1>1, <1>2, <1>3

LEMMA ObserveType ==
  ASSUME NEW h \in Histograms, NEW b
  PROVE  Observe(h, b) \in [Buckets -> Int]
<1>1. \A a \in Buckets : Count(h, a) + (IF a >= b THEN 1 ELSE 0) \in Int
  BY CountType
<1> QED
  BY <1>1 DEF Observe

LEMMA SlotAfter ==
  ASSUME NEW size \in Nat \ {0}, NEW w \in 0 .. size - 1
  PROVE  (w + 1) % size = (IF w + 1 = size THEN 0 ELSE w + 1)
<1>1. CASE w + 1 = size
  BY <1>1
<1>2. CASE w + 1 < size
  BY <1>2
<1> QED
  BY <1>1, <1>2

-----------------------------------------------------------------------------
(* Types. *)

\* Monitoring is what keeps tasks running.
Unmonitored == \A s \in AllServers : task[s] \notin {"fetching", "asleep"}

\* What CancelTasks leaves.
LEMMA CancelledTasks ==
  ASSUME task \in [AllServers -> TaskStates], CancelTasks
  PROVE  task' \in [AllServers -> TaskStates] /\ Unmonitored'
BY DEF CancelTasks, TaskStates, Unmonitored

LEMMA OutcomeType ==
  ASSUME NEW s, NEW answering
  PROVE  Outcome(s, answering) \in {"success", "failure"}
BY DEF Outcome

LEMMA TypesInit == Init => TypeOK
<1>1. VllmServers \in Seq(AllServers) /\ WindowSize \in Nat \ {0}
  BY SelectionAssumption
<1>2. Init => /\ served \in [AllServers -> Histograms]
              /\ last \in [AllServers -> [Slots -> Histograms]]
              /\ diff \in [AllServers -> Histograms]
              /\ fetched \in [AllServers -> [1 .. WindowSize + 1 -> Histograms]]
  BY DEF Init, Histograms
<1>3. Init => monitoring \in BOOLEAN /\ task \in [AllServers -> TaskStates]
  BY DEF Init, LeastBusy, TaskStates
<1>4. Init => window \in [AllServers -> Slots] /\ turns \in [AllServers -> Nat]
  BY <1>1 DEF Init, Slots
<1>5. Init => /\ servers \in Seq(AllServers) /\ strategy \in Strategies /\ stage \in Stages
              /\ up \in SUBSET AllServers /\ faults \in [Faults -> Nat] /\ next \in Nat
              /\ pinger \in {"asleep", "pinging", "stopping", "cancelled", "ended"}
              /\ pending \in SUBSET AllServers /\ answered \in SUBSET AllServers
              /\ urls \in SUBSET AllServers
  BY <1>1 DEF Init, Stages
<1>6. Init => outcomes \in [AllServers -> SUBSET {"success", "failure"}]
  BY OutcomeType DEF Init
<1> QED
  BY <1>2, <1>3, <1>4, <1>5, <1>6 DEF TypeOK

LEMMA FaultType ==
  ASSUME faults \in [Faults -> Nat], faults' = faults \/ \E kind : Fault(kind)
  PROVE  faults' \in [Faults -> Nat]
BY DEF Fault

LEMMA BrokenFetch ==
  ASSUME task \in [AllServers -> TaskStates], NEW s \in AllServers,
         BreakFetch(s) \/ UNCHANGED task
  PROVE  /\ task' \in [AllServers -> TaskStates]
         /\ Unmonitored => Unmonitored'
         /\ (\A q \in AllServers : task[q] # "cancelled") =>
              \A q \in AllServers : task'[q] # "cancelled"
BY DEF BreakFetch, TaskStates, Unmonitored

LEMMA TypesServers ==
  ASSUME TypeOK, NEW s \in AllServers, Serve(s) \/ Toggle(s) \/ Restart(s)
  PROVE  TypeOK'
<1> USE DEF TypeOK
<1>1. UNCHANGED <<strategy, stage, pingerVars, servers, roundRobinVars, urls, monitoring,
                  histogramVars>>
  BY DEF Serve, Toggle, Restart, trackerVars
<1>2. up' \in SUBSET AllServers /\ faults' \in [Faults -> Nat]
      /\ task' \in [AllServers -> TaskStates]
  <2>1. up' \in SUBSET AllServers
    BY DEF Serve, Toggle, Restart
  <2>2. faults' = faults \/ \E kind : Fault(kind)
    BY DEF Serve, Toggle, Restart
  <2>3. BreakFetch(s) \/ UNCHANGED task
    BY DEF Serve, Toggle, Restart, trackerVars
  <2> QED
    BY <2>1, <2>2, <2>3, FaultType, BrokenFetch
<1>3. served' \in [AllServers -> Histograms]
  <2>1. \A b : Observe(served[s], b) \in Histograms
    BY ObserveType DEF Histograms
  <2>2. EmptyHistogram \in Histograms
    BY DEF Histograms
  <2>3. CASE Serve(s)
    BY <2>1, <2>3 DEF Serve
  <2>4. CASE Toggle(s) \/ Restart(s)
    BY <2>2, <2>4 DEF Toggle, Restart
  <2> QED
    BY <2>3, <2>4
<1>4. outcomes' \in [AllServers -> SUBSET {"success", "failure"}]
  <2>1. CASE Toggle(s)
    <3> DEFINE set == IF s \in pending THEN outcomes[s] \cup {Outcome(s, up')} ELSE outcomes[s]
    <3>1. set \in SUBSET {"success", "failure"}
      BY OutcomeType
    <3>2. outcomes' = [outcomes EXCEPT ![s] = set]
      BY <2>1 DEF Toggle
    <3> QED
      BY <3>1, <3>2
  <2>2. CASE Serve(s) \/ Restart(s)
    BY <2>2 DEF Serve, Restart
  <2> QED
    BY <2>1, <2>2
<1> QED
  BY <1>1, <1>2, <1>3, <1>4 DEF pingerVars, roundRobinVars, histogramVars

LEMMA TypesHealthy ==
  ASSUME TypeOK
  PROVE  Healthy \in Seq(AllServers) /\ SetOf(Healthy) = answered
BY ListedServers DEF TypeOK, Healthy

LEMMA TypesPinger ==
  ASSUME TypeOK,
         \/ StartCycle \/ UpdateRoundRobin \/ KeepServers \/ StopMonitor \/ RestartMonitor
         \/ \E s \in AllServers : PingReturns(s)
  PROVE  TypeOK'
<1> USE DEF TypeOK
<1>1. UNCHANGED <<strategy, stage, up, served, faults, histogramVars>>
  BY DEF StartCycle, UpdateRoundRobin, KeepServers, StopMonitor, RestartMonitor, PingReturns,
     serverVars, trackerVars
<1>2. servers' \in Seq(AllServers)
  BY TypesHealthy DEF StartCycle, UpdateRoundRobin, KeepServers, StopMonitor, RestartMonitor,
     PingReturns
<1>3. pinger' \in {"asleep", "pinging", "stopping", "cancelled", "ended"}
      /\ pending' \in SUBSET AllServers /\ answered' \in SUBSET AllServers
  BY DEF StartCycle, UpdateRoundRobin, KeepServers, StopMonitor, RestartMonitor, PingReturns
<1>4. next' \in Nat /\ turns' \in [AllServers -> Nat]
  BY DEF StartCycle, UpdateRoundRobin, KeepServers, StopMonitor, RestartMonitor, PingReturns,
     roundRobinVars
<1>5. urls' \in SUBSET AllServers /\ monitoring' \in BOOLEAN
      /\ task' \in [AllServers -> TaskStates]
  BY CancelledTasks DEF StartCycle, UpdateRoundRobin, KeepServers, StopMonitor,
     RestartMonitor, PingReturns, trackerVars, TaskStates
<1>6. outcomes' \in [AllServers -> SUBSET {"success", "failure"}]
  BY OutcomeType DEF StartCycle, UpdateRoundRobin, KeepServers, StopMonitor, RestartMonitor,
     PingReturns, serverVars
<1> QED
  BY <1>1, <1>2, <1>3, <1>4, <1>5, <1>6 DEF histogramVars

LEMMA TypesRefresh ==
  ASSUME TypeOK, NEW s \in AllServers, Refresh(s)
  PROVE  TypeOK'
<1> DEFINE w == window[s]
           old == last[s][w]
           new == served[s]
           seen == [i \in 1 .. WindowSize + 1 |-> IF i <= WindowSize THEN fetched[s][i + 1] ELSE new]
<1> USE DEF TypeOK
<1>1. w \in Slots /\ WindowSize \in Nat \ {0} /\ old \in Histograms /\ new \in Histograms
      /\ diff[s] \in Histograms
  BY SelectionAssumption
<1>2. Update(old, new) \in Histograms
  BY <1>1, UpdateType
<1>3. Difference(new, old) \in Histograms
  BY <1>1, DifferenceType
<1>4. Update(diff[s], Difference(new, old)) \in Histograms
  BY <1>1, <1>3, UpdateType
<1>5. seen \in [1 .. WindowSize + 1 -> Histograms]
  BY <1>1
<1>6. /\ last' = [last EXCEPT ![s][w] = Update(old, new)]
      /\ diff' = [diff EXCEPT ![s] = Update(diff[s], Difference(new, old))]
      /\ window' = [window EXCEPT ![s] = (w + 1) % WindowSize]
      /\ fetched' = [fetched EXCEPT ![s] = seen]
      /\ task' = [task EXCEPT ![s] = "asleep"]
  BY DEF Refresh, NextSlot
<1>7. UNCHANGED <<serverVars, pingerVars, servers, roundRobinVars, urls, monitoring>>
  BY DEF Refresh
<1>8. (w + 1) % WindowSize \in Slots
  BY <1>1 DEF Slots
<1> HIDE DEF w, old, new, seen
<1>9. window' \in [AllServers -> Slots] /\ task' \in [AllServers -> TaskStates]
  BY <1>6, <1>8 DEF TaskStates
<1>10. last' \in [AllServers -> [Slots -> Histograms]]
  BY <1>1, <1>2, <1>6
<1>11. diff' \in [AllServers -> Histograms]
       /\ fetched' \in [AllServers -> [1 .. WindowSize + 1 -> Histograms]]
  BY <1>4, <1>5, <1>6
<1> QED
  BY <1>7, <1>9, <1>10, <1>11 DEF serverVars, pingerVars, roundRobinVars

LEMMA TypesTask ==
  ASSUME TypeOK, NEW s \in AllServers,
         TaskEnds(s) \/ WakeTask(s) \/ RefreshNothing(s) \/ RefreshRaises(s)
  PROVE  TypeOK'
<1> USE DEF TypeOK
<1>1. UNCHANGED <<strategy, stage, up, outcomes, served, pingerVars, servers, roundRobinVars,
                  urls, monitoring, last, diff, fetched>>
  BY DEF TaskEnds, WakeTask, RefreshNothing, RefreshRaises, serverVars, histogramVars
<1>2. faults' \in [Faults -> Nat]
  <2>1. faults' = faults \/ \E kind : Fault(kind)
    BY DEF TaskEnds, WakeTask, RefreshNothing, RefreshRaises, serverVars
  <2> QED
    BY <2>1, FaultType
<1>3. task' \in [AllServers -> TaskStates]
  <2>1. PICK state \in TaskStates : task' = [task EXCEPT ![s] = state]
    BY DEF TaskEnds, WakeTask, RefreshNothing, RefreshRaises, TaskStates
  <2> QED
    BY <2>1
<1>4. window' \in [AllServers -> Slots]
  <2>1. window[s] \in Slots /\ WindowSize \in Nat \ {0}
    BY SelectionAssumption
  <2>2. (window[s] + 1) % WindowSize \in Slots
    BY <2>1 DEF Slots
  <2> QED
    BY <2>2 DEF TaskEnds, WakeTask, RefreshNothing, RefreshRaises, NextSlot, histogramVars
<1> QED
  BY <1>1, <1>2, <1>3, <1>4 DEF pingerVars, roundRobinVars

LEMMA TypesMain ==
  ASSUME TypeOK, ChooseInTurn \/ StopPinger \/ PingerEnds \/ StopTracker \/ Exit
  PROVE  TypeOK'
<1> USE DEF TypeOK
<1>1. UNCHANGED <<strategy, up, outcomes, served, answered, servers, urls, histogramVars>>
  BY DEF ChooseInTurn, StopPinger, PingerEnds, StopTracker, Exit, serverVars, pingerVars,
     trackerVars
<1>2. stage' \in Stages /\ faults' \in [Faults -> Nat]
  <2>1. faults' = faults
    BY DEF ChooseInTurn, StopPinger, PingerEnds, StopTracker, Exit, serverVars
  <2>2. CASE ChooseInTurn \/ PingerEnds
    BY <2>2 DEF ChooseInTurn, PingerEnds, serverVars
  <2>3. CASE StopPinger \/ StopTracker \/ Exit
    BY <2>3 DEF StopPinger, StopTracker, Exit, Stages
  <2> QED
    BY <2>1, <2>2, <2>3
<1>3. /\ pending' \in SUBSET AllServers
      /\ pinger' \in {"asleep", "pinging", "stopping", "cancelled", "ended"}
  BY DEF ChooseInTurn, StopPinger, PingerEnds, StopTracker, Exit, pingerVars
<1>4. next' \in Nat /\ turns' \in [AllServers -> Nat]
  <2>1. CASE ChooseInTurn
    <3>1. Len(servers) \in Nat \ {0}
      BY <2>1 DEF ChooseInTurn
    <3>2. next' \in Nat
      BY <2>1, <3>1 DEF ChooseInTurn
    <3>3. turns' = [turns EXCEPT ![servers[next]] = turns[servers[next]] + 1]
      BY <2>1 DEF ChooseInTurn
    <3>4. turns' \in [AllServers -> Nat]
      <4> DEFINE x == servers[next]
      <4>1. turns \in [AllServers -> Nat] /\ turns' = [turns EXCEPT ![x] = turns[x] + 1]
        BY <3>3
      <4> HIDE DEF x, TypeOK
      <4>2. \A y \in AllServers : turns'[y] \in Nat
        BY <4>1
      <4> QED
        BY <4>1, <4>2
    <3> QED
      BY <3>2, <3>4
  <2>2. CASE StopPinger \/ PingerEnds \/ StopTracker \/ Exit
    BY <2>2 DEF StopPinger, PingerEnds, StopTracker, Exit, roundRobinVars
  <2> QED
    BY <2>1, <2>2
<1>5. monitoring' \in BOOLEAN /\ task' \in [AllServers -> TaskStates]
  BY CancelledTasks DEF ChooseInTurn, StopPinger, PingerEnds, StopTracker, Exit, trackerVars
<1> QED
  BY <1>1, <1>2, <1>3, <1>4, <1>5 DEF histogramVars

LEMMA TypesNext == TypeOK /\ [Next]_vars => TypeOK'
<1> SUFFICES ASSUME TypeOK, [Next]_vars PROVE TypeOK'
  OBVIOUS
<1>1. CASE UNCHANGED vars
  BY <1>1 DEF TypeOK, vars, serverVars, pingerVars, roundRobinVars, trackerVars, histogramVars
<1> QED
  BY <1>1, TypesServers, TypesPinger, TypesRefresh, TypesTask, TypesMain DEF Next

\* A fault is never forgotten: a state without one of some kinds follows one.
LEMMA SparedBefore ==
  ASSUME TypeOK, [Next]_vars, NEW kinds, Spared(kinds)'
  PROVE  Spared(kinds) /\ \A kind \in kinds : ~Fault(kind)
<1>1. faults \in [Faults -> Nat]
  BY DEF TypeOK
<1>2. faults' = faults \/ \E kind : Fault(kind)
  BY DEF Next, Serve, Toggle, Restart, StartCycle, PingReturns, UpdateRoundRobin, KeepServers,
     StopMonitor, RestartMonitor, TaskEnds, WakeTask, Refresh, RefreshNothing, RefreshRaises,
     ChooseInTurn, StopPinger, PingerEnds, StopTracker, Exit, vars, serverVars
<1>3. \A kind \in kinds : ~Fault(kind)
  BY <1>1 DEF Spared, Fault
<1> QED
  BY <1>1, <1>2, <1>3 DEF Spared, Fault

\* Whatever fails, every variable stays in its type: the windows within their
\* slots, the healthy servers a list of servers, whose order comes of a CHOOSE.
THEOREM TypesHold == Spec => []TypeOK
BY TypesInit, TypesNext, PTL DEF Spec

-----------------------------------------------------------------------------
(* The shutdown.  The signal stops the pinger once and for all; when the    *)
(* pinger has ended no task is being cancelled, and none is started again.  *)

NoneEnding == \A s \in AllServers : task[s] # "cancelled"

ShutdownInv ==
  /\ stage \in Stages
  /\ task \in [AllServers -> TaskStates]
  /\ ~monitoring => Unmonitored
  /\ stage = "running" <=> pinger \notin {"cancelled", "ended"}
  /\ stage = "stopping pinger" /\ pinger = "ended" => NoneEnding
  /\ stage \in {"stopping tracker", "exited"} => pinger = "ended" /\ Unmonitored
  /\ stage = "exited" => NoneEnding

LEMMA ShutdownInit == Init => ShutdownInv
BY DEF Init, ShutdownInv, Stages, TaskStates, Unmonitored, NoneEnding, LeastBusy

LEMMA ShutdownPinger ==
  ASSUME ShutdownInv, StopMonitor \/ RestartMonitor
  PROVE  ShutdownInv'
<1> USE DEF ShutdownInv
<1>1. CASE StopMonitor
  <2>1. stage = "running" /\ pinger' = "stopping" /\ stage' = stage /\ CancelTasks
    BY <1>1 DEF StopMonitor, Gathered, serverVars
  <2> QED
    BY <2>1, CancelledTasks
<1>2. CASE RestartMonitor
  <2>1. stage = "running" /\ pinger' = "asleep" /\ stage' = stage /\ monitoring' = TRUE
    BY <1>2 DEF RestartMonitor, serverVars
  <2>2. task' \in [AllServers -> TaskStates]
    BY <1>2 DEF RestartMonitor, TaskStates
  <2> QED
    BY <2>1, <2>2
<1> QED
  BY <1>1, <1>2

\* A server that goes away ends the fetch of its metrics, if anything.
LEMMA ShutdownServers ==
  ASSUME ShutdownInv, NEW s \in AllServers, Toggle(s) \/ Restart(s)
  PROVE  ShutdownInv'
<1> USE DEF ShutdownInv
<1>1. UNCHANGED <<stage, pinger, monitoring>> /\ (BreakFetch(s) \/ UNCHANGED task)
  BY DEF Toggle, Restart, pingerVars
<1>2. /\ task' \in [AllServers -> TaskStates]
      /\ Unmonitored => Unmonitored'
      /\ NoneEnding => NoneEnding'
  BY <1>1, BrokenFetch DEF NoneEnding
<1> QED
  BY <1>1, <1>2

\* A step of one task: it goes from one state to another, and starts nothing
\* that was not running.
LEMMA ShutdownTask ==
  ASSUME ShutdownInv, NEW s \in AllServers,
         TaskEnds(s) \/ WakeTask(s) \/ Refresh(s) \/ RefreshNothing(s) \/ RefreshRaises(s)
  PROVE  ShutdownInv'
<1> USE DEF ShutdownInv
<1>1. UNCHANGED <<stage, pinger, monitoring>>
  BY DEF TaskEnds, WakeTask, Refresh, RefreshNothing, RefreshRaises, serverVars, pingerVars
<1>2. PICK state \in TaskStates \ {"cancelled"} :
        /\ task' = [task EXCEPT ![s] = state]
        /\ state \in {"fetching", "asleep"} => task[s] \in {"fetching", "asleep"}
  BY DEF TaskEnds, WakeTask, Refresh, RefreshNothing, RefreshRaises, TaskStates
<1>3. /\ task' \in [AllServers -> TaskStates]
      /\ Unmonitored => Unmonitored'
      /\ NoneEnding => NoneEnding'
  BY <1>2 DEF Unmonitored, NoneEnding
<1> QED
  BY <1>1, <1>3

LEMMA ShutdownMain ==
  ASSUME ShutdownInv, StopPinger \/ PingerEnds \/ StopTracker \/ Exit
  PROVE  ShutdownInv'
<1> USE DEF ShutdownInv, Stages
<1>1. CASE StopPinger
  BY <1>1 DEF StopPinger, trackerVars, Unmonitored
<1>2. CASE PingerEnds
  BY <1>2 DEF PingerEnds, trackerVars, serverVars, Unmonitored, NoneEnding
<1>3. CASE StopTracker
  <2>1. stage = "stopping pinger" /\ pinger' = pinger /\ pinger = "ended" /\ ~monitoring'
    BY <1>3 DEF StopTracker, pingerVars
  <2>2. CASE monitoring
    <3>1. stage' = "stopping tracker" /\ CancelTasks
      BY <1>3, <2>2 DEF StopTracker
    <3> QED
      BY <2>1, <3>1, CancelledTasks
  <2>3. CASE ~monitoring
    <3>1. stage' = "exited" /\ task' = task
      BY <1>3, <2>3 DEF StopTracker
    <3> QED
      BY <2>1, <2>3, <3>1 DEF Unmonitored, NoneEnding
  <2> QED
    BY <2>2, <2>3
<1>4. CASE Exit
  BY <1>4 DEF Exit, pingerVars, trackerVars, Unmonitored, NoneEnding
<1> QED
  BY <1>1, <1>2, <1>3, <1>4

LEMMA ShutdownNext ==
  ASSUME ShutdownInv, [Next]_vars
  PROVE  ShutdownInv'
<1>1. CASE UNCHANGED <<stage, pinger, monitoring, task>>
  BY <1>1 DEF ShutdownInv, Unmonitored, NoneEnding
<1>2. CASE StartCycle \/ UpdateRoundRobin \/ KeepServers
  <2>1. UNCHANGED <<stage, monitoring, task>> /\ {pinger, pinger'} \subseteq {"asleep", "pinging"}
    BY <1>2 DEF StartCycle, UpdateRoundRobin, KeepServers, Gathered, serverVars, trackerVars
  <2> QED
    BY <2>1 DEF ShutdownInv, Unmonitored, NoneEnding
<1>3. CASE StopMonitor \/ RestartMonitor
  BY <1>3, ShutdownPinger
<1>4. CASE \E s \in AllServers :
             TaskEnds(s) \/ WakeTask(s) \/ Refresh(s) \/ RefreshNothing(s) \/ RefreshRaises(s)
  BY <1>4, ShutdownTask
<1>5. CASE StopPinger \/ PingerEnds \/ StopTracker \/ Exit
  BY <1>5, ShutdownMain
<1>6. CASE \E s \in AllServers : Toggle(s) \/ Restart(s)
  BY <1>6, ShutdownServers
<1>7. (\E s \in AllServers : Serve(s) \/ PingReturns(s))
      \/ ChooseInTurn \/ UNCHANGED vars
        => UNCHANGED <<stage, pinger, monitoring, task>>
  BY DEF Serve, PingReturns, ChooseInTurn, vars, serverVars, pingerVars, trackerVars
<1> QED
  BY <1>1, <1>2, <1>3, <1>4, <1>5, <1>6, <1>7 DEF Next

\* At any moment of a cycle of the pinger the signal may come, and however many
\* servers there are, no monitoring task outlives main_consumer.
THEOREM NothingIsLeftRunning == Spec => []NothingMonitoredAtExit
<1>1. ShutdownInv => NothingMonitoredAtExit
  BY DEF ShutdownInv, NothingMonitoredAtExit, TaskStates, Unmonitored, NoneEnding
<1>2. ShutdownInv /\ [Next]_vars => ShutdownInv'
  BY ShutdownNext
<1> QED
  BY <1>1, <1>2, ShutdownInit, PTL DEF Spec

-----------------------------------------------------------------------------
(* The window.  Slot window[s] holds the reading the next one is compared   *)
(* with, and the slots after it, around the end, the more recent ones.      *)

Reading(s, i) ==
  fetched[s][IF i >= window[s] THEN i - window[s] + 2 ELSE i - window[s] + WindowSize + 2]

WindowTypes ==
  /\ served \in [AllServers -> Histograms]
  /\ window \in [AllServers -> Slots]
  /\ last \in [AllServers -> [Slots -> Histograms]]
  /\ diff \in [AllServers -> Histograms]
  /\ fetched \in [AllServers -> [1 .. WindowSize + 1 -> Histograms]]

\* Once a server has served something it exposes a histogram for good.
KeepsBuckets ==
  \A s \in AllServers : served[s] = EmptyHistogram =>
    \A k \in 1 .. WindowSize + 1 : fetched[s][k] = EmptyHistogram

SlotsHoldReadings == \A s \in AllServers : \A i \in Slots : last[s][i] = Reading(s, i)

DiffsExact ==
  \A s \in AllServers : diff[s] = Difference(fetched[s][WindowSize + 1], fetched[s][1])

WindowHolds == WindowTypes /\ KeepsBuckets /\ SlotsHoldReadings /\ DiffsExact

\* It is so as long as no server counted from nothing again nor sent an empty page.
WindowInv == Spared({"restart", "empty"}) => WindowHolds

LEMMA WindowInit == Init => WindowHolds
<1> SUFFICES ASSUME Init PROVE WindowHolds
  OBVIOUS
<1>1. WindowTypes
  BY SelectionAssumption DEF Init, WindowTypes, Slots, Histograms
<1>2. KeepsBuckets
  BY DEF Init, KeepsBuckets
<1>3. SlotsHoldReadings
  <2> SUFFICES ASSUME NEW s \in AllServers, NEW i \in Slots PROVE last[s][i] = Reading(s, i)
    BY DEF SlotsHoldReadings
  <2>1. i - 0 + 2 \in 1 .. WindowSize + 1
    BY SelectionAssumption DEF Slots
  <2> QED
    BY <2>1 DEF Init, Reading, Slots
<1>4. DiffsExact
  <2>1. Difference(EmptyHistogram, EmptyHistogram) = EmptyHistogram
    BY EmptyDiffers DEF Difference, EmptyHistogram
  <2> QED
    BY <2>1, SelectionAssumption DEF Init, DiffsExact
<1> QED
  BY <1>1, <1>2, <1>3, <1>4 DEF WindowHolds

LEMMA WindowServe ==
  ASSUME WindowHolds, NEW s \in AllServers, Serve(s)
  PROVE  WindowHolds'
<1>1. PICK b \in Buckets : served' = [served EXCEPT ![s] = Observe(@, b)]
  BY DEF Serve
<1>2. Observe(served[s], b) \in [Buckets -> Int]
  BY ObserveType DEF WindowHolds, WindowTypes
<1>3. UNCHANGED <<window, last, diff, fetched>>
  BY DEF Serve, trackerVars, histogramVars
<1>4. served' \in [AllServers -> Histograms] /\ served'[s] # EmptyHistogram
      /\ \A q \in AllServers : q # s => served'[q] = served[q]
  BY <1>1, <1>2, EmptyDiffers DEF WindowHolds, WindowTypes, Histograms
<1> QED
  BY <1>3, <1>4 DEF WindowHolds, WindowTypes, KeepsBuckets, SlotsHoldReadings, Reading, DiffsExact

\* A reading takes the place of the oldest one.
LEMMA WindowRefresh ==
  ASSUME WindowHolds, NEW s \in AllServers, Refresh(s)
  PROVE  WindowHolds'
<1> DEFINE w == window[s]
           old == last[s][w]
           new == served[s]
<1> USE DEF WindowHolds, WindowTypes
<1>1. w \in Slots /\ w \in 0 .. WindowSize - 1 /\ WindowSize \in Nat \ {0}
      /\ old \in Histograms /\ new \in Histograms
  BY SelectionAssumption DEF Slots
<1>2. old = fetched[s][2] /\ 2 \in 1 .. WindowSize + 1 /\ 1 \in 1 .. WindowSize + 1
      /\ WindowSize + 1 \in 1 .. WindowSize + 1
  BY <1>1 DEF SlotsHoldReadings, Reading
<1>3. DOMAIN old \subseteq DOMAIN new
  BY <1>1, <1>2, EmptyDiffers DEF KeepsBuckets
<1>4. DOMAIN diff[s] \subseteq DOMAIN new
  <2>1. /\ fetched[s][1] \in Histograms /\ fetched[s][WindowSize + 1] \in Histograms
        /\ diff[s] = Difference(fetched[s][WindowSize + 1], fetched[s][1])
    BY <1>2 DEF DiffsExact
  <2>2. DOMAIN fetched[s][1] \subseteq DOMAIN new
        /\ DOMAIN fetched[s][WindowSize + 1] \subseteq DOMAIN new
    BY <1>1, <1>2, <2>1, EmptyDiffers DEF KeepsBuckets
  <2>3. DOMAIN diff[s] = DOMAIN fetched[s][WindowSize + 1] \cup DOMAIN fetched[s][1]
    BY <2>1, DifferenceType, Zenon
  <2> QED
    BY <2>2, <2>3
<1>5. Difference(new, old) \in Histograms /\ DOMAIN diff[s] \subseteq DOMAIN Difference(new, old)
  <2>1. /\ Difference(new, old) \in Histograms
        /\ DOMAIN Difference(new, old) = DOMAIN new \cup DOMAIN old
    BY <1>1, DifferenceType, Zenon
  <2> QED
    BY <1>4, <2>1
<1>6. Update(old, new) = new /\ Update(diff[s], Difference(new, old)) = Difference(new, old)
  BY <1>1, <1>3, <1>5, UpdateReplaces
<1>7. /\ last' = [last EXCEPT ![s][w] = new]
      /\ diff' = [diff EXCEPT ![s] = Difference(new, old)]
      /\ window' = [window EXCEPT ![s] = (w + 1) % WindowSize]
      /\ fetched' = [fetched EXCEPT ![s] =
           [k \in 1 .. WindowSize + 1 |-> IF k <= WindowSize THEN fetched[s][k + 1] ELSE new]]
      /\ served' = served
  BY <1>6 DEF Refresh, NextSlot, serverVars
<1>8. (w + 1) % WindowSize = (IF w + 1 = WindowSize THEN 0 ELSE w + 1)
  BY <1>1, SlotAfter
<1> HIDE DEF w, old, new
<1>9. /\ window'[s] = (IF w + 1 = WindowSize THEN 0 ELSE w + 1)
      /\ diff'[s] = Difference(new, old)
      /\ \A i \in Slots : last'[s][i] = IF i = w THEN new ELSE last[s][i]
      /\ \A k \in 1 .. WindowSize + 1 :
           fetched'[s][k] = IF k <= WindowSize THEN fetched[s][k + 1] ELSE new
  BY <1>1, <1>7, <1>8
<1>10. \A q \in AllServers : q # s =>
         /\ window'[q] = window[q] /\ diff'[q] = diff[q]
         /\ last'[q] = last[q] /\ fetched'[q] = fetched[q]
  BY <1>7
<1>11. WindowTypes'
  <2>1. window' \in [AllServers -> Slots]
    BY <1>1, <1>7, <1>8 DEF Slots
  <2>2. last' \in [AllServers -> [Slots -> Histograms]]
    BY <1>1, <1>7
  <2>3. diff' \in [AllServers -> Histograms]
    BY <1>5, <1>7 DEF w, old, new
  <2>4. [k \in 1 .. WindowSize + 1 |-> IF k <= WindowSize THEN fetched[s][k + 1] ELSE new]
          \in [1 .. WindowSize + 1 -> Histograms]
    BY <1>1
  <2>5. fetched' \in [AllServers -> [1 .. WindowSize + 1 -> Histograms]]
    BY <1>7, <2>4
  <2> QED
    BY <1>7, <2>1, <2>2, <2>3, <2>5
<1>12. KeepsBuckets'
  <2> SUFFICES ASSUME NEW q \in AllServers, served[q] = EmptyHistogram,
                      NEW k \in 1 .. WindowSize + 1
               PROVE  fetched'[q][k] = EmptyHistogram
    BY <1>7 DEF KeepsBuckets
  <2>1. CASE q = s
    <3>1. new = EmptyHistogram
      BY <2>1 DEF new
    <3>2. k <= WindowSize => fetched[s][k + 1] = EmptyHistogram
      BY <1>1, <2>1 DEF KeepsBuckets
    <3> QED
      BY <1>9, <2>1, <3>1, <3>2
  <2>2. CASE q # s
    BY <1>10, <2>2 DEF KeepsBuckets
  <2> QED
    BY <2>1, <2>2
<1>13. SlotsHoldReadings'
  <2> SUFFICES ASSUME NEW q \in AllServers, NEW i \in Slots
               PROVE  last'[q][i] = Reading(q, i)'
    BY DEF SlotsHoldReadings
  <2>1. CASE q # s
    BY <1>10, <2>1 DEF SlotsHoldReadings, Reading
  <2>2. CASE q = s
    <3> DEFINE next_w == IF w + 1 = WindowSize THEN 0 ELSE w + 1
               k == IF i >= next_w THEN i - next_w + 2 ELSE i - next_w + WindowSize + 2
    <3>1. Reading(q, i)' = fetched'[s][k] /\ i \in 0 .. WindowSize - 1
      BY <1>9, <2>2 DEF Reading, Slots
    <3>2. k \in 1 .. WindowSize + 1
      BY <1>1, <3>1
    <3>3. CASE i = w
      <4>1. k = WindowSize + 1
        BY <1>1, <3>1, <3>3
      <4> QED
        BY <1>1, <1>9, <2>2, <3>1, <3>2, <3>3, <4>1
    <3>4. CASE i # w
      <4>1. k <= WindowSize
            /\ k + 1 = (IF i >= w THEN i - w + 2 ELSE i - w + WindowSize + 2)
        BY <1>1, <3>1, <3>4
      <4>2. last[s][i] = fetched[s][k + 1]
        BY <4>1 DEF SlotsHoldReadings, Reading, w
      <4> QED
        BY <1>9, <2>2, <3>1, <3>2, <3>4, <4>1, <4>2
    <3> QED
      BY <3>3, <3>4
  <2> QED
    BY <2>1, <2>2
<1>14. DiffsExact'
  <2> SUFFICES ASSUME NEW q \in AllServers
               PROVE  diff'[q] = Difference(fetched'[q][WindowSize + 1], fetched'[q][1])
    BY DEF DiffsExact
  <2>1. CASE q = s
    <3>1. fetched'[s][WindowSize + 1] = new
      BY <1>1, <1>2, <1>9
    <3>2. fetched'[s][1] = old
      BY <1>1, <1>2, <1>9
    <3> QED
      BY <1>9, <2>1, <3>1, <3>2
  <2>2. CASE q # s
    BY <1>10, <2>2 DEF DiffsExact
  <2> QED
    BY <2>1, <2>2
<1> QED
  BY <1>11, <1>12, <1>13, <1>14

LEMMA WindowNext ==
  ASSUME TypeOK, WindowInv, [Next]_vars
  PROVE  WindowInv'
<1> SUFFICES ASSUME Spared({"restart", "empty"})' PROVE WindowHolds'
  BY DEF WindowInv
<1>1. WindowHolds /\ ~Fault("restart") /\ ~Fault("empty")
  BY SparedBefore DEF WindowInv
<1>2. ASSUME NEW s \in AllServers, Serve(s) PROVE WindowHolds'
  BY <1>1, <1>2, WindowServe
<1>3. ASSUME NEW s \in AllServers, Refresh(s) PROVE WindowHolds'
  BY <1>1, <1>3, WindowRefresh
<1>4. CASE UNCHANGED <<served, histogramVars>>
  BY <1>1, <1>4 DEF WindowHolds, WindowTypes, KeepsBuckets, SlotsHoldReadings, Reading,
     DiffsExact, histogramVars
<1>5. \/ \E s \in AllServers : Serve(s) \/ Refresh(s)
      \/ UNCHANGED <<served, histogramVars>>
  BY <1>1 DEF Next, Toggle, Restart, RefreshNothing, StartCycle, PingReturns,
     UpdateRoundRobin, KeepServers, StopMonitor, RestartMonitor, TaskEnds, WakeTask,
     RefreshRaises, ChooseInTurn, StopPinger, PingerEnds, StopTracker, Exit, vars, serverVars,
     trackerVars
<1> QED
  BY <1>2, <1>3, <1>4, <1>5

\* The histogram a server is judged by is exact whatever the size of the window
\* and whenever its monitoring is cancelled, fails or starts again, until a server
\* restarts or answers an empty page of metrics.
THEOREM WindowsAreExact == Spec => []WindowExact
<1>1. WindowInv => WindowExact
  BY DEF WindowInv, WindowHolds, DiffsExact, WindowExact
<1>2. TypeOK /\ WindowInv /\ [Next]_vars => WindowInv'
  BY WindowNext
<1>3. Init => WindowInv
  BY WindowInit DEF WindowInv
<1> QED
  BY <1>1, <1>2, <1>3, TypesHold, PTL DEF Spec

-----------------------------------------------------------------------------
(* The pinger.  A ping under way may return what its server is, one that    *)
(* has returned gave what its server was.                                   *)

CycleInv ==
  /\ pinger \in {"asleep", "stopping"} => pending = {}
  /\ \A s \in pending : s \notin answered /\ Outcome(s, up) \in outcomes[s]
  /\ pinger \notin {"cancelled", "ended"} =>
       \A s \in AllServers \ pending : Outcome(s, answered) \in outcomes[s]

LEMMA CycleInit == Init => CycleInv
BY DEF Init, CycleInv

LEMMA CycleToggle ==
  ASSUME TypeOK, CycleInv, NEW s \in AllServers, Toggle(s)
  PROVE  CycleInv'
<1>1. UNCHANGED <<pinger, pending, answered>>
  BY DEF Toggle, pingerVars
<1>2. \A q \in AllServers : q # s => outcomes'[q] = outcomes[q] /\ Outcome(q, up') = Outcome(q, up)
  BY DEF Toggle, TypeOK, Outcome
<1>3. /\ s \in pending => Outcome(s, up') \in outcomes'[s]
      /\ s \notin pending => outcomes'[s] = outcomes[s]
  BY DEF Toggle, TypeOK
<1> QED
  BY <1>1, <1>2, <1>3 DEF CycleInv, TypeOK

LEMMA CyclePing ==
  ASSUME TypeOK, CycleInv, NEW s \in AllServers, PingReturns(s)
  PROVE  CycleInv'
<1>1. UNCHANGED <<pinger, up, outcomes>> /\ s \in pending /\ pending' = pending \ {s}
  BY DEF PingReturns, serverVars
<1>2. /\ Outcome(s, answered') = Outcome(s, up)
      /\ \A q \in AllServers : q # s => (q \in answered' <=> q \in answered)
  BY <1>1 DEF PingReturns, Outcome, CycleInv
<1>3. \A q \in AllServers : q # s => Outcome(q, answered') = Outcome(q, answered)
  BY <1>2 DEF Outcome
<1> QED
  BY <1>1, <1>2, <1>3 DEF CycleInv, TypeOK

LEMMA CycleNext ==
  ASSUME TypeOK, CycleInv, [Next]_vars
  PROVE  CycleInv'
<1>1. CASE \E s \in AllServers : Toggle(s) \/ PingReturns(s)
  BY <1>1, CycleToggle, CyclePing
<1>2. CASE StartCycle
  BY <1>2 DEF StartCycle, CycleInv
<1>3. CASE /\ UNCHANGED <<up, outcomes, pending, answered>>
           /\ pinger' = pinger \/ pending = {} \/ pinger' \in {"cancelled", "ended"}
           /\ pinger' \notin {"cancelled", "ended"} => pinger \notin {"cancelled", "ended"}
  BY <1>3 DEF CycleInv
<1>4. CASE StopPinger
  BY <1>4 DEF StopPinger, CycleInv
<1>5. CASE UpdateRoundRobin \/ KeepServers \/ StopMonitor \/ RestartMonitor
  <2>1. UNCHANGED <<up, outcomes, pending, answered>>
    BY <1>5 DEF UpdateRoundRobin, KeepServers, StopMonitor, RestartMonitor, serverVars
  <2>2. pending = {} /\ pinger \notin {"cancelled", "ended"}
    BY <1>5 DEF UpdateRoundRobin, KeepServers, StopMonitor, RestartMonitor, Gathered, CycleInv
  <2> QED
    BY <1>3, <2>1, <2>2
<1>6. CASE PingerEnds
  BY <1>6 DEF PingerEnds, serverVars, CycleInv
<1>7. CASE (\E s \in AllServers :
              \/ Serve(s) \/ Restart(s) \/ TaskEnds(s) \/ WakeTask(s)
              \/ Refresh(s) \/ RefreshNothing(s) \/ RefreshRaises(s))
           \/ ChooseInTurn \/ StopTracker \/ Exit \/ UNCHANGED vars
  <2>1. UNCHANGED <<up, outcomes, pending, answered, pinger>>
    BY <1>7 DEF Serve, Restart, TaskEnds, WakeTask, Refresh, RefreshNothing, RefreshRaises,
       ChooseInTurn, StopTracker, Exit, vars, serverVars, pingerVars
  <2> QED
    BY <1>3, <2>1
<1> QED
  BY <1>1, <1>2, <1>4, <1>5, <1>6, <1>7 DEF Next

\* However many servers come and go, what the strategy is left with after each
\* cycle is what the pings of that cycle found.
THEOREM KnownServersWereFound == Spec => KnownFromTheCycle
<1>1. ASSUME TypeOK, CycleInv, [Next]_vars,
             pinger \in {"pinging", "stopping"}, pinger' = "asleep", NEW s \in AllServers
      PROVE  Outcome(s, SetOf(servers')) \in outcomes[s]
  <2>1. UpdateRoundRobin \/ KeepServers \/ RestartMonitor
    BY <1>1 DEF Next, Serve, Toggle, Restart, StartCycle, PingReturns, StopMonitor, TaskEnds,
       WakeTask, Refresh, RefreshNothing, RefreshRaises, ChooseInTurn, StopPinger, PingerEnds,
       StopTracker, Exit, vars, serverVars, pingerVars
  <2>2. servers' = Healthy /\ pending = {}
    BY <1>1, <2>1 DEF UpdateRoundRobin, KeepServers, RestartMonitor, Gathered, CycleInv
  <2>3. SetOf(servers') = answered
    BY <1>1, <2>2, TypesHealthy
  <2> QED
    BY <1>1, <2>2, <2>3 DEF CycleInv
<1> DEFINE Found == (pinger \in {"pinging", "stopping"} /\ pinger' = "asleep") =>
                      \A s \in AllServers : Outcome(s, SetOf(servers')) \in outcomes[s]
<1>2. TypeOK /\ CycleInv /\ [Next]_vars => Found
  BY <1>1
<1>3. TypeOK /\ CycleInv /\ [Next]_vars => CycleInv'
  BY CycleNext
<1> HIDE DEF Found
<1>4. Spec => [][Found]_vars
  BY <1>2, <1>3, CycleInit, TypesHold, PTL DEF Spec
<1> QED
  BY <1>4 DEF KnownFromTheCycle, Found

-----------------------------------------------------------------------------
(* The round robin.  The servers before the index have had one request more *)
(* than the others.                                                         *)

TurnsFrom(k) == \A i \in DOMAIN servers : turns[servers[i]] = IF i < next THEN k + 1 ELSE k

TurnsInv ==
  /\ pinger = "stopping" => LeastBusy
  /\ LeastBusy => next = 1 /\ turns = [s \in AllServers |-> 0]
  /\ \A i, j \in DOMAIN servers : servers[i] = servers[j] => i = j
  /\ servers # <<>> => next \in DOMAIN servers
  /\ \E k \in Nat : TurnsFrom(k)

\* A new list of servers, the index at its first one.
LEMMA TurnsRestart ==
  ASSUME TypeOK, servers' = Healthy, next' = 1, turns' = [s \in AllServers |-> 0]
  PROVE  /\ \A i, j \in DOMAIN servers' : servers'[i] = servers'[j] => i = j
         /\ servers' # <<>> => next' \in DOMAIN servers'
         /\ (\E k \in Nat : TurnsFrom(k))'
<1>1. Healthy \in Seq(AllServers)
      /\ \A i, j \in DOMAIN Healthy : Healthy[i] = Healthy[j] => i = j
  BY ListedServers DEF TypeOK, Healthy
<1>2. \A i \in DOMAIN servers' : turns'[servers'[i]] = 0 /\ ~ (i < next')
  BY <1>1
<1>3. TurnsFrom(0)'
  BY <1>2 DEF TurnsFrom
<1> QED
  BY <1>1, <1>3

LEMMA TurnsInit == Init => TurnsInv
<1> SUFFICES ASSUME Init PROVE TurnsInv
  OBVIOUS
<1>1. servers \in Seq(AllServers) /\ next = 1 /\ turns = [s \in AllServers |-> 0]
      /\ \A i, j \in DOMAIN servers : servers[i] = servers[j] => i = j
  BY SelectionAssumption DEF Init
<1>2. servers # <<>> => next \in DOMAIN servers
  BY <1>1
<1>3. TurnsFrom(0)
  BY <1>1 DEF TurnsFrom
<1>4. pinger # "stopping"
  BY DEF Init
<1> QED
  BY <1>1, <1>2, <1>3, <1>4 DEF TurnsInv

LEMMA IndexAfter ==
  ASSUME NEW size \in Nat \ {0}, NEW i \in 1 .. size
  PROVE  (i % size) + 1 = (IF i = size THEN 1 ELSE i + 1)
<1>1. CASE i = size
  BY <1>1
<1>2. CASE i < size
  BY <1>2
<1> QED
  BY <1>1, <1>2

\* The server at the index is the first of those that had fewer requests; after
\* the last one all have had as many.
LEMMA TurnsChoose ==
  ASSUME TypeOK, TurnsInv, ChooseInTurn
  PROVE  TurnsInv'
<1> DEFINE size == Len(servers)
<1>1. /\ DOMAIN servers = 1 .. size /\ size \in Nat \ {0} /\ next \in 1 .. size
      /\ \A i \in 1 .. size : servers[i] \in AllServers
  BY DEF TypeOK, TurnsInv, ChooseInTurn
<1>2. /\ UNCHANGED <<strategy, pinger, servers>> /\ ~LeastBusy
      /\ turns' = [turns EXCEPT ![servers[next]] = turns[servers[next]] + 1]
      /\ next' = (next % size) + 1
  BY DEF ChooseInTurn, serverVars, pingerVars
<1>3. next' = IF next = size THEN 1 ELSE next + 1
  BY <1>1, <1>2, IndexAfter
<1>4. PICK k \in Nat : TurnsFrom(k)
  BY DEF TurnsInv
<1>5. \A i \in 1 .. size :
        turns'[servers[i]] = IF i = next THEN turns[servers[i]] + 1 ELSE turns[servers[i]]
  <2>1. \A i \in 1 .. size : servers[i] = servers[next] => i = next
    BY <1>1 DEF TurnsInv
  <2>2. turns \in [AllServers -> Nat]
    BY DEF TypeOK
  <2> QED
    BY <1>1, <1>2, <2>1, <2>2
<1>6. \A i \in 1 .. size : turns[servers[i]] = IF i < next THEN k + 1 ELSE k
  BY <1>1, <1>4 DEF TurnsFrom
<1> HIDE DEF size
<1>7. \A i \in 1 .. size : turns'[servers[i]] = IF i <= next THEN k + 1 ELSE k
  BY <1>1, <1>5, <1>6
<1>8. \E n \in Nat : \A i \in 1 .. size : turns'[servers[i]] = IF i < next' THEN n + 1 ELSE n
  <2>1. CASE next = size
    <3>1. \A i \in 1 .. size : turns'[servers[i]] = IF i < next' THEN k + 2 ELSE k + 1
      BY <1>1, <1>3, <1>7, <2>1
    <3> QED
      BY <3>1, k + 1 \in Nat, k + 2 = (k + 1) + 1
  <2>2. CASE next # size
    <3>1. \A i \in 1 .. size : turns'[servers[i]] = IF i < next' THEN k + 1 ELSE k
      BY <1>1, <1>3, <1>7, <2>2
    <3> QED
      BY <3>1
  <2> QED
    BY <2>1, <2>2
<1>9. (\E n \in Nat : TurnsFrom(n))'
  BY <1>1, <1>2, <1>8 DEF TurnsFrom
<1>10. next' \in 1 .. size
  BY <1>1, <1>3
<1> QED
  BY <1>1, <1>2, <1>9, <1>10 DEF TurnsInv, LeastBusy

LEMMA TurnsNext ==
  ASSUME TypeOK, TurnsInv, [Next]_vars
  PROVE  TurnsInv'
<1>1. CASE ChooseInTurn
  BY <1>1, TurnsChoose
<1>2. CASE UpdateRoundRobin
  <2>1. /\ strategy' = strategy /\ pinger' = "asleep" /\ ~LeastBusy
        /\ servers' = Healthy /\ next' = 1 /\ turns' = [s \in AllServers |-> 0]
    BY <1>2 DEF UpdateRoundRobin, serverVars
  <2> QED
    BY <2>1, TurnsRestart DEF TurnsInv, LeastBusy
<1>3. CASE RestartMonitor
  <2>1. /\ strategy' = strategy /\ pinger' = "asleep" /\ LeastBusy
        /\ servers' = Healthy /\ next' = 1 /\ turns' = [s \in AllServers |-> 0]
    BY <1>3 DEF RestartMonitor, TurnsInv, serverVars, roundRobinVars
  <2> QED
    BY <2>1, TurnsRestart DEF TurnsInv
<1>4. CASE UNCHANGED <<strategy, servers, next, turns>> /\ (pinger' = "stopping" => LeastBusy)
  BY <1>4 DEF TurnsInv, TurnsFrom, LeastBusy
<1>5. \/ UpdateRoundRobin \/ RestartMonitor \/ ChooseInTurn
      \/ UNCHANGED <<strategy, servers, next, turns>> /\ (pinger' = "stopping" => LeastBusy)
  <2>1. CASE UNCHANGED vars
    BY <2>1 DEF TurnsInv, vars, serverVars, pingerVars, roundRobinVars
  <2>2. CASE \E s \in AllServers :
               \/ Serve(s) \/ Toggle(s) \/ Restart(s) \/ PingReturns(s)
               \/ TaskEnds(s) \/ WakeTask(s)
               \/ Refresh(s) \/ RefreshNothing(s) \/ RefreshRaises(s)
    BY <2>2 DEF TurnsInv, Serve, Toggle, Restart, PingReturns, TaskEnds, WakeTask, Refresh,
       RefreshNothing, RefreshRaises, serverVars, pingerVars, roundRobinVars
  <2>3. CASE StartCycle \/ KeepServers \/ StopMonitor
    BY <2>3 DEF StartCycle, KeepServers, StopMonitor, serverVars, roundRobinVars
  <2>4. CASE StopPinger \/ PingerEnds \/ StopTracker \/ Exit
    BY <2>4 DEF TurnsInv, StopPinger, PingerEnds, StopTracker, Exit, serverVars, pingerVars,
       roundRobinVars
  <2> QED
    BY <2>1, <2>2, <2>3, <2>4 DEF Next
<1> QED
  BY <1>1, <1>2, <1>3, <1>4, <1>5

\* However the servers come and go, the requests are shared evenly and the index
\* is never past the end of the list.
THEOREM TurnsAreEven == Spec => []RoundRobinEven
<1>1. ASSUME TypeOK, TurnsInv PROVE RoundRobinEven
  <2>1. PICK k \in Nat : TurnsFrom(k)
    BY <1>1 DEF TurnsInv
  <2>2. DOMAIN servers \subseteq Nat /\ next \in Nat
    BY <1>1 DEF TypeOK
  <2>3. \A i, j \in DOMAIN servers : i < j => turns[servers[i]] - turns[servers[j]] \in {0, 1}
    BY <2>1, <2>2 DEF TurnsFrom
  <2> QED
    BY <1>1, <2>3 DEF RoundRobinEven, TurnsInv
<1>2. TypeOK /\ TurnsInv /\ [Next]_vars => TurnsInv'
  BY TurnsNext
<1> QED
  BY <1>1, <1>2, TurnsInit, TypesHold, PTL DEF Spec

-----------------------------------------------------------------------------
(* The choice of the least busy server.  No slot of a window counts more    *)
(* requests than the server has served, hence every histogram a score is    *)
(* computed from counts no fewer than none, and its last bound is covering. *)

Within(h, g) ==
  /\ \A b \in Buckets : Count(h, b) <= Count(g, b)
  /\ g = EmptyHistogram => h = EmptyHistogram

ScoreHolds ==
  /\ LeastBusy => urls = SetOf(servers)
  /\ \A s \in AllServers :
       /\ \A i \in Slots : Within(last[s][i], served[s])
       /\ Within(EmptyHistogram, diff[s])
       /\ served[s] = EmptyHistogram => diff[s] = EmptyHistogram

\* It is so as long as no server counted from nothing again.
ScoreInv == Spared({"restart"}) => ScoreHolds

LEMMA ScoreInit == Init => ScoreHolds
<1>1. Within(EmptyHistogram, EmptyHistogram)
  BY CountType DEF Within, Histograms
<1>2. SetOf(VllmServers) = AllServers
  BY DEF SetOf, AllServers
<1> QED
  BY <1>1, <1>2 DEF Init, ScoreHolds

LEMMA ScoreServe ==
  ASSUME TypeOK, ScoreHolds, NEW s \in AllServers, Serve(s)
  PROVE  ScoreHolds'
<1>1. PICK b \in Buckets : served' = [served EXCEPT ![s] = Observe(served[s], b)]
  BY DEF Serve
<1>2. Observe(served[s], b) \in [Buckets -> Int] /\ Observe(served[s], b) # EmptyHistogram
  BY ObserveType, EmptyDiffers DEF TypeOK
<1>3. \A a \in Buckets : Count(served[s], a) <= Count(Observe(served[s], b), a)
  <2>1. \A a \in Buckets : Count(served[s], a) \in Int
    BY CountType DEF TypeOK
  <2>2. \A a \in Buckets :
          Count(Observe(served[s], b), a) = Count(served[s], a) + IF a >= b THEN 1 ELSE 0
    BY DEF Count, Observe
  <2> QED
    BY <2>1, <2>2
<1>4. UNCHANGED <<strategy, servers, urls, last, diff>>
  BY DEF Serve, trackerVars, histogramVars
<1>5. served'[s] = Observe(served[s], b)
      /\ \A q \in AllServers : q # s => served'[q] = served[q]
  BY <1>1 DEF TypeOK
<1>6. \A i \in Slots : Within(last[s][i], served'[s])
  <2> SUFFICES ASSUME NEW i \in Slots PROVE Within(last[s][i], served'[s])
    OBVIOUS
  <2>1. \A a \in Buckets : /\ Count(last[s][i], a) \in Int
                           /\ Count(served[s], a) \in Int
                           /\ Count(Observe(served[s], b), a) \in Int
    <3>1. last[s][i] \in Histograms /\ served[s] \in Histograms
      BY DEF TypeOK
    <3>2. Observe(served[s], b) \in Histograms
      BY <1>2 DEF Histograms
    <3> QED
      BY <3>1, <3>2, CountType
  <2>2. \A a \in Buckets : Count(last[s][i], a) <= Count(served[s], a)
    BY DEF ScoreHolds, Within
  <2> QED
    BY <1>2, <1>3, <1>5, <2>1, <2>2 DEF Within
<1> QED
  BY <1>2, <1>4, <1>5, <1>6 DEF ScoreHolds, LeastBusy

\* The slot is given what the server exposes, and what the server is judged by
\* the difference, which hides nothing of the buckets.
LEMMA ScoreRefresh ==
  ASSUME TypeOK, ScoreHolds, NEW s \in AllServers, Refresh(s)
  PROVE  ScoreHolds'
<1> DEFINE w == window[s]
           old == last[s][w]
           new == served[s]
<1>1. w \in Slots /\ old \in Histograms /\ new \in Histograms /\ diff[s] \in Histograms
  BY DEF TypeOK
<1>2. Within(old, new) /\ (new = EmptyHistogram => diff[s] = EmptyHistogram)
  BY <1>1 DEF ScoreHolds
<1>3. DOMAIN old \subseteq DOMAIN new /\ DOMAIN diff[s] \subseteq DOMAIN new
  BY <1>1, <1>2, EmptyDiffers DEF Within
<1>4. Difference(new, old) \in Histograms /\ DOMAIN Difference(new, old) = DOMAIN new
  <2>1. Difference(new, old) \in Histograms
        /\ DOMAIN Difference(new, old) = DOMAIN new \cup DOMAIN old
    BY <1>1, DifferenceType, Zenon
  <2> QED
    BY <1>3, <2>1
<1>5. Update(old, new) = new /\ Update(diff[s], Difference(new, old)) = Difference(new, old)
  BY <1>1, <1>3, <1>4, UpdateReplaces
<1>6. /\ last' = [last EXCEPT ![s][w] = new]
      /\ diff' = [diff EXCEPT ![s] = Difference(new, old)]
      /\ UNCHANGED <<strategy, served, servers, urls>>
  BY <1>5 DEF Refresh, serverVars
<1>7. Within(new, new)
  BY <1>1, CountType DEF Within
<1>8. Within(EmptyHistogram, Difference(new, old))
  <2>1. \A b \in Buckets : Count(old, b) <= Count(new, b)
                           /\ Count(old, b) \in Int /\ Count(new, b) \in Int
    BY <1>1, <1>2, CountType DEF Within
  <2>2. \A b \in Buckets : Count(Difference(new, old), b) >= 0
    <3> SUFFICES ASSUME NEW b \in Buckets PROVE Count(Difference(new, old), b) >= 0
      OBVIOUS
    <3>1. CASE b \in DOMAIN Difference(new, old)
      <4>1. Count(Difference(new, old), b) = Count(new, b) - Count(old, b)
        BY <3>1 DEF Count, Difference
      <4> QED
        BY <2>1, <4>1
    <3>2. CASE b \notin DOMAIN Difference(new, old)
      BY <3>2 DEF Count
    <3> QED
      BY <3>1, <3>2
  <2>3. \A b : Count(EmptyHistogram, b) = 0
    BY EmptyDiffers DEF Count
  <2> QED
    BY <1>1, <1>4, <2>2, <2>3, CountType DEF Within
<1>9. new = EmptyHistogram => Difference(new, old) = EmptyHistogram
  BY <1>4, EmptyDiffers
<1> HIDE DEF w, old, new
<1>10. /\ \A i \in Slots : last'[s][i] = IF i = w THEN new ELSE last[s][i]
       /\ diff'[s] = Difference(new, old)
       /\ \A q \in AllServers : q # s => last'[q] = last[q] /\ diff'[q] = diff[q]
  BY <1>6 DEF TypeOK
<1>11. \A i \in Slots : Within(last'[s][i], served[s])
  BY <1>7, <1>10 DEF ScoreHolds, new
<1>12. \A q \in AllServers :
         /\ \A i \in Slots : Within(last'[q][i], served[q])
         /\ Within(EmptyHistogram, diff'[q])
         /\ served[q] = EmptyHistogram => diff'[q] = EmptyHistogram
  <2> SUFFICES ASSUME NEW q \in AllServers
               PROVE  /\ \A i \in Slots : Within(last'[q][i], served[q])
                      /\ Within(EmptyHistogram, diff'[q])
                      /\ served[q] = EmptyHistogram => diff'[q] = EmptyHistogram
    OBVIOUS
  <2>1. CASE q = s
    BY <1>8, <1>9, <1>10, <1>11, <2>1 DEF new
  <2>2. CASE q # s
    BY <1>10, <2>2 DEF ScoreHolds
  <2> QED
    BY <2>1, <2>2
<1>13. LeastBusy' => urls' = SetOf(servers')
  BY <1>6 DEF ScoreHolds, LeastBusy
<1> QED
  BY <1>6, <1>12, <1>13 DEF ScoreHolds

LEMMA ScoreNext ==
  ASSUME TypeOK, ScoreInv, [Next]_vars
  PROVE  ScoreInv'
<1> SUFFICES ASSUME Spared({"restart"})' PROVE ScoreHolds'
  BY DEF ScoreInv
<1>1. ScoreHolds /\ ~Fault("restart")
  BY SparedBefore DEF ScoreInv
<1>2. CASE UpdateRoundRobin
  BY <1>1, <1>2 DEF UpdateRoundRobin, ScoreHolds, serverVars, trackerVars, histogramVars,
     LeastBusy
<1>3. CASE RestartMonitor
  <2>1. UNCHANGED <<served, last, diff>> /\ servers' = Healthy /\ urls' = answered
    BY <1>3 DEF RestartMonitor, serverVars, histogramVars
  <2>2. urls' = SetOf(servers')
    BY <2>1, TypesHealthy
  <2> QED
    BY <1>1, <2>1, <2>2 DEF ScoreHolds
<1>4. CASE UNCHANGED <<strategy, served, servers, urls, last, diff>>
  BY <1>1, <1>4 DEF ScoreHolds, LeastBusy
<1>5. \/ UpdateRoundRobin \/ RestartMonitor \/ \E s \in AllServers : Serve(s) \/ Refresh(s)
      \/ UNCHANGED <<strategy, served, servers, urls, last, diff>>
  BY <1>1 DEF Next, Toggle, Restart, RefreshNothing, StartCycle, PingReturns,
     KeepServers, StopMonitor, TaskEnds, WakeTask, RefreshRaises, ChooseInTurn, StopPinger,
     PingerEnds, StopTracker, Exit, vars, serverVars, trackerVars, histogramVars
<1> QED
  BY <1>1, <1>2, <1>3, <1>4, <1>5, ScoreServe, ScoreRefresh

\* The score of a server that was measured is a bound.
LEMMA ScoreExists ==
  ASSUME NEW h \in Histograms, Within(EmptyHistogram, h), h # EmptyHistogram
  PROVE  Covering(h) # {} /\ Score(h) \in Buckets
<1>1. h \in [Buckets -> Int] /\ DOMAIN h = Buckets
  BY EmptyDiffers
<1>2. Last(h) \in Buckets
  <2>1. \E b \in Buckets : \A a \in Buckets : a <= b
    <3> DEFINE id == [b \in Buckets |-> b]
    <3>1. \A b \in Buckets : id[b] \in Int
      BY BucketsAssumption
    <3>2. \E b \in Buckets : \A a \in Buckets : id[a] <= id[b]
      <4> HIDE DEF id
      <4> QED
        BY <3>1, BucketsAssumption, GreatestExists
    <3> QED
      BY <3>2
  <2> QED
    BY <1>1, <2>1 DEF Last
<1>3. h[Last(h)] \in Int /\ h[Last(h)] >= 0
  <2>1. Count(h, Last(h)) = h[Last(h)] /\ Count(EmptyHistogram, Last(h)) = 0
    BY <1>1, <1>2, EmptyDiffers DEF Count
  <2> QED
    BY <1>1, <1>2, <2>1 DEF Within
<1>4. Last(h) \in Covering(h)
  BY <1>1, <1>2, <1>3 DEF Covering
<1>5. Covering(h) \in SUBSET Buckets
  BY <1>1 DEF Covering
<1>6. \E b \in Covering(h) : \A a \in Covering(h) : b <= a
  <2> DEFINE negated == [b \in Covering(h) |-> -b]
  <2>1. \A b \in Covering(h) : b \in Int /\ negated[b] = -b /\ negated[b] \in Int
    <3>1. Covering(h) \subseteq Int
      BY <1>5, BucketsIntegers
    <3> QED
      BY <3>1
  <2>2. IsFiniteSet(Covering(h))
    BY <1>5, BucketsAssumption, FS_Subset
  <2>3. \E b \in Covering(h) : \A a \in Covering(h) : negated[a] <= negated[b]
    <3> HIDE DEF negated
    <3> QED
      BY <1>4, <2>1, <2>2, GreatestExists
  <2> HIDE DEF negated
  <2> QED
    BY <2>1, <2>3
<1> QED
  BY <1>4, <1>5, <1>6 DEF Score

LEMMA PreferredExists ==
  ASSUME TypeOK, ScoreHolds, urls # {}
  PROVE  ScoresExist /\ Preferred # {}
<1>1. urls \in SUBSET AllServers /\ IsFiniteSet(urls)
  BY ServersFinite, FS_Subset DEF TypeOK
<1>2. \A s \in urls : diff[s] \in Histograms /\ Within(EmptyHistogram, diff[s])
  BY <1>1 DEF TypeOK, ScoreHolds
<1>3. ScoresExist
  BY <1>2, ScoreExists DEF ScoresExist, PercentileExists
<1>4. \A s \in urls : Score(diff[s]) \in Int
  <2> SUFFICES ASSUME NEW s \in urls PROVE Score(diff[s]) \in Int
    OBVIOUS
  <2>1. CASE diff[s] = EmptyHistogram
    <3>1. Score(diff[s]) = Unmeasured
      BY <2>1 DEF Score
    <3> QED
      BY <3>1 DEF Unmeasured
  <2>2. CASE diff[s] # EmptyHistogram
    <3>1. Score(diff[s]) \in Buckets
      BY <1>2, <2>2, ScoreExists
    <3> QED
      BY <3>1, BucketsIntegers
  <2> QED
    BY <2>1, <2>2
<1>5. CASE UnmeasuredUrls # {}
  <2> DEFINE position == [s \in UnmeasuredUrls |-> Position(s)]
  <2>1. UnmeasuredUrls \in SUBSET urls
    BY DEF UnmeasuredUrls
  <2>2. IsFiniteSet(UnmeasuredUrls)
    BY <1>1, <2>1, FS_Subset
  <2>3. \A s \in UnmeasuredUrls : position[s] = Position(s) /\ position[s] \in Int
    BY <1>1, <2>1, PositionType
  <2>4. \E s \in UnmeasuredUrls : \A u \in UnmeasuredUrls : position[u] <= position[s]
    <3> HIDE DEF position
    <3> QED
      BY <1>5, <2>2, <2>3, GreatestExists
  <2> HIDE DEF position
  <2> QED
    BY <1>3, <1>5, <2>3, <2>4 DEF Preferred
<1>6. CASE UnmeasuredUrls = {}
  <2> DEFINE negated == [s \in urls |-> -Score(diff[s])]
  <2>1. \A s \in urls : negated[s] = -Score(diff[s]) /\ negated[s] \in Int
    BY <1>4
  <2>2. \E s \in urls : \A u \in urls : negated[u] <= negated[s]
    <3> HIDE DEF negated
    <3> QED
      BY <1>1, <2>1, GreatestExists
  <2> HIDE DEF negated
  <2>3. \E s \in urls : \A u \in urls : Score(diff[s]) <= Score(diff[u])
    BY <1>4, <2>1, <2>2
  <2> QED
    BY <1>3, <1>6, <2>3 DEF Preferred
<1> QED
  BY <1>5, <1>6

\* Until a server restarts, the least busy strategy always finds one of its
\* servers to return: no percentile is missing, whatever the readings, the empty
\* pages and the windows cut short, and the tracker's urls are those of the servers.
THEOREM ChoicesExist == Spec => []AlwaysChooses
<1>1. ASSUME TypeOK, ScoreInv PROVE AlwaysChooses
  <2> SUFFICES ASSUME LeastBusy, servers # <<>>, Spared({"restart"})
               PROVE  ScoresExist /\ Preferred # {} /\ Preferred \subseteq SetOf(servers)
    BY DEF AlwaysChooses
  <2>0. ScoreHolds
    BY <1>1 DEF ScoreInv
  <2>1. urls = SetOf(servers)
    BY <2>0 DEF ScoreHolds
  <2>2. urls # {}
    <3>1. servers \in Seq(AllServers)
      BY <1>1 DEF TypeOK
    <3>2. 1 \in DOMAIN servers
      BY <3>1
    <3> QED
      BY <2>1, <3>2 DEF SetOf
  <2>3. Preferred \subseteq urls
    BY DEF Preferred, UnmeasuredUrls
  <2> QED
    BY <1>1, <2>0, <2>1, <2>2, <2>3, PreferredExists
<1>2. TypeOK /\ ScoreInv /\ [Next]_vars => ScoreInv'
  BY ScoreNext
<1>3. Init => ScoreInv
  BY ScoreInit DEF ScoreInv
<1> QED
  BY <1>1, <1>2, <1>3, TypesHold, PTL DEF Spec
=============================================================================
