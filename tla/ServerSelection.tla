--------------------------- MODULE ServerSelection ---------------------------
(***************************************************************************)
(* How one consumer knows its servers: the pinger                          *)
(* (src/consumer/server_pinger.py) tells the strategy which ones answer,   *)
(* the round robin strategy takes them in turn, and the least busy one     *)
(* compares what its metrics tracker (strategy/metrics_tracker.py) read of *)
(* them.  The pinger, one monitoring task per server, the callbacks that   *)
(* choose and main_consumer (src/consumer/main.py), which stops the others *)
(* at a signal, are coroutines of one event loop: each action is the code  *)
(* from one await to the next.                                             *)
(***************************************************************************)
EXTENDS Histogram, Sequences, Functions

CONSTANTS
  VllmServers,  \* settings.VLLM_SERVERS, a sequence of servers
  Strategies,   \* the values ROUTING_STRATEGY may have
  WindowSize,   \* REFRESH_COUNT_PER_WINDOW
  Faults,       \* which of "outage", "restart", "fetch", "empty", "shutdown"
                \* may happen
  MaxFaults,    \* BOUND: how many of them, the signal excepted
  MaxServed,    \* BOUND: the requests a server serves
  MaxChoices    \* BOUND: the choices of the round robin between two updates

AllServers == {VllmServers[i] : i \in DOMAIN VllmServers}

ASSUME SelectionAssumption ==
  /\ VllmServers \in Seq(AllServers)
  /\ \A i, j \in DOMAIN VllmServers : VllmServers[i] = VllmServers[j] => i = j
  /\ Strategies \subseteq {"round-robin", "least-busy"}
  /\ WindowSize \in Nat \ {0}
  /\ MaxFaults \in Nat

VARIABLES
  strategy, \* ROUTING_STRATEGY
  stage,    \* where main_consumer is
  up,       \* the servers that answer
  outcomes, \* HISTORY: what the last ping of each server could find meanwhile
  served,   \* the histogram each server exposes
  faults,   \* HISTORY: how many faults of each kind there were
  pinger,   \* where the pinger is
  pending,  \* the pings of the cycle that have not returned
  answered, \* the servers whose ping returned a success
  servers,  \* strategy.servers
  next,     \* RoundRobin.round_robin_idx, from 1
  urls,     \* MetricsTracker.urls
  monitoring, \* MetricsTracker.monitoring
  task,     \* the monitoring task of each server
  window,   \* MetricsTracker.window_indexes
  last,     \* time_to_first_token_last_histograms
  diff,     \* time_to_first_token_diff_histograms
  turns,    \* HISTORY: how often each server was chosen since the last update
  fetched   \* HISTORY: the WindowSize + 1 last histograms read, oldest first

serverVars == <<strategy, stage, up, outcomes, served, faults>>
pingerVars == <<pinger, pending, answered>>
roundRobinVars == <<next, turns>>
histogramVars == <<window, last, diff, fetched>>
trackerVars == <<urls, monitoring, task, histogramVars>>
vars == <<serverVars, pingerVars, servers, roundRobinVars, trackerVars>>

LeastBusy == strategy = "least-busy"

\* A task is "fetching" until the metrics come, "asleep" until the next fetch,
\* "cancelled" when it has not seen yet that it is, "dead" after an exception.
TaskStates == {"none", "fetching", "asleep", "cancelled", "dead"}
Slots == 0 .. WindowSize - 1

\* main_consumer waits for the signal, then for the pinger to end, then for the
\* monitoring tasks.
Stages == {"running", "stopping pinger", "stopping tracker", "exited"}

TypeOK ==
  /\ strategy \in Strategies
  /\ stage \in Stages
  /\ up \in SUBSET AllServers
  /\ outcomes \in [AllServers -> SUBSET {"success", "failure"}]
  /\ served \in [AllServers -> Histograms]
  /\ faults \in [Faults -> Nat]
  /\ pinger \in {"asleep", "pinging", "stopping", "cancelled", "ended"}
  /\ pending \in SUBSET AllServers
  /\ answered \in SUBSET AllServers
  /\ servers \in Seq(AllServers)
  /\ next \in Nat
  /\ urls \in SUBSET AllServers
  /\ monitoring \in BOOLEAN
  /\ task \in [AllServers -> TaskStates]
  /\ window \in [AllServers -> Slots]
  /\ last \in [AllServers -> [Slots -> Histograms]]
  /\ diff \in [AllServers -> Histograms]
  /\ turns \in [AllServers -> Nat]
  /\ fetched \in [AllServers -> [1 .. WindowSize + 1 -> Histograms]]

\* What ping_server would return of s, given the servers that answer.
Outcome(s, answering) == IF s \in answering THEN "success" ELSE "failure"

\* LeastBusy.create starts the monitoring of all the servers; main_consumer
\* starts the pinger, whose first cycle begins at once.
Init ==
  /\ strategy \in Strategies
  /\ stage = "running"
  /\ up \in SUBSET AllServers
  /\ outcomes = [s \in AllServers |-> {Outcome(s, up)}]
  /\ served = [s \in AllServers |-> EmptyHistogram]
  /\ faults = [kind \in Faults |-> 0]
  /\ pinger = "pinging"
  /\ pending = AllServers
  /\ answered = {}
  /\ servers = VllmServers
  /\ next = 1
  /\ urls = AllServers
  /\ monitoring = LeastBusy
  /\ task = [s \in AllServers |-> IF LeastBusy THEN "fetching" ELSE "none"]
  /\ window = [s \in AllServers |-> 0]
  /\ last = [s \in AllServers |-> [i \in Slots |-> EmptyHistogram]]
  /\ diff = [s \in AllServers |-> EmptyHistogram]
  /\ turns = [s \in AllServers |-> 0]
  /\ fetched = [s \in AllServers |-> [i \in 1 .. WindowSize + 1 |-> EmptyHistogram]]

-----------------------------------------------------------------------------
(* The servers. *)

Fault(kind) ==
  /\ kind \in Faults
  /\ SumFunction(faults) < MaxFaults
  /\ faults' = [faults EXCEPT ![kind] = @ + 1]

\* There has been no fault of these kinds.
Spared(kinds) == \A kind \in kinds \cap Faults : faults[kind] = 0

\* A request of some latency is served.
Serve(s) ==
  /\ s \in up
  /\ \A b \in DOMAIN served[s] : served[s][b] < MaxServed
  /\ \E b \in Buckets : served' = [served EXCEPT ![s] = Observe(@, b)]
  /\ UNCHANGED <<strategy, stage, up, outcomes, faults, pingerVars, servers, roundRobinVars,
                 trackerVars>>

\* A server goes away while its metrics are fetched.  A connection that was not
\* made yet is refused, and the task will try again; one that was made is reset
\* or times out, which is no ClientConnectorError and ends the task.
BreakFetch(s) ==
  \/ UNCHANGED task
  \/ task[s] = "fetching" /\ task' = [task EXCEPT ![s] = "dead"]

\* A server stops answering, or answers again.
Toggle(s) ==
  /\ Fault("outage")
  /\ up' = IF s \in up THEN up \ {s} ELSE up \cup {s}
  /\ IF s \in up THEN BreakFetch(s) ELSE UNCHANGED task
  /\ outcomes' = [outcomes EXCEPT ![s] =
                    IF s \in pending THEN @ \cup {Outcome(s, up')} ELSE @]
  /\ UNCHANGED <<strategy, stage, served, pingerVars, servers, roundRobinVars, urls,
                 monitoring, histogramVars>>

\* A server restarts too fast for a ping to fail, and counts from nothing.
Restart(s) ==
  /\ Fault("restart")
  /\ served' = [served EXCEPT ![s] = EmptyHistogram]
  /\ BreakFetch(s)
  /\ UNCHANGED <<strategy, stage, up, outcomes, pingerVars, servers, roundRobinVars, urls,
                 monitoring, histogramVars>>

-----------------------------------------------------------------------------
(* ServerPinger._monitor_servers and the update_servers of the strategies. *)

StartCycle ==
  /\ pinger = "asleep"
  /\ pinger' = "pinging"
  /\ pending' = AllServers
  /\ answered' = {}
  /\ outcomes' = [s \in AllServers |-> {Outcome(s, up)}]
  /\ UNCHANGED <<strategy, stage, up, served, faults, servers, roundRobinVars, trackerVars>>

\* ping_server: a success, or False for an error or a timeout.
PingReturns(s) ==
  /\ s \in pending
  /\ pending' = pending \ {s}
  /\ answered' = IF s \in up THEN answered \cup {s} ELSE answered
  /\ UNCHANGED <<pinger, serverVars, servers, roundRobinVars, trackerVars>>

\* Some of the servers, in the order of the settings.
Position(s) == CHOOSE i \in DOMAIN VllmServers : VllmServers[i] = s
Listed(some) ==
  CHOOSE list \in [1 .. Cardinality(some) -> some] :
    \A i, j \in DOMAIN list : i < j => Position(list[i]) < Position(list[j])

Healthy == Listed(answered)
Gathered == pinger = "pinging" /\ pending = {}

\* RoundRobin.update_servers, changed or not.
UpdateRoundRobin ==
  /\ Gathered
  /\ ~LeastBusy
  /\ servers' = Healthy
  /\ next' = 1
  /\ turns' = [s \in AllServers |-> 0]
  /\ pinger' = "asleep"
  /\ UNCHANGED <<pending, answered, serverVars, trackerVars>>

\* Mutant: healthy servers that were all known already are taken for the same ones.
KeepKnown ==
  /\ Gathered
  /\ LeastBusy
  /\ answered \subseteq Range(servers)
  /\ pinger' = "asleep"
  /\ UNCHANGED <<pending, answered, serverVars, servers, roundRobinVars, trackerVars>>

KeepServers ==
  /\ Gathered
  /\ LeastBusy
  /\ servers = Healthy
  /\ pinger' = "asleep"
  /\ UNCHANGED <<pending, answered, serverVars, servers, roundRobinVars, trackerVars>>

CancelTasks ==
  task' = [s \in AllServers |->
             IF task[s] \in {"fetching", "asleep"} THEN "cancelled" ELSE task[s]]

\* stop_monitor cancels the tasks, then waits for them to end.
StopMonitor ==
  /\ Gathered
  /\ LeastBusy
  /\ servers # Healthy
  /\ CancelTasks
  /\ monitoring' = FALSE
  /\ pinger' = "stopping"
  /\ UNCHANGED <<pending, answered, serverVars, servers, roundRobinVars, urls, histogramVars>>

TaskEnds(s) ==
  /\ task[s] = "cancelled"
  /\ task' = [task EXCEPT ![s] = "none"]
  /\ UNCHANGED <<pingerVars, serverVars, servers, roundRobinVars, urls, monitoring,
                 histogramVars>>

\* Mutant: the tracker is not told the new servers.
RestartKeepsUrls ==
  /\ pinger = "stopping"
  /\ \A s \in AllServers : task[s] # "cancelled"
  /\ servers' = Healthy
  /\ task' = [s \in AllServers |-> IF s \in answered THEN "fetching" ELSE "none"]
  /\ monitoring' = TRUE
  /\ pinger' = "asleep"
  /\ UNCHANGED <<pending, answered, serverVars, roundRobinVars, urls, histogramVars>>

\* Mutant: the windows start again from their first slot.
RestartAtFirstSlot ==
  /\ pinger = "stopping"
  /\ \A s \in AllServers : task[s] # "cancelled"
  /\ servers' = Healthy
  /\ urls' = answered
  /\ window' = [s \in AllServers |-> 0]
  /\ task' = [s \in AllServers |-> IF s \in answered THEN "fetching" ELSE "none"]
  /\ monitoring' = TRUE
  /\ pinger' = "asleep"
  /\ UNCHANGED <<pending, answered, serverVars, roundRobinVars, last, diff, fetched>>

\* Mutant: monitor() finds the monitoring on and starts no task.
RestartNoTask ==
  /\ pinger = "stopping"
  /\ \A s \in AllServers : task[s] # "cancelled"
  /\ servers' = Healthy
  /\ urls' = answered
  /\ pinger' = "asleep"
  /\ UNCHANGED <<pending, answered, serverVars, roundRobinVars, monitoring, task,
                 histogramVars>>

\* All have ended: the new servers are monitored, from where their windows were.
RestartMonitor ==
  /\ pinger = "stopping"
  /\ \A s \in AllServers : task[s] # "cancelled"
  /\ servers' = Healthy
  /\ urls' = answered
  /\ task' = [s \in AllServers |-> IF s \in answered THEN "fetching" ELSE "none"]
  /\ monitoring' = TRUE
  /\ pinger' = "asleep"
  /\ UNCHANGED <<pending, answered, serverVars, roundRobinVars, histogramVars>>

-----------------------------------------------------------------------------
(* MetricsTracker._monitor_server.  While the server refuses connections the *)
(* task tries again at once: nothing changes.                                *)

\* Mutant: the window has one slot too many.
NextSlotTooFar(s) == window' = [window EXCEPT ![s] = (@ + 1) % (WindowSize + 1)]

NextSlot(s) == window' = [window EXCEPT ![s] = (@ + 1) % WindowSize]

\* update_all_metrics_for_server and what follows it, until the sleep.
Refresh(s) ==
  /\ task[s] = "fetching"
  /\ s \in up
  /\ LET old == last[s][window[s]]
     IN  /\ last' = [last EXCEPT ![s][window[s]] = Update(old, served[s])]
         /\ diff' = [diff EXCEPT ![s] = Update(@, Difference(served[s], old))]
  /\ NextSlot(s)
  /\ fetched' = [fetched EXCEPT ![s] =
       [i \in 1 .. WindowSize + 1 |-> IF i <= WindowSize THEN @[i + 1] ELSE served[s]]]
  /\ task' = [task EXCEPT ![s] = "asleep"]
  /\ UNCHANGED <<serverVars, pingerVars, servers, roundRobinVars, urls, monitoring>>

\* The body is empty: nothing is updated, and the window moves all the same.
RefreshNothing(s) ==
  /\ task[s] = "fetching"
  /\ s \in up
  /\ Fault("empty")
  /\ NextSlot(s)
  /\ task' = [task EXCEPT ![s] = "asleep"]
  /\ UNCHANGED <<strategy, stage, up, outcomes, served, pingerVars, servers, roundRobinVars,
                 urls, monitoring, last, diff, fetched>>

\* Any other exception, such as an error status or a timeout, ends the task; nobody
\* looks at it before the next stop_monitor.
RefreshRaises(s) ==
  /\ task[s] = "fetching"
  /\ Fault("fetch")
  /\ task' = [task EXCEPT ![s] = "dead"]
  /\ UNCHANGED <<strategy, stage, up, outcomes, served, pingerVars, servers, roundRobinVars,
                 urls, monitoring, histogramVars>>

WakeTask(s) ==
  /\ task[s] = "asleep"
  /\ task' = [task EXCEPT ![s] = "fetching"]
  /\ UNCHANGED <<serverVars, pingerVars, servers, roundRobinVars, urls, monitoring,
                 histogramVars>>

-----------------------------------------------------------------------------
(* main_consumer, once shutdown() has set the event. *)

\* Mutant: the task of the pinger is not cancelled.
StopPingerByFlag ==
  /\ stage = "running"
  /\ "shutdown" \in Faults
  /\ stage' = "stopping pinger"
  /\ UNCHANGED <<strategy, up, outcomes, served, faults, pingerVars, servers, roundRobinVars,
                 trackerVars>>

\* The connection to RabbitMQ is closed, and ServerPinger.stop_monitor cancels
\* the pinger at whatever it awaits: a sleep, the pings, or the tasks it stops.
StopPinger ==
  /\ stage = "running"
  /\ "shutdown" \in Faults
  /\ stage' = "stopping pinger"
  /\ pinger' = "cancelled"
  /\ pending' = {}
  /\ UNCHANGED <<strategy, up, outcomes, served, faults, answered, servers, roundRobinVars,
                 trackerVars>>

\* A pinger cancelled in stop_monitor still waits for the tasks to end.
PingerEnds ==
  /\ pinger = "cancelled"
  /\ \A s \in AllServers : task[s] # "cancelled"
  /\ pinger' = "ended"
  /\ UNCHANGED <<pending, answered, serverVars, servers, roundRobinVars, trackerVars>>

\* Mutant: the end of the pinger is not waited for.
StopTrackerAtOnce ==
  /\ stage = "stopping pinger"
  /\ stage' = IF monitoring THEN "stopping tracker" ELSE "exited"
  /\ IF monitoring THEN CancelTasks ELSE UNCHANGED task
  /\ monitoring' = FALSE
  /\ UNCHANGED <<strategy, up, outcomes, served, faults, pingerVars, servers,
                 roundRobinVars, urls, histogramVars>>

\* Then MetricsTracker.stop_monitor, which does nothing when the pinger was
\* cancelled between its stop_monitor and its monitor.
StopTracker ==
  /\ stage = "stopping pinger"
  /\ pinger = "ended"
  /\ stage' = IF monitoring THEN "stopping tracker" ELSE "exited"
  /\ IF monitoring THEN CancelTasks ELSE UNCHANGED task
  /\ monitoring' = FALSE
  /\ UNCHANGED <<strategy, up, outcomes, served, faults, pingerVars, servers,
                 roundRobinVars, urls, histogramVars>>

Exit ==
  /\ stage = "stopping tracker"
  /\ \A s \in AllServers : task[s] # "cancelled"
  /\ stage' = "exited"
  /\ UNCHANGED <<strategy, up, outcomes, served, faults, pingerVars, servers,
                 roundRobinVars, trackerVars>>

-----------------------------------------------------------------------------
(* choose_server. *)

\* Mutant: the index is advanced before it is used.
AdvanceThenChoose ==
  /\ ~LeastBusy
  /\ servers # <<>>
  /\ next' = (next % Len(servers)) + 1
  /\ turns[servers[next']] < MaxChoices
  /\ turns' = [turns EXCEPT ![servers[next']] = @ + 1]
  /\ UNCHANGED <<serverVars, pingerVars, servers, trackerVars>>

ChooseInTurn ==
  /\ ~LeastBusy
  /\ servers # <<>>
  /\ turns[servers[next]] < MaxChoices
  /\ turns' = [turns EXCEPT ![servers[next]] = @ + 1]
  /\ next' = (next % Len(servers)) + 1
  /\ UNCHANGED <<serverVars, pingerVars, servers, trackerVars>>

\* The servers the least busy strategy may return: the last one without a
\* score, or one of the least score; but it is looked for in servers.
UnmeasuredUrls == {s \in urls : Score(diff[s]) = Unmeasured}
Preferred ==
  IF UnmeasuredUrls # {}
    THEN {s \in UnmeasuredUrls : \A u \in UnmeasuredUrls : Position(u) <= Position(s)}
    ELSE {s \in urls : \A u \in urls : Score(diff[s]) <= Score(diff[u])}

ScoresExist == \A s \in urls : PercentileExists(diff[s])

-----------------------------------------------------------------------------
Next ==
  \/ \E s \in AllServers : Serve(s) \/ Toggle(s) \/ Restart(s)
  \/ StartCycle
  \/ \E s \in AllServers : PingReturns(s)
  \/ UpdateRoundRobin \/ KeepServers \/ StopMonitor \/ RestartMonitor
  \/ \E s \in AllServers :
       \/ TaskEnds(s) \/ WakeTask(s)
       \/ Refresh(s) \/ RefreshNothing(s) \/ RefreshRaises(s)
  \/ ChooseInTurn
  \/ StopPinger \/ PingerEnds \/ StopTracker \/ Exit

Spec == Init /\ [][Next]_vars

\* The event loop runs the pinger and the tasks, a ping returns within its
\* timeout, a server that answers pings answers the fetch of its metrics.
Fairness ==
  /\ WF_vars(StartCycle)
  /\ WF_vars(UpdateRoundRobin \/ KeepServers \/ StopMonitor \/ RestartMonitor)
  /\ \A s \in AllServers :
       /\ WF_vars(PingReturns(s))
       /\ WF_vars(TaskEnds(s))
       /\ WF_vars(WakeTask(s))
       /\ WF_vars(Refresh(s))
  /\ WF_vars(PingerEnds \/ StopTracker \/ Exit)

FairSpec == Spec /\ Fairness
-----------------------------------------------------------------------------
(* Properties. *)

SetOf(list) == {list[i] : i \in DOMAIN list}

\* Whenever a callback asks for a server and the strategy has one, the least busy
\* strategy returns one of them: in the middle of an update, of a refresh or of a
\* change of window, for servers that come and go, as long as none of them counts
\* from nothing again (least_busy.py:91).
AlwaysChooses ==
  LeastBusy /\ servers # <<>> /\ Spared({"restart"}) =>
    ScoresExist /\ Preferred # {} /\ Preferred \subseteq SetOf(servers)

\* The histogram a server is judged by holds the requests between its last
\* reading and the one WindowSize readings before, whatever monitoring was
\* cancelled, broken and started again in between; a server that counts from
\* nothing and an empty body excepted (metrics_tracker.py:45 and 85).
WindowExact ==
  Spared({"restart", "empty"}) =>
    \A s \in AllServers :
      diff[s] = Difference(fetched[s][WindowSize + 1], fetched[s][1])

\* Between two updates the round robin gives its servers the same number of
\* requests but for one, the first ones first, and its index is that of a server
\* however many an update left (round_robin.py:18).
RoundRobinEven ==
  /\ servers # <<>> => next \in DOMAIN servers
  /\ \A i, j \in DOMAIN servers :
       i < j => turns[servers[i]] - turns[servers[j]] \in {0, 1}

\* A cycle of the pinger leaves the strategy with what the pings of that very cycle
\* could find: no server that was down during its whole ping is known, none that
\* answered all along is missing, whatever comes and goes before, after or while
\* tasks are being stopped (server_pinger.py:44 and 57, metrics_based_strategy.py:38).
KnownFromTheCycle ==
  [][(pinger \in {"pinging", "stopping"} /\ pinger' = "asleep") =>
       \A s \in AllServers : Outcome(s, SetOf(servers')) \in outcomes[s]]_vars

\* When the servers have stopped changing (there are finitely many faults), the
\* strategy ends up with those that answer, and nothing that happens to a monitoring
\* task keeps it from it (server_pinger.py:57, metrics_based_strategy.py:38).
HealthConverges ==
  <>[](stage = "running") => <>[](SetOf(servers) = up)

\* Whatever the pinger was doing when it was cancelled, no monitoring task is left
\* in the loop when main_consumer returns: the pinger, which starts the tasks
\* again, is stopped first (main.py:70).
NothingMonitoredAtExit ==
  stage = "exited" => \A s \in AllServers : task[s] \in {"none", "dead"}

\* After the signal main_consumer waits for the pinger and the tracker, which may
\* be waiting for the same tasks, and returns (main.py:70, metrics_tracker.py:117).
ShutdownCompletes == <>[](stage = "running") \/ <>[](stage = "exited")

\* Only an exception in a fetch ends the monitoring of a server that answers and
\* goes on answering: no outage, no update of the servers and no cancelled task
\* leaves it without a task (metrics_based_strategy.py:38, metrics_tracker.py:95).
MonitoringGoesOn ==
  <>[](LeastBusy /\ stage = "running") =>
    \A s \in AllServers : []<>(s \notin up \/ task[s] \in {"asleep", "dead"})

-----------------------------------------------------------------------------
(* What the documents of the repository say and the code does not do. *)

\* A message is deferred "after some time, allowing the server's metrics to be
\* updated in the meantime" (quality_of_service_policy/README.md:1): the metrics
\* of a server that answers are updated again and again.
MetricsAreUpdated ==
  \A s \in AllServers :
    <>[](LeastBusy /\ s \in up /\ stage = "running") => []<>(task[s] = "asleep")

\* A bucket always reaches the percentile: the exception of get_percentile
\* "Should never be reached" (least_busy.py:63).
PercentileReached == ScoresExist
=============================================================================
