----------------------------- MODULE ModelCache -----------------------------
(***************************************************************************)
(* The sender's list of models (src/sender/models.py) and the requests     *)
(* that rely on it (src/sender/main.py), up to the publication of their    *)
(* message (src/sender/rpc_client.py).  The list is one variable of the    *)
(* process, replaced by every fetch that returns; the channel to RabbitMQ  *)
(* is one for all the calls.  Each action is the code from one await to    *)
(* the next.                                                               *)
(***************************************************************************)
EXTENDS QueueRegistry

CONSTANTS
  Requests,    \* HTTP requests
  Kinds,       \* Requests -> what it may be, among RequestKinds
  Model,       \* Requests -> the model asked for
  RoutingMode, \* Requests -> "any" or "private-only"
  UserOrg,     \* Requests -> the organization of the user
  HostMapping  \* MODEL_HOST_MAPPING: models -> sets of organizations

\* GET /v1/models, GET /v1/models/{model_id}, or a request for a server.
RequestKinds == {"list", "model", "call"}

ASSUME CacheAssumption ==
  /\ Kinds \in [Requests -> SUBSET RequestKinds]
  /\ Model \in [Requests -> Models]
  /\ RoutingMode \in [Requests -> {"any", "private-only"}]
  /\ UserOrg \in [Requests -> Orgs]

VARIABLES
  kind,     \* what each request is
  cache,    \* the list models
  step,     \* where each request is
  fetch,    \* the fetch of the list it has under way
  snapshot, \* what that fetch has read
  place     \* where the message of the request is

cacheVars == <<kind, cache, step, fetch, snapshot, place>>

\* A request is "looking" while it waits for the list, "calling" while it waits
\* for the declaration of the model queue, "declared" while its message is on the
\* way, "published" until the confirmation and "waiting" until the answer.
OnChannel == {"calling", "declared", "published"}
Answered ==
  {"listed", "found", "unknown", "refused", "error", "answered", "timeout"}
Steps == {"new", "looking", "waiting"} \cup OnChannel \cup Answered

CacheTypeOK ==
  /\ kind \in [Requests -> RequestKinds]
  /\ cache \in SUBSET Models
  /\ step \in [Requests -> Steps]
  /\ fetch \in [Requests -> {"none", "sent", "read"}]
  /\ snapshot \in [Requests -> SUBSET Models]
  /\ place \in [Requests -> {"nowhere", "queue", "taken", "returned", "removed"}]

CacheInit ==
  /\ kind \in {f \in [Requests -> RequestKinds] : \A r \in Requests : f[r] \in Kinds[r]}
  /\ cache = {}
  /\ step = [r \in Requests |-> "new"]
  /\ fetch = [r \in Requests |-> "none"]
  /\ snapshot = [r \in Requests |-> {}]
  /\ place = [r \in Requests |-> "nowhere"]

Goto(r, to) == step' = [step EXCEPT ![r] = to]

\* What follows a lookup in the list: the answer, or the validation of the routing
\* mode; a model MODEL_HOST_MAPPING does not name raises KeyError.
AfterLookup(r, list) ==
  CASE kind[r] = "list" -> "listed"
    [] kind[r] # "list" /\ Model[r] \notin list -> "unknown"
    [] kind[r] = "model" /\ Model[r] \in list -> "found"
    [] kind[r] = "call" /\ Model[r] \in list ->
         IF RoutingMode[r] = "any" THEN "calling"
         ELSE IF Model[r] \notin DOMAIN HostMapping THEN "error"
         ELSE IF UserOrg[r] \notin HostMapping[Model[r]] THEN "refused"
         ELSE "calling"

\* Mutant: a model that is not in the list is not looked for again.
ArriveNoRefresh(r) ==
  /\ step[r] = "new"
  /\ Goto(r, AfterLookup(r, cache))
  /\ UNCHANGED <<kind, cache, fetch, snapshot, place, registryVars>>

\* get_models, or get_model_by_id, which only fetches what it does not find.
Arrive(r) ==
  /\ step[r] = "new"
  /\ IF kind[r] = "list" \/ Model[r] \notin cache
       THEN /\ Goto(r, "looking")
            /\ fetch' = [fetch EXCEPT ![r] = "sent"]
       ELSE /\ Goto(r, AfterLookup(r, cache))
            /\ UNCHANGED fetch
  /\ UNCHANGED <<kind, cache, snapshot, place, registryVars>>

\* The management interface lists the bindings of the default exchange, one per
\* queue; the queues that are not named after a model are filtered out.
ReadBindings(r) ==
  /\ fetch[r] = "sent"
  /\ fetch' = [fetch EXCEPT ![r] = "read"]
  /\ snapshot' = [snapshot EXCEPT ![r] = Models \ Missing]
  /\ UNCHANGED <<kind, cache, step, place, registryVars>>

FetchReturns(r) ==
  /\ fetch[r] = "read"
  /\ cache' = snapshot[r]
  /\ fetch' = [fetch EXCEPT ![r] = "none"]
  /\ snapshot' = [snapshot EXCEPT ![r] = {}]
  /\ IF step[r] = "looking" THEN Goto(r, AfterLookup(r, snapshot[r])) ELSE UNCHANGED step
  /\ UNCHANGED <<kind, place, registryVars>>

\* The management interface does not answer, or answers an error.
FetchFails(r) ==
  /\ fetch[r] # "none"
  /\ Fault("fetch")
  /\ fetch' = [fetch EXCEPT ![r] = "none"]
  /\ snapshot' = [snapshot EXCEPT ![r] = {}]
  /\ IF step[r] = "looking" THEN Goto(r, "error") ELSE UNCHANGED step
  /\ UNCHANGED <<kind, cache, place, queues, subscribers>>

-----------------------------------------------------------------------------
(* rpc_client.call. *)

QueueOf(r) ==
  IF RoutingMode[r] = "any" THEN ModelQueue(Model[r]) ELSE <<Model[r], UserOrg[r]>>

FindQueue(r) ==
  /\ step[r] = "calling"
  /\ ModelQueue(Model[r]) \in queues
  /\ Goto(r, "declared")
  /\ UNCHANGED <<kind, cache, fetch, snapshot, place, registryVars>>

\* The queue is gone: RabbitMQ closes the channel, and ChannelClosed is what this
\* call and others that wait for something on it get.  The proxy answers each that
\* the model is unknown, and refreshes the list in the background.
NoQueue(r) ==
  /\ step[r] = "calling"
  /\ ModelQueue(Model[r]) \notin queues
  /\ \E others \in SUBSET {x \in Requests : step[x] \in OnChannel} :
       LET closed == others \cup {r}
       IN  /\ step' = [x \in Requests |-> IF x \in closed THEN "unknown" ELSE step[x]]
           /\ fetch' = [x \in Requests |-> IF x \in closed THEN "sent" ELSE fetch[x]]
  /\ UNCHANGED <<kind, cache, snapshot, place, registryVars>>

\* A message for a queue that does not exist is returned, and ignored.
Publish(r) ==
  /\ step[r] = "declared"
  /\ Goto(r, "published")
  /\ place' = [place EXCEPT ![r] = IF QueueOf(r) \in queues THEN "queue" ELSE "returned"]
  /\ UNCHANGED <<kind, cache, fetch, snapshot, registryVars>>

Confirm(r) ==
  /\ step[r] = "published"
  /\ Goto(r, "waiting")
  /\ UNCHANGED <<kind, cache, fetch, snapshot, place, registryVars>>

\* A consumer takes the message and answers.
Take(r) ==
  /\ place[r] = "queue"
  /\ subscribers[QueueOf(r)] # {}
  /\ place' = [place EXCEPT ![r] = "taken"]
  /\ UNCHANGED <<kind, cache, step, fetch, snapshot, registryVars>>

Answer(r) ==
  /\ step[r] = "waiting"
  /\ place[r] = "taken"
  /\ Goto(r, "answered")
  /\ UNCHANGED <<kind, cache, fetch, snapshot, place, registryVars>>

\* Mutant: only a message in its queue times out.
TimeoutInQueue(r) ==
  /\ step[r] = "waiting"
  /\ place[r] = "queue"
  /\ Goto(r, "timeout")
  /\ UNCHANGED <<kind, cache, fetch, snapshot, place, registryVars>>

Timeout(r) ==
  /\ step[r] = "waiting"
  /\ Goto(r, "timeout")
  /\ UNCHANGED <<kind, cache, fetch, snapshot, place, registryVars>>

\* x-expires: a queue nobody consumes is deleted with its messages.  The model
\* queue is not while a call that has just declared it publishes, for the lease of
\* that declaration (FoundQueueStays of Lifetime).
ExpireQueue(q) ==
  /\ q \in queues
  /\ subscribers[q] = {}
  /\ \A r \in Requests : step[r] = "declared" => q # ModelQueue(Model[r])
  /\ queues' = queues \ {q}
  /\ place' = [r \in Requests |->
                 IF place[r] = "queue" /\ QueueOf(r) = q THEN "removed" ELSE place[r]]
  /\ UNCHANGED <<subscribers, faults, kind, cache, step, fetch, snapshot>>

ProxyStep(r) ==
  \/ ReadBindings(r) \/ FetchReturns(r)
  \/ FindQueue(r) \/ NoQueue(r) \/ Publish(r) \/ Confirm(r)
  \/ Answer(r) \/ Timeout(r)
=============================================================================
