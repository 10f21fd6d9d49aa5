--------------------------- MODULE RequestContract ---------------------------
(***************************************************************************)
(* What the dispatcher promises for each request, queues, consumers,       *)
(* deferrals and faults put aside.  Once submitted, a request may be       *)
(* offered servers, any number of times; offers may be withdrawn, may come *)
(* too late, and only name servers the routing mode of the request allows. *)
(* Its call takes at most one offer, never changes it, and the request is  *)
(* served at most once, by the server of the offer it took.                *)
(***************************************************************************)
CONSTANTS Requests, Servers, NoServer, NoAnswer, Mode, UserOrg, Org

VARIABLES
  status,  \* status[r]: "new", "pending", "served" or "closed"
  offers,  \* offers[r]: the offers on their way to the call
  taken    \* taken[r]: the offer the call took, or NoAnswer

vars == <<status, offers, taken>>

\* A private-only request is for the servers of the organization of its user.
Allowed(r) ==
  {s \in Servers : Mode[r] = "private-only" => Org[s] = UserOrg[r]} \cup {NoServer}

Init ==
  /\ status = [r \in Requests |-> "new"]
  /\ offers = [r \in Requests |-> {}]
  /\ taken = [r \in Requests |-> NoAnswer]

Become(r, st) == status' = [status EXCEPT ![r] = st]

Submit(r) == status[r] = "new" /\ Become(r, "pending") /\ UNCHANGED <<offers, taken>>

\* Late offers, to a request that is not pending any more, are made too.
Offer(r) ==
  /\ status[r] # "new"
  /\ \E s \in Allowed(r) : offers' = [offers EXCEPT ![r] = @ \cup {s}]
  /\ UNCHANGED <<status, taken>>

Withdraw ==
  /\ offers' \in [Requests -> SUBSET (Servers \cup {NoServer})]
  /\ \A r \in Requests : offers'[r] \subseteq offers[r]
  /\ UNCHANGED <<status, taken>>

Take(r) ==
  /\ taken[r] = NoAnswer
  /\ \E s \in offers[r] :
       /\ taken' = [taken EXCEPT ![r] = s]
       /\ offers' = [offers EXCEPT ![r] = @ \ {s}]
  /\ UNCHANGED status

Serve(r) ==
  /\ status[r] = "pending"
  /\ taken[r] \in Servers
  /\ Become(r, "served")
  /\ UNCHANGED <<offers, taken>>

Close(r) == status[r] # "closed" /\ Become(r, "closed") /\ UNCHANGED <<offers, taken>>

Next ==
  \/ \E r \in Requests : Submit(r) \/ Offer(r) \/ Take(r) \/ Serve(r) \/ Close(r)
  \/ Withdraw

Spec == Init /\ [][Next]_vars
=============================================================================
