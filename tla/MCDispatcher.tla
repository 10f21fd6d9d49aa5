---------------------------- MODULE MCDispatcher ----------------------------
(* Small instances of Dispatcher: the values its runs give to the constants. *)
EXTENDS Dispatcher, TLC

CONSTANTS r1, r2, r3, s1, s2, c1, c2, A, B, C, t1, t2, t3

Everywhere(set, value) == [x \in set |-> value]

AllAny == Everywhere(Requests, "any")
\* One request of each kind of routing.
Mixed ==
  [r \in Requests |->
     CASE r = r1 -> "any" [] r = r2 -> "private-first" [] r = r3 -> "private-only"]

UsersOfA == Everywhere(Requests, A)
\* MODEL_HOST_MAPPING may name an organization that has no server, C, and miss
\* one that has, B.
UsersOfABC ==
  [r \in Requests |-> CASE r = r1 -> A [] r = r2 -> B [] r = r3 -> C]
Plain == Everywhere(Requests, 1)
\* r1 has a priority the policy lets through, r2 one above that of the others.
Ranked == [r \in Requests |-> CASE r = r1 -> 4 [] r = r2 -> 2 [] OTHER -> 1]

OneOrg == Everywhere(Servers, A)
OrgPerServer == s1 :> A @@ s2 :> B

HostAll == Everywhere(Consumers, Servers)
HostOne == c1 :> {s1} @@ c2 :> {s2}

Limit1 == Everywhere(Servers, 1)
Threshold0 == Everywhere(Requests, 0)
Threshold3 == Everywhere(Requests, 3)
=============================================================================
