---------------------------- MODULE MCDeployment ----------------------------
(* Small instances of Deployment. *)
EXTENDS Deployment, TLC

CONSTANTS c1, m1, s1, s2, A, r1, r2

\* One consumer with two servers of one organization.
ServedHere == [c \in Consumers |-> m1]
ServersHere == [c \in Consumers |-> <<s1, s2>>]
OrgsHere == [s \in Servers |-> A]

\* A private call, and a request of any kind, for any server.
KindsHere == r1 :> {"call"} @@ r2 :> {"call", "model"}
ModelsHere == [r \in Requests |-> m1]
ModesHere == r1 :> "private-only" @@ r2 :> "any"
UsersHere == [r \in Requests |-> A]
MappingHere == m1 :> {A}
=============================================================================
