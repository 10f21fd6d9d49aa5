----------------------------- MODULE MCLifetime -----------------------------
(* A small instance of Lifetime.  Requests only meet in the lease of a queue, *)
(* which one of them renews for the others.                                   *)
EXTENDS Lifetime

CONSTANTS r1
=============================================================================
