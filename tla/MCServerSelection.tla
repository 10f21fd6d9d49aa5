------------------------- MODULE MCServerSelection -------------------------
(* Small instances of ServerSelection. *)
EXTENDS ServerSelection

CONSTANTS s1, s2

One == <<s1>>
Two == <<s1, s2>>
=============================================================================
