--------------------------- MODULE MCViewServerRaces ---------------------------
(* An instance of ViewServerRaces for TLC. *)
EXTENDS ViewServerRaces

CONSTANTS s1, s2

Two == {s1, s2}
=============================================================================
