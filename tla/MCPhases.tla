------------------------------ MODULE MCPhases ------------------------------
(***************************************************************************)
(* An instance of Phases for TLC: three keys, one of which the source does *)
(* not have, and two files, the first of them at level 0.                  *)
(***************************************************************************)
EXTENDS Phases

CONSTANTS k1, k2, k3

MCFileKeys == <<{k1}, {k2}>>

==============================================================================
