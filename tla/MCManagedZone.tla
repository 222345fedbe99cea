---------------------------- MODULE MCManagedZone ----------------------------
(***************************************************************************)
(* The instances of ManagedZone that TLC checks: the constants are given   *)
(* by the configurations.                                                  *)
(***************************************************************************)
EXTENDS ManagedZone

\* A failed call takes the place of a change: MaxEdits in all.
\* Only changes and faults can leave the bound, and no fairness condition is
\* about them, so what is explored is the system with fewer of both.
Budget == edits + Cardinality(faults) <= MaxEdits

=============================================================================
