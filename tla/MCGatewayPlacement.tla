------------------------ MODULE MCGatewayPlacement ------------------------
(* Instances of GatewayPlacement for TLC. *)
EXTENDS GatewayPlacement

\* A failed call takes the place of a change: MaxEdits in all.
\* Only changes and faults can leave the bound, and no fairness condition is
\* about them, so what is explored is the system with fewer of both.
Budget == edits + faults <= MaxEdits

=============================================================================
