------------------------ MODULE MCDNSRecordPublish ------------------------
(* Instances of DNSRecordPublish for TLC. *)
EXTENDS DNSRecordPublish

\* Endpoints come, go and change, one at a time and together; the change from
\* <<"x", "x">> to <<"y", "y">> takes Google two requests.
MCInputs ==
  {<<"none", "none">>, <<"x", "none">>, <<"none", "y">>, <<"x", "x">>, <<"y", "x">>, <<"y", "y">>}

\* A failed call takes the place of a change: MaxEdits in all.
\* Only changes and faults can leave the bound, and no fairness condition is
\* about them, so what is explored is the system with fewer of both.
Budget == edits + Cardinality(faults) <= MaxEdits

============================================================================
