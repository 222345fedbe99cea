--------------------------- MODULE MCHealthProbes ---------------------------
(* Small instances of HealthProbes: values of the constants are in the cfgs. *)
EXTENDS HealthProbes

\* Targets are interchangeable, so the probe is created with any one of them: the
\* constraint leaves out what a renaming of targets would give.  The creation is
\* an edit, on which no fairness condition depends.
FirstTarget ==
  edits = 1 => \A p \in Probes : Exists(p) => probe[p].spec = CHOOSE t \in Target : TRUE
=============================================================================
