--------------------------- MODULE MCDNSEndpoints ---------------------------
(* Values of the constants of DNSEndpoints for TLC. *)
EXTENDS DNSEndpoints

\* No label, one cluster labelled, two clusters in different places.
MCLabels == {[c1 |-> "none", c2 |-> "none"], [c1 |-> "us", c2 |-> "none"],
             [c1 |-> "us", c2 |-> "au"]}

MCCustomWeights == <<[selected |-> {"c2"}, weight |-> 60],
                     [selected |-> {"c1", "c2"}, weight |-> 80]>>

\* Parents before their children, and children before their parents.
MCOrders == {[host |-> 1, lb |-> 2, geo |-> 3, cluster |-> 4],
             [host |-> 4, lb |-> 3, geo |-> 2, cluster |-> 1]}

\* Unhealthy below its threshold, and at its threshold.
MCProbeStates ==
  {[healthy |-> "no", failures |-> n, threshold |-> 2] : n \in {1, 2}}

\* A failed call takes the place of a change: one in all.
\* Only changes and faults can leave the bound, and no fairness condition is
\* about them, so what is explored is the system with fewer of both.
Budget == flips + faults <= 1

=============================================================================
