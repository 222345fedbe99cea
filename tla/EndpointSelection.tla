-------------------------- MODULE EndpointSelection --------------------------
(***************************************************************************)
(* What health checks promise about the endpoints of a DNSRecord, without  *)
(* saying how they are picked: of the endpoints that the targets of the    *)
(* gateway call for, those stay published that are not failing and lead to *)
(* an address, and all of them when none does.                             *)
(*                                                                         *)
(* DNSEndpoints, the loops of setEndpoints, implements this specification. *)
(***************************************************************************)
CONSTANTS
  Leaf(_),     \* the endpoint answers with an IP address
  Child(_, _)  \* Child(p, c): endpoint c has a name that p points to

VARIABLES
  wanted,      \* the endpoints the targets of the gateway call for
  failing,     \* those of them whose probe has failed too often
  published    \* the endpoints in the spec of the DNSRecord

-----------------------------------------------------------------------------

\* Every endpoint of S is healthy and answers, or points to one of S that does.
SelfSupporting(S, bad) ==
  \A e \in S : e \notin bad /\ (Leaf(e) \/ \E c \in S : Child(e, c))

\* The largest such set among the endpoints in all.
Supported(all, bad) == UNION {S \in SUBSET all : SelfSupporting(S, bad)}

Healthy(all, bad) ==
  IF \E e \in all : e \in bad THEN Supported(all, bad) ELSE all

Selection(all, bad) ==
  IF Healthy(all, bad) = {} THEN all ELSE Healthy(all, bad)

Init == published = {}

\* A reconcile looks at the targets and the probes.
Observe == published' = published

Publish ==
  /\ published' = Selection(wanted, failing)
  /\ UNCHANGED <<wanted, failing>>

Next == Observe \/ Publish

Spec == Init /\ [][Next]_<<wanted, failing, published>>

=============================================================================
