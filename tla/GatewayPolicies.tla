--------------------------- MODULE GatewayPolicies ---------------------------
(* The DNSPolicy and the TLSPolicy controllers                              *)
(* (pkg/controllers/dnspolicy, pkg/controllers/tlspolicy), which attach     *)
(* policies to gateways.  Both controllers are built on one library         *)
(* reconciler and have one shape, so one module describes both; the kind k  *)
(* of a controller, "dns" or "tls", marks the places where they differ.     *)
(*                                                                          *)
(* A policy names one gateway.  Its controller keeps, per kind, three marks *)
(* on the Gateway object: the back reference (the policy that has claimed   *)
(* the gateway), the references (the policies in force there, from which    *)
(* events and clean-up find their way) and the PolicyAffected condition.    *)
(* A DNSPolicy owns a DNSRecord per listener and the health probes of the   *)
(* gateway; a TLSPolicy owns a Certificate per secret its listeners name.   *)
(*                                                                          *)
(* A reconcile reads the gateway twice: the target, and the list behind the *)
(* diff.  Writing through one copy makes the other stale, and a write       *)
(* through a stale copy is refused.  The fields fresh and tfresh of a       *)
(* worker say which of its copies can still be written.                     *)

EXTENDS Integers, Sequences, FiniteSets

CONSTANTS
  Gateways,
  DNSPolicies,
  TLSPolicies,
  Listeners,       \* the listeners a gateway may have, in the order of its spec
  Host,            \* listener -> its host name, a sequence of labels
  Secret,          \* listener -> the secret its TLS block names, "none" without a usable block
  Wildcard,        \* the listeners whose host is a wildcard: never probed
  PublicSuffixes,  \* the names no zone may be found at or above
  FirstTargets,    \* bound: the gateways the policies name at first
  ZoneSets,        \* bound: the sets of managed zones
  RouteSets,       \* bound: the sets of listeners that have routes attached
  FaultKinds,      \* bound: what goes wrong
  Crews            \* bound: the policies in play, the zones and routes they start with, and the kinds and
                   \* the number of changes, and the number of faults, they go through

\* "none" stands for no gateway and no policy; a policy is of one kind; routes are attached to listeners;
\* listeners, which name DNSRecords, and secrets, which name Certificates, are told apart.
ASSUME PolicyConstants ==
  /\ "none" \notin Gateways \cup DNSPolicies \cup TLSPolicies
  /\ DNSPolicies \cap TLSPolicies = {}
  /\ Listeners \in Seq({Listeners[i] : i \in DOMAIN Listeners})
  /\ \A i, j \in DOMAIN Listeners : Secret[Listeners[i]] # Listeners[j]
  /\ \A i \in DOMAIN Listeners : Host[Listeners[i]] \in Seq(STRING) \ {<<>>}
  /\ FirstTargets \subseteq Gateways
  /\ \A R \in RouteSets : R \subseteq {Listeners[i] : i \in DOMAIN Listeners}
  /\ \A c \in Crews : c.routes \subseteq {Listeners[i] : i \in DOMAIN Listeners}

VARIABLES
  gw,      \* the Gateway objects
  attrs,   \* gateway -> the attributes (labels) of the clusters it is placed on
  zones,   \* the domains of the managed zones
  pol,     \* the policies
  res,     \* gateway -> name -> the DNSRecord or Certificate of that name
  probes,  \* gateway -> listener -> the policy whose probe exists there
  queued,  \* the policies in the work queues
  rc,      \* kind -> the reconcile in progress
  crew,    \* the policies in play, and their bounds
  edits,   \* the number of changes made so far
  faults   \* the kinds of fault met so far, each at most once

vars == <<gw, attrs, zones, pol, res, probes, queued, rc, crew, edits, faults>>

Kinds == {"dns", "tls"}
Policies == DNSPolicies \cup TLSPolicies
Kind(p) == IF p \in DNSPolicies THEN "dns" ELSE "tls"
ListenerSet == {Listeners[i] : i \in DOMAIN Listeners}
Secrets == {Secret[l] : l \in ListenerSet} \ {"none"}

\* Mutant of Reasons: a refused claim is not reported in the condition.
ReasonsButClaim == [delete |-> "Invalid", listeners |-> "Invalid", probes |-> "Invalid", refs |-> "Unknown"]
\* The reasons of the PolicyAffected condition for a failure of each stage of reconcileResources.
Reasons == [delete |-> "Invalid", listeners |-> "Invalid", probes |-> "Invalid",
            claim |-> "Conflicted", refs |-> "Unknown"]

NoCondition == [policy |-> "none", reason |-> "none"]
NoResource == [policy |-> "none", by |-> "none", hosts |-> {}, attrs |-> 0]
Absent == [phase |-> "absent", finalizer |-> FALSE, target |-> "none", valid |-> FALSE,
           health |-> FALSE, ready |-> "none", ghost |-> FALSE]
Idle == [pc |-> "idle", p |-> "none", mode |-> "none", copy |-> Absent, target |-> "none", back |-> "none",
         tfresh |-> FALSE, pfresh |-> FALSE, gws |-> <<>>, inv |-> {}, own |-> {}, fresh |-> {}, i |-> 1,
         err |-> "none"]

Created(g) == [Absent EXCEPT !.phase = "live", !.target = g, !.valid = TRUE, !.health = TRUE]
NewGateway(routes) ==
  [exists |-> TRUE, ready |-> TRUE, late |-> FALSE, raced |-> FALSE, listeners |-> ListenerSet, routes |-> routes,
   back |-> [k \in Kinds |-> "none"], refs |-> {}, cond |-> [k \in Kinds |-> NoCondition]]

Init ==
  /\ crew \in Crews
  /\ gw = [g \in Gateways |-> NewGateway(crew.routes)]
  /\ attrs = [g \in Gateways |-> 0]
  /\ zones = crew.zones
  /\ pol \in [Policies -> {Absent} \cup {Created(g) : g \in FirstTargets}]
  /\ \A p \in Policies \ crew.policies : pol[p] = Absent
  /\ res = [g \in Gateways |-> [n \in ListenerSet \cup Secrets |-> NoResource]]
  /\ probes = [g \in Gateways |-> [l \in ListenerSet |-> "none"]]
  /\ queued = {p \in Policies : pol[p].phase = "live"}
  /\ rc = [k \in Kinds |-> Idle]
  /\ edits = 0
  /\ faults = {}

(***************************************************************************)
(* What the steps are made of.                                             *)
(***************************************************************************)

\* A write of gateway g makes every copy of it stale, in both controllers.
Outdated(g) ==
  [k \in Kinds |-> [rc[k] EXCEPT !.fresh = @ \ {g}, !.tfresh = @ /\ rc[k].target # g]]

\* GatewayEventMapper: an event of a gateway queues the policies its annotations refer to; an update is
\* mapped for the old and for the new object.
GatewayEvent(g, r) == gw[g].refs \cup r.refs

\* One worker goes on to the stage pc.
Goto(k, pc) == rc' = [rc EXCEPT ![k].pc = pc]

\* A reconcile returns; again: with an error or a requeue, so that the policy is queued again.
Return(k, again) ==
  /\ rc' = [rc EXCEPT ![k] = Idle]
  /\ queued' = IF again THEN queued \cup {rc[k].p} ELSE queued

\* An error in the present stage.  While a policy is applied, the stages after the diff report it in the
\* condition of the gateways, the others only in the policy's status; a deletion returns it at once.
Abort(k) ==
  IF rc[k].mode = "apply" /\ rc[k].pc \in DOMAIN Reasons
  THEN /\ rc' = [rc EXCEPT ![k].pc = "condition", ![k].err = Reasons[rc[k].pc]]
       /\ UNCHANGED queued
  ELSE IF rc[k].mode = "apply" /\ rc[k].pc \in {"diff", "condition"}
  THEN /\ rc' = [rc EXCEPT ![k].pc = "status", ![k].err = IF @ = "none" THEN "Failed" ELSE @]
       /\ UNCHANGED queued
  ELSE Return(k, TRUE)

\* The worker of k writes r as gateway g through its copy from the diff, and keeps the answer as its copy.
WriteListed(k, g, r) ==
  IF g \in rc[k].fresh
  THEN /\ gw' = [gw EXCEPT ![g] = r]
       /\ rc' = [Outdated(g) EXCEPT ![k].fresh = rc[k].fresh, ![k].gws[g] = r]
       /\ queued' = queued \cup GatewayEvent(g, r)
  ELSE Abort(k) /\ UNCHANGED gw

\* The worker of k deletes the DNSRecord or the Certificate n of gateway g.
DeleteResource(g, n) == res' = [res EXCEPT ![g][n] = NoResource]

Suffix(host, n) == SubSeq(host, n, Len(host))

\* Mutant of findMatchingManagedZone: the host itself is tried, an apex record.
ApexMatched(host) ==
  LET match[n \in 1..Len(host)] ==
        IF n = Len(host) \/ Suffix(host, n) \in PublicSuffixes THEN <<>>
        ELSE IF Suffix(host, n) \in zones THEN Suffix(host, n)
        ELSE match[n + 1]
  IN match[1]
\* The zone of a host: its parent domains are tried from the nearest on, up to a public suffix.
findMatchingManagedZone(host) ==
  LET match[n \in 1..Len(host)] ==
        IF n = Len(host) \/ Suffix(host, n) \in PublicSuffixes THEN <<>>
        ELSE IF n > 1 /\ Suffix(host, n) \in zones THEN Suffix(host, n)
        ELSE match[n + 1]
  IN match[1]

\* The certificates a gateway needs: the secrets of its listeners, each with the hosts that share it.
HostsOf(r, n) == {l \in r.listeners : Secret[l] = n}
expectedCertificates(r) == {n \in Secrets : HostsOf(r, n) # {}}

\* The probes policy q wants for a gateway.
expectedProbes(q, r) == IF q.health THEN r.listeners \ Wildcard ELSE {}

(***************************************************************************)
(* Reconcile, from reading the policy to the diff.                         *)
(***************************************************************************)

\* The reconcile of p sets out with its target, "none" when the target could not be read.
Begin(k, p, target) ==
  /\ queued' = queued \ {p}
  /\ rc' = [rc EXCEPT ![k] =
       [Idle EXCEPT
         !.p = p, !.copy = pol[p], !.target = target,
         !.mode = IF pol[p].phase = "deleting" THEN "delete" ELSE IF target = "none" THEN "cleanup" ELSE "apply",
         !.pc = IF pol[p].phase = "live" /\ target # "none" /\ ~pol[p].finalizer THEN "finalizer" ELSE "diff",
         !.back = IF target = "none" THEN "none" ELSE gw[target].back[k],
         !.tfresh = TRUE, !.pfresh = TRUE]]

\* FetchValidTargetRef: a DNSPolicy wants a ready gateway, a TLSPolicy any.
Valid(k, g) == gw[g].exists /\ (k = "dns" => gw[g].ready)

\* A worker takes p.  With a gateway that exists and is not ready a live DNSPolicy returns the error and
\* stays queued, which is no step; a deleted one goes on without its target.
Start(k, p) ==
  /\ rc[k].pc = "idle"
  /\ p \in queued
  /\ Kind(p) = k
  /\ \/ /\ pol[p].phase = "absent"
        /\ queued' = queued \ {p}
        /\ UNCHANGED rc
     \/ /\ pol[p].phase # "absent"
        /\ Valid(k, pol[p].target)
        /\ Begin(k, p, pol[p].target)
     \/ /\ pol[p].phase # "absent"
        /\ ~Valid(k, pol[p].target)
        /\ pol[p].phase = "live" => ~gw[pol[p].target].exists
        /\ Begin(k, p, "none")
  /\ UNCHANGED <<gw, attrs, zones, pol, res, probes, crew, edits, faults>>

\* AddFinalizer.  A policy that is gone ends the DNS reconcile; the TLS one ignores the NotFound error and
\* applies a policy that no longer exists (ghost remembers it).
AddFinalizer(k) ==
  LET p == rc[k].p
  IN /\ rc[k].pc = "finalizer"
     /\ \/ /\ rc[k].pfresh
           /\ pol' = [pol EXCEPT ![p].finalizer = TRUE]
           /\ queued' = queued \cup {p}
           /\ Goto(k, "diff")
        \/ /\ ~rc[k].pfresh
           /\ k = "dns" \/ pol[p].phase # "absent"
           /\ Return(k, TRUE)
           /\ UNCHANGED pol
        \/ /\ ~rc[k].pfresh
           /\ k = "tls" /\ pol[p].phase = "absent"
           /\ pol' = [pol EXCEPT ![p].ghost = TRUE]
           /\ Goto(k, "diff")
           /\ UNCHANGED queued
     /\ UNCHANGED <<gw, attrs, zones, res, probes, crew, edits, faults>>

\* The gateways are listed and split: own, the target; inv, those that refer to p without being its target.
ListGateways(k, own) ==
  LET inv == {g \in Gateways \ own : gw[g].exists /\ rc[k].p \in gw[g].refs}
  IN [rc[k] EXCEPT !.gws = [g \in own \cup inv |-> gw[g]], !.fresh = own \cup inv, !.own = own, !.inv = inv,
                   !.pc = "delete"]

\* Validate and validateIssuer, then ComputeGatewayDiffs.
ComputeGatewayDiffs(k) ==
  LET apply == rc[k].mode = "apply"
  IN /\ rc[k].pc = "diff"
     /\ \/ apply /\ ~rc[k].copy.valid /\ Abort(k)
        \/ /\ apply => rc[k].copy.valid
           /\ rc' = [rc EXCEPT ![k] = ListGateways(k, {g \in Gateways : apply /\ g = rc[k].target /\ gw[g].exists})]
           /\ UNCHANGED queued
     /\ UNCHANGED <<gw, attrs, zones, pol, res, probes, crew, edits, faults>>

(***************************************************************************)
(* The records, the certificates and the probes.                           *)
(***************************************************************************)

\* Mutant of Left: only the listeners the gateway still has are considered.
LeftListed(k) ==
  {x \in rc[k].inv \X (ListenerSet \cup Secrets) :
     res[x[1]][x[2]].policy = rc[k].p /\ x[2] \in rc[k].gws[x[1]].listeners \cup Secrets}
\* What has to go.  First, on the gateways that are not its target, all that carries the labels of p
\* (deleteGatewayDNSRecords, deleteGatewayCertificates); then, on the target, the records, whoever made them,
\* of listeners it no longer has (removeDNSForDeletedListeners), and the certificates of p nobody asks for
\* (deleteUnexpectedGatewayCertificates).
Left(k) ==
  {x \in rc[k].inv \X (ListenerSet \cup Secrets) : res[x[1]][x[2]].policy = rc[k].p}
DeletedListeners ==
  {x \in rc["dns"].own \X ListenerSet :
     x[2] \notin rc["dns"].gws[x[1]].listeners /\ res[x[1]][x[2]] # NoResource}
UnexpectedCertificates ==
  {x \in rc["tls"].own \X Secrets :
     x[2] \notin expectedCertificates(rc["tls"].gws[x[1]]) /\ res[x[1]][x[2]].policy = rc["tls"].p}

\* The deletions come before the creations, one object at a time.
deleteResources(k) ==
  LET gone == IF Left(k) # {} THEN Left(k) ELSE IF k = "dns" THEN DeletedListeners ELSE UnexpectedCertificates
  IN /\ rc[k].pc = "delete"
     /\ \/ (\E x \in gone : DeleteResource(x[1], x[2])) /\ UNCHANGED rc
        \/ gone = {} /\ Goto(k, "listeners") /\ UNCHANGED res
     /\ UNCHANGED <<gw, attrs, zones, pol, probes, queued, crew, edits, faults>>

\* The resource n of g as p wants it: an existing one keeps its labels, hence its owner.
Desired(p, g, n, hosts) ==
  [policy |-> IF res[g][n] = NoResource THEN p ELSE res[g][n].policy, by |-> p, hosts |-> hosts,
   attrs |-> IF Kind(p) = "dns" THEN attrs[g] ELSE 0]

\* The loop has come to listener j of the order: the next one the target has.
AtListener(g, j) ==
  LET has(m) == Listeners[m] \in rc["dns"].gws[g].listeners
  IN /\ j \in rc["dns"].i..Len(Listeners)
     /\ has(j)
     /\ \A m \in rc["dns"].i..(j - 1) : ~has(m)
HasZone(l) == findMatchingManagedZone(Host[l]) # <<>>

\* A listener without routes on any cluster loses its record and ends the loop: the listeners behind it are
\* not looked at.
EndAtUnrouted(g, l) ==
  /\ HasZone(l)
  /\ DeleteResource(g, l)
  /\ Goto("dns", "probes")
  /\ UNCHANGED queued

\* reconcileGatewayDNSRecords for one listener, which needs a zone.
reconcileListener(g, j) ==
  LET l == Listeners[j]
  IN \/ /\ ~HasZone(l)
        /\ Abort("dns")
        /\ UNCHANGED res
     \/ /\ l \notin gw[g].routes
        /\ EndAtUnrouted(g, l)
     \/ /\ HasZone(l) /\ l \in gw[g].routes
        /\ res' = [res EXCEPT ![g][l] = Desired(rc["dns"].p, g, l, {l})]
        /\ rc' = [rc EXCEPT !["dns"].i = j + 1]
        /\ UNCHANGED queued

reconcileGatewayDNSRecords ==
  /\ rc["dns"].pc = "listeners"
  /\ \/ \E g \in rc["dns"].own, j \in DOMAIN Listeners : AtListener(g, j) /\ reconcileListener(g, j)
     \/ /\ \A g \in rc["dns"].own, j \in DOMAIN Listeners : ~AtListener(g, j)
        /\ Goto("dns", "probes")
        /\ UNCHANGED <<res, queued>>
  /\ UNCHANGED <<gw, attrs, zones, pol, probes, crew, edits, faults>>

\* reconcileGatewayCertificates: every expected certificate is created or its spec brought up to date.
reconcileGatewayCertificates ==
  LET p       == rc["tls"].p
      r(g)    == rc["tls"].gws[g]
      wanted(g, n) == Desired(p, g, n, HostsOf(r(g), n))
      pending == {x \in rc["tls"].own \X Secrets :
                    x[2] \in expectedCertificates(r(x[1])) /\ res[x[1]][x[2]] # wanted(x[1], x[2])}
  IN /\ rc["tls"].pc = "listeners"
     /\ \/ /\ \E x \in pending : res' = [res EXCEPT ![x[1]][x[2]] = wanted(x[1], x[2])]
           /\ UNCHANGED rc
        \/ /\ pending = {}
           /\ Goto("tls", "claim")
           /\ UNCHANGED res
     /\ UNCHANGED <<gw, attrs, zones, pol, probes, queued, crew, edits, faults>>

\* reconcileHealthChecks: the missing probes of the target are created, then the probes of p nobody asks for
\* are deleted, on the target and on the gateways p has left.  ProbeEventMapper queues p for each.
reconcileHealthChecks ==
  LET p       == rc["dns"].p
      want(g) == IF g \in rc["dns"].own THEN expectedProbes(rc["dns"].copy, rc["dns"].gws[g]) ELSE {}
      missing == {x \in rc["dns"].own \X ListenerSet : x[2] \in want(x[1]) /\ probes[x[1]][x[2]] = "none"}
      excess  == {x \in (rc["dns"].own \cup rc["dns"].inv) \X ListenerSet :
                    x[2] \notin want(x[1]) /\ probes[x[1]][x[2]] = p}
  IN /\ rc["dns"].pc = "probes"
     /\ \/ /\ \E x \in missing : probes' = [probes EXCEPT ![x[1]][x[2]] = p]
           /\ queued' = queued \cup {p}
           /\ UNCHANGED rc
        \/ /\ missing = {}
           /\ \E x \in excess : probes' = [probes EXCEPT ![x[1]][x[2]] = "none"]
           /\ queued' = queued \cup {p}
           /\ UNCHANGED rc
        \/ /\ missing = {} /\ excess = {}
           /\ Goto("dns", "claim")
           /\ UNCHANGED <<probes, queued>>
     /\ UNCHANGED <<gw, attrs, zones, pol, res, crew, edits, faults>>

(***************************************************************************)
(* The marks on the gateways.                                              *)
(***************************************************************************)

\* Mutant of BackRefAnnotation: both controllers use the annotation of the DNSPolicies.
DNSAnnotation(k) == "dns"
\* The back reference annotation of each kind.
BackRefAnnotation(k) == k

\* The back reference of the target, written through the copy the reconcile set out with.
WriteBack(k, back, pc) ==
  LET g == rc[k].target
      r == [gw[g] EXCEPT !.back[BackRefAnnotation(k)] = back]
  IN IF rc[k].tfresh
     THEN /\ gw' = [gw EXCEPT ![g] = r]
          /\ rc' = [Outdated(g) EXCEPT ![k].back = back, ![k].pc = pc]
          /\ queued' = queued \cup GatewayEvent(g, r)
     ELSE Abort(k) /\ UNCHANGED gw

AfterClaim(k) == IF k = "dns" /\ rc[k].mode # "apply" THEN "rediff" ELSE "refs"

\* ReconcileTargetBackReference: p claims its target, unless another policy has.
ReconcileTargetBackReference(k) ==
  LET p == rc[k].p
  IN /\ rc[k].pc = "claim"
     /\ rc[k].mode = "apply"
     /\ \/ rc[k].back = p /\ Goto(k, "refs") /\ UNCHANGED <<gw, queued>>
        \/ rc[k].back = "none" /\ WriteBack(k, p, "refs")
        \/ rc[k].back \notin {p, "none"} /\ Abort(k) /\ UNCHANGED gw
     /\ UNCHANGED <<attrs, zones, pol, res, probes, crew, edits, faults>>

\* DeleteTargetBackReference, when the target could be read; only the claim of p itself is withdrawn.
DeleteTargetBackReference(k) ==
  LET p == rc[k].p
  IN /\ rc[k].pc = "claim"
     /\ rc[k].mode # "apply"
     /\ \/ rc[k].target # "none" /\ rc[k].back = p /\ WriteBack(k, "none", AfterClaim(k))
        \/ (rc[k].target = "none" \/ rc[k].back # p) /\ Goto(k, AfterClaim(k)) /\ UNCHANGED <<gw, queued>>
     /\ UNCHANGED <<attrs, zones, pol, res, probes, crew, edits, faults>>

\* The DNS deletion computes the diff again after the back reference; the TLS deletion does not.
RecomputeGatewayDiffs(k) ==
  /\ rc[k].pc = "rediff"
  /\ rc' = [rc EXCEPT ![k] = [ListGateways(k, {}) EXCEPT !.pc = "refs"]]
  /\ UNCHANGED <<gw, attrs, zones, pol, res, probes, queued, crew, edits, faults>>

\* Mutant of ToLeave: the gateways p has left are passed over.
ToLeaveNone(k) == {}
\* The gateways whose annotation p still has to leave.
ToLeave(k) == {g \in rc[k].inv : rc[k].p \in rc[k].gws[g].refs}

\* ReconcileGatewayPolicyReferences: p leaves the annotations of the gateways that are not its target, then
\* enters those of its target.
ReconcileGatewayPolicyReferences(k) ==
  LET p       == rc[k].p
      r(g)    == rc[k].gws[g]
      missing == {g \in rc[k].own : p \notin r(g).refs}
  IN /\ rc[k].pc = "refs"
     /\ \/ \E g \in ToLeave(k) : WriteListed(k, g, [r(g) EXCEPT !.refs = @ \ {p}])
        \/ ToLeave(k) = {} /\ \E g \in missing : WriteListed(k, g, [r(g) EXCEPT !.refs = @ \cup {p}])
        \/ ToLeave(k) = {} /\ missing = {} /\ Goto(k, "condition") /\ UNCHANGED <<gw, queued>>
     /\ UNCHANGED <<attrs, zones, pol, res, probes, crew, edits, faults>>

\* Mutant of Reason: the condition is not built anew after an error.
ReasonAccepted(k) == "Accepted"
\* The reason BuildPolicyAffectedCondition is called with.
Reason(k) == IF rc[k].err = "none" THEN "Accepted" ELSE rc[k].err

\* updateGatewayCondition: the target gets the condition, the gateways p has left lose it.
updateGatewayCondition(k) ==
  LET p       == rc[k].p
      r(g)    == rc[k].gws[g]
      wanted  == [policy |-> p, reason |-> Reason(k)]
      differ  == {g \in rc[k].own : r(g).cond[k] # wanted}
      left    == {g \in rc[k].inv : r(g).cond[k] # NoCondition}
      mode    == rc[k].mode
  IN /\ rc[k].pc = "condition"
     /\ \/ \E g \in differ : WriteListed(k, g, [r(g) EXCEPT !.cond[k] = wanted])
        \/ differ = {} /\ \E g \in left : WriteListed(k, g, [r(g) EXCEPT !.cond[k] = NoCondition])
        \/ /\ differ = {} /\ left = {}
           /\ \/ mode # "cleanup" /\ Goto(k, IF mode = "apply" THEN "status" ELSE "remove") /\ UNCHANGED queued
              \/ mode = "cleanup" /\ Return(k, k = "tls")
           /\ UNCHANGED gw
     /\ UNCHANGED <<attrs, zones, pol, res, probes, crew, edits, faults>>

\* What the Ready condition of the policy says.
readyCondition(k) == IF rc[k].err = "none" THEN "ok" ELSE rc[k].err

\* The end of Reconcile: the status is written when it has changed, which brings an event; a refused write
\* and an error of the stages before queue the policy again.
updateStatus(k) ==
  LET write == rc[k].copy.ready # readyCondition(k)
  IN /\ rc[k].pc = "status"
     /\ pol' = IF write /\ rc[k].pfresh THEN [pol EXCEPT ![rc[k].p].ready = readyCondition(k)] ELSE pol
     /\ Return(k, write \/ rc[k].err # "none")
     /\ UNCHANGED <<gw, attrs, zones, res, probes, crew, edits, faults>>

\* RemoveFinalizer: the policy disappears; a write through a stale copy is refused and tried again.
RemoveFinalizer(k) ==
  /\ rc[k].pc = "remove"
  /\ pol' = IF rc[k].pfresh THEN [pol EXCEPT ![rc[k].p] = [Absent EXCEPT !.ghost = pol[rc[k].p].ghost]] ELSE pol
  /\ Return(k, TRUE)
  /\ UNCHANGED <<gw, attrs, zones, res, probes, crew, edits, faults>>

(***************************************************************************)
(* What goes wrong.                                                        *)
(***************************************************************************)

Fault(kind) ==
  /\ kind \in FaultKinds \ faults
  /\ Cardinality(faults) < crew.faults
  /\ faults' = faults \cup {kind}
  /\ UNCHANGED crew

\* A call to the API server fails.
CallFails(k) ==
  /\ Fault("call")
  /\ rc[k].pc # "idle"
  /\ Abort(k)
  /\ UNCHANGED <<gw, attrs, zones, pol, res, probes, edits>>

\* ListenerTotalAttachedRoutes fails for a listener: logged, and the cluster counts as one without routes.
RoutesUnread ==
  /\ Fault("routes")
  /\ rc["dns"].pc = "listeners"
  /\ \E g \in rc["dns"].own, j \in DOMAIN Listeners : AtListener(g, j) /\ EndAtUnrouted(g, Listeners[j])
  /\ UNCHANGED <<gw, attrs, zones, pol, probes, edits>>

\* The target of a deleted policy cannot be read: the deletion goes on without it.
TargetUnread(k, p) ==
  /\ Fault("fetch")
  /\ rc[k].pc = "idle" /\ p \in queued /\ Kind(p) = k
  /\ pol[p].phase = "deleting"
  /\ Begin(k, p, "none")
  /\ UNCHANGED <<gw, attrs, zones, pol, res, probes, edits>>

\* The process ends and starts again: the caches deliver every policy.
Restart ==
  /\ Fault("restart")
  /\ rc' = [k \in Kinds |-> Idle]
  /\ queued' = {p \in Policies : pol[p].phase # "absent"}
  /\ UNCHANGED <<gw, attrs, zones, pol, res, probes, edits>>

(***************************************************************************)
(* What the users, the gateway controller and the clusters change.         *)
(***************************************************************************)

Edit(kind) ==
  /\ kind \in crew.kinds
  /\ edits < crew.edits
  /\ edits' = edits + 1
  /\ UNCHANGED crew

ChangePolicy(p, q) ==
  /\ pol' = [pol EXCEPT ![p] = q]
  /\ queued' = queued \cup {p}
  /\ rc' = [k \in Kinds |-> [rc[k] EXCEPT !.pfresh = @ /\ rc[k].p # p]]
  /\ UNCHANGED <<gw, attrs, zones, res, probes, faults>>

CreatePolicy(p, g) ==
  /\ Edit("create")
  /\ pol[p].phase = "absent" /\ p \in crew.policies
  /\ ChangePolicy(p, [Created(g) EXCEPT !.ghost = pol[p].ghost])

\* A policy without its finalizer goes at once.
DeletePolicy(p) ==
  /\ Edit("delete")
  /\ pol[p].phase = "live"
  /\ ChangePolicy(p, IF pol[p].finalizer THEN [pol[p] EXCEPT !.phase = "deleting"]
                     ELSE [Absent EXCEPT !.ghost = pol[p].ghost])

Retarget(p, g) ==
  /\ Edit("retarget")
  /\ pol[p].phase # "absent" /\ pol[p].target # g
  /\ ChangePolicy(p, [pol[p] EXCEPT !.target = g])

\* The health check section of a DNSPolicy comes or goes.
ChangeHealthCheck(p) ==
  /\ Edit("health")
  /\ pol[p].phase # "absent" /\ Kind(p) = "dns"
  /\ ChangePolicy(p, [pol[p] EXCEPT !.health = ~@])

\* A DNSPolicy is edited into or out of validity; the issuer of a TLSPolicy, which nobody watches, comes or goes.
ChangeValidity(p) ==
  /\ Edit("valid")
  /\ pol[p].phase # "absent"
  /\ \/ Kind(p) = "dns" /\ ChangePolicy(p, [pol[p] EXCEPT !.valid = ~@])
     \/ /\ Kind(p) = "tls"
        /\ pol' = [pol EXCEPT ![p].valid = ~@]
        /\ UNCHANGED <<gw, attrs, zones, res, probes, queued, rc, faults>>

\* A gateway is changed behind the controllers: r is its new form.
ChangeGateway(g, r) ==
  /\ gw' = [gw EXCEPT ![g] = r]
  /\ queued' = queued \cup GatewayEvent(g, r)
  /\ rc' = Outdated(g)
  /\ UNCHANGED <<attrs, zones, pol, res, probes, faults>>

\* raced: a gateway that went, or came back, while a TLSPolicy was being reconciled.
Raced(g) == gw[g].raced \/ rc["tls"].pc # "idle"

\* The gateway controller releases a deleted gateway once it is off every cluster, where no route remains.
DeleteGateway(g) ==
  /\ Edit("gateway")
  /\ gw[g].exists /\ gw[g].routes = {}
  /\ ChangeGateway(g, [NewGateway({}) EXCEPT !.exists = FALSE, !.raced = Raced(g)])

\* late: a gateway that was created after the policies were first looked at.
CreateGateway(g) ==
  /\ Edit("gateway")
  /\ ~gw[g].exists
  /\ \E R \in RouteSets : ChangeGateway(g, [NewGateway(R) EXCEPT !.late = TRUE, !.raced = Raced(g)])

ChangeListeners(g) ==
  /\ Edit("listeners")
  /\ gw[g].exists
  /\ \E L \in SUBSET ListenerSet \ {{}, gw[g].listeners} : ChangeGateway(g, [gw[g] EXCEPT !.listeners = L])

\* The gateway controller brings the routes attached on the clusters into the status of the gateway.
ChangeRoutes(g) ==
  /\ Edit("routes")
  /\ gw[g].exists
  /\ \E R \in RouteSets \ {gw[g].routes} : ChangeGateway(g, [gw[g] EXCEPT !.routes = R])

ChangeReady(g) ==
  /\ Edit("ready")
  /\ gw[g].exists
  /\ ChangeGateway(g, [gw[g] EXCEPT !.ready = ~@])

\* Mutant of ChangeCluster: the clusters are not watched.
ChangeClusterUnseen(g) ==
  /\ Edit("cluster")
  /\ attrs' = [attrs EXCEPT ![g] = 1 - @]
  /\ UNCHANGED <<gw, zones, pol, res, probes, queued, rc, faults>>
\* ClusterEventMapper: the attributes of a cluster change; the DNSPolicies its gateways refer to are queued.
ChangeCluster(g) ==
  /\ Edit("cluster")
  /\ attrs' = [attrs EXCEPT ![g] = 1 - @]
  /\ queued' = queued \cup {p \in gw[g].refs : Kind(p) = "dns"}
  /\ UNCHANGED <<gw, zones, pol, res, probes, rc, faults>>

\* A managed zone is added, which the DNSPolicy controller does not watch.
AddZone ==
  /\ Edit("zone")
  /\ \E Z \in ZoneSets : zones \subseteq Z /\ zones # Z /\ zones' = Z
  /\ UNCHANGED <<gw, attrs, pol, res, probes, queued, rc, faults>>

Work(k) ==
  \/ AddFinalizer(k)
  \/ ComputeGatewayDiffs(k)
  \/ deleteResources(k)
  \/ k = "dns" /\ (reconcileGatewayDNSRecords \/ reconcileHealthChecks)
  \/ k = "tls" /\ reconcileGatewayCertificates
  \/ ReconcileTargetBackReference(k)
  \/ DeleteTargetBackReference(k)
  \/ RecomputeGatewayDiffs(k)
  \/ ReconcileGatewayPolicyReferences(k)
  \/ updateGatewayCondition(k)
  \/ updateStatus(k)
  \/ RemoveFinalizer(k)

Faults ==
  \/ \E k \in Kinds : CallFails(k)
  \/ RoutesUnread
  \/ \E p \in Policies : TargetUnread(Kind(p), p)
  \/ Restart

Edits ==
  \/ \E p \in Policies, g \in Gateways : CreatePolicy(p, g) \/ Retarget(p, g)
  \/ \E p \in Policies : DeletePolicy(p) \/ ChangeHealthCheck(p) \/ ChangeValidity(p)
  \/ \E g \in Gateways : DeleteGateway(g) \/ CreateGateway(g) \/ ChangeListeners(g) \/ ChangeRoutes(g)
                         \/ ChangeReady(g) \/ ChangeCluster(g)
  \/ AddZone

Next ==
  \/ \E p \in Policies : Start(Kind(p), p)
  \/ \E k \in Kinds : Work(k)
  \/ Faults
  \/ Edits

Spec == Init /\ [][Next]_vars

(***************************************************************************)
(* Properties.                                                             *)
(***************************************************************************)

Stages == {"idle", "finalizer", "diff", "delete", "listeners", "probes", "claim", "rediff", "refs",
           "condition", "status", "remove"}

\* The state has the shape the code gives it, and no reconcile runs past the listeners of its gateway.
TypeOK ==
  /\ \A g \in Gateways :
       /\ gw[g].refs \subseteq Policies
       /\ \A k \in Kinds : gw[g].back[k] \in {p \in Policies : Kind(p) = k} \cup {"none"}
       /\ \A n \in ListenerSet : res[g][n].policy \in DNSPolicies \cup {"none"}
       /\ \A n \in Secrets : res[g][n].policy \in TLSPolicies \cup {"none"}
  /\ \A k \in Kinds : rc[k].pc \in Stages /\ rc[k].i \in 1..(Len(Listeners) + 1)
  /\ queued \subseteq Policies

\* A gateway refers to a policy only while the policy holds its finalizer and, unless it is being deleted,
\* the gateway's back reference: references are never written ahead of the claim ("claim the target network
\* object as taken asap") nor left behind by a deletion.  Left out: a gateway re-created between the two
\* reads of a reconcile, and a TLSPolicy that was applied after it was gone.
RefsHeldByClaim ==
  \A g \in Gateways : \A p \in gw[g].refs :
    ~gw[g].late /\ ~pol[p].ghost =>
      /\ pol[p].finalizer
      /\ pol[p].phase = "live" => gw[g].back[Kind(p)] = p

\* A gateway forgets a policy only when no record, certificate or probe of that policy is left for it: the
\* references are what a later clean-up would find them by.
ForgottenMeansReleased ==
  [][\A g \in Gateways : \A p \in gw[g].refs \ gw'[g].refs :
       gw'[g].exists => /\ \A n \in ListenerSet \cup Secrets : res[g][n].policy # p
                        /\ \A l \in ListenerSet : probes[g][l] # p]_vars

\* A policy is announced as accepted only on a gateway it has claimed and is recorded on (but for a gateway
\* re-created between the two reads of a reconcile).
AnnouncedAfterClaim ==
  [][\A g \in Gateways, k \in Kinds :
       (~gw[g].late /\ gw'[g].cond[k] # gw[g].cond[k] /\ gw'[g].cond[k].reason = "Accepted")
         => gw[g].back[k] = gw'[g].cond[k].policy /\ gw'[g].cond[k].policy \in gw[g].refs]_vars

\* The listeners of g the record loop gets to: those with no listener without routes before them.
Reached(g) ==
  LET routed(m) == Listeners[m] \in gw[g].listeners => Listeners[m] \in gw[g].routes
  IN {l \in gw[g].listeners : \E j \in DOMAIN Listeners : Listeners[j] = l /\ \A m \in 1..j : routed(m)}

\* The objects of p on g are as the gateway, its routes, its clusters and the policy ask: the records, the
\* probes, the certificates, and none beyond them.
RecordApplied(p, g, l) == res[g][l].by = p /\ res[g][l].attrs = attrs[g]
RecordsCleared(g) == \A l \in ListenerSet \ gw[g].listeners : res[g][l] = NoResource
ProbesApplied(p, g) ==
  \A l \in ListenerSet : IF l \in expectedProbes(pol[p], gw[g]) THEN probes[g][l] # "none" ELSE probes[g][l] # p
CertificatesApplied(p, g) ==
  \A n \in expectedCertificates(gw[g]) : res[g][n].by = p /\ res[g][n].hosts = HostsOf(gw[g], n)
CertificatesCleared(p, g) == \A n \in Secrets \ expectedCertificates(gw[g]) : res[g][n].policy # p

AppliedResources(p, g) ==
  IF Kind(p) = "dns"
  THEN (\A l \in Reached(g) : RecordApplied(p, g, l)) /\ RecordsCleared(g) /\ ProbesApplied(p, g)
  ELSE CertificatesApplied(p, g) /\ CertificatesCleared(p, g)

\* p is in force on its gateway: claimed, recorded there and nowhere else, announced, ready, and applied.
InForce(p) ==
  LET g == pol[p].target
  IN /\ gw[g].back[Kind(p)] = p
     /\ \A h \in Gateways : p \in gw[h].refs <=> h = g
     /\ gw[g].cond[Kind(p)] = [policy |-> p, reason |-> "Accepted"]
     /\ pol[p].ready = "ok"
     /\ AppliedResources(p, g)

\* p has a gateway.  Left out: a DNSPolicy whose gateway was created after it, which no event reports, or
\* whose routes could not be read, an error the code swallows; and a TLSPolicy whose gateway went or came back
\* while a TLSPolicy was being reconciled: when that falls between the two reads of the reconcile, the diff
\* has no target, and the reconcile ends without an error and without a mark that would bring an event.
Due(p) ==
  LET g == pol[p].target
  IN /\ pol[p].phase = "live"
     /\ gw[g].exists
     /\ IF Kind(p) = "dns" THEN ~gw[g].late /\ "routes" \notin faults ELSE ~gw[g].raced

\* Another policy of the kind of p is or was there.
Contested(p) == \E q \in crew.policies \ {p} : Kind(q) = Kind(p)

AtRest == queued = {} /\ \A k \in Kinds : rc[k].pc = "idle"

\* When both controllers are at rest no deletion is pending, and every policy that has a gateway, and no other
\* policy of its kind beside it, is in force there: no change, refused write or failed call is forgotten.
QuiescentMeansApplied ==
  AtRest => \A p \in Policies : pol[p].phase # "deleting" /\ (Due(p) /\ ~Contested(p) => InForce(p))

\* So is one that others compete with: the loser rewrites its records before the claim is refused, and the
\* condition it writes then brings the owner back to them.  Left out: a call that failed, for when that write
\* fails there is no event; and a TLSPolicy that was applied after it was gone.
QuiescentMeansSettled ==
  AtRest /\ "call" \notin faults /\ (\A q \in Policies : ~pol[q].ghost) =>
    \A p \in Policies : Due(p) /\ Contested(p) => InForce(p)

\* The zone found for a host is the longest managed domain the host lies properly below, with no public
\* suffix between them or at it.
ClosestZone ==
  \A l \in ListenerSet :
    LET host  == Host[l]
        below == {n \in 2..(Len(host) - 1) :
                    /\ Suffix(host, n) \in zones
                    /\ \A m \in 1..n : Suffix(host, m) \notin PublicSuffixes}
    IN findMatchingManagedZone(host) =
         IF below = {} THEN <<>> ELSE Suffix(host, CHOOSE n \in below : \A m \in below : n <= m)

==============================================================================
