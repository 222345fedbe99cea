----------------------- MODULE GatewayPoliciesProofs ------------------------
(***************************************************************************)
(* Theorems about GatewayPolicies, for every set of gateways, policies and *)
(* listeners: the marks on the gateways, and the types.                    *)
(***************************************************************************)
EXTENDS GatewayPoliciesInv

\* A leaf goes to Zenon, then to SMT, unless it names its prover.
USE Zenon, SMTT(30)

-----------------------------------------------------------------------------
(* The marks *)

\* RefsHeldByClaim holds for every number of gateways, policies, changes and faults: a gateway refers to a
\* policy only behind the claim of the gateway and the finalizer of the policy, however the two controllers,
\* the users and the failures of calls interleave.
THEOREM RefsAlwaysHeld ==
  Spec => []RefsHeldByClaim
<1>1. Inv => RefsHeldByClaim
  BY DEF Inv
<1> QED
  BY <1>1, InitInv, NextKeepsInv, PTL DEF Spec

\* The written gateway, when a worker writes through its copy from the diff.
LEMMA ListedWritten ==
  ASSUME Inv, NEW k \in Kinds, NEW g \in rc[k].own \cup rc[k].inv, NEW r, WriteListed(k, g, r)
  PROVE  \/ UNCHANGED gw
         \/ /\ gw[g] = rc[k].gws[g] /\ gw[g].exists /\ g \in Gateways
            /\ gw'[g] = r /\ \A h \in Gateways : h # g => gw'[h] = gw[h]
<1>1. CASE g \in rc[k].fresh
  <2>1. gw[g] = rc[k].gws[g] /\ gw[g].exists /\ g \in Gateways
    <3>1. CopiesCurrent(k) /\ rc[k] \in Reconciling
      BY DEF Inv, WorkerInv, Typed
    <3>2. rc[k].own \subseteq Gateways /\ rc[k].inv \subseteq Gateways
      BY <3>1 DEF Reconciling
    <3> QED
      BY <1>1, <3>1, <3>2 DEF CopiesCurrent
  <2>2. gw' = [gw EXCEPT ![g] = r]
    BY <1>1 DEF WriteListed
  <2> QED
    BY <2>1, <2>2 DEF Inv, Typed
<1>2. CASE g \notin rc[k].fresh
  BY <1>2 DEF WriteListed
<1> QED
  BY <1>1, <1>2

\* What the steps that write gateways change: the marks change only at the references, at the condition and
\* with the gateway itself.
MarksChange(g) ==
  \/ gw'[g].refs = gw[g].refs /\ gw'[g].cond = gw[g].cond
  \/ gw'[g].refs = {} /\ (~gw'[g].exists \/ gw[g].refs = {}) /\ \A k \in Kinds : gw'[g].cond[k] = NoCondition
  \/ \E k \in Kinds :
       /\ rc[k].pc = "refs" /\ gw'[g].cond = gw[g].cond
       /\ \/ gw'[g].refs = gw[g].refs \cup {rc[k].p}
          \/ gw'[g].refs = gw[g].refs \ {rc[k].p} /\ g \in rc[k].inv
  \/ \E k \in Kinds :
       /\ rc[k].pc = "condition" /\ gw'[g].refs = gw[g].refs /\ gw[g] = rc[k].gws[g] /\ gw[g].exists
       /\ \A j \in Kinds : j # k => gw'[g].cond[j] = gw[g].cond[j]
       /\ \/ gw'[g].cond[k] = NoCondition
          \/ gw'[g].cond[k] = [policy |-> rc[k].p, reason |-> Reason(k)] /\ g \in rc[k].own

\* What a write of the claim changes.
LEMMA BackWritten ==
  ASSUME Inv, NEW k \in Kinds, rc[k].pc # "idle", rc[k].target \in Gateways, NEW b, NEW c, WriteBack(k, b, c),
         NEW g \in Gateways
  PROVE  gw'[g].refs = gw[g].refs /\ gw'[g].cond = gw[g].cond
<1>1. PICK t \in Gateways : t = rc[k].target
  OBVIOUS
<1>2. gw \in [Gateways -> GatewayObject] /\ gw[t] \in GatewayObject
  BY DEF Inv, Typed
<1>3. PICK r : r = [gw[t] EXCEPT !.back[k] = b]
  OBVIOUS
<1>4. r.refs = gw[t].refs /\ r.cond = gw[t].cond
  BY <1>2, <1>3 DEF GatewayObject
<1>5. gw' = gw \/ gw' = [gw EXCEPT ![t] = r]
  BY <1>1, <1>3 DEF WriteBack, BackRefAnnotation
<1> QED
  BY <1>2, <1>4, <1>5

\* The marks that a write through a copy from the diff may change.
LEMMA ListedMarks ==
  ASSUME Inv, NEW k \in Kinds, NEW g \in Gateways,
         ReconcileGatewayPolicyReferences(k) \/ updateGatewayCondition(k)
  PROVE  MarksChange(g)
<1> DEFINE R == rc[k]
<1>0. CASE UNCHANGED gw
  BY <1>0 DEF MarksChange
<1>1. ASSUME R.pc = "refs", NEW h \in R.own \cup R.inv, NEW Q,
             WriteListed(k, h, [R.gws[h] EXCEPT !.refs = Q]),
             Q = R.gws[h].refs \cup {R.p} \/ (Q = R.gws[h].refs \ {R.p} /\ h \in R.inv)
      PROVE  MarksChange(g)
  <2>1. PICK r : r = [R.gws[h] EXCEPT !.refs = Q]
    OBVIOUS
  <2>2. r.refs = Q /\ r.cond = R.gws[h].cond
    BY <2>1, CopyType, SMTT(30) DEF GatewayObject
  <2>3. CASE /\ gw[h] = R.gws[h] /\ gw'[h] = r /\ h \in Gateways
             /\ \A i \in Gateways : i # h => gw'[i] = gw[i]
    <3>1. CASE g # h
      BY <2>3, <3>1 DEF MarksChange
    <3>2. CASE g = h
      BY <1>1, <2>2, <2>3, <3>2 DEF MarksChange
    <3> QED
      BY <3>1, <3>2
  <2> QED
    BY <1>0, <1>1, <2>1, <2>3, ListedWritten, SMTT(30)
<1>2. ASSUME R.pc = "condition", NEW h \in R.own \cup R.inv, NEW c,
             WriteListed(k, h, [R.gws[h] EXCEPT !.cond[k] = c]),
             c = NoCondition \/ (c = [policy |-> R.p, reason |-> Reason(k)] /\ h \in R.own)
      PROVE  MarksChange(g)
  <2>1. PICK r : r = [R.gws[h] EXCEPT !.cond[k] = c]
    OBVIOUS
  <2>2. r.refs = R.gws[h].refs /\ r.cond[k] = c /\ \A j \in Kinds : j # k => r.cond[j] = R.gws[h].cond[j]
    <3>1. PICK o \in GatewayObject : o = R.gws[h]
      BY CopyType
    <3>2. PICK d : d = [o.cond EXCEPT ![k] = c]
      OBVIOUS
    <3>3. d[k] = c /\ \A j \in Kinds : j # k => d[j] = o.cond[j]
      BY <3>2 DEF GatewayObject
    <3>4. r = [o EXCEPT !.cond = d]
      BY <2>1, <3>1, <3>2
    <3>5. r.refs = o.refs /\ r.cond = d
      BY <3>4 DEF GatewayObject
    <3> QED
      BY <3>1, <3>3, <3>5
  <2>3. CASE /\ gw[h] = R.gws[h] /\ gw[h].exists /\ gw'[h] = r /\ h \in Gateways
             /\ \A i \in Gateways : i # h => gw'[i] = gw[i]
    <3>1. CASE g # h
      BY <2>3, <3>1 DEF MarksChange
    <3>2. CASE g = h
      BY <1>2, <2>2, <2>3, <3>2, SMTT(30) DEF MarksChange
    <3> QED
      BY <3>1, <3>2
  <2> QED
    BY <1>0, <1>2, <2>1, <2>3, ListedWritten, SMTT(30)
<1>3. CASE ReconcileGatewayPolicyReferences(k)
  BY <1>0, <1>1, <1>3 DEF ReconcileGatewayPolicyReferences, ToLeave
<1>4. CASE updateGatewayCondition(k)
  BY <1>0, <1>2, <1>4 DEF updateGatewayCondition
<1> QED
  BY <1>3, <1>4

\* The marks that an edit may change.
LEMMA EditedMarks ==
  ASSUME Inv, NEW g \in Gateways, NEW h \in Gateways,
         DeleteGateway(h) \/ CreateGateway(h) \/ ChangeListeners(h) \/ ChangeRoutes(h) \/ ChangeReady(h)
  PROVE  MarksChange(g)
<1>1. gw \in [Gateways -> GatewayObject] /\ gw[h] \in GatewayObject
  BY DEF Inv, Typed
<1>2. ASSUME NEW r, ChangeGateway(h, r), r.refs = gw[h].refs, r.cond = gw[h].cond
      PROVE  MarksChange(g)
  BY <1>1, <1>2 DEF ChangeGateway, MarksChange
<1>3. ASSUME NEW r, ChangeGateway(h, r), r.refs = {}, ~r.exists \/ gw[h].refs = {},
             \A k \in Kinds : r.cond[k] = NoCondition
      PROVE  MarksChange(g)
  BY <1>1, <1>3 DEF ChangeGateway, MarksChange
<1>4. CASE DeleteGateway(h)
  <2>1. PICK r : r = [NewGateway({}) EXCEPT !.exists = FALSE, !.raced = Raced(h)]
    OBVIOUS
  <2>2. r.refs = {} /\ ~r.exists /\ \A k \in Kinds : r.cond[k] = NoCondition
    BY <2>1 DEF NewGateway
  <2> QED
    BY <1>3, <1>4, <2>1, <2>2 DEF DeleteGateway
<1>5. CASE CreateGateway(h)
  <2>1. PICK X \in RouteSets : ChangeGateway(h, [NewGateway(X) EXCEPT !.late = TRUE, !.raced = Raced(h)])
    BY <1>5 DEF CreateGateway
  <2>2. PICK r : r = [NewGateway(X) EXCEPT !.late = TRUE, !.raced = Raced(h)]
    OBVIOUS
  <2>3. r.refs = {} /\ \A k \in Kinds : r.cond[k] = NoCondition
    BY <2>2 DEF NewGateway
  <2>4. gw[h].refs = {}
    BY <1>5 DEF CreateGateway, Inv, ObjectInv
  <2> QED
    BY <1>3, <2>1, <2>2, <2>3, <2>4
<1>6. CASE ChangeListeners(h)
  <2>1. PICK L : ChangeGateway(h, [gw[h] EXCEPT !.listeners = L])
    BY <1>6 DEF ChangeListeners
  <2>2. PICK r : r = [gw[h] EXCEPT !.listeners = L]
    OBVIOUS
  <2>3. r.refs = gw[h].refs /\ r.cond = gw[h].cond
    BY <1>1, <2>2 DEF GatewayObject
  <2> QED
    BY <1>2, <2>1, <2>2, <2>3
<1>7. CASE ChangeRoutes(h)
  <2>1. PICK X : ChangeGateway(h, [gw[h] EXCEPT !.routes = X])
    BY <1>7 DEF ChangeRoutes
  <2>2. PICK r : r = [gw[h] EXCEPT !.routes = X]
    OBVIOUS
  <2>3. r.refs = gw[h].refs /\ r.cond = gw[h].cond
    BY <1>1, <2>2 DEF GatewayObject
  <2> QED
    BY <1>2, <2>1, <2>2, <2>3
<1>8. CASE ChangeReady(h)
  <2>1. PICK r : r = [gw[h] EXCEPT !.ready = ~gw[h].ready]
    OBVIOUS
  <2>2. r.refs = gw[h].refs /\ r.cond = gw[h].cond
    BY <1>1, <2>1 DEF GatewayObject
  <2> QED
    BY <1>2, <1>8, <2>1, <2>2 DEF ChangeReady
<1> QED
  BY <1>4, <1>5, <1>6, <1>7, <1>8

\* Every step changes the marks of a gateway in one of these ways.
LEMMA StepMarks ==
  ASSUME Inv, [Next]_vars, NEW g \in Gateways
  PROVE  MarksChange(g)
<1>1. CASE UNCHANGED gw
  BY <1>1 DEF MarksChange
<1>2. ASSUME NEW k \in Kinds, Work(k)
      PROVE  MarksChange(g)
  <2>1. CASE ReconcileTargetBackReference(k)
    <3>1. rc[k].pc = "claim" /\ rc[k].target \in Gateways
      BY <2>1 DEF ReconcileTargetBackReference, Inv, WorkerInv, PolicyHeld
    <3>2. (\E b, c : WriteBack(k, b, c)) \/ UNCHANGED gw
      BY <2>1 DEF ReconcileTargetBackReference
    <3> QED
      BY <1>1, <3>1, <3>2, BackWritten DEF MarksChange
  <2>2. CASE DeleteTargetBackReference(k)
    <3>1. CASE UNCHANGED gw
      BY <1>1, <3>1
    <3>2. CASE rc[k].target # "none" /\ WriteBack(k, "none", AfterClaim(k))
      <4>1. rc[k].pc = "claim" /\ rc[k].target \in Gateways
        BY <2>2, <3>2 DEF DeleteTargetBackReference, Inv, Typed, Reconciling
      <4> QED
        BY <3>2, <4>1, BackWritten DEF MarksChange
    <3> QED
      BY <2>2, <3>1, <3>2 DEF DeleteTargetBackReference
  <2>3. CASE ReconcileGatewayPolicyReferences(k) \/ updateGatewayCondition(k)
    BY <2>3, ListedMarks
  <2>4. CASE AddFinalizer(k) \/ ComputeGatewayDiffs(k) \/ deleteResources(k) \/ RecomputeGatewayDiffs(k)
    BY <1>1, <2>4 DEF AddFinalizer, ComputeGatewayDiffs, deleteResources, RecomputeGatewayDiffs
  <2>5. CASE reconcileGatewayDNSRecords \/ reconcileHealthChecks \/ reconcileGatewayCertificates
    BY <1>1, <2>5 DEF reconcileGatewayDNSRecords, reconcileHealthChecks, reconcileGatewayCertificates
  <2>6. CASE updateStatus(k) \/ RemoveFinalizer(k)
    BY <1>1, <2>6 DEF updateStatus, RemoveFinalizer
  <2> QED
    BY <1>2, <2>1, <2>2, <2>3, <2>4, <2>5, <2>6 DEF Work
<1>3. ASSUME NEW p \in Policies, Start(Kind(p), p)
      PROVE  MarksChange(g)
  BY <1>1, <1>3 DEF Start
<1>4. CASE Faults
  BY <1>1, <1>4 DEF Faults, CallFails, RoutesUnread, TargetUnread, Restart
<1>5. CASE Edits
  <2>1. ASSUME NEW p \in Policies,
               \/ \E h \in Gateways : CreatePolicy(p, h) \/ Retarget(p, h)
               \/ DeletePolicy(p) \/ ChangeHealthCheck(p) \/ ChangeValidity(p)
        PROVE  MarksChange(g)
    BY <1>1, <2>1 DEF CreatePolicy, Retarget, DeletePolicy, ChangeHealthCheck, ChangeValidity, ChangePolicy
  <2>2. CASE AddZone \/ \E h \in Gateways : ChangeCluster(h)
    BY <1>1, <2>2 DEF AddZone, ChangeCluster
  <2> QED
    BY <1>5, <2>1, <2>2, EditedMarks DEF Edits
<1> QED
  BY <1>1, <1>2, <1>3, <1>4, <1>5 DEF Next, vars

\* ForgottenMeansReleased holds for every number of gateways, policies, changes and faults: the deletions of
\* a reconcile come before its references, and nothing of the policy comes back in between.
THEOREM ForgottenAlwaysReleased ==
  Spec => ForgottenMeansReleased
<1>1. ASSUME Inv, [Next]_vars, NEW g \in Gateways, NEW p \in gw[g].refs \ gw'[g].refs, gw'[g].exists
      PROVE  /\ \A n \in ListenerSet \cup Secrets : res[g][n].policy # p
             /\ \A l \in ListenerSet : probes[g][l] # p
  <2>1. PICK k \in Kinds : rc[k].pc = "refs" /\ p = rc[k].p /\ g \in rc[k].inv
    <3>1. MarksChange(g)
      BY <1>1, StepMarks
    <3> QED
      BY <1>1, <3>1 DEF MarksChange
  <2>2. WorkerInv(k) /\ p \in Policies /\ Kind(p) = k
    BY <1>1, <2>1 DEF Inv, WorkerInv, PolicyHeld
  <2>3. \A n \in ListenerSet \cup Secrets : res[g][n].policy # p
    BY <2>1, <2>2 DEF WorkerInv, Released
  <2>4. \A l \in ListenerSet : probes[g][l] # p
    <3>1. CASE k = "dns"
      BY <2>1, <2>2, <3>1 DEF WorkerInv, Released
    <3>2. CASE k = "tls"
      <4>1. p \notin DNSPolicies /\ p # "none"
        BY <2>2, <3>2, KindOfPolicy DEF Kind
      <4>2. \A l \in ListenerSet : probes[g][l] \in DNSPolicies \cup {"none"}
        BY <1>1, SMTT(30) DEF Inv, Typed
      <4> QED
        BY <4>1, <4>2
    <3> QED
      BY <3>1, <3>2 DEF Kinds
  <2> QED
    BY <2>3, <2>4
<1>2. ASSUME Inv, [Next]_vars
      PROVE  [\A g \in Gateways : \A p \in gw[g].refs \ gw'[g].refs :
                gw'[g].exists => /\ \A n \in ListenerSet \cup Secrets : res[g][n].policy # p
                                 /\ \A l \in ListenerSet : probes[g][l] # p]_vars
  BY <1>1, <1>2
<1> QED
  BY <1>2, InitInv, NextKeepsInv, PTL DEF Spec, ForgottenMeansReleased

\* AnnouncedAfterClaim holds for every number of gateways, policies, changes and faults: Accepted is said of
\* a policy only where it has the claim and the reference.
THEOREM AlwaysAnnouncedAfterClaim ==
  Spec => AnnouncedAfterClaim
<1>1. ASSUME Inv, [Next]_vars, NEW g \in Gateways, NEW k \in Kinds, ~gw[g].late,
             gw'[g].cond[k] # gw[g].cond[k], gw'[g].cond[k].reason = "Accepted"
      PROVE  gw[g].back[k] = gw'[g].cond[k].policy /\ gw'[g].cond[k].policy \in gw[g].refs
  <2>1. NoCondition.reason # "Accepted"
    BY DEF NoCondition
  <2>2. /\ rc[k].pc = "condition" /\ gw[g] = rc[k].gws[g] /\ gw[g].exists /\ g \in rc[k].own
        /\ gw'[g].cond[k] = [policy |-> rc[k].p, reason |-> Reason(k)]
    <3>1. gw'[g].cond # gw[g].cond /\ gw'[g].cond[k] # NoCondition
      BY <1>1, <2>1
    <3>2. PICK j \in Kinds :
            /\ rc[j].pc = "condition" /\ gw[g] = rc[j].gws[g] /\ gw[g].exists
            /\ \A i \in Kinds : i # j => gw'[g].cond[i] = gw[g].cond[i]
            /\ \/ gw'[g].cond[j] = NoCondition
               \/ gw'[g].cond[j] = [policy |-> rc[j].p, reason |-> Reason(j)] /\ g \in rc[j].own
      <4>1. MarksChange(g)
        BY <1>1, StepMarks
      <4>2. gw'[g].cond # gw[g].cond /\ ~\A i \in Kinds : gw'[g].cond[i] = NoCondition
        BY <1>1, <3>1
      <4> QED
        BY <4>1, <4>2 DEF MarksChange
    <3>3. j = k
      BY <1>1, <3>2
    <3> QED
      BY <3>1, <3>2, <3>3
  <2>3. WorkerInv(k) /\ rc[k].err \in Failures
    BY <1>1 DEF Inv, Typed, Reconciling
  <2>4. gw'[g].cond[k].policy = rc[k].p /\ rc[k].err = "none"
    <3>1. gw'[g].cond[k].policy = rc[k].p /\ Reason(k) = "Accepted"
      BY <1>1, <2>2, SMTT(30)
    <3> QED
      BY <2>3, <3>1 DEF Reason, Failures
  <2>5. rc[k].mode = "apply" /\ rc[k].target = g
    BY <2>2, <2>3 DEF WorkerInv, CopiesCurrent
  <2>6. gw[g].back[k] = rc[k].p /\ rc[k].p \in rc[k].gws[g].refs
    BY <1>1, <2>2, <2>3, <2>4, <2>5 DEF WorkerInv, ClaimHeld
  <2> QED
    BY <2>2, <2>4, <2>6
<1>2. ASSUME Inv, [Next]_vars
      PROVE  [\A g \in Gateways, k \in Kinds :
                (~gw[g].late /\ gw'[g].cond[k] # gw[g].cond[k] /\ gw'[g].cond[k].reason = "Accepted")
                  => gw[g].back[k] = gw'[g].cond[k].policy /\ gw'[g].cond[k].policy \in gw[g].refs]_vars
  BY <1>1, <1>2
<1> QED
  BY <1>2, InitInv, NextKeepsInv, PTL DEF Spec, AnnouncedAfterClaim

-----------------------------------------------------------------------------
(* Types *)

\* The records belong to DNSPolicies, the certificates to TLSPolicies.
Owners ==
  /\ \A g \in Gateways, n \in ListenerSet : res[g][n].policy \in DNSPolicies \cup {"none"}
  /\ \A g \in Gateways, n \in Secrets : res[g][n].policy \in TLSPolicies \cup {"none"}

\* No secret is taken for a listener.
LEMMA NamesApart ==
  ListenerSet \cap Secrets = {}
BY PolicyConstants, SMTT(30) DEF ListenerSet, Secrets

\* A policy of a worker is of the worker's kind.
LEMMA WorkersPolicy ==
  ASSUME Inv, NEW k \in Kinds, rc[k].pc # "idle"
  PROVE  /\ rc[k].p \in Policies
         /\ k = "dns" => rc[k].p \in DNSPolicies
         /\ k = "tls" => rc[k].p \in TLSPolicies
<1>1. rc[k].p \in Policies /\ Kind(rc[k].p) = k
  BY DEF Inv, WorkerInv, PolicyHeld
<1> QED
  BY <1>1 DEF Kind, Policies

\* A write of one object keeps the owners apart.
LEMMA OwnersWritten ==
  ASSUME Typed, Owners, NEW g \in Gateways, NEW n, NEW o, PutResource(g, n, o),
         n \in ListenerSet => o.policy \in DNSPolicies \cup {"none"},
         n \in Secrets => o.policy \in TLSPolicies \cup {"none"}
  PROVE  Owners'
<1>1. ASSUME NEW h \in Gateways, NEW m \in ListenerSet \cup Secrets
      PROVE  res'[h][m] = IF h = g /\ m = n THEN o ELSE res[h][m]
  BY DEF PutResource, Typed
<1>2. ASSUME NEW h \in Gateways, NEW m \in ListenerSet
      PROVE  res'[h][m].policy \in DNSPolicies \cup {"none"}
  BY <1>1, SMTT(30) DEF Owners
<1>3. ASSUME NEW h \in Gateways, NEW m \in Secrets
      PROVE  res'[h][m].policy \in TLSPolicies \cup {"none"}
  BY <1>1, SMTT(30) DEF Owners
<1> QED
  BY <1>2, <1>3 DEF Owners

\* A deletion keeps them apart.
LEMMA OwnersDeleted ==
  ASSUME Typed, Owners, NEW g \in Gateways, NEW n, DeleteResource(g, n)
  PROVE  Owners'
<1>1. NoResource.policy = "none"
  BY DEF NoResource
<1>2. PutResource(g, n, NoResource)
  BY DEF PutResource, DeleteResource
<1> QED
  BY <1>1, <1>2, OwnersWritten

\* What a policy wants belongs to it or to the owner it had.
LEMMA DesiredOwner ==
  ASSUME NEW p, NEW g, NEW n, NEW hosts
  PROVE  Desired(p, g, n, hosts).policy \in {p, res[g][n].policy}
BY DEF Desired

\* The owners stay of the kind of the object: the DNSPolicy controller writes records, the other certificates.
LEMMA OwnersKept ==
  ASSUME Inv, Owners, [Next]_vars
  PROVE  Owners'
<1>1. CASE UNCHANGED res
  BY <1>1 DEF Owners
<1>2. /\ Typed /\ "dns" \in Kinds /\ "tls" \in Kinds
      /\ \A k \in Kinds : rc[k].own \subseteq Gateways /\ rc[k].inv \subseteq Gateways
  BY DEF Inv, Typed, Reconciling, Kinds
<1>3. ASSUME NEW k \in Kinds, deleteResources(k)
      PROVE  Owners'
  <2>1. CASE \E x \in Left(k) \cup DeletedListeners \cup UnexpectedCertificates : DeleteResource(x[1], x[2])
    <3>1. PICK x \in Left(k) \cup DeletedListeners \cup UnexpectedCertificates : DeleteResource(x[1], x[2])
      BY <2>1
    <3>2. x[1] \in Gateways
      BY <1>2, <3>1 DEF Left, DeletedListeners, UnexpectedCertificates
    <3> QED
      BY <1>2, <3>1, <3>2, OwnersDeleted
  <2> QED
    BY <1>1, <1>3, <2>1 DEF deleteResources
<1>4. ASSUME NEW g \in rc["dns"].own, NEW l, EndAtUnrouted(g, l)
      PROVE  Owners'
  BY <1>2, <1>4, OwnersDeleted DEF EndAtUnrouted
<1>5. CASE reconcileGatewayDNSRecords
  <2>1. ASSUME NEW g \in rc["dns"].own, NEW j \in DOMAIN Listeners, reconcileListener(g, j)
        PROVE  Owners'
    <3>1. PICK l \in ListenerSet : l = Listeners[j]
      BY DEF ListenerSet
    <3>2. CASE res' = [res EXCEPT ![g][l] = Desired(rc["dns"].p, g, l, {l})]
      <4>1. PICK o : o = Desired(rc["dns"].p, g, l, {l})
        OBVIOUS
      <4>2. g \in Gateways /\ l \notin Secrets /\ PutResource(g, l, o)
        BY <1>2, <3>2, <4>1, NamesApart DEF PutResource
      <4>3. rc["dns"].p \in DNSPolicies
        BY <1>2, <1>5, WorkersPolicy DEF reconcileGatewayDNSRecords
      <4>4. o.policy \in DNSPolicies \cup {"none"}
        BY <4>1, <4>2, <4>3, DesiredOwner, SMTT(30) DEF Owners
      <4> QED
        BY <1>2, <4>2, <4>4, OwnersWritten
    <3> QED
      BY <1>1, <1>4, <2>1, <3>1, <3>2 DEF reconcileListener
  <2> QED
    BY <1>1, <1>5, <2>1 DEF reconcileGatewayDNSRecords
<1>6. CASE reconcileGatewayCertificates
  <2>1. ASSUME NEW g \in rc["tls"].own, NEW n \in Secrets, NEW hosts,
               res' = [res EXCEPT ![g][n] = Desired(rc["tls"].p, g, n, hosts)]
        PROVE  Owners'
    <3>1. PICK o : o = Desired(rc["tls"].p, g, n, hosts)
      OBVIOUS
    <3>2. g \in Gateways /\ n \notin ListenerSet /\ PutResource(g, n, o)
      BY <1>2, <2>1, <3>1, NamesApart DEF PutResource
    <3>3. rc["tls"].p \in TLSPolicies
      BY <1>2, <1>6, WorkersPolicy DEF reconcileGatewayCertificates
    <3>4. o.policy \in TLSPolicies \cup {"none"}
      BY <3>1, <3>2, <3>3, DesiredOwner, SMTT(30) DEF Owners
    <3> QED
      BY <1>2, <3>2, <3>4, OwnersWritten
  <2>2. \/ UNCHANGED res
        \/ \E x \in rc["tls"].own \X Secrets :
             res' = [res EXCEPT ![x[1]][x[2]] =
                       Desired(rc["tls"].p, x[1], x[2], HostsOf(rc["tls"].gws[x[1]], x[2]))]
    BY <1>6 DEF reconcileGatewayCertificates
  <2>3. ASSUME NEW x \in rc["tls"].own \X Secrets,
               res' = [res EXCEPT ![x[1]][x[2]] =
                         Desired(rc["tls"].p, x[1], x[2], HostsOf(rc["tls"].gws[x[1]], x[2]))]
        PROVE  Owners'
    <3>1. PICK g \in rc["tls"].own, n \in Secrets : x[1] = g /\ x[2] = n
      OBVIOUS
    <3>2. res' = [res EXCEPT ![g][n] = Desired(rc["tls"].p, g, n, HostsOf(rc["tls"].gws[g], n))]
      BY <2>3, <3>1
    <3> QED
      BY <2>1, <3>2
  <2> QED
    BY <1>1, <2>2, <2>3
<1>7. ASSUME NEW k \in Kinds, Work(k)
      PROVE  Owners'
  <2>1. CASE AddFinalizer(k) \/ ComputeGatewayDiffs(k) \/ RecomputeGatewayDiffs(k) \/ reconcileHealthChecks
    BY <1>1, <2>1 DEF AddFinalizer, ComputeGatewayDiffs, RecomputeGatewayDiffs, reconcileHealthChecks
  <2>2. CASE ReconcileTargetBackReference(k) \/ DeleteTargetBackReference(k)
    BY <1>1, <2>2 DEF ReconcileTargetBackReference, DeleteTargetBackReference
  <2>3. CASE ReconcileGatewayPolicyReferences(k) \/ updateGatewayCondition(k)
    BY <1>1, <2>3 DEF ReconcileGatewayPolicyReferences, updateGatewayCondition
  <2>4. CASE updateStatus(k) \/ RemoveFinalizer(k)
    BY <1>1, <2>4 DEF updateStatus, RemoveFinalizer
  <2> QED
    BY <1>3, <1>5, <1>6, <1>7, <2>1, <2>2, <2>3, <2>4 DEF Work
<1>8. CASE Faults
  BY <1>1, <1>4, <1>8 DEF Faults, CallFails, RoutesUnread, TargetUnread, Restart
<1>9. CASE Edits
  <2>1. ASSUME NEW p \in Policies,
               \/ \E h \in Gateways : CreatePolicy(p, h) \/ Retarget(p, h)
               \/ DeletePolicy(p) \/ ChangeHealthCheck(p) \/ ChangeValidity(p)
        PROVE  Owners'
    BY <1>1, <2>1 DEF CreatePolicy, Retarget, DeletePolicy, ChangeHealthCheck, ChangeValidity, ChangePolicy
  <2>2. CASE AddZone \/ \E h \in Gateways : ChangeCluster(h)
    BY <1>1, <2>2 DEF AddZone, ChangeCluster
  <2>3. ASSUME NEW h \in Gateways,
               DeleteGateway(h) \/ CreateGateway(h) \/ ChangeListeners(h) \/ ChangeRoutes(h) \/ ChangeReady(h)
        PROVE  Owners'
    BY <1>1, <2>3
       DEF DeleteGateway, CreateGateway, ChangeListeners, ChangeRoutes, ChangeReady, ChangeGateway
  <2> QED
    BY <1>9, <2>1, <2>2, <2>3 DEF Edits
<1>10. ASSUME NEW p \in Policies, Start(Kind(p), p)
       PROVE  Owners'
  BY <1>1, <1>10 DEF Start
<1> QED
  BY <1>1, <1>7, <1>8, <1>9, <1>10 DEF Next, vars

\* The policies in play: no other is ever there, queued, referred to or reconciled.
InPlay == Policies \cap crew.policies
CrewInv ==
  /\ queued \subseteq InPlay
  /\ \A p \in Policies : pol[p].phase # "absent" => p \in InPlay
  /\ \A g \in Gateways : gw[g].refs \subseteq InPlay
  /\ \A k \in Kinds : rc[k].pc # "idle" => rc[k].p \in InPlay

\* An event of a written gateway queues policies in play only.
LEMMA EventQueues ==
  ASSUME Inv, Inv', CrewInv, NEW g \in Gateways, NEW r, gw' = [gw EXCEPT ![g] = r],
         gw'[g].refs \subseteq InPlay, queued' = queued \cup GatewayEvent(g, r)
  PROVE  queued' \subseteq InPlay
<1>1. gw'[g] = r
  BY DEF Inv, Typed
<1> QED
  BY <1>1 DEF GatewayEvent, CrewInv

\* A reconcile queues its own policy, and those of the gateways it writes.
LEMMA WorkQueues ==
  ASSUME Inv, Inv', CrewInv, NEW k \in Kinds, Work(k), \A g \in Gateways : gw'[g].refs \subseteq InPlay
  PROVE  queued' \subseteq InPlay
<1>0. ASSUME UNCHANGED queued
      PROVE  queued' \subseteq InPlay
  BY <1>0 DEF CrewInv
<1>1. CASE queued' \subseteq queued \cup {rc[k].p} /\ rc[k].pc # "idle"
  BY <1>1 DEF CrewInv
<1>2. ASSUME Abort(k), rc[k].pc # "idle"
      PROVE  queued' \subseteq InPlay
  <2>1. queued' \subseteq queued \cup {rc[k].p}
    BY <1>2 DEF Abort, Return
  <2> QED
    BY <1>1, <1>2, <2>1
<1>3. ASSUME NEW g \in rc[k].own \cup rc[k].inv, NEW r, WriteListed(k, g, r), rc[k].pc # "idle"
      PROVE  queued' \subseteq InPlay
  <2>1. g \in Gateways
    BY DEF Inv, Typed, Reconciling
  <2> QED
    BY <1>2, <1>3, <2>1, EventQueues DEF WriteListed
<1>4. ASSUME NEW b, NEW c, WriteBack(k, b, c), rc[k].pc # "idle", rc[k].target # "none"
      PROVE  queued' \subseteq InPlay
  <2>1. rc[k].target \in Gateways
    BY <1>4 DEF Inv, Typed, Reconciling
  <2> QED
    BY <1>2, <1>4, <2>1, EventQueues DEF WriteBack
<1>5. CASE AddFinalizer(k)
  BY <1>1, <1>5 DEF AddFinalizer, Return
<1>6. CASE ComputeGatewayDiffs(k) \/ deleteResources(k) \/ RecomputeGatewayDiffs(k)
  BY <1>0, <1>2, <1>6, KindOfPolicy DEF ComputeGatewayDiffs, deleteResources, RecomputeGatewayDiffs
<1>7. CASE k = "dns" /\ reconcileGatewayDNSRecords
  BY <1>0, <1>2, <1>7 DEF reconcileGatewayDNSRecords, reconcileListener, EndAtUnrouted
<1>8. CASE k = "dns" /\ reconcileHealthChecks
  <2>1. queued' \in {queued, queued \cup {rc[k].p}} /\ rc[k].pc # "idle"
    BY <1>8 DEF reconcileHealthChecks
  <2> QED
    BY <1>1, <2>1
<1>9. CASE reconcileGatewayCertificates
  BY <1>0, <1>9 DEF reconcileGatewayCertificates
<1>10. CASE ReconcileTargetBackReference(k)
  <2>1. rc[k].pc # "idle" /\ rc[k].target # "none"
    <3>1. rc[k].pc = "claim" /\ rc[k].mode = "apply"
      BY <1>10 DEF ReconcileTargetBackReference
    <3>2. rc[k].target \in Gateways
      BY <3>1 DEF Inv, WorkerInv, PolicyHeld
    <3> QED
      BY <3>1, <3>2, KindOfPolicy
  <2> QED
    BY <1>0, <1>2, <1>4, <1>10, <2>1 DEF ReconcileTargetBackReference
<1>11. CASE DeleteTargetBackReference(k)
  <2>1. rc[k].pc # "idle" /\ (UNCHANGED queued \/ (rc[k].target # "none" /\ \E b, c : WriteBack(k, b, c)))
    BY <1>11 DEF DeleteTargetBackReference
  <2> QED
    BY <1>0, <1>4, <2>1
<1>12. CASE ReconcileGatewayPolicyReferences(k)
  BY <1>0, <1>3, <1>12 DEF ReconcileGatewayPolicyReferences, ToLeave
<1>13. CASE updateGatewayCondition(k)
  <2>1. CASE Return(k, k = "tls")
    BY <1>1, <1>13, <2>1 DEF updateGatewayCondition, Return
  <2> QED
    BY <1>0, <1>3, <1>13, <2>1 DEF updateGatewayCondition
<1>14. CASE updateStatus(k) \/ RemoveFinalizer(k)
  BY <1>1, <1>14 DEF updateStatus, RemoveFinalizer, Return
<1> QED
  BY <1>5, <1>6, <1>7, <1>8, <1>9, <1>10, <1>11, <1>12, <1>13, <1>14 DEF Work

\* A policy comes into being in play.
LEMMA PoliciesInPlay ==
  ASSUME Inv, CrewInv, [Next]_vars, NEW p \in Policies, pol'[p].phase # "absent"
  PROVE  p \in InPlay
<1>1. CASE pol'[p].phase = pol[p].phase
  BY <1>1 DEF CrewInv
<1>2. ASSUME NEW q \in Policies, NEW o, pol' = [pol EXCEPT ![q] = o], pol[q].phase # "absent" \/ q \in InPlay
      PROVE  p \in InPlay
  <2>1. CASE p = q
    BY <1>2, <2>1 DEF CrewInv
  <2>2. CASE p # q
    BY <1>1, <1>2, <2>2 DEF Inv, Typed
  <2> QED
    BY <2>1, <2>2
<1>3. ASSUME NEW k \in Kinds, Work(k)
      PROVE  p \in InPlay
  <2>1. ASSUME NEW o, pol' = [pol EXCEPT ![rc[k].p] = o], rc[k].pc # "idle"
        PROVE  p \in InPlay
    BY <1>2, <2>1, WorkersPolicy DEF CrewInv
  <2>2. CASE UNCHANGED pol
    BY <1>1, <2>2
  <2>3. CASE AddFinalizer(k) \/ updateStatus(k) \/ RemoveFinalizer(k)
    <3>1. rc[k].pc # "idle"
      BY <2>3 DEF AddFinalizer, updateStatus, RemoveFinalizer
    <3>2. UNCHANGED pol \/ \E o : pol' = [pol EXCEPT ![rc[k].p] = o]
      BY <2>3 DEF AddFinalizer, updateStatus, RemoveFinalizer
    <3> QED
      BY <2>1, <2>2, <3>1, <3>2
  <2> QED
    BY <1>3, <2>2, <2>3 DEF Work, ComputeGatewayDiffs, deleteResources, reconcileGatewayDNSRecords,
      reconcileHealthChecks, reconcileGatewayCertificates, ReconcileTargetBackReference,
      DeleteTargetBackReference, RecomputeGatewayDiffs, ReconcileGatewayPolicyReferences, updateGatewayCondition
<1>4. ASSUME NEW q \in Policies,
             \/ \E h \in Gateways : CreatePolicy(q, h) \/ Retarget(q, h)
             \/ DeletePolicy(q) \/ ChangeHealthCheck(q) \/ ChangeValidity(q)
      PROVE  p \in InPlay
  <2>1. pol[q].phase # "absent" \/ q \in InPlay
    BY <1>4 DEF CreatePolicy, Retarget, DeletePolicy, ChangeHealthCheck, ChangeValidity, InPlay
  <2>2. \E o : pol' = [pol EXCEPT ![q] = o]
    BY <1>4 DEF CreatePolicy, Retarget, DeletePolicy, ChangeHealthCheck, ChangeValidity, ChangePolicy
  <2> QED
    BY <1>2, <2>1, <2>2
<1>5. CASE UNCHANGED pol
  BY <1>1, <1>5
<1> QED
  BY <1>3, <1>4, <1>5 DEF Next, vars, Start, Faults, CallFails, RoutesUnread, TargetUnread, Restart, Edits,
    DeleteGateway, CreateGateway, ChangeListeners, ChangeRoutes, ChangeReady, ChangeGateway, ChangeCluster, AddZone

\* A gateway comes to refer to the policy of a worker only.
LEMMA RefsInPlay ==
  ASSUME Inv, CrewInv, [Next]_vars, NEW g \in Gateways
  PROVE  gw'[g].refs \subseteq InPlay
<1>1. MarksChange(g)
  BY StepMarks
<1>2. gw[g].refs \subseteq InPlay /\ \A k \in Kinds : rc[k].pc = "refs" => rc[k].p \in InPlay
  BY DEF CrewInv
<1> QED
  BY <1>1, <1>2 DEF MarksChange

\* The work queues hold policies in play.
LEMMA QueueKept ==
  ASSUME Inv, Inv', CrewInv, [Next]_vars
  PROVE  queued' \subseteq InPlay
<1>1. CASE UNCHANGED queued
  BY <1>1 DEF CrewInv
<1>r. \A g \in Gateways : gw'[g].refs \subseteq InPlay
  BY RefsInPlay
<1>2. ASSUME NEW p \in Policies, Start(Kind(p), p) \/ TargetUnread(Kind(p), p)
      PROVE  queued' \subseteq InPlay
  BY <1>2 DEF Start, TargetUnread, Begin, CrewInv
<1>3. ASSUME NEW k \in Kinds, CallFails(k)
      PROVE  queued' \subseteq InPlay
  <2>1. queued' \subseteq queued \cup {rc[k].p} /\ rc[k].pc # "idle"
    BY <1>3 DEF CallFails, Abort, Return
  <2> QED
    BY <2>1 DEF CrewInv
<1>4. CASE RoutesUnread \/ Restart
  BY <1>4 DEF RoutesUnread, EndAtUnrouted, Restart, CrewInv
<1>5. CASE Edits
  <2>1. ASSUME NEW p \in InPlay, NEW q, ChangePolicy(p, q)
        PROVE  queued' \subseteq InPlay
    BY <2>1 DEF ChangePolicy, CrewInv
  <2>2. ASSUME NEW p \in Policies,
               \/ \E h \in Gateways : CreatePolicy(p, h) \/ Retarget(p, h)
               \/ DeletePolicy(p) \/ ChangeHealthCheck(p) \/ ChangeValidity(p)
        PROVE  queued' \subseteq InPlay
    <3>1. p \in InPlay
      BY <2>2 DEF CreatePolicy, Retarget, DeletePolicy, ChangeHealthCheck, ChangeValidity, InPlay, CrewInv
    <3> QED
      BY <1>1, <2>1, <2>2, <3>1 DEF CreatePolicy, Retarget, DeletePolicy, ChangeHealthCheck, ChangeValidity
  <2>3. ASSUME NEW h \in Gateways, NEW r, ChangeGateway(h, r)
        PROVE  queued' \subseteq InPlay
    BY <1>r, <2>3, EventQueues DEF ChangeGateway
  <2>4. ASSUME NEW h \in Gateways,
               DeleteGateway(h) \/ CreateGateway(h) \/ ChangeListeners(h) \/ ChangeRoutes(h) \/ ChangeReady(h)
        PROVE  queued' \subseteq InPlay
    BY <2>3, <2>4 DEF DeleteGateway, CreateGateway, ChangeListeners, ChangeRoutes, ChangeReady
  <2>5. ASSUME NEW h \in Gateways, ChangeCluster(h)
        PROVE  queued' \subseteq InPlay
    BY <2>5 DEF ChangeCluster, CrewInv
  <2>6. CASE AddZone
    BY <1>1, <2>6 DEF AddZone
  <2> QED
    BY <1>5, <2>2, <2>4, <2>5, <2>6 DEF Edits
<1> QED
  BY <1>1, <1>r, <1>2, <1>3, <1>4, <1>5, WorkQueues DEF Next, Faults, vars

\* A worker that another's step finds as it is, but for copies that may become stale.
SameWork(k) ==
  LET R == rc[k]
      S == rc'[k]
  IN /\ S.pc = R.pc /\ S.p = R.p /\ S.mode = R.mode /\ S.copy = R.copy /\ S.target = R.target /\ S.back = R.back
     /\ S.gws = R.gws /\ S.inv = R.inv /\ S.own = R.own /\ S.i = R.i /\ S.err = R.err

\* A gateway is written by others.
LEMMA OutdatedWork ==
  ASSUME Typed, NEW g \in Gateways, NEW k \in Kinds, rc'[k] = Outdated(g)[k]
  PROVE  SameWork(k)
BY OutdatedFields, SMTT(30) DEF SameWork

\* An error, in the worker of k.
LEMMA AbortOther ==
  ASSUME Typed, NEW j \in Kinds, NEW k \in Kinds, j # k, Abort(j)
  PROVE  rc'[k] = rc[k]
<1>1. \E S : rc' = [rc EXCEPT ![j] = S]
  BY DEF Abort, Return, Typed
<1> QED
  BY <1>1 DEF Typed

\* A gateway as another controller writes it, to the worker of k.
OtherPut(k, g, r) ==
  /\ gw' = [gw EXCEPT ![g] = r] /\ queued' = queued \cup GatewayEvent(g, r) /\ rc'[k] = Outdated(g)[k]
  /\ r.exists = gw[g].exists /\ r.late = gw[g].late /\ r.raced = gw[g].raced /\ r.back[k] = gw[g].back[k]
  /\ UNCHANGED <<pol, attrs, res, probes, faults>>

\* The steps of the other worker: it writes a gateway, or the worker of k sees nothing of them.
LEMMA OtherSteps ==
  ASSUME Inv, NEW j \in Kinds, NEW k \in Kinds, j # k, Work(j)
  PROVE  (rc'[k] = rc[k] /\ UNCHANGED gw) \/ \E g \in Gateways, r \in GatewayObject : OtherPut(k, g, r)
<1> DEFINE Seen == (rc'[k] = rc[k] /\ UNCHANGED gw) \/ \E g \in Gateways, r \in GatewayObject : OtherPut(k, g, r)
<1>1. CASE UNCHANGED <<rc, gw>>
  BY <1>1
<1>2. ASSUME NEW S, rc' = [rc EXCEPT ![j] = S], UNCHANGED gw
      PROVE  Seen
  BY <1>2 DEF Inv, Typed
<1>3. ASSUME Abort(j), UNCHANGED gw
      PROVE  Seen
  BY <1>3, AbortOther DEF Inv
<1>4. ASSUME NEW g \in rc[j].own \cup rc[j].inv, NEW r \in GatewayObject, WriteListed(j, g, r),
             LET o == rc[j].gws[g]
             IN r.exists = o.exists /\ r.late = o.late /\ r.raced = o.raced /\ r.back = o.back,
             UNCHANGED <<pol, attrs, res, probes, faults>>
      PROVE  Seen
  <2>1. CASE g \in rc[j].fresh
    <3>1. rc'[k] = Outdated(g)[k]
      BY <2>1, <1>4 DEF WriteListed, Outdated
    <3>2. g \in Gateways /\ gw[g] = rc[j].gws[g]
      <4>1. CopiesCurrent(j) /\ rc[j] \in Reconciling
        BY DEF Inv, WorkerInv, Typed
      <4> QED
        BY <2>1, <4>1 DEF CopiesCurrent, Reconciling
    <3>3. gw' = [gw EXCEPT ![g] = r] /\ queued' = queued \cup GatewayEvent(g, r)
      BY <1>4, <2>1 DEF WriteListed
    <3>4. r.exists = gw[g].exists /\ r.late = gw[g].late /\ r.raced = gw[g].raced /\ r.back[k] = gw[g].back[k]
      BY <1>4, <3>2
    <3> QED
      BY <1>4, <3>1, <3>2, <3>3, <3>4 DEF OtherPut
  <2>2. CASE g \notin rc[j].fresh
    BY <1>3, <1>4, <2>2 DEF WriteListed
  <2> QED
    BY <2>1, <2>2
<1>5. ASSUME NEW b \in Policies \cup {"none"}, b # "none" => Kind(b) = j, NEW c \in Stages, WriteBack(j, b, c),
             rc[j].target \in Gateways, UNCHANGED <<pol, attrs, res, probes, faults>>
      PROVE  Seen
  <2>1. CASE rc[j].tfresh
    <3>1. PICK t \in Gateways : t = rc[j].target
      BY <1>5
    <3>2. PICK r \in GatewayObject : BackPut(j, t, b, c, r)
      BY <1>5, <2>1, <3>1, BackFields DEF Inv
    <3>3. /\ rc'[k] = Outdated(t)[k] /\ gw' = [gw EXCEPT ![t] = r]
          /\ r.exists = gw[t].exists /\ r.late = gw[t].late /\ r.raced = gw[t].raced /\ r.back[k] = gw[t].back[k]
      BY <3>2 DEF BackPut
    <3>4. queued' = queued \cup GatewayEvent(t, r)
      <4>1. \E q : gw' = [gw EXCEPT ![t] = q] /\ queued' = queued \cup GatewayEvent(t, q)
        BY <1>5, <2>1, <3>1 DEF WriteBack
      <4> QED
        BY <3>3, <4>1 DEF Inv, Typed
    <3> QED
      BY <1>5, <3>3, <3>4 DEF OtherPut
  <2>2. CASE ~rc[j].tfresh
    BY <1>3, <1>5, <2>2 DEF WriteBack
  <2> QED
    BY <2>1, <2>2
<1>6. CASE AddFinalizer(j) \/ ComputeGatewayDiffs(j) \/ deleteResources(j) \/ RecomputeGatewayDiffs(j)
  <2>1. UNCHANGED gw /\ (Abort(j) \/ UNCHANGED rc \/ \E S : rc' = [rc EXCEPT ![j] = S])
    BY <1>6 DEF AddFinalizer, ComputeGatewayDiffs, deleteResources, RecomputeGatewayDiffs, Goto, Return, Inv, Typed
  <2> QED
    BY <1>1, <1>2, <1>3, <2>1
<1>7. CASE \/ j = "dns" /\ (reconcileGatewayDNSRecords \/ reconcileHealthChecks)
           \/ j = "tls" /\ reconcileGatewayCertificates
  <2>1. UNCHANGED gw /\ (Abort(j) \/ UNCHANGED rc \/ \E S : rc' = [rc EXCEPT ![j] = S])
    BY <1>7 DEF reconcileGatewayDNSRecords, reconcileListener, EndAtUnrouted, reconcileHealthChecks,
      reconcileGatewayCertificates, Goto, Inv, Typed
  <2> QED
    BY <1>1, <1>2, <1>3, <2>1
<1>8. CASE ReconcileTargetBackReference(j)
  <2>1. rc[j].target \in Gateways /\ rc[j].p \in Policies /\ Kind(rc[j].p) = j
    BY <1>8 DEF ReconcileTargetBackReference, Inv, WorkerInv, PolicyHeld
  <2>2. "refs" \in Stages
    BY DEF Stages
  <2>3. /\ (UNCHANGED gw /\ (Abort(j) \/ \E S : rc' = [rc EXCEPT ![j] = S])) \/ WriteBack(j, rc[j].p, "refs")
        /\ UNCHANGED <<pol, attrs, res, probes, faults>>
    BY <1>8 DEF ReconcileTargetBackReference, Goto, Inv, Typed
  <2> QED
    BY <1>2, <1>3, <1>5, <2>1, <2>2, <2>3
<1>9. CASE DeleteTargetBackReference(j)
  <2>1. rc[j].target # "none" => rc[j].target \in Gateways
    BY DEF Inv, Typed, Reconciling
  <2>2. AfterClaim(j) \in Stages
    BY DEF AfterClaim, Stages
  <2>3. /\ \/ UNCHANGED gw /\ \E S : rc' = [rc EXCEPT ![j] = S]
           \/ rc[j].target # "none" /\ WriteBack(j, "none", AfterClaim(j))
        /\ UNCHANGED <<pol, attrs, res, probes, faults>>
    BY <1>9 DEF DeleteTargetBackReference, Goto, Inv, Typed
  <2> QED
    BY <1>2, <1>5, <2>1, <2>2, <2>3
<1>10. CASE ReconcileGatewayPolicyReferences(j)
  <2>1. ASSUME NEW g \in rc[j].own \cup rc[j].inv, NEW Q \in SUBSET Policies,
               WriteListed(j, g, [rc[j].gws[g] EXCEPT !.refs = Q])
        PROVE  Seen
    <3>1. PICK o \in GatewayObject : o = rc[j].gws[g]
      BY CopyType
    <3>2. PICK r : r = [o EXCEPT !.refs = Q]
      OBVIOUS
    <3>3. r \in GatewayObject /\ r.exists = o.exists /\ r.late = o.late /\ r.raced = o.raced /\ r.back = o.back
      BY <3>2 DEF GatewayObject
    <3>4. UNCHANGED <<pol, attrs, res, probes, faults>>
      BY <1>10 DEF ReconcileGatewayPolicyReferences
    <3> QED
      BY <1>4, <2>1, <3>1, <3>2, <3>3, <3>4
  <2>2. \/ UNCHANGED gw /\ \E S : rc' = [rc EXCEPT ![j] = S]
        \/ \E g \in rc[j].own \cup rc[j].inv :
             \/ WriteListed(j, g, [rc[j].gws[g] EXCEPT !.refs = rc[j].gws[g].refs \ {rc[j].p}])
             \/ WriteListed(j, g, [rc[j].gws[g] EXCEPT !.refs = rc[j].gws[g].refs \cup {rc[j].p}])
    BY <1>10 DEF ReconcileGatewayPolicyReferences, ToLeave, Goto, Inv, Typed
  <2>3. rc[j].p \in Policies
    BY <1>10, WorkersPolicy DEF ReconcileGatewayPolicyReferences
  <2>4. \A g \in rc[j].own \cup rc[j].inv :
          /\ rc[j].gws[g].refs \ {rc[j].p} \in SUBSET Policies
          /\ rc[j].gws[g].refs \cup {rc[j].p} \in SUBSET Policies
    <3>1. \A g \in rc[j].own \cup rc[j].inv : rc[j].gws[g].refs \in SUBSET Policies
      BY CopyType DEF GatewayObject
    <3> QED
      BY <2>3, <3>1
  <2> QED
    BY <1>2, <2>1, <2>2, <2>4
<1>11. CASE updateGatewayCondition(j)
  <2>1. ASSUME NEW g \in rc[j].own \cup rc[j].inv,
               NEW c \in [policy : Policies \cup {"none"}, reason : AllReasons],
               WriteListed(j, g, [rc[j].gws[g] EXCEPT !.cond[j] = c])
        PROVE  Seen
    <3>1. PICK o \in GatewayObject : o = rc[j].gws[g]
      BY CopyType
    <3>2. PICK d : d = [o.cond EXCEPT ![j] = c]
      OBVIOUS
    <3>3. d \in [Kinds -> [policy : Policies \cup {"none"}, reason : AllReasons]]
      BY <3>2 DEF GatewayObject
    <3>4. PICK r : r = [o EXCEPT !.cond = d]
      OBVIOUS
    <3>5. r \in GatewayObject /\ r.exists = o.exists /\ r.late = o.late /\ r.raced = o.raced /\ r.back = o.back
      BY <3>3, <3>4 DEF GatewayObject
    <3>6. UNCHANGED <<pol, attrs, res, probes, faults>>
      BY <1>11 DEF updateGatewayCondition
    <3> QED
      BY <1>4, <2>1, <3>1, <3>2, <3>4, <3>5, <3>6
  <2>2. \/ UNCHANGED gw /\ \E S : rc' = [rc EXCEPT ![j] = S]
        \/ \E g \in rc[j].own \cup rc[j].inv, c \in {NoCondition, [policy |-> rc[j].p, reason |-> Reason(j)]} :
             WriteListed(j, g, [rc[j].gws[g] EXCEPT !.cond[j] = c])
    BY <1>11 DEF updateGatewayCondition, Goto, Return, Inv, Typed
  <2>3. rc[j].p \in Policies /\ rc[j].err \in Failures
    BY <1>11, WorkersPolicy DEF updateGatewayCondition, Inv, Typed, Reconciling
  <2>4. {NoCondition, [policy |-> rc[j].p, reason |-> Reason(j)]} \subseteq
          [policy : Policies \cup {"none"}, reason : AllReasons]
    BY <2>3, SMTT(30) DEF NoCondition, Reason, AllReasons, Failures
  <2> QED
    BY <1>2, <2>1, <2>2, <2>4
<1>12. CASE updateStatus(j) \/ RemoveFinalizer(j)
  BY <1>2, <1>12 DEF updateStatus, RemoveFinalizer, Return
<1> QED
  BY <1>6, <1>7, <1>8, <1>9, <1>10, <1>11, <1>12 DEF Work

\* A step of the other worker leaves the work of this one alone.
LEMMA OtherWork ==
  ASSUME Inv, NEW j \in Kinds, NEW k \in Kinds, j # k, Work(j)
  PROVE  SameWork(k)
<1>1. CASE rc'[k] = rc[k]
  BY <1>1 DEF SameWork
<1>2. ASSUME NEW g \in Gateways, NEW r \in GatewayObject, OtherPut(k, g, r)
      PROVE  SameWork(k)
  BY <1>2, OutdatedWork DEF OtherPut, Inv
<1> QED
  BY <1>1, <1>2, OtherSteps

\* The stages before the listeners are walked through, and what they and the last one tell.
Early == {"finalizer", "diff", "delete"}
StageInv(k) ==
  /\ rc[k].pc \in Early => rc[k].i = 1
  /\ rc[k].pc = "status" => rc[k].mode = "apply"

\* How a worker goes on: it returns, and never from a deletion, or from the clean-up of a TLSPolicy, without
\* being called again; it stays with its policy; or it takes a policy from the queue.
Moves(k) ==
  LET R == rc[k]
      S == rc'[k]
  IN \/ /\ S.pc = "idle"
        /\ R.pc # "idle" /\ pol'[R.p].phase # "absent" /\ (R.mode = "delete" \/ (R.mode = "cleanup" /\ k = "tls"))
             => R.p \in queued'
     \/ /\ S.pc # "idle" /\ R.pc # "idle" /\ S.p = R.p /\ S.mode = R.mode
        /\ S.pc \in Early => R.pc \in Early /\ S.i = R.i
        /\ S.pc = "status" => R.mode = "apply"
     \/ /\ R.pc = "idle" /\ S.p \in queued /\ S.i = 1 /\ S.pc \in {"finalizer", "diff"}
        /\ pol[S.p].phase = "deleting" => S.mode = "delete"

\* A worker sets out.
LEMMA BeginFields ==
  ASSUME Inv, NEW k \in Kinds, NEW p \in Policies, pol[p].phase # "absent", NEW t \in Gateways \cup {"none"},
         Begin(k, p, t)
  PROVE  LET S == rc'[k]
         IN /\ S.p = p /\ S.copy = pol[p] /\ S.target = t /\ S.i = 1 /\ S.err = "none"
            /\ S.pc \in {"finalizer", "diff"}
            /\ S.mode = IF pol[p].phase = "deleting" THEN "delete" ELSE IF t = "none" THEN "cleanup" ELSE "apply"
            /\ S.back = IF t = "none" THEN "none" ELSE gw[t].back[k]
<1> DEFINE S == rc'[k]
           m == IF pol[p].phase = "deleting" THEN "delete" ELSE IF t = "none" THEN "cleanup" ELSE "apply"
           c == IF pol[p].phase = "live" /\ t # "none" /\ ~pol[p].finalizer THEN "finalizer" ELSE "diff"
           b == IF t = "none" THEN "none" ELSE gw[t].back[k]
<1>1. pol[p] \in PolicyObject
  BY DEF Inv, Typed
<1>2. t # "none" => gw[t].back[k] \in Policies \cup {"none"}
  <2>1. \A g \in Gateways : gw[g].back \in Backs
    BY DEF Inv, Typed, GatewayObject
  <2> QED
    BY <2>1 DEF Backs
<1>3. m \in {"apply", "delete", "cleanup"} /\ c \in {"finalizer", "diff"} /\ b \in Policies \cup {"none"}
  BY <1>2
<1>4. S = [Idle EXCEPT !.p = p, !.copy = pol[p], !.target = t, !.mode = m, !.pc = c, !.back = b,
                       !.tfresh = TRUE, !.pfresh = TRUE]
  BY <1>1 DEF Begin, Inv, Typed
<1> HIDE DEF m, c, b, S
<1>5. S = Begun(p, pol[p], t, m, c, b)
  BY <1>4 DEF Begun
<1>6. MayBegin(p, pol[p], t, m, c, b)
  BY <1>1, <1>3 DEF MayBegin, Stages
<1>7. HasBegun(S, p, pol[p], t, m, c, b)
  BY <1>5, <1>6, BegunFields
<1> QED
  BY <1>3, <1>7 DEF HasBegun, m, c, b, S

\* An error ends a reconcile, which is called again, or leads to the condition or to the status.
LEMMA AbortFields ==
  ASSUME Inv, NEW k \in Kinds, Abort(k)
  PROVE  LET R == rc[k]
             S == rc'[k]
         IN \/ S = Idle /\ queued' = queued \cup {R.p}
            \/ /\ R.mode = "apply" /\ S.pc \in {"condition", "status"} /\ S.err # "none"
               /\ S.p = R.p /\ S.mode = R.mode /\ S.copy = R.copy /\ S.target = R.target /\ S.back = R.back
               /\ queued' = queued
<1> DEFINE R == rc[k]
           S == rc'[k]
<1>1. R \in Reconciling /\ rc \in [Kinds -> Reconciling]
  BY DEF Inv, Typed
<1>2. CASE Return(k, TRUE)
  BY <1>1, <1>2 DEF Return
<1>3. CASE /\ R.mode = "apply" /\ UNCHANGED queued
           /\ \/ R.pc \in DOMAIN Reasons /\ rc' = [rc EXCEPT ![k].pc = "condition", ![k].err = Reasons[R.pc]]
              \/ rc' = [rc EXCEPT ![k].pc = "status", ![k].err = IF @ = "none" THEN "Failed" ELSE @]
  <2>1. PICK pc \in {"condition", "status"}, e \in Failures \ {"none"} :
          rc' = [rc EXCEPT ![k].pc = pc, ![k].err = e]
    <3>1. R.pc \in DOMAIN Reasons => Reasons[R.pc] \in Failures \ {"none"}
      BY SMTT(30) DEF Reasons, Failures
    <3>2. R.err # "none" => R.err \in Failures \ {"none"}
      BY <1>1 DEF Reconciling
    <3>3. "Failed" \in Failures \ {"none"}
      BY DEF Failures
    <3> QED
      BY <1>1, <1>3, <3>1, <3>2, <3>3
  <2>2. S = StageErr(R, pc, e)
    BY <1>1, <2>1 DEF StageErr
  <2>3. pc \in Stages
    BY DEF Stages
  <2> HIDE DEF R, S
  <2>4. /\ S.pc = pc /\ S.err = e /\ S.p = R.p /\ S.mode = R.mode /\ S.copy = R.copy /\ S.target = R.target
        /\ S.back = R.back
    BY <1>1, <2>2, <2>3, StageErrFields, SMTT(30)
  <2> QED
    BY <1>3, <2>4 DEF R, S
<1> QED
  BY <1>2, <1>3 DEF Abort

\* What an error leaves of the worker's moves.
LEMMA AbortMoves ==
  ASSUME Inv, NEW k \in Kinds, rc[k].pc # "idle", Abort(k)
  PROVE  Moves(k)
<1>1. Idle.pc = "idle"
  BY DEF Idle
<1> QED
  BY <1>1, AbortFields DEF Moves, Early

\* A worker that has listed the gateways: its target among own, and the others that refer to its policy.
Others(k, own) == {g \in Gateways \ own : gw[g].exists /\ rc[k].p \in gw[g].refs}
HasListed(k, own, c, S) ==
  LET R == rc[k]
      inv == Others(k, own)
  IN /\ S.pc = c /\ S.p = R.p /\ S.mode = R.mode /\ S.copy = R.copy /\ S.target = R.target /\ S.back = R.back
     /\ S.gws = [g \in own \cup inv |-> gw[g]] /\ S.inv = inv /\ S.own = own /\ S.fresh = own \cup inv
     /\ S.i = R.i /\ S.err = R.err

\* What the diff, and the diff of a deletion made anew, leave the worker with.
LEMMA ListedFields ==
  ASSUME Inv, NEW k \in Kinds, NEW own \in SUBSET Gateways
  PROVE  /\ HasListed(k, own, "delete", ListGateways(k, own))
         /\ HasListed(k, own, "refs", [ListGateways(k, own) EXCEPT !.pc = "refs"])
<1> DEFINE R == rc[k]
           inv == Others(k, own)
<1>1. R \in Reconciling /\ inv \in SUBSET Gateways /\ own \cup inv \in SUBSET Gateways
  BY DEF Inv, Typed, Others
<1>2. PICK f \in Copies : f = [g \in own \cup inv |-> gw[g]]
  <2>1. gw \in [Gateways -> GatewayObject]
    BY DEF Inv, Typed
  <2> QED
    BY <1>1, <2>1, CopiesMade
<1>3. ASSUME NEW c \in {"delete", "refs"}
      PROVE  HasListed(k, own, c, Listing(R, f, own \cup inv, own, inv, c))
  <2>1. PICK S : S = Listing(R, f, own \cup inv, own, inv, c)
    OBVIOUS
  <2>2. c \in Stages
    BY DEF Stages
  <2> HIDE DEF R, inv
  <2>3. /\ S.pc = c /\ S.p = R.p /\ S.mode = R.mode /\ S.target = R.target /\ S.back = R.back
        /\ S.gws = f /\ S.inv = inv /\ S.own = own /\ S.err = R.err /\ S.fresh = own \cup inv
        /\ S.copy = R.copy /\ S.i = R.i
    BY <1>1, <2>1, <2>2, ListFields, SMTT(30)
  <2> QED
    BY <1>2, <2>1, <2>3 DEF HasListed, R, inv
<1>4. ListGateways(k, own) = Listing(R, f, own \cup inv, own, inv, "delete")
  BY <1>2 DEF ListGateways, Listing, Others
<1>5. [ListGateways(k, own) EXCEPT !.pc = "refs"] = Listing(R, f, own \cup inv, own, inv, "refs")
  <2> HIDE DEF R, inv
  <2> QED
    BY <1>1, <1>4 DEF Listing, Reconciling
<1> QED
  BY <1>3, <1>4, <1>5

\* How a worker goes on by its own steps.
LEMMA WorkMoves ==
  ASSUME Inv, NEW k \in Kinds, StageInv(k), Work(k)
  PROVE  Moves(k)
<1> DEFINE R == rc[k]
           S == rc'[k]
<1>0. R.pc # "idle" /\ R \in Reconciling
  BY DEF Work, AddFinalizer, ComputeGatewayDiffs, deleteResources, reconcileGatewayDNSRecords,
      reconcileHealthChecks, reconcileGatewayCertificates, ReconcileTargetBackReference,
      DeleteTargetBackReference, RecomputeGatewayDiffs, ReconcileGatewayPolicyReferences, updateGatewayCondition,
      updateStatus, RemoveFinalizer, Inv, Typed
<1>1. ASSUME S.p = R.p, S.mode = R.mode, S.pc = R.pc, S.i = R.i
      PROVE  Moves(k)
  BY <1>0, <1>1 DEF Moves, StageInv
<1>2. CASE rc' = rc
  BY <1>1, <1>2
<1>3. ASSUME NEW c \in Stages \ {"idle"}, Goto(k, c), c \in Early => R.pc \in Early, c = "status" => R.mode = "apply"
      PROVE  Moves(k)
  BY <1>0, <1>3, GotoFields, SMTT(30) DEF Moves, Inv
<1>4. ASSUME Abort(k)
      PROVE  Moves(k)
  BY <1>0, <1>4, AbortMoves
<1>5. ASSUME NEW again, Return(k, again), R.mode = "delete" \/ (R.mode = "cleanup" /\ k = "tls") => again
      PROVE  Moves(k)
  <2>1. S = Idle /\ Idle.pc = "idle"
    BY <1>5 DEF Return, Inv, Typed, Idle
  <2> QED
    BY <1>5, <2>1 DEF Moves, Return
<1>6. ASSUME NEW g \in R.own \cup R.inv, NEW r, WriteListed(k, g, r)
      PROVE  Moves(k)
  <2>1. CASE g \in R.fresh
    <3>0. g \in Gateways /\ Typed
      BY DEF Inv, Typed, Reconciling
    <3>1. PICK O \in Reconciling : O = Outdated(g)[k]
      BY <3>0, OutdatedFields
    <3>2. O.pc = R.pc /\ O.p = R.p /\ O.mode = R.mode /\ O.i = R.i
      BY <3>0, <3>1, OutdatedFields, SMTT(30)
    <3>3. S = [O EXCEPT !.fresh = R.fresh, !.gws[g] = r]
      <4>1. rc' = [Outdated(g) EXCEPT ![k].fresh = R.fresh, ![k].gws[g] = r]
        BY <1>6, <2>1 DEF WriteListed
      <4>2. DOMAIN Outdated(g) = Kinds
        BY DEF Outdated
      <4> QED
        BY <3>1, <4>1, <4>2
    <3>4. S.pc = O.pc /\ S.p = O.p /\ S.mode = O.mode /\ S.i = O.i
      BY <3>1, <3>3, SMTT(30) DEF Reconciling
    <3> QED
      BY <1>1, <3>2, <3>4
  <2>2. CASE g \notin R.fresh
    BY <1>4, <1>6, <2>2 DEF WriteListed
  <2> QED
    BY <2>1, <2>2
<1>7. ASSUME NEW b \in Policies \cup {"none"}, b # "none" => Kind(b) = k, NEW c \in {"refs", "rediff"},
             WriteBack(k, b, c), R.target \in Gateways
      PROVE  Moves(k)
  <2>1. CASE R.tfresh
    <3>1. c \in Stages
      BY DEF Stages
    <3>2. PICK r \in GatewayObject : BackPut(k, R.target, b, c, r)
      BY <1>7, <2>1, <3>1, BackFields DEF Inv
    <3>3. S.pc = c /\ S.p = R.p /\ S.mode = R.mode
      BY <3>2 DEF BackPut
    <3> QED
      BY <1>0, <3>3 DEF Moves, Early
  <2>2. CASE ~R.tfresh
    BY <1>4, <1>7, <2>2 DEF WriteBack
  <2> QED
    BY <2>1, <2>2
<1>8. CASE AddFinalizer(k)
  <2>1. R.pc = "finalizer" /\ (Return(k, TRUE) \/ Goto(k, "diff"))
    BY <1>8 DEF AddFinalizer
  <2> QED
    BY <1>3, <1>5, <2>1 DEF Early, Stages
<1>9. CASE ComputeGatewayDiffs(k)
  <2>1. ASSUME NEW own \in SUBSET Gateways, rc' = [rc EXCEPT ![k] = ListGateways(k, own)]
        PROVE  Moves(k)
    <3>1. S = ListGateways(k, own) /\ R.pc = "diff"
      BY <1>9, <2>1 DEF ComputeGatewayDiffs, Inv, Typed
    <3>2. HasListed(k, own, "delete", S)
      BY <3>1, ListedFields
    <3>3. S.p = R.p /\ S.mode = R.mode /\ S.i = R.i /\ S.pc = "delete"
      BY <3>2 DEF HasListed
    <3> QED
      BY <3>1, <3>3 DEF Moves, Early
  <2> QED
    BY <1>4, <1>9, <2>1, SMTT(30) DEF ComputeGatewayDiffs
<1>10. CASE RecomputeGatewayDiffs(k)
  <2>1. S = [ListGateways(k, {}) EXCEPT !.pc = "refs"]
    BY <1>10 DEF RecomputeGatewayDiffs, Inv, Typed
  <2>2. HasListed(k, {}, "refs", S)
    <3>1. HasListed(k, {}, "refs", [ListGateways(k, {}) EXCEPT !.pc = "refs"])
      BY ListedFields
    <3> QED
      BY <2>1, <3>1
  <2>3. S.p = R.p /\ S.mode = R.mode /\ S.pc = "refs"
    BY <2>2 DEF HasListed
  <2> QED
    BY <1>0, <2>3 DEF Moves, Early
<1>11. CASE deleteResources(k)
  <2>1. rc' = rc \/ (R.pc = "delete" /\ Goto(k, "listeners"))
    BY <1>11 DEF deleteResources
  <2> QED
    BY <1>2, <1>3, <2>1 DEF Early, Stages
<1>12. CASE k = "dns" /\ reconcileGatewayDNSRecords
  <2>1. ASSUME NEW j \in Int, rc' = [rc EXCEPT ![k].i = j]
        PROVE  Moves(k)
    <3>1. S = [R EXCEPT !.i = j]
      BY <2>1 DEF Inv, Typed
    <3>2. S.p = R.p /\ S.mode = R.mode /\ S.pc = R.pc /\ R.pc = "listeners"
      BY <1>0, <1>12, <3>1, SMTT(30) DEF Reconciling, reconcileGatewayDNSRecords
    <3> QED
      BY <3>2 DEF Moves, Early
  <2>2. ASSUME NEW j \in DOMAIN Listeners
        PROVE  j + 1 \in Int
    BY PolicyConstants, SMTT(30)
  <2>3. rc' = rc \/ Goto(k, "probes") \/ Abort(k) \/ \E j \in DOMAIN Listeners : rc' = [rc EXCEPT ![k].i = j + 1]
    BY <1>12 DEF reconcileGatewayDNSRecords, reconcileListener, EndAtUnrouted
  <2> QED
    BY <1>2, <1>3, <1>4, <2>1, <2>2, <2>3 DEF Early, Stages
<1>13. CASE \/ k = "dns" /\ reconcileHealthChecks
            \/ k = "tls" /\ reconcileGatewayCertificates
  <2>1. rc' = rc \/ Goto(k, "claim")
    BY <1>13 DEF reconcileHealthChecks, reconcileGatewayCertificates
  <2> QED
    BY <1>2, <1>3, <2>1 DEF Early, Stages
<1>14. CASE ReconcileTargetBackReference(k)
  <2>1. R.target \in Gateways /\ R.p \in Policies /\ Kind(R.p) = k
    BY <1>0, <1>14 DEF ReconcileTargetBackReference, Inv, WorkerInv, PolicyHeld
  <2>2. Goto(k, "refs") \/ Abort(k) \/ WriteBack(k, R.p, "refs")
    BY <1>14 DEF ReconcileTargetBackReference
  <2> QED
    BY <1>3, <1>4, <1>7, <2>1, <2>2 DEF Early, Stages
<1>15. CASE DeleteTargetBackReference(k)
  <2>1. R.target # "none" => R.target \in Gateways
    BY <1>0 DEF Reconciling
  <2>2. PICK c \in {"refs", "rediff"} : Goto(k, c) \/ (R.target # "none" /\ WriteBack(k, "none", c))
    BY <1>15 DEF DeleteTargetBackReference, AfterClaim
  <2> QED
    BY <1>3, <1>7, <2>1, <2>2 DEF Early, Stages
<1>16. CASE ReconcileGatewayPolicyReferences(k)
  <2>1. Goto(k, "condition") \/ \E g \in R.own \cup R.inv : \E r : WriteListed(k, g, r)
    BY <1>16 DEF ReconcileGatewayPolicyReferences, ToLeave
  <2> QED
    BY <1>3, <1>6, <2>1 DEF Early, Stages
<1>17. CASE updateGatewayCondition(k)
  <2>1. \/ \E c \in {"status", "remove"} : Goto(k, c) /\ (c = "status" => R.mode = "apply")
        \/ R.mode = "cleanup" /\ Return(k, k = "tls")
        \/ \E g \in R.own \cup R.inv : \E r : WriteListed(k, g, r)
    BY <1>17 DEF updateGatewayCondition
  <2> QED
    BY <1>3, <1>5, <1>6, <2>1 DEF Early, Stages
<1>18. CASE updateStatus(k)
  <2>1. R.mode = "apply" /\ \E again : Return(k, again)
    BY <1>18 DEF updateStatus, StageInv
  <2> QED
    BY <1>5, <2>1
<1>19. CASE RemoveFinalizer(k)
  BY <1>5, <1>19 DEF RemoveFinalizer
<1> QED
  BY <1>8, <1>9, <1>10, <1>11, <1>12, <1>13, <1>14, <1>15, <1>16, <1>17, <1>18, <1>19 DEF Work

\* A change made by users, clusters or zones leaves the workers where they are.
LEMMA EditWork ==
  ASSUME Inv, Edits, NEW k \in Kinds
  PROVE  SameWork(k)
<1>1. CASE UNCHANGED rc
  BY <1>1 DEF SameWork
<1>2. ASSUME NEW p \in Policies, NEW q, ChangePolicy(p, q)
      PROVE  SameWork(k)
  <2>1. rc[k] \in Reconciling
    BY DEF Inv, Typed
  <2>2. rc'[k] = [rc[k] EXCEPT !.pfresh = @ /\ rc[k].p # p]
    BY <1>2 DEF ChangePolicy
  <2> QED
    BY <2>1, <2>2, SMTT(30) DEF SameWork, Reconciling
<1>3. ASSUME NEW g \in Gateways, NEW r, ChangeGateway(g, r)
      PROVE  SameWork(k)
  BY <1>3, OutdatedWork DEF ChangeGateway, Inv
<1>4. ASSUME NEW p \in Policies,
             \/ \E h \in Gateways : CreatePolicy(p, h) \/ Retarget(p, h)
             \/ DeletePolicy(p) \/ ChangeHealthCheck(p) \/ ChangeValidity(p)
      PROVE  SameWork(k)
  BY <1>1, <1>2, <1>4 DEF CreatePolicy, Retarget, DeletePolicy, ChangeHealthCheck, ChangeValidity
<1>5. ASSUME NEW h \in Gateways,
             DeleteGateway(h) \/ CreateGateway(h) \/ ChangeListeners(h) \/ ChangeRoutes(h) \/ ChangeReady(h)
      PROVE  SameWork(k)
  BY <1>3, <1>5 DEF DeleteGateway, CreateGateway, ChangeListeners, ChangeRoutes, ChangeReady
<1>6. ASSUME NEW h \in Gateways, ChangeCluster(h)
      PROVE  SameWork(k)
  BY <1>1, <1>6 DEF ChangeCluster
<1>7. CASE AddZone
  BY <1>1, <1>7 DEF AddZone
<1> QED
  BY <1>4, <1>5, <1>6, <1>7 DEF Edits

\* How a worker goes on, whoever takes the step.
LEMMA StepMoves ==
  ASSUME Inv, [Next]_vars, NEW k \in Kinds, StageInv(k)
  PROVE  Moves(k)
<1>1. ASSUME SameWork(k)
      PROVE  Moves(k)
  BY <1>1 DEF SameWork, Moves, StageInv
<1>2. ASSUME rc'[k] = rc[k]
      PROVE  Moves(k)
  BY <1>1, <1>2 DEF SameWork
<1>3. ASSUME NEW p \in Policies, p \in queued, pol[p].phase # "absent", rc[Kind(p)].pc = "idle",
             NEW t \in Gateways \cup {"none"}, Begin(Kind(p), p, t)
      PROVE  Moves(k)
  <2>1. CASE Kind(p) = k
    BY <1>3, <2>1, BeginFields, SMTT(30) DEF Moves
  <2>2. CASE Kind(p) # k
    BY <1>2, <1>3, <2>2, KindOfPolicy DEF Begin, Inv, Typed
  <2> QED
    BY <2>1, <2>2
<1>4. ASSUME NEW p \in Policies, Start(Kind(p), p) \/ TargetUnread(Kind(p), p)
      PROVE  Moves(k)
  <2>1. CASE UNCHANGED rc
    BY <1>2, <2>1
  <2>2. pol[p].phase # "absent" => pol[p].target \in Gateways \cup {"none"}
    BY DEF Inv, ObjectInv
  <2>3. UNCHANGED rc \/ /\ p \in queued /\ pol[p].phase # "absent" /\ rc[Kind(p)].pc = "idle"
                        /\ Begin(Kind(p), p, pol[p].target) \/ Begin(Kind(p), p, "none")
    BY <1>4 DEF Start, TargetUnread
  <2>4. "none" \in Gateways \cup {"none"}
    OBVIOUS
  <2> QED
    BY <1>3, <2>1, <2>2, <2>3, <2>4
<1>5. ASSUME NEW j \in Kinds, Work(j)
      PROVE  Moves(k)
  BY <1>1, <1>5, OtherWork, WorkMoves
<1>6. ASSUME NEW j \in Kinds, CallFails(j)
      PROVE  Moves(k)
  <2>1. Typed /\ Abort(j) /\ rc[j].pc # "idle"
    BY <1>6 DEF CallFails, Inv
  <2> QED
    BY <1>2, <2>1, AbortOther, AbortMoves
<1>7. CASE RoutesUnread
  <2>1. rc["dns"].pc = "listeners" /\ Goto("dns", "probes") /\ "dns" \in Kinds /\ "probes" \in Stages
    BY <1>7 DEF RoutesUnread, EndAtUnrouted, Kinds, Stages
  <2>2. CASE k = "dns"
    BY <2>1, <2>2, GotoFields, SMTT(30) DEF Moves, Early, Inv
  <2>3. CASE k # "dns"
    BY <1>2, <2>1, <2>3 DEF Goto, Inv, Typed
  <2> QED
    BY <2>2, <2>3
<1>8. CASE Restart
  <2>1. rc'[k].pc = "idle" /\ \A p \in Policies : pol'[p].phase # "absent" => p \in queued'
    BY <1>8 DEF Restart, Idle
  <2>2. rc[k].pc # "idle" => rc[k].p \in Policies
    BY WorkersPolicy
  <2> QED
    BY <2>1, <2>2 DEF Moves
<1>9. CASE UNCHANGED vars
  BY <1>2, <1>9 DEF vars
<1> QED
  BY <1>1, <1>4, <1>5, <1>6, <1>7, <1>8, <1>9, EditWork DEF Next, Faults

\* The stage invariant is inductive.
LEMMA StageKept ==
  ASSUME NEW k \in Kinds, StageInv(k), Moves(k)
  PROVE  StageInv(k)'
BY DEF StageInv, Moves, Early

\* The crew is chosen once.
LEMMA CrewStays ==
  ASSUME [Next]_vars
  PROVE  crew' = crew
<1>1. ASSUME NEW k \in Kinds, Work(k)
      PROVE  crew' = crew
  BY <1>1 DEF Work, AddFinalizer, ComputeGatewayDiffs, deleteResources, reconcileGatewayDNSRecords,
    reconcileHealthChecks, reconcileGatewayCertificates, ReconcileTargetBackReference, DeleteTargetBackReference,
    RecomputeGatewayDiffs, ReconcileGatewayPolicyReferences, updateGatewayCondition, updateStatus, RemoveFinalizer
<1>2. CASE Faults
  BY <1>2 DEF Faults, Fault, CallFails, RoutesUnread, TargetUnread, Restart
<1>3. CASE Edits
  BY <1>3 DEF Edits, Edit, CreatePolicy, Retarget, DeletePolicy, ChangeHealthCheck, ChangeValidity,
    DeleteGateway, CreateGateway, ChangeListeners, ChangeRoutes, ChangeReady, ChangeCluster, AddZone
<1> QED
  BY <1>1, <1>2, <1>3 DEF Next, vars, Start

\* Only policies in play are ever there, queued, referred to or reconciled.
LEMMA CrewKept ==
  ASSUME Inv, Inv', CrewInv, [Next]_vars, \A k \in Kinds : Moves(k)
  PROVE  CrewInv'
<1>1. InPlay' = InPlay
  BY CrewStays DEF InPlay
<1>2. queued' \subseteq InPlay
  BY QueueKept
<1>3. \A p \in Policies : pol'[p].phase # "absent" => p \in InPlay
  BY PoliciesInPlay
<1>4. \A g \in Gateways : gw'[g].refs \subseteq InPlay
  BY RefsInPlay
<1>5. \A k \in Kinds : rc'[k].pc # "idle" => rc'[k].p \in InPlay
  BY DEF Moves, CrewInv
<1> QED
  BY <1>1, <1>2, <1>3, <1>4, <1>5 DEF CrewInv

\* What the types rest on, and all that follows: the invariant of the marks, the owners, the crew and the stages.
WorkInv == Inv /\ Owners /\ CrewInv /\ \A k \in Kinds : StageInv(k)

\* It holds at first.
LEMMA InitWork ==
  ASSUME Init
  PROVE  WorkInv
<1>1. Inv
  BY InitInv
<1>2. NoResource.policy = "none" /\ Idle.pc = "idle"
  BY DEF NoResource, Idle
<1>3. Owners
  BY <1>2 DEF Init, Owners
<1>4. \A k \in Kinds : rc[k].pc = "idle"
  BY <1>2 DEF Init
<1>5. \A p \in Policies : pol[p].phase # "absent" => p \in InPlay
  <2>1. Absent.phase = "absent"
    BY DEF Absent
  <2> QED
    BY <2>1 DEF Init, InPlay
<1>6. queued \subseteq InPlay
  BY <1>5 DEF Init
<1>7. \A g \in Gateways : gw[g].refs = {}
  BY DEF Init, NewGateway
<1>8. CrewInv
  BY <1>4, <1>5, <1>6, <1>7 DEF CrewInv
<1> QED
  BY <1>1, <1>3, <1>4, <1>8 DEF WorkInv, StageInv, Early

\* Every step keeps it.
LEMMA WorkKept ==
  ASSUME WorkInv, [Next]_vars
  PROVE  WorkInv'
<1>1. Inv'
  BY NextKeepsInv DEF WorkInv
<1>2. Owners'
  BY OwnersKept DEF WorkInv
<1>3. \A k \in Kinds : Moves(k)
  BY StepMoves DEF WorkInv
<1>4. CrewInv'
  BY <1>1, <1>3, CrewKept DEF WorkInv
<1>5. \A k \in Kinds : StageInv(k)'
  BY <1>3, StageKept DEF WorkInv
<1> QED
  BY <1>1, <1>2, <1>4, <1>5 DEF WorkInv

\* TypeOK holds for every number of gateways, policies and listeners: each controller claims gateways, and
\* owns objects, of its own kind only, and the record loop stays within the listeners.
THEOREM TypeCorrect ==
  Spec => []TypeOK
<1>1. Init => WorkInv
  BY InitWork
<1>2. WorkInv /\ [Next]_vars => WorkInv'
  BY WorkKept
<1>3. WorkInv => TypeOK
  <2>1. SUFFICES ASSUME WorkInv
                 PROVE  TypeOK
    OBVIOUS
  <2>2. /\ \A g \in Gateways : gw[g].refs \subseteq Policies /\ gw[g].back \in Backs
        /\ \A k \in Kinds : rc[k].pc \in Stages /\ rc[k].i \in Places
    BY <2>1 DEF WorkInv, Inv, Typed, GatewayObject, Reconciling
  <2>3. ASSUME NEW f \in Backs, NEW k \in Kinds
        PROVE  f[k] \in {p \in Policies : Kind(p) = k} \cup {"none"}
    BY DEF Backs
  <2>4. queued \subseteq Policies
    BY <2>1 DEF WorkInv, CrewInv, InPlay
  <2> QED
    BY <2>1, <2>2, <2>3, <2>4 DEF TypeOK, WorkInv, Owners, Places
<1> QED
  BY <1>1, <1>2, <1>3, PTL DEF Spec

=============================================================================
