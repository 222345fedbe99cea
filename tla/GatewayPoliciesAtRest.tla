----------------------- MODULE GatewayPoliciesAtRest ------------------------
(***************************************************************************)
(* Once the controllers of GatewayPolicies are at rest, every policy that  *)
(* is alone of its kind is in force, for every set of gateways, policies   *)
(* and listeners; and the zone of a host is the closest one.               *)
(***************************************************************************)
EXTENDS GatewayPoliciesProofs

\* A leaf goes to Zenon, then to SMT, unless it names its prover.
USE Zenon, SMTT(30)

-----------------------------------------------------------------------------
(* At rest *)

\* What no step changes of a policy without queueing it.
SamePolicy(p) ==
  /\ pol'[p].phase = pol[p].phase /\ pol'[p].target = pol[p].target
  /\ pol'[p].health = pol[p].health /\ pol'[p].ready = pol[p].ready

\* A step that leaves p out of the queue has not changed it.
LEMMA PolicyStep ==
  ASSUME Inv, [Next]_vars, NEW p \in Policies, p \notin queued'
  PROVE  SamePolicy(p)
<1>1. CASE UNCHANGED pol
  BY <1>1 DEF SamePolicy
<1>2. ASSUME NEW q \in Policies, NEW o, pol' = [pol EXCEPT ![q] = o], q \in queued'
      PROVE  SamePolicy(p)
  BY <1>2 DEF SamePolicy, Inv, Typed
<1>3. ASSUME NEW q \in Policies, NEW b, \/ pol' = [pol EXCEPT ![q].ghost = b]
                                       \/ pol' = [pol EXCEPT ![q].valid = b]
      PROVE  SamePolicy(p)
  <2>1. pol \in [Policies -> PolicyObject]
    BY DEF Inv, Typed
  <2> QED
    BY <1>3, <2>1, SMTT(30) DEF SamePolicy, PolicyObject
<1>4. ASSUME NEW k \in Kinds, Work(k)
      PROVE  SamePolicy(p)
  <2>1. CASE AddFinalizer(k)
    <3>1. rc[k].p \in Policies
      BY <2>1, WorkersPolicy DEF AddFinalizer
    <3>2. \/ pol' = [pol EXCEPT ![rc[k].p].finalizer = TRUE] /\ rc[k].p \in queued'
          \/ UNCHANGED pol
          \/ pol' = [pol EXCEPT ![rc[k].p].ghost = TRUE]
      BY <2>1 DEF AddFinalizer
    <3> QED
      BY <1>1, <1>2, <1>3, <3>1, <3>2
  <2>2. CASE updateStatus(k) \/ RemoveFinalizer(k)
    <3>1. rc[k].p \in Policies
      BY <2>2, WorkersPolicy DEF updateStatus, RemoveFinalizer
    <3>2. UNCHANGED pol \/ (rc[k].p \in queued' /\ \E o : pol' = [pol EXCEPT ![rc[k].p] = o])
      BY <2>2 DEF updateStatus, RemoveFinalizer, Return
    <3> QED
      BY <1>1, <1>2, <3>1, <3>2
  <2> QED
    BY <1>1, <1>4, <2>1, <2>2 DEF Work, ComputeGatewayDiffs, deleteResources, reconcileGatewayDNSRecords,
      reconcileHealthChecks, reconcileGatewayCertificates, ReconcileTargetBackReference,
      DeleteTargetBackReference, RecomputeGatewayDiffs, ReconcileGatewayPolicyReferences, updateGatewayCondition
<1>5. ASSUME NEW q \in Policies,
             \/ \E h \in Gateways : CreatePolicy(q, h) \/ Retarget(q, h)
             \/ DeletePolicy(q) \/ ChangeHealthCheck(q) \/ ChangeValidity(q)
      PROVE  SamePolicy(p)
  <2>1. ASSUME NEW o, ChangePolicy(q, o)
        PROVE  SamePolicy(p)
    BY <1>2, <2>1 DEF ChangePolicy
  <2>2. (\E o : ChangePolicy(q, o)) \/ \E b : pol' = [pol EXCEPT ![q].valid = b]
    BY <1>5 DEF CreatePolicy, Retarget, DeletePolicy, ChangeHealthCheck, ChangeValidity
  <2> QED
    BY <1>3, <2>1, <2>2
<1> QED
  BY <1>1, <1>4, <1>5 DEF Next, vars, Start, Faults, CallFails, RoutesUnread, TargetUnread, Restart, Edits,
    DeleteGateway, CreateGateway, ChangeListeners, ChangeRoutes, ChangeReady, ChangeGateway, ChangeCluster, AddZone

\* A policy leaves the queue only when a worker takes it, or with a restart.
LEMMA QueueGrows ==
  ASSUME (\E k \in Kinds : Work(k) \/ CallFails(k)) \/ RoutesUnread \/ Edits
  PROVE  queued \subseteq queued'
<1>1. CASE queued' = queued
  BY <1>1
<1>2. ASSUME NEW X, queued' = queued \cup X
      PROVE  queued \subseteq queued'
  BY <1>2
<1>3. ASSUME NEW k \in Kinds, Abort(k) \/ \E b : Return(k, b)
      PROVE  queued \subseteq queued'
  BY <1>1, <1>2, <1>3 DEF Abort, Return
<1>4. ASSUME NEW k \in Kinds, (\E g, r : WriteListed(k, g, r)) \/ \E b, c : WriteBack(k, b, c)
      PROVE  queued \subseteq queued'
  BY <1>2, <1>3, <1>4 DEF WriteListed, WriteBack
<1>5. ASSUME NEW k \in Kinds, Work(k)
      PROVE  queued \subseteq queued'
  <2>1. CASE AddFinalizer(k) \/ ComputeGatewayDiffs(k) \/ deleteResources(k) \/ RecomputeGatewayDiffs(k)
    BY <1>1, <1>2, <1>3, <2>1 DEF AddFinalizer, ComputeGatewayDiffs, deleteResources, RecomputeGatewayDiffs
  <2>2. CASE reconcileHealthChecks \/ reconcileGatewayCertificates
    BY <1>1, <1>2, <2>2 DEF reconcileHealthChecks, reconcileGatewayCertificates
  <2>3. CASE reconcileGatewayDNSRecords
    <3>1. "dns" \in Kinds
      BY DEF Kinds
    <3> QED
      BY <1>1, <1>3, <2>3, <3>1 DEF reconcileGatewayDNSRecords, reconcileListener, EndAtUnrouted
  <2>4. CASE \/ ReconcileTargetBackReference(k) \/ DeleteTargetBackReference(k)
             \/ ReconcileGatewayPolicyReferences(k)
    BY <1>1, <1>3, <1>4, <2>4 DEF ReconcileTargetBackReference, DeleteTargetBackReference,
      ReconcileGatewayPolicyReferences
  <2>5. CASE updateGatewayCondition(k) \/ updateStatus(k) \/ RemoveFinalizer(k)
    BY <1>1, <1>3, <1>4, <2>5 DEF updateGatewayCondition, updateStatus, RemoveFinalizer
  <2> QED
    BY <1>5, <2>1, <2>2, <2>3, <2>4, <2>5 DEF Work
<1>6. CASE RoutesUnread \/ \E k \in Kinds : CallFails(k)
  BY <1>1, <1>3, <1>6 DEF RoutesUnread, EndAtUnrouted, CallFails
<1>7. CASE Edits
  BY <1>1, <1>2, <1>7 DEF Edits, CreatePolicy, Retarget, DeletePolicy, ChangeHealthCheck, ChangeValidity,
    ChangePolicy, DeleteGateway, CreateGateway, ChangeListeners, ChangeRoutes, ChangeReady, ChangeGateway,
    ChangeCluster, AddZone
<1> QED
  BY <1>5, <1>6, <1>7

\* A policy leaves the queue when its worker sets out with it, or at a restart.
LEMMA Dequeued ==
  ASSUME Inv, [Next]_vars, NEW p \in queued, p \in Policies, p \notin queued'
  PROVE  Start(Kind(p), p) \/ TargetUnread(Kind(p), p) \/ Restart
<1>1. ASSUME NEW q \in Policies, Start(Kind(q), q) \/ TargetUnread(Kind(q), q)
      PROVE  q = p
  BY <1>1 DEF Start, TargetUnread, Begin
<1> QED
  BY <1>1, QueueGrows DEF Next, Faults, vars

\* The worker of p's kind has p in hand.
Busy(p) == rc[Kind(p)].pc # "idle" /\ rc[Kind(p)].p = p

\* A deletion that is not queued is under way.
Pending(p) ==
  pol[p].phase = "deleting" /\ p \notin queued => Busy(p) /\ rc[Kind(p)].mode = "delete"

\* A deletion that is under way stays queued or in the hands of the worker.
LEMMA PendingKept ==
  ASSUME Inv, [Next]_vars, NEW p \in Policies, Pending(p), Moves(Kind(p))
  PROVE  Pending(p)'
<1>1. SUFFICES ASSUME pol'[p].phase = "deleting", p \notin queued'
               PROVE  (Busy(p) /\ rc[Kind(p)].mode = "delete")'
  BY DEF Pending
<1>2. pol[p].phase = "deleting" /\ pol[p].target \in Gateways \cup {"none"} /\ Kind(p) \in Kinds
  BY <1>1, PolicyStep, KindOfPolicy DEF SamePolicy, Inv, ObjectInv
<1>3. CASE p \notin queued
  <2>1. Busy(p) /\ rc[Kind(p)].mode = "delete"
    BY <1>2, <1>3 DEF Pending
  <2> QED
    BY <1>1, <2>1 DEF Moves, Busy
<1>4. CASE p \in queued
  <2>1. ~Restart
    BY <1>1 DEF Restart
  <2>2. \E t \in Gateways \cup {"none"} : Begin(Kind(p), p, t)
    <3>1. Start(Kind(p), p) \/ TargetUnread(Kind(p), p)
      BY <1>1, <1>4, <2>1, Dequeued
    <3>2. Begin(Kind(p), p, pol[p].target) \/ Begin(Kind(p), p, "none")
      BY <1>2, <3>1 DEF Start, TargetUnread
    <3>3. "none" \in Gateways \cup {"none"}
      OBVIOUS
    <3> QED
      BY <1>2, <3>2, <3>3
  <2> QED
    BY <1>2, <2>2, BeginFields, SMTT(30) DEF Busy
<1> QED
  BY <1>3, <1>4

\* What is done on the target of p: the deletions, the records of the listeners the loop has passed, all
\* records or certificates, and the probes.
Tidy(p) ==
  LET g == pol[p].target
  IN IF Kind(p) = "dns" THEN RecordsCleared(g) ELSE CertificatesCleared(p, g)
Walked(p) ==
  LET g == pol[p].target
  IN \A j \in 1..(rc[Kind(p)].i - 1) :
       Listeners[j] \in gw[g].listeners => Listeners[j] \in gw[g].routes /\ RecordApplied(p, g, Listeners[j])
Made(p) ==
  LET g == pol[p].target
  IN IF Kind(p) = "dns" THEN \A l \in Reached(g) : RecordApplied(p, g, l) ELSE CertificatesApplied(p, g)
Probed(p) == Kind(p) = "dns" => ProbesApplied(p, pol[p].target)

\* The stages a reconcile has passed are done.
DoneSoFar(p) ==
  LET c == rc[Kind(p)].pc
  IN /\ c # "delete" => Tidy(p)
     /\ c = "listeners" /\ Kind(p) = "dns" => Walked(p)
     /\ c \notin {"delete", "listeners"} => Made(p)
     /\ c \notin {"delete", "listeners", "probes"} => Probed(p)

\* The worker that applies p knows p and the claim on its target.
Aligned(p) ==
  LET R == rc[Kind(p)]
      g == pol[p].target
  IN /\ R.target = g /\ gw[g].back[Kind(p)] = R.back
     /\ R.copy.health = pol[p].health /\ R.copy.ready = pol[p].ready

\* It has listed the target and all gateways that refer to p; the target, when it refers to p, has not changed
\* since, and what is done there still is; at the end, the gateways to leave are left, and the target has the
\* claim, the reference and the condition.
Gathered(p) ==
  LET R == rc[Kind(p)]
      g == pol[p].target
  IN /\ R.own = {g}
     /\ \A h \in Gateways \ {g} : p \in gw[h].refs => h \in R.inv /\ p \in R.gws[h].refs
     /\ p \in R.gws[g].refs => g \in R.fresh /\ DoneSoFar(p)
     /\ R.pc \in {"condition", "status"} =>
          (\A h \in R.inv : p \notin R.gws[h].refs) /\ R.back = p /\ p \in R.gws[g].refs
     /\ R.pc = "status" => gw[g].cond[Kind(p)] = [policy |-> p, reason |-> "Accepted"]

\* A reconcile under way brings p into force, or fails and is called again.
Underway(p) ==
  LET R == rc[Kind(p)]
  IN /\ R.mode = "cleanup" => Kind(p) = "tls"
     /\ R.mode = "apply" /\ R.err = "none" => Aligned(p) /\ (R.pc \notin {"finalizer", "diff"} => Gathered(p))

\* A TLSPolicy without its gateway is reconciled over and over, so that no event has to bring it back.
Waiting(p) ==
  LET g == pol[p].target
  IN pol[p].phase = "live" /\ Kind(p) = "tls" /\ ~gw[g].exists /\ ~gw[g].raced

\* A policy alone of its kind that is not queued is in force or on its way.
Cared(p) ==
  ~Contested(p) /\ p \notin queued =>
    /\ Waiting(p) => Busy(p) /\ rc[Kind(p)].mode = "cleanup"
    /\ Due(p) => IF Busy(p) THEN Underway(p) ELSE InForce(p)

RestInv == WorkInv /\ \A p \in Policies : Pending(p) /\ Cared(p)

\* The objects of the kind of p for gateway g, and the clusters it is placed on, are as before.
SameObjects(p, g) ==
  IF Kind(p) = "dns"
  THEN /\ \A l \in ListenerSet : res'[g][l] = res[g][l] /\ probes'[g][l] = probes[g][l]
       /\ attrs'[g] = attrs[g]
  ELSE \A n \in Secrets : res'[g][n] = res[g][n]

\* What is done stays done while the policy, the gateway and the objects stay.
LEMMA DoneKept ==
  ASSUME Typed, NEW p \in Policies, pol[p].target \in Gateways, SamePolicy(p),
         gw'[pol[p].target] = gw[pol[p].target], SameObjects(p, pol[p].target)
  PROVE  /\ Tidy(p) => Tidy(p)'
         /\ Walked(p) /\ Kind(p) = "dns" /\ rc'[Kind(p)].i = rc[Kind(p)].i => Walked(p)'
         /\ Made(p) => Made(p)'
         /\ Probed(p) => Probed(p)'
<1>1. PICK g : g = pol[p].target /\ g = pol'[p].target
  BY DEF SamePolicy
<1>2. gw'[g] = gw[g] /\ pol'[p].health = pol[p].health
  BY <1>1 DEF SamePolicy
<1>3. Reached(g)' = Reached(g) /\ Reached(g) \subseteq ListenerSet
  BY <1>2 DEF Reached, ListenerSet
<1>4. Tidy(p) => Tidy(p)'
  BY <1>1, <1>2, SMTT(30)
    DEF Tidy, RecordsCleared, CertificatesCleared, SameObjects, expectedCertificates, HostsOf
<1>5. ASSUME Kind(p) = "dns", NEW l \in ListenerSet, RecordApplied(p, g, l)
      PROVE  RecordApplied(p, g, l)'
  BY <1>1, <1>5, SMTT(30) DEF RecordApplied, SameObjects
<1>6. Walked(p) /\ Kind(p) = "dns" /\ rc'[Kind(p)].i = rc[Kind(p)].i => Walked(p)'
  <2>1. gw[g].listeners \subseteq ListenerSet
    BY <1>1 DEF Typed, GatewayObject
  <2>2. SUFFICES ASSUME Walked(p), Kind(p) = "dns", rc'[Kind(p)].i = rc[Kind(p)].i,
                        NEW j \in 1..(rc[Kind(p)].i - 1), Listeners[j] \in gw[g].listeners
                 PROVE  Listeners[j] \in gw[g].routes /\ RecordApplied(p, g, Listeners[j])'
    BY <1>1, <1>2 DEF Walked, RecordApplied
  <2>3. Listeners[j] \in gw[g].routes /\ RecordApplied(p, g, Listeners[j])
    BY <1>1, <2>2 DEF Walked
  <2>4. Listeners[j] \in ListenerSet
    BY <2>1, <2>2
  <2> QED
    BY <1>5, <2>2, <2>3, <2>4
<1>7. Made(p) => Made(p)'
  <2>1. CASE Kind(p) = "dns"
    BY <1>1, <1>3, <1>5, <2>1 DEF Made
  <2>2. CASE Kind(p) # "dns"
    BY <1>1, <1>2, <2>2, SMTT(30)
      DEF Made, CertificatesApplied, SameObjects, expectedCertificates, HostsOf
  <2> QED
    BY <2>1, <2>2
<1>8. Probed(p) => Probed(p)'
  BY <1>1, <1>2, SMTT(30) DEF Probed, ProbesApplied, SameObjects, expectedProbes
<1> QED
  BY <1>4, <1>6, <1>7, <1>8

\* The marks of a policy in force.
Marked(p) ==
  LET g == pol[p].target
  IN /\ gw[g].back[Kind(p)] = p
     /\ \A h \in Gateways : p \in gw[h].refs <=> h = g
     /\ gw[g].cond[Kind(p)] = [policy |-> p, reason |-> "Accepted"]
     /\ pol[p].ready = "ok"

\* A policy is in force when its marks and its objects are as they should be.
LEMMA ForceIs ==
  ASSUME NEW p \in Policies
  PROVE  /\ InForce(p) <=> Marked(p) /\ Tidy(p) /\ Made(p) /\ Probed(p)
         /\ InForce(p)' <=> Marked(p)' /\ Tidy(p)' /\ Made(p)' /\ Probed(p)'
<1>1. CASE Kind(p) = "dns"
  BY <1>1 DEF InForce, Marked, AppliedResources, Tidy, Made, Probed
<1>2. CASE Kind(p) # "dns"
  BY <1>2 DEF InForce, Marked, AppliedResources, Tidy, Made, Probed
<1> QED
  BY <1>1, <1>2

\* A step of others, to p: the worker of its kind goes on as it was, a gateway that is written does not refer
\* to p, p is left with the gateway and the claim it had, and the objects on a gateway that refers to it stay.
Apart(p) ==
  LET k == Kind(p)
      g == pol[p].target
  IN /\ SameWork(k)
     /\ \A h \in Gateways : \/ gw'[h] = gw[h] /\ (h \in rc[k].fresh => h \in rc'[k].fresh)
                            \/ p \notin gw[h].refs /\ p \notin gw'[h].refs
     /\ Due(p)' => Due(p) /\ gw'[g].back[k] = gw[g].back[k]
     /\ Waiting(p)' => Waiting(p)
     /\ g \in Gateways /\ p \in gw[g].refs => SameObjects(p, g)

\* Such a step does not take p out of care.
LEMMA ApartKeeps ==
  ASSUME WorkInv, [Next]_vars, NEW p \in Policies, Cared(p), p \notin queued, p \notin queued', Apart(p)
  PROVE  Cared(p)'
<1> DEFINE k == Kind(p)
           R == rc[k]
           S == rc'[k]
<1>0. SamePolicy(p) /\ crew' = crew /\ Inv /\ k \in Kinds
  BY PolicyStep, CrewStays, KindOfPolicy DEF WorkInv
<1>1. SUFFICES ASSUME ~Contested(p)
               PROVE  /\ Waiting(p)' => Busy(p)' /\ S.mode = "cleanup"
                      /\ Due(p)' => IF Busy(p)' THEN Underway(p)' ELSE InForce(p)'
  BY <1>0 DEF Cared, Contested
<1>2. SameWork(k)
  BY DEF Apart
<1>3. (Busy(p)' <=> Busy(p)) /\ S.mode = R.mode
  BY <1>2 DEF Busy, SameWork
<1>4. Waiting(p)' => Busy(p)' /\ S.mode = "cleanup"
  BY <1>1, <1>3 DEF Apart, Cared
<1>5. ASSUME Due(p)'
      PROVE  IF Busy(p)' THEN Underway(p)' ELSE InForce(p)'
  <2>0. PICK g : g = pol[p].target /\ g = pol'[p].target
    BY <1>0 DEF SamePolicy
  <2>1. Due(p) /\ gw'[g].back[k] = gw[g].back[k]
    BY <1>5, <2>0 DEF Apart
  <2>2. g \in Gateways
    BY <1>0, <2>0, <2>1 DEF Due, Inv, ObjectInv
  <2>3. ASSUME p \in gw[g].refs
        PROVE  /\ gw'[g] = gw[g] /\ (g \in R.fresh => g \in S.fresh)
               /\ Tidy(p) => Tidy(p)'
               /\ Walked(p) /\ k = "dns" => Walked(p)'
               /\ Made(p) => Made(p)'
               /\ Probed(p) => Probed(p)'
    <3>1. gw'[g] = gw[g] /\ (g \in R.fresh => g \in S.fresh) /\ SameObjects(p, g)
      BY <2>0, <2>2, <2>3 DEF Apart
    <3>2. S.i = R.i /\ Typed
      BY <1>0, <1>2 DEF SameWork, Inv
    <3> QED
      BY <1>0, <2>0, <2>2, <3>1, <3>2, DoneKept
  <2>4. ASSUME Busy(p), Underway(p)
        PROVE  Underway(p)'
    <3>1. SUFFICES ASSUME R.mode = "apply", R.err = "none"
                   PROVE  Aligned(p)' /\ (R.pc \notin {"finalizer", "diff"} => Gathered(p)')
      BY <1>2, <2>4 DEF Underway, SameWork
    <3>2. Aligned(p)'
      <4>1. Aligned(p)
        BY <2>4, <3>1 DEF Underway
      <4> QED
        BY <1>0, <1>2, <2>0, <2>1, <4>1 DEF Aligned, SameWork, SamePolicy
    <3>3. ASSUME R.pc \notin {"finalizer", "diff"}
          PROVE  Gathered(p)'
      <4>1. Gathered(p)
        BY <2>4, <3>1, <3>3 DEF Underway
      <4>2. R.own = {g} /\ \A h \in Gateways \ {g} : p \in gw[h].refs => h \in R.inv /\ p \in R.gws[h].refs
        BY <2>0, <4>1 DEF Gathered
      <4>3. \A h \in Gateways \ {g} : p \in gw'[h].refs => h \in S.inv /\ p \in S.gws[h].refs
        <5>1. \A h \in Gateways : p \in gw'[h].refs => p \in gw[h].refs
          BY DEF Apart
        <5> QED
          BY <1>2, <4>2, <5>1 DEF SameWork
      <4>4. p \in R.gws[g].refs => g \in R.fresh /\ DoneSoFar(p) /\ p \in gw[g].refs
        <5>1. p \in R.gws[g].refs => g \in R.fresh /\ DoneSoFar(p)
          BY <2>0, <4>1 DEF Gathered
        <5>2. g \in R.fresh => gw[g] = R.gws[g]
          <6>1. CopiesCurrent(k)
            BY <1>0 DEF Inv, WorkerInv
          <6> QED
            BY <6>1 DEF CopiesCurrent
        <5> QED
          BY <5>1, <5>2
      <4>5. p \in R.gws[g].refs => g \in S.fresh /\ DoneSoFar(p)'
        <5>1. SUFFICES ASSUME p \in R.gws[g].refs
                       PROVE  DoneSoFar(p)'
          BY <2>3, <4>4
        <5> QED
          BY <1>2, <2>3, <4>4, <5>1 DEF DoneSoFar, SameWork
      <4>6. R.pc \in {"condition", "status"} =>
              (\A h \in R.inv : p \notin R.gws[h].refs) /\ R.back = p /\ p \in R.gws[g].refs
        BY <2>0, <4>1 DEF Gathered
      <4>7. R.pc = "status" => gw'[g].cond[k] = [policy |-> p, reason |-> "Accepted"]
        <5>1. R.pc = "status" => gw[g].cond[k] = [policy |-> p, reason |-> "Accepted"]
          BY <2>0, <4>1 DEF Gathered
        <5> QED
          BY <2>3, <4>4, <4>6, <5>1
      <4> QED
        BY <1>2, <2>0, <4>2, <4>3, <4>5, <4>6, <4>7 DEF Gathered, SameWork
    <3> QED
      BY <3>2, <3>3
  <2>5. ASSUME InForce(p)
        PROVE  InForce(p)'
    <3>1. Marked(p) /\ Tidy(p) /\ Made(p) /\ Probed(p)
      BY <2>5, ForceIs
    <3>2. p \in gw[g].refs
      BY <2>0, <2>2, <3>1 DEF Marked
    <3>3. \A h \in Gateways : p \in gw'[h].refs <=> p \in gw[h].refs
      BY DEF Apart
    <3>4. Marked(p)'
      BY <1>0, <2>0, <2>3, <3>1, <3>2, <3>3 DEF Marked, SamePolicy
    <3> QED
      BY <2>3, <3>1, <3>2, <3>4, ForceIs
  <2> QED
    BY <1>1, <1>3, <2>1, <2>4, <2>5 DEF Cared
<1> QED
  BY <1>4, <1>5

\* A step that leaves the gateways and the worker of p's kind alone.
LEMMA StillApart ==
  ASSUME NEW p \in Policies, SamePolicy(p), SameWork(Kind(p)), rc'[Kind(p)].fresh = rc[Kind(p)].fresh,
         UNCHANGED gw, faults \subseteq faults',
         pol[p].target \in Gateways /\ p \in gw[pol[p].target].refs => SameObjects(p, pol[p].target)
  PROVE  Apart(p)
<1>1. (Due(p)' => Due(p)) /\ (Waiting(p)' => Waiting(p))
  BY DEF Due, Waiting, SamePolicy
<1> QED
  BY <1>1 DEF Apart

\* A gateway is written by others, without queueing p: it does not refer to p.
LEMMA WrittenApart ==
  ASSUME Inv, NEW p \in Policies, p \notin queued', NEW g \in Gateways, NEW r, gw' = [gw EXCEPT ![g] = r],
         queued' = queued \cup GatewayEvent(g, r), rc'[Kind(p)] = Outdated(g)[Kind(p)],
         UNCHANGED <<pol, attrs, res, probes, faults>>,
         g = pol[p].target =>
           /\ Due(p)' => Due(p) /\ r.back[Kind(p)] = gw[g].back[Kind(p)]
           /\ Waiting(p)' => Waiting(p)
  PROVE  Apart(p)
<1> DEFINE k == Kind(p)
<1>0. k \in Kinds /\ Typed /\ gw \in [Gateways -> GatewayObject]
  BY KindOfPolicy DEF Inv, Typed
<1>1. SameWork(k)
  BY <1>0, OutdatedWork
<1>2. gw'[g] = r /\ \A h \in Gateways : h # g => gw'[h] = gw[h]
  BY <1>0
<1>3. p \notin gw[g].refs /\ p \notin gw'[g].refs
  BY <1>2 DEF GatewayEvent
<1>4. \A h \in Gateways : h # g => (h \in rc[k].fresh => h \in rc'[k].fresh)
  <2>1. rc'[k].fresh = rc[k].fresh \ {g}
    BY <1>0, OutdatedFields, SMTT(30)
  <2> QED
    BY <2>1
<1>5. ASSUME pol[p].target \in Gateways, g # pol[p].target
      PROVE  gw'[pol[p].target] = gw[pol[p].target]
  BY <1>2, <1>5
<1>6. pol[p].phase = "live" => pol[p].target \in Gateways
  BY DEF Inv, ObjectInv
<1>7. Due(p)' => Due(p) /\ gw'[pol[p].target].back[k] = gw[pol[p].target].back[k]
  <2>1. CASE g = pol[p].target
    BY <1>2, <2>1
  <2>2. CASE g # pol[p].target /\ pol[p].target \in Gateways
    BY <1>5, <2>2 DEF Due
  <2> QED
    BY <1>6, <2>1, <2>2 DEF Due
<1>8. Waiting(p)' => Waiting(p)
  BY <1>5, <1>6 DEF Waiting
<1>9. SameObjects(p, pol[p].target)
  BY DEF SameObjects
<1> QED
  BY <1>1, <1>2, <1>3, <1>4, <1>7, <1>8, <1>9 DEF Apart

\* The names of the objects of each kind.
Names(k) == IF k = "dns" THEN ListenerSet ELSE Secrets

\* One object of the other kind is written.
LEMMA NamesWritten ==
  ASSUME Typed, NEW p \in Policies, NEW k \in Kinds, Kind(p) # k, NEW g \in Gateways,
         NEW h \in Gateways, NEW n \in Names(k), NEW o, PutResource(h, n, o), UNCHANGED <<attrs, probes>>
  PROVE  SameObjects(p, g)
<1>1. ASSUME NEW m \in ListenerSet \cup Secrets, m # n
      PROVE  res'[g][m] = res[g][m]
  BY <1>1 DEF PutResource, Typed
<1>2. Kind(p) = "dns" => k = "tls"
  BY DEF Kinds
<1>3. Kind(p) # "dns" => k = "dns"
  BY DEF Kinds, Kind
<1> QED
  BY <1>1, <1>2, <1>3, NamesApart DEF Names, SameObjects

\* The other worker writes objects of its own kind.
LEMMA ObjectsApart ==
  ASSUME WorkInv, NEW k \in Kinds, Work(k), NEW p \in Policies, Kind(p) # k, NEW g \in Gateways
  PROVE  SameObjects(p, g)
<1>0. /\ Typed /\ Inv /\ Owners /\ "dns" \in Kinds /\ "tls" \in Kinds
      /\ rc[k].own \subseteq Gateways /\ rc[k].inv \subseteq Gateways
  BY DEF WorkInv, Inv, Typed, Reconciling, Kinds
<1>1. CASE UNCHANGED <<res, probes, attrs>>
  BY <1>1 DEF SameObjects
<1>2. ASSUME NEW h \in Gateways, NEW n \in Names(k), DeleteResource(h, n), UNCHANGED <<attrs, probes>>
      PROVE  SameObjects(p, g)
  BY <1>0, <1>2, NamesWritten DEF DeleteResource, PutResource
<1>3. CASE deleteResources(k)
  <2>1. UNCHANGED <<attrs, probes>> /\ rc[k].pc # "idle"
    BY <1>3 DEF deleteResources
  <2>2. CASE \E x \in Left(k) : DeleteResource(x[1], x[2])
    <3>1. PICK h \in rc[k].inv, n \in ListenerSet \cup Secrets : DeleteResource(h, n) /\ res[h][n].policy = rc[k].p
      BY <2>2 DEF Left
    <3>2. n \in Names(k)
      <4>1. rc[k].p \in Policies /\ (k = "dns" => rc[k].p \in DNSPolicies) /\ (k = "tls" => rc[k].p \in TLSPolicies)
        BY <1>0, <2>1, WorkersPolicy
      <4>2. /\ n \in ListenerSet => res[h][n].policy \in DNSPolicies \cup {"none"}
            /\ n \in Secrets => res[h][n].policy \in TLSPolicies \cup {"none"}
        BY <1>0 DEF Owners
      <4> QED
        BY <3>1, <4>1, <4>2, PolicyConstants, KindOfPolicy DEF Names, Kinds
    <3> QED
      BY <1>0, <1>2, <2>1, <3>1, <3>2
  <2>3. CASE k = "dns" /\ \E x \in DeletedListeners : DeleteResource(x[1], x[2])
    <3>1. \E h \in rc[k].own, n \in Names(k) : DeleteResource(h, n)
      BY <2>3 DEF DeletedListeners, Names
    <3> QED
      BY <1>0, <1>2, <2>1, <3>1
  <2>4. CASE k = "tls" /\ \E x \in UnexpectedCertificates : DeleteResource(x[1], x[2])
    <3>1. \E h \in rc[k].own, n \in Names(k) : DeleteResource(h, n)
      BY <2>4 DEF UnexpectedCertificates, Names
    <3> QED
      BY <1>0, <1>2, <2>1, <3>1
  <2>5. k = "dns" \/ k = "tls"
    BY DEF Kinds
  <2> QED
    BY <1>1, <1>3, <2>1, <2>2, <2>3, <2>4, <2>5 DEF deleteResources
<1>4. CASE k = "dns" /\ reconcileGatewayDNSRecords
  <2>1. UNCHANGED <<attrs, probes>>
    BY <1>4 DEF reconcileGatewayDNSRecords
  <2>2. UNCHANGED res \/ \E h \in rc[k].own, j \in DOMAIN Listeners : \E o : PutResource(h, Listeners[j], o)
    <3>1. ASSUME NEW h \in rc[k].own, NEW j \in DOMAIN Listeners, reconcileListener(h, j)
          PROVE  UNCHANGED res \/ \E o : PutResource(h, Listeners[j], o)
      BY <3>1 DEF reconcileListener, EndAtUnrouted, DeleteResource, PutResource
    <3> QED
      BY <1>4, <3>1 DEF reconcileGatewayDNSRecords
  <2>3. \A j \in DOMAIN Listeners : Listeners[j] \in Names(k)
    BY <1>4 DEF Names, ListenerSet
  <2> QED
    BY <1>0, <1>1, <2>1, <2>2, <2>3, NamesWritten
<1>5. CASE k = "tls" /\ reconcileGatewayCertificates
  <2>1. UNCHANGED <<attrs, probes>>
    BY <1>5 DEF reconcileGatewayCertificates
  <2>2. UNCHANGED res \/ \E x \in rc[k].own \X Secrets : \E o : PutResource(x[1], x[2], o)
    BY <1>5 DEF reconcileGatewayCertificates, PutResource
  <2>3. UNCHANGED res \/ \E h \in rc[k].own, n \in Secrets : \E o : PutResource(h, n, o)
    BY <2>2
  <2>4. Names(k) = Secrets
    BY <1>5 DEF Names
  <2> QED
    BY <1>0, <1>1, <2>1, <2>3, <2>4, NamesWritten
<1>6. CASE k = "dns" /\ reconcileHealthChecks
  BY <1>6 DEF reconcileHealthChecks, SameObjects
<1>7. CASE AddFinalizer(k) \/ ComputeGatewayDiffs(k) \/ RecomputeGatewayDiffs(k)
  BY <1>1, <1>7 DEF AddFinalizer, ComputeGatewayDiffs, RecomputeGatewayDiffs
<1>8. CASE ReconcileTargetBackReference(k) \/ DeleteTargetBackReference(k) \/ ReconcileGatewayPolicyReferences(k)
  BY <1>1, <1>8 DEF ReconcileTargetBackReference, DeleteTargetBackReference, ReconcileGatewayPolicyReferences
<1>9. CASE updateGatewayCondition(k) \/ updateStatus(k) \/ RemoveFinalizer(k)
  BY <1>1, <1>9 DEF updateGatewayCondition, updateStatus, RemoveFinalizer
<1> QED
  BY <1>3, <1>4, <1>5, <1>6, <1>7, <1>8, <1>9 DEF Work

\* The steps of the other worker are steps of others.
LEMMA OtherApart ==
  ASSUME WorkInv, NEW k \in Kinds, Work(k), NEW p \in Policies, Kind(p) # k, SamePolicy(p), p \notin queued'
  PROVE  Apart(p)
<1>0. Inv /\ Kind(p) \in Kinds /\ SameWork(Kind(p))
  BY OtherWork, KindOfPolicy DEF WorkInv
<1>1. CASE rc'[Kind(p)] = rc[Kind(p)] /\ UNCHANGED gw
  <2>1. faults' = faults
    BY DEF Work, AddFinalizer, ComputeGatewayDiffs, deleteResources, reconcileGatewayDNSRecords,
      reconcileHealthChecks, reconcileGatewayCertificates, ReconcileTargetBackReference, DeleteTargetBackReference,
      RecomputeGatewayDiffs, ReconcileGatewayPolicyReferences, updateGatewayCondition, updateStatus, RemoveFinalizer
  <2> QED
    BY <1>0, <1>1, <2>1, ObjectsApart, StillApart
<1>2. ASSUME NEW g \in Gateways, NEW r \in GatewayObject, OtherPut(Kind(p), g, r)
      PROVE  Apart(p)
  <2>1. gw'[g] = r
    BY <1>0, <1>2 DEF OtherPut, Inv, Typed
  <2>2. g = pol[p].target =>
           /\ Due(p)' => Due(p) /\ r.back[Kind(p)] = gw[g].back[Kind(p)]
           /\ Waiting(p)' => Waiting(p)
    BY <1>2, <2>1 DEF OtherPut, Due, Waiting
  <2> QED
    BY <1>0, <1>2, <2>2, WrittenApart DEF OtherPut
<1> QED
  BY <1>0, <1>1, <1>2, OtherSteps

\* A gateway that comes or goes leaves a policy in care: a TLSPolicy whose worker did not see it was queued or
\* referred to, and the others are left out.
LEMMA GatewayApart ==
  ASSUME WorkInv, NEW g \in Gateways, DeleteGateway(g) \/ CreateGateway(g),
         NEW p \in Policies, p \notin queued, p \notin queued', Cared(p), ~Contested(p)
  PROVE  Apart(p)
<1>0. Inv /\ Kind(p) \in Kinds /\ gw \in [Gateways -> GatewayObject]
  BY KindOfPolicy DEF WorkInv, Inv, Typed
<1>1. PICK r : /\ ChangeGateway(g, r) /\ r.raced = Raced(g)
               /\ \/ gw[g].exists /\ ~r.exists
                  \/ ~gw[g].exists /\ r.exists /\ r.late
  <2>1. CASE DeleteGateway(g)
    <3>1. PICK r : r = [NewGateway({}) EXCEPT !.exists = FALSE, !.raced = Raced(g)]
      OBVIOUS
    <3>2. r.raced = Raced(g) /\ ~r.exists
      BY <3>1 DEF NewGateway
    <3> QED
      BY <2>1, <3>1, <3>2 DEF DeleteGateway
  <2>2. CASE CreateGateway(g)
    <3>1. PICK X \in RouteSets : ChangeGateway(g, [NewGateway(X) EXCEPT !.late = TRUE, !.raced = Raced(g)])
      BY <2>2 DEF CreateGateway
    <3>2. PICK r : r = [NewGateway(X) EXCEPT !.late = TRUE, !.raced = Raced(g)]
      OBVIOUS
    <3>3. r.raced = Raced(g) /\ r.exists /\ r.late
      BY <3>2 DEF NewGateway
    <3> QED
      BY <2>2, <3>1, <3>2, <3>3 DEF CreateGateway
  <2> QED
    BY <2>1, <2>2
<1>2. /\ gw'[g] = r /\ gw' = [gw EXCEPT ![g] = r] /\ UNCHANGED <<pol, attrs, res, probes, faults>>
      /\ queued' = queued \cup GatewayEvent(g, r) /\ rc'[Kind(p)] = Outdated(g)[Kind(p)]
  BY <1>0, <1>1 DEF ChangeGateway
<1>3. ASSUME g = pol[p].target
      PROVE  ~Due(p)' /\ ~Waiting(p)'
  <2>1. ASSUME Kind(p) = "tls", pol[p].phase = "live", ~r.raced
        PROVE  FALSE
    <3>1. ~gw[g].raced /\ ~Busy(p)
      BY <1>1, <2>1 DEF Raced, Busy
    <3>2. CASE ~gw[g].exists
      BY <1>3, <2>1, <3>1, <3>2 DEF Cared, Waiting
    <3>3. CASE gw[g].exists
      <4>1. Due(p)
        BY <1>3, <2>1, <3>1, <3>3 DEF Due
      <4>2. InForce(p)
        BY <3>1, <4>1 DEF Cared
      <4>3. p \in gw[g].refs
        BY <1>3, <4>2 DEF InForce
      <4> QED
        BY <1>2, <4>3 DEF GatewayEvent
    <3> QED
      BY <3>2, <3>3
  <2>2. Kind(p) # "dns" => Kind(p) = "tls"
    BY DEF Kind
  <2>3. ~Due(p)'
    BY <1>1, <1>2, <1>3, <2>1, <2>2 DEF Due
  <2>4. ~Waiting(p)'
    BY <1>2, <1>3, <2>1 DEF Waiting
  <2> QED
    BY <2>3, <2>4
<1> QED
  BY <1>0, <1>2, <1>3, WrittenApart

\* The changes made by users, clusters and zones are steps of others.
LEMMA EditApart ==
  ASSUME WorkInv, Edits, NEW p \in Policies, SamePolicy(p), p \notin queued, p \notin queued', Cared(p), ~Contested(p)
  PROVE  Apart(p)
<1>0. Inv /\ Kind(p) \in Kinds /\ SameWork(Kind(p)) /\ gw \in [Gateways -> GatewayObject] /\ rc[Kind(p)] \in Reconciling
  BY EditWork, KindOfPolicy DEF WorkInv, Inv, Typed
<1>1. ASSUME UNCHANGED <<gw, res, probes, attrs, faults>>, rc'[Kind(p)].fresh = rc[Kind(p)].fresh
      PROVE  Apart(p)
  <2>1. SameObjects(p, pol[p].target)
    BY <1>1 DEF SameObjects
  <2> QED
    BY <1>0, <1>1, <2>1, StillApart
<1>2. ASSUME NEW q \in Policies,
             \/ \E h \in Gateways : CreatePolicy(q, h) \/ Retarget(q, h)
             \/ DeletePolicy(q) \/ ChangeHealthCheck(q) \/ ChangeValidity(q)
      PROVE  Apart(p)
  <2>1. ASSUME NEW o, ChangePolicy(q, o)
        PROVE  Apart(p)
    <3>1. rc'[Kind(p)] = [rc[Kind(p)] EXCEPT !.pfresh = @ /\ rc[Kind(p)].p # q]
      BY <1>0, <2>1 DEF ChangePolicy
    <3>2. rc'[Kind(p)].fresh = rc[Kind(p)].fresh
      BY <1>0, <3>1 DEF Reconciling
    <3> QED
      BY <1>1, <2>1, <3>2 DEF ChangePolicy
  <2>2. (\E o : ChangePolicy(q, o)) \/ UNCHANGED <<gw, res, probes, attrs, faults, rc>>
    BY <1>2 DEF CreatePolicy, Retarget, DeletePolicy, ChangeHealthCheck, ChangeValidity
  <2> QED
    BY <1>1, <2>1, <2>2
<1>3. ASSUME NEW g \in Gateways, ChangeListeners(g) \/ ChangeRoutes(g) \/ ChangeReady(g)
      PROVE  Apart(p)
  <2>1. PICK r : /\ ChangeGateway(g, r)
                 /\ r.exists = gw[g].exists /\ r.late = gw[g].late /\ r.raced = gw[g].raced /\ r.back = gw[g].back
    <3>0. gw[g] \in GatewayObject
      BY <1>0
    <3>1. ASSUME NEW x, NEW r, \/ r = [gw[g] EXCEPT !.listeners = x]
                              \/ r = [gw[g] EXCEPT !.routes = x]
                              \/ r = [gw[g] EXCEPT !.ready = x]
          PROVE  r.exists = gw[g].exists /\ r.late = gw[g].late /\ r.raced = gw[g].raced /\ r.back = gw[g].back
      BY <3>0, <3>1, SMTT(30) DEF GatewayObject
    <3> QED
      BY <1>3, <3>1 DEF ChangeListeners, ChangeRoutes, ChangeReady
  <2>2. /\ gw'[g] = r /\ gw' = [gw EXCEPT ![g] = r] /\ UNCHANGED <<pol, attrs, res, probes, faults>>
        /\ queued' = queued \cup GatewayEvent(g, r) /\ rc'[Kind(p)] = Outdated(g)[Kind(p)]
    BY <1>0, <2>1 DEF ChangeGateway
  <2>3. g = pol[p].target =>
           /\ Due(p)' => Due(p) /\ r.back[Kind(p)] = gw[g].back[Kind(p)]
           /\ Waiting(p)' => Waiting(p)
    BY <2>1, <2>2 DEF Due, Waiting
  <2> QED
    BY <1>0, <2>2, <2>3, WrittenApart
<1>4. ASSUME NEW g \in Gateways, ChangeCluster(g)
      PROVE  Apart(p)
  <2>1. ASSUME pol[p].target \in Gateways, p \in gw[pol[p].target].refs
        PROVE  SameObjects(p, pol[p].target)
    <3>1. Kind(p) = "dns" => g # pol[p].target
      BY <1>4, <2>1 DEF ChangeCluster
    <3>2. attrs \in [Gateways -> Int]
      BY <1>0 DEF Inv, Typed
    <3>3. Kind(p) = "dns" => attrs'[pol[p].target] = attrs[pol[p].target]
      BY <1>4, <2>1, <3>1, <3>2 DEF ChangeCluster
    <3> QED
      BY <1>4, <3>3 DEF SameObjects, ChangeCluster
  <2>2. UNCHANGED <<gw, rc, faults>>
    BY <1>4 DEF ChangeCluster
  <2> QED
    BY <1>0, <2>1, <2>2, StillApart
<1>5. CASE AddZone
  BY <1>1, <1>5 DEF AddZone
<1> QED
  BY <1>2, <1>3, <1>4, <1>5, GatewayApart DEF Edits

\* The worker of p takes a step of its own, which does not queue p.
InHand(p) ==
  WorkInv /\ Busy(p) /\ Cared(p) /\ ~Contested(p) /\ p \notin queued /\ p \notin queued' /\ SamePolicy(p)

\* What the worker can build on while it applies p.
LEMMA OwnFacts ==
  ASSUME NEW p \in Policies, InHand(p), Due(p), rc[Kind(p)].mode = "apply", rc[Kind(p)].err = "none"
  PROVE  LET R == rc[Kind(p)]
             g == pol[p].target
         IN /\ g \in Gateways /\ Aligned(p)
            /\ R.pc \notin {"finalizer", "diff"} => Gathered(p) /\ (p \in R.gws[g].refs => gw[g] = R.gws[g])
<1>1. Inv /\ Kind(p) \in Kinds
  BY KindOfPolicy DEF InHand, WorkInv
<1>2. pol[p].target \in Gateways
  BY <1>1 DEF Due, Inv, ObjectInv
<1>3. Aligned(p) /\ (rc[Kind(p)].pc \notin {"finalizer", "diff"} => Gathered(p))
  BY DEF InHand, Cared, Underway
<1>4. \A g \in rc[Kind(p)].fresh : gw[g] = rc[Kind(p)].gws[g]
  <2>1. CopiesCurrent(Kind(p))
    BY <1>1 DEF Inv, WorkerInv
  <2> QED
    BY <2>1 DEF CopiesCurrent
<1>5. Gathered(p) => (p \in rc[Kind(p)].gws[pol[p].target].refs => pol[p].target \in rc[Kind(p)].fresh)
  BY DEF Gathered
<1> QED
  BY <1>2, <1>3, <1>4, <1>5

\* The worker stays with p.
LEMMA OwnStays ==
  ASSUME NEW p \in Policies, InHand(p), Busy(p)', rc'[Kind(p)].mode = rc[Kind(p)].mode, faults \subseteq faults',
         LET g == pol[p].target
         IN g \in Gateways =>
              gw'[g].exists = gw[g].exists /\ gw'[g].late = gw[g].late /\ gw'[g].raced = gw[g].raced,
         Due(p) /\ rc[Kind(p)].mode = "apply" /\ rc'[Kind(p)].err = "none" =>
           Aligned(p)' /\ (rc'[Kind(p)].pc \notin {"finalizer", "diff"} => Gathered(p)')
  PROVE  Cared(p)'
<1>1. pol[p].phase = "live" => pol[p].target \in Gateways
  BY DEF InHand, WorkInv, Inv, ObjectInv
<1>2. SamePolicy(p)
  BY DEF InHand
<1>3. (Due(p)' => Due(p)) /\ (Waiting(p)' => Waiting(p))
  BY <1>1, <1>2 DEF Due, Waiting, SamePolicy
<1>4. Waiting(p)' => rc'[Kind(p)].mode = "cleanup"
  BY <1>3 DEF InHand, Cared
<1>5. ASSUME Due(p)'
      PROVE  Underway(p)'
  <2>1. Underway(p)
    BY <1>3, <1>5 DEF InHand, Cared
  <2> QED
    BY <1>3, <1>5, <2>1 DEF Underway
<1> QED
  BY <1>4, <1>5 DEF Cared

\* It meets an error.
LEMMA OwnAbort ==
  ASSUME NEW p \in Policies, InHand(p), Abort(Kind(p)), UNCHANGED gw, faults \subseteq faults'
  PROVE  Cared(p)'
<1> DEFINE k == Kind(p)
           R == rc[k]
           S == rc'[k]
<1>1. Inv /\ k \in Kinds /\ R.p = p /\ R.pc # "idle" /\ p \notin queued'
  BY KindOfPolicy DEF InHand, WorkInv, Busy
<1>2. S.pc \in {"condition", "status"} /\ S.err # "none" /\ S.p = R.p /\ S.mode = R.mode
  BY <1>1, AbortFields
<1>3. Busy(p)'
  BY <1>1, <1>2 DEF Busy
<1> QED
  BY <1>2, <1>3, OwnStays

\* It goes on with what it has in hand, at the same or at another stage.
KeepsHold(k) ==
  LET R == rc[k]
      S == rc'[k]
  IN /\ S.p = R.p /\ S.mode = R.mode /\ S.target = R.target /\ S.back = R.back /\ S.gws = R.gws /\ S.inv = R.inv
     /\ S.own = R.own /\ S.err = R.err /\ S.fresh = R.fresh /\ S.copy = R.copy

\* Going on to the next stage keeps what the worker has in hand.
LEMMA GotoHold ==
  ASSUME Typed, NEW k \in Kinds, NEW c \in Stages, Goto(k, c)
  PROVE  KeepsHold(k) /\ rc'[k].pc = c /\ rc'[k].i = rc[k].i
BY GotoFields DEF KeepsHold

\* What it must have reached for that, while it applies p and has met no error.
Applying(p) == Due(p) /\ rc[Kind(p)].mode = "apply" /\ rc[Kind(p)].err = "none"
Onward(p) ==
  LET R == rc[Kind(p)]
      g == pol[p].target
      c == rc'[Kind(p)].pc
  IN /\ R.pc \notin {"finalizer", "diff"}
     /\ p \in R.gws[g].refs => DoneSoFar(p)'
     /\ c \in {"condition", "status"} =>
          (\A h \in R.inv : p \notin R.gws[h].refs) /\ R.back = p /\ p \in R.gws[g].refs
     /\ c = "status" => gw[g].cond[Kind(p)] = [policy |-> p, reason |-> "Accepted"]

\* A step to the next stage that writes no gateway keeps p cared for.
LEMMA OwnOn ==
  ASSUME NEW p \in Policies, InHand(p), KeepsHold(Kind(p)), rc'[Kind(p)].pc # "idle",
         UNCHANGED gw, faults \subseteq faults', Applying(p) => Onward(p)
  PROVE  Cared(p)'
<1> DEFINE k == Kind(p)
           R == rc[k]
           S == rc'[k]
           g == pol[p].target
<1>1. R.p = p /\ R.pc # "idle" /\ SamePolicy(p)
  BY DEF InHand, Busy
<1>2. /\ S.p = R.p /\ S.mode = R.mode /\ S.target = R.target /\ S.back = R.back /\ S.gws = R.gws
      /\ S.inv = R.inv /\ S.own = R.own /\ S.err = R.err /\ S.fresh = R.fresh /\ S.copy = R.copy
  BY DEF KeepsHold
<1>3. Busy(p)'
  BY <1>1, <1>2 DEF Busy
<1>4. ASSUME Due(p), R.mode = "apply", R.err = "none"
      PROVE  Aligned(p)' /\ Gathered(p)'
  <2>0. Onward(p)
    BY <1>4 DEF Applying
  <2>1. Aligned(p) /\ Gathered(p) /\ pol'[p].target = g
    BY <1>1, <1>4, <2>0, OwnFacts DEF SamePolicy, Onward
  <2>2. Aligned(p)'
    BY <1>1, <1>2, <2>1 DEF Aligned, SamePolicy
  <2>3. /\ R.own = {g}
        /\ \A h \in Gateways \ {g} : p \in gw[h].refs => h \in R.inv /\ p \in R.gws[h].refs
        /\ p \in R.gws[g].refs => g \in R.fresh
    BY <2>1 DEF Gathered
  <2>4. Gathered(p)'
    BY <1>2, <1>4, <2>0, <2>1, <2>3 DEF Gathered, Onward
  <2> QED
    BY <2>2, <2>4
<1> QED
  BY <1>2, <1>3, <1>4, OwnStays

\* What it knows while it works on the objects of a target that refers to p.
Known(p) ==
  LET R == rc[Kind(p)]
      g == pol[p].target
  IN /\ g \in Gateways /\ R.own = {g} /\ gw[g] = R.gws[g] /\ R.copy.health = pol[p].health
     /\ SamePolicy(p) /\ DoneSoFar(p)

\* It works on the objects.
LEMMA OwnDoes ==
  ASSUME NEW p \in Policies, InHand(p), KeepsHold(Kind(p)), rc'[Kind(p)].pc \notin {"idle", "condition", "status"},
         rc[Kind(p)].pc \notin {"finalizer", "diff"}, UNCHANGED gw, faults \subseteq faults',
         Known(p) => DoneSoFar(p)'
  PROVE  Cared(p)'
<1> DEFINE R == rc[Kind(p)]
           g == pol[p].target
<1>1. ASSUME Applying(p), p \in R.gws[g].refs
      PROVE  DoneSoFar(p)'
  <2>1. g \in Gateways /\ Aligned(p) /\ Gathered(p) /\ gw[g] = R.gws[g] /\ SamePolicy(p)
    BY <1>1, OwnFacts DEF Applying, InHand
  <2>2. Known(p)
    BY <1>1, <2>1 DEF Known, Gathered, Aligned
  <2> QED
    BY <2>2
<1>2. Applying(p) => Onward(p)
  BY <1>1 DEF Onward
<1> QED
  BY <1>2, OwnOn

\* The worker works on a deletion, or on a clean-up.
LEMMA OwnLeaving ==
  ASSUME NEW p \in Policies, InHand(p), Work(Kind(p)), rc[Kind(p)].mode # "apply"
  PROVE  Cared(p)'
<1> DEFINE k == Kind(p)
           R == rc[k]
           S == rc'[k]
           g == pol[p].target
<1>1. /\ Inv /\ k \in Kinds /\ R.p = p /\ R.pc # "idle" /\ SamePolicy(p) /\ Cared(p) /\ ~Contested(p)
      /\ p \notin queued /\ p \notin queued'
  BY KindOfPolicy DEF InHand, WorkInv, Busy
<1>2. PolicyHeld(k) /\ Moves(k)
  BY <1>1, WorkMoves DEF Inv, WorkerInv, InHand, WorkInv
<1>3. R.mode = "delete" => pol[p].phase = "deleting"
  BY <1>1, <1>2 DEF PolicyHeld
<1>4. R.mode \in {"delete", "cleanup"}
  BY <1>1, <1>2 DEF PolicyHeld
<1>5. PICK j \in Kinds : j # k
  BY <1>1 DEF Kinds
<1>6. UNCHANGED gw \/ \E h \in Gateways, r \in GatewayObject : OtherPut(j, h, r)
  BY <1>1, <1>5, OtherSteps
<1>7. ASSUME g \in Gateways
      PROVE  gw'[g].exists = gw[g].exists /\ gw'[g].late = gw[g].late /\ gw'[g].raced = gw[g].raced
  <2>1. gw \in [Gateways -> GatewayObject]
    BY <1>1 DEF Inv, Typed
  <2>2. ASSUME NEW h \in Gateways, NEW r \in GatewayObject, OtherPut(j, h, r)
        PROVE  gw'[g].exists = gw[g].exists /\ gw'[g].late = gw[g].late /\ gw'[g].raced = gw[g].raced
    BY <1>7, <2>1, <2>2 DEF OtherPut
  <2> QED
    BY <1>6, <2>2
<1>8. faults' = faults
  BY DEF Work, AddFinalizer, ComputeGatewayDiffs, deleteResources, reconcileGatewayDNSRecords,
      reconcileHealthChecks, reconcileGatewayCertificates, ReconcileTargetBackReference, DeleteTargetBackReference,
      RecomputeGatewayDiffs, ReconcileGatewayPolicyReferences, updateGatewayCondition, updateStatus, RemoveFinalizer
<1>9. CASE pol[p].phase # "live"
  BY <1>1, <1>9 DEF Cared, Due, Waiting, SamePolicy
<1>10. CASE pol[p].phase = "live" /\ S.pc = "idle"
  <2>1. R.mode = "cleanup"
    BY <1>3, <1>4, <1>10
  <2>2. k # "tls"
    BY <1>1, <1>2, <1>10, <2>1 DEF Moves, SamePolicy
  <2>3. ~Due(p)
    BY <1>1, <2>1, <2>2 DEF Cared, Busy, Underway
  <2>4. ~Due(p)' /\ ~Waiting(p)'
    <3>1. g \in Gateways
      BY <1>1, <1>10 DEF Inv, ObjectInv
    <3> QED
      BY <1>1, <1>7, <1>8, <2>2, <2>3, <3>1 DEF Due, Waiting, SamePolicy
  <2> QED
    BY <2>4 DEF Cared
<1>11. CASE pol[p].phase = "live" /\ S.pc # "idle"
  <2>1. S.p = R.p /\ S.mode = R.mode
    BY <1>1, <1>2, <1>11 DEF Moves
  <2>2. Busy(p)'
    BY <1>1, <1>11, <2>1 DEF Busy
  <2> QED
    BY <1>7, <1>8, <2>1, <2>2, OwnStays
<1> QED
  BY <1>9, <1>10, <1>11

\* The finalizer.
LEMMA OwnFinalizer ==
  ASSUME NEW p \in Policies, InHand(p), AddFinalizer(Kind(p))
  PROVE  Cared(p)'
<1>1. rc[Kind(p)].p = p /\ p \notin queued' /\ SamePolicy(p)
  BY DEF InHand, Busy
<1>2. pol[p].phase = "absent"
  BY <1>1 DEF AddFinalizer, Return
<1> QED
  BY <1>1, <1>2 DEF Cared, Due, Waiting, SamePolicy

\* The diff lists the target and the gateways to leave.
LEMMA OwnDiff ==
  ASSUME NEW p \in Policies, InHand(p), ComputeGatewayDiffs(Kind(p)), rc[Kind(p)].mode = "apply"
  PROVE  Cared(p)'
<1> DEFINE k == Kind(p)
           R == rc[k]
           S == rc'[k]
           g == pol[p].target
           own == {h \in Gateways : R.mode = "apply" /\ h = R.target /\ gw[h].exists}
<1>1. /\ Inv /\ k \in Kinds /\ R.p = p /\ R.pc # "idle" /\ SamePolicy(p) /\ UNCHANGED <<gw, faults>>
  BY KindOfPolicy DEF InHand, WorkInv, Busy, ComputeGatewayDiffs
<1>2. CASE Abort(k)
  BY <1>1, <1>2, OwnAbort
<1>3. CASE rc' = [rc EXCEPT ![k] = ListGateways(k, own)]
  <2>1. S = ListGateways(k, own) /\ own \in SUBSET Gateways
    BY <1>1, <1>3 DEF Inv, Typed
  <2>2. HasListed(k, own, "delete", S)
    BY <1>1, <2>1, ListedFields
  <2>3. /\ S.pc = "delete" /\ S.p = R.p /\ S.mode = R.mode /\ S.copy = R.copy /\ S.target = R.target
        /\ S.back = R.back /\ S.gws = [h \in own \cup Others(k, own) |-> gw[h]] /\ S.inv = Others(k, own)
        /\ S.own = own /\ S.fresh = own \cup Others(k, own) /\ S.err = R.err
    BY <2>2 DEF HasListed
  <2>4. Busy(p)'
    BY <1>1, <2>3 DEF Busy
  <2>5. ASSUME Due(p), R.err = "none"
        PROVE  Aligned(p)' /\ Gathered(p)'
    <3>1. g \in Gateways /\ Aligned(p) /\ pol'[p].target = g
      BY <1>1, <2>5, OwnFacts DEF SamePolicy
    <3>2. Aligned(p)'
      BY <1>1, <2>3, <3>1 DEF Aligned, SamePolicy
    <3>3. own = {g}
      BY <2>5, <3>1 DEF Aligned, Due
    <3>4. ASSUME NEW h \in Gateways \ {g}, p \in gw[h].refs
          PROVE  h \in S.inv /\ p \in S.gws[h].refs
      <4>1. gw[h].exists
        BY <1>1, <3>4 DEF Inv, ObjectInv
      <4>2. h \in Others(k, own)
        BY <1>1, <3>3, <3>4, <4>1 DEF Others
      <4> QED
        BY <2>3, <3>4, <4>2
    <3>5. DoneSoFar(p)' /\ g \in S.fresh
      BY <2>3, <3>3 DEF DoneSoFar
    <3>6. S.pc \notin {"condition", "status"}
      BY <2>3
    <3>7. Gathered(p)'
      BY <1>1, <2>3, <3>1, <3>3, <3>4, <3>5, <3>6 DEF Gathered
    <3> QED
      BY <3>2, <3>7
  <2> QED
    BY <1>1, <2>3, <2>4, <2>5, OwnStays
<1> QED
  BY <1>2, <1>3 DEF ComputeGatewayDiffs

\* Objects nobody asks for are removed, one at a time; the last step leaves p tidy.
LEMMA OwnDelete ==
  ASSUME NEW p \in Policies, InHand(p), deleteResources(Kind(p))
  PROVE  Cared(p)'
<1> DEFINE k == Kind(p)
           R == rc[k]
           S == rc'[k]
           g == pol[p].target
<1>1. /\ Typed /\ k \in Kinds /\ R.p = p /\ R.pc = "delete" /\ SamePolicy(p) /\ UNCHANGED <<gw, faults>>
      /\ StageInv(k)
  BY KindOfPolicy DEF InHand, WorkInv, Inv, Busy, deleteResources
<1>2. CASE UNCHANGED rc
  <2>1. KeepsHold(k) /\ DoneSoFar(p)' /\ S.pc = "delete"
    BY <1>1, <1>2 DEF KeepsHold, DoneSoFar
  <2> QED
    BY <1>1, <2>1, OwnDoes
<1>3. CASE Goto(k, "listeners") /\ UNCHANGED res /\ (k = "dns" => DeletedListeners = {})
             /\ (k # "dns" => UnexpectedCertificates = {})
  <2>1. KeepsHold(k) /\ S.pc = "listeners" /\ S.i = R.i
    BY <1>1, <1>3, GotoHold DEF Stages
  <2>2. ASSUME Known(p)
        PROVE  DoneSoFar(p)'
    <3>1. g \in Gateways /\ R.own = {g} /\ gw[g] = R.gws[g] /\ pol'[p].target = g
      BY <2>2 DEF Known, SamePolicy
    <3>2. k = "dns" => RecordsCleared(g)
      <4>1. SUFFICES ASSUME k = "dns", NEW l \in ListenerSet \ gw[g].listeners
                     PROVE  res[g][l] = NoResource
        BY DEF RecordsCleared
      <4>2. rc["dns"].own = {g} /\ rc["dns"].gws[g] = gw[g] /\ <<g, l>> \notin DeletedListeners
        BY <1>3, <3>1, <4>1
      <4> QED
        BY <4>1, <4>2 DEF DeletedListeners
    <3>3. k # "dns" => CertificatesCleared(p, g)
      <4>1. k # "dns" => k = "tls"
        BY <1>1 DEF Kinds
      <4>2. SUFFICES ASSUME k = "tls", NEW n \in Secrets \ expectedCertificates(gw[g])
                     PROVE  res[g][n].policy # p
        BY <4>1 DEF CertificatesCleared
      <4>3. rc["tls"].own = {g} /\ rc["tls"].gws[g] = gw[g] /\ rc["tls"].p = p /\ <<g, n>> \notin UnexpectedCertificates
        BY <1>1, <1>3, <3>1, <4>2
      <4> QED
        BY <4>2, <4>3 DEF UnexpectedCertificates
    <3>4. Tidy(p)'
      BY <1>1, <1>3, <3>1, <3>2, <3>3 DEF Tidy, RecordsCleared, CertificatesCleared, expectedCertificates, HostsOf
    <3>5. 1..(S.i - 1) = {}
      BY <1>1, <2>1, SMTT(30) DEF StageInv, Early
    <3>6. Walked(p)'
      BY <3>5 DEF Walked
    <3> QED
      BY <2>1, <3>4, <3>6 DEF DoneSoFar
  <2> QED
    BY <1>1, <2>1, <2>2, OwnDoes
<1>4. \/ UNCHANGED rc
      \/ Goto(k, "listeners") /\ UNCHANGED res /\ (k = "dns" => DeletedListeners = {})
             /\ (k # "dns" => UnexpectedCertificates = {})
  <2> DEFINE gone == IF Left(k) # {} THEN Left(k) ELSE IF k = "dns" THEN DeletedListeners ELSE UnexpectedCertificates
  <2>1. UNCHANGED rc \/ (gone = {} /\ Goto(k, "listeners") /\ UNCHANGED res)
    BY DEF deleteResources
  <2>2. gone = {} => (k = "dns" => DeletedListeners = {}) /\ (k # "dns" => UnexpectedCertificates = {})
    OBVIOUS
  <2> QED
    BY <2>1, <2>2
<1> QED
  BY <1>2, <1>3, <1>4

\* One object of a gateway is written.
LEMMA ObjectWritten ==
  ASSUME Typed, NEW g \in Gateways, NEW n \in ListenerSet \cup Secrets, NEW o, PutResource(g, n, o)
  PROVE  /\ res'[g][n] = o
         /\ \A m \in ListenerSet \cup Secrets : m # n => res'[g][m] = res[g][m]
BY DEF PutResource, Typed

\* The probes: each change of one queues p, so the stage ends only when none is due.
LEMMA OwnProbes ==
  ASSUME NEW p \in Policies, InHand(p), Kind(p) = "dns", reconcileHealthChecks
  PROVE  Cared(p)'
<1> DEFINE R == rc["dns"]
           S == rc'["dns"]
           want(h) == IF h \in R.own THEN expectedProbes(R.copy, R.gws[h]) ELSE {}
           missing == {x \in R.own \X ListenerSet : x[2] \in want(x[1]) /\ probes[x[1]][x[2]] = "none"}
           excess  == {x \in (R.own \cup R.inv) \X ListenerSet : x[2] \notin want(x[1]) /\ probes[x[1]][x[2]] = R.p}
<1>0. PICK g : g = pol[p].target
  OBVIOUS
<1>1. /\ Typed /\ Kind(p) \in Kinds /\ R.p = p /\ R.pc = "probes" /\ SamePolicy(p) /\ p \notin queued'
      /\ UNCHANGED <<gw, faults, attrs, res>>
  BY KindOfPolicy DEF InHand, WorkInv, Inv, Busy, reconcileHealthChecks
<1>2. missing = {} /\ excess = {} /\ Goto("dns", "claim") /\ UNCHANGED probes
  <2>1. p \in queued' \/ (missing = {} /\ excess = {} /\ Goto("dns", "claim") /\ UNCHANGED probes)
    BY <1>1 DEF reconcileHealthChecks
  <2> QED
    BY <1>1, <2>1
<1>3. KeepsHold("dns") /\ S.pc = "claim"
  BY <1>1, <1>2, GotoHold DEF Stages
<1>4. ASSUME Known(p)
      PROVE  DoneSoFar(p)'
  <2>1. /\ g \in Gateways /\ R.own = {g} /\ gw[g] = R.gws[g] /\ R.copy.health = pol[p].health /\ pol'[p].target = g
        /\ DoneSoFar(p)
    BY <1>0, <1>4 DEF Known, SamePolicy
  <2>2. Tidy(p) /\ Made(p)
    BY <1>1, <2>1 DEF DoneSoFar
  <2>3. want(g) = expectedProbes(pol[p], gw[g]) /\ g \in R.own
    BY <2>1 DEF expectedProbes
  <2>4. ASSUME NEW l \in ListenerSet
        PROVE  IF l \in expectedProbes(pol[p], gw[g]) THEN probes[g][l] # "none" ELSE probes[g][l] # p
    <3>1. <<g, l>> \notin missing /\ <<g, l>> \notin excess
      BY <1>2
    <3>2. ~(l \in want(g) /\ probes[g][l] = "none") /\ ~(l \notin want(g) /\ probes[g][l] = R.p)
      BY <2>3, <2>4, <3>1
    <3> QED
      BY <1>1, <2>3, <3>2
  <2>5. Probed(p)
    BY <1>0, <2>4 DEF Probed, ProbesApplied
  <2>6. SameObjects(p, g)
    BY <1>1, <1>2 DEF SameObjects
  <2>7. Tidy(p)' /\ Made(p)' /\ Probed(p)'
    BY <1>0, <1>1, <2>1, <2>2, <2>5, <2>6, DoneKept
  <2> QED
    BY <1>3, <2>7 DEF DoneSoFar
<1> QED
  BY <1>1, <1>3, <1>4, OwnDoes

\* The certificates: the stage ends when all of them are made.
LEMMA OwnCertificates ==
  ASSUME NEW p \in Policies, InHand(p), Kind(p) = "tls", reconcileGatewayCertificates
  PROVE  Cared(p)'
<1> DEFINE R == rc["tls"]
           S == rc'["tls"]
           wanted(h, n) == Desired(R.p, h, n, HostsOf(R.gws[h], n))
           pending == {x \in R.own \X Secrets :
                         x[2] \in expectedCertificates(R.gws[x[1]]) /\ res[x[1]][x[2]] # wanted(x[1], x[2])}
<1>0. PICK g : g = pol[p].target
  OBVIOUS
<1>1. /\ Typed /\ Kind(p) \in Kinds /\ R.p = p /\ R.pc = "listeners" /\ SamePolicy(p)
      /\ UNCHANGED <<gw, faults>>
  BY KindOfPolicy DEF InHand, WorkInv, Inv, Busy, reconcileGatewayCertificates
<1>2. ASSUME Known(p)
      PROVE  /\ g \in Gateways /\ R.own = {g} /\ gw[g] = R.gws[g] /\ pol'[p].target = g
             /\ CertificatesCleared(p, g) /\ Tidy(p)
  <2>1. DoneSoFar(p) => Tidy(p)
    BY <1>1 DEF DoneSoFar
  <2>2. Tidy(p) => CertificatesCleared(p, g)
    BY <1>0 DEF Tidy
  <2> QED
    BY <1>0, <1>2, <2>1, <2>2 DEF Known, SamePolicy
<1>3. ASSUME NEW x \in pending, res' = [res EXCEPT ![x[1]][x[2]] = wanted(x[1], x[2])], UNCHANGED rc
      PROVE  Cared(p)'
  <2>1. KeepsHold("tls") /\ S.pc = "listeners"
    BY <1>1, <1>3 DEF KeepsHold
  <2>2. ASSUME Known(p)
        PROVE  DoneSoFar(p)'
    <3>1. x[1] = g /\ x[2] \in Secrets /\ x[2] \in expectedCertificates(R.gws[g])
      BY <1>2, <1>3, <2>2
    <3>2. PICK o : PutResource(g, x[2], o)
      BY <1>3, <3>1 DEF PutResource
    <3>3. \A n \in Secrets : n # x[2] => res'[g][n] = res[g][n]
      BY <1>1, <1>2, <2>2, <3>1, <3>2, ObjectWritten, SMTT(30)
    <3>4. CertificatesCleared(p, g)'
      BY <1>1, <1>2, <2>2, <3>1, <3>3, SMTT(30)
        DEF CertificatesCleared, expectedCertificates, HostsOf
    <3>5. Tidy(p)'
      BY <1>2, <2>2, <3>4 DEF Tidy
    <3> QED
      BY <2>1, <3>5 DEF DoneSoFar
  <2> QED
    BY <1>1, <2>1, <2>2, OwnDoes
<1>4. CASE pending = {} /\ Goto("tls", "claim") /\ UNCHANGED res
  <2>1. KeepsHold("tls") /\ S.pc = "claim"
    BY <1>1, <1>4, GotoHold DEF Stages
  <2>2. ASSUME Known(p)
        PROVE  DoneSoFar(p)'
    <3>1. ASSUME NEW n \in expectedCertificates(gw[g])
          PROVE  res[g][n].by = p /\ res[g][n].hosts = HostsOf(gw[g], n)
      <4>1. n \in Secrets /\ <<g, n>> \notin pending
        BY <1>4, <3>1 DEF expectedCertificates
      <4>2. res[g][n] = wanted(g, n)
        BY <1>2, <2>2, <3>1, <4>1
      <4> QED
        BY <1>1, <1>2, <2>2, <4>2, SMTT(30) DEF Desired
    <3>2. Made(p) /\ Probed(p) /\ Tidy(p)
      BY <1>0, <1>2, <2>2, <3>1 DEF Made, Probed, CertificatesApplied
    <3>3. SameObjects(p, g)
      BY <1>4 DEF SameObjects
    <3>4. Tidy(p)' /\ Made(p)' /\ Probed(p)'
      BY <1>0, <1>1, <1>2, <2>2, <3>2, <3>3, DoneKept
    <3> QED
      BY <2>1, <3>4 DEF DoneSoFar
  <2> QED
    BY <1>1, <2>1, <2>2, OwnDoes
<1> QED
  BY <1>3, <1>4 DEF reconcileGatewayCertificates

\* What is done stays done when it goes on to the marks.
LEMMA MarksDone ==
  ASSUME Typed, NEW p \in Policies, pol[p].target \in Gateways, SamePolicy(p), DoneSoFar(p),
         rc[Kind(p)].pc \notin {"delete", "listeners", "probes"},
         rc'[Kind(p)].pc \notin {"delete", "listeners", "probes"},
         gw'[pol[p].target] = gw[pol[p].target], UNCHANGED <<res, probes, attrs>>
  PROVE  DoneSoFar(p)'
<1>1. SameObjects(p, pol[p].target)
  BY DEF SameObjects
<1>2. Tidy(p) /\ Made(p) /\ Probed(p)
  BY DEF DoneSoFar
<1>3. Tidy(p)' /\ Made(p)' /\ Probed(p)'
  BY <1>1, <1>2, DoneKept
<1> QED
  BY <1>3 DEF DoneSoFar

\* The claim: it is there, or it is written and the copies of the diff are stale.
LEMMA OwnClaim ==
  ASSUME NEW p \in Policies, InHand(p), ReconcileTargetBackReference(Kind(p))
  PROVE  Cared(p)'
<1> DEFINE k == Kind(p)
           R == rc[k]
           S == rc'[k]
<1>0. PICK g : g = pol[p].target
  OBVIOUS
<1>1. /\ Inv /\ Typed /\ k \in Kinds /\ R.p = p /\ R.pc = "claim" /\ R.mode = "apply" /\ SamePolicy(p)
      /\ p \notin queued' /\ UNCHANGED <<attrs, res, probes, faults>>
  BY KindOfPolicy DEF InHand, WorkInv, Inv, Busy, ReconcileTargetBackReference
<1>2. "refs" \in Stages
  BY DEF Stages
<1>3. CASE Abort(k) /\ UNCHANGED gw
  BY <1>1, <1>3, OwnAbort
<1>4. CASE Goto(k, "refs") /\ UNCHANGED gw
  <2>1. KeepsHold(k) /\ S.pc = "refs"
    BY <1>1, <1>2, <1>4, GotoHold
  <2>2. ASSUME Known(p)
        PROVE  DoneSoFar(p)'
    <3>1. pol[p].target \in Gateways /\ DoneSoFar(p)
      BY <2>2 DEF Known
    <3> QED
      BY <1>1, <1>4, <2>1, <3>1, MarksDone
  <2> QED
    BY <1>1, <1>4, <2>1, <2>2, OwnDoes
<1>5. CASE R.tfresh /\ WriteBack(k, p, "refs")
  <2>1. PICK t \in Gateways : t = R.target
    <3>1. PolicyHeld(k)
      BY <1>1 DEF Inv, WorkerInv
    <3> QED
      BY <1>1, <3>1 DEF PolicyHeld
  <2>2. PICK r \in GatewayObject : BackPut(k, t, p, "refs", r)
    BY <1>1, <1>2, <1>5, <2>1, BackFields
  <2>3. /\ gw' = [gw EXCEPT ![t] = r]
        /\ r.exists = gw[t].exists /\ r.late = gw[t].late /\ r.raced = gw[t].raced /\ r.refs = gw[t].refs
        /\ r.back[k] = p
        /\ S.pc = "refs" /\ S.p = R.p /\ S.mode = R.mode /\ S.target = R.target /\ S.back = p
        /\ S.gws = R.gws /\ S.inv = R.inv /\ S.own = R.own /\ S.err = R.err /\ S.copy = R.copy
    BY <2>2 DEF BackPut
  <2>4. p \notin gw[t].refs
    <3>1. \E q : queued' = queued \cup GatewayEvent(t, q)
      BY <1>5, <2>1 DEF WriteBack
    <3> QED
      BY <1>1, <3>1 DEF GatewayEvent
  <2>5. gw'[t] = r /\ \A h \in Gateways : h # t => gw'[h] = gw[h]
    BY <1>1, <2>3 DEF Typed
  <2>6. Busy(p)'
    BY <1>1, <2>3 DEF Busy
  <2>7. g \in Gateways => gw'[g].exists = gw[g].exists /\ gw'[g].late = gw[g].late /\ gw'[g].raced = gw[g].raced
    BY <2>3, <2>5
  <2>8. ASSUME Due(p), S.err = "none"
        PROVE  Aligned(p)' /\ Gathered(p)'
    <3>1. R.pc \notin {"finalizer", "diff"} /\ S.pc \notin {"condition", "status"}
      BY <1>1, <2>3
    <3>2. g \in Gateways /\ Aligned(p) /\ Gathered(p) /\ (p \in R.gws[g].refs => gw[g] = R.gws[g]) /\ pol'[p].target = g
      BY <1>0, <1>1, <2>3, <2>8, <3>1, OwnFacts DEF SamePolicy
    <3>3. t = g
      BY <1>0, <2>1, <3>2 DEF Aligned
    <3>4. Aligned(p)'
      BY <1>0, <1>1, <2>3, <2>5, <3>2, <3>3 DEF Aligned, SamePolicy
    <3>5. p \notin S.gws[g].refs
      BY <2>3, <2>4, <3>2, <3>3
    <3>6. R.own = {g} /\ \A h \in Gateways \ {g} : p \in gw[h].refs => h \in R.inv /\ p \in R.gws[h].refs
      BY <1>0, <3>2 DEF Gathered
    <3>7. \A h \in Gateways \ {g} : gw'[h] = gw[h]
      BY <2>5, <3>3
    <3>8. S.own = {g} /\ \A h \in Gateways \ {g} : p \in gw'[h].refs => h \in S.inv /\ p \in S.gws[h].refs
      BY <2>3, <3>6, <3>7
    <3>9. Gathered(p)'
      BY <3>1, <3>2, <3>5, <3>8 DEF Gathered
    <3> QED
      BY <3>4, <3>9
  <2> QED
    BY <1>0, <1>1, <2>3, <2>6, <2>7, <2>8, OwnStays
<1> QED
  BY <1>1, <1>3, <1>4, <1>5 DEF ReconcileTargetBackReference, WriteBack

\* A gateway that refers to p, or comes to, is not written by a step that does not queue p: the write is refused.
LEMMA OwnRefused ==
  ASSUME NEW p \in Policies, InHand(p), NEW h \in rc[Kind(p)].own \cup rc[Kind(p)].inv, NEW r,
         WriteListed(Kind(p), h, r), p \in rc[Kind(p)].gws[h].refs \cup r.refs, faults' = faults
  PROVE  Cared(p)'
<1> DEFINE k == Kind(p)
<1>1. Inv /\ k \in Kinds /\ p \notin queued'
  BY KindOfPolicy DEF InHand, WorkInv
<1>2. h \notin rc[k].fresh
  <2>1. SUFFICES ASSUME h \in rc[k].fresh
                 PROVE  FALSE
    OBVIOUS
  <2>2. CopiesCurrent(k)
    BY <1>1 DEF Inv, WorkerInv
  <2>3. gw[h] = rc[k].gws[h]
    BY <2>1, <2>2 DEF CopiesCurrent
  <2>4. queued' = queued \cup GatewayEvent(h, r)
    BY <2>1 DEF WriteListed
  <2> QED
    BY <1>1, <2>3, <2>4 DEF GatewayEvent
<1>3. Abort(k) /\ UNCHANGED gw
  BY <1>2 DEF WriteListed
<1> QED
  BY <1>3, OwnAbort

\* The references: each write queues p, so the stage ends only when none is due.
LEMMA OwnRefs ==
  ASSUME NEW p \in Policies, InHand(p), ReconcileGatewayPolicyReferences(Kind(p)), rc[Kind(p)].mode = "apply"
  PROVE  Cared(p)'
<1> DEFINE k == Kind(p)
           R == rc[k]
           S == rc'[k]
           missing == {h \in R.own : p \notin R.gws[h].refs}
<1>0. PICK g : g = pol[p].target
  OBVIOUS
<1>1. /\ Inv /\ Typed /\ k \in Kinds /\ R.p = p /\ R.pc = "refs" /\ SamePolicy(p)
      /\ UNCHANGED <<attrs, res, probes, faults>>
  BY KindOfPolicy DEF InHand, WorkInv, Inv, Busy, ReconcileGatewayPolicyReferences
<1>2. CopiesCurrent(k) /\ ClaimHeld(k)
  BY <1>1 DEF Inv, WorkerInv
<1>3. ASSUME NEW h \in ToLeave(k), NEW r, WriteListed(k, h, r)
      PROVE  Cared(p)'
  <2>1. h \in R.own \cup R.inv /\ p \in R.gws[h].refs
    BY <1>1, <1>3 DEF ToLeave
  <2> QED
    BY <1>1, <1>3, <2>1, OwnRefused
<1>4. ASSUME NEW h \in missing, WriteListed(k, h, [R.gws[h] EXCEPT !.refs = @ \cup {p}])
      PROVE  Cared(p)'
  <2>1. h \in R.own \cup R.inv
    BY <1>4
  <2>2. R.gws[h] \in GatewayObject
    BY <1>1, <1>2, <2>1, CopyType
  <2>3. PICK r : r = [R.gws[h] EXCEPT !.refs = @ \cup {p}]
    OBVIOUS
  <2>4. p \in r.refs
    BY <2>2, <2>3 DEF GatewayObject
  <2>5. WriteListed(k, h, r)
    BY <1>4, <2>3
  <2> QED
    BY <1>1, <2>1, <2>4, <2>5, OwnRefused
<1>5. CASE ToLeave(k) = {} /\ missing = {} /\ Goto(k, "condition") /\ UNCHANGED gw
  <2>1. KeepsHold(k) /\ S.pc = "condition"
    BY <1>1, <1>5, GotoHold DEF Stages
  <2>2. ASSUME Applying(p)
        PROVE  Onward(p)
    <3>1. R.pc \notin {"finalizer", "diff"}
      BY <1>1
    <3>2. g \in Gateways /\ Gathered(p)
      BY <1>0, <2>2, <3>1, OwnFacts DEF Applying
    <3>3. p \in R.gws[g].refs => DoneSoFar(p)
      BY <1>0, <3>2 DEF Gathered
    <3>4. p \in R.gws[g].refs => DoneSoFar(p)'
      BY <1>0, <1>1, <1>5, <2>1, <3>2, <3>3, MarksDone
    <3>5. \A h \in R.inv : p \notin R.gws[h].refs
      BY <1>1, <1>5 DEF ToLeave
    <3>6. R.back = p
      BY <1>1, <1>2 DEF ClaimHeld
    <3>7. p \in R.gws[g].refs
      <4>1. g \in R.own
        BY <1>0, <3>2 DEF Gathered
      <4> QED
        BY <1>5, <4>1
    <3> QED
      BY <1>0, <2>1, <3>1, <3>4, <3>5, <3>6, <3>7 DEF Onward
  <2> QED
    BY <1>1, <1>5, <2>1, <2>2, OwnOn
<1> QED
  BY <1>1, <1>3, <1>4, <1>5 DEF ReconcileGatewayPolicyReferences

\* The condition of a gateway the worker has listed is written.
CondPut(k, h, r) ==
  LET R == rc[k]
      S == rc'[k]
  IN /\ gw' = [gw EXCEPT ![h] = r]
     /\ r.exists = gw[h].exists /\ r.late = gw[h].late /\ r.raced = gw[h].raced /\ r.refs = gw[h].refs
     /\ S.pc = R.pc /\ S.p = R.p /\ S.mode = R.mode /\ S.target = R.target /\ S.back = R.back
     /\ S.gws = [R.gws EXCEPT ![h] = r] /\ S.inv = R.inv /\ S.own = R.own /\ S.err = R.err
     /\ S.fresh = R.fresh /\ S.copy = R.copy

\* What the write of a condition changes.
LEMMA CondFields ==
  ASSUME Inv, NEW k \in Kinds, NEW h \in rc[k].own \cup rc[k].inv, h \in rc[k].fresh,
         NEW c \in [policy : Policies \cup {"none"}, reason : AllReasons],
         WriteListed(k, h, [rc[k].gws[h] EXCEPT !.cond[k] = c])
  PROVE  h \in Gateways /\ \E r \in GatewayObject : CondPut(k, h, r)
<1>1. PICK o : o = rc[k].gws[h]
  OBVIOUS
<1>2. PICK r : r = [o EXCEPT !.cond[k] = c]
  OBVIOUS
<1>3. CopiesCurrent(k) /\ rc[k] \in Reconciling /\ Typed
  BY DEF Inv, WorkerInv, Typed
<1>4. gw[h] = o /\ h \in DOMAIN rc[k].gws /\ h \in Gateways
  BY <1>1, <1>3 DEF CopiesCurrent, Reconciling
<1>5. o \in GatewayObject
  BY <1>1, CopyType
<1>6. /\ r \in GatewayObject
      /\ r.exists = o.exists /\ r.late = o.late /\ r.raced = o.raced /\ r.refs = o.refs
  BY <1>2, <1>5 DEF GatewayObject
<1>7. WriteListed(k, h, r)
  BY <1>1, <1>2
<1>8. gw' = [gw EXCEPT ![h] = r]
  BY <1>7 DEF WriteListed
<1>9. CondPut(k, h, r)
  <2> DEFINE R == rc[k]
             S == rc'[k]
  <2>1. /\ S.pc = R.pc /\ S.p = R.p /\ S.mode = R.mode /\ S.target = R.target /\ S.back = R.back
        /\ S.gws = [R.gws EXCEPT ![h] = r] /\ S.inv = R.inv /\ S.own = R.own /\ S.err = R.err
        /\ S.fresh = R.fresh /\ S.copy = R.copy
    BY <1>3, <1>4, <1>6, <1>7, WriterFields, SMTT(30)
  <2> QED
    BY <1>4, <1>6, <1>8, <2>1 DEF CondPut
<1> QED
  BY <1>4, <1>6, <1>9

\* A condition written on a gateway that p leaves keeps p cared for.
LEMMA OwnCondPut ==
  ASSUME NEW p \in Policies, InHand(p), NEW h \in Gateways, NEW r \in GatewayObject, CondPut(Kind(p), h, r),
         rc[Kind(p)].pc = "condition", UNCHANGED <<attrs, res, probes, faults>>,
         Applying(p) => h \in rc[Kind(p)].inv
  PROVE  Cared(p)'
<1> DEFINE k == Kind(p)
           R == rc[k]
           S == rc'[k]
<1>0. PICK g : g = pol[p].target
  OBVIOUS
<1>1. Inv /\ Typed /\ k \in Kinds /\ R.p = p /\ SamePolicy(p)
  BY KindOfPolicy DEF InHand, WorkInv, Inv, Busy
<1>2. /\ gw' = [gw EXCEPT ![h] = r]
      /\ r.exists = gw[h].exists /\ r.late = gw[h].late /\ r.raced = gw[h].raced /\ r.refs = gw[h].refs
      /\ S.pc = R.pc /\ S.p = R.p /\ S.mode = R.mode /\ S.target = R.target /\ S.back = R.back
      /\ S.gws = [R.gws EXCEPT ![h] = r] /\ S.inv = R.inv /\ S.own = R.own /\ S.err = R.err
      /\ S.fresh = R.fresh /\ S.copy = R.copy
  BY DEF CondPut
<1>3. gw'[h] = r /\ \A x \in Gateways : x # h => gw'[x] = gw[x]
  BY <1>1, <1>2 DEF Typed
<1>4. g \in Gateways => gw'[g].exists = gw[g].exists /\ gw'[g].late = gw[g].late /\ gw'[g].raced = gw[g].raced
  BY <1>2, <1>3
<1>5. Busy(p)'
  BY <1>1, <1>2 DEF Busy
<1>6. ASSUME Due(p), R.mode = "apply", S.err = "none"
      PROVE  Aligned(p)' /\ Gathered(p)'
  <2>1. R.err = "none" /\ R.pc \notin {"finalizer", "diff"} /\ S.pc = "condition"
    BY <1>2, <1>6
  <2>2. /\ g \in Gateways /\ Aligned(p) /\ Gathered(p) /\ pol'[p].target = g
    BY <1>0, <1>1, <1>6, <2>1, OwnFacts DEF SamePolicy
  <2>3. h \in R.inv
    BY <1>6, <2>1 DEF Applying
  <2>4. h # g /\ R.own = {g}
    <3>1. CopiesCurrent(k)
      BY <1>1 DEF Inv, WorkerInv
    <3>2. R.own \cap R.inv = {}
      BY <3>1 DEF CopiesCurrent
    <3>3. R.own = {g}
      BY <1>0, <2>2 DEF Gathered
    <3> QED
      BY <2>3, <3>2, <3>3
  <2>5. gw'[g] = gw[g]
    BY <1>3, <2>2, <2>4
  <2>6. Aligned(p)'
    BY <1>0, <1>1, <1>2, <2>2, <2>5 DEF Aligned, SamePolicy
  <2>7. /\ (\A x \in R.inv : p \notin R.gws[x].refs) /\ R.back = p /\ p \in R.gws[g].refs
        /\ \A x \in Gateways \ {g} : p \in gw[x].refs => x \in R.inv /\ p \in R.gws[x].refs
        /\ g \in R.fresh /\ DoneSoFar(p)
    <3>1. R.pc \in {"condition", "status"}
      OBVIOUS
    <3> QED
      BY <1>0, <2>2, <3>1 DEF Gathered
  <2>8. DoneSoFar(p)'
    BY <1>0, <1>1, <2>1, <2>2, <2>5, <2>7, MarksDone
  <2>9. ASSUME NEW x \in Gateways \ {g}
        PROVE  p \notin gw'[x].refs
    <3>1. p \notin gw[x].refs
      BY <2>7
    <3>2. gw'[x].refs = gw[x].refs
      BY <1>2, <1>3
    <3> QED
      BY <3>1, <3>2
  <2>10. /\ g \in DOMAIN R.gws /\ h \in DOMAIN R.gws /\ \A x \in R.inv : x \in DOMAIN R.gws
         /\ gw[h].refs = R.gws[h].refs \/ p \notin gw[h].refs
    <3>1. CopiesCurrent(k)
      BY <1>1 DEF Inv, WorkerInv
    <3> QED
      BY <2>3, <2>4, <2>7, <3>1 DEF CopiesCurrent
  <2>11. p \in S.gws[g].refs /\ \A x \in R.inv : p \notin S.gws[x].refs
    <3>1. p \notin r.refs
      BY <1>2, <2>4, <2>7
    <3>2. S.gws[h] = r /\ \A x \in DOMAIN R.gws : x # h => S.gws[x] = R.gws[x]
      BY <1>2, <2>10
    <3> QED
      BY <2>4, <2>7, <2>10, <3>1, <3>2
  <2>12. Gathered(p)'
    BY <1>2, <2>1, <2>2, <2>4, <2>7, <2>8, <2>9, <2>11 DEF Gathered
  <2> QED
    BY <2>6, <2>12
<1> QED
  BY <1>0, <1>2, <1>4, <1>5, <1>6, OwnStays

\* The conditions: the stage ends when the one of p is on the target.
LEMMA OwnCondition ==
  ASSUME NEW p \in Policies, InHand(p), updateGatewayCondition(Kind(p)), rc[Kind(p)].mode = "apply"
  PROVE  Cared(p)'
<1> DEFINE k == Kind(p)
           R == rc[k]
           S == rc'[k]
           wanted == [policy |-> p, reason |-> Reason(k)]
           differ == {h \in R.own : R.gws[h].cond[k] # wanted}
           left   == {h \in R.inv : R.gws[h].cond[k] # NoCondition}
<1>0. PICK g : g = pol[p].target
  OBVIOUS
<1>1. /\ Inv /\ Typed /\ k \in Kinds /\ R.p = p /\ R.pc = "condition" /\ SamePolicy(p)
      /\ UNCHANGED <<attrs, res, probes, faults>>
  BY KindOfPolicy DEF InHand, WorkInv, Inv, Busy, updateGatewayCondition
<1>2. ASSUME Applying(p)
      PROVE  /\ g \in Gateways /\ R.own = {g} /\ p \in R.gws[g].refs /\ gw[g] = R.gws[g] /\ R.back = p
             /\ (\A h \in R.inv : p \notin R.gws[h].refs) /\ DoneSoFar(p)
  <2>1. R.pc \notin {"finalizer", "diff"} /\ R.pc \in {"condition", "status"}
    BY <1>1
  <2>2. g \in Gateways /\ Gathered(p) /\ (p \in R.gws[g].refs => gw[g] = R.gws[g])
    BY <1>0, <1>2, <2>1, OwnFacts DEF Applying
  <2> QED
    BY <1>0, <2>1, <2>2 DEF Gathered
<1>3. ASSUME NEW h \in R.own \cup R.inv, NEW c \in [policy : Policies \cup {"none"}, reason : AllReasons],
             WriteListed(k, h, [R.gws[h] EXCEPT !.cond[k] = c]), h \in R.own \/ h \in left
      PROVE  Cared(p)'
  <2>1. CASE h \notin R.fresh
    <3>1. Abort(k) /\ UNCHANGED gw
      BY <1>3, <2>1 DEF WriteListed
    <3> QED
      BY <1>1, <3>1, OwnAbort
  <2>2. CASE h \in R.fresh /\ (Applying(p) => h \in R.inv)
    <3>1. PICK r \in GatewayObject : CondPut(k, h, r)
      BY <1>1, <1>3, <2>2, CondFields
    <3>2. h \in Gateways
      BY <1>1, <1>3, <2>2, CondFields
    <3> QED
      BY <1>1, <2>2, <3>1, <3>2, OwnCondPut
  <2>3. CASE Applying(p) /\ h \in R.own
    <3>1. p \in R.gws[h].refs
      BY <1>2, <2>3
    <3>2. PICK r : WriteListed(k, h, r)
      BY <1>3
    <3> QED
      BY <1>1, <1>3, <3>1, <3>2, OwnRefused
  <2> QED
    BY <1>3, <2>1, <2>2, <2>3
<1>4. NoCondition \in [policy : Policies \cup {"none"}, reason : AllReasons]
  BY DEF NoCondition, AllReasons, Failures
<1>5. wanted \in [policy : Policies \cup {"none"}, reason : AllReasons]
  <2>1. R.err \in Failures
    BY <1>1 DEF Typed, Reconciling
  <2>2. Reason(k) \in AllReasons
    BY <2>1 DEF Reason, AllReasons
  <2> QED
    BY <2>2
<1>6. CASE differ = {} /\ Goto(k, "status") /\ UNCHANGED gw
  <2>1. KeepsHold(k) /\ S.pc = "status"
    BY <1>1, <1>6, GotoHold DEF Stages
  <2>2. ASSUME Applying(p)
        PROVE  Onward(p)
    <3>1. R.pc \notin {"finalizer", "diff"}
      BY <1>1
    <3>2. DoneSoFar(p)'
      BY <1>0, <1>1, <1>2, <1>6, <2>1, <2>2, MarksDone
    <3>3. R.gws[g].cond[k] = wanted
      BY <1>2, <1>6, <2>2
    <3>4. Reason(k) = "Accepted"
      BY <2>2 DEF Applying, Reason
    <3> QED
      BY <1>0, <1>2, <2>2, <3>1, <3>2, <3>3, <3>4 DEF Onward
  <2> QED
    BY <1>1, <1>6, <2>1, <2>2, OwnOn
<1>7. \/ \E h \in differ : WriteListed(k, h, [R.gws[h] EXCEPT !.cond[k] = wanted])
      \/ \E h \in left : WriteListed(k, h, [R.gws[h] EXCEPT !.cond[k] = NoCondition])
      \/ differ = {} /\ Goto(k, "status") /\ UNCHANGED gw
  BY <1>1 DEF updateGatewayCondition
<1>8. ASSUME NEW h \in differ, WriteListed(k, h, [R.gws[h] EXCEPT !.cond[k] = wanted])
      PROVE  Cared(p)'
  BY <1>3, <1>5, <1>8
<1>9. ASSUME NEW h \in left, WriteListed(k, h, [R.gws[h] EXCEPT !.cond[k] = NoCondition])
      PROVE  Cared(p)'
  BY <1>3, <1>4, <1>9
<1> QED
  BY <1>6, <1>7, <1>8, <1>9

\* The status: the last stage, after which p is in force.
LEMMA OwnStatus ==
  ASSUME NEW p \in Policies, InHand(p), updateStatus(Kind(p))
  PROVE  Cared(p)'
<1> DEFINE k == Kind(p)
           R == rc[k]
           S == rc'[k]
<1>0. PICK g : g = pol[p].target
  OBVIOUS
<1>1. /\ Inv /\ Typed /\ k \in Kinds /\ R.p = p /\ R.pc = "status" /\ R.mode = "apply" /\ SamePolicy(p)
      /\ p \notin queued' /\ Cared(p) /\ ~Contested(p) /\ p \notin queued /\ Busy(p)
      /\ UNCHANGED <<gw, attrs, res, probes, faults>>
  BY KindOfPolicy DEF InHand, WorkInv, Inv, Busy, updateStatus, StageInv
<1>2. R.copy.ready = readyCondition(k) /\ R.err = "none"
  BY <1>1 DEF updateStatus, Return
<1>3. S.pc = "idle"
  <2>1. S = Idle
    BY <1>1 DEF updateStatus, Return, Typed
  <2> QED
    BY <2>1, SMTT(30) DEF Idle
<1>4. ~Waiting(p)'
  BY <1>1 DEF Cared, Waiting, SamePolicy
<1>5. ASSUME Due(p)'
      PROVE  InForce(p)'
  <2>1. Due(p) /\ R.pc \notin {"finalizer", "diff"} /\ R.pc \in {"condition", "status"}
    BY <1>1, <1>5 DEF Due, SamePolicy
  <2>2. g \in Gateways /\ Aligned(p) /\ Gathered(p) /\ (p \in R.gws[g].refs => gw[g] = R.gws[g]) /\ pol'[p].target = g
    BY <1>0, <1>1, <1>2, <2>1, OwnFacts DEF SamePolicy
  <2>3. /\ (\A h \in R.inv : p \notin R.gws[h].refs) /\ R.back = p /\ p \in R.gws[g].refs
        /\ \A h \in Gateways \ {g} : p \in gw[h].refs => h \in R.inv /\ p \in R.gws[h].refs
        /\ gw[g].cond[k] = [policy |-> p, reason |-> "Accepted"] /\ DoneSoFar(p)
    BY <1>0, <1>1, <2>1, <2>2 DEF Gathered
  <2>4. \A h \in Gateways : p \in gw[h].refs <=> h = g
    BY <2>2, <2>3
  <2>5. gw[g].back[k] = p /\ pol[p].ready = "ok"
    BY <1>0, <1>2, <2>2, <2>3 DEF Aligned, readyCondition
  <2>6. Marked(p)'
    BY <1>1, <2>2, <2>3, <2>4, <2>5 DEF Marked, SamePolicy
  <2>7. SameObjects(p, g) /\ Tidy(p) /\ Made(p) /\ Probed(p)
    BY <1>1, <2>3 DEF SameObjects, DoneSoFar
  <2>8. Tidy(p)' /\ Made(p)' /\ Probed(p)'
    BY <1>0, <1>1, <2>2, <2>7, DoneKept
  <2> QED
    BY <2>6, <2>8, ForceIs
<1>6. ~Busy(p)'
  BY <1>3 DEF Busy
<1> QED
  BY <1>4, <1>5, <1>6 DEF Cared

-----------------------------------------------------------------------------
(* Numbers *)

INSTANCE WellFoundedInduction

\* Every set of numbers that is not empty has a least one: induction without an induction formula.
LEMMA LeastNumber ==
  ASSUME NEW T \in SUBSET Nat, T # {}
  PROVE  \E x \in T : \A y \in T : x <= y
<1> DEFINE R == {ss \in Nat \X Nat : ss[1] < ss[2]}
<1>1. IsWellFoundedOn(R, Nat)
  BY NatLessThanWellFounded DEF OpToRel
<1>2. PICK x \in T : \A y \in T : <<y, x>> \notin R
  BY <1>1, WFMin
<1>3. ASSUME NEW y \in T
      PROVE x <= y
  <2>1. <<y, x>> \notin {ss \in Nat \X Nat : ss[1] < ss[2]}
    BY <1>2
  <2> QED
    BY <2>1, SMTT(30)
<1> QED
  BY <1>3

-----------------------------------------------------------------------------
(* The records *)

\* The next place of a loop from i on is the least one.
LEMMA NextOf ==
  ASSUME NEW Has \in SUBSET Nat, NEW i \in Nat, NEW j \in Has, i <= j
  PROVE  \E n \in Has : i <= n /\ n <= j /\ \A m \in i..(n - 1) : m \notin Has
<1> DEFINE T == {m \in Has : i <= m}
<1>1. T \in SUBSET Nat /\ j \in T
  OBVIOUS
<1>2. PICK n \in T : \A m \in T : n <= m
  BY <1>1, LeastNumber
<1>3. n \in Has /\ i <= n /\ n <= j /\ n \in Nat /\ j \in Nat
  BY <1>1, <1>2
<1>4. ASSUME NEW m \in i..(n - 1)
      PROVE  m \notin Has
  <2>1. m \in Nat /\ i <= m /\ ~(n <= m)
    BY <1>3, <1>4, SMTT(30)
  <2> QED
    BY <1>2, <2>1
<1> QED
  BY <1>3, <1>4

\* The records that the loop has written are those of the listeners it gets to, when it ends: at a listener
\* without routes, or behind the last one.
LEMMA LoopDone ==
  ASSUME Typed, NEW p \in Policies, Kind(p) = "dns", Walked(p), NEW g \in Gateways, g = pol[p].target,
         gw[g] = rc["dns"].gws[g], NEW l \in Reached(g),
         \/ \A j \in DOMAIN Listeners : ~AtListener(g, j)
         \/ \E j \in DOMAIN Listeners : AtListener(g, j) /\ Listeners[j] \notin gw[g].routes
  PROVE  l \in gw[g].routes /\ RecordApplied(p, g, l)
<1> DEFINE N == Len(Listeners)
           Has == {m \in 1..N : Listeners[m] \in gw[g].listeners}
<1>1. DOMAIN Listeners = 1..N /\ N \in Nat
  BY PolicyConstants, SMTT(30)
<1>2. PICK i \in Nat : i = rc["dns"].i /\ i > 0
  <2>1. rc["dns"] \in Reconciling
    BY DEF Typed, Kinds
  <2>2. rc["dns"].i \in Places
    BY <2>1 DEF Reconciling
  <2> HIDE DEF N
  <2>3. Places = 1..(N + 1)
    BY DEF Places, N
  <2> QED
    BY <1>1, <2>2, <2>3, SMTT(30)
<1>3. PICK j \in Has : Listeners[j] = l /\ \A m \in 1..j : m \in Has => Listeners[m] \in gw[g].routes
  <2>1. PICK j \in DOMAIN Listeners : /\ Listeners[j] = l /\ Listeners[j] \in gw[g].listeners
                     /\ \A m \in 1..j : Listeners[m] \in gw[g].listeners => Listeners[m] \in gw[g].routes
    BY DEF Reached
  <2> QED
    BY <1>1, <2>1
<1>4. Has \in SUBSET Nat /\ \A n \in Has : n > 0
  <2> HIDE DEF N
  <2>1. \A n \in 1..N : n \in Nat /\ n > 0
    BY <1>1, SMTT(30)
  <2> QED
    BY <2>1
<1>5. ASSUME NEW n
      PROVE  AtListener(g, n) <=> n \in Has /\ i <= n /\ \A m \in i..(n - 1) : m \notin Has
  <2>1. ASSUME n \in i..N
        PROVE  /\ i <= n /\ (n \in Has <=> Listeners[n] \in gw[g].listeners)
               /\ \A m \in i..(n - 1) : m \in 1..N
    <3> HIDE DEF N
    <3> QED
      BY <1>1, <1>2, <2>1, SMTT(30)
  <2>2. ASSUME n \in Has, i <= n
        PROVE  n \in i..N
    <3> HIDE DEF N
    <3> QED
      BY <1>1, <1>2, <2>2, SMTT(30)
  <2> QED
    BY <1>2, <2>1, <2>2 DEF AtListener
<1> HIDE DEF Has, N
<1>6. CASE j < i
  <2>1. j \in 1..(i - 1)
    BY <1>2, <1>4, <1>6, SMTT(30)
  <2>2. Listeners[j] \in gw[g].listeners
    BY <1>3 DEF Has
  <2> QED
    BY <1>2, <1>3, <2>1, <2>2 DEF Walked
<1>7. CASE i <= j
  <2>1. PICK n \in Has : i <= n /\ n <= j /\ \A m \in i..(n - 1) : m \notin Has
    BY <1>2, <1>3, <1>4, <1>7, NextOf
  <2>2. n \in DOMAIN Listeners /\ AtListener(g, n)
    BY <1>1, <1>5, <2>1 DEF Has
  <2>3. PICK m \in DOMAIN Listeners : AtListener(g, m) /\ Listeners[m] \notin gw[g].routes
    BY <2>2
  <2>4. m \in Has /\ j \notin i..(m - 1)
    BY <1>3, <1>5, <2>3
  <2>5. m \in 1..j
    <3>1. m \in Nat /\ m > 0 /\ j \in Nat
      BY <1>3, <1>4, <2>4
    <3> QED
      BY <1>2, <1>7, <2>4, <3>1, SMTT(30)
  <2> QED
    BY <1>3, <2>3, <2>4, <2>5
<1>8. j < i \/ i <= j
  BY <1>2, <1>3, <1>4, SMTT(30)
<1> QED
  BY <1>6, <1>7, <1>8

\* The records, listener by listener.
LEMMA OwnRecords ==
  ASSUME NEW p \in Policies, InHand(p), Kind(p) = "dns", reconcileGatewayDNSRecords
  PROVE  Cared(p)'
<1> DEFINE R == rc["dns"]
           S == rc'["dns"]
<1>0. PICK g : g = pol[p].target
  OBVIOUS
<1>1. /\ Typed /\ Kind(p) \in Kinds /\ R.p = p /\ R.pc = "listeners" /\ SamePolicy(p)
      /\ UNCHANGED <<gw, faults, attrs, probes>>
  BY KindOfPolicy DEF InHand, WorkInv, Inv, Busy, reconcileGatewayDNSRecords
<1>2. ASSUME Known(p)
      PROVE  /\ g \in Gateways /\ R.own = {g} /\ gw[g] = R.gws[g] /\ pol'[p].target = g
             /\ Tidy(p) /\ Walked(p)
  <2>1. DoneSoFar(p) => Tidy(p) /\ Walked(p)
    BY <1>1 DEF DoneSoFar
  <2> QED
    BY <1>0, <1>2, <2>1 DEF Known, SamePolicy
<1>3. R.own \subseteq Gateways /\ R \in Reconciling /\ rc \in [Kinds -> Reconciling]
  BY <1>1 DEF Typed, Reconciling
<1>4. "probes" \in Stages
  BY DEF Stages
<1>5. \A j \in DOMAIN Listeners : Listeners[j] \in ListenerSet
  BY DEF ListenerSet
<1>6. CASE (\A h \in R.own, j \in DOMAIN Listeners : ~AtListener(h, j)) /\ Goto("dns", "probes") /\ UNCHANGED res
  <2>1. KeepsHold("dns") /\ S.pc = "probes"
    BY <1>1, <1>4, <1>6, GotoHold
  <2>2. ASSUME Known(p)
        PROVE  DoneSoFar(p)'
    <3>1. \A j \in DOMAIN Listeners : ~AtListener(g, j)
      BY <1>2, <1>6, <2>2
    <3>2. \A l \in Reached(g) : RecordApplied(p, g, l)
      BY <1>0, <1>1, <1>2, <2>2, <3>1, LoopDone
    <3>3. Made(p) /\ Tidy(p)
      BY <1>0, <1>2, <2>2, <3>2 DEF Made
    <3>4. SameObjects(p, g)
      BY <1>1, <1>6 DEF SameObjects
    <3>5. Made(p)' /\ Tidy(p)'
      BY <1>0, <1>1, <1>2, <2>2, <3>3, <3>4, DoneKept
    <3> QED
      BY <2>1, <3>5 DEF DoneSoFar
  <2> QED
    BY <1>1, <2>1, <2>2, OwnDoes
<1>7. ASSUME NEW h \in R.own, NEW j \in DOMAIN Listeners, AtListener(h, j), Listeners[j] \notin gw[h].routes,
             EndAtUnrouted(h, Listeners[j])
      PROVE  Cared(p)'
  <2>1. KeepsHold("dns") /\ S.pc = "probes"
    BY <1>1, <1>4, <1>7, GotoHold DEF EndAtUnrouted
  <2>2. ASSUME Known(p)
        PROVE  DoneSoFar(p)'
    <3>1. h = g /\ g \in Gateways /\ Listeners[j] \in ListenerSet
      BY <1>2, <1>5, <2>2
    <3>2. ASSUME NEW l \in Reached(g)
          PROVE  l \in gw[g].routes /\ RecordApplied(p, g, l)
      BY <1>0, <1>1, <1>2, <1>7, <2>2, <3>1, <3>2, LoopDone
    <3>3. PutResource(g, Listeners[j], NoResource)
      BY <1>7, <3>1 DEF PutResource, EndAtUnrouted, DeleteResource
    <3>4. \A m \in ListenerSet : res'[g][m] \in {res[g][m], NoResource} /\ (m # Listeners[j] => res'[g][m] = res[g][m])
      BY <1>1, <3>1, <3>3, ObjectWritten, SMTT(30)
    <3>5. Reached(g)' = Reached(g) /\ Reached(g) \subseteq ListenerSet
      BY <1>1 DEF Reached, ListenerSet
    <3>6. ASSUME NEW l \in Reached(g)
          PROVE  RecordApplied(p, g, l)'
      <4>1. l # Listeners[j] /\ l \in ListenerSet
        BY <1>7, <3>1, <3>2, <3>5, <3>6
      <4> QED
        BY <1>1, <3>2, <3>4, <3>6, <4>1 DEF RecordApplied
    <3>7. Made(p)'
      BY <1>2, <2>2, <3>5, <3>6 DEF Made
    <3>8. RecordsCleared(g)
      BY <1>0, <1>2, <2>2 DEF Tidy
    <3>9. RecordsCleared(g)'
      BY <1>1, <3>4, <3>8 DEF RecordsCleared
    <3>10. Tidy(p)'
      BY <1>2, <2>2, <3>9 DEF Tidy
    <3> QED
      BY <2>1, <3>7, <3>10 DEF DoneSoFar
  <2> QED
    BY <1>1, <2>1, <2>2, OwnDoes
<1>8. ASSUME NEW h \in R.own, NEW j \in DOMAIN Listeners, AtListener(h, j), Listeners[j] \in gw[h].routes,
             res' = [res EXCEPT ![h][Listeners[j]] = Desired(R.p, h, Listeners[j], {Listeners[j]})],
             rc' = [rc EXCEPT !["dns"].i = j + 1]
      PROVE  Cared(p)'
  <2>1. KeepsHold("dns") /\ S.pc = "listeners" /\ S.i = j + 1
    <3>1. j + 1 \in Places
      BY NextPlace
    <3>2. S = [R EXCEPT !.i = j + 1]
      BY <1>1, <1>3, <1>8
    <3> QED
      BY <1>1, <1>3, <3>1, <3>2, SMTT(30) DEF KeepsHold, Reconciling
  <2>2. ASSUME Known(p)
        PROVE  DoneSoFar(p)'
    <3>1. h = g /\ g \in Gateways /\ Listeners[j] \in ListenerSet
      BY <1>2, <1>5, <2>2
    <3> DEFINE l == Listeners[j]
    <3>2. PutResource(g, l, Desired(p, g, l, {l}))
      BY <1>1, <1>8, <3>1 DEF PutResource
    <3>3. res'[g][l] = Desired(p, g, l, {l}) /\ \A m \in ListenerSet : m # l => res'[g][m] = res[g][m]
      BY <1>1, <3>1, <3>2, ObjectWritten, SMTT(30)
    <3>4. RecordApplied(p, g, l)'
      BY <1>1, <3>1, <3>3, SMTT(30) DEF RecordApplied, Desired
    <3>5. ASSUME NEW m \in ListenerSet, RecordApplied(p, g, m)
          PROVE  RecordApplied(p, g, m)'
      BY <1>1, <3>3, <3>4, <3>5 DEF RecordApplied
    <3>6. l \in gw[g].listeners
      BY <1>2, <1>8, <2>2, <3>1 DEF AtListener
    <3>7. RecordsCleared(g)
      BY <1>0, <1>2, <2>2 DEF Tidy
    <3>8. RecordsCleared(g)'
      BY <1>1, <3>3, <3>6, <3>7 DEF RecordsCleared
    <3>9. Tidy(p)'
      BY <1>2, <2>2, <3>8 DEF Tidy
    <3>10. ASSUME NEW m \in 1..(S.i - 1), Listeners[m] \in gw[g].listeners
           PROVE  Listeners[m] \in gw[g].routes /\ RecordApplied(p, g, Listeners[m])'
      <4>1. m = j \/ m \in 1..(R.i - 1) \/ m \in R.i..(j - 1)
        <5>1. PICK i \in Nat : i = R.i
          BY <1>3, PolicyConstants, SMTT(30) DEF Reconciling, Places
        <5>2. j \in Nat
          BY PolicyConstants, SMTT(30)
        <5> QED
          BY <2>1, <3>10, <5>1, <5>2, SMTT(30)
      <4>2. m \notin R.i..(j - 1)
        BY <1>2, <1>8, <2>2, <3>1, <3>10 DEF AtListener
      <4>3. CASE m = j
        BY <1>8, <3>1, <3>4, <4>3
      <4>4. CASE m \in 1..(R.i - 1)
        <5>1. gw[g].listeners \subseteq ListenerSet
          BY <1>1, <3>1 DEF Typed, GatewayObject
        <5>2. Listeners[m] \in gw[g].routes /\ RecordApplied(p, g, Listeners[m])
          BY <1>0, <1>2, <2>2, <3>10, <4>4 DEF Walked
        <5>3. Listeners[m] \in ListenerSet
          BY <3>10, <5>1
        <5> QED
          BY <3>5, <5>2, <5>3
      <4> QED
        BY <4>1, <4>2, <4>3, <4>4
    <3>11. Walked(p)'
      BY <1>1, <1>2, <2>2, <3>10 DEF Walked
    <3> QED
      BY <2>1, <3>9, <3>11 DEF DoneSoFar
  <2> QED
    BY <1>1, <2>1, <2>2, OwnDoes
<1>9. CASE Abort("dns")
  BY <1>1, <1>9, OwnAbort
<1> QED
  BY <1>6, <1>7, <1>8, <1>9 DEF reconcileGatewayDNSRecords, reconcileListener

-----------------------------------------------------------------------------
(* At rest, all steps together *)

\* Any step of the worker that has p in hand keeps p cared for.
LEMMA OwnWork ==
  ASSUME NEW p \in Policies, InHand(p), Work(Kind(p))
  PROVE  Cared(p)'
<1> DEFINE k == Kind(p)
           R == rc[k]
<1>1. CASE R.mode # "apply"
  BY <1>1, OwnLeaving
<1>2. CASE R.mode = "apply"
  <2>1. PolicyHeld(k) /\ R.pc # "idle"
    BY KindOfPolicy DEF InHand, WorkInv, Inv, WorkerInv, Busy
  <2>2. R.pc # "rediff" /\ R.pc # "remove"
    BY <1>2, <2>1 DEF PolicyHeld
  <2>3. CASE AddFinalizer(k) \/ ComputeGatewayDiffs(k) \/ deleteResources(k)
    BY <1>2, <2>3, OwnFinalizer, OwnDiff, OwnDelete
  <2>4. CASE k = "dns" /\ (reconcileGatewayDNSRecords \/ reconcileHealthChecks)
    BY <2>4, OwnRecords, OwnProbes
  <2>5. CASE k = "tls" /\ reconcileGatewayCertificates
    BY <2>5, OwnCertificates
  <2>6. CASE ReconcileTargetBackReference(k) \/ ReconcileGatewayPolicyReferences(k)
    BY <1>2, <2>6, OwnClaim, OwnRefs
  <2>7. CASE updateGatewayCondition(k) \/ updateStatus(k)
    BY <1>2, <2>7, OwnCondition, OwnStatus
  <2>8. CASE DeleteTargetBackReference(k) \/ RecomputeGatewayDiffs(k) \/ RemoveFinalizer(k)
    BY <1>2, <2>2, <2>8 DEF DeleteTargetBackReference, RecomputeGatewayDiffs, RemoveFinalizer
  <2> QED
    BY <2>3, <2>4, <2>5, <2>6, <2>7, <2>8 DEF Work
<1> QED
  BY <1>1, <1>2

\* No other policy of its kind is queued, or in hand, beside one that nobody competes with.
LEMMA OnlyOne ==
  ASSUME WorkInv, NEW p \in Policies, ~Contested(p)
  PROVE  /\ \A q \in queued : Kind(q) = Kind(p) => q = p
         /\ rc[Kind(p)].pc # "idle" => rc[Kind(p)].p = p
<1>1. Inv /\ CrewInv /\ Kind(p) \in Kinds
  BY KindOfPolicy DEF WorkInv
<1>2. \A q \in InPlay : Kind(q) = Kind(p) => q = p
  BY DEF InPlay, Contested
<1>3. \A q \in queued : q \in InPlay
  BY <1>1 DEF CrewInv
<1>4. rc[Kind(p)].pc # "idle" => rc[Kind(p)].p \in InPlay
  BY <1>1 DEF CrewInv
<1>5. rc[Kind(p)].pc # "idle" => Kind(rc[Kind(p)].p) = Kind(p)
  BY <1>1 DEF Inv, WorkerInv, PolicyHeld
<1> QED
  BY <1>2, <1>3, <1>4, <1>5

\* A worker takes p.
LEMMA SetsOut ==
  ASSUME WorkInv, NEW p \in Policies, SamePolicy(p), Start(Kind(p), p) \/ TargetUnread(Kind(p), p)
  PROVE  Cared(p)'
<1> DEFINE k == Kind(p)
           S == rc'[k]
<1>0. PICK g : g = pol[p].target
  OBVIOUS
<1>1. Inv /\ k \in Kinds /\ UNCHANGED gw /\ pol'[p].target = g
  BY <1>0, KindOfPolicy DEF WorkInv, Start, TargetUnread, SamePolicy
<1>2. CASE pol[p].phase # "live"
  BY <1>2 DEF Cared, Due, Waiting, SamePolicy
<1>3. CASE pol[p].phase = "live"
  <2>1. g \in Gateways /\ g # "none"
    <3>1. g \in Gateways
      BY <1>0, <1>1, <1>3 DEF Inv, ObjectInv
    <3> QED
      BY <3>1, PolicyConstants
  <2>2. CASE gw[g].exists /\ Begin(k, p, g)
    <3>1. /\ S.p = p /\ S.copy = pol[p] /\ S.target = g /\ S.pc \in {"finalizer", "diff"} /\ S.mode = "apply"
          /\ S.back = gw[g].back[k]
      BY <1>1, <1>3, <2>1, <2>2, BeginFields, SMTT(30)
    <3>2. Busy(p)' /\ ~Waiting(p)'
      BY <1>1, <2>2, <3>1 DEF Busy, Waiting
    <3>3. Aligned(p)'
      BY <1>0, <1>1, <3>1 DEF Aligned, SamePolicy
    <3>4. Underway(p)'
      BY <3>1, <3>3 DEF Underway
    <3> QED
      BY <3>2, <3>4 DEF Cared
  <2>3. CASE ~gw[g].exists /\ Begin(k, p, "none")
    <3>1. S.p = p /\ S.pc \in {"finalizer", "diff"} /\ S.mode = "cleanup"
      BY <1>1, <1>3, <2>3, BeginFields, SMTT(30)
    <3>2. Busy(p)' /\ ~Due(p)'
      BY <1>1, <2>3, <3>1 DEF Busy, Due
    <3> QED
      BY <3>1, <3>2 DEF Cared
  <2>4. ~TargetUnread(k, p)
    BY <1>3 DEF TargetUnread
  <2> QED
    BY <1>0, <1>3, <2>2, <2>3, <2>4 DEF Start, Valid
<1> QED
  BY <1>2, <1>3

\* A worker of the other kind takes a policy, or fails.
LEMMA OtherStarts ==
  ASSUME WorkInv, NEW p \in Policies, SamePolicy(p), NEW k \in Kinds, k # Kind(p),
         CallFails(k) \/ \E q \in Policies : Kind(q) = k /\ (Start(k, q) \/ TargetUnread(k, q))
  PROVE  Apart(p)
<1>1. Typed /\ Kind(p) \in Kinds
  BY KindOfPolicy DEF WorkInv, Inv
<1>2. rc'[Kind(p)] = rc[Kind(p)]
  <2>1. CASE CallFails(k)
    BY <1>1, <2>1, AbortOther DEF CallFails
  <2>2. ASSUME NEW q \in Policies, Start(k, q) \/ TargetUnread(k, q)
        PROVE  rc' = rc \/ \E S : rc' = [rc EXCEPT ![k] = S]
    BY <2>2 DEF Start, TargetUnread, Begin
  <2>3. ASSUME NEW S, rc' = [rc EXCEPT ![k] = S]
        PROVE  rc'[Kind(p)] = rc[Kind(p)]
    BY <1>1, <2>3 DEF Typed
  <2> QED
    BY <2>1, <2>2, <2>3
<1>3. UNCHANGED <<gw, attrs, res, probes>> /\ (faults' = faults \/ \E kind : faults' = faults \cup {kind})
  BY DEF CallFails, Start, TargetUnread, Fault
<1>4. SameWork(Kind(p)) /\ rc'[Kind(p)].fresh = rc[Kind(p)].fresh
  BY <1>2 DEF SameWork
<1>5. SameObjects(p, pol[p].target) /\ faults \subseteq faults'
  BY <1>3 DEF SameObjects
<1> QED
  BY <1>3, <1>4, <1>5, StillApart

\* The routes of a listener cannot be read.
LEMMA UnreadCared ==
  ASSUME WorkInv, [Next]_vars, NEW p \in Policies, SamePolicy(p), Cared(p), p \notin queued, p \notin queued', RoutesUnread
  PROVE  Cared(p)'
<1>1. CASE Kind(p) = "dns"
  <2>1. "routes" \in faults'
    BY DEF RoutesUnread, Fault
  <2>2. ~Due(p)' /\ ~Waiting(p)'
    BY <1>1, <2>1 DEF Due, Waiting
  <2> QED
    BY <2>2 DEF Cared
<1>2. CASE Kind(p) # "dns"
  <2>1. Typed /\ "dns" \in Kinds /\ Kind(p) \in Kinds /\ rc["dns"].own \subseteq Gateways
    BY KindOfPolicy DEF WorkInv, Inv, Typed, Reconciling, Kinds
  <2>2. PICK h \in rc["dns"].own, j \in DOMAIN Listeners : EndAtUnrouted(h, Listeners[j])
    BY DEF RoutesUnread
  <2>3. h \in Gateways /\ Listeners[j] \in Names("dns") /\ PutResource(h, Listeners[j], NoResource)
    BY <2>1, <2>2 DEF Names, ListenerSet, EndAtUnrouted, DeleteResource, PutResource
  <2>4. UNCHANGED <<gw, attrs, probes>> /\ faults \subseteq faults'
    BY DEF RoutesUnread, Fault
  <2>5. pol[p].target \in Gateways => SameObjects(p, pol[p].target)
    BY <1>2, <2>1, <2>3, <2>4, NamesWritten
  <2>6. rc'[Kind(p)] = rc[Kind(p)]
    BY <1>2, <2>1, <2>2 DEF EndAtUnrouted, Goto, Typed
  <2>7. SameWork(Kind(p)) /\ rc'[Kind(p)].fresh = rc[Kind(p)].fresh
    BY <2>6 DEF SameWork
  <2>8. Apart(p)
    BY <2>4, <2>5, <2>7, StillApart
  <2> QED
    BY <2>8, ApartKeeps
<1> QED
  BY <1>1, <1>2

\* Any step keeps a policy cared for.
LEMMA CaredKept ==
  ASSUME WorkInv, [Next]_vars, NEW p \in Policies, Cared(p)
  PROVE  Cared(p)'
<1>1. SUFFICES ASSUME ~Contested(p), p \notin queued'
               PROVE  Cared(p)'
  <2>1. crew' = crew
    BY CrewStays
  <2> QED
    BY <2>1 DEF Cared, Contested
<1>2. Inv /\ Typed /\ Kind(p) \in Kinds /\ SamePolicy(p)
  BY <1>1, PolicyStep, KindOfPolicy DEF WorkInv, Inv
<1>3. CASE Restart
  <2>1. pol[p].phase = "absent"
    BY <1>1, <1>3 DEF Restart
  <2> QED
    BY <1>2, <2>1 DEF Cared, Due, Waiting, SamePolicy
<1>4. CASE p \in queued
  BY <1>1, <1>2, <1>3, <1>4, Dequeued, SetsOut
<1>5. CASE p \notin queued
  <2>1. ASSUME Apart(p)
        PROVE  Cared(p)'
    BY <1>1, <1>5, <2>1, ApartKeeps
  <2>2. ASSUME rc[Kind(p)].pc # "idle"
        PROVE  InHand(p)
    <3>1. Busy(p)
      BY <1>1, <2>2, OnlyOne DEF Busy
    <3> QED
      BY <1>1, <1>2, <1>5, <3>1 DEF InHand
  <2>3. ASSUME NEW q \in Policies, Start(Kind(q), q) \/ TargetUnread(Kind(q), q)
        PROVE  Cared(p)'
    <3>1. q \in queued
      BY <2>3 DEF Start, TargetUnread
    <3>2. Kind(q) # Kind(p)
      BY <1>1, <1>5, <3>1, OnlyOne
    <3>3. Kind(q) \in Kinds
      BY KindOfPolicy
    <3>4. Apart(p)
      BY <1>2, <2>3, <3>2, <3>3, OtherStarts
    <3> QED
      BY <2>1, <3>4
  <2>4. ASSUME NEW k \in Kinds, Work(k)
        PROVE  Cared(p)'
    <3>1. CASE k = Kind(p)
      <4>1. rc[k].pc # "idle"
        BY <2>4 DEF Work, AddFinalizer, ComputeGatewayDiffs, deleteResources, reconcileGatewayDNSRecords,
          reconcileHealthChecks, reconcileGatewayCertificates, ReconcileTargetBackReference,
          DeleteTargetBackReference, RecomputeGatewayDiffs, ReconcileGatewayPolicyReferences,
          updateGatewayCondition, updateStatus, RemoveFinalizer
      <4> QED
        BY <2>2, <2>4, <3>1, <4>1, OwnWork
    <3>2. CASE k # Kind(p)
      BY <1>1, <1>2, <2>1, <2>4, <3>2, OtherApart
    <3> QED
      BY <3>1, <3>2
  <2>5. ASSUME NEW k \in Kinds, CallFails(k)
        PROVE  Cared(p)'
    <3>1. CASE k = Kind(p)
      <4>1. rc[k].pc # "idle" /\ Abort(k) /\ UNCHANGED gw /\ faults \subseteq faults'
        BY <2>5 DEF CallFails, Fault
      <4> QED
        BY <2>2, <3>1, <4>1, OwnAbort
    <3>2. CASE k # Kind(p)
      <4>1. Apart(p)
        BY <1>2, <2>5, <3>2, OtherStarts
      <4> QED
        BY <2>1, <4>1
    <3> QED
      BY <3>1, <3>2
  <2>6. CASE RoutesUnread
    BY <1>1, <1>2, <1>5, <2>6, UnreadCared
  <2>7. CASE Edits
    BY <1>1, <1>2, <1>5, <2>1, <2>7, EditApart
  <2>8. CASE UNCHANGED vars
    <3>1. UNCHANGED <<gw, res, probes, attrs, faults, rc>>
      BY <2>8 DEF vars
    <3>2. SameWork(Kind(p)) /\ SameObjects(p, pol[p].target)
      BY <3>1 DEF SameWork, SameObjects
    <3>3. Apart(p)
      BY <1>2, <3>1, <3>2, StillApart
    <3> QED
      BY <2>1, <3>3
  <2> QED
    BY <1>3, <2>3, <2>4, <2>5, <2>6, <2>7, <2>8 DEF Next, Faults
<1> QED
  BY <1>4, <1>5

\* The invariant holds at first: every policy there is, is queued.
LEMMA InitRest ==
  ASSUME Init
  PROVE  RestInv
<1>1. WorkInv
  BY InitWork
<1>2. ASSUME NEW p \in Policies
      PROVE  pol[p].phase = "absent" \/ p \in queued
  <2>1. pol[p] = Absent \/ \E g \in FirstTargets : pol[p] = Created(g)
    BY DEF Init
  <2>2. Absent.phase = "absent" /\ \A g : Created(g).phase = "live"
    BY DEF Absent, Created
  <2>3. pol[p].phase = "live" => p \in queued
    BY DEF Init
  <2> QED
    BY <2>1, <2>2, <2>3
<1>3. \A p \in Policies : Pending(p) /\ Cared(p)
  BY <1>2 DEF Pending, Cared, Due, Waiting
<1> QED
  BY <1>1, <1>3 DEF RestInv

\* Every step keeps the invariant.
LEMMA RestKept ==
  ASSUME RestInv, [Next]_vars
  PROVE  RestInv'
<1>1. WorkInv /\ Inv /\ \A p \in Policies : Pending(p) /\ Cared(p)
  BY DEF RestInv, WorkInv
<1>2. WorkInv'
  BY <1>1, WorkKept
<1>3. ASSUME NEW p \in Policies
      PROVE  Pending(p)' /\ Cared(p)'
  <2>1. Kind(p) \in Kinds /\ StageInv(Kind(p))
    BY <1>1, KindOfPolicy DEF WorkInv
  <2>2. Moves(Kind(p))
    BY <1>1, <2>1, StepMoves
  <2>3. Pending(p)'
    BY <1>1, <2>2, PendingKept
  <2>4. Cared(p)'
    BY <1>1, CaredKept
  <2> QED
    BY <2>3, <2>4
<1> QED
  BY <1>2, <1>3 DEF RestInv

\* When both controllers are at rest, no deletion is pending and a policy alone of its kind is in force on its
\* gateway, whatever changes, refused writes, failed calls and restarts came before.
THEOREM AppliedAtRest ==
  Spec => []QuiescentMeansApplied
<1>1. Init => RestInv
  BY InitRest
<1>2. RestInv /\ [Next]_vars => RestInv'
  BY RestKept
<1>3. RestInv => QuiescentMeansApplied
  <2>1. SUFFICES ASSUME RestInv, AtRest, NEW p \in Policies
                 PROVE  pol[p].phase # "deleting" /\ (Due(p) /\ ~Contested(p) => InForce(p))
    BY DEF QuiescentMeansApplied
  <2>2. Pending(p) /\ Cared(p) /\ Kind(p) \in Kinds
    BY <2>1, KindOfPolicy DEF RestInv
  <2>3. p \notin queued /\ ~Busy(p)
    BY <2>1, <2>2 DEF AtRest, Busy
  <2> QED
    BY <2>2, <2>3 DEF Pending, Cared
<1> QED
  BY <1>1, <1>2, <1>3, PTL DEF Spec

-----------------------------------------------------------------------------
(* The zone of a host *)

\* What the search from label n of a host on finds, and one call of the search.
Below(host, n) ==
  {m \in n..(Len(host) - 1) :
     m > 1 /\ Suffix(host, m) \in zones /\ \A q \in n..m : Suffix(host, q) \notin PublicSuffixes}
Nearest(host, n) ==
  IF Below(host, n) = {} THEN <<>>
  ELSE Suffix(host, CHOOSE m \in Below(host, n) : \A q \in Below(host, n) : m <= q)
Call(host, n, rest) ==
  IF n = Len(host) \/ Suffix(host, n) \in PublicSuffixes THEN <<>>
  ELSE IF n > 1 /\ Suffix(host, n) \in zones THEN Suffix(host, n)
  ELSE rest

\* The nearest zone from one label on is found by a call that knows the nearest one from the next label on.
LEMMA NearestStep ==
  ASSUME NEW host, Len(host) \in Nat, NEW n \in 1..Len(host)
  PROVE  Nearest(host, n) = Call(host, n, Nearest(host, n + 1))
<1>1. CASE n = Len(host) \/ Suffix(host, n) \in PublicSuffixes
  <2>1. Below(host, n) = {}
    BY <1>1, SMTT(30) DEF Below
  <2> QED
    BY <1>1, <2>1 DEF Nearest, Call
<1>2. CASE /\ ~(n = Len(host) \/ Suffix(host, n) \in PublicSuffixes)
           /\ n > 1 /\ Suffix(host, n) \in zones
  <2>1. n \in Below(host, n)
    BY <1>2, SMTT(30) DEF Below
  <2>2. \A q \in Below(host, n) : q \in Int /\ n <= q
    BY SMTT(30) DEF Below
  <2>3. (CHOOSE m \in Below(host, n) : \A q \in Below(host, n) : m <= q) = n
    BY <2>1, <2>2, SMTT(30)
  <2>4. Nearest(host, n) = Suffix(host, n)
    BY <2>1, <2>3 DEF Nearest
  <2> QED
    BY <1>2, <2>4 DEF Call
<1>3. CASE /\ ~(n = Len(host) \/ Suffix(host, n) \in PublicSuffixes)
           /\ ~(n > 1 /\ Suffix(host, n) \in zones)
  <2>1. Below(host, n) = Below(host, n + 1)
    BY <1>3, SMTT(30) DEF Below
  <2> QED
    BY <1>3, <2>1, SMTT(30) DEF Nearest, Call
<1> QED
  BY <1>1, <1>2, <1>3

\* The search is the only function that calls itself so, and it finds the nearest zone.
LEMMA NearestFound ==
  ASSUME NEW host, Len(host) \in Nat \ {0}
  PROVE  findMatchingManagedZone(host) = Nearest(host, 1)
<1> DEFINE Search(f) == [n \in 1..Len(host) |-> Call(host, n, f[n + 1])]
<1>1. ASSUME NEW f, f = Search(f)
      PROVE  f[1] = Nearest(host, 1)
  <2> DEFINE T == {d \in Nat : d < Len(host) /\ f[Len(host) - d] # Nearest(host, Len(host) - d)}
  <2>1. CASE T = {}
    <3>1. Len(host) - 1 \in Nat /\ Len(host) - (Len(host) - 1) = 1 /\ Len(host) - 1 < Len(host)
      BY SMTT(30)
    <3> QED
      BY <2>1, <3>1
  <2>2. CASE T # {}
    <3>1. PICK d \in T : \A e \in T : d <= e
      BY <2>2, LeastNumber
    <3>2. PICK n \in 1..Len(host) : n = Len(host) - d
      BY <3>1, SMTT(30)
    <3>3. f[n] = Call(host, n, f[n + 1]) /\ f[n] # Nearest(host, n)
      BY <1>1, <3>1, <3>2
    <3>4. n # Len(host)
      BY <3>3, NearestStep DEF Call
    <3>5. d - 1 \in Nat /\ d - 1 < Len(host) /\ Len(host) - (d - 1) = n + 1 /\ ~(d <= d - 1)
      BY <3>1, <3>2, <3>4, SMTT(30)
    <3>6. f[n + 1] = Nearest(host, n + 1)
      BY <3>1, <3>5
    <3> QED
      BY <3>3, <3>6, NearestStep, SMTT(30)
  <2> QED
    BY <2>1, <2>2
<1>2. \E f : f = Search(f)
  <2> DEFINE f == [n \in 1..Len(host) |-> Nearest(host, n)]
  <2>1. ASSUME NEW n \in 1..Len(host)
        PROVE  Nearest(host, n) = Call(host, n, f[n + 1])
    <3>1. CASE n = Len(host)
      BY <3>1, NearestStep DEF Call
    <3>2. CASE n # Len(host)
      <4>1. n + 1 \in 1..Len(host)
        BY <3>2, SMTT(30)
      <4> QED
        BY <4>1, NearestStep
    <3> QED
      BY <3>1, <3>2
  <2>2. f = Search(f)
    BY <2>1
  <2> QED
    BY <2>2
<1>3. findMatchingManagedZone(host) = (CHOOSE f : f = Search(f))[1]
  BY DEF findMatchingManagedZone, Call
<1> QED
  BY <1>1, <1>2, <1>3

\* ClosestZone holds for every host, every set of zones and every list of public suffixes: the recursion over
\* the labels finds the longest managed domain, and no apex and no public suffix.
THEOREM ZoneAlwaysClosest ==
  Spec => []ClosestZone
<1>1. ClosestZone
  <2>1. SUFFICES ASSUME NEW host, Len(host) \in Nat \ {0}
                 PROVE  LET below == {n \in 2..(Len(host) - 1) :
                                        /\ Suffix(host, n) \in zones
                                        /\ \A m \in 1..n : Suffix(host, m) \notin PublicSuffixes}
                        IN findMatchingManagedZone(host) =
                             IF below = {} THEN <<>>
                             ELSE Suffix(host, CHOOSE n \in below : \A m \in below : n <= m)
    <3>1. \A l \in ListenerSet : Len(Host[l]) \in Nat \ {0}
      BY PolicyConstants, SMTT(30) DEF ListenerSet
    <3> QED
      BY <3>1 DEF ClosestZone
  <2> DEFINE below == {n \in 2..(Len(host) - 1) :
                         /\ Suffix(host, n) \in zones
                         /\ \A m \in 1..n : Suffix(host, m) \notin PublicSuffixes}
  <2>2. below = Below(host, 1)
    BY <2>1, SMTT(30) DEF Below
  <2>3. findMatchingManagedZone(host) = Nearest(host, 1)
    BY <2>1, NearestFound
  <2> QED
    BY <2>2, <2>3 DEF Nearest
<1> QED
  BY <1>1, PTL

=============================================================================
