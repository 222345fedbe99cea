----------------------- MODULE GatewayPlacementProofs -----------------------
(***************************************************************************)
(* Proofs about GatewayPlacement, for every set of gateways and clusters,  *)
(* every grace period and every bound on edits and faults.                 *)
(***************************************************************************)
EXTENDS GatewayPlacement, TLAPS

\* A leaf goes to Zenon, then to SMT, unless it names its prover.
USE Zenon, SMTT(30)

\* A gateway that is being deleted still has the finalizer: DeleteGateway keeps
\* the object only because of it, and only Finalize takes it off.
DeletingHasFinalizer ==
  \A g \in Gateways : gw[g].phase = "deleting" => gw[g].finalizer

\* A reconcile that has reached the placer works on a gateway that has been
\* created and that has had the finalizer ever since.
ReconcilingHasFinalizer ==
  rc.pc # "idle" =>
    gw[rc.g].phase # "absent" /\ (Exists(rc.g) => gw[rc.g].finalizer)

\* The inductive strengthening of WorksHeldByFinalizer.
FinalizerInv ==
  TypeOK /\ DeletingHasFinalizer /\ ReconcilingHasFinalizer
    /\ WorksHeldByFinalizer

\* A reconcile that deletes works without a grace period has seen a deletion
\* timestamp, which never goes away.
DeletingIsFinal ==
  rc.pc # "idle" /\ rc.deleting => gw[rc.g].phase \in {"deleting", "gone"}

\* The grace annotation is never ahead of the time the cluster has been out of
\* the decision, unless the cluster came back since it was written.
GraceBehindClock ==
  \A g \in Gateways, c \in Clusters :
    work[g][c].grace >= 0 /\ c \notin returned[g] =>
      outFor[g][c] >= GracePeriod - work[g][c].grace

\* The inductive invariant from which GraceHonoured follows.
GraceInv == TypeOK /\ DeletingIsFinal /\ GraceBehindClock

-----------------------------------------------------------------------------
(* Types *)

\* The records the model is built from, and the constants among them.
LEMMA RecordTypes ==
  /\ Spec0 \in WorkSpec
  /\ NoWork \in Work
  /\ NewGateway \in Gateway
  /\ \A g \in Gateways : Idle(g) \in Reconciling
  /\ GracePeriod \in Grace /\ NoGrace \in Grace /\ BadGrace \in Grace
BY GracePeriodAssumption, SMTT(30)
  DEF Spec0, WorkSpec, NoWork, Work, NewGateway, Gateway, Idle,
  Reconciling, Grace, NoGrace, BadGrace

\* What the provers need to know of a typed state, in one place: the fields of
\* the reconcile in progress, of one gateway and of one work.
LEMMA FieldTypes ==
  ASSUME TypeOK
  PROVE  /\ rc.g \in Gateways /\ rc.spec \in WorkSpec /\ rc.spec.gen \in Nat
         /\ rc.targets \subseteq Clusters /\ rc.placed \subseteq Clusters
         /\ rc.toPlace \subseteq Clusters /\ rc.toRemove \subseteq Clusters
         /\ \A g \in Gateways :
              /\ gw[g] \in Gateway
              /\ gw[g].gen \in Nat /\ gw[g].clusters \subseteq Clusters
         /\ \A g \in Gateways, c \in Clusters :
              work[g][c] \in Work /\ down[g][c] \in WorkSpec
BY SMTT(30) DEF TypeOK, Reconciling, Gateway, Work, WorkSpec

\* A write of one work keeps the type of the works.
LEMMA SetWorkType ==
  ASSUME TypeOK, NEW g \in Gateways, NEW c \in Clusters, NEW w \in Work,
         SetWork(g, c, w)
  PROVE  work' \in [Gateways -> [Clusters -> Work]]
BY DEF TypeOK, SetWork

\* What the controller makes of a work is a work.
LEMMA WorkTypes ==
  ASSUME TypeOK, NEW w \in Work
  PROVE  /\ Deleted(w) \in Work
         /\ CreateUpdateManifest(w) \in Work
         /\ [w EXCEPT !.grace = GraceTimeout] \in Work
         /\ [w EXCEPT !.grace = BadGrace] \in Work
         /\ [w EXCEPT !.phase = "applied"] \in Work
         /\ [w EXCEPT !.phase = "denied"] \in Work
BY FieldTypes, RecordTypes DEF Deleted, CreateUpdateManifest, GraceTimeout, Work

\* History variables keep their type.
LEMMA RecordType ==
  ASSUME TypeOK, NEW ticks \in Nat, Record(ticks)
  PROVE  /\ outFor' \in [Gateways -> [Clusters -> 0..GracePeriod]]
         /\ returned' \in [Gateways -> SUBSET Clusters]
<1>1. returned' \in [Gateways -> SUBSET Clusters]
  BY DEF Record
<1>2. ASSUME NEW g \in Gateways, NEW c \in Clusters
      PROVE  outFor'[g][c] \in 0..GracePeriod
  <2>1. outFor[g][c] \in 0..GracePeriod
    BY SMTT(30) DEF TypeOK
  <2>2. outFor'[g][c] = IF c \in decision'[g] THEN 0
                        ELSE IF outFor[g][c] + ticks > GracePeriod
                             THEN GracePeriod ELSE outFor[g][c] + ticks
    BY DEF Record
  <2>. QED
    BY <2>1, <2>2, GracePeriodAssumption, SMTT(30)
<1>3. outFor' \in [Gateways -> [Clusters -> 0..GracePeriod]]
  BY <1>2 DEF Record
<1>. QED
  BY <1>1, <1>3

\* A write of one gateway keeps the type of the gateways.
LEMMA SetGatewayType ==
  ASSUME TypeOK, NEW g \in Gateways, NEW r \in Gateway,
         SetGateway(g, r) \/ (g = rc.g /\ WriteBack(r))
  PROVE  gw' \in [Gateways -> Gateway]
BY SMTT(30) DEF TypeOK, SetGateway, WriteBack

\* Setting the Programmed condition yields a gateway of the same phase.
LEMMA ProgrammedType ==
  ASSUME NEW r \in Gateway, NEW n \in Nat,
         NEW p \in {"None", "Unknown", "True", "False"}
  PROVE  /\ Programmed(r, p, n) \in Gateway
         /\ Programmed(r, p, n).phase = r.phase
         /\ Programmed(r, p, n).finalizer = r.finalizer
BY Zenon DEF Gateway, Programmed

\* So does the acceptance of a gateway,
LEMMA AcceptedType ==
  ASSUME NEW r \in Gateway
  PROVE  /\ [r EXCEPT !.accepted = TRUE] \in Gateway
         /\ [r EXCEPT !.accepted = TRUE].phase = r.phase
         /\ [r EXCEPT !.accepted = TRUE].finalizer = r.finalizer
BY Zenon DEF Gateway

\* the write of its addresses,
LEMMA AddressesType ==
  ASSUME NEW r \in Gateway, NEW C \in SUBSET Clusters
  PROVE  /\ [r EXCEPT !.addresses = C] \in Gateway
         /\ [r EXCEPT !.addresses = C].phase = r.phase
         /\ [r EXCEPT !.addresses = C].finalizer = r.finalizer
BY DEF Gateway

\* of its clusters annotation,
LEMMA ClustersType ==
  ASSUME NEW r \in Gateway, NEW C \in SUBSET Clusters
  PROVE  /\ [r EXCEPT !.clusters = C] \in Gateway
         /\ [r EXCEPT !.clusters = C].phase = r.phase
         /\ [r EXCEPT !.clusters = C].finalizer = r.finalizer
BY DEF Gateway

\* and of its spec.
LEMMA GenerationType ==
  ASSUME NEW r \in Gateway
  PROVE  /\ [r EXCEPT !.gen = @ + 1] \in Gateway
         /\ [r EXCEPT !.gen = @ + 1].phase = r.phase
         /\ [r EXCEPT !.gen = @ + 1].finalizer = r.finalizer
BY SMTT(30) DEF Gateway

\* A gateway without its finalizer is gone.
LEMMA FinalizedType ==
  ASSUME NEW r \in Gateway
  PROVE  /\ [r EXCEPT !.phase = "gone", !.finalizer = FALSE] \in Gateway
         /\ [r EXCEPT !.phase = "gone", !.finalizer = FALSE].phase = "gone"
<1>1. [r EXCEPT !.phase = "gone", !.finalizer = FALSE] \in Gateway
  BY Zenon DEF Gateway
<1>2. [r EXCEPT !.phase = "gone", !.finalizer = FALSE].phase = "gone"
  BY DEF Gateway
<1>. QED
  BY <1>1, <1>2

\* The status as UpdateStatus writes it.
LEMMA NewStatusType ==
  ASSUME TypeOK, NEW addresses \in GetAddresses
  PROVE  /\ NewStatus(addresses) \in Gateway
         /\ NewStatus(addresses).phase = gw[rc.g].phase
         /\ NewStatus(addresses).finalizer = gw[rc.g].finalizer
<1>. DEFINE r == Programmed(gw[rc.g], ProgrammedStatus, rc.spec.gen)
<1>1. /\ r \in Gateway
      /\ r.phase = gw[rc.g].phase
      /\ r.finalizer = gw[rc.g].finalizer
  BY FieldTypes, ProgrammedType, Zenon DEF ProgrammedStatus
<1>2. addresses \subseteq Clusters
  BY FieldTypes DEF GetAddresses
<1>3. NewStatus(addresses) = [r EXCEPT !.addresses = addresses]
  BY DEF NewStatus
<1>. QED
  BY <1>1, <1>2, <1>3, AddressesType, SMTT(30)

\* Every step keeps the types: one lemma for each group of actions of Next.
LEMMA BeginType ==
  ASSUME TypeOK, NEW g \in Gateways, Begin(g) \/ EarlyError(g)
  PROVE  TypeOK'
<1>. USE FieldTypes
<1>1. CASE ReconcileGone(g)
  BY <1>1 DEF TypeOK, ReconcileGone, envVars, bounds, history
<1>2. CASE AddFinalizer(g)
  <2>1. [gw[g] EXCEPT !.finalizer = TRUE] \in Gateway
    BY Zenon DEF Gateway
  <2>2. gw' \in [Gateways -> Gateway]
    BY <1>2, <2>1, SetGatewayType DEF AddFinalizer
  <2>. QED
    BY <1>2, <2>2 DEF TypeOK, AddFinalizer, envVars, bounds, history
<1>3. CASE InvalidParams(g)
  <2>1. gw' \in [Gateways -> Gateway]
    BY <1>3, ProgrammedType, SetGatewayType DEF InvalidParams
  <2>. QED
    BY <1>3, <2>1 DEF TypeOK, InvalidParams, envVars, bounds, history
<1>4. CASE Accept(g)
  <2>1. gw' \in [Gateways -> Gateway]
    BY <1>4, ProgrammedType, AcceptedType, SetGatewayType, Zenon DEF Accept
  <2>. QED
    BY <1>4, <2>1 DEF TypeOK, Accept, envVars, bounds, history
<1>5. CASE MissingSecret(g)
  <2>1. gw' \in [Gateways -> Gateway]
    BY <1>5, ProgrammedType, SetGatewayType DEF MissingSecret
  <2>. QED
    BY <1>5, <2>1 DEF TypeOK, MissingSecret, envVars, bounds, history
<1>6. CASE StartPlace(g)
  <2>1. rc' \in Reconciling
    BY <1>6, Zenon DEF StartPlace, Idle, Reconciling, WorkSpec
  <2>. QED
    BY <1>6, <2>1 DEF TypeOK, StartPlace, envVars, bounds, history
<1>7. CASE EarlyError(g)
  BY <1>7, BoundsAssumption, SMTT(30)
  DEF TypeOK, EarlyError, Fault, envVars, bounds, history
<1>. QED
  BY <1>1, <1>2, <1>3, <1>4, <1>5, <1>6, <1>7 DEF Begin

LEMMA PlaceType ==
  ASSUME TypeOK, NEW c \in Clusters,
         \/ PlaceOn(c) \/ RemoveFrom(c) \/ WaitForGrace(c)
         \/ RemoveNotFound(c) \/ DeleteWork(c)
  PROVE  TypeOK'
<1>. USE FieldTypes, WorkTypes, SetWorkType
<1>1. CASE PlaceOn(c)
  <2>1. rc' \in Reconciling
    BY <1>1, Zenon DEF TypeOK, PlaceOn, Reconciling
  <2>2. rbac' \in [Clusters -> {"absent", "live", "deleting"}]
    BY <1>1 DEF TypeOK, PlaceOn, DefaultRBAC
  <2>3. work' \in [Gateways -> [Clusters -> Work]]
    BY <1>1, Zenon DEF PlaceOn
  <2>. QED
    BY <1>1, <2>1, <2>2, <2>3, Zenon
    DEF TypeOK, PlaceOn, Enqueue, envVars, bounds, history
<1>2. CASE RemoveFrom(c)
  <2>1. rc' \in Reconciling
    BY <1>2, Zenon DEF TypeOK, RemoveFrom, Reconciling
  <2>2. rbac' \in [Clusters -> {"absent", "live", "deleting"}]
    BY <1>2 DEF TypeOK, RemoveFrom, DeleteRBAC
  <2>3. work' \in [Gateways -> [Clusters -> Work]]
    BY <1>2, Zenon DEF RemoveFrom
  <2>. QED
    BY <1>2, <2>1, <2>2, <2>3, Zenon
    DEF TypeOK, RemoveFrom, Enqueue, envVars, bounds, history
<1>3. CASE WaitForGrace(c)
  <2>1. rc' \in Reconciling
    BY <1>3, Zenon DEF TypeOK, WaitForGrace, Reconciling
  <2>2. work' \in [Gateways -> [Clusters -> Work]]
    BY <1>3, Zenon DEF TypeOK, WaitForGrace
  <2>3. queued' \subseteq Gateways
    BY <1>3 DEF TypeOK, WaitForGrace, Enqueue
  <2>. QED
    BY <1>3, <2>1, <2>2, <2>3, RecordType, Zenon
    DEF TypeOK, WaitForGrace, envVars, bounds
<1>4. CASE RemoveNotFound(c)
  <2>1. rc' \in Reconciling
    BY <1>4, Zenon DEF TypeOK, RemoveNotFound, Reconciling
  <2>. QED
    BY <1>4, <2>1, Zenon DEF TypeOK, RemoveNotFound, envVars, bounds, history
<1>5. CASE DeleteWork(c)
  <2>1. rc' \in Reconciling
    BY <1>5, Zenon DEF TypeOK, DeleteWork, Reconciling
  <2>2. work' \in [Gateways -> [Clusters -> Work]]
    BY <1>5, Zenon DEF TypeOK, DeleteWork
  <2>3. queued' \subseteq Gateways
    BY <1>5, Zenon DEF TypeOK, DeleteWork, Enqueue
  <2>. QED
    BY <1>5, <2>1, <2>2, <2>3, Zenon
    DEF TypeOK, DeleteWork, envVars, bounds, history
<1>. QED
  BY <1>1, <1>2, <1>3, <1>4, <1>5

LEMMA ContinueType ==
  ASSUME TypeOK, Continue
  PROVE  TypeOK'
<1>. USE FieldTypes
<1>1. CASE ReadPlacement
  <2>1. rc' \in Reconciling
    BY <1>1, Zenon DEF TypeOK, ReadPlacement, ToPlace, ToRemove, GetPlacedClusters,
      Reconciling
  <2>. QED
    BY <1>1, <2>1 DEF TypeOK, ReadPlacement, envVars, bounds, history
<1>2. CASE NoPlacement
  <2>1. rc' \in Reconciling
    BY <1>2, Zenon DEF TypeOK, NoPlacement, AfterNotFound, Reconciling
  <2>. QED
    BY <1>2, <2>1 DEF TypeOK, NoPlacement, envVars, bounds, history
<1>3. CASE \E c \in Clusters : \/ PlaceOn(c) \/ RemoveFrom(c) \/ WaitForGrace(c)
                               \/ RemoveNotFound(c) \/ DeleteWork(c)
  BY <1>3, PlaceType
<1>4. CASE ListPlaced
  <2>1. rc' \in Reconciling
    BY <1>4, Zenon DEF TypeOK, ListPlaced, GetPlacedClusters, Reconciling
  <2>. QED
    BY <1>4, <2>1 DEF TypeOK, ListPlaced, envVars, bounds, history
<1>5. CASE UpdateClusters
  <2>1. gw' \in [Gateways -> Gateway]
    BY <1>5, ClustersType, SetGatewayType, Zenon DEF UpdateClusters
  <2>. QED
    BY <1>5, <2>1, RecordTypes
    DEF TypeOK, UpdateClusters, Enqueue, envVars, bounds, history
<1>6. CASE UpdateStatus
  <2>1. PICK addresses \in GetAddresses : WriteBack(NewStatus(addresses))
    BY <1>6 DEF UpdateStatus
  <2>2. gw' \in [Gateways -> Gateway]
    BY <2>1, NewStatusType, SetGatewayType
  <2>3. queued' \subseteq Gateways
    BY <1>6 DEF TypeOK, UpdateStatus, Enqueue
  <2>. QED
    BY <1>6, <2>2, <2>3, RecordTypes
    DEF TypeOK, UpdateStatus, envVars, bounds, history
<1>7. CASE RequeueUnknown
  <2>1. gw' \in [Gateways -> Gateway]
    BY <1>7, ProgrammedType, SetGatewayType, Zenon DEF RequeueUnknown
  <2>. QED
    BY <1>7, <2>1, RecordTypes
    DEF TypeOK, RequeueUnknown, Requeue, Enqueue, envVars, bounds, history
<1>8. CASE Finalize
  <2>1. gw' \in [Gateways -> Gateway]
    BY <1>8, FinalizedType, SetGatewayType, Zenon DEF Finalize
  <2>. QED
    BY <1>8, <2>1, RecordTypes
    DEF TypeOK, Finalize, Enqueue, envVars, bounds, history
<1>. QED
  BY <1>1, <1>2, <1>3, <1>4, <1>5, <1>6, <1>7, <1>8 DEF Continue

LEMMA FaultyType ==
  ASSUME TypeOK, Faulty
  PROVE  TypeOK'
<1>. USE FieldTypes
<1>1. CASE \E g \in Gateways : EarlyError(g)
  BY <1>1, BeginType
<1>2. CASE PlaceError
  <2>1. rc' \in Reconciling
    BY <1>2, Zenon DEF TypeOK, PlaceError, Reconciling
  <2>2. rbac' \in [Clusters -> {"absent", "live", "deleting"}]
    BY <1>2, Zenon DEF TypeOK, PlaceError, DefaultRBAC
  <2>3. work' \in [Gateways -> [Clusters -> Work]]
    <3>1. CASE UNCHANGED work
      BY <3>1 DEF TypeOK
    <3>2. CASE \E c \in rc.toRemove : SetWork(rc.g, c, Deleted(work[rc.g][c]))
      BY <3>2, WorkTypes, SetWorkType, Zenon
    <3>. QED
      BY <1>2, <3>1, <3>2 DEF PlaceError
  <2>4. queued' \subseteq Gateways
    BY <1>2 DEF TypeOK, PlaceError, Enqueue
  <2>5. faults' \in 0..MaxFaults
    BY <1>2, BoundsAssumption, SMTT(30) DEF TypeOK, PlaceError, Fault
  <2>. QED
    BY <1>2, <2>1, <2>2, <2>3, <2>4, <2>5
    DEF TypeOK, PlaceError, envVars, history
<1>3. CASE DeleteError
  BY <1>3, BoundsAssumption, RecordTypes, SMTT(30)
  DEF TypeOK, DeleteError, Fault, Enqueue, envVars, history
<1>4. CASE ListPlacedError
  <2>1. rc' \in Reconciling
    BY <1>4, Zenon DEF TypeOK, ListPlacedError, Reconciling
  <2>. QED
    BY <1>4, <2>1, BoundsAssumption, SMTT(30)
    DEF TypeOK, ListPlacedError, Fault, envVars, history
<1>5. CASE WriteError
  BY <1>5, BoundsAssumption, RecordTypes, SMTT(30)
  DEF TypeOK, WriteError, Fault, Enqueue, envVars, history
<1>6. CASE Restart
  BY <1>6, BoundsAssumption, RecordTypes, SMTT(30)
  DEF TypeOK, Restart, Fault, envVars, history
<1>. QED
  BY <1>1, <1>2, <1>3, <1>4, <1>5, <1>6 DEF Faulty

LEMMA UsersType ==
  ASSUME TypeOK, Users
  PROVE  TypeOK'
<1>. USE FieldTypes
<1>1. ASSUME NEW kind, Edit(kind) PROVE edits' \in 0..MaxEdits
  BY <1>1, BoundsAssumption, SMTT(30) DEF TypeOK, Edit
<1>2. ASSUME NEW g \in Gateways, Touch(g)
      PROVE  rc' \in Reconciling /\ queued' \subseteq Gateways
  BY <1>2, Zenon DEF TypeOK, Touch, Enqueue, Reconciling
<1>3. ASSUME EnqueueNamespace PROVE queued' \subseteq Gateways
  BY <1>3 DEF TypeOK, EnqueueNamespace, Enqueue
<1>4. ASSUME NEW g \in Gateways, CreateGateway(g) PROVE TypeOK'
  <2>1. gw' \in [Gateways -> Gateway]
    BY <1>4, RecordTypes, SetGatewayType DEF CreateGateway
  <2>. QED
    BY <1>1, <1>4, <2>1 DEF TypeOK, CreateGateway, Enqueue, envVars, history
<1>5. ASSUME NEW g \in Gateways, EditGateway(g) PROVE TypeOK'
  <2>1. gw' \in [Gateways -> Gateway]
    BY <1>5, GenerationType, SetGatewayType DEF EditGateway
  <2>. QED
    BY <1>1, <1>2, <1>5, <2>1 DEF TypeOK, EditGateway, envVars, history
<1>6. ASSUME NEW g \in Gateways, DeleteGateway(g) PROVE TypeOK'
  <2>1. [gw[g] EXCEPT !.phase = IF gw[g].finalizer THEN "deleting" ELSE "gone"]
          \in Gateway
    BY SMTT(30) DEF Gateway
  <2>2. gw' \in [Gateways -> Gateway]
    BY <1>6, <2>1, SetGatewayType DEF DeleteGateway
  <2>. QED
    BY <1>1, <1>2, <1>6, <2>2 DEF TypeOK, DeleteGateway, envVars, history
<1>7. ASSUME NEW g \in Gateways, DropDecision(g) PROVE TypeOK'
  BY <1>1, <1>3, <1>7, RecordType DEF TypeOK, DropDecision
<1>8. ASSUME NEW g \in Gateways, ChangeSecret(g) PROVE TypeOK'
  BY <1>1, <1>8 DEF TypeOK, ChangeSecret, history
<1>9. ASSUME NEW g \in Gateways, NEW D \in SUBSET Clusters, SetDecision(g, D)
      PROVE  TypeOK'
  BY <1>1, <1>3, <1>9, RecordType DEF TypeOK, SetDecision
<1>10. ASSUME NEW g \in Gateways, NEW c \in Clusters, SpoilAnnotation(g, c)
       PROVE  TypeOK'
  <2>1. work' \in [Gateways -> [Clusters -> Work]]
    BY <1>10, WorkTypes, SetWorkType, Zenon DEF SpoilAnnotation
  <2>. QED
    BY <1>1, <1>10, <2>1 DEF TypeOK, SpoilAnnotation, Enqueue, envVars, history
<1>11. ASSUME NEW c \in Clusters, DetachCluster(c) PROVE TypeOK'
  BY <1>1, <1>11 DEF TypeOK, DetachCluster, history
<1>12. CASE ChangeParams
  BY <1>1, <1>12 DEF TypeOK, ChangeParams, history
<1>. QED
  BY <1>4, <1>5, <1>6, <1>7, <1>8, <1>9, <1>10, <1>11, <1>12 DEF Users

LEMMA EnvironmentType ==
  ASSUME TypeOK,
         \/ Hub
         \/ \E g \in Gateways, c \in Clusters : Agent(g, c)
         \/ \E c \in Clusters : AgentRemoveRBAC(c)
         \/ Tick
  PROVE  TypeOK'
<1>. USE FieldTypes, RecordTypes
<1>1. ASSUME NEW g \in Gateways, SyncDecision(g) PROVE TypeOK'
  BY <1>1, RecordType
  DEF TypeOK, SyncDecision, EnqueueNamespace, Enqueue, bounds
<1>2. ASSUME NEW c \in Clusters, CleanNamespace(c) PROVE TypeOK'
  <2>1. /\ work' \in [Gateways -> [Clusters -> Work]]
        /\ down' \in [Gateways -> [Clusters -> WorkSpec]]
    BY <1>2 DEF TypeOK, CleanNamespace
  <2>. QED
    BY <1>2, <2>1, RecordType
    DEF TypeOK, CleanNamespace, Enqueue, envVars, bounds
<1>3. ASSUME NEW g \in Gateways, NEW c \in Clusters, AgentApply(g, c)
      PROVE  TypeOK'
  <2>1. work' \in [Gateways -> [Clusters -> Work]]
    BY <1>3, WorkTypes, SetWorkType, Zenon DEF AgentApply
  <2>2. work[g][c].spec \in WorkSpec
    BY DEF Work
  <2>. QED
    BY <1>3, <2>1, <2>2, Zenon
    DEF TypeOK, AgentApply, Enqueue, envVars, bounds, history
<1>4. ASSUME NEW g \in Gateways, NEW c \in Clusters, AgentDenied(g, c)
      PROVE  TypeOK'
  <2>1. work' \in [Gateways -> [Clusters -> Work]]
    BY <1>4, WorkTypes, SetWorkType, Zenon DEF AgentDenied
  <2>. QED
    BY <1>4, <2>1 DEF TypeOK, AgentDenied, Enqueue, envVars, bounds, history
<1>5. ASSUME NEW g \in Gateways, NEW c \in Clusters, AgentRemove(g, c)
      PROVE  TypeOK'
  <2>1. work' \in [Gateways -> [Clusters -> Work]]
    BY <1>5, SetWorkType DEF AgentRemove
  <2>. QED
    BY <1>5, <2>1, RecordType, Zenon DEF TypeOK, AgentRemove, Enqueue, envVars, bounds
<1>6. ASSUME NEW c \in Clusters, AgentRemoveRBAC(c) PROVE TypeOK'
  BY <1>6 DEF TypeOK, AgentRemoveRBAC, envVars, bounds, history
<1>7. CASE Tick
  <2>1. ASSUME NEW g \in Gateways, NEW c \in Clusters
        PROVE  [work[g][c] EXCEPT !.grace = IF @ > 0 THEN @ - 1 ELSE @] \in Work
    BY GracePeriodAssumption, SMTT(30) DEF Work, Grace, NoGrace, BadGrace
  <2>2. work' \in [Gateways -> [Clusters -> Work]]
    BY <1>7, <2>1 DEF Tick
  <2>. QED
    BY <1>7, <2>2, RecordType, Zenon DEF TypeOK, Tick, envVars, bounds
<1>. QED
  BY <1>1, <1>2, <1>3, <1>4, <1>5, <1>6, <1>7 DEF Hub, Agent

LEMMA TypeStep ==
  ASSUME TypeOK, [Next]_vars
  PROVE  TypeOK'
<1>1. CASE UNCHANGED vars
  BY <1>1 DEF TypeOK, vars, envVars, bounds, history
<1>. QED
  BY <1>1, BeginType, ContinueType, FaultyType, UsersType, EnvironmentType
  DEF Next

LEMMA TypeInit ==
  ASSUME Init
  PROVE  TypeOK
<1>1. [NewGateway EXCEPT !.phase = "absent"] \in Gateway
  BY Zenon DEF NewGateway, Gateway
<1>. QED
  BY <1>1, RecordTypes, GracePeriodAssumption, BoundsAssumption, SMTT(30)
    DEF Init, TypeOK

\* The objects in the API server, the worker's local variables and the history
\* keep their types in every behaviour of the controller and its environment.
THEOREM TypeCorrect == Spec => []TypeOK
BY TypeInit, TypeStep, PTL DEF Spec

-----------------------------------------------------------------------------
(* What a step may do *)

\* A gateway: it is never absent again, a deletion is never taken back, and the
\* finalizer leaves an object that stays in the API server only if that object
\* has just been created.
GatewayStep(g) ==
  /\ gw[g].phase # "absent" => gw'[g].phase # "absent"
  /\ gw[g].phase \in {"deleting", "gone"} => gw'[g].phase \in {"deleting", "gone"}
  /\ gw[g].phase # "absent" /\ gw'[g].phase \in {"live", "deleting"} =>
       /\ gw[g].phase \in {"live", "deleting"}
       /\ gw[g].finalizer => gw'[g].finalizer
  /\ gw'[g].phase = "deleting" =>
       gw'[g].finalizer \/ gw[g].phase = "deleting"

\* The worker: it stays in the reconcile it is in, or has just called Place.
ReconcileStep ==
  rc'.pc # "idle" =>
    \/ rc.pc # "idle" /\ rc'.g = rc.g /\ rc'.deleting = rc.deleting
    \/ /\ UNCHANGED gw
       /\ rc'.g \in Gateways
       /\ gw[rc'.g].phase = "deleting" \/ Managed(rc'.g)
       /\ rc'.deleting = (gw[rc'.g].phase = "deleting")

\* A work: only the placer creates and deletes it, and it deletes it for a
\* gateway that is being deleted or when the grace period is over.
WorkStep(g, c) ==
  /\ work[g][c].phase = "absent" /\ work'[g][c].phase # "absent" =>
       rc.g = g /\ rc.pc # "idle"
  /\ work[g][c].phase # "deleting" /\ work'[g][c].phase = "deleting" =>
       rc.g = g /\ rc.pc # "idle" /\ (rc.deleting \/ GraceOver(c))

\* A grace annotation: it goes away or is made unreadable, or it is written anew
\* while the history is recorded, or the clock ticks.
GraceStep(g, c) ==
  \/ /\ UNCHANGED history
     /\ work'[g][c].grace \in {work[g][c].grace, NoGrace, BadGrace}
  \/ /\ Record(0)
     /\ work'[g][c].grace \in {work[g][c].grace, NoGrace, GracePeriod}
  \/ /\ Record(1)
     /\ work'[g][c].grace = IF work[g][c].grace > 0 THEN work[g][c].grace - 1
                            ELSE work[g][c].grace

\* A write of one gateway is a gateway step if the new object is a legal
\* successor of the old one.
LEMMA SetGatewayStep ==
  ASSUME TypeOK, NEW g \in Gateways, NEW h \in Gateways, NEW r \in Gateway,
         SetGateway(h, r) \/ (h = rc.g /\ WriteBack(r)),
         \/ r.phase = gw[h].phase /\ (gw[h].finalizer => r.finalizer)
         \/ r.phase = "gone" /\ gw[h].phase # "absent"
         \/ r.phase = "live" /\ gw[h].phase = "absent"
         \/ r.phase = "deleting" /\ gw[h].phase = "live" /\ r.finalizer
  PROVE  GatewayStep(g)
<1>1. gw'[g] = gw[g] \/ (g = h /\ gw'[g] = r)
  BY DEF TypeOK, SetGateway, WriteBack
<1>. QED
  BY <1>1, FieldTypes, SMTT(30) DEF GatewayStep, Gateway

LEMMA NextGatewayStep ==
  ASSUME TypeOK, [Next]_vars, NEW g \in Gateways,
         rc.pc # "idle" => gw[rc.g].phase # "absent"
  PROVE  GatewayStep(g)
<1>. USE FieldTypes
<1>1. ASSUME UNCHANGED gw PROVE GatewayStep(g)
  BY <1>1 DEF GatewayStep, TypeOK, Gateway
<1>3. ASSUME NEW h \in Gateways, Begin(h) PROVE GatewayStep(g)
  <2>1. CASE AddFinalizer(h)
    <3>1. /\ [gw[h] EXCEPT !.finalizer = TRUE] \in Gateway
          /\ [gw[h] EXCEPT !.finalizer = TRUE].phase = gw[h].phase
          /\ [gw[h] EXCEPT !.finalizer = TRUE].finalizer = TRUE
      BY ZenonT(30) DEF Gateway
    <3>. QED
      BY <2>1, <3>1, SetGatewayStep, Zenon DEF AddFinalizer
  <2>2. CASE InvalidParams(h)
    <3>. DEFINE r == Programmed(gw[h], "False", gw[h].gen)
    <3>1. r \in Gateway /\ r.phase = gw[h].phase /\ r.finalizer = gw[h].finalizer
      BY ProgrammedType, Zenon
    <3>2. SetGateway(h, r)
      BY <2>2 DEF InvalidParams
    <3>. HIDE DEF r
    <3>. QED
      BY <3>1, <3>2, SetGatewayStep, Zenon
  <2>3. CASE Accept(h)
    <3>. DEFINE r == Programmed(gw[h], "Unknown", gw[h].gen)
    <3>1. r \in Gateway /\ r.phase = gw[h].phase /\ r.finalizer = gw[h].finalizer
      BY ProgrammedType, Zenon
    <3>2. SetGateway(h, [r EXCEPT !.accepted = TRUE])
      BY <2>3 DEF Accept
    <3>. QED
      BY <3>1, <3>2, AcceptedType, SetGatewayStep, Zenon
  <2>4. CASE MissingSecret(h)
    <3>. DEFINE r == Programmed(gw[h], "Unknown", gw[h].gen)
    <3>1. r \in Gateway /\ r.phase = gw[h].phase /\ r.finalizer = gw[h].finalizer
      BY ProgrammedType, Zenon
    <3>2. SetGateway(h, r)
      BY <2>4 DEF MissingSecret
    <3>. HIDE DEF r
    <3>. QED
      BY <3>1, <3>2, SetGatewayStep, Zenon
  <2>. QED
    BY <1>1, <1>3, <2>1, <2>2, <2>3, <2>4
    DEF Begin, ReconcileGone, StartPlace
<1>4. CASE UpdateClusters
  BY <1>4, ClustersType, SetGatewayStep, Zenon DEF UpdateClusters
<1>5. CASE UpdateStatus
  <2>1. PICK addresses \in GetAddresses : WriteBack(NewStatus(addresses))
    BY <1>5 DEF UpdateStatus
  <2>2. /\ NewStatus(addresses) \in Gateway
        /\ NewStatus(addresses).phase = gw[rc.g].phase
        /\ NewStatus(addresses).finalizer = gw[rc.g].finalizer
    BY NewStatusType
  <2>. QED
    BY <2>1, <2>2, SetGatewayStep
<1>6. CASE RequeueUnknown
  <2>. DEFINE r == Programmed(gw[rc.g], "Unknown", rc.spec.gen)
  <2>1. r \in Gateway /\ r.phase = gw[rc.g].phase /\ r.finalizer = gw[rc.g].finalizer
    BY ProgrammedType, Zenon
  <2>2. WriteBack(r)
    BY <1>6 DEF RequeueUnknown
  <2>. HIDE DEF r
  <2>. QED
    BY <2>1, <2>2, SetGatewayStep, Zenon
<1>7. CASE Finalize
  <2>1. rc.pc # "idle"
    BY <1>7 DEF Finalize, Placed
  <2>. QED
    BY <1>7, <2>1, FinalizedType, SetGatewayStep, Zenon DEF Finalize
<1>8. ASSUME NEW h \in Gateways, CreateGateway(h) PROVE GatewayStep(g)
  <2>1. NewGateway.phase = "live"
    BY DEF NewGateway
  <2>. QED
    BY <1>8, <2>1, RecordTypes, SetGatewayStep DEF CreateGateway
<1>9. ASSUME NEW h \in Gateways, EditGateway(h) PROVE GatewayStep(g)
  <2>. DEFINE r == [gw[h] EXCEPT !.gen = @ + 1]
  <2>1. r \in Gateway /\ r.phase = gw[h].phase /\ r.finalizer = gw[h].finalizer
    BY GenerationType, Zenon
  <2>2. SetGateway(h, r)
    BY <1>9 DEF EditGateway
  <2>. HIDE DEF r
  <2>. QED
    BY <2>1, <2>2, SetGatewayStep, Zenon
<1>10. ASSUME NEW h \in Gateways, DeleteGateway(h) PROVE GatewayStep(g)
  <2>. DEFINE ph == IF gw[h].finalizer THEN "deleting" ELSE "gone"
              r == [gw[h] EXCEPT !.phase = ph]
  <2>1. r \in Gateway /\ r.phase = ph /\ r.finalizer = gw[h].finalizer
    BY SMTT(30) DEF Gateway
  <2>2. SetGateway(h, r) /\ gw[h].phase = "live"
    BY <1>10 DEF DeleteGateway
  <2>. QED
    BY <2>1, <2>2, SetGatewayStep, Zenon
<1>11. CASE Faulty
  BY <1>1, <1>11 DEF Faulty, EarlyError, PlaceError, DeleteError, ListPlacedError,
    WriteError, Restart
<1>12. CASE Continue
  BY <1>1, <1>4, <1>5, <1>6, <1>7, <1>12, Zenon DEF Continue, ReadPlacement, NoPlacement,
    PlaceOn, RemoveFrom, WaitForGrace, RemoveNotFound, DeleteWork, ListPlaced
<1>13. CASE Users
  BY <1>1, <1>8, <1>9, <1>10, <1>13, Zenon DEF Users, DropDecision, ChangeSecret,
    SetDecision, SpoilAnnotation, DetachCluster, ChangeParams
<1>14. ASSUME \/ UNCHANGED vars \/ Hub \/ Tick
              \/ \E h \in Gateways, c \in Clusters : Agent(h, c)
              \/ \E c \in Clusters : AgentRemoveRBAC(c)
       PROVE  GatewayStep(g)
  BY <1>1, <1>14, Zenon DEF vars, Hub, SyncDecision, CleanNamespace, Tick, Agent,
    AgentApply, AgentDenied, AgentRemove, AgentRemoveRBAC
<1>. QED
  BY <1>3, <1>11, <1>12, <1>13, <1>14 DEF Next

LEMMA NextReconcileStep ==
  ASSUME TypeOK, [Next]_vars
  PROVE  ReconcileStep
<1>1. ASSUME UNCHANGED rc PROVE ReconcileStep
  BY <1>1 DEF ReconcileStep, TypeOK, Reconciling
<1>2. ASSUME NEW h, rc' = Idle(h) PROVE ReconcileStep
  BY <1>2 DEF ReconcileStep, Idle
<1>3. ASSUME NEW h \in Gateways, Begin(h) PROVE ReconcileStep
  <2>1. CASE StartPlace(h)
    <3>1. rc' = [Idle(h) EXCEPT !.pc = "read",
                                !.deleting = (gw[h].phase = "deleting"),
                                !.spec = [gen |-> gw[h].gen,
                                          clusters |-> gw[h].clusters]]
      BY <2>1 DEF StartPlace
    <3>2. rc'.g = h /\ rc'.deleting = (gw[h].phase = "deleting")
      BY <3>1 DEF Idle
    <3>. QED
      BY <2>1, <3>2 DEF StartPlace, ReconcileStep
  <2>. QED
    BY <1>1, <1>3, <2>1
    DEF Begin, ReconcileGone, AddFinalizer, InvalidParams, Accept, MissingSecret
<1>4. CASE Continue
  <2>1. CASE ReadPlacement
    BY <2>1 DEF ReadPlacement, ReconcileStep, TypeOK, Reconciling
  <2>2. CASE \E c \in Clusters : PlaceOn(c)
    BY <2>2 DEF PlaceOn, ReconcileStep, TypeOK, Reconciling
  <2>3. CASE \E c \in Clusters : RemoveFrom(c)
    BY <2>3, SMTT(30) DEF RemoveFrom, Removing, ReconcileStep, TypeOK, Reconciling
  <2>4. CASE \E c \in Clusters : DeleteWork(c)
    BY <2>4, Zenon DEF DeleteWork, ReconcileStep, TypeOK, Reconciling
  <2>5. CASE \E c \in Clusters : WaitForGrace(c) \/ RemoveNotFound(c)
    BY <2>5, SMTT(30)
      DEF WaitForGrace, RemoveNotFound, Removing, ReconcileStep, TypeOK,
      Reconciling
  <2>6. CASE NoPlacement
    BY <2>6 DEF NoPlacement, ReconcileStep, TypeOK, Reconciling
  <2>7. CASE ListPlaced
    BY <2>7 DEF ListPlaced, Placed, ReconcileStep, TypeOK, Reconciling
  <2>8. CASE UpdateClusters \/ UpdateStatus \/ RequeueUnknown \/ Finalize
    BY <1>2, <2>8 DEF UpdateClusters, UpdateStatus, RequeueUnknown, Finalize
  <2>. QED
    BY <1>4, <2>1, <2>2, <2>3, <2>4, <2>5, <2>6, <2>7, <2>8 DEF Continue
<1>5. CASE Faulty
  <2>1. CASE PlaceError
    BY <2>1 DEF PlaceError, ReconcileStep, TypeOK, Reconciling
  <2>2. CASE ListPlacedError
    BY <2>2 DEF ListPlacedError, Placed, ReconcileStep, TypeOK, Reconciling
  <2>3. CASE DeleteError \/ WriteError \/ Restart
    BY <1>2, <2>3 DEF DeleteError, WriteError, Restart
  <2>. QED
    BY <1>1, <1>5, <2>1, <2>2, <2>3 DEF Faulty, EarlyError
<1>6. CASE Users
  <2>1. ASSUME NEW h \in Gateways, Touch(h) PROVE ReconcileStep
    BY <2>1 DEF Touch, ReconcileStep, TypeOK, Reconciling
  <2>. QED
    BY <1>1, <1>6, <2>1, Zenon DEF Users, CreateGateway, EditGateway, DeleteGateway,
      DropDecision, ChangeSecret, SetDecision, SpoilAnnotation, DetachCluster,
      ChangeParams
<1>7. ASSUME \/ UNCHANGED vars \/ Hub \/ Tick
             \/ \E h \in Gateways, c \in Clusters : Agent(h, c)
             \/ \E c \in Clusters : AgentRemoveRBAC(c)
      PROVE  ReconcileStep
  BY <1>1, <1>7, Zenon DEF vars, Hub, SyncDecision, CleanNamespace, Tick, Agent,
    AgentApply, AgentDenied, AgentRemove, AgentRemoveRBAC
<1>. QED
  BY <1>3, <1>4, <1>5, <1>6, <1>7 DEF Next

\* The fields of a work after the writes that the placer and the agents make.
LEMMA WorkFields ==
  ASSUME NEW w \in Work
  PROVE  /\ Deleted(w).grace = w.grace
         /\ CreateUpdateManifest(w).grace \in {w.grace, NoGrace}
         /\ CreateUpdateManifest(w).phase =
              IF w.phase = "absent" THEN "created" ELSE w.phase
         /\ [w EXCEPT !.grace = GraceTimeout].grace = GracePeriod
         /\ [w EXCEPT !.grace = GraceTimeout].phase = w.phase
         /\ [w EXCEPT !.grace = BadGrace].grace = BadGrace
         /\ [w EXCEPT !.grace = BadGrace].phase = w.phase
         /\ [w EXCEPT !.phase = "applied"].grace = w.grace
         /\ [w EXCEPT !.phase = "applied"].phase = "applied"
         /\ [w EXCEPT !.phase = "denied"].grace = w.grace
         /\ [w EXCEPT !.phase = "denied"].phase = "denied"
<1>1. /\ Deleted(w).grace = w.grace
      /\ CreateUpdateManifest(w).grace \in {w.grace, NoGrace}
      /\ CreateUpdateManifest(w).phase =
           IF w.phase = "absent" THEN "created" ELSE w.phase
  BY DEF Work, Deleted, CreateUpdateManifest
<1>2. /\ [w EXCEPT !.grace = GraceTimeout].grace = GracePeriod
      /\ [w EXCEPT !.grace = GraceTimeout].phase = w.phase
  BY DEF Work, GraceTimeout
<1>3. /\ [w EXCEPT !.grace = BadGrace].grace = BadGrace
      /\ [w EXCEPT !.grace = BadGrace].phase = w.phase
  BY DEF Work
<1>4. /\ [w EXCEPT !.phase = "applied"].grace = w.grace
      /\ [w EXCEPT !.phase = "applied"].phase = "applied"
      /\ [w EXCEPT !.phase = "denied"].grace = w.grace
      /\ [w EXCEPT !.phase = "denied"].phase = "denied"
  BY DEF Work
<1>. QED
  BY <1>1, <1>2, <1>3, <1>4

LEMMA NextWorkStep ==
  ASSUME TypeOK, [Next]_vars, NEW g \in Gateways, NEW c \in Clusters
  PROVE  WorkStep(g, c) /\ GraceStep(g, c)
<1>. DEFINE Goal == WorkStep(g, c) /\ GraceStep(g, c)
<1>. USE FieldTypes
<1>1. ASSUME UNCHANGED <<work, history>> PROVE Goal
  BY <1>1 DEF WorkStep, GraceStep
<1>2. ASSUME UNCHANGED work, Record(0) PROVE Goal
  BY <1>2 DEF WorkStep, GraceStep
<1>3. ASSUME NEW d \in Clusters, PlaceOn(d) PROVE Goal
  <2>1. \/ work'[g][c] = work[g][c]
        \/ g = rc.g /\ work'[g][c] = CreateUpdateManifest(work[g][c])
    BY <1>3 DEF PlaceOn, SetWork, TypeOK
  <2>2. rc.pc # "idle" /\ UNCHANGED history
    BY <1>3 DEF PlaceOn
  <2>. QED
    BY <2>1, <2>2, WorkFields, SMTT(30) DEF WorkStep, GraceStep
<1>4. ASSUME NEW d \in Clusters, UNCHANGED history,
             SetWork(rc.g, d, Deleted(work[rc.g][d])),
             work[rc.g][d].phase # "absent",
             rc.pc # "idle", rc.deleting \/ GraceOver(d)
      PROVE  Goal
  <2>1. \/ work'[g][c] = work[g][c]
        \/ g = rc.g /\ c = d /\ work'[g][c] = Deleted(work[g][c])
    BY <1>4 DEF SetWork, TypeOK
  <2>. QED
    BY <1>4, <2>1, WorkFields, SMTT(30) DEF WorkStep, GraceStep
<1>5. ASSUME NEW d \in Clusters, RemoveFrom(d) \/ DeleteWork(d) PROVE Goal
  BY <1>1, <1>4, <1>5 DEF RemoveFrom, Removing, DeleteWork
<1>6. ASSUME NEW d \in Clusters, WaitForGrace(d) PROVE Goal
  <2>1. CASE SetWork(rc.g, d, [work[rc.g][d] EXCEPT !.grace = GraceTimeout])
    <3>1. \/ work'[g][c] = work[g][c]
          \/ work'[g][c] = [work[g][c] EXCEPT !.grace = GraceTimeout]
      BY <2>1, Zenon DEF SetWork, TypeOK
    <3>2. /\ work'[g][c].phase = work[g][c].phase
          /\ work'[g][c].grace \in {work[g][c].grace, GracePeriod}
      <4>1. PICK w \in Work : w = work[g][c]
        OBVIOUS
      <4>2. /\ [w EXCEPT !.grace = GraceTimeout].grace = GracePeriod
            /\ [w EXCEPT !.grace = GraceTimeout].phase = w.phase
        BY WorkFields
      <4>. QED
        BY <3>1, <4>1, <4>2, Zenon
    <3>. QED
      BY <1>6, <3>2 DEF WaitForGrace, WorkStep, GraceStep
  <2>. QED
    BY <1>2, <1>6, <2>1 DEF WaitForGrace
<1>7. CASE Continue
  BY <1>1, <1>3, <1>5, <1>6, <1>7 DEF Continue, ReadPlacement, NoPlacement,
    RemoveNotFound, ListPlaced, UpdateClusters, UpdateStatus, RequeueUnknown,
    Finalize
<1>8. CASE Faulty
  <2>1. CASE PlaceError
    <3>1. UNCHANGED history
      BY <2>1 DEF PlaceError
    <3>2. CASE UNCHANGED work
      BY <1>1, <3>1, <3>2
    <3>3. CASE \E d \in rc.toRemove :
                 /\ Removing(d)
                 /\ work[rc.g][d].phase # "absent" /\ GraceOver(d)
                 /\ SetWork(rc.g, d, Deleted(work[rc.g][d]))
      BY <1>4, <3>1, <3>3 DEF Removing
    <3>. QED
      BY <2>1, <3>2, <3>3 DEF PlaceError
  <2>. QED
    BY <1>1, <1>8, <2>1 DEF Faulty, EarlyError, DeleteError, ListPlacedError,
      WriteError, Restart
<1>9. ASSUME NEW h \in Gateways, NEW d \in Clusters, SpoilAnnotation(h, d)
      PROVE  Goal
  <2>1. \/ work'[g][c] = work[g][c]
        \/ work'[g][c] = [work[g][c] EXCEPT !.grace = BadGrace]
    BY <1>9, Zenon DEF SpoilAnnotation, SetWork, TypeOK
  <2>2. /\ work'[g][c].phase = work[g][c].phase
        /\ work'[g][c].grace \in {work[g][c].grace, BadGrace}
    <3>1. PICK w \in Work : w = work[g][c]
      OBVIOUS
    <3>2. [w EXCEPT !.grace = BadGrace].grace = BadGrace /\ [w EXCEPT !.grace = BadGrace].phase = w.phase
      BY WorkFields
    <3>. QED
      BY <2>1, <3>1, <3>2, Zenon
  <2>. QED
    BY <1>9, <2>2 DEF SpoilAnnotation, WorkStep, GraceStep
<1>10. CASE Users
  BY <1>1, <1>2, <1>9, <1>10, Zenon DEF Users, CreateGateway, EditGateway,
    DeleteGateway, DropDecision, ChangeSecret, SetDecision, DetachCluster,
    ChangeParams
<1>11. ASSUME NEW h \in Gateways, NEW d \in Clusters,
              AgentApply(h, d) \/ AgentDenied(h, d)
       PROVE  Goal
  <2>1. work[h][d].phase # "absent" /\ UNCHANGED history
    BY <1>11 DEF AgentApply, AgentDenied, Pending
  <2>2. CASE work'[g][c] = work[g][c]
    BY <2>1, <2>2 DEF WorkStep, GraceStep
  <2>3. CASE g = h /\ c = d /\ AgentApply(h, d)
    <3>1. work'[g][c] = [work[g][c] EXCEPT !.phase = "applied"]
      BY <2>3, Zenon DEF AgentApply, SetWork, TypeOK
    <3>. QED
      BY <2>1, <2>3, <3>1, WorkFields, SMTT(30) DEF WorkStep, GraceStep
  <2>4. CASE g = h /\ c = d /\ AgentDenied(h, d)
    <3>1. work'[g][c] = [work[g][c] EXCEPT !.phase = "denied"]
      BY <2>4 DEF AgentDenied, SetWork, TypeOK
    <3>. QED
      BY <2>1, <2>4, <3>1, WorkFields, SMTT(30) DEF WorkStep, GraceStep
  <2>5. g # h \/ c # d => work'[g][c] = work[g][c]
    BY <1>11, SMTT(30) DEF AgentApply, AgentDenied, SetWork, TypeOK
  <2>. QED
    BY <1>11, <2>2, <2>3, <2>4, <2>5
<1>12. ASSUME NEW h \in Gateways, NEW d \in Clusters, AgentRemove(h, d)
       PROVE  Goal
  <2>1. work'[g][c] = work[g][c] \/ work'[g][c] = NoWork
    BY <1>12 DEF AgentRemove, SetWork, TypeOK
  <2>. QED
    BY <1>12, <2>1, SMTT(30) DEF AgentRemove, NoWork, WorkStep, GraceStep
<1>13. ASSUME NEW d \in Clusters, CleanNamespace(d) PROVE Goal
  <2>1. work'[g][c] = work[g][c] \/ work'[g][c] = NoWork
    BY <1>13 DEF CleanNamespace, TypeOK
  <2>. QED
    BY <1>13, <2>1, SMTT(30) DEF CleanNamespace, NoWork, WorkStep, GraceStep
<1>14. CASE Tick
  <2>1. work'[g][c] =
          [work[g][c] EXCEPT !.grace = IF @ > 0 THEN @ - 1 ELSE @]
    BY <1>14 DEF Tick
  <2>2. /\ work'[g][c].phase = work[g][c].phase
        /\ work'[g][c].grace = IF work[g][c].grace > 0
                               THEN work[g][c].grace - 1 ELSE work[g][c].grace
    BY <2>1, SMTT(30) DEF Work
  <2>. QED
    BY <1>14, <2>2 DEF Tick, WorkStep, GraceStep
<1>15. ASSUME \/ UNCHANGED vars
              \/ \E h \in Gateways : Begin(h) \/ SyncDecision(h)
              \/ \E d \in Clusters : AgentRemoveRBAC(d)
       PROVE  Goal
  BY <1>1, <1>2, <1>15, Zenon DEF vars, Begin, ReconcileGone, AddFinalizer,
    InvalidParams, Accept, MissingSecret, StartPlace, SyncDecision,
    AgentRemoveRBAC
<1>. QED
  BY <1>7, <1>8, <1>10, <1>11, <1>12, <1>13, <1>14, <1>15 DEF Next, Hub, Agent

-----------------------------------------------------------------------------
(* The invariants *)

LEMMA FinalizerInit ==
  ASSUME Init
  PROVE  FinalizerInv
<1>1. \A g \in Gateways : gw[g].phase = "absent"
  BY DEF Init, NewGateway
<1>2. \A g \in Gateways, c \in Clusters : work[g][c].phase = "absent"
  BY DEF Init, NoWork
<1>3. rc.pc = "idle"
  BY SMTT(30) DEF Init, Idle
<1>. QED
  BY <1>1, <1>2, <1>3, TypeInit
  DEF FinalizerInv, DeletingHasFinalizer, ReconcilingHasFinalizer,
    WorksHeldByFinalizer

\* By GatewayStep a gateway that exists with its finalizer keeps it for as long
\* as it exists; by WorkStep and ReconcileStep a work can only come from a
\* reconcile of such a gateway.
LEMMA FinalizerStep ==
  ASSUME FinalizerInv, [Next]_vars
  PROVE  FinalizerInv'
<1>. DEFINE Held(g) == gw[g].phase # "absent" /\ (Exists(g) => gw[g].finalizer)
<1>1. TypeOK /\ TypeOK'
  BY TypeStep DEF FinalizerInv
<1>2. \A g \in Gateways : GatewayStep(g)
  BY <1>1, NextGatewayStep DEF FinalizerInv, ReconcilingHasFinalizer
<1>3. ReconcileStep
  BY <1>1, NextReconcileStep
<1>4. \A g \in Gateways, c \in Clusters : WorkStep(g, c)
  BY <1>1, NextWorkStep
<1>5. \A g \in Gateways : Held(g) => Held(g)'
  BY <1>2 DEF GatewayStep, Exists
<1>6. DeletingHasFinalizer'
  BY <1>2 DEF FinalizerInv, DeletingHasFinalizer, GatewayStep
<1>7. ReconcilingHasFinalizer'
  <2>1. SUFFICES ASSUME rc'.pc # "idle" PROVE Held(rc.g)'
    BY DEF ReconcilingHasFinalizer, Exists
  <2>2. CASE rc.pc # "idle" /\ rc'.g = rc.g
    BY <1>1, <1>5, <2>2, FieldTypes
    DEF FinalizerInv, ReconcilingHasFinalizer
  <2>3. CASE /\ UNCHANGED gw
             /\ rc'.g \in Gateways
             /\ gw[rc'.g].phase = "deleting" \/ Managed(rc'.g)
    BY <2>3 DEF FinalizerInv, DeletingHasFinalizer, Managed, Exists
  <2>. QED
    BY <1>3, <2>1, <2>2, <2>3 DEF ReconcileStep
<1>8. WorksHeldByFinalizer'
  <2>1. SUFFICES ASSUME NEW g \in Gateways, NEW c \in Clusters,
                        work'[g][c].phase # "absent"
                 PROVE  Held(g)'
    BY DEF WorksHeldByFinalizer, Exists
  <2>2. CASE work[g][c].phase # "absent"
    BY <1>5, <2>2 DEF FinalizerInv, WorksHeldByFinalizer
  <2>3. CASE work[g][c].phase = "absent"
    BY <1>4, <1>5, <2>1, <2>3, SMTT(30)
    DEF FinalizerInv, ReconcilingHasFinalizer, WorkStep
  <2>. QED
    BY <2>2, <2>3
<1>. QED
  BY <1>1, <1>6, <1>7, <1>8 DEF FinalizerInv

\* Every work of a gateway that exists is covered by the finalizer, for any
\* number of gateways and clusters, edits and faults: a deletion cannot get past
\* Reconcile while the placer has works to delete.
THEOREM WorksAlwaysHeld == Spec => []WorksHeldByFinalizer
<1>1. FinalizerInv => WorksHeldByFinalizer
  BY DEF FinalizerInv
<1>. QED
  BY <1>1, FinalizerInit, FinalizerStep, PTL DEF Spec

LEMMA GraceInit ==
  ASSUME Init
  PROVE  GraceInv
<1>1. rc.pc = "idle"
  BY SMTT(30) DEF Init, Idle
<1>2. \A g \in Gateways, c \in Clusters : work[g][c].grace = -1
  BY DEF Init, NoWork, NoGrace
<1>. QED
  BY <1>1, <1>2, TypeInit, SMTT(30) DEF GraceInv, DeletingIsFinal, GraceBehindClock

\* A new annotation is GracePeriod away and a tick moves it and the history by
\* one; a cluster that is in the decision while it has an annotation is put in
\* returned by the same step.
LEMMA GraceBehindClockStep ==
  ASSUME TypeOK, TypeOK', GraceBehindClock, NEW g \in Gateways,
         NEW c \in Clusters, GraceStep(g, c),
         work'[g][c].grace >= 0, c \notin returned'[g]
  PROVE  outFor'[g][c] >= GracePeriod - work'[g][c].grace
<1>1. /\ outFor[g][c] \in 0..GracePeriod /\ outFor'[g][c] \in 0..GracePeriod
      /\ work[g][c].grace \in Int /\ work'[g][c].grace \in Int
  <2>1. outFor[g][c] \in 0..GracePeriod /\ outFor'[g][c] \in 0..GracePeriod
    BY SMTT(30) DEF TypeOK
  <2>2. work[g][c] \in Work /\ work'[g][c] \in Work
    BY SMTT(30) DEF TypeOK
  <2>3. \A w \in Work : w.grace \in Int
    BY GracePeriodAssumption, SMTT(30) DEF Work, Grace, NoGrace, BadGrace
  <2>. QED
    BY <2>1, <2>2, <2>3
<1>2. work[g][c].grace >= 0 /\ c \notin returned[g] =>
        outFor[g][c] >= GracePeriod - work[g][c].grace
  BY DEF GraceBehindClock
<1>3. ASSUME NEW ticks \in {0, 1}, Record(ticks)
      PROVE  /\ c \notin returned[g]
             /\ outFor'[g][c] = IF outFor[g][c] + ticks > GracePeriod
                                THEN GracePeriod ELSE outFor[g][c] + ticks
  <2>1. c \notin returned[g] /\ c \notin decision'[g]
    BY <1>1, <1>3, SMTT(30) DEF Record, NoGrace
  <2>. QED
    BY <1>3, <2>1 DEF Record
<1>4. CASE /\ UNCHANGED history
           /\ work'[g][c].grace \in {work[g][c].grace, NoGrace, BadGrace}
  BY <1>1, <1>2, <1>4, SMTT(30) DEF history, NoGrace, BadGrace
<1>5. CASE /\ Record(0)
           /\ work'[g][c].grace \in {work[g][c].grace, NoGrace, GracePeriod}
  <2>1. c \notin returned[g] /\ outFor'[g][c] >= outFor[g][c]
    BY <1>1, <1>3, <1>5, GracePeriodAssumption, SMTT(30)
  <2>2. work'[g][c].grace \in {work[g][c].grace, GracePeriod}
    BY <1>5, SMTT(30) DEF NoGrace
  <2>. QED
    BY <1>1, <1>2, <2>1, <2>2, GracePeriodAssumption, SMTT(30)
<1>6. CASE /\ Record(1)
           /\ work'[g][c].grace = IF work[g][c].grace > 0
                                  THEN work[g][c].grace - 1 ELSE work[g][c].grace
  <2>1. /\ c \notin returned[g]
        /\ outFor'[g][c] = IF outFor[g][c] + 1 > GracePeriod
                           THEN GracePeriod ELSE outFor[g][c] + 1
    BY <1>3, <1>6
  <2>. QED
    BY <1>1, <1>2, <1>6, <2>1, GracePeriodAssumption, SMTT(30)
<1>. QED
  BY <1>4, <1>5, <1>6 DEF GraceStep

LEMMA GraceInvStep ==
  ASSUME FinalizerInv, GraceInv, [Next]_vars
  PROVE  GraceInv'
<1>1. TypeOK /\ TypeOK'
  BY TypeStep DEF GraceInv
<1>2. \A g \in Gateways, c \in Clusters : GraceStep(g, c)
  BY <1>1, NextWorkStep
<1>3. GraceBehindClock'
  BY <1>1, <1>2, GraceBehindClockStep DEF GraceInv, GraceBehindClock
<1>4. DeletingIsFinal'
  <2>1. \A g \in Gateways : GatewayStep(g)
    BY <1>1, NextGatewayStep DEF FinalizerInv, ReconcilingHasFinalizer
  <2>2. ReconcileStep
    BY <1>1, NextReconcileStep
  <2>3. SUFFICES ASSUME rc'.pc # "idle", rc'.deleting
                 PROVE  gw'[rc'.g].phase \in {"deleting", "gone"}
    BY DEF DeletingIsFinal
  <2>4. CASE rc.pc # "idle" /\ rc'.g = rc.g /\ rc'.deleting = rc.deleting
    BY <1>1, <2>1, <2>3, <2>4, FieldTypes DEF GraceInv, DeletingIsFinal, GatewayStep
  <2>5. CASE UNCHANGED gw /\ rc'.deleting = (gw[rc'.g].phase = "deleting")
    BY <2>3, <2>5, Zenon
  <2>. QED
    BY <2>2, <2>3, <2>4, <2>5, Zenon DEF ReconcileStep
<1>. QED
  BY <1>1, <1>3, <1>4 DEF GraceInv

\* A managed cluster that leaves the placement of a live gateway keeps its work
\* for the whole grace period, whatever the interleaving, unless it came back
\* into the decision after GracefulDelete annotated the work.
THEOREM GraceIsHonoured == Spec => GraceHonoured
<1>. DEFINE Kept ==
       \A g \in Gateways, c \in Clusters :
         (/\ work[g][c].phase # "deleting" /\ work'[g][c].phase = "deleting"
          /\ gw[g].phase = "live"
          /\ c \in managed
          /\ c \notin returned[g]) => outFor[g][c] = GracePeriod
<1>1. FinalizerInv /\ GraceInv /\ [Next]_vars => [Kept]_vars
  <2>1. SUFFICES ASSUME FinalizerInv, GraceInv, [Next]_vars,
                        NEW g \in Gateways, NEW c \in Clusters,
                        work[g][c].phase # "deleting",
                        work'[g][c].phase = "deleting",
                        gw[g].phase = "live", c \in managed,
                        c \notin returned[g]
                 PROVE  outFor[g][c] = GracePeriod
    OBVIOUS
  <2>2. rc.g = g /\ rc.pc # "idle" /\ (rc.deleting \/ GraceOver(c))
    BY <2>1, NextWorkStep DEF GraceInv, WorkStep
  <2>3. ~rc.deleting
    BY <2>1, <2>2 DEF GraceInv, DeletingIsFinal
  <2>4. work[g][c].grace = 0
    BY <2>1, <2>2, <2>3 DEF GraceOver
  <2>5. outFor[g][c] >= GracePeriod
    BY <2>1, <2>4, GracePeriodAssumption, SMTT(30) DEF GraceInv, GraceBehindClock
  <2>6. outFor[g][c] \in 0..GracePeriod
    BY <2>1, SMTT(30) DEF GraceInv, TypeOK
  <2>. QED
    BY <2>5, <2>6, GracePeriodAssumption, SMTT(30)
<1>. QED
  BY <1>1, FinalizerInit, FinalizerStep, GraceInit, GraceInvStep, PTL
  DEF Spec, GraceHonoured

-----------------------------------------------------------------------------
(* No trigger is lost *)

\* The works of g are the ones its placement asks for.
WorksInLine(g) ==
  /\ g \in hasDecision
  /\ \A c \in decision[g] : work[g][c].phase # "absent" /\ work[g][c].spec = Current(g)
  /\ GetPlacedClusters(g) \subseteq decision[g]

\* And its annotation and status describe them.
InLine(g) ==
  /\ WorksInLine(g)
  /\ gw[g].clusters = GetPlacedClusters(g)
  /\ gw[g].addresses = gw[g].clusters
  /\ gw[g].observed = gw[g].gen
  /\ gw[g].programmed = IF GetPlacedClusters(g) = decision[g] /\ decision[g] # {}
                        THEN "True" ELSE "Unknown"

\* How far the reconcile of g has come when nothing was queued behind it: what
\* it read is still so, and the loops have passed over works that were in line.
Underway(g) ==
  /\ ~rc.conflict /\ ~rc.deleting /\ rc.spec = Current(g)
  /\ rc.pc = "place" =>
       /\ g \in hasDecision /\ rc.targets = decision[g]
       /\ \A c \in decision[g] \ rc.toPlace :
            work[g][c].phase # "absent" /\ work[g][c].spec = Current(g)
       /\ GetPlacedClusters(g) \ decision[g] \subseteq rc.toRemove
  /\ rc.pc = "publish" =>
       /\ WorksInLine(g) /\ rc.targets = decision[g]
       /\ rc.listErr \/ rc.placed = GetPlacedClusters(g)

\* The worker is busy with g.
Busy(g) == rc.pc # "idle" /\ rc.g = g

\* The inductive strengthening of QuiescentMeansConverged, for one gateway.
NoTriggerLost(g) ==
  g \notin queued /\ gw[g].phase = "live" =>
    IF Busy(g) THEN Underway(g) ELSE InLine(g) \/ gw[g].programmed = "False"

\* A step that changes nothing of g that its reconcile looks at.
Same(g) ==
  /\ gw'[g] = gw[g]
  /\ g \in hasDecision' <=> g \in hasDecision
  /\ decision'[g] = decision[g]
  /\ \A c \in Clusters :
       /\ work'[g][c].phase = work[g][c].phase
       /\ work[g][c].phase # "absent" => work'[g][c].spec = work[g][c].spec

\* Such a step keeps g in line.
LEMMA SameInLine ==
  ASSUME TypeOK, NEW g \in Gateways, Same(g)
  PROVE  /\ GetPlacedClusters(g)' = GetPlacedClusters(g)
         /\ Current(g)' = Current(g)
         /\ WorksInLine(g) => WorksInLine(g)'
         /\ InLine(g) => InLine(g)'
<1>1. GetPlacedClusters(g)' = GetPlacedClusters(g)
  BY DEF Same, GetPlacedClusters
<1>2. Current(g)' = Current(g)
  BY DEF Same, Current
<1>3. decision[g] \subseteq Clusters
  BY DEF TypeOK
<1>4. WorksInLine(g) => WorksInLine(g)'
  BY <1>1, <1>2, <1>3 DEF Same, WorksInLine
<1>. QED
  BY <1>1, <1>2, <1>4 DEF Same, InLine

\* A step that changes nothing of g and takes it off no queue loses no trigger,
\* if the worker stands still or is busy elsewhere.
LEMMA Unseen ==
  ASSUME TypeOK, NEW g \in Gateways, NoTriggerLost(g), Same(g), g \in queued => g \in queued',
         rc' = rc \/ (~Busy(g) /\ ~Busy(g)')
  PROVE  NoTriggerLost(g)'
<1>1. SUFFICES ASSUME g \notin queued, gw[g].phase = "live"
               PROVE  IF Busy(g)' THEN Underway(g)' ELSE InLine(g)' \/ gw'[g].programmed = "False"
  BY DEF NoTriggerLost, Same
<1>2. CASE ~Busy(g) /\ ~Busy(g)'
  BY <1>1, <1>2, SameInLine DEF NoTriggerLost, Same
<1>3. CASE rc' = rc /\ Busy(g)
  <2>1. Underway(g)
    BY <1>1, <1>3 DEF NoTriggerLost
  <2>2. decision[g] \subseteq Clusters
    BY DEF TypeOK
  <2>3. Underway(g)'
    BY <1>3, <2>1, <2>2, SameInLine DEF Underway, Same
  <2>. QED
    BY <1>3, <2>3 DEF Busy
<1>4. rc' = rc => (Busy(g)' <=> Busy(g))
  BY DEF Busy
<1>. QED
  BY <1>2, <1>3, <1>4

\* A gateway that is queued, or is not live, has nothing to lose.
LEMMA Queued ==
  ASSUME NEW g, g \in queued' \/ gw'[g].phase # "live"
  PROVE  NoTriggerLost(g)'
BY DEF NoTriggerLost

LEMMA BeginLosesNone ==
  ASSUME TypeOK, NEW g \in Gateways, NoTriggerLost(g), NEW h \in Gateways, Begin(h) \/ EarlyError(h)
  PROVE  NoTriggerLost(g)'
<1>1. rc.pc = "idle" /\ h \in queued /\ UNCHANGED <<work, envVars>>
  BY DEF Begin, EarlyError, ReconcileGone, AddFinalizer, InvalidParams, Accept, MissingSecret, StartPlace, Dequeue
<1>2. CASE h # g
  <2>1. gw'[g] = gw[g]
    BY <1>2 DEF Begin, EarlyError, ReconcileGone, AddFinalizer, InvalidParams, Accept, MissingSecret,
      StartPlace, SetGateway, TypeOK
  <2>2. g \in queued => g \in queued'
    BY <1>2 DEF Begin, EarlyError, ReconcileGone, AddFinalizer, InvalidParams, Accept, MissingSecret, StartPlace
  <2>3. ~Busy(g) /\ ~Busy(g)'
    <3>1. CASE StartPlace(h)
      BY <1>1, <1>2, <3>1 DEF StartPlace, Busy, Idle
    <3>2. CASE rc' = rc
      BY <1>1, <3>2 DEF Busy
    <3>. QED
      BY <3>1, <3>2 DEF Begin, EarlyError, ReconcileGone, AddFinalizer, InvalidParams, Accept, MissingSecret
  <2>4. Same(g)
    BY <1>1, <2>1 DEF Same, envVars
  <2>. QED
    BY <2>2, <2>3, <2>4, Unseen
<1>3. CASE h = g /\ (AddFinalizer(h) \/ Accept(h) \/ MissingSecret(h) \/ EarlyError(h))
  BY <1>1, <1>3, Queued DEF AddFinalizer, Accept, MissingSecret, EarlyError
<1>4. CASE h = g /\ ReconcileGone(h)
  BY <1>4, Queued DEF ReconcileGone, Exists
<1>5. CASE h = g /\ InvalidParams(h)
  <2>1. gw'[g].programmed = "False"
    BY <1>5, FieldTypes, SMTT(30)
      DEF InvalidParams, SetGateway, Programmed, Gateway, TypeOK
  <2>2. ~Busy(g)'
    BY <1>1, <1>5 DEF InvalidParams, Busy
  <2>. QED
    BY <2>1, <2>2 DEF NoTriggerLost
<1>6. CASE h = g /\ StartPlace(h)
  <2>1. rc'.pc = "read" /\ ~rc'.conflict /\ rc'.deleting = (gw[g].phase = "deleting")
        /\ rc'.spec = Current(g) /\ UNCHANGED gw
    BY <1>6 DEF StartPlace, Idle, Current
  <2>2. gw'[g].phase = "live" => Underway(g)'
    BY <2>1, Zenon DEF Underway, Current
  <2>3. Busy(g)'
    BY <1>6 DEF StartPlace, Idle, Busy
  <2>. QED
    BY <2>2, <2>3 DEF NoTriggerLost
<1>. QED
  BY <1>2, <1>3, <1>4, <1>5, <1>6 DEF Begin

\* Steps of Place on a gateway that is not g, and those that queue the gateway.
LEMMA OtherGateway ==
  ASSUME TypeOK, NEW g \in Gateways, NoTriggerLost(g), UNCHANGED <<hasDecision, decision>>,
         queued \subseteq queued', rc'.pc = "idle" \/ rc'.g = rc.g, g # rc.g, gw'[g] = gw[g], work'[g] = work[g]
  PROVE  NoTriggerLost(g)'
<1>1. ~Busy(g) /\ ~Busy(g)'
  BY DEF Busy
<1>2. Same(g)
  BY DEF Same
<1>. QED
  BY <1>1, <1>2, Unseen

\* The reconcile of g goes on: what it must keep.
LEMMA GoesOn ==
  ASSUME NEW g, rc'.g = g, rc'.pc # "idle", g \notin queued' /\ gw'[g].phase = "live" => Underway(g)'
  PROVE  NoTriggerLost(g)'
BY DEF NoTriggerLost, Busy

\* One iteration of the first loop.
LEMMA PlaceOnLosesNone ==
  ASSUME TypeOK, NEW g \in Gateways, g = rc.g, NoTriggerLost(g), NEW c \in Clusters, PlaceOn(c)
  PROVE  NoTriggerLost(g)'
<1>. USE FieldTypes
<1>1. /\ rc.pc = "place" /\ UNCHANGED <<gw, hasDecision, decision>> /\ SetWork(g, c, CreateUpdateManifest(work[g][c]))
      /\ IF work' = work THEN UNCHANGED queued ELSE Enqueue({g})
  BY DEF PlaceOn, envVars
<1>2. /\ rc'.g = rc.g /\ rc'.pc = "place" /\ rc'.conflict = rc.conflict /\ rc'.deleting = rc.deleting
      /\ rc'.spec = rc.spec /\ rc'.targets = rc.targets /\ rc'.toPlace = rc.toPlace \ {c} /\ rc'.toRemove = rc.toRemove
  BY DEF PlaceOn, TypeOK, Reconciling
<1>3. CASE work' # work
  BY <1>1, <1>3, Queued DEF Enqueue
<1>4. CASE work' = work
  <2>1. SUFFICES ASSUME g \notin queued, gw[g].phase = "live"
                 PROVE  Underway(g)'
    BY <1>1, <1>2, <1>4, GoesOn
  <2>2. Underway(g)
    BY <1>1, <2>1 DEF NoTriggerLost, Busy
  <2>3. work[g][c] = CreateUpdateManifest(work[g][c])
    <3>1. work \in [Gateways -> [Clusters -> Work]]
      BY DEF TypeOK
    <3>2. PICK w : w = CreateUpdateManifest(work[g][c])
      BY Zenon
    <3>3. work = [work EXCEPT ![g][c] = w]
      BY <1>1, <1>4, <3>2, Zenon DEF SetWork
    <3>4. [work EXCEPT ![g][c] = w][g][c] = w
      BY <3>1
    <3>. QED
      BY <3>2, <3>3, <3>4, Zenon
  <2>4. work[g][c].phase # "absent" /\ work[g][c].spec = rc.spec
    BY <2>3, SMTT(30) DEF CreateUpdateManifest, Work
  <2>5. Same(g)
    BY <1>1, <1>4 DEF Same
  <2>. QED
    BY <1>1, <1>2, <1>4, <2>2, <2>4, <2>5, SameInLine, SMTT(30) DEF Underway
<1>. QED
  BY <1>3, <1>4

\* The steps after which the reconcile goes on.
Placing ==
  \/ ReadPlacement \/ NoPlacement \/ ListPlaced \/ ListPlacedError \/ PlaceError
  \/ \E c \in Clusters : \/ PlaceOn(c) \/ RemoveFrom(c) \/ WaitForGrace(c)
                         \/ RemoveNotFound(c) \/ DeleteWork(c)

LEMMA PlaceLosesNone ==
  ASSUME TypeOK, NEW g \in Gateways, NoTriggerLost(g), Placing
  PROVE  NoTriggerLost(g)'
<1>. USE FieldTypes
<1>1. /\ UNCHANGED <<gw, hasDecision, decision>> /\ queued \subseteq queued' /\ rc.pc # "idle"
      /\ \A h \in Gateways : h # rc.g => work'[h] = work[h]
  BY ZenonT(30) DEF Placing, ReadPlacement, NoPlacement, ListPlaced, ListPlacedError, PlaceError, PlaceOn, RemoveFrom,
    WaitForGrace, RemoveNotFound, DeleteWork, Removing, Placed, SetWork, Enqueue, envVars, TypeOK
<1>2. rc'.g = rc.g /\ rc'.pc # "idle" /\ rc'.conflict = rc.conflict /\ rc'.deleting = rc.deleting /\ rc'.spec = rc.spec
  <2>1. rc \in Reconciling
    BY DEF TypeOK
  <2>2. CASE ReadPlacement \/ NoPlacement
    BY <2>1, <2>2, ZenonT(30) DEF ReadPlacement, NoPlacement, AfterNotFound, Reconciling
  <2>5. CASE ListPlaced \/ ListPlacedError
    BY <2>1, <2>5, ZenonT(30) DEF ListPlaced, ListPlacedError, Reconciling
  <2>3. CASE PlaceError \/ \E c \in Clusters : WaitForGrace(c) \/ RemoveNotFound(c)
    BY <2>1, <2>3, Zenon DEF PlaceError, WaitForGrace, RemoveNotFound, Reconciling
  <2>4. CASE \E c \in Clusters : PlaceOn(c) \/ RemoveFrom(c) \/ DeleteWork(c)
    BY <2>1, <2>4, SMTT(30)
      DEF PlaceOn, RemoveFrom, DeleteWork, Removing, Reconciling
  <2>. QED
    BY <2>2, <2>3, <2>4, <2>5 DEF Placing
<1>3. CASE g # rc.g
  BY <1>1, <1>2, <1>3, OtherGateway
<1>4. CASE g = rc.g /\ \E c \in Clusters : PlaceOn(c)
  BY <1>4, PlaceOnLosesNone
<1>5. ASSUME g = rc.g, ~\E c \in Clusters : PlaceOn(c)
      PROVE  NoTriggerLost(g)'
  <2>1. SUFFICES ASSUME g \notin queued', gw[g].phase = "live"
                 PROVE  Underway(g)'
    BY <1>1, <1>2, <1>5, GoesOn
  <2>2. Underway(g)
    BY <1>1, <1>5, <2>1 DEF NoTriggerLost, Busy
  <2>3. Current(g)' = Current(g)
    BY <1>1 DEF Current
  <2>4. CASE rc'.pc \notin {"place", "publish"}
    BY <1>2, <2>2, <2>3, <2>4 DEF Underway
  <2>5. CASE ReadPlacement
    <3>1. /\ rc'.pc = "place" /\ rc'.targets = decision[g] /\ rc'.toPlace = decision[g] /\ g \in hasDecision
          /\ rc'.toRemove = GetPlacedClusters(g) \ decision[g] /\ UNCHANGED work
      BY <1>5, <2>2, <2>5 DEF ReadPlacement, ToPlace, ToRemove, Underway, TypeOK, Reconciling
    <3>2. GetPlacedClusters(g)' = GetPlacedClusters(g)
      BY <3>1 DEF GetPlacedClusters
    <3>. QED
      BY <1>1, <1>2, <2>2, <2>3, <3>1, <3>2 DEF Underway
  <2>6. CASE ListPlaced \/ ListPlacedError
    <3>1. /\ rc'.pc = "publish" /\ rc.pc = "place" /\ rc.toPlace = {} /\ rc.toRemove = {}
          /\ rc'.targets = rc.targets /\ (rc'.listErr \/ rc'.placed = GetPlacedClusters(g)) /\ UNCHANGED work
      BY <1>5, <2>6, Zenon DEF ListPlaced, ListPlacedError, Placed, TypeOK, Reconciling
    <3>2. WorksInLine(g)
      BY <2>2, <3>1 DEF Underway, WorksInLine
    <3>3. Same(g)
      BY <1>1, <3>1 DEF Same
    <3>. QED
      BY <1>1, <1>2, <2>2, <2>3, <3>1, <3>2, <3>3, SameInLine DEF Underway
  <2>7. ASSUME NEW c \in Clusters, RemoveFrom(c) \/ DeleteWork(c)
        PROVE  FALSE
    BY <1>5, <2>1, <2>2, <2>7 DEF RemoveFrom, DeleteWork, Removing, Enqueue, Underway
  <2>8. ASSUME \/ NoPlacement \/ PlaceError \/ \E c \in Clusters : WaitForGrace(c) \/ RemoveNotFound(c)
        PROVE  rc'.pc \notin {"place", "publish"}
    BY <2>8, Zenon DEF NoPlacement, PlaceError, WaitForGrace, RemoveNotFound, AfterNotFound, TypeOK, Reconciling
  <2>. QED
    BY <1>5, <2>4, <2>5, <2>6, <2>7, <2>8 DEF Placing
<1>. QED
  BY <1>3, <1>4, <1>5

\* The end of a reconcile.
LEMMA UpdateStatusLosesNone ==
  ASSUME TypeOK, NEW g \in Gateways, g = rc.g, NoTriggerLost(g), UpdateStatus
  PROVE  NoTriggerLost(g)'
<1>. USE FieldTypes
<1>1. PICK addresses \in GetAddresses :
        /\ WriteBack(NewStatus(addresses))
        /\ IF NewStatus(addresses) # gw[g] \/ rc.listErr THEN Enqueue({g}) ELSE UNCHANGED queued
  BY DEF UpdateStatus
<1>2. /\ rc.pc = "publish" /\ (rc.listErr \/ gw[g].clusters = rc.placed) /\ rc'.pc = "idle"
      /\ UNCHANGED <<work, hasDecision, decision>>
  BY DEF UpdateStatus, Idle, envVars
<1>3. CASE NewStatus(addresses) # gw[g] \/ rc.listErr
  BY <1>1, <1>3, Queued DEF Enqueue
<1>4. CASE NewStatus(addresses) = gw[g] /\ ~rc.listErr
  <2>1. gw'[g] = gw[g] /\ UNCHANGED queued
    BY <1>1, <1>4 DEF WriteBack, SetGateway, TypeOK
  <2>2. SUFFICES ASSUME g \notin queued, gw[g].phase = "live"
                 PROVE  InLine(g)
    <3>1. Same(g)
      BY <1>2, <2>1 DEF Same
    <3>. QED
      BY <1>2, <2>1, <2>2, <3>1, SameInLine DEF NoTriggerLost, Busy
  <2>3. Underway(g)
    BY <1>2, <2>2 DEF NoTriggerLost, Busy
  <2>4. WorksInLine(g) /\ rc.targets = decision[g] /\ rc.placed = GetPlacedClusters(g) /\ rc.spec.gen = gw[g].gen
    <3>1. rc.spec = Current(g) /\ WorksInLine(g) /\ rc.targets = decision[g] /\ rc.placed = GetPlacedClusters(g)
      BY <1>2, <1>4, <2>3, Zenon DEF Underway
    <3>2. Current(g).gen = gw[g].gen
      BY Zenon DEF Current
    <3>. QED
      BY <3>1, <3>2, Zenon
  <2>5. addresses = rc.placed
    BY <2>4 DEF GetAddresses, GetPlacedClusters
  <2>6. /\ gw[g].programmed = ProgrammedStatus /\ gw[g].observed = rc.spec.gen /\ gw[g].addresses = addresses
    <3>1. PICK r \in Gateway : r = gw[g]
      OBVIOUS
    <3>2. r = [Programmed(r, ProgrammedStatus, rc.spec.gen) EXCEPT !.addresses = addresses]
      BY <1>4, <3>1 DEF NewStatus
    <3>. QED
      BY <3>1, <3>2, Zenon DEF Programmed, Gateway
  <2>. QED
    BY <1>2, <1>4, <2>4, <2>5, <2>6 DEF InLine, ProgrammedStatus
<1>. QED
  BY <1>3, <1>4

\* The steps that end a reconcile.
LEMMA EndLosesNone ==
  ASSUME TypeOK, NEW g \in Gateways, NoTriggerLost(g),
         \/ UpdateClusters \/ UpdateStatus \/ RequeueUnknown \/ Finalize
         \/ DeleteError \/ WriteError \/ Restart
  PROVE  NoTriggerLost(g)'
<1>1. CASE Restart
  BY <1>1, Queued DEF Restart, Exists
<1>2. CASE g = rc.g /\ (UpdateClusters \/ RequeueUnknown \/ Finalize \/ DeleteError \/ WriteError)
  BY <1>2, Queued DEF UpdateClusters, RequeueUnknown, Requeue, Finalize, DeleteError, WriteError, Enqueue
<1>3. CASE g = rc.g /\ UpdateStatus
  BY <1>3, UpdateStatusLosesNone
<1>4. ASSUME g # rc.g, ~Restart
      PROVE  NoTriggerLost(g)'
  <2>1. UNCHANGED <<work, hasDecision, decision>> /\ rc'.pc = "idle" /\ queued \subseteq queued'
    BY <1>4, SMTT(30)
      DEF UpdateClusters, UpdateStatus, RequeueUnknown, Requeue, Finalize, DeleteError, WriteError, Enqueue,
      Idle, envVars
  <2>2. gw'[g] = gw[g]
    BY <1>4 DEF UpdateClusters, UpdateStatus, RequeueUnknown, Finalize, DeleteError, WriteError, WriteBack,
      SetGateway, TypeOK
  <2>. QED
    BY <1>4, <2>1, <2>2, OtherGateway
<1>. QED
  BY <1>1, <1>2, <1>3, <1>4

\* A step of somebody else on gateway h, which queues h.
LEMMA ElsewhereLosesNone ==
  ASSUME TypeOK, NEW g \in Gateways, NoTriggerLost(g), NEW h \in Gateways, Enqueue({h}),
         UNCHANGED <<hasDecision, decision>>,
         g # h => gw'[g] = gw[g] /\ work'[g] = work[g], rc' = rc \/ Touch(h)
  PROVE  NoTriggerLost(g)'
<1>1. CASE g = h
  BY <1>1, Queued DEF Enqueue
<1>2. CASE g # h
  <2>1. Same(g)
    BY <1>2 DEF Same
  <2>2. rc' = rc \/ (~Busy(g) /\ ~Busy(g)')
    <3>1. CASE Touch(h) /\ rc.g = h
      <4>1. rc'.g = h
        BY <3>1 DEF Touch, TypeOK, Reconciling
      <4>. QED
        BY <1>2, <3>1, <4>1 DEF Busy
    <3>2. CASE Touch(h) /\ rc.g # h
      BY <3>2, Zenon DEF Touch, TypeOK, Reconciling
    <3>. QED
      BY <1>2, <3>1, <3>2
  <2>. QED
    BY <2>1, <2>2, Unseen DEF Enqueue
<1>. QED
  BY <1>1, <1>2

\* Users, the placement controller, the agents and the clock.
Environment ==
  \/ Users \/ Hub \/ Tick \/ UNCHANGED vars
  \/ \E h \in Gateways, c \in Clusters : Agent(h, c)
  \/ \E c \in Clusters : AgentRemoveRBAC(c)

LEMMA EnvironmentLosesNone ==
  ASSUME TypeOK, NEW g \in Gateways, NoTriggerLost(g), Environment
  PROVE  NoTriggerLost(g)'
<1>1. ASSUME NEW h \in Gateways, CreateGateway(h) \/ EditGateway(h) \/ DeleteGateway(h)
      PROVE  NoTriggerLost(g)'
  <2>1. Enqueue({h}) /\ UNCHANGED <<work, hasDecision, decision>> /\ (rc' = rc \/ Touch(h))
    BY <1>1 DEF CreateGateway, EditGateway, DeleteGateway, Touch, envVars
  <2>2. g # h => gw'[g] = gw[g]
    BY <1>1 DEF CreateGateway, EditGateway, DeleteGateway, SetGateway, TypeOK
  <2>. QED
    BY <2>1, <2>2, ElsewhereLosesNone
<1>2. ASSUME NEW h \in Gateways, NEW c \in Clusters, SpoilAnnotation(h, c) \/ Agent(h, c)
      PROVE  NoTriggerLost(g)'
  <2>1. Enqueue({h}) /\ UNCHANGED <<gw, hasDecision, decision, rc>>
    BY <1>2 DEF SpoilAnnotation, Agent, AgentApply, AgentDenied, AgentRemove, envVars
  <2>2. g # h => work'[g] = work[g]
    BY <1>2 DEF SpoilAnnotation, Agent, AgentApply, AgentDenied, AgentRemove, SetWork, TypeOK
  <2>. QED
    BY <2>1, <2>2, ElsewhereLosesNone
<1>3. CASE \/ \E h \in Gateways : DropDecision(h) \/ SyncDecision(h)
           \/ \E h \in Gateways, D \in SUBSET Clusters : SetDecision(h, D)
  <2>1. EnqueueNamespace /\ UNCHANGED gw
    BY <1>3 DEF DropDecision, SyncDecision, SetDecision
  <2>. QED
    BY <2>1, Queued DEF EnqueueNamespace, Enqueue, Exists
<1>4. CASE \/ \E h \in Gateways : ChangeSecret(h)
           \/ ChangeParams \/ UNCHANGED vars
           \/ \E c \in Clusters : DetachCluster(c) \/ AgentRemoveRBAC(c)
  <2>1. UNCHANGED <<gw, work, hasDecision, decision, queued, rc>>
    BY <1>4, Zenon DEF ChangeSecret, ChangeParams, DetachCluster, AgentRemoveRBAC, vars, envVars
  <2>2. Same(g)
    BY <2>1 DEF Same
  <2>. QED
    BY <2>1, <2>2, Unseen
<1>5. CASE Tick
  <2>1. UNCHANGED <<gw, hasDecision, decision, queued, rc>>
    BY <1>5 DEF Tick, envVars
  <2>2. ASSUME NEW c \in Clusters
        PROVE  work'[g][c].phase = work[g][c].phase /\ work'[g][c].spec = work[g][c].spec
    BY <1>5, FieldTypes, SMTT(30) DEF Tick, Work
  <2>3. Same(g)
    BY <2>1, <2>2 DEF Same
  <2>. QED
    BY <2>1, <2>3, Unseen
<1>6. ASSUME NEW c \in Clusters, CleanNamespace(c)
      PROVE  NoTriggerLost(g)'
  <2>1. /\ UNCHANGED <<gw, hasDecision, decision, rc>> /\ queued \subseteq queued'
        /\ work[g][c].phase # "absent" => g \in queued'
    BY <1>6 DEF CleanNamespace, Enqueue, envVars
  <2>2. CASE work[g][c].phase = "absent"
    <3>1. work'[g] = [work[g] EXCEPT ![c] = NoWork]
      BY <1>6 DEF CleanNamespace
    <3>2. \A d \in Clusters : work'[g][d] = IF d = c THEN NoWork ELSE work[g][d]
      BY <3>1 DEF TypeOK
    <3>3. Same(g)
      BY <2>1, <2>2, <3>2, SMTT(30) DEF Same, NoWork
    <3>. QED
      BY <2>1, <3>3, Unseen
  <2>. QED
    BY <2>1, <2>2, Queued
<1>. QED
  BY <1>1, <1>2, <1>3, <1>4, <1>5, <1>6 DEF Environment, Users, Hub

\* Every step.
LEMMA NextLosesNone ==
  ASSUME TypeOK, [Next]_vars, NEW g \in Gateways, NoTriggerLost(g)
  PROVE  NoTriggerLost(g)'
<1>1. CASE \E h \in Gateways : Begin(h) \/ EarlyError(h)
  BY <1>1, BeginLosesNone
<1>2. CASE Placing
  BY <1>2, PlaceLosesNone
<1>3. CASE \/ UpdateClusters \/ UpdateStatus \/ RequeueUnknown \/ Finalize
           \/ DeleteError \/ WriteError \/ Restart
  BY <1>3, EndLosesNone
<1>4. CASE Environment
  BY <1>4, EnvironmentLosesNone
<1>. QED
  BY <1>1, <1>2, <1>3, <1>4 DEF Next, Continue, Faulty, Environment, Placing

\* QuiescentMeansConverged for any number of gateways and clusters, edits and
\* faults: whenever something the controller watches changes while a gateway is
\* reconciled, however far the reconcile has come, the gateway is looked at again.
THEOREM ConvergedAtRest == Spec => []QuiescentMeansConverged
<1>. DEFINE None == \A g \in Gateways : NoTriggerLost(g)
<1>1. Init => None
  BY SMTT(30) DEF Init, NewGateway, NoTriggerLost
<1>2. TypeOK /\ None /\ [Next]_vars => None'
  BY NextLosesNone
<1>3. None => QuiescentMeansConverged
  BY SMTT(30) DEF NoTriggerLost, Busy, InLine, WorksInLine, QuiescentMeansConverged
<1>. QED
  BY <1>1, <1>2, <1>3, TypeInit, TypeStep, PTL DEF Spec

=============================================================================
