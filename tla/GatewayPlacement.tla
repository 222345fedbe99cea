-------------------------- MODULE GatewayPlacement --------------------------
(***************************************************************************)
(* The hub side of a multi-cluster gateway: the gateway controller         *)
(* (pkg/controllers/gateway/gateway_controller.go), the OCM placer it      *)
(* calls (pkg/placement/ocm.go) and the graceful delete of a placed        *)
(* gateway (pkg/_internal/gracePeriod).                                    *)
(*                                                                         *)
(* One worker reconciles one gateway at a time; a reconcile is the         *)
(* sequence of API calls the code makes, one step per call, so the         *)
(* placement controller, the users, the agents of the workload clusters    *)
(* and the clock act between two of them.  A call that fails ends the      *)
(* reconcile the way the code does.  The calls of one loop iteration are   *)
(* one step: a write by somebody else between them makes the controller's  *)
(* own write fail with a conflict, which is one of the failed calls.       *)
(***************************************************************************)
EXTENDS Integers, FiniteSets

CONSTANTS
  Gateways,     \* the Gateway objects a supported class handles
  Clusters,     \* managed clusters, numbered in the order of their names
  GracePeriod,  \* DefaultGracePeriod, in clock ticks
  NeedsRbac,    \* what an agent may not do without the gateway-rbac work
  EditKinds,    \* bound: the kinds of change made
  MaxEdits,     \* bound: changes made by users and by the placement controller
  MaxFaults     \* bound: failed API calls and controller restarts

ASSUME GracePeriodAssumption == GracePeriod \in Nat \ {0}
ASSUME ClustersAssumption == Clusters \subseteq Nat
ASSUME RbacAssumption == NeedsRbac \subseteq {"apply", "delete"}
ASSUME BoundsAssumption == MaxEdits \in Nat /\ MaxFaults \in Nat

VARIABLES
  gw,           \* gw[g]: the Gateway object in the hub's API server
  work,         \* work[g][c]: the ManifestWork of g in c's namespace
  rbac,         \* rbac[c]: the gateway-rbac work in c's namespace, which all
                \* gateways share
  hasDecision,  \* gateways with a PlacementDecision, or with no placement label
  decision,     \* decision[g]: the clusters GetClusters answers ({}: no label)
  managed,      \* the ManagedClusters that exist
  paramsValid,  \* the GatewayClass parameters parse
  secrets,      \* gateways whose TLS secrets all exist
  down,         \* down[g][c]: the spec of the gateway that runs in c
  queued,       \* gateways in the controller's work queue
  rc,           \* the reconcile in progress: the worker's local variables
  edits,        \* edits made so far
  faults,       \* faults so far
  outFor,       \* outFor[g][c]: ticks c is out of decision[g], up to GracePeriod
  returned      \* returned[g]: clusters in decision[g] at some time since their
                \* work was given a grace annotation

envVars == <<hasDecision, decision, managed, paramsValid, secrets>>
bounds == <<edits, faults>>
history == <<outFor, returned>>
vars == <<gw, work, rbac, envVars, down, queued, rc, bounds, history>>

-----------------------------------------------------------------------------

\* What a ManifestWork asks for: the generation of the upstream gateway, and
\* the clusters annotation that the downstream copy inherits from it.
Spec0 == [gen |-> 0, clusters |-> {}]

WorkSpec == [gen : Nat, clusters : SUBSET Clusters]

NoGrace == -1   \* the work carries no kuadrant.io/grace-timeout
BadGrace == -2  \* it carries one that strconv.Atoi refuses

\* The grace annotation holds the time of deletion.  What the code tells apart
\* is how far away that time is, so the model keeps the ticks left until then.
Grace == {NoGrace, BadGrace} \cup 0..GracePeriod

NoWork == [phase |-> "absent", grace |-> NoGrace, spec |-> Spec0]

\* "created": no Applied condition yet; "denied": Applied is False, the agent
\* has no right to write gateways; "deleting": has a deletion timestamp.
Work == [phase : {"absent", "created", "denied", "applied", "deleting"},
         grace : Grace, spec : WorkSpec]

NewGateway == [phase |-> "live", finalizer |-> FALSE, accepted |-> FALSE,
               gen |-> 1, clusters |-> {}, programmed |-> "None",
               observed |-> 0, addresses |-> {}]

Gateway == [phase : {"absent", "live", "deleting", "gone"},
            finalizer : BOOLEAN, accepted : BOOLEAN, gen : Nat,
            clusters : SUBSET Clusters,
            programmed : {"None", "Unknown", "True", "False"},
            observed : Nat, addresses : SUBSET Clusters]

\* pc is where the worker is; deleting and spec are what it read of the gateway
\* g, and conflict says that somebody has written that object since.
Reconciling == [pc : {"idle", "read", "place", "publish", "failed", "finalize"},
                g : Gateways, deleting : BOOLEAN, spec : WorkSpec,
                conflict : BOOLEAN, targets : SUBSET Clusters,
                toPlace : SUBSET Clusters, toRemove : SUBSET Clusters,
                placed : SUBSET Clusters, listErr : BOOLEAN]

Idle(g) == [pc |-> "idle", g |-> g, deleting |-> FALSE, spec |-> Spec0,
            conflict |-> FALSE, targets |-> {}, toPlace |-> {},
            toRemove |-> {}, placed |-> {}, listErr |-> FALSE]

TypeOK ==
  /\ gw \in [Gateways -> Gateway]
  /\ work \in [Gateways -> [Clusters -> Work]]
  /\ rbac \in [Clusters -> {"absent", "live", "deleting"}]
  /\ hasDecision \subseteq Gateways
  /\ decision \in [Gateways -> SUBSET Clusters]
  /\ managed \subseteq Clusters
  /\ paramsValid \in BOOLEAN
  /\ secrets \subseteq Gateways
  /\ down \in [Gateways -> [Clusters -> WorkSpec]]
  /\ queued \subseteq Gateways
  /\ rc \in Reconciling
  /\ edits \in 0..MaxEdits
  /\ faults \in 0..MaxFaults
  /\ outFor \in [Gateways -> [Clusters -> 0..GracePeriod]]
  /\ returned \in [Gateways -> SUBSET Clusters]

Init ==
  /\ gw = [g \in Gateways |-> [NewGateway EXCEPT !.phase = "absent"]]
  /\ work = [g \in Gateways |-> [c \in Clusters |-> NoWork]]
  /\ rbac = [c \in Clusters |-> "absent"]
  /\ hasDecision \in SUBSET Gateways
  /\ decision \in [Gateways -> SUBSET Clusters]
  /\ \A g \in Gateways \ hasDecision : decision[g] = {}
  /\ managed = Clusters
  /\ paramsValid = TRUE
  /\ secrets = Gateways
  /\ down = [g \in Gateways |-> [c \in Clusters |-> Spec0]]
  /\ queued = {}
  /\ \E g \in Gateways : rc = Idle(g)
  /\ edits = 0
  /\ faults = 0
  /\ outFor = [g \in Gateways |-> [c \in Clusters |->
                 IF c \in decision[g] THEN 0 ELSE GracePeriod]]
  /\ returned = [g \in Gateways |-> {}]

-----------------------------------------------------------------------------
(* Helpers *)

\* The object is in the API server.
Exists(g) == gw[g].phase \in {"live", "deleting"}

\* The works the placer counts: applied and not being deleted.
GetPlacedClusters(g) == {c \in Clusters : work[g][c].phase = "applied"}

Enqueue(G) == queued' = queued \cup G

SetGateway(g, r) == gw' = [gw EXCEPT ![g] = r]

\* A write of the object the worker has read: it is refused when somebody has
\* written that object in the meantime.
WriteBack(r) == IF rc.conflict THEN UNCHANGED gw ELSE SetGateway(rc.g, r)

\* SetStatusCondition of Programmed, with its ObservedGeneration.
Programmed(r, status, n) == [r EXCEPT !.programmed = status, !.observed = n]

SetWork(g, c, w) == work' = [work EXCEPT ![g][c] = w]

\* Delete: the agent's finalizer keeps the work until it has cleaned up.
Deleted(w) == [w EXCEPT !.phase = "deleting"]

\* History: for how long a cluster has been out of the decision, and whether it
\* was in it since its work got a grace annotation.
Record(ticks) ==
  /\ outFor' = [g \in Gateways |-> [c \in Clusters |->
       IF c \in decision'[g] THEN 0
       ELSE IF outFor[g][c] + ticks > GracePeriod THEN GracePeriod
       ELSE outFor[g][c] + ticks]]
  /\ returned' = [g \in Gateways |-> {c \in Clusters :
       /\ work'[g][c].grace # NoGrace
       /\ c \in returned[g] \/ c \in decision'[g]}]

\* A failed API call or a restart.
Fault ==
  /\ faults < MaxFaults
  /\ faults' = faults + 1

-----------------------------------------------------------------------------
(* Reconcile: the branches that end before the placer is called.  A write   *)
(* to the gateway is a watch event that queues the gateway again.           *)

\* The worker takes g from the queue.
Dequeue(g) == rc.pc = "idle" /\ g \in queued

\* Get answers NotFound.
ReconcileGone(g) ==
  /\ Dequeue(g)
  /\ ~Exists(g)
  /\ queued' = queued \ {g}
  /\ UNCHANGED <<gw, work, rbac, envVars, down, rc, bounds, history>>

\* Mutant of Managed: the finalizer need not be there yet.
ManagedEarly(g) == gw[g].phase = "live"

\* Reconcile goes on past the checks for deletion and for the finalizer.
Managed(g) == gw[g].phase = "live" /\ gw[g].finalizer

AddFinalizer(g) ==
  /\ Dequeue(g)
  /\ gw[g].phase = "live" /\ ~gw[g].finalizer
  /\ SetGateway(g, [gw[g] EXCEPT !.finalizer = TRUE])
  /\ UNCHANGED <<work, rbac, envVars, down, queued, rc, bounds, history>>

\* Invalid GatewayClass parameters: Programmed is False, nothing is placed.
InvalidParams(g) ==
  /\ Dequeue(g)
  /\ Managed(g)
  /\ ~paramsValid
  /\ SetGateway(g, Programmed(gw[g], "False", gw[g].gen))
  /\ queued' = IF gw' = gw THEN queued \ {g} ELSE queued
  /\ UNCHANGED <<work, rbac, envVars, down, rc, bounds, history>>

Accept(g) ==
  /\ Dequeue(g)
  /\ Managed(g)
  /\ paramsValid
  /\ ~gw[g].accepted
  /\ SetGateway(g, [Programmed(gw[g], "Unknown", gw[g].gen)
                      EXCEPT !.accepted = TRUE])
  /\ UNCHANGED <<work, rbac, envVars, down, queued, rc, bounds, history>>

\* getTLSSecrets fails: Programmed is Unknown and the gateway is tried again.
MissingSecret(g) ==
  /\ Dequeue(g)
  /\ Managed(g)
  /\ paramsValid
  /\ gw[g].accepted
  /\ g \notin secrets
  /\ SetGateway(g, Programmed(gw[g], "Unknown", gw[g].gen))
  /\ UNCHANGED <<work, rbac, envVars, down, queued, rc, bounds, history>>

\* Place is called: for a gateway being deleted before every other check,
\* otherwise after them.
StartPlace(g) ==
  /\ Dequeue(g)
  /\ \/ gw[g].phase = "deleting"
     \/ /\ Managed(g)
        /\ paramsValid
        /\ gw[g].accepted
        /\ g \in secrets
  /\ queued' = queued \ {g}
  /\ rc' = [Idle(g) EXCEPT !.pc = "read",
                           !.deleting = (gw[g].phase = "deleting"),
                           !.spec = [gen |-> gw[g].gen,
                                     clusters |-> gw[g].clusters]]
  /\ UNCHANGED <<gw, work, rbac, envVars, down, bounds, history>>

\* An API call before the placer fails: the error puts the request back.
EarlyError(g) ==
  /\ Dequeue(g)
  /\ Fault
  /\ UNCHANGED <<gw, work, rbac, envVars, down, queued, rc, edits, history>>

-----------------------------------------------------------------------------
(* Place *)

\* Mutant of ToPlace: a cluster with an applied work is not placed again.
ToPlaceNew ==
  IF rc.deleting THEN {} ELSE decision[rc.g] \ GetPlacedClusters(rc.g)

ToPlace == IF rc.deleting THEN {} ELSE decision[rc.g]

\* removeFrom, or all existingClusters when the gateway is being deleted.
ToRemove == GetPlacedClusters(rc.g) \ (IF rc.deleting THEN {} ELSE decision[rc.g])

\* GetClusters and GetPlacedClusters.
ReadPlacement ==
  /\ rc.pc = "read"
  /\ rc.g \in hasDecision
  /\ rc' = [rc EXCEPT !.pc = "place", !.targets = decision[rc.g],
                      !.toPlace = ToPlace, !.toRemove = ToRemove]
  /\ UNCHANGED <<gw, work, rbac, envVars, down, queued, bounds, history>>

\* Mutant of AfterNotFound: the error is an error for a deleted gateway too.
AfterNotFoundStrict == "failed"

\* Reconcile takes a NotFound from Place for "already gone" when the gateway is
\* being deleted (client.IgnoreNotFound).
AfterNotFound == IF rc.deleting THEN "finalize" ELSE "failed"

\* No PlacementDecision is a NotFound error.
NoPlacement ==
  /\ rc.pc = "read"
  /\ rc.g \notin hasDecision
  /\ rc' = [rc EXCEPT !.pc = AfterNotFound]
  /\ UNCHANGED <<gw, work, rbac, envVars, down, queued, bounds, history>>

\* Mutant of CreateUpdateManifest: create only.
CreateManifest(w) ==
  IF w.phase = "absent"
  THEN [phase |-> "created", grace |-> NoGrace, spec |-> rc.spec]
  ELSE w

\* createUpdateManifest: create the work, or set its Spec and nothing else.
CreateUpdateManifest(w) ==
  IF w.phase = "absent"
  THEN [phase |-> "created", grace |-> NoGrace, spec |-> rc.spec]
  ELSE [w EXCEPT !.spec = rc.spec]

\* defaultRBAC leaves a work that is there alone, one being deleted included.
DefaultRBAC(c) == [rbac EXCEPT ![c] = IF @ = "absent" THEN "live" ELSE @]

\* One iteration of the loop over placementTargets: defaultRBAC, then
\* createUpdateClusterManifests.  A changed work is a watch event, except that
\* the RBAC work names no parent.
PlaceOn(c) ==
  /\ rc.pc = "place"
  /\ c \in rc.toPlace
  /\ rbac' = DefaultRBAC(c)
  /\ SetWork(rc.g, c, CreateUpdateManifest(work[rc.g][c]))
  /\ IF work' = work THEN UNCHANGED queued ELSE Enqueue({rc.g})
  /\ rc' = [rc EXCEPT !.toPlace = @ \ {c}]
  /\ UNCHANGED <<gw, envVars, down, bounds, history>>

\* The loop over removeFrom starts when the first loop is done.
Removing(c) ==
  /\ rc.pc = "place"
  /\ ~rc.deleting
  /\ rc.toPlace = {}
  /\ c \in rc.toRemove

\* Mutant of GraceOver: one tick early.
GraceAlmostOver(c) == c \notin managed \/ work[rc.g][c].grace \in {0, 1}

\* GracefulDelete deletes: the ManagedCluster is gone or the time has come.
GraceOver(c) == c \notin managed \/ work[rc.g][c].grace = 0

DeleteRBAC(c) == [rbac EXCEPT ![c] = IF @ = "live" THEN "deleting" ELSE @]

\* GracefulDelete deletes the work and Place then deletes the RBAC work.
RemoveFrom(c) ==
  /\ Removing(c)
  /\ work[rc.g][c].phase # "absent"
  /\ GraceOver(c)
  /\ SetWork(rc.g, c, Deleted(work[rc.g][c]))
  /\ rbac' = DeleteRBAC(c)
  /\ rc' = [rc EXCEPT !.toRemove = @ \ {c}]
  /\ Enqueue({rc.g})
  /\ UNCHANGED <<gw, envVars, down, bounds, history>>

\* Mutant of GraceTimeout: one tick late.
GraceTimeoutLate == GracePeriod + 1

\* What is written: DefaultGracePeriod from now.
GraceTimeout == GracePeriod

\* GracefulDelete returns ErrGracePeriodNotExpired, and Place with it, leaving
\* the other clusters of removeFrom for a later reconcile.  A work with no
\* annotation, or with one that does not parse, is given one first.
WaitForGrace(c) ==
  /\ Removing(c)
  /\ work[rc.g][c].phase # "absent"
  /\ ~GraceOver(c)
  /\ IF work[rc.g][c].grace \in {NoGrace, BadGrace}
     THEN /\ SetWork(rc.g, c, [work[rc.g][c] EXCEPT !.grace = GraceTimeout])
          /\ Enqueue({rc.g})
     ELSE UNCHANGED <<work, queued>>
  /\ rc' = [rc EXCEPT !.pc = "failed"]
  /\ UNCHANGED <<gw, rbac, envVars, down, bounds>>
  /\ Record(0)

\* The work to remove is no longer there: Get fails, and Place with it.
RemoveNotFound(c) ==
  /\ Removing(c)
  /\ work[rc.g][c].phase = "absent"
  /\ rc' = [rc EXCEPT !.pc = "failed"]
  /\ UNCHANGED <<gw, work, rbac, envVars, down, queued, bounds, history>>

\* Any call of Place fails.  defaultRBAC may have written the RBAC work before
\* createUpdateClusterManifests failed, and GracefulDelete may have deleted the
\* work before the delete of the RBAC work failed.
PlaceError ==
  /\ rc.pc \in {"read", "place"}
  /\ ~rc.deleting
  /\ Fault
  /\ \/ UNCHANGED <<work, rbac, queued>>
     \/ \E c \in rc.toPlace :
          rbac' = DefaultRBAC(c) /\ UNCHANGED <<work, queued>>
     \/ \E c \in rc.toRemove :
          /\ Removing(c)
          /\ work[rc.g][c].phase # "absent" /\ GraceOver(c)
          /\ SetWork(rc.g, c, Deleted(work[rc.g][c]))
          /\ UNCHANGED rbac
          /\ Enqueue({rc.g})
  /\ rc' = [rc EXCEPT !.pc = "failed"]
  /\ UNCHANGED <<gw, envVars, down, edits, history>>

\* The gateway is being deleted: its work is deleted without a grace period.
DeleteWork(c) ==
  /\ rc.pc = "place"
  /\ rc.deleting
  /\ c \in rc.toRemove
  /\ IF work[rc.g][c].phase = "absent"
     THEN UNCHANGED <<work, queued>>
     ELSE SetWork(rc.g, c, Deleted(work[rc.g][c])) /\ Enqueue({rc.g})
  /\ rc' = [rc EXCEPT !.toRemove = @ \ {c}]
  /\ UNCHANGED <<gw, rbac, envVars, down, bounds, history>>

\* A call of Place fails while the gateway is being deleted: Reconcile returns
\* the error, which puts the request back.
DeleteError ==
  /\ rc.pc \in {"read", "place"}
  /\ rc.deleting
  /\ Fault
  /\ rc' = Idle(rc.g)
  /\ Enqueue({rc.g})
  /\ UNCHANGED <<gw, work, rbac, envVars, down, edits, history>>

\* Place returns with no error.  The set it returns is then placementTargets.
Placed ==
  /\ rc.pc = "place"
  /\ rc.toPlace = {} /\ rc.toRemove = {}

-----------------------------------------------------------------------------
(* Reconcile: after the placer *)

\* RemoveFinalizer and Update.  The API server drops an object that is being
\* deleted and has no finalizer left.
Finalize ==
  /\ \/ rc.pc = "finalize"
     \/ Placed /\ rc.deleting
  /\ WriteBack([gw[rc.g] EXCEPT !.phase = "gone", !.finalizer = FALSE])
  /\ Enqueue({rc.g})
  /\ rc' = Idle(rc.g)
  /\ UNCHANGED <<work, rbac, envVars, down, bounds, history>>

\* GetPlacedClusters again, for the status.
ListPlaced ==
  /\ Placed /\ ~rc.deleting
  /\ rc' = [rc EXCEPT !.placed = GetPlacedClusters(rc.g), !.pc = "publish"]
  /\ UNCHANGED <<gw, work, rbac, envVars, down, queued, bounds, history>>

\* That call fails: clusters is then the set Place returned, the error does not
\* ask for a requeue and Reconcile carries on to the status.
ListPlacedError ==
  /\ Placed /\ ~rc.deleting
  /\ Fault
  /\ rc' = [rc EXCEPT !.placed = rc.targets, !.listErr = TRUE, !.pc = "publish"]
  /\ UNCHANGED <<gw, work, rbac, envVars, down, queued, edits, history>>

\* The clusters annotation changed: Update the gateway and return.
UpdateClusters ==
  /\ rc.pc = "publish"
  /\ ~rc.listErr
  /\ gw[rc.g].clusters # rc.placed
  /\ WriteBack([gw[rc.g] EXCEPT !.clusters = rc.placed])
  /\ Enqueue({rc.g})
  /\ rc' = Idle(rc.g)
  /\ UNCHANGED <<work, rbac, envVars, down, bounds, history>>

\* The loop over clusters stops without an error (addressErr is shadowed) at
\* the first one whose work is not found.  The clusters are sorted, except that
\* the set Place returned is not: then the loop may stop after any of them.
GetAddresses ==
  LET found == {c \in rc.placed : work[rc.g][c].phase # "absent"} IN
  IF found = rc.placed THEN {found}
  ELSE IF rc.listErr THEN SUBSET found
  ELSE {{c \in found : \A d \in rc.placed : d <= c => d \in found}}

ProgrammedStatus ==
  IF ~rc.listErr /\ rc.placed = rc.targets /\ rc.placed # {}
  THEN "True" ELSE "Unknown"

NewStatus(addresses) ==
  [Programmed(gw[rc.g], ProgrammedStatus, rc.spec.gen)
     EXCEPT !.addresses = addresses]

\* Addresses and conditions: written when they differ from the ones read, and
\* a conflict is an error.  Without a write and without an error the request
\* is not put back.
UpdateStatus ==
  /\ rc.pc = "publish"
  /\ rc.listErr \/ gw[rc.g].clusters = rc.placed
  /\ \E addresses \in GetAddresses :
       /\ WriteBack(NewStatus(addresses))
       /\ IF NewStatus(addresses) # gw[rc.g] \/ rc.listErr
          THEN Enqueue({rc.g}) ELSE UNCHANGED queued
  /\ rc' = Idle(rc.g)
  /\ UNCHANGED <<work, rbac, envVars, down, bounds, history>>

\* Mutant of Requeue: no RequeueAfter when the status is as it was.
RequeueOnChange == IF gw' = gw THEN UNCHANGED queued ELSE Enqueue({rc.g})

\* The write of the status or RequeueAfter brings the gateway back.
Requeue == Enqueue({rc.g})

\* Place failed, or its grace period is not over: Programmed is Unknown.
RequeueUnknown ==
  /\ rc.pc = "failed"
  /\ WriteBack(Programmed(gw[rc.g], "Unknown", rc.spec.gen))
  /\ Requeue
  /\ rc' = Idle(rc.g)
  /\ UNCHANGED <<work, rbac, envVars, down, bounds, history>>

\* A write to the gateway fails for a reason other than a conflict.
WriteError ==
  /\ rc.pc \in {"publish", "failed", "finalize"}
  /\ rc.pc = "publish" => 
       \/ gw[rc.g].clusters # rc.placed
       \/ \E addresses \in GetAddresses : NewStatus(addresses) # gw[rc.g]
  /\ Fault
  /\ Enqueue({rc.g})
  /\ rc' = Idle(rc.g)
  /\ UNCHANGED <<gw, work, rbac, envVars, down, edits, history>>

\* The controller restarts: memory is lost, and the initial list of every watch
\* queues every gateway there is.
Restart ==
  /\ Fault
  /\ rc' = Idle(rc.g)
  /\ queued' = {g \in Gateways : Exists(g)}
  /\ UNCHANGED <<gw, work, rbac, envVars, down, edits, history>>

-----------------------------------------------------------------------------
(* The environment: users, the placement controller, agents, the clock *)

Edit(kind) ==
  /\ kind \in EditKinds
  /\ edits < MaxEdits
  /\ edits' = edits + 1

\* A write to g by somebody else is a watch event, and makes the copy of g that
\* the worker holds stale.
Touch(g) ==
  /\ rc' = [rc EXCEPT !.conflict = @ \/ (rc.pc # "idle" /\ rc.g = g)]
  /\ Enqueue({g})

CreateGateway(g) ==
  /\ Edit("create")
  /\ gw[g].phase = "absent"
  /\ SetGateway(g, NewGateway)
  /\ Enqueue({g})
  /\ UNCHANGED <<work, rbac, envVars, down, rc, faults, history>>

EditGateway(g) ==
  /\ Edit("edit")
  /\ Exists(g)
  /\ SetGateway(g, [gw[g] EXCEPT !.gen = @ + 1])
  /\ Touch(g)
  /\ UNCHANGED <<work, rbac, envVars, down, faults, history>>

\* The finalizer keeps the object until the controller removes it.
DeleteGateway(g) ==
  /\ Edit("delete")
  /\ gw[g].phase = "live"
  /\ SetGateway(g, [gw[g] EXCEPT
       !.phase = IF gw[g].finalizer THEN "deleting" ELSE "gone"])
  /\ Touch(g)
  /\ UNCHANGED <<work, rbac, envVars, down, faults, history>>

\* A PlacementDecision event queues every gateway of the namespace.
EnqueueNamespace == Enqueue({g \in Gateways : Exists(g)})

SetDecision(g, D) ==
  /\ Edit("decide")
  /\ D \subseteq managed
  /\ decision' = [decision EXCEPT ![g] = D]
  /\ hasDecision' = hasDecision \cup {g}
  /\ EnqueueNamespace
  /\ UNCHANGED <<gw, work, rbac, managed, paramsValid, secrets, down, rc, faults>>
  /\ Record(0)

DropDecision(g) ==
  /\ Edit("undecide")
  /\ g \in hasDecision
  /\ decision' = [decision EXCEPT ![g] = {}]
  /\ hasDecision' = hasDecision \ {g}
  /\ EnqueueNamespace
  /\ UNCHANGED <<gw, work, rbac, managed, paramsValid, secrets, down, rc, faults>>
  /\ Record(0)

\* Nothing queues a gateway when the parameters of its class change.
ChangeParams ==
  /\ Edit("params")
  /\ paramsValid' = ~paramsValid
  /\ UNCHANGED <<gw, work, rbac, hasDecision, decision, managed, secrets, down,
                 queued, rc, faults, history>>

\* A certificate is issued, or its secret is deleted: no gateway is queued, only
\* secrets that describe clusters are watched.
ChangeSecret(g) ==
  /\ Edit("secret")
  /\ secrets' = IF g \in secrets THEN secrets \ {g} ELSE secrets \cup {g}
  /\ UNCHANGED <<gw, work, rbac, hasDecision, decision, managed, paramsValid,
                 down, queued, rc, faults, history>>

\* Somebody overwrites the grace annotation with a value that does not parse.
SpoilAnnotation(g, c) ==
  /\ Edit("annotation")
  /\ work[g][c].grace >= 0
  /\ SetWork(g, c, [work[g][c] EXCEPT !.grace = BadGrace])
  /\ Enqueue({g})
  /\ UNCHANGED <<gw, rbac, envVars, down, rc, faults, history>>

\* A cluster leaves the fleet: its ManagedCluster goes first, then OCM takes it
\* out of the decisions and empties its namespace, in either order.
DetachCluster(c) ==
  /\ Edit("detach")
  /\ c \in managed
  /\ managed' = managed \ {c}
  /\ UNCHANGED <<gw, work, rbac, hasDecision, decision, paramsValid, secrets,
                 down, queued, rc, faults, history>>

SyncDecision(g) ==
  /\ ~(decision[g] \subseteq managed)
  /\ decision' = [decision EXCEPT ![g] = @ \cap managed]
  /\ EnqueueNamespace
  /\ UNCHANGED <<gw, work, rbac, hasDecision, managed, paramsValid, secrets, down, rc,
                 bounds>>
  /\ Record(0)

CleanNamespace(c) ==
  /\ c \notin managed
  /\ rbac[c] # "absent" \/ \E g \in Gateways : work[g][c].phase # "absent"
  /\ work' = [g \in Gateways |-> [work[g] EXCEPT ![c] = NoWork]]
  /\ rbac' = [rbac EXCEPT ![c] = "absent"]
  /\ down' = [g \in Gateways |-> [down[g] EXCEPT ![c] = Spec0]]
  /\ Enqueue({g \in Gateways : work[g][c].phase # "absent"})
  /\ UNCHANGED <<gw, envVars, rc, bounds>>
  /\ Record(0)

\* The agent of c may do what op names.
Allowed(op, c) == op \in NeedsRbac => rbac[c] # "absent"

\* It has a work to apply: a new or a changed one, or one it could not apply.
Pending(g, c) ==
  \/ work[g][c].phase \in {"created", "denied"}
  \/ work[g][c].phase = "applied" /\ down[g][c] # work[g][c].spec

AgentApply(g, c) ==
  /\ c \in managed
  /\ Pending(g, c)
  /\ Allowed("apply", c)
  /\ SetWork(g, c, [work[g][c] EXCEPT !.phase = "applied"])
  /\ down' = [down EXCEPT ![g][c] = work[g][c].spec]
  /\ Enqueue({g})
  /\ UNCHANGED <<gw, rbac, envVars, rc, bounds, history>>

\* The Applied condition becomes False.
AgentDenied(g, c) ==
  /\ c \in managed
  /\ Pending(g, c) /\ work[g][c].phase # "denied"
  /\ ~Allowed("apply", c)
  /\ SetWork(g, c, [work[g][c] EXCEPT !.phase = "denied"])
  /\ Enqueue({g})
  /\ UNCHANGED <<gw, rbac, envVars, down, rc, bounds, history>>

\* It finishes the deletion of a work: the gateway in c, if any, is deleted.
AgentRemove(g, c) ==
  /\ c \in managed
  /\ work[g][c].phase = "deleting"
  /\ Allowed("delete", c) \/ down[g][c] = Spec0
  /\ SetWork(g, c, NoWork)
  /\ down' = [down EXCEPT ![g][c] = Spec0]
  /\ Enqueue({g})
  /\ UNCHANGED <<gw, rbac, envVars, rc, bounds>>
  /\ Record(0)

\* It finishes the deletion of the RBAC work.
AgentRemoveRBAC(c) ==
  /\ c \in managed
  /\ rbac[c] = "deleting"
  /\ rbac' = [rbac EXCEPT ![c] = "absent"]
  /\ UNCHANGED <<gw, work, envVars, down, queued, rc, bounds, history>>

\* One tick of the clock brings every grace timeout one tick closer.
Tick ==
  /\ work' = [g \in Gateways |-> [c \in Clusters |->
                [work[g][c] EXCEPT !.grace = IF @ > 0 THEN @ - 1 ELSE @]]]
  /\ UNCHANGED <<gw, rbac, envVars, down, queued, rc, bounds>>
  /\ Record(1)

-----------------------------------------------------------------------------

Begin(g) ==
  \/ ReconcileGone(g) \/ AddFinalizer(g) \/ InvalidParams(g) \/ Accept(g)
  \/ MissingSecret(g) \/ StartPlace(g)

Continue ==
  \/ ReadPlacement \/ NoPlacement
  \/ \E c \in Clusters : \/ PlaceOn(c) \/ RemoveFrom(c) \/ WaitForGrace(c)
                         \/ RemoveNotFound(c) \/ DeleteWork(c)
  \/ ListPlaced \/ UpdateClusters \/ UpdateStatus \/ RequeueUnknown
  \/ Finalize

Faulty ==
  \/ \E g \in Gateways : EarlyError(g)
  \/ PlaceError \/ DeleteError \/ ListPlacedError \/ WriteError \/ Restart

Users ==
  \/ \E g \in Gateways : \/ CreateGateway(g) \/ EditGateway(g)
                         \/ DeleteGateway(g) \/ DropDecision(g)
                         \/ ChangeSecret(g)
  \/ \E g \in Gateways, D \in SUBSET Clusters : SetDecision(g, D)
  \/ \E g \in Gateways, c \in Clusters : SpoilAnnotation(g, c)
  \/ \E c \in Clusters : DetachCluster(c)
  \/ ChangeParams

Agent(g, c) == AgentApply(g, c) \/ AgentDenied(g, c) \/ AgentRemove(g, c)

Hub ==
  \/ \E g \in Gateways : SyncDecision(g)
  \/ \E c \in Clusters : CleanNamespace(c)

Next ==
  \/ \E g \in Gateways : Begin(g)
  \/ Continue
  \/ Faulty
  \/ Users
  \/ Hub
  \/ \E g \in Gateways, c \in Clusters : Agent(g, c)
  \/ \E c \in Clusters : AgentRemoveRBAC(c)
  \/ Tick

Spec == Init /\ [][Next]_vars

\* The worker keeps working, its queue is first in first out (so no gateway in
\* it waits forever), the agents and OCM's controllers keep running and time
\* passes.  Users owe nothing, and faults stop at MaxFaults.
Fairness ==
  /\ WF_vars(Continue)
  /\ \A g \in Gateways : SF_vars(Begin(g))
  /\ \A g \in Gateways, c \in Clusters : WF_vars(Agent(g, c))
  /\ \A c \in Clusters : WF_vars(AgentRemoveRBAC(c))
  /\ \A g \in Gateways : WF_vars(SyncDecision(g))
  /\ \A c \in Clusters : WF_vars(CleanNamespace(c))
  /\ WF_vars(Tick)

FairSpec == Spec /\ Fairness

-----------------------------------------------------------------------------
(* Properties *)

\* The finalizer guards the works: as long as nobody has asked for the deletion
\* of a gateway, every work it has in a cluster's namespace is covered by the
\* finalizer on the gateway, so a deletion cannot slip past the controller.
\* Reconcile adds the finalizer in a pass of its own, before it calls Place.
WorksHeldByFinalizer ==
  \A g \in Gateways :
    (\E c \in Clusters : work[g][c].phase # "absent") =>
      gw[g].phase # "absent" /\ (Exists(g) => gw[g].finalizer)

\* A cluster that leaves the placement keeps serving for GracePeriod: the placer
\* takes a gateway away from a managed cluster only when that cluster has been
\* out of the decision for GracePeriod, provided it did not come back into the
\* decision after its work was given the grace annotation (GracefulDelete).
GraceHonoured ==
  [][\A g \in Gateways, c \in Clusters :
       (/\ work[g][c].phase # "deleting" /\ work'[g][c].phase = "deleting"
        /\ gw[g].phase = "live"
        /\ c \in managed
        /\ c \notin returned[g]) => outFor[g][c] = GracePeriod]_vars

\* What the works of g should ask for.
Current(g) == [gen |-> gw[g].gen, clusters |-> gw[g].clusters]

\* No trigger is lost: a gateway that is neither queued nor being reconciled has
\* been brought in line with everything the controller watches.  Every targeted
\* cluster has a work with the current content, no other cluster has an
\* applied one, and the clusters annotation, the addresses and the Programmed
\* condition describe the works as they are now.
QuiescentMeansConverged ==
  \A g \in Gateways :
    (/\ g \notin queued
     /\ rc.pc = "idle" \/ rc.g # g
     /\ gw[g].phase = "live"
     /\ paramsValid /\ gw[g].programmed # "False") =>
      /\ g \in hasDecision
      /\ \A c \in decision[g] : /\ work[g][c].phase # "absent"
                                /\ work[g][c].spec = Current(g)
      /\ GetPlacedClusters(g) \subseteq decision[g]
      /\ gw[g].clusters = GetPlacedClusters(g)
      /\ gw[g].addresses = gw[g].clusters
      /\ gw[g].observed = gw[g].gen
      /\ gw[g].programmed =
           IF GetPlacedClusters(g) = decision[g] /\ decision[g] # {}
           THEN "True" ELSE "Unknown"

\* Deleting a gateway deletes it in the workload clusters as well: once the
\* gateway object is gone every work of it is gone or on its way out.
DeletedEverywhere ==
  \A g \in Gateways : gw[g].phase = "gone" =>
    \A c \in Clusters : work[g][c].phase \in {"absent", "deleting"}

\* The gateway stays, can be placed and its class parameters are valid.
Placeable(g) == gw[g].phase = "live" /\ g \in hasDecision \cap secrets

\* Placement converges: a gateway that stays placeable ends up running, with its
\* current content, in every cluster of the decision, in spite of failed calls,
\* restarts, grace periods, detached clusters and a gateway-rbac work that goes
\* away under it.
PlacementConverges ==
  \A g \in Gateways, c \in Clusters :
    (/\ []paramsValid
     /\ <>[](Placeable(g) /\ c \in decision[g])) =>
       <>[](down[g][c] = Current(g))

\* Removal starts: a cluster that stays out of the decision loses its work in
\* the end, unless the agent is stuck with a work it may not apply, which
\* GetPlacedClusters does not see.
RemovalStarts ==
  \A g \in Gateways, c \in Clusters :
    (/\ []paramsValid
     /\ <>[](Placeable(g) /\ c \notin decision[g] /\ work[g][c].phase # "denied")) =>
       <>[](work[g][c].phase \in {"absent", "deleting"})

\* A gateway that is being deleted goes away: the finalizer is removed at last.
DeletionCompletes ==
  \A g \in Gateways : (gw[g].phase = "deleting") ~> (gw[g].phase = "gone")

=============================================================================
