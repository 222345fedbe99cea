----------------------------- MODULE ManagedZone -----------------------------
(***************************************************************************)
(* The ManagedZone controller (pkg/controllers/managedzone) with what the  *)
(* two providers make of EnsureManagedZone and DeleteManagedZone.          *)
(*                                                                         *)
(* A ManagedZone stands for a hosted zone at the provider.  The id of the  *)
(* zone that is created for it is kept in its status only, which is        *)
(* written after the parent zone has been given an NS record for it.       *)
(* The controller reads a cache that a watch brings up to date; the NS     *)
(* record is read from another cache.                                      *)
(*                                                                         *)
(* One ManagedZone is modelled, with a parent zone it may have.  The       *)
(* DNSRecord controller, which publishes the NS record, the garbage        *)
(* collector and users are environment.                                    *)
(***************************************************************************)
EXTENDS Integers, Sequences, FiniteSets

CONSTANTS
  Providers,   \* bound: the providers an instance looks at
  MaxZones,    \* bound: hosted zones the provider creates before it refuses
  EditKinds,   \* bound: the kinds of change made from outside
  FaultKinds,  \* bound: the kinds of call that fail
  MaxEdits,    \* bound: changes made from outside
  MaxFaults,   \* bound: failed calls and restarts
  MaxLag       \* bound: writes the watch has not delivered

ASSUME ZoneConstants ==
  /\ Providers \subseteq {"route53", "google"}
  /\ MaxZones \in Nat \ {0}
  /\ MaxEdits \in Nat /\ MaxFaults \in Nat /\ MaxLag \in Nat \ {0}

VARIABLES
  provider,  \* the kind of provider the zone's secret is for
  mz,        \* the ManagedZone in the API server
  cache,     \* the ManagedZone in the controller's cache
  watch,     \* the versions between the two, the last one included
  parent,    \* the parent zone: "none" if the spec names none
  ns,        \* the NS record in the parent zone
  nsCache,   \* the NS record in the controller's cache
  hosted,    \* the hosted zones at the provider
  created,   \* how many of them were created for this ManagedZone
  queued,    \* the request is in the controller's work queue
  rc,        \* the reconcile in progress
  lost,      \* history: the id of a hosted zone was not kept
  edits, faults

vars == <<provider, mz, cache, watch, parent, ns, nsCache, hosted, created,
          queued, rc, lost, edits, faults>>

-----------------------------------------------------------------------------

\* Ids of hosted zones, "" being 0; the last one belongs to a zone that was there
\* before, for spec.id.  The name servers of a zone are known by its id.
Adopted == MaxZones + 1

Ids == 0..Adopted

\* The Ready condition: not there, True, or False with one of the reasons and
\* messages.
Conditions == {"unknown", "ok", "ProviderError", "ParentZoneNSRecordError",
               "ParentZoneNSRecordNotReady", "status check failed"}

\* given says that spec.id is set; observed, ready and id, which stands for the name
\* servers as well, are in the status.
Zone == [phase : {"absent", "live", "deleting"}, given : BOOLEAN,
         finalizer : BOOLEAN, owned : BOOLEAN, gen : Nat, observed : Nat,
         id : Ids, ready : Conditions]

NoZone == [phase |-> "absent", given |-> FALSE, finalizer |-> FALSE,
           owned |-> FALSE, gen |-> 0, observed |-> 0, id |-> 0,
           ready |-> "unknown"]

NSRecord == [phase : {"absent", "live", "deleting"}, servers : Ids, ready : BOOLEAN]

NoNSRecord == [phase |-> "absent", servers |-> 0, ready |-> FALSE]

\* copy is the object as this reconcile has it, stale says that it was written by
\* somebody else since; cond is the condition to be reported; next is where to go
\* on after a status update.
Reconciling ==
  [pc : {"idle", "finalizer", "publish", "save", "ns", "check", "final",
         "delete ns", "delete zone", "remove"},
   copy : Zone, stale : BOOLEAN, cond : Conditions, next : {"ns", "check", "final"}]

Idle == [pc |-> "idle", copy |-> NoZone, stale |-> FALSE, cond |-> "ok", next |-> "ns"]

TypeOK ==
  /\ provider \in Providers
  /\ mz \in Zone /\ mz.observed <= mz.gen
  /\ cache \in Zone
  /\ watch \in Seq(Zone) /\ Len(watch) <= MaxLag
  /\ parent \in {"none", "absent", "present", "gone"}
  /\ ns \in NSRecord /\ nsCache \in NSRecord
  /\ hosted \subseteq Ids \ {0}
  /\ created \in 0..MaxZones
  /\ queued \in BOOLEAN
  /\ rc \in Reconciling
  /\ lost \in BOOLEAN
  /\ edits \in 0..MaxEdits
  /\ faults \subseteq FaultKinds

Init ==
  /\ provider \in Providers
  /\ mz = NoZone /\ cache = NoZone /\ watch = <<>>
  /\ parent \in {"none", "absent", "present"}
  /\ ns = NoNSRecord /\ nsCache = NoNSRecord
  /\ hosted = {Adopted}
  /\ created = 0
  /\ queued = FALSE
  /\ rc = Idle
  /\ lost = FALSE
  /\ edits = 0
  /\ faults = {}

-----------------------------------------------------------------------------
(* Helpers *)

Exists == mz.phase # "absent"

object == <<mz, cache, watch>>
records == <<ns, nsCache>>
atProvider == <<provider, hosted, created>>

Fault(kind) ==
  /\ kind \in FaultKinds \ faults
  /\ Cardinality(faults) < MaxFaults
  /\ faults' = faults \cup {kind}

\* The reconcile has created a zone whose id is not in the status.
Unsaved == rc.copy.id \notin {0, mz.id}

Goto(pc) == rc' = [rc EXCEPT !.pc = pc] /\ UNCHANGED <<queued, lost>>

\* Reconcile returns an error: what it knew is forgotten.
Retry == rc' = Idle /\ queued' = TRUE /\ lost' = (lost \/ Unsaved)

\* A write to the object, which the watch has yet to deliver.
Store(z) ==
  /\ Len(watch) < MaxLag
  /\ mz' = z
  /\ watch' = Append(watch, z)
  /\ UNCHANGED cache

\* Update and Status().Update of the object as z: refused if the copy is not the
\* last version, without effect if there is nothing new in it.  The reconcile goes
\* on as then says.
Stored(z, then) ==
  IF rc.stale
  THEN Retry /\ UNCHANGED object
  ELSE /\ IF z = mz THEN UNCHANGED object ELSE Store(z)
       /\ rc' = then
       /\ UNCHANGED <<queued, lost>>

\* Somebody else writes the object.
Outside(z, kind) ==
  /\ kind \in EditKinds
  /\ edits < MaxEdits
  /\ edits' = edits + 1
  /\ Store(z)
  /\ rc' = [rc EXCEPT !.stale = rc.pc # "idle"]
  /\ UNCHANGED <<atProvider, records, queued, lost, faults>>

-----------------------------------------------------------------------------
(* Reconcile *)

\* An event of the watch: the cache has the next version and the request is in
\* the work queue.
Deliver ==
  /\ watch # <<>>
  /\ cache' = Head(watch)
  /\ watch' = Tail(watch)
  /\ queued' = TRUE
  /\ UNCHANGED <<atProvider, mz, parent, records, rc, lost, edits, faults>>

\* The NS record is owned by the parent zone: its events queue the parent and
\* not this zone.
DeliverNS ==
  /\ nsCache # ns
  /\ nsCache' = ns
  /\ UNCHANGED <<atProvider, object, parent, ns, queued, rc, lost, edits, faults>>

\* Get answers NotFound.
ReconcileGone ==
  /\ rc.pc = "idle" /\ queued
  /\ cache.phase = "absent"
  /\ queued' = FALSE
  /\ UNCHANGED <<atProvider, object, parent, records, rc, lost, edits, faults>>

\* Mutant of FirstStep: a zone is published without a finalizer.
FirstStepUnheld(z) == IF z.phase = "deleting" THEN "delete ns" ELSE "publish"

FirstStep(z) ==
  IF z.phase = "deleting" THEN "delete ns"
  ELSE IF z.finalizer THEN "publish" ELSE "finalizer"

\* Get and what Reconcile decides from its answer.
Reconcile ==
  /\ rc.pc = "idle" /\ queued
  /\ cache.phase # "absent"
  /\ queued' = FALSE
  /\ rc' = [Idle EXCEPT !.copy = cache, !.stale = watch # <<>>, !.pc = FirstStep(cache)]
  /\ UNCHANGED <<atProvider, object, parent, records, lost, edits, faults>>

\* A call to the API server fails and the error is returned: the Get of Reconcile,
\* one for the parent zone or its NS record, or a write.
CallError ==
  /\ \/ rc.pc = "idle" /\ queued
     \/ rc.pc = "delete ns" /\ parent # "none"
     \/ rc.pc \in {"finalizer", "save", "final", "remove"}
  /\ Fault("api")
  /\ Retry
  /\ UNCHANGED <<atProvider, object, parent, records, edits>>

Held == [rc.copy EXCEPT !.finalizer = TRUE, !.owned = parent = "present"]

\* AddFinalizer, setParentZoneOwner and Update.  A parent zone that is not there is
\* an error.
AddFinalizer ==
  /\ rc.pc = "finalizer"
  /\ IF parent \in {"absent", "gone"}
     THEN Retry /\ UNCHANGED object
     ELSE Stored(Held, [rc EXCEPT !.pc = "publish", !.copy = Held])
  /\ UNCHANGED <<atProvider, parent, records, edits, faults>>

-----------------------------------------------------------------------------
(* publishManagedZone *)

\* The id EnsureManagedZone looks for: the one in the spec, else in the status.
zoneID == IF rc.copy.given THEN Adopted ELSE rc.copy.id

\* publishManagedZone returns nil, with id and name servers in the status.
Published(id) ==
  /\ rc' = [rc EXCEPT !.pc = "ns", !.copy.id = id]
  /\ UNCHANGED <<queued, lost>>

\* One of the steps fails: the condition is noted, the status updated as it is, and
\* Reconcile goes on.
Failed(cond, next) ==
  /\ rc' = [rc EXCEPT !.pc = "save", !.cond = cond, !.next = next]
  /\ UNCHANGED <<queued, lost>>

\* GetHostedZone or ManagedZones.Get.
GetZone ==
  /\ rc.pc = "publish"
  /\ zoneID # 0
  /\ IF zoneID \in hosted THEN Published(zoneID) ELSE Failed("ProviderError", "ns")
  /\ UNCHANGED <<atProvider, object, parent, records, edits, faults>>

\* CreateHostedZone makes a new zone whenever it is called, since the caller
\* reference is the time of the call.
Route53Create ==
  /\ provider = "route53"
  /\ created < MaxZones
  /\ created' = created + 1
  /\ hosted' = hosted \cup {created'}
  /\ UNCHANGED provider

\* ManagedZones.Create: the id is made from the domain name.
GoogleCreate ==
  /\ provider = "google"
  /\ 1 \notin hosted
  /\ created' = 1
  /\ hosted' = hosted \cup {1}
  /\ UNCHANGED provider

CreateZone ==
  /\ rc.pc = "publish"
  /\ zoneID = 0
  /\ Route53Create \/ GoogleCreate
  /\ Published(created')
  /\ UNCHANGED <<object, parent, records, edits, faults>>

\* Google refuses to create a zone that is there and whose id is not known, Route 53
\* one that is too many.
CreateRefused ==
  /\ rc.pc = "publish"
  /\ zoneID = 0
  /\ IF provider = "google" THEN 1 \in hosted ELSE created = MaxZones
  /\ Failed("ProviderError", "ns")
  /\ UNCHANGED <<atProvider, object, parent, records, edits, faults>>

\* The provider cannot be built or reached, or refuses.
ProviderError ==
  /\ rc.pc = "publish"
  /\ Fault("provider")
  /\ Failed("ProviderError", "ns")
  /\ UNCHANGED <<atProvider, object, parent, records, edits>>

\* The zone is created and an error is returned: the answer is lost, or listing the
\* records of the new zone fails in toManagedZoneOutput.
CreateReplyLost ==
  /\ rc.pc = "publish"
  /\ zoneID = 0
  /\ Fault("reply")
  /\ Route53Create \/ GoogleCreate
  /\ rc' = [rc EXCEPT !.pc = "save", !.cond = "ProviderError", !.next = "ns"]
  /\ lost' = TRUE
  /\ UNCHANGED <<object, parent, records, queued, edits>>

\* Status().Update after a failed step, with the condition as it was.
SaveStatus ==
  /\ rc.pc = "save"
  /\ Stored(rc.copy, [rc EXCEPT !.pc = rc.next])
  /\ UNCHANGED <<atProvider, parent, records, edits, faults>>

-----------------------------------------------------------------------------
(* The NS record in the parent zone *)

\* createParentZoneNSRecord: a record that is there already is left as it is.
CreateNSRecord ==
  /\ rc.pc = "ns"
  /\ \/ parent \in {"none", "present"} /\ Goto("check")
     \/ parent \in {"absent", "gone"} /\ Failed("ParentZoneNSRecordError", "check")
  /\ ns' = IF parent = "present" /\ ns.phase = "absent"
           THEN [phase |-> "live", servers |-> rc.copy.id, ready |-> FALSE]
           ELSE ns
  /\ UNCHANGED <<atProvider, object, parent, nsCache, edits, faults>>

CreateNSError ==
  /\ rc.pc = "ns"
  /\ parent # "none"
  /\ Fault("api")
  /\ Failed("ParentZoneNSRecordError", "check")
  /\ UNCHANGED <<atProvider, object, parent, records, edits>>

\* parentZoneNSRecordReady: no parent zone, or a record that is not in the cache,
\* is no error.
CheckNSRecord ==
  /\ rc.pc = "check"
  /\ IF parent = "present" /\ nsCache.phase # "absent" /\ ~nsCache.ready
     THEN Failed("ParentZoneNSRecordNotReady", "final")
     ELSE Goto("final")
  /\ UNCHANGED <<atProvider, object, parent, records, edits, faults>>

CheckNSError ==
  /\ rc.pc = "check"
  /\ parent # "none"
  /\ Fault("api")
  /\ Failed("status check failed", "final")
  /\ UNCHANGED <<atProvider, object, parent, records, edits>>

\* Mutant of FinalStatus: a failure is not reported.
FinalStatusIfOk ==
  IF rc.cond = "ok" THEN [rc.copy EXCEPT !.ready = "ok", !.observed = rc.copy.gen]
                    ELSE rc.copy

\* Mutant of FinalStatus: the generation is counted on.
FinalStatusNext == [rc.copy EXCEPT !.ready = rc.cond, !.observed = @ + 1]

FinalStatus == [rc.copy EXCEPT !.ready = rc.cond, !.observed = rc.copy.gen]

\* The last status update.  Reconcile returns nil, whatever failed before.
ReportStatus ==
  /\ rc.pc = "final"
  /\ Stored(FinalStatus, Idle)
  /\ UNCHANGED <<atProvider, parent, records, edits, faults>>

-----------------------------------------------------------------------------
(* Deletion *)

\* deleteParentZoneNSRecord: a record that is in the cache and not there any more
\* is an error.
DeleteNSRecord ==
  LET found == parent = "present" /\ nsCache.phase # "absent" IN
  /\ rc.pc = "delete ns"
  /\ IF found /\ ns.phase = "absent" THEN Retry ELSE Goto("delete zone")
  /\ ns' = IF found /\ ns.phase = "live" THEN [ns EXCEPT !.phase = "deleting"] ELSE ns
  /\ UNCHANGED <<atProvider, object, parent, nsCache, edits, faults>>

\* Mutant of Removable: the zone is left where it is.
RemovableNone == {}

\* The hosted zone deleteManagedZone asks the provider to delete.
Removable == IF rc.copy.given THEN {} ELSE {rc.copy.id}

\* DeleteHostedZone or ManagedZones.Delete; a zone that is not found is no error.
DeleteZone ==
  /\ rc.pc = "delete zone"
  /\ rc.copy.given \/ rc.copy.id # 0
  /\ hosted' = hosted \ Removable
  /\ Goto("remove")
  /\ UNCHANGED <<provider, created, object, parent, records, edits, faults>>

\* The status has no id: Route 53's client refuses the request, Google's answer may
\* be taken for a zone that is not found.
DeleteUnknownZone ==
  /\ rc.pc = "delete zone"
  /\ ~rc.copy.given /\ rc.copy.id = 0
  /\ Retry \/ (provider = "google" /\ Goto("remove"))
  /\ UNCHANGED <<atProvider, object, parent, records, edits, faults>>

\* The provider cannot be built or reached or refuses, or its answer is lost.
DeleteZoneError ==
  /\ rc.pc = "delete zone"
  /\ ~rc.copy.given
  /\ \/ Fault("provider") /\ UNCHANGED hosted
     \/ Fault("reply") /\ hosted' = hosted \ {rc.copy.id}
  /\ Retry
  /\ UNCHANGED <<provider, created, object, parent, records, edits>>

\* RemoveFinalizer and Update: the object goes away.
RemoveFinalizer ==
  /\ rc.pc = "remove"
  /\ Stored(NoZone, Idle)
  /\ UNCHANGED <<atProvider, parent, records, edits, faults>>

-----------------------------------------------------------------------------
(* Environment *)

CreateManagedZone(given) ==
  /\ ~Exists
  /\ given => Adopted \in hosted
  /\ Outside([NoZone EXCEPT !.phase = "live", !.gen = 1, !.given = given], "create")
  /\ UNCHANGED parent

\* The description is changed.
EditManagedZone ==
  /\ mz.phase = "live"
  /\ Outside([mz EXCEPT !.gen = @ + 1], "edit")
  /\ UNCHANGED parent

\* The object as a deletion leaves it.
Deleted == IF mz.finalizer THEN [mz EXCEPT !.phase = "deleting"] ELSE NoZone

DeleteManagedZone ==
  /\ mz.phase = "live"
  /\ Outside(Deleted, "delete")
  /\ UNCHANGED parent

\* The parent zone is created, or goes away for good.
ChangeParent ==
  /\ \/ parent = "absent" /\ parent' = "present"
     \/ parent = "present" /\ parent' = "gone"
  /\ "parent" \in EditKinds
  /\ edits < MaxEdits
  /\ edits' = edits + 1
  /\ UNCHANGED <<atProvider, object, records, queued, rc, lost, faults>>

\* The garbage collector deletes what a parent zone that is gone owned.
CollectZone ==
  /\ parent = "gone" /\ mz.owned /\ mz.phase = "live"
  /\ Store(Deleted)
  /\ rc' = [rc EXCEPT !.stale = rc.pc # "idle"]
  /\ UNCHANGED <<atProvider, parent, records, queued, lost, edits, faults>>

CollectNS ==
  /\ parent = "gone" /\ ns.phase = "live"
  /\ ns' = [ns EXCEPT !.phase = "deleting"]
  /\ UNCHANGED <<atProvider, object, parent, nsCache, queued, rc, lost, edits, faults>>

\* The DNSRecord controller publishes the NS record, which providers refuse if it
\* has no targets, and lets a deleted one go.
PublishNS ==
  /\ ns.phase = "live" /\ ~ns.ready /\ ns.servers # 0
  /\ ns' = [ns EXCEPT !.ready = TRUE]
  /\ UNCHANGED <<atProvider, object, parent, nsCache, queued, rc, lost, edits, faults>>

RemoveNS ==
  /\ ns.phase = "deleting"
  /\ ns' = NoNSRecord
  /\ UNCHANGED <<atProvider, object, parent, nsCache, queued, rc, lost, edits, faults>>

\* The hosted zone of spec.id is deleted by somebody else.
Vanish ==
  /\ "vanish" \in EditKinds
  /\ edits < MaxEdits
  /\ Adopted \in hosted
  /\ edits' = edits + 1
  /\ hosted' = hosted \ {Adopted}
  /\ UNCHANGED <<provider, created, object, parent, records, queued, rc, lost, faults>>

\* The process stops and starts again: caches are filled and everything is queued.
Restart ==
  /\ Fault("restart")
  /\ rc' = Idle
  /\ cache' = mz /\ watch' = <<>> /\ nsCache' = ns
  /\ queued' = Exists
  /\ lost' = (lost \/ Unsaved)
  /\ UNCHANGED <<atProvider, mz, parent, ns, edits>>

-----------------------------------------------------------------------------

Controller ==
  \/ ReconcileGone \/ Reconcile \/ AddFinalizer
  \/ GetZone \/ CreateZone \/ CreateRefused \/ SaveStatus
  \/ CreateNSRecord \/ CheckNSRecord \/ ReportStatus
  \/ DeleteNSRecord \/ DeleteZone \/ DeleteUnknownZone \/ RemoveFinalizer

Faulty ==
  \/ CallError \/ ProviderError \/ CreateReplyLost \/ CreateNSError \/ CheckNSError
  \/ DeleteZoneError \/ Restart

Others == CollectZone \/ CollectNS \/ PublishNS \/ RemoveNS

Users ==
  \/ \E given \in BOOLEAN : CreateManagedZone(given)
  \/ EditManagedZone \/ DeleteManagedZone \/ ChangeParent \/ Vanish

Next == Deliver \/ DeliverNS \/ Controller \/ Faulty \/ Others \/ Users

Spec == Init /\ [][Next]_vars

\* The watches deliver, the worker and the other controllers go on.  Users and
\* faults owe nothing.
FairSpec ==
  /\ Spec
  /\ WF_vars(Deliver) /\ WF_vars(DeliverNS) /\ WF_vars(Controller)
  /\ WF_vars(CollectZone) /\ WF_vars(CollectNS) /\ WF_vars(RemoveNS)

-----------------------------------------------------------------------------
(* Properties *)

\* EnsureManagedZone creates a hosted zone only for an object that is there and
\* holds the finalizer, however old the version is that Reconcile has read: its
\* deletion is going to be seen.
HostedUnderFinalizer ==
  [][hosted' \subseteq hosted \/ (Exists /\ mz.finalizer)]_vars

\* Unless a status update is refused or lost after a zone was created, every hosted
\* zone made for the object is the one of its status or of the reconcile in
\* progress: none is made twice, and none is left when the object is gone.
ZonesAccounted ==
  ~lost => hosted \ {Adopted} \subseteq {mz.id, rc.copy.id}

\* At most one failure of the provider, whose message is then new in the status, no
\* hosted zone deleted by others; Google's zone is known; and Route 53 does not refuse
\* to create another.
Undisturbed ==
  /\ created < MaxZones
  /\ ~({"provider", "reply"} \subseteq faults)
  /\ Adopted \in hosted
  /\ provider = "google" => ~lost

Settled ==
  /\ (mz.phase = "live" /\ parent \in {"none", "present"})
       => mz.observed = mz.gen /\ mz.id \in hosted
  /\ mz.phase = "deleting" => ~mz.given /\ mz.id = 0

\* Reconcile returns nil after a failed step, and it is only the event of its own
\* status update that makes it try again: that is enough for the zone to be hosted,
\* and its id and generation reported.  A zone that is being deleted goes away
\* unless its status has no id to delete a zone by.
ZoneConverges == []Undisturbed => <>[]Settled

\* "MGC will use this owner relationship to manage the NS values for the subdomain
\* in the parent domain" (docs/dnspolicy/managed-zone.md): once the controller is
\* done with a zone and nothing is under way, the NS record names its servers.
NSRecordManaged ==
  (/\ rc.pc = "idle" /\ ~queued /\ watch = <<>> /\ nsCache = ns
   /\ parent = "present" /\ mz.phase = "live" /\ mz.id # 0)
    => ns.phase = "live" /\ ns.servers = mz.id

=============================================================================
