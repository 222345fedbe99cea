-------------------------- MODULE DNSRecordPublish --------------------------
(***************************************************************************)
(* Publication of a DNSRecord: the DNSRecord controller                    *)
(* (pkg/controllers/dnsrecord) and what the Route 53 and Google Cloud DNS  *)
(* providers (pkg/dns/aws, pkg/dns/google) make of Ensure and Delete.      *)
(*                                                                         *)
(* The providers take away what an earlier version of the record published *)
(* by looking at status.endpoints, which the controller writes after the   *)
(* provider has made the change.  Between the two the record can be edited *)
(* by the DNSPolicy controller, the write can fail, the process can stop.  *)
(* The controller reads a cache that a watch brings up to date, event by   *)
(* event: it may read a version older than the one it wrote itself.        *)
(*                                                                         *)
(* One DNSRecord is modelled: a reconcile looks at one record, and records *)
(* of a zone have names of their own.  The ManagedZone is environment.     *)
(***************************************************************************)
EXTENDS Integers, Sequences, FiniteSetsExt

CONSTANTS
  Providers,   \* bound: the DNS providers of the zone, "route53" or "google"
  Names,       \* identities of endpoints: SetID() in Route 53, dnsName in Google
  Values,      \* the rest of an endpoint: targets, TTL, provider properties
  Inputs,      \* bound: the lists of endpoints that a record is given
  BatchSize,   \* changes in one request to Google
  EditKinds,   \* bound: the kinds of change made from outside
  FaultKinds,  \* bound: the kinds of call that fail
  MaxEdits,    \* bound: changes made from outside
  MaxFaults,   \* bound: failed calls and restarts
  MaxLag       \* bound: writes the watch has not delivered

ASSUME RecordConstants ==
  /\ Providers \subseteq {"route53", "google"}
  /\ Names \subseteq Nat
  /\ "none" \notin Values
  /\ BatchSize \in Nat /\ BatchSize >= 2
  /\ MaxEdits \in Nat /\ MaxFaults \in Nat /\ MaxLag \in Nat \ {0}

VARIABLES
  rec,     \* the DNSRecord in the API server
  cache,   \* the DNSRecord in the controller's cache
  watch,   \* the versions between the two, the last one included
  zone,    \* the ManagedZone: its state and the provider its secret is for
  hosted,  \* the record sets of this DNSRecord in the provider's zone
  queued,  \* the request is in the controller's work queue
  rc,      \* the reconcile in progress
  edits, faults

vars == <<rec, cache, watch, zone, hosted, queued, rc, edits, faults>>

-----------------------------------------------------------------------------

\* A list of endpoints: what is there under each identity, if anything.
Endpoints == [Names -> Values \cup {"none"}]

NoEndpoints == [n \in Names |-> "none"]

In(eps) == {n \in Names : eps[n] # "none"}

\* What publishRecord returns: nil, or one of several errors.
Answers == {"ok", "no zone", "zone not ready", "provider error"}

\* endpoints, observed and the Ready condition, with its message and observed
\* generation, are in the status; gen is metadata.generation.
Record == [phase : {"absent", "live", "deleting"}, finalizer : BOOLEAN,
           gen : Nat, spec : Endpoints, observed : Nat, endpoints : Endpoints,
           ready : {"unknown"} \cup Answers, readyGen : Nat]

NoRecord == [phase |-> "absent", finalizer |-> FALSE, gen |-> 0,
             spec |-> NoEndpoints, observed |-> 0, endpoints |-> NoEndpoints,
             ready |-> "unknown", readyGen |-> 0]

Zone == [state : {"absent", "notready", "ready"}, provider : Providers]

\* copy is what Get answered and stale says that the object was written since;
\* del and add are the change Google is asked to make, and todo the names of it
\* that have not been sent; answer is what publishRecord returned.
Reconciling ==
  [pc : {"idle", "finalizer", "provider", "batches", "status", "remove"},
   copy : Record, stale : BOOLEAN, del : SUBSET Names, add : SUBSET Names,
   todo : SUBSET Names, answer : Answers]

Idle == [pc |-> "idle", copy |-> NoRecord, stale |-> FALSE, del |-> {},
         add |-> {}, todo |-> {}, answer |-> "ok"]

TypeOK ==
  /\ rec \in Record
  /\ rec.observed <= rec.gen
  /\ cache \in Record
  /\ watch \in Seq(Record) /\ Len(watch) <= MaxLag
  /\ zone \in Zone
  /\ hosted \in Endpoints
  /\ queued \in BOOLEAN
  /\ rc \in Reconciling
  /\ edits \in 0..MaxEdits
  /\ faults \subseteq FaultKinds

Init ==
  /\ rec = NoRecord
  /\ cache = NoRecord
  /\ watch = <<>>
  /\ zone \in [state : {"notready", "ready"}, provider : Providers]
  /\ hosted = NoEndpoints
  /\ queued = FALSE
  /\ rc = Idle
  /\ edits = 0
  /\ faults = {}

-----------------------------------------------------------------------------
(* Helpers *)

Exists == rec.phase # "absent"

object == <<rec, cache, watch>>

Fault(kind) ==
  /\ kind \in FaultKinds \ faults
  /\ Cardinality(faults) < MaxFaults
  /\ faults' = faults \cup {kind}

Done == rc' = Idle

\* Reconcile returns an error or asks to be called again.
Retry == Done /\ queued' = TRUE

\* A write to the object, which the watch has yet to deliver.
Store(r) ==
  /\ Len(watch) < MaxLag
  /\ rec' = r
  /\ watch' = Append(watch, r)
  /\ UNCHANGED cache

\* Mutant of Answer: the error of deleteRecord is not returned.
AnswerOnce(a) ==
  IF rc.copy.phase = "deleting"
  THEN /\ IF a = "ok" THEN rc' = [rc EXCEPT !.pc = "remove"] ELSE Done
       /\ UNCHANGED queued
  ELSE rc' = [rc EXCEPT !.pc = "status", !.answer = a] /\ UNCHANGED queued

\* publishRecord or deleteRecord returns.
Answer(a) ==
  IF rc.copy.phase = "deleting"
  THEN IF a = "ok" THEN rc' = [rc EXCEPT !.pc = "remove"] /\ UNCHANGED queued
                   ELSE Retry
  ELSE rc' = [rc EXCEPT !.pc = "status", !.answer = a] /\ UNCHANGED queued

-----------------------------------------------------------------------------
(* Reconcile *)

\* An event of the watch: the cache has the next version and the request is
\* in the work queue.
Deliver ==
  /\ watch # <<>>
  /\ cache' = Head(watch)
  /\ watch' = Tail(watch)
  /\ queued' = TRUE
  /\ UNCHANGED <<rec, zone, hosted, rc, edits, faults>>

\* Get answers NotFound.
ReconcileGone ==
  /\ rc.pc = "idle" /\ queued
  /\ cache.phase = "absent"
  /\ queued' = FALSE
  /\ UNCHANGED <<object, zone, hosted, rc, edits, faults>>

\* Get fails otherwise: the error is returned.
GetError ==
  /\ rc.pc = "idle" /\ queued
  /\ Fault("get")
  /\ UNCHANGED <<object, zone, hosted, queued, rc, edits>>

\* Mutant of NeedsFinalizer: records are published without one.
NeedsNoFinalizer(r) == FALSE

NeedsFinalizer(r) == r.phase = "live" /\ ~r.finalizer

\* Get and what Reconcile decides from its answer.
Reconcile ==
  /\ rc.pc = "idle" /\ queued
  /\ cache.phase # "absent"
  /\ queued' = FALSE
  /\ rc' = [Idle EXCEPT !.copy = cache, !.stale = watch # <<>>,
                        !.pc = IF NeedsFinalizer(cache) THEN "finalizer"
                                                        ELSE "provider"]
  /\ UNCHANGED <<object, zone, hosted, edits, faults>>

\* AddFinalizer and Update.
AddFinalizer ==
  /\ rc.pc = "finalizer"
  /\ Retry
  /\ IF rc.stale THEN UNCHANGED object
     ELSE Store([rec EXCEPT !.finalizer = TRUE])
  /\ UNCHANGED <<zone, hosted, edits, faults>>

\* publishRecord and deleteRecord look the zone up first.  A zone that is not
\* there is an error for the one and all is done for the other.
NoZone ==
  /\ rc.pc = "provider"
  /\ zone.state = "absent"
  /\ Answer(IF rc.copy.phase = "deleting" THEN "ok" ELSE "no zone")
  /\ UNCHANGED <<object, zone, hosted, edits, faults>>

ZoneNotReady ==
  /\ rc.pc = "provider"
  /\ zone.state = "notready"
  /\ Answer("zone not ready")
  /\ UNCHANGED <<object, zone, hosted, edits, faults>>

AlreadyPublished == rc.copy.gen = rc.copy.observed

Skip ==
  /\ rc.pc = "provider"
  /\ zone.state = "ready"
  /\ rc.copy.phase = "live"
  /\ AlreadyPublished
  /\ Answer("ok")
  /\ UNCHANGED <<object, zone, hosted, edits, faults>>

\* The provider is asked to make a change.
CallProvider ==
  /\ rc.pc = "provider"
  /\ zone.state = "ready"
  /\ rc.copy.phase = "live" => ~AlreadyPublished

\* The provider cannot be built or reached, or refuses for reasons of its own.
ProviderError ==
  /\ \/ CallProvider
     \/ rc.pc = "batches" /\ rc.todo # {}
  /\ Fault("provider")
  /\ Answer("provider error")
  /\ UNCHANGED <<object, zone, hosted, edits>>

-----------------------------------------------------------------------------
(* Route 53 *)

\* What updateRecord asks to delete when it publishes: what the status has and
\* the spec has not.
Obsolete == In(rc.copy.endpoints) \ In(rc.copy.spec)

\* ChangeResourceRecordSets makes all of a batch or nothing of it, and refuses
\* to delete a record set that is not exactly as the request says.
Refuses(dels, eps) == \E n \in dels : hosted[n] # eps[n]

\* The refusal speaks of a record set that "was not found".
NotFound(dels) == \E n \in dels : hosted[n] = "none"

\* Mutant of Upserted: obsolete records are left where they are.
UpsertedOnly ==
  [n \in Names |-> IF n \in In(rc.copy.spec) THEN rc.copy.spec[n] ELSE hosted[n]]

Upserted ==
  [n \in Names |-> IF n \in In(rc.copy.spec) THEN rc.copy.spec[n]
                   ELSE IF n \in Obsolete THEN "none" ELSE hosted[n]]

\* Ensure of the Route 53 provider: with no endpoints in the spec nothing is
\* done at all, and that is a success.
Route53Ensure ==
  /\ zone.provider = "route53"
  /\ CallProvider
  /\ rc.copy.phase = "live"
  /\ \/ /\ In(rc.copy.spec) = {}
        /\ hosted' = hosted /\ Answer("ok") /\ UNCHANGED faults
     \/ /\ In(rc.copy.spec) # {}
        /\ Refuses(Obsolete, rc.copy.endpoints)
        /\ hosted' = hosted /\ Answer("provider error") /\ UNCHANGED faults
     \/ /\ In(rc.copy.spec) # {}
        /\ ~Refuses(Obsolete, rc.copy.endpoints)
        /\ hosted' = Upserted
        /\ \/ Answer("ok") /\ UNCHANGED faults
           \/ Answer("provider error") /\ Fault("reply")  \* made, and the answer is lost
  /\ UNCHANGED <<object, zone, edits>>

\* Delete of the Route 53 provider deletes what the spec has; deleteRecord takes
\* "was not found" for done.
Route53Delete ==
  /\ zone.provider = "route53"
  /\ CallProvider
  /\ rc.copy.phase = "deleting"
  /\ LET dels == In(rc.copy.spec) IN
     \/ /\ Refuses(dels, rc.copy.spec)
        /\ hosted' = hosted /\ Answer(IF NotFound(dels) THEN "ok" ELSE "provider error") /\ UNCHANGED faults
     \/ /\ ~Refuses(dels, rc.copy.spec)
        /\ hosted' = [n \in Names |-> IF n \in dels THEN "none" ELSE hosted[n]]
        /\ \/ Answer("ok") /\ UNCHANGED faults
           \/ Answer("provider error") /\ Fault("reply")
  /\ UNCHANGED <<object, zone, edits>>

-----------------------------------------------------------------------------
(* Google Cloud DNS *)

\* updateRecord lists the zone: what the status names and the zone has is to be
\* deleted, what the spec has is to be added.
GoogleList ==
  /\ zone.provider = "google"
  /\ CallProvider
  /\ LET del == In(rc.copy.endpoints) \cap In(hosted)
         add == IF rc.copy.phase = "deleting" THEN {} ELSE In(rc.copy.spec)
     IN  rc' = [rc EXCEPT !.pc = "batches", !.del = del, !.add = add,
                          !.todo = del \cup add]
  /\ UNCHANGED <<object, zone, hosted, queued, edits, faults>>

Changes(n) == (IF n \in rc.del THEN 1 ELSE 0) + (IF n \in rc.add THEN 1 ELSE 0)

\* The changes up to n, in the order of the names, fit in a request.
Fits(n) == MapThenSumSet(Changes, {m \in rc.todo : m <= n}) <= BatchSize

\* batchChange: as many of the names, in their order, as fit in a request.
NextBatch == {n \in rc.todo : Fits(n)}

\* A request makes all of its changes or, when it adds a record set that is
\* there and that it does not delete, none.
Conflicting(batch) == \E n \in (batch \cap rc.add) \ rc.del : hosted[n] # "none"

GoogleBatch ==
  /\ rc.pc = "batches"
  /\ rc.todo # {}
  /\ ~Conflicting(NextBatch)
  /\ hosted' = [n \in Names |-> IF n \notin NextBatch THEN hosted[n]
                                ELSE IF n \in rc.add THEN rc.copy.spec[n] ELSE "none"]
  /\ \/ /\ rc' = [rc EXCEPT !.todo = @ \ NextBatch]
        /\ UNCHANGED <<queued, faults>>
     \/ Answer("provider error") /\ Fault("reply")
  /\ UNCHANGED <<object, zone, edits>>

GoogleConflict ==
  /\ rc.pc = "batches"
  /\ rc.todo # {}
  /\ Conflicting(NextBatch)
  /\ Answer("provider error")
  /\ UNCHANGED <<object, zone, hosted, edits, faults>>

\* Mutant of GoogleDone: what is left after the first request is forgotten.
GoogleFirstBatch ==
  /\ rc.pc = "batches"
  /\ rc.todo # rc.del \cup rc.add
  /\ Answer("ok")
  /\ UNCHANGED <<object, zone, hosted, edits, faults>>

GoogleDone ==
  /\ rc.pc = "batches"
  /\ rc.todo = {}
  /\ Answer("ok")
  /\ UNCHANGED <<object, zone, hosted, edits, faults>>

-----------------------------------------------------------------------------
(* The end of Reconcile *)

\* The Ready condition with the message of the answer.
Condition(r) == [r EXCEPT !.ready = rc.answer, !.readyGen = r.gen]

\* Mutant of NewStatus: the generation that is observed is the next one.
ObservedNext ==
  Condition([rc.copy EXCEPT !.observed = rc.copy.gen + 1, !.endpoints = rc.copy.spec])

NewStatus ==
  IF rc.answer = "ok"
  THEN Condition([rc.copy EXCEPT !.observed = rc.copy.gen, !.endpoints = rc.copy.spec])
  ELSE Condition(rc.copy)

\* Reconcile returns, with the error of publishRecord if there was one.
Return == IF rc.answer = "ok" THEN Done /\ UNCHANGED queued ELSE Retry

\* The status is written when it changed; a conflict asks for another call.
UpdateStatus ==
  /\ rc.pc = "status"
  /\ \/ NewStatus = rc.copy /\ Return /\ UNCHANGED object
     \/ NewStatus # rc.copy /\ rc.stale /\ Retry /\ UNCHANGED object
     \/ NewStatus # rc.copy /\ ~rc.stale /\ Return /\ Store(NewStatus)
  /\ UNCHANGED <<zone, hosted, edits, faults>>

\* RemoveFinalizer and Update.
RemoveFinalizer ==
  /\ rc.pc = "remove"
  /\ IF rc.stale THEN Retry /\ UNCHANGED object
     ELSE Done /\ UNCHANGED queued /\ Store(NoRecord)
  /\ UNCHANGED <<zone, hosted, edits, faults>>

\* A write fails for another reason than a conflict.
WriteError ==
  /\ \/ rc.pc \in {"finalizer", "remove"}
     \/ rc.pc = "status" /\ NewStatus # rc.copy
  /\ Fault("write")
  /\ Retry
  /\ UNCHANGED <<object, zone, hosted, edits>>

\* The process stops and starts again: it fills its cache and its work queue.
Restart ==
  /\ Fault("restart")
  /\ Done
  /\ cache' = rec
  /\ watch' = <<>>
  /\ queued' = Exists
  /\ UNCHANGED <<rec, zone, hosted, edits>>

-----------------------------------------------------------------------------
(* Environment *)

Edit(kind) ==
  /\ kind \in EditKinds
  /\ edits < MaxEdits
  /\ edits' = edits + 1

\* A write to the record from outside: the copy of a reconcile is out of date.
Change(r) ==
  /\ Store(r)
  /\ rc' = [rc EXCEPT !.stale = rc.pc # "idle"]
  /\ UNCHANGED <<zone, hosted, queued, faults>>

\* The DNSPolicy controller creates a record without endpoints.
CreateRecord ==
  /\ Edit("create")
  /\ ~Exists
  /\ Change([NoRecord EXCEPT !.phase = "live", !.gen = 1])

\* The DNSPolicy controller sets other endpoints; none when the gateways have
\* no address.
EditRecord(eps) ==
  /\ Edit(IF eps = NoEndpoints THEN "clear" ELSE "edit")
  /\ Exists
  /\ eps # rec.spec
  /\ Change([rec EXCEPT !.spec = eps, !.gen = @ + 1])

\* A delete request: an object with a finalizer stays, and its generation grows.
DeleteRecord ==
  /\ Edit("delete")
  /\ rec.phase = "live"
  /\ Change(IF rec.finalizer THEN [rec EXCEPT !.phase = "deleting", !.gen = @ + 1]
                             ELSE NoRecord)

\* The ManagedZone becomes ready or stops being so.
ChangeZone ==
  /\ Edit("zone")
  /\ zone.state # "absent"
  /\ zone' = [zone EXCEPT !.state = IF @ = "ready" THEN "notready" ELSE "ready"]
  /\ UNCHANGED <<object, hosted, queued, rc, faults>>

\* The ManagedZone is deleted.  The zone in the provider stays when it was given
\* by its id, and cannot be deleted while it has record sets.
DeleteZone ==
  /\ Edit("nozone")
  /\ zone.state # "absent"
  /\ zone' = [zone EXCEPT !.state = "absent"]
  /\ UNCHANGED <<object, hosted, queued, rc, faults>>

Controller ==
  \/ ReconcileGone \/ Reconcile \/ AddFinalizer
  \/ NoZone \/ ZoneNotReady \/ Skip
  \/ Route53Ensure \/ Route53Delete
  \/ GoogleList \/ GoogleBatch \/ GoogleConflict \/ GoogleDone
  \/ UpdateStatus \/ RemoveFinalizer

Failure == GetError \/ ProviderError \/ WriteError \/ Restart

Environment ==
  \/ CreateRecord \/ DeleteRecord \/ ChangeZone \/ DeleteZone
  \/ \E eps \in Endpoints \cap Inputs : EditRecord(eps)

Next == Deliver \/ Controller \/ Failure \/ Environment

Spec == Init /\ [][Next]_vars

FairSpec == Spec /\ WF_vars(Deliver) /\ WF_vars(Controller)

-----------------------------------------------------------------------------
(* Properties *)

\* A generation that the status says is observed is in the provider's zone, every
\* endpoint of it as the spec has it: publishRecord skips such a record for good.
ObservedMeansPublished ==
  (rec.phase = "live" /\ rec.observed = rec.gen)
    => \A n \in In(rec.spec) : hosted[n] = rec.spec[n]

\* Nothing is written to the provider for a record that could go away without
\* the controller seeing it: it exists and has the finalizer.
PublishedUnderFinalizer ==
  [][hosted' # hosted => Exists /\ rec.finalizer]_vars

\* Nothing comes between what the provider has and what the status says of it: no
\* status that was due is lost, be it to another write, to a failed call or to a
\* restart, and no change that was made is reported as an error.  With Route 53
\* a record is not emptied either, nor deleted before its last edit is published.
Undisturbed ==
  /\ faults \cap {"write", "restart"} = {}
  /\ (rc.pc = "status" /\ (rc.stale \/ rc.answer # "ok")) => hosted = rec.endpoints
  /\ zone.provider = "route53" =>
       /\ (rec.phase = "live" /\ In(rec.spec) = {}) => hosted = NoEndpoints
       /\ ~Exists => hosted = NoEndpoints

Settled ==
  (rec.phase = "live" /\ zone.state = "ready")
    => hosted = rec.spec /\ rec.ready = "ok"

\* Unless the status loses track of the zone, a record ends up published exactly,
\* with its obsolete endpoints removed, and Ready: failed calls of the provider,
\* stale reads and zones that are not ready in between are made up for.
ConvergesUndisturbed == []Undisturbed => <>[]Settled

\* With Google, a record that is being deleted goes away unless its zone never
\* becomes ready again.
DeletionCompletes ==
  zone.provider = "google" =>
    []<>(rec.phase # "deleting" \/ zone.state = "notready")

\* Every record converges, whatever happened on the way: the endpoints "no longer
\* present in DNSRecordSpec.Endpoints" are deleted with the help of the status.
RecordConverges == <>[]Settled

=============================================================================
