----------------------- MODULE DNSRecordPublishProofs -----------------------
(***************************************************************************)
(* Proofs about DNSRecordPublish, for any set of names, any set of values, *)
(* both providers and every bound.                                         *)
(*                                                                         *)
(* The argument is about versions of the record.  The controller may read  *)
(* an old one, but its cache never goes back: a version that it can still  *)
(* read was not read before the last version it wrote from.  So when the   *)
(* status says that the current generation is published, every version     *)
(* that can still be read, or is being worked on, has that generation; and *)
(* once the finalizer is gone, a version that can still be read and is     *)
(* being deleted has nothing left to delete.                               *)
(***************************************************************************)
EXTENDS DNSRecordPublish, SequenceTheorems, TLAPS

\* A leaf goes to Zenon, then to SMT, unless it names its prover.
USE Zenon, SMTT(30)

(* Of a record r, a zone z, its record sets h and a version v of the record *)

Held(r) == r.phase # "absent" /\ r.finalizer

Observed(r) == r.phase = "live" /\ r.observed = r.gen

Shown(h, v) == \A n \in In(v.spec) : h[n] = v.spec[n]

\* Publishing v again does no harm to the generation of r that is observed.
Harmless(r, v) ==
  Observed(r) => v.gen = r.gen /\ v.spec = r.spec /\ v.phase = "live"

\* The provider has nothing to delete for v.
NothingLeft(z, h, v) ==
  \/ z.state = "absent"
  \/ /\ z.provider = "route53"
     /\ In(v.spec) = {} \/ \E n \in In(v.spec) : h[n] = "none"
  \/ /\ z.provider = "google"
     /\ In(v.endpoints) \cap In(h) = {}

\* A version that the watch has yet to deliver.
WatchedOK(r, v) ==
  /\ Harmless(r, v)
  /\ (v.phase = "deleting" \/ (v.phase = "live" /\ v.finalizer)) => Held(r)

\* A version that the controller reads, or has read.
ReadOK(r, z, h, v) ==
  /\ Harmless(r, v)
  /\ (v.phase = "live" /\ v.finalizer) => Held(r)
  /\ (v.phase = "deleting" /\ ~Held(r)) => NothingLeft(z, h, v)

(* The inductive invariant *)

VersionInv ==
  /\ \A i \in 1..Len(watch) : WatchedOK(rec, watch[i])
  /\ ReadOK(rec, zone, hosted, cache)
  /\ IF watch = <<>> THEN cache = rec ELSE watch[Len(watch)] = rec
  /\ rec.phase = "deleting" => rec.finalizer

BatchInv ==
  /\ zone.provider = "google"
  /\ rc.copy.phase = "live" =>
       /\ rc.add = In(rc.copy.spec)
       /\ \A n \in In(rc.copy.spec) \ rc.todo : hosted[n] = rc.copy.spec[n]
  /\ rc.copy.phase = "deleting" =>
       /\ rc.add = {}
       /\ In(rc.copy.endpoints) \cap In(hosted) \subseteq rc.todo
       /\ ~Held(rec) => rc.todo = {}

ReconcileInv ==
  rc.pc # "idle" =>
    /\ ~rc.stale => rc.copy = rec /\ cache = rec /\ watch = <<>>
    /\ ReadOK(rec, zone, hosted, rc.copy)
    /\ rc.copy.phase # "absent"
    /\ rc.pc = "finalizer" => rc.copy.phase = "live"
    /\ rc.pc # "finalizer" /\ rc.copy.phase = "live" => rc.copy.finalizer
    /\ rc.pc = "batches" => BatchInv
    /\ rc.pc = "status" => rc.copy.phase = "live"
    /\ rc.pc = "status" /\ rc.answer = "ok" /\ ~rc.stale => Shown(hosted, rc.copy)
    /\ rc.pc = "remove" => /\ rc.copy.phase = "deleting"
                           /\ NothingLeft(zone, hosted, rc.copy)

PublishedInv == Observed(rec) => Shown(hosted, rec)

Inv == TypeOK /\ VersionInv /\ ReconcileInv /\ PublishedInv

-----------------------------------------------------------------------------
(* Types *)

LEMMA EmptyTypes ==
  NoEndpoints \in Endpoints /\ In(NoEndpoints) = {} /\ NoRecord \in Record /\ Idle \in Reconciling
<1>1. NoEndpoints \in Endpoints
  BY DEF NoEndpoints, Endpoints
<1>2. In(NoEndpoints) = {}
  BY DEF NoEndpoints, In
<1>3. NoRecord \in Record
  BY <1>1 DEF NoRecord, Record
<1>4. Idle \in Reconciling
  BY <1>3 DEF Idle, Reconciling, Answers
<1> QED BY <1>1, <1>2, <1>3, <1>4

LEMMA FaultType ==
  ASSUME faults \subseteq FaultKinds, NEW kind, Fault(kind)
  PROVE  faults' \subseteq FaultKinds
BY RecordConstants DEF Fault

LEMMA EditType ==
  ASSUME edits \in 0..MaxEdits, NEW kind, Edit(kind)
  PROVE  edits' \in 0..MaxEdits
BY RecordConstants, SMTT(30) DEF Edit

\* The watch after a write and after a delivery.
LEMMA AppendFacts ==
  ASSUME NEW w \in Seq(Record), NEW r \in Record
  PROVE  /\ Append(w, r) \in Seq(Record)
         /\ Len(Append(w, r)) = Len(w) + 1
         /\ Append(w, r) # <<>>
         /\ Append(w, r)[Len(w) + 1] = r
         /\ \A i \in 1..Len(w) : Append(w, r)[i] = w[i]
BY SMTT(30)

LEMMA TailFacts ==
  ASSUME NEW w \in Seq(Record), w # <<>>
  PROVE  /\ Head(w) = w[1] /\ Head(w) \in Record
         /\ Tail(w) \in Seq(Record)
         /\ Len(Tail(w)) = Len(w) - 1
         /\ Len(w) \in Nat \ {0}
         /\ \A i \in 1..Len(Tail(w)) : Tail(w)[i] = w[i + 1]
         /\ Tail(w) = <<>> <=> Len(w) = 1
<1>1. Len(w) \in Nat \ {0}
  BY EmptySeq
<1>2. Head(w) = w[1] /\ Head(w) \in Record /\ Tail(w) \in Seq(Record)
  BY <1>1, SMTT(30)
<1>3. Len(Tail(w)) = Len(w) - 1 /\ \A i \in 1..Len(Tail(w)) : Tail(w)[i] = w[i + 1]
  BY <1>1, SMTT(30)
<1>4. Tail(w) = <<>> <=> Len(Tail(w)) = 0
  BY <1>2, EmptySeq, Zenon
<1> QED BY <1>1, <1>2, <1>3, <1>4, SMTT(30)

-----------------------------------------------------------------------------
(* Writes *)

\* A write of the reconcile in progress, whose copy is current.
LEMMA OwnWrite ==
  ASSUME Inv, rc.pc # "idle", ~rc.stale,
         NEW r \in Record, r.observed <= r.gen, Store(r), Done,
         queued' \in BOOLEAN, UNCHANGED <<zone, hosted, edits, faults>>,
         ReadOK(r, zone, hosted, rec), WatchedOK(r, r),
         r.phase = "deleting" => r.finalizer,
         Observed(r) => Shown(hosted, r)
  PROVE  Inv'
<1>1. cache = rec /\ watch = <<>> /\ rec \in Record
  BY DEF Inv, ReconcileInv, TypeOK
<1>2. rec' = r /\ cache' = rec /\ watch' = <<r>> /\ rc' = Idle
  BY <1>1, SMTT(30) DEF Store, Done
<1>3. watch' \in Seq(Record) /\ Len(watch') = 1 /\ watch'[1] = r /\ watch' # <<>>
  BY <1>2, SMTT(30)
<1>4. TypeOK'
  BY <1>1, <1>2, <1>3, EmptyTypes, RecordConstants, SMTT(30) DEF Inv, TypeOK
<1>5. VersionInv'
  BY <1>2, <1>3, SMTT(30) DEF VersionInv
<1>6. ReconcileInv'
  BY <1>2 DEF ReconcileInv, Idle
<1>7. PublishedInv'
  BY <1>2 DEF PublishedInv
<1> QED BY <1>4, <1>5, <1>6, <1>7 DEF Inv

\* A write of another client, after which no generation is observed.
LEMMA OtherWrite ==
  ASSUME Inv, NEW r \in Record, r.observed <= r.gen, ~Observed(r), Change(r),
         edits' \in 0..MaxEdits, Held(rec) => Held(r),
         r.phase = "deleting" => r.finalizer
  PROVE  Inv'
<1> USE DEF Inv
<1>1. /\ rec' = r /\ cache' = cache /\ watch' = Append(watch, r)
      /\ Len(watch) < MaxLag
      /\ rc' = [rc EXCEPT !.stale = rc.pc # "idle"]
      /\ zone' = zone /\ hosted' = hosted /\ queued' = queued /\ faults' = faults
  BY DEF Change, Store
<1>2. /\ watch' \in Seq(Record) /\ Len(watch') = Len(watch) + 1 /\ watch' # <<>>
      /\ watch'[Len(watch) + 1] = r
      /\ \A i \in 1..Len(watch) : watch'[i] = watch[i]
  BY <1>1, AppendFacts, SMTT(30) DEF TypeOK
<1>3. /\ rc' \in Reconciling /\ rc'.pc = rc.pc /\ rc'.copy = rc.copy
      /\ rc'.del = rc.del /\ rc'.add = rc.add /\ rc'.todo = rc.todo
      /\ rc'.answer = rc.answer /\ rc'.stale = (rc.pc # "idle")
  BY <1>1, Zenon DEF TypeOK, Reconciling
<1>4. TypeOK'
  BY <1>1, <1>2, <1>3, RecordConstants, SMTT(30) DEF TypeOK
<1>5. ASSUME NEW v, ReadOK(rec, zone, hosted, v)
      PROVE  ReadOK(r, zone, hosted, v)
  BY <1>5 DEF ReadOK, Harmless
<1>6. ASSUME NEW v, WatchedOK(rec, v)
      PROVE  WatchedOK(r, v)
  BY <1>6 DEF WatchedOK, Harmless
<1>7. WatchedOK(r, r)
  BY DEF WatchedOK, Harmless, Held
<1>8. VersionInv'
  <2>1. ASSUME NEW i \in 1..Len(watch')
        PROVE  WatchedOK(rec', watch'[i])
    <3>1. CASE i \in 1..Len(watch)
      BY <3>1, <1>1, <1>2, <1>6 DEF VersionInv
    <3>2. CASE i = Len(watch) + 1
      BY <3>2, <1>1, <1>2, <1>7
    <3> QED BY <3>1, <3>2, <1>2, SMTT(30) DEF TypeOK
  <2>2. ReadOK(rec', zone', hosted', cache')
    BY <1>1, <1>5 DEF VersionInv
  <2> QED BY <2>1, <2>2, <1>1, <1>2 DEF VersionInv
<1>9. ReconcileInv'
  <2> SUFFICES ASSUME rc.pc # "idle"
               PROVE  ReconcileInv'
    BY <1>3 DEF ReconcileInv
  <2>1. ReadOK(rec', zone', hosted', rc'.copy)
    BY <1>1, <1>3, <1>5 DEF ReconcileInv
  <2>2. rc.pc = "batches" => BatchInv'
    BY <1>1, <1>3, SMTT(30) DEF ReconcileInv, BatchInv
  <2>3. rc'.stale
    BY <1>3, Zenon
  <2>4. NothingLeft(zone, hosted, rc.copy) => NothingLeft(zone', hosted', rc'.copy)
    BY <1>1, <1>3
  <2> QED BY <1>3, <2>1, <2>2, <2>3, <2>4 DEF ReconcileInv
<1>10. PublishedInv'
  BY <1>1 DEF PublishedInv
<1> QED BY <1>4, <1>8, <1>9, <1>10

-----------------------------------------------------------------------------
(* Steps that leave the object alone *)

\* publishRecord or deleteRecord returns a, and the zone has hosted'.
LEMMA AnswerKeeps ==
  ASSUME Inv, NEW a \in Answers, rc.pc \in {"provider", "batches"}, Answer(a),
         UNCHANGED <<object, zone, edits>>, faults' \subseteq FaultKinds,
         hosted' \in Endpoints, hosted' # hosted => Held(rec),
         Observed(rec) => Shown(hosted', rec),
         (rc.copy.phase = "live" /\ a = "ok" /\ ~rc.stale) => Shown(hosted', rc.copy),
         (rc.copy.phase = "deleting" /\ a = "ok") => NothingLeft(zone, hosted', rc.copy)
  PROVE  Inv'
<1> USE DEF Inv
<1>1. /\ rec' = rec /\ cache' = cache /\ watch' = watch /\ zone' = zone
      /\ edits' = edits
  BY DEF object
<1>2. rc.copy \in Record /\ rc.copy.phase \in {"live", "deleting"}
  BY DEF TypeOK, Reconciling, Record, ReconcileInv
<1>3. ASSUME NEW v, ReadOK(rec, zone, hosted, v)
      PROVE  ReadOK(rec, zone, hosted', v)
  BY <1>3 DEF ReadOK
<1>4. VersionInv'
  BY <1>1, <1>3 DEF VersionInv
<1>5. PublishedInv'
  BY <1>1 DEF PublishedInv
<1>6. CASE rc' = Idle
  <2>1. queued' \in BOOLEAN
    BY <1>6, Zenon DEF Answer, Retry, TypeOK
  <2>2. TypeOK'
    BY <1>1, <1>6, <2>1, EmptyTypes DEF TypeOK
  <2>3. ReconcileInv'
    BY <1>6 DEF ReconcileInv, Idle
  <2> QED BY <1>4, <1>5, <2>2, <2>3
<1>7. CASE /\ rc.copy.phase = "deleting" /\ a = "ok"
           /\ rc' = [rc EXCEPT !.pc = "remove"] /\ queued' = queued
  <2>1. /\ rc' \in Reconciling /\ rc'.pc = "remove" /\ rc'.copy = rc.copy
        /\ rc'.stale = rc.stale
    BY <1>7 DEF TypeOK, Reconciling
  <2>2. TypeOK'
    BY <1>1, <1>7, <2>1 DEF TypeOK
  <2>3. ReconcileInv'
    BY <1>1, <1>3, <1>7, <2>1 DEF ReconcileInv
  <2> QED BY <1>4, <1>5, <2>2, <2>3
<1>8. CASE /\ rc.copy.phase = "live"
           /\ rc' = [rc EXCEPT !.pc = "status", !.answer = a] /\ queued' = queued
  <2>1. /\ rc' \in Reconciling /\ rc'.pc = "status" /\ rc'.copy = rc.copy
        /\ rc'.stale = rc.stale /\ rc'.answer = a
    BY <1>8, Zenon DEF TypeOK, Reconciling
  <2>2. TypeOK'
    BY <1>1, <1>8, <2>1 DEF TypeOK
  <2>3. ReconcileInv'
    BY <1>1, <1>3, <1>8, <2>1 DEF ReconcileInv
  <2> QED BY <1>4, <1>5, <2>2, <2>3
<1> QED BY <1>2, <1>6, <1>7, <1>8 DEF Answer, Retry, Done

\* The reconcile ends without a write.
LEMMA ReturnKeeps ==
  ASSUME Inv, Done, queued' \in BOOLEAN, UNCHANGED <<object, zone, hosted, edits>>,
         faults' \subseteq FaultKinds
  PROVE  Inv'
<1>1. TypeOK'
  BY EmptyTypes DEF Inv, TypeOK, Done, object
<1>2. VersionInv' /\ PublishedInv'
  BY DEF Inv, VersionInv, PublishedInv, object
<1>3. ReconcileInv'
  BY DEF ReconcileInv, Done, Idle
<1> QED BY <1>1, <1>2, <1>3 DEF Inv

-----------------------------------------------------------------------------
(* What the provider is asked for, and what it does *)

LEMMA UpsertedFacts ==
  ASSUME Inv, rc.pc = "provider", rc.copy.phase = "live"
  PROVE  /\ Upserted \in Endpoints
         /\ Shown(Upserted, rc.copy)
         /\ Observed(rec) => Shown(Upserted, rec)
         /\ Held(rec)
<1>1. rc.copy \in Record /\ rc.copy.spec \in Endpoints /\ hosted \in Endpoints
  BY DEF Inv, TypeOK, Reconciling, Record
<1>2. Upserted \in Endpoints
  BY <1>1 DEF Upserted, Endpoints
<1>3. Shown(Upserted, rc.copy)
  BY DEF Shown, Upserted, In
<1>4. Observed(rec) => rc.copy.spec = rec.spec
  BY DEF Inv, ReconcileInv, ReadOK, Harmless
<1>5. Observed(rec) => Shown(Upserted, rec)
  BY <1>3, <1>4 DEF Shown
<1>6. Held(rec)
  BY DEF Inv, ReconcileInv, ReadOK
<1> QED BY <1>2, <1>3, <1>5, <1>6

LEMMA Route53EnsureKeeps ==
  ASSUME Inv, Route53Ensure
  PROVE  Inv' /\ (hosted' # hosted => Held(rec))
<1>1. /\ rc.pc = "provider" /\ rc.copy.phase = "live"
      /\ UNCHANGED <<object, zone, edits>>
  BY DEF Route53Ensure, CallProvider
<1>2. /\ hosted \in Endpoints /\ faults \subseteq FaultKinds
      /\ Observed(rec) => Shown(hosted, rec)
  BY DEF Inv, TypeOK, PublishedInv
<1>3. rc.pc \in {"provider", "batches"} /\ rc.copy.phase # "deleting"
  BY <1>1
<1>4. CASE In(rc.copy.spec) = {} /\ hosted' = hosted /\ Answer("ok") /\ UNCHANGED faults
  <2>1. Shown(hosted', rc.copy)
    BY <1>4 DEF Shown
  <2>2. Inv'
    BY <1>1, <1>2, <1>3, <1>4, <2>1, AnswerKeeps DEF Answers
  <2> QED BY <1>4, <2>2
<1>5. CASE hosted' = hosted /\ Answer("provider error") /\ UNCHANGED faults
  <2>1. Inv'
    BY <1>1, <1>2, <1>3, <1>5, AnswerKeeps DEF Answers
  <2> QED BY <1>5, <2>1
<1>6. CASE /\ hosted' = Upserted
           /\ \/ Answer("ok") /\ UNCHANGED faults
              \/ Answer("provider error") /\ Fault("reply")
  <2>1. faults' \subseteq FaultKinds
    BY <1>2, <1>6, FaultType
  <2>2. /\ hosted' \in Endpoints /\ Shown(hosted', rc.copy) /\ Held(rec)
        /\ Observed(rec) => Shown(hosted', rec)
    BY <1>1, <1>6, UpsertedFacts
  <2>3. Inv'
    BY <1>1, <1>3, <1>6, <2>1, <2>2, AnswerKeeps DEF Answers
  <2> QED BY <2>2, <2>3
<1> QED BY <1>4, <1>5, <1>6 DEF Route53Ensure

LEMMA Route53DeleteKeeps ==
  ASSUME Inv, Route53Delete
  PROVE  Inv' /\ (hosted' # hosted => Held(rec))
<1> DEFINE dels == In(rc.copy.spec)
<1>1. /\ rc.pc = "provider" /\ rc.copy.phase = "deleting" /\ zone.state = "ready"
      /\ zone.provider = "route53" /\ UNCHANGED <<object, zone, edits>>
  BY DEF Route53Delete, CallProvider
<1>2. /\ hosted \in Endpoints /\ faults \subseteq FaultKinds /\ rc.copy.spec \in Endpoints
      /\ Observed(rec) => Shown(hosted, rec)
  BY DEF Inv, TypeOK, PublishedInv, Reconciling, Record
<1>3. rc.pc \in {"provider", "batches"} /\ rc.copy.phase # "live"
  BY <1>1
<1>4. ~Observed(rec)
  BY <1>1 DEF Inv, ReconcileInv, ReadOK, Harmless
<1>5. CASE /\ Refuses(dels, rc.copy.spec) /\ hosted' = hosted /\ UNCHANGED faults
           /\ Answer(IF NotFound(dels) THEN "ok" ELSE "provider error")
  <2>1. CASE NotFound(dels)
    <3>1. NothingLeft(zone, hosted', rc.copy)
      BY <1>1, <1>5, <2>1 DEF NothingLeft, NotFound
    <3>2. Answer("ok")
      BY <1>5, <2>1
    <3>3. Inv'
      BY <1>1, <1>2, <1>3, <1>5, <3>1, <3>2, AnswerKeeps DEF Answers
    <3> QED BY <1>5, <3>3
  <2>2. CASE ~NotFound(dels)
    <3>1. Answer("provider error")
      BY <1>5, <2>2
    <3>2. Inv'
      BY <1>1, <1>2, <1>3, <1>5, <3>1, AnswerKeeps DEF Answers
    <3> QED BY <1>5, <3>2
  <2> QED BY <2>1, <2>2
<1>6. CASE /\ ~Refuses(dels, rc.copy.spec)
           /\ hosted' = [n \in Names |-> IF n \in dels THEN "none" ELSE hosted[n]]
           /\ \/ Answer("ok") /\ UNCHANGED faults
              \/ Answer("provider error") /\ Fault("reply")
  <2>1. faults' \subseteq FaultKinds
    BY <1>2, <1>6, FaultType
  <2>2. hosted' \in Endpoints
    BY <1>2, <1>6 DEF Endpoints
  <2>3. NothingLeft(zone, hosted', rc.copy)
    BY <1>1, <1>6 DEF NothingLeft, In
  <2>4. hosted' # hosted => Held(rec)
    <3>1. SUFFICES ASSUME ~Held(rec) PROVE hosted' = hosted
      OBVIOUS
    <3>2. NothingLeft(zone, hosted, rc.copy)
      BY <1>1, <3>1 DEF Inv, ReconcileInv, ReadOK
    <3>3. \A n \in dels : hosted[n] # "none"
      BY <1>6 DEF Refuses, In
    <3>4. dels = {}
      BY <1>1, <3>2, <3>3 DEF NothingLeft
    <3> QED BY <1>2, <1>6, <3>4 DEF Endpoints
  <2>5. Inv'
    BY <1>1, <1>3, <1>4, <1>6, <2>1, <2>2, <2>3, <2>4, AnswerKeeps DEF Answers
  <2> QED BY <2>4, <2>5
<1> QED BY <1>5, <1>6 DEF Route53Delete

LEMMA GoogleListKeeps ==
  ASSUME Inv, GoogleList
  PROVE  Inv'
<1> USE DEF Inv
<1>1. /\ rc.pc = "provider" /\ zone.provider = "google" /\ zone.state = "ready"
      /\ UNCHANGED <<object, zone, hosted, queued, edits, faults>>
  BY DEF GoogleList, CallProvider
<1> DEFINE del == In(rc.copy.endpoints) \cap In(hosted)
           add == IF rc.copy.phase = "deleting" THEN {} ELSE In(rc.copy.spec)
<1>2. del \in SUBSET Names /\ add \in SUBSET Names
  BY DEF In
<1>3. rc' = [rc EXCEPT !.pc = "batches", !.del = del, !.add = add, !.todo = del \cup add]
  BY DEF GoogleList
<1>4. /\ rc' \in Reconciling /\ rc'.pc = "batches" /\ rc'.copy = rc.copy
      /\ rc'.stale = rc.stale /\ rc'.add = add /\ rc'.todo = del \cup add
  BY <1>2, <1>3, Zenon DEF TypeOK, Reconciling
<1>5. TypeOK' /\ VersionInv' /\ PublishedInv'
  BY <1>1, <1>4 DEF TypeOK, VersionInv, PublishedInv, object
<1>6. (rc.copy.phase = "deleting" /\ ~Held(rec)) => del = {}
  BY <1>1 DEF ReconcileInv, ReadOK, NothingLeft
<1>7. BatchInv'
  BY <1>1, <1>4, <1>6 DEF BatchInv, object
<1>8. ReadOK(rec', zone', hosted', rc'.copy)
  BY <1>1, <1>4 DEF ReconcileInv, object
<1>9. ReconcileInv'
  BY <1>1, <1>4, <1>7, <1>8 DEF ReconcileInv, object
<1> QED BY <1>5, <1>9

LEMMA GoogleBatchKeeps ==
  ASSUME Inv, GoogleBatch
  PROVE  Inv' /\ (hosted' # hosted => Held(rec))
<1>1. /\ rc.pc = "batches" /\ rc.todo # {} /\ UNCHANGED <<object, zone, edits>>
      /\ hosted' = [n \in Names |-> IF n \notin NextBatch THEN hosted[n]
                                    ELSE IF n \in rc.add THEN rc.copy.spec[n] ELSE "none"]
  BY DEF GoogleBatch
<1>2. /\ hosted \in Endpoints /\ faults \subseteq FaultKinds /\ rc.copy.spec \in Endpoints
      /\ rc.copy.phase \in {"live", "deleting"} /\ rc.todo \in SUBSET Names
      /\ Observed(rec) => Shown(hosted, rec)
  <2>1. hosted \in Endpoints /\ faults \subseteq FaultKinds /\ rc \in Reconciling /\ (Observed(rec) => Shown(hosted, rec))
    BY DEF Inv, TypeOK, PublishedInv
  <2>2. rc.copy.spec \in Endpoints /\ rc.todo \in SUBSET Names
    BY <2>1, Zenon DEF Reconciling, Record
  <2>3. rc.copy.phase \in {"absent", "live", "deleting"}
    BY <2>1, Zenon DEF Reconciling, Record
  <2>4. rc.copy.phase # "absent"
    BY <1>1, Zenon DEF Inv, ReconcileInv
  <2> QED
    BY <2>1, <2>2, <2>3, <2>4
<1>3. hosted' \in Endpoints
  BY <1>1, <1>2 DEF Endpoints
<1>4. BatchInv
  BY <1>1 DEF Inv, ReconcileInv
<1>5. Held(rec)
  BY <1>1, <1>2, <1>4 DEF Inv, ReconcileInv, ReadOK, BatchInv
<1>6. Observed(rec) => rc.copy.spec = rec.spec /\ rc.copy.phase = "live"
  BY <1>1 DEF Inv, ReconcileInv, ReadOK, Harmless
<1>7. Observed(rec) => Shown(hosted', rec)
  BY <1>1, <1>2, <1>4, <1>6 DEF BatchInv, Shown, In
<1>8. CASE rc' = [rc EXCEPT !.todo = @ \ NextBatch] /\ UNCHANGED <<queued, faults>>
  <2>1. /\ rc' \in Reconciling /\ rc'.pc = "batches" /\ rc'.copy = rc.copy
        /\ rc'.stale = rc.stale /\ rc'.add = rc.add /\ rc'.todo = rc.todo \ NextBatch
    BY <1>1, <1>8 DEF Inv, TypeOK, Reconciling
  <2>2. TypeOK'
    BY <1>1, <1>3, <1>8, <2>1 DEF Inv, TypeOK, object
  <2>3. ASSUME NEW v, ReadOK(rec, zone, hosted, v)
        PROVE  ReadOK(rec, zone, hosted', v)
    BY <1>5, <2>3 DEF ReadOK
  <2>4. VersionInv' /\ PublishedInv'
    BY <1>1, <1>7, <2>3 DEF Inv, VersionInv, PublishedInv, object
  <2>5. rc.copy.phase = "live" =>
          \A n \in In(rc.copy.spec) \ rc'.todo : hosted'[n] = rc.copy.spec[n]
    BY <1>1, <1>4, <2>1 DEF BatchInv, In
  <2>6. rc.copy.phase = "deleting" =>
          In(rc.copy.endpoints) \cap In(hosted') \subseteq rc'.todo
    BY <1>1, <1>4, <2>1 DEF BatchInv, In
  <2>7. BatchInv'
    BY <1>1, <1>4, <1>5, <2>1, <2>5, <2>6, SMTT(30) DEF BatchInv, object
  <2>8. ReadOK(rec', zone', hosted', rc'.copy)
    BY <1>1, <2>1, <2>3 DEF Inv, ReconcileInv, object
  <2>9. ReconcileInv'
    BY <1>1, <2>1, <2>7, <2>8 DEF Inv, ReconcileInv, object
  <2> QED BY <1>5, <2>2, <2>4, <2>9 DEF Inv
<1>9. CASE Answer("provider error") /\ Fault("reply")
  <2>1. faults' \subseteq FaultKinds
    BY <1>2, <1>9, FaultType
  <2>2. Inv'
    BY <1>1, <1>3, <1>5, <1>7, <1>9, <2>1, AnswerKeeps DEF Answers
  <2> QED BY <1>5, <2>2
<1> QED BY <1>8, <1>9 DEF GoogleBatch

LEMMA GoogleDoneKeeps ==
  ASSUME Inv, GoogleDone
  PROVE  Inv'
<1>1. /\ rc.pc = "batches" /\ rc.todo = {} /\ Answer("ok")
      /\ UNCHANGED <<object, zone, hosted, edits, faults>>
  BY DEF GoogleDone
<1>2. /\ hosted \in Endpoints /\ faults \subseteq FaultKinds
      /\ Observed(rec) => Shown(hosted, rec)
  BY DEF Inv, TypeOK, PublishedInv
<1>3. BatchInv
  BY <1>1 DEF Inv, ReconcileInv
<1>4. rc.copy.phase = "live" => Shown(hosted, rc.copy)
  BY <1>1, <1>3 DEF BatchInv, Shown
<1>5. rc.copy.phase = "deleting" => NothingLeft(zone, hosted, rc.copy)
  BY <1>1, <1>3 DEF BatchInv, NothingLeft
<1> QED BY <1>1, <1>2, <1>4, <1>5, AnswerKeeps DEF Answers

-----------------------------------------------------------------------------
(* The other steps *)

LEMMA DeliverKeeps ==
  ASSUME Inv, Deliver
  PROVE  Inv'
<1> USE DEF Inv
<1>1. /\ watch # <<>> /\ cache' = Head(watch) /\ watch' = Tail(watch) /\ queued' = TRUE
      /\ UNCHANGED <<rec, zone, hosted, rc, edits, faults>>
  BY DEF Deliver
<1>2. /\ cache' = watch[1] /\ cache' \in Record /\ watch' \in Seq(Record)
      /\ Len(watch') = Len(watch) - 1 /\ Len(watch) \in Nat \ {0}
      /\ \A i \in 1..Len(watch') : watch'[i] = watch[i + 1]
      /\ watch' = <<>> <=> Len(watch) = 1
  BY <1>1, TailFacts DEF TypeOK
<1>3. TypeOK'
  BY <1>1, <1>2, RecordConstants, SMTT(30) DEF TypeOK
<1>4. \A i \in 1..Len(watch') : WatchedOK(rec, watch'[i])
  BY <1>2, SMTT(30) DEF VersionInv
<1>5. WatchedOK(rec, watch[1])
  BY <1>2, SMTT(30) DEF VersionInv
<1>6. ReadOK(rec, zone, hosted, cache')
  BY <1>2, <1>5 DEF WatchedOK, ReadOK
<1>7. IF watch' = <<>> THEN cache' = rec ELSE watch'[Len(watch')] = rec
  <2>1. CASE Len(watch) = 1
    BY <1>1, <1>2, <2>1 DEF VersionInv
  <2>2. CASE Len(watch) # 1
    <3>1. Len(watch') \in 1..Len(watch') /\ Len(watch') + 1 = Len(watch)
      BY <1>2, <2>2, SMTT(30)
    <3> QED BY <1>1, <1>2, <2>2, <3>1 DEF VersionInv
  <2> QED BY <2>1, <2>2
<1>8. VersionInv'
  BY <1>1, <1>4, <1>6, <1>7 DEF VersionInv
<1>9. ReconcileInv' /\ PublishedInv'
  BY <1>1 DEF ReconcileInv, BatchInv, PublishedInv
<1> QED BY <1>3, <1>8, <1>9

LEMMA ReconcileKeeps ==
  ASSUME Inv, Reconcile
  PROVE  Inv'
<1> USE DEF Inv
<1>1. /\ cache.phase # "absent" /\ queued' = FALSE
      /\ UNCHANGED <<object, zone, hosted, edits, faults>>
  BY DEF Reconcile
<1> DEFINE pc == IF NeedsFinalizer(cache) THEN "finalizer" ELSE "provider"
<1>2. rc' = [Idle EXCEPT !.copy = cache, !.stale = watch # <<>>, !.pc = pc]
  BY DEF Reconcile
<1>3. /\ rc' \in Reconciling /\ rc'.copy = cache /\ rc'.stale = (watch # <<>>)
      /\ rc'.pc = pc
  BY <1>2, EmptyTypes, Zenon DEF TypeOK, Reconciling, Idle
<1>4. TypeOK' /\ VersionInv' /\ PublishedInv'
  BY <1>1, <1>3, Zenon DEF TypeOK, VersionInv, PublishedInv, object
<1>5. ReadOK(rec', zone', hosted', rc'.copy)
  BY <1>1, <1>3 DEF VersionInv, object
<1>6. ~rc'.stale => rc'.copy = rec' /\ cache' = rec' /\ watch' = <<>>
  BY <1>1, <1>3, Zenon DEF VersionInv, object
<1>7. ReconcileInv'
  BY <1>1, <1>3, <1>5, <1>6 DEF ReconcileInv, NeedsFinalizer
<1> QED BY <1>4, <1>7

LEMMA AddFinalizerKeeps ==
  ASSUME Inv, AddFinalizer
  PROVE  Inv'
<1>1. /\ rc.pc = "finalizer" /\ rc' = Idle /\ queued' = TRUE /\ Done
      /\ UNCHANGED <<zone, hosted, edits, faults>>
  BY DEF AddFinalizer, Retry, Done
<1>2. CASE rc.stale
  BY <1>1, <1>2, ReturnKeeps DEF AddFinalizer, Inv, TypeOK
<1>3. CASE ~rc.stale
  <2> DEFINE r == [rec EXCEPT !.finalizer = TRUE]
  <2>1. Store(r)
    BY <1>3 DEF AddFinalizer
  <2>2. /\ rec \in Record /\ rec.observed <= rec.gen /\ rc.copy = rec
        /\ rec.phase = "live"
        /\ Observed(rec) => Shown(hosted, rec)
    BY <1>1, <1>3 DEF Inv, TypeOK, ReconcileInv, PublishedInv
  <2>3. /\ r \in Record /\ r.gen = rec.gen /\ r.observed = rec.observed
        /\ r.phase = "live" /\ r.spec = rec.spec /\ r.finalizer
    BY <2>2, Zenon DEF Record
  <2> HIDE DEF r
  <2>4. Observed(r) <=> Observed(rec)
    BY <2>2, <2>3 DEF Observed
  <2>5. ReadOK(r, zone, hosted, rec) /\ WatchedOK(r, r)
    BY <2>2, <2>3 DEF ReadOK, WatchedOK, Harmless, Held
  <2>6. Observed(r) => Shown(hosted, r)
    BY <2>2, <2>3, <2>4 DEF Shown
  <2>7. r.observed <= r.gen /\ rc.pc # "idle" /\ queued' \in BOOLEAN
    BY <1>1, <2>2, <2>3
  <2> QED BY <1>1, <1>3, <2>1, <2>3, <2>5, <2>6, <2>7, OwnWrite
<1> QED BY <1>2, <1>3

\* What the status of a current copy is going to be.
LEMMA NewStatusFacts ==
  ASSUME Inv, rc.pc = "status"
  PROVE  /\ NewStatus \in Record /\ NewStatus.gen = rc.copy.gen
         /\ NewStatus.phase = "live" /\ NewStatus.spec = rc.copy.spec
         /\ NewStatus.finalizer
         /\ NewStatus.observed = IF rc.answer = "ok" THEN rc.copy.gen
                                                     ELSE rc.copy.observed
<1>1. /\ rc.copy \in Record /\ rc.copy.phase = "live" /\ rc.copy.finalizer
      /\ rc.answer \in Answers
  BY DEF Inv, TypeOK, Reconciling, ReconcileInv
<1> DEFINE c == [rc.copy EXCEPT !.observed = rc.copy.gen, !.endpoints = rc.copy.spec]
<1>2. /\ c \in Record /\ c.gen = rc.copy.gen /\ c.phase = "live" /\ c.finalizer
      /\ c.spec = rc.copy.spec /\ c.observed = rc.copy.gen
  BY <1>1, Zenon DEF Record
<1> HIDE DEF c
<1>3. ASSUME NEW x \in Record
      PROVE  /\ Condition(x) \in Record /\ Condition(x).gen = x.gen
             /\ Condition(x).phase = x.phase /\ Condition(x).finalizer = x.finalizer
             /\ Condition(x).spec = x.spec /\ Condition(x).observed = x.observed
  BY <1>1, Zenon DEF Condition, Record
<1>4. NewStatus = IF rc.answer = "ok" THEN Condition(c) ELSE Condition(rc.copy)
  BY DEF NewStatus, c
<1>5. CASE rc.answer = "ok"
  BY <1>2, <1>3, <1>4, <1>5
<1>6. CASE rc.answer # "ok"
  BY <1>1, <1>3, <1>4, <1>6
<1> QED BY <1>5, <1>6

LEMMA UpdateStatusKeeps ==
  ASSUME Inv, UpdateStatus
  PROVE  Inv'
<1>1. rc.pc = "status" /\ UNCHANGED <<zone, hosted, edits, faults>>
  BY DEF UpdateStatus
<1>2. Done /\ queued' \in BOOLEAN
  BY Zenon DEF UpdateStatus, Return, Retry, Inv, TypeOK
<1>3. CASE UNCHANGED object
  BY <1>1, <1>2, <1>3, ReturnKeeps DEF Inv, TypeOK
<1>4. CASE ~rc.stale /\ Store(NewStatus)
  <2>1. /\ rec \in Record /\ rec.observed <= rec.gen /\ rc.copy = rec
        /\ rec.phase = "live"
        /\ Observed(rec) => Shown(hosted, rec)
        /\ rc.answer = "ok" => Shown(hosted, rec)
    BY <1>1, <1>4 DEF Inv, TypeOK, ReconcileInv, PublishedInv
  <2>2. /\ NewStatus \in Record /\ NewStatus.gen = rec.gen
        /\ NewStatus.phase = "live" /\ NewStatus.spec = rec.spec /\ NewStatus.finalizer
        /\ NewStatus.observed = IF rc.answer = "ok" THEN rec.gen ELSE rec.observed
    BY <1>1, <2>1, NewStatusFacts
  <2>3. ReadOK(NewStatus, zone, hosted, rec) /\ WatchedOK(NewStatus, NewStatus)
    BY <2>1, <2>2 DEF ReadOK, WatchedOK, Harmless, Held
  <2>4. Observed(NewStatus) => Shown(hosted, NewStatus)
    BY <2>1, <2>2 DEF Observed, Shown
  <2>5. NewStatus.observed <= NewStatus.gen
    BY <2>1, <2>2, SMTT(30) DEF Record
  <2> QED BY <1>1, <1>2, <1>4, <2>2, <2>3, <2>4, <2>5, OwnWrite
<1> QED BY <1>3, <1>4 DEF UpdateStatus

LEMMA RemoveFinalizerKeeps ==
  ASSUME Inv, RemoveFinalizer
  PROVE  Inv'
<1>1. /\ rc.pc = "remove" /\ UNCHANGED <<zone, hosted, edits, faults>>
      /\ Done /\ queued' \in BOOLEAN
  BY Zenon DEF RemoveFinalizer, Retry, Inv, TypeOK
<1>2. CASE rc.stale
  BY <1>1, <1>2, ReturnKeeps DEF RemoveFinalizer, Inv, TypeOK
<1>3. CASE ~rc.stale
  <2>1. Store(NoRecord)
    BY <1>3 DEF RemoveFinalizer
  <2>2. /\ rc.copy = rec /\ rec.phase = "deleting" /\ NothingLeft(zone, hosted, rec)
    BY <1>1, <1>3 DEF Inv, ReconcileInv
  <2>3. /\ NoRecord \in Record /\ NoRecord.phase = "absent"
        /\ NoRecord.observed <= NoRecord.gen /\ ~Observed(NoRecord)
    BY EmptyTypes, SMTT(30) DEF NoRecord, Observed
  <2>4. ReadOK(NoRecord, zone, hosted, rec) /\ WatchedOK(NoRecord, NoRecord)
    BY <2>2, <2>3 DEF ReadOK, WatchedOK, Harmless
  <2> QED BY <1>1, <1>3, <2>1, <2>3, <2>4, OwnWrite
<1> QED BY <1>2, <1>3

LEMMA RestartKeeps ==
  ASSUME Inv, Restart
  PROVE  Inv'
<1> USE DEF Inv
<1>1. /\ rc' = Idle /\ cache' = rec /\ watch' = <<>> /\ queued' \in BOOLEAN
      /\ UNCHANGED <<rec, zone, hosted, edits>> /\ faults' \subseteq FaultKinds
  BY FaultType DEF Restart, Done, Exists, TypeOK
<1>2. watch' \in Seq(Record) /\ Len(watch') = 0
  BY <1>1, SMTT(30)
<1>3. TypeOK'
  BY <1>1, <1>2, EmptyTypes, RecordConstants, SMTT(30) DEF TypeOK
<1>4. rec.phase = "deleting" => Held(rec)
  BY DEF VersionInv, Held
<1>5. ReadOK(rec, zone, hosted, rec)
  BY <1>4 DEF ReadOK, Harmless, Observed, Held
<1>6. VersionInv'
  BY <1>1, <1>2, <1>5, SMTT(30) DEF VersionInv
<1>7. ReconcileInv' /\ PublishedInv'
  BY <1>1 DEF ReconcileInv, PublishedInv, Idle
<1> QED BY <1>3, <1>6, <1>7

LEMMA ZoneKeeps ==
  ASSUME Inv, ChangeZone \/ DeleteZone
  PROVE  Inv'
<1> USE DEF Inv
<1>1. /\ zone.state # "absent" /\ zone' \in Zone /\ zone'.provider = zone.provider
      /\ UNCHANGED <<object, hosted, queued, rc, faults>> /\ edits' \in 0..MaxEdits
  BY EditType DEF ChangeZone, DeleteZone, TypeOK, Zone
<1>2. ASSUME NEW v, NothingLeft(zone, hosted, v)
      PROVE  NothingLeft(zone', hosted, v)
  BY <1>1, <1>2 DEF NothingLeft
<1>3. ASSUME NEW v, ReadOK(rec, zone, hosted, v)
      PROVE  ReadOK(rec, zone', hosted, v)
  BY <1>2, <1>3 DEF ReadOK
<1>4. TypeOK' /\ PublishedInv'
  BY <1>1 DEF TypeOK, PublishedInv, object
<1>5. VersionInv'
  BY <1>1, <1>3 DEF VersionInv, object
<1>6. rc.pc = "batches" => (BatchInv <=> BatchInv')
  BY <1>1 DEF BatchInv, object
<1>7. ReconcileInv'
  BY <1>1, <1>2, <1>3, <1>6 DEF ReconcileInv, object
<1> QED BY <1>4, <1>5, <1>7

LEMMA EditsKeep ==
  ASSUME Inv, CreateRecord \/ DeleteRecord \/ \E eps \in Endpoints : EditRecord(eps)
  PROVE  Inv'
<1>1. /\ rec \in Record /\ rec.observed <= rec.gen
      /\ rec.phase = "deleting" => rec.finalizer
  BY DEF Inv, TypeOK, VersionInv
<1>2. edits' \in 0..MaxEdits
  BY EditType, Zenon DEF Inv, TypeOK, CreateRecord, DeleteRecord, EditRecord
<1>3. /\ NoRecord \in Record /\ NoRecord.phase = "absent"
      /\ NoRecord.observed <= NoRecord.gen /\ ~Observed(NoRecord)
  BY EmptyTypes, SMTT(30) DEF NoRecord, Observed
<1>4. CASE CreateRecord
  <2> DEFINE r == [NoRecord EXCEPT !.phase = "live", !.gen = 1]
  <2>1. Change(r) /\ ~Held(rec)
    BY <1>4 DEF CreateRecord, Exists, Held
  <2>2. r \in Record /\ r.observed = 0 /\ r.gen = 1 /\ r.phase = "live"
    BY <1>3, Zenon DEF Record, NoRecord
  <2> HIDE DEF r
  <2>3. r.observed <= r.gen /\ ~Observed(r)
    BY <2>2, SMTT(30) DEF Observed
  <2> QED BY <1>2, <2>1, <2>2, <2>3, OtherWrite
<1>5. CASE DeleteRecord
  <2>1. CASE rec.finalizer
    <3> DEFINE r == [rec EXCEPT !.phase = "deleting", !.gen = @ + 1]
    <3>1. Change(r)
      BY <1>5, <2>1 DEF DeleteRecord
    <3>2. /\ r \in Record /\ r.observed = rec.observed /\ r.gen = rec.gen + 1
          /\ r.phase = "deleting" /\ r.finalizer
      <4>1. rec.gen \in Nat /\ rec.gen + 1 \in Nat
        BY <1>1, SMTT(30) DEF Record
      <4>2. r \in Record
        BY <1>1, <4>1, Zenon DEF Record
      <4>3. r.observed = rec.observed /\ r.gen = rec.gen + 1 /\ r.phase = "deleting"
        BY <1>1 DEF Record
      <4>4. r.finalizer = rec.finalizer
        BY <1>1 DEF Record
      <4> QED BY <2>1, <4>2, <4>3, <4>4
    <3> HIDE DEF r
    <3>3. r.observed <= r.gen /\ ~Observed(r) /\ Held(r)
      BY <1>1, <3>2, SMTT(30) DEF Observed, Held, Record
    <3> QED BY <1>2, <3>1, <3>2, <3>3, OtherWrite
  <2>2. CASE ~rec.finalizer
    <3>1. Change(NoRecord) /\ ~Held(rec)
      BY <1>5, <2>2 DEF DeleteRecord, Held
    <3> QED BY <1>2, <1>3, <3>1, OtherWrite
  <2> QED BY <2>1, <2>2
<1>6. ASSUME NEW eps \in Endpoints, EditRecord(eps)
      PROVE  Inv'
  <2> DEFINE r == [rec EXCEPT !.spec = eps, !.gen = @ + 1]
  <2>1. Change(r)
    BY <1>6, Zenon DEF EditRecord
  <2>2. /\ r \in Record /\ r.observed = rec.observed /\ r.gen = rec.gen + 1
        /\ r.phase = rec.phase /\ r.finalizer = rec.finalizer
    <3>1. rec.gen \in Nat /\ rec.gen + 1 \in Nat
      BY <1>1, SMTT(30) DEF Record
    <3>2. r \in Record
      BY <1>1, <1>6, <3>1, Zenon DEF Record
    <3>3. r.observed = rec.observed /\ r.gen = rec.gen + 1 /\ r.phase = rec.phase
      BY <1>1 DEF Record
    <3>4. r.finalizer = rec.finalizer
      BY <1>1 DEF Record
    <3> QED BY <3>2, <3>3, <3>4
  <2> HIDE DEF r
  <2>3. /\ r.observed <= r.gen /\ ~Observed(r)
        /\ Held(rec) => Held(r)
        /\ r.phase = "deleting" => r.finalizer
    BY <1>1, <2>2, SMTT(30) DEF Observed, Held, Record
  <2> QED BY <1>2, <2>1, <2>2, <2>3, OtherWrite
<1> QED BY <1>4, <1>5, <1>6

\* The steps of a reconcile that only decide what comes next.
LEMMA DecisionKeeps ==
  ASSUME Inv, \/ ReconcileGone \/ GetError \/ NoZone \/ ZoneNotReady \/ Skip
              \/ GoogleConflict \/ ProviderError \/ WriteError
  PROVE  Inv'
<1>1. /\ hosted \in Endpoints /\ faults \subseteq FaultKinds /\ queued \in BOOLEAN
      /\ Observed(rec) => Shown(hosted, rec)
  BY DEF Inv, TypeOK, PublishedInv
<1>2. CASE ReconcileGone \/ GetError
  <2>1. /\ UNCHANGED <<object, zone, hosted, rc, edits>> /\ queued' \in BOOLEAN
        /\ faults' \subseteq FaultKinds
    BY <1>1, <1>2, FaultType, Zenon DEF ReconcileGone, GetError
  <2>2. TypeOK' /\ VersionInv' /\ PublishedInv'
    BY <2>1 DEF Inv, TypeOK, VersionInv, PublishedInv, object
  <2>3. ReconcileInv'
    BY <2>1, Zenon DEF Inv, ReconcileInv, BatchInv, object
  <2> QED BY <2>2, <2>3 DEF Inv
<1>3. CASE NoZone
  <2>1. /\ rc.pc \in {"provider", "batches"} /\ zone.state = "absent"
        /\ UNCHANGED <<object, zone, hosted, edits, faults>>
        /\ Answer(IF rc.copy.phase = "deleting" THEN "ok" ELSE "no zone")
    BY <1>3, Zenon DEF NoZone
  <2>2. NothingLeft(zone, hosted, rc.copy)
    BY <2>1 DEF NothingLeft
  <2>3. CASE rc.copy.phase = "deleting"
    BY <1>1, <2>1, <2>2, <2>3, AnswerKeeps DEF Answers
  <2>4. CASE rc.copy.phase # "deleting"
    BY <1>1, <2>1, <2>2, <2>4, AnswerKeeps DEF Answers
  <2> QED BY <2>3, <2>4
<1>4. CASE ZoneNotReady
  BY <1>1, <1>4, AnswerKeeps DEF ZoneNotReady, Answers
<1>5. CASE Skip
  <2>1. /\ rc.pc \in {"provider", "batches"} /\ rc.copy.phase = "live" /\ Answer("ok")
        /\ UNCHANGED <<object, zone, hosted, edits, faults>>
        /\ rc.copy.gen = rc.copy.observed
    BY <1>5 DEF Skip, AlreadyPublished
  <2>2. ~rc.stale => Shown(hosted, rc.copy)
    BY <1>1, <2>1 DEF Inv, ReconcileInv, Observed
  <2> QED BY <1>1, <2>1, <2>2, AnswerKeeps, Zenon DEF Answers
<1>6. CASE GoogleConflict
  BY <1>1, <1>6, AnswerKeeps DEF GoogleConflict, Answers
<1>7. CASE ProviderError
  <2>1. faults' \subseteq FaultKinds
    BY <1>1, <1>7, FaultType DEF ProviderError
  <2>2. /\ rc.pc \in {"provider", "batches"} /\ Answer("provider error")
        /\ UNCHANGED <<object, zone, hosted, edits>>
    BY <1>7 DEF ProviderError, CallProvider
  <2> QED BY <1>1, <2>1, <2>2, AnswerKeeps DEF Answers
<1>8. CASE WriteError
  <2>1. faults' \subseteq FaultKinds
    BY <1>1, <1>8, FaultType DEF WriteError
  <2> QED BY <1>8, <2>1, ReturnKeeps DEF WriteError, Retry
<1> QED BY <1>2, <1>3, <1>4, <1>5, <1>6, <1>7, <1>8

-----------------------------------------------------------------------------
(* Theorems *)

LEMMA InitInv == Init => Inv
<1> SUFFICES ASSUME Init PROVE Inv
  OBVIOUS
<1> USE DEF Init
<1>1. NoRecord.phase = "absent" /\ NoRecord.observed = 0 /\ NoRecord.gen = 0
  BY DEF NoRecord
<1>2. TypeOK
  <2>1. watch \in Seq(Record) /\ Len(watch) = 0
    BY SMTT(30)
  <2>2. rec \in Record /\ rec.observed <= rec.gen /\ cache \in Record
    BY <1>1, EmptyTypes, SMTT(30)
  <2>3. Len(watch) <= MaxLag /\ edits \in 0..MaxEdits /\ faults \subseteq FaultKinds
    BY <2>1, RecordConstants, SMTT(30)
  <2>4. /\ zone \in Zone /\ hosted \in Endpoints
        /\ rc \in Reconciling
    BY EmptyTypes DEF Zone
  <2>5. queued \in BOOLEAN
    BY Zenon
  <2> HIDE DEF Init
  <2> QED BY <2>1, <2>2, <2>3, <2>4, <2>5 DEF TypeOK
<1>3. VersionInv
  BY <1>1, SMTT(30) DEF VersionInv, ReadOK, Harmless, Observed
<1>4. ReconcileInv /\ PublishedInv
  BY <1>1 DEF ReconcileInv, PublishedInv, Observed, Idle
<1> QED BY <1>2, <1>3, <1>4 DEF Inv

\* Every step keeps the invariant, and changes the zone of a held record only.
LEMMA StepKeeps ==
  ASSUME Inv, [Next]_vars
  PROVE  Inv' /\ (hosted' # hosted => Held(rec))
<1>1. CASE UNCHANGED vars
  <2>1. TypeOK' /\ VersionInv' /\ PublishedInv'
    BY <1>1 DEF Inv, TypeOK, VersionInv, PublishedInv, vars
  <2>2. ReconcileInv'
    BY <1>1, Zenon DEF Inv, ReconcileInv, BatchInv, vars
  <2> QED BY <1>1, <2>1, <2>2 DEF Inv, vars
<1>2. CASE Route53Ensure
  BY <1>2, Route53EnsureKeeps
<1>3. CASE Route53Delete
  BY <1>3, Route53DeleteKeeps
<1>4. CASE GoogleBatch
  BY <1>4, GoogleBatchKeeps
<1>5. CASE GoogleList
  BY <1>5, GoogleListKeeps DEF GoogleList
<1>6. CASE GoogleDone
  BY <1>6, GoogleDoneKeeps DEF GoogleDone
<1>7. CASE \/ ReconcileGone \/ GetError \/ NoZone \/ ZoneNotReady \/ Skip
           \/ GoogleConflict \/ ProviderError \/ WriteError
  <2>1. Inv'
    BY <1>7, DecisionKeeps
  <2>2. hosted' = hosted
    BY <1>7 DEF ReconcileGone, GetError, NoZone, ZoneNotReady, Skip, GoogleConflict,
                ProviderError, WriteError
  <2> QED BY <2>1, <2>2
<1>8. CASE Deliver
  BY <1>8, DeliverKeeps DEF Deliver
<1>9. CASE Reconcile
  BY <1>9, ReconcileKeeps, Zenon DEF Reconcile
<1>10. CASE AddFinalizer
  BY <1>10, AddFinalizerKeeps DEF AddFinalizer
<1>11. CASE UpdateStatus
  BY <1>11, UpdateStatusKeeps DEF UpdateStatus
<1>12. CASE RemoveFinalizer
  BY <1>12, RemoveFinalizerKeeps DEF RemoveFinalizer
<1>13. CASE Restart
  BY <1>13, RestartKeeps DEF Restart
<1>14. CASE ChangeZone \/ DeleteZone
  BY <1>14, ZoneKeeps DEF ChangeZone, DeleteZone
<1>15. CASE CreateRecord \/ DeleteRecord \/ \E eps \in Endpoints : EditRecord(eps)
  <2>1. Inv'
    BY <1>15, EditsKeep
  <2>2. hosted' = hosted
    BY <1>15, Zenon DEF CreateRecord, DeleteRecord, EditRecord, Change
  <2> QED BY <2>1, <2>2
<1> QED BY <1>1, <1>2, <1>3, <1>4, <1>5, <1>6, <1>7, <1>8, <1>9, <1>10, <1>11, <1>12,
           <1>13, <1>14, <1>15 DEF Next, Controller, Failure, Environment

\* The variables keep their types, and the observed generation never passes the
\* generation of the record.
THEOREM TypeCorrect == Spec => []TypeOK
<1>1. Inv /\ [Next]_vars => Inv'
  BY StepKeeps
<1>2. Inv => TypeOK
  BY DEF Inv
<1> QED BY <1>1, <1>2, InitInv, PTL DEF Spec

\* A generation that the status says is observed is in the provider's zone, for
\* both providers, through stale reads, edits, lost answers and restarts.
THEOREM ObservedAlwaysPublished == Spec => []ObservedMeansPublished
<1>1. Inv /\ [Next]_vars => Inv'
  BY StepKeeps
<1>2. Inv => ObservedMeansPublished
  BY DEF Inv, PublishedInv, ObservedMeansPublished, Observed, Shown
<1> QED BY <1>1, <1>2, InitInv, PTL DEF Spec

\* The controller changes the provider's zone for a record that exists and has
\* the finalizer, also when it works on a version from before the record's end.
THEOREM OnlyHeldPublished == Spec => PublishedUnderFinalizer
<1>1. Inv /\ [Next]_vars => Inv'
  BY StepKeeps
<1>2. Inv /\ [Next]_vars => [hosted' # hosted => Exists /\ rec.finalizer]_vars
  BY StepKeeps DEF Held, Exists
<1> QED BY <1>1, <1>2, InitInv, PTL DEF Spec, PublishedUnderFinalizer
=============================================================================
