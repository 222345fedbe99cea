-------------------------- MODULE ManagedZoneProofs --------------------------
(***************************************************************************)
(* Proofs about ManagedZone, for both providers and every bound.           *)
(*                                                                         *)
(* The controller may read an old version of the object.  A version that   *)
(* is live and holds the finalizer can be read only as long as the object  *)
(* is there and holds it, because the reconcile that removes the finalizer *)
(* has read the version that is deleted, and the cache never goes back.    *)
(* And as long as nobody has written the object since it was read, its     *)
(* status has no other id than the copy of the reconcile.                  *)
(***************************************************************************)
EXTENDS ManagedZone, SequenceTheorems, TLAPS

\* A leaf goes to Zenon, then to SMT, unless it names its prover.
USE Zenon, SMTT(30)

Publishing == {"publish", "save", "ns", "check", "final"}

Deleting == {"delete ns", "delete zone", "remove"}

\* Of a version z of the object

HeldZone(z) == z.phase # "absent" /\ z.finalizer

Sane(z) == z.observed <= z.gen /\ (z.given => z.id \in {0, Adopted})

\* The version v can be read while the object is z.
ReadOK(z, v) == Sane(v) /\ ((v.phase = "live" /\ v.finalizer) => HeldZone(z))

(* The inductive invariant *)

VersionInv ==
  /\ \A i \in 1..Len(watch) : ReadOK(mz, watch[i])
  /\ ReadOK(mz, cache)
  /\ IF watch = <<>> THEN cache = mz ELSE watch[Len(watch)] = mz
  /\ Sane(mz)
  /\ mz.phase = "deleting" => mz.finalizer
  /\ ~mz.finalizer => mz.id = 0
  /\ mz.phase = "absent" => mz.id = 0

ReconcileInv ==
  IF rc.pc = "idle" THEN rc.copy.id = 0
  ELSE /\ Sane(rc.copy)
       /\ ~rc.stale => mz.id \in {0, rc.copy.id}
       /\ rc.pc = "finalizer" => rc.copy.phase = "live"
       /\ rc.pc \in Publishing =>
            rc.copy.phase = "live" /\ rc.copy.finalizer /\ HeldZone(mz)
       /\ rc.pc \in Deleting /\ ~rc.stale =>
            /\ rc.copy = mz /\ cache = mz /\ watch = <<>>
            /\ mz.phase = "deleting"
       /\ rc.pc = "remove" /\ ~rc.stale /\ ~lost => hosted \subseteq {Adopted}

Inv == TypeOK /\ VersionInv /\ ReconcileInv /\ ZonesAccounted

-----------------------------------------------------------------------------
(* Types *)

\* The types of what the argument does not look at.
OtherTypes ==
  /\ provider \in Providers
  /\ parent \in {"none", "absent", "present", "gone"}
  /\ ns \in NSRecord /\ nsCache \in NSRecord
  /\ created \in 0..MaxZones
  /\ queued \in BOOLEAN
  /\ lost \in BOOLEAN
  /\ edits \in 0..MaxEdits
  /\ faults \subseteq FaultKinds

LEMMA Numbers ==
  /\ MaxZones \in Nat /\ Adopted \in Ids /\ Adopted # 0 /\ 0 \in Ids
  /\ \A k \in 0..MaxZones : k \in Ids /\ k # Adopted
  /\ MaxLag \in Nat /\ MaxEdits \in Nat
BY ZoneConstants, SMTT(30) DEF Adopted, Ids

LEMMA EmptyTypes ==
  /\ NoZone \in Zone /\ NoNSRecord \in NSRecord /\ Idle \in Reconciling
  /\ Sane(NoZone) /\ ~HeldZone(NoZone)
  /\ NoZone.phase = "absent" /\ NoZone.id = 0 /\ NoZone.finalizer = FALSE
  /\ Idle.pc = "idle" /\ Idle.copy = NoZone /\ Idle.stale = FALSE
<1>1. NoZone \in Zone
  BY Numbers DEF NoZone, Zone, Conditions
<1>2. NoNSRecord \in NSRecord
  BY Numbers DEF NoNSRecord, NSRecord
<1>3. Idle \in Reconciling
  BY <1>1 DEF Idle, Reconciling, Conditions
<1>4. Sane(NoZone) /\ ~HeldZone(NoZone)
  BY SMTT(30) DEF NoZone, Sane, HeldZone
<1>5. NoZone.phase = "absent" /\ NoZone.id = 0 /\ NoZone.finalizer = FALSE
  BY DEF NoZone
<1>6. Idle.pc = "idle" /\ Idle.copy = NoZone /\ Idle.stale = FALSE
  BY DEF Idle
<1> QED BY <1>1, <1>2, <1>3, <1>4, <1>5, <1>6

LEMMA FaultType ==
  ASSUME faults \subseteq FaultKinds, NEW kind, Fault(kind)
  PROVE  faults' \subseteq FaultKinds
BY DEF Fault

\* The watch after a write and after a delivery.
LEMMA AppendFacts ==
  ASSUME NEW w \in Seq(Zone), NEW z \in Zone
  PROVE  /\ Append(w, z) \in Seq(Zone)
         /\ Len(Append(w, z)) = Len(w) + 1
         /\ Append(w, z) # <<>>
         /\ Append(w, z)[Len(w) + 1] = z
         /\ \A i \in 1..Len(w) : Append(w, z)[i] = w[i]
BY SMTT(30)

LEMMA TailFacts ==
  ASSUME NEW w \in Seq(Zone), w # <<>>
  PROVE  /\ Head(w) = w[1] /\ Head(w) \in Zone
         /\ Tail(w) \in Seq(Zone)
         /\ Len(Tail(w)) = Len(w) - 1
         /\ Len(w) \in Nat \ {0}
         /\ \A i \in 1..Len(Tail(w)) : Tail(w)[i] = w[i + 1]
         /\ Tail(w) = <<>> <=> Len(w) = 1
<1>1. Len(w) \in Nat \ {0}
  BY EmptySeq
<1>2. Head(w) = w[1] /\ Head(w) \in Zone /\ Tail(w) \in Seq(Zone)
  BY <1>1, SMTT(30)
<1>3. Len(Tail(w)) = Len(w) - 1 /\ \A i \in 1..Len(Tail(w)) : Tail(w)[i] = w[i + 1]
  BY <1>1, SMTT(30)
<1>4. Tail(w) = <<>> <=> Len(Tail(w)) = 0
  BY <1>2, EmptySeq, Zenon
<1> QED BY <1>1, <1>2, <1>3, <1>4, SMTT(30)

-----------------------------------------------------------------------------
(* Writes *)

\* The object becomes z: what every write does to the versions.
LEMMA WriteKeeps ==
  ASSUME TypeOK, VersionInv, NEW z \in Zone, Store(z), Sane(z),
         z.phase = "deleting" => z.finalizer, ~z.finalizer => z.id = 0,
         z.phase = "absent" => z.id = 0,
         \/ HeldZone(mz) => HeldZone(z)
         \/ watch = <<>> /\ cache.phase # "live"
  PROVE  /\ VersionInv'
         /\ mz' \in Zone /\ mz'.observed <= mz'.gen /\ cache' \in Zone
         /\ watch' \in Seq(Zone) /\ Len(watch') <= MaxLag
<1>1. /\ mz' = z /\ cache' = cache /\ watch' = Append(watch, z)
      /\ Len(watch) < MaxLag
  BY DEF Store
<1>2. /\ watch' \in Seq(Zone) /\ Len(watch') = Len(watch) + 1 /\ watch' # <<>>
      /\ watch'[Len(watch) + 1] = z
      /\ \A i \in 1..Len(watch) : watch'[i] = watch[i]
  BY <1>1, AppendFacts, SMTT(30) DEF TypeOK
<1>3. ReadOK(z, z)
  BY DEF ReadOK, HeldZone
<1>4. ReadOK(mz', cache')
  BY <1>1 DEF ReadOK, VersionInv
<1>5. ASSUME NEW i \in 1..Len(watch') PROVE ReadOK(mz', watch'[i])
  <2>1. CASE i = Len(watch) + 1
    BY <1>1, <1>2, <1>3, <2>1
  <2>2. CASE i \in 1..Len(watch)
    <3>1. ReadOK(mz, watch[i]) /\ watch # <<>>
      BY <2>2, SMTT(30) DEF VersionInv
    <3>2. HeldZone(mz) => HeldZone(z)
      BY <3>1
    <3> QED BY <1>1, <1>2, <2>2, <3>1, <3>2 DEF ReadOK
  <2> QED BY <1>2, <2>1, <2>2, SMTT(30) DEF TypeOK
<1>6. VersionInv'
  BY <1>1, <1>2, <1>4, <1>5 DEF VersionInv
<1> QED BY <1>1, <1>2, <1>6, Numbers, SMTT(30) DEF TypeOK, Sane

\* Reconcile returns with the object as it is, with an error or not, or the process
\* stops.
LEMMA ReturnKeeps ==
  ASSUME Inv, rc' = Idle, hosted' \subseteq hosted, lost \/ Unsaved => lost',
         UNCHANGED object, OtherTypes'
  PROVE  Inv'
<1>1. mz' = mz /\ cache' = cache /\ watch' = watch
  BY DEF object
<1>2. TypeOK'
  BY <1>1, EmptyTypes DEF Inv, TypeOK, OtherTypes
<1>3. VersionInv'
  BY <1>1 DEF Inv, VersionInv
<1>4. ReconcileInv'
  BY EmptyTypes DEF ReconcileInv
<1>5. ZonesAccounted'
  <2>1. SUFFICES ASSUME ~lost' PROVE hosted' \ {Adopted} \subseteq {mz.id}
    BY <1>1, EmptyTypes DEF ZonesAccounted
  <2>2. hosted \ {Adopted} \subseteq {mz.id, rc.copy.id} /\ rc.copy.id \in {0, mz.id}
    BY <2>1 DEF Inv, ZonesAccounted, Unsaved
  <2>3. 0 \notin hosted
    BY DEF Inv, TypeOK
  <2> QED BY <2>2, <2>3
<1> QED BY <1>2, <1>3, <1>4, <1>5 DEF Inv

LEMMA RetryKeeps ==
  ASSUME Inv, Retry, hosted' \subseteq hosted, faults' \subseteq FaultKinds,
         ns' \in NSRecord, UNCHANGED <<object, provider, created, parent, nsCache, edits>>
  PROVE  Inv'
<1>1. lost \in BOOLEAN /\ Unsaved \in BOOLEAN
  BY DEF Inv, TypeOK, Unsaved
<1>2. OtherTypes'
  BY <1>1 DEF OtherTypes, Retry, Inv, TypeOK
<1>3. lost \/ Unsaved => lost'
  BY Zenon DEF Retry
<1> QED BY <1>2, <1>3, ReturnKeeps DEF Retry

\* Update or Status().Update of a live object.
LEMMA StoredKeeps ==
  ASSUME Inv, rc.pc # "idle", NEW z \in Zone, NEW then \in Reconciling,
         Stored(z, then), Sane(z), z.phase = "live", z.finalizer, z.id = rc.copy.id,
         \/ then = Idle
         \/ then.pc \in Publishing /\ then.copy = z,
         UNCHANGED <<atProvider, parent, records, edits, faults>>
  PROVE  Inv'
<1>1. CASE rc.stale
  <2>1. Retry /\ UNCHANGED object
    BY <1>1 DEF Stored
  <2> QED BY <2>1, RetryKeeps DEF atProvider, records, Inv, TypeOK
<1>2. CASE ~rc.stale
  <2>1. /\ rc' = then /\ queued' = queued /\ lost' = lost /\ hosted' = hosted
        /\ mz' = z
    BY <1>2 DEF Stored, atProvider, Store, object
  <2>2. HeldZone(z)
    BY DEF HeldZone
  <2>3. /\ VersionInv'
        /\ mz' \in Zone /\ mz'.observed <= mz'.gen /\ cache' \in Zone
        /\ watch' \in Seq(Zone) /\ Len(watch') <= MaxLag
    <3>1. CASE UNCHANGED object
      BY <3>1 DEF object, Inv, TypeOK, VersionInv
    <3>2. CASE Store(z)
      BY <2>2, <3>2, WriteKeeps DEF Inv
    <3> QED BY <1>2, <3>1, <3>2 DEF Stored
  <2>4. TypeOK'
    BY <2>1, <2>3 DEF Inv, TypeOK, atProvider, records
  <2>5. ReconcileInv'
    <3>1. CASE then = Idle
      BY <2>1, <3>1, EmptyTypes DEF ReconcileInv
    <3>2. CASE then.pc \in Publishing /\ then.copy = z
      BY <2>1, <2>2, <3>2 DEF ReconcileInv, Publishing, Deleting
    <3> QED BY <3>1, <3>2
  <2>6. ZonesAccounted'
    <3>1. mz.id \in {0, rc.copy.id}
      BY <1>2 DEF Inv, ReconcileInv
    <3>2. 0 \notin hosted
      BY DEF Inv, TypeOK
    <3> QED BY <2>1, <3>1, <3>2 DEF Inv, ZonesAccounted
  <2> QED BY <2>3, <2>4, <2>5, <2>6 DEF Inv
<1> QED BY <1>1, <1>2 DEF Inv, TypeOK, Reconciling

\* A write of another client.
LEMMA OtherWrite ==
  ASSUME Inv, NEW z \in Zone, Store(z), Sane(z), z.id = mz.id,
         z.phase = "deleting" => z.finalizer, ~z.finalizer => z.id = 0,
         z.phase = "absent" => z.id = 0,
         HeldZone(mz) => HeldZone(z),
         rc' = [rc EXCEPT !.stale = rc.pc # "idle"],
         UNCHANGED <<atProvider, records, parent, queued, lost, faults>>,
         edits' \in 0..MaxEdits
  PROVE  Inv'
<1>1. /\ VersionInv'
      /\ mz' \in Zone /\ mz'.observed <= mz'.gen /\ cache' \in Zone
      /\ watch' \in Seq(Zone) /\ Len(watch') <= MaxLag
  BY WriteKeeps DEF Inv
<1>2. /\ rc' \in Reconciling /\ rc'.pc = rc.pc /\ rc'.copy = rc.copy
      /\ rc'.stale = (rc.pc # "idle")
  BY DEF Inv, TypeOK, Reconciling
<1>3. TypeOK'
  BY <1>1, <1>2 DEF Inv, TypeOK, atProvider, records
<1>4. mz' = z /\ hosted' = hosted /\ lost' = lost
  BY DEF Store, atProvider
<1>5. ReconcileInv'
  BY <1>2, <1>4, Zenon DEF Inv, ReconcileInv
<1>6. ZonesAccounted'
  BY <1>2, <1>4, SMTT(30) DEF Inv, ZonesAccounted
<1> QED BY <1>1, <1>3, <1>5, <1>6 DEF Inv

-----------------------------------------------------------------------------
(* Steps that leave the object alone *)

\* Somebody else does something, and Reconcile is where it was.
LEMMA AsideKeeps ==
  ASSUME Inv, UNCHANGED <<object, rc, lost>>, hosted' \subseteq hosted, OtherTypes'
  PROVE  Inv'
<1>1. mz' = mz /\ cache' = cache /\ watch' = watch /\ rc' = rc /\ lost' = lost
  BY DEF object
<1>2. TypeOK'
  BY <1>1 DEF Inv, TypeOK, OtherTypes
<1>3. VersionInv'
  BY <1>1 DEF Inv, VersionInv
<1>4. ReconcileInv'
  BY <1>1, SMTT(30) DEF Inv, ReconcileInv
<1>5. ZonesAccounted'
  BY <1>1, SMTT(30) DEF Inv, ZonesAccounted
<1> QED BY <1>2, <1>3, <1>4, <1>5 DEF Inv

\* Reconcile goes on to another of the steps that publish, with the id of a zone
\* that may be new.
LEMMA MoveKeeps ==
  ASSUME Inv, rc.pc \in Publishing, UNCHANGED object,
         rc' \in Reconciling, rc'.pc \in Publishing, rc'.stale = rc.stale,
         NEW id \in Ids, rc'.copy = [rc.copy EXCEPT !.id = id],
         rc.copy.given => id = Adopted \/ id = rc.copy.id,
         rc.copy.id \in {0, Adopted, id},
         hosted' \subseteq Ids \ {0}, OtherTypes', lost => lost',
         hosted' \subseteq hosted \cup {id} \/ lost',
         rc.copy.id = Adopted => id = Adopted
  PROVE  Inv'
<1>1. mz' = mz /\ cache' = cache /\ watch' = watch
  BY DEF object
<1>2. rc.copy \in Zone /\ lost \in BOOLEAN
  BY DEF Inv, TypeOK, Reconciling
<1>3. /\ rc'.copy.id = id /\ rc'.copy.phase = rc.copy.phase
      /\ rc'.copy.finalizer = rc.copy.finalizer /\ rc'.copy.given = rc.copy.given
      /\ rc'.copy.observed = rc.copy.observed /\ rc'.copy.gen = rc.copy.gen
  BY <1>2 DEF Zone
<1>4. TypeOK'
  BY <1>1 DEF Inv, TypeOK, OtherTypes
<1>5. VersionInv'
  BY <1>1 DEF Inv, VersionInv
<1>6. rc.pc # "idle" /\ rc'.pc \notin Deleting /\ rc'.pc # "idle" /\ rc'.pc # "finalizer"
      /\ rc'.pc # "remove"
  BY DEF Publishing, Deleting
<1>7. Sane(rc'.copy)
  BY <1>3, <1>6 DEF Inv, ReconcileInv, Sane
<1>8. ~rc.stale => mz.id \in {0, id}
  BY <1>6 DEF Inv, ReconcileInv
<1>9. ReconcileInv'
  BY <1>1, <1>3, <1>6, <1>7, <1>8 DEF Inv, ReconcileInv
<1>10. ZonesAccounted'
  <2>1. SUFFICES ASSUME ~lost' PROVE hosted' \ {Adopted} \subseteq {mz.id, id}
    BY <1>1, <1>3 DEF ZonesAccounted
  <2>2. hosted \ {Adopted} \subseteq {mz.id, rc.copy.id}
    BY <2>1 DEF Inv, ZonesAccounted
  <2>3. 0 \notin hosted
    BY DEF Inv, TypeOK
  <2> QED BY <2>1, <2>2, <2>3, SMTT(30)
<1> QED BY <1>4, <1>5, <1>9, <1>10 DEF Inv

\* The same with the id as it was, and a zone at most that is lost.
LEMMA StepKeeps ==
  ASSUME Inv, rc.pc \in Publishing, UNCHANGED object,
         rc' \in Reconciling, rc'.pc \in Publishing, rc'.stale = rc.stale,
         rc'.copy = rc.copy, hosted' \subseteq Ids \ {0}, OtherTypes', lost => lost',
         hosted' \subseteq hosted \/ lost'
  PROVE  Inv'
<1>1. rc.copy.id \in Ids /\ rc.copy = [rc.copy EXCEPT !.id = rc.copy.id]
  BY ZenonT(30) DEF Inv, TypeOK, Reconciling, Zone
<1>2. hosted' \subseteq hosted \cup {rc.copy.id} \/ lost'
  OBVIOUS
<1> QED BY <1>1, <1>2, MoveKeeps

\* One of the steps fails.
LEMMA FailedKeeps ==
  ASSUME Inv, rc.pc \in Publishing, NEW cond \in Conditions,
         NEW next \in {"ns", "check", "final"}, Failed(cond, next),
         UNCHANGED <<object, atProvider, parent, nsCache, edits>>, ns' \in NSRecord,
         faults' \subseteq FaultKinds
  PROVE  Inv'
<1>1. /\ rc' \in Reconciling /\ rc'.pc = "save" /\ rc'.stale = rc.stale
      /\ rc'.copy = rc.copy
  BY DEF Failed, Inv, TypeOK, Reconciling
<1>2. OtherTypes' /\ hosted' = hosted /\ lost' = lost /\ hosted \subseteq Ids \ {0}
  BY DEF Failed, Inv, TypeOK, OtherTypes, atProvider
<1> QED BY <1>1, <1>2, StepKeeps DEF Publishing

LEMMA GotoKeeps ==
  ASSUME Inv, rc.pc \in Publishing, NEW pc \in Publishing, Goto(pc),
         UNCHANGED <<object, atProvider, parent, nsCache, edits, faults>>,
         ns' \in NSRecord
  PROVE  Inv'
<1>1. /\ rc' \in Reconciling /\ rc'.pc = pc /\ rc'.stale = rc.stale
      /\ rc'.copy = rc.copy
  BY DEF Goto, Inv, TypeOK, Reconciling, Publishing
<1>2. OtherTypes' /\ hosted' = hosted /\ lost' = lost /\ hosted \subseteq Ids \ {0}
  BY DEF Goto, Inv, TypeOK, OtherTypes, atProvider
<1> QED BY <1>1, <1>2, StepKeeps

-----------------------------------------------------------------------------
(* The steps of Reconcile *)

LEMMA DeliverKeeps ==
  ASSUME Inv, Deliver
  PROVE  Inv'
<1>1. /\ watch # <<>> /\ watch \in Seq(Zone)
      /\ cache' = Head(watch) /\ watch' = Tail(watch) /\ mz' = mz /\ rc' = rc
      /\ hosted' = hosted /\ lost' = lost
  BY DEF Deliver, Inv, TypeOK, atProvider
<1>2. /\ cache' = watch[1] /\ cache' \in Zone /\ watch' \in Seq(Zone)
      /\ Len(watch') = Len(watch) - 1 /\ Len(watch) \in Nat \ {0}
      /\ \A i \in 1..Len(watch') : watch'[i] = watch[i + 1]
      /\ watch' = <<>> <=> Len(watch) = 1
  BY <1>1, TailFacts
<1>3. TypeOK'
  BY <1>1, <1>2, Numbers, SMTT(30) DEF Deliver, Inv, TypeOK, atProvider, records
<1>4. VersionInv'
  <2>1. ReadOK(mz', cache')
    BY <1>1, <1>2, SMTT(30) DEF Inv, VersionInv
  <2>2. \A i \in 1..Len(watch') : ReadOK(mz', watch'[i])
    BY <1>1, <1>2, SMTT(30) DEF Inv, VersionInv
  <2>3. IF watch' = <<>> THEN cache' = mz' ELSE watch'[Len(watch')] = mz'
    BY <1>1, <1>2, SMTT(30) DEF Inv, VersionInv
  <2> QED BY <1>1, <2>1, <2>2, <2>3 DEF Inv, VersionInv
<1>5. ReconcileInv'
  BY <1>1 DEF Inv, ReconcileInv
<1>6. ZonesAccounted'
  BY <1>1 DEF Inv, ZonesAccounted
<1> QED BY <1>3, <1>4, <1>5, <1>6 DEF Inv

LEMMA ReconcileKeeps ==
  ASSUME Inv, Reconcile
  PROVE  Inv'
<1>1. /\ mz' = mz /\ cache' = cache /\ watch' = watch /\ hosted' = hosted
      /\ lost' = lost /\ cache \in Zone /\ rc.pc = "idle"
  BY DEF Reconcile, object, atProvider, Inv, TypeOK
<1>2. cache.phase \in {"live", "deleting"}
  BY <1>1 DEF Reconcile, Zone
<1>3. /\ rc'.copy = cache /\ rc'.stale = (watch # <<>>)
      /\ rc'.pc = FirstStep(cache) /\ rc' \in Reconciling
  BY <1>1, EmptyTypes, ZenonT(30) DEF Reconcile, Reconciling, FirstStep
<1>4. TypeOK'
  BY <1>1, <1>3, Zenon DEF Reconcile, Inv, TypeOK, atProvider, records
<1>5. VersionInv'
  BY <1>1 DEF Inv, VersionInv
<1>6. ReadOK(mz, cache) /\ (watch = <<>> => cache = mz)
  BY DEF Inv, VersionInv
<1>7. \/ rc'.pc = "delete ns" /\ cache.phase = "deleting"
      \/ rc'.pc = "publish" /\ cache.phase = "live" /\ cache.finalizer
      \/ rc'.pc = "finalizer" /\ cache.phase = "live"
  BY <1>2, <1>3 DEF FirstStep
<1>8. ReconcileInv'
  BY <1>1, <1>3, <1>6, <1>7 DEF ReconcileInv, ReadOK, Publishing, Deleting
<1>9. ZonesAccounted'
  <2>1. rc.copy.id = 0 /\ 0 \notin hosted
    BY <1>1 DEF Inv, ReconcileInv, TypeOK
  <2> QED BY <1>1, <2>1 DEF Inv, ZonesAccounted
<1> QED BY <1>4, <1>5, <1>8, <1>9 DEF Inv

LEMMA AddFinalizerKeeps ==
  ASSUME Inv, AddFinalizer
  PROVE  Inv'
<1>1. /\ rc.pc = "finalizer" /\ rc.copy.phase = "live" /\ rc.copy \in Zone
      /\ Sane(rc.copy) /\ rc.pc # "idle"
  BY DEF AddFinalizer, Inv, ReconcileInv, TypeOK, Reconciling
<1>2. /\ Held \in Zone /\ Held.phase = "live" /\ Held.finalizer
      /\ Held.id = rc.copy.id /\ Sane(Held)
  BY <1>1, Zenon DEF Held, Zone, Sane
<1> DEFINE then == [rc EXCEPT !.pc = "publish", !.copy = Held]
<1>3. then \in Reconciling /\ then.pc \in Publishing /\ then.copy = Held
  BY <1>2 DEF Inv, TypeOK, Reconciling, Publishing
<1>4. CASE Retry /\ UNCHANGED object
  BY <1>4, RetryKeeps DEF AddFinalizer, atProvider, records, Inv, TypeOK
<1>5. CASE Stored(Held, then)
  <2> HIDE DEF then
  <2> QED BY <1>1, <1>2, <1>3, <1>5, StoredKeeps DEF AddFinalizer
<1> QED BY <1>4, <1>5 DEF AddFinalizer

LEMMA GetZoneKeeps ==
  ASSUME Inv, GetZone
  PROVE  Inv'
<1>1. /\ rc.pc = "publish" /\ rc.pc \in Publishing /\ rc.copy \in Zone
      /\ Sane(rc.copy) /\ rc.pc # "idle"
  BY DEF GetZone, Publishing, Inv, ReconcileInv, TypeOK, Reconciling
<1>2. CASE Failed("ProviderError", "ns")
  BY <1>1, <1>2, FailedKeeps, Zenon DEF GetZone, records, Conditions, Inv, TypeOK
<1>3. CASE Published(zoneID)
  <2>1. /\ zoneID \in Ids
        /\ rc.copy.given => zoneID = Adopted
        /\ ~rc.copy.given => zoneID = rc.copy.id
    BY <1>1, Numbers DEF zoneID, Zone
  <2>2. /\ rc.copy.id \in {0, Adopted, zoneID}
        /\ rc.copy.id = Adopted => zoneID = Adopted
    BY <1>1, <2>1 DEF Sane, Zone
  <2>3. /\ rc' \in Reconciling /\ rc'.pc \in Publishing /\ rc'.stale = rc.stale
        /\ rc'.copy = [rc.copy EXCEPT !.id = zoneID]
    BY <1>1, <1>3, <2>1, ZenonT(30)
      DEF Published, Inv, TypeOK, Reconciling, Zone, Publishing
  <2>4. OtherTypes' /\ hosted' = hosted /\ lost' = lost /\ hosted \subseteq Ids \ {0}
        /\ UNCHANGED object
    BY <1>3 DEF GetZone, Published, Inv, TypeOK, OtherTypes, atProvider, records
  <2> QED BY <1>1, <2>1, <2>2, <2>3, <2>4, MoveKeeps
<1> QED BY <1>2, <1>3 DEF GetZone

\* Where a zone is created, its id is new and not that of spec.id.
LEMMA CreatedFacts ==
  ASSUME Inv, Route53Create \/ GoogleCreate
  PROVE  /\ created' \in 0..MaxZones /\ created' # 0
         /\ hosted' = hosted \cup {created'} /\ provider' = provider
BY Numbers, ZoneConstants, SMTT(30) DEF Inv, TypeOK, Route53Create, GoogleCreate

LEMMA CreateZoneKeeps ==
  ASSUME Inv, CreateZone
  PROVE  Inv' /\ HeldZone(mz)
<1>1. /\ rc.pc = "publish" /\ rc.pc \in Publishing /\ rc.copy \in Zone
      /\ Sane(rc.copy) /\ HeldZone(mz)
  BY DEF CreateZone, Publishing, Inv, ReconcileInv, TypeOK, Reconciling
<1>2. /\ created' \in 0..MaxZones /\ created' # 0
      /\ hosted' = hosted \cup {created'} /\ provider' = provider
  BY CreatedFacts DEF CreateZone
<1>3. ~rc.copy.given /\ rc.copy.id = 0
  BY <1>1, Numbers DEF CreateZone, zoneID, Zone
<1>4. created' \in Ids /\ created' # Adopted /\ hosted' \subseteq Ids \ {0}
  BY <1>2, Numbers DEF Inv, TypeOK
<1>5. /\ rc' \in Reconciling /\ rc'.pc \in Publishing /\ rc'.stale = rc.stale
      /\ rc'.copy = [rc.copy EXCEPT !.id = created']
  BY <1>1, <1>4, ZenonT(30)
    DEF CreateZone, Published, Inv, TypeOK, Reconciling, Zone, Publishing
<1>6. OtherTypes' /\ lost' = lost /\ UNCHANGED object
  BY <1>2 DEF CreateZone, Published, Inv, TypeOK, OtherTypes, records
<1>7. rc.copy.id # Adopted
  BY <1>3, Numbers
<1> QED BY <1>1, <1>2, <1>3, <1>4, <1>5, <1>6, <1>7, MoveKeeps

LEMMA CreateReplyLostKeeps ==
  ASSUME Inv, CreateReplyLost
  PROVE  Inv' /\ HeldZone(mz)
<1>1. rc.pc = "publish" /\ rc.pc \in Publishing /\ HeldZone(mz)
  BY DEF CreateReplyLost, Publishing, Inv, ReconcileInv
<1>2. /\ created' \in 0..MaxZones /\ created' # 0
      /\ hosted' = hosted \cup {created'} /\ provider' = provider
  BY CreatedFacts DEF CreateReplyLost
<1>3. hosted' \subseteq Ids \ {0}
  BY <1>2, Numbers DEF Inv, TypeOK
<1>4. /\ rc' \in Reconciling /\ rc'.pc \in Publishing /\ rc'.stale = rc.stale
      /\ rc'.copy = rc.copy
  BY DEF CreateReplyLost, Inv, TypeOK, Reconciling, Publishing, Conditions
<1>5. faults' \subseteq FaultKinds
  BY FaultType DEF CreateReplyLost, Inv, TypeOK
<1>6. OtherTypes' /\ lost' /\ UNCHANGED object
  BY <1>2, <1>5 DEF CreateReplyLost, Inv, TypeOK, OtherTypes, records
<1> QED BY <1>1, <1>3, <1>4, <1>6, StepKeeps

LEMMA StatusKeeps ==
  ASSUME Inv, SaveStatus \/ ReportStatus
  PROVE  Inv'
<1>1. /\ rc.pc \in {"save", "final"} /\ rc.pc # "idle" /\ rc.copy \in Zone
      /\ Sane(rc.copy) /\ rc.copy.phase = "live" /\ rc.copy.finalizer
      /\ rc.cond \in Conditions /\ rc.next \in {"ns", "check", "final"}
  BY DEF SaveStatus, ReportStatus, Publishing, Inv, ReconcileInv, TypeOK, Reconciling
<1>2. CASE SaveStatus
  <2> DEFINE then == [rc EXCEPT !.pc = rc.next]
  <2>1. then \in Reconciling /\ then.pc \in Publishing /\ then.copy = rc.copy
    BY <1>1 DEF Inv, TypeOK, Reconciling, Publishing
  <2>2. Stored(rc.copy, then) /\ UNCHANGED <<atProvider, parent, records, edits, faults>>
    BY <1>2 DEF SaveStatus
  <2> HIDE DEF then
  <2> QED BY <1>1, <2>1, <2>2, StoredKeeps
<1>3. CASE ReportStatus
  <2>1. /\ FinalStatus \in Zone /\ FinalStatus.phase = "live" /\ FinalStatus.finalizer
        /\ FinalStatus.id = rc.copy.id /\ Sane(FinalStatus)
    <3> DEFINE g == rc.copy.gen
               z == rc.copy
    <3>1. z \in Zone /\ g \in Nat /\ rc.cond \in Conditions
      BY <1>1 DEF Zone
    <3>2. FinalStatus = [z EXCEPT !.ready = rc.cond, !.observed = g]
      BY DEF FinalStatus
    <3>3. z.phase = "live" /\ z.finalizer /\ z.gen = g
          /\ (z.given => z.id \in {0, Adopted})
      BY <1>1 DEF Sane
    <3> HIDE DEF g, z
    <3>4. /\ FinalStatus \in Zone /\ FinalStatus.phase = z.phase
          /\ FinalStatus.finalizer = z.finalizer /\ FinalStatus.id = z.id
          /\ FinalStatus.given = z.given /\ FinalStatus.observed = g
          /\ FinalStatus.gen = z.gen
      BY <3>1, <3>2, Zenon DEF Zone
    <3>5. FinalStatus.observed <= FinalStatus.gen
      BY <3>1, <3>3, <3>4, SMTT(30)
    <3> QED BY <3>3, <3>4, <3>5 DEF Sane, z
  <2>2. Stored(FinalStatus, Idle) /\ UNCHANGED <<atProvider, parent, records, edits, faults>>
    BY <1>3 DEF ReportStatus
  <2> QED BY <1>1, <2>1, <2>2, EmptyTypes, StoredKeeps
<1> QED BY <1>2, <1>3

LEMMA NSKeeps ==
  ASSUME Inv, CreateNSRecord \/ CheckNSRecord
  PROVE  Inv'
<1>1. rc.pc \in Publishing
  BY DEF CreateNSRecord, CheckNSRecord, Publishing
<1>2. CASE CreateNSRecord
  <2>1. rc.copy.id \in Ids /\ ns \in NSRecord
    BY DEF Inv, TypeOK, Reconciling, Zone
  <2>2. ns' \in NSRecord
    BY <1>2, <2>1 DEF CreateNSRecord, NSRecord
  <2>3. CASE Goto("check")
    BY <1>1, <1>2, <2>2, <2>3, GotoKeeps DEF CreateNSRecord, Publishing
  <2>4. CASE Failed("ParentZoneNSRecordError", "check")
    BY <1>1, <1>2, <2>2, <2>4, FailedKeeps DEF CreateNSRecord, Conditions, Inv, TypeOK
  <2> QED BY <1>2, <2>3, <2>4 DEF CreateNSRecord
<1>3. CASE CheckNSRecord
  <2>1. CASE Goto("final")
    BY <1>1, <1>3, <2>1, GotoKeeps DEF CheckNSRecord, Publishing, records, Inv, TypeOK
  <2>2. CASE Failed("ParentZoneNSRecordNotReady", "final")
    BY <1>1, <1>3, <2>2, FailedKeeps DEF CheckNSRecord, Conditions, records, Inv, TypeOK
  <2> QED BY <1>3, <2>1, <2>2 DEF CheckNSRecord
<1> QED BY <1>2, <1>3

\* A call fails while the zone is published.
LEMMA ErrorKeeps ==
  ASSUME Inv, CreateRefused \/ ProviderError \/ CreateNSError \/ CheckNSError
  PROVE  Inv'
<1>1. rc.pc \in Publishing
  BY DEF CreateRefused, ProviderError, CreateNSError, CheckNSError, Publishing
<1>2. faults' \subseteq FaultKinds
  BY FaultType DEF Inv, TypeOK, CreateRefused, ProviderError, CreateNSError, CheckNSError
<1>3. \E cond \in Conditions, next \in {"ns", "check", "final"} : Failed(cond, next)
  BY DEF CreateRefused, ProviderError, CreateNSError, CheckNSError, Conditions
<1>4. UNCHANGED <<object, atProvider, parent, nsCache, edits>> /\ ns' \in NSRecord
  BY DEF CreateRefused, ProviderError, CreateNSError, CheckNSError, records, Inv, TypeOK
<1> QED BY <1>1, <1>2, <1>3, <1>4, FailedKeeps

LEMMA CallErrorKeeps ==
  ASSUME Inv, CallError
  PROVE  Inv'
<1>1. faults' \subseteq FaultKinds
  BY FaultType DEF CallError, Inv, TypeOK
<1> QED BY <1>1, RetryKeeps DEF CallError, atProvider, records, Inv, TypeOK

-----------------------------------------------------------------------------
(* Deletion *)

\* Reconcile goes on to another of the steps that delete.
LEMMA DeletionKeeps ==
  ASSUME Inv, rc.pc \in Deleting, NEW pc \in Deleting, Goto(pc), UNCHANGED object,
         hosted' \subseteq hosted, OtherTypes',
         pc = "remove" /\ ~rc.stale /\ ~lost => hosted' \subseteq {Adopted}
  PROVE  Inv'
<1>1. mz' = mz /\ cache' = cache /\ watch' = watch /\ lost' = lost
  BY DEF object, Goto
<1>2. /\ rc' \in Reconciling /\ rc'.pc = pc /\ rc'.copy = rc.copy
      /\ rc'.stale = rc.stale
  BY DEF Goto, Inv, TypeOK, Reconciling, Deleting
<1>3. TypeOK'
  BY <1>1, <1>2 DEF Inv, TypeOK, OtherTypes
<1>4. VersionInv'
  BY <1>1 DEF Inv, VersionInv
<1>5. /\ rc.pc # "idle" /\ pc # "idle" /\ pc # "finalizer" /\ pc \notin Publishing
  BY DEF Deleting, Publishing
<1>6. ReconcileInv'
  BY <1>1, <1>2, <1>5 DEF Inv, ReconcileInv
<1>7. ZonesAccounted'
  BY <1>1, <1>2 DEF Inv, ZonesAccounted
<1> QED BY <1>3, <1>4, <1>6, <1>7 DEF Inv

LEMMA DeleteNSRecordKeeps ==
  ASSUME Inv, DeleteNSRecord
  PROVE  Inv'
<1>1. ns' \in NSRecord
  BY DEF DeleteNSRecord, Inv, TypeOK, NSRecord
<1>2. /\ rc.pc \in Deleting /\ UNCHANGED object /\ hosted' = hosted
      /\ UNCHANGED <<provider, created, parent, nsCache, edits, faults>>
  BY DEF DeleteNSRecord, Deleting, atProvider
<1>3. CASE Retry
  BY <1>1, <1>2, <1>3, RetryKeeps DEF Inv, TypeOK
<1>4. CASE Goto("delete zone")
  <2>1. OtherTypes'
    BY <1>1, <1>2, <1>4 DEF Goto, OtherTypes, Inv, TypeOK
  <2> QED BY <1>2, <1>4, <2>1, DeletionKeeps DEF Deleting
<1> QED BY <1>3, <1>4 DEF DeleteNSRecord

\* Every zone made for the object is the one that is deleted.
LEMMA LastZone ==
  ASSUME Inv, rc.pc \in Deleting, ~rc.stale, ~lost
  PROVE  hosted \ {Adopted} \subseteq {rc.copy.id}
<1>1. rc.copy = mz
  BY DEF Inv, ReconcileInv, Deleting
<1> QED BY <1>1 DEF Inv, ZonesAccounted

LEMMA DeleteZoneKeeps ==
  ASSUME Inv, DeleteZone
  PROVE  Inv'
<1>1. /\ rc.pc \in Deleting /\ UNCHANGED object /\ Goto("remove")
      /\ hosted' = hosted \ Removable /\ rc.copy \in Zone /\ Sane(rc.copy)
      /\ rc.pc # "idle"
  BY DEF DeleteZone, Deleting, Inv, TypeOK, Reconciling, ReconcileInv
<1>2. OtherTypes'
  BY DEF DeleteZone, Goto, OtherTypes, Inv, TypeOK, records
<1>3. ASSUME ~rc.stale, ~lost PROVE hosted' \subseteq {Adopted}
  <2>1. hosted \ {Adopted} \subseteq {rc.copy.id} /\ 0 \notin hosted
    BY <1>1, <1>3, LastZone DEF Inv, TypeOK
  <2>2. CASE rc.copy.given
    BY <1>1, <2>1, <2>2 DEF Sane
  <2>3. CASE ~rc.copy.given
    BY <1>1, <2>1, <2>3 DEF Removable
  <2> QED BY <2>2, <2>3
<1> QED BY <1>1, <1>2, <1>3, DeletionKeeps DEF Deleting

LEMMA DeleteUnknownZoneKeeps ==
  ASSUME Inv, DeleteUnknownZone
  PROVE  Inv'
<1>1. /\ rc.pc \in Deleting /\ UNCHANGED <<object, parent, edits, faults>>
      /\ hosted' = hosted /\ rc.copy.id = 0
      /\ UNCHANGED <<provider, created, ns, nsCache>>
  BY DEF DeleteUnknownZone, Deleting, atProvider, records
<1>2. CASE Retry
  BY <1>1, <1>2, RetryKeeps DEF Inv, TypeOK
<1>3. CASE Goto("remove")
  <2>1. OtherTypes'
    BY <1>1, <1>3 DEF Goto, OtherTypes, Inv, TypeOK
  <2>2. ASSUME ~rc.stale, ~lost PROVE hosted' \subseteq {Adopted}
    <3>1. hosted \ {Adopted} \subseteq {rc.copy.id} /\ 0 \notin hosted
      BY <1>1, <2>2, LastZone DEF Inv, TypeOK
    <3> QED BY <1>1, <3>1, SMTT(30)
  <2> QED BY <1>1, <1>3, <2>1, <2>2, DeletionKeeps DEF Deleting
<1> QED BY <1>2, <1>3 DEF DeleteUnknownZone

LEMMA DeleteZoneErrorKeeps ==
  ASSUME Inv, DeleteZoneError
  PROVE  Inv'
<1>1. faults' \subseteq FaultKinds
  BY FaultType DEF DeleteZoneError, Inv, TypeOK
<1>2. /\ hosted' \subseteq hosted /\ Retry /\ ns' \in NSRecord
      /\ UNCHANGED <<object, provider, created, parent, nsCache, edits>>
  BY DEF DeleteZoneError, records, Inv, TypeOK
<1> QED BY <1>1, <1>2, RetryKeeps

LEMMA RemoveFinalizerKeeps ==
  ASSUME Inv, RemoveFinalizer
  PROVE  Inv'
<1>1. /\ rc.pc = "remove" /\ rc.pc \in Deleting /\ rc.pc # "idle"
      /\ UNCHANGED <<atProvider, parent, records, edits, faults>>
  BY DEF RemoveFinalizer, Deleting
<1>2. CASE rc.stale
  <2>1. Retry /\ UNCHANGED object
    BY <1>2 DEF RemoveFinalizer, Stored
  <2> QED BY <1>1, <2>1, RetryKeeps DEF atProvider, records, Inv, TypeOK
<1>3. CASE ~rc.stale
  <2>1. /\ cache = mz /\ watch = <<>> /\ mz.phase = "deleting"
        /\ ~lost => hosted \subseteq {Adopted}
    BY <1>1, <1>3 DEF Inv, ReconcileInv
  <2>2. /\ Store(NoZone) /\ rc' = Idle /\ queued' = queued /\ lost' = lost
    BY <1>3, <2>1, EmptyTypes DEF RemoveFinalizer, Stored
  <2>3. /\ VersionInv'
        /\ mz' \in Zone /\ mz'.observed <= mz'.gen /\ cache' \in Zone
        /\ watch' \in Seq(Zone) /\ Len(watch') <= MaxLag
    BY <2>1, <2>2, EmptyTypes, WriteKeeps DEF Inv
  <2>4. TypeOK'
    BY <1>1, <2>2, <2>3, EmptyTypes DEF Inv, TypeOK, atProvider, records
  <2>5. ReconcileInv'
    BY <2>2, EmptyTypes DEF ReconcileInv
  <2>6. ZonesAccounted'
    BY <1>1, <2>1, <2>2 DEF ZonesAccounted, atProvider
  <2> QED BY <2>3, <2>4, <2>5, <2>6 DEF Inv
<1> QED BY <1>2, <1>3 DEF Inv, TypeOK, Reconciling

-----------------------------------------------------------------------------
(* Environment *)

LEMMA RestartKeeps ==
  ASSUME Inv, Restart
  PROVE  Inv'
<1>1. /\ mz' = mz /\ cache' = mz /\ watch' = <<>> /\ rc' = Idle
      /\ hosted' = hosted /\ lost' = (lost \/ Unsaved)
  BY DEF Restart, atProvider
<1>2. faults' \subseteq FaultKinds
  BY FaultType DEF Restart, Inv, TypeOK
<1>3. TypeOK'
  <2>1. cache' \in Zone /\ watch' \in Seq(Zone) /\ Len(watch') <= MaxLag
    BY <1>1, Numbers, SMTT(30) DEF Inv, TypeOK
  <2>2. lost' \in BOOLEAN /\ queued' \in BOOLEAN /\ rc' \in Reconciling
    BY <1>1, EmptyTypes DEF Restart, Exists, Unsaved, Inv, TypeOK
  <2> QED BY <1>1, <1>2, <2>1, <2>2 DEF Restart, atProvider, Inv, TypeOK
<1>4. VersionInv'
  <2>1. ReadOK(mz, mz)
    BY DEF Inv, VersionInv, ReadOK, HeldZone
  <2> QED BY <1>1, <2>1, SMTT(30) DEF Inv, VersionInv
<1>5. ReconcileInv'
  BY <1>1, EmptyTypes DEF ReconcileInv
<1>6. ZonesAccounted'
  BY <1>1, EmptyTypes, Zenon DEF Inv, ZonesAccounted, TypeOK, Unsaved
<1> QED BY <1>3, <1>4, <1>5, <1>6 DEF Inv

\* A deletion leaves the object with its finalizer or without any id.
LEMMA DeletedFacts ==
  ASSUME Inv, mz.phase = "live"
  PROVE  /\ Deleted \in Zone /\ Sane(Deleted) /\ Deleted.id = mz.id
         /\ Deleted.phase = "deleting" => Deleted.finalizer
         /\ ~Deleted.finalizer => Deleted.id = 0
         /\ Deleted.phase = "absent" => Deleted.id = 0
         /\ HeldZone(mz) => HeldZone(Deleted)
<1>1. mz \in Zone /\ Sane(mz)
  BY DEF Inv, TypeOK, VersionInv
<1>2. CASE mz.finalizer
  BY <1>1, <1>2 DEF Deleted, Zone, Sane, HeldZone
<1>3. CASE ~mz.finalizer
  <2>1. mz.id = 0
    BY <1>3 DEF Inv, VersionInv
  <2> QED BY <1>3, <2>1, EmptyTypes DEF Deleted, HeldZone
<1> QED BY <1>2, <1>3

\* A user's write.
LEMMA OutsideKeeps ==
  ASSUME Inv, NEW z \in Zone, NEW kind, Outside(z, kind), parent' = parent, Sane(z),
         z.id = mz.id, z.phase = "deleting" => z.finalizer, ~z.finalizer => z.id = 0,
         z.phase = "absent" => z.id = 0, HeldZone(mz) => HeldZone(z)
  PROVE  Inv'
<1>1. edits' \in 0..MaxEdits
  BY Numbers, SMTT(30) DEF Outside, Inv, TypeOK
<1> QED BY <1>1, OtherWrite DEF Outside

LEMMA UserWriteKeeps ==
  ASSUME Inv, \/ \E given \in BOOLEAN : CreateManagedZone(given)
              \/ EditManagedZone \/ DeleteManagedZone \/ CollectZone
  PROVE  Inv'
<1>1. mz \in Zone /\ Sane(mz)
  BY DEF Inv, TypeOK, VersionInv
<1>2. ASSUME NEW given \in BOOLEAN, CreateManagedZone(given) PROVE Inv'
  <2> DEFINE z == [NoZone EXCEPT !.phase = "live", !.gen = 1, !.given = given]
  <2>1. /\ z \in Zone /\ Sane(z) /\ z.id = 0 /\ z.phase = "live" /\ ~z.finalizer
    <3>1. /\ z \in Zone /\ z.phase = "live" /\ z.gen = 1
          /\ z.id = NoZone.id /\ z.observed = NoZone.observed
          /\ z.finalizer = NoZone.finalizer
      BY EmptyTypes, Zenon DEF Zone
    <3>2. NoZone.observed = 0
      BY DEF NoZone
    <3> HIDE DEF z
    <3> QED BY <3>1, <3>2, EmptyTypes, SMTT(30) DEF Sane
  <2>2. mz.phase = "absent" /\ ~HeldZone(mz) /\ mz.id = 0
    BY <1>2, Zenon DEF CreateManagedZone, Exists, HeldZone, Inv, VersionInv
  <2>3. Outside(z, "create") /\ parent' = parent
    BY <1>2, Zenon DEF CreateManagedZone
  <2> HIDE DEF z
  <2> QED BY <2>1, <2>2, <2>3, OutsideKeeps
<1>3. CASE EditManagedZone
  <2> DEFINE z == [mz EXCEPT !.gen = mz.gen + 1]
  <2>1. /\ z \in Zone /\ z.id = mz.id /\ z.phase = mz.phase /\ z.given = mz.given
        /\ z.finalizer = mz.finalizer /\ z.gen = mz.gen + 1 /\ z.observed = mz.observed
    BY <1>1, SMTT(30) DEF Zone
  <2>2. mz.gen \in Nat /\ mz.observed \in Nat /\ mz.phase = "live"
    BY <1>1, <1>3 DEF Zone, EditManagedZone
  <2>3. Outside(z, "edit") /\ parent' = parent
    BY <1>3 DEF EditManagedZone
  <2> HIDE DEF z
  <2>4. Sane(z) /\ (HeldZone(mz) => HeldZone(z))
    BY <1>1, <2>1, <2>2, SMTT(30) DEF Sane, HeldZone
  <2>5. ~z.finalizer => z.id = 0
    BY <2>1 DEF Inv, VersionInv
  <2> QED BY <2>1, <2>2, <2>3, <2>4, <2>5, OutsideKeeps
<1>4. CASE DeleteManagedZone
  BY <1>4, DeletedFacts, OutsideKeeps DEF DeleteManagedZone
<1>5. CASE CollectZone
  <2>1. edits' \in 0..MaxEdits
    BY <1>5 DEF CollectZone, Inv, TypeOK
  <2> QED BY <1>5, <2>1, DeletedFacts, OtherWrite DEF CollectZone
<1> QED BY <1>2, <1>3, <1>4, <1>5

\* What happens beside Reconcile and the object.
LEMMA BesideKeeps ==
  ASSUME Inv, \/ DeliverNS \/ ReconcileGone \/ CollectNS \/ PublishNS \/ RemoveNS
              \/ ChangeParent \/ Vanish
  PROVE  Inv' /\ hosted' \subseteq hosted
<1>1. UNCHANGED <<object, rc, lost, faults>> /\ hosted' \subseteq hosted
      /\ UNCHANGED <<provider, created>>
  BY DEF DeliverNS, ReconcileGone, CollectNS, PublishNS, RemoveNS, ChangeParent, Vanish,
         atProvider
<1>2. ns' \in NSRecord /\ nsCache' \in NSRecord
  <2>1. ns \in NSRecord /\ nsCache \in NSRecord
    BY DEF Inv, TypeOK
  <2>2. CASE DeliverNS
    BY <2>1, <2>2 DEF DeliverNS
  <2>3. CASE ReconcileGone \/ ChangeParent \/ Vanish
    BY <2>1, <2>3 DEF ReconcileGone, ChangeParent, Vanish, records
  <2>4. CASE CollectNS \/ PublishNS
    BY <2>1, <2>4, Zenon DEF CollectNS, PublishNS, NSRecord
  <2>5. CASE RemoveNS
    BY <2>1, <2>5, EmptyTypes DEF RemoveNS
  <2> QED BY <2>2, <2>3, <2>4, <2>5
<1>3. /\ parent' \in {"none", "absent", "present", "gone"} /\ edits' \in 0..MaxEdits
      /\ queued' \in BOOLEAN
  <2>1. /\ parent \in {"none", "absent", "present", "gone"} /\ edits \in 0..MaxEdits
        /\ queued \in BOOLEAN
    BY DEF Inv, TypeOK
  <2>2. CASE DeliverNS \/ ReconcileGone \/ CollectNS \/ PublishNS \/ RemoveNS
    BY <2>1, <2>2, Zenon DEF DeliverNS, ReconcileGone, CollectNS, PublishNS, RemoveNS
  <2>3. CASE ChangeParent \/ Vanish
    <3>1. edits' \in 0..MaxEdits
      BY <2>1, <2>3, Numbers, SMTT(30) DEF ChangeParent, Vanish
    <3> QED BY <2>1, <2>3, <3>1 DEF ChangeParent, Vanish
  <2> QED BY <2>2, <2>3
<1>4. OtherTypes'
  BY <1>1, <1>2, <1>3 DEF OtherTypes, Inv, TypeOK
<1> QED BY <1>1, <1>4, AsideKeeps

-----------------------------------------------------------------------------
(* The theorems *)

LEMMA InitInv == Init => Inv
<1> SUFFICES ASSUME Init PROVE Inv
  OBVIOUS
<1>1. TypeOK
  <2>1. mz.observed <= mz.gen
    BY SMTT(30) DEF Init, NoZone
  <2>2. hosted \subseteq Ids \ {0} /\ created \in 0..MaxZones /\ edits \in 0..MaxEdits
        /\ watch \in Seq(Zone) /\ Len(watch) <= MaxLag
    BY Numbers, SMTT(30) DEF Init
  <2>3. mz \in Zone /\ cache \in Zone /\ rc \in Reconciling
        /\ ns \in NSRecord /\ nsCache \in NSRecord
    BY EmptyTypes DEF Init
  <2> QED BY <2>1, <2>2, <2>3, Zenon DEF Init, TypeOK
<1>2. VersionInv
  BY EmptyTypes, SMTT(30) DEF Init, VersionInv, ReadOK, HeldZone
<1>3. ReconcileInv
  BY EmptyTypes DEF Init, ReconcileInv
<1>4. ZonesAccounted
  BY DEF Init, ZonesAccounted
<1> QED BY <1>1, <1>2, <1>3, <1>4 DEF Inv

LEMMA NextKeeps ==
  ASSUME Inv, [Next]_vars
  PROVE  Inv' /\ (hosted' \subseteq hosted \/ HeldZone(mz))
<1>1. CASE UNCHANGED vars
  BY <1>1, Zenon DEF vars, Inv, TypeOK, VersionInv, ReconcileInv, ZonesAccounted
<1>2. CASE CreateZone \/ CreateReplyLost
  BY <1>2, CreateZoneKeeps, CreateReplyLostKeeps
<1>3. CASE DeliverNS \/ ReconcileGone \/ CollectNS \/ PublishNS \/ RemoveNS
           \/ ChangeParent \/ Vanish
  BY <1>3, BesideKeeps
<1>4. CASE \/ \E given \in BOOLEAN : CreateManagedZone(given)
           \/ EditManagedZone \/ DeleteManagedZone \/ CollectZone
  <2>1. hosted' = hosted
    BY <1>4, Zenon DEF CreateManagedZone, EditManagedZone, DeleteManagedZone, CollectZone,
                Outside, atProvider
  <2> QED BY <1>4, <2>1, UserWriteKeeps
<1>5. CASE Deliver
  BY <1>5, DeliverKeeps DEF Deliver, atProvider
<1>6. CASE Reconcile
  BY <1>6, ReconcileKeeps, Zenon DEF Reconcile, atProvider
<1>7. CASE AddFinalizer
  BY <1>7, AddFinalizerKeeps DEF AddFinalizer, atProvider
<1>8. CASE GetZone
  BY <1>8, GetZoneKeeps, Zenon DEF GetZone, atProvider
<1>9. CASE CreateRefused \/ ProviderError \/ CreateNSError \/ CheckNSError
  BY <1>9, ErrorKeeps, Zenon DEF CreateRefused, ProviderError, CreateNSError, CheckNSError,
                          atProvider
<1>10. CASE SaveStatus \/ ReportStatus
  BY <1>10, StatusKeeps DEF SaveStatus, ReportStatus, atProvider
<1>11. CASE CreateNSRecord \/ CheckNSRecord
  BY <1>11, NSKeeps DEF CreateNSRecord, CheckNSRecord, atProvider
<1>12. CASE DeleteNSRecord
  BY <1>12, DeleteNSRecordKeeps DEF DeleteNSRecord, atProvider
<1>13. CASE DeleteZone
  BY <1>13, DeleteZoneKeeps DEF DeleteZone
<1>14. CASE DeleteUnknownZone
  BY <1>14, DeleteUnknownZoneKeeps DEF DeleteUnknownZone, atProvider
<1>15. CASE DeleteZoneError
  BY <1>15, DeleteZoneErrorKeeps DEF DeleteZoneError
<1>16. CASE RemoveFinalizer
  BY <1>16, RemoveFinalizerKeeps DEF RemoveFinalizer, atProvider
<1>17. CASE CallError
  BY <1>17, CallErrorKeeps DEF CallError, atProvider
<1>18. CASE Restart
  BY <1>18, RestartKeeps DEF Restart, atProvider
<1> QED BY <1>1, <1>2, <1>3, <1>4, <1>5, <1>6, <1>7, <1>8, <1>9, <1>10, <1>11, <1>12,
           <1>13, <1>14, <1>15, <1>16, <1>17, <1>18
        DEF Next, Controller, Faulty, Others, Users

\* The variables keep their types, and the observed generation never passes the
\* generation of the ManagedZone.
THEOREM TypeCorrect == Spec => []TypeOK
<1>1. Inv /\ [Next]_vars => Inv'
  BY NextKeeps
<1>2. Inv => TypeOK
  BY DEF Inv
<1> QED BY <1>1, <1>2, InitInv, PTL DEF Spec

\* Unless the id of a new hosted zone is lost before it is in the status, Reconcile
\* makes no second zone for a ManagedZone and leaves none behind when it is gone,
\* through stale reads, conflicts, edits and restarts.
THEOREM ZonesAlwaysAccounted == Spec => []ZonesAccounted
<1>1. Inv /\ [Next]_vars => Inv'
  BY NextKeeps
<1>2. Inv => ZonesAccounted
  BY DEF Inv
<1> QED BY <1>1, <1>2, InitInv, PTL DEF Spec

\* publishManagedZone creates a hosted zone only while the ManagedZone is there with
\* its finalizer, also when Reconcile has read an old version of it.
THEOREM CreatedWhileHeld == Spec => HostedUnderFinalizer
<1>1. Inv /\ [Next]_vars => Inv'
  BY NextKeeps
<1>2. Inv /\ [Next]_vars => [hosted' \subseteq hosted \/ (Exists /\ mz.finalizer)]_vars
  BY NextKeeps DEF HeldZone, Exists
<1> QED BY <1>1, <1>2, InitInv, PTL DEF Spec, HostedUnderFinalizer

=============================================================================
