------------------------- MODULE HealthProbesProofs -------------------------
(***************************************************************************)
(* Proofs about HealthProbes, for every set of probes, addresses and paths *)
(* and every bound.                                                        *)
(***************************************************************************)
EXTENDS HealthProbes, TLAPS

\* A leaf goes to Zenon, then to SMT, unless it names its prover.
USE Zenon, SMTT(30)

\* Between adding and removing the finalizer the object cannot go away: a
\* reconcile past its finalizer works on a probe that is there and has one, one
\* that is about to add it to a current copy works on a probe that is there, and
\* one that is about to remove it has stopped the queuer.
ReconcilingHeld ==
  /\ rc.pc = "finalizer" /\ ~rc.stale => Exists(rc.probe)
  /\ rc.pc \in {"headers", "monitor"} =>
       Exists(rc.probe) /\ probe[rc.probe].finalizer
  /\ rc.pc = "remove" => ~queuer[rc.probe].started

\* The inductive strengthening of QueuersHeldByFinalizer.
HeldInv == TypeOK /\ ReconcilingHeld /\ QueuersHeldByFinalizer

\* A status that does not say "unhealthy" has no failures.
HealthyHasNoFailures ==
  \A p \in Probes :
    probe[p].status.healthy # "false" => probe[p].status.failures = 0

\* The copy a check has read is the current status unless it is stale.
CopiesCurrent ==
  \A s \in Slots :
    checks[s].phase = "update" /\ ~checks[s].stale =>
      checks[s].seen = probe[checks[s].req.probe].status

\* A probe that is not there has left no status.
AbsentHasNoStatus ==
  \A p \in Probes : ~Exists(p) => probe[p].status = NewStatus

\* The inductive strengthening of FailuresCounted.
CountInv ==
  HealthyHasNoFailures /\ CopiesCurrent /\ AbsentHasNoStatus /\ FailuresCounted

-----------------------------------------------------------------------------
(* Types *)

\* The constants of the record types.
LEMMA RecordTypes ==
  /\ AnyTarget \in Target
  /\ NewStatus \in Status
  /\ NoProbe \in Probe
  /\ Stopped \in Queuer
  /\ AnyRequest \in Request
  /\ \A r \in Request : FreeCheck(r) \in Check
  /\ \A p \in Probes : Idle(p) \in Reconciling
<1>1. \E t : t \in Target
  <2>1. PICK a \in Addresses, b \in Paths : TRUE
    BY SomeProbe
  <2>2. [address |-> a, path |-> b] \in Target
    BY <2>1 DEF Target
  <2> QED BY <2>2
<1>2. AnyTarget \in Target
  BY <1>1 DEF AnyTarget
<1>3. (CHOOSE p \in Probes : TRUE) \in Probes
  BY SomeProbe
<1> QED
  BY <1>2, <1>3, ProbeBounds, SMTT(30)
    DEF NewStatus, Status, NoProbe, Probe, Stopped, Queuer,
    AnyRequest, Request, FreeCheck, Check, Idle, Reconciling

\* Marking copies as stale keeps the types.
LEMMA StaleTypes ==
  ASSUME TypeOK, NEW p \in Probes, NEW cs \in [Slots -> Check]
  PROVE  /\ Overtaken(p, cs) \in [Slots -> Check]
         /\ Outdated(p) \in Reconciling
<1>1. Overtaken(p, cs) \in [Slots -> Check]
  BY Zenon DEF Overtaken, Check
<1>2. Outdated(p) \in Reconciling
  BY Zenon DEF Outdated, Reconciling, TypeOK
<1> QED BY <1>1, <1>2

\* A check that ends, or goes on to another phase, is a check.
LEMMA CheckTypes ==
  ASSUME TypeOK, NEW s \in Slots
  PROVE  /\ checks[s] \in Check
         /\ checks[s].req \in Request
         /\ checks[s].req.probe \in Probes
         /\ checks[s].seen \in Status
         /\ [checks EXCEPT ![s] = FreeCheck(AnyRequest)] \in [Slots -> Check]
<1>1. checks[s] \in Check
  BY DEF TypeOK
<1>2. FreeCheck(AnyRequest) \in Check
  BY RecordTypes
<1> QED BY <1>1, <1>2 DEF TypeOK, Check, Request

\* What Notify writes after n failures in a row: none after a success, one more
\* after a failure.
LEMMA ReportCounts ==
  ASSUME NEW seen, NEW healthy \in BOOLEAN, NEW n \in 0..MaxFailures,
         seen.failures = n, seen.healthy # "false" => n = 0
  PROVE  /\ Reported(seen, healthy).failures = IF healthy THEN 0 ELSE AddFailure(n)
         /\ Reported(seen, healthy).healthy # "false" =>
              (IF healthy THEN 0 ELSE AddFailure(n)) = 0
<1>1. AddFailure(0) = 1
  BY ProbeBounds, SMTT(30) DEF AddFailure
<1>2. /\ Reported(seen, healthy).healthy = IF healthy THEN "true" ELSE "false"
      /\ Reported(seen, healthy).failures =
           IF healthy THEN 0
           ELSE IF seen.healthy = "false" THEN AddFailure(seen.failures)
           ELSE 1
  BY Zenon DEF Reported
<1>3. CASE healthy
  BY <1>2, <1>3
<1>4. CASE ~healthy /\ seen.healthy = "false"
  BY <1>2, <1>4
<1>5. CASE ~healthy /\ seen.healthy # "false"
  BY <1>1, <1>2, <1>5
<1> QED BY <1>3, <1>4, <1>5

\* The status that Notify writes is a status.
LEMMA ReportedType ==
  ASSUME NEW seen \in Status, NEW healthy \in BOOLEAN
  PROVE  Reported(seen, healthy) \in Status
BY ProbeBounds, SMTT(30) DEF Reported, Status, AddFailure

\* A write of one object keeps the types.
LEMMA StoreTypes ==
  ASSUME TypeOK, NEW p \in Probes, NEW r \in Probe, Store(p, r)
  PROVE  probe' \in [Probes -> Probe] /\ queued' \subseteq Probes
BY DEF TypeOK, Store

-----------------------------------------------------------------------------
(* Type correctness *)

\* Every step of Reconcile keeps the types.
LEMMA ReconcileTypes ==
  ASSUME TypeOK, NEW p \in Probes, Begin(p) \/ GetError(p) \/ Continue \/ HeadersError \/ NotifierError
  PROVE  TypeOK'
<1> USE RecordTypes
<1>0. rc.probe \in Probes /\ rc.spec \in Target /\ probe[p] \in Probe
      /\ probe[rc.probe] \in Probe /\ probe[p].spec \in Target
      /\ probe[rc.probe].status.failures \in 0..MaxFailures
  BY DEF TypeOK, Reconciling, Probe, Status
<1>1. CASE ReconcileGone(p)
  BY <1>1 DEF ReconcileGone, TypeOK, env, monitor
<1>2. CASE ReconcileDeleting(p)
  <2>1. [Idle(p) EXCEPT !.pc = "remove"] \in Reconciling
    BY Zenon DEF Reconciling, Idle
  <2>2. [probe |-> p, spec |-> queuer[p].spec] \in Request
    BY DEF TypeOK, Queuer, Request
  <2> QED BY <1>2, <2>1, <2>2 DEF ReconcileDeleting, RemoveProbe, TypeOK, env
<1>3. CASE ReconcileLive(p)
  <2>1. rc' \in Reconciling
    BY <1>0, <1>3, Zenon DEF ReconcileLive, Reconciling, Idle
  <2> QED BY <1>3, <2>1 DEF ReconcileLive, TypeOK, env, monitor
<1>4. CASE GetError(p)
  BY <1>4, ProbeBounds DEF GetError, Fault, TypeOK, env, monitor
<1>5. CASE RemoveFinalizer
  <2>1. Overtaken(rc.probe, checks) \in [Slots -> Check]
    BY <1>0, StaleTypes DEF TypeOK
  <2>2. probe' \in [Probes -> Probe] /\ queued' \subseteq Probes
    BY <1>0, <1>5, Zenon DEF RemoveFinalizer, Retry, Store, TypeOK
  <2>3. rc' \in Reconciling
    BY <1>0, <1>5 DEF RemoveFinalizer, Retry, Done, Reconciling, TypeOK
  <2>4. streak' \in [Probes -> 0..MaxFailures]
    <3>1. 0 \in 0..MaxFailures
      BY ProbeBounds, SMTT(30)
    <3>2. streak' = streak \/ streak' = [streak EXCEPT ![rc.probe] = 0]
      BY <1>5 DEF RemoveFinalizer
    <3> QED
      BY <3>1, <3>2, Zenon DEF TypeOK
  <2> QED BY <1>5, <2>1, <2>2, <2>3, <2>4 DEF RemoveFinalizer, TypeOK, env, monitor
<1>6. CASE AddFinalizer
  <2>1. Overtaken(rc.probe, checks) \in [Slots -> Check]
    BY <1>0, StaleTypes DEF TypeOK
  <2>2. [probe[rc.probe] EXCEPT !.finalizer = TRUE] \in Probe
    BY <1>0, Zenon DEF Probe
  <2>3. rc' \in Reconciling
    BY <1>0, <1>6, ZenonT(30) DEF AddFinalizer, Retry, Done, Reconciling, TypeOK
  <2> QED BY <1>0, <1>6, <2>1, <2>2, <2>3
            DEF AddFinalizer, Retry, Store, TypeOK, env, monitor
<1>7. CASE GetHeaders
  <2>1. rc' \in Reconciling
    BY <1>7, Zenon DEF GetHeaders, Reconciling, TypeOK
  <2> QED BY <1>7, <2>1 DEF GetHeaders, TypeOK, env, monitor
<1>8. ASSUME NEW n \in 0..MaxFailures, BadHeaders(n), faults' \subseteq FaultKinds
      PROVE  TypeOK'
  <2>1. Overtaken(rc.probe, checks) \in [Slots -> Check]
    BY <1>0, StaleTypes DEF TypeOK
  <2>2. [probe[rc.probe] EXCEPT !.status = [healthy |-> "false", failures |-> n]]
          \in Probe
    BY <1>0 DEF Probe, Status
  <2>3. streak' \in [Probes -> 0..MaxFailures]
    <3>1. (IF n = 0 THEN 0 ELSE streak[rc.probe]) \in 0..MaxFailures
      BY <1>0, ProbeBounds DEF TypeOK
    <3> QED BY <1>0, <1>8, <3>1 DEF BadHeaders, TypeOK
  <2> QED BY <1>0, <1>8, <2>1, <2>2, <2>3
            DEF BadHeaders, Retry, Done, TypeOK, env, monitor
<1>9. CASE HeadersInvalid
  BY <1>8, <1>9, ProbeBounds, SMTT(30) DEF HeadersInvalid, TypeOK
<1>10. CASE HeadersError
  BY <1>0, <1>8, <1>10, ProbeBounds DEF HeadersError, Fault, TypeOK
<1>11. CASE NotifierError
  BY <1>0, <1>11, ProbeBounds
    DEF NotifierError, Fault, Retry, Done, TypeOK, env, monitor
<1>12. ASSUME SetQueuer
       PROVE  queuer' \in [Probes -> Queuer] /\ late' = late
  BY <1>0, <1>12 DEF SetQueuer, Queuer, TypeOK
<1>13. CASE Monitor
  BY <1>0, <1>12, <1>13 DEF Monitor, Done, TypeOK, env
<1>14. CASE TimerDuringUpdate
  <2>1. PICK a \in Addresses, b \in Paths :
          EnqueueCheck(rc.probe, [address |-> a, path |-> b])
    BY <1>0, <1>14 DEF TimerDuringUpdate, TypeOK, Queuer, Target
  <2>2. [probe |-> rc.probe, spec |-> [address |-> a, path |-> b]] \in Request
    BY <1>0 DEF Request, Target
  <2>3. queue' \in Seq(Request)
    BY <2>1, <2>2, SMTT(30) DEF EnqueueCheck, TypeOK
  <2> QED BY <1>0, <1>12, <1>14, <2>3 DEF TimerDuringUpdate, Done, TypeOK, env
<1> QED BY <1>1, <1>2, <1>3, <1>4, <1>5, <1>6, <1>7, <1>9, <1>10, <1>11, <1>13, <1>14
      DEF Begin, Continue

\* Every step of a queuer, of the worker and of a check keeps the types.
LEMMA CheckingTypes ==
  ASSUME TypeOK,
         \/ \E p \in Probes : Timer(p)
         \/ \E r \in Request : LateTimer(r)
         \/ Process
         \/ \E s \in Slots : Advance(s) \/ NotifyError(s)
  PROVE  TypeOK'
<1> USE RecordTypes
<1>1. ASSUME NEW p \in Probes, Timer(p) PROVE TypeOK'
  <2>1. [probe |-> p, spec |-> queuer[p].spec] \in Request
    BY DEF TypeOK, Queuer, Request
  <2> QED BY <1>1, <2>1, SMTT(30) DEF Timer, EnqueueCheck, TypeOK, env
<1>2. ASSUME NEW r \in Request, LateTimer(r) PROVE TypeOK'
  <2>1. queue' \in Seq(Request)
    <3>1. Append(queue, r) \in Seq(Request)
      BY <1>2, SMTT(30) DEF TypeOK
    <3>2. queue' = Append(queue, r) \/ queue' = queue
      BY <1>2 DEF LateTimer
    <3> QED BY <3>1, <3>2, Zenon DEF TypeOK
  <2>2. late' \subseteq Request
    BY <1>2 DEF LateTimer, TypeOK
  <2> QED BY <1>2, <2>1, <2>2 DEF LateTimer, TypeOK, env
<1>3. CASE Process
  <2>1. Head(queue) \in Request /\ Tail(queue) \in Seq(Request)
    BY <1>3, SMTT(30) DEF Process, TypeOK
  <2>2. [FreeCheck(Head(queue)) EXCEPT !.phase = "request"] \in Check
    BY <2>1, Zenon DEF FreeCheck, Check, NewStatus, Status
  <2> QED BY <1>3, <2>1, <2>2 DEF Process, TypeOK, env
<1>4. ASSUME NEW s \in Slots, PerformRequest(s) PROVE TypeOK'
  <2>1. \A b \in BOOLEAN :
          [checks[s] EXCEPT !.phase = "report", !.healthy = b] \in Check
    BY CheckTypes, ZenonT(30) DEF Check
  <2>2. (checks[s].req.spec \in up) \in BOOLEAN
    BY SMTT(30)
  <2>3. [checks[s] EXCEPT !.phase = "report",
           !.healthy = checks[s].req.spec \in up] \in Check
    BY <2>1, <2>2, Zenon
  <2> QED BY <1>4, <2>3 DEF PerformRequest, TypeOK, env, monitor
<1>5. ASSUME NEW s \in Slots, NotifyGet(s) PROVE TypeOK'
  <2>1. probe[checks[s].req.probe].status \in Status
    BY CheckTypes DEF TypeOK, Probe
  <2>2. [checks[s] EXCEPT !.phase = "update",
           !.seen = probe[checks[s].req.probe].status] \in Check
    BY <2>1, CheckTypes, ZenonT(30) DEF Check
  <2>3. checks' \in [Slots -> Check]
    BY <1>5, <2>2, CheckTypes, Zenon DEF NotifyGet, Drop, TypeOK
  <2> QED BY <1>5, <2>3 DEF NotifyGet, TypeOK, env, monitor
<1>6. ASSUME NEW s \in Slots, NotifyUpdate(s) PROVE TypeOK'
  <2> DEFINE k == checks[s]
             p == k.req.probe
             r == [probe[p] EXCEPT !.status = Reported(k.seen, k.healthy)]
             cs == [checks EXCEPT ![s] = FreeCheck(AnyRequest)]
  <2>1. p \in Probes /\ k.req \in Request /\ cs \in [Slots -> Check]
        /\ k.seen \in Status /\ k.healthy \in BOOLEAN
    BY CheckTypes DEF Check
  <2>2. Reported(k.seen, k.healthy) \in Status
    BY <2>1, ReportedType
  <2>3. r \in Probe
    BY <2>1, <2>2, Zenon DEF TypeOK, Probe
  <2>4. checks' \in [Slots -> Check]
    <3>1. Overtaken(p, cs) \in [Slots -> Check]
      BY <2>1, StaleTypes, Zenon
    <3>2. checks' = cs \/ checks' = Overtaken(p, cs)
      BY <1>6 DEF NotifyUpdate, Drop
    <3> QED BY <2>1, <3>1, <3>2, Zenon
  <2>5. rc' \in Reconciling
    BY <1>6, <2>1, StaleTypes, Zenon DEF NotifyUpdate, TypeOK
  <2>6. probe' \in [Probes -> Probe] /\ queued' \subseteq Probes
    BY <1>6, <2>1, <2>3, StoreTypes DEF NotifyUpdate, TypeOK
  <2>7. streak' \in [Probes -> 0..MaxFailures]
    <3>1. (IF k.healthy THEN 0 ELSE AddFailure(streak[p])) \in 0..MaxFailures
      BY <2>1, ProbeBounds, SMTT(30) DEF TypeOK, AddFailure
    <3>2. \/ streak' = streak
          \/ streak' = [streak EXCEPT ![p] =
                          IF k.healthy THEN 0 ELSE AddFailure(streak[p])]
      BY <1>6 DEF NotifyUpdate
    <3> QED BY <2>1, <3>1, <3>2 DEF TypeOK
  <2>8. queue' \in Seq(Request)
    <3>1. queue' = queue \/ queue' = Append(queue, k.req)
      BY <1>6 DEF NotifyUpdate
    <3>2. queue \in Seq(Request)
      BY DEF TypeOK
    <3>3. k.req \in Request
      BY <2>1
    <3> HIDE DEF k
    <3> QED BY <3>1, <3>2, <3>3, SMTT(30)
  <2>9. UNCHANGED <<headers, up, edits, queuer, late, faults>>
    BY <1>6 DEF NotifyUpdate, env
  <2> QED BY <2>4, <2>5, <2>6, <2>7, <2>8, <2>9 DEF TypeOK
<1>7. ASSUME NEW s \in Slots, NotifyError(s) PROVE TypeOK'
  BY <1>7, CheckTypes, ProbeBounds
    DEF NotifyError, Fault, Drop, TypeOK, env, monitor
<1> QED BY <1>1, <1>2, <1>3, <1>4, <1>5, <1>6, <1>7 DEF Advance

\* Every change from outside, and a restart, keeps the types.
LEMMA OutsideTypes ==
  ASSUME TypeOK, Outside \/ Restart
  PROVE  TypeOK'
<1> USE RecordTypes
<1>1. ASSUME NEW p \in Probes, NEW r \in Probe, Change(p, r)
      PROVE  /\ probe' \in [Probes -> Probe] /\ queued' \subseteq Probes
             /\ checks' \in [Slots -> Check] /\ rc' \in Reconciling
  BY <1>1, StoreTypes, StaleTypes DEF Change, TypeOK
<1>2. ASSUME NEW k, Edit(k) PROVE edits' \in 0..MaxEdits
  BY <1>2, ProbeBounds, SMTT(30) DEF Edit, TypeOK
<1>3. ASSUME NEW p \in Probes, NEW t \in Target, CreateProbe(p, t) PROVE TypeOK'
  <2>1. [NoProbe EXCEPT !.phase = "live", !.spec = t] \in Probe
    BY Zenon DEF Probe
  <2> QED BY <1>1, <1>2, <1>3, <2>1 DEF CreateProbe, TypeOK, monitor
<1>4. ASSUME NEW p \in Probes, NEW t \in Target, EditProbe(p, t) PROVE TypeOK'
  <2>1. [probe[p] EXCEPT !.spec = t] \in Probe
    BY Zenon DEF Probe, TypeOK
  <2> QED BY <1>1, <1>2, <1>4, <2>1 DEF EditProbe, TypeOK, monitor
<1>5. ASSUME NEW p \in Probes, DeleteProbe(p) PROVE TypeOK'
  <2>1. [probe[p] EXCEPT !.phase = "deleting"] \in Probe
    BY Zenon DEF Probe, TypeOK
  <2>2. streak' \in [Probes -> 0..MaxFailures]
    BY <1>5, ProbeBounds, SMTT(30) DEF DeleteProbe, TypeOK
  <2> QED BY <1>1, <1>2, <1>5, <2>1, <2>2 DEF DeleteProbe, TypeOK, monitor
<1>6. ASSUME NEW p \in Probes, ChangeHeaders(p) PROVE TypeOK'
  BY <1>2, <1>6 DEF ChangeHeaders, TypeOK, monitor
<1>7. ASSUME NEW t \in Target, Outage(t) PROVE TypeOK'
  BY <1>2, <1>7 DEF Outage, TypeOK, monitor
<1>8. CASE Restart
  <2>1. rc.probe \in Probes
    BY DEF TypeOK, Reconciling
  <2>2. faults' \subseteq FaultKinds
    BY <1>8, ProbeBounds DEF Restart, Fault, TypeOK
  <2> QED BY <1>8, <2>1, <2>2, SMTT(30) DEF Restart, Done, TypeOK, env
<1> QED BY <1>3, <1>4, <1>5, <1>6, <1>7, <1>8 DEF Outside

\* A step of the system keeps the types.
LEMMA TypeStep ==
  ASSUME TypeOK, [Next]_vars
  PROVE  TypeOK'
<1>1. CASE UNCHANGED vars
  BY <1>1 DEF vars, env, monitor, TypeOK
<1>2. CASE Next
  <2>1. (\E p \in Probes : p \in Probes) /\ rc.probe \in Probes
    BY SomeProbe DEF TypeOK, Reconciling
  <2> QED BY <1>2, <2>1, ReconcileTypes, CheckingTypes, OutsideTypes
            DEF Next, Faulty
<1> QED BY <1>1, <1>2

\* Type correctness: objects, monitor, queue, checks and reconcile keep the
\* shape the code gives them, ConsecutiveFailures never negative.
THEOREM TypeCorrect == Spec => []TypeOK
<1>1. Init => TypeOK
  BY RecordTypes, ProbeBounds, SMTT(30) DEF Init, TypeOK
<1>2. TypeOK /\ [Next]_vars => TypeOK'
  BY TypeStep
<1> QED BY <1>1, <1>2, PTL DEF Spec

-----------------------------------------------------------------------------
(* Queuers and the finalizer *)

\* What any step does to the objects: one that is there with a finalizer stays
\* so, unless the reconciler, having stopped the queuer, removes the finalizer.
LEMMA NextProbeStep ==
  ASSUME TypeOK, [Next]_vars, NEW q \in Probes,
         Exists(q), probe[q].finalizer
  PROVE  \/ Exists(q)' /\ probe'[q].finalizer
         \/ RemoveFinalizer /\ q = rc.probe
<1> SUFFICES ASSUME ~(RemoveFinalizer /\ q = rc.probe)
             PROVE  Exists(q)' /\ probe'[q].finalizer
  OBVIOUS
<1>1. ASSUME probe' = probe PROVE Exists(q)' /\ probe'[q].finalizer
  BY <1>1 DEF Exists
<1>2. ASSUME NEW p \in Probes, NEW r \in Probe, probe' = [probe EXCEPT ![p] = r],
             p = q => r.phase # "absent" /\ r.finalizer
      PROVE  Exists(q)' /\ probe'[q].finalizer
  BY <1>2 DEF Exists, TypeOK
<1>3. rc.probe \in Probes /\ \A p \in Probes : probe[p] \in Probe
  BY DEF TypeOK, Reconciling
<1>4. ASSUME NEW p \in Probes, Begin(p) \/ GetError(p) \/ Timer(p) PROVE probe' = probe
  BY <1>4 DEF Begin, ReconcileGone, ReconcileDeleting, ReconcileLive, GetError, Timer
<1>5. CASE RemoveFinalizer
  BY <1>1, <1>5, <1>2, <1>3, RecordTypes DEF RemoveFinalizer, Store
<1>6. CASE AddFinalizer
  <2>1. [probe[rc.probe] EXCEPT !.finalizer = TRUE] \in Probe
    BY <1>3, ZenonT(30) DEF Probe
  <2>2. rc.probe = q => [probe[rc.probe] EXCEPT !.finalizer = TRUE].phase # "absent"
                     /\ [probe[rc.probe] EXCEPT !.finalizer = TRUE].finalizer
    BY <1>3 DEF Probe, Exists
  <2> QED BY <1>1, <1>2, <1>3, <1>6, <2>1, <2>2, Zenon DEF AddFinalizer, Store
<1>7. ASSUME NEW n \in 0..MaxFailures, BadHeaders(n)
      PROVE  Exists(q)' /\ probe'[q].finalizer
  <2> DEFINE r == [probe[rc.probe] EXCEPT !.status =
                     [healthy |-> "false", failures |-> n]]
  <2>1. r \in Probe
    BY <1>3, SMTT(30) DEF Probe, Status
  <2>2. rc.probe = q => r.phase # "absent" /\ r.finalizer
    BY <1>3 DEF Probe, Exists
  <2>3. probe' = probe \/ probe' = [probe EXCEPT ![rc.probe] = r]
    BY <1>7 DEF BadHeaders
  <2> QED BY <1>1, <1>2, <1>3, <2>1, <2>2, <2>3, Zenon
<1>8. CASE HeadersInvalid \/ HeadersError
  <2>1. 0 \in 0..MaxFailures /\ probe[rc.probe].status.failures \in 0..MaxFailures
    BY <1>3, ProbeBounds, SMTT(30) DEF Probe, Status
  <2> QED BY <1>7, <1>8, <2>1 DEF HeadersInvalid, HeadersError
<1>9. CASE GetHeaders \/ Monitor \/ TimerDuringUpdate \/ NotifierError \/ Restart
           \/ Process
  BY <1>1, <1>9 DEF GetHeaders, Monitor, TimerDuringUpdate, NotifierError, Restart,
    Process
<1>10. ASSUME NEW r \in Request, LateTimer(r) PROVE probe' = probe
  BY <1>10 DEF LateTimer
<1>11. ASSUME NEW s \in Slots, PerformRequest(s) \/ NotifyGet(s) \/ NotifyError(s)
       PROVE  probe' = probe
  BY <1>11 DEF PerformRequest, NotifyGet, NotifyError
<1>12. ASSUME NEW s \in Slots, NotifyUpdate(s)
       PROVE  Exists(q)' /\ probe'[q].finalizer
  <2> DEFINE k == checks[s]
             p == k.req.probe
             r == [probe[p] EXCEPT !.status = Reported(k.seen, k.healthy)]
  <2>1. p \in Probes /\ Reported(k.seen, k.healthy) \in Status
    BY CheckTypes, ReportedType DEF Check
  <2>2. r \in Probe /\ (p = q => r.phase # "absent" /\ r.finalizer)
    BY <1>3, <2>1, SMTT(30) DEF Probe, Exists
  <2>3. probe' = probe \/ probe' = [probe EXCEPT ![p] = r]
    BY <1>12 DEF NotifyUpdate, Store
  <2> QED BY <1>1, <1>2, <2>1, <2>2, <2>3, Zenon
<1>13. ASSUME NEW p \in Probes, NEW t \in Target, CreateProbe(p, t) \/ EditProbe(p, t)
       PROVE  Exists(q)' /\ probe'[q].finalizer
  <2>1. [probe[p] EXCEPT !.spec = t] \in Probe
    BY DEF TypeOK, Probe
  <2>2. p = q => [probe[p] EXCEPT !.spec = t].phase # "absent"
              /\ [probe[p] EXCEPT !.spec = t].finalizer
    BY <1>3 DEF Probe, Exists
  <2>3. CASE EditProbe(p, t)
    BY <1>2, <2>1, <2>2, <2>3, Zenon DEF EditProbe, Change, Store
  <2>4. CASE CreateProbe(p, t)
    BY <2>4 DEF CreateProbe, Change, Store, Exists, TypeOK
  <2> QED BY <1>13, <2>3, <2>4
<1>14. ASSUME NEW p \in Probes, DeleteProbe(p) \/ ChangeHeaders(p)
       PROVE  Exists(q)' /\ probe'[q].finalizer
  <2>1. [probe[p] EXCEPT !.phase = "deleting"] \in Probe
    BY DEF TypeOK, Probe
  <2>2. p = q => [probe[p] EXCEPT !.phase = "deleting"].phase # "absent"
              /\ [probe[p] EXCEPT !.phase = "deleting"].finalizer
    BY <1>3 DEF Probe, Exists
  <2>3. CASE DeleteProbe(p) /\ probe[p].finalizer
    BY <1>2, <2>1, <2>2, <2>3, Zenon DEF DeleteProbe, Change, Store
  <2>4. CASE DeleteProbe(p) /\ ~probe[p].finalizer
    BY <2>4, Zenon DEF DeleteProbe, Change, Store, Exists, TypeOK
  <2>5. CASE ChangeHeaders(p)
    BY <1>1, <2>5 DEF ChangeHeaders
  <2> QED BY <1>14, <2>3, <2>4, <2>5
<1>15. ASSUME NEW t \in Target, Outage(t) PROVE probe' = probe
  BY <1>15 DEF Outage
<1>16. CASE UNCHANGED vars
  BY <1>1, <1>16 DEF vars
<1> QED BY <1>1, <1>4, <1>5, <1>6, <1>8, <1>9, <1>10, <1>11, <1>12, <1>13, <1>14, <1>15,
      <1>16 DEF Next, Continue, Advance, Faulty, Outside

\* What any step does to the reconcile in progress: it goes on with the probe it
\* has begun, and it gets past the finalizer only on a probe that has one.
LEMMA NextReconcileStep ==
  ASSUME TypeOK, ReconcilingHeld, [Next]_vars
  PROVE  /\ rc'.pc \in {"headers", "monitor"} =>
              \/ rc.pc \in {"headers", "monitor"} /\ rc'.probe = rc.probe
              \/ probe'[rc'.probe].phase # "absent" /\ probe'[rc'.probe].finalizer
         /\ rc'.pc = "remove" =>
              \/ ~queuer'[rc'.probe].started
              \/ rc.pc = "remove" /\ rc'.probe = rc.probe /\ queuer' = queuer
         /\ rc'.pc = "finalizer" /\ ~rc'.stale => probe'[rc'.probe].phase # "absent"
<1> DEFINE Goal ==
      /\ rc'.pc \in {"headers", "monitor"} =>
           \/ rc.pc \in {"headers", "monitor"} /\ rc'.probe = rc.probe
           \/ probe'[rc'.probe].phase # "absent" /\ probe'[rc'.probe].finalizer
      /\ rc'.pc = "remove" =>
           \/ ~queuer'[rc'.probe].started
           \/ rc.pc = "remove" /\ rc'.probe = rc.probe /\ queuer' = queuer
      /\ rc'.pc = "finalizer" /\ ~rc'.stale => probe'[rc'.probe].phase # "absent"
<1> SUFFICES Goal
  OBVIOUS
<1>0. rc \in Reconciling /\ rc.probe \in Probes /\ \A p \in Probes : probe[p] \in Probe
  BY DEF TypeOK, Reconciling
<1>1. ASSUME rc' = rc, queuer' = queuer, probe' = probe PROVE Goal
  BY <1>1 DEF ReconcilingHeld, Exists
<1>2. ASSUME NEW p \in Probes, NEW r, probe' = [probe EXCEPT ![p] = r],
             rc' = Outdated(p), queuer' = queuer
      PROVE  Goal
  <2>1. /\ rc'.pc = rc.pc /\ rc'.probe = rc.probe
        /\ rc.pc = "finalizer" /\ ~rc'.stale => ~rc.stale /\ rc.probe # p
    BY <1>0, <1>2, Zenon DEF Outdated, Reconciling
  <2>2. rc.probe # p => probe'[rc.probe] = probe[rc.probe]
    BY <1>0, <1>2 DEF TypeOK
  <2> QED BY <1>2, <2>1, <2>2 DEF ReconcilingHeld, Exists
<1>3. ASSUME rc'.pc = "idle" PROVE Goal
  BY <1>3
<1>4. ASSUME NEW p \in Probes, ReconcileGone(p) \/ GetError(p) \/ Timer(p) PROVE Goal
  BY <1>1, <1>4 DEF ReconcileGone, GetError, Timer, monitor
<1>5. ASSUME NEW p \in Probes, ReconcileDeleting(p) PROVE Goal
  <2>1. rc'.pc = "remove" /\ rc'.probe = p
    BY <1>5 DEF ReconcileDeleting, Idle
  <2>2. ~queuer'[p].started
    BY <1>5 DEF ReconcileDeleting, RemoveProbe, Stopped, TypeOK
  <2> QED BY <2>1, <2>2
<1>6. ASSUME NEW p \in Probes, ReconcileLive(p) PROVE Goal
  <2>1. /\ rc'.probe = p /\ probe' = probe /\ probe[p].phase = "live"
        /\ rc'.pc = "finalizer" \/ (rc'.pc = "headers" /\ probe[p].finalizer)
    BY <1>0, <1>6 DEF ReconcileLive, Idle, NeedsFinalizer, Probe
  <2> QED BY <2>1 DEF Exists
<1>7. CASE RemoveFinalizer \/ HeadersInvalid \/ HeadersError \/ NotifierError \/ Monitor
           \/ TimerDuringUpdate \/ Restart
  BY <1>3, <1>7, SMTT(30)
    DEF RemoveFinalizer, HeadersInvalid, HeadersError, BadHeaders,
    NotifierError, Monitor, TimerDuringUpdate, Restart, Retry, Done, Idle
<1>8. CASE AddFinalizer
  <2>1. CASE rc.stale
    BY <1>3, <1>8, <2>1, SMTT(30) DEF AddFinalizer, Retry, Done, Idle
  <2>2. CASE ~rc.stale
    <3>1. rc'.pc = "headers" /\ rc'.probe = rc.probe
      BY <1>0, <1>8, <2>2 DEF AddFinalizer, Reconciling
    <3>2. probe'[rc.probe] = [probe[rc.probe] EXCEPT !.finalizer = TRUE]
      BY <1>0, <1>8, <2>2 DEF AddFinalizer, Store, TypeOK
    <3>3. Exists(rc.probe)
      BY <1>8, <2>2 DEF AddFinalizer, ReconcilingHeld
    <3>4. probe'[rc.probe].phase = probe[rc.probe].phase /\ probe'[rc.probe].finalizer
      BY <1>0, <3>2 DEF Probe
    <3> QED BY <3>1, <3>3, <3>4 DEF Exists
  <2> QED BY <2>1, <2>2
<1>9. CASE GetHeaders
  BY <1>0, <1>9 DEF GetHeaders, Reconciling
<1>10. ASSUME NEW r \in Request, LateTimer(r) PROVE Goal
  BY <1>1, <1>10 DEF LateTimer
<1>11. CASE Process
  BY <1>1, <1>11 DEF Process
<1>12. ASSUME NEW k \in Slots, PerformRequest(k) \/ NotifyGet(k) \/ NotifyError(k)
       PROVE  Goal
  BY <1>1, <1>12 DEF PerformRequest, NotifyGet, NotifyError, monitor
<1>13. ASSUME NEW k \in Slots, NotifyUpdate(k) PROVE Goal
  <2>1. checks[k].req.probe \in Probes
    BY CheckTypes
  <2> QED BY <1>1, <1>2, <1>13, <2>1 DEF NotifyUpdate, Store
<1>14. ASSUME NEW p \in Probes, NEW t \in Target, CreateProbe(p, t) \/ EditProbe(p, t)
       PROVE  Goal
  BY <1>2, <1>14 DEF CreateProbe, EditProbe, Change, Store, monitor
<1>15. ASSUME NEW p \in Probes, DeleteProbe(p) PROVE Goal
  BY <1>2, <1>15 DEF DeleteProbe, Change, Store, monitor
<1>16. ASSUME NEW p \in Probes, ChangeHeaders(p) PROVE Goal
  BY <1>1, <1>16 DEF ChangeHeaders, monitor
<1>17. ASSUME NEW t \in Target, Outage(t) PROVE Goal
  BY <1>1, <1>17 DEF Outage, monitor
<1>18. CASE UNCHANGED vars
  BY <1>1, <1>18 DEF vars, monitor
<1> HIDE DEF Goal
<1> QED BY <1>4, <1>5, <1>6, <1>7, <1>8, <1>9, <1>10, <1>11, <1>12, <1>13, <1>14, <1>15,
      <1>16, <1>17, <1>18 DEF Next, Begin, Continue, Advance, Faulty, Outside

\* What any step does to the queuers: only Monitor, for the probe at hand, makes
\* one run.
LEMMA NextQueuerStep ==
  ASSUME TypeOK, [Next]_vars, NEW q \in Probes, queuer'[q].started
  PROVE  queuer[q].started \/ (rc.pc = "monitor" /\ rc.probe = q)
<1>1. ASSUME queuer' = queuer PROVE queuer[q].started
  BY <1>1
<1>2. CASE SetQueuer /\ rc.pc = "monitor"
  BY <1>2 DEF SetQueuer, TypeOK, Reconciling
<1>3. ASSUME NEW p \in Probes, Begin(p) \/ GetError(p) \/ Timer(p)
      PROVE  queuer[q].started
  <2>1. CASE ReconcileDeleting(p)
    BY <2>1 DEF ReconcileDeleting, RemoveProbe, Stopped, TypeOK
  <2>2. CASE ReconcileGone(p) \/ ReconcileLive(p) \/ GetError(p) \/ Timer(p)
    BY <1>1, <2>2 DEF ReconcileGone, ReconcileLive, GetError, Timer, monitor
  <2> QED BY <1>3, <2>1, <2>2 DEF Begin
<1>4. CASE Restart
  BY <1>4 DEF Restart, Stopped
<1>5. CASE UNCHANGED vars
  BY <1>1, <1>5 DEF vars, monitor
<1>6. CASE Monitor \/ TimerDuringUpdate
  BY <1>2, <1>6 DEF Monitor, TimerDuringUpdate
<1>7. CASE RemoveFinalizer \/ AddFinalizer \/ GetHeaders \/ HeadersInvalid
           \/ HeadersError \/ NotifierError \/ Process
  BY <1>1, <1>7 DEF RemoveFinalizer, AddFinalizer, GetHeaders, HeadersInvalid,
    HeadersError, BadHeaders, NotifierError, Process, monitor
<1>8. ASSUME NEW r \in Request, LateTimer(r) PROVE queuer[q].started
  BY <1>1, <1>8 DEF LateTimer
<1>9. ASSUME NEW k \in Slots, Advance(k) \/ NotifyError(k) PROVE queuer[q].started
  BY <1>1, <1>9 DEF Advance, PerformRequest, NotifyGet, NotifyUpdate, NotifyError,
    monitor
<1>10. CASE Outside
  BY <1>1, <1>10, Zenon DEF Outside, CreateProbe, EditProbe, DeleteProbe, ChangeHeaders,
    Outage, monitor
<1> QED BY <1>3, <1>4, <1>5, <1>6, <1>7, <1>8, <1>9, <1>10 DEF Next, Continue, Faulty

\* HeldInv is inductive.
LEMMA HeldStep ==
  ASSUME HeldInv, [Next]_vars
  PROVE  HeldInv'
<1> USE DEF HeldInv
<1>1. TypeOK'
  BY TypeStep
<1>2. rc'.probe \in Probes /\ rc.probe \in Probes
  BY <1>1 DEF TypeOK, Reconciling
<1>3. ReconcilingHeld'
  <2>1. ASSUME rc'.pc \in {"headers", "monitor"}
        PROVE  probe'[rc'.probe].phase # "absent" /\ probe'[rc'.probe].finalizer
    <3>1. CASE rc.pc \in {"headers", "monitor"} /\ rc'.probe = rc.probe
      <4>1. Exists(rc.probe) /\ probe[rc.probe].finalizer /\ ~RemoveFinalizer
        BY <3>1 DEF ReconcilingHeld, RemoveFinalizer
      <4>2. probe'[rc.probe].phase # "absent" /\ probe'[rc.probe].finalizer
        BY <1>2, <4>1, NextProbeStep DEF Exists
      <4> QED BY <3>1, <4>2
    <3> QED BY <2>1, <3>1, NextReconcileStep
  <2>2. rc'.pc = "remove" => ~queuer'[rc'.probe].started
    BY NextReconcileStep DEF ReconcilingHeld
  <2>3. rc'.pc = "finalizer" /\ ~rc'.stale => probe'[rc'.probe].phase # "absent"
    BY NextReconcileStep
  <2> QED BY <2>1, <2>2, <2>3 DEF ReconcilingHeld, Exists
<1>4. QueuersHeldByFinalizer'
  <2> SUFFICES ASSUME NEW q \in Probes, queuer'[q].started
               PROVE  Exists(q)' /\ probe'[q].finalizer
    BY DEF QueuersHeldByFinalizer, Exists
  <2>1. queuer[q].started \/ (rc.pc = "monitor" /\ rc.probe = q)
    BY NextQueuerStep
  <2>2. Exists(q) /\ probe[q].finalizer
    BY <2>1 DEF QueuersHeldByFinalizer, ReconcilingHeld
  <2>3. ~(RemoveFinalizer /\ q = rc.probe)
    BY <2>1 DEF ReconcilingHeld, RemoveFinalizer
  <2> QED BY <2>2, <2>3, NextProbeStep
<1> QED BY <1>1, <1>3, <1>4

\* No queuer outlives its probe object: for every number of probes and checks,
\* and under every interleaving, conflict, failed call and restart, a queuer
\* runs only for an object that is there and carries the finalizer (Reconcile,
\* AddProbeQueuer and RemoveProbe).
THEOREM QueuersAlwaysHeld == Spec => []QueuersHeldByFinalizer
<1>1. Init => HeldInv
  <2>1. Init => TypeOK
    BY RecordTypes, ProbeBounds, SMTT(30) DEF Init, TypeOK
  <2>2. Init => ReconcilingHeld /\ QueuersHeldByFinalizer
    BY SMTT(30) DEF Init, ReconcilingHeld, QueuersHeldByFinalizer, Idle, Stopped
  <2> QED BY <2>1, <2>2 DEF HeldInv
<1>2. HeldInv /\ [Next]_vars => HeldInv'
  BY HeldStep
<1>3. HeldInv => QueuersHeldByFinalizer
  BY DEF HeldInv
<1> QED BY <1>1, <1>2, <1>3, PTL DEF Spec

-----------------------------------------------------------------------------
(* Consecutive failures *)

\* A write of one object, with every copy of it marked stale, keeps CountInv
\* when the status written agrees with the history of that object.
LEMMA WriteCounted ==
  ASSUME TypeOK, CountInv, NEW p \in Probes, NEW r \in Probe,
         probe' = [probe EXCEPT ![p] = r],
         NEW cs \in [Slots -> Check],
         \A s \in Slots : cs[s] = checks[s] \/ cs[s].phase # "update",
         checks' = Overtaken(p, cs),
         \A q \in Probes : q # p => streak'[q] = streak[q],
         r.status.failures = streak'[p],
         r.status.healthy # "false" => r.status.failures = 0,
         r.phase = "absent" => r.status = NewStatus
  PROVE  CountInv'
<1>1. probe'[p] = r /\ \A q \in Probes : q # p => probe'[q] = probe[q]
  BY DEF TypeOK
<1>2. HealthyHasNoFailures' /\ AbsentHasNoStatus' /\ FailuresCounted'
  BY <1>1, SMTT(30)
    DEF CountInv, HealthyHasNoFailures, AbsentHasNoStatus, FailuresCounted, Exists
<1>3. CopiesCurrent'
  <2> SUFFICES ASSUME NEW s \in Slots, checks'[s].phase = "update", ~checks'[s].stale
               PROVE  checks'[s].seen = probe'[checks'[s].req.probe].status
    BY DEF CopiesCurrent
  <2>1. /\ checks'[s].phase = cs[s].phase /\ checks'[s].req = cs[s].req
        /\ checks'[s].seen = cs[s].seen
        /\ ~checks'[s].stale => ~cs[s].stale /\
             ~(cs[s].phase = "update" /\ cs[s].req.probe = p)
    BY Zenon DEF Overtaken, Check
  <2>2. cs[s] = checks[s] /\ checks[s].req.probe \in Probes
    BY <2>1, CheckTypes
  <2>3. checks[s].seen = probe[checks[s].req.probe].status
    BY <2>1, <2>2 DEF CountInv, CopiesCurrent
  <2> QED BY <1>1, <2>1, <2>2, <2>3, SMTT(30)
<1> QED BY <1>2, <1>3 DEF CountInv

\* A step that writes no object keeps CountInv when the copies that checks take
\* are of the current status.
LEMMA ReadCounted ==
  ASSUME TypeOK, CountInv, probe' = probe, streak' = streak,
         \A s \in Slots :
           \/ checks'[s] = checks[s]
           \/ checks'[s].phase # "update"
           \/ checks'[s].seen = probe[checks'[s].req.probe].status
  PROVE  CountInv'
<1>1. HealthyHasNoFailures' /\ AbsentHasNoStatus' /\ FailuresCounted'
  BY DEF CountInv, HealthyHasNoFailures, AbsentHasNoStatus, FailuresCounted, Exists
<1>2. CopiesCurrent'
  BY DEF CountInv, CopiesCurrent
<1> QED BY <1>1, <1>2 DEF CountInv

\* CountInv is inductive.
LEMMA CountStep ==
  ASSUME HeldInv, CountInv, [Next]_vars
  PROVE  CountInv'
<1> USE RecordTypes
<1>0. /\ TypeOK /\ ReconcilingHeld /\ checks \in [Slots -> Check]
      /\ rc.probe \in Probes
      /\ \A p \in Probes : probe[p] \in Probe /\ probe[p].status \in Status
  BY DEF HeldInv, TypeOK, Reconciling, Probe
<1>1. ASSUME probe' = probe, checks' = checks, streak' = streak PROVE CountInv'
  BY <1>0, <1>1, ReadCounted, Zenon
<1>2. ASSUME NEW p \in Probes, NEW r \in Probe, probe' = [probe EXCEPT ![p] = r],
             checks' = Overtaken(p, checks), streak' = streak,
             r.status = probe[p].status, r.phase = "absent" => ~Exists(p)
      PROVE  CountInv'
  <2>1. /\ r.status.failures = streak'[p]
        /\ r.status.healthy # "false" => r.status.failures = 0
        /\ r.phase = "absent" => r.status = NewStatus
    BY <1>2 DEF CountInv, FailuresCounted, HealthyHasNoFailures, AbsentHasNoStatus
  <2> QED BY <1>0, <1>2, <2>1, WriteCounted, Zenon
<1>3. ASSUME NEW p \in Probes, probe' = [probe EXCEPT ![p] = NoProbe],
             checks' = Overtaken(p, checks), streak' = [streak EXCEPT ![p] = 0]
      PROVE  CountInv'
  <2>1. /\ streak'[p] = 0 /\ \A q \in Probes : q # p => streak'[q] = streak[q]
        /\ NoProbe.status = NewStatus /\ NewStatus.failures = 0
    BY <1>0, <1>3 DEF TypeOK, NoProbe, NewStatus
  <2> QED BY <1>0, <1>3, <2>1, WriteCounted, Zenon
<1>4. ASSUME NEW p \in Probes, Begin(p) \/ GetError(p) \/ Timer(p) PROVE CountInv'
  BY <1>1, <1>4 DEF Begin, ReconcileGone, ReconcileDeleting, ReconcileLive, GetError,
    Timer
<1>5. CASE RemoveFinalizer
  BY <1>0, <1>1, <1>3, <1>5 DEF RemoveFinalizer, Store
<1>6. CASE AddFinalizer
  <2> DEFINE r == [probe[rc.probe] EXCEPT !.finalizer = TRUE]
  <2>1. r \in Probe /\ r.status = probe[rc.probe].status
        /\ (r.phase = "absent" => ~Exists(rc.probe))
    BY <1>0, Zenon DEF Probe, Exists
  <2>2. CASE rc.stale
    BY <1>1, <1>6, <2>2 DEF AddFinalizer
  <2>3. CASE ~rc.stale
    BY <1>0, <1>2, <1>6, <2>1, <2>3, Zenon DEF AddFinalizer, Store
  <2> QED BY <2>2, <2>3
<1>7. ASSUME NEW n \in 0..MaxFailures, BadHeaders(n), rc.pc = "headers",
             n = 0 \/ n = probe[rc.probe].status.failures
      PROVE  CountInv'
  <2> DEFINE r == [probe[rc.probe] EXCEPT !.status =
                     [healthy |-> "false", failures |-> n]]
  <2>1. /\ r \in Probe /\ r.status.failures = n /\ r.status.healthy = "false"
        /\ r.phase # "absent"
    BY <1>0, <1>7, SMTT(30) DEF Probe, Status, ReconcilingHeld, Exists
  <2>2. CASE rc.stale
    BY <1>1, <1>7, <2>2 DEF BadHeaders
  <2>3. CASE ~rc.stale
    <3>1. /\ probe' = [probe EXCEPT ![rc.probe] = r]
          /\ checks' = Overtaken(rc.probe, checks)
          /\ streak' = [streak EXCEPT ![rc.probe] =
                          IF n = 0 THEN 0 ELSE streak[rc.probe]]
      BY <1>7, <2>3 DEF BadHeaders
    <3>2. n = streak'[rc.probe] /\ \A q \in Probes : q # rc.probe => streak'[q] = streak[q]
      BY <1>0, <1>7, <3>1 DEF TypeOK, CountInv, FailuresCounted
    <3> QED BY <1>0, <2>1, <3>1, <3>2, WriteCounted, ZenonT(30)
  <2> QED BY <2>2, <2>3
<1>8. CASE HeadersInvalid \/ HeadersError
  <2>1. 0 \in 0..MaxFailures /\ probe[rc.probe].status.failures \in 0..MaxFailures
    BY <1>0, ProbeBounds, SMTT(30) DEF Status
  <2> QED BY <1>7, <1>8, <2>1 DEF HeadersInvalid, HeadersError
<1>9. CASE GetHeaders \/ Monitor \/ TimerDuringUpdate \/ NotifierError
  BY <1>1, <1>9 DEF GetHeaders, Monitor, TimerDuringUpdate, NotifierError
<1>10. ASSUME NEW r \in Request, LateTimer(r) PROVE CountInv'
  BY <1>1, <1>10 DEF LateTimer
<1>11. CASE Process
  <2>1. PICK s \in Slots : checks' = [checks EXCEPT ![s] =
                       [FreeCheck(Head(queue)) EXCEPT !.phase = "request"]]
    BY <1>11, Zenon DEF Process
  <2>2. \A k \in Slots : checks'[k] = checks[k] \/ checks'[k].phase # "update"
    BY <1>0, <2>1 DEF FreeCheck
  <2> QED BY <1>0, <1>11, <2>2, ReadCounted DEF Process
<1>12. CASE Restart
  <2>1. \A k \in Slots : checks'[k].phase # "update"
    BY <1>12 DEF Restart, FreeCheck
  <2> QED BY <1>0, <1>12, <2>1, ReadCounted DEF Restart
<1>13. ASSUME NEW s \in Slots, PerformRequest(s) PROVE CountInv'
  <2>1. \A k \in Slots : checks'[k] = checks[k] \/ checks'[k].phase # "update"
    BY <1>0, <1>13 DEF PerformRequest, Check
  <2> QED BY <1>0, <1>13, <2>1, ReadCounted DEF PerformRequest
<1>14. ASSUME NEW s \in Slots, NotifyError(s) \/ Drop(s), probe' = probe, streak' = streak
       PROVE  CountInv'
  <2>1. \A k \in Slots : checks'[k] = checks[k] \/ checks'[k].phase # "update"
    BY <1>0, <1>14, SMTT(30) DEF NotifyError, Drop, FreeCheck
  <2> QED BY <1>0, <1>14, <2>1, ReadCounted
<1>15. ASSUME NEW s \in Slots, NotifyGet(s) PROVE CountInv'
  <2>1. CASE Drop(s)
    BY <1>14, <1>15, <2>1 DEF NotifyGet
  <2>2. CASE ~Drop(s)
    <3>1. checks' = [checks EXCEPT ![s] = [checks[s] EXCEPT !.phase = "update",
                       !.seen = probe[checks[s].req.probe].status]]
      BY <1>15, <2>2 DEF NotifyGet
    <3>2. checks'[s].seen = probe[checks'[s].req.probe].status
          /\ \A k \in Slots : k # s => checks'[k] = checks[k]
      BY <1>0, <3>1, CheckTypes, SMTT(30) DEF Check
    <3> QED BY <1>0, <1>15, <3>2, ReadCounted DEF NotifyGet
  <2> QED BY <2>1, <2>2
<1>16. ASSUME NEW s \in Slots, NotifyUpdate(s) PROVE CountInv'
  <2> DEFINE k == checks[s]
             p == k.req.probe
             r == [probe[p] EXCEPT !.status = Reported(k.seen, k.healthy)]
             cs == [checks EXCEPT ![s] = FreeCheck(AnyRequest)]
             n == IF k.healthy THEN 0 ELSE AddFailure(streak[p])
  <2>1. CASE Drop(s) /\ probe' = probe /\ streak' = streak
    BY <1>14, <2>1
  <2>2. CASE Exists(p) /\ ~Refused(s) /\ probe' = [probe EXCEPT ![p] = r]
             /\ checks' = Overtaken(p, cs) /\ streak' = [streak EXCEPT ![p] = n]
    <3>1. p \in Probes /\ k.seen \in Status /\ k.healthy \in BOOLEAN
          /\ cs \in [Slots -> Check] /\ Reported(k.seen, k.healthy) \in Status
      BY <1>0, CheckTypes, ReportedType DEF Check
    <3>2. r \in Probe /\ r.status = Reported(k.seen, k.healthy) /\ r.phase # "absent"
      BY <1>0, <2>2, <3>1 DEF Probe, Exists
    <3>3. k.seen = probe[p].status
      BY <1>16, <2>2 DEF NotifyUpdate, Refused, CountInv, CopiesCurrent
    <3>4. k.seen.failures = streak[p]
          /\ (k.seen.healthy # "false" => streak[p] = 0)
      BY <3>1, <3>3, Zenon DEF CountInv, FailuresCounted, HealthyHasNoFailures
    <3>5. streak[p] \in 0..MaxFailures
      BY <1>0, <3>1 DEF TypeOK
    <3>6. Reported(k.seen, k.healthy).failures = n
          /\ (Reported(k.seen, k.healthy).healthy # "false" => n = 0)
      BY <3>1, <3>4, <3>5, ReportCounts, ZenonT(30)
    <3>7. streak'[p] = n /\ \A q \in Probes : q # p => streak'[q] = streak[q]
      BY <1>0, <2>2, <3>1 DEF TypeOK
    <3>8. \A j \in Slots : cs[j] = checks[j] \/ cs[j].phase # "update"
      BY <1>0 DEF FreeCheck
    <3>9. /\ r.status.failures = streak'[p]
          /\ r.status.healthy # "false" => r.status.failures = 0
          /\ r.phase = "absent" => r.status = NewStatus
      BY <3>2, <3>6, <3>7
    <3>10. /\ probe' = [probe EXCEPT ![p] = r]
           /\ checks' = Overtaken(p, cs)
           /\ p \in Probes /\ r \in Probe /\ cs \in [Slots -> Check]
      BY <2>2, <3>1, <3>2
    <3> HIDE DEF cs, r, n, p, k
    <3> QED BY <1>0, <3>7, <3>8, <3>9, <3>10, WriteCounted, Zenon
  <2> QED BY <1>16, <2>1, <2>2 DEF NotifyUpdate, Store
<1>17. ASSUME NEW p \in Probes, NEW t \in Target, CreateProbe(p, t) PROVE CountInv'
  <2> DEFINE r == [NoProbe EXCEPT !.phase = "live", !.spec = t]
  <2>1. r \in Probe /\ r.status = NewStatus /\ r.phase # "absent"
    BY Zenon DEF Probe, NoProbe
  <2>2. probe[p].status = NewStatus
    BY <1>17 DEF CreateProbe, CountInv, AbsentHasNoStatus
  <2> QED BY <1>2, <1>17, <2>1, <2>2, Zenon DEF CreateProbe, Change, Store
<1>18. ASSUME NEW p \in Probes, NEW t \in Target, EditProbe(p, t) PROVE CountInv'
  <2> DEFINE r == [probe[p] EXCEPT !.spec = t]
  <2>1. r \in Probe /\ r.status = probe[p].status /\ (r.phase = "absent" => ~Exists(p))
    BY <1>0 DEF Probe, Exists
  <2> QED BY <1>2, <1>18, <2>1, Zenon DEF EditProbe, Change, Store
<1>19. ASSUME NEW p \in Probes, DeleteProbe(p) PROVE CountInv'
  <2> DEFINE r == [probe[p] EXCEPT !.phase = "deleting"]
  <2>1. r \in Probe /\ r.status = probe[p].status /\ r.phase # "absent"
    BY <1>0 DEF Probe
  <2> QED BY <1>2, <1>3, <1>19, <2>1, Zenon DEF DeleteProbe, Change, Store
<1>20. ASSUME NEW p \in Probes, ChangeHeaders(p) PROVE CountInv'
  BY <1>1, <1>20 DEF ChangeHeaders
<1>21. ASSUME NEW t \in Target, Outage(t) PROVE CountInv'
  BY <1>1, <1>21 DEF Outage
<1>22. CASE UNCHANGED vars
  BY <1>1, <1>22 DEF vars
<1>23. ASSUME NEW s \in Slots, NotifyError(s) PROVE CountInv'
  BY <1>14, <1>23 DEF NotifyError
<1> QED BY <1>4, <1>5, <1>6, <1>8, <1>9, <1>10, <1>11, <1>12, <1>13, <1>15, <1>16, <1>17,
      <1>18, <1>19, <1>20, <1>21, <1>22, <1>23
      DEF Next, Continue, Advance, Faulty, Outside

\* ConsecutiveFailures is exact: for every number of probes and of concurrent
\* checks, whatever interleaving of notifiers, reconciler, users and restarts,
\* it is the number of unhealthy results reported since the last healthy one
\* (StatusUpdateProbeNotifier.Notify and its conflict handling).
THEOREM FailuresAlwaysCounted == Spec => []FailuresCounted
<1>1. Init => HeldInv /\ CountInv
  <2>1. Init => TypeOK
    BY RecordTypes, ProbeBounds, SMTT(30) DEF Init, TypeOK
  <2>2. Init => ReconcilingHeld /\ QueuersHeldByFinalizer
    BY SMTT(30) DEF Init, ReconcilingHeld, QueuersHeldByFinalizer, Idle, Stopped
  <2>3. Init => CountInv
    BY SMTT(30)
      DEF Init, CountInv, HealthyHasNoFailures, CopiesCurrent, AbsentHasNoStatus,
      FailuresCounted, FreeCheck, NoProbe, NewStatus
  <2> QED BY <2>1, <2>2, <2>3 DEF HeldInv
<1>2. HeldInv /\ CountInv /\ [Next]_vars => (HeldInv /\ CountInv)'
  BY HeldStep, CountStep
<1>3. HeldInv /\ CountInv => FailuresCounted
  BY DEF CountInv
<1> QED BY <1>1, <1>2, <1>3, PTL DEF Spec

-----------------------------------------------------------------------------
(* No event is lost *)

\* The worker is busy with p.
Busy(p) == rc.pc # "idle" /\ rc.probe = p

\* The inductive strengthening of QuiescentMeansMonitored, for one probe: a
\* reconcile past the finalizer with nothing queued behind it works on the
\* current spec of a probe that stays.
Attended(p) ==
  p \notin queued /\ Exists(p) /\ "get" \notin faults =>
    IF Busy(p)
    THEN rc.pc \in {"headers", "monitor"} =>
           probe[p].phase = "live" /\ rc.spec = probe[p].spec
    ELSE /\ probe[p].phase = "live"
         /\ queuer[p] = [started |-> TRUE, spec |-> probe[p].spec]

\* A step that leaves p alone, while the worker does not move or is elsewhere.
LEMMA AsideAttends ==
  ASSUME NEW p \in Probes, Attended(p), p \in queued => p \in queued', faults \subseteq faults',
         probe'[p] = probe[p], queuer'[p] = queuer[p],
         \/ rc'.pc = rc.pc /\ rc'.probe = rc.probe /\ rc'.spec = rc.spec
         \/ ~Busy(p) /\ ~Busy(p)'
  PROVE  Attended(p)'
<1>1. SUFFICES ASSUME p \notin queued, Exists(p), "get" \notin faults
               PROVE  IF Busy(p)'
                      THEN rc'.pc \in {"headers", "monitor"} =>
                             probe[p].phase = "live" /\ rc'.spec = probe[p].spec
                      ELSE /\ probe[p].phase = "live"
                           /\ queuer[p] = [started |-> TRUE, spec |-> probe[p].spec]
  BY DEF Attended, Exists
<1>. QED
  BY <1>1 DEF Attended, Busy

\* A probe that is queued is attended to.
LEMMA QueuedAttends ==
  ASSUME NEW p, p \in queued'
  PROVE  Attended(p)'
BY DEF Attended

\* A reconcile begins.
LEMMA BeginAttends ==
  ASSUME TypeOK, NEW q \in Probes, Attended(q), NEW p \in Probes, Begin(p) \/ GetError(p)
  PROVE  Attended(q)'
<1>1. rc.pc = "idle" /\ UNCHANGED probe /\ faults \subseteq faults'
  BY DEF Begin, GetError, ReconcileGone, ReconcileDeleting, ReconcileLive, Dequeue, Fault
<1>2. CASE p # q
  <2>1. ~Busy(q) /\ ~Busy(q)' /\ (q \in queued => q \in queued')
    <3>1. CASE ReconcileDeleting(p) \/ ReconcileLive(p)
      BY <1>1, <1>2, <3>1, Zenon DEF ReconcileDeleting, ReconcileLive, Busy, Idle
    <3>2. CASE ReconcileGone(p) \/ GetError(p)
      BY <1>1, <1>2, <3>2 DEF ReconcileGone, GetError, Busy
    <3>. QED
      BY <3>1, <3>2 DEF Begin
  <2>2. queuer'[q] = queuer[q]
    BY <1>2 DEF Begin, GetError, ReconcileGone, ReconcileDeleting, ReconcileLive, RemoveProbe, monitor, TypeOK
  <2>. QED
    BY <1>1, <2>1, <2>2, AsideAttends
<1>3. CASE p = q /\ ReconcileGone(p)
  BY <1>3 DEF ReconcileGone, Attended, Exists
<1>4. CASE p = q /\ GetError(p)
  BY <1>4 DEF GetError, Fault, Attended
<1>5. CASE p = q /\ ReconcileDeleting(p)
  <2>1. rc'.pc = "remove" /\ rc'.probe = q
    BY <1>5 DEF ReconcileDeleting, Idle
  <2>. QED
    BY <2>1, Zenon DEF Attended, Busy
<1>6. CASE p = q /\ ReconcileLive(p)
  <2>1. rc'.pc \in {"finalizer", "headers"} /\ rc'.probe = q /\ rc'.spec = probe[q].spec
    BY <1>6 DEF ReconcileLive, Idle
  <2>2. probe[q].phase = "live"
    BY <1>6 DEF ReconcileLive
  <2>. QED
    BY <1>1, <2>1, <2>2 DEF Attended, Busy
<1>. QED
  BY <1>2, <1>3, <1>4, <1>5, <1>6 DEF Begin

\* A reconcile goes on or ends.
LEMMA ContinueAttends ==
  ASSUME TypeOK, NEW q \in Probes, Attended(q), Continue \/ HeadersError \/ NotifierError
  PROVE  Attended(q)'
<1>0. rc \in Reconciling /\ rc.probe \in Probes
  BY DEF TypeOK, Reconciling
<1>1. rc.pc # "idle" /\ faults \subseteq faults' /\ queued \subseteq queued' /\ (rc'.pc = "idle" \/ rc'.probe = rc.probe)
  BY <1>0, SMTT(30)
    DEF Continue, HeadersError, NotifierError, RemoveFinalizer, AddFinalizer, GetHeaders, HeadersInvalid,
    Monitor, TimerDuringUpdate, BadHeaders, Store, Retry, Done, Idle, Fault, Reconciling
<1>2. CASE q # rc.probe
  <2>1. probe'[q] = probe[q]
    BY <1>0, <1>2 DEF Continue, HeadersError, NotifierError, RemoveFinalizer, AddFinalizer, GetHeaders,
      HeadersInvalid, Monitor, TimerDuringUpdate, BadHeaders, Store, TypeOK
  <2>2. queuer'[q] = queuer[q]
    BY <1>0, <1>2 DEF Continue, HeadersError, NotifierError, RemoveFinalizer, AddFinalizer, GetHeaders,
      HeadersInvalid, Monitor, TimerDuringUpdate, BadHeaders, SetQueuer, monitor, TypeOK
  <2>3. ~Busy(q) /\ ~Busy(q)'
    BY <1>1, <1>2 DEF Busy
  <2>. QED
    BY <1>1, <2>1, <2>2, <2>3, AsideAttends
<1>3. CASE q = rc.probe /\ (RemoveFinalizer \/ AddFinalizer \/ HeadersInvalid \/ HeadersError \/ NotifierError)
  <2>1. q \in queued'
    BY <1>3 DEF RemoveFinalizer, AddFinalizer, HeadersInvalid, HeadersError, NotifierError, BadHeaders, Store, Retry
  <2>. QED
    BY <2>1, QueuedAttends
<1>4. CASE q = rc.probe /\ GetHeaders
  <2>1. /\ rc'.pc = "monitor" /\ rc'.probe = q /\ rc'.spec = rc.spec /\ rc.pc = "headers"
        /\ UNCHANGED <<probe, queued, faults>>
    BY <1>0, <1>4 DEF GetHeaders, Reconciling
  <2>. QED
    BY <1>4, <2>1 DEF Attended, Busy, Exists
<1>5. CASE q = rc.probe /\ (Monitor \/ TimerDuringUpdate)
  <2>1. rc.pc = "monitor" /\ rc'.pc = "idle" /\ UNCHANGED <<probe, queued, faults>> /\ SetQueuer
    BY <1>5, SMTT(30) DEF Monitor, TimerDuringUpdate, Done, Idle
  <2>2. queuer'[q] = [started |-> TRUE, spec |-> rc.spec]
    BY <1>5, <2>1 DEF SetQueuer, TypeOK
  <2>. QED
    BY <1>5, <2>1, <2>2, Zenon DEF Attended, Busy, Exists
<1>. QED
  BY <1>2, <1>3, <1>4, <1>5 DEF Continue

\* A write to p by others than the reconciler.
LEMMA ChangeAttends ==
  ASSUME TypeOK, NEW q \in Probes, Attended(q), NEW p \in Probes, NEW r, Store(p, r), rc' = Outdated(p),
         UNCHANGED <<queuer, faults>>
  PROVE  Attended(q)'
<1>1. CASE p = q
  BY <1>1, QueuedAttends DEF Store
<1>2. CASE p # q
  <2>1. rc'.pc = rc.pc /\ rc'.probe = rc.probe /\ rc'.spec = rc.spec
    BY DEF Outdated, TypeOK, Reconciling
  <2>2. probe'[q] = probe[q] /\ (q \in queued => q \in queued')
    BY <1>2 DEF Store, TypeOK
  <2>. QED
    BY <2>1, <2>2, AsideAttends
<1>. QED
  BY <1>1, <1>2

\* Every step.
LEMMA NextAttends ==
  ASSUME TypeOK, [Next]_vars, NEW q \in Probes, Attended(q)
  PROVE  Attended(q)'
<1>1. ASSUME NEW p \in Probes, Begin(p) \/ GetError(p)
      PROVE  Attended(q)'
  BY <1>1, BeginAttends
<1>2. CASE Continue \/ HeadersError \/ NotifierError
  BY <1>2, ContinueAttends
<1>3. ASSUME UNCHANGED <<probe, queuer, queued, rc>>, faults \subseteq faults'
      PROVE  Attended(q)'
  BY <1>3, AsideAttends
<1>4. CASE \/ \E p \in Probes : Timer(p) \/ ChangeHeaders(p)
           \/ \E t \in Target : Outage(t)
           \/ \E r \in Request : LateTimer(r)
           \/ Process
           \/ UNCHANGED vars
  BY <1>3, <1>4 DEF Timer, ChangeHeaders, Outage, LateTimer, Process, vars, monitor
<1>5. ASSUME NEW s \in Slots, PerformRequest(s) \/ NotifyGet(s) \/ NotifyError(s)
      PROVE  Attended(q)'
  BY <1>3, <1>5 DEF PerformRequest, NotifyGet, NotifyError, Fault, monitor
<1>6. ASSUME NEW s \in Slots, NotifyUpdate(s)
      PROVE  Attended(q)'
  <2>1. checks[s].req.probe \in Probes
    BY CheckTypes
  <2>. QED
    BY <1>3, <1>6, <2>1, ChangeAttends DEF NotifyUpdate
<1>7. CASE \/ \E p \in Probes, t \in Target : CreateProbe(p, t) \/ EditProbe(p, t)
           \/ \E p \in Probes : DeleteProbe(p)
  BY <1>7, ChangeAttends, Zenon DEF CreateProbe, EditProbe, DeleteProbe, Change, monitor
<1>8. CASE Restart
  BY <1>8 DEF Restart, Attended, Exists
<1>. QED
  BY <1>1, <1>2, <1>4, <1>5, <1>6, <1>7, <1>8 DEF Next, Advance, Faulty, Outside

\* QuiescentMeansMonitored for any number of probes and checks: whatever happens
\* to a probe while it is reconciled, unless a Get fails, the reconciler comes
\* back to it until its queuer runs with the current spec.
THEOREM AlwaysMonitored == Spec => []QuiescentMeansMonitored
<1>. DEFINE All == \A p \in Probes : Attended(p)
<1>1. Init => All
  BY SMTT(30) DEF Init, NoProbe, Exists, Attended
<1>2. TypeOK /\ All /\ [Next]_vars => All'
  BY NextAttends
<1>3. All => QuiescentMeansMonitored
  BY DEF Attended, Busy, QuiescentMeansMonitored
<1>. HIDE DEF All
<1>. QED
  BY <1>1, <1>2, <1>3, TypeCorrect, PTL DEF Spec

=============================================================================
