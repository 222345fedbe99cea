---------------------------- MODULE HealthProbes ----------------------------
(***************************************************************************)
(* DNS health checks: the controller of DNSHealthCheckProbe objects        *)
(* (pkg/controllers/dnshealthcheckprobe), the monitor with one queuer per  *)
(* probe, the queue of health requests and the goroutines that perform     *)
(* them and report the results (pkg/health).                               *)
(*                                                                         *)
(* Reconciler, queuers, worker and checks are goroutines of one process.   *)
(* They meet in the monitor and the queue, each behind a mutex, and in the *)
(* probe objects of the API server, where a write with an old resource     *)
(* version is refused.  The fields of a queuer are behind no lock: the     *)
(* timer that reads them while UpdateProbe writes them may get a mixture.  *)
(***************************************************************************)
EXTENDS Integers, Sequences, FiniteSets

CONSTANTS
  Probes,       \* names of DNSHealthCheckProbe objects
  Addresses,    \* addresses a probe can be sent to
  Paths,        \* paths it can ask for
  EditKinds,    \* bound: the kinds of change made from outside
  FaultKinds,   \* bound: the kinds of call that fail
  MaxChecks,    \* bound: requests queued or being carried out at a time
  MaxFailures,  \* bound: ConsecutiveFailures is counted up to here
  MaxEdits,     \* bound: changes made from outside
  MaxFaults     \* bound: failed calls and restarts

ASSUME SomeProbe == Probes # {} /\ Addresses # {} /\ Paths # {}
ASSUME ProbeBounds == /\ MaxChecks \in Nat \ {0} /\ MaxFailures \in Nat \ {0}
                      /\ MaxEdits \in Nat /\ MaxFaults \in Nat

VARIABLES
  probe,    \* probe[p]: the object in the API server
  headers,  \* probes whose additional headers can be read and are valid
  up,       \* what answers with one of the expected responses
  queuer,   \* queuer[p]: the ProbeQueuer in the monitor
  late,     \* queuers that are cancelled and have not seen it yet
  queue,    \* requests of the QueuedProbeWorker
  checks,   \* the goroutines started by process
  queued,   \* probes in the controller's work queue
  rc,       \* the reconcile in progress
  edits, faults,
  streak    \* streak[p]: unhealthy results reported since a healthy one

env == <<headers, up, edits>>
monitor == <<queuer, late, queue>>
vars == <<probe, env, monitor, checks, queued, rc, faults, streak>>

-----------------------------------------------------------------------------

\* The part of a probe's spec that a request is made from.
Target == [address : Addresses, path : Paths]

AnyTarget == CHOOSE t \in Target : TRUE

Slots == 1..MaxChecks

\* status.healthy is a pointer to a boolean.
Status == [healthy : {"nil", "true", "false"}, failures : 0..MaxFailures]

NewStatus == [healthy |-> "nil", failures |-> 0]

Probe == [phase : {"absent", "live", "deleting"}, finalizer : BOOLEAN,
          spec : Target, status : Status]

NoProbe == [phase |-> "absent", finalizer |-> FALSE, spec |-> AnyTarget,
            status |-> NewStatus]

Queuer == [started : BOOLEAN, spec : Target]

Stopped == [started |-> FALSE, spec |-> AnyTarget]

Request == [probe : Probes, spec : Target]

\* "request": performRequest runs; "report": it has a result; "update": Notify
\* has read the object (seen), and stale says it was written since.
Check == [phase : {"free", "request", "report", "update"}, req : Request,
          healthy : BOOLEAN, seen : Status, stale : BOOLEAN]

FreeCheck(r) == [phase |-> "free", req |-> r, healthy |-> FALSE,
                 seen |-> NewStatus, stale |-> FALSE]

AnyRequest == [probe |-> CHOOSE p \in Probes : TRUE, spec |-> AnyTarget]

\* spec is what Get answered, stale says the object was written since.
Reconciling == [pc : {"idle", "remove", "finalizer", "headers", "monitor"},
                probe : Probes, spec : Target, stale : BOOLEAN]

Idle(p) == [pc |-> "idle", probe |-> p, spec |-> AnyTarget, stale |-> FALSE]

TypeOK ==
  /\ probe \in [Probes -> Probe]
  /\ headers \subseteq Probes
  /\ up \subseteq Target
  /\ queuer \in [Probes -> Queuer]
  /\ late \subseteq Request
  /\ queue \in Seq(Request)
  /\ checks \in [Slots -> Check]
  /\ queued \subseteq Probes
  /\ rc \in Reconciling
  /\ edits \in 0..MaxEdits
  /\ faults \subseteq FaultKinds
  /\ streak \in [Probes -> 0..MaxFailures]

Init ==
  /\ probe = [p \in Probes |-> NoProbe]
  /\ headers = Probes
  /\ up \in SUBSET Target
  /\ queuer = [p \in Probes |-> Stopped]
  /\ late = {}
  /\ queue = <<>>
  /\ checks = [s \in Slots |-> FreeCheck(AnyRequest)]
  /\ queued = {}
  /\ \E p \in Probes : rc = Idle(p)
  /\ edits = 0
  /\ faults = {}
  /\ streak = [p \in Probes |-> 0]

-----------------------------------------------------------------------------
(* Helpers *)

Exists(p) == probe[p].phase # "absent"

Fault(kind) ==
  /\ kind \in FaultKinds \ faults
  /\ Cardinality(faults) < MaxFaults
  /\ faults' = faults \cup {kind}

\* A write to the object; every write is a watch event.
Store(p, r) == probe' = [probe EXCEPT ![p] = r] /\ queued' = queued \cup {p}

\* What a write to p does to the copies that others hold: the checks cs that
\* have read it, and the reconcile in progress.
Overtaken(p, cs) ==
  [s \in Slots |-> [cs[s] EXCEPT !.stale =
     @ \/ (cs[s].phase = "update" /\ cs[s].req.probe = p)]]

Outdated(p) == [rc EXCEPT !.stale = @ \/ (rc.pc # "idle" /\ rc.probe = p)]

\* Requests queued or being carried out.
Outstanding ==
  Len(queue) + Cardinality({s \in Slots : checks[s].phase # "free"})

Done == rc' = Idle(rc.probe)

\* Reconcile returns an error: the request goes back to the queue.
Retry == Done /\ queued' = queued \cup {rc.probe}

AddFailure(n) == IF n < MaxFailures THEN n + 1 ELSE n

-----------------------------------------------------------------------------
(* Reconcile *)

Dequeue(p) == rc.pc = "idle" /\ p \in queued

\* Get answers NotFound.
ReconcileGone(p) ==
  /\ Dequeue(p)
  /\ ~Exists(p)
  /\ queued' = queued \ {p}
  /\ UNCHANGED <<probe, env, monitor, checks, rc, faults, streak>>

\* Get fails otherwise: the two branches are the wrong way round, and in both
\* Reconcile returns no error, so nothing tries again.
GetError(p) ==
  /\ Dequeue(p)
  /\ Fault("get")
  /\ queued' = queued \ {p}
  /\ UNCHANGED <<probe, env, monitor, checks, rc, streak>>

\* Mutant of RemoveProbe: the queuer is not stopped.
KeepProbe(p) == UNCHANGED <<queuer, late, queue>>

\* RemoveProbe: Stop cancels the queuer, whose goroutine may be choosing between
\* its timer and the cancellation.
RemoveProbe(p) ==
  /\ queuer' = [queuer EXCEPT ![p] = Stopped]
  /\ late' = IF queuer[p].started
             THEN late \cup {[probe |-> p, spec |-> queuer[p].spec]}
             ELSE late
  /\ UNCHANGED queue

\* The probe is being deleted.
ReconcileDeleting(p) ==
  /\ Dequeue(p)
  /\ probe[p].phase = "deleting"
  /\ queued' = queued \ {p}
  /\ RemoveProbe(p)
  /\ rc' = [Idle(p) EXCEPT !.pc = "remove"]
  /\ UNCHANGED <<probe, env, checks, faults, streak>>

\* RemoveFinalizer and Update.
RemoveFinalizer ==
  /\ rc.pc = "remove"
  /\ IF rc.stale
     THEN Retry /\ UNCHANGED <<probe, checks, streak>>
     ELSE /\ Store(rc.probe, NoProbe)
          /\ checks' = Overtaken(rc.probe, checks)
          /\ streak' = [streak EXCEPT ![rc.probe] = 0]
          /\ Done
  /\ UNCHANGED <<env, monitor, faults>>

\* Mutant of NeedsFinalizer: the finalizer is never added.
NeedsNoFinalizer(p) == FALSE

NeedsFinalizer(p) == ~probe[p].finalizer

ReconcileLive(p) ==
  /\ Dequeue(p)
  /\ probe[p].phase = "live"
  /\ queued' = queued \ {p}
  /\ rc' = [Idle(p) EXCEPT !.pc = IF NeedsFinalizer(p) THEN "finalizer"
                                                       ELSE "headers",
                           !.spec = probe[p].spec]
  /\ UNCHANGED <<probe, env, monitor, checks, faults, streak>>

\* AddFinalizer and Update; Reconcile goes on with the object it got back.
AddFinalizer ==
  /\ rc.pc = "finalizer"
  /\ IF rc.stale
     THEN Retry /\ UNCHANGED <<probe, checks>>
     ELSE /\ Store(rc.probe, [probe[rc.probe] EXCEPT !.finalizer = TRUE])
          /\ checks' = Overtaken(rc.probe, checks)
          /\ rc' = [rc EXCEPT !.pc = "headers"]
  /\ UNCHANGED <<env, monitor, faults, streak>>

GetHeaders ==
  /\ rc.pc = "headers"
  /\ rc.probe \in headers
  /\ rc' = [rc EXCEPT !.pc = "monitor"]
  /\ UNCHANGED <<probe, env, monitor, checks, queued, faults, streak>>

\* getAdditionalHeaders fails: the probe is unhealthy, with ConsecutiveFailures
\* n.  The error of the status update is only logged, that of the headers puts
\* the request back; a queuer that runs goes on as it is.
BadHeaders(n) ==
  LET p == rc.probe IN
  /\ IF rc.stale
     THEN UNCHANGED <<probe, checks, streak>>
     ELSE /\ probe' = [probe EXCEPT ![p] = [probe[p] EXCEPT !.status =
                         [healthy |-> "false", failures |-> n]]]
          /\ checks' = Overtaken(p, checks)
          /\ streak' = [streak EXCEPT ![p] = IF n = 0 THEN 0 ELSE @]
  /\ Retry
  /\ UNCHANGED <<env, monitor>>

\* The secret is not there, or a header in it is not valid.
HeadersInvalid ==
  /\ rc.pc = "headers"
  /\ rc.probe \notin headers
  /\ BadHeaders(0)
  /\ UNCHANGED faults

\* The secret cannot be read for another reason: the failures are kept.
HeadersError ==
  /\ rc.pc = "headers"
  /\ Fault("headers")
  /\ BadHeaders(probe[rc.probe].status.failures)

\* newProbeNotifierFor fails, for one because the gateway is not there.
NotifierError ==
  /\ rc.pc = "monitor"
  /\ ~queuer[rc.probe].started
  /\ Fault("notifier")
  /\ Retry
  /\ UNCHANGED <<probe, env, monitor, checks, streak>>

\* AddProbeQueuer, or UpdateProbe when the monitor has the probe.
SetQueuer ==
  /\ queuer' = [queuer EXCEPT ![rc.probe] = [started |-> TRUE, spec |-> rc.spec]]
  /\ UNCHANGED late

\* Mutant of Monitor: a queuer that is there is left as it is.
AddOnly ==
  /\ rc.pc = "monitor"
  /\ IF queuer[rc.probe].started THEN UNCHANGED <<queuer, late>> ELSE SetQueuer
  /\ Done
  /\ UNCHANGED <<probe, env, queue, checks, queued, faults, streak>>

Monitor ==
  /\ rc.pc = "monitor"
  /\ SetQueuer
  /\ Done
  /\ UNCHANGED <<probe, env, queue, checks, queued, faults, streak>>

-----------------------------------------------------------------------------
(* Queuers, worker and checks *)

Room == Outstanding < MaxChecks

\* EnqueueCheck with a request of p.
EnqueueCheck(p, spec) == queue' = Append(queue, [probe |-> p, spec |-> spec])

\* The interval is over.
Timer(p) ==
  /\ queuer[p].started
  /\ Room
  /\ EnqueueCheck(p, queuer[p].spec)
  /\ UNCHANGED <<probe, env, queuer, late, checks, queued, rc, faults, streak>>

\* The interval is over while UpdateProbe writes the fields that the timer
\* reads: each of them is read before or after it is written.
TimerDuringUpdate ==
  LET old == queuer[rc.probe].spec IN
  /\ rc.pc = "monitor"
  /\ queuer[rc.probe].started
  /\ Room
  /\ \E a \in {old.address, rc.spec.address}, b \in {old.path, rc.spec.path} :
       EnqueueCheck(rc.probe, [address |-> a, path |-> b])
  /\ SetQueuer
  /\ Done
  /\ UNCHANGED <<probe, env, checks, queued, faults, streak>>

\* The goroutine of a stopped queuer: when its timer and the cancellation are
\* both there, select takes either; the next round takes the cancellation.
LateTimer(r) ==
  /\ r \in late
  /\ late' = late \ {r}
  /\ \/ Room /\ queue' = Append(queue, r)
     \/ UNCHANGED queue
  /\ UNCHANGED <<probe, env, queuer, checks, queued, rc, faults, streak>>

\* The throttle is over: the worker takes the first request and starts a
\* goroutine for it.
Process ==
  /\ queue # <<>>
  /\ \E s \in Slots :
       /\ checks[s].phase = "free"
       /\ \A t \in 1..(s - 1) : checks[t].phase # "free"
       /\ checks' = [checks EXCEPT ![s] =
                       [FreeCheck(Head(queue)) EXCEPT !.phase = "request"]]
  /\ queue' = Tail(queue)
  /\ UNCHANGED <<probe, env, queuer, late, queued, rc, faults, streak>>

\* performRequest returns: the answer is an expected one, or it is not, or the
\* request failed.
PerformRequest(s) ==
  /\ checks[s].phase = "request"
  /\ checks' = [checks EXCEPT ![s] =
       [checks[s] EXCEPT !.phase = "report", !.healthy = checks[s].req.spec \in up]]
  /\ UNCHANGED <<probe, env, monitor, queued, rc, faults, streak>>

\* The check ends with nothing to do again.
Drop(s) == checks' = [checks EXCEPT ![s] = FreeCheck(AnyRequest)]

\* Notify reads the object.
NotifyGet(s) ==
  LET p == checks[s].req.probe IN
  /\ checks[s].phase = "report"
  /\ IF Exists(p)
     THEN checks' = [checks EXCEPT ![s] =
            [checks[s] EXCEPT !.phase = "update", !.seen = probe[p].status]]
     ELSE Drop(s)
  /\ UNCHANGED <<probe, env, monitor, queued, rc, faults, streak>>

\* Mutant of Reported: a healthy result takes one failure back.
ReportedDecay(seen, healthy) ==
  [healthy |-> IF healthy THEN "true" ELSE "false",
   failures |-> IF healthy THEN seen.failures - 1 ELSE AddFailure(seen.failures)]

\* The status Notify writes, from the one it has read.
Reported(seen, healthy) ==
  [healthy |-> IF healthy THEN "true" ELSE "false",
   failures |-> IF healthy THEN 0
                ELSE IF seen.healthy = "false" THEN AddFailure(seen.failures)
                ELSE 1]

\* Mutant of Refused: the write goes through whatever was written since.
NeverRefused(s) == FALSE

\* The API server answers Conflict.
Refused(s) == checks[s].stale

\* Notify writes the status.  After a conflict the request is queued again.
NotifyUpdate(s) ==
  LET k == checks[s]
      p == k.req.probe IN
  /\ k.phase = "update"
  /\ \/ /\ ~Exists(p)
        /\ Drop(s)
        /\ UNCHANGED <<probe, queue, queued, rc, streak>>
     \/ /\ Exists(p) /\ Refused(s)
        /\ Drop(s)
        /\ queue' = Append(queue, k.req)
        /\ UNCHANGED <<probe, queued, rc, streak>>
     \/ /\ Exists(p) /\ ~Refused(s)
        /\ Store(p, [probe[p] EXCEPT !.status = Reported(k.seen, k.healthy)])
        /\ checks' = Overtaken(p, [checks EXCEPT ![s] = FreeCheck(AnyRequest)])
        /\ rc' = Outdated(p)
        /\ streak' = [streak EXCEPT ![p] = IF k.healthy THEN 0 ELSE AddFailure(@)]
        /\ UNCHANGED queue
  /\ UNCHANGED <<env, queuer, late, faults>>

\* A call of Notify fails otherwise: the result is lost.
NotifyError(s) ==
  /\ checks[s].phase \in {"report", "update"}
  /\ Fault("notify")
  /\ Drop(s)
  /\ UNCHANGED <<probe, env, monitor, queued, rc, streak>>

-----------------------------------------------------------------------------
(* The world outside: the users and the DNSPolicy controller, which create, *)
(* change and delete probes, the endpoints, and the process itself.         *)

Edit(kind) ==
  /\ kind \in EditKinds
  /\ edits < MaxEdits
  /\ edits' = edits + 1

\* Somebody else writes or removes the object.
Change(p, r) ==
  /\ Store(p, r)
  /\ checks' = Overtaken(p, checks)
  /\ rc' = Outdated(p)

CreateProbe(p, t) ==
  /\ Edit("create")
  /\ ~Exists(p)
  /\ Change(p, [NoProbe EXCEPT !.phase = "live", !.spec = t])
  /\ UNCHANGED <<headers, up, monitor, faults, streak>>

EditProbe(p, t) ==
  /\ Edit("edit")
  /\ probe[p].phase = "live"
  /\ t # probe[p].spec
  /\ Change(p, [probe[p] EXCEPT !.spec = t])
  /\ UNCHANGED <<headers, up, monitor, faults, streak>>

DeleteProbe(p) ==
  /\ Edit("delete")
  /\ probe[p].phase = "live"
  /\ IF probe[p].finalizer
     THEN /\ Change(p, [probe[p] EXCEPT !.phase = "deleting"])
          /\ UNCHANGED streak
     ELSE /\ Change(p, NoProbe)
          /\ streak' = [streak EXCEPT ![p] = 0]
  /\ UNCHANGED <<headers, up, monitor, faults>>

\* The headers secret of p appears or goes: no watch of this controller.
ChangeHeaders(p) ==
  /\ Edit("headers")
  /\ headers' = IF p \in headers THEN headers \ {p} ELSE headers \cup {p}
  /\ UNCHANGED <<probe, up, monitor, checks, queued, rc, faults, streak>>

Outage(t) ==
  /\ Edit("outage")
  /\ up' = IF t \in up THEN up \ {t} ELSE up \cup {t}
  /\ UNCHANGED <<probe, headers, monitor, checks, queued, rc, faults, streak>>

\* The process restarts: the first list queues every probe.
Restart ==
  /\ Fault("restart")
  /\ queuer' = [p \in Probes |-> Stopped]
  /\ late' = {}
  /\ queue' = <<>>
  /\ checks' = [s \in Slots |-> FreeCheck(AnyRequest)]
  /\ Done
  /\ queued' = {p \in Probes : Exists(p)}
  /\ UNCHANGED <<probe, env, streak>>

-----------------------------------------------------------------------------

Begin(p) == ReconcileGone(p) \/ ReconcileDeleting(p) \/ ReconcileLive(p)

Continue ==
  \/ RemoveFinalizer \/ AddFinalizer \/ GetHeaders \/ HeadersInvalid \/ Monitor
  \/ TimerDuringUpdate

Advance(s) == PerformRequest(s) \/ NotifyGet(s) \/ NotifyUpdate(s)

Faulty ==
  \/ \E p \in Probes : GetError(p)
  \/ HeadersError \/ NotifierError \/ Restart
  \/ \E s \in Slots : NotifyError(s)

Outside ==
  \/ \E p \in Probes, t \in Target : CreateProbe(p, t) \/ EditProbe(p, t)
  \/ \E p \in Probes : DeleteProbe(p) \/ ChangeHeaders(p)
  \/ \E t \in Target : Outage(t)

Next ==
  \/ \E p \in Probes : Begin(p) \/ Timer(p)
  \/ Continue
  \/ \E r \in Request : LateTimer(r)
  \/ Process
  \/ \E s \in Slots : Advance(s)
  \/ Faulty
  \/ Outside

Spec == Init /\ [][Next]_vars

\* Every goroutine goes on, and a request to an endpoint ends; nobody outside
\* has to do anything.
Fairness ==
  /\ \A p \in Probes : WF_vars(Begin(p)) /\ WF_vars(Timer(p))
  /\ WF_vars(Continue)
  /\ \A r \in Request : WF_vars(LateTimer(r))
  /\ WF_vars(Process)
  /\ \A s \in Slots : WF_vars(Advance(s))

FairSpec == Spec /\ Fairness

-----------------------------------------------------------------------------
(* Properties *)

\* A queuer runs only while its probe object exists and carries the finalizer:
\* whatever the order of creation, deletion, conflicts and retries, no checks
\* are scheduled for good on behalf of a probe that is gone (Reconcile adds the
\* finalizer before AddProbeQueuer, and RemoveProbe comes before its removal).
QueuersHeldByFinalizer ==
  \A p \in Probes : queuer[p].started => Exists(p) /\ probe[p].finalizer

\* ConsecutiveFailures is the number of unhealthy results reported in a row,
\* although any number of checks of one probe, and the reconciler, read and
\* write the status at the same time (StatusUpdateProbeNotifier.Notify).
FailuresCounted == \A p \in Probes : probe[p].status.failures = streak[p]

\* When the controller has nothing left to do for a probe, its queuer runs and
\* has the spec of the object, and the probe is not waiting for its deletion:
\* no event that Reconcile depends on gets lost.
QuiescentMeansMonitored ==
  \A p \in Probes :
    p \notin queued /\ rc.pc = "idle" /\ Exists(p) /\ "get" \notin faults
      => /\ probe[p].phase = "live"
         /\ queuer[p] = [started |-> TRUE, spec |-> probe[p].spec]

\* Once the world outside is still, the status of every probe with readable
\* headers ends up telling the health of the endpoint that its spec names, and
\* stays so: results of older specs, of torn requests and of stopped queuers
\* may be reported late, but not for ever (process, Notify).
HealthConverges ==
  <>[](\A p \in Probes :
         probe[p].phase = "live" /\ p \in headers /\ "get" \notin faults =>
           probe[p].status.healthy =
             IF probe[p].spec \in up THEN "true" ELSE "false")

\* Some request of p is queued or being carried out, or may be queued yet.
Checking(p) ==
  \/ \E r \in late : r.probe = p
  \/ \E i \in 1..Len(queue) : queue[i].probe = p
  \/ \E s \in Slots : checks[s].phase # "free" /\ checks[s].req.probe = p

\* A probe that is deleted goes away, its finalizer included, and the requests
\* made for it come to an end (RemoveProbe, Notify), unless it is created again.
DeletedFallsSilent ==
  \A p \in Probes :
    probe[p].phase = "deleting" ~>
      (~Exists(p) /\ ~Checking(p)) \/ probe[p].phase = "live" \/ "get" \in faults

\* "The HealthMonitor ensures that each DNSHealthCheckProbe CR has a matching
\* probeQueuer object running" (docs/proposals, on executing the probes).
EveryProbeMonitored ==
  \A p \in Probes :
    probe[p].phase = "live" ~> queuer[p].started \/ probe[p].phase # "live"

=============================================================================
