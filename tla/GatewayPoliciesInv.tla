------------------------- MODULE GatewayPoliciesInv -------------------------
(***************************************************************************)
(* The inductive invariant of GatewayPolicies, for every set of gateways,  *)
(* policies and listeners: what each of the two workers knows while the    *)
(* other one, the users and the failures go on, and that every step keeps  *)
(* it.                                                                     *)
(***************************************************************************)
EXTENDS GatewayPolicies, TLAPS

\* A leaf goes to Zenon, then to SMT, unless it names its prover.
USE Zenon, SMTT(30)

-----------------------------------------------------------------------------
(* The inductive invariant *)

Failures == {"none", "Invalid", "Conflicted", "Unknown", "Failed"}
AllReasons == Failures \cup {"Accepted"}

\* The back references: each annotation names a policy of its kind.
Backs == {f \in [Kinds -> Policies \cup {"none"}] : \A k \in Kinds : f[k] # "none" => Kind(f[k]) = k}

\* The places of the loop over the listeners.
Places == 1..(Len(Listeners) + 1)

GatewayObject ==
  [exists : BOOLEAN, ready : BOOLEAN, late : BOOLEAN, raced : BOOLEAN, listeners : SUBSET ListenerSet,
   routes : SUBSET ListenerSet, back : Backs, refs : SUBSET Policies,
   cond : [Kinds -> [policy : Policies \cup {"none"}, reason : AllReasons]]]

PolicyObject ==
  [phase : {"absent", "live", "deleting"}, finalizer : BOOLEAN, target : Gateways \cup {"none"},
   valid : BOOLEAN, health : BOOLEAN, ready : AllReasons \cup {"ok"}, ghost : BOOLEAN]

\* The copies of gateways a worker may hold.
Copies == UNION {[S -> GatewayObject] : S \in SUBSET Gateways}

Reconciling ==
  [pc : Stages, p : Policies \cup {"none"}, mode : {"none", "apply", "delete", "cleanup"},
   copy : PolicyObject, target : Gateways \cup {"none"}, back : Policies \cup {"none"},
   tfresh : BOOLEAN, pfresh : BOOLEAN, gws : Copies,
   inv : SUBSET Gateways, own : SUBSET Gateways, fresh : SUBSET Gateways, i : Places, err : Failures]

Resource ==
  [policy : Policies \cup {"none"}, by : Policies \cup {"none"}, hosts : SUBSET (ListenerSet \cup Secrets), attrs : Int]

Typed ==
  /\ gw \in [Gateways -> GatewayObject]
  /\ pol \in [Policies -> PolicyObject]
  /\ rc \in [Kinds -> Reconciling]
  /\ res \in [Gateways -> [ListenerSet \cup Secrets -> Resource]]
  /\ probes \in [Gateways -> [ListenerSet -> DNSPolicies \cup {"none"}]]
  /\ attrs \in [Gateways -> Int]

\* A gateway that is gone has no marks; only a policy that is there has a finalizer, a deleted one always.
ObjectInv ==
  /\ \A g \in Gateways : ~gw[g].exists => gw[g].refs = {}
  /\ \A p \in Policies :
       /\ pol[p].phase = "absent" => ~pol[p].finalizer
       /\ pol[p].phase = "deleting" => pol[p].finalizer
       /\ pol[p].phase # "absent" => pol[p].target \in Gateways

\* The stages a reconcile passes between the diff and the references.
Listed == {"delete", "listeners", "probes", "claim", "rediff", "refs"}

\* What a worker knows of its policy: an added finalizer stays while it works, and so does a deletion.
PolicyHeld(k) ==
  LET R == rc[k]
  IN R.pc # "idle" =>
       /\ R.p \in Policies /\ Kind(R.p) = k
       /\ R.mode = "apply" => R.target \in Gateways
       /\ R.mode = "cleanup" => R.target = "none"
       /\ R.mode = "delete" => pol[R.p].phase = "deleting"
       /\ R.mode = "apply" /\ R.pc # "finalizer" /\ ~pol[R.p].ghost => pol[R.p].finalizer
       /\ R.pc = "finalizer" => R.mode = "apply"
       /\ R.pc = "finalizer" /\ R.pfresh => pol[R.p].phase = "live"
       /\ R.pc = "remove" => R.mode = "delete"
       /\ R.pc = "rediff" => R.mode # "apply"
       /\ R.mode \in {"apply", "delete", "cleanup"}

\* What a worker knows of its copies of the gateways: those that can be written are current.
CopiesCurrent(k) ==
  LET R == rc[k]
  IN /\ DOMAIN R.gws = R.own \cup R.inv
     /\ R.fresh \subseteq R.own \cup R.inv
     /\ \A g \in R.fresh : gw[g] = R.gws[g] /\ gw[g].exists
     /\ R.own \subseteq {R.target}
     /\ R.mode # "apply" => R.own = {}
     /\ R.own \cap R.inv = {}
     /\ R.tfresh /\ R.target # "none" => gw[R.target].back[k] = R.back

\* What a worker knows of its claim: it lasts as long as the gateway does, and the references come after it.
ClaimHeld(k) ==
  LET R == rc[k]
  IN R.pc # "idle" /\ R.mode = "apply" =>
       /\ R.back = R.p /\ gw[R.target].exists /\ ~gw[R.target].late => gw[R.target].back[k] = R.p
       /\ R.pc = "refs" \/ (R.pc = "condition" /\ R.err = "none") => R.back = R.p
       /\ R.pc = "condition" /\ R.err = "none" => \A g \in R.own : R.p \in R.gws[g].refs

\* What the worker of a deletion knows of the references: those to its policy are among its copies.
RefsListed(k) ==
  LET R == rc[k]
  IN R.mode # "apply" =>
       /\ R.pc \in Listed \cup {"condition", "remove"} =>
            \A g \in Gateways : R.p \in gw[g].refs => g \in R.inv /\ R.p \in R.gws[g].refs
       /\ R.pc \in {"condition", "remove"} => \A g \in R.inv : R.p \notin R.gws[g].refs

\* What a worker has deleted when it comes to the references: all its policy has on the gateways to leave.
Released(k) ==
  LET R == rc[k]
  IN /\ R.pc \in {"listeners", "probes", "claim", "rediff", "refs"} =>
          \A g \in R.inv, n \in ListenerSet \cup Secrets : res[g][n].policy # R.p
     /\ k = "dns" /\ R.pc \in {"claim", "rediff", "refs"} =>
          \A g \in R.inv, l \in ListenerSet : probes[g][l] # R.p

WorkerInv(k) == PolicyHeld(k) /\ CopiesCurrent(k) /\ ClaimHeld(k) /\ RefsListed(k) /\ Released(k)

Inv == Typed /\ ObjectInv /\ (\A k \in Kinds : WorkerInv(k)) /\ RefsHeldByClaim

-----------------------------------------------------------------------------
(* What a step of others looks like to the worker of k *)

\* The worker's own fields stay, its copies may become stale, and those that do not are of objects that did
\* not change; gateways keep the marks of kind k or lose all marks; the policy keeps its finalizer.
Elsewhere(k) ==
  LET R == rc[k]
      S == rc'[k]
  IN /\ S.pc = R.pc /\ S.p = R.p /\ S.mode = R.mode /\ S.target = R.target /\ S.back = R.back
     /\ S.gws = R.gws /\ S.inv = R.inv /\ S.own = R.own /\ S.err = R.err
     /\ S.fresh \subseteq R.fresh /\ (S.tfresh => R.tfresh) /\ (S.pfresh => R.pfresh)
     /\ \A g \in S.fresh : gw'[g] = gw[g]
     /\ S.tfresh /\ R.target # "none" => gw'[R.target].back[k] = gw[R.target].back[k]
     /\ \A g \in Gateways :
          \/ /\ gw'[g].back[k] = gw[g].back[k]
             /\ gw'[g].exists = gw[g].exists
             /\ gw'[g].late = gw[g].late
             /\ \A q \in Policies : Kind(q) = k /\ q \in gw'[g].refs => q \in gw[g].refs
          \/ gw'[g].refs = {} /\ (gw'[g].exists => gw'[g].late)
     /\ \A q \in Policies :
          Kind(q) = k =>
            /\ pol[q].finalizer => pol'[q].finalizer
            /\ pol[q].phase = "deleting" => pol'[q].phase = "deleting"
            /\ pol[q].ghost => pol'[q].ghost
            /\ R.p = q /\ S.pfresh => pol'[q].phase = pol[q].phase
            /\ \A g \in Gateways :
                 /\ \A n \in ListenerSet \cup Secrets : res'[g][n].policy = q => res[g][n].policy = q
                 /\ \A l \in ListenerSet : probes'[g][l] = q => probes[g][l] = q

\* A step of others keeps what a worker knows.
LEMMA Undisturbed ==
  ASSUME Typed, Typed', NEW k \in Kinds, WorkerInv(k), Elsewhere(k)
  PROVE  WorkerInv(k)'
<1> DEFINE R == rc[k]
           S == rc'[k]
<1>1. /\ R.inv \subseteq Gateways /\ R.own \subseteq Gateways /\ R.fresh \subseteq Gateways
      /\ R.target \in Gateways \cup {"none"}
      /\ R.tfresh \in BOOLEAN /\ R.pfresh \in BOOLEAN /\ S.tfresh \in BOOLEAN /\ S.pfresh \in BOOLEAN
  BY DEF Typed, Reconciling
<1>2. /\ S.pc = R.pc /\ S.p = R.p /\ S.mode = R.mode /\ S.target = R.target /\ S.back = R.back
      /\ S.gws = R.gws /\ S.inv = R.inv /\ S.own = R.own /\ S.err = R.err
      /\ S.fresh \subseteq R.fresh /\ (S.tfresh => R.tfresh) /\ (S.pfresh => R.pfresh)
  BY DEF Elsewhere
<1>p. R.pc # "idle" => R.p \in Policies /\ Kind(R.p) = k
  BY DEF WorkerInv, PolicyHeld
<1>3. PolicyHeld(k)'
  <2>1. R.pc # "idle" =>
          /\ pol[R.p].finalizer => pol'[R.p].finalizer
          /\ pol[R.p].phase = "deleting" => pol'[R.p].phase = "deleting"
          /\ pol[R.p].ghost => pol'[R.p].ghost
          /\ S.pfresh => pol'[R.p].phase = pol[R.p].phase
    BY <1>p DEF Elsewhere
  <2> QED
    BY <1>2, <2>1, SMTT(30) DEF WorkerInv, PolicyHeld
<1>4. CopiesCurrent(k)'
  <2>1. /\ \A g \in S.fresh : gw'[g] = gw[g]
        /\ S.tfresh /\ R.target # "none" => gw'[R.target].back[k] = gw[R.target].back[k]
    BY DEF Elsewhere
  <2>2. \A g \in S.fresh : gw'[g] = S.gws[g] /\ gw'[g].exists
    <3>1. \A g \in R.fresh : gw[g] = R.gws[g] /\ gw[g].exists
      BY DEF WorkerInv, CopiesCurrent
    <3> QED
      BY <1>2, <2>1, <3>1, SMTT(30)
  <2>3. S.tfresh /\ S.target # "none" => gw'[S.target].back[k] = S.back
    BY <1>2, <2>1 DEF WorkerInv, CopiesCurrent
  <2>4. /\ DOMAIN S.gws = S.own \cup S.inv /\ S.fresh \subseteq S.own \cup S.inv /\ S.own \subseteq {S.target}
        /\ (S.mode # "apply" => S.own = {}) /\ S.own \cap S.inv = {}
    BY <1>2 DEF WorkerInv, CopiesCurrent
  <2> QED
    BY <2>2, <2>3, <2>4 DEF CopiesCurrent
<1>5. ClaimHeld(k)'
  <2>1. SUFFICES ASSUME R.pc # "idle", R.mode = "apply"
                 PROVE  ClaimHeld(k)'
    BY <1>2 DEF ClaimHeld
  <2>2. R.target \in Gateways
    BY <2>1 DEF WorkerInv, PolicyHeld
  <2>3. gw'[R.target].exists /\ ~gw'[R.target].late => gw[R.target].exists /\ ~gw[R.target].late
                                                    /\ gw'[R.target].back[k] = gw[R.target].back[k]
    BY <2>2 DEF Elsewhere
  <2> QED
    BY <1>2, <2>1, <2>3, SMTT(30) DEF WorkerInv, ClaimHeld
<1>6. RefsListed(k)'
  <2>1. SUFFICES ASSUME R.mode # "apply"
                 PROVE  RefsListed(k)'
    BY <1>2 DEF RefsListed
  <2>3. ASSUME NEW g \in Gateways, R.pc # "idle", R.p \in gw'[g].refs
        PROVE  R.p \in gw[g].refs
    BY <1>p, <2>3 DEF Elsewhere
  <2> QED
    BY <1>2, <2>1, <2>3, SMTT(30) DEF RefsListed, WorkerInv, Listed
<1>7. Released(k)'
  <2>1. ASSUME R.pc # "idle", NEW g \in R.inv
        PROVE  /\ \A n \in ListenerSet \cup Secrets : res'[g][n].policy = R.p => res[g][n].policy = R.p
               /\ \A l \in ListenerSet : probes'[g][l] = R.p => probes[g][l] = R.p
    <3>1. \A q \in Policies :
            Kind(q) = k => \A h \in Gateways :
              /\ \A n \in ListenerSet \cup Secrets : res'[h][n].policy = q => res[h][n].policy = q
              /\ \A l \in ListenerSet : probes'[h][l] = q => probes[h][l] = q
      BY DEF Elsewhere
    <3> QED
      BY <1>1, <1>p, <2>1, <3>1, SMTT(30)
  <2> QED
    BY <1>2, <2>1, SMTT(30) DEF WorkerInv, Released
<1> QED
  BY <1>3, <1>4, <1>5, <1>6, <1>7 DEF WorkerInv

\* A step that touches neither a worker nor anything it knows about.
LEMMA SameWorker ==
  ASSUME NEW k \in Kinds, WorkerInv(k), rc'[k] = rc[k], UNCHANGED <<gw, pol, res, probes>>
  PROVE  WorkerInv(k)'
<1>1. PolicyHeld(k)'
  BY DEF WorkerInv, PolicyHeld
<1>2. CopiesCurrent(k)'
  BY SMTT(30) DEF WorkerInv, CopiesCurrent
<1>3. ClaimHeld(k)'
  BY DEF WorkerInv, ClaimHeld
<1>4. RefsListed(k)'
  BY DEF WorkerInv, RefsListed
<1>5. Released(k)'
  BY DEF WorkerInv, Released
<1> QED
  BY <1>1, <1>2, <1>3, <1>4, <1>5 DEF WorkerInv

\* A step that moves a worker on without touching its copies or the gateways.
LEMMA SameCopies ==
  ASSUME NEW k \in Kinds, CopiesCurrent(k), gw' = gw,
         rc'[k].mode = rc[k].mode, rc'[k].target = rc[k].target, rc'[k].back = rc[k].back,
         rc'[k].gws = rc[k].gws, rc'[k].inv = rc[k].inv, rc'[k].own = rc[k].own,
         rc'[k].fresh = rc[k].fresh, rc'[k].tfresh = rc[k].tfresh
  PROVE  CopiesCurrent(k)'
BY SMTT(30) DEF CopiesCurrent

-----------------------------------------------------------------------------
(* Types *)

\* A worker whose stage and error are set.
StageErr(R, c, e) ==
  [R EXCEPT !.pc = c, !.err = e]

\* What it keeps.
LEMMA StageErrFields ==
  ASSUME NEW R \in Reconciling, NEW c \in Stages, NEW e \in Failures, NEW S, S = StageErr(R, c, e)
  PROVE  /\ S \in Reconciling
         /\ S.pc = c /\ S.p = R.p /\ S.mode = R.mode /\ S.target = R.target /\ S.back = R.back
         /\ S.gws = R.gws /\ S.inv = R.inv /\ S.own = R.own /\ S.err = e
         /\ S.fresh = R.fresh /\ S.tfresh = R.tfresh /\ S.pfresh = R.pfresh /\ S.copy = R.copy /\ S.i = R.i
<1>1. S \in Reconciling
  BY DEF Reconciling, StageErr
<1>2. /\ S.pc = c /\ S.p = R.p /\ S.mode = R.mode /\ S.target = R.target /\ S.back = R.back
      /\ S.gws = R.gws /\ S.inv = R.inv /\ S.own = R.own /\ S.err = e
      /\ S.fresh = R.fresh /\ S.tfresh = R.tfresh /\ S.pfresh = R.pfresh /\ S.copy = R.copy /\ S.i = R.i
  BY DEF Reconciling, StageErr
<1> QED
  BY <1>1, <1>2

\* A worker that has listed gateways.
Listing(R, f, fr, own, inv, c) ==
  [R EXCEPT !.gws = f, !.fresh = fr, !.own = own, !.inv = inv, !.pc = c]

\* What it keeps.
LEMMA ListFields ==
  ASSUME NEW R \in Reconciling, NEW c \in Stages, NEW f \in Copies, NEW own \in SUBSET Gateways,
         NEW inv \in SUBSET Gateways, NEW fr \in SUBSET Gateways, NEW S,
         S = Listing(R, f, fr, own, inv, c)
  PROVE  /\ S \in Reconciling
         /\ S.pc = c /\ S.p = R.p /\ S.mode = R.mode /\ S.target = R.target /\ S.back = R.back
         /\ S.gws = f /\ S.inv = inv /\ S.own = own /\ S.err = R.err
         /\ S.fresh = fr /\ S.tfresh = R.tfresh /\ S.pfresh = R.pfresh /\ S.copy = R.copy /\ S.i = R.i
<1>1. S \in Reconciling
  BY DEF Reconciling, Listing
<1>2. /\ S.pc = c /\ S.p = R.p /\ S.mode = R.mode /\ S.target = R.target /\ S.back = R.back
      /\ S.gws = f /\ S.inv = inv /\ S.own = own /\ S.err = R.err
      /\ S.fresh = fr /\ S.tfresh = R.tfresh /\ S.pfresh = R.pfresh /\ S.copy = R.copy /\ S.i = R.i
  BY DEF Reconciling, Listing
<1> QED
  BY <1>1, <1>2

\* A worker that sets out, and the values it may set out with.
Begun(p, o, t, m, c, b) ==
  [Idle EXCEPT !.p = p, !.copy = o, !.target = t, !.mode = m, !.pc = c, !.back = b, !.tfresh = TRUE, !.pfresh = TRUE]

MayBegin(p, o, t, m, c, b) ==
  /\ p \in Policies /\ o \in PolicyObject /\ t \in Gateways \cup {"none"}
  /\ m \in {"apply", "delete", "cleanup"} /\ c \in Stages /\ b \in Policies \cup {"none"}

\* What it starts from.
HasBegun(S, p, o, t, m, c, b) ==
  /\ S \in Reconciling
  /\ S.pc = c /\ S.p = p /\ S.mode = m /\ S.target = t /\ S.back = b /\ S.gws = <<>>
  /\ S.inv = {} /\ S.own = {} /\ S.fresh = {} /\ S.tfresh = TRUE /\ S.pfresh = TRUE
  /\ S.copy = o /\ S.i = 1 /\ S.err = "none"

\* Policies are of one of the two kinds, and "none" is neither a policy nor a gateway.
LEMMA KindOfPolicy ==
  /\ \A p \in Policies : Kind(p) \in Kinds
  /\ "none" \notin Policies
  /\ "none" \notin Gateways
BY PolicyConstants DEF Policies, Kind, Kinds

\* Copies of gateways: what they are, how they are made and how one of them is replaced.
LEMMA CopiesFacts ==
  /\ \A f \in Copies : DOMAIN f \subseteq Gateways /\ \A g \in DOMAIN f : f[g] \in GatewayObject
  /\ \A f \in Copies, r \in GatewayObject : \A g \in DOMAIN f :
       /\ [f EXCEPT ![g] = r] \in Copies
       /\ DOMAIN [f EXCEPT ![g] = r] = DOMAIN f
  /\ <<>> \in Copies
<1>1. ASSUME NEW f \in Copies
      PROVE  \E S \in SUBSET Gateways : f \in [S -> GatewayObject]
  BY DEF Copies
<1>2. ASSUME NEW S \in SUBSET Gateways, NEW f \in [S -> GatewayObject]
      PROVE  f \in Copies
  BY DEF Copies
<1>3. ASSUME NEW f \in Copies
      PROVE  DOMAIN f \subseteq Gateways /\ \A g \in DOMAIN f : f[g] \in GatewayObject
  BY <1>1
<1>4. ASSUME NEW f \in Copies, NEW r \in GatewayObject, NEW g \in DOMAIN f
      PROVE  [f EXCEPT ![g] = r] \in Copies /\ DOMAIN [f EXCEPT ![g] = r] = DOMAIN f
  <2>1. PICK S \in SUBSET Gateways : f \in [S -> GatewayObject]
    BY <1>1
  <2>2. [f EXCEPT ![g] = r] \in [S -> GatewayObject]
    BY <2>1
  <2> QED
    BY <1>2, <2>1, <2>2
<1>5. <<>> \in Copies
  <2>1. <<>> \in [{} -> GatewayObject]
    BY SMTT(30)
  <2> QED
    BY <1>2, <2>1
<1> QED
  BY <1>3, <1>4, <1>5

\* The copies a diff makes are copies.
LEMMA CopiesMade ==
  ASSUME gw \in [Gateways -> GatewayObject], NEW S \in SUBSET Gateways
  PROVE  [g \in S |-> gw[g]] \in Copies /\ DOMAIN [g \in S |-> gw[g]] = S
<1>1. [g \in S |-> gw[g]] \in [S -> GatewayObject]
  OBVIOUS
<1> QED
  BY <1>1 DEF Copies

\* The records the workers and the objects start from have their types.
LEMMA ConstantTypes ==
  /\ Absent \in PolicyObject
  /\ \A g \in Gateways : Created(g) \in PolicyObject
  /\ NoResource \in Resource
  /\ Idle \in Reconciling
  /\ \A R \in SUBSET ListenerSet : NewGateway(R) \in GatewayObject
<1>1. Absent \in PolicyObject
  BY DEF Absent, PolicyObject, AllReasons, Failures
<1>2. \A g \in Gateways : Created(g) \in PolicyObject
  BY DEF Created, Absent, PolicyObject, AllReasons, Failures
<1>3. NoResource \in Resource
  BY SMTT(30) DEF NoResource, Resource
<1>4. Idle \in Reconciling
  <2>1. 1 \in Places
    BY PolicyConstants, SMTT(30) DEF Places
  <2> QED
    BY <1>1, <2>1, CopiesFacts DEF Idle, Reconciling, Stages, AllReasons, Failures
<1>5. \A R \in SUBSET ListenerSet : NewGateway(R) \in GatewayObject
  <2>1. [k \in Kinds |-> "none"] \in Backs
    BY DEF Backs
  <2> QED
    BY <2>1 DEF NewGateway, GatewayObject, NoCondition, AllReasons, Failures
<1> QED
  BY <1>1, <1>2, <1>3, <1>4, <1>5

-----------------------------------------------------------------------------
(* A step of one worker *)

\* A worker that has returned knows nothing.
LEMMA IdleKnowsNothing ==
  ASSUME NEW k \in Kinds, rc'[k] = Idle
  PROVE  WorkerInv(k)'
<1>1. /\ rc'[k].pc = "idle" /\ rc'[k].own = {} /\ rc'[k].inv = {} /\ rc'[k].fresh = {}
      /\ rc'[k].gws = <<>> /\ rc'[k].target = "none" /\ rc'[k].tfresh = FALSE
  BY SMTT(30) DEF Idle
<1>2. DOMAIN rc'[k].gws = {}
  BY <1>1, SMTT(30)
<1> QED
  BY <1>1, <1>2 DEF WorkerInv, PolicyHeld, CopiesCurrent, ClaimHeld, RefsListed, Released, Listed

\* The worker of k alone moves on: gateways stay, policies of the other kind too, and no object gets a new
\* owner of the other kind.
LEMMA OwnStep ==
  ASSUME Inv, NEW k \in Kinds, rc' = [rc EXCEPT ![k] = rc'[k]], Typed', ObjectInv', WorkerInv(k)',
         RefsHeldByClaim', gw' = gw,
         \A q \in Policies : Kind(q) # k => pol'[q] = pol[q],
         \A g \in Gateways, n \in ListenerSet \cup Secrets, q \in Policies :
           Kind(q) # k /\ res'[g][n].policy = q => res[g][n].policy = q,
         \A g \in Gateways, l \in ListenerSet, q \in Policies :
           Kind(q) # k /\ probes'[g][l] = q => probes[g][l] = q
  PROVE  Inv'
<1>1. ASSUME NEW j \in Kinds, j # k
      PROVE  WorkerInv(j)'
  <2>1. rc'[j] = rc[j]
    BY <1>1 DEF Inv, Typed
  <2>2. rc[j].fresh \subseteq Gateways
    BY DEF Inv, Typed, Reconciling
  <2>3. Elsewhere(j)
    BY <1>1, <2>1, <2>2, SMTT(30) DEF Elsewhere, Inv
  <2> QED
    BY <2>3, Undisturbed DEF Inv
<1> QED
  BY <1>1 DEF Inv

\* The same for a step that leaves the policies and the owned objects alone.
LEMMA QuietStep ==
  ASSUME Inv, NEW k \in Kinds, NEW S \in Reconciling, rc' = [rc EXCEPT ![k] = S], WorkerInv(k)',
         UNCHANGED <<gw, pol, attrs, res, probes>>
  PROVE  Inv'
<1>1. Typed'
  BY DEF Inv, Typed
<1>2. ObjectInv' /\ RefsHeldByClaim'
  BY DEF Inv, ObjectInv, RefsHeldByClaim
<1>3. rc'[k] = S
  BY DEF Inv, Typed
<1> QED
  BY <1>1, <1>2, <1>3, OwnStep

\* A reconcile that ends keeps the invariant.
LEMMA ReturnKeeps ==
  ASSUME Inv, NEW k \in Kinds, rc' = [rc EXCEPT ![k] = Idle], UNCHANGED <<gw, pol, attrs, res, probes>>
  PROVE  Inv'
<1>1. rc'[k] = Idle
  BY DEF Inv, Typed
<1> QED
  BY <1>1, IdleKnowsNothing, QuietStep, ConstantTypes

\* What Goto leaves alone.
LEMMA GotoFields ==
  ASSUME Typed, NEW k \in Kinds, NEW pc \in Stages, Goto(k, pc)
  PROVE  LET R == rc[k]
             S == rc'[k]
         IN /\ S \in Reconciling /\ rc' = [rc EXCEPT ![k] = S]
            /\ S.pc = pc /\ S.p = R.p /\ S.mode = R.mode /\ S.target = R.target /\ S.back = R.back
            /\ S.gws = R.gws /\ S.inv = R.inv /\ S.own = R.own /\ S.err = R.err
            /\ S.fresh = R.fresh /\ S.tfresh = R.tfresh /\ S.pfresh = R.pfresh /\ S.copy = R.copy /\ S.i = R.i
<1>1. rc[k] \in Reconciling
  BY DEF Typed
<1>2. rc'[k] = [rc[k] EXCEPT !.pc = pc] /\ rc' = [rc EXCEPT ![k] = rc'[k]]
  BY DEF Typed, Goto
<1> QED
  BY <1>1, <1>2, SMTT(30) DEF Reconciling

\* A worker sets out with nothing listed.
LEMMA BegunFields ==
  ASSUME NEW p, NEW o, NEW t, NEW m, NEW c, NEW b, MayBegin(p, o, t, m, c, b)
  PROVE  HasBegun(Begun(p, o, t, m, c, b), p, o, t, m, c, b)
<1> DEFINE S == Begun(p, o, t, m, c, b)
<1>1. S \in Reconciling
  BY ConstantTypes DEF Reconciling, Begun, MayBegin
<1>2. /\ S.pc = c /\ S.p = p /\ S.mode = m /\ S.target = t /\ S.back = b /\ S.gws = <<>>
      /\ S.inv = {} /\ S.own = {} /\ S.fresh = {} /\ S.tfresh = TRUE /\ S.pfresh = TRUE
      /\ S.copy = o /\ S.i = 1 /\ S.err = "none"
  BY SMTT(30) DEF Reconciling, Begun, Idle
<1> QED
  BY <1>1, <1>2 DEF HasBegun

\* Going on to a stage without anything to know about it.
LEMMA AbortKeeps ==
  ASSUME Inv, NEW k \in Kinds, rc[k].pc # "idle", Abort(k), UNCHANGED <<gw, pol, attrs, res, probes>>
  PROVE  Inv'
<1> DEFINE R == rc[k]
           S == rc'[k]
<1>0. R \in Reconciling /\ WorkerInv(k)
  BY DEF Inv, Typed
<1>1. CASE rc' = [rc EXCEPT ![k] = Idle]
  BY <1>1, ReturnKeeps
<1>2. CASE /\ R.mode = "apply"
           /\ \/ R.pc \in DOMAIN Reasons /\ rc' = [rc EXCEPT ![k].pc = "condition", ![k].err = Reasons[R.pc]]
              \/ /\ R.pc \in {"diff", "condition"}
                 /\ rc' = [rc EXCEPT ![k].pc = "status", ![k].err = IF @ = "none" THEN "Failed" ELSE @]
  <2>1. PICK pc \in {"condition", "status"}, e \in Failures \ {"none"} :
          rc' = [rc EXCEPT ![k].pc = pc, ![k].err = e]
    <3>1. R.pc \in DOMAIN Reasons => Reasons[R.pc] \in Failures \ {"none"}
      BY SMTT(30) DEF Reasons, Failures
    <3>2. R.err # "none" => R.err \in Failures \ {"none"}
      BY <1>0 DEF Reconciling
    <3>3. "Failed" \in Failures \ {"none"}
      BY DEF Failures
    <3> QED
      BY <1>2, <3>1, <3>2, <3>3 DEF Inv, Typed
  <2>2. S = [R EXCEPT !.pc = pc, !.err = e] /\ rc' = [rc EXCEPT ![k] = S]
    BY <2>1 DEF Inv, Typed
  <2>3. /\ S \in Reconciling
        /\ S.pc = pc /\ S.p = R.p /\ S.mode = R.mode /\ S.target = R.target /\ S.back = R.back
        /\ S.gws = R.gws /\ S.inv = R.inv /\ S.own = R.own /\ S.err = e
        /\ S.fresh = R.fresh /\ S.tfresh = R.tfresh /\ S.pfresh = R.pfresh
    <3>1. pc \in Stages
      BY DEF Stages
    <3>2. S = StageErr(R, pc, e)
      BY <2>2 DEF StageErr
    <3> HIDE DEF R, S
    <3> QED
      BY <1>0, <3>1, <3>2, StageErrFields, SMTT(30)
  <2>4. R.pc # "finalizer" /\ R.mode = "apply"
    BY <1>2 DEF Reasons
  <2>5. WorkerInv(k)'
    <3>1. PolicyHeld(k)'
      BY <1>0, <2>3, <2>4 DEF WorkerInv, PolicyHeld
    <3>4. CopiesCurrent(k)'
      BY <1>0, <2>3, SameCopies DEF WorkerInv
    <3>2. ClaimHeld(k)'
      <4>1. ClaimHeld(k)
        BY <1>0 DEF WorkerInv
      <4> QED
        BY <2>3, <2>4, <4>1 DEF ClaimHeld
    <3>3. RefsListed(k)' /\ Released(k)'
      BY <2>3, <2>4 DEF RefsListed, Released
    <3> QED
      BY <3>1, <3>2, <3>3, <3>4 DEF WorkerInv
  <2> QED
    BY <2>2, <2>3, <2>5, QuietStep
<1> QED
  BY <1>1, <1>2 DEF Abort, Return

-----------------------------------------------------------------------------
(* From reading the policy to the diff *)

\* A reconcile sets out: with a target that exists, or without one.
LEMMA BeginKeeps ==
  ASSUME Inv, NEW k \in Kinds, NEW p \in Policies, Kind(p) = k, NEW t \in Gateways \cup {"none"},
         pol[p].phase # "absent", Begin(k, p, t), UNCHANGED <<gw, pol, attrs, res, probes>>
  PROVE  Inv'
<1> DEFINE S == rc'[k]
<1>1. pol[p] \in PolicyObject
  BY DEF Inv, Typed
<1>2. t # "none" => gw[t].back[k] \in Policies \cup {"none"}
  <2>1. \A g \in Gateways : gw[g].back \in Backs
    BY DEF Inv, Typed, GatewayObject
  <2> QED
    BY <2>1 DEF Backs
<1> DEFINE m == IF pol[p].phase = "deleting" THEN "delete" ELSE IF t = "none" THEN "cleanup" ELSE "apply"
           c == IF pol[p].phase = "live" /\ t # "none" /\ ~pol[p].finalizer THEN "finalizer" ELSE "diff"
           b == IF t = "none" THEN "none" ELSE gw[t].back[k]
<1>3. /\ rc' = [rc EXCEPT ![k] = S]
      /\ S = [Idle EXCEPT !.p = p, !.copy = pol[p], !.target = t, !.mode = m, !.pc = c, !.back = b,
                          !.tfresh = TRUE, !.pfresh = TRUE]
  BY <1>1 DEF Begin, Inv, Typed
<1>4. m \in {"apply", "delete", "cleanup"} /\ c \in Stages /\ b \in Policies \cup {"none"}
  BY <1>2 DEF Stages
<1>5. /\ S \in Reconciling
      /\ S.pc = c /\ S.p = p /\ S.mode = m /\ S.target = t /\ S.back = b /\ S.gws = <<>>
      /\ S.inv = {} /\ S.own = {} /\ S.fresh = {} /\ S.tfresh = TRUE /\ S.pfresh = TRUE
  <2> HIDE DEF m, c, b, S
  <2>1. S = Begun(p, pol[p], t, m, c, b)
    BY <1>3 DEF Begun
  <2>2. MayBegin(p, pol[p], t, m, c, b)
    BY <1>1, <1>4 DEF MayBegin
  <2>3. HasBegun(S, p, pol[p], t, m, c, b)
    BY <2>1, <2>2, BegunFields
  <2> QED
    BY <2>3 DEF HasBegun
<1>6. pol[p].phase \in {"live", "deleting"}
  BY <1>1 DEF PolicyObject
<1>7. PolicyHeld(k)'
  BY <1>1, <1>5, <1>6 DEF PolicyHeld
<1>8. CopiesCurrent(k)'
  BY <1>5, SMTT(30) DEF CopiesCurrent
<1>9. ClaimHeld(k)'
  BY <1>5, <1>6 DEF ClaimHeld
<1>10. RefsListed(k)' /\ Released(k)'
  BY <1>5 DEF RefsListed, Released, Listed
<1> QED
  BY <1>1, <1>3, <1>5, <1>7, <1>8, <1>9, <1>10, QuietStep, SMTT(30) DEF WorkerInv

\* A worker takes up a policy.
LEMMA StartKeeps ==
  ASSUME Inv, NEW k \in Kinds, NEW p \in Policies, Start(k, p)
  PROVE  Inv'
<1>1. Kind(p) = k /\ UNCHANGED <<gw, pol, attrs, res, probes>>
  BY DEF Start
<1>2. CASE UNCHANGED rc
  <2>1. rc' = [rc EXCEPT ![k] = rc[k]] /\ rc[k] \in Reconciling
    BY <1>2 DEF Inv, Typed
  <2>2. WorkerInv(k)'
    <3>1. WorkerInv(k)
      BY <2>1 DEF Inv
    <3> QED
      BY <1>1, <1>2, <3>1, SameWorker
  <2> QED
    BY <1>1, <2>1, <2>2, QuietStep
<1>3. CASE pol[p].phase # "absent" /\ Begin(k, p, pol[p].target)
  <2>1. pol[p].target \in Gateways
    BY <1>3 DEF Inv, ObjectInv
  <2> QED
    BY <1>1, <1>3, <2>1, BeginKeeps
<1>4. CASE pol[p].phase # "absent" /\ Begin(k, p, "none")
  BY <1>1, <1>4, BeginKeeps
<1> QED
  BY <1>2, <1>3, <1>4 DEF Start

\* A worker takes up a policy whose target it cannot read.
LEMMA TargetUnreadKeeps ==
  ASSUME Inv, NEW k \in Kinds, NEW p \in Policies, TargetUnread(k, p)
  PROVE  Inv'
BY BeginKeeps DEF TargetUnread

\* AddFinalizer: the policy that goes on has its finalizer, or is a ghost.
LEMMA AddFinalizerKeeps ==
  ASSUME Inv, NEW k \in Kinds, AddFinalizer(k)
  PROVE  Inv'
<1> DEFINE R == rc[k]
           p == rc[k].p
<1>1. /\ R.pc = "finalizer" /\ WorkerInv(k) /\ R \in Reconciling /\ p \in Policies /\ Kind(p) = k
      /\ pol[p] \in PolicyObject /\ R.mode = "apply"
      /\ UNCHANGED <<gw, attrs, res, probes>>
  <2>1. R.pc = "finalizer" /\ WorkerInv(k) /\ R \in Reconciling /\ UNCHANGED <<gw, attrs, res, probes>>
    BY DEF AddFinalizer, Inv, Typed
  <2>2. p \in Policies /\ Kind(p) = k /\ R.mode = "apply"
    BY <2>1 DEF WorkerInv, PolicyHeld
  <2> QED
    BY <2>1, <2>2 DEF Inv, Typed
<1>2. CASE Return(k, TRUE) /\ UNCHANGED pol
  BY <1>1, <1>2, ReturnKeeps DEF Return
<1>3. CASE /\ Goto(k, "diff")
           /\ \/ R.pfresh /\ pol' = [pol EXCEPT ![p].finalizer = TRUE]
              \/ pol[p].phase = "absent" /\ pol' = [pol EXCEPT ![p].ghost = TRUE]
  <2>1. /\ pol'[p] \in PolicyObject /\ pol' = [pol EXCEPT ![p] = pol'[p]]
        /\ pol'[p].phase = pol[p].phase /\ pol'[p].target = pol[p].target
        /\ \/ R.pfresh /\ pol'[p].finalizer = TRUE /\ pol'[p].ghost = pol[p].ghost
           \/ pol[p].phase = "absent" /\ pol'[p].finalizer = pol[p].finalizer /\ pol'[p].ghost = TRUE
    <3>1. \/ R.pfresh /\ pol'[p] = [pol[p] EXCEPT !.finalizer = TRUE]
          \/ pol[p].phase = "absent" /\ pol'[p] = [pol[p] EXCEPT !.ghost = TRUE]
      BY <1>1, <1>3 DEF Inv, Typed
    <3>2. pol' = [pol EXCEPT ![p] = pol'[p]]
      BY <1>1, <1>3 DEF Inv, Typed
    <3> QED
      BY <1>1, <3>1, <3>2 DEF PolicyObject
  <2>2. /\ \A q \in Policies : q # p => pol'[q] = pol[q]
        /\ pol' \in [Policies -> PolicyObject]
    BY <1>1, <2>1 DEF Inv, Typed
  <2>3. "diff" \in Stages
    BY DEF Stages
  <2>4. Typed'
    BY <1>1, <1>3, <2>2, <2>3, GotoFields DEF Inv, Typed
  <2>5. ObjectInv'
    <3>1. R.pfresh => pol[p].phase = "live"
      BY <1>1 DEF WorkerInv, PolicyHeld
    <3>2. ASSUME NEW q \in Policies
          PROVE  /\ pol'[q].phase = "absent" => ~pol'[q].finalizer
                 /\ pol'[q].phase = "deleting" => pol'[q].finalizer
                 /\ pol'[q].phase # "absent" => pol'[q].target \in Gateways
      <4>1. CASE q = p
        BY <2>1, <3>1, <4>1 DEF Inv, ObjectInv
      <4>2. CASE q # p
        BY <2>2, <4>2 DEF Inv, ObjectInv
      <4> QED
        BY <4>1, <4>2
    <3> QED
      BY <1>1, <3>2 DEF Inv, ObjectInv
  <2>6. RefsHeldByClaim'
    <3>1. \A h \in Gateways : gw[h].refs \subseteq Policies
      BY DEF Inv, Typed, GatewayObject
    <3>2. ASSUME NEW q \in Policies
          PROVE  /\ pol'[q].phase = pol[q].phase /\ (pol[q].finalizer => pol'[q].finalizer)
                 /\ (pol[q].ghost => pol'[q].ghost)
      BY <2>1, <2>2
    <3> QED
      BY <1>1, <3>1, <3>2, SMTT(30) DEF Inv, RefsHeldByClaim
  <2>7. WorkerInv(k)'
    <3> DEFINE S == rc'[k]
    <3>1. /\ S.pc = "diff" /\ S.p = R.p /\ S.mode = R.mode /\ S.target = R.target /\ S.back = R.back
          /\ S.gws = R.gws /\ S.inv = R.inv /\ S.own = R.own /\ S.fresh = R.fresh /\ S.tfresh = R.tfresh
      BY <1>3, <2>3, GotoFields, SMTT(30) DEF Inv
    <3>2. PolicyHeld(k)'
      BY <1>1, <2>1, <3>1 DEF WorkerInv, PolicyHeld
    <3>3. CopiesCurrent(k)'
      BY <1>1, <3>1, SameCopies DEF WorkerInv
    <3>4. ClaimHeld(k)'
      BY <1>1, <3>1 DEF WorkerInv, ClaimHeld
    <3>5. RefsListed(k)' /\ Released(k)'
      BY <1>1, <3>1 DEF RefsListed, Released
    <3> QED
      BY <3>2, <3>3, <3>4, <3>5 DEF WorkerInv
  <2> QED
    <3>1. rc' = [rc EXCEPT ![k] = rc'[k]]
      BY <1>3, <2>3, GotoFields DEF Inv
    <3>2. \A q \in Policies : Kind(q) # k => pol'[q] = pol[q]
      BY <1>1, <2>2
    <3> QED
      BY <1>1, <2>4, <2>5, <2>6, <2>7, <3>1, <3>2, OwnStep
<1> QED
  BY <1>1, <1>2, <1>3 DEF AddFinalizer

\* The diff: the references to the policy are on the gateways listed.
LEMMA ComputeGatewayDiffsKeeps ==
  ASSUME Inv, NEW k \in Kinds, ComputeGatewayDiffs(k)
  PROVE  Inv'
<1> DEFINE R == rc[k]
           S == rc'[k]
<1>1. /\ R.pc = "diff" /\ R \in Reconciling /\ WorkerInv(k)
      /\ UNCHANGED <<gw, pol, attrs, res, probes>>
  BY DEF ComputeGatewayDiffs, Inv, Typed
<1>2. CASE Abort(k)
  BY <1>1, <1>2, AbortKeeps
<1>3. CASE rc' = [rc EXCEPT ![k] = ListGateways(k, {g \in Gateways : R.mode = "apply" /\ g = R.target /\ gw[g].exists})]
  <2> DEFINE own == {g \in Gateways : R.mode = "apply" /\ g = R.target /\ gw[g].exists}
             inv == {g \in Gateways \ own : gw[g].exists /\ R.p \in gw[g].refs}
  <2>1. S = [R EXCEPT !.gws = [g \in own \cup inv |-> gw[g]], !.fresh = own \cup inv, !.own = own, !.inv = inv,
                      !.pc = "delete"]
    BY <1>3 DEF Inv, Typed, ListGateways
  <2>2. own \in SUBSET Gateways /\ inv \in SUBSET Gateways
    OBVIOUS
  <2>3. [g \in own \cup inv |-> gw[g]] \in Copies /\ DOMAIN [g \in own \cup inv |-> gw[g]] = own \cup inv
    BY <2>2, CopiesMade DEF Inv, Typed
  <2>4. /\ S \in Reconciling
        /\ S.pc = "delete" /\ S.p = R.p /\ S.mode = R.mode /\ S.target = R.target /\ S.back = R.back
        /\ S.gws = [g \in own \cup inv |-> gw[g]] /\ S.inv = inv /\ S.own = own
        /\ S.fresh = own \cup inv /\ S.tfresh = R.tfresh /\ S.pfresh = R.pfresh
    <3>1. PICK f \in Copies : f = [g \in own \cup inv |-> gw[g]]
      BY <2>3
    <3>2. "delete" \in Stages /\ own \cup inv \in SUBSET Gateways
      BY <2>2 DEF Stages
    <3>3. S = Listing(R, f, own \cup inv, own, inv, "delete")
      BY <2>1, <3>1 DEF Listing
    <3> HIDE DEF own, inv, R, S
    <3> QED
      BY <1>1, <2>2, <3>1, <3>2, <3>3, ListFields, SMTT(30)
  <2>5. PolicyHeld(k)'
    BY <1>1, <2>4 DEF WorkerInv, PolicyHeld
  <2>6. CopiesCurrent(k)'
    <3>1. /\ own \subseteq {R.target} /\ (R.mode # "apply" => own = {}) /\ own \cap inv = {}
          /\ \A g \in own \cup inv : gw[g].exists
      OBVIOUS
    <3>2. R.tfresh /\ R.target # "none" => gw[R.target].back[k] = R.back
      BY <1>1 DEF WorkerInv, CopiesCurrent
    <3> HIDE DEF own, inv
    <3> QED
      BY <1>1, <2>3, <2>4, <3>1, <3>2 DEF CopiesCurrent
  <2>7. ClaimHeld(k)' /\ Released(k)'
    BY <1>1, <2>4 DEF WorkerInv, ClaimHeld, Released
  <2>8. RefsListed(k)'
    BY <1>1, <2>4 DEF RefsListed, Inv, ObjectInv
  <2> QED
    BY <1>1, <1>3, <2>1, <2>4, <2>5, <2>6, <2>7, <2>8, QuietStep DEF WorkerInv, ListGateways
<1> QED
  BY <1>1, <1>2, <1>3 DEF ComputeGatewayDiffs

-----------------------------------------------------------------------------
(* The records, the certificates and the probes *)

\* The stages at which a worker writes the objects its policy owns.
Owning == {"delete", "listeners", "probes", "claim"}

\* A worker writes objects of its own kind and goes on: it remains to see that it has released its gateways.
LEMMA ObjectStep ==
  ASSUME Inv, NEW k \in Kinds, rc[k].pc \in Owning, rc'[k].pc \in Owning,
         rc'[k] \in Reconciling, rc' = [rc EXCEPT ![k] = rc'[k]],
         \E c \in Stages, i \in Places : rc'[k] = [rc[k] EXCEPT !.pc = c, !.i = i],
         UNCHANGED <<gw, pol, attrs>>,
         res' \in [Gateways -> [ListenerSet \cup Secrets -> Resource]],
         probes' \in [Gateways -> [ListenerSet -> DNSPolicies \cup {"none"}]],
         \A g \in Gateways, n \in ListenerSet \cup Secrets :
           res'[g][n].policy \in {res[g][n].policy, "none", rc[k].p},
         \A g \in Gateways, l \in ListenerSet : probes'[g][l] \in {probes[g][l], "none", rc[k].p},
         Released(k)'
  PROVE  Inv'
<1> DEFINE R == rc[k]
           S == rc'[k]
<1>1. R \in Reconciling /\ WorkerInv(k)
  BY DEF Inv, Typed
<1>2. /\ S.p = R.p /\ S.mode = R.mode /\ S.target = R.target /\ S.back = R.back
      /\ S.gws = R.gws /\ S.inv = R.inv /\ S.own = R.own /\ S.err = R.err
      /\ S.fresh = R.fresh /\ S.tfresh = R.tfresh /\ S.pfresh = R.pfresh
  BY <1>1, SMTT(30) DEF Reconciling
<1>3. R.p \in Policies /\ Kind(R.p) = k
  BY <1>1 DEF WorkerInv, PolicyHeld, Owning
<1>4. PolicyHeld(k)' /\ CopiesCurrent(k)'
  <2>1. PolicyHeld(k)'
    <3>1. R.pc \notin {"idle", "finalizer", "remove"} /\ S.pc \notin {"idle", "finalizer", "remove"}
      BY DEF Owning
    <3>2. S.pc = "rediff" => R.mode # "apply"
      BY <1>1, <1>2 DEF WorkerInv, PolicyHeld, Owning
    <3> QED
      BY <1>1, <1>2, <3>1, <3>2 DEF WorkerInv, PolicyHeld
  <2> QED
    BY <1>1, <1>2, <2>1, SameCopies DEF WorkerInv
<1>5. ClaimHeld(k)' /\ RefsListed(k)'
  BY <1>1, <1>2 DEF WorkerInv, ClaimHeld, RefsListed, Listed, Owning
<1>6. Typed'
  BY DEF Inv, Typed
<1>7. ObjectInv' /\ RefsHeldByClaim'
  BY DEF Inv, ObjectInv, RefsHeldByClaim
<1>8. WorkerInv(k)'
  BY <1>4, <1>5 DEF WorkerInv
<1>9. \A g \in Gateways, n \in ListenerSet \cup Secrets, q \in Policies :
        Kind(q) # k /\ res'[g][n].policy = q => res[g][n].policy = q
  <2> TAKE g \in Gateways, n \in ListenerSet \cup Secrets, q \in Policies
  <2> HAVE Kind(q) # k /\ res'[g][n].policy = q
  <2> QED
    BY <1>3, KindOfPolicy
<1>10. \A g \in Gateways, l \in ListenerSet, q \in Policies :
         Kind(q) # k /\ probes'[g][l] = q => probes[g][l] = q
  <2> TAKE g \in Gateways, l \in ListenerSet, q \in Policies
  <2> HAVE Kind(q) # k /\ probes'[g][l] = q
  <2> QED
    BY <1>3, KindOfPolicy
<1> QED
  BY <1>6, <1>7, <1>8, <1>9, <1>10, OwnStep

\* The object n, or the probe l, of gateway g is written.
PutResource(g, n, o) == res' = [res EXCEPT ![g][n] = o]
PutProbe(g, l, o) == probes' = [probes EXCEPT ![g][l] = o]

\* What a write of one record or certificate does.
LEMMA ResourceWritten ==
  ASSUME Typed, NEW g \in Gateways, NEW n, NEW o, n \in ListenerSet \cup Secrets => o \in Resource,
         PutResource(g, n, o)
  PROVE  /\ res' \in [Gateways -> [ListenerSet \cup Secrets -> Resource]]
         /\ \A h \in Gateways, m \in ListenerSet \cup Secrets :
              /\ res'[h][m].policy \in {res[h][m].policy, o.policy}
              /\ h # g => res'[h][m] = res[h][m]
<1>1. /\ res' \in [Gateways -> [ListenerSet \cup Secrets -> Resource]]
      /\ n \in ListenerSet \cup Secrets => res'[g][n] = o
      /\ \A h \in Gateways, m \in ListenerSet \cup Secrets : h # g \/ m # n => res'[h][m] = res[h][m]
  BY DEF PutResource, Typed
<1>2. ASSUME NEW h \in Gateways, NEW m \in ListenerSet \cup Secrets
      PROVE  res'[h][m].policy \in {res[h][m].policy, o.policy} /\ (h # g => res'[h][m] = res[h][m])
  <2>1. CASE h = g /\ m = n
    BY <1>1, <2>1
  <2>2. CASE h # g \/ m # n
    BY <1>1, <2>2
  <2> QED
    BY <2>1, <2>2
<1> QED
  BY <1>1, <1>2

\* What a write of one probe does.
LEMMA ProbeWritten ==
  ASSUME Typed, NEW g \in Gateways, NEW l \in ListenerSet, NEW o \in DNSPolicies \cup {"none"},
         PutProbe(g, l, o)
  PROVE  /\ probes' \in [Gateways -> [ListenerSet -> DNSPolicies \cup {"none"}]]
         /\ \A h \in Gateways, m \in ListenerSet : probes'[h][m] \in {probes[h][m], o}
BY DEF PutProbe, Typed

\* What a worker wants of a listener is a record or a certificate.
LEMMA DesiredType ==
  ASSUME Typed, NEW p \in Policies, NEW g \in Gateways, NEW n \in ListenerSet \cup Secrets,
         NEW hosts \in SUBSET (ListenerSet \cup Secrets)
  PROVE  /\ Desired(p, g, n, hosts) \in Resource
         /\ Desired(p, g, n, hosts).policy \in {p, res[g][n].policy}
BY SMTT(30) DEF Typed, Desired, Resource, NoResource

\* A worker that stays where it is, or goes on, only in its stage or its place among the listeners.
LEMMA StageOnly ==
  ASSUME Typed, NEW k \in Kinds
  PROVE  /\ rc' = rc => \E c \in Stages, i \in Places : rc'[k] = [rc[k] EXCEPT !.pc = c, !.i = i]
         /\ \A c \in Stages : Goto(k, c) => \E i \in Places : rc'[k] = [rc[k] EXCEPT !.pc = c, !.i = i]
         /\ \A j \in Places : rc' = [rc EXCEPT ![k].i = j] =>
              /\ \E c \in Stages, i \in Places : rc'[k] = [rc[k] EXCEPT !.pc = c, !.i = i]
              /\ rc'[k] \in Reconciling /\ rc' = [rc EXCEPT ![k] = rc'[k]]
              /\ rc'[k].pc = rc[k].pc /\ rc'[k].inv = rc[k].inv /\ rc'[k].p = rc[k].p
         /\ rc' = rc => rc'[k] \in Reconciling /\ rc' = [rc EXCEPT ![k] = rc'[k]]
<1>1. rc[k] \in Reconciling /\ rc[k].pc \in Stages /\ rc[k].i \in Places
  BY DEF Typed, Reconciling
<1>2. rc[k] = [rc[k] EXCEPT !.pc = rc[k].pc, !.i = rc[k].i]
  BY <1>1 DEF Reconciling
<1>3. rc' = rc => /\ \E c \in Stages, i \in Places : rc'[k] = [rc[k] EXCEPT !.pc = c, !.i = i]
                  /\ rc'[k] \in Reconciling /\ rc' = [rc EXCEPT ![k] = rc'[k]]
  BY <1>1, <1>2 DEF Typed
<1>4. ASSUME NEW c \in Stages, Goto(k, c)
      PROVE  \E i \in Places : rc'[k] = [rc[k] EXCEPT !.pc = c, !.i = i]
  <2>1. rc'[k] = [rc[k] EXCEPT !.pc = c]
    BY <1>4 DEF Goto, Typed
  <2>2. rc'[k] = [rc[k] EXCEPT !.pc = c, !.i = rc[k].i]
    BY <1>1, <2>1 DEF Reconciling
  <2> QED
    BY <1>1, <2>2
<1>5. ASSUME NEW j \in Places, rc' = [rc EXCEPT ![k].i = j]
      PROVE  /\ \E c \in Stages, i \in Places : rc'[k] = [rc[k] EXCEPT !.pc = c, !.i = i]
             /\ rc'[k] \in Reconciling /\ rc' = [rc EXCEPT ![k] = rc'[k]]
             /\ rc'[k].pc = rc[k].pc /\ rc'[k].inv = rc[k].inv /\ rc'[k].p = rc[k].p
  <2>1. rc'[k] = [rc[k] EXCEPT !.i = j] /\ rc' = [rc EXCEPT ![k] = rc'[k]]
    BY <1>5 DEF Typed
  <2>2. rc'[k] = [rc[k] EXCEPT !.pc = rc[k].pc, !.i = j]
    BY <1>1, <2>1 DEF Reconciling
  <2>3. /\ rc'[k] \in Reconciling
        /\ rc'[k].pc = rc[k].pc /\ rc'[k].inv = rc[k].inv /\ rc'[k].p = rc[k].p
    BY <1>1, <2>1, SMTT(30) DEF Reconciling
  <2> QED
    BY <1>1, <2>1, <2>2, <2>3
<1> QED
  BY <1>3, <1>4, <1>5

\* The deletions: what the policy has on the gateways to leave goes before the stage ends.
LEMMA deleteResourcesKeeps ==
  ASSUME Inv, NEW k \in Kinds, deleteResources(k)
  PROVE  Inv'
<1> DEFINE R == rc[k]
           gone == IF Left(k) # {} THEN Left(k) ELSE IF k = "dns" THEN DeletedListeners ELSE UnexpectedCertificates
<1>1. /\ R.pc = "delete" /\ R \in Reconciling /\ Typed
      /\ UNCHANGED <<gw, pol, attrs, probes>>
  BY DEF deleteResources, Inv, Typed
<1>2. R.inv \subseteq Gateways /\ rc["dns"].own \subseteq Gateways /\ rc["tls"].own \subseteq Gateways
  BY <1>1 DEF Typed, Reconciling, Kinds
<1>3. CASE (\E x \in gone : DeleteResource(x[1], x[2])) /\ UNCHANGED rc
  <2>1. PICK g \in Gateways, n \in ListenerSet \cup Secrets : DeleteResource(g, n)
    <3>1. PICK x \in gone : DeleteResource(x[1], x[2])
      BY <1>3
    <3>2. x[1] \in Gateways /\ x[2] \in ListenerSet \cup Secrets
      BY <1>2, <3>1 DEF Left, DeletedListeners, UnexpectedCertificates
    <3> QED
      BY <3>1, <3>2
  <2>2. NoResource \in Resource /\ NoResource.policy = "none"
    BY ConstantTypes DEF NoResource
  <2>3. /\ res' \in [Gateways -> [ListenerSet \cup Secrets -> Resource]]
        /\ \A h \in Gateways, m \in ListenerSet \cup Secrets : res'[h][m].policy \in {res[h][m].policy, "none", R.p}
    <3>1. PutResource(g, n, NoResource)
      BY <2>1 DEF DeleteResource, PutResource
    <3>2. /\ res' \in [Gateways -> [ListenerSet \cup Secrets -> Resource]]
          /\ \A h \in Gateways, m \in ListenerSet \cup Secrets :
               res'[h][m].policy \in {res[h][m].policy, NoResource.policy}
      BY <1>1, <2>2, <3>1, ResourceWritten
    <3> QED
      BY <2>2, <3>2
  <2>4. Released(k)'
    BY <1>1, <1>3 DEF Released
  <2> QED
    BY <1>1, <1>3, <2>3, <2>4, StageOnly, ObjectStep DEF Owning, Typed
<1>4. CASE gone = {} /\ Goto(k, "listeners") /\ UNCHANGED res
  <2>1. "listeners" \in Stages
    BY DEF Stages
  <2>2. /\ rc'[k] \in Reconciling /\ rc' = [rc EXCEPT ![k] = rc'[k]]
        /\ rc'[k].pc = "listeners" /\ rc'[k].inv = R.inv /\ rc'[k].p = R.p
    BY <1>1, <1>4, <2>1, GotoFields
  <2>3. \E i \in Places : rc'[k] = [rc[k] EXCEPT !.pc = "listeners", !.i = i]
    BY <1>1, <1>4, <2>1, StageOnly
  <2>4. ASSUME NEW g \in R.inv, NEW n \in ListenerSet \cup Secrets
        PROVE  res[g][n].policy # R.p
    <3>1. Left(k) = {}
      BY <1>4
    <3>2. <<g, n>> \in R.inv \X (ListenerSet \cup Secrets) /\ <<g, n>>[1] = g /\ <<g, n>>[2] = n
      OBVIOUS
    <3> QED
      BY <3>1, <3>2 DEF Left
  <2>5. Released(k)'
    BY <1>4, <2>2, <2>4 DEF Released
  <2> QED
    BY <1>1, <1>4, <2>1, <2>2, <2>3, <2>5, ObjectStep DEF Owning, Typed
<1> QED
  BY <1>1, <1>3, <1>4 DEF deleteResources

\* A listener without routes loses its record, and the loop ends.  (For any l: what is not in the domain of
\* res is not written.)
LEMMA EndAtUnroutedKeeps ==
  ASSUME Inv, rc["dns"].pc = "listeners", NEW g \in rc["dns"].own, NEW l,
         DeleteResource(g, l), Goto("dns", "probes"), UNCHANGED <<gw, pol, attrs, probes>>
  PROVE  Inv'
<1> DEFINE R == rc["dns"]
           S == rc'["dns"]
<1>1. "dns" \in Kinds /\ "probes" \in Stages
  BY DEF Kinds, Stages
<1>2. Typed /\ R \in Reconciling /\ WorkerInv("dns")
  BY <1>1 DEF Inv, Typed
<1>3. g \in Gateways /\ R.inv \subseteq Gateways
  BY <1>2 DEF Reconciling
<1>4. NoResource \in Resource /\ NoResource.policy = "none"
  BY ConstantTypes DEF NoResource
<1>5. PutResource(g, l, NoResource)
  BY DEF PutResource, DeleteResource
<1>6. /\ res' \in [Gateways -> [ListenerSet \cup Secrets -> Resource]]
      /\ \A h \in Gateways, m \in ListenerSet \cup Secrets : res'[h][m].policy \in {res[h][m].policy, "none"}
  <2>1. /\ res' \in [Gateways -> [ListenerSet \cup Secrets -> Resource]]
        /\ \A h \in Gateways, m \in ListenerSet \cup Secrets :
             res'[h][m].policy \in {res[h][m].policy, NoResource.policy}
    BY <1>2, <1>3, <1>4, <1>5, ResourceWritten
  <2> QED
    BY <1>4, <2>1
<1>7. S \in Reconciling /\ rc' = [rc EXCEPT !["dns"] = S] /\ S.pc = "probes" /\ S.inv = R.inv /\ S.p = R.p
  BY <1>1, <1>2, GotoFields
<1>8. \E i \in Places : S = [R EXCEPT !.pc = "probes", !.i = i]
  BY <1>1, <1>2, StageOnly
<1>9. R.p \in Policies
  BY <1>2 DEF WorkerInv, PolicyHeld
<1>10. Released("dns")'
  <2>1. \A h \in R.inv, m \in ListenerSet \cup Secrets : res[h][m].policy # R.p
    BY <1>2 DEF WorkerInv, Released
  <2>2. \A h \in R.inv, m \in ListenerSet \cup Secrets : res'[h][m].policy # R.p
    BY <1>3, <1>6, <1>9, <2>1, KindOfPolicy, SMTT(30)
  <2> QED
    BY <1>7, <2>2, SMTT(30) DEF Released
<1>11. R.pc \in Owning /\ S.pc \in Owning
  BY <1>7 DEF Owning
<1>12. \A h \in Gateways, m \in ListenerSet \cup Secrets : res'[h][m].policy \in {res[h][m].policy, "none", R.p}
  BY <1>6
<1>13. /\ probes' \in [Gateways -> [ListenerSet -> DNSPolicies \cup {"none"}]]
       /\ \A h \in Gateways, m \in ListenerSet : probes'[h][m] \in {probes[h][m], "none", R.p}
  BY <1>2 DEF Typed
<1> QED
  BY <1>1, <1>6, <1>7, <1>8, <1>10, <1>11, <1>12, <1>13, ObjectStep

\* The loop does not run past the listeners.
LEMMA NextPlace ==
  ASSUME NEW j \in DOMAIN Listeners
  PROVE  j + 1 \in Places
<1>1. Len(Listeners) \in Nat /\ DOMAIN Listeners = 1..Len(Listeners)
  BY PolicyConstants, SMTT(30)
<1> QED
  BY <1>1, SMTT(30) DEF Places

\* The loop over the listeners writes the records of the target only.
LEMMA reconcileGatewayDNSRecordsKeeps ==
  ASSUME Inv, reconcileGatewayDNSRecords
  PROVE  Inv'
<1> DEFINE R == rc["dns"]
           S == rc'["dns"]
<1>1. "dns" \in Kinds /\ "probes" \in Stages
  BY DEF Kinds, Stages
<1>2. /\ Typed /\ R \in Reconciling /\ WorkerInv("dns") /\ R.pc = "listeners"
      /\ UNCHANGED <<gw, pol, attrs, probes>>
  BY <1>1 DEF Inv, Typed, reconcileGatewayDNSRecords
<1>3. /\ probes' \in [Gateways -> [ListenerSet -> DNSPolicies \cup {"none"}]]
      /\ \A h \in Gateways, m \in ListenerSet : probes'[h][m] \in {probes[h][m], "none", R.p}
  BY <1>2 DEF Typed
<1>4. R.inv \subseteq Gateways /\ R.own \subseteq Gateways /\ R.own \cap R.inv = {} /\ R.p \in Policies
  <2>1. R.inv \subseteq Gateways /\ R.own \subseteq Gateways /\ R.gws \in Copies
    BY <1>2 DEF Reconciling
  <2>2. R.own \cap R.inv = {} /\ DOMAIN R.gws = R.own \cup R.inv
    BY <1>2 DEF WorkerInv, CopiesCurrent
  <2>3. R.p \in Policies
    BY <1>2 DEF WorkerInv, PolicyHeld
  <2> QED
    BY <2>1, <2>2, <2>3
<1>5. \A h \in R.inv, m \in ListenerSet \cup Secrets : res[h][m].policy # R.p
  BY <1>2 DEF WorkerInv, Released
<1>6. CASE Abort("dns") /\ UNCHANGED res
  BY <1>1, <1>2, <1>6, AbortKeeps
<1>7. ASSUME NEW g \in R.own, NEW l, EndAtUnrouted(g, l)
      PROVE  Inv'
  BY <1>2, <1>7, EndAtUnroutedKeeps DEF EndAtUnrouted
<1>8. ASSUME NEW g \in R.own, NEW l, res' = [res EXCEPT ![g][l] = Desired(R.p, g, l, {l})],
             NEW j \in Places, rc' = [rc EXCEPT !["dns"].i = j]
      PROVE  Inv'
  <2>1. PutResource(g, l, Desired(R.p, g, l, {l})) /\ g \in Gateways
    BY <1>4, <1>8 DEF PutResource
  <2>2. l \in ListenerSet \cup Secrets =>
          /\ Desired(R.p, g, l, {l}) \in Resource
          /\ Desired(R.p, g, l, {l}).policy \in {R.p, res[g][l].policy}
    BY <1>2, <1>4, <2>1, DesiredType
  <2>3. /\ res' \in [Gateways -> [ListenerSet \cup Secrets -> Resource]]
        /\ \A h \in Gateways, m \in ListenerSet \cup Secrets : h # g => res'[h][m] = res[h][m]
        /\ \A m \in ListenerSet \cup Secrets :
             res'[g][m] = IF m = l THEN Desired(R.p, g, l, {l}) ELSE res[g][m]
    <3>1. \A m \in ListenerSet \cup Secrets : res'[g][m] = IF m = l THEN Desired(R.p, g, l, {l}) ELSE res[g][m]
      BY <1>2, <2>1 DEF PutResource, Typed
    <3> QED
      BY <1>2, <2>1, <2>2, <3>1, ResourceWritten
  <2>4. ASSUME NEW h \in Gateways, NEW m \in ListenerSet \cup Secrets
        PROVE  res'[h][m].policy \in {res[h][m].policy, "none", R.p}
    <3>1. CASE h # g
      BY <2>3, <3>1
    <3>2. CASE h = g /\ m # l
      BY <2>3, <3>2
    <3>3. CASE h = g /\ m = l
      BY <2>2, <2>3, <3>3
    <3> QED
      BY <3>1, <3>2, <3>3
  <2>5. /\ S \in Reconciling /\ rc' = [rc EXCEPT !["dns"] = S]
        /\ S.pc = R.pc /\ S.inv = R.inv /\ S.p = R.p
        /\ \E c \in Stages, i \in Places : S = [R EXCEPT !.pc = c, !.i = i]
    BY <1>1, <1>2, <1>8, StageOnly
  <2>6. Released("dns")'
    <3>1. \A h \in R.inv, m \in ListenerSet \cup Secrets : res'[h][m].policy # R.p
      BY <1>4, <1>5, <2>3, SMTT(30)
    <3> QED
      BY <1>2, <2>5, <3>1, SMTT(30) DEF Released
  <2>7. R.pc \in Owning /\ S.pc \in Owning
    BY <1>2, <2>5 DEF Owning
  <2> QED
    BY <1>1, <1>2, <1>3, <2>3, <2>4, <2>5, <2>6, <2>7, ObjectStep
<1>9. CASE Goto("dns", "probes") /\ UNCHANGED res
  <2>1. S \in Reconciling /\ rc' = [rc EXCEPT !["dns"] = S] /\ S.pc = "probes" /\ S.inv = R.inv /\ S.p = R.p
    BY <1>1, <1>2, <1>9, GotoFields
  <2>2. \E i \in Places : S = [R EXCEPT !.pc = "probes", !.i = i]
    BY <1>1, <1>2, <1>9, StageOnly
  <2>3. Released("dns")'
    BY <1>5, <1>9, <2>1, SMTT(30) DEF Released
  <2>4. R.pc \in Owning /\ S.pc \in Owning
    BY <1>2, <2>1 DEF Owning
  <2>5. res' \in [Gateways -> [ListenerSet \cup Secrets -> Resource]]
    BY <1>2, <1>9 DEF Typed
  <2>6. \A h \in Gateways, m \in ListenerSet \cup Secrets : res'[h][m].policy \in {res[h][m].policy, "none", R.p}
    BY <1>9
  <2> QED
    BY <1>1, <1>2, <1>3, <2>1, <2>2, <2>3, <2>4, <2>5, <2>6, ObjectStep
<1> QED
  <2>1. ASSUME NEW g \in R.own, NEW j \in DOMAIN Listeners, AtListener(g, j), reconcileListener(g, j)
        PROVE  Inv'
    <3>1. j + 1 \in Places
      BY <2>1, NextPlace
    <3> QED
      BY <1>6, <1>7, <1>8, <2>1, <3>1 DEF reconcileListener
  <2> QED
    BY <1>9, <2>1 DEF reconcileGatewayDNSRecords

\* The routes cannot be read.
LEMMA RoutesUnreadKeeps ==
  ASSUME Inv, RoutesUnread
  PROVE  Inv'
BY EndAtUnroutedKeeps DEF RoutesUnread, EndAtUnrouted

\* The certificates of the target are written, then the worker goes on.
LEMMA reconcileGatewayCertificatesKeeps ==
  ASSUME Inv, reconcileGatewayCertificates
  PROVE  Inv'
<1> DEFINE R == rc["tls"]
           S == rc'["tls"]
           wanted(g, n) == Desired(R.p, g, n, HostsOf(R.gws[g], n))
<1>1. "tls" \in Kinds /\ "claim" \in Stages
  BY DEF Kinds, Stages
<1>2. /\ Typed /\ R \in Reconciling /\ WorkerInv("tls") /\ R.pc = "listeners"
      /\ UNCHANGED <<gw, pol, attrs, probes>>
  BY <1>1 DEF Inv, Typed, reconcileGatewayCertificates
<1>3. /\ probes' \in [Gateways -> [ListenerSet -> DNSPolicies \cup {"none"}]]
      /\ \A h \in Gateways, m \in ListenerSet : probes'[h][m] \in {probes[h][m], "none", R.p}
  BY <1>2 DEF Typed
<1>4. /\ R.inv \subseteq Gateways /\ R.own \subseteq Gateways /\ R.own \cap R.inv = {} /\ R.p \in Policies
      /\ R.gws \in Copies /\ DOMAIN R.gws = R.own \cup R.inv
  <2>1. R.inv \subseteq Gateways /\ R.own \subseteq Gateways /\ R.gws \in Copies
    BY <1>2 DEF Reconciling
  <2>2. R.own \cap R.inv = {} /\ DOMAIN R.gws = R.own \cup R.inv
    BY <1>2 DEF WorkerInv, CopiesCurrent
  <2>3. R.p \in Policies
    BY <1>2 DEF WorkerInv, PolicyHeld
  <2> QED
    BY <2>1, <2>2, <2>3
<1>5. \A h \in R.inv, m \in ListenerSet \cup Secrets : res[h][m].policy # R.p
  BY <1>2 DEF WorkerInv, Released
<1>6. CASE rc' = rc /\ \E g \in R.own, n \in Secrets : res' = [res EXCEPT ![g][n] = wanted(g, n)]
  <2>1. PICK g \in R.own, n \in Secrets : PutResource(g, n, wanted(g, n))
    BY <1>6 DEF PutResource
  <2>2. HostsOf(R.gws[g], n) \in SUBSET (ListenerSet \cup Secrets)
    <3>1. R.gws[g] \in GatewayObject
      BY <1>4, CopiesFacts
    <3> QED
      BY <3>1 DEF HostsOf, GatewayObject
  <2>3. wanted(g, n) \in Resource /\ wanted(g, n).policy \in {R.p, res[g][n].policy}
    BY <1>2, <1>4, <2>1, <2>2, DesiredType
  <2>4. /\ res' \in [Gateways -> [ListenerSet \cup Secrets -> Resource]]
        /\ \A h \in Gateways, m \in ListenerSet \cup Secrets : h # g => res'[h][m] = res[h][m]
        /\ \A m \in ListenerSet \cup Secrets : res'[g][m] = IF m = n THEN wanted(g, n) ELSE res[g][m]
    <3> HIDE DEF wanted
    <3>1. \A m \in ListenerSet \cup Secrets : res'[g][m] = IF m = n THEN wanted(g, n) ELSE res[g][m]
      BY <1>2, <1>4, <2>1 DEF PutResource, Typed
    <3>2. g \in Gateways /\ PutResource(g, n, wanted(g, n)) /\ wanted(g, n) \in Resource
      BY <1>4, <2>1, <2>3
    <3>3. /\ res' \in [Gateways -> [ListenerSet \cup Secrets -> Resource]]
          /\ \A h \in Gateways, m \in ListenerSet \cup Secrets : h # g => res'[h][m] = res[h][m]
      BY <1>2, <3>2, ResourceWritten
    <3> QED
      BY <3>1, <3>3
  <2>5. ASSUME NEW h \in Gateways, NEW m \in ListenerSet \cup Secrets
        PROVE  res'[h][m].policy \in {res[h][m].policy, "none", R.p}
    <3> HIDE DEF wanted
    <3>1. CASE h # g
      BY <2>4, <3>1
    <3>2. CASE h = g /\ m # n
      BY <2>4, <3>2
    <3>3. CASE h = g /\ m = n
      BY <2>3, <2>4, <3>3
    <3> QED
      BY <3>1, <3>2, <3>3
  <2>6. /\ S \in Reconciling /\ rc' = [rc EXCEPT !["tls"] = S]
        /\ \E c \in Stages, i \in Places : S = [R EXCEPT !.pc = c, !.i = i]
    BY <1>1, <1>2, <1>6, StageOnly
  <2>7. Released("tls")'
    <3>1. \A h \in R.inv, m \in ListenerSet \cup Secrets : res'[h][m].policy # R.p
      BY <1>4, <1>5, <2>4, SMTT(30)
    <3> QED
      BY <1>6, <3>1 DEF Released
  <2>8. R.pc \in Owning /\ S.pc \in Owning
    BY <1>2, <1>6 DEF Owning
  <2> QED
    BY <1>1, <1>2, <1>3, <2>4, <2>5, <2>6, <2>7, <2>8, ObjectStep
<1>7. CASE Goto("tls", "claim") /\ UNCHANGED res
  <2>1. S \in Reconciling /\ rc' = [rc EXCEPT !["tls"] = S] /\ S.pc = "claim" /\ S.inv = R.inv /\ S.p = R.p
    BY <1>1, <1>2, <1>7, GotoFields
  <2>2. \E i \in Places : S = [R EXCEPT !.pc = "claim", !.i = i]
    BY <1>1, <1>2, <1>7, StageOnly
  <2>3. Released("tls")'
    BY <1>5, <1>7, <2>1 DEF Released
  <2>4. R.pc \in Owning /\ S.pc \in Owning
    BY <1>2, <2>1 DEF Owning
  <2>5. res' \in [Gateways -> [ListenerSet \cup Secrets -> Resource]]
    BY <1>2, <1>7 DEF Typed
  <2>6. \A h \in Gateways, m \in ListenerSet \cup Secrets : res'[h][m].policy \in {res[h][m].policy, "none", R.p}
    BY <1>7
  <2> QED
    BY <1>1, <1>2, <1>3, <2>1, <2>2, <2>3, <2>4, <2>5, <2>6, ObjectStep
<1> QED
  BY <1>6, <1>7 DEF reconcileGatewayCertificates

\* The probes of the policy on the gateways to leave are gone when the stage ends.
LEMMA reconcileHealthChecksKeeps ==
  ASSUME Inv, reconcileHealthChecks
  PROVE  Inv'
<1> DEFINE R == rc["dns"]
           S == rc'["dns"]
           want(g) == IF g \in R.own THEN expectedProbes(R.copy, R.gws[g]) ELSE {}
           excess  == {x \in (R.own \cup R.inv) \X ListenerSet : x[2] \notin want(x[1]) /\ probes[x[1]][x[2]] = R.p}
<1>1. "dns" \in Kinds /\ "claim" \in Stages
  BY DEF Kinds, Stages
<1>2. /\ Typed /\ R \in Reconciling /\ WorkerInv("dns") /\ R.pc = "probes"
      /\ UNCHANGED <<gw, pol, attrs, res>>
  BY <1>1 DEF Inv, Typed, reconcileHealthChecks
<1>3. R.inv \subseteq Gateways /\ R.own \subseteq Gateways /\ R.own \cap R.inv = {} /\ R.p \in DNSPolicies
  BY <1>2 DEF Reconciling, WorkerInv, CopiesCurrent, PolicyHeld, Kind, Policies
<1>4. /\ res' \in [Gateways -> [ListenerSet \cup Secrets -> Resource]]
      /\ \A h \in Gateways, m \in ListenerSet \cup Secrets : res'[h][m].policy \in {res[h][m].policy, "none", R.p}
  BY <1>2 DEF Typed
<1>5. \A h \in R.inv, m \in ListenerSet \cup Secrets : res'[h][m].policy # R.p
  BY <1>2 DEF WorkerInv, Released
<1>6. ASSUME NEW g \in Gateways, NEW l \in ListenerSet, NEW o \in {R.p, "none"}, rc' = rc,
             probes' = [probes EXCEPT ![g][l] = o]
      PROVE  Inv'
  <2>1. PutProbe(g, l, o) /\ o \in DNSPolicies \cup {"none"}
    BY <1>3, <1>6 DEF PutProbe
  <2>2. /\ probes' \in [Gateways -> [ListenerSet -> DNSPolicies \cup {"none"}]]
        /\ \A h \in Gateways, m \in ListenerSet : probes'[h][m] \in {probes[h][m], o}
    BY <1>2, <2>1, ProbeWritten
  <2>3. \A h \in Gateways, m \in ListenerSet : probes'[h][m] \in {probes[h][m], "none", R.p}
    BY <2>2
  <2>4. /\ S \in Reconciling /\ rc' = [rc EXCEPT !["dns"] = S]
        /\ \E c \in Stages, i \in Places : S = [R EXCEPT !.pc = c, !.i = i]
    BY <1>1, <1>2, <1>6, StageOnly
  <2>5. Released("dns")'
    BY <1>2, <1>5, <1>6 DEF Released
  <2>6. R.pc \in Owning /\ S.pc \in Owning
    BY <1>2, <1>6 DEF Owning
  <2> QED
    BY <1>1, <1>2, <1>4, <2>2, <2>3, <2>4, <2>5, <2>6, ObjectStep
<1>7. CASE excess = {} /\ Goto("dns", "claim") /\ UNCHANGED probes
  <2>1. S \in Reconciling /\ rc' = [rc EXCEPT !["dns"] = S] /\ S.pc = "claim" /\ S.inv = R.inv /\ S.p = R.p
    BY <1>1, <1>2, <1>7, GotoFields
  <2>2. \E i \in Places : S = [R EXCEPT !.pc = "claim", !.i = i]
    BY <1>1, <1>2, <1>7, StageOnly
  <2>3. ASSUME NEW g \in R.inv, NEW l \in ListenerSet
        PROVE  probes[g][l] # R.p
    <3>1. <<g, l>> \in (R.own \cup R.inv) \X ListenerSet /\ <<g, l>>[1] = g /\ <<g, l>>[2] = l
      OBVIOUS
    <3>2. want(g) = {}
      BY <1>3
    <3> QED
      BY <1>7, <3>1, <3>2
  <2>4. Released("dns")'
    <3>1. \A g \in S.inv, n \in ListenerSet \cup Secrets : res'[g][n].policy # S.p
      BY <1>5, <2>1
    <3>2. \A g \in S.inv, l \in ListenerSet : probes'[g][l] # S.p
      BY <1>7, <2>1, <2>3
    <3> QED
      BY <3>1, <3>2 DEF Released
  <2>5. R.pc \in Owning /\ S.pc \in Owning
    BY <1>2, <2>1 DEF Owning
  <2>6. /\ probes' \in [Gateways -> [ListenerSet -> DNSPolicies \cup {"none"}]]
        /\ \A h \in Gateways, m \in ListenerSet : probes'[h][m] \in {probes[h][m], "none", R.p}
    BY <1>2, <1>7 DEF Typed
  <2> QED
    BY <1>1, <1>2, <1>4, <2>1, <2>2, <2>4, <2>5, <2>6, ObjectStep
<1>8. CASE rc' = rc /\ \E x \in (R.own \cup R.inv) \X ListenerSet, o \in {R.p, "none"} :
                         probes' = [probes EXCEPT ![x[1]][x[2]] = o]
  <2>1. PICK x \in (R.own \cup R.inv) \X ListenerSet, o \in {R.p, "none"} :
          probes' = [probes EXCEPT ![x[1]][x[2]] = o]
    BY <1>8
  <2>2. x[1] \in Gateways /\ x[2] \in ListenerSet
    BY <1>3
  <2> QED
    BY <1>6, <1>8, <2>1, <2>2
<1> QED
  BY <1>7, <1>8 DEF reconcileHealthChecks

-----------------------------------------------------------------------------
(* Writes of gateways *)

\* What a write of gateway g does to the workers that did not make it.
LEMMA OutdatedFields ==
  ASSUME Typed, NEW g \in Gateways, NEW j \in Kinds, NEW S, S = Outdated(g)[j]
  PROVE  /\ S \in Reconciling
         /\ S.pc = rc[j].pc /\ S.p = rc[j].p /\ S.mode = rc[j].mode /\ S.target = rc[j].target
         /\ S.back = rc[j].back /\ S.gws = rc[j].gws /\ S.inv = rc[j].inv /\ S.own = rc[j].own
         /\ S.err = rc[j].err /\ S.fresh = rc[j].fresh \ {g} /\ S.pfresh = rc[j].pfresh
         /\ S.copy = rc[j].copy /\ S.i = rc[j].i
         /\ S.tfresh => rc[j].tfresh /\ rc[j].target # g
<1>1. rc[j] \in Reconciling
  BY DEF Typed
<1>2. PICK b \in BOOLEAN : b <=> rc[j].tfresh /\ rc[j].target # g
  OBVIOUS
<1>3. rc[j].tfresh \in BOOLEAN
  BY <1>1 DEF Reconciling
<1>4. b = (rc[j].tfresh /\ rc[j].target # g)
  BY <1>2, <1>3
<1>5. S = [rc[j] EXCEPT !.fresh = rc[j].fresh \ {g}, !.tfresh = b]
  BY <1>4 DEF Outdated
<1>6. rc[j].fresh \ {g} \in SUBSET Gateways
  BY <1>1 DEF Reconciling
<1>7. /\ S \in Reconciling
      /\ S.pc = rc[j].pc /\ S.p = rc[j].p /\ S.mode = rc[j].mode /\ S.target = rc[j].target
      /\ S.back = rc[j].back /\ S.gws = rc[j].gws /\ S.inv = rc[j].inv /\ S.own = rc[j].own
      /\ S.err = rc[j].err /\ S.fresh = rc[j].fresh \ {g} /\ S.pfresh = rc[j].pfresh
      /\ S.copy = rc[j].copy /\ S.i = rc[j].i /\ S.tfresh = b
  BY <1>1, <1>5, <1>6 DEF Reconciling
<1> QED
  BY <1>2, <1>7

\* Gateway g is written: the marks of kind j stay as they are, or all are lost.
LEMMA OthersSeeWrite ==
  ASSUME Typed, NEW g \in Gateways, NEW r \in GatewayObject, gw' = [gw EXCEPT ![g] = r],
         NEW j \in Kinds, rc'[j] = Outdated(g)[j], UNCHANGED <<pol, res, probes>>,
         \/ /\ r.back[j] = gw[g].back[j] /\ r.exists = gw[g].exists /\ r.late = gw[g].late
            /\ \A q \in Policies : Kind(q) = j /\ q \in r.refs => q \in gw[g].refs
         \/ r.refs = {} /\ (r.exists => r.late)
  PROVE  Elsewhere(j)
<1> DEFINE R == rc[j]
           S == rc'[j]
<1>1. /\ S.pc = R.pc /\ S.p = R.p /\ S.mode = R.mode /\ S.target = R.target /\ S.back = R.back
      /\ S.gws = R.gws /\ S.inv = R.inv /\ S.own = R.own /\ S.err = R.err
      /\ S.fresh = R.fresh \ {g} /\ (S.tfresh => R.tfresh /\ R.target # g) /\ S.pfresh = R.pfresh
  BY OutdatedFields, SMTT(30)
<1>2. R.fresh \subseteq Gateways /\ R.target \in Gateways \cup {"none"}
  BY DEF Typed, Reconciling
<1>3. gw'[g] = r /\ \A h \in Gateways : h # g => gw'[h] = gw[h]
  BY DEF Typed
<1>4. /\ \A h \in S.fresh : gw'[h] = gw[h]
      /\ S.tfresh /\ R.target # "none" => gw'[R.target].back[j] = gw[R.target].back[j]
  BY <1>1, <1>2, <1>3
<1>5. ASSUME NEW h \in Gateways
      PROVE  \/ /\ gw'[h].back[j] = gw[h].back[j]
                /\ gw'[h].exists = gw[h].exists
                /\ gw'[h].late = gw[h].late
                /\ \A q \in Policies : Kind(q) = j /\ q \in gw'[h].refs => q \in gw[h].refs
             \/ gw'[h].refs = {} /\ (gw'[h].exists => gw'[h].late)
  BY <1>3
<1> QED
  BY <1>1, <1>4, <1>5 DEF Elsewhere

\* The objects after a gateway is written.
LEMMA GatewayWritten ==
  ASSUME Inv, NEW g \in Gateways, NEW r \in GatewayObject, gw' = [gw EXCEPT ![g] = r],
         rc' \in [Kinds -> Reconciling], UNCHANGED <<pol, attrs, res, probes>>,
         ~r.exists => r.refs = {},
         \A p \in r.refs : ~r.late /\ ~pol[p].ghost =>
            pol[p].finalizer /\ (pol[p].phase = "live" => r.back[Kind(p)] = p)
  PROVE  Typed' /\ ObjectInv' /\ RefsHeldByClaim'
<1>1. gw'[g] = r /\ \A h \in Gateways : h # g => gw'[h] = gw[h]
  BY DEF Inv, Typed
<1>2. Typed'
  BY DEF Inv, Typed
<1>3. ObjectInv'
  BY <1>1, SMTT(30) DEF Inv, ObjectInv
<1>4. RefsHeldByClaim'
  BY <1>1, SMTT(30) DEF Inv, RefsHeldByClaim
<1> QED
  BY <1>2, <1>3, <1>4

\* A gateway is changed behind the controllers; its marks stay or are lost.
LEMMA ChangeGatewayKeeps ==
  ASSUME Inv, NEW g \in Gateways, NEW r \in GatewayObject, ChangeGateway(g, r),
         \/ r.back = gw[g].back /\ r.exists = gw[g].exists /\ r.late = gw[g].late /\ r.refs = gw[g].refs
         \/ r.refs = {} /\ (r.exists => r.late)
  PROVE  Inv'
<1>1. /\ gw' = [gw EXCEPT ![g] = r] /\ rc' = Outdated(g) /\ UNCHANGED <<pol, attrs, res, probes>>
  BY DEF ChangeGateway
<1>2. rc' \in [Kinds -> Reconciling]
  <2>1. \A j \in Kinds : Outdated(g)[j] \in Reconciling
    BY OutdatedFields, SMTT(30) DEF Inv
  <2> QED
    BY <1>1, <2>1 DEF Outdated
<1>3. ~r.exists => r.refs = {}
  BY DEF Inv, ObjectInv
<1>4. \A p \in r.refs : ~r.late /\ ~pol[p].ghost =>
         pol[p].finalizer /\ (pol[p].phase = "live" => r.back[Kind(p)] = p)
  BY DEF Inv, RefsHeldByClaim
<1>5. Typed' /\ ObjectInv' /\ RefsHeldByClaim'
  BY <1>1, <1>2, <1>3, <1>4, GatewayWritten
<1>6. ASSUME NEW j \in Kinds
      PROVE  WorkerInv(j)'
  <2>1. rc'[j] = Outdated(g)[j]
    BY <1>1
  <2>2. Elsewhere(j)
    BY <1>1, <2>1, OthersSeeWrite DEF Inv
  <2> QED
    BY <1>5, <2>2, Undisturbed DEF Inv
<1> QED
  BY <1>5, <1>6 DEF Inv

\* What is released stays released when a worker goes on to, or stays at, the marks.
LEMMA ReleasedKept ==
  ASSUME NEW k \in Kinds, Released(k), rc'[k].p = rc[k].p, rc'[k].inv = rc[k].inv, UNCHANGED <<pol, attrs, res, probes>>,
         \/ rc'[k].pc = rc[k].pc
         \/ rc[k].pc = "claim" /\ rc'[k].pc \in {"rediff", "refs"}
  PROVE  Released(k)'
BY DEF Released

\* What a write through its copy from the diff does to the worker that makes it.
LEMMA WriterFields ==
  ASSUME Typed, NEW k \in Kinds, NEW g \in rc[k].fresh, g \in DOMAIN rc[k].gws, NEW r \in GatewayObject,
         WriteListed(k, g, r)
  PROVE  LET R == rc[k]
             S == rc'[k]
         IN /\ S.pc = R.pc /\ S.p = R.p /\ S.mode = R.mode /\ S.target = R.target /\ S.back = R.back
            /\ S.gws = [R.gws EXCEPT ![g] = r] /\ S.inv = R.inv /\ S.own = R.own /\ S.err = R.err
            /\ S.fresh = R.fresh /\ (S.tfresh => R.tfresh /\ R.target # g) /\ S.pfresh = R.pfresh
            /\ S.copy = R.copy /\ S.i = R.i
            /\ rc' \in [Kinds -> Reconciling]
            /\ \A j \in Kinds : j # k => rc'[j] = Outdated(g)[j]
<1> DEFINE O == Outdated(g)[k]
           R == rc[k]
           S == rc'[k]
<1>1. R \in Reconciling /\ g \in Gateways
  BY DEF Typed, Reconciling
<1>2. /\ O \in Reconciling
      /\ O.pc = R.pc /\ O.p = R.p /\ O.mode = R.mode /\ O.target = R.target /\ O.back = R.back
      /\ O.gws = R.gws /\ O.inv = R.inv /\ O.own = R.own /\ O.err = R.err
      /\ O.pfresh = R.pfresh /\ (O.tfresh => R.tfresh /\ R.target # g) /\ O.copy = R.copy /\ O.i = R.i
  BY <1>1, OutdatedFields, SMTT(30)
<1>3. DOMAIN Outdated(g) = Kinds
  BY DEF Outdated
<1>4. S = [O EXCEPT !.fresh = R.fresh, !.gws = [O.gws EXCEPT ![g] = r]] /\ rc' = [Outdated(g) EXCEPT ![k] = S]
  <2> HIDE DEF O
  <2>1. rc' = [Outdated(g) EXCEPT ![k].fresh = R.fresh, ![k].gws[g] = r]
    BY DEF WriteListed
  <2>2. rc' = [Outdated(g) EXCEPT ![k] = [Outdated(g)[k] EXCEPT !.fresh = R.fresh, !.gws[g] = r]]
    BY <1>3, <2>1
  <2> QED
    BY <1>2, <1>3, <2>2 DEF O, Reconciling
<1>5. \A j \in Kinds : j # k => rc'[j] = Outdated(g)[j]
  BY <1>3, <1>4
<1>6. [R.gws EXCEPT ![g] = r] \in Copies
  BY <1>1, CopiesFacts DEF Reconciling
<1>7. /\ S \in Reconciling
      /\ S.pc = R.pc /\ S.p = R.p /\ S.mode = R.mode /\ S.target = R.target /\ S.back = R.back
      /\ S.gws = [R.gws EXCEPT ![g] = r] /\ S.inv = R.inv /\ S.own = R.own /\ S.err = R.err
      /\ S.fresh = R.fresh /\ S.tfresh = O.tfresh /\ S.pfresh = R.pfresh /\ S.copy = R.copy /\ S.i = R.i
  <2> HIDE DEF O, S
  <2>1. R.fresh \in SUBSET Gateways
    BY <1>1 DEF Reconciling
  <2> QED
    BY <1>2, <1>4, <1>6, <2>1 DEF Reconciling
<1>8. rc' \in [Kinds -> Reconciling]
  <2>1. \A j \in Kinds : Outdated(g)[j] \in Reconciling
    BY <1>1, OutdatedFields
  <2>2. Outdated(g) \in [Kinds -> Reconciling]
    BY <2>1 DEF Outdated
  <2> QED
    BY <1>4, <1>7, <2>2
<1> QED
  BY <1>2, <1>5, <1>7, <1>8

\* The gateway the worker of k writes at the references and at the conditions: another condition, one
\* reference less, or one more on the target.
MarksWritten(k, g, r) ==
  /\ r.back = gw[g].back /\ r.exists = gw[g].exists /\ r.late = gw[g].late
  /\ \/ rc[k].pc \in {"refs", "condition"} /\ r.refs = gw[g].refs
     \/ rc[k].pc = "refs" /\ r.refs = gw[g].refs \ {rc[k].p}
     \/ rc[k].pc = "refs" /\ r.refs = gw[g].refs \cup {rc[k].p} /\ g \in rc[k].own

\* A worker writes gateway g through its copy from the diff: another condition, one reference less on a
\* gateway to leave, or one more on the target.
LEMMA ListedWriteKeeps ==
  ASSUME Inv, NEW k \in Kinds, NEW g \in rc[k].fresh, NEW r \in GatewayObject,
         WriteListed(k, g, r), UNCHANGED <<pol, attrs, res, probes>>, MarksWritten(k, g, r)
  PROVE  Inv'
<1>r. /\ r.back = gw[g].back /\ r.exists = gw[g].exists /\ r.late = gw[g].late
      /\ rc[k].pc \in {"refs", "condition"}
      /\ \/ r.refs = gw[g].refs
         \/ rc[k].pc = "refs" /\ r.refs = gw[g].refs \ {rc[k].p}
         \/ rc[k].pc = "refs" /\ r.refs = gw[g].refs \cup {rc[k].p} /\ g \in rc[k].own
  BY DEF MarksWritten
<1>w. gw' = [gw EXCEPT ![g] = r]
  BY DEF WriteListed
<1> DEFINE R == rc[k]
           S == rc'[k]
<1>1. R \in Reconciling /\ WorkerInv(k) /\ Typed /\ g \in Gateways
  BY DEF Inv, Typed, Reconciling
<1>2. /\ DOMAIN R.gws = R.own \cup R.inv /\ R.fresh \subseteq R.own \cup R.inv
      /\ gw[g] = R.gws[g] /\ gw[g].exists
      /\ R.p \in Policies /\ Kind(R.p) = k /\ R.own \subseteq Gateways /\ R.inv \subseteq Gateways
      /\ R.target \in Gateways \cup {"none"}
  <2>1. R.pc # "idle"
    BY <1>r
  <2>2. R.p \in Policies /\ Kind(R.p) = k
    BY <1>1, <2>1 DEF WorkerInv, PolicyHeld
  <2>3. R.own \subseteq Gateways /\ R.inv \subseteq Gateways /\ R.target \in Gateways \cup {"none"}
    BY <1>1 DEF Reconciling
  <2> QED
    BY <1>1, <2>2, <2>3 DEF WorkerInv, CopiesCurrent
<1>3. /\ S.pc = R.pc /\ S.p = R.p /\ S.mode = R.mode /\ S.target = R.target /\ S.back = R.back
      /\ S.gws = [R.gws EXCEPT ![g] = r] /\ S.inv = R.inv /\ S.own = R.own /\ S.err = R.err
      /\ S.fresh = R.fresh /\ (S.tfresh => R.tfresh /\ R.target # g) /\ S.pfresh = R.pfresh
      /\ rc' \in [Kinds -> Reconciling]
      /\ \A j \in Kinds : j # k => rc'[j] = Outdated(g)[j]
  BY <1>1, <1>2, WriterFields, SMTT(30)
<1>4. gw'[g] = r /\ \A h \in Gateways : h # g => gw'[h] = gw[h]
  BY <1>1, <1>w DEF Typed
<1>5. S.gws[g] = r /\ DOMAIN S.gws = DOMAIN R.gws /\ \A h \in DOMAIN R.gws : h # g => S.gws[h] = R.gws[h]
  BY <1>2, <1>3
<1>6. ASSUME g \in R.own, R.pc = "refs", ~gw[g].late, ~pol[R.p].ghost
      PROVE  pol[R.p].finalizer /\ gw[g].back[k] = R.p
  <2>1. R.mode = "apply" /\ g = R.target
    BY <1>1, <1>6 DEF WorkerInv, CopiesCurrent
  <2>2. pol[R.p].finalizer
    BY <1>1, <1>6, <2>1 DEF WorkerInv, PolicyHeld
  <2>3. gw[g].back[k] = R.p
    BY <1>1, <1>2, <1>6, <2>1 DEF WorkerInv, ClaimHeld
  <2> QED
    BY <2>2, <2>3
<1>7. \A p \in r.refs : ~r.late /\ ~pol[p].ghost =>
         pol[p].finalizer /\ (pol[p].phase = "live" => r.back[Kind(p)] = p)
  <2>1. \A p \in gw[g].refs : ~gw[g].late /\ ~pol[p].ghost =>
           pol[p].finalizer /\ (pol[p].phase = "live" => gw[g].back[Kind(p)] = p)
    BY <1>1 DEF Inv, RefsHeldByClaim
  <2>2. \A p \in r.refs : p \in gw[g].refs \/ (p = R.p /\ g \in R.own /\ R.pc = "refs")
    BY <1>r
  <2>3. ASSUME NEW p \in r.refs, ~r.late, ~pol[p].ghost
        PROVE  pol[p].finalizer /\ (pol[p].phase = "live" => r.back[Kind(p)] = p)
    <3>1. CASE p \in gw[g].refs
      BY <1>r, <2>1, <2>3, <3>1
    <3>2. CASE p = R.p /\ g \in R.own /\ R.pc = "refs"
      BY <1>r, <1>2, <1>6, <2>3, <3>2
    <3> QED
      BY <2>2, <2>3, <3>1, <3>2
  <2> QED
    BY <2>3
<1>8. Typed' /\ ObjectInv' /\ RefsHeldByClaim'
  BY <1>r, <1>w, <1>1, <1>2, <1>3, <1>7, GatewayWritten
<1>9. ASSUME NEW j \in Kinds, j # k
      PROVE  WorkerInv(j)'
  <2>1. \A q \in Policies : Kind(q) = j /\ q \in r.refs => q \in gw[g].refs
    BY <1>r, <1>2, <1>9
  <2>2. rc'[j] = Outdated(g)[j] /\ r.back[j] = gw[g].back[j]
    BY <1>r, <1>3, <1>9
  <2>3. Elsewhere(j)
    BY <1>r, <1>w, <1>1, <2>1, <2>2, OthersSeeWrite
  <2> QED
    BY <1>1, <1>8, <2>3, Undisturbed DEF Inv
<1>10. /\ S.pc = R.pc /\ S.p = R.p /\ S.mode = R.mode /\ S.target = R.target /\ S.back = R.back
       /\ S.inv = R.inv /\ S.own = R.own /\ S.err = R.err
       /\ S.fresh = R.fresh /\ (S.tfresh => R.tfresh /\ R.target # g) /\ S.pfresh = R.pfresh
  BY <1>3
<1>11. PolicyHeld(k)' /\ Released(k)'
  <2>1. PolicyHeld(k)'
    BY <1>1, <1>10 DEF WorkerInv, PolicyHeld
  <2>2. Released(k)'
    BY <1>1, <1>10, ReleasedKept DEF WorkerInv
  <2> QED
    BY <2>1, <2>2
<1>12. CopiesCurrent(k)'
  <2>1. ASSUME NEW h \in R.fresh
        PROVE  gw'[h] = S.gws[h] /\ gw'[h].exists
    <3>1. gw[h] = R.gws[h] /\ gw[h].exists /\ h \in DOMAIN R.gws /\ h \in Gateways
      BY <1>1, <1>2 DEF WorkerInv, CopiesCurrent
    <3>2. CASE h = g
      BY <1>r, <1>2, <1>4, <1>5, <3>2
    <3>3. CASE h # g
      BY <1>4, <1>5, <3>1, <3>3
    <3> QED
      BY <3>2, <3>3
  <2>2. S.tfresh /\ S.target # "none" => gw'[S.target].back[k] = S.back
    <3>1. R.tfresh /\ R.target # "none" => gw[R.target].back[k] = R.back
      BY <1>1 DEF WorkerInv, CopiesCurrent
    <3> QED
      BY <1>2, <1>4, <1>10, <3>1, SMTT(30)
  <2>3. /\ R.own \subseteq {R.target} /\ (R.mode # "apply" => R.own = {}) /\ R.own \cap R.inv = {}
    BY <1>1 DEF WorkerInv, CopiesCurrent
  <2> QED
    BY <1>2, <1>5, <1>10, <2>1, <2>2, <2>3 DEF CopiesCurrent
<1>13. ClaimHeld(k)'
  <2>1. SUFFICES ASSUME R.pc # "idle", R.mode = "apply"
                 PROVE  ClaimHeld(k)'
    BY <1>10 DEF ClaimHeld
  <2>2. /\ R.target \in Gateways
        /\ R.back = R.p /\ gw[R.target].exists /\ ~gw[R.target].late => gw[R.target].back[k] = R.p
        /\ R.pc = "refs" \/ (R.pc = "condition" /\ R.err = "none") => R.back = R.p
        /\ R.pc = "condition" /\ R.err = "none" => \A h \in R.own : R.p \in R.gws[h].refs
    BY <1>1, <2>1 DEF WorkerInv, ClaimHeld, PolicyHeld
  <2>3. R.back = R.p /\ gw'[R.target].exists /\ ~gw'[R.target].late => gw'[R.target].back[k] = R.p
    <3>1. CASE R.target = g
      BY <1>r, <1>4, <2>2, <3>1
    <3>2. CASE R.target # g
      BY <1>4, <2>2, <3>2
    <3> QED
      BY <3>1, <3>2
  <2>4. R.pc = "condition" /\ R.err = "none" => \A h \in R.own : R.p \in S.gws[h].refs
    <3>1. SUFFICES ASSUME R.pc = "condition", R.err = "none", NEW h \in R.own
                   PROVE  R.p \in S.gws[h].refs
      OBVIOUS
    <3>2. R.p \in R.gws[h].refs /\ h \in DOMAIN R.gws
      BY <1>2, <2>2, <3>1
    <3>3. CASE h = g
      BY <1>r, <1>2, <1>5, <3>1, <3>2, <3>3
    <3>4. CASE h # g
      BY <1>5, <3>2, <3>4
    <3> QED
      BY <3>3, <3>4
  <2> QED
    BY <1>10, <2>2, <2>3, <2>4 DEF ClaimHeld
<1>14. RefsListed(k)'
  <2>1. SUFFICES ASSUME R.mode # "apply"
                 PROVE  RefsListed(k)'
    BY <1>10 DEF RefsListed
  <2>2. R.own = {} /\ g \in R.inv
    BY <1>1, <1>2, <2>1 DEF WorkerInv, CopiesCurrent
  <2>3. ASSUME NEW h \in Gateways, R.p \in gw'[h].refs
        PROVE  h \in R.inv /\ R.p \in S.gws[h].refs
    <3>1. R.p \in gw[h].refs => h \in R.inv /\ R.p \in R.gws[h].refs
      BY <1>r, <1>1, <2>1 DEF WorkerInv, RefsListed, Listed
    <3>2. CASE h = g
      BY <1>r, <1>4, <1>5, <2>1, <2>2, <2>3, <3>1, <3>2
    <3>3. CASE h # g
      BY <1>2, <1>4, <1>5, <2>3, <3>1, <3>3
    <3> QED
      BY <3>2, <3>3
  <2>4. ASSUME R.pc = "condition", NEW h \in R.inv
        PROVE  R.p \notin S.gws[h].refs
    <3>1. R.p \notin R.gws[h].refs /\ h \in DOMAIN R.gws
      BY <1>1, <1>2, <2>1, <2>4 DEF WorkerInv, RefsListed
    <3>2. CASE h = g
      BY <1>r, <1>2, <1>5, <2>4, <3>1, <3>2
    <3>3. CASE h # g
      BY <1>5, <3>1, <3>3
    <3> QED
      BY <3>2, <3>3
  <2> QED
    BY <1>r, <1>10, <2>3, <2>4 DEF RefsListed
<1> QED
  BY <1>8, <1>9, <1>11, <1>12, <1>13, <1>14 DEF Inv, WorkerInv

\* What a write of the back reference of its target does to the gateway and to the worker that makes it.
BackPut(k, t, b, c, r) ==
  LET R == rc[k]
      S == rc'[k]
  IN /\ gw' = [gw EXCEPT ![t] = r]
     /\ r.exists = gw[t].exists /\ r.late = gw[t].late /\ r.raced = gw[t].raced /\ r.refs = gw[t].refs
     /\ r.back[k] = b /\ \A j \in Kinds : j # k => r.back[j] = gw[t].back[j]
     /\ S.pc = c /\ S.p = R.p /\ S.mode = R.mode /\ S.target = R.target /\ S.back = b
     /\ S.gws = R.gws /\ S.inv = R.inv /\ S.own = R.own /\ S.err = R.err
     /\ S.fresh = R.fresh \ {t} /\ S.pfresh = R.pfresh /\ ~S.tfresh /\ S.copy = R.copy /\ S.i = R.i
     /\ rc' \in [Kinds -> Reconciling]
     /\ \A j \in Kinds : j # k => rc'[j] = Outdated(t)[j]

\* What the write of a back reference changes.
LEMMA BackFields ==
  ASSUME Typed, NEW k \in Kinds, NEW t \in Gateways, t = rc[k].target, rc[k].tfresh,
         NEW b \in Policies \cup {"none"}, b # "none" => Kind(b) = k, NEW c \in Stages, WriteBack(k, b, c)
  PROVE  \E r \in GatewayObject : BackPut(k, t, b, c, r)
<1>r. PICK r : r = [gw[t] EXCEPT !.back[k] = b]
  OBVIOUS
<1>w. gw' = [gw EXCEPT ![t] = r]
  BY <1>r DEF WriteBack, BackRefAnnotation
<1> DEFINE R == rc[k]
           S == rc'[k]
           O == Outdated(t)[k]
<1>1. R \in Reconciling /\ gw[t] \in GatewayObject
  BY DEF Typed
<1>2. /\ r \in GatewayObject
      /\ r.exists = gw[t].exists /\ r.late = gw[t].late /\ r.raced = gw[t].raced /\ r.refs = gw[t].refs
      /\ r.back[k] = b /\ \A j \in Kinds : j # k => r.back[j] = gw[t].back[j]
  <2>1. PICK f : f = [gw[t].back EXCEPT ![k] = b]
    OBVIOUS
  <2>2. gw[t].back \in Backs
    BY <1>1 DEF GatewayObject
  <2>3. f \in Backs /\ f[k] = b /\ \A j \in Kinds : j # k => f[j] = gw[t].back[j]
    BY <2>1, <2>2 DEF Backs
  <2>4. r = [gw[t] EXCEPT !.back = f]
    BY <1>r, <2>1
  <2> QED
    BY <1>1, <2>3, <2>4 DEF GatewayObject
<1>3. /\ O \in Reconciling
      /\ O.pc = R.pc /\ O.p = R.p /\ O.mode = R.mode /\ O.target = R.target /\ O.back = R.back
      /\ O.gws = R.gws /\ O.inv = R.inv /\ O.own = R.own /\ O.err = R.err /\ O.copy = R.copy /\ O.i = R.i
      /\ O.fresh = R.fresh \ {t} /\ O.pfresh = R.pfresh /\ (O.tfresh => R.tfresh /\ R.target # t)
  BY OutdatedFields, SMTT(30)
<1>4. Outdated(t) \in [Kinds -> Reconciling]
  <2>1. \A j \in Kinds : Outdated(t)[j] \in Reconciling
    BY OutdatedFields, SMTT(30)
  <2> QED
    BY <2>1 DEF Outdated
<1>5. /\ S = [O EXCEPT !.back = b, !.pc = c] /\ rc' = [Outdated(t) EXCEPT ![k] = S]
      /\ \A j \in Kinds : j # k => rc'[j] = Outdated(t)[j]
  <2>1. rc' = [Outdated(t) EXCEPT ![k].back = b, ![k].pc = c]
    BY DEF WriteBack
  <2> QED
    BY <1>4, <2>1
<1>6. /\ S \in Reconciling
      /\ S.pc = c /\ S.p = R.p /\ S.mode = R.mode /\ S.target = R.target /\ S.back = b
      /\ S.gws = R.gws /\ S.inv = R.inv /\ S.own = R.own /\ S.err = R.err /\ S.copy = R.copy /\ S.i = R.i
      /\ S.fresh = R.fresh \ {t} /\ S.pfresh = R.pfresh /\ ~S.tfresh
  <2> HIDE DEF O, S
  <2> QED
    BY <1>3, <1>5 DEF Reconciling
<1>7. rc' \in [Kinds -> Reconciling]
  BY <1>4, <1>5, <1>6
<1>8. BackPut(k, t, b, c, r)
  BY <1>w, <1>2, <1>5, <1>6, <1>7 DEF BackPut
<1> QED
  BY <1>2, <1>8

\* A worker writes the back reference of its target: it claims a gateway nobody has, or gives its own up.
LEMMA WriteBackKeeps ==
  ASSUME Inv, NEW k \in Kinds, rc[k].pc = "claim", rc[k].tfresh, rc[k].target \in Gateways,
         NEW b \in Policies \cup {"none"}, NEW c \in Stages, WriteBack(k, b, c),
         UNCHANGED <<pol, attrs, res, probes>>,
         \/ rc[k].mode = "apply" /\ rc[k].back = "none" /\ b = rc[k].p /\ c = "refs"
         \/ rc[k].mode = "delete" /\ rc[k].back = rc[k].p /\ b = "none" /\ c \in {"rediff", "refs"}
  PROVE  Inv'
<1>t. PICK t \in Gateways : t = rc[k].target
  OBVIOUS
<1> USE <1>t
<1> DEFINE R == rc[k]
           S == rc'[k]
<1>1. R \in Reconciling /\ WorkerInv(k) /\ Typed /\ gw[t] \in GatewayObject
  BY DEF Inv, Typed
<1>2. /\ gw[t].back[k] = R.back /\ R.p \in Policies /\ Kind(R.p) = k
      /\ R.fresh \subseteq R.own \cup R.inv /\ R.own \subseteq Gateways /\ R.inv \subseteq Gateways
  BY <1>1, KindOfPolicy DEF WorkerInv, CopiesCurrent, PolicyHeld, Reconciling
<1>r. PICK r \in GatewayObject : BackPut(k, t, b, c, r)
  <2>1. b # "none" => Kind(b) = k
    BY <1>2
  <2> QED
    BY <1>1, <2>1, BackFields
<1>3. /\ r.exists = gw[t].exists /\ r.late = gw[t].late /\ r.refs = gw[t].refs
      /\ r.back[k] = b /\ \A j \in Kinds : j # k => r.back[j] = gw[t].back[j]
  BY <1>r DEF BackPut
<1>6. \A j \in Kinds : j # k => rc'[j] = Outdated(t)[j]
  BY <1>r DEF BackPut
<1>7. /\ S.pc = c /\ S.p = R.p /\ S.mode = R.mode /\ S.target = R.target /\ S.back = b
      /\ S.gws = R.gws /\ S.inv = R.inv /\ S.own = R.own /\ S.err = R.err
      /\ S.fresh = R.fresh \ {t} /\ S.pfresh = R.pfresh /\ ~S.tfresh
  BY <1>r DEF BackPut
<1>8. rc' \in [Kinds -> Reconciling] /\ gw' = [gw EXCEPT ![t] = r]
  BY <1>r DEF BackPut
<1>9. gw'[t] = r /\ \A h \in Gateways : h # t => gw'[h] = gw[h]
  BY <1>1, <1>8 DEF Typed
<1>10. \A p \in r.refs : ~r.late /\ ~pol[p].ghost =>
          pol[p].finalizer /\ (pol[p].phase = "live" => r.back[Kind(p)] = p)
  <2>1. SUFFICES ASSUME NEW p \in gw[t].refs, ~gw[t].late, ~pol[p].ghost
                 PROVE  pol[p].finalizer /\ (pol[p].phase = "live" => r.back[Kind(p)] = p)
    BY <1>3
  <2>2. p \in Policies /\ Kind(p) \in Kinds
    BY <1>1, KindOfPolicy DEF GatewayObject
  <2>3. pol[p].finalizer /\ (pol[p].phase = "live" => gw[t].back[Kind(p)] = p)
    BY <2>1 DEF Inv, RefsHeldByClaim
  <2>4. R.mode = "delete" => pol[R.p].phase = "deleting"
    BY <1>1 DEF WorkerInv, PolicyHeld
  <2>5. CASE Kind(p) # k
    BY <1>3, <2>2, <2>3, <2>5
  <2>6. CASE Kind(p) = k
    BY <1>2, <2>2, <2>3, <2>4, <2>6, KindOfPolicy, SMTT(30)
  <2> QED
    BY <2>5, <2>6
<1>11. Typed' /\ ObjectInv' /\ RefsHeldByClaim'
  <2>1. ~r.exists => r.refs = {}
    BY <1>3 DEF Inv, ObjectInv
  <2> QED
    BY <1>3, <1>8, <1>10, <2>1, GatewayWritten
<1>12. ASSUME NEW j \in Kinds, j # k
       PROVE  WorkerInv(j)'
  <2>1. /\ r.back[j] = gw[t].back[j] /\ rc'[j] = Outdated(t)[j]
        /\ \A q \in Policies : Kind(q) = j /\ q \in r.refs => q \in gw[t].refs
    BY <1>3, <1>6, <1>12
  <2>2. Elsewhere(j)
    BY <1>8, <1>1, <1>3, <2>1, OthersSeeWrite
  <2> QED
    BY <1>1, <1>11, <2>2, Undisturbed DEF Inv
<1>13. PolicyHeld(k)'
  BY <1>1, <1>7 DEF WorkerInv, PolicyHeld
<1>14. CopiesCurrent(k)'
  <2>1. ~S.tfresh
    BY <1>7
  <2>2. \A h \in S.fresh : gw'[h] = S.gws[h] /\ gw'[h].exists
    <3>1. \A h \in R.fresh : h \in Gateways /\ gw[h] = R.gws[h] /\ gw[h].exists
      BY <1>1, <1>2 DEF WorkerInv, CopiesCurrent
    <3>2. S.fresh = R.fresh \ {t} /\ S.gws = R.gws
      BY <1>7
    <3> HIDE DEF S, R
    <3> QED
      BY <1>9, <3>1, <3>2, SMTT(30)
  <2> QED
    BY <1>1, <1>7, <2>1, <2>2 DEF WorkerInv, CopiesCurrent
<1>15. ClaimHeld(k)'
  <2>1. S.mode = "apply" => S.back = S.p /\ gw'[S.target].back[k] = S.p /\ S.pc = "refs"
    <3>1. gw'[t].back[k] = b
      BY <1>3, <1>9
    <3>2. S.target = t /\ S.back = b /\ S.pc = c /\ S.p = R.p /\ S.mode = R.mode
      BY <1>7
    <3>3. R.mode = "apply" => b = R.p /\ c = "refs"
      OBVIOUS
    <3> HIDE DEF S, R
    <3> QED
      BY <3>1, <3>2, <3>3
  <2> QED
    BY <2>1 DEF ClaimHeld
<1>16. RefsListed(k)'
  <2>1. \A h \in Gateways : gw'[h].refs = gw[h].refs
    BY <1>3, <1>9
  <2> QED
    BY <1>1, <1>7, <2>1 DEF WorkerInv, RefsListed, Listed
<1>17. Released(k)'
  BY <1>1, <1>7, ReleasedKept DEF WorkerInv
<1> QED
  BY <1>11, <1>12, <1>13, <1>14, <1>15, <1>16, <1>17 DEF Inv, WorkerInv

-----------------------------------------------------------------------------
(* The marks on the gateways *)

\* The stages a worker may go on to without writing anything.
MayGo(k, c) ==
  LET R == rc[k]
  IN \/ R.pc = "claim" /\ R.mode = "apply" /\ c = "refs" /\ R.back = R.p
     \/ R.pc = "claim" /\ R.mode # "apply" /\ c \in {"rediff", "refs"}
     \/ /\ R.pc = "refs" /\ c = "condition"
        /\ \A g \in R.inv : R.p \notin R.gws[g].refs
        /\ \A g \in R.own : R.p \in R.gws[g].refs
     \/ R.pc = "condition" /\ R.mode = "apply" /\ c = "status"
     \/ R.pc = "condition" /\ R.mode = "delete" /\ c = "remove"

\* A worker goes on without writing anything: from the claim to the references, and so on.
LEMMA GotoKeeps ==
  ASSUME Inv, NEW k \in Kinds, NEW c \in Stages, Goto(k, c), UNCHANGED <<gw, pol, attrs, res, probes>>, MayGo(k, c)
  PROVE  Inv'
<1> DEFINE R == rc[k]
           S == rc'[k]
<1>1. R \in Reconciling /\ WorkerInv(k) /\ Typed
  BY DEF Inv, Typed
<1>2. /\ S \in Reconciling /\ rc' = [rc EXCEPT ![k] = S]
      /\ S.pc = c /\ S.p = R.p /\ S.mode = R.mode /\ S.target = R.target /\ S.back = R.back
      /\ S.gws = R.gws /\ S.inv = R.inv /\ S.own = R.own /\ S.err = R.err
      /\ S.fresh = R.fresh /\ S.tfresh = R.tfresh /\ S.pfresh = R.pfresh
  BY <1>1, GotoFields
<1>3. PolicyHeld(k)'
  BY <1>1, <1>2 DEF WorkerInv, PolicyHeld, MayGo
<1>4. CopiesCurrent(k)'
  BY <1>1, <1>2, SameCopies DEF WorkerInv
<1>5. ClaimHeld(k)'
  BY <1>1, <1>2 DEF WorkerInv, ClaimHeld, MayGo
<1>6. RefsListed(k)'
  BY <1>1, <1>2 DEF WorkerInv, RefsListed, Listed, MayGo
<1>7. Released(k)'
  BY <1>1, <1>2, SMTT(30) DEF WorkerInv, Released, MayGo
<1> QED
  BY <1>2, <1>3, <1>4, <1>5, <1>6, <1>7, QuietStep DEF WorkerInv

\* The claim of the target: made, there already, or refused.
LEMMA ReconcileTargetBackReferenceKeeps ==
  ASSUME Inv, NEW k \in Kinds, ReconcileTargetBackReference(k)
  PROVE  Inv'
<1> DEFINE R == rc[k]
<1>1. /\ R.pc = "claim" /\ R.mode = "apply" /\ R.p \in Policies /\ R.target \in Gateways /\ "refs" \in Stages
      /\ UNCHANGED <<attrs, pol, res, probes>>
  BY DEF ReconcileTargetBackReference, Inv, WorkerInv, PolicyHeld, Stages
<1>2. CASE R.back = R.p /\ Goto(k, "refs") /\ UNCHANGED gw
  BY <1>1, <1>2, GotoKeeps DEF MayGo
<1>3. CASE Abort(k) /\ UNCHANGED gw
  BY <1>1, <1>3, AbortKeeps
<1>4. CASE R.back = "none" /\ WriteBack(k, R.p, "refs")
  <2>1. CASE R.tfresh
    BY <1>1, <1>4, <2>1, WriteBackKeeps
  <2>2. CASE ~R.tfresh
    BY <1>1, <1>4, <2>2, AbortKeeps DEF WriteBack
  <2> QED
    BY <2>1, <2>2
<1> QED
  BY <1>2, <1>3, <1>4 DEF ReconcileTargetBackReference

\* The claim of the target is given up.
LEMMA DeleteTargetBackReferenceKeeps ==
  ASSUME Inv, NEW k \in Kinds, DeleteTargetBackReference(k)
  PROVE  Inv'
<1> DEFINE R == rc[k]
<1>1. /\ R.pc = "claim" /\ R.mode # "apply" /\ R.p \in Policies /\ R.target \in Gateways \cup {"none"}
      /\ AfterClaim(k) \in {"rediff", "refs"} /\ AfterClaim(k) \in Stages
      /\ R.target # "none" => R.mode = "delete"
      /\ UNCHANGED <<attrs, pol, res, probes>>
  BY DEF DeleteTargetBackReference, Inv, Typed, Reconciling, WorkerInv, PolicyHeld, Stages, AfterClaim
<1>2. CASE Goto(k, AfterClaim(k)) /\ UNCHANGED gw
  BY <1>1, <1>2, GotoKeeps DEF MayGo
<1>3. CASE R.target # "none" /\ R.back = R.p /\ WriteBack(k, "none", AfterClaim(k))
  <2>1. CASE R.tfresh
    BY <1>1, <1>3, <2>1, WriteBackKeeps
  <2>2. CASE ~R.tfresh
    BY <1>1, <1>3, <2>2, AbortKeeps DEF WriteBack
  <2> QED
    BY <2>1, <2>2
<1> QED
  BY <1>2, <1>3 DEF DeleteTargetBackReference

\* The second diff of a DNS deletion lists no gateway the first did not.
LEMMA RecomputeGatewayDiffsKeeps ==
  ASSUME Inv, NEW k \in Kinds, RecomputeGatewayDiffs(k)
  PROVE  Inv'
<1> DEFINE R == rc[k]
           S == rc'[k]
           inv == {g \in Gateways : gw[g].exists /\ R.p \in gw[g].refs}
<1>1. /\ R.pc = "rediff" /\ R \in Reconciling /\ WorkerInv(k) /\ UNCHANGED <<gw, pol, attrs, res, probes>>
  BY DEF RecomputeGatewayDiffs, Inv, Typed
<1>2. S = [R EXCEPT !.gws = [g \in inv |-> gw[g]], !.fresh = inv, !.own = {}, !.inv = inv, !.pc = "refs"]
      /\ rc' = [rc EXCEPT ![k] = S]
  <2>1. /\ {} \cup {g \in Gateways \ {} : gw[g].exists /\ R.p \in gw[g].refs} = inv
        /\ {g \in Gateways \ {} : gw[g].exists /\ R.p \in gw[g].refs} = inv
    OBVIOUS
  <2> HIDE DEF inv
  <2>2. ListGateways(k, {}) = [R EXCEPT !.gws = [g \in inv |-> gw[g]], !.fresh = inv, !.own = {}, !.inv = inv,
                                        !.pc = "delete"]
    BY <2>1 DEF ListGateways
  <2>3. [ListGateways(k, {}) EXCEPT !.pc = "refs"]
          = [R EXCEPT !.gws = [g \in inv |-> gw[g]], !.fresh = inv, !.own = {}, !.inv = inv, !.pc = "refs"]
    BY <1>1, <2>2 DEF Reconciling
  <2> QED
    BY <2>3 DEF RecomputeGatewayDiffs, Inv, Typed
<1>3. [g \in inv |-> gw[g]] \in Copies /\ DOMAIN [g \in inv |-> gw[g]] = inv /\ inv \in SUBSET Gateways
  BY CopiesMade DEF Inv, Typed
<1>4. /\ S \in Reconciling
      /\ S.pc = "refs" /\ S.p = R.p /\ S.mode = R.mode /\ S.target = R.target /\ S.back = R.back
      /\ S.gws = [g \in inv |-> gw[g]] /\ S.inv = inv /\ S.own = {} /\ S.err = R.err
      /\ S.fresh = inv /\ S.tfresh = R.tfresh /\ S.pfresh = R.pfresh
  <2>1. PICK f \in Copies : f = [g \in inv |-> gw[g]]
    BY <1>3
  <2>2. "refs" \in Stages /\ {} \in SUBSET Gateways
    BY DEF Stages
  <2>3. S = Listing(R, f, inv, {}, inv, "refs")
    BY <1>2, <2>1 DEF Listing
  <2> HIDE DEF inv, R, S
  <2> QED
    BY <1>1, <1>3, <2>1, <2>2, <2>3, ListFields, SMTT(30)
<1>5. R.mode # "apply" /\ R.p \in Policies
  BY <1>1 DEF WorkerInv, PolicyHeld
<1>6. \A g \in inv : g \in R.inv
  BY <1>1, <1>5 DEF WorkerInv, RefsListed, Listed
<1>7. PolicyHeld(k)'
  BY <1>1, <1>4 DEF WorkerInv, PolicyHeld
<1>8. CopiesCurrent(k)'
  <2>1. \A g \in inv : gw[g].exists
    OBVIOUS
  <2>2. R.tfresh /\ R.target # "none" => gw[R.target].back[k] = R.back
    BY <1>1 DEF WorkerInv, CopiesCurrent
  <2> HIDE DEF inv
  <2> QED
    BY <1>1, <1>3, <1>4, <2>1, <2>2 DEF CopiesCurrent
<1>9. ClaimHeld(k)'
  BY <1>4, <1>5 DEF ClaimHeld
<1>10. RefsListed(k)'
  BY <1>1, <1>4 DEF RefsListed, Inv, ObjectInv
<1>11. Released(k)'
  <2> HIDE DEF inv
  <2> QED
    BY <1>1, <1>4, <1>6, SMTT(30) DEF WorkerInv, Released
<1> QED
  BY <1>1, <1>2, <1>4, <1>7, <1>8, <1>9, <1>10, <1>11, QuietStep DEF WorkerInv

\* A write through a copy from the diff, accepted or refused.
LEMMA WriteListedKeeps ==
  ASSUME Inv, NEW k \in Kinds, NEW g \in rc[k].own \cup rc[k].inv, NEW r \in GatewayObject, WriteListed(k, g, r),
         UNCHANGED <<pol, attrs, res, probes>>, rc[k].pc \in {"refs", "condition"},
         LET o == rc[k].gws[g]
         IN /\ r.back = o.back /\ r.exists = o.exists /\ r.late = o.late
            /\ \/ r.refs = o.refs
               \/ rc[k].pc = "refs" /\ r.refs = o.refs \ {rc[k].p}
               \/ rc[k].pc = "refs" /\ r.refs = o.refs \cup {rc[k].p} /\ g \in rc[k].own
  PROVE  Inv'
<1>1. CASE g \in rc[k].fresh
  <2>1. gw[g] = rc[k].gws[g]
    BY <1>1 DEF Inv, WorkerInv, CopiesCurrent
  <2>2. MarksWritten(k, g, r)
    BY <2>1 DEF MarksWritten
  <2> QED
    BY <1>1, <2>2, ListedWriteKeeps
<1>2. CASE g \notin rc[k].fresh
  <2>1. Abort(k) /\ UNCHANGED gw
    BY <1>2 DEF WriteListed
  <2> QED
    BY <2>1, AbortKeeps
<1> QED
  BY <1>1, <1>2

\* A worker's copy of a gateway is one.
LEMMA CopyType ==
  ASSUME Inv, NEW k \in Kinds, NEW g \in rc[k].own \cup rc[k].inv
  PROVE  rc[k].gws[g] \in GatewayObject
<1>1. rc[k].gws \in Copies /\ g \in DOMAIN rc[k].gws
  BY DEF Inv, Typed, Reconciling, WorkerInv, CopiesCurrent
<1> QED
  BY <1>1, CopiesFacts

\* The references on the gateways to leave and on the target.
LEMMA ReconcileGatewayPolicyReferencesKeeps ==
  ASSUME Inv, NEW k \in Kinds, ReconcileGatewayPolicyReferences(k)
  PROVE  Inv'
<1> DEFINE R == rc[k]
           missing == {g \in R.own : R.p \notin R.gws[g].refs}
<1>1. R.pc = "refs" /\ R.p \in Policies /\ UNCHANGED <<attrs, pol, res, probes>>
  BY DEF ReconcileGatewayPolicyReferences, Inv, WorkerInv, PolicyHeld
<1>2. ASSUME NEW g \in R.inv, WriteListed(k, g, [R.gws[g] EXCEPT !.refs = R.gws[g].refs \ {R.p}])
      PROVE  Inv'
  <2>1. PICK r : r = [R.gws[g] EXCEPT !.refs = R.gws[g].refs \ {R.p}]
    OBVIOUS
  <2>2. /\ r \in GatewayObject /\ r.back = R.gws[g].back /\ r.exists = R.gws[g].exists
        /\ r.late = R.gws[g].late /\ r.refs = R.gws[g].refs \ {R.p}
    <3>1. PICK o \in GatewayObject : o = R.gws[g]
      BY CopyType
    <3>2. PICK refs \in SUBSET Policies : refs = o.refs \ {R.p}
      BY <1>1 DEF GatewayObject
    <3>3. r = [o EXCEPT !.refs = refs]
      BY <2>1, <3>1, <3>2
    <3> QED
      BY <3>1, <3>2, <3>3 DEF GatewayObject
  <2> QED
    BY <1>1, <1>2, <2>1, <2>2, WriteListedKeeps
<1>3. ASSUME NEW g \in R.own, WriteListed(k, g, [R.gws[g] EXCEPT !.refs = R.gws[g].refs \cup {R.p}])
      PROVE  Inv'
  <2>1. PICK r : r = [R.gws[g] EXCEPT !.refs = R.gws[g].refs \cup {R.p}]
    OBVIOUS
  <2>2. /\ r \in GatewayObject /\ r.back = R.gws[g].back /\ r.exists = R.gws[g].exists
        /\ r.late = R.gws[g].late /\ r.refs = R.gws[g].refs \cup {R.p}
    <3>1. PICK o \in GatewayObject : o = R.gws[g]
      BY CopyType
    <3>2. PICK refs \in SUBSET Policies : refs = o.refs \cup {R.p}
      BY <1>1 DEF GatewayObject
    <3>3. r = [o EXCEPT !.refs = refs]
      BY <2>1, <3>1, <3>2
    <3> QED
      BY <3>1, <3>2, <3>3 DEF GatewayObject
  <2> QED
    BY <1>1, <1>3, <2>1, <2>2, WriteListedKeeps
<1>4. CASE ToLeave(k) = {} /\ missing = {} /\ Goto(k, "condition") /\ UNCHANGED gw
  <2>1. "condition" \in Stages
    BY DEF Stages
  <2> QED
    BY <1>1, <1>4, <2>1, GotoKeeps DEF ToLeave, MayGo
<1> QED
  BY <1>2, <1>3, <1>4 DEF ReconcileGatewayPolicyReferences, ToLeave

\* The condition on the gateways listed.
LEMMA updateGatewayConditionKeeps ==
  ASSUME Inv, NEW k \in Kinds, updateGatewayCondition(k)
  PROVE  Inv'
<1> DEFINE R == rc[k]
<1>1. /\ R.pc = "condition" /\ R.p \in Policies /\ R.err \in Failures /\ UNCHANGED <<attrs, pol, res, probes>>
      /\ R.mode \in {"apply", "delete", "cleanup"}
  BY DEF updateGatewayCondition, Inv, Typed, Reconciling, WorkerInv, PolicyHeld
<1>2. ASSUME NEW g \in R.own \cup R.inv, NEW c \in [policy : Policies \cup {"none"}, reason : AllReasons],
             WriteListed(k, g, [R.gws[g] EXCEPT !.cond[k] = c])
      PROVE  Inv'
  <2>1. PICK r : r = [R.gws[g] EXCEPT !.cond[k] = c]
    OBVIOUS
  <2>2. /\ r \in GatewayObject /\ r.back = R.gws[g].back /\ r.exists = R.gws[g].exists
        /\ r.late = R.gws[g].late /\ r.refs = R.gws[g].refs
    <3>1. PICK o \in GatewayObject : o = R.gws[g]
      BY CopyType
    <3>2. PICK d : d = [o.cond EXCEPT ![k] = c]
      OBVIOUS
    <3>3. d \in [Kinds -> [policy : Policies \cup {"none"}, reason : AllReasons]]
      BY <3>2 DEF GatewayObject
    <3>4. r = [o EXCEPT !.cond = d]
      BY <2>1, <3>1, <3>2
    <3>5. /\ r \in GatewayObject /\ r.back = o.back /\ r.exists = o.exists /\ r.late = o.late /\ r.refs = o.refs
      BY <3>3, <3>4 DEF GatewayObject
    <3> QED
      BY <3>1, <3>5
  <2> QED
    BY <1>1, <1>2, <2>1, <2>2, WriteListedKeeps
<1>3. [policy |-> R.p, reason |-> Reason(k)] \in [policy : Policies \cup {"none"}, reason : AllReasons]
  BY <1>1 DEF Reason, AllReasons, Failures
<1>4. NoCondition \in [policy : Policies \cup {"none"}, reason : AllReasons]
  BY DEF NoCondition, AllReasons, Failures
<1>5. CASE R.mode # "cleanup" /\ Goto(k, IF R.mode = "apply" THEN "status" ELSE "remove") /\ UNCHANGED gw
  <2>1. "status" \in Stages /\ "remove" \in Stages
    BY DEF Stages
  <2> QED
    BY <1>1, <1>5, <2>1, GotoKeeps DEF MayGo
<1>6. CASE Return(k, k = "tls") /\ UNCHANGED gw
  BY <1>1, <1>6, ReturnKeeps DEF Return
<1> QED
  BY <1>2, <1>3, <1>4, <1>5, <1>6 DEF updateGatewayCondition

-----------------------------------------------------------------------------
(* The end of a reconcile, and the policies *)

\* What a change of policy p leaves of it, as far as gateways may refer to it.
LEMMA PolicyWritten ==
  ASSUME Inv, NEW p \in Policies, NEW q \in PolicyObject, pol' = [pol EXCEPT ![p] = q], gw' = gw,
         rc' \in [Kinds -> Reconciling], UNCHANGED <<attrs, res, probes>>,
         q.phase = "absent" => ~q.finalizer,
         q.phase = "deleting" => q.finalizer,
         q.phase # "absent" => q.target \in Gateways,
         pol[p].ghost => q.ghost,
         \/ \A g \in Gateways : p \notin gw[g].refs
         \/ (pol[p].finalizer => q.finalizer) /\ (q.phase = "live" => pol[p].phase = "live")
         \/ ~pol[p].finalizer
  PROVE  Typed' /\ ObjectInv' /\ RefsHeldByClaim'
<1>1. pol'[p] = q /\ \A o \in Policies : o # p => pol'[o] = pol[o]
  BY DEF Inv, Typed
<1>2. Typed'
  BY DEF Inv, Typed
<1>3. ObjectInv'
  BY <1>1, SMTT(30) DEF Inv, ObjectInv
<1>4. RefsHeldByClaim'
  <2>1. SUFFICES ASSUME NEW g \in Gateways, NEW o \in gw[g].refs, ~gw[g].late, ~pol'[o].ghost
                 PROVE  pol'[o].finalizer /\ (pol'[o].phase = "live" => gw[g].back[Kind(o)] = o)
    BY DEF RefsHeldByClaim
  <2>2. o \in Policies
    BY DEF Inv, Typed, GatewayObject
  <2>3. ~pol[o].ghost => pol[o].finalizer /\ (pol[o].phase = "live" => gw[g].back[Kind(o)] = o)
    BY <2>1 DEF Inv, RefsHeldByClaim
  <2> QED
    BY <1>1, <2>1, <2>2, <2>3
<1> QED
  BY <1>2, <1>3, <1>4

\* The status of the policy is written, or not.
LEMMA updateStatusKeeps ==
  ASSUME Inv, NEW k \in Kinds, updateStatus(k)
  PROVE  Inv'
<1> DEFINE R == rc[k]
<1>1. /\ R.p \in Policies /\ Kind(R.p) = k /\ R.err \in Failures
      /\ rc' = [rc EXCEPT ![k] = Idle] /\ UNCHANGED <<gw, attrs, res, probes>>
  BY DEF updateStatus, Return, Inv, Typed, Reconciling, WorkerInv, PolicyHeld
<1>2. rc' \in [Kinds -> Reconciling] /\ rc'[k] = Idle /\ rc' = [rc EXCEPT ![k] = rc'[k]]
  BY <1>1, ConstantTypes DEF Inv, Typed
<1>3. CASE UNCHANGED pol
  BY <1>1, <1>3, ReturnKeeps
<1>4. CASE pol' = [pol EXCEPT ![R.p].ready = readyCondition(k)]
  <2>1. PICK p \in Policies : p = R.p
    BY <1>1
  <2>2. PICK q : q = [pol[p] EXCEPT !.ready = readyCondition(k)]
    OBVIOUS
  <2>3. readyCondition(k) \in AllReasons \cup {"ok"} /\ pol[p] \in PolicyObject
    BY <1>1 DEF readyCondition, Inv, Typed, AllReasons, Failures
  <2>4. /\ q \in PolicyObject /\ q.phase = pol[p].phase /\ q.finalizer = pol[p].finalizer
        /\ q.target = pol[p].target /\ q.ghost = pol[p].ghost
    BY <2>2, <2>3 DEF PolicyObject
  <2>5. pol' = [pol EXCEPT ![p] = q]
    BY <1>4, <2>1, <2>2 DEF Inv, Typed
  <2>6. Typed' /\ ObjectInv' /\ RefsHeldByClaim'
    BY <1>1, <1>2, <2>4, <2>5, PolicyWritten DEF Inv, ObjectInv
  <2>7. \A o \in Policies : Kind(o) # k => pol'[o] = pol[o]
    BY <1>1, <2>1, <2>5 DEF Inv, Typed
  <2> QED
    BY <1>1, <1>2, <2>6, <2>7, IdleKnowsNothing, OwnStep
<1> QED
  BY <1>3, <1>4 DEF updateStatus

\* The policy disappears: no gateway refers to it any more.
LEMMA RemoveFinalizerKeeps ==
  ASSUME Inv, NEW k \in Kinds, RemoveFinalizer(k)
  PROVE  Inv'
<1> DEFINE R == rc[k]
<1>1. /\ R.pc = "remove" /\ R.mode = "delete" /\ R.p \in Policies /\ Kind(R.p) = k /\ WorkerInv(k)
      /\ rc' = [rc EXCEPT ![k] = Idle] /\ UNCHANGED <<gw, attrs, res, probes>>
  BY DEF RemoveFinalizer, Return, Inv, WorkerInv, PolicyHeld
<1>2. rc' \in [Kinds -> Reconciling] /\ rc'[k] = Idle /\ rc' = [rc EXCEPT ![k] = rc'[k]]
  BY <1>1, ConstantTypes DEF Inv, Typed
<1>3. CASE UNCHANGED pol
  BY <1>1, <1>3, ReturnKeeps
<1>4. CASE pol' = [pol EXCEPT ![R.p] = [Absent EXCEPT !.ghost = pol[R.p].ghost]]
  <2>1. PICK p \in Policies : p = R.p
    BY <1>1
  <2>2. PICK q : q = [Absent EXCEPT !.ghost = pol[p].ghost]
    OBVIOUS
  <2>3. q \in PolicyObject /\ q.phase = "absent" /\ q.finalizer = FALSE /\ q.ghost = pol[p].ghost
    <3>1. pol[p].ghost \in BOOLEAN /\ Absent \in PolicyObject /\ Absent.phase = "absent" /\ Absent.finalizer = FALSE
      BY ConstantTypes DEF Inv, Typed, PolicyObject, Absent
    <3> QED
      BY <2>2, <3>1 DEF PolicyObject
  <2>4. pol' = [pol EXCEPT ![p] = q]
    BY <1>4, <2>1, <2>2
  <2>5. \A g \in Gateways : p \notin gw[g].refs
    BY <1>1, <2>1 DEF WorkerInv, RefsListed
  <2>6. Typed' /\ ObjectInv' /\ RefsHeldByClaim'
    BY <1>1, <1>2, <2>3, <2>4, <2>5, PolicyWritten
  <2>7. \A o \in Policies : Kind(o) # k => pol'[o] = pol[o]
    BY <1>1, <2>1, <2>4 DEF Inv, Typed
  <2> QED
    BY <1>1, <1>2, <2>6, <2>7, IdleKnowsNothing, OwnStep
<1> QED
  BY <1>3, <1>4 DEF RemoveFinalizer

-----------------------------------------------------------------------------
(* What users change *)

\* Policy p is changed behind the controllers: it keeps its finalizer, its deletion and its ghost.
LEMMA PolicyChangeKeeps ==
  ASSUME Inv, NEW p \in Policies, NEW q \in PolicyObject, pol' = [pol EXCEPT ![p] = q],
         \/ rc' = [k \in Kinds |-> [rc[k] EXCEPT !.pfresh = @ /\ rc[k].p # p]]
         \/ rc' = rc /\ q.phase = pol[p].phase,
         UNCHANGED <<gw, attrs, res, probes>>,
         q.phase = "absent" => ~q.finalizer,
         q.phase = "deleting" => q.finalizer,
         q.phase # "absent" => q.target \in Gateways,
         pol[p].ghost => q.ghost,
         pol[p].finalizer => q.finalizer /\ (q.phase = "live" => pol[p].phase = "live"),
         pol[p].phase = "deleting" => q.phase = "deleting"
  PROVE  Inv'
<1>1. ASSUME NEW j \in Kinds
      PROVE  /\ rc'[j] \in Reconciling
             /\ rc'[j].pc = rc[j].pc /\ rc'[j].p = rc[j].p /\ rc'[j].mode = rc[j].mode
             /\ rc'[j].target = rc[j].target /\ rc'[j].back = rc[j].back /\ rc'[j].gws = rc[j].gws
             /\ rc'[j].inv = rc[j].inv /\ rc'[j].own = rc[j].own /\ rc'[j].err = rc[j].err
             /\ rc'[j].fresh = rc[j].fresh /\ rc'[j].tfresh = rc[j].tfresh
             /\ rc'[j].pfresh => rc[j].pfresh /\ (rc[j].p # p \/ q.phase = pol[p].phase)
  <2>1. rc[j] \in Reconciling /\ rc[j].pfresh \in BOOLEAN
    BY DEF Inv, Typed, Reconciling
  <2>2. CASE rc' = rc /\ q.phase = pol[p].phase
    BY <2>1, <2>2
  <2>3. CASE rc' = [k \in Kinds |-> [rc[k] EXCEPT !.pfresh = @ /\ rc[k].p # p]]
    <3>1. PICK b \in BOOLEAN : b <=> rc[j].pfresh /\ rc[j].p # p
      OBVIOUS
    <3>2. b = (rc[j].pfresh /\ rc[j].p # p)
      BY <2>1, <3>1
    <3>3. PICK S : S = [rc[j] EXCEPT !.pfresh = b]
      OBVIOUS
    <3>4. rc'[j] = S
      BY <2>3, <3>2, <3>3
    <3>5. /\ S \in Reconciling
          /\ S.pc = rc[j].pc /\ S.p = rc[j].p /\ S.mode = rc[j].mode
          /\ S.target = rc[j].target /\ S.back = rc[j].back /\ S.gws = rc[j].gws
          /\ S.inv = rc[j].inv /\ S.own = rc[j].own /\ S.err = rc[j].err
          /\ S.fresh = rc[j].fresh /\ S.tfresh = rc[j].tfresh /\ S.pfresh = b
      BY <2>1, <3>3, SMTT(30) DEF Reconciling
    <3> QED
      BY <3>1, <3>4, <3>5
  <2> QED
    BY <2>2, <2>3
<1>2. rc' \in [Kinds -> Reconciling]
  <2>1. CASE rc' = rc
    BY <2>1 DEF Inv, Typed
  <2>2. CASE rc' = [k \in Kinds |-> [rc[k] EXCEPT !.pfresh = @ /\ rc[k].p # p]]
    BY <1>1, <2>2
  <2> QED
    BY <2>1, <2>2
<1>3. Typed' /\ ObjectInv' /\ RefsHeldByClaim'
  BY <1>2, PolicyWritten
<1>4. pol'[p] = q /\ \A o \in Policies : o # p => pol'[o] = pol[o]
  BY DEF Inv, Typed
<1>5. ASSUME NEW j \in Kinds
      PROVE  WorkerInv(j)'
  <2>1. Elsewhere(j)
    <3>1. \A o \in Policies :
            /\ pol[o].finalizer => pol'[o].finalizer
            /\ pol[o].phase = "deleting" => pol'[o].phase = "deleting"
            /\ pol[o].ghost => pol'[o].ghost
            /\ rc[j].p = o /\ rc'[j].pfresh => pol'[o].phase = pol[o].phase
      BY <1>1, <1>4, SMTT(30)
    <3> QED
      BY <1>1, <3>1, SMTT(30) DEF Elsewhere
  <2> QED
    BY <1>3, <2>1, Undisturbed DEF Inv
<1> QED
  BY <1>3, <1>5 DEF Inv

\* Users create, change and delete policies between any two calls of a reconcile.
LEMMA PolicyEditsKeep ==
  ASSUME Inv, NEW p \in Policies,
         \/ \E g \in Gateways : CreatePolicy(p, g) \/ Retarget(p, g)
         \/ DeletePolicy(p) \/ ChangeHealthCheck(p) \/ ChangeValidity(p)
  PROVE  Inv'
<1>1. /\ pol[p] \in PolicyObject
      /\ pol[p].phase = "absent" => ~pol[p].finalizer
      /\ pol[p].phase = "deleting" => pol[p].finalizer
      /\ pol[p].phase # "absent" => pol[p].target \in Gateways
      /\ pol[p].finalizer \in BOOLEAN /\ pol[p].ghost \in BOOLEAN
      /\ pol[p].valid \in BOOLEAN /\ pol[p].health \in BOOLEAN
  BY DEF Inv, Typed, ObjectInv, PolicyObject
<1>2. ASSUME NEW g \in Gateways, CreatePolicy(p, g)
      PROVE  Inv'
  <2>1. PICK q : q = [Created(g) EXCEPT !.ghost = pol[p].ghost]
    OBVIOUS
  <2>2. /\ q \in PolicyObject /\ q.phase = "live" /\ q.finalizer = FALSE /\ q.target = g /\ q.ghost = pol[p].ghost
    <3>1. PICK o \in PolicyObject : o = Created(g)
      BY ConstantTypes
    <3>2. o.phase = "live" /\ o.finalizer = FALSE /\ o.target = g
      BY <3>1 DEF Created, Absent
    <3> QED
      BY <1>1, <2>1, <3>1, <3>2 DEF PolicyObject
  <2>3. pol[p].phase = "absent" /\ ChangePolicy(p, q)
    BY <1>2, <2>1 DEF CreatePolicy
  <2> QED
    BY <1>1, <2>2, <2>3, PolicyChangeKeeps DEF ChangePolicy
<1>3. ASSUME NEW g \in Gateways, Retarget(p, g)
      PROVE  Inv'
  <2>1. PICK q : q = [pol[p] EXCEPT !.target = g]
    OBVIOUS
  <2>2. /\ q \in PolicyObject /\ q.phase = pol[p].phase /\ q.finalizer = pol[p].finalizer /\ q.target = g
        /\ q.ghost = pol[p].ghost
    BY <1>1, <2>1 DEF PolicyObject
  <2>3. ChangePolicy(p, q)
    BY <1>3, <2>1 DEF Retarget
  <2> QED
    BY <1>1, <2>2, <2>3, PolicyChangeKeeps DEF ChangePolicy
<1>4. CASE DeletePolicy(p)
  <2>1. PICK q : q = IF pol[p].finalizer THEN [pol[p] EXCEPT !.phase = "deleting"]
                     ELSE [Absent EXCEPT !.ghost = pol[p].ghost]
    OBVIOUS
  <2>2. ChangePolicy(p, q) /\ pol[p].phase = "live"
    BY <1>4, <2>1 DEF DeletePolicy
  <2>3. CASE pol[p].finalizer
    <3>1. /\ q \in PolicyObject /\ q.phase = "deleting" /\ q.finalizer = pol[p].finalizer /\ q.target = pol[p].target
          /\ q.ghost = pol[p].ghost
      BY <1>1, <2>1, <2>3 DEF PolicyObject
    <3> QED
      BY <1>1, <2>2, <2>3, <3>1, PolicyChangeKeeps DEF ChangePolicy
  <2>4. CASE ~pol[p].finalizer
    <3>1. q \in PolicyObject /\ q.phase = "absent" /\ q.finalizer = FALSE /\ q.ghost = pol[p].ghost
      <4>1. Absent \in PolicyObject /\ Absent.phase = "absent" /\ Absent.finalizer = FALSE
        BY ConstantTypes DEF Absent
      <4> QED
        BY <1>1, <2>1, <2>4, <4>1 DEF PolicyObject
    <3> QED
      BY <1>1, <2>2, <2>4, <3>1, PolicyChangeKeeps DEF ChangePolicy
  <2> QED
    BY <2>3, <2>4
<1>5. ASSUME NEW q \in PolicyObject, q.phase = pol[p].phase, q.finalizer = pol[p].finalizer, q.target = pol[p].target,
             q.ghost = pol[p].ghost, ChangePolicy(p, q)
      PROVE  Inv'
  BY <1>1, <1>5, PolicyChangeKeeps DEF ChangePolicy
<1>6. CASE ChangeHealthCheck(p)
  <2>1. PICK b \in BOOLEAN : b = ~pol[p].health
    BY <1>1
  <2>2. PICK q : q = [pol[p] EXCEPT !.health = b]
    OBVIOUS
  <2>3. /\ q \in PolicyObject /\ q.phase = pol[p].phase /\ q.finalizer = pol[p].finalizer
        /\ q.target = pol[p].target /\ q.ghost = pol[p].ghost
    BY <1>1, <2>2 DEF PolicyObject
  <2>4. ChangePolicy(p, q)
    BY <1>6, <2>1, <2>2 DEF ChangeHealthCheck
  <2> QED
    BY <1>5, <2>3, <2>4
<1>7. CASE ChangeValidity(p)
  <2>1. PICK b \in BOOLEAN : b = ~pol[p].valid
    BY <1>1
  <2>2. PICK q : q = [pol[p] EXCEPT !.valid = b]
    OBVIOUS
  <2>3. /\ q \in PolicyObject /\ q.phase = pol[p].phase /\ q.finalizer = pol[p].finalizer
        /\ q.target = pol[p].target /\ q.ghost = pol[p].ghost
    BY <1>1, <2>2 DEF PolicyObject
  <2>4. CASE ChangePolicy(p, [pol[p] EXCEPT !.valid = ~@])
    BY <1>5, <2>1, <2>2, <2>3, <2>4
  <2>5. CASE pol' = [pol EXCEPT ![p].valid = ~@] /\ UNCHANGED <<gw, attrs, res, probes, rc>>
    <3>1. pol' = [pol EXCEPT ![p] = q]
      BY <2>1, <2>2, <2>5 DEF Inv, Typed
    <3>2. rc' = rc /\ q.phase = pol[p].phase /\ UNCHANGED <<gw, attrs, res, probes>>
      BY <2>3, <2>5
    <3>3. /\ q.phase = "absent" => ~q.finalizer
          /\ q.phase = "deleting" => q.finalizer
          /\ q.phase # "absent" => q.target \in Gateways
          /\ pol[p].ghost => q.ghost
          /\ pol[p].finalizer => q.finalizer /\ (q.phase = "live" => pol[p].phase = "live")
          /\ pol[p].phase = "deleting" => q.phase = "deleting"
      BY <1>1, <2>3
    <3> QED
      BY <2>3, <3>1, <3>2, <3>3, PolicyChangeKeeps
  <2> QED
    BY <1>7, <2>4, <2>5 DEF ChangeValidity
<1> QED
  BY <1>2, <1>3, <1>4, <1>6, <1>7

\* Users and the clusters change gateways between any two calls of a reconcile.
LEMMA GatewayEditsKeep ==
  ASSUME Inv, NEW g \in Gateways,
         DeleteGateway(g) \/ CreateGateway(g) \/ ChangeListeners(g) \/ ChangeRoutes(g) \/ ChangeReady(g)
  PROVE  Inv'
<1>1. gw[g] \in GatewayObject /\ gw[g].ready \in BOOLEAN
  BY DEF Inv, Typed, GatewayObject
<1>b. PICK b \in BOOLEAN : b = Raced(g)
  <2>1. gw[g].raced \in BOOLEAN
    BY <1>1 DEF GatewayObject
  <2> QED
    BY <2>1 DEF Raced
<1>2. ASSUME NEW R \in SUBSET ListenerSet
      PROVE  NewGateway(R) \in GatewayObject /\ NewGateway(R).refs = {} /\ NewGateway(R).late = FALSE
  BY ConstantTypes DEF NewGateway
<1>3. CASE DeleteGateway(g)
  <2>1. PICK r : r = [NewGateway({}) EXCEPT !.exists = FALSE, !.raced = b]
    OBVIOUS
  <2>2. r \in GatewayObject /\ r.refs = {} /\ r.exists = FALSE
    <3>1. PICK o \in GatewayObject : o = NewGateway({}) /\ o.refs = {}
      BY <1>2
    <3> QED
      BY <2>1, <3>1 DEF GatewayObject
  <2> QED
    BY <1>b, <1>3, <2>1, <2>2, ChangeGatewayKeeps DEF DeleteGateway
<1>4. CASE CreateGateway(g)
  <2>1. PICK R \in RouteSets : ChangeGateway(g, [NewGateway(R) EXCEPT !.late = TRUE, !.raced = b])
    BY <1>b, <1>4 DEF CreateGateway
  <2>2. R \in SUBSET ListenerSet
    BY PolicyConstants DEF ListenerSet
  <2>3. PICK r : r = [NewGateway(R) EXCEPT !.late = TRUE, !.raced = b]
    OBVIOUS
  <2>4. r \in GatewayObject /\ r.refs = {} /\ r.late = TRUE
    <3>1. PICK o \in GatewayObject : o = NewGateway(R) /\ o.refs = {}
      BY <1>2, <2>2
    <3> QED
      BY <2>3, <3>1 DEF GatewayObject
  <2> QED
    BY <2>1, <2>3, <2>4, ChangeGatewayKeeps
<1>5. ASSUME NEW r \in GatewayObject, ChangeGateway(g, r), r.back = gw[g].back, r.exists = gw[g].exists,
             r.late = gw[g].late, r.refs = gw[g].refs
      PROVE  Inv'
  BY <1>5, ChangeGatewayKeeps
<1>6. CASE ChangeListeners(g)
  <2>1. PICK L \in SUBSET ListenerSet : ChangeGateway(g, [gw[g] EXCEPT !.listeners = L])
    BY <1>6 DEF ChangeListeners
  <2>2. PICK r : r = [gw[g] EXCEPT !.listeners = L]
    OBVIOUS
  <2>3. /\ r \in GatewayObject /\ r.back = gw[g].back /\ r.exists = gw[g].exists /\ r.late = gw[g].late
        /\ r.refs = gw[g].refs
    BY <1>1, <2>2 DEF GatewayObject
  <2> QED
    BY <1>5, <2>1, <2>2, <2>3
<1>7. CASE ChangeRoutes(g)
  <2>1. PICK R \in RouteSets : ChangeGateway(g, [gw[g] EXCEPT !.routes = R])
    BY <1>7 DEF ChangeRoutes
  <2>2. R \in SUBSET ListenerSet
    BY PolicyConstants DEF ListenerSet
  <2>3. PICK r : r = [gw[g] EXCEPT !.routes = R]
    OBVIOUS
  <2>4. /\ r \in GatewayObject /\ r.back = gw[g].back /\ r.exists = gw[g].exists /\ r.late = gw[g].late
        /\ r.refs = gw[g].refs
    BY <1>1, <2>2, <2>3 DEF GatewayObject
  <2> QED
    BY <1>5, <2>1, <2>3, <2>4
<1>8. CASE ChangeReady(g)
  <2>1. PICK v \in BOOLEAN : v = ~gw[g].ready
    BY <1>1
  <2>2. PICK r : r = [gw[g] EXCEPT !.ready = v]
    OBVIOUS
  <2>3. /\ r \in GatewayObject /\ r.back = gw[g].back /\ r.exists = gw[g].exists /\ r.late = gw[g].late
        /\ r.refs = gw[g].refs
    BY <1>1, <2>2 DEF GatewayObject
  <2>4. ChangeGateway(g, r)
    BY <1>8, <2>1, <2>2 DEF ChangeReady
  <2> QED
    BY <1>5, <2>3, <2>4
<1> QED
  BY <1>3, <1>4, <1>6, <1>7, <1>8

\* A step that no worker, gateway, policy or owned object has part in.
LEMMA AsideKeeps ==
  ASSUME Inv, UNCHANGED <<gw, pol, res, probes, rc>>, attrs' \in [Gateways -> Int]
  PROVE  Inv'
<1>1. Typed' /\ ObjectInv' /\ RefsHeldByClaim'
  BY DEF Inv, Typed, ObjectInv, RefsHeldByClaim
<1>2. ASSUME NEW k \in Kinds
      PROVE  WorkerInv(k)'
  <2>1. WorkerInv(k) /\ rc'[k] = rc[k]
    BY DEF Inv
  <2> QED
    BY <2>1, SameWorker
<1> QED
  BY <1>1, <1>2 DEF Inv

\* A restart forgets what the workers knew and nothing else.
LEMMA RestartKeeps ==
  ASSUME Inv, Restart
  PROVE  Inv'
<1>1. rc' = [k \in Kinds |-> Idle] /\ UNCHANGED <<gw, attrs, pol, res, probes>>
  BY DEF Restart
<1>2. Typed' /\ ObjectInv' /\ RefsHeldByClaim'
  BY <1>1, ConstantTypes DEF Inv, Typed, ObjectInv, RefsHeldByClaim
<1>3. ASSUME NEW k \in Kinds
      PROVE  WorkerInv(k)'
  BY <1>1, IdleKnowsNothing
<1> QED
  BY <1>2, <1>3 DEF Inv

-----------------------------------------------------------------------------
(* The invariant is inductive *)

\* Nothing is marked and nobody works at first.
LEMMA InitInv ==
  Init => Inv
<1> SUFFICES ASSUME Init
             PROVE  Inv
  OBVIOUS
<1>1. crew.routes \in SUBSET ListenerSet
  BY PolicyConstants DEF Init, ListenerSet
<1>2. PICK r \in GatewayObject : r = NewGateway(crew.routes) /\ r.refs = {}
  BY <1>1, ConstantTypes DEF NewGateway
<1>3. gw = [g \in Gateways |-> r]
  BY <1>2 DEF Init
<1>4. ASSUME NEW p \in Policies
      PROVE  /\ pol[p] \in PolicyObject /\ pol[p].finalizer = FALSE /\ pol[p].phase # "deleting"
             /\ pol[p].phase # "absent" => pol[p].target \in Gateways
  <2>1. pol[p] = Absent \/ \E g \in FirstTargets : pol[p] = Created(g)
    BY DEF Init
  <2>2. CASE pol[p] = Absent
    BY <2>2, ConstantTypes, SMTT(30) DEF Absent
  <2>3. ASSUME NEW g \in FirstTargets, pol[p] = Created(g)
        PROVE  /\ pol[p] \in PolicyObject /\ pol[p].finalizer = FALSE /\ pol[p].phase = "live"
               /\ pol[p].target \in Gateways
    <3>1. g \in Gateways
      BY PolicyConstants
    <3> QED
      BY <2>3, <3>1, ConstantTypes DEF Created, Absent
  <2> QED
    BY <2>1, <2>2, <2>3
<1>5. Typed
  <2>1. pol \in [Policies -> PolicyObject]
    BY <1>4 DEF Init
  <2> QED
    BY <1>3, <2>1, ConstantTypes, SMTT(30) DEF Init, Typed
<1>6. ObjectInv /\ RefsHeldByClaim
  BY <1>2, <1>3, <1>4 DEF ObjectInv, RefsHeldByClaim
<1>7. ASSUME NEW k \in Kinds
      PROVE  WorkerInv(k)
  <2>1. rc[k] = Idle
    BY DEF Init
  <2>2. /\ rc[k].pc = "idle" /\ rc[k].own = {} /\ rc[k].inv = {} /\ rc[k].fresh = {}
        /\ rc[k].gws = <<>> /\ rc[k].target = "none" /\ rc[k].tfresh = FALSE
    BY <2>1, SMTT(30) DEF Idle
  <2>3. DOMAIN rc[k].gws = {}
    BY <2>2, SMTT(30)
  <2> QED
    BY <2>2, <2>3 DEF WorkerInv, PolicyHeld, CopiesCurrent, ClaimHeld, RefsListed, Released, Listed
<1> QED
  BY <1>5, <1>6, <1>7 DEF Inv

\* The invariant is kept by every call of a reconcile.
LEMMA WorkKeeps ==
  ASSUME Inv, NEW k \in Kinds, Work(k)
  PROVE  Inv'
<1>1. CASE AddFinalizer(k) \/ ComputeGatewayDiffs(k) \/ deleteResources(k)
  BY <1>1, AddFinalizerKeeps, ComputeGatewayDiffsKeeps, deleteResourcesKeeps
<1>2. CASE reconcileGatewayDNSRecords \/ reconcileHealthChecks \/ reconcileGatewayCertificates
  BY <1>2, reconcileGatewayDNSRecordsKeeps, reconcileHealthChecksKeeps, reconcileGatewayCertificatesKeeps
<1>3. CASE ReconcileTargetBackReference(k) \/ DeleteTargetBackReference(k) \/ RecomputeGatewayDiffs(k)
  BY <1>3, ReconcileTargetBackReferenceKeeps, DeleteTargetBackReferenceKeeps, RecomputeGatewayDiffsKeeps
<1>4. CASE ReconcileGatewayPolicyReferences(k) \/ updateGatewayCondition(k)
  BY <1>4, ReconcileGatewayPolicyReferencesKeeps, updateGatewayConditionKeeps
<1>5. CASE updateStatus(k) \/ RemoveFinalizer(k)
  BY <1>5, updateStatusKeeps, RemoveFinalizerKeeps
<1> QED
  BY <1>1, <1>2, <1>3, <1>4, <1>5 DEF Work

\* The invariant is inductive.
LEMMA NextKeepsInv ==
  ASSUME Inv, [Next]_vars
  PROVE  Inv'
<1>1. ASSUME NEW p \in Policies, Start(Kind(p), p)
      PROVE  Inv'
  BY <1>1, KindOfPolicy, StartKeeps
<1>2. ASSUME NEW k \in Kinds, Work(k)
      PROVE  Inv'
  BY <1>2, WorkKeeps
<1>3. CASE Faults
  <2>1. ASSUME NEW k \in Kinds, CallFails(k)
        PROVE  Inv'
    BY <2>1, AbortKeeps DEF CallFails
  <2>2. ASSUME NEW p \in Policies, TargetUnread(Kind(p), p)
        PROVE  Inv'
    BY <2>2, KindOfPolicy, TargetUnreadKeeps
  <2> QED
    BY <1>3, <2>1, <2>2, RoutesUnreadKeeps, RestartKeeps DEF Faults
<1>4. CASE Edits
  <2>1. ASSUME NEW g \in Gateways, ChangeCluster(g)
        PROVE  Inv'
    <3>1. attrs' \in [Gateways -> Int]
      BY <2>1, SMTT(30) DEF ChangeCluster, Inv, Typed
    <3> QED
      BY <2>1, <3>1, AsideKeeps DEF ChangeCluster
  <2>2. CASE AddZone
    BY <2>2, AsideKeeps DEF AddZone, Inv, Typed
  <2> QED
    BY <1>4, <2>1, <2>2, PolicyEditsKeep, GatewayEditsKeep DEF Edits
<1>5. CASE UNCHANGED vars
  BY <1>5, AsideKeeps DEF vars, Inv, Typed
<1> QED
  BY <1>1, <1>2, <1>3, <1>4, <1>5 DEF Next

=============================================================================
