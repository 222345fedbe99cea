---------------------------- MODULE DNSEndpoints ----------------------------
(***************************************************************************)
(* The endpoints of a DNSRecord: setEndpoints of the DNSPolicy controller  *)
(* (pkg/controllers/dnspolicy/dns_helper.go) and the targets it starts     *)
(* from (pkg/dns/target.go), for one listener of one gateway.              *)
(*                                                                         *)
(* The endpoints form a tree: the host of the listener, a load balancer    *)
(* name, one name per geo code, one per cluster, the addresses.  The tree  *)
(* is built geo by geo in the order of a Go map, sorted, thinned out by    *)
(* the probes that fail, and then by passes over the slice, which removes  *)
(* from the slice it walks, until a pass has removed nothing.  The probes  *)
(* change while this goes on.                                              *)
(***************************************************************************)
EXTENDS Integers, SequencesExt

CONSTANTS
  Clusters,       \* the clusters with routes attached to the listener
  IPs, Hostnames, \* the addresses of the gateways in those clusters
  Labels,         \* bound: the geo labels of the clusters that are looked at
  DefaultGeos,    \* bound: the default geo of the policy, "default" for none
  CustomWeights,  \* custom weights of the policy: clusters selected and weight
  DefaultWeight,
  Orders,         \* bound: how the names sort, their hashes being arbitrary
  ProbeStates,    \* bound: what the status of a probe can be
  MaxFlips,       \* bound: changes of a probe
  MaxFaults       \* bound: failed calls

Addresses == IPs \cup Hostnames

ASSUME EndpointConstants ==
  /\ IPs \cap Hostnames = {}
  /\ MaxFlips \in Nat /\ MaxFaults \in Nat

\* A geo code is none of the values that mean something else: "default" is the
\* absence of a default geo and "*" the wildcard.
ASSUME GeoCodes ==
  /\ DefaultGeos \cap {"none", "*"} = {}
  /\ \A label \in Labels, c \in Clusters : label[c] \notin {"default", "*"}

VARIABLES
  input,    \* the target: addresses and labels of the clusters, load balancing
  probe,    \* the status of the probe of each address
  record,   \* dnsRecord.Spec.Endpoints
  queued,   \* the policy is in the work queue
  pc,
  groups,   \* the geo groups the loop over the map has not visited
  built,    \* newEndpoints before they are sorted
  defaultEndpoint, \* the geo the default endpoint points to
  seen,     \* the probes as listed
  store,    \* storeEndpoints
  new,      \* newEndpoints
  removed,  \* removedEndpoints
  i,        \* index of the loop over newEndpoints
  flips, faults

vars == <<input, probe, record, queued, pc, groups, built, defaultEndpoint,
          seen, store, new, removed, i, flips, faults>>

-----------------------------------------------------------------------------
(* Targets: pkg/dns/target.go *)

\* setGeo: the label counts only when the policy has a default geo.
GetGeo(c) ==
  IF input.defaultGeo = "default" \/ input.label[c] = "none"
    THEN input.defaultGeo
    ELSE input.label[c]

\* setWeight: the first selector that matches.
GetWeight(c) ==
  LET k == SelectInSeq(CustomWeights, LAMBDA cw : c \in cw.selected)
  IN  IF k = 0 THEN DefaultWeight ELSE CustomWeights[k].weight

GroupTargetsByGeo == {GetGeo(c) : c \in Clusters}

-----------------------------------------------------------------------------
(* Endpoints *)

\* Names are tuples that say which level of the tree they belong to.
Host == <<"host">>
LbName == <<"lb">>
GeoLbName(g) == <<"geo", g>>
ClusterLbName(c) == <<"cluster", c>>
Address(a) == <<"address", a>>

\* createOrUpdateEndpoint, with the provider specific property set on it.
Endpoint(name, targets, id, property) ==
  [name |-> name, targets |-> targets, id |-> id, property |-> property]

NoProperty == <<"none">>

IPValues(c) == input.addresses[c] \cap IPs

\* The names the weighted CNAMEs of a cluster point to.
HostValues(c) ==
  {Address(a) : a \in input.addresses[c] \cap Hostnames}
    \cup (IF IPValues(c) # {} THEN {ClusterLbName(c)} ELSE {})

ClusterEndpoints(c) ==
  {Endpoint(ClusterLbName(c), {Address(a) : a \in IPValues(c)}, <<>>, NoProperty) :
     ips \in {IPValues(c)} \ {{}}}
  \cup {Endpoint(GeoLbName(GetGeo(c)), {t}, t, <<"weight", GetWeight(c)>>) :
          t \in HostValues(c)}

GroupEndpoints(g) ==
  UNION {ClusterEndpoints(c) : c \in {d \in Clusters : GetGeo(d) = g}}

\* The CNAME of the load balancer name that a geo code is answered with.
GeoEndpoint(g) == Endpoint(LbName, {GeoLbName(g)}, <<"geo", g>>, <<"geo", g>>)

DefaultEndpoint(g) == Endpoint(LbName, {GeoLbName(g)}, <<"default">>, <<"geo", "*">>)

HostEndpoint == Endpoint(Host, {LbName}, <<>>, NoProperty)

\* SetID() is the name and the set identifier; names start with a hash.
SetIDLess(a, b) == input.order[a.name[1]] < input.order[b.name[1]]

\* A target of the endpoint is an IP address.
HasIP(e) == \E a \in IPs : Address(a) \in e.targets

IsChild(parent, e) == e.name \in parent.targets

\* getNumChildrenOfParent(...) > 0
HasChildren(endpoints, parent) ==
  \E j \in 1..Len(endpoints) : IsChild(parent, endpoints[j])

\* The probe is unhealthy, and has been for as long as its threshold says.
Failing(p) == p.healthy = "no" /\ p.threshold # 0 /\ p.failures >= p.threshold

\* getProbesForEndpoint, and the loop over what it returns.
Fails(probes, e) ==
  \E a \in DOMAIN probes : Address(a) \in e.targets /\ Failing(probes[a])

\* The endpoints of a slice that a probe takes out.
Failed(probes, endpoints) == {e \in ToSet(endpoints) : Fails(probes, e)}

-----------------------------------------------------------------------------

Inputs == [addresses : [Clusters -> SUBSET Addresses], label : Labels,
           defaultGeo : DefaultGeos, order : Orders]

\* There is a probe for every address in the status of the gateway.
Probed == UNION {input.addresses[c] : c \in Clusters}

Init ==
  /\ input \in Inputs
  /\ \A c, d \in Clusters : c # d => input.addresses[c] \cap input.addresses[d] = {}
  /\ probe \in [Probed -> ProbeStates]
  /\ record = <<>>
  /\ queued = TRUE
  /\ pc = "idle"
  /\ groups = {}
  /\ built = {}
  /\ defaultEndpoint = "none"
  /\ seen = probe
  /\ store = <<>>
  /\ new = <<>>
  /\ removed = 0
  /\ i = 1
  /\ flips = 0
  /\ faults = 0

Fault == faults < MaxFaults /\ faults' = faults + 1

\* The policy is reconciled; NewMultiClusterGatewayTarget.
Start ==
  /\ pc = "idle" /\ queued
  /\ queued' = FALSE
  /\ groups' = GroupTargetsByGeo
  /\ built' = {}
  /\ defaultEndpoint' = "none"
  /\ pc' = "groups"
  /\ UNCHANGED <<input, probe, record, seen, store, new, removed, i, flips, faults>>

\* Mutant of BuildGroup: the first group of the map gives the default.
BuildGroupFirstWins(g) ==
  /\ pc = "groups" /\ g \in groups
  /\ groups' = groups \ {g}
  /\ IF GroupEndpoints(g) = {}
       THEN UNCHANGED <<built, defaultEndpoint>>
       ELSE /\ built' = built \cup GroupEndpoints(g)
                          \cup ({GeoEndpoint(g)} \ {GeoEndpoint("default")})
            /\ defaultEndpoint' =
                 IF defaultEndpoint = "none" THEN g ELSE defaultEndpoint
  /\ UNCHANGED <<input, probe, record, queued, pc, seen, store, new, removed, i,
                 flips, faults>>

\* One group of the map, in any order.
BuildGroup(g) ==
  /\ pc = "groups" /\ g \in groups
  /\ groups' = groups \ {g}
  /\ IF GroupEndpoints(g) = {}
       THEN UNCHANGED <<built, defaultEndpoint>>
       ELSE /\ built' = built \cup GroupEndpoints(g)
                          \cup ({GeoEndpoint(g)} \ {GeoEndpoint("default")})
            /\ defaultEndpoint' =
                 IF g \in {"default", input.defaultGeo} \/ defaultEndpoint = "none"
                   THEN g ELSE defaultEndpoint
  /\ UNCHANGED <<input, probe, record, queued, pc, seen, store, new, removed, i,
                 flips, faults>>

\* The default endpoint and the host are added, the slice is sorted, which adds
\* and drops nothing, and the probes are listed.
SortAndList ==
  /\ pc = "groups" /\ groups = {}
  /\ LET all == IF built = {} THEN {}
                ELSE built \cup {DefaultEndpoint(defaultEndpoint), HostEndpoint}
         sorted == SortSeq(FoldSet(LAMBDA e, s : Append(s, e), <<>>, all), SetIDLess)
     IN  /\ sorted \in Seq(all) /\ ToSet(sorted) = all
         /\ store' = sorted
         /\ new' = sorted
  /\ seen' = probe
  /\ removed' = 0
  /\ i' = 1
  /\ pc' = "probes"
  /\ UNCHANGED <<input, probe, record, queued, groups, built, defaultEndpoint,
                 flips, faults>>

ListFails ==
  /\ pc = "groups" /\ groups = {}
  /\ Fault
  /\ queued' = TRUE
  /\ pc' = "idle"
  /\ UNCHANGED <<input, probe, record, groups, built, defaultEndpoint, seen,
                 store, new, removed, i, flips>>

\* Mutant of CheckProbes: the index goes back and the loop does not advance it.
CheckProbesStepsBack ==
  /\ pc = "probes" /\ i <= Len(new)
  /\ IF Fails(seen, new[i])
       THEN new' = RemoveAt(new, i) /\ removed' = removed + 1 /\ i' = i - 1
       ELSE i' = i + 1 /\ UNCHANGED <<new, removed>>
  /\ UNCHANGED <<input, probe, record, queued, pc, groups, built,
                 defaultEndpoint, seen, store, flips, faults>>

\* One round of the loop that removes what fails; i-- and i++ cancel out.
CheckProbes ==
  /\ pc = "probes" /\ i <= Len(new)
  /\ IF Fails(seen, new[i])
       THEN new' = RemoveAt(new, i) /\ removed' = removed + 1 /\ i' = i
       ELSE i' = i + 1 /\ UNCHANGED <<new, removed>>
  /\ UNCHANGED <<input, probe, record, queued, pc, groups, built,
                 defaultEndpoint, seen, store, flips, faults>>

EndOfProbes ==
  /\ pc = "probes" /\ i > Len(new)
  /\ pc' = IF removed > 0 THEN "clean" ELSE "publish"
  /\ i' = 1
  /\ UNCHANGED <<input, probe, record, queued, groups, built, defaultEndpoint,
                 seen, store, new, removed, flips, faults>>

\* Mutant of CleanOne: a removal does not call for another pass.
CleanOneUncounted ==
  /\ pc = "clean" /\ i <= Len(new)
  /\ new' = IF HasIP(new[i]) \/ HasChildren(new, new[i]) THEN new
            ELSE RemoveAt(new, i)
  /\ i' = i + 1
  /\ UNCHANGED <<input, probe, record, queued, pc, groups, built,
                 defaultEndpoint, seen, store, removed, flips, faults>>

\* One round of endpointsLoop.  The index moves on after a removal, past the
\* endpoint that took the place of the removed one.
CleanOne ==
  /\ pc = "clean" /\ i <= Len(new)
  /\ IF HasIP(new[i]) \/ HasChildren(new, new[i])
       THEN UNCHANGED <<new, removed>>
       ELSE new' = RemoveAt(new, i) /\ removed' = removed + 1
  /\ i' = i + 1
  /\ UNCHANGED <<input, probe, record, queued, pc, groups, built,
                 defaultEndpoint, seen, store, flips, faults>>

\* Mutant of EndOfPass: a pass is not counted.
EndOfPassUncounted ==
  /\ pc = "clean" /\ i > Len(new)
  /\ i' = 1
  /\ UNCHANGED <<input, probe, record, queued, pc, groups, built, defaultEndpoint,
                 seen, store, new, removed, flips, faults>>

\* The end of a pass.
EndOfPass ==
  /\ pc = "clean" /\ i > Len(new)
  /\ removed' = removed - 1
  /\ pc' = IF removed' > 0 THEN "clean" ELSE "publish"
  /\ i' = 1
  /\ UNCHANGED <<input, probe, record, queued, groups, built, defaultEndpoint,
                 seen, store, new, flips, faults>>

\* Mutant of Publish: nothing is published when nothing is healthy.
PublishOnlyHealthy ==
  /\ pc = "publish"
  /\ record' = new
  /\ pc' = "idle"
  /\ UNCHANGED <<input, probe, queued, groups, built, defaultEndpoint, seen,
                 store, new, removed, i, flips, faults>>

\* The DNSRecord is updated.
Publish ==
  /\ pc = "publish"
  /\ record' = IF new = <<>> THEN store ELSE new
  /\ pc' = "idle"
  /\ UNCHANGED <<input, probe, queued, groups, built, defaultEndpoint, seen,
                 store, new, removed, i, flips, faults>>

\* The update fails, and the policy is reconciled again.
UpdateFails ==
  /\ pc = "publish"
  /\ record # IF new = <<>> THEN store ELSE new
  /\ Fault
  /\ queued' = TRUE
  /\ pc' = "idle"
  /\ UNCHANGED <<input, probe, record, groups, built, defaultEndpoint, seen,
                 store, new, removed, i, flips>>

\* Mutant of ProbeEvent: the probe is not mapped to its policy.
ProbeEventUnmapped(a, s) ==
  /\ flips < MaxFlips
  /\ s # probe[a]
  /\ probe' = [probe EXCEPT ![a] = s]
  /\ flips' = flips + 1
  /\ UNCHANGED <<input, record, queued, pc, groups, built, defaultEndpoint, seen,
                 store, new, removed, i, faults>>

\* The status of a probe is written; the probe is mapped to its policy.
ProbeEvent(a, s) ==
  /\ flips < MaxFlips
  /\ s # probe[a]
  /\ probe' = [probe EXCEPT ![a] = s]
  /\ queued' = TRUE
  /\ flips' = flips + 1
  /\ UNCHANGED <<input, record, pc, groups, built, defaultEndpoint, seen, store,
                 new, removed, i, faults>>

Step ==
  \/ Start
  \/ \E g \in groups : BuildGroup(g)
  \/ SortAndList
  \/ CheckProbes
  \/ EndOfProbes
  \/ CleanOne
  \/ EndOfPass
  \/ Publish

Next ==
  \/ Step
  \/ ListFails
  \/ UpdateFails
  \/ \E a \in DOMAIN probe, s \in ProbeStates : ProbeEvent(a, s)

Spec == Init /\ [][Next]_vars

\* The process runs and its worker takes what is queued.
FairSpec == Spec /\ WF_vars(Step)

-----------------------------------------------------------------------------
(* Properties *)

Selected == INSTANCE EndpointSelection
  WITH Leaf <- HasIP, Child <- IsChild, wanted <- ToSet(store),
       failing <- Failed(seen, store), published <- ToSet(record)

\* The state of setEndpoints has its shape; in particular the index never falls
\* below the first endpoint and the counter of removals never below zero.
TypeOK ==
  /\ input \in Inputs
  /\ probe \in [Probed -> ProbeStates]
  /\ seen \in [Probed -> ProbeStates]
  /\ pc \in {"idle", "groups", "probes", "clean", "publish"}
  /\ ToSet(new) \subseteq ToSet(store)
  /\ removed \in Nat /\ i \in Nat \ {0}
  /\ queued \in BOOLEAN /\ flips \in 0..MaxFlips /\ faults \in 0..MaxFaults

\* The clean-up of setEndpoints (dns_helper.go:274-315), which removes from the
\* slice it walks and counts passes down by removals, leaves the largest set
\* of endpoints that lead to an address: no childless parent stays, and
\* nothing that leads to a healthy address goes.
CleanedUp ==
  pc = "publish" =>
    ToSet(new) = Selected!Healthy(ToSet(store), Failed(seen, store))

\* setEndpoints implements the selection that health checks promise.
ImplementsSelection == Selected!Spec

\* Whatever the order of the map, there is one default answer, and it is the
\* default geo of the policy whenever a cluster with an address has that geo
\* (dns_helper.go:236-243).
DefaultGeoHonoured ==
  pc = "probes" /\ store # <<>> =>
    LET defaults == {e \in ToSet(store) : e.property = <<"geo", "*">>}
    IN  /\ Cardinality(defaults) = 1
        /\ GroupEndpoints(input.defaultGeo) # {} =>
             \A e \in defaults : e.targets = {GeoLbName(input.defaultGeo)}

\* When nothing is queued the record shows what the probes say now, and not
\* what they said when they were listed.
QuiescentMeansHealthShown ==
  pc = "idle" /\ ~queued =>
    ToSet(record) = Selected!Selection(ToSet(store), Failed(probe, store))

\* The loops end, the one that counts its passes included, and a change of a
\* probe is followed by an update.
Settles == []<>(pc = "idle" /\ ~queued)

=============================================================================
