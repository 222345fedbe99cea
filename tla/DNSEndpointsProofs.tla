------------------------- MODULE DNSEndpointsProofs -------------------------
(***************************************************************************)
(* The loops of setEndpoints for any number of clusters, addresses and geo *)
(* codes: the clean-up leaves the largest set of endpoints that lead to an *)
(* address, setEndpoints implements EndpointSelection, and at rest the     *)
(* record shows what the probes say.                                       *)
(***************************************************************************)
EXTENDS DNSEndpoints, FiniteSetTheorems, SequenceTheorems, TLAPS

\* A leaf goes to Zenon, then to SMT, unless it names its prover.
USE Zenon, SMTT(30)

\* The endpoints whose probe was failing when the probes were listed.
Bad == Failed(seen, store)

Ok(s, j) == HasIP(s[j]) \/ HasChildren(s, s[j])

\* Nothing that leads to a healthy address has been removed.
Keeps(all, bad, left) ==
  \A S \in SUBSET all : Selected!SelfSupporting(S, bad) => S \subseteq left

ProbesInv ==
  /\ \A j \in 1..Len(new) : j < i => ~Fails(seen, new[j])
  /\ \A e \in ToSet(store) : ~Fails(seen, e) => e \in ToSet(new)
  /\ removed = 0 => ToSet(new) = ToSet(store)
  /\ removed > 0 => Bad # {}

\* removed = 1 says that the pass has removed nothing so far, for a removal
\* makes it at least 2; the pass that ends the loop is such a pass.
CleanInv ==
  /\ removed >= 1
  /\ Bad # {}
  /\ \A j \in 1..Len(new) : ~Fails(seen, new[j])
  /\ Keeps(ToSet(store), Bad, ToSet(new))
  /\ removed = 1 => \A j \in 1..Len(new) : j < i => Ok(new, j)

LoopInv ==
  /\ new \in Seq(ToSet(store))
  /\ i \in Nat \ {0} /\ removed \in Nat
  /\ pc = "probes" => ProbesInv
  /\ pc = "clean" => CleanInv
  /\ CleanedUp

-----------------------------------------------------------------------------
(* Sequences *)

\* A sequence is one over the set of its elements.
LEMMA ToSetSeq ==
  ASSUME NEW S, NEW s \in Seq(S)
  PROVE  s \in Seq(ToSet(s)) /\ ToSet(s) = {s[k] : k \in 1..Len(s)}
<1>1. s \in [1..Len(s) -> S] /\ Len(s) \in Nat
  BY SMTT(30)
<1>2. DOMAIN s = 1..Len(s)
  BY <1>1
<1>3. ToSet(s) = {s[k] : k \in 1..Len(s)}
  BY <1>2 DEF ToSet
<1>4. s \in [1..Len(s) -> ToSet(s)]
  BY <1>1, <1>3
<1>5. s \in Seq(ToSet(s))
  BY <1>1, <1>4, SMTT(30)
<1> QED
  BY <1>3, <1>5

\* What is left when the element at one index is taken out.
LEMMA RemoveAtSeq ==
  ASSUME NEW S, NEW s \in Seq(S), NEW j \in 1..Len(s)
  PROVE  /\ RemoveAt(s, j) \in Seq(S)
         /\ Len(RemoveAt(s, j)) = Len(s) - 1
         /\ \A k \in 1..(Len(s) - 1) :
              RemoveAt(s, j)[k] = IF k < j THEN s[k] ELSE s[k + 1]
<1> DEFINE a == SubSeq(s, 1, j - 1)
           b == SubSeq(s, j + 1, Len(s))
<1>1. a \in Seq(S) /\ Len(a) = j - 1 /\ \A k \in 1..(j - 1) : a[k] = s[k]
  BY SMTT(30)
<1>2. b \in Seq(S) /\ Len(b) = Len(s) - j /\ \A k \in 1..(Len(s) - j) : b[k] = s[k + j]
  BY SMTT(30)
<1>3. RemoveAt(s, j) = a \o b
  BY DEF RemoveAt
<1> HIDE DEF a, b
<1>4. /\ a \o b \in Seq(S) /\ Len(a \o b) = Len(s) - 1
      /\ \A k \in 1..(Len(s) - 1) : (a \o b)[k] = IF k < j THEN a[k] ELSE b[k - (j - 1)]
  <2>1. a \in Seq(S) /\ b \in Seq(S)
    BY <1>1, <1>2
  <2>2. /\ Len(a \o b) = Len(a) + Len(b) /\ a \o b \in Seq(S)
        /\ \A k \in 1..(Len(a) + Len(b)) :
             (a \o b)[k] = IF k <= Len(a) THEN a[k] ELSE b[k - Len(a)]
    BY <2>1, ConcatProperties, Zenon
  <2>3. Len(a) + Len(b) = Len(s) - 1
    BY <1>1, <1>2, SMTT(30)
  <2>4. \A k \in 1..(Len(s) - 1) : k <= Len(a) <=> k < j
    BY <1>1, SMTT(30)
  <2> QED
    BY <1>1, <2>2, <2>3, <2>4, Zenon
<1>5. ASSUME NEW k \in 1..(Len(s) - 1), ~(k < j)
      PROVE  b[k - (j - 1)] = s[k + 1]
  <2>1. k - (j - 1) \in 1..(Len(s) - j) /\ (k - (j - 1)) + j = k + 1
    BY <1>5, SMTT(30)
  <2> QED
    BY <1>2, <2>1
<1> QED
  BY <1>1, <1>3, <1>4, <1>5, SMTT(30)

\* Only the element at that index can be missing.
LEMMA RemoveAtSet ==
  ASSUME NEW S, NEW s \in Seq(S), NEW j \in 1..Len(s)
  PROVE  /\ ToSet(RemoveAt(s, j)) \subseteq ToSet(s)
         /\ \A e \in ToSet(s) : e # s[j] => e \in ToSet(RemoveAt(s, j))
<1> DEFINE r == RemoveAt(s, j)
<1>1. /\ r \in Seq(S) /\ Len(r) = Len(s) - 1
      /\ \A k \in 1..(Len(s) - 1) : r[k] = IF k < j THEN s[k] ELSE s[k + 1]
  BY RemoveAtSeq
<1>2. ToSet(s) = {s[k] : k \in 1..Len(s)} /\ ToSet(r) = {r[k] : k \in 1..Len(r)}
  <2>1. ToSet(s) = {s[k] : k \in 1..Len(s)}
    BY ToSetSeq, SMTT(30)
  <2> HIDE DEF r
  <2>2. r \in Seq(S)
    BY <1>1
  <2>3. ToSet(r) = {r[k] : k \in 1..Len(r)}
    <3>1. DOMAIN r = 1..Len(r)
      BY <2>2, SMTT(30)
    <3> QED
      BY <3>1 DEF ToSet
  <2> QED
    BY <2>1, <2>3
<1> HIDE DEF r
<1>3. ToSet(r) \subseteq ToSet(s)
  BY <1>1, <1>2, SMTT(30)
<1>4. ASSUME NEW e \in ToSet(s), e # s[j]
      PROVE  e \in ToSet(r)
  <2>1. PICK k \in 1..Len(s) : e = s[k]
    BY <1>2
  <2>2. CASE k < j
    BY <1>1, <1>2, <2>1, <2>2, SMTT(30)
  <2>3. CASE k > j
    <3>1. k - 1 \in 1..(Len(s) - 1) /\ ~(k - 1 < j) /\ (k - 1) + 1 = k
      BY <2>3, SMTT(30)
    <3>2. r[k - 1] = s[k]
      BY <1>1, <3>1
    <3> QED
      BY <1>1, <1>2, <2>1, <3>1, <3>2
  <2> QED
    BY <1>4, <2>1, <2>2, <2>3, SMTT(30)
<1> QED
  BY <1>3, <1>4 DEF r

\* A child is an element of the list.
LEMMA ChildrenInSet ==
  ASSUME NEW S, NEW s \in Seq(S), NEW e
  PROVE  HasChildren(s, e) <=> \E c \in ToSet(s) : IsChild(e, c)
  BY ToSetSeq, SMTT(30) DEF HasChildren

-----------------------------------------------------------------------------
(* Sets of endpoints *)

\* A self-supporting set that contains all of them is the largest.
LEMMA LargestSupported ==
  ASSUME NEW all, NEW bad, NEW left \in SUBSET all,
         Selected!SelfSupporting(left, bad), Keeps(all, bad, left)
  PROVE  Selected!Supported(all, bad) = left
  BY DEF Selected!Supported, Keeps

\* A set that holds every healthy endpoint holds every self-supporting set.
LEMMA HealthyKept ==
  ASSUME NEW all, NEW bad, NEW left,
         \A e \in all : e \notin bad => e \in left
  PROVE  Keeps(all, bad, left)
  BY DEF Keeps, Selected!SelfSupporting

\* Taking out an endpoint that neither answers nor has a child takes nothing
\* from a self-supporting set.
LEMMA ChildlessRemoved ==
  ASSUME NEW all, NEW bad, NEW left, NEW e, NEW less,
         Keeps(all, bad, left), ~HasIP(e), \A c \in left : ~IsChild(e, c),
         \A x \in left : x # e => x \in less
  PROVE  Keeps(all, bad, less)
  BY DEF Keeps, Selected!SelfSupporting

-----------------------------------------------------------------------------
(* The loops *)

\* The elements of newEndpoints are endpoints of storeEndpoints.
LEMMA NewElements ==
  ASSUME LoopInv
  PROVE  /\ \A j \in 1..Len(new) : new[j] \in ToSet(new)
         /\ \A e \in ToSet(new) : \E j \in 1..Len(new) : e = new[j]
         /\ ToSet(new) \subseteq ToSet(store)
<1>1. new \in Seq(ToSet(store))
  BY DEF LoopInv
<1>2. ToSet(new) = {new[j] : j \in 1..Len(new)}
  <2>1. DOMAIN new = 1..Len(new)
    BY <1>1, SMTT(30)
  <2> QED
    BY <2>1 DEF ToSet
<1>3. \A j \in 1..Len(new) : new[j] \in ToSet(store)
  BY <1>1, SMTT(30)
<1> QED
  BY <1>2, <1>3

\* One round of the loop over the probes.
LEMMA CheckProbesLoop ==
  ASSUME LoopInv, CheckProbes
  PROVE  LoopInv'
<1> USE DEF CheckProbes
<1>1. /\ new \in Seq(ToSet(store)) /\ i \in 1..Len(new) /\ removed \in Nat
      /\ ProbesInv
  BY SMTT(30) DEF LoopInv
<1>2. CleanedUp' /\ (pc = "clean" => CleanInv)'
  BY DEF CleanedUp
<1>3. CASE Fails(seen, new[i])
  <2>0. new' = RemoveAt(new, i)
    BY <1>3
  <2>1. /\ new' \in Seq(ToSet(store)) /\ Len(new') = Len(new) - 1
        /\ \A k \in 1..(Len(new) - 1) : new'[k] = IF k < i THEN new[k] ELSE new[k + 1]
    BY <1>1, <2>0, RemoveAtSeq, Zenon
  <2>2. \A e \in ToSet(new) : e # new[i] => e \in ToSet(new')
    BY <1>1, <1>3, RemoveAtSet
  <2>3. \A j \in 1..Len(new') : j < i' => ~Fails(seen, new'[j])
    BY <1>1, <1>3, <2>1, SMTT(30) DEF ProbesInv
  <2>4. \A e \in ToSet(store) : ~Fails(seen, e) => e \in ToSet(new')
    BY <1>1, <1>3, <2>2 DEF ProbesInv
  <2>5. new[i] \in Failed(seen, store)
    BY <1>1, <1>3, NewElements DEF Failed
  <2> QED
    BY <1>1, <1>2, <1>3, <2>1, <2>3, <2>4, <2>5, SMTT(30)
      DEF LoopInv, ProbesInv, Bad
<1>4. CASE ~Fails(seen, new[i])
  BY <1>1, <1>2, <1>4, SMTT(30) DEF LoopInv, ProbesInv, Bad
<1> QED
  BY <1>3, <1>4

\* The loop over the probes has ended.
LEMMA EndOfProbesLoop ==
  ASSUME LoopInv, EndOfProbes
  PROVE  LoopInv'
<1> USE DEF EndOfProbes
<1>1. /\ new \in Seq(ToSet(store)) /\ i \in Nat \ {0} /\ removed \in Nat
      /\ ProbesInv /\ i > Len(new)
  BY DEF LoopInv
<1>2. \A j \in 1..Len(new) : ~Fails(seen, new[j])
  BY <1>1, SMTT(30) DEF ProbesInv
<1>3. Keeps(ToSet(store), Bad, ToSet(new))
  BY <1>1, HealthyKept DEF ProbesInv, Bad, Failed
<1>4. CASE removed > 0
  <2>1. CleanInv'
    BY <1>1, <1>2, <1>3, <1>4, SMTT(30) DEF CleanInv, ProbesInv, Bad
  <2> QED
    BY <1>1, <1>4, <2>1, SMTT(30) DEF LoopInv, CleanedUp
<1>5. CASE removed = 0
  <2>1. ToSet(new) = ToSet(store)
    BY <1>1, <1>5 DEF ProbesInv
  <2>2. \A e \in ToSet(store) : e \notin Failed(seen, store)
    BY <1>2, <2>1, NewElements DEF Failed
  <2>3. CleanedUp'
    BY <2>1, <2>2 DEF CleanedUp, Selected!Healthy
  <2> QED
    BY <1>1, <1>5, <2>3, SMTT(30) DEF LoopInv
<1> QED
  BY <1>1, <1>4, <1>5, SMTT(30)

\* One round of a pass: what is removed neither answers nor has a child, and
\* the removal makes the counter at least 2.
LEMMA CleanOneLoop ==
  ASSUME LoopInv, CleanOne
  PROVE  LoopInv'
<1> USE DEF CleanOne
<1>1. /\ new \in Seq(ToSet(store)) /\ i \in 1..Len(new) /\ removed \in Nat
      /\ CleanInv
  BY SMTT(30) DEF LoopInv
<1>2. CleanedUp' /\ (pc = "probes" => ProbesInv)'
  BY DEF CleanedUp
<1>3. CASE Ok(new, i)
  <2>1. new' = new /\ removed' = removed /\ i' = i + 1
    BY <1>3 DEF Ok
  <2>2. removed' = 1 => \A j \in 1..Len(new') : j < i' => Ok(new', j)
    BY <1>1, <1>3, <2>1, SMTT(30) DEF CleanInv
  <2>3. CleanInv'
    BY <1>1, <2>1, <2>2 DEF CleanInv, Bad, Ok
  <2> QED
    BY <1>1, <1>2, <2>1, <2>3, SMTT(30) DEF LoopInv
<1>4. CASE ~Ok(new, i)
  <2>0. new' = RemoveAt(new, i) /\ removed' = removed + 1 /\ i' = i + 1
    BY <1>4 DEF Ok
  <2>1. /\ new' \in Seq(ToSet(store)) /\ Len(new') = Len(new) - 1
        /\ \A k \in 1..(Len(new) - 1) : new'[k] = IF k < i THEN new[k] ELSE new[k + 1]
    BY <1>1, <2>0, RemoveAtSeq, Zenon
  <2>2. \A e \in ToSet(new) : e # new[i] => e \in ToSet(new')
    BY <1>1, <2>0, RemoveAtSet
  <2>3. ~HasIP(new[i]) /\ \A c \in ToSet(new) : ~IsChild(new[i], c)
    BY <1>1, <1>4, ChildrenInSet DEF Ok
  <2>4. Keeps(ToSet(store), Bad, ToSet(new))
    BY <1>1 DEF CleanInv
  <2>5. Keeps(ToSet(store), Bad, ToSet(new'))
    BY <2>2, <2>3, <2>4, ChildlessRemoved
  <2>6. \A j \in 1..Len(new') : ~Fails(seen, new'[j])
    BY <1>1, <2>1, SMTT(30) DEF CleanInv
  <2>7. removed' >= 2 /\ removed' \in Nat
    BY <1>1, <2>0, SMTT(30) DEF CleanInv
  <2>8. CleanInv'
    BY <1>1, <2>5, <2>6, <2>7, SMTT(30) DEF CleanInv, Bad
  <2> QED
    BY <1>1, <1>2, <2>0, <2>1, <2>7, <2>8, SMTT(30) DEF LoopInv
<1> QED
  BY <1>3, <1>4

\* The pass that brings the counter to 0 has removed nothing: every endpoint
\* left answers or has a child.
LEMMA EndOfPassLoop ==
  ASSUME LoopInv, EndOfPass
  PROVE  LoopInv'
<1> USE DEF EndOfPass
<1>1. /\ new \in Seq(ToSet(store)) /\ i \in Nat \ {0} /\ removed \in Nat
      /\ CleanInv /\ i > Len(new)
  BY DEF LoopInv
<1>2. removed' \in Nat
  BY <1>1, SMTT(30) DEF CleanInv
<1>3. CASE removed = 1
  <2>1. \A j \in 1..Len(new) : Ok(new, j)
    BY <1>1, <1>3, SMTT(30) DEF CleanInv
  <2>2. ToSet(new) \subseteq ToSet(store)
    BY NewElements
  <2>3. ASSUME NEW e \in ToSet(new)
        PROVE  e \notin Bad /\ (HasIP(e) \/ \E c \in ToSet(new) : IsChild(e, c))
    <3>1. PICK j \in 1..Len(new) : e = new[j]
      BY NewElements
    <3>2. HasIP(e) \/ HasChildren(new, e)
      BY <2>1, <3>1 DEF Ok
    <3>3. ~Fails(seen, e)
      BY <1>1, <3>1 DEF CleanInv
    <3> QED
      BY <1>1, <3>2, <3>3, ChildrenInSet DEF Bad, Failed
  <2>4. Selected!SelfSupporting(ToSet(new), Bad)
    BY <2>3 DEF Selected!SelfSupporting
  <2>5. Keeps(ToSet(store), Bad, ToSet(new))
    BY <1>1 DEF CleanInv
  <2>6. Selected!Supported(ToSet(store), Bad) = ToSet(new)
    BY <2>2, <2>4, <2>5, LargestSupported
  <2>7. \E e \in ToSet(store) : e \in Bad
    BY <1>1 DEF CleanInv, Bad, Failed
  <2>8. ToSet(new) = Selected!Healthy(ToSet(store), Bad)
    BY <2>6, <2>7 DEF Selected!Healthy
  <2>9. CleanedUp'
    BY <2>8 DEF CleanedUp, Bad
  <2>10. pc' = "publish"
    BY <1>3, SMTT(30)
  <2> QED
    BY <1>1, <1>2, <2>9, <2>10, SMTT(30) DEF LoopInv
<1>4. CASE removed # 1
  <2>1. removed' > 0 /\ pc' = "clean"
    BY <1>1, <1>4, SMTT(30) DEF CleanInv
  <2>2. CleanInv'
    BY <1>1, <1>2, <2>1, SMTT(30) DEF CleanInv, Bad
  <2> QED
    BY <1>1, <1>2, <2>1, <2>2, SMTT(30) DEF LoopInv, CleanedUp
<1> QED
  BY <1>3, <1>4

\* The loops start from the whole slice.
LEMMA SortAndListLoop ==
  ASSUME LoopInv, SortAndList
  PROVE  LoopInv'
<1>1. PICK all : new' \in Seq(all) /\ store' = new'
  BY DEF SortAndList
<1>2. new' \in Seq(ToSet(store'))
  BY <1>1, ToSetSeq, Zenon
<1>3. i' = 1 /\ removed' = 0 /\ pc' = "probes"
  BY DEF SortAndList
<1>4. ProbesInv'
  BY <1>1, <1>3, SMTT(30) DEF ProbesInv
<1> QED
  BY <1>2, <1>3, <1>4, SMTT(30) DEF LoopInv, CleanedUp

\* The other steps leave the slices and the loop variables alone.
LEMMA OtherLoop ==
  ASSUME LoopInv, UNCHANGED <<seen, store, new, removed, i>>,
         pc' \in {"idle", "groups"} \/ pc' = pc
  PROVE  LoopInv'
<1>1. (pc = "probes" => ProbesInv)' /\ (pc = "clean" => CleanInv)'
  BY DEF LoopInv, ProbesInv, CleanInv, Bad
<1>2. CleanedUp'
  BY DEF LoopInv, CleanedUp
<1> QED
  BY <1>1, <1>2 DEF LoopInv

LEMMA LoopStep ==
  ASSUME LoopInv, [Next]_vars
  PROVE  LoopInv'
<1>1. CASE Start
  BY <1>1, OtherLoop DEF Start
<1>2. CASE \E g \in groups : BuildGroup(g)
  BY <1>2, OtherLoop DEF BuildGroup
<1>3. CASE ListFails
  BY <1>3, OtherLoop DEF ListFails
<1>4. CASE Publish
  BY <1>4, OtherLoop DEF Publish
<1>5. CASE UpdateFails
  BY <1>5, OtherLoop DEF UpdateFails
<1>6. CASE \E a \in DOMAIN probe, s \in ProbeStates : ProbeEvent(a, s)
  BY <1>6, OtherLoop DEF ProbeEvent
<1>7. CASE UNCHANGED vars
  BY <1>7, OtherLoop DEF vars
<1> QED
  BY <1>1, <1>2, <1>3, <1>4, <1>5, <1>6, <1>7, CheckProbesLoop, EndOfProbesLoop,
     CleanOneLoop, EndOfPassLoop, SortAndListLoop DEF Next, Step

\* setEndpoints publishes the selection of what it built and what it listed.
LEMMA PublishSelects ==
  ASSUME LoopInv, Publish
  PROVE  ToSet(record') = Selected!Selection(ToSet(store), Failed(seen, store))
<1>1. ToSet(new) = Selected!Healthy(ToSet(store), Failed(seen, store))
  BY DEF LoopInv, CleanedUp, Publish
<1>2. new = <<>> <=> ToSet(new) = {}
  <2>1. new \in Seq(ToSet(store))
    BY DEF LoopInv
  <2>2. new = <<>> <=> Len(new) = 0
    BY <2>1, SMTT(30)
  <2>3. Len(new) # 0 => 1 \in 1..Len(new)
    BY <2>1, SMTT(30)
  <2>4. Len(new) = 0 => 1..Len(new) = {}
    BY <2>1, SMTT(30)
  <2> QED
    BY <2>2, <2>3, <2>4, NewElements
<1> QED
  BY <1>1, <1>2 DEF Publish, Selected!Selection

-----------------------------------------------------------------------------
(* Theorems *)

LEMMA LoopInit ==
  Init => LoopInv
<1> SUFFICES ASSUME Init PROVE LoopInv
  OBVIOUS
<1>1. new \in Seq(ToSet(store))
  BY SMTT(30) DEF Init
<1> QED
  BY <1>1, SMTT(30) DEF Init, LoopInv, CleanedUp

\* The clean-up of setEndpoints leaves exactly the endpoints that lead to an
\* address that does not fail, in any tree and with any probes.
THEOREM CleanUpExact == Spec => []CleanedUp
<1>1. LoopInv /\ [Next]_vars => LoopInv'
  BY LoopStep
<1>2. LoopInv => CleanedUp
  BY DEF LoopInv
<1> QED
  BY <1>1, <1>2, LoopInit, PTL DEF Spec

\* Every step of setEndpoints is a step of EndpointSelection: the record
\* changes only when it is updated, and then to the selection.
THEOREM SelectionImplemented == Spec => ImplementsSelection
<1>1. Init => Selected!Init
  BY SMTT(30) DEF Init, Selected!Init, ToSet
<1>2. LoopInv /\ [Next]_vars
        => [Selected!Next]_<<ToSet(store), Failed(seen, store), ToSet(record)>>
  <2> SUFFICES ASSUME LoopInv, [Next]_vars
               PROVE  Selected!Next
    OBVIOUS
  <2>1. CASE Publish
    BY <2>1, PublishSelects DEF Publish, Selected!Next, Selected!Publish
  <2>2. CASE record' = record
    BY <2>2 DEF Selected!Next, Selected!Observe
  <2> QED
    BY <2>1, <2>2 DEF Next, Step, vars, Start, BuildGroup, SortAndList, ListFails,
       CheckProbes, EndOfProbes, CleanOne, EndOfPass, UpdateFails, ProbeEvent
<1>3. LoopInv /\ [Next]_vars => LoopInv'
  BY LoopStep
<1> QED
  BY <1>1, <1>2, <1>3, LoopInit, PTL DEF Spec, ImplementsSelection, Selected!Spec

\* Between a listing of the probes and the next one the policy is queued as
\* soon as a probe changes.
RestInv ==
  /\ pc \in {"probes", "clean", "publish"} /\ ~queued => seen = probe
  /\ pc = "idle" /\ ~queued =>
       /\ seen = probe
       /\ ToSet(record) = Selected!Selection(ToSet(store), Failed(seen, store))

\* At rest the record shows the probes as they are, whatever changed while the
\* endpoints were being computed.
THEOREM HealthShownAtRest == Spec => []QuiescentMeansHealthShown
<1>1. Init => RestInv
  BY DEF Init, RestInv
<1>2. LoopInv /\ RestInv /\ [Next]_vars => RestInv'
  <2> SUFFICES ASSUME LoopInv, RestInv, [Next]_vars
               PROVE  RestInv'
    OBVIOUS
  <2>1. CASE Publish
    BY <2>1, PublishSelects DEF Publish, RestInv
  <2>2. CASE CheckProbes \/ EndOfProbes \/ CleanOne \/ EndOfPass
    BY <2>2 DEF RestInv, CheckProbes, EndOfProbes, CleanOne, EndOfPass
  <2>3. CASE Start \/ SortAndList \/ ListFails \/ UpdateFails
    BY <2>3 DEF RestInv, Start, SortAndList, ListFails, UpdateFails
  <2>4. CASE \E g \in groups : BuildGroup(g)
    BY <2>4 DEF RestInv, BuildGroup
  <2>5. CASE \E a \in DOMAIN probe, s \in ProbeStates : ProbeEvent(a, s)
    BY <2>5 DEF RestInv, ProbeEvent
  <2>6. CASE UNCHANGED vars
    BY <2>6 DEF RestInv, vars
  <2> QED
    BY <2>1, <2>2, <2>3, <2>4, <2>5, <2>6 DEF Next, Step
<1>3. RestInv => QuiescentMeansHealthShown
  BY DEF RestInv, QuiescentMeansHealthShown
<1>4. LoopInv /\ [Next]_vars => LoopInv'
  BY LoopStep
<1> QED
  BY <1>1, <1>2, <1>3, <1>4, LoopInit, PTL DEF Spec

-----------------------------------------------------------------------------
(* Types *)

\* What a step may do to the state outside the slices.
Shapes ==
  /\ input \in Inputs
  /\ probe \in [Probed -> ProbeStates]
  /\ seen \in [Probed -> ProbeStates]
  /\ pc \in {"idle", "groups", "probes", "clean", "publish"}
  /\ queued \in BOOLEAN /\ flips \in 0..MaxFlips /\ faults \in 0..MaxFaults

LEMMA ShapesStep ==
  ASSUME Shapes, [Next]_vars
  PROVE  Shapes'
<1>0. flips \in 0..MaxFlips /\ faults \in 0..MaxFaults /\ MaxFlips \in Nat /\ MaxFaults \in Nat
  BY EndpointConstants DEF Shapes
<1>1. input' = input
  BY DEF Next, Step, vars, Start, BuildGroup, SortAndList, ListFails, CheckProbes, EndOfProbes, CleanOne,
     EndOfPass, Publish, UpdateFails, ProbeEvent
<1>2. Probed' = Probed
  BY <1>1 DEF Probed
<1>3. CASE Start \/ (\E g \in groups : BuildGroup(g)) \/ CheckProbes \/ EndOfProbes \/ CleanOne \/ EndOfPass
           \/ Publish \/ UNCHANGED vars
  BY <1>1, <1>2, <1>3, Zenon DEF Shapes, vars, Start, BuildGroup, CheckProbes, EndOfProbes, CleanOne, EndOfPass, Publish
<1>4. CASE SortAndList
  BY <1>1, <1>2, <1>4 DEF Shapes, SortAndList
<1>5. CASE ListFails \/ UpdateFails
  <2>1. faults' \in 0..MaxFaults
    BY <1>0, <1>5, SMTT(30) DEF ListFails, UpdateFails, Fault
  <2>. QED
    BY <1>1, <1>2, <1>5, <2>1, Zenon DEF Shapes, ListFails, UpdateFails
<1>6. ASSUME NEW a \in DOMAIN probe, NEW s \in ProbeStates, ProbeEvent(a, s)
      PROVE  Shapes'
  <2>1. probe' \in [Probed -> ProbeStates]
    BY <1>6 DEF Shapes, ProbeEvent
  <2>2. flips' \in 0..MaxFlips
    BY <1>0, <1>6, SMTT(30) DEF ProbeEvent
  <2>. QED
    BY <1>1, <1>2, <1>6, <2>1, <2>2 DEF Shapes, ProbeEvent
<1>. QED
  BY <1>3, <1>4, <1>5, <1>6 DEF Next, Step

\* The index of the loops of setEndpoints never leaves the slice at its lower
\* end, although it is changed by the removals too, and the counter of removals
\* does not become negative.
THEOREM TypeCorrect == Spec => []TypeOK
<1>1. Init => Shapes
  BY EndpointConstants, SMTT(30) DEF Init, Shapes
<1>2. Shapes /\ [Next]_vars => Shapes'
  BY ShapesStep
<1>3. LoopInv /\ [Next]_vars => LoopInv'
  BY LoopStep
<1>4. LoopInv /\ Shapes => TypeOK
  BY NewElements DEF LoopInv, Shapes, TypeOK
<1>. QED
  BY <1>1, <1>2, <1>3, <1>4, LoopInit, PTL DEF Spec

-----------------------------------------------------------------------------
(* The default geo *)

Wildcard == <<"geo", "*">>

\* The group of the default geo, once visited, has given the default endpoint
\* and keeps it, and no endpoint built so far is a default.
DefaultGeoInv ==
  /\ input \in Inputs
  /\ \A e \in built : e.property # Wildcard
  /\ groups \subseteq GroupTargetsByGeo
  /\ pc = "groups" /\ GroupEndpoints(input.defaultGeo) # {} =>
       input.defaultGeo \in groups \/ defaultEndpoint = input.defaultGeo
  /\ DefaultGeoHonoured

\* The geo codes that occur.
LEMMA GroupCodes ==
  ASSUME input \in Inputs
  PROVE  /\ \A g \in GroupTargetsByGeo : g # "*" /\ (g = "default" => input.defaultGeo = "default")
         /\ input.defaultGeo # "none"
         /\ GroupEndpoints(input.defaultGeo) # {} => input.defaultGeo \in GroupTargetsByGeo
<1>1. input.defaultGeo \in DefaultGeos /\ input.label \in Labels
  BY DEF Inputs
<1>2. input.defaultGeo \notin {"none", "*"}
  BY <1>1, GeoCodes
<1>3. \A c \in Clusters : input.label[c] \notin {"default", "*"}
  BY <1>1, GeoCodes
<1>4. \A g \in GroupTargetsByGeo : g # "*" /\ (g = "default" => input.defaultGeo = "default")
  BY <1>2, <1>3 DEF GroupTargetsByGeo, GetGeo
<1>5. GroupEndpoints(input.defaultGeo) # {} => input.defaultGeo \in GroupTargetsByGeo
  BY DEF GroupEndpoints, GroupTargetsByGeo
<1>. QED
  BY <1>2, <1>4, <1>5

\* Of a group nothing is a default endpoint.
LEMMA GroupProperties ==
  ASSUME NEW g, g # "*", NEW e \in GroupEndpoints(g) \cup {GeoEndpoint(g)}
  PROVE  e.property # Wildcard
<1>1. /\ NoProperty # Wildcard /\ <<"geo", g>> # Wildcard
      /\ \A w : <<"weight", w>> # Wildcard
  BY DEF NoProperty, Wildcard
<1>2. CASE e = GeoEndpoint(g)
  BY <1>1, <1>2 DEF GeoEndpoint, Endpoint
<1>3. CASE e \in GroupEndpoints(g)
  <2>1. PICK c \in Clusters : e \in ClusterEndpoints(c)
    BY <1>3 DEF GroupEndpoints
  <2>2. e.property = NoProperty \/ e.property = <<"weight", GetWeight(c)>>
    BY <2>1, SMTT(30) DEF ClusterEndpoints, Endpoint
  <2>. QED
    BY <1>1, <2>2
<1>. QED
  BY <1>2, <1>3

\* One group of the map.
LEMMA BuildGroupDefault ==
  ASSUME DefaultGeoInv, NEW g \in groups, BuildGroup(g)
  PROVE  DefaultGeoInv'
<1>1. input \in Inputs /\ g \in GroupTargetsByGeo /\ pc = "groups" /\ UNCHANGED <<input, pc>> /\ groups' = groups \ {g}
  BY DEF DefaultGeoInv, BuildGroup
<1>2. g # "*" /\ (g = "default" => input.defaultGeo = "default") /\ input.defaultGeo # "none"
  BY <1>1, GroupCodes
<1>3. /\ GroupTargetsByGeo' = GroupTargetsByGeo
      /\ GroupEndpoints(input.defaultGeo)' = GroupEndpoints(input.defaultGeo)
  BY <1>1, SMTT(30)
    DEF GroupTargetsByGeo, GroupEndpoints, ClusterEndpoints, HostValues, IPValues, GetGeo
<1>4. built' \subseteq built \cup GroupEndpoints(g) \cup {GeoEndpoint(g)}
  BY DEF BuildGroup
<1>5. \A e \in built' : e.property # Wildcard
  BY <1>2, <1>4, GroupProperties DEF DefaultGeoInv
<1>6. GroupEndpoints(input.defaultGeo) # {} =>
        input.defaultGeo \in groups' \/ defaultEndpoint' = input.defaultGeo
  BY <1>1, <1>2 DEF DefaultGeoInv, BuildGroup
<1>7. DefaultGeoHonoured'
  BY <1>1 DEF DefaultGeoHonoured
<1>. QED
  BY <1>1, <1>3, <1>5, <1>6, <1>7 DEF DefaultGeoInv

\* The default endpoint is the only one of its kind.
LEMMA SortAndListDefault ==
  ASSUME DefaultGeoInv, SortAndList
  PROVE  DefaultGeoInv'
<1>. DEFINE all == IF built = {} THEN {}
                   ELSE built \cup {DefaultEndpoint(defaultEndpoint), HostEndpoint}
            d == DefaultEndpoint(defaultEndpoint)
<1>1. /\ ToSet(store') = all /\ pc = "groups" /\ groups = {} /\ pc' = "probes"
      /\ store' \in Seq(all) /\ UNCHANGED <<input, built, groups>>
  BY DEF SortAndList
<1>2. /\ GroupTargetsByGeo' = GroupTargetsByGeo
      /\ GroupEndpoints(input.defaultGeo)' = GroupEndpoints(input.defaultGeo)
  BY <1>1, SMTT(30)
    DEF GroupTargetsByGeo, GroupEndpoints, ClusterEndpoints, HostValues, IPValues, GetGeo
<1>3. ASSUME store' # <<>>
      PROVE  {e \in ToSet(store') : e.property = Wildcard} = {d}
  <2>1. all # {}
    BY <1>1, <1>3, SMTT(30)
  <2>2. d.property = Wildcard /\ HostEndpoint.property # Wildcard
    BY DEF DefaultEndpoint, HostEndpoint, Endpoint, NoProperty, Wildcard
  <2>. QED
    BY <1>1, <2>1, <2>2 DEF DefaultGeoInv
<1>4. d.targets = {GeoLbName(defaultEndpoint)}
  BY DEF DefaultEndpoint, Endpoint
<1>5. GroupEndpoints(input.defaultGeo) # {} => defaultEndpoint = input.defaultGeo
  BY <1>1 DEF DefaultGeoInv
<1>6. DefaultGeoHonoured'
  <2>1. Cardinality({d}) = 1
    BY FS_Singleton
  <2>. HIDE DEF d
  <2>. QED
    BY <1>1, <1>2, <1>3, <1>4, <1>5, <2>1, Zenon DEF DefaultGeoHonoured, Wildcard, GeoLbName
<1>. QED
  BY <1>1, <1>2, <1>6 DEF DefaultGeoInv

\* The groups and their endpoints are functions of the input.
LEMMA SameInput ==
  ASSUME input' = input
  PROVE  /\ GroupTargetsByGeo' = GroupTargetsByGeo
         /\ GroupEndpoints(input.defaultGeo)' = GroupEndpoints(input.defaultGeo)
<1>1. \A c \in Clusters : GetGeo(c)' = GetGeo(c)
  BY Zenon DEF GetGeo
<1>2. \A c \in Clusters : IPValues(c)' = IPValues(c)
  BY Zenon DEF IPValues
<1>3. \A c \in Clusters : HostValues(c)' = HostValues(c)
  BY <1>2, Zenon DEF HostValues
<1>4. \A c \in Clusters : ClusterEndpoints(c)' = ClusterEndpoints(c)
  BY <1>1, <1>2, <1>3, Zenon DEF ClusterEndpoints
<1>5. GroupTargetsByGeo' = GroupTargetsByGeo
  BY <1>1 DEF GroupTargetsByGeo
<1>6. {d \in Clusters : GetGeo(d) = input.defaultGeo}' = {d \in Clusters : GetGeo(d) = input.defaultGeo}
  BY <1>1
<1>7. GroupEndpoints(input.defaultGeo)' = GroupEndpoints(input.defaultGeo)
  BY <1>4, <1>6 DEF GroupEndpoints
<1>. QED
  BY <1>5, <1>7

\* Whatever the order of the map of geo groups, there is one default answer, and
\* a default geo that some cluster with an address has is that answer.
THEOREM DefaultGeoAlwaysHonoured == Spec => []DefaultGeoHonoured
<1>1. Init => DefaultGeoInv
  BY DEF Init, DefaultGeoInv, DefaultGeoHonoured
<1>2. ASSUME DefaultGeoInv, [Next]_vars
      PROVE  DefaultGeoInv'
  <2>1. CASE Start
    <3>1. /\ pc' = "groups" /\ built' = {} /\ groups' = GroupTargetsByGeo /\ UNCHANGED input
      BY <2>1 DEF Start
    <3>2. /\ GroupTargetsByGeo' = GroupTargetsByGeo
          /\ GroupEndpoints(input.defaultGeo)' = GroupEndpoints(input.defaultGeo)
      BY <3>1, SameInput
    <3>. QED
      BY <1>2, <3>1, <3>2, GroupCodes DEF DefaultGeoInv, DefaultGeoHonoured
  <2>2. CASE \E g \in groups : BuildGroup(g)
    BY <1>2, <2>2, BuildGroupDefault
  <2>3. CASE SortAndList
    BY <1>2, <2>3, SortAndListDefault
  <2>4. CASE \/ ListFails \/ CheckProbes \/ EndOfProbes \/ CleanOne \/ EndOfPass \/ Publish \/ UpdateFails
             \/ UNCHANGED vars \/ \E a \in DOMAIN probe, s \in ProbeStates : ProbeEvent(a, s)
    <3>1. UNCHANGED <<input, built, groups, store, defaultEndpoint>> /\ (pc' = pc \/ pc' \notin {"groups", "probes"})
      BY <2>4 DEF vars, ListFails, CheckProbes, EndOfProbes, CleanOne, EndOfPass, Publish, UpdateFails, ProbeEvent
    <3>2. /\ GroupTargetsByGeo' = GroupTargetsByGeo
          /\ GroupEndpoints(input.defaultGeo)' = GroupEndpoints(input.defaultGeo)
      BY <3>1, SameInput
    <3>. QED
      BY <1>2, <3>1, <3>2 DEF DefaultGeoInv, DefaultGeoHonoured
  <2>. QED
    BY <1>2, <2>1, <2>2, <2>3, <2>4 DEF Next, Step
<1>3. DefaultGeoInv => DefaultGeoHonoured
  BY DEF DefaultGeoInv
<1>. QED
  BY <1>1, <1>2, <1>3, PTL DEF Spec

=============================================================================
