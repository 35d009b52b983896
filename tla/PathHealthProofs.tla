--------------------------- MODULE PathHealthProofs ---------------------------
(***************************************************************************)
(* The way back of a demoted path, and the nodes of the arteries, for any  *)
(* arteries and nodes and any thresholds of the controller.                *)
(***************************************************************************)
EXTENDS PathHealth, FiniteSetTheorems, TLAPS

-----------------------------------------------------------------------------
(* The state machine of one path. *)

Entries == [state : PathStates, demote : Nat, promote : Nat, errors : Nat, age : Nat]

\* The counters on the way back are backed by good windows in a row: those of a
\* path in the shadow, which start behind the cooldown, and those of a path on
\* probation, which come on top.
Backed(e, g) ==
  /\ e.state = "shadow" => g >= e.promote /\ (e.promote > 0 => e.age >= CooldownWindows)
  /\ e.state = "probation" => g >= ConfirmWindows + e.promote
  /\ e.state \in {"shadow", "probation"} => e.promote < ConfirmWindows

PathInv ==
  /\ entry \in [Arteries -> Entries]
  /\ good \in [Arteries -> Nat]
  /\ \A p \in Arteries : Backed(entry[p], good[p])

\* The good windows in a row after one more.
GoodAfter(e, window, g) ==
  IF ~Counts(e, window) THEN 0 ELSE IF g < 2 * ConfirmWindows THEN g + 1 ELSE g

LEMMA Windows == ConfirmWindows \in Nat /\ ConfirmWindows > 0 /\ CooldownWindows \in Nat
BY ThresholdsAssumption

\* A transition starts with all counters at zero.
LEMMA ToType ==
  ASSUME NEW e \in Entries, NEW state \in PathStates
  PROVE  /\ To(e, state) \in Entries /\ To(e, state).state = state
         /\ To(e, state).promote = 0
BY DEF To, Entries

LEMMA OneMore ==
  ASSUME NEW e \in Entries, NEW window, NEW g \in Nat
  PROVE  /\ GoodAfter(e, window, g) \in Nat
         /\ Counts(e, window) => \/ GoodAfter(e, window, g) = g + 1
                                 \/ GoodAfter(e, window, g) >= 2 * ConfirmWindows
BY Windows DEF GoodAfter

\* What one evaluation makes of a path.
EvaluatesTo(e, window, g, f) ==
  /\ f \in Entries
  /\ Backed(f, GoodAfter(e, window, g))
  /\ e.state # "active" /\ f.state = "active"
       => GoodAfter(e, window, g) >= 2 * ConfirmWindows

LEMMA ActiveStep ==
  ASSUME NEW e \in Entries, NEW alive \in BOOLEAN, NEW window, NEW g \in Nat,
         Backed(e, g), e.state = "active"
  PROVE  EvaluatesTo(e, window, g, evaluateActive(e, alive, window))
<1> DEFINE demote == IF window = "poor" THEN e.demote + 1 ELSE 0
           f == evaluateActive(e, alive, window)
<1>1. demote \in Nat
  BY DEF Entries
<1>2. \/ f = To(e, "dead") \/ f = To(e, "shadow") \/ f = To(e, "quarantined")
      \/ f = [e EXCEPT !.demote = demote]
  BY DEF evaluateActive
<1>3. [e EXCEPT !.demote = demote] \in Entries
      /\ [e EXCEPT !.demote = demote].state = "active"
  BY <1>1 DEF Entries
<1> HIDE DEF f, demote
<1>4. /\ f \in Entries
      /\ f.state # "probation"
      /\ f.state = "shadow" => f.promote = 0
  <2>1. \A state \in {"dead", "shadow", "quarantined"} :
          /\ To(e, state) \in Entries /\ To(e, state).state = state
          /\ To(e, state).promote = 0
    BY ToType DEF PathStates
  <2>2. CASE f = [e EXCEPT !.demote = demote]
    BY <1>3, <2>2
  <2>3. CASE \E state \in {"dead", "shadow", "quarantined"} : f = To(e, state)
    BY <2>1, <2>3
  <2> QED BY <1>2, <2>2, <2>3
<1>5. GoodAfter(e, window, g) \in Nat
  BY OneMore
<1> QED BY <1>4, <1>5, Windows DEF EvaluatesTo, Backed, f

LEMMA ShadowStep ==
  ASSUME NEW e \in Entries, NEW alive \in BOOLEAN, NEW window, NEW g \in Nat,
         Backed(e, g), e.state = "shadow"
  PROVE  EvaluatesTo(e, window, g, evaluateShadow(e, alive, window))
<1> DEFINE f == evaluateShadow(e, alive, window)
           g2 == GoodAfter(e, window, g)
<1>0. /\ e.promote \in Nat /\ e.age \in Nat /\ g2 \in Nat
      /\ Counts(e, window) => g2 = g + 1 \/ g2 >= 2 * ConfirmWindows
  BY OneMore DEF Entries
<1>1. CASE ~alive
  BY <1>0, <1>1, ToType DEF evaluateShadow, EvaluatesTo, Backed, PathStates
<1>2. CASE alive /\ e.age < CooldownWindows
  <2>1. f = e /\ e.promote = 0
    BY <1>0, <1>2, Windows DEF evaluateShadow, Backed
  <2> QED BY <1>0, <2>1, Windows DEF EvaluatesTo, Backed
<1>3. CASE alive /\ e.age >= CooldownWindows /\ window # "good"
  <2>1. f = [e EXCEPT !.promote = 0]
    BY <1>0, <1>3, Windows DEF evaluateShadow
  <2>2. f \in Entries /\ f.state = "shadow" /\ f.promote = 0
    BY <2>1 DEF Entries
  <2> HIDE DEF f
  <2> QED BY <1>0, <2>2, Windows DEF EvaluatesTo, Backed, f
<1>4. CASE alive /\ e.age >= CooldownWindows /\ window = "good"
  <2>1. f = IF e.promote + 1 >= ConfirmWindows THEN To(e, "probation")
                                               ELSE [e EXCEPT !.promote = @ + 1]
    BY <1>0, <1>4, Windows DEF evaluateShadow
  <2>2. Counts(e, window)
    BY <1>4 DEF Counts
  <2>3. CASE e.promote + 1 >= ConfirmWindows
    <3>1. f \in Entries /\ f.state = "probation" /\ f.promote = 0
      BY <2>1, <2>3, ToType DEF PathStates
    <3>2. g2 >= ConfirmWindows
      BY <1>0, <2>2, <2>3, Windows DEF Backed
    <3> HIDE DEF f, g2
    <3> QED BY <1>0, <3>1, <3>2, Windows DEF EvaluatesTo, Backed, f, g2
  <2>4. CASE ~(e.promote + 1 >= ConfirmWindows)
    <3>1. f = [e EXCEPT !.promote = e.promote + 1]
      BY <2>1, <2>4
    <3>2. /\ f \in Entries /\ f.state = "shadow" /\ f.promote = e.promote + 1
          /\ f.age = e.age
      BY <3>1 DEF Entries
    <3>3. g2 >= e.promote + 1
      BY <1>0, <2>2, <2>4, Windows DEF Backed
    <3> HIDE DEF f, g2
    <3>4. Backed(f, g2)
      <4>1. f.age >= CooldownWindows /\ f.promote < ConfirmWindows /\ f.promote <= g2
        BY <1>0, <1>4, <2>4, <3>2, <3>3, Windows
      <4> QED BY <3>2, <4>1 DEF Backed
    <3> QED BY <3>2, <3>4 DEF EvaluatesTo, f, g2
  <2> QED BY <2>3, <2>4
<1>5. e.age < CooldownWindows \/ e.age >= CooldownWindows
  BY <1>0, Windows
<1> QED BY <1>1, <1>2, <1>3, <1>4, <1>5

LEMMA ProbationStep ==
  ASSUME NEW e \in Entries, NEW alive \in BOOLEAN, NEW window, NEW g \in Nat,
         Backed(e, g), e.state = "probation"
  PROVE  EvaluatesTo(e, window, g, evaluateProbation(e, alive, window))
<1> DEFINE f == evaluateProbation(e, alive, window)
           g2 == GoodAfter(e, window, g)
<1>0. /\ e.promote \in Nat /\ g2 \in Nat
      /\ Counts(e, window) => g2 = g + 1 \/ g2 >= 2 * ConfirmWindows
  BY OneMore DEF Entries
<1>1. CASE ~alive \/ window # "good"
  <2>1. f = To(e, "dead") \/ f = To(e, "shadow")
    BY <1>1 DEF evaluateProbation
  <2>2. f \in Entries /\ f.promote = 0 /\ f.state \in {"dead", "shadow"}
    BY <2>1, ToType DEF PathStates
  <2> HIDE DEF f, g2
  <2> QED BY <1>0, <2>2, Windows DEF EvaluatesTo, Backed, f, g2
<1>2. CASE alive /\ window = "good"
  <2>1. f = IF e.promote + 1 >= ConfirmWindows
              THEN [To(e, "active") EXCEPT !.errors = 0]
              ELSE [e EXCEPT !.promote = @ + 1]
    BY <1>2 DEF evaluateProbation
  <2>2. Counts(e, window)
    BY <1>2 DEF Counts
  <2>3. CASE e.promote + 1 >= ConfirmWindows
    <3>1. f = [To(e, "active") EXCEPT !.errors = 0]
      BY <2>1, <2>3
    <3>2. \A d \in Entries : LET h == [d EXCEPT !.errors = 0] IN
            h \in Entries /\ h.state = d.state
      BY DEF Entries
    <3>3. f \in Entries /\ f.state = "active"
      <4> HIDE DEF f
      <4> QED BY <3>1, <3>2, ToType DEF PathStates
    <3>4. g2 >= 2 * ConfirmWindows
      BY <1>0, <2>2, <2>3, Windows DEF Backed
    <3> HIDE DEF f, g2
    <3> QED BY <1>0, <3>3, <3>4, Windows DEF EvaluatesTo, Backed, f, g2
  <2>4. CASE ~(e.promote + 1 >= ConfirmWindows)
    <3>1. f = [e EXCEPT !.promote = e.promote + 1]
      BY <2>1, <2>4
    <3>2. f \in Entries /\ f.state = "probation" /\ f.promote = e.promote + 1
      BY <3>1 DEF Entries
    <3>3. g2 >= ConfirmWindows + e.promote + 1
      BY <1>0, <2>2, <2>4, Windows DEF Backed
    <3> HIDE DEF f, g2
    <3> QED BY <1>0, <2>4, <3>2, <3>3, Windows DEF EvaluatesTo, Backed, f, g2
  <2> QED BY <2>3, <2>4
<1> QED BY <1>1, <1>2

\* A turn of the loop of Evaluate.
LEMMA EvaluatedStep ==
  ASSUME NEW e \in Entries, NEW alive \in BOOLEAN, NEW window, NEW g \in Nat, Backed(e, g)
  PROVE  EvaluatesTo(e, window, g, Evaluated(e, alive, window))
<1> DEFINE f == Evaluated(e, alive, window)
<1>0. GoodAfter(e, window, g) \in Nat /\ e.state \in PathStates
  BY OneMore DEF Entries
<1>1. CASE e.state = "active"
  <2>1. f = evaluateActive(e, alive, window)
    BY <1>1 DEF Evaluated
  <2> QED BY <1>1, <2>1, ActiveStep
<1>2. CASE e.state = "shadow"
  <2>1. f = evaluateShadow(e, alive, window)
    BY <1>2 DEF Evaluated
  <2> QED BY <1>2, <2>1, ShadowStep
<1>3. CASE e.state = "probation"
  <2>1. f = evaluateProbation(e, alive, window)
    BY <1>3 DEF Evaluated
  <2> QED BY <1>3, <2>1, ProbationStep
<1>4. CASE e.state \in {"quarantined", "dead"}
  <2>1. \A d \in Entries : LET h == [d EXCEPT !.errors = 0] IN
          h \in Entries /\ h.state = d.state
    BY DEF Entries
  <2>2. f = e \/ f = [To(e, "dead") EXCEPT !.errors = 0]
    BY <1>4 DEF Evaluated, evaluateQuarantined
  <2>3. f \in Entries /\ f.state \in {"quarantined", "dead"}
    <3>1. To(e, "dead") \in Entries /\ To(e, "dead").state = "dead"
      BY ToType DEF PathStates
    <3> DEFINE dead == To(e, "dead")
               h == [dead EXCEPT !.errors = 0]
    <3>2. h \in Entries /\ h.state = "dead"
      <4> HIDE DEF dead
      <4> QED BY <2>1, <3>1 DEF dead
    <3>3. f = e \/ f = h
      BY <2>2
    <3> HIDE DEF f, h
    <3> QED BY <1>4, <3>2, <3>3
  <2> HIDE DEF f
  <2> QED BY <2>3 DEF EvaluatesTo, Backed, f
<1> QED BY <1>0, <1>1, <1>2, <1>3, <1>4 DEF PathStates

LEMMA NewEntryBacked == NewEntry \in Entries /\ \A g \in Nat : Backed(NewEntry, g)
BY DEF NewEntry, Entries, PathStates, Backed

-----------------------------------------------------------------------------
(* No flapping. *)

\* What a step does to the p-th path.
Proven(p) ==
  entry[p].state # "active" /\ entry'[p].state = "active" /\ ~Replaced(p)
    => good'[p] >= 2 * ConfirmWindows

PathsGoOn == PathInv' /\ \A p \in Arteries : Proven(p)

LEMMA PathsStay == ASSUME PathInv, UNCHANGED <<entry, good>> PROVE PathsGoOn
BY DEF PathInv, PathsGoOn, Proven

LEMMA RecordErrorStep ==
  ASSUME PathInv, NEW p \in Arteries, RecordError(p)
  PROVE  PathsGoOn
<1>1. entry' = [entry EXCEPT ![p].errors = @ + 1] /\ good' = good
  BY DEF RecordError
<1>2. \A q \in Arteries :
        /\ entry'[q] \in Entries /\ entry'[q].state = entry[q].state
        /\ entry'[q].promote = entry[q].promote /\ entry'[q].age = entry[q].age
  BY <1>1 DEF PathInv, Entries
<1>3. entry' \in [Arteries -> Entries]
  BY <1>1, <1>2 DEF PathInv
<1>4. PathInv'
  BY <1>1, <1>2, <1>3 DEF PathInv, Backed
<1> QED BY <1>2, <1>4 DEF PathsGoOn, Proven

\* The cooldown never runs backwards.
LEMMA BeginWindowStep == ASSUME PathInv, BeginWindow PROVE PathsGoOn
<1>1. entry' = [p \in Arteries |-> Older(entry[p])] /\ good' = good
  BY DEF BeginWindow
<1>2. \A e \in Entries :
        /\ Older(e) \in Entries /\ Older(e).state = e.state
        /\ Older(e).promote = e.promote
        /\ e.age >= CooldownWindows => Older(e).age >= CooldownWindows
  BY Windows DEF Older, Entries
<1>3. PathInv'
  BY <1>1, <1>2 DEF PathInv, Backed
<1>4. \A p \in Arteries : entry'[p].state = entry[p].state
  BY <1>1, <1>2 DEF PathInv
<1> QED BY <1>3, <1>4 DEF PathsGoOn, Proven

LEMMA EvaluateEntryStep ==
  ASSUME PathInv, NEW p \in Arteries, EvaluateEntry(p)
  PROVE  PathsGoOn
<1>1. PICK window \in {"good", "fair", "poor"} :
        /\ entry' = [entry EXCEPT ![p] = Evaluated(entry[p], p \in seen, window)]
        /\ good' = [good EXCEPT ![p] = GoodAfter(entry[p], window, good[p])]
  BY DEF EvaluateEntry, GoodAfter
<1> DEFINE f == Evaluated(entry[p], p \in seen, window)
           g2 == GoodAfter(entry[p], window, good[p])
<1>2. EvaluatesTo(entry[p], window, good[p], f)
  <2>1. \A e \in Entries, g \in Nat, alive \in BOOLEAN :
          Backed(e, g) => EvaluatesTo(e, window, g, Evaluated(e, alive, window))
    BY EvaluatedStep
  <2>2. /\ entry[p] \in Entries /\ good[p] \in Nat /\ Backed(entry[p], good[p])
        /\ (p \in seen) \in BOOLEAN
    BY DEF PathInv
  <2> QED BY ONLY <2>1, <2>2 DEF f
<1>3. g2 \in Nat
  BY OneMore DEF PathInv
<1>4. /\ f \in Entries /\ Backed(f, g2)
      /\ entry[p].state # "active" /\ f.state = "active" => g2 >= 2 * ConfirmWindows
  BY <1>2 DEF EvaluatesTo
<1> HIDE DEF f, g2
<1>5. \A q \in Arteries : /\ entry'[q] = IF q = p THEN f ELSE entry[q]
                          /\ good'[q] = IF q = p THEN g2 ELSE good[q]
  BY <1>1 DEF PathInv, f, g2
<1>6. entry' \in [Arteries -> Entries] /\ good' \in [Arteries -> Nat]
  BY <1>1, <1>3, <1>4 DEF PathInv, f, g2
<1>7. PathInv'
  BY <1>4, <1>5, <1>6 DEF PathInv
<1> QED BY <1>4, <1>5, <1>7 DEF PathsGoOn, Proven

\* How far the replacement of each artery is.
SwapType == swap \in [Arteries -> {"none", "wait", "refresh", "take"}]

LEMMA TakeCandidateStep ==
  ASSUME PathInv, SwapType, NEW p \in Arteries, TakeCandidate(p)
  PROVE  PathsGoOn
<1>1. CASE UNCHANGED <<entry, good>>
  BY <1>1, PathsStay
<1>2. CASE /\ entry' = [entry EXCEPT ![p] = NewEntry]
           /\ good' = [good EXCEPT ![p] = 0]
  <2>1. PathInv'
    BY <1>2, NewEntryBacked DEF PathInv
  <2>2. Replaced(p) /\ \A q \in Arteries \ {p} : entry'[q] = entry[q]
    BY <1>2 DEF TakeCandidate, Replaced, PathInv, SwapType
  <2> QED BY <2>1, <2>2 DEF PathsGoOn, Proven
<1> QED BY <1>1, <1>2 DEF TakeCandidate

LEMMA SwapTypeStep == ASSUME SwapType, [Next]_vars PROVE SwapType'
<1>1. CASE EndWindow
  BY <1>1 DEF SwapType, EndWindow
<1>2. CASE \E p \in Arteries : LockReplacing(p) \/ RefreshCandidates(p) \/ TakeCandidate(p)
  BY <1>2 DEF SwapType, LockReplacing, RefreshCandidates, TakeCandidate
<1>3. CASE UNCHANGED swap
  BY <1>3 DEF SwapType
<1> QED BY <1>1, <1>2, <1>3
        DEF Next, vars, Toggle, RecordError, EvaluateEntry, SyncLiveness, BeginWindow

LEMMA PathsStep == ASSUME PathInv, SwapType, [Next]_vars PROVE PathsGoOn
<1>1. CASE BeginWindow
  BY <1>1, BeginWindowStep
<1>2. CASE \E p \in Arteries : RecordError(p) \/ EvaluateEntry(p) \/ TakeCandidate(p)
  BY <1>2, RecordErrorStep, EvaluateEntryStep, TakeCandidateStep
<1>3. CASE UNCHANGED <<entry, good>>
  BY <1>3, PathsStay
<1> QED BY <1>1, <1>2, <1>3
        DEF Next, vars, Toggle, SyncLiveness, EndWindow, LockReplacing, RefreshCandidates

LEMMA PathsInit == Init => PathInv /\ SwapType
BY NewEntryBacked DEF Init, PathInv, SwapType

\* No flapping, for any thresholds: a path that was demoted carries traffic
\* again only behind the cooldown and 2 * ConfirmWindows good windows in a row,
\* or on another node.
THEOREM NoFlapping == Spec => ReturnsProven
<1>1. PathInv /\ SwapType /\ [Next]_vars => (PathInv /\ SwapType)'
  BY PathsStep, SwapTypeStep DEF PathsGoOn
<1>2. PathInv /\ SwapType /\ [Next]_vars
        => [\A p \in Arteries :
              entry[p].state # "active" /\ entry'[p].state = "active" /\ ~Replaced(p)
                => good'[p] >= 2 * ConfirmWindows]_vars
  BY PathsStep DEF PathsGoOn, Proven
<1> QED BY <1>1, <1>2, PathsInit, PTL DEF Spec, ReturnsProven

-----------------------------------------------------------------------------
(* The nodes of the arteries. *)

\* There are more nodes than arteries: the first nodes differ, and a listing
\* that is not empty names more nodes than there are arteries.
Enough ==
  /\ IsFiniteSet(Arteries)
  /\ \A p, q \in Arteries : p # q => FirstNode[p] # FirstNode[q]
  /\ \A listing \in Listings :
       listing # {} => IsFiniteSet(listing) /\ Cardinality(listing) > Cardinality(Arteries)

\* Candidates are free from the moment they are listed to the moment one is
\* taken, because only the holder of replacingMu changes a node.
CandidatesFree ==
  \A p \in Arteries : swap[p] = "take" =>
    /\ listed[p].first \subseteq listed[p].all
    /\ listed[p].all \subseteq Nodes
    /\ listed[p].all \cap InUse = {}

NodesInv ==
  /\ SwapType
  /\ node \in [Arteries -> Nodes]
  /\ listed \in [Arteries -> [first : SUBSET Nodes, all : SUBSET Nodes]]
  /\ pool \subseteq Nodes /\ pool \cap InUse = {}
  /\ \A p, q \in Replacing : p = q
  /\ CandidatesFree
  /\ NodesUnique

\* No listing is used up.
LEMMA SomeNodeIsFree ==
  ASSUME Enough, node \in [Arteries -> Nodes], NEW listing \in Listings, listing # {}
  PROVE  ~(listing \subseteq InUse)
<1>1. IsFiniteSet(Arteries)
  BY DEF Enough
<1>2. IsFiniteSet(InUse) /\ Cardinality(InUse) <= Cardinality(Arteries)
  <2>1. node \in Surjection(Arteries, InUse)
    BY DEF Surjection, InUse
  <2> QED BY <1>1, <2>1, FS_Surjection
<1>3. CASE listing \subseteq InUse
  <2>1. Cardinality(listing) <= Cardinality(InUse)
    BY <1>2, <1>3, FS_Subset
  <2>2. Cardinality(listing) > Cardinality(Arteries) /\ IsFiniteSet(listing)
    BY DEF Enough
  <2>3. Cardinality(listing) \in Nat /\ Cardinality(Arteries) \in Nat /\ Cardinality(InUse) \in Nat
    BY <1>1, <1>2, <2>2, FS_CardinalityType
  <2> QED BY <1>2, <2>1, <2>2, <2>3
<1> QED BY <1>3

LEMMA CandidatesAreFree ==
  ASSUME Enough, NodesInv, NEW listing \in Listings
  PROVE  /\ Candidates(listing) \in [first : SUBSET Nodes, all : SUBSET Nodes]
         /\ Candidates(listing).first \subseteq Candidates(listing).all
         /\ Candidates(listing).all \cap InUse = {}
<1>1. listing \subseteq Nodes
  BY NodesAssumption
<1>2. CASE listing = {}
  BY <1>2 DEF Candidates, NodesInv
<1>3. CASE listing # {}
  <2>1. ~(listing \subseteq InUse)
    BY <1>3, SomeNodeIsFree DEF NodesInv
  <2>2. Candidates(listing) = [first |-> listing \ InUse, all |-> listing \ InUse]
    BY <1>3, <2>1 DEF Candidates
  <2> QED BY <1>1, <2>2
<1> QED BY <1>2, <1>3

LEMMA LockStep ==
  ASSUME NodesInv, NEW p \in Arteries, LockReplacing(p)
  PROVE  NodesInv'
<1>1. /\ \A q \in Arteries : swap'[q] = IF q = p THEN "refresh" ELSE swap[q]
      /\ UNCHANGED <<node, listed, pool>>
  BY DEF LockReplacing, NodesInv, SwapType
<1>2. InUse' = InUse /\ Replacing' = {p}
  BY <1>1 DEF InUse, Replacing, LockReplacing
<1>3. SwapType'
  BY DEF SwapType, NodesInv, LockReplacing
<1>4. CandidatesFree'
  BY <1>1, <1>2 DEF CandidatesFree, NodesInv
<1> QED BY <1>1, <1>2, <1>3, <1>4 DEF NodesInv, NodesUnique

LEMMA RefreshStep ==
  ASSUME Enough, NodesInv, NEW p \in Arteries, RefreshCandidates(p)
  PROVE  NodesInv'
<1>1. PICK listing \in Listings : listed' = [listed EXCEPT ![p] = Candidates(listing)]
  BY DEF RefreshCandidates
<1>2. /\ \A q \in Arteries : swap'[q] = IF q = p THEN "take" ELSE swap[q]
      /\ swap[p] = "refresh" /\ UNCHANGED <<node, pool>>
  BY DEF RefreshCandidates, NodesInv, SwapType
<1>3. InUse' = InUse /\ Replacing' = Replacing
  BY <1>2 DEF InUse, Replacing
<1>4. SwapType'
  BY DEF SwapType, NodesInv, RefreshCandidates
<1>5. /\ listed' \in [Arteries -> [first : SUBSET Nodes, all : SUBSET Nodes]]
      /\ \A q \in Arteries : listed'[q] = IF q = p THEN Candidates(listing) ELSE listed[q]
  BY <1>1, CandidatesAreFree DEF NodesInv
<1>6. CandidatesFree'
  BY <1>2, <1>3, <1>5, CandidatesAreFree DEF CandidatesFree, NodesInv
<1> QED BY <1>2, <1>3, <1>4, <1>5, <1>6 DEF NodesInv, NodesUnique

LEMMA TakeStep ==
  ASSUME NodesInv, NEW p \in Arteries, TakeCandidate(p)
  PROVE  NodesInv'
<1>1. /\ \A q \in Arteries : swap'[q] = IF q = p THEN "none" ELSE swap[q]
      /\ swap[p] = "take" /\ p \in Replacing
  BY DEF TakeCandidate, NodesInv, SwapType, Replacing
<1>2. Replacing' = {}
  BY <1>1 DEF Replacing, NodesInv
<1>3. SwapType'
  BY DEF SwapType, NodesInv, TakeCandidate
<1>4. listed' \in [Arteries -> [first : SUBSET Nodes, all : SUBSET Nodes]]
  BY DEF TakeCandidate, NodesInv, NoCandidates
<1>5. CandidatesFree'
  BY <1>2 DEF CandidatesFree, Replacing
<1>6. CASE pool' = {} /\ UNCHANGED node
  BY <1>2, <1>3, <1>4, <1>5, <1>6 DEF NodesInv, NodesUnique, InUse
<1>7. CASE \E n \in listed[p].first :
             node' = [node EXCEPT ![p] = n] /\ pool' = listed[p].all \ {n}
  <2>1. PICK n \in listed[p].first :
          node' = [node EXCEPT ![p] = n] /\ pool' = listed[p].all \ {n}
    BY <1>7
  <2>2. n \in Nodes /\ n \notin InUse /\ listed[p].all \subseteq Nodes
        /\ listed[p].all \cap InUse = {}
    BY <1>1, <2>1 DEF NodesInv, CandidatesFree
  <2>3. /\ node' \in [Arteries -> Nodes]
        /\ \A q \in Arteries : node'[q] = IF q = p THEN n ELSE node[q]
    BY <2>1, <2>2 DEF NodesInv
  <2>4. InUse' \subseteq InUse \cup {n}
    BY <2>3 DEF InUse
  <2>5. pool' \subseteq Nodes /\ pool' \cap InUse' = {}
    BY <2>1, <2>2, <2>4
  <2>6. NodesUnique'
    BY <2>2, <2>3 DEF NodesUnique, NodesInv, InUse
  <2> QED BY <1>2, <1>3, <1>4, <1>5, <2>3, <2>5, <2>6 DEF NodesInv
<1> QED BY <1>6, <1>7 DEF TakeCandidate

\* Whatever ends a window only asks for replacements.
LEMMA EndWindowStep == ASSUME NodesInv, EndWindow PROVE NodesInv'
<1>1. \A p \in Arteries : swap'[p] = swap[p] \/ swap'[p] = "wait"
  BY DEF EndWindow
<1>2. UNCHANGED <<node, listed, pool>>
  BY DEF EndWindow
<1>3. InUse' = InUse /\ Replacing' \subseteq Replacing
  BY <1>1, <1>2 DEF InUse, Replacing
<1>4. SwapType'
  BY DEF SwapType, NodesInv, EndWindow
<1>5. CandidatesFree'
  BY <1>1, <1>2, <1>3 DEF CandidatesFree, NodesInv
<1> QED BY <1>2, <1>3, <1>4, <1>5 DEF NodesInv, NodesUnique

LEMMA NodesStay == ASSUME NodesInv, UNCHANGED <<node, listed, pool, swap>> PROVE NodesInv'
<1>1. InUse' = InUse /\ Replacing' = Replacing
  BY DEF InUse, Replacing
<1> QED BY <1>1 DEF NodesInv, SwapType, CandidatesFree, NodesUnique

LEMMA NodesInit == ASSUME Enough, Init PROVE NodesInv
<1>1. Replacing = {} /\ SwapType /\ CandidatesFree
  BY DEF Init, Replacing, SwapType, CandidatesFree
<1>2. node \in [Arteries -> Nodes] /\ NodesUnique
  BY NodesAssumption DEF Init, Enough, NodesUnique
<1>3. listed \in [Arteries -> [first : SUBSET Nodes, all : SUBSET Nodes]]
  BY DEF Init, NoCandidates
<1>4. pool \subseteq Nodes /\ pool \cap InUse = {}
  BY DEF Init, InUse
<1> QED BY <1>1, <1>2, <1>3, <1>4 DEF NodesInv

LEMMA NodesStep == ASSUME Enough, NodesInv, [Next]_vars PROVE NodesInv'
<1>1. CASE EndWindow
  BY <1>1, EndWindowStep
<1>2. CASE \E p \in Arteries : LockReplacing(p) \/ RefreshCandidates(p) \/ TakeCandidate(p)
  BY <1>2, LockStep, RefreshStep, TakeStep
<1>3. CASE UNCHANGED <<node, listed, pool, swap>>
  BY <1>3, NodesStay
<1> QED BY <1>1, <1>2, <1>3
        DEF Next, vars, Toggle, RecordError, EvaluateEntry, SyncLiveness, BeginWindow

\* As long as there are more nodes than arteries, no two arteries are routed
\* through the same node, however many of them are replaced at once: a node
\* that was free when refreshCandidatePool looked is free when
\* replaceDeadArtery takes it.
THEOREM NodesAreUnique == ASSUME Enough PROVE Spec => []NodesUnique
<1>1. Init => NodesInv
  BY NodesInit
<1>2. NodesInv /\ [Next]_vars => NodesInv'
  BY NodesStep
<1>3. NodesInv => NodesUnique
  BY DEF NodesInv
<1> QED BY <1>1, <1>2, <1>3, PTL DEF Spec
=============================================================================
