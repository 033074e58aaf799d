-------------------------- MODULE ClusteringProofs --------------------------
(***************************************************************************)
(* Proofs about Clustering for a pool of any size.  EvidenceOnly becomes   *)
(* inductive with WorkOK: what the loops still have to compare are pairs   *)
(* of their stage.  PagesTogether needs that only whole clusters move and  *)
(* that a page's pairs all meet its first candidate; CitiesPartition, that *)
(* the location table is never out of date where every candidate has a     *)
(* city and no page is shared.                                             *)
(***************************************************************************)
EXTENDS Clustering, FiniteSetTheorems, WellFoundedInduction, TLAPS

WorkOK ==
  /\ stage = "url" => todo \subseteq UrlPairs
  /\ stage = "text" => todo \subseteq TextPairs
  /\ stage = "done" => todo = {}

\* The root of a merged cluster is the root of one of its halves, and a root.
LEMMA JoinedRoot ==
  ASSUME TypeOK, NEW a \in Ids, NEW b \in Ids
  PROVE  /\ Joined(a, b) \in {root[a], root[b]}
         /\ Joined(a, b) \in Ids
         /\ root[Joined(a, b)] = Joined(a, b)
BY DEF Joined, TypeOK

\* A merge keeps find() idempotent and the location table total.
LEMMA MergeType ==
  ASSUME TypeOK, NEW a \in Ids, NEW b \in Ids, Merge(a, b)
  PROVE  /\ root' \in [Ids -> Ids] /\ \A i \in Ids : root'[root'[i]] = root'[i]
         /\ location' \in [Ids -> Cities \cup {NoCity}]
<1>1. root \in [Ids -> Ids] /\ \A i \in Ids : root[root[i]] = root[i]
  BY DEF TypeOK
<1>2. root' = [i \in Ids |-> IF root[i] \in {root[a], root[b]} THEN Joined(a, b) ELSE root[i]]
  BY DEF Merge
<1>3. root' \in [Ids -> Ids]
  BY <1>1, <1>2, JoinedRoot
<1>4. ASSUME NEW i \in Ids PROVE root'[root'[i]] = root'[i]
  <2>1. CASE root[i] \in {root[a], root[b]}
    BY <1>1, <1>2, <2>1, JoinedRoot
  <2>2. CASE root[i] \notin {root[a], root[b]}
    BY <1>1, <1>2, <2>2
  <2> QED BY <2>1, <2>2
<1>5. location' \in [Ids -> Cities \cup {NoCity}]
  BY DEF Merge, TypeOK
<1> QED BY <1>3, <1>4, <1>5

LEMMA TypeStep == TypeOK /\ [Next]_vars => TypeOK'
<1> SUFFICES ASSUME TypeOK, [Next]_vars PROVE TypeOK'
  OBVIOUS
<1>1. ASSUME NEW p \in todo, Compare(p) PROVE TypeOK'
  <2>1. p[1] \in Ids /\ p[2] \in Ids
    BY DEF TypeOK, Pairs
  <2>2. Merge(p[1], p[2]) \/ Skip
    BY <1>1 DEF Compare
  <2>3. /\ root' \in [Ids -> Ids] /\ \A i \in Ids : root'[root'[i]] = root'[i]
        /\ location' \in [Ids -> Cities \cup {NoCity}]
    <3>1. CASE Merge(p[1], p[2])
      BY <2>1, <3>1, MergeType
    <3>2. CASE Skip
      BY <3>2 DEF Skip, TypeOK
    <3> QED BY <2>2, <3>1, <3>2
  <2>4. UNCHANGED <<source, city, url, bucket, near, stage>> /\ todo' = todo \ {p}
    BY <1>1 DEF Compare, candidates
  <2> QED BY <2>3, <2>4 DEF TypeOK, Pairs
<1>2. CASE StartText
  BY <1>2 DEF StartText, candidates, TypeOK, TextPairs, Pairs
<1>3. CASE Finish
  BY <1>3 DEF Finish, candidates, TypeOK, Pairs
<1>4. CASE UNCHANGED vars
  BY <1>4 DEF vars, candidates, TypeOK, Pairs
<1> QED BY <1>1, <1>2, <1>3, <1>4 DEF Next

\* The union-find stays a partition and every table total.
THEOREM ClusteringType == Spec => []TypeOK
<1>1. Init => TypeOK
  BY DEF Init, TypeOK, UrlPairs, Pairs
<1> QED BY <1>1, TypeStep, PTL DEF Spec

LEMMA WorkStep == TypeOK /\ WorkOK /\ [Next]_vars => WorkOK'
<1> SUFFICES ASSUME TypeOK, WorkOK, [Next]_vars PROVE WorkOK'
  OBVIOUS
<1>1. UrlPairs' = UrlPairs /\ TextPairs' = TextPairs
  <2>1. UNCHANGED candidates
    BY DEF Next, Compare, StartText, Finish, vars
  <2> QED BY <2>1 DEF candidates, UrlPairs, TextPairs, SharesUrl, Crowded
<1>2. ASSUME NEW p \in todo, Compare(p) PROVE WorkOK'
  <2>1. todo' \subseteq todo /\ stage' = stage
    BY <1>2 DEF Compare
  <2> QED BY <1>1, <2>1 DEF WorkOK
<1>3. CASE StartText
  BY <1>1, <1>3 DEF StartText, WorkOK
<1>4. CASE Finish
  BY <1>4 DEF Finish, WorkOK
<1>5. CASE UNCHANGED vars
  BY <1>1, <1>5 DEF vars, WorkOK
<1> QED BY <1>2, <1>3, <1>4, <1>5 DEF Next

\* Whatever set separates x from y is split by some pair with evidence.
LEMMA ConnectedUse ==
  ASSUME NEW x, NEW y, Connected(x, y, Evidence), NEW S \in SUBSET Ids,
         \A a, b \in Ids : Evidence(a, b) => (a \in S <=> b \in S)
  PROVE  x \in S <=> y \in S
BY DEF Connected

\* The number of candidates of a page is a number.
LEMMA PageCount ==
  ASSUME NEW a PROVE Cardinality({i \in Ids : url[i] = url[a]}) \in Nat
<1>1. IsFiniteSet(Ids)
  BY FS_Interval, ClusteringAssumption DEF Ids
<1>2. IsFiniteSet({i \in Ids : url[i] = url[a]})
  BY <1>1, FS_Subset
<1> QED BY <1>2, FS_CardinalityType

\* A pair that is merged by the url stage shares a page, one by the text stage a text.
LEMMA PairEvidence ==
  ASSUME TypeOK, WorkOK, NEW p \in todo, Compare(p), ~Skip
  PROVE  Evidence(p[1], p[2])
<1>1. stage = "url" \/ stage = "text"
  BY DEF TypeOK, WorkOK
<1>2. CASE stage = "url"
  <2>1. SharesUrl(p[1], p[2]) /\ ~Crowded(p[1])
    BY <1>2 DEF WorkOK, UrlPairs
  <2>2. Cardinality({i \in Ids : url[i] = url[p[1]]}) <= MaxPerUrl
    BY <2>1, PageCount, ClusteringAssumption DEF Crowded
  <2> QED BY <2>1, <2>2 DEF Evidence, SamePage
<1>3. CASE stage = "text"
  <2>1. TextEvidence(p[1], p[2])
    BY <1>3 DEF Compare
  <2>2. bucket[p[1]] = bucket[p[2]]
    BY <1>3 DEF WorkOK, TextPairs
  <2> QED BY <2>1, <2>2 DEF Evidence, SameText, TextEvidence
<1> QED BY <1>1, <1>2, <1>3

\* Merging two clusters with evidence between them connects their members.
LEMMA EvidenceStep ==
  TypeOK /\ WorkOK /\ EvidenceOnly /\ [Next]_vars => EvidenceOnly'
<1> SUFFICES ASSUME TypeOK, WorkOK, EvidenceOnly, [Next]_vars PROVE EvidenceOnly'
  OBVIOUS
<1>1. UNCHANGED candidates
  BY DEF Next, Compare, StartText, Finish, vars
<1>2. \A a, b : Evidence(a, b)' <=> Evidence(a, b)
  BY <1>1 DEF candidates, Evidence, SamePage, SameText, SharesUrl
<1>3. ASSUME NEW x \in Ids, NEW y \in Ids, root'[x] = root'[y],
             NEW S \in SUBSET Ids, \A a, b \in Ids : Evidence(a, b) => (a \in S <=> b \in S)
      PROVE  x \in S <=> y \in S
  <2>1. \A u, v \in Ids : root[u] = root[v] => (u \in S <=> v \in S)
    BY <1>3, ConnectedUse DEF EvidenceOnly, Together
  <2>2. CASE UNCHANGED root
    BY <1>3, <2>1, <2>2
  <2>3. ASSUME NEW p \in todo, Compare(p), ~Skip PROVE x \in S <=> y \in S
    <3>1. p[1] \in Ids /\ p[2] \in Ids
      BY DEF TypeOK, Pairs
    <3>2. p[1] \in S <=> p[2] \in S
      BY <1>3, <2>3, <3>1, PairEvidence
    <3>3. \A i \in Ids : root'[i] = IF root[i] \in {root[p[1]], root[p[2]]}
                                   THEN Joined(p[1], p[2]) ELSE root[i]
      BY <2>3 DEF Compare, Merge
    <3>4. Joined(p[1], p[2]) \in {root[p[1]], root[p[2]]}
      BY <3>1, JoinedRoot
    <3>5. CASE root'[x] = Joined(p[1], p[2])
      <4>1. root[x] \in {root[p[1]], root[p[2]]} /\ root[y] \in {root[p[1]], root[p[2]]}
        BY <1>3, <3>3, <3>4, <3>5
      <4> QED BY <2>1, <3>1, <3>2, <4>1
    <3>6. CASE root'[x] # Joined(p[1], p[2])
      <4>1. root[x] = root[y]
        BY <1>3, <3>3, <3>6
      <4> QED BY <2>1, <4>1
    <3> QED BY <3>5, <3>6
  <2> QED BY <2>2, <2>3 DEF Next, Compare, Skip, StartText, Finish, vars
<1>4. EvidenceOnly' <=> \A x, y \in Ids : root'[x] = root'[y] => Connected(x, y, Evidence)
  BY <1>2 DEF EvidenceOnly, Together, Connected
<1> QED BY <1>3, <1>4 DEF Connected

\* For every pool: candidates end up in one cluster only through a chain of pairs
\* that share a page or, across sources and within a bucket, a text.
THEOREM ClustersHaveEvidence == Spec => []EvidenceOnly
<1> DEFINE IInv == TypeOK /\ WorkOK /\ EvidenceOnly
<1>1. Init => IInv
  <2>1. Init => TypeOK
    BY DEF Init, TypeOK, UrlPairs, Pairs
  <2>2. Init => WorkOK
    BY DEF Init, WorkOK
  <2>3. Init => EvidenceOnly
    BY DEF Init, EvidenceOnly, Together, Connected
  <2> QED BY <2>1, <2>2, <2>3
<1>2. IInv /\ [Next]_vars => IInv'
  BY TypeStep, WorkStep, EvidenceStep
<1> QED BY <1>1, <1>2, PTL DEF Spec

-----------------------------------------------------------------------------
(* Nothing with evidence is left out *)

\* A non-empty set of candidates has a first one.
LEMMA FirstOfSome ==
  ASSUME NEW S \in SUBSET Ids, S # {}
  PROVE  \E a \in S : \A b \in S : a <= b
<1> DEFINE UpTo(k) == 1..k
           Starts == {UpTo(k) : k \in S}
           Less == StrictSubsetOrdering(Ids)
<1>1. Starts \in SUBSET SUBSET Ids /\ Starts # {}
  <2>1. ASSUME NEW k \in S PROVE UpTo(k) \in SUBSET Ids
    BY ClusteringAssumption DEF Ids
  <2> QED BY <2>1
<1>2. IsWellFoundedOn(Less, SUBSET Ids)
  <2>1. IsFiniteSet(Ids)
    BY FS_Interval, ClusteringAssumption DEF Ids
  <2>2. FiniteSubsetsOf(Ids) = SUBSET Ids
    BY <2>1, FS_FiniteSubsetsOfFinite
  <2> QED BY <2>2, FS_StrictSubsetOrderingWellFounded
<1>3. PICK A \in Starts : \A B \in Starts : ~(<<B, A>> \in Less)
  <2> HIDE DEF Starts, Less
  <2> QED BY <1>1, <1>2, WFMin, Zenon
<1>4. PICK a \in S : A = UpTo(a)
  OBVIOUS
<1>5. ASSUME NEW b \in S, b < a PROVE FALSE
  <2>1. a \in Nat /\ b \in Nat /\ 1 <= a /\ 1 <= b
    BY ClusteringAssumption DEF Ids
  <2>2. UpTo(b) \subseteq UpTo(a) /\ UpTo(b) # UpTo(a)
    <3>1. a \in UpTo(a) /\ a \notin UpTo(b)
      BY <1>5, <2>1
    <3>2. UpTo(b) \subseteq UpTo(a)
      BY <1>5, <2>1
    <3> QED BY <3>1, <3>2
  <2>3. UpTo(b) \in Starts /\ UpTo(b) \in SUBSET Ids /\ UpTo(a) \in SUBSET Ids
    <3>1. UpTo(b) \in Starts /\ UpTo(a) \in Starts
      OBVIOUS
    <3> HIDE DEF Starts, UpTo
    <3> QED BY <1>1, <3>1
  <2>4. <<UpTo(b), UpTo(a)>> \in Less
    <3> HIDE DEF UpTo
    <3> QED BY <2>2, <2>3 DEF StrictSubsetOrdering
  <2> QED BY <1>3, <1>4, <2>3, <2>4
<1> QED
  <2>1. a \in Int /\ \A b \in S : b \in Int
    BY ClusteringAssumption DEF Ids
  <2> QED BY <1>5, <2>1

\* Every page that is not crowded has a first candidate, which stage 2 compares with
\* each other one.
LEMMA PageHasFirst ==
  ASSUME NEW x \in Ids, SamePage(x, x)
  PROVE  \E a \in Ids : \A b \in Ids : url[b] = url[x] => b = a \/ <<a, b>> \in UrlPairs
<1> DEFINE Page == {i \in Ids : url[i] = url[x]}
<1>1. PICK a \in Page : \A i \in Page : a <= i
  BY FirstOfSome
<1>2. a \in Nat /\ 1 <= a /\ a <= N
  BY ClusteringAssumption DEF Ids
<1>3. ASSUME NEW b \in Page, b # a PROVE <<a, b>> \in UrlPairs
  <2>1. a < b
    BY <1>1, <1>2, <1>3, ClusteringAssumption DEF Ids
  <2>2. SharesUrl(a, b)
    BY DEF SamePage, SharesUrl
  <2>3. ~Crowded(a)
    BY PageCount, ClusteringAssumption DEF SamePage, Crowded
  <2>4. \A i \in 1..(a - 1) : url[i] # url[a]
    BY <1>1, <1>2, ClusteringAssumption DEF Ids
  <2> QED BY <2>1, <2>2, <2>3, <2>4 DEF UrlPairs, Pairs
<1> QED BY <1>3

\* Stage 2 forgets no pair, and no later stage takes one apart.
PagesMerged ==
  \A p \in UrlPairs : (stage = "url" /\ p \in todo) \/ Together(p[1], p[2])

\* What was together stays together, and a pair that is merged is together.
LEMMA StaysTogether ==
  ASSUME TypeOK, [Next]_vars, NEW x \in Ids, NEW y \in Ids, Together(x, y)
  PROVE  Together(x, y)'
<1>1. UNCHANGED root \/ \E p \in todo : Merge(p[1], p[2])
  BY DEF Next, Compare, Skip, StartText, Finish, vars
<1> QED BY <1>1 DEF Merge, Together, TypeOK

LEMMA MergeTogether ==
  ASSUME TypeOK, NEW a \in Ids, NEW b \in Ids, Merge(a, b)
  PROVE  Together(a, b)'
BY DEF Merge, Together

LEMMA PagesStep ==
  TypeOK /\ WorkOK /\ PagesMerged /\ [Next]_vars => PagesMerged'
<1> SUFFICES ASSUME TypeOK, WorkOK, PagesMerged, [Next]_vars PROVE PagesMerged'
  OBVIOUS
<1>1. UrlPairs' = UrlPairs
  <2>1. UNCHANGED candidates
    BY DEF Next, Compare, StartText, Finish, vars
  <2> QED BY <2>1 DEF candidates, UrlPairs, SharesUrl, Crowded
<1> SUFFICES ASSUME NEW p \in UrlPairs, ~Together(p[1], p[2])'
             PROVE  stage' = "url" /\ p \in todo'
  BY <1>1 DEF PagesMerged
<1>2. p[1] \in Ids /\ p[2] \in Ids
  BY DEF UrlPairs, Pairs
<1>3. stage = "url" /\ p \in todo
  BY <1>2, StaysTogether DEF PagesMerged
<1>4. ASSUME NEW q \in todo, Compare(q) PROVE stage' = "url" /\ p \in todo'
  <2>1. q # p
    BY <1>2, <1>3, <1>4, MergeTogether DEF Compare, Skip, Together
  <2> QED BY <1>3, <1>4, <2>1 DEF Compare
<1> QED BY <1>3, <1>4 DEF Next, StartText, Finish, vars

\* For every pool: when clustering ends, all candidates of a page that is not crowded
\* are in one cluster, although stage 2 compares each of them with the first one only
\* and the text stages move clusters afterwards.
THEOREM PagesKeptWhole == Spec => []PagesTogether
<1> DEFINE IInv == TypeOK /\ WorkOK /\ PagesMerged
<1>1. Init => IInv
  <2>1. Init => TypeOK
    BY DEF Init, TypeOK, UrlPairs, Pairs
  <2>2. Init => WorkOK /\ PagesMerged
    BY DEF Init, WorkOK, PagesMerged
  <2> QED BY <2>1, <2>2
<1>2. IInv /\ [Next]_vars => IInv'
  BY TypeStep, WorkStep, PagesStep
<1>3. IInv => PagesTogether
  <2> SUFFICES ASSUME IInv, stage = "done", NEW x \in Ids, NEW y \in Ids, SamePage(x, y)
               PROVE  Together(x, y)
    BY DEF PagesTogether
  <2>1. url[x] = url[y] /\ SamePage(x, x)
    BY DEF SamePage, SharesUrl
  <2>2. PICK a \in Ids : \A b \in Ids : url[b] = url[x] => b = a \/ <<a, b>> \in UrlPairs
    BY <2>1, PageHasFirst
  <2>3. Together(a, x) /\ Together(a, y)
    BY <2>1, <2>2 DEF PagesMerged, Together
  <2> QED BY <2>3 DEF Together
<1> QED BY <1>1, <1>2, <1>3, PTL DEF Spec

-----------------------------------------------------------------------------
(* Pools whose candidates all have a city and share no page *)

Plain == NoUrlMerges /\ \A i \in Ids : city[i] # NoCity

\* There the location table is never out of date,
TableCurrent == \A i \in Ids : location[i] = city[i]

\* a cluster has one city and is held together by texts within it,
ClustersPlain ==
  \A x, y \in Ids : Together(x, y) => SameCity(x, y) /\ Connected(x, y, SameJob)

\* and only text pairs that have yet to be compared are apart.
TextsMerged ==
  \A p \in TextPairs : SameJob(p[1], p[2]) =>
    stage = "url" \/ p \in todo \/ Together(p[1], p[2])

PlainInv == Plain => TableCurrent /\ ClustersPlain /\ TextsMerged

\* Stage 2 has nothing to compare.
LEMMA NoPagesToMerge ==
  ASSUME TypeOK, WorkOK, Plain, NEW p \in todo
  PROVE  stage = "text" /\ p \in TextPairs
<1>1. CASE stage = "url"
  <2>1. p[1] \in Ids /\ p[2] \in Ids /\ p[1] # p[2] /\ SharesUrl(p[1], p[2]) /\ ~Crowded(p[1])
    <3>1. p \in Pairs /\ SharesUrl(p[1], p[2]) /\ ~Crowded(p[1])
      BY <1>1 DEF WorkOK, UrlPairs
    <3>2. p[1] \in Ids /\ p[2] \in Ids /\ p[1] < p[2]
      BY <3>1 DEF Pairs
    <3> QED BY <3>1, <3>2, ClusteringAssumption DEF Ids
  <2> DEFINE shared == Cardinality({i \in Ids : url[i] = url[p[1]]})
  <2>2. shared <= MaxPerUrl
    <3>1. shared \in Nat
      BY PageCount
    <3>2. ~(shared > MaxPerUrl)
      BY <2>1 DEF Crowded
    <3> HIDE DEF shared
    <3> QED BY <3>1, <3>2, ClusteringAssumption
  <2>3. SamePage(p[1], p[2])
    BY <2>1, <2>2 DEF SamePage
  <2> QED BY <2>1, <2>3 DEF Plain, NoUrlMerges
<1> QED BY <1>1 DEF TypeOK, WorkOK

\* The pairs, what is known of them and the hypothesis do not change.
LEMMA PlainFixed ==
  ASSUME [Next]_vars
  PROVE  /\ Plain' <=> Plain
         /\ TextPairs' = TextPairs
         /\ \A x, y : (SameJob(x, y)' <=> SameJob(x, y)) /\ (SameCity(x, y)' <=> SameCity(x, y))
         /\ city' = city
<1>1. UNCHANGED candidates
  BY DEF Next, Compare, StartText, Finish, vars
<1> QED
  BY <1>1 DEF candidates, Plain, NoUrlMerges, SamePage, SharesUrl, TextPairs, SameJob, SameText,
              SameCity

\* A step either leaves the clusters or merges two of one city by a text.
LEMMA PlainMerge ==
  ASSUME TypeOK, WorkOK, Plain, TableCurrent, ClustersPlain, [Next]_vars
  PROVE  \/ UNCHANGED <<root, location>>
         \/ \E p \in TextPairs : Merge(p[1], p[2]) /\ SameJob(p[1], p[2])
                                 /\ SameCity(p[1], root[p[1]]) /\ SameCity(p[2], root[p[2]])
<1>1. ASSUME NEW p \in todo, Compare(p), ~Skip
      PROVE  \E q \in TextPairs : Merge(q[1], q[2]) /\ SameJob(q[1], q[2])
                                  /\ SameCity(q[1], root[q[1]]) /\ SameCity(q[2], root[q[2]])
  <2>1. stage = "text" /\ p \in TextPairs
    BY NoPagesToMerge
  <2>2. Merge(p[1], p[2]) /\ TextEvidence(p[1], p[2]) /\ TextMergeAllowed(p[1], p[2])
    BY <1>1, <2>1 DEF Compare
  <2>3. p[1] \in Ids /\ p[2] \in Ids /\ bucket[p[1]] = bucket[p[2]]
    BY <2>1 DEF TextPairs, Pairs
  <2>4. SameText(p[1], p[2])
    BY <2>2, <2>3 DEF SameText, TextEvidence
  <2>5. \A i \in Ids : root[i] \in Ids /\ SameCity(i, root[i])
    BY DEF TypeOK, ClustersPlain, Together
  <2>6. SameCity(p[1], p[2])
    BY <2>2, <2>3, <2>5 DEF TextMergeAllowed, TableCurrent, Plain, SameCity
  <2> QED BY <2>1, <2>2, <2>3, <2>4, <2>5, <2>6 DEF SameJob
<1> QED BY <1>1 DEF Next, Compare, Skip, StartText, Finish, vars

LEMMA TableStep ==
  ASSUME TypeOK, WorkOK, Plain, TableCurrent, ClustersPlain, [Next]_vars
  PROVE  TableCurrent'
<1>1. CASE UNCHANGED location
  BY <1>1, PlainFixed DEF TableCurrent
<1>2. ASSUME NEW p \in TextPairs, Merge(p[1], p[2]), SameJob(p[1], p[2]),
             SameCity(p[1], root[p[1]]), SameCity(p[2], root[p[2]])
      PROVE  TableCurrent'
  <2>1. p[1] \in Ids /\ p[2] \in Ids
    BY DEF TextPairs, Pairs
  <2>2. location' = [location EXCEPT ![Joined(p[1], p[2])] = city[p[1]]]
    BY <1>2, <2>1 DEF Merge, TableCurrent, Plain
  <2>3. city[Joined(p[1], p[2])] = city[p[1]]
    BY <1>2, <2>1, JoinedRoot DEF SameJob, SameCity
  <2> QED BY <2>2, <2>3, PlainFixed DEF TableCurrent, TypeOK
<1> QED BY <1>1, <1>2, PlainMerge

LEMMA ClustersStep ==
  ASSUME TypeOK, WorkOK, Plain, TableCurrent, ClustersPlain, [Next]_vars
  PROVE  ClustersPlain'
<1>1. \A x, y : Connected(x, y, SameJob)' <=> Connected(x, y, SameJob)
  BY PlainFixed DEF Connected
<1>2. CASE UNCHANGED root
  BY <1>1, <1>2, PlainFixed DEF ClustersPlain, Together
<1>3. ASSUME NEW p \in TextPairs, Merge(p[1], p[2]), SameJob(p[1], p[2]),
             SameCity(p[1], root[p[1]]), SameCity(p[2], root[p[2]])
      PROVE  ClustersPlain'
  <2>1. p[1] \in Ids /\ p[2] \in Ids
    BY DEF TextPairs, Pairs
  <2> SUFFICES ASSUME NEW x \in Ids, NEW y \in Ids, root'[x] = root'[y]
               PROVE  SameCity(x, y) /\ Connected(x, y, SameJob)
    BY <1>1, PlainFixed DEF ClustersPlain, Together
  <2>2. \/ root[x] = root[y]
        \/ root[x] = root[p[1]] /\ root[y] = root[p[2]]
        \/ root[x] = root[p[2]] /\ root[y] = root[p[1]]
    <3>1. \A i \in Ids : root'[i] = IF root[i] \in {root[p[1]], root[p[2]]}
                                   THEN Joined(p[1], p[2]) ELSE root[i]
      BY <1>3 DEF Merge
    <3>2. Joined(p[1], p[2]) \in {root[p[1]], root[p[2]]}
      BY <2>1, JoinedRoot
    <3> QED BY <3>1, <3>2
  <2>3. SameCity(x, y)
    BY <1>3, <2>1, <2>2 DEF ClustersPlain, Together, SameJob, SameCity
  <2>4. ASSUME NEW S \in SUBSET Ids, \A a, b \in Ids : SameJob(a, b) => (a \in S <=> b \in S)
        PROVE  x \in S <=> y \in S
    <3>1. \A u, v \in Ids : root[u] = root[v] => (u \in S <=> v \in S)
      BY <2>4 DEF ClustersPlain, Together, Connected
    <3>2. p[1] \in S <=> p[2] \in S
      BY <1>3, <2>1, <2>4
    <3> QED BY <2>1, <2>2, <3>1, <3>2
  <2> QED BY <2>3, <2>4 DEF Connected
<1> QED BY <1>2, <1>3, PlainMerge

\* A text pair of one city that is compared ends up together.
LEMMA TextsStep ==
  ASSUME TypeOK, WorkOK, Plain, TableCurrent, ClustersPlain, TextsMerged, [Next]_vars
  PROVE  TextsMerged'
<1> SUFFICES ASSUME NEW p \in TextPairs, SameJob(p[1], p[2]), stage' # "url", p \notin todo'
             PROVE  Together(p[1], p[2])'
  BY PlainFixed DEF TextsMerged
<1>1. p[1] \in Ids /\ p[2] \in Ids
  BY DEF TextPairs, Pairs
<1>2. CASE Together(p[1], p[2])
  BY <1>1, <1>2, StaysTogether
<1>3. CASE stage # "url" /\ p \in todo
  <2>1. Compare(p)
    BY <1>3 DEF Next, Compare, StartText, Finish, vars
  <2>2. SameCity(p[1], root[p[1]]) /\ SameCity(p[2], root[p[2]])
    BY <1>1 DEF ClustersPlain, Together, TypeOK
  <2>3. TextEvidence(p[1], p[2]) /\ TextMergeAllowed(p[1], p[2])
    BY <1>1, <2>2 DEF SameJob, SameText, SameCity, TextEvidence, TextMergeAllowed, TableCurrent,
                      TypeOK
  <2>4. Merge(p[1], p[2]) \/ Together(p[1], p[2])
    BY <2>1, <2>3 DEF Compare, Together
  <2> QED BY <1>1, <2>4, MergeTogether, StaysTogether
<1>4. CASE stage = "url"
  BY <1>4, NoPagesToMerge DEF Next, Compare, StartText, Finish, vars
<1> QED BY <1>2, <1>3, <1>4 DEF TextsMerged

\* For every pool in which each candidate has a city and no page is shared: when
\* clustering ends, the clusters are exactly the components of equal text within one
\* city, in whatever order the pool was loaded.
THEOREM PlainPoolsPartitioned == Spec => []CitiesPartition
<1> DEFINE IInv == TypeOK /\ WorkOK /\ PlainInv
<1>1. Init => IInv
  <2>1. Init => TypeOK
    BY DEF Init, TypeOK, UrlPairs, Pairs
  <2>2. Init => WorkOK
    BY DEF Init, WorkOK
  <2>3. Init => TableCurrent /\ ClustersPlain /\ TextsMerged
    BY DEF Init, TableCurrent, ClustersPlain, TextsMerged, Together, SameCity, Connected
  <2> QED BY <2>1, <2>2, <2>3 DEF PlainInv
<1>2. IInv /\ [Next]_vars => IInv'
  BY TypeStep, WorkStep, PlainFixed, TableStep, ClustersStep, TextsStep DEF PlainInv
<1>3. IInv => CitiesPartition
  <2> SUFFICES ASSUME IInv, stage = "done", Plain, NEW x \in Ids, NEW y \in Ids
               PROVE  Together(x, y) <=> Connected(x, y, SameJob)
    BY DEF CitiesPartition, Plain
  <2>1. ASSUME NEW a \in Ids, NEW b \in Ids, SameJob(a, b) PROVE Together(a, b)
    <3>1. a < b \/ b < a
      BY <2>1, ClusteringAssumption DEF SameJob, SameText, Ids
    <3>2. CASE a < b
      <4>1. <<a, b>> \in TextPairs
        BY <2>1, <3>2 DEF TextPairs, Pairs, SameJob, SameText
      <4> QED BY <2>1, <4>1 DEF PlainInv, TextsMerged, WorkOK
    <3>3. CASE b < a
      <4>1. <<b, a>> \in TextPairs
        BY <2>1, <3>3 DEF TextPairs, Pairs, SameJob, SameText
      <4>2. SameJob(b, a)
        <5>1. {a, b} = {b, a}
          OBVIOUS
        <5> QED BY <2>1, <5>1 DEF SameJob, SameText, SameCity
      <4> QED BY <4>1, <4>2 DEF PlainInv, TextsMerged, WorkOK, Together
    <3> QED BY <3>1, <3>2, <3>3
  <2>2. ASSUME Connected(x, y, SameJob) PROVE Together(x, y)
    <3> DEFINE S == {i \in Ids : Together(i, x)}
    <3>1. \A a, b \in Ids : SameJob(a, b) => (a \in S <=> b \in S)
      BY <2>1 DEF Together
    <3>2. x \in S <=> y \in S
      BY <2>2, <3>1 DEF Connected
    <3> QED BY <3>2 DEF Together
  <2> QED BY <2>2 DEF PlainInv, ClustersPlain
<1> QED BY <1>1, <1>2, <1>3, PTL DEF Spec
=============================================================================
