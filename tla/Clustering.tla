----------------------------- MODULE Clustering -----------------------------
(***************************************************************************)
(* cluster_postings() (domain/dedup/clustering.py): stages 2 to 6 of       *)
(* duplicate detection over one comparison pool, one comparison at a time. *)
(*                                                                         *)
(* A candidate is its position 1..N in the pool.  The database returns the *)
(* pool in no particular order, so Init ranges over all candidates.  What  *)
(* the text stages find out about a pair, an equal title for a short       *)
(* description or a small Hamming distance otherwise, is `near`, which     *)
(* need not be transitive.  Stage 1 has nothing to do: (source_id,         *)
(* external_id) is unique; stage 5 neither: no similarity_fn is passed.    *)
(***************************************************************************)
EXTENDS Naturals, FiniteSets

CONSTANTS
  N,          \* size of the pool
  Sources, Cities, Urls, Buckets,
  NoCity,     \* location_key is None
  NoUrl,      \* canonical_url is None, or ambiguous in the corpus
  MaxPerUrl   \* max_postings_per_url

ASSUME ClusteringAssumption ==
  /\ N \in Nat
  /\ NoCity \notin Cities
  /\ NoUrl \notin Urls
  /\ MaxPerUrl \in Nat

Ids == 1..N

VARIABLES
  \* the candidates
  source, city, url, bucket,
  near,      \* {a, b}: the descriptions, or short titles, of a and b agree
  \* the union-find and the location table
  root,      \* find()
  location,  \* cluster_location: current for roots, out of date for others
  \* the loops
  stage, todo

candidates == <<source, city, url, bucket, near>>
vars == <<candidates, root, location, stage, todo>>

Pairs == {p \in Ids \X Ids : p[1] < p[2]}
Members(r) == {i \in Ids : root[i] = r}

-----------------------------------------------------------------------------
(* Stage 2 *)

SharesUrl(a, b) == url[a] = url[b] /\ url[a] # NoUrl

\* "A URL shared by many postings is a board page, not a job page."
Crowded_OffByOne(a) == Cardinality({i \in Ids : url[i] = url[a]}) >= MaxPerUrl
Crowded(a) == Cardinality({i \in Ids : url[i] = url[a]}) > MaxPerUrl

\* merge(ids[0], other): the first of each URL with every other.
UrlPairs ==
  {p \in Pairs : /\ SharesUrl(p[1], p[2])
                 /\ ~Crowded(p[1])
                 /\ \A i \in 1..(p[1] - 1) : url[i] # url[p[1]]}

-----------------------------------------------------------------------------
(* Stages 3 and 4 *)

TextPairs == {p \in Pairs : bucket[p[1]] = bucket[p[2]]}

FirstIn(b) == CHOOSE i \in Ids : bucket[i] = b /\ \A j \in Ids : bucket[j] = b => i <= j

\* Buckets in order of their first member, and pairs in order within.
Sooner(p, q) ==
  LET p0 == IF stage = "text" THEN FirstIn(bucket[p[1]]) ELSE 0
      q0 == IF stage = "text" THEN FirstIn(bucket[q[1]]) ELSE 0
  IN  \/ p0 < q0
      \/ p0 = q0 /\ p[1] < q[1]
      \/ p0 = q0 /\ p[1] = q[1] /\ p[2] < q[2]

\* _locations_compatible of what the table says of the two clusters.
TextMergeAllowed_Always(a, b) == TRUE
TextMergeAllowed(a, b) ==
  LET ca == location[root[a]]
      cb == location[root[b]]
  IN ca = cb \/ NoCity \in {ca, cb}

TextEvidence_SameSource(a, b) == {a, b} \in near
TextEvidence(a, b) == source[a] # source[b] /\ {a, b} \in near

-----------------------------------------------------------------------------
(* merge(): the larger cluster's root survives, and its entry in the location
   table is rewritten from those of a and b, which need not be roots. *)

Joined(a, b) ==
  IF Cardinality(Members(root[a])) < Cardinality(Members(root[b])) THEN root[b] ELSE root[a]

Merge(a, b) ==
  /\ root' = [i \in Ids |-> IF root[i] \in {root[a], root[b]} THEN Joined(a, b) ELSE root[i]]
  /\ location' = [location EXCEPT ![Joined(a, b)] =
                    IF location[a] # NoCity THEN location[a] ELSE location[b]]

Skip == UNCHANGED <<root, location>>

Compare(p) ==
  LET a == p[1]
      b == p[2]
  IN
  /\ p \in todo
  /\ \A q \in todo \ {p} : Sooner(p, q)
  /\ todo' = todo \ {p}
  /\ IF /\ root[a] # root[b]
        /\ stage = "text" => TextEvidence(a, b) /\ TextMergeAllowed(a, b)
     THEN Merge(a, b) ELSE Skip
  /\ UNCHANGED <<candidates, stage>>

StartText ==
  /\ stage = "url" /\ todo = {}
  /\ stage' = "text"
  /\ todo' = TextPairs
  /\ UNCHANGED <<candidates, root, location>>

Finish ==
  /\ stage = "text" /\ todo = {}
  /\ stage' = "done"
  /\ UNCHANGED <<candidates, root, location, todo>>

Init ==
  /\ source \in [Ids -> Sources]
  /\ city \in [Ids -> Cities \cup {NoCity}]
  /\ url \in [Ids -> Urls \cup {NoUrl}]
  /\ bucket \in [Ids -> Buckets]
  /\ near \in SUBSET {{p[1], p[2]} : p \in Pairs}
  /\ root = [i \in Ids |-> i]
  /\ location = city
  /\ stage = "url"
  /\ todo = UrlPairs

Next == (\E p \in todo : Compare(p)) \/ StartText \/ Finish

Spec == Init /\ [][Next]_vars

TypeOK ==
  /\ source \in [Ids -> Sources]
  /\ city \in [Ids -> Cities \cup {NoCity}]
  /\ url \in [Ids -> Urls \cup {NoUrl}]
  /\ bucket \in [Ids -> Buckets]
  /\ near \subseteq {{p[1], p[2]} : p \in Pairs}
  /\ root \in [Ids -> Ids] /\ \A i \in Ids : root[root[i]] = root[i]
  /\ location \in [Ids -> Cities \cup {NoCity}]
  /\ stage \in {"url", "text", "done"}
  /\ todo \subseteq Pairs

-----------------------------------------------------------------------------
(* What the clusters are meant to be *)

\* The evidence the stages accept, as relations on the candidates.
SamePage(a, b) == SharesUrl(a, b) /\ Cardinality({i \in Ids : url[i] = url[a]}) <= MaxPerUrl

SameText(a, b) == bucket[a] = bucket[b] /\ source[a] # source[b] /\ {a, b} \in near

SameCity(a, b) == city[a] = city[b]

SameJob(a, b) == SameText(a, b) /\ SameCity(a, b)

\* The reflexive and transitive closure of a symmetric relation: every set that tells x
\* and y apart, R leaves.
Connected(x, y, R(_, _)) ==
  \A S \in SUBSET Ids :
    (x \in S <=> y \in S) \/ \E a, b \in Ids : R(a, b) /\ ~(a \in S <=> b \in S)

Together(x, y) == root[x] = root[y]

NoUrlMerges == \A a, b \in Ids : a # b => ~SamePage(a, b)

-----------------------------------------------------------------------------
(* Properties *)

Evidence(a, b) == SamePage(a, b) \/ SameText(a, b)

\* No cluster goes beyond the evidence: two candidates end up together only through
\* a chain of pairs that share a page or a text across sources, whatever the order.
EvidenceOnly ==
  \A x, y \in Ids : Together(x, y) => Connected(x, y, Evidence)

\* Candidates of one page always end up together: the text stages, whose guards
\* they may fail, take nothing apart.
PagesTogether ==
  stage = "done" => \A a, b \in Ids : SamePage(a, b) => Together(a, b)

\* "Every stage is deterministic and reproducible": where each candidate has a city
\* and no page is shared, the clusters are the components of equal text within one
\* city, in whatever order the pool was loaded.
CitiesPartition ==
  /\ stage = "done"
  /\ NoUrlMerges
  /\ \A i \in Ids : city[i] # NoCity
  => \A x, y \in Ids : Together(x, y) <=> Connected(x, y, SameJob)

\* "The location guard has to hold for the cluster, not just the pair"
\* (tests/unit/test_clustering.py:211), for clusters made of text evidence only.
OneCityPerCluster ==
  NoUrlMerges =>
    \A x, y \in Ids : Together(x, y) => SameCity(x, y) \/ NoCity \in {city[x], city[y]}
=============================================================================
