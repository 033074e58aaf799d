--------------------------- MODULE MatchingProofs ---------------------------
(***************************************************************************)
(* Proofs about matching.  First the funnel, for every number of profiles   *)
(* and postings and every size of the shortlist: what the tables promise    *)
(* their readers.  WithheldExplained is inductive by itself.               *)
(* ShownWasEligible needs to know of a run under way that its finalists     *)
(* were eligible when it scanned, EvidenceIsTheScores that what it has seen *)
(* is stored or is its own to store and covers what the last score of the   *)
(* pair was computed from; none of this is in the tables.                  *)
(*                                                                         *)
(* Then its arithmetic (Scoring), for inputs far beyond the sheets that are *)
(* checked: any number of needs, of retrievers and of postings in a pool,   *)
(* any fit, any row.  It rests on lemmas about sums over finite sets and    *)
(* about quotients rounded to the nearest.                                 *)
(***************************************************************************)
EXTENDS Matching, Scoring, FiniteSetTheorems, WellFoundedInduction, TLAPS

FinalistsEligible == \A c \in Profiles : {c} \X finalists[c] \subseteq everEligible

\* What a run has seen is stored, or is its own to store.
SeenGrounded ==
  \A c \in Profiles, p \in Postings :
    p \in extracted[c] \/ seen[c][p] \subseteq stored[p]

\* What a score was computed from stays stored, and a later run sees it again.
BasisStored ==
  \A c \in Profiles, p \in Postings : basis[<<c, p>>] \subseteq stored[p]
BasisSeen ==
  \A c \in Profiles : \A p \in finalists[c] \ todo[c] :
    basis[<<c, p>>] \subseteq seen[c][p]

-----------------------------------------------------------------------------
LEMMA ResetType ==
  ASSUME TypeOK, NEW c \in Profiles, Reset(c)
  PROVE  /\ stage' \in [Profiles -> {"idle", "analysing"}]
         /\ finalists' \in [Profiles -> SUBSET Postings]
         /\ withheld' \in [Profiles -> SUBSET Postings]
         /\ todo' \in [Profiles -> SUBSET Postings]
         /\ seen' \in [Profiles -> [Postings -> SUBSET Texts]]
         /\ extracted' \in [Profiles -> SUBSET Postings]
<1>1. [p \in Postings |-> {}] \in [Postings -> SUBSET Texts]
  OBVIOUS
<1> QED BY <1>1 DEF Reset, TypeOK

LEMMA TypeInit == Init => TypeOK
BY DEF Init, TypeOK, Pairs

LEMMA TypeStep == TypeOK /\ [Next]_vars => TypeOK'
<1> SUFFICES ASSUME TypeOK, [Next]_vars PROVE TypeOK'
  OBVIOUS
<1> USE DEF tables, runs, history
<1>1. ASSUME NEW c \in Profiles, Scan(c) PROVE TypeOK'
  <2>1. Eligible(c) \subseteq Postings /\ Open \subseteq Postings
    BY DEF Eligible, Open
  <2>2. PICK F \in Shortlists(Eligible(c)), W \in Kept(Open \ Eligible(c)) :
          /\ finalists' = [finalists EXCEPT ![c] = F]
          /\ todo' = [todo EXCEPT ![c] = F]
          /\ withheld' = [withheld EXCEPT ![c] = W]
    BY <1>1 DEF Scan
  <2>3. F \subseteq Postings /\ W \subseteq Postings
    BY <2>1, <2>2 DEF Shortlists, Kept
  <2>4. /\ finalists' \in [Profiles -> SUBSET Postings]
        /\ todo' \in [Profiles -> SUBSET Postings]
        /\ withheld' \in [Profiles -> SUBSET Postings]
    BY <2>2, <2>3 DEF TypeOK
  <2>5. everEligible' \subseteq Pairs
    BY <1>1, <2>1 DEF Scan, TypeOK, Pairs
  <2> QED BY <1>1, <2>4, <2>5 DEF Scan, TypeOK
<1>2. ASSUME NEW c \in Profiles, NEW p \in Postings, Analyse(c, p) PROVE TypeOK'
  <2>1. PICK T \in SUBSET Texts : seen' = [seen EXCEPT ![c][p] = T]
    BY <1>2 DEF Analyse, TypeOK
  <2>2. seen' \in [Profiles -> [Postings -> SUBSET Texts]]
    BY <2>1 DEF TypeOK
  <2>3. extracted' \in [Profiles -> SUBSET Postings] /\ todo' \in [Profiles -> SUBSET Postings]
    <3>1. /\ extracted' = extracted \/ extracted' = [extracted EXCEPT ![c] = @ \cup {p}]
          /\ todo' = [todo EXCEPT ![c] = @ \ {p}]
      BY <1>2 DEF Analyse
    <3>2. extracted \in [Profiles -> SUBSET Postings] /\ todo \in [Profiles -> SUBSET Postings]
      BY DEF TypeOK
    <3>3. extracted[c] \cup {p} \in SUBSET Postings /\ todo[c] \ {p} \in SUBSET Postings
      BY <3>2
    <3> QED BY <3>1, <3>2, <3>3
  <2> QED BY <1>2, <2>2, <2>3 DEF Analyse, TypeOK
<1>3. ASSUME NEW c \in Profiles, CommitRun(c) PROVE TypeOK'
  <2> DEFINE new == {c} \X finalists[c]
             gated == {c} \X withheld[c]
  <2>1. new \subseteq Pairs /\ gated \subseteq Pairs
    BY DEF TypeOK, Pairs
  <2>2. /\ rows' = rows \cup new \cup gated
        /\ passed' = passed \cup (new \ rows)
        /\ scored' = scored \cup new
        /\ failing' = failing \cup gated
        /\ lastWithheld' = (lastWithheld \ new) \cup gated
    BY <1>3 DEF CommitRun, UpsertRows, PersistScored, PersistReasons
  <2>3. /\ rows' \subseteq Pairs /\ passed' \subseteq rows' /\ failing' \subseteq rows'
        /\ scored' \subseteq rows' /\ lastWithheld' \subseteq Pairs
    BY <2>1, <2>2 DEF TypeOK
  <2>4. stored' \in [Postings -> SUBSET Texts]
    BY <1>3 DEF CommitRun, PersistRequirements, TypeOK
  <2>5. /\ evidence' \in [Pairs -> SUBSET Texts]
        /\ basis' \in [Pairs -> SUBSET Texts]
    <3>1. \A x \in Pairs : seen[c][x[2]] \subseteq Texts
      BY DEF TypeOK, Pairs
    <3> QED BY <1>3, <3>1, Zenon DEF CommitRun, PersistEvidence, TypeOK
  <2>6. Reset(c) /\ UNCHANGED <<posting, fits, everEligible>>
    BY <1>3 DEF CommitRun
  <2> QED BY <2>3, <2>4, <2>5, <2>6, ResetType DEF TypeOK
<1>4. ASSUME NEW c \in Profiles, AbortRun(c) PROVE TypeOK'
  BY <1>4, ResetType DEF AbortRun, TypeOK
<1>5. ASSUME NEW p \in Postings, NEW s \in {"live", "unverified", "closed"}, Turn(p, s)
      PROVE TypeOK'
  BY <1>5 DEF Turn, TypeOK
<1>6. ASSUME NEW p \in Postings, NEW who \in SUBSET Profiles, Rewrite(p, who) PROVE TypeOK'
  BY <1>6 DEF Rewrite, TypeOK, Pairs
<1>7. CASE UNCHANGED vars
  BY <1>7 DEF vars, TypeOK
<1> QED BY <1>1, <1>2, <1>3, <1>4, <1>5, <1>6, <1>7 DEF Next

\* Every table keeps its shape: verdicts, reasons and scores belong to rows.
THEOREM TablesTyped == Spec => []TypeOK
BY TypeInit, TypeStep, PTL DEF Spec

-----------------------------------------------------------------------------
\* What a commit writes, and that nothing else writes these columns.
LEMMA ColumnStep ==
  ASSUME TypeOK, [Next]_vars
  PROVE  \/ UNCHANGED <<rows, passed, failing, scored>>
         \/ \E c \in Profiles :
              LET new == {c} \X finalists[c]
                  gated == {c} \X withheld[c]
              IN /\ rows' = rows \cup new \cup gated
                 /\ passed' = passed \cup (new \ rows)
                 /\ scored' = scored \cup new
                 /\ failing' = failing \cup gated
                 /\ UNCHANGED everEligible
<1>1. ASSUME NEW c \in Profiles, CommitRun(c)
      PROVE  LET new == {c} \X finalists[c]
                 gated == {c} \X withheld[c]
             IN /\ rows' = rows \cup new \cup gated
                /\ passed' = passed \cup (new \ rows)
                /\ scored' = scored \cup new
                /\ failing' = failing \cup gated
                /\ UNCHANGED everEligible
  BY <1>1 DEF CommitRun, UpsertRows, PersistScored, PersistReasons
<1>2. CASE ~ \E c \in Profiles : CommitRun(c)
  BY <1>2 DEF Next, vars, tables, Scan, Analyse, AbortRun, Turn, Rewrite
<1> QED BY <1>1, <1>2

\* For all runs of all profiles: no row that the withheld list shows lacks a reason.
THEOREM WithheldHaveReasons == Spec => []WithheldExplained
<1>1. Init => WithheldExplained
  BY DEF Init, WithheldExplained
<1>2. TypeOK /\ WithheldExplained /\ [Next]_vars => WithheldExplained'
  BY ColumnStep DEF WithheldExplained
<1> QED BY <1>1, <1>2, TablesTyped, PTL DEF Spec

LEMMA FinalistsStep ==
  TypeOK /\ FinalistsEligible /\ [Next]_vars => FinalistsEligible'
<1> SUFFICES ASSUME TypeOK, FinalistsEligible, [Next]_vars PROVE FinalistsEligible'
  OBVIOUS
<1> USE DEF tables, runs, history
<1>1. ASSUME NEW c \in Profiles, Scan(c) PROVE FinalistsEligible'
  <2>1. PICK F \in Shortlists(Eligible(c)) : finalists' = [finalists EXCEPT ![c] = F]
    BY <1>1 DEF Scan
  <2>2. F \subseteq Eligible(c)
    BY DEF Shortlists
  <2>3. everEligible' = everEligible \cup ({c} \X Eligible(c))
    BY <1>1 DEF Scan
  <2> QED BY <2>1, <2>2, <2>3 DEF FinalistsEligible, TypeOK
<1>2. ASSUME NEW c \in Profiles, Reset(c), UNCHANGED everEligible PROVE FinalistsEligible'
  BY <1>2 DEF Reset, FinalistsEligible, TypeOK
<1>3. ASSUME UNCHANGED <<finalists, everEligible>> PROVE FinalistsEligible'
  BY <1>3 DEF FinalistsEligible
<1> QED BY <1>1, <1>2, <1>3 DEF Next, vars, Analyse, CommitRun, AbortRun, Turn, Rewrite

\* For all runs of all profiles: a row of the shortlist passed every gate in a scan
\* of its profile, and has a percentile.
THEOREM ShortlistWasEligible == Spec => []ShownWasEligible
<1> DEFINE IInv == FinalistsEligible /\ ShownWasEligible
<1>1. Init => IInv
  BY DEF Init, FinalistsEligible, ShownWasEligible
<1>2. TypeOK /\ IInv /\ [Next]_vars => IInv'
  <2> SUFFICES ASSUME TypeOK, IInv, [Next]_vars PROVE ShownWasEligible'
    BY FinalistsStep
  <2>1. everEligible \subseteq everEligible'
    BY DEF Next, vars, history, Scan, Analyse, CommitRun, AbortRun, Turn, Rewrite
  <2> QED BY <2>1, ColumnStep DEF ShownWasEligible, FinalistsEligible
<1> QED BY <1>1, <1>2, TablesTyped, PTL DEF Spec

-----------------------------------------------------------------------------
\* Nothing deletes requirements.
LEMMA StoredGrow ==
  ASSUME TypeOK, [Next]_vars, NEW p \in Postings
  PROVE  stored[p] \subseteq stored'[p]
<1>1. ASSUME NEW c \in Profiles, CommitRun(c) PROVE stored[p] \subseteq stored'[p]
  BY <1>1 DEF CommitRun, PersistRequirements
<1>2. CASE UNCHANGED stored
  BY <1>2
<1> QED BY <1>1, <1>2 DEF Next, vars, tables, Scan, Analyse, AbortRun, Turn, Rewrite

\* What an analysis changes: one entry of `seen`, and which postings were extracted.
LEMMA AnalyseStep ==
  ASSUME TypeOK, NEW c \in Profiles, NEW p \in Postings, Analyse(c, p),
         NEW d \in Profiles, NEW q \in Postings
  PROVE  /\ extracted[d] \subseteq extracted'[d]
         /\ d # c \/ q # p => seen'[d][q] = seen[d][q]
         /\ stored[p] # {} => seen'[c][p] = stored[p]
         /\ stored[p] = {} => p \in extracted'[c]
<1> DEFINE Entry(T) == seen' = [seen EXCEPT ![c][p] = T]
<1>1. PICK T \in SUBSET Texts : Entry(T) /\ (stored[p] # {} => T = stored[p])
  <2>1. CASE stored[p] # {}
    <3>1. stored[p] \in SUBSET Texts
      BY DEF TypeOK
    <3> QED BY <2>1, <3>1 DEF Analyse
  <2>2. CASE stored[p] = {}
    BY <2>2 DEF Analyse
  <2> QED BY <2>1, <2>2
<1>2. seen'[c][p] = T
  BY <1>1 DEF TypeOK
<1>3. ASSUME d # c PROVE seen'[d][q] = seen[d][q]
  BY <1>1, <1>3 DEF TypeOK
<1>4. ASSUME q # p PROVE seen'[c][q] = seen[c][q]
  BY <1>1, <1>4 DEF TypeOK
<1>5. \/ extracted' = extracted /\ stored[p] # {}
      \/ extracted' = [extracted EXCEPT ![c] = @ \cup {p}]
  BY DEF Analyse
<1>6. /\ extracted[d] \subseteq extracted'[d]
      /\ stored[p] = {} => p \in extracted'[c]
  BY <1>5 DEF TypeOK
<1> HIDE DEF Entry
<1> QED BY <1>1, <1>2, <1>3, <1>4, <1>6

LEMMA SeenStep == TypeOK /\ SeenGrounded /\ [Next]_vars => SeenGrounded'
<1> SUFFICES ASSUME TypeOK, SeenGrounded, [Next]_vars, NEW d \in Profiles, NEW q \in Postings
             PROVE  q \in extracted'[d] \/ seen'[d][q] \subseteq stored'[q]
  BY DEF SeenGrounded
<1> USE DEF tables, runs, history
<1>1. q \in extracted[d] \/ seen[d][q] \subseteq stored[q]
  BY DEF SeenGrounded
<1>2. stored[q] \subseteq stored'[q]
  BY StoredGrow
<1>3. ASSUME NEW c \in Profiles, NEW p \in Postings, Analyse(c, p)
      PROVE  q \in extracted'[d] \/ seen'[d][q] \subseteq stored'[q]
  BY <1>1, <1>2, <1>3, AnalyseStep
<1>4. ASSUME NEW c \in Profiles, Reset(c)
      PROVE  q \in extracted'[d] \/ seen'[d][q] \subseteq stored'[q]
  <2>1. CASE d = c
    BY <1>4, <2>1 DEF Reset, TypeOK
  <2>2. CASE d # c
    <3>1. seen'[d] = seen[d] /\ extracted'[d] = extracted[d]
      BY <1>4, <2>2 DEF Reset, TypeOK
    <3> QED BY <1>1, <1>2, <3>1
  <2> QED BY <2>1, <2>2
<1>5. CASE UNCHANGED <<seen, extracted>>
  BY <1>1, <1>2, <1>5
<1> QED BY <1>3, <1>4, <1>5 DEF Next, vars, Scan, CommitRun, AbortRun, Turn, Rewrite

\* What a commit of a run does to one pair, given that the run has seen what the pair's
\* last score was computed from.
LEMMA CommitPair ==
  ASSUME TypeOK, SeenGrounded, BasisStored, BasisSeen, EvidenceIsTheScores,
         NEW c \in Profiles, CommitRun(c), NEW d \in Profiles, NEW q \in Postings
  PROVE  /\ evidence'[<<d, q>>] = basis'[<<d, q>>]
         /\ basis'[<<d, q>>] \subseteq stored'[q]
         /\ basis'[<<d, q>>] = basis[<<d, q>>] \/ d = c
<1>1. <<d, q>> \in Pairs /\ <<d, q>>[1] = d /\ <<d, q>>[2] = q
  BY DEF Pairs
<1>2. basis'[<<d, q>>] = IF d = c /\ q \in finalists[c] THEN seen[c][q] ELSE basis[<<d, q>>]
  BY <1>1, Zenon DEF CommitRun
<1>3. evidence'[<<d, q>>] = IF d = c /\ q \in finalists[c]
                           THEN evidence[<<d, q>>] \cup {r \in seen[c][q] : r \in stored'[q]}
                           ELSE evidence[<<d, q>>]
  BY <1>1, Zenon DEF CommitRun, PersistEvidence
<1>4. evidence[<<d, q>>] = basis[<<d, q>>] /\ basis[<<d, q>>] \subseteq stored[q]
  BY DEF EvidenceIsTheScores, BasisStored
<1>5. stored'[q] = IF q \in extracted[c] THEN stored[q] \cup seen[c][q] ELSE stored[q]
  BY DEF CommitRun, PersistRequirements
<1>6. CASE d = c /\ q \in finalists[c]
  <2>1. seen[c][q] \subseteq stored'[q]
    BY <1>5 DEF SeenGrounded
  <2>2. basis[<<d, q>>] \subseteq seen[c][q]
    BY <1>6 DEF BasisSeen, CommitRun
  <2> QED BY <1>2, <1>3, <1>4, <1>6, <2>1, <2>2
<1>7. CASE ~(d = c /\ q \in finalists[c])
  BY <1>2, <1>3, <1>4, <1>5, <1>7
<1> QED BY <1>6, <1>7

\* For all runs of all profiles: the evidence of a match is about exactly the
\* requirements that its score was last computed from, whichever extractions of the
\* advert raced each other or were rolled back.
THEOREM ScoresHaveTheirEvidence == Spec => []EvidenceIsTheScores
<1> DEFINE IInv == SeenGrounded /\ BasisStored /\ BasisSeen /\ EvidenceIsTheScores
<1>1. Init => IInv
  BY DEF Init, SeenGrounded, BasisStored, BasisSeen, EvidenceIsTheScores, Pairs
<1>2. TypeOK /\ IInv /\ [Next]_vars => IInv'
  <2> SUFFICES ASSUME TypeOK, IInv, [Next]_vars
               PROVE  (BasisStored /\ BasisSeen /\ EvidenceIsTheScores)'
    BY SeenStep
  <2> USE DEF tables, runs, history
  <2>1. ASSUME NEW c \in Profiles, CommitRun(c)
        PROVE  (BasisStored /\ BasisSeen /\ EvidenceIsTheScores)'
    <3>1. BasisStored'
      BY <2>1, CommitPair DEF BasisStored
    <3>2. EvidenceIsTheScores'
      <4>1. \A x \in Pairs : evidence'[x] = basis'[x]
        BY <2>1, CommitPair DEF Pairs
      <4>2. evidence' \in [Pairs -> SUBSET Texts] /\ basis' \in [Pairs -> SUBSET Texts]
        BY TypeStep DEF TypeOK
      <4> QED BY <4>1, <4>2 DEF EvidenceIsTheScores
    <3>3. ASSUME NEW d \in Profiles, NEW q \in finalists'[d] \ todo'[d]
          PROVE  basis'[<<d, q>>] \subseteq seen'[d][q]
      <4>1. d # c /\ finalists'[d] = finalists[d] /\ todo'[d] = todo[d] /\ seen'[d] = seen[d]
        BY <2>1, <3>3 DEF CommitRun, Reset, TypeOK
      <4>2. q \in Postings
        BY <3>3, <4>1 DEF TypeOK
      <4> QED BY <2>1, <3>3, <4>1, <4>2, CommitPair DEF BasisSeen
    <3> QED BY <3>1, <3>2, <3>3 DEF BasisSeen
  <2>2. CASE ~ \E c \in Profiles : CommitRun(c)
    <3>1. UNCHANGED <<evidence, basis, stored>>
      BY <2>2 DEF Next, vars, Scan, Analyse, AbortRun, Turn, Rewrite
    <3>2. ASSUME NEW c \in Profiles, Scan(c) PROVE BasisSeen'
      <4>1. PICK F \in SUBSET Postings : /\ finalists' = [finalists EXCEPT ![c] = F]
                                        /\ todo' = [todo EXCEPT ![c] = F]
        BY <3>2 DEF Scan, Shortlists, Eligible, Open
      <4>2. ASSUME NEW d \in Profiles, NEW q \in finalists'[d] \ todo'[d]
            PROVE  basis'[<<d, q>>] \subseteq seen'[d][q]
        <5>1. seen' = seen
          BY <3>2 DEF Scan
        <5>2. q \in finalists[d] \ todo[d]
          BY <4>1, <4>2 DEF TypeOK
        <5> QED BY <3>1, <5>1, <5>2 DEF BasisSeen
      <4> QED BY <4>2 DEF BasisSeen
    <3>3. ASSUME NEW c \in Profiles, NEW p \in Postings, Analyse(c, p) PROVE BasisSeen'
      <4> SUFFICES ASSUME NEW d \in Profiles, NEW q \in finalists'[d] \ todo'[d]
                   PROVE  basis'[<<d, q>>] \subseteq seen'[d][q]
        BY DEF BasisSeen
      <4>1. finalists' = finalists /\ todo' = [todo EXCEPT ![c] = @ \ {p}]
        BY <3>3 DEF Analyse
      <4>2. q \in Postings /\ q \in finalists[d]
        BY <4>1 DEF TypeOK
      <4>3. basis'[<<d, q>>] = basis[<<d, q>>] /\ basis[<<d, q>>] \subseteq stored[q]
        BY <3>1, <4>2 DEF BasisStored
      <4>4. CASE d = c /\ q = p
        BY <3>3, <4>2, <4>3, <4>4, AnalyseStep
      <4>5. CASE d # c \/ q # p
        <5>1. q \in finalists[d] \ todo[d]
          BY <4>1, <4>2, <4>5 DEF TypeOK
        <5>2. seen'[d][q] = seen[d][q]
          BY <3>3, <4>2, <4>5, AnalyseStep
        <5> QED BY <4>3, <5>1, <5>2 DEF BasisSeen
      <4> QED BY <4>4, <4>5
    <3>4. ASSUME NEW c \in Profiles, Reset(c) PROVE BasisSeen'
      <4> SUFFICES ASSUME NEW d \in Profiles, NEW q \in finalists'[d] \ todo'[d]
                   PROVE  basis'[<<d, q>>] \subseteq seen'[d][q]
        BY DEF BasisSeen
      <4>1. d # c /\ finalists'[d] = finalists[d] /\ todo'[d] = todo[d] /\ seen'[d] = seen[d]
        BY <3>4 DEF Reset, TypeOK
      <4> QED BY <3>1, <4>1 DEF BasisSeen
    <3>5. ASSUME UNCHANGED <<finalists, todo, seen>> PROVE BasisSeen'
      <4>1. finalists' = finalists /\ todo' = todo /\ seen' = seen /\ basis' = basis
        BY <3>1, <3>5
      <4> QED BY <4>1, Zenon DEF BasisSeen
    <3>6. BasisSeen'
      BY <2>2, <3>2, <3>3, <3>4, <3>5 DEF Next, vars, AbortRun, Turn, Rewrite
    <3> QED BY <3>1, <3>6 DEF BasisStored, EvidenceIsTheScores
  <2> QED BY <2>1, <2>2
<1> QED BY <1>1, <1>2, TablesTyped, PTL DEF Spec

-----------------------------------------------------------------------------
(* Finite sets: the least of a family of subsets, and what elements added one by one
   preserve *)

LEMMA LeastSubset ==
  ASSUME NEW S, IsFiniteSet(S), NEW Q \in SUBSET SUBSET S, Q # {}
  PROVE  \E T \in Q : \A U \in SUBSET T : U # T => U \notin Q
<1> DEFINE Less == StrictSubsetOrdering(S)
<1>1. IsWellFoundedOn(Less, SUBSET S)
  BY FS_StrictSubsetOrderingWellFounded, FS_FiniteSubsetsOfFinite
<1>2. \E T \in Q : \A U \in Q : ~(<<U, T>> \in Less)
  <2> HIDE DEF Less
  <2> QED BY <1>1, WFMin, Zenon
<1>3. PICK T \in Q : \A U \in Q : ~(<<U, T>> \in Less)
  BY <1>2
<1>4. ASSUME NEW U \in SUBSET T, U # T, U \in Q PROVE FALSE
  <2>1. <<U, T>> \in Less
    BY <1>4, <1>3 DEF StrictSubsetOrdering
  <2> QED BY <2>1, <1>3, <1>4
<1> QED BY <1>3, <1>4

LEMMA NaturalsBySuccessors ==
  ASSUME NEW K \in SUBSET Nat, 0 \in K, \A k \in K : k + 1 \in K
  PROVE  \A n \in Nat : n \in K
<1> SUFFICES ASSUME NEW n \in Nat, n \notin K PROVE FALSE
  OBVIOUS
<1> DEFINE Below(k) == 1..k
           Q == {Below(k) : k \in {k \in 0..n : k \notin K}}
<1>1. Q \in SUBSET SUBSET Below(n) /\ Q # {}
  <2>1. n \in {k \in 0..n : k \notin K}
    OBVIOUS
  <2>2. \A k \in 0..n : Below(k) \subseteq Below(n)
    OBVIOUS
  <2> QED BY <2>1, <2>2
<1>2. IsFiniteSet(Below(n))
  BY FS_Interval
<1>3. PICK T \in Q : \A U \in SUBSET T : U # T => U \notin Q
  <2> HIDE DEF Q, Below
  <2> QED BY <1>1, <1>2, LeastSubset
<1>4. PICK k \in 0..n : k \notin K /\ T = Below(k)
  OBVIOUS
<1>5. k - 1 \in 0..n /\ k - 1 \notin K
  BY <1>4
<1>6. Below(k - 1) \in Q
  BY <1>5
<1>7. Below(k - 1) \subseteq Below(k) /\ k \in Below(k) \ Below(k - 1)
  BY <1>4, <1>5
<1> QED BY <1>3, <1>4, <1>6, <1>7

LEMMA SetsByElements ==
  ASSUME NEW S, IsFiniteSet(S), NEW Q, {} \in Q,
         \A T \in SUBSET S, x \in S : T \in Q /\ x \notin T => T \cup {x} \in Q
  PROVE  S \in Q
<1> SUFFICES ASSUME S \notin Q PROVE FALSE
  OBVIOUS
<1> DEFINE Out == (SUBSET S) \ Q
<1>1. PICK T \in Out : \A U \in SUBSET T : U # T => U \notin Out
  <2>1. Out \in SUBSET SUBSET S /\ Out # {}
    OBVIOUS
  <2> HIDE DEF Out
  <2> QED BY <2>1, LeastSubset
<1>2. PICK x \in T : TRUE
  BY <1>1
<1>3. T \ {x} \in SUBSET S /\ T \ {x} \in Q
  BY <1>1, <1>2
<1>4. (T \ {x}) \cup {x} = T
  BY <1>2
<1> QED BY <1>1, <1>2, <1>3, <1>4

-----------------------------------------------------------------------------
(* Sums.  A fold over a set is a table over its subsets: it exists, and it does not
   depend on the order in which elements are picked. *)

Pick(T) == CHOOSE x \in T : TRUE
IsSum(g, F, S) ==
  g = [T \in SUBSET S |-> IF T = {} THEN 0 ELSE F[Pick(T)] + g[T \ {Pick(T)}]]
SumTable(F, S) == CHOOSE g : IsSum(g, F, S)

LEMMA SumByTable ==
  ASSUME NEW F, NEW S
  PROVE  SumFunctionOnSet(F, S) = SumTable(F, S)[S]
BY DEF SumFunctionOnSet, FoldFunctionOnSet, MapThenFoldSet, SumTable, IsSum, Pick

LEMMA PickedIsIn ==
  ASSUME NEW T, T # {}
  PROVE  Pick(T) \in T
BY DEF Pick

LEMMA SumTableExists ==
  ASSUME NEW F, NEW S, IsFiniteSet(S)
  PROVE  IsSum(SumTable(F, S), F, S)
<1> DEFINE Entry(g, T) == IF T = {} THEN 0 ELSE F[Pick(T)] + g[T \ {Pick(T)}]
           Upto(g, k) == \A T \in SUBSET S : Cardinality(T) <= k => g[T] = Entry(g, T)
           K == {k \in Nat : \E g : g = [T \in SUBSET S |-> g[T]] /\ Upto(g, k)}
<1>0. \A T \in SUBSET S : IsFiniteSet(T) /\ Cardinality(T) \in Nat
  BY FS_Subset, FS_CardinalityType
<1>1. 0 \in K
  <2> DEFINE g == [T \in SUBSET S |-> 0]
  <2>1. Upto(g, 0)
    <3> SUFFICES ASSUME NEW T \in SUBSET S, Cardinality(T) <= 0 PROVE g[T] = Entry(g, T)
      OBVIOUS
    <3>1. Cardinality(T) = 0
      BY <1>0
    <3>2. T = {}
      BY <3>1, <1>0, FS_EmptySet
    <3> QED BY <3>2
  <2>2. g = [T \in SUBSET S |-> g[T]]
    OBVIOUS
  <2> HIDE DEF g, Upto
  <2> QED BY <2>1, <2>2
<1>2. ASSUME NEW k \in K PROVE k + 1 \in K
  <2>1. PICK g : g = [T \in SUBSET S |-> g[T]] /\ Upto(g, k)
    OBVIOUS
  <2> DEFINE h == [T \in SUBSET S |-> Entry(g, T)]
  <2>2. \A T \in SUBSET S : Cardinality(T) <= k => h[T] = g[T]
    BY <2>1
  <2>3. Upto(h, k + 1)
    <3> SUFFICES ASSUME NEW T \in SUBSET S, Cardinality(T) <= k + 1 PROVE h[T] = Entry(h, T)
      OBVIOUS
    <3>1. CASE T = {}
      BY <3>1
    <3>2. CASE T # {}
      <4>1. Cardinality(T \ {Pick(T)}) <= k
        BY <3>2, <1>0, PickedIsIn, FS_RemoveElement
      <4>2. h[T \ {Pick(T)}] = g[T \ {Pick(T)}]
        BY <4>1, <2>2
      <4>3. h[T] = Entry(g, T)
        OBVIOUS
      <4> HIDE DEF h
      <4> QED BY <4>2, <4>3, <3>2
    <3> QED BY <3>1, <3>2
  <2>4. h = [T \in SUBSET S |-> h[T]]
    OBVIOUS
  <2> HIDE DEF h, Upto
  <2> QED BY <2>3, <2>4
<1>3. Cardinality(S) \in K
  <2> HIDE DEF K
  <2>1. K \in SUBSET Nat
    BY DEF K
  <2> QED BY <1>0, <1>1, <1>2, <2>1, NaturalsBySuccessors
<1>4. PICK g : g = [T \in SUBSET S |-> g[T]] /\ Upto(g, Cardinality(S))
  BY <1>3
<1>5. \A T \in SUBSET S : Cardinality(T) <= Cardinality(S)
  BY FS_Subset
<1>6. IsSum(g, F, S)
  BY <1>4, <1>5 DEF IsSum
<1> QED BY <1>6 DEF SumTable

LEMMA SumTableEntry ==
  ASSUME NEW F, NEW S, IsFiniteSet(S), NEW T \in SUBSET S
  PROVE  SumTable(F, S)[T] =
           IF T = {} THEN 0 ELSE F[Pick(T)] + SumTable(F, S)[T \ {Pick(T)}]
<1>1. IsSum(SumTable(F, S), F, S)
  BY SumTableExists
<1> QED BY <1>1 DEF IsSum

LEMMA SumTablesAgree ==
  ASSUME NEW F, NEW S, IsFiniteSet(S), NEW T \in SUBSET S
  PROVE  SumFunctionOnSet(F, T) = SumTable(F, S)[T]
<1> DEFINE Q == {U \in SUBSET T : SumTable(F, T)[U] # SumTable(F, S)[U]}
<1>1. IsFiniteSet(T)
  BY FS_Subset
<1>2. Q = {}
  <2> SUFFICES ASSUME Q # {} PROVE FALSE
    OBVIOUS
  <2>0. Q \in SUBSET SUBSET T
    OBVIOUS
  <2>1. PICK U \in Q : \A V \in SUBSET U : V # U => V \notin Q
    <3> HIDE DEF Q
    <3> QED BY <1>1, <2>0, LeastSubset
  <2>2. U # {}
    <3>1. {} \in SUBSET T /\ {} \in SUBSET S
      OBVIOUS
    <3>2. SumTable(F, T)[{}] = 0 /\ SumTable(F, S)[{}] = 0
      BY <1>1, <3>1, SumTableEntry
    <3> QED BY <3>2
  <2>3. SumTable(F, T)[U \ {Pick(U)}] = SumTable(F, S)[U \ {Pick(U)}]
    BY <2>1, <2>2, PickedIsIn
  <2> QED BY <1>1, <2>1, <2>2, <2>3, SumTableEntry
<1> QED BY <1>2, SumByTable

LEMMA SumByPick ==
  ASSUME NEW F, NEW S, IsFiniteSet(S)
  PROVE  SumFunctionOnSet(F, S) =
           IF S = {} THEN 0 ELSE F[Pick(S)] + SumFunctionOnSet(F, S \ {Pick(S)})
<1>1. SumFunctionOnSet(F, S) = SumTable(F, S)[S]
  BY SumTablesAgree
<1>2. SumFunctionOnSet(F, S \ {Pick(S)}) = SumTable(F, S)[S \ {Pick(S)}]
  BY SumTablesAgree
<1> QED BY <1>1, <1>2, SumTableEntry

LEMMA SumEmpty ==
  ASSUME NEW F
  PROVE  SumFunctionOnSet(F, {}) = 0
BY SumByPick, FS_EmptySet

LEMMA SumType ==
  ASSUME NEW F, NEW S, IsFiniteSet(S), \A x \in S : F[x] \in Int
  PROVE  SumFunctionOnSet(F, S) \in Int
<1> DEFINE Out == {T \in SUBSET S : SumFunctionOnSet(F, T) \notin Int}
<1> SUFFICES ASSUME Out # {} PROVE FALSE
  OBVIOUS
<1>1. PICK T \in Out : \A U \in SUBSET T : U # T => U \notin Out
  <2>1. Out \in SUBSET SUBSET S
    OBVIOUS
  <2> HIDE DEF Out
  <2> QED BY <2>1, LeastSubset
<1>2. IsFiniteSet(T)
  BY FS_Subset
<1>3. CASE T = {}
  BY <1>1, <1>3, SumEmpty
<1>4. CASE T # {}
  <2>1. Pick(T) \in T
    BY <1>4, PickedIsIn
  <2>2. T \ {Pick(T)} \in SUBSET T /\ T \ {Pick(T)} # T
    BY <2>1
  <2>3. SumFunctionOnSet(F, T \ {Pick(T)}) \in Int
    BY <1>1, <2>2
  <2> QED BY <1>1, <1>2, <1>4, <2>1, <2>3, SumByPick
<1> QED BY <1>3, <1>4

LEMMA SumRemove ==
  ASSUME NEW F, NEW S, IsFiniteSet(S), \A x \in S : F[x] \in Int, NEW y \in S
  PROVE  SumFunctionOnSet(F, S) = F[y] + SumFunctionOnSet(F, S \ {y})
<1> DEFINE Sum(T) == SumFunctionOnSet(F, T)
           Out == {T \in SUBSET S : \E x \in T : Sum(T) # F[x] + Sum(T \ {x})}
<1>0. \A T \in SUBSET S : Sum(T) \in Int
  BY SumType, FS_Subset
<1> SUFFICES ASSUME Out # {} PROVE FALSE
  OBVIOUS
<1>1. PICK T \in Out : \A U \in SUBSET T : U # T => U \notin Out
  <2>1. Out \in SUBSET SUBSET S
    OBVIOUS
  <2> HIDE DEF Out
  <2> QED BY <2>1, LeastSubset
<1>2. PICK x \in T : Sum(T) # F[x] + Sum(T \ {x})
  BY <1>1
<1> DEFINE p == Pick(T)
<1>3. p \in T /\ Sum(T) = F[p] + Sum(T \ {p})
  BY PickedIsIn, SumByPick, FS_Subset
<1>4. x # p
  BY <1>2, <1>3
<1> HIDE DEF p
<1>5. Sum(T \ {p}) = F[x] + Sum((T \ {p}) \ {x})
  <2>1. T \ {p} \in SUBSET T /\ T \ {p} # T /\ T \ {p} \in SUBSET S /\ x \in T \ {p}
    BY <1>3, <1>4
  <2> HIDE DEF Sum
  <2> QED BY <1>1, <2>1
<1>6. Sum(T \ {x}) = F[p] + Sum((T \ {x}) \ {p})
  <2>1. T \ {x} \in SUBSET T /\ T \ {x} # T /\ T \ {x} \in SUBSET S /\ p \in T \ {x}
    BY <1>3, <1>4
  <2> HIDE DEF Sum
  <2> QED BY <1>1, <2>1
<1>7. (T \ {p}) \ {x} = (T \ {x}) \ {p}
  OBVIOUS
<1>8. F[p] \in Int /\ F[x] \in Int /\ Sum((T \ {x}) \ {p}) \in Int
  BY <1>0, <1>3
<1> HIDE DEF Sum
<1> DEFINE rest == Sum((T \ {x}) \ {p})
<1>9. Sum(T) = F[p] + (F[x] + rest)
  BY <1>3, <1>5, <1>7
<1>10. Sum(T \ {x}) = F[p] + rest
  BY <1>6
<1>11. rest \in Int
  BY <1>8
<1> HIDE DEF rest
<1>12. F[p] + (F[x] + rest) = F[x] + (F[p] + rest)
  BY <1>8, <1>11
<1> QED BY <1>2, <1>9, <1>10, <1>12

LEMMA SumAdd ==
  ASSUME NEW F, NEW T, IsFiniteSet(T), NEW x, x \notin T,
         F[x] \in Int, \A y \in T : F[y] \in Int
  PROVE  SumFunctionOnSet(F, T \cup {x}) = F[x] + SumFunctionOnSet(F, T)
<1>1. IsFiniteSet(T \cup {x}) /\ (T \cup {x}) \ {x} = T
  BY FS_AddElement
<1>2. \A y \in T \cup {x} : F[y] \in Int
  OBVIOUS
<1> QED BY <1>1, <1>2, SumRemove

LEMMA SumMonotone ==
  ASSUME NEW F, NEW G, NEW S, IsFiniteSet(S),
         \A x \in S : F[x] \in Int /\ G[x] \in Int /\ F[x] <= G[x]
  PROVE  SumFunctionOnSet(F, S) <= SumFunctionOnSet(G, S)
<1> DEFINE Q == {T \in SUBSET S : SumFunctionOnSet(F, T) <= SumFunctionOnSet(G, T)}
<1>1. {} \in Q
  BY SumEmpty
<1>2. ASSUME NEW T \in SUBSET S, NEW x \in S, T \in Q, x \notin T
      PROVE  T \cup {x} \in Q
  <2>1. IsFiniteSet(T)
    BY FS_Subset
  <2>2. /\ SumFunctionOnSet(F, T \cup {x}) = F[x] + SumFunctionOnSet(F, T)
        /\ SumFunctionOnSet(G, T \cup {x}) = G[x] + SumFunctionOnSet(G, T)
    BY <1>2, <2>1, SumAdd
  <2>3. SumFunctionOnSet(F, T) \in Int /\ SumFunctionOnSet(G, T) \in Int
    BY <2>1, SumType
  <2> QED BY <1>2, <2>2, <2>3
<1>3. S \in Q
  <2> HIDE DEF Q
  <2> QED BY <1>1, <1>2, SetsByElements
<1> QED BY <1>3

LEMMA SumSubset ==
  ASSUME NEW F, NEW S, IsFiniteSet(S), \A x \in S : F[x] \in Nat, NEW T \in SUBSET S
  PROVE  /\ SumFunctionOnSet(F, T) \in Nat
         /\ SumFunctionOnSet(F, T) <= SumFunctionOnSet(F, S)
<1> DEFINE Q == {U \in SUBSET S : 
                   /\ SumFunctionOnSet(F, U \cap T) \in Nat
                   /\ SumFunctionOnSet(F, U \cap T) <= SumFunctionOnSet(F, U)}
<1>1. {} \in Q
  <2>1. {} \cap T = {}
    OBVIOUS
  <2> QED BY <2>1, SumEmpty
<1>2. ASSUME NEW U \in SUBSET S, NEW x \in S, U \in Q, x \notin U
      PROVE  U \cup {x} \in Q
  <2>1. IsFiniteSet(U) /\ IsFiniteSet(U \cap T)
    BY FS_Subset
  <2>2. SumFunctionOnSet(F, U \cup {x}) = F[x] + SumFunctionOnSet(F, U)
    BY <1>2, <2>1, SumAdd
  <2>3. SumFunctionOnSet(F, U) \in Int /\ F[x] \in Nat
    BY <2>1, SumType
  <2>4. CASE x \in T
    <3>1. (U \cup {x}) \cap T = (U \cap T) \cup {x}
      BY <2>4
    <3>2. SumFunctionOnSet(F, (U \cap T) \cup {x}) = F[x] + SumFunctionOnSet(F, U \cap T)
      BY <1>2, <2>1, SumAdd
    <3>3. /\ SumFunctionOnSet(F, (U \cup {x}) \cap T) = F[x] + SumFunctionOnSet(F, U \cap T)
          /\ SumFunctionOnSet(F, U \cap T) \in Nat
          /\ SumFunctionOnSet(F, U \cap T) <= SumFunctionOnSet(F, U)
      BY <1>2, <3>1, <3>2
    <3>4. /\ SumFunctionOnSet(F, (U \cup {x}) \cap T) \in Nat
          /\ SumFunctionOnSet(F, (U \cup {x}) \cap T) <= SumFunctionOnSet(F, U \cup {x})
      BY <2>2, <2>3, <3>3
    <3> QED BY <3>4
  <2>5. CASE x \notin T
    <3>1. (U \cup {x}) \cap T = U \cap T
      BY <2>5
    <3> QED BY <1>2, <2>2, <2>3, <3>1
  <2> QED BY <2>4, <2>5
<1>3. S \in Q
  <2> HIDE DEF Q
  <2> QED BY <1>1, <1>2, SetsByElements
<1>4. S \cap T = T
  OBVIOUS
<1> QED BY <1>3, <1>4

LEMMA SumBounded ==
  ASSUME NEW F, NEW S, IsFiniteSet(S), \A x \in S : F[x] \in Nat /\ F[x] <= One
  PROVE  SumFunctionOnSet(F, S) \in Nat /\ SumFunctionOnSet(F, S) <= One * Cardinality(S)
<1> DEFINE Q == {T \in SUBSET S :
                   SumFunctionOnSet(F, T) \in Nat /\ SumFunctionOnSet(F, T) <= One * Cardinality(T)}
<1>1. {} \in Q
  BY SumEmpty, FS_EmptySet DEF One
<1>2. ASSUME NEW T \in SUBSET S, NEW x \in S, T \in Q, x \notin T
      PROVE  T \cup {x} \in Q
  <2>1. IsFiniteSet(T)
    BY FS_Subset
  <2> DEFINE a == SumFunctionOnSet(F, T)
             n == Cardinality(T)
  <2>2. SumFunctionOnSet(F, T \cup {x}) = F[x] + a /\ Cardinality(T \cup {x}) = n + 1 /\ n \in Nat
    BY <1>2, <2>1, SumAdd, FS_AddElement, FS_CardinalityType
  <2>3. a \in Nat /\ a <= One * n /\ F[x] \in Nat /\ F[x] <= One
    BY <1>2
  <2> HIDE DEF a, n
  <2>4. F[x] + a \in Nat /\ F[x] + a <= One * (n + 1)
    BY SMT, <2>2, <2>3 DEF One
  <2> QED BY <2>2, <2>4
<1>3. S \in Q
  <2> HIDE DEF Q
  <2> QED BY <1>1, <1>2, SetsByElements
<1> QED BY <1>3

-----------------------------------------------------------------------------
(* Quotients, rounded down and to the nearest *)

LEMMA DivFacts ==
  ASSUME NEW a \in Int, NEW b \in Nat \ {0}
  PROVE  /\ a \div b \in Int
         /\ b * (a \div b) <= a
         /\ a < b * (a \div b) + b
OBVIOUS

LEMMA RoundedFacts ==
  ASSUME NEW a \in Int, NEW b \in Nat \ {0}
  PROVE  /\ Rounded(a, b) \in Int
         /\ 2 * (b * Rounded(a, b)) <= 2 * a + b
         /\ 2 * a < 2 * (b * Rounded(a, b)) + b
<1> DEFINE r == (2 * a + b) \div (2 * b)
<1>1. 2 * b \in Nat \ {0} /\ 2 * a + b \in Int
  OBVIOUS
<1>2. r \in Int /\ (2 * b) * r <= 2 * a + b /\ 2 * a + b < (2 * b) * r + 2 * b
  BY <1>1, DivFacts
<1> HIDE DEF r
<1>3. (2 * b) * r = 2 * (b * r)
  BY <1>2
<1>4. Rounded(a, b) = r
  BY DEF Rounded, r
<1> QED BY <1>2, <1>3, <1>4

LEMMA ProductMonotone ==
  ASSUME NEW a \in Int, NEW b \in Int, NEW c \in Nat, a <= b
  PROVE  c * a <= c * b
OBVIOUS

LEMMA ProductReflects ==
  ASSUME NEW a \in Int, NEW b \in Int, NEW c \in Nat \ {0}, c * a < c * b
  PROVE  a < b
OBVIOUS

LEMMA RoundedMonotone ==
  ASSUME NEW a \in Int, NEW c \in Int, NEW b \in Nat \ {0}, a <= c
  PROVE  Rounded(a, b) <= Rounded(c, b)
<1> DEFINE p == Rounded(a, b)
           q == Rounded(c, b)
<1>1. /\ p \in Int /\ q \in Int
      /\ 2 * (b * p) <= 2 * a + b /\ 2 * c < 2 * (b * q) + b
  BY RoundedFacts
<1> HIDE DEF p, q
<1>2. b * p \in Int /\ b * q \in Int
  BY <1>1
<1>3. b * p < b * q + b
  BY <1>1, <1>2
<1>4. b * p < b * (q + 1)
  BY <1>1, <1>3
<1>5. p < q + 1
  BY <1>1, <1>4, ProductReflects
<1> QED BY <1>1, <1>5 DEF p, q

LEMMA RoundedWithin ==
  ASSUME NEW a \in Int, NEW b \in Nat \ {0}, NEW n \in Nat, 0 <= a, a <= b * n
  PROVE  Rounded(a, b) \in 0..n
<1> DEFINE p == Rounded(a, b)
<1>1. p \in Int /\ 2 * (b * p) <= 2 * a + b /\ 2 * a < 2 * (b * p) + b
  BY RoundedFacts
<1> HIDE DEF p
<1>2. b * p \in Int /\ b * n \in Int
  BY <1>1
<1>3. b * p < b * n + b /\ 0 < b * p + b
  BY <1>1, <1>2
<1>4. b * p < b * (n + 1) /\ b * 0 < b * (p + 1)
  BY <1>1, <1>3
<1>5. p < n + 1 /\ 0 < p + 1
  BY <1>1, <1>4, ProductReflects
<1> QED BY <1>1, <1>5 DEF p

LEMMA RoundedStrict ==
  ASSUME NEW a \in Int, NEW c \in Int, NEW b \in Nat \ {0}, a + b <= c
  PROVE  Rounded(a, b) < Rounded(c, b)
<1> DEFINE p == Rounded(a, b)
           q == Rounded(c, b)
<1>1. /\ p \in Int /\ q \in Int
      /\ 2 * (b * p) <= 2 * a + b /\ 2 * c < 2 * (b * q) + b
  BY RoundedFacts
<1> HIDE DEF p, q
<1>2. b * p \in Int /\ b * q \in Int
  BY <1>1
<1>3. b * p < b * q
  BY <1>1, <1>2
<1> QED BY <1>1, <1>3, ProductReflects DEF p, q

-----------------------------------------------------------------------------
(* Personalised weights *)

LEMMA MinOfTwo ==
  ASSUME NEW a \in Int, NEW b \in Int
  PROVE  /\ Min({a, b}) = IF a <= b THEN a ELSE b
         /\ Max({a, b}) = IF a <= b THEN b ELSE a
<1>1. \E x \in {a, b} : \A y \in {a, b} : x <= y
  OBVIOUS
<1>2. \E x \in {a, b} : \A y \in {a, b} : x >= y
  OBVIOUS
<1>3. Min({a, b}) \in {a, b} /\ \A y \in {a, b} : Min({a, b}) <= y
  BY <1>1 DEF Min
<1>4. Max({a, b}) \in {a, b} /\ \A y \in {a, b} : Max({a, b}) >= y
  BY <1>2 DEF Max
<1> QED BY <1>3, <1>4

LEMMA TermsFinite == IsFiniteSet(Terms)
<1>1. IsFiniteSet({})
  BY FS_EmptySet
<1>2. \A S, x : IsFiniteSet(S) => IsFiniteSet(S \cup {x})
  BY FS_AddElement
<1>3. Terms = (((({} \cup {"skill_coverage"}) \cup {"requirement_alignment"}) \cup {"seniority_fit"})
                \cup {"semantic_similarity"}) \cup {"freshness"}
  BY DEF Terms
<1> QED BY <1>1, <1>2, <1>3, Zenon

LEMMA SumOfTerms ==
  ASSUME NEW F, \A t \in Terms : F[t] \in Int
  PROVE  SumOf(F) = F["skill_coverage"] + (F["requirement_alignment"] + (F["seniority_fit"]
                      + (F["semantic_similarity"] + F["freshness"])))
<1> DEFINE a == "skill_coverage"
           b == "requirement_alignment"
           c == "seniority_fit"
           d == "semantic_similarity"
           e == "freshness"
           Sum(S) == SumFunctionOnSet(F, S)
<1>0. \A S \in SUBSET Terms, t \in Terms : t \in S => Sum(S) = F[t] + Sum(S \ {t})
  BY SumRemove, TermsFinite, FS_Subset
<1>1. Terms = {a, b, c, d, e}
  BY DEF Terms
<1>2. /\ {a, b, c, d, e} \ {a} = {b, c, d, e} /\ {b, c, d, e} \ {b} = {c, d, e}
      /\ {c, d, e} \ {c} = {d, e} /\ {d, e} \ {d} = {e} /\ {e} \ {e} = {}
  OBVIOUS
<1>3. Sum({}) = 0
  BY SumEmpty
<1> HIDE DEF Sum
<1>4. Sum({a, b, c, d, e}) = F[a] + Sum({b, c, d, e})
  BY <1>0, <1>1, <1>2
<1>5. Sum({b, c, d, e}) = F[b] + Sum({c, d, e})
  BY <1>0, <1>1, <1>2
<1>6. Sum({c, d, e}) = F[c] + Sum({d, e})
  BY <1>0, <1>1, <1>2
<1>7. Sum({d, e}) = F[d] + Sum({e})
  BY <1>0, <1>1, <1>2
<1>8. Sum({e}) = F[e]
  BY <1>0, <1>1, <1>2, <1>3
<1> QED BY <1>1, <1>4, <1>5, <1>6, <1>7, <1>8 DEF SumOf, Sum

LEMMA BoundsOfWeights ==
  /\ Floor("skill_coverage") = 2100 /\ Ceiling("skill_coverage") = 4900
  /\ Floor("requirement_alignment") = 1500 /\ Ceiling("requirement_alignment") = 3500
  /\ Floor("seniority_fit") = 900 /\ Ceiling("seniority_fit") = 2100
  /\ Floor("semantic_similarity") = 900 /\ Ceiling("semantic_similarity") = 2100
  /\ Floor("freshness") = 600 /\ Ceiling("freshness") = 1400
BY DEF Floor, Ceiling, DefaultWeights

\* What is shared out in proportion to the room: nobody's share is above their room, and
\* the shares come to what was shared, but for the rounding of five of them.
LEMMA SharedOut ==
  ASSUME NEW room \in [Terms -> Nat], NEW s \in Nat, SumOf(room) > 0, s <= SumOf(room),
         NEW share, share = [t \in Terms |-> Rounded(s * room[t], SumOf(room))]
  PROVE  /\ \A t \in Terms : share[t] \in 0..room[t]
         /\ SumOf(share) - s \in -2..2
<1> DEFINE all == SumOf(room)
<1>1. all = room["skill_coverage"] + (room["requirement_alignment"] + (room["seniority_fit"]
               + (room["semantic_similarity"] + room["freshness"])))
  BY SumOfTerms
<1>2. all \in Nat \ {0}
  BY <1>1 DEF Terms
<1> HIDE DEF all
<1>3. ASSUME NEW t \in Terms
      PROVE  /\ share[t] \in 0..room[t] /\ share[t] \in Int
             /\ s * room[t] \in Int /\ all * share[t] \in Int
             /\ 2 * (all * share[t]) <= 2 * (s * room[t]) + all
             /\ 2 * (s * room[t]) < 2 * (all * share[t]) + all
  <2>1. room[t] \in Nat /\ s * room[t] \in Nat
    OBVIOUS
  <2>2. s * room[t] <= all * room[t]
    BY <2>1, <1>2, ProductMonotone DEF all
  <2>3. share[t] = Rounded(s * room[t], all)
    BY DEF all
  <2>4. share[t] \in 0..room[t]
    BY <1>2, <2>1, <2>2, <2>3, RoundedWithin
  <2>5. /\ 2 * (all * share[t]) <= 2 * (s * room[t]) + all
        /\ 2 * (s * room[t]) < 2 * (all * share[t]) + all
    <3> DEFINE part == s * room[t]
    <3>1. part \in Int
      BY <2>1
    <3>2. share[t] = Rounded(part, all)
      BY <2>3
    <3> HIDE DEF part
    <3>3. /\ 2 * (all * Rounded(part, all)) <= 2 * part + all
          /\ 2 * part < 2 * (all * Rounded(part, all)) + all
      BY <1>2, <3>1, RoundedFacts
    <3> QED BY <3>2, <3>3 DEF part
  <2>6. all * share[t] \in Int
    BY <1>2, <2>4
  <2> QED BY <2>1, <2>4, <2>5, <2>6
<1>4. SumOf(share) = share["skill_coverage"] + (share["requirement_alignment"]
        + (share["seniority_fit"] + (share["semantic_similarity"] + share["freshness"])))
  BY <1>3, SumOfTerms
<1> DEFINE sum == SumOf(share)
<1>5. sum \in Int
  BY <1>3, <1>4 DEF Terms
<1>6. all * sum = all * share["skill_coverage"] + (all * share["requirement_alignment"]
        + (all * share["seniority_fit"] + (all * share["semantic_similarity"] + all * share["freshness"])))
  BY <1>2, <1>3, <1>4 DEF Terms
<1>7. s * all = s * room["skill_coverage"] + (s * room["requirement_alignment"]
        + (s * room["seniority_fit"] + (s * room["semantic_similarity"] + s * room["freshness"])))
  BY <1>1, <1>2 DEF Terms
<1> HIDE DEF sum
<1>8. all * sum \in Int /\ s * all \in Int
  BY <1>2, <1>5
<1>9. 2 * (all * sum) <= 2 * (s * all) + 5 * all /\ 2 * (s * all) < 2 * (all * sum) + 5 * all
  <2>1. \A t \in Terms : /\ s * room[t] \in Int /\ all * share[t] \in Int
                         /\ 2 * (all * share[t]) <= 2 * (s * room[t]) + all
                         /\ 2 * (s * room[t]) < 2 * (all * share[t]) + all
    BY <1>3
  <2> DEFINE x(t) == all * share[t]
             y(t) == s * room[t]
  <2>2. \A t \in Terms : /\ x(t) \in Int /\ y(t) \in Int
                         /\ 2 * x(t) <= 2 * y(t) + all /\ 2 * y(t) < 2 * x(t) + all
    BY <2>1
  <2>3. /\ all * sum = x("skill_coverage") + (x("requirement_alignment")
             + (x("seniority_fit") + (x("semantic_similarity") + x("freshness"))))
        /\ s * all = y("skill_coverage") + (y("requirement_alignment")
             + (y("seniority_fit") + (y("semantic_similarity") + y("freshness"))))
    BY <1>6, <1>7
  <2> DEFINE xs == all * sum
             ys == s * all
  <2> HIDE DEF x, y, xs, ys
  <2>4. /\ 2 * xs <= 2 * ys + 5 * all /\ 2 * ys < 2 * xs + 5 * all
    BY <1>2, <2>2, <2>3 DEF Terms, xs, ys
  <2> QED BY <2>4 DEF xs, ys
<1>10. all * (2 * sum) < all * (2 * s + 6) /\ all * (2 * s) < all * (2 * sum + 5)
  <2>1. /\ all * (2 * sum) = 2 * (all * sum) /\ all * (2 * s) = 2 * (s * all)
        /\ all * (2 * s + 6) = 2 * (s * all) + 6 * all
        /\ all * (2 * sum + 5) = 2 * (all * sum) + 5 * all
    BY <1>2, <1>5
  <2> QED BY <1>2, <1>8, <1>9, <2>1
<1>11. 2 * sum < 2 * s + 6 /\ 2 * s < 2 * sum + 5
  BY <1>2, <1>5, <1>10, ProductReflects
<1>12. sum - s \in -2..2
  BY <1>5, <1>11
<1> QED BY <1>3, <1>12 DEF sum

\* Weights within their bounds stay within them when moved to sum to one, and do.
LEMMA ProjectedBounds ==
  ASSUME NEW w \in [Terms -> Int], \A t \in Terms : w[t] \in Floor(t)..Ceiling(t)
  PROVE  /\ \A t \in Terms : Project(w)[t] \in Floor(t)..Ceiling(t)
         /\ SumOf(Project(w)) - One \in -2..2
<1>2. SumOf(w) = w["skill_coverage"] + (w["requirement_alignment"] + (w["seniority_fit"]
               + (w["semantic_similarity"] + w["freshness"])))
  BY SumOfTerms
<1>0. SumOf(w) \in Int /\ 6000 <= SumOf(w) /\ SumOf(w) <= 14000
  <2>1. /\ "skill_coverage" \in Terms /\ "requirement_alignment" \in Terms /\ "seniority_fit" \in Terms
        /\ "semantic_similarity" \in Terms /\ "freshness" \in Terms
    BY DEF Terms
  <2>2. \A t \in Terms : w[t] \in Int /\ Floor(t) <= w[t] /\ w[t] <= Ceiling(t)
    BY BoundsOfWeights DEF Terms
  <2> QED BY <1>2, <2>1, <2>2, BoundsOfWeights
<1> DEFINE surplus == SumOf(w) - One
           room == [t \in Terms |-> Room(w, surplus, t)]
           move == Min({Max({surplus, -surplus}), SumOf(room)})
           share == [t \in Terms |-> Rounded(move * room[t], SumOf(room))]
           moved == [t \in Terms |-> IF surplus > 0 THEN w[t] - share[t] ELSE w[t] + share[t]]
<1>1. Project(w) = IF surplus = 0 \/ SumOf(room) = 0 THEN w ELSE moved
  BY DEF Project
<1>3. surplus \in Int /\ -4000 <= surplus /\ surplus <= 4000
  BY <1>0 DEF One
<1> HIDE DEF surplus
<1>4. \A t \in Terms : Floor(t) \in Nat /\ Ceiling(t) \in Nat
  BY BoundsOfWeights DEF Terms
<1>5. room \in [Terms -> Nat]
  BY <1>3, <1>4 DEF Room
<1>6. SumOf(room) = room["skill_coverage"] + (room["requirement_alignment"] + (room["seniority_fit"]
               + (room["semantic_similarity"] + room["freshness"])))
  BY <1>5, SumOfTerms
<1>7. SumOf(room) = IF surplus > 0 THEN 4000 + surplus ELSE 4000 - surplus
  <2>1. CASE surplus > 0
    <3>1. \A t \in Terms : room[t] = w[t] - Floor(t)
      BY <2>1 DEF Room
    <3> HIDE DEF room
    <3> QED BY <1>2, <1>6, <2>1, <3>1, BoundsOfWeights DEF Terms, surplus, One
  <2>2. CASE ~(surplus > 0)
    <3>1. \A t \in Terms : room[t] = Ceiling(t) - w[t]
      BY <2>2 DEF Room
    <3> HIDE DEF room
    <3> QED BY <1>2, <1>6, <2>2, <3>1, BoundsOfWeights DEF Terms, surplus, One
  <2> QED BY <2>1, <2>2
<1> HIDE DEF room
<1>8. /\ SumOf(room) \in Nat \ {0}
      /\ move = (IF surplus > 0 THEN surplus ELSE -surplus) /\ move <= SumOf(room)
  <2>1. Max({surplus, -surplus}) = IF surplus > 0 THEN surplus ELSE -surplus
    <3>1. surplus \in Int /\ -surplus \in Int
      BY <1>3
    <3>2. Max({surplus, -surplus}) = IF surplus <= -surplus THEN -surplus ELSE surplus
      BY <3>1, MinOfTwo
    <3> QED BY <3>1, <3>2
  <2> QED BY <1>3, <1>7, <2>1, MinOfTwo
<1>9. move \in Nat
  BY <1>3, <1>8
<1> HIDE DEF move
<1>10. /\ \A t \in Terms : share[t] \in 0..room[t]
       /\ SumOf(share) - move \in -2..2
  BY <1>5, <1>8, <1>9, SharedOut
<1>11. CASE surplus = 0
  BY <1>1, <1>11 DEF surplus
<1> HIDE DEF share
<1>12. CASE surplus > 0
  <2>1. \A t \in Terms : room[t] = w[t] - Floor(t)
    BY <1>12 DEF Room, room
  <2>2. \A t \in Terms : moved[t] = w[t] - share[t] /\ share[t] \in Int
    BY <1>5, <1>10, <1>12
  <2>3. \A t \in Terms : moved[t] \in Floor(t)..Ceiling(t)
    BY <1>4, <1>10, <2>1, <2>2
  <2>4. SumOf(moved) = SumOf(w) - SumOf(share)
    <3>1. \A t \in Terms : w[t] \in Int /\ share[t] \in Int /\ moved[t] \in Int
      BY <2>2
    <3> HIDE DEF moved
    <3>2. /\ SumOf(moved) = moved["skill_coverage"] + (moved["requirement_alignment"]
              + (moved["seniority_fit"] + (moved["semantic_similarity"] + moved["freshness"])))
          /\ SumOf(share) = share["skill_coverage"] + (share["requirement_alignment"]
              + (share["seniority_fit"] + (share["semantic_similarity"] + share["freshness"])))
      BY <3>1, SumOfTerms
    <3> QED BY <1>2, <2>2, <3>1, <3>2 DEF Terms
  <2>5. SumOf(w) \in Int /\ SumOf(share) \in Int
    <3>1. \A t \in Terms : w[t] \in Int /\ share[t] \in Int
      BY <2>2
    <3> QED BY <3>1, SumType, TermsFinite DEF SumOf
  <2>6. Project(w) = moved
    BY <1>1, <1>8, <1>12
  <2> HIDE DEF moved
  <2>7. SumOf(moved) - One \in -2..2
    BY <1>8, <1>10, <1>12, <2>4, <2>5 DEF surplus, One
  <2> QED BY <2>3, <2>6, <2>7
<1>13. CASE surplus < 0
  <2>1. \A t \in Terms : room[t] = Ceiling(t) - w[t]
    BY <1>3, <1>13 DEF Room, room
  <2>2. \A t \in Terms : moved[t] = w[t] + share[t] /\ share[t] \in Int
    BY <1>3, <1>5, <1>10, <1>13
  <2>3. \A t \in Terms : moved[t] \in Floor(t)..Ceiling(t)
    BY <1>4, <1>10, <2>1, <2>2
  <2>4. SumOf(moved) = SumOf(w) + SumOf(share)
    <3>1. \A t \in Terms : w[t] \in Int /\ share[t] \in Int /\ moved[t] \in Int
      BY <2>2
    <3> HIDE DEF moved
    <3>2. /\ SumOf(moved) = moved["skill_coverage"] + (moved["requirement_alignment"]
              + (moved["seniority_fit"] + (moved["semantic_similarity"] + moved["freshness"])))
          /\ SumOf(share) = share["skill_coverage"] + (share["requirement_alignment"]
              + (share["seniority_fit"] + (share["semantic_similarity"] + share["freshness"])))
      BY <3>1, SumOfTerms
    <3> QED BY <1>2, <2>2, <3>1, <3>2 DEF Terms
  <2>5. SumOf(w) \in Int /\ SumOf(share) \in Int
    <3>1. \A t \in Terms : w[t] \in Int /\ share[t] \in Int
      BY <2>2
    <3> QED BY <3>1, SumType, TermsFinite DEF SumOf
  <2>6. Project(w) = moved
    BY <1>1, <1>3, <1>8, <1>13
  <2> HIDE DEF moved
  <2>7. SumOf(moved) - One \in -2..2
    BY <1>3, <1>8, <1>10, <1>13, <2>4, <2>5 DEF surplus, One
  <2> QED BY <2>3, <2>6, <2>7
<1> QED BY <1>3, <1>11, <1>12, <1>13

LEMMA PersonalisedBounds ==
  ASSUME NEW fit \in [Terms -> -10..10]
  PROVE  LET w == PersonalisedWeights(fit)
         IN  /\ w \in [Terms -> Int]
             /\ \A t \in Terms : w[t] \in Floor(t)..Ceiling(t)
             /\ SumOf(w) - One \in -2..2
<1> DEFINE clamped == [t \in Terms |-> (DefaultWeights[t] * (100 + 4 * fit[t])) \div 100]
<1>1. CASE \A t \in Terms : fit[t] = 0
  <2>1. PersonalisedWeights(fit) = DefaultWeights
    BY <1>1 DEF PersonalisedWeights
  <2>2. DefaultWeights \in [Terms -> Int] /\ \A t \in Terms : DefaultWeights[t] \in Floor(t)..Ceiling(t)
    BY BoundsOfWeights DEF DefaultWeights, Terms
  <2>3. SumOf(DefaultWeights) = One
    <3>1. \A t \in Terms : DefaultWeights[t] \in Int
      BY <2>2
    <3> QED BY <3>1, SumOfTerms DEF DefaultWeights, One
  <2> QED BY <2>1, <2>2, <2>3 DEF One
<1>2. CASE ~(\A t \in Terms : fit[t] = 0)
  <2>1. PersonalisedWeights(fit) = Project(clamped)
    BY <1>2 DEF PersonalisedWeights
  <2>2. ASSUME NEW t \in Terms PROVE clamped[t] \in Int /\ clamped[t] \in Floor(t)..Ceiling(t)
    <3>1. fit[t] \in -10..10 /\ clamped[t] = (DefaultWeights[t] * (100 + 4 * fit[t])) \div 100
      OBVIOUS
    <3>2. DefaultWeights[t] \in {3500, 2500, 1500, 1000}
      BY DEF DefaultWeights, Terms
    <3> HIDE DEF clamped
    <3> QED BY <3>1, BoundsOfWeights DEF Terms, DefaultWeights
  <2>3. clamped \in [Terms -> Int]
    BY <2>2
  <2> HIDE DEF clamped
  <2>4. Project(clamped) \in [Terms -> Int]
    <3>1. \A t \in Terms : Project(clamped)[t] \in Floor(t)..Ceiling(t) /\ Floor(t) \in Nat /\ Ceiling(t) \in Nat
      BY <2>2, <2>3, ProjectedBounds, BoundsOfWeights DEF Terms
    <3>2. Project(clamped) = [t \in Terms |-> Project(clamped)[t]]
      BY <2>3 DEF Project
    <3> QED BY <3>1, <3>2
  <2> QED BY <2>1, <2>2, <2>3, <2>4, ProjectedBounds
<1> QED BY <1>1, <1>2

-----------------------------------------------------------------------------
(* Rank fusion *)

\* The longest list the proof of fusion allows a retriever (the shipped configuration
\* asks for 200).
LongestRanking == 900

IsRanking(ranking) ==
  /\ \E n \in 0..LongestRanking : DOMAIN ranking = 1..n
  /\ \A i, j \in DOMAIN ranking : ranking[i] = ranking[j] => i = j

LEMMA RankInList ==
  ASSUME NEW ranking, IsRanking(ranking), NEW x \in Range(ranking)
  PROVE  RankIn(ranking, x) \in Nat /\ 1 <= RankIn(ranking, x) /\ RankIn(ranking, x) <= LongestRanking
<1>1. \E i \in DOMAIN ranking : ranking[i] = x
  BY DEF Range
<1>2. RankIn(ranking, x) \in DOMAIN ranking
  BY <1>1 DEF RankIn
<1> QED BY <1>2 DEF IsRanking, LongestRanking

LEMMA ReciprocalGap ==
  ASSUME NEW i \in Nat, NEW j \in Nat, 1 <= i, i < j, j <= LongestRanking
  PROVE  /\ Reciprocal(i) \in Nat /\ Reciprocal(j) \in Nat
         /\ Reciprocal(j) + 100 <= Reciprocal(i)
<1> DEFINE a == 60 + i
           b == 60 + j
           p == 100000000 \div a
           q == 100000000 \div b
<1>1. a \in Nat \ {0} /\ b \in Nat \ {0} /\ a + 1 <= b /\ b <= 960
  BY SMT DEF LongestRanking
<1> HIDE DEF a, b
<1>2. /\ p \in Int /\ a * p <= 100000000 /\ 100000000 < a * p + a
      /\ q \in Int /\ b * q <= 100000000 /\ 100000000 < b * q + b
  BY SMT, <1>1, DivFacts
<1> HIDE DEF p, q
<1>3. a * p \in Int /\ b * q \in Int /\ a * q \in Int /\ a * 0 = 0 /\ a * (p + 1) = a * p + a /\ b * (q + 1) = b * q + b
  BY SMT, <1>1, <1>2
<1>4. q >= 104000
  <2> SUFFICES ASSUME q < 104000 PROVE FALSE
    BY SMT, <1>2
  <2>1. b * (q + 1) <= b * 104000
    BY SMT, <1>1, <1>2, ProductMonotone
  <2>2. b * 104000 <= 960 * 104000
    BY SMT, <1>1
  <2> QED BY SMT, <1>1, <1>2, <1>3, <2>1, <2>2
<1>5. q + 100 <= p
  <2> SUFFICES ASSUME p < q + 100 PROVE FALSE
    BY SMT, <1>2
  <2>1. a * (p + 1) <= a * (q + 100)
    BY SMT, <1>1, <1>2, ProductMonotone
  <2>2. a * (q + 100) = a * q + 100 * a
    BY SMT, <1>1, <1>2
  <2>3. a * q + q <= b * q
    <3>1. q * (a + 1) <= q * b
      BY SMT, <1>1, <1>2, <1>4, ProductMonotone
    <3>2. q * (a + 1) = a * q + q /\ q * b = b * q
      BY SMT, <1>1, <1>2
    <3> QED BY SMT, <3>1, <3>2
  <2> QED BY SMT, <1>1, <1>2, <1>3, <1>4, <2>1, <2>2, <2>3
<1>6. p \in Nat /\ q \in Nat
  BY SMT, <1>2, <1>4, <1>5
<1> QED BY SMT, <1>5, <1>6 DEF Reciprocal, a, b, p, q

LEMMA PartIsNat ==
  ASSUME NEW i \in Nat, 1 <= i, i <= LongestRanking
  PROVE  Reciprocal(i) \in Nat
<1> DEFINE a == 60 + i
           p == 100000000 \div a
<1>1. a \in Nat \ {0} /\ a < 100000000
  BY SMT DEF LongestRanking
<1> HIDE DEF a
<1>2. p \in Int /\ 100000000 < a * p + a
  BY SMT, <1>1, DivFacts
<1> HIDE DEF p
<1>3. a * 0 = 0 /\ a * p + a = a * (p + 1)
  BY SMT, <1>1, <1>2
<1>4. a * 0 < a * (p + 1)
  BY SMT, <1>1, <1>2, <1>3
<1>5. 0 < p + 1
  BY <1>1, <1>2, <1>4, ProductReflects
<1> QED BY SMT, <1>2, <1>5 DEF Reciprocal, p, a

\* A retriever's part of the score of x.
Parts(rankings, x) == [r \in FoundBy(rankings, x) |-> Reciprocal(RankIn(rankings[r], x))]

LEMMA PreferredScoresMore ==
  ASSUME NEW rankings, IsFiniteSet(DOMAIN rankings),
         \A r \in DOMAIN rankings : IsRanking(rankings[r]),
         NEW x, NEW y, FoundBy(rankings, y) # {},
         \A r \in FoundBy(rankings, y) :
           x \in Range(rankings[r]) /\ RankIn(rankings[r], x) < RankIn(rankings[r], y)
  PROVE  FusedScore(rankings, y) < FusedScore(rankings, x)
<1> DEFINE X == FoundBy(rankings, x)
           Y == FoundBy(rankings, y)
           px == Parts(rankings, x)
           py == Parts(rankings, y)
<1>1. Y \subseteq X /\ X \subseteq DOMAIN rankings
  BY DEF FoundBy
<1>2. IsFiniteSet(X) /\ IsFiniteSet(Y)
  BY <1>1, FS_Subset
<1>3. \A r \in X : px[r] \in Nat
  <2> TAKE r \in X
  <2>1. px[r] = Reciprocal(RankIn(rankings[r], x)) /\ x \in Range(rankings[r]) /\ IsRanking(rankings[r])
    BY DEF Parts, FoundBy
  <2> QED BY <2>1, RankInList, PartIsNat
<1>4. \A r \in Y : py[r] \in Nat /\ py[r] + 100 <= px[r]
  <2> TAKE r \in Y
  <2>1. /\ px[r] = Reciprocal(RankIn(rankings[r], x)) /\ x \in Range(rankings[r])
        /\ py[r] = Reciprocal(RankIn(rankings[r], y)) /\ y \in Range(rankings[r])
        /\ IsRanking(rankings[r]) /\ RankIn(rankings[r], x) < RankIn(rankings[r], y)
    BY <1>1 DEF Parts, FoundBy
  <2> QED BY <2>1, RankInList, ReciprocalGap
<1> DEFINE Sum(p, S) == SumFunctionOnSet(p, S)
<1>5. FusedScore(rankings, x) = Rounded(Sum(px, X), 100) /\ FusedScore(rankings, y) = Rounded(Sum(py, Y), 100)
  BY DEF FusedScore, SumFunction, Parts
<1> HIDE DEF X, Y, px, py
<1>6. Sum(px, Y) \in Nat /\ Sum(px, Y) <= Sum(px, X)
  BY <1>1, <1>2, <1>3, SumSubset
<1>7. PICK r \in Y : TRUE
  BY DEF Y
<1>8. Sum(px, Y) = px[r] + Sum(px, Y \ {r}) /\ Sum(py, Y) = py[r] + Sum(py, Y \ {r})
  BY <1>1, <1>2, <1>3, <1>4, SumRemove
<1>9. IsFiniteSet(Y \ {r})
  BY <1>2, FS_RemoveElement
<1>10. \A s \in Y \ {r} : py[s] \in Int /\ px[s] \in Int /\ py[s] <= px[s]
  BY <1>1, <1>3, <1>4
<1>11. Sum(py, Y \ {r}) <= Sum(px, Y \ {r})
  BY <1>9, <1>10, SumMonotone
<1>12. Sum(py, Y \ {r}) \in Int /\ Sum(px, Y \ {r}) \in Int /\ Sum(px, X) \in Int
  BY <1>2, <1>3, <1>9, <1>10, SumType
<1>13. px[r] \in Nat /\ py[r] \in Nat /\ py[r] + 100 <= px[r]
  BY <1>1, <1>3, <1>4
<1> HIDE DEF Sum
<1>14. Sum(py, Y) \in Int /\ Sum(py, Y) + 100 <= Sum(px, X)
  BY <1>6, <1>8, <1>11, <1>12, <1>13
<1>15. Rounded(Sum(py, Y), 100) < Rounded(Sum(px, X), 100)
  BY <1>12, <1>14 DEF Rounded
<1> QED BY <1>5, <1>15

LEMMA ScoreIsInt ==
  ASSUME NEW rankings, IsFiniteSet(DOMAIN rankings),
         \A r \in DOMAIN rankings : IsRanking(rankings[r]), NEW x
  PROVE  FusedScore(rankings, x) \in Int
<1> DEFINE X == FoundBy(rankings, x)
           px == Parts(rankings, x)
<1>1. IsFiniteSet(X)
  BY FS_Subset DEF FoundBy
<1>2. \A r \in X : px[r] \in Int
  <2> TAKE r \in X
  <2>1. px[r] = Reciprocal(RankIn(rankings[r], x)) /\ x \in Range(rankings[r]) /\ IsRanking(rankings[r])
    BY DEF Parts, FoundBy
  <2> QED BY <2>1, RankInList, PartIsNat
<1>3. FusedScore(rankings, x) = Rounded(SumFunctionOnSet(px, X), 100)
  BY DEF FusedScore, SumFunction, Parts
<1> HIDE DEF X, px
<1>4. SumFunctionOnSet(px, X) \in Int
  BY <1>1, <1>2, SumType
<1>5. 100 \in Nat \ {0}
  OBVIOUS
<1> QED BY <1>3, <1>4, <1>5, RoundedFacts

LEMMA RangeFinite ==
  ASSUME NEW ranking, IsRanking(ranking)
  PROVE  IsFiniteSet(Range(ranking))
<1>1. PICK n \in 0..LongestRanking : DOMAIN ranking = 1..n
  BY DEF IsRanking
<1>2. IsFiniteSet(1..n)
  BY FS_Interval DEF LongestRanking
<1> DEFINE f == [i \in 1..n |-> ranking[i]]
<1>3. f \in Surjection(1..n, Range(ranking))
  BY <1>1 DEF Surjection, Range
<1> QED BY <1>2, <1>3, FS_Surjection

LEMMA UnionFinite ==
  ASSUME NEW rankings, IsFiniteSet(DOMAIN rankings),
         \A r \in DOMAIN rankings : IsRanking(rankings[r])
  PROVE  IsFiniteSet(UNION {Range(rankings[r]) : r \in DOMAIN rankings})
<1> DEFINE Found(T) == UNION {Range(rankings[r]) : r \in T}
           Q == {T \in SUBSET DOMAIN rankings : IsFiniteSet(Found(T))}
<1>1. {} \in Q
  <2>1. Found({}) = {}
    OBVIOUS
  <2> QED BY <2>1, FS_EmptySet
<1>2. ASSUME NEW T \in SUBSET DOMAIN rankings, NEW r \in DOMAIN rankings, T \in Q, r \notin T
      PROVE  T \cup {r} \in Q
  <2>1. Found(T \cup {r}) = Found(T) \cup Range(rankings[r])
    OBVIOUS
  <2>2. IsFiniteSet(Found(T)) /\ IsFiniteSet(Range(rankings[r]))
    BY <1>2, RangeFinite
  <2> HIDE DEF Found
  <2>3. IsFiniteSet(Found(T \cup {r}))
    BY <2>1, <2>2, FS_Union
  <2> QED BY <2>3
<1>3. DOMAIN rankings \in Q
  <2> HIDE DEF Q
  <2> QED BY <1>1, <1>2, SetsByElements
<1> QED BY <1>3

\* reciprocal_rank_fusion: what every retriever that found y places ahead of y is fused
\* ahead of it, however many retrievers there are and whatever else they found.
THEOREM PreferredIsPlacedFirst ==
  ASSUME NEW rankings, IsFiniteSet(DOMAIN rankings),
         \A r \in DOMAIN rankings : IsRanking(rankings[r]),
         NEW x \in Int, NEW y \in Int, FoundBy(rankings, y) # {},
         \A r \in FoundBy(rankings, y) :
           x \in Range(rankings[r]) /\ RankIn(rankings[r], x) < RankIn(rankings[r], y)
  PROVE  FusedPlace(rankings, x) < FusedPlace(rankings, y)
<1> DEFINE found == UNION {Range(rankings[r]) : r \in DOMAIN rankings}
           score == [z \in found |-> FusedScore(rankings, z)]
           Ahead(u) == {z \in found : score[z] > score[u] \/ (score[z] = score[u] /\ z < u)}
<1>1. FusedPlace(rankings, x) = 1 + Cardinality(Ahead(x)) /\ FusedPlace(rankings, y) = 1 + Cardinality(Ahead(y))
  BY DEF FusedPlace
<1>2. x \in found /\ y \in found
  BY DEF FoundBy
<1>3. score[y] < score[x]
  BY <1>2, PreferredScoresMore
<1>4. \A z \in found : score[z] \in Int
  BY ScoreIsInt
<1>5. IsFiniteSet(found)
  BY UnionFinite
<1> HIDE DEF score, found
<1>6. Ahead(x) \subseteq Ahead(y) \ {x} /\ x \in Ahead(y)
  <2>1. x \notin Ahead(x) /\ x \in Ahead(y)
    <3>1. score[x] \in Int /\ score[y] \in Int
      BY <1>2, <1>4
    <3> QED BY <1>2, <1>3, <3>1
  <2>2. ASSUME NEW z \in Ahead(x) PROVE z \in Ahead(y)
    <3>1. z \in found /\ score[z] \in Int /\ score[x] \in Int /\ score[y] \in Int
      BY <1>2, <1>4
    <3>2. score[z] > score[x] \/ score[z] = score[x]
      OBVIOUS
    <3>3. score[z] > score[y]
      BY <1>3, <3>1, <3>2
    <3> QED BY <3>1, <3>3
  <2> QED BY <2>1, <2>2
<1>7. IsFiniteSet(Ahead(x)) /\ IsFiniteSet(Ahead(y))
  BY <1>5, FS_Subset
<1> HIDE DEF Ahead
<1>8. Cardinality(Ahead(y) \ {x}) = Cardinality(Ahead(y)) - 1 /\ IsFiniteSet(Ahead(y) \ {x})
  BY <1>6, <1>7, FS_RemoveElement
<1>9. Cardinality(Ahead(x)) <= Cardinality(Ahead(y) \ {x})
  BY <1>6, <1>8, FS_Subset
<1>10. Cardinality(Ahead(x)) \in Nat /\ Cardinality(Ahead(y)) \in Nat
  BY <1>7, FS_CardinalityType
<1> QED BY <1>1, <1>8, <1>9, <1>10

-----------------------------------------------------------------------------
(* Standing in a pool *)

\* A better total stands better, in rank and in percentile, in every pool of at most ten
\* thousand.
LEMMA BetterStandsBetter ==
  ASSUME NEW n \in Nat, n <= One, NEW pool \in [1..n -> Nat], NEW i \in 1..n, NEW j \in 1..n
  PROVE  pool[i] < pool[j] <=> /\ RankOf(pool[i], pool) > RankOf(pool[j], pool)
                               /\ Percentile(pool[i], pool) < Percentile(pool[j], pool)
<1> DEFINE Over(a) == {k \in DOMAIN pool : pool[k] > a}
           Under(a) == {k \in DOMAIN pool : pool[k] < a}
           a == pool[i]
           b == pool[j]
<1>1. DOMAIN pool = 1..n /\ IsFiniteSet(DOMAIN pool) /\ Cardinality(DOMAIN pool) = n /\ n \in Nat \ {0}
  BY FS_Interval
<1>2. \A c \in Nat : /\ IsFiniteSet(Over(c)) /\ Cardinality(Over(c)) \in Nat
                     /\ IsFiniteSet(Under(c)) /\ Cardinality(Under(c)) \in Nat
  BY <1>1, FS_Subset, FS_CardinalityType
<1>3. a \in Nat /\ b \in Nat
  OBVIOUS
<1>7. RankOf(a, pool) = 1 + Cardinality(Over(a)) /\ RankOf(b, pool) = 1 + Cardinality(Over(b))
  BY DEF RankOf
<1>4. ASSUME a < b
      PROVE  RankOf(a, pool) > RankOf(b, pool) /\ Percentile(a, pool) < Percentile(b, pool)
  <2>1. Over(b) \subseteq Over(a) \ {j} /\ j \in Over(a)
    BY <1>1, <1>3, <1>4
  <2>2. Under(a) \subseteq Under(b) \ {i} /\ i \in Under(b)
    BY <1>1, <1>3, <1>4
  <2> HIDE DEF Over, Under, a, b
  <2>3. Cardinality(Over(b)) + 1 <= Cardinality(Over(a))
    <3>1. IsFiniteSet(Over(a) \ {j}) /\ Cardinality(Over(a) \ {j}) = Cardinality(Over(a)) - 1
      BY <1>2, <1>3, <2>1, FS_RemoveElement
    <3>2. Cardinality(Over(b)) <= Cardinality(Over(a) \ {j})
      BY <2>1, <3>1, FS_Subset
    <3> QED BY <1>2, <1>3, <3>1, <3>2
  <2>4. Cardinality(Under(a)) + 1 <= Cardinality(Under(b))
    <3>1. IsFiniteSet(Under(b) \ {i}) /\ Cardinality(Under(b) \ {i}) = Cardinality(Under(b)) - 1
      BY <1>2, <1>3, <2>2, FS_RemoveElement
    <3>2. Cardinality(Under(a)) <= Cardinality(Under(b) \ {i})
      BY <2>2, <3>1, FS_Subset
    <3> QED BY <1>2, <1>3, <3>1, <3>2
  <2>5. RankOf(a, pool) > RankOf(b, pool)
    BY <1>2, <1>3, <1>7, <2>3
  <2>6. Rounded(One * Cardinality(Under(a)), n) < Rounded(One * Cardinality(Under(b)), n)
    <3> DEFINE x == Cardinality(Under(a))
               y == Cardinality(Under(b))
    <3>1. x \in Nat /\ y \in Nat /\ x + 1 <= y
      BY <1>2, <1>3, <2>4
    <3> HIDE DEF x, y
    <3>2. One * x \in Int /\ One * y \in Int /\ One * x + n <= One * y
      BY SMT, <3>1 DEF One
    <3>3. Rounded(One * x, n) < Rounded(One * y, n)
      BY <1>1, <3>2, RoundedStrict
    <3> QED BY <3>3 DEF x, y
  <2>7. Percentile(a, pool) < Percentile(b, pool)
    BY <1>1, <2>6 DEF Percentile, Under
  <2> QED BY <2>5, <2>7
<1>5. ASSUME ~(a < b)
      PROVE  RankOf(a, pool) <= RankOf(b, pool)
  <2>1. Over(a) \subseteq Over(b)
    BY <1>1, <1>3, <1>5
  <2> HIDE DEF Over, Under, a, b
  <2>2. Cardinality(Over(a)) <= Cardinality(Over(b))
    BY <1>2, <1>3, <2>1, FS_Subset
  <2> QED BY <1>2, <1>3, <1>7, <2>2
<1>6. RankOf(a, pool) \in Nat /\ RankOf(b, pool) \in Nat
  <2>1. Cardinality(Over(a)) \in Nat /\ Cardinality(Over(b)) \in Nat
    BY <1>2, <1>3
  <2> HIDE DEF a, b, Over
  <2> QED BY <1>7, <2>1
<1> QED BY <1>4, <1>5, <1>6

-----------------------------------------------------------------------------
(* The score of a fit *)

NeedType == [skills : SUBSET Skills, must : BOOLEAN, nearest : 0..One]
Fits ==
  [kind : {"score"}, held : SUBSET Skills,
   needs : {<<>>} \cup UNION {[1..n -> NeedType] : n \in Nat \ {0}}, bullets : BOOLEAN,
   level : Int, asked : Int, raw : Int, pool : SUBSET Int, age : Nat \cup {Unstated},
   weights : [Terms -> Nat]]
RawInPool(s) ==
  s.pool # {} =>
    Min(s.pool) \in Int /\ Max(s.pool) \in Int /\ Min(s.pool) <= s.raw /\ s.raw <= Max(s.pool)

LEMMA TotalMonotone ==
  ASSUME NEW weights \in [Terms -> Nat], NEW sub, NEW more, NEW u, NEW v,
         \A t \in Terms : sub[t] \in Nat /\ more[t] \in Nat,
         v \subseteq u, \A t \in Terms \ u : sub[t] <= more[t]
  PROVE  Total(sub, weights, u) <= Total(more, weights, v)
<1> DEFINE A == Terms \ u
           B == Terms \ v
           F == Weighted(sub, weights)
           G == Weighted(more, weights)
<1>1. A \in SUBSET B /\ A \subseteq Terms /\ B \subseteq Terms /\ IsFiniteSet(A) /\ IsFiniteSet(B)
  BY TermsFinite, FS_Subset
<1>2. One \in Nat \ {0}
  BY DEF One
<1>3. ASSUME NEW t \in Terms
      PROVE  F[t] \in Nat /\ G[t] \in Nat /\ (sub[t] <= more[t] => F[t] <= G[t])
  <2>1. weights[t] \in Nat /\ sub[t] \in Nat /\ more[t] \in Nat
    OBVIOUS
  <2>2. weights[t] * sub[t] \in Nat /\ weights[t] * more[t] \in Nat
    BY <2>1
  <2>3. F[t] = Rounded(weights[t] * sub[t], One) /\ G[t] = Rounded(weights[t] * more[t], One)
    BY DEF Weighted
  <2>4. ASSUME NEW p \in Nat PROVE Rounded(p, One) \in Nat
    <3>1. p <= One * p /\ 0 <= p
      BY SMT, <2>4 DEF One
    <3> QED BY <1>2, <3>1, RoundedWithin
  <2>5. F[t] \in Nat /\ G[t] \in Nat
    BY <2>2, <2>3, <2>4
  <2>6. ASSUME sub[t] <= more[t] PROVE F[t] <= G[t]
    <3>1. weights[t] * sub[t] <= weights[t] * more[t]
      BY <2>1, <2>6, ProductMonotone
    <3> QED BY <1>2, <2>2, <2>3, <3>1, RoundedMonotone
  <2> QED BY <2>5, <2>6
<1> DEFINE a == SumFunctionOnSet(F, A)
           c == SumFunctionOnSet(G, A)
           b == SumFunctionOnSet(G, B)
<1>4. Total(sub, weights, u) = Min({One, a}) /\ Total(more, weights, v) = Min({One, b})
  BY DEF Total
<1> HIDE DEF F, G
<1>5. a <= c
  <2>1. \A t \in A : F[t] \in Int /\ G[t] \in Int /\ F[t] <= G[t]
    BY <1>1, <1>3
  <2> HIDE DEF A
  <2> QED BY <1>1, <2>1, SumMonotone
<1>6. c \in Nat /\ c <= b
  <2>1. \A t \in B : G[t] \in Nat
    BY <1>1, <1>3
  <2> HIDE DEF A, B
  <2> QED BY <1>1, <2>1, SumSubset
<1>7. a \in Int /\ b \in Int
  <2>1. (\A t \in A : F[t] \in Int) /\ (\A t \in B : G[t] \in Int)
    BY <1>1, <1>3
  <2> HIDE DEF A, B
  <2> QED BY <1>1, <2>1, SumType
<1> HIDE DEF a, b, c
<1> QED BY <1>2, <1>4, <1>5, <1>6, <1>7, MinOfTwo

LEMMA TotalBounded ==
  ASSUME NEW weights \in [Terms -> Nat], NEW sub, NEW u,
         \A t \in Terms : sub[t] \in Nat /\ sub[t] <= One
  PROVE  Total(sub, weights, u) <= Assessed(weights, u)
<1> DEFINE A == Terms \ u
           F == Weighted(sub, weights)
<1>1. IsFiniteSet(A) /\ A \subseteq Terms
  BY TermsFinite, FS_Subset
<1>2. One \in Nat \ {0}
  BY DEF One
<1>3. ASSUME NEW t \in Terms PROVE F[t] \in Int /\ F[t] <= weights[t]
  <2>1. weights[t] \in Nat /\ sub[t] \in Nat /\ sub[t] <= One
    OBVIOUS
  <2>2. weights[t] * sub[t] \in Nat /\ 0 <= weights[t] * sub[t]
    BY <2>1
  <2>3. weights[t] * sub[t] <= weights[t] * One
    BY <1>2, <2>1, ProductMonotone
  <2>4. weights[t] * One = One * weights[t]
    BY <1>2, <2>1
  <2>5. Rounded(weights[t] * sub[t], One) \in 0..weights[t]
    BY <1>2, <2>1, <2>2, <2>3, <2>4, RoundedWithin
  <2> QED BY <2>1, <2>5 DEF Weighted
<1> DEFINE a == SumFunctionOnSet(F, A)
           b == SumFunctionOnSet(weights, A)
<1>4. Total(sub, weights, u) = Min({One, a}) /\ Assessed(weights, u) = b
  BY DEF Total, Assessed
<1> HIDE DEF F
<1>5. \A t \in A : F[t] \in Int /\ weights[t] \in Int /\ F[t] <= weights[t]
  BY <1>1, <1>3
<1> HIDE DEF A
<1>6. a <= b /\ a \in Int /\ b \in Int
  BY <1>1, <1>5, SumMonotone, SumType
<1> HIDE DEF a, b
<1> QED BY <1>2, <1>4, <1>6, MinOfTwo

LEMMA NeedsAreListed ==
  ASSUME NEW s \in Fits
  PROVE  /\ IsFiniteSet(DOMAIN s.needs) /\ SkillNeeds(s.needs) \subseteq DOMAIN s.needs
         /\ s.needs # <<>> => Cardinality(DOMAIN s.needs) \in Nat \ {0}
         /\ \A i \in DOMAIN s.needs : s.needs[i] \in NeedType
<1>1. SkillNeeds(s.needs) \subseteq DOMAIN s.needs
  BY DEF SkillNeeds
<1>2. CASE s.needs = <<>>
  BY <1>1, <1>2, FS_EmptySet
<1>3. CASE s.needs # <<>>
  <2>1. PICK n \in Nat \ {0} : s.needs \in [1..n -> NeedType]
    BY <1>3 DEF Fits
  <2>2. DOMAIN s.needs = 1..n
    BY <2>1
  <2>3. IsFiniteSet(1..n) /\ Cardinality(1..n) = n
    BY FS_Interval
  <2> QED BY <1>1, <2>1, <2>2, <2>3
<1> QED BY <1>2, <1>3

\* Of the weight of the needs, the weight of the needs met, whatever is held besides.
LEMMA CoverageFacts ==
  ASSUME NEW s \in Fits, NEW held, NEW wider, held \subseteq wider
  PROVE  /\ SkillCoverage(held, s.needs) \in Nat /\ SkillCoverage(held, s.needs) <= One
         /\ SkillCoverage(held, s.needs) <= SkillCoverage(wider, s.needs)
<1> DEFINE F == [i \in DOMAIN s.needs |-> NeedWeight(s.needs[i])]
           all == SkillNeeds(s.needs)
           Met(h) == {i \in all : s.needs[i].skills \cap h # {}}
           Sum(S) == SumFunctionOnSet(F, S)
<1>1. IsFiniteSet(all) /\ all \subseteq DOMAIN s.needs
  BY NeedsAreListed, FS_Subset
<1>2. \A i \in all : F[i] \in Nat /\ F[i] >= 1
  BY <1>1 DEF NeedWeight
<1>3. Met(held) \in SUBSET Met(wider) /\ Met(wider) \in SUBSET all
  OBVIOUS
<1>4. CASE all = {}
  BY <1>4 DEF SkillCoverage, One
<1>5. CASE all # {}
  <2>1. /\ SkillCoverage(held, s.needs) = Rounded(One * Sum(Met(held)), Sum(all))
        /\ SkillCoverage(wider, s.needs) = Rounded(One * Sum(Met(wider)), Sum(all))
    BY <1>5 DEF SkillCoverage
  <2> HIDE DEF F, Met, all
  <2>2. /\ Sum(Met(wider)) \in Nat /\ Sum(Met(wider)) <= Sum(all)
    BY <1>1, <1>2, <1>3, SumSubset
  <2>3. /\ Sum(Met(held)) \in Nat /\ Sum(Met(held)) <= Sum(Met(wider))
    BY <1>1, <1>2, <1>3, FS_Subset, SumSubset
  <2>4. Sum(all) \in Nat \ {0}
    <3>1. PICK i \in all : TRUE
      BY <1>5
    <3>2. Sum(all) = F[i] + Sum(all \ {i})
      BY <1>1, <1>2, SumRemove
    <3>3. Sum(all \ {i}) \in Nat
      BY <1>1, <1>2, SumSubset
    <3> QED BY <1>2, <3>2, <3>3
  <2> DEFINE h == Sum(Met(held))
             w == Sum(Met(wider))
             n == Sum(all)
  <2> HIDE DEF h, w, n
  <2>5. h \in Nat /\ w \in Nat /\ n \in Nat \ {0} /\ h <= w /\ w <= n
    BY <2>2, <2>3, <2>4 DEF h, w, n
  <2>6. /\ One * h \in Int /\ One * w \in Int /\ One * h <= One * w
        /\ 0 <= One * h /\ One * h <= n * One /\ One \in Nat
    BY SMT, <2>5 DEF One
  <2>7. Rounded(One * h, n) \in 0..One /\ Rounded(One * h, n) <= Rounded(One * w, n)
    BY <2>5, <2>6, RoundedWithin, RoundedMonotone
  <2> QED BY <2>1, <2>6, <2>7 DEF h, w, n
<1> QED BY <1>4, <1>5

LEMMA PowerOfTwo ==
  ASSUME NEW n \in Nat
  PROVE  2 ^ n \in Nat \ {0}
<1>1. IsFiniteSet(1..n) /\ Cardinality(1..n) = n
  BY FS_Interval
<1>2. IsFiniteSet(SUBSET (1..n)) /\ Cardinality(SUBSET (1..n)) = 2 ^ n
  BY <1>1, FS_SUBSET
<1>3. SUBSET (1..n) # {}
  OBVIOUS
<1>4. Cardinality(SUBSET (1..n)) \in Nat /\ Cardinality(SUBSET (1..n)) # 0
  BY <1>2, <1>3, FS_EmptySet, FS_CardinalityType
<1> QED BY <1>2, <1>4

LEMMA SubscoresInRange ==
  ASSUME NEW s \in Fits, RawInPool(s)
  PROVE  \A t \in Terms : Subscores(s)[t] \in Nat /\ Subscores(s)[t] <= One
<1>1. SkillCoverage(s.held, s.needs) \in Nat /\ SkillCoverage(s.held, s.needs) <= One
  BY CoverageFacts
<1>2. RequirementAlignment(s.needs, s.bullets) \in Nat /\ RequirementAlignment(s.needs, s.bullets) <= One
  <2> DEFINE F == [i \in DOMAIN s.needs |-> s.needs[i].nearest]
             D == DOMAIN s.needs
             n == Cardinality(D)
  <2>1. CASE s.needs = <<>> \/ ~s.bullets
    BY <2>1 DEF RequirementAlignment, One
  <2>2. CASE s.needs # <<>> /\ s.bullets
    <3>1. RequirementAlignment(s.needs, s.bullets) = Rounded(SumFunctionOnSet(F, D), n)
      BY <2>2 DEF RequirementAlignment, SumFunction
    <3>2. \A i \in D : F[i] \in Nat /\ F[i] <= One
      <4> TAKE i \in D
      <4>1. F[i] = s.needs[i].nearest /\ s.needs[i] \in NeedType
        BY NeedsAreListed
      <4>2. s.needs[i].nearest \in 0..One
        BY <4>1 DEF NeedType
      <4> HIDE DEF F
      <4>3. One \in Nat
        BY DEF One
      <4> QED BY <4>1, <4>2, <4>3
    <3>3. IsFiniteSet(D) /\ n \in Nat \ {0}
      BY <2>2, NeedsAreListed
    <3> HIDE DEF F, D, n
    <3> DEFINE a == SumFunctionOnSet(F, D)
    <3>4. a \in Nat /\ a <= One * n
      BY <3>2, <3>3, SumBounded DEF n
    <3> HIDE DEF a
    <3>5. 0 <= a /\ a <= n * One /\ One \in Nat
      BY SMT, <3>3, <3>4 DEF One
    <3>6. Rounded(a, n) \in 0..One
      BY <3>3, <3>4, <3>5, RoundedWithin
    <3> QED BY <3>1, <3>5, <3>6 DEF a
  <2> QED BY <2>1, <2>2
<1>3. SeniorityFit(s.level, s.asked) \in Nat /\ SeniorityFit(s.level, s.asked) <= One
  <2> DEFINE d == s.asked - s.level
  <2>0. d \in Int
    BY DEF Fits
  <2>1. \/ SeniorityFit(s.level, s.asked) = 7000
        \/ d >= 0 /\ SeniorityFit(s.level, s.asked) = Max({0, One - 3000 * d})
        \/ d < 0 /\ SeniorityFit(s.level, s.asked) = Max({0, One + 1500 * d})
    BY <2>0 DEF SeniorityFit
  <2> HIDE DEF d
  <2>2. /\ One - 3000 * d \in Int /\ One + 1500 * d \in Int /\ One \in Nat /\ 7000 <= One
        /\ d >= 0 => One - 3000 * d <= One
        /\ d < 0 => One + 1500 * d <= One
    BY SMT, <2>0 DEF One
  <2>3. ASSUME NEW x \in Int, x <= One PROVE Max({0, x}) \in Nat /\ Max({0, x}) <= One
    <3>1. Max({0, x}) = IF 0 <= x THEN x ELSE 0
      BY MinOfTwo
    <3> QED BY <2>2, <2>3, <3>1
  <2> QED BY <2>1, <2>2, <2>3
<1>4. NormalizeSemantic(s.raw, s.pool) \in Nat /\ NormalizeSemantic(s.raw, s.pool) <= One
  <2>1. CASE s.pool = {} \/ Max(s.pool) = Min(s.pool)
    BY SMT, <2>1 DEF NormalizeSemantic, One
  <2>2. CASE s.pool # {} /\ Max(s.pool) # Min(s.pool)
    <3> DEFINE a == s.raw - Min(s.pool)
               b == Max(s.pool) - Min(s.pool)
    <3>1. a \in Nat /\ b \in Nat \ {0} /\ a <= b
      BY <2>2 DEF RawInPool, Fits
    <3>2. NormalizeSemantic(s.raw, s.pool) = Rounded(One * a, b)
      BY <2>2 DEF NormalizeSemantic
    <3> HIDE DEF a, b
    <3>3. One * a \in Int /\ 0 <= One * a /\ One * a <= b * One /\ One \in Nat
      BY SMT, <3>1 DEF One
    <3>4. Rounded(One * a, b) \in 0..One
      BY <3>1, <3>3, RoundedWithin
    <3> QED BY <3>2, <3>3, <3>4
  <2> QED BY <2>1, <2>2
<1>5. Freshness(s.age) \in Nat /\ Freshness(s.age) <= One
  <2>1. CASE s.age = Unstated
    BY SMT, <2>1 DEF Freshness, One
  <2>2. CASE s.age # Unstated
    <3> DEFINE b == 2 ^ s.age
               q == One \div b
    <3>1. b \in Nat \ {0} /\ Freshness(s.age) = q
      BY <2>2, PowerOfTwo DEF Fits, Freshness
    <3> HIDE DEF b
    <3>2. q \in Int /\ b * q <= One /\ One < b * q + b
      BY <3>1, DivFacts DEF One
    <3> HIDE DEF q
    <3>3. b * q + b = b * (q + 1) /\ b * 0 = 0 /\ One \in Nat /\ One > 0
      BY SMT, <3>1, <3>2 DEF One
    <3>4. 0 < q + 1
      <4>1. b * 0 < b * (q + 1)
        BY <3>1, <3>2, <3>3
      <4> QED BY <3>1, <3>2, <4>1, ProductReflects
    <3>5. q <= b * q
      BY <3>1, <3>2, <3>4
    <3> QED BY <3>1, <3>2, <3>3, <3>4, <3>5
  <2> QED BY <2>1, <2>2
<1> QED BY <1>1, <1>2, <1>3, <1>4, <1>5 DEF Subscores, Terms

LEMMA ScoreOfMore ==
  ASSUME NEW s \in Fits, RawInPool(s), NEW r \in Fits, RawInPool(r), r.weights = s.weights,
         Unavailable(r) \subseteq Unavailable(s),
         \A t \in Terms \ Unavailable(s) : Subscores(s)[t] <= Subscores(r)[t]
  PROVE  Score(s) <= Score(r)
<1>1. s.weights \in [Terms -> Nat]
  BY DEF Fits
<1>2. \A t \in Terms : Subscores(s)[t] \in Nat /\ Subscores(r)[t] \in Nat
  BY SubscoresInRange
<1> DEFINE a == Subscores(s)
           b == Subscores(r)
           u == Unavailable(s)
           v == Unavailable(r)
<1>3. Score(s) = Total(a, s.weights, u) /\ Score(r) = Total(b, s.weights, v)
  BY DEF Score
<1>4. /\ \A t \in Terms : a[t] \in Nat /\ b[t] \in Nat
      /\ v \subseteq u /\ \A t \in Terms \ u : a[t] <= b[t]
  BY <1>2
<1> HIDE DEF a, b, u, v
<1> QED BY <1>1, <1>3, <1>4, TotalMonotone

\* subscores.py and aggregate(): holding more, having bullets to show, or being read at all
\* never costs a point, and no score is above what could be assessed.
THEOREM FitScoresMonotone ==
  ASSUME NEW s \in Fits, RawInPool(s)
  PROVE  /\ \A x \in Skills : Score([s EXCEPT !.held = @ \cup {x}]) >= Score(s)
         /\ Score([s EXCEPT !.bullets = TRUE]) >= Score(s)
         /\ Score([s EXCEPT !.needs = <<>>]) <= Score(s)
         /\ Score(s) <= Assessed(s.weights, Unavailable(s))
<1>1. ASSUME NEW x \in Skills PROVE Score([s EXCEPT !.held = @ \cup {x}]) >= Score(s)
  <2> DEFINE r == [s EXCEPT !.held = @ \cup {x}]
  <2>1. /\ r \in Fits /\ r.held = s.held \cup {x} /\ r.needs = s.needs /\ r.bullets = s.bullets
        /\ r.level = s.level /\ r.asked = s.asked /\ r.raw = s.raw /\ r.pool = s.pool
        /\ r.age = s.age /\ r.weights = s.weights
    BY DEF Fits
  <2> HIDE DEF r
  <2>2. RawInPool(r) /\ Unavailable(r) = Unavailable(s)
    BY <2>1 DEF RawInPool, Unavailable
  <2>3. SkillCoverage(s.held, s.needs) <= SkillCoverage(r.held, s.needs)
    BY <2>1, CoverageFacts
  <2>4. \A t \in Terms : Subscores(s)[t] <= Subscores(r)[t]
    <3>1. \A t \in Terms : Subscores(s)[t] \in Nat
      BY SubscoresInRange
    <3>2. \A t \in Terms \ {"skill_coverage"} : Subscores(r)[t] = Subscores(s)[t]
      BY <2>1 DEF Subscores, Terms
    <3>3. /\ Subscores(s)["skill_coverage"] = SkillCoverage(s.held, s.needs)
          /\ Subscores(r)["skill_coverage"] = SkillCoverage(r.held, s.needs)
      BY <2>1 DEF Subscores
    <3> QED BY <2>3, <3>1, <3>2, <3>3
  <2>5. Score(s) <= Score(r)
    BY <2>1, <2>2, <2>4, ScoreOfMore
  <2> QED BY <2>5 DEF r
<1>2. Score([s EXCEPT !.bullets = TRUE]) >= Score(s)
  <2> DEFINE r == [s EXCEPT !.bullets = TRUE]
  <2>1. /\ r \in Fits /\ r.held = s.held /\ r.needs = s.needs /\ r.bullets = TRUE
        /\ r.level = s.level /\ r.asked = s.asked /\ r.raw = s.raw /\ r.pool = s.pool
        /\ r.age = s.age /\ r.weights = s.weights
    BY DEF Fits
  <2> HIDE DEF r
  <2>2. RawInPool(r) /\ Unavailable(r) \subseteq Unavailable(s)
    BY <2>1 DEF RawInPool, Unavailable
  <2>3. \A t \in Terms \ Unavailable(s) : Subscores(s)[t] <= Subscores(r)[t]
    <3>1. \A t \in Terms : Subscores(s)[t] \in Nat
      BY SubscoresInRange
    <3>2. \A t \in Terms \ {"requirement_alignment"} : Subscores(r)[t] = Subscores(s)[t]
      BY <2>1 DEF Subscores, Terms
    <3>3. "requirement_alignment" \notin Unavailable(s) => s.bullets
      BY DEF Unavailable
    <3>4. s.bullets => Subscores(r)["requirement_alignment"] = Subscores(s)["requirement_alignment"]
      BY <2>1 DEF Subscores, RequirementAlignment
    <3> QED BY <3>1, <3>2, <3>3, <3>4
  <2>4. Score(s) <= Score(r)
    BY <2>1, <2>2, <2>3, ScoreOfMore
  <2> QED BY <2>4 DEF r
<1>3. Score([s EXCEPT !.needs = <<>>]) <= Score(s)
  <2> DEFINE r == [s EXCEPT !.needs = <<>>]
  <2>1. /\ r \in Fits /\ r.held = s.held /\ r.needs = <<>> /\ r.bullets = s.bullets
        /\ r.level = s.level /\ r.asked = s.asked /\ r.raw = s.raw /\ r.pool = s.pool
        /\ r.age = s.age /\ r.weights = s.weights
    BY DEF Fits
  <2> HIDE DEF r
  <2>2. SkillNeeds(r.needs) = {}
    BY <2>1 DEF SkillNeeds
  <2>3. /\ RawInPool(r) /\ Unavailable(s) \subseteq Unavailable(r)
        /\ Unavailable(r) = {"skill_coverage", "requirement_alignment"}
    BY <2>1, <2>2 DEF RawInPool, Unavailable
  <2>4. \A t \in Terms \ Unavailable(r) : Subscores(r)[t] <= Subscores(s)[t]
    <3>1. \A t \in Terms : Subscores(s)[t] \in Nat
      BY SubscoresInRange
    <3>2. \A t \in Terms \ {"skill_coverage", "requirement_alignment"} :
            Subscores(r)[t] = Subscores(s)[t]
      BY <2>1 DEF Subscores, Terms
    <3> QED BY <2>3, <3>1, <3>2
  <2>5. Score(r) <= Score(s)
    BY <2>1, <2>3, <2>4, ScoreOfMore
  <2> QED BY <2>5 DEF r
<1>4. Score(s) <= Assessed(s.weights, Unavailable(s))
  <2>1. s.weights \in [Terms -> Nat]
    BY DEF Fits
  <2>2. \A t \in Terms : Subscores(s)[t] \in Nat /\ Subscores(s)[t] <= One
    BY SubscoresInRange
  <2> DEFINE a == Subscores(s)
  <2>3. \A t \in Terms : a[t] \in Nat /\ a[t] <= One
    BY <2>2
  <2> HIDE DEF a
  <2>4. Total(a, s.weights, Unavailable(s)) <= Assessed(s.weights, Unavailable(s))
    BY <2>1, <2>3, TotalBounded
  <2> QED BY <2>4 DEF Score, a
<1> QED BY <1>1, <1>2, <1>3, <1>4

-----------------------------------------------------------------------------
(* Gates *)

Rows ==
  [years : Int, countries : SUBSET Countries, places : SUBSET Places, authorised : SUBSET Countries,
   unauthorised : SUBSET Countries, remote : BOOLEAN, languages : {<<>>} \cup [{"de"} -> Nat]]
IsPosting(p) == p.years \in Int /\ \A l \in DOMAIN p.languages : p.languages[l] \in Int

LEMMA FailuresShrink ==
  ASSUME NEW c, NEW d, NEW p,
         (WorkAuthorizationOk(c, p) => WorkAuthorizationOk(d, p)),
         (LocationOk(c, p) => LocationOk(d, p)),
         (SeniorityOk(c, p) => SeniorityOk(d, p)),
         (LanguageOk(c, p) => LanguageOk(d, p))
  PROVE  GateFailures(d, p) \subseteq GateFailures(c, p)
<1> DEFINE names == {"work_authorization", "location", "seniority_floor", "language", "freshness",
                     "unverified_url"}
<1>1. DOMAIN Gates(c, p) = names /\ DOMAIN Gates(d, p) = names
  BY DEF Gates
<1>2. ASSUME NEW g \in names PROVE Gates(c, p)[g] => Gates(d, p)[g]
  BY DEF Gates
<1> HIDE DEF names
<1> QED BY <1>1, <1>2 DEF GateFailures

\* What StatedMore changes of a loaded row, with what it leaves as it is.
LEMMA LoadedFields ==
  ASSUME NEW row \in Rows
  PROVE  /\ LoadCandidate(row).years = IF row.years = 0 THEN Unstated ELSE row.years
         /\ LoadCandidate(row).countries = row.countries \cup row.authorised \cup row.unauthorised
         /\ LoadCandidate(row).places = row.places
         /\ LoadCandidate(row).authorised = row.authorised
         /\ LoadCandidate(row).remote = row.remote
         /\ LoadCandidate(row).languages = row.languages
BY DEF LoadCandidate, Rows

LEMMA MoreCountriesPass ==
  ASSUME NEW c, NEW d, NEW p, c.countries # {}, c.countries \subseteq d.countries,
         d.remote = c.remote, d.places = c.places
  PROVE  (LocationOk(c, p) => LocationOk(d, p))
BY DEF LocationOk

LEMMA MorePlacesPass ==
  ASSUME NEW c, NEW d, NEW p, c.places # {}, c.places \subseteq d.places,
         d.remote = c.remote, d.countries = c.countries
  PROVE  (LocationOk(c, p) => LocationOk(d, p))
BY DEF LocationOk

\* evaluate_gates: stating more never fails a gate that was passed.
THEOREM MoreStatedPasses ==
  ASSUME NEW row \in Rows, NEW p, IsPosting(p), NEW more \in StatedMore(row)
  PROVE  GateFailures(LoadCandidate(more), p) \subseteq GateFailures(LoadCandidate(row), p)
<1> DEFINE c == LoadCandidate(row)
           d == LoadCandidate(more)
<1>1. \/ \E y \in row.years..8 : row.years > 0 /\ more = [row EXCEPT !.years = y]
      \/ more = [row EXCEPT !.remote = TRUE]
      \/ \E l \in Language : /\ \A k \in DOMAIN row.languages : row.languages[k] <= l[k]
                             /\ more = [row EXCEPT !.languages = l]
      \/ \E x \in Countries : c.countries # {} /\ more = [row EXCEPT !.authorised = @ \cup {x}]
      \/ \E x \in Countries : c.countries # {} /\ more = [row EXCEPT !.countries = @ \cup {x}]
      \/ \E x \in Places : row.places # {} /\ more = [row EXCEPT !.places = @ \cup {x}]
  BY DEF StatedMore
<1>2. CASE \E y \in row.years..8 : row.years > 0 /\ more = [row EXCEPT !.years = y]
  <2>1. PICK y \in row.years..8 : row.years > 0 /\ more = [row EXCEPT !.years = y]
    BY <1>2
  <2>2. more \in Rows /\ more.years = y /\ row.years \in Int /\ y \in Int /\ row.years <= y
    BY <2>1 DEF Rows
  <2>7. /\ more.countries = row.countries /\ more.places = row.places /\ more.remote = row.remote
        /\ more.authorised = row.authorised /\ more.unauthorised = row.unauthorised
        /\ more.languages = row.languages
    BY <2>1 DEF Rows
  <2>3. /\ d.countries = c.countries /\ d.places = c.places /\ d.authorised = c.authorised
        /\ d.remote = c.remote /\ d.languages = c.languages /\ c.years = row.years /\ d.years = y
    <3>1. row.years # 0 /\ y # 0
      BY <2>1, <2>2
    <3>2. /\ c.years = row.years /\ c.places = row.places /\ c.authorised = row.authorised
          /\ c.countries = row.countries \cup row.authorised \cup row.unauthorised
          /\ c.remote = row.remote /\ c.languages = row.languages
      BY <3>1, LoadedFields
    <3>3. /\ d.years = y /\ d.places = more.places /\ d.authorised = more.authorised
          /\ d.countries = more.countries \cup more.authorised \cup more.unauthorised
          /\ d.remote = more.remote /\ d.languages = more.languages
      BY <2>2, <3>1, LoadedFields
    <3> HIDE DEF c, d
    <3> QED BY <2>7, <3>2, <3>3
  <2>4. p.years \in Int
    BY DEF IsPosting
  <2> HIDE DEF c, d
  <2>5. (SeniorityOk(c, p) => SeniorityOk(d, p))
    BY <2>1, <2>2, <2>3, <2>4 DEF SeniorityOk, Unstated, MaxShortfall
  <2>6. /\ (WorkAuthorizationOk(c, p) => WorkAuthorizationOk(d, p))
        /\ (LocationOk(c, p) => LocationOk(d, p)) /\ (LanguageOk(c, p) => LanguageOk(d, p))
    BY <2>3 DEF WorkAuthorizationOk, LocationOk, LanguageOk
  <2> QED BY <2>5, <2>6, FailuresShrink DEF c, d
<1>3. CASE more = [row EXCEPT !.remote = TRUE]
  <2>1. more \in Rows
    BY <1>3 DEF Rows
  <2>2. /\ d.countries = c.countries /\ d.places = c.places /\ d.authorised = c.authorised
        /\ d.remote = TRUE /\ d.languages = c.languages /\ d.years = c.years
    BY <1>3, <2>1, LoadedFields DEF Rows
  <2> HIDE DEF c, d
  <2>3. /\ (WorkAuthorizationOk(c, p) => WorkAuthorizationOk(d, p))
        /\ (LocationOk(c, p) => LocationOk(d, p)) /\ (LanguageOk(c, p) => LanguageOk(d, p))
        /\ (SeniorityOk(c, p) => SeniorityOk(d, p))
    BY <2>2 DEF WorkAuthorizationOk, LocationOk, LanguageOk, SeniorityOk
  <2> QED BY <2>3, FailuresShrink DEF c, d
<1>4. CASE \E l \in Language : /\ \A k \in DOMAIN row.languages : row.languages[k] <= l[k]
                               /\ more = [row EXCEPT !.languages = l]
  <2>1. PICK l \in Language : /\ \A k \in DOMAIN row.languages : row.languages[k] <= l[k]
                              /\ more = [row EXCEPT !.languages = l]
    BY <1>4
  <2>2. l \in [{"de"} -> Nat]
    BY DEF Language
  <2>3. more \in Rows
    BY <2>1, <2>2 DEF Rows
  <2>4. /\ d.countries = c.countries /\ d.places = c.places /\ d.authorised = c.authorised
        /\ d.remote = c.remote /\ c.languages = row.languages /\ d.languages = l /\ d.years = c.years
    BY <2>1, <2>3, LoadedFields DEF Rows
  <2> HIDE DEF c, d
  <2>5. /\ (WorkAuthorizationOk(c, p) => WorkAuthorizationOk(d, p))
        /\ (LocationOk(c, p) => LocationOk(d, p)) /\ (SeniorityOk(c, p) => SeniorityOk(d, p))
    BY <2>4 DEF WorkAuthorizationOk, LocationOk, SeniorityOk
  <2>6. ASSUME LanguageOk(c, p) PROVE LanguageOk(d, p)
    <3> SUFFICES ASSUME NEW k \in DOMAIN p.languages
                 PROVE  k \in DOMAIN l /\ (p.languages[k] > 0 => l[k] >= p.languages[k])
      BY <2>4 DEF LanguageOk
    <3>1. /\ k \in DOMAIN row.languages
          /\ p.languages[k] > 0 => row.languages[k] >= p.languages[k]
      BY <2>4, <2>6 DEF LanguageOk
    <3>2. row.languages[k] <= l[k]
      BY <2>1, <3>1
    <3>3. row.languages[k] \in Int /\ p.languages[k] \in Int
      BY <3>1 DEF Rows, IsPosting
    <3>4. k \in DOMAIN l /\ l[k] \in Int
      <4>1. k = "de"
        BY <3>1 DEF Rows
      <4> QED BY <2>2, <4>1
    <3> QED BY <3>1, <3>2, <3>3, <3>4
  <2> QED BY <2>5, <2>6, FailuresShrink DEF c, d
<1>5. CASE \E x \in Countries : c.countries # {} /\ more = [row EXCEPT !.authorised = @ \cup {x}]
  <2>1. PICK x \in Countries : c.countries # {} /\ more = [row EXCEPT !.authorised = @ \cup {x}]
    BY <1>5
  <2>2. more \in Rows
    BY <2>1 DEF Rows
  <2>3. /\ c.countries # {} /\ c.countries \subseteq d.countries /\ d.places = c.places
        /\ c.authorised \subseteq d.authorised
        /\ d.remote = c.remote /\ d.languages = c.languages /\ d.years = c.years
    BY <2>1, <2>2, LoadedFields DEF Rows
  <2> HIDE DEF c, d
  <2>4. (LocationOk(c, p) => LocationOk(d, p))
    BY <2>3, MoreCountriesPass
  <2>5. /\ (WorkAuthorizationOk(c, p) => WorkAuthorizationOk(d, p))
        /\ (LanguageOk(c, p) => LanguageOk(d, p)) /\ (SeniorityOk(c, p) => SeniorityOk(d, p))
    BY <2>3 DEF WorkAuthorizationOk, LanguageOk, SeniorityOk
  <2> QED BY <2>4, <2>5, FailuresShrink DEF c, d
<1>6. CASE \E x \in Countries : c.countries # {} /\ more = [row EXCEPT !.countries = @ \cup {x}]
  <2>1. PICK x \in Countries : c.countries # {} /\ more = [row EXCEPT !.countries = @ \cup {x}]
    BY <1>6
  <2>2. more \in Rows
    BY <2>1 DEF Rows
  <2>3. /\ c.countries # {} /\ c.countries \subseteq d.countries /\ d.places = c.places
        /\ c.authorised = d.authorised
        /\ d.remote = c.remote /\ d.languages = c.languages /\ d.years = c.years
    BY <2>1, <2>2, LoadedFields DEF Rows
  <2> HIDE DEF c, d
  <2>4. (LocationOk(c, p) => LocationOk(d, p))
    BY <2>3, MoreCountriesPass
  <2>5. /\ (WorkAuthorizationOk(c, p) => WorkAuthorizationOk(d, p))
        /\ (LanguageOk(c, p) => LanguageOk(d, p)) /\ (SeniorityOk(c, p) => SeniorityOk(d, p))
    BY <2>3 DEF WorkAuthorizationOk, LanguageOk, SeniorityOk
  <2> QED BY <2>4, <2>5, FailuresShrink DEF c, d
<1>7. CASE \E x \in Places : row.places # {} /\ more = [row EXCEPT !.places = @ \cup {x}]
  <2>1. PICK x \in Places : row.places # {} /\ more = [row EXCEPT !.places = @ \cup {x}]
    BY <1>7
  <2>2. more \in Rows
    BY <2>1 DEF Rows
  <2>3. /\ c.places # {} /\ c.places \subseteq d.places /\ d.countries = c.countries
        /\ c.authorised = d.authorised
        /\ d.remote = c.remote /\ d.languages = c.languages /\ d.years = c.years
    BY <2>1, <2>2, LoadedFields DEF Rows
  <2> HIDE DEF c, d
  <2>4. (LocationOk(c, p) => LocationOk(d, p))
    BY <2>3, MorePlacesPass
  <2>5. /\ (WorkAuthorizationOk(c, p) => WorkAuthorizationOk(d, p))
        /\ (LanguageOk(c, p) => LanguageOk(d, p)) /\ (SeniorityOk(c, p) => SeniorityOk(d, p))
    BY <2>3 DEF WorkAuthorizationOk, LanguageOk, SeniorityOk
  <2> QED BY <2>4, <2>5, FailuresShrink DEF c, d
<1> QED BY <1>1, <1>2, <1>3, <1>4, <1>5, <1>6, <1>7

-----------------------------------------------------------------------------
(* The sheets *)

ScoringSpec == sheet = NoSheet /\ [][SheetNext]_sheet

LEMMA SheetKinds ==
  ASSUME SheetNext
  PROVE  \/ sheet' \in PlaceSheets \cup LevelSheets /\ sheet'.kind = "gates"
         \/ sheet' \in FitSheets /\ sheet'.kind = "score"
         \/ sheet' \in [kind : {"weights"}, fit : [Terms -> {-10, -5, 0, 5, 10}]] /\ sheet'.kind = "weights"
         \/ sheet' \in [kind : {"pool"}, totals : [1..3 -> {2000, 5000, 9000}]] /\ sheet'.kind = "pool"
         \/ sheet' \in [kind : {"fusion"}, rankings : [{"dense", "lexical"} -> Rankings]] /\ sheet'.kind = "fusion"
<1>1. \A s \in PlaceSheets \cup LevelSheets : s.kind = "gates"
  BY DEF PlaceSheets, LevelSheets
<1>2. \A s \in FitSheets : s.kind = "score"
  BY DEF FitSheets
<1>3. sheet' \in PlaceSheets \cup LevelSheets \cup FitSheets
             \cup [kind : {"weights"}, fit : [Terms -> {-10, -5, 0, 5, 10}]]
             \cup [kind : {"pool"}, totals : [1..3 -> {2000, 5000, 9000}]]
             \cup [kind : {"fusion"}, rankings : [{"dense", "lexical"} -> Rankings]]
  BY DEF SheetNext
<1> QED BY <1>1, <1>2, <1>3

GateSheet(s) == s.row \in Rows /\ IsPosting(s.posting)
FitSheet(s) == s \in Fits /\ RawInPool(s)
PoolSheet(s) == s.totals \in [1..3 -> Nat]
FusionSheet(s) ==
  /\ DOMAIN s.rankings = {"dense", "lexical"}
  /\ \A r \in DOMAIN s.rankings : IsRanking(s.rankings[r]) /\ Range(s.rankings[r]) \subseteq 1..3
WeightsSheet(s) == s.fit \in [Terms -> -10..10]

\* What is known of the sheet chosen, by its kind.
SheetOk ==
  /\ sheet.kind = "gates" => GateSheet(sheet)
  /\ sheet.kind = "score" => FitSheet(sheet)
  /\ sheet.kind = "pool" => PoolSheet(sheet)
  /\ sheet.kind = "fusion" => FusionSheet(sheet)
  /\ sheet.kind = "weights" => WeightsSheet(sheet)

LEMMA GateSheets ==
  ASSUME NEW s \in PlaceSheets \cup LevelSheets
  PROVE  GateSheet(s)
<1>1. CASE s \in PlaceSheets
  BY <1>1 DEF PlaceSheets, GateSheet, Rows, IsPosting, Unstated
<1>2. CASE s \in LevelSheets
  <2>1. /\ s.row.years \in {Unstated} \cup 0..6 /\ s.posting.years \in {Unstated} \cup 0..6
        /\ s.row.languages \in {<<>>} \cup Language /\ s.posting.languages \in {<<>>} \cup Language
    BY <1>2 DEF LevelSheets
  <2>2. s.row.years \in Int /\ s.posting.years \in Int
    BY <2>1 DEF Unstated
  <2>3. Language \subseteq [{"de"} -> Nat]
    BY DEF Language
  <2>4. s.row \in Rows
    BY <1>2, <2>2, <2>3 DEF LevelSheets, Rows
  <2>5. \A l \in DOMAIN s.posting.languages : s.posting.languages[l] \in Int
    BY <2>1, <2>3
  <2> QED BY <2>2, <2>4, <2>5 DEF GateSheet, IsPosting
<1> QED BY <1>1, <1>2

LEMMA FitSheetsFit ==
  ASSUME NEW s \in FitSheets
  PROVE  FitSheet(s)
<1> DEFINE extreme == [t \in Terms |-> IF t = "freshness" THEN 10 ELSE -10]
<1>1. /\ s \in [kind : {"score"}, held : SUBSET Skills,
             needs : {<<>>} \cup UNION {[1..n -> Need] : n \in 1..2}, bullets : BOOLEAN, level : {1, 5},
             asked : {2}, raw : {1, 3}, pool : {{1, 4}}, age : {1},
             weights : {DefaultWeights, PersonalisedWeights(extreme)}]
  BY DEF FitSheets
<1>2. s.weights \in [Terms -> Nat]
  <2>1. \A fit \in [Terms -> -10..10] : PersonalisedWeights(fit) \in [Terms -> Nat]
    <3> TAKE fit \in [Terms -> -10..10]
    <3> DEFINE w == PersonalisedWeights(fit)
    <3>1. w \in [Terms -> Int] /\ \A t \in Terms : w[t] \in Floor(t)..Ceiling(t)
      BY PersonalisedBounds
    <3>2. \A t \in Terms : Floor(t) \in Nat /\ Ceiling(t) \in Nat
      BY BoundsOfWeights DEF Terms
    <3> HIDE DEF w
    <3>3. w \in [Terms -> Nat]
      BY <3>1, <3>2
    <3> QED BY <3>3 DEF w
  <2>2. extreme \in [Terms -> -10..10]
    OBVIOUS
  <2>3. DefaultWeights \in [Terms -> Nat]
    BY DEF DefaultWeights, Terms
  <2> HIDE DEF extreme
  <2> QED BY <1>1, <2>1, <2>2, <2>3
<1>3. s.needs \in {<<>>} \cup UNION {[1..n -> NeedType] : n \in Nat \ {0}}
  <2>1. Need \subseteq NeedType
    BY SMT DEF Need, NeedType, One
  <2>2. s.needs \in {<<>>} \cup UNION {[1..n -> Need] : n \in 1..2}
    BY <1>1
  <2>3. CASE s.needs = <<>>
    BY <2>3
  <2>4. ASSUME NEW n \in 1..2, s.needs \in [1..n -> Need]
        PROVE  s.needs \in UNION {[1..k -> NeedType] : k \in Nat \ {0}}
    <3>1. s.needs \in [1..n -> NeedType] /\ n \in Nat \ {0}
      BY <2>1, <2>4
    <3> QED BY <3>1
  <2> QED BY <2>2, <2>3, <2>4
<1>4. s \in Fits
  BY <1>1, <1>2, <1>3 DEF Fits
<1>5. RawInPool(s)
  <2>1. Min({1, 4}) = 1 /\ Max({1, 4}) = 4
    BY MinOfTwo
  <2>2. s.pool = {1, 4} /\ s.raw \in {1, 3}
    BY <1>1
  <2> QED BY <2>1, <2>2 DEF RawInPool
<1> QED BY <1>4, <1>5 DEF FitSheet

LEMMA FusionSheets ==
  ASSUME NEW s \in [kind : {"fusion"}, rankings : [{"dense", "lexical"} -> Rankings]]
  PROVE  FusionSheet(s)
<1>1. DOMAIN s.rankings = {"dense", "lexical"} /\ \A r \in DOMAIN s.rankings : s.rankings[r] \in Rankings
  OBVIOUS
<1>2. ASSUME NEW f \in Rankings
      PROVE  IsRanking(f) /\ Range(f) \subseteq 1..3
  <2>1. f = <<>> \/ \E n \in 1..3 : f \in [1..n -> 1..3] /\ IsInjective(f)
    BY DEF Rankings
  <2>2. CASE f = <<>>
    BY <2>2 DEF IsRanking, Range, LongestRanking
  <2>3. ASSUME NEW n \in 1..3, f \in [1..n -> 1..3], IsInjective(f)
        PROVE  IsRanking(f) /\ Range(f) \subseteq 1..3
    <3>1. DOMAIN f = 1..n
      BY <2>3
    <3>2. n \in 0..LongestRanking
      BY SMT DEF LongestRanking
    <3>3. \A i, j \in DOMAIN f : f[i] = f[j] => i = j
      BY <2>3 DEF IsInjective
    <3>4. Range(f) \subseteq 1..3
      BY <2>3 DEF Range
    <3> QED BY <3>1, <3>2, <3>3, <3>4 DEF IsRanking
  <2> QED BY <2>1, <2>2, <2>3
<1> QED BY <1>1, <1>2 DEF FusionSheet

LEMMA SheetStarts == sheet = NoSheet => SheetOk
BY DEF NoSheet, SheetOk

LEMMA SheetStays == SheetOk /\ [SheetNext]_sheet => SheetOk'
<1> SUFFICES ASSUME SheetOk, [SheetNext]_sheet PROVE SheetOk'
  OBVIOUS
<1>1. CASE UNCHANGED sheet
  BY <1>1 DEF SheetOk, GateSheet, FitSheet, PoolSheet, FusionSheet, WeightsSheet, RawInPool
<1>2. CASE SheetNext
  <2>1. ASSUME NEW s \in PlaceSheets \cup LevelSheets PROVE GateSheet(s)
    BY GateSheets
  <2>2. ASSUME NEW s \in FitSheets PROVE FitSheet(s)
    BY FitSheetsFit
  <2>3. ASSUME NEW s \in [kind : {"weights"}, fit : [Terms -> {-10, -5, 0, 5, 10}]] PROVE WeightsSheet(s)
    <3>1. s.fit \in [Terms -> {-10, -5, 0, 5, 10}]
      OBVIOUS
    <3> QED BY <3>1 DEF WeightsSheet
  <2>4. ASSUME NEW s \in [kind : {"pool"}, totals : [1..3 -> {2000, 5000, 9000}]] PROVE PoolSheet(s)
    BY SMT DEF PoolSheet
  <2>5. ASSUME NEW s \in [kind : {"fusion"}, rankings : [{"dense", "lexical"} -> Rankings]] PROVE FusionSheet(s)
    BY FusionSheets
  <2> DEFINE s == sheet'
  <2>6. \/ GateSheet(s) /\ s.kind = "gates"
        \/ FitSheet(s) /\ s.kind = "score"
        \/ WeightsSheet(s) /\ s.kind = "weights"
        \/ PoolSheet(s) /\ s.kind = "pool"
        \/ FusionSheet(s) /\ s.kind = "fusion"
    BY <1>2, <2>1, <2>2, <2>3, <2>4, <2>5, SheetKinds
  <2>7. SheetOk' = (/\ s.kind = "gates" => GateSheet(s)
                    /\ s.kind = "score" => FitSheet(s)
                    /\ s.kind = "pool" => PoolSheet(s)
                    /\ s.kind = "fusion" => FusionSheet(s)
                    /\ s.kind = "weights" => WeightsSheet(s))
    BY DEF SheetOk, GateSheet, FitSheet, PoolSheet, FusionSheet, WeightsSheet
  <2> HIDE DEF s
  <2> QED BY <2>6, <2>7
<1> QED BY <1>1, <1>2

LEMMA SheetsOk == ScoringSpec => []SheetOk
<1>1. sheet = NoSheet => SheetOk
  BY SheetStarts
<1>2. SheetOk /\ [SheetNext]_sheet => SheetOk'
  BY SheetStays
<1> QED BY <1>1, <1>2, PTL DEF ScoringSpec

\* Whatever a fit of the sheets makes of the weights, each stays within 40 % of its
\* default and together they still come to one: the clamp and the renormalisation of
\* _project_to_simplex() do not undo each other (preferences.py).
THEOREM WeightsStayBounded == ScoringSpec => []WeightsBounded
<1>1. SheetOk => WeightsBounded
  <2> SUFFICES ASSUME SheetOk, sheet.kind = "weights"
               PROVE  LET w == PersonalisedWeights(sheet.fit)
                      IN  /\ \A t \in Terms : w[t] \in Floor(t)..Ceiling(t)
                          /\ SumOf(w) - One \in -2..2
    BY DEF WeightsBounded
  <2>1. sheet.fit \in [Terms -> -10..10]
    BY DEF SheetOk, WeightsSheet
  <2> QED BY <2>1, PersonalisedBounds
<1> QED BY <1>1, SheetsOk, PTL

\* On every sheet, more is never worse: more stated passes every gate passed before, more
\* held or shown scores no less, a posting nothing was read from scores no more than one
\* that was and none above what could be assessed, a better total stands better, and what
\* every retriever prefers is placed first (gates.py, subscores.py, aggregate.py,
\* percentile.py, retrieval.py).
THEOREM StatingMoreNeverHurts == ScoringSpec => []MoreNeverHurts
<1>1. SheetOk => GatesMonotone
  <2> SUFFICES ASSUME SheetOk, sheet.kind = "gates", NEW more \in StatedMore(sheet.row)
               PROVE  GateFailures(LoadCandidate(more), sheet.posting)
                        \subseteq GateFailures(LoadCandidate(sheet.row), sheet.posting)
    BY DEF GatesMonotone
  <2>1. sheet.row \in Rows /\ IsPosting(sheet.posting)
    BY DEF SheetOk, GateSheet
  <2> QED BY <2>1, MoreStatedPasses
<1>2. SheetOk => ScoreMonotone
  <2> SUFFICES ASSUME SheetOk, sheet.kind = "score" PROVE ScoreMonotone
    BY DEF ScoreMonotone
  <2>1. sheet \in Fits /\ RawInPool(sheet)
    BY DEF SheetOk, FitSheet
  <2> QED BY <2>1, FitScoresMonotone DEF ScoreMonotone
<1>3. SheetOk => StandingMonotone
  <2> DEFINE pool == sheet.totals
  <2> SUFFICES ASSUME SheetOk, sheet.kind = "pool", NEW i \in DOMAIN pool, NEW j \in DOMAIN pool
               PROVE  pool[i] < pool[j] <=> /\ RankOf(pool[i], pool) > RankOf(pool[j], pool)
                                            /\ Percentile(pool[i], pool) < Percentile(pool[j], pool)
    BY DEF StandingMonotone
  <2>1. pool \in [1..3 -> Nat] /\ DOMAIN pool = 1..3
    BY DEF SheetOk, PoolSheet
  <2>2. 3 \in Nat /\ 3 <= One
    BY SMT DEF One
  <2> HIDE DEF pool
  <2> QED BY <2>1, <2>2, BetterStandsBetter
<1>4. SheetOk => FusionMonotone
  <2> DEFINE f == sheet.rankings
  <2> SUFFICES ASSUME SheetOk, sheet.kind = "fusion",
                      NEW y \in UNION {Range(f[r]) : r \in DOMAIN f}, NEW x \in 1..3, x # y,
                      \A r \in FoundBy(f, y) : x \in Range(f[r]) /\ RankIn(f[r], x) < RankIn(f[r], y)
               PROVE  FusedPlace(f, x) < FusedPlace(f, y)
    BY DEF FusionMonotone
  <2>1. /\ DOMAIN f = {"dense", "lexical"}
        /\ \A r \in DOMAIN f : IsRanking(f[r]) /\ Range(f[r]) \subseteq 1..3
    BY DEF SheetOk, FusionSheet
  <2> HIDE DEF f
  <2>2. IsFiniteSet(DOMAIN f)
    <3>1. IsFiniteSet({}) /\ DOMAIN f = ({} \cup {"dense"}) \cup {"lexical"}
      BY <2>1, FS_EmptySet
    <3>2. \A S, e : IsFiniteSet(S) => IsFiniteSet(S \cup {e})
      BY FS_AddElement
    <3>3. IsFiniteSet({} \cup {"dense"})
      BY <3>1, <3>2, Zenon
    <3>4. IsFiniteSet(({} \cup {"dense"}) \cup {"lexical"})
      BY <3>2, <3>3, Zenon
    <3> QED BY <3>1, <3>4
  <2>3. FoundBy(f, y) # {} /\ y \in Int /\ x \in Int
    BY <2>1 DEF FoundBy
  <2> QED BY <2>1, <2>2, <2>3, PreferredIsPlacedFirst
<1> QED BY <1>1, <1>2, <1>3, <1>4, SheetsOk, PTL DEF MoreNeverHurts
=============================================================================
