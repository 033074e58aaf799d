---------------------------- MODULE DigestProofs ----------------------------
(***************************************************************************)
(* Proofs about Digest for any number of postings, match rows, consumers   *)
(* and faults: what is in two messages is excused.  NewMeansNew becomes inductive  *)
(* with DigestInv: two runs hold one posting only if it is raced, what was *)
(* mailed is in the log, in an uncommitted run or lost, and a run that has *)
(* composed a posting already mailed has an excuse.                        *)
(***************************************************************************)
EXTENDS Digest, FiniteSetTheorems, WellFoundedInduction, TLAPS

\* Two runs that hold one posting raced for it.
Overlap ==
  \A t, u \in Consumers : t # u => About(run[t].items) \cap About(run[u].items) \subseteq raced

\* Nothing mailed is forgotten but by a lost run.
Delivering(p) == \E t \in Consumers : run[t].phase = "delivered" /\ p \in About(run[t].items)
Kept == \A p \in mailed : p \in sends \cup lost \/ Delivering(p)

\* What a run is about to mail for the second time is excused.
Fresh ==
  \A t \in Consumers : run[t].phase = "composed" => About(run[t].items) \cap mailed \subseteq raced \cup lost

\* A run holds nothing before it composes.
EmptyHanded == \A t \in Consumers : run[t].phase \in {"idle", "checked"} => run[t].items = {}

DigestInv == Shapes /\ EmptyHanded /\ Overlap /\ Kept /\ Fresh /\ NewMeansNew

\* No row is about no posting, and every row is about one.
LEMMA AboutNothing == About({}) = {}
BY DEF About

LEMMA AboutPostings ==
  ASSUME NEW items \in SUBSET Matches
  PROVE  About(items) \in SUBSET Postings
BY DigestAssumption DEF About, DigestAssumption

\* Steps that change no run and no history, or only whether a run is barred.
SameRuns ==
  /\ run' \in [Consumers -> [phase : Phases, items : SUBSET Matches, barred : BOOLEAN]]
  /\ \A t \in Consumers : run'[t].phase = run[t].phase /\ run'[t].items = run[t].items
  /\ UNCHANGED <<sends, history>>

\* They keep the invariant.
LEMMA SameRunsKeep ==
  ASSUME DigestInv, SameRuns
  PROVE  EmptyHanded' /\ Overlap' /\ Kept' /\ Fresh' /\ NewMeansNew'
<1>1. EmptyHanded' /\ Overlap' /\ Fresh' /\ NewMeansNew'
  BY DEF DigestInv, SameRuns, history, EmptyHanded, Overlap, Fresh, NewMeansNew
<1>2. Kept'
  BY DEF DigestInv, SameRuns, history, Kept, Delivering
<1> QED BY <1>1, <1>2

\* Retrying stays within the bound.
LEMMA RetriedType == waiting \in 0..MaxWaiting /\ Retried => waiting' \in 0..MaxWaiting
BY DigestAssumption DEF Retried

\* The type of every variable but the cap on a message, in every step.
LEMMA ShapesStep == Shapes /\ EmptyHanded /\ [Next]_vars => Shapes'
<1> SUFFICES ASSUME Shapes, EmptyHanded, [Next]_vars PROVE Shapes'
  OBVIOUS
<1> USE DEF Shapes, Idle, Phases, user, history
<1>1. CASE BeginGrant
  BY <1>1 DEF BeginGrant
<1>2. CASE Grant
  BY <1>2 DEF Grant
<1>3. CASE Revoke
  BY <1>3 DEF Revoke
<1>4. CASE RequestDeletion
  BY <1>4 DEF RequestDeletion
<1>5. ASSUME NEW S \in SUBSET Matches, Match(S) PROVE Shapes'
  BY <1>5 DEF Match
<1>6. CASE NewDay
  <2>1. recent \in {0, 1, 2} /\ recent' \in {0, 1, 2}
    BY <1>6 DEF NewDay
  <2>2. recent' \in 0..2
    BY <2>1
  <2> QED BY <1>6, <2>2 DEF NewDay
<1>7. CASE Plan
  BY <1>7, DigestAssumption DEF Plan, Due
<1>8. ASSUME NEW t \in Consumers, Start(t) PROVE Shapes'
  BY <1>8, DigestAssumption DEF Start, HasConsent
<1>9. ASSUME NEW t \in Consumers, Compose(t) PROVE Shapes'
  <2>1. waiting' \in 0..MaxWaiting
    BY <1>9, RetriedType DEF Compose
  <2>2. Top(Unsent) \subseteq Matches
    BY DEF Top, Unsent
  <2>3. run' \in [Consumers -> [phase : Phases, items : SUBSET Matches, barred : BOOLEAN]]
    <3>1. run' = [run EXCEPT ![t] = Idle]
          \/ run' = [run EXCEPT ![t].phase = "composed", ![t].items = Top(Unsent)]
      BY <1>9 DEF Compose
    <3>2. CASE run' = [run EXCEPT ![t] = Idle]
      BY <3>2
    <3>3. CASE run' = [run EXCEPT ![t].phase = "composed", ![t].items = Top(Unsent)]
      BY <2>2, <3>3
    <3> QED BY <3>1, <3>2, <3>3
  <2>4. raced' \subseteq Postings
    <3>1. About(Top(Unsent)) \in SUBSET Postings
      BY <2>2, AboutPostings
    <3> QED BY <1>9, <3>1 DEF Compose
  <2> QED BY <1>9, <2>1, <2>3, <2>4 DEF Compose
<1>10. ASSUME NEW t \in Consumers, Deliver(t) PROVE Shapes'
  BY <1>10, AboutPostings DEF Deliver
<1>11. ASSUME NEW t \in Consumers, Commit(t) PROVE Shapes'
  BY <1>11, AboutPostings DEF Commit, Recorded
<1>12. ASSUME NEW t \in Consumers, Abort(t) PROVE Shapes'
  <2>1. waiting' \in 0..MaxWaiting
    BY <1>12, RetriedType DEF Abort
  <2>2. faults' \in 0..MaxFaults /\ run' \in [Consumers -> [phase : Phases, items : SUBSET Matches, barred : BOOLEAN]]
    BY <1>12, DigestAssumption DEF Abort
  <2>3. UNCHANGED <<closed, consent, granting, listed, sends, recent, planned, mailed, again, raced>>
    BY <1>12 DEF Abort
  <2>4. lost' \subseteq Postings
    BY <1>12, AboutPostings DEF Abort
  <2> QED BY <2>1, <2>2, <2>3, <2>4
<1>13. ASSUME NEW t \in Consumers, TakeBack(t) PROVE Shapes'
  BY <1>13, DigestAssumption DEF TakeBack
<1>14. CASE UNCHANGED vars
  BY <1>14 DEF vars
<1> QED
  BY <1>1, <1>2, <1>3, <1>4, <1>5, <1>6, <1>7, <1>8, <1>9, <1>10, <1>11, <1>12, <1>13, <1>14 DEF Next

\* A run that changes only for t, from nothing in hand.
LEMMA StartKeeps ==
  ASSUME DigestInv, NEW t \in Consumers, Start(t)
  PROVE  SameRuns \/ (EmptyHanded' /\ Overlap' /\ Kept' /\ Fresh' /\ NewMeansNew')
<1> USE DEF DigestInv, Shapes, history
<1>1. CASE ~HasConsent
  BY <1>1 DEF Start, SameRuns
<1>2. CASE HasConsent
  <2>1. run[t] = Idle /\ run' = [run EXCEPT ![t] = [phase |-> "checked", items |-> {}, barred |-> closed \/ ~consent]]
    BY <1>2 DEF Start
  <2>2. UNCHANGED <<sends, mailed, again, raced, lost>>
    BY DEF Start
  <2>3. EmptyHanded' /\ Overlap' /\ Fresh' /\ NewMeansNew'
    BY <2>1, <2>2, AboutNothing DEF EmptyHanded, Overlap, Fresh, NewMeansNew, Idle
  <2>4. Kept'
    BY <2>1, <2>2 DEF Kept, Delivering, Idle
  <2> QED BY <2>3, <2>4
<1> QED BY <1>1, <1>2

\* A new message excludes what the log holds, and shares only what it races for.
LEMMA ComposeKeeps ==
  ASSUME DigestInv, NEW t \in Consumers, Compose(t)
  PROVE  EmptyHanded' /\ Overlap' /\ Kept' /\ Fresh' /\ NewMeansNew'
<1> DEFINE items == Top(Unsent)
           rivals == UNION {About(run[u].items) : u \in Consumers \ {t}}
<1>1. run[t].phase = "checked" /\ run[t].items = {} /\ run \in [Consumers -> [phase : Phases, items : SUBSET Matches, barred : BOOLEAN]]
  BY DEF Compose, DigestInv, EmptyHanded, Shapes
<1>2. UNCHANGED <<sends, mailed, again, lost>>
  BY DEF Compose
<1>3. CASE run' = [run EXCEPT ![t] = Idle] /\ UNCHANGED raced
  <2>1. EmptyHanded' /\ Overlap' /\ Fresh' /\ NewMeansNew'
    BY <1>1, <1>2, <1>3, AboutNothing DEF DigestInv, EmptyHanded, Overlap, Fresh, NewMeansNew, Idle
  <2>2. Kept'
    BY <1>1, <1>2, <1>3 DEF DigestInv, Kept, Delivering
  <2> QED BY <2>1, <2>2
<1>4. CASE /\ run' = [run EXCEPT ![t].phase = "composed", ![t].items = items]
           /\ raced' = raced \cup (About(items) \cap rivals)
  <2>1. About(items) \cap sends = {}
    BY DEF Top, Unsent, About
  <2>2. run'[t].phase = "composed" /\ run'[t].items = items
    BY <1>1, <1>4
  <2>3. \A u \in Consumers \ {t} : run'[u] = run[u]
    BY <1>1, <1>4
  <2>4. EmptyHanded'
    BY <2>2, <2>3 DEF DigestInv, EmptyHanded
  <2>5. Overlap'
    <3> SUFFICES ASSUME NEW u \in Consumers, NEW v \in Consumers, u # v
                 PROVE  About(run'[u].items) \cap About(run'[v].items) \subseteq raced'
      BY DEF Overlap
    <3>1. CASE u = t
      BY <1>4, <2>2, <2>3, <3>1
    <3>2. CASE v = t
      BY <1>4, <2>2, <2>3, <3>2
    <3>3. CASE u # t /\ v # t
      BY <1>4, <2>3, <3>3 DEF DigestInv, Overlap
    <3> QED BY <3>1, <3>2, <3>3
  <2>6. \A p \in mailed : ~Delivering(p) \/ \E u \in Consumers \ {t} : run[u].phase = "delivered" /\ p \in About(run[u].items)
    BY <1>1 DEF Delivering
  <2>7. Kept'
    BY <1>2, <2>3, <2>6 DEF DigestInv, Kept, Delivering
  <2>8. Fresh'
    <3> SUFFICES ASSUME NEW u \in Consumers, run'[u].phase = "composed", NEW p \in About(run'[u].items), p \in mailed
                 PROVE  p \in raced' \cup lost
      BY <1>2 DEF Fresh
    <3>1. CASE u = t
      <4>1. p \in About(items) /\ p \notin sends
        BY <2>1, <2>2, <3>1
      <4>2. p \in lost \/ \E v \in Consumers \ {t} : p \in About(run[v].items)
        BY <2>6, <4>1 DEF DigestInv, Kept
      <4> QED BY <1>4, <4>1, <4>2
    <3>2. CASE u # t
      BY <1>4, <2>3, <3>2 DEF DigestInv, Fresh
    <3> QED BY <3>1, <3>2
  <2>9. NewMeansNew'
    BY <1>2, <1>4 DEF DigestInv, NewMeansNew
  <2> QED BY <2>4, <2>5, <2>7, <2>8, <2>9
<1> QED BY <1>3, <1>4 DEF Compose

\* A delivery repeats only what is excused.
LEMMA DeliverKeeps ==
  ASSUME DigestInv, NEW t \in Consumers, Deliver(t)
  PROVE  EmptyHanded' /\ Overlap' /\ Kept' /\ Fresh' /\ NewMeansNew'
<1>1. /\ run[t].phase = "composed" /\ run \in [Consumers -> [phase : Phases, items : SUBSET Matches, barred : BOOLEAN]]
      /\ run' = [run EXCEPT ![t].phase = "delivered"]
      /\ mailed' = mailed \cup About(run[t].items)
      /\ again' = again \cup (About(run[t].items) \cap mailed)
      /\ UNCHANGED <<sends, raced, lost>>
  BY DEF Deliver, DigestInv, Shapes
<1>2. /\ run'[t].phase = "delivered"
      /\ \A u \in Consumers : run'[u].items = run[u].items
      /\ \A u \in Consumers \ {t} : run'[u].phase = run[u].phase
  BY <1>1
<1>3. EmptyHanded' /\ Overlap'
  BY <1>1, <1>2 DEF DigestInv, EmptyHanded, Overlap
<1>4. Kept'
  <2>1. \A p \in mailed : Delivering(p) => Delivering(p)'
    BY <1>2 DEF Delivering
  <2>2. \A p \in About(run[t].items) : Delivering(p)'
    BY <1>2 DEF Delivering
  <2> QED BY <1>1, <2>1, <2>2 DEF DigestInv, Kept
<1>5. Fresh'
  <2> SUFFICES ASSUME NEW u \in Consumers, run'[u].phase = "composed", NEW p \in About(run'[u].items), p \in mailed'
               PROVE  p \in raced \cup lost
    BY <1>1 DEF Fresh
  <2>1. u # t /\ run[u].phase = "composed" /\ p \in About(run[u].items)
    BY <1>2
  <2>2. CASE p \in mailed
    BY <2>1, <2>2 DEF DigestInv, Fresh
  <2>3. CASE p \in About(run[t].items)
    BY <2>1, <2>3 DEF DigestInv, Overlap
  <2> QED BY <1>1, <2>2, <2>3
<1>6. NewMeansNew'
  BY <1>1 DEF DigestInv, NewMeansNew, Fresh
<1> QED BY <1>3, <1>4, <1>5, <1>6

\* The end of a run leaves its postings in the log, or lost.
LEMMA EndKeeps ==
  ASSUME DigestInv, NEW t \in Consumers, Commit(t) \/ Abort(t)
  PROVE  EmptyHanded' /\ Overlap' /\ Kept' /\ Fresh' /\ NewMeansNew'
<1>1. /\ run' = [run EXCEPT ![t] = Idle] /\ UNCHANGED <<mailed, again, raced>>
      /\ run \in [Consumers -> [phase : Phases, items : SUBSET Matches, barred : BOOLEAN]]
      /\ sends \subseteq sends' /\ lost \subseteq lost'
      /\ run[t].phase = "delivered" => About(run[t].items) \subseteq sends' \cup lost'
  BY DEF Commit, Abort, Recorded, DigestInv, Shapes, history
<1>2. run'[t] = Idle /\ \A u \in Consumers \ {t} : run'[u] = run[u]
  BY <1>1
<1>3. EmptyHanded' /\ Overlap'
  BY <1>1, <1>2, AboutNothing DEF DigestInv, EmptyHanded, Overlap, Idle
<1>4. Kept'
  <2> SUFFICES ASSUME NEW p \in mailed PROVE p \in sends' \cup lost' \/ Delivering(p)'
    BY <1>1 DEF Kept
  <2>1. CASE p \in sends \cup lost
    BY <1>1, <2>1
  <2>2. CASE Delivering(p)
    <3>1. PICK u \in Consumers : run[u].phase = "delivered" /\ p \in About(run[u].items)
      BY <2>2 DEF Delivering
    <3> QED BY <1>1, <1>2, <3>1 DEF Delivering
  <2> QED BY <2>1, <2>2 DEF DigestInv, Kept
<1>5. Fresh' /\ NewMeansNew'
  BY <1>1, <1>2 DEF DigestInv, Fresh, NewMeansNew, Idle
<1> QED BY <1>3, <1>4, <1>5

LEMMA InvStep == DigestInv /\ [Next]_vars => DigestInv'
<1> SUFFICES ASSUME DigestInv, [Next]_vars PROVE DigestInv'
  OBVIOUS
<1>1. Shapes'
  BY ShapesStep DEF DigestInv
<1>2. SameRuns \/ (EmptyHanded' /\ Overlap' /\ Kept' /\ Fresh' /\ NewMeansNew')
  <2> USE <1>1 DEF Shapes, DigestInv
  <2>1. CASE Grant
    BY <2>1 DEF Grant, SameRuns, history
  <2>2. CASE BeginGrant \/ Revoke \/ RequestDeletion \/ NewDay \/ Plan
    <3>1. UNCHANGED <<run, sends, history>>
      BY <2>2 DEF BeginGrant, Revoke, RequestDeletion, NewDay, Plan
    <3> QED BY <3>1 DEF SameRuns, history
  <2>3. ASSUME NEW S \in SUBSET Matches, Match(S) PROVE SameRuns
    BY <2>3 DEF Match, SameRuns, history
  <2>4. ASSUME NEW t \in Consumers, TakeBack(t) PROVE SameRuns
    BY <2>4 DEF TakeBack, SameRuns, history
  <2>5. CASE UNCHANGED vars
    BY <2>5 DEF vars, SameRuns, history
  <2> QED
    BY <2>1, <2>2, <2>3, <2>4, <2>5, StartKeeps, ComposeKeeps, DeliverKeeps, EndKeeps DEF Next
<1> QED BY <1>1, <1>2, SameRunsKeep DEF DigestInv

LEMMA InvInit == Init => DigestInv
<1> SUFFICES ASSUME Init PROVE DigestInv
  OBVIOUS
<1>1. Shapes
  <2>1. run \in [Consumers -> [phase : Phases, items : SUBSET Matches, barred : BOOLEAN]]
    BY DEF Init, Idle, Phases
  <2>2. recent \in 0..2 /\ waiting \in 0..MaxWaiting /\ faults \in 0..MaxFaults
    BY DigestAssumption DEF Init
  <2>3. consent \in BOOLEAN /\ closed = FALSE /\ granting = FALSE /\ planned = FALSE
    BY DEF Init
  <2>4. listed = {} /\ sends = {} /\ mailed = {} /\ again = {} /\ raced = {} /\ lost = {}
    BY DEF Init
  <2> QED BY <2>1, <2>2, <2>3, <2>4 DEF Shapes
<1>2. EmptyHanded /\ Overlap /\ Fresh
  BY AboutNothing DEF Init, EmptyHanded, Overlap, Fresh, Idle
<1>3. Kept /\ NewMeansNew
  BY DEF Init, Kept, NewMeansNew
<1> QED BY <1>1, <1>2, <1>3 DEF DigestInv

\* "New means new" for every number of postings, match rows, consumers and faults: a
\* posting that is in two messages was composed by two runs at once, or a run that had
\* delivered it could not commit.
THEOREM NothingTwiceWithoutExcuse == Spec => []NewMeansNew
<1>1. DigestInv => NewMeansNew
  BY DEF DigestInv
<1> QED BY <1>1, InvInit, InvStep, PTL DEF Spec

-----------------------------------------------------------------------------
(* No message is longer than the cap. *)

\* The lowest of some match rows: the one that fewest of them are no higher than.
LEMMA Lowest ==
  ASSUME NEW S \in SUBSET Matches, S # {}
  PROVE  \E m \in S : \A p \in S : m <= p
<1> DEFINE Down(m) == {p \in S : p <= m}
           Downs == {Down(m) : m \in S}
           Smaller == StrictSubsetOrdering(S)
<1>1. Downs \in SUBSET SUBSET S /\ Downs # {}
  OBVIOUS
<1>2. IsWellFoundedOn(Smaller, SUBSET S)
  <2>1. IsFiniteSet(S)
    BY DigestAssumption, FS_Subset DEF DigestAssumption
  <2>2. FiniteSubsetsOf(S) = SUBSET S
    BY <2>1, FS_FiniteSubsetsOfFinite
  <2> QED BY <2>2, FS_StrictSubsetOrderingWellFounded
<1>3. PICK A \in Downs : \A B \in Downs : ~(<<B, A>> \in Smaller)
  <2> HIDE DEF Downs, Smaller
  <2> QED BY <1>1, <1>2, WFMin, Zenon
<1>4. PICK m \in S : A = Down(m)
  OBVIOUS
<1>5. ASSUME NEW p \in S, ~(m <= p) PROVE FALSE
  <2>1. m \in Nat /\ p \in Nat /\ \A q \in S : q \in Nat
    BY DigestAssumption DEF DigestAssumption
  <2>2. Down(p) \in Downs /\ Down(p) \subseteq A /\ m \in A /\ m \notin Down(p)
    <3>1. m <= m /\ ~(m <= p) /\ \A q \in S : q <= p => q <= m
      BY <1>5, <2>1
    <3>2. Down(p) \in Downs
      OBVIOUS
    <3> HIDE DEF Downs, Smaller
    <3>3. Down(p) \subseteq Down(m) /\ m \in Down(m) /\ m \notin Down(p)
      BY <3>1, Zenon
    <3> HIDE DEF Down
    <3> QED BY <1>4, <3>2, <3>3
  <2>3. Down(p) \in SUBSET S /\ A \in SUBSET S /\ Down(p) # A
    BY <1>1, <2>2
  <2> HIDE DEF Down
  <2>4. <<Down(p), A>> \in Smaller
    BY <2>2, <2>3 DEF StrictSubsetOrdering
  <2> QED BY <1>3, <2>2, <2>4
<1> QED BY <1>4, <1>5

\* The lowest of the items has fewer than MaxItems rows above it, and these are all
\* the others.
LEMMA TopCapped ==
  ASSUME NEW S \in SUBSET Matches
  PROVE  Cardinality(Top(S)) <= MaxItems
<1> DEFINE Above(p) == {q \in S : q > p}
<1>1. IsFiniteSet(S) /\ MaxItems \in Nat \ {0}
  BY DigestAssumption, FS_Subset DEF DigestAssumption
<1>2. CASE Top(S) = {}
  BY <1>1, <1>2, FS_EmptySet
<1>3. CASE Top(S) # {}
  <2>1. Top(S) \in SUBSET Matches /\ \A p \in Top(S) : p \in S /\ p \in Nat
    BY DigestAssumption DEF Top, DigestAssumption
  <2>2. PICK m \in Top(S) : \A p \in Top(S) : m <= p
    BY <1>3, <2>1, Lowest
  <2>3. Above(m) \in SUBSET S /\ Cardinality(Above(m)) < MaxItems
    BY <2>2 DEF Top
  <2>4. Top(S) \in SUBSET (Above(m) \cup {m})
    BY <2>1, <2>2
  <2> HIDE DEF Above
  <2>5. IsFiniteSet(Above(m)) /\ Cardinality(Above(m)) \in Nat
    BY <1>1, <2>3, FS_Subset, FS_CardinalityType
  <2>6. IsFiniteSet(Above(m) \cup {m}) /\ Cardinality(Above(m) \cup {m}) <= Cardinality(Above(m)) + 1
    <3>1. IsFiniteSet(Above(m) \cup {m})
          /\ Cardinality(Above(m) \cup {m})
               = IF m \in Above(m) THEN Cardinality(Above(m)) ELSE Cardinality(Above(m)) + 1
      BY <2>5, FS_AddElement
    <3> QED BY <2>5, <3>1
  <2>7. Cardinality(Top(S)) <= Cardinality(Above(m) \cup {m})
    BY <2>4, <2>6, FS_Subset
  <2>8. Cardinality(Top(S)) \in Nat /\ Cardinality(Above(m) \cup {m}) \in Nat
    BY <2>4, <2>6, FS_Subset, FS_CardinalityType
  <2> QED BY <1>1, <2>3, <2>5, <2>6, <2>7, <2>8
<1> QED BY <1>2, <1>3

LEMMA NothingFits == Cardinality({}) <= MaxItems
BY DigestAssumption, FS_EmptySet DEF DigestAssumption

Capped == \A t \in Consumers : Cardinality(run[t].items) <= MaxItems

LEMMA CappedStep == DigestInv /\ Capped /\ [Next]_vars => Capped'
<1> SUFFICES ASSUME DigestInv, Capped, [Next]_vars PROVE Capped'
  OBVIOUS
<1> USE DEF DigestInv, Shapes, Capped
<1>1. Cardinality({}) <= MaxItems
  BY NothingFits
<1>2. CASE Grant
  BY <1>2 DEF Grant
<1>3. CASE BeginGrant \/ Revoke \/ RequestDeletion \/ NewDay \/ Plan
  BY <1>3 DEF BeginGrant, Revoke, RequestDeletion, NewDay, Plan
<1>4. ASSUME NEW S \in SUBSET Matches, Match(S) PROVE Capped'
  BY <1>4 DEF Match
<1>5. ASSUME NEW t \in Consumers, Start(t) \/ Deliver(t) \/ Commit(t) \/ Abort(t) \/ TakeBack(t)
      PROVE  Capped'
  <2>1. \A u \in Consumers : run'[u].items \in {run[u].items, {}}
    BY <1>5 DEF Start, Deliver, Commit, Abort, TakeBack, Idle
  <2> QED BY <1>1, <2>1
<1>6. ASSUME NEW t \in Consumers, Compose(t) PROVE Capped'
  <2>1. run' = [run EXCEPT ![t] = Idle]
        \/ run' = [run EXCEPT ![t].phase = "composed", ![t].items = Top(Unsent)]
    BY <1>6 DEF Compose
  <2>2. Cardinality(Top(Unsent)) <= MaxItems
    BY TopCapped DEF Unsent
  <2>3. \A u \in Consumers : run'[u].items \in {run[u].items, {}, Top(Unsent)}
    <3>1. CASE run' = [run EXCEPT ![t] = Idle]
      BY <3>1 DEF Idle
    <3>2. CASE run' = [run EXCEPT ![t].phase = "composed", ![t].items = Top(Unsent)]
      BY <3>2
    <3> QED BY <2>1, <3>1, <3>2
  <2> HIDE DEF DigestInv, Shapes
  <2> QED BY <1>1, <2>2, <2>3, Zenon
<1>7. CASE UNCHANGED vars
  BY <1>7 DEF vars
<1> QED BY <1>2, <1>3, <1>4, <1>5, <1>6, <1>7 DEF Next

\* Every value the digest works with keeps its shape, and no message is longer than
\* MAX_ITEMS, however many rows match and whatever was sent before.
THEOREM TypeCorrect == Spec => []TypeOK
<1>1. Init => Capped
  BY NothingFits DEF Init, Capped, Idle
<1>2. DigestInv /\ Capped => TypeOK
  BY DEF DigestInv, Capped, TypeOK
<1> QED BY <1>1, <1>2, InvInit, InvStep, CappedStep, PTL DEF Spec

-----------------------------------------------------------------------------
(* Who has stopped the digest gets none. *)

\* Invariant: a run is barred only under a closed account, since the consent check lets no
\* other begin, and never once it has a message.
BarredOnlyClosed ==
  \A t \in Consumers :
    /\ run[t].barred => closed
    /\ run[t].phase \in {"composed", "delivered"} => ~run[t].barred

LEMMA BarredStep == DigestInv /\ BarredOnlyClosed /\ [Next]_vars => BarredOnlyClosed'
<1> SUFFICES ASSUME DigestInv, BarredOnlyClosed, [Next]_vars PROVE BarredOnlyClosed'
  OBVIOUS
<1> USE DEF DigestInv, Shapes, BarredOnlyClosed
<1>1. CASE Grant
  BY <1>1 DEF Grant
<1>2. CASE BeginGrant \/ Revoke \/ RequestDeletion \/ NewDay \/ Plan
  BY <1>2 DEF BeginGrant, Revoke, RequestDeletion, NewDay, Plan, user
<1>3. ASSUME NEW S \in SUBSET Matches, Match(S) PROVE BarredOnlyClosed'
  BY <1>3 DEF Match, user
<1>4. ASSUME NEW t \in Consumers, Start(t) PROVE BarredOnlyClosed'
  <2>1. CASE HasConsent
    <3>1. run' = [run EXCEPT ![t] = [phase |-> "checked", items |-> {}, barred |-> closed]]
      BY <1>4, <2>1 DEF Start, HasConsent
    <3> QED BY <1>4, <3>1 DEF Start, user
  <2>2. CASE ~HasConsent
    BY <1>4, <2>2 DEF Start, user
  <2> QED BY <2>1, <2>2
<1>7. ASSUME NEW t \in Consumers, Deliver(t) \/ Commit(t) \/ Abort(t) \/ TakeBack(t)
      PROVE  BarredOnlyClosed'
  BY <1>7 DEF Deliver, Commit, Abort, TakeBack, user, Idle
<1>5. ASSUME NEW t \in Consumers, Compose(t) PROVE BarredOnlyClosed'
  <2>1. closed' = closed
    BY <1>5 DEF Compose, user
  <2>2. run' = [run EXCEPT ![t] = Idle]
        \/ (~closed /\ run' = [run EXCEPT ![t].phase = "composed", ![t].items = Top(Unsent)])
    BY <1>5 DEF Compose, Composable
  <2> QED BY <2>1, <2>2 DEF Idle
<1>6. CASE UNCHANGED vars
  BY <1>6 DEF vars, user
<1> QED BY <1>1, <1>2, <1>3, <1>4, <1>5, <1>6, <1>7 DEF Next

\* A user who has stopped the digest, or closed the account, before a run began gets
\* nothing from it, for any number of runs and whatever grant overlapped.
THEOREM NothingAfterStop == Spec => []StoppedMeansStopped
<1>1. Init => BarredOnlyClosed
  BY DEF Init, BarredOnlyClosed, Idle
<1>2. BarredOnlyClosed => StoppedMeansStopped
  BY DEF BarredOnlyClosed, StoppedMeansStopped
<1> QED BY <1>1, <1>2, InvInit, InvStep, BarredStep, PTL DEF Spec
=============================================================================
