------------------------- MODULE EngagementProofs -------------------------
(***************************************************************************)
(* TLAPS proofs about Engagement, for every value of its constants.        *)
(***************************************************************************)
EXTENDS Engagement, FiniteSetTheorems, TLAPS

USE EngagementAssumption

-----------------------------------------------------------------------------
(* Helpers *)

\* The requests that may still record an application.
Underway == {r \in Requests : req[r].kind \in {"checking", "recording"}}

\* Invariant: an application is moved on, never back to "applied", and exists.
MovesOnlyApplied ==
  \A r \in Requests :
    req[r].kind = "advancing" => req[r].posting \in Applied /\ req[r].to # "applied"

\* Invariant: whatever is under way or logged began, and a row was committed no earlier.
Begun ==
  /\ \A r \in Requests : req[r] # Idle => req[r].at <= requests
  /\ \A p \in Postings : \A e \in log[p] : e.at <= e.until /\ e.until <= requests

\* Invariant: while groups stand still, a request to record knows the posting's group and
\* the applications it must not miss; once past the check without force, there are none.
KnowsNear ==
  \A r \in Underway :
    ~req[r].shifted =>
      /\ req[r].group = group[req[r].posting]
      /\ \A q \in req[r].near :
           /\ q \in Applied
           /\ q = req[r].posting \/ Together(group, {req[r].posting, q})
      /\ req[r].kind = "recording" /\ ~req[r].force => req[r].near = {}

\* The kind of a request tells which fields it has.
LEMMA KindOfRequest ==
  ASSUME TypeOK, NEW r \in Requests
  PROVE  /\ r \in Underway => req[r] \in Recording
         /\ req[r].kind = "advancing" => req[r] \in Advancing
         /\ req[r].kind = "opened" => req[r] \in Opened
         /\ req[r] # Idle => req[r].at \in Times
<1>1. req[r] \in Opened \cup Recording \cup Advancing \cup {Idle}
  BY DEF TypeOK, Underways
<1> QED BY <1>1 DEF Underway, Opened, Recording, Advancing, Idle

\* A pair is two different postings.
LEMMA PairOfTwo ==
  ASSUME NEW P \in Pairs, NEW p \in P
  PROVE  \E q \in Postings : q # p /\ P = {p, q}
<1>1. P \subseteq Postings /\ IsFiniteSet(P) /\ Cardinality(P) = 2
  BY FS_Subset DEF Pairs
<1>2. IsFiniteSet(P \ {p}) /\ Cardinality(P \ {p}) = 1
  BY <1>1, FS_RemoveElement
<1>3. PICK q : P \ {p} = {q}
  BY <1>2, FS_Singleton
<1> QED BY <1>1, <1>3

LEMMA PairOf ==
  ASSUME NEW p \in Postings, NEW q \in Postings, p # q
  PROVE  {p, q} \in Pairs
<1>1. IsFiniteSet({p}) /\ Cardinality({p}) = 1
  BY FS_Singleton
<1>2. Cardinality({p} \cup {q}) = 2
  BY <1>1, FS_AddElement
<1>3. {p} \cup {q} = {p, q}
  OBVIOUS
<1> QED BY <1>2, <1>3 DEF Pairs

-----------------------------------------------------------------------------
(* Type correctness *)

LEMMA TypeInit == Init => TypeOK
BY DEF Init, TypeOK, Applied, Underways

\* A request is under way only when one has begun.
LEMMA LoggedType ==
  ASSUME TypeOK, NEW p \in Postings, NEW from \in Statuses \cup {None}, NEW to \in Statuses,
         NEW at \in Times, at <= requests, Logged(p, from, to, at)
  PROVE  log' \in [Postings -> SUBSET Event]
<1>1. requests \in Times
  BY DEF TypeOK, Times
<1>2. [from |-> from, to |-> to, at |-> at, until |-> requests] \in Event
  BY <1>1 DEF Event
<1> QED BY <1>2 DEF Logged, TypeOK

LEMMA TypeRecord ==
  ASSUME TypeOK, NEW r \in Requests, Record(r), req[r].at <= requests
  PROVE  TypeOK'
<1>1. r \in Underway /\ req[r] \in Recording
  BY KindOfRequest DEF Record, Underway
<1> DEFINE p == req[r].posting
<1>2. p \in Postings
  BY <1>1 DEF Recording
<1>3. PICK v \in 1..cvs : Upserted(p, v)
  BY DEF Record
<1>4. status' \in [Postings -> Statuses \cup {None}]
  BY <1>2, <1>3 DEF TypeOK, Upserted, Statuses
<1>12. log' \in [Postings -> SUBSET Event]
  <2>1. req[r].at \in Times
    BY <1>1 DEF Recording
  <2> QED BY <1>2, <2>1, LoggedType DEF Record, Statuses
<1>5. cv' \in [Postings -> 0..cvs'] /\ cvs' \in 0..MaxCvs
  BY <1>2, <1>3 DEF TypeOK, Upserted, Record
<1>6. Applied' = Applied \cup {p}
  BY <1>2, <1>3 DEF TypeOK, Upserted, Applied, None, Statuses
<1>7. \A q \in Postings : cv'[q] = 0 <=> q \notin Applied'
  BY <1>2, <1>3, <1>6 DEF TypeOK, Upserted
<1>8. forced' \subseteq Applied'
  BY <1>2, <1>6 DEF Record, TypeOK
<1>9. excused' \subseteq Pairs
  <2>1. CASE p \in Applied
    BY <2>1 DEF Record, TypeOK
  <2>2. CASE p \notin Applied
    <3>1. \A q \in Applied : {p, q} \in Pairs
      BY <2>2, <1>2, PairOf DEF Applied
    <3> QED BY <2>2, <3>1 DEF Record, TypeOK
  <2> QED BY <2>1, <2>2
<1>10. req' \in [Requests -> Underways]
  BY DEF Record, TypeOK, Underways
<1>11. group' = group /\ requests' = requests
  BY DEF Record
<1> QED BY <1>4, <1>5, <1>7, <1>8, <1>9, <1>10, <1>11, <1>12 DEF TypeOK

LEMMA TypeAdvance ==
  ASSUME TypeOK, NEW r \in Requests, Advance(r), req[r].posting \in Applied,
         req[r].at <= requests
  PROVE  TypeOK'
<1>1. req[r] \in Advancing
  BY KindOfRequest DEF Advance
<1>2. /\ status' \in [Postings -> Statuses \cup {None}]
      /\ log' \in [Postings -> SUBSET Event]
  BY <1>1, LoggedType DEF Advance, Moved, TypeOK, Advancing
<1>3. Applied' = Applied
  BY <1>1 DEF Advance, Moved, TypeOK, Advancing, Applied, None, Statuses
<1>4. req' \in [Requests -> Underways]
  BY DEF Advance, TypeOK, Underways
<1> QED BY <1>2, <1>3, <1>4 DEF Advance, TypeOK

LEMMA TypeStep == TypeOK /\ MovesOnlyApplied /\ Begun /\ [Next]_vars => TypeOK'
<1> SUFFICES ASSUME TypeOK, MovesOnlyApplied, Begun, [Next]_vars PROVE TypeOK'
  OBVIOUS
<1>10. ASSUME NEW r \in Requests, Open(r)
       PROVE  TypeOK'
  <2>1. requests + 1 \in Times
    BY <1>10 DEF Open, TypeOK, Times
  <2>2. req' \in [Requests -> Underways] /\ requests' \in 0..MaxRequests
    BY <1>10, <2>1 DEF Open, TypeOK, Underways, Opened, Times
  <2>3. Applied' = Applied
    BY <1>10 DEF Open, Applied
  <2> QED BY <1>10, <2>2, <2>3 DEF Open, TypeOK
<1>1. ASSUME NEW r \in Requests, NEW p \in Postings, NEW f \in BOOLEAN, BeginRecord(r, p, f)
      PROVE  TypeOK'
  <2> DEFINE near == {q \in Applied : q = p \/ Together(group, {p, q})}
  <2>1. near \subseteq Postings
    BY DEF Applied
  <2>2. req' \in [Requests -> Underways]
    BY <1>1, <2>1, KindOfRequest DEF BeginRecord, TypeOK, Recording, Opened, Underways
  <2>3. Applied' = Applied
    BY <1>1 DEF BeginRecord, Applied
  <2> QED BY <1>1, <2>2, <2>3 DEF BeginRecord, TypeOK
<1>2. ASSUME NEW r \in Requests, NEW p \in Postings, NEW s \in Statuses, BeginAdvance(r, p, s)
      PROVE  TypeOK'
  <2>1. p \in Applied => status[p] \in Statuses
    BY DEF Applied, TypeOK
  <2>2. req' \in [Requests -> Underways]
    BY <1>2, <2>1, KindOfRequest DEF BeginAdvance, TypeOK, Advancing, Opened, Underways
  <2>3. Applied' = Applied
    BY <1>2 DEF BeginAdvance, Applied
  <2> QED BY <1>2, <2>2, <2>3 DEF BeginAdvance, TypeOK
<1>3. ASSUME NEW r \in Requests, Check(r)
      PROVE  TypeOK'
  <2>1. req[r] \in Recording
    BY <1>3, KindOfRequest DEF Check, Underway
  <2>2. [req[r] EXCEPT !.kind = "recording"] \in Recording
    BY <2>1 DEF Recording
  <2>3. req' \in [Requests -> Underways]
    BY <1>3, <2>2 DEF Check, TypeOK, Underways
  <2>4. Applied' = Applied
    BY <1>3 DEF Check, Applied
  <2> QED BY <1>3, <2>3, <2>4 DEF Check, TypeOK
<1>4. ASSUME NEW r \in Requests, Record(r)
      PROVE  TypeOK'
  <2>1. req[r] # Idle
    BY <1>4 DEF Record, Idle
  <2> QED BY <1>4, <2>1, TypeRecord DEF Begun
<1>5. ASSUME NEW r \in Requests, Advance(r)
      PROVE  TypeOK'
  <2>1. req[r] # Idle
    BY <1>5 DEF Advance, Idle
  <2> QED BY <1>5, <2>1, TypeAdvance DEF Advance, MovesOnlyApplied, Begun
<1>6. ASSUME NEW r \in Requests, Fail(r)
      PROVE  TypeOK'
  BY <1>6 DEF Fail, TypeOK, Applied, Underways
<1>7. CASE UploadCv
  BY <1>7 DEF UploadCv, TypeOK, Applied
<1>8. ASSUME NEW g \in [Postings -> Groups \cup {None}], Regroup(g)
      PROVE  TypeOK'
  <2>1. \A r \in Underway : [req[r] EXCEPT !.shifted = TRUE] \in Recording
    BY KindOfRequest DEF Recording, Underway
  <2>2. req' \in [Requests -> Underways]
    BY <1>8, <2>1 DEF Regroup, TypeOK, Underway, Underways
  <2>3. Applied' = Applied /\ excused' \subseteq Pairs
    BY <1>8 DEF Regroup, Applied, TypeOK
  <2> QED BY <1>8, <2>2, <2>3 DEF Regroup, TypeOK
<1>9. CASE UNCHANGED vars
  BY <1>9 DEF vars, TypeOK, Applied
<1> QED BY <1>1, <1>2, <1>3, <1>4, <1>5, <1>6, <1>7, <1>8, <1>9, <1>10 DEF Next

-----------------------------------------------------------------------------
(* What requests under way know *)

LEMMA MovesInit == Init => MovesOnlyApplied
BY DEF Init, MovesOnlyApplied, Idle

\* No step takes an application away.
LEMMA AppliedGrows == TypeOK /\ MovesOnlyApplied /\ [Next]_vars => Applied \subseteq Applied'
<1> SUFFICES ASSUME TypeOK, MovesOnlyApplied, [Next]_vars PROVE Applied \subseteq Applied'
  OBVIOUS
<1>1. ASSUME NEW r \in Requests, Record(r)
      PROVE  Applied \subseteq Applied'
  BY <1>1 DEF Record, Upserted, TypeOK, Applied
<1>2. ASSUME NEW r \in Requests, Advance(r)
      PROVE  Applied \subseteq Applied'
  <2>1. req[r] \in Advancing
    BY <1>2, KindOfRequest DEF Advance
  <2> QED BY <1>2, <2>1 DEF Advance, Moved, TypeOK, Applied, Advancing, Statuses, None
<1>3. CASE UNCHANGED status
  BY <1>3 DEF Applied
<1> QED
  BY <1>1, <1>2, <1>3
  DEF Next, vars, Open, BeginRecord, BeginAdvance, Check, Fail, UploadCv, Regroup

\* A request that has only begun is not an advance or a recording yet.
LEMMA OpenedIsNeither ==
  ASSUME TypeOK, NEW r \in Requests, Open(r), NEW q \in Requests
  PROVE  /\ q = r \/ req'[q] = req[q]
         /\ req'[r].kind = "opened"
         /\ group' = group
BY DEF Open, TypeOK

\* What a step can do to the slot of a request.
LEMMA SlotStep ==
  ASSUME TypeOK, [Next]_vars, NEW r \in Requests
  PROVE  \/ req'[r] = req[r] \/ req'[r] = Idle \/ Check(r) \/ Open(r)
         \/ \E p \in Postings, s \in Statuses : BeginAdvance(r, p, s)
         \/ \E p \in Postings, f \in BOOLEAN : BeginRecord(r, p, f)
         \/ \E g \in [Postings -> Groups \cup {None}] : Regroup(g)
<1>1. \A q \in Requests : Open(q) => q = r \/ req'[r] = req[r]
  BY OpenedIsNeither
<1> QED
  BY <1>1
  DEF Next, vars, BeginRecord, BeginAdvance, Check, Record, Advance, Fail, UploadCv, TypeOK

LEMMA MovesStep == TypeOK /\ MovesOnlyApplied /\ [Next]_vars => MovesOnlyApplied'
<1> SUFFICES ASSUME TypeOK, MovesOnlyApplied, [Next]_vars,
                    NEW r \in Requests, req'[r].kind = "advancing"
             PROVE  req'[r].posting \in Applied' /\ req'[r].to # "applied"
  BY DEF MovesOnlyApplied
<1>1. CASE req'[r] = req[r]
  BY <1>1, AppliedGrows DEF MovesOnlyApplied
<1>2. ASSUME NEW p \in Postings, NEW s \in Statuses, BeginAdvance(r, p, s), req'[r] # req[r]
      PROVE  req'[r].posting \in Applied' /\ req'[r].to # "applied"
  <2>1. s \in Allowed[status[p]] /\ p \in Applied
    BY <1>2 DEF BeginAdvance, TypeOK, Idle
  <2>2. s # "applied"
    BY <2>1 DEF Allowed, Applied, TypeOK, Statuses
  <2> QED BY <1>2, <2>1, <2>2, AppliedGrows DEF BeginAdvance, TypeOK
<1>3. CASE req'[r] = Idle
  BY <1>3 DEF Idle
<1>4. ASSUME NEW p \in Postings, NEW f \in BOOLEAN, BeginRecord(r, p, f)
      PROVE  FALSE
  BY <1>4 DEF BeginRecord, TypeOK
<1>5. ASSUME Check(r), req'[r] # Idle
      PROVE  FALSE
  BY <1>5, KindOfRequest DEF Check, TypeOK, Underway, Recording
<1>6. ASSUME NEW g, Regroup(g), req'[r] # req[r]
      PROVE  FALSE
  BY <1>6, KindOfRequest DEF Regroup, TypeOK, Underway, Recording
<1>7. ~Open(r)
  BY OpenedIsNeither
<1> QED BY <1>1, <1>2, <1>3, <1>4, <1>5, <1>6, <1>7, SlotStep

\* A request whose slot a step leaves alone still knows what it knew, unless groups change.
LEMMA KnowledgeKept ==
  ASSUME KnowsNear, Applied \subseteq Applied', group' = group,
         NEW r \in Requests, r \in Underway', req'[r] = req[r], ~req'[r].shifted
  PROVE  /\ req'[r].group = group'[req'[r].posting]
         /\ \A q \in req'[r].near :
              /\ q \in Applied'
              /\ q = req'[r].posting \/ Together(group', {req'[r].posting, q})
         /\ req'[r].kind = "recording" /\ ~req'[r].force => req'[r].near = {}
BY DEF KnowsNear, Underway, Together

LEMMA KnowsInit == Init => KnowsNear
BY DEF Init, KnowsNear, Underway, Idle

LEMMA KnowsStep == TypeOK /\ MovesOnlyApplied /\ KnowsNear /\ [Next]_vars => KnowsNear'
<1> SUFFICES ASSUME TypeOK, MovesOnlyApplied, KnowsNear, [Next]_vars,
                    NEW r \in Requests, r \in Underway', ~req'[r].shifted
             PROVE  /\ req'[r].group = group'[req'[r].posting]
                    /\ \A q \in req'[r].near :
                         /\ q \in Applied'
                         /\ q = req'[r].posting \/ Together(group', {req'[r].posting, q})
                    /\ req'[r].kind = "recording" /\ ~req'[r].force => req'[r].near = {}
  BY DEF KnowsNear, Underway
<1> DEFINE Goal == /\ req'[r].group = group'[req'[r].posting]
                   /\ \A q \in req'[r].near :
                        /\ q \in Applied'
                        /\ q = req'[r].posting \/ Together(group', {req'[r].posting, q})
                   /\ req'[r].kind = "recording" /\ ~req'[r].force => req'[r].near = {}
<1>1. CASE req'[r] = req[r] /\ group' = group
  BY <1>1, AppliedGrows, KnowledgeKept
<1>2. ASSUME NEW p \in Postings, NEW f \in BOOLEAN, BeginRecord(r, p, f)
      PROVE  Goal
  <2>1. req'[r] = [kind |-> "checking", at |-> req[r].at, posting |-> p, force |-> f, group |-> group[p],
                   near |-> {q \in Applied : q = p \/ Together(group, {p, q})},
                   shifted |-> FALSE]
    BY <1>2 DEF BeginRecord, TypeOK
  <2>2. group' = group /\ Applied' = Applied
    BY <1>2 DEF BeginRecord, Applied
  <2> QED BY <2>1, <2>2
<1>3. ASSUME Check(r)
      PROVE  Goal
  <2>1. r \in Underway /\ req[r] \in Recording /\ group' = group
    BY <1>3, KindOfRequest DEF Check, Underway
  <2>2. req'[r] # Idle
    BY DEF Underway, Idle
  <2>3. /\ req'[r] = [req[r] EXCEPT !.kind = "recording"]
        /\ Existing(req[r].posting, req[r].group) = {} \/ req[r].force
    BY <1>3, <2>2 DEF Check, TypeOK, Underways
  <2>4. /\ req'[r].group = req[r].group /\ req'[r].posting = req[r].posting
        /\ req'[r].near = req[r].near /\ req'[r].force = req[r].force
        /\ ~req[r].shifted
    BY <2>1, <2>3 DEF Recording
  <2>5. req[r].near \subseteq Existing(req[r].posting, req[r].group)
    BY <2>1, <2>4 DEF KnowsNear, Existing, Together
  <2> QED BY <2>1, <2>3, <2>4, <2>5, AppliedGrows DEF KnowsNear
<1>4. ASSUME NEW g, Regroup(g)
      PROVE  FALSE
  <2>1. r \in Underway
    BY <1>4 DEF Regroup, TypeOK, Underway
  <2>2. req'[r] = [req[r] EXCEPT !.shifted = TRUE] /\ req[r] \in Recording
    BY <1>4, <2>1, KindOfRequest DEF Regroup, TypeOK, Underway
  <2> QED BY <2>2 DEF Recording
<1>5. req'[r] # Idle /\ req'[r].kind # "advancing"
  BY DEF Underway, Idle
<1>6. \A p \in Postings, s \in Statuses :
        BeginAdvance(r, p, s) => req'[r] = req[r] /\ group' = group
  BY <1>5 DEF BeginAdvance, TypeOK
<1>8. \A q \in Requests : Open(q) => req'[r] = req[r] /\ group' = group
  BY OpenedIsNeither DEF Underway
<1>7. \/ req'[r] = req[r] /\ group' = group
      \/ Check(r)
      \/ \E p \in Postings, f \in BOOLEAN : BeginRecord(r, p, f)
      \/ \E g \in [Postings -> Groups \cup {None}] : Regroup(g)
  BY <1>5, <1>6, <1>8
  DEF Next, vars, BeginRecord, BeginAdvance, Check, Record, Advance, Fail, UploadCv, TypeOK
<1> QED BY <1>1, <1>2, <1>3, <1>4, <1>7

-----------------------------------------------------------------------------
(* The duplicate guard *)

\* Recording a new application without force excuses it with every application in its
\* group: the request either could not know, or would have been refused.
LEMMA RecordExcuses ==
  ASSUME TypeOK, KnowsNear, NEW r \in Requests, Record(r),
         req[r].posting \notin Applied, ~req[r].force,
         NEW q \in Applied, Together(group, {req[r].posting, q})
  PROVE  {req[r].posting, q} \in excused'
<1>1. r \in Underway
  BY DEF Record, Underway
<1>2. req[r].shifted \/ q \notin req[r].near
  BY <1>1 DEF KnowsNear, Record
<1> QED BY <1>2 DEF Record

LEMMA DuplicatesStep ==
  TypeOK /\ MovesOnlyApplied /\ KnowsNear /\ DuplicatesExcused /\ [Next]_vars => DuplicatesExcused'
<1> SUFFICES ASSUME TypeOK, MovesOnlyApplied, KnowsNear, DuplicatesExcused, [Next]_vars,
                    NEW P \in Pairs, P \subseteq Applied' \ forced', Together(group', P)
             PROVE  P \in excused'
  BY DEF DuplicatesExcused, Pairs
<1>1. CASE Applied' \ forced' \subseteq Applied \ forced /\ group' = group /\ excused \subseteq excused'
  BY <1>1 DEF DuplicatesExcused
<1>2. ASSUME NEW r \in Requests, Record(r)
      PROVE  P \in excused'
  <2> DEFINE p == req[r].posting
  <2>1. group' = group /\ excused \subseteq excused' /\ forced \subseteq forced'
    BY <1>2 DEF Record
  <2>2. p \in Postings
    BY <1>2, KindOfRequest DEF Record, Underway, Recording
  <2>3. Applied' = Applied \cup {p}
    BY <1>2, <2>2 DEF Record, Upserted, TypeOK, Applied, None, Statuses
  <2>4. CASE p \notin P \/ p \in Applied
    <3>1. P \subseteq Applied \ forced
      BY <2>1, <2>3, <2>4
    <3> QED BY <2>1, <3>1 DEF DuplicatesExcused
  <2>5. CASE p \in P /\ p \notin Applied
    <3>1. PICK q \in Postings : q # p /\ P = {p, q}
      BY <2>5, PairOfTwo
    <3>2. q \in Applied
      BY <2>3, <3>1
    <3>3. ~req[r].force
      BY <1>2, <2>5, KindOfRequest DEF Record, Underway, Recording
    <3> QED BY <1>2, <2>1, <2>5, <3>1, <3>2, <3>3, RecordExcuses
  <2> QED BY <2>4, <2>5
<1>3. ASSUME NEW g \in [Postings -> Groups \cup {None}], Regroup(g)
      PROVE  P \in excused'
  <2>1. Applied' = Applied /\ forced' = forced /\ group' = g
    BY <1>3 DEF Regroup, Applied
  <2>2. CASE Together(group, P)
    BY <1>3, <2>1, <2>2 DEF DuplicatesExcused, Regroup
  <2>3. CASE ~Together(group, P)
    BY <1>3, <2>1, <2>3 DEF Regroup
  <2> QED BY <2>2, <2>3
<1>4. ASSUME NEW r \in Requests, Advance(r)
      PROVE  Applied' = Applied
  <2>1. req[r] \in Advancing
    BY <1>4, KindOfRequest DEF Advance
  <2>2. Applied' \subseteq Applied
    BY <1>4, <2>1 DEF Advance, Moved, TypeOK, Applied, MovesOnlyApplied
  <2> QED BY <2>2, AppliedGrows
<1>5. ASSUME UNCHANGED <<status, group, forced, excused>>
      PROVE  P \in excused'
  BY <1>5 DEF Applied, DuplicatesExcused
<1>6. ASSUME NEW r \in Requests, Advance(r)
      PROVE  P \in excused'
  BY <1>1, <1>4, <1>6 DEF Advance
<1> QED
  BY <1>2, <1>3, <1>5, <1>6
  DEF Next, vars, Open, BeginRecord, BeginAdvance, Check, Fail, UploadCv

-----------------------------------------------------------------------------
(* The history *)

\* The row that a request commits, and that only these two steps commit one.
RowOf(r) ==
  [from |-> IF req[r].kind = "advancing" THEN req[r].from ELSE None,
   to |-> IF req[r].kind = "advancing" THEN req[r].to ELSE "applied",
   at |-> req[r].at, until |-> requests]

LEMMA LogStep ==
  ASSUME TypeOK, [Next]_vars
  PROVE  \/ UNCHANGED <<log, status>>
         \/ \E r \in Requests : Record(r) \/ Advance(r)
BY DEF Next, vars, Open, BeginRecord, BeginAdvance, Check, Fail, UploadCv, Regroup

LEMMA CommittedRow ==
  ASSUME TypeOK, Begun, NEW r \in Requests, Record(r) \/ Advance(r), NEW p \in Postings
  PROVE  /\ req[r].posting \in Postings
         /\ requests' = requests
         /\ RowOf(r).at \in Times /\ RowOf(r).at <= requests /\ RowOf(r).until = requests
         /\ log'[p] = IF p = req[r].posting THEN log[p] \cup {RowOf(r)} ELSE log[p]
<1>1. req[r] # Idle
  BY DEF Record, Advance, Idle
<1>2. req[r].at \in Times /\ req[r].at <= requests
  BY <1>1, KindOfRequest DEF Begun
<1>3. RowOf(r).at = req[r].at /\ RowOf(r).until = requests
  BY DEF RowOf
<1>4. req[r].posting \in Postings /\ requests' = requests
  BY KindOfRequest DEF Record, Advance, Underway, Recording, Advancing
<1>5. log' = [log EXCEPT ![req[r].posting] = @ \cup {RowOf(r)}]
  <2>1. CASE Record(r)
    <3>1. RowOf(r) = [from |-> None, to |-> "applied", at |-> req[r].at, until |-> requests]
      BY <2>1 DEF RowOf, Record
    <3> QED BY <2>1, <3>1 DEF Record, Logged
  <2>2. CASE Advance(r)
    <3>1. RowOf(r) = [from |-> req[r].from, to |-> req[r].to, at |-> req[r].at, until |-> requests]
      BY <2>2 DEF RowOf, Advance
    <3> QED BY <2>2, <3>1 DEF Advance, Logged
  <2> QED BY <2>1, <2>2
<1>6. log'[p] = IF p = req[r].posting THEN log[p] \cup {RowOf(r)} ELSE log[p]
  BY <1>4, <1>5 DEF TypeOK
<1> QED BY <1>2, <1>3, <1>4, <1>6

LEMMA BegunStep == TypeOK /\ Begun /\ [Next]_vars => Begun'
<1> SUFFICES ASSUME TypeOK, Begun, [Next]_vars PROVE Begun'
  OBVIOUS
<1>1. requests \in Nat /\ requests' \in Nat /\ requests <= requests'
  BY DEF TypeOK, Next, vars, Open, BeginRecord, BeginAdvance, Check, Record, Advance, Fail,
         UploadCv, Regroup
<1>2. ASSUME NEW r \in Requests, req'[r] # Idle PROVE req'[r].at <= requests'
  <2>1. \/ req[r] # Idle /\ req'[r].at = req[r].at
        \/ req'[r].at = requests' /\ requests' = requests + 1
    <3>1. ASSUME NEW q \in Requests, NEW p \in Postings, NEW f \in BOOLEAN, BeginRecord(q, p, f)
          PROVE  req[r] # Idle /\ req'[r].at = req[r].at
      BY <1>2, <3>1 DEF BeginRecord, TypeOK, Idle
    <3>2. ASSUME NEW q \in Requests, NEW p \in Postings, NEW s \in Statuses, BeginAdvance(q, p, s)
          PROVE  req[r] # Idle /\ req'[r].at = req[r].at
      BY <1>2, <3>2 DEF BeginAdvance, TypeOK, Idle
    <3>3. ASSUME NEW q \in Requests, Check(q)
          PROVE  req[r] # Idle /\ req'[r].at = req[r].at
      <4>1. req[q] \in Recording /\ req[q] # Idle
        BY <3>3, KindOfRequest DEF Check, Underway, Idle
      <4>2. CASE r = q
        BY <1>2, <3>3, <4>1, <4>2 DEF Check, TypeOK, Recording
      <4>3. CASE r # q
        BY <1>2, <3>3, <4>3 DEF Check, TypeOK
      <4> QED BY <4>2, <4>3
    <3>4. ASSUME NEW q \in Requests, Open(q)
          PROVE  \/ req[r] # Idle /\ req'[r].at = req[r].at
                 \/ req'[r].at = requests' /\ requests' = requests + 1
      BY <1>2, <3>4 DEF Open, TypeOK
    <3>5. ASSUME NEW q \in Requests, req' = [req EXCEPT ![q] = Idle]
          PROVE  req[r] # Idle /\ req'[r].at = req[r].at
      BY <1>2, <3>5 DEF TypeOK
    <3>6. ASSUME NEW g \in [Postings -> Groups \cup {None}], Regroup(g)
          PROVE  req[r] # Idle /\ req'[r].at = req[r].at
      <4>1. CASE r \in Underway
        <5>1. req[r] \in Recording /\ req'[r] = [req[r] EXCEPT !.shifted = TRUE] /\ req[r] # Idle
          BY <3>6, <4>1, KindOfRequest DEF Regroup, Underway, Idle
        <5> QED BY <5>1 DEF Recording
      <4>2. CASE r \notin Underway
        BY <1>2, <3>6, <4>2 DEF Regroup, Underway
      <4> QED BY <4>1, <4>2
    <3>7. CASE UNCHANGED req
      BY <1>2, <3>7
    <3> QED
      BY <3>1, <3>2, <3>3, <3>4, <3>5, <3>6, <3>7
      DEF Next, vars, Record, Advance, Fail, UploadCv
  <2>2. req[r] # Idle => req[r].at \in Nat /\ req[r].at <= requests
    BY KindOfRequest DEF Begun, Times
  <2> QED BY <1>1, <2>1, <2>2
<1>3. ASSUME NEW p \in Postings, NEW e \in log'[p] PROVE e.at <= e.until /\ e.until <= requests'
  <2>1. e \in log[p] => e.at <= e.until /\ e.until <= requests /\ e.until \in Nat
    BY DEF Begun, TypeOK, Event, Times
  <2>2. e \in log[p] \/ (e.at \in Times /\ e.at <= requests /\ e.until = requests)
    BY <1>3, LogStep, CommittedRow
  <2> QED BY <1>1, <2>1, <2>2 DEF Times
<1> QED BY <1>2, <1>3 DEF Begun

\* Invariant: an advance has read the status that still stands, unless a row of its
\* application was committed since it began.
ReadsCurrent ==
  \A r \in Requests :
    /\ req[r].kind = "advancing"
    /\ \A f \in log[req[r].posting] : f.until < req[r].at
    => req[r].from = status[req[r].posting]

\* Invariant: an application has rows, and nothing else has.
LogFilled == \A p \in Postings : log[p] = {} <=> status[p] = None

LEMMA CommittedStatus ==
  ASSUME TypeOK, NEW r \in Requests, Record(r) \/ Advance(r), NEW p \in Postings
  PROVE  /\ p # req[r].posting => status'[p] = status[p]
         /\ Record(r) /\ p = req[r].posting
            => status'[p] = IF status[p] = None THEN "applied" ELSE status[p]
         /\ Advance(r) /\ p = req[r].posting => status'[p] = req[r].to
<1>1. req[r].posting \in Postings
  BY KindOfRequest DEF Record, Advance, Underway, Recording, Advancing
<1> QED BY <1>1 DEF Record, Advance, Upserted, Moved, TypeOK

\* Rows that were committed by now; its times can be compared.
Dated(rows, now) ==
  \A e \in rows : /\ e.at \in Nat /\ e.until \in Nat
                  /\ e.at <= e.until /\ e.until <= now

LEMMA LogDated ==
  ASSUME TypeOK, Begun, NEW p \in Postings
  PROVE  Dated(log[p], requests) /\ requests \in Nat
<1>1. \A e \in log[p] : e \in Event
  BY DEF TypeOK
<1> QED BY <1>1 DEF Begun, Dated, Event, Times, TypeOK

\* What the rows before n tell does not change by rows that begin at n or later: they can
\* only make more rows contested.
LEMMA TellKept ==
  ASSUME NEW rows, NEW more, NEW n, NEW s, Tell(rows, n, s),
         rows \subseteq more, \A e \in more : e.at < n => e \in rows
  PROVE  Tell(more, n, s)
<1>1. \A e \in rows : Contested(rows, e) => Contested(more, e)
  BY DEF Contested
<1>2. {e \in Moves(more) : e.at < n} = {e \in Moves(rows) : e.at < n}
  BY DEF Moves
<1>3. (\E e \in more : e.at < n) <=> (\E e \in rows : e.at < n)
  OBVIOUS
<1>4. {e \in Moves(rows) : e.at < n} \subseteq rows
  BY DEF Moves
<1> QED BY <1>1, <1>2, <1>3, <1>4 DEF Tell

\* Where all rows are before n and before m, they tell the same of both.
LEMMA TellAll ==
  ASSUME NEW rows, NEW n, NEW m, NEW s, Tell(rows, n, s),
         \A e \in rows : e.at < n /\ e.at < m
  PROVE  Tell(rows, m, s)
<1>1. {e \in Moves(rows) : e.at < n} = {e \in Moves(rows) : e.at < m}
  BY DEF Moves
<1>2. (\E e \in rows : e.at < n) <=> (\E e \in rows : e.at < m)
  OBVIOUS
<1> QED BY <1>1, <1>2 DEF Tell

\* A transition that commits now is what the history tells, or the last row of it was
\* made by a request that overlapped.
LEMMA TellNewest ==
  ASSUME NEW now \in Nat, NEW rows, Dated(rows, now), NEW row \in rows,
         row.from # None, row.until = now
  PROVE  Tell(rows, now + 1, row.to)
<1> DEFINE moves == {e \in Moves(rows) : e.at < now + 1}
<1>1. row \in moves
  BY DEF Dated, Moves
<1>2. ASSUME NEW e \in moves, \A f \in moves : f.at <= e.at, ~Contested(rows, e)
      PROVE  row.to = e.to
  <2>1. row.at <= e.at /\ e \in rows
    BY <1>1, <1>2 DEF Moves
  <2>2. row.at <= e.until /\ e.at <= row.until
    BY <2>1 DEF Dated
  <2> QED BY <1>2, <2>2 DEF Contested
<1> QED BY <1>1, <1>2 DEF Tell

\* Recording an application again tells nothing new.
LEMMA TellAgain ==
  ASSUME NEW now \in Nat, NEW rows, NEW row, row.from = None, NEW s,
         Dated(rows \cup {row}, now), rows # {}, Tell(rows, now + 1, s)
  PROVE  Tell(rows \cup {row}, now + 1, s)
<1> DEFINE more == rows \cup {row}
<1>1. \A e \in rows : Contested(rows, e) => Contested(more, e)
  BY DEF Contested
<1>2. {e \in Moves(more) : e.at < now + 1} = {e \in Moves(rows) : e.at < now + 1}
  BY DEF Moves
<1>3. \A e \in more : e.at < now + 1
  BY DEF Dated
<1>4. {e \in Moves(rows) : e.at < now + 1} \subseteq rows
  BY DEF Moves
<1> QED BY <1>1, <1>2, <1>3, <1>4 DEF Tell

LEMMA ReadsStep == TypeOK /\ MovesOnlyApplied /\ Begun /\ ReadsCurrent /\ [Next]_vars => ReadsCurrent'
<1> SUFFICES ASSUME TypeOK, MovesOnlyApplied, Begun, ReadsCurrent, [Next]_vars,
                    NEW r \in Requests, req'[r].kind = "advancing",
                    \A f \in log'[req'[r].posting] : f.until < req'[r].at
             PROVE  req'[r].from = status'[req'[r].posting]
  BY DEF ReadsCurrent
<1>1. CASE req'[r] = req[r]
  <2> DEFINE p == req[r].posting
  <2>1. p \in Postings /\ req[r].at \in Nat /\ req[r].at <= requests
    BY <1>1, KindOfRequest DEF Advancing, Times, Begun, Idle
  <2>2. CASE UNCHANGED <<log, status>>
    BY <1>1, <2>2 DEF ReadsCurrent
  <2>3. ASSUME NEW q \in Requests, Record(q) \/ Advance(q)
        PROVE  req'[r].from = status'[req'[r].posting]
    <3>1. CASE p = req[q].posting
      <4>1. RowOf(q) \in log'[p] /\ RowOf(q).until = requests
        BY <2>1, <2>3, <3>1, CommittedRow
      <4>2. requests < req[r].at
        BY <1>1, <4>1
      <4> QED BY <2>1, <4>2 DEF TypeOK
    <3>2. CASE p # req[q].posting
      <4>1. log'[p] = log[p] /\ status'[p] = status[p]
        BY <2>1, <2>3, <3>2, CommittedRow, CommittedStatus
      <4> QED BY <1>1, <4>1 DEF ReadsCurrent
    <3> QED BY <3>1, <3>2
  <2> QED BY <2>2, <2>3, LogStep
<1>2. ASSUME NEW p \in Postings, NEW s \in Statuses, BeginAdvance(r, p, s)
      PROVE  req'[r].from = status'[req'[r].posting]
  BY <1>2 DEF BeginAdvance, TypeOK, Idle
<1>3. req'[r] # Idle
  BY DEF Idle
<1>4. ASSUME NEW p \in Postings, NEW f \in BOOLEAN, BeginRecord(r, p, f)
      PROVE  FALSE
  BY <1>4 DEF BeginRecord, TypeOK
<1>5. ASSUME Check(r)
      PROVE  FALSE
  BY <1>3, <1>5, KindOfRequest DEF Check, TypeOK, Underway, Recording
<1>6. ASSUME NEW g, Regroup(g), req'[r] # req[r]
      PROVE  FALSE
  BY <1>6, KindOfRequest DEF Regroup, TypeOK, Underway, Recording
<1>7. ~Open(r)
  BY OpenedIsNeither
<1> QED BY <1>1, <1>2, <1>3, <1>4, <1>5, <1>6, <1>7, SlotStep

LEMMA FilledStep == TypeOK /\ MovesOnlyApplied /\ Begun /\ LogFilled /\ [Next]_vars => LogFilled'
<1> SUFFICES ASSUME TypeOK, MovesOnlyApplied, Begun, LogFilled, [Next]_vars, NEW p \in Postings
             PROVE  log'[p] = {} <=> status'[p] = None
  BY DEF LogFilled
<1>1. CASE UNCHANGED <<log, status>>
  BY <1>1 DEF LogFilled
<1>2. ASSUME NEW r \in Requests, Record(r) \/ Advance(r)
      PROVE  log'[p] = {} <=> status'[p] = None
  <2>1. CASE p # req[r].posting
    BY <1>2, <2>1, CommittedRow, CommittedStatus DEF LogFilled
  <2>2. CASE p = req[r].posting
    <3>1. log'[p] # {}
      BY <1>2, <2>2, CommittedRow
    <3>2. Advance(r) => req[r].to \in Statuses
      BY KindOfRequest DEF Advance, Advancing
    <3>3. status'[p] # None
      BY <1>2, <2>2, <3>2, CommittedStatus DEF Statuses, None
    <3> QED BY <3>1, <3>3
  <2> QED BY <2>1, <2>2
<1> QED BY <1>1, <1>2, LogStep

\* After a commit, the end of the history tells the status.
LEMMA TellStatus ==
  ASSUME TypeOK, TypeOK', Begun, Begun', LogFilled, HistoryTells,
         NEW r \in Requests, Record(r) \/ Advance(r), NEW p \in Postings
  PROVE  Tell(log'[p], requests' + 1, status'[p])
<1> DEFINE row == RowOf(r)
<1>1. Tell(log[p], requests + 1, status[p]) /\ requests' = requests /\ requests \in Nat
  BY CommittedRow DEF HistoryTells, TypeOK
<1>2. Dated(log'[p], requests)
  BY <1>1, LogDated DEF TypeOK, Begun, Dated, Event, Times
<1>3. CASE p # req[r].posting
  BY <1>1, <1>3, CommittedRow, CommittedStatus
<1>4. CASE p = req[r].posting
  <2>1. log'[p] = log[p] \cup {row} /\ row.until = requests /\ row.at <= requests /\ row.at \in Nat
    <3>1. log'[p] = log[p] \cup {row} /\ row.until = requests /\ row.at <= requests
          /\ row.at \in Times
      BY <1>4, CommittedRow
    <3> QED BY <3>1 DEF Times
  <2>2. CASE Advance(r)
    <3>1. row.from # None /\ row.to = req[r].to
      BY <2>2, KindOfRequest DEF RowOf, Advance, Advancing, Statuses, None
    <3> QED BY <1>1, <1>2, <1>4, <2>1, <2>2, <3>1, TellNewest, CommittedStatus
  <2>3. CASE Record(r)
    <3>1. row.from = None /\ row.to = "applied"
      BY <2>3 DEF RowOf, Record
    <3>2. status'[p] = IF status[p] = None THEN "applied" ELSE status[p]
      BY <1>4, <2>3, CommittedStatus
    <3>3. CASE log[p] = {}
      <4>1. log'[p] = {row} /\ status'[p] = "applied"
        BY <2>1, <3>2, <3>3 DEF LogFilled
      <4>2. Moves({row}) = {}
        BY <3>1 DEF Moves
      <4>3. row.at < requests + 1
        BY <1>1, <2>1
      <4> QED BY <1>1, <4>1, <4>2, <4>3 DEF Tell
    <3>4. CASE log[p] # {}
      <4>1. status'[p] = status[p]
        BY <3>2, <3>4 DEF LogFilled
      <4> QED BY <1>1, <1>2, <2>1, <3>1, <3>4, <4>1, TellAgain
    <3> QED BY <3>3, <3>4
  <2> QED BY <2>2, <2>3
<1> QED BY <1>3, <1>4

\* After a commit, the rows before each uncontested transition tell what it started from.
LEMMA TellMoves ==
  ASSUME TypeOK, Begun, ReadsCurrent, HistoryTells,
         NEW r \in Requests, Record(r) \/ Advance(r), NEW p \in Postings,
         NEW e \in Moves(log'[p]), ~Contested(log'[p], e)
  PROVE  Tell(log'[p], e.at, e.from)
<1> DEFINE row == RowOf(r)
<1>1. Dated(log[p], requests) /\ requests \in Nat
  BY LogDated
<1>2. row.at \in Nat /\ row.at <= requests /\ row.until = requests
  <2>1. row.at \in Times /\ row.at <= requests /\ row.until = requests
    BY CommittedRow
  <2> QED BY <2>1 DEF Times
<1>3. e \in log'[p] /\ e.from # None
  BY DEF Moves
<1>4. log[p] \subseteq log'[p] /\ log'[p] \subseteq log[p] \cup {row}
  BY CommittedRow
<1>5. ~Contested(log[p], e)
  BY <1>4 DEF Contested
<1>6. CASE e \in log[p]
  <2>1. Tell(log[p], e.at, e.from)
    BY <1>3, <1>5, <1>6 DEF HistoryTells, Moves
  <2>2. row \in log'[p] /\ row # e => e.at < row.at
    <3>1. e.at <= requests /\ e.at <= e.until /\ e.at \in Nat /\ e.until \in Nat
      BY <1>1, <1>6 DEF Dated
    <3>2. row \in log'[p] /\ row # e => ~(row.at <= e.until /\ e.at <= row.until)
      BY DEF Contested
    <3> QED BY <1>1, <1>2, <3>1, <3>2
  <2>3. \A f \in log'[p] : f.at < e.at => f \in log[p]
    <3>1. e.at \in Nat
      BY <1>1, <1>6 DEF Dated
    <3> QED BY <1>2, <1>4, <1>6, <2>2, <3>1
  <2> QED BY <1>4, <2>1, <2>3, TellKept
<1>7. CASE e \notin log[p]
  <2>1. e = row /\ p = req[r].posting
    BY <1>3, <1>7, CommittedRow
  <2>2. Advance(r) /\ req[r].kind = "advancing" /\ e.from = req[r].from /\ e.at = req[r].at
    BY <1>3, <2>1 DEF RowOf, Record, Advance
  <2>3. \A f \in log[p] : f.until < e.at
    <3>1. \A f \in log[p] : ~(f.at <= e.until /\ e.at <= f.until)
      BY <1>4, <1>7 DEF Contested
    <3> QED BY <1>1, <1>2, <2>1, <3>1 DEF Dated
  <2>4. e.from = status[p]
    BY <2>1, <2>2, <2>3 DEF ReadsCurrent
  <2>5. \A f \in log[p] : f.at < requests + 1 /\ f.at < e.at
    BY <1>1, <1>2, <2>1, <2>3 DEF Dated
  <2>6. Tell(log[p], e.at, e.from)
    BY <2>4, <2>5, TellAll DEF HistoryTells
  <2>7. \A f \in log'[p] : f.at < e.at => f \in log[p]
    BY <1>2, <1>4, <2>1
  <2> QED BY <1>4, <2>6, <2>7, TellKept
<1> QED BY <1>6, <1>7

LEMMA HistoryStep ==
  ASSUME TypeOK, TypeOK', MovesOnlyApplied, Begun, Begun', LogFilled, ReadsCurrent,
         HistoryTells, [Next]_vars
  PROVE  HistoryTells'
<1>1. CASE UNCHANGED <<log, status>>
  <2>1. ASSUME NEW p \in Postings PROVE Tell(log[p], requests' + 1, status[p])
    <3>1. requests \in Nat /\ requests' \in Nat /\ requests <= requests'
      BY DEF TypeOK, Next, vars, Open, BeginRecord, BeginAdvance, Check, Record, Advance, Fail,
             UploadCv, Regroup
    <3>2. \A e \in log[p] : e.at < requests + 1 /\ e.at < requests' + 1
      BY <3>1, LogDated DEF Dated
    <3> QED BY <3>2, TellAll DEF HistoryTells
  <2> QED BY <1>1, <2>1 DEF HistoryTells
<1>2. ASSUME NEW r \in Requests, Record(r) \/ Advance(r)
      PROVE  HistoryTells'
  BY <1>2, TellStatus, TellMoves DEF HistoryTells
<1> QED BY <1>1, <1>2, LogStep

-----------------------------------------------------------------------------
(* Theorems *)

\* The inductive invariant of the type theorem.
LEMMA Typed == Spec => [](TypeOK /\ MovesOnlyApplied /\ Begun)
<1>1. Init => TypeOK /\ MovesOnlyApplied /\ Begun
  BY TypeInit, MovesInit DEF Init, Begun
<1>2. (TypeOK /\ MovesOnlyApplied /\ Begun) /\ [Next]_vars
      => (TypeOK /\ MovesOnlyApplied /\ Begun)'
  BY TypeStep, MovesStep, BegunStep
<1> QED BY <1>1, <1>2, PTL DEF Spec

\* Every column has its type, and exactly the applications have a CV version, whatever
\* requests overlap.
THEOREM TypeCorrect == Spec => []TypeOK
BY Typed, PTL

\* services/engagement.py record_application and advance, application_history: the shown
\* history of every application accounts for its status and for each of its transitions,
\* but for those made by requests that overlapped another one to the same application.
THEOREM HistoryExplains == Spec => []HistoryTells
<1> DEFINE Known == TypeOK /\ MovesOnlyApplied /\ Begun
           IInv == ReadsCurrent /\ LogFilled /\ HistoryTells
<1>1. Init => IInv
  <2> SUFFICES ASSUME Init PROVE IInv
    OBVIOUS
  <2>1. ReadsCurrent
    BY DEF Init, ReadsCurrent, Idle
  <2>2. LogFilled
    BY DEF Init, LogFilled
  <2>3. \A p \in Postings : Moves(log[p]) = {} /\ log[p] = {} /\ status[p] = None
    BY DEF Init, Moves
  <2>4. HistoryTells
    BY <2>3 DEF HistoryTells, Tell
  <2> QED BY <2>1, <2>2, <2>4
<1>2. Known /\ Known' /\ IInv /\ [Next]_vars => IInv'
  BY ReadsStep, FilledStep, HistoryStep
<1> QED BY <1>1, <1>2, Typed, PTL DEF Spec

\* The upsert and the transitions keep what an application already has: no step takes one
\* that has moved on back to "applied", or replaces the CV version it was recorded with.
THEOREM RecordsKept == Spec => RecordKept
<1> DEFINE Kept == \A p \in Applied : /\ status[p] # "applied" => status'[p] # "applied"
                                      /\ cv'[p] = cv[p]
<1>1. TypeOK /\ MovesOnlyApplied /\ [Next]_vars => Kept
  <2> SUFFICES ASSUME TypeOK, MovesOnlyApplied, [Next]_vars PROVE Kept
    OBVIOUS
  <2>1. ASSUME NEW r \in Requests, Record(r)
        PROVE  Kept
    BY <2>1 DEF Record, Upserted, TypeOK, Applied
  <2>2. ASSUME NEW r \in Requests, Advance(r)
        PROVE  Kept
    BY <2>2 DEF Advance, Moved, TypeOK, Applied, MovesOnlyApplied
  <2>3. CASE UNCHANGED <<status, cv>>
    BY <2>3
  <2> QED
    BY <2>1, <2>2, <2>3
    DEF Next, vars, Open, BeginRecord, BeginAdvance, Check, Fail, UploadCv, Regroup
<1> QED BY <1>1, Typed, PTL DEF Spec, RecordKept

\* _existing_application: two applications in one group, neither of them forced, were
\* recorded when no committed state told them to be one job, or while that changed.
THEOREM DuplicateGuard == Spec => []DuplicatesExcused
<1> DEFINE IInv == TypeOK /\ MovesOnlyApplied /\ Begun /\ KnowsNear /\ DuplicatesExcused
<1>1. Init => IInv
  <2>1. Init => DuplicatesExcused
    <3>1. Init => Applied = {}
      BY DEF Init, Applied
    <3>2. \A P \in Pairs : P # {}
      BY FS_EmptySet DEF Pairs
    <3> QED BY <3>1, <3>2 DEF DuplicatesExcused
  <2>2. Init => Begun
    BY DEF Init, Begun
  <2> QED BY <2>1, <2>2, TypeInit, MovesInit, KnowsInit
<1>2. IInv /\ [Next]_vars => IInv'
  BY TypeStep, MovesStep, BegunStep, KnowsStep, DuplicatesStep
<1> QED BY <1>1, <1>2, PTL DEF Spec
=============================================================================
