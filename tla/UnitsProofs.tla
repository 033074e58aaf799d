---------------------------- MODULE UnitsProofs ----------------------------
(***************************************************************************)
(* TLAPS proofs about parts that share no state: one posting, and of those  *)
(* that MCUnits checks the tailoring tools, the company directory, the      *)
(* polite HTTP client, the LLM chain and the reading of adverts.  Each is   *)
(* a specification of its own, for every value of its constants.           *)
(***************************************************************************)
EXTENDS Posting, HttpConduct, Inference, Drafting, Companies, Extraction,
        FiniteSetTheorems, SequenceTheorems, WellFoundedInduction, TLAPS

-----------------------------------------------------------------------------
(* The least of a set of naturals, and the first place of a sequence *)

LEMMA MinIsLeast ==
  ASSUME NEW S \in SUBSET Nat, S # {}
  PROVE  Min(S) \in S /\ \A n \in S : Min(S) <= n
<1>1. PICK m \in S : TRUE
  OBVIOUS
<1> DEFINE Below(k) == 1..k
           Reached == {n \in S : n <= m}
           Downs == {Below(k) : k \in Reached}
           Less == StrictSubsetOrdering(Below(m))
<1>2. Downs \in SUBSET SUBSET Below(m) /\ Downs # {}
  BY <1>1
<1>3. IsWellFoundedOn(Less, SUBSET Below(m))
  <2>1. IsFiniteSet(Below(m))
    BY <1>1, FS_Interval
  <2> HIDE DEF Below
  <2>2. FiniteSubsetsOf(Below(m)) = SUBSET Below(m)
    BY <2>1, FS_FiniteSubsetsOfFinite
  <2> QED
    BY <2>2, FS_StrictSubsetOrderingWellFounded
<1>4. PICK A \in Downs : \A B \in Downs : ~(<<B, A>> \in Less)
  <2> HIDE DEF Downs, Less, Below
  <2> QED
    BY <1>2, <1>3, WFMin, Zenon
<1>5. PICK x \in Reached : A = Below(x)
  OBVIOUS
<1>6. ASSUME NEW y \in S
      PROVE  x <= y
  <2>1. CASE y \notin Reached
    BY <1>1, <2>1
  <2>2. CASE y \in Reached /\ y < x
    <3>1. Below(y) \in Downs /\ Below(y) \subseteq Below(x) /\ x \in Below(x) /\ x \notin Below(y)
      BY <2>2, <1>1
    <3>2. <<Below(y), A>> \in Less
      <4>1. Below(y) \in SUBSET Below(m) /\ A \in SUBSET Below(m) /\ Below(y) \subseteq A /\ Below(y) # A
        BY <1>2, <1>4, <1>5, <3>1
      <4> HIDE DEF Below
      <4> QED
        BY <4>1 DEF StrictSubsetOrdering
    <3> QED
      BY <3>1, <3>2, <1>4
  <2> QED
    BY <2>1, <2>2
<1> QED
  BY <1>5, <1>6 DEF Min

LEMMA CountedUp ==
  ASSUME NEW n \in Nat, NEW K, 0 \in K, \A k \in 0..(n-1) : k \in K => k + 1 \in K
  PROVE  \A k \in 0..n : k \in K
<1> SUFFICES ASSUME (0..n) \ K # {} PROVE FALSE
  OBVIOUS
<1> DEFINE Out == (0..n) \ K
<1>1. PICK m \in Out : \A k \in Out : m <= k
  <2>1. Out \in SUBSET Nat /\ Out # {}
    OBVIOUS
  <2> HIDE DEF Out
  <2> QED BY <2>1, MinIsLeast
<1>2. m - 1 \in 0..(n-1) /\ m - 1 \in K
  BY <1>1
<1> QED BY <1>1, <1>2

LEMMA MaxIsGreatest ==
  ASSUME NEW n \in Nat, NEW S \in SUBSET (1..n), S # {}
  PROVE  Max(S) \in S /\ \A k \in S : k <= Max(S)
<1> DEFINE Below == {n - k : k \in S}
<1>1. PICK m \in Below : \A k \in Below : m <= k
  <2>1. \A k \in S : n - k \in Nat
    OBVIOUS
  <2>2. Below \in SUBSET Nat /\ Below # {}
    BY <2>1
  <2> HIDE DEF Below
  <2> QED BY <2>2, MinIsLeast
<1>2. n - m \in S
  BY <1>1
<1>3. \A k \in S : k <= n - m
  BY <1>1
<1> QED BY <1>2, <1>3 DEF Max

-----------------------------------------------------------------------------
(* A posting *)

\* _upsert_posting and run_fetch_details: a description that has been fetched is replaced by
\* another one at most, whatever else was read or listed before the write.
THEOREM BodyKept == Spec => BodyNeverErased
<1>1. ASSUME [Next]_vars, body # NoBody PROVE body' # NoBody
  <2>1. CASE Upsert
    BY <1>1, <2>1 DEF Upsert, KeptBody
  <2>2. CASE FillBody
    BY <2>2 DEF FillBody
  <2>3. CASE UNCHANGED body
    BY <1>1, <2>3
  <2> QED
    BY <1>1, <2>1, <2>2, <2>3
    DEF Next, vars, content, FetchList, FetchDetail, SelectForProbe, Probe, PersistOutcome,
        ExpirePostings, SelectForEmbedding, StoreEmbedding, Announce, Serve, Tick
<1>2. [Next]_vars => [body # NoBody => body' # NoBody]_vars
  BY <1>1
<1> QED BY <1>2, PTL DEF Spec, BodyNeverErased

-----------------------------------------------------------------------------
(* The tailoring tools *)

DraftSpec == DraftInit /\ [][DraftNext]_draftVars

\* What is shown passed the diff against the facts of the request.
ShownClean ==
  /\ shown.text \in Texts /\ Invented(shown.text) = {}
  /\ shown.status \in {"422", "503", "404"} => shown.text = <<>>

LEMMA TextIsSequence ==
  ASSUME NEW text \in Texts
  PROVE  /\ text \in Seq(Occurrences)
         /\ \A i \in DOMAIN text : text[i].claim \in Claims
<1>1. text \in Seq(Occurrences)
  <2>1. CASE text = <<>>
    BY <2>1
  <2>2. ASSUME NEW a \in Occurrences, text = <<a>>
        PROVE  text \in Seq(Occurrences)
    BY <2>2
  <2>3. ASSUME NEW a \in Occurrences, NEW b \in Occurrences, text = <<a, b>>
        PROVE  text \in Seq(Occurrences)
    BY <2>3
  <2> QED
    BY <2>1, <2>2, <2>3 DEF Texts
<1>2. \A i \in DOMAIN text : text[i] \in Occurrences
  BY <1>1
<1> QED
  BY <1>1, <1>2 DEF Occurrences

\* The name of a disclaimed claim occurs by a negation, no later than anywhere else.
LEMMA DisclaimedFirst ==
  ASSUME NEW text \in Texts, NEW i \in DOMAIN text, IsDisclaimed(text, text[i].claim)
  PROVE  \E j \in 1..i : text[j].claim = text[i].claim /\ text[j].negated
<1> DEFINE Where == {j \in 1..Len(text) : text[j].claim = text[i].claim}
<1>1. i \in Where /\ Where \in SUBSET Nat
  BY TextIsSequence
<1>2. Min(Where) \in Where /\ Min(Where) <= i
  BY <1>1, MinIsLeast
<1>3. text[Min(Where)].negated
  BY <1>1 DEF IsDisclaimed, SelectInSeq
<1> QED
  BY <1>2, <1>3, <1>1

LEMMA CleanInvents ==
  ASSUME ShownClean
  PROVE  NothingInvented
<1> SUFFICES ASSUME NEW i \in DOMAIN shown.text, shown.text[i].whole
             PROVE  LET c == shown.text[i].claim
                        upto == {j \in 1..i : shown.text[j].claim = c}
                    IN  \/ c \in facts.cv
                        \/ c.kind \in {"employer", "date", "figure"} /\ c \in facts.posting
                        \/ c.kind = "skill" /\ \E j \in upto : shown.text[j].negated
                        \/ c.kind = "skill" /\ c.token \notin Taxonomy
                        \/ c.kind = "employer" /\ c.token \notin EmployerNames
  BY DEF ShownClean, NothingInvented
<1> DEFINE c == shown.text[i].claim
<1>1. c \in Claims /\ c.kind \in Kinds
  BY TextIsSequence, DraftingAssumption DEF ShownClean
<1>2. c \notin Invented(shown.text)
  BY DEF ShownClean
<1>3. \/ ~IsKnown(c)
      \/ Supports(c)
      \/ c.kind = "skill" /\ IsDisclaimed(shown.text, c)
  BY <1>2 DEF Invented, ClaimsOf
<1>4. CASE ~IsKnown(c)
  BY <1>1, <1>4 DEF IsKnown, Kinds, KnownSkills
<1>5. CASE Supports(c)
  BY <1>1, <1>5 DEF Supports, Referable, Kinds
<1>6. CASE c.kind = "skill" /\ IsDisclaimed(shown.text, c)
  BY <1>6, DisclaimedFirst DEF ShownClean
<1> QED
  BY <1>3, <1>4, <1>5, <1>6

LEMMA DraftInitClean ==
  ASSUME DraftInit
  PROVE  ShownClean
  BY DEF DraftInit, ShownClean, Nothing, Texts, Invented, ClaimsOf

LEMMA DraftStepClean ==
  ASSUME ShownClean, [DraftNext]_draftVars
  PROVE  ShownClean'
<1>1. Invented(<<>>)' = {} /\ <<>> \in Texts
  BY DEF Invented, ClaimsOf, Texts
<1>2. CASE UNCHANGED draftVars
  BY <1>2 DEF ShownClean, draftVars, Invented, IsKnown, KnownSkills, Supports, Referable
<1>3. ASSUME UNCHANGED <<facts, shown>>
      PROVE  ShownClean'
  BY <1>3 DEF ShownClean, Invented, IsKnown, KnownSkills, Supports, Referable
<1>4. ASSUME shown'.text = <<>>
      PROVE  ShownClean'
  BY <1>1, <1>4 DEF ShownClean
<1>5. ASSUME NEW tool, NEW bullet, Generate(tool, bullet)
      PROVE  ShownClean'
  BY <1>4, <1>5 DEF Generate, Refuse, Nothing
<1>6. ASSUME NEW text \in Texts, Draft(text)
      PROVE  ShownClean'
  <2>1. CASE Invented(text) = {}
    <3>1. Invented(text)' = {}
      BY <1>6, <2>1 DEF Draft, Invented, IsKnown, KnownSkills, Supports, Referable
    <3>2. shown' = [status |-> "shown", text |-> text]
      BY <1>6, <2>1 DEF Draft
    <3> QED
      BY <3>1, <3>2 DEF ShownClean
  <2>2. CASE Invented(text) # {}
    BY <1>3, <1>4, <1>6, <2>2 DEF Draft, Refuse
  <2> QED
    BY <2>1, <2>2
<1>7. CASE GenerationUnavailable
  BY <1>4, <1>7 DEF GenerationUnavailable, Refuse
<1>8. ASSUME NEW tool, Derive(tool)
      PROVE  ShownClean'
  BY <1>4, <1>8 DEF Derive
<1> QED
  BY <1>2, <1>5, <1>6, <1>7, <1>8 DEF DraftNext

\* The anti-invention contract: whatever the model drafts, and however often, a text that
\* is shown mentions nothing the CV does not bear out -- but for a skill whose name
\* occurred by a negation there or before, if only inside another word; an employer, date
\* or figure of the posting; and what the taxonomy and the companies table do not know.
THEOREM AntiInvention == DraftSpec => []NothingInvented
<1>1. DraftInit => ShownClean
  BY DraftInitClean
<1>2. ShownClean /\ [DraftNext]_draftVars => ShownClean'
  BY DraftStepClean
<1>3. ShownClean => NothingInvented
  BY CleanInvents
<1> QED
  BY <1>1, <1>2, <1>3, PTL DEF DraftSpec

-----------------------------------------------------------------------------
(* The company directory *)

CompanySpec == CompaniesInit /\ [][CompaniesNext]_companyVars

RowIds == {row.id : row \in Seeded} \cup (Runs \X Nat)
RowNames == {row.name : row \in Seeded \cup Aliases} \cup {ref.name : ref \in References}
RowDomains == {row.domain : row \in Seeded} \cup {ref.domain : ref \in References}
Rows == [id : RowIds, name : RowNames, domain : RowDomains]

Resolutions == [ref : References, id : RowIds]
Filings == [ref : References, id : RowIds, source : Runs]
Reviews == [name : RowNames, source : Runs]

Running ==
  [pc : {"running"}, known : Seq(Rows), cache : SUBSET Resolutions, made : SUBSET Rows,
   filed : SUBSET Filings, reviews : SUBSET Reviews]

CompaniesType ==
  /\ employers \in SUBSET Rows /\ IsFiniteSet(employers) /\ Seeded \subseteq employers
  /\ filed \in SUBSET Filings /\ reviewQueue \in SUBSET Reviews
  /\ ingest \in [Runs -> {Waiting, [pc |-> "finished"]} \cup Running]
  /\ \A r \in Runs : ingest[r].pc = "running" => ingest[r] \in Running /\ IsFiniteSet(ingest[r].made)

\* The rows and the reviews there are bear out that `ref` is filed under `id`.
Vouched(rows, queued, ref, id) ==
  /\ \E row \in rows : row.id = id
  /\ \/ ref.domain # NoDomain /\ \E row \in rows : row.id = id /\ row.domain = ref.domain
     \/ \E row \in rows \cup Aliases : row.id = id /\ Alike(ref.name, row.name)
     \/ \E q \in queued : Alike(ref.name, q.name)

\* They bear out that the directory knows `k`: as a row or an alias of one, or as a name
\* that was queued for review when it met a row by its domain.
Grounded(rows, queued, k) ==
  /\ \E row \in rows : row.id = k.id /\ row.domain = k.domain
  /\ \/ \E row \in rows \cup Aliases : row.id = k.id /\ row.name = k.name
     \/ \E q \in queued : q.name = k.name

FiledVouched ==
  \A p \in filed : Vouched(employers, {q \in reviewQueue : q.source = p.source}, p.ref, p.id)

\* The same of a run under way, of what it has made as well.
BornOut(rows, r, run) ==
  /\ \A k \in ToSet(run.known) : Grounded(rows, run.reviews, k)
  /\ \A c \in run.cache : Vouched(rows, run.reviews, c.ref, c.id)
  /\ \A f \in run.filed : f.source = r /\ Vouched(rows, run.reviews, f.ref, f.id)
  /\ \A q \in run.reviews : q.source = r

RunGrounded(r) == BornOut(employers \cup ingest[r].made, r, ingest[r])

RunsGrounded == \A r \in Runs : ingest[r].pc = "running" => RunGrounded(r)

\* No two rows claim a domain, those of transactions under way included.
Made(r) == IF ingest[r].pc = "running" THEN ingest[r].made ELSE {}
EveryRow == employers \cup UNION {Made(r) : r \in Runs}

DomainsOwned ==
  \A a, b \in EveryRow : a.domain = b.domain /\ a.domain # NoDomain => a = b

DirectoryInv == CompaniesType /\ FiledVouched /\ RunsGrounded /\ DomainsOwned

LEMMA VouchedGrows ==
  ASSUME NEW rows, NEW more, rows \subseteq more, NEW queued, NEW longer, queued \subseteq longer,
         NEW ref, NEW id, Vouched(rows, queued, ref, id)
  PROVE  Vouched(more, longer, ref, id)
  BY DEF Vouched

LEMMA GroundedGrows ==
  ASSUME NEW rows, NEW more, rows \subseteq more, NEW queued, NEW longer, queued \subseteq longer,
         NEW k, Grounded(rows, queued, k)
  PROVE  Grounded(more, longer, k)
  BY DEF Grounded

\* The row found is that of a company the directory knows.
LEMMA FirstIsKnown ==
  ASSUME NEW known \in Seq(Rows), NEW hits, NEW id \in FirstKnown(known, hits)
  PROVE  \E k \in ToSet(known) \cap hits : k.id = id
<1> DEFINE Places == {i \in 1..Len(known) : known[i] \in hits}
<1>1. Places # {} => Min(Places) \in Places
  <2>1. Places \in SUBSET Nat
    OBVIOUS
  <2> HIDE DEF Places
  <2> QED
    BY <2>1, MinIsLeast
<1> DEFINE first == SelectInSeq(known, LAMBDA k : k \in hits)
<1>2. first = IF Places # {} THEN Min(Places) ELSE 0
  BY DEF SelectInSeq
<1>3. FirstKnown(known, hits) = IF first = 0 THEN {} ELSE {known[first].id}
  BY DEF FirstKnown
<1> HIDE DEF first
<1>4. first \in Places /\ id = known[first].id
  BY <1>1, <1>2, <1>3
<1>5. first \in DOMAIN known /\ known[first] \in hits
  BY <1>4
<1> QED
  BY <1>4, <1>5 DEF ToSet

\* Resolution finds only what the directory bears out.
LEMMA ResolveVouched ==
  ASSUME NEW rows, NEW queued, NEW known \in Seq(Rows), NEW ref,
         \A k \in ToSet(known) : Grounded(rows, queued, k),
         NEW id \in Resolve(known, ref).row
  PROVE  Vouched(rows, queued, ref, id)
<1> DEFINE sameDomain == {k \in ToSet(known) : ref.domain # NoDomain /\ k.domain = ref.domain}
           sameName == {k \in ToSet(known) : k.name = ref.name}
           subset == \E k \in ToSet(known) : StrictSubset(ref.name, k.name)
           near == {k \in Best(known, ref.name) : Likeness(ref.name, k.name) >= FuzzyThreshold}
<1>1. \/ id \in FirstKnown(known, sameDomain)
      \/ id \in FirstKnown(known, sameName)
      \/ ~subset /\ near # {} /\ id = (CHOOSE k \in near : TRUE).id
  <2> DEFINE byDomain == FirstKnown(known, sameDomain)
             byName == FirstKnown(known, sameName)
             doubt == \E k \in ToSet(known) : Likeness(ref.name, k.name) >= ReviewThreshold
  <2>1. Resolve(known, ref) =
          IF byDomain # {} THEN [row |-> byDomain, review |-> FALSE]
          ELSE IF ref.name = {} THEN [row |-> {}, review |-> TRUE]
          ELSE IF byName # {} THEN [row |-> byName, review |-> FALSE]
          ELSE IF ~subset /\ near # {} THEN [row |-> {(CHOOSE k \in near : TRUE).id}, review |-> FALSE]
          ELSE [row |-> {}, review |-> subset \/ doubt]
    BY DEF Resolve
  <2> HIDE DEF byDomain, byName, subset, near, doubt
  <2>2. CASE byDomain # {}
    <3>1. Resolve(known, ref) = [row |-> byDomain, review |-> FALSE]
      BY <2>1, <2>2
    <3>2. Resolve(known, ref).row = byDomain
      BY <3>1
    <3> QED BY <3>2 DEF byDomain
  <2>3. ASSUME byDomain = {}, ref.name = {} PROVE FALSE
    <3>1. Resolve(known, ref) = [row |-> {}, review |-> TRUE]
      BY <2>1, <2>3
    <3>2. Resolve(known, ref).row = {}
      BY <3>1
    <3> QED BY <3>2
  <2>4. CASE byDomain = {} /\ byName # {}
    BY <2>1, <2>3, <2>4 DEF byName
  <2>5. CASE byDomain = {} /\ byName = {}
    BY <2>1, <2>3, <2>5
  <2> QED
    BY <2>2, <2>4, <2>5
<1>2. CASE id \in FirstKnown(known, sameDomain)
  <2>1. PICK k \in sameDomain : k.id = id
    BY <1>2, FirstIsKnown
  <2> QED
    BY <2>1 DEF Grounded, Vouched
<1>3. ASSUME NEW k \in ToSet(known), k.id = id, Alike(ref.name, k.name)
      PROVE  Vouched(rows, queued, ref, id)
  BY <1>3 DEF Grounded, Vouched
<1>4. CASE id \in FirstKnown(known, sameName)
  <2>1. PICK k \in sameName : k.id = id
    BY <1>4, FirstIsKnown
  <2> QED
    BY <2>1, <1>3 DEF Alike
<1>5. CASE ~subset /\ near # {} /\ id = (CHOOSE k \in near : TRUE).id
  <2>1. PICK k \in near : k.id = id
    BY <1>5
  <2>2. k \in ToSet(known)
    BY DEF Best
  <2> QED
    BY <1>5, <2>1, <2>2, <1>3 DEF Alike
<1> QED
  BY <1>1, <1>2, <1>4, <1>5

LEMMA SeedIsRow ==
  Seeded \in SUBSET Rows /\ Aliases \in SUBSET Rows
<1>1. \A row \in Seeded : row \in Rows
  BY CompaniesAssumption DEF Rows, RowIds, RowNames, RowDomains
<1>2. \A a \in Aliases : a \in Rows
  <2> SUFFICES ASSUME NEW a \in Aliases
               PROVE  a \in Rows
    OBVIOUS
  <2>1. PICK row \in Seeded : row.id = a.id /\ row.domain = a.domain
    BY CompaniesAssumption
  <2>2. a = [id |-> a.id, name |-> a.name, domain |-> a.domain]
    BY CompaniesAssumption
  <2> QED
    BY <2>1, <2>2 DEF Rows, RowIds, RowNames, RowDomains
<1> QED
  BY <1>1, <1>2

\* What _create() leaves of a run: the row it files under claims the domain already, and
\* then the name is queued, or it is a new one.
Creates(r, ref, claimed, run, next) ==
  \E row \in Rows :
    /\ row.domain = ref.domain
    /\ next \in Running /\ IsFiniteSet(next.made)
    /\ next.known = Append(run.known, [id |-> row.id, name |-> ref.name, domain |-> ref.domain])
    /\ next.cache = run.cache \cup {[ref |-> ref, id |-> row.id]}
    /\ next.filed = run.filed \cup {[ref |-> ref, id |-> row.id, source |-> r]}
    /\ \/ /\ claimed = {} /\ row.name = ref.name
          /\ next.made = run.made \cup {row}
          /\ \/ next.reviews = run.reviews
             \/ next.reviews = run.reviews \cup {[name |-> ref.name, source |-> r]}
       \/ /\ row \in claimed /\ next.made = run.made
          /\ next.reviews = run.reviews \cup {[name |-> ref.name, source |-> r]}

LEMMA CreateRowLeaves ==
  ASSUME CompaniesType, NEW r \in Runs, ingest[r].pc = "running", NEW ref \in References,
         NEW review \in BOOLEAN,
         NEW run, run = ingest[r],
         NEW next, next = CreateRow(r, ref, review),
         NEW claimed, claimed = Claimants(employers \cup run.made, ref.domain)
  PROVE  Creates(r, ref, claimed, run, next)
<1> DEFINE fresh == [id |-> NewId(r), name |-> ref.name, domain |-> ref.domain]
           row == IF claimed = {} THEN fresh ELSE CHOOSE c \in claimed : TRUE
           queue == run.reviews \cup {[name |-> ref.name, source |-> r]}
<1>1. run \in Running /\ IsFiniteSet(run.made) /\ employers \in SUBSET Rows
  BY DEF CompaniesType
<1>2. fresh \in Rows
  <2>1. NewId(r) \in RowIds
    BY <1>1, FS_CardinalityType DEF NewId, RowIds
  <2> QED
    BY <2>1 DEF Rows, RowNames, RowDomains
<1>3. claimed \in SUBSET Rows /\ \A c \in claimed : c.domain = ref.domain
  BY <1>1 DEF Claimants, Running
<1>4. row \in Rows /\ row.domain = ref.domain /\ (claimed # {} => row \in claimed)
  BY <1>2, <1>3
<1>5. claimed = {} => row.name = ref.name
  OBVIOUS
<1>6. next = [run EXCEPT
                !.made = IF claimed = {} THEN @ \cup {row} ELSE @,
                !.known = Append(@, [id |-> row.id, name |-> ref.name, domain |-> ref.domain]),
                !.cache = @ \cup {[ref |-> ref, id |-> row.id]},
                !.filed = @ \cup {[ref |-> ref, id |-> row.id, source |-> r]},
                !.reviews = IF NeedsReview(review, claimed) THEN queue ELSE @]
  BY DEF CreateRow
<1> HIDE DEF row, queue
<1>7. next = [pc |-> "running",
              known |-> Append(run.known, [id |-> row.id, name |-> ref.name, domain |-> ref.domain]),
              cache |-> run.cache \cup {[ref |-> ref, id |-> row.id]},
              made |-> IF claimed = {} THEN run.made \cup {row} ELSE run.made,
              filed |-> run.filed \cup {[ref |-> ref, id |-> row.id, source |-> r]},
              reviews |-> IF NeedsReview(review, claimed) THEN queue ELSE run.reviews]
  BY <1>1, <1>6 DEF Running
<1>8. row.id \in RowIds /\ ref.name \in RowNames /\ ref.domain \in RowDomains
  BY <1>4 DEF Rows, RowNames, RowDomains
<1>9. next \in Running
  <2>1. Append(run.known, [id |-> row.id, name |-> ref.name, domain |-> ref.domain]) \in Seq(Rows)
    <3>1. [id |-> row.id, name |-> ref.name, domain |-> ref.domain] \in Rows
      BY <1>8 DEF Rows
    <3> QED
      BY <1>1, <3>1 DEF Running
  <2>2. run.cache \cup {[ref |-> ref, id |-> row.id]} \in SUBSET Resolutions
    BY <1>1, <1>8 DEF Running, Resolutions
  <2>3. run.filed \cup {[ref |-> ref, id |-> row.id, source |-> r]} \in SUBSET Filings
    BY <1>1, <1>8 DEF Running, Filings
  <2>4. run.reviews \in SUBSET Reviews /\ queue \in SUBSET Reviews
    BY <1>1, <1>8 DEF Running, Reviews, queue
  <2>5. run.made \in SUBSET Rows /\ run.made \cup {row} \in SUBSET Rows
    BY <1>1, <1>4 DEF Running
  <2> QED
    BY <1>7, <2>1, <2>2, <2>3, <2>4, <2>5 DEF Running
<1>10. IsFiniteSet(run.made \cup {row})
  BY <1>1, FS_AddElement
<1>11. claimed # {} => NeedsReview(review, claimed)
  BY DEF NeedsReview
<1>12. /\ row \in Rows /\ row.domain = ref.domain
       /\ next \in Running /\ IsFiniteSet(next.made)
       /\ next.known = Append(run.known, [id |-> row.id, name |-> ref.name, domain |-> ref.domain])
       /\ next.cache = run.cache \cup {[ref |-> ref, id |-> row.id]}
       /\ next.filed = run.filed \cup {[ref |-> ref, id |-> row.id, source |-> r]}
  BY <1>1, <1>4, <1>7, <1>9, <1>10
<1>13. \/ /\ claimed = {} /\ row.name = ref.name
          /\ next.made = run.made \cup {row}
          /\ next.reviews = run.reviews \/ next.reviews = queue
       \/ /\ row \in claimed /\ next.made = run.made
          /\ next.reviews = queue
  <2>1. /\ next.made = IF claimed = {} THEN run.made \cup {row} ELSE run.made
        /\ next.reviews = IF NeedsReview(review, claimed) THEN queue ELSE run.reviews
    BY <1>7
  <2>2. next.reviews = run.reviews \/ next.reviews = queue
    BY <2>1
  <2>3. claimed # {} => next.reviews = queue
    BY <2>1, <1>11
  <2> QED
    BY <1>4, <1>5, <2>1, <2>2, <2>3
<1> QED
  BY <1>12, <1>13 DEF queue, Creates

LEMMA DirectoryStarts ==
  ASSUME CompaniesInit
  PROVE  DirectoryInv
<1>1. CompaniesType
  BY SeedIsRow, CompaniesAssumption DEF CompaniesInit, CompaniesType, Waiting
<1>2. FiledVouched /\ RunsGrounded
  BY DEF CompaniesInit, FiledVouched, RunsGrounded, Waiting
<1>3. DomainsOwned
  <2>1. EveryRow = Seeded
    BY DEF CompaniesInit, EveryRow, Made, Waiting
  <2> QED
    BY <2>1, CompaniesAssumption DEF DomainsOwned, NoDomain
<1> QED
  BY <1>1, <1>2, <1>3 DEF DirectoryInv

\* Of a run that does not move, while rows are only added.
LEMMA RunStaysGrounded ==
  ASSUME NEW o \in Runs, ingest'[o] = ingest[o], employers \subseteq employers', RunGrounded(o)
  PROVE  RunGrounded(o)'
<1> DEFINE rows == employers \cup ingest[o].made
           more == employers' \cup ingest[o].made
           queued == ingest[o].reviews
<1>1. rows \subseteq more
  OBVIOUS
<1>2. \A k \in ToSet(ingest[o].known) : Grounded(more, queued, k)
  BY <1>1, GroundedGrows DEF RunGrounded, BornOut
<1>3. \A ref, id : Vouched(rows, queued, ref, id) => Vouched(more, queued, ref, id)
  BY <1>1, VouchedGrows
<1> QED
  BY <1>2, <1>3 DEF RunGrounded, BornOut

LEMMA StartDirectory ==
  ASSUME DirectoryInv, NEW r \in Runs, StartRun(r)
  PROVE  DirectoryInv'
<1>1. PICK known \in SetToSeqs(employers \cup Aliases) :
        ingest' = [ingest EXCEPT ![r] = [pc |-> "running", known |-> known, cache |-> {}, made |-> {},
                                         filed |-> {}, reviews |-> {}]]
  BY DEF StartRun
<1>2. employers' = employers /\ filed' = filed /\ reviewQueue' = reviewQueue
  BY DEF StartRun
<1>3. known \in Seq(Rows) /\ ToSet(known) \subseteq employers \cup Aliases
  <2>1. employers \cup Aliases \in SUBSET Rows /\ IsFiniteSet(employers \cup Aliases)
    BY SeedIsRow, CompaniesAssumption, FS_Union DEF DirectoryInv, CompaniesType
  <2>2. Cardinality(employers \cup Aliases) \in Nat
    BY <2>1, FS_CardinalityType
  <2>3. known \in [1..Cardinality(employers \cup Aliases) -> employers \cup Aliases]
    BY DEF SetToSeqs
  <2>4. known \in Seq(employers \cup Aliases)
    BY <2>2, <2>3, SeqDef, Zenon
  <2> QED
    BY <2>1, <2>2, <2>3, <2>4 DEF ToSet
<1>4. \A o \in Runs \ {r} : ingest'[o] = ingest[o]
  BY <1>1 DEF DirectoryInv, CompaniesType
<1>5. ingest'[r] = [pc |-> "running", known |-> known, cache |-> {}, made |-> {}, filed |-> {},
                    reviews |-> {}]
  BY <1>1 DEF DirectoryInv, CompaniesType
<1>6. CompaniesType'
  <2>1. ingest'[r] \in Running /\ IsFiniteSet(ingest'[r].made)
    BY <1>3, <1>5, FS_EmptySet DEF Running
  <2> QED
    BY <1>1, <1>2, <1>4, <2>1 DEF DirectoryInv, CompaniesType
<1>7. RunGrounded(r)'
  <2>1. \A k \in ToSet(known) : Grounded(employers, {}, k)
    <3>1. \A k \in employers : Grounded(employers, {}, k)
      BY DEF Grounded
    <3>2. ASSUME NEW k \in Aliases
          PROVE  Grounded(employers, {}, k)
      BY CompaniesAssumption DEF Grounded, DirectoryInv, CompaniesType
    <3> QED
      BY <1>3, <3>1, <3>2
  <2> QED
    BY <1>2, <1>5, <2>1 DEF RunGrounded, BornOut
<1>8. \A o \in Runs \ {r} : ingest[o].pc = "running" => RunGrounded(o)'
  BY <1>2, <1>4, RunStaysGrounded DEF DirectoryInv, RunsGrounded
<1>9. EveryRow' = EveryRow
  BY <1>2, <1>4, <1>5 DEF EveryRow, Made, StartRun
<1> QED
  BY <1>2, <1>4, <1>6, <1>7, <1>8, <1>9 DEF DirectoryInv, FiledVouched, RunsGrounded, DomainsOwned

LEMMA CommitDirectory ==
  ASSUME DirectoryInv, NEW r \in Runs, CommitRun(r)
  PROVE  DirectoryInv'
<1> DEFINE run == ingest[r]
<1>1. /\ run \in Running /\ IsFiniteSet(run.made) /\ RunGrounded(r)
      /\ employers' = employers \cup run.made /\ filed' = filed \cup run.filed
      /\ reviewQueue' = reviewQueue \cup run.reviews
  BY DEF CommitRun, DirectoryInv, CompaniesType, RunsGrounded
<1>2. ingest'[r] = [pc |-> "finished"] /\ \A o \in Runs \ {r} : ingest'[o] = ingest[o]
  BY DEF CommitRun, DirectoryInv, CompaniesType
<1>3. CompaniesType'
  <2>1. employers' \in SUBSET Rows /\ IsFiniteSet(employers') /\ Seeded \subseteq employers'
    BY <1>1, FS_Union DEF DirectoryInv, CompaniesType, Running
  <2>2. filed' \in SUBSET Filings /\ reviewQueue' \in SUBSET Reviews
    BY <1>1 DEF DirectoryInv, CompaniesType, Running
  <2>3. /\ ingest' \in [Runs -> {Waiting, [pc |-> "finished"]} \cup Running]
        /\ \A o \in Runs : ingest'[o].pc = "running" =>
                              ingest'[o] \in Running /\ IsFiniteSet(ingest'[o].made)
    BY <1>2 DEF CommitRun, DirectoryInv, CompaniesType
  <2> QED
    BY <2>1, <2>2, <2>3 DEF CompaniesType
<1>4. FiledVouched'
  <2> SUFFICES ASSUME NEW p \in filed'
               PROVE  Vouched(employers', {q \in reviewQueue' : q.source = p.source}, p.ref, p.id)
    BY DEF FiledVouched
  <2>1. CASE p \in filed
    <3>1. Vouched(employers, {q \in reviewQueue : q.source = p.source}, p.ref, p.id)
      BY <2>1 DEF DirectoryInv, FiledVouched
    <3>2. {q \in reviewQueue : q.source = p.source} \subseteq {q \in reviewQueue' : q.source = p.source}
      BY <1>1
    <3> QED
      BY <1>1, <3>1, <3>2, VouchedGrows
  <2>2. CASE p \in run.filed
    <3>1. p.source = r /\ Vouched(employers \cup run.made, run.reviews, p.ref, p.id)
      BY <1>1, <2>2 DEF RunGrounded, BornOut
    <3>2. run.reviews \subseteq {q \in reviewQueue' : q.source = p.source}
      BY <1>1, <3>1 DEF RunGrounded, BornOut
    <3> QED
      BY <1>1, <3>1, <3>2, VouchedGrows
  <2> QED
    BY <1>1, <2>1, <2>2
<1>5. RunsGrounded'
  BY <1>1, <1>2, RunStaysGrounded DEF DirectoryInv, RunsGrounded
<1>6. EveryRow' \subseteq EveryRow
  BY <1>1, <1>2 DEF EveryRow, Made, CommitRun
<1> QED
  BY <1>3, <1>4, <1>5, <1>6 DEF DirectoryInv, DomainsOwned

LEMMA RollBackDirectory ==
  ASSUME DirectoryInv, NEW r \in Runs, RollBackRun(r)
  PROVE  DirectoryInv'
<1>1. ingest'[r] = Waiting /\ \A o \in Runs \ {r} : ingest'[o] = ingest[o]
  BY DEF RollBackRun, DirectoryInv, CompaniesType
<1>2. UNCHANGED <<employers, filed, reviewQueue>>
  BY DEF RollBackRun
<1>3. CompaniesType'
  BY <1>1, <1>2 DEF RollBackRun, DirectoryInv, CompaniesType, Waiting
<1>4. RunsGrounded'
  BY <1>1, <1>2, RunStaysGrounded DEF DirectoryInv, RunsGrounded, Waiting
<1>5. EveryRow' \subseteq EveryRow
  BY <1>1, <1>2 DEF EveryRow, Made, Waiting
<1> QED
  BY <1>2, <1>3, <1>4, <1>5 DEF DirectoryInv, DomainsOwned, FiledVouched

\* A posting whose employer is known, from the cache or by resolution.
LEMMA FoundDirectory ==
  ASSUME DirectoryInv, NEW r \in Runs, ingest[r].pc = "running",
         NEW ref \in References, NEW id,
         \/ \E c \in ingest[r].cache : c.ref = ref /\ c.id = id
         \/ id \in Resolve(ingest[r].known, ref).row,
         ingest' = [ingest EXCEPT ![r] = [ingest[r] EXCEPT
                     !.filed = @ \cup {[ref |-> ref, id |-> id, source |-> r]},
                     !.cache = @ \cup {[ref |-> ref, id |-> id]}]],
         UNCHANGED <<employers, filed, reviewQueue>>
  PROVE  DirectoryInv'
<1> DEFINE run == ingest[r]
           rows == employers \cup run.made
<1>1. run \in Running /\ IsFiniteSet(run.made) /\ employers \in SUBSET Rows /\ RunGrounded(r)
  BY DEF DirectoryInv, CompaniesType, RunsGrounded
<1>2. Vouched(rows, run.reviews, ref, id)
  <2>1. CASE \E c \in run.cache : c.ref = ref /\ c.id = id
    BY <1>1, <2>1 DEF RunGrounded, BornOut
  <2>2. CASE id \in Resolve(run.known, ref).row
    <3>1. run.known \in Seq(Rows) /\ \A k \in ToSet(run.known) : Grounded(rows, run.reviews, k)
      BY <1>1 DEF Running, RunGrounded, BornOut
    <3> HIDE DEF rows, run
    <3> QED
      BY <2>2, <3>1, ResolveVouched
  <2> QED
    BY <2>1, <2>2
<1>3. id \in RowIds
  BY <1>1, <1>2 DEF Vouched, Running, Rows
<1>4. ingest'[r] = [pc |-> "running", known |-> run.known,
                    cache |-> run.cache \cup {[ref |-> ref, id |-> id]}, made |-> run.made,
                    filed |-> run.filed \cup {[ref |-> ref, id |-> id, source |-> r]},
                    reviews |-> run.reviews]
  BY <1>1 DEF DirectoryInv, CompaniesType, Running
<1>5. \A o \in Runs \ {r} : ingest'[o] = ingest[o]
  BY DEF DirectoryInv, CompaniesType
<1>6. CompaniesType'
  <2>1. ingest'[r] \in Running /\ IsFiniteSet(ingest'[r].made)
    <3>1. run.cache \cup {[ref |-> ref, id |-> id]} \in SUBSET Resolutions
      BY <1>1, <1>3 DEF Running, Resolutions
    <3>2. run.filed \cup {[ref |-> ref, id |-> id, source |-> r]} \in SUBSET Filings
      BY <1>1, <1>3 DEF Running, Filings
    <3> QED
      BY <1>1, <1>4, <3>1, <3>2 DEF Running
  <2> QED
    BY <1>5, <2>1 DEF DirectoryInv, CompaniesType
<1>7. RunGrounded(r)'
  <2> DEFINE cached == [ref |-> ref, id |-> id]
             filing == [ref |-> ref, id |-> id, source |-> r]
  <2>1. employers' \cup ingest'[r].made = rows
    BY <1>4
  <2>2. ASSUME NEW c \in run.cache \cup {cached}
        PROVE  Vouched(rows, run.reviews, c.ref, c.id)
    <3>1. CASE c \in run.cache
      BY <1>1, <3>1 DEF RunGrounded, BornOut
    <3>2. CASE c = cached
      <4>1. c.ref = ref /\ c.id = id
        BY <3>2
      <4> QED
        BY <1>2, <4>1, Zenon
    <3> QED
      BY <3>1, <3>2
  <2>3. ASSUME NEW f \in run.filed \cup {filing}
        PROVE  f.source = r /\ Vouched(rows, run.reviews, f.ref, f.id)
    <3>1. CASE f \in run.filed
      BY <1>1, <3>1 DEF RunGrounded, BornOut
    <3>2. CASE f = filing
      <4>1. f.source = r /\ f.ref = ref /\ f.id = id
        BY <3>2
      <4> QED
        BY <1>2, <4>1, Zenon
    <3> QED
      BY <3>1, <3>2
  <2>4. BornOut(rows, r, ingest'[r])
    <3>1. /\ ingest'[r].known = run.known /\ ingest'[r].reviews = run.reviews
          /\ ingest'[r].cache = run.cache \cup {cached}
          /\ ingest'[r].filed = run.filed \cup {filing}
      BY <1>4
    <3>2. BornOut(rows, r, run)
      BY <1>1 DEF RunGrounded
    <3> HIDE DEF rows, run, cached, filing
    <3> QED
      BY <2>2, <2>3, <3>1, <3>2 DEF BornOut
  <2> QED
    BY <2>1, <2>4 DEF RunGrounded
<1>8. RunsGrounded'
  BY <1>5, <1>7, RunStaysGrounded DEF DirectoryInv, RunsGrounded
<1>9. EveryRow' = EveryRow
  BY <1>4, <1>5 DEF EveryRow, Made
<1> QED
  BY <1>6, <1>8, <1>9 DEF DirectoryInv, DomainsOwned, FiledVouched

\* A posting whose employer is not: a new row, whose domain no transaction claims, or the
\* row that has its domain, and then the name is queued for review.
LEMMA CreateDirectory ==
  ASSUME DirectoryInv, NEW r \in Runs, ingest[r].pc = "running",
         NEW ref \in References, NEW review \in BOOLEAN,
         Claimants(Unsettled(r), ref.domain) = {},
         ingest' = [ingest EXCEPT ![r] = CreateRow(r, ref, review)],
         UNCHANGED <<employers, filed, reviewQueue>>
  PROVE  DirectoryInv'
<1> DEFINE run == ingest[r]
           next == ingest'[r]
           claimed == Claimants(employers \cup run.made, ref.domain)
           rows == employers \cup run.made
           more == employers \cup next.made
<1>1. run \in Running /\ employers \in SUBSET Rows /\ BornOut(rows, r, run)
  BY DEF DirectoryInv, CompaniesType, RunsGrounded, RunGrounded
<1>2. next = CreateRow(r, ref, review) /\ \A o \in Runs \ {r} : ingest'[o] = ingest[o]
  BY DEF DirectoryInv, CompaniesType
<1>3. PICK row \in Rows :
         /\ row.domain = ref.domain
         /\ next \in Running /\ IsFiniteSet(next.made)
         /\ next.known = Append(run.known, [id |-> row.id, name |-> ref.name, domain |-> ref.domain])
         /\ next.cache = run.cache \cup {[ref |-> ref, id |-> row.id]}
         /\ next.filed = run.filed \cup {[ref |-> ref, id |-> row.id, source |-> r]}
         /\ \/ /\ claimed = {} /\ row.name = ref.name
               /\ next.made = run.made \cup {row}
               /\ \/ next.reviews = run.reviews
                  \/ next.reviews = run.reviews \cup {[name |-> ref.name, source |-> r]}
            \/ /\ row \in claimed /\ next.made = run.made
               /\ next.reviews = run.reviews \cup {[name |-> ref.name, source |-> r]}
  <2>1. Creates(r, ref, claimed, run, next)
    BY <1>2, CreateRowLeaves DEF DirectoryInv
  <2> QED
    BY <2>1 DEF Creates
<1>4. CompaniesType'
  BY <1>2, <1>3 DEF DirectoryInv, CompaniesType
<1>5. rows \subseteq more /\ run.reviews \subseteq next.reviews /\ row \in more
  BY <1>3 DEF Claimants
<1>6. \/ row.name = ref.name
      \/ \E q \in next.reviews : q.name = ref.name
  <2> DEFINE queued == [name |-> ref.name, source |-> r]
  <2>1. queued.name = ref.name
    OBVIOUS
  <2>2. row.name = ref.name \/ next.reviews = run.reviews \cup {queued}
    BY <1>3
  <2> HIDE DEF queued
  <2> QED
    BY <2>1, <2>2
<1>7. Vouched(more, next.reviews, ref, row.id)
  <2>1. row.id = row.id /\ Alike(ref.name, ref.name)
    BY DEF Alike
  <2> QED
    BY <1>5, <1>6, <2>1 DEF Vouched
<1>8. \A q \in next.reviews : q.source = r
  BY <1>1, <1>3 DEF BornOut
<1>9. \A k \in ToSet(next.known) : Grounded(more, next.reviews, k)
  <2> DEFINE learnt == [id |-> row.id, name |-> ref.name, domain |-> ref.domain]
  <2>1. Grounded(more, next.reviews, learnt)
    <3>1. learnt.id = row.id /\ learnt.name = ref.name /\ learnt.domain = row.domain
      BY <1>3
    <3> QED
      BY <1>5, <1>6, <3>1 DEF Grounded
  <2>2. ToSet(next.known) = ToSet(run.known) \cup {learnt}
    <3>1. run.known \in Seq(Rows)
      BY <1>1 DEF Running
    <3>2. learnt \in Rows
      BY <1>3 DEF Rows, RowNames
    <3>3. next.known = Append(run.known, learnt)
      BY <1>3
    <3> HIDE DEF run, next, learnt
    <3> QED
      BY <3>1, <3>2, <3>3 DEF ToSet
  <2>3. \A k \in ToSet(run.known) : Grounded(more, next.reviews, k)
    <3>1. \A k \in ToSet(run.known) : Grounded(rows, run.reviews, k)
      BY <1>1 DEF BornOut
    <3> HIDE DEF rows, more, run, next
    <3> QED
      BY <1>5, <3>1, GroundedGrows
  <2> QED
    BY <2>1, <2>2, <2>3
<1>10. ASSUME NEW a, NEW b, Vouched(rows, run.reviews, a, b)
       PROVE  Vouched(more, next.reviews, a, b)
  <2> HIDE DEF rows, more, run, next
  <2> QED
    BY <1>5, <1>10, VouchedGrows
<1>11. \A c \in next.cache : Vouched(more, next.reviews, c.ref, c.id)
  <2> DEFINE cached == [ref |-> ref, id |-> row.id]
  <2>1. next.cache = run.cache \cup {cached} /\ cached.ref = ref /\ cached.id = row.id
    BY <1>3
  <2>2. \A c \in run.cache : Vouched(more, next.reviews, c.ref, c.id)
    BY <1>1, <1>10 DEF BornOut
  <2> HIDE DEF rows, more, run, next, cached
  <2> QED
    BY <1>7, <2>1, <2>2, Zenon
<1>12. \A f \in next.filed : f.source = r /\ Vouched(more, next.reviews, f.ref, f.id)
  <2> DEFINE filing == [ref |-> ref, id |-> row.id, source |-> r]
  <2>1. next.filed = run.filed \cup {filing} /\ filing.ref = ref /\ filing.id = row.id /\ filing.source = r
    BY <1>3
  <2>2. \A f \in run.filed : f.source = r /\ Vouched(more, next.reviews, f.ref, f.id)
    BY <1>1, <1>10 DEF BornOut
  <2> HIDE DEF rows, more, run, next, filing
  <2> QED
    BY <1>7, <2>1, <2>2, Zenon
<1>13. RunGrounded(r)'
  <2>1. BornOut(more, r, next)
    BY <1>8, <1>9, <1>11, <1>12 DEF BornOut
  <2> QED
    BY <2>1 DEF RunGrounded
<1>14. RunsGrounded'
  BY <1>2, <1>13, RunStaysGrounded DEF DirectoryInv, RunsGrounded
<1>15. DomainsOwned'
  <2>1. CASE row \in claimed /\ next.made = run.made
    <3>1. next.pc = "running"
      BY <1>3 DEF Running
    <3>2. EveryRow' = EveryRow
      BY <1>2, <2>1, <3>1 DEF EveryRow, Made
    <3> QED
      BY <3>2 DEF DirectoryInv, DomainsOwned
  <2>2. CASE claimed = {} /\ next.made = run.made \cup {row}
    <3>1. next.pc = "running"
      BY <1>3 DEF Running
    <3>2. EveryRow' = EveryRow \cup {row}
      BY <1>2, <2>2, <3>1 DEF EveryRow, Made
    <3>3. \A a \in EveryRow : ref.domain # NoDomain => a.domain # ref.domain
      BY <2>2 DEF EveryRow, Made, Claimants, Unsettled
    <3> QED
      BY <1>3, <3>2, <3>3 DEF DirectoryInv, DomainsOwned
  <2> QED
    BY <1>3, <2>1, <2>2
<1> QED
  BY <1>4, <1>14, <1>15 DEF DirectoryInv, FiledVouched

LEMMA ResolveDirectory ==
  ASSUME DirectoryInv, NEW r \in Runs, NEW ref \in References, ResolveOrCreate(r, ref)
  PROVE  DirectoryInv'
<1> DEFINE run == ingest[r]
           cached == {c.id : c \in {c \in run.cache : c.ref = ref}}
           found == IF cached # {} THEN [row |-> cached, review |-> FALSE] ELSE Resolve(run.known, ref)
           id == CHOOSE i \in found.row : TRUE
<1>1. /\ run.pc = "running"
      /\ found.row = {} => Claimants(Unsettled(r), ref.domain) = {}
      /\ ingest' = [ingest EXCEPT ![r] =
           IF found.row = {} THEN CreateRow(r, ref, found.review)
           ELSE [run EXCEPT !.filed = @ \cup {[ref |-> ref, id |-> id, source |-> r]},
                            !.cache = @ \cup {[ref |-> ref, id |-> id]}]]
      /\ UNCHANGED <<employers, filed, reviewQueue>>
  BY DEF ResolveOrCreate
<1>2. found.review \in BOOLEAN
  <2>1. CASE cached # {}
    BY <2>1
  <2>2. CASE cached = {}
    <3>1. Resolve(run.known, ref).review \in BOOLEAN
      <4> DEFINE byDomain == FirstKnown(run.known, {k \in ToSet(run.known) : ref.domain # NoDomain /\ k.domain = ref.domain})
                 byName == FirstKnown(run.known, {k \in ToSet(run.known) : k.name = ref.name})
                 subset == \E k \in ToSet(run.known) : StrictSubset(ref.name, k.name)
                 near == {k \in Best(run.known, ref.name) : Likeness(ref.name, k.name) >= FuzzyThreshold}
                 doubt == \E k \in ToSet(run.known) : Likeness(ref.name, k.name) >= ReviewThreshold
                 row == {(CHOOSE k \in near : TRUE).id}
                 asks == subset \/ doubt
      <4>1. Resolve(run.known, ref) =
              IF byDomain # {} THEN [row |-> byDomain, review |-> FALSE]
              ELSE IF ref.name = {} THEN [row |-> {}, review |-> TRUE]
              ELSE IF byName # {} THEN [row |-> byName, review |-> FALSE]
              ELSE IF ~subset /\ near # {} THEN [row |-> row, review |-> FALSE]
              ELSE [row |-> {}, review |-> asks]
        BY DEF Resolve
      <4>2. asks \in BOOLEAN
        OBVIOUS
      <4> HIDE DEF byDomain, byName, subset, near, row, asks
      <4>3. Resolve(run.known, ref).review \in {FALSE, TRUE, asks}
        <5>1. CASE byDomain # {}
          BY <4>1, <5>1
        <5>2. CASE byDomain = {} /\ ref.name = {}
          BY <4>1, <5>2
        <5>3. CASE byDomain = {} /\ ref.name # {} /\ byName # {}
          BY <4>1, <5>3
        <5>4. CASE byDomain = {} /\ ref.name # {} /\ byName = {} /\ ~subset /\ near # {}
          BY <4>1, <5>4
        <5>5. CASE byDomain = {} /\ ref.name # {} /\ byName = {} /\ ~(~subset /\ near # {})
          BY <4>1, <5>5
        <5> QED
          BY <5>1, <5>2, <5>3, <5>4, <5>5
      <4> QED
        BY <4>2, <4>3
    <3> HIDE DEF cached, run
    <3> QED
      BY <2>2, <3>1
  <2> QED
    BY <2>1, <2>2
<1>3. CASE found.row = {}
  <2>1. ingest' = [ingest EXCEPT ![r] = CreateRow(r, ref, found.review)]
    BY <1>1, <1>3
  <2> HIDE DEF found
  <2> QED
    BY <1>1, <1>2, <1>3, <2>1, CreateDirectory
<1>4. CASE found.row # {}
  <2>1. id \in found.row
    BY <1>4
  <2>2. \/ \E c \in run.cache : c.ref = ref /\ c.id = id
        \/ id \in Resolve(run.known, ref).row
    <3>1. CASE cached # {}
      <4>1. found.row = cached
        BY <3>1
      <4> HIDE DEF id, found
      <4> QED
        BY <2>1, <4>1
    <3>2. CASE cached = {}
      <4>1. found = Resolve(run.known, ref)
        BY <3>2
      <4> HIDE DEF id, found
      <4> QED
        BY <2>1, <4>1
    <3> QED
      BY <3>1, <3>2
  <2>3. ingest' = [ingest EXCEPT ![r] = [ingest[r] EXCEPT
                     !.filed = @ \cup {[ref |-> ref, id |-> id, source |-> r]},
                     !.cache = @ \cup {[ref |-> ref, id |-> id]}]]
    BY <1>1, <1>4
  <2> HIDE DEF id, found
  <2> QED
    BY <1>1, <2>2, <2>3, FoundDirectory
<1> QED
  BY <1>3, <1>4

LEMMA DirectoryStays ==
  ASSUME DirectoryInv, [CompaniesNext]_companyVars
  PROVE  DirectoryInv'
<1>1. CASE UNCHANGED companyVars
  <2>1. employers' = employers /\ ingest' = ingest /\ filed' = filed /\ reviewQueue' = reviewQueue
    BY <1>1 DEF companyVars
  <2>2. CompaniesType' /\ FiledVouched'
    BY <2>1 DEF DirectoryInv, CompaniesType, FiledVouched
  <2>3. RunsGrounded'
    BY <2>1, RunStaysGrounded DEF DirectoryInv, RunsGrounded
  <2>4. DomainsOwned'
    BY <2>1 DEF DirectoryInv, DomainsOwned, EveryRow, Made
  <2> QED
    BY <2>2, <2>3, <2>4 DEF DirectoryInv
<1> QED
  BY <1>1, StartDirectory, CommitDirectory, RollBackDirectory, ResolveDirectory DEF CompaniesNext

\* However ingestion runs overlap, commit, roll back and start again: a posting is filed
\* under an employer that exists, never under one of another name on a guess a human is
\* not shown, and no two employers claim a domain.
THEOREM NeverMergedSilently == CompanySpec => []NoSilentMerge
<1>1. CompaniesInit => DirectoryInv
  BY DirectoryStarts
<1>2. DirectoryInv /\ [CompaniesNext]_companyVars => DirectoryInv'
  BY DirectoryStays
<1>3. DirectoryInv => NoSilentMerge
  <2> SUFFICES ASSUME DirectoryInv
               PROVE  NoSilentMerge
    OBVIOUS
  <2>1. \A a, b \in employers : a.domain = b.domain /\ a.domain # NoDomain => a = b
    BY DEF DirectoryInv, DomainsOwned, EveryRow
  <2>2. ASSUME NEW p \in filed
        PROVE  /\ \E e \in employers : e.id = p.id
               /\ \/ p.ref.domain # NoDomain /\ p.ref.domain \in DomainsOf(p.id)
                  \/ \E name \in NamesOf(p.id) \cup Reviewed(p.source) : Alike(p.ref.name, name)
    <3>1. Vouched(employers, {q \in reviewQueue : q.source = p.source}, p.ref, p.id)
      BY DEF DirectoryInv, FiledVouched
    <3> QED
      BY <3>1 DEF Vouched, DomainsOf, NamesOf, Reviewed
  <2> QED
    BY <2>1, <2>2 DEF NoSilentMerge
<1> QED
  BY <1>1, <1>2, <1>3, PTL DEF CompanySpec

-----------------------------------------------------------------------------
(* The polite HTTP client *)

HttpSpec == HttpInit /\ [][HttpNext]_httpVars

Calls ==
  [pc : {"budget", "queue", "waiting", "sent", "backoff"}, host : Hosts, budget : Budgets,
   purpose : {"page", "robots"}, hurried : BOOLEAN, attempt : Nat, backoff : Nat,
   until : Int, granted : Int, after : Int]

Turns ==
  [at : Int, host : Hosts, budget : Budgets, granted : Int, attempt : Nat, after : Int]

HttpType ==
  /\ now \in Nat /\ turns \in Seq(Turns)
  /\ thread \in [Threads -> {Idle, Done} \cup Calls]
  /\ lastTurn \in [Hosts -> Int]
  /\ holder \in [Hosts -> Threads \cup {Nobody}]
  /\ granted \in [Budgets -> Seq(Int)]

Calling(t) == thread[t] \in Calls

\* A thread that waits for its turn holds the host and waits for the interval.
WaitsHold ==
  \A t \in Threads :
    thread[t].pc = "waiting" =>
      /\ holder[thread[t].host] = t
      /\ thread[t].until = lastTurn[thread[t].host] + Interval

\* The turns of a host are apart, and its last is the latest.
TurnsApart ==
  /\ \A i \in DOMAIN turns : turns[i].at <= lastTurn[turns[i].host]
  /\ \A i, j \in DOMAIN turns :
       i < j /\ turns[i].host = turns[j].host => turns[j].at - turns[i].at >= Interval

\* A call is past the pause it was told of once it queues again.
PausesKept ==
  /\ \A t \in Threads : Calling(t) =>
       /\ thread[t].attempt <= Retries
       /\ thread[t].pc \in {"budget", "queue", "waiting"} => thread[t].after <= now
       /\ thread[t].pc = "backoff" => thread[t].after <= thread[t].until
  /\ \A i \in DOMAIN turns : turns[i].attempt <= Retries /\ turns[i].at >= turns[i].after

\* Threads that were granted a request and have not sent it.
Granted(t) == Calling(t) /\ thread[t].pc \in {"queue", "waiting"}

TurnsIn(b, from, till) ==
  {i \in DOMAIN turns : turns[i].budget = b /\ from <= turns[i].granted /\ turns[i].granted < till}
HeldIn(b, from, till) ==
  {t \in Threads : Granted(t) /\ thread[t].budget = b /\ from <= thread[t].granted /\ thread[t].granted < till}
ListedSince(b, from) == {k \in DOMAIN granted[b] : granted[b][k] >= from}

Spent(b, from, till) == Cardinality(TurnsIn(b, from, till)) + Cardinality(HeldIn(b, from, till))

\* Nothing was granted in the future.
GrantsPast ==
  /\ \A i \in DOMAIN turns : turns[i].granted <= now
  /\ \A t \in Threads : Granted(t) => thread[t].granted <= now

\* What was granted in the last window is on the budget's list, however often it was pruned.
GrantsListed ==
  \A b \in Budgets, from \in Int :
    now < from + Window => Spent(b, from, now + 1) <= Cardinality(ListedSince(b, from))

\* No window, wherever it begins, holds more grants than the rate.
GrantsCapped ==
  \A b \in Budgets, from \in Int : Spent(b, from, from + Window) <= Rpm

TurnInv == HttpType /\ WaitsHold /\ TurnsApart /\ PausesKept
RateInv == GrantsPast /\ GrantsListed /\ GrantsCapped
HttpInv == TurnInv /\ RateInv

LEMMA CallingBy ==
  ASSUME HttpType, NEW t \in Threads
  PROVE  /\ Calling(t) <=> thread[t].pc \in {"budget", "queue", "waiting", "sent", "backoff"}
         /\ thread[t] = Idle \/ thread[t] = Done \/ Calling(t)
  BY DEF HttpType, Calling, Calls, Idle, Done

LEMMA GrantTimes ==
  ASSUME HttpType
  PROVE  /\ \A i \in DOMAIN turns : turns[i].granted \in Int
         /\ \A t \in Threads : Granted(t) => thread[t].granted \in Int
<1>1. \A i \in DOMAIN turns : turns[i] \in Turns
  BY DEF HttpType
<1>2. \A i \in DOMAIN turns : turns[i].granted \in Int
  BY <1>1 DEF Turns
<1> QED
  BY <1>2 DEF Granted, Calling, Calls

LEMMA HttpStarts ==
  ASSUME HttpInit
  PROVE  HttpInv
<1>1. HttpType
  BY HttpAssumption DEF HttpInit, HttpType
<1>2. \A t \in Threads : ~Calling(t) /\ thread[t].pc = "idle"
  BY <1>1, CallingBy DEF HttpInit, Idle
<1>3. WaitsHold /\ TurnsApart /\ PausesKept
  BY <1>2 DEF HttpInit, WaitsHold, TurnsApart, PausesKept
<1>4. GrantsPast
  BY <1>2 DEF HttpInit, GrantsPast, Granted
<1>5. \A b \in Budgets, from, till \in Int : Spent(b, from, till) = 0
  <2> SUFFICES ASSUME NEW b \in Budgets, NEW from \in Int, NEW till \in Int
               PROVE  Spent(b, from, till) = 0
    OBVIOUS
  <2>1. TurnsIn(b, from, till) = {} /\ HeldIn(b, from, till) = {}
    BY <1>2 DEF HttpInit, TurnsIn, HeldIn, Granted
  <2> QED
    BY <2>1, FS_EmptySet DEF Spent
<1>6. \A b \in Budgets, from \in Int : Cardinality(ListedSince(b, from)) = 0
  <2> SUFFICES ASSUME NEW b \in Budgets, NEW from \in Int
               PROVE  Cardinality(ListedSince(b, from)) = 0
    OBVIOUS
  <2>1. ListedSince(b, from) = {}
    BY DEF HttpInit, ListedSince
  <2> QED
    BY <2>1, FS_EmptySet
<1>7. GrantsListed
  BY <1>1, <1>5, <1>6 DEF GrantsListed, HttpType
<1>8. GrantsCapped
  BY <1>5, HttpAssumption DEF GrantsCapped
<1> QED
  BY <1>1, <1>3, <1>4, <1>7, <1>8 DEF HttpInv, TurnInv, RateInv

\* What is counted is finite.
LEMMA CountsFinite ==
  ASSUME HttpType, NEW b \in Budgets, NEW from, NEW till
  PROVE  /\ IsFiniteSet(TurnsIn(b, from, till)) /\ Cardinality(TurnsIn(b, from, till)) \in Nat
         /\ IsFiniteSet(HeldIn(b, from, till)) /\ Cardinality(HeldIn(b, from, till)) \in Nat
         /\ IsFiniteSet(ListedSince(b, from)) /\ Cardinality(ListedSince(b, from)) \in Nat
         /\ Spent(b, from, till) \in Nat
<1>1. IsFiniteSet(TurnsIn(b, from, till))
  <2>1. TurnsIn(b, from, till) \subseteq 1..Len(turns) /\ Len(turns) \in Nat
    BY DEF TurnsIn, HttpType
  <2>2. IsFiniteSet(1..Len(turns))
    BY <2>1, FS_Interval
  <2> QED
    BY <2>1, <2>2, FS_Subset
<1>2. IsFiniteSet(HeldIn(b, from, till))
  <2>1. HeldIn(b, from, till) \subseteq Threads
    BY DEF HeldIn
  <2> QED
    BY <2>1, HttpAssumption, FS_Subset
<1>3. IsFiniteSet(ListedSince(b, from))
  <2>1. ListedSince(b, from) \subseteq 1..Len(granted[b]) /\ Len(granted[b]) \in Nat
    BY DEF ListedSince, HttpType
  <2>2. IsFiniteSet(1..Len(granted[b]))
    BY <2>1, FS_Interval
  <2> QED
    BY <2>1, <2>2, FS_Subset
<1> QED
  BY <1>1, <1>2, <1>3, FS_CardinalityType DEF Spent

\* A step that grants and sends nothing keeps the counts.
LEMMA RateKept ==
  ASSUME HttpInv, UNCHANGED <<now, turns, granted>>,
         \A t \in Threads : /\ Granted(t)' <=> Granted(t)
                            /\ Granted(t) => /\ thread'[t].budget = thread[t].budget
                                             /\ thread'[t].granted = thread[t].granted
  PROVE  RateInv'
<1>1. \A b, from, till : TurnsIn(b, from, till)' = TurnsIn(b, from, till)
  BY DEF TurnsIn
<1>2. \A b, from, till : HeldIn(b, from, till)' = HeldIn(b, from, till)
  BY DEF HeldIn
<1>3. \A b, from : ListedSince(b, from)' = ListedSince(b, from)
  BY DEF ListedSince
<1>4. \A b, from, till : Spent(b, from, till)' = Spent(b, from, till)
  BY <1>1, <1>2 DEF Spent
<1>5. GrantsPast'
  BY DEF HttpInv, RateInv, GrantsPast
<1> QED
  BY <1>3, <1>4, <1>5 DEF HttpInv, RateInv, GrantsListed, GrantsCapped

\* A call begins, backs off, tries again or ends.
LEMMA CallMoves ==
  ASSUME HttpInv, NEW t \in Threads, NEW next \in {Idle, Done} \cup Calls,
         thread' = [thread EXCEPT ![t] = next],
         UNCHANGED <<now, holder, lastTurn, granted, turns>>,
         ~Granted(t), next.pc \notin {"queue", "waiting"},
         next \in Calls => /\ next.attempt <= Retries
                           /\ next.pc = "budget" => next.after <= now
                           /\ next.pc = "backoff" => next.after <= next.until
  PROVE  HttpInv'
<1>1. HttpType'
  BY DEF HttpInv, TurnInv, HttpType
<1>2. thread'[t] = next /\ \A u \in Threads \ {t} : thread'[u] = thread[u]
  BY DEF HttpInv, TurnInv, HttpType
<1>3. WaitsHold' /\ TurnsApart'
  BY <1>2 DEF HttpInv, TurnInv, WaitsHold, TurnsApart
<1>4. PausesKept'
  BY <1>2 DEF HttpInv, TurnInv, PausesKept, Calling
<1>5. RateInv'
  <2>1. \A u \in Threads : Granted(u)' <=> Granted(u)
    BY <1>2 DEF Granted, Calling
  <2>2. \A u \in Threads : Granted(u) => thread'[u] = thread[u]
    BY <1>2
  <2> QED
    BY <2>1, <2>2, RateKept
<1> QED
  BY <1>1, <1>3, <1>4, <1>5 DEF HttpInv, TurnInv

\* The record of a call after each of its steps.
BackedOff(call, till, told) ==
  [call EXCEPT !.pc = "backoff", !.until = till, !.backoff = 5 * @, !.after = told]

LEMMA BackOffThread ==
  ASSUME NEW t \in Threads, NEW wait \in Int, NEW told \in Int, BackOff(t, wait, told)
  PROVE  thread' = [thread EXCEPT ![t] = BackedOff(thread[t], now + wait, told)]
BY DEF BackOff, BackedOff

LEMMA BackedOffCall ==
  ASSUME NEW call \in Calls, NEW till \in Int, NEW told \in Int, NEW next, next = BackedOff(call, till, told)
  PROVE  /\ next \in Calls
         /\ next.pc = "backoff" /\ next.after = told /\ next.until = till /\ next.attempt = call.attempt
<1>1. next = [pc |-> "backoff", host |-> call.host, budget |-> call.budget,
               purpose |-> call.purpose, hurried |-> call.hurried, attempt |-> call.attempt,
               backoff |-> 5 * call.backoff, until |-> till, granted |-> call.granted,
               after |-> told]
  BY DEF Calls, BackedOff
<1> QED
  BY <1>1 DEF Calls

Retried(call, till) ==
  [call EXCEPT !.pc = "budget", !.until = till, !.attempt = @ + 1]

LEMMA RetriedCall ==
  ASSUME NEW call \in Calls, NEW till \in Int, NEW next, next = Retried(call, till)
  PROVE  /\ next \in Calls
         /\ next.pc = "budget" /\ next.attempt = call.attempt + 1 /\ next.after = call.after
<1>1. next = [pc |-> "budget", host |-> call.host, budget |-> call.budget,
               purpose |-> call.purpose, hurried |-> call.hurried,
               attempt |-> call.attempt + 1, backoff |-> call.backoff, until |-> till,
               granted |-> call.granted, after |-> call.after]
  BY DEF Calls, Retried
<1> QED
  BY <1>1 DEF Calls

Given(call, time) ==
  [call EXCEPT !.pc = "queue", !.granted = time]

LEMMA GrantedCall ==
  ASSUME NEW call \in Calls, NEW time \in Int, NEW next, next = Given(call, time)
  PROVE  /\ next \in Calls
         /\ next.pc = "queue" /\ next.granted = time /\ next.budget = call.budget /\ next.attempt = call.attempt /\ next.after = call.after
<1>1. next = [pc |-> "queue", host |-> call.host, budget |-> call.budget,
               purpose |-> call.purpose, hurried |-> call.hurried, attempt |-> call.attempt,
               backoff |-> call.backoff, until |-> call.until, granted |-> time,
               after |-> call.after]
  BY DEF Calls, Given
<1> QED
  BY <1>1 DEF Calls

Asleep(call, till) ==
  [call EXCEPT !.until = till]

LEMMA SleepingCall ==
  ASSUME NEW call \in Calls, NEW till \in Int, NEW next, next = Asleep(call, till)
  PROVE  /\ next \in Calls
         /\ next.pc = call.pc /\ next.attempt = call.attempt /\ next.after = call.after
<1>1. next = [pc |-> call.pc, host |-> call.host, budget |-> call.budget,
               purpose |-> call.purpose, hurried |-> call.hurried, attempt |-> call.attempt,
               backoff |-> call.backoff, until |-> till, granted |-> call.granted,
               after |-> call.after]
  BY DEF Calls, Asleep
<1> QED
  BY <1>1 DEF Calls

InTurn(call, till) ==
  [call EXCEPT !.pc = "waiting", !.until = till]

LEMMA WaitingCall ==
  ASSUME NEW call \in Calls, NEW till \in Int, NEW next, next = InTurn(call, till)
  PROVE  /\ next \in Calls
         /\ next.pc = "waiting" /\ next.until = till /\ next.host = call.host /\ next.budget = call.budget /\ next.granted = call.granted
         /\ next.attempt = call.attempt /\ next.after = call.after
<1>1. next = [pc |-> "waiting", host |-> call.host, budget |-> call.budget,
               purpose |-> call.purpose, hurried |-> call.hurried, attempt |-> call.attempt,
               backoff |-> call.backoff, until |-> till, granted |-> call.granted,
               after |-> call.after]
  BY DEF Calls, InTurn
<1> QED
  BY <1>1 DEF Calls

Sent(call) ==
  [call EXCEPT !.pc = "sent", !.until = 0, !.granted = 0, !.after = 0]

LEMMA SentCall ==
  ASSUME NEW call \in Calls, NEW next, next = Sent(call)
  PROVE  /\ next \in Calls
         /\ next.pc = "sent" /\ next.attempt = call.attempt
<1>1. next = [pc |-> "sent", host |-> call.host, budget |-> call.budget,
               purpose |-> call.purpose, hurried |-> call.hurried, attempt |-> call.attempt,
               backoff |-> call.backoff, until |-> 0, granted |-> 0, after |-> 0]
  BY DEF Calls, Sent
<1> QED
  BY <1>1 DEF Calls

LEMMA BeginConduct ==
  ASSUME HttpInv, NEW t \in Threads, NEW host \in Hosts, NEW budget \in Budgets,
         thread[t] = Idle, NEW purpose \in {"page", "robots"}, NEW hurried \in BOOLEAN,
         Begin(t, host, budget, purpose, hurried),
         UNCHANGED <<now, holder, lastTurn, granted, turns>>
  PROVE  HttpInv'
<1> DEFINE next == [pc |-> "budget", host |-> host, budget |-> budget, purpose |-> purpose,
                    hurried |-> hurried, attempt |-> 1, backoff |-> 1, until |-> now, granted |-> now,
                    after |-> now]
<1>1. next \in Calls /\ thread' = [thread EXCEPT ![t] = next]
  BY DEF Begin, Calls, HttpInv, TurnInv, HttpType
<1>2. ~Granted(t)
  BY DEF Granted, Calling, Calls, Idle
<1>3. next.attempt <= Retries /\ next.pc = "budget" /\ next.after <= now
  BY HttpAssumption DEF HttpInv, TurnInv, HttpType
<1> HIDE DEF next
<1> QED
  BY <1>1, <1>2, <1>3, CallMoves

LEMMA RespondConduct ==
  ASSUME HttpInv, NEW t \in Threads, Respond(t)
  PROVE  HttpInv'
<1> DEFINE call == thread[t]
<1>1. HttpType /\ call \in Calls /\ ~Granted(t) /\ now \in Nat
  BY CallingBy DEF Respond, HttpInv, TurnInv, HttpType, Calling, Granted
<1>2. UNCHANGED <<now, holder, lastTurn, granted, turns>>
  BY DEF Respond
<1>3. ASSUME NEW outcome, EndCall(t, outcome)
      PROVE  HttpInv'
  <2> DEFINE next == IF call.purpose = "robots" THEN Idle ELSE Done
  <2>1. thread' = [thread EXCEPT ![t] = next]
    BY <1>3 DEF EndCall
  <2>2. next \in {Idle, Done} /\ next \notin Calls /\ next.pc \notin {"queue", "waiting"}
    BY DEF Idle, Done, Calls
  <2> HIDE DEF next
  <2> QED
    BY <1>1, <1>2, <2>1, <2>2, CallMoves
<1>4. ASSUME NEW wait \in Int, NEW told \in Int, told <= now + wait, BackOff(t, wait, told)
      PROVE  HttpInv'
  <2> DEFINE till == now + wait
             next == BackedOff(call, till, told)
  <2>1. thread' = [thread EXCEPT ![t] = next]
    BY <1>4, BackOffThread
  <2>2. till \in Int /\ told <= till
    BY <1>1, <1>4
  <2> HIDE DEF till
  <2>3. /\ next \in Calls
        /\ next.pc = "backoff" /\ next.after = told /\ next.until = till
        /\ next.attempt = call.attempt
    <3> HIDE DEF call
    <3> QED BY <1>1, <1>4, <2>2, BackedOffCall
  <2>4. call.attempt <= Retries
    BY <1>1 DEF HttpInv, TurnInv, PausesKept, Calling
  <2> HIDE DEF next
  <2> QED
    BY <1>1, <1>2, <2>1, <2>2, <2>3, <2>4, CallMoves
<1>5. call.backoff \in Nat
  BY <1>1 DEF Calls
<1>6. CASE Answered(t)
  BY <1>3, <1>6 DEF Answered
<1>7. CASE TransportError(t)
  BY <1>1, <1>4, <1>5, <1>7 DEF TransportError
<1>8. CASE ServerError(t)
  BY <1>1, <1>3, <1>4, <1>5, <1>8 DEF ServerError
<1>9. CASE RateLimited(t)
  <2> DEFINE wait(told) == IF told = -1 THEN call.backoff ELSE told
             slept(told) == IF wait(told) > MaxWait THEN MaxWait ELSE wait(told)
             ends(told) == LET weighed == IF told <= 0 THEN call.backoff ELSE told
                           IN  (call.hurried /\ weighed > Patience) \/ call.attempt = Retries
  <2>1. \E told \in {-1, 0, MaxWait + 1} :
          IF ends(told) THEN EndCall(t, "limited")
          ELSE BackOff(t, slept(told), now + slept(told))
    BY <1>9, Zenon DEF RateLimited
  <2>2. PICK told \in {-1, 0, MaxWait + 1} :
          EndCall(t, "limited") \/ BackOff(t, slept(told), now + slept(told))
    <3> HIDE DEF slept, ends
    <3> QED BY <2>1
  <2>3. slept(told) \in Int /\ now + slept(told) \in Int
    BY <1>1, <1>5, HttpAssumption
  <2> HIDE DEF slept
  <2> QED
    BY <1>1, <1>3, <1>4, <2>2, <2>3
<1> QED
  BY <1>6, <1>7, <1>8, <1>9 DEF Respond

LEMMA ResumeConduct ==
  ASSUME HttpInv, NEW t \in Threads, Resume(t)
  PROVE  HttpInv'
<1> DEFINE call == thread[t]
<1>1. HttpType /\ call \in Calls /\ ~Granted(t) /\ now \in Nat
  BY CallingBy DEF Resume, HttpInv, TurnInv, HttpType, Calling, Granted
<1>2. UNCHANGED <<now, holder, lastTurn, granted, turns>>
  BY DEF Resume
<1>3. CASE call.attempt = Retries
  <2> DEFINE next == IF call.purpose = "robots" THEN Idle ELSE Done
  <2>1. thread' = [thread EXCEPT ![t] = next]
    BY <1>3 DEF Resume, EndCall
  <2>2. next \in {Idle, Done} /\ next \notin Calls /\ next.pc \notin {"queue", "waiting"}
    BY DEF Idle, Done, Calls
  <2> HIDE DEF next
  <2> QED
    BY <1>1, <1>2, <2>1, <2>2, CallMoves
<1>4. CASE call.attempt # Retries
  <2> DEFINE next == Retried(call, now)
  <2>1. thread' = [thread EXCEPT ![t] = next]
    BY <1>4 DEF Resume, Retried
  <2>2. next \in Calls
    BY <1>1, RetriedCall
  <2>3. next.pc = "budget" /\ next.attempt = call.attempt + 1 /\ next.after = call.after
    BY <1>1, RetriedCall
  <2>4. call.attempt < Retries /\ call.after <= call.until /\ call.until <= now
    BY <1>1, <1>4, HttpAssumption DEF Resume, HttpInv, TurnInv, PausesKept, Calling, Calls
  <2>5. call.attempt \in Nat /\ call.after \in Int /\ call.until \in Int
    BY <1>1 DEF Calls
  <2>6. next.attempt <= Retries /\ next.after <= now
    BY <1>1, <2>3, <2>4, <2>5, HttpAssumption
  <2> HIDE DEF next
  <2> QED
    BY <1>1, <1>2, <2>1, <2>2, <2>3, <2>6, CallMoves
<1> QED
  BY <1>3, <1>4

LEMMA EnterConduct ==
  ASSUME HttpInv, NEW t \in Threads, EnterWait(t)
  PROVE  HttpInv'
<1> DEFINE call == thread[t]
           next == InTurn(call, lastTurn[call.host] + Interval)
<1>1. HttpType /\ call \in Calls /\ call.pc = "queue" /\ holder[call.host] = Nobody
  BY CallingBy DEF EnterWait, HttpInv, TurnInv, Calling
<1>2. call.host \in Hosts /\ lastTurn[call.host] + Interval \in Int
  BY <1>1, HttpAssumption DEF HttpType, Calls
<1>3. /\ next \in Calls
      /\ next.pc = "waiting" /\ next.until = lastTurn[call.host] + Interval /\ next.host = call.host
      /\ next.budget = call.budget /\ next.granted = call.granted
      /\ next.attempt = call.attempt /\ next.after = call.after
  BY <1>1, <1>2, WaitingCall
<1>4. /\ thread' = [thread EXCEPT ![t] = next] /\ holder' = [holder EXCEPT ![call.host] = t]
      /\ UNCHANGED <<now, lastTurn, granted, turns>>
  BY DEF EnterWait, InTurn
<1> HIDE DEF next
<1>5. thread'[t] = next /\ \A u \in Threads \ {t} : thread'[u] = thread[u]
  BY <1>4, <1>1 DEF HttpType
<1>6. holder'[call.host] = t /\ \A h \in Hosts \ {call.host} : holder'[h] = holder[h]
  BY <1>4, <1>1, <1>2 DEF HttpType
<1>7. HttpType'
  BY <1>1, <1>3, <1>4 DEF HttpType
<1>8. WaitsHold'
  <2> SUFFICES ASSUME NEW u \in Threads, thread'[u].pc = "waiting"
               PROVE  /\ holder'[thread'[u].host] = u
                      /\ thread'[u].until = lastTurn'[thread'[u].host] + Interval
    BY DEF WaitsHold
  <2>1. CASE u = t
    BY <2>1, <1>3, <1>4, <1>5, <1>6
  <2>2. CASE u # t
    <3>1. holder[thread[u].host] = u /\ thread[u].until = lastTurn[thread[u].host] + Interval
      BY <2>2, <1>5 DEF HttpInv, TurnInv, WaitsHold
    <3>2. thread[u].host \in Hosts
      BY <2>2, <1>1, <1>5, CallingBy DEF Calling, Calls
    <3>3. thread[u].host # call.host
      BY <3>1, <1>1, HttpAssumption DEF Nobody
    <3> QED
      BY <2>2, <3>1, <3>2, <3>3, <1>4, <1>5, <1>6
  <2> QED
    BY <2>1, <2>2
<1>9. TurnsApart' /\ PausesKept'
  BY <1>1, <1>3, <1>4, <1>5 DEF HttpInv, TurnInv, TurnsApart, PausesKept, Calling
<1>10. RateInv'
  <2>1. \A u \in Threads : Granted(u)' <=> Granted(u)
    BY <1>1, <1>3, <1>5 DEF Granted, Calling
  <2>2. \A u \in Threads : Granted(u) => /\ thread'[u].budget = thread[u].budget
                                         /\ thread'[u].granted = thread[u].granted
    BY <1>3, <1>5
  <2> QED
    BY <1>4, <2>1, <2>2, RateKept
<1> QED
  BY <1>7, <1>8, <1>9, <1>10 DEF HttpInv, TurnInv

LEMMA PassConduct ==
  ASSUME HttpInv, Pass
  PROVE  HttpInv'
<1>1. now \in Nat /\ now' = now + 1 /\ UNCHANGED <<thread, holder, lastTurn, granted, turns>>
  BY DEF Pass, HttpInv, TurnInv, HttpType
<1>2. HttpType' /\ WaitsHold' /\ TurnsApart'
  BY <1>1 DEF HttpInv, TurnInv, HttpType, WaitsHold, TurnsApart
<1>3. PausesKept'
  <2>1. \A t \in Threads : Calling(t) => thread[t].after \in Int
    BY DEF Calling, Calls
  <2> QED
    BY <1>1, <2>1 DEF HttpInv, TurnInv, PausesKept, Calling
<1>4. /\ \A i \in DOMAIN turns : turns[i].granted \in Int
      /\ \A t \in Threads : Granted(t) => thread[t].granted \in Int
  BY GrantTimes DEF HttpInv, TurnInv
<1>5. \A t \in Threads : Granted(t)' <=> Granted(t)
  BY <1>1 DEF Granted, Calling
<1>6. GrantsPast'
  BY <1>1, <1>4, <1>5 DEF HttpInv, RateInv, GrantsPast
<1>7. \A b, from, till : TurnsIn(b, from, till)' = TurnsIn(b, from, till)
  BY <1>1 DEF TurnsIn
<1>8. \A b, from, till : HeldIn(b, from, till)' = HeldIn(b, from, till)
  BY <1>1, <1>5 DEF HeldIn
<1>9. \A b, from, till : Spent(b, from, till)' = Spent(b, from, till)
  BY <1>7, <1>8 DEF Spent
<1>10. GrantsCapped'
  BY <1>9 DEF HttpInv, RateInv, GrantsCapped
<1>11. GrantsListed'
  <2> SUFFICES ASSUME NEW b \in Budgets, NEW from \in Int, now + 1 < from + Window
               PROVE  Spent(b, from, now + 2) <= Cardinality(ListedSince(b, from))
    BY <1>1, <1>9 DEF GrantsListed, ListedSince
  <2>1. now < from + Window
    BY <1>1, HttpAssumption
  <2>2. TurnsIn(b, from, now + 2) = TurnsIn(b, from, now + 1)
    BY <1>1, <1>4 DEF TurnsIn, HttpInv, RateInv, GrantsPast
  <2>3. HeldIn(b, from, now + 2) = HeldIn(b, from, now + 1)
    BY <1>1, <1>4 DEF HeldIn, HttpInv, RateInv, GrantsPast
  <2>4. Spent(b, from, now + 1) <= Cardinality(ListedSince(b, from))
    BY <2>1 DEF HttpInv, RateInv, GrantsListed
  <2> QED
    BY <2>2, <2>3, <2>4 DEF Spent
<1> QED
  BY <1>2, <1>3, <1>6, <1>10, <1>11 DEF HttpInv, TurnInv, RateInv

LEMMA LeaveConduct ==
  ASSUME HttpInv, NEW t \in Threads, LeaveWait(t)
  PROVE  HttpInv'
<1> DEFINE call == thread[t]
           next == Sent(call)
           last == Len(turns) + 1
           turn == [at |-> now, host |-> call.host, budget |-> call.budget, granted |-> call.granted,
                    attempt |-> call.attempt, after |-> call.after]
<1>1. HttpType /\ call \in Calls /\ call.pc = "waiting" /\ now >= call.until
  BY CallingBy DEF LeaveWait, HttpInv, TurnInv, Calling
<1>2. next \in Calls /\ next.pc = "sent" /\ next.attempt = call.attempt
  BY <1>1, SentCall
<1>3. turn \in Turns /\ call.host \in Hosts /\ call.budget \in Budgets /\ call.granted \in Int
  BY <1>1 DEF HttpType, Calls, Turns
<1>4. /\ holder' = [holder EXCEPT ![call.host] = Nobody]
      /\ lastTurn' = [lastTurn EXCEPT ![call.host] = now]
      /\ thread' = [thread EXCEPT ![t] = next]
      /\ turns' = Append(turns, turn)
      /\ UNCHANGED <<now, granted>>
  BY DEF LeaveWait, Sent
<1>5. /\ turn.at = now /\ turn.host = call.host /\ turn.budget = call.budget
      /\ turn.granted = call.granted /\ turn.attempt = call.attempt /\ turn.after = call.after
  OBVIOUS
<1> HIDE DEF next, turn
<1>6. thread'[t] = next /\ \A u \in Threads \ {t} : thread'[u] = thread[u]
  BY <1>4, <1>1 DEF HttpType
<1>7. /\ holder'[call.host] = Nobody /\ lastTurn'[call.host] = now
      /\ \A h \in Hosts \ {call.host} : holder'[h] = holder[h] /\ lastTurn'[h] = lastTurn[h]
  BY <1>4, <1>1, <1>3 DEF HttpType
<1>8. /\ Len(turns) \in Nat /\ DOMAIN turns = 1..Len(turns) /\ DOMAIN turns' = 1..last
      /\ turns'[last] = turn
      /\ \A i \in DOMAIN turns : turns'[i] = turns[i] /\ i # last
  BY <1>1, <1>3, <1>4 DEF HttpType
<1>9. HttpType'
  <2>1. now \in Nat /\ turns' \in Seq(Turns)
    BY <1>1, <1>3, <1>4 DEF HttpType
  <2>2. /\ thread' \in [Threads -> {Idle, Done} \cup Calls]
        /\ lastTurn' \in [Hosts -> Int] /\ holder' \in [Hosts -> Threads \cup {Nobody}]
    <3>1. thread' \in [Threads -> {Idle, Done} \cup Calls]
      BY <1>1, <1>2, <1>4 DEF HttpType
    <3>2. lastTurn' \in [Hosts -> Int]
      <4>1. now \in Int /\ lastTurn \in [Hosts -> Int]
        BY <1>1 DEF HttpType
      <4> HIDE DEF call
      <4> QED
        BY <1>4, <4>1
    <3>3. holder' \in [Hosts -> Threads \cup {Nobody}]
      BY <1>1, <1>4 DEF HttpType
    <3> QED
      BY <3>1, <3>2, <3>3
  <2> QED
    BY <1>1, <1>4, <2>1, <2>2 DEF HttpType
<1>10. WaitsHold'
  <2> SUFFICES ASSUME NEW u \in Threads, thread'[u].pc = "waiting"
               PROVE  /\ holder'[thread'[u].host] = u
                      /\ thread'[u].until = lastTurn'[thread'[u].host] + Interval
    BY DEF WaitsHold
  <2>1. u # t
    BY <1>2, <1>6
  <2>2. holder[thread[u].host] = u /\ thread[u].until = lastTurn[thread[u].host] + Interval
    BY <2>1, <1>6 DEF HttpInv, TurnInv, WaitsHold
  <2>3. thread[u].host \in Hosts
    BY <2>1, <1>1, <1>6, CallingBy DEF Calling, Calls
  <2>4. holder[call.host] = t
    BY <1>1 DEF HttpInv, TurnInv, WaitsHold
  <2> QED
    BY <2>1, <2>2, <2>3, <2>4, <1>6, <1>7
<1>11. TurnsApart'
  <2>1. \A i \in DOMAIN turns : turns[i].at \in Int /\ turns[i].host \in Hosts
    <3>1. \A i \in DOMAIN turns : turns[i] \in Turns
      BY <1>1 DEF HttpType
    <3> QED
      BY <3>1 DEF Turns
  <2>2. /\ now >= lastTurn[call.host] + Interval /\ lastTurn[call.host] \in Int /\ now \in Int
        /\ Interval \in Nat
    BY <1>1, <1>3, HttpAssumption DEF HttpInv, TurnInv, WaitsHold, HttpType
  <2>3. \A i \in DOMAIN turns : turns[i].at <= lastTurn[turns[i].host]
    BY DEF HttpInv, TurnInv, TurnsApart
  <2>4. \A i \in DOMAIN turns : turns[i].host = call.host => now - turns[i].at >= Interval
    BY <2>1, <2>2, <2>3
  <2>5. \A i \in DOMAIN turns' : turns'[i].at <= lastTurn'[turns'[i].host]
    <3> SUFFICES ASSUME NEW i \in DOMAIN turns'
                 PROVE  turns'[i].at <= lastTurn'[turns'[i].host]
      OBVIOUS
    <3>1. CASE i = last
      BY <3>1, <1>5, <1>7, <1>8, <2>2
    <3>2. CASE i # last
      <4>1. i \in DOMAIN turns /\ turns'[i] = turns[i]
        BY <3>2, <1>8
      <4>2. CASE turns[i].host = call.host
        BY <4>1, <4>2, <1>7, <2>1, <2>2, <2>4
      <4>3. CASE turns[i].host # call.host
        BY <4>1, <4>3, <1>7, <2>1, <2>3
      <4> QED
        BY <4>2, <4>3
    <3> QED
      BY <3>1, <3>2
  <2>6. \A i, j \in DOMAIN turns' :
          i < j /\ turns'[i].host = turns'[j].host => turns'[j].at - turns'[i].at >= Interval
    <3> SUFFICES ASSUME NEW i \in DOMAIN turns', NEW j \in DOMAIN turns', i < j,
                        turns'[i].host = turns'[j].host
                 PROVE  turns'[j].at - turns'[i].at >= Interval
      OBVIOUS
    <3>1. i \in DOMAIN turns /\ turns'[i] = turns[i]
      BY <1>8
    <3>2. CASE j = last
      BY <3>1, <3>2, <1>5, <1>8, <2>4
    <3>3. CASE j # last
      BY <3>1, <3>3, <1>8 DEF HttpInv, TurnInv, TurnsApart
    <3> QED
      BY <3>2, <3>3
  <2> QED
    BY <2>5, <2>6 DEF TurnsApart
<1>12. PausesKept'
  <2>1. call.attempt <= Retries /\ call.after <= now /\ call.after \in Int
    BY <1>1 DEF HttpInv, TurnInv, PausesKept, Calling, Calls
  <2>2. \A u \in Threads : Calling(u)' => Calling(u) /\ (u # t => thread'[u] = thread[u])
    BY <1>1, <1>6 DEF Calling
  <2>3. \A u \in Threads : Calling(u)' =>
          /\ thread'[u].attempt <= Retries
          /\ thread'[u].pc \in {"budget", "queue", "waiting"} => thread'[u].after <= now'
          /\ thread'[u].pc = "backoff" => thread'[u].after <= thread'[u].until
    BY <1>2, <1>4, <1>6, <2>1, <2>2 DEF HttpInv, TurnInv, PausesKept
  <2>4. \A i \in DOMAIN turns' : turns'[i].attempt <= Retries /\ turns'[i].at >= turns'[i].after
    <3> SUFFICES ASSUME NEW i \in DOMAIN turns'
                 PROVE  turns'[i].attempt <= Retries /\ turns'[i].at >= turns'[i].after
      OBVIOUS
    <3>1. CASE i = last
      BY <3>1, <1>1, <1>5, <1>8, <2>1 DEF HttpType
    <3>2. CASE i # last
      BY <3>2, <1>8 DEF HttpInv, TurnInv, PausesKept
    <3> QED
      BY <3>1, <3>2
  <2> QED
    BY <2>3, <2>4 DEF PausesKept
<1>13. GrantsPast'
  <2>1. Granted(t) /\ \A u \in Threads : Granted(u)' => u # t /\ Granted(u)
    BY <1>1, <1>2, <1>6 DEF Granted, Calling
  <2>2. call.granted <= now
    BY <2>1 DEF HttpInv, RateInv, GrantsPast
  <2> QED
    BY <1>4, <1>5, <1>6, <1>8, <2>1, <2>2 DEF HttpInv, RateInv, GrantsPast
<1>14. \A b \in Budgets, from, till \in Int : Spent(b, from, till)' = Spent(b, from, till)
  <2> SUFFICES ASSUME NEW b \in Budgets, NEW from \in Int, NEW till \in Int
               PROVE  Spent(b, from, till)' = Spent(b, from, till)
    OBVIOUS
  <2> DEFINE sent == TurnsIn(b, from, till)
             held == HeldIn(b, from, till)
  <2>1. Granted(t) /\ \A u \in Threads : Granted(u)' <=> u # t /\ Granted(u)
    BY <1>1, <1>2, <1>6 DEF Granted, Calling
  <2>2. HeldIn(b, from, till)' = held \ {t}
    BY <1>6, <2>1 DEF HeldIn
  <2>3. last \notin sent
    BY <1>8 DEF TurnsIn
  <2>4. /\ IsFiniteSet(sent) /\ Cardinality(sent) \in Nat
        /\ IsFiniteSet(held) /\ Cardinality(held) \in Nat
    BY <1>1, CountsFinite
  <2>5. CASE call.budget = b /\ from <= call.granted /\ call.granted < till
    <3>1. TurnsIn(b, from, till)' = sent \cup {last}
      BY <2>5, <1>5, <1>8 DEF TurnsIn
    <3>2. t \in held
      BY <2>1, <2>5 DEF HeldIn
    <3>3. Cardinality(sent \cup {last}) = Cardinality(sent) + 1
      BY <2>3, <2>4, FS_AddElement
    <3>4. Cardinality(held \ {t}) = Cardinality(held) - 1
      BY <3>2, <2>4, FS_RemoveElement
    <3> HIDE DEF sent, held
    <3>5. Cardinality(TurnsIn(b, from, till))' + Cardinality(HeldIn(b, from, till))' =
            Cardinality(sent) + Cardinality(held)
      BY <2>2, <2>4, <3>1, <3>3, <3>4
    <3> QED
      BY <3>5 DEF Spent, sent, held
  <2>6. CASE ~(call.budget = b /\ from <= call.granted /\ call.granted < till)
    <3>1. TurnsIn(b, from, till)' = sent
      BY <2>6, <1>5, <1>8 DEF TurnsIn
    <3>2. t \notin held
      BY <2>6 DEF HeldIn
    <3>3. HeldIn(b, from, till)' = held
      BY <2>2, <3>2
    <3> QED
      BY <3>1, <3>3 DEF Spent
  <2> QED
    BY <2>5, <2>6
<1>15. GrantsListed' /\ GrantsCapped'
  <2>1. \A b, from : ListedSince(b, from)' = ListedSince(b, from)
    BY <1>4 DEF ListedSince
  <2>2. now \in Int /\ now' = now /\ Window \in Int
    BY <1>1, <1>4, HttpAssumption DEF HttpType
  <2>3. GrantsListed'
    BY <1>14, <2>1, <2>2 DEF HttpInv, RateInv, GrantsListed
  <2>4. GrantsCapped'
    BY <1>14, <2>2 DEF HttpInv, RateInv, GrantsCapped
  <2> QED
    BY <2>3, <2>4
<1> QED
  BY <1>9, <1>10, <1>11, <1>12, <1>13, <1>15 DEF HttpInv, TurnInv, RateInv

\* Pruning a budget's list drops nothing of the last window.
LEMMA RecentKeeps ==
  ASSUME HttpType, NEW b \in Budgets, NEW recent, recent = Recent(b)
  PROVE  /\ recent \in Seq(Int)
         /\ \A from \in Int : now < from + Window =>
              /\ Cardinality(ListedSince(b, from)) <= Cardinality({k \in DOMAIN recent : recent[k] >= from})
              /\ Cardinality(ListedSince(b, from)) <= Len(recent)
<1> DEFINE times == granted[b]
           kept == {i \in DOMAIN times : now - times[i] < Window}
           left(from) == {k \in DOMAIN recent : recent[k] >= from}
<1>1. times \in Seq(Int) /\ now \in Int /\ Window \in Int
  BY HttpAssumption DEF HttpType
<1>2. recent = IF kept = {} THEN <<>> ELSE SubSeq(times, Min(kept), Len(times))
  BY DEF Recent
<1>3. \A from \in Int : now < from + Window => ListedSince(b, from) \subseteq kept
  <2> SUFFICES ASSUME NEW from \in Int, now < from + Window, NEW k \in ListedSince(b, from)
               PROVE  k \in kept
    OBVIOUS
  <2>1. k \in DOMAIN times /\ times[k] >= from /\ times[k] \in Int
    BY <1>1 DEF ListedSince
  <2> QED
    BY <1>1, <2>1
<1>4. CASE kept = {}
  <2>1. recent = <<>>
    BY <1>2, <1>4
  <2>2. \A from \in Int : now < from + Window => Cardinality(ListedSince(b, from)) = 0
    BY <1>3, <1>4, FS_EmptySet
  <2>3. \A from : left(from) = {}
    BY <2>1
  <2> HIDE DEF left
  <2> QED
    BY <2>1, <2>2, <2>3, FS_EmptySet DEF left
<1>5. CASE kept # {}
  <2> DEFINE m == Min(kept)
             n == Len(times)
  <2>1. n \in Nat /\ DOMAIN times = 1..n
    BY <1>1
  <2>2. kept \in SUBSET Nat /\ kept \subseteq 1..n
    BY <2>1
  <2>3. m \in kept /\ \A k \in kept : m <= k
    BY <1>5, <2>2, MinIsLeast
  <2>4. m \in 1..n
    BY <2>2, <2>3
  <2> HIDE DEF m, n
  <2>5. recent = SubSeq(times, m, n)
    BY <1>2, <1>5 DEF m, n
  <2>6. /\ recent \in Seq(Int) /\ Len(recent) = n - m + 1 /\ DOMAIN recent = 1..(n - m + 1)
        /\ \A i \in 1..(n - m + 1) : recent[i] = times[m + i - 1]
    <3>1. n = Len(times)
      BY DEF n
    <3> HIDE DEF times
    <3>2. /\ recent \in Seq(Int) /\ Len(recent) = n - m + 1
          /\ \A i \in 1..(n - m + 1) : recent[i] = times[m + i - 1]
      <4>1. m \in Int /\ n \in Int /\ m <= n
        BY <2>1, <2>4
      <4>2. \A i \in m..n : times[i] \in Int
        BY <1>1, <2>1, <2>4, <3>1
      <4> QED BY <2>5, <4>1, <4>2, SubSeqProperties
    <3>3. \A s \in Seq(Int) : DOMAIN s = 1..Len(s)
      OBVIOUS
    <3> QED
      BY <3>2, <3>3, Zenon
  <2>7. ASSUME NEW from \in Int, now < from + Window
        PROVE  /\ Cardinality(ListedSince(b, from)) <= Cardinality(left(from))
               /\ Cardinality(ListedSince(b, from)) <= Len(recent)
    <3> DEFINE S == ListedSince(b, from)
               f == [k \in S |-> k - m + 1]
    <3>1. \A k \in S : k \in 1..n /\ m <= k /\ times[k] >= from
      BY <1>3, <2>2, <2>3, <2>7 DEF ListedSince
    <3>2. \A k \in S : k - m + 1 \in 1..(n - m + 1) /\ recent[k - m + 1] = times[k]
      <4> SUFFICES ASSUME NEW k \in S
                   PROVE  k - m + 1 \in 1..(n - m + 1) /\ recent[k - m + 1] = times[k]
        OBVIOUS
      <4>1. k - m + 1 \in 1..(n - m + 1) /\ m + (k - m + 1) - 1 = k
        BY <2>1, <2>4, <3>1
      <4> QED
        BY <2>6, <4>1
    <3>3. \A k \in S : k - m + 1 \in left(from)
      BY <2>6, <3>1, <3>2
    <3>4. \A j, k \in S : j - m + 1 = k - m + 1 => j = k
      BY <2>1, <2>4, <3>1
    <3>5. IsFiniteSet(1..(n - m + 1)) /\ Cardinality(1..(n - m + 1)) = n - m + 1
      <4>1. n - m + 1 \in Int /\ ~(1 > n - m + 1) /\ (n - m + 1) - 1 + 1 = n - m + 1
        BY <2>1, <2>4
      <4> QED
        BY <4>1, FS_Interval
    <3>6. IsFiniteSet(left(from)) /\ Cardinality(left(from)) <= n - m + 1
      <4> DEFINE places == 1..(n - m + 1)
      <4>1. left(from) \in SUBSET places
        BY <2>6, Zenon
      <4>2. IsFiniteSet(places) /\ Cardinality(places) = n - m + 1
        BY <3>5
      <4> HIDE DEF left, places
      <4> QED
        BY <4>1, <4>2, FS_Subset
    <3>7. f \in Injection(S, left(from))
      <4> HIDE DEF left, S
      <4> QED
        BY <3>3, <3>4 DEF Injection, IsInjective
    <3>8. Cardinality(S) <= Cardinality(left(from))
      <4> HIDE DEF left, S, f
      <4> QED
        BY <3>6, <3>7, FS_Injection
    <3>9. Cardinality(S) \in Int /\ Cardinality(left(from)) \in Int
      <4> HIDE DEF left
      <4> QED
        BY <3>6, FS_CardinalityType, CountsFinite
    <3> HIDE DEF left, S
    <3> QED
      BY <2>1, <2>4, <2>6, <3>6, <3>8, <3>9 DEF S
  <2> QED
    BY <2>6, <2>7
<1> QED
  BY <1>4, <1>5

\* What of the last window was granted is fewer than what is left of the list.
LEMMA SpentIsRecent ==
  ASSUME HttpInv, NEW b \in Budgets, NEW recent, recent = Recent(b),
         NEW from \in Int, now < from + Window
  PROVE  /\ Spent(b, from, now + 1) <= Cardinality({k \in DOMAIN recent : recent[k] >= from})
         /\ Spent(b, from, now + 1) <= Len(recent)
         /\ IsFiniteSet({k \in DOMAIN recent : recent[k] >= from})
         /\ Cardinality({k \in DOMAIN recent : recent[k] >= from}) \in Nat
<1> DEFINE left == {k \in DOMAIN recent : recent[k] >= from}
<1>1. HttpType /\ now + 1 \in Int
  BY DEF HttpInv, TurnInv, HttpType
<1>2. /\ recent \in Seq(Int)
      /\ Cardinality(ListedSince(b, from)) <= Cardinality(left)
      /\ Cardinality(ListedSince(b, from)) <= Len(recent)
  BY <1>1, RecentKeeps
<1>3. IsFiniteSet(left) /\ Cardinality(left) \in Nat
  <2>1. left \in SUBSET (1..Len(recent)) /\ Len(recent) \in Nat
    BY <1>2
  <2>2. IsFiniteSet(1..Len(recent))
    BY <2>1, FS_Interval
  <2> HIDE DEF left
  <2> QED
    BY <2>1, <2>2, FS_Subset, FS_CardinalityType
<1>4. Spent(b, from, now + 1) \in Nat /\ Cardinality(ListedSince(b, from)) \in Nat
  BY <1>1, CountsFinite
<1>5. Spent(b, from, now + 1) <= Cardinality(ListedSince(b, from))
  BY DEF HttpInv, RateInv, GrantsListed
<1>6. Len(recent) \in Nat
  BY <1>2
<1> HIDE DEF left
<1> QED
  BY <1>2, <1>3, <1>4, <1>5, <1>6 DEF left

\* What one more grant, or one more turn of the pruning, changes of the counts.
LEMMA ConsumeRate ==
  ASSUME HttpInv, NEW t \in Threads, NEW b \in Budgets, NEW recent, recent = Recent(b),
         ~Granted(t), UNCHANGED <<now, turns>>,
         \A u \in Threads \ {t} : thread'[u] = thread[u],
         \/ /\ Len(recent) < Rpm
            /\ granted' = [granted EXCEPT ![b] = Append(recent, now)]
            /\ Granted(t)' /\ thread'[t].budget = b /\ thread'[t].granted = now
         \/ /\ granted' = [granted EXCEPT ![b] = recent]
            /\ ~Granted(t)'
  PROVE  RateInv'
<1>1. HttpType /\ now \in Nat /\ recent \in Seq(Int) /\ Window \in Nat /\ Rpm \in Nat
  BY RecentKeeps, HttpAssumption DEF HttpInv, TurnInv, HttpType
<1>2. \A u \in Threads \ {t} : Granted(u)' <=> Granted(u)
  BY DEF Granted, Calling
<1>3. GrantsPast'
  BY <1>1, <1>2 DEF HttpInv, RateInv, GrantsPast
<1>4. \A c, from, till : TurnsIn(c, from, till)' = TurnsIn(c, from, till)
  BY DEF TurnsIn
<1>5. granted'[b] = Append(recent, now) \/ granted'[b] = recent
  BY <1>1 DEF HttpType
<1>6. \A c \in Budgets \ {b} : granted'[c] = granted[c]
  BY <1>1 DEF HttpType
<1>7. ASSUME NEW c \in Budgets, NEW from \in Int, NEW till \in Int,
             ~Granted(t)' \/ c # b \/ ~(from <= now /\ now < till)
      PROVE  Spent(c, from, till)' = Spent(c, from, till)
  <2>1. HeldIn(c, from, till)' = HeldIn(c, from, till)
    BY <1>2, <1>7 DEF HeldIn
  <2> QED
    BY <1>4, <2>1 DEF Spent
<1>8. ASSUME Granted(t)', NEW from \in Int, NEW till \in Int, from <= now, now < till
      PROVE  Spent(b, from, till)' = Spent(b, from, till) + 1
  <2> DEFINE held == HeldIn(b, from, till)
  <2>1. HeldIn(b, from, till)' = held \cup {t}
    BY <1>2, <1>8 DEF HeldIn
  <2>2. t \notin held
    BY DEF HeldIn
  <2>3. Cardinality(held \cup {t}) = Cardinality(held) + 1
    <3>1. IsFiniteSet(held)
      BY <1>1, CountsFinite
    <3> HIDE DEF held
    <3> QED
      BY <2>2, <3>1, FS_AddElement
  <2>4. Cardinality(TurnsIn(b, from, till)) \in Nat /\ Cardinality(held) \in Nat
    BY <1>1, CountsFinite
  <2>5. Spent(b, from, till)' = Cardinality(TurnsIn(b, from, till)) + Cardinality(held \cup {t})
    BY <1>4, <2>1 DEF Spent
  <2>6. Spent(b, from, till) = Cardinality(TurnsIn(b, from, till)) + Cardinality(held)
    BY DEF Spent
  <2> HIDE DEF held
  <2> QED
    BY <2>3, <2>4, <2>5, <2>6
\* Nothing is granted after now.
<1>9. ASSUME NEW from \in Int, NEW till \in Int, now < till
      PROVE  Spent(b, from, till) = Spent(b, from, now + 1)
  <2>1. TurnsIn(b, from, till) = TurnsIn(b, from, now + 1)
    BY <1>1, <1>9, GrantTimes DEF TurnsIn, HttpInv, RateInv, GrantsPast
  <2>2. HeldIn(b, from, till) = HeldIn(b, from, now + 1)
    BY <1>1, <1>9, GrantTimes DEF HeldIn, HttpInv, RateInv, GrantsPast
  <2> QED
    BY <2>1, <2>2 DEF Spent
<1>10. ASSUME NEW from \in Int, now < from
       PROVE  Spent(b, from, now + 1) = 0
  <2>1. TurnsIn(b, from, now + 1) = {}
    BY <1>1, <1>10, GrantTimes DEF TurnsIn
  <2>2. HeldIn(b, from, now + 1) = {}
    BY <1>1, <1>10, GrantTimes DEF HeldIn
  <2>3. Spent(b, from, now + 1) = Cardinality({}) + Cardinality({})
    BY <2>1, <2>2 DEF Spent
  <2>4. Cardinality({}) = 0
    BY FS_EmptySet
  <2> QED
    BY <2>3, <2>4
<1>11. ASSUME NEW from \in Int, now < from + Window
       PROVE  Spent(b, from, now + 1)' <= Cardinality(ListedSince(b, from))'
  <2> DEFINE left == {k \in DOMAIN recent : recent[k] >= from}
             last == Len(recent) + 1
  <2>1. /\ Spent(b, from, now + 1) <= Cardinality(left)
        /\ IsFiniteSet(left) /\ Cardinality(left) \in Nat
    BY <1>11, SpentIsRecent, SMTT(20)
  <2>2. Spent(b, from, now + 1) \in Nat /\ now + 1 \in Int /\ now < now + 1
    BY <1>1, CountsFinite
  <2>3. CASE ~Granted(t)'
    <3>1. Spent(b, from, now + 1)' = Spent(b, from, now + 1)
      BY <1>7, <2>2, <2>3
    <3>2. granted'[b] = recent
      BY <1>1, <2>3 DEF HttpType
    <3>3. ListedSince(b, from)' = left
      BY <3>2 DEF ListedSince
    <3> QED
      BY <2>1, <3>1, <3>3
  <2>4. CASE Granted(t)' /\ from <= now
    <3>1. Spent(b, from, now + 1)' = Spent(b, from, now + 1) + 1
      BY <1>8, <2>2, <2>4
    <3>2. granted'[b] = Append(recent, now)
      BY <1>1, <2>4 DEF HttpType
    <3>3. ListedSince(b, from)' = left \cup {last}
      BY <1>1, <2>4, <3>2 DEF ListedSince
    <3>4. last \notin left
      BY <1>1
    <3> HIDE DEF left, last
    <3>5. Cardinality(left \cup {last}) = Cardinality(left) + 1
      BY <2>1, <3>4, FS_AddElement
    <3> QED
      BY <2>1, <2>2, <3>1, <3>3, <3>5
  <2>5. CASE Granted(t)' /\ now < from
    <3>1. Spent(b, from, now + 1)' = 0
      BY <1>1, <1>7, <1>10, <2>2, <2>5
    <3>2. HttpType => Cardinality(ListedSince(b, from))' \in Nat
      <4>1. granted'[b] \in Seq(Int)
        <5>1. now \in Int /\ Append(recent, now) \in Seq(Int)
          BY <1>1
        <5> QED
          BY <1>1, <1>5, <5>1
      <4>2. /\ ListedSince(b, from)' \in SUBSET (1..Len(granted'[b]))
            /\ Len(granted'[b]) \in Nat
        BY <4>1 DEF ListedSince
      <4>3. IsFiniteSet(1..Len(granted'[b]))
        BY <4>2, FS_Interval
      <4> QED
        BY <4>2, <4>3, FS_Subset, FS_CardinalityType
    <3> QED
      BY <1>1, <3>1, <3>2
  <2> QED
    BY <1>1, <2>3, <2>4, <2>5
<1>12. GrantsListed'
  <2> SUFFICES ASSUME NEW c \in Budgets, NEW from \in Int, now < from + Window
               PROVE  Spent(c, from, now + 1)' <= Cardinality(ListedSince(c, from))'
    BY DEF GrantsListed
  <2>1. CASE c = b
    BY <1>11, <2>1
  <2>2. CASE c # b
    <3>1. ListedSince(c, from)' = ListedSince(c, from)
      BY <1>6, <2>2 DEF ListedSince
    <3>2. Spent(c, from, now + 1)' = Spent(c, from, now + 1)
      BY <1>1, <1>7, <2>2
    <3> QED
      BY <3>1, <3>2 DEF HttpInv, RateInv, GrantsListed
  <2> QED
    BY <2>1, <2>2
<1>13. GrantsCapped'
  <2> SUFFICES ASSUME NEW c \in Budgets, NEW from \in Int
               PROVE  Spent(c, from, from + Window)' <= Rpm
    BY DEF GrantsCapped
  <2>1. from + Window \in Int
    BY <1>1
  <2>2. CASE ~Granted(t)' \/ c # b \/ ~(from <= now /\ now < from + Window)
    BY <1>7, <2>1, <2>2 DEF HttpInv, RateInv, GrantsCapped
  <2>3. CASE Granted(t)' /\ c = b /\ from <= now /\ now < from + Window
    <3>1. Spent(b, from, from + Window)' = Spent(b, from, from + Window) + 1
      BY <1>8, <2>1, <2>3
    <3>2. Spent(b, from, from + Window) = Spent(b, from, now + 1)
      BY <1>9, <2>1, <2>3
    <3>3. Spent(b, from, now + 1) <= Len(recent)
      BY <2>3, SpentIsRecent
    <3>4. Len(recent) < Rpm /\ Len(recent) \in Nat
      BY <1>1, <2>3
    <3>5. Spent(b, from, now + 1) \in Nat
      BY <1>1, CountsFinite
    <3> QED
      BY <1>1, <2>3, <3>1, <3>2, <3>3, <3>4, <3>5
  <2> QED
    BY <2>2, <2>3
<1> QED
  BY <1>3, <1>12, <1>13 DEF RateInv

LEMMA ConsumeConduct ==
  ASSUME HttpInv, NEW t \in Threads, ConsumeRpm(t)
  PROVE  HttpInv'
<1> DEFINE call == thread[t]
           recent == Recent(call.budget)
<1>1. HttpType /\ call \in Calls /\ call.pc = "budget" /\ now \in Nat /\ ~Granted(t)
  BY CallingBy DEF ConsumeRpm, HttpInv, TurnInv, HttpType, Calling, Granted
<1>2. call.budget \in Budgets
  BY <1>1 DEF Calls
<1>3. recent \in Seq(Int)
  BY <1>1, <1>2, RecentKeeps
<1>4. UNCHANGED <<now, holder, lastTurn, robots, turns>>
  BY DEF ConsumeRpm
<1> HIDE DEF recent
<1>5. ASSUME NEW next \in Calls, thread' = [thread EXCEPT ![t] = next],
             next.pc \in {"budget", "queue"}, next.attempt = call.attempt, next.after = call.after,
             granted' \in [Budgets -> Seq(Int)]
      PROVE  TurnInv'
  <2>1. thread'[t] = next /\ \A u \in Threads \ {t} : thread'[u] = thread[u]
    BY <1>1, <1>5 DEF HttpType
  <2>2. HttpType'
    BY <1>1, <1>4, <1>5 DEF HttpType
  <2>3. WaitsHold' /\ TurnsApart'
    BY <1>4, <1>5, <2>1 DEF HttpInv, TurnInv, WaitsHold, TurnsApart
  <2>4. PausesKept'
    BY <1>1, <1>4, <1>5, <2>1 DEF HttpInv, TurnInv, PausesKept, Calling
  <2> QED
    BY <2>2, <2>3, <2>4 DEF TurnInv
<1>6. CASE Len(recent) < Rpm
  <2> DEFINE next == Given(call, now)
  <2>1. /\ thread' = [thread EXCEPT ![t] = next]
        /\ granted' = [granted EXCEPT ![call.budget] = Append(recent, now)]
    BY <1>6 DEF ConsumeRpm, recent, Given
  <2>2. /\ next \in Calls
        /\ next.pc = "queue" /\ next.granted = now /\ next.budget = call.budget
        /\ next.attempt = call.attempt /\ next.after = call.after
    BY <1>1, GrantedCall
  <2> HIDE DEF next
  <2>3. granted' \in [Budgets -> Seq(Int)]
    <3>1. Append(recent, now) \in Seq(Int)
      BY <1>1, <1>3
    <3> QED
      BY <1>1, <2>1, <3>1 DEF HttpType
  <2>4. TurnInv'
    BY <1>5, <2>1, <2>2, <2>3
  <2>5. thread'[t] = next /\ \A u \in Threads \ {t} : thread'[u] = thread[u]
    BY <1>1, <2>1 DEF HttpType
  <2>6. Granted(t)'
    BY <2>2, <2>5 DEF Granted, Calling
  <2>7. recent = Recent(call.budget)
    BY DEF recent
  <2>8. RateInv'
    BY <1>1, <1>2, <1>4, <1>6, <2>1, <2>2, <2>5, <2>6, <2>7, ConsumeRate
  <2> QED
    BY <2>4, <2>8 DEF HttpInv
<1>7. CASE ~(Len(recent) < Rpm)
  <2> DEFINE next == Asleep(call, recent[1] + Window)
  <2>1. /\ thread' = [thread EXCEPT ![t] = next]
        /\ granted' = [granted EXCEPT ![call.budget] = recent]
    BY <1>7 DEF ConsumeRpm, recent, Asleep
  <2>2. recent[1] + Window \in Int
    BY <1>3, <1>7, HttpAssumption
  <2>3. next \in Calls /\ next.pc = call.pc /\ next.attempt = call.attempt /\ next.after = call.after
    BY <1>1, <2>2, SleepingCall
  <2> HIDE DEF next
  <2>4. granted' \in [Budgets -> Seq(Int)]
    BY <1>1, <1>3, <2>1 DEF HttpType
  <2>5. TurnInv'
    BY <1>1, <1>5, <2>1, <2>3, <2>4
  <2>6. thread'[t] = next /\ \A u \in Threads \ {t} : thread'[u] = thread[u]
    BY <1>1, <2>1 DEF HttpType
  <2>7. ~Granted(t)'
    BY <1>1, <2>3, <2>6 DEF Granted, Calling
  <2>8. recent = Recent(call.budget)
    BY DEF recent
  <2>9. RateInv'
    BY <1>1, <1>2, <1>4, <2>1, <2>6, <2>7, <2>8, ConsumeRate
  <2> QED
    BY <2>5, <2>9 DEF HttpInv
<1> QED
  BY <1>6, <1>7

LEMMA ConductStays ==
  ASSUME HttpInv, [HttpNext]_httpVars
  PROVE  HttpInv'
<1>1. CASE UNCHANGED httpVars
  <2>1. UNCHANGED <<now, turns, granted, thread, holder, lastTurn>>
    BY <1>1 DEF httpVars
  <2>2. TurnInv'
    BY <2>1 DEF HttpInv, TurnInv, HttpType, WaitsHold, TurnsApart, PausesKept, Calling
  <2>3. RateInv'
    BY <2>1, RateKept DEF Granted, Calling
  <2> QED
    BY <2>2, <2>3 DEF HttpInv
<1>2. ASSUME NEW t \in Threads, NEW h \in Hosts, NEW b \in Budgets, Request(t, h, b)
      PROVE  HttpInv'
  BY <1>2, BeginConduct DEF Request
<1>3. ASSUME NEW t \in Threads, NEW h \in Hosts, NEW b \in Budgets, Allowed(t, h, b)
      PROVE  HttpInv'
  BY <1>3, BeginConduct DEF Allowed
<1> QED
  BY <1>1, <1>2, <1>3, PassConduct, ConsumeConduct, EnterConduct, LeaveConduct, RespondConduct,
     ResumeConduct DEF HttpNext

\* However many threads share the client and however late they wake: the turns of a host
\* are an interval apart, no window of time holds more granted requests of a budget than
\* its rate, no call is sent more often than its retries nor before the pause the source
\* told of it.
THEOREM ClientPolite == HttpSpec => []Polite
<1>1. HttpInit => HttpInv
  BY HttpStarts
<1>2. HttpInv /\ [HttpNext]_httpVars => HttpInv'
  BY ConductStays
<1>3. HttpInv => Polite
  <2> SUFFICES ASSUME HttpInv
               PROVE  Polite
    OBVIOUS
  <2>1. ASSUME NEW b \in Budgets, NEW i \in DOMAIN turns
        PROVE  Cardinality(GrantedWith(b, turns[i].granted)) <= Rpm
    <3> DEFINE from == turns[i].granted
    <3>1. HttpType /\ Window \in Nat /\ Rpm \in Nat /\ \A j \in DOMAIN turns : turns[j].granted \in Int
      BY GrantTimes, HttpAssumption DEF HttpInv, TurnInv
    <3>2. from \in Int /\ from + Window \in Int
      BY <3>1
    <3> HIDE DEF from
    <3>3. GrantedWith(b, from) = TurnsIn(b, from, from + Window)
      BY <3>1, <3>2 DEF GrantedWith, TurnsIn
    <3>4. Cardinality(TurnsIn(b, from, from + Window)) <= Spent(b, from, from + Window)
      BY <3>1, CountsFinite DEF Spent
    <3>5. Spent(b, from, from + Window) <= Rpm
      BY <3>2 DEF HttpInv, RateInv, GrantsCapped
    <3>6. Spent(b, from, from + Window) \in Nat /\ Cardinality(TurnsIn(b, from, from + Window)) \in Nat
      BY <3>1, CountsFinite
    <3> QED
      BY <3>1, <3>3, <3>4, <3>5, <3>6 DEF from
  <2> QED
    BY <2>1 DEF HttpInv, TurnInv, TurnsApart, PausesKept, Polite
<1> QED
  BY <1>1, <1>2, <1>3, PTL DEF HttpSpec


-----------------------------------------------------------------------------
(* Asking a language model *)

LlmSpec == LlmInit /\ [][LlmNext]_llmVars

Providers == DOMAIN KeysOf
Replies == KeyedAnswers \cup OllamaAnswers \cup {"skipped", "parked"}
Asks == [provider : Providers, key : Nat, answer : Replies, freeAt : Nat]

\* A question that has been put, with what is left of the chain.
Questions ==
  [pc : {"asking", "parsing", "answered", "violation", "failed"}, attempt : 1..2,
   left : Seq(Providers)]

LlmType ==
  /\ moment \in Nat
  /\ chain \in Seq(Providers) /\ chain # <<>>
  /\ parked \in [Keys -> Nat] /\ uses \in [Keys -> Nat]
  /\ coolingUntil \in [Providers -> Nat]
  /\ asked \in Seq(Asks)
  /\ question \in {Quiet} \cup Questions

\* What has been asked and what is left make up the chain, and whoever is last was not
\* skipped unless another had failed.
PathKept ==
  question.pc \in {"asking", "failed"} =>
    /\ Len(asked) + Len(question.left) = Len(chain)
    /\ \A i \in 1..Len(asked) : asked[i].provider = chain[i]
    /\ \A i \in 1..Len(question.left) : question.left[i] = chain[Len(asked) + i]
    /\ question.pc = "failed" => question.left = <<>>
    /\ question.left = <<>> => Errors # {}

LlmInv == LlmType /\ RestedKeys /\ EvenLoad /\ PathKept

\* acquire() returns a key of the provider that is not parked and is used the least.
LEMMA AcquiredKey ==
  ASSUME LlmType, NEW p \in Providers, Available(p) # {}
  PROVE  /\ Acquired(p) \in KeysOf[p] /\ Acquired(p) \in Keys
         /\ parked[Acquired(p)] <= moment
         /\ \A j \in Available(p) : uses[Acquired(p)] <= uses[j]
<1> DEFINE idle == Available(p)
           counts == {uses[k] : k \in idle}
           least == {k \in idle : uses[k] = Min(counts)}
<1>1. idle \subseteq KeysOf[p] /\ idle \subseteq Keys
  BY DEF Available, Keys, Providers
<1>2. counts \in SUBSET Nat /\ counts # {}
  BY <1>1 DEF LlmType
<1>3. Min(counts) \in counts /\ \A n \in counts : Min(counts) <= n
  <2> HIDE DEF counts
  <2> QED BY <1>2, MinIsLeast
<1>4. least \in SUBSET Nat /\ least # {}
  BY <1>1, <1>3, InferenceAssumption DEF Providers
<1>5. Min(least) \in least
  <2> HIDE DEF least
  <2> QED BY <1>4, MinIsLeast
<1>6. Acquired(p) = Min(least)
  BY DEF Acquired
<1> QED BY <1>1, <1>3, <1>5, <1>6 DEF Available

\* A key that is used is one of the least used; it may be parked.
Used(p, k) ==
  /\ k \in KeysOf[p] /\ k \in Keys /\ parked[k] <= moment
  /\ \A j \in Available(p) : uses[k] <= uses[j]
  /\ uses' = [uses EXCEPT ![k] = @ + 1]
  /\ UNCHANGED parked \/ \E n \in Nat : parked' = [parked EXCEPT ![k] = moment + n]

\* A provider was asked or passed over: what that adds to the record and does to the pools.
Tried(a) ==
  /\ asked' = Append(asked, a)
  /\ a.provider = question.left[1] /\ a.freeAt <= moment
  /\ a.answer = "skipped" => Len(question.left) > 1 \/ Errors # {}
  /\ coolingUntil' \in [Providers -> Nat]
  /\ UNCHANGED <<parked, uses>> \/ \E k \in Keys : Used(a.provider, k)

LEMMA NoteTried ==
  ASSUME LlmType, NEW p \in Providers, p = question.left[1], NEW answer \in {"skipped", "parked"},
         answer = "skipped" => Len(question.left) > 1 \/ Errors # {}, Note(p, answer)
  PROVE  \E a \in Asks : Tried(a)
<1> DEFINE a == [provider |-> p, key |-> NoKey, answer |-> answer, freeAt |-> 0]
<1>1. a \in Asks
  BY DEF Asks, NoKey, Replies
<1>2. asked' = Append(asked, a) /\ UNCHANGED <<parked, uses, coolingUntil>>
  BY DEF Note
<1>3. a.provider = p /\ a.freeAt = 0 /\ a.answer = answer
  OBVIOUS
<1>4. 0 <= moment /\ coolingUntil \in [Providers -> Nat]
  BY DEF LlmType
<1> HIDE DEF a
<1> QED BY <1>1, <1>2, <1>3, <1>4 DEF Tried

LEMMA AskTried ==
  ASSUME LlmType, NEW p \in Providers, p = question.left[1], NEW answer \in Answers(p),
         KeysOf[p] = {} \/ Available(p) # {}, Ask(p, answer)
  PROVE  \E a \in Asks : Tried(a)
<1> DEFINE k == IF KeysOf[p] = {} THEN NoKey ELSE Acquired(p)
           a == [provider |-> p, key |-> k, answer |-> answer,
                 freeAt |-> IF k = NoKey THEN 0 ELSE parked[k]]
<1>1. answer \in Replies /\ answer # "skipped"
  BY DEF Answers, Replies, OllamaAnswers, KeyedAnswers
<1>2. /\ asked' = Append(asked, a)
      /\ uses' = IF k = NoKey THEN uses ELSE [uses EXCEPT ![k] = @ + 1]
      /\ IF answer = "limited" THEN \E retryAfter \in {0, 1} : parked' = Park(k, retryAfter)
         ELSE UNCHANGED parked
  BY DEF Ask
<1>3. coolingUntil' \in [Providers -> Nat]
  BY InferenceAssumption DEF Ask, LlmType
<1>4. CASE KeysOf[p] = {}
  <2>1. k = NoKey /\ answer # "limited"
    BY <1>4 DEF Answers, OllamaAnswers
  <2>2. UNCHANGED <<parked, uses>>
    BY <1>2, <2>1
  <2>3. a \in Asks /\ a.freeAt = 0 /\ a.provider = p /\ a.answer = answer
    BY <1>1, <2>1 DEF Asks, NoKey
  <2>4. 0 <= moment
    BY DEF LlmType
  <2> HIDE DEF a
  <2> QED BY <1>1, <1>2, <1>3, <2>2, <2>3, <2>4 DEF Tried
<1>5. CASE KeysOf[p] # {}
  <2>1. /\ k \in KeysOf[p] /\ k \in Keys /\ parked[k] <= moment
        /\ \A j \in Available(p) : uses[k] <= uses[j]
    BY <1>5, AcquiredKey
  <2>2. k # NoKey /\ k \in Nat
    BY <2>1, InferenceAssumption DEF Providers
  <2>3. a \in Asks /\ a.freeAt = parked[k] /\ a.provider = p /\ a.answer = answer
    <3>1. parked[k] \in Nat
      BY <2>1 DEF LlmType
    <3> HIDE DEF k
    <3> QED BY <1>1, <2>2, <3>1 DEF Asks
  <2>4. UNCHANGED parked \/ \E n \in Nat : parked' = [parked EXCEPT ![k] = moment + n]
    <3> HIDE DEF k
    <3>1. \A r \in {0, 1} : (IF r > 0 THEN r ELSE DefaultPark) \in Nat
      BY InferenceAssumption
    <3> QED BY <1>2, <3>1 DEF Park
  <2>5. Used(p, k)
    <3> HIDE DEF k
    <3> QED BY <1>2, <2>1, <2>2, <2>4 DEF Used
  <2> HIDE DEF a, k
  <2> QED BY <1>1, <1>2, <1>3, <2>1, <2>3, <2>5 DEF Tried
<1> QED BY <1>4, <1>5

\* One step of chat() through the chain.
LEMMA TryStep ==
  ASSUME LlmType, TryNext
  PROVE  /\ question.pc = "asking" /\ question.left # <<>>
         /\ \E a \in Asks : Tried(a)
         /\ \/ question' = [question EXCEPT !.left = Tail(@)]
            \/ question' = [question EXCEPT !.pc = "parsing"]
<1> DEFINE p == question.left[1]
<1>1. question.pc = "asking" /\ question.left # <<>>
  BY DEF TryNext
<1>2. p \in Providers
  BY <1>1 DEF LlmType, Quiet, Questions
<1>3. \/ Skips(p) /\ Note(p, "skipped")
      \/ Note(p, "parked")
      \/ /\ KeysOf[p] = {} \/ Available(p) # {}
         /\ \E answer \in Answers(p) : Ask(p, answer)
  BY DEF TryNext
<1>4. Skips(p) => Len(question.left) > 1 \/ Errors # {}
  BY DEF Skips
<1>5. \E a \in Asks : Tried(a)
  <2> HIDE DEF p
  <2>1. p = question.left[1]
    BY DEF p
  <2> QED BY <1>2, <1>3, <1>4, <2>1, NoteTried, AskTried
<1>6. \/ question' = [question EXCEPT !.left = Tail(@)]
      \/ question' = [question EXCEPT !.pc = "parsing"]
  BY DEF TryNext
<1> QED BY <1>1, <1>5, <1>6

LEMMA LlmTypeStep ==
  ASSUME LlmType, [LlmNext]_llmVars
  PROVE  LlmType'
<1>1. CASE TryNext
  <2>1. PICK a \in Asks : Tried(a)
    BY <1>1, TryStep
  <2>2. asked' \in Seq(Asks)
    BY <2>1 DEF Tried, LlmType
  <2>3. parked' \in [Keys -> Nat] /\ uses' \in [Keys -> Nat]
    <3>1. moment \in Nat /\ parked \in [Keys -> Nat] /\ uses \in [Keys -> Nat]
      BY DEF LlmType
    <3>2. CASE UNCHANGED <<parked, uses>>
      BY <3>1, <3>2
    <3>3. ASSUME NEW k \in Keys, Used(a.provider, k) PROVE parked' \in [Keys -> Nat] /\ uses' \in [Keys -> Nat]
      <4>1. uses' = [uses EXCEPT ![k] = @ + 1]
        BY <3>3 DEF Used
      <4>2. UNCHANGED parked \/ \E n \in Nat : parked' = [parked EXCEPT ![k] = moment + n]
        BY <3>3 DEF Used
      <4> QED BY <3>1, <4>1, <4>2
    <3> QED BY <2>1, <3>2, <3>3 DEF Tried
  <2>4. question' \in {Quiet} \cup Questions
    <3>1. question.left # <<>> /\ question.pc = "asking"
      BY <1>1 DEF TryNext
    <3>2. question \in Questions
      BY <3>1 DEF LlmType, Quiet
    <3>3. Tail(question.left) \in Seq(Providers)
      BY <3>1, <3>2 DEF Questions
    <3>4. CASE question' = [question EXCEPT !.left = Tail(@)]
      BY <3>2, <3>3, <3>4 DEF Questions
    <3>5. CASE question' = [question EXCEPT !.pc = "parsing"]
      BY <3>2, <3>5 DEF Questions
    <3> QED BY <1>1, <3>4, <3>5, TryStep
  <2>5. UNCHANGED <<moment, chain>> /\ coolingUntil' \in [Providers -> Nat]
    BY <1>1, <2>1 DEF TryNext, Tried
  <2> QED BY <2>2, <2>3, <2>4, <2>5 DEF LlmType
<1>2. ASSUME UNCHANGED <<chain, parked, uses, coolingUntil>>, moment' \in Nat,
             asked' \in {asked, <<>>},
             question' \in {Quiet} \cup Questions
      PROVE  LlmType'
  <2>1. asked' \in Seq(Asks)
    <3>1. asked \in Seq(Asks) /\ <<>> \in Seq(Asks)
      BY DEF LlmType
    <3> QED BY <1>2, <3>1
  <2> QED BY <1>2, <2>1 DEF LlmType
<1>3. ASSUME NEW valid \in BOOLEAN, Parse(valid) PROVE LlmType'
  <2>1. question \in Questions
    BY <1>3 DEF Parse, LlmType, Quiet
  <2>2. \/ question' = [pc |-> "asking", attempt |-> 2, left |-> chain]
        \/ question' = [question EXCEPT !.pc = "answered"]
        \/ question' = [question EXCEPT !.pc = "violation"]
    BY <1>3 DEF Parse
  <2>3. question' \in Questions
    <3>1. chain \in Seq(Providers)
      BY DEF LlmType
    <3> QED BY <2>1, <2>2, <3>1 DEF Questions
  <2> QED BY <1>2, <1>3, <2>3 DEF Parse, LlmType
<1>4. CASE Exhausted
  <2>1. question \in Questions
    BY <1>4 DEF Exhausted, LlmType, Quiet
  <2>2. question' \in Questions
    BY <1>4, <2>1 DEF Exhausted, Questions
  <2> QED BY <1>2, <1>4, <2>2 DEF Exhausted, LlmType
<1>5. CASE Question
  <2>1. question' \in Questions
    BY <1>5 DEF Question, Questions, LlmType
  <2> QED BY <1>2, <1>5, <2>1 DEF Question, LlmType
<1>6. CASE Later
  BY <1>2, <1>6 DEF Later, LlmType
<1>7. CASE UNCHANGED llmVars
  BY <1>2, <1>7 DEF llmVars, LlmType
<1> QED BY <1>1, <1>3, <1>4, <1>5, <1>6, <1>7 DEF LlmNext

\* What was asked stays within what was free, as time only moves on.
LEMMA RestedStep ==
  ASSUME LlmType, RestedKeys, [LlmNext]_llmVars
  PROVE  RestedKeys'
<1>1. CASE TryNext
  <2>1. PICK a \in Asks : Tried(a)
    BY <1>1, TryStep
  <2>2. UNCHANGED moment /\ asked' = Append(asked, a) /\ a.freeAt <= moment
    BY <1>1, <2>1 DEF TryNext, Tried
  <2>3. asked \in Seq(Asks)
    BY DEF LlmType
  <2> QED BY <2>2, <2>3 DEF RestedKeys
<1>2. ASSUME asked' \in {asked, <<>>}, moment' \in Nat, moment <= moment' PROVE RestedKeys'
  <2>1. \A i \in DOMAIN asked : asked[i].freeAt \in Nat
    <3>1. \A i \in DOMAIN asked : asked[i] \in Asks
      BY DEF LlmType
    <3> QED BY <3>1 DEF Asks
  <2>2. CASE asked' = asked
    <3>1. moment \in Nat
      BY DEF LlmType
    <3> QED BY <1>2, <2>1, <2>2, <3>1 DEF RestedKeys
  <2>3. CASE asked' = <<>>
    BY <2>3 DEF RestedKeys
  <2> QED BY <1>2, <2>2, <2>3
<1>3. CASE (\E valid \in BOOLEAN : Parse(valid)) \/ Exhausted \/ Question \/ UNCHANGED llmVars
  BY <1>2, <1>3 DEF Parse, Exhausted, Question, llmVars, LlmType
<1>4. CASE Later
  BY <1>2, <1>4 DEF Later, LlmType
<1> QED BY <1>1, <1>3, <1>4 DEF LlmNext

\* The key that is used was among the least used of those that are not parked.
LEMMA EvenStep ==
  ASSUME LlmType, EvenLoad, [LlmNext]_llmVars
  PROVE  EvenLoad'
<1>1. ASSUME UNCHANGED <<parked, uses>> PROVE EvenLoad'
  BY <1>1 DEF EvenLoad, Unparked
<1>2. ASSUME NEW q \in Providers, NEW x \in Keys, Used(q, x), UNCHANGED moment PROVE EvenLoad'
  <2> SUFFICES ASSUME NEW p \in Providers, NEW j \in Unparked(p)', NEW k \in Unparked(p)'
               PROVE  uses'[j] - uses'[k] \in -1..1
    BY DEF EvenLoad, Providers
  <2>1. j \in KeysOf[p] /\ k \in KeysOf[p] /\ j \in Keys /\ k \in Keys
    BY DEF Unparked, Keys, Providers
  <2>2. \A i \in KeysOf[p] : i \in Unparked(p)' => i \in Unparked(p)
    <3> SUFFICES ASSUME NEW i \in KeysOf[p], parked'[i] = 0 PROVE parked[i] = 0
      BY DEF Unparked
    <3>1. i \in Keys
      BY DEF Keys, Providers
    <3>2. CASE i # x
      BY <1>2, <3>1, <3>2 DEF Used, LlmType
    <3>3. CASE i = x
      BY <1>2, <3>1, <3>3 DEF Used, LlmType
    <3> QED BY <3>2, <3>3
  <2>3. uses[j] - uses[k] \in -1..1
    BY <2>1, <2>2 DEF EvenLoad, Providers
  <2>4. uses[j] \in Nat /\ uses[k] \in Nat /\ uses[x] \in Nat
    BY <2>1 DEF LlmType
  <2>5. \A i \in Keys : uses'[i] = IF i = x THEN uses[x] + 1 ELSE uses[i]
    BY <1>2 DEF Used, LlmType
  <2>6. ASSUME NEW i \in Unparked(p)', x \in KeysOf[p] PROVE uses[x] <= uses[i]
    <3>1. p = q
      BY <1>2, <2>6, InferenceAssumption DEF Used, Providers
    <3>2. i \in Available(p)
      BY <2>2 DEF Unparked, Available, LlmType
    <3> QED BY <1>2, <3>1, <3>2 DEF Used
  <2>7. CASE j # x /\ k # x
    BY <2>1, <2>3, <2>5, <2>7
  <2>8. CASE j = x /\ k # x
    BY <2>1, <2>3, <2>4, <2>5, <2>6, <2>8
  <2>9. CASE j # x /\ k = x
    BY <2>1, <2>3, <2>4, <2>5, <2>6, <2>9
  <2>10. CASE j = x /\ k = x
    BY <2>1, <2>4, <2>5, <2>10
  <2> QED BY <2>7, <2>8, <2>9, <2>10
<1>3. CASE TryNext
  <2>1. PICK a \in Asks : Tried(a)
    BY <1>3, TryStep
  <2>2. a.provider \in Providers /\ UNCHANGED moment
    BY <1>3 DEF Asks, TryNext
  <2> QED BY <1>1, <1>2, <2>1, <2>2 DEF Tried
<1> QED BY <1>1, <1>3 DEF LlmNext, Parse, Exhausted, Question, Later, llmVars

\* The chain is gone through in order.
LEMMA PathStep ==
  ASSUME LlmType, PathKept, [LlmNext]_llmVars
  PROVE  PathKept'
<1>1. CASE TryNext
  <2>1. PICK a \in Asks : Tried(a)
    BY <1>1, TryStep
  <2>2. /\ asked' = Append(asked, a) /\ a.provider = question.left[1] /\ UNCHANGED chain
        /\ a.answer = "skipped" => Len(question.left) > 1 \/ Errors # {}
    BY <1>1, <2>1 DEF TryNext, Tried
  <2>3. /\ question.pc = "asking" /\ question.left # <<>>
        /\ \/ question' = [question EXCEPT !.left = Tail(@)]
           \/ question' = [question EXCEPT !.pc = "parsing"]
    BY <1>1, TryStep
  <2>4. question \in Questions
    BY <2>3 DEF LlmType, Quiet
  <2>5. asked \in Seq(Asks) /\ question.left \in Seq(Providers)
    BY <2>4 DEF LlmType, Questions
  <2>6. CASE question' = [question EXCEPT !.pc = "parsing"]
    <3>1. question'.pc = "parsing"
      BY <2>4, <2>6 DEF Questions
    <3> QED BY <3>1 DEF PathKept
  <2>7. CASE question' = [question EXCEPT !.left = Tail(@)]
    <3> DEFINE n == Len(asked)
               m == Len(question.left)
    <3>1. question'.pc = "asking" /\ question'.left = Tail(question.left)
      BY <2>3, <2>4, <2>7 DEF Questions
    <3>2. /\ n \in Nat /\ m \in Nat /\ m > 0
          /\ n + m = Len(chain)
          /\ \A i \in 1..n : asked[i].provider = chain[i]
          /\ \A i \in 1..m : question.left[i] = chain[n + i]
      BY <2>3, <2>5 DEF PathKept
    <3>3. Len(asked') = n + 1 /\ Len(question'.left) = m - 1
      BY <2>2, <2>3, <2>5, <3>1
    <3>4. \A i \in 1..(n + 1) : asked'[i].provider = chain[i]
      BY <2>2, <2>5, <3>2
    <3>5. \A i \in 1..(m - 1) : question'.left[i] = chain[n + 1 + i]
      <4>1. \A i \in 1..(m - 1) : Tail(question.left)[i] = question.left[i + 1]
        BY <2>3, <2>5
      <4> HIDE DEF n, m
      <4>2. ASSUME NEW i \in 1..(m - 1) PROVE question.left[i + 1] = chain[n + 1 + i]
        <5>1. i + 1 \in 1..m /\ n + (i + 1) = n + 1 + i
          BY <3>2
        <5> QED BY <3>2, <5>1
      <4> QED BY <3>1, <4>1, <4>2
    <3>6. ASSUME question'.left = <<>> PROVE Errors' # {}
      <4>1. m = 1
        BY <2>5, <3>2, <3>3, <3>6
      <4>2. a.answer = "skipped" => Errors # {}
        BY <2>2, <4>1
      <4>3. \A i \in Errors : i \in Errors'
        BY <2>2, <2>5 DEF Errors
      <4>4. a.answer # "skipped" => n + 1 \in Errors'
        BY <2>2, <2>5, <3>2 DEF Errors
      <4>5. CASE a.answer = "skipped"
        BY <4>2, <4>3, <4>5
      <4>6. CASE a.answer # "skipped"
        BY <4>4, <4>6
      <4> QED BY <4>5, <4>6
    <3>7. Len(asked') + Len(question'.left) = Len(chain')
      <4>1. chain' = chain
        BY <2>2
      <4> HIDE DEF n, m
      <4> QED BY <3>2, <3>3, <4>1
    <3>8. \A i \in 1..Len(asked') : asked'[i].provider = chain'[i]
      BY <2>2, <3>3, <3>4
    <3>9. \A i \in 1..Len(question'.left) : question'.left[i] = chain'[Len(asked') + i]
      <4> HIDE DEF n, m
      <4> QED BY <2>2, <3>3, <3>5
    <3> HIDE DEF n, m
    <3> QED BY <3>1, <3>6, <3>7, <3>8, <3>9 DEF PathKept
  <2> QED BY <2>3, <2>6, <2>7
<1>2. ASSUME question'.pc = "asking", question'.left = chain, asked' = <<>>, UNCHANGED chain
      PROVE  PathKept'
  BY <1>2 DEF PathKept, LlmType
<1>3. CASE \E valid \in BOOLEAN : Parse(valid)
  <2>1. PICK valid \in BOOLEAN : Parse(valid)
    BY <1>3
  <2>2. question \in Questions
    BY <2>1 DEF Parse, LlmType, Quiet
  <2>3. CASE question' = [pc |-> "asking", attempt |-> 2, left |-> chain]
    BY <1>2, <2>1, <2>3 DEF Parse
  <2>4. CASE \/ question' = [question EXCEPT !.pc = "answered"]
             \/ question' = [question EXCEPT !.pc = "violation"]
    <3>1. question'.pc \in {"answered", "violation"}
      BY <2>2, <2>4 DEF Questions
    <3> QED BY <3>1 DEF PathKept
  <2> QED BY <2>1, <2>3, <2>4 DEF Parse
<1>4. CASE Exhausted
  <2>1. question \in Questions
    BY <1>4 DEF Exhausted, LlmType, Quiet
  <2>2. question.pc = "asking" /\ question.left = <<>> /\ question'.left = <<>>
    BY <1>4, <2>1 DEF Exhausted, Questions
  <2> QED BY <1>4, <2>2 DEF Exhausted, PathKept, Errors
<1>5. CASE Question
  BY <1>2, <1>5 DEF Question
<1>6. CASE Later \/ UNCHANGED llmVars
  BY <1>6 DEF Later, llmVars, PathKept, Errors
<1> QED BY <1>1, <1>3, <1>4, <1>5, <1>6 DEF LlmNext

\* For any pools of keys, cooldowns and pauses: a parked key is not used before its time,
\* the keys that were never limited share the load evenly, and a question fails only
\* after every provider was tried or skipped and at least one was tried.
THEOREM ChainAsksRightly == LlmSpec => []AsksRightly
<1>1. LlmInit => LlmInv
  <2> SUFFICES ASSUME LlmInit PROVE LlmInv
    OBVIOUS
  <2>1. chain \in Seq(Providers) /\ chain # <<>>
    <3>1. {"groq", "gemini", "ollama"} \subseteq Providers
      BY InferenceAssumption DEF Providers
    <3>2. \/ chain \in {<<"groq">> \o f : f \in {<<>>, <<"gemini">>, <<"gemini", "ollama">>}}
          \/ chain = <<"ollama">>
      BY DEF LlmInit, Chains
    <3>3. ASSUME NEW f \in {<<>>, <<"gemini">>, <<"gemini", "ollama">>}, chain = <<"groq">> \o f
          PROVE  chain \in Seq(Providers) /\ chain # <<>>
      <4>1. f \in Seq(Providers)
        <5>1. <<>> \in Seq(Providers)
          OBVIOUS
        <5>2. <<"gemini">> \in Seq(Providers)
          BY <3>1
        <5>3. <<"gemini", "ollama">> \in Seq(Providers)
          BY <3>1
        <5> QED BY <5>1, <5>2, <5>3
      <4>2. <<"groq">> \in Seq(Providers) /\ Len(<<"groq">>) = 1
        BY <3>1
      <4>3. chain \in Seq(Providers) /\ Len(chain) = 1 + Len(f)
        BY <3>3, <4>1, <4>2, ConcatProperties
      <4> QED BY <4>1, <4>3
    <3>4. CASE chain = <<"ollama">>
      BY <3>1, <3>4
    <3> QED BY <3>2, <3>3, <3>4
  <2>2. LlmType
    BY <2>1 DEF LlmInit, LlmType, Providers
  <2>3. RestedKeys /\ PathKept
    BY DEF LlmInit, RestedKeys, PathKept, Quiet
  <2>4. EvenLoad
    <3>1. \A p \in DOMAIN KeysOf : KeysOf[p] \subseteq Keys
      BY DEF Keys
    <3> QED BY <3>1 DEF LlmInit, EvenLoad, Unparked
  <2> QED BY <2>2, <2>3, <2>4 DEF LlmInv
<1>2. LlmInv /\ [LlmNext]_llmVars => LlmInv'
  BY LlmTypeStep, RestedStep, EvenStep, PathStep DEF LlmInv
<1>3. LlmInv => AsksRightly
  <2> SUFFICES ASSUME LlmInv, question.pc = "failed" PROVE TriedAll
    BY DEF LlmInv, AsksRightly
  <2>1. /\ asked \in Seq(Asks) /\ chain \in Seq(Providers) /\ question.left = <<>>
        /\ Len(asked) = Len(chain) /\ Errors # {}
        /\ \A i \in 1..Len(asked) : asked[i].provider = chain[i]
    BY DEF LlmInv, LlmType, PathKept
  <2>2. [i \in DOMAIN asked |-> asked[i].provider] = chain
    BY <2>1
  <2> QED BY <2>1, <2>2 DEF TriedAll
<1> QED BY <1>1, <1>2, <1>3, PTL DEF LlmSpec

-----------------------------------------------------------------------------
(* An advert: what is read is what is written *)

Extract == [line : Nat, must : BOOLEAN]

ReadSoFar(s) == IF s = "responsibilities" THEN "none" ELSE s

ReaderOk ==
  /\ advert \in Seq(Lines)
  /\ extracted \in Seq(Extract)
  /\ Len(extracted) < MaxRequirements =>
       /\ section = ReadSoFar(SectionAt(Len(advert) + 1))
       /\ bulleted = ListedBefore(Len(advert) + 1)
  /\ ReadAsWritten

LEMMA EarlierLines ==
  ASSUME advert \in Seq(Lines), NEW line \in Lines, advert' = Append(advert, line),
         NEW n \in Nat, Len(advert) = n
  PROVE  /\ Len(advert') = n + 1 /\ advert'[n + 1] = line
         /\ \A i \in 1..n : advert'[i] = advert[i]
         /\ \A i \in 1..(n + 1) :
              /\ HeadingOf(i)' = HeadingOf(i)
              /\ SectionAt(i)' = SectionAt(i)
              /\ ListedBefore(i)' = ListedBefore(i)
         /\ \A i \in 1..n :
              /\ IsRequirement(i)' = IsRequirement(i)
              /\ \A must \in BOOLEAN : IsStrength(i, must)' = IsStrength(i, must)
<1>1. /\ Len(advert') = n + 1 /\ advert'[n + 1] = line
      /\ \A i \in 1..n : advert'[i] = advert[i]
  OBVIOUS
<1>2. ASSUME NEW i \in 1..(n + 1)
      PROVE  HeadingOf(i)' = HeadingOf(i)
  BY <1>1 DEF HeadingOf
<1>3. ASSUME NEW i \in 1..(n + 1)
      PROVE  SectionAt(i)' = SectionAt(i)
  <2>1. CASE HeadingOf(i) = {}
    BY <1>2, <2>1 DEF SectionAt
  <2>2. CASE HeadingOf(i) # {}
    <3>1. HeadingOf(i) \in SUBSET (1..n)
      BY DEF HeadingOf
    <3>2. Max(HeadingOf(i)) \in 1..n
      BY <2>2, <3>1, MaxIsGreatest
    <3> QED BY <1>1, <1>2, <2>2, <3>2 DEF SectionAt
  <2> QED BY <2>1, <2>2
<1>4. ASSUME NEW i \in 1..(n + 1)
      PROVE  ListedBefore(i)' = ListedBefore(i)
  BY <1>1, <1>2 DEF ListedBefore
<1>5. ASSUME NEW i \in 1..n
      PROVE  /\ IsRequirement(i)' = IsRequirement(i)
             /\ \A must \in BOOLEAN : IsStrength(i, must)' = IsStrength(i, must)
  <2>1. IsRequirement(i)' = IsRequirement(i)
    BY <1>1, <1>3, <1>4 DEF IsRequirement
  <2>2. ASSUME NEW must \in BOOLEAN PROVE IsStrength(i, must)' = IsStrength(i, must)
    <3>1. i \in 1..(n + 1) /\ advert'[i] = advert[i] /\ SectionAt(i)' = SectionAt(i)
      BY <1>1, <1>3
    <3>2. (advert[i].wording)' = advert[i].wording
      BY <3>1
    <3> QED BY <3>1, <3>2, Zenon DEF IsStrength, StrengthOf, Disputed
  <2> QED BY <2>1, <2>2
<1> QED BY <1>1, <1>2, <1>3, <1>4, <1>5

LEMMA NextLine ==
  ASSUME advert \in Seq(Lines), NEW line \in Lines, advert' = Append(advert, line),
         NEW n \in Nat, Len(advert) = n
  PROVE  /\ SectionAt(n + 2)' = IF line.shape = "heading" THEN line.label ELSE SectionAt(n + 1)
         /\ ListedBefore(n + 2)' =
              (line.shape # "heading" /\ (ListedBefore(n + 1) \/ line.shape = "bullet"))
<1>1. Len(advert') = n + 1 /\ advert'[n + 1] = line /\ (\A i \in 1..n : advert'[i] = advert[i])
  BY EarlierLines
<1>2. HeadingOf(n + 2)' = HeadingOf(n + 1) \cup (IF line.shape = "heading" THEN {n + 1} ELSE {})
  <2>1. \A h \in 1..(n + 1) : h \in 1..n \/ h = n + 1
    OBVIOUS
  <2>2. HeadingOf(n + 2)' = {h \in 1..(n + 1) : advert'[h].shape = "heading"}
    BY DEF HeadingOf
  <2>3. HeadingOf(n + 1) = {h \in 1..n : advert[h].shape = "heading"}
    BY DEF HeadingOf
  <2> QED BY <1>1, <2>1, <2>2, <2>3
<1>3. HeadingOf(n + 1) \in SUBSET (1..n)
  BY <1>1 DEF HeadingOf
<1>4. CASE line.shape = "heading"
  <2>1. HeadingOf(n + 2)' # {} /\ HeadingOf(n + 2)' \in SUBSET (1..(n + 1)) /\ n + 1 \in HeadingOf(n + 2)'
    BY <1>1, <1>2, <1>3, <1>4
  <2>2. Max(HeadingOf(n + 2)') = n + 1
    <3>1. n + 1 \in Nat
      OBVIOUS
    <3>2. Max(HeadingOf(n + 2)') \in 1..(n + 1) /\ n + 1 <= Max(HeadingOf(n + 2)')
      BY <2>1, <3>1, MaxIsGreatest
    <3> QED BY <3>2
  <2>3. SectionAt(n + 2)' = line.label
    BY <1>1, <2>1, <2>2 DEF SectionAt
  <2>4. ~ListedBefore(n + 2)'
    <3> SUFFICES ASSUME NEW b \in 1..(n + 1), \A h \in HeadingOf(n + 2)' : h < b PROVE FALSE
      BY DEF ListedBefore
    <3> QED BY <2>1
  <2>5. ListedBefore(n + 2)' = FALSE
    BY <2>4 DEF ListedBefore
  <2> QED BY <1>4, <2>3, <2>5
<1>5. CASE line.shape # "heading"
  <2>1. HeadingOf(n + 2)' = HeadingOf(n + 1)
    BY <1>2, <1>5
  <2>2. SectionAt(n + 2)' = SectionAt(n + 1)
    <3>1. CASE HeadingOf(n + 1) = {}
      BY <2>1, <3>1 DEF SectionAt
    <3>2. CASE HeadingOf(n + 1) # {}
      <4>1. Max(HeadingOf(n + 1)) \in 1..n
        BY <1>1, <1>3, <3>2, MaxIsGreatest
      <4> QED BY <1>1, <2>1, <3>2, <4>1 DEF SectionAt
    <3> QED BY <3>1, <3>2
  <2>3. ListedBefore(n + 2)' = (ListedBefore(n + 1) \/ line.shape = "bullet")
    <3>1. ListedBefore(n + 2)' =
            \E b \in 1..(n + 1) : advert'[b].shape = "bullet" /\ \A h \in HeadingOf(n + 1) : h < b
      BY <2>1 DEF ListedBefore
    <3>2. ListedBefore(n + 1) =
            \E b \in 1..n : advert[b].shape = "bullet" /\ \A h \in HeadingOf(n + 1) : h < b
      BY DEF ListedBefore
    <3>3. \A h \in HeadingOf(n + 1) : h < n + 1
      BY <1>3
    <3>4. \A h \in 1..(n + 1) : h \in 1..n \/ h = n + 1
      OBVIOUS
    <3>5. n + 1 \in 1..(n + 1) /\ 1..n \subseteq 1..(n + 1)
      OBVIOUS
    <3> QED BY <1>1, <3>1, <3>2, <3>3, <3>4, <3>5
  <2> QED BY <1>5, <2>2, <2>3
<1> QED BY <1>4, <1>5

LEMMA LineShapes ==
  ASSUME NEW line \in Lines
  PROVE  /\ line.shape \in {"heading", "blank", "bullet", "prose"}
         /\ line = Blank <=> line.shape = "blank"
         /\ line.shape = "heading" => line.label \in {"must", "nice", "responsibilities"}
         /\ line.shape \in {"bullet", "prose"} => line.fits \in BOOLEAN /\ line.wording \in Wordings
<1>1. CASE line \in Headings
  <2>1. PICK l \in {"must", "nice", "responsibilities"} : line = [shape |-> "heading", label |-> l]
    BY <1>1 DEF Headings
  <2>2. line.shape = "heading" /\ line.label = l
    BY <2>1
  <2>3. line # Blank
    BY <2>2 DEF Blank
  <2> QED BY <2>2, <2>3
<1>2. CASE line = Blank
  BY <1>2 DEF Blank
<1>3. CASE line \in Contents
  <2>1. line.shape \in {"bullet", "prose"} /\ line.fits \in BOOLEAN /\ line.wording \in Wordings
    BY <1>3 DEF Contents
  <2>2. line # Blank
    BY <2>1 DEF Blank
  <2> QED BY <2>1, <2>2
<1> QED BY <1>1, <1>2, <1>3 DEF Lines

LEMMA SectionTyped ==
  ASSUME advert \in Seq(Lines), NEW i \in 1..(Len(advert) + 1)
  PROVE  SectionAt(i) \in {"none", "must", "nice", "responsibilities"}
<1>1. PICK n \in Nat : Len(advert) = n
  OBVIOUS
<1>2. CASE HeadingOf(i) = {}
  BY <1>2 DEF SectionAt
<1>3. CASE HeadingOf(i) # {}
  <2>1. HeadingOf(i) \in SUBSET (1..n)
    BY <1>1 DEF HeadingOf
  <2>2. Max(HeadingOf(i)) \in HeadingOf(i)
    BY <1>3, <2>1, MaxIsGreatest
  <2>3. PICK h \in 1..n : h = Max(HeadingOf(i)) /\ advert[h].shape = "heading"
    BY <2>1, <2>2 DEF HeadingOf
  <2>4. advert[h] \in Lines
    BY <1>1, <2>3
  <2>5. advert[h].label \in {"must", "nice", "responsibilities"}
    BY <2>3, <2>4, LineShapes
  <2> QED BY <1>3, <2>3, <2>5 DEF SectionAt
<1> QED BY <1>2, <1>3

LEMMA NothingTaken ==
  ASSUME advert \in Seq(Lines), extracted \in Seq(Extract), ReadAsWritten,
         NEW line \in Lines, advert' = Append(advert, line), extracted' = extracted,
         NEW n \in Nat, Len(advert) = n,
         ~IsRequirement(n + 1)' \/ Len(extracted) = MaxRequirements
  PROVE  ReadAsWritten'
<1>1. /\ Len(advert') = n + 1
      /\ \A i \in 1..n :
           /\ IsRequirement(i)' = IsRequirement(i)
           /\ \A must \in BOOLEAN : IsStrength(i, must)' = IsStrength(i, must)
  BY EarlierLines
<1>2. DOMAIN advert = 1..n /\ DOMAIN advert' = 1..(n + 1)
  BY <1>1
<1>3. \A k \in DOMAIN extracted : \E i \in 1..n, must \in BOOLEAN :
        IsRequirement(i) /\ IsStrength(i, must) /\ extracted[k] = [line |-> i, must |-> must]
  BY <1>2 DEF ReadAsWritten
<1>4. \A k \in DOMAIN extracted' : \E i \in DOMAIN advert', must \in BOOLEAN :
        IsRequirement(i)' /\ IsStrength(i, must)' /\ extracted'[k] = [line |-> i, must |-> must]
  <2> SUFFICES ASSUME NEW k \in DOMAIN extracted
               PROVE  \E i \in 1..(n + 1), must \in BOOLEAN :
                        /\ IsRequirement(i)' /\ IsStrength(i, must)'
                        /\ extracted[k] = [line |-> i, must |-> must]
    BY <1>2
  <2>1. PICK i \in 1..n, must \in BOOLEAN :
          IsRequirement(i) /\ IsStrength(i, must) /\ extracted[k] = [line |-> i, must |-> must]
    BY <1>3
  <2>2. i \in 1..(n + 1)
    BY <2>1
  <2> QED BY <1>1, <2>1, <2>2
<1>5. ASSUME NEW i \in DOMAIN advert', IsRequirement(i)'
      PROVE  \/ \E k \in DOMAIN extracted : extracted[k].line = i
             \/ Len(extracted) = MaxRequirements /\ \A k \in DOMAIN extracted : extracted[k].line < i
  <2>1. CASE i \in 1..n
    <3>1. IsRequirement(i)
      BY <1>1, <1>5, <2>1
    <3> QED BY <1>2, <2>1, <3>1 DEF ReadAsWritten
  <2>2. CASE i = n + 1
    <3>1. Len(extracted) = MaxRequirements
      BY <1>5, <2>2
    <3>2. \A k \in DOMAIN extracted : extracted[k].line < i
      BY <1>3, <2>2
    <3> QED BY <3>1, <3>2
  <2> QED BY <1>2, <2>1, <2>2
<1>6. /\ \A j, k \in DOMAIN extracted' : j < k => extracted'[j].line < extracted'[k].line
      /\ Len(extracted') <= MaxRequirements
  BY DEF ReadAsWritten
<1>7. \A i \in DOMAIN advert' : IsRequirement(i)' =>
        \/ \E k \in DOMAIN extracted' : extracted'[k].line = i
        \/ Len(extracted') = MaxRequirements /\ \A k \in DOMAIN extracted' : extracted'[k].line < i
  BY <1>5
<1> QED BY <1>4, <1>6, <1>7 DEF ReadAsWritten

LEMMA RequirementTaken ==
  ASSUME advert \in Seq(Lines), extracted \in Seq(Extract), ReadAsWritten,
         NEW line \in Lines, advert' = Append(advert, line),
         NEW n \in Nat, Len(advert) = n, Len(extracted) < MaxRequirements,
         IsRequirement(n + 1)',
         NEW must \in BOOLEAN, IsStrength(n + 1, must)',
         extracted' = Append(extracted, [line |-> n + 1, must |-> must])
  PROVE  extracted' \in Seq(Extract) /\ ReadAsWritten'
<1>1. /\ Len(advert') = n + 1
      /\ \A i \in 1..n :
           /\ IsRequirement(i)' = IsRequirement(i)
           /\ \A strength \in BOOLEAN : IsStrength(i, strength)' = IsStrength(i, strength)
  BY EarlierLines
<1>2. DOMAIN advert = 1..n /\ DOMAIN advert' = 1..(n + 1)
  BY <1>1
<1>3. PICK m \in Nat : m = Len(extracted) /\ m < MaxRequirements
  OBVIOUS
<1>4. /\ DOMAIN extracted = 1..m /\ DOMAIN extracted' = 1..(m + 1) /\ Len(extracted') = m + 1
      /\ \A k \in 1..m : extracted'[k] = extracted[k]
      /\ extracted'[m + 1] = [line |-> n + 1, must |-> must]
      /\ \A k \in 1..(m + 1) : k \in 1..m \/ k = m + 1
  BY <1>3
<1>5. \A k \in 1..m : \E i \in 1..n, strength \in BOOLEAN :
        /\ IsRequirement(i) /\ IsStrength(i, strength)
        /\ extracted[k] = [line |-> i, must |-> strength]
  BY <1>2, <1>4 DEF ReadAsWritten
<1>6. extracted' \in Seq(Extract)
  BY DEF Extract
<1>7. ASSUME NEW k \in DOMAIN extracted'
      PROVE  \E i \in DOMAIN advert', strength \in BOOLEAN :
               /\ IsRequirement(i)' /\ IsStrength(i, strength)'
               /\ extracted'[k] = [line |-> i, must |-> strength]
  <2>1. CASE k \in 1..m
    <3>1. PICK i \in 1..n, strength \in BOOLEAN :
            /\ IsRequirement(i) /\ IsStrength(i, strength)
            /\ extracted[k] = [line |-> i, must |-> strength]
      BY <1>5, <2>1
    <3>2. i \in DOMAIN advert'
      BY <1>2, <3>1
    <3>3. /\ IsRequirement(i)' /\ IsStrength(i, strength)'
          /\ extracted'[k] = [line |-> i, must |-> strength]
      BY <1>1, <1>4, <2>1, <3>1
    <3> QED BY <3>2, <3>3
  <2>2. CASE k = m + 1
    <3>1. n + 1 \in DOMAIN advert'
      BY <1>2
    <3> QED BY <1>4, <2>2, <3>1
  <2> QED BY <1>4, <2>1, <2>2
<1>8. ASSUME NEW j \in DOMAIN extracted', NEW k \in DOMAIN extracted', j < k
      PROVE  extracted'[j].line < extracted'[k].line
  <2>1. j \in 1..m
    BY <1>3, <1>4, <1>8
  <2>2. CASE k \in 1..m
    BY <1>4, <1>8, <2>1, <2>2 DEF ReadAsWritten
  <2>3. CASE k = m + 1
    BY <1>4, <1>5, <2>1, <2>3
  <2> QED BY <1>4, <2>2, <2>3
<1>9. ASSUME NEW i \in DOMAIN advert', IsRequirement(i)'
      PROVE  \E k \in DOMAIN extracted' : extracted'[k].line = i
  <2>1. CASE i \in 1..n
    <3>1. IsRequirement(i)
      BY <1>1, <1>9, <2>1
    <3>2. PICK k \in DOMAIN extracted : extracted[k].line = i
      <4>1. Len(extracted) # MaxRequirements /\ i \in DOMAIN advert
        BY <1>2, <1>3, <2>1
      <4> QED BY <3>1, <4>1 DEF ReadAsWritten
    <3>3. k \in DOMAIN extracted' /\ extracted'[k] = extracted[k]
      BY <1>3, <1>4, <3>2
    <3> QED BY <3>2, <3>3
  <2>2. CASE i = n + 1
    <3>1. m + 1 \in DOMAIN extracted'
      BY <1>3, <1>4
    <3>2. extracted'[m + 1].line = i
      BY <1>4, <2>2
    <3> QED BY <3>1, <3>2
  <2> QED BY <1>2, <2>1, <2>2
<1>10. Len(extracted') <= MaxRequirements
  BY <1>3, <1>4, ExtractionAssumption DEF ExtractionAssumption
<1> QED BY <1>6, <1>7, <1>8, <1>9, <1>10 DEF ReadAsWritten

LEMMA ReaderStarts == ExtractionInit => ReaderOk
<1> SUFFICES ASSUME ExtractionInit PROVE ReaderOk
  OBVIOUS
<1>1. advert = <<>> /\ extracted = <<>> /\ section = "none" /\ bulleted = FALSE
  BY DEF ExtractionInit
<1>2. advert \in Seq(Lines) /\ Len(advert) = 0 /\ extracted \in Seq(Extract) /\ Len(extracted) = 0
  BY <1>1
<1>3. HeadingOf(1) = {}
  BY DEF HeadingOf
<1>4. SectionAt(1) = "none" /\ ListedBefore(1) = FALSE
  BY <1>3 DEF SectionAt, ListedBefore
<1>5. ReadAsWritten
  BY <1>2, ExtractionAssumption DEF ReadAsWritten, ExtractionAssumption
<1>6. Len(advert) + 1 = 1
  BY <1>2
<1>7. section = ReadSoFar(SectionAt(Len(advert) + 1)) /\ bulleted = ListedBefore(Len(advert) + 1)
  BY <1>1, <1>4, <1>6 DEF ReadSoFar
<1> QED BY <1>2, <1>5, <1>7 DEF ReaderOk

LEMMA ReaderStays ==
  ASSUME ReaderOk, NEW line \in Lines, ReadLine(line)
  PROVE  ReaderOk'
<1>1. PICK n \in Nat : n = Len(advert)
  BY DEF ReaderOk
<1>2. /\ advert \in Seq(Lines) /\ extracted \in Seq(Extract) /\ ReadAsWritten
      /\ advert' = Append(advert, line)
  BY DEF ReaderOk, ReadLine
<1>3. advert' \in Seq(Lines) /\ Len(advert') = n + 1 /\ advert'[n + 1] = line
  BY <1>1, <1>2
<1>4. Len(extracted) \in Nat /\ Len(extracted) <= MaxRequirements
  BY <1>2 DEF ReadAsWritten
<1>5. /\ SectionAt(n + 1)' = SectionAt(n + 1)
      /\ ListedBefore(n + 1)' = ListedBefore(n + 1)
  BY <1>1, <1>2, EarlierLines
<1>6. IsRequirement(n + 1)' <=>
        /\ line.shape \in {"bullet", "prose"} /\ line.fits
        /\ line.shape = "prose" => SectionAt(n + 1) \in {"must", "nice"} /\ ~ListedBefore(n + 1)
  BY <1>3, <1>5 DEF IsRequirement
<1>7. CASE Len(extracted) = MaxRequirements
  <2>1. extracted' = extracted
    BY <1>7 DEF ReadLine
  <2>2. ReadAsWritten'
    BY <1>1, <1>2, <1>7, <2>1, NothingTaken
  <2> QED BY <1>2, <1>3, <1>7, <2>1, <2>2 DEF ReaderOk
<1>8. CASE Len(extracted) < MaxRequirements
  <2>1. section = ReadSoFar(SectionAt(n + 1)) /\ bulleted = ListedBefore(n + 1)
    BY <1>1, <1>8 DEF ReaderOk
  <2>2. /\ SectionAt(n + 2)' = IF line.shape = "heading" THEN line.label ELSE SectionAt(n + 1)
        /\ ListedBefore(n + 2)' =
             (line.shape # "heading" /\ (ListedBefore(n + 1) \/ line.shape = "bullet"))
    BY <1>1, <1>2, NextLine
  <2>3. SectionAt(n + 1) \in {"none", "must", "nice", "responsibilities"} /\ ListedBefore(n + 1) \in BOOLEAN
    BY <1>1, <1>2, SectionTyped DEF ListedBefore
  <2>4. SUFFICES
          /\ extracted' \in Seq(Extract) /\ ReadAsWritten'
          /\ section' = ReadSoFar(SectionAt(n + 2)') /\ bulleted' = ListedBefore(n + 2)'
    BY <1>3 DEF ReaderOk
  <2>5. CASE line = Blank
    <3>1. line.shape = "blank"
      BY <2>5 DEF Blank
    <3>2. extracted' = extracted /\ section' = section /\ bulleted' = bulleted
      BY <2>5 DEF ReadLine
    <3>3. ReadAsWritten'
      BY <1>1, <1>2, <1>6, <3>1, <3>2, NothingTaken
    <3> QED BY <1>2, <2>1, <2>2, <2>3, <3>1, <3>2, <3>3
  <2>6. CASE line.shape = "heading"
    <3>1. line # Blank /\ line.label \in {"must", "nice", "responsibilities"}
      BY <2>6, LineShapes
    <3>2. ReadHeading(line)
      BY <1>8, <2>6, <3>1 DEF ReadLine
    <3>3. extracted' = extracted /\ section' = ReadSoFar(line.label) /\ bulleted' = FALSE
      BY <3>1, <3>2 DEF ReadHeading, ReadSoFar
    <3>4. ReadAsWritten'
      BY <1>1, <1>2, <1>6, <2>6, <3>3, NothingTaken
    <3> QED BY <1>2, <2>2, <2>6, <3>3, <3>4
  <2>7. CASE line # Blank /\ line.shape # "heading"
    <3>1. line.shape \in {"bullet", "prose"} /\ line.fits \in BOOLEAN /\ line.wording \in Wordings
      BY <2>7, LineShapes
    <3>2. ReadContent(line)
      BY <1>8, <2>7 DEF ReadLine
    <3>3. section' = section /\ bulleted' = (bulleted \/ line.shape = "bullet")
      BY <3>2 DEF ReadContent
    <3>4. Skipped(line) <=>
            line.shape = "prose" /\ ~(SectionAt(n + 1) \in {"must", "nice"} /\ ~ListedBefore(n + 1))
      BY <2>1, <2>3 DEF Skipped, ReadSoFar
    <3>5. IsRequirement(n + 1)' <=> ~Skipped(line) /\ line.fits
      BY <1>6, <3>1, <3>4
    <3>6. extracted' \in Seq(Extract) /\ ReadAsWritten'
      <4>1. CASE IsRequirement(n + 1)'
        <5>1. PICK must \in BOOLEAN : must = MustHave(line, section)
          BY DEF MustHave
        <5>2. IsStrength(n + 1, must)'
          BY <1>3, <1>5, <2>1, <2>3, <3>1, <5>1
          DEF MustHave, IsStrength, StrengthOf, Disputed, ReadSoFar, Wordings
        <5>3. extracted' = Append(extracted, [line |-> n + 1, must |-> must])
          BY <1>1, <3>2, <3>5, <4>1, <5>1 DEF ReadContent
        <5> QED BY <1>1, <1>2, <1>8, <4>1, <5>2, <5>3, RequirementTaken
      <4>2. CASE ~IsRequirement(n + 1)'
        <5>1. extracted' = extracted
          BY <3>2, <3>5, <4>2 DEF ReadContent
        <5> QED BY <1>1, <1>2, <4>2, <5>1, NothingTaken
      <4> QED BY <4>1, <4>2
    <3> QED BY <2>1, <2>2, <2>3, <2>7, <3>3, <3>6
  <2> QED BY <2>5, <2>6, <2>7
<1> QED BY <1>4, <1>7, <1>8, ExtractionAssumption DEF ExtractionAssumption

-----------------------------------------------------------------------------
(* Folding a sequence, one element after another *)

LEMMA LastOf ==
  ASSUME NEW n \in Nat, NEW k \in 1..n
  PROVE  Max(1..k) = k /\ (1..k) \ {Max(1..k)} = 1..(k-1) /\ 1..k # {}
<1>1. k \in 1..k /\ 1..k \in SUBSET (1..k) /\ k \in Nat
  OBVIOUS
<1>2. Max(1..k) \in 1..k /\ k <= Max(1..k)
  BY <1>1, MaxIsGreatest
<1>3. Max(1..k) = k
  BY <1>2
<1>4. (1..k) \ {k} = 1..(k-1)
  OBVIOUS
<1> QED BY <1>1, <1>3, <1>4

\* The table of a fold over 1..n that starts from base and takes F[i] at i.
IsFoldTable(t, n, V, base, F) ==
  /\ t \in [SUBSET (1..n) -> V]
  /\ \A s \in SUBSET (1..n) :
       t[s] = IF s = {} THEN base ELSE F[Max(s)][t[s \ {Max(s)}]]

LEMMA FoldTable ==
  ASSUME NEW n \in Nat, NEW V, NEW base \in V, NEW F \in [1..n -> [V -> V]]
  PROVE  \E t : IsFoldTable(t, n, V, base, F)
<1> DEFINE Entry(t, s) == IF s = {} THEN base ELSE F[Max(s)][t[s \ {Max(s)}]]
           Tabled(m, t) == t \in [SUBSET (1..m) -> V] /\ \A s \in SUBSET (1..m) : t[s] = Entry(t, s)
           K == {m \in 0..n : \E t : Tabled(m, t)}
<1>1. 0 \in K
  <2>1. Tabled(0, [s \in SUBSET (1..0) |-> base])
    <3>1. \A s \in SUBSET (1..0) : s = {}
      OBVIOUS
    <3> QED BY <3>1
  <2> HIDE DEF Tabled
  <2> QED BY <2>1
<1>2. ASSUME NEW m \in 0..(n-1), m \in K PROVE m + 1 \in K
  <2>1. PICK t : Tabled(m, t)
    BY <1>2
  <2> DEFINE h == [s \in SUBSET (1..(m + 1)) |->
                     IF m + 1 \in s THEN F[m + 1][t[s \ {m + 1}]] ELSE t[s]]
  <2>2. m \in Nat /\ m + 1 \in 1..n /\ m + 1 \in Nat
    OBVIOUS
  <2>3. \A s \in SUBSET (1..(m + 1)) : s \ {m + 1} \in SUBSET (1..m) /\ (m + 1 \notin s => s \in SUBSET (1..m))
    OBVIOUS
  <2>4. \A s \in SUBSET (1..m) : s \in SUBSET (1..(m + 1)) /\ m + 1 \notin s /\ h[s] = t[s]
    <3>1. \A s \in SUBSET (1..m) : s \in SUBSET (1..(m + 1)) /\ m + 1 \notin s
      BY <2>2
    <3> QED BY <3>1
  <2>5. h \in [SUBSET (1..(m + 1)) -> V]
    BY <2>1, <2>2, <2>3
  <2>6. ASSUME NEW s \in SUBSET (1..(m + 1))
        PROVE  h[s] = Entry(h, s)
    <3>1. CASE m + 1 \in s
      <4>1. Max(s) = m + 1
        <5>1. Max(s) \in s /\ m + 1 <= Max(s)
          BY <2>2, <3>1, MaxIsGreatest
        <5>2. Max(s) \in 1..(m + 1)
          BY <5>1
        <5> QED BY <5>1, <5>2
      <4>2. h[s \ {m + 1}] = t[s \ {m + 1}]
        BY <2>3, <2>4
      <4>3. h[s] = F[m + 1][t[s \ {m + 1}]]
        BY <3>1
      <4> HIDE DEF h
      <4> QED BY <3>1, <4>1, <4>2, <4>3
    <3>2. CASE m + 1 \notin s
      <4>1. s \in SUBSET (1..m) /\ h[s] = t[s] /\ t[s] = Entry(t, s)
        BY <2>1, <2>3, <2>4, <3>2
      <4>2. h[s \ {Max(s)}] = t[s \ {Max(s)}]
        BY <2>4, <4>1
      <4> HIDE DEF h
      <4> QED BY <4>1, <4>2
    <3> QED BY <3>1, <3>2
  <2>7. Tabled(m + 1, h)
    <3> HIDE DEF h, Entry
    <3> QED BY <2>5, <2>6
  <2> HIDE DEF Tabled, h
  <2> QED BY <2>2, <2>7
<1>3. n \in K
  <2> HIDE DEF K
  <2>1. \A k \in 0..(n-1) : k \in K => k + 1 \in K
    BY <1>2
  <2>2. \A k \in 0..n : k \in K
    BY <1>1, <2>1, CountedUp
  <2> QED BY <2>2
<1> QED BY <1>3 DEF IsFoldTable

\* A group of skills that meet one need.
Groups == Seq(SkillNames \cup ModelNames) \ {<<>>}
Need == [group : Groups, must : BOOLEAN]

\* ExpandSkillRequirements takes the named needs one after another.
LEMMA AddedStepwise ==
  ASSUME NEW n \in Nat, NEW named \in Seq(Need), n = Len(named)
  PROVE  \E T : /\ T[0] = <<>>
                /\ \A k \in 1..n : T[k] = AddNeed(T[k-1], named[k])
                /\ FoldLeft(AddNeed, <<>>, named) = T[n]
<1> DEFINE Entry(t, s) == IF s = {} THEN <<>> ELSE AddNeed(t[s \ {Max(s)}], named[Max(s)])
           Table == CHOOSE t : t = [s \in SUBSET (1..n) |-> Entry(t, s)]
           F == [i \in 1..n |-> [v \in Seq(Need) |-> AddNeed(v, named[i])]]
<1>1. DOMAIN named = 1..n /\ \A i \in 1..n : named[i] \in Need
  OBVIOUS
<1>2. FoldLeft(AddNeed, <<>>, named) = Table[1..n]
  BY <1>1 DEF FoldLeft, MapThenFoldSet
<1>3. Table = [s \in SUBSET (1..n) |-> Entry(Table, s)]
  <2>1. F \in [1..n -> [Seq(Need) -> Seq(Need)]]
    <3>1. \A v \in Seq(Need), i \in 1..n : AddNeed(v, named[i]) \in Seq(Need)
      BY <1>1 DEF AddNeed
    <3> QED BY <3>1
  <2>2. <<>> \in Seq(Need)
    OBVIOUS
  <2>3. PICK t : IsFoldTable(t, n, Seq(Need), <<>>, F)
    <3> HIDE DEF F
    <3> QED BY <2>1, <2>2, FoldTable
  <2>4. \A s \in SUBSET (1..n) : t[s] = Entry(t, s)
    <3> SUFFICES ASSUME NEW s \in SUBSET (1..n), s # {} PROVE t[s] = Entry(t, s)
      BY <2>3 DEF IsFoldTable
    <3>1. Max(s) \in 1..n
      BY MaxIsGreatest
    <3>2. s \ {Max(s)} \in SUBSET (1..n) /\ t[s \ {Max(s)}] \in Seq(Need)
      BY <2>3 DEF IsFoldTable
    <3>3. F[Max(s)][t[s \ {Max(s)}]] = AddNeed(t[s \ {Max(s)}], named[Max(s)])
      BY <3>1, <3>2
    <3> HIDE DEF F
    <3> QED BY <2>3, <3>3 DEF IsFoldTable
  <2>5. t = [s \in SUBSET (1..n) |-> Entry(t, s)]
    <3> HIDE DEF Entry
    <3> QED BY <2>3, <2>4 DEF IsFoldTable
  <2> HIDE DEF Entry
  <2> QED BY <2>5
<1> DEFINE T == [k \in 0..n |-> Table[1..k]]
<1>4. \A s \in SUBSET (1..n) : Table[s] = Entry(Table, s)
  <2> HIDE DEF Table, Entry
  <2> QED BY <1>3
<1>5. T[0] = <<>>
  <2>1. 1..0 = {} /\ 1..0 \in SUBSET (1..n) /\ 0 \in 0..n
    OBVIOUS
  <2> HIDE DEF Table
  <2> QED BY <1>4, <2>1
<1>6. ASSUME NEW k \in 1..n PROVE T[k] = AddNeed(T[k-1], named[k])
  <2>1. 1..k \in SUBSET (1..n) /\ k \in 0..n /\ k - 1 \in 0..n
    OBVIOUS
  <2>2. Table[1..k] = AddNeed(Table[1..(k-1)], named[k])
    <3> HIDE DEF Table
    <3> QED BY <1>4, <2>1, LastOf
  <2> HIDE DEF Table
  <2> QED BY <2>1, <2>2
<1>7. FoldLeft(AddNeed, <<>>, named) = T[n]
  <2> HIDE DEF Table
  <2> QED BY <1>2
<1> HIDE DEF T
<1> QED BY <1>5, <1>6, <1>7

\* No need is lost but to an earlier one of its key, and no key is kept twice.
LEMMA AddedOnce ==
  ASSUME NEW named \in Seq(Need), NEW needs, needs = FoldLeft(AddNeed, <<>>, named)
  PROVE  /\ needs \in Seq(Need)
         /\ \A i \in DOMAIN needs : \E j \in DOMAIN named : needs[i] = named[j]
         /\ \A j \in DOMAIN named : \E i \in DOMAIN needs : KeyOf(needs[i]) = KeyOf(named[j])
         /\ \A i, j \in DOMAIN needs : KeyOf(needs[i]) = KeyOf(needs[j]) => i = j
<1>1. PICK n \in Nat : n = Len(named)
  OBVIOUS
<1>2. PICK T : /\ T[0] = <<>>
               /\ \A k \in 1..n : T[k] = AddNeed(T[k-1], named[k])
               /\ needs = T[n]
  BY <1>1, AddedStepwise
<1>3. DOMAIN named = 1..n /\ \A k \in 1..n : named[k] \in Need
  BY <1>1
<1> DEFINE Good(kept, k) ==
             /\ kept \in Seq(Need)
             /\ \A i \in DOMAIN kept : \E j \in 1..k : kept[i] = named[j]
             /\ \A j \in 1..k : \E i \in DOMAIN kept : KeyOf(kept[i]) = KeyOf(named[j])
             /\ \A i, j \in DOMAIN kept : KeyOf(kept[i]) = KeyOf(kept[j]) => i = j
           K == {k \in 0..n : Good(T[k], k)}
<1>4. 0 \in K
  <2>1. <<>> \in Seq(Need) /\ DOMAIN <<>> = {} /\ 1..0 = {}
    OBVIOUS
  <2>2. Good(<<>>, 0)
    BY <2>1
  <2> HIDE DEF Good
  <2> QED BY <1>2, <2>2
<1>5. ASSUME NEW k \in 0..(n-1), k \in K PROVE k + 1 \in K
  <2>1. /\ k + 1 \in 1..n /\ k + 1 \in 0..n /\ (k + 1) - 1 = k /\ 1..k \subseteq 1..(k + 1)
        /\ \A j \in 1..(k + 1) : j \in 1..k \/ j = k + 1
    OBVIOUS
  <2>2. T[k + 1] = AddNeed(T[k], named[k + 1])
    BY <1>2, <2>1
  <2>3. Good(T[k], k)
    BY <1>5
  <2>4. CASE \E i \in DOMAIN T[k] : KeyOf(T[k][i]) = KeyOf(named[k + 1])
    <3>1. T[k + 1] = T[k]
      BY <2>2, <2>4 DEF AddNeed
    <3>2. Good(T[k], k + 1)
      BY <2>1, <2>3, <2>4
    <3> QED BY <2>1, <3>1, <3>2
  <2>5. CASE ~\E i \in DOMAIN T[k] : KeyOf(T[k][i]) = KeyOf(named[k + 1])
    <3>1. T[k + 1] = Append(T[k], named[k + 1])
      BY <2>2, <2>5 DEF AddNeed
    <3>2. PICK m \in Nat : m = Len(T[k])
      BY <2>3
    <3>3. /\ T[k + 1] \in Seq(Need)
          /\ DOMAIN T[k] = 1..m /\ DOMAIN T[k + 1] = 1..(m + 1)
          /\ T[k + 1][m + 1] = named[k + 1]
          /\ \A i \in 1..m : T[k + 1][i] = T[k][i]
          /\ m + 1 \in 1..(m + 1) /\ 1..m \subseteq 1..(m + 1)
          /\ \A i \in 1..(m + 1) : i \in 1..m \/ i = m + 1
      BY <1>3, <2>1, <2>3, <3>1, <3>2
    <3>4. \A i \in 1..(m + 1) : \E j \in 1..(k + 1) : T[k + 1][i] = named[j]
      <4>1. ASSUME NEW i \in 1..m PROVE \E j \in 1..(k + 1) : T[k + 1][i] = named[j]
        <5>1. PICK j \in 1..k : T[k][i] = named[j]
          BY <2>3, <3>3
        <5> QED BY <2>1, <3>3, <5>1
      <4>2. k + 1 \in 1..(k + 1)
        OBVIOUS
      <4> QED BY <3>3, <4>1, <4>2
    <3>5. \A j \in 1..(k + 1) : \E i \in 1..(m + 1) : KeyOf(T[k + 1][i]) = KeyOf(named[j])
      <4>1. ASSUME NEW j \in 1..k PROVE \E i \in 1..(m + 1) : KeyOf(T[k + 1][i]) = KeyOf(named[j])
        <5>1. PICK i \in 1..m : KeyOf(T[k][i]) = KeyOf(named[j])
          BY <2>3, <3>3
        <5>2. i \in 1..(m + 1) /\ T[k + 1][i] = T[k][i]
          BY <3>3, <5>1
        <5> QED BY <5>1, <5>2
      <4> QED BY <2>1, <3>3, <4>1
    <3>6. \A i, j \in 1..(m + 1) : KeyOf(T[k + 1][i]) = KeyOf(T[k + 1][j]) => i = j
      BY <2>3, <2>5, <3>3
    <3>7. Good(T[k + 1], k + 1)
      BY <3>3, <3>4, <3>5, <3>6
    <3> QED BY <2>1, <3>7
  <2> QED BY <2>4, <2>5
<1>6. Good(T[n], n)
  <2>1. \A k \in 0..n : k \in K
    <3>1. \A k \in 0..(n-1) : k \in K => k + 1 \in K
      BY <1>5
    <3> HIDE DEF K
    <3> QED BY <1>4, <3>1, CountedUp
  <2> QED BY <2>1
<1>7. Good(needs, n)
  <2> HIDE DEF Good
  <2> QED BY <1>2, <1>6
<1> QED BY <1>3, <1>7

-----------------------------------------------------------------------------
(* A sequence of sequences, flattened *)

LEMMA ElementsOf ==
  ASSUME NEW s, NEW n, DOMAIN s = 1..n
  PROVE  ToSet(s) = {s[i] : i \in 1..n}
BY DEF ToSet

LEMMA JoinedSet ==
  ASSUME NEW S, NEW s \in Seq(S), NEW t \in Seq(S)
  PROVE  s \o t \in Seq(S) /\ ToSet(s \o t) = ToSet(s) \cup ToSet(t)
<1>1. PICK m \in Nat, n \in Nat : m = Len(s) /\ n = Len(t)
  OBVIOUS
<1>2. /\ DOMAIN s = 1..m /\ DOMAIN t = 1..n /\ DOMAIN (s \o t) = 1..(m + n) /\ s \o t \in Seq(S)
      /\ \A i \in 1..(m + n) : (s \o t)[i] = IF i <= m THEN s[i] ELSE t[i - m]
  BY <1>1
<1>3. ASSUME NEW x \in ToSet(s \o t) PROVE x \in ToSet(s) \cup ToSet(t)
  <2>1. PICK i \in 1..(m + n) : x = (s \o t)[i]
    BY <1>2, <1>3 DEF ToSet
  <2>2. CASE i <= m
    <3>1. i \in 1..m /\ x = s[i]
      BY <1>2, <2>1, <2>2
    <3> QED BY <1>2, <3>1 DEF ToSet
  <2>3. CASE i > m
    <3>1. i - m \in 1..n /\ ~(i <= m)
      BY <2>3
    <3>2. x = t[i - m]
      BY <1>2, <2>1, <3>1
    <3> QED BY <1>2, <3>1, <3>2 DEF ToSet
  <2> QED BY <2>2, <2>3
<1>4. ASSUME NEW x \in ToSet(s) PROVE x \in ToSet(s \o t)
  <2>1. PICK i \in 1..m : x = s[i]
    BY <1>2 DEF ToSet
  <2>2. i \in 1..(m + n) /\ (s \o t)[i] = x
    BY <1>2, <2>1
  <2> QED BY <1>2, <2>2 DEF ToSet
<1>5. ASSUME NEW x \in ToSet(t) PROVE x \in ToSet(s \o t)
  <2>1. PICK i \in 1..n : x = t[i]
    BY <1>2 DEF ToSet
  <2>2. i + m \in 1..(m + n) /\ (s \o t)[i + m] = x
    BY <1>2, <2>1
  <2> QED BY <1>2, <2>2 DEF ToSet
<1> QED BY <1>2, <1>3, <1>4, <1>5

JoinsUp(joined, ss, n) ==
  \A i \in 1..n : joined[i] = IF i = 1 THEN ss[i] ELSE joined[i-1] \o ss[i]

HoldsAll(joined, ss, n, S) ==
  \A m \in 1..n : joined[m] \in Seq(S) /\ ToSet(joined[m]) = UNION {ToSet(ss[i]) : i \in 1..m}

LEMMA JoinedInOrder ==
  ASSUME NEW S, NEW n \in Nat, NEW ss \in [1..n -> Seq(S)], NEW joined, JoinsUp(joined, ss, n)
  PROVE  HoldsAll(joined, ss, n, S)
<1> DEFINE All(m) == UNION {ToSet(ss[i]) : i \in 1..m}
           Right(m) == joined[m] \in Seq(S) /\ ToSet(joined[m]) = All(m)
           K == {m \in 0..n : m = 0 \/ Right(m)}
<1>1. 0 \in K
  <2> HIDE DEF Right
  <2> QED OBVIOUS
<1>2. ASSUME NEW m \in 0..(n-1), m \in K PROVE m + 1 \in K
  <2>1. m + 1 \in 1..n /\ m + 1 \in 0..n /\ (m + 1) - 1 = m /\ (m + 1 = 1 <=> m = 0)
    OBVIOUS
  <2>2. joined[m + 1] = IF m = 0 THEN ss[m + 1] ELSE joined[m] \o ss[m + 1]
    BY <2>1 DEF JoinsUp
  <2>3. ss[m + 1] \in Seq(S)
    BY <2>1
  <2>4. All(m + 1) = All(m) \cup ToSet(ss[m + 1])
    <3>1. \A i \in 1..(m + 1) : i \in 1..m \/ i = m + 1
      OBVIOUS
    <3>2. 1..m \subseteq 1..(m + 1) /\ m + 1 \in 1..(m + 1)
      OBVIOUS
    <3> QED BY <3>1, <3>2
  <2>5. All(0) = {}
    OBVIOUS
  <2> HIDE DEF All
  <2>6. CASE m = 0
    BY <2>1, <2>2, <2>3, <2>4, <2>5, <2>6
  <2>7. CASE m # 0
    <3>1. joined[m] \in Seq(S) /\ ToSet(joined[m]) = All(m)
      BY <1>2, <2>7
    <3>2. joined[m] \o ss[m + 1] \in Seq(S)
          /\ ToSet(joined[m] \o ss[m + 1]) = ToSet(joined[m]) \cup ToSet(ss[m + 1])
      BY <2>3, <3>1, JoinedSet
    <3> QED BY <2>1, <2>2, <2>4, <2>7, <3>1, <3>2
  <2> QED BY <2>6, <2>7
<1>3. \A m \in 0..n : m \in K
  <2>1. \A m \in 0..(n-1) : m \in K => m + 1 \in K
    BY <1>2
  <2> HIDE DEF K
  <2> QED BY <1>1, <2>1, CountedUp
<1>4. ASSUME NEW m \in 1..n PROVE Right(m)
  <2>1. m \in 0..n /\ m # 0
    OBVIOUS
  <2> HIDE DEF Right
  <2> QED BY <1>3, <2>1
<1> HIDE DEF K
<1> QED BY <1>4, Zenon DEF HoldsAll

LEMMA Flattened ==
  ASSUME NEW S, NEW ss \in Seq(Seq(S))
  PROVE  FlattenSeq(ss) \in Seq(S) /\ ToSet(FlattenSeq(ss)) = UNION {ToSet(ss[i]) : i \in DOMAIN ss}
<1>1. PICK n \in Nat : n = Len(ss)
  OBVIOUS
<1>2. DOMAIN ss = 1..n /\ \A i \in 1..n : ss[i] \in Seq(S)
  BY <1>1
<1>3. CASE n = 0
  <2>1. FlattenSeq(ss) = <<>>
    <3>1. FlattenSeq(ss) = ss
      BY <1>1, <1>3 DEF FlattenSeq
    <3>2. ss = <<>>
      BY <1>1, <1>3, EmptySeq
    <3> QED BY <3>1, <3>2
  <2>2. ToSet(<<>>) = {} /\ DOMAIN ss = {}
    BY <1>2, <1>3 DEF ToSet
  <2> QED BY <2>1, <2>2
<1>4. CASE n # 0
  <2> DEFINE Entry(f, i) == IF i = 1 THEN ss[i] ELSE f[i-1] \o ss[i]
             Joined(m, f) == /\ f = [i \in 1..m |-> Entry(f, i)]
                             /\ f \in [1..m -> Seq(S)]
             K == {m \in 0..n : \E f : Joined(m, f)}
             Table == CHOOSE f : f = [i \in 1..n |-> Entry(f, i)]
  <2>1. 0 \in K
    <3>1. Joined(0, <<>>)
      OBVIOUS
    <3> HIDE DEF Joined
    <3> QED BY <3>1
  <2>2. ASSUME NEW m \in 0..(n-1), m \in K PROVE m + 1 \in K
    <3>1. PICK f : Joined(m, f)
      BY <2>2
    <3> DEFINE h == [i \in 1..(m + 1) |-> IF i = m + 1 THEN Entry(f, i) ELSE f[i]]
    <3>2. /\ m + 1 \in 1..n /\ m + 1 \in 0..n
          /\ \A i \in 1..(m + 1) : i \in 1..n /\ (i \in 1..m \/ i = m + 1) /\ (i # 1 => i - 1 \in 1..m)
          /\ \A i \in 1..m : i \in 1..(m + 1) /\ i # m + 1
      OBVIOUS
    <3>3. \A i \in 1..m : h[i] = f[i] /\ f[i] = Entry(f, i)
      BY <3>1, <3>2
    <3>4. ASSUME NEW i \in 1..(m + 1)
          PROVE  h[i] = Entry(f, i) /\ Entry(f, i) = Entry(h, i) /\ h[i] \in Seq(S)
      <4>1. h[i] = Entry(f, i)
        BY <3>2, <3>3
      <4>2. i # 1 => h[i-1] = f[i-1] /\ f[i-1] \in Seq(S)
        BY <3>1, <3>2, <3>3
      <4> HIDE DEF h
      <4>3. Entry(f, i) = Entry(h, i)
        BY <4>2
      <4>4. Entry(f, i) \in Seq(S)
        BY <1>2, <3>2, <4>2
      <4> QED BY <4>1, <4>3, <4>4
    <3>5. h = [i \in 1..(m + 1) |-> h[i]]
      OBVIOUS
    <3>6. Joined(m + 1, h)
      <4> HIDE DEF h, Entry
      <4> QED BY <3>4, <3>5
    <3> HIDE DEF Joined, h
    <3> QED BY <3>2, <3>6
  <2>3. \A m \in 0..n : m \in K
    <3>1. \A m \in 0..(n-1) : m \in K => m + 1 \in K
      BY <2>2
    <3> HIDE DEF K
    <3> QED BY <2>1, <3>1, CountedUp
  <2>4. n \in 0..n
    OBVIOUS
  <2>5. PICK f : Joined(n, f)
    BY <2>3, <2>4
  <2>6. Table = [i \in 1..n |-> Entry(Table, i)]
    <3> HIDE DEF Entry
    <3> QED BY <2>5
  <2>7. FlattenSeq(ss) = Table[n]
    BY <1>1, <1>4 DEF FlattenSeq
  <2>8. \A i \in 1..n : Table[i] = Entry(Table, i)
    <3> HIDE DEF Table, Entry
    <3> QED BY <2>6
  <2>9. ss \in [1..n -> Seq(S)]
    BY <1>1, LenProperties
  <2>10. JoinsUp(Table, ss, n)
    <3> HIDE DEF Table
    <3> QED BY <2>8 DEF JoinsUp
  <2> HIDE DEF Table, K, Joined, Entry
  <2>11. n \in 1..n
    BY <1>4
  <2>12. Table[n] \in Seq(S) /\ ToSet(Table[n]) = UNION {ToSet(ss[i]) : i \in 1..n}
    <3>1. HoldsAll(Table, ss, n, S)
      BY <2>9, <2>10, JoinedInOrder
    <3> QED BY <2>11, <3>1, Zenon DEF HoldsAll
  <2> QED BY <1>2, <2>7, <2>12
<1> QED BY <1>3, <1>4

-----------------------------------------------------------------------------
(* What requirements name *)

LEMMA FoundSkills ==
  ASSUME NEW words \in Seq(Words)
  PROVE  /\ FindSkills(words) \in Seq(SkillNames)
         /\ ToSet(FindSkills(words)) = SkillNames \cap ToSet(words)
<1> DEFINE At(k) == IF SkillOrder[k] \in ToSet(words) THEN <<SkillOrder[k]>> ELSE <<>>
           found == [k \in DOMAIN SkillOrder |-> At(k)]
<1>1. PICK n \in Nat : n = Len(SkillOrder)
  BY ExtractionAssumption DEF ExtractionAssumption
<1>2. DOMAIN SkillOrder = 1..n /\ \A k \in 1..n : SkillOrder[k] \in SkillNames
  BY <1>1, ExtractionAssumption DEF ExtractionAssumption
<1>3. found \in Seq(Seq(SkillNames)) /\ DOMAIN found = 1..n
  <2>1. \A k \in 1..n : At(k) \in Seq(SkillNames)
    BY <1>2
  <2> HIDE DEF At
  <2> QED BY <1>1, <1>2, <2>1
<1>4. \A k \in 1..n : ToSet(found[k]) = {SkillOrder[k]} \cap ToSet(words)
  <2> SUFFICES ASSUME NEW k \in 1..n PROVE ToSet(At(k)) = {SkillOrder[k]} \cap ToSet(words)
    BY <1>2
  <2>1. CASE SkillOrder[k] \in ToSet(words)
    <3>1. At(k) = <<SkillOrder[k]>>
      BY <2>1
    <3>2. ToSet(<<SkillOrder[k]>>) = {SkillOrder[k]}
      BY DEF ToSet
    <3> HIDE DEF At
    <3> QED BY <2>1, <3>1, <3>2
  <2>2. CASE SkillOrder[k] \notin ToSet(words)
    <3>1. At(k) = <<>>
      BY <2>2
    <3>2. ToSet(<<>>) = {}
      BY DEF ToSet
    <3> HIDE DEF At
    <3> QED BY <2>2, <3>1, <3>2
  <2> QED BY <2>1, <2>2
<1>5. FindSkills(words) = FlattenSeq(found)
  BY DEF FindSkills
<1>6. SkillNames = {SkillOrder[k] : k \in 1..n}
  BY <1>2 DEF SkillNames, ToSet
<1> HIDE DEF found
<1>7. FlattenSeq(found) \in Seq(SkillNames)
      /\ ToSet(FlattenSeq(found)) = UNION {ToSet(found[k]) : k \in 1..n}
  BY <1>3, Flattened
<1> QED BY <1>4, <1>5, <1>6, <1>7

LEMMA Segments ==
  ASSUME NEW words \in Seq(Words)
  PROVE  /\ \A k \in Starts(words) : Segment(words, k) \in Seq(Words)
         /\ \A k \in Starts(words) : ToSet(Segment(words, k)) \subseteq ToSet(words)
         /\ \A i \in DOMAIN words : words[i] # "and" =>
              \E k \in Starts(words) : k \in 1..Len(words) + 1 /\ words[i] \in ToSet(Segment(words, k))
<1>1. PICK n \in Nat : n = Len(words)
  OBVIOUS
<1>2. DOMAIN words = 1..n
  BY <1>1
<1>3. \A k \in Starts(words) : k \in 1..(n + 1)
  BY <1>1, <1>2 DEF Starts
<1> DEFINE Ends(k) == {i \in k..n : words[i] = "and"} \cup {n + 1}
<1>4. ASSUME NEW k \in 1..(n + 1)
      PROVE  /\ Min(Ends(k)) \in Ends(k) /\ \A e \in Ends(k) : Min(Ends(k)) <= e
             /\ Min(Ends(k)) \in k..(n + 1)
  <2>1. Ends(k) \in SUBSET Nat /\ Ends(k) # {} /\ \A e \in Ends(k) : e \in k..(n + 1)
    OBVIOUS
  <2> HIDE DEF Ends
  <2> QED BY <2>1, MinIsLeast
<1>5. ASSUME NEW k \in 1..(n + 1)
      PROVE  Segment(words, k) = SubSeq(words, k, Min(Ends(k)) - 1)
  BY <1>1 DEF Segment
<1> HIDE DEF Ends
<1>6. ASSUME NEW k \in 1..(n + 1), NEW e \in k..(n + 1)
      PROVE  /\ SubSeq(words, k, e - 1) \in Seq(Words)
             /\ ToSet(SubSeq(words, k, e - 1)) = {words[i] : i \in k..(e - 1)}
  <2> DEFINE s == SubSeq(words, k, e - 1)
  <2>1. s \in Seq(Words) /\ DOMAIN s = 1..(e - k) /\ \A j \in 1..(e - k) : s[j] = words[k + j - 1]
    BY <1>1
  <2>2. \A j \in 1..(e - k) : k + j - 1 \in k..(e - 1)
    OBVIOUS
  <2>3. \A i \in k..(e - 1) : i - k + 1 \in 1..(e - k) /\ k + (i - k + 1) - 1 = i
    OBVIOUS
  <2> HIDE DEF s
  <2>4. \A i \in k..(e - 1) : \E j \in DOMAIN s : s[j] = words[i]
    BY <2>1, <2>3
  <2>5. \A j \in DOMAIN s : \E i \in k..(e - 1) : s[j] = words[i]
    BY <2>1, <2>2
  <2>6. ToSet(s) = {words[i] : i \in k..(e - 1)}
    BY <2>4, <2>5 DEF ToSet
  <2> QED BY <2>1, <2>6 DEF s
<1>7. ASSUME NEW k \in 1..(n + 1)
      PROVE  /\ Segment(words, k) \in Seq(Words)
             /\ ToSet(Segment(words, k)) = {words[i] : i \in k..(Min(Ends(k)) - 1)}
  BY <1>4, <1>5, <1>6
<1>8. ASSUME NEW k \in 1..(n + 1)
      PROVE  ToSet(Segment(words, k)) \subseteq ToSet(words)
  <2>1. \A i \in k..(Min(Ends(k)) - 1) : i \in 1..n
    BY <1>4
  <2>2. ToSet(words) = {words[i] : i \in 1..n}
    BY <1>2 DEF ToSet
  <2> QED BY <1>7, <2>1, <2>2
<1>9. ASSUME NEW i \in 1..n, words[i] # "and"
      PROVE  \E k \in Starts(words) : words[i] \in ToSet(Segment(words, k))
  <2> DEFINE Before == {i - k : k \in {k \in 1..i : k \in Starts(words)}}
  <2>1. 1 \in Starts(words) /\ 1 \in 1..i
    BY DEF Starts
  <2>2. Before \in SUBSET Nat /\ Before # {}
    <3>1. \A k \in 1..i : i - k \in Nat
      OBVIOUS
    <3> QED BY <2>1, <3>1
  <2>3. PICK d \in Before : \A b \in Before : d <= b
    <3> HIDE DEF Before
    <3> QED BY <2>2, MinIsLeast
  <2>4. PICK k \in 1..i : k \in Starts(words) /\ d = i - k
    OBVIOUS
  <2>5. ASSUME NEW j \in k..i, words[j] = "and" PROVE FALSE
    <3>1. j \in 1..n /\ j # i
      BY <1>9, <2>4, <2>5
    <3>2. j + 1 \in Starts(words) /\ j + 1 \in 1..i /\ j + 1 > k
      BY <1>2, <2>4, <2>5, <3>1 DEF Starts
    <3>3. i - (j + 1) \in Before
      BY <3>2
    <3>4. d <= i - (j + 1)
      BY <2>3, <3>3
    <3> HIDE DEF Before
    <3> QED BY <2>4, <3>2, <3>4
  <2>6. k \in 1..(n + 1)
    BY <2>4
  <2>7. Min(Ends(k)) > i
    <3>1. \A e \in Ends(k) : e > i
      BY <2>4, <2>5 DEF Ends
    <3> QED BY <1>4, <2>6, <3>1
  <2>8. i \in k..(Min(Ends(k)) - 1)
    BY <1>4, <2>4, <2>6, <2>7
  <2>9. words[i] \in ToSet(Segment(words, k))
    BY <1>7, <2>6, <2>8
  <2> QED BY <2>4, <2>9
<1> QED BY <1>1, <1>2, <1>3, <1>7, <1>8, <1>9

LEMMA PieceGroups ==
  ASSUME NEW words \in Seq(Words)
  PROVE  /\ GroupsOf(words) \in Seq(Groups)
         /\ UNION {ToSet(g) : g \in ToSet(GroupsOf(words))} = SkillNames \cap ToSet(words)
<1> DEFINE found == FindSkills(words)
           single == [i \in DOMAIN found |-> <<found[i]>>]
<1>1. found \in Seq(SkillNames) /\ ToSet(found) = SkillNames \cap ToSet(words)
  BY FoundSkills
<1> HIDE DEF found
<1>2. PICK n \in Nat : n = Len(found)
  BY <1>1
<1>3. DOMAIN found = 1..n /\ \A i \in 1..n : found[i] \in SkillNames
  BY <1>1, <1>2
<1>4. CASE Len(found) > 1 /\ Contains(words, "or")
  <2>1. GroupsOf(words) = <<found>>
    BY <1>4 DEF GroupsOf, found
  <2>2. found \in Groups
    BY <1>1, <1>4 DEF Groups
  <2>3. ToSet(<<found>>) = {found} /\ <<found>> \in Seq(Groups)
    BY <2>2 DEF ToSet
  <2> QED BY <1>1, <2>1, <2>3
<1>5. CASE ~(Len(found) > 1 /\ Contains(words, "or"))
  <2>1. GroupsOf(words) = single
    BY <1>5 DEF GroupsOf, found
  <2>2. single \in Seq(Groups) /\ DOMAIN single = 1..n
    <3>1. \A i \in 1..n : <<found[i]>> \in Groups
      BY <1>3 DEF Groups
    <3> QED BY <1>2, <1>3, <3>1
  <2>3. \A i \in 1..n : ToSet(single[i]) = {found[i]}
    <3>1. \A i \in 1..n : single[i] = <<found[i]>>
      BY <1>3
    <3>2. \A x : ToSet(<<x>>) = {x}
      BY DEF ToSet
    <3> HIDE DEF single
    <3> QED BY <3>1, <3>2
  <2>4. ToSet(found) = {found[i] : i \in 1..n}
    BY <1>3 DEF ToSet
  <2> HIDE DEF single
  <2>5. ToSet(single) = {single[i] : i \in 1..n}
    BY <2>2 DEF ToSet
  <2>6. UNION {ToSet(g) : g \in ToSet(single)} = UNION {ToSet(single[i]) : i \in 1..n}
    BY <2>5
  <2>7. UNION {ToSet(single[i]) : i \in 1..n} = ToSet(found)
    <3>1. \A x : x \in UNION {ToSet(single[i]) : i \in 1..n} <=> \E i \in 1..n : x \in ToSet(single[i])
      OBVIOUS
    <3>2. \A x : x \in ToSet(found) <=> \E i \in 1..n : x = found[i]
      BY <2>4
    <3>3. \A i \in 1..n : \A x : x \in ToSet(single[i]) <=> x = found[i]
      BY <2>3
    <3>4. \A x : x \in UNION {ToSet(single[i]) : i \in 1..n} <=> x \in ToSet(found)
      BY <3>1, <3>2, <3>3, Zenon
    <3> QED BY <3>4, Zenon
  <2> QED BY <1>1, <2>1, <2>2, <2>6, <2>7
<1> QED BY <1>4, <1>5

LEMMA WordGroups ==
  ASSUME NEW words \in Seq(Words)
  PROVE  /\ SkillGroups(words) \in Seq(Groups)
         /\ UNION {ToSet(g) : g \in ToSet(SkillGroups(words))} = SkillNames \cap ToSet(words)
<1> DEFINE At(k) == IF k \in Starts(words) THEN GroupsOf(Segment(words, k)) ELSE <<>>
           pieces == [k \in 1..Len(words) + 1 |-> At(k)]
<1>1. PICK n \in Nat : n = Len(words)
  OBVIOUS
<1>2. \A k \in 1..(n + 1) : At(k) \in Seq(Groups)
  BY Segments, PieceGroups
<1>3. pieces \in Seq(Seq(Groups)) /\ DOMAIN pieces = 1..(n + 1) /\ \A k \in 1..(n + 1) : pieces[k] = At(k)
  <2> HIDE DEF At
  <2> QED BY <1>1, <1>2
<1>4. SkillGroups(words) = FlattenSeq(pieces)
  BY DEF SkillGroups
<1> HIDE DEF pieces
<1>5. /\ FlattenSeq(pieces) \in Seq(Groups)
      /\ ToSet(FlattenSeq(pieces)) = UNION {ToSet(pieces[k]) : k \in 1..(n + 1)}
  BY <1>3, Flattened
<1>6. ASSUME NEW g \in ToSet(SkillGroups(words)), NEW s \in ToSet(g)
      PROVE  s \in SkillNames \cap ToSet(words)
  <2>1. PICK k \in 1..(n + 1) : g \in ToSet(At(k))
    <3>1. PICK k \in 1..(n + 1) : g \in ToSet(pieces[k])
      BY <1>4, <1>5
    <3> HIDE DEF At
    <3> QED BY <1>3, <3>1
  <2>2. k \in Starts(words)
    BY <2>1 DEF ToSet
  <2>3. g \in ToSet(GroupsOf(Segment(words, k)))
    BY <2>1, <2>2
  <2>4. Segment(words, k) \in Seq(Words) /\ ToSet(Segment(words, k)) \subseteq ToSet(words)
    BY <2>2, Segments
  <2>5. s \in SkillNames \cap ToSet(Segment(words, k))
    BY <1>6, <2>3, <2>4, PieceGroups
  <2> QED BY <2>4, <2>5
<1>7. ASSUME NEW s \in SkillNames \cap ToSet(words)
      PROVE  \E g \in ToSet(SkillGroups(words)) : s \in ToSet(g)
  <2>1. PICK i \in DOMAIN words : words[i] = s
    BY DEF ToSet
  <2>2. s # "and"
    BY ExtractionAssumption DEF ExtractionAssumption
  <2>3. PICK k \in Starts(words) : k \in 1..(n + 1) /\ s \in ToSet(Segment(words, k))
    BY <1>1, <2>1, <2>2, Segments
  <2>4. Segment(words, k) \in Seq(Words)
    BY Segments
  <2>5. PICK g \in ToSet(GroupsOf(Segment(words, k))) : s \in ToSet(g)
    BY <2>3, <2>4, PieceGroups
  <2>6. g \in ToSet(pieces[k])
    BY <1>3, <2>3, <2>5
  <2> QED BY <1>4, <1>5, <2>3, <2>5, <2>6
<1> QED BY <1>4, <1>5, <1>6, <1>7

Requirement ==
  [words : Seq(Words), must : BOOLEAN, kind : RequirementKinds, skill : ModelNames \cup {NoSkill}]

\* The skills that one requirement asks for.
SkillsIn(r) == IF r.skill # NoSkill THEN {r.skill} ELSE SkillNames \cap ToSet(r.words)

LEMMA GroupsOfOne ==
  ASSUME NEW r \in Requirement
  PROVE  /\ GroupsNamed(r) \in Seq(Groups)
         /\ ~Expands(r) => ToSet(GroupsNamed(r)) = {}
         /\ Expands(r) => UNION {ToSet(g) : g \in ToSet(GroupsNamed(r))} = SkillsIn(r)
<1>1. ToSet(<<>>) = {} /\ \A x : ToSet(<<x>>) = {x}
  BY DEF ToSet
<1>2. CASE ~Expands(r)
  BY <1>1, <1>2 DEF GroupsNamed
<1>3. CASE Expands(r) /\ r.skill # NoSkill
  <2>1. r.skill \in ModelNames /\ GroupsNamed(r) = <<<<r.skill>>>> /\ SkillsIn(r) = {r.skill}
    BY <1>3 DEF Requirement, GroupsNamed, SkillsIn
  <2>2. <<r.skill>> \in Groups
    BY <2>1 DEF Groups
  <2>3. ToSet(GroupsNamed(r)) = {<<r.skill>>} /\ ToSet(<<r.skill>>) = {r.skill}
    BY <1>1, <2>1
  <2>4. UNION {ToSet(g) : g \in {<<r.skill>>}} = ToSet(<<r.skill>>)
    OBVIOUS
  <2> QED BY <1>3, <2>1, <2>2, <2>3, <2>4
<1>4. CASE Expands(r) /\ r.skill = NoSkill
  <2>1. GroupsNamed(r) = SkillGroups(r.words) /\ SkillsIn(r) = SkillNames \cap ToSet(r.words)
    BY <1>4 DEF GroupsNamed, SkillsIn
  <2>2. r.words \in Seq(Words)
    BY DEF Requirement
  <2> QED BY <1>4, <2>1, <2>2, WordGroups
<1> QED BY <1>2, <1>3, <1>4

\* The needs of one requirement.
NeedsIn(r) ==
  [k \in DOMAIN GroupsNamed(r) |-> [group |-> GroupsNamed(r)[k], must |-> r.must]]

LEMMA NeedsOfOne ==
  ASSUME NEW r \in Requirement
  PROVE  /\ NeedsIn(r) \in Seq(Need)
         /\ ToSet(NeedsIn(r)) = {[group |-> g, must |-> r.must] : g \in ToSet(GroupsNamed(r))}
<1> DEFINE groups == GroupsNamed(r)
<1>1. groups \in Seq(Groups) /\ r.must \in BOOLEAN
  BY GroupsOfOne DEF Requirement
<1>2. NeedsIn(r) = [k \in DOMAIN groups |-> [group |-> groups[k], must |-> r.must]]
  BY DEF NeedsIn
<1> HIDE DEF groups
<1>3. PICK m \in Nat : m = Len(groups)
  BY <1>1
<1>4. DOMAIN groups = 1..m /\ \A k \in 1..m : groups[k] \in Groups
  BY <1>1, <1>3
<1>5. NeedsIn(r) \in Seq(Need)
  <2>1. \A k \in 1..m : [group |-> groups[k], must |-> r.must] \in Need
    BY <1>1, <1>4 DEF Need
  <2>2. NeedsIn(r) \in [1..m -> Need]
    BY <1>2, <1>4, <2>1
  <2> QED BY <1>3, <2>2
<1>6. ToSet(NeedsIn(r)) = {[group |-> groups[k], must |-> r.must] : k \in 1..m}
  BY <1>2, <1>4 DEF ToSet
<1>7. ToSet(groups) = {groups[k] : k \in 1..m}
  BY <1>4, ElementsOf
<1> QED BY <1>5, <1>6, <1>7 DEF groups

LEMMA NeedsInOrder ==
  ASSUME NEW requirements \in Seq(Requirement)
  PROVE  /\ NamedNeeds(requirements) \in Seq(Need)
         /\ ToSet(NamedNeeds(requirements)) = NeedsOf(requirements)
<1> DEFINE lists == [i \in DOMAIN requirements |-> NeedsIn(requirements[i])]
<1>1. PICK n \in Nat : n = Len(requirements)
  OBVIOUS
<1>2. DOMAIN requirements = 1..n /\ \A i \in 1..n : requirements[i] \in Requirement
  BY <1>1
<1>3. \A r \in Requirement :
        /\ NeedsIn(r) \in Seq(Need)
        /\ ToSet(NeedsIn(r)) = {[group |-> g, must |-> r.must] : g \in ToSet(GroupsNamed(r))}
  BY NeedsOfOne
<1>4. lists \in Seq(Seq(Need)) /\ DOMAIN lists = 1..n /\ \A i \in 1..n : lists[i] = NeedsIn(requirements[i])
  <2>1. lists \in [1..n -> Seq(Need)] /\ \A i \in 1..n : lists[i] = NeedsIn(requirements[i])
    BY <1>2, <1>3
  <2> HIDE DEF lists
  <2>2. DOMAIN lists = 1..n
    BY <2>1
  <2> QED BY <1>1, <2>1, <2>2
<1>5. NamedNeeds(requirements) = FlattenSeq(lists)
  BY DEF NamedNeeds, NeedsIn
<1> HIDE DEF lists
<1>6. /\ FlattenSeq(lists) \in Seq(Need)
      /\ ToSet(FlattenSeq(lists)) = UNION {ToSet(lists[i]) : i \in 1..n}
  BY <1>4, Flattened
<1>7. ToSet(requirements) = {requirements[i] : i \in 1..n}
  BY <1>2 DEF ToSet
<1>8. UNION {ToSet(lists[i]) : i \in 1..n} = NeedsOf(requirements)
  <2> DEFINE Named(r) == {[group |-> g, must |-> r.must] : g \in ToSet(GroupsNamed(r))}
             All == UNION {Named(r) : r \in ToSet(requirements)}
             Listed == UNION {ToSet(lists[i]) : i \in 1..n}
  <2>1. NeedsOf(requirements) = All
    BY DEF NeedsOf
  <2>2. \A i \in 1..n : ToSet(lists[i]) = Named(requirements[i])
    BY <1>2, <1>3, <1>4
  <2> HIDE DEF Named
  <2>3. \A x : x \in Listed <=> \E i \in 1..n : x \in Named(requirements[i])
    BY <2>2
  <2>4. \A x : x \in All <=> \E i \in 1..n : x \in Named(requirements[i])
    BY <1>7
  <2> HIDE DEF All, Listed
  <2>5. Listed = All
    BY <2>3, <2>4
  <2> QED BY <2>1, <2>5 DEF Listed
<1> QED BY <1>5, <1>6, <1>8

\* expand_skill_requirements: for any number of requirements of any length, the needs are
\* those that the requirements of skill and experience name, by the model's own skill or by
\* their words, the first of each leading skill and strength.
THEOREM NamedAsRead ==
  ASSUME sentence \in Seq(Requirement)
  PROVE  NeedsAsNamed
<1> DEFINE named == NamedNeeds(sentence)
           needs == ExpandSkillRequirements(sentence)
<1>1. named \in Seq(Need) /\ ToSet(named) = NeedsOf(sentence)
  BY NeedsInOrder
<1>2. needs = FoldLeft(AddNeed, <<>>, named)
  BY DEF ExpandSkillRequirements
<1> HIDE DEF named, needs
<1>3. /\ needs \in Seq(Need)
      /\ \A i \in DOMAIN needs : \E j \in DOMAIN named : needs[i] = named[j]
      /\ \A j \in DOMAIN named : \E i \in DOMAIN needs : KeyOf(needs[i]) = KeyOf(named[j])
      /\ \A i, j \in DOMAIN needs : KeyOf(needs[i]) = KeyOf(needs[j]) => i = j
  BY <1>1, <1>2, AddedOnce
<1>4. ToSet(needs) \subseteq ToSet(named)
  BY <1>3 DEF ToSet
<1>5. {KeyOf(n) : n \in ToSet(named)} = {KeyOf(n) : n \in ToSet(needs)}
  <2>1. \A n \in ToSet(named) : \E m \in ToSet(needs) : KeyOf(m) = KeyOf(n)
    BY <1>3 DEF ToSet
  <2> QED BY <1>4, <2>1
<1>6. UNION {ToSet(n.group) : n \in NeedsOf(sentence)} = AskedFor(sentence)
  <2> DEFINE Asking == {r \in ToSet(sentence) : Expands(r)}
  <2>1. \A r \in ToSet(sentence) : r \in Requirement
    BY DEF ToSet
  <2>2. AskedFor(sentence) = UNION {SkillsIn(r) : r \in Asking}
    BY DEF AskedFor, SkillsIn
  <2>3. ASSUME NEW n \in NeedsOf(sentence), NEW s \in ToSet(n.group)
        PROVE  \E r \in Asking : s \in SkillsIn(r)
    <3>1. PICK r \in ToSet(sentence) : n \in {[group |-> g, must |-> r.must] : g \in ToSet(GroupsNamed(r))}
      BY DEF NeedsOf
    <3>2. PICK g \in ToSet(GroupsNamed(r)) : n = [group |-> g, must |-> r.must]
      BY <3>1
    <3>3. s \in ToSet(g)
      BY <2>3, <3>2
    <3>4. Expands(r)
      BY <2>1, <3>2, GroupsOfOne
    <3>5. s \in SkillsIn(r)
      BY <2>1, <3>2, <3>3, <3>4, GroupsOfOne
    <3> QED BY <3>4, <3>5
  <2>4. ASSUME NEW r \in Asking, NEW s \in SkillsIn(r)
        PROVE  \E n \in NeedsOf(sentence) : s \in ToSet(n.group)
    <3>1. PICK g \in ToSet(GroupsNamed(r)) : s \in ToSet(g)
      BY <2>1, <2>4, GroupsOfOne
    <3>2. [group |-> g, must |-> r.must] \in
            {[group |-> h, must |-> r.must] : h \in ToSet(GroupsNamed(r))}
      OBVIOUS
    <3>3. [group |-> g, must |-> r.must] \in NeedsOf(sentence)
      BY <3>2 DEF NeedsOf
    <3> QED BY <3>1, <3>3
  <2> HIDE DEF Asking
  <2> QED BY <2>2, <2>3, <2>4
<1> QED BY <1>1, <1>3, <1>4, <1>5, <1>6 DEF NeedsAsNamed, needs

-----------------------------------------------------------------------------
(* Both *)

ExtractionSpec == ExtractionInit /\ [][ExtractionNext]_extractionVars

ExtractionOk == ReaderOk /\ sentence \in Seq(Requirement)

LEMMA ReaderKept ==
  ASSUME ReaderOk, UNCHANGED <<advert, section, bulleted, extracted>>
  PROVE  ReaderOk'
<1>1. \A i : HeadingOf(i)' = HeadingOf(i)
  BY DEF HeadingOf
<1>2. \A i : SectionAt(i)' = SectionAt(i) /\ ListedBefore(i)' = ListedBefore(i)
  BY <1>1 DEF SectionAt, ListedBefore
<1>3. \A i, must : IsRequirement(i)' = IsRequirement(i) /\ IsStrength(i, must)' = IsStrength(i, must)
  BY <1>2 DEF IsRequirement, IsStrength, StrengthOf, Disputed
<1>4. ReadAsWritten'
  BY <1>3 DEF ReaderOk, ReadAsWritten
<1> QED BY <1>2, <1>4 DEF ReaderOk

LEMMA RequirementsTyped == WordyOnes \subseteq Requirement /\ NamedOnes \subseteq Requirement
<1>1. ASSUME NEW max \in Nat, NEW kinds \in SUBSET RequirementKinds,
             NEW skills \in SUBSET (ModelNames \cup {NoSkill})
      PROVE  Sentences(max, kinds, skills) \subseteq Requirement
  <2> SUFFICES ASSUME NEW n \in 0..max,
                      NEW r \in [words : [1..n -> Words], must : BOOLEAN, kind : kinds, skill : skills]
               PROVE  r \in Requirement
    BY DEF Sentences
  <2>1. n \in Nat
    OBVIOUS
  <2>2. [1..n -> Words] \subseteq Seq(Words)
    BY <2>1
  <2> QED BY <2>2 DEF Requirement
<1>2. MaxWords \in Nat /\ {"skill"} \in SUBSET RequirementKinds
  BY ExtractionAssumption DEF ExtractionAssumption, RequirementKinds
<1>3. Sentences(MaxWords, {"skill"}, {NoSkill}) \subseteq Requirement
  BY <1>1, <1>2
<1>4. Sentences(1, RequirementKinds, ModelNames \cup {NoSkill}) \subseteq Requirement
  BY <1>1
<1> QED BY <1>3, <1>4 DEF WordyOnes, NamedOnes

\* extract_requirements_heuristic and expand_skill_requirements: for an advert of any
\* length, any cap and any taxonomy, the requirements read and the needs counted are
\* those that are written, with the strength the section and the wording give them; a
\* bullet worded as mandatory under "nice to have" is the one exception.
THEOREM AdvertsReadAsWritten == ExtractionSpec => []RequirementsAsWritten
<1>1. ExtractionInit => ExtractionOk
  <2> SUFFICES ASSUME ExtractionInit PROVE sentence \in Seq(Requirement)
    BY ReaderStarts DEF ExtractionOk
  <2> QED BY DEF ExtractionInit
<1>2. ExtractionOk /\ [ExtractionNext]_extractionVars => ExtractionOk'
  <2> SUFFICES ASSUME ExtractionOk, [ExtractionNext]_extractionVars PROVE ExtractionOk'
    OBVIOUS
  <2>1. CASE ReadSentences
    <3>1. PICK a \in Requirement, b \in Requirement : sentence' = <<a, b>>
      BY <2>1, RequirementsTyped DEF ReadSentences
    <3>2. sentence' \in Seq(Requirement)
      BY <3>1
    <3> QED BY <2>1, <3>2, ReaderKept DEF ReadSentences, ExtractionOk
  <2>2. ASSUME NEW line \in Lines, ReadLine(line) PROVE ExtractionOk'
    <3>1. sentence' = sentence
      BY <2>2 DEF ReadLine
    <3> QED BY <2>2, <3>1, ReaderStays DEF ExtractionOk
  <2>3. CASE UNCHANGED extractionVars
    BY <2>3, ReaderKept DEF extractionVars, ExtractionOk
  <2> QED BY <2>1, <2>2, <2>3 DEF ExtractionNext
<1>3. ExtractionOk => RequirementsAsWritten
  BY NamedAsRead DEF ExtractionOk, ReaderOk, RequirementsAsWritten
<1> QED BY <1>1, <1>2, <1>3, PTL DEF ExtractionSpec
=============================================================================
