----------------------------- MODULE Companies -----------------------------
(***************************************************************************)
(* The company directory (services/companies.py, domain/dedup/entities.py): *)
(* ingestion runs, each a transaction with a directory loaded when it        *)
(* starts, resolve every posting's employer to a row, make a new row, or    *)
(* send the case to a human.                                                *)
(*                                                                         *)
(* A name is the set of its normalised tokens; how alike two names read is  *)
(* the parameter Likeness, in percent.                                      *)
(***************************************************************************)
EXTENDS Integers, Sequences, SequencesExt, FiniteSets

CONSTANTS
  Runs,            \* ingestion runs, each of a source of its own
  References,      \* bound: the employer references of postings, [name, domain]
  Seeded,          \* the rows there are at first, [id, name, domain]
  Aliases,         \* the curated other names of those rows, [id, name, domain]
  Likeness(_, _),
  FuzzyThreshold, ReviewThreshold,
  MaxPostings      \* bound: postings of a run

\* No two rows claim a domain (the column is unique), and an alias is loaded with the
\* domain of the row it names.
ASSUME CompaniesAssumption ==
  /\ IsFiniteSet(Seeded) /\ IsFiniteSet(Aliases)
  /\ \A row \in Seeded \cup Aliases : row = [id |-> row.id, name |-> row.name, domain |-> row.domain]
  /\ \A a, b \in Seeded : a.domain = b.domain /\ a.domain # "none" => a = b
  /\ \A a \in Aliases : \E row \in Seeded : row.id = a.id /\ row.domain = a.domain

VARIABLES
  employers,   \* committed rows
  ingest,      \* by run: [pc, known, cache, made, filed, reviews]
  filed,       \* committed: which row a posting's reference was filed under
  reviewQueue  \* committed: [name, source]

companyVars == <<employers, ingest, filed, reviewQueue>>

NoDomain == "none"
Waiting == [pc |-> "waiting"]

-----------------------------------------------------------------------------
(* resolve_company(), against the companies a directory knows, in its order. *)

FirstKnown(known, hits) ==
  LET first == SelectInSeq(known, LAMBDA k : k \in hits) IN IF first = 0 THEN {} ELSE {known[first].id}

StrictSubset(a, b) == a # b /\ {} \notin {a, b} /\ (a \subseteq b \/ b \subseteq a)

Best(known, name) == {k \in ToSet(known) : \A o \in ToSet(known) : Likeness(name, k.name) >= Likeness(name, o.name)}

\* Domain, then the name itself, then likeness -- never when any known name contains
\* this one or is contained in it.  A name of which normalising leaves nothing is nobody's.
Resolve(known, ref) ==
  LET byDomain == FirstKnown(known, {k \in ToSet(known) : ref.domain # NoDomain /\ k.domain = ref.domain})
      byName == FirstKnown(known, {k \in ToSet(known) : k.name = ref.name})
      subset == \E k \in ToSet(known) : StrictSubset(ref.name, k.name)
      near == {k \in Best(known, ref.name) : Likeness(ref.name, k.name) >= FuzzyThreshold}
      doubt == \E k \in ToSet(known) : Likeness(ref.name, k.name) >= ReviewThreshold
  IN  IF byDomain # {} THEN [row |-> byDomain, review |-> FALSE]
      ELSE IF ref.name = {} THEN [row |-> {}, review |-> TRUE]
      ELSE IF byName # {} THEN [row |-> byName, review |-> FALSE]
      ELSE IF ~subset /\ near # {} THEN [row |-> {(CHOOSE k \in near : TRUE).id}, review |-> FALSE]
      ELSE [row |-> {}, review |-> subset \/ doubt]

-----------------------------------------------------------------------------

\* Rows another transaction has made and not yet committed.
Unsettled(r) == UNION {ingest[o].made : o \in {o \in Runs \ {r} : ingest[o].pc = "running"}}
Claimants(rows, domain) == {row \in rows : domain # NoDomain /\ row.domain = domain}

\* Ids of new rows; the sequence of a run keeps those of two runs apart.
NewId(r) == <<r, Cardinality(ingest[r].made)>>

\* load(): rows and aliases, in no particular order.
StartRun(r) ==
  /\ ingest[r].pc = "waiting"
  /\ \E known \in SetToSeqs(employers \cup Aliases) :
       ingest' = [ingest EXCEPT ![r] = [pc |-> "running", known |-> known, cache |-> {}, made |-> {},
                                        filed |-> {}, reviews |-> {}]]
  /\ UNCHANGED <<employers, filed, reviewQueue>>

\* A row claimed already is a merge that resolution did not make.
NeedsReview_Resolved(doubt, claimed) == doubt
NeedsReview(doubt, claimed) == doubt \/ claimed # {}

\* _create() and _queue_review(): an insert that meets its domain takes that row.
CreateRow(r, ref, review) ==
  LET run == ingest[r]
      claimed == Claimants(employers \cup run.made, ref.domain)
      row == IF claimed = {} THEN [id |-> NewId(r), name |-> ref.name, domain |-> ref.domain]
             ELSE CHOOSE c \in claimed : TRUE
  IN  [run EXCEPT !.made = IF claimed = {} THEN @ \cup {row} ELSE @,
                  !.known = Append(@, [id |-> row.id, name |-> ref.name, domain |-> ref.domain]),
                  !.cache = @ \cup {[ref |-> ref, id |-> row.id]},
                  !.filed = @ \cup {[ref |-> ref, id |-> row.id, source |-> r]},
                  !.reviews = IF NeedsReview(review, claimed) THEN @ \cup {[name |-> ref.name, source |-> r]} ELSE @]

\* resolve_or_create(): from the run's cache, from the directory, or by making a row,
\* which waits for a transaction that is making one with the same domain.
ResolveOrCreate(r, ref) ==
  LET run == ingest[r]
      cached == {c.id : c \in {c \in run.cache : c.ref = ref}}
      found == IF cached # {} THEN [row |-> cached, review |-> FALSE] ELSE Resolve(run.known, ref)
      id == CHOOSE i \in found.row : TRUE
  IN  /\ run.pc = "running" /\ Cardinality(run.filed) < MaxPostings
      /\ found.row = {} => Claimants(Unsettled(r), ref.domain) = {}
      /\ ingest' = [ingest EXCEPT ![r] =
           IF found.row = {} THEN CreateRow(r, ref, found.review)
           ELSE [run EXCEPT !.filed = @ \cup {[ref |-> ref, id |-> id, source |-> r]},
                            !.cache = @ \cup {[ref |-> ref, id |-> id]}]]
      /\ UNCHANGED <<employers, filed, reviewQueue>>

\* The task commits, or rolls back (a failed fetch, a deadlock) and is tried again.
CommitRun(r) ==
  /\ ingest[r].pc = "running"
  /\ employers' = employers \cup ingest[r].made
  /\ filed' = filed \cup ingest[r].filed
  /\ reviewQueue' = reviewQueue \cup ingest[r].reviews
  /\ ingest' = [ingest EXCEPT ![r] = [pc |-> "finished"]]

RollBackRun(r) ==
  /\ ingest[r].pc = "running"
  /\ ingest' = [ingest EXCEPT ![r] = Waiting]
  /\ UNCHANGED <<employers, filed, reviewQueue>>

CompaniesInit ==
  /\ employers = Seeded /\ filed = {} /\ reviewQueue = {}
  /\ ingest = [r \in Runs |-> Waiting]

CompaniesNext ==
  \E r \in Runs :
    \/ StartRun(r) \/ CommitRun(r) \/ RollBackRun(r)
    \/ \E ref \in References : ResolveOrCreate(r, ref)

-----------------------------------------------------------------------------

NamesOf(id) == {e.name : e \in {e \in employers \cup Aliases : e.id = id}}
DomainsOf(id) == {e.domain : e \in {e \in employers : e.id = id}}

\* Names a source has had reviewed.
Reviewed(source) == {q.name : q \in {q \in reviewQueue : q.source = source}}

\* The same name, or alike enough to merge and neither contained in the other.
Alike(a, b) == a = b \/ (Likeness(a, b) >= FuzzyThreshold /\ ~StrictSubset(a, b))

\* However runs overlap: a posting is filed under an employer that exists, and under
\* one of another name only by its domain, by likeness short of containment, or with a
\* review queued for the name, or for one it is alike, that lets a human see the merge
\* (entities.py, companies.py); and no two rows claim a domain.
NoSilentMerge ==
  /\ \A p \in filed :
       /\ \E e \in employers : e.id = p.id
       /\ \/ p.ref.domain # NoDomain /\ p.ref.domain \in DomainsOf(p.id)
          \/ \E name \in NamesOf(p.id) \cup Reviewed(p.source) : Alike(p.ref.name, name)
  /\ \A a, b \in employers : a.domain = b.domain /\ a.domain # NoDomain => a = b
=============================================================================
