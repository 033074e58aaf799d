------------------------------ MODULE Matching ------------------------------
(***************************************************************************)
(* The matching funnel (services/matching.py): run_for_profile() and what  *)
(* it leaves in matches, match_evidence and job_requirements, which        *)
(* api/v1/matches.py reads back for the shortlist and the withheld list.   *)
(*                                                                         *)
(* A run is one transaction of a worker, READ COMMITTED: it scans the open *)
(* postings, then analyses its finalists one after the other, with calls   *)
(* to a model between the read of the stored requirements and the insert,  *)
(* and commits at the end.  Runs of different profiles overlap; the dedup  *)
(* key match:<profile> keeps one run per profile.  Meanwhile postings are  *)
(* verified, die, close and are rewritten.                                 *)
(*                                                                         *)
(* Rows of matches are keyed by (profile, posting), so each column is a    *)
(* set of such pairs.  Which of the eligible postings become finalists,    *)
(* and the scores, are left open: any choice of at most TopN.              *)
(***************************************************************************)
EXTENDS Naturals, FiniteSets

CONSTANTS
  Profiles,     \* candidate profiles, each of its own user
  Postings,
  TopN,         \* funnel.rerank_top_n
  WithheldCap,  \* withheld rows written per run
  Texts         \* requirement texts an extraction may come up with

ASSUME MatchingAssumption ==
  /\ IsFiniteSet(Profiles)
  /\ IsFiniteSet(Postings)
  /\ TopN \in Nat \ {0}
  /\ WithheldCap \in Nat

Pairs == Profiles \X Postings

VARIABLES
  \* the postings
  posting,   \* "live" (open, verified inside the window), "unverified" or "closed"
  fits,      \* pairs which the other gates let pass
  \* the tables
  rows,      \* matches
  passed,    \* matches.gate_passed
  failing,   \* matches.gate_failures is not NULL
  scored,    \* matches.percentile is not NULL
  evidence,  \* requirement texts that the match_evidence rows of a match cite
  stored,    \* texts of the job_requirements rows of a posting
  \* the run of each profile
  stage, finalists, withheld, todo, seen, extracted,
  lastWithheld, \* history: pairs whose last committed verdict was to withhold
  basis,        \* history: requirement texts that the score of a match was computed from
  everEligible  \* history: pairs that passed every gate in some scan

tables == <<rows, passed, failing, scored, evidence, stored>>
runs == <<stage, finalists, withheld, todo, seen, extracted>>
history == <<lastWithheld, basis, everEligible>>
vars == <<posting, fits, tables, runs, history>>

TypeOK ==
  /\ posting \in [Postings -> {"live", "unverified", "closed"}]
  /\ fits \subseteq Pairs
  /\ rows \subseteq Pairs
  /\ passed \subseteq rows
  /\ failing \subseteq rows
  /\ scored \subseteq rows
  /\ evidence \in [Pairs -> SUBSET Texts]
  /\ stored \in [Postings -> SUBSET Texts]
  /\ stage \in [Profiles -> {"idle", "analysing"}]
  /\ finalists \in [Profiles -> SUBSET Postings]
  /\ withheld \in [Profiles -> SUBSET Postings]
  /\ todo \in [Profiles -> SUBSET Postings]
  /\ seen \in [Profiles -> [Postings -> SUBSET Texts]]
  /\ extracted \in [Profiles -> SUBSET Postings]
  /\ lastWithheld \subseteq Pairs
  /\ basis \in [Pairs -> SUBSET Texts]
  /\ everEligible \subseteq Pairs

Init ==
  /\ posting = [p \in Postings |-> "unverified"]
  /\ fits \in SUBSET Pairs
  /\ rows = {} /\ passed = {} /\ failing = {} /\ scored = {}
  /\ evidence = [x \in Pairs |-> {}]
  /\ stored = [p \in Postings |-> {}]
  /\ stage = [c \in Profiles |-> "idle"]
  /\ finalists = [c \in Profiles |-> {}]
  /\ withheld = [c \in Profiles |-> {}]
  /\ todo = [c \in Profiles |-> {}]
  /\ seen = [c \in Profiles |-> [p \in Postings |-> {}]]
  /\ extracted = [c \in Profiles |-> {}]
  /\ lastWithheld = {} /\ everEligible = {}
  /\ basis = [x \in Pairs |-> {}]

-----------------------------------------------------------------------------
(* Stage 2: the scan and its gates *)

Open == {p \in Postings : posting[p] # "closed"}

\* evaluate_gates: every gate but the URL one is `fits`.
PassesGates(c, p) == <<c, p>> \in fits /\ posting[p] = "live"

Eligible(c) == {p \in Open : PassesGates(c, p)}

\* The finalists stages 3 and 4 may come up with; none only if nothing is eligible,
\* since an empty retrieval falls back to the eligible list.
Shortlists_FromAll(eligible) ==
  {F \in SUBSET Open : Cardinality(F) <= TopN /\ (eligible # {} => F # {})}

Shortlists(eligible) ==
  {F \in SUBSET eligible : Cardinality(F) <= TopN /\ (eligible # {} => F # {})}

\* withheld[:200]
Kept(all) ==
  {W \in SUBSET all : \/ W = all /\ Cardinality(all) <= WithheldCap
                      \/ Cardinality(W) = WithheldCap}

Scan(c) ==
  /\ stage[c] = "idle"
  /\ stage' = [stage EXCEPT ![c] = "analysing"]
  /\ \E F \in Shortlists(Eligible(c)), W \in Kept(Open \ Eligible(c)) :
       /\ finalists' = [finalists EXCEPT ![c] = F]
       /\ todo' = [todo EXCEPT ![c] = F]
       /\ withheld' = [withheld EXCEPT ![c] = W]
  /\ everEligible' = everEligible \cup ({c} \X Eligible(c))
  /\ UNCHANGED <<posting, fits, tables, seen, extracted, lastWithheld, basis>>

-----------------------------------------------------------------------------
(* Stage 5: analysis *)

\* _requirements_for reads the committed requirements, or extracts them, with a
\* model or by heuristic, and inserts them in the run's own transaction.  Two
\* extractions of one advert need not agree, and one may come up with nothing.
Analyse(c, p) ==
  /\ stage[c] = "analysing"
  /\ p \in todo[c]
  /\ todo' = [todo EXCEPT ![c] = @ \ {p}]
  /\ \/ /\ stored[p] # {}
        /\ seen' = [seen EXCEPT ![c][p] = stored[p]]
        /\ UNCHANGED extracted
     \/ /\ stored[p] = {}
        /\ \E T \in SUBSET Texts : seen' = [seen EXCEPT ![c][p] = T]
        /\ extracted' = [extracted EXCEPT ![c] = @ \cup {p}]
  /\ UNCHANGED <<posting, fits, tables, stage, finalists, withheld, history>>

-----------------------------------------------------------------------------
(* Persistence *)

\* _persist: the upsert of a finalist.  gate_passed is written by the INSERT only;
\* the update of an existing row leaves it alone.
PersistScored(new) ==
  /\ passed' = passed \cup (new \ rows)
  /\ scored' = scored \cup new

\* Both are upserts: ON CONFLICT (profile_id, posting_id, model_version) DO UPDATE.
UpsertRows(new, gated) == rows' = rows \cup new \cup gated

\* gate_failures: the INSERT of _persist leaves it NULL and its update leaves it
\* alone; both statements of _persist_withheld write it.
PersistReasons_Cleared(new, gated) == failing' = (failing \ new) \cup gated
PersistReasons(new, gated) == failing' = failing \cup gated

\* _persist_requirements, in the run's own transaction: no look at what another run
\* has committed since.
PersistRequirements_UnlessStored(c) ==
  stored' = [p \in Postings |-> IF p \in extracted[c] /\ stored[p] = {} THEN seen[c][p]
                                ELSE stored[p]]
PersistRequirements(c) ==
  stored' = [p \in Postings |-> IF p \in extracted[c] THEN stored[p] \cup seen[c][p]
                                ELSE stored[p]]

\* _persist_evidence: a row for each requirement that was analysed, under the id of a
\* stored one with its text; without one the evidence is dropped.
PersistEvidence(c) ==
  evidence' = [x \in Pairs |->
    IF x[1] = c /\ x[2] \in finalists[c]
    THEN evidence[x] \cup {r \in seen[c][x[2]] : r \in stored'[x[2]]}
    ELSE evidence[x]]

Reset(c) ==
  /\ stage' = [stage EXCEPT ![c] = "idle"]
  /\ finalists' = [finalists EXCEPT ![c] = {}]
  /\ withheld' = [withheld EXCEPT ![c] = {}]
  /\ todo' = [todo EXCEPT ![c] = {}]
  /\ seen' = [seen EXCEPT ![c] = [p \in Postings |-> {}]]
  /\ extracted' = [extracted EXCEPT ![c] = {}]

CommitRun(c) ==
  LET new == {c} \X finalists[c]
      gated == {c} \X withheld[c]
  IN
  /\ stage[c] = "analysing"
  /\ todo[c] = {}
  /\ UpsertRows(new, gated)
  /\ PersistScored(new)
  /\ PersistReasons(new, gated)
  /\ PersistRequirements(c)
  /\ PersistEvidence(c)
  /\ lastWithheld' = (lastWithheld \ new) \cup gated
  /\ basis' = [x \in Pairs |-> IF x \in new THEN seen[c][x[2]] ELSE basis[x]]
  /\ Reset(c)
  /\ UNCHANGED <<posting, fits, everEligible>>

\* The handler raises, or its process dies: the transaction is rolled back.
AbortRun(c) ==
  /\ stage[c] = "analysing"
  /\ Reset(c)
  /\ UNCHANGED <<posting, fits, tables, history>>

-----------------------------------------------------------------------------
(* What happens to postings meanwhile *)

\* A probe finds the page live or not, the window passes, the posting is closed or
\* reopened.
Turn(p, s) ==
  /\ posting[p] # s
  /\ posting' = [posting EXCEPT ![p] = s]
  /\ UNCHANGED <<fits, tables, runs, history>>

\* A new version of the posting's text changes whom it fits.
Rewrite(p, who) ==
  /\ fits' = {x \in fits : x[2] # p} \cup (who \X {p})
  /\ fits' # fits
  /\ UNCHANGED <<posting, tables, runs, history>>

Next ==
  \/ \E c \in Profiles : Scan(c) \/ CommitRun(c) \/ AbortRun(c)
  \/ \E c \in Profiles, p \in Postings : Analyse(c, p)
  \/ \E p \in Postings, s \in {"live", "unverified", "closed"} : Turn(p, s)
  \/ \E p \in Postings, who \in SUBSET Profiles : Rewrite(p, who)

Spec == Init /\ [][Next]_vars

-----------------------------------------------------------------------------
(* Properties *)

\* "Withholding without explanation is indistinguishable from a broken search"
\* (withheld()): a row the withheld list shows always has its reasons, whatever
\* sequence of runs listed and gated the posting before.
WithheldExplained == rows \ passed \subseteq failing

\* A row of the shortlist passed every gate in some scan for that profile, and has
\* a percentile: list_matches would drop a row without one.
ShownWasEligible == passed \subseteq everEligible \cap scored

\* "The bullet that scored highest for a requirement is the evidence shown to the user"
\* (requirement_alignment): the evidence of a match is about the requirements that its
\* score was last computed from, no more and no fewer, although it is inserted only
\* where a stored requirement has the same text, is never deleted, and overlapping runs
\* may extract different requirements from one advert.
EvidenceIsTheScores == evidence = basis

\* "A failed gate excludes the posting" (PROJECT_PLAN.md:676): what the last run
\* withheld is not in the shortlist.
GatedNotListed == lastWithheld \cap passed = {}

=============================================================================
