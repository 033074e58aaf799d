------------------------------- MODULE Schema -------------------------------
(***************************************************************************)
(* The foreign keys of the database (db/models.py), and what PostgreSQL    *)
(* does with them when a row is deleted.  A table is its name; all that is *)
(* kept of it is which tables its rows refer to, with ON DELETE CASCADE or *)
(* with the default, NO ACTION, which refuses the deletion.                *)
(***************************************************************************)
EXTENDS Naturals, SequencesExt

Fk(cascade, restrict) == [cascade |-> cascade, restrict |-> restrict]
Root == Fk({}, {})
OfUser == Fk({"users"}, {})

\* The audit log names its user without a foreign key: it outlives the account.
IdentityTables == [
  users          |-> Root,
  consents       |-> OfUser,
  refresh_tokens |-> OfUser,
  audit_log      |-> Root]

CandidateTables == [
  cv_documents       |-> OfUser,
  cv_versions        |-> Fk({"cv_documents"}, {}),
  candidate_profiles |-> Fk({"users"}, {"cv_versions"}),
  profile_bullets    |-> Fk({"candidate_profiles"}, {}),
  profile_embeddings |-> Fk({"candidate_profiles"}, {}),
  profile_skills     |-> Fk({"candidate_profiles"}, {"skills"})]

TaxonomyTables == [
  skills          |-> Root,
  skill_aliases   |-> Fk({"skills"}, {}),
  unmapped_skills |-> Fk({}, {"skills"})]

EmployerTables == [
  companies            |-> Root,
  company_aliases      |-> Fk({"companies"}, {}),
  company_review_queue |-> Fk({}, {"job_sources", "companies"})]

IngestionTables == [
  job_sources  |-> Root,
  source_runs  |-> Fk({}, {"job_sources"}),
  raw_payloads |-> Root]

PostingTables == [
  job_groups       |-> Root,
  job_postings     |-> Fk({}, {"job_groups", "job_sources", "companies"}),
  job_requirements |-> Fk({"job_postings"}, {"skills"}),
  job_embeddings   |-> Fk({"job_postings"}, {})]

MatchTables == [
  matches        |-> Fk({"users", "job_postings"}, {"candidate_profiles"}),
  match_evidence |-> Fk({"matches"}, {"job_requirements"})]

EngagementTables_NoCascade == [
  user_job_events    |-> Fk({"users", "job_postings"}, {}),
  digest_sends       |-> Fk({"users", "job_postings"}, {}),
  applications       |-> Fk({}, {"users", "job_postings", "cv_versions"}),
  application_events |-> Fk({"applications"}, {})]

EngagementTables == [
  user_job_events    |-> Fk({"users", "job_postings"}, {}),
  digest_sends       |-> Fk({"users", "job_postings"}, {}),
  applications       |-> Fk({"users"}, {"job_postings", "cv_versions"}),
  application_events |-> Fk({"applications"}, {})]

\* The human labels hold on to the profile and the posting they grade.
EvaluationTables == [
  eval_labels        |-> Fk({}, {"candidate_profiles", "job_postings"}),
  model_runs         |-> Root,
  task_queue         |-> Root,
  user_score_weights |-> OfUser]

Mapped ==
  LET parts == {IdentityTables, CandidateTables, TaxonomyTables, EmployerTables,
                IngestionTables, PostingTables, MatchTables, EngagementTables, EvaluationTables}
  IN [t \in UNION {DOMAIN part : part \in parts} |->
        (CHOOSE part \in parts : t \in DOMAIN part)[t]]

\* The indexes and the named constraint of the __table_args__.
MappedIndexes == {
  <<"refresh_tokens", "user">>, <<"refresh_tokens", "family">>,
  <<"profile_bullets", "profile">>, <<"profile_bullets", "vector">>,
  <<"profile_skills", "one per skill">>,
  <<"company_aliases", "trigram">>, <<"raw_payloads", "source, external">>,
  <<"job_postings", "company, title">>, <<"job_postings", "open by posted_at">>,
  <<"job_postings", "open by last_verified_at">>, <<"job_postings", "url">>,
  <<"job_postings", "group">>, <<"job_postings", "full text">>,
  <<"job_requirements", "posting">>, <<"job_embeddings", "vector">>,
  <<"matches", "user, score">>, <<"user_job_events", "user, posting">>,
  <<"digest_sends", "user, sent">>, <<"task_queue", "claim">>, <<"task_queue", "dedup">>}

\* Columns, and one default, that the initial revision did not have.
LaterColumns == {
  <<"job_requirements", "model">>, <<"job_requirements", "embedding">>,
  <<"matches", "explanation">>, <<"matches", "gaps">>, <<"user_job_events", "clock">>}

-----------------------------------------------------------------------------
(* Deleting one row, where `rows` are the tables that hold rows belonging to
   it.  PostgreSQL queues the triggers of a statement first in, first out: the
   cascades from the rows that went last form the next wave, and a NO ACTION
   check on a row sees what the wave that took it, and those before, took away. *)

Wave(gone) == gone \cup {t \in DOMAIN Mapped : Mapped[t].cascade \cap gone # {}}

\* What is gone after each wave, from a row of the table on.  (Bound: no chain of cascades
\* is longer.)
Waves ==
  [table \in DOMAIN Mapped |->
     LET second == Wave({table})
         third == Wave(second)
         fourth == Wave(third)
     IN <<{table}, second, third, fourth, Wave(fourth)>>]

Refused(rows, gone) == \E t \in rows \ gone : Mapped[t].restrict \cap gone \cap rows # {}

\* Whether the statement goes through, and the tables it leaves with rows.
Deletable(rows, table) ==
  \A i \in DOMAIN Waves[table] : ~Refused(rows \cup {table}, Waves[table][i])

Remaining(rows, table) == rows \ Last(Waves[table])
=============================================================================
