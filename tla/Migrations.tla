----------------------------- MODULE Migrations -----------------------------
(***************************************************************************)
(* The eight revisions of db/migrations/versions, up and down, one         *)
(* statement at a time.  Columns are kept where a revision adds them to a   *)
(* table that exists, indexes where a revision names them; alembic runs     *)
(* everything between the revision a database has and the one asked for in  *)
(* one transaction (env.py), so a statement that fails undoes the whole.    *)
(***************************************************************************)
EXTENDS Schema

Create(t, cascade, restrict) == [do |-> "create", table |-> t, fk |-> Fk(cascade, restrict)]
Drop(t) == [do |-> "drop", table |-> t]
Add(t, part) == [do |-> "add", table |-> t, part |-> part]
Discard(t, part) == [do |-> "discard", table |-> t, part |-> part]
MaybeDiscard(t, part) == [do |-> "discard if exists", table |-> t, part |-> part]
Dedupe == [do |-> "dedupe", table |-> "profile_skills"]

-----------------------------------------------------------------------------
(* bd890a7822e8, the initial schema *)

InitialRoots == <<
  Create("audit_log", {}, {}), Create("companies", {}, {}), Create("job_groups", {}, {}),
  Create("job_sources", {}, {}), Create("model_runs", {}, {}), Create("raw_payloads", {}, {}),
  Create("skills", {}, {})>>

InitialQueueAndUsers == <<
  Create("task_queue", {}, {}), Add("task_queue", "claim"), Add("task_queue", "dedup"),
  Create("users", {}, {}),
  Create("company_aliases", {"companies"}, {}),
  Create("company_review_queue", {}, {"job_sources", "companies"}),
  Create("consents", {"users"}, {}),
  Create("cv_documents", {"users"}, {})>>

InitialPostings == <<
  Create("job_postings", {}, {"job_groups", "job_sources", "companies"}),
  Add("job_postings", "url"), Add("job_postings", "company, title"),
  Add("job_postings", "group"), Add("job_postings", "open by last_verified_at"),
  Add("job_postings", "open by posted_at"),
  Create("skill_aliases", {"skills"}, {}),
  Create("source_runs", {}, {"job_sources"}),
  Create("unmapped_skills", {}, {"skills"})>>

InitialChildren == <<
  Create("cv_versions", {"cv_documents"}, {}),
  Create("job_embeddings", {"job_postings"}, {}),
  Create("job_requirements", {"job_postings"}, {"skills"}),
  Create("user_job_events", {"job_postings", "users"}, {}),
  Create("applications", {"users"}, {"cv_versions", "job_postings"}),
  Create("candidate_profiles", {"users"}, {"cv_versions"}),
  Create("application_events", {"applications"}, {})>>

InitialMatches == <<
  Create("eval_labels", {}, {"job_postings", "candidate_profiles"}),
  Create("matches", {"job_postings", "users"}, {"candidate_profiles"}),
  Add("matches", "user, score"),
  Create("profile_skills", {"candidate_profiles"}, {"skills"}),
  Create("match_evidence", {"matches"}, {"job_requirements"}),
  Add("job_postings", "full text"), Add("job_embeddings", "vector"),
  Add("company_aliases", "trigram"), Add("raw_payloads", "source, external")>>

InitialUp == InitialRoots \o InitialQueueAndUsers \o InitialPostings
               \o InitialChildren \o InitialMatches

InitialDown == <<
  MaybeDiscard("job_postings", "full text"), MaybeDiscard("job_embeddings", "vector"),
  MaybeDiscard("company_aliases", "trigram"), MaybeDiscard("raw_payloads", "source, external"),
  Drop("match_evidence"), Drop("profile_skills"),
  Discard("matches", "user, score"), Drop("matches"),
  Drop("eval_labels"), Drop("application_events"), Drop("candidate_profiles"),
  Drop("applications"), Drop("user_job_events"), Drop("job_requirements"),
  Drop("job_embeddings"), Drop("cv_versions"), Drop("unmapped_skills"),
  Drop("source_runs"), Drop("skill_aliases"),
  Discard("job_postings", "open by posted_at"), Discard("job_postings", "open by last_verified_at"),
  Discard("job_postings", "group"), Discard("job_postings", "company, title"),
  Discard("job_postings", "url"), Drop("job_postings"),
  Drop("cv_documents"), Drop("consents"), Drop("company_review_queue"),
  Drop("company_aliases"), Drop("users"),
  Discard("task_queue", "dedup"), Discard("task_queue", "claim"), Drop("task_queue"),
  Drop("skills"), Drop("raw_payloads"), Drop("model_runs"), Drop("job_sources"),
  Drop("job_groups"), Drop("companies"), Drop("audit_log")>>

-----------------------------------------------------------------------------
(* The later revisions *)

BulletsUp == <<
  Create("profile_bullets", {"candidate_profiles"}, {}),
  Add("profile_bullets", "profile"), Add("profile_bullets", "vector"),
  Create("profile_embeddings", {"candidate_profiles"}, {}),
  Add("job_requirements", "posting"), Add("matches", "explanation"), Add("matches", "gaps")>>
BulletsDown == <<
  Discard("matches", "gaps"), Discard("matches", "explanation"),
  Discard("job_requirements", "posting"), Drop("profile_embeddings"),
  Discard("profile_bullets", "vector"), Discard("profile_bullets", "profile"),
  Drop("profile_bullets")>>

RequirementsUp == <<Add("job_requirements", "model"), Add("job_requirements", "embedding")>>
RequirementsDown == <<Discard("job_requirements", "embedding"), Discard("job_requirements", "model")>>

TokensUp == <<
  Create("refresh_tokens", {"users"}, {}),
  Add("refresh_tokens", "family"), Add("refresh_tokens", "user")>>
TokensDown == <<
  Discard("refresh_tokens", "user"), Discard("refresh_tokens", "family"), Drop("refresh_tokens")>>

\* The default of created_at becomes the clock instead of the transaction's start.
ClockUp == <<Add("user_job_events", "clock"), Add("user_job_events", "user, posting")>>
ClockDown == <<Discard("user_job_events", "clock"), Discard("user_job_events", "user, posting")>>

SendsUp == <<
  Create("digest_sends", {"job_postings", "users"}, {}), Add("digest_sends", "user, sent")>>
SendsDown == <<Discard("digest_sends", "user, sent"), Drop("digest_sends")>>

WeightsUp == <<Create("user_score_weights", {"users"}, {})>>
WeightsDown == <<Drop("user_score_weights")>>

SkillsUp_NoDedupe == <<Add("profile_skills", "one per skill")>>
SkillsUp == <<Dedupe, Add("profile_skills", "one per skill")>>
SkillsDown == <<Discard("profile_skills", "one per skill")>>

Up == <<InitialUp, BulletsUp, RequirementsUp, TokensUp, ClockUp, SendsUp, WeightsUp, SkillsUp>>
Down == <<InitialDown, BulletsDown, RequirementsDown, TokensDown, ClockDown, SendsDown,
          WeightsDown, SkillsDown>>
Newest == Len(Up)

-----------------------------------------------------------------------------

VARIABLES
  revision,  \* how many revisions the database is at
  target,    \* where alembic is taking it
  script,    \* the statements still to run
  tables,    \* the tables there are, with their foreign keys
  parts,     \* <<table, part>>: indexes, and columns added later
  doubles    \* profile_skills holds a skill twice

migrationVars == <<revision, target, script, tables, parts, doubles>>

Has(t) == t \in DOMAIN tables
RefersTo(t, u) == u \in tables[t].cascade \cup tables[t].restrict

\* What PostgreSQL asks of a statement.
Possible(op) ==
  CASE op.do = "create" ->
         ~Has(op.table) /\ op.fk.cascade \cup op.fk.restrict \subseteq DOMAIN tables
    [] op.do = "drop" ->
         Has(op.table) /\ \A t \in DOMAIN tables \ {op.table} : ~RefersTo(t, op.table)
    [] op.do = "add" ->
         /\ Has(op.table) /\ <<op.table, op.part>> \notin parts
         /\ op = Add("profile_skills", "one per skill") => ~doubles
    [] op.do = "discard" -> <<op.table, op.part>> \in parts
    [] op.do = "dedupe" -> Has(op.table)
    [] OTHER -> TRUE

Without(t) == [u \in DOMAIN tables \ {t} |-> tables[u]]

\* A dropped table takes its indexes and its rows along.
Execute(op) ==
  /\ tables' = CASE op.do = "create" -> tables @@ (op.table :> op.fk)
                 [] op.do = "drop" -> Without(op.table)
                 [] OTHER -> tables
  /\ parts' = CASE op.do = "add" -> parts \cup {<<op.table, op.part>>}
                [] op.do \in {"discard", "discard if exists"} -> parts \ {<<op.table, op.part>>}
                [] op.do = "drop" -> {p \in parts : p[1] # op.table}
                [] OTHER -> parts
  /\ doubles' = (doubles /\ op.do # "dedupe" /\ op # Drop("profile_skills"))

Statement ==
  /\ script # <<>> /\ Possible(Head(script))
  /\ Execute(Head(script))
  /\ script' = Tail(script)
  /\ UNCHANGED <<revision, target>>

\* alembic upgrade / downgrade to a revision.
Migrate(n) ==
  /\ script = <<>> /\ revision = target /\ n # revision
  /\ target' = n
  /\ script' = IF n > revision
               THEN FlattenSeq(SubSeq(Up, revision + 1, n))
               ELSE FlattenSeq(Reverse(SubSeq(Down, n + 1, revision)))
  /\ UNCHANGED <<revision, tables, parts, doubles>>

Commit ==
  /\ script = <<>> /\ revision # target
  /\ revision' = target
  /\ UNCHANGED <<target, script, tables, parts, doubles>>

\* A profile built while nothing forbids it names a skill twice.
StoreTwice ==
  /\ script = <<>> /\ revision = target
  /\ Has("profile_skills") /\ <<"profile_skills", "one per skill">> \notin parts
  /\ doubles' = TRUE
  /\ UNCHANGED <<revision, target, script, tables, parts>>

MInit ==
  /\ revision = 0 /\ target = 0 /\ script = <<>>
  /\ tables = <<>> /\ parts = {} /\ doubles = FALSE

MNext == Statement \/ (\E n \in 0..Newest : Migrate(n)) \/ Commit \/ StoreTwice

-----------------------------------------------------------------------------

\* Whatever route a database took, no statement of a revision fails, whatever the
\* profiles stored on the way; the newest revision has exactly the tables, foreign
\* keys, indexes and columns db/models.py maps, and going back leaves nothing.
MigrationsAgree ==
  /\ script # <<>> => Possible(Head(script))
  /\ script = <<>> /\ target = Newest => tables = Mapped /\ parts = MappedIndexes \cup LaterColumns
  /\ script = <<>> /\ target = 0 => tables = <<>> /\ parts = {}
=============================================================================
