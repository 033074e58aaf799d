------------------------------ MODULE Account ------------------------------
(***************************************************************************)
(* The rows kept for a user, from registration to the purge: uploads and   *)
(* profiles (services/profiling.py), learned weights                       *)
(* (services/personalisation.py), closing and hard deletion                *)
(* (services/account.py).  `rows[u]` names the tables that hold rows        *)
(* belonging to u; the foreign keys of Schema say what they hang on.        *)
(*                                                                         *)
(* A request is one transaction and overlaps others: current_user() checks *)
(* the account once, at its start.  An upload is of the one document a user *)
(* has here, so that two uploads are of the same bytes.                     *)
(***************************************************************************)
EXTENDS Schema

CONSTANTS
  Users,
  Requests,     \* what the API serves at once (bound)
  Engaging,     \* the users who engage with their matches (bound)
  Window,       \* CV_TEXT_RETENTION, in days
  MaxVersions   \* uploads of one document (bound)

ASSUME AccountAssumption == Window \in Nat /\ MaxVersions \in Nat

VARIABLES
  status,     \* of the users row: "none", "open", "closed" (deleted_at), "purged"
  age,        \* daily purges since it was closed
  rows,
  versions,   \* cv_versions.version of u's document: a sequence
  text,       \* some raw_text of u is not blank
  weights,    \* of user_score_weights: "none", "active", "declined", "off"
  request,    \* what each request under way is at
  overlap,    \* an upload was under way when u was closed
  matching    \* a match_users task for u's profile is queued

vars == <<status, age, rows, versions, text, weights, request, overlap, matching>>

Under == [user : Users \cup {"nobody"}, stage : {"idle", "upload", "uploading", "build"},
          number : Nat]
Idle == [user |-> "nobody", stage |-> "idle", number |-> 0]
At(r, stage) == request[r].stage = stage
Of(r) == request[r].user
Done(r) == request' = [request EXCEPT ![r] = Idle]

Exists(u) == status[u] \in {"open", "closed"}
Hold(u, tables) == rows' = [rows EXCEPT ![u] = @ \cup tables]

Init ==
  /\ status = [u \in Users |-> "none"]
  /\ age = [u \in Users |-> 0]
  /\ rows = [u \in Users |-> {}]
  /\ versions = [u \in Users |-> <<>>]
  /\ text = [u \in Users |-> FALSE]
  /\ weights = [u \in Users |-> "none"]
  /\ request = [r \in Requests |-> Idle]
  /\ overlap = [u \in Users |-> FALSE]
  /\ matching = [u \in Users |-> FALSE]

Register(u) ==
  /\ status[u] = "none"
  /\ status' = [status EXCEPT ![u] = "open"]
  /\ Hold(u, {"consents", "refresh_tokens"})
  /\ UNCHANGED <<age, versions, text, weights, request, overlap, matching>>

-----------------------------------------------------------------------------
(* Uploading a CV *)

\* current_user() passes; the handler has not begun.  The requests that overlap are one
\* user's: no handler reads or writes another's rows.
Ask(r, u, stage) ==
  /\ At(r, "idle") /\ status[u] = "open"
  /\ stage = "build" => "cv_versions" \in rows[u]
  /\ \A q \in Requests : Of(q) \in {u, "nobody"}
  /\ request' = [request EXCEPT ![r] = [user |-> u, stage |-> stage, number |-> 0]]
  /\ UNCHANGED <<status, age, rows, versions, text, weights, overlap, matching>>

\* _upsert_document() and the SELECT of _insert_version(): ON CONFLICT DO UPDATE
\* locks the document's row until the transaction ends.
LockDocument_NoLock(r) ==
  /\ At(r, "upload") /\ Exists(Of(r))
  /\ request' = [request EXCEPT ![r] =
       [user |-> Of(r), stage |-> "uploading", number |-> Len(versions[Of(r)]) + 1]]

LockDocument(r) ==
  /\ At(r, "upload") /\ Exists(Of(r))
  /\ \A q \in Requests : Of(q) = Of(r) => ~At(q, "uploading")
  /\ request' = [request EXCEPT ![r] =
       [user |-> Of(r), stage |-> "uploading", number |-> Len(versions[Of(r)]) + 1]]

StartUpload(r) ==
  /\ LockDocument(r)
  /\ UNCHANGED <<status, age, rows, versions, text, weights, overlap, matching>>

FinishUpload(r) ==
  LET u == Of(r) IN
  /\ At(r, "uploading") /\ Len(versions[u]) < MaxVersions
  /\ Hold(u, {"cv_documents", "cv_versions"})
  /\ versions' = [versions EXCEPT ![u] = Append(@, request[r].number)]
  /\ text' = [text EXCEPT ![u] = TRUE]
  /\ Done(r)
  /\ UNCHANGED <<status, age, weights, overlap, matching>>

\* CvUnreadableError, a model that does not answer, a user purged meanwhile: the
\* session rolls back, the row the comment says is kept included.
Fail(r) ==
  /\ ~At(r, "idle")
  /\ Done(r)
  /\ UNCHANGED <<status, age, rows, versions, text, weights, overlap, matching>>

-----------------------------------------------------------------------------
(* Building a profile: the model is asked between reading the text and storing *)

ProfileTables ==
  {"candidate_profiles", "profile_skills", "profile_bullets", "profile_embeddings"}

FinishBuild_NoForeignKey(r) ==
  LET u == Of(r) IN
  /\ At(r, "build")
  /\ Hold(u, ProfileTables)
  /\ Done(r)
  /\ UNCHANGED <<status, age, versions, text, weights, overlap, matching>>

FinishBuild(r) ==
  LET u == Of(r) IN
  /\ At(r, "build") /\ Exists(u) /\ "cv_versions" \in rows[u]
  /\ Hold(u, ProfileTables)
  /\ Done(r)
  /\ UNCHANGED <<status, age, versions, text, weights, overlap, matching>>

-----------------------------------------------------------------------------
(* What hangs on a profile *)

\* The nightly handler without a payload: a task for every profile there is.
QueueMatching ==
  /\ matching' = [u \in Users |-> matching[u] \/ "candidate_profiles" \in rows[u]]
  /\ matching' # matching
  /\ UNCHANGED <<status, age, rows, versions, text, weights, request, overlap>>

\* run_for_profile(), or its failure for a profile that is gone.
RunMatching(u) ==
  /\ matching[u]
  /\ matching' = [matching EXCEPT ![u] = FALSE]
  /\ IF "candidate_profiles" \in rows[u]
     THEN Hold(u, {"matches", "match_evidence"}) ELSE UNCHANGED rows
  /\ UNCHANGED <<status, age, versions, text, weights, request, overlap>>

\* Saving, dismissing and applying, one request each.
Engage(u) ==
  /\ u \in Engaging /\ status[u] = "open" /\ "matches" \in rows[u]
  /\ Hold(u, {"user_job_events", "applications", "application_events"})
  /\ UNCHANGED <<status, age, versions, text, weights, request, overlap, matching>>

\* record_label(), from a file an annotator filled in at any time.
Label(u) ==
  /\ "candidate_profiles" \in rows[u]
  /\ Hold(u, {"eval_labels"})
  /\ UNCHANGED <<status, age, versions, text, weights, request, overlap, matching>>

-----------------------------------------------------------------------------
(* Personalisation *)

\* _validate(): labelled pairs of this user's own profiles that passed the gates.
Validated(u) == {"eval_labels", "matches"} \subseteq rows[u]

\* _store(): one row per user, overwritten, one the candidate turned off included.
Store(u, active) ==
  /\ weights' = [weights EXCEPT ![u] = IF active THEN "active" ELSE "declined"]
  /\ Hold(u, {"user_score_weights"})

\* train(): too few events leave the stored row as it is; a fit is stored in any
\* case, active only if it was validated and gained.
Train(u, gained) ==
  /\ Exists(u)
  /\ {"user_job_events", "matches"} \subseteq rows[u]
  /\ Store(u, Validated(u) /\ gained)
  /\ UNCHANGED <<status, age, versions, text, request, overlap, matching>>

Deactivate(u) ==
  /\ status[u] = "open" /\ weights[u] = "active"
  /\ weights' = [weights EXCEPT ![u] = "off"]
  /\ UNCHANGED <<status, age, rows, versions, text, request, overlap, matching>>

-----------------------------------------------------------------------------
(* Closing and purging *)

BlankText_Kept(u) == UNCHANGED text
BlankText(u) == text' = [text EXCEPT ![u] = FALSE]

\* request_deletion(): what an upload under way has inserted is not seen.
Close(u) ==
  /\ status[u] = "open"
  /\ status' = [status EXCEPT ![u] = "closed"]
  /\ BlankText(u)
  /\ overlap' = [overlap EXCEPT ![u] =
                   \E r \in Requests : Of(r) = u /\ request[r].stage \in {"upload", "uploading"}]
  /\ UNCHANGED <<age, rows, versions, weights, request, matching>>

Expired == {u \in Users : status[u] = "closed" /\ age'[u] > Window}

\* hard_delete_expired(): every expired account in one transaction, so one that
\* cannot be deleted keeps them all.
DeleteExpired ==
  IF \A u \in Expired : Deletable(rows[u], "users")
  THEN /\ status' = [u \in Users |-> IF u \in Expired THEN "purged" ELSE status[u]]
       /\ rows' = [u \in Users |-> IF u \in Expired THEN Remaining(rows[u], "users") ELSE rows[u]]
  ELSE UNCHANGED <<status, rows>>

\* The next daily purge comes due.  A row being inserted holds its users row.
Purge ==
  /\ age' = [u \in Users |-> IF status[u] = "closed" /\ age[u] <= Window
                             THEN age[u] + 1 ELSE age[u]]
  /\ \A r \in Requests : At(r, "uploading") => Of(r) \notin Expired
  /\ DeleteExpired
  /\ versions' = [u \in Users |-> IF "cv_versions" \in rows'[u] THEN versions[u] ELSE <<>>]
  /\ text' = [u \in Users |-> text[u] /\ "cv_versions" \in rows'[u]]
  /\ weights' = [u \in Users |-> IF "user_score_weights" \in rows'[u] THEN weights[u] ELSE "none"]
  /\ UNCHANGED <<request, overlap, matching>>

Proceed(r) ==
  StartUpload(r) \/ FinishUpload(r) \/ FinishBuild(r) \/ Fail(r)

Next ==
  \/ \E u \in Users :
       \/ Register(u) \/ RunMatching(u) \/ Engage(u) \/ Label(u) \/ Deactivate(u) \/ Close(u)
       \/ \E gained \in BOOLEAN : Train(u, gained)
       \/ \E r \in Requests, stage \in {"upload", "build"} : Ask(r, u, stage)
  \/ \E r \in Requests : Proceed(r)
  \/ QueueMatching \/ Purge

\* Time passes, the daily task is run, and a request ends one way or another.
Spec ==
  /\ Init /\ [][Next]_vars
  /\ WF_vars(Purge)
  /\ \A r \in Requests : WF_vars(Proceed(r))

-----------------------------------------------------------------------------
(* Properties *)

TypeOK ==
  /\ status \in [Users -> {"none", "open", "closed", "purged"}]
  /\ age \in [Users -> 0..(Window + 1)]
  /\ rows \in [Users -> SUBSET DOMAIN Mapped]
  /\ versions \in [Users -> Seq(Nat)]
  /\ text \in [Users -> BOOLEAN]
  /\ weights \in [Users -> {"none", "active", "declined", "off"}]
  /\ request \in [Requests -> Under]
  /\ overlap \in [Users -> BOOLEAN]
  /\ matching \in [Users -> BOOLEAN]

\* Nothing outlives what it rests on: of a purged account no row is there, nor comes back
\* with a request or task that was under way; and weights in force have the events,
\* matches and labels that earned them, whatever was trained, turned off and trained.
NothingOutlives ==
  \A u \in Users :
    /\ status[u] = "purged" => rows[u] = {} /\ ~text[u]
    /\ weights[u] = "active" =>
         {"user_score_weights", "user_job_events", "matches", "eval_labels"} \subseteq rows[u]

\* "Destroy the CV text now": a closed account has CV text only where an upload had
\* passed its account check when the account was closed.
TextStaysGone ==
  \A u \in Users : status[u] = "closed" /\ text[u] => overlap[u]

\* Two uploads of the same bytes never become the same version: the upsert's lock
\* stands in for the unique constraint that cv_versions does not have.
VersionsDistinct ==
  \A u \in Users : \A i, j \in DOMAIN versions[u] : i # j => versions[u][i] # versions[u][j]

\* Every closed account is purged in the end, unless some closed account's profile
\* carries a label, which refuses the deletion of all.
PurgeComes ==
  \A u \in Users :
    status[u] = "closed" ~>
      \/ status[u] = "purged"
      \/ \E v \in Users : status[v] = "closed" /\ "eval_labels" \in rows[v]

\* "The user stops being processed the moment they ask" (services/account.py:9): no
\* matching task is queued for a closed account.
ProcessingStops ==
  [][\A u \in Users : status[u] = "closed" /\ ~matching[u] => ~matching'[u]]_vars
=============================================================================
