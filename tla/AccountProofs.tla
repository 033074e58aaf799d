--------------------------- MODULE AccountProofs ---------------------------
(***************************************************************************)
(* TLAPS proofs about Account, for every value of its constants.           *)
(***************************************************************************)
EXTENDS Account, SequenceTheorems, TLAPS

USE AccountAssumption

-----------------------------------------------------------------------------
(* What the deletion of a users row takes away *)

\* The tables that hold rows of one user.
UserTables ==
  {"consents", "refresh_tokens", "cv_documents", "cv_versions", "candidate_profiles",
   "profile_skills", "profile_bullets", "profile_embeddings", "matches", "match_evidence",
   "user_job_events", "applications", "application_events", "eval_labels",
   "user_score_weights"}

Parts == {IdentityTables, CandidateTables, TaxonomyTables, EmployerTables,
          IngestionTables, PostingTables, MatchTables, EngagementTables, EvaluationTables}

\* No table is declared in two parts of db/models.py.
LEMMA PartsApart ==
  ASSUME NEW P \in Parts, NEW Q \in Parts, NEW t, t \in DOMAIN P, t \in DOMAIN Q
  PROVE  P = Q
<1> USE DEF IdentityTables, CandidateTables, TaxonomyTables, EmployerTables, IngestionTables,
            PostingTables, MatchTables, EngagementTables, EvaluationTables
<1>1. CASE P = IdentityTables
  BY <1>1 DEF Parts
<1>2. CASE P = CandidateTables
  BY <1>2 DEF Parts
<1>3. CASE P = TaxonomyTables
  BY <1>3 DEF Parts
<1>4. CASE P = EmployerTables
  BY <1>4 DEF Parts
<1>5. CASE P = IngestionTables
  BY <1>5 DEF Parts
<1>6. CASE P = PostingTables
  BY <1>6 DEF Parts
<1>7. CASE P = MatchTables
  BY <1>7 DEF Parts
<1>8. CASE P = EngagementTables
  BY <1>8 DEF Parts
<1>9. CASE P = EvaluationTables
  BY <1>9 DEF Parts
<1> QED BY <1>1, <1>2, <1>3, <1>4, <1>5, <1>6, <1>7, <1>8, <1>9 DEF Parts

LEMMA TableOf ==
  ASSUME NEW P \in Parts, NEW t \in DOMAIN P
  PROVE  t \in DOMAIN Mapped /\ Mapped[t] = P[t]
<1>1. t \in UNION {DOMAIN part : part \in Parts}
  OBVIOUS
<1>2. (CHOOSE part \in Parts : t \in DOMAIN part) = P
  BY PartsApart
<1>3. Mapped = [u \in UNION {DOMAIN part : part \in Parts} |->
                  (CHOOSE part \in Parts : u \in DOMAIN part)[u]]
  BY DEF Mapped, Parts
<1> QED BY <1>1, <1>2, <1>3

LEMMA DirectCascade ==
  ASSUME NEW t \in {"consents", "refresh_tokens", "cv_documents", "candidate_profiles",
                    "matches", "user_job_events", "applications", "user_score_weights"}
  PROVE  t \in DOMAIN Mapped /\ "users" \in Mapped[t].cascade
<1>1. t \in {"consents", "refresh_tokens"} => t \in DOMAIN IdentityTables /\ "users" \in IdentityTables[t].cascade
  BY DEF IdentityTables, OfUser, Fk
<1>2. t \in {"cv_documents", "candidate_profiles"} =>
        t \in DOMAIN CandidateTables /\ "users" \in CandidateTables[t].cascade
  BY DEF CandidateTables, OfUser, Fk
<1>3. t = "matches" => t \in DOMAIN MatchTables /\ "users" \in MatchTables[t].cascade
  BY DEF MatchTables, OfUser, Fk
<1>4. t \in {"user_job_events", "applications"} =>
        t \in DOMAIN EngagementTables /\ "users" \in EngagementTables[t].cascade
  BY DEF EngagementTables, OfUser, Fk
<1>5. t = "user_score_weights" =>
        t \in DOMAIN EvaluationTables /\ "users" \in EvaluationTables[t].cascade
  BY DEF EvaluationTables, OfUser, Fk
<1> QED BY <1>1, <1>2, <1>3, <1>4, <1>5, TableOf DEF Parts

LEMMA IndirectCascade ==
  /\ "cv_versions" \in DOMAIN Mapped /\ "cv_documents" \in Mapped["cv_versions"].cascade
  /\ \A t \in {"profile_skills", "profile_bullets", "profile_embeddings"} :
       t \in DOMAIN Mapped /\ "candidate_profiles" \in Mapped[t].cascade
  /\ "match_evidence" \in DOMAIN Mapped /\ "matches" \in Mapped["match_evidence"].cascade
  /\ "application_events" \in DOMAIN Mapped
  /\ "applications" \in Mapped["application_events"].cascade
<1>1. \A t \in {"cv_versions", "profile_skills", "profile_bullets", "profile_embeddings"} :
        t \in DOMAIN CandidateTables /\ Mapped[t] = CandidateTables[t] /\ t \in DOMAIN Mapped
  <2>1. \A t \in {"cv_versions", "profile_skills", "profile_bullets", "profile_embeddings"} :
          t \in DOMAIN CandidateTables
    BY DEF CandidateTables
  <2> QED BY <2>1, TableOf DEF Parts
<1>2. "match_evidence" \in DOMAIN Mapped /\ Mapped["match_evidence"] = MatchTables["match_evidence"]
  <2>1. "match_evidence" \in DOMAIN MatchTables
    BY DEF MatchTables
  <2> QED BY <2>1, TableOf DEF Parts
<1>3. /\ "application_events" \in DOMAIN Mapped
      /\ Mapped["application_events"] = EngagementTables["application_events"]
  <2>1. "application_events" \in DOMAIN EngagementTables
    BY DEF EngagementTables
  <2> QED BY <2>1, TableOf DEF Parts
<1>4. /\ "cv_documents" \in CandidateTables["cv_versions"].cascade
      /\ \A t \in {"profile_skills", "profile_bullets", "profile_embeddings"} :
           "candidate_profiles" \in CandidateTables[t].cascade
  BY DEF CandidateTables, Fk
<1>5. /\ "matches" \in MatchTables["match_evidence"].cascade
      /\ "applications" \in EngagementTables["application_events"].cascade
  BY DEF MatchTables, EngagementTables, Fk
<1> QED BY <1>1, <1>2, <1>3, <1>4, <1>5

\* A label holds on to its profile, and no cascade takes it.
LEMMA LabelsHold ==
  /\ "eval_labels" \in DOMAIN Mapped
  /\ Mapped["eval_labels"].cascade = {}
  /\ "candidate_profiles" \in Mapped["eval_labels"].restrict
<1>1. "eval_labels" \in DOMAIN EvaluationTables
  BY DEF EvaluationTables
<1>2. "eval_labels" \in DOMAIN Mapped /\ Mapped["eval_labels"] = EvaluationTables["eval_labels"]
  BY <1>1, TableOf DEF Parts
<1> QED BY <1>2 DEF EvaluationTables, Fk

\* The first waves of deleting a users row.
LEMMA UserWaves ==
  LET first == {"users"}
      second == Wave(first)
      third == Wave(second)
  IN  /\ DOMAIN Waves["users"] = 1..5
      /\ Waves["users"][2] = second
      /\ Last(Waves["users"]) = Wave(Wave(third))
<1>1. "users" \in DOMAIN IdentityTables
  BY DEF IdentityTables
<1>2. "users" \in DOMAIN Mapped
  BY <1>1, TableOf DEF Parts
<1>3. Waves["users"] = <<{"users"}, Wave({"users"}), Wave(Wave({"users"})),
                         Wave(Wave(Wave({"users"}))), Wave(Wave(Wave(Wave({"users"}))))>>
  BY <1>2 DEF Waves
<1>4. Len(Waves["users"]) = 5
  BY <1>3
<1> QED BY <1>3, <1>4 DEF Last

LEMMA WaveGrows ==
  ASSUME NEW gone
  PROVE  gone \subseteq Wave(gone)
BY DEF Wave

\* Every row of a user goes with the users row, except labels.
LEMMA UserRowsGo == UserTables \ {"eval_labels"} \subseteq Last(Waves["users"])
<1> DEFINE second == Wave({"users"})
           third == Wave(second)
<1>1. \A t \in {"consents", "refresh_tokens", "cv_documents", "candidate_profiles",
                "matches", "user_job_events", "applications", "user_score_weights"} : t \in second
  BY DirectCascade DEF Wave
<1>2. \A t \in {"cv_versions", "profile_skills", "profile_bullets", "profile_embeddings",
                "match_evidence", "application_events"} : t \in third
  BY <1>1, IndirectCascade DEF Wave
<1>3. second \subseteq third /\ third \subseteq Wave(third) /\ Wave(third) \subseteq Wave(Wave(third))
  BY WaveGrows
<1>4. Last(Waves["users"]) = Wave(Wave(third))
  BY UserWaves
<1> QED BY <1>1, <1>2, <1>3, <1>4 DEF UserTables

\* A labelled profile refuses the deletion of its user.
LEMMA LabelsRefuse ==
  ASSUME NEW tables, {"eval_labels", "candidate_profiles"} \subseteq tables
  PROVE  ~Deletable(tables, "users")
<1> DEFINE second == Wave({"users"})
<1>1. Waves["users"][2] = second /\ 2 \in DOMAIN Waves["users"]
  BY UserWaves
<1>2. "candidate_profiles" \in second
  BY DirectCascade DEF Wave
<1>3. "eval_labels" \notin second
  BY LabelsHold DEF Wave
<1>4. "candidate_profiles" \in Mapped["eval_labels"].restrict \cap second \cap (tables \cup {"users"})
  BY <1>2, LabelsHold
<1>5. Refused(tables \cup {"users"}, second)
  BY <1>3, <1>4 DEF Refused
<1> QED BY <1>1, <1>5 DEF Deletable

\* What a user may have is all deleted, or not at all.
LEMMA PurgeIsWhole ==
  ASSUME NEW tables \in SUBSET UserTables, Deletable(tables, "users"),
         "eval_labels" \in tables => "candidate_profiles" \in tables
  PROVE  Remaining(tables, "users") = {}
<1>1. "eval_labels" \notin tables
  BY LabelsRefuse
<1> QED BY <1>1, UserRowsGo DEF Remaining

-----------------------------------------------------------------------------
(* The inductive invariant *)

\* Only a user's own tables have rows of the user's, and a label has its profile.
RowsOwned ==
  \A u \in Users :
    /\ rows[u] \subseteq UserTables
    /\ "eval_labels" \in rows[u] => "candidate_profiles" \in rows[u]

\* No account, nothing kept.
GoneEmpty == \A u \in Users : ~Exists(u) => rows[u] = {} /\ ~text[u]

Earned ==
  \A u \in Users :
    weights[u] = "active" =>
      {"user_score_weights", "user_job_events", "matches", "eval_labels"} \subseteq rows[u]

\* A request that locks a document is the only one to, and its user is still there; the
\* number it read is the next one until it ends.
Locked ==
  \A r \in Requests :
    /\ ~At(r, "idle") => Of(r) \in Users
    /\ At(r, "uploading") =>
         /\ Exists(Of(r))
         /\ request[r].number = Len(versions[Of(r)]) + 1
         /\ \A q \in Requests : At(q, "uploading") /\ Of(q) = Of(r) => q = r

\* The versions of a document are numbered from 1 without a gap.
Numbered ==
  \A u \in Users :
    /\ versions[u] # <<>> => "cv_versions" \in rows[u]
    /\ \A i \in DOMAIN versions[u] : versions[u][i] = i

\* Without an upload under way at the closing, none comes after it, and no text is left.
TextGone ==
  \A u \in Users :
    status[u] = "closed" /\ ~overlap[u] =>
      /\ ~text[u]
      /\ \A r \in Requests : Of(r) = u => ~At(r, "upload") /\ ~At(r, "uploading")

-----------------------------------------------------------------------------
(* Type correctness *)

LEMMA IdleType == Idle \in Under
BY DEF Idle, Under

LEMMA UserTablesMapped == UserTables \subseteq DOMAIN Mapped
BY DirectCascade, IndirectCascade, LabelsHold DEF UserTables

LEMMA HoldType ==
  ASSUME TypeOK, NEW u \in Users, NEW T \in SUBSET UserTables, Hold(u, T)
  PROVE  rows' \in [Users -> SUBSET DOMAIN Mapped]
BY UserTablesMapped DEF Hold, TypeOK

LEMMA HoldGrows ==
  ASSUME TypeOK, NEW u \in Users, NEW T, Hold(u, T)
  PROVE  \A v \in Users : rows[v] \subseteq rows'[v]
BY DEF Hold, TypeOK

LEMMA DoneType ==
  ASSUME TypeOK, NEW r \in Requests, Done(r)
  PROVE  request' \in [Requests -> Under]
BY IdleType DEF Done, TypeOK

LEMMA TypeInit == Init => TypeOK
BY IdleType DEF Init, TypeOK

LEMMA TypeStep == TypeOK /\ Locked /\ [Next]_vars => TypeOK'
<1> SUFFICES ASSUME TypeOK, Locked, [Next]_vars PROVE TypeOK'
  OBVIOUS
<1> USE DEF TypeOK
<1>1. ASSUME NEW u \in Users, Register(u) PROVE TypeOK'
  <2>1. rows' \in [Users -> SUBSET DOMAIN Mapped]
    BY <1>1, HoldType DEF Register, UserTables
  <2> QED BY <1>1, <2>1 DEF Register
<1>2. ASSUME NEW u \in Users, RunMatching(u) PROVE TypeOK'
  <2>1. rows' \in [Users -> SUBSET DOMAIN Mapped]
    BY <1>2, HoldType DEF RunMatching, UserTables
  <2> QED BY <1>2, <2>1 DEF RunMatching
<1>3. ASSUME NEW u \in Users, Engage(u) PROVE TypeOK'
  <2>1. rows' \in [Users -> SUBSET DOMAIN Mapped]
    BY <1>3, HoldType DEF Engage, UserTables
  <2> QED BY <1>3, <2>1 DEF Engage
<1>4. ASSUME NEW u \in Users, Label(u) PROVE TypeOK'
  <2>1. rows' \in [Users -> SUBSET DOMAIN Mapped]
    BY <1>4, HoldType DEF Label, UserTables
  <2> QED BY <1>4, <2>1 DEF Label
<1>5. ASSUME NEW u \in Users, Deactivate(u) PROVE TypeOK'
  BY <1>5 DEF Deactivate
<1>6. ASSUME NEW u \in Users, Close(u) PROVE TypeOK'
  BY <1>6 DEF Close, BlankText
<1>7. ASSUME NEW u \in Users, NEW gained \in BOOLEAN, Train(u, gained) PROVE TypeOK'
  <2>1. rows' \in [Users -> SUBSET DOMAIN Mapped]
    BY <1>7, HoldType DEF Train, Store, UserTables
  <2> QED BY <1>7, <2>1 DEF Train, Store
<1>8. ASSUME NEW u \in Users, NEW r \in Requests, NEW stage \in {"upload", "build"}, Ask(r, u, stage)
      PROVE  TypeOK'
  BY <1>8 DEF Ask, Under
<1>9. ASSUME NEW r \in Requests, StartUpload(r) PROVE TypeOK'
  <2>1. Of(r) \in Users
    BY <1>9 DEF StartUpload, LockDocument, Locked, At
  <2>2. Len(versions[Of(r)]) + 1 \in Nat
    BY <2>1
  <2>3. request' \in [Requests -> Under]
    BY <1>9, <2>1, <2>2 DEF StartUpload, LockDocument, Under
  <2> QED BY <1>9, <2>3 DEF StartUpload
<1>10. ASSUME NEW r \in Requests, FinishUpload(r) PROVE TypeOK'
  <2>1. Of(r) \in Users /\ request[r].number \in Nat
    BY <1>10 DEF FinishUpload, Locked, At, Under
  <2>2. rows' \in [Users -> SUBSET DOMAIN Mapped] /\ request' \in [Requests -> Under]
    BY <1>10, <2>1, HoldType, DoneType DEF FinishUpload, UserTables
  <2>3. Append(versions[Of(r)], request[r].number) \in Seq(Nat)
    BY <2>1
  <2> QED BY <1>10, <2>1, <2>2, <2>3 DEF FinishUpload
<1>11. ASSUME NEW r \in Requests, FinishBuild(r) PROVE TypeOK'
  <2>1. Of(r) \in Users
    BY <1>11 DEF FinishBuild, Locked, At
  <2>2. rows' \in [Users -> SUBSET DOMAIN Mapped] /\ request' \in [Requests -> Under]
    BY <1>11, <2>1, HoldType, DoneType DEF FinishBuild, ProfileTables, UserTables
  <2> QED BY <1>11, <2>2 DEF FinishBuild
<1>12. ASSUME NEW r \in Requests, Fail(r) PROVE TypeOK'
  BY <1>12, DoneType DEF Fail
<1>13. CASE QueueMatching
  BY <1>13 DEF QueueMatching
<1>14. CASE Purge
  <2>1. age' \in [Users -> 0..(Window + 1)]
    BY <1>14 DEF Purge
  <2>2. /\ status' \in [Users -> {"none", "open", "closed", "purged"}]
        /\ rows' \in [Users -> SUBSET DOMAIN Mapped]
    <3> DEFINE left(u) == Remaining(rows[u], "users")
    <3>1. \A u \in Users : left(u) \in SUBSET DOMAIN Mapped
      BY DEF Remaining
    <3>2. /\ status \in [Users -> {"none", "open", "closed", "purged"}]
          /\ rows \in [Users -> SUBSET DOMAIN Mapped]
      OBVIOUS
    <3>3. \/ UNCHANGED <<status, rows>>
          \/ /\ status' = [u \in Users |-> IF u \in Expired THEN "purged" ELSE status[u]]
             /\ rows' = [u \in Users |-> IF u \in Expired THEN left(u) ELSE rows[u]]
      BY <1>14, Zenon DEF Purge, DeleteExpired
    <3> HIDE DEF left, TypeOK
    <3> QED BY <3>1, <3>2, <3>3
  <2>3. /\ versions' \in [Users -> Seq(Nat)] /\ text' \in [Users -> BOOLEAN]
        /\ weights' \in [Users -> {"none", "active", "declined", "off"}]
    BY <1>14 DEF Purge
  <2> QED BY <1>14, <2>1, <2>2, <2>3 DEF Purge
<1>15. CASE UNCHANGED vars
  BY <1>15 DEF vars
<1> QED
  BY <1>1, <1>2, <1>3, <1>4, <1>5, <1>6, <1>7, <1>8, <1>9, <1>10, <1>11, <1>12, <1>13, <1>14,
     <1>15
  DEF Next, Proceed

-----------------------------------------------------------------------------
(* What is kept of an account *)

\* A purge takes all of a user's rows, or none.
LEMMA PurgeEffect ==
  ASSUME TypeOK, RowsOwned, Purge, NEW u \in Users
  PROVE  \/ u \in Expired /\ status[u] = "closed" /\ status'[u] = "purged" /\ rows'[u] = {}
         \/ status'[u] = status[u] /\ rows'[u] = rows[u]
<1>1. CASE \A v \in Expired : Deletable(rows[v], "users")
  <2>1. /\ status'[u] = IF u \in Expired THEN "purged" ELSE status[u]
        /\ rows'[u] = IF u \in Expired THEN Remaining(rows[u], "users") ELSE rows[u]
    BY <1>1 DEF Purge, DeleteExpired
  <2>2. u \in Expired => status[u] = "closed" /\ Deletable(rows[u], "users")
    BY <1>1 DEF Expired
  <2>3. u \in Expired => Remaining(rows[u], "users") = {}
    BY <2>2, PurgeIsWhole DEF RowsOwned
  <2> QED BY <2>1, <2>2, <2>3
<1>2. CASE ~\A v \in Expired : Deletable(rows[v], "users")
  BY <1>2 DEF Purge, DeleteExpired
<1> QED BY <1>1, <1>2

KeptInv == RowsOwned /\ GoneEmpty /\ Earned

LEMMA KeptInit == Init => KeptInv
BY DEF Init, KeptInv, RowsOwned, GoneEmpty, Earned

\* Giving a user who is there more rows keeps the invariant.
LEMMA KeptByHold ==
  ASSUME TypeOK, KeptInv, NEW u \in Users, NEW T \in SUBSET UserTables, Hold(u, T),
         "eval_labels" \in T => "candidate_profiles" \in rows[u],
         Exists(u)', \A v \in Users \ {u} : status'[v] = status[v] /\ text'[v] = text[v],
         \A v \in Users : weights'[v] = weights[v] \/ weights'[v] # "active"
  PROVE  KeptInv'
<1>1. rows'[u] = rows[u] \cup T /\ \A v \in Users \ {u} : rows'[v] = rows[v]
  BY DEF Hold, TypeOK
<1>2. RowsOwned'
  BY <1>1 DEF KeptInv, RowsOwned
<1>3. GoneEmpty'
  BY <1>1 DEF KeptInv, GoneEmpty, Exists
<1>4. Earned'
  BY <1>1 DEF KeptInv, Earned
<1> QED BY <1>2, <1>3, <1>4 DEF KeptInv

LEMMA KeptStep == TypeOK /\ Locked /\ KeptInv /\ [Next]_vars => KeptInv'
<1> SUFFICES ASSUME TypeOK, Locked, KeptInv, RowsOwned, GoneEmpty, Earned, [Next]_vars
             PROVE  KeptInv'
  BY DEF KeptInv
<1>0. ASSUME NEW u \in Users, rows[u] # {} PROVE Exists(u)
  BY <1>0 DEF GoneEmpty
<1>1. ASSUME NEW u \in Users, Register(u) PROVE KeptInv'
  <2>1. status'[u] = "open" /\ \A v \in Users \ {u} : status'[v] = status[v]
    BY <1>1 DEF Register, TypeOK
  <2> QED BY <1>1, <2>1, KeptByHold DEF Register, Exists, UserTables
<1>2. ASSUME NEW u \in Users, RunMatching(u) PROVE KeptInv'
  <2>1. CASE "candidate_profiles" \in rows[u]
    <3>1. Exists(u)' /\ UNCHANGED <<status, text, weights>>
      BY <1>0, <1>2, <2>1 DEF RunMatching, Exists
    <3> QED BY <1>2, <2>1, <3>1, KeptByHold DEF RunMatching, UserTables
  <2>2. CASE "candidate_profiles" \notin rows[u]
    BY <1>2, <2>2 DEF RunMatching, KeptInv, RowsOwned, GoneEmpty, Earned, Exists
  <2> QED BY <2>1, <2>2
<1>3. ASSUME NEW u \in Users, Engage(u) PROVE KeptInv'
  BY <1>3, KeptByHold DEF Engage, Exists, UserTables
<1>4. ASSUME NEW u \in Users, Label(u) PROVE KeptInv'
  <2>1. Exists(u)' /\ UNCHANGED <<status, text, weights>>
    BY <1>0, <1>4 DEF Label, Exists
  <2> QED BY <1>4, <2>1, KeptByHold DEF Label, UserTables
<1>5. ASSUME NEW u \in Users, Deactivate(u) PROVE KeptInv'
  BY <1>5 DEF Deactivate, TypeOK, KeptInv, RowsOwned, GoneEmpty, Earned, Exists
<1>6. ASSUME NEW u \in Users, Close(u) PROVE KeptInv'
  BY <1>6 DEF Close, BlankText, TypeOK, KeptInv, RowsOwned, GoneEmpty, Earned, Exists
<1>7. ASSUME NEW u \in Users, NEW gained \in BOOLEAN, Train(u, gained) PROVE KeptInv'
  <2>1. /\ rows'[u] = rows[u] \cup {"user_score_weights"}
        /\ \A v \in Users \ {u} : rows'[v] = rows[v] /\ weights'[v] = weights[v]
        /\ weights'[u] = "active" => {"user_job_events", "matches", "eval_labels"} \subseteq rows[u]
        /\ Exists(u) /\ UNCHANGED <<status, text>>
    BY <1>7 DEF Train, Store, Hold, Validated, TypeOK
  <2>2. RowsOwned'
    BY <2>1 DEF RowsOwned, UserTables
  <2>3. GoneEmpty'
    BY <2>1 DEF GoneEmpty, Exists
  <2>4. Earned'
    BY <2>1 DEF Earned
  <2> QED BY <2>2, <2>3, <2>4 DEF KeptInv
<1>8. ASSUME NEW r \in Requests, FinishUpload(r) PROVE KeptInv'
  <2>1. Of(r) \in Users /\ Exists(Of(r))
    BY <1>8 DEF FinishUpload, Locked, At
  <2>2. UNCHANGED <<status, weights>> /\ \A v \in Users \ {Of(r)} : text'[v] = text[v]
    BY <1>8 DEF FinishUpload, TypeOK
  <2> QED BY <1>8, <2>1, <2>2, KeptByHold DEF FinishUpload, Exists, UserTables
<1>9. ASSUME NEW r \in Requests, FinishBuild(r) PROVE KeptInv'
  <2>1. Of(r) \in Users /\ UNCHANGED <<status, weights, text>>
    BY <1>9 DEF FinishBuild, Locked, At
  <2> QED BY <1>9, <2>1, KeptByHold DEF FinishBuild, Exists, ProfileTables, UserTables
<1>10. CASE Purge
  <2>1. ASSUME NEW u \in Users
        PROVE  /\ rows'[u] = {} \/ rows'[u] = rows[u]
               /\ ~Exists(u)' => rows'[u] = {}
               /\ text'[u] = (text[u] /\ "cv_versions" \in rows'[u])
               /\ weights'[u] = "active" => weights[u] = "active" /\ rows'[u] # {}
    <3>1. /\ text'[u] = (text[u] /\ "cv_versions" \in rows'[u])
          /\ weights'[u] = IF "user_score_weights" \in rows'[u] THEN weights[u] ELSE "none"
      BY <1>10 DEF Purge
    <3>2. /\ rows'[u] = {} \/ rows'[u] = rows[u]
          /\ ~Exists(u)' => rows'[u] = {}
      BY <1>10, PurgeEffect DEF GoneEmpty, Exists
    <3> QED BY <3>1, <3>2
  <2>2. RowsOwned' /\ GoneEmpty' /\ Earned'
    BY <2>1 DEF RowsOwned, GoneEmpty, Earned
  <2> QED BY <2>2 DEF KeptInv
<1>11. CASE UNCHANGED <<status, rows, text, weights>>
  BY <1>11 DEF KeptInv, RowsOwned, GoneEmpty, Earned, Exists
<1> QED
  BY <1>1, <1>2, <1>3, <1>4, <1>5, <1>6, <1>7, <1>8, <1>9, <1>10, <1>11
  DEF Next, Proceed, vars, Ask, StartUpload, Fail, QueueMatching

-----------------------------------------------------------------------------
(* Uploads *)

UploadInv == Locked /\ Numbered

LEMMA UploadInit == Init => UploadInv
BY DEF Init, UploadInv, Locked, Numbered, At, Idle

\* A step that leaves versions, and the accounts and requests of uploads, leaves them locked.
LEMMA LockedKept ==
  ASSUME TypeOK, Locked,
         \A r \in Requests : request'[r] = request[r] \/ request'[r] = Idle,
         \A r \in Requests : At(r, "uploading") /\ At(r, "uploading")' =>
           Exists(Of(r))' /\ versions'[Of(r)] = versions[Of(r)]
  PROVE  Locked'
<1> SUFFICES ASSUME NEW r \in Requests, ~At(r, "idle")'
             PROVE  /\ Of(r)' \in Users
                    /\ At(r, "uploading")' =>
                         /\ Exists(Of(r))'
                         /\ request'[r].number = Len(versions'[Of(r)']) + 1
                         /\ \A q \in Requests : At(q, "uploading")' /\ Of(q)' = Of(r)' => q = r
  BY DEF Locked, At, Of, Exists
<1>1. request'[r] = request[r] /\ ~At(r, "idle") /\ Of(r)' = Of(r)
  BY DEF At, Idle, Of
<1>2. \A q \in Requests : At(q, "uploading")' => At(q, "uploading") /\ Of(q)' = Of(q)
  BY DEF At, Idle, Of
<1> QED BY <1>1, <1>2 DEF Locked, At, Of

LEMMA LockedStep == TypeOK /\ RowsOwned /\ UploadInv /\ [Next]_vars => Locked'
<1> SUFFICES ASSUME TypeOK, RowsOwned, Locked, Numbered, [Next]_vars PROVE Locked'
  BY DEF UploadInv
<1>1. ASSUME NEW u \in Users, NEW r \in Requests, NEW stage \in {"upload", "build"}, Ask(r, u, stage)
      PROVE  Locked'
  <2>1. /\ request'[r] = [user |-> u, stage |-> stage, number |-> 0]
        /\ \A q \in Requests \ {r} : request'[q] = request[q]
        /\ UNCHANGED <<status, versions>>
    BY <1>1 DEF Ask, TypeOK
  <2> QED BY <2>1 DEF Locked, At, Of, Exists
<1>2. ASSUME NEW r \in Requests, StartUpload(r) PROVE Locked'
  <2>1. Of(r) \in Users /\ Exists(Of(r))
    BY <1>2 DEF StartUpload, LockDocument, Locked, At
  <2>2. /\ request'[r] = [user |-> Of(r), stage |-> "uploading", number |-> Len(versions[Of(r)]) + 1]
        /\ \A q \in Requests \ {r} : request'[q] = request[q]
        /\ UNCHANGED <<status, versions>>
        /\ \A q \in Requests : Of(q) = Of(r) => ~At(q, "uploading")
    BY <1>2 DEF StartUpload, LockDocument, TypeOK
  <2> QED BY <2>1, <2>2 DEF Locked, At, Of, Exists
<1>3. ASSUME NEW r \in Requests, FinishUpload(r) PROVE Locked'
  <2>1. /\ request'[r] = Idle /\ \A q \in Requests \ {r} : request'[q] = request[q]
        /\ status' = status
        /\ \A v \in Users \ {Of(r)} : versions'[v] = versions[v]
    BY <1>3 DEF FinishUpload, Done, TypeOK
  <2>2. ASSUME NEW q \in Requests, At(q, "uploading"), At(q, "uploading")'
        PROVE  Exists(Of(q))' /\ versions'[Of(q)] = versions[Of(q)]
    <3>1. q # r
      BY <2>1, <2>2 DEF At, Idle
    <3>2. Of(q) \in Users \ {Of(r)} /\ Exists(Of(q)) /\ Of(q)' = Of(q)
      BY <1>3, <2>1, <2>2, <3>1 DEF FinishUpload, Locked, At, Of
    <3> QED BY <2>1, <3>2 DEF Exists
  <2> QED BY <2>1, <2>2, LockedKept
<1>4. ASSUME NEW r \in Requests, FinishBuild(r) \/ Fail(r) PROVE Locked'
  <2>1. /\ request'[r] = Idle /\ \A q \in Requests \ {r} : request'[q] = request[q]
        /\ UNCHANGED <<status, versions>>
    BY <1>4 DEF FinishBuild, Fail, Done, TypeOK
  <2>2. \A q \in Requests : At(q, "uploading") /\ At(q, "uploading")' => Exists(Of(q))'
    BY <2>1 DEF Locked, At, Of, Exists, Idle
  <2> QED BY <2>1, <2>2, LockedKept
<1>5. CASE Purge
  <2>1. request' = request
    BY <1>5 DEF Purge
  <2>2. ASSUME NEW r \in Requests, At(r, "uploading")
        PROVE  Exists(Of(r))' /\ versions'[Of(r)] = versions[Of(r)]
    <3>1. Of(r) \in Users /\ Exists(Of(r)) /\ Of(r) \notin Expired
      BY <1>5, <2>2 DEF Purge, Locked, At
    <3>2. status'[Of(r)] = status[Of(r)] /\ rows'[Of(r)] = rows[Of(r)]
      BY <1>5, <3>1, PurgeEffect
    <3>3. versions'[Of(r)] = versions[Of(r)]
      BY <1>5, <3>1, <3>2 DEF Purge, Numbered
    <3> QED BY <2>1, <3>1, <3>2, <3>3 DEF Exists, Of
  <2> QED BY <2>1, <2>2, LockedKept
<1>6. ASSUME NEW u \in Users, Register(u) \/ Close(u) PROVE Locked'
  <2>1. /\ UNCHANGED <<request, versions>> /\ status'[u] \in {"open", "closed"}
        /\ \A v \in Users \ {u} : status'[v] = status[v]
    BY <1>6 DEF Register, Close, TypeOK
  <2>2. \A r \in Requests : At(r, "uploading") => Exists(Of(r))'
    BY <2>1 DEF Locked, At, Of, Exists
  <2> QED BY <2>1, <2>2, LockedKept
<1>7. CASE UNCHANGED <<request, versions, status>>
  BY <1>7 DEF Locked, At, Of, Exists
<1> QED
  BY <1>1, <1>2, <1>3, <1>4, <1>5, <1>6, <1>7
  DEF Next, Proceed, vars, RunMatching, Engage, Label, Deactivate, Train, Store, QueueMatching

LEMMA NumberedStep == TypeOK /\ RowsOwned /\ UploadInv /\ [Next]_vars => Numbered'
<1> SUFFICES ASSUME TypeOK, RowsOwned, Locked, Numbered, [Next]_vars PROVE Numbered'
  BY DEF UploadInv
<1>1. ASSUME versions' = versions, \A u \in Users : rows[u] \subseteq rows'[u] PROVE Numbered'
  BY <1>1 DEF Numbered
<1>2. ASSUME NEW r \in Requests, FinishUpload(r) PROVE Numbered'
  <2> DEFINE u == Of(r)
             n == request[r].number
  <2>1. u \in Users /\ n = Len(versions[u]) + 1 /\ n \in Nat
    BY <1>2 DEF FinishUpload, Locked, At, TypeOK, Under
  <2>2. /\ versions'[u] = Append(versions[u], n) /\ "cv_versions" \in rows'[u]
        /\ \A v \in Users \ {u} : versions'[v] = versions[v] /\ rows'[v] = rows[v]
    BY <1>2, <2>1 DEF FinishUpload, Hold, TypeOK
  <2>3. \A i \in DOMAIN versions'[u] : versions'[u][i] = i
    <3>1. versions[u] \in Seq(Nat)
      BY <2>1 DEF TypeOK
    <3>2. \A i \in 1..Len(versions[u]) : versions[u][i] = i
      BY <2>1, <3>1 DEF Numbered
    <3> QED BY <2>1, <2>2, <3>1, <3>2
  <2> QED BY <2>2, <2>3 DEF Numbered
<1>3. CASE Purge
  <2>1. ASSUME NEW u \in Users
        PROVE  /\ versions'[u] # <<>> => "cv_versions" \in rows'[u]
               /\ versions'[u] = versions[u] \/ versions'[u] = <<>>
    BY <1>3 DEF Purge
  <2> QED BY <2>1 DEF Numbered
<1>4. ASSUME NEW u \in Users, NEW T, Hold(u, T), versions' = versions PROVE Numbered'
  BY <1>1, <1>4, HoldGrows
<1>5. ASSUME NEW u \in Users, Register(u) \/ Engage(u) \/ Label(u) PROVE Numbered'
  BY <1>4, <1>5 DEF Register, Engage, Label
<1>6. ASSUME NEW u \in Users, RunMatching(u) PROVE Numbered'
  BY <1>1, <1>4, <1>6 DEF RunMatching
<1>7. ASSUME NEW u \in Users, NEW gained \in BOOLEAN, Train(u, gained) PROVE Numbered'
  BY <1>4, <1>7 DEF Train, Store
<1>8. ASSUME NEW r \in Requests, FinishBuild(r) PROVE Numbered'
  <2>1. Of(r) \in Users
    BY <1>8 DEF FinishBuild, Locked, At
  <2> QED BY <1>4, <1>8, <2>1 DEF FinishBuild
<1>9. CASE UNCHANGED <<versions, rows>>
  BY <1>9 DEF Numbered
<1> QED
  BY <1>2, <1>3, <1>5, <1>6, <1>7, <1>8, <1>9
  DEF Next, Proceed, vars, Ask, StartUpload, Fail, QueueMatching, Deactivate, Close

-----------------------------------------------------------------------------
(* The text of closed accounts *)

LEMMA TextInit == Init => TextGone
BY DEF Init, TextGone

LEMMA TextStep == TypeOK /\ Locked /\ TextGone /\ [Next]_vars => TextGone'
<1> SUFFICES ASSUME TypeOK, Locked, TextGone, [Next]_vars,
                    NEW u \in Users, status'[u] = "closed", ~overlap'[u]
             PROVE  /\ ~text'[u]
                    /\ \A r \in Requests : Of(r)' = u => ~At(r, "upload")' /\ ~At(r, "uploading")'
  BY DEF TextGone
<1> DEFINE Goal == /\ ~text'[u]
                   /\ \A r \in Requests : Of(r)' = u => ~At(r, "upload")' /\ ~At(r, "uploading")'
<1>1. ASSUME status[u] = "closed", ~overlap[u], ~text'[u] \/ text'[u] = text[u],
             \A r \in Requests : request'[r] = request[r] \/ request'[r] = Idle
      PROVE  Goal
  BY <1>1 DEF TextGone, At, Of, Idle
<1>2. ASSUME Close(u) PROVE Goal
  <2>1. /\ ~text'[u] /\ request' = request
        /\ \A r \in Requests : Of(r) = u => request[r].stage \notin {"upload", "uploading"}
    BY <1>2 DEF Close, BlankText, TypeOK
  <2> QED BY <2>1 DEF At, Of
<1>3. ASSUME NEW v \in Users, v # u, Close(v) PROVE Goal
  <2>1. status[u] = "closed" /\ ~overlap[u] /\ text'[u] = text[u] /\ request' = request
    BY <1>3 DEF Close, BlankText, TypeOK
  <2> QED BY <1>1, <2>1
<1>4. ASSUME NEW v \in Users, NEW r \in Requests, NEW stage \in {"upload", "build"}, Ask(r, v, stage)
      PROVE  Goal
  <2>1. /\ UNCHANGED <<status, overlap, text>> /\ status[v] = "open"
        /\ request'[r] = [user |-> v, stage |-> stage, number |-> 0]
        /\ \A q \in Requests \ {r} : request'[q] = request[q]
    BY <1>4 DEF Ask, TypeOK
  <2>2. v # u
    BY <2>1
  <2> QED BY <2>1, <2>2 DEF TextGone, At, Of
<1>5. ASSUME NEW r \in Requests, StartUpload(r) PROVE Goal
  <2>1. /\ UNCHANGED <<status, overlap, text>> /\ At(r, "upload")
        /\ request'[r] = [user |-> Of(r), stage |-> "uploading", number |-> Len(versions[Of(r)]) + 1]
        /\ \A q \in Requests \ {r} : request'[q] = request[q]
    BY <1>5 DEF StartUpload, LockDocument, TypeOK
  <2>2. Of(r) # u
    BY <2>1 DEF TextGone
  <2> QED BY <2>1, <2>2 DEF TextGone, At, Of
<1>6. ASSUME NEW r \in Requests, FinishUpload(r) PROVE Goal
  <2>1. /\ UNCHANGED <<status, overlap>> /\ At(r, "uploading") /\ Of(r) \in Users
        /\ request'[r] = Idle /\ \A q \in Requests \ {r} : request'[q] = request[q]
        /\ \A v \in Users \ {Of(r)} : text'[v] = text[v]
    BY <1>6 DEF FinishUpload, Done, Locked, At, TypeOK
  <2>2. Of(r) # u
    BY <2>1 DEF TextGone
  <2> QED BY <1>1, <2>1, <2>2
<1>7. ASSUME NEW r \in Requests, FinishBuild(r) \/ Fail(r) PROVE Goal
  BY <1>1, <1>7 DEF FinishBuild, Fail, Done, TypeOK
<1>8. CASE Purge
  <2>1. status[u] = "closed"
    BY <1>8 DEF Purge, DeleteExpired, TypeOK
  <2>2. UNCHANGED <<overlap, request>> /\ (~text'[u] \/ text'[u] = text[u])
    BY <1>8 DEF Purge, TypeOK
  <2> QED BY <1>1, <2>1, <2>2
<1>9. ASSUME NEW v \in Users, Register(v) PROVE Goal
  BY <1>1, <1>9 DEF Register, TypeOK
<1>10. CASE UNCHANGED <<status, overlap, text, request>>
  BY <1>1, <1>10
<1> QED
  BY <1>2, <1>3, <1>4, <1>5, <1>6, <1>7, <1>8, <1>9, <1>10
  DEF Next, Proceed, vars, RunMatching, Engage, Label, Deactivate, Train, Store, QueueMatching

-----------------------------------------------------------------------------
(* Theorems *)

IInv == TypeOK /\ KeptInv /\ UploadInv /\ TextGone

LEMMA Inductive == Spec => []IInv
<1>1. Init => IInv
  BY TypeInit, KeptInit, UploadInit, TextInit DEF IInv
<1>2. IInv /\ [Next]_vars => IInv'
  BY TypeStep, KeptStep, LockedStep, NumberedStep, TextStep DEF IInv, KeptInv, UploadInv
<1> QED BY <1>1, <1>2, PTL DEF Spec

\* Accounts, their rows and the requests under way have their types.
THEOREM TypeCorrect == Spec => []TypeOK
<1>1. IInv => TypeOK
  BY DEF IInv
<1> QED BY <1>1, Inductive, PTL

\* hard_delete_expired() and the foreign keys of db/models.py: of a purged account no row
\* and no text is left or comes back, and weights in force keep what they were earned with.
THEOREM NothingLeft == Spec => []NothingOutlives
<1>1. IInv => NothingOutlives
  BY DEF IInv, KeptInv, GoneEmpty, Earned, Exists, NothingOutlives
<1> QED BY <1>1, Inductive, PTL

\* request_deletion() destroys the text for good, unless an upload had passed its account
\* check when the account was closed.
THEOREM TextDestroyed == Spec => []TextStaysGone
<1>1. IInv => TextStaysGone
  BY DEF IInv, TextGone, TextStaysGone
<1> QED BY <1>1, Inductive, PTL

\* _insert_version() numbers by max + 1 and no constraint forbids a number twice: the lock
\* of the document's upsert does, however uploads overlap, fail or meet a purge.
THEOREM VersionsNumbered == Spec => []VersionsDistinct
<1>1. IInv => VersionsDistinct
  BY DEF IInv, UploadInv, Numbered, VersionsDistinct
<1> QED BY <1>1, Inductive, PTL
=============================================================================
