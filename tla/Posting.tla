------------------------------ MODULE Posting ------------------------------
(***************************************************************************)
(* The life of one row of job_postings: the upsert of discovery            *)
(* (services/ingestion.py), the detail fetch of two-phase sources and the  *)
(* daily expiry (workers/tasks/discover.py), the verification of its       *)
(* apply URL (services/verification.py) and its embedding                  *)
(* (services/embedding.py).  No two rows touch each other here.            *)
(*                                                                         *)
(* Each of the tasks reads something, from the table or the network,       *)
(* before the update it commits, and none of the updates looks at the row  *)
(* again; the other tasks and the employer may act in between.             *)
(*                                                                         *)
(* The employer is outside of the program: what the board lists, under     *)
(* which URL, with which body, and how that page answers.                  *)
(***************************************************************************)
EXTENDS Naturals

CONSTANTS
  Urls,       \* apply URLs the employer uses for the posting
  Bodies,     \* versions of its description
  NoBody,     \* description_text = ''
  NoUrl,
  Reverify,   \* verification.reverify_after_hours
  Suppress    \* verification.suppress_after_hours

ASSUME PostingAssumption ==
  /\ NoBody \notin Bodies
  /\ NoUrl \notin Urls
  /\ Reverify \in Nat
  /\ Suppress \in Nat
  /\ Reverify <= Suppress

VARIABLES
  \* the employer's board and site
  twoPhase,     \* the list response carries no body (supports_details)
  listed, boardUrl, boardBody, page,
  \* the row
  status,       \* "absent" before the first upsert
  body, hash,   \* hash: the body that content_simhash was computed of
  url, urlStatus, age, \* age: hours since last_verified_at
  vector,       \* the body that job_embeddings.embedding was computed of
  \* what a task has read and not yet written
  fetched,      \* discover: the listing <<url, body>> it fetched
  detail,       \* fetch_details: the body it fetched
  probing,      \* verify_urls: the URL it selected and probes
  encoding      \* embed: the body it selected

employer == <<twoPhase, listed, boardUrl, boardBody, page>>
content == <<body, hash, url>>
check == <<urlStatus, age>>
vars == <<employer, status, content, check, vector, fetched, detail, probing, encoding>>

Never == Suppress + 1   \* last_verified_at IS NULL, or further back than any window
NoListing == <<NoUrl, NoBody>>
NoVector == "none"
Outcomes == {"live", "redirected", "gone", "blocked", "unknown"}

TypeOK ==
  /\ twoPhase \in BOOLEAN /\ listed \in BOOLEAN
  /\ boardUrl \in Urls /\ boardBody \in Bodies
  /\ page \in [Urls -> Outcomes \ {"unknown"}]
  /\ status \in {"absent", "open", "expired"}
  /\ body \in Bodies \cup {NoBody} /\ hash \in Bodies \cup {NoBody}
  /\ url \in Urls \cup {NoUrl}
  /\ urlStatus \in Outcomes /\ age \in 0..Never
  /\ vector \in Bodies \cup {NoBody, NoVector}
  /\ fetched \in ((Urls \X (Bodies \cup {NoBody})) \cup {NoListing})
  /\ detail \in Bodies \cup {NoBody}
  /\ probing \in Urls \cup {NoUrl}
  /\ encoding \in Bodies \cup {NoBody, NoVector}

Init ==
  /\ twoPhase \in BOOLEAN
  /\ listed = TRUE /\ boardUrl \in Urls /\ boardBody \in Bodies
  /\ page = [u \in Urls |-> "live"]
  /\ status = "absent"
  /\ body = NoBody /\ hash = NoBody /\ url = NoUrl
  /\ urlStatus = "unknown" /\ age = Never
  /\ vector = NoVector
  /\ fetched = NoListing /\ detail = NoBody /\ probing = NoUrl /\ encoding = NoVector

-----------------------------------------------------------------------------
(* discover *)

FetchList ==
  /\ fetched = NoListing
  /\ listed
  /\ fetched' = <<boardUrl, IF twoPhase THEN NoBody ELSE boardBody>>
  /\ UNCHANGED <<employer, status, content, check, vector, detail, probing, encoding>>

\* "Never blank a body we already have."
KeptBody_Blanks(new) == new
KeptBody(new) == IF new = NoBody THEN body ELSE new

\* INSERT ... ON CONFLICT (source_id, external_id) DO UPDATE
Upsert ==
  /\ fetched # NoListing
  /\ url' = fetched[1]
  /\ body' = KeptBody(fetched[2])
  /\ hash' = fetched[2]
  /\ status' = "open"
  /\ fetched' = NoListing
  /\ UNCHANGED <<employer, check, vector, detail, probing, encoding>>

-----------------------------------------------------------------------------
(* fetch_details *)

\* _queue_detail_fetches: open postings that still lack a body.
NeedsDetail_WhenExpired == status = "expired" /\ body = NoBody
NeedsDetail == status = "open" /\ body = NoBody

FetchDetail ==
  /\ twoPhase
  /\ NeedsDetail
  /\ detail = NoBody
  /\ listed
  /\ detail' = boardBody
  /\ UNCHANGED <<employer, status, content, check, vector, fetched, probing, encoding>>

FillBody ==
  /\ detail # NoBody
  /\ body' = detail
  /\ hash' = detail
  /\ detail' = NoBody
  /\ UNCHANGED <<employer, status, url, check, vector, fetched, probing, encoding>>

-----------------------------------------------------------------------------
(* verify_urls and expire_postings *)

Due == status = "open" /\ age > Reverify

SelectForProbe ==
  /\ probing = NoUrl
  /\ Due
  /\ probing' = url
  /\ UNCHANGED <<employer, status, content, check, vector, fetched, detail, encoding>>

\* last_verified_at = now(), for every outcome
CheckedAt_OnlyLive(outcome) == IF outcome = "live" THEN 0 ELSE age
CheckedAt(outcome) == 0

Closed(outcome) == IF outcome = "gone" THEN "expired" ELSE status

\* _persist of what the page answered, or of a throttled or unreachable host.
PersistOutcome(outcome) ==
  /\ probing # NoUrl
  /\ outcome \in {page[probing], "unknown"}
  /\ urlStatus' = outcome
  /\ age' = CheckedAt(outcome)
  /\ status' = Closed(outcome)
  /\ probing' = NoUrl
  /\ UNCHANGED <<employer, content, vector, fetched, detail, encoding>>

\* No adapter sets expires_at, so a gone URL is what closes a posting.
Expires_Never == FALSE
Expires == status = "open" /\ urlStatus = "gone"

ExpirePostings ==
  /\ Expires
  /\ status' = "expired"
  /\ UNCHANGED <<employer, content, check, vector, fetched, detail, probing, encoding>>

-----------------------------------------------------------------------------
(* embed *)

SelectForEmbedding ==
  /\ encoding = NoVector
  /\ status = "open" /\ vector = NoVector
  /\ encoding' = body
  /\ UNCHANGED <<employer, status, content, check, vector, fetched, detail, probing>>

StoreEmbedding ==
  /\ encoding # NoVector
  /\ vector' = encoding
  /\ encoding' = NoVector
  /\ UNCHANGED <<employer, status, content, check, fetched, detail, probing>>

-----------------------------------------------------------------------------
(* The employer and time *)

Announce(l, u, b) ==
  /\ <<l, u, b>> # <<listed, boardUrl, boardBody>>
  /\ listed' = l /\ boardUrl' = u /\ boardBody' = b
  /\ UNCHANGED <<twoPhase, page, status, content, check, vector, fetched, detail,
                 probing, encoding>>

Serve(u, s) ==
  /\ page[u] # s
  /\ page' = [page EXCEPT ![u] = s]
  /\ UNCHANGED <<twoPhase, listed, boardUrl, boardBody, status, content, check, vector,
                 fetched, detail, probing, encoding>>

Tick ==
  /\ age < Never
  /\ age' = age + 1
  /\ UNCHANGED <<employer, status, content, urlStatus, vector, fetched, detail,
                 probing, encoding>>

Probe == \E outcome \in Outcomes : PersistOutcome(outcome)

Next ==
  \/ FetchList \/ Upsert
  \/ FetchDetail \/ FillBody
  \/ SelectForProbe \/ Probe \/ ExpirePostings
  \/ SelectForEmbedding \/ StoreEmbedding
  \/ \E l \in BOOLEAN, u \in Urls, b \in Bodies : Announce(l, u, b)
  \/ \E u \in Urls, s \in {"live", "gone"} : Serve(u, s)
  \/ Tick

\* The tasks run on a schedule: discovery and verification hourly, expiry daily.
Fairness ==
  /\ WF_vars(FetchList) /\ WF_vars(Upsert)
  /\ WF_vars(FetchDetail) /\ WF_vars(FillBody)
  /\ WF_vars(SelectForProbe) /\ WF_vars(Probe) /\ WF_vars(ExpirePostings)

Spec == Init /\ [][Next]_vars /\ Fairness

-----------------------------------------------------------------------------
(* Properties *)

\* "A list-only row from a two-phase source must not erase a fetched description"
\* (_upsert_posting), whatever was fetched or listed before.
BodyNeverErased == [][body # NoBody => body' # NoBody]_vars

\* An open posting is checked again and again: it never stays unverified beyond
\* reverify_after_hours for good, whatever its probes answer.
KeepsBeingChecked == []<>(status = "open" => age <= Reverify)

\* A posting that is open although its URL is gone does not stay so.
GoneSettles == []<>~(status = "open" /\ urlStatus = "gone")

\* A listing without a body gets one, unless the employer withdraws the posting.
DetailsArrive == []<>(body # NoBody \/ status # "open" \/ ~listed)

=============================================================================
