----------------------------- MODULE Engagement -----------------------------
(***************************************************************************)
(* Applications and their status (services/engagement.py), as requests of  *)
(* one user to api/v1/applications.py make them; nothing is shared between *)
(* users.  Each request is a transaction of READ COMMITTED isolation, and  *)
(* several may be under way: two browser tabs, a retried call.             *)
(*                                                                         *)
(* A request begins its transaction with the look at the account in        *)
(* api/deps.py.  record_application() reads the posting's group, then looks*)
(* for an application to the posting or its group, then upserts.  advance()*)
(* reads the status, then updates it by id.  What a request writes becomes *)
(* visible when it commits; a second writer of the same row waits for that,*)
(* so that writing and committing are one step here.                       *)
(*                                                                         *)
(* Both insert a row into application_events, whose occurred_at is now():  *)
(* the begin of the transaction.  application_history() sorts by it, and   *)
(* that need not be the order in which the requests committed.             *)
(*                                                                         *)
(* Module JobGroups says how groups come about.  Here Regroup lets them    *)
(* change in any way.                                                      *)
(***************************************************************************)
EXTENDS Naturals, FiniteSets

CONSTANTS
  Postings,
  Groups,
  Requests,    \* requests that may be under way together
  MaxCvs,      \* bound: CV versions uploaded
  MaxRequests  \* bound: requests made

ASSUME EngagementAssumption ==
  /\ IsFiniteSet(Postings)
  /\ MaxCvs \in Nat \ {0}
  /\ MaxRequests \in Nat \ {0}

Statuses == {"applied", "screening", "interviewing", "offer", "rejected", "withdrawn",
             "no_response"}

\* ALLOWED_TRANSITIONS
Allowed ==
  [s \in Statuses |->
     CASE s = "applied" -> {"screening", "interviewing", "rejected", "withdrawn", "no_response"}
       [] s = "screening" -> {"interviewing", "rejected", "withdrawn", "no_response"}
       [] s = "interviewing" -> {"offer", "rejected", "withdrawn", "no_response"}
       [] s = "offer" -> {"rejected", "withdrawn"}
       [] s = "no_response" -> {"screening", "interviewing", "rejected"}
       [] OTHER -> {}]

None == "none"

Times == 1..MaxRequests

\* What a request under way knows; `at` is when its transaction began.  `near` and
\* `shifted` are history: the applications to the same posting or group when it read the
\* posting, and whether groups changed since.
Opened == [kind : {"opened"}, at : Times]
Recording == [kind : {"checking", "recording"}, at : Times, posting : Postings, force : BOOLEAN,
              group : Groups \cup {None}, near : SUBSET Postings, shifted : BOOLEAN]
Advancing == [kind : {"advancing"}, at : Times, posting : Postings, from : Statuses, to : Statuses]
Idle == [kind |-> "idle"]
Underways == Opened \cup Recording \cup Advancing \cup {Idle}

\* A row of application_events: `at` orders as occurred_at does.  `until` is history:
\* the last request that had begun when the row was committed.
Event == [from : Statuses \cup {None}, to : Statuses, at : Times, until : Times]

VARIABLES
  group,    \* job_postings.job_group_id
  cvs,      \* CV versions uploaded so far
  status,   \* applications.status
  cv,       \* applications.cv_version_id, 0 without an application
  log,      \* application_events rows
  req,      \* the request in each slot
  requests, \* requests begun
  forced,   \* history: postings whose application was first recorded with force
  excused   \* history: pairs of postings that no request could know to be one job

vars == <<group, cvs, status, cv, log, req, requests, forced, excused>>

Applied == {p \in Postings : status[p] # None}
Pairs == {P \in SUBSET Postings : Cardinality(P) = 2}
Together(g, P) == \A p, q \in P : g[p] = g[q] /\ g[p] # None

TypeOK ==
  /\ group \in [Postings -> Groups \cup {None}]
  /\ cvs \in 0..MaxCvs
  /\ status \in [Postings -> Statuses \cup {None}]
  /\ cv \in [Postings -> 0..cvs]
  /\ \A p \in Postings : cv[p] = 0 <=> p \notin Applied
  /\ log \in [Postings -> SUBSET Event]
  /\ req \in [Requests -> Underways]
  /\ requests \in 0..MaxRequests
  /\ forced \subseteq Applied
  /\ excused \subseteq Pairs

Init ==
  /\ group \in [Postings -> Groups \cup {None}]
  /\ cvs = 0
  /\ status = [p \in Postings |-> None]
  /\ cv = [p \in Postings |-> 0]
  /\ log = [p \in Postings |-> {}]
  /\ req = [r \in Requests |-> Idle]
  /\ requests = 0
  /\ forced = {}
  /\ excused = {}

\* current_user: the first statement of the request's transaction.
Open(r) ==
  /\ req[r] = Idle
  /\ requests < MaxRequests
  /\ requests' = requests + 1
  /\ req' = [req EXCEPT ![r] = [kind |-> "opened", at |-> requests + 1]]
  /\ UNCHANGED <<group, cvs, status, cv, log, forced, excused>>

-----------------------------------------------------------------------------
(* record_application *)

\* Applications to the posting, or to any posting in its group.
Existing_SamePosting(p, g) == {p} \cap Applied
Existing(p, g) == {q \in Applied : q = p \/ (g # None /\ group[q] = g)}

\* _require_posting
BeginRecord(r, p, f) ==
  /\ req[r].kind = "opened"
  /\ req' = [req EXCEPT ![r] =
       [kind |-> "checking", at |-> @.at, posting |-> p, force |-> f, group |-> group[p],
        near |-> {q \in Applied : q = p \/ Together(group, {p, q})}, shifted |-> FALSE]]
  /\ UNCHANGED <<group, cvs, status, cv, log, requests, forced, excused>>

\* _existing_application, and the refusals.
Check(r) ==
  /\ req[r].kind = "checking"
  /\ IF (Existing(req[r].posting, req[r].group) # {} /\ ~req[r].force) \/ cvs = 0
     THEN req' = [req EXCEPT ![r] = Idle]
     ELSE req' = [req EXCEPT ![r].kind = "recording"]
  /\ UNCHANGED <<group, cvs, status, cv, log, requests, forced, excused>>

\* ON CONFLICT (user_id, posting_id) DO UPDATE SET applied_at = now()
Upserted_NewSnapshot(p, v) ==
  /\ status' = [status EXCEPT ![p] = IF @ = None THEN "applied" ELSE @]
  /\ cv' = [cv EXCEPT ![p] = v]
Upserted_StartsOver(p, v) ==
  /\ status' = [status EXCEPT ![p] = "applied"]
  /\ cv' = [cv EXCEPT ![p] = IF @ = 0 THEN v ELSE @]
Upserted(p, v) ==
  /\ status' = [status EXCEPT ![p] = IF @ = None THEN "applied" ELSE @]
  /\ cv' = [cv EXCEPT ![p] = IF @ = 0 THEN v ELSE @]

\* The insert into application_events.
Logged(p, from, to, at) ==
  log' = [log EXCEPT ![p] = @ \cup {[from |-> from, to |-> to, at |-> at, until |-> requests]}]

\* The rest of record_application, and the commit: an explicit CV version or the
\* latest one.
Record(r) ==
  LET p == req[r].posting
      new == p \notin Applied
  IN
  /\ req[r].kind = "recording"
  /\ \E v \in 1..cvs : Upserted(p, v)
  /\ Logged(p, None, "applied", req[r].at)
  /\ forced' = IF new /\ req[r].force THEN forced \cup {p} ELSE forced
  /\ excused' = IF new
                THEN excused \cup {{p, q} : q \in {a \in Applied : req[r].shifted \/ a \notin req[r].near}}
                ELSE excused
  /\ req' = [req EXCEPT ![r] = Idle]
  /\ UNCHANGED <<group, cvs, requests>>

-----------------------------------------------------------------------------
(* advance *)

\* The read, and the returns that change nothing.
BeginAdvance(r, p, s) ==
  /\ req[r].kind = "opened"
  /\ p \in Applied
  /\ IF s \in Allowed[status[p]]
     THEN req' = [req EXCEPT ![r] =
            [kind |-> "advancing", at |-> @.at, posting |-> p, from |-> status[p], to |-> s]]
     ELSE req' = [req EXCEPT ![r] = Idle]
  /\ UNCHANGED <<group, cvs, status, cv, log, requests, forced, excused>>

\* UPDATE applications SET status = :status WHERE id = :id
Moved(a) == status' = [status EXCEPT ![a.posting] = a.to]

Advance(r) ==
  /\ req[r].kind = "advancing"
  /\ Moved(req[r])
  /\ Logged(req[r].posting, req[r].from, req[r].to, req[r].at)
  /\ req' = [req EXCEPT ![r] = Idle]
  /\ UNCHANGED <<group, cvs, cv, requests, forced, excused>>

-----------------------------------------------------------------------------
(* The rest *)

\* The request fails, or its client or process dies: nothing is committed.
Fail(r) ==
  /\ req[r] # Idle
  /\ req' = [req EXCEPT ![r] = Idle]
  /\ UNCHANGED <<group, cvs, status, cv, log, requests, forced, excused>>

UploadCv ==
  /\ cvs < MaxCvs
  /\ cvs' = cvs + 1
  /\ UNCHANGED <<group, status, cv, log, req, requests, forced, excused>>

\* Deduplication commits, or the groups are rebuilt.
Regroup(g) ==
  /\ g # group
  /\ group' = g
  /\ excused' = excused \cup {P \in Pairs : Together(g, P) /\ ~Together(group, P)}
  /\ req' = [r \in Requests |->
       IF req[r].kind \in {"checking", "recording"} THEN [req[r] EXCEPT !.shifted = TRUE]
       ELSE req[r]]
  /\ UNCHANGED <<cvs, status, cv, log, requests, forced>>

Next ==
  \/ \E r \in Requests, p \in Postings, f \in BOOLEAN : BeginRecord(r, p, f)
  \/ \E r \in Requests, p \in Postings, s \in Statuses : BeginAdvance(r, p, s)
  \/ \E r \in Requests : Open(r) \/ Check(r) \/ Record(r) \/ Advance(r) \/ Fail(r)
  \/ UploadCv
  \/ \E g \in [Postings -> Groups \cup {None}] : Regroup(g)

Spec == Init /\ [][Next]_vars

-----------------------------------------------------------------------------
(* Properties *)

Moves(rows) == {e \in rows : e.from # None}

\* The request of another row overlapped that of e.
Contested(rows, e) == \E f \in rows \ {e} : f.at <= e.until /\ e.at <= f.until

\* The rows before time n, in the order of application_history(), say that the status
\* is s: the last transition led to it, or there is none and an application.
Tell(rows, n, s) ==
  LET moves == {e \in Moves(rows) : e.at < n}
  IN IF moves = {}
     THEN s = IF \E e \in rows : e.at < n THEN "applied" ELSE None
     ELSE \A e \in moves :
            (\A f \in moves : f.at <= e.at) /\ ~Contested(rows, e) => s = e.to

\* "Every transition writes an event row" (advance_application): the history, in the
\* order in which it is shown, accounts for the status of every application, and for the
\* status that each of its transitions started from, unless the transition concerned was
\* made by a request that overlapped another one to the same application.
HistoryTells ==
  \A p \in Postings :
    /\ Tell(log[p], requests + 1, status[p])
    /\ \A e \in Moves(log[p]) : ~Contested(log[p], e) => Tell(log[p], e.at, e.from)

\* Applying again, by force or by a race, does not throw an application that has moved
\* on back to "applied", and does not replace the CV version it was recorded with.
RecordKept ==
  [][\A p \in Applied : /\ status[p] # "applied" => status'[p] # "applied"
                        /\ cv'[p] = cv[p]]_vars

\* The duplicate guard: two applications in one group, neither of them forced, were
\* recorded when no committed state told them to be one job, or while that changed.
DuplicatesExcused ==
  \A P \in Pairs : P \subseteq Applied \ forced /\ Together(group, P) => P \in excused

=============================================================================
