------------------------------- MODULE Digest -------------------------------
(***************************************************************************)
(* The daily digest of one user (services/digest.py, the digest task of    *)
(* workers/tasks/matching.py), with the consent and the deletion of the    *)
(* account that overlap it (api/v1/account.py, services/account.py).       *)
(*                                                                         *)
(* A planner queues one task a day for a user who is due.  A run of the    *)
(* task checks consent, composes, hands the message to the sender, records *)
(* what it sent, commits.  The sender cannot be rolled back; the record    *)
(* can.  Tasks of two days, and a task taken back from a slow consumer,    *)
(* may run together.                                                       *)
(*                                                                         *)
(* A message lists match rows.  A user has one per profile version and     *)
(* model version for the same posting, and all of them may be listed; the  *)
(* log of what was sent is by posting.                                     *)
(***************************************************************************)
EXTENDS Naturals, FiniteSets

CONSTANTS
  Postings,
  Matches,    \* the user's match rows, by total_score: a larger one ranks higher
  PostingOf,  \* matches.posting_id
  Phrased,    \* match rows whose item breaks the presentation rules
  Consumers,
  MaxItems,   \* MAX_ITEMS
  MaxWaiting, \* bound: tasks of the user that wait
  MaxFaults   \* bound: runs cut short, tasks taken back

ASSUME DigestAssumption ==
  /\ Matches \subseteq Nat /\ IsFiniteSet(Matches)
  /\ PostingOf \in [Matches -> Postings]
  /\ Phrased \subseteq Matches
  /\ {MaxItems, MaxWaiting} \subseteq Nat \ {0}
  /\ MaxFaults \in Nat

VARIABLES
  closed,   \* users.deleted_at is set
  consent,  \* an unrevoked consent for 'digest'
  granting, \* a request that grants it has passed the account check
  listed,   \* match rows above the threshold, of open, live postings
  sends,    \* digest_sends
  recent,   \* planners, today's included, that still find a send of the last 20 hours
  planned,  \* today's planner has run
  waiting,  \* tasks of the user that wait
  run,      \* the run of each consumer
  faults,
  mailed,   \* history: postings delivered
  again,    \* history: postings delivered in more than one message
  raced,    \* history: postings composed by two runs at once
  lost      \* history: postings delivered by a run that could not commit

user == <<closed, consent, granting>>
history == <<mailed, again, raced, lost>>
vars == <<user, listed, sends, recent, planned, waiting, run, faults, history>>

\* `barred`: the user has been without consent or account ever since the run began.
Idle == [phase |-> "idle", items |-> {}, barred |-> FALSE]
Phases == {"idle", "checked", "composed", "delivered"}

\* The postings that some match rows are about.
About(items) == {PostingOf[m] : m \in items}

Shapes ==
  /\ {closed, consent, granting, planned} \subseteq BOOLEAN
  /\ listed \subseteq Matches /\ sends \subseteq Postings
  /\ recent \in 0..2
  /\ waiting \in 0..MaxWaiting
  /\ run \in [Consumers -> [phase : Phases, items : SUBSET Matches, barred : BOOLEAN]]
  /\ faults \in 0..MaxFaults
  /\ {mailed, again, raced, lost} \subseteq SUBSET Postings

TypeOK == Shapes /\ \A t \in Consumers : Cardinality(run[t].items) <= MaxItems

Init ==
  /\ closed = FALSE /\ consent \in BOOLEAN /\ granting = FALSE
  /\ listed = {} /\ sends = {}
  /\ recent = 0 /\ planned = FALSE
  /\ waiting = 0
  /\ run = [t \in Consumers |-> Idle]
  /\ faults = 0
  /\ mailed = {} /\ again = {} /\ raced = {} /\ lost = {}

-----------------------------------------------------------------------------
(* The user, the matches, the clock *)

\* PATCH /me/consents: the account check, and later the insert.
BeginGrant ==
  /\ ~closed /\ ~granting
  /\ granting' = TRUE
  /\ UNCHANGED <<closed, consent, listed, sends, recent, planned, waiting, run, faults, history>>

Grant ==
  /\ granting
  /\ granting' = FALSE
  /\ consent' = TRUE
  /\ run' = [t \in Consumers |-> [run[t] EXCEPT !.barred = @ /\ closed]]
  /\ UNCHANGED <<closed, listed, sends, recent, planned, waiting, faults, history>>

Revoke ==
  /\ ~closed
  /\ consent' = FALSE
  /\ UNCHANGED <<closed, granting, listed, sends, recent, planned, waiting, run, faults, history>>

\* request_deletion
RequestDeletion ==
  /\ ~closed
  /\ closed' = TRUE
  /\ consent' = FALSE
  /\ UNCHANGED <<granting, listed, sends, recent, planned, waiting, run, faults, history>>

\* Matching, verification and discovery change what there is to send: a row of a new
\* profile version, too, which leaves the rows of the earlier one as they are.
Match(S) ==
  /\ listed' = S
  /\ UNCHANGED <<user, sends, recent, planned, waiting, run, faults, history>>

NewDay ==
  /\ planned
  /\ planned' = FALSE
  /\ recent' = IF recent = 0 THEN 0 ELSE recent - 1
  /\ UNCHANGED <<user, listed, sends, waiting, run, faults, history>>

-----------------------------------------------------------------------------
(* The task *)

\* due_users
Due == ~closed /\ consent /\ recent = 0

\* run_digest without a payload.  The dedup_key holds the date.
Plan ==
  /\ ~planned
  /\ Due => waiting < MaxWaiting
  /\ planned' = TRUE
  /\ waiting' = IF Due THEN waiting + 1 ELSE waiting
  /\ UNCHANGED <<user, listed, sends, recent, run, faults, history>>

\* _has_digest_consent
HasConsent_Unchecked == TRUE
HasConsent == consent

\* send(): a consumer takes the task, and the consent check.
Start(t) ==
  /\ run[t] = Idle
  /\ waiting > 0
  /\ waiting' = waiting - 1
  /\ run' = IF HasConsent
            THEN [run EXCEPT ![t] = [phase |-> "checked", items |-> {}, barred |-> closed \/ ~consent]]
            ELSE run
  /\ UNCHANGED <<user, listed, sends, recent, planned, faults, history>>

\* ORDER BY m.total_score DESC LIMIT :limit
Top(S) == {m \in S : Cardinality({n \in S : n > m}) < MaxItems}

\* The rows of postings that the log does not have: no DISTINCT, so that a posting may
\* have several.
Unsent_AnyListed == listed
Unsent == {m \in listed : PostingOf[m] \notin sends}

Composable_Anyone == TRUE
Composable == ~closed

\* violates_presentation_rules(), of the text of a message.
Refused_AnyUnsent(items) == Unsent \cap Phrased # {}
Refused(items) == items \cap Phrased # {}

\* Retried, or dead after its last attempt.
Retried ==
  \/ waiting' = waiting
  \/ waiting < MaxWaiting /\ waiting' = waiting + 1

\* compose() raises for a closed account, finds nothing, finds a text that may not be
\* sent, or has a message.
Compose(t) ==
  LET items == Top(Unsent)
      rivals == UNION {About(run[u].items) : u \in Consumers \ {t}}
  IN
  /\ run[t].phase = "checked"
  /\ IF ~Composable
     THEN /\ run' = [run EXCEPT ![t] = Idle]
          /\ Retried
          /\ UNCHANGED raced
     ELSE IF items = {} \/ Refused(items)
     THEN /\ run' = [run EXCEPT ![t] = Idle]
          /\ UNCHANGED <<waiting, raced>>
     ELSE /\ run' = [run EXCEPT ![t].phase = "composed", ![t].items = items]
          /\ raced' = raced \cup (About(items) \cap rivals)
          /\ UNCHANGED waiting
  /\ UNCHANGED <<user, listed, sends, recent, planned, faults, mailed, again, lost>>

\* sender.send()
Deliver(t) ==
  /\ run[t].phase = "composed"
  /\ run' = [run EXCEPT ![t].phase = "delivered"]
  /\ mailed' = mailed \cup About(run[t].items)
  /\ again' = again \cup (About(run[t].items) \cap mailed)
  /\ UNCHANGED <<user, listed, sends, recent, planned, waiting, faults, raced, lost>>

\* _record: ON CONFLICT (user_id, posting_id) DO NOTHING
Recorded(items) == sends \cup About(items)

\* _record, and the commit.  A send more than four hours after 07:00 is still recent for
\* the next planner.
Commit(t) ==
  /\ run[t].phase = "delivered"
  /\ sends' = Recorded(run[t].items)
  /\ recent' \in IF About(run[t].items) \subseteq sends THEN {recent} ELSE {1, 2}
  /\ run' = [run EXCEPT ![t] = Idle]
  /\ UNCHANGED <<user, listed, planned, waiting, faults, history>>

\* The run raises or its process dies: what it wrote is rolled back.
Abort(t) ==
  /\ run[t] # Idle
  /\ faults < MaxFaults
  /\ faults' = faults + 1
  /\ Retried
  /\ lost' = IF run[t].phase = "delivered" THEN lost \cup About(run[t].items) ELSE lost
  /\ run' = [run EXCEPT ![t] = Idle]
  /\ UNCHANGED <<user, listed, sends, recent, planned, mailed, again, raced>>

\* The reaper takes the task back from a run that goes on.
TakeBack(t) ==
  /\ run[t] # Idle
  /\ faults < MaxFaults /\ waiting < MaxWaiting
  /\ faults' = faults + 1
  /\ waiting' = waiting + 1
  /\ UNCHANGED <<user, listed, sends, recent, planned, run, history>>

Next ==
  \/ BeginGrant \/ Grant \/ Revoke \/ RequestDeletion
  \/ \E S \in SUBSET Matches : Match(S)
  \/ NewDay \/ Plan
  \/ \E t \in Consumers :
       Start(t) \/ Compose(t) \/ Deliver(t) \/ Commit(t) \/ Abort(t) \/ TakeBack(t)

\* Days pass, the planner runs every day, and a consumer goes on with its run.
Fairness ==
  /\ WF_vars(NewDay) /\ WF_vars(Plan)
  /\ \A t \in Consumers :
       WF_vars(Start(t)) /\ WF_vars(Compose(t)) /\ WF_vars(Deliver(t)) /\ WF_vars(Commit(t))

Spec == Init /\ [][Next]_vars /\ Fairness

-----------------------------------------------------------------------------
(* Properties *)

\* The unique send log "is what makes "new" mean new": a posting is in two messages only
\* when two runs composed it at once, or when a run that had delivered it could not commit
\* its record, however many match rows it has and whichever of them were sent.  (Within
\* one message it may be listed once for each of its rows.)
NewMeansNew == again \subseteq raced \cup lost

\* Nothing is delivered to a user who has been without consent, or whose account has been
\* closed, since before the run began: not by a task queued earlier, and not
\* through a grant that overlapped the deletion.
StoppedMeansStopped ==
  \A t \in Consumers : run[t].phase = "delivered" => ~run[t].barred

\* A user who is due and has something new at the top is sent it, or it goes: neither
\* lost runs nor an earlier digest keep it back for ever.  Top items that break the
\* presentation rules do keep back everything below them.
HasNews ==
  /\ ~closed /\ consent /\ recent = 0
  /\ Unsent # {} /\ Top(Unsent) \cap Phrased = {}
DigestComes == HasNews ~> ~HasNews

=============================================================================
