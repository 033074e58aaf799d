----------------------------- MODULE Discovery -----------------------------
(***************************************************************************)
(* Scheduled discovery and source health: enqueue_due_discoveries          *)
(* (workers/runner.py), the bookkeeping of IngestionService.run_source     *)
(* (services/ingestion.py), the board registry sync (services/sources.py)  *)
(* and the manual run of the admin API.                                    *)
(*                                                                         *)
(* The bookkeeping of a run belongs to the transaction of the task that    *)
(* runs it.  session_scope() rolls it back when the handler raises, and    *)
(* run_source raises after it has recorded a failure.                      *)
(*                                                                         *)
(* Time is kept relative: `idle` is now() - last_run_at in units of which  *)
(* an interval has Hour.  Of the queue, whose own behaviour is TaskQueue's,*)
(* a source's live discover tasks are kept: one per dedup key, of which    *)
(* "current" is discover:<id>:<this hour>, "older" that of the hour before *)
(* and "manual" the admin API's.                                           *)
(***************************************************************************)
EXTENDS Naturals

CONSTANTS
  Sources,
  Hour,         \* interval_minutes, and the period of the discover job
  MaxAttempts,  \* max_attempts of a discover task
  Threshold     \* CIRCUIT_BREAKER_FAILURES

ASSUME DiscoveryAssumption ==
  /\ Hour \in Nat \ {0}
  /\ MaxAttempts \in Nat \ {0}
  /\ Threshold \in Nat \ {0}

VARIABLES
  enabled, reason, failures, idle,   \* columns of job_sources
  task,      \* live discover tasks
  sinceJob   \* time since the discover job last fired

columns == <<enabled, reason, failures, idle>>
vars == <<columns, task, sinceJob>>

Never == Hour + 1   \* last_run_at IS NULL, and every age beyond the interval

Kinds == {"current", "older", "manual"}
NoTask == [stage |-> "none", attempts |-> 0, age |-> 0]
Fresh == [stage |-> "pending", attempts |-> 0, age |-> 0]

TypeOK ==
  /\ enabled \in [Sources -> BOOLEAN]
  /\ reason \in [Sources -> {"none", "removed", "breaker"}]
  /\ failures \in [Sources -> Nat]
  /\ idle \in [Sources -> 0..Never]
  /\ task \in [Sources -> [Kinds -> [stage : {"none", "pending", "running"},
                                      attempts : 0..MaxAttempts,
                                      age : 0..Never]]]
  /\ sinceJob \in 0..Hour

\* Boards are synced into an empty table before the worker is started.
Init ==
  /\ enabled = [s \in Sources |-> TRUE]
  /\ reason = [s \in Sources |-> "none"]
  /\ failures = [s \in Sources |-> 0]
  /\ idle = [s \in Sources |-> Never]
  /\ task = [s \in Sources |-> [k \in Kinds |-> NoTask]]
  /\ sinceJob = Hour

-----------------------------------------------------------------------------
(* Enqueueing *)

Live(s, k) == task[s][k].stage # "none"

\* last_run_at IS NULL OR last_run_at < now() - interval, strictly.
Due_ForgetsNew(s) == enabled[s] /\ idle[s] > Hour /\ idle[s] # Never
Due(s) == enabled[s] /\ idle[s] > Hour

\* The discover job: one task per due source, keyed by the current hour.
EnqueueDue ==
  /\ sinceJob = Hour
  /\ sinceJob' = 0
  /\ task' = [s \in Sources |->
                IF Due(s) /\ ~Live(s, "current")
                THEN [task[s] EXCEPT !["current"] = Fresh] ELSE task[s]]
  /\ UNCHANGED columns

\* POST /admin/sources/{id}/run: no look at `enabled`.
RunManually(s) ==
  /\ ~Live(s, "manual")
  /\ task' = [task EXCEPT ![s]["manual"] = Fresh]
  /\ UNCHANGED <<columns, sinceJob>>

-----------------------------------------------------------------------------
(* Running *)

\* The handler's transaction begins: now() is fixed here.
BeginRun(s, k) ==
  /\ task[s][k].stage = "pending"
  /\ task' = [task EXCEPT ![s][k] = [stage |-> "running", attempts |-> @.attempts + 1,
                                      age |-> 0]]
  /\ UNCHANGED <<columns, sinceJob>>

\* _finish_run: last_run_at = now(), the time the transaction began.
FinishRun(s, k) == [idle EXCEPT ![s] = task[s][k].age]

\* _finish_run and _record_success, committed with complete().
SucceedRun(s, k) ==
  /\ task[s][k].stage = "running"
  /\ idle' = FinishRun(s, k)
  /\ failures' = [failures EXCEPT ![s] = 0]
  /\ task' = [task EXCEPT ![s][k] = NoTask]
  /\ UNCHANGED <<enabled, reason, sinceJob>>

\* session_scope(): what a transaction that raised leaves behind.
AfterRaise(before, written) == before

\* fail() dead-letters a task whose attempts are used up.
Exhausted(r) == r.attempts >= MaxAttempts

\* _record_failure: count, and open the breaker; what of it lasts is AfterRaise's.
RecordFailure(s) ==
  LET count == failures[s] + 1
      opens == count >= Threshold
  IN
  /\ failures' = AfterRaise(failures, [failures EXCEPT ![s] = count])
  /\ enabled' = AfterRaise(enabled, [enabled EXCEPT ![s] = @ /\ ~opens])
  /\ reason' = AfterRaise(reason, [reason EXCEPT ![s] = IF opens THEN "breaker" ELSE @])

\* _finish_run, _record_failure and then `raise`; fail() retries or dead-letters.
FailRun(s, k) ==
  /\ task[s][k].stage = "running"
  /\ idle' = AfterRaise(idle, FinishRun(s, k))
  /\ RecordFailure(s)
  /\ task' = [task EXCEPT ![s][k] = IF Exhausted(@)
                                    THEN NoTask ELSE [@ EXCEPT !.stage = "pending"]]
  /\ UNCHANGED sinceJob

-----------------------------------------------------------------------------
(* The registry *)

\* `sources sync` of the reviewed config/boards/*.yaml, in which a source is listed
\* "on", listed "off" or "absent" (other boards stay listed, so prune runs; it
\* touches only rows that are still enabled).
Sync(new) ==
  /\ enabled' = [s \in Sources |-> new[s] = "on"]
  /\ reason' = [s \in Sources |-> CASE new[s] = "on" -> "none"
                                    [] new[s] = "absent" /\ enabled[s] -> "removed"
                                    [] OTHER -> reason[s]]
  /\ UNCHANGED <<failures, idle, task, sinceJob>>

-----------------------------------------------------------------------------
(* Time *)

Aged(r) ==
  IF r.stage = "running" /\ r.age < Never THEN [r EXCEPT !.age = @ + 1] ELSE r

\* When the hour turns, the current key becomes an older one.
Turned(tasks) ==
  [tasks EXCEPT !["older"] = tasks["current"], !["current"] = NoTask]

\* The interval trigger fires on time.  A task is settled within the hour after
\* the one it was enqueued in: its three retries take half an hour.
Tick ==
  /\ sinceJob < Hour
  /\ sinceJob' = sinceJob + 1
  /\ sinceJob' = Hour => \A s \in Sources : ~Live(s, "older")
  /\ idle' = [s \in Sources |-> IF idle[s] = Never THEN Never ELSE idle[s] + 1]
  /\ LET aged(s) == [k \in Kinds |-> Aged(task[s][k])]
     IN  task' = [s \in Sources |-> IF sinceJob' = Hour THEN Turned(aged(s)) ELSE aged(s)]
  /\ UNCHANGED <<enabled, reason, failures>>

-----------------------------------------------------------------------------
EndRun(s, k) == SucceedRun(s, k) \/ FailRun(s, k)

Next ==
  \/ EnqueueDue
  \/ \E s \in Sources : RunManually(s)
  \/ \E s \in Sources, k \in Kinds : BeginRun(s, k) \/ EndRun(s, k)
  \/ \E new \in [Sources -> {"on", "off", "absent"}] : Sync(new)
  \/ Tick

Fairness ==
  /\ WF_vars(Tick)
  /\ WF_vars(EnqueueDue)
  /\ \A s \in Sources, k \in Kinds : WF_vars(BeginRun(s, k)) /\ WF_vars(EndRun(s, k))

Spec == Init /\ [][Next]_vars /\ Fairness

-----------------------------------------------------------------------------
(* Properties *)

\* A source the API lists as enabled carries no reason for being disabled, across
\* syncs, prunes and the circuit breaker, which write the two columns apart.
EnabledHasNoReason == \A s \in Sources : enabled[s] => reason[s] = "none"

\* An enabled source keeps being run, also when all its runs fail and when it is
\* new: at any time a run begins later, or the source is disabled.
KeepsRunning ==
  \A s \in Sources :
    []<>(~enabled[s] \/ \E k \in Kinds : task[s][k].stage = "running")

=============================================================================
