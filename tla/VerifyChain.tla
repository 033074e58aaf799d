---------------------------- MODULE VerifyChain ----------------------------
(***************************************************************************)
(* Verification as a chain of tasks: the hourly trigger (workers/          *)
(* runner.py), the verify_urls handler that enqueues its own successor     *)
(* (workers/tasks/matching.py) and the batch it verifies                   *)
(* (services/verification.py).                                             *)
(*                                                                         *)
(* The batch is selected oldest check first and committed one posting at a *)
(* time; the successor is enqueued in the handler's last transaction,      *)
(* which complete() shares.  The trigger's task carries the dedup key      *)
(* "verify_urls", the successors carry none.  Consumers, locks and backoff *)
(* are TaskQueue's; here a task is pending, running or settled, and a      *)
(* handler that raises or dies leaves it pending until its attempts are    *)
(* used up.                                                                *)
(*                                                                         *)
(* Time is the order of the checks: `checked` lists the postings from the  *)
(* oldest last_verified_at to the newest, the first `lapsed` of which are  *)
(* older than reverify_after_hours.                                        *)
(***************************************************************************)
EXTENDS Naturals, Sequences, FiniteSets

CONSTANTS
  Postings,
  Tasks,        \* bound: verify_urls rows that are live at once
  Limit,        \* VERIFY_BATCH
  MaxAttempts,  \* max_attempts
  MaxFaults     \* bound: handlers that raise or die

ASSUME ChainAssumption ==
  /\ IsFiniteSet(Postings) /\ IsFiniteSet(Tasks)
  /\ Limit \in Nat \ {0}
  /\ MaxAttempts \in Nat \ {0}
  /\ MaxFaults \in Nat

VARIABLES
  new,      \* postings with last_verified_at IS NULL
  checked,  \* the other rows of job_postings, oldest check first
  lapsed,   \* how many of them have a check older than the window
  closed,   \* rows whose status is not open
  stage, keyed, attempts,  \* the verify_urls rows
  batch,    \* what a running handler has selected and not yet verified
  selected, \* whether its selection was not empty (report.checked)
  faults

table == <<new, checked, lapsed, closed>>
queue == <<stage, keyed, attempts>>
handlers == <<batch, selected>>
vars == <<table, queue, handlers, faults>>

Entries(s) == {s[i] : i \in 1..Len(s)}
Due == (new \cup {checked[i] : i \in 1..lapsed}) \ closed
IsLive(t) == stage[t] # "none"

Init ==
  /\ new \in SUBSET Postings
  /\ checked = <<>> /\ lapsed = 0 /\ closed = {}
  /\ stage = [t \in Tasks |-> "none"]
  /\ keyed = [t \in Tasks |-> FALSE]
  /\ attempts = [t \in Tasks |-> 0]
  /\ batch = [t \in Tasks |-> <<>>]
  /\ selected = [t \in Tasks |-> FALSE]
  /\ faults = 0

-----------------------------------------------------------------------------
(* The queue's rows *)

\* Row t is settled; with a successor, a row without dedup_key is enqueued.
Settle(t) ==
  /\ stage' = [stage EXCEPT ![t] = "none"]
  /\ keyed' = [keyed EXCEPT ![t] = FALSE]
  /\ attempts' = [attempts EXCEPT ![t] = 0]

SettleAndEnqueue(t) ==
  \E n \in {n \in Tasks : ~IsLive(n)} \cup {t} :
    /\ stage' = [stage EXCEPT ![t] = "none", ![n] = "pending"]
    /\ keyed' = [keyed EXCEPT ![t] = FALSE, ![n] = FALSE]
    /\ attempts' = [attempts EXCEPT ![t] = 0, ![n] = 0]

\* The hourly job; a live row with the key makes it a no-op.
Trigger ==
  /\ \A t \in Tasks : ~(IsLive(t) /\ keyed[t])
  /\ \E t \in Tasks :
       /\ ~IsLive(t)
       /\ stage' = [stage EXCEPT ![t] = "pending"]
       /\ keyed' = [keyed EXCEPT ![t] = TRUE]
  /\ UNCHANGED <<table, attempts, handlers, faults>>

-----------------------------------------------------------------------------
(* The handler *)

\* ORDER BY last_verified_at NULLS FIRST
Rank(p) == IF p \in new THEN 0 ELSE CHOOSE i \in 1..Len(checked) : checked[i] = p
Earlier_NewestFirst(p, q) == Rank(p) > Rank(q)
Earlier(p, q) == Rank(p) < Rank(q)

\* The batches that SELECT ... LIMIT may return, new postings in any order.
Selections ==
  LET n == IF Cardinality(Due) < Limit THEN Cardinality(Due) ELSE Limit
  IN {s \in [1..n -> Due] :
        \A i \in 1..n :
          LET rest == Due \ {s[j] : j \in 1..(i - 1)}
          IN s[i] \in rest /\ \A p \in rest : ~Earlier(p, s[i])}

Begin(t) ==
  /\ stage[t] = "pending"
  /\ stage' = [stage EXCEPT ![t] = "running"]
  /\ attempts' = [attempts EXCEPT ![t] = @ + 1]
  /\ \E s \in Selections :
       /\ batch' = [batch EXCEPT ![t] = s]
       /\ selected' = [selected EXCEPT ![t] = s # <<>>]
  /\ UNCHANGED <<table, keyed, faults>>

\* last_verified_at = now(), by id; a posting found gone is closed.
VerifyOne(t, gone) ==
  /\ stage[t] = "running"
  /\ batch[t] # <<>>
  /\ LET p == Head(batch[t])
     IN /\ new' = new \ {p}
        /\ checked' = Append(SelectSeq(checked, LAMBDA q : q # p), p)
        /\ lapsed' = Cardinality({i \in 1..lapsed : checked[i] # p})
        /\ closed' = IF gone THEN closed \cup {p} ELSE closed
  /\ batch' = [batch EXCEPT ![t] = Tail(@)]
  /\ UNCHANGED <<queue, selected, faults>>

\* "if report.checked and remaining"
Continues_Always(t) == TRUE
Continues(t) == selected[t] /\ Due # {}

Finish(t) ==
  /\ stage[t] = "running"
  /\ batch[t] = <<>>
  /\ IF Continues(t) THEN SettleAndEnqueue(t) ELSE Settle(t)
  /\ selected' = [selected EXCEPT ![t] = FALSE]
  /\ UNCHANGED <<table, batch, faults>>

Exhausted(t) == attempts[t] >= MaxAttempts

\* What was committed stays; the row is retried or dead-lettered.
Break(t) ==
  /\ stage[t] = "running"
  /\ faults < MaxFaults
  /\ faults' = faults + 1
  /\ batch' = [batch EXCEPT ![t] = <<>>]
  /\ selected' = [selected EXCEPT ![t] = FALSE]
  /\ IF Exhausted(t) THEN Settle(t)
     ELSE stage' = [stage EXCEPT ![t] = "pending"] /\ UNCHANGED <<keyed, attempts>>
  /\ UNCHANGED table

-----------------------------------------------------------------------------
(* Postings and time *)

\* Discovery inserts a posting, or opens a closed one again.
Arrive(p) ==
  /\ p \notin new \cup Entries(checked)
  /\ new' = new \cup {p}
  /\ UNCHANGED <<checked, lapsed, closed, queue, handlers, faults>>

Reopen(p) ==
  /\ p \in closed
  /\ closed' = closed \ {p}
  /\ UNCHANGED <<new, checked, lapsed, queue, handlers, faults>>

\* The oldest check that is still inside the window leaves it.
Lapse ==
  /\ lapsed < Len(checked)
  /\ lapsed' = lapsed + 1
  /\ UNCHANGED <<new, checked, closed, queue, handlers, faults>>

Next ==
  \/ Trigger
  \/ \E t \in Tasks : Begin(t) \/ Finish(t) \/ Break(t)
  \/ \E t \in Tasks, gone \in BOOLEAN : VerifyOne(t, gone)
  \/ \E p \in Postings : Arrive(p) \/ Reopen(p)
  \/ Lapse

\* The job fires every hour, consumers claim what is pending, and a handler's
\* requests and statements all time out.
Fairness ==
  /\ WF_vars(Trigger)
  /\ \A t \in Tasks :
       WF_vars(Begin(t)) /\ WF_vars(Finish(t)) /\ WF_vars(\E gone \in BOOLEAN : VerifyOne(t, gone))

Spec == Init /\ [][Next]_vars /\ Fairness

-----------------------------------------------------------------------------
(* Properties *)

\* A posting that is due is verified in the end, however many others become due
\* meanwhile and however often the chain breaks: the batches starve nobody.
EveryDueChecked == \A p \in Postings : (p \in Due) ~> (p \notin Due)

\* Once nothing becomes due any more, the chains come to an end and do not keep the
\* consumers busy.
ChainsEnd == <>[](Due = {}) => []<>(\A t \in Tasks : ~IsLive(t))

=============================================================================
