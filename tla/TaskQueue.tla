----------------------------- MODULE TaskQueue -----------------------------
(***************************************************************************)
(* The Postgres task queue (db/queue.py) and the consumer threads that     *)
(* drain it (workers/runner.py).                                           *)
(*                                                                         *)
(* Every statement of db/queue.py runs in a session_scope, so each action  *)
(* below is one committed transaction.  run_once spans three of them: the  *)
(* claim, the handler together with complete(), and fail().  A consumer    *)
(* works on its own copy of the row (`Task`) between them, and neither     *)
(* complete() nor fail() looks at the row again: they update by id.        *)
(*                                                                         *)
(* Times are kept relative to now().  `wait` is run_after - now(), `age`   *)
(* is now() - locked_at; Tick advances both.                               *)
(*                                                                         *)
(* A definition Name_Bug is a mutated form of Name: it shows that the      *)
(* properties notice the bug, and no other definition uses it.             *)
(***************************************************************************)
EXTENDS Integers, Sequences, FiniteSets

CONSTANTS
  Tasks,        \* the row ids that may be inserted
  Keys,         \* the dedup keys in use
  NoKey,        \* dedup_key IS NULL
  Consumers,    \* consumer threads of every worker process
  Processes,    \* worker processes (WORKER_ID)
  Host,         \* the process a consumer thread belongs to
  NoTask,       \* a consumer between two tasks
  NoProcess,    \* locked_by IS NULL
  Priorities,   \* task priorities in use
  Delays,       \* run_after offsets the producers ask for
  Backoff,      \* queue.backoff_minutes
  MaxAttempts,  \* max_attempts
  LockTimeout,  \* queue.lock_timeout_minutes
  RetryAfters,  \* Retry-After values a provider may answer
  MaxOverdue,   \* bound: how far past run_after a row is told apart
  MaxFaults,    \* bound: crashes and lost fail() transactions
  MaxStrays     \* bound: handlers that outlive LockTimeout, lost commit replies

ASSUME SetsAssumption ==
  /\ IsFiniteSet(Tasks)
  /\ NoTask \notin Tasks
  /\ NoKey \notin Keys
  /\ NoProcess \notin Processes
  /\ Host \in [Consumers -> Processes]

ASSUME PolicyAssumption ==
  /\ Priorities \subseteq Int
  /\ Delays \subseteq Nat
  /\ RetryAfters \subseteq Nat
  /\ Backoff \in Seq(Nat)
  /\ MaxAttempts \in Nat \ {0}
  /\ LockTimeout \in Nat
  /\ MaxOverdue \in Nat
  /\ MaxFaults \in Nat
  /\ MaxStrays \in Nat

VARIABLES
  \* the columns of task_queue
  status, key, priority, wait, attempts, age, by,
  \* what each consumer thread is doing, and its copy of the claimed row
  phase, held, attempt, retry,
  \* history: handler transactions committed for each row; crashes and lost
  \* fail() transactions; consumers that may have outlived their claim
  effects, faults, strays

row == <<status, key, priority, wait, attempts, age, by>>
thread == <<phase, held, attempt, retry>>
vars == <<row, thread, effects, faults, strays>>

NotLocked == -1
NoDelay == -1

Init ==
  /\ status = [t \in Tasks |-> "free"]
  /\ key = [t \in Tasks |-> NoKey]
  /\ priority = [t \in Tasks |-> 0]
  /\ wait = [t \in Tasks |-> 0]
  /\ attempts = [t \in Tasks |-> 0]
  /\ age = [t \in Tasks |-> NotLocked]
  /\ by = [t \in Tasks |-> NoProcess]
  /\ phase = [c \in Consumers |-> "idle"]
  /\ held = [c \in Consumers |-> NoTask]
  /\ attempt = [c \in Consumers |-> 0]
  /\ retry = [c \in Consumers |-> 0]
  /\ effects = [t \in Tasks |-> 0]
  /\ faults = 0
  /\ strays = 0

-----------------------------------------------------------------------------
(* State formulae *)

IsLive(t) == status[t] \in {"pending", "running"}

\* ux_task_queue_dedup refuses to make row t live with key k.
KeyTaken(t, k) ==
  k # NoKey /\ \E u \in Tasks \ {t} : IsLive(u) /\ key[u] = k

Runnable(t) == status[t] = "pending" /\ wait[t] <= 0

\* ORDER BY priority DESC, run_after
Before(t, u) ==
  \/ priority[t] > priority[u]
  \/ priority[t] = priority[u] /\ wait[t] < wait[u]

Stale_TooEarly(t) == status[t] = "running" /\ age[t] >= LockTimeout
Stale_WrongStatus(t) == status[t] = "pending" /\ age[t] > LockTimeout
Stale(t) == status[t] = "running" /\ age[t] > LockTimeout

\* c still works on the claim the row records.
HasClaim(c, t) ==
  held[c] = t /\ status[t] = "running" /\ attempts[t] = attempt[c]

BackoffDelay(n) == IF n \in 1..Len(Backoff) THEN Backoff[n] ELSE NoDelay

\* fail() decides on the consumer's copy of the task, not on the row.
RetryDelay(c) == IF retry[c] # 0 THEN retry[c] ELSE BackoffDelay(attempt[c])

DeadLetters_TooEarly(c) == RetryDelay(c) = NoDelay \/ attempt[c] + 1 >= MaxAttempts
DeadLetters_TooLate(c) == RetryDelay(c) = NoDelay \/ attempt[c] > MaxAttempts
DeadLetters(c) == RetryDelay(c) = NoDelay \/ attempt[c] >= MaxAttempts

-----------------------------------------------------------------------------
(* Producers *)

\* enqueue(); ON CONFLICT DO NOTHING leaves the table alone when the key is live.
Enqueue(t, k, p, d) ==
  /\ status[t] = "free"
  /\ ~KeyTaken(t, k)
  /\ status' = [status EXCEPT ![t] = "pending"]
  /\ key' = [key EXCEPT ![t] = k]
  /\ priority' = [priority EXCEPT ![t] = p]
  /\ wait' = [wait EXCEPT ![t] = d]
  /\ UNCHANGED <<attempts, age, by, thread, effects, faults, strays>>

-----------------------------------------------------------------------------
(* run_once: the claim, the handler with complete(), fail() *)

\* The update every one of complete(), fail() and reap_stale() makes of a row.
Unlock(S, s) ==
  /\ status' = [t \in Tasks |-> IF t \in S THEN s ELSE status[t]]
  /\ age' = [t \in Tasks |-> IF t \in S THEN NotLocked ELSE age[t]]
  /\ by' = [t \in Tasks |-> IF t \in S THEN NoProcess ELSE by[t]]

\* The thread forgets its task and returns to the top of _consume.
GoIdle(S) ==
  /\ phase' = [c \in Consumers |-> IF c \in S THEN "idle" ELSE phase[c]]
  /\ held' = [c \in Consumers |-> IF c \in S THEN NoTask ELSE held[c]]
  /\ attempt' = [c \in Consumers |-> IF c \in S THEN 0 ELSE attempt[c]]
  /\ retry' = [c \in Consumers |-> IF c \in S THEN 0 ELSE retry[c]]

\* attempts = attempts + 1, in the row and in the Task returned to the consumer.
NextAttempt_Restarts(t) == 1
NextAttempt(t) == attempts[t] + 1

Claim(c, t) ==
  /\ phase[c] = "idle"
  /\ Runnable(t)
  /\ \A u \in Tasks : Runnable(u) => ~Before(u, t)
  /\ status' = [status EXCEPT ![t] = "running"]
  /\ attempts' = [attempts EXCEPT ![t] = NextAttempt(t)]
  /\ age' = [age EXCEPT ![t] = 0]
  /\ by' = [by EXCEPT ![t] = Host[c]]
  /\ phase' = [phase EXCEPT ![c] = "handling"]
  /\ held' = [held EXCEPT ![c] = t]
  /\ attempt' = [attempt EXCEPT ![c] = NextAttempt(t)]
  /\ UNCHANGED <<key, priority, wait, retry, effects, faults, strays>>

\* complete() inside the handler's transaction, which then commits.
CommitHandler(c) ==
  /\ phase[c] = "handling"
  /\ Unlock({held[c]}, "done")
  /\ effects' = [effects EXCEPT ![held[c]] = @ + 1]
  /\ UNCHANGED <<key, priority, wait, attempts, faults>>

Succeed(c) ==
  CommitHandler(c) /\ GoIdle({c}) /\ UNCHANGED strays

\* The commit takes effect but its reply is lost: session.commit() raises and
\* run_once goes on to fail() a task that is already done.
SucceedUnacknowledged(c) ==
  /\ strays < MaxStrays
  /\ CommitHandler(c)
  /\ phase' = [phase EXCEPT ![c] = "failing"]
  /\ strays' = strays + 1
  /\ UNCHANGED <<held, attempt, retry>>

\* The handler's transaction is rolled back.  r is the Retry-After of a
\* RateLimitedError, 0 for a missing one and for every other exception.
Raise(c, r) ==
  /\ phase[c] = "handling"
  /\ phase' = [phase EXCEPT ![c] = "failing"]
  /\ retry' = [retry EXCEPT ![c] = r]
  /\ UNCHANGED <<row, held, attempt, effects, faults, strays>>

FailDead(c) ==
  /\ phase[c] = "failing"
  /\ DeadLetters(c)
  /\ Unlock({held[c]}, "dead")
  /\ GoIdle({c})
  /\ UNCHANGED <<key, priority, wait, attempts, effects, faults, strays>>

\* The unique index refuses to revive a settled row beside a live one of its key.
RetryRefused_Never(t) == FALSE
RetryRefused(t) == ~IsLive(t) /\ KeyTaken(t, key[t])

FailRetry(c) ==
  /\ phase[c] = "failing"
  /\ ~DeadLetters(c)
  /\ ~RetryRefused(held[c])
  /\ Unlock({held[c]}, "pending")
  /\ wait' = [wait EXCEPT ![held[c]] = RetryDelay(c)]
  /\ GoIdle({c})
  /\ UNCHANGED <<key, priority, attempts, effects, faults, strays>>

\* IntegrityError out of fail(): rolled back, logged by _consume.
FailRefused(c) ==
  /\ phase[c] = "failing"
  /\ ~DeadLetters(c)
  /\ RetryRefused(held[c])
  /\ GoIdle({c})
  /\ UNCHANGED <<row, effects, faults, strays>>

\* fail()'s own session breaks: _consume logs it and the row stays running.
FailLost(c) ==
  /\ faults < MaxFaults
  /\ phase[c] = "failing"
  /\ GoIdle({c})
  /\ faults' = faults + 1
  /\ UNCHANGED <<row, effects, strays>>

-----------------------------------------------------------------------------
(* The scheduler, crashes and time *)

ReapStale ==
  /\ \E t \in Tasks : Stale(t)
  /\ Unlock({t \in Tasks : Stale(t)}, "pending")
  /\ UNCHANGED <<key, priority, wait, attempts, thread, effects, faults, strays>>

\* The process is killed, or its daemon threads die after the 60 s join; it
\* restarts with idle consumers.
Crash(p) ==
  /\ faults < MaxFaults
  /\ \E c \in Consumers : Host[c] = p /\ phase[c] # "idle"
  /\ GoIdle({c \in Consumers : Host[c] = p})
  /\ faults' = faults + 1
  /\ UNCHANGED <<row, effects, strays>>

\* Rows whose handler is still at work when their lock becomes stale.
Outlived ==
  {t \in Tasks : age[t] = LockTimeout /\ \E c \in Consumers : HasClaim(c, t)}

Tick ==
  /\ strays + Cardinality(Outlived) <= MaxStrays
  /\ wait' = [t \in Tasks |-> IF IsLive(t) /\ wait[t] > -MaxOverdue
                              THEN wait[t] - 1 ELSE wait[t]]
  /\ age' = [t \in Tasks |-> IF status[t] = "running" /\ age[t] <= LockTimeout
                             THEN age[t] + 1 ELSE age[t]]
  /\ strays' = strays + Cardinality(Outlived)
  /\ UNCHANGED <<status, key, priority, attempts, by, thread, effects, faults>>

-----------------------------------------------------------------------------
Handle(c) ==
  Succeed(c) \/ SucceedUnacknowledged(c) \/ \E r \in RetryAfters \cup {0} : Raise(c, r)

Fail(c) == FailDead(c) \/ FailRetry(c) \/ FailRefused(c) \/ FailLost(c)

Next ==
  \/ \E t \in Tasks, k \in Keys \cup {NoKey}, p \in Priorities, d \in Delays :
       Enqueue(t, k, p, d)
  \/ \E c \in Consumers, t \in Tasks : Claim(c, t)
  \/ \E c \in Consumers : Handle(c)
  \/ \E c \in Consumers : Fail(c)
  \/ ReapStale
  \/ \E p \in Processes : Crash(p)
  \/ Tick

\* _consume loops for ever, handlers are bounded by HTTP and statement timeouts,
\* reap_stale runs every five minutes and time passes.
Fairness ==
  /\ WF_vars(Tick)
  /\ WF_vars(ReapStale)
  /\ \A c \in Consumers :
       WF_vars(\E t \in Tasks : Claim(c, t)) /\ WF_vars(Handle(c)) /\ WF_vars(Fail(c))

Spec == Init /\ [][Next]_vars /\ Fairness
-----------------------------------------------------------------------------
(* Properties *)

\* Every variable keeps its type; the table's columns and the consumer's copy.
TypeOK ==
  /\ status \in [Tasks -> {"free", "pending", "running", "done", "dead"}]
  /\ key \in [Tasks -> Keys \cup {NoKey}]
  /\ priority \in [Tasks -> Int]
  /\ wait \in [Tasks -> Int]
  /\ attempts \in [Tasks -> Nat]
  /\ age \in [Tasks -> -1..(LockTimeout + 1)]
  /\ by \in [Tasks -> Processes \cup {NoProcess}]
  /\ phase \in [Consumers -> {"idle", "handling", "failing"}]
  /\ held \in [Consumers -> Tasks \cup {NoTask}]
  /\ attempt \in [Consumers -> Nat]
  /\ retry \in [Consumers -> Nat]
  /\ effects \in [Tasks -> Nat]
  /\ faults \in 0..MaxFaults
  /\ strays \in 0..MaxStrays

\* A thread holds a row, with a positive attempt number, exactly while it works.
ThreadsOK ==
  \A c \in Consumers :
    /\ phase[c] = "idle" => held[c] = NoTask
    /\ phase[c] # "idle" => held[c] \in Tasks /\ attempt[c] > 0

\* Two live rows never share a dedup key (enqueue(): "makes enqueueing
\* idempotent"), whatever fail(), complete() and reap_stale() do to rows that
\* other consumers still work on.
DedupUnique ==
  \A t, u \in Tasks :
    /\ IsLive(t) /\ IsLive(u)
    /\ key[t] = key[u] /\ key[t] # NoKey
    => t = u

\* locked_at and locked_by are set exactly while the row is running, so the
\* reaper finds every running row and nothing else.
LockFields ==
  \A t \in Tasks :
    /\ (status[t] = "running") <=> (by[t] # NoProcess)
    /\ (status[t] = "running") <=> (age[t] # NotLocked)

\* "Concurrent workers never claim the same row" (claim()): even when a row is
\* reaped under a consumer, or made pending by a consumer that lost it, no two
\* consumers hold the same attempt of it and none holds one yet to come.
ClaimsDistinct ==
  /\ \A c \in Consumers : phase[c] # "idle" =>
       /\ status[held[c]] # "free"
       /\ attempt[c] \in 1..attempts[held[c]]
  /\ \A c, d \in Consumers :
       /\ phase[c] # "idle" /\ held[c] = held[d]
       /\ attempt[c] = attempt[d]
       => c = d

\* A task is dead-lettered only once its schedule or max_attempts is used up,
\* also when the consumer that gives it up holds an outdated copy of it.
DeadExhausted ==
  \A t \in Tasks : status[t] = "dead" =>
    attempts[t] >= MaxAttempts \/ attempts[t] > Len(Backoff)

\* While no consumer has strayed, every attempt past max_attempts is paid for by a
\* crash or a lost fail(): reap_stale() itself never dead-letters.
PoisonBound ==
  strays = 0 => \A t \in Tasks : attempts[t] <= MaxAttempts + faults

Owned ==
  \A c \in Consumers : phase[c] # "idle" =>
    /\ HasClaim(c, held[c])
    /\ by[held[c]] = Host[c]
    /\ age[held[c]] <= LockTimeout

\* While no consumer has strayed, a consumer owns the row it works on, until its
\* own complete() or fail() gives it up.
OwnsRow == strays = 0 => Owned

\* While no consumer has strayed, the handler's transaction has committed exactly
\* once for a task that is done and never for one that is not.
EffectOnce ==
  strays = 0 => \A t \in Tasks : effects[t] = IF status[t] = "done" THEN 1 ELSE 0

-----------------------------------------------------------------------------
(* Refinement: until a consumer strays the queue is a WorkLedger. *)

Ledger == INSTANCE WorkLedger WITH state <- status, applied <- effects, strays <- strays

\* Until a consumer strays, crashes, lost updates, retries and reaping never make a
\* task run twice to completion, settle twice or come back after it settled.
LedgerSafe == Ledger!Safe

\* A task that is enqueued is eventually done or dead and stays so: no crash,
\* lost update or stray consumer leaves it running or pending for ever, or
\* revives it without end.
EventuallySettled == Ledger!Settles
=============================================================================
