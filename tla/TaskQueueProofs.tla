-------------------------- MODULE TaskQueueProofs --------------------------
(***************************************************************************)
(* TLAPS proofs about TaskQueue, for every value of its constants.         *)
(***************************************************************************)
EXTENDS TaskQueue, FiniteSetTheorems, TLAPS

USE DEF NotLocked, NoDelay

-----------------------------------------------------------------------------
(* Helpers *)

\* A retry delay is a natural number unless the schedule is used up.
LEMMA DelayType ==
  ASSUME TypeOK, NEW c \in Consumers
  PROVE  /\ RetryDelay(c) \in Nat \cup {NoDelay}
         /\ RetryDelay(c) = NoDelay => attempt[c] \notin 1..Len(Backoff)
<1>1. attempt[c] \in Nat /\ retry[c] \in Nat
  BY DEF TypeOK
<1>2. \A n \in Nat : /\ BackoffDelay(n) \in Nat \cup {NoDelay}
                     /\ BackoffDelay(n) = NoDelay => n \notin 1..Len(Backoff)
  BY PolicyAssumption DEF BackoffDelay
<1> QED BY <1>1, <1>2 DEF RetryDelay

\* The number of handlers that outlive their lock in one step is a number.
LEMMA OutlivedType ==
  /\ Cardinality(Outlived) \in Nat
  /\ Cardinality(Outlived) = 0 => Outlived = {}
<1>1. IsFiniteSet(Outlived)
  BY SetsAssumption, FS_Subset DEF Outlived
<1> QED BY <1>1, FS_CardinalityType, FS_EmptySet

\* Releasing rows and threads keeps the types of the columns it sets.
LEMMA UnlockType ==
  ASSUME TypeOK, NEW S, NEW s \in {"pending", "done", "dead"}, Unlock(S, s)
  PROVE  /\ status' \in [Tasks -> {"free", "pending", "running", "done", "dead"}]
         /\ age' \in [Tasks -> -1..(LockTimeout + 1)]
         /\ by' \in [Tasks -> Processes \cup {NoProcess}]
BY PolicyAssumption DEF TypeOK, Unlock

LEMMA GoIdleType ==
  ASSUME TypeOK, NEW S, GoIdle(S)
  PROVE  /\ phase' \in [Consumers -> {"idle", "handling", "failing"}]
         /\ held' \in [Consumers -> Tasks \cup {NoTask}]
         /\ attempt' \in [Consumers -> Nat]
         /\ retry' \in [Consumers -> Nat]
BY DEF TypeOK, GoIdle

-----------------------------------------------------------------------------
(* Type correctness *)

LEMMA TypeInit == Init => TypeOK
BY PolicyAssumption DEF Init, TypeOK

LEMMA TypeStep == TypeOK /\ [Next]_vars => TypeOK'
<1> SUFFICES ASSUME TypeOK, [Next]_vars PROVE TypeOK'
  OBVIOUS
<1> USE SetsAssumption, PolicyAssumption
<1>1. ASSUME NEW t \in Tasks, NEW k \in Keys \cup {NoKey}, NEW p \in Priorities,
             NEW d \in Delays, Enqueue(t, k, p, d)
      PROVE  TypeOK'
  <2>1. status' \in [Tasks -> {"free", "pending", "running", "done", "dead"}]
    BY <1>1 DEF Enqueue, TypeOK
  <2>2. key' \in [Tasks -> Keys \cup {NoKey}] /\ priority' \in [Tasks -> Int]
    <3>1. key \in [Tasks -> Keys \cup {NoKey}] /\ priority \in [Tasks -> Int]
      BY DEF TypeOK
    <3>2. key' = [key EXCEPT ![t] = k] /\ priority' = [priority EXCEPT ![t] = p]
      BY <1>1 DEF Enqueue
    <3> QED BY <3>1, <3>2
  <2>3. wait' \in [Tasks -> Int]
    BY <1>1 DEF Enqueue, TypeOK
  <2> QED BY <1>1, <2>1, <2>2, <2>3 DEF Enqueue, TypeOK, thread
<1>2. ASSUME NEW c \in Consumers, NEW t \in Tasks, Claim(c, t)
      PROVE  TypeOK'
  <2>1. /\ status' \in [Tasks -> {"free", "pending", "running", "done", "dead"}]
        /\ attempts' \in [Tasks -> Nat]
        /\ age' \in [Tasks -> -1..(LockTimeout + 1)]
        /\ by' \in [Tasks -> Processes \cup {NoProcess}]
    BY <1>2 DEF Claim, NextAttempt, TypeOK
  <2>2. /\ phase' \in [Consumers -> {"idle", "handling", "failing"}]
        /\ held' \in [Consumers -> Tasks \cup {NoTask}]
        /\ attempt' \in [Consumers -> Nat]
    BY <1>2 DEF Claim, NextAttempt, TypeOK
  <2> QED BY <1>2, <2>1, <2>2 DEF Claim, NextAttempt, TypeOK
<1>3. ASSUME NEW c \in Consumers, CommitHandler(c)
      PROVE  effects' \in [Tasks -> Nat]
  <2>1. effects \in [Tasks -> Nat]
    BY DEF TypeOK
  <2>2. effects' = [effects EXCEPT ![held[c]] = @ + 1]
    BY <1>3 DEF CommitHandler
  <2>3. CASE held[c] \in Tasks
    BY <2>1, <2>2, <2>3
  <2>4. CASE held[c] \notin Tasks
    BY <2>1, <2>2, <2>4
  <2> QED BY <2>3, <2>4
<1>4. ASSUME NEW c \in Consumers, Succeed(c)
      PROVE  TypeOK'
  BY <1>3, <1>4, UnlockType, GoIdleType DEF Succeed, CommitHandler, TypeOK
<1>5. ASSUME NEW c \in Consumers, SucceedUnacknowledged(c)
      PROVE  TypeOK'
  <2>1. phase' \in [Consumers -> {"idle", "handling", "failing"}]
    <3>1. phase \in [Consumers -> {"idle", "handling", "failing"}]
      BY DEF TypeOK
    <3>2. phase' = [phase EXCEPT ![c] = "failing"]
      BY <1>5 DEF SucceedUnacknowledged
    <3> QED BY <3>1, <3>2
  <2>2. strays' \in 0..MaxStrays
    BY <1>5 DEF SucceedUnacknowledged, TypeOK
  <2> QED BY <1>3, <1>5, <2>1, <2>2, UnlockType DEF SucceedUnacknowledged, CommitHandler, TypeOK
<1>6. ASSUME NEW c \in Consumers, NEW r \in RetryAfters \cup {0}, Raise(c, r)
      PROVE  TypeOK'
  <2>1. phase' \in [Consumers -> {"idle", "handling", "failing"}]
    BY <1>6 DEF Raise, TypeOK
  <2>2. retry' \in [Consumers -> Nat]
    BY <1>6 DEF Raise, TypeOK
  <2> QED BY <1>6, <2>1, <2>2 DEF Raise, TypeOK, row
<1>7. ASSUME NEW c \in Consumers, FailDead(c)
      PROVE  TypeOK'
  BY <1>7, UnlockType, GoIdleType DEF FailDead, TypeOK
<1>8. ASSUME NEW c \in Consumers, FailRetry(c)
      PROVE  TypeOK'
  <2>1. wait' \in [Tasks -> Int]
    <3>1. wait \in [Tasks -> Int] /\ RetryDelay(c) \in Int
      BY DelayType DEF TypeOK
    <3>2. wait' = [wait EXCEPT ![held[c]] = RetryDelay(c)]
      BY <1>8 DEF FailRetry
    <3> QED BY <3>1, <3>2
  <2> QED BY <1>8, <2>1, UnlockType, GoIdleType DEF FailRetry, TypeOK
<1>9. ASSUME NEW c \in Consumers, FailRefused(c) \/ FailLost(c)
      PROVE  TypeOK'
  <2>1. CASE FailRefused(c)
    BY <2>1, GoIdleType DEF FailRefused, TypeOK, row
  <2>2. CASE FailLost(c)
    BY <2>2, GoIdleType DEF FailLost, TypeOK, row
  <2> QED BY <1>9, <2>1, <2>2
<1>10. ASSUME ReapStale
       PROVE  TypeOK'
  BY <1>10, UnlockType DEF ReapStale, TypeOK, thread
<1>11. ASSUME NEW p \in Processes, Crash(p)
       PROVE  TypeOK'
  <2>1. /\ phase' \in [Consumers -> {"idle", "handling", "failing"}]
        /\ held' \in [Consumers -> Tasks \cup {NoTask}]
        /\ attempt' \in [Consumers -> Nat]
        /\ retry' \in [Consumers -> Nat]
    BY <1>11, GoIdleType DEF Crash
  <2>2. faults' \in 0..MaxFaults
    BY <1>11 DEF Crash, TypeOK
  <2>3. UNCHANGED <<row, effects, strays>>
    BY <1>11 DEF Crash
  <2> QED BY <2>1, <2>2, <2>3 DEF TypeOK, row
<1>12. ASSUME Tick
       PROVE  TypeOK'
  <2>1. wait' \in [Tasks -> Int]
    <3>1. wait' = [t \in Tasks |-> IF IsLive(t) /\ wait[t] > -MaxOverdue
                                   THEN wait[t] - 1 ELSE wait[t]]
      BY <1>12 DEF Tick
    <3>2. \A t \in Tasks : wait[t] \in Int /\ wait[t] - 1 \in Int
      BY DEF TypeOK
    <3> QED BY <3>1, <3>2
  <2>2. age' \in [Tasks -> -1..(LockTimeout + 1)]
    <3>1. age' = [t \in Tasks |-> IF status[t] = "running" /\ age[t] <= LockTimeout
                                  THEN age[t] + 1 ELSE age[t]]
      BY <1>12 DEF Tick
    <3>2. \A t \in Tasks : /\ age[t] \in -1..(LockTimeout + 1)
                           /\ age[t] <= LockTimeout => age[t] + 1 \in -1..(LockTimeout + 1)
      BY DEF TypeOK
    <3> QED BY <3>1, <3>2
  <2>3. strays' \in 0..MaxStrays
    BY <1>12, OutlivedType DEF Tick, TypeOK
  <2> QED BY <1>12, <2>1, <2>2, <2>3 DEF Tick, TypeOK, thread
<1>13. CASE UNCHANGED vars
  BY <1>13 DEF vars, row, thread, TypeOK
<1> QED
  BY <1>1, <1>2, <1>4, <1>5, <1>6, <1>7, <1>8, <1>9, <1>10, <1>11, <1>12, <1>13
  DEF Next, Handle, Fail

\* Type correctness of the queue and its consumers, for any number of rows,
\* threads and processes and any retry policy.
THEOREM TypeCorrect == Spec => []TypeOK
BY TypeInit, TypeStep, PTL DEF Spec

-----------------------------------------------------------------------------
(* The lock columns *)

LEMMA LockStep == TypeOK /\ LockFields /\ [Next]_vars => LockFields'
<1> SUFFICES ASSUME TypeOK, LockFields, [Next]_vars PROVE LockFields'
  OBVIOUS
<1> USE SetsAssumption, PolicyAssumption
<1>1. ASSUME NEW t \in Tasks, NEW k, NEW p, NEW d, Enqueue(t, k, p, d)
      PROVE  LockFields'
  BY <1>1 DEF Enqueue, TypeOK, LockFields
<1>2. ASSUME NEW c \in Consumers, NEW t \in Tasks, Claim(c, t)
      PROVE  LockFields'
  BY <1>2 DEF Claim, NextAttempt, TypeOK, LockFields
<1>3. ASSUME NEW S, NEW s \in {"pending", "done", "dead"}, Unlock(S, s)
      PROVE  LockFields'
  BY <1>3 DEF Unlock, LockFields
<1>4. ASSUME UNCHANGED <<status, age, by>>
      PROVE  LockFields'
  BY <1>4 DEF LockFields
<1>5. ASSUME NEW c \in Consumers, Handle(c) \/ Fail(c)
      PROVE  LockFields'
  BY <1>3, <1>4, <1>5
  DEF Handle, Fail, Succeed, SucceedUnacknowledged, CommitHandler, Raise,
      FailDead, FailRetry, FailRefused, FailLost, row
<1>6. ASSUME ReapStale
      PROVE  LockFields'
  BY <1>3, <1>6 DEF ReapStale
<1>7. ASSUME NEW p \in Processes, Crash(p)
      PROVE  LockFields'
  BY <1>4, <1>7 DEF Crash, row
<1>8. ASSUME Tick
      PROVE  LockFields'
  BY <1>8 DEF Tick, TypeOK, LockFields
<1>9. CASE UNCHANGED vars
  BY <1>4, <1>9 DEF vars, row
<1> QED BY <1>1, <1>2, <1>5, <1>6, <1>7, <1>8, <1>9 DEF Next

\* A row is locked exactly while it is running, so that reap_stale() can reach
\* every running row.
THEOREM LocksMatch == Spec => []LockFields
<1>1. Init => LockFields
  BY DEF Init, LockFields
<1> QED BY <1>1, TypeInit, TypeStep, LockStep, PTL DEF Spec

-----------------------------------------------------------------------------
(* Dedup keys *)

LEMMA DedupStep == TypeOK /\ ThreadsOK /\ DedupUnique /\ [Next]_vars => DedupUnique'
<1> SUFFICES ASSUME TypeOK, ThreadsOK, DedupUnique, [Next]_vars PROVE DedupUnique'
  OBVIOUS
<1>1. ASSUME NEW t \in Tasks, NEW k \in Keys \cup {NoKey}, NEW p, NEW d, Enqueue(t, k, p, d)
      PROVE  DedupUnique'
  BY <1>1 DEF Enqueue, KeyTaken, IsLive, DedupUnique, TypeOK
\* A step that makes no row live keeps the index valid.
<1>2. ASSUME UNCHANGED key, \A t \in Tasks : IsLive(t)' => IsLive(t)
      PROVE  DedupUnique'
  BY <1>2 DEF DedupUnique
<1>3. ASSUME NEW c \in Consumers, NEW t \in Tasks, Claim(c, t)
      PROVE  DedupUnique'
  BY <1>2, <1>3 DEF Claim, NextAttempt, Runnable, IsLive, TypeOK
<1>4. ASSUME NEW S, NEW s \in {"done", "dead"}, Unlock(S, s), UNCHANGED key
      PROVE  DedupUnique'
  BY <1>2, <1>4 DEF Unlock, IsLive
<1>5. ASSUME NEW c \in Consumers, Handle(c)
      PROVE  DedupUnique'
  BY <1>2, <1>4, <1>5
  DEF Handle, Succeed, SucceedUnacknowledged, CommitHandler, Raise, row, IsLive
<1>6. ASSUME NEW c \in Consumers, FailRetry(c)
      PROVE  DedupUnique'
  <2>1. held[c] \in Tasks
    BY <1>6 DEF FailRetry, ThreadsOK
  <2>2. /\ UNCHANGED key
        /\ \A t \in Tasks : IsLive(t)' <=> IsLive(t) \/ t = held[c]
    BY <1>6, <2>1 DEF FailRetry, Unlock, IsLive
  <2>3. IsLive(held[c]) \/ ~KeyTaken(held[c], key[held[c]])
    BY <1>6 DEF FailRetry, RetryRefused
  <2> QED BY <1>2, <2>1, <2>2, <2>3 DEF DedupUnique, KeyTaken
<1>7. ASSUME NEW c \in Consumers, Fail(c)
      PROVE  DedupUnique'
  BY <1>2, <1>4, <1>6, <1>7 DEF Fail, FailDead, FailRefused, FailLost, row, IsLive
<1>8. ASSUME ReapStale
      PROVE  DedupUnique'
  BY <1>2, <1>8 DEF ReapStale, Unlock, Stale, IsLive
<1>9. ASSUME NEW p \in Processes, Crash(p)
      PROVE  DedupUnique'
  BY <1>2, <1>9 DEF Crash, row, IsLive
<1>10. ASSUME Tick
       PROVE  DedupUnique'
  BY <1>2, <1>10 DEF Tick, IsLive
<1>11. CASE UNCHANGED vars
  BY <1>2, <1>11 DEF vars, row, IsLive
<1> QED BY <1>1, <1>3, <1>5, <1>7, <1>8, <1>9, <1>10, <1>11 DEF Next

-----------------------------------------------------------------------------
(* Claims *)

LEMMA ThreadsStep == TypeOK /\ ThreadsOK /\ [Next]_vars => ThreadsOK'
<1> SUFFICES ASSUME TypeOK, ThreadsOK, [Next]_vars PROVE ThreadsOK'
  OBVIOUS
<1>1. ASSUME UNCHANGED <<held, attempt>>,
             \A c \in Consumers : phase'[c] = "idle" <=> phase[c] = "idle"
      PROVE  ThreadsOK'
  BY <1>1 DEF ThreadsOK
<1>2. ASSUME NEW S, GoIdle(S)
      PROVE  ThreadsOK'
  BY <1>2 DEF GoIdle, ThreadsOK
<1>3. ASSUME NEW c \in Consumers, NEW t \in Tasks, Claim(c, t)
      PROVE  ThreadsOK'
  BY <1>3 DEF Claim, NextAttempt, TypeOK, ThreadsOK
<1>4. ASSUME NEW c \in Consumers, Handle(c)
      PROVE  ThreadsOK'
  BY <1>1, <1>2, <1>4
  DEF Handle, Succeed, SucceedUnacknowledged, CommitHandler, Raise, TypeOK
<1>5. ASSUME NEW c \in Consumers, Fail(c)
      PROVE  ThreadsOK'
  BY <1>2, <1>5 DEF Fail, FailDead, FailRetry, FailRefused, FailLost
<1>6. ASSUME NEW p \in Processes, Crash(p)
      PROVE  ThreadsOK'
  BY <1>2, <1>6 DEF Crash
<1>7. ASSUME UNCHANGED thread
      PROVE  ThreadsOK'
  BY <1>1, <1>7 DEF thread
<1> QED
  BY <1>3, <1>4, <1>5, <1>6, <1>7 DEF Next, Enqueue, ReapStale, Tick, vars

LEMMA ClaimsStep ==
  TypeOK /\ ThreadsOK /\ ClaimsDistinct /\ [Next]_vars => ClaimsDistinct'
<1> SUFFICES ASSUME TypeOK, ThreadsOK, ClaimsDistinct, [Next]_vars PROVE ClaimsDistinct'
  OBVIOUS
<1> USE SetsAssumption
<1>1. ASSUME UNCHANGED <<held, attempt, attempts>>,
             \A c \in Consumers : phase'[c] = "idle" <=> phase[c] = "idle",
             \A t \in Tasks : status'[t] = "free" => status[t] = "free"
      PROVE  ClaimsDistinct'
  BY <1>1 DEF ClaimsDistinct, ThreadsOK
<1>2. ASSUME NEW S, GoIdle(S), UNCHANGED attempts,
             \A t \in Tasks : status'[t] = "free" => status[t] = "free"
      PROVE  ClaimsDistinct'
  <2>1. \A c \in Consumers : phase'[c] # "idle" =>
          /\ phase[c] # "idle"
          /\ held'[c] = held[c]
          /\ attempt'[c] = attempt[c]
    BY <1>2 DEF GoIdle
  <2>2. \A d \in Consumers : phase'[d] = "idle" => held'[d] = NoTask
    BY <1>2 DEF GoIdle, ThreadsOK
  <2> QED BY <1>2, <2>1, <2>2 DEF ClaimsDistinct, ThreadsOK
<1>3. ASSUME NEW c \in Consumers, NEW t \in Tasks, Claim(c, t)
      PROVE  ClaimsDistinct'
  \* The new claim is the highest attempt of the row.
  <2>1. /\ status'[t] = "running"
        /\ attempts'[t] = attempts[t] + 1
        /\ held'[c] = t
        /\ attempt'[c] = attempts[t] + 1
        /\ \A u \in Tasks \ {t} : status'[u] = status[u] /\ attempts'[u] = attempts[u]
        /\ \A d \in Consumers \ {c} :
             phase'[d] = phase[d] /\ held'[d] = held[d] /\ attempt'[d] = attempt[d]
    BY <1>3 DEF Claim, NextAttempt, TypeOK
  <2>2. \A d \in Consumers \ {c} : held[d] = t => attempt[d] \in 1..attempts[t]
    BY DEF ThreadsOK, ClaimsDistinct
  <2>3. attempts[t] \in Nat /\ \A u \in Tasks : attempts[u] \in Nat
    BY DEF TypeOK
  <2>4. \A d \in Consumers : phase'[d] # "idle" =>
          /\ status'[held'[d]] # "free"
          /\ attempt'[d] \in 1..attempts'[held'[d]]
    <3>1. status'[held'[c]] # "free" /\ attempt'[c] \in 1..attempts'[held'[c]]
      BY <2>1, <2>3
    <3>2. \A d \in Consumers \ {c} : phase[d] # "idle" =>
            held[d] \in Tasks /\ status[held[d]] # "free" /\ attempt[d] \in 1..attempts[held[d]]
      BY DEF ThreadsOK, ClaimsDistinct
    <3> QED BY <2>1, <2>3, <3>1, <3>2
  <2>5. \A d \in Consumers \ {c} : held'[d] = t => attempt'[d] # attempt'[c]
    BY <2>1, <2>2, <2>3
  <2>6. \A d, e \in Consumers :
          /\ phase'[d] # "idle" /\ held'[d] = held'[e]
          /\ attempt'[d] = attempt'[e]
          => d = e
    BY <2>1, <2>5 DEF ClaimsDistinct
  <2> QED BY <2>4, <2>6 DEF ClaimsDistinct
<1>4. ASSUME NEW S, NEW s \in {"pending", "done", "dead"}, Unlock(S, s)
      PROVE  \A t \in Tasks : status'[t] = "free" => status[t] = "free"
  BY <1>4 DEF Unlock
<1>5. ASSUME NEW c \in Consumers, Handle(c)
      PROVE  ClaimsDistinct'
  <2>1. CASE Succeed(c)
    BY <1>2, <1>4, <2>1 DEF Succeed, CommitHandler
  <2>2. CASE SucceedUnacknowledged(c)
    BY <1>1, <1>4, <2>2 DEF SucceedUnacknowledged, CommitHandler, TypeOK
  <2>3. ASSUME NEW r, Raise(c, r)
        PROVE  ClaimsDistinct'
    BY <1>1, <2>3 DEF Raise, row, TypeOK
  <2> QED BY <1>5, <2>1, <2>2, <2>3 DEF Handle
<1>6. ASSUME NEW c \in Consumers, Fail(c)
      PROVE  ClaimsDistinct'
  BY <1>2, <1>4, <1>6 DEF Fail, FailDead, FailRetry, FailRefused, FailLost, row
<1>7. ASSUME NEW p \in Processes, Crash(p)
      PROVE  ClaimsDistinct'
  BY <1>2, <1>7 DEF Crash, row
<1>8. ASSUME NEW t \in Tasks, NEW k, NEW p, NEW d, Enqueue(t, k, p, d)
      PROVE  ClaimsDistinct'
  BY <1>1, <1>8 DEF Enqueue, thread, TypeOK
<1>9. CASE ReapStale
  BY <1>1, <1>4, <1>9 DEF ReapStale, thread
<1>10. CASE Tick \/ UNCHANGED vars
  BY <1>1, <1>10 DEF Tick, vars, row, thread
<1> QED BY <1>3, <1>5, <1>6, <1>7, <1>8, <1>9, <1>10 DEF Next

LEMMA DeadStep ==
  TypeOK /\ ThreadsOK /\ ClaimsDistinct /\ DeadExhausted /\ [Next]_vars => DeadExhausted'
<1> SUFFICES ASSUME TypeOK, ThreadsOK, ClaimsDistinct, DeadExhausted, [Next]_vars
             PROVE  DeadExhausted'
  OBVIOUS
<1> USE PolicyAssumption
<1>1. ASSUME UNCHANGED attempts, \A t \in Tasks : status'[t] = "dead" => status[t] = "dead"
      PROVE  DeadExhausted'
  BY <1>1 DEF DeadExhausted
<1>2. ASSUME NEW S, NEW s \in {"pending", "done"}, Unlock(S, s), UNCHANGED attempts
      PROVE  DeadExhausted'
  BY <1>1, <1>2 DEF Unlock
<1>3. ASSUME NEW c \in Consumers, NEW t \in Tasks, Claim(c, t)
      PROVE  DeadExhausted'
  BY <1>3 DEF Claim, NextAttempt, TypeOK, DeadExhausted
<1>4. ASSUME NEW c \in Consumers, FailDead(c)
      PROVE  DeadExhausted'
  <2>1. attempt[c] >= MaxAttempts \/ attempt[c] > Len(Backoff)
    <3>1. attempt[c] \in Nat /\ attempt[c] > 0
      BY <1>4 DEF FailDead, ThreadsOK, TypeOK
    <3>2. RetryDelay(c) = NoDelay => attempt[c] \notin 1..Len(Backoff)
      BY DelayType
    <3> QED BY <1>4, <3>1, <3>2 DEF FailDead, DeadLetters
  <2>2. held[c] \in Tasks /\ attempt[c] \in 1..attempts[held[c]]
    BY <1>4 DEF FailDead, ThreadsOK, ClaimsDistinct
  <2>3. attempts[held[c]] >= MaxAttempts \/ attempts[held[c]] > Len(Backoff)
    BY <2>1, <2>2 DEF TypeOK
  <2>4. /\ UNCHANGED attempts
        /\ \A t \in Tasks : status'[t] = "dead" => status[t] = "dead" \/ t = held[c]
    BY <1>4 DEF FailDead, Unlock
  <2> QED BY <2>3, <2>4 DEF DeadExhausted
<1>5. ASSUME NEW c \in Consumers, Handle(c) \/ Fail(c)
      PROVE  DeadExhausted'
  BY <1>1, <1>2, <1>4, <1>5
  DEF Handle, Fail, Succeed, SucceedUnacknowledged, CommitHandler, Raise,
      FailRetry, FailRefused, FailLost, row
<1>6. ASSUME NEW t \in Tasks, NEW k, NEW p, NEW d, Enqueue(t, k, p, d)
      PROVE  DeadExhausted'
  BY <1>1, <1>6 DEF Enqueue, TypeOK
<1>7. CASE ReapStale
  BY <1>2, <1>7 DEF ReapStale
<1>8. ASSUME Tick \/ (\E p \in Processes : Crash(p)) \/ UNCHANGED vars
      PROVE  DeadExhausted'
  BY <1>1, <1>8 DEF Tick, Crash, vars, row
<1> QED BY <1>3, <1>5, <1>6, <1>7, <1>8 DEF Next

-----------------------------------------------------------------------------
(* While no consumer has strayed *)

\* Each step that leaves strays at 0 started there, and Tick outlived nobody.
LEMMA StraysStep ==
  ASSUME TypeOK, [Next]_vars, strays' = 0
  PROVE  /\ strays = 0
         /\ Tick => Outlived = {}
         /\ \A c \in Consumers : ~SucceedUnacknowledged(c)
<1>1. strays \in Nat
  BY PolicyAssumption DEF TypeOK
<1>2. CASE Tick
  <2>1. strays = 0 /\ Cardinality(Outlived) = 0
    BY <1>1, <1>2, OutlivedType DEF Tick
  <2>2. \A c \in Consumers : ~SucceedUnacknowledged(c)
    BY <1>1 DEF SucceedUnacknowledged
  <2> QED BY <2>1, <2>2, OutlivedType
<1>3. CASE ~Tick
  <2>1. \A c \in Consumers : ~SucceedUnacknowledged(c)
    BY <1>1 DEF SucceedUnacknowledged
  <2>2. strays = 0
    BY <1>1, <1>3, <2>1
    DEF Next, Enqueue, Claim, Handle, Succeed, CommitHandler, Raise, Fail, FailDead,
        FailRetry, FailRefused, FailLost, ReapStale, Crash, vars
  <2> QED BY <1>3, <2>1, <2>2
<1> QED BY <1>2, <1>3

LEMMA OwnsStep ==
  TypeOK /\ ThreadsOK /\ LockFields /\ ClaimsDistinct /\ OwnsRow /\ [Next]_vars => OwnsRow'
<1> SUFFICES ASSUME TypeOK, ThreadsOK, LockFields, ClaimsDistinct, OwnsRow, [Next]_vars,
                    strays' = 0
             PROVE  Owned'
  BY DEF OwnsRow
<1> USE SetsAssumption, PolicyAssumption
<1>1. /\ strays = 0
      /\ Tick => Outlived = {}
      /\ \A c \in Consumers : ~SucceedUnacknowledged(c)
  BY StraysStep
<1>2. \A c \in Consumers : phase[c] # "idle" =>
        /\ held[c] \in Tasks
        /\ status[held[c]] = "running"
        /\ attempts[held[c]] = attempt[c]
        /\ by[held[c]] = Host[c]
        /\ age[held[c]] <= LockTimeout
  BY <1>1 DEF OwnsRow, Owned, HasClaim, ThreadsOK
<1>3. \A c, d \in Consumers : phase[c] # "idle" /\ phase[d] # "idle" /\ held[c] = held[d] => c = d
  BY <1>2 DEF ClaimsDistinct
<1>4. ASSUME NEW S, GoIdle(S), UNCHANGED attempts,
             \A c \in Consumers \ S : phase[c] # "idle" =>
               /\ status'[held[c]] = status[held[c]]
               /\ by'[held[c]] = by[held[c]]
               /\ age'[held[c]] = age[held[c]]
      PROVE  Owned'
  <2> SUFFICES ASSUME NEW c \in Consumers, phase'[c] # "idle"
               PROVE  /\ HasClaim(c, held[c])'
                      /\ by'[held'[c]] = Host[c]
                      /\ age'[held'[c]] <= LockTimeout
    BY DEF Owned
  <2>1. c \notin S /\ phase[c] # "idle" /\ held'[c] = held[c] /\ attempt'[c] = attempt[c]
    BY <1>4 DEF GoIdle
  <2> QED BY <1>2, <1>4, <2>1 DEF Owned, HasClaim
<1>5. ASSUME NEW c \in Consumers, NEW t \in Tasks, Claim(c, t)
      PROVE  Owned'
  <2>1. /\ status'[t] = "running" /\ attempts'[t] = attempts[t] + 1
        /\ age'[t] = 0 /\ by'[t] = Host[c]
        /\ held'[c] = t /\ attempt'[c] = attempts[t] + 1
    BY <1>5 DEF Claim, NextAttempt, TypeOK
  <2>2. \A d \in Consumers \ {c} : phase'[d] # "idle" =>
          /\ phase[d] # "idle" /\ held'[d] = held[d] /\ attempt'[d] = attempt[d]
          /\ held[d] # t
    BY <1>2, <1>5 DEF Claim, NextAttempt, Runnable, TypeOK
  <2>3. \A u \in Tasks \ {t} : /\ status'[u] = status[u] /\ attempts'[u] = attempts[u]
                              /\ age'[u] = age[u] /\ by'[u] = by[u]
    BY <1>5 DEF Claim, NextAttempt, TypeOK
  <2> QED BY <1>2, <2>1, <2>2, <2>3 DEF Owned, HasClaim
\* A step that gives up c's own row disturbs no other consumer.
<1>6. ASSUME NEW c \in Consumers, phase[c] # "idle", NEW s, Unlock({held[c]}, s),
             GoIdle({c}), UNCHANGED attempts
      PROVE  Owned'
  <2>1. \A d \in Consumers \ {c} : phase[d] # "idle" =>
          /\ status'[held[d]] = status[held[d]]
          /\ by'[held[d]] = by[held[d]]
          /\ age'[held[d]] = age[held[d]]
    BY <1>2, <1>3, <1>6 DEF Unlock
  <2> QED BY <1>4, <1>6, <2>1
\* A step that touches no lock, attempt or hold.
<1>7. ASSUME UNCHANGED <<status, attempts, by, age, held, attempt>>,
             \A c \in Consumers : phase'[c] # "idle" => phase[c] # "idle"
      PROVE  Owned'
  BY <1>2, <1>7 DEF Owned, HasClaim
<1>8. ASSUME NEW c \in Consumers, Handle(c)
      PROVE  Owned'
  <2>1. CASE Succeed(c)
    BY <1>6, <2>1 DEF Succeed, CommitHandler
  <2>2. ASSUME NEW r, Raise(c, r)
        PROVE  Owned'
    BY <1>7, <2>2 DEF Raise, row, TypeOK
  <2> QED BY <1>1, <1>8, <2>1, <2>2 DEF Handle
<1>9. ASSUME NEW c \in Consumers, Fail(c)
      PROVE  Owned'
  <2>1. CASE FailDead(c)
    BY <1>6, <2>1 DEF FailDead
  <2>2. CASE FailRetry(c)
    BY <1>6, <2>2 DEF FailRetry
  <2>3. CASE FailRefused(c) \/ FailLost(c)
    BY <1>4, <2>3 DEF FailRefused, FailLost, row
  <2> QED BY <1>9, <2>1, <2>2, <2>3 DEF Fail
<1>10. ASSUME NEW p \in Processes, Crash(p)
       PROVE  Owned'
  BY <1>4, <1>10 DEF Crash, row
<1>11. ASSUME NEW t \in Tasks, NEW k, NEW p, NEW d, Enqueue(t, k, p, d)
       PROVE  Owned'
  BY <1>2, <1>11 DEF Enqueue, thread, TypeOK, Owned, HasClaim
\* reap_stale() spares the rows consumers work on: their locks are not stale.
<1>12. ASSUME ReapStale
       PROVE  Owned'
  <2>1. \A e \in Consumers : phase[e] # "idle" => held[e] \in Tasks /\ ~Stale(held[e])
    BY <1>2 DEF Stale, TypeOK
  <2> QED BY <1>2, <1>12, <2>1 DEF ReapStale, Unlock, thread, Owned, HasClaim
<1>13. ASSUME Tick
       PROVE  Owned'
  <2>1. \A e \in Consumers : phase[e] # "idle" => age[held[e]] # LockTimeout
    BY <1>1, <1>2, <1>13 DEF Outlived, HasClaim
  <2>2. \A e \in Consumers : phase[e] # "idle" => age'[held[e]] <= LockTimeout
    BY <1>2, <1>13, <2>1 DEF Tick, TypeOK
  <2> QED BY <1>2, <1>13, <2>2 DEF Tick, thread, Owned, HasClaim
<1>14. CASE UNCHANGED vars
  BY <1>7, <1>14 DEF vars, row, thread
<1> QED
  BY <1>5, <1>8, <1>9, <1>10, <1>11, <1>12, <1>13, <1>14 DEF Next

LEMMA EffectStep ==
  TypeOK /\ ThreadsOK /\ OwnsRow /\ EffectOnce /\ [Next]_vars => EffectOnce'
<1> SUFFICES ASSUME TypeOK, ThreadsOK, OwnsRow, EffectOnce, [Next]_vars, strays' = 0
             PROVE  \A t \in Tasks : effects'[t] = IF status'[t] = "done" THEN 1 ELSE 0
  BY DEF EffectOnce
<1>1. /\ Owned
      /\ \A c \in Consumers : ~SucceedUnacknowledged(c)
      /\ \A t \in Tasks : effects[t] = IF status[t] = "done" THEN 1 ELSE 0
  BY StraysStep DEF OwnsRow, EffectOnce
<1>2. \A c \in Consumers : phase[c] # "idle" => held[c] \in Tasks /\ status[held[c]] = "running"
  BY <1>1 DEF Owned, HasClaim, ThreadsOK
<1>3. ASSUME UNCHANGED effects, \A t \in Tasks : status'[t] = "done" <=> status[t] = "done"
      PROVE  \A t \in Tasks : effects'[t] = IF status'[t] = "done" THEN 1 ELSE 0
  BY <1>1, <1>3
<1>4. ASSUME NEW c \in Consumers, NEW t \in Tasks, Claim(c, t)
      PROVE  \A u \in Tasks : status'[u] = "done" <=> status[u] = "done"
  BY <1>4 DEF Claim, NextAttempt, Runnable, TypeOK
<1>5. ASSUME NEW c \in Consumers, Succeed(c)
      PROVE  \A t \in Tasks : effects'[t] = IF status'[t] = "done" THEN 1 ELSE 0
  <2>1. held[c] \in Tasks /\ effects[held[c]] = 0
    BY <1>1, <1>2, <1>5 DEF Succeed, CommitHandler
  <2>2. effects' = [effects EXCEPT ![held[c]] = @ + 1]
    BY <1>5 DEF Succeed, CommitHandler
  <2>3. effects'[held[c]] = 1 /\ \A t \in Tasks \ {held[c]} : effects'[t] = effects[t]
    BY <2>1, <2>2 DEF TypeOK
  <2>4. status'[held[c]] = "done" /\ \A t \in Tasks \ {held[c]} : status'[t] = status[t]
    BY <1>5, <2>1 DEF Succeed, CommitHandler, Unlock
  <2> QED BY <1>1, <2>3, <2>4
<1>6. ASSUME NEW c \in Consumers, Fail(c)
      PROVE  UNCHANGED effects /\ \A t \in Tasks : status'[t] = "done" <=> status[t] = "done"
  <2>1. ASSUME NEW s \in {"pending", "dead"}, phase[c] # "idle", Unlock({held[c]}, s)
        PROVE  \A t \in Tasks : status'[t] = "done" <=> status[t] = "done"
    BY <1>2, <2>1 DEF Unlock
  <2> QED BY <1>6, <2>1 DEF Fail, FailDead, FailRetry, FailRefused, FailLost, row
<1>7. ASSUME ReapStale
      PROVE  \A t \in Tasks : status'[t] = "done" <=> status[t] = "done"
  BY <1>7 DEF ReapStale, Unlock, Stale
<1>8. ASSUME NEW t \in Tasks, NEW k, NEW p, NEW d, Enqueue(t, k, p, d)
      PROVE  \A u \in Tasks : status'[u] = "done" <=> status[u] = "done"
  BY <1>8 DEF Enqueue, TypeOK
<1>9. CASE \E t \in Tasks, k \in Keys \cup {NoKey}, p \in Priorities, d \in Delays :
             Enqueue(t, k, p, d)
  BY <1>3, <1>8, <1>9 DEF Enqueue
<1>10. CASE \E c \in Consumers, t \in Tasks : Claim(c, t)
  BY <1>3, <1>4, <1>10 DEF Claim
<1>11. CASE \E c \in Consumers : Handle(c)
  BY <1>1, <1>3, <1>5, <1>11 DEF Handle, Raise, row
<1>12. CASE \E c \in Consumers : Fail(c)
  BY <1>3, <1>6, <1>12
<1>13. CASE ReapStale
  BY <1>3, <1>7, <1>13 DEF ReapStale
<1>14. CASE Tick \/ (\E p \in Processes : Crash(p)) \/ UNCHANGED vars
  BY <1>3, <1>14 DEF Tick, Crash, vars, row
<1> QED BY <1>9, <1>10, <1>11, <1>12, <1>13, <1>14 DEF Next

-----------------------------------------------------------------------------
(* Safety under any faults and strays *)

\* The inductive invariant.  ThreadsOK ties a working thread to a row; OwnsRow
\* needs it and ClaimsDistinct to know that no other thread works on that row,
\* and LockFields to know that a tick cannot pass the timeout unnoticed.
Safety ==
  /\ TypeOK /\ ThreadsOK /\ LockFields /\ DedupUnique /\ ClaimsDistinct /\ DeadExhausted
  /\ OwnsRow /\ EffectOnce

LEMMA SafetyInit == Init => Safety
<1>1. Init => ThreadsOK /\ LockFields /\ DedupUnique /\ ClaimsDistinct /\ DeadExhausted
  BY DEF Init, ThreadsOK, LockFields, DedupUnique, ClaimsDistinct, DeadExhausted, IsLive
<1>2. Init => OwnsRow /\ EffectOnce
  BY DEF Init, OwnsRow, Owned, EffectOnce
<1> QED BY <1>1, <1>2, TypeInit DEF Safety

LEMMA SafetyStep == Safety /\ [Next]_vars => Safety'
BY TypeStep, ThreadsStep, LockStep, DedupStep, ClaimsStep, DeadStep, OwnsStep, EffectStep
DEF Safety

LEMMA SafetyHolds == Spec => []Safety
BY SafetyInit, SafetyStep, PTL DEF Spec

\* At most one pending or running row per dedup key, although complete(), fail()
\* and reap_stale() update rows that other consumers work on.
THEOREM OneLiveRowPerKey == Spec => []DedupUnique
<1>1. Safety => DedupUnique
  BY DEF Safety
<1> QED BY <1>1, SafetyHolds, PTL

\* No two consumers ever hold the same attempt of the same row, whatever crashes,
\* reaping and late fail() calls come between the claim and its end.
THEOREM NoSharedClaim == Spec => []ClaimsDistinct
<1>1. Safety => ClaimsDistinct
  BY DEF Safety
<1> QED BY <1>1, SafetyHolds, PTL

\* A dead-lettered row has used up its schedule or max_attempts.
THEOREM NoEarlyDeadLetter == Spec => []DeadExhausted
<1>1. Safety => DeadExhausted
  BY DEF Safety
<1> QED BY <1>1, SafetyHolds, PTL

\* As long as no handler outlives its lock and no commit reply is lost, the
\* consumer at work owns its row: no reaper, crash or failure elsewhere takes it.
THEOREM OwnershipKept == Spec => []OwnsRow
<1>1. Safety => OwnsRow
  BY DEF Safety
<1> QED BY <1>1, SafetyHolds, PTL

\* Under the same condition a handler's effects are committed exactly once for a
\* done task and never for any other.
THEOREM EffectsCommitOnce == Spec => []EffectOnce
<1>1. Safety => EffectOnce
  BY DEF Safety
<1> QED BY <1>1, SafetyHolds, PTL

-----------------------------------------------------------------------------
(* Attempts beyond max_attempts *)

\* A row that may be claimed yet, at once or after the reaper has had it.
Open(t) ==
  status[t] \in {"free", "pending", "running"} /\ \A c \in Consumers : held[c] # t

\* Such a row still has an attempt left: of max_attempts, or of one that a fault took.
AttemptLeft ==
  strays = 0 => \A t \in Tasks : /\ attempts[t] <= MaxAttempts + faults
                                 /\ Open(t) => attempts[t] < MaxAttempts + faults

LEMMA AttemptStep == Safety /\ AttemptLeft /\ [Next]_vars => AttemptLeft'
<1> SUFFICES ASSUME Safety, AttemptLeft, [Next]_vars, strays' = 0
             PROVE  \A t \in Tasks : /\ attempts'[t] <= MaxAttempts + faults'
                                     /\ Open(t)' => attempts'[t] < MaxAttempts + faults'
  BY DEF AttemptLeft
<1>1. /\ TypeOK
      /\ \A t \in Tasks : attempts[t] \in Nat
      /\ MaxAttempts \in Nat /\ faults \in Nat
  BY PolicyAssumption DEF Safety, TypeOK
<1>2. /\ strays = 0
      /\ \A c \in Consumers : ~SucceedUnacknowledged(c)
  BY <1>1, StraysStep
<1>3. \A t \in Tasks : /\ attempts[t] <= MaxAttempts + faults
                       /\ Open(t) => attempts[t] < MaxAttempts + faults
  BY <1>2 DEF AttemptLeft
\* The consumer at work owns its row, so that the row is not open.
<1>4. \A c \in Consumers : held[c] \in Tasks =>
        /\ phase[c] # "idle"
        /\ status[held[c]] = "running" /\ attempts[held[c]] = attempt[c]
        /\ age[held[c]] <= LockTimeout
  <2>1. \A c \in Consumers : held[c] \in Tasks => phase[c] # "idle"
    BY SetsAssumption DEF Safety, ThreadsOK
  <2> QED BY <1>2, <2>1 DEF Safety, OwnsRow, Owned, HasClaim
<1>5. \A c \in Consumers : phase[c] # "idle" => held[c] \in Tasks
  BY DEF Safety, ThreadsOK
\* A step that opens no row,
<1>6. ASSUME UNCHANGED <<attempts, faults>>, \A t \in Tasks : Open(t)' => Open(t)
      PROVE  \A t \in Tasks : /\ attempts'[t] <= MaxAttempts + faults'
                              /\ Open(t)' => attempts'[t] < MaxAttempts + faults'
  BY <1>3, <1>6
\* and a fault, which pays for all that it opens.
<1>7. ASSUME UNCHANGED attempts, faults' = faults + 1
      PROVE  \A t \in Tasks : /\ attempts'[t] <= MaxAttempts + faults'
                              /\ Open(t)' => attempts'[t] < MaxAttempts + faults'
  BY <1>1, <1>3, <1>7
<1>8. ASSUME NEW t \in Tasks, NEW k, NEW p, NEW d, Enqueue(t, k, p, d)
      PROVE  UNCHANGED <<attempts, faults>> /\ \A u \in Tasks : Open(u)' => Open(u)
  BY <1>1, <1>8 DEF Enqueue, thread, TypeOK, Open
<1>9. ASSUME NEW c \in Consumers, NEW t \in Tasks, Claim(c, t)
      PROVE  \A u \in Tasks : /\ attempts'[u] <= MaxAttempts + faults'
                              /\ Open(u)' => attempts'[u] < MaxAttempts + faults'
  <2>1. /\ attempts'[t] = attempts[t] + 1 /\ held'[c] = t /\ UNCHANGED faults
        /\ status[t] = "pending" /\ held[c] \notin Tasks
        /\ \A u \in Tasks \ {t} : attempts'[u] = attempts[u] /\ status'[u] = status[u]
        /\ \A d \in Consumers \ {c} : held'[d] = held[d]
    BY <1>1, <1>4, <1>9 DEF Claim, NextAttempt, Runnable, TypeOK
  <2>2. Open(t) /\ ~Open(t)'
    BY <1>4, <2>1 DEF Open
  <2>3. \A u \in Tasks \ {t} : Open(u)' => Open(u)
    BY <2>1 DEF Open
  <2> QED BY <1>1, <1>3, <2>1, <2>2, <2>3
\* A consumer that lets go of its row and settles it.
<1>10. ASSUME NEW c \in Consumers, phase[c] # "idle", NEW s \in {"done", "dead"},
              Unlock({held[c]}, s), GoIdle({c})
       PROVE  \A t \in Tasks : Open(t)' => Open(t)
  BY <1>10 DEF Unlock, GoIdle, Open
<1>11. ASSUME NEW c \in Consumers, FailRetry(c)
       PROVE  \A t \in Tasks : /\ attempts'[t] <= MaxAttempts + faults'
                               /\ Open(t)' => attempts'[t] < MaxAttempts + faults'
  <2>1. held[c] \in Tasks /\ attempts[held[c]] = attempt[c] /\ attempt[c] \in Nat
    BY <1>1, <1>4, <1>5, <1>11 DEF FailRetry, TypeOK
  <2>2. attempts[held[c]] < MaxAttempts
    BY <1>1, <1>11, <2>1 DEF FailRetry, DeadLetters
  <2>3. \A t \in Tasks \ {held[c]} : Open(t)' => Open(t)
    BY <1>11 DEF FailRetry, Unlock, GoIdle, Open
  <2>4. UNCHANGED <<attempts, faults>>
    BY <1>11 DEF FailRetry
  <2> QED BY <1>1, <1>3, <2>2, <2>3, <2>4
<1>12. ASSUME NEW c \in Consumers
       PROVE  ~FailRefused(c)
  BY <1>4, <1>5 DEF FailRefused, RetryRefused, IsLive
<1>13. ASSUME ReapStale
       PROVE  \A t \in Tasks : Open(t)' => Open(t)
  <2>1. \A t \in Tasks : Stale(t) => status[t] = "running" /\ \A c \in Consumers : held[c] # t
    BY <1>1, <1>4, PolicyAssumption DEF Stale, TypeOK
  <2> QED BY <1>13, <2>1 DEF ReapStale, Unlock, thread, Open
<1>14. ASSUME UNCHANGED <<status, held>>
       PROVE  \A t \in Tasks : Open(t)' => Open(t)
  BY <1>14 DEF Open
<1>15. CASE \E c \in Consumers : Handle(c)
  BY <1>2, <1>6, <1>10, <1>14, <1>15 DEF Handle, Succeed, CommitHandler, Raise, row
<1>16. CASE \E c \in Consumers : Fail(c)
  BY <1>6, <1>7, <1>10, <1>11, <1>12, <1>16 DEF Fail, FailDead, FailLost, row
<1>17. CASE \E t \in Tasks, k \in Keys \cup {NoKey}, p \in Priorities, d \in Delays :
              Enqueue(t, k, p, d)
  BY <1>6, <1>8, <1>17
<1>18. CASE ReapStale
  BY <1>6, <1>13, <1>18 DEF ReapStale
<1>19. CASE \E p \in Processes : Crash(p)
  BY <1>7, <1>19 DEF Crash, row
<1>20. CASE Tick \/ UNCHANGED vars
  BY <1>6, <1>14, <1>20 DEF Tick, vars, row, thread
<1> QED BY <1>9, <1>15, <1>16, <1>17, <1>18, <1>19, <1>20 DEF Next

\* As long as no handler outlives its lock and no commit reply is lost, a row is
\* attempted at most max_attempts times and once more for each crash or lost fail():
\* a crash that kills several consumers takes one attempt of each of their rows.
THEOREM PoisonLimited == Spec => []PoisonBound
<1>1. Init => AttemptLeft
  BY PolicyAssumption DEF Init, AttemptLeft
<1>2. Safety /\ [Next]_vars /\ AttemptLeft => AttemptLeft'
  BY AttemptStep
<1>3. AttemptLeft => PoisonBound
  BY DEF AttemptLeft, PoisonBound
<1> QED BY <1>1, <1>2, <1>3, SafetyHolds, PTL DEF Spec

-----------------------------------------------------------------------------
(* Refinement *)

LEMMA LedgerStep ==
  ASSUME Safety, [Next]_vars, strays' = 0
  PROVE  [Ledger!Next]_(Ledger!ledger)
<1> USE DEF Ledger!Next, Ledger!ledger, Ledger!Move
<1>1. /\ Owned
      /\ \A c \in Consumers : ~SucceedUnacknowledged(c)
      /\ \A t \in Tasks : effects[t] = IF status[t] = "done" THEN 1 ELSE 0
  <2>1. strays = 0
    BY StraysStep DEF Safety
  <2> QED BY <2>1 DEF Safety, OwnsRow, EffectOnce, SucceedUnacknowledged
<1>2. \A c \in Consumers : phase[c] # "idle" => held[c] \in Tasks /\ status[held[c]] = "running"
  BY <1>1 DEF Safety, Owned, HasClaim, ThreadsOK
<1>3. DOMAIN status = Tasks /\ DOMAIN effects = Tasks /\ status = [t \in Tasks |-> status[t]]
  BY DEF Safety, TypeOK
<1>4. ASSUME NEW t \in Tasks, NEW k, NEW p, NEW d, Enqueue(t, k, p, d)
      PROVE  Ledger!Submit(t)
  BY <1>4 DEF Enqueue, Ledger!Submit
<1>5. ASSUME NEW c \in Consumers, NEW t \in Tasks, Claim(c, t)
      PROVE  Ledger!Start(t)
  BY <1>5 DEF Claim, NextAttempt, Runnable, Ledger!Start
<1>6. ASSUME NEW t \in Tasks, NEW s, Unlock({t}, s)
      PROVE  status' = [status EXCEPT ![t] = s]
  BY <1>3, <1>6 DEF Unlock
<1>7. ASSUME NEW c \in Consumers, Succeed(c)
      PROVE  Ledger!Finish(held[c]) /\ held[c] \in Tasks
  <2>1. held[c] \in Tasks /\ status[held[c]] = "running" /\ effects[held[c]] = 0
    BY <1>1, <1>2, <1>7 DEF Succeed, CommitHandler
  <2>2. status' = [status EXCEPT ![held[c]] = "done"]
    BY <1>6, <1>7, <2>1 DEF Succeed, CommitHandler
  <2>3. effects' = [effects EXCEPT ![held[c]] = 1]
    BY <1>7, <2>1 DEF Succeed, CommitHandler
  <2> QED BY <2>1, <2>2, <2>3 DEF Ledger!Finish
<1>8. ASSUME NEW c \in Consumers, FailDead(c)
      PROVE  Ledger!GiveUp(held[c]) /\ held[c] \in Tasks
  <2>1. held[c] \in Tasks /\ status[held[c]] = "running"
    BY <1>2, <1>8 DEF FailDead
  <2> QED BY <1>6, <1>8, <2>1 DEF FailDead, Ledger!GiveUp
<1>9. ASSUME NEW S \in SUBSET {t \in Tasks : status[t] = "running"}, Unlock(S, "pending"),
             UNCHANGED effects
      PROVE  Ledger!Return
  BY <1>9 DEF Unlock, Ledger!Return
<1>10. ASSUME NEW c \in Consumers, FailRetry(c)
       PROVE  Ledger!Return
  <2>1. {held[c]} \in SUBSET {t \in Tasks : status[t] = "running"}
    BY <1>2, <1>10 DEF FailRetry
  <2> QED BY <1>9, <1>10, <2>1 DEF FailRetry
<1>11. CASE ReapStale
  <2>1. {t \in Tasks : Stale(t)} \in SUBSET {t \in Tasks : status[t] = "running"}
    BY DEF Stale
  <2> QED BY <1>9, <1>11, <2>1 DEF ReapStale
<1>12. CASE \E c \in Consumers : Handle(c)
  BY <1>1, <1>7, <1>12 DEF Handle, Raise, row
<1>13. CASE \E c \in Consumers : Fail(c)
  BY <1>8, <1>10, <1>13 DEF Fail, FailRefused, FailLost, row
<1>14. CASE Tick \/ (\E p \in Processes : Crash(p)) \/ UNCHANGED vars
  BY <1>14 DEF Tick, Crash, vars, row
<1> QED BY <1>4, <1>5, <1>11, <1>12, <1>13, <1>14 DEF Next

\* Until a handler outlives its lock or loses the acknowledgement of its commit, the
\* queue implements a ledger on which every task finishes at most once and stays
\* settled, whatever crashes, failures, retries and reaping happen.
THEOREM QueueIsLedger == Spec => LedgerSafe
<1>1. Init => Ledger!Init
  BY DEF Init, Ledger!Init
<1>2. Safety /\ [Next]_vars => [strays' = 0 => Ledger!Next]_(Ledger!ledger)
  BY LedgerStep
<1> QED BY <1>1, <1>2, SafetyHolds, PTL DEF Spec, LedgerSafe, Ledger!Safe
=============================================================================
