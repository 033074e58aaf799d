----------------------------- MODULE WorkLedger -----------------------------
(***************************************************************************)
(* What the task queue promises its producers as long as no consumer has   *)
(* outlived its claim: a task is worked on by one consumer at a time, its  *)
(* handler's transaction commits exactly once if the task ends done and    *)
(* never if it ends dead, and a settled task stays settled.  Threads,      *)
(* locks, clocks, backoff and crashes are all hidden: a crash is a task    *)
(* pending again.                                                          *)
(***************************************************************************)
EXTENDS Naturals

CONSTANT Tasks

VARIABLES
  state,    \* where each task stands
  applied,  \* how often its handler's transaction has committed
  strays    \* how many consumers have outlived a claim

ledger == <<state, applied>>

Init ==
  /\ state = [t \in Tasks |-> "free"]
  /\ applied = [t \in Tasks |-> 0]

Move(t, from, to) == state[t] = from /\ state' = [state EXCEPT ![t] = to]

Submit(t) == Move(t, "free", "pending") /\ UNCHANGED applied

Start(t) == Move(t, "pending", "running") /\ UNCHANGED applied

Finish(t) ==
  /\ Move(t, "running", "done")
  /\ applied[t] = 0
  /\ applied' = [applied EXCEPT ![t] = 1]

\* Any number of abandoned tasks return at once (one sweep of the reaper).
Return ==
  \E S \in SUBSET {t \in Tasks : state[t] = "running"} :
    /\ state' = [t \in Tasks |-> IF t \in S THEN "pending" ELSE state[t]]
    /\ UNCHANGED applied

GiveUp(t) == Move(t, "running", "dead") /\ UNCHANGED applied

Next ==
  \/ \E t \in Tasks : Submit(t) \/ Start(t) \/ Finish(t) \/ GiveUp(t)
  \/ Return

Settled(t) == state[t] \in {"done", "dead"}

\* Every submitted task is settled in the end, and stays so.
Settles == \A t \in Tasks : (state[t] # "free") ~> [](Settled(t))

\* The first stray consumer ends the promise.
Safe == Init /\ [][strays' = 0 => Next]_ledger
Spec == Safe /\ Settles
=============================================================================
