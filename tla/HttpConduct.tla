---------------------------- MODULE HttpConduct ----------------------------
(***************************************************************************)
(* The polite HTTP client (adapters/http.py): worker threads that share one *)
(* client, its requests-per-minute budgets, its per-host interval, the      *)
(* retries of one call, and the cache of robots.txt.  A thread advances one *)
(* step at a time, the clock between any two, so a thread may be late for   *)
(* everything it waits for.                                                 *)
(***************************************************************************)
EXTENDS Integers, Sequences, SequencesExt, FiniteSets

CONSTANTS
  Threads, Hosts, Budgets,
  Interval,     \* seconds between two turns of a host
  Window, Rpm,  \* at most Rpm requests of a budget in a Window
  Retries,
  MaxWait,      \* the longest Retry-After waited out
  Patience,     \* the longest a hurried call waits
  EndOfTime,    \* bound: the clock
  MaxTurns      \* bound: requests sent

\* A budget of no requests a minute is not kept at all, and is left out.
ASSUME HttpAssumption ==
  /\ Interval \in Nat /\ Window \in Nat /\ MaxWait \in Nat
  /\ Rpm \in Nat \ {0} /\ Retries \in Nat \ {0}
  /\ IsFiniteSet(Threads) /\ "nobody" \notin Threads

VARIABLES now, thread, holder, lastTurn, granted, robots, turns

httpVars == <<now, thread, holder, lastTurn, granted, robots, turns>>

Nobody == "nobody"
Idle == [pc |-> "idle"]
Done == [pc |-> "done"]

-----------------------------------------------------------------------------
(* A call.  `after` is when the source asked to be left alone until. *)

Begin(t, host, budget, purpose, hurried) ==
  thread' = [thread EXCEPT ![t] =
    [pc |-> "budget", host |-> host, budget |-> budget, purpose |-> purpose,
     hurried |-> hurried, attempt |-> 1, backoff |-> 1, until |-> now, granted |-> now,
     after |-> now]]

\* An adapter, or a language model's provider in a hurry, sends a request.
Request(t, host, budget) ==
  /\ thread[t] = Idle
  /\ \E hurried \in BOOLEAN : Begin(t, host, budget, "page", hurried)
  /\ UNCHANGED <<now, holder, lastTurn, granted, robots, turns>>

\* RobotsCache.allowed(): the verifier asks before it fetches the page.  A verdict is
\* kept for 24 hours, longer than the clock of a behaviour runs.
Allowed(t, host, budget) ==
  /\ thread[t] = Idle
  /\ \/ robots[host] = "unknown" /\ Begin(t, host, budget, "robots", FALSE)
     \/ robots[host] = "allows" /\ Begin(t, host, budget, "page", FALSE)
  /\ UNCHANGED <<now, holder, lastTurn, granted, robots, turns>>

\* The times were appended in the order of the clock: those still in the window are the
\* end of the list.
Recent(budget) ==
  LET times == granted[budget]
      kept == {i \in DOMAIN times : now - times[i] < Window}
  IN  IF kept = {} THEN <<>> ELSE SubSeq(times, Min(kept), Len(times))

\* _consume_rpm(): count this request, or sleep until the oldest leaves the window.
ConsumeRpm(t) ==
  LET call == thread[t]
      recent == Recent(call.budget)
  IN  /\ call.pc = "budget" /\ now >= call.until
      /\ IF Len(recent) < Rpm
         THEN /\ granted' = [granted EXCEPT ![call.budget] = Append(recent, now)]
              /\ thread' = [thread EXCEPT ![t] = [call EXCEPT !.pc = "queue", !.granted = now]]
         ELSE /\ granted' = [granted EXCEPT ![call.budget] = recent]
              /\ thread' = [thread EXCEPT ![t] = [call EXCEPT !.until = recent[1] + Window]]
      /\ UNCHANGED <<now, holder, lastTurn, robots, turns>>

\* _HostThrottle.wait(): the host's lock is held through the sleep ...
EnterWait_Unlocked(t) ==
  LET call == thread[t] IN
  /\ call.pc = "queue" /\ UNCHANGED holder
  /\ thread' = [thread EXCEPT ![t] = [call EXCEPT !.pc = "waiting", !.until = lastTurn[call.host] + Interval]]
  /\ UNCHANGED <<now, lastTurn, granted, robots, turns>>

EnterWait(t) ==
  LET call == thread[t] IN
  /\ call.pc = "queue" /\ holder[call.host] = Nobody
  /\ holder' = [holder EXCEPT ![call.host] = t]
  /\ thread' = [thread EXCEPT ![t] = [call EXCEPT !.pc = "waiting", !.until = lastTurn[call.host] + Interval]]
  /\ UNCHANGED <<now, lastTurn, granted, robots, turns>>

\* ... and released with the turn; the request itself is made outside it.
LeaveWait(t) ==
  LET call == thread[t] IN
  /\ call.pc = "waiting" /\ now >= call.until /\ Len(turns) < MaxTurns
  /\ holder' = [holder EXCEPT ![call.host] = Nobody]
  /\ lastTurn' = [lastTurn EXCEPT ![call.host] = now]
  /\ thread' = [thread EXCEPT ![t] = [call EXCEPT !.pc = "sent", !.until = 0, !.granted = 0, !.after = 0]]
  /\ turns' = Append(turns, [at |-> now, host |-> call.host, budget |-> call.budget,
                             granted |-> call.granted,
                             attempt |-> call.attempt, after |-> call.after])
  /\ UNCHANGED <<now, granted, robots>>

Verdicts(outcome) ==
  CASE outcome = "absent" -> {"allows"}
    [] outcome = "answered" -> {"allows", "forbids"}
    [] OTHER -> {"forbids"}

\* _fetch(): a 404 allows everything, an unreachable file nothing.
EndCall(t, outcome) ==
  LET call == thread[t] IN
  /\ thread' = [thread EXCEPT ![t] = IF call.purpose = "robots" THEN Idle ELSE Done]
  /\ IF call.purpose = "robots"
     THEN \E verdict \in Verdicts(outcome) : robots' = [robots EXCEPT ![call.host] = verdict]
     ELSE UNCHANGED robots

\* Sleep and try again, giving up after the sleep when that was the last attempt.
BackOff(t, wait, asked) ==
  /\ thread' = [thread EXCEPT ![t] = [thread[t] EXCEPT !.pc = "backoff", !.until = now + wait,
                                                   !.backoff = 5 * @, !.after = asked]]
  /\ UNCHANGED robots

Answered(t) == \E outcome \in {"answered", "absent"} : EndCall(t, outcome)

TransportError(t) == BackOff(t, thread[t].backoff, now)

ServerError(t) ==
  IF thread[t].attempt = Retries THEN EndCall(t, "unavailable")
  ELSE BackOff(t, thread[t].backoff, now)

\* 429 or 503.  A Retry-After of zero is no reason to lose patience (`or`), but is
\* waited for as stated.
RateLimited(t) ==
  LET call == thread[t] IN
  \E asked \in {-1, 0, MaxWait + 1} :
    LET wait == IF asked = -1 THEN call.backoff ELSE asked
        weighed == IF asked <= 0 THEN call.backoff ELSE asked
    IN  IF (call.hurried /\ weighed > Patience) \/ call.attempt = Retries
        THEN EndCall(t, "limited")
        ELSE LET slept == IF wait > MaxWait THEN MaxWait ELSE wait IN BackOff(t, slept, now + slept)

Respond(t) ==
  /\ thread[t].pc = "sent"
  /\ Answered(t) \/ TransportError(t) \/ ServerError(t) \/ RateLimited(t)
  /\ UNCHANGED <<now, holder, lastTurn, granted, turns>>

Resume(t) ==
  LET call == thread[t] IN
  /\ call.pc = "backoff" /\ now >= call.until
  /\ IF call.attempt = Retries
     THEN EndCall(t, "unavailable")
     ELSE /\ thread' = [thread EXCEPT ![t] = [call EXCEPT !.pc = "budget", !.until = now, !.attempt = @ + 1]]
          /\ UNCHANGED robots
  /\ UNCHANGED <<now, holder, lastTurn, granted, turns>>

\* Threads are late only for what they sleep or wait on the network for.
Ready(t) ==
  \/ thread[t].pc = "budget" /\ now >= thread[t].until
  \/ thread[t].pc = "queue" /\ holder[thread[t].host] = Nobody

Pass ==
  /\ \A t \in Threads : ~Ready(t)
  /\ now < EndOfTime /\ now' = now + 1
  /\ UNCHANGED <<thread, holder, lastTurn, granted, robots, turns>>

-----------------------------------------------------------------------------

HttpInit ==
  /\ now = 0 /\ turns = <<>>
  /\ thread = [t \in Threads |-> Idle]
  /\ holder = [h \in Hosts |-> Nobody]
  /\ lastTurn = [h \in Hosts |-> -Interval]
  /\ granted = [b \in Budgets |-> <<>>]
  /\ robots = [h \in Hosts |-> "unknown"]

HttpNext ==
  \/ Pass
  \/ \E t \in Threads :
       \/ \E h \in Hosts, b \in Budgets : Request(t, h, b) \/ Allowed(t, h, b)
       \/ ConsumeRpm(t) \/ EnterWait(t) \/ LeaveWait(t) \/ Respond(t) \/ Resume(t)

-----------------------------------------------------------------------------

GrantedWith(budget, from) ==
  {i \in DOMAIN turns : turns[i].budget = budget /\ turns[i].granted - from \in 0..(Window - 1)}

\* Whatever the threads and however late they wake: two turns of a host are an interval
\* apart, no window holds more grants of a budget than its rate, no call is sent more
\* often than its retries, and a call is not sent again before the pause the source
\* asked of it, of which MaxWait is the most it gets (adapters/http.py's conduct rules).
Polite ==
  /\ \A i, j \in DOMAIN turns :
       i < j /\ turns[i].host = turns[j].host => turns[j].at - turns[i].at >= Interval
  /\ \A b \in Budgets :
       \A i \in DOMAIN turns : Cardinality(GrantedWith(b, turns[i].granted)) <= Rpm
  /\ \A i \in DOMAIN turns : turns[i].attempt <= Retries /\ turns[i].at >= turns[i].after
=============================================================================
