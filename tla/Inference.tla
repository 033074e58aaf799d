----------------------------- MODULE Inference -----------------------------
(***************************************************************************)
(* Asking a language model: the chain of providers and its cooldowns        *)
(* (adapters/llm/chain.py), each provider's pool of keys (keypool.py), how  *)
(* a provider reads its HTTP answer (groq.py, gemini.py, ollama.py), and    *)
(* the one repair of an answer that does not validate (base.py).  One       *)
(* process asks, one call after the other.                                  *)
(***************************************************************************)
EXTENDS Integers, Sequences, SequencesExt, FiniteSetsExt

CONSTANTS
  KeysOf,       \* by provider, its keys: {} for Ollama, which has none
  Cooldown, DefaultPark,
  LastMoment,   \* bound: the clock
  MaxUses       \* bound: requests made with keys

VARIABLES
  moment,
  chain,        \* the providers, in order
  parked, uses, \* by key: available_at, uses
  coolingUntil, \* by provider: _unavailable_until
  question,     \* the call under way: its attempt, what is still to be tried
  asked         \* what it has come to so far: [provider, key, freeAt, answer]

llmVars == <<moment, chain, parked, uses, coolingUntil, question, asked>>

Quiet == [pc |-> "quiet"]
Keys == UNION {KeysOf[p] : p \in DOMAIN KeysOf}
NoKey == 0

\* Each provider has a pool of its own, and the chain's providers are known.
ASSUME InferenceAssumption ==
  /\ {"groq", "gemini", "ollama"} \subseteq DOMAIN KeysOf
  /\ \A p \in DOMAIN KeysOf : KeysOf[p] \subseteq Nat \ {NoKey}
  /\ \A p, q \in DOMAIN KeysOf : p # q => KeysOf[p] \cap KeysOf[q] = {}
  /\ Cooldown \in Nat /\ DefaultPark \in Nat

-----------------------------------------------------------------------------

\* build_provider(): Groq when it has keys, then the configured fallbacks in their
\* order, Gemini only when it has keys.  A chain of none is refused.
Chains == {<<"groq">> \o fallbacks : fallbacks \in {<<>>, <<"gemini">>, <<"gemini", "ollama">>}}
            \cup {<<"ollama">>}

IsCoolingDown(p) == moment < coolingUntil[p]

Available(p) == {k \in KeysOf[p] : parked[k] <= moment}

\* acquire(): the least used, then the first.
Acquired(p) ==
  LET idle == Available(p)
      least == Min({uses[k] : k \in idle})
  IN  Min({k \in idle : uses[k] = least})

\* penalise(): as long as the provider asked, or the default.
Park(k, retryAfter) == [parked EXCEPT ![k] = moment + (IF retryAfter > 0 THEN retryAfter ELSE DefaultPark)]

\* How Groq and Gemini read what came back: a host that is unreachable and a refused
\* credential both make the provider unavailable, another 4xx or an unexpected body does not.
KeyedAnswers == {"content", "bad", "unavailable", "limited", "refused"}

\* Ollama is never rate limited, and its refusals are bad answers.
OllamaAnswers == {"content", "bad", "unavailable"}

Answers(p) == IF KeysOf[p] = {} THEN OllamaAnswers ELSE KeyedAnswers

\* One provider's chat(): an answer ends the question or hands over to the next.
Ask(p, answer) ==
  LET key == IF KeysOf[p] = {} THEN NoKey ELSE Acquired(p) IN
  /\ asked' = Append(asked, [provider |-> p, key |-> key, answer |-> answer,
                             freeAt |-> IF key = NoKey THEN 0 ELSE parked[key]])
  /\ uses' = IF key = NoKey THEN uses ELSE [uses EXCEPT ![key] = @ + 1]
  /\ IF answer = "limited" THEN \E retryAfter \in {0, 1} : parked' = Park(key, retryAfter)
     ELSE UNCHANGED parked
  /\ coolingUntil' = IF answer \in {"unavailable", "refused"}
                     THEN [coolingUntil EXCEPT ![p] = moment + Cooldown] ELSE coolingUntil

\* No request: the provider is skipped, or rate limited for want of a key.
Note(p, answer) ==
  /\ asked' = Append(asked, [provider |-> p, key |-> NoKey, answer |-> answer, freeAt |-> 0])
  /\ UNCHANGED <<parked, uses, coolingUntil>>

Errors == {i \in DOMAIN asked : asked[i].answer # "skipped"}

\* Skip a cooling provider while another is left, or one has already failed.
Skips_Always(p) == IsCoolingDown(p)
Skips(p) == IsCoolingDown(p) /\ (Len(question.left) > 1 \/ Errors # {})

TryNext ==
  /\ question.pc = "asking" /\ question.left # <<>>
  /\ LET p == question.left[1]
         handOver == question' = [question EXCEPT !.left = Tail(@)]
     IN  \/ Skips(p) /\ Note(p, "skipped") /\ handOver
         \/ /\ ~Skips(p) /\ KeysOf[p] # {} /\ Available(p) = {}
            /\ Note(p, "parked") /\ handOver
         \/ /\ ~Skips(p) /\ (KeysOf[p] = {} \/ Available(p) # {})
            /\ \E answer \in Answers(p) :
                 /\ Ask(p, answer)
                 /\ IF answer = "content" THEN question' = [question EXCEPT !.pc = "parsing"] ELSE handOver
  /\ UNCHANGED <<moment, chain>>

\* complete_schema(): parse, or repair once from the head of the chain, or give up.
Parse(valid) ==
  /\ question.pc = "parsing"
  /\ question' = IF valid \/ question.attempt = 2
                 THEN [question EXCEPT !.pc = IF valid THEN "answered" ELSE "violation"]
                 ELSE [pc |-> "asking", attempt |-> 2, left |-> chain]
  /\ asked' = IF question'.pc = "asking" THEN <<>> ELSE asked
  /\ UNCHANGED <<moment, chain, parked, uses, coolingUntil>>

\* Every provider failed.
Exhausted ==
  /\ question.pc = "asking" /\ question.left = <<>>
  /\ question' = [question EXCEPT !.pc = "failed"]
  /\ UNCHANGED <<moment, chain, parked, uses, coolingUntil, asked>>

Question ==
  /\ question.pc \in {"quiet", "answered", "violation", "failed"}
  /\ question' = [pc |-> "asking", attempt |-> 1, left |-> chain]
  /\ asked' = <<>>
  /\ MapThenSumSet(LAMBDA k : uses[k], Keys) < MaxUses
  /\ UNCHANGED <<moment, chain, parked, uses, coolingUntil>>

\* A request takes time; so does whatever lies between two questions.
Later ==
  /\ moment < LastMoment /\ moment' = moment + 1
  /\ UNCHANGED <<chain, parked, uses, coolingUntil, question, asked>>

LlmInit ==
  /\ moment = 0 /\ chain \in Chains /\ question = Quiet /\ asked = <<>>
  /\ parked = [k \in Keys |-> 0] /\ uses = [k \in Keys |-> 0]
  /\ coolingUntil = [p \in DOMAIN KeysOf |-> 0]

LlmNext == TryNext \/ Exhausted \/ Question \/ Later \/ \E valid \in BOOLEAN : Parse(valid)

-----------------------------------------------------------------------------

RestedKeys == \A i \in DOMAIN asked : asked[i].freeAt <= moment

\* Keys no provider has parked.
Unparked(p) == {k \in KeysOf[p] : parked[k] = 0}

EvenLoad ==
  \A p \in DOMAIN KeysOf : \A j, k \in Unparked(p) : uses[j] - uses[k] \in -1..1

\* Every provider was tried, except those skipped while one that was tried had failed.
TriedAll ==
  /\ [i \in DOMAIN asked |-> asked[i].provider] = chain
  /\ Errors # {}

\* A parked key rests until its time, even when every other provider fails; the keys that
\* are not limited share the load evenly; and skipping cooling providers never empties
\* the chain: a question fails only after some provider has been tried (chain.py,
\* keypool.py).
AsksRightly == RestedKeys /\ EvenLoad /\ (question.pc = "failed" => TriedAll)
=============================================================================
