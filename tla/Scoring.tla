------------------------------ MODULE Scoring ------------------------------
(***************************************************************************)
(* The arithmetic of matching: the eligibility gates (domain/matching/     *)
(* gates.py), rank fusion (retrieval.py, rerank.py), the five sub-scores   *)
(* and their aggregation (domain/scoring), percentiles, and the weights a   *)
(* fit of one user's engagement is turned into (preferences.py).            *)
(*                                                                         *)
(* Shares are whole ten-thousandths, the precision the code rounds to.  A   *)
(* behaviour chooses one `sheet` of inputs; the properties compare what the *)
(* operators make of it and of its neighbours.                              *)
(***************************************************************************)
EXTENDS Integers, FiniteSetsExt, Functions

CONSTANTS Skills, Countries, Places

VARIABLE sheet

Unstated == -1
One == 10000
Rounded(a, b) == (2 * a + b) \div (2 * b)   \* round(a / b)

-----------------------------------------------------------------------------
(* Gates.  Silence is the empty set or Unstated. *)

MaxShortfall == 2

WorkAuthorizationOk(c, p) ==
  p.authorisation = {} \/ p.sponsors \/ p.authorisation \cap c.authorised # {}

\* Remote is remote within a jurisdiction; a city counts where no two countries can
\* be compared.
LocationOk(c, p) ==
  LET meet(asked, held) == asked = {} \/ held = {} \/ asked \cap held # {}
  IN  IF p.mode = "remote" THEN c.remote /\ meet(p.countries, c.countries)
      ELSE \/ p.mode = "unstated" /\ p.countries = {} /\ p.cities = {}
           \/ c.countries = {} /\ c.places = {}
           \/ IF p.countries # {} /\ c.countries # {} THEN p.countries \cap c.countries # {}
              ELSE meet(p.cities, c.places)

SeniorityOk(c, p) ==
  Unstated \in {p.years, c.years} \/ p.years - c.years <= MaxShortfall

\* Levels 0 (undeclared) to 7 by language.
LanguageOk(c, p) ==
  \A l \in DOMAIN p.languages :
    l \in DOMAIN c.languages /\ (p.languages[l] > 0 => c.languages[l] >= p.languages[l])

FreshEnough(p) == p.age <= 45
UrlVerified(p) == p.url = "live" /\ p.checked <= 48

Gates(c, p) ==
  [work_authorization |-> WorkAuthorizationOk(c, p), location |-> LocationOk(c, p),
   seniority_floor |-> SeniorityOk(c, p), language |-> LanguageOk(c, p),
   freshness |-> FreshEnough(p), unverified_url |-> UrlVerified(p)]

GateFailures(c, p) == LET gates == Gates(c, p) IN {f \in DOMAIN gates : ~gates[f]}

\* _load_candidate(): zero years read as none stated.  _candidate_countries(): every
\* country of an authorisation entry, whatever its status, and where they say they are.
LoadCandidate(row) ==
  [row EXCEPT !.years = IF @ = 0 THEN Unstated ELSE @,
              !.countries = @ \cup row.authorised \cup row.unauthorised]

-----------------------------------------------------------------------------
(* Retrieval: what each retriever found is a sequence, best first. *)

RankIn(ranking, x) == CHOOSE i \in DOMAIN ranking : ranking[i] = x
FoundBy(rankings, x) == {r \in DOMAIN rankings : x \in Range(rankings[r])}

\* The sum of the reciprocal ranks (kept to hundred-millionths), rounded to millionths.
Reciprocal(rank) == 100000000 \div (60 + rank)
FusedScore(rankings, x) ==
  Rounded(SumFunction([r \in FoundBy(rankings, x) |-> Reciprocal(RankIn(rankings[r], x))]), 100)

\* The place of x when scores fall and ties break on the posting's id.
FusedPlace(rankings, x) ==
  LET found == UNION {Range(rankings[r]) : r \in DOMAIN rankings}
      score == [y \in found |-> FusedScore(rankings, y)]
      ahead == {y \in found : score[y] > score[x] \/ (score[y] = score[x] /\ y < x)}
  IN  1 + Cardinality(ahead)

-----------------------------------------------------------------------------
(* Sub-scores.  A need names the skills any one of which meets it, whether it is a
   must-have, and the similarity of the CV bullet nearest to its text. *)

NeedWeight(need) == IF need.must THEN 3 ELSE 1
SkillNeeds(needs) == {i \in DOMAIN needs : needs[i].skills # {}}

SkillCoverage(held, needs) ==
  LET weigh(S) == SumFunctionOnSet([i \in DOMAIN needs |-> NeedWeight(needs[i])], S)
      met == {i \in SkillNeeds(needs) : needs[i].skills \cap held # {}}
  IN  IF SkillNeeds(needs) = {} THEN One ELSE Rounded(One * weigh(met), weigh(SkillNeeds(needs)))

RequirementAlignment(needs, bullets) ==
  IF needs = <<>> THEN One
  ELSE IF ~bullets THEN 0
       ELSE Rounded(SumFunction([i \in DOMAIN needs |-> needs[i].nearest]), Cardinality(DOMAIN needs))

\* A stretch upward costs twice a step down.
SeniorityFit(held, asked) ==
  LET distance == asked - held
  IN  CASE Unstated \in {held, asked} -> 7000
        [] distance >= 0 -> Max({0, One - 3000 * distance})
        [] OTHER -> Max({0, One + 1500 * distance})

NormalizeSemantic(raw, pool) ==
  IF pool = {} \/ Max(pool) = Min(pool) THEN One \div 2
  ELSE Rounded(One * (raw - Min(pool)), Max(pool) - Min(pool))

\* The age in half-lives, one of which an undated posting is given.
Freshness(age) == IF age = Unstated THEN One \div 2 ELSE One \div (2 ^ age)

Terms == {"skill_coverage", "requirement_alignment", "seniority_fit",
          "semantic_similarity", "freshness"}

Subscores(s) ==
  [skill_coverage |-> SkillCoverage(s.held, s.needs),
   requirement_alignment |-> RequirementAlignment(s.needs, s.bullets),
   seniority_fit |-> SeniorityFit(s.level, s.asked),
   semantic_similarity |-> NormalizeSemantic(s.raw, s.pool),
   freshness |-> Freshness(s.age)]

\* _stage5_analysis(): what could not be computed for the posting.
Unavailable(s) ==
  UNION {IF SkillNeeds(s.needs) = {} THEN {"skill_coverage"} ELSE {},
         IF s.needs = <<>> \/ ~s.bullets THEN {"requirement_alignment"} ELSE {}}

\* aggregate(), past the gate: the other terms are not scaled up.
Assessed(weights, unavailable) == SumFunctionOnSet(weights, Terms \ unavailable)

Weighted(sub, weights) == [t \in Terms |-> Rounded(weights[t] * sub[t], One)]

Total_Renormalised(sub, weights, unavailable) ==
  Rounded(SumFunctionOnSet(Weighted(sub, weights), Terms \ unavailable) * 100,
          Assessed(weights, unavailable) \div 100)

Total(sub, weights, unavailable) ==
  Min({One, SumFunctionOnSet(Weighted(sub, weights), Terms \ unavailable)})

Score(s) == Total(Subscores(s), s.weights, Unavailable(s))

\* percentile_of(), in hundredths of a percent; a pool is a sequence of totals.
Percentile(total, pool) ==
  Rounded(One * Cardinality({i \in DOMAIN pool : pool[i] < total}), Cardinality(DOMAIN pool))
RankOf(total, pool) == 1 + Cardinality({i \in DOMAIN pool : pool[i] > total})

-----------------------------------------------------------------------------
(* Personalised weights.  A fit gives each term an effect: tanh(coefficient / 2),
   in tenths. *)

DefaultWeights ==
  [skill_coverage |-> 3500, requirement_alignment |-> 2500, seniority_fit |-> 1500,
   semantic_similarity |-> 1500, freshness |-> 1000]

Floor(t) == (DefaultWeights[t] * 60) \div 100
Ceiling(t) == (DefaultWeights[t] * 140) \div 100

\* Room in the direction of travel; not only of the terms strictly inside their bounds.
Room_InsideOnly(w, surplus, t) ==
  IF w[t] \in {Floor(t), Ceiling(t)} THEN 0
  ELSE IF surplus > 0 THEN w[t] - Floor(t) ELSE Ceiling(t) - w[t]
Room(w, surplus, t) == IF surplus > 0 THEN w[t] - Floor(t) ELSE Ceiling(t) - w[t]

SumOf(w) == SumFunctionOnSet(w, Terms)

\* _project_to_simplex(): the whole surplus at once, in proportion to the room.
Project(w) ==
  LET surplus == SumOf(w) - One
      room == [t \in Terms |-> Room(w, surplus, t)]
      move == Min({Max({surplus, -surplus}), SumOf(room)})
      share(t) == Rounded(move * room[t], SumOf(room))
  IN  IF surplus = 0 \/ SumOf(room) = 0 THEN w
      ELSE [t \in Terms |-> IF surplus > 0 THEN w[t] - share(t) ELSE w[t] + share(t)]

PersonalisedWeights(fit) ==
  IF \A t \in Terms : fit[t] = 0 THEN DefaultWeights
  ELSE Project([t \in Terms |-> (DefaultWeights[t] * (100 + 4 * fit[t])) \div 100])

-----------------------------------------------------------------------------
(* The sheets. *)

\* Bounds: two countries, one place, one language; years about the thresholds.
NoSheet == [kind |-> "none"]
Language == [{"de"} -> {0, 3, 5}]

PlaceSheets ==
  [kind : {"gates"},
   row : [years : {3}, countries : SUBSET Countries, places : SUBSET Places, remote : BOOLEAN,
          authorised : SUBSET Countries, unauthorised : {{}}, languages : {<<>>}],
   posting : [authorisation : SUBSET Countries, sponsors : BOOLEAN,
              mode : {"remote", "hybrid", "unstated"}, countries : SUBSET Countries,
              cities : SUBSET Places, years : {Unstated}, languages : {<<>>},
              age : {1}, url : {"live"}, checked : {1}]]

LevelSheets ==
  [kind : {"gates"},
   row : [years : {Unstated} \cup 0..6, countries : {{}}, places : {{}}, remote : {TRUE},
          authorised : {{}}, unauthorised : {{}}, languages : {<<>>} \cup Language],
   posting : [authorisation : {{}}, sponsors : {FALSE}, mode : {"unstated"}, countries : {{}},
              cities : {{}}, years : {Unstated} \cup 0..6, languages : {<<>>} \cup Language,
              age : {Unstated, 45, 46}, url : {"live"}, checked : {Unstated, 48, 49}]]

Need == [skills : SUBSET Skills, must : BOOLEAN, nearest : {0, 8000}]
FitSheets ==
  [kind : {"score"}, held : SUBSET Skills,
   needs : {<<>>} \cup UNION {[1..n -> Need] : n \in 1..2}, bullets : BOOLEAN, level : {1, 5},
   asked : {2}, raw : {1, 3}, pool : {{1, 4}}, age : {1},
   weights : {DefaultWeights,
              PersonalisedWeights([t \in Terms |-> IF t = "freshness" THEN 10 ELSE -10])}]

Rankings == {<<>>} \cup UNION {{r \in [1..n -> 1..3] : IsInjective(r)} : n \in 1..3}

SheetNext ==
  /\ sheet = NoSheet
  /\ sheet' \in PlaceSheets \cup LevelSheets \cup FitSheets
             \cup [kind : {"weights"}, fit : [Terms -> {-10, -5, 0, 5, 10}]]
             \cup [kind : {"pool"}, totals : [1..3 -> {2000, 5000, 9000}]]
             \cup [kind : {"fusion"}, rankings : [{"dense", "lexical"} -> Rankings]]

-----------------------------------------------------------------------------
(* Properties. *)

\* Whatever a user's engagement fits to, every weight stays within 40 % of its
\* default and the weights still sum to one (but for the rounding of this model):
\* clamping and renormalising do not undo each other (preferences.py).
WeightsBounded ==
  sheet.kind = "weights" =>
    LET w == PersonalisedWeights(sheet.fit)
    IN  /\ \A t \in Terms : w[t] \in Floor(t)..Ceiling(t)
        /\ SumOf(w) - One \in -2..2

\* The rows of candidates who have stated more than this one.
StatedMore(row) ==
  UNION {{[row EXCEPT !.years = y] : y \in {y \in row.years..8 : row.years > 0}},
         {[row EXCEPT !.remote = TRUE]},
         {[row EXCEPT !.languages = l] :
            l \in {l \in Language : \A k \in DOMAIN row.languages : row.languages[k] <= l[k]}},
         {[row EXCEPT !.authorised = @ \cup {x}] :
            x \in {x \in Countries : LoadCandidate(row).countries # {}}},
         {[row EXCEPT !.countries = @ \cup {x}] :
            x \in {x \in Countries : LoadCandidate(row).countries # {}}},
         {[row EXCEPT !.places = @ \cup {x}] : x \in {x \in Places : row.places # {}}}}

GatesMonotone ==
  sheet.kind = "gates" =>
    \A more \in StatedMore(sheet.row) :
      GateFailures(LoadCandidate(more), sheet.posting)
        \subseteq GateFailures(LoadCandidate(sheet.row), sheet.posting)

ScoreMonotone ==
  sheet.kind = "score" =>
    /\ \A x \in Skills : Score([sheet EXCEPT !.held = @ \cup {x}]) >= Score(sheet)
    /\ Score([sheet EXCEPT !.bullets = TRUE]) >= Score(sheet)
    /\ Score([sheet EXCEPT !.needs = <<>>]) <= Score(sheet)
    /\ Score(sheet) <= Assessed(sheet.weights, Unavailable(sheet))

StandingMonotone ==
  sheet.kind = "pool" =>
    \A i, j \in DOMAIN sheet.totals :
      LET a == sheet.totals[i]
          b == sheet.totals[j]
      IN  a < b <=> /\ RankOf(a, sheet.totals) > RankOf(b, sheet.totals)
                    /\ Percentile(a, sheet.totals) < Percentile(b, sheet.totals)

\* x is placed above y when every retriever that found y found x above it.
FusionMonotone ==
  sheet.kind = "fusion" =>
    LET rankings == sheet.rankings
        above(r, x, y) == x \in Range(rankings[r]) /\ RankIn(rankings[r], x) < RankIn(rankings[r], y)
    IN  \A y \in UNION {Range(rankings[r]) : r \in DOMAIN rankings}, x \in 1..3 :
          (x # y /\ \A r \in FoundBy(rankings, y) : above(r, x, y))
             => FusedPlace(rankings, x) < FusedPlace(rankings, y)

\* More is never worse: a candidate who states more (years beyond a stated amount,
\* another country beyond a stated one, a language, remote work) passes every gate
\* passed before; one who holds more skills or has bullets scores no less; a posting
\* nothing could be read from scores no more than one that was read, and none above
\* what could be assessed of it; a better total stands better in its pool; and a
\* posting every retriever prefers is placed first.
MoreNeverHurts == GatesMonotone /\ ScoreMonotone /\ StandingMonotone /\ FusionMonotone
=============================================================================
