------------------------------ MODULE Drafting ------------------------------
(***************************************************************************)
(* The tailoring tools of a match (services/tooling.py, api/v1/tooling.py)  *)
(* and the anti-invention diff every generated text passes before it is     *)
(* shown (domain/safety/anti_invention.py).                                 *)
(*                                                                         *)
(* A claim is a kind and a token, a figure's token being its value and      *)
(* category.  A text is the sequence of the places where the name of a     *)
(* claim occurs: as a mention of it, or inside another word.                *)
(***************************************************************************)
EXTENDS Naturals, Sequences, SequencesExt

CONSTANTS
  Claims,          \* the claims a text can make
  Taxonomy,        \* the skills the taxonomy names
  EmployerNames,   \* the employers the companies table names
  CvClaims,        \* bound: the claims a CV may make
  PostingClaims,   \* bound: the claims a posting makes
  MaxAttempts

\* What a claim is about.
Kinds == {"skill", "employer", "credential", "date", "figure"}

ASSUME DraftingAssumption == \A c \in Claims : c.kind \in Kinds

VARIABLES
  facts,     \* the bundle: [cv, skills, posting, bullets, requirements, gaps]
  work,      \* the request under way: [tool, pc, attempt, corrected]
  shown      \* what the last request answered

draftVars == <<facts, work, shown>>

\* `whole`: a mention, and not a part of another word, as "Go" is of "algorithm".
\* `negated`: _is_disclaimed() would see a negation about this place (it cuts its window at
\* the place's index in the normalised text, but out of the original).  Only for skills does
\* anything look at more than the mentions.
Occurrences ==
  {o \in [claim : Claims, whole : BOOLEAN, negated : BOOLEAN] :
     o.claim.kind = "skill" \/ (o.whole /\ ~o.negated)}
Texts == {<<>>} \cup {<<a>> : a \in Occurrences} \cup {<<a, b>> : a, b \in Occurrences}

-----------------------------------------------------------------------------
(* The diff. *)

KnownSkills == Taxonomy \cup facts.skills
Referable == facts.cv \cup facts.posting

IsKnown(c) ==
  CASE c.kind = "skill" -> c.token \in KnownSkills
    [] c.kind = "employer" -> c.token \in EmployerNames
    [] OTHER -> TRUE

\* _is_disclaimed(): find() takes the first place where the name occurs, mention or not.
IsDisclaimed_Somewhere(text, c) ==
  \E i \in DOMAIN text : text[i].claim = c /\ text[i].negated
IsDisclaimed(text, c) ==
  text[SelectInSeq(text, LAMBDA place : place.claim = c)].negated

\* The CV is what the candidate has; the posting may be referred to, but is no evidence
\* of a skill or a credential.  (The employer's name counts wherever it is mentioned, a
\* date wherever its text occurs.)
Supports_Pooled(c) == c \in Referable
Supports(c) ==
  IF c.kind \in {"skill", "credential"} THEN c \in facts.cv ELSE c \in Referable

\* _mentions(), and what the patterns find.
ClaimsOf(text) == {text[i].claim : i \in {j \in DOMAIN text : text[j].whole}}

Invented(text) ==
  {c \in ClaimsOf(text) : /\ IsKnown(c) /\ ~Supports(c)
                          /\ ~(c.kind = "skill" /\ IsDisclaimed(text, c))}

-----------------------------------------------------------------------------
(* The requests. *)

Nothing == [status |-> "none", text |-> <<>>]
Refuse(status) == shown' = [status |-> status, text |-> <<>>]

\* _require_llm(), then the bundle: no such match is also a 503 for these two.
Generate(tool, bullet) ==
  /\ work.pc = "none"
  /\ \/ Refuse("503") /\ UNCHANGED work
     \/ /\ tool = "bullet" /\ bullet \notin facts.bullets
        /\ Refuse("404") /\ UNCHANGED work
     \/ /\ tool = "bullet" => bullet \in facts.bullets
        /\ work' = [tool |-> tool, pc |-> "drafting", attempt |-> 1, corrected |-> {}]
        /\ shown' = Nothing
  /\ UNCHANGED facts

\* _generate_checked(): show a clean draft; correct the prompt, or refuse.
Draft(text) ==
  /\ work.pc = "drafting"
  /\ IF Invented(text) = {}
     THEN shown' = [status |-> "shown", text |-> text] /\ work' = [work EXCEPT !.pc = "none"]
     ELSE IF work.attempt = MaxAttempts
          THEN Refuse("422") /\ work' = [work EXCEPT !.pc = "none"]
          ELSE work' = [work EXCEPT !.attempt = @ + 1, !.corrected = Invented(text)] /\ UNCHANGED shown
  /\ UNCHANGED facts

GenerationUnavailable ==
  /\ work.pc = "drafting"
  /\ Refuse("503") /\ work' = [work EXCEPT !.pc = "none"] /\ UNCHANGED facts

\* gap_analysis(): the stored gaps, blocking when a must-have; held by any profile of
\* the user now, not by the one the match was scored with.
GapAnalysis ==
  [matched |-> {s \in facts.skills : \E r \in facts.requirements : r.skill = s /\ r.must},
   gaps |-> {[skill |-> s, blocking |-> \E r \in facts.requirements : r.skill = s /\ r.must] :
               s \in facts.gaps}]

\* interview_preparation(): at most twelve of the stated requirements, must-haves first,
\* each with the evidence this match cited for it.
InterviewPreparation ==
  {[requirement |-> r, advice |-> IF r.evidence = {} THEN "decide" ELSE "lead"] : r \in facts.requirements}

\* The three tools no model is asked for.
Derive(tool) ==
  /\ work.pc = "none"
  /\ shown' = [status |-> tool, text |-> <<>>,
               answer |-> CASE tool = "gaps" -> GapAnalysis
                            [] tool = "interview" -> InterviewPreparation
                            [] tool = "bullets" -> facts.bullets]
  /\ UNCHANGED <<facts, work>>

-----------------------------------------------------------------------------

Bullets == {"mine", "theirs"}
SkillsOf(cv) == {c.token : c \in {c \in cv : c.kind = "skill"}}

\* The profile holds skills of the CV; each of the posting's requirements names a skill.
DraftInit ==
  /\ \E cv \in SUBSET CvClaims :
       facts = [cv |-> cv, skills |-> SkillsOf(cv), posting |-> PostingClaims, bullets |-> {"mine"},
                requirements |-> {[skill |-> s, must |-> TRUE, evidence |-> SkillsOf(cv) \cap {s}] :
                                    s \in SkillsOf(PostingClaims)},
                gaps |-> SkillsOf(PostingClaims) \ SkillsOf(cv)]
  /\ work = [tool |-> "none", pc |-> "none", attempt |-> 0, corrected |-> {}]
  /\ shown = Nothing

DraftNext ==
  \/ \E b \in Bullets : Generate("bullet", b)
  \/ Generate("letter", "none")
  \/ \E text \in Texts : Draft(text)
  \/ GenerationUnavailable
  \/ \E tool \in {"gaps", "interview", "bullets"} : Derive(tool)

-----------------------------------------------------------------------------

\* Whatever the model drafts, and however often: a text that is shown mentions no known
\* skill or credential that is not in the CV, and no known employer, date or figure
\* that is in neither the CV nor the posting; but a skill's name that occurs by a negation,
\* be it inside another word, excuses every mention of that skill from there on.  A
\* refused or unavailable generation shows nothing (anti_invention.py).
NothingInvented ==
  /\ \A i \in DOMAIN shown.text :
       shown.text[i].whole =>
         LET c == shown.text[i].claim
             upto == {j \in 1..i : shown.text[j].claim = c}
         IN  \/ c \in facts.cv
             \/ c.kind \in {"employer", "date", "figure"} /\ c \in facts.posting
             \/ c.kind = "skill" /\ \E j \in upto : shown.text[j].negated
             \/ c.kind = "skill" /\ c.token \notin Taxonomy
             \/ c.kind = "employer" /\ c.token \notin EmployerNames
  /\ shown.status \in {"422", "503", "404"} => shown.text = <<>>
=============================================================================
