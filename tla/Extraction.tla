----------------------------- MODULE Extraction -----------------------------
(***************************************************************************)
(* What is read out of a job advert (domain/jobs/requirements.py): its      *)
(* requirements, line by line, and the skill needs a requirement names.     *)
(*                                                                         *)
(* A line is what the patterns make of it: a heading, a bullet, prose or    *)
(* nothing, whether it has the length of a requirement, and its wording     *)
(* ("nice" when both patterns match).  The lines are read one per step.     *)
(***************************************************************************)
EXTENDS Integers, Sequences, SequencesExt, FiniteSetsExt

CONSTANTS
  MaxLines,          \* bound: lines of an advert
  MaxRequirements,
  SkillOrder,        \* the skills of the taxonomy, in the order it looks for them
  ModelNames,        \* what a model may give as the skill of a requirement: its own words
  MaxWords           \* bound: words of a requirement

SkillNames == ToSet(SkillOrder)

ASSUME ExtractionAssumption ==
  /\ MaxLines \in Nat /\ MaxWords \in Nat
  /\ MaxRequirements \in Nat \ {0}
  /\ SkillOrder \in Seq(SkillNames)
  /\ SkillNames \cap {"and", "or"} = {}

VARIABLES
  advert,    \* the lines read so far
  section,   \* section_must_have: "none", "must" or "nice"
  bulleted,  \* section_has_bullets
  extracted, \* the requirements so far: [line, must]
  sentence   \* two requirements to expand: [words, must, kind, skill]

extractionVars == <<advert, section, bulleted, extracted, sentence>>

Wordings == {"must", "nice", "plain"}
Headings == {[shape |-> "heading", label |-> l] : l \in {"must", "nice", "responsibilities"}}
Blank == [shape |-> "blank"]
Contents == [shape : {"bullet"}, fits : BOOLEAN, wording : Wordings]
              \cup [shape : {"prose"}, fits : {TRUE}, wording : Wordings]
Lines == Headings \cup {Blank} \cup Contents

-----------------------------------------------------------------------------
(* extract_requirements_heuristic(): one step per line. *)

\* Its own wording, or else its section's.
MustHave_Worded(line, under) == line.wording = "must"
MustHave(line, under) ==
  line.wording = "must" \/ (line.wording = "plain" /\ under = "must")

ReadHeading_KeepsBullets(line) ==
  /\ section' = IF line.label = "responsibilities" THEN "none" ELSE line.label
  /\ UNCHANGED <<bulleted, extracted>>
ReadHeading(line) ==
  /\ section' = IF line.label = "responsibilities" THEN "none" ELSE line.label
  /\ bulleted' = FALSE
  /\ UNCHANGED extracted

\* Prose counts in a requirements section, until that has turned into a list.
Skipped(line) == line.shape = "prose" /\ (section = "none" \/ bulleted)

ReadContent(line) ==
  /\ bulleted' = (bulleted \/ line.shape = "bullet")
  /\ extracted' = IF Skipped(line) \/ ~line.fits THEN extracted
                  ELSE Append(extracted, [line |-> Len(advert) + 1, must |-> MustHave(line, section)])
  /\ UNCHANGED section

ReadLine(line) ==
  /\ Len(advert) < MaxLines /\ sentence = <<>>
  /\ advert' = Append(advert, line)
  /\ IF Len(extracted) = MaxRequirements \/ line = Blank
     THEN UNCHANGED <<section, bulleted, extracted>>
     ELSE IF line.shape = "heading" THEN ReadHeading(line) ELSE ReadContent(line)
  /\ UNCHANGED sentence

-----------------------------------------------------------------------------
(* expand_skill_requirements() and _skill_groups(), on requirements given as their
   words: the skills the taxonomy finds in them, "and" and "or". *)

\* The pieces between conjunctions.
Starts(words) == {1} \cup {i + 1 : i \in {i \in DOMAIN words : words[i] = "and"}}
Segment(words, from) ==
  LET ends == {i \in from..Len(words) : words[i] = "and"} \cup {Len(words) + 1}
  IN  SubSeq(words, from, Min(ends) - 1)

\* find_skills(): each skill once, in the order of the taxonomy.  (Bound: a piece names no
\* more than the eight at which it stops.)
FindSkills(words) ==
  FlattenSeq([k \in DOMAIN SkillOrder |->
                IF SkillOrder[k] \in ToSet(words) THEN <<SkillOrder[k]>> ELSE <<>>])

\* An alternation is one need, met by any of its skills; of other words, each skill is.
GroupsOf(segment) ==
  LET found == FindSkills(segment)
  IN  IF Len(found) > 1 /\ Contains(segment, "or") THEN <<found>>
      ELSE [i \in DOMAIN found |-> <<found[i]>>]

SkillGroups(words) ==
  FlattenSeq([k \in 1..Len(words) + 1 |->
                IF k \in Starts(words) THEN GroupsOf(Segment(words, k)) ELSE <<>>])

\* classify_kind(), or the model.  Only two kinds of requirement can ask for a skill.
RequirementKinds == {"auth", "language", "education", "experience", "skill"}
Expands(requirement) == requirement.kind \in {"skill", "experience"}

\* A model may have named the skill.  What the heuristic extracts, or the database gives
\* back, has none.
NoSkill == ""
GroupsNamed_OfAnyKind(requirement) ==
  IF requirement.skill # NoSkill THEN <<<<requirement.skill>>>> ELSE SkillGroups(requirement.words)
GroupsNamed(requirement) ==
  IF ~Expands(requirement) THEN <<>>
  ELSE IF requirement.skill # NoSkill THEN <<<<requirement.skill>>>>
  ELSE SkillGroups(requirement.words)

\* The needs that requirements name, in their order.
NamedNeeds(requirements) ==
  FlattenSeq([i \in DOMAIN requirements |->
                LET groups == GroupsNamed(requirements[i])
                IN  [k \in DOMAIN groups |-> [group |-> groups[k], must |-> requirements[i].must]]])

\* The first need of each leading skill and strength stands for all of them.
KeyOf(need) == <<need.group[1], need.must>>
AddNeed(needs, need) ==
  IF \E i \in DOMAIN needs : KeyOf(needs[i]) = KeyOf(need) THEN needs ELSE Append(needs, need)

ExpandSkillRequirements(requirements) == FoldLeft(AddNeed, <<>>, NamedNeeds(requirements))

\* Bound: two requirements, both of at most MaxWords words, or of at most one word with any
\* kind and any skill.
Words == SkillNames \cup {"and", "or"}
Sentences(max, kinds, skills) ==
  UNION {[words : [1..n -> Words], must : BOOLEAN, kind : kinds, skill : skills] : n \in 0..max}
WordyOnes == Sentences(MaxWords, {"skill"}, {NoSkill})
NamedOnes == Sentences(1, RequirementKinds, ModelNames \cup {NoSkill})
ReadSentences ==
  /\ advert = <<>> /\ sentence = <<>>
  /\ \E requirements \in {WordyOnes, NamedOnes} :
       \E a, b \in requirements : a.must /\ sentence' = <<a, b>>
  /\ UNCHANGED <<advert, section, bulleted, extracted>>

-----------------------------------------------------------------------------

ExtractionInit ==
  advert = <<>> /\ section = "none" /\ bulleted = FALSE /\ extracted = <<>> /\ sentence = <<>>

ExtractionNext == ReadSentences \/ \E line \in Lines : ReadLine(line)

-----------------------------------------------------------------------------

\* What a reader of the advert would say: the section of a line, whether the section's
\* list has begun before it, and so which lines are requirements.
HeadingOf(i) == {h \in 1..(i-1) : advert[h].shape = "heading"}
SectionAt(i) ==
  IF HeadingOf(i) = {} THEN "none" ELSE advert[Max(HeadingOf(i))].label
ListedBefore(i) ==
  \E b \in 1..(i-1) : advert[b].shape = "bullet" /\ \A h \in HeadingOf(i) : h < b

IsRequirement(i) ==
  /\ advert[i].shape \in {"bullet", "prose"} /\ advert[i].fits
  /\ advert[i].shape = "prose" => SectionAt(i) \in {"must", "nice"} /\ ~ListedBefore(i)

\* "A bullet under 'Nice to have' is a nice-to-have even when its own wording sounds
\* mandatory"; elsewhere its wording decides, or else the section.
StrengthOf(i) ==
  /\ advert[i].wording # "nice" /\ SectionAt(i) # "nice"
  /\ advert[i].wording = "must" \/ SectionAt(i) = "must"

\* The bullet that this sentence is about, which the code takes for a must-have, is the
\* exception.
Disputed(i) == SectionAt(i) = "nice" /\ advert[i].wording = "must"
IsStrength(i, must) == must = StrengthOf(i) \/ Disputed(i)

\* The requirements of the advert in their order, the first MaxRequirements of them.
ReadAsWritten ==
  /\ \A k \in DOMAIN extracted :
       \E i \in DOMAIN advert, must \in BOOLEAN :
         IsRequirement(i) /\ IsStrength(i, must) /\ extracted[k] = [line |-> i, must |-> must]
  /\ \A j, k \in DOMAIN extracted : j < k => extracted[j].line < extracted[k].line
  /\ Len(extracted) <= MaxRequirements
  /\ \A i \in DOMAIN advert : IsRequirement(i) =>
       \/ \E k \in DOMAIN extracted : extracted[k].line = i
       \/ Len(extracted) = MaxRequirements /\ \A k \in DOMAIN extracted : extracted[k].line < i

NeedsOf(requirements) ==
  UNION {{[group |-> g, must |-> r.must] : g \in ToSet(GroupsNamed(r))} : r \in ToSet(requirements)}

\* The skills that requirements ask for: the one a model named, or all in the words.
AskedFor(requirements) ==
  UNION {IF r.skill # NoSkill THEN {r.skill} ELSE SkillNames \cap ToSet(r.words)
           : r \in {r \in ToSet(requirements) : Expands(r)}}

NeedsAsNamed ==
  LET needs == ExpandSkillRequirements(sentence)
      named == NeedsOf(sentence)
  IN  /\ ToSet(needs) \subseteq named
      /\ {KeyOf(n) : n \in named} = {KeyOf(n) : n \in ToSet(needs)}
      /\ \A i, j \in DOMAIN needs : KeyOf(needs[i]) = KeyOf(needs[j]) => i = j
      /\ UNION {ToSet(n.group) : n \in named} = AskedFor(sentence)

\* However headings, bullets and prose alternate, the one pass over an advert finds the
\* requirements its sections say it has, up to the cap, with their strength unless a
\* must-have is worded under a heading of nice-to-haves; and the needs counted for
\* coverage are those that requirements of skill and experience name, each strength of a
\* skill once (domain/jobs/requirements.py).
RequirementsAsWritten == ReadAsWritten /\ NeedsAsNamed
=============================================================================
