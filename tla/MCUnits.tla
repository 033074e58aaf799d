------------------------------ MODULE MCUnits ------------------------------
(***************************************************************************)
(* The self-contained parts, checked side by side: a behaviour picks one    *)
(* and runs it alone while the others stay in an initial state.             *)
(***************************************************************************)
EXTENDS Clustering, Migrations, Scoring, HttpConduct, Inference, Drafting, Companies, Extraction

VARIABLE part

unitVars == <<vars, migrationVars, sheet, httpVars, llmVars, draftVars, companyVars, extractionVars>>

\* Inference: two keys for Groq, one for Gemini, none for Ollama.
LlmKeys == [groq |-> {1, 2}, gemini |-> {3}, ollama |-> {}]

\* Drafting: a claim of each kind in the CV, in the posting, and in neither.
Claim(kind, token) == [kind |-> kind, token |-> token]
DraftCv == {Claim("skill", "sql"), Claim("credential", "CKA"), Claim("figure", "40 percent")}
DraftPosting == {Claim("skill", "k8s"), Claim("employer", "acme"), Claim("date", "2021"),
                 Claim("figure", "40 duration")}
DraftClaims ==
  DraftCv \cup DraftPosting \cup
  {Claim("skill", "niche"), Claim("employer", "umbrella"), Claim("date", "1999")}

\* Companies: a subsidiary, a spelling variant, an alias, and a reference whose domain is
\* another employer's.
Ref(name, domain) == [name |-> name, domain |-> domain]
SeededRows == {[id |-> <<"seed", 0>>, name |-> {"vodafone"}, domain |-> "v.com"]}
AliasRows == {[id |-> <<"seed", 0>>, name |-> {"vf"}, domain |-> "v.com"]}
CompanyRefs ==
  {Ref({"vf"}, "none"), Ref({"vodafone", "egypt"}, "none"), Ref({"acme"}, "a.com"),
   Ref({"acme"}, "none"), Ref({"acmee"}, "none"), Ref({"umbrella"}, "a.com"), Ref({"umbrella"}, "none")}
HowAlike(a, b) ==
  IF a = b THEN 100 ELSE IF {a, b} = {{"acme"}, {"acmee"}} THEN 92 ELSE IF a \cap b # {} THEN 80 ELSE 10

\* Extraction: two skills.
SkillsInOrder == <<"sql", "go">>

\* No thread of the HTTP client is told from another.
Interchangeable == Permutations(Threads)

-----------------------------------------------------------------------------

ClusteringRests ==
  /\ source = [i \in Ids |-> CHOOSE s \in Sources : TRUE]
  /\ bucket = [i \in Ids |-> CHOOSE b \in Buckets : TRUE]
  /\ city = [i \in Ids |-> NoCity] /\ url = [i \in Ids |-> NoUrl] /\ near = {}
  /\ root = [i \in Ids |-> i] /\ location = city /\ stage = "url" /\ todo = {}

Rest(p) ==
  CASE p = "clustering" -> ClusteringRests
    [] p = "migrations" -> MInit
    [] p = "scoring" -> sheet = NoSheet
    [] p = "http" -> HttpInit
    [] p = "inference" -> LlmInit /\ chain = <<"groq">>
    [] p = "drafting" -> DraftInit /\ facts.cv = {}
    [] p = "companies" -> CompaniesInit
    [] p = "extraction" -> ExtractionInit

Parts == {"clustering", "migrations", "scoring", "http", "inference", "drafting", "companies", "extraction"}

\* Clustering never looks at a source, bucket or city but for equality: the first
\* candidate's stand for any.
StartOf(p) ==
  CASE p = "clustering" ->
         /\ Init
         /\ source[1] = CHOOSE s \in Sources : TRUE
         /\ bucket[1] = CHOOSE b \in Buckets : TRUE
         /\ city[1] \in {NoCity, CHOOSE c \in Cities : TRUE}
    [] p = "inference" -> LlmInit
    [] p = "drafting" -> DraftInit
    [] OTHER -> Rest(p)

UnitsInit == \E p \in Parts : part = p /\ StartOf(p) /\ \A q \in Parts \ {p} : Rest(q)

But(p) ==
  /\ part = p /\ UNCHANGED part
  /\ p # "clustering" => UNCHANGED vars
  /\ p # "migrations" => UNCHANGED migrationVars
  /\ p # "scoring" => UNCHANGED sheet
  /\ p # "http" => UNCHANGED httpVars
  /\ p # "inference" => UNCHANGED llmVars
  /\ p # "drafting" => UNCHANGED draftVars
  /\ p # "companies" => UNCHANGED companyVars
  /\ p # "extraction" => UNCHANGED extractionVars

UnitsNext ==
  \/ But("clustering") /\ Next
  \/ But("migrations") /\ MNext
  \/ But("scoring") /\ SheetNext
  \/ But("http") /\ HttpNext
  \/ But("inference") /\ LlmNext
  \/ But("drafting") /\ DraftNext
  \/ But("companies") /\ CompaniesNext
  \/ But("extraction") /\ ExtractionNext
=============================================================================
