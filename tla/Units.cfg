INIT UnitsInit
NEXT UnitsNext
CHECK_DEADLOCK FALSE
CONSTANTS
  N = 3
  Sources = {board, feed}
  Cities = {cairo, alex}
  Urls = {page}
  Buckets = {backend, design}
  NoCity = NoCity
  NoUrl = NoUrl
  MaxPerUrl = 2
  Skills = {"sql", "go"}
  Countries = {"DE", "EG"}
  Places = {"cairo"}
  Threads = {t1, t2}
  Hosts = {"api"}
  Budgets = {"key"}
  Interval = 2
  Window = 4
  Rpm = 2
  Retries = 2
  MaxWait = 2
  Patience = 1
  EndOfTime = 4
  MaxTurns = 3
  KeysOf <- LlmKeys
  Cooldown = 2
  DefaultPark = 2
  LastMoment = 2
  MaxUses = 3
  Claims <- DraftClaims
  CvClaims <- DraftCv
  PostingClaims <- DraftPosting
  Taxonomy = {"sql", "k8s"}
  EmployerNames = {"acme", "umbrella"}
  MaxAttempts = 2
  Runs = {"r1", "r2"}
  References <- CompanyRefs
  Seeded <- SeededRows
  Aliases <- AliasRows
  Likeness <- HowAlike
  FuzzyThreshold = 90
  ReviewThreshold = 75
  MaxPostings = 2
  MaxLines = 4
  MaxRequirements = 3
  SkillOrder <- SkillsInOrder
  ModelNames = {"sql", "SQL Server"}
  MaxWords = 3
SYMMETRY Interchangeable
INVARIANTS
  EvidenceOnly
  PagesTogether
  CitiesPartition
  MigrationsAgree
  WeightsBounded
  MoreNeverHurts
  Polite
  AsksRightly
  NothingInvented
  NoSilentMerge
  RequirementsAsWritten
