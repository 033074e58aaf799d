\* Two postings that may share a group, two requests under way, three in all.
SPECIFICATION Spec
CONSTANTS
  Postings = {p1, p2}
  Groups = {g1}
  Requests = {r1, r2}
  MaxCvs = 2
  MaxRequests = 3
SYMMETRY Alike
CHECK_DEADLOCK FALSE
INVARIANTS
  HistoryTells
  DuplicatesExcused
PROPERTIES
  RecordKept
