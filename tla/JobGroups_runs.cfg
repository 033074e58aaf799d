\* Two postings of two jobs, two consumers, and at most three runs.
SPECIFICATION Spec
CONSTANTS
  Postings = {p1, p2}
  Jobs = {j1, j2}
  Consumers = {w1, w2}
  MaxRuns = 3
  MaxQueued = 2
SYMMETRY Symmetry
CHECK_DEADLOCK FALSE
INVARIANTS
  GroupsHaveClusters
PROPERTIES
  StableGroups
  QuietRunUnites
