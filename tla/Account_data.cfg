SPECIFICATION Spec
CONSTANTS
  Users = {ana, bo}
  Requests = {r1, r2}
  Engaging = {ana}
  Window = 0
  MaxVersions = 2
INVARIANTS
  NothingOutlives
  TextStaysGone
  VersionsDistinct
PROPERTIES
  PurgeComes
