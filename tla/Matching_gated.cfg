SPECIFICATION Spec
CONSTANTS
  Profiles = {amal, basim}
  Postings = {engineer}
  TopN = 1
  WithheldCap = 1
  Texts = {python, arabic}
INVARIANTS
  GatedNotListed
