SPECIFICATION Spec
CONSTANTS
  Postings = {engineer, nurse, driver}
  Tasks = {t1, t2}
  Limit = 1
  MaxAttempts = 2
  MaxFaults = 2
PROPERTIES
  EveryDueChecked
  ChainsEnd
