\* Two match rows of one posting, so that runs may meet in it through different rows, and
\* one of another, which breaks the presentation rules; two items per digest; two
\* consumers, two tasks waiting beside those that run, two faults.
SPECIFICATION Spec
CONSTANTS
  a = a
  b = b
  Postings = {a, b}
  Matches = {1, 2, 3}
  PostingOf <- TwoOfOne
  Phrased = {1}
  Consumers = {w1, w2}
  MaxItems = 2
  MaxWaiting = 2
  MaxFaults = 2
INVARIANTS
  NewMeansNew
  StoppedMeansStopped
PROPERTIES
  DigestComes
