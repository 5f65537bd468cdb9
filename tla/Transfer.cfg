CONSTANTS
  Tags = {1, 2, 3}
  Plans <- MCPlans
  MaxDepth = 6
  s1 = s1
  s2 = s2
  i = i
  g = g
  m = m
  p = p
  a = a
  b = b
  c = c
  d = d
  w1 = w1
  w2 = w2
  Scenes = {s1, s2}
  Images = {i}
  Galleries = {g}
  Movies = {m}
  Performers = {p}
  Studios = {a, b, c, d}
  Seconds = {1, 2}
  Workers = {w1, w2}
  None = None
  Transfers <- MCTransfers
  MaxDeletions = 1
SPECIFICATION TransferSpec
INVARIANTS Acyclic TransfersRestore RelatedAreExported
PROPERTIES MergeKeepsAncestry ImportsOnlyAdd TransferEnds
\* The transfer is over and nobody edits.
CHECK_DEADLOCK FALSE
