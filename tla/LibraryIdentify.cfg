SPECIFICATION Spec
CONSTANTS
  s1 = s1
  s2 = s2
  i = i
  g = g
  m = m
  p = p
  a = a
  b = b
  c = c
  c2 = c2
  t = t
  u = u
  n = n
  n2 = n2
  Scenes = {s1, s2}
  Images = {i}
  Galleries = {g}
  Markers = {m}
  MarkerOf <- MCMarkerOf
  Performers = {p}
  Studios = {a, b, c, c2}
  Tags = {t, u, n, n2}
  NameOf <- MCNameOf
  None = None
  Beginnings <- MCBeginnings
  MaxEdits = 1
  IdOrder <- MCIdOrder
  BatchSize = 1
  Inputs <- MCInputs
  Matching <- MCMatching
  StudiosFrom <- MCStudiosFrom
  SingleLetter = {p, u}
  Ignored = {u}
  Answers <- MCAnswers
  Newcomers = {c, c2, n, n2}
INVARIANT IdentifyReachesAll
CHECK_DEADLOCK FALSE
