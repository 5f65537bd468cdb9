SPECIFICATION Spec
CONSTANTS
  s = s
  m1 = m1
  m2 = m2
  i = i
  j = j
  z = z
  g = g
  Scenes = {s}
  Markers = {m1, m2}
  Images = {i, j}
  Galleries = {z, g}
  SceneOf <- MCSceneOf
  Seconds = {1, 2}
  Attached <- MCAttached
  Zips = {z}
  Zipped = {j}
  Excluded = {}
  NotThere = {j}
  Regenerated <- MCRegenerated
  Users = {u, v}
  u = u
  v = v
  Scenarios <- MCScenarios
  Cleaner = Cleaner
  MaxFaults = 2
  Nobody = Nobody
INVARIANTS
  MediaKept
  MarkedOnlyInFlight
PROPERTIES
  SharedImagesStay
  RequestsEnd
CHECK_DEADLOCK FALSE
