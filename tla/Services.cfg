SPECIFICATION SpecServices
CONSTANTS
  a = a
  Addresses = {a}
  Wildcard = Wildcard
  Defaults = {}
  Absent = Absent
  Forever = Forever
  NoDuration = NoDuration
  Durations = {0, 1}
  Horizon = 2
  NoTimer = NoTimer
  Idle = Idle
  NoTime = NoTime
  MaxFired = 2
  f1 = f1
  f2 = f2
  k1 = k1
  k2 = k2
  c1 = c1
  c2 = c2
  Files = {f1, f2}
  Keys = {k1, k2}
  Clients = {c1, c2}
  None = None
  l1 = l1
  l2 = l2
  l3 = l3
  d1 = d1
  Locks = {l1, l2, l3}
  Cancellers = {d1}
  NoLock = NoLock
  s1 = s1
  s2 = s2
  Subscribers = {s1, s2}
  Capacity = 1
  MaxNotified = 3
  u1 = u1
  u2 = u2
  Users = {u1, u2}
  Unset = Unset
  NoFile = NoFile
  Closed = Closed
  AppSchema = 3
  BadPaths = {"nowhere"}
  MaxRows = 2
  Directories = {"a", "b", "e"}
  BadDirectories = {"bad"}
  BadFileNames = {"", "txt"}
  BadBoxes = {"blank"}
  Plans <- MCPlans
INVARIANTS
  SettingsKept
  StartsAgain
  DataKept
  TimersMatch
  EndIsComing
  GrantsHold
  FilesInHand
PROPERTIES
  RequestsTakeEffect
  ServicesSettle
CHECK_DEADLOCK FALSE
