SPECIFICATION ProgramsSpec
CONSTANTS
  p1 = p1 p2 = p2 d1 = d1 d2 = d2 o1 = o1 o2 = o2
  r1 = r1 r2 = r2 t1 = t1 t2 = t2 t3 = t3 img = img
  h1 = h1 h2 = h2
  ta = ta tb = tb tc = tc
  None = None  Listener = Listener  Keyless = Keyless
  Procs = {p1, p2}
  Names = {"m1", "m2"}
  Keys = {"k1", "k2", "k3"}
  Clusters = {d1, d2}
  Margin = 12
  Free = {2, 3, 4}
  MaxRuns = 2
  MaxFaults = 2
  Runs = {"g1", "g2"}
  MaxStarts = 2
  MaxSlips = 1
  Owners = {o1, o2}
  Repos = {r1, r2}
  MaxSyncs = 2
  MaxErrors = 1
  MaxEdits = 1
  MaxArrangements = 2
  MaxFailures = 1
  MaxRaces = 1
  Handlers = {h1, h2}
  Inodes = {1, 2, 3, 4, 5, 6, 7}
  Hooks = {"w1", "w2"}
  Alerts = {"z1"}
  MaxClock = 3
  MaxRestarts = 1
  PageSize = 3
  MaxWalks = 2
  MaxMishaps = 2
  Crews <- MCCrews
  Bytes <- MCBytes
  Files <- MCFiles
  Order <- MCOrder
  Info <- MCInfo
  Households <- MCHouseholds
  Window <- MCWindow
  Timeline <- MCTimeline
  Lengths <- MCLengths
  Settings <- MCSettings
INVARIANTS NoGhost NamesAgree Withdrawn RestoresFit NothingLeft PassedIsFresh TempIsOwn TempIsDeleted Converged TracksSurvive DeliveredWhole Apart NewestIsLeft
PROPERTIES DesiredKept
CHECK_DEADLOCK FALSE
