SPECIFICATION Spec
CONSTANTS
  Turns = {t1, t2}
  Catalogs <- Offers  ServerTools <- Hostable  Presented <- Dispatched
  RefreshTTL = 2  RetryInterval = 1  MaxAttempts = 2  SlowestFetch = 3  MaxSeeds = 1
  NoAnswer = NoAnswer
  MaxLog = 3  Limit = 1  MaxConcurrent = 2  MaxToggles = 1  Operator = FALSE
  Absent = Absent
  Agents = {a1, a2}  Procs = {p1, p2, p3}  NoProc = NoProc
  Servers = {c1, c2}  Gone = Gone  Stranger = Stranger  MaxTries = 3
  Layouts <- Screens  Grid = 65535  NoLayout = NoLayout  NoFile = NoFile
  Letters <- Mail  Commands = {2, 4}  MaxRestarts = 1
  Clis <- Resumed  Hooks = {h1, h2}  Loops = {l1, l2}
  NoPid = NoPid  DeadPid = DeadPid  AlienPid = AlienPid
  Accounts = {b1, b2}  Default = b1  Threads = {d1, d2}  Unbound = Unbound  Nobody = Nobody
  Callers = {u1, u2}  Keys = {k1, k2}  NoKey = NoKey
INVARIANT NoneReadAwayWithoutChannel
CHECK_DEADLOCK FALSE
