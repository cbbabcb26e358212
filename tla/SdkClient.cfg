SPECIFICATION FairSpec
CONSTANTS
  boot = boot  loop = loop  ping = ping  a1 = a1  c1 = c1  c2 = c2
  Callers = {boot, loop, ping, a1}
  Boot = boot  Loop = loop  Ping = ping  Spawned = {a1}
  Convs = {c1, c2}
  User = User  NoConv = NoConv
  Tries = 1
  GiveUp = 2
  MaxFaults = 2
  MaxErrors = 2
CHECK_DEADLOCK FALSE
INVARIANTS NoOrphanCall JoinsExact
PROPERTY Recovers
