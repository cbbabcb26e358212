SPECIFICATION FairSpec
CONSTANTS
  loop = loop  ping = ping  r1 = r1  r2 = r2
  Callers = {loop, ping}
  Loop = loop  Ping = ping
  Sig = Sig  Cmd = Cmd  Beat = Beat
  Rows = {r1}
  Tries = 2
  MaxFaults = 2
  MaxErrors = 1
  MaxStops = 2
CHECK_DEADLOCK FALSE
INVARIANT ConnectionExact
PROPERTIES Recovers StopExits
