SPECIFICATION Spec
CONSTANTS
  m1 = m1  m2 = m2  t1 = t1  t2 = t2  c1 = c1  c2 = c2  r1 = r1  r2 = r2  r3 = r3
  Messages = {m1, m2}
  Cards = {m2}
  Tasks = {}
  Pulses = {}
  Convs = {c1}
  ConvOf <- OneConv
  Runs = {r1, r2, r3}
  NoRun = NoRun  NoItem = NoItem
  MaxConcurrent = 2
  HardCap = 2
  TTL = 3
  Prompt = TRUE
  MaxLost = 0  MaxDrops = 0  MaxCrashes = 0  MaxStops = 1
SYMMETRY RunSymmetry
INVARIANTS PermitsExact RegistryExact LeftInOrder OneTurnPerMessage
