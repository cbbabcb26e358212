SPECIFICATION Spec
CONSTANTS
  m1 = m1  m2 = m2  t1 = t1  t2 = t2  c1 = c1  c2 = c2  r1 = r1  r2 = r2  r3 = r3
  Messages = {}
  Cards = {}
  Tasks = {t1, t2}
  Pulses = {t2}
  Convs = {c1}
  ConvOf <- OneConv
  Runs = {r1, r2}
  NoRun = NoRun  NoItem = NoItem
  MaxConcurrent = 2
  HardCap = 1
  TTL = 2
  Prompt = FALSE
  MaxLost = 0  MaxDrops = 1  MaxCrashes = 1  MaxStops = 1
SYMMETRY RunSymmetry
INVARIANT OneHandPerTask
