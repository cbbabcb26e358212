SPECIFICATION FairSpec
CONSTANTS
  b1 = b1  b2 = b2  b3 = b3  task = task  msg = msg  driver = driver
  p1 = p1  p2 = p2  p3 = p3  p4 = p4
  Bridges = {b1, b2}  Keys = {task, driver}  TaskKeys = {task}  Drivers = {driver}  Pids = {p1, p2, p3}
  NoPid = NoPid  NoBridge = NoBridge  NoKey = NoKey
  MaxCrashes = 1  MaxCuts = 1
CHECK_DEADLOCK FALSE
INVARIANTS OneRunPerKey RunsInHand AnsweredOnceIfAcked
PROPERTY ResultDelivered
