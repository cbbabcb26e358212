SPECIFICATION FairSpec
CONSTANTS
  MaxEvents = 3  MaxLost = 2  MaxCuts = 2
CHECK_DEADLOCK FALSE
INVARIANTS NoGhostProgress TaskSettled
PROPERTY Quiets
