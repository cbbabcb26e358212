SPECIFICATION FairSpec
CONSTANTS
  Phases = {"thinking"}
  MaxFrames = 4  MaxLost = 1  MaxLate = 1  MaxCuts = 2
CHECK_DEADLOCK FALSE
INVARIANTS FramesExact BubbleCloses
PROPERTIES TurnEnds ImplementsBubble
