SPECIFICATION Spec
CONSTANTS
  Catalog <- Tools  Context <- WorkTurn  Sigs <- Calls
  SDK = {"get_thread", "save_draft", "send_message", "complete_task"}
  Backends = {"anthropic", "openai", "claude_xml", "claude_mcp", "codex"}
  Finishers = {"complete_task"}  Idempotent = {"read"}
  Results = {one, two}
  MaxIterations = 4  MaxToolCalls = 3  MaxBlocks = 2
  BlockAfter = 2
  MinTail = 2  Transcript = 1  TailBudget = 4  Early = 5  Trigger = 7  Big = 3
SYMMETRY Alike
INVARIANTS RequestsPaired NoDegenerateLoopAsIs LeftClean
PROPERTY RemembersAndEnds
