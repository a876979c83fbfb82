\* Two requests and the terminal over three prompts, with progress.
CONSTANTS
  w1 = w1
  w2 = w2
  Pages = {w1, w2}
  Terminal = Terminal
  MaxPrompts = 3
SPECIFICATION FairSpec
CHECK_DEADLOCK FALSE
INVARIANTS
  AcceptedIsUsed
  CheckedCode
PROPERTIES
  PromptReturns
