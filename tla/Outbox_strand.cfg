SPECIFICATION FairSpec
CONSTANTS
  Prompt = {q1}
  MaxDials = 2
  MaxFlaps = 1
  MaxMoves = 1
PROPERTIES
  OutboxDrains
