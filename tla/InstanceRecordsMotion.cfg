\* Three slots, the first with two entities in turn; a log one entry fills.
SPECIFICATION RecordSpec
CONSTANTS
  Ids = {0, 1, 2}
  Gens = {0, 1}
  Values = {v1, v2}
  ChangeIdCap = 1
  Drawn <- MCDrawn
INVARIANT MotionSettles
