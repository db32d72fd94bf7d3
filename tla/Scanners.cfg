\* Three inputs of two or three flights; a file table that is too small for any flight, just large enough, and in between. No deadlock check: passengers and scanners wait for ever once main has ended.
CONSTANTS
  Inputs <- InputsConst
  SlotChoices = {3, 4, 5, 6, 7, 8, 9, 10}
SPECIFICATION FairSpec
INVARIANTS InTurn OutputRight
PROPERTY AllHandled
CHECK_DEADLOCK FALSE
