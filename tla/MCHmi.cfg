CONSTANTS
  QueueSize = 3
  MaxPresses = 10
SPECIFICATION FairSpec
CHECK_DEADLOCK FALSE
INVARIANTS TypeOK PressesCounted LightShowsColor
PROPERTIES PressesHandled CyclesColors
