SPECIFICATION Spec
CONSTANTS
  MaxInits = 2
  NumBots = 1
  Home = 1
  Messages = {m1}
  Calls = {k1}
  None = None
INVARIANTS LiveContextIsHeld
PROPERTIES SilentAfterShutdown OnlyInitStrandsWaits LiveLoopReconnects CancelledLoopsEnd ShutdownReturns
CHECK_DEADLOCK FALSE
