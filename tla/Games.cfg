SPECIFICATION DetectionFairSpec
CONSTANTS
  MaxVersion = 2
  MaxUpdates = 2
  MaxFailures = 2
  MaxCrashes = 2
  Game = {"game"}
  Path = {"path"}
  Memory = {"no game", "game", "junk"}
  MaxEdits = 2
  MaxMoves = 2
  MaxEvents = 3
INVARIANTS TypesOK ReadyOncePerUpdate ListPresent ConfigurationKept
PROPERTIES AttemptGoesOn GameSettles
CHECK_DEADLOCK FALSE
