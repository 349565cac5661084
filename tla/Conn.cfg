SPECIFICATION FairSpec
CONSTANTS
  UserActions = {"online", "away", "offline"}
  Verdicts = {"client", "badclient", "reject", "error", "noreason"}
  Malformed = {"badsalt", "badversion"}
  Trailing = {"client", "pong", "invalid"}
  MaxDownloads = 2
  MaxPrompts = 1
  MaxRetries = 2
  MaxWire = 3
INVARIANTS TypeOK StatusAgrees TimersBelongToSession
PROPERTIES LoginSettles DeadLinkNoticed ImplementsSession
CHECK_DEADLOCK FALSE
