SPECIFICATION FairSpec
CONSTANTS
  UserActions = {"online"}
  Verdicts = {"client"}
  Malformed = {}
  Trailing = {}
  MaxDownloads = 1
  MaxPrompts = 1
  MaxRetries = 1
  MaxWire = 2
PROPERTIES ReconnectAsPromised
CHECK_DEADLOCK FALSE
