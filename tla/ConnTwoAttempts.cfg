SPECIFICATION Spec
CONSTANTS
  UserActions = {"online"}
  Verdicts = {"client"}
  Malformed = {}
  Trailing = {}
  MaxDownloads = 2
  MaxPrompts = 1
  MaxRetries = 1
  MaxWire = 2
PROPERTIES NoAttemptWhileOnline
CHECK_DEADLOCK FALSE
