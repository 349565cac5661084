SPECIFICATION Spec
CONSTANTS
  Packets <- MCPackets
  Attributes <- MCAttributes
  LargeAttributes <- MCLargeAttributes
  Trailers <- MCTrailers
  AlteredTo = {0, 2, 4, 127}
  MaxPosition = 16
  MaxAttributes = 2
INVARIANTS RoundTrip PrefixesWait NothingIgnored
CHECK_DEADLOCK FALSE
