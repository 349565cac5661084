SPECIFICATION FairSpec
CONSTANTS
  alice = alice
  bob = bob
  Peer <- MCPeer
  Worlds <- MCWorlds
  MaxPings = 1
  MaxTexts = 3
  MaxShown = 1
INVARIANTS TypesOK HandshakeAgrees HandshakeIsMutual ShownAsWritten
PROPERTIES NegotiationEnds DeadPeerRemoved HandshakeCompletes VanishesForAReason MessageArrives
CHECK_DEADLOCK FALSE
