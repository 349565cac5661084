CONSTANTS
  Friends = {f1, f2}
  Clan = {f2}
  NoId = NoId
  Garbage = {f1}
  Games = {g1, g2}
  Named = {g1}
  NoGame = NoGame
  MaxEvents = 4
  MaxConnections = 2
SPECIFICATION Spec
CONSTRAINT IdsRight
INVARIANTS TypeOK ListsShown Settled
PROPERTIES ChatsDelivered
CHECK_DEADLOCK FALSE
