\* A host that only forms and ends games.
SPECIFICATION Spec
CONSTANTS
  MaxConnections = 2
  Sessions = 2
  Games = 1
  Account = {a1, a2}
  MaxPlayers = 2
  MaxEmptyPings = 0
  HostActs = FALSE
\* A fault ends the process.
CHECK_DEADLOCK FALSE
PROPERTY MarkedIsClosed
