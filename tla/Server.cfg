\* Two sessions and two descriptors, two accounts and one game:
\* enough for a session to be left on a descriptor another session uses.
SPECIFICATION Spec
CONSTANTS
  MaxConnections = 2
  Sessions = 2
  Games = 1
  Account = {a1, a2}
  MaxPlayers = 2
  MaxEmptyPings = 0
  HostActs = TRUE
\* A fault ends the process.
CHECK_DEADLOCK FALSE
SYMMETRY Symmetry
INVARIANTS TypeOK DetachedInGame GamesAgree MapSound MessageLands
