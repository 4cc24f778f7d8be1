\* Two clients, one or two accounts and a game of two.  The sizes make the
\* pools fit, the games' size negative, the games' size wrap to a small one,
\* and the sessions' size negative, in this order.  The process listens once more with
\* a server that has listened.
SPECIFICATION Spec
CONSTANTS
  Clients = {c1, c2}
  Data = {d1, d2}
  DbSizes = {1, 2}
  MaxPlayers = 2
  Sizes = {2, 7, 13, 103}
  MaxRelistens = 1
  IntMax = 32767
SYMMETRY Symmetry
INVARIANTS TypeOK PoolsFit HeldExactly TokensHonoured
PROPERTY RetryIsSafe
