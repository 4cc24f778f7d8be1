\* A message with a body on its way, or one without and a ping or the rest of another.
\* The errors kept are those that a handler answers once it has taken its message.
SPECIFICATION FairSpec
CONSTANTS
  MaxEmptyPings = 1
  MaxUnread = 6
  Keeps = {"SGS_NO_ROOM_SS", "SGS_NO_ROOM_MM", "SGS_SESSION_IN_PROGRESS",
           "SGS_INV_RTOKEN", "SGS_GAME_IN_PROGRESS"}
INVARIANTS TypeOK TornIsLast
PROPERTIES MessagesInTurn MessagesAreMet IdleEnds
