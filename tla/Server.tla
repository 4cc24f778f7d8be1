------------------------------- MODULE Server -------------------------------
(***************************************************************************)
(* simple_game_server.c: clients that connect, log in, play and leave, on  *)
(* one thread that runs one handler at a time.  The host is the program    *)
(* around the library: it accepts connections, closes them, forms games of *)
(* sessions (the matchmaker the code calls is not in the repository), ends *)
(* games and, when HostActs, also calls sgs_disconnect_session and         *)
(* sgs_send_resume_token, which the header offers.                         *)
(*                                                                         *)
(* A message that is refused before anything is changed is not a step, nor *)
(* is a game message, which is stored in the game and read by the host.    *)
(* lost is the set of peers a send does not reach.  Nothing is claimed of  *)
(* a process that followed a null pointer.                                 *)
(***************************************************************************)
EXTENDS SessionServer, SequencesExt

CONSTANTS MaxConnections,   \* SGS_MAX_CONNECTIONS
          Sessions, Games,  \* the sizes of the two pools
          Account,          \* accounts that clients log in to
          MaxPlayers,       \* SGS_GAME_MAX_PLAYERS
          HostActs

ASSUME SizesAssumption ==
  {MaxConnections, Sessions, Games, MaxPlayers} \subseteq Nat \ {0}
ASSUME AccountAssumption == None \notin Account
ASSUME HostAssumption == HostActs \in BOOLEAN

VARIABLES sgs,        \* sessions and connections
          games,      \* what the games of the pool hold
          free_games  \* the games the pool would hand out next

vars == <<sgs, games, free_games>>

Fd  == 0 .. MaxConnections - 1
Sid == 0 .. Sessions - 1
Gid == 0 .. Games - 1

Game(state, players) == [state |-> state, player_session_ids |-> players]

Up == ~sgs.fault

Live == Gid \ ToSet(free_games)

Init == /\ sgs = NewServer(Sessions, Fd)
        /\ games = [g \in Gid |-> Game("done", <<>>)]
        /\ free_games = [i \in 1 .. Games |-> i - 1]

-----------------------------------------------------------------------------
(* Connections.                                                            *)

\* accept gives a descriptor that is not in use.
OpenConnection(fd) ==
  /\ Up /\ sgs.connections[fd].state = "closed"
  /\ sgs' = PutConnection(sgs, fd, Connection(None, "handshake", 0))
  /\ UNCHANGED <<games, free_games>>

HandleHandshake(fd) ==
  LET c == sgs.connections[fd] IN
  /\ Up /\ c.state = "handshake"
  /\ sgs' = PutConnection(sgs, fd, Connection(c.session_id, "secure", c.pings))
  /\ UNCHANGED <<games, free_games>>

HandlePing(fd, lost) ==
  /\ Up /\ sgs.connections[fd].state # "closed"
  /\ sgs' = SendPing(sgs, fd, lost)
  /\ UNCHANGED <<games, free_games>>

\* The loop of sgs_ping_all_connections, from descriptor 0 on.
PingedAll(s, lost) ==
  LET pinged[n \in 0 .. MaxConnections] ==
        IF n = 0 THEN s
        ELSE IF pinged[n - 1].connections[n - 1].state = "closed" THEN pinged[n - 1]
        ELSE SendPing(pinged[n - 1], n - 1, lost)
  IN pinged[MaxConnections]

PingAllConnections(lost) ==
  Up /\ sgs' = PingedAll(sgs, lost) /\ UNCHANGED <<games, free_games>>

HostClose(fd) ==
  /\ Up /\ sgs.connections[fd].state # "closed"
  /\ sgs' = CloseConnection(sgs, fd)
  /\ UNCHANGED <<games, free_games>>

HostDisconnect(id) ==
  /\ Up /\ HostActs /\ id \in Open(sgs)
  /\ sgs' = DisconnectSession(sgs, id)
  /\ UNCHANGED <<games, free_games>>

HostSendToken(id, lost) ==
  /\ Up /\ HostActs /\ id \in Open(sgs) /\ sgs.sessions[id].socket_fd # None
  /\ sgs' = SendResumeToken(sgs, id, lost)
  /\ UNCHANGED <<games, free_games>>

-----------------------------------------------------------------------------
(* Logging in and out.                                                     *)

Secure(fd) == Up /\ sgs.connections[fd].state = "secure"
LoggedIn(fd) == sgs.connections[fd].session_id # None

\* What login and account creation share once the session is connected.  slot
\* is the answer of sgs_create_player, which is not in the repository.
Joined(s, id, slot, lost) ==
  LET old == s.sessions[id] IN
  IF slot = None THEN s
  ELSE SendResumeToken(PutSession(s, id, Session(old.socket_fd, old.account_id,
                                                 slot, None)),
                       id, lost)

\* sgs_adb_verify_data answers 0 or 1, never less, so no login is refused, not
\* even one with an account id that is no account (None).
HandleLogin(fd, account, slot, lost) ==
  LET id      == SsCreated(sgs, account)
      created == SsCreate(sgs, fd, account)
      joined  == ConnectSession(created, fd, id)
  IN /\ Secure(fd) /\ ~LoggedIn(fd)
     /\ id # None
     /\ sgs' = IF ~CanConnect(created, fd, id) THEN created
               ELSE IF joined.sessions[id].game_id # None THEN joined
               ELSE Joined(joined, id, slot, lost)
     /\ UNCHANGED <<games, free_games>>

HandleCreateAccount(fd, slot, lost) ==
  LET id      == SsCreated(sgs, None)
      created == SsCreate(sgs, fd, None)
  IN /\ Secure(fd) /\ ~LoggedIn(fd)
     /\ id # None
     /\ sgs' = IF ~CanConnect(created, fd, id) THEN created
               ELSE Joined(ConnectSession(created, fd, id), id, slot, lost)
     /\ UNCHANGED <<games, free_games>>

\* The client shows the token of a session that is still open.  It has one if
\* the host sent it, which the host may do for any session.
HandleResume(fd, id) ==
  /\ Secure(fd) /\ ~LoggedIn(fd)
  /\ HostActs /\ id \in Open(sgs) /\ CanConnect(sgs, fd, id)
  /\ sgs' = ConnectSession(sgs, fd, id)
  /\ UNCHANGED <<games, free_games>>

HandleLogout(fd) ==
  /\ Secure(fd) /\ LoggedIn(fd)
  /\ sgs.sessions[sgs.connections[fd].session_id].game_id = None
  /\ sgs' = CloseConnection(sgs, fd)
  /\ UNCHANGED <<games, free_games>>
-----------------------------------------------------------------------------
(* Games.                                                                  *)

\* The session's place is written, in a game or in none.
Place(s, id, player, game) ==
  LET old == s.sessions[id] IN
  PutSession(s, id, Session(old.socket_fd, old.account_id, player, game))

\* The session of a player who is done leaves its game.
LeaveGame(s, id) == Place(s, id, None, None)

\* Where the loop of sgs_close_game has got to.
Closing(s, players, done) == [sgs |-> s, players |-> players, done |-> done]

-----------------------------------------------------------------------------
(* Wrong variants of the turns of the loops below, for the mutation checks. *)

\* A player whose message is not sent does not hold the game back.
ClosePlayerDone(c, i, lost) ==
  LET id == c.players[i]
      fd == c.sgs.sessions[id].socket_fd
  IN IF id = None THEN c
     ELSE IF fd = None THEN Closing(c.sgs, c.players, FALSE)
     ELSE IF ~CanSend(c.sgs, fd, lost)
     THEN Closing(CloseConnection(c.sgs, fd), c.players, c.done)
     ELSE Closing(CloseConnection(LeaveGame(c.sgs, id), fd),
                  [c.players EXCEPT ![i] = None], c.done)

\* The session is not told that its game is gone.
DropPlayerStays(s, id) ==
  LET fd == s.sessions[id].socket_fd IN
  IF id = None THEN s
  ELSE IF fd = None THEN DisconnectSession(s, id)
  ELSE CloseConnection(s, fd)
-----------------------------------------------------------------------------

\* The loop of sgs_create_game.
Seated(s, ids, g) ==
  LET seated[n \in 0 .. Len(ids)] ==
        IF n = 0 THEN s ELSE Place(seated[n - 1], ids[n], n - 1, g)
  IN seated[Len(ids)]

\* The host forms a game of sessions that are in none, when a game is free: the
\* code checks neither.
CreateGame(ids) ==
  /\ \A i \in DOMAIN ids : ids[i] \in Open(sgs) /\ sgs.sessions[ids[i]].game_id = None
  /\ Up /\ free_games # <<>>
  /\ games' = [games EXCEPT ![Head(free_games)] = Game("playing", ids)]
  /\ free_games' = Tail(free_games)
  /\ sgs' = Seated(sgs, ids, Head(free_games))

\* One turn of the loop of sgs_close_game.
ClosePlayer(c, i, lost) ==
  LET id == c.players[i]
      fd == c.sgs.sessions[id].socket_fd
  IN IF id = None THEN c
     ELSE IF fd = None THEN Closing(c.sgs, c.players, FALSE)
     ELSE IF ~CanSend(c.sgs, fd, lost)
     THEN Closing(CloseConnection(c.sgs, fd), c.players, FALSE)
     ELSE Closing(CloseConnection(LeaveGame(c.sgs, id), fd),
                  [c.players EXCEPT ![i] = None], c.done)

\* The loop.
ClosedPlayers(s, players, lost) ==
  LET closed[n \in 0 .. Len(players)] ==
        IF n = 0 THEN Closing(s, players, TRUE) ELSE ClosePlayer(closed[n - 1], n, lost)
  IN closed[Len(players)]

CloseGame(g, lost) ==
  LET closed == ClosedPlayers(sgs, games[g].player_session_ids, lost)
  IN /\ Up /\ g \in Live
     /\ sgs' = closed.sgs
     /\ games' = [games EXCEPT ![g] = Game("done", closed.players)]
     /\ free_games' = IF closed.done THEN <<g>> \o free_games ELSE free_games

\* One turn of the loop of sgs_force_close_game.
DropPlayer(s, id) ==
  LET fd == s.sessions[id].socket_fd IN
  IF id = None THEN s
  ELSE IF fd = None THEN DisconnectSession(LeaveGame(s, id), id)
  ELSE CloseConnection(LeaveGame(s, id), fd)

\* The loop.
DroppedPlayers(s, players) ==
  LET dropped[n \in 0 .. Len(players)] ==
        IF n = 0 THEN s ELSE DropPlayer(dropped[n - 1], players[n])
  IN dropped[Len(players)]

ForceCloseGame(g) ==
  LET players == games[g].player_session_ids IN
  /\ Up /\ g \in Live
  /\ sgs' = DroppedPlayers(sgs, players)
  /\ games' = [games EXCEPT ![g] =
                 Game(games[g].state, [i \in DOMAIN players |-> None])]
  /\ free_games' = <<g>> \o free_games
-----------------------------------------------------------------------------

\* What sgs_create_player may answer.
Slots == {None, 0}

Parties == {ids \in SeqOf(Sid, MaxPlayers) \ {<<>>} : IsInjective(ids)}

Next ==
  \/ \E fd \in Fd : \/ OpenConnection(fd) \/ HandleHandshake(fd)
                    \/ HostClose(fd)      \/ HandleLogout(fd)
  \/ \E fd \in Fd, id \in Sid : HandleResume(fd, id)
  \/ \E id \in Sid : HostDisconnect(id)
  \/ \E ids \in Parties : CreateGame(ids)
  \/ \E g \in Gid : ForceCloseGame(g)
  \/ \E fd \in Fd : \E lost \in SUBSET {fd} :
       \/ HandlePing(fd, lost)
       \/ \E slot \in Slots :
            \/ \E account \in Account \cup {None} : HandleLogin(fd, account, slot, lost)
            \/ HandleCreateAccount(fd, slot, lost)
  \/ \E lost \in SUBSET Fd : \/ PingAllConnections(lost)
                             \/ \E g \in Gid : CloseGame(g, lost)
  \/ \E id \in Sid, lost \in {{}, Fd} : HostSendToken(id, lost)

Spec == Init /\ [][Next]_vars

-----------------------------------------------------------------------------

\* The fields keep their types and no pool lists a block as free twice.
TypeOK == /\ sgs.sessions \in [Sid -> [socket_fd : Fd \cup {None},
                                       account_id : Account \cup {None},
                                       player_id : 0 .. MaxPlayers - 1 \cup {None},
                                       game_id : Gid \cup {None}]]
          /\ sgs.connections \in [Fd -> [session_id : Sid \cup {None},
                                         state : {"closed", "handshake", "secure"},
                                         pings : 0 .. MaxEmptyPings + 1]]
          /\ sgs.free \in SeqOf(Sid, Sessions) /\ IsInjective(sgs.free)
          /\ DOMAIN sgs.session_map \subseteq Account /\ Range(sgs.session_map) \subseteq Sid
          /\ sgs.fault \in BOOLEAN
          /\ games \in [Gid -> [state : {"playing", "done"},
                                player_session_ids : SeqOf(Sid \cup {None}, MaxPlayers)]]
          /\ free_games \in SeqOf(Gid, Games) /\ IsInjective(free_games)

\* A session that has no socket is kept for a game and for nothing else: every
\* path that takes the socket away deletes the session unless it is in a game.
DetachedInGame ==
  Up => \A id \in Open(sgs) :
          sgs.sessions[id].socket_fd = None => sgs.sessions[id].game_id # None

\* Games and sessions point at each other: an open player of a live game is an
\* open session that knows the game and its place in it, and every session that
\* names a game is one of the open players of that game, which is live.  So a
\* game is deleted only when no session refers to it, and a session in a game
\* outlives the loss of its connection.
GamesAgree ==
  Up => /\ \A g \in Live : \A i \in DOMAIN games[g].player_session_ids :
             LET id == games[g].player_session_ids[i] IN
             id # None => /\ id \in Open(sgs)
                          /\ sgs.sessions[id].game_id = g
                          /\ sgs.sessions[id].player_id = i - 1
        /\ \A id \in Open(sgs) :
             LET s == sgs.sessions[id] IN
             s.game_id # None =>
               /\ s.game_id \in Live
               /\ games[s.game_id].player_session_ids[s.player_id + 1] = id

\* What a lookup in session_map finds is an open session of that account: nobody
\* is given the session of another account, or one that was deleted.
MapSound ==
  Up => \A account \in DOMAIN sgs.session_map :
          LET id == sgs.session_map[account] IN
          id \in Open(sgs) /\ sgs.sessions[id].account_id = account

\* sgs_handle_game_message writes where the session of its connection points.
\* The session may be gone by then and its number in use again: still the place
\* written to is that of this number in a live game.
MessageLands ==
  Up => \A fd \in Fd : Secure(fd) /\ LoggedIn(fd) =>
          LET id == sgs.connections[fd].session_id
              s  == sgs.sessions[id]
          IN s.game_id # None =>
               s.game_id \in Live /\ games[s.game_id].player_session_ids[s.player_id + 1] = id

-----------------------------------------------------------------------------
(* What the source says of itself and the code does not do.                *)

\* sgs_close_game, on a player that was sent the final message: "mark that this
\* player's session has closed successfully", "close the associated connection
\* and session".
MarkedIsClosed ==
  [][\A g \in Live, lost \in SUBSET Fd : CloseGame(g, lost) =>
       \A i \in DOMAIN games[g].player_session_ids :
         LET id == games[g].player_session_ids[i] IN
         id # None /\ games'[g].player_session_ids[i] = None => id \notin Open(sgs')]_vars
=============================================================================
