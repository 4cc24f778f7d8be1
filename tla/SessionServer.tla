---------------------------- MODULE SessionServer ----------------------------
(***************************************************************************)
(* The sessions and the connections of simple_game_server.c as one value:  *)
(* sgs_session_server_t, the connections[] array of sgs_t and the          *)
(* operations that chain through both, each as a function of that value.   *)
(*                                                                         *)
(* The session allocator is the pool that BlockPool specifies, with the    *)
(* order in which fbaa.c reuses blocks: free lists the blocks it would     *)
(* hand out next.  session_map is the map that KeyMap specifies; it is not *)
(* full before the sessions are.  Keys, nonces and message contents are    *)
(* left out.                                                               *)
(* A descriptor is open exactly while its connection is not CLOSED, since  *)
(* sgs_open_connection and sgs_close_connection change both together.      *)
(***************************************************************************)
EXTENDS Integers, Sequences, Functions

CONSTANT MaxEmptyPings    \* SGS_MAX_EMPTY_PINGS

ASSUME MaxEmptyPingsAssumption == MaxEmptyPings \in Nat

None == -1    \* no session, socket, account, game or player

Session(socket, account, player, game) ==
  [socket_fd |-> socket, account_id |-> account, player_id |-> player,
   game_id |-> game]

Connection(session, state, pings) ==
  [session_id |-> session, state |-> state, pings |-> pings]

\* fault: an operation followed a null pointer, and the process is gone.
Sgs(sessions, free, map, connections, fault) ==
  [sessions |-> sessions, free |-> free, session_map |-> map,
   connections |-> connections, fault |-> fault]

Open(s) == DOMAIN s.sessions \ Range(s.free)

\* sgs_new: no session, every connection closed.  Nothing reads a session
\* before sgs_ss_create wrote it.
NewServer(size, fds) ==
  Sgs([id \in 0 .. size - 1 |-> Session(None, None, None, None)],
      [i \in 1 .. size |-> i - 1], <<>>,
      [fd \in fds |-> Connection(None, "closed", 0)], FALSE)

PutSession(s, id, session) ==
  Sgs([s.sessions EXCEPT ![id] = session], s.free, s.session_map,
      s.connections, s.fault)

PutConnection(s, fd, connection) ==
  Sgs(s.sessions, s.free, s.session_map,
      [s.connections EXCEPT ![fd] = connection], s.fault)

-----------------------------------------------------------------------------
(* Wrong variants of the operations, for the mutation checks.              *)

\* The key stays in the map.
SsDeleteKeepsKey(s, id) ==
  Sgs(s.sessions, IF id \in Open(s) THEN <<id>> \o s.free ELSE s.free,
      s.session_map, s.connections, s.fault)

\* The block is freed without a look at full_blocks.
SsDeleteUnchecked(s, id) ==
  LET account == s.sessions[id].account_id IN
  Sgs(s.sessions, <<id>> \o s.free,
      Restrict(s.session_map, DOMAIN s.session_map \ {account}), s.connections,
      s.fault \/ (account # None /\ account \notin DOMAIN s.session_map))

\* A session that loses its socket is always kept.
DisconnectKeeps(s, id) ==
  LET old == s.sessions[id] IN
  PutSession(s, id, Session(None, old.account_id, old.player_id, old.game_id))
-----------------------------------------------------------------------------

\* sgs_ss_create: the session an account has, or the next free one, or None.
SsCreated(s, account) ==
  IF account \in DOMAIN s.session_map THEN s.session_map[account]
  ELSE IF s.free = <<>> THEN None ELSE Head(s.free)

SsCreate(s, fd, account) ==
  IF account \in DOMAIN s.session_map \/ s.free = <<>> THEN s
  ELSE Sgs([s.sessions EXCEPT ![Head(s.free)] =
              Session(fd, account, None, None)],
           Tail(s.free),
           IF account = None THEN s.session_map
           ELSE [a \in DOMAIN s.session_map \cup {account} |->
                   IF a = account THEN Head(s.free) ELSE s.session_map[a]],
           s.connections, s.fault)

\* sgs_ss_delete: arbt_delete follows a null pointer for a key that is not in
\* the map; fbaa_free_index ignores a block that is free.
SsDelete(s, id) ==
  LET account == s.sessions[id].account_id IN
  Sgs(s.sessions, IF id \in Open(s) THEN <<id>> \o s.free ELSE s.free,
      Restrict(s.session_map, DOMAIN s.session_map \ {account}), s.connections,
      s.fault \/ (account # None /\ account \notin DOMAIN s.session_map))

\* The session loses its socket, and its place unless it is in a game.
DisconnectSession(s, id) ==
  LET old == s.sessions[id]
      detached == PutSession(s, id, Session(None, old.account_id, old.player_id,
                                            old.game_id))
  IN IF old.game_id # None THEN detached ELSE SsDelete(detached, id)

\* The connection keeps the number of the session it had.
CloseConnection(s, fd) ==
  LET c == s.connections[fd]
      d == IF c.session_id # None THEN DisconnectSession(s, c.session_id) ELSE s
  IN PutConnection(d, fd, Connection(c.session_id, "closed", c.pings))

CanConnect(s, fd, id) ==
  s.sessions[id].socket_fd = None /\ s.connections[fd].session_id = None

ConnectSession(s, fd, id) ==
  LET old == s.sessions[id]
      c   == s.connections[fd]
  IN PutConnection(PutSession(s, id, Session(fd, old.account_id, old.player_id,
                                             old.game_id)),
                   fd, Connection(id, c.state, c.pings))

\* send fails on a closed descriptor and on those whose peer is lost.
CanSend(s, fd, lost) == s.connections[fd].state # "closed" /\ fd \notin lost

\* pings matters only up to the limit, so it is counted no further.
SendPing(s, fd, lost) ==
  LET c == s.connections[fd]
      p == IF c.session_id = None /\ c.pings > MaxEmptyPings
           THEN CloseConnection(s, fd) ELSE s
      q == PutConnection(p, fd, Connection(c.session_id, p.connections[fd].state,
             IF c.pings > MaxEmptyPings THEN c.pings ELSE c.pings + 1))
  IN IF CanSend(q, fd, lost) THEN q ELSE CloseConnection(q, fd)

SendResumeToken(s, id, lost) ==
  LET fd == s.sessions[id].socket_fd IN
  IF CanSend(s, fd, lost) THEN s ELSE CloseConnection(s, fd)
=============================================================================
