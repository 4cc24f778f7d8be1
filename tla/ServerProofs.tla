---------------------------- MODULE ServerProofs ----------------------------
(***************************************************************************)
(* Server for any number of connections, sessions, games, accounts and     *)
(* places in a game: the five invariants that its runs check.              *)
(*                                                                         *)
(* The inductive invariant needs no process that is up: it survives the    *)
(* null pointer too.  It says of every session, free ones included, what   *)
(* GamesAgree says of open ones, since a session may be closed again after *)
(* it was deleted.  Each operation is shown to leave the sessions sound    *)
(* and, but for the game actions, to keep every place in a game; the four  *)
(* loops are followed turn by turn.                                        *)
(***************************************************************************)
EXTENDS Server, ContainerProofs

\* The types that TypeOK gives the fields.
SessionType == [socket_fd : Fd \cup {None}, account_id : Account \cup {None},
                player_id : 0 .. MaxPlayers - 1 \cup {None},
                game_id : Gid \cup {None}]

ConnectionType == [session_id : Sid \cup {None},
                   state : {"closed", "handshake", "secure"},
                   pings : 0 .. MaxEmptyPings + 1]

SgsType == [sessions : [Sid -> SessionType], free : Seq(Sid),
            session_map : UNION {[accounts -> Sid] : accounts \in SUBSET Account},
            connections : [Fd -> ConnectionType], fault : BOOLEAN]

\* No block is free twice, a free session is in no game, a session without a
\* socket is (but for the ones in except), and the map leads to open sessions
\* of the account looked up.
SoundBut(s, except) ==
  /\ s \in SgsType
  /\ IsInjective(s.free)
  /\ \A id \in Sid : s.sessions[id].game_id # None => id \in Open(s)
  /\ \A id \in Open(s) \ except :
       s.sessions[id].socket_fd = None => s.sessions[id].game_id # None
  /\ \A account \in DOMAIN s.session_map :
       /\ s.session_map[account] \in Open(s)
       /\ s.sessions[s.session_map[account]].account_id = account

Sound(s) == SoundBut(s, {})

\* The sessions of games keep their places and the others get none.
Keeps(s, t) ==
  \A id \in Sid : /\ t.sessions[id].game_id = s.sessions[id].game_id
                  /\ s.sessions[id].game_id # None =>
                       t.sessions[id].player_id = s.sessions[id].player_id

\* The players of the games.
Seats == [g \in Gid |-> games[g].player_session_ids]

\* seats of the live games and the places of the sessions point at each other.
Agree(s, seats, live) ==
  /\ \A g \in live : \A i \in DOMAIN seats[g] : seats[g][i] # None =>
       /\ s.sessions[seats[g][i]].game_id = g
       /\ s.sessions[seats[g][i]].player_id = i - 1
  /\ \A id \in Sid : LET p == s.sessions[id] IN p.game_id # None =>
       /\ p.game_id \in live
       /\ p.player_id + 1 \in DOMAIN seats[p.game_id]
       /\ seats[p.game_id][p.player_id + 1] = id

\* The games, as TypeOK has them.
GamesType == [Gid -> [state : {"playing", "done"},
                      player_session_ids : SeqOf(Sid \cup {None}, MaxPlayers)]]

\* The inductive invariant.
IInv == /\ Sound(sgs)
        /\ games \in GamesType
        /\ free_games \in Seq(Gid) /\ IsInjective(free_games)
        /\ Agree(sgs, Seats, Live)

-----------------------------------------------------------------------------
(* The operations on sessions and connections.                             *)

\* A session that is rewritten in place.
LEMMA PutSessionEffect ==
  ASSUME NEW s \in SgsType, NEW id \in Sid, NEW x \in SessionType
  PROVE  LET t == PutSession(s, id, x) IN
         /\ t \in SgsType
         /\ t.sessions = [s.sessions EXCEPT ![id] = x]
         /\ t.free = s.free /\ t.session_map = s.session_map
         /\ t.connections = s.connections /\ t.fault = s.fault
         /\ Open(t) = Open(s) /\ Open(s) \subseteq Sid
BY DEF PutSession, Sgs, SgsType, Open

\* A connection that is rewritten in place.
LEMMA PutConnectionEffect ==
  ASSUME NEW s \in SgsType, NEW fd \in Fd, NEW c \in ConnectionType
  PROVE  LET t == PutConnection(s, fd, c) IN
         /\ t \in SgsType
         /\ t.connections = [s.connections EXCEPT ![fd] = c]
         /\ t.free = s.free /\ t.session_map = s.session_map
         /\ t.sessions = s.sessions /\ t.fault = s.fault
         /\ Open(t) = Open(s)
BY DEF PutConnection, Sgs, SgsType, Open

\* A connection is no part of what Sound says.
LEMMA PutConnectionSound ==
  ASSUME NEW s, Sound(s), NEW fd \in Fd, NEW c \in ConnectionType
  PROVE  Sound(PutConnection(s, fd, c)) /\ Keeps(s, PutConnection(s, fd, c))
<1> DEFINE t == PutConnection(s, fd, c)
<1>1. s \in SgsType
  BY DEF Sound, SoundBut
<1>2. /\ t \in SgsType /\ t.free = s.free /\ t.session_map = s.session_map
      /\ t.sessions = s.sessions /\ Open(t) = Open(s)
  BY <1>1, PutConnectionEffect
<1> HIDE DEF t
<1>3. Sound(t) /\ Keeps(s, t)
  BY <1>2 DEF Sound, SoundBut, Keeps
<1>4. QED BY <1>3 DEF t

\* Operations that keep the places may be chained.
LEMMA KeepsTrans ==
  ASSUME NEW r, NEW s, NEW t, Keeps(r, s), Keeps(s, t)
  PROVE  Keeps(r, t)
BY DEF Keeps

\* sgs_ss_delete of a session that is in no game.
LEMMA SsDeleteEffect ==
  ASSUME NEW s \in SgsType, NEW id \in Sid, IsInjective(s.free)
  PROVE  LET t == SsDelete(s, id)
             account == s.sessions[id].account_id IN
         /\ t \in SgsType /\ IsInjective(t.free)
         /\ Open(t) = Open(s) \ {id}
         /\ t.sessions = s.sessions /\ t.connections = s.connections
         /\ DOMAIN t.session_map = DOMAIN s.session_map \ {account}
         /\ \A a \in DOMAIN s.session_map \ {account} : t.session_map[a] = s.session_map[a]
<1> DEFINE account == s.sessions[id].account_id
           t == SsDelete(s, id)
           free == IF id \in Open(s) THEN <<id>> \o s.free ELSE s.free
           map == Restrict(s.session_map, DOMAIN s.session_map \ {account})
<1>1. free \in Seq(Sid) /\ IsInjective(free) /\ Range(free) = Range(s.free) \cup {id}
  <2>1. s.free \in Seq(Sid) /\ DOMAIN s.sessions = Sid
    BY DEF SgsType
  <2>2. CASE id \notin Open(s)
    BY <2>1, <2>2 DEF Open
  <2>3. CASE id \in Open(s)
    BY <2>1, <2>3, PushFree DEF Open
  <2>4. QED BY <2>2, <2>3
<1>2. /\ map \in UNION {[accounts -> Sid] : accounts \in SUBSET Account}
      /\ DOMAIN map = DOMAIN s.session_map \ {account}
      /\ \A a \in DOMAIN s.session_map \ {account} : map[a] = s.session_map[a]
  <2>1. PICK accounts \in SUBSET Account : s.session_map \in [accounts -> Sid]
    BY DEF SgsType
  <2>2. map \in [accounts \ {account} -> Sid]
    BY <2>1 DEF Restrict
  <2>3. accounts \ {account} \in SUBSET Account
    OBVIOUS
  <2>4. QED BY <2>1, <2>2, <2>3 DEF Restrict
<1>3. t = Sgs(s.sessions, free, map, s.connections,
              s.fault \/ (account # None /\ account \notin DOMAIN s.session_map))
  BY DEF SsDelete
<1> HIDE DEF free, map, t, account
<1>4. /\ t.sessions = s.sessions /\ t.free = free /\ t.session_map = map
      /\ t.connections = s.connections
      /\ t.fault = (s.fault \/ (account # None /\ account \notin DOMAIN s.session_map))
  BY <1>3 DEF Sgs
<1>5. t \in SgsType
  BY <1>1, <1>2, <1>3 DEF SgsType, Sgs
<1>6. Open(t) = Open(s) \ {id}
  BY <1>1, <1>4 DEF Open
<1>7. QED BY <1>1, <1>2, <1>4, <1>5, <1>6 DEF t, account

\* sgs_disconnect_session: a session that is about to lose its socket need not
\* have one.
LEMMA DisconnectSound ==
  ASSUME NEW s, NEW id \in Sid, SoundBut(s, {id})
  PROVE  /\ Sound(DisconnectSession(s, id))
         /\ Keeps(s, DisconnectSession(s, id))
         /\ DisconnectSession(s, id).connections = s.connections
<1> DEFINE old == s.sessions[id]
           x == Session(None, old.account_id, old.player_id, old.game_id)
           d == PutSession(s, id, x)
           t == SsDelete(d, id)
<1>1. /\ s \in SgsType /\ IsInjective(s.free) /\ old \in SessionType
      /\ s.sessions \in [Sid -> SessionType]
  BY DEF SoundBut, SgsType
<1>2. /\ x \in SessionType /\ x.socket_fd = None /\ x.account_id = old.account_id
      /\ x.player_id = old.player_id /\ x.game_id = old.game_id
  BY <1>1 DEF Session, SessionType
<1>3. DisconnectSession(s, id) = IF old.game_id # None THEN d ELSE t
  BY DEF DisconnectSession
<1> HIDE DEF x, t
<1>4. /\ d \in SgsType /\ d.sessions = [s.sessions EXCEPT ![id] = x]
      /\ d.free = s.free /\ d.session_map = s.session_map
      /\ d.connections = s.connections /\ Open(d) = Open(s) /\ Open(s) \subseteq Sid
  BY <1>1, <1>2, PutSessionEffect
<1> HIDE DEF d
<1>5. Keeps(s, d)
  BY <1>1, <1>2, <1>4 DEF Keeps
<1>6. CASE old.game_id # None
  <2>1. Sound(d)
    BY <1>1, <1>2, <1>4, <1>6 DEF Sound, SoundBut
  <2>2. QED BY <1>4, <1>3, <1>5, <1>6, <2>1
<1>7. CASE old.game_id = None
  <2>1. /\ t \in SgsType /\ IsInjective(t.free)
        /\ Open(t) = Open(s) \ {id}
        /\ t.sessions = d.sessions /\ t.connections = s.connections
        /\ DOMAIN t.session_map = DOMAIN s.session_map \ {d.sessions[id].account_id}
        /\ \A a \in DOMAIN s.session_map \ {d.sessions[id].account_id} :
             t.session_map[a] = s.session_map[a]
    BY <1>1, <1>4, SsDeleteEffect DEF t
  <2>2. d.sessions[id].account_id = old.account_id
    BY <1>1, <1>2, <1>4
  <2>3. \A a \in DOMAIN t.session_map : s.session_map[a] # id
    BY <2>1, <2>2 DEF SoundBut
  <2>4. Sound(t)
    BY <1>1, <1>2, <1>4, <1>7, <2>1, <2>3 DEF Sound, SoundBut
  <2>5. Keeps(s, t)
    BY <1>5, <2>1 DEF Keeps
  <2>6. QED BY <1>3, <1>7, <2>1, <2>4, <2>5
<1>8. QED BY <1>6, <1>7

\* The exception may go unused.
LEMMA SoundIsSoundBut ==
  ASSUME NEW s, NEW except, Sound(s)
  PROVE  SoundBut(s, except)
BY DEF Sound, SoundBut

\* The parts of a sound server.
LEMMA SoundFields ==
  ASSUME NEW s, NEW except, SoundBut(s, except)
  PROVE  /\ s \in SgsType
         /\ s.sessions \in [Sid -> SessionType]
         /\ s.connections \in [Fd -> ConnectionType]
         /\ Open(s) \subseteq Sid
BY DEF SoundBut, SgsType, Open

\* sgs_close_connection disconnects whichever session the connection names.
LEMMA CloseSound ==
  ASSUME NEW s, Sound(s), NEW fd \in Fd
  PROVE  /\ Sound(CloseConnection(s, fd)) /\ Keeps(s, CloseConnection(s, fd))
         /\ CloseConnection(s, fd).connections[fd]
              = Connection(s.connections[fd].session_id, "closed",
                           s.connections[fd].pings)
<1> DEFINE c == s.connections[fd]
           x == Connection(c.session_id, "closed", c.pings)
           d == IF c.session_id # None THEN DisconnectSession(s, c.session_id) ELSE s
           t == PutConnection(d, fd, x)
<1>1. c \in ConnectionType
  BY SoundFields DEF Sound
<1>2. x \in ConnectionType
  BY <1>1 DEF Connection, ConnectionType
<1>3. Sound(d) /\ Keeps(s, d)
  <2>1. CASE c.session_id = None
    BY <2>1 DEF Keeps
  <2>2. CASE c.session_id # None
    <3>1. c.session_id \in Sid
      BY <1>1, <2>2 DEF ConnectionType
    <3>2. QED BY <2>2, <3>1, DisconnectSound, SoundIsSoundBut
  <2>3. QED BY <2>1, <2>2
<1>4. CloseConnection(s, fd) = t
  BY DEF CloseConnection
<1> HIDE DEF x, d
<1>5. Sound(t) /\ Keeps(d, t)
  BY <1>2, <1>3, PutConnectionSound
<1>6. t.connections = [d.connections EXCEPT ![fd] = x] /\ d.connections \in [Fd -> ConnectionType]
  BY <1>2, <1>3, PutConnectionEffect, SoundFields DEF Sound
<1>7. t.connections[fd] = x
  BY <1>6
<1> HIDE DEF t
<1>8. QED BY <1>3, <1>4, <1>5, <1>7, KeepsTrans DEF x

\* sgs_send_ping, with the close before it and the close after it.
LEMMA SendPingSound ==
  ASSUME NEW s, Sound(s), NEW fd \in Fd, NEW lost
  PROVE  Sound(SendPing(s, fd, lost)) /\ Keeps(s, SendPing(s, fd, lost))
<1> DEFINE c == s.connections[fd]
           p == IF c.session_id = None /\ c.pings > MaxEmptyPings
                THEN CloseConnection(s, fd) ELSE s
           x == Connection(c.session_id, p.connections[fd].state,
                           IF c.pings > MaxEmptyPings THEN c.pings ELSE c.pings + 1)
           q == PutConnection(p, fd, x)
<1>1. Sound(p) /\ Keeps(s, p)
  BY CloseSound DEF Keeps
<1>2. c \in ConnectionType /\ p.connections[fd] \in ConnectionType
  <2> HIDE DEF p
  <2>1. QED BY <1>1, SoundFields DEF Sound
<1>3. SendPing(s, fd, lost) = IF CanSend(q, fd, lost) THEN q ELSE CloseConnection(q, fd)
  BY DEF SendPing
<1> HIDE DEF p
<1>4. x \in ConnectionType
  BY <1>2, MaxEmptyPingsAssumption DEF Connection, ConnectionType
<1> HIDE DEF x
<1>5. Sound(q) /\ Keeps(p, q)
  BY <1>1, <1>4, PutConnectionSound
<1> HIDE DEF q
<1>6. Sound(CloseConnection(q, fd)) /\ Keeps(q, CloseConnection(q, fd))
  BY <1>5, CloseSound
<1>7. Keeps(s, q)
  BY <1>1, <1>5, KeepsTrans
<1>8. Keeps(s, CloseConnection(q, fd))
  BY <1>6, <1>7, KeepsTrans
<1>9. QED BY <1>3, <1>5, <1>6, <1>7, <1>8

\* sgs_send_resume_token, which closes the connection if the send fails.
LEMMA SendResumeTokenSound ==
  ASSUME NEW s, Sound(s), NEW id \in Sid, s.sessions[id].socket_fd # None, NEW lost
  PROVE  Sound(SendResumeToken(s, id, lost)) /\ Keeps(s, SendResumeToken(s, id, lost))
<1>1. s.sessions[id].socket_fd \in Fd
  BY SoundFields DEF Sound, SessionType
<1>2. QED BY <1>1, CloseSound DEF SendResumeToken, Keeps

\* sgs_ss_create: the session answered is open and of the account.
LEMMA SsCreateSound ==
  ASSUME NEW s, Sound(s), NEW fd \in Fd, NEW account \in Account \cup {None},
         SsCreated(s, account) # None
  PROVE  /\ Sound(SsCreate(s, fd, account)) /\ Keeps(s, SsCreate(s, fd, account))
         /\ SsCreated(s, account) \in Open(SsCreate(s, fd, account))
         /\ account \notin DOMAIN s.session_map =>
              SsCreate(s, fd, account).sessions[SsCreated(s, account)].socket_fd = fd
<1> DEFINE new == Head(s.free)
           x == Session(fd, account, None, None)
           map == IF account = None THEN s.session_map
                  ELSE [a \in DOMAIN s.session_map \cup {account} |->
                         IF a = account THEN new ELSE s.session_map[a]]
           t == Sgs([s.sessions EXCEPT ![new] = x], Tail(s.free), map,
                    s.connections, s.fault)
<1>0. /\ s \in SgsType /\ s.sessions \in [Sid -> SessionType] /\ Open(s) \subseteq Sid
      /\ s.free \in Seq(Sid) /\ IsInjective(s.free) /\ DOMAIN s.sessions = Sid
  BY DEF Sound, SoundBut, SgsType, Open
<1>1. CASE account \in DOMAIN s.session_map
  BY <1>1 DEF SsCreate, SsCreated, Sound, SoundBut, Keeps
<1>2. CASE account \notin DOMAIN s.session_map
  <2>1. s.free # <<>> /\ SsCreated(s, account) = new /\ SsCreate(s, fd, account) = t
    BY <1>2 DEF SsCreated, SsCreate
  <2>2. /\ Tail(s.free) \in Seq(Sid) /\ IsInjective(Tail(s.free))
        /\ new \in Sid /\ new \notin Open(s)
        /\ Range(Tail(s.free)) = Range(s.free) \ {new}
    BY <1>0, <2>1, PopFree DEF Open
  <2>3. x \in SessionType /\ x.socket_fd = fd /\ x.account_id = account /\ x.game_id = None
    BY DEF Session, SessionType
  <2>4. /\ map \in UNION {[accounts -> Sid] : accounts \in SUBSET Account}
        /\ DOMAIN map = DOMAIN s.session_map \cup ({account} \ {None})
        /\ account # None => map[account] = new
        /\ \A a \in DOMAIN s.session_map : map[a] = s.session_map[a]
    <3>1. PICK accounts \in SUBSET Account : s.session_map \in [accounts -> Sid]
      BY <1>0 DEF SgsType
    <3>2. CASE account = None
      BY <3>1, <3>2
    <3>3. CASE account # None
      <4>1. /\ map = [a \in accounts \cup {account} |->
                       IF a = account THEN new ELSE s.session_map[a]]
        BY <3>1, <3>3
      <4> HIDE DEF map, new
      <4>2. map \in [accounts \cup {account} -> Sid]
        BY <2>2, <3>1, <4>1
      <4>3. accounts \cup {account} \in SUBSET Account
        BY <3>3
      <4>4. QED BY <1>2, <3>1, <3>3, <4>1, <4>2, <4>3
    <3>4. QED BY <3>2, <3>3
  <2> HIDE DEF new, x, map
  <2>5. /\ t.sessions = [s.sessions EXCEPT ![new] = x] /\ t.free = Tail(s.free)
        /\ t.session_map = map /\ t.connections = s.connections
    BY DEF Sgs
  <2>6. t \in SgsType
    BY <1>0, <2>2, <2>3, <2>4 DEF Sgs, SgsType
  <2> HIDE DEF t
  <2>7. Open(t) = Open(s) \cup {new}
    BY <1>0, <2>2, <2>5 DEF Open
  <2>8. s.sessions[new].game_id = None
    BY <2>2 DEF Sound, SoundBut
  <2>9. Keeps(s, t)
    BY <1>0, <2>2, <2>3, <2>5, <2>8 DEF Keeps
  <2>10. \A a \in DOMAIN map : /\ map[a] \in Open(t)
                               /\ t.sessions[map[a]].account_id = a
    <3>1. ASSUME NEW a \in DOMAIN s.session_map
          PROVE  map[a] \in Open(t) /\ t.sessions[map[a]].account_id = a
      BY <1>0, <2>2, <2>4, <2>5, <2>7 DEF Sound, SoundBut
    <3>2. CASE account # None
      BY <1>0, <2>2, <2>3, <2>4, <2>5, <2>7, <3>1, <3>2
    <3>3. QED BY <2>4, <3>1, <3>2
  <2>11. Sound(t)
    <3>1. \A id \in Sid : t.sessions[id].game_id # None => id \in Open(t)
      BY <1>0, <2>2, <2>3, <2>5, <2>7 DEF Sound, SoundBut
    <3>2. \A id \in Open(t) :
            t.sessions[id].socket_fd = None => t.sessions[id].game_id # None
      <4>1. fd # None
        BY DEF Fd, None
      <4>2. QED BY <1>0, <2>2, <2>3, <2>5, <2>7, <4>1 DEF Sound, SoundBut
    <3>3. QED BY <2>2, <2>5, <2>6, <2>10, <3>1, <3>2 DEF Sound, SoundBut
  <2>12. t.sessions[new].socket_fd = fd
    BY <1>0, <2>2, <2>3, <2>5
  <2>13. QED BY <2>1, <2>7, <2>9, <2>11, <2>12
<1>3. QED BY <1>1, <1>2

\* sgs_connect_session_: the session gets a socket and keeps its place.
LEMMA ConnectSound ==
  ASSUME NEW s, Sound(s), NEW fd \in Fd, NEW id \in Sid
  PROVE  LET t == ConnectSession(s, fd, id) IN
         /\ Sound(t) /\ Keeps(s, t) /\ t.sessions[id].socket_fd = fd
<1> DEFINE old == s.sessions[id]
           c == s.connections[fd]
           x == Session(fd, old.account_id, old.player_id, old.game_id)
           y == Connection(id, c.state, c.pings)
           r == PutSession(s, id, x)
           t == PutConnection(r, fd, y)
<1>1. /\ s \in SgsType /\ s.sessions \in [Sid -> SessionType]
      /\ old \in SessionType /\ c \in ConnectionType /\ Open(s) \subseteq Sid
  BY SoundFields DEF Sound
<1>2. /\ x \in SessionType /\ x.socket_fd = fd /\ x.account_id = old.account_id
      /\ x.player_id = old.player_id /\ x.game_id = old.game_id
  BY <1>1 DEF Session, SessionType
<1>3. y \in ConnectionType
  BY <1>1 DEF Connection, ConnectionType
<1>4. fd # None
  BY DEF Fd, None
<1>5. ConnectSession(s, fd, id) = t
  BY DEF ConnectSession
<1> HIDE DEF x, y
<1>6. /\ r \in SgsType /\ r.sessions = [s.sessions EXCEPT ![id] = x]
      /\ r.free = s.free /\ r.session_map = s.session_map /\ Open(r) = Open(s)
  BY <1>1, <1>2, PutSessionEffect
<1> HIDE DEF r
<1>7. Sound(r)
  BY <1>1, <1>2, <1>4, <1>6 DEF Sound, SoundBut
<1>8. Keeps(s, r)
  BY <1>1, <1>2, <1>6 DEF Keeps
<1>9. Sound(t) /\ Keeps(r, t)
  BY <1>3, <1>7, PutConnectionSound
<1>10. t.sessions = r.sessions
  BY <1>3, <1>6, PutConnectionEffect
<1>11. t.sessions[id].socket_fd = fd
  BY <1>1, <1>2, <1>6, <1>10
<1> HIDE DEF t
<1>12. QED BY <1>5, <1>8, <1>9, <1>11, KeepsTrans

\* The place a session in no game is given at login is no place in a game.
LEMMA JoinedSound ==
  ASSUME NEW s, Sound(s), NEW id \in Sid, NEW slot \in Slots, NEW lost,
         s.sessions[id].socket_fd # None, s.sessions[id].game_id = None
  PROVE  Sound(Joined(s, id, slot, lost)) /\ Keeps(s, Joined(s, id, slot, lost))
<1> DEFINE old == s.sessions[id]
           x == Session(old.socket_fd, old.account_id, slot, None)
           r == PutSession(s, id, x)
<1>1. /\ s \in SgsType /\ s.sessions \in [Sid -> SessionType]
      /\ old \in SessionType /\ Open(s) \subseteq Sid
  BY SoundFields DEF Sound
<1>2. /\ x \in SessionType /\ x.socket_fd = old.socket_fd
      /\ x.account_id = old.account_id /\ x.game_id = None
  <2>1. slot \in 0 .. MaxPlayers - 1 \cup {None}
    BY SizesAssumption DEF Slots
  <2>2. QED BY <1>1, <2>1 DEF Session, SessionType
<1>3. Joined(s, id, slot, lost) = IF slot = None THEN s ELSE SendResumeToken(r, id, lost)
  BY DEF Joined
<1> HIDE DEF x
<1>4. /\ r \in SgsType /\ r.sessions = [s.sessions EXCEPT ![id] = x]
      /\ r.free = s.free /\ r.session_map = s.session_map /\ Open(r) = Open(s)
  BY <1>1, <1>2, PutSessionEffect
<1> HIDE DEF r
<1>5. Sound(r) /\ r.sessions[id].socket_fd # None
  BY <1>1, <1>2, <1>4 DEF Sound, SoundBut
<1>6. Keeps(s, r)
  BY <1>1, <1>2, <1>4 DEF Keeps
<1>7. Sound(SendResumeToken(r, id, lost)) /\ Keeps(r, SendResumeToken(r, id, lost))
  BY <1>5, SendResumeTokenSound
<1>8. Keeps(s, SendResumeToken(r, id, lost))
  BY <1>6, <1>7, KeepsTrans
<1>9. Keeps(s, s)
  BY DEF Keeps
<1>10. QED BY <1>3, <1>7, <1>8, <1>9

-----------------------------------------------------------------------------
(* Sessions and games.                                                     *)

\* The players of one game.
PlayersType == SeqOf(Sid \cup {None}, MaxPlayers)

\* A seat holds a session number or none.
LEMMA SeatTyped ==
  ASSUME NEW seats \in [Gid -> PlayersType], NEW g \in Gid, NEW i \in DOMAIN seats[g]
  PROVE  i \in 1 .. MaxPlayers /\ seats[g][i] \in Sid \cup {None}
<1>1. seats[g] \in PlayersType
  OBVIOUS
<1>2. PICK m \in 0 .. MaxPlayers : seats[g] \in [1 .. m -> Sid \cup {None}]
  BY <1>1 DEF PlayersType, SeqOf
<1>3. QED BY <1>2, SizesAssumption

\* A step that keeps every place keeps the agreement.
LEMMA AgreeKeeps ==
  ASSUME NEW s, NEW t, Keeps(s, t), NEW seats \in [Gid -> PlayersType],
         NEW live \in SUBSET Gid, Agree(s, seats, live)
  PROVE  Agree(t, seats, live)
<1>1. ASSUME NEW g \in live, NEW i \in DOMAIN seats[g], seats[g][i] # None
      PROVE  /\ t.sessions[seats[g][i]].game_id = g
             /\ t.sessions[seats[g][i]].player_id = i - 1
  <2>1. g \in Gid
    OBVIOUS
  <2>2. seats[g][i] \in Sid
    BY <1>1, <2>1, SeatTyped
  <2>3. g # None
    BY <2>1 DEF Gid, None
  <2>4. QED BY <1>1, <2>2, <2>3 DEF Agree, Keeps
<1>2. ASSUME NEW id \in Sid, t.sessions[id].game_id # None
      PROVE  /\ t.sessions[id].game_id \in live
             /\ t.sessions[id].player_id + 1 \in DOMAIN seats[t.sessions[id].game_id]
             /\ seats[t.sessions[id].game_id][t.sessions[id].player_id + 1] = id
  BY <1>2 DEF Agree, Keeps
<1>3. QED BY <1>1, <1>2 DEF Agree

\* The player at place i of game g leaves it.
LEMMA LeaveSound ==
  ASSUME NEW s, Sound(s), NEW seats \in [Gid -> PlayersType],
         NEW live \in SUBSET Gid, Agree(s, seats, live), NEW g \in live,
         NEW i \in DOMAIN seats[g], seats[g][i] # None
  PROVE  LET id == seats[g][i]
             t  == LeaveGame(s, id) IN
         /\ id \in Sid
         /\ SoundBut(t, {id})
         /\ s.sessions[id].socket_fd # None => Sound(t)
         /\ Agree(t, [seats EXCEPT ![g] = [seats[g] EXCEPT ![i] = None]], live)
<1> DEFINE id == seats[g][i]
           old == s.sessions[id]
           x == Session(old.socket_fd, old.account_id, None, None)
           t == LeaveGame(s, id)
           left == [seats EXCEPT ![g] = [seats[g] EXCEPT ![i] = None]]
<1>1. PICK m \in 0 .. MaxPlayers : seats[g] \in [1 .. m -> Sid \cup {None}]
  BY DEF PlayersType, SeqOf
<1>2. id \in Sid /\ i \in 1 .. m /\ g # None
  BY <1>1 DEF Gid, None
<1>3. /\ s \in SgsType /\ s.sessions \in [Sid -> SessionType]
      /\ old \in SessionType /\ Open(s) \subseteq Sid
  BY <1>2, SoundFields DEF Sound
<1>4. /\ x \in SessionType /\ x.socket_fd = old.socket_fd
      /\ x.account_id = old.account_id /\ x.game_id = None
  BY <1>3 DEF Session, SessionType
<1>5. old.game_id = g /\ old.player_id = i - 1
  BY DEF Agree
<1>replaced. t = PutSession(s, id, x)
  BY DEF LeaveGame, Place
<1> HIDE DEF x, t
<1>6. /\ t \in SgsType /\ t.sessions = [s.sessions EXCEPT ![id] = x]
      /\ t.free = s.free /\ t.session_map = s.session_map /\ Open(t) = Open(s)
  BY <1>replaced, <1>2, <1>3, <1>4, PutSessionEffect
<1>7. SoundBut(t, {id})
  <2>1. /\ t.sessions[id] = x /\ x.account_id = s.sessions[id].account_id
        /\ \A p \in Sid \ {id} : t.sessions[p] = s.sessions[p]
    BY <1>2, <1>3, <1>4, <1>6
  <2>2. \A p \in Sid : t.sessions[p].game_id # None => p \in Open(t)
    BY <1>4, <1>6, <2>1 DEF Sound, SoundBut
  <2>3. \A account \in DOMAIN t.session_map :
          /\ t.session_map[account] \in Open(t)
          /\ t.sessions[t.session_map[account]].account_id = account
    BY <1>3, <1>6, <2>1 DEF Sound, SoundBut
  <2>4. \A p \in Open(t) \ {id} : t.sessions[p].socket_fd = None => t.sessions[p].game_id # None
    BY <1>3, <1>6, <2>1 DEF Sound, SoundBut
  <2>5. t \in SgsType /\ IsInjective(t.free)
    BY <1>6 DEF Sound, SoundBut
  <2>6. QED BY <2>2, <2>3, <2>4, <2>5 DEF SoundBut
<1>8. ASSUME old.socket_fd # None PROVE Sound(t)
  <2>1. /\ t.sessions[id] = x /\ x.socket_fd # None
        /\ \A p \in Sid \ {id} : t.sessions[p] = s.sessions[p]
    BY <1>2, <1>3, <1>4, <1>6, <1>8
  <2>2. QED BY <1>2, <1>3, <1>6, <1>7, <2>1 DEF Sound, SoundBut
<1>9. Agree(t, left, live)
  <2>1. /\ DOMAIN left[g] = DOMAIN seats[g] /\ left[g][i] = None
        /\ \A j \in DOMAIN seats[g] \ {i} : left[g][j] = seats[g][j]
        /\ \A h \in Gid \ {g} : left[h] = seats[h]
    BY <1>1
  <2> HIDE DEF left
  <2>2. ASSUME NEW h \in live, NEW j \in DOMAIN left[h], left[h][j] # None
        PROVE  /\ t.sessions[left[h][j]].game_id = h
               /\ t.sessions[left[h][j]].player_id = j - 1
    <3>1. j \in DOMAIN seats[h] /\ left[h][j] = seats[h][j] /\ ~(h = g /\ j = i)
      BY <2>1, <2>2
    <3>2. /\ s.sessions[seats[h][j]].game_id = h
          /\ s.sessions[seats[h][j]].player_id = j - 1
      BY <2>2, <3>1 DEF Agree
    <3>3. j \in Int /\ i \in Int
      BY <1>2, <3>1, SeatTyped
    <3>4. seats[h][j] # id
      BY <1>5, <3>1, <3>2, <3>3
    <3>5. seats[h][j] \in Sid
      BY <2>2, <3>1, SeatTyped
    <3>6. QED BY <1>3, <1>6, <3>1, <3>2, <3>4, <3>5
  <2>3. ASSUME NEW p \in Sid, t.sessions[p].game_id # None
        PROVE  /\ t.sessions[p].game_id \in live
               /\ t.sessions[p].player_id + 1 \in DOMAIN left[t.sessions[p].game_id]
               /\ left[t.sessions[p].game_id][t.sessions[p].player_id + 1] = p
    <3>1. p # id /\ t.sessions[p] = s.sessions[p]
      BY <1>2, <1>3, <1>4, <1>6, <2>3
    <3> DEFINE h == s.sessions[p].game_id
               j == s.sessions[p].player_id + 1
    <3>2. h \in live /\ j \in DOMAIN seats[h] /\ seats[h][j] = p
      BY <2>3, <3>1 DEF Agree
    <3>3. DOMAIN left[h] = DOMAIN seats[h]
      BY <2>1, <3>2
    <3>4. left[h][j] = p
      BY <2>1, <3>1, <3>2
    <3>5. QED BY <3>1, <3>2, <3>3, <3>4
  <2>4. QED BY <2>2, <2>3 DEF Agree
<1>10. QED BY <1>2, <1>7, <1>8, <1>9 DEF t

\* A game whose players have all left is referred to by no session.
LEMMA EmptyAgree ==
  ASSUME NEW s, NEW seats \in [Gid -> PlayersType], NEW live \in SUBSET Gid,
         Agree(s, seats, live), NEW g \in live,
         \A i \in DOMAIN seats[g] : seats[g][i] = None
  PROVE  Agree(s, seats, live \ {g})
<1>1. ASSUME NEW id \in Sid, s.sessions[id].game_id # None
      PROVE  s.sessions[id].game_id # g
  <2>1. id # None
    BY DEF Sid, None
  <2>2. QED BY <1>1, <2>1 DEF Agree
<1>2. QED BY <1>1 DEF Agree

-----------------------------------------------------------------------------
(* The loops.                                                              *)

\* sgs_ping_all_connections.
LEMMA PingedSound ==
  ASSUME NEW s, Sound(s), NEW lost
  PROVE  Sound(PingedAll(s, lost)) /\ Keeps(s, PingedAll(s, lost))
<1> DEFINE n == MaxConnections
           Turn(t, i) == IF t.connections[i - 1].state = "closed" THEN t
                         ELSE SendPing(t, i - 1, lost)
           G == [i \in 0 .. n |-> {t \in SgsType : Sound(t) /\ Keeps(s, t)}]
           step == [i \in 1 .. n |-> [t \in SgsType |-> Turn(t, i)]]
           Course(f) == f = [i \in 0 .. n |-> IF i = 0 THEN s ELSE Turn(f[i - 1], i)]
           run == CHOOSE f : Course(f)
<1>1. n \in Nat
  BY SizesAssumption
<1>2. s \in G[0]
  BY <1>1 DEF Keeps, Sound, SoundBut
<1>3. ASSUME NEW i \in 1 .. n, NEW t \in G[i - 1] PROVE t \in SgsType /\ Turn(t, i) \in G[i]
  <2>1. i - 1 \in Fd /\ i \in 0 .. n /\ i - 1 \in 0 .. n
    BY <1>1 DEF Fd
  <2>2. t \in SgsType /\ Sound(t) /\ Keeps(s, t)
    BY <2>1
  <2>3. Sound(SendPing(t, i - 1, lost)) /\ Keeps(s, SendPing(t, i - 1, lost))
    BY <2>1, <2>2, SendPingSound, KeepsTrans
  <2>4. Sound(Turn(t, i)) /\ Keeps(s, Turn(t, i))
    BY <2>2, <2>3
  <2> HIDE DEF Turn
  <2>5. Turn(t, i) \in SgsType
    BY <2>4 DEF Sound, SoundBut
  <2>6. QED BY <2>1, <2>2, <2>4, <2>5
<1> HIDE DEF n, Turn, G
<1>4. \A i \in 1 .. n : \A t \in G[i - 1] : step[i][t] \in G[i]
  BY <1>3
<1> HIDE DEF step
<1>5. PICK f : IsCourse(f, n, s, step) /\ \A i \in 0 .. n : f[i] \in G[i]
  BY <1>1, <1>2, <1>4, LoopExists
<1>6. Course(f)
  <2> DEFINE g == [i \in 0 .. n |-> IF i = 0 THEN s ELSE Turn(f[i - 1], i)]
  <2>1. ASSUME NEW i \in 1 .. n PROVE f[i] = Turn(f[i - 1], i)
    <3>1. i - 1 \in 0 .. n
      BY <1>1
    <3>2. f[i - 1] \in SgsType
      BY <1>3, <1>5, <3>1
    <3>3. QED BY <1>5, <3>2 DEF IsCourse, step
  <2>2. ASSUME NEW i \in 0 .. n PROVE f[i] = g[i]
    <3>1. CASE i = 0
      BY <1>5, <3>1 DEF IsCourse
    <3>2. CASE i # 0
      <4>1. i \in 1 .. n
        BY <1>1, <3>2
      <4>2. QED BY <2>1, <3>2, <4>1
    <3>3. QED BY <3>1, <3>2
  <2>3. f = g
    BY <1>5, <2>2 DEF IsCourse
  <2>4. QED BY <2>3
<1>7. Course(run)
  <2> HIDE DEF Course
  <2>1. QED BY <1>6
<1>8. run[n] \in G[n]
  <2>1. run = [i \in 0 .. n |-> IF i = 0 THEN s ELSE Turn(run[i - 1], i)]
    BY <1>7
  <2> HIDE DEF run
  <2>2. run[0] = s
    BY <1>1, <2>1
  <2>3. ASSUME NEW i \in 1 .. n, run[i - 1] \in G[i - 1] PROVE run[i] \in G[i]
    <3>1. i \in 0 .. n /\ i # 0
      BY <1>1
    <3>2. run[i] = Turn(run[i - 1], i)
      BY <2>1, <3>1
    <3>3. QED BY <1>3, <2>3, <3>2
  <2>4. \A i \in 0 .. n : run[i] \in G[i]
    BY <1>1, <1>2, <2>2, <2>3, LoopRange
  <2>5. QED BY <1>1, <2>4
<1>9. PingedAll(s, lost) = run[n]
  BY DEF PingedAll, Turn, n
<1>10. QED BY <1>1, <1>8, <1>9 DEF G

\* sgs_create_game: the sessions of ids, all open and in no game, get the
\* places of game g in order.
LEMMA SeatedSound ==
  ASSUME NEW s, Sound(s), NEW g \in Gid, NEW ids \in Parties,
         \A i \in DOMAIN ids : ids[i] \in Open(s) /\ s.sessions[ids[i]].game_id = None
  PROVE  LET t == Seated(s, ids, g) IN
         /\ Sound(t)
         /\ \A i \in DOMAIN ids : /\ t.sessions[ids[i]].game_id = g
                                 /\ t.sessions[ids[i]].player_id = i - 1
         /\ \A id \in Sid : (\A i \in DOMAIN ids : ids[i] # id) =>
                              t.sessions[id] = s.sessions[id]
<1> DEFINE n == Len(ids)
           Turn(t, i) == Place(t, ids[i], i - 1, g)
           Done(t, i) ==
             /\ Sound(t) /\ Open(t) = Open(s)
             /\ \A j \in 1 .. i : /\ t.sessions[ids[j]].game_id = g
                                 /\ t.sessions[ids[j]].player_id = j - 1
             /\ \A id \in Sid : (\A j \in 1 .. i : ids[j] # id) =>
                                  t.sessions[id] = s.sessions[id]
           G == [i \in 0 .. n |-> {t \in SgsType : Done(t, i)}]
           step == [i \in 1 .. n |-> [t \in SgsType |-> Turn(t, i)]]
           Course(f) == f = [i \in 0 .. n |-> IF i = 0 THEN s ELSE Turn(f[i - 1], i)]
           run == CHOOSE f : Course(f)
<1>0. /\ DOMAIN ids = 1 .. n /\ n \in 0 .. MaxPlayers
      /\ ids \in [1 .. n -> Sid] /\ IsInjective(ids)
  <2>1. PICK m \in 0 .. MaxPlayers : ids \in [1 .. m -> Sid]
    BY DEF Parties, SeqOf
  <2>2. Len(ids) = m
    BY <2>1, SizesAssumption
  <2>3. QED BY <2>1, <2>2 DEF Parties
<1>1. n \in Nat
  BY <1>0, SizesAssumption
<1> HIDE DEF n
<1>2. s \in G[0]
  BY <1>1 DEF Sound, SoundBut
<1>3. ASSUME NEW i \in 1 .. n, NEW t \in G[i - 1] PROVE t \in SgsType /\ Turn(t, i) \in G[i]
  <2> DEFINE old == t.sessions[ids[i]]
             x == Session(old.socket_fd, old.account_id, i - 1, g)
             r == PutSession(t, ids[i], x)
  <2>1. i \in 0 .. n /\ i - 1 \in 0 .. n /\ ids[i] \in Sid /\ i \in DOMAIN ids
    BY <1>0, <1>1
  <2>2. t \in SgsType /\ Done(t, i - 1)
    BY <2>1
  <2>3. /\ t.sessions \in [Sid -> SessionType] /\ Open(t) \subseteq Sid
        /\ old \in SessionType /\ old.game_id = None /\ ids[i] \in Open(t)
    <3>1. \A j \in 1 .. i - 1 : ids[j] # ids[i]
      BY <1>0, <1>1, <2>1 DEF IsInjective
    <3>2. old = s.sessions[ids[i]]
      BY <2>1, <2>2, <3>1
    <3>3. t.sessions \in [Sid -> SessionType] /\ Open(t) \subseteq Sid
      BY <2>2, SoundFields DEF Sound
    <3>4. QED BY <2>1, <2>2, <3>2, <3>3
  <2>4. /\ x \in SessionType /\ x.socket_fd = old.socket_fd
        /\ x.account_id = old.account_id /\ x.game_id = g /\ x.player_id = i - 1
    <3>1. i - 1 \in 0 .. MaxPlayers - 1
      BY <1>0, SizesAssumption
    <3>2. QED BY <2>3, <3>1 DEF Session, SessionType
  <2>5. Turn(t, i) = r
    BY DEF Place
  <2> HIDE DEF x
  <2>6. /\ r \in SgsType /\ r.sessions = [t.sessions EXCEPT ![ids[i]] = x]
        /\ r.free = t.free /\ r.session_map = t.session_map /\ Open(r) = Open(t)
    BY <2>1, <2>2, <2>4, PutSessionEffect
  <2> HIDE DEF r
  <2>7. g # None
    BY DEF Gid, None
  <2>8. Sound(r)
    <3>1. /\ r.sessions[ids[i]] = x /\ x.game_id # None
          /\ \A p \in Sid \ {ids[i]} : r.sessions[p] = t.sessions[p]
          /\ r.sessions[ids[i]].account_id = t.sessions[ids[i]].account_id
      BY <2>1, <2>3, <2>4, <2>6, <2>7
    <3>2. Sound(t) /\ Open(t) \subseteq Sid
      BY <2>2, <2>3
    <3>3. r \in SgsType /\ IsInjective(r.free)
      BY <2>6, <3>2 DEF Sound, SoundBut
    <3>4. \A p \in Sid : r.sessions[p].game_id # None => p \in Open(r)
      BY <2>3, <2>6, <3>1, <3>2 DEF Sound, SoundBut
    <3>5. \A p \in Open(r) : r.sessions[p].socket_fd = None => r.sessions[p].game_id # None
      BY <2>6, <3>1, <3>2 DEF Sound, SoundBut
    <3>6. \A account \in DOMAIN r.session_map :
            /\ r.session_map[account] \in Open(r)
            /\ r.sessions[r.session_map[account]].account_id = account
      <4>1. SUFFICES ASSUME NEW account \in DOMAIN t.session_map,
                            NEW p, p = t.session_map[account]
                     PROVE  p \in Open(r) /\ r.sessions[p].account_id = account
        BY <2>6
      <4>2. p \in Open(t) /\ t.sessions[p].account_id = account
        BY <3>2, <4>1 DEF Sound, SoundBut
      <4>3. QED BY <2>6, <3>1, <3>2, <4>2
    <3>7. QED BY <3>3, <3>4, <3>5, <3>6 DEF Sound, SoundBut
  <2>9. ASSUME NEW j \in 1 .. i
        PROVE  r.sessions[ids[j]].game_id = g /\ r.sessions[ids[j]].player_id = j - 1
    <3>1. CASE j = i
      BY <2>1, <2>3, <2>4, <2>6, <3>1
    <3>2. CASE j # i
      <4>1. j \in 1 .. i - 1 /\ j \in DOMAIN ids /\ ids[j] \in Sid
        BY <1>0, <1>1, <3>2
      <4>2. ids[j] # ids[i]
        BY <2>1, <3>2, <4>1, <1>0 DEF IsInjective
      <4>3. QED BY <2>1, <2>2, <2>3, <2>6, <4>1, <4>2
    <3>3. QED BY <3>1, <3>2
  <2>10. ASSUME NEW id \in Sid, \A j \in 1 .. i : ids[j] # id
         PROVE  r.sessions[id] = s.sessions[id]
    <3>1. ids[i] # id /\ \A j \in 1 .. i - 1 : ids[j] # id
      BY <1>1, <2>10
    <3>2. QED BY <2>1, <2>2, <2>3, <2>6, <3>1
  <2>11. Done(r, i)
    BY <2>2, <2>6, <2>8, <2>9, <2>10
  <2> HIDE DEF Done
  <2>12. QED BY <2>1, <2>2, <2>5, <2>6, <2>11
<1> HIDE DEF Turn, G
<1>4. \A i \in 1 .. n : \A t \in G[i - 1] : step[i][t] \in G[i]
  BY <1>3
<1> HIDE DEF step
<1>5. PICK f : IsCourse(f, n, s, step) /\ \A i \in 0 .. n : f[i] \in G[i]
  BY <1>1, <1>2, <1>4, LoopExists
<1>6. Course(f)
  <2> DEFINE h == [i \in 0 .. n |-> IF i = 0 THEN s ELSE Turn(f[i - 1], i)]
  <2>1. ASSUME NEW i \in 1 .. n PROVE f[i] = Turn(f[i - 1], i)
    <3>1. i - 1 \in 0 .. n
      BY <1>1
    <3>2. f[i - 1] \in SgsType
      BY <1>3, <1>5, <3>1
    <3>3. QED BY <1>5, <3>2 DEF IsCourse, step
  <2>2. ASSUME NEW i \in 0 .. n PROVE f[i] = h[i]
    <3>1. CASE i = 0
      BY <1>5, <3>1 DEF IsCourse
    <3>2. CASE i # 0
      <4>1. i \in 1 .. n
        BY <1>1, <3>2
      <4>2. QED BY <2>1, <3>2, <4>1
    <3>3. QED BY <3>1, <3>2
  <2>3. f = h
    BY <1>5, <2>2 DEF IsCourse
  <2>4. QED BY <2>3
<1>7. Course(run)
  <2> HIDE DEF Course
  <2>1. QED BY <1>6
<1>8. run[n] \in G[n]
  <2>1. run = [i \in 0 .. n |-> IF i = 0 THEN s ELSE Turn(run[i - 1], i)]
    BY <1>7
  <2> HIDE DEF run
  <2>2. run[0] = s
    BY <1>1, <2>1
  <2>3. ASSUME NEW i \in 1 .. n, run[i - 1] \in G[i - 1] PROVE run[i] \in G[i]
    <3>1. i \in 0 .. n /\ i # 0
      BY <1>1
    <3>2. run[i] = Turn(run[i - 1], i)
      BY <2>1, <3>1
    <3>3. QED BY <1>3, <2>3, <3>2
  <2>4. \A i \in 0 .. n : run[i] \in G[i]
    BY <1>1, <1>2, <2>2, <2>3, LoopRange
  <2>5. QED BY <1>1, <2>4
<1>9. Seated(s, ids, g) = run[n]
  BY DEF Seated, Turn, n
<1>10. QED
  <2> HIDE DEF run
  <2>1. Done(run[n], n)
    BY <1>1, <1>8 DEF G
  <2>2. QED BY <1>0, <1>9, <2>1

\* sgs_close_game: a player that was sent the final message has left, and the
\* game is done only if all have.
LEMMA ClosedSound ==
  ASSUME NEW s, Sound(s), NEW seats \in [Gid -> PlayersType],
         NEW live \in SUBSET Gid, Agree(s, seats, live), NEW g \in live, NEW lost
  PROVE  LET c == ClosedPlayers(s, seats[g], lost) IN
         /\ Sound(c.sgs) /\ c.players \in PlayersType /\ c.done \in BOOLEAN
         /\ Agree(c.sgs, [seats EXCEPT ![g] = c.players],
                  IF c.done THEN live \ {g} ELSE live)
<1> DEFINE players == seats[g]
           n == Len(players)
           start == Closing(s, players, TRUE)
           T == [sgs : SgsType, players : [1 .. n -> Sid \cup {None}], done : BOOLEAN]
           Turn(c, i) == ClosePlayer(c, i, lost)
           Done(c, i) ==
             /\ Sound(c.sgs)
             /\ Agree(c.sgs, [seats EXCEPT ![g] = c.players], live)
             /\ c.done => \A j \in 1 .. i : c.players[j] = None
           G == [i \in 0 .. n |-> {c \in T : Done(c, i)}]
           step == [i \in 1 .. n |-> [c \in T |-> Turn(c, i)]]
           Course(f) == f = [i \in 0 .. n |-> IF i = 0 THEN start ELSE Turn(f[i - 1], i)]
           run == CHOOSE f : Course(f)
<1>0. g \in Gid /\ players \in [1 .. n -> Sid \cup {None}] /\ n \in 0 .. MaxPlayers
  <2>1. players \in PlayersType
    OBVIOUS
  <2>2. PICK m \in 0 .. MaxPlayers : players \in [1 .. m -> Sid \cup {None}]
    BY <2>1 DEF PlayersType, SeqOf
  <2>3. Len(players) = m
    BY <2>2, SizesAssumption
  <2>4. QED BY <2>2, <2>3
<1>1. n \in Nat
  BY <1>0, SizesAssumption
<1> HIDE DEF n, players
<1>2. start \in G[0]
  <2>1. start.sgs = s /\ start.players = players /\ start.done = TRUE /\ start \in T
    BY <1>0 DEF Closing, Sound, SoundBut
  <2>2. [seats EXCEPT ![g] = players] = seats
    BY DEF players
  <2> HIDE DEF start
  <2>3. Agree(start.sgs, [seats EXCEPT ![g] = start.players], live)
    <3>1. [seats EXCEPT ![g] = start.players] = seats
      BY <2>1, <2>2
    <3>2. QED BY <2>1, <3>1
  <2>ready. Done(start, 0)
    BY <2>1, <2>3
  <2> HIDE DEF Done, T
  <2>4. QED BY <1>1, <2>1, <2>ready
<1>3. ASSUME NEW i \in 1 .. n, NEW c \in G[i - 1] PROVE c \in T /\ Turn(c, i) \in G[i]
  <2> DEFINE now == [seats EXCEPT ![g] = c.players]
             id == c.players[i]
             fd == c.sgs.sessions[id].socket_fd
             left == [c.players EXCEPT ![i] = None]
             r == LeaveGame(c.sgs, id)
             p == Closing(CloseConnection(c.sgs, fd), c.players, FALSE)
             q == Closing(CloseConnection(r, fd), left, c.done)
             w == Closing(c.sgs, c.players, FALSE)
  <2>1. i \in 0 .. n /\ i - 1 \in 0 .. n
    BY <1>1
  <2>2. c \in T /\ Done(c, i - 1)
    BY <2>1
  <2>3. /\ c.sgs \in SgsType /\ c.players \in [1 .. n -> Sid \cup {None}]
        /\ c.done \in BOOLEAN /\ Sound(c.sgs) /\ Agree(c.sgs, now, live)
        /\ c.done => \A j \in 1 .. i - 1 : c.players[j] = None
    BY <2>2
  <2>4. /\ now \in [Gid -> PlayersType] /\ now[g] = c.players
    <3>1. c.players \in PlayersType
      BY <1>0, <2>3 DEF PlayersType, SeqOf
    <3>2. QED BY <1>0, <3>1
  <2>5. ASSUME NEW t, Sound(t), NEW players2 \in [1 .. n -> Sid \cup {None}], NEW done \in BOOLEAN,
               Agree(t, [seats EXCEPT ![g] = players2], live),
               done => \A j \in 1 .. i : players2[j] = None
        PROVE  Closing(t, players2, done) \in G[i]
    <3> DEFINE z == Closing(t, players2, done)
    <3>1. /\ z.sgs = t /\ z.players = players2 /\ z.done = done
          /\ z \in T
      BY <2>5 DEF Closing, Sound, SoundBut
    <3> HIDE DEF z
    <3>2. Done(z, i)
      BY <2>5, <3>1
    <3> HIDE DEF Done, T
    <3>3. QED BY <2>1, <3>1, <3>2 DEF z
  <2>6. CASE id = None
    <3>1. Turn(c, i) = c
      BY <2>6 DEF ClosePlayer
    <3>2. Done(c, i)
      BY <1>1, <2>3, <2>6
    <3> HIDE DEF Done, T, Turn
    <3>3. QED BY <2>1, <2>2, <3>1, <3>2
  <2>7. CASE id # None /\ fd = None
    <3>1. Turn(c, i) = w
      BY <2>7 DEF ClosePlayer
    <3>2. Sound(c.sgs) /\ Agree(c.sgs, now, live) /\ c \in T
      BY <2>2, <2>3
    <3> HIDE DEF T, Done, Turn, G
    <3>3. w \in G[i]
      BY <2>3, <2>5, <3>2
    <3>4. QED BY <3>1, <3>2, <3>3
  <2>8. CASE id # None /\ fd # None
    <3>1. id \in Sid /\ fd \in Fd
      <4>1. id \in Sid
        BY <2>3, <2>8
      <4>2. c.sgs.sessions[id] \in SessionType
        BY <2>3, <4>1, SoundFields DEF Sound
      <4>3. QED BY <2>8, <4>1, <4>2 DEF SessionType
    <3>2. CASE ~CanSend(c.sgs, fd, lost)
      <4>1. Turn(c, i) = p
        BY <2>8, <3>2 DEF ClosePlayer
      <4>2. Sound(CloseConnection(c.sgs, fd)) /\ Keeps(c.sgs, CloseConnection(c.sgs, fd))
        BY <2>3, <3>1, CloseSound
      <4>3. Agree(CloseConnection(c.sgs, fd), now, live)
        <5> HIDE DEF now
        <5>1. QED BY <2>3, <2>4, <4>2, AgreeKeeps
      <4>4. QED BY <2>2, <2>3, <2>5, <4>1, <4>2, <4>3
    <3>3. CASE CanSend(c.sgs, fd, lost)
      <4>1. Turn(c, i) = q
        BY <2>8, <3>3 DEF ClosePlayer
      <4> DEFINE after == [seats EXCEPT ![g] = left]
      <4>2. i \in DOMAIN now[g] /\ now[g][i] = id
        BY <2>3, <2>4
      <4>3. after = [now EXCEPT ![g] = [now[g] EXCEPT ![i] = None]]
        BY <1>0, <2>3, <2>4
      <4>4. left \in [1 .. n -> Sid \cup {None}]
        BY <2>3
      <4>5. after \in [Gid -> PlayersType]
        <5>1. left \in PlayersType
          BY <1>0, <4>4 DEF PlayersType, SeqOf
        <5>2. QED BY <1>0, <5>1
      <4> HIDE DEF now, after
      <4>6. Sound(r) /\ Agree(r, after, live)
        <5>1. /\ Sound(c.sgs) /\ Agree(c.sgs, now, live)
              /\ now \in [Gid -> PlayersType]
          BY <2>3, <2>4
        <5>2. /\ i \in DOMAIN now[g] /\ now[g][i] # None
              /\ c.sgs.sessions[now[g][i]].socket_fd # None
          BY <2>8, <4>2
        <5>3. LET left2 == LeaveGame(c.sgs, now[g][i]) IN
              /\ Sound(left2)
              /\ Agree(left2, [now EXCEPT ![g] = [now[g] EXCEPT ![i] = None]], live)
          BY <5>1, <5>2, LeaveSound
        <5>4. QED BY <4>2, <4>3, <5>3
      <4> HIDE DEF r
      <4>7. Sound(CloseConnection(r, fd)) /\ Keeps(r, CloseConnection(r, fd))
        BY <3>1, <4>6, CloseSound
      <4>8. Agree(CloseConnection(r, fd), after, live)
        BY <4>5, <4>6, <4>7, AgreeKeeps
      <4>9. c.done => \A j \in 1 .. i : left[j] = None
        BY <1>1, <2>3
      <4> HIDE DEF left
      <4>10. q \in G[i]
        BY <2>3, <2>5, <4>4, <4>7, <4>8, <4>9 DEF after
      <4>11. QED BY <2>2, <4>1, <4>10
    <3>4. QED BY <3>2, <3>3
  <2>9. QED BY <2>6, <2>7, <2>8
<1> HIDE DEF Turn, G, start, Done, T
<1>4. \A i \in 1 .. n : \A t \in G[i - 1] : step[i][t] \in G[i]
  BY <1>3
<1> HIDE DEF step
<1>5. PICK f : IsCourse(f, n, start, step) /\ \A i \in 0 .. n : f[i] \in G[i]
  BY <1>1, <1>2, <1>4, LoopExists
<1>6. Course(f)
  <2> DEFINE h == [i \in 0 .. n |-> IF i = 0 THEN start ELSE Turn(f[i - 1], i)]
  <2>1. ASSUME NEW i \in 1 .. n PROVE f[i] = Turn(f[i - 1], i)
    <3>1. i - 1 \in 0 .. n
      BY <1>1
    <3>2. f[i - 1] \in T
      BY <1>3, <1>5, <3>1
    <3>3. QED BY <1>5, <3>2 DEF IsCourse, step
  <2>2. ASSUME NEW i \in 0 .. n PROVE f[i] = h[i]
    <3>1. CASE i = 0
      BY <1>5, <3>1 DEF IsCourse
    <3>2. CASE i # 0
      <4>1. i \in 1 .. n
        BY <1>1, <3>2
      <4>2. QED BY <2>1, <3>2, <4>1
    <3>3. QED BY <3>1, <3>2
  <2>3. f = h
    BY <1>5, <2>2 DEF IsCourse
  <2>4. QED BY <2>3
<1>7. Course(run)
  <2> HIDE DEF Course
  <2>1. QED BY <1>6
<1>8. run[n] \in G[n]
  <2>1. run = [i \in 0 .. n |-> IF i = 0 THEN start ELSE Turn(run[i - 1], i)]
    BY <1>7
  <2> HIDE DEF run
  <2>2. run[0] = start
    BY <1>1, <2>1
  <2>3. ASSUME NEW i \in 1 .. n, run[i - 1] \in G[i - 1] PROVE run[i] \in G[i]
    <3>1. i \in 0 .. n /\ i # 0
      BY <1>1
    <3>2. run[i] = Turn(run[i - 1], i)
      BY <2>1, <3>1
    <3>3. QED BY <1>3, <2>3, <3>2
  <2>4. \A i \in 0 .. n : run[i] \in G[i]
    BY <1>1, <1>2, <2>2, <2>3, LoopRange
  <2>5. QED BY <1>1, <2>4
<1>9. ClosedPlayers(s, players, lost) = run[n]
  BY DEF ClosedPlayers, Turn, n, start
<1>10. QED
  <2> DEFINE c == run[n]
             now == [seats EXCEPT ![g] = c.players]
  <2> HIDE DEF run
  <2>1. c \in T /\ Done(c, n)
    BY <1>1, <1>8 DEF G
  <2>2. c.players \in [1 .. n -> Sid \cup {None}] /\ c.done \in BOOLEAN
    BY <2>1 DEF T
  <2>3. /\ Sound(c.sgs) /\ Agree(c.sgs, now, live)
        /\ c.done => \A j \in 1 .. n : c.players[j] = None
    BY <2>1 DEF Done
  <2>4. c.players \in PlayersType
    BY <1>0, <2>2 DEF PlayersType, SeqOf
  <2>5. now \in [Gid -> PlayersType] /\ now[g] = c.players
    BY <1>0, <2>4
  <2>6. ClosedPlayers(s, seats[g], lost) = c
    BY <1>9 DEF players
  <2>7. c.done => Agree(c.sgs, now, live \ {g})
    <3> HIDE DEF c, now
    <3>1. QED BY <2>2, <2>3, <2>5, EmptyAgree
  <2> HIDE DEF c
  <2>8. QED BY <2>2, <2>3, <2>4, <2>6, <2>7

\* sgs_force_close_game: every player leaves, the ones without a socket too.
LEMMA DroppedSound ==
  ASSUME NEW s, Sound(s), NEW seats \in [Gid -> PlayersType],
         NEW live \in SUBSET Gid, Agree(s, seats, live), NEW g \in live
  PROVE  LET t == DroppedPlayers(s, seats[g]) IN
         /\ Sound(t)
         /\ Agree(t, [seats EXCEPT ![g] = [i \in DOMAIN seats[g] |-> None]], live \ {g})
<1> DEFINE players == seats[g]
           n == Len(players)
           Turn(t, i) == DropPlayer(t, players[i])
           Rest(i) == [seats EXCEPT ![g] = [j \in 1 .. n |-> IF j <= i THEN None ELSE players[j]]]
           Done(t, i) == Sound(t) /\ Agree(t, Rest(i), live)
           G == [i \in 0 .. n |-> {t \in SgsType : Done(t, i)}]
           step == [i \in 1 .. n |-> [t \in SgsType |-> Turn(t, i)]]
           Course(f) == f = [i \in 0 .. n |-> IF i = 0 THEN s ELSE Turn(f[i - 1], i)]
           run == CHOOSE f : Course(f)
<1>0. g \in Gid /\ players \in [1 .. n -> Sid \cup {None}] /\ n \in 0 .. MaxPlayers
  <2>1. players \in PlayersType
    OBVIOUS
  <2>2. PICK m \in 0 .. MaxPlayers : players \in [1 .. m -> Sid \cup {None}]
    BY <2>1 DEF PlayersType, SeqOf
  <2>3. Len(players) = m
    BY <2>2, SizesAssumption
  <2>4. QED BY <2>2, <2>3
<1>1. n \in Nat
  BY <1>0, SizesAssumption
<1>rest. ASSUME NEW i \in 0 .. n
      PROVE  /\ Rest(i) \in [Gid -> PlayersType]
             /\ Rest(i)[g] = [j \in 1 .. n |-> IF j <= i THEN None ELSE players[j]]
             /\ \A h \in Gid \ {g} : Rest(i)[h] = seats[h]
  <2> HIDE DEF n, players
  <2> DEFINE rest == [j \in 1 .. n |-> IF j <= i THEN None ELSE players[j]]
  <2>1. rest \in [1 .. n -> Sid \cup {None}]
    BY <1>0
  <2>2. rest \in PlayersType
    BY <1>0, <2>1 DEF PlayersType, SeqOf
  <2> HIDE DEF rest
  <2>3. QED BY <1>0, <2>2 DEF rest
<1> HIDE DEF n, players
<1>2. s \in G[0]
  <2> DEFINE rest == [j \in 1 .. n |-> IF j <= 0 THEN None ELSE players[j]]
  <2>1. rest = players
    BY <1>0
  <2>2. Rest(0) = seats
    BY <1>0, <2>1 DEF players
  <2> HIDE DEF Rest
  <2>3. QED BY <1>1, <2>2 DEF Sound, SoundBut
<1>3. ASSUME NEW i \in 1 .. n, NEW t \in G[i - 1] PROVE t \in SgsType /\ Turn(t, i) \in G[i]
  <2> DEFINE id == players[i]
             fd == t.sessions[id].socket_fd
             r == LeaveGame(t, id)
  <2>1. i \in 0 .. n /\ i - 1 \in 0 .. n
    BY <1>1
  <2>2. t \in SgsType /\ Sound(t) /\ Agree(t, Rest(i - 1), live)
    BY <2>1
  <2>3. i \in DOMAIN Rest(i - 1)[g] /\ Rest(i - 1)[g][i] = id
    <3>1. Rest(i - 1)[g] = [j \in 1 .. n |-> IF j <= i - 1 THEN None ELSE players[j]]
      BY <1>rest, <2>1
    <3> HIDE DEF Rest
    <3>2. QED BY <1>1, <3>1
  <2>4. Rest(i) = [Rest(i - 1) EXCEPT ![g] = [Rest(i - 1)[g] EXCEPT ![i] = None]]
    <3> DEFINE one == [j \in 1 .. n |-> IF j <= i - 1 THEN None ELSE players[j]]
               two == [j \in 1 .. n |-> IF j <= i THEN None ELSE players[j]]
    <3>1. two = [one EXCEPT ![i] = None]
      <4> DEFINE except == [one EXCEPT ![i] = None]
      <4>1. ASSUME NEW j \in 1 .. n PROVE two[j] = except[j]
        BY <1>1
      <4>2. two = except
        BY <4>1
      <4>3. QED BY <4>2
    <3>2. Rest(i - 1)[g] = one
      BY <1>rest, <2>1
    <3>3. Rest(i) = [seats EXCEPT ![g] = two] /\ Rest(i - 1) = [seats EXCEPT ![g] = one]
      OBVIOUS
    <3> HIDE DEF one, two, Rest
    <3>4. QED BY <1>0, <3>1, <3>2, <3>3
  <2>5. /\ Rest(i) \in [Gid -> PlayersType] /\ Rest(i - 1) \in [Gid -> PlayersType]
    BY <1>rest, <2>1
  <2> HIDE DEF Rest
  <2>6. ASSUME NEW u, Sound(u), Agree(u, Rest(i), live) PROVE u \in G[i]
    BY <2>1, <2>6 DEF Sound, SoundBut
  <2>7. CASE id = None
    <3>1. Turn(t, i) = t
      BY <2>7 DEF DropPlayer
    <3>2. Rest(i) = Rest(i - 1)
      <4>1. [Rest(i - 1)[g] EXCEPT ![i] = None] = Rest(i - 1)[g]
        BY <1>rest, <2>1, <2>3, <2>7
      <4>2. QED BY <2>4, <2>5, <4>1
    <3>3. QED BY <2>2, <2>6, <3>1, <3>2
  <2>8. CASE id # None
    <3>1. /\ id \in Sid
          /\ SoundBut(r, {id})
          /\ fd # None => Sound(r)
          /\ Agree(r, Rest(i), live)
      <4> DEFINE seat == Rest(i - 1)[g][i]
      <4>1. LET u == LeaveGame(t, seat) IN
            /\ seat \in Sid
            /\ SoundBut(u, {seat})
            /\ t.sessions[seat].socket_fd # None => Sound(u)
            /\ Agree(u, [Rest(i - 1) EXCEPT ![g] = [Rest(i - 1)[g] EXCEPT ![i] = None]], live)
        <5>1. seat # None
          BY <2>3, <2>8
        <5>2. QED BY <2>2, <2>3, <2>5, <5>1, LeaveSound
      <4>2. seat = id
        BY <2>3
      <4> HIDE DEF seat
      <4>3. QED BY <2>4, <4>1, <4>2
    <3>2. fd \in Fd \cup {None}
      BY <2>2, <3>1, SoundFields DEF Sound, SessionType
    <3>3. Turn(t, i) = IF fd = None THEN DisconnectSession(r, id) ELSE CloseConnection(r, fd)
      BY <2>8 DEF DropPlayer
    <3> HIDE DEF r, fd
    <3>4. CASE fd = None
      <4>1. Sound(DisconnectSession(r, id)) /\ Keeps(r, DisconnectSession(r, id))
        BY <3>1, DisconnectSound
      <4>2. Agree(DisconnectSession(r, id), Rest(i), live)
        BY <2>5, <3>1, <4>1, AgreeKeeps
      <4>3. QED BY <2>2, <2>6, <3>3, <3>4, <4>1, <4>2
    <3>5. CASE fd # None
      <4>1. Sound(CloseConnection(r, fd)) /\ Keeps(r, CloseConnection(r, fd))
        BY <3>1, <3>2, <3>5, CloseSound
      <4>2. Agree(CloseConnection(r, fd), Rest(i), live)
        BY <2>5, <3>1, <4>1, AgreeKeeps
      <4>3. QED BY <2>2, <2>6, <3>3, <3>5, <4>1, <4>2
    <3>6. QED BY <3>4, <3>5
  <2>9. QED BY <2>7, <2>8
<1> HIDE DEF Turn, G, Done
<1>4. \A i \in 1 .. n : \A t \in G[i - 1] : step[i][t] \in G[i]
  BY <1>3
<1> HIDE DEF step
<1>5. PICK f : IsCourse(f, n, s, step) /\ \A i \in 0 .. n : f[i] \in G[i]
  BY <1>1, <1>2, <1>4, LoopExists
<1>6. Course(f)
  <2> DEFINE h == [i \in 0 .. n |-> IF i = 0 THEN s ELSE Turn(f[i - 1], i)]
  <2>1. ASSUME NEW i \in 1 .. n PROVE f[i] = Turn(f[i - 1], i)
    <3>1. i - 1 \in 0 .. n
      BY <1>1
    <3>2. f[i - 1] \in SgsType
      BY <1>3, <1>5, <3>1
    <3>3. QED BY <1>5, <3>2 DEF IsCourse, step
  <2>2. ASSUME NEW i \in 0 .. n PROVE f[i] = h[i]
    <3>1. CASE i = 0
      BY <1>5, <3>1 DEF IsCourse
    <3>2. CASE i # 0
      <4>1. i \in 1 .. n
        BY <1>1, <3>2
      <4>2. QED BY <2>1, <3>2, <4>1
    <3>3. QED BY <3>1, <3>2
  <2>3. f = h
    BY <1>5, <2>2 DEF IsCourse
  <2>4. QED BY <2>3
<1>7. Course(run)
  <2> HIDE DEF Course
  <2>1. QED BY <1>6
<1>8. run[n] \in G[n]
  <2>1. run = [i \in 0 .. n |-> IF i = 0 THEN s ELSE Turn(run[i - 1], i)]
    BY <1>7
  <2> HIDE DEF run
  <2>2. run[0] = s
    BY <1>1, <2>1
  <2>3. ASSUME NEW i \in 1 .. n, run[i - 1] \in G[i - 1] PROVE run[i] \in G[i]
    <3>1. i \in 0 .. n /\ i # 0
      BY <1>1
    <3>2. run[i] = Turn(run[i - 1], i)
      BY <2>1, <3>1
    <3>3. QED BY <1>3, <2>3, <3>2
  <2>4. \A i \in 0 .. n : run[i] \in G[i]
    BY <1>1, <1>2, <2>2, <2>3, LoopRange
  <2>5. QED BY <1>1, <2>4
<1>9. DroppedPlayers(s, players) = run[n]
  BY DEF DroppedPlayers, Turn, n
<1>10. QED
  <2> DEFINE t == run[n]
             none == [j \in DOMAIN seats[g] |-> None]
             rest == [j \in 1 .. n |-> IF j <= n THEN None ELSE players[j]]
  <2> HIDE DEF run
  <2>1. Sound(t) /\ Agree(t, Rest(n), live)
    BY <1>1, <1>8 DEF G, Done
  <2>2. /\ Rest(n) \in [Gid -> PlayersType] /\ Rest(n)[g] = rest
    BY <1>1, <1>rest
  <2>3. rest = none
    BY <1>0, <1>1 DEF players
  <2>4. Rest(n) = [seats EXCEPT ![g] = none]
    BY <2>3
  <2>5. DroppedPlayers(s, seats[g]) = t
    BY <1>9 DEF players
  <2> HIDE DEF t, Rest
  <2>6. Agree(t, Rest(n), live \ {g})
    <3>1. \A j \in DOMAIN Rest(n)[g] : Rest(n)[g][j] = None
      BY <2>2, <2>3
    <3>2. QED BY <2>1, <2>2, <3>1, EmptyAgree
  <2>7. QED BY <2>1, <2>4, <2>5, <2>6

-----------------------------------------------------------------------------
(* The invariant.                                                          *)

\* The seats are typed as the games are.
LEMMA SeatsTyped ==
  ASSUME games \in GamesType
  PROVE  Seats \in [Gid -> PlayersType] /\ \A g \in Gid : games[g].state \in {"playing", "done"}
BY DEF Seats, GamesType, PlayersType

\* The live games are the ones the pool does not have.
LEMMA LiveIsRest == Live = Gid \ Range(free_games)
BY DEF Live, ToSet, Range

\* sgs_new: every session and every game is free, each listed once.
LEMMA InvInit == Init => IInv
<1> SUFFICES ASSUME Init PROVE IInv
  OBVIOUS
<1> DEFINE none == Session(None, None, None, None)
           closed == Connection(None, "closed", 0)
           ids == [i \in 1 .. Sessions |-> i - 1]
<1>1. {Sessions, Games, MaxPlayers} \subseteq Nat \ {0}
  BY SizesAssumption
<1>2. none \in SessionType /\ none.game_id = None
  BY DEF Session, SessionType
<1>3. closed \in ConnectionType
  BY MaxEmptyPingsAssumption DEF Connection, ConnectionType
<1>4. /\ sgs.sessions = [id \in Sid |-> none] /\ sgs.free = ids
      /\ sgs.session_map = <<>> /\ sgs.connections = [fd \in Fd |-> closed]
      /\ sgs.fault = FALSE
      /\ sgs = Sgs([id \in Sid |-> none], ids, <<>>, [fd \in Fd |-> closed], FALSE)
  BY DEF Init, NewServer, Sgs, Sid
<1>5. ids \in Seq(Sid) /\ IsInjective(ids) /\ Range(ids) = Sid
  <2>1. ids \in [1 .. Sessions -> Sid]
    BY <1>1 DEF Sid
  <2>2. ids \in Seq(Sid)
    BY <1>1, <2>1
  <2>3. IsInjective(ids)
    BY <1>1 DEF IsInjective
  <2>4. ASSUME NEW id \in Sid PROVE id \in Range(ids)
    <3>1. id + 1 \in 1 .. Sessions /\ ids[id + 1] = id
      BY <1>1 DEF Sid
    <3>2. QED BY <3>1 DEF Range
  <2>5. QED BY <2>1, <2>2, <2>3, <2>4 DEF Range
<1> HIDE DEF none, closed, ids
<1>6. sgs \in SgsType
  <2>1. <<>> \in UNION {[accounts -> Sid] : accounts \in SUBSET Account}
    <3>1. <<>> \in [{} -> Sid]
      OBVIOUS
    <3>2. QED BY <3>1
  <2>2. QED BY <1>2, <1>3, <1>4, <1>5, <2>1 DEF SgsType, Sgs
<1>7. Open(sgs) = {}
  BY <1>4, <1>5 DEF Open
<1>8. Sound(sgs)
  <2>1. DOMAIN sgs.session_map = {}
    <3>1. DOMAIN <<>> = {}
      OBVIOUS
    <3>2. QED BY <1>4, <3>1
  <2>2. \A id \in Sid : sgs.sessions[id].game_id = None
    BY <1>2, <1>4
  <2>3. IsInjective(sgs.free)
    BY <1>4, <1>5
  <2>4. QED BY <1>6, <1>7, <2>1, <2>2, <2>3 DEF Sound, SoundBut
<1>9. games \in GamesType
  <2>1. <<>> \in SeqOf(Sid \cup {None}, MaxPlayers)
    <3>1. <<>> \in [1 .. 0 -> Sid \cup {None}] /\ 0 \in 0 .. MaxPlayers
      BY <1>1
    <3>2. QED BY <3>1 DEF SeqOf
  <2>2. QED BY <2>1 DEF Init, Game, GamesType
<1>10. free_games \in Seq(Gid) /\ IsInjective(free_games)
  <2>1. free_games \in [1 .. Games -> Gid]
    BY <1>1 DEF Init, Gid
  <2>2. free_games \in Seq(Gid)
    BY <1>1, <2>1
  <2>3. IsInjective(free_games)
    BY <1>1 DEF Init, IsInjective
  <2>4. QED BY <2>2, <2>3
<1>11. Live = {}
  <2>1. ASSUME NEW g \in Gid PROVE g \in Range(free_games)
    <3>1. g + 1 \in 1 .. Games /\ free_games[g + 1] = g
      BY <1>1 DEF Init, Gid
    <3>2. free_games = [i \in 1 .. Games |-> i - 1]
      BY DEF Init
    <3>3. QED BY <3>1, <3>2 DEF Range
  <2>2. QED BY <2>1, LiveIsRest
<1>12. Agree(sgs, Seats, Live)
  BY <1>2, <1>4, <1>11 DEF Agree
<1>13. QED BY <1>8, <1>9, <1>10, <1>12 DEF IInv

\* A step of connections and sessions that keeps every place in a game.
LEMMA KeepsStep ==
  ASSUME IInv, Sound(sgs'), Keeps(sgs, sgs'), UNCHANGED <<games, free_games>>
  PROVE  IInv'
<1>1. Seats \in [Gid -> PlayersType] /\ Live \in SUBSET Gid
  BY SeatsTyped, LiveIsRest DEF IInv
<1>2. Seats' = Seats /\ Live' = Live
  BY DEF Seats, Live
<1>3. Agree(sgs', Seats, Live)
  BY <1>1, AgreeKeeps DEF IInv
<1>4. QED BY <1>2, <1>3 DEF IInv

\* handle_login, whether the session is new, detached or in use.
LEMMA LoginStep ==
  ASSUME IInv, NEW fd \in Fd, NEW account \in Account \cup {None},
         NEW slot \in Slots, NEW lost, HandleLogin(fd, account, slot, lost)
  PROVE  IInv'
<1> DEFINE id      == SsCreated(sgs, account)
           created == SsCreate(sgs, fd, account)
           joined  == ConnectSession(created, fd, id)
<1>1. Sound(created) /\ Keeps(sgs, created) /\ id \in Sid
  <2>1. Sound(created) /\ Keeps(sgs, created) /\ id \in Open(created)
    BY SsCreateSound DEF IInv, HandleLogin
  <2>2. QED BY <2>1, SoundFields DEF Sound
<1> HIDE DEF created, id
<1>2. /\ Sound(joined) /\ Keeps(created, joined) /\ joined.sessions[id].socket_fd = fd
  BY <1>1, ConnectSound
<1> HIDE DEF joined
<1>3. Keeps(sgs, joined)
  BY <1>1, <1>2, KeepsTrans
<1>4. sgs' = IF ~CanConnect(created, fd, id) THEN created
             ELSE IF joined.sessions[id].game_id # None THEN joined
             ELSE Joined(joined, id, slot, lost)
  BY DEF HandleLogin, created, id, joined
<1>5. Sound(sgs') /\ Keeps(sgs, sgs')
  <2>1. fd # None
    BY DEF Fd, None
  <2>2. CASE joined.sessions[id].game_id = None
    <3>1. /\ Sound(Joined(joined, id, slot, lost))
          /\ Keeps(joined, Joined(joined, id, slot, lost))
      BY <1>1, <1>2, <2>1, <2>2, JoinedSound
    <3>2. Keeps(sgs, Joined(joined, id, slot, lost))
      BY <1>3, <3>1, KeepsTrans
    <3>3. QED BY <1>1, <1>2, <1>3, <1>4, <3>1, <3>2
  <2>3. CASE joined.sessions[id].game_id # None
    BY <1>1, <1>2, <1>3, <1>4, <2>3
  <2>4. QED BY <2>2, <2>3
<1>6. QED BY <1>5, KeepsStep DEF HandleLogin

\* An account that was just created has no session, and the one it gets has a
\* socket from the start: it is never connected here.
LEMMA CreateAccountStep ==
  ASSUME IInv, NEW fd \in Fd, NEW slot \in Slots, NEW lost,
         HandleCreateAccount(fd, slot, lost)
  PROVE  IInv'
<1> DEFINE id      == SsCreated(sgs, None)
           created == SsCreate(sgs, fd, None)
<1>1. None \notin DOMAIN sgs.session_map
  BY AccountAssumption DEF IInv, Sound, SoundBut, SgsType
<1>2. /\ Sound(created) /\ Keeps(sgs, created) /\ created.sessions[id].socket_fd = fd
  BY <1>1, SsCreateSound DEF IInv, HandleCreateAccount
<1>3. fd # None
  BY DEF Fd, None
<1>4. sgs' = created
  BY <1>2, <1>3 DEF HandleCreateAccount, CanConnect
<1>5. QED BY <1>2, <1>4, KeepsStep DEF HandleCreateAccount

\* The game that is created and the sessions of its players agree at once.
LEMMA CreateGameStep ==
  ASSUME IInv, NEW ids \in Parties, CreateGame(ids)
  PROVE  IInv'
<1> DEFINE g == Head(free_games)
           seats == [Seats EXCEPT ![g] = ids]
<1>1. /\ g \in Gid /\ g \notin Live /\ Live' = Live \cup {g} /\ Live \subseteq Gid
      /\ free_games' \in Seq(Gid) /\ IsInjective(free_games')
  <2>1. /\ free_games \in Seq(Gid) /\ IsInjective(free_games) /\ free_games # <<>>
        /\ free_games' = Tail(free_games)
    BY DEF IInv, CreateGame
  <2>2. /\ free_games' \in Seq(Gid) /\ IsInjective(free_games')
        /\ g \in Gid /\ g \in Range(free_games)
        /\ Range(free_games') = Range(free_games) \ {g}
    BY <2>1, PopFree
  <2>3. Live = Gid \ Range(free_games) /\ Live' = Gid \ Range(free_games')
    BY LiveIsRest DEF Live, ToSet, Range
  <2>4. QED BY <2>2, <2>3
<1> HIDE DEF g
<1>2. ids \in PlayersType /\ ids \in SeqOf(Sid \cup {None}, MaxPlayers)
      /\ IsInjective(ids) /\ \E m \in 0 .. MaxPlayers : ids \in [1 .. m -> Sid]
  BY DEF Parties, SeqOf, PlayersType
<1>3. games' \in GamesType /\ Seats' = seats
  BY <1>1, <1>2 DEF CreateGame, IInv, GamesType, Game, Seats, g
<1>4. Seats \in [Gid -> PlayersType]
  BY SeatsTyped DEF IInv
<1>5. /\ Sound(sgs')
      /\ \A i \in DOMAIN ids : /\ sgs'.sessions[ids[i]].game_id = g
                              /\ sgs'.sessions[ids[i]].player_id = i - 1
      /\ \A id \in Sid : (\A i \in DOMAIN ids : ids[i] # id) =>
                           sgs'.sessions[id] = sgs.sessions[id]
  BY <1>1, SeatedSound DEF CreateGame, IInv, g
<1>6. /\ seats[g] = ids /\ \A h \in Gid \ {g} : seats[h] = Seats[h]
  BY <1>1, <1>4
<1> HIDE DEF seats
<1>7. Agree(sgs', seats, Live \cup {g})
  <2>1. ASSUME NEW h \in Live, NEW i \in DOMAIN seats[h], seats[h][i] # None
        PROVE  /\ sgs'.sessions[seats[h][i]].game_id = h
               /\ sgs'.sessions[seats[h][i]].player_id = i - 1
    <3>1. h \in Gid /\ h # g /\ h # None /\ seats[h] = Seats[h]
      BY <1>1, <1>6 DEF Gid, None
    <3>2. seats[h][i] \in Sid
      BY <1>4, <2>1, <3>1, SeatTyped
    <3>3. /\ sgs.sessions[seats[h][i]].game_id = h
          /\ sgs.sessions[seats[h][i]].player_id = i - 1
      BY <2>1, <3>1 DEF IInv, Agree
    <3>4. \A j \in DOMAIN ids : ids[j] # seats[h][i]
      BY <3>1, <3>3 DEF CreateGame
    <3>5. QED BY <1>5, <3>2, <3>3, <3>4
  <2>2. ASSUME NEW id \in Sid, sgs'.sessions[id].game_id # None
        PROVE  LET p == sgs'.sessions[id] IN
               /\ p.game_id \in Live \cup {g}
               /\ p.player_id + 1 \in DOMAIN seats[p.game_id]
               /\ seats[p.game_id][p.player_id + 1] = id
    <3>1. CASE \E i \in DOMAIN ids : ids[i] = id
      <4>1. PICK i \in DOMAIN ids : ids[i] = id
        BY <3>1
      <4>2. i \in Int
        BY <1>2
      <4>3. (i - 1) + 1 = i
        BY <4>2
      <4>4. QED BY <1>5, <1>6, <4>1, <4>3
    <3>2. CASE ~ \E i \in DOMAIN ids : ids[i] = id
      <4>1. sgs'.sessions[id] = sgs.sessions[id]
        BY <1>5, <3>2
      <4> DEFINE p == sgs.sessions[id]
      <4>2. /\ p.game_id \in Live /\ p.player_id + 1 \in DOMAIN Seats[p.game_id]
            /\ Seats[p.game_id][p.player_id + 1] = id
        BY <2>2, <4>1 DEF IInv, Agree
      <4>3. seats[p.game_id] = Seats[p.game_id]
        BY <1>1, <1>6, <4>2
      <4>4. QED BY <4>1, <4>2, <4>3
    <3>3. QED BY <3>1, <3>2
  <2>3. QED BY <1>5, <1>6, <2>1, <2>2 DEF Agree
<1>8. QED BY <1>1, <1>3, <1>5, <1>7 DEF IInv

\* Game g gives its block back.
LEMMA FreeGame ==
  ASSUME IInv, NEW g \in Live, free_games' = <<g>> \o free_games
  PROVE  /\ free_games' \in Seq(Gid) /\ IsInjective(free_games')
         /\ Live' = Live \ {g}
<1>1. g \in Gid /\ g \notin Range(free_games)
  BY LiveIsRest
<1>2. /\ free_games' \in Seq(Gid) /\ IsInjective(free_games')
      /\ Range(free_games') = Range(free_games) \cup {g}
  BY <1>1, PushFree DEF IInv
<1>3. Live' = Gid \ Range(free_games')
  BY DEF Live, ToSet, Range
<1>4. QED BY <1>2, <1>3, LiveIsRest

\* sgs_close_game gives the block back exactly when nobody refers to it.
LEMMA CloseGameStep ==
  ASSUME IInv, NEW g \in Gid, NEW lost, CloseGame(g, lost)
  PROVE  IInv'
<1> DEFINE c == ClosedPlayers(sgs, Seats[g], lost)
           seats == [Seats EXCEPT ![g] = c.players]
<1>1. Seats \in [Gid -> PlayersType] /\ Live \in SUBSET Gid /\ g \in Live
  BY SeatsTyped, LiveIsRest DEF IInv, CloseGame
<1>2. /\ Sound(c.sgs) /\ c.players \in PlayersType /\ c.done \in BOOLEAN
      /\ Agree(c.sgs, seats, IF c.done THEN Live \ {g} ELSE Live)
  BY <1>1, ClosedSound DEF IInv
<1>3. /\ sgs' = c.sgs /\ games' = [games EXCEPT ![g] = Game("done", c.players)]
      /\ free_games' = IF c.done THEN <<g>> \o free_games ELSE free_games
  BY DEF CloseGame, Seats
<1> HIDE DEF c
<1>4. games' \in GamesType /\ Seats' = seats
  BY <1>2, <1>3 DEF IInv, GamesType, Game, Seats, PlayersType
<1> HIDE DEF seats
<1>5. CASE c.done
  BY <1>1, <1>2, <1>3, <1>4, <1>5, FreeGame DEF IInv
<1>6. CASE ~c.done
  <2>1. free_games' = free_games /\ Live' = Live
    BY <1>3, <1>6 DEF Live
  <2>2. QED BY <1>2, <1>3, <1>4, <1>6, <2>1 DEF IInv
<1>7. QED BY <1>5, <1>6

\* sgs_force_close_game gives it back at once: everybody has left.
LEMMA ForceCloseStep ==
  ASSUME IInv, NEW g \in Gid, ForceCloseGame(g)
  PROVE  IInv'
<1> DEFINE none == [i \in DOMAIN Seats[g] |-> None]
           seats == [Seats EXCEPT ![g] = none]
<1>1. /\ Seats \in [Gid -> PlayersType] /\ Live \in SUBSET Gid /\ g \in Live
      /\ games[g].state \in {"playing", "done"}
  BY SeatsTyped, LiveIsRest DEF IInv, ForceCloseGame
<1>2. Sound(sgs') /\ Agree(sgs', seats, Live \ {g})
  <2>1. sgs' = DroppedPlayers(sgs, Seats[g])
    BY DEF ForceCloseGame, Seats
  <2>2. QED BY <1>1, <2>1, DroppedSound DEF IInv
<1>3. none \in PlayersType
  <2>1. Seats[g] \in PlayersType
    BY <1>1
  <2>2. PICK m \in 0 .. MaxPlayers : Seats[g] \in [1 .. m -> Sid \cup {None}]
    BY <2>1 DEF PlayersType, SeqOf
  <2>3. none \in [1 .. m -> Sid \cup {None}]
    BY <2>2
  <2>4. QED BY <2>3 DEF PlayersType, SeqOf
<1>4. games' = [games EXCEPT ![g] = Game(games[g].state, none)]
  BY DEF ForceCloseGame, Seats
<1> HIDE DEF none
<1>5. games' \in GamesType /\ Seats' = seats
  BY <1>1, <1>3, <1>4 DEF IInv, GamesType, Game, Seats, PlayersType
<1>6. QED BY <1>1, <1>2, <1>5, FreeGame DEF IInv, ForceCloseGame

\* One step for each action.
LEMMA InvStep == IInv /\ [Next]_vars => IInv'
<1> SUFFICES ASSUME IInv, [Next]_vars PROVE IInv'
  OBVIOUS
<1>0. Sound(sgs) /\ sgs.connections \in [Fd -> ConnectionType]
  BY SoundFields DEF IInv, Sound
<1>1. ASSUME NEW fd \in Fd, OpenConnection(fd) PROVE IInv'
  <2>1. Connection(None, "handshake", 0) \in ConnectionType
    BY MaxEmptyPingsAssumption DEF Connection, ConnectionType
  <2>2. QED BY <1>0, <1>1, <2>1, PutConnectionSound, KeepsStep DEF OpenConnection
<1>2. ASSUME NEW fd \in Fd, HandleHandshake(fd) PROVE IInv'
  <2> DEFINE c == sgs.connections[fd]
  <2>1. Connection(c.session_id, "secure", c.pings) \in ConnectionType
    BY <1>0 DEF Connection, ConnectionType
  <2>2. QED BY <1>0, <1>2, <2>1, PutConnectionSound, KeepsStep DEF HandleHandshake
<1>3. ASSUME NEW fd \in Fd, HostClose(fd) \/ HandleLogout(fd) PROVE IInv'
  BY <1>0, <1>3, CloseSound, KeepsStep DEF HostClose, HandleLogout
<1>4. ASSUME NEW fd \in Fd, NEW id \in Sid, HandleResume(fd, id) PROVE IInv'
  BY <1>0, <1>4, ConnectSound, KeepsStep DEF HandleResume
<1>5. ASSUME NEW id \in Sid, HostDisconnect(id) PROVE IInv'
  BY <1>0, <1>5, DisconnectSound, SoundIsSoundBut, KeepsStep DEF HostDisconnect
<1>6. ASSUME NEW ids \in Parties, CreateGame(ids) PROVE IInv'
  BY <1>6, CreateGameStep
<1>7. ASSUME NEW g \in Gid, ForceCloseGame(g) PROVE IInv'
  BY <1>7, ForceCloseStep
<1>8. ASSUME NEW fd \in Fd, NEW lost, HandlePing(fd, lost) PROVE IInv'
  BY <1>0, <1>8, SendPingSound, KeepsStep DEF HandlePing
<1>9. ASSUME NEW fd \in Fd, NEW account \in Account \cup {None}, NEW slot \in Slots,
             NEW lost, HandleLogin(fd, account, slot, lost)
      PROVE  IInv'
  BY <1>9, LoginStep
<1>10. ASSUME NEW fd \in Fd, NEW slot \in Slots, NEW lost,
              HandleCreateAccount(fd, slot, lost)
       PROVE  IInv'
  BY <1>10, CreateAccountStep
<1>11. ASSUME NEW lost, PingAllConnections(lost) PROVE IInv'
  BY <1>0, <1>11, PingedSound, KeepsStep DEF PingAllConnections
<1>12. ASSUME NEW g \in Gid, NEW lost, CloseGame(g, lost) PROVE IInv'
  BY <1>12, CloseGameStep
<1>13. ASSUME NEW id \in Sid, NEW lost, HostSendToken(id, lost) PROVE IInv'
  BY <1>0, <1>13, SendResumeTokenSound, KeepsStep DEF HostSendToken
<1>14. CASE UNCHANGED vars
  BY <1>0, <1>14, KeepsStep DEF vars, Keeps
<1>15. QED
  BY <1>1, <1>2, <1>3, <1>4, <1>5, <1>6, <1>7, <1>8, <1>9, <1>10, <1>11, <1>12,
     <1>13, <1>14 DEF Next

-----------------------------------------------------------------------------

\* Every descriptor, session, account, place and game number that is stored is
\* one, and neither pool ever lists a block as free twice.
THEOREM TypeCorrect == Spec => []TypeOK
<1>1. IInv => TypeOK
  <2> SUFFICES ASSUME IInv PROVE TypeOK
    OBVIOUS
  <2>1. Sessions \in Nat /\ Games \in Nat
    BY SizesAssumption
  <2>2. sgs \in SgsType /\ IsInjective(sgs.free) /\ sgs.free \in Seq(Sid)
    BY DEF IInv, Sound, SoundBut, SgsType
  <2>3. sgs.free \in SeqOf(Sid, Sessions)
    BY <2>1, <2>2, FreeBound DEF Sid
  <2>4. free_games \in SeqOf(Gid, Games) /\ IsInjective(free_games)
    BY <2>1, FreeBound DEF IInv, Gid
  <2>5. DOMAIN sgs.session_map \subseteq Account /\ Range(sgs.session_map) \subseteq Sid
    <3>1. PICK accounts \in SUBSET Account : sgs.session_map \in [accounts -> Sid]
      BY <2>2 DEF SgsType
    <3>2. QED BY <3>1 DEF Range
  <2>6. /\ sgs.sessions \in [Sid -> SessionType]
        /\ sgs.connections \in [Fd -> ConnectionType] /\ sgs.fault \in BOOLEAN
    BY <2>2 DEF SgsType
  <2>7. QED BY <2>2, <2>3, <2>4, <2>5, <2>6
            DEF TypeOK, SessionType, ConnectionType, IInv, GamesType
<1>2. QED BY <1>1, InvInit, InvStep, PTL DEF Spec

\* Every path that takes the socket from a session deletes the session or
\* leaves it to its game.
THEOREM DetachedAlwaysInGame == Spec => []DetachedInGame
<1>1. IInv => DetachedInGame
  BY DEF IInv, Sound, SoundBut, DetachedInGame
<1>2. QED BY <1>1, InvInit, InvStep, PTL DEF Spec

\* The two ways to say who plays what, the players of the games and the places
\* of the sessions, agree forever.
THEOREM GamesAlwaysAgree == Spec => []GamesAgree
<1>1. IInv => GamesAgree
  <2> SUFFICES ASSUME IInv PROVE GamesAgree
    OBVIOUS
  <2>1. Seats \in [Gid -> PlayersType] /\ Live \subseteq Gid
    BY SeatsTyped, LiveIsRest DEF IInv
  <2>2. Sound(sgs) /\ Agree(sgs, Seats, Live) /\ Open(sgs) \subseteq Sid
    BY SoundFields DEF IInv, Sound
  <2>3. ASSUME NEW g \in Live, NEW i \in DOMAIN Seats[g], Seats[g][i] # None
        PROVE  /\ Seats[g][i] \in Open(sgs) /\ sgs.sessions[Seats[g][i]].game_id = g
               /\ sgs.sessions[Seats[g][i]].player_id = i - 1
    <3>1. g \in Gid /\ g # None
      BY <2>1 DEF Gid, None
    <3>2. Seats[g][i] \in Sid
      BY <2>1, <2>3, <3>1, SeatTyped
    <3>3. /\ sgs.sessions[Seats[g][i]].game_id = g
          /\ sgs.sessions[Seats[g][i]].player_id = i - 1
      BY <2>2, <2>3 DEF Agree
    <3>4. QED BY <2>2, <3>1, <3>2, <3>3 DEF Sound, SoundBut
  <2>4. ASSUME NEW id \in Open(sgs), sgs.sessions[id].game_id # None
        PROVE  /\ sgs.sessions[id].game_id \in Live
               /\ Seats[sgs.sessions[id].game_id][sgs.sessions[id].player_id + 1] = id
    BY <2>2, <2>4 DEF Agree
  <2>5. \A g \in Gid : Seats[g] = games[g].player_session_ids
    BY DEF Seats
  <2>6. QED BY <2>1, <2>3, <2>4, <2>5 DEF GamesAgree
<1>2. QED BY <1>1, InvInit, InvStep, PTL DEF Spec

\* A lookup never finds a session that was deleted or is another account's.
THEOREM MapAlwaysSound == Spec => []MapSound
<1>1. IInv => MapSound
  BY DEF IInv, Sound, SoundBut, MapSound
<1>2. QED BY <1>1, InvInit, InvStep, PTL DEF Spec

\* Whatever became of the session a connection names, a game message is written
\* to the place of that number in a live game.
THEOREM MessagesAlwaysLand == Spec => []MessageLands
<1>1. IInv => MessageLands
  <2> SUFFICES ASSUME IInv, NEW fd \in Fd, LoggedIn(fd),
                      sgs.sessions[sgs.connections[fd].session_id].game_id # None
               PROVE  LET id == sgs.connections[fd].session_id
                          s  == sgs.sessions[id]
                      IN /\ s.game_id \in Live
                         /\ games[s.game_id].player_session_ids[s.player_id + 1] = id
    BY DEF MessageLands
  <2>1. sgs.connections[fd].session_id \in Sid
    <3>1. sgs.connections[fd] \in ConnectionType
      BY SoundFields DEF IInv, Sound
    <3>2. QED BY <3>1 DEF LoggedIn, ConnectionType
  <2>2. Live \subseteq Gid /\ \A g \in Gid : Seats[g] = games[g].player_session_ids
    BY DEF Live, Seats
  <2>3. QED BY <2>1, <2>2 DEF IInv, Agree
<1>2. QED BY <1>1, InvInit, InvStep, PTL DEF Spec
=============================================================================
