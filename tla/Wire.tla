-------------------------------- MODULE Wire --------------------------------
(***************************************************************************)
(* One descriptor of simple_game_server.c and the bytes on it: messages    *)
(* arrive in pieces, recv answers what is there, send may take less than   *)
(* it was given, and a handler that gets less than it asked for gives up.  *)
(* Server has what the handlers do with a message once they have read it.  *)
(*                                                                         *)
(* The host calls sgs_handle_message when there is something to read, and  *)
(* sgs_ping_all_connections from time to time.  It closes a connection on  *)
(* which a call answered -1, but for the errors in Keeps.  The peer sends  *)
(* messages of each type as the header lays them out, in any order; it may *)
(* stop.  Not every handler reads all of its message: what is left is read *)
(* as the next header, and may say anything.                               *)
(***************************************************************************)
EXTENDS Integers, Sequences

CONSTANTS MaxEmptyPings,    \* SGS_MAX_EMPTY_PINGS
          MaxUnread,        \* bound: bytes on their way
          Keeps             \* errors after which the host keeps the connection

ASSUME WireAssumption == MaxEmptyPings \in Nat /\ MaxUnread \in Nat \ {0}

VARIABLES connection,  \* the entry of the descriptor
          stream,      \* what the peer sent and was not read, byte by byte
          arrived,     \* how many of these bytes recv can give
          peer,        \* whether the peer is there
          torn,        \* whether a send on this connection was short
          last         \* the last message a handler accepted

vars == <<connection, stream, arrived, peer, torn, last>>

\* enum sgs_message_type_t, what the peer sends.
Types == {"PING", "PUBKEY", "CREATE", "LOGIN", "RESUME", "LOGOUT", "GAME"}

Plaintext == {"PING", "PUBKEY"}

None    == "none"
Garbage == "garbage"   \* a message that no one sent

\* session: none, or one in a game, or one in none.
Connection(state, session, pings) ==
  [state |-> state, session |-> session, pings |-> pings]

Closed == Connection("closed", "none", 0)
Open   == connection.state # "closed"

\* "Bytes" of a message: two of its sgs_msg_info_t, two of its sgs_msg_encdata_t
\* (in the code as long as five headers) and one of a body.
InfoSize    == 2
EncdataSize == 2

Length(type) == IF type \in {"PING", "CREATE", "LOGOUT"} THEN 0 ELSE 1

\* SGS_MESSAGE_SIZE or SGS_SEC_MESSAGE_SIZE: an encrypted message has an encdata
\* even when it has no body.
MessageSize(type) ==
  InfoSize + Length(type) + (IF type \in Plaintext THEN 0 ELSE EncdataSize)

Byte == {b \in [type : Types, at : Nat] : b.at \in 1 .. MessageSize(b.type)}

Bytes(type) == [k \in 1 .. MessageSize(type) |-> [type |-> type, at |-> k]]

Init == /\ connection = Closed /\ stream = <<>> /\ arrived = 0
        /\ peer = FALSE /\ torn = FALSE /\ last = None

-----------------------------------------------------------------------------
(* The peer and the network.                                               *)

Send(type) ==
  /\ Open /\ peer /\ Len(stream) + MessageSize(type) <= MaxUnread
  /\ stream' = stream \o Bytes(type)
  /\ UNCHANGED <<connection, arrived, peer, torn, last>>

Deliver ==
  /\ arrived < Len(stream) /\ arrived' = arrived + 1
  /\ UNCHANGED <<connection, stream, peer, torn, last>>

\* What has not arrived may be lost, in the middle of a message too.
PeerStops ==
  /\ Open /\ peer /\ peer' = FALSE
  /\ \E n \in arrived .. Len(stream) : stream' = SubSeq(stream, 1, n)
  /\ UNCHANGED <<connection, arrived, torn, last>>

-----------------------------------------------------------------------------
(* What a call leaves of the connection.                                   *)

\* sgs_close_connection.
CloseConnection ==
  connection' = Closed /\ stream' = <<>> /\ arrived' = 0 /\ peer' = FALSE

\* The handler has read n bytes.
Reads(n) ==
  stream' = SubSeq(stream, n + 1, Len(stream)) /\ arrived' = arrived - n

Keep(state, session, pings) ==
  connection' = Connection(state, session, pings) /\ UNCHANGED peer

\* sgs_send_bytes: send takes a part of what it is given.
Sends(short) == torn' = (torn \/ short)

-----------------------------------------------------------------------------
(* Wrong variants, for the mutation checks.                                *)

\* The body of an encrypted message is read and its encdata is not.
AsksNoEncdata(type) == InfoSize + Length(type)

\* A ping that was not sent whole is taken for sent.
PingEndsIdle(short) ==
  connection.session = "none" /\ connection.pings > MaxEmptyPings

\* Each ping is taken for the first.
PingsOne == 1

\* A message with no body is not met.
ReadableBody == Open /\ (arrived > InfoSize \/ (~peer /\ stream = <<>>))

\* The keys need not have been exchanged.
AnonymousInHandshake == Open /\ connection.session = "none"

-----------------------------------------------------------------------------
(* Pings.                                                                  *)

\* pings matters only up to the limit, so it is counted no further.
Pings == IF connection.pings > MaxEmptyPings THEN connection.pings
         ELSE connection.pings + 1

\* sgs_send_ping closes the connection at the limit, or when the send is short.
PingEnds(short) ==
  (connection.session = "none" /\ connection.pings > MaxEmptyPings) \/ short

PingAll(short) ==
  /\ Open
  /\ IF PingEnds(short) THEN CloseConnection
     ELSE /\ Keep(connection.state, connection.session, Pings)
          /\ UNCHANGED <<stream, arrived>>
  /\ Sends(short) /\ UNCHANGED last

-----------------------------------------------------------------------------
(* sgs_handle_message.                                                     *)

\* There is something to read, or the end of the stream.  What comes between two
\* recvs of a handler is as if it had come before the first, or after the last.
Readable == Open /\ (arrived > 0 \/ (~peer /\ stream = <<>>))

HasHeader == arrived >= InfoSize

\* The first bytes are the header of a message that was sent.
IsHeader == \A k \in 1 .. InfoSize : stream[k].at = k

\* What the first bytes say, read as a header: if they are none, anything.
Says(type) == IsHeader => Head(stream).type = type

\* The handlers that read a body.
ReadsBody(type) ==
  \/ type = "PUBKEY" /\ connection.state = "handshake"
  \/ /\ connection.state = "secure"
     /\ \/ type \in {"LOGIN", "RESUME"} /\ connection.session = "none"
        \/ type = "GAME" /\ connection.session = "game"

\* All bytes that are read of the message.
Asks(type) ==
  InfoSize + (IF ReadsBody(type) THEN Length(type) ELSE 0)
           + (IF ReadsBody(type) /\ type \notin Plaintext THEN EncdataSize ELSE 0)

\* The message is dispatched to its handler, and all is there that it reads.
Handles(type) ==
  /\ Readable /\ HasHeader /\ Says(type) /\ arrived >= Asks(type)

\* The message that was taken.
Taken(type) == IF IsHeader THEN type ELSE Garbage

\* The handler returns 0.  short: what it sent back was not taken whole, for
\* which it, or the host, closes the connection.
Accepted(type, state, session, short) ==
  /\ IF short THEN CloseConnection
     ELSE Reads(Asks(type)) /\ Keep(state, session, connection.pings)
  /\ Sends(short) /\ last' = Taken(type)

\* The handler returns -1 once it has read n bytes.
Refused(n, error, session) ==
  /\ IF error \notin Keeps THEN CloseConnection
     ELSE /\ Reads(n)
          /\ Keep(connection.state, session, connection.pings)
  /\ UNCHANGED <<torn, last>>

\* recv gives less than a header, an encdata or a body.
HandleShort ==
  /\ Readable
  /\ \/ ~HasHeader
     \/ HasHeader /\ \E type \in Types : Says(type) /\ arrived < Asks(type)
  /\ Refused(arrived, "SGS_INV_MSG_LEN", connection.session)

\* What is read as a header is the rest of something else, and fits no message: it
\* is of no type, or of the wrong type of encryption, or of another length.
HandleMisread ==
  /\ Readable /\ HasHeader /\ ~IsHeader
  /\ \E error \in {"SGS_INV_MSG_TYPE", "SGS_INV_MSG_ENCTYPE", "SGS_INV_MSG_LEN"} :
       Refused(InfoSize, error, connection.session)

HandlePing(short) ==
  /\ Handles("PING")
  /\ IF PingEnds(short) THEN CloseConnection
     ELSE /\ Reads(Asks("PING"))
          /\ Keep(connection.state, connection.session, Pings)
  /\ Sends(short) /\ last' = Taken("PING")

HandleHandshake ==
  /\ connection.state = "handshake" /\ Handles("PUBKEY")
  /\ Accepted("PUBKEY", "secure", connection.session, FALSE)

\* No handler takes a message of this type now: only its header is read.
Mistyped(type) ==
  CASE connection.state = "handshake" -> type \notin {"PING", "PUBKEY"}
    [] connection.session = "none"    -> type \in {"PUBKEY", "LOGOUT", "GAME"}
    [] connection.session = "lobby"   -> type \notin {"PING", "LOGOUT"}
    [] connection.session = "game"    -> type \notin {"PING", "LOGOUT", "GAME"}

HandleMistyped(type) ==
  /\ Mistyped(type) /\ Handles(type)
  /\ Refused(InfoSize,
             IF (type \in Plaintext) = (connection.state = "handshake")
             THEN "SGS_INV_MSG_TYPE" ELSE "SGS_INV_MSG_ENCTYPE",
             connection.session)

Anonymous == connection.state = "secure" /\ connection.session = "none"

\* Login and creation of an account: the answer when the client joins.
Joins(type, short) == Accepted(type, "secure", "lobby", short)

HandleLogin(short) ==
  /\ Anonymous /\ Handles("LOGIN")
  /\ \/ \E error \in {"SGS_NO_ROOM_SS", "SGS_SESSION_IN_PROGRESS"} :
          Refused(Asks("LOGIN"), error, "none")
     \/ Refused(Asks("LOGIN"), "SGS_NO_ROOM_MM", "lobby")
     \/ Accepted("LOGIN", "secure", "game", FALSE)
     \/ Joins("LOGIN", short)

HandleCreateAccount(short) ==
  /\ Anonymous /\ Handles("CREATE")
  /\ \/ \E error \in {"SGS_NO_ROOM_SS", "SGS_SESSION_IN_PROGRESS"} :
          Refused(Asks("CREATE"), error, "none")
     \/ Refused(Asks("CREATE"), "SGS_NO_ROOM_MM", "lobby")
     \/ Joins("CREATE", short)

HandleResume ==
  /\ Anonymous /\ Handles("RESUME")
  /\ \/ Refused(Asks("RESUME"), "SGS_INV_RTOKEN", "none")
     \/ \E session \in {"lobby", "game"} :
          Accepted("RESUME", "secure", session, FALSE)

\* What the send answers is not looked at: the connection is closed anyway.
HandleLogout(short) ==
  /\ connection.session # "none" /\ Handles("LOGOUT")
  /\ IF connection.session = "game"
     THEN Refused(Asks("LOGOUT"), "SGS_GAME_IN_PROGRESS", "game")
     ELSE CloseConnection /\ Sends(short) /\ last' = Taken("LOGOUT")

HandleGameMessage ==
  /\ connection.session = "game" /\ Handles("GAME")
  /\ Accepted("GAME", "secure", "game", FALSE)

HandleMessage ==
  \/ HandleShort \/ HandleMisread \/ HandleHandshake
  \/ HandleResume \/ HandleGameMessage
  \/ \E type \in Types : HandleMistyped(type)
  \/ \E short \in BOOLEAN : \/ HandlePing(short) \/ HandleLogin(short)
                           \/ HandleCreateAccount(short) \/ HandleLogout(short)

-----------------------------------------------------------------------------
(* The host.                                                               *)

\* sgs_open_connection sends the key.  The host closes what it did not open.
OpenConnection ==
  /\ ~Open
  /\ connection' = Connection("handshake", "none", 0)
  /\ peer' = TRUE /\ torn' = FALSE
  /\ UNCHANGED <<stream, arrived, last>>

\* The session is put into a game.
CreateGame ==
  /\ connection.session = "lobby"
  /\ Keep(connection.state, "game", connection.pings)
  /\ UNCHANGED <<stream, arrived, torn, last>>

\* A game ends, by either function, or the host gives the connection up.
HostClose == Open /\ CloseConnection /\ UNCHANGED <<torn, last>>

Next == \/ OpenConnection \/ CreateGame \/ HostClose
        \/ PeerStops \/ Deliver \/ HandleMessage
        \/ \E type \in Types : Send(type)
        \/ \E short \in BOOLEAN : PingAll(short)

Spec == Init /\ [][Next]_vars

\* The network delivers, and the host goes on reading and pinging.  A short ping
\* is not promised: it closes the connection anyway.
FairSpec == /\ Spec /\ WF_vars(Deliver) /\ WF_vars(HandleMessage)
            /\ WF_vars(PingAll(FALSE))

-----------------------------------------------------------------------------

\* The messages of which nothing was read, in the order in which they were sent.
Begun(s) ==
  LET begun[n \in 0 .. Len(s)] ==
        IF n = 0 THEN <<>>
        ELSE IF s[n].at = 1 THEN Append(begun[n - 1], s[n].type) ELSE begun[n - 1]
  IN begun[Len(s)]

Pending == Begun(stream)

\* The next byte is the first of a message.
InStep == stream # <<>> => stream[1].at = 1

\* The messages of which a part may be left unread though the connection is kept:
\* a request for an account, since no handler reads its encdata, and so a logout in
\* a game if the host keeps the connection; what is of the wrong type, or cut short,
\* if the host keeps the connection all the same.
Leaves ==
  {type \in Types :
     \/ type = "CREATE"
     \/ type = "LOGOUT" /\ "SGS_GAME_IN_PROGRESS" \in Keeps
     \/ type # "PING" /\ Keeps \cap {"SGS_INV_MSG_TYPE", "SGS_INV_MSG_ENCTYPE"} # {}
     \/ "SGS_INV_MSG_LEN" \in Keeps}

Ch == INSTANCE Channel WITH Messages <- Types, open <- Open, pending <- Pending,
                            inStep <- InStep

\* Only a connection whose keys were exchanged has a session.
ConnectionOK ==
  /\ connection \in [state : {"closed", "handshake", "secure"},
                     session : {"none", "lobby", "game"},
                     pings : 0 .. MaxEmptyPings + 1]
  /\ connection.session # "none" => connection.state = "secure"

StreamOK == stream \in Seq(Byte) /\ arrived \in 0 .. Len(stream)

\* The fields keep their types, no more bytes are given than were sent, and none
\* logs in on a connection that is not secure.
TypeOK == /\ ConnectionOK /\ StreamOK
          /\ peer \in BOOLEAN /\ torn \in BOOLEAN
          /\ last \in Types \cup {None, Garbage}

\* However the bytes arrive, and whatever is refused, a message is taken whole,
\* once and in its turn, or the connection closes, unless it is one of Leaves: of
\* these read_bytes and the handlers leave a part to the next read_message_info,
\* and until it has read past it the connection may take what no one sent.
MessagesInTurn == Ch!Spec

\* Nothing follows a message of which send took only a part.
TornIsLast == torn => ~Open

\* What was sent is read to the end, or read on for ever, unless the connection
\* closes: no message stays on the descriptor, though recv never waits and the rest
\* of one may never come.
MessagesAreMet ==
  []<>(stream = <<>>) \/ []<><<Len(stream') < Len(stream)>>_vars

\* A client that sends pings, or nothing, and never logs in does not hold its
\* descriptor: sgs_send_ping closes it.
IdleEnds == [](Open => <>(~Open \/ connection.session # "none"))
=============================================================================
