----------------------------- MODULE WireProofs -----------------------------
(***************************************************************************)
(* For every limit on pings, every number of bytes on their way and any    *)
(* errors that the host forgives: the entry of a descriptor and the bytes  *)
(* on it stay in range, a message that was sent in part is the last, and   *)
(* messages are met in order, whole and once each but for those in Leaves. *)
(*                                                                         *)
(* Every handler ends in one of two ways: the connection closes, or some   *)
(* bytes that had come are read and the connection is kept.  The proofs    *)
(* first show that, and how many bytes (HandlerDoes), and then reason      *)
(* about these two.  Those about messages first show what a stream of      *)
(* bytes begins (Tells), and that the places of neighbouring bytes tell    *)
(* where a message ends.                                                   *)
(***************************************************************************)
EXTENDS Wire, ContainerProofs

\* What a handler leaves: nothing, or all but n bytes of the stream.  What it sent
\* was then taken whole, if it sent anything.
Ends == CloseConnection /\ torn' \in {torn, TRUE}

GoesOn(n) == /\ n \in 0 .. arrived /\ Reads(n)
             /\ connection'.state \in {connection.state, "secure"}
             /\ connection' \in [state : {"closed", "handshake", "secure"},
                                 session : {"none", "lobby", "game"},
                                 pings : 0 .. MaxEmptyPings + 1]
             /\ connection'.session # "none" => connection'.state = "secure"
             /\ UNCHANGED <<peer, torn>>

\* n bytes are all of a message, or a part of one that may be left.
Whole(type, n) ==
  n \in 1 .. MessageSize(type) /\ (n = MessageSize(type) \/ type \in Leaves)

\* What sgs_handle_message does: it gives up, it meets the message the first bytes
\* say, it has too few of them, or they say none.
Handled ==
  \/ Ends /\ last' = last
  \/ \E type \in Types :
       /\ HasHeader /\ Says(type) /\ last' \in {last, Taken(type)}
       /\ Ends \/ \E n \in 0 .. arrived : GoesOn(n) /\ Whole(type, n)
  \/ ~HasHeader /\ Leaves = Types /\ GoesOn(arrived) /\ last' = last
  \/ HasHeader /\ ~IsHeader /\ GoesOn(InfoSize) /\ last' = last

\* Handlers ask for whole bytes, no more than a message has, and for all of a
\* message with a body that they read.
LEMMA AsksOf ==
  ASSUME NEW type \in Types
  PROVE  /\ Asks(type) \in Nat /\ Asks(type) >= InfoSize
         /\ MessageSize(type) \in Nat /\ Asks(type) <= MessageSize(type)
         /\ type = "PING" \/ ReadsBody(type) => Asks(type) = MessageSize(type)
<1>1. Length(type) \in {0, 1} /\ (type = "PING" => Length(type) = 0)
  BY DEF Length
<1>2. CASE ReadsBody(type)
  BY <1>1, <1>2 DEF Asks, MessageSize, InfoSize, EncdataSize
<1>3. CASE ~ReadsBody(type)
  BY <1>1, <1>3 DEF Asks, MessageSize, InfoSize, EncdataSize, Plaintext
<1>4. QED BY <1>2, <1>3

\* A ping is counted up to one past the limit.
LEMMA PingsCounted == ConnectionOK => Pings \in 0 .. MaxEmptyPings + 1
BY WireAssumption DEF ConnectionOK, Pings

\* A handler that has read n bytes and answers nothing, or all of it.
LEMMA ReadAndKept ==
  ASSUME TypeOK, Open, NEW n \in 0 .. arrived,
         NEW session \in {"none", "lobby", "game"}, NEW pings \in 0 .. MaxEmptyPings + 1,
         NEW state \in {connection.state, "secure"},
         session # "none" => state = "secure",
         Reads(n), Keep(state, session, pings), UNCHANGED torn
  PROVE  GoesOn(n)
<1>1. /\ connection' = Connection(state, session, pings)
      /\ connection.state \in {"closed", "handshake", "secure"}
  BY DEF Keep, TypeOK, ConnectionOK
<1>2. connection' \in [state : {"closed", "handshake", "secure"},
                       session : {"none", "lobby", "game"},
                       pings : 0 .. MaxEmptyPings + 1]
  BY <1>1 DEF Connection
<1>3. QED BY <1>1, <1>2 DEF GoesOn, Keep, Connection

\* A handler that accepts its message.
LEMMA AcceptedEnds ==
  ASSUME TypeOK, NEW type \in Types, Handles(type), Whole(type, Asks(type)),
         NEW session \in {"none", "lobby", "game"},
         NEW short \in BOOLEAN, Accepted(type, "secure", session, short)
  PROVE  Handled
<1>1. /\ Open /\ HasHeader /\ Says(type) /\ Asks(type) \in 0 .. arrived
      /\ last' = Taken(type)
  BY AsksOf DEF Handles, Readable, TypeOK, StreamOK, Accepted
<1>2. CASE short
  <2>1. Ends
    BY <1>2 DEF Accepted, Sends, Ends
  <2>2. QED BY <1>1, <2>1 DEF Handled
<1>3. CASE ~short
  <2>1. connection.pings \in 0 .. MaxEmptyPings + 1
    BY DEF TypeOK, ConnectionOK
  <2>2. /\ Reads(Asks(type)) /\ Keep("secure", session, connection.pings)
        /\ UNCHANGED torn
    BY <1>3 DEF Accepted, Sends, TypeOK
  <2>3. GoesOn(Asks(type))
    BY <1>1, <2>1, <2>2, ReadAndKept
  <2>4. QED BY <1>1, <2>3 DEF Handled
<1>4. QED BY <1>2, <1>3

\* A handler that refuses either closes the connection or has read bytes that had come.
LEMMA RefusedEnds ==
  ASSUME TypeOK, NEW type \in Types, Handles(type), NEW n \in 0 .. Asks(type),
         NEW session \in {"none", "lobby", "game"},
         session # "none" => connection.state = "secure",
         NEW error, error \in Keeps => Whole(type, n), Refused(n, error, session)
  PROVE  Handled
<1>1. /\ Open /\ HasHeader /\ Says(type) /\ n \in 0 .. arrived /\ last' = last
  BY AsksOf DEF Handles, Readable, TypeOK, StreamOK, Refused
<1>2. CASE error \notin Keeps
  BY <1>2 DEF Refused, Ends, Handled
<1>3. CASE error \in Keeps
  <2>1. connection.pings \in 0 .. MaxEmptyPings + 1
    BY DEF TypeOK, ConnectionOK
  <2>2. Reads(n) /\ Keep(connection.state, session, connection.pings) /\ UNCHANGED torn
    BY <1>3 DEF Refused
  <2>3. GoesOn(n)
    BY <1>1, <2>1, <2>2, ReadAndKept
  <2>4. QED BY <1>1, <1>3, <2>3 DEF Handled
<1>4. QED BY <1>2, <1>3

\* What a ping does when it is read.
LEMMA PingHandled ==
  ASSUME TypeOK, NEW short \in BOOLEAN, HandlePing(short)
  PROVE  Handled
<1>1. /\ "PING" \in Types /\ Handles("PING") /\ last' = Taken("PING")
  BY DEF HandlePing, Types
<1>2. /\ Open /\ HasHeader /\ Says("PING") /\ Asks("PING") \in 0 .. arrived
      /\ Whole("PING", Asks("PING"))
  BY <1>1, AsksOf DEF Handles, Readable, TypeOK, StreamOK, Whole, InfoSize
<1>3. CASE PingEnds(short)
  <2>1. Ends
    BY <1>3 DEF HandlePing, Sends, Ends, TypeOK
  <2>2. QED BY <1>1, <1>2, <2>1 DEF Handled
<1>4. CASE ~PingEnds(short)
  <2>1. /\ Reads(Asks("PING")) /\ UNCHANGED torn
        /\ Keep(connection.state, connection.session, Pings)
    BY <1>4 DEF HandlePing, PingEnds, Sends, TypeOK
  <2>2. /\ Pings \in 0 .. MaxEmptyPings + 1
        /\ connection.session \in {"none", "lobby", "game"}
        /\ connection.session # "none" => connection.state = "secure"
    BY PingsCounted DEF TypeOK, ConnectionOK
  <2>3. GoesOn(Asks("PING"))
    BY <1>2, <2>1, <2>2, ReadAndKept
  <2>4. QED BY <1>1, <1>2, <2>3 DEF Handled
<1>5. QED BY <1>3, <1>4

\* Too few bytes have come.
LEMMA ShortHandled ==
  ASSUME TypeOK, HandleShort
  PROVE  Handled
<1>1. last' = last /\ arrived \in 0 .. arrived /\ Open
  BY DEF HandleShort, Refused, Readable, TypeOK, StreamOK
<1>2. CASE "SGS_INV_MSG_LEN" \notin Keeps
  BY <1>1, <1>2 DEF HandleShort, Refused, Ends, Handled
<1>3. CASE "SGS_INV_MSG_LEN" \in Keeps
  <2>1. Leaves = Types
    BY <1>3 DEF Leaves
  <2>2. /\ connection.pings \in 0 .. MaxEmptyPings + 1
        /\ connection.session \in {"none", "lobby", "game"}
        /\ connection.session # "none" => connection.state = "secure"
    BY DEF TypeOK, ConnectionOK
  <2>3. /\ Reads(arrived) /\ UNCHANGED torn
        /\ Keep(connection.state, connection.session, connection.pings)
    BY <1>3 DEF HandleShort, Refused
  <2>4. GoesOn(arrived)
    BY <1>1, <2>2, <2>3, ReadAndKept
  <2>5. CASE ~HasHeader
    BY <1>1, <2>1, <2>4, <2>5 DEF Handled
  <2>6. CASE HasHeader /\ \E type \in Types : Says(type) /\ arrived < Asks(type)
    <3>1. PICK type \in Types : Says(type) /\ arrived < Asks(type)
      BY <2>6
    <3>2. Whole(type, arrived)
      BY <2>1, <2>6, <3>1, AsksOf DEF Whole, HasHeader, InfoSize, TypeOK, StreamOK
    <3>3. QED BY <1>1, <2>4, <2>6, <3>1, <3>2 DEF Handled
  <2>7. QED BY <2>5, <2>6 DEF HandleShort
<1>4. QED BY <1>2, <1>3

\* What is read as a header is none.
LEMMA MisreadHandled ==
  ASSUME TypeOK, HandleMisread
  PROVE  Handled
<1>1. HasHeader /\ ~IsHeader /\ InfoSize \in 0 .. arrived /\ Open
  BY DEF HandleMisread, Readable, HasHeader, InfoSize, TypeOK, StreamOK
<1>2. PICK error : Refused(InfoSize, error, connection.session)
  BY DEF HandleMisread
<1>3. CASE error \notin Keeps
  BY <1>2, <1>3 DEF Refused, Ends, Handled
<1>4. CASE error \in Keeps
  <2>1. /\ connection.pings \in 0 .. MaxEmptyPings + 1
        /\ connection.session \in {"none", "lobby", "game"}
        /\ connection.session # "none" => connection.state = "secure"
    BY DEF TypeOK, ConnectionOK
  <2>2. /\ Reads(InfoSize) /\ UNCHANGED <<torn, last>>
        /\ Keep(connection.state, connection.session, connection.pings)
    BY <1>2, <1>4 DEF Refused
  <2>3. GoesOn(InfoSize)
    BY <1>1, <2>1, <2>2, ReadAndKept
  <2>4. QED BY <1>1, <2>2, <2>3 DEF Handled
<1>5. QED BY <1>3, <1>4

\* A message of a type that no handler takes: the header is read, of more than a header
\* the host may keep the rest.
LEMMA MistypedHandled ==
  ASSUME TypeOK, NEW type \in Types, HandleMistyped(type)
  PROVE  Handled
<1> DEFINE error == IF (type \in Plaintext) = (connection.state = "handshake")
                    THEN "SGS_INV_MSG_TYPE" ELSE "SGS_INV_MSG_ENCTYPE"
<1>1. Handles(type) /\ Refused(InfoSize, error, connection.session) /\ Mistyped(type)
  BY DEF HandleMistyped
<1>2. /\ connection.session \in {"none", "lobby", "game"}
      /\ connection.session # "none" => connection.state = "secure"
  BY DEF TypeOK, ConnectionOK
<1>3. type # "PING"
  BY <1>1, <1>2 DEF Mistyped
<1>4. error \in {"SGS_INV_MSG_TYPE", "SGS_INV_MSG_ENCTYPE"}
  OBVIOUS
<1> HIDE DEF error
<1>5. error \in Keeps => type \in Leaves
  BY <1>3, <1>4 DEF Leaves
<1>6. InfoSize \in 0 .. Asks(type) /\ InfoSize <= MessageSize(type)
  BY AsksOf DEF InfoSize
<1>7. error \in Keeps => Whole(type, InfoSize)
  BY <1>5, <1>6 DEF Whole, InfoSize
<1>8. QED BY <1>1, <1>2, <1>6, <1>7, RefusedEnds

\* Whatever arrives and in whatever pieces, sgs_handle_message ends a connection
\* or reads bytes that had come, and of a message all or a part that may be left.
LEMMA HandlerDoes ==
  ASSUME TypeOK, HandleMessage
  PROVE  Open /\ Handled
<1>1. /\ connection.session \in {"none", "lobby", "game"}
      /\ connection.session # "none" => connection.state = "secure"
      /\ {"PING", "PUBKEY", "CREATE", "LOGIN", "RESUME", "LOGOUT", "GAME"} \subseteq Types
      /\ TRUE \in BOOLEAN /\ FALSE \in BOOLEAN
  BY DEF TypeOK, ConnectionOK, Types
<1>2. ASSUME NEW type \in Types, type = "CREATE" \/ ReadsBody(type)
      PROVE  /\ Whole(type, Asks(type)) /\ Asks(type) \in 0 .. Asks(type)
  BY <1>2, AsksOf DEF Whole, Leaves, InfoSize
<1>3. Open
  BY DEF HandleMessage, HandleShort, HandleMisread, HandleHandshake, HandleResume,
         HandleGameMessage, HandleMistyped, HandlePing, HandleLogin,
         HandleCreateAccount, HandleLogout, Handles, Readable
<1>4. ASSUME NEW type \in Types, Handles(type), ReadsBody(type),
             NEW session \in {"none", "lobby", "game"},
             Accepted(type, "secure", session, FALSE)
      PROVE  Handled
  <2>1. Whole(type, Asks(type))
    BY <1>2, <1>4
  <2>2. QED BY <1>1, <1>4, <2>1, AcceptedEnds
<1>5. CASE HandleHandshake
  <2>1. Handles("PUBKEY") /\ ReadsBody("PUBKEY")
        /\ Accepted("PUBKEY", "secure", connection.session, FALSE)
    BY <1>5 DEF HandleHandshake, ReadsBody
  <2>2. QED BY <1>1, <1>3, <1>4, <2>1
<1>6. CASE HandleResume
  <2>1. Handles("RESUME") /\ ReadsBody("RESUME") /\ "RESUME" \in Types
    BY <1>1, <1>6 DEF HandleResume, ReadsBody, Anonymous
  <2>2. ASSUME NEW type \in Types, Handles(type), ReadsBody(type),
               Refused(Asks(type), "SGS_INV_RTOKEN", "none")
        PROVE  Handled
    <3>1. Whole(type, Asks(type)) /\ Asks(type) \in 0 .. Asks(type)
      BY <1>2, <2>2
    <3>2. QED BY <1>1, <2>2, <3>1, RefusedEnds
  <2>3. QED BY <1>3, <1>6, <1>4, <2>1, <2>2 DEF HandleResume
<1>7. CASE HandleGameMessage
  <2>1. Handles("GAME") /\ ReadsBody("GAME") /\ Accepted("GAME", "secure", "game", FALSE)
    BY <1>1, <1>7 DEF HandleGameMessage, ReadsBody
  <2>2. QED BY <1>1, <1>3, <1>4, <2>1
<1>8. ASSUME NEW short \in BOOLEAN, NEW type \in {"LOGIN", "CREATE"},
             Anonymous, Handles(type),
             \/ \E error \in {"SGS_NO_ROOM_SS", "SGS_SESSION_IN_PROGRESS"} :
                  Refused(Asks(type), error, "none")
             \/ Refused(Asks(type), "SGS_NO_ROOM_MM", "lobby")
             \/ Accepted(type, "secure", "game", FALSE)
             \/ Joins(type, short)
      PROVE  Handled
  <2>1. /\ type \in Types /\ connection.state = "secure"
        /\ type = "CREATE" \/ ReadsBody(type)
    BY <1>1, <1>8 DEF Anonymous, ReadsBody
  <2>2. Whole(type, Asks(type)) /\ Asks(type) \in 0 .. Asks(type)
    BY <1>2, <2>1
  <2>3. CASE \/ \E error \in {"SGS_NO_ROOM_SS", "SGS_SESSION_IN_PROGRESS"} :
                  Refused(Asks(type), error, "none")
             \/ Refused(Asks(type), "SGS_NO_ROOM_MM", "lobby")
    BY <1>8, <2>1, <2>2, <2>3, RefusedEnds
  <2>4. CASE Accepted(type, "secure", "game", FALSE) \/ Joins(type, short)
    BY <1>1, <1>8, <2>1, <2>2, <2>4, AcceptedEnds DEF Joins
  <2>5. QED BY <1>8, <2>3, <2>4
<1>9. ASSUME NEW short \in BOOLEAN, HandleLogin(short) \/ HandleCreateAccount(short)
      PROVE  Handled
  <2>1. CASE HandleLogin(short)
    BY <1>8, <2>1 DEF HandleLogin
  <2>2. CASE HandleCreateAccount(short)
    BY <1>8, <2>2 DEF HandleCreateAccount
  <2>3. QED BY <1>9, <2>1, <2>2
<1>10. ASSUME NEW short \in BOOLEAN, HandleLogout(short) PROVE Handled
  <2>1. "LOGOUT" \in Types /\ Handles("LOGOUT") /\ connection.session # "none"
    BY <1>1, <1>10 DEF HandleLogout
  <2>2. CASE connection.session = "game"
    <3>1. Refused(Asks("LOGOUT"), "SGS_GAME_IN_PROGRESS", "game")
      BY <1>10, <2>2 DEF HandleLogout
    <3>2. "SGS_GAME_IN_PROGRESS" \in Keeps => Whole("LOGOUT", Asks("LOGOUT"))
      BY <2>1, AsksOf DEF Whole, Leaves, InfoSize
    <3>3. Asks("LOGOUT") \in 0 .. Asks("LOGOUT")
      BY <2>1, AsksOf
    <3>4. QED BY <1>1, <2>1, <3>1, <3>2, <3>3, RefusedEnds
  <2>3. CASE connection.session # "game"
    <3>1. Ends /\ last' = Taken("LOGOUT")
      BY <1>10, <2>3 DEF HandleLogout, Sends, Ends, TypeOK
    <3>2. QED BY <2>1, <3>1 DEF Handled, Handles
  <2>4. QED BY <2>2, <2>3
<1>11. QED
  BY <1>3, <1>5, <1>6, <1>7, <1>9, <1>10, ShortHandled, MisreadHandled, PingHandled,
     MistypedHandled
  DEF HandleMessage

\* In short: it ends a connection or reads bytes that had come.
LEMMA HandlerEnds ==
  ASSUME TypeOK, HandleMessage
  PROVE  /\ Open /\ last' \in Types \cup {None, Garbage}
         /\ Ends \/ \E n \in 0 .. arrived : GoesOn(n)
<1>1. /\ Open /\ Handled /\ last \in Types \cup {None, Garbage} /\ arrived \in Nat
  BY HandlerDoes DEF TypeOK, StreamOK
<1>2. \A type \in Types : Taken(type) \in Types \cup {None, Garbage}
  BY DEF Taken
<1>3. CASE \E type \in Types :
             /\ last' \in {last, Taken(type)}
             /\ Ends \/ \E n \in 0 .. arrived : GoesOn(n)
  BY <1>1, <1>2, <1>3
<1>4. CASE (Ends \/ GoesOn(arrived) \/ GoesOn(InfoSize)) /\ last' = last
  BY <1>1, <1>4 DEF GoesOn
<1>5. QED BY <1>1, <1>3, <1>4 DEF Handled

-----------------------------------------------------------------------------

\* What is read leaves the rest of the stream.
LEMMA ReadsStream ==
  ASSUME StreamOK, NEW n \in 0 .. arrived, Reads(n)
  PROVE  StreamOK'
<1>1. Len(stream) \in Nat /\ arrived \in Nat /\ n <= Len(stream) /\ arrived <= Len(stream)
  BY DEF StreamOK
<1>2. \A i \in n + 1 .. Len(stream) : stream[i] \in Byte
  BY <1>1 DEF StreamOK
<1>3. /\ SubSeq(stream, n + 1, Len(stream)) \in Seq(Byte)
      /\ Len(SubSeq(stream, n + 1, Len(stream))) =
           IF n + 1 <= Len(stream) THEN Len(stream) - (n + 1) + 1 ELSE 0
  BY <1>1, <1>2, SubSeqProperties
<1>4. QED BY <1>1, <1>3 DEF Reads, StreamOK

\* A closed connection has no session and nothing to read.
LEMMA ClosedOK == CloseConnection => ConnectionOK' /\ StreamOK' /\ peer' = FALSE /\ ~Open'
<1>1. SUFFICES ASSUME CloseConnection
              PROVE  ConnectionOK' /\ StreamOK' /\ peer' = FALSE /\ ~Open'
  OBVIOUS
<1>2. connection' = [state |-> "closed", session |-> "none", pings |-> 0]
  BY <1>1 DEF CloseConnection, Closed, Connection
<1>3. ConnectionOK' /\ ~Open'
  BY <1>2, WireAssumption DEF ConnectionOK, Open
<1>4. stream' = <<>> /\ arrived' = 0 /\ peer' = FALSE
  BY <1>1 DEF CloseConnection
<1>5. StreamOK'
  BY <1>4 DEF StreamOK
<1>6. QED BY <1>3, <1>4, <1>5

\* What is sent is appended, and what is lost had not arrived.
LEMMA BytesAreSent == \A type \in Types : Bytes(type) \in Seq(Byte)
<1>1. SUFFICES ASSUME NEW type \in Types PROVE Bytes(type) \in Seq(Byte)
  OBVIOUS
<1>2. MessageSize(type) \in Nat
  BY DEF MessageSize, Length, InfoSize, EncdataSize, Types
<1>3. \A k \in 1 .. MessageSize(type) : [type |-> type, at |-> k] \in Byte
  BY <1>2 DEF Byte
<1>4. QED BY <1>2, <1>3 DEF Bytes

\* A message the peer sends is put whole behind the bytes it sent before.
LEMMA SendStream ==
  ASSUME StreamOK, NEW type \in Types, Send(type)
  PROVE  StreamOK'
<1>1. stream' = stream \o Bytes(type) /\ arrived' = arrived
  BY DEF Send
<1>2. Bytes(type) \in Seq(Byte)
  BY BytesAreSent
<1>3. stream' \in Seq(Byte) /\ Len(stream') = Len(stream) + Len(Bytes(type))
  BY <1>1, <1>2, ConcatProperties DEF StreamOK
<1>4. Len(Bytes(type)) \in Nat
  BY <1>2
<1>5. QED BY <1>1, <1>3, <1>4 DEF StreamOK

\* A peer that stops takes back only bytes that have not come.
LEMMA LossStream ==
  ASSUME StreamOK, PeerStops
  PROVE  StreamOK'
<1>1. PICK n \in arrived .. Len(stream) : stream' = SubSeq(stream, 1, n)
  BY DEF PeerStops
<1>2. arrived' = arrived /\ Len(stream) \in Nat /\ n \in Nat /\ n <= Len(stream)
  BY DEF PeerStops, StreamOK
<1>3. \A i \in 1 .. n : stream[i] \in Byte
  BY <1>2 DEF StreamOK
<1>4. stream' \in Seq(Byte) /\ Len(stream') = IF 1 <= n THEN n - 1 + 1 ELSE 0
  BY <1>1, <1>2, <1>3, SubSeqProperties
<1>5. QED BY <1>2, <1>4 DEF StreamOK

\* A new entry is in range.
LEMMA InitTyped == Init => TypeOK
<1>1. Init => ConnectionOK
  BY WireAssumption DEF Init, ConnectionOK, Closed, Connection
<1>2. Init => StreamOK
  BY DEF Init, StreamOK
<1>3. QED BY <1>1, <1>2 DEF Init, TypeOK

\* Every step keeps it there, though messages come in pieces and handlers give up
\* in their middle.
LEMMA TypeStep == TypeOK /\ [Next]_vars => TypeOK'
<1>1. SUFFICES ASSUME TypeOK, [Next]_vars PROVE TypeOK'
  OBVIOUS
<1>2. CASE OpenConnection
  <2>1. connection' = [state |-> "handshake", session |-> "none", pings |-> 0]
    BY <1>2 DEF OpenConnection, Connection
  <2>2. ConnectionOK'
    BY <2>1, WireAssumption DEF ConnectionOK
  <2>3. QED BY <1>1, <1>2, <2>2 DEF OpenConnection, TypeOK, StreamOK
<1>3. CASE CreateGame
  <2>1. /\ connection' = [state |-> connection.state, session |-> "game",
                          pings |-> connection.pings]
        /\ connection.state = "secure"
    BY <1>1, <1>3 DEF CreateGame, Keep, Connection, TypeOK, ConnectionOK
  <2>2. ConnectionOK'
    BY <1>1, <2>1 DEF TypeOK, ConnectionOK
  <2>3. QED
    BY <1>1, <1>3, <2>2 DEF CreateGame, Keep, TypeOK, StreamOK
<1>4. CASE HostClose
  BY <1>1, <1>4, ClosedOK DEF HostClose, TypeOK
<1>5. CASE PeerStops
  BY <1>1, <1>5, LossStream DEF PeerStops, TypeOK, ConnectionOK
<1>6. CASE Deliver
  BY <1>1, <1>6 DEF Deliver, TypeOK, ConnectionOK, StreamOK
<1>7. CASE HandleMessage
  <2>1. /\ Ends \/ \E n \in 0 .. arrived : GoesOn(n)
        /\ last' \in Types \cup {None, Garbage}
    BY <1>1, <1>7, HandlerEnds
  <2>2. CASE Ends
    BY <1>1, <2>1, <2>2, ClosedOK DEF Ends, TypeOK
  <2>3. CASE \E n \in 0 .. arrived : GoesOn(n)
    <3>1. PICK n \in 0 .. arrived : GoesOn(n)
      BY <2>3
    <3>2. StreamOK'
      BY <1>1, <3>1, ReadsStream DEF GoesOn, TypeOK
    <3>3. QED BY <1>1, <2>1, <3>1, <3>2 DEF GoesOn, TypeOK, ConnectionOK
  <2>4. QED BY <2>1, <2>2, <2>3
<1>8. ASSUME NEW type \in Types, Send(type) PROVE TypeOK'
  BY <1>1, <1>8, SendStream DEF Send, TypeOK, ConnectionOK
<1>9. ASSUME NEW short \in BOOLEAN, PingAll(short) PROVE TypeOK'
  <2>1. torn' \in BOOLEAN /\ last' = last
    BY <1>1, <1>9 DEF PingAll, Sends, TypeOK
  <2>2. CASE PingEnds(short)
    BY <1>1, <1>9, <2>1, <2>2, ClosedOK DEF PingAll, TypeOK
  <2>3. CASE ~PingEnds(short)
    <3>1. /\ connection' = [state |-> connection.state, session |-> connection.session,
                            pings |-> Pings]
          /\ UNCHANGED <<stream, arrived, peer>>
      BY <1>9, <2>3 DEF PingAll, Keep, Connection
    <3>2. ConnectionOK'
      BY <1>1, <3>1, PingsCounted DEF TypeOK, ConnectionOK
    <3>3. QED BY <1>1, <2>1, <3>1, <3>2 DEF TypeOK, StreamOK
  <2>4. QED BY <2>2, <2>3
<1>10. CASE UNCHANGED vars
  BY <1>1, <1>10 DEF vars, TypeOK, ConnectionOK, StreamOK
<1>11. QED
  BY <1>1, <1>2, <1>3, <1>4, <1>5, <1>6, <1>7, <1>8, <1>9, <1>10 DEF Next

\* The entry of a descriptor and the bytes on it stay in range, though messages
\* come in pieces and handlers give up in their middle.
THEOREM TypeCorrect == Spec => []TypeOK
BY InitTyped, TypeStep, PTL DEF Spec

\* Nothing is sent after a message of which send took only a part: whichever
\* handler or ping sent it, the connection is closed in the same call.
THEOREM TornAlwaysLast == Spec => []TornIsLast
<1>1. Init => TornIsLast
  BY DEF Init, TornIsLast
<1>2. TypeOK /\ TornIsLast /\ [Next]_vars => TornIsLast'
  <2>1. SUFFICES ASSUME TypeOK, TornIsLast, [Next]_vars PROVE TornIsLast'
    OBVIOUS
  <2>2. CASE OpenConnection
    BY <2>2 DEF OpenConnection, TornIsLast
  <2>3. CASE CreateGame
    <3>1. Open /\ torn' = torn
      BY <2>1, <2>3 DEF CreateGame, Open, TypeOK, ConnectionOK
    <3>2. QED BY <2>1, <3>1 DEF TornIsLast, TypeOK
  <2>4. CASE HostClose
    BY <2>4, ClosedOK DEF HostClose, TornIsLast
  <2>5. CASE PeerStops \/ Deliver
    BY <2>1, <2>5 DEF PeerStops, Deliver, TornIsLast, Open
  <2>6. CASE HandleMessage
    <3>1. Open /\ (Ends \/ \E n \in 0 .. arrived : GoesOn(n))
      BY <2>1, <2>6, HandlerEnds
    <3>2. CASE Ends
      BY <3>2, ClosedOK DEF Ends, TornIsLast
    <3>3. CASE \E n \in 0 .. arrived : GoesOn(n)
      BY <2>1, <3>1, <3>3 DEF GoesOn, TornIsLast
    <3>4. QED BY <3>1, <3>2, <3>3
  <2>7. ASSUME NEW type \in Types, Send(type) PROVE TornIsLast'
    BY <2>1, <2>7 DEF Send, TornIsLast, Open
  <2>8. ASSUME NEW short \in BOOLEAN, PingAll(short) PROVE TornIsLast'
    <3>1. CASE PingEnds(short)
      BY <2>8, <3>1, ClosedOK DEF PingAll, TornIsLast
    <3>2. CASE ~PingEnds(short)
      BY <2>1, <2>8, <3>2 DEF PingAll, PingEnds, Sends, TornIsLast, TypeOK
    <3>3. QED BY <3>1, <3>2
  <2>9. CASE UNCHANGED vars
    BY <2>1, <2>9 DEF vars, TornIsLast, Open
  <2>10. QED
    BY <2>1, <2>2, <2>3, <2>4, <2>5, <2>6, <2>7, <2>8, <2>9 DEF Next
<1>3. QED BY <1>1, <1>2, TypeCorrect, PTL DEF Spec

-----------------------------------------------------------------------------
(* The messages on a stream.                                               *)

\* b tells which messages have begun up to each byte of s.
Tells(b, s) ==
  /\ b[0] = <<>>
  /\ \A i \in 1 .. Len(s) :
       b[i] = IF s[i].at = 1 THEN Append(b[i - 1], s[i].type) ELSE b[i - 1]

\* A byte is the k-th of a message, and no byte is past the end of its own.
LEMMA BytePlace ==
  ASSUME NEW byte \in Byte
  PROVE  /\ byte.type \in Types /\ byte.at \in 1 .. MessageSize(byte.type)
         /\ MessageSize(byte.type) \in Nat /\ MessageSize(byte.type) >= InfoSize
         /\ byte = [type |-> byte.type, at |-> byte.at]
BY DEF Byte, MessageSize, Length, InfoSize, EncdataSize, Types

\* What such a function tells are the messages begun, up to each byte.
LEMMA TellsBegun ==
  ASSUME NEW s \in Seq(Byte), NEW b, Tells(b, s)
  PROVE  Begun(s) = b[Len(s)] /\ \A i \in 0 .. Len(s) : b[i] \in Seq(Types)
<1> DEFINE n == Len(s)
           Turn(q, i) == IF s[i].at = 1 THEN Append(q, s[i].type) ELSE q
           Course(f) == f = [i \in 0 .. n |-> IF i = 0 THEN <<>> ELSE Turn(f[i - 1], i)]
           run == CHOOSE f : Course(f)
           same == [i \in 0 .. n |-> {b[i]}]
           typed == [i \in 0 .. n |-> Seq(Types)]
<1>1. n \in Nat /\ \A i \in 1 .. n : s[i].type \in Types
  BY BytePlace
<1>2. Begun(s) = run[n]
  BY DEF Begun
<1> HIDE DEF n
<1>3. b[0] = <<>> /\ \A i \in 1 .. n : b[i] = Turn(b[i - 1], i)
  BY DEF Tells, n
<1>4. \A i \in 0 .. n : b[i] \in typed[i]
  <2>1. \A i \in 1 .. n : b[i - 1] \in typed[i - 1] => b[i] \in typed[i]
    <3>1. SUFFICES ASSUME NEW i \in 1 .. n, b[i - 1] \in typed[i - 1]
                   PROVE  b[i] \in typed[i]
      OBVIOUS
    <3>2. i - 1 \in 0 .. n /\ i \in 0 .. n
      BY <1>1
    <3>3. b[i - 1] \in Seq(Types)
      BY <3>1, <3>2
    <3>4. Append(b[i - 1], s[i].type) \in Seq(Types)
      BY <1>1, <3>3, AppendProperties
    <3>5. QED BY <1>3, <3>2, <3>3, <3>4
  <2>2. b[0] \in typed[0]
    BY <1>1, <1>3
  <2> HIDE DEF typed
  <2>3. QED BY <1>1, <2>1, <2>2, LoopRange
<1>5. Course([i \in 0 .. n |-> b[i]])
  <2> DEFINE h == [i \in 0 .. n |-> b[i]]
             g == [i \in 0 .. n |-> IF i = 0 THEN <<>> ELSE Turn(h[i - 1], i)]
  <2>1. ASSUME NEW i \in 0 .. n PROVE h[i] = g[i]
    <3>1. CASE i = 0
      BY <1>3, <3>1
    <3>2. CASE i # 0
      <4>1. i \in 1 .. n /\ i - 1 \in 0 .. n
        BY <1>1, <3>2
      <4>2. h[i - 1] = b[i - 1] /\ h[i] = b[i]
        BY <4>1
      <4> HIDE DEF h, Turn
      <4>3. QED BY <1>3, <3>2, <4>1, <4>2
    <3>3. QED BY <3>1, <3>2
  <2>2. h = g
    BY <2>1
  <2>3. QED BY <2>2
<1>6. Course(run)
  BY <1>5
<1> HIDE DEF run
<1>7. \A i \in 0 .. n : run[i] \in same[i]
  <2>1. \A i \in 1 .. n : run[i - 1] \in same[i - 1] => run[i] \in same[i]
    <3>1. SUFFICES ASSUME NEW i \in 1 .. n, run[i - 1] \in same[i - 1]
                   PROVE  run[i] \in same[i]
      OBVIOUS
    <3>2. i - 1 \in 0 .. n /\ i \in 0 .. n /\ i # 0
      BY <1>1
    <3>3. run[i] = Turn(run[i - 1], i)
      BY <1>6, <3>2
    <3>4. run[i - 1] = b[i - 1]
      BY <3>1, <3>2
    <3>5. QED BY <1>3, <3>2, <3>3, <3>4
  <2>2. run[0] \in same[0]
    <3>1. 0 \in 0 .. n
      BY <1>1
    <3>2. run[0] = <<>>
      BY <1>6, <3>1
    <3>3. QED BY <1>3, <3>1, <3>2
  <2> HIDE DEF same
  <2>3. QED BY <1>1, <2>1, <2>2, LoopRange
<1>8. n \in 0 .. n
  BY <1>1
<1>9. run[n] = b[n]
  BY <1>7, <1>8
<1>10. \A i \in 0 .. n : b[i] \in Seq(Types)
  BY <1>4
<1>11. QED BY <1>2, <1>9, <1>10 DEF n

\* There is one for every stream.
LEMMA SomeTells ==
  ASSUME NEW s \in Seq(Byte)
  PROVE  \E b : Tells(b, s)
<1> DEFINE n == Len(s)
           Turn(q, i) == IF s[i].at = 1 THEN Append(q, s[i].type) ELSE q
           typed == [i \in 0 .. n |-> Seq(Types)]
           step == [i \in 1 .. n |-> [q \in Seq(Types) |-> Turn(q, i)]]
<1>1. n \in Nat /\ \A i \in 1 .. n : s[i].type \in Types
  BY BytePlace
<1>2. ASSUME NEW i \in 1 .. n, NEW q \in typed[i - 1]
      PROVE  /\ i \in 0 .. n /\ q \in Seq(Types)
             /\ step[i][q] = Turn(q, i) /\ step[i][q] \in typed[i]
  <2>1. i - 1 \in 0 .. n /\ i \in 0 .. n
    BY <1>1
  <2>2. q \in Seq(Types)
    BY <2>1
  <2>3. Append(q, s[i].type) \in Seq(Types)
    BY <1>1, <2>2, AppendProperties
  <2>4. QED BY <2>1, <2>2, <2>3
<1>3. <<>> \in typed[0]
  BY <1>1
<1> HIDE DEF n, typed, step
<1>4. PICK b : IsCourse(b, n, <<>>, step) /\ \A i \in 0 .. n : b[i] \in typed[i]
  BY <1>1, <1>2, <1>3, LoopExists
<1>5. b[0] = <<>>
  BY <1>4 DEF IsCourse
<1>6. ASSUME NEW i \in 1 .. n PROVE b[i] = Turn(b[i - 1], i)
  <2>1. i - 1 \in 0 .. n
    BY <1>1
  <2>2. b[i - 1] \in typed[i - 1] /\ b[i] = step[i][b[i - 1]]
    BY <1>4, <2>1 DEF IsCourse
  <2>3. QED BY <1>2, <2>2
<1>7. QED BY <1>5, <1>6 DEF Tells, n

\* What has begun up to a byte stays at the front of what begins later.
LEMMA BegunGrows ==
  ASSUME NEW s \in Seq(Byte), NEW b, Tells(b, s),
         NEW k \in 0 .. Len(s), NEW i \in k .. Len(s)
  PROVE  Len(b[k]) <= Len(b[i]) /\ SubSeq(b[i], 1, Len(b[k])) = b[k]
<1> DEFINE n == Len(s)
           q == b[k]
           From(p) == Len(q) <= Len(p) /\ SubSeq(p, 1, Len(q)) = q
           grown == [j \in 0 .. n - k |-> {p \in Seq(Types) : From(p)}]
           f == [j \in 0 .. n - k |-> b[k + j]]
<1>1. n \in Nat /\ k \in Nat /\ n - k \in Nat /\ \A j \in 1 .. n : s[j].type \in Types
  BY BytePlace
<1>2. \A j \in 0 .. n : b[j] \in Seq(Types)
  BY TellsBegun
<1>3. \A j \in 1 .. n :
        b[j] = IF s[j].at = 1 THEN Append(b[j - 1], s[j].type) ELSE b[j - 1]
  BY DEF Tells
<1>4. k \in 0 .. n /\ i - k \in 0 .. n - k /\ k + (i - k) = i
  OBVIOUS
<1> HIDE DEF n
<1>5. q \in Seq(Types) /\ Len(q) \in Nat
  BY <1>2, <1>4
<1>6. From(q)
  BY <1>5, SubSeqFull
<1> HIDE DEF q
<1>7. ASSUME NEW p \in Seq(Types), From(p), NEW e \in Types PROVE From(Append(p, e))
  <2> DEFINE m == Len(q)
  <2>1. Append(p, e) \in Seq(Types) /\ Len(Append(p, e)) = Len(p) + 1 /\ Len(p) \in Nat
        /\ \A j \in 1 .. Len(p) : Append(p, e)[j] = p[j]
    BY AppendProperties
  <2>2. m \in Nat /\ m <= Len(p)
    BY <1>5, <1>7
  <2> HIDE DEF m
  <2>3. \A j \in 1 .. m : p[j] \in Types /\ Append(p, e)[j] = p[j]
    BY <2>1, <2>2
  <2>4. /\ SubSeq(Append(p, e), 1, m) \in Seq(Types) /\ SubSeq(p, 1, m) \in Seq(Types)
        /\ Len(SubSeq(Append(p, e), 1, m)) = Len(SubSeq(p, 1, m))
        /\ \A j \in 1 .. m - 1 + 1 : SubSeq(Append(p, e), 1, m)[j] = SubSeq(p, 1, m)[j]
    BY <2>2, <2>3, SubSeqProperties
  <2>5. Len(SubSeq(p, 1, m)) = IF 1 <= m THEN m - 1 + 1 ELSE 0
    BY <2>2, <2>3, SubSeqProperties
  <2>6. SubSeq(Append(p, e), 1, m) = SubSeq(p, 1, m)
    BY <2>2, <2>4, <2>5, SeqEqual
  <2>7. QED BY <1>7, <2>1, <2>2, <2>6 DEF m
<1> HIDE DEF From
<1>8. f[0] \in grown[0]
  <2>1. 0 \in 0 .. n - k
    BY <1>1
  <2>2. f[0] = q
    BY <1>1, <2>1 DEF q
  <2>3. QED BY <1>5, <1>6, <2>1, <2>2
<1>9. \A j \in 1 .. n - k : f[j - 1] \in grown[j - 1] => f[j] \in grown[j]
  <2>1. SUFFICES ASSUME NEW j \in 1 .. n - k, f[j - 1] \in grown[j - 1]
                 PROVE  f[j] \in grown[j]
    OBVIOUS
  <2>2. /\ j - 1 \in 0 .. n - k /\ j \in 0 .. n - k /\ k + j \in 1 .. n
        /\ (k + j) - 1 = k + (j - 1)
    BY <1>1, <1>4
  <2>3. f[j - 1] = b[k + (j - 1)] /\ f[j] = b[k + j]
    BY <2>2
  <2>4. b[k + (j - 1)] \in Seq(Types) /\ From(b[k + (j - 1)])
    BY <2>1, <2>2, <2>3
  <2>5. b[k + j] = IF s[k + j].at = 1 THEN Append(b[k + (j - 1)], s[k + j].type)
                   ELSE b[k + (j - 1)]
    BY <1>3, <2>2
  <2>6. b[k + j] \in Seq(Types) /\ From(b[k + j])
    BY <1>1, <1>7, <2>2, <2>4, <2>5, AppendProperties
  <2>7. QED BY <2>2, <2>3, <2>6
<1>10. \A j \in 0 .. n - k : f[j] \in grown[j]
  <2> HIDE DEF f, grown
  <2>1. QED BY <1>1, <1>8, <1>9, LoopRange
<1>11. From(b[i])
  BY <1>4, <1>10
<1>12. QED BY <1>11 DEF From, q

\* The bytes at the front of a stream.
LEMMA FrontOf ==
  ASSUME NEW s \in Seq(Byte), NEW k \in 0 .. Len(s)
  PROVE  /\ SubSeq(s, 1, k) \in Seq(Byte) /\ Len(SubSeq(s, 1, k)) = k
         /\ \A i \in 1 .. k : SubSeq(s, 1, k)[i] = s[i]
<1>1. \A i \in 1 .. k : s[i] \in Byte
  OBVIOUS
<1>2. /\ SubSeq(s, 1, k) \in Seq(Byte)
      /\ Len(SubSeq(s, 1, k)) = IF 1 <= k THEN k - 1 + 1 ELSE 0
      /\ \A i \in 1 .. k - 1 + 1 : SubSeq(s, 1, k)[i] = s[1 + i - 1]
  BY <1>1, SubSeqProperties
<1>3. QED BY <1>2

\* The front of a stream begins the first of its messages.
LEMMA BegunOfFront ==
  ASSUME NEW s \in Seq(Byte), NEW k \in 0 .. Len(s)
  PROVE  \E m \in 0 .. Len(Begun(s)) : Begun(SubSeq(s, 1, k)) = SubSeq(Begun(s), 1, m)
<1> DEFINE r == SubSeq(s, 1, k)
<1>1. PICK b : Tells(b, s)
  BY SomeTells
<1>2. Begun(s) = b[Len(s)] /\ b[k] \in Seq(Types) /\ Begun(s) \in Seq(Types)
  BY <1>1, TellsBegun
<1>3. Len(b[k]) <= Len(Begun(s)) /\ SubSeq(Begun(s), 1, Len(b[k])) = b[k]
  BY <1>1, <1>2, BegunGrows
<1>4. r \in Seq(Byte) /\ Len(r) = k /\ \A i \in 1 .. k : r[i] = s[i]
  BY FrontOf
<1> HIDE DEF r
<1>5. Tells(b, r)
  BY <1>1, <1>4 DEF Tells
<1>6. Begun(r) = b[k]
  BY <1>4, <1>5, TellsBegun
<1>7. Len(b[k]) \in 0 .. Len(Begun(s))
  BY <1>2, <1>3
<1>8. Begun(r) = SubSeq(Begun(s), 1, Len(b[k]))
  BY <1>3, <1>6
<1>9. QED BY <1>7, <1>8 DEF r

\* Where the bytes of a message sent behind a stream are.
LEMMA SentBytes ==
  ASSUME NEW s \in Seq(Byte), NEW type \in Types
  PROVE  LET n == Len(s)
             m == MessageSize(type)
             r == s \o Bytes(type)
         IN /\ m \in Nat /\ m >= 1 /\ r \in Seq(Byte) /\ Len(r) = n + m
            /\ \A i \in 1 .. n : r[i] = s[i]
            /\ \A i \in n + 1 .. n + m : r[i] = [type |-> type, at |-> i - n]
<1> DEFINE r == s \o Bytes(type)
           n == Len(s)
           m == MessageSize(type)
<1>1. n \in Nat
  OBVIOUS
<1>2. /\ m \in Nat /\ m >= 1
      /\ Bytes(type) \in Seq(Byte) /\ Len(Bytes(type)) = m
      /\ \A k \in 1 .. m : Bytes(type)[k] = [type |-> type, at |-> k]
  <2>1. m \in Nat /\ m >= 1
    BY DEF MessageSize, Length, InfoSize, EncdataSize, Types
  <2>2. Bytes(type) = [k \in 1 .. m |-> [type |-> type, at |-> k]]
    BY DEF Bytes
  <2> HIDE DEF m
  <2>3. DOMAIN Bytes(type) = 1 .. m
    BY <2>2
  <2>4. Bytes(type) \in Seq(Byte) /\ Len(Bytes(type)) = m
    BY <2>1, <2>3, BytesAreSent, LenProperties
  <2>5. QED BY <2>1, <2>2, <2>4
<1> HIDE DEF m
<1>3. /\ r \in Seq(Byte) /\ Len(r) = n + m
      /\ \A i \in 1 .. n : r[i] = s[i]
      /\ \A i \in n + 1 .. n + m : r[i] = [type |-> type, at |-> i - n]
  <2> DEFINE u == Bytes(type)
  <2>1. u \in Seq(Byte) /\ Len(u) = m /\ r = s \o u
    BY <1>2
  <2> HIDE DEF u, r
  <2>2. /\ s \o u \in Seq(Byte) /\ Len(s \o u) = n + Len(u)
        /\ \A i \in 1 .. n + Len(u) : (s \o u)[i] = IF i <= n THEN s[i] ELSE u[i - n]
    BY <2>1, ConcatProperties
  <2> HIDE DEF n
  <2>3. /\ r \in Seq(Byte) /\ Len(r) = n + m
        /\ \A i \in 1 .. n + m : r[i] = IF i <= n THEN s[i] ELSE u[i - n]
    BY <2>1, <2>2
  <2>4. \A k \in 1 .. m : u[k] = [type |-> type, at |-> k]
    BY <1>2 DEF u
  <2>5. \A i \in 1 .. n : r[i] = s[i]
    BY <1>1, <1>2, <2>3
  <2>6. \A i \in n + 1 .. n + m : r[i] = [type |-> type, at |-> i - n]
    <3>1. SUFFICES ASSUME NEW i \in n + 1 .. n + m
                   PROVE  r[i] = [type |-> type, at |-> i - n]
      OBVIOUS
    <3>2. i \in 1 .. n + m /\ ~(i <= n) /\ i - n \in 1 .. m
      BY <1>1, <1>2
    <3>3. QED BY <2>3, <2>4, <3>2
  <2>7. QED BY <2>3, <2>5, <2>6
<1>4. QED BY <1>2, <1>3 DEF m

\* A message sent whole behind a stream is begun last.
LEMMA BegunOfSent ==
  ASSUME NEW s \in Seq(Byte), NEW type \in Types
  PROVE  Begun(s \o Bytes(type)) = Append(Begun(s), type)
<1> DEFINE r == s \o Bytes(type)
           n == Len(s)
           m == MessageSize(type)
<1>1. PICK b : Tells(b, s)
  BY SomeTells
<1>2. Begun(s) = b[n] /\ n \in Nat /\ b[n] \in Seq(Types)
  BY <1>1, TellsBegun
<1>3. m \in Nat /\ m >= 1
  BY SentBytes
<1>4. /\ r \in Seq(Byte) /\ Len(r) = n + m
      /\ \A i \in 1 .. n : r[i] = s[i]
      /\ \A i \in n + 1 .. n + m : r[i] = [type |-> type, at |-> i - n]
  BY SentBytes
<1> HIDE DEF m
<1> HIDE DEF r, n
<1> DEFINE c == [i \in 0 .. n + m |-> IF i <= n THEN b[i] ELSE Append(b[n], type)]
<1>5. Tells(c, r)
  <2>1. c[0] = <<>>
    BY <1>1, <1>2, <1>3 DEF Tells
  <2>2. ASSUME NEW i \in 1 .. n + m
        PROVE  c[i] = IF r[i].at = 1 THEN Append(c[i - 1], r[i].type) ELSE c[i - 1]
    <3>1. i \in 0 .. n + m /\ i - 1 \in 0 .. n + m
      BY <1>2, <1>3
    <3>2. CASE i <= n
      <4>1. i \in 1 .. n /\ i - 1 <= n
        BY <1>2, <3>2
      <4>2. c[i] = b[i] /\ c[i - 1] = b[i - 1] /\ r[i] = s[i]
        BY <1>4, <3>1, <3>2, <4>1
      <4>3. QED BY <1>1, <4>1, <4>2 DEF Tells, n
    <3>3. CASE i = n + 1
      <4>1. /\ c[i] = Append(b[n], type) /\ c[i - 1] = b[n]
            /\ r[i] = [type |-> type, at |-> 1]
        BY <1>2, <1>3, <1>4, <3>1, <3>3
      <4> HIDE DEF c
      <4>2. QED BY <4>1
    <3>4. CASE i > n + 1
      <4>1. i \in n + 1 .. n + m /\ ~(i <= n) /\ ~(i - 1 <= n) /\ i - n # 1
        BY <1>2, <1>3, <3>4
      <4>2. c[i] = Append(b[n], type) /\ c[i - 1] = Append(b[n], type)
            /\ r[i] = [type |-> type, at |-> i - n]
        BY <1>4, <3>1, <4>1
      <4> HIDE DEF c
      <4>3. QED BY <4>1, <4>2
    <3>5. QED BY <1>2, <3>2, <3>3, <3>4
  <2>3. QED BY <1>4, <2>1, <2>2 DEF Tells
<1>6. c[n + m] = Append(b[n], type)
  BY <1>2, <1>3
<1>7. Begun(r) = c[n + m]
  BY <1>4, <1>5, TellsBegun
<1>8. QED BY <1>2, <1>6, <1>7 DEF r, n

-----------------------------------------------------------------------------
(* Where messages end.  What makes messages of a stream is that each byte  *)
(* has its place next to the one before.                                   *)

\* A first byte is behind a last one, another behind its own predecessor.  The byte
\* in front may be any of its message.
Framed(s) ==
  \A i \in 2 .. Len(s) :
    IF s[i].at = 1 THEN s[i - 1].at = MessageSize(s[i - 1].type)
    ELSE s[i - 1] = [type |-> s[i].type, at |-> s[i].at - 1]

\* No message is cut at the end.
EndsWhole(s) == s # <<>> => s[Len(s)].at = MessageSize(s[Len(s)].type)

\* As much of the first message as there is stands at the front of its stream.
LEMMA FirstMessage ==
  ASSUME NEW s \in Seq(Byte), Framed(s), s[1].at = 1, NEW n \in Nat \ {0}, n = Len(s),
         NEW m \in Nat, m = MessageSize(s[1].type)
  PROVE  \A i \in 1 .. n : i <= m => s[i] = [type |-> s[1].type, at |-> i]
<1> DEFINE type == s[1].type
           f == [i \in 0 .. n - 1 |-> s[i + 1]]
           own == [i \in 0 .. n - 1 |->
                     {b \in Byte : i + 1 <= m => b = [type |-> type, at |-> i + 1]}]
<1>1. /\ \A i \in 1 .. n : s[i] \in Byte
      /\ n - 1 \in Nat /\ 0 \in 0 .. n - 1 /\ 1 \in 1 .. n
  OBVIOUS
<1>2. \A i \in 2 .. n :
        IF s[i].at = 1 THEN s[i - 1].at = MessageSize(s[i - 1].type)
        ELSE s[i - 1] = [type |-> s[i].type, at |-> s[i].at - 1]
  BY DEF Framed
<1>3. f[0] \in own[0]
  <2>1. s[1] = [type |-> type, at |-> 1]
    BY <1>1, BytePlace
  <2>2. QED BY <1>1, <2>1
<1>4. ASSUME NEW i \in 1 .. n - 1, f[i - 1] \in own[i - 1] PROVE f[i] \in own[i]
  <2>1. /\ i \in 0 .. n - 1 /\ i - 1 \in 0 .. n - 1 /\ i + 1 \in 2 .. n /\ i \in 1 .. n
        /\ (i - 1) + 1 = i /\ (i + 1) - 1 = i /\ i + 1 \in 1 .. n
    BY <1>1
  <2>2. f[i] = s[i + 1] /\ f[i - 1] = s[i] /\ s[i] \in Byte /\ s[i + 1] \in Byte
    BY <1>1, <2>1
  <2>3. SUFFICES ASSUME i + 1 <= m PROVE s[i + 1] = [type |-> type, at |-> i + 1]
    BY <2>1, <2>2
  <2>4. s[i] = [type |-> type, at |-> i]
    BY <1>4, <2>1, <2>2, <2>3
  <2>5. MessageSize(s[i].type) # s[i].at
    BY <2>1, <2>3, <2>4
  <2>6. s[i] = [type |-> s[i + 1].type, at |-> s[i + 1].at - 1]
    BY <1>2, <2>1, <2>5
  <2>7. s[i + 1].at \in Nat /\ s[i + 1] = [type |-> s[i + 1].type, at |-> s[i + 1].at]
    <3>1. \A byte \in Byte : byte.at \in 1 .. MessageSize(byte.type)
      BY BytePlace
    <3>2. \A byte \in Byte : byte = [type |-> byte.type, at |-> byte.at]
      BY BytePlace
    <3>3. s[i + 1].at \in 1 .. MessageSize(s[i + 1].type)
      BY <2>2, <3>1
    <3>4. s[i + 1].at \in Nat
      BY <3>3
    <3>5. QED BY <2>2, <3>2, <3>4
  <2>8. s[i + 1].type = type /\ s[i + 1].at = i + 1
    BY <2>4, <2>6, <2>7
  <2>9. QED BY <2>7, <2>8
<1>5. \A i \in 0 .. n - 1 : f[i] \in own[i]
  <2> HIDE DEF f, own
  <2>1. QED BY <1>1, <1>3, <1>4, LoopRange
<1>6. ASSUME NEW i \in 1 .. n, i <= m PROVE s[i] = [type |-> type, at |-> i]
  <2>1. i - 1 \in 0 .. n - 1 /\ (i - 1) + 1 = i
    BY <1>1
  <2>2. QED BY <1>5, <1>6, <2>1
<1>7. QED BY <1>6

\* What is left of a sequence when a part of it is taken.
LEMMA RestOf ==
  ASSUME NEW S, NEW s \in Seq(S), NEW n \in Nat, n = Len(s), NEW m \in 0 .. n
  PROVE  /\ SubSeq(s, m + 1, n) \in Seq(S) /\ Len(SubSeq(s, m + 1, n)) = n - m
         /\ \A i \in 1 .. n - m : SubSeq(s, m + 1, n)[i] = s[m + i]
<1>1. \A i \in m + 1 .. n : s[i] \in S
  OBVIOUS
<1>2. /\ SubSeq(s, m + 1, n) \in Seq(S)
      /\ Len(SubSeq(s, m + 1, n)) = IF m + 1 <= n THEN n - (m + 1) + 1 ELSE 0
      /\ \A i \in 1 .. n - (m + 1) + 1 : SubSeq(s, m + 1, n)[i] = s[m + 1 + i - 1]
  <2>1. m + 1 \in Int /\ n \in Int
    OBVIOUS
  <2>2. QED BY ONLY <1>1, <2>1, SubSeqProperties, SMTT(30)
<1>3. n - (m + 1) + 1 = n - m
  OBVIOUS
<1>4. \A i \in 1 .. n - m : m + 1 + i - 1 = m + i
  OBVIOUS
<1>5. QED BY <1>2, <1>3, <1>4

\* The rest of a stream keeps the places of its bytes.
LEMMA RestFramed ==
  ASSUME NEW s \in Seq(Byte), Framed(s), NEW m \in 0 .. Len(s)
  PROVE  LET r == SubSeq(s, m + 1, Len(s)) IN
         r \in Seq(Byte) /\ Framed(r) /\ (EndsWhole(s) => EndsWhole(r))
<1> DEFINE n == Len(s)
           r == SubSeq(s, m + 1, n)
<1>1. n \in Nat /\ m \in 0 .. n
  OBVIOUS
<1>2. r \in Seq(Byte) /\ Len(r) = n - m /\ \A i \in 1 .. n - m : r[i] = s[m + i]
  BY <1>1, RestOf
<1>3. \A i \in 2 .. n :
        IF s[i].at = 1 THEN s[i - 1].at = MessageSize(s[i - 1].type)
        ELSE s[i - 1] = [type |-> s[i].type, at |-> s[i].at - 1]
  BY DEF Framed
<1>4. EndsWhole(s) => n = 0 \/ s[n].at = MessageSize(s[n].type)
  BY DEF EndsWhole
<1> HIDE DEF n, r
<1>5. Framed(r)
  <2>1. SUFFICES ASSUME NEW i \in 2 .. n - m
                 PROVE  IF r[i].at = 1 THEN r[i - 1].at = MessageSize(r[i - 1].type)
                        ELSE r[i - 1] = [type |-> r[i].type, at |-> r[i].at - 1]
    BY <1>2 DEF Framed
  <2>2. /\ i \in 1 .. n - m /\ i - 1 \in 1 .. n - m /\ m + i \in 2 .. n
        /\ (m + i) - 1 = m + (i - 1)
    BY <1>1
  <2>3. r[i] = s[m + i] /\ r[i - 1] = s[(m + i) - 1]
    BY <1>2, <2>2
  <2>4. QED BY <1>3, <2>2, <2>3
<1>6. ASSUME EndsWhole(s), r # <<>> PROVE r[Len(r)].at = MessageSize(r[Len(r)].type)
  <2>1. n - m # 0
    BY <1>2, <1>6, EmptySeq
  <2>2. n - m \in 1 .. n - m /\ m + (n - m) = n /\ n # 0
    BY <1>1, <2>1
  <2>3. r[n - m] = s[n]
    BY <1>2, <2>2
  <2>4. QED BY <1>2, <1>4, <1>6, <2>2, <2>3
<1>7. QED BY <1>2, <1>5, <1>6 DEF EndsWhole, n, r

\* The end of a sequence grows with it.
LEMMA EndGrows ==
  ASSUME NEW S, NEW p \in Seq(S), NEW e \in S, NEW k \in 0 .. Len(p)
  PROVE  SubSeq(Append(p, e), k + 1, Len(Append(p, e)))
           = Append(SubSeq(p, k + 1, Len(p)), e)
<1> DEFINE n == Len(p)
           q == Append(p, e)
           u == SubSeq(q, k + 1, n + 1)
           v == SubSeq(p, k + 1, n)
<1>1. n \in Nat /\ k \in 0 .. n /\ k \in 0 .. n + 1
  OBVIOUS
<1>2. /\ q \in Seq(S) /\ Len(q) = n + 1 /\ q[n + 1] = e
      /\ \A i \in 1 .. n : q[i] = p[i]
  BY AppendProperties
<1>3. v \in Seq(S) /\ Len(v) = n - k /\ \A i \in 1 .. n - k : v[i] = p[k + i]
  BY <1>1, RestOf
<1> HIDE DEF n, q, v
<1>4. /\ u \in Seq(S) /\ Len(u) = n + 1 - k
      /\ \A i \in 1 .. n + 1 - k : u[i] = q[k + i]
  BY <1>1, <1>2, RestOf
<1> HIDE DEF u
<1>5. /\ Append(v, e) \in Seq(S) /\ Len(Append(v, e)) = n - k + 1
      /\ \A i \in 1 .. n - k : Append(v, e)[i] = v[i]
      /\ Append(v, e)[n - k + 1] = e
  BY <1>3, AppendProperties
<1>6. ASSUME NEW i \in 1 .. n + 1 - k PROVE u[i] = Append(v, e)[i]
  <2>1. CASE i \in 1 .. n - k
    <3>1. k + i \in 1 .. n
      BY <1>1, <2>1
    <3>2. QED BY <1>2, <1>3, <1>4, <1>5, <1>6, <2>1, <3>1
  <2>2. CASE i = n - k + 1
    <3>1. k + i = n + 1
      BY <1>1, <2>2
    <3>2. QED BY <1>2, <1>4, <1>5, <1>6, <2>2, <3>1
  <2>3. i \in 1 .. n - k \/ i = n - k + 1
    BY <1>1
  <2>4. QED BY <2>1, <2>2, <2>3
<1>7. n + 1 - k = n - k + 1
  BY <1>1
<1>8. u = Append(v, e)
  BY <1>4, <1>5, <1>6, <1>7, SeqEqual
<1>9. QED BY <1>2, <1>8 DEF u, v, n, q

\* What is begun behind a byte is what is begun less what was begun up to it.
LEMMA BegunOfEnd ==
  ASSUME NEW s \in Seq(Byte), NEW m \in 0 .. Len(s), NEW b, Tells(b, s)
  PROVE  /\ b[m] \in Seq(Types) /\ Len(b[m]) \in 0 .. Len(Begun(s))
         /\ Begun(s) \in Seq(Types) /\ SubSeq(Begun(s), 1, Len(b[m])) = b[m]
         /\ Begun(SubSeq(s, m + 1, Len(s)))
              = SubSeq(Begun(s), Len(b[m]) + 1, Len(Begun(s)))
<1> DEFINE n == Len(s)
           k == Len(b[m])
           r == SubSeq(s, m + 1, n)
           c == [i \in 0 .. n - m |-> SubSeq(b[m + i], k + 1, Len(b[m + i]))]
<1>1. n \in Nat /\ m \in 0 .. n /\ \A i \in 1 .. n : s[i].type \in Types
  BY BytePlace
<1>2. /\ Begun(s) = b[n] /\ \A i \in 0 .. n : b[i] \in Seq(Types)
      /\ \A i \in 1 .. n : b[i] = IF s[i].at = 1 THEN Append(b[i - 1], s[i].type)
                                  ELSE b[i - 1]
      /\ \A i \in m .. n : k <= Len(b[i]) /\ SubSeq(b[i], 1, k) = b[m]
  BY TellsBegun, BegunGrows DEF Tells
<1>3. r \in Seq(Byte) /\ Len(r) = n - m /\ \A i \in 1 .. n - m : r[i] = s[m + i]
  BY <1>1, RestOf
<1> HIDE DEF n, r
<1>4. k \in Nat /\ b[m] \in Seq(Types) /\ n \in m .. n /\ n \in 0 .. n
  BY <1>1, <1>2
<1>5. Tells(c, r)
  <2>1. c[0] = <<>>
    <3>1. 0 \in 0 .. n - m /\ m + 0 = m
      BY <1>1
    <3>2. c[0] = SubSeq(b[m], k + 1, k)
      BY <3>1
    <3> HIDE DEF c
    <3>3. QED BY <1>4, <3>2, SubSeqEmpty
  <2>2. ASSUME NEW i \in 1 .. n - m
        PROVE  c[i] = IF r[i].at = 1 THEN Append(c[i - 1], r[i].type) ELSE c[i - 1]
    <3>1. /\ i \in 0 .. n - m /\ i - 1 \in 0 .. n - m /\ m + i \in 1 .. n
          /\ m + (i - 1) \in m .. n /\ m + (i - 1) \in 0 .. n
          /\ (m + i) - 1 = m + (i - 1)
      <4> HIDE DEF c, k
      <4>1. QED BY <1>1
    <3>2. /\ c[i] = SubSeq(b[m + i], k + 1, Len(b[m + i]))
          /\ c[i - 1] = SubSeq(b[m + (i - 1)], k + 1, Len(b[m + (i - 1)]))
          /\ r[i] = s[m + i]
      BY <1>3, <3>1
    <3> HIDE DEF c
    <3>3. b[m + i] = IF s[m + i].at = 1 THEN Append(b[m + (i - 1)], s[m + i].type)
                     ELSE b[m + (i - 1)]
      BY <1>2, <3>1
    <3>4. b[m + (i - 1)] \in Seq(Types) /\ k <= Len(b[m + (i - 1)])
      BY <1>2, <3>1
    <3> HIDE DEF k
    <3>5. k \in 0 .. Len(b[m + (i - 1)]) /\ s[m + i].type \in Types
      BY <1>1, <1>4, <3>1, <3>4
    <3>6. SubSeq(Append(b[m + (i - 1)], s[m + i].type), k + 1,
                 Len(Append(b[m + (i - 1)], s[m + i].type)))
            = Append(SubSeq(b[m + (i - 1)], k + 1, Len(b[m + (i - 1)])), s[m + i].type)
      BY <3>4, <3>5, EndGrows
    <3>7. QED BY <3>2, <3>3, <3>6
  <2> HIDE DEF c
  <2>3. QED BY <1>3, <2>1, <2>2 DEF Tells
<1>6. Begun(r) = c[n - m]
  <2> HIDE DEF c
  <2>1. QED BY <1>3, <1>5, TellsBegun
<1>7. n - m \in 0 .. n - m /\ m + (n - m) = n
  BY <1>1
<1>8. Begun(r) = SubSeq(b[n], k + 1, Len(b[n]))
  BY <1>6, <1>7
<1>9. k \in 0 .. Len(b[n])
  BY <1>2, <1>4
<1>10. QED BY <1>2, <1>4, <1>8, <1>9 DEF n, r

\* Reading some of the first message, and no byte of the second, leaves the others to
\* be met, and if it is all of the first, their header in front.
LEMMA BegunOfRest ==
  ASSUME NEW s \in Seq(Byte), Framed(s), s # <<>>, s[1].at = 1,
         NEW m \in 1 .. Len(s), m <= MessageSize(s[1].type)
  PROVE  LET r == SubSeq(s, m + 1, Len(s)) IN
         /\ Begun(s) # <<>> /\ Head(Begun(s)) = s[1].type
         /\ Begun(r) = Tail(Begun(s))
         /\ m = MessageSize(s[1].type) => (r # <<>> => r[1].at = 1)
<1> DEFINE n == Len(s)
           type == s[1].type
           whole == MessageSize(type)
           r == SubSeq(s, m + 1, n)
<1>1. /\ n \in Nat \ {0} /\ m \in 1 .. n /\ type \in Types
      /\ whole \in Nat /\ m <= whole
      /\ \A i \in 1 .. n : s[i] \in Byte
  <2>1. n \in Nat \ {0} /\ \A i \in 1 .. n : s[i] \in Byte
    OBVIOUS
  <2>2. s[1] \in Byte
    BY <2>1
  <2>3. QED BY <2>1, <2>2, BytePlace
<1>2. \A i \in 1 .. n : i <= whole => s[i] = [type |-> type, at |-> i]
  BY <1>1, FirstMessage
<1>3. PICK b : Tells(b, s)
  BY SomeTells
<1>4. /\ b[0] = <<>>
      /\ \A i \in 1 .. n : b[i] = IF s[i].at = 1 THEN Append(b[i - 1], s[i].type)
                                  ELSE b[i - 1]
  BY <1>3 DEF Tells
<1>5. r \in Seq(Byte) /\ Len(r) = n - m /\ \A i \in 1 .. n - m : r[i] = s[m + i]
  BY <1>1, RestOf
<1>6. \A i \in 2 .. n :
        IF s[i].at = 1 THEN s[i - 1].at = MessageSize(s[i - 1].type)
        ELSE s[i - 1] = [type |-> s[i].type, at |-> s[i].at - 1]
  BY DEF Framed
<1>7. /\ Len(b[m]) \in 0 .. Len(Begun(s)) /\ Begun(s) \in Seq(Types)
      /\ SubSeq(Begun(s), 1, Len(b[m])) = b[m]
      /\ Begun(r) = SubSeq(Begun(s), Len(b[m]) + 1, Len(Begun(s)))
  <2>1. m \in 0 .. Len(s)
    BY <1>1
  <2>2. QED BY <1>3, <2>1, BegunOfEnd
<1> HIDE DEF n, r, whole
<1>8. b[m] = <<type>>
  <2> DEFINE one == [i \in 0 .. m |-> IF i = 0 THEN {<<>>} ELSE {<<type>>}]
  <2>1. b[0] \in one[0]
    BY <1>1, <1>4
  <2>2. ASSUME NEW i \in 1 .. m, b[i - 1] \in one[i - 1] PROVE b[i] \in one[i]
    <3>1. i \in 1 .. n /\ i <= whole /\ i \in 0 .. m /\ i - 1 \in 0 .. m /\ i # 0
      BY <1>1
    <3>2. s[i] = [type |-> type, at |-> i]
      BY <1>2, <3>1
    <3>3. CASE i = 1
      <4>1. b[i - 1] = <<>>
        BY <1>4, <3>3
      <4>2. s[i].at = 1 /\ s[i].type = type
        BY <3>2, <3>3
      <4>3. b[i] = Append(b[i - 1], s[i].type)
        BY <1>4, <3>1, <4>2
      <4>4. b[i] = Append(<<>>, type)
        BY <4>1, <4>2, <4>3
      <4>5. QED BY <3>1, <4>4
    <3>4. CASE i # 1
      <4>1. b[i] = b[i - 1] /\ i - 1 # 0
        BY <1>4, <3>1, <3>2, <3>4
      <4>2. QED BY <2>2, <3>1, <4>1
    <3>5. QED BY <3>3, <3>4
  <2>3. \A i \in 0 .. m : b[i] \in one[i]
    <3> HIDE DEF one
    <3>1. m \in Nat
      BY <1>1
    <3>2. QED BY <2>1, <2>2, <3>1, LoopRange
  <2>4. m \in 0 .. m /\ m # 0
    BY <1>1
  <2>5. QED BY <2>3, <2>4
<1>9. /\ Begun(s) # <<>> /\ SubSeq(Begun(s), 1, 1) = <<type>>
      /\ Begun(r) = SubSeq(Begun(s), 2, Len(Begun(s)))
  <2>1. Len(b[m]) = 1
    BY <1>8
  <2>2. QED BY <1>7, <1>8, <2>1
<1>10. Begun(r) = Tail(Begun(s))
  BY <1>7, <1>9, TailIsSubSeq
<1>11. Head(Begun(s)) = type
  <2>1. Len(Begun(s)) \in Nat /\ Len(Begun(s)) >= 1
    BY <1>7, <1>8
  <2>2. Head(SubSeq(Begun(s), 1, 1)) = Begun(s)[1]
    BY <1>7, <2>1, HeadTailOfSubSeq
  <2>3. Head(<<type>>) = type
    OBVIOUS
  <2> HIDE DEF type
  <2>4. Head(Begun(s)) = Begun(s)[1]
    BY <1>7, <1>9
  <2>5. QED BY <1>9, <2>2, <2>3, <2>4
<1>12. ASSUME m = whole, r # <<>> PROVE r[1].at = 1
  <2>1. n - m # 0
    BY <1>5, <1>12, EmptySeq
  <2>2. /\ 1 \in 1 .. n - m /\ m + 1 \in 2 .. n /\ m + 1 \in 1 .. n /\ (m + 1) - 1 = m
        /\ m \in 1 .. n
    BY <1>1, <2>1
  <2>3. r[1] = s[m + 1] /\ s[m] = [type |-> type, at |-> m]
    BY <1>1, <1>2, <1>5, <2>2
  <2>4. SUFFICES ASSUME s[m + 1].at # 1 PROVE FALSE
    BY <2>3
  <2>5. s[m] = [type |-> s[m + 1].type, at |-> s[m + 1].at - 1]
    BY <1>6, <2>2, <2>4
  <2>6. s[m + 1] \in Byte
    BY <1>1, <2>2
  <2>7. s[m + 1].at \in 1 .. MessageSize(s[m + 1].type)
    BY <2>6, BytePlace
  <2>8. s[m + 1].type = type /\ s[m + 1].at - 1 = m
    BY <2>3, <2>5
  <2>9. QED BY <1>1, <1>12, <2>7, <2>8 DEF whole
<1>13. QED BY <1>9, <1>10, <1>11, <1>12 DEF n, r, whole

-----------------------------------------------------------------------------
(* The messages of a connection, each met in its turn.                     *)

\* The bytes that are unread follow each other as they were sent, but that a peer
\* which is gone may have cut the last message.
MessageInv == /\ TypeOK /\ Framed(stream)
              /\ peer => EndsWhole(stream)
              /\ ~Open => stream = <<>>

\* In step: the connection closes or bytes of the first message are read, all or
\* as many as may be, and it is accepted or not; or none is read.
MeetsFirst ==
  \/ /\ Open /\ CloseConnection
     /\ last' = last \/ (stream # <<>> /\ last' = stream[1].type)
  \/ /\ Open /\ Open' /\ UNCHANGED peer
     /\ \E n \in 0 .. Len(stream) :
          /\ stream' = SubSeq(stream, n + 1, Len(stream))
          /\ \/ n = 0 /\ last' = last
             \/ n > 0 /\ Whole(stream[1].type, n) /\ last' \in {last, stream[1].type}

\* Out of step: the same of what is taken for a message.
MissesFirst ==
  /\ Open /\ last' \in {last, Garbage}
  /\ \/ CloseConnection
     \/ /\ Open' /\ UNCHANGED peer
        /\ \E n \in 0 .. Len(stream) : stream' = SubSeq(stream, n + 1, Len(stream))

\* A header is that of a message exactly when its first byte is one's first.
LEMMA HeaderInStep ==
  ASSUME MessageInv, HasHeader
  PROVE  stream # <<>> /\ stream[1] = Head(stream) /\ (InStep <=> IsHeader)
<1> DEFINE n == Len(stream)
           m == MessageSize(stream[1].type)
<1>1. n \in Nat \ {0} /\ n >= 2 /\ stream \in Seq(Byte) /\ Framed(stream)
  <2>1. stream \in Seq(Byte) /\ Framed(stream) /\ arrived \in 0 .. n /\ n \in Nat
    BY DEF MessageInv, TypeOK, StreamOK
  <2>2. arrived >= 2
    BY DEF HasHeader, InfoSize
  <2> HIDE DEF n
  <2>3. QED BY <2>1, <2>2
<1>2. stream # <<>> /\ stream[1] = Head(stream)
  BY <1>1
<1>3. IsHeader => InStep
  <2>1. 1 \in 1 .. InfoSize
    BY DEF InfoSize
  <2>2. QED BY <2>1 DEF IsHeader, InStep
<1>4. ASSUME InStep PROVE IsHeader
  <2>1. stream[1] \in Byte
    BY <1>1
  <2>2. m \in Nat /\ m >= 2
    BY <2>1, BytePlace DEF InfoSize
  <2>3. stream[1].at = 1
    BY <1>2, <1>4 DEF InStep
  <2>4. \A i \in 1 .. n : i <= m => stream[i] = [type |-> stream[1].type, at |-> i]
    BY <1>1, <2>2, <2>3, FirstMessage
  <2> HIDE DEF n, m
  <2>5. SUFFICES ASSUME NEW k \in 1 .. InfoSize PROVE stream[k].at = k
    BY DEF IsHeader
  <2>6. k \in 1 .. n /\ k <= m
    BY <1>1, <2>2 DEF InfoSize
  <2>7. stream[k] = [type |-> stream[1].type, at |-> k]
    BY <2>4, <2>6
  <2>8. QED BY <2>7
<1>5. QED BY <1>2, <1>3, <1>4

\* Reading n bytes and keeping the connection, without the details of the entry.
LEMMA KeepsOpen ==
  ASSUME MessageInv, Open, NEW n \in 0 .. arrived, GoesOn(n)
  PROVE  /\ n \in 0 .. Len(stream) /\ Open' /\ UNCHANGED peer
         /\ stream' = SubSeq(stream, n + 1, Len(stream))
BY DEF MessageInv, TypeOK, StreamOK, ConnectionOK, GoesOn, Reads, Open

\* Whatever arrives and in whatever pieces, sgs_handle_message meets the first
\* message or, out of step, what it takes for one.
LEMMA HandlerMeets ==
  ASSUME MessageInv, HandleMessage
  PROVE  IF InStep THEN MeetsFirst ELSE MissesFirst
<1>1. Open /\ Handled /\ stream \in Seq(Byte) /\ arrived \in 0 .. Len(stream)
  BY HandlerDoes DEF MessageInv, TypeOK, StreamOK
<1>2. CASE Ends /\ last' = last
  BY <1>1, <1>2 DEF Ends, MeetsFirst, MissesFirst
<1>3. CASE \E type \in Types :
             /\ HasHeader /\ Says(type) /\ last' \in {last, Taken(type)}
             /\ Ends \/ \E n \in 0 .. arrived : GoesOn(n) /\ Whole(type, n)
  <2>1. PICK type \in Types :
          /\ HasHeader /\ Says(type) /\ last' \in {last, Taken(type)}
          /\ Ends \/ \E n \in 0 .. arrived : GoesOn(n) /\ Whole(type, n)
    BY <1>3
  <2>2. stream # <<>> /\ stream[1] = Head(stream) /\ (InStep <=> IsHeader)
    BY <2>1, HeaderInStep
  <2>3. CASE InStep
    <3>1. type = stream[1].type /\ last' \in {last, type}
      BY <2>1, <2>2, <2>3 DEF Says, Taken
    <3>2. CASE Ends
      BY <1>1, <2>2, <2>3, <3>1, <3>2 DEF Ends, MeetsFirst
    <3>3. CASE \E n \in 0 .. arrived : GoesOn(n) /\ Whole(type, n)
      <4>1. PICK n \in 0 .. arrived : GoesOn(n) /\ Whole(type, n)
        BY <3>3
      <4>2. n > 0
        BY <4>1 DEF Whole
      <4>3. QED BY <1>1, <2>3, <3>1, <4>1, <4>2, KeepsOpen DEF MeetsFirst
    <3>4. QED BY <2>1, <3>2, <3>3
  <2>4. CASE ~InStep
    <3>1. last' \in {last, Garbage}
      BY <2>1, <2>2, <2>4 DEF Taken
    <3>2. CASE Ends
      BY <1>1, <2>4, <3>1, <3>2 DEF Ends, MissesFirst
    <3>3. CASE \E n \in 0 .. arrived : GoesOn(n) /\ Whole(type, n)
      BY <1>1, <2>4, <3>1, <3>3, KeepsOpen DEF MissesFirst
    <3>4. QED BY <2>1, <3>2, <3>3
  <2>5. QED BY <2>3, <2>4
<1>4. CASE ~HasHeader /\ Leaves = Types /\ GoesOn(arrived) /\ last' = last
  <2>1. /\ arrived \in 0 .. arrived /\ arrived \in {0, 1}
    BY <1>1, <1>4 DEF HasHeader, InfoSize
  <2>2. /\ Open' /\ UNCHANGED peer
        /\ stream' = SubSeq(stream, arrived + 1, Len(stream))
    BY <1>1, <1>4, <2>1, KeepsOpen
  <2>3. CASE ~InStep
    BY <1>1, <1>4, <2>2, <2>3 DEF MissesFirst
  <2>4. CASE InStep /\ arrived = 0
    BY <1>1, <1>4, <2>2, <2>4 DEF MeetsFirst
  <2>5. CASE InStep /\ arrived = 1
    <3>1. stream[1] \in Byte
      BY <1>1, <2>5
    <3>2. Whole(stream[1].type, 1)
      BY <1>4, <3>1, BytePlace DEF Whole, InfoSize
    <3>3. QED BY <1>1, <1>4, <2>2, <2>5, <3>2 DEF MeetsFirst
  <2>6. QED BY <2>1, <2>3, <2>4, <2>5
<1>5. CASE HasHeader /\ ~IsHeader /\ GoesOn(InfoSize) /\ last' = last
  <2>1. ~InStep
    BY <1>5, HeaderInStep
  <2>2. InfoSize \in 0 .. arrived
    BY <1>5 DEF GoesOn
  <2>3. QED BY <1>1, <1>5, <2>1, <2>2, KeepsOpen DEF MissesFirst
<1>6. QED BY <1>1, <1>2, <1>3, <1>4, <1>5 DEF Handled

\* A whole message sent behind bytes of which the last ends one.
LEMMA SentFramed ==
  ASSUME NEW s \in Seq(Byte), Framed(s), EndsWhole(s), NEW type \in Types
  PROVE  LET r == s \o Bytes(type) IN
         /\ Framed(r) /\ EndsWhole(r)
         /\ r # <<>> /\ r[1] = IF s = <<>> THEN [type |-> type, at |-> 1] ELSE s[1]
<1> DEFINE r == s \o Bytes(type)
           n == Len(s)
           m == MessageSize(type)
<1>1. n \in Nat /\ m \in Nat /\ m >= 1
  BY DEF MessageSize, Length, InfoSize, EncdataSize, Types
<1>2. /\ r \in Seq(Byte)
      /\ Len(r) = n + m /\ \A i \in 1 .. n : r[i] = s[i]
      /\ \A i \in n + 1 .. n + m : r[i] = [type |-> type, at |-> i - n]
  BY SentBytes
<1>3. n > 0 => s[n].at = MessageSize(s[n].type)
  BY <1>1, EmptySeq DEF EndsWhole
<1>4. \A i \in 2 .. n :
        IF s[i].at = 1 THEN s[i - 1].at = MessageSize(s[i - 1].type)
        ELSE s[i - 1] = [type |-> s[i].type, at |-> s[i].at - 1]
  BY DEF Framed
<1>5. n = 0 <=> s = <<>>
  BY EmptySeq
<1> HIDE DEF r, n, m
<1>6. ASSUME NEW i \in 2 .. n + m
      PROVE  IF r[i].at = 1 THEN r[i - 1].at = MessageSize(r[i - 1].type)
             ELSE r[i - 1] = [type |-> r[i].type, at |-> r[i].at - 1]
  <2>1. CASE i <= n
    <3>1. i \in 2 .. n /\ i \in 1 .. n /\ i - 1 \in 1 .. n
      BY <1>1, <2>1
    <3>2. r[i] = s[i] /\ r[i - 1] = s[i - 1]
      BY <1>2, <3>1
    <3>3. QED BY <1>4, <3>1, <3>2
  <2>2. CASE i = n + 1
    <3>1. i \in n + 1 .. n + m /\ i - n = 1 /\ i - 1 = n /\ n > 0 /\ n \in 1 .. n
      BY <1>1, <2>2
    <3>2. r[i].at = 1
      <4>1. r[i] = [type |-> type, at |-> i - n]
        BY <1>2, <3>1
      <4>2. QED BY <3>1, <4>1
    <3>3. r[i - 1] = s[n]
      BY <1>2, <3>1
    <3>4. QED BY <1>3, <3>1, <3>2, <3>3
  <2>3. CASE i > n + 1
    <3>1. /\ i \in n + 1 .. n + m /\ i - 1 \in n + 1 .. n + m /\ i - n # 1
          /\ (i - 1) - n = (i - n) - 1
      BY <1>1, <2>3
    <3>2. /\ r[i] = [type |-> type, at |-> i - n]
          /\ r[i - 1] = [type |-> type, at |-> (i - n) - 1]
      BY <1>2, <3>1
    <3>3. QED BY <3>1, <3>2
  <2>4. QED BY <1>1, <2>1, <2>2, <2>3
<1>7. Framed(r)
  BY <1>2, <1>6 DEF Framed
<1>8. EndsWhole(r)
  <2>1. n + m \in n + 1 .. n + m /\ (n + m) - n = m
    BY <1>1
  <2>2. r[n + m] = [type |-> type, at |-> m]
    BY <1>2, <2>1
  <2>3. QED BY <1>2, <2>2 DEF EndsWhole, m
<1>9. r # <<>>
  <2>1. Len(r) # 0
    BY <1>1, <1>2
  <2>2. QED BY <2>1
<1>10. r[1] = IF s = <<>> THEN [type |-> type, at |-> 1] ELSE s[1]
  <2>1. CASE n = 0
    <3>1. 1 \in n + 1 .. n + m /\ 1 - n = 1
      BY <1>1, <2>1
    <3>2. QED BY <1>2, <1>5, <2>1, <3>1
  <2>2. CASE n # 0
    <3>1. 1 \in 1 .. n
      BY <1>1, <2>2
    <3>2. QED BY <1>2, <1>5, <2>2, <3>1
  <2>3. QED BY <2>1, <2>2
<1>11. QED BY <1>7, <1>8, <1>9, <1>10 DEF r

\* A stream that is cut keeps the places of its bytes.
LEMMA FrontFramed ==
  ASSUME NEW s \in Seq(Byte), Framed(s), NEW k \in 0 .. Len(s)
  PROVE  LET r == SubSeq(s, 1, k) IN
         Framed(r) /\ (r = <<>> \/ (s # <<>> /\ r[1] = s[1]))
<1> DEFINE r == SubSeq(s, 1, k)
           n == Len(s)
<1>1. n \in Nat /\ k \in 0 .. n
  OBVIOUS
<1>2. r \in Seq(Byte) /\ Len(r) = k /\ \A i \in 1 .. k : r[i] = s[i]
  BY FrontOf
<1>3. \A i \in 2 .. n :
        IF s[i].at = 1 THEN s[i - 1].at = MessageSize(s[i - 1].type)
        ELSE s[i - 1] = [type |-> s[i].type, at |-> s[i].at - 1]
  BY DEF Framed
<1>4. s = <<>> => n = 0
  OBVIOUS
<1> HIDE DEF r, n
<1>5. ASSUME NEW i \in 2 .. k
      PROVE  IF r[i].at = 1 THEN r[i - 1].at = MessageSize(r[i - 1].type)
             ELSE r[i - 1] = [type |-> r[i].type, at |-> r[i].at - 1]
  <2>1. i \in 2 .. n /\ i \in 1 .. k /\ i - 1 \in 1 .. k
    BY <1>1
  <2>2. r[i] = s[i] /\ r[i - 1] = s[i - 1]
    BY <1>2, <2>1
  <2>3. QED BY <1>3, <2>1, <2>2
<1>6. Framed(r)
  BY <1>2, <1>5 DEF Framed
<1>7. CASE k = 0
  BY <1>2, <1>6, <1>7, EmptySeq DEF r
<1>8. CASE k # 0
  <2>1. 1 \in 1 .. k /\ n # 0
    BY <1>1, <1>8
  <2>2. QED BY <1>2, <1>4, <1>6, <2>1 DEF r
<1>9. QED BY <1>7, <1>8

\* A stream without bytes.
LEMMA NoBytes ==
  Framed(<<>>) /\ EndsWhole(<<>>) /\ Begun(<<>>) = <<>> /\ <<>> \in Seq(Byte)
<1>1. <<>> \in Seq(Byte) /\ Len(<<>>) = 0
  OBVIOUS
<1>2. PICK b : Tells(b, <<>>)
  BY <1>1, SomeTells
<1>3. Begun(<<>>) = b[Len(<<>>)]
  BY <1>1, <1>2, TellsBegun
<1>4. QED BY <1>1, <1>2, <1>3 DEF Framed, EndsWhole, Tells

\* What is kept of the bytes.
Frame == /\ Framed(stream) /\ (peer => EndsWhole(stream))
         /\ (~Open => stream = <<>>)

\* A connection that closes leaves nothing.
LEMMA ClosesChannel ==
  ASSUME CloseConnection
  PROVE  Frame' /\ ~Open' /\ Pending' = <<>> /\ InStep'
<1>1. stream' = <<>> /\ peer' = FALSE /\ ~Open'
  BY ClosedOK DEF CloseConnection
<1>2. Pending' = <<>>
  BY <1>1, NoBytes DEF Pending
<1>3. QED BY <1>1, <1>2, NoBytes DEF Frame, InStep

\* The rest of the stream.
LEMMA RestFrame ==
  ASSUME MessageInv, Open, Open', UNCHANGED peer, NEW n \in 0 .. Len(stream),
         stream' = SubSeq(stream, n + 1, Len(stream))
  PROVE  Frame'
<1>1. stream \in Seq(Byte) /\ Framed(stream) /\ (peer => EndsWhole(stream))
  BY DEF MessageInv, TypeOK, StreamOK
<1>2. Framed(stream') /\ (EndsWhole(stream) => EndsWhole(stream'))
  BY <1>1, RestFramed
<1>3. QED BY <1>1, <1>2 DEF Frame

\* What meeting a message does to the stream, and to the messages pending.
LEMMA MeetsChannel ==
  ASSUME MessageInv, InStep, MeetsFirst
  PROVE  Frame' /\ [Ch!Next]_Ch!vars
<1>1. stream \in Seq(Byte) /\ Framed(stream)
  BY DEF MessageInv, TypeOK, StreamOK
<1>2. ASSUME stream # <<>>, NEW n \in 1 .. Len(stream), n <= MessageSize(stream[1].type)
      PROVE  /\ Pending # <<>> /\ Head(Pending) = stream[1].type
             /\ Begun(SubSeq(stream, n + 1, Len(stream))) = Tail(Pending)
             /\ n = MessageSize(stream[1].type) =>
                  (SubSeq(stream, n + 1, Len(stream)) # <<>> =>
                     SubSeq(stream, n + 1, Len(stream))[1].at = 1)
  <2>1. stream[1].at = 1
    BY <1>2 DEF InStep
  <2>2. QED BY <1>1, <1>2, <2>1, BegunOfRest DEF Pending
<1>3. CASE /\ Open /\ CloseConnection
           /\ last' = last \/ (stream # <<>> /\ last' = stream[1].type)
  <2>1. Frame' /\ ~Open' /\ Pending' = <<>> /\ InStep'
    BY <1>3, ClosesChannel
  <2>2. CASE last' = last
    <3>1. Ch!Close
      BY <1>3, <2>1, <2>2 DEF Ch!Close, Ch!Closes, Open, InStep
    <3>2. QED BY <2>1, <3>1 DEF Ch!Next
  <2>3. CASE stream # <<>> /\ last' = stream[1].type
    <3>1. 1 \in 1 .. Len(stream) /\ 1 <= MessageSize(stream[1].type)
      <4>1. stream[1] \in Byte /\ 1 \in 1 .. Len(stream)
        BY <1>1, <2>3
      <4>2. QED BY <4>1, BytePlace DEF InfoSize
    <3>2. Pending # <<>> /\ Head(Pending) = stream[1].type
      BY <1>2, <2>3, <3>1
    <3>3. Ch!Accept
      BY <2>1, <2>3, <3>2 DEF Ch!Accept, Ch!Closes, Open, InStep
    <3>4. QED BY <2>1, <3>3 DEF Ch!Next
  <2>4. QED BY <1>3, <2>2, <2>3
<1>4. ASSUME Open, Open', UNCHANGED peer, NEW n \in 0 .. Len(stream),
             stream' = SubSeq(stream, n + 1, Len(stream)),
             \/ n = 0 /\ last' = last
             \/ n > 0 /\ Whole(stream[1].type, n) /\ last' \in {last, stream[1].type}
      PROVE  Frame' /\ [Ch!Next]_Ch!vars
  <2>1. Frame'
    BY <1>4, RestFrame
  <2>2. CASE n = 0 /\ last' = last
    <3>1. stream' = stream
      BY <1>1, <1>4, <2>2, SubSeqFull
    <3>2. UNCHANGED <<Open, Pending, InStep, last>>
      BY <1>4, <2>2, <3>1 DEF Pending, InStep
    <3>3. QED BY <2>1, <3>2 DEF Ch!vars
  <2>3. CASE n > 0 /\ Whole(stream[1].type, n) /\ last' \in {last, stream[1].type}
    <3>1. n \in 1 .. Len(stream) /\ stream # <<>> /\ n <= MessageSize(stream[1].type)
      BY <2>3 DEF Whole
    <3>2. /\ Pending # <<>> /\ Head(Pending) = stream[1].type /\ Pending' = Tail(Pending)
          /\ n = MessageSize(stream[1].type) => InStep'
      BY <1>2, <1>4, <3>1 DEF Pending, InStep
    <3>3. n = MessageSize(stream[1].type) \/ stream[1].type \in Leaves
      BY <2>3 DEF Whole
    <3>4. Ch!Meets
      <4>1. InStep' = TRUE \/ (Head(Pending) \in Leaves /\ InStep' = FALSE)
        BY <3>2, <3>3 DEF InStep
      <4>2. Open' = Open
        BY <1>4 DEF Open
      <4>3. QED BY <3>2, <4>1, <4>2 DEF Ch!Meets
    <3>5. Ch!Accept \/ Ch!Refuse
      BY <2>3, <3>2, <3>4 DEF Ch!Accept, Ch!Refuse
    <3>6. QED BY <2>1, <3>5 DEF Ch!Next
  <2>4. QED BY <1>4, <2>2, <2>3
<1>5. QED BY <1>3, <1>4 DEF MeetsFirst

\* What taking something else for a message does to them.
LEMMA MissesChannel ==
  ASSUME MessageInv, ~InStep, MissesFirst
  PROVE  Frame' /\ [Ch!Next]_Ch!vars
<1>1. stream \in Seq(Byte) /\ Open /\ last' \in {last, Garbage}
  BY DEF MessageInv, TypeOK, StreamOK, MissesFirst
<1>2. CASE CloseConnection
  <2>1. Frame' /\ ~Open' /\ Pending' = <<>> /\ InStep'
    BY <1>2, ClosesChannel
  <2>2. Ch!Misread
    BY <1>1, <2>1 DEF Ch!Misread, Ch!Closes, Open, InStep
  <2>3. QED BY <2>1, <2>2 DEF Ch!Next
<1>3. ASSUME Open', UNCHANGED peer, NEW n \in 0 .. Len(stream),
             stream' = SubSeq(stream, n + 1, Len(stream))
      PROVE  Frame' /\ [Ch!Next]_Ch!vars
  <2>1. Frame'
    BY <1>1, <1>3, RestFrame
  <2>2. PICK b : Tells(b, stream)
    BY <1>1, SomeTells
  <2>3. \E k \in 0 .. Len(Pending) : Pending' = SubSeq(Pending, k + 1, Len(Pending))
    BY <1>1, <1>3, <2>2, BegunOfEnd DEF Pending
  <2>4. Open' = Open /\ InStep' \in BOOLEAN
    BY <1>1, <1>3 DEF Open, InStep
  <2>5. Ch!Misread
    BY <1>1, <2>3, <2>4 DEF Ch!Misread
  <2>6. QED BY <2>1, <2>5 DEF Ch!Next
<1>4. QED BY <1>2, <1>3 DEF MissesFirst

\* A descriptor without a connection.
LEMMA MessageInit == Init => MessageInv /\ Ch!Init
<1> SUFFICES ASSUME Init PROVE MessageInv /\ Ch!Init
  OBVIOUS
<1>1. TypeOK
  BY InitTyped
<1>2. stream = <<>> /\ peer = FALSE /\ last = None /\ ~Open
  BY DEF Init, Open, Closed, Connection
<1>3. Pending = <<>> /\ InStep
  BY <1>2, NoBytes DEF Pending, InStep
<1>4. Ch!Init
  BY <1>2, <1>3 DEF Ch!Init, Open, InStep
<1>5. QED BY <1>1, <1>2, <1>4, NoBytes DEF MessageInv

\* Every step keeps the bytes in their places, and is a step of the channel or none.
LEMMA MessageStep == MessageInv /\ [Next]_vars => MessageInv' /\ [Ch!Next]_Ch!vars
<1> SUFFICES ASSUME MessageInv, [Next]_vars
             PROVE  MessageInv' /\ [Ch!Next]_Ch!vars
  OBVIOUS
<1>1. TypeOK /\ TypeOK' /\ stream \in Seq(Byte) /\ arrived \in 0 .. Len(stream)
  BY TypeStep DEF MessageInv, TypeOK, StreamOK
<1>2. Frame
  BY DEF MessageInv, Frame
<1>3. SUFFICES Frame' /\ [Ch!Next]_Ch!vars
  BY <1>1 DEF MessageInv, Frame
<1>4. CASE OpenConnection
  <2>1. ~Open /\ Open' /\ UNCHANGED <<stream, last>> /\ stream = <<>>
    BY <1>2, <1>4 DEF OpenConnection, Open, Connection, Frame
  <2>2. Frame'
    BY <2>1, NoBytes DEF Frame
  <2>3. Ch!Connect
    BY <2>1 DEF Ch!Connect, Open, Pending, InStep
  <2>4. QED BY <2>2, <2>3 DEF Ch!Next
<1>5. ASSUME Open' = Open, UNCHANGED <<stream, peer, last>>
      PROVE  Frame' /\ [Ch!Next]_Ch!vars
  BY <1>2, <1>5 DEF Frame, Ch!vars, Pending, InStep
<1>6. CASE CreateGame
  BY <1>5, <1>6 DEF CreateGame, Keep, Connection, Open
<1>7. ASSUME Open, CloseConnection, last' = last PROVE Frame' /\ [Ch!Next]_Ch!vars
  <2>1. Frame' /\ ~Open' /\ Pending' = <<>> /\ InStep'
    BY <1>7, ClosesChannel
  <2>2. Ch!Close
    BY <1>7, <2>1 DEF Ch!Close, Ch!Closes, Open, InStep
  <2>3. QED BY <2>1, <2>2 DEF Ch!Next
<1>8. CASE HostClose
  BY <1>7, <1>8 DEF HostClose
<1>9. CASE PeerStops
  <2>1. PICK k \in arrived .. Len(stream) : stream' = SubSeq(stream, 1, k)
    BY <1>9 DEF PeerStops
  <2>2. k \in 0 .. Len(stream)
    BY <1>1, <2>1
  <2>3. Open /\ Open' = Open /\ peer' = FALSE /\ last' = last
    BY <1>9 DEF PeerStops, Open
  <2>4. Framed(stream') /\ (stream' = <<>> \/ (stream # <<>> /\ stream'[1] = stream[1]))
    BY <1>1, <1>2, <2>1, <2>2, FrontFramed DEF Frame
  <2>5. PICK m \in 0 .. Len(Pending) : Pending' = SubSeq(Pending, 1, m)
    BY <1>1, <2>1, <2>2, BegunOfFront DEF Pending
  <2>6. InStep' \in {InStep, TRUE}
    BY <2>4 DEF InStep
  <2>7. Ch!Lose
    BY <2>3, <2>5, <2>6 DEF Ch!Lose
  <2>8. QED BY <2>3, <2>4, <2>7 DEF Ch!Next, Frame
<1>10. CASE Deliver \/ UNCHANGED vars
  BY <1>5, <1>10 DEF Deliver, vars, Open
<1>11. CASE HandleMessage
  BY <1>11, HandlerMeets, MeetsChannel, MissesChannel
<1>12. ASSUME NEW type \in Types, Send(type) PROVE Frame' /\ [Ch!Next]_Ch!vars
  <2>1. Open /\ Open' = Open /\ peer /\ stream' = stream \o Bytes(type) /\ last' = last
    BY <1>12 DEF Send, Open
  <2>2. /\ Framed(stream') /\ EndsWhole(stream') /\ stream' # <<>>
        /\ stream'[1] = IF stream = <<>> THEN [type |-> type, at |-> 1] ELSE stream[1]
    BY <1>1, <1>2, <2>1, SentFramed DEF Frame
  <2>3. Pending' = Append(Pending, type)
    BY <1>1, <2>1, BegunOfSent DEF Pending
  <2>4. InStep' = InStep
    <3>1. CASE stream = <<>>
      BY <2>2, <3>1 DEF InStep
    <3>2. CASE stream # <<>>
      BY <2>2, <3>2 DEF InStep
    <3>3. QED BY <3>1, <3>2
  <2>5. Ch!Send(type)
    BY <2>1, <2>3, <2>4 DEF Ch!Send
  <2>6. QED BY <2>1, <2>2, <2>5 DEF Ch!Next, Frame
<1>13. ASSUME NEW short \in BOOLEAN, PingAll(short) PROVE Frame' /\ [Ch!Next]_Ch!vars
  <2>1. CASE PingEnds(short)
    BY <1>7, <1>13, <2>1 DEF PingAll
  <2>2. CASE ~PingEnds(short)
    BY <1>5, <1>13, <2>2 DEF PingAll, Keep, Connection, Open
  <2>3. QED BY <2>1, <2>2
<1>14. QED BY <1>4, <1>6, <1>8, <1>9, <1>10, <1>11, <1>12, <1>13 DEF Next

\* A connection meets the messages of its client in order, once each, and whole but
\* for those of which the code leaves a part, however their bytes arrive and whatever
\* the host forgives; what it takes behind such a part is none of them.
THEOREM RefinesChannel == Spec => MessagesInTurn
BY MessageInit, MessageStep, PTL DEF Spec, MessagesInTurn, Ch!Spec
=============================================================================
