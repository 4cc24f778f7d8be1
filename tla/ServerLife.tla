----------------------------- MODULE ServerLife -----------------------------
(***************************************************************************)
(* The process around the account file: sgs_new, sgs_listen and            *)
(* sgs_destroy with each of their exits, crashes, and the accounts that    *)
(* games save when they end.  Server has the sessions and the connections  *)
(* of the same games; here a player is one client's place in a game and is *)
(* sent its data, is lost to a failed send, or is away.                    *)
(*                                                                         *)
(* sgs_new calls sgs_adb_new with its last two arguments exchanged: the    *)
(* descriptor mapped is the one whose number is the count of accounts, and *)
(* the size of the database is what malloc left in sgs->adb_fd.  So the    *)
(* size is any, and what mmap answers for a bad one is followed as a       *)
(* pointer, since it is compared with 0 and not with MAP_FAILED.           *)
(***************************************************************************)
EXTENDS AccountDb, PoolMemory

CONSTANTS Clients,
          Data,         \* player data
          DbSizes,      \* bound: the accounts of a database that is mapped
          MaxPlayers,   \* SGS_GAME_MAX_PLAYERS
          Sizes,        \* players and games that sgs_new is asked for
          MaxRelistens  \* bound: calls of sgs_listen on a server that has listened

ASSUME LifeAssumption == /\ DbSizes \subseteq Nat \ {0} /\ DbSizes # {}
                         /\ Sizes \subseteq Nat /\ MaxPlayers \in Nat \ {0}
                         /\ MaxRelistens \in Nat /\ Blank \notin Data

VARIABLES phase,      \* of the process: no server, up, has listened, or a fault
          held,       \* descriptors and memory the process has of the system
          lost,       \* how many descriptors of a kind are open that no field names
          relistens,  \* how often the process listened on a server that had
          carved,     \* the pools that the last call laid out
          adb,        \* the database, and while no server is up what its file holds
          game,       \* the game being played, or NoGame
          tokens      \* what each client was last sent to log in with

descriptors == <<held, lost, relistens>>

vars == <<phase, descriptors, carved, adb, game, tokens>>

\* The accounts there may be.
Ids == UNION {0 .. size - 1 : size \in DbSizes}

NoGame  == [state |-> "none", players |-> <<>>]

\* data: Outdated if the account may have other data by now, because the client's
\* own was saved again, or could not be saved, or because another's was.
Token(account, data) == [account |-> account, data |-> data]

Outdated == "outdated"
NoToken  == Token(None, Outdated)

\* open: the session is not marked as closed.  saved: the account's data is this
\* player's since the game was closed first.
Player(client, account, data, open, saved) ==
  [client |-> client, account_id |-> account, data |-> data, open |-> open,
   saved |-> saved]

Pool(layout, bytes, size, unit) ==
  [layout |-> layout, bytes |-> bytes, size |-> size, unit |-> unit]

\* A pool's arrays are where its memory is.
Fits(pool) == LaidOut(pool.layout, pool.bytes)

\* What sgs_listen opens.
Sockets == {"server_fd", "epoll_fd"}

Init == /\ phase = "none" /\ held = {} /\ carved = {} /\ game = NoGame
        /\ lost = [fd \in Sockets |-> 0] /\ relistens = 0
        /\ adb = AdbNew(0, <<>>, FALSE)
        /\ tokens = [c \in Clients |-> NoToken]

-----------------------------------------------------------------------------
(* Starting and stopping.                                                  *)

\* The sizes a build has that defines none of its own.
PlayerDataSize == 256
GameDataSize   == 1024
GameMaxPlayers == 4

SizeofAccount == 16 + 32
SizeofSession == 7 * SizeofInt + 12 + PlayerDataSize + 16
\* A message of a game has the size of the game's data.
SizeofGame    == (2 + GameMaxPlayers) * SizeofInt
                   + (GameMaxPlayers + 1) * GameDataSize

SessionPool(size) ==
  Pool(FbaaLayout(size, SizeofSession), FbaaMemSize(size, SizeofSession),
       size, 2 * SizeofInt + SizeofSession)

RingPool(size, block_size) ==
  Pool(RingFbaaLayout(size, block_size), RingFbaaMemSize(size, block_size), size,
       4 * SizeofInt + SizeofRingFbaaNode + SizeofPointer + block_size)

\* The calls of sgs_new and of sgs_listen that may fail, or "done".  A failed
\* mmap is no exit.
NewExits    == {"open", "malloc", "sgs_ss_new", "sgs_gs_new", "done"}
ListenExits == {"socket", "setsockopt", "bind", "epoll_create", "epoll_ctl", "done"}

\* What has been taken when the exit is reached.
NewTakes(exit) ==
  CASE exit = "open"       -> {}
    [] exit = "malloc"     -> {"adb_fd"}
    [] exit = "sgs_ss_new" -> {"adb_fd", "sgs", "mapping"}
    [] exit = "sgs_gs_new" -> {"adb_fd", "sgs", "mapping", "sessions"}
    [] exit = "done"       -> {"adb_fd", "sgs", "mapping", "sessions", "games"}

ListenTakes(exit) ==
  CASE exit = "socket"                                -> {}
    [] exit \in {"setsockopt", "bind", "epoll_create"} -> {"server_fd"}
    [] exit \in {"epoll_ctl", "done"}                  -> Sockets

\* The fields that have been set anew, whatever they held.
ListenSets(exit) ==
  IF exit \in {"socket", "setsockopt", "bind"} THEN {"server_fd"} ELSE Sockets

-----------------------------------------------------------------------------
(* Wrong variants of the exits, for the mutation checks.                   *)

\* The epoll descriptor stays open.
ListenGivesBackSocket(exit) ==
  CASE exit \in {"socket", "done"}                                 -> {}
    [] exit \in {"setsockopt", "bind", "epoll_create", "epoll_ctl"} -> {"server_fd"}
-----------------------------------------------------------------------------

\* What the exit gives back.
NewGivesBack(exit) ==
  CASE exit \in {"open", "done"} -> {}
    [] exit = "malloc"           -> {"adb_fd"}
    [] exit = "sgs_ss_new"       -> {"adb_fd", "mapping", "sgs"}
    [] exit = "sgs_gs_new"       -> {"adb_fd", "mapping", "sessions", "sgs"}

ListenGivesBack(exit) ==
  CASE exit \in {"socket", "done"}                    -> {}
    [] exit \in {"setsockopt", "bind", "epoll_create"} -> {"server_fd"}
    [] exit = "epoll_ctl"                              -> Sockets

\* malloc takes the size as an unsigned number: a negative one is out of reach.
Reaches(exit, size) ==
  /\ exit \in {"sgs_gs_new", "done"} => SessionPool(size).bytes >= 0
  /\ exit = "done" => RingPool(size, SizeofGame).bytes >= 0

Carved(exit, accounts, size) ==
  (IF exit \in {"open", "malloc"} THEN {} ELSE {RingPool(accounts, SizeofAccount)})
    \cup (IF exit \in {"sgs_gs_new", "done"} THEN {SessionPool(size)} ELSE {})
    \cup (IF exit = "done" THEN {RingPool(size, SizeofGame)} ELSE {})

\* sgs_new, with as many players as games.  sized: the descriptor and the size
\* that sgs_adb_new is given are ones that a database can be mapped with.
New(size, accounts, exit, sized, kept) ==
  LET pools  == Carved(exit, accounts, size)
      mapped == exit \notin {"open", "malloc"}
  IN /\ Reaches(exit, size)
     /\ carved' = IF sized THEN pools ELSE {}
     /\ IF mapped /\ (~sized \/ \E pool \in pools : ~Fits(pool))
        THEN phase' = "fault" /\ held' = NewTakes(exit) /\ UNCHANGED <<adb, tokens>>
        ELSE /\ phase' = IF exit = "done" THEN "up" ELSE "none"
             /\ held' = NewTakes(exit) \ NewGivesBack(exit)
             /\ adb' = IF mapped THEN AdbNew(accounts, adb.accounts, kept) ELSE adb
             /\ tokens' = IF ~mapped \/ adb'.accounts = adb.accounts THEN tokens
                          ELSE [c \in Clients |-> Token(tokens[c].account, Outdated)]
     /\ UNCHANGED <<lost, relistens, game>>

\* Host: a process without a server starts one.
Start ==
  /\ phase = "none"
  /\ \E size \in Sizes, accounts \in DbSizes, exit \in NewExits, sized, kept \in BOOLEAN :
       New(size, accounts, exit, sized, kept)

\* sgs_listen, which does not ask whether the server listens: what the fields named
\* is not closed.  What listen answers is not looked at.
Listen(exit) ==
  /\ phase \in {"up", "listening"}
  /\ phase = "listening" => relistens < MaxRelistens
  /\ held' = (held \ ListenSets(exit)) \cup (ListenTakes(exit) \ ListenGivesBack(exit))
  /\ lost' = [fd \in Sockets |->
                lost[fd] + (IF fd \in held \cap ListenSets(exit) THEN 1 ELSE 0)]
  /\ relistens' = relistens + (IF phase = "listening" THEN 1 ELSE 0)
  /\ phase' = IF exit = "done" THEN "listening" ELSE phase
  /\ carved' = {}
  /\ UNCHANGED <<adb, game, tokens>>

\* What is read again of the file: the allocator in it is not.
Stored(db) == Adb(<<>>, <<>>, db.accounts)

\* sgs_destroy also closes the two descriptors when they were not opened, or are
\* closed already.
Destroy ==
  /\ phase \in {"up", "listening"}
  /\ phase' = "none" /\ carved' = {} /\ game' = NoGame
  /\ held' = held \ {"adb_fd", "server_fd", "epoll_fd", "mapping", "sessions",
                     "games", "sgs"}
  /\ adb' = Stored(adb)
  /\ UNCHANGED <<lost, relistens, tokens>>

\* The process ends at any moment.  The mapping is shared, so its pages are
\* the file's, and the system takes back the rest.
Crash ==
  /\ phase # "none"
  /\ phase' = "none" /\ carved' = {} /\ game' = NoGame
  /\ held' = {} /\ lost' = [fd \in Sockets |-> 0] /\ relistens' = 0
  /\ adb' = Stored(adb)
  /\ UNCHANGED tokens

-----------------------------------------------------------------------------
(* Games and the accounts they save.                                       *)

\* The server has listened.  If it failed to listen again its clients are still
\* connected, and their games go on.
Listening == phase = "listening"

\* Where sgs_close_game has got to.
Ending(db, players, toks, done) ==
  [adb |-> db, players |-> players, tokens |-> toks, done |-> done]

\* sgs_adb_set_data for player i, whose answer is not looked at.
Saved(e, i, unsaved) ==
  LET p  == e.players[i]
      id == p.account_id
      ok == i \notin unsaved /\ id \in DOMAIN e.adb.accounts
  IN Ending(AdbSetData(e.adb, id, p.data, i \notin unsaved),
            [j \in DOMAIN e.players |->
               LET q == e.players[j] IN
               IF q.account_id # id \/ (j # i /\ ~ok) THEN q
               ELSE Player(q.client, q.account_id, q.data, q.open, ok /\ j = i)],
            [c \in Clients |->
               IF e.tokens[c].account # id \/ (c # p.client /\ ~ok) THEN e.tokens[c]
               ELSE Token(id, Outdated)],
            e.done)

\* The player is given an account.
WithAccount(e, i) ==
  LET p == e.players[i] IN
  Ending(AdbCreate(e.adb),
         [e.players EXCEPT ![i] =
            Player(p.client, AdbCreated(e.adb), p.data, p.open, FALSE)],
         e.tokens, e.done)

\* The player is sent its account and data, and is done.
Told(e, i) ==
  LET p == e.players[i] IN
  Ending(e.adb,
         [e.players EXCEPT ![i] =
            Player(p.client, p.account_id, p.data, FALSE, FALSE)],
         [e.tokens EXCEPT ![p.client] =
            Token(p.account_id, IF p.saved THEN p.data ELSE Outdated)],
         e.done)

Waits(e) == Ending(e.adb, e.players, e.tokens, FALSE)

-----------------------------------------------------------------------------
(* Wrong variants of sgs_close_game, for the mutation checks.              *)

\* A game that is done saves again.
SavesAlways(g) == TRUE
-----------------------------------------------------------------------------

\* Only a game that is not done saves the accounts its players came with.
SavesAccounts(g) == g.state # "done"

SaveTurn(e, i, unsaved) ==
  IF e.players[i].account_id = None \/ ~e.players[i].open THEN e
  ELSE Saved(e, i, unsaved)

\* reach[i]: whether player i is sent the message, is lost to it or away.
EndTurn(e, i, unsaved, reach) ==
  LET given == IF e.players[i].account_id # None THEN e
               ELSE Saved(WithAccount(e, i), i, unsaved)
  IN IF ~e.players[i].open THEN e
     ELSE IF reach[i] = "away" THEN Waits(e)
     ELSE IF reach[i] = "lost" THEN Waits(given)
     ELSE Told(given, i)

\* The two loops of sgs_close_game: over the accounts to save, and over the
\* players to tell.
SavedAll(e, unsaved) ==
  LET saved[n \in 0 .. Len(e.players)] ==
        IF n = 0 THEN e ELSE SaveTurn(saved[n - 1], n, unsaved)
  IN saved[Len(e.players)]

EndedAll(e, unsaved, reach) ==
  LET ended[n \in 0 .. Len(e.players)] ==
        IF n = 0 THEN e ELSE EndTurn(ended[n - 1], n, unsaved, reach)
  IN ended[Len(e.players)]

\* The players of a new game.
Players ==
  SeqOf([client : Clients, account_id : Ids \cup {None}, data : Data,
         open : {TRUE}, saved : {FALSE}], MaxPlayers) \ {<<>>}

\* Host: a game of clients that logged in to the account they were last sent, or
\* came as new players, with the data that the game gives them before it ends.  A
\* login is never refused for its data; two sessions of one account are.
StartGame ==
  /\ Listening /\ game.state = "none"
  /\ \E players \in Players :
       /\ \A i \in DOMAIN players :
            players[i].account_id \in {None, tokens[players[i].client].account}
       /\ \A i, j \in DOMAIN players : i # j =>
            /\ players[i].client # players[j].client
            /\ players[i].account_id = players[j].account_id => players[i].account_id = None
       /\ game' = [state |-> "playing", players |-> players]
  /\ carved' = {}
  /\ UNCHANGED <<phase, descriptors, adb, tokens>>

\* sgs_close_game, which the host calls again until the game is gone.
CloseGame(unsaved, reach) ==
  LET start == Ending(adb, game.players, tokens, TRUE)
      saves == IF SavesAccounts(game) THEN SavedAll(start, unsaved) ELSE start
      end   == EndedAll(saves, unsaved, reach)
  IN /\ Listening /\ game.state # "none"
     /\ adb' = end.adb /\ tokens' = end.tokens
     /\ game' = IF end.done THEN NoGame
                ELSE [state |-> "done", players |-> end.players]
     /\ carved' = {}
     /\ UNCHANGED <<phase, descriptors>>

\* sgs_force_close_game sends nothing and saves nothing.
ForceCloseGame ==
  /\ Listening /\ game.state # "none"
  /\ game' = NoGame /\ carved' = {}
  /\ UNCHANGED <<phase, descriptors, adb, tokens>>

\* Host: an account is closed.
CloseAccount(id) ==
  /\ Listening /\ id \in DOMAIN adb.accounts
  /\ adb' = AdbClose(adb, id) /\ carved' = {}
  /\ UNCHANGED <<phase, descriptors, game, tokens>>
-----------------------------------------------------------------------------

OpenPlayers == {i \in DOMAIN game.players : game.players[i].open}

\* Whom the message reaches.  To lose one who has an account is as if it was away.
Reached ==
  {reach \in [OpenPlayers -> {"sent", "lost", "away"}] :
     \A i \in OpenPlayers : reach[i] = "lost" => game.players[i].account_id = None}

\* Those whose data closing the game may save.
Saving(reach) ==
  {i \in OpenPlayers : IF game.players[i].account_id = None THEN reach[i] # "away"
                       ELSE game.state = "playing"}

Next ==
  \/ Start \/ Destroy \/ Crash \/ StartGame \/ ForceCloseGame
  \/ \E exit \in ListenExits : Listen(exit)
  \/ \E reach \in Reached : \E unsaved \in SUBSET Saving(reach) : CloseGame(unsaved, reach)
  \/ \E id \in DOMAIN adb.accounts : CloseAccount(id)

Spec == Init /\ [][Next]_vars

-----------------------------------------------------------------------------

\* The fields keep their types, and no account is free twice or free and in use.
TypeOK ==
  /\ phase \in {"none", "up", "listening", "fault"}
  /\ held \subseteq NewTakes("done") \cup Sockets
  /\ lost \in [Sockets -> Nat] /\ relistens \in 0 .. MaxRelistens
  /\ adb \in AdbType(Len(adb.free) + Len(adb.ages), Data) \/ ~Listening
  /\ Listening => IsInjective(adb.free \o adb.ages)
  /\ game.state \in {"none", "playing", "done"}
  /\ \A i \in DOMAIN game.players :
       game.players[i] \in [client : Clients, account_id : Ids \cup {None},
                            data : Data, open : BOOLEAN, saved : BOOLEAN]
  /\ tokens \in [Clients -> [account : Ids, data : Data \cup {Outdated}]
                              \cup {NoToken}]

\* As long as the sizes do not overflow an int, what *_mem_size asks for holds
\* every array that *_new_from_void lays out, aligned and without overlap.
PoolsFit ==
  \A pool \in carved : Representable(pool.size, pool.unit) => Fits(pool)

\* Whatever sequence of failed starts, failed and repeated calls of sgs_listen,
\* stops and crashes there was: the process holds what its server uses, and a
\* process without a server holds nothing, but for descriptors that sgs_listen
\* overwrote on a server that had listened: one of each kind a call at most.
HeldExactly ==
  /\ phase = "none" => held = {}
  /\ phase = "up" => held = NewTakes("done")
  /\ phase = "listening" =>
       held \ Sockets = NewTakes("done") /\ (relistens = 0 => Sockets \subseteq held)
  /\ \A fd \in Sockets : lost[fd] <= relistens

\* What a client was last sent by sgs_close_game, or is to be sent when it is
\* tried again, is what sgs_adb_verify_data accepts, after any retries, restarts
\* and games of others, until the account is saved for another client, its own
\* save fails or the file is lost.
TokensHonoured ==
  /\ \A c \in Clients : tokens[c].data # Outdated =>
       AdbVerify(adb, tokens[c].account, tokens[c].data)
  /\ \A i \in DOMAIN game.players :
       LET p == game.players[i] IN p.saved => AdbVerify(adb, p.account_id, p.data)

\* Closing a game again changes no account but one that is given to a player
\* who had none, and tells a player the account and data of the first time.
RetryIsSafe ==
  [][game.state = "done" =>
       /\ \A id \in DOMAIN adb.accounts : adb'.accounts[id] # adb.accounts[id] =>
            \E i \in DOMAIN game.players :
              /\ game.players[i].account_id = None
              /\ \/ tokens'[game.players[i].client].account = id
                 \/ game'.state = "done" /\ game'.players[i].account_id = id
       /\ \A i \in DOMAIN game.players :
            LET p == game.players[i] IN
            p.account_id # None =>
              /\ tokens'[p.client].account \in {tokens[p.client].account, p.account_id}
              /\ tokens'[p.client].data \in {tokens[p.client].data, p.data, Outdated}
              /\ game'.state = "done" => game'.players[i].account_id = p.account_id]_vars
=============================================================================
