# TLA+ verification of simple_game_server

These modules model the data structures and the server of this repository, with
the configurations that model-check them and the proofs that hold for every size.
Everything is translated from the C source; the repository's README says that the
server does not build, and where the source is unfinished this file says how it
was read.

    tlc -workers 2 -config RingDeque.cfg MCRingDeque.tla     # one run
    tlapm RingDequeProofs.tla                                # one proof module

`PROJECT.json` lists the components, the runs with the properties each checks, a
plausible bug for every property that the run then finds, the hazards, and the
source lines behind every definition.

## 1. Inventory

### Components, their state and their operations

| Component | Source | State | Operations |
|---|---|---|---|
| Ring buffer | `ring_buffer.[ch]` | `back`, `front`, `size`, `buffer_size`: indices only, the array belongs to the owner | init, clear, push and pop at both ends, front, back, size |
| Block allocator (fbaa) | `fbaa.[ch]` | a ring of free block numbers (`flist_rb`, `flist_mem`), a flag per block (`full_blocks`) | init, clear, malloc and free by address or by index, available |
| Linked list | `linked_list.[ch]` | `first`, `last`, `size`; `prev`, `next` inside the caller's nodes | init, push at both ends, insert before and after, delete |
| Age-ordered allocator (ring_fbaa) | `ring_fbaa.[ch]` | two fbaa of one size (blocks, list nodes), a list of nodes from oldest to newest, `ll_nodes[]` from block to node | init, clear, malloc, free, oldest, free_oldest, renew |
| Red-black tree | `rbt.[ch]` | left-leaning red-black tree of caller-owned nodes, `size` | insert, delete, find |
| Array red-black tree | `array_rbt.[ch]` | a tree and an fbaa of its nodes | contains, get, insert, modify, delete, clear |
| Memory layout | `align_size`, `*_mem_size`, `*_new_from_void` | none: where the arrays of one allocation start | size, carve |
| Account database | `sgs_adb_*` | a ring_fbaa mapped from a file; nonce and hash per account | create (evicts the oldest), close, verify, set data |
| Session server | `sgs_ss_*` | an fbaa of sessions, `session_map` from account to session | create, delete, lookup, is_open |
| Connections and handlers | `sgs_open_connection` .. `sgs_ping_all_connections` | one entry per descriptor: state, session, pings, key | open, ping, close, connect, disconnect; login, create account, resume, logout, game message |
| Game server | `sgs_gs_*`, `sgs_*_game` | a ring_fbaa of games: state, sessions of the players, messages | create, close, force close |
| Lifecycle | `sgs_new`, `sgs_destroy`, `sgs_listen` | the three services, three descriptors, the mapping of the account file | start, listen, stop |
| Monocypher | `include/` | vendored | not modelled |
| Tests, benchmarks, scripts | `*_test.c`, `*_bench*`, `*.sh` | not part of the system | read for what callers do and expect |

### How they interact

fbaa keeps its free list in the ring buffer: blocks leave at the front and come
back at the front. ring_fbaa drives two fbaa and one list in lock step. array_rbt
takes tree nodes from an fbaa and must give back the node `rbt_delete` unlinked,
not the one that held the key. In the server, sessions live in an fbaa, found by
account through an array_rbt, games and accounts in a ring_fbaa each. A session
names its socket, its account and its game; a connection names its session; a game
names its players' sessions: three tables of integers that point into one another
and are changed by handlers that chain through all of them
(`sgs_close_game` > `sgs_close_connection` > `sgs_disconnect_session` >
`sgs_ss_delete` > `arbt_delete`). There are no threads: one handler runs at a time.

### What is hard, and what makes each part correct

There is no concurrency inside the data structures. A connection is a stream: bytes
come in pieces of any size and `recv` never waits. The process may end at any call,
and the account file survives it. What a test hardly reaches is
the long sequence of legal calls: indices that have wrapped, a block freed twice, a
node linked again with stale pointers, the one tree shape in which a deletion goes
wrong. In the server it is the order in which clients, lost peers and the host act
on records that outlive each other. The hazards in `PROJECT.json` are the list.

* Ring buffer: the ends agree with the size; it is a deque.
* fbaa: the free list holds every free block exactly once; it is a pool that never
  hands a block to two callers.
* Linked list: both chains and both ends are the order the callers asked for.
* ring_fbaa: both allocators and the list stay in step; the oldest block is the one
  allocated or renewed longest ago.
* Red-black tree: sorted, balanced, and every key is found after any sequence.
* array_rbt: a map, whose nodes are exactly the blocks in use.
* Memory layout: the arrays do not overlap and fit the size that was asked for.
* Accounts: what a client was told to log in with is accepted, through retries and
  restarts, until the account is saved for another client.
* Lifecycle: no path through starting, listening and stopping leaks, except listening again.
* Messages: each is met whole, once and in order, or the connection closes, as long as no
  handler leaves a part of one; a client that never logs in loses its descriptor.
* Sessions, connections, games: each refers only to live records that refer back; an
  account gets no session but its own; a lost connection does not end a game.

## 2. Plan

| Step | Modules | State |
|---|---|---|
| 1 | `RingBuffer`, `RingDeque` refining `Deque`; `ContainerProofs`, `RingDequeProofs` | checked and proved |
| 2 | `Fbaa`, `FbaaPool` refining `BlockPool`; `ContainerProofs`, `PoolPartsProofs` | checked and proved |
| 3 | `LinkedList`, `ListUse`; `ContainerProofs`, `PoolPartsProofs` | checked and proved |
| 4 | `RingFbaa` composing 2 and 3, `RingFbaaPool` refining `AgePool`; `RingFbaaPoolProofs` | checked and proved |
| 5 | `Rbt`, `RbtUse`; `ArrayRbt` composing `Rbt` and `Fbaa`, refining `KeyMap`; `RbtProofs` | checked and proved |
| 6 | `SessionServer`, `Server`: sessions, connections, handlers, games; `ServerProofs` | checked and proved |
| 7 | `PoolMemory`: the layout arithmetic of the three pools; in `ServerLifeProofs` | checked and proved |
| 8 | `AccountDb`, `ServerLife` composing it with 7: the process around the account file, and the accounts games save; `ServerLifeProofs` | checked and proved |
| 9 | `Wire` refining `Channel`: the bytes of a connection; `WireProofs` | checked; proved but for liveness |
| 10 | A `Server` whose session pool and map are the concrete `Fbaa` and `ArrayRbt` of the source, to compose what is proved of each | not done |

Abstract specifications: the deque, the block pool, the pool ordered by age, the
map, and the channel of whole messages.

## 3. Modules

Pure modules (`RingBuffer`, `Fbaa`, `LinkedList`, `RingFbaa`, `Rbt`,
`SessionServer`) define each C function as an operator from the struct before the
call to the struct after it, under the function's name. A machine module (`RingDeque`,
`FbaaPool`, `ListUse`, `RingFbaaPool`, `RbtUse`, `ArrayRbt`, `Server`, `ServerLife`,
`Wire`) has the struct as a variable and one action per call. `MCRingDeque`,
`MCFbaaPool`, `MCServer` and `MCServerLife` add what only TLC needs: symmetry sets and a check of `FbFresh`.
The loops of the server over descriptors and players (`PingedAll`, `Seated`, `ClosedPlayers`,
`DroppedPlayers`, `SavedAll`, `EndedAll`) are recursive functions of the number of turns made, as is
`Begun` in `Wire`: the state before each turn is what a proof about a loop has to speak of. Operators under "Wrong variants" are the
plausible bugs of the mutation checks; nothing else uses them.

* **RingBuffer, RingDeque, Deque.** `rb` is the `ring_buffer_t`, `slots` the owner's
  array. The owner writes to the slot a push returns. The constant `FrontIntoEmpty`
  says whether it may push to the front of an empty ring: fbaa does, and is right
  only because it never pushes to the back afterwards. `Deque` is the abstract
  bounded deque; the mapping reads `size` slots from the front on.
* **Fbaa, FbaaPool, BlockPool.** `alloc` is the `fbaa_t`; `memory` is an interval of
  byte addresses from 0, so `fbaa_free` divides as the code does. Callers may free any
  block and any address inside the memory, allocated or not. `FbFresh` states what the
  loop of `fbaa_init` leaves; `MCFbaaPool` checks it against the loop.
* **LinkedList, ListUse.** Nodes are numbers, `NoNode` is NULL and `Wild` an unwritten
  field. `order` is what the calls ask for; the code has no such thing.
* **RingFbaa, RingFbaaPool, AgePool.** The record holds two `Fbaa` allocators, the
  list, `ll_nodes` and each node's `block_index`. Node addresses are node numbers.
* **Rbt, RbtUse.** A tree is a value (nested records, NULL is `Null`), a node carries an
  `id` that stands for its address, so the model says which node a deletion gives
  up. There are at most `N` nodes, and a tree has at most as many levels (`Tree`). The
  recursion of the code is a recursive function of the subtree. A deletion goes down from
  a node that may have been rotated on the way and is no subtree of the one it came from,
  so its calls are counted (`0 .. N`); a call too many has no value. That there is none is proved.
* **The names of `RbtUse` and `ListUse`** begin with `Use` where another module proved about
  together with them has the plain name.
* **ArrayRbt, KeyMap.** The tree of `Rbt`, the blocks of `Fbaa`, and a caller who asks
  `arbt_contains` (`ContainsKey`) and `available` first. `arbt_size` and `arbt_available` of the header
  are called `size` and `available` in the source.
* **SessionServer, Server.** `sgs` holds sessions, the free list of their pool,
  `session_map` and connections; `games` and `free_games` are the game server. The pools
  and the map are the abstract ones that `FbaaPool`, `RingFbaaPool` and `ArrayRbt` are
  shown to implement, with the order in which fbaa reuses blocks (last freed first)
  kept, since a stale number matters only when it is reused. Freed sessions keep
  their contents. `HandleX(fd)` is one message of a client on `fd`, from the dispatch in
  `sgs_handle_message` on; `lost` is the set of peers a `send` does not reach.
  A null pointer that is followed sets `fault` and stops the process.
* **PoolMemory.** Where `*_new_from_void` puts each array and how much `*_mem_size` asks
  for, as two independent translations. `AsInt` wraps as the usual builds do; struct
  sizes are those of a 64-bit build. `Representable` is the condition under which nothing
  overflows. `LaidOut` says in order, apart, aligned, inside.
* **AccountDb, ServerLife.** `adb` is the database: its allocator as a free list and an
  age list, which `RingFbaaPool` shows it to be, and the data each hash is of. While no
  server is up it is what the file holds. `held` is what the process has of the system,
  `carved` the pools the last call laid out; each call that may fail is an exit of `New`
  or `Listen`. `Listen` may be called on a server that has listened: `lost` counts the descriptors
  that its fields named and name no longer, `relistens` such calls. `Crash` may follow any step. A game is its players, with the account and
  the data each has when it ends; `reach` says to whom the final message is sent. `tokens`
  is a history variable: what each client was last told to log in with, and whether it
  can still know that it is right. `Server` has the sessions of the same games; neither
  module repeats the other's state.
* **Wire, Channel.** `stream` holds the bytes the peer sent and the server did not read,
  `arrived` how many of them `recv` can give. (Bytes that come between two `recv`s of a
  handler are as if they had come before the first or after the last.) `last` is the last
  message a handler accepted. A header is two of the model's bytes, and so are the encdata
  that every encrypted message has and the body of a game message; another body is one:
  enough to be cut inside each. No handler reads the encdata of CREATE or LOGOUT, and what is
  refused before its body keeps it. What is left is read as a header and may say anything (`Says`),
  so any handler may take it (`Garbage`) or `HandleMisread` refuses it.
  What a handler decides from the server's state is a choice here and is
  computed in `Server`. The mapping to `Channel` reads the messages whose first byte is
  still unread (`Begun`), and whether the next byte is one (`InStep`). `Channel` promises whole
  messages in turn while it is in step, and says which messages may bring it out of step (`Leaves`).

How unfinished server code was read: `game->players[i].session_id` and
`game->session_ids[i]` are both `player_session_ids[i]`; `sgs_create_game` stores
`session_ids[i]`; `session->sfd` is `socket_fd`; `SGS_MET_PING` in the dispatch is
`SGS_MT_PING`; a handler's local `err` does not hide the parameter. `getrandom` may fail in
`sgs_adb_set_data`; in `sgs_ss_create` it refuses the message, which then changes
nothing; in `sgs_send_encrypted` it is a send that fails, and in `sgs_open_connection` a
connection that was not opened. A player of a game
(`game->players[i]`, which `sgs_game_t` does not have) has the `account_id` and `data` that
`sgs_close_game` reads of it. `sgs_new` exchanges the last two arguments of `sgs_adb_new`, so the
database gets a descriptor that is the number of accounts and a size that is whatever
`malloc` left in `adb_fd`: `New` takes them to be ones a mapping can be made with
(`sized`), or the process faults. `sgs_handle_login` expects the
length of a logout message; the peer of `Wire` sends the length that is expected. The account
file is long enough for its mapping, though `ftruncate` is given fewer bytes. `sgs_create_player` and `sgs_delete_player` are not in the repository:
creation answers a slot or refuses, deletion changes nothing that is modelled.
`session_map`, which `sgs_ss_new` does not create, exists and is as large as the
session pool. `accept`, the event loop (`sgs_process_events` is empty) and the
matchmaker are the host: it may open and close connections, ping, form a game of any open
sessions that are in none, and end games in either way at any moment. With
`HostActs` it also calls `sgs_disconnect_session` and `sgs_send_resume_token`, which
the header declares. Without it no session is ever connected, which is what
`server_close` shows. In `Wire` the host closes a connection on which a call answered -1,
except for the errors in `Keeps`, which the runs choose among those that are answered once the
handler has taken its message. The proofs choose nothing.

## 4. Runs

| Run | Instance | Shows |
|---|---|---|
| `ring_deque` | 4 slots, 2 elements (symmetric), any start contents | `TypeOK`, `EndsAgree`, refinement of `Deque` |
| `ring_deque_front` | the same, `FrontIntoEmpty` | violation of `DequeSpec`: push front into an empty ring, push back, and the first element is gone |
| `fbaa_pool` | 4 blocks of 2 bytes | `FreeListExact` under double frees, interior addresses and clears; refinement of `BlockPool` |
| `list_use` | 4 nodes | `AsAsked`: no stale pointer of an unlinked node is ever followed |
| `ring_fbaa_pool` | 3 blocks of 2 bytes | `TwinPools`, `ListHoldsLive`, refinement of `AgePool` |
| `rbt_use` | 7 keys | `KeysFound`, `Balanced` for every tree that insertions and deletions reach |
| `rbt_deleted` | 3 keys | violation of `ReturnsNodeOfKey`: the node returned held the successor's key |
| `array_rbt` | 3 nodes, 3 keys, 2 values | `NodesAreBlocks`, refinement of `KeyMap` |
| `server` | 2 sessions, 2 descriptors, 2 accounts (symmetric) and anonymous clients, 1 game of 2 | `DetachedInGame`, `GamesAgree`, `MapSound`, `MessageLands` |
| `server_close` | the same, host forms and ends games only | violation of `MarkedIsClosed` |
| `server_life` | 2 clients and 2 data values (symmetric), databases of 1 and 2 accounts, a game of 2, four pool sizes, 16-bit `int`, one more `sgs_listen` | `PoolsFit`, `HeldExactly`, `TokensHonoured`, `RetryIsSafe` |
| `wire` | one descriptor, 6 bytes on their way, pings closed at the third | refinement of `Channel` (`MessagesInTurn`), `TornIsLast`, `MessagesAreMet` and `IdleEnds` under fairness |

Bounds, and why they are enough:

* Four slots and four blocks let the ring be empty, full, and wrapped in every
  position; two elements tell an overwritten slot from an intact one. The theorems
  below remove these bounds.
* Four nodes put a node between two others that are not at an end and leave one outside.
  Three blocks put one between the oldest and the newest.
* Seven keys fill a tree of three black levels; 2952 trees with their histories cover each
  rotation, split and merge. Keys are only compared, so their values do not matter.
* Three map nodes are the fewest for a deletion that moves another node's data, while
  the pool runs full and empty.
* The server faults that tie two records together need two sessions on one descriptor
  or one session on two; a stale number needs one release and one reuse. One game
  forces reuse of its number. `MaxEmptyPings = 0` keeps the limit reachable in two pings
  (the code has 8), and pings are counted no further than the limit compares.
* Accounts are only compared for equality, and no operator chooses among them, so permuting
  them is sound.
* `server_life`: with one account every second new player displaces the first; with two,
  a free one is taken before. Two clients of one game are told, lost or away in every
  combination; one who has an account and is lost is as one away, and is not tried apart
  (`Reached`). `int` has 16 bits, and the pool sizes 2, 7, 13 and 103 make the pools fit,
  the games' size negative, the games' size wrap to a small positive one, and the sessions'
  size negative. One call of `sgs_listen` more than the first meets a server that has both
  descriptors, in any game, and the process goes on with what it left (`MaxRelistens`).
  The theorems of section 5 have no such bounds.
* `wire`: six bytes are one message with a body, or one without and a ping or the rest of
  another: a message is cut, met or misread next to one other, and a third adds no neighbour.
  `MaxEmptyPings = 1` (the code has 8) lets a ping be counted once without reaching the limit.
* `server` runs without the deadlock check because a fault ends the process.

Fairness is assumed in `wire` only: bytes that were sent are delivered while the connection
is open, and the host goes on calling `sgs_handle_message` while there is something to read,
as it must with the level-triggered `EPOLLIN` that `sgs_listen` asks for, and goes on calling
`sgs_ping_all_connections`, whose count of empty pings is otherwise pointless. Nothing is
assumed of the peer. The other properties are safety properties: a game whose player is
disconnected waits for that player or for the host, and neither is bound to act.

### What the violations say

* `rb_push_front` on an empty ring leaves `back` at the slot of the new element. The
  README calls the ring a deque; fbaa is the only user and is not affected.
* `rbt_delete` returns the successor's node when the key's node has a right
  subtree, and it still holds the successor's key. `rbt_test.c:178` takes that for an error
  but deletes a key for which it does not happen. `array_rbt` frees the node it is given,
  which is right (`NodesAreBlocks`).
* `sgs_ss_create` stores the socket, so `sgs_connect_session` refuses the session it was just
  given: every first login is answered `SGS_SESSION_IN_PROGRESS`. Therefore `sgs_close_game` closes
  a connection that does not name the session, marks the player as closed and leaves the session
  allocated, against its own comments.

Met while modelling, with no sentence in the repository that a run could refute:
`sgs_adb_verify_data` answers 0 or 1 and its caller refuses only negative answers, so any login
succeeds; a failed `mmap` is compared with 0; what `listen` and `crypto_aead_unlock` answer is not
looked at; `derive_key` hashes its own secret, so the two ends derive different keys; `sgs_destroy`
closes `server_fd` even if it was never set. The handlers of CREATE and LOGOUT read no more than
the header, though `SGS_SEC_MESSAGE_SIZE` and `sgs_send_encrypted` give every encrypted message an
encdata: after a request for an account the connection is out of step. `sgs_listen` on a server
that listens overwrites `server_fd` and `epoll_fd` and leaves both descriptors open.
`HeldExactly` and `MessagesInTurn` say how far these two go, and what holds without them.

What `TokensHonoured` leaves out is what the code cannot promise: a client's account may
be displaced and saved for another at any time, a save that fails is not noticed, and the data a
client was told goes stale when its own game saves again.

## 5. Proofs

Every theorem is for all values of the constants, under the assumptions the modules name:
positive sizes (`NAssumption`, `BlockSizeAssumption`, `SizesAssumption`), numbers for list nodes
(`NodesAssumption`), a finite set of integers for tree keys (`KeyAssumption`), databases of at least one account whose blank hash is no data
(`LifeAssumption`), no account that is the number for none (`AccountAssumption`), an `int` of
at least 8 bits (`IntMaxAssumption`), a limit on pings that is a number
(`MaxEmptyPingsAssumption`, `WireAssumption`). TLC evaluates them in the runs. Two theorems of the
ring assume `~FrontIntoEmpty`: they say so in their statements.

**Loops and sequences (`ContainerProofs`).** The prover cannot instantiate an induction over
numbers with a formula. Instead, a set of numbers has a least one (`LeastElement`), so a
property that one turn of a loop carries on has no first turn after which it fails:
`LoopRange` says that of a function of the turns, and `LoopExists` that a loop defined by a
recursive function has one. What a turn keeps is given as a set of states for each turn. Every
loop of `Server`, `ServerLife` and `Wire` is proved about with these two. The rest of the module is
what single operations do to a ring, an allocator, a list and a sequence without repetition.

**Ring (`ContainerProofs`, `RingDequeProofs`).** `TypeCorrect`: `TypeOK` is inductive by
itself. `EndsAlwaysAgree` and `RefinesDeque` assume `~FrontIntoEmpty`. `EndsAgree` talks
about `rb_back`; what is inductive is `TypeOK` with `EndsMeet`: the back is `size` slots from
the front, modulo the size of the ring. The lemmas about single operations say which slot
each element is in after it, from three facts about `%`: adding one, taking one away, and
wrapping once. Refinement is one step per action: the abstract sequence is read through
`RbSlot`, distinct positions are distinct slots (`SlotsDistinct`), and the slot past the end is
none of them (`SlotPastEnd`), which is why a push overwrites nothing.

**Allocator (`ContainerProofs`, `PoolPartsProofs`).** The inductive invariant `IInv` is
`TypeOK /\ FreeListExact`: the live part of the ring holds the numbers of the blocks
whose flag is 0, each once. Typing alone is not inductive: that `fbaa_free_index` finds room in
the ring is a counting argument (`FbRoomToFree`: a free list of distinct blocks that lacks one
cannot be full). `RefinesBlockPool` then follows action by action; for addresses,
`AddressOfBlock` and `BlockOfAddress` show that division undoes the multiplication for
any byte of the block.

**List (`ContainerProofs`, `PoolPartsProofs`).** `AlwaysAsAsked` is inductive as it stands, with
the typing: the pointers of linked nodes are those of a sequence, and nothing is said of the
others, which is why stale ones do no harm. Every insertion is the same change of at most two
neighbours (`GrownBy`, `LinkedIn`), whichever function makes it.

**Age-ordered allocator (`RingFbaaPoolProofs`).** Its three invariants are inductive only
together. The node allocator follows the block allocator because each call finds the two
equal; the list can take the node it is given because that node was free, and the list holds
only nodes that are not; the free list stays exact because only nodes of blocks that are out
are given back. `OneOrder` shows that a list holds one sequence at most, so the sequence the
refinement chooses is the one the proofs follow (`Holds`). `RefinesAgePool` is one step per call.

**Trees (`RbtProofs`).** The prover cannot instantiate an induction over trees with a formula
any more than one over numbers. `Inductive(S)` says of a set of trees that whatever subset
of it holds `Null`, and a tree with its subtrees, is all of it; `ForestInductive` and
`TreeInductive` prove that of the trees by their levels, which are numbers, and a property is
given to `TreeInduction` as the set of the trees that have it. That a recursive function has a
value is proved the same way (`FoldExists`: the least relation closed under the recursion is a
function), so each operator of `Rbt` may be unfolded by one call (`InsertRecDef`, `FindDef`, ...).

What a tree holds is settled apart from its shape. Rotations, flips and `rbt_balance` give a tree
that is `Alike`: the same blocks, keys and pairs, in order and on distinct nodes if they were before.
For the shape, `BalanceShaped` says what `rbt_balance` repairs and when the height stays. An insertion
leaves at most a red root with a red left child, which the next `rbt_balance` splits
(`Extended`). A deletion is harder, since on its way down the tree is not well shaped. It goes into a tree with
a red link to spare, at the root or to its left (`Ready`). But `rbt_move_red_right` may also
make one whose red link leans to the right; its root is then the node the deletion came from, so
the deletion goes right once more (`LeansRight`). `StepLeft` and `StepRight` are one call: it goes
from such a tree into such a tree, and once what comes back from below is `Repaired` (the same
height, no red link its parent does not expect), so is what it returns.

What is cut off is `Without`: all pairs but the key's are left, and the block returned is one
of the tree's and none of those left; `LeastCut` is that of `rbt_delete_min`, and `WithoutTaken`
shows that taking over the least key and value keeps the tree sorted. The induction is over the
depth of the call: a search tree has more keys than its subtrees (`FewerKeys`), so
few keys make few levels (`FewKeysFewLevels`) and the calls that are counted are never used up.

`KeysAlwaysFound` and `AlwaysBalanced` follow from `UseInv`: the tree is sorted, well shaped, of
as many keys as its size says, and holds what the caller inserted and did not delete. `ArbtInv`
adds the allocator: its free list is exact, and the blocks out are those of the tree's
nodes, which are distinct (`Apart`). Neither half is inductive alone: the block freed is one that
is out because it was in the tree, and the block taken is not in the tree because it was free.
`NodesAlwaysBlocks` is part of it. `RefinesKeyMap` is one step per call; a search tree has
one value for a key (`PairsOnce`), so the map it is read as is the only function that agrees with
its pairs (`MapKnown`).

**Sessions, connections and games (`ServerProofs`).** All five invariants follow from one,
`IInv`. Three things in it are not in the properties, and without them it is not inductive.
It speaks of every session, free ones too: a free session is in no game, because a handler may
close a session that another step has deleted before, and would then change a game. It does not
ask for a process that is up, so that the null pointer in `sgs_ss_delete` needs no case of its own.
And within a handler it holds but for one session (`SoundBut`): the one that has lost its socket
and is about to be deleted. Each operation on sessions is shown to keep `Sound` and every place in a
game (`Keeps`), which settles all actions but those of games. For these, `Agree` is carried
through the loops with the seats that each turn has given or taken.

**Memory, descriptors and accounts (`ServerLifeProofs`).** `FbaaFits`, `RingFbaaFits` and
`ArrayRbtFits`: if `size * unit + 256` is an `int`, every intermediate result is its exact value
(`AsIntExact`), rounding up adds 1 to 16 bytes and gives a multiple of 16 (`AlignUp`), and the
regions follow each other. The assumption `IntMax >= 255` makes room for the structs alone.
`PoolsAlwaysFit` carries this to every pool a start lays out, since only `New` fills `carved`.
`HeldAlwaysExact` is inductive together with the typing of what is held and lost (`HeldInv`): each
exit gives back what it took, and a fault claims no more than a server has. A call of `sgs_listen`
overwrites a descriptor only on a server that has listened (`ListenDescriptors`), so what is lost
never outruns the calls that were counted.

`TypeCorrect` and `TokensAlwaysHonoured` come from an `IInv` about the accounts: each account of a
mapped database is free once or in use once and not both (`DbOK`: a player without an account always gets
one that nobody is told of as his own), the players of a game are different clients, and
what clients and players were told is what the accounts hold (`Honoured`). That the clients differ is
what makes a turn of the closing loop leave alone what another turn has told. `RetryAlwaysSafe` needs
more than an invariant, since it compares the two ends of a step that is a whole loop: `Turns` says
what the first `k` turns may have changed, and `NextTurn` adds one to it.

**Bytes (`WireProofs`).** `TypeCorrect` and `TornAlwaysLast` hold for any ping limit, any `Keeps`
and any number of unread bytes. `HandlerEnds` shows that each handler either
closes the connection or reads bytes that had come and keeps it, with `torn` unchanged; the
invariants then need two cases instead of one for each handler. `TornIsLast` is inductive with `TypeOK`.

`RefinesChannel` has no condition. Nothing in the stream says where a message ends; what is
inductive (`MessageInv`) is that each byte has its place next to the one before (`Framed`), that a
peer which is there has cut nothing, and that a closed descriptor has no bytes. It holds in step and
out of it, so each handler has two cases. In step, the first message stands at the front whole or cut
at the end of the stream (`FirstMessage`), what is read as a header is one (`HeaderInStep`), and a
handler that leaves a part of it does so of one of `Leaves` or has come to the end of the stream
(`MeetsFirst`). Out of step, whatever is read takes some messages from the front of those that have
begun, and accepts none of them (`MissesFirst`). `BegunOfRest` says of both which messages are left.

Only model-checked: `MessagesAreMet` and `IdleEnds`, which are liveness properties under fairness,
beyond the prover. Every other property of a passing run is a theorem. What `rbt_deleted`,
`ring_deque_front` and `server_close` show is a counterexample and needs no proof.

## 6. Not modelled

* `sgs_adb_sync`, which `sgs_destroy` calls and nothing defines. `sgs_send_logout_token` and
  `sgs_process_events` have empty bodies. `sgs_ss_lookup` and `sgs_gs_get_oldest` change nothing
  and nothing calls them.
* A database file whose pages are lost: `kept` says whether the file still has what was saved.
  Pages past the end of the file.
* Keys, nonces and the contents of messages, and so the part of a game message that stays in
  `games[].messages` when the rest does not come. A message that is refused before any change
  is no step of `Server`; it is one of `Wire`.
* A connection that `sgs_open_connection` could not open: the host closes it in the same step.
* The other files of the process: `sgs_destroy` after a failed `sgs_listen` closes numbers that
  were closed before, which may be in use again.
* Equal keys in a tree, and deletion of an absent key: no caller in the repository does the first,
  and `ArrayRbt`'s caller asks first. `sgs_ss_delete` does not ask; its fault is modelled.
* Monocypher, tests, benchmarks, build scripts.
