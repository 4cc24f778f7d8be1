-------------------------- MODULE ServerLifeProofs --------------------------
(***************************************************************************)
(* For every number of blocks and every block size that an int can hold    *)
(* the sizes of, a pool's arrays are apart, aligned and inside the memory  *)
(* that *_mem_size asks for.  From that, for every size of pools and       *)
(* database and any number of clients: the pools that a start lays out fit *)
(* their memory, and on every path the process holds what its server uses  *)
(* and no more, but for what a server that listens again leaves open.      *)
(* Then the accounts: each is free or in use, what a client was told it    *)
(* can log in with, and closing a game again repeats nothing.              *)
(***************************************************************************)
EXTENDS ServerLife, ContainerProofs

\* An int holds what fits into it.
LEMMA AsIntExact ==
  ASSUME NEW n \in Nat, n <= IntMax
  PROVE  AsInt(n) = n
<1> DEFINE M == IntMax + 1
<1>1. M \in Nat /\ M > 0 /\ n + M \in Nat /\ n + M < 2 * M
  BY IntMaxAssumption
<1>2. \A a \in Nat, b \in Nat : a < b => a % b = a
  OBVIOUS
<1>3. (n + M) % (2 * M) = n + M
  BY <1>1, <1>2
<1>4. QED BY <1>3, IntMaxAssumption DEF AsInt

\* align_size goes up by 1 to 16 bytes, to a multiple of 16.
LEMMA AlignUp ==
  ASSUME NEW n \in Nat, n + 16 <= IntMax
  PROVE  /\ AlignSize(n, 16) \in Nat
         /\ n < AlignSize(n, 16) /\ AlignSize(n, 16) <= n + 16
         /\ AlignSize(n, 16) % 16 = 0
<1> DEFINE r == n % 16
<1>1. r \in 0 .. 15 /\ (n + (16 - r)) % 16 = 0
  OBVIOUS
<1>2. n + (16 - r) \in Nat /\ n + (16 - r) <= IntMax
  BY <1>1, IntMaxAssumption
<1>3. Remainder(n, 16) = r
  BY DEF Remainder
<1>4. AlignSize(n, 16) = n + (16 - r)
  BY <1>2, <1>3, AsIntExact DEF AlignSize
<1>5. QED BY <1>1, <1>2, <1>4

\* The space of an array is more than its elements, by 16 bytes at most, and aligned.
LEMMA ArrayHolds ==
  ASSUME NEW n \in Nat, NEW e \in Nat, n * e + 16 <= IntMax
  PROVE  /\ ArraySize(n, e) \in Nat
         /\ n * e < ArraySize(n, e) /\ ArraySize(n, e) <= n * e + 16
         /\ ArraySize(n, e) % 16 = 0
<1>1. n * e \in Nat /\ n * e <= IntMax
  BY IntMaxAssumption
<1>2. AsInt(n * e) = n * e
  BY <1>1, AsIntExact
<1>3. QED BY <1>1, <1>2, AlignUp DEF ArraySize

\* The smaller products a pool's arrays are made of, and their sum.
LEMMA Products ==
  ASSUME NEW n \in Nat, NEW u \in Nat, NEW e \in Nat, e <= u,
         n * u + Slack <= IntMax
  PROVE  n * e \in Nat /\ n * e <= n * u /\ n * e + 16 <= IntMax
<1>1. n * e \in Nat /\ n * u \in Nat
  OBVIOUS
<1>2. n * e <= n * u
  OBVIOUS
<1>3. QED BY <1>1, <1>2, IntMaxAssumption DEF Slack

\* fbaa_new: the free list, the flags and the blocks do not overlap and do not
\* reach past the memory fbaa_mem_size asked for.
THEOREM FbaaFits ==
  ASSUME NEW size \in Nat, NEW block_size \in Nat,
         Representable(size, 2 * SizeofInt + block_size)
  PROVE  LaidOut(FbaaLayout(size, block_size), FbaaMemSize(size, block_size))
<1> DEFINE u == 2 * SizeofInt + block_size
           mem == AlignSize(SizeofFbaa, 16)
           iarray == ArraySize(size, SizeofInt)
           regions == FbaaLayout(size, block_size)
<1>1. u \in Nat /\ size * u + Slack <= IntMax /\ size * u \in Nat
  BY DEF Representable, SizeofInt
<1>2. /\ size * SizeofInt \in Nat /\ size * SizeofInt + 16 <= IntMax
      /\ size * block_size \in Nat
  BY <1>1, Products, SizeofInt <= u DEF SizeofInt
<1>3. size * u = 2 * (size * SizeofInt) + size * block_size
  BY DEF SizeofInt
<1>4. /\ iarray \in Nat /\ iarray % 16 = 0
      /\ size * SizeofInt < iarray /\ iarray <= size * SizeofInt + 16
  BY <1>2, ArrayHolds, SizeofInt \in Nat DEF SizeofInt
<1>5. /\ mem \in Nat /\ mem % 16 = 0
      /\ SizeofFbaa < mem /\ mem <= SizeofFbaa + 16
  BY AlignUp, IntMaxAssumption, SizeofFbaa \in Nat DEF SizeofFbaa
<1>6. FbaaMemSize(size, block_size) = mem + 2 * iarray + size * block_size
  <2>1. /\ mem + 2 * iarray + size * block_size \in Nat
        /\ mem + 2 * iarray + size * block_size <= IntMax
    BY <1>1, <1>2, <1>3, <1>4, <1>5, IntMaxAssumption DEF Slack, SizeofFbaa
  <2>2. QED BY <2>1, AsIntExact DEF FbaaMemSize
<1>7. /\ (mem + iarray) % 16 = 0 /\ (mem + 2 * iarray) % 16 = 0
      /\ mem + iarray \in Nat
  BY <1>4, <1>5
<1>8. /\ Len(regions) = 4
      /\ regions[1] = Region(0, SizeofFbaa)
      /\ regions[2] = Region(mem, size * SizeofInt)
      /\ regions[3] = Region(mem + iarray, size * SizeofInt)
      /\ regions[4] = Region(mem + 2 * iarray, size * block_size)
  BY DEF FbaaLayout
<1>9. \A i \in 1 .. 3 :
        regions[i].start + regions[i].bytes <= regions[i + 1].start
  BY <1>2, <1>4, <1>5, <1>8 DEF Region, SizeofFbaa
<1>10. regions[4].start + regions[4].bytes <= FbaaMemSize(size, block_size)
  BY <1>2, <1>4, <1>5, <1>6, <1>8 DEF Region
<1>11. \A i \in 1 .. 4 : regions[i].start % 16 = 0
  BY <1>5, <1>7, <1>8 DEF Region
<1>12. QED BY <1>8, <1>9, <1>10, <1>11 DEF LaidOut

\* rfbaa_new and sgs_adb_new: the same for the eight parts of a ring_fbaa_t.
THEOREM RingFbaaFits ==
  ASSUME NEW size \in Nat, NEW block_size \in Nat,
         Representable(size, 4 * SizeofInt + SizeofRingFbaaNode + SizeofPointer
                               + block_size)
  PROVE  LaidOut(RingFbaaLayout(size, block_size),
                 RingFbaaMemSize(size, block_size))
<1> DEFINE u == 4 * SizeofInt + SizeofRingFbaaNode + SizeofPointer + block_size
           mem == AlignSize(SizeofRingFbaa, 16)
           iarray == ArraySize(size, SizeofInt)
           narray == ArraySize(size, SizeofRingFbaaNode)
           parray == ArraySize(size, SizeofPointer)
           blocks == size * block_size
           nodes == mem + 4 * iarray
           regions == RingFbaaLayout(size, block_size)
<1>1. u \in Nat /\ size * u + Slack <= IntMax /\ size * u \in Nat
  BY DEF Representable, SizeofInt, SizeofRingFbaaNode, SizeofPointer
<1>2. /\ size * SizeofInt \in Nat /\ size * SizeofInt + 16 <= IntMax
      /\ size * SizeofRingFbaaNode \in Nat /\ size * SizeofRingFbaaNode + 16 <= IntMax
      /\ size * SizeofPointer \in Nat /\ size * SizeofPointer + 16 <= IntMax
      /\ blocks \in Nat
  <2>1. SizeofInt \in Nat /\ SizeofInt <= u
    BY DEF SizeofInt, SizeofRingFbaaNode, SizeofPointer
  <2>2. SizeofRingFbaaNode \in Nat /\ SizeofRingFbaaNode <= u
    BY DEF SizeofInt, SizeofRingFbaaNode, SizeofPointer
  <2>3. SizeofPointer \in Nat /\ SizeofPointer <= u
    BY DEF SizeofInt, SizeofRingFbaaNode, SizeofPointer
  <2> HIDE DEF u
  <2>4. size * SizeofInt \in Nat /\ size * SizeofInt + 16 <= IntMax
    BY <1>1, <2>1, Products
  <2>5. size * SizeofRingFbaaNode \in Nat /\ size * SizeofRingFbaaNode + 16 <= IntMax
    BY <1>1, <2>2, Products
  <2>6. size * SizeofPointer \in Nat /\ size * SizeofPointer + 16 <= IntMax
    BY <1>1, <2>3, Products
  <2>7. blocks \in Nat
    OBVIOUS
  <2>8. QED BY <2>4, <2>5, <2>6, <2>7
<1>3. size * u = 4 * (size * SizeofInt) + size * SizeofRingFbaaNode
                   + size * SizeofPointer + blocks
  BY DEF SizeofInt, SizeofRingFbaaNode, SizeofPointer
<1>4. /\ iarray \in Nat /\ iarray % 16 = 0
      /\ size * SizeofInt < iarray /\ iarray <= size * SizeofInt + 16
  BY <1>2, ArrayHolds, SizeofInt \in Nat DEF SizeofInt
<1>5. /\ narray \in Nat /\ narray % 16 = 0
      /\ size * SizeofRingFbaaNode < narray
      /\ narray <= size * SizeofRingFbaaNode + 16
  BY <1>2, ArrayHolds, SizeofRingFbaaNode \in Nat DEF SizeofRingFbaaNode
<1>6. /\ parray \in Nat /\ parray % 16 = 0
      /\ size * SizeofPointer < parray /\ parray <= size * SizeofPointer + 16
  BY <1>2, ArrayHolds, SizeofPointer \in Nat DEF SizeofPointer
<1>7. /\ mem \in Nat /\ mem % 16 = 0
      /\ SizeofRingFbaa < mem /\ mem <= SizeofRingFbaa + 16
  BY AlignUp, IntMaxAssumption, SizeofRingFbaa \in Nat DEF SizeofRingFbaa
<1>8. /\ Len(regions) = 8
      /\ regions[1] = Region(0, SizeofRingFbaa)
      /\ regions[2] = Region(mem, size * SizeofInt)
      /\ regions[3] = Region(mem + iarray, size * SizeofInt)
      /\ regions[4] = Region(mem + 2 * iarray, size * SizeofInt)
      /\ regions[5] = Region(mem + 3 * iarray, size * SizeofInt)
      /\ regions[6] = Region(nodes, size * SizeofRingFbaaNode)
      /\ regions[7] = Region(nodes + narray, size * SizeofPointer)
      /\ regions[8] = Region(nodes + narray + parray, blocks)
  BY DEF RingFbaaLayout
<1> HIDE DEF u, mem, iarray, narray, parray, blocks, regions
<1>9. RingFbaaMemSize(size, block_size) = nodes + narray + parray + blocks
  <2> DEFINE n == nodes + narray + parray + blocks
  <2>1. n \in Nat /\ n <= IntMax
    BY <1>1, <1>2, <1>3, <1>4, <1>5, <1>6, <1>7, IntMaxAssumption
       DEF Slack, SizeofRingFbaa
  <2>2. mem + 4 * iarray + parray + narray + blocks = n
    BY <1>2, <1>4, <1>5, <1>6, <1>7
  <2>3. RingFbaaMemSize(size, block_size)
          = AsInt(mem + 4 * iarray + parray + narray + blocks)
    BY DEF RingFbaaMemSize, mem, iarray, parray, narray, blocks
  <2>4. QED BY <2>1, <2>2, <2>3, AsIntExact
<1>10. /\ (mem + iarray) % 16 = 0 /\ (mem + 2 * iarray) % 16 = 0
       /\ (mem + 3 * iarray) % 16 = 0 /\ nodes % 16 = 0
       /\ (nodes + narray) % 16 = 0 /\ (nodes + narray + parray) % 16 = 0
  BY <1>4, <1>5, <1>6, <1>7
<1>11. \A i \in 1 .. 7 :
         regions[i].start + regions[i].bytes <= regions[i + 1].start
  BY <1>2, <1>4, <1>5, <1>6, <1>7, <1>8 DEF Region, SizeofRingFbaa
<1>12. regions[8].start + regions[8].bytes <= RingFbaaMemSize(size, block_size)
  BY <1>2, <1>4, <1>5, <1>6, <1>7, <1>8, <1>9 DEF Region
<1>13. \A i \in 1 .. 8 : regions[i].start % 16 = 0
  BY <1>7, <1>8, <1>10 DEF Region
<1>14. QED BY <1>8, <1>11, <1>12, <1>13 DEF LaidOut, regions

\* arbt_new: the same for a tree and its nodes.
THEOREM ArrayRbtFits ==
  ASSUME NEW size \in Nat, Representable(size, 2 * SizeofInt + SizeofRbtNode)
  PROVE  LaidOut(ArrayRbtLayout(size), ArrayRbtMemSize(size))
<1> DEFINE u == 2 * SizeofInt + SizeofRbtNode
           mem == AlignSize(SizeofArrayRbt, 16)
           iarray == ArraySize(size, SizeofInt)
           regions == ArrayRbtLayout(size)
<1>1. u \in Nat /\ size * u + Slack <= IntMax /\ size * u \in Nat
  BY DEF Representable, SizeofInt, SizeofRbtNode
<1>2. /\ size * SizeofInt \in Nat /\ size * SizeofInt + 16 <= IntMax
      /\ size * SizeofRbtNode \in Nat
  BY <1>1, Products, SizeofInt <= u DEF SizeofInt, SizeofRbtNode
<1>3. size * u = 2 * (size * SizeofInt) + size * SizeofRbtNode
  BY DEF SizeofInt, SizeofRbtNode
<1>4. /\ iarray \in Nat /\ iarray % 16 = 0
      /\ size * SizeofInt < iarray /\ iarray <= size * SizeofInt + 16
  BY <1>2, ArrayHolds, SizeofInt \in Nat DEF SizeofInt
<1>5. /\ mem \in Nat /\ mem % 16 = 0
      /\ SizeofArrayRbt < mem /\ mem <= SizeofArrayRbt + 16
  BY AlignUp, IntMaxAssumption, SizeofArrayRbt \in Nat DEF SizeofArrayRbt
<1>6. ArrayRbtMemSize(size) = mem + 2 * iarray + size * SizeofRbtNode
  <2>1. /\ mem + 2 * iarray + size * SizeofRbtNode \in Nat
        /\ mem + 2 * iarray + size * SizeofRbtNode <= IntMax
    BY <1>1, <1>2, <1>3, <1>4, <1>5, IntMaxAssumption DEF Slack, SizeofArrayRbt
  <2>2. QED BY <2>1, AsIntExact DEF ArrayRbtMemSize
<1>7. (mem + iarray) % 16 = 0 /\ (mem + 2 * iarray) % 16 = 0
  BY <1>4, <1>5
<1>8. /\ Len(regions) = 4
      /\ regions[1] = Region(0, SizeofArrayRbt)
      /\ regions[2] = Region(mem, size * SizeofInt)
      /\ regions[3] = Region(mem + iarray, size * SizeofInt)
      /\ regions[4] = Region(mem + 2 * iarray, size * SizeofRbtNode)
  BY DEF ArrayRbtLayout
<1>9. \A i \in 1 .. 3 :
        regions[i].start + regions[i].bytes <= regions[i + 1].start
  BY <1>2, <1>4, <1>5, <1>8 DEF Region, SizeofArrayRbt
<1>10. regions[4].start + regions[4].bytes <= ArrayRbtMemSize(size)
  BY <1>2, <1>4, <1>5, <1>6, <1>8 DEF Region
<1>11. \A i \in 1 .. 4 : regions[i].start % 16 = 0
  BY <1>5, <1>7, <1>8 DEF Region
<1>12. QED BY <1>8, <1>9, <1>10, <1>11 DEF LaidOut

-----------------------------------------------------------------------------

\* Every pool that sgs_new lays out is one of three, of a natural size.
LEMMA CarvedPools ==
  ASSUME NEW exit \in NewExits, NEW accounts \in Nat, NEW size \in Nat,
         NEW pool \in Carved(exit, accounts, size)
  PROVE  \/ pool = SessionPool(size)
         \/ pool = RingPool(accounts, SizeofAccount)
         \/ pool = RingPool(size, SizeofGame)
BY DEF Carved

\* The pool of the sessions is where its memory is, if its size is an int.
LEMMA SessionPoolFits ==
  ASSUME NEW size \in Nat,
         Representable(SessionPool(size).size, SessionPool(size).unit)
  PROVE  Fits(SessionPool(size))
<1>1. SizeofSession \in Nat
  BY DEF SizeofSession, SizeofInt, PlayerDataSize
<1>2. /\ SessionPool(size).size = size
      /\ SessionPool(size).unit = 2 * SizeofInt + SizeofSession
      /\ SessionPool(size).layout = FbaaLayout(size, SizeofSession)
      /\ SessionPool(size).bytes = FbaaMemSize(size, SizeofSession)
  BY DEF SessionPool, Pool
<1>3. QED BY <1>1, <1>2, FbaaFits DEF Fits

\* So is the pool of the games or of the accounts.
LEMMA RingPoolFits ==
  ASSUME NEW size \in Nat, NEW block_size \in Nat,
         Representable(RingPool(size, block_size).size,
                       RingPool(size, block_size).unit)
  PROVE  Fits(RingPool(size, block_size))
<1>1. /\ RingPool(size, block_size).size = size
      /\ RingPool(size, block_size).unit
           = 4 * SizeofInt + SizeofRingFbaaNode + SizeofPointer + block_size
      /\ RingPool(size, block_size).layout = RingFbaaLayout(size, block_size)
      /\ RingPool(size, block_size).bytes = RingFbaaMemSize(size, block_size)
  BY DEF RingPool, Pool
<1>2. QED BY <1>1, RingFbaaFits DEF Fits

\* sgs_new never writes outside the memory it asked for when the sizes it
\* computes fit an int: PoolsFit is kept because every step but New lays
\* nothing out.
THEOREM PoolsAlwaysFit == Spec => []PoolsFit
<1>1. Init => PoolsFit
  BY DEF Init, PoolsFit
<1>2. PoolsFit /\ [Next]_vars => PoolsFit'
  <2> SUFFICES ASSUME PoolsFit, [Next]_vars PROVE PoolsFit'
    OBVIOUS
  <2>1. ASSUME NEW size \in Sizes, NEW accounts \in DbSizes, NEW exit \in NewExits,
               NEW sized \in BOOLEAN, NEW kept \in BOOLEAN,
               New(size, accounts, exit, sized, kept)
        PROVE  PoolsFit'
    <3>1. size \in Nat /\ accounts \in Nat
      BY LifeAssumption
    <3>2. carved' \subseteq Carved(exit, accounts, size)
      BY <2>1 DEF New
    <3>3. SizeofAccount \in Nat /\ SizeofGame \in Nat
      BY DEF SizeofAccount, SizeofGame, SizeofInt, GameMaxPlayers, GameDataSize
    <3>4. ASSUME NEW pool \in carved', Representable(pool.size, pool.unit)
          PROVE  Fits(pool)
      BY <3>1, <3>2, <3>3, <3>4, CarvedPools, SessionPoolFits, RingPoolFits
    <3>5. QED BY <3>4 DEF PoolsFit
  <2>2. CASE UNCHANGED vars
    BY <2>2 DEF vars, PoolsFit
  <2>3. CASE carved' = {}
    BY <2>3 DEF PoolsFit
  <2>4. Next => \/ \E size \in Sizes, accounts \in DbSizes, exit \in NewExits,
                      sized, kept \in BOOLEAN : New(size, accounts, exit, sized, kept)
                \/ carved' = {}
    BY DEF Next, Start, Listen, Destroy, Crash, ForceCloseGame, StartGame, CloseGame,
           CloseAccount
  <2>5. QED BY <2>1, <2>2, <2>3, <2>4
<1>3. QED BY <1>1, <1>2, PTL DEF Spec

\* What the process holds.  A process that faulted has taken no more than a server
\* has, beside descriptors it lost before, and the next crash gives all of it back.
HeldInv ==
  /\ phase \in {"none", "up", "listening", "fault"}
  /\ held \subseteq NewTakes("done") \cup Sockets
  /\ lost \in [Sockets -> Nat] /\ relistens \in 0 .. MaxRelistens
  /\ HeldExactly

\* Before the first start the process holds nothing.
LEMMA HeldInit == Init => HeldInv
BY LifeAssumption DEF Init, HeldInv, HeldExactly, Sockets

\* sgs_listen's fields are those of its descriptors, each exit gives back what it
\* took or sets no field but those it took, and only the last one keeps them.
LEMMA ListenDescriptors ==
  ASSUME NEW exit \in ListenExits
  PROVE  /\ ListenSets(exit) \subseteq Sockets /\ ListenTakes(exit) \subseteq Sockets
         /\ exit = "done" => ListenTakes(exit) \ ListenGivesBack(exit) = Sockets
         /\ exit # "done" => ListenTakes(exit) \ ListenGivesBack(exit) = {}
         /\ NewTakes("done") \cap Sockets = {}
BY DEF ListenExits, ListenSets, ListenTakes, ListenGivesBack, NewTakes, Sockets

\* Every exit of every call gives back what it took, or keeps it for the running
\* server, and a call of sgs_listen loses a descriptor of a kind at most, on a
\* server that has listened.
LEMMA HeldStep == HeldInv /\ [Next]_vars => HeldInv'
<1> SUFFICES ASSUME HeldInv, [Next]_vars PROVE HeldInv'
  OBVIOUS
<1>1. ASSUME NEW size \in Sizes, NEW accounts \in DbSizes, NEW exit \in NewExits,
             NEW sized \in BOOLEAN, NEW kept \in BOOLEAN,
             New(size, accounts, exit, sized, kept)
      PROVE  HeldInv'
  <2>1. /\ \/ phase' = "fault" /\ held' = NewTakes(exit)
           \/ /\ phase' = IF exit = "done" THEN "up" ELSE "none"
              /\ held' = NewTakes(exit) \ NewGivesBack(exit)
        /\ UNCHANGED <<lost, relistens>>
    BY <1>1 DEF New
  <2>2. CASE phase' = "fault" /\ held' = NewTakes(exit)
    <3>1. NewTakes(exit) \subseteq NewTakes("done")
      BY DEF NewExits, NewTakes
    <3>2. QED BY <2>1, <2>2, <3>1 DEF HeldInv, HeldExactly
  <2>3. CASE exit = "done" /\ phase' = "up" /\ held' = NewTakes(exit) \ NewGivesBack(exit)
    <3>1. held' = NewTakes("done")
      BY <2>3 DEF NewTakes, NewGivesBack
    <3>2. QED BY <2>1, <2>3, <3>1 DEF HeldInv, HeldExactly
  <2>4. CASE exit # "done" /\ phase' = "none" /\ held' = NewTakes(exit) \ NewGivesBack(exit)
    <3>1. held' = {}
      BY <2>4 DEF NewExits, NewTakes, NewGivesBack
    <3>2. QED BY <2>1, <2>4, <3>1 DEF HeldInv, HeldExactly
  <2>5. QED BY <2>1, <2>2, <2>3, <2>4
<1>2. ASSUME NEW exit \in ListenExits, Listen(exit)
      PROVE  HeldInv'
  <2>1. /\ phase \in {"up", "listening"} /\ relistens \in Nat
        /\ phase = "listening" => relistens < MaxRelistens
        /\ held' = (held \ ListenSets(exit))
                     \cup (ListenTakes(exit) \ ListenGivesBack(exit))
        /\ lost' = [fd \in Sockets |->
                      lost[fd] + (IF fd \in held \cap ListenSets(exit) THEN 1 ELSE 0)]
        /\ relistens' = relistens + (IF phase = "listening" THEN 1 ELSE 0)
        /\ phase' = IF exit = "done" THEN "listening" ELSE phase
    BY <1>2 DEF Listen, HeldInv
  <2>2. held' \subseteq NewTakes("done") \cup Sockets
    BY <2>1, ListenDescriptors DEF HeldInv
  <2>3. relistens' \in 0 .. MaxRelistens
    BY <2>1, LifeAssumption DEF HeldInv
  <2>4. lost' \in [Sockets -> Nat] /\ \A fd \in Sockets : lost'[fd] <= relistens'
    <3> SUFFICES ASSUME NEW fd \in Sockets
                 PROVE  lost'[fd] \in Nat /\ lost'[fd] <= relistens'
      BY <2>1
    <3>1. lost[fd] \in Nat /\ lost[fd] <= relistens
      BY DEF HeldInv, HeldExactly
    <3>2. phase = "up" => fd \notin held
      BY ListenDescriptors DEF HeldInv, HeldExactly
    <3>3. lost'[fd] = lost[fd] + (IF fd \in held \cap ListenSets(exit) THEN 1 ELSE 0)
      BY <2>1
    <3>4. QED BY <2>1, <3>1, <3>2, <3>3
  <2>5. held' \ Sockets = NewTakes("done")
    <3>1. held \ Sockets = NewTakes("done")
      BY <2>1, ListenDescriptors DEF HeldInv, HeldExactly
    <3>2. QED BY <2>1, <3>1, ListenDescriptors
  <2>6. CASE exit = "done"
    BY <2>1, <2>2, <2>3, <2>4, <2>5, <2>6, ListenDescriptors DEF HeldInv, HeldExactly
  <2>7. CASE exit # "done" /\ phase = "up"
    <3>1. held' = NewTakes("done") /\ phase' = "up"
      BY <2>1, <2>7, ListenDescriptors DEF HeldInv, HeldExactly
    <3>2. QED BY <2>2, <2>3, <2>4, <3>1 DEF HeldInv, HeldExactly
  <2>8. CASE exit # "done" /\ phase = "listening"
    <3>1. phase' = "listening" /\ relistens' # 0
      BY <2>1, <2>8
    <3>2. QED BY <2>2, <2>3, <2>4, <2>5, <3>1 DEF HeldInv, HeldExactly
  <2>9. QED BY <2>1, <2>6, <2>7, <2>8
<1>3. ASSUME Destroy PROVE HeldInv'
  <2>1. /\ phase' = "none" /\ UNCHANGED <<lost, relistens>>
        /\ held' = held \ {"adb_fd", "server_fd", "epoll_fd", "mapping", "sessions",
                           "games", "sgs"}
    BY <1>3 DEF Destroy
  <2>2. held' = {}
    BY <2>1 DEF HeldInv, NewTakes, Sockets
  <2>3. QED BY <2>1, <2>2 DEF HeldInv, HeldExactly
<1>4. ASSUME Crash PROVE HeldInv'
  <2>1. /\ phase' = "none" /\ held' = {} /\ relistens' = 0
        /\ lost' = [fd \in Sockets |-> 0]
    BY <1>4 DEF Crash
  <2>2. QED BY <2>1, LifeAssumption DEF HeldInv, HeldExactly
<1>5. CASE UNCHANGED <<phase, descriptors>>
  BY <1>5 DEF HeldInv, HeldExactly, descriptors
<1>6. UNCHANGED vars => UNCHANGED <<phase, descriptors>>
  BY DEF vars
<1>7. QED
  BY <1>1, <1>2, <1>3, <1>4, <1>5, <1>6
     DEF Next, Start, ForceCloseGame, StartGame, CloseGame, CloseAccount

\* No exit of sgs_new or sgs_listen gives back what the server goes on using or
\* keeps what it does not, and sgs_destroy gives back the rest, except for what
\* calls of sgs_listen overwrite on a server that has listened: at most one
\* descriptor of each kind a call.
THEOREM HeldAlwaysExact == Spec => []HeldExactly
<1>1. HeldInv => HeldExactly
  BY DEF HeldInv
<1>2. QED BY <1>1, HeldInit, HeldStep, PTL DEF Spec

-----------------------------------------------------------------------------
(* The account database.                                                   *)

\* A database of n accounts, each free or in use and never both.
DbOK(db, n) ==
  /\ db = Adb(db.free, db.ages, db.accounts)
  /\ db.free \in Seq(0 .. n - 1) /\ IsInjective(db.free)
  /\ db.ages \in Seq(0 .. n - 1) /\ IsInjective(db.ages)
  /\ Range(db.free) \cap Range(db.ages) = {}
  /\ Len(db.free) + Len(db.ages) = n
  /\ db.accounts \in [0 .. n - 1 -> Data \cup {Blank}]

\* The first element of a sequence without repetition, and the others.
LEMMA HeadOff ==
  ASSUME NEW S, NEW s \in Seq(S), s # <<>>, IsInjective(s)
  PROVE  /\ Head(s) \in S /\ Head(s) \in Range(s)
         /\ Tail(s) \in Seq(S) /\ Len(Tail(s)) = Len(s) - 1
         /\ IsInjective(Tail(s)) /\ Range(Tail(s)) = Range(s) \ {Head(s)}
<1>1. 1 \in 1 .. Len(s) /\ Head(s) = s[1] /\ s[1] \in S /\ DOMAIN s = 1 .. Len(s)
  OBVIOUS
<1>2. Tail(s) \in Seq(S) /\ Len(Tail(s)) = Len(s) - 1
  OBVIOUS
<1>3. RemoveAt(s, 1) = Tail(s)
  BY RemoveAtFront
<1>4. IsInjective(Tail(s))
  BY <1>1, <1>3, ShortenedInjective
<1>5. Range(Tail(s)) = Range(s) \ {s[1]}
  <2>1. \A i, j \in 1 .. Len(s) : s[i] = s[j] => i = j
    BY <1>1 DEF IsInjective
  <2>2. QED BY <1>1, <1>3, <2>1, RemovedRange
<1>6. s[1] \in Range(s)
  BY <1>1 DEF Range
<1>7. QED BY <1>1, <1>2, <1>4, <1>5, <1>6

\* A new element in front of a sequence without repetition.
LEMMA HeadOn ==
  ASSUME NEW S, NEW q \in Seq(S), IsInjective(q), NEW x \in S, x \notin Range(q)
  PROVE  /\ <<x>> \o q \in Seq(S) /\ Len(<<x>> \o q) = Len(q) + 1
         /\ IsInjective(<<x>> \o q) /\ Range(<<x>> \o q) = Range(q) \cup {x}
<1> DEFINE p == <<x>>
<1>1. p \in Seq(S) /\ Len(p) = 1 /\ p[1] = x /\ DOMAIN p = {1}
  OBVIOUS
<1> HIDE DEF p
<1>2. Range(p) = {x} /\ IsInjective(p)
  BY <1>1 DEF Range, IsInjective
<1>3. IsInjective(p \o q)
  BY <1>1, <1>2, JoinedInjective
<1>4. Range(p \o q) = Range(p) \cup Range(q)
  BY <1>1, RangeConcatenation
<1>5. p \o q \in Seq(S) /\ Len(p \o q) = Len(q) + 1
  <2>1. p \o q \in Seq(S) /\ Len(p \o q) = Len(p) + Len(q)
    BY <1>1, ConcatProperties, SMTT(30)
  <2>2. Len(q) \in Nat
    OBVIOUS
  <2>3. QED BY <1>1, <2>1, <2>2
<1>6. QED BY <1>2, <1>3, <1>4, <1>5 DEF p

\* sgs_adb_new makes a database with every account free.
LEMMA NewDb ==
  ASSUME NEW n \in Nat, NEW m \in Nat, NEW kept \in BOOLEAN,
         NEW stored \in [0 .. m - 1 -> Data \cup {Blank}]
  PROVE  DbOK(AdbNew(n, stored, kept), n)
<1> DEFINE free == [i \in 1 .. n |-> i - 1]
           db == AdbNew(n, stored, kept)
<1>1. free \in Seq(0 .. n - 1) /\ Len(free) = n /\ DOMAIN free = 1 .. n
  <2>1. \A i \in 1 .. n : i - 1 \in 0 .. n - 1
    OBVIOUS
  <2>2. QED BY <2>1
<1>2. IsInjective(free)
  BY DEF IsInjective
<1>3. IsInjective(<<>>) /\ Range(<<>>) = {} /\ <<>> \in Seq(0 .. n - 1) /\ Len(<<>>) = 0
  BY DEF IsInjective, Range
<1>4. db.free = free /\ db.ages = <<>> /\ db = Adb(db.free, db.ages, db.accounts)
  BY DEF AdbNew, Adb
<1>5. db.accounts \in [0 .. n - 1 -> Data \cup {Blank}]
  BY DEF AdbNew, Adb
<1> HIDE DEF db, free
<1>6. DbOK(db, n)
  BY <1>1, <1>2, <1>3, <1>4, <1>5 DEF DbOK
<1>7. QED BY <1>6 DEF db

\* Giving up the oldest account, if none is free, leaves one free and overwrites no data.
LEMMA RoomDb ==
  ASSUME NEW n \in Nat \ {0}, NEW db, DbOK(db, n)
  PROVE  /\ DbOK(WithRoom(db), n) /\ WithRoom(db).free # <<>>
         /\ WithRoom(db).accounts = db.accounts
<1> DEFINE ids == 0 .. n - 1
<1>1. CASE db.free # <<>>
  BY <1>1 DEF WithRoom
<1>2. CASE db.free = <<>>
  <2> DEFINE t == FreeOldest(db)
  <2>1. db.ages # <<>> /\ db.ages \in Seq(ids) /\ IsInjective(db.ages) /\ Len(db.ages) = n
    BY <1>2 DEF DbOK
  <2>2. /\ Head(db.ages) \in ids /\ Head(db.ages) \in Range(db.ages)
        /\ Tail(db.ages) \in Seq(ids) /\ Len(Tail(db.ages)) = n - 1
        /\ IsInjective(Tail(db.ages))
        /\ Range(Tail(db.ages)) = Range(db.ages) \ {Head(db.ages)}
    BY <2>1, HeadOff
  <2>3. /\ <<Head(db.ages)>> \o db.free \in Seq(ids)
        /\ Len(<<Head(db.ages)>> \o db.free) = 1
        /\ IsInjective(<<Head(db.ages)>> \o db.free)
        /\ Range(<<Head(db.ages)>> \o db.free) = {Head(db.ages)}
    <3>1. /\ IsInjective(db.free) /\ Range(db.free) = {} /\ db.free \in Seq(ids)
          /\ Len(db.free) = 0
      BY <1>2 DEF IsInjective, Range
    <3> HIDE DEF ids
    <3>2. QED BY <2>2, <3>1, HeadOn
  <2>4. /\ t = Adb(t.free, t.ages, t.accounts) /\ t.accounts = db.accounts
        /\ t.free = <<Head(db.ages)>> \o db.free /\ t.ages = Tail(db.ages)
    BY DEF FreeOldest, Adb
  <2> HIDE DEF t, ids
  <2>5. DbOK(t, n)
    <3>1. Range(t.free) \cap Range(t.ages) = {} /\ Len(t.free) + Len(t.ages) = n
      <4>1. /\ Range(t.free) = {Head(db.ages)}
            /\ Range(t.ages) = Range(db.ages) \ {Head(db.ages)}
            /\ Len(t.free) = 1 /\ Len(t.ages) = n - 1
        BY <2>2, <2>3, <2>4
      <4>2. QED BY <4>1
    <3>2. t.accounts \in [0 .. n - 1 -> Data \cup {Blank}]
      BY <2>4 DEF DbOK
    <3>3. QED BY <2>2, <2>3, <2>4, <3>1, <3>2 DEF DbOK, ids
  <2>6. t.free # <<>>
    BY <2>3, <2>4
  <2>7. QED BY <1>2, <2>4, <2>5, <2>6 DEF WithRoom, t
<1>3. QED BY <1>1, <1>2

\* sgs_adb_create_account.
LEMMA CreateDb ==
  ASSUME NEW n \in Nat \ {0}, NEW db, DbOK(db, n)
  PROVE  /\ DbOK(AdbCreate(db), n) /\ AdbCreate(db).accounts = db.accounts
         /\ AdbCreated(db) \in 0 .. n - 1
<1> DEFINE r == WithRoom(db)
           ids == 0 .. n - 1
           id == Head(r.free)
           t == AdbCreate(db)
<1>1. DbOK(r, n) /\ r.free # <<>> /\ r.accounts = db.accounts
  BY RoomDb
<1>2. /\ t = Adb(t.free, t.ages, t.accounts) /\ t.accounts = db.accounts
      /\ t.free = Tail(r.free) /\ t.ages = Append(r.ages, id)
  BY DEF AdbCreate, AdbCreated, Adb
<1>3. AdbCreated(db) = id
  BY DEF AdbCreated
<1> HIDE DEF r, t, ids
<1>4. /\ r.free \in Seq(ids) /\ IsInjective(r.free) /\ r.ages \in Seq(ids)
      /\ IsInjective(r.ages) /\ Range(r.free) \cap Range(r.ages) = {}
      /\ Len(r.free) + Len(r.ages) = n
      /\ r.accounts \in [ids -> Data \cup {Blank}]
  BY <1>1 DEF DbOK, ids
<1>5. /\ id \in ids /\ id \in Range(r.free)
      /\ t.free \in Seq(ids) /\ Len(t.free) = Len(r.free) - 1
      /\ IsInjective(t.free) /\ Range(t.free) = Range(r.free) \ {id}
  BY <1>1, <1>2, <1>4, HeadOff
<1> HIDE DEF id
<1>6. t.ages \in Seq(ids) /\ IsInjective(t.ages) /\ Len(t.ages) = Len(r.ages) + 1
  BY <1>2, <1>4, <1>5, LengthenedInjective
<1>7. Range(t.ages) = Range(r.ages) \cup {id}
  BY <1>2, <1>4, <1>5, AppendedRange
<1>8. Range(t.free) \cap Range(t.ages) = {}
  BY <1>4, <1>5, <1>7
<1>9. Len(t.free) + Len(t.ages) = n
  <2> DEFINE a == Len(r.free)
             b == Len(r.ages)
             c == Len(t.free)
             d == Len(t.ages)
  <2>1. a \in Int /\ b \in Int
    BY <1>4
  <2>2. c = a - 1 /\ d = b + 1
    BY <1>5, <1>6
  <2>3. a + b = n
    BY <1>4
  <2> HIDE DEF a, b, c, d
  <2>4. c + d = n
    BY <2>1, <2>2, <2>3
  <2>5. QED BY <2>4 DEF c, d
<1>10. DbOK(t, n)
  BY <1>1, <1>2, <1>4, <1>5, <1>6, <1>8, <1>9 DEF DbOK, ids
<1>11. QED BY <1>2, <1>3, <1>5, <1>10 DEF t, ids

\* sgs_adb_close_account.
LEMMA CloseDb ==
  ASSUME NEW n \in Nat, NEW db, DbOK(db, n), NEW id
  PROVE  DbOK(AdbClose(db, id), n) /\ AdbClose(db, id).accounts = db.accounts
<1> DEFINE ids == 0 .. n - 1
           k == AgeIndex(db, id)
           t == AdbClose(db, id)
<1>1. CASE id \notin ToSet(db.ages)
  BY <1>1 DEF AdbClose
<1>2. CASE id \in ToSet(db.ages)
  <2>1. /\ db.free \in Seq(ids) /\ IsInjective(db.free) /\ db.ages \in Seq(ids)
        /\ IsInjective(db.ages) /\ Range(db.free) \cap Range(db.ages) = {}
        /\ Len(db.free) + Len(db.ages) = n
        /\ db.accounts \in [ids -> Data \cup {Blank}]
    BY DEF DbOK
  <2>2. DOMAIN db.ages = 1 .. Len(db.ages)
    BY <2>1
  <2>3. k \in 1 .. Len(db.ages) /\ db.ages[k] = id
    BY <1>2, <2>2 DEF ToSet, AgeIndex
  <2>4. /\ t = Adb(t.free, t.ages, t.accounts) /\ t.accounts = db.accounts
        /\ t.free = <<id>> \o db.free /\ t.ages = RemoveAt(db.ages, k)
    BY <1>2 DEF AdbClose, Adb
  <2> HIDE DEF ids, k, t
  <2>5. id \in ids /\ id \in Range(db.ages)
    BY <2>1, <2>2, <2>3 DEF Range
  <2>6. t.ages \in Seq(ids) /\ Len(t.ages) = Len(db.ages) - 1 /\ IsInjective(t.ages)
    BY <2>1, <2>3, <2>4, RemoveAtEffect, ShortenedInjective
  <2>7. Range(t.ages) = Range(db.ages) \ {id}
    <3>1. \A i, j \in 1 .. Len(db.ages) : db.ages[i] = db.ages[j] => i = j
      BY <2>1, <2>2 DEF IsInjective
    <3>2. QED BY <2>1, <2>3, <2>4, <3>1, RemovedRange
  <2>8. id \notin Range(db.free)
    BY <2>1, <2>5
  <2>9. /\ t.free \in Seq(ids) /\ Len(t.free) = Len(db.free) + 1
        /\ IsInjective(t.free) /\ Range(t.free) = Range(db.free) \cup {id}
    BY <2>1, <2>4, <2>5, <2>8, HeadOn
  <2>10. Range(t.free) \cap Range(t.ages) = {}
    BY <2>1, <2>7, <2>9
  <2>11. Len(t.free) + Len(t.ages) = n
    <3> DEFINE a == Len(db.free)
               b == Len(db.ages)
               c == Len(t.free)
               d == Len(t.ages)
    <3>1. a \in Int /\ b \in Int
      BY <2>1
    <3>2. c = a + 1 /\ d = b - 1
      BY <2>6, <2>9
    <3>3. a + b = n
      BY <2>1
    <3> HIDE DEF a, b, c, d
    <3>4. c + d = n
      BY <3>1, <3>2, <3>3
    <3>5. QED BY <3>4 DEF c, d
  <2>12. DbOK(t, n)
    BY <2>1, <2>4, <2>6, <2>9, <2>10, <2>11 DEF DbOK, ids
  <2>13. QED BY <2>4, <2>12 DEF t
<1>3. QED BY <1>1, <1>2

\* sgs_adb_set_data.
LEMMA SetDb ==
  ASSUME NEW n \in Nat, NEW db, DbOK(db, n), NEW id, NEW data \in Data,
         NEW i, NEW unsaved
  PROVE  DbOK(AdbSetData(db, id, data, i \notin unsaved), n)
<1>1. db.accounts \in [0 .. n - 1 -> Data \cup {Blank}]
  BY DEF DbOK
<1>2. CASE i \notin unsaved /\ id \in 0 .. n - 1
  <2> DEFINE t == AdbSetData(db, id, data, i \notin unsaved)
  <2>1. /\ t = Adb(t.free, t.ages, t.accounts) /\ t.free = db.free /\ t.ages = db.ages
        /\ t.accounts = [db.accounts EXCEPT ![id] = data]
    BY <1>1, <1>2 DEF AdbSetData, Adb
  <2>2. t.accounts \in [0 .. n - 1 -> Data \cup {Blank}]
    BY <1>1, <2>1
  <2> HIDE DEF t
  <2>3. DbOK(t, n)
    BY <2>1, <2>2 DEF DbOK
  <2>4. QED BY <2>3 DEF t
<1>3. CASE ~(i \notin unsaved /\ id \in 0 .. n - 1)
  BY <1>1, <1>3 DEF AdbSetData
<1>4. QED BY <1>2, <1>3

-----------------------------------------------------------------------------
(* The players of a game, and what is saved and sent for them.             *)

\* A player, and what a client logs in with, when the accounts are Ids.
PlayerType == [client : Clients, account_id : Ids \cup {None}, data : Data,
               open : BOOLEAN, saved : BOOLEAN]
TokenType  == [account : Ids, data : Data \cup {Outdated}] \cup {NoToken}

\* TokensHonoured, of any database, players and tokens.
Honoured(db, players, toks) ==
  /\ \A c \in Clients : toks[c].data # Outdated =>
       AdbVerify(db, toks[c].account, toks[c].data)
  /\ \A i \in DOMAIN players : players[i].saved =>
       AdbVerify(db, players[i].account_id, players[i].data)

\* Where sgs_close_game may have got to with m players and n accounts.
EndingType(n, m) ==
  [adb : [free : Seq(0 .. n - 1), ages : Seq(0 .. n - 1),
          accounts : [0 .. n - 1 -> Data \cup {Blank}]],
   players : [1 .. m -> PlayerType], tokens : [Clients -> TokenType],
   done : BOOLEAN]

Good(e, n, m) ==
  /\ e \in EndingType(n, m)
  /\ DbOK(e.adb, n)
  /\ \A i, j \in 1 .. m : e.players[i].client = e.players[j].client => i = j
  /\ Honoured(e.adb, e.players, e.tokens)

\* Account numbers are numbers, and SGS_ACCOUNT_ID_NONE is not one of them.
LEMMA IdsAreNat == Ids \subseteq Nat /\ None \notin Ids /\ \A n \in DbSizes : 0 .. n - 1 \subseteq Ids
BY LifeAssumption DEF Ids, None

\* What the ending of a game has in each field, and each field's type.
LEMMA GoodFields ==
  ASSUME NEW n \in DbSizes, NEW m \in Nat, NEW e, Good(e, n, m)
  PROVE  /\ e.adb.accounts \in [0 .. n - 1 -> Data \cup {Blank}]
         /\ e.players \in [1 .. m -> PlayerType]
         /\ e.tokens \in [Clients -> TokenType]
         /\ e.done \in BOOLEAN
         /\ \A c \in Clients : /\ e.tokens[c].account \in Ids \cup {None}
                               /\ e.tokens[c].data \in Data \cup {Outdated}
         /\ \A i \in 1 .. m : /\ e.players[i].client \in Clients
                              /\ e.players[i].account_id \in Ids \cup {None}
                              /\ e.players[i].data \in Data
<1>1. e \in EndingType(n, m)
  BY DEF Good
<1>2. /\ e.adb.accounts \in [0 .. n - 1 -> Data \cup {Blank}]
      /\ e.players \in [1 .. m -> PlayerType]
      /\ e.tokens \in [Clients -> TokenType]
      /\ e.done \in BOOLEAN
  BY <1>1 DEF EndingType
<1>3. ASSUME NEW c \in Clients
      PROVE  e.tokens[c].account \in Ids \cup {None} /\ e.tokens[c].data \in Data \cup {Outdated}
  <2>1. e.tokens[c] \in TokenType
    BY <1>2
  <2>2. QED BY <2>1 DEF TokenType, NoToken, Token
<1>4. ASSUME NEW i \in 1 .. m
      PROVE  /\ e.players[i].client \in Clients
             /\ e.players[i].account_id \in Ids \cup {None}
             /\ e.players[i].data \in Data
  <2>1. e.players[i] \in PlayerType
    BY <1>2
  <2>2. QED BY <2>1 DEF PlayerType
<1>5. QED BY <1>2, <1>3, <1>4

\* To be good, from the parts.
LEMMA MakeGood ==
  ASSUME NEW n \in DbSizes, NEW m \in Nat, NEW db, NEW players, NEW toks, NEW done,
         DbOK(db, n), players \in [1 .. m -> PlayerType],
         toks \in [Clients -> TokenType], done \in BOOLEAN,
         \A i, j \in 1 .. m : players[i].client = players[j].client => i = j,
         Honoured(db, players, toks)
  PROVE  Good(Ending(db, players, toks, done), n, m)
<1> DEFINE e == Ending(db, players, toks, done)
<1>1. e.adb = db /\ e.players = players /\ e.tokens = toks /\ e.done = done
  BY DEF Ending
<1>2. db \in [free : Seq(0 .. n - 1), ages : Seq(0 .. n - 1),
              accounts : [0 .. n - 1 -> Data \cup {Blank}]]
  BY DEF DbOK, Adb
<1>3. e \in EndingType(n, m)
  BY <1>2 DEF EndingType, Ending
<1> HIDE DEF e
<1>4. Good(e, n, m)
  BY <1>1, <1>3 DEF Good
<1>5. QED BY <1>4 DEF e

\* Each player keeps its client, its data and whether it is open; s says which
\* of its players may have another account.
KeepsPlayers(e, t, m, s) ==
  \A i \in 1 .. m :
    /\ t.players[i].client = e.players[i].client
    /\ t.players[i].data = e.players[i].data
    /\ i \notin s => t.players[i].account_id = e.players[i].account_id

\* Tokens stay or are outdated.
KeepsTokens(e, t) ==
  \A c \in Clients :
    /\ t.tokens[c].account = e.tokens[c].account
    /\ t.tokens[c].data \in {e.tokens[c].data, Outdated}

\* sgs_adb_set_data for a player with an account.
LEMMA SavedGood ==
  ASSUME NEW n \in DbSizes, NEW m \in Nat, NEW e, Good(e, n, m),
         NEW i \in 1 .. m, NEW unsaved, e.players[i].account_id # None
  PROVE  LET t == Saved(e, i, unsaved) IN
         /\ Good(t, n, m) /\ KeepsPlayers(e, t, m, {}) /\ KeepsTokens(e, t)
         /\ \A a \in 0 .. n - 1 : a # e.players[i].account_id =>
              t.adb.accounts[a] = e.adb.accounts[a]
         /\ t.done = e.done
<1> DEFINE p == e.players[i]
           id == p.account_id
           ok == i \notin unsaved /\ id \in 0 .. n - 1
           db == AdbSetData(e.adb, id, p.data, i \notin unsaved)
           players == [j \in DOMAIN e.players |->
               LET q == e.players[j] IN
               IF q.account_id # id \/ (j # i /\ ~ok) THEN q
               ELSE Player(q.client, q.account_id, q.data, q.open, ok /\ j = i)]
           toks == [c \in Clients |->
               IF e.tokens[c].account # id \/ (c # p.client /\ ~ok) THEN e.tokens[c]
               ELSE Token(id, Outdated)]
<1>1. /\ e.adb.accounts \in [0 .. n - 1 -> Data \cup {Blank}]
      /\ e.players \in [1 .. m -> PlayerType]
      /\ e.tokens \in [Clients -> TokenType]
      /\ e.done \in BOOLEAN
      /\ p.client \in Clients /\ id \in Ids /\ p.data \in Data
  BY GoodFields
<1>2. Saved(e, i, unsaved) = Ending(db, players, toks, e.done)
  BY <1>1 DEF Saved
<1>3. DbOK(db, n)
  <2>1. DbOK(e.adb, n) /\ n \in Nat
    BY LifeAssumption DEF Good
  <2>2. QED BY <1>1, <2>1, SetDb
<1>saved. \/ /\ ok /\ db.accounts[id] = p.data
             /\ \A a \in 0 .. n - 1 : a # id => db.accounts[a] = e.adb.accounts[a]
          \/ ~ok /\ db = e.adb
  <2>1. CASE ok
    <3>1. db.accounts = [e.adb.accounts EXCEPT ![id] = p.data]
      BY <1>1, <2>1 DEF AdbSetData, Adb
    <3> HIDE DEF db
    <3>2. QED BY <1>1, <2>1, <3>1
  <2>2. CASE ~ok
    BY <1>1, <2>2 DEF AdbSetData
  <2>3. QED BY <2>1, <2>2
<1>4. DOMAIN e.players = 1 .. m
  BY <1>1
<1>5. ASSUME NEW j \in 1 .. m
      PROVE  /\ players[j].client = e.players[j].client
             /\ players[j].data = e.players[j].data
             /\ players[j].account_id = e.players[j].account_id
             /\ players[j] \in PlayerType
             /\ players[j].saved => \/ j = i /\ ok
                                    \/ /\ players[j] = e.players[j]
                                       /\ e.players[j].account_id # id \/ ~ok
  <2> DEFINE q == e.players[j]
  <2>1. q \in PlayerType
    BY <1>1
  <2>2. players[j] = IF q.account_id # id \/ (j # i /\ ~ok) THEN q
                     ELSE Player(q.client, q.account_id, q.data, q.open, ok /\ j = i)
    BY <1>4
  <2> HIDE DEF players, q, ok, id
  <2>3. CASE q.account_id # id \/ (j # i /\ ~ok)
    BY <2>1, <2>2, <2>3 DEF q
  <2>4. CASE ~(q.account_id # id \/ (j # i /\ ~ok))
    <3>1. (ok /\ j = i) \in BOOLEAN
      OBVIOUS
    <3>2. /\ players[j].client = q.client /\ players[j].data = q.data
          /\ players[j].account_id = q.account_id /\ players[j] \in PlayerType
      BY <2>1, <2>2, <2>4, <3>1 DEF Player, PlayerType
    <3>3. players[j].saved = (ok /\ j = i)
      BY <2>2, <2>4 DEF Player
    <3>4. QED BY <3>2, <3>3 DEF q
  <2>5. QED BY <2>3, <2>4
<1>6. ASSUME NEW c \in Clients
      PROVE  /\ toks[c] \in TokenType
             /\ toks[c].account = e.tokens[c].account
             /\ toks[c].data \in {e.tokens[c].data, Outdated}
             /\ toks[c].data # Outdated =>
                  toks[c] = e.tokens[c] /\ (e.tokens[c].account # id \/ ~ok)
  <2>1. e.tokens[c] \in TokenType
    BY <1>1
  <2>2. toks[c] = IF e.tokens[c].account # id \/ (c # p.client /\ ~ok) THEN e.tokens[c]
                  ELSE Token(id, Outdated)
    OBVIOUS
  <2> HIDE DEF toks, ok
  <2>3. Token(id, Outdated) \in TokenType /\ Token(id, Outdated).account = id
        /\ Token(id, Outdated).data = Outdated
    BY <1>1 DEF TokenType, Token
  <2>4. QED BY <2>1, <2>2, <2>3
<1> HIDE DEF db, players, toks
<1>7. players \in [1 .. m -> PlayerType] /\ toks \in [Clients -> TokenType]
  <2>1. players = [j \in 1 .. m |-> players[j]] /\ toks = [c \in Clients |-> toks[c]]
    BY <1>4 DEF players, toks
  <2>2. QED BY <1>5, <1>6, <2>1
<1>8. Honoured(db, players, toks)
  <2>1. Honoured(e.adb, e.players, e.tokens)
    BY DEF Good
  <2>2. db.accounts \in [0 .. n - 1 -> Data \cup {Blank}]
    BY <1>3 DEF DbOK
  <2>3. ASSUME NEW a, NEW data, a # id \/ ~ok, AdbVerify(e.adb, a, data)
        PROVE  AdbVerify(db, a, data)
    BY <1>1, <1>saved, <2>2, <2>3 DEF AdbVerify
  <2>4. ok => AdbVerify(db, id, p.data)
    BY <1>1, <1>saved, <2>2 DEF AdbVerify
  <2>5. ASSUME NEW c \in Clients, toks[c].data # Outdated
        PROVE  AdbVerify(db, toks[c].account, toks[c].data)
    BY <1>6, <2>1, <2>3, <2>5 DEF Honoured
  <2>6. ASSUME NEW j \in 1 .. m, players[j].saved
        PROVE  AdbVerify(db, players[j].account_id, players[j].data)
    <3>1. CASE j = i /\ ok
      BY <1>5, <2>4, <3>1
    <3>2. CASE players[j] = e.players[j] /\ (e.players[j].account_id # id \/ ~ok)
      BY <1>4, <2>1, <2>3, <2>6, <3>2 DEF Honoured
    <3>3. QED BY <1>5, <2>6, <3>1, <3>2
  <2>7. DOMAIN players = 1 .. m
    BY <1>7
  <2>8. QED BY <2>5, <2>6, <2>7 DEF Honoured
<1>9. Good(Ending(db, players, toks, e.done), n, m)
  <2>1. \A j, k \in 1 .. m : players[j].client = players[k].client => j = k
    BY <1>5 DEF Good
  <2>2. QED BY <1>1, <1>3, <1>7, <1>8, <2>1, MakeGood
<1>10. \A a \in 0 .. n - 1 : a # id => db.accounts[a] = e.adb.accounts[a]
  BY <1>saved
<1> DEFINE t == Ending(db, players, toks, e.done)
<1>11. t.adb = db /\ t.players = players /\ t.tokens = toks /\ t.done = e.done
  BY DEF Ending
<1> HIDE DEF t
<1>12. KeepsPlayers(e, t, m, {}) /\ KeepsTokens(e, t)
  BY <1>5, <1>6, <1>11 DEF KeepsPlayers, KeepsTokens
<1>13. Saved(e, i, unsaved) = t /\ Good(t, n, m)
  BY <1>2, <1>9 DEF t
<1>14. QED BY <1>10, <1>11, <1>12, <1>13

\* An account for a player who has none.
LEMMA WithAccountGood ==
  ASSUME NEW n \in DbSizes, NEW m \in Nat, NEW e, Good(e, n, m), NEW i \in 1 .. m
  PROVE  LET t == WithAccount(e, i) IN
         /\ Good(t, n, m) /\ KeepsPlayers(e, t, m, {i})
         /\ t.players[i].account_id \in Ids
         /\ t.tokens = e.tokens /\ t.adb.accounts = e.adb.accounts /\ t.done = e.done
<1> DEFINE p == e.players[i]
           id == AdbCreated(e.adb)
           db == AdbCreate(e.adb)
           q == Player(p.client, id, p.data, p.open, FALSE)
           players == [e.players EXCEPT ![i] = q]
           t == Ending(db, players, e.tokens, e.done)
<1>1. /\ e.adb.accounts \in [0 .. n - 1 -> Data \cup {Blank}]
      /\ e.players \in [1 .. m -> PlayerType]
      /\ e.tokens \in [Clients -> TokenType]
      /\ e.done \in BOOLEAN
  BY GoodFields
<1>2. WithAccount(e, i) = t
  BY DEF WithAccount
<1>3. DbOK(e.adb, n) /\ n \in Nat \ {0}
  BY LifeAssumption DEF Good
<1>4. DbOK(db, n) /\ db.accounts = e.adb.accounts /\ id \in 0 .. n - 1
  BY <1>3, CreateDb
<1>5. id \in Ids
  BY <1>4, IdsAreNat
<1>6. p \in PlayerType
  BY <1>1
<1>7. /\ q \in PlayerType /\ q.client = p.client /\ q.data = p.data /\ q.account_id = id
      /\ ~q.saved
  BY <1>5, <1>6 DEF Player, PlayerType
<1> HIDE DEF q, id, db
<1>8. /\ players \in [1 .. m -> PlayerType] /\ players[i] = q
      /\ \A j \in 1 .. m : j # i => players[j] = e.players[j]
  BY <1>1, <1>7
<1> HIDE DEF players
<1>9. \A j \in 1 .. m : players[j].client = e.players[j].client
  BY <1>7, <1>8
<1>10. Honoured(db, players, e.tokens)
  <2>1. Honoured(e.adb, e.players, e.tokens)
    BY DEF Good
  <2>2. \A a, data : AdbVerify(db, a, data) <=> AdbVerify(e.adb, a, data)
    BY <1>4 DEF AdbVerify
  <2>3. DOMAIN players = 1 .. m /\ DOMAIN e.players = 1 .. m
    BY <1>1, <1>8
  <2>4. \A j \in 1 .. m : players[j].saved =>
          AdbVerify(db, players[j].account_id, players[j].data)
    BY <1>7, <1>8, <2>1, <2>2, <2>3 DEF Honoured
  <2>5. \A c \in Clients : e.tokens[c].data # Outdated =>
          AdbVerify(db, e.tokens[c].account, e.tokens[c].data)
    BY <2>1, <2>2 DEF Honoured
  <2>6. QED BY <2>3, <2>4, <2>5 DEF Honoured
<1>11. Good(t, n, m)
  <2>1. \A j, k \in 1 .. m : players[j].client = players[k].client => j = k
    BY <1>9 DEF Good
  <2>2. QED BY <1>1, <1>4, <1>8, <1>10, <2>1, MakeGood
<1>12. t.adb = db /\ t.players = players /\ t.tokens = e.tokens /\ t.done = e.done
  BY DEF Ending
<1> HIDE DEF t
<1>13. KeepsPlayers(e, t, m, {i})
  BY <1>7, <1>8, <1>12 DEF KeepsPlayers, p
<1>14. QED BY <1>2, <1>4, <1>5, <1>7, <1>8, <1>11, <1>12, <1>13

\* The account that a player is told of, new or not.
Given(e, i, unsaved) ==
  IF e.players[i].account_id # None THEN e
  ELSE Saved(WithAccount(e, i), i, unsaved)

\* A player without an account gets one, and only that account is written.
LEMMA GivenGood ==
  ASSUME NEW n \in DbSizes, NEW m \in Nat, NEW e, Good(e, n, m), NEW i \in 1 .. m,
         NEW unsaved
  PROVE  LET t == Given(e, i, unsaved) IN
         /\ Good(t, n, m) /\ KeepsPlayers(e, t, m, {i}) /\ KeepsTokens(e, t)
         /\ t.players[i].account_id \in Ids
         /\ e.players[i].account_id # None =>
              t.players[i].account_id = e.players[i].account_id
         /\ \A a \in 0 .. n - 1 : t.adb.accounts[a] # e.adb.accounts[a] =>
              e.players[i].account_id = None /\ t.players[i].account_id = a
         /\ t.done = e.done
<1>1. CASE e.players[i].account_id # None
  <2>1. Given(e, i, unsaved) = e
    BY <1>1 DEF Given
  <2>2. KeepsPlayers(e, e, m, {i}) /\ KeepsTokens(e, e)
    BY DEF KeepsPlayers, KeepsTokens
  <2>3. e.players[i].account_id \in Ids
    BY <1>1, GoodFields
  <2>4. QED BY <2>1, <2>2, <2>3
<1>2. CASE e.players[i].account_id = None
  <2> DEFINE w == WithAccount(e, i)
             t == Saved(w, i, unsaved)
  <2>1. Given(e, i, unsaved) = t
    BY <1>2 DEF Given
  <2>2. /\ Good(w, n, m) /\ KeepsPlayers(e, w, m, {i})
        /\ w.players[i].account_id \in Ids
        /\ w.tokens = e.tokens /\ w.adb.accounts = e.adb.accounts /\ w.done = e.done
    BY WithAccountGood
  <2> HIDE DEF w
  <2>3. /\ Good(t, n, m) /\ KeepsPlayers(w, t, m, {}) /\ KeepsTokens(w, t)
        /\ \A a \in 0 .. n - 1 : a # w.players[i].account_id =>
             t.adb.accounts[a] = w.adb.accounts[a]
        /\ t.done = w.done
    <3>1. w.players[i].account_id # None
      BY <2>2, IdsAreNat
    <3>2. QED BY <2>2, <3>1, SavedGood
  <2> HIDE DEF t
  <2>4. KeepsPlayers(e, t, m, {i}) /\ t.players[i].account_id = w.players[i].account_id
    BY <2>2, <2>3 DEF KeepsPlayers
  <2>5. KeepsTokens(e, t)
    BY <2>2, <2>3 DEF KeepsTokens
  <2>6. QED BY <1>2, <2>1, <2>2, <2>3, <2>4, <2>5
<1>3. QED BY <1>1, <1>2

\* sgs_close_game sends the player its account and data.
LEMMA ToldGood ==
  ASSUME NEW n \in DbSizes, NEW m \in Nat, NEW e, Good(e, n, m), NEW i \in 1 .. m,
         e.players[i].account_id \in Ids
  PROVE  LET t == Told(e, i) IN
         /\ Good(t, n, m) /\ KeepsPlayers(e, t, m, {})
         /\ \A c \in Clients : c # e.players[i].client => t.tokens[c] = e.tokens[c]
         /\ LET token == t.tokens[e.players[i].client] IN
            /\ token.account = e.players[i].account_id
            /\ token.data \in {e.players[i].data, Outdated}
         /\ t.adb = e.adb /\ t.done = e.done
<1> DEFINE p == e.players[i]
           q == Player(p.client, p.account_id, p.data, FALSE, FALSE)
           token == Token(p.account_id, IF p.saved THEN p.data ELSE Outdated)
           players == [e.players EXCEPT ![i] = q]
           toks == [e.tokens EXCEPT ![p.client] = token]
           t == Ending(e.adb, players, toks, e.done)
<1>1. /\ e.players \in [1 .. m -> PlayerType]
      /\ e.tokens \in [Clients -> TokenType]
      /\ e.done \in BOOLEAN
      /\ p.client \in Clients /\ p.data \in Data
  BY GoodFields
<1>2. Told(e, i) = t
  BY DEF Told
<1>3. DbOK(e.adb, n) /\ Honoured(e.adb, e.players, e.tokens)
  BY DEF Good
<1>4. /\ q \in PlayerType /\ q.client = p.client /\ q.data = p.data
      /\ q.account_id = p.account_id /\ ~q.saved
  BY <1>1 DEF Player, PlayerType
<1>5. /\ token \in TokenType /\ token.account = p.account_id
      /\ token.data = IF p.saved THEN p.data ELSE Outdated
  BY <1>1 DEF Token, TokenType
<1> HIDE DEF q, token
<1>6. /\ players \in [1 .. m -> PlayerType] /\ players[i] = q
      /\ \A j \in 1 .. m : j # i => players[j] = e.players[j]
  BY <1>1, <1>4
<1>7. /\ toks \in [Clients -> TokenType] /\ toks[p.client] = token
      /\ \A c \in Clients : c # p.client => toks[c] = e.tokens[c]
  BY <1>1, <1>5
<1> HIDE DEF players, toks
<1>8. Honoured(e.adb, players, toks)
  <2>1. DOMAIN players = 1 .. m /\ DOMAIN e.players = 1 .. m
    BY <1>1, <1>6
  <2>2. \A j \in 1 .. m : players[j].saved =>
          AdbVerify(e.adb, players[j].account_id, players[j].data)
    BY <1>3, <1>4, <1>6, <2>1 DEF Honoured
  <2>3. ASSUME NEW c \in Clients, toks[c].data # Outdated
        PROVE  AdbVerify(e.adb, toks[c].account, toks[c].data)
    <3>1. CASE c = p.client
      <4>1. p.saved /\ toks[c].data = p.data /\ toks[c].account = p.account_id
        BY <1>5, <1>7, <2>3, <3>1
      <4>2. QED BY <1>3, <2>1, <4>1 DEF Honoured
    <3>2. CASE c # p.client
      BY <1>3, <1>7, <2>3, <3>2 DEF Honoured
    <3>3. QED BY <3>1, <3>2
  <2>4. QED BY <2>1, <2>2, <2>3 DEF Honoured
<1>9. Good(t, n, m)
  <2>1. \A j, k \in 1 .. m : players[j].client = players[k].client => j = k
    BY <1>4, <1>6 DEF Good
  <2>2. QED BY <1>1, <1>3, <1>6, <1>7, <1>8, <2>1, MakeGood
<1>10. t.adb = e.adb /\ t.players = players /\ t.tokens = toks /\ t.done = e.done
  BY DEF Ending
<1> HIDE DEF t
<1>11. KeepsPlayers(e, t, m, {})
  BY <1>4, <1>6, <1>10 DEF KeepsPlayers, p
<1>12. token.data \in {p.data, Outdated}
  BY <1>5
<1>13. QED BY <1>2, <1>5, <1>7, <1>9, <1>10, <1>11, <1>12

\* A game that waits for a player changes only its own closing.
LEMMA WaitsGood ==
  ASSUME NEW n \in DbSizes, NEW m \in Nat, NEW e, Good(e, n, m)
  PROVE  LET t == Waits(e) IN
         /\ Good(t, n, m) /\ t.adb = e.adb /\ t.players = e.players
         /\ t.tokens = e.tokens /\ t.done = FALSE
<1>1. /\ e.players \in [1 .. m -> PlayerType]
      /\ e.tokens \in [Clients -> TokenType]
  BY GoodFields
<1>2. /\ DbOK(e.adb, n) /\ Honoured(e.adb, e.players, e.tokens)
      /\ \A i, j \in 1 .. m : e.players[i].client = e.players[j].client => i = j
  BY DEF Good
<1>3. Good(Ending(e.adb, e.players, e.tokens, FALSE), n, m)
  BY <1>1, <1>2, MakeGood
<1>4. QED BY <1>3 DEF Waits, Ending

\* The account that token and player i have, and the data, when the player
\* had one before.
TokenOf(e, t, i) ==
  LET was == e.tokens[e.players[i].client]
      is  == t.tokens[e.players[i].client]
  IN e.players[i].account_id # None =>
       /\ is.account \in {was.account, e.players[i].account_id}
       /\ is.data \in {was.data, e.players[i].data, Outdated}

\* Player i was given account a, and knows it or keeps it for the next time.
GivenTo(e, t, i, a) ==
  /\ e.players[i].account_id = None
  /\ \/ t.tokens[e.players[i].client].account = a
     \/ ~t.done /\ t.players[i].account_id = a

\* What the turn of player k does.
Turn(e, t, k, n, m) ==
  /\ KeepsPlayers(e, t, m, {k})
  /\ e.players[k].account_id # None =>
       t.players[k].account_id = e.players[k].account_id
  /\ TokenOf(e, t, k)
  /\ \A c \in Clients : c # e.players[k].client =>
       /\ t.tokens[c].account = e.tokens[c].account
       /\ t.tokens[c].data \in {e.tokens[c].data, Outdated}
  /\ \A a \in 0 .. n - 1 : t.adb.accounts[a] # e.adb.accounts[a] => GivenTo(e, t, k, a)
  /\ t.done => e.done

\* What the turns of players 1 to k did.
Turns(o, e, k, n, m) ==
  /\ \A i \in 1 .. m :
       /\ e.players[i].client = o.players[i].client
       /\ e.players[i].data = o.players[i].data
       /\ o.players[i].account_id # None =>
            e.players[i].account_id = o.players[i].account_id
       /\ TokenOf(o, e, i)
  /\ \A a \in 0 .. n - 1 : e.adb.accounts[a] # o.adb.accounts[a] =>
       \E i \in 1 .. k : GivenTo(o, e, i, a)

\* One turn of the second loop of sgs_close_game keeps the ending good.
LEMMA EndTurnGood ==
  ASSUME NEW n \in DbSizes, NEW m \in Nat, NEW e, Good(e, n, m), NEW i \in 1 .. m,
         NEW unsaved, NEW reach
  PROVE  LET t == EndTurn(e, i, unsaved, reach) IN
         Good(t, n, m) /\ Turn(e, t, i, n, m)
<1> DEFINE t == EndTurn(e, i, unsaved, reach)
           given == Given(e, i, unsaved)
<1> SUFFICES Good(t, n, m) /\ Turn(e, t, i, n, m)
  OBVIOUS
<1>1. /\ e.tokens \in [Clients -> TokenType]
      /\ e.players[i].client \in Clients
      /\ e.done \in BOOLEAN
  BY GoodFields
<1>2. t = IF ~e.players[i].open THEN e
          ELSE IF reach[i] = "away" THEN Waits(e)
          ELSE IF reach[i] = "lost" THEN Waits(given)
          ELSE Told(given, i)
  BY DEF EndTurn, Given
<1> HIDE DEF t
<1>3. CASE t = e
  <2>1. Turn(e, e, i, n, m)
    BY DEF Turn, KeepsPlayers, TokenOf
  <2>2. QED BY <1>3, <2>1
<1>4. CASE t = Waits(e)
  <2>1. /\ Good(t, n, m) /\ t.adb = e.adb /\ t.players = e.players
        /\ t.tokens = e.tokens /\ t.done = FALSE
    BY <1>4, WaitsGood
  <2>2. Turn(e, t, i, n, m)
    BY <2>1 DEF Turn, KeepsPlayers, TokenOf
  <2>3. QED BY <2>1, <2>2
<1>5. /\ Good(given, n, m) /\ KeepsPlayers(e, given, m, {i}) /\ KeepsTokens(e, given)
      /\ given.players[i].account_id \in Ids
      /\ e.players[i].account_id # None =>
           given.players[i].account_id = e.players[i].account_id
      /\ \A a \in 0 .. n - 1 : given.adb.accounts[a] # e.adb.accounts[a] =>
           e.players[i].account_id = None /\ given.players[i].account_id = a
      /\ given.done = e.done
  BY GivenGood
<1> HIDE DEF given
<1>6. CASE t = Waits(given)
  <2>1. /\ Good(t, n, m) /\ t.adb = given.adb /\ t.players = given.players
        /\ t.tokens = given.tokens /\ t.done = FALSE
    BY <1>5, <1>6, WaitsGood
  <2>2. KeepsPlayers(e, t, m, {i}) /\ KeepsTokens(e, t)
    BY <1>5, <2>1 DEF KeepsPlayers, KeepsTokens
  <2>3. TokenOf(e, t, i)
    BY <1>1, <2>2 DEF TokenOf, KeepsTokens
  <2>4. \A a \in 0 .. n - 1 : t.adb.accounts[a] # e.adb.accounts[a] => GivenTo(e, t, i, a)
    BY <1>5, <2>1 DEF GivenTo
  <2>5. Turn(e, t, i, n, m)
    BY <1>5, <2>1, <2>2, <2>3, <2>4 DEF Turn, KeepsTokens
  <2>6. QED BY <2>1, <2>5
<1>7. CASE t = Told(given, i)
  <2> DEFINE c == e.players[i].client
  <2>1. given.players[i].client = c /\ given.players[i].data = e.players[i].data
    BY <1>5 DEF KeepsPlayers
  <2>2. /\ Good(t, n, m) /\ KeepsPlayers(given, t, m, {})
        /\ \A d \in Clients : d # given.players[i].client => t.tokens[d] = given.tokens[d]
        /\ t.tokens[given.players[i].client].account = given.players[i].account_id
        /\ t.tokens[given.players[i].client].data \in {given.players[i].data, Outdated}
        /\ t.adb = given.adb /\ t.done = given.done
    <3>1. Good(given, n, m) /\ given.players[i].account_id \in Ids
      BY <1>5
    <3>2. QED BY <1>7, <3>1, ToldGood
  <2>3. KeepsPlayers(e, t, m, {i}) /\ t.players[i].account_id = given.players[i].account_id
    <3>1. KeepsPlayers(e, given, m, {i}) /\ KeepsPlayers(given, t, m, {})
      BY <1>5, <2>2
    <3>2. QED BY <3>1 DEF KeepsPlayers
  <2>4. /\ \A d \in Clients : d # c => t.tokens[d] = given.tokens[d]
        /\ t.tokens[c].account = given.players[i].account_id
        /\ t.tokens[c].data \in {e.players[i].data, Outdated}
    BY <2>1, <2>2
  <2>5. TokenOf(e, t, i)
    BY <1>5, <2>4 DEF TokenOf
  <2>6. \A d \in Clients : d # c =>
          /\ t.tokens[d].account = e.tokens[d].account
          /\ t.tokens[d].data \in {e.tokens[d].data, Outdated}
    BY <1>5, <2>4 DEF KeepsTokens
  <2>7. \A a \in 0 .. n - 1 : t.adb.accounts[a] # e.adb.accounts[a] => GivenTo(e, t, i, a)
    BY <1>5, <2>2, <2>4 DEF GivenTo
  <2>8. e.players[i].account_id # None =>
          t.players[i].account_id = e.players[i].account_id
    BY <1>5, <2>3
  <2>9. Turn(e, t, i, n, m)
    BY <1>5, <2>2, <2>3, <2>5, <2>6, <2>7, <2>8 DEF Turn
  <2>10. QED BY <2>2, <2>9
<1>8. t \in {e, Waits(e), Waits(given), Told(given, i)}
  BY <1>2
<1>9. QED BY <1>3, <1>4, <1>6, <1>7, <1>8

\* One more turn.
LEMMA NextTurn ==
  ASSUME NEW n \in DbSizes, NEW m \in Nat, NEW o, Good(o, n, m), NEW e, Good(e, n, m),
         NEW t, Good(t, n, m), NEW k \in 1 .. m, Turns(o, e, k - 1, n, m), Turn(e, t, k, n, m)
  PROVE  Turns(o, t, k, n, m)
<1>1. ASSUME NEW i \in 1 .. m
      PROVE  /\ e.players[i].client = o.players[i].client
             /\ e.players[i].data = o.players[i].data
             /\ o.players[i].account_id # None =>
                  e.players[i].account_id = o.players[i].account_id
             /\ TokenOf(o, e, i)
             /\ t.players[i].client = e.players[i].client
             /\ t.players[i].data = e.players[i].data
             /\ i # k \/ e.players[i].account_id # None =>
                  t.players[i].account_id = e.players[i].account_id
             /\ i # k =>
                  /\ e.players[i].client # e.players[k].client
                  /\ e.players[i].client \in Clients
  BY GoodFields DEF Turns, Turn, KeepsPlayers, Good
<1>2. ASSUME NEW i \in 1 .. m PROVE TokenOf(o, t, i)
  <2> DEFINE c == o.players[i].client
             id == o.players[i].account_id
  <2>1. ASSUME id # None
        PROVE  /\ e.tokens[c].account \in {o.tokens[c].account, id}
               /\ e.tokens[c].data \in {o.tokens[c].data, o.players[i].data, Outdated}
    BY <1>1, <2>1 DEF TokenOf
  <2>2. ASSUME id # None
        PROVE  /\ t.tokens[c].account \in {e.tokens[c].account, id}
               /\ t.tokens[c].data \in {e.tokens[c].data, o.players[i].data, Outdated}
    <3>1. e.players[i].client = c /\ e.players[i].account_id = id
          /\ e.players[i].data = o.players[i].data
      BY <1>1, <2>2
    <3>2. CASE i = k
      <4>1. TokenOf(e, t, i)
        BY <3>2 DEF Turn
      <4>2. QED BY <2>2, <3>1, <4>1 DEF TokenOf
    <3>3. CASE i # k
      <4>1. c # e.players[k].client /\ c \in Clients
        BY <1>1, <3>1, <3>3
      <4>2. QED BY <4>1 DEF Turn
    <3>4. QED BY <3>2, <3>3
  <2>3. ASSUME id # None
        PROVE  /\ t.tokens[c].account \in {o.tokens[c].account, id}
               /\ t.tokens[c].data \in {o.tokens[c].data, o.players[i].data, Outdated}
    BY <2>1, <2>2, <2>3
  <2>4. QED BY <2>3 DEF TokenOf
<1>3. ASSUME NEW a \in 0 .. n - 1, t.adb.accounts[a] # o.adb.accounts[a]
      PROVE  \E i \in 1 .. k : GivenTo(o, t, i, a)
  <2>1. CASE t.adb.accounts[a] # e.adb.accounts[a]
    <3>1. GivenTo(e, t, k, a)
      BY <2>1 DEF Turn
    <3>2. o.players[k].account_id = None
      BY <1>1, <3>1 DEF GivenTo
    <3>3. k \in 1 .. k /\ GivenTo(o, t, k, a)
      BY <1>1, <3>1, <3>2 DEF GivenTo
    <3>4. QED BY <3>3
  <2>2. CASE e.adb.accounts[a] # o.adb.accounts[a]
    <3>1. PICK i \in 1 .. k - 1 : GivenTo(o, e, i, a)
      BY <2>2 DEF Turns
    <3>2. i \in 1 .. k /\ i \in 1 .. m /\ i # k
      OBVIOUS
    <3>3. /\ e.players[i].client = o.players[i].client
          /\ t.tokens[e.players[i].client].account = e.tokens[e.players[i].client].account
          /\ t.players[i].account_id = e.players[i].account_id
          /\ t.done => e.done
      BY <1>1, <3>2 DEF Turn
    <3>4. GivenTo(o, t, i, a)
      BY <3>1, <3>3 DEF GivenTo
    <3>5. QED BY <3>2, <3>4
  <2>3. QED BY <1>3, <2>1, <2>2
<1>4. ASSUME NEW i \in 1 .. m
      PROVE  /\ t.players[i].client = o.players[i].client
             /\ t.players[i].data = o.players[i].data
             /\ o.players[i].account_id # None =>
                  t.players[i].account_id = o.players[i].account_id
  BY <1>1
<1>5. QED BY <1>2, <1>3, <1>4 DEF Turns

-----------------------------------------------------------------------------
(* The loops of sgs_close_game, by what every turn of them keeps.          *)

\* What each turn of the first loop carries from G[i - 1] to G[i] holds at the end as
\* G[n].
LEMMA SavedAllKeeps ==
  ASSUME NEW e, NEW unsaved, Len(e.players) \in Nat, NEW G, e \in G[0],
         \A i \in 1 .. Len(e.players) : \A x \in G[i - 1] : SaveTurn(x, i, unsaved) \in G[i]
  PROVE  SavedAll(e, unsaved) \in G[Len(e.players)]
<1> DEFINE n == Len(e.players)
           step == [i \in 1 .. n |-> [x \in G[i - 1] |-> SaveTurn(x, i, unsaved)]]
           Course(f) == f = [i \in 0 .. n |-> IF i = 0 THEN e
                                              ELSE SaveTurn(f[i - 1], i, unsaved)]
           run == CHOOSE f : Course(f)
<1>1. n \in Nat
  OBVIOUS
<1>2. SavedAll(e, unsaved) = run[n]
  BY DEF SavedAll
<1> HIDE DEF n
<1>3. PICK f : IsCourse(f, n, e, step) /\ \A i \in 0 .. n : f[i] \in G[i]
  <2>1. \A i \in 1 .. n : \A x \in G[i - 1] : step[i][x] \in G[i]
    BY DEF n
  <2> HIDE DEF step
  <2>2. QED BY <1>1, <2>1, LoopExists
<1>4. Course(f)
  <2>1. ASSUME NEW i \in 1 .. n PROVE f[i] = SaveTurn(f[i - 1], i, unsaved)
    <3>1. i - 1 \in 0 .. n
      BY <1>1
    <3>2. f[i - 1] \in G[i - 1] /\ f[i] = step[i][f[i - 1]]
      BY <1>3, <3>1 DEF IsCourse
    <3>3. QED BY <3>2
  <2> DEFINE h == [i \in 0 .. n |-> IF i = 0 THEN e ELSE SaveTurn(f[i - 1], i, unsaved)]
  <2>2. ASSUME NEW i \in 0 .. n PROVE f[i] = h[i]
    <3>1. CASE i = 0
      BY <1>3, <3>1 DEF IsCourse
    <3>2. CASE i # 0
      <4>1. i \in 1 .. n
        BY <1>1, <3>2
      <4>2. QED BY <2>1, <3>2, <4>1
    <3>3. QED BY <3>1, <3>2
  <2>3. f = [i \in 0 .. n |-> f[i]] /\ h = [i \in 0 .. n |-> h[i]]
    BY <1>3 DEF IsCourse
  <2>4. f = h
    BY <2>2, <2>3
  <2>5. QED BY <2>4
<1>5. Course(run)
  BY <1>4
<1> HIDE DEF run
<1>6. \A i \in 0 .. n : run[i] \in G[i]
  <2>1. run[0] \in G[0]
    BY <1>1, <1>5
  <2>2. \A i \in 1 .. n : run[i - 1] \in G[i - 1] => run[i] \in G[i]
    BY <1>1, <1>5 DEF n
  <2>3. QED BY <1>1, <2>1, <2>2, LoopRange
<1>7. QED BY <1>1, <1>2, <1>6 DEF n

\* The same of the second loop.
LEMMA EndedAllKeeps ==
  ASSUME NEW e, NEW unsaved, NEW reach, Len(e.players) \in Nat, NEW G, e \in G[0],
         \A i \in 1 .. Len(e.players) : \A x \in G[i - 1] : EndTurn(x, i, unsaved, reach) \in G[i]
  PROVE  EndedAll(e, unsaved, reach) \in G[Len(e.players)]
<1> DEFINE n == Len(e.players)
           step == [i \in 1 .. n |-> [x \in G[i - 1] |-> EndTurn(x, i, unsaved, reach)]]
           Course(f) == f = [i \in 0 .. n |-> IF i = 0 THEN e
                                              ELSE EndTurn(f[i - 1], i, unsaved, reach)]
           run == CHOOSE f : Course(f)
<1>1. n \in Nat
  OBVIOUS
<1>2. EndedAll(e, unsaved, reach) = run[n]
  BY DEF EndedAll
<1> HIDE DEF n
<1>3. PICK f : IsCourse(f, n, e, step) /\ \A i \in 0 .. n : f[i] \in G[i]
  <2>1. \A i \in 1 .. n : \A x \in G[i - 1] : step[i][x] \in G[i]
    BY DEF n
  <2> HIDE DEF step
  <2>2. QED BY <1>1, <2>1, LoopExists
<1>4. Course(f)
  <2>1. ASSUME NEW i \in 1 .. n PROVE f[i] = EndTurn(f[i - 1], i, unsaved, reach)
    <3>1. i - 1 \in 0 .. n
      BY <1>1
    <3>2. f[i - 1] \in G[i - 1] /\ f[i] = step[i][f[i - 1]]
      BY <1>3, <3>1 DEF IsCourse
    <3>3. QED BY <3>2
  <2> DEFINE h == [i \in 0 .. n |-> IF i = 0 THEN e ELSE EndTurn(f[i - 1], i, unsaved, reach)]
  <2>2. ASSUME NEW i \in 0 .. n PROVE f[i] = h[i]
    <3>1. CASE i = 0
      BY <1>3, <3>1 DEF IsCourse
    <3>2. CASE i # 0
      <4>1. i \in 1 .. n
        BY <1>1, <3>2
      <4>2. QED BY <2>1, <3>2, <4>1
    <3>3. QED BY <3>1, <3>2
  <2>3. f = [i \in 0 .. n |-> f[i]] /\ h = [i \in 0 .. n |-> h[i]]
    BY <1>3 DEF IsCourse
  <2>4. f = h
    BY <2>2, <2>3
  <2>5. QED BY <2>4
<1>5. Course(run)
  BY <1>4
<1> HIDE DEF run
<1>6. \A i \in 0 .. n : run[i] \in G[i]
  <2>1. run[0] \in G[0]
    BY <1>1, <1>5
  <2>2. \A i \in 1 .. n : run[i - 1] \in G[i - 1] => run[i] \in G[i]
    BY <1>1, <1>5 DEF n
  <2>3. QED BY <1>1, <2>1, <2>2, LoopRange
<1>7. QED BY <1>1, <1>2, <1>6 DEF n

\* The first loop leaves things good, and the second one does and makes the turns
\* of all players.
LEMMA SavedAllGood ==
  ASSUME NEW n \in DbSizes, NEW m \in Nat, NEW e, Good(e, n, m), NEW unsaved
  PROVE  Good(SavedAll(e, unsaved), n, m)
<1> DEFINE G == [i \in 0 .. m |-> {x \in EndingType(n, m) : Good(x, n, m)}]
<1>1. Len(e.players) = m
  BY GoodFields
<1>2. e \in G[0]
  BY DEF Good
<1>3. ASSUME NEW i \in 1 .. m, NEW x \in G[i - 1] PROVE SaveTurn(x, i, unsaved) \in G[i]
  <2>1. Good(x, n, m)
    OBVIOUS
  <2>2. Good(SaveTurn(x, i, unsaved), n, m)
    BY <2>1, SavedGood DEF SaveTurn
  <2>3. QED BY <2>2 DEF Good
<1> HIDE DEF G
<1>4. SavedAll(e, unsaved) \in G[m]
  BY <1>1, <1>2, <1>3, SavedAllKeeps
<1>5. QED BY <1>4 DEF G

\* The whole second loop keeps the ending good, one turn for each player.
LEMMA EndedAllGood ==
  ASSUME NEW n \in DbSizes, NEW m \in Nat, NEW e, Good(e, n, m), NEW unsaved, NEW reach
  PROVE  LET t == EndedAll(e, unsaved, reach) IN
         Good(t, n, m) /\ Turns(e, t, m, n, m)
<1> DEFINE G == [i \in 0 .. m |->
                   {x \in EndingType(n, m) : Good(x, n, m) /\ Turns(e, x, i, n, m)}]
<1>1. Len(e.players) = m
  BY GoodFields
<1>2. e \in G[0]
  <2>1. Turns(e, e, 0, n, m)
    BY DEF Turns, TokenOf
  <2>2. QED BY <2>1 DEF Good
<1>3. ASSUME NEW i \in 1 .. m, NEW x \in G[i - 1]
      PROVE  EndTurn(x, i, unsaved, reach) \in G[i]
  <2> DEFINE t == EndTurn(x, i, unsaved, reach)
  <2>1. i - 1 \in 0 .. m /\ i \in 0 .. m
    OBVIOUS
  <2>2. Good(x, n, m) /\ Turns(e, x, i - 1, n, m)
    BY <2>1
  <2>3. Good(t, n, m) /\ Turn(x, t, i, n, m)
    BY <2>2, EndTurnGood
  <2> HIDE DEF t
  <2>4. Turns(e, t, i, n, m)
    BY <2>2, <2>3, NextTurn
  <2>5. t \in G[i]
    BY <2>1, <2>3, <2>4 DEF Good
  <2>6. QED BY <2>5 DEF t
<1> HIDE DEF G
<1>4. EndedAll(e, unsaved, reach) \in G[m]
  BY <1>1, <1>2, <1>3, EndedAllKeeps
<1>5. QED BY <1>4 DEF G

-----------------------------------------------------------------------------
(* The inductive invariant of the accounts.                                *)

\* A database, or while none is mapped what a file holds of one.
AccountsOK(db) ==
  \/ \E n \in DbSizes : DbOK(db, n)
  \/ /\ phase \in {"none", "fault"}
     /\ \E n \in DbSizes \cup {0} : db.accounts \in [0 .. n - 1 -> Data \cup {Blank}]

GameOK(g) ==
  /\ g.state \in {"none", "playing", "done"}
  /\ g.players \in Seq(PlayerType)
  /\ \A i, j \in DOMAIN g.players : g.players[i].client = g.players[j].client => i = j

\* A game's players are different clients, so that no player's turn undoes what
\* another was told; there is a game only where there is a database to save to.
IInv ==
  /\ phase # "listening" => game = NoGame
  /\ AccountsOK(adb)
  /\ GameOK(game)
  /\ tokens \in [Clients -> TokenType]
  /\ Honoured(adb, game.players, tokens)

\* No game satisfies what is asked of a game.
LEMMA NoGameOK == GameOK(NoGame) /\ NoGame.players = <<>> /\ DOMAIN NoGame.players = {}
BY DEF GameOK, NoGame

\* Honoured depends on the accounts alone, and without players on the tokens.
LEMMA HonouredSame ==
  ASSUME NEW db, NEW new, new.accounts = db.accounts, NEW players, NEW toks,
         Honoured(db, players, toks)
  PROVE  Honoured(new, players, toks) /\ Honoured(new, <<>>, toks)
BY DEF Honoured, AdbVerify

\* The invariant holds before the first start.
LEMMA InvInit == Init => IInv
<1> SUFFICES ASSUME Init PROVE IInv
  OBVIOUS
<1>1. adb.accounts \in [0 .. 0 - 1 -> Data \cup {Blank}]
  BY DEF Init, AdbNew, Adb
<1>2. AccountsOK(adb)
  BY <1>1 DEF AccountsOK, Init
<1>3. NoToken \in TokenType /\ NoToken.data = Outdated
  BY DEF TokenType, NoToken, Token
<1>4. tokens \in [Clients -> TokenType]
  BY <1>3 DEF Init
<1>5. Honoured(adb, <<>>, tokens)
  <2>1. \A c \in Clients : tokens[c].data = Outdated
    BY <1>3 DEF Init
  <2>2. DOMAIN <<>> = {}
    OBVIOUS
  <2>3. QED BY <2>1, <2>2 DEF Honoured
<1>6. game = NoGame
  BY DEF Init
<1>7. QED BY <1>2, <1>4, <1>5, <1>6, NoGameOK DEF IInv

\* sgs_new.
LEMMA NewStep ==
  ASSUME IInv, NEW size \in Sizes, NEW accounts \in DbSizes, NEW exit \in NewExits,
         NEW sized \in BOOLEAN, NEW kept \in BOOLEAN,
         phase = "none", New(size, accounts, exit, sized, kept)
  PROVE  IInv'
<1> DEFINE db == AdbNew(accounts, adb.accounts, kept)
           mapped == exit \notin {"open", "malloc"}
<1>1. game = NoGame /\ game' = NoGame
  BY DEF New, IInv
<1>2. PICK n \in Nat : /\ n \in DbSizes \cup {0}
                       /\ adb.accounts \in [0 .. n - 1 -> Data \cup {Blank}]
  BY LifeAssumption DEF IInv, AccountsOK, DbOK
<1>3. DbOK(db, accounts)
  BY <1>2, LifeAssumption, NewDb
<1>4. Honoured(adb, <<>>, tokens)
  BY <1>1, NoGameOK DEF IInv
<1>5. CASE UNCHANGED <<adb, tokens>> /\ phase' \in {"none", "fault"}
  <2>1. AccountsOK(adb)'
    BY <1>2, <1>5 DEF AccountsOK
  <2>2. QED BY <1>1, <1>4, <1>5, <2>1, NoGameOK DEF IInv
<1>6. CASE /\ adb' = db
           /\ tokens' = IF adb'.accounts = adb.accounts THEN tokens
                        ELSE [c \in Clients |-> Token(tokens[c].account, Outdated)]
  <2> HIDE DEF db
  <2>1. AccountsOK(adb)'
    BY <1>3, <1>6 DEF AccountsOK
  <2>2. tokens' \in [Clients -> TokenType] /\ Honoured(adb', <<>>, tokens')
    <3>1. CASE adb'.accounts = adb.accounts
      BY <1>4, <1>6, <3>1, HonouredSame DEF IInv
    <3>2. CASE adb'.accounts # adb.accounts
      <4>1. ASSUME NEW c \in Clients
            PROVE  /\ tokens'[c] \in TokenType /\ tokens'[c].data = Outdated
        <5>1. tokens[c] \in TokenType
          BY DEF IInv
        <5>2. tokens'[c] = Token(tokens[c].account, Outdated)
          BY <1>6, <3>2
        <5>3. QED BY <5>1, <5>2 DEF TokenType, NoToken, Token
      <4>2. tokens' = [c \in Clients |-> tokens'[c]]
        BY <1>6, <3>2
      <4>3. QED BY <4>1, <4>2 DEF Honoured
    <3>3. QED BY <3>1, <3>2
  <2>3. QED BY <1>1, <2>1, <2>2, NoGameOK DEF IInv
<1>7. \/ UNCHANGED <<adb, tokens>> /\ phase' \in {"none", "fault"}
      \/ /\ adb' = db
         /\ tokens' = IF adb'.accounts = adb.accounts THEN tokens
                      ELSE [c \in Clients |-> Token(tokens[c].account, Outdated)]
  <2>1. CASE mapped
    BY <2>1 DEF New
  <2>2. CASE ~mapped
    BY <2>2 DEF New
  <2>3. QED BY <2>1, <2>2
<1>8. QED BY <1>5, <1>6, <1>7

\* The end of the server, or of the process.
LEMMA StopStep ==
  ASSUME IInv, phase' = "none", game' = NoGame, adb' = Stored(adb), UNCHANGED tokens
  PROVE  IInv'
<1>1. adb'.accounts = adb.accounts
  BY DEF Stored, Adb
<1>2. Honoured(adb', <<>>, tokens)
  BY <1>1, HonouredSame DEF IInv
<1>3. \E n \in DbSizes \cup {0} : adb.accounts \in [0 .. n - 1 -> Data \cup {Blank}]
  BY DEF IInv, AccountsOK, DbOK
<1>4. AccountsOK(adb)'
  BY <1>1, <1>3 DEF AccountsOK
<1>5. QED BY <1>2, <1>4, NoGameOK DEF IInv

\* The process goes on listening, and the game is another.
LEMMA StartGameStep ==
  ASSUME IInv, StartGame
  PROVE  IInv'
<1>1. PICK players \in Players :
         /\ \A i, j \in DOMAIN players : i # j => players[i].client # players[j].client
         /\ game' = [state |-> "playing", players |-> players]
  BY DEF StartGame
<1> DEFINE S == [client : Clients, account_id : Ids \cup {None}, data : Data,
                 open : {TRUE}, saved : {FALSE}]
<1>2. PICK k \in 0 .. MaxPlayers : players \in [1 .. k -> S]
  <2>1. players \in SeqOf(S, MaxPlayers)
    BY DEF Players
  <2> HIDE DEF S
  <2>2. QED BY <2>1 DEF SeqOf
<1>3. DOMAIN players = 1 .. k
  BY <1>2
<1>4. ASSUME NEW i \in 1 .. k PROVE players[i] \in PlayerType /\ ~players[i].saved
  <2>1. players[i] \in S
    BY <1>2
  <2>2. QED BY <2>1 DEF PlayerType
<1>5. players \in Seq(PlayerType)
  <2>1. players \in [1 .. k -> PlayerType]
    BY <1>2, <1>4
  <2>2. k \in Nat
    BY LifeAssumption
  <2>3. QED BY <2>1, <2>2
<1>6. game'.state = "playing" /\ game'.players = players /\ phase' = "listening"
  BY <1>1 DEF StartGame, Listening
<1>7. GameOK(game')
  BY <1>1, <1>3, <1>5, <1>6 DEF GameOK
<1>8. Honoured(adb, players, tokens)
  BY <1>3, <1>4 DEF IInv, Honoured
<1>9. AccountsOK(adb)'
  BY DEF IInv, AccountsOK, StartGame, Listening
<1>10. QED BY <1>6, <1>7, <1>8, <1>9 DEF IInv, StartGame

\* Where sgs_close_game begins, and where it ends.
LEMMA CloseGameGood ==
  ASSUME IInv, NEW unsaved, NEW reach, CloseGame(unsaved, reach)
  PROVE  LET m     == Len(game.players)
             start == Ending(adb, game.players, tokens, TRUE)
         IN /\ m \in Nat /\ DOMAIN game.players = 1 .. m
            /\ \E n \in DbSizes : \E end :
                 /\ DbOK(adb, n) /\ Good(start, n, m) /\ Good(end, n, m)
                 /\ game.state = "done" => Turns(start, end, m, n, m)
                 /\ adb' = end.adb /\ tokens' = end.tokens
                 /\ game' = IF end.done THEN NoGame
                            ELSE [state |-> "done", players |-> end.players]
<1> DEFINE m == Len(game.players)
           start == Ending(adb, game.players, tokens, TRUE)
           saves == IF SavesAccounts(game) THEN SavedAll(start, unsaved) ELSE start
           end == EndedAll(saves, unsaved, reach)
<1>1. /\ game.players \in Seq(PlayerType) /\ m \in Nat /\ DOMAIN game.players = 1 .. m
      /\ game.players \in [1 .. m -> PlayerType]
  BY DEF IInv, GameOK
<1>2. PICK n \in DbSizes : DbOK(adb, n)
  BY DEF CloseGame, Listening, IInv, AccountsOK
<1>3. /\ adb' = end.adb /\ tokens' = end.tokens
      /\ game' = IF end.done THEN NoGame
                 ELSE [state |-> "done", players |-> end.players]
  BY DEF CloseGame
<1> HIDE DEF m
<1>4. Good(start, n, m)
  <2>1. /\ tokens \in [Clients -> TokenType] /\ Honoured(adb, game.players, tokens)
        /\ \A i, j \in 1 .. m :
             game.players[i].client = game.players[j].client => i = j
    BY <1>1 DEF IInv, GameOK
  <2>2. QED BY <1>1, <1>2, <2>1, MakeGood
<1> HIDE DEF start
<1>5. Good(saves, n, m)
  BY <1>1, <1>4, SavedAllGood
<1>6. game.state = "done" => saves = start
  BY DEF SavesAccounts
<1> HIDE DEF saves
<1>7. Good(end, n, m) /\ Turns(saves, end, m, n, m)
  BY <1>1, <1>5, EndedAllGood
<1> HIDE DEF end
<1>8. QED BY <1>1, <1>2, <1>3, <1>4, <1>6, <1>7 DEF m, start

\* sgs_close_game keeps the invariant.
LEMMA CloseGameStep ==
  ASSUME IInv, NEW unsaved, NEW reach, CloseGame(unsaved, reach)
  PROVE  IInv'
<1> DEFINE m == Len(game.players)
<1>1. m \in Nat
  BY CloseGameGood
<1>2. PICK n \in DbSizes : \E end :
        /\ Good(end, n, m)
        /\ adb' = end.adb /\ tokens' = end.tokens
        /\ game' = IF end.done THEN NoGame
                   ELSE [state |-> "done", players |-> end.players]
  BY CloseGameGood
<1>3. PICK end :
        /\ Good(end, n, m)
        /\ adb' = end.adb /\ tokens' = end.tokens
        /\ game' = IF end.done THEN NoGame
                   ELSE [state |-> "done", players |-> end.players]
  BY <1>2
<1> HIDE DEF m
<1>4. /\ end.players \in [1 .. m -> PlayerType] /\ end.tokens \in [Clients -> TokenType]
      /\ end.players \in Seq(PlayerType) /\ DOMAIN end.players = 1 .. m
  BY <1>1, <1>3, GoodFields
<1>5. /\ DbOK(end.adb, n) /\ Honoured(end.adb, end.players, end.tokens)
      /\ \A i, j \in 1 .. m : end.players[i].client = end.players[j].client => i = j
  BY <1>3 DEF Good
<1>6. AccountsOK(adb)'
  BY <1>3, <1>5 DEF AccountsOK
<1>7. phase' = "listening"
  BY DEF CloseGame, Listening
<1>8. CASE end.done
  <2>1. game' = NoGame /\ Honoured(end.adb, <<>>, end.tokens)
    BY <1>3, <1>5, <1>8, HonouredSame
  <2>2. QED BY <1>3, <1>4, <1>6, <1>7, <2>1, NoGameOK DEF IInv
<1>9. CASE ~end.done
  <2>1. game'.state = "done" /\ game'.players = end.players
    BY <1>3, <1>9
  <2>2. GameOK(game')
    BY <1>4, <1>5, <2>1 DEF GameOK
  <2>3. QED BY <1>3, <1>4, <1>5, <1>6, <1>7, <2>1, <2>2 DEF IInv
<1>10. QED BY <1>8, <1>9

\* One step for each action.
LEMMA InvStep == IInv /\ [Next]_vars => IInv'
<1> SUFFICES ASSUME IInv, [Next]_vars PROVE IInv'
  OBVIOUS
<1>1. ASSUME NEW size \in Sizes, NEW accounts \in DbSizes, NEW exit \in NewExits,
             NEW sized \in BOOLEAN, NEW kept \in BOOLEAN,
             phase = "none", New(size, accounts, exit, sized, kept)
      PROVE  IInv'
  BY <1>1, NewStep
<1>2. ASSUME NEW exit \in ListenExits, Listen(exit) PROVE IInv'
  <2>1. AccountsOK(adb)'
    BY <1>2 DEF Listen, IInv, AccountsOK
  <2>2. CASE phase = "listening"
    BY <1>2, <2>1, <2>2 DEF Listen, IInv
  <2>3. CASE phase = "up"
    <3>1. game = NoGame
      BY <2>3 DEF IInv
    <3>2. QED BY <1>2, <2>1, <3>1 DEF Listen, IInv
  <2>4. QED BY <1>2, <2>2, <2>3 DEF Listen
<1>3. CASE Destroy \/ Crash
  BY <1>3, StopStep DEF Destroy, Crash
<1>4. CASE ForceCloseGame
  <2>1. AccountsOK(adb)'
    BY <1>4 DEF ForceCloseGame, Listening, IInv, AccountsOK
  <2>2. Honoured(adb, <<>>, tokens)
    BY HonouredSame DEF IInv
  <2>3. QED BY <1>4, <2>1, <2>2, NoGameOK DEF ForceCloseGame, IInv
<1>5. CASE StartGame
  BY <1>5, StartGameStep
<1>6. ASSUME NEW unsaved, NEW reach, CloseGame(unsaved, reach) PROVE IInv'
  BY <1>6, CloseGameStep
<1>7. ASSUME NEW id \in DOMAIN adb.accounts, CloseAccount(id) PROVE IInv'
  <2>1. PICK n \in DbSizes : DbOK(adb, n)
    BY <1>7 DEF CloseAccount, Listening, IInv, AccountsOK
  <2>2. DbOK(adb', n) /\ adb'.accounts = adb.accounts
    BY <1>7, <2>1, CloseDb, LifeAssumption DEF CloseAccount
  <2>3. AccountsOK(adb)'
    BY <2>2 DEF AccountsOK
  <2>4. Honoured(adb', game.players, tokens)
    BY <2>2, HonouredSame DEF IInv
  <2>5. QED BY <1>7, <2>3, <2>4 DEF CloseAccount, IInv, Listening
<1>8. CASE UNCHANGED vars
  <2>1. AccountsOK(adb)'
    BY <1>8 DEF vars, IInv, AccountsOK
  <2>2. QED BY <1>8, <2>1 DEF vars, IInv
<1>9. QED
  BY <1>1, <1>2, <1>3, <1>4, <1>5, <1>6, <1>7, <1>8 DEF Next, Start

\* Every account of a mapped database is free once or in use once, however many
\* were displaced, closed and created, and players and tokens name accounts.
THEOREM TypeCorrect == Spec => []TypeOK
<1>1. HeldInv /\ IInv => TypeOK
  <2> SUFFICES ASSUME HeldInv, IInv PROVE TypeOK
    OBVIOUS
  <2>1. phase \in {"none", "up", "listening", "fault"}
    BY DEF HeldInv
  <2>2. /\ held \subseteq NewTakes("done") \cup Sockets
        /\ lost \in [Sockets -> Nat] /\ relistens \in 0 .. MaxRelistens
    BY DEF HeldInv
  <2>3. ASSUME Listening
        PROVE  /\ adb \in AdbType(Len(adb.free) + Len(adb.ages), Data)
               /\ IsInjective(adb.free \o adb.ages)
    <3>1. PICK n \in DbSizes : DbOK(adb, n)
      BY <2>3 DEF Listening, IInv, AccountsOK
    <3> DEFINE ids == 0 .. n - 1
    <3>2. /\ adb = Adb(adb.free, adb.ages, adb.accounts)
          /\ adb.free \in Seq(ids) /\ IsInjective(adb.free)
          /\ adb.ages \in Seq(ids) /\ IsInjective(adb.ages)
          /\ Range(adb.free) \cap Range(adb.ages) = {}
          /\ Len(adb.free) + Len(adb.ages) = n
          /\ adb.accounts \in [ids -> Data \cup {Blank}]
      BY <3>1 DEF DbOK
    <3> HIDE DEF ids
    <3>3. IsInjective(adb.free \o adb.ages)
      BY <3>2, JoinedInjective
    <3>4. Len(adb.free) \in 0 .. n /\ Len(adb.ages) \in 0 .. n
      <4> DEFINE a == Len(adb.free)
                 b == Len(adb.ages)
      <4>1. a \in Nat /\ b \in Nat
        BY <3>2
      <4>2. a + b = n
        BY <3>2
      <4> HIDE DEF a, b
      <4>3. a \in 0 .. n /\ b \in 0 .. n
        BY <4>1, <4>2
      <4>4. QED BY <4>3 DEF a, b
    <3>5. /\ adb.free \in [1 .. Len(adb.free) -> ids]
          /\ adb.ages \in [1 .. Len(adb.ages) -> ids]
      BY <3>2
    <3>6. adb.free \in SeqOf(ids, n) /\ adb.ages \in SeqOf(ids, n)
      BY <3>4, <3>5 DEF SeqOf
    <3>7. adb \in AdbType(n, Data)
      BY <3>2, <3>6 DEF AdbType, Adb, ids
    <3>8. QED BY <3>2, <3>3, <3>7
  <2>4. /\ game.state \in {"none", "playing", "done"}
        /\ \A i \in DOMAIN game.players : game.players[i] \in PlayerType
    BY DEF IInv, GameOK
  <2>5. tokens \in [Clients -> TokenType]
    BY DEF IInv
  <2>6. QED BY <2>1, <2>2, <2>3, <2>4, <2>5 DEF TypeOK, PlayerType, TokenType
<1>2. QED BY <1>1, HeldInit, HeldStep, InvInit, InvStep, PTL DEF Spec

\* A client can log in with what it was last sent, or will be sent when the game
\* is closed again: the saves of others outdate it or leave its account alone.
THEOREM TokensAlwaysHonoured == Spec => []TokensHonoured
<1>1. IInv => TokensHonoured
  BY DEF IInv, Honoured, TokensHonoured
<1>2. QED BY <1>1, InvInit, InvStep, PTL DEF Spec

\* The step of RetryIsSafe.
Retried ==
  game.state = "done" =>
    /\ \A id \in DOMAIN adb.accounts : adb'.accounts[id] # adb.accounts[id] =>
         \E i \in DOMAIN game.players :
           /\ game.players[i].account_id = None
           /\ \/ tokens'[game.players[i].client].account = id
              \/ game'.state = "done" /\ game'.players[i].account_id = id
    /\ \A i \in DOMAIN game.players :
         LET p == game.players[i] IN
         p.account_id # None =>
           /\ tokens'[p.client].account \in {tokens[p.client].account, p.account_id}
           /\ tokens'[p.client].data \in {tokens[p.client].data, p.data, Outdated}
           /\ game'.state = "done" => game'.players[i].account_id = p.account_id

\* sgs_close_game again, after any of its sends was lost.
LEMMA RetryCloseGame ==
  ASSUME IInv, NEW unsaved, NEW reach, CloseGame(unsaved, reach)
  PROVE  Retried
<1> DEFINE m == Len(game.players)
           start == Ending(adb, game.players, tokens, TRUE)
<1> SUFFICES ASSUME game.state = "done" PROVE Retried
  BY DEF Retried
<1>1. m \in Nat /\ DOMAIN game.players = 1 .. m
  BY CloseGameGood
<1>2. PICK n \in DbSizes : \E end :
        /\ DbOK(adb, n) /\ Good(end, n, m)
        /\ Turns(start, end, m, n, m)
        /\ adb' = end.adb /\ tokens' = end.tokens
        /\ game' = IF end.done THEN NoGame
                   ELSE [state |-> "done", players |-> end.players]
  BY CloseGameGood
<1>3. PICK end :
        /\ DbOK(adb, n) /\ Good(end, n, m)
        /\ Turns(start, end, m, n, m)
        /\ adb' = end.adb /\ tokens' = end.tokens
        /\ game' = IF end.done THEN NoGame
                   ELSE [state |-> "done", players |-> end.players]
  BY <1>2
<1>4. /\ start.adb = adb /\ start.players = game.players /\ start.tokens = tokens
  BY DEF Ending
<1>5. DOMAIN adb.accounts = 0 .. n - 1
  BY <1>3 DEF DbOK
<1> HIDE DEF m, start
<1>6. /\ end.done => game'.state = "none"
      /\ ~end.done => game'.state = "done" /\ game'.players = end.players
  BY <1>3 DEF NoGame
<1>7. ASSUME NEW id \in 0 .. n - 1, adb'.accounts[id] # adb.accounts[id]
      PROVE  \E i \in 1 .. m :
               /\ game.players[i].account_id = None
               /\ \/ tokens'[game.players[i].client].account = id
                  \/ game'.state = "done" /\ game'.players[i].account_id = id
  <2>1. PICK i \in 1 .. m : GivenTo(start, end, i, id)
    BY <1>3, <1>4, <1>7 DEF Turns
  <2>2. QED BY <1>3, <1>4, <1>6, <2>1 DEF GivenTo
<1>8. ASSUME NEW i \in 1 .. m, game.players[i].account_id # None
      PROVE  LET p == game.players[i] IN
             /\ tokens'[p.client].account \in {tokens[p.client].account, p.account_id}
             /\ tokens'[p.client].data \in {tokens[p.client].data, p.data, Outdated}
             /\ game'.state = "done" => game'.players[i].account_id = p.account_id
  <2>1. /\ TokenOf(start, end, i)
        /\ end.players[i].account_id = game.players[i].account_id
    BY <1>3, <1>4, <1>8 DEF Turns
  <2>2. QED BY <1>3, <1>4, <1>6, <1>8, <2>1 DEF TokenOf
<1>9. QED BY <1>1, <1>5, <1>7, <1>8 DEF Retried

\* However often the host closes a game again, no account is saved twice and no
\* player is told of another account or of other data than the first time.
THEOREM RetryAlwaysSafe == Spec => RetryIsSafe
<1>1. IInv /\ [Next]_vars => [Retried]_vars
  <2> SUFFICES ASSUME IInv, Next PROVE Retried
    OBVIOUS
  <2>1. ASSUME NEW unsaved, NEW reach, CloseGame(unsaved, reach) PROVE Retried
    BY <2>1, RetryCloseGame
  <2>2. CASE game.state # "done"
    BY <2>2 DEF Retried
  <2>3. CASE adb'.accounts = adb.accounts /\ UNCHANGED <<game, tokens>>
    BY <2>3 DEF Retried
  <2>4. CASE adb'.accounts = adb.accounts /\ game' = NoGame /\ UNCHANGED tokens
    BY <2>4 DEF Retried, NoGame
  <2>5. ASSUME NEW id, CloseAccount(id)
        PROVE  adb'.accounts = adb.accounts /\ UNCHANGED <<game, tokens>>
    BY <2>5 DEF CloseAccount, AdbClose, Adb
  <2>6. Destroy \/ Crash \/ ForceCloseGame =>
          adb'.accounts = adb.accounts /\ game' = NoGame /\ UNCHANGED tokens
    BY DEF Destroy, Crash, ForceCloseGame, Stored, Adb
  <2>7. ASSUME phase # "listening" PROVE game.state # "done"
    BY <2>7 DEF IInv, NoGame
  <2>8. Start => phase # "listening"
    BY DEF Start
  <2>9. ASSUME NEW exit \in ListenExits, Listen(exit)
        PROVE  adb'.accounts = adb.accounts /\ UNCHANGED <<game, tokens>>
    BY <2>9 DEF Listen
  <2>10. StartGame => game.state # "done"
    BY DEF StartGame
  <2>11. QED
    BY <2>1, <2>2, <2>3, <2>4, <2>5, <2>6, <2>7, <2>8, <2>9, <2>10 DEF Next
<1>2. RetryIsSafe <=> [][Retried]_vars
  BY DEF RetryIsSafe, Retried
<1>3. QED BY <1>1, <1>2, InvInit, InvStep, PTL DEF Spec
=============================================================================
