------------------------------ MODULE AccountDb ------------------------------
(***************************************************************************)
(* The account database of simple_game_server.c: a pool of accounts mapped *)
(* from a file.                                                            *)
(*                                                                         *)
(* The allocator is the pool that AgePool specifies and RingFbaa is shown  *)
(* to implement, with the order in which fbaa.c reuses blocks: free lists  *)
(* the accounts it would hand out next, ages those in use, oldest first.   *)
(* An account is the data whose hash it holds.  The nonce that is hashed   *)
(* with the data is the account's own in sgs_adb_verify_data as it was in  *)
(* sgs_adb_set_data, so hashes are equal when the data is.                 *)
(***************************************************************************)
EXTENDS Integers, Sequences, SequencesExt

None  == -1     \* no account
Blank == "blank"  \* a hash that no data has

Adb(free, ages, accounts) ==
  [free |-> free, ages |-> ages, accounts |-> accounts]

AdbType(size, data) ==
  [free : SeqOf(0 .. size - 1, size), ages : SeqOf(0 .. size - 1, size),
   accounts : [0 .. size - 1 -> data \cup {Blank}]]

-----------------------------------------------------------------------------
(* Wrong variants of the operations, for the mutation checks.              *)

\* The block is freed without a look at full_blocks.
AdbCloseUnchecked(adb, id) ==
  Adb(<<id>> \o adb.free, Remove(adb.ages, id), adb.accounts)

\* The account is written before the nonce is drawn.
AdbSetDataFirst(adb, id, data, random) ==
  IF id \notin DOMAIN adb.accounts THEN adb
  ELSE Adb(adb.free, adb.ages, [adb.accounts EXCEPT ![id] =
             IF random THEN data ELSE Blank])
-----------------------------------------------------------------------------

\* sgs_adb_new: the allocator is initialised in the mapped memory.  The hashes
\* are those of the file if it was laid out for as many accounts, and is kept.
AdbNew(size, stored, kept) ==
  LET ids == 0 .. size - 1 IN
  Adb([i \in 1 .. size |-> i - 1], <<>>,
      IF kept /\ DOMAIN stored = ids THEN stored ELSE [id \in ids |-> Blank])

FreeOldest(adb) ==
  Adb(<<Head(adb.ages)>> \o adb.free, Tail(adb.ages), adb.accounts)

\* The database with room for one account, which sgs_adb_create_account makes
\* by displacing the oldest.
WithRoom(adb) == IF adb.free = <<>> THEN FreeOldest(adb) ELSE adb

\* sgs_adb_create_account: the account that is answered, and the database.
AdbCreated(adb) == Head(WithRoom(adb).free)

AdbCreate(adb) ==
  Adb(Tail(WithRoom(adb).free), Append(WithRoom(adb).ages, AdbCreated(adb)),
      adb.accounts)

\* Where an account is in the age list.
AgeIndex(adb, id) == CHOOSE i \in DOMAIN adb.ages : adb.ages[i] = id

\* sgs_adb_close_account: the hash stays.
AdbClose(adb, id) ==
  IF id \notin ToSet(adb.ages) THEN adb
  ELSE Adb(<<id>> \o adb.free, RemoveAt(adb.ages, AgeIndex(adb, id)), adb.accounts)

\* sgs_adb_verify_data, which does not ask whether the account is in use.
AdbVerify(adb, id, data) ==
  id \in DOMAIN adb.accounts /\ adb.accounts[id] = data

\* sgs_adb_set_data.  random: getrandom gave the nonce.
AdbSetData(adb, id, data, random) ==
  IF id \notin DOMAIN adb.accounts \/ ~random THEN adb
  ELSE Adb(adb.free, adb.ages, [adb.accounts EXCEPT ![id] = data])
=============================================================================
