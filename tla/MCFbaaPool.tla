----------------------------- MODULE MCFbaaPool -----------------------------
(* Instances of FbaaPool for TLC.                                          *)
EXTENDS FbaaPool, SequencesExt

\* The loop of fbaa_init, one push after the other.
PushBlock(a, i) ==
  Allocator(a.size, RbPushBack(a.flist_rb),
            [a.flist_mem EXCEPT ![RbPushBackSlot(a.flist_rb)] = i],
            [a.full_blocks EXCEPT ![i] = 0])

\* The arrays before it hold whatever was in memory.
Uninitialised(size) ==
  Allocator(size, RbInit(size), [i \in RingSlots(size) |-> size - 1],
            [b \in FbBlocks(size) |-> 1])

\* FbFresh is what the loop leaves.
ASSUME FreshIsLoop ==
  \A size \in 1 .. 6 :
    FbFresh(size) = FoldLeft(PushBlock, Uninitialised(size),
                             [i \in 1 .. size |-> i - 1])
=============================================================================
