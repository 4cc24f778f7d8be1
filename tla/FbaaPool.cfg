\* Four blocks of two bytes: enough for the free list to wrap in every order.
SPECIFICATION Spec
CONSTANTS
  N = 4
  BlockSize = 2
INVARIANTS TypeOK FreeListExact
PROPERTY PoolSpec
