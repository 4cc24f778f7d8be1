\* What rbt_delete returns, with the keys it may be asked to delete.
SPECIFICATION UseSpec
CONSTANTS
  N = 3
  Val = {0}
  Key = {1, 2, 3}
INVARIANT ReturnsNodeOfKey
