\* Seven keys: a full tree of three black levels, every rotation and split.
SPECIFICATION UseSpec
CONSTANTS
  N = 7
  Val = {0}
  Key = {1, 2, 3, 4, 5, 6, 7}
INVARIANTS KeysFound Balanced
