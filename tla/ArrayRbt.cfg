\* Three nodes and three keys: the pool runs full, and a key with two children
\* is deleted, which moves another node's data.  RbtUse has the larger trees.
SPECIFICATION Spec
CONSTANTS
  N = 3
  Key = {1, 2, 3}
  Val = {7, 8}
INVARIANTS NodesAreBlocks
PROPERTY MapSpec
