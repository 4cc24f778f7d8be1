\* Three blocks of two bytes: one block between the oldest and the newest.
SPECIFICATION Spec
CONSTANTS
  N = 3
  BlockSize = 2
INVARIANTS TypeOK TwinPools ListHoldsLive
PROPERTY AgeSpec
