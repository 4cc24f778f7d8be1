\* Four nodes: a node between two others that is not at either end, and one free.
SPECIFICATION UseSpec
CONSTANT Nodes = {0, 1, 2, 3}
INVARIANTS UseTypeOK AsAsked
