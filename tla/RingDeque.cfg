\* A ring of four slots, two elements: full, empty and wrapped rings all occur.
SPECIFICATION Spec
CONSTANTS
  N = 4
  Elem = {e1, e2}
  FrontIntoEmpty = FALSE
SYMMETRY Symmetry
INVARIANTS TypeOK EndsAgree
PROPERTY DequeSpec
