\* The owner may also push to the front of an empty ring.
SPECIFICATION Spec
CONSTANTS
  N = 4
  Elem = {e1, e2}
  FrontIntoEmpty = TRUE
PROPERTY DequeSpec
