SPECIFICATION Spec
CONSTANTS
  MaxPuts = 4
  MaxUris = 2
INVARIANTS
  RoundTrip
  OnlyDoublesChange
  NilOnlyAlone
  HandlersServed
CHECK_DEADLOCK FALSE
