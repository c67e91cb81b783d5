SPECIFICATION Spec
CONSTANTS
  Topics = {t1, t2}
  Peers = {p1}
INVARIANT AddressSetWhenAsked
CHECK_DEADLOCK FALSE
