CONSTANTS
  Conns = {c1, c2, c3}
  Slots = {0, 1}
  Fds = {3, 4, 5}
  Packets = 2

SPECIFICATION Spec

INVARIANT
  SubscribersHear
