SPECIFICATION Spec
CONSTANTS
  u1 = u1
  u2 = u2
  u3 = u3
  m1 = m1
  m2 = m2
  k1 = k1
  k2 = k2
  full = full
  bare = bare
  Null = Null
  User = {u1, u2, u3}
  Match = {m1, m2}
  Code = {k1, k2}
  Challenge = {full, bare}
  Stocked = {full}
  Duration <- MCDuration
  Horizon = 2
SYMMETRY Symmetric
INVARIANTS
  TypeOK
  OneUnfinished
  CodeNamesOneLobby
  EveryMatchInOrder
PROPERTY Forward
CHECK_DEADLOCK FALSE
