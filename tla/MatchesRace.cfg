SPECIFICATION Spec
CONSTANTS
  u1 = u1
  u2 = u2
  u3 = u3
  m1 = m1
  m2 = m2
  k1 = k1
  k2 = k2
  full = full
  bare = bare
  c1 = c1
  c2 = c2
  c3 = c3
  Null = Null
  User = {u1, u2}
  Match = {m1}
  Code = {k1}
  Challenge = {full, bare}
  Stocked = {full}
  Duration <- MCDuration
  Horizon = 1
  Conn = {c1, c2, c3}
  Ops = {"create", "join", "cancel", "ready", "submit", "expire"}
  CodeAttempts = 1
SYMMETRY Symmetric
INVARIANTS
  NoDeadlock
PROPERTIES
  ImplementsLifecycle
