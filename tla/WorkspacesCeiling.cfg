SPECIFICATION Spec
CONSTANTS
  u1 = u1
  u2 = u2
  u3 = u3
  m1 = m1
  k1 = k1
  full = full
  s1 = s1
  s2 = s2
  s3 = s3
  p0 = p0
  p1 = p1
  p2 = p2
  short = short
  long = long
  Null = Null
  User = {u1, u2}
  Match = {m1}
  Code = {k1}
  Challenge = {full}
  Stocked = {full}
  Duration <- MCDuration
  Horizon = 0
  Saver = {s1, s2}
  Path = {p0, p1, p2}
  Content = {short}
  Size <- MCSize
  Starting <- MCStarting
  MaxFiles = 2
  MaxBytes = 2
  MaxFileBytes = 1
INVARIANTS
  CeilingHolds
