SPECIFICATION Spec
CONSTANTS
  m1 = m1
  m2 = m2
  w1 = w1
  w2 = w2
  r1 = r1
  start = start
  finish = finish
  Null = Null
  Match = {m1, m2}
  Writer = {w1, w2}
  Reader = {r1}
  Kind = {start, finish}
  MaxEvents = 3
SYMMETRY Symmetric
INVARIANTS
  TypeOK
  Gapless
  NothingMissed
