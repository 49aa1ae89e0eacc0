SPECIFICATION FinalizerFairSpec
CONSTANTS
  u1 = u1
  u2 = u2
  u3 = u3
  u4 = u4
  m1 = m1
  m2 = m2
  k1 = k1
  brief = brief
  slow = slow
  c1 = c1
  w1 = w1
  w2 = w2
  Null = Null
  User = {u1, u2, u3, u4}
  Match = {m1, m2}
  Code = {k1}
  Challenge = {brief}
  Stocked = {brief}
  Duration <- MCDuration
  Horizon = 1
  Conn = {c1, w1, w2}
  Worker = {w1, w2}
  Ops = {"submit"}
  CodeAttempts = 1
  Batch = 1
  Seating <- MCSeating
INVARIANTS
  FinalizerTypeOK
  DrainsBacklog
PROPERTIES
  EveryStepIsLifecycle
  OverdueIsJudged
