SPECIFICATION Spec
CONSTANTS
  b1 = b1
  b2 = b2
  b3 = b3
  b4 = b4
  ddl1 = ddl1
  ddl2 = ddl2
  ddl3 = ddl3
  x = x
  y = y
  trunk = trunk
  next = next
  other = other
  edited = edited
  doubled = doubled
  linked = linked
  copied = copied
  vast = vast
  buried = buried
  garbled = garbled
  p1 = p1
  p2 = p2
  i1 = i1
  i2 = i2
  Null = Null
  Absent = Absent
  Malformed = Malformed
  Link = Link
  Migrator = {p1, p2}
  Binary = {b1, b2, b3, b4}
  Files <- MCFiles
  Version = {1, 2, 3}
  Text = {ddl1, ddl2, ddl3}
  Slugs <- MCSlugs
  Pinned = {"alpha:1"}
  Contained = {"image"}
  Rooted = {"/app", "/health"}
  Keys = {"alpha"}
  Title = {"title", "null"}
  Float = {0, 1, 9}
  Cores = {1}
  Content = {x, y}
  Size <- MCSize
  Path = {1, 2, 3, 4}
  PathBytes <- MCPathBytes
  PathLength <- MCPathLength
  MaxFileBytes = 1
  MaxWorkspaceFiles = 2
  MaxWorkspaceBytes = 2
  MaxOctets = 1
  MaxInteger = 2
  Unwritable = {"null"}
  UnwritablePath = {4}
  Instance = {i1, i2}
  Checkout = {trunk, next, other, edited, doubled, linked, copied, vast, buried, garbled}
  Root <- MCRoot
  Versioned <- MCVersioned
SYMMETRY MCSymmetry
INVARIANTS
  TypeOK
  ServesWhatItCarries
  RefusedByTypeOnly
  NobodyInTheWay
PROPERTIES
  FollowsOneLineage
  KeepsRegistrations
