\* Two heads and four entries: two entries can be spliced between two others,
\* and lists can be joined, cut in the middle and handed over.
SPECIFICATION Spec
CONSTANTS
  Heads = {h1, h2}
  Nodes = {n1, n2, n3, n4}
  Null = Null
SYMMETRY Symm
INVARIANTS TypeOK PointersFollowLists IdleEntriesKnown TestsAgree WalkVisitsAll
CHECK_DEADLOCK FALSE
