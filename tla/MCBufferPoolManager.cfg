\* Two frames, three pages, two clients.
CONSTANTS
  MaxPages = 3
  PoolSize = 2
  Clients = {c1, c2}
  Contents = {Zero, A}
  Zero = Zero
  Absent = Absent
SYMMETRY ClientSymmetry
SPECIFICATION Spec
INVARIANTS
  TypeOK
  TableMatchesFrames
  FreeFramesAreBlank
