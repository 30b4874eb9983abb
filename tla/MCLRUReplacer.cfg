\* Three threads race on two pages.
CONSTANTS
  Values = {p1, p2}
  Threads = {t1, t2, t3}
SYMMETRY ReplacerSymmetry
SPECIFICATION Spec
INVARIANTS
  TypeOK
  MapMatchesList
  CopiesBounded
