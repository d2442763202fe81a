SPECIFICATION Spec
CONSTANTS
  Page = {p1, p2, p3}
  NoPage = NoPage
  Class <- TwoClasses
  Fin = {2}
  Words = 2
  WordGrains = 2
  Header = 1
SYMMETRY Symmetric
CONSTRAINT Few
INVARIANTS TypeOK NoOverlap HeapExact
PROPERTIES FinalizesTheDead GrowsOnlyWhenFull
