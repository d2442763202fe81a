SPECIFICATION IterSpec
CONSTANTS
  Key = {"a", "b", "c"}
  Value = {0, 1}
  Hash <- Hashes
  MinCapacity = 4
  SmallFit = 3
  MaxCapacity = 8
  VersionMod = 1000000
  Others <- AFewOthers
  Whites <- SomeWhites
VIEW Situation
INVARIANTS TypeOK Consistent
PROPERTIES RefinesMap SlotsPinned TraversalExact
CONSTRAINT OneValue
