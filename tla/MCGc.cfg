SPECIFICATION Spec
CONSTANTS
  Obj = {o1, o2, o3}
  NoObj = NoObj
  Made = {"buf", "string", "class"}
  Listed = {"class"}
  Weak = {"intern", "mega", "fmt", "shape"}
  MaxFields = 2
  MaxTemp = 1
SYMMETRY Symmetric
CONSTRAINT Small
INVARIANTS TypeOK NoDangling WeakSound
PROPERTIES RefinesHeap CollectExact
CHECK_DEADLOCK FALSE
