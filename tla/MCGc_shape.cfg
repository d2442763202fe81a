SPECIFICATION Spec
CONSTANTS
  Obj = {o1, o2}
  NoObj = NoObj
  Made = {"class"}
  Listed = {"class"}
  Weak = {"shape"}
  MaxFields = 1
  MaxTemp = 0
INVARIANTS ShapeSound
CHECK_DEADLOCK FALSE
