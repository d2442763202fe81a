SPECIFICATION TriggerSpec
CONSTANTS
  Sizes = {1, 3}
  MinHeap = 4
  Grow = 2
  Cadences = {0, 1, 3}
  MaxHeap = 9
CONSTRAINT Small
INVARIANTS UserChoiceKept
PROPERTIES CollectsWhenDue
