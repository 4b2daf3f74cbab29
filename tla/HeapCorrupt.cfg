CONSTANTS
  Sizes = {1, 2}
  Aligns = {1, 2}
  maxLen = 6

SPECIFICATION HeapSpec

INVARIANT NotCorrupt
