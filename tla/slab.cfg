\* Pages of 16 bytes and words of 4 bits: chunks of 2 (small), 4 (exact), 8 (big).
CONSTANTS
  PageShift = 4
  WordBits = 4
  MinShift = 1
  Pages = 4
  Sizes = {1, 4, 7, 9, 32}
  MaxGiven = 5
SPECIFICATION SlabSpec
INVARIANTS GivenDisjoint FreeAccepts FreeListRight SlotListsRight
