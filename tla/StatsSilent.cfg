CONSTANTS
  Words = 1
  MaxIsrs = 2
SPECIFICATION Spec
INVARIANT SilentWindowIsEmpty
