SPECIFICATION WorkSpec
CONSTANTS
  Sessions = {s1, s2}
  Readers = {work}
  Works <- MCWorks
  ReceiptSets <- MCReceiptSets
  Adapters = {"none", "executed"}
  MaxActive = 2
  MaxTroubles = 1
SYMMETRY Symmetry
INVARIANTS AloneStaysOpen RepeatsCounted FilesTellOneStory
CHECK_DEADLOCK FALSE
