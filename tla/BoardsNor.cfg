\* pm_suspend of the lpc43xx board, started from the NOR Flash memory.
CONSTANTS
  Code <- NorCode
  Starts <- NorStarts
  Sharing <- KnownSharing
  MaxResets = 1
SPECIFICATION SafeSpec
INVARIANT FetchClocked
