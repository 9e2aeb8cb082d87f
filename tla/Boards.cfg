\* Every program of every board, from every start, with one reset at any point.
CONSTANTS
  Code <- CheckedCode
  Starts <- CheckedStarts
  Sharing <- KnownSharing
  MaxResets = 1
SPECIFICATION Spec
INVARIANTS TypeOK CoreClocked Orderly DevicesClocked Exclusive RatesRight CoreSource
PROPERTIES RampUp BootEnds
