\* Five appends to one file, any of which may stop in the middle of its line.
SPECIFICATION Spec
CONSTANTS
  c1 = c1
  c2 = c2
  c3 = c3
  c4 = c4
  c5 = c5
  Appends <- FiveAppends
  Wide <- TwoWide
SYMMETRY AppendSymmetry
INVARIANTS
  OneLossPerTear
  OutageNeedsWideTear
PROPERTIES
  AcknowledgedKept
  ImplementsLossyLog
