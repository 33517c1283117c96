SPECIFICATION McfrSpec
CONSTANTS
  a = a
  b = b
  h = h
  Writer = {a, b, h}
  Stores = {a, b}
  Unit = {1, 2}
  Inputs <- MCInputs
  GroupTicks = 2
  MaxTicks <- MCTicks
  Instrumented = {a}
  MaxFailures = 1
INVARIANTS
  ReadsBack
  BrokenStaysUnpublished
PROPERTIES
  TargetStays
CHECK_DEADLOCK FALSE
