SPECIFICATION Spec
CONSTANTS
  Deadlines = {3, 4, 7, 10, 13}
  MaxTime = 17
  Ports = 4
INVARIANTS
  EndsInTime
  TimelyProbes
PROPERTIES
  Spaced
  Returns
