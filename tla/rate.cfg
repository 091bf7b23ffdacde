SPECIFICATION Spec
CONSTANTS
  Clients = {k1, k2}
  CONSULTA_RATE_MAX = 2
  Window = 3
  MaxTime = 7
  MaxCount = 4
INVARIANTS LessThanTwiceAdmitted
PROPERTIES RefusedOnlyWhenSpent
SYMMETRY ClientSymmetry
\* The clock is bounded: at the bound nothing is left to do.
CHECK_DEADLOCK FALSE
