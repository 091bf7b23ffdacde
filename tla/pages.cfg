SPECIFICATION Spec
CONSTANTS
  Rows <- Five
  nome <- Names
  DEFAULT_LIMIT = 2
  MAX_LIMIT = 3
  Limits = {0, 1, 3}
  MaxChanges = 2
INVARIANTS QuietWalkServesAll WalkErrorsAreCaused
