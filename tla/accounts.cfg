SPECIFICATION Spec
CONSTANTS
  Slots = {s1, s2}
  Faulty = {s1, s2}
  Emails = {"ana", "Ana"}
  normalizeEmail <- Spellings
  FirstEmail = "ana"
  UpdateInputs <- Bodies
  MaxSerial <- AccountsRoom
SYMMETRY SlotSymmetry
INVARIANTS TypeOK LinksSpentOnce OnlyOverlappedLinksCoexist RenewedIsRevoked ResetEndsSessions RemovedAdmIsOut
\* The ids are bounded: at the bound nothing is left to do.
CHECK_DEADLOCK FALSE
