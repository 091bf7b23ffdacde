SPECIFICATION LegacySpec
CONSTANTS
  Slots = {}
  Faulty = {}
  Letters = {"A", "B"}
  Codes = {c1, c2}
  MaxSerial <- LegacyRoom
  Adms = {adm1}
  ExamInputs <- OneQuestion
  NotaInputs = {}
  QuestionInputs <- None
  ParticipantInputs <- None
  RedacaoInputs = {}
  AnswerInputs <- None
  EditInputs = {"B"}
  BulkAnswerChunk = 2
  AplicadorInputs = {}
  StatusInputs = {}
  MailOutcomes = {TRUE}
  MaxDay = 0
  Shipped <- Files
  AnswerBatch = 2
  FirstKey = "A"
  MaxBaks = 1
SYMMETRY CodesOnly
INVARIANTS UniqueKeys NextIdsAreFree LastCopyKept
PROPERTIES SeedRestores
\* The ids are bounded: at the bound nothing is left to do.
CHECK_DEADLOCK FALSE
