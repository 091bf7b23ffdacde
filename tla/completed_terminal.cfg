SPECIFICATION Spec
CONSTANTS
  Slots = {s1, s2}
  Faulty = {s1, s2}
  Letters = {"A", "B"}
  Codes = {c1, c2}
  MaxSerial <- LifeRoom
  Adms = {adm1, adm2}
  ExamInputs <- OneQuestion
  NotaInputs = {}
  QuestionInputs <- None
  ParticipantInputs <- None
  RedacaoInputs = {}
  AnswerInputs <- None
  EditInputs = {}
  BulkAnswerChunk = 2
  AplicadorInputs = {}
  StatusInputs = {"draft", "in_progress", "completed"}
  MailOutcomes = {TRUE}
  MaxDay = 0
SYMMETRY SlotSymmetry
PROPERTIES CompletedIsTerminal
\* The ids and the clock are bounded: at the bound nothing is left to do.
CHECK_DEADLOCK FALSE
