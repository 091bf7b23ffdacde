SPECIFICATION Spec
CONSTANTS
  Slots = {s1, s2}
  Faulty = {s1, s2}
  Letters = {"A", "B"}
  Codes = {c1}
  MaxSerial <- AnswerRoom
  Adms = {adm1, adm2}
  ExamInputs <- OneOrTwo
  NotaInputs = {}
  QuestionInputs <- None
  ParticipantInputs <- OneDto
  RedacaoInputs = {}
  AnswerInputs <- AnswerBulks
  EditInputs = {"B"}
  BulkAnswerChunk = 2
  AplicadorInputs = {}
  StatusInputs = {}
  MailOutcomes = {TRUE}
  MaxDay = 0
SYMMETRY SlotSymmetry
INVARIANTS CallsOwnRows AnswersSameExam UniqueKeys
PROPERTIES SavedAnswersStand ImplementsBook
\* The ids and the clock are bounded: at the bound nothing is left to do.
CHECK_DEADLOCK FALSE
