SPECIFICATION PopulatedSpec
CONSTANTS
  Slots = {s1}
  Faulty = {}
  Readers = {r1}
  Letters = {"A", "B"}
  c1 = c1
  c2 = c2
  Codes = {c1, c2}
  MaxSerial <- ResultsRoom
  Adms = {adm1}
  ExamInputs <- None
  NotaInputs = {}
  QuestionInputs <- WeighedBulks
  ParticipantInputs <- None
  RedacaoInputs = {}
  AnswerInputs <- LateAnswers
  EditInputs = {}
  BulkAnswerChunk = 2
  AplicadorInputs = {}
  StatusInputs = {}
  MailOutcomes = {TRUE}
  MaxDay = 1
INVARIANTS MarksWithinScale
\* The ids and the clock are bounded: at the bound nothing is left to do.
CHECK_DEADLOCK FALSE
