SPECIFICATION Spec
CONSTANTS
  Slots = {s1, s2}
  Faulty = {s1, s2}
  Letters = {"A", "B"}
  Codes = {c1, c2}
  MaxSerial <- QuestionRoom
  Adms = {adm1, adm2}
  ExamInputs <- TwoQuestions
  NotaInputs = {}
  QuestionInputs <- QuestionBulks
  ParticipantInputs <- None
  RedacaoInputs = {}
  AnswerInputs <- None
  EditInputs = {}
  BulkAnswerChunk = 2
  AplicadorInputs = {}
  StatusInputs = {}
  MailOutcomes = {TRUE}
  MaxDay = 0
SYMMETRY SlotSymmetry
INVARIANTS TypeOK CallsOwnRows UniqueKeys
PROPERTIES SavedQuestionsStand ImplementsBook
\* The ids and the clock are bounded: at the bound nothing is left to do.
CHECK_DEADLOCK FALSE
