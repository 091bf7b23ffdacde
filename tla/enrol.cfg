SPECIFICATION Spec
CONSTANTS
  Slots = {s1, s2}
  Faulty = {s1, s2}
  Letters = {"A", "B"}
  Codes = {c1, c2}
  MaxSerial <- EnrolRoom
  Adms = {adm1, adm2}
  ExamInputs <- OneQuestion
  NotaInputs = {}
  QuestionInputs <- None
  ParticipantInputs <- Enrolments
  RedacaoInputs = {5}
  AnswerInputs <- None
  EditInputs = {}
  BulkAnswerChunk = 2
  AplicadorInputs = {}
  StatusInputs = {}
  MailOutcomes = {TRUE}
  MaxDay = 0
SYMMETRY CodeSymmetry
INVARIANTS CallsOwnRows NoOrphans UniqueKeys
PROPERTIES EditsStayInExam ImplementsBook
\* The ids and the clock are bounded: at the bound nothing is left to do.
CHECK_DEADLOCK FALSE
