SPECIFICATION FairSpec
CONSTANTS
  Slots = {s1, s2}
  Faulty = {}
  Letters = {"A", "B"}
  Codes = {c1, c2}
  MaxSerial <- LifeRoom
  Adms = {adm1, adm2}
  ExamInputs <- OneQuestion
  NotaInputs = {10}
  QuestionInputs <- None
  ParticipantInputs <- None
  RedacaoInputs = {}
  AnswerInputs <- None
  EditInputs = {}
  BulkAnswerChunk = 2
  AplicadorInputs = {"APROVADO"}
  StatusInputs = {"draft", "in_progress", "completed"}
  MailOutcomes = {TRUE, FALSE}
  MaxDay = 1
INVARIANTS CompletedHasClosingDay
PROPERTIES EveryAdmIsSentResults EveryCallEnds
\* The ids and the clock are bounded: at the bound nothing is left to do.
CHECK_DEADLOCK FALSE
