SPECIFICATION QuietOrCrossedSpec
CONSTANTS
  Slots = {s1}
  Faulty = {}
  Readers = {r1}
  Letters = {"A", "B"}
  c1 = c1
  c2 = c2
  Codes = {c1, c2}
  MaxSerial <- CrossedRoom
  Adms = {adm1}
  ExamInputs <- None
  NotaInputs = {}
  QuestionInputs <- CrossingBulks
  ParticipantInputs <- None
  RedacaoInputs = {}
  AnswerInputs <- CrossingAnswers
  EditInputs = {}
  BulkAnswerChunk = 2
  AplicadorInputs = {}
  StatusInputs = {}
  MailOutcomes = {TRUE, FALSE}
  MaxDay = 2
CONSTRAINT QuietOrCrossed
INVARIANTS
  RankingIsExact DetailIsExact ConsultaFindsOwner
  CountsAgree ScaleHoldsWithWeights ConsultaShowsOwner
\* The ids and the clock are bounded: at the bound nothing is left to do.
CHECK_DEADLOCK FALSE
