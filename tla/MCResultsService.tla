-------------------------- MODULE MCResultsService --------------------------
(***************************************************************************)
(* Small instances of ResultsService, with the inputs of MCEnemExams.      *)
(***************************************************************************)
EXTENDS ResultsService, MCEnemExams

\* A database the services build from the empty one: two exams, the first
\* with two questions of weights 1 and 2, two present participants and an
\* answer, closed yesterday and its results sent; the second with a question that
\* must not be counted and a participant with a code of the first.  The runs
\* that start from it spend their bounds on what happens to it.
CONSTANTS c1, c2

Row(e, numero, peso) ==
  [examId |-> e, numero |-> numero, peso |-> peso, correctAnswer |-> "A"]
Pupil(e, code, redacao) ==
  [examId |-> e, consultaCode |-> code, presenca |-> TRUE,
   redacaoNota |-> redacao, aplicadorId |-> NoId]

PopulatedTables ==
  /\ exams = << [status |-> "completed", encerramento |-> 0, notaSimbolica |-> 10],
               [status |-> "draft", encerramento |-> NoDate, notaSimbolica |-> 10] >>
  /\ questions = <<Row(1, 1, 1), Row(2, 1, 3), Row(1, 2, 2)>>
  /\ participants = <<Pupil(1, c1, NoNota), Pupil(1, c2, 7), Pupil(2, c1, NoNota)>>
  /\ aplicadores = Empty
  /\ answers = <<[userId |-> 1, questId |-> 1, alternativa |-> "A"]>>

PopulatedOn(day, mailed) ==
  /\ PopulatedTables
  /\ serial = Room5(2, 3, 3, 0, 1)
  /\ calls = [s \in Slots |-> Idle]
  /\ now = day
  /\ outbox = << [examId |-> 1, to |-> CHOOSE adm \in Adms : TRUE, sent |-> mailed] >>
  /\ reads = [r \in Readers |-> Free]

PopulatedSpec == PopulatedOn(1, TRUE) /\ [][ResultsNext]_resultsVars

\* Or closed two days ago, its results mail having failed: what tells the two
\* starts of run results apart, as no exam is completed in it.
QuietOrCrossedSpec ==
  /\ PopulatedOn(1, TRUE) \/ PopulatedOn(2, FALSE)
  /\ [][ResultsNext]_resultsVars

\* the key and the weight of question 2 change; its answers come in
WeighedBulks ==
  { << [id |-> NoId, numero |-> 2, correctAnswer |-> "B", peso |-> 1] >> }
LateAnswers == { <<Ans(2, 3, "A"), Ans(2, 1, "A")>> }
ResultsRoom == Room5(2, 3, 3, 0, 3)

\* written across: question 2 corrected, question 3 created and answered
CrossingBulks ==
  WeighedBulks \cup { << [id |-> NoId, numero |-> 3, correctAnswer |-> "A", peso |-> 2] >> }
CrossingAnswers == { <<Ans(1, 3, "A"), Ans(1, 4, "A")>>, <<Ans(2, 3, "A"), Ans(2, 1, "A")>> }
CrossedRoom == Room5(2, 4, 3, 0, 4)

\* Run results has two kinds of requests in the picture.
\*
\* From the first start those no write comes across: a request stays until one
\* does, or until a call on its exam begins, which can only write across it or
\* change nothing.  The services do not look at the readers, so what they do
\* afterwards is what they do with the reader free.  Of the bulks those of
\* question 2 are enough.
QuietReaders ==
  /\ outbox[1].sent
  /\ \A table \in DOMAIN serial : serial[table] <= ResultsRoom[table]
  /\ \A s \in Slots :
       "items" \in DOMAIN calls[s] => calls[s].items \in WeighedBulks \cup LateAnswers
  /\ \A r \in Readers : reads[r] # Free =>
       /\ reads[r].quiet
       /\ \A s \in Slots : calls[s] # Idle => calls[s].examId # reads[r].examId

\* From the second one request about the published exam 1 that writes come
\* across: it comes in before anything is written, with calls under way or not;
\* its response is checked and is the end.  What happens to exam 2 meanwhile is
\* left out.
OneRequest ==
  /\ ~outbox[1].sent
  /\ \A r \in Readers : IF Settled(r) THEN reads[r] = Free /\ PopulatedTables
                                      ELSE reads[r].examId = 1
  /\ \A s \in Slots : calls[s] # Idle => calls[s].examId = 1
  /\ 2 \in DOMAIN exams /\ 2 \in DOMAIN questions /\ 3 \in DOMAIN participants

QuietOrCrossed == QuietReaders \/ OneRequest
=============================================================================
