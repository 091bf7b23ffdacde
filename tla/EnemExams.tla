------------------------------ MODULE EnemExams ------------------------------
(***************************************************************************)
(* The correction of exams: the five services that write the tables of     *)
(* EnemSchema, served concurrently by the slots of one process.            *)
(***************************************************************************)
EXTENDS ExamsService, QuestionsService, ParticipantsService, AnswersService,
        AplicadoresService

vars == <<tables, calls, examsVars>>

Call == {Idle} \cup StatusCall \cup ExportCall \cup MailCall
        \cup BulkQuestionsCall \cup RemoveQuestionCall \cup EnrolCall
        \cup PresencaCall \cup RedacaoCall \cup RemoveParticipantCall
        \cup BulkAnswersCall

Init ==
  /\ InitTables
  /\ calls = [s \in Slots |-> Idle]
  /\ InitExams

Next ==
  \/ ExamsNext
  \/ /\ QuestionsNext \/ ParticipantsNext \/ AnswersNext \/ AplicadoresNext
        \/ \E s \in Slots : Crash(s)
     /\ UNCHANGED examsVars

Spec == Init /\ [][Next]_vars

\* The steps that carry an accepted call to its end.
Step(s) ==
  \/ ExamsStep(s)
  \/ (QuestionsStep(s) \/ ParticipantsStep(s) \/ AnswersStep(s))
     /\ UNCHANGED examsVars

\* Every promise of the process settles: the event loop keeps running and the
\* database and the mail service answer or fail.
FairSpec == Spec /\ \A s \in Slots : WF_vars(Step(s))

-----------------------------------------------------------------------------
(* Invariants.                                                             *)

\* Every row and every call in flight has the shape its code gives it.
TypeOK ==
  /\ TablesOK
  /\ calls \in [Slots -> Call]
  /\ now \in Nat
  /\ outbox \in Seq(Mail)

\* No row outlives its parents: the cascades of the schema reach questions,
\* participants, aplicadores and answers whatever is in flight, and a
\* participant of another exam forgets an aplicador that is deleted.
NoOrphans ==
  /\ \A q \in DOMAIN questions : questions[q].examId \in DOMAIN exams
  /\ \A a \in DOMAIN aplicadores : aplicadores[a].provaId \in DOMAIN exams
  /\ \A p \in DOMAIN participants :
       /\ participants[p].examId \in DOMAIN exams
       /\ participants[p].aplicadorId \in DOMAIN aplicadores \cup {NoId}
  /\ \A a \in DOMAIN answers : /\ answers[a].userId \in DOMAIN participants
                               /\ answers[a].questId \in DOMAIN questions

\* An answer joins a participant and a question of the same exam, although
\* resultados has no exam_id and bulkUpsert writes long after it checked.
AnswersSameExam ==
  \A a \in DOMAIN answers :
    /\ answers[a].userId \in DOMAIN participants
    /\ answers[a].questId \in DOMAIN questions
    /\ participants[answers[a].userId].examId = questions[answers[a].questId].examId

\* What a call in flight found in its exam stays a row of that exam until the
\* call writes, or is gone: no id it holds ever comes to name a row of
\* another exam, however long the call waits.
ParticipantStays(p, e) ==
  /\ p \in 1..serial.participant
  /\ p \in DOMAIN participants => participants[p].examId = e

QuestionStays(q, e) ==
  /\ q \in 1..serial.question
  /\ q \in DOMAIN questions => questions[q].examId = e

EditsOwn(c) ==
  /\ c.op \in {"presenca", "redacao", "removeParticipant"} =>
       ParticipantStays(c.id, c.examId)
  /\ c.op = "removeQuestion" => QuestionStays(c.id, c.examId)

BulkQuestionsOwn(c) ==
  c.op = "bulkQuestions" =>
    \A i \in DOMAIN c.target :
      c.target[i] # NoId => QuestionStays(c.target[i], c.examId)

BulkAnswersOwn(c) ==
  c.op = "bulkAnswers" =>
    \A i \in DOMAIN c.items :
      /\ "users" \notin c.unread => ParticipantStays(c.items[i].userId, c.examId)
      /\ "quests" \notin c.unread => QuestionStays(c.items[i].questId, c.examId)

CallsOwnRows ==
  \A s \in Slots : /\ EditsOwn(calls[s])
                   /\ BulkQuestionsOwn(calls[s])
                   /\ BulkAnswersOwn(calls[s])

\* The three unique keys hold whatever bulk requests overlap: a numero per
\* exam, a consulta code per exam, an answer per participant and question.
UniqueKeys ==
  /\ \A x, y \in DOMAIN questions :
       /\ questions[x].examId = questions[y].examId
       /\ questions[x].numero = questions[y].numero
       => x = y
  /\ \A x, y \in DOMAIN participants :
       /\ participants[x].examId = participants[y].examId
       /\ participants[x].consultaCode = participants[y].consultaCode
       => x = y
  /\ \A x, y \in DOMAIN answers : Pair(answers[x]) = Pair(answers[y]) => x = y

\* A completed exam carries the day it was closed, which is past: what
\* assertDivulgado adds two days to.
CompletedHasClosingDay ==
  \A e \in DOMAIN exams :
    exams[e].status = "completed" => exams[e].encerramento \in 0..now

-----------------------------------------------------------------------------
(* Action properties.                                                      *)

\* An edit checked by assertOwned for exam e touches no participant and no
\* answer of another exam, though the write names the participant alone.
EditsStayInExam ==
  [][\A s \in Slots :
       UpdatePresenca(s) \/ UpdateRedacao(s) \/ RemoveParticipant(s) =>
         /\ \A p \in DOMAIN participants \ ParticipantsOf(calls[s].examId) :
              p \in DOMAIN participants' /\ participants'[p] = participants[p]
         /\ \A a \in DOMAIN answers :
              answers[a].userId \notin ParticipantsOf(calls[s].examId) =>
                a \in DOMAIN answers' /\ answers'[a] = answers[a]]_vars

\* After a bulk of answers every pair of the request holds the alternative of
\* its last item, in one row, and no other answer moved.
SavedAnswersStand ==
  [][\A s \in Slots : SaveAnswers(s) =>
       LET items == calls[s].items IN
       /\ \A i \in DOMAIN items :
            (\A j \in DOMAIN items : j > i => Pair(items[j]) # Pair(items[i])) =>
              \E a \in DOMAIN answers' : answers'[a] = items[i]
       /\ \A a \in DOMAIN answers :
            /\ Pair(answers'[a]) = Pair(answers[a])
            /\ (\A i \in DOMAIN items : Pair(items[i]) # Pair(answers[a])) =>
                 answers'[a] = answers[a]]_vars

\* After a bulk of questions whose items aim at different rows each item has
\* its row in the exam, even if another bulk ran since the snapshot; no row
\* changes exam and none of another exam is touched.
SavedQuestionsStand ==
  [][\A s \in Slots : SaveQuestions(s) =>
       LET c == calls[s]
           distinct == \A i, j \in DOMAIN c.items :
                         c.target[i] = c.target[j] /\ c.target[i] # NoId => i = j IN
       /\ distinct => \A i \in DOMAIN c.items : \E q \in DOMAIN questions' :
                        questions'[q] = QuestionRow(c.examId, c.items[i])
       /\ \A q \in DOMAIN questions :
            /\ questions'[q].examId = questions[q].examId
            /\ questions[q].examId # c.examId => questions'[q] = questions[q]]_vars

-----------------------------------------------------------------------------
(* Liveness.                                                               *)

\* Every accepted call comes to an end, and so does the job that updateStatus
\* leaves running, though its exam may be removed under it.
EveryCallEnds == \A s \in Slots : (calls[s] # Idle) ~> (calls[s] = Idle)

\* Once the export of an exam's results starts, every administrator is sent
\* them, unless the exam is removed or one of the messages fails: the first
\* failure ends the loop of notifyAdmsResultsEmail.
EveryAdmIsSentResults ==
  \A e \in 1..MaxSerial.exam, adm \in Adms :
    (\E s \in Slots : Serving(s, "export") /\ calls[s].examId = e)
      ~> (\/ e \notin DOMAIN exams
          \/ \E i \in DOMAIN outbox : /\ outbox[i].examId = e
                                      /\ outbox[i].to = adm \/ ~outbox[i].sent)

-----------------------------------------------------------------------------
(* What the documents say of the program and the code does not do.         *)

\* `completed' is the last status of an exam (spec-resend-email.md, story 38;
\* allowedTransitions has no way out of it).
CompletedIsTerminal ==
  [][\A e \in DOMAIN exams :
       exams[e].status = "completed" /\ e \in DOMAIN exams' =>
         exams'[e].status = "completed"]_vars
=============================================================================
