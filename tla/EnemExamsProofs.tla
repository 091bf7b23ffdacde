--------------------------- MODULE EnemExamsProofs ---------------------------
(***************************************************************************)
(* Theorems of EnemExams for every number of slots, every set of inputs    *)
(* and every length of the sequences: type correctness, the safety         *)
(* invariants, and the unique keys with what a bulk request leaves behind. *)
(***************************************************************************)
EXTENDS EnemExams, FiniteLemmas

-----------------------------------------------------------------------------
(* What the statements of EnemSchema do to a table, whatever its rows are. *)

\* Rows given index by index are a sequence.
LEMMA FunctionIsSeq ==
  ASSUME NEW S, NEW k \in Nat, NEW f \in [1..k -> S]
  PROVE  f \in Seq(S) /\ Len(f) = k
  OBVIOUS

\* A table with rows appended is a table, its sequence advanced.
LEMMA InsertedTable ==
  ASSUME NEW t, NEW R, NEW n \in Nat, NEW rows \in Seq(R), IsTable(t, R, n)
  PROVE  /\ IsTable(WithRows(t, n, rows), R, n + Len(rows))
         /\ \A i \in DOMAIN t : /\ i \in DOMAIN WithRows(t, n, rows)
                                /\ WithRows(t, n, rows)[i] = t[i]
  BY DEF IsTable, WithRows

\* So is a table that loses rows, and the rows left are the old ones.
LEMMA ShrunkTable ==
  ASSUME NEW t, NEW R, NEW n \in Nat, NEW keep \in SUBSET DOMAIN t,
         IsTable(t, R, n)
  PROVE  /\ IsTable(Restrict(t, keep), R, n)
         /\ DOMAIN Restrict(t, keep) = keep
         /\ \A i \in keep : Restrict(t, keep)[i] = t[i]
  BY DEF IsTable, Restrict

LEMMA RemovedRows ==
  ASSUME NEW t, NEW R, NEW n \in Nat, NEW gone, IsTable(t, R, n)
  PROVE  /\ IsTable(Without(t, gone), R, n)
         /\ DOMAIN Without(t, gone) = DOMAIN t \ gone
         /\ \A i \in DOMAIN t \ gone : Without(t, gone)[i] = t[i]
  BY DEF IsTable, Without, Restrict

\* An UPDATE of one row keeps the table.
LEMMA UpdatedTable ==
  ASSUME NEW t, NEW R, NEW n \in Nat, NEW id, NEW row \in R, IsTable(t, R, n)
  PROVE  IsTable([t EXCEPT ![id] = row], R, n)
  BY DEF IsTable

\* ON DELETE CASCADE on resultados leaves a table of answers, each of them
\* an old one whose parents were not deleted.
LEMMA CascadedAnswers ==
  ASSUME NEW us, NEW qs, TablesOK
  PROVE  /\ IsTable(AnswersWithout(us, qs), Answer, serial.answer)
         /\ \A a \in DOMAIN AnswersWithout(us, qs) :
              /\ a \in DOMAIN answers
              /\ AnswersWithout(us, qs)[a] = answers[a]
              /\ answers[a].userId \notin us
              /\ answers[a].questId \notin qs
  BY DEF IsTable, TablesOK, Tables, AnswersWithout, Restrict

\* ON DELETE SET NULL keeps every participant, and its exam.
LEMMA ClearedParticipants ==
  ASSUME NEW ps, NEW n \in Nat, NEW gone, IsTable(ps, Participant, n)
  PROVE  /\ IsTable(AplicadorCleared(ps, gone), Participant, n)
         /\ DOMAIN AplicadorCleared(ps, gone) = DOMAIN ps
         /\ \A p \in DOMAIN ps :
              /\ AplicadorCleared(ps, gone)[p].examId = ps[p].examId
              /\ AplicadorCleared(ps, gone)[p].consultaCode = ps[p].consultaCode
<1>1. ASSUME NEW p \in DOMAIN ps
      PROVE  /\ AplicadorCleared(ps, gone)[p] \in Participant
             /\ AplicadorCleared(ps, gone)[p].examId = ps[p].examId
             /\ AplicadorCleared(ps, gone)[p].consultaCode = ps[p].consultaCode
  <2>1. ps[p] \in Participant
    BY DEF IsTable
  <2>2. [ps[p] EXCEPT !.aplicadorId = NoId] \in Participant
    BY <2>1 DEF Participant, NoId
  <2> QED
    BY <2>1, <2>2 DEF AplicadorCleared, Participant
<1>2. DOMAIN AplicadorCleared(ps, gone) = DOMAIN ps
  BY DEF AplicadorCleared
<1> QED
  BY <1>1, <1>2 DEF IsTable, AplicadorCleared

\* ... and no reference to the aplicadores deleted.
LEMMA ClearedAplicador ==
  ASSUME NEW ps, NEW n \in Nat, NEW gone, IsTable(ps, Participant, n),
         NEW p \in DOMAIN ps
  PROVE  AplicadorCleared(ps, gone)[p].aplicadorId =
           IF ps[p].aplicadorId \in gone THEN NoId ELSE ps[p].aplicadorId
<1>1. ps[p] \in Participant
  BY DEF IsTable
<1>2. [ps[p] EXCEPT !.aplicadorId = NoId].aplicadorId = NoId
  BY <1>1 DEF Participant
<1> QED
  BY <1>2 DEF AplicadorCleared

-----------------------------------------------------------------------------
(* The shape of the call a slot is serving follows from its op.            *)

LEMMA CallShape ==
  ASSUME NEW c \in Call
  PROVE  /\ c.op = "status" => c \in StatusCall
         /\ c.op = "export" => c \in ExportCall
         /\ c.op = "mail" => c \in MailCall
         /\ c.op = "bulkQuestions" => c \in BulkQuestionsCall
         /\ c.op = "removeQuestion" => c \in RemoveQuestionCall
         /\ c.op = "enrol" => c \in EnrolCall
         /\ c.op = "presenca" => c \in PresencaCall
         /\ c.op = "redacao" => c \in RedacaoCall
         /\ c.op = "removeParticipant" => c \in RemoveParticipantCall
         /\ c.op = "bulkAnswers" => c \in BulkAnswersCall
<1>1. c = Idle => c.op = "idle"
  BY DEF Idle
<1>2. c \in StatusCall => c.op = "status"
  BY DEF StatusCall
<1>3. c \in ExportCall => c.op = "export"
  BY DEF ExportCall
<1>4. c \in MailCall => c.op = "mail"
  BY DEF MailCall
<1>5. c \in BulkQuestionsCall => c.op = "bulkQuestions"
  BY DEF BulkQuestionsCall
<1>6. c \in RemoveQuestionCall => c.op = "removeQuestion"
  BY DEF RemoveQuestionCall
<1>7. c \in EnrolCall => c.op = "enrol"
  BY DEF EnrolCall
<1>8. c \in PresencaCall => c.op = "presenca"
  BY DEF PresencaCall
<1>9. c \in RedacaoCall => c.op = "redacao"
  BY DEF RedacaoCall
<1>10. c \in RemoveParticipantCall => c.op = "removeParticipant"
  BY DEF RemoveParticipantCall
<1>11. c \in BulkAnswersCall => c.op = "bulkAnswers"
  BY DEF BulkAnswersCall
<1> HIDE DEF Idle, StatusCall, ExportCall, MailCall, BulkQuestionsCall, RemoveQuestionCall, EnrolCall, PresencaCall, RedacaoCall, RemoveParticipantCall, BulkAnswersCall
<1> QED
  BY <1>1, <1>2, <1>3, <1>4, <1>5, <1>6, <1>7, <1>8, <1>9, <1>10, <1>11 DEF Call

\* A slot that starts, goes on with or closes a call keeps calls well typed.
LEMMA CallsStep ==
  ASSUME TypeOK, NEW s \in Slots, NEW c \in Call,
         calls' = [calls EXCEPT ![s] = c]
  PROVE  calls' \in [Slots -> Call]
  BY DEF TypeOK

LEMMA CloseStep ==
  ASSUME TypeOK, NEW s \in Slots, Close(s)
  PROVE  calls' \in [Slots -> Call]
  BY CallsStep DEF Close, Call

LEMMA StartStep ==
  ASSUME TypeOK, NEW s \in Slots, NEW c \in Call, Start(s, c)
  PROVE  calls' \in [Slots -> Call]
  BY CallsStep DEF Start

-----------------------------------------------------------------------------
(* Type correctness, service by service.                                   *)

LEMMA TablesOKFacts ==
  ASSUME TablesOK
  PROVE  /\ serial.exam \in Nat /\ serial.question \in Nat
         /\ serial.participant \in Nat /\ serial.aplicador \in Nat
         /\ serial.answer \in Nat
         /\ \A e \in DOMAIN exams : exams[e] \in Exam /\ e \in Ids
         /\ \A q \in DOMAIN questions : questions[q] \in Question /\ q \in Ids
         /\ \A p \in DOMAIN participants :
              participants[p] \in Participant /\ p \in Ids
         /\ \A a \in DOMAIN aplicadores :
              aplicadores[a] \in Aplicador /\ a \in Ids
         /\ \A a \in DOMAIN answers : answers[a] \in Answer /\ a \in Ids
  BY DEF TablesOK, IsTable, Tables, Ids

\* Deleting an exam leaves tables.
LEMMA DeleteExamTypes ==
  ASSUME TablesOK, NEW e, DeleteExam(e)
  PROVE  TablesOK'
<1>1. IsTable(exams', Exam, serial.exam)
  BY RemovedRows, TablesOKFacts DEF TablesOK, DeleteExam
<1>2. IsTable(questions', Question, serial.question)
  BY RemovedRows, TablesOKFacts DEF TablesOK, DeleteExam
<1>3. IsTable(participants', Participant, serial.participant)
  BY RemovedRows, ClearedParticipants, TablesOKFacts DEF TablesOK, DeleteExam
<1>4. IsTable(aplicadores', Aplicador, serial.aplicador)
  BY RemovedRows, TablesOKFacts DEF TablesOK, DeleteExam
<1>5. IsTable(answers', Answer, serial.answer)
  BY CascadedAnswers DEF TablesOK, DeleteExam
<1> QED
  BY <1>1, <1>2, <1>3, <1>4, <1>5 DEF TablesOK, DeleteExam

LEMMA ExamsTypes ==
  ASSUME TypeOK, ExamsNext
  PROVE  TypeOK'
<1> USE DEF TypeOK
<1>1. ASSUME NEW dto \in ExamInputs, CreateExam(dto)
      PROVE  TypeOK'
  <2> DEFINE e == serial.exam + 1
             row == [status |-> "draft", encerramento |-> NoDate,
                     notaSimbolica |-> dto.notaSimbolica]
             rows == [n \in 1..dto.qtdQuestoes |->
                        [examId |-> e, numero |-> n, peso |-> 1,
                         correctAnswer |-> ""]]
  <2>1. dto.qtdQuestoes \in Ids /\ dto.notaSimbolica \in Ids /\ e \in Ids
    BY <1>1, ExamsAssumption, TablesOKFacts DEF Ids
  <2>2. <<row>> \in Seq(Exam) /\ Len(<<row>>) = 1
    BY <2>1 DEF Exam, ExamStatus, NoDate
  <2>3. rows \in Seq(Question) /\ Len(rows) = dto.qtdQuestoes
    <3>1. dto.qtdQuestoes \in Nat
      BY <2>1 DEF Ids
    <3>2. ASSUME NEW n \in 1..dto.qtdQuestoes
          PROVE  [examId |-> e, numero |-> n, peso |-> 1,
                  correctAnswer |-> ""] \in Question
      <4>1. n \in Ids /\ 1 \in Ids
        BY <3>1 DEF Ids
      <4> HIDE DEF e
      <4> QED
        BY <2>1, <4>1 DEF Question
    <3>3. rows \in [1..dto.qtdQuestoes -> Question]
      <4> HIDE DEF Question
      <4> QED
        BY <3>2
    <3> HIDE DEF rows
    <3> QED
      BY <3>1, <3>3, FunctionIsSeq
  <2>4. /\ exams' = WithRows(exams, serial.exam, <<row>>)
        /\ questions' = WithRows(questions, serial.question, rows)
        /\ serial' = [serial EXCEPT !.exam = e,
                        !.question = serial.question + dto.qtdQuestoes]
        /\ UNCHANGED <<participants, aplicadores, answers, calls, examsVars>>
    BY <1>1 DEF CreateExam
  <2>5. serial.exam \in Nat /\ serial.question \in Nat /\ dto.qtdQuestoes \in Nat
    BY <2>1, TablesOKFacts DEF Ids
  <2>6. /\ IsTable(exams', Exam, serial.exam + 1)
        /\ IsTable(questions', Question, serial.question + dto.qtdQuestoes)
    <3> HIDE DEF row, rows
    <3>1. IsTable(exams', Exam, serial.exam + Len(<<row>>))
      BY <2>2, <2>4, <2>5, InsertedTable DEF TablesOK
    <3>2. IsTable(questions', Question, serial.question + Len(rows))
      BY <2>3, <2>4, <2>5, InsertedTable DEF TablesOK
    <3> QED
      BY <2>2, <2>3, <3>1, <3>2
  <2>7. /\ serial' \in [Tables -> Nat]
        /\ serial'.exam = serial.exam + 1
        /\ serial'.question = serial.question + dto.qtdQuestoes
        /\ serial'.participant = serial.participant
        /\ serial'.aplicador = serial.aplicador
        /\ serial'.answer = serial.answer
    <3>1. serial \in [Tables -> Nat]
      BY DEF TablesOK
    <3>2. serial.exam + 1 \in Nat /\ serial.question + dto.qtdQuestoes \in Nat
      BY <2>5
    <3> QED
      BY <2>4, <3>1, <3>2 DEF Tables
  <2>8. TablesOK'
    BY <2>4, <2>6, <2>7 DEF TablesOK
  <2> QED
    BY <2>4, <2>8 DEF examsVars
<1>2. ASSUME NEW e \in DOMAIN exams, NEW nota \in NotaInputs, UpdateExam(e, nota)
      PROVE  TypeOK'
  <2>1. [exams[e] EXCEPT !.notaSimbolica = nota] \in Exam
    BY ExamsAssumption, TablesOKFacts DEF Exam
  <2>2. IsTable(exams', Exam, serial.exam)
    BY <1>2, <2>1, UpdatedTable, TablesOKFacts DEF UpdateExam, TablesOK
  <2> QED
    BY <1>2, <2>2 DEF UpdateExam, TablesOK, examsVars
<1>3. ASSUME NEW e \in DOMAIN exams, RemoveExam(e)
      PROVE  TypeOK'
  BY <1>3, DeleteExamTypes DEF RemoveExam, examsVars
<1>4. ASSUME NEW s \in Slots, NEW e \in DOMAIN exams, NEW to \in StatusInputs,
             ReadStatus(s, e, to)
      PROVE  TypeOK'
  <2>1. [op |-> "status", examId |-> e, to |-> to] \in Call
    BY ExamsAssumption, TablesOKFacts DEF Call, StatusCall
  <2> QED
    BY <1>4, <2>1, StartStep DEF ReadStatus, tables, examsVars, TablesOK
<1>5. ASSUME NEW s \in Slots, WriteStatus(s)
      PROVE  TypeOK'
  <2> DEFINE e == calls[s].examId
             to == calls[s].to
             row == [exams[e] EXCEPT !.status = to,
                                     !.encerramento = ClosingDay(e, to)]
  <2>1. e \in Ids /\ to \in ExamStatus
    BY <1>5, CallShape DEF WriteStatus, Serving, StatusCall
  <2>2. row \in Exam
    BY <1>5, <2>1, TablesOKFacts DEF WriteStatus, Exam, ClosingDay
  <2>3. exams' = [exams EXCEPT ![e] = row]
    BY <1>5, TablesOKFacts DEF WriteStatus, TablesOK, IsTable
  <2>4. IsTable(exams', Exam, serial.exam)
    BY <2>2, <2>3, UpdatedTable, TablesOKFacts DEF TablesOK
  <2>5. IF to = "completed" THEN [op |-> "export", examId |-> e] \in Call
                            ELSE Idle \in Call
    BY <2>1 DEF Call, ExportCall
  <2>6. calls' \in [Slots -> Call]
    BY <1>5, <2>5, CallsStep DEF WriteStatus
  <2> QED
    BY <1>5, <2>4, <2>6 DEF WriteStatus, TablesOK, examsVars
<1>6. ASSUME NEW s \in Slots, ExportRanking(s)
      PROVE  TypeOK'
  <2>1. [op |-> "mail", examId |-> calls[s].examId, pending |-> Adms] \in MailCall
    BY <1>6, CallShape DEF ExportRanking, Serving, ExportCall, MailCall
  <2>2. calls' = [calls EXCEPT ![s] = [op |-> "mail", examId |-> calls[s].examId,
                                       pending |-> Adms]]
    BY <1>6 DEF ExportRanking
  <2>3. calls' \in [Slots -> Call]
    BY <2>1, <2>2, CallsStep DEF Call
  <2> QED
    BY <1>6, <2>3 DEF ExportRanking, tables, examsVars, TablesOK
<1>7. ASSUME NEW s \in Slots, NEW adm \in Adms, NEW sent \in MailOutcomes,
             SendMail(s, adm, sent)
      PROVE  TypeOK'
  <2> DEFINE left == IF sent THEN calls[s].pending \ {adm} ELSE {}
             next == IF left = {} THEN Idle ELSE [calls[s] EXCEPT !.pending = left]
  <2>1. calls[s] \in MailCall
    BY <1>7, CallShape DEF SendMail, Serving
  <2>2. next \in Call
    BY <2>1 DEF Call, MailCall
  <2>3. calls' = [calls EXCEPT ![s] = next]
    BY <1>7 DEF SendMail
  <2>4. calls' \in [Slots -> Call]
    BY <2>2, <2>3, CallsStep
  <2>5. [examId |-> calls[s].examId, to |-> adm, sent |-> sent] \in Mail
    BY <2>1, ExamsAssumption DEF MailCall, Mail
  <2>6. outbox' \in Seq(Mail)
    BY <1>7, <2>5 DEF SendMail
  <2> QED
    BY <1>7, <2>4, <2>6 DEF SendMail, tables, TablesOK
<1>8. ASSUME NEW s \in Slots, ExamGone(s)
      PROVE  TypeOK'
  BY <1>8, CloseStep DEF ExamGone, tables, examsVars, TablesOK
<1>9. CASE Tick
  BY <1>9, ExamsAssumption DEF Tick, tables, TablesOK
<1> QED
  BY <1>1, <1>2, <1>3, <1>4, <1>5, <1>6, <1>7, <1>8, <1>9
     DEF ExamsNext, ExamsStep

\* The ids the created items draw are new and within the sequence's advance.
LEMMA RankBounds ==
  ASSUME NEW c \in BulkQuestionsCall
  PROVE  /\ Cardinality(CreatedItems(c)) \in Nat
         /\ \A i \in CreatedItems(c) : Rank(c, i) \in 1..Cardinality(CreatedItems(c))
<1>1. c.items \in Seq(QuestionItem)
  BY DEF BulkQuestionsCall
<1>2. Len(c.items) \in Nat /\ DOMAIN c.items = 1..Len(c.items)
  BY <1>1
<1>3. IsFiniteSet(CreatedItems(c)) /\ CreatedItems(c) \subseteq Int
  <2>1. IsFiniteSet(1..Len(c.items))
    BY <1>2, FS_Interval
  <2>2. CreatedItems(c) \in SUBSET (1..Len(c.items))
    BY <1>2 DEF CreatedItems
  <2> QED
    BY <2>1, <2>2, FS_Subset
<1>4. ASSUME NEW i \in CreatedItems(c)
      PROVE  Rank(c, i) \in 1..Cardinality(CreatedItems(c))
  <2> DEFINE upTo == {j \in CreatedItems(c) : j <= i}
  <2>1. upTo \in SUBSET CreatedItems(c) /\ i \in upTo
    BY <1>3
  <2> HIDE DEF upTo
  <2>2. /\ IsFiniteSet(upTo)
        /\ Cardinality(upTo) <= Cardinality(CreatedItems(c))
    BY <1>3, <2>1, FS_Subset
  <2>3. Cardinality(upTo) \in Nat /\ Cardinality(CreatedItems(c)) \in Nat
    BY <1>3, <2>2, FS_CardinalityType
  <2>4. Cardinality(upTo) # 0
    BY <2>1, <2>2, FS_EmptySet
  <2>5. Rank(c, i) = Cardinality(upTo)
    BY DEF Rank, upTo
  <2> QED
    BY <2>2, <2>3, <2>4, <2>5
<1> QED
  BY <1>3, <1>4, FS_CardinalityType

\* Every row a bulk of questions leaves is a question: an old one, the last
\* item aimed at it, or a created one.
LEMMA SavedQuestionType ==
  ASSUME TablesOK, NEW c \in BulkQuestionsCall,
         NEW q \in DOMAIN questions \cup {newQuestionId(c, i) : i \in CreatedItems(c)}
  PROVE  SavedQuestion(c, q) \in Question
<1> DEFINE on == {i \in DOMAIN c.items : c.target[i] = q}
           last == CHOOSE i \in on : \A j \in on : j <= i
           created == CHOOSE i \in CreatedItems(c) : q = newQuestionId(c, i)
<1>1. /\ c.items \in Seq(QuestionItem) /\ Len(c.items) \in Nat
      /\ DOMAIN c.items = 1..Len(c.items) /\ c.examId \in Ids
  BY DEF BulkQuestionsCall
<1>2. ASSUME NEW e \in Ids, NEW i \in DOMAIN c.items
      PROVE  QuestionRow(e, c.items[i]) \in Question
  <2>1. c.items[i] \in QuestionItem
    BY <1>1
  <2> QED
    BY <2>1 DEF QuestionItem, QuestionRow, Question
<1>3. CASE q \notin DOMAIN questions
  <2>1. \E i \in CreatedItems(c) : q = newQuestionId(c, i)
    BY <1>3
  <2>2. created \in CreatedItems(c)
    BY <2>1
  <2>3. created \in DOMAIN c.items
    BY <2>2 DEF CreatedItems
  <2>4. SavedQuestion(c, q) = QuestionRow(c.examId, c.items[created])
    BY <1>3 DEF SavedQuestion
  <2> HIDE DEF created
  <2> QED
    BY <1>1, <1>2, <2>3, <2>4
<1>4. CASE q \in DOMAIN questions /\ on = {}
  <2>1. SavedQuestion(c, q) = questions[q]
    BY <1>4 DEF SavedQuestion
  <2> QED
    BY <1>4, <2>1, TablesOKFacts
<1>5. CASE q \in DOMAIN questions /\ on # {}
  <2>1. on \in SUBSET (1..Len(c.items))
    BY <1>1
  <2>2. \E i \in on : \A j \in on : j <= i
    <3> HIDE DEF on
    <3> QED
      BY <1>1, <1>5, <2>1, LastIndex
  <2>3. last \in on
    BY <2>2
  <2>4. SavedQuestion(c, q) = QuestionRow(questions[q].examId, c.items[last])
    BY <1>5 DEF SavedQuestion
  <2>5. questions[q].examId \in Ids
    BY <1>5, TablesOKFacts DEF Question
  <2>6. last \in DOMAIN c.items
    BY <2>3
  <2> HIDE DEF last, on
  <2> QED
    BY <1>2, <2>4, <2>5, <2>6
<1> QED
  BY <1>3, <1>4, <1>5

LEMMA QuestionsTypes ==
  ASSUME TypeOK, QuestionsNext, UNCHANGED examsVars
  PROVE  TypeOK'
<1> USE DEF TypeOK
<1>1. ASSUME NEW s \in Slots, NEW e \in DOMAIN exams, NEW items \in QuestionInputs,
             SnapshotQuestions(s, e, items)
      PROVE  TypeOK'
  <2> DEFINE target == [i \in DOMAIN items |-> targetId(e, items[i])]
             call == [op |-> "bulkQuestions", examId |-> e, items |-> items,
                      target |-> target]
  <2>1. items \in Seq(QuestionItem) /\ e \in Ids
    BY QuestionsAssumption, TablesOKFacts
  <2>2. ASSUME NEW i \in DOMAIN items
        PROVE  targetId(e, items[i]) \in Nat
    <3> DEFINE same == {q \in QuestionsOf(e) : questions[q].numero = items[i].numero}
    <3>1. items[i] \in QuestionItem
      BY <2>1
    <3>2. same \subseteq Nat
      BY TablesOKFacts DEF QuestionsOf, Ids
    <3>3. CASE items[i].id # NoId
      BY <3>1, <3>3 DEF targetId, QuestionItem
    <3>4. CASE items[i].id = NoId /\ same = {}
      BY <3>4 DEF targetId, NoId
    <3>5. CASE items[i].id = NoId /\ same # {}
      <4>1. targetId(e, items[i]) = CHOOSE q \in same : TRUE
        BY <3>5 DEF targetId
      <4> HIDE DEF same
      <4> QED
        BY <3>2, <3>5, <4>1
    <3> QED
      BY <3>3, <3>4, <3>5
  <2>3. target \in Seq(Nat)
    <3>1. Len(items) \in Nat /\ DOMAIN items = 1..Len(items)
      BY <2>1
    <3>2. target \in [1..Len(items) -> Nat]
      BY <2>2, <3>1
    <3> HIDE DEF target
    <3> QED
      BY <3>1, <3>2, FunctionIsSeq
  <2>4. Start(s, call)
    BY <1>1 DEF SnapshotQuestions
  <2>5. call \in Call
    <3> HIDE DEF target
    <3> QED
      BY <2>1, <2>3 DEF Call, BulkQuestionsCall
  <2> HIDE DEF call
  <2>6. calls' \in [Slots -> Call]
    BY <2>4, <2>5, StartStep
  <2> QED
    BY <1>1, <2>6 DEF SnapshotQuestions, tables, examsVars, TablesOK
<1>2. ASSUME NEW s \in Slots, SaveQuestions(s)
      PROVE  TypeOK'
  <2> DEFINE c == calls[s]
             n == Cardinality(CreatedItems(c))
             new == {newQuestionId(c, i) : i \in CreatedItems(c)}
  <2>1. c \in BulkQuestionsCall
    BY <1>2, CallShape DEF SaveQuestions, Serving
  <2>2. /\ questions' = [q \in DOMAIN questions \cup new |-> SavedQuestion(c, q)]
        /\ serial' = [serial EXCEPT !.question = serial.question + n]
        /\ Close(s)
        /\ UNCHANGED <<exams, participants, aplicadores, answers>>
    BY <1>2 DEF SaveQuestions
  <2>3. n \in Nat /\ serial.question \in Nat
    BY <2>1, RankBounds, TablesOKFacts
  <2>4. new \subseteq 1..(serial.question + n)
    BY <2>1, <2>3, RankBounds DEF newQuestionId
  <2>5. DOMAIN questions \subseteq 1..(serial.question + n)
    BY <2>3 DEF TablesOK, IsTable
  <2>6. IsTable(questions', Question, serial.question + n)
    <3>1. \A q \in DOMAIN questions \cup new : SavedQuestion(c, q) \in Question
      BY <2>1, SavedQuestionType
    <3> HIDE DEF c, n, new
    <3> QED
      BY <2>2, <2>4, <2>5, <3>1 DEF IsTable
  <2>7. /\ serial' \in [Tables -> Nat]
        /\ serial'.question = serial.question + n
        /\ serial'.exam = serial.exam
        /\ serial'.participant = serial.participant
        /\ serial'.aplicador = serial.aplicador
        /\ serial'.answer = serial.answer
    <3>1. serial \in [Tables -> Nat] /\ serial.question + n \in Nat
      BY <2>3 DEF TablesOK
    <3> HIDE DEF n
    <3> QED
      BY <2>2, <3>1 DEF Tables
  <2>8. calls' \in [Slots -> Call]
    BY <2>2, CloseStep
  <2> HIDE DEF n
  <2> QED
    BY <2>2, <2>6, <2>7, <2>8 DEF TablesOK, examsVars
<1>3. ASSUME NEW s \in Slots, QuestionsRefused(s)
      PROVE  TypeOK'
  BY <1>3, CloseStep DEF QuestionsRefused, tables, examsVars, TablesOK
<1>4. ASSUME NEW s \in Slots, NEW e \in DOMAIN exams, NEW q \in QuestionsOf(e),
             FindQuestion(s, e, q)
      PROVE  TypeOK'
  <2>1. [op |-> "removeQuestion", examId |-> e, id |-> q] \in Call
    BY TablesOKFacts DEF Call, RemoveQuestionCall, QuestionsOf
  <2> QED
    BY <1>4, <2>1, StartStep DEF FindQuestion, tables, examsVars, TablesOK
<1>5. ASSUME NEW s \in Slots, RemoveQuestion(s)
      PROVE  TypeOK'
  <2>1. IsTable(questions', Question, serial.question)
    BY <1>5, RemovedRows, TablesOKFacts DEF RemoveQuestion, TablesOK
  <2>2. IsTable(answers', Answer, serial.answer)
    BY <1>5, CascadedAnswers DEF RemoveQuestion
  <2> QED
    BY <1>5, <2>1, <2>2, CloseStep DEF RemoveQuestion, examsVars, TablesOK
<1> QED
  BY <1>1, <1>2, <1>3, <1>4, <1>5 DEF QuestionsNext, QuestionsStep

LEMMA ParticipantsTypes ==
  ASSUME TypeOK, ParticipantsNext, UNCHANGED examsVars
  PROVE  TypeOK'
<1> USE DEF TypeOK
<1>1. ASSUME NEW s \in Slots, NEW e \in DOMAIN exams, NEW dtos \in ParticipantInputs,
             AllocateCodes(s, e, dtos)
      PROVE  TypeOK'
  <2>1. dtos \in Seq(ParticipantDto) /\ e \in Ids
    BY ParticipantsAssumption, TablesOKFacts
  <2>2. PICK codes \in [DOMAIN dtos -> Codes \ CodesOf(e)] :
          Start(s, [op |-> "enrol", examId |-> e, dtos |-> dtos, codes |-> codes])
    BY <1>1 DEF AllocateCodes
  <2>3. codes \in Seq(Codes) /\ Len(codes) = Len(dtos)
    <3>1. Len(dtos) \in Nat /\ DOMAIN dtos = 1..Len(dtos)
      BY <2>1
    <3>2. codes \in [1..Len(dtos) -> Codes]
      BY <3>1
    <3> QED
      BY <3>1, <3>2, FunctionIsSeq
  <2>4. [op |-> "enrol", examId |-> e, dtos |-> dtos, codes |-> codes] \in Call
    BY <2>1, <2>3 DEF Call, EnrolCall
  <2>5. calls' \in [Slots -> Call]
    BY <2>2, <2>4, StartStep
  <2> QED
    BY <1>1, <2>5 DEF AllocateCodes, tables, examsVars, TablesOK
<1>2. ASSUME NEW s \in Slots, NEW e \in DOMAIN exams, NEW call \in EditInputsOf(e),
             AssertOwned(s, call)
      PROVE  TypeOK'
  <2>1. DOMAIN participants \subseteq Ids /\ e \in Ids
    BY TablesOKFacts
  <2>2. \/ call \in [op : {"presenca"}, examId : {e}, id : DOMAIN participants,
                     value : BOOLEAN]
        \/ call \in [op : {"redacao"}, examId : {e}, id : DOMAIN participants,
                     value : RedacaoInputs]
        \/ call \in [op : {"removeParticipant"}, examId : {e},
                     id : DOMAIN participants]
    BY DEF EditInputsOf
  <2>3. \/ call \in PresencaCall
        \/ call \in RedacaoCall
        \/ call \in RemoveParticipantCall
    BY <2>1, <2>2, ParticipantsAssumption
       DEF PresencaCall, RedacaoCall, RemoveParticipantCall
  <2>4. calls' \in [Slots -> Call]
    BY <1>2, <2>3, StartStep DEF AssertOwned, Call
  <2> QED
    BY <1>2, <2>4 DEF AssertOwned, tables, examsVars, TablesOK
<1>3. ASSUME NEW s \in Slots, InsertParticipants(s)
      PROVE  TypeOK'
  <2> DEFINE c == calls[s]
             n == Len(c.dtos)
             rows == [i \in 1..n |-> EnrolledRow(c, i)]
  <2>1. /\ c.dtos \in Seq(ParticipantDto) /\ c.codes \in Seq(Codes)
        /\ c.examId \in Ids /\ Len(c.codes) = Len(c.dtos)
    BY <1>3, CallShape DEF InsertParticipants, Serving, EnrolCall
  <2>2. /\ participants' = WithRows(participants, serial.participant, rows)
        /\ serial' = [serial EXCEPT !.participant = serial.participant + n]
        /\ Close(s)
        /\ UNCHANGED <<exams, questions, aplicadores, answers>>
    BY <1>3 DEF InsertParticipants
  <2>3. n \in Nat /\ DOMAIN c.dtos = 1..n /\ serial.participant \in Nat
    BY <2>1, TablesOKFacts
  <2>4. Len(c.codes) = n
    BY <2>1
  <2>5. ASSUME NEW i \in 1..n
        PROVE  EnrolledRow(c, i) \in Participant
    <3>1. c.dtos[i] \in ParticipantDto /\ c.codes[i] \in Codes
      BY <2>1, <2>3, <2>4
    <3> QED
      BY <2>1, <3>1 DEF EnrolledRow, Participant, ParticipantDto
  <2>6. rows \in Seq(Participant) /\ Len(rows) = n
    <3>1. rows \in [1..n -> Participant]
      BY <2>5
    <3> HIDE DEF rows, n
    <3> QED
      BY <2>3, <3>1, FunctionIsSeq
  <2> HIDE DEF rows, n
  <2>7. IsTable(participants', Participant, serial.participant + n)
    BY <2>2, <2>3, <2>6, InsertedTable DEF TablesOK
  <2>8. /\ serial' \in [Tables -> Nat]
        /\ serial'.participant = serial.participant + n
        /\ serial'.exam = serial.exam
        /\ serial'.question = serial.question
        /\ serial'.aplicador = serial.aplicador
        /\ serial'.answer = serial.answer
    <3>1. serial \in [Tables -> Nat] /\ serial.participant + n \in Nat
      BY <2>3 DEF TablesOK
    <3> QED
      BY <2>2, <3>1 DEF Tables
  <2> QED
    BY <2>2, <2>7, <2>8, CloseStep DEF TablesOK, examsVars
<1>4. ASSUME NEW s \in Slots, EnrolRefused(s)
      PROVE  TypeOK'
  BY <1>4, CloseStep DEF EnrolRefused, tables, examsVars, TablesOK
<1>5. ASSUME NEW s \in Slots, UpdatePresenca(s)
      PROVE  TypeOK'
  <2> DEFINE p == calls[s].id
             row == [participants[p] EXCEPT !.presenca = calls[s].value]
  <2>1. calls[s].value \in BOOLEAN
    BY <1>5, CallShape DEF UpdatePresenca, Serving, PresencaCall
  <2>2. row \in Participant
    BY <1>5, <2>1, TablesOKFacts DEF UpdatePresenca, Participant
  <2>3. participants' = [participants EXCEPT ![p] = row]
    BY <1>5 DEF UpdatePresenca
  <2>4. IsTable(participants', Participant, serial.participant)
    BY <2>2, <2>3, UpdatedTable, TablesOKFacts DEF TablesOK
  <2> QED
    BY <1>5, <2>4, CloseStep DEF UpdatePresenca, examsVars, TablesOK
<1>6. ASSUME NEW s \in Slots, UpdateRedacao(s)
      PROVE  TypeOK'
  <2> DEFINE p == calls[s].id
             row == [participants[p] EXCEPT !.redacaoNota = calls[s].value]
  <2>1. calls[s].value \in Nat \cup {NoNota}
    BY <1>6, CallShape DEF UpdateRedacao, Serving, RedacaoCall
  <2>2. row \in Participant
    BY <1>6, <2>1, TablesOKFacts DEF UpdateRedacao, Participant
  <2>3. participants' = [participants EXCEPT ![p] = row]
    BY <1>6 DEF UpdateRedacao
  <2>4. IsTable(participants', Participant, serial.participant)
    BY <2>2, <2>3, UpdatedTable, TablesOKFacts DEF TablesOK
  <2> QED
    BY <1>6, <2>4, CloseStep DEF UpdateRedacao, examsVars, TablesOK
<1>7. ASSUME NEW s \in Slots, RemoveParticipant(s)
      PROVE  TypeOK'
  <2>1. IsTable(participants', Participant, serial.participant)
    BY <1>7, RemovedRows, TablesOKFacts DEF RemoveParticipant, TablesOK
  <2>2. IsTable(answers', Answer, serial.answer)
    BY <1>7, CascadedAnswers DEF RemoveParticipant
  <2> QED
    BY <1>7, <2>1, <2>2, CloseStep DEF RemoveParticipant, examsVars, TablesOK
<1>8. ASSUME NEW s \in Slots, ParticipantGone(s)
      PROVE  TypeOK'
  BY <1>8, CloseStep DEF ParticipantGone, tables, examsVars, TablesOK
<1> QED
  BY <1>1, <1>2, <1>3, <1>4, <1>5, <1>6, <1>7, <1>8
     DEF ParticipantsNext, ParticipantsStep

\* Every row a bulk of answers leaves is an answer: an old one or an item,
\* with the alternative of the last item of its pair; the pair is untouched.
LEMMA UpsertedAnswerType ==
  ASSUME TablesOK, NEW c \in BulkAnswersCall,
         NEW a \in DOMAIN answers \cup {serial.answer + i : i \in InsertedItems(c)}
  PROVE  /\ UpsertedAnswer(c, a) \in Answer
         /\ a \in DOMAIN answers =>
              Pair(UpsertedAnswer(c, a)) = Pair(answers[a])
         /\ a \notin DOMAIN answers =>
              \E i \in DOMAIN c.items : Pair(UpsertedAnswer(c, a)) = Pair(c.items[i])
<1> DEFINE row == IF a \in DOMAIN answers THEN answers[a]
                                          ELSE c.items[a - serial.answer]
           on == {i \in DOMAIN c.items : Pair(c.items[i]) = Pair(row)}
           last == CHOOSE i \in on : \A j \in on : j <= i
<1>1. /\ c.items \in Seq(AnswerItem) /\ Len(c.items) \in Nat
      /\ DOMAIN c.items = 1..Len(c.items)
  BY DEF BulkAnswersCall
<1>2. \A i \in DOMAIN c.items : c.items[i] \in Answer
  <2>1. AnswerItem = Answer
    BY DEF AnswerItem, Answer
  <2> HIDE DEF AnswerItem, Answer
  <2> QED
    BY <1>1, <2>1
<1>3. /\ row \in Answer
      /\ a \notin DOMAIN answers => \E i \in DOMAIN c.items : row = c.items[i]
  <2>1. CASE a \in DOMAIN answers
    BY <2>1, TablesOKFacts
  <2>2. CASE a \notin DOMAIN answers
    <3>1. PICK i \in InsertedItems(c) : a = serial.answer + i
      BY <2>2
    <3>2. i \in DOMAIN c.items /\ i \in Nat
      BY <1>1, <3>1 DEF InsertedItems
    <3>3. a - serial.answer = i
      BY <3>1, <3>2, TablesOKFacts
    <3> QED
      BY <1>2, <2>2, <3>2, <3>3
  <2> QED
    BY <2>1, <2>2
<1>4. ASSUME on = {}
      PROVE  UpsertedAnswer(c, a) \in Answer /\ Pair(UpsertedAnswer(c, a)) = Pair(row)
  <2>1. UpsertedAnswer(c, a) = row
    BY <1>4 DEF UpsertedAnswer
  <2> HIDE DEF row
  <2> QED
    BY <1>3, <2>1
<1>5. ASSUME on # {}
      PROVE  UpsertedAnswer(c, a) \in Answer /\ Pair(UpsertedAnswer(c, a)) = Pair(row)
  <2>1. on \in SUBSET (1..Len(c.items))
    BY <1>1
  <2>2. \E i \in on : \A j \in on : j <= i
    <3> HIDE DEF on
    <3> QED
      BY <1>1, <1>5, <2>1, LastIndex
  <2>3. last \in DOMAIN c.items
    BY <2>2
  <2>4. UpsertedAnswer(c, a) =
          [row EXCEPT !.alternativa = c.items[last].alternativa]
    BY <1>5 DEF UpsertedAnswer
  <2> HIDE DEF row, last
  <2>5. c.items[last].alternativa \in Letters \cup {""}
    BY <1>2, <2>3 DEF Answer
  <2> QED
    BY <1>3, <2>4, <2>5 DEF Answer, Pair
<1>6. a \in DOMAIN answers => row = answers[a]
  OBVIOUS
<1> HIDE DEF row, on
<1> QED
  BY <1>3, <1>4, <1>5, <1>6

LEMMA AnswersTypes ==
  ASSUME TypeOK, AnswersNext, UNCHANGED examsVars
  PROVE  TypeOK'
<1> USE DEF TypeOK
<1>1. ASSUME NEW s \in Slots, NEW e \in DOMAIN exams, NEW items \in AnswerInputs,
             OpenBulkAnswers(s, e, items)
      PROVE  TypeOK'
  <2>1. [op |-> "bulkAnswers", examId |-> e, items |-> items,
         unread |-> Reads] \in BulkAnswersCall
    BY AnswersAssumption, TablesOKFacts DEF BulkAnswersCall
  <2>2. calls' \in [Slots -> Call]
    BY <1>1, <2>1, StartStep DEF OpenBulkAnswers, Call
  <2> QED
    BY <1>1, <2>2 DEF OpenBulkAnswers, tables, examsVars, TablesOK
<1>2. ASSUME NEW s \in Slots, NEW table \in Reads, ReadOwners(s, table)
      PROVE  TypeOK'
  <2> DEFINE next == [calls[s] EXCEPT !.unread = @ \ {table}]
  <2>1. calls[s] \in BulkAnswersCall
    BY <1>2, CallShape DEF ReadOwners, Serving
  <2>2. next \in BulkAnswersCall
    BY <2>1 DEF BulkAnswersCall
  <2>3. calls' = [calls EXCEPT ![s] = next]
    BY <1>2 DEF ReadOwners
  <2>4. calls' \in [Slots -> Call]
    <3> HIDE DEF next
    <3> QED
      BY <2>2, <2>3, CallsStep DEF Call
  <2> QED
    BY <1>2, <2>4 DEF ReadOwners, tables, examsVars, TablesOK
<1>3. ASSUME NEW s \in Slots, SaveAnswers(s)
      PROVE  TypeOK'
  <2> DEFINE c == calls[s]
             n == Len(c.items)
             new == {serial.answer + i : i \in InsertedItems(c)}
  <2>1. c \in BulkAnswersCall
    BY <1>3, CallShape DEF SaveAnswers, Serving
  <2>2. /\ answers' = [a \in DOMAIN answers \cup new |-> UpsertedAnswer(c, a)]
        /\ serial' = [serial EXCEPT !.answer = serial.answer + n]
        /\ Close(s)
        /\ UNCHANGED <<exams, questions, participants, aplicadores>>
    BY <1>3 DEF SaveAnswers
  <2>3. n \in Nat /\ serial.answer \in Nat /\ DOMAIN c.items = 1..n
    BY <2>1, TablesOKFacts DEF BulkAnswersCall
  <2>4. new \subseteq 1..(serial.answer + n)
    BY <2>3 DEF InsertedItems
  <2>5. DOMAIN answers \subseteq 1..(serial.answer + n)
    BY <2>3 DEF TablesOK, IsTable
  <2>6. IsTable(answers', Answer, serial.answer + n)
    <3>1. \A a \in DOMAIN answers \cup new : UpsertedAnswer(c, a) \in Answer
      BY <2>1, UpsertedAnswerType
    <3> HIDE DEF c, n, new
    <3> QED
      BY <2>2, <2>4, <2>5, <3>1 DEF IsTable
  <2>7. /\ serial' \in [Tables -> Nat]
        /\ serial'.answer = serial.answer + n
        /\ serial'.exam = serial.exam
        /\ serial'.question = serial.question
        /\ serial'.participant = serial.participant
        /\ serial'.aplicador = serial.aplicador
    <3>1. serial \in [Tables -> Nat] /\ serial.answer + n \in Nat
      BY <2>3 DEF TablesOK
    <3> HIDE DEF n
    <3> QED
      BY <2>2, <3>1 DEF Tables
  <2>8. calls' \in [Slots -> Call]
    BY <2>2, CloseStep
  <2> HIDE DEF n
  <2> QED
    BY <2>2, <2>6, <2>7, <2>8 DEF TablesOK, examsVars
<1>4. ASSUME NEW s \in Slots, AnswersRefused(s)
      PROVE  TypeOK'
  BY <1>4, CloseStep DEF AnswersRefused, tables, examsVars, TablesOK
<1>5. ASSUME NEW a \in DOMAIN answers, NEW alternativa \in EditInputs,
             UpdateAnswer(a, alternativa)
      PROVE  TypeOK'
  <2>1. [answers[a] EXCEPT !.alternativa = alternativa] \in Answer
    BY AnswersAssumption, TablesOKFacts DEF Answer
  <2>2. IsTable(answers', Answer, serial.answer)
    BY <1>5, <2>1, UpdatedTable, TablesOKFacts DEF UpdateAnswer, TablesOK
  <2> QED
    BY <1>5, <2>2 DEF UpdateAnswer, TablesOK, examsVars
<1> QED
  BY <1>1, <1>2, <1>3, <1>4, <1>5 DEF AnswersNext, AnswersStep

LEMMA AplicadoresTypes ==
  ASSUME TypeOK, AplicadoresNext, UNCHANGED examsVars
  PROVE  TypeOK'
<1> USE DEF TypeOK
<1>1. ASSUME NEW e \in DOMAIN exams, CreateAplicador(e)
      PROVE  TypeOK'
  <2> DEFINE row == [provaId |-> e, status |-> "PENDENTE"]
  <2>1. <<row>> \in Seq(Aplicador) /\ Len(<<row>>) = 1
    BY TablesOKFacts DEF Aplicador, AplicadorStatus
  <2>2. /\ aplicadores' = WithRows(aplicadores, serial.aplicador, <<row>>)
        /\ serial' = [serial EXCEPT !.aplicador = serial.aplicador + 1]
        /\ UNCHANGED <<exams, questions, participants, answers, calls>>
    BY <1>1 DEF CreateAplicador
  <2>3. serial.aplicador \in Nat
    BY TablesOKFacts
  <2>4. IsTable(aplicadores', Aplicador, serial.aplicador + 1)
    <3> HIDE DEF row
    <3>1. IsTable(aplicadores', Aplicador, serial.aplicador + Len(<<row>>))
      BY <2>1, <2>2, <2>3, InsertedTable DEF TablesOK
    <3> QED
      BY <2>1, <3>1
  <2>5. /\ serial' \in [Tables -> Nat]
        /\ serial'.aplicador = serial.aplicador + 1
        /\ serial'.exam = serial.exam
        /\ serial'.question = serial.question
        /\ serial'.participant = serial.participant
        /\ serial'.answer = serial.answer
    <3>1. serial \in [Tables -> Nat] /\ serial.aplicador + 1 \in Nat
      BY <2>3 DEF TablesOK
    <3> QED
      BY <2>2, <3>1 DEF Tables
  <2> QED
    BY <2>2, <2>4, <2>5 DEF TablesOK, examsVars
<1>2. ASSUME NEW a \in DOMAIN aplicadores, NEW status \in AplicadorInputs,
             UpdateAplicadorStatus(a, status)
      PROVE  TypeOK'
  <2>1. [aplicadores[a] EXCEPT !.status = status] \in Aplicador
    BY AplicadoresAssumption, TablesOKFacts DEF Aplicador
  <2>2. IsTable(aplicadores', Aplicador, serial.aplicador)
    BY <1>2, <2>1, UpdatedTable, TablesOKFacts
       DEF UpdateAplicadorStatus, TablesOK
  <2> QED
    BY <1>2, <2>2 DEF UpdateAplicadorStatus, TablesOK, examsVars
<1>3. ASSUME NEW a \in DOMAIN aplicadores, RemoveAplicador(a)
      PROVE  TypeOK'
  <2>1. IsTable(aplicadores', Aplicador, serial.aplicador)
    BY <1>3, RemovedRows, TablesOKFacts DEF RemoveAplicador, TablesOK
  <2>2. IsTable(participants', Participant, serial.participant)
    BY <1>3, ClearedParticipants, TablesOKFacts DEF RemoveAplicador, TablesOK
  <2> QED
    BY <1>3, <2>1, <2>2 DEF RemoveAplicador, TablesOK, examsVars
<1> QED
  BY <1>1, <1>2, <1>3 DEF AplicadoresNext

-----------------------------------------------------------------------------
LEMMA InitTypes == Init => TypeOK
<1> SUFFICES ASSUME Init PROVE TypeOK
  OBVIOUS
<1>1. serial = [t \in Tables |-> 0]
  BY DEF Init, InitTables
<1>2. TablesOK
  <2>1. DOMAIN Empty = {}
    BY DEF Empty
  <2>2. ASSUME NEW rows
        PROVE  IsTable(Empty, rows, 0)
    BY <2>1 DEF IsTable, Empty
  <2>3. /\ serial.exam = 0 /\ serial.question = 0 /\ serial.participant = 0
        /\ serial.aplicador = 0 /\ serial.answer = 0
    BY <1>1 DEF Tables
  <2>4. /\ exams = Empty /\ questions = Empty /\ participants = Empty
        /\ aplicadores = Empty /\ answers = Empty
    BY DEF Init, InitTables
  <2> HIDE DEF Empty
  <2> QED
    BY <1>1, <2>2, <2>3, <2>4 DEF TablesOK
<1>3. calls \in [Slots -> Call]
  <2>1. Idle \in Call
    BY DEF Call
  <2> QED
    BY <2>1 DEF Init
<1> QED
  BY <1>2, <1>3 DEF Init, InitExams, TypeOK

LEMMA NextTypes == TypeOK /\ [Next]_vars => TypeOK'
<1> SUFFICES ASSUME TypeOK, [Next]_vars PROVE TypeOK'
  OBVIOUS
<1>1. CASE ExamsNext
  BY <1>1, ExamsTypes
<1>2. CASE QuestionsNext /\ UNCHANGED examsVars
  BY <1>2, QuestionsTypes
<1>3. CASE ParticipantsNext /\ UNCHANGED examsVars
  BY <1>3, ParticipantsTypes
<1>4. CASE AnswersNext /\ UNCHANGED examsVars
  BY <1>4, AnswersTypes
<1>5. CASE AplicadoresNext /\ UNCHANGED examsVars
  BY <1>5, AplicadoresTypes
<1>6. ASSUME NEW s \in Slots, Crash(s), UNCHANGED examsVars
      PROVE  TypeOK'
  BY <1>6, CloseStep DEF Crash, tables, examsVars, TypeOK, TablesOK
<1>7. CASE UNCHANGED vars
  BY <1>7 DEF vars, tables, examsVars, TypeOK, TablesOK
<1> QED
  BY <1>1, <1>2, <1>3, <1>4, <1>5, <1>6, <1>7 DEF Next

\* Every row of every table and every call in flight keeps the shape its code
\* gives it, for any number of slots and any inputs.
THEOREM TypeCorrect == Spec => []TypeOK
  BY InitTypes, NextTypes, PTL DEF Spec

-----------------------------------------------------------------------------
(***************************************************************************)
(* The safety theorems.  The inductive invariant is                        *)
(*     TypeOK, NoOrphans, CallsOwnRows, AnswersSameExam and                *)
(*     CompletedHasClosingDay;                                             *)
(* AnswersSameExam alone is not inductive, for it says nothing of what a   *)
(* bulk of answers checked before it waited.                               *)
(*                                                                         *)
(* That is CallsOwnRows: the id of a live row keeps its exam, and an id    *)
(* that was given once is never given again; so what a call found in its   *)
(* exam before an await is still of that exam, or gone, when it writes.    *)
(***************************************************************************)

-----------------------------------------------------------------------------
(* The exam of a row, and what a call in flight knows of it.               *)

\* Rows that are there after a step and whose ids are not new were there
\* before it, in the same exam.
SameExamRows(t, last) ==
  \A i \in DOMAIN t' : i \in 1..last => /\ i \in DOMAIN t
                                        /\ t'[i].examId = t[i].examId

IdsKeepExam ==
  /\ serial.participant <= serial'.participant
  /\ serial.question <= serial'.question
  /\ SameExamRows(participants, serial.participant)
  /\ SameExamRows(questions, serial.question)

LEMMA Typing ==
  ASSUME TypeOK
  PROVE  /\ serial \in [Tables -> Nat]
         /\ serial.exam \in Nat /\ serial.question \in Nat
         /\ serial.participant \in Nat /\ serial.answer \in Nat
         /\ IsTable(exams, Exam, serial.exam)
         /\ IsTable(questions, Question, serial.question)
         /\ IsTable(participants, Participant, serial.participant)
         /\ IsTable(answers, Answer, serial.answer)
         /\ calls \in [Slots -> Call]
  BY TablesOKFacts DEF TypeOK, TablesOK

LEMMA InsertKeepsExam ==
  ASSUME NEW t, NEW R, NEW n \in Nat, NEW rows \in Seq(R), IsTable(t, R, n)
  PROVE  \A i \in DOMAIN WithRows(t, n, rows) :
           i \in 1..n => i \in DOMAIN t /\ WithRows(t, n, rows)[i] = t[i]
  BY DEF IsTable, WithRows

LEMMA UnchangedKeepsExam ==
  ASSUME TypeOK, UNCHANGED <<participants, questions, serial>>
  PROVE  IdsKeepExam
  BY Typing DEF IdsKeepExam, SameExamRows

LEMMA DeleteKeepsExam ==
  ASSUME TypeOK, NEW e, DeleteExam(e)
  PROVE  IdsKeepExam
<1>1. SameExamRows(questions, serial.question)
  BY DEF DeleteExam, SameExamRows, Without, Restrict
<1>2. SameExamRows(participants, serial.participant)
  <2> DEFINE left == Without(participants, ParticipantsOf(e))
  <2>1. /\ IsTable(left, Participant, serial.participant)
        /\ DOMAIN left = DOMAIN participants \ ParticipantsOf(e)
        /\ \A p \in DOMAIN left : left[p] = participants[p]
    <3>1. IsTable(participants, Participant, serial.participant)
      BY Typing
    <3>2. IsTable(left, Participant, serial.participant)
      BY <3>1, Typing, RemovedRows
    <3> QED
      BY <3>2 DEF Without, Restrict
  <2>2. participants' = AplicadorCleared(left, AplicadoresOf(e))
    BY DEF DeleteExam
  <2> HIDE DEF left
  <2> QED
    BY <2>1, <2>2, ClearedParticipants, Typing DEF SameExamRows
<1> QED
  BY <1>1, <1>2, Typing DEF DeleteExam, IdsKeepExam

LEMMA ExamsKeepExam ==
  ASSUME TypeOK, ExamsNext
  PROVE  IdsKeepExam
<1>1. ASSUME NEW dto \in ExamInputs, CreateExam(dto)
      PROVE  IdsKeepExam
  <2> DEFINE e == serial.exam + 1
             rows == [n \in 1..dto.qtdQuestoes |->
                        [examId |-> e, numero |-> n, peso |-> 1,
                         correctAnswer |-> ""]]
  <2>1. dto.qtdQuestoes \in Nat /\ serial.question \in Nat
    BY ExamsAssumption, TablesOKFacts DEF TypeOK, Ids
  <2>2. rows \in Seq(Range(rows))
    <3>1. rows \in [1..dto.qtdQuestoes -> Range(rows)]
      BY DEF Range
    <3> HIDE DEF rows
    <3> QED
      BY <2>1, <3>1, FunctionIsSeq
  <2>3. questions' = WithRows(questions, serial.question, rows)
    BY <1>1 DEF CreateExam
  <2>4. IsTable(questions, Range(rows) \cup Question, serial.question)
    BY DEF TypeOK, TablesOK, IsTable
  <2>5. rows \in Seq(Range(rows) \cup Question)
    <3> HIDE DEF rows
    <3> QED
      BY <2>2
  <2>6. SameExamRows(questions, serial.question)
    <3> HIDE DEF rows
    <3> QED
      BY <2>1, <2>3, <2>4, <2>5, InsertKeepsExam DEF SameExamRows
  <2>7. SameExamRows(participants, serial.participant)
    BY <1>1 DEF CreateExam, SameExamRows
  <2>8. serial' = [serial EXCEPT !.exam = e,
                     !.question = serial.question + dto.qtdQuestoes]
    BY <1>1 DEF CreateExam
  <2>9. /\ serial'.question = serial.question + dto.qtdQuestoes
        /\ serial'.participant = serial.participant
    <3>1. serial \in [Tables -> Nat]
      BY DEF TypeOK, TablesOK
    <3> QED
      BY <2>8, <3>1 DEF Tables
  <2> QED
    BY <2>1, <2>6, <2>7, <2>9, TablesOKFacts DEF IdsKeepExam, TypeOK
<1>2. ASSUME NEW e \in DOMAIN exams, RemoveExam(e)
      PROVE  IdsKeepExam
  BY <1>2, DeleteKeepsExam DEF RemoveExam
<1>3. ASSUME NEW e \in DOMAIN exams, NEW nota \in NotaInputs, UpdateExam(e, nota)
      PROVE  IdsKeepExam
  BY <1>3, UnchangedKeepsExam DEF UpdateExam
<1>4. ASSUME NEW s \in Slots, NEW e \in DOMAIN exams, NEW to \in StatusInputs,
             ReadStatus(s, e, to)
      PROVE  IdsKeepExam
  BY <1>4, UnchangedKeepsExam DEF ReadStatus, tables
<1>5. ASSUME NEW s \in Slots, ExamsStep(s)
      PROVE  IdsKeepExam
  BY <1>5, UnchangedKeepsExam
     DEF ExamsStep, WriteStatus, ExportRanking, SendMail, ExamGone, tables
<1>6. CASE Tick
  BY <1>6, UnchangedKeepsExam DEF Tick, tables
<1> QED
  BY <1>1, <1>2, <1>3, <1>4, <1>5, <1>6 DEF ExamsNext

LEMMA QuestionsKeepExam ==
  ASSUME TypeOK, QuestionsNext
  PROVE  IdsKeepExam
<1>1. ASSUME NEW s \in Slots, SaveQuestions(s)
      PROVE  IdsKeepExam
  <2> DEFINE c == calls[s]
             n == Cardinality(CreatedItems(c))
             new == {newQuestionId(c, i) : i \in CreatedItems(c)}
  <2>1. c \in BulkQuestionsCall
    BY <1>1, CallShape DEF SaveQuestions, Serving, TypeOK
  <2>2. n \in Nat /\ serial.question \in Nat /\ serial.participant \in Nat
    BY <2>1, RankBounds, TablesOKFacts DEF TypeOK
  <2>3. \A q \in new : q > serial.question
    BY <2>1, <2>2, RankBounds DEF newQuestionId
  <2>4. \A q \in DOMAIN questions : SavedQuestion(c, q).examId = questions[q].examId
    BY DEF SavedQuestion, QuestionRow
  <2>5. /\ questions' = [q \in DOMAIN questions \cup new |-> SavedQuestion(c, q)]
        /\ serial' = [serial EXCEPT !.question = serial.question + n]
        /\ UNCHANGED participants
    BY <1>1 DEF SaveQuestions
  <2>6. /\ serial'.question = serial.question + n
        /\ serial'.participant = serial.participant
    <3>1. serial \in [Tables -> Nat]
      BY DEF TypeOK, TablesOK
    <3> HIDE DEF n
    <3> QED
      BY <2>5, <3>1 DEF Tables
  <2>7. SameExamRows(questions, serial.question)
    <3> HIDE DEF new, c
    <3> QED
      BY <2>2, <2>3, <2>4, <2>5 DEF SameExamRows
  <2>8. SameExamRows(participants, serial.participant)
    BY <2>5 DEF SameExamRows
  <2> HIDE DEF n
  <2> QED
    BY <2>2, <2>6, <2>7, <2>8 DEF IdsKeepExam
<1>2. ASSUME NEW s \in Slots, RemoveQuestion(s)
      PROVE  IdsKeepExam
  <2>1. SameExamRows(questions, serial.question)
    BY <1>2 DEF RemoveQuestion, SameExamRows, Without, Restrict
  <2>2. SameExamRows(participants, serial.participant)
    BY <1>2 DEF RemoveQuestion, SameExamRows
  <2> QED
    BY <1>2, <2>1, <2>2, Typing DEF RemoveQuestion, IdsKeepExam
<1>3. ASSUME NEW s \in Slots, QuestionsRefused(s)
      PROVE  IdsKeepExam
  BY <1>3, UnchangedKeepsExam DEF QuestionsRefused, tables
<1>4. ASSUME NEW s \in Slots, NEW e \in DOMAIN exams, NEW items \in QuestionInputs,
             SnapshotQuestions(s, e, items)
      PROVE  IdsKeepExam
  BY <1>4, UnchangedKeepsExam DEF SnapshotQuestions, tables
<1>5. ASSUME NEW s \in Slots, NEW e \in DOMAIN exams, NEW q \in QuestionsOf(e),
             FindQuestion(s, e, q)
      PROVE  IdsKeepExam
  BY <1>5, UnchangedKeepsExam DEF FindQuestion, tables
<1> QED
  BY <1>1, <1>2, <1>3, <1>4, <1>5 DEF QuestionsNext, QuestionsStep

LEMMA ParticipantsKeepExam ==
  ASSUME TypeOK, ParticipantsNext
  PROVE  IdsKeepExam
<1>1. ASSUME NEW s \in Slots, InsertParticipants(s)
      PROVE  IdsKeepExam
  <2> DEFINE c == calls[s]
             n == Len(c.dtos)
             rows == [i \in 1..n |-> EnrolledRow(c, i)]
  <2>1. n \in Nat /\ serial.participant \in Nat /\ serial.question \in Nat
    BY <1>1, CallShape, TablesOKFacts
       DEF InsertParticipants, Serving, EnrolCall, TypeOK
  <2>2. /\ participants' = WithRows(participants, serial.participant, rows)
        /\ serial' = [serial EXCEPT !.participant = serial.participant + n]
        /\ UNCHANGED questions
    BY <1>1 DEF InsertParticipants
  <2>3. rows \in Seq(Range(rows) \cup Participant)
    <3>1. rows \in [1..n -> Range(rows) \cup Participant]
      BY DEF Range
    <3> HIDE DEF rows, n
    <3> QED
      BY <2>1, <3>1, FunctionIsSeq
  <2>4. IsTable(participants, Range(rows) \cup Participant, serial.participant)
    BY DEF TypeOK, TablesOK, IsTable
  <2>5. SameExamRows(participants, serial.participant)
    <3> HIDE DEF rows
    <3> QED
      BY <2>1, <2>2, <2>3, <2>4, InsertKeepsExam DEF SameExamRows
  <2>6. /\ serial'.participant = serial.participant + n
        /\ serial'.question = serial.question
    <3>1. serial \in [Tables -> Nat]
      BY DEF TypeOK, TablesOK
    <3> HIDE DEF n
    <3> QED
      BY <2>2, <3>1 DEF Tables
  <2> HIDE DEF n
  <2> QED
    BY <2>1, <2>2, <2>5, <2>6 DEF IdsKeepExam, SameExamRows
<1>2. ASSUME NEW s \in Slots, UpdatePresenca(s) \/ UpdateRedacao(s)
      PROVE  IdsKeepExam
  <2>1. \A p \in DOMAIN participants' :
          p \in DOMAIN participants /\ participants'[p].examId = participants[p].examId
    BY <1>2, Typing DEF UpdatePresenca, UpdateRedacao, Participant, IsTable
  <2> QED
    BY <1>2, <2>1, Typing
       DEF UpdatePresenca, UpdateRedacao, IdsKeepExam, SameExamRows
<1>3. ASSUME NEW s \in Slots, RemoveParticipant(s)
      PROVE  IdsKeepExam
  <2>1. SameExamRows(participants, serial.participant)
    BY <1>3 DEF RemoveParticipant, SameExamRows, Without, Restrict
  <2>2. SameExamRows(questions, serial.question)
    BY <1>3 DEF RemoveParticipant, SameExamRows
  <2> QED
    BY <1>3, <2>1, <2>2, Typing DEF RemoveParticipant, IdsKeepExam
<1>4. ASSUME NEW s \in Slots, EnrolRefused(s) \/ ParticipantGone(s)
      PROVE  IdsKeepExam
  BY <1>4, UnchangedKeepsExam DEF EnrolRefused, ParticipantGone, tables
<1>5. ASSUME NEW s \in Slots, NEW e \in DOMAIN exams, NEW dtos \in ParticipantInputs,
             AllocateCodes(s, e, dtos)
      PROVE  IdsKeepExam
  BY <1>5, UnchangedKeepsExam DEF AllocateCodes, tables
<1>6. ASSUME NEW s \in Slots, NEW e \in DOMAIN exams, NEW call \in EditInputsOf(e),
             AssertOwned(s, call)
      PROVE  IdsKeepExam
  BY <1>6, UnchangedKeepsExam DEF AssertOwned, tables
<1> QED
  BY <1>1, <1>2, <1>3, <1>4, <1>5, <1>6 DEF ParticipantsNext, ParticipantsStep

LEMMA AnswersKeepExam ==
  ASSUME TypeOK, AnswersNext
  PROVE  IdsKeepExam
<1>1. ASSUME NEW s \in Slots, SaveAnswers(s)
      PROVE  IdsKeepExam
  <2>1. serial \in [Tables -> Nat]
    BY DEF TypeOK, TablesOK
  <2>2. serial'.participant = serial.participant /\ serial'.question = serial.question
    BY <1>1, <2>1 DEF SaveAnswers, Tables
  <2> QED
    BY <1>1, <2>2, Typing DEF SaveAnswers, IdsKeepExam, SameExamRows
<1>2. ASSUME NEW s \in Slots, NEW table \in Reads, ReadOwners(s, table)
      PROVE  IdsKeepExam
  BY <1>2, UnchangedKeepsExam DEF ReadOwners, tables
<1>3. ASSUME NEW s \in Slots, AnswersRefused(s)
      PROVE  IdsKeepExam
  BY <1>3, UnchangedKeepsExam DEF AnswersRefused, tables
<1>4. ASSUME NEW s \in Slots, NEW e \in DOMAIN exams, NEW items \in AnswerInputs,
             OpenBulkAnswers(s, e, items)
      PROVE  IdsKeepExam
  BY <1>4, UnchangedKeepsExam DEF OpenBulkAnswers, tables
<1>5. ASSUME NEW a \in DOMAIN answers, NEW alternativa \in EditInputs,
             UpdateAnswer(a, alternativa)
      PROVE  IdsKeepExam
  BY <1>5, UnchangedKeepsExam DEF UpdateAnswer
<1> QED
  BY <1>1, <1>2, <1>3, <1>4, <1>5 DEF AnswersNext, AnswersStep

LEMMA AplicadoresKeepExam ==
  ASSUME TypeOK, AplicadoresNext
  PROVE  IdsKeepExam
<1>1. ASSUME NEW e \in DOMAIN exams, CreateAplicador(e)
      PROVE  IdsKeepExam
  <2>1. serial \in [Tables -> Nat]
    BY DEF TypeOK, TablesOK
  <2>2. serial'.participant = serial.participant /\ serial'.question = serial.question
    BY <1>1, <2>1 DEF CreateAplicador, Tables
  <2> QED
    BY <1>1, <2>2, Typing DEF CreateAplicador, IdsKeepExam, SameExamRows
<1>2. ASSUME NEW a \in DOMAIN aplicadores, NEW status \in AplicadorInputs,
             UpdateAplicadorStatus(a, status)
      PROVE  IdsKeepExam
  BY <1>2, UnchangedKeepsExam DEF UpdateAplicadorStatus
<1>3. ASSUME NEW a \in DOMAIN aplicadores, RemoveAplicador(a)
      PROVE  IdsKeepExam
  <2>1. SameExamRows(participants, serial.participant)
    BY <1>3, ClearedParticipants, Typing DEF RemoveAplicador, SameExamRows
  <2>2. SameExamRows(questions, serial.question)
    BY <1>3 DEF RemoveAplicador, SameExamRows
  <2> QED
    BY <1>3, <2>1, <2>2, Typing DEF RemoveAplicador, IdsKeepExam
<1> QED
  BY <1>1, <1>2, <1>3 DEF AplicadoresNext

\* A step changes the exam of no row and gives no id again.
LEMMA NextKeepsExam ==
  ASSUME TypeOK, [Next]_vars
  PROVE  IdsKeepExam
<1>1. ASSUME NEW s \in Slots, Crash(s)
      PROVE  IdsKeepExam
  BY <1>1, UnchangedKeepsExam DEF Crash, tables
<1>2. CASE UNCHANGED vars
  BY <1>2, UnchangedKeepsExam DEF vars, tables
<1> QED
  BY <1>1, <1>2, ExamsKeepExam, QuestionsKeepExam, ParticipantsKeepExam,
     AnswersKeepExam, AplicadoresKeepExam DEF Next

-----------------------------------------------------------------------------
(* What a call found in its exam stays of that exam.                       *)

Owns(c) == EditsOwn(c) /\ BulkQuestionsOwn(c) /\ BulkAnswersOwn(c)

\* The calls that hold no id of a row they have looked up.
Quiet(c) == c.op \in {"idle", "status", "export", "mail", "enrol"}

LEMMA QuietOwns ==
  ASSUME NEW c, Quiet(c)
  PROVE  Owns(c)
  BY DEF Quiet, Owns, EditsOwn, BulkQuestionsOwn, BulkAnswersOwn

LEMMA LiveStays ==
  ASSUME TypeOK, NEW e
  PROVE  /\ \A p \in ParticipantsOf(e) : ParticipantStays(p, e)
         /\ \A q \in QuestionsOf(e) : QuestionStays(q, e)
  BY Typing DEF ParticipantsOf, QuestionsOf, ParticipantStays, QuestionStays, IsTable

LEMMA OwnsStays ==
  ASSUME TypeOK, IdsKeepExam, TypeOK', NEW c, Owns(c)
  PROVE  Owns(c)'
<1>1. ASSUME NEW p, NEW e, ParticipantStays(p, e)
      PROVE  ParticipantStays(p, e)'
  <2>1. serial.participant \in Nat /\ serial'.participant \in Nat
    BY Typing, TablesOKFacts DEF TypeOK, TablesOK, Tables
  <2>2. p \in 1..serial'.participant
    BY <1>1, <2>1 DEF IdsKeepExam, ParticipantStays
  <2> QED
    BY <1>1, <2>2 DEF IdsKeepExam, ParticipantStays, SameExamRows
<1>2. ASSUME NEW q, NEW e, QuestionStays(q, e)
      PROVE  QuestionStays(q, e)'
  <2>1. serial.question \in Nat /\ serial'.question \in Nat
    BY Typing, TablesOKFacts DEF TypeOK, TablesOK, Tables
  <2>2. q \in 1..serial'.question
    BY <1>2, <2>1 DEF IdsKeepExam, QuestionStays
  <2> QED
    BY <1>2, <2>2 DEF IdsKeepExam, QuestionStays, SameExamRows
<1>3. EditsOwn(c)'
  BY <1>1, <1>2 DEF Owns, EditsOwn
<1>4. BulkQuestionsOwn(c)'
  BY <1>2 DEF Owns, BulkQuestionsOwn
<1>5. BulkAnswersOwn(c)'
  BY <1>1, <1>2 DEF Owns, BulkAnswersOwn
<1> QED
  BY <1>3, <1>4, <1>5 DEF Owns

\* The calls of the next state own their rows in this one already.
OwnedCalls == \A s \in Slots : Owns(calls'[s])

LEMMA OneCallChanges ==
  ASSUME TypeOK, CallsOwnRows, NEW s \in Slots, NEW c, Owns(c),
         calls' = [calls EXCEPT ![s] = c]
  PROVE  OwnedCalls
<1>1. ASSUME NEW z \in Slots
      PROVE  calls'[z] = c \/ calls'[z] = calls[z]
  BY Typing
<1>2. \A z \in Slots : Owns(calls[z])
  BY DEF CallsOwnRows, Owns
<1> QED
  BY <1>1, <1>2 DEF OwnedCalls

LEMMA QuietCall ==
  ASSUME TypeOK, CallsOwnRows, NEW s \in Slots, NEW c,
         Quiet(c), calls' = [calls EXCEPT ![s] = c]
  PROVE  OwnedCalls
<1>1. Owns(c)
  BY QuietOwns
<1> QED
  BY <1>1, OneCallChanges

LEMMA NoCallChanges ==
  ASSUME CallsOwnRows, UNCHANGED calls
  PROVE  OwnedCalls
  BY DEF CallsOwnRows, Owns, OwnedCalls

LEMMA ClosedCall ==
  ASSUME TypeOK, CallsOwnRows, NEW s \in Slots, Close(s)
  PROVE  OwnedCalls
<1>1. Idle.op = "idle"
  BY DEF Idle
<1>2. Owns(Idle)
  BY <1>1, QuietOwns DEF Quiet
<1> QED
  BY <1>2, OneCallChanges DEF Close

LEMMA ExamsOwned ==
  ASSUME TypeOK, CallsOwnRows, ExamsNext
  PROVE  OwnedCalls
<1>2. ASSUME NEW s \in Slots, NEW e \in DOMAIN exams, NEW to \in StatusInputs,
             ReadStatus(s, e, to)
      PROVE  OwnedCalls
  <2> DEFINE c == [op |-> "status", examId |-> e, to |-> to]
  <2>1. Quiet(c)
    BY DEF Quiet
  <2>2. calls' = [calls EXCEPT ![s] = c]
    BY <1>2 DEF ReadStatus, Start
  <2> HIDE DEF c
  <2> QED
    BY <2>1, <2>2, QuietCall
<1>3. ASSUME NEW s \in Slots, WriteStatus(s)
      PROVE  OwnedCalls
  <2> DEFINE c == IF calls[s].to = "completed"
                    THEN [op |-> "export", examId |-> calls[s].examId] ELSE Idle
  <2>1. Quiet(c)
    BY DEF Quiet, Idle
  <2>2. calls' = [calls EXCEPT ![s] = c]
    BY <1>3 DEF WriteStatus
  <2> HIDE DEF c
  <2> QED
    BY <2>1, <2>2, QuietCall
<1>4. ASSUME NEW s \in Slots, ExportRanking(s)
      PROVE  OwnedCalls
  <2> DEFINE c == [op |-> "mail", examId |-> calls[s].examId, pending |-> Adms]
  <2>1. Quiet(c)
    BY DEF Quiet
  <2>2. calls' = [calls EXCEPT ![s] = c]
    BY <1>4 DEF ExportRanking
  <2> HIDE DEF c
  <2> QED
    BY <2>1, <2>2, QuietCall
<1>5. ASSUME NEW s \in Slots, NEW adm \in Adms, NEW sent \in MailOutcomes,
             SendMail(s, adm, sent)
      PROVE  OwnedCalls
  <2> DEFINE left == IF sent THEN calls[s].pending \ {adm} ELSE {}
             c == IF left = {} THEN Idle ELSE [calls[s] EXCEPT !.pending = left]
  <2>1. calls[s] \in MailCall
    BY <1>5, CallShape, Typing DEF SendMail, Serving
  <2>2. Quiet(c)
    <3> HIDE DEF left
    <3> QED
      BY <2>1 DEF MailCall, Idle, Quiet
  <2>3. calls' = [calls EXCEPT ![s] = c]
    BY <1>5 DEF SendMail
  <2> HIDE DEF c
  <2> QED
    BY <2>2, <2>3, QuietCall
<1>6. ASSUME NEW s \in Slots, ExamGone(s)
      PROVE  OwnedCalls
  BY <1>6, ClosedCall DEF ExamGone
<1>7. ASSUME UNCHANGED calls
      PROVE  OwnedCalls
  BY <1>7, NoCallChanges
<1> QED
  BY <1>2, <1>3, <1>4, <1>5, <1>6, <1>7
     DEF ExamsNext, ExamsStep, CreateExam, UpdateExam, RemoveExam, Tick

LEMMA QuestionsOwned ==
  ASSUME TypeOK, CallsOwnRows, QuestionsNext
  PROVE  OwnedCalls
<1>1. ASSUME NEW s \in Slots, NEW e \in DOMAIN exams, NEW items \in QuestionInputs,
             SnapshotQuestions(s, e, items)
      PROVE  OwnedCalls
  <2> DEFINE target == [i \in DOMAIN items |-> targetId(e, items[i])]
             c == [op |-> "bulkQuestions", examId |-> e, items |-> items,
                   target |-> target]
  <2>1. ASSUME NEW i \in DOMAIN items, targetId(e, items[i]) # NoId
        PROVE  targetId(e, items[i]) \in QuestionsOf(e)
    <3> DEFINE same == {q \in QuestionsOf(e) : questions[q].numero = items[i].numero}
    <3>1. CASE items[i].id # NoId
      BY <1>1, <3>1 DEF targetId, SnapshotQuestions
    <3>2. CASE items[i].id = NoId
      <4>1. targetId(e, items[i]) = CHOOSE q \in same : TRUE /\ same # {}
        BY <2>1, <3>2 DEF targetId
      <4>2. same # {}
        BY <2>1, <3>2 DEF targetId
      <4>3. targetId(e, items[i]) = CHOOSE q \in same : TRUE
        BY <3>2, <4>2 DEF targetId
      <4> HIDE DEF same
      <4>4. targetId(e, items[i]) \in same
        BY <4>2, <4>3
      <4> QED
        BY <4>4 DEF same
    <3> QED
      BY <3>1, <3>2
  <2>2. \A i \in DOMAIN c.target : c.target[i] # NoId => QuestionStays(c.target[i], e)
    BY <2>1, LiveStays
  <2>3. c.op = "bulkQuestions" /\ c.examId = e
    OBVIOUS
  <2>4. Owns(c)
    <3> HIDE DEF c
    <3> QED
      BY <2>2, <2>3 DEF Owns, EditsOwn, BulkQuestionsOwn, BulkAnswersOwn
  <2>5. calls' = [calls EXCEPT ![s] = c]
    BY <1>1 DEF SnapshotQuestions, Start
  <2> HIDE DEF c
  <2> QED
    BY <2>4, <2>5, OneCallChanges
<1>2. ASSUME NEW s \in Slots, NEW e \in DOMAIN exams, NEW q \in QuestionsOf(e),
             FindQuestion(s, e, q)
      PROVE  OwnedCalls
  <2> DEFINE c == [op |-> "removeQuestion", examId |-> e, id |-> q]
  <2>1. c.op = "removeQuestion" /\ c.examId = e /\ c.id = q
    OBVIOUS
  <2>2. QuestionStays(q, e)
    BY LiveStays
  <2>3. calls' = [calls EXCEPT ![s] = c]
    BY <1>2 DEF FindQuestion, Start
  <2> HIDE DEF c
  <2>4. Owns(c)
    BY <2>1, <2>2 DEF Owns, EditsOwn, BulkQuestionsOwn, BulkAnswersOwn
  <2> QED
    BY <2>3, <2>4, OneCallChanges
<1>3. ASSUME NEW s \in Slots, QuestionsStep(s)
      PROVE  OwnedCalls
  BY <1>3, ClosedCall
     DEF QuestionsStep, SaveQuestions, QuestionsRefused, RemoveQuestion
<1> QED
  BY <1>1, <1>2, <1>3 DEF QuestionsNext

LEMMA ParticipantsOwned ==
  ASSUME TypeOK, CallsOwnRows, ParticipantsNext
  PROVE  OwnedCalls
<1>1. ASSUME NEW s \in Slots, NEW e \in DOMAIN exams, NEW dtos \in ParticipantInputs,
             AllocateCodes(s, e, dtos)
      PROVE  OwnedCalls
  <2>1. PICK codes \in [DOMAIN dtos -> Codes \ CodesOf(e)] :
          Start(s, [op |-> "enrol", examId |-> e, dtos |-> dtos, codes |-> codes])
    BY <1>1 DEF AllocateCodes
  <2> DEFINE c == [op |-> "enrol", examId |-> e, dtos |-> dtos, codes |-> codes]
  <2>2. Quiet(c)
    BY DEF Quiet
  <2>3. calls' = [calls EXCEPT ![s] = c]
    BY <2>1 DEF Start
  <2> HIDE DEF c
  <2> QED
    BY <2>2, <2>3, QuietCall
<1>2. ASSUME NEW s \in Slots, NEW e \in DOMAIN exams, NEW call \in EditInputsOf(e),
             AssertOwned(s, call)
      PROVE  OwnedCalls
  <2>1. call.op \in {"presenca", "redacao", "removeParticipant"}
    <3>1. \/ call \in [op : {"presenca"}, examId : {e}, id : DOMAIN participants,
                       value : BOOLEAN]
          \/ call \in [op : {"redacao"}, examId : {e}, id : DOMAIN participants,
                       value : RedacaoInputs]
          \/ call \in [op : {"removeParticipant"}, examId : {e},
                       id : DOMAIN participants]
      BY DEF EditInputsOf
    <3> QED
      BY <3>1
  <2>2. ParticipantStays(call.id, call.examId)
    BY <1>2, LiveStays DEF AssertOwned
  <2>3. Owns(call)
    BY <2>1, <2>2 DEF Owns, EditsOwn, BulkQuestionsOwn, BulkAnswersOwn
  <2> QED
    BY <1>2, <2>3, OneCallChanges DEF AssertOwned, Start
<1>3. ASSUME NEW s \in Slots, ParticipantsStep(s)
      PROVE  OwnedCalls
  BY <1>3, ClosedCall
     DEF ParticipantsStep, InsertParticipants, EnrolRefused, UpdatePresenca,
         UpdateRedacao, RemoveParticipant, ParticipantGone
<1> QED
  BY <1>1, <1>2, <1>3 DEF ParticipantsNext

LEMMA AnswersOwned ==
  ASSUME TypeOK, CallsOwnRows, AnswersNext
  PROVE  OwnedCalls
<1>1. ASSUME NEW s \in Slots, NEW e \in DOMAIN exams, NEW items \in AnswerInputs,
             OpenBulkAnswers(s, e, items)
      PROVE  OwnedCalls
  <2> DEFINE c == [op |-> "bulkAnswers", examId |-> e, items |-> items,
                   unread |-> Reads]
  <2>1. c.op = "bulkAnswers" /\ c.unread = {"users", "quests"}
    BY DEF Reads
  <2>2. calls' = [calls EXCEPT ![s] = c]
    BY <1>1 DEF OpenBulkAnswers, Start
  <2> HIDE DEF c
  <2>3. Owns(c)
    BY <2>1 DEF Owns, EditsOwn, BulkQuestionsOwn, BulkAnswersOwn
  <2> QED
    BY <2>2, <2>3, OneCallChanges
<1>2. ASSUME NEW s \in Slots, NEW table \in Reads, ReadOwners(s, table)
      PROVE  OwnedCalls
  <2> DEFINE old == calls[s]
             c == [old EXCEPT !.unread = @ \ {table}]
  <2>1. old \in BulkAnswersCall
    BY <1>2, CallShape, Typing DEF ReadOwners, Serving
  <2>2. /\ c.op = "bulkAnswers" /\ c.examId = old.examId /\ c.items = old.items
        /\ c.unread = old.unread \ {table}
    BY <2>1 DEF BulkAnswersCall
  <2>3. BulkAnswersOwn(old) /\ AllInExam(old, table)
    BY <1>2 DEF CallsOwnRows, ReadOwners
  <2>4. ASSUME NEW i \in DOMAIN old.items, "users" \notin c.unread
        PROVE  ParticipantStays(old.items[i].userId, old.examId)
    <3>1. CASE table = "users"
      BY <2>3, <3>1, LiveStays DEF AllInExam
    <3>2. CASE table # "users"
      BY <2>1, <2>2, <2>3, <2>4, <3>2 DEF BulkAnswersOwn, BulkAnswersCall
    <3> QED
      BY <3>1, <3>2
  <2>5. ASSUME NEW i \in DOMAIN old.items, "quests" \notin c.unread
        PROVE  QuestionStays(old.items[i].questId, old.examId)
    <3>1. CASE table = "quests"
      BY <2>3, <3>1, LiveStays DEF AllInExam
    <3>2. CASE table # "quests"
      BY <2>1, <2>2, <2>3, <2>5, <3>2 DEF BulkAnswersOwn, BulkAnswersCall
    <3> QED
      BY <3>1, <3>2
  <2>6. calls' = [calls EXCEPT ![s] = c]
    BY <1>2 DEF ReadOwners
  <2> HIDE DEF old, c
  <2>7. Owns(c)
    BY <2>2, <2>4, <2>5 DEF Owns, EditsOwn, BulkQuestionsOwn, BulkAnswersOwn
  <2> QED
    BY <2>6, <2>7, OneCallChanges
<1>3. ASSUME NEW s \in Slots, SaveAnswers(s) \/ AnswersRefused(s)
      PROVE  OwnedCalls
  BY <1>3, ClosedCall DEF SaveAnswers, AnswersRefused
<1>4. ASSUME NEW a \in DOMAIN answers, NEW alternativa \in EditInputs,
             UpdateAnswer(a, alternativa)
      PROVE  OwnedCalls
  BY <1>4, NoCallChanges DEF UpdateAnswer
<1> QED
  BY <1>1, <1>2, <1>3, <1>4 DEF AnswersNext, AnswersStep

LEMMA NextOwned ==
  ASSUME TypeOK, CallsOwnRows, [Next]_vars
  PROVE  OwnedCalls
<1>1. ASSUME AplicadoresNext
      PROVE  OwnedCalls
  BY <1>1, NoCallChanges
     DEF AplicadoresNext, CreateAplicador, UpdateAplicadorStatus, RemoveAplicador
<1>2. ASSUME NEW s \in Slots, Crash(s)
      PROVE  OwnedCalls
  BY <1>2, ClosedCall DEF Crash
<1>3. CASE UNCHANGED vars
  BY <1>3, NoCallChanges DEF vars
<1> QED
  BY <1>1, <1>2, <1>3, ExamsOwned, QuestionsOwned, ParticipantsOwned, AnswersOwned
     DEF Next

LEMMA CallsOwnRowsNext ==
  ASSUME TypeOK, TypeOK', CallsOwnRows, [Next]_vars
  PROVE  CallsOwnRows'
<1>1. OwnedCalls /\ IdsKeepExam
  BY NextOwned, NextKeepsExam
<1>2. SUFFICES ASSUME NEW s \in Slots, NEW c, c = calls'[s]
               PROVE  Owns(c)'
  BY DEF CallsOwnRows, Owns
<1>3. Owns(c)
  BY <1>1, <1>2 DEF OwnedCalls
<1> QED
  BY <1>1, <1>3, OwnsStays

-----------------------------------------------------------------------------
(* No row outlives its parents.                                            *)

QuestionsHaveExam == \A q \in DOMAIN questions : questions[q].examId \in DOMAIN exams
AplicadoresHaveExam ==
  \A a \in DOMAIN aplicadores : aplicadores[a].provaId \in DOMAIN exams
ParticipantsHaveParents ==
  \A p \in DOMAIN participants :
    /\ participants[p].examId \in DOMAIN exams
    /\ participants[p].aplicadorId \in DOMAIN aplicadores \cup {NoId}
AnswersHaveParents ==
  \A a \in DOMAIN answers : /\ answers[a].userId \in DOMAIN participants
                            /\ answers[a].questId \in DOMAIN questions

LEMMA NoOrphansParts ==
  NoOrphans <=> /\ QuestionsHaveExam /\ AplicadoresHaveExam
                /\ ParticipantsHaveParents /\ AnswersHaveParents
  BY DEF NoOrphans, QuestionsHaveExam, AplicadoresHaveExam,
         ParticipantsHaveParents, AnswersHaveParents

LEMMA OrphansUnchanged ==
  ASSUME NoOrphans, UNCHANGED <<exams, questions, participants, aplicadores, answers>>
  PROVE  NoOrphans'
  BY DEF NoOrphans

\* More exams, or the same ones.
LEMMA CreateExamOrphans ==
  ASSUME TypeOK, NoOrphans, NEW dto \in ExamInputs, CreateExam(dto)
  PROVE  NoOrphans'
<1> DEFINE e == serial.exam + 1
           row == [status |-> "draft", encerramento |-> NoDate,
                   notaSimbolica |-> dto.notaSimbolica]
           rows == [n \in 1..dto.qtdQuestoes |->
                      [examId |-> e, numero |-> n, peso |-> 1, correctAnswer |-> ""]]
<1>1. dto.qtdQuestoes \in Nat /\ serial.question \in Nat /\ serial.exam \in Nat
  BY ExamsAssumption, Typing DEF Ids
<1>2. /\ exams' = WithRows(exams, serial.exam, <<row>>)
      /\ questions' = WithRows(questions, serial.question, rows)
      /\ UNCHANGED <<participants, aplicadores, answers>>
  BY DEF CreateExam
<1>3. DOMAIN exams' = DOMAIN exams \cup {e}
  <2> HIDE DEF row
  <2>1. (serial.exam + 1)..(serial.exam + Len(<<row>>)) = {e}
    BY <1>1
  <2> QED
    BY <1>2, <2>1 DEF WithRows
<1>4. Len(rows) = dto.qtdQuestoes
  BY <1>1
<1>5. DOMAIN questions' = DOMAIN questions
                            \cup (serial.question + 1)..(serial.question + dto.qtdQuestoes)
  <2> HIDE DEF rows
  <2> QED
    BY <1>2, <1>4 DEF WithRows
<1>6. ASSUME NEW q \in DOMAIN questions'
      PROVE  questions'[q].examId \in DOMAIN exams'
  <2>1. CASE q \in DOMAIN questions
    <3>1. questions'[q] = questions[q]
      <4> HIDE DEF rows
      <4> QED
        BY <1>2, <1>6, <1>5, <2>1 DEF WithRows
    <3> QED
      BY <1>3, <2>1, <3>1 DEF NoOrphans
  <2>2. CASE q \notin DOMAIN questions
    <3>1. q - serial.question \in 1..dto.qtdQuestoes
      BY <1>1, <1>5, <1>6, <2>2
    <3>2. questions'[q] = rows[q - serial.question]
      <4> HIDE DEF rows
      <4> QED
        BY <1>2, <1>4, <1>5, <1>6, <2>2 DEF WithRows
    <3>3. rows[q - serial.question].examId = e
      BY <3>1
    <3> HIDE DEF rows, e
    <3> QED
      BY <1>3, <3>2, <3>3
  <2> QED
    BY <2>1, <2>2
<1>7. DOMAIN questions \subseteq DOMAIN questions'
  BY <1>5
<1> HIDE DEF e
<1> QED
  BY <1>2, <1>3, <1>6, <1>7 DEF NoOrphans

\* The cascades of an exam.
LEMMA DeleteExamOrphans ==
  ASSUME TypeOK, NoOrphans, NEW e, DeleteExam(e)
  PROVE  NoOrphans'
<1> DEFINE left == Without(participants, ParticipantsOf(e))
           gone == AplicadoresOf(e)
<1>1. /\ QuestionsHaveExam /\ AplicadoresHaveExam
      /\ ParticipantsHaveParents /\ AnswersHaveParents
  BY NoOrphansParts
<1>2. DOMAIN exams' = DOMAIN exams \ {e}
  BY DEF DeleteExam, Without, Restrict
<1>3. QuestionsHaveExam'
  BY <1>1, <1>2 DEF DeleteExam, Without, Restrict, QuestionsOf, QuestionsHaveExam
<1>4. AplicadoresHaveExam'
  BY <1>1, <1>2 DEF DeleteExam, Without, Restrict, AplicadoresOf, AplicadoresHaveExam
<1>5. DOMAIN aplicadores' = DOMAIN aplicadores \ gone
  BY DEF DeleteExam, Without, Restrict
<1>6. IsTable(left, Participant, serial.participant)
  <2>1. IsTable(participants, Participant, serial.participant)
    BY Typing
  <2> QED
    BY <2>1, Typing, RemovedRows
<1>7. /\ DOMAIN left = DOMAIN participants \ ParticipantsOf(e)
      /\ \A p \in DOMAIN left : left[p] = participants[p]
  BY DEF Without, Restrict
<1>8. participants' = AplicadorCleared(left, gone)
  BY DEF DeleteExam
<1>9. DOMAIN participants' = DOMAIN left
  BY <1>8 DEF AplicadorCleared
<1>10. ASSUME NEW p \in DOMAIN participants'
       PROVE  /\ participants'[p].examId \in DOMAIN exams'
              /\ participants'[p].aplicadorId \in DOMAIN aplicadores' \cup {NoId}
  <2> HIDE DEF left, gone
  <2>1. p \in DOMAIN participants /\ p \notin ParticipantsOf(e) /\ p \in DOMAIN left
    BY <1>7, <1>9, <1>10
  <2>2. participants'[p].examId = participants[p].examId
    BY <1>6, <1>7, <1>8, <2>1, Typing, ClearedParticipants
  <2>3. participants'[p].aplicadorId =
          IF participants[p].aplicadorId \in gone THEN NoId
                                                  ELSE participants[p].aplicadorId
    BY <1>6, <1>7, <1>8, <2>1, Typing, ClearedAplicador
  <2>4. participants[p].examId # e
    BY <2>1 DEF ParticipantsOf
  <2> QED
    BY <1>1, <1>2, <1>5, <2>1, <2>2, <2>3, <2>4 DEF ParticipantsHaveParents
<1>11. DOMAIN questions' = DOMAIN questions \ QuestionsOf(e)
  BY DEF DeleteExam, Without, Restrict
<1>12. AnswersHaveParents'
  BY <1>1, <1>7, <1>9, <1>11
     DEF DeleteExam, AnswersWithout, Restrict, AnswersHaveParents
<1>13. ParticipantsHaveParents'
  BY <1>10 DEF ParticipantsHaveParents
<1>14. NoOrphans' <=> /\ QuestionsHaveExam' /\ AplicadoresHaveExam'
                      /\ ParticipantsHaveParents' /\ AnswersHaveParents'
  BY DEF NoOrphans, QuestionsHaveExam, AplicadoresHaveExam,
         ParticipantsHaveParents, AnswersHaveParents
<1> QED
  BY <1>3, <1>4, <1>12, <1>13, <1>14

LEMMA ExamsOrphans ==
  ASSUME TypeOK, NoOrphans, ExamsNext
  PROVE  NoOrphans'
<1>1. ASSUME NEW e \in DOMAIN exams, RemoveExam(e)
      PROVE  NoOrphans'
  BY <1>1, DeleteExamOrphans DEF RemoveExam
<1>2. ASSUME NEW e \in DOMAIN exams, NEW nota \in NotaInputs, UpdateExam(e, nota)
      PROVE  NoOrphans'
  BY <1>2 DEF UpdateExam, NoOrphans
<1>3. ASSUME NEW s \in Slots, NEW e \in DOMAIN exams, NEW to \in StatusInputs,
             ReadStatus(s, e, to)
      PROVE  NoOrphans'
  BY <1>3, OrphansUnchanged DEF ReadStatus, tables
<1>4. ASSUME NEW s \in Slots, WriteStatus(s)
      PROVE  NoOrphans'
  BY <1>4 DEF WriteStatus, NoOrphans
<1>5. ASSUME NEW s \in Slots, ExportRanking(s) \/ ExamGone(s)
      PROVE  NoOrphans'
  BY <1>5, OrphansUnchanged DEF ExportRanking, ExamGone, tables
<1>6. ASSUME NEW s \in Slots, NEW adm \in Adms, NEW sent \in MailOutcomes,
             SendMail(s, adm, sent)
      PROVE  NoOrphans'
  BY <1>6, OrphansUnchanged DEF SendMail, tables
<1>7. CASE Tick
  BY <1>7, OrphansUnchanged DEF Tick, tables
<1> QED
  BY <1>1, <1>2, <1>3, <1>4, <1>5, <1>6, <1>7, CreateExamOrphans
     DEF ExamsNext, ExamsStep

LEMMA QuestionsOrphans ==
  ASSUME TypeOK, NoOrphans, QuestionsNext
  PROVE  NoOrphans'
<1>1. ASSUME NEW s \in Slots, SaveQuestions(s)
      PROVE  NoOrphans'
  <2> DEFINE c == calls[s]
             new == {newQuestionId(c, i) : i \in CreatedItems(c)}
  <2>1. /\ questions' = [q \in DOMAIN questions \cup new |-> SavedQuestion(c, q)]
        /\ UNCHANGED <<exams, participants, aplicadores, answers>>
    BY <1>1 DEF SaveQuestions
  <2>2. ASSUME NEW q \in DOMAIN questions'
        PROVE  questions'[q].examId \in DOMAIN exams
    <3>1. CASE q \in DOMAIN questions
      BY <2>1, <3>1 DEF SavedQuestion, QuestionRow, NoOrphans
    <3>2. CASE q \notin DOMAIN questions
      <4>1. questions'[q].examId = c.examId
        BY <2>1, <2>2, <3>2 DEF SavedQuestion, QuestionRow
      <4>2. PICK i \in CreatedItems(c) : TRUE
        BY <2>1, <2>2, <3>2
      <4>3. i \in DOMAIN c.items /\ c.target[i] = NoId
        BY <4>2 DEF CreatedItems
      <4>4. c.examId \in DOMAIN exams
        BY <1>1, <4>3 DEF SaveQuestions, QuestionsFit
      <4> QED
        BY <4>1, <4>4
    <3> QED
      BY <3>1, <3>2
  <2> QED
    BY <2>1, <2>2 DEF NoOrphans
<1>2. ASSUME NEW s \in Slots, RemoveQuestion(s)
      PROVE  NoOrphans'
  BY <1>2 DEF RemoveQuestion, NoOrphans, Without, AnswersWithout, Restrict
<1>3. ASSUME NEW s \in Slots, QuestionsRefused(s)
      PROVE  NoOrphans'
  BY <1>3, OrphansUnchanged DEF QuestionsRefused, tables
<1>4. ASSUME NEW s \in Slots, NEW e \in DOMAIN exams, NEW items \in QuestionInputs,
             SnapshotQuestions(s, e, items)
      PROVE  NoOrphans'
  BY <1>4, OrphansUnchanged DEF SnapshotQuestions, tables
<1>5. ASSUME NEW s \in Slots, NEW e \in DOMAIN exams, NEW q \in QuestionsOf(e),
             FindQuestion(s, e, q)
      PROVE  NoOrphans'
  BY <1>5, OrphansUnchanged DEF FindQuestion, tables
<1> QED
  BY <1>1, <1>2, <1>3, <1>4, <1>5 DEF QuestionsNext, QuestionsStep

LEMMA ParticipantsOrphans ==
  ASSUME TypeOK, NoOrphans, ParticipantsNext
  PROVE  NoOrphans'
<1>1. ASSUME NEW s \in Slots, InsertParticipants(s)
      PROVE  NoOrphans'
  <2> DEFINE c == calls[s]
             n == Len(c.dtos)
             rows == [i \in 1..n |-> EnrolledRow(c, i)]
  <2>1. /\ participants' = WithRows(participants, serial.participant, rows)
        /\ UNCHANGED <<exams, questions, aplicadores, answers>>
    BY <1>1 DEF InsertParticipants
  <2>2. c.dtos \in Seq(ParticipantDto) /\ serial.participant \in Nat
    BY <1>1, CallShape, Typing DEF InsertParticipants, Serving, EnrolCall
  <2>3. n \in Nat /\ DOMAIN c.dtos = 1..n
    BY <2>2
  <2>4. Len(rows) = n
    BY <2>3
  <2>5. DOMAIN participants' = DOMAIN participants
                                 \cup (serial.participant + 1)..(serial.participant + n)
    <3> HIDE DEF rows, n
    <3> QED
      BY <2>1, <2>4 DEF WithRows
  <2>6. ASSUME NEW p \in DOMAIN participants'
        PROVE  /\ participants'[p].examId \in DOMAIN exams
               /\ participants'[p].aplicadorId \in DOMAIN aplicadores \cup {NoId}
    <3>1. CASE p \in DOMAIN participants
      <4>1. participants'[p] = participants[p]
        <5> HIDE DEF rows, n
        <5> QED
          BY <2>1, <2>5, <2>6, <3>1 DEF WithRows
      <4> QED
        BY <3>1, <4>1 DEF NoOrphans
    <3>2. CASE p \notin DOMAIN participants
      <4>1. p - serial.participant \in 1..n
        <5> HIDE DEF n
        <5> QED
          BY <2>2, <2>3, <2>5, <2>6, <3>2
      <4>2. participants'[p] = rows[p - serial.participant]
        <5> HIDE DEF rows, n
        <5> QED
          BY <2>1, <2>4, <2>5, <2>6, <3>2 DEF WithRows
      <4>3. participants'[p] = EnrolledRow(c, p - serial.participant)
        BY <4>1, <4>2
      <4>4. /\ participants'[p].examId = c.examId
            /\ participants'[p].aplicadorId = c.dtos[p - serial.participant].aplicadorId
        BY <4>3 DEF EnrolledRow
      <4>5. EnrolFits(c)
        BY <1>1 DEF InsertParticipants
      <4>6. c.examId \in DOMAIN exams
        BY <4>5 DEF EnrolFits
      <4>7. c.dtos[p - serial.participant].aplicadorId \in DOMAIN aplicadores \cup {NoId}
        BY <2>3, <4>1, <4>5 DEF EnrolFits
      <4> QED
        BY <4>4, <4>6, <4>7
    <3> QED
      BY <3>1, <3>2
  <2>7. DOMAIN participants \subseteq DOMAIN participants'
    BY <2>5
  <2> QED
    BY <2>1, <2>6, <2>7 DEF NoOrphans
<1>2. ASSUME NEW s \in Slots, UpdatePresenca(s) \/ UpdateRedacao(s)
      PROVE  NoOrphans'
  <2>1. DOMAIN participants' = DOMAIN participants
    BY <1>2 DEF UpdatePresenca, UpdateRedacao
  <2>2. \A p \in DOMAIN participants :
          /\ participants'[p].examId = participants[p].examId
          /\ participants'[p].aplicadorId = participants[p].aplicadorId
    BY <1>2, Typing DEF UpdatePresenca, UpdateRedacao, IsTable, Participant
  <2> QED
    BY <1>2, <2>1, <2>2 DEF UpdatePresenca, UpdateRedacao, NoOrphans
<1>3. ASSUME NEW s \in Slots, RemoveParticipant(s)
      PROVE  NoOrphans'
  BY <1>3 DEF RemoveParticipant, NoOrphans, Without, AnswersWithout, Restrict
<1>4. ASSUME NEW s \in Slots, EnrolRefused(s) \/ ParticipantGone(s)
      PROVE  NoOrphans'
  BY <1>4, OrphansUnchanged DEF EnrolRefused, ParticipantGone, tables
<1>5. ASSUME NEW s \in Slots, NEW e \in DOMAIN exams, NEW dtos \in ParticipantInputs,
             AllocateCodes(s, e, dtos)
      PROVE  NoOrphans'
  BY <1>5, OrphansUnchanged DEF AllocateCodes, tables
<1>6. ASSUME NEW s \in Slots, NEW e \in DOMAIN exams, NEW call \in EditInputsOf(e),
             AssertOwned(s, call)
      PROVE  NoOrphans'
  BY <1>6, OrphansUnchanged DEF AssertOwned, tables
<1> QED
  BY <1>1, <1>2, <1>3, <1>4, <1>5, <1>6 DEF ParticipantsNext, ParticipantsStep

\* The answers after a bulk: the old ones, with their pairs, and new ones with
\* the pairs of items.
LEMMA SavedPairs ==
  ASSUME TypeOK, NEW s \in Slots, SaveAnswers(s)
  PROVE  \A a \in DOMAIN answers' :
           \/ a \in DOMAIN answers /\ Pair(answers'[a]) = Pair(answers[a])
           \/ \E i \in DOMAIN calls[s].items :
                Pair(answers'[a]) = Pair(calls[s].items[i])
<1> DEFINE c == calls[s]
           new == {serial.answer + i : i \in InsertedItems(c)}
<1>1. c \in BulkAnswersCall
  BY CallShape, Typing DEF SaveAnswers, Serving
<1>2. answers' = [a \in DOMAIN answers \cup new |-> UpsertedAnswer(c, a)]
  BY DEF SaveAnswers
<1>3. \A a \in DOMAIN answers \cup new :
        /\ a \in DOMAIN answers => Pair(UpsertedAnswer(c, a)) = Pair(answers[a])
        /\ a \notin DOMAIN answers =>
             \E i \in DOMAIN c.items : Pair(UpsertedAnswer(c, a)) = Pair(c.items[i])
  BY <1>1, UpsertedAnswerType DEF TypeOK
<1> HIDE DEF new, c
<1>4. \A a \in DOMAIN answers' :
        \/ a \in DOMAIN answers /\ Pair(answers'[a]) = Pair(answers[a])
        \/ \E i \in DOMAIN c.items : Pair(answers'[a]) = Pair(c.items[i])
  BY <1>2, <1>3
<1> QED
  BY <1>4 DEF c

LEMMA AnswersOrphans ==
  ASSUME TypeOK, NoOrphans, AnswersNext
  PROVE  NoOrphans'
<1>1. ASSUME NEW s \in Slots, SaveAnswers(s)
      PROVE  NoOrphans'
  <2>1. \A i \in DOMAIN calls[s].items :
          /\ calls[s].items[i].userId \in DOMAIN participants
          /\ calls[s].items[i].questId \in DOMAIN questions
    BY <1>1 DEF SaveAnswers, AnswersFit
  <2>2. ASSUME NEW a \in DOMAIN answers'
        PROVE  /\ answers'[a].userId \in DOMAIN participants
               /\ answers'[a].questId \in DOMAIN questions
    BY <1>1, <2>1, <2>2, SavedPairs DEF Pair, NoOrphans
  <2>3. UNCHANGED <<exams, questions, participants, aplicadores>>
    BY <1>1 DEF SaveAnswers
  <2> QED
    BY <2>2, <2>3 DEF NoOrphans
<1>2. ASSUME NEW s \in Slots, NEW table \in Reads, ReadOwners(s, table)
      PROVE  NoOrphans'
  BY <1>2, OrphansUnchanged DEF ReadOwners, tables
<1>3. ASSUME NEW s \in Slots, AnswersRefused(s)
      PROVE  NoOrphans'
  BY <1>3, OrphansUnchanged DEF AnswersRefused, tables
<1>4. ASSUME NEW s \in Slots, NEW e \in DOMAIN exams, NEW items \in AnswerInputs,
             OpenBulkAnswers(s, e, items)
      PROVE  NoOrphans'
  BY <1>4, OrphansUnchanged DEF OpenBulkAnswers, tables
<1>5. ASSUME NEW a \in DOMAIN answers, NEW alternativa \in EditInputs,
             UpdateAnswer(a, alternativa)
      PROVE  NoOrphans'
  <2>1. \A x \in DOMAIN answers : Pair(answers'[x]) = Pair(answers[x])
    BY <1>5, Typing DEF UpdateAnswer, IsTable, Answer, Pair
  <2> QED
    BY <1>5, <2>1 DEF UpdateAnswer, NoOrphans, Pair
<1> QED
  BY <1>1, <1>2, <1>3, <1>4, <1>5 DEF AnswersNext, AnswersStep

LEMMA AplicadoresOrphans ==
  ASSUME TypeOK, NoOrphans, AplicadoresNext
  PROVE  NoOrphans'
<1>1. ASSUME NEW e \in DOMAIN exams, CreateAplicador(e)
      PROVE  NoOrphans'
  <2> DEFINE row == [provaId |-> e, status |-> "PENDENTE"]
  <2>1. /\ aplicadores' = WithRows(aplicadores, serial.aplicador, <<row>>)
        /\ UNCHANGED <<exams, questions, participants, answers>>
    BY <1>1 DEF CreateAplicador
  <2>2. serial.aplicador \in Nat
    BY Typing DEF Tables
  <2>3. DOMAIN aplicadores' = DOMAIN aplicadores \cup {serial.aplicador + 1}
    <3> HIDE DEF row
    <3> QED
      BY <2>1, <2>2 DEF WithRows
  <2>4. \A a \in DOMAIN aplicadores' :
          aplicadores'[a] = IF a \in DOMAIN aplicadores THEN aplicadores[a] ELSE row
    <3> HIDE DEF row
    <3> QED
      BY <2>1, <2>2, <2>3 DEF WithRows
  <2>5. row.provaId = e
    OBVIOUS
  <2> HIDE DEF row
  <2> QED
    BY <2>1, <2>3, <2>4, <2>5 DEF NoOrphans
<1>2. ASSUME NEW a \in DOMAIN aplicadores, NEW status \in AplicadorInputs,
             UpdateAplicadorStatus(a, status)
      PROVE  NoOrphans'
  <2>1. aplicadores[a] \in Aplicador
    BY TablesOKFacts DEF TypeOK
  <2>2. \A x \in DOMAIN aplicadores : aplicadores'[x].provaId = aplicadores[x].provaId
    BY <1>2, <2>1 DEF UpdateAplicadorStatus, Aplicador
  <2> QED
    BY <1>2, <2>2 DEF UpdateAplicadorStatus, NoOrphans
<1>3. ASSUME NEW a \in DOMAIN aplicadores, RemoveAplicador(a)
      PROVE  NoOrphans'
  <2>1. /\ participants' = AplicadorCleared(participants, {a})
        /\ UNCHANGED <<exams, questions, answers>>
    BY <1>3 DEF RemoveAplicador
  <2>2. /\ DOMAIN aplicadores' = DOMAIN aplicadores \ {a}
        /\ \A x \in DOMAIN aplicadores' : aplicadores'[x] = aplicadores[x]
    BY <1>3 DEF RemoveAplicador, Without, Restrict
  <2>3. DOMAIN participants' = DOMAIN participants
    BY <2>1 DEF AplicadorCleared
  <2>4. ASSUME NEW p \in DOMAIN participants
        PROVE  /\ participants'[p].examId = participants[p].examId
               /\ participants'[p].aplicadorId \in DOMAIN aplicadores' \cup {NoId}
    <3>1. participants'[p].examId = participants[p].examId
      BY <2>1, <2>4, Typing, ClearedParticipants
    <3>2. participants'[p].aplicadorId =
            IF participants[p].aplicadorId \in {a} THEN NoId
                                                   ELSE participants[p].aplicadorId
      BY <2>1, <2>4, Typing, ClearedAplicador
    <3> QED
      BY <2>2, <3>1, <3>2 DEF NoOrphans
  <2> QED
    BY <2>1, <2>2, <2>3, <2>4 DEF NoOrphans
<1> QED
  BY <1>1, <1>2, <1>3 DEF AplicadoresNext

LEMMA NoOrphansNext ==
  ASSUME TypeOK, NoOrphans, [Next]_vars
  PROVE  NoOrphans'
<1>1. ASSUME NEW s \in Slots, Crash(s)
      PROVE  NoOrphans'
  BY <1>1, OrphansUnchanged DEF Crash, tables
<1>2. CASE UNCHANGED vars
  BY <1>2, OrphansUnchanged DEF vars, tables
<1> QED
  BY <1>1, <1>2, ExamsOrphans, QuestionsOrphans, ParticipantsOrphans,
     AnswersOrphans, AplicadoresOrphans DEF Next

-----------------------------------------------------------------------------
(* An answer joins rows of one exam.                                       *)

\* Only a bulk of answers makes a pair that was not there.
LEMMA PairsNext ==
  ASSUME TypeOK, [Next]_vars, NEW a \in DOMAIN answers'
  PROVE  \/ a \in DOMAIN answers /\ Pair(answers'[a]) = Pair(answers[a])
         \/ \E s \in Slots :
              /\ SaveAnswers(s)
              /\ \E i \in DOMAIN calls[s].items :
                   Pair(answers'[a]) = Pair(calls[s].items[i])
<1> DEFINE Kept == a \in DOMAIN answers /\ Pair(answers'[a]) = Pair(answers[a])
           Saved(s) == /\ SaveAnswers(s)
                       /\ \E i \in DOMAIN calls[s].items :
                            Pair(answers'[a]) = Pair(calls[s].items[i])
<1> SUFFICES Kept \/ \E s \in Slots : Saved(s)
  OBVIOUS
<1>1. ASSUME UNCHANGED answers PROVE Kept
  BY <1>1
<1>2. ASSUME NEW us, NEW qs, answers' = AnswersWithout(us, qs)
      PROVE  Kept
  BY <1>2 DEF AnswersWithout, Restrict
<1>3. CASE ExamsNext
  <2>1. UNCHANGED answers \/ \E e \in DOMAIN exams : RemoveExam(e)
    BY <1>3 DEF ExamsNext, ExamsStep, CreateExam, UpdateExam, ReadStatus,
                WriteStatus, ExportRanking, SendMail, ExamGone, Tick, tables
  <2>2. ASSUME NEW e \in DOMAIN exams, RemoveExam(e) PROVE Kept
    <3>1. answers' = AnswersWithout(ParticipantsOf(e), QuestionsOf(e))
      BY <2>2 DEF RemoveExam, DeleteExam
    <3> QED
      BY <1>2, <3>1
  <2> QED
    BY <1>1, <2>1, <2>2
<1>4. CASE QuestionsNext
  <2>1. UNCHANGED answers \/ \E s \in Slots : RemoveQuestion(s)
    BY <1>4 DEF QuestionsNext, QuestionsStep, SnapshotQuestions, SaveQuestions,
                QuestionsRefused, FindQuestion, tables
  <2>2. ASSUME NEW s \in Slots, RemoveQuestion(s) PROVE Kept
    <3>1. answers' = AnswersWithout({}, {calls[s].id})
      BY <2>2 DEF RemoveQuestion
    <3> QED
      BY <1>2, <3>1
  <2> QED
    BY <1>1, <2>1, <2>2
<1>5. CASE ParticipantsNext
  <2>1. UNCHANGED answers \/ \E s \in Slots : RemoveParticipant(s)
    BY <1>5 DEF ParticipantsNext, ParticipantsStep, AllocateCodes, AssertOwned,
                InsertParticipants, EnrolRefused, UpdatePresenca, UpdateRedacao,
                ParticipantGone, tables
  <2>2. ASSUME NEW s \in Slots, RemoveParticipant(s) PROVE Kept
    <3>1. answers' = AnswersWithout({calls[s].id}, {})
      BY <2>2 DEF RemoveParticipant
    <3> QED
      BY <1>2, <3>1
  <2> QED
    BY <1>1, <2>1, <2>2
<1>6. ASSUME NEW x \in DOMAIN answers, NEW alternativa \in EditInputs,
             UpdateAnswer(x, alternativa)
      PROVE  Kept
  BY <1>6, Typing DEF UpdateAnswer, IsTable, Answer, Pair
<1>7. ASSUME NEW s \in Slots, NEW table \in Reads, ReadOwners(s, table)
      PROVE  Kept
  BY <1>1, <1>7 DEF ReadOwners, tables
<1>8. ASSUME NEW s \in Slots, AnswersRefused(s) PROVE Kept
  BY <1>1, <1>8 DEF AnswersRefused, tables
<1>9. ASSUME NEW s \in Slots, NEW e \in DOMAIN exams, NEW items \in AnswerInputs,
             OpenBulkAnswers(s, e, items)
      PROVE  Kept
  BY <1>1, <1>9 DEF OpenBulkAnswers, tables
<1>10. CASE AplicadoresNext
  BY <1>1, <1>10 DEF AplicadoresNext, CreateAplicador, UpdateAplicadorStatus,
                     RemoveAplicador
<1>11. ASSUME NEW s \in Slots, Crash(s) PROVE Kept
  BY <1>1, <1>11 DEF Crash, tables
<1>12. CASE UNCHANGED vars
  BY <1>1, <1>12 DEF vars, tables
<1>13. ASSUME NEW s \in Slots, SaveAnswers(s)
       PROVE  Kept \/ \E i \in DOMAIN calls[s].items :
                        Pair(answers'[a]) = Pair(calls[s].items[i])
  BY <1>13, SavedPairs
<1>14. ASSUME NEW s \in Slots, SaveAnswers(s)
       PROVE  Kept \/ Saved(s)
  BY <1>13, <1>14
<1> HIDE DEF Kept, Saved
<1>15. CASE AnswersNext
  <2>1. \/ \E s \in Slots, e \in DOMAIN exams, items \in AnswerInputs :
             OpenBulkAnswers(s, e, items)
        \/ \E s \in Slots, table \in Reads : ReadOwners(s, table)
        \/ \E s \in Slots : SaveAnswers(s)
        \/ \E s \in Slots : AnswersRefused(s)
        \/ \E x \in DOMAIN answers, alternativa \in EditInputs :
             UpdateAnswer(x, alternativa)
    BY <1>15 DEF AnswersNext, AnswersStep
  <2> QED
    BY <1>6, <1>7, <1>8, <1>9, <1>14, <2>1
<1> QED
  BY <1>3, <1>4, <1>5, <1>10, <1>11, <1>12, <1>15 DEF Next

LEMMA AnswersSameExamNext ==
  ASSUME TypeOK, NoOrphans, NoOrphans', CallsOwnRows, AnswersSameExam, [Next]_vars
  PROVE  AnswersSameExam'
<1> SUFFICES ASSUME NEW a \in DOMAIN answers'
             PROVE  participants'[answers'[a].userId].examId =
                      questions'[answers'[a].questId].examId
  BY DEF AnswersSameExam, NoOrphans
<1> DEFINE u == answers'[a].userId
           q == answers'[a].questId
<1>1. u \in DOMAIN participants' /\ q \in DOMAIN questions'
  BY DEF NoOrphans
<1>2. IdsKeepExam
  BY NextKeepsExam
<1>3. CASE a \in DOMAIN answers /\ Pair(answers'[a]) = Pair(answers[a])
  <2>1. u = answers[a].userId /\ q = answers[a].questId
    BY <1>3 DEF Pair
  <2>2. /\ u \in DOMAIN participants /\ q \in DOMAIN questions
        /\ participants[u].examId = questions[q].examId
    BY <1>3, <2>1 DEF AnswersSameExam
  <2>3. u \in 1..serial.participant /\ q \in 1..serial.question
    BY <2>2, Typing DEF IsTable
  <2> QED
    BY <1>1, <1>2, <2>2, <2>3 DEF IdsKeepExam, SameExamRows
<1>4. ASSUME NEW s \in Slots, SaveAnswers(s), NEW i \in DOMAIN calls[s].items,
             Pair(answers'[a]) = Pair(calls[s].items[i])
      PROVE  participants'[u].examId = questions'[q].examId
  <2> DEFINE c == calls[s]
  <2>1. u = c.items[i].userId /\ q = c.items[i].questId
    BY <1>4 DEF Pair
  <2>2. c.op = "bulkAnswers" /\ c.unread = {} /\ BulkAnswersOwn(c)
    BY <1>4 DEF SaveAnswers, Serving, CallsOwnRows
  <2>3. UNCHANGED <<participants, questions>>
    BY <1>4 DEF SaveAnswers
  <2>4. ParticipantStays(u, c.examId) /\ QuestionStays(q, c.examId)
    BY <1>4, <2>1, <2>2 DEF BulkAnswersOwn
  <2> QED
    BY <1>1, <2>3, <2>4 DEF ParticipantStays, QuestionStays
<1> QED
  BY <1>3, <1>4, PairsNext

-----------------------------------------------------------------------------
(* A completed exam has its closing day.                                   *)

LEMMA ClosingDayNext ==
  ASSUME TypeOK, CompletedHasClosingDay, [Next]_vars
  PROVE  CompletedHasClosingDay'
<1> DEFINE Kept == \A e \in DOMAIN exams' : e \in DOMAIN exams /\ exams'[e] = exams[e]
<1>1. now \in Nat
  BY DEF TypeOK
<1>2. ASSUME Kept, now' \in Nat, now <= now'
      PROVE  CompletedHasClosingDay'
  BY <1>1, <1>2 DEF CompletedHasClosingDay
<1>3. ASSUME UNCHANGED <<exams, now>>
      PROVE  CompletedHasClosingDay'
  BY <1>3 DEF CompletedHasClosingDay
<1>4. CASE ExamsNext
  <2>1. ASSUME NEW dto \in ExamInputs, CreateExam(dto)
        PROVE  CompletedHasClosingDay'
    <3> DEFINE row == [status |-> "draft", encerramento |-> NoDate,
                       notaSimbolica |-> dto.notaSimbolica]
    <3>1. exams' = WithRows(exams, serial.exam, <<row>>) /\ now' = now
      BY <2>1 DEF CreateExam, examsVars
    <3>2. (serial.exam + 1)..(serial.exam + Len(<<row>>)) = {serial.exam + 1}
      BY Typing
    <3>3. <<row>>[1] = row
      OBVIOUS
    <3>4. row.status = "draft"
      OBVIOUS
    <3> HIDE DEF row
    <3>5. ASSUME NEW e \in DOMAIN exams'
          PROVE  \/ e \in DOMAIN exams /\ exams'[e] = exams[e]
                 \/ exams'[e] = row
      <4>1. CASE e \in DOMAIN exams
        BY <3>1, <4>1 DEF WithRows
      <4>2. CASE e \notin DOMAIN exams
        <5>1. e = serial.exam + 1
          BY <3>1, <3>2, <3>5, <4>2 DEF WithRows
        <5>2. exams'[e] = <<row>>[e - serial.exam]
          BY <3>1, <3>5, <4>2 DEF WithRows
        <5>3. e - serial.exam = 1
          BY <5>1, Typing
        <5> QED
          BY <3>3, <5>2, <5>3
      <4> QED
        BY <4>1, <4>2
    <3> QED
      BY <3>1, <3>4, <3>5 DEF CompletedHasClosingDay
  <2>2. ASSUME NEW e \in DOMAIN exams, NEW nota \in NotaInputs, UpdateExam(e, nota)
        PROVE  CompletedHasClosingDay'
    <3>1. /\ DOMAIN exams' = DOMAIN exams /\ now' = now
          /\ \A x \in DOMAIN exams : /\ exams'[x].status = exams[x].status
                                     /\ exams'[x].encerramento = exams[x].encerramento
      BY <2>2, Typing DEF UpdateExam, examsVars, IsTable, Exam
    <3> QED
      BY <3>1 DEF CompletedHasClosingDay
  <2>3. ASSUME NEW e \in DOMAIN exams, RemoveExam(e)
        PROVE  CompletedHasClosingDay'
    BY <1>1, <1>2, <2>3 DEF RemoveExam, DeleteExam, Without, Restrict, examsVars
  <2>4. ASSUME NEW s \in Slots, WriteStatus(s)
        PROVE  CompletedHasClosingDay'
    <3> DEFINE e == calls[s].examId
               to == calls[s].to
    <3>1. /\ exams' = [exams EXCEPT ![e].status = to,
                                    ![e].encerramento = ClosingDay(e, to)]
          /\ now' = now /\ e \in DOMAIN exams
      BY <2>4 DEF WriteStatus, examsVars
    <3>2. exams[e] \in Exam
      BY <3>1, Typing DEF IsTable
    <3>3. /\ exams'[e].status = to /\ exams'[e].encerramento = ClosingDay(e, to)
          /\ DOMAIN exams' = DOMAIN exams
          /\ \A x \in DOMAIN exams \ {e} : exams'[x] = exams[x]
      <4> HIDE DEF e, to
      <4> QED
        BY <3>1, <3>2 DEF Exam
    <3>4. to = "completed" => ClosingDay(e, to) \in 0..now
      BY <1>1 DEF ClosingDay
    <3> HIDE DEF e, to
    <3> QED
      BY <3>1, <3>3, <3>4 DEF CompletedHasClosingDay
  <2>5. ASSUME NEW s \in Slots, NEW e \in DOMAIN exams, NEW to \in StatusInputs,
               ReadStatus(s, e, to)
        PROVE  CompletedHasClosingDay'
    BY <1>3, <2>5 DEF ReadStatus, tables, examsVars
  <2>6. ASSUME NEW s \in Slots, ExportRanking(s) \/ ExamGone(s)
        PROVE  CompletedHasClosingDay'
    BY <1>3, <2>6 DEF ExportRanking, ExamGone, tables, examsVars
  <2>7. ASSUME NEW s \in Slots, NEW adm \in Adms, NEW sent \in MailOutcomes,
               SendMail(s, adm, sent)
        PROVE  CompletedHasClosingDay'
    BY <1>3, <2>7 DEF SendMail, tables
  <2>8. CASE Tick
    <3>1. now' = now + 1 /\ UNCHANGED exams
      BY <2>8 DEF Tick, tables
    <3> QED
      BY <1>1, <1>2, <3>1
  <2> QED
    BY <1>4, <2>1, <2>2, <2>3, <2>4, <2>5, <2>6, <2>7, <2>8 DEF ExamsNext, ExamsStep
<1>5. CASE QuestionsNext /\ UNCHANGED examsVars
  BY <1>3, <1>5 DEF QuestionsNext, QuestionsStep, SnapshotQuestions, SaveQuestions,
     QuestionsRefused, FindQuestion, RemoveQuestion, tables, examsVars
<1>6. CASE ParticipantsNext /\ UNCHANGED examsVars
  BY <1>3, <1>6 DEF ParticipantsNext, ParticipantsStep, AllocateCodes, AssertOwned,
     InsertParticipants, EnrolRefused, UpdatePresenca, UpdateRedacao,
     RemoveParticipant, ParticipantGone, tables, examsVars
<1>7. CASE AnswersNext /\ UNCHANGED examsVars
  BY <1>3, <1>7 DEF AnswersNext, AnswersStep, OpenBulkAnswers, ReadOwners,
     SaveAnswers, AnswersRefused, UpdateAnswer, tables, examsVars
<1>8. CASE AplicadoresNext /\ UNCHANGED examsVars
  BY <1>3, <1>8 DEF AplicadoresNext, CreateAplicador, UpdateAplicadorStatus,
     RemoveAplicador, examsVars
<1>9. ASSUME NEW s \in Slots, Crash(s), UNCHANGED examsVars
      PROVE  CompletedHasClosingDay'
  BY <1>3, <1>9 DEF Crash, tables, examsVars
<1>10. CASE UNCHANGED vars
  BY <1>3, <1>10 DEF vars, tables, examsVars
<1> QED
  BY <1>4, <1>5, <1>6, <1>7, <1>8, <1>9, <1>10 DEF Next

-----------------------------------------------------------------------------
(* Theorems.                                                               *)

Inv == /\ TypeOK /\ NoOrphans /\ CallsOwnRows
       /\ AnswersSameExam /\ CompletedHasClosingDay

LEMMA InitInv == Init => Inv
<1> SUFFICES ASSUME Init PROVE Inv
  OBVIOUS
<1>1. TypeOK
  BY InitTypes
<1>2. /\ DOMAIN exams = {} /\ DOMAIN questions = {} /\ DOMAIN participants = {}
      /\ DOMAIN aplicadores = {} /\ DOMAIN answers = {}
  BY DEF Init, InitTables, Empty
<1>3. NoOrphans /\ AnswersSameExam /\ CompletedHasClosingDay
  BY <1>2 DEF NoOrphans, AnswersSameExam, CompletedHasClosingDay
<1>4. CallsOwnRows
  <2>1. Owns(Idle)
    BY QuietOwns DEF Quiet, Idle
  <2>2. \A s \in Slots : calls[s] = Idle
    BY DEF Init
  <2> QED
    BY <2>1, <2>2 DEF Owns, CallsOwnRows
<1> QED
  BY <1>1, <1>3, <1>4 DEF Inv

LEMMA NextInv == Inv /\ [Next]_vars => Inv'
<1> SUFFICES ASSUME Inv, [Next]_vars PROVE Inv'
  OBVIOUS
<1> USE DEF Inv
<1>1. TypeOK'
  BY NextTypes
<1>2. NoOrphans'
  BY NoOrphansNext
<1>3. CallsOwnRows'
  BY <1>1, CallsOwnRowsNext
<1>4. AnswersSameExam'
  BY <1>2, AnswersSameExamNext
<1>5. CompletedHasClosingDay'
  BY ClosingDayNext
<1> QED
  BY <1>1, <1>2, <1>3, <1>4, <1>5

THEOREM Invariance == Spec => []Inv
  BY InitInv, NextInv, PTL DEF Spec

\* No question, participant, aplicador or answer outlives its parents,
\* whatever deletes and inserts overlap.
THEOREM NoRowIsOrphan == Spec => []NoOrphans
  BY Invariance, PTL DEF Inv

\* The rows a call looked up in its exam stay of that exam until it writes.
THEOREM CallsStayInTheirExam == Spec => []CallsOwnRows
  BY Invariance, PTL DEF Inv

\* Every answer joins a participant and a question of one exam, although
\* bulkUpsert checks them two statements before it writes.
THEOREM AnswersJoinOneExam == Spec => []AnswersSameExam
  BY Invariance, PTL DEF Inv

\* A completed exam has the day of its closing, not in the future.
THEOREM CompletedExamsAreDated == Spec => []CompletedHasClosingDay
  BY Invariance, PTL DEF Inv

\* The step property of EditsStayInExam, for one slot.
EditStays(s) ==
  UpdatePresenca(s) \/ UpdateRedacao(s) \/ RemoveParticipant(s) =>
    /\ \A p \in DOMAIN participants \ ParticipantsOf(calls[s].examId) :
         p \in DOMAIN participants' /\ participants'[p] = participants[p]
    /\ \A a \in DOMAIN answers :
         answers[a].userId \notin ParticipantsOf(calls[s].examId) =>
           a \in DOMAIN answers' /\ answers'[a] = answers[a]

LEMMA EditStaysNext ==
  ASSUME Inv, NEW s \in Slots
  PROVE  EditStays(s)
<1> DEFINE id == calls[s].id
           e == calls[s].examId
<1>1. ASSUME calls[s].op \in {"presenca", "redacao", "removeParticipant"}
      PROVE  id \in DOMAIN participants => id \in ParticipantsOf(e)
  BY <1>1 DEF Inv, CallsOwnRows, EditsOwn, ParticipantStays, ParticipantsOf
<1>2. CASE UpdatePresenca(s) \/ UpdateRedacao(s)
  BY <1>1, <1>2 DEF EditStays, UpdatePresenca, UpdateRedacao, Serving, ParticipantsOf
<1>3. CASE RemoveParticipant(s)
  <2>1. id \in DOMAIN participants => id \in ParticipantsOf(e)
    BY <1>1, <1>3 DEF RemoveParticipant, Serving
  <2>2. \A a \in DOMAIN answers : answers[a].userId \in DOMAIN participants
    BY DEF Inv, NoOrphans
  <2>3. \A p \in DOMAIN participants \ ParticipantsOf(e) :
          p \in DOMAIN participants' /\ participants'[p] = participants[p]
    BY <1>3, <2>1 DEF RemoveParticipant, Without, Restrict
  <2>4. \A a \in DOMAIN answers :
          answers[a].userId \notin ParticipantsOf(e) =>
            a \in DOMAIN answers' /\ answers'[a] = answers[a]
    BY <1>3, <2>1, <2>2 DEF RemoveParticipant, AnswersWithout, Restrict
  <2> QED
    BY <2>3, <2>4 DEF EditStays
<1> QED
  BY <1>2, <1>3 DEF EditStays

\* An edit or a removal that assertOwned let through touches nothing of
\* another exam, though the statement it runs names the participant alone.
THEOREM EditsKeepToTheirExam == Spec => EditsStayInExam
<1>1. Inv /\ [Next]_vars => [\A s \in Slots : EditStays(s)]_vars
  BY EditStaysNext
<1>2. Spec => [][\A s \in Slots : EditStays(s)]_vars
  BY <1>1, Invariance, PTL DEF Spec
<1> QED
  BY <1>2 DEF EditsStayInExam, EditStays

-----------------------------------------------------------------------------
(***************************************************************************)
(* The unique keys of the schema, whatever bulk requests overlap, and what *)
(* a bulk request leaves behind.                                           *)
(*                                                                         *)
(* UniqueKeys is not inductive alone: the index an INSERT meets compares   *)
(* it with the rows of the table, and two rows of one request are kept     *)
(* apart by what the handler found out before its first await, that the    *)
(* numeros or the codes of the request differ.  RequestsDiffer keeps that. *)
(***************************************************************************)

\* The duplicate check of the bulk of questions, and one target an item.
ItemsDiffer(c) ==
  c.op = "bulkQuestions" =>
    /\ DOMAIN c.target = DOMAIN c.items
    /\ \A i, j \in DOMAIN c.items : c.items[i].numero = c.items[j].numero => i = j

\* The codes allocateConsultaCodes drew for one request.
CodesDiffer(c) == c.op = "enrol" => IsInjective(c.codes)

Differ(c) == ItemsDiffer(c) /\ CodesDiffer(c)

RequestsDiffer == \A s \in Slots : Differ(calls[s])

KeysInv == UniqueKeys /\ RequestsDiffer

-----------------------------------------------------------------------------
(* A request keeps the items it was accepted with.                         *)

LEMMA OneRequestChanges ==
  ASSUME TypeOK, RequestsDiffer, NEW s \in Slots, NEW c, Differ(c),
         calls' = [calls EXCEPT ![s] = c]
  PROVE  RequestsDiffer'
<1>1. ASSUME NEW z \in Slots
      PROVE  calls'[z] = c \/ calls'[z] = calls[z]
  BY Typing
<1>2. ASSUME NEW z \in Slots
      PROVE  Differ(calls[z])'
  <2>1. CASE calls'[z] = c
    BY <2>1 DEF Differ, ItemsDiffer, CodesDiffer
  <2>2. CASE calls'[z] = calls[z]
    <3>1. Differ(calls[z])
      BY DEF RequestsDiffer
    <3> QED
      BY <2>2, <3>1 DEF Differ, ItemsDiffer, CodesDiffer
  <2> QED
    BY <1>1, <2>1, <2>2
<1> QED
  BY <1>2 DEF RequestsDiffer

LEMMA OtherRequest ==
  ASSUME TypeOK, RequestsDiffer, NEW s \in Slots, NEW c,
         calls' = [calls EXCEPT ![s] = c],
         c.op # "bulkQuestions" /\ c.op # "enrol"
  PROVE  RequestsDiffer'
<1>1. Differ(c)
  BY DEF Differ, ItemsDiffer, CodesDiffer
<1> QED
  BY <1>1, OneRequestChanges

LEMMA ClosedRequest ==
  ASSUME TypeOK, RequestsDiffer, NEW s \in Slots, Close(s)
  PROVE  RequestsDiffer'
<1>1. Idle.op = "idle"
  BY DEF Idle
<1> QED
  BY <1>1, OtherRequest DEF Close

LEMMA NoRequestChanges ==
  ASSUME RequestsDiffer, UNCHANGED calls
  PROVE  RequestsDiffer'
  BY DEF RequestsDiffer, Differ, ItemsDiffer, CodesDiffer

LEMMA ExamsRequests ==
  ASSUME TypeOK, RequestsDiffer, ExamsNext
  PROVE  RequestsDiffer'
<1>1. ASSUME UNCHANGED calls
      PROVE  RequestsDiffer'
  BY <1>1, NoRequestChanges
<1>2. ASSUME NEW s \in Slots, NEW e \in DOMAIN exams, NEW to \in StatusInputs,
             ReadStatus(s, e, to)
      PROVE  RequestsDiffer'
  <2> DEFINE c == [op |-> "status", examId |-> e, to |-> to]
  <2>1. calls' = [calls EXCEPT ![s] = c] /\ c.op = "status"
    BY <1>2 DEF ReadStatus, Start
  <2> HIDE DEF c
  <2> QED
    BY <2>1, OtherRequest
<1>3. ASSUME NEW s \in Slots, WriteStatus(s)
      PROVE  RequestsDiffer'
  <2> DEFINE c == IF calls[s].to = "completed"
                    THEN [op |-> "export", examId |-> calls[s].examId] ELSE Idle
  <2>1. calls' = [calls EXCEPT ![s] = c]
    BY <1>3 DEF WriteStatus
  <2>2. c.op \in {"export", "idle"}
    BY DEF Idle
  <2> HIDE DEF c
  <2> QED
    BY <2>1, <2>2, OtherRequest
<1>4. ASSUME NEW s \in Slots, ExportRanking(s)
      PROVE  RequestsDiffer'
  <2> DEFINE c == [op |-> "mail", examId |-> calls[s].examId, pending |-> Adms]
  <2>1. calls' = [calls EXCEPT ![s] = c] /\ c.op = "mail"
    BY <1>4 DEF ExportRanking
  <2> HIDE DEF c
  <2> QED
    BY <2>1, OtherRequest
<1>5. ASSUME NEW s \in Slots, NEW adm \in Adms, NEW sent \in MailOutcomes,
             SendMail(s, adm, sent)
      PROVE  RequestsDiffer'
  <2> DEFINE left == IF sent THEN calls[s].pending \ {adm} ELSE {}
             c == IF left = {} THEN Idle ELSE [calls[s] EXCEPT !.pending = left]
  <2>1. calls' = [calls EXCEPT ![s] = c]
    BY <1>5 DEF SendMail
  <2>2. c.op \in {"mail", "idle"}
    <3>1. calls[s] \in MailCall
      BY <1>5, CallShape, Typing DEF SendMail, Serving
    <3> QED
      BY <3>1 DEF MailCall, Idle
  <2> HIDE DEF c
  <2> QED
    BY <2>1, <2>2, OtherRequest
<1>6. ASSUME NEW s \in Slots, ExamGone(s)
      PROVE  RequestsDiffer'
  BY <1>6, ClosedRequest DEF ExamGone
<1>7. ASSUME NEW dto \in ExamInputs, CreateExam(dto)
      PROVE  UNCHANGED calls
  BY <1>7 DEF CreateExam
<1>8. ASSUME NEW e \in DOMAIN exams, RemoveExam(e)
      PROVE  UNCHANGED calls
  BY <1>8 DEF RemoveExam
<1>9. ASSUME NEW e \in DOMAIN exams, NEW nota \in NotaInputs, UpdateExam(e, nota)
      PROVE  UNCHANGED calls
  BY <1>9 DEF UpdateExam
<1>10. CASE Tick
  BY <1>1, <1>10 DEF Tick
<1> QED
  BY <1>1, <1>2, <1>3, <1>4, <1>5, <1>6, <1>7, <1>8, <1>9, <1>10
     DEF ExamsNext, ExamsStep

LEMMA QuestionsRequests ==
  ASSUME TypeOK, RequestsDiffer, QuestionsNext
  PROVE  RequestsDiffer'
<1>1. ASSUME NEW s \in Slots, NEW e \in DOMAIN exams, NEW items \in QuestionInputs,
             SnapshotQuestions(s, e, items)
      PROVE  RequestsDiffer'
  <2> DEFINE target == [i \in DOMAIN items |-> targetId(e, items[i])]
             c == [op |-> "bulkQuestions", examId |-> e, items |-> items,
                   target |-> target]
  <2>1. calls' = [calls EXCEPT ![s] = c]
    BY <1>1 DEF SnapshotQuestions, Start
  <2>2. \A i, j \in DOMAIN items : items[i].numero = items[j].numero => i = j
    BY <1>1 DEF SnapshotQuestions
  <2>3. DOMAIN target = DOMAIN items
    OBVIOUS
  <2>4. c.op = "bulkQuestions" /\ c.items = items /\ c.target = target
    OBVIOUS
  <2>5. Differ(c)
    <3> HIDE DEF c, target
    <3> QED
      BY <2>2, <2>3, <2>4 DEF Differ, ItemsDiffer, CodesDiffer
  <2> HIDE DEF c
  <2> QED
    BY <2>1, <2>5, OneRequestChanges
<1>2. ASSUME NEW s \in Slots, NEW e \in DOMAIN exams, NEW q \in QuestionsOf(e),
             FindQuestion(s, e, q)
      PROVE  RequestsDiffer'
  <2> DEFINE c == [op |-> "removeQuestion", examId |-> e, id |-> q]
  <2>1. calls' = [calls EXCEPT ![s] = c] /\ c.op = "removeQuestion"
    BY <1>2 DEF FindQuestion, Start
  <2> HIDE DEF c
  <2> QED
    BY <2>1, OtherRequest
<1>3. ASSUME NEW s \in Slots, QuestionsStep(s)
      PROVE  RequestsDiffer'
  BY <1>3, ClosedRequest
     DEF QuestionsStep, SaveQuestions, QuestionsRefused, RemoveQuestion
<1> QED
  BY <1>1, <1>2, <1>3 DEF QuestionsNext

LEMMA ParticipantsRequests ==
  ASSUME TypeOK, RequestsDiffer, ParticipantsNext
  PROVE  RequestsDiffer'
<1>1. ASSUME NEW s \in Slots, NEW e \in DOMAIN exams, NEW dtos \in ParticipantInputs,
             AllocateCodes(s, e, dtos)
      PROVE  RequestsDiffer'
  <2>1. PICK codes \in [DOMAIN dtos -> Codes \ CodesOf(e)] :
          /\ IsInjective(codes)
          /\ Start(s, [op |-> "enrol", examId |-> e, dtos |-> dtos, codes |-> codes])
    BY <1>1 DEF AllocateCodes
  <2> DEFINE c == [op |-> "enrol", examId |-> e, dtos |-> dtos, codes |-> codes]
  <2>2. calls' = [calls EXCEPT ![s] = c] /\ c.op = "enrol" /\ c.codes = codes
    BY <2>1 DEF Start
  <2> HIDE DEF c
  <2>3. Differ(c)
    BY <2>1, <2>2 DEF Differ, ItemsDiffer, CodesDiffer
  <2> QED
    BY <2>2, <2>3, OneRequestChanges
<1>2. ASSUME NEW s \in Slots, NEW e \in DOMAIN exams, NEW call \in EditInputsOf(e),
             AssertOwned(s, call)
      PROVE  RequestsDiffer'
  <2>1. call.op \in {"presenca", "redacao", "removeParticipant"}
    BY DEF EditInputsOf
  <2> QED
    BY <1>2, <2>1, OtherRequest DEF AssertOwned, Start
<1>3. ASSUME NEW s \in Slots, ParticipantsStep(s)
      PROVE  RequestsDiffer'
  BY <1>3, ClosedRequest
     DEF ParticipantsStep, InsertParticipants, EnrolRefused, UpdatePresenca,
         UpdateRedacao, RemoveParticipant, ParticipantGone
<1> QED
  BY <1>1, <1>2, <1>3 DEF ParticipantsNext

LEMMA AnswersRequests ==
  ASSUME TypeOK, RequestsDiffer, AnswersNext
  PROVE  RequestsDiffer'
<1>1. ASSUME NEW s \in Slots, NEW e \in DOMAIN exams, NEW items \in AnswerInputs,
             OpenBulkAnswers(s, e, items)
      PROVE  RequestsDiffer'
  <2> DEFINE c == [op |-> "bulkAnswers", examId |-> e, items |-> items,
                   unread |-> Reads]
  <2>1. calls' = [calls EXCEPT ![s] = c] /\ c.op = "bulkAnswers"
    BY <1>1 DEF OpenBulkAnswers, Start
  <2> HIDE DEF c
  <2> QED
    BY <2>1, OtherRequest
<1>2. ASSUME NEW s \in Slots, NEW table \in Reads, ReadOwners(s, table)
      PROVE  RequestsDiffer'
  <2> DEFINE left == calls[s].unread \ {table}
             c == [calls[s] EXCEPT !.unread = left]
  <2>1. calls' = [calls EXCEPT ![s] = c]
    BY <1>2 DEF ReadOwners
  <2>2. calls[s] \in BulkAnswersCall
    BY <1>2, CallShape, Typing DEF ReadOwners, Serving
  <2>3. c.op = "bulkAnswers"
    BY <2>2 DEF BulkAnswersCall
  <2> HIDE DEF c
  <2> QED
    BY <2>1, <2>3, OtherRequest
<1>3. ASSUME NEW s \in Slots, SaveAnswers(s) \/ AnswersRefused(s)
      PROVE  RequestsDiffer'
  BY <1>3, ClosedRequest DEF SaveAnswers, AnswersRefused
<1>4. ASSUME NEW a \in DOMAIN answers, NEW alternativa \in EditInputs,
             UpdateAnswer(a, alternativa)
      PROVE  RequestsDiffer'
  BY <1>4, NoRequestChanges DEF UpdateAnswer
<1> QED
  BY <1>1, <1>2, <1>3, <1>4 DEF AnswersNext, AnswersStep

LEMMA RequestsNext ==
  ASSUME TypeOK, RequestsDiffer, [Next]_vars
  PROVE  RequestsDiffer'
<1>1. CASE AplicadoresNext
  <2>1. UNCHANGED calls
    BY <1>1 DEF AplicadoresNext, CreateAplicador, UpdateAplicadorStatus,
                RemoveAplicador
  <2> QED
    BY <2>1, NoRequestChanges
<1>2. ASSUME NEW s \in Slots, Crash(s)
      PROVE  RequestsDiffer'
  BY <1>2, ClosedRequest DEF Crash
<1>3. CASE UNCHANGED vars
  BY <1>3, NoRequestChanges DEF vars
<1> QED
  BY <1>1, <1>2, <1>3, ExamsRequests, QuestionsRequests, ParticipantsRequests,
     AnswersRequests DEF Next

-----------------------------------------------------------------------------
(* The three keys, one by one.                                             *)

NumerosUnique ==
  \A x, y \in DOMAIN questions :
    /\ questions[x].examId = questions[y].examId
    /\ questions[x].numero = questions[y].numero
    => x = y

CodesUnique ==
  \A x, y \in DOMAIN participants :
    /\ participants[x].examId = participants[y].examId
    /\ participants[x].consultaCode = participants[y].consultaCode
    => x = y

PairsUnique ==
  \A x, y \in DOMAIN answers : Pair(answers[x]) = Pair(answers[y]) => x = y

LEMMA UniqueKeysParts ==
  /\ UniqueKeys <=> NumerosUnique /\ CodesUnique /\ PairsUnique
  /\ UniqueKeys' <=> NumerosUnique' /\ CodesUnique' /\ PairsUnique'
  BY DEF UniqueKeys, NumerosUnique, CodesUnique, PairsUnique

\* A row of a table with rows appended is an old one, or one of those.
LEMMA InsertedRow ==
  ASSUME NEW t, NEW R, NEW n \in Nat, NEW rows, NEW k \in Nat, Len(rows) = k,
         IsTable(t, R, n), NEW i \in DOMAIN WithRows(t, n, rows)
  PROVE  \/ i \in DOMAIN t /\ WithRows(t, n, rows)[i] = t[i]
         \/ /\ i \notin DOMAIN t /\ i \in Int /\ i - n \in 1..k
            /\ WithRows(t, n, rows)[i] = rows[i - n]
<1>1. CASE i \in DOMAIN t
  BY <1>1 DEF WithRows
<1>2. CASE i \notin DOMAIN t
  <2>1. i \in (n + 1)..(n + k)
    BY <1>2 DEF WithRows
  <2>2. i \in Int /\ i - n \in 1..k
    BY <2>1
  <2> QED
    BY <1>2, <2>2 DEF WithRows
<1> QED
  BY <1>1, <1>2

\* Rows that were there before with the same key stay unique.
LEMMA NumerosKept ==
  ASSUME NumerosUnique,
         \A q \in DOMAIN questions' :
           /\ q \in DOMAIN questions
           /\ questions'[q].examId = questions[q].examId
           /\ questions'[q].numero = questions[q].numero
  PROVE  NumerosUnique'
  BY DEF NumerosUnique

LEMMA CodesKept ==
  ASSUME CodesUnique,
         \A p \in DOMAIN participants' :
           /\ p \in DOMAIN participants
           /\ participants'[p].examId = participants[p].examId
           /\ participants'[p].consultaCode = participants[p].consultaCode
  PROVE  CodesUnique'
  BY DEF CodesUnique

\* The placeholders of a new exam are numbered, and its id is new.
LEMMA PlaceholdersUnique ==
  ASSUME TypeOK, NoOrphans, NumerosUnique, NEW dto \in ExamInputs, CreateExam(dto)
  PROVE  NumerosUnique'
<1> DEFINE e == serial.exam + 1
           k == dto.qtdQuestoes
           rows == [n \in 1..k |->
                      [examId |-> e, numero |-> n, peso |-> 1, correctAnswer |-> ""]]
           last == serial.question
<1>1. k \in Nat /\ last \in Nat /\ serial.exam \in Nat
  BY ExamsAssumption, Typing DEF Ids
<1>2. Len(rows) = k
  BY <1>1
<1>3. questions' = WithRows(questions, last, rows)
  BY DEF CreateExam
<1>4. \A n \in 1..k : rows[n].examId = e /\ rows[n].numero = n
  OBVIOUS
<1>5. \A q \in DOMAIN questions : questions[q].examId # e
  <2>1. e \notin DOMAIN exams
    BY <1>1, Typing DEF IsTable
  <2> HIDE DEF e
  <2> QED
    BY <2>1 DEF NoOrphans
<1>6. IsTable(questions, Question, last)
  BY Typing
<1> HIDE DEF rows, e, k, last
<1>7. ASSUME NEW q \in DOMAIN questions'
      PROVE  \/ q \in DOMAIN questions /\ questions'[q] = questions[q]
             \/ /\ q \in Int /\ q - last \in 1..k
                /\ questions'[q].examId = e /\ questions'[q].numero = q - last
  <2>1. \/ q \in DOMAIN questions /\ questions'[q] = questions[q]
        \/ q \in Int /\ q - last \in 1..k /\ questions'[q] = rows[q - last]
    BY <1>1, <1>2, <1>3, <1>6, InsertedRow
  <2> QED
    BY <1>4, <2>1
<1>8. ASSUME NEW x \in DOMAIN questions', NEW y \in DOMAIN questions',
             questions'[x].examId = questions'[y].examId,
             questions'[x].numero = questions'[y].numero
      PROVE  x = y
  <2>1. CASE x \in DOMAIN questions /\ questions'[x] = questions[x]
    <3>1. y \in DOMAIN questions /\ questions'[y] = questions[y]
      BY <1>5, <1>7, <1>8, <2>1
    <3> QED
      BY <1>8, <2>1, <3>1 DEF NumerosUnique
  <2>2. CASE /\ x \in Int /\ x - last \in 1..k
             /\ questions'[x].examId = e /\ questions'[x].numero = x - last
    <3>1. y \in Int /\ questions'[y].numero = y - last
      BY <1>5, <1>7, <1>8, <2>2
    <3> QED
      <4>1. x - last = y - last
        BY <1>8, <2>2, <3>1
      <4>2. last \in Int /\ x \in Int /\ y \in Int
        BY <1>1, <2>2, <3>1
      <4> QED
        BY <4>1, <4>2
  <2> QED
    BY <1>7, <2>1, <2>2
<1> QED
  BY <1>8 DEF NumerosUnique

\* A bulk of questions leaves a row as it was, or writes an item to it: one
\* that targets the row, or one created with the row's id.
LEMMA SavedQuestionRow ==
  ASSUME TypeOK, NEW s \in Slots, SaveQuestions(s), NEW q \in DOMAIN questions'
  PROVE  LET c == calls[s] IN
         \/ /\ q \in DOMAIN questions /\ questions'[q] = questions[q]
            /\ \A i \in DOMAIN c.items : c.target[i] # q
         \/ \E i \in DOMAIN c.items :
              /\ \/ /\ q \in DOMAIN questions /\ c.target[i] = q
                    /\ questions'[q] = QuestionRow(questions[q].examId, c.items[i])
                 \/ /\ q \notin DOMAIN questions /\ c.target[i] = NoId
                    /\ q = newQuestionId(c, i)
                    /\ questions'[q] = QuestionRow(c.examId, c.items[i])
<1> DEFINE c == calls[s]
           new == {newQuestionId(c, i) : i \in CreatedItems(c)}
           on == {i \in DOMAIN c.items : c.target[i] = q}
           last == CHOOSE i \in on : \A j \in on : j <= i
           created == CHOOSE i \in CreatedItems(c) : q = newQuestionId(c, i)
<1>1. /\ c \in BulkQuestionsCall
      /\ questions' = [x \in DOMAIN questions \cup new |-> SavedQuestion(c, x)]
  BY CallShape, Typing DEF SaveQuestions, Serving
<1>2. q \in DOMAIN questions \cup new /\ questions'[q] = SavedQuestion(c, q)
  <2> HIDE DEF new
  <2> QED
    BY <1>1
<1>3. Len(c.items) \in Nat /\ DOMAIN c.items = 1..Len(c.items)
  BY <1>1 DEF BulkQuestionsCall
<1>4. CASE q \notin DOMAIN questions
  <2>1. \E i \in CreatedItems(c) : q = newQuestionId(c, i)
    BY <1>2, <1>4
  <2>2. created \in CreatedItems(c) /\ q = newQuestionId(c, created)
    BY <2>1
  <2>3. created \in DOMAIN c.items /\ c.target[created] = NoId
    BY <2>2 DEF CreatedItems
  <2>4. SavedQuestion(c, q) = QuestionRow(c.examId, c.items[created])
    BY <1>4 DEF SavedQuestion
  <2> HIDE DEF created
  <2> QED
    BY <1>2, <1>4, <2>2, <2>3, <2>4
<1>5. CASE q \in DOMAIN questions /\ on = {}
  <2>1. SavedQuestion(c, q) = questions[q]
    BY <1>5 DEF SavedQuestion
  <2> QED
    BY <1>2, <1>5, <2>1
<1>6. CASE q \in DOMAIN questions /\ on # {}
  <2>1. on \in SUBSET (1..Len(c.items))
    BY <1>3
  <2>2. \E i \in on : \A j \in on : j <= i
    <3> HIDE DEF on
    <3> QED
      BY <1>3, <1>6, <2>1, LastIndex
  <2>3. last \in on
    BY <2>2
  <2>4. SavedQuestion(c, q) = QuestionRow(questions[q].examId, c.items[last])
    BY <1>6 DEF SavedQuestion
  <2>5. last \in DOMAIN c.items /\ c.target[last] = q
    BY <2>3
  <2> HIDE DEF last, on
  <2> QED
    BY <1>2, <1>6, <2>4, <2>5
<1> QED
  BY <1>4, <1>5, <1>6

\* The rows a bulk of questions writes are of its exam and carry numeros of
\* the request, which no row left alone in the exam has.
LEMMA SavedNumerosUnique ==
  ASSUME TypeOK, CallsOwnRows, RequestsDiffer, NumerosUnique,
         NEW s \in Slots, SaveQuestions(s)
  PROVE  NumerosUnique'
<1> DEFINE c == calls[s]
           Left(q) == /\ q \in DOMAIN questions /\ questions'[q] = questions[q]
                      /\ \A i \in DOMAIN c.items : c.target[i] # q
           By(q, i) == /\ questions'[q].examId = c.examId
                       /\ questions'[q].numero = c.items[i].numero
                       /\ \/ c.target[i] = q /\ q # NoId
                          \/ c.target[i] = NoId /\ q = newQuestionId(c, i)
<1>1. /\ c.op = "bulkQuestions" /\ c \in BulkQuestionsCall
      /\ QuestionsFit(c)
  BY CallShape, Typing DEF SaveQuestions, Serving
<1>2. /\ DOMAIN c.target = DOMAIN c.items
      /\ \A i, j \in DOMAIN c.items : c.items[i].numero = c.items[j].numero => i = j
  BY <1>1 DEF RequestsDiffer, Differ, ItemsDiffer
<1>3. \A i \in DOMAIN c.items :
        c.target[i] \in DOMAIN questions /\ c.target[i] # NoId =>
          questions[c.target[i]].examId = c.examId
  BY <1>1, <1>2 DEF CallsOwnRows, BulkQuestionsOwn, QuestionStays
<1>4. NoId \notin DOMAIN questions
  BY TablesOKFacts DEF TypeOK, Ids, NoId
<1>5. \A e, item : /\ QuestionRow(e, item).examId = e
                   /\ QuestionRow(e, item).numero = item.numero
  BY DEF QuestionRow
<1>6. ASSUME NEW q \in DOMAIN questions'
      PROVE  Left(q) \/ \E i \in DOMAIN c.items : By(q, i)
  BY <1>3, <1>4, <1>5, SavedQuestionRow
<1>7. /\ Len(c.items) \in Nat /\ DOMAIN c.items = 1..Len(c.items)
  BY <1>1 DEF BulkQuestionsCall
<1>8. ASSUME NEW x, Left(x), NEW i \in DOMAIN c.items,
             questions'[x].examId = c.examId,
             questions'[x].numero = c.items[i].numero
      PROVE  FALSE
  <2>1. x \in QuestionsOf(c.examId) /\ questions[x].numero = c.items[i].numero
    BY <1>8 DEF QuestionsOf
  <2>2. x # c.target[i] /\ \A j \in 1..(i - 1) : c.target[j] # x
    BY <1>7, <1>8
  <2>3. NumeroTaken(c, i)
    BY <2>1, <2>2 DEF NumeroTaken
  <2> QED
    BY <1>1, <2>3 DEF QuestionsFit
<1>9. ASSUME NEW x \in DOMAIN questions', NEW y \in DOMAIN questions',
             questions'[x].examId = questions'[y].examId,
             questions'[x].numero = questions'[y].numero
      PROVE  x = y
  <2>1. CASE Left(x) /\ Left(y)
    BY <1>9, <2>1 DEF NumerosUnique
  <2>2. ASSUME Left(x), NEW i \in DOMAIN c.items, By(y, i)
        PROVE  FALSE
    BY <1>8, <1>9, <2>2
  <2>3. ASSUME Left(y), NEW i \in DOMAIN c.items, By(x, i)
        PROVE  FALSE
    BY <1>8, <1>9, <2>3
  <2>4. ASSUME NEW i \in DOMAIN c.items, By(x, i), NEW j \in DOMAIN c.items, By(y, j)
        PROVE  x = y
    <3>1. i = j
      BY <1>2, <1>9, <2>4
    <3> QED
      BY <2>4, <3>1
  <2> HIDE DEF Left, By
  <2> QED
    BY <1>6, <2>1, <2>2, <2>3, <2>4
<1> QED
  BY <1>9 DEF NumerosUnique

LEMMA NumerosNext ==
  ASSUME TypeOK, NoOrphans, CallsOwnRows, RequestsDiffer, NumerosUnique, [Next]_vars
  PROVE  NumerosUnique'
<1>1. ASSUME UNCHANGED questions
      PROVE  NumerosUnique'
  BY <1>1 DEF NumerosUnique
<1>2. ASSUME NEW gone, questions' = Without(questions, gone)
      PROVE  NumerosUnique'
  BY <1>2, NumerosKept DEF Without, Restrict
<1>3. CASE ExamsNext
  <2>1. \/ UNCHANGED questions
        \/ \E dto \in ExamInputs : CreateExam(dto)
        \/ \E e \in DOMAIN exams : RemoveExam(e)
    BY <1>3 DEF ExamsNext, ExamsStep, UpdateExam, ReadStatus, WriteStatus,
                ExportRanking, SendMail, ExamGone, Tick, tables
  <2>2. ASSUME NEW e \in DOMAIN exams, RemoveExam(e)
        PROVE  NumerosUnique'
    BY <1>2, <2>2 DEF RemoveExam, DeleteExam
  <2> QED
    BY <1>1, <2>1, <2>2, PlaceholdersUnique
<1>4. CASE QuestionsNext
  <2>1. \/ UNCHANGED questions
        \/ \E s \in Slots : SaveQuestions(s) \/ RemoveQuestion(s)
    BY <1>4 DEF QuestionsNext, QuestionsStep, SnapshotQuestions, QuestionsRefused,
                FindQuestion, tables
  <2>2. ASSUME NEW s \in Slots, RemoveQuestion(s)
        PROVE  NumerosUnique'
    BY <1>2, <2>2 DEF RemoveQuestion
  <2> QED
    BY <1>1, <2>1, <2>2, SavedNumerosUnique
<1>5. CASE ParticipantsNext
  BY <1>1, <1>5 DEF ParticipantsNext, ParticipantsStep, AllocateCodes, AssertOwned,
     InsertParticipants, EnrolRefused, UpdatePresenca, UpdateRedacao,
     RemoveParticipant, ParticipantGone, tables
<1>6. CASE AnswersNext
  BY <1>1, <1>6 DEF AnswersNext, AnswersStep, OpenBulkAnswers, ReadOwners,
     SaveAnswers, AnswersRefused, UpdateAnswer, tables
<1>7. CASE AplicadoresNext
  BY <1>1, <1>7 DEF AplicadoresNext, CreateAplicador, UpdateAplicadorStatus,
     RemoveAplicador
<1>8. ASSUME NEW s \in Slots, Crash(s)
      PROVE  NumerosUnique'
  BY <1>1, <1>8 DEF Crash, tables
<1>9. CASE UNCHANGED vars
  BY <1>1, <1>9 DEF vars, tables
<1> QED
  BY <1>3, <1>4, <1>5, <1>6, <1>7, <1>8, <1>9 DEF Next

\* An enrolment leaves the participants there were, and adds one for each
\* code to its exam.
LEMMA EnrolledParticipant ==
  ASSUME TypeOK, NEW s \in Slots, InsertParticipants(s), NEW p \in DOMAIN participants'
  PROVE  LET c == calls[s] IN
         \/ p \in DOMAIN participants /\ participants'[p] = participants[p]
         \/ \E i \in 1..Len(c.dtos) :
              /\ p \notin DOMAIN participants /\ p = serial.participant + i
              /\ participants'[p].examId = c.examId
              /\ participants'[p].consultaCode = c.codes[i]
<1> DEFINE c == calls[s]
           k == Len(c.dtos)
           rows == [i \in 1..k |-> EnrolledRow(c, i)]
           last == serial.participant
<1>1. c.dtos \in Seq(ParticipantDto)
  BY CallShape, Typing DEF InsertParticipants, Serving, EnrolCall
<1>2. k \in Nat /\ last \in Nat
  BY <1>1, Typing
<1>3. Len(rows) = k
  BY <1>2
<1>4. participants' = WithRows(participants, last, rows)
  BY DEF InsertParticipants
<1>5. \A i \in 1..k : /\ rows[i].examId = c.examId
                      /\ rows[i].consultaCode = c.codes[i]
  BY DEF EnrolledRow
<1>6. IsTable(participants, Participant, last)
  BY Typing
<1> HIDE DEF rows, k, last
<1>7. \/ p \in DOMAIN participants /\ participants'[p] = participants[p]
      \/ /\ p \notin DOMAIN participants /\ p \in Int /\ p - last \in 1..k
         /\ participants'[p] = rows[p - last]
  BY <1>2, <1>3, <1>4, <1>6, InsertedRow
<1>8. ASSUME p \notin DOMAIN participants, p \in Int, p - last \in 1..k,
             participants'[p] = rows[p - last]
      PROVE  \E i \in 1..k : /\ p = last + i
                             /\ participants'[p].examId = c.examId
                             /\ participants'[p].consultaCode = c.codes[i]
  <2>1. PICK i \in 1..k : i = p - last
    BY <1>8
  <2>2. p = last + i
    BY <1>2, <1>8, <2>1
  <2> QED
    BY <1>5, <1>8, <2>1, <2>2
<1> QED
  BY <1>7, <1>8 DEF k, last

\* The codes of an enrolment differ from each other, and the index found
\* none of them in the exam.
LEMMA EnrolledCodesUnique ==
  ASSUME TypeOK, RequestsDiffer, CodesUnique, NEW s \in Slots, InsertParticipants(s)
  PROVE  CodesUnique'
<1> DEFINE c == calls[s]
           k == Len(c.dtos)
           By(p, i) == /\ p = serial.participant + i
                       /\ participants'[p].examId = c.examId
                       /\ participants'[p].consultaCode = c.codes[i]
<1>1. /\ c.op = "enrol" /\ c.dtos \in Seq(ParticipantDto) /\ c.codes \in Seq(Codes)
      /\ Len(c.codes) = Len(c.dtos) /\ EnrolFits(c)
  BY CallShape, Typing DEF InsertParticipants, Serving, EnrolCall
<1>2. k \in Nat /\ DOMAIN c.codes = 1..k
  BY <1>1, Typing
<1>3. \A i, j \in 1..k : c.codes[i] = c.codes[j] => i = j
  BY <1>1, <1>2 DEF RequestsDiffer, Differ, CodesDiffer, IsInjective
<1>4. \A i \in 1..k, p \in DOMAIN participants :
        participants[p].examId = c.examId =>
          participants[p].consultaCode # c.codes[i]
  BY <1>1, <1>2 DEF EnrolFits, CodesOf, ParticipantsOf
<1>5. ASSUME NEW p \in DOMAIN participants'
      PROVE  \/ p \in DOMAIN participants /\ participants'[p] = participants[p]
             \/ \E i \in 1..k : By(p, i)
  BY EnrolledParticipant
<1> HIDE DEF k
<1>6. ASSUME NEW x \in DOMAIN participants', NEW y \in DOMAIN participants',
             participants'[x].examId = participants'[y].examId,
             participants'[x].consultaCode = participants'[y].consultaCode
      PROVE  x = y
  BY <1>3, <1>4, <1>5, <1>6 DEF CodesUnique
<1> QED
  BY <1>6 DEF CodesUnique

\* A participant belongs to one exam and one code from the statement that
\* enrols it on.
CodesKeep ==
  \A p \in DOMAIN participants' :
    /\ p \in DOMAIN participants
    /\ participants'[p].examId = participants[p].examId
    /\ participants'[p].consultaCode = participants[p].consultaCode

LEMMA CodesKeepOrEnrol ==
  ASSUME TypeOK, [Next]_vars
  PROVE  CodesKeep \/ \E s \in Slots : InsertParticipants(s)
<1>1. ASSUME UNCHANGED participants
      PROVE  CodesKeep
  BY <1>1 DEF CodesKeep
<1>2. IsTable(participants, Participant, serial.participant) /\ serial.participant \in Nat
  BY Typing
<1>3. CASE ExamsNext
  <2>1. UNCHANGED participants \/ \E e \in DOMAIN exams : RemoveExam(e)
    BY <1>3 DEF ExamsNext, ExamsStep, CreateExam, UpdateExam, ReadStatus,
                WriteStatus, ExportRanking, SendMail, ExamGone, Tick, tables
  <2>2. ASSUME NEW e \in DOMAIN exams, RemoveExam(e)
        PROVE  CodesKeep
    <3> DEFINE left == Without(participants, ParticipantsOf(e))
    <3>1. participants' = AplicadorCleared(left, AplicadoresOf(e))
      BY <2>2 DEF RemoveExam, DeleteExam
    <3>2. /\ IsTable(left, Participant, serial.participant)
          /\ DOMAIN left = DOMAIN participants \ ParticipantsOf(e)
          /\ \A p \in DOMAIN left : left[p] = participants[p]
      <4>1. IsTable(left, Participant, serial.participant)
        BY <1>2, RemovedRows
      <4> QED
        BY <4>1 DEF Without, Restrict
    <3> HIDE DEF left
    <3> QED
      BY <1>2, <3>1, <3>2, ClearedParticipants DEF CodesKeep
  <2> QED
    BY <1>1, <2>1, <2>2
<1>4. CASE ParticipantsNext
  <2>1. \/ UNCHANGED participants
        \/ \E s \in Slots : \/ InsertParticipants(s) \/ RemoveParticipant(s)
                            \/ UpdatePresenca(s) \/ UpdateRedacao(s)
    BY <1>4 DEF ParticipantsNext, ParticipantsStep, AllocateCodes, AssertOwned,
                EnrolRefused, ParticipantGone, tables
  <2>2. ASSUME NEW s \in Slots, RemoveParticipant(s)
        PROVE  CodesKeep
    BY <2>2 DEF RemoveParticipant, Without, Restrict, CodesKeep
  <2>3. ASSUME NEW s \in Slots, UpdatePresenca(s) \/ UpdateRedacao(s)
        PROVE  CodesKeep
    BY <1>2, <2>3 DEF UpdatePresenca, UpdateRedacao, Participant, IsTable, CodesKeep
  <2> QED
    BY <1>1, <2>1, <2>2, <2>3
<1>5. CASE QuestionsNext
  BY <1>1, <1>5 DEF QuestionsNext, QuestionsStep, SnapshotQuestions, SaveQuestions,
     QuestionsRefused, FindQuestion, RemoveQuestion, tables
<1>6. CASE AnswersNext
  BY <1>1, <1>6 DEF AnswersNext, AnswersStep, OpenBulkAnswers, ReadOwners,
     SaveAnswers, AnswersRefused, UpdateAnswer, tables
<1>7. CASE AplicadoresNext
  <2>1. \/ UNCHANGED participants
        \/ \E a \in DOMAIN aplicadores : RemoveAplicador(a)
    BY <1>7 DEF AplicadoresNext, CreateAplicador, UpdateAplicadorStatus
  <2>2. ASSUME NEW a \in DOMAIN aplicadores, RemoveAplicador(a)
        PROVE  CodesKeep
    <3>1. participants' = AplicadorCleared(participants, {a})
      BY <2>2 DEF RemoveAplicador
    <3> QED
      BY <1>2, <3>1, ClearedParticipants DEF CodesKeep
  <2> QED
    BY <1>1, <2>1, <2>2
<1>8. ASSUME NEW s \in Slots, Crash(s)
      PROVE  CodesKeep
  BY <1>1, <1>8 DEF Crash, tables
<1>9. CASE UNCHANGED vars
  BY <1>1, <1>9 DEF vars, tables
<1> QED
  BY <1>3, <1>4, <1>5, <1>6, <1>7, <1>8, <1>9 DEF Next

LEMMA CodesNext ==
  ASSUME TypeOK, RequestsDiffer, CodesUnique, [Next]_vars
  PROVE  CodesUnique'
  BY CodesKeepOrEnrol, CodesKept, EnrolledCodesUnique DEF CodesKeep

-----------------------------------------------------------------------------
(* Answers.                                                                *)

\* What a bulk of answers leaves in a row: the row it found, or the one it
\* inserts for an item whose pair was not there and not met before.
LEMMA SavedAnswerRow ==
  ASSUME TypeOK, NEW s \in Slots, SaveAnswers(s), NEW a \in DOMAIN answers'
  PROVE  LET c == calls[s] IN
         \/ a \in DOMAIN answers /\ Pair(answers'[a]) = Pair(answers[a])
         \/ \E i \in InsertedItems(c) :
              /\ a \notin DOMAIN answers /\ a = serial.answer + i
              /\ Pair(answers'[a]) = Pair(c.items[i])
<1> DEFINE c == calls[s]
           new == {serial.answer + i : i \in InsertedItems(c)}
           row == c.items[a - serial.answer]
           on == {i \in DOMAIN c.items : Pair(c.items[i]) = Pair(row)}
           last == CHOOSE i \in on : \A j \in on : j <= i
<1>1. /\ c \in BulkAnswersCall
      /\ answers' = [x \in DOMAIN answers \cup new |-> UpsertedAnswer(c, x)]
  BY CallShape, Typing DEF SaveAnswers, Serving
<1>2. a \in DOMAIN answers \cup new /\ answers'[a] = UpsertedAnswer(c, a)
  <2> HIDE DEF new
  <2> QED
    BY <1>1
<1>3. /\ c.items \in Seq(AnswerItem) /\ Len(c.items) \in Nat
      /\ DOMAIN c.items = 1..Len(c.items) /\ serial.answer \in Nat
  BY <1>1, Typing DEF BulkAnswersCall
<1>4. CASE a \in DOMAIN answers
  BY <1>1, <1>2, <1>4, UpsertedAnswerType DEF TypeOK
<1>5. CASE a \notin DOMAIN answers
  <2>1. PICK i \in InsertedItems(c) : a = serial.answer + i
    BY <1>2, <1>5
  <2>2. i \in DOMAIN c.items /\ i \in Nat
    BY <1>3, <2>1 DEF InsertedItems
  <2>3. a - serial.answer = i
    BY <1>3, <2>1, <2>2
  <2>4. row = c.items[i] /\ row \in AnswerItem
    BY <1>3, <2>2, <2>3
  <2>5. UpsertedAnswer(c, a) =
          IF on = {} THEN row
                     ELSE [row EXCEPT !.alternativa = c.items[last].alternativa]
    BY <1>5 DEF UpsertedAnswer
  <2>6. Pair(answers'[a]) = Pair(row)
    <3> HIDE DEF on, last, row
    <3> QED
      BY <1>2, <2>4, <2>5 DEF AnswerItem, Pair
  <2> QED
    BY <1>5, <2>1, <2>4, <2>6
<1> QED
  BY <1>4, <1>5

\* No two rows a bulk of answers leaves have one pair, unless they had
\* before.
LEMMA SavedPairsUnique ==
  ASSUME TypeOK, PairsUnique, NEW s \in Slots, SaveAnswers(s)
  PROVE  PairsUnique'
<1> DEFINE c == calls[s]
<1>1. c \in BulkAnswersCall
  BY CallShape, Typing DEF SaveAnswers, Serving
<1>2. Len(c.items) \in Nat /\ DOMAIN c.items = 1..Len(c.items)
  BY <1>1 DEF BulkAnswersCall
<1>3. \A i \in InsertedItems(c), x \in DOMAIN answers :
        Pair(answers[x]) # Pair(c.items[i])
  BY DEF InsertedItems, Stored
<1>4. \A i, j \in InsertedItems(c) : Pair(c.items[i]) = Pair(c.items[j]) => i = j
  <2> TAKE i, j \in InsertedItems(c)
  <2>1. i \in 1..Len(c.items) /\ j \in 1..Len(c.items)
    BY <1>2 DEF InsertedItems
  <2>2. i < j => Pair(c.items[i]) # Pair(c.items[j])
    BY <1>2, <2>1 DEF InsertedItems
  <2>3. j < i => Pair(c.items[i]) # Pair(c.items[j])
    BY <1>2, <2>1 DEF InsertedItems
  <2> QED
    BY <1>2, <2>1, <2>2, <2>3
<1>5. ASSUME NEW x \in DOMAIN answers', NEW y \in DOMAIN answers',
             Pair(answers'[x]) = Pair(answers'[y])
      PROVE  x = y
  <2> DEFINE Kept(a) == a \in DOMAIN answers /\ Pair(answers'[a]) = Pair(answers[a])
             By(a, i) == a = serial.answer + i /\ Pair(answers'[a]) = Pair(c.items[i])
  <2>1. Kept(x) \/ \E i \in InsertedItems(c) : By(x, i)
    BY <1>5, SavedAnswerRow
  <2>2. Kept(y) \/ \E i \in InsertedItems(c) : By(y, i)
    BY <1>5, SavedAnswerRow
  <2>3. CASE Kept(x) /\ Kept(y)
    BY <1>5, <2>3 DEF PairsUnique
  <2>4. ASSUME NEW i \in InsertedItems(c), By(x, i) \/ By(y, i),
               Kept(x) \/ Kept(y)
        PROVE  FALSE
    BY <1>3, <1>4, <1>5, <2>4
  <2>5. ASSUME NEW i \in InsertedItems(c), By(x, i),
               NEW j \in InsertedItems(c), By(y, j)
        PROVE  x = y
    BY <1>4, <1>5, <2>5
  <2> QED
    BY <2>1, <2>2, <2>3, <2>4, <2>5
<1> QED
  BY <1>5 DEF PairsUnique

LEMMA PairsUniqueNext ==
  ASSUME TypeOK, PairsUnique, [Next]_vars
  PROVE  PairsUnique'
<1>1. CASE \E s \in Slots : SaveAnswers(s)
  BY <1>1, SavedPairsUnique
<1>2. CASE ~ \E s \in Slots : SaveAnswers(s)
  <2>1. \A a \in DOMAIN answers' :
          a \in DOMAIN answers /\ Pair(answers'[a]) = Pair(answers[a])
    BY <1>2, PairsNext
  <2> QED
    BY <2>1 DEF PairsUnique
<1> QED
  BY <1>1, <1>2

-----------------------------------------------------------------------------
(* The theorem.                                                            *)

LEMMA InitKeys == Init => KeysInv
<1> SUFFICES ASSUME Init PROVE KeysInv
  OBVIOUS
<1>1. DOMAIN questions = {} /\ DOMAIN participants = {} /\ DOMAIN answers = {}
  BY DEF Init, InitTables, Empty
<1>2. UniqueKeys
  BY <1>1 DEF UniqueKeys
<1>3. \A s \in Slots : calls[s] = Idle
  BY DEF Init
<1>4. RequestsDiffer
  BY <1>3 DEF RequestsDiffer, Differ, ItemsDiffer, CodesDiffer, Idle
<1> QED
  BY <1>2, <1>4 DEF KeysInv

LEMMA NextKeys ==
  TypeOK /\ NoOrphans /\ CallsOwnRows /\ KeysInv /\ [Next]_vars => KeysInv'
<1> SUFFICES ASSUME TypeOK, NoOrphans, CallsOwnRows, KeysInv, [Next]_vars
             PROVE  KeysInv'
  OBVIOUS
<1>1. RequestsDiffer /\ NumerosUnique /\ CodesUnique /\ PairsUnique
  BY UniqueKeysParts DEF KeysInv
<1>2. RequestsDiffer'
  BY <1>1, RequestsNext
<1>3. NumerosUnique'
  BY <1>1, NumerosNext
<1>4. CodesUnique'
  BY <1>1, CodesNext
<1>5. PairsUnique'
  BY <1>1, PairsUniqueNext
<1> QED
  BY <1>2, <1>3, <1>4, <1>5, UniqueKeysParts DEF KeysInv

THEOREM KeysInvariance == Spec => []KeysInv
  BY InitKeys, NextKeys, Invariance, PTL DEF Spec, Inv

\* A numero per exam, a consulta code per exam, an answer per participant and
\* question: the three unique keys hold however many bulk requests overlap,
\* each resolved against a snapshot the others have made old.
THEOREM KeysStayUnique == Spec => []UniqueKeys
  BY KeysInvariance, PTL DEF KeysInv

-----------------------------------------------------------------------------
(* What a bulk of answers leaves behind.                                   *)

\* The step property of SavedAnswersStand, for one slot.
AnswersStand(s) ==
  SaveAnswers(s) =>
    LET items == calls[s].items IN
    /\ \A i \in DOMAIN items :
         (\A j \in DOMAIN items : j > i => Pair(items[j]) # Pair(items[i])) =>
           \E a \in DOMAIN answers' : answers'[a] = items[i]
    /\ \A a \in DOMAIN answers :
         /\ Pair(answers'[a]) = Pair(answers[a])
         /\ (\A i \in DOMAIN items : Pair(items[i]) # Pair(answers[a])) =>
              answers'[a] = answers[a]

\* A row with the pair of an item, the last of the request with that pair,
\* ends with the item in it.
LEMMA LastItemStays ==
  ASSUME TypeOK, NEW c \in BulkAnswersCall, NEW a, NEW row \in Answer,
         row = IF a \in DOMAIN answers THEN answers[a]
                                       ELSE c.items[a - serial.answer],
         NEW i \in DOMAIN c.items, Pair(c.items[i]) = Pair(row),
         \A j \in DOMAIN c.items : j > i => Pair(c.items[j]) # Pair(c.items[i])
  PROVE  UpsertedAnswer(c, a) = c.items[i]
<1> DEFINE on == {j \in DOMAIN c.items : Pair(c.items[j]) = Pair(row)}
           last == CHOOSE j \in on : \A k \in on : k <= j
<1>1. /\ c.items \in Seq(AnswerItem) /\ Len(c.items) \in Nat
      /\ DOMAIN c.items = 1..Len(c.items)
  BY DEF BulkAnswersCall
<1>2. i \in on /\ \A k \in on : k <= i
  BY <1>1
<1>3. on \subseteq Int
  BY <1>1
<1>4. last \in on /\ \A k \in on : k <= last
  <2>1. \E j \in on : \A k \in on : k <= j
    BY <1>2
  <2> HIDE DEF on
  <2> QED
    BY <2>1
<1>5. last = i
  <2> HIDE DEF last, on
  <2> QED
    BY <1>2, <1>3, <1>4
<1>6. UpsertedAnswer(c, a) = [row EXCEPT !.alternativa = c.items[last].alternativa]
  <2>1. on # {}
    BY <1>2
  <2> QED
    BY <2>1 DEF UpsertedAnswer
<1> HIDE DEF last, on
<1>7. c.items[i] \in Answer
  <2>1. c.items[i] \in AnswerItem
    BY <1>1
  <2> QED
    BY <2>1 DEF AnswerItem, Answer
<1>8. UpsertedAnswer(c, a) = [row EXCEPT !.alternativa = c.items[i].alternativa]
  BY <1>5, <1>6
<1>9. \A r, x \in Answer :
        Pair(r) = Pair(x) => [r EXCEPT !.alternativa = x.alternativa] = x
  <2> TAKE r, x \in Answer
  <2> HAVE Pair(r) = Pair(x)
  <2>1. r.userId = x.userId /\ r.questId = x.questId
    BY DEF Pair
  <2> QED
    BY <2>1 DEF Answer
<1> QED
  BY <1>7, <1>8, <1>9

LEMMA AnswersStandNext ==
  ASSUME TypeOK, NEW s \in Slots
  PROVE  AnswersStand(s)
<1> SUFFICES ASSUME SaveAnswers(s) PROVE AnswersStand(s)
  BY DEF AnswersStand
<1> DEFINE c == calls[s]
           new == {serial.answer + i : i \in InsertedItems(c)}
<1>1. /\ c \in BulkAnswersCall
      /\ answers' = [x \in DOMAIN answers \cup new |-> UpsertedAnswer(c, x)]
  BY CallShape, Typing DEF SaveAnswers, Serving
<1>2. /\ DOMAIN answers' = DOMAIN answers \cup new
      /\ \A a \in DOMAIN answers' : answers'[a] = UpsertedAnswer(c, a)
  <2> HIDE DEF new, c
  <2> QED
    BY <1>1
<1>3. /\ c.items \in Seq(AnswerItem) /\ Len(c.items) \in Nat
      /\ DOMAIN c.items = 1..Len(c.items) /\ serial.answer \in Nat
  BY <1>1, Typing DEF BulkAnswersCall
<1>4. \A i \in DOMAIN c.items : c.items[i] \in Answer
  <2>1. AnswerItem = Answer
    BY DEF AnswerItem, Answer
  <2> HIDE DEF AnswerItem, Answer
  <2> QED
    BY <1>3, <2>1
<1>5. ASSUME NEW i \in DOMAIN c.items,
             \A j \in DOMAIN c.items : j > i => Pair(c.items[j]) # Pair(c.items[i])
      PROVE  \E a \in DOMAIN answers' : answers'[a] = c.items[i]
  <2>1. CASE Stored(c.items[i])
    <3>1. PICK a \in DOMAIN answers : Pair(answers[a]) = Pair(c.items[i])
      BY <2>1 DEF Stored
    <3>2. answers[a] \in Answer
      BY TablesOKFacts DEF TypeOK
    <3>3. UpsertedAnswer(c, a) = c.items[i]
      BY <1>1, <1>5, <3>1, <3>2, LastItemStays
    <3> QED
      BY <1>2, <3>3
  <2>2. CASE ~Stored(c.items[i])
    <3> DEFINE on == {j \in DOMAIN c.items : Pair(c.items[j]) = Pair(c.items[i])}
    <3>1. PICK j \in on : \A k \in on : j <= k
      <4>1. on \in SUBSET (1..Len(c.items)) /\ on # {}
        BY <1>3
      <4> HIDE DEF on
      <4> QED
        BY <1>3, <4>1, FirstIndex
    <3>2. j \in 1..Len(c.items) /\ Pair(c.items[j]) = Pair(c.items[i])
      BY <1>3, <3>1
    <3>3. \A k \in 1..(j - 1) : Pair(c.items[k]) # Pair(c.items[j])
      BY <1>3, <3>1, <3>2
    <3>4. j \in InsertedItems(c)
      BY <1>3, <2>2, <3>2, <3>3 DEF InsertedItems, Stored
    <3> DEFINE a == serial.answer + j
    <3>5. a \in DOMAIN answers' /\ a \notin DOMAIN answers /\ a - serial.answer = j
      BY <1>2, <1>3, <3>2, <3>4, Typing DEF IsTable
    <3>6. c.items[j] \in Answer /\ i \in DOMAIN c.items
      BY <1>3, <1>4, <3>2
    <3>7. UpsertedAnswer(c, a) = c.items[i]
      <4>1. c.items[j] = IF a \in DOMAIN answers THEN answers[a]
                                                  ELSE c.items[a - serial.answer]
        BY <3>5
      <4> HIDE DEF c, a
      <4> QED
        BY <1>1, <1>5, <3>2, <3>6, <4>1, LastItemStays
    <3> HIDE DEF a
    <3> QED
      BY <1>2, <3>5, <3>7
  <2> QED
    BY <2>1, <2>2
<1>6. ASSUME NEW a \in DOMAIN answers
      PROVE  /\ Pair(answers'[a]) = Pair(answers[a])
             /\ (\A i \in DOMAIN c.items : Pair(c.items[i]) # Pair(answers[a])) =>
                  answers'[a] = answers[a]
  <2>1. a \in DOMAIN answers'
    BY <1>2
  <2>2. Pair(answers'[a]) = Pair(answers[a])
    BY <2>1, SavedAnswerRow
  <2>3. ASSUME \A i \in DOMAIN c.items : Pair(c.items[i]) # Pair(answers[a])
        PROVE  answers'[a] = answers[a]
    <3>1. UpsertedAnswer(c, a) = answers[a]
      BY <2>3 DEF UpsertedAnswer
    <3> QED
      BY <1>2, <2>1, <3>1
  <2> QED
    BY <2>2, <2>3
<1> QED
  BY <1>5, <1>6 DEF AnswersStand

\* After a bulk of answers each pair of the request holds the alternative of
\* its last item in one row, inserted or updated, and no other answer moved.
THEOREM BulkAnswersStand == Spec => SavedAnswersStand
<1>1. Inv /\ [Next]_vars => [\A s \in Slots : AnswersStand(s)]_vars
  BY AnswersStandNext DEF Inv
<1>2. Spec => [][\A s \in Slots : AnswersStand(s)]_vars
  BY <1>1, Invariance, PTL DEF Spec
<1> QED
  BY <1>2 DEF SavedAnswersStand, AnswersStand

-----------------------------------------------------------------------------
(* What a bulk of questions leaves behind.                                 *)

\* The step property of SavedQuestionsStand, for one slot.
QuestionsStand(s) ==
  SaveQuestions(s) =>
    LET c == calls[s]
        distinct == \A i, j \in DOMAIN c.items :
                      c.target[i] = c.target[j] /\ c.target[i] # NoId => i = j IN
    /\ distinct => \A i \in DOMAIN c.items : \E q \in DOMAIN questions' :
                     questions'[q] = QuestionRow(c.examId, c.items[i])
    /\ \A q \in DOMAIN questions :
         /\ questions'[q].examId = questions[q].examId
         /\ questions[q].examId # c.examId => questions'[q] = questions[q]

\* Two items that are created draw two ids.
LEMMA RanksDiffer ==
  ASSUME NEW c \in BulkQuestionsCall,
         NEW i \in CreatedItems(c), NEW k \in CreatedItems(c),
         Rank(c, i) = Rank(c, k)
  PROVE  i = k
<1> DEFINE upTo(x) == {j \in CreatedItems(c) : j <= x}
<1>1. Len(c.items) \in Nat /\ DOMAIN c.items = 1..Len(c.items)
  BY DEF BulkQuestionsCall
<1>2. CreatedItems(c) \subseteq 1..Len(c.items)
  BY <1>1 DEF CreatedItems
<1>3. IsFiniteSet(1..Len(c.items))
  BY <1>1, FS_Interval
<1>4. ASSUME NEW x \in CreatedItems(c), NEW y \in CreatedItems(c), x < y,
             Rank(c, x) = Rank(c, y)
      PROVE  FALSE
  <2>1. upTo(x) \subseteq upTo(y) /\ y \in upTo(y) /\ y \notin upTo(x)
    BY <1>1, <1>2, <1>4
  <2>2. upTo(y) \subseteq 1..Len(c.items)
    BY <1>2
  <2>3. Cardinality(upTo(x)) = Cardinality(upTo(y))
    BY <1>4 DEF Rank
  <2> HIDE DEF upTo
  <2>4. IsFiniteSet(upTo(y))
    BY <1>3, <2>2, FS_Subset
  <2> QED
    BY <2>1, <2>3, <2>4, FS_Subset
<1>5. i \in Int /\ k \in Int
  BY <1>1, <1>2
<1> QED
  BY <1>4, <1>5

LEMMA QuestionsStandNext ==
  ASSUME TypeOK, CallsOwnRows, RequestsDiffer, NEW s \in Slots
  PROVE  QuestionsStand(s)
<1> SUFFICES ASSUME SaveQuestions(s) PROVE QuestionsStand(s)
  BY DEF QuestionsStand
<1> DEFINE c == calls[s]
           new == {newQuestionId(c, i) : i \in CreatedItems(c)}
           Row(i) == QuestionRow(c.examId, c.items[i])
<1>1. /\ c.op = "bulkQuestions" /\ c \in BulkQuestionsCall /\ QuestionsFit(c)
      /\ questions' = [x \in DOMAIN questions \cup new |-> SavedQuestion(c, x)]
  BY CallShape, Typing DEF SaveQuestions, Serving
<1>2. DOMAIN questions' = DOMAIN questions \cup new
  <2> HIDE DEF new, c
  <2> QED
    BY <1>1
<1>3. ASSUME NEW i \in DOMAIN c.items, c.target[i] # NoId
      PROVE  /\ c.target[i] \in DOMAIN questions
             /\ questions[c.target[i]].examId = c.examId
  BY <1>1, <1>3 DEF QuestionsFit, CallsOwnRows, BulkQuestionsOwn, QuestionStays,
                    RequestsDiffer, Differ, ItemsDiffer
<1>4. NoId \notin DOMAIN questions
  BY TablesOKFacts DEF TypeOK, Ids, NoId
<1>5. ASSUME NEW q \in DOMAIN questions
      PROVE  /\ questions'[q].examId = questions[q].examId
             /\ questions[q].examId # c.examId => questions'[q] = questions[q]
  <2>1. \/ questions'[q] = questions[q]
        \/ \E i \in DOMAIN c.items :
             /\ c.target[i] = q
             /\ questions'[q] = QuestionRow(questions[q].examId, c.items[i])
    BY <1>2, SavedQuestionRow
  <2>2. \A e, item : QuestionRow(e, item).examId = e
    BY DEF QuestionRow
  <2>3. ASSUME NEW i \in DOMAIN c.items, c.target[i] = q
        PROVE  questions[q].examId = c.examId
    BY <1>3, <1>4, <2>3
  <2> HIDE DEF c
  <2> QED
    BY <2>1, <2>2, <2>3
<1>6. ASSUME \A i, j \in DOMAIN c.items :
               c.target[i] = c.target[j] /\ c.target[i] # NoId => i = j,
             NEW i \in DOMAIN c.items
      PROVE  \E q \in DOMAIN questions' : questions'[q] = Row(i)
  <2>1. CASE c.target[i] # NoId
    <3>1. PICK q \in DOMAIN questions : q = c.target[i]
      BY <1>3, <2>1
    <3>2. q \in DOMAIN questions' /\ questions[q].examId = c.examId
      BY <1>2, <1>3, <2>1, <3>1
    <3>3. \E j \in DOMAIN c.items :
            /\ c.target[j] = q
            /\ questions'[q] = QuestionRow(questions[q].examId, c.items[j])
      BY <3>1, <3>2, SavedQuestionRow
    <3> QED
      BY <1>6, <2>1, <3>1, <3>2, <3>3
  <2>2. CASE c.target[i] = NoId
    <3>1. i \in CreatedItems(c)
      BY <2>2 DEF CreatedItems
    <3>2. PICK q \in new : q = newQuestionId(c, i)
      BY <3>1
    <3>3. Rank(c, i) \in Nat /\ Rank(c, i) >= 1 /\ serial.question \in Nat
      BY <1>1, <3>1, RankBounds, Typing
    <3>4. q \notin DOMAIN questions /\ q \in DOMAIN questions'
      BY <1>2, <3>2, <3>3, Typing DEF newQuestionId, IsTable
    <3>5. PICK j \in DOMAIN c.items : /\ c.target[j] = NoId /\ q = newQuestionId(c, j)
                                      /\ questions'[q] = Row(j)
      BY <3>4, SavedQuestionRow
    <3>6. j \in CreatedItems(c)
      BY <3>5 DEF CreatedItems
    <3>7. Rank(c, j) \in Nat
      BY <1>1, <3>6, RankBounds
    <3>8. Rank(c, i) = Rank(c, j)
      <4>1. serial.question + Rank(c, i) = serial.question + Rank(c, j)
        BY <3>2, <3>5 DEF newQuestionId
      <4> HIDE DEF c
      <4> QED
        BY <3>3, <3>7, <4>1
    <3>9. i = j
      BY <1>1, <3>1, <3>6, <3>8, RanksDiffer
    <3> QED
      BY <3>4, <3>5, <3>9
  <2> QED
    BY <2>1, <2>2
<1> QED
  BY <1>5, <1>6 DEF QuestionsStand

\* A bulk of questions whose items aim at different rows leaves each item in
\* a row of its exam, although the snapshot it resolved them against may be
\* old; and no bulk moves a question to another exam or touches one of
\* another exam.
THEOREM BulkQuestionsStand == Spec => SavedQuestionsStand
<1>1. Inv /\ KeysInv /\ [Next]_vars => [\A s \in Slots : QuestionsStand(s)]_vars
  BY QuestionsStandNext DEF Inv, KeysInv
<1>2. Spec => [][\A s \in Slots : QuestionsStand(s)]_vars
  BY <1>1, Invariance, KeysInvariance, PTL DEF Spec
<1> QED
  BY <1>2 DEF SavedQuestionsStand, QuestionsStand
=============================================================================
