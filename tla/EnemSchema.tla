----------------------------- MODULE EnemSchema -----------------------------
(***************************************************************************)
(* The tables of prisma/schema.prisma the correction of an exam works on,  *)
(* with their keys, unique constraints and ON DELETE rules, and the calls  *)
(* in flight in the NestJS process that reads and writes them.             *)
(*                                                                         *)
(* A table is a function from the ids of its live rows to the rows.  Ids   *)
(* come from autoincrement columns: they start at 1 and are never given    *)
(* twice, so `serial' keeps the last one of each table.  Every Prisma call *)
(* is one step: between two awaits of a handler any other call may run.    *)
(* Names, texts and the manuallyReviewed flag (true on every row this code *)
(* writes) are left out; qtdQuestoes is written once and never read.       *)
(***************************************************************************)
EXTENDS Integers, Sequences, FiniteSets, Functions

CONSTANTS
  Slots,      \* calls the process may be serving at the same time
  Faulty,     \* the slots whose call an error of the host may cut short
  Letters,    \* letters an alternative may carry (A..D in the code)
  Codes,      \* consulta codes (8 characters of a 32-letter alphabet)
  MaxSerial   \* bound: the last id of each sequence (2^31 - 1 in the database);
              \* an INSERT that would pass it is refused

Tables == {"exam", "question", "participant", "aplicador", "answer"}

ASSUME SchemaAssumption ==
  /\ Faulty \subseteq Slots
  /\ "" \notin Letters
  /\ MaxSerial \in [Tables -> Nat]

VARIABLES exams, questions, participants, aplicadores, answers, serial, calls

tables == <<exams, questions, participants, aplicadores, answers, serial>>

-----------------------------------------------------------------------------
(* Rows.  A nullable column holds NoDate, NoNota or NoId when it is null.  *)

NoDate == -1
NoNota == -1
NoId   == 0
Ids    == Nat \ {0}

ExamStatus == {"draft", "in_progress", "completed"}
AplicadorStatus == {"PENDENTE", "APROVADO", "REJEITADO"}

Exam == [status : ExamStatus, encerramento : Nat \cup {NoDate},
         notaSimbolica : Ids]

Question == [examId : Ids, numero : Ids, peso : Ids,
             correctAnswer : Letters \cup {""}]

Participant == [examId : Ids, consultaCode : Codes, presenca : BOOLEAN,
                redacaoNota : Nat \cup {NoNota}, aplicadorId : Nat]

Aplicador == [provaId : Ids, status : AplicadorStatus]

Answer == [userId : Ids, questId : Ids, alternativa : Letters \cup {""}]

IsTable(t, rows, last) ==
  /\ DOMAIN t \subseteq 1..last
  /\ t \in [DOMAIN t -> rows]

TablesOK ==
  /\ serial \in [Tables -> Nat]
  /\ IsTable(exams, Exam, serial.exam)
  /\ IsTable(questions, Question, serial.question)
  /\ IsTable(participants, Participant, serial.participant)
  /\ IsTable(aplicadores, Aplicador, serial.aplicador)
  /\ IsTable(answers, Answer, serial.answer)

Empty == [i \in {} |-> i]

InitTables ==
  /\ exams = Empty /\ questions = Empty /\ participants = Empty
  /\ aplicadores = Empty /\ answers = Empty
  /\ serial = [t \in Tables |-> 0]

-----------------------------------------------------------------------------
(* Statements.                                                             *)

Without(t, gone) == Restrict(t, DOMAIN t \ gone)

\* INSERT of a sequence of rows: row i gets the id last + i.
WithRows(t, last, rows) ==
  [i \in DOMAIN t \cup ((last + 1)..(last + Len(rows))) |->
     IF i \in DOMAIN t THEN t[i] ELSE rows[i - last]]

Room(t, k) == serial[t] + k <= MaxSerial[t]

QuestionsOf(e)    == {q \in DOMAIN questions : questions[q].examId = e}
ParticipantsOf(e) == {p \in DOMAIN participants : participants[p].examId = e}
AplicadoresOf(e)  == {a \in DOMAIN aplicadores : aplicadores[a].provaId = e}

\* ON DELETE CASCADE from participantes and questoes to resultados.
AnswersWithout(users, quests) ==
  Restrict(answers, {a \in DOMAIN answers : /\ answers[a].userId \notin users
                                            /\ answers[a].questId \notin quests})

\* A relation without an ON DELETE action.
AplicadorLeft(ps, gone) == ps

\* ON DELETE SET NULL from aplicadores to participantes.aplicador_id.
AplicadorCleared(ps, gone) ==
  [p \in DOMAIN ps |->
     IF ps[p].aplicadorId \in gone THEN [ps[p] EXCEPT !.aplicadorId = NoId]
                                   ELSE ps[p]]

DeleteExam(e) ==
  /\ exams' = Without(exams, {e})
  /\ questions' = Without(questions, QuestionsOf(e))
  /\ participants' = AplicadorCleared(Without(participants, ParticipantsOf(e)),
                                      AplicadoresOf(e))
  /\ aplicadores' = Without(aplicadores, AplicadoresOf(e))
  /\ answers' = AnswersWithout(ParticipantsOf(e), QuestionsOf(e))
  /\ UNCHANGED serial

-----------------------------------------------------------------------------
(* Calls in flight.  A slot is idle or holds what a handler keeps between  *)
(* two awaits.                                                             *)

Idle == [op |-> "idle"]

Serving(s, op) == calls[s].op = op
Start(s, call) == calls[s] = Idle /\ calls' = [calls EXCEPT ![s] = call]
Close(s)       == calls' = [calls EXCEPT ![s] = Idle]

\* The call ends without a write: the database refuses a statement, the mail
\* service answers with an error, or the process restarts.
Crash(s) ==
  /\ s \in Faulty
  /\ calls[s] # Idle
  /\ Close(s)
  /\ UNCHANGED tables
=============================================================================
