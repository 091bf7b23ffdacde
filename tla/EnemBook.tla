------------------------------ MODULE EnemBook ------------------------------
(***************************************************************************)
(* The five services implement ExamBook: the book is read off the tables,  *)
(* and a call that waits, is refused or crashes is no step of it.          *)
(***************************************************************************)
EXTENDS EnemExams

SheetPairs(e) ==
  {<<answers[a].userId, answers[a].questId>> :
     a \in {x \in DOMAIN answers : answers[x].userId \in ParticipantsOf(e)}}

MarkedAs(pair) ==
  answers[CHOOSE a \in DOMAIN answers :
            <<answers[a].userId, answers[a].questId>> = pair].alternativa

BookOf(e) ==
  [status  |-> exams[e].status,
   closing |-> exams[e].encerramento,
   nota    |-> exams[e].notaSimbolica,
   key     |-> [q \in QuestionsOf(e) |->
                  [numero |-> questions[q].numero, peso |-> questions[q].peso,
                   correctAnswer |-> questions[q].correctAnswer]],
   people  |-> [p \in ParticipantsOf(e) |->
                  [consultaCode |-> participants[p].consultaCode,
                   presenca |-> participants[p].presenca,
                   redacaoNota |-> participants[p].redacaoNota]],
   sheet   |-> [pair \in SheetPairs(e) |-> MarkedAs(pair)]]

Book == INSTANCE ExamBook WITH book <- [e \in DOMAIN exams |-> BookOf(e)]

\* Every behaviour of the services, whatever calls overlap in it, is one of
\* single steps on single exams: a write whose checks are long past never
\* mixes two exams, loses an answer it was not asked to, gives a numero or a
\* code twice, or leaves half of an edit behind.
ImplementsBook == Book!Spec
=============================================================================
