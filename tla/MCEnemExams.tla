----------------------------- MODULE MCEnemExams -----------------------------
(***************************************************************************)
(* Small instances of EnemExams.  A run leaves out the operations that do  *)
(* not bear on its question by giving them no inputs or no room for rows.  *)
(***************************************************************************)
EXTENDS EnemBook, TLC

Room5(e, q, p, ap, an) ==
  [exam |-> e, question |-> q, participant |-> p, aplicador |-> ap, answer |-> an]

None == {}
OneQuestion  == {[qtdQuestoes |-> 1, notaSimbolica |-> 10]}
TwoQuestions == {[qtdQuestoes |-> 2, notaSimbolica |-> 10]}
OneOrTwo     == OneQuestion \cup TwoQuestions

SlotSymmetry == Permutations(Slots)
CodeSymmetry == Permutations(Slots) \cup Permutations(Codes)

\* life of exams, with their results e-mail
LifeRoom == Room5(1, 1, 0, 1, 0)

\* bulk edits of questions: by numero, by id, renumbering, creating
Item(id, numero, letra) ==
  [id |-> id, numero |-> numero, correctAnswer |-> letra, peso |-> 1]
QuestionBulks ==
  { <<Item(0, 1, "A")>>, <<Item(1, 2, "A")>>, <<Item(2, 1, "B")>>,
    <<Item(1, 3, "B"), Item(2, 1, "A")>>,
    <<Item(0, 1, "B"), Item(0, 3, "A")>>, <<Item(2, 3, "A"), Item(0, 2, "B")>>,
    <<Item(0, 2, "A"), Item(0, 2, "B")>> }
QuestionRoom == Room5(2, 5, 0, 0, 0)

\* enrolment and edits of participants, with aplicadores of both exams
Dto(aplicador) == [presenca |-> FALSE, aplicadorId |-> aplicador]
Enrolments == { <<Dto(1)>>, <<Dto(0), Dto(0)>> }
EnrolRoom == Room5(2, 2, 2, 1, 0)

\* answers: one exam with both questions or two with one each; a pair
\* repeated across chunks
Ans(u, q, letra) == [userId |-> u, questId |-> q, alternativa |-> letra]
AnswerBulks ==
  { <<Ans(1, 1, "A")>>, <<Ans(1, 2, "A")>>,
    <<Ans(1, 1, "B"), Ans(2, 2, "A"), Ans(1, 1, "A")>> }
AnswerRoom == Room5(2, 2, 2, 0, 4)
OneDto == { <<Dto(0)>> }
=============================================================================
