---------------------------- MODULE MCLegacyCopy ----------------------------
(***************************************************************************)
(* A small instance of LegacyCopy: an empty database beside a file of two  *)
(* exams with gaps in their ids, as the file the project started from has. *)
(***************************************************************************)
EXTENDS LegacyCopy, TLC

Closed(nota) == [status |-> "completed", encerramento |-> 0, notaSimbolica |-> nota]
Quest(e, n, key) == [examId |-> e, numero |-> n, peso |-> 1, correctAnswer |-> key]
Person(e) == [examId |-> e, presenca |-> TRUE, redacaoNota |-> NoNota]
Mark(p, q, letra) == [userId |-> p, questId |-> q, alternativa |-> letra]

TwoExams == Holding(
  [exam        |-> (1 :> Closed(10)) @@ (3 :> Closed(20)),
   question    |-> (1 :> Quest(1, 1, "A")) @@ (2 :> Quest(1, 2, "B"))
                   @@ (4 :> Quest(3, 1, "")),
   participant |-> (1 :> Person(1)) @@ (3 :> Person(1)),
   answer      |-> (1 :> Mark(1, 1, "A")) @@ (2 :> Mark(1, 2, "A"))
                   @@ (5 :> Mark(3, 1, "B"))])

Files == {TwoExams}
LegacyRoom == [exam |-> 4, question |-> 5, participant |-> 3, aplicador |-> 1,
               answer |-> 5]
CodesOnly == Permutations(Codes)
None == {}
OneQuestion == {[qtdQuestoes |-> 1, notaSimbolica |-> 10]}
=============================================================================
