-------------------------- MODULE AplicadoresService --------------------------
(***************************************************************************)
(* aplicadores.service.ts: registration of an aplicador for an exam, the   *)
(* decision of an administrator, removal.  Each write is one statement;    *)
(* the exam create reads before its INSERT is tested again by the foreign  *)
(* key, so the two are one step.                                           *)
(***************************************************************************)
EXTENDS EnemSchema

CONSTANT AplicadorInputs   \* statuses PATCH /aplicadores/:id/status carries

ASSUME AplicadoresAssumption == AplicadorInputs \subseteq AplicadorStatus

CreateAplicador(e) ==
  /\ e \in DOMAIN exams
  /\ Room("aplicador", 1)
  /\ aplicadores' = WithRows(aplicadores, serial.aplicador,
                             <<[provaId |-> e, status |-> "PENDENTE"]>>)
  /\ serial' = [serial EXCEPT !.aplicador = @ + 1]
  /\ UNCHANGED <<exams, questions, participants, answers, calls>>

UpdateAplicadorStatus(a, status) ==
  /\ a \in DOMAIN aplicadores
  /\ aplicadores' = [aplicadores EXCEPT ![a].status = status]
  /\ UNCHANGED <<exams, questions, participants, answers, serial, calls>>

RemoveAplicador(a) ==
  /\ a \in DOMAIN aplicadores
  /\ aplicadores' = Without(aplicadores, {a})
  /\ participants' = AplicadorCleared(participants, {a})
  /\ UNCHANGED <<exams, questions, answers, serial, calls>>

AplicadoresNext ==
  \/ \E e \in DOMAIN exams : CreateAplicador(e)
  \/ \E a \in DOMAIN aplicadores :
       \/ \E status \in AplicadorInputs : UpdateAplicadorStatus(a, status)
       \/ RemoveAplicador(a)
=============================================================================
