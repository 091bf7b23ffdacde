------------------------- MODULE ParticipantsService -------------------------
(***************************************************************************)
(* participants.service.ts and consulta-code.util.ts: enrolment with a     *)
(* consulta code per participant, presence, essay mark and removal.        *)
(*                                                                         *)
(* Codes are drawn against the codes read in an earlier statement; two     *)
(* enrolments may draw the same one and only UNIQUE (exam_id,              *)
(* consulta_code) stands between them.  The edits check with assertOwned   *)
(* that the participant belongs to the exam of the path, and then write by *)
(* id alone.                                                               *)
(***************************************************************************)
EXTENDS EnemSchema

\* A body of POST /participants; aplicadorId = NoId when absent.
ParticipantDto == [presenca : BOOLEAN, aplicadorId : Nat]

CONSTANTS
  ParticipantInputs,   \* non-empty sequences of ParticipantDto; create is
                       \* the sequence of one
  RedacaoInputs        \* essay marks, NoNota for null

ASSUME ParticipantsAssumption ==
  /\ ParticipantInputs \subseteq Seq(ParticipantDto)
  /\ RedacaoInputs \subseteq Nat \cup {NoNota}

\* One code for each dto of the body.
EnrolCall ==
  {c \in [op : {"enrol"}, examId : Ids, dtos : Seq(ParticipantDto),
          codes : Seq(Codes)] : Len(c.codes) = Len(c.dtos)}
PresencaCall == [op : {"presenca"}, examId : Ids, id : Ids, value : BOOLEAN]
RedacaoCall  == [op : {"redacao"}, examId : Ids, id : Ids,
                 value : Nat \cup {NoNota}]
RemoveParticipantCall == [op : {"removeParticipant"}, examId : Ids, id : Ids]

CodesOf(e) == {participants[p].consultaCode : p \in ParticipantsOf(e)}

\* create and createMany up to allocateConsultaCodes: codes not taken in the
\* exam and distinct in the batch.  The exam read before is tested again by
\* the foreign key of the INSERT; a draw that fails 25 times changes nothing.
AllocateCodes(s, e, dtos) ==
  /\ e \in DOMAIN exams
  /\ \E codes \in [DOMAIN dtos -> Codes \ CodesOf(e)] :
       /\ IsInjective(codes)
       /\ Start(s, [op |-> "enrol", examId |-> e, dtos |-> dtos,
                    codes |-> codes])
  /\ UNCHANGED tables

\* The schema without its unique index.
EnrolFitsAnyCode(c) ==
  /\ Room("participant", Len(c.dtos))
  /\ c.examId \in DOMAIN exams
  /\ \A i \in DOMAIN c.dtos : c.dtos[i].aplicadorId \in DOMAIN aplicadores \cup {NoId}

\* The foreign keys and the unique index the INSERT must satisfy.  Nothing
\* else looks at the exam the aplicador belongs to.
EnrolFits(c) ==
  /\ Room("participant", Len(c.dtos))
  /\ c.examId \in DOMAIN exams
  /\ \A i \in DOMAIN c.dtos : c.dtos[i].aplicadorId \in DOMAIN aplicadores \cup {NoId}
  /\ \A i \in DOMAIN c.codes : c.codes[i] \notin CodesOf(c.examId)

EnrolledRow(c, i) ==
  [examId |-> c.examId, consultaCode |-> c.codes[i],
   presenca |-> c.dtos[i].presenca, redacaoNota |-> NoNota,
   aplicadorId |-> c.dtos[i].aplicadorId]

InsertParticipants(s) ==
  LET c == calls[s]
      n == Len(c.dtos) IN
  /\ Serving(s, "enrol")
  /\ EnrolFits(c)
  /\ participants' = WithRows(participants, serial.participant,
                              [i \in 1..n |-> EnrolledRow(c, i)])
  /\ serial' = [serial EXCEPT !.participant = @ + n]
  /\ Close(s)
  /\ UNCHANGED <<exams, questions, aplicadores, answers>>

EnrolRefused(s) ==
  /\ Serving(s, "enrol")
  /\ ~EnrolFits(calls[s])
  /\ Close(s)
  /\ UNCHANGED tables

\* The edit of any participant, whatever the exam of the path.
AssertExists(s, call) ==
  /\ call.id \in DOMAIN participants
  /\ Start(s, call)
  /\ UNCHANGED tables

\* assertOwned, the read the three edits below start with.
AssertOwned(s, call) ==
  /\ call.id \in ParticipantsOf(call.examId)
  /\ Start(s, call)
  /\ UNCHANGED tables

UpdatePresenca(s) ==
  /\ Serving(s, "presenca")
  /\ calls[s].id \in DOMAIN participants
  /\ participants' = [participants EXCEPT ![calls[s].id].presenca = calls[s].value]
  /\ Close(s)
  /\ UNCHANGED <<exams, questions, aplicadores, answers, serial>>

UpdateRedacao(s) ==
  /\ Serving(s, "redacao")
  /\ calls[s].id \in DOMAIN participants
  /\ participants' = [participants EXCEPT ![calls[s].id].redacaoNota = calls[s].value]
  /\ Close(s)
  /\ UNCHANGED <<exams, questions, aplicadores, answers, serial>>

RemoveParticipant(s) ==
  /\ Serving(s, "removeParticipant")
  /\ participants' = Without(participants, {calls[s].id})
  /\ answers' = AnswersWithout({calls[s].id}, {})
  /\ Close(s)
  /\ UNCHANGED <<exams, questions, aplicadores, serial>>

\* The participant was removed after assertOwned had seen it.
ParticipantGone(s) ==
  /\ calls[s].op \in {"presenca", "redacao"}
  /\ calls[s].id \notin DOMAIN participants
  /\ Close(s)
  /\ UNCHANGED tables

ParticipantsStep(s) ==
  \/ InsertParticipants(s)
  \/ EnrolRefused(s)
  \/ UpdatePresenca(s)
  \/ UpdateRedacao(s)
  \/ RemoveParticipant(s)
  \/ ParticipantGone(s)

\* The edits a client may ask of exam e: any participant, its own or not.
EditInputsOf(e) ==
  LET ids == DOMAIN participants IN
  [op : {"presenca"}, examId : {e}, id : ids, value : BOOLEAN]
  \cup [op : {"redacao"}, examId : {e}, id : ids, value : RedacaoInputs]
  \cup [op : {"removeParticipant"}, examId : {e}, id : ids]

ParticipantsNext ==
  \/ \E s \in Slots, e \in DOMAIN exams, dtos \in ParticipantInputs :
       AllocateCodes(s, e, dtos)
  \/ \E s \in Slots, e \in DOMAIN exams : \E call \in EditInputsOf(e) :
       AssertOwned(s, call)
  \/ \E s \in Slots : ParticipantsStep(s)
=============================================================================
