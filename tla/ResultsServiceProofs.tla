------------------------ MODULE ResultsServiceProofs ------------------------
(***************************************************************************)
(* Theorems of ResultsService: the readers leave the services as they are, *)
(* a consulta answers with the owner of its code, and the marks and counts *)
(* of a response are those of its definition.                              *)
(*                                                                         *)
(* A response is put together from what several statements read.  What     *)
(* carries the one over to the next is, for the owner of a code,           *)
(* ReadersInv (the second statement looks at the id alone), and for the    *)
(* rows ReadsCurrent: as long as nothing was written to the results of the *)
(* exam, what a read holds is what the tables would answer now.            *)
(*                                                                         *)
(* Of the responses a write came across two things remain.  ReadsHeld: the *)
(* rows of a ranking were read in one statement, and its answers are about *)
(* questions the tables still hold, with their weights, unless a question  *)
(* went or changed.  OwnersHeld: an id that was found keeps its exam and   *)
(* its code.                                                               *)
(***************************************************************************)
EXTENDS ResultsService, EnemExamsProofs

\* An exam that was there when the request came in, and the codes of a
\* request that brings some.
ReadOK(c) ==
  /\ {"step", "examId", "quiet"} \subseteq DOMAIN c
  /\ c.examId \in 1..serial.exam
  /\ c.step \in {"exam", "rows", "code", "detail"} => c.quiet \in BOOLEAN
  /\ c.step \in {"exam", "rows"} => "code" \notin DOMAIN c
  /\ c.step = "code" => \E code \in c.code : c.code = {code}
  /\ c.step \in {"code", "detail"} => "code" \in DOMAIN c
  /\ c.step = "detail" => "id" \in DOMAIN c

\* The participants a read takes for the owners of its codes.
Found(c) ==
  CASE c.step = "detail"   -> {c.id}
    [] c.step = "detailed" -> {c.id}
    [] OTHER               -> {}

FindsOwner(c) ==
  /\ c.step \in {"detail", "detailed", "notFound"} /\ c.quiet
  /\ c.examId \in DOMAIN exams /\ "code" \in DOMAIN c
  => \A code \in c.code : OwnersIn(c.examId, code) = Found(c)

ReadersInv ==
  /\ DOMAIN reads = Readers
  /\ \A r \in Readers : reads[r] = Free \/ (ReadOK(reads[r]) /\ FindsOwner(reads[r]))

-----------------------------------------------------------------------------
(* The services and their readers.                                         *)

\* A step of a request for results, of a reader.
StepOf(r) ==
  \/ ResultsStep(r)
  \/ \E e \in 1..serial.exam :
       \/ AskRanking(r, e) \/ AskPublicResults(r, e)
       \/ \E p \in 1..serial.participant : AskDetail(r, e, p)
       \/ \E code \in Codes : AskConsulta(r, e, code)

LEMMA ReadsAreQuiet ==
  ASSUME NEW r \in Readers, StepOf(r)
  PROVE  UNCHANGED vars
<1>1. ASSUME ResultsStep(r)
      PROVE  UNCHANGED vars
  BY <1>1 DEF ResultsStep, Advance, ReadExam, ReadParticipants, ReadQuestions,
     ReadPesos, FindCode, ReadParticipant, ReadDetailPesos, Detail
<1>2. ASSUME NEW e, AskRanking(r, e) \/ AskPublicResults(r, e)
      PROVE  UNCHANGED vars
  BY <1>2 DEF AskRanking, AskPublicResults, Ask
<1>3. ASSUME NEW e, NEW p, AskDetail(r, e, p)
      PROVE  UNCHANGED vars
  BY <1>3 DEF AskDetail, Ask
<1>4. ASSUME NEW e, NEW code, AskConsulta(r, e, code)
      PROVE  UNCHANGED vars
  BY <1>4 DEF AskConsulta, Ask
<1> QED
  BY <1>1, <1>2, <1>3, <1>4 DEF StepOf

LEMMA ReadersStep ==
  ASSUME ResultsNext
  PROVE  \/ Next /\ reads' = Disturbed
         \/ UNCHANGED vars /\ \E r \in Readers : StepOf(r)
<1>1. (Next /\ reads' = Disturbed) \/ \E r \in Readers : StepOf(r)
  BY Zenon DEF ResultsNext, StepOf
<1> QED
  BY <1>1, ReadsAreQuiet

\* Every behaviour of the readers and the services is one of the services:
\* results.service.ts writes nothing, so what holds of the services holds
\* whoever reads.
THEOREM ReadersOnlyRead == ResultsSpec => Spec
<1>1. ResultsInit => Init
  BY DEF ResultsInit
<1>2. [ResultsNext]_resultsVars => [Next]_vars
  BY ReadersStep DEF resultsVars
<1> QED
  BY <1>1, <1>2, PTL DEF ResultsSpec, Spec

-----------------------------------------------------------------------------
(* The steps of the services.                                              *)

LEMMA NewExamIds ==
  ASSUME TypeOK, [Next]_vars
  PROVE  /\ serial.exam \in Nat /\ serial'.exam \in Nat /\ serial.exam <= serial'.exam
         /\ \A e \in DOMAIN exams' : e \in 1..serial.exam => e \in DOMAIN exams
<1>1. serial.exam \in Nat /\ serial \in [Tables -> Nat] /\ IsTable(exams, Exam, serial.exam)
  BY Typing
<1>2. ASSUME serial'.exam = serial.exam, DOMAIN exams' \subseteq DOMAIN exams
      PROVE  /\ serial'.exam \in Nat /\ serial.exam <= serial'.exam
             /\ \A e \in DOMAIN exams' : e \in 1..serial.exam => e \in DOMAIN exams
  BY <1>1, <1>2
<1>3. ASSUME NEW dto \in ExamInputs, CreateExam(dto)
      PROVE  /\ serial'.exam \in Nat /\ serial.exam <= serial'.exam
             /\ \A e \in DOMAIN exams' : e \in 1..serial.exam => e \in DOMAIN exams
  <2>1. serial'.exam = serial.exam + 1
    BY <1>1, <1>3 DEF CreateExam, Tables
  <2>2. DOMAIN exams' = DOMAIN exams \cup ((serial.exam + 1)..(serial.exam + 1))
    BY <1>1, <1>3 DEF CreateExam, WithRows
  <2> QED
    BY <1>1, <2>1, <2>2
<1>4. ASSUME NEW e \in DOMAIN exams, RemoveExam(e)
      PROVE  serial'.exam = serial.exam /\ DOMAIN exams' \subseteq DOMAIN exams
  <2>1. exams' = Without(exams, {e}) /\ serial' = serial
    BY <1>4 DEF RemoveExam, DeleteExam
  <2>2. PICK n \in Nat : IsTable(exams, Exam, n)
    BY <1>1
  <2>3. DOMAIN Without(exams, {e}) = DOMAIN exams \ {e}
    BY ZenonT(40), <2>2, RemovedRows
  <2> QED
    BY <2>1, <2>3
<1>5. ASSUME NEW e \in DOMAIN exams, NEW nota \in NotaInputs, UpdateExam(e, nota)
      PROVE  serial'.exam = serial.exam /\ DOMAIN exams' \subseteq DOMAIN exams
  BY <1>1, <1>5 DEF UpdateExam, IsTable
<1>6. ASSUME NEW s \in Slots, NEW e \in DOMAIN exams, NEW to \in StatusInputs,
             ReadStatus(s, e, to)
      PROVE  serial'.exam = serial.exam /\ DOMAIN exams' \subseteq DOMAIN exams
  BY <1>6 DEF ReadStatus, tables
<1>7. ASSUME NEW s \in Slots, ExamsStep(s)
      PROVE  serial'.exam = serial.exam /\ DOMAIN exams' \subseteq DOMAIN exams
  BY <1>1, <1>7 DEF ExamsStep, WriteStatus, ExportRanking, SendMail, ExamGone, tables, IsTable
<1>8. CASE Tick
  BY <1>2, <1>8 DEF Tick, tables
<1>9. CASE QuestionsNext
  <2>1. exams' = exams /\ serial'.exam = serial.exam
    BY <1>1, <1>9 DEF QuestionsNext, QuestionsStep, SnapshotQuestions, FindQuestion,
                      SaveQuestions, QuestionsRefused, RemoveQuestion, tables, Tables
  <2> QED
    BY <1>2, <2>1
<1>10. CASE ParticipantsNext
  <2>1. exams' = exams /\ serial'.exam = serial.exam
    BY <1>1, <1>10 DEF ParticipantsNext, ParticipantsStep, AllocateCodes, AssertOwned,
         InsertParticipants, EnrolRefused, UpdatePresenca, UpdateRedacao,
         RemoveParticipant, ParticipantGone, tables, Tables
  <2> QED
    BY <1>2, <2>1
<1>11. CASE AnswersNext
  <2>1. exams' = exams /\ serial'.exam = serial.exam
    BY <1>1, <1>11 DEF AnswersNext, AnswersStep, OpenBulkAnswers, ReadOwners, SaveAnswers,
                       AnswersRefused, UpdateAnswer, tables, Tables
  <2> QED
    BY <1>2, <2>1
<1>12. CASE AplicadoresNext
  <2>1. exams' = exams /\ serial'.exam = serial.exam
    BY <1>1, <1>12 DEF AplicadoresNext, CreateAplicador, UpdateAplicadorStatus,
                       RemoveAplicador, Tables
  <2> QED
    BY <1>2, <2>1
<1>13. CASE \E s \in Slots : Crash(s)
  BY <1>2, <1>13 DEF Crash, tables
<1>14. CASE UNCHANGED vars
  BY <1>2, <1>14 DEF vars, tables
<1>15. CASE ExamsNext
  <2>1. CASE \E dto \in ExamInputs : CreateExam(dto)
    BY <1>1, <1>3, <2>1
  <2>2. CASE \/ \E e \in DOMAIN exams, nota \in NotaInputs : UpdateExam(e, nota)
             \/ \E e \in DOMAIN exams : RemoveExam(e)
             \/ \E s \in Slots, e \in DOMAIN exams, to \in StatusInputs : ReadStatus(s, e, to)
             \/ \E s \in Slots : ExamsStep(s)
    <3>1. serial'.exam = serial.exam /\ DOMAIN exams' \subseteq DOMAIN exams
      BY <1>4, <1>5, <1>6, <1>7, <2>2
    <3> QED
      BY <1>1, <1>2, <3>1
  <2> QED
    BY <1>1, <1>8, <1>15, <2>1, <2>2 DEF ExamsNext
<1> QED
  BY <1>1, <1>9, <1>10, <1>11, <1>12, <1>13, <1>14, <1>15 DEF Next

LEMMA SameOwners ==
  ASSUME NEW e, ResultData(e)' = ResultData(e), NEW code
  PROVE  OwnersIn(e, code)' = OwnersIn(e, code)
<1>1. Restrict(participants, ParticipantsOf(e))' = Restrict(participants, ParticipantsOf(e))
  BY DEF ResultData
<1>2. /\ ParticipantsOf(e)' = ParticipantsOf(e)
      /\ \A p \in ParticipantsOf(e) : participants'[p] = participants[p]
  BY <1>1 DEF Restrict
<1> QED
  BY <1>2 DEF OwnersIn

LEMMA CrossedFields ==
  ASSUME NEW c, "quiet" \in DOMAIN c
  PROVE  /\ DOMAIN Crossed(c) = DOMAIN c /\ Crossed(c).quiet = FALSE
         /\ \A f \in DOMAIN c \ DOMAIN Fresh : Crossed(c)[f] = c[f]
  BY DEF Crossed, Fresh

\* A write to the results of an exam is noticed by its readers, and another
\* one moves no code.
LEMMA DisturbedKeeps ==
  ASSUME TypeOK, ReadersInv, Next, reads' = Disturbed
  PROVE  ReadersInv'
<1>1. DOMAIN reads' = Readers
  BY DEF Disturbed
<1>2. /\ serial.exam \in Nat /\ serial'.exam \in Nat /\ serial.exam <= serial'.exam
      /\ \A e \in DOMAIN exams' : e \in 1..serial.exam => e \in DOMAIN exams
  BY NewExamIds
<1>3. ASSUME NEW r \in Readers
      PROVE  reads'[r] = Free \/ (ReadOK(reads[r]) /\ FindsOwner(reads[r]))'
  <2>1. PICK c : c = reads[r]
    OBVIOUS
  <2>2. PICK d : d = reads'[r]
    OBVIOUS
  <2>3. \/ d = Free
        \/ c # Free /\ c.examId \notin Written /\ d = c
        \/ c # Free /\ ~Settled(r) /\ d = Crossed(c)
    BY <2>1, <2>2 DEF Disturbed
  <2>4. CASE d = Free
    BY <2>2, <2>4
  <2>5. CASE c # Free /\ c.examId \notin Written /\ d = c
    <3>1. ReadOK(c) /\ FindsOwner(c)
      BY <2>1, <2>5 DEF ReadersInv
    <3>2. ReadOK(c)'
      <4>1. c.examId \in 1..serial'.exam
        BY <1>2, <3>1 DEF ReadOK
      <4> QED
        BY <3>1, <4>1 DEF ReadOK
    <3>3. FindsOwner(c)'
      <4>1. SUFFICES ASSUME c.step \in {"detail", "detailed", "notFound"}, c.quiet,
                            c.examId \in DOMAIN exams', "code" \in DOMAIN c,
                            NEW code \in c.code
                     PROVE  OwnersIn(c.examId, code)' = Found(c)
        BY DEF FindsOwner, Found
      <4>2. c.examId \in DOMAIN exams
        BY <1>2, <3>1, <4>1 DEF ReadOK
      <4>3. ResultData(c.examId)' = ResultData(c.examId)
        BY <2>5, <4>1, <4>2 DEF Written
      <4>4. OwnersIn(c.examId, code) = Found(c)
        BY <3>1, <4>1, <4>2 DEF FindsOwner
      <4> QED
        BY <4>3, <4>4, SameOwners
    <3> QED
      BY <2>2, <2>5, <3>2, <3>3
  <2>6. CASE c # Free /\ ~Settled(r) /\ d = Crossed(c)
    <3>1. ReadOK(c)
      BY <2>1, <2>6 DEF ReadersInv
    <3>2. /\ DOMAIN d = DOMAIN c /\ d.quiet = FALSE
          /\ \A f \in DOMAIN c \ DOMAIN Fresh : d[f] = c[f]
      BY <2>6, <3>1, CrossedFields DEF ReadOK
    <3>3. d.step = c.step /\ d.examId = c.examId
          /\ ("code" \in DOMAIN c => d.code = c.code)
      BY <3>1, <3>2 DEF ReadOK, Fresh
    <3>4. ReadOK(d)'
      <4>1. d.examId \in 1..serial'.exam
        BY <1>2, <3>1, <3>3 DEF ReadOK
      <4>2. d.step = "code" => \E code \in d.code : d.code = {code}
        <5>1. CASE c.step = "code"
          <6>1. PICK code \in c.code : c.code = {code}
            BY <3>1, <5>1 DEF ReadOK
          <6> QED
            BY <3>1, <3>3, <5>1, <6>1 DEF ReadOK
        <5> QED
          BY <3>3, <5>1
      <4> QED
        BY <3>1, <3>2, <3>3, <4>1, <4>2 DEF ReadOK
    <3>5. FindsOwner(d)'
      BY <3>2 DEF FindsOwner
    <3> QED
      BY <2>2, <3>4, <3>5
  <2> QED
    BY <2>3, <2>4, <2>5, <2>6
<1> QED
  BY <1>1, <1>3 DEF ReadersInv

-----------------------------------------------------------------------------
(* The steps of a read.                                                    *)

LEMMA SameRead ==
  ASSUME NEW c, ReadOK(c), FindsOwner(c), UNCHANGED vars
  PROVE  (ReadOK(c) /\ FindsOwner(c))'
<1>1. UNCHANGED <<exams, participants, serial>>
  BY DEF vars, tables
<1> QED
  BY <1>1 DEF ReadOK, FindsOwner, Found, OwnersIn, ParticipantsOf

LEMMA OneReadChanges ==
  ASSUME ReadersInv, NEW r \in Readers, NEW c, reads' = [reads EXCEPT ![r] = c],
         UNCHANGED vars, ReadOK(c), FindsOwner(c)
  PROVE  ReadersInv'
<1>1. ASSUME NEW z \in Readers
      PROVE  reads'[z] = Free \/ (ReadOK(reads[z]) /\ FindsOwner(reads[z]))'
  <2>1. PICK d : d = reads'[z]
    OBVIOUS
  <2>2. d = c \/ d = reads[z]
    BY <2>1 DEF ReadersInv
  <2>3. d = Free \/ (ReadOK(d) /\ FindsOwner(d))
    BY <2>2 DEF ReadersInv
  <2>4. d = Free \/ (ReadOK(d) /\ FindsOwner(d))'
    BY <2>3, SameRead
  <2> QED
    BY <2>1, <2>4
<1>2. DOMAIN reads' = Readers
  BY DEF ReadersInv
<1> QED
  BY <1>1, <1>2 DEF ReadersInv

LEMMA NoReadChanges ==
  ASSUME ReadersInv, UNCHANGED resultsVars
  PROVE  ReadersInv'
<1>1. reads' = reads /\ UNCHANGED vars
  BY DEF resultsVars
<1>2. ASSUME NEW z \in Readers
      PROVE  reads'[z] = Free \/ (ReadOK(reads[z]) /\ FindsOwner(reads[z]))'
  <2>1. PICK d : d = reads[z]
    OBVIOUS
  <2>2. d = Free \/ (ReadOK(d) /\ FindsOwner(d))'
    BY <1>1, <2>1, SameRead DEF ReadersInv
  <2> QED
    BY <1>1, <2>1, <2>2
<1> QED
  BY <1>1, <1>2 DEF ReadersInv

LEMMA AskKeeps ==
  ASSUME TypeOK, ReadersInv, NEW r \in Readers, NEW e \in 1..serial.exam,
         \/ AskRanking(r, e)
         \/ AskPublicResults(r, e)
         \/ \E p \in 1..serial.participant : AskDetail(r, e, p)
         \/ \E code \in Codes : AskConsulta(r, e, code)
  PROVE  ReadersInv'
<1>1. ASSUME Ask(r, [step |-> "exam", examId |-> e])
      PROVE  ReadersInv'
  <2>1. PICK c : c = With(Fresh, [step |-> "exam", examId |-> e])
    OBVIOUS
  <2>2. /\ DOMAIN c = DOMAIN Fresh \cup {"step", "examId"}
        /\ c.step = "exam" /\ c.examId = e /\ c.quiet = TRUE
    BY <2>1 DEF With, Fresh
  <2>3. ReadOK(c) /\ FindsOwner(c)
    BY <2>2 DEF ReadOK, FindsOwner, Fresh
  <2>4. reads' = [reads EXCEPT ![r] = c] /\ UNCHANGED vars
    BY <1>1, <2>1 DEF Ask
  <2> QED
    BY <2>3, <2>4, OneReadChanges
<1>2. ASSUME NEW p, AskDetail(r, e, p)
      PROVE  ReadersInv'
  <2>1. PICK c : c = With(Fresh,
                          [step |-> "detail", examId |-> e, id |-> p, code |-> {},
                           unread |-> {"participant", "pesos"}])
    OBVIOUS
  <2>2. /\ DOMAIN c = DOMAIN Fresh \cup {"step", "examId", "id", "code", "unread"}
        /\ c.step = "detail" /\ c.examId = e /\ c.quiet = TRUE /\ c.code = {}
    BY <2>1 DEF With, Fresh
  <2>3. ReadOK(c) /\ FindsOwner(c)
    BY <2>2 DEF ReadOK, FindsOwner, Fresh
  <2>4. reads' = [reads EXCEPT ![r] = c] /\ UNCHANGED vars
    BY <1>2, <2>1 DEF AskDetail, Ask
  <2> QED
    BY <2>3, <2>4, OneReadChanges
<1>3. ASSUME NEW code, AskConsulta(r, e, code)
      PROVE  ReadersInv'
  <2>1. PICK c : c = With(Fresh,
                          [step |-> "code", examId |-> e, code |-> {code}])
    OBVIOUS
  <2>2. /\ DOMAIN c = DOMAIN Fresh \cup {"step", "examId", "code"}
        /\ c.step = "code" /\ c.examId = e /\ c.quiet = TRUE /\ c.code = {code}
    BY <2>1 DEF With, Fresh
  <2>3. ReadOK(c) /\ FindsOwner(c)
    BY <2>2 DEF ReadOK, FindsOwner, Fresh
  <2>4. reads' = [reads EXCEPT ![r] = c] /\ UNCHANGED vars
    BY <1>3, <2>1 DEF AskConsulta, Ask
  <2> QED
    BY <2>3, <2>4, OneReadChanges
<1> QED
  BY <1>1, <1>2, <1>3 DEF AskRanking, AskPublicResults

\* The first statement of a consulta finds the owner, the second fails to find
\* the participant only after a write to the exam.
LEMMA StepKeeps ==
  ASSUME TypeOK, UniqueKeys, ReadersInv, NEW r \in Readers, ResultsStep(r)
  PROVE  ReadersInv'
<1>1. PICK c : c = reads[r]
  OBVIOUS
<1>2. c # Free
  BY <1>1 DEF ResultsStep, ReadExam, ReadParticipants, ReadQuestions, ReadPesos, FindCode,
              ReadParticipant, ReadDetailPesos, Detail, At, Free
<1>3. ReadOK(c) /\ FindsOwner(c)
  BY <1>1, <1>2 DEF ReadersInv
<1>4. ASSUME NEW d, {"step", "examId", "quiet"} \subseteq DOMAIN d, d.examId = c.examId,
             d.quiet = c.quiet, "code" \notin DOMAIN d,
             d.step \in {"rows", "ranked", "notFound"},
             d.step = "rows" => c.quiet \in BOOLEAN,
             reads' = [reads EXCEPT ![r] = d], UNCHANGED vars
      PROVE  ReadersInv'
  <2>1. ReadOK(d) /\ FindsOwner(d)
    BY <1>3, <1>4 DEF ReadOK, FindsOwner
  <2> QED
    BY <1>4, <2>1, OneReadChanges
<1>5. ASSUME NEW d, {"step", "examId", "quiet", "code"} \subseteq DOMAIN d,
             d.examId = c.examId, d.quiet = c.quiet, d.code = c.code,
             d.step \in {"detail", "detailed", "notFound"}, c.quiet \in BOOLEAN,
             d.step = "detail" => "id" \in DOMAIN d,
             c.quiet /\ c.examId \in DOMAIN exams =>
               \A code \in c.code : OwnersIn(c.examId, code) = Found(d),
             reads' = [reads EXCEPT ![r] = d], UNCHANGED vars
      PROVE  ReadersInv'
  <2>1. ReadOK(d) /\ FindsOwner(d)
    BY <1>3, <1>5 DEF ReadOK, FindsOwner
  <2> QED
    BY <1>5, <2>1, OneReadChanges
<1>6. CASE ReadExam(r)
  <2>1. /\ c.step = "exam" /\ UNCHANGED vars
        /\ \E fields : /\ reads' = [reads EXCEPT ![r] = With(c, fields)]
                       /\ \/ DOMAIN fields = {"step", "nota", "unread"} /\ fields.step = "rows"
                          \/ DOMAIN fields = {"step"} /\ fields.step = "notFound"
    BY <1>1, <1>6 DEF ReadExam, Advance, At
  <2>2. PICK fields : /\ reads' = [reads EXCEPT ![r] = With(c, fields)]
                      /\ \/ /\ DOMAIN fields = {"step", "nota", "unread"}
                            /\ fields.step = "rows"
                         \/ DOMAIN fields = {"step"} /\ fields.step = "notFound"
    BY <2>1
  <2>3. PICK d : d = With(c, fields)
    OBVIOUS
  <2>4. /\ DOMAIN d = DOMAIN c \cup DOMAIN fields /\ d.step = fields.step
        /\ d.examId = c.examId /\ d.quiet = c.quiet
    BY <1>3, <2>2, <2>3 DEF With, ReadOK
  <2>5. "code" \notin DOMAIN d /\ d.step \in {"rows", "notFound"}
    BY <1>3, <2>1, <2>2, <2>4 DEF ReadOK
  <2>6. {"step", "examId", "quiet"} \subseteq DOMAIN d /\ c.quiet \in BOOLEAN
    BY <1>3, <2>1, <2>4 DEF ReadOK
  <2> QED
    BY <1>4, <2>1, <2>2, <2>3, <2>4, <2>5, <2>6
<1>7. ASSUME NEW fields, NEW d, d = With(c, fields), c.step \in {"rows", "detail"}, UNCHANGED vars,
             "step" \notin DOMAIN fields, "examId" \notin DOMAIN fields,
             "quiet" \notin DOMAIN fields, "code" \notin DOMAIN fields,
             "id" \notin DOMAIN fields,
             reads' = [reads EXCEPT ![r] = d]
      PROVE  ReadersInv'
  <2>2. DOMAIN d = DOMAIN c \cup DOMAIN fields /\ \A f \in DOMAIN c \ DOMAIN fields : d[f] = c[f]
    BY <1>7 DEF With
  <2>3. /\ d.step = c.step /\ d.examId = c.examId /\ d.quiet = c.quiet
        /\ "code" \in DOMAIN d <=> "code" \in DOMAIN c
        /\ "code" \in DOMAIN c => d.code = c.code
    BY <1>3, <1>7, <2>2 DEF ReadOK
  <2>4. c.step = "detail" => "id" \in DOMAIN d /\ d.id = c.id
    BY <1>3, <1>7, <2>2 DEF ReadOK
  <2>5. ReadOK(d)
    BY <1>3, <1>7, <2>2, <2>3, <2>4 DEF ReadOK
  <2>6. FindsOwner(d)
    BY <1>3, <1>7, <2>3, <2>4 DEF FindsOwner, Found
  <2> QED
    BY <1>7, <2>5, <2>6, OneReadChanges
<1>8. CASE ReadParticipants(r) \/ ReadQuestions(r) \/ ReadDetailPesos(r)
  <2>1. /\ c.step \in {"rows", "detail"} /\ UNCHANGED vars
        /\ \E fields : /\ reads' = [reads EXCEPT ![r] = With(c, fields)]
                       /\ DOMAIN fields \subseteq {"unread", "people", "quests", "sumPesos"}
    BY <1>1, <1>8 DEF ReadParticipants, ReadQuestions, ReadDetailPesos, Advance, At
  <2>2. PICK fields : /\ reads' = [reads EXCEPT ![r] = With(c, fields)]
                      /\ DOMAIN fields \subseteq {"unread", "people", "quests", "sumPesos"}
    BY <2>1
  <2>3. /\ "step" \notin DOMAIN fields /\ "examId" \notin DOMAIN fields
        /\ "quiet" \notin DOMAIN fields /\ "code" \notin DOMAIN fields
        /\ "id" \notin DOMAIN fields
    BY <2>2
  <2>4. PICK d : d = With(c, fields)
    OBVIOUS
  <2> QED
    BY <1>7, <2>1, <2>2, <2>3, <2>4
<1>9. CASE ReadPesos(r)
  <2>1. PICK d : d = Ranked(c, SumPesos(c.examId))
    OBVIOUS
  <2>2. /\ DOMAIN d = {"step", "examId", "ranking", "porQuestao"} \cup DOMAIN Fresh
        /\ d.step = "ranked" /\ d.examId = c.examId /\ d.quiet = c.quiet
    BY <2>1 DEF Ranked, Fresh
  <2>3. reads' = [reads EXCEPT ![r] = d] /\ UNCHANGED vars
    BY <1>1, <1>9, <2>1 DEF ReadPesos
  <2> QED
    BY <1>4, <2>2, <2>3 DEF Fresh
<1>10. CASE FindCode(r)
  <2>1. c.step = "code" /\ "code" \in DOMAIN c /\ c.quiet \in BOOLEAN /\ UNCHANGED vars
    BY <1>1, <1>3, <1>10 DEF FindCode, At, Advance, ReadOK
  <2>2. PICK code \in c.code : c.code = {code}
    BY <1>3, <2>1 DEF ReadOK
  <2>3. UNION {OwnersIn(c.examId, x) : x \in c.code} = OwnersIn(c.examId, code)
    BY <2>2
  <2>4. CASE \E p \in OwnersIn(c.examId, code) :
               reads' = [reads EXCEPT ![r] = With(c, [step |-> "detail", id |-> p,
                           unread |-> {"participant", "pesos"}])]
    <3>1. PICK p \in OwnersIn(c.examId, code) :
            reads' = [reads EXCEPT ![r] = With(c, [step |-> "detail", id |-> p,
                        unread |-> {"participant", "pesos"}])]
      BY <2>4
    <3>2. PICK d : d = With(c, [step |-> "detail", id |-> p,
                                unread |-> {"participant", "pesos"}])
      OBVIOUS
    <3>3. /\ DOMAIN d = DOMAIN c \cup {"step", "id", "unread"}
          /\ d.step = "detail" /\ d.id = p
          /\ d.examId = c.examId /\ d.quiet = c.quiet /\ d.code = c.code
      BY <1>3, <2>1, <3>2 DEF With, ReadOK
    <3>4. OwnersIn(c.examId, code) = {p}
      BY <3>1 DEF UniqueKeys, OwnersIn, ParticipantsOf
    <3>5. Found(d) = {p}
      BY <3>3 DEF Found
    <3>6. \A x \in c.code : OwnersIn(c.examId, x) = Found(d)
      BY <2>2, <3>4, <3>5
    <3>7. {"step", "examId", "quiet", "code"} \subseteq DOMAIN d /\ "id" \in DOMAIN d
      BY <1>3, <2>1, <3>3 DEF ReadOK
    <3> QED
      BY <1>5, <2>1, <3>1, <3>2, <3>3, <3>6, <3>7
  <2>5. CASE OwnersIn(c.examId, code) = {}
             /\ reads' = [reads EXCEPT ![r] = With(c, [step |-> "notFound"])]
    <3>1. PICK d : d = With(c, [step |-> "notFound"])
      OBVIOUS
    <3>2. /\ DOMAIN d = DOMAIN c \cup {"step"} /\ d.step = "notFound"
          /\ d.examId = c.examId /\ d.quiet = c.quiet /\ d.code = c.code
      BY <1>3, <2>1, <3>1 DEF With, ReadOK
    <3>3. Found(d) = {}
      BY <3>2 DEF Found
    <3>4. \A x \in c.code : OwnersIn(c.examId, x) = Found(d)
      BY <2>2, <2>5, <3>3
    <3>5. {"step", "examId", "quiet", "code"} \subseteq DOMAIN d
      BY <1>3, <2>1, <3>2 DEF ReadOK
    <3> QED
      BY <1>5, <2>1, <2>5, <3>1, <3>2, <3>4, <3>5
  <2>6. \/ \E p \in OwnersIn(c.examId, code) :
               reads' = [reads EXCEPT ![r] = With(c, [step |-> "detail", id |-> p,
                           unread |-> {"participant", "pesos"}])]
        \/ /\ OwnersIn(c.examId, code) = {}
           /\ reads' = [reads EXCEPT ![r] = With(c, [step |-> "notFound"])]
    <3>1. PICK owners : owners = UNION {OwnersIn(c.examId, x) : x \in c.code}
      OBVIOUS
    <3>2. \/ \E p \in owners : Advance(r, [step |-> "detail", id |-> p,
                                           unread |-> {"participant", "pesos"}])
          \/ owners = {} /\ Advance(r, [step |-> "notFound"])
      BY <1>1, <1>10, <3>1 DEF FindCode
    <3> QED
      BY <1>1, <2>3, <3>1, <3>2 DEF Advance
  <2> QED
    BY <2>4, <2>5, <2>6
<1>11. CASE ReadParticipant(r)
  <2>1. c.step = "detail" /\ "code" \in DOMAIN c /\ c.quiet \in BOOLEAN /\ UNCHANGED vars
    BY <1>1, <1>3, <1>11 DEF ReadParticipant, At, Advance, ReadOK
  <2>2. CASE c.id \in ParticipantsOf(c.examId)
    <3>1. \E fields : /\ reads' = [reads EXCEPT ![r] = With(c, fields)]
                      /\ DOMAIN fields = {"unread", "sheet", "nota"}
      BY <1>1, <1>11, <2>2 DEF ReadParticipant, Advance
    <3>2. PICK fields : /\ reads' = [reads EXCEPT ![r] = With(c, fields)]
                        /\ DOMAIN fields = {"unread", "sheet", "nota"}
      BY <3>1
    <3>3. /\ "step" \notin DOMAIN fields /\ "examId" \notin DOMAIN fields
          /\ "quiet" \notin DOMAIN fields /\ "code" \notin DOMAIN fields
          /\ "id" \notin DOMAIN fields
      BY <3>2
    <3>4. PICK d : d = With(c, fields)
      OBVIOUS
    <3> QED
      BY <1>7, <2>1, <3>2, <3>3, <3>4
  <2>3. CASE c.id \notin ParticipantsOf(c.examId)
    <3>1. reads' = [reads EXCEPT ![r] = With(c, [step |-> "notFound"])]
      BY <1>1, <1>11, <2>3 DEF ReadParticipant, Advance
    <3>2. PICK d : d = With(c, [step |-> "notFound"])
      OBVIOUS
    <3>3. /\ DOMAIN d = DOMAIN c \cup {"step"} /\ d.step = "notFound"
          /\ d.examId = c.examId /\ d.quiet = c.quiet /\ d.code = c.code
      BY <1>3, <2>1, <3>2 DEF With, ReadOK
    <3>4. ASSUME c.quiet, c.examId \in DOMAIN exams, NEW code \in c.code
          PROVE  OwnersIn(c.examId, code) = Found(d)
      <4>1. OwnersIn(c.examId, code) = {c.id}
        BY <1>3, <2>1, <3>4 DEF FindsOwner, Found
      <4> QED
        BY <2>3, <4>1 DEF OwnersIn
    <3>5. {"step", "examId", "quiet", "code"} \subseteq DOMAIN d
      BY <1>3, <2>1, <3>3 DEF ReadOK
    <3> QED
      BY <1>5, <2>1, <3>1, <3>2, <3>3, <3>4, <3>5
  <2> QED
    BY <2>2, <2>3
<1>12. CASE Detail(r)
  <2>1. c.step = "detail" /\ "code" \in DOMAIN c /\ c.quiet \in BOOLEAN /\ UNCHANGED vars
    BY <1>1, <1>3, <1>12 DEF Detail, At, ReadOK
  <2>2. PICK d : d = [step |-> "detailed", examId |-> c.examId, quiet |-> c.quiet,
                      code |-> c.code, id |-> c.id,
                      notas |-> Notas(c.sheet, c.sumPesos, c.nota),
                      questoes |-> c.sheet.answers]
    OBVIOUS
  <2>5. reads' = [reads EXCEPT ![r] = d]
    BY <1>1, <1>12, <2>2 DEF Detail
  <2>6. /\ DOMAIN d = {"step", "examId", "quiet", "code", "id", "notas", "questoes"}
        /\ d.step = "detailed" /\ d.id = c.id
        /\ d.examId = c.examId /\ d.quiet = c.quiet /\ d.code = c.code
    BY <2>2
  <2>7. Found(d) = {c.id} /\ Found(c) = {c.id}
    BY <2>1, <2>6 DEF Found
  <2>8. c.quiet /\ c.examId \in DOMAIN exams =>
          \A code \in c.code : OwnersIn(c.examId, code) = Found(d)
    BY <1>3, <2>1, <2>7 DEF FindsOwner
  <2> QED
    BY <1>5, <2>1, <2>5, <2>6, <2>8
<1> QED
  BY <1>6, <1>8, <1>9, <1>10, <1>11, <1>12 DEF ResultsStep

-----------------------------------------------------------------------------

LEMMA InitReaders ==
  ASSUME ResultsInit
  PROVE  ReadersInv
  BY DEF ResultsInit, ReadersInv

LEMMA NextReaders ==
  ASSUME TypeOK, UniqueKeys, ReadersInv, [ResultsNext]_resultsVars
  PROVE  ReadersInv'
<1>1. CASE Next /\ reads' = Disturbed
  BY <1>1, DisturbedKeeps
<1>2. ASSUME NEW r \in Readers, ResultsStep(r)
      PROVE  ReadersInv'
  BY <1>2, StepKeeps
<1>3. ASSUME NEW r \in Readers, NEW e \in 1..serial.exam,
             \/ AskRanking(r, e) \/ AskPublicResults(r, e)
             \/ \E p \in 1..serial.participant : AskDetail(r, e, p)
             \/ \E code \in Codes : AskConsulta(r, e, code)
      PROVE  ReadersInv'
  BY <1>3, AskKeeps
<1>4. CASE UNCHANGED resultsVars
  BY <1>4, NoReadChanges
<1> QED
  BY <1>1, <1>2, <1>3, <1>4 DEF ResultsNext

\* Between two statements of a consulta the participant it has found stays
\* the one owner of its code, or the read has noticed a write.
THEOREM ReadersInvariance == ResultsSpec => []ReadersInv
<1>1. Init /\ [][Next]_vars => [](TypeOK /\ UniqueKeys)
  BY TypeCorrect, KeysStayUnique, PTL DEF Spec
<1>2. ResultsInit => ReadersInv
  BY InitReaders
<1>3. TypeOK /\ UniqueKeys /\ ReadersInv /\ [ResultsNext]_resultsVars => ReadersInv'
  BY NextReaders
<1> QED
  BY <1>1, <1>2, <1>3, ReadersOnlyRead, PTL DEF ResultsSpec, Spec

\* A consulta no write came across answers with the detail of the one
\* participant of the exam the code was given to, and refuses a code only
\* when nobody in the exam has it (consultaByCode and getDetail).
THEOREM ConsultaOfOwner == ResultsSpec => []ConsultaFindsOwner
<1>1. ReadersInv => ConsultaFindsOwner
  <2> SUFFICES ASSUME ReadersInv, NEW r \in Readers, NEW step \in {"detailed", "notFound"},
                      Undisturbed(r, step), "code" \in DOMAIN reads[r],
                      NEW code \in reads[r].code
               PROVE  OwnersIn(reads[r].examId, code) =
                        IF step = "notFound" THEN {} ELSE {reads[r].id}
    BY DEF ConsultaFindsOwner
  <2>1. PICK c : c = reads[r]
    OBVIOUS
  <2>2. c.step = step /\ c.quiet /\ c.examId \in DOMAIN exams
    BY <2>1 DEF Undisturbed, At
  <2>3. FindsOwner(c)
    BY <2>1, <2>2 DEF ReadersInv, Free
  <2> QED
    BY <2>1, <2>2, <2>3 DEF FindsOwner, Found
<1> QED
  BY <1>1, ReadersInvariance, PTL

-----------------------------------------------------------------------------
(* What a read holds is what the tables hold, until something is written   *)
(* to the results of its exam.                                             *)

People(e) == [p \in PresentIn(e) |-> SheetOf(p)]

RowOf(p, e) == RankingRow(p, SheetOf(p), SumPesos(e), exams[e].notaSimbolica)

\* The fields a read has when its statements have come back.
HasFields(c) ==
  /\ c.step = "rows" =>
       /\ {"nota", "unread"} \subseteq DOMAIN c
       /\ "participants" \notin c.unread => "people" \in DOMAIN c
       /\ "questions" \notin c.unread => "quests" \in DOMAIN c
  /\ c.step = "detail" =>
       /\ {"id", "unread"} \subseteq DOMAIN c
       /\ "participant" \notin c.unread => {"sheet", "nota"} \subseteq DOMAIN c
       /\ "pesos" \notin c.unread => "sumPesos" \in DOMAIN c

\* What they brought.
RowsCurrent(c) ==
  c.step = "rows" =>
    /\ c.nota = exams[c.examId].notaSimbolica
    /\ "participants" \notin c.unread => c.people = People(c.examId)
    /\ "questions" \notin c.unread => c.quests = QuestionsOf(c.examId)

RankedCurrent(c) ==
  c.step = "ranked" =>
    /\ c.ranking = Ranking(People(c.examId), SumPesos(c.examId),
                           exams[c.examId].notaSimbolica)
    /\ c.porQuestao = PorQuestao(People(c.examId), QuestionsOf(c.examId))

DetailCurrent(c) ==
  c.step = "detail" =>
    /\ "participant" \notin c.unread =>
         /\ c.id \in ParticipantsOf(c.examId)
         /\ c.sheet = SheetOf(c.id) /\ c.nota = exams[c.examId].notaSimbolica
    /\ "pesos" \notin c.unread => c.sumPesos = SumPesos(c.examId)

DetailedCurrent(c) ==
  c.step = "detailed" =>
    /\ c.id \in ParticipantsOf(c.examId)
    /\ c.notas = Notas(SheetOf(c.id), SumPesos(c.examId), exams[c.examId].notaSimbolica)
    /\ c.questoes = SheetOf(c.id).answers

Current(c) ==
  c.quiet /\ c.examId \in DOMAIN exams =>
    RowsCurrent(c) /\ RankedCurrent(c) /\ DetailCurrent(c) /\ DetailedCurrent(c)

ReadsCurrent ==
  \A r \in Readers : reads[r] = Free \/ (HasFields(reads[r]) /\ Current(reads[r]))

\* What the results of an exam are read from: nothing else of the tables.
LEMMA SameResults ==
  ASSUME NoOrphans, AnswersSameExam, NEW e \in DOMAIN exams,
         ResultData(e)' = ResultData(e)
  PROVE  /\ exams'[e].notaSimbolica = exams[e].notaSimbolica
         /\ QuestionsOf(e)' = QuestionsOf(e)
         /\ ParticipantsOf(e)' = ParticipantsOf(e)
         /\ SumPesos(e)' = SumPesos(e)
         /\ People(e)' = People(e)
         /\ \A p \in ParticipantsOf(e) : SheetOf(p)' = SheetOf(p)
<1> DEFINE asked == {a \in DOMAIN answers : answers[a].userId \in ParticipantsOf(e)}
<1>1. /\ exams'[e].notaSimbolica = exams[e].notaSimbolica
      /\ Restrict(questions, QuestionsOf(e))' = Restrict(questions, QuestionsOf(e))
      /\ Restrict(participants, ParticipantsOf(e))' = Restrict(participants, ParticipantsOf(e))
      /\ Restrict(answers, asked)' = Restrict(answers, asked)
  BY DEF ResultData
<1>2. /\ QuestionsOf(e)' = QuestionsOf(e)
      /\ \A q \in QuestionsOf(e) : questions'[q] = questions[q]
  BY <1>1 DEF Restrict
<1>3. /\ ParticipantsOf(e)' = ParticipantsOf(e)
      /\ \A p \in ParticipantsOf(e) : participants'[p] = participants[p]
  BY <1>1 DEF Restrict
<1>4. asked' = asked /\ \A a \in asked : answers'[a] = answers[a]
  <2> HIDE DEF asked
  <2> QED
    BY <1>1 DEF Restrict
<1>5. SumPesos(e)' = SumPesos(e)
  <2>1. [q \in QuestionsOf(e)' |-> questions'[q].peso]
          = [q \in QuestionsOf(e) |-> questions[q].peso]
    BY <1>2
  <2> QED
    BY <2>1 DEF SumPesos
<1>6. ASSUME NEW p \in ParticipantsOf(e)
      PROVE  SheetOf(p)' = SheetOf(p)
  <2> DEFINE mine == {a \in DOMAIN answers : answers[a].userId = p}
  <2>1. mine \subseteq asked /\ mine' = mine
    <3>1. \A a : a \in mine <=> a \in asked /\ answers[a].userId = p
      OBVIOUS
    <3>2. \A a : a \in mine' <=> a \in asked' /\ answers'[a].userId = p
      BY <1>3
    <3> HIDE DEF asked, mine
    <3> QED
      BY <1>4, <3>1, <3>2
  <2>2. \A a \in mine : answers'[a] = answers[a]
    BY <1>4, <2>1
  <2>3. \A a \in mine : answers[a].questId \in QuestionsOf(e)
    BY DEF AnswersSameExam, QuestionsOf, ParticipantsOf
  <2>4. \A a \in mine : questions'[answers'[a].questId] = questions[answers[a].questId]
    BY <1>2, <2>2, <2>3
  <2>5. \A a \in mine : Right(a)' = Right(a)
    BY <2>2, <2>4 DEF Right
  <2> HIDE DEF mine
  <2>6. [a \in mine' |->
           [questId |-> answers'[a].questId, marcada |-> answers'[a].alternativa,
            correctAnswer |-> questions'[answers'[a].questId].correctAnswer,
            acertou |-> Right(a)', peso |-> questions'[answers'[a].questId].peso]]
        = [a \in mine |->
           [questId |-> answers[a].questId, marcada |-> answers[a].alternativa,
            correctAnswer |-> questions[answers[a].questId].correctAnswer,
            acertou |-> Right(a), peso |-> questions[answers[a].questId].peso]]
    BY <2>1, <2>2, <2>4, <2>5
  <2>7. Marked(p)' = Marked(p)
    BY <2>6 DEF Marked, mine
  <2> QED
    BY <1>3, <2>7 DEF SheetOf
<1>7. People(e)' = People(e)
  <2>1. PresentIn(e)' = PresentIn(e) /\ PresentIn(e) \subseteq ParticipantsOf(e)
    BY <1>3 DEF PresentIn
  <2> QED
    BY <1>6, <2>1 DEF People
<1> QED
  BY <1>1, <1>2, <1>3, <1>5, <1>6, <1>7

LEMMA SameCurrent ==
  ASSUME NEW c, HasFields(c), Current(c), NoOrphans, AnswersSameExam,
         c.quiet /\ c.examId \in DOMAIN exams' =>
           c.examId \in DOMAIN exams /\ ResultData(c.examId)' = ResultData(c.examId)
  PROVE  (HasFields(c) /\ Current(c))'
<1>1. HasFields(c)'
  BY DEF HasFields
<1>2. ASSUME c.quiet, c.examId \in DOMAIN exams'
      PROVE  RowsCurrent(c)' /\ RankedCurrent(c)' /\ DetailCurrent(c)' /\ DetailedCurrent(c)'
  <2>1. c.examId \in DOMAIN exams
    BY <1>2
  <2>2. /\ exams'[c.examId].notaSimbolica = exams[c.examId].notaSimbolica
        /\ QuestionsOf(c.examId)' = QuestionsOf(c.examId)
        /\ ParticipantsOf(c.examId)' = ParticipantsOf(c.examId)
        /\ SumPesos(c.examId)' = SumPesos(c.examId)
        /\ People(c.examId)' = People(c.examId)
        /\ \A p \in ParticipantsOf(c.examId) : SheetOf(p)' = SheetOf(p)
    BY <1>2, <2>1, SameResults
  <2>3. RowsCurrent(c) /\ RankedCurrent(c) /\ DetailCurrent(c) /\ DetailedCurrent(c)
    BY <1>2, <2>1 DEF Current
  <2>4. RowsCurrent(c)'
    BY <2>2, <2>3 DEF RowsCurrent
  <2>5. RankedCurrent(c)'
    BY <2>2, <2>3 DEF RankedCurrent
  <2>6. DetailCurrent(c)'
    BY <2>2, <2>3 DEF DetailCurrent
  <2>7. DetailedCurrent(c)'
    BY <2>2, <2>3 DEF DetailedCurrent
  <2> QED
    BY <2>4, <2>5, <2>6, <2>7
<1> QED
  BY <1>1, <1>2 DEF Current

LEMMA DisturbedCurrent ==
  ASSUME TypeOK, NoOrphans, AnswersSameExam, ReadersInv, ReadsCurrent, Next,
         reads' = Disturbed
  PROVE  ReadsCurrent'
<1>1. \A e \in DOMAIN exams' : e \in 1..serial.exam => e \in DOMAIN exams
  BY NewExamIds
<1>2. ASSUME NEW r \in Readers
      PROVE  reads'[r] = Free \/ (HasFields(reads[r]) /\ Current(reads[r]))'
  <2>1. PICK c : c = reads[r]
    OBVIOUS
  <2>2. PICK d : d = reads'[r]
    OBVIOUS
  <2>3. \/ d = Free
        \/ c # Free /\ c.examId \notin Written /\ d = c
        \/ c # Free /\ d = Crossed(c)
    BY <2>1, <2>2 DEF Disturbed
  <2>4. CASE d = Free
    BY <2>2, <2>4
  <2>5. CASE c # Free /\ c.examId \notin Written /\ d = c
    <3>1. HasFields(c) /\ Current(c)
      BY <2>1, <2>5 DEF ReadsCurrent
    <3>2. c.examId \in 1..serial.exam
      BY <2>1, <2>5 DEF ReadersInv, ReadOK
    <3>3. c.examId \in DOMAIN exams' =>
            c.examId \in DOMAIN exams /\ ResultData(c.examId)' = ResultData(c.examId)
      BY <1>1, <2>5, <3>2 DEF Written
    <3>4. (HasFields(c) /\ Current(c))'
      BY <3>1, <3>3, SameCurrent
    <3> QED
      BY <2>2, <2>5, <3>4
  <2>6. CASE c # Free /\ d = Crossed(c)
    <3>1. HasFields(c) /\ {"step", "examId", "quiet"} \subseteq DOMAIN c
      BY <2>1, <2>6 DEF ReadsCurrent, ReadersInv, ReadOK
    <3>2. /\ DOMAIN d = DOMAIN c /\ d.quiet = FALSE
          /\ \A f \in DOMAIN c \ DOMAIN Fresh : d[f] = c[f]
      BY <2>6, <3>1, CrossedFields
    <3>3. d.step = c.step /\ ("unread" \in DOMAIN c => d.unread = c.unread)
      BY <3>1, <3>2 DEF Fresh
    <3>4. HasFields(d)
      BY <3>1, <3>2, <3>3 DEF HasFields
    <3>5. HasFields(d)' /\ Current(d)'
      BY <3>2, <3>4 DEF HasFields, Current
    <3> QED
      BY <2>2, <3>5
  <2> QED
    BY <2>3, <2>4, <2>5, <2>6
<1> QED
  BY <1>2 DEF ReadsCurrent

LEMMA OneReadCurrent ==
  ASSUME NoOrphans, AnswersSameExam, DOMAIN reads = Readers, ReadsCurrent, UNCHANGED vars,
         NEW r \in Readers, NEW c, reads' = [reads EXCEPT ![r] = c],
         HasFields(c), Current(c)
  PROVE  ReadsCurrent'
<1>1. UNCHANGED <<exams, questions, participants, answers>>
  BY DEF vars, tables
<1>2. \A e : ResultData(e)' = ResultData(e)
  BY <1>1 DEF ResultData, QuestionsOf, ParticipantsOf
<1>3. ASSUME NEW z \in Readers
      PROVE  reads'[z] = Free \/ (HasFields(reads[z]) /\ Current(reads[z]))'
  <2>1. PICK d : d = reads'[z]
    OBVIOUS
  <2>2. d = c \/ d = reads[z]
    BY <2>1
  <2>3. d = Free \/ (HasFields(d) /\ Current(d))
    BY <2>2 DEF ReadsCurrent
  <2>4. d = Free \/ (HasFields(d) /\ Current(d))'
    BY <1>1, <1>2, <2>3, SameCurrent
  <2> QED
    BY <2>1, <2>4
<1> QED
  BY <1>3 DEF ReadsCurrent

LEMMA AskCurrent ==
  ASSUME NoOrphans, AnswersSameExam, ReadersInv, ReadsCurrent,
         NEW r \in Readers, NEW e \in 1..serial.exam,
         \/ AskRanking(r, e)
         \/ AskPublicResults(r, e)
         \/ \E p \in 1..serial.participant : AskDetail(r, e, p)
         \/ \E code \in Codes : AskConsulta(r, e, code)
  PROVE  ReadsCurrent'
<1>1. PICK request :
        /\ Ask(r, request)
        /\ \/ DOMAIN request = {"step", "examId"} /\ request.step = "exam"
           \/ /\ DOMAIN request = {"step", "examId", "id", "code", "unread"}
              /\ request.step = "detail"
              /\ request.unread = {"participant", "pesos"}
           \/ DOMAIN request = {"step", "examId", "code"} /\ request.step = "code"
  <2>1. CASE Ask(r, [step |-> "exam", examId |-> e])
    BY <2>1
  <2>2. ASSUME NEW p, AskDetail(r, e, p)
        PROVE  \E request : /\ Ask(r, request)
                            /\ DOMAIN request = {"step", "examId", "id", "code", "unread"}
                            /\ request.step = "detail"
                            /\ request.unread = {"participant", "pesos"}
    BY <2>2 DEF AskDetail
  <2>3. ASSUME NEW code, AskConsulta(r, e, code)
        PROVE  \E request : /\ Ask(r, request)
                            /\ DOMAIN request = {"step", "examId", "code"}
                            /\ request.step = "code"
    BY <2>3 DEF AskConsulta
  <2> QED
    BY <2>1, <2>2, <2>3 DEF AskRanking, AskPublicResults
<1>2. PICK c : c = With(Fresh, request)
  OBVIOUS
<1>3. /\ DOMAIN c = DOMAIN Fresh \cup DOMAIN request /\ c.step = request.step
      /\ "unread" \in DOMAIN request => c.unread = request.unread
  BY <1>1, <1>2 DEF With, Fresh
<1>4. HasFields(c)
  BY <1>1, <1>3 DEF HasFields, Fresh
<1>5. Current(c)
  BY <1>1, <1>3 DEF Current, RowsCurrent, RankedCurrent, DetailCurrent, DetailedCurrent
<1>6. reads' = [reads EXCEPT ![r] = c] /\ UNCHANGED vars
  BY <1>1, <1>2 DEF Ask
<1> QED
  BY <1>4, <1>5, <1>6, OneReadCurrent DEF ReadersInv

LEMMA StepCurrent ==
  ASSUME NoOrphans, AnswersSameExam, ReadersInv, ReadsCurrent,
         NEW r \in Readers, ResultsStep(r)
  PROVE  ReadsCurrent'
<1>1. PICK c : c = reads[r]
  OBVIOUS
<1>2. c # Free
  BY <1>1 DEF ResultsStep, ReadExam, ReadParticipants, ReadQuestions, ReadPesos, FindCode,
              ReadParticipant, ReadDetailPesos, Detail, At, Free
<1>3. HasFields(c) /\ Current(c) /\ ReadOK(c)
  BY <1>1, <1>2 DEF ReadsCurrent, ReadersInv
<1>4. {"step", "examId", "quiet"} \subseteq DOMAIN c
  BY <1>3 DEF ReadOK
<1>5. ASSUME NEW d, reads' = [reads EXCEPT ![r] = d], UNCHANGED vars,
             HasFields(d), Current(d)
      PROVE  ReadsCurrent'
  BY <1>5, OneReadCurrent DEF ReadersInv
<1>6. ASSUME NEW fields, Advance(r, fields),
             DOMAIN fields = {"step"} /\ fields.step = "notFound"
      PROVE  ReadsCurrent'
  <2>1. PICK d : d = With(c, fields)
    OBVIOUS
  <2>2. d.step = "notFound"
    BY <1>6, <2>1 DEF With
  <2>3. HasFields(d) /\ Current(d)
    BY <2>2 DEF HasFields, Current, RowsCurrent, RankedCurrent, DetailCurrent,
                DetailedCurrent
  <2> QED
    BY <1>1, <1>5, <1>6, <2>1, <2>3 DEF Advance
<1>7. CASE ReadExam(r)
  <2>1. c.step = "exam"
    BY <1>1, <1>7 DEF ReadExam, At
  <2>2. CASE c.examId \in DOMAIN exams
    <3>1. PICK fields : fields = [step |-> "rows", nota |-> exams[c.examId].notaSimbolica,
                                  unread |-> {"participants", "questions"}]
      OBVIOUS
    <3>2. Advance(r, fields)
      BY <1>1, <1>7, <2>2, <3>1 DEF ReadExam
    <3>3. PICK d : d = With(c, fields)
      OBVIOUS
    <3>4. DOMAIN fields = {"step", "nota", "unread"}
      BY <3>1
    <3>5. /\ DOMAIN d = DOMAIN c \cup {"step", "nota", "unread"}
          /\ d.step = "rows" /\ d.nota = exams[c.examId].notaSimbolica
          /\ d.unread = {"participants", "questions"} /\ d.examId = c.examId
      BY <1>4, <3>1, <3>3, <3>4 DEF With
    <3>6. HasFields(d)
      BY <3>5 DEF HasFields
    <3>7. Current(d)
      BY <3>5 DEF Current, RowsCurrent, RankedCurrent, DetailCurrent, DetailedCurrent
    <3> QED
      BY <1>1, <1>5, <3>2, <3>3, <3>6, <3>7 DEF Advance
  <2>3. CASE c.examId \notin DOMAIN exams
    <3>1. Advance(r, [step |-> "notFound"])
      BY <1>1, <1>7, <2>3 DEF ReadExam
    <3> QED
      BY <1>6, <3>1
  <2> QED
    BY <2>2, <2>3
<1>8. CASE ReadParticipants(r)
  <2>1. PICK fields : fields = [unread |-> c.unread \ {"participants"},
                                people |-> [p \in PresentIn(c.examId) |-> SheetOf(p)]]
    OBVIOUS
  <2>2. c.step = "rows" /\ Advance(r, fields)
    BY <1>1, <1>8, <2>1 DEF ReadParticipants, At
  <2>3. PICK d : d = With(c, fields)
    OBVIOUS
  <2>4. DOMAIN fields = {"unread", "people"}
    BY <2>1
  <2>5. {"nota", "unread"} \subseteq DOMAIN c
        /\ ("questions" \notin c.unread => "quests" \in DOMAIN c)
    BY <1>3, <2>2 DEF HasFields
  <2>6. /\ DOMAIN d = DOMAIN c \cup {"unread", "people"}
        /\ d.step = "rows" /\ d.nota = c.nota /\ d.examId = c.examId /\ d.quiet = c.quiet
        /\ d.unread = c.unread \ {"participants"} /\ d.people = People(c.examId)
        /\ "quests" \in DOMAIN c => d.quests = c.quests
    BY <1>4, <2>1, <2>2, <2>3, <2>4, <2>5 DEF With, People
  <2>7. HasFields(d)
    BY <2>5, <2>6 DEF HasFields
  <2>8. Current(d)
    BY <1>3, <2>2, <2>5, <2>6
       DEF Current, RowsCurrent, RankedCurrent, DetailCurrent, DetailedCurrent
  <2> QED
    BY <1>1, <1>5, <2>2, <2>3, <2>7, <2>8 DEF Advance
<1>9. CASE ReadQuestions(r)
  <2>1. PICK fields : fields = [unread |-> c.unread \ {"questions"},
                                quests |-> QuestionsOf(c.examId)]
    OBVIOUS
  <2>2. c.step = "rows" /\ Advance(r, fields)
    BY <1>1, <1>9, <2>1 DEF ReadQuestions, At
  <2>3. PICK d : d = With(c, fields)
    OBVIOUS
  <2>4. DOMAIN fields = {"unread", "quests"}
    BY <2>1
  <2>5. {"nota", "unread"} \subseteq DOMAIN c
        /\ ("participants" \notin c.unread => "people" \in DOMAIN c)
    BY <1>3, <2>2 DEF HasFields
  <2>6. /\ DOMAIN d = DOMAIN c \cup {"unread", "quests"}
        /\ d.step = "rows" /\ d.nota = c.nota /\ d.examId = c.examId /\ d.quiet = c.quiet
        /\ d.unread = c.unread \ {"questions"} /\ d.quests = QuestionsOf(c.examId)
        /\ "people" \in DOMAIN c => d.people = c.people
    BY <1>4, <2>1, <2>2, <2>3, <2>4, <2>5 DEF With
  <2>7. HasFields(d)
    BY <2>5, <2>6 DEF HasFields
  <2>8. Current(d)
    BY <1>3, <2>2, <2>5, <2>6
       DEF Current, RowsCurrent, RankedCurrent, DetailCurrent, DetailedCurrent
  <2> QED
    BY <1>1, <1>5, <2>2, <2>3, <2>7, <2>8 DEF Advance
<1>10. CASE ReadPesos(r)
  <2>1. PICK d : d = Ranked(c, SumPesos(c.examId))
    OBVIOUS
  <2>2. /\ d.step = "ranked" /\ d.examId = c.examId /\ d.quiet = c.quiet
        /\ d.ranking = Ranking(c.people, SumPesos(c.examId), c.nota)
        /\ d.porQuestao = PorQuestao(c.people, c.quests)
    BY <2>1 DEF Ranked
  <2>3. c.step = "rows" /\ c.unread = {} /\ UNCHANGED vars
        /\ reads' = [reads EXCEPT ![r] = d]
    BY <1>1, <1>10, <2>1 DEF ReadPesos, At
  <2>4. HasFields(d)
    BY <2>2 DEF HasFields
  <2>5. Current(d)
    <3>1. c.quiet /\ c.examId \in DOMAIN exams =>
            /\ c.nota = exams[c.examId].notaSimbolica
            /\ c.people = People(c.examId) /\ c.quests = QuestionsOf(c.examId)
      BY <1>3, <2>3 DEF Current, RowsCurrent
    <3> QED
      BY <2>2, <3>1 DEF Current, RowsCurrent, RankedCurrent, DetailCurrent, DetailedCurrent
  <2> QED
    BY <1>5, <2>3, <2>4, <2>5
<1>11. CASE FindCode(r)
  <2>1. PICK owners : owners = UNION {OwnersIn(c.examId, x) : x \in c.code}
    OBVIOUS
  <2>2. \/ \E p \in owners : Advance(r, [step |-> "detail", id |-> p,
                                         unread |-> {"participant", "pesos"}])
        \/ Advance(r, [step |-> "notFound"])
    BY <1>1, <1>11, <2>1 DEF FindCode
  <2>3. ASSUME NEW p, Advance(r, [step |-> "detail", id |-> p,
                                  unread |-> {"participant", "pesos"}])
        PROVE  ReadsCurrent'
    <3>1. PICK fields : fields = [step |-> "detail", id |-> p,
                                  unread |-> {"participant", "pesos"}]
      OBVIOUS
    <3>2. PICK d : d = With(c, fields)
      OBVIOUS
    <3>3. DOMAIN fields = {"step", "id", "unread"}
      BY <3>1
    <3>4. /\ DOMAIN d = DOMAIN c \cup {"step", "id", "unread"}
          /\ d.step = "detail" /\ d.unread = {"participant", "pesos"}
      BY <3>1, <3>2, <3>3 DEF With
    <3>5. HasFields(d)
      BY <3>4 DEF HasFields
    <3>6. Current(d)
      BY <3>4 DEF Current, RowsCurrent, RankedCurrent, DetailCurrent, DetailedCurrent
    <3> QED
      BY <1>1, <1>5, <2>3, <3>1, <3>2, <3>5, <3>6 DEF Advance
  <2> QED
    BY <1>6, <2>2, <2>3
<1>12. CASE ReadParticipant(r)
  <2>1. c.step = "detail"
    BY <1>1, <1>12 DEF ReadParticipant, At
  <2>2. CASE c.id \in ParticipantsOf(c.examId)
    <3>1. PICK fields : fields = [unread |-> c.unread \ {"participant"},
                                  sheet |-> SheetOf(c.id),
                                  nota |-> exams[c.examId].notaSimbolica]
      OBVIOUS
    <3>2. Advance(r, fields)
      BY <1>1, <1>12, <2>2, <3>1 DEF ReadParticipant
    <3>3. PICK d : d = With(c, fields)
      OBVIOUS
    <3>4. DOMAIN fields = {"unread", "sheet", "nota"}
      BY <3>1
    <3>5. {"id", "unread"} \subseteq DOMAIN c
          /\ ("pesos" \notin c.unread => "sumPesos" \in DOMAIN c)
      BY <1>3, <2>1 DEF HasFields
    <3>6. /\ DOMAIN d = DOMAIN c \cup {"unread", "sheet", "nota"}
          /\ d.step = "detail" /\ d.examId = c.examId /\ d.quiet = c.quiet /\ d.id = c.id
          /\ d.unread = c.unread \ {"participant"} /\ d.sheet = SheetOf(c.id)
          /\ d.nota = exams[c.examId].notaSimbolica
          /\ "sumPesos" \in DOMAIN c => d.sumPesos = c.sumPesos
      BY <1>4, <2>1, <3>1, <3>3, <3>4, <3>5 DEF With
    <3>7. HasFields(d)
      BY <3>5, <3>6 DEF HasFields
    <3>8. Current(d)
      BY <1>3, <2>1, <2>2, <3>5, <3>6
         DEF Current, RowsCurrent, RankedCurrent, DetailCurrent, DetailedCurrent
    <3> QED
      BY <1>1, <1>5, <3>2, <3>3, <3>7, <3>8 DEF Advance
  <2>3. CASE c.id \notin ParticipantsOf(c.examId)
    <3>1. Advance(r, [step |-> "notFound"])
      BY <1>1, <1>12, <2>3 DEF ReadParticipant
    <3> QED
      BY <1>6, <3>1
  <2> QED
    BY <2>2, <2>3
<1>13. CASE ReadDetailPesos(r)
  <2>1. PICK fields : fields = [unread |-> c.unread \ {"pesos"},
                                sumPesos |-> SumPesos(c.examId)]
    OBVIOUS
  <2>2. c.step = "detail" /\ Advance(r, fields)
    BY <1>1, <1>13, <2>1 DEF ReadDetailPesos, At
  <2>3. PICK d : d = With(c, fields)
    OBVIOUS
  <2>4. DOMAIN fields = {"unread", "sumPesos"}
    BY <2>1
  <2>5. {"id", "unread"} \subseteq DOMAIN c
        /\ ("participant" \notin c.unread => {"sheet", "nota"} \subseteq DOMAIN c)
    BY <1>3, <2>2 DEF HasFields
  <2>6. /\ DOMAIN d = DOMAIN c \cup {"unread", "sumPesos"}
        /\ d.step = "detail" /\ d.examId = c.examId /\ d.quiet = c.quiet /\ d.id = c.id
        /\ d.unread = c.unread \ {"pesos"} /\ d.sumPesos = SumPesos(c.examId)
        /\ {"sheet", "nota"} \subseteq DOMAIN c => d.sheet = c.sheet /\ d.nota = c.nota
    BY <1>4, <2>1, <2>2, <2>3, <2>4, <2>5 DEF With
  <2>7. HasFields(d)
    BY <2>5, <2>6 DEF HasFields
  <2>8. Current(d)
    BY <1>3, <2>2, <2>5, <2>6
       DEF Current, RowsCurrent, RankedCurrent, DetailCurrent, DetailedCurrent
  <2> QED
    BY <1>1, <1>5, <2>2, <2>3, <2>7, <2>8 DEF Advance
<1>14. CASE Detail(r)
  <2>1. PICK notas : notas = Notas(c.sheet, c.sumPesos, c.nota)
    OBVIOUS
  <2>2. PICK d : d = [step |-> "detailed", examId |-> c.examId, quiet |-> c.quiet,
                      code |-> c.code, id |-> c.id, notas |-> notas,
                      questoes |-> c.sheet.answers]
    OBVIOUS
  <2>3. c.step = "detail" /\ c.unread = {} /\ UNCHANGED vars
        /\ reads' = [reads EXCEPT ![r] = d]
    BY <1>1, <1>14, <2>1, <2>2 DEF Detail, At
  <2>4. d.step = "detailed" /\ d.examId = c.examId /\ d.quiet = c.quiet /\ d.id = c.id
        /\ d.notas = notas /\ d.questoes = c.sheet.answers
    BY <2>2
  <2>6. c.quiet /\ c.examId \in DOMAIN exams =>
          /\ c.id \in ParticipantsOf(c.examId) /\ c.sheet = SheetOf(c.id)
          /\ c.nota = exams[c.examId].notaSimbolica /\ c.sumPesos = SumPesos(c.examId)
    BY <1>3, <2>3 DEF Current, DetailCurrent
  <2>7. HasFields(d)
    BY <2>4 DEF HasFields
  <2>8. Current(d)
    BY <2>1, <2>4, <2>6
       DEF Current, RowsCurrent, RankedCurrent, DetailCurrent, DetailedCurrent
  <2> QED
    BY <1>5, <2>3, <2>7, <2>8
<1> QED
  BY <1>7, <1>8, <1>9, <1>10, <1>11, <1>12, <1>13, <1>14 DEF ResultsStep

LEMMA NextCurrent ==
  ASSUME TypeOK, NoOrphans, AnswersSameExam, ReadersInv, ReadsCurrent,
         [ResultsNext]_resultsVars
  PROVE  ReadsCurrent'
<1>1. CASE Next /\ reads' = Disturbed
  BY <1>1, DisturbedCurrent
<1>2. ASSUME NEW r \in Readers, ResultsStep(r)
      PROVE  ReadsCurrent'
  BY <1>2, StepCurrent
<1>3. ASSUME NEW r \in Readers, NEW e \in 1..serial.exam,
             \/ AskRanking(r, e) \/ AskPublicResults(r, e)
             \/ \E p \in 1..serial.participant : AskDetail(r, e, p)
             \/ \E code \in Codes : AskConsulta(r, e, code)
      PROVE  ReadsCurrent'
  BY <1>3, AskCurrent
<1>4. CASE UNCHANGED resultsVars
  <2>1. UNCHANGED <<exams, questions, participants, answers>> /\ reads' = reads
    BY <1>4 DEF resultsVars, vars, tables
  <2>2. \A e : ResultData(e)' = ResultData(e)
    BY <2>1 DEF ResultData, QuestionsOf, ParticipantsOf
  <2>3. ASSUME NEW z \in Readers
        PROVE  reads'[z] = Free \/ (HasFields(reads[z]) /\ Current(reads[z]))'
    <3>1. PICK d : d = reads[z]
      OBVIOUS
    <3>2. d = Free \/ (HasFields(d) /\ Current(d))'
      BY <2>1, <2>2, <3>1, SameCurrent DEF ReadsCurrent
    <3> QED
      BY <2>1, <3>1, <3>2
  <2> QED
    BY <2>3 DEF ReadsCurrent
<1> QED
  BY <1>1, <1>2, <1>3, <1>4 DEF ResultsNext

\* Whatever a request for results has read is what the tables still hold, as
\* long as no call wrote to its exam: no statement of it can be stale unless
\* a write came across.
THEOREM ReadsStayCurrent == ResultsSpec => []ReadsCurrent
<1>1. Init /\ [][Next]_vars => [](TypeOK /\ NoOrphans /\ AnswersSameExam)
  BY TypeCorrect, NoRowIsOrphan, AnswersJoinOneExam, PTL DEF Spec
<1>2. ResultsInit => ReadsCurrent
  BY DEF ResultsInit, ReadsCurrent
<1>3. TypeOK /\ NoOrphans /\ AnswersSameExam /\ ReadersInv /\ ReadsCurrent
      /\ [ResultsNext]_resultsVars => ReadsCurrent'
  BY NextCurrent
<1> QED
  BY <1>1, <1>2, <1>3, ReadersInvariance, ReadersOnlyRead, PTL DEF ResultsSpec, Spec

-----------------------------------------------------------------------------
(* Sums per participant and sums per question.                             *)

LEMMA FiniteTables ==
  ASSUME TypeOK
  PROVE  /\ IsFiniteSet(DOMAIN answers)
         /\ \A e : IsFiniteSet(QuestionsOf(e)) /\ IsFiniteSet(ParticipantsOf(e))
<1>1. ASSUME NEW n \in Nat, NEW S, S \subseteq 1..n
      PROVE  IsFiniteSet(S)
  <2>1. IsFiniteSet(1..n)
    BY FS_Interval
  <2> QED
    BY <1>1, <2>1, FS_Subset
<1>2. /\ serial.answer \in Nat /\ DOMAIN answers \subseteq 1..serial.answer
      /\ serial.question \in Nat /\ DOMAIN questions \subseteq 1..serial.question
      /\ serial.participant \in Nat /\ DOMAIN participants \subseteq 1..serial.participant
  BY Typing DEF IsTable
<1>3. \A e : /\ QuestionsOf(e) \subseteq 1..serial.question
             /\ ParticipantsOf(e) \subseteq 1..serial.participant
  BY <1>2 DEF QuestionsOf, ParticipantsOf
<1> QED
  BY <1>1, <1>2, <1>3

\* The answers of a participant name different questions, all of the exam:
\* what is summed over answers is what the specification sums over questions.
LEMMA SheetIsMark ==
  ASSUME TypeOK, AnswersSameExam, UniqueKeys, NEW e \in DOMAIN exams,
         NEW p \in ParticipantsOf(e)
  PROVE  RowOf(p, e) = MarkOf(p, e)
<1> DEFINE mine == {a \in DOMAIN answers : answers[a].userId = p}
           right == {a \in mine : Right(a)}
           hit  == {q \in QuestionsOf(e) : Acertou(p, q)}
           done == {q \in QuestionsOf(e) : Respondeu(p, q)}
           of == [a \in mine |-> answers[a].questId]
           sheet == SheetOf(p)
           w == [a \in right |-> sheet.answers[a].peso]
           v == [q \in hit |-> questions[q].peso]
<1>1. /\ sheet.redacao = participants[p].redacaoNota
      /\ DOMAIN sheet.answers = mine
      /\ \A a \in mine : /\ sheet.answers[a].acertou = Right(a)
                         /\ sheet.answers[a].peso = questions[of[a]].peso
  BY DEF SheetOf, Marked
<1>2. Hits(sheet) = right
  <2> HIDE DEF sheet, mine
  <2> QED
    BY <1>1 DEF Hits
<1>3. \A a \in mine : answers[a].questId \in QuestionsOf(e)
  BY DEF AnswersSameExam, QuestionsOf, ParticipantsOf
<1>4. \A a, b \in mine : of[a] = of[b] => a = b
  BY DEF UniqueKeys, Pair
<1>5. Renames(of, mine, done)
  <2>1. \A a \in mine : of[a] \in done
    BY <1>3 DEF Respondeu
  <2>2. \A q \in done : \E a \in mine : of[a] = q
    BY DEF Respondeu
  <2> QED
    BY <1>4, <2>1, <2>2 DEF Renames
<1>6. Renames(of, right, hit)
  <2>1. \A a \in right : of[a] \in hit
    BY <1>3 DEF Acertou, Right
  <2>2. \A q \in hit : \E a \in right : of[a] = q
    BY DEF Acertou, Right
  <2> QED
    BY <1>4, <2>1, <2>2 DEF Renames
<1>7. IsFiniteSet(mine) /\ IsFiniteSet(right)
  <2>1. mine \subseteq DOMAIN answers /\ right \subseteq mine
    OBVIOUS
  <2> HIDE DEF mine, right
  <2> QED
    BY <2>1, FiniteTables, FS_Subset
<1>8. \A q \in QuestionsOf(e) : questions[q].peso \in Nat
  BY Typing DEF IsTable, Question, QuestionsOf, Ids
<1>9. \A a \in right : v[of[a]] \in Int /\ w[a] = v[of[a]]
  <2>1. \A a \in right : of[a] \in hit
    BY <1>6 DEF Renames
  <2> HIDE DEF of, sheet, mine
  <2>2. \A a \in right : a \in mine
    OBVIOUS
  <2> HIDE DEF right
  <2> QED
    BY <1>1, <1>8, <2>1, <2>2
<1> HIDE DEF mine, right, of, hit, done, sheet
<1>10. Cardinality(done) = Cardinality(mine) /\ Cardinality(hit) = Cardinality(right)
  BY <1>5, <1>6, <1>7, AsMany
<1>11. SumFunctionOnSet(w, right) = SumFunctionOnSet(v, hit)
  <2> HIDE DEF w, v
  <2> QED
    BY <1>6, <1>7, <1>9, SumRenamed
<1>12. Earned(sheet) = SumFunction(v)
  BY <1>2, <1>11 DEF Earned, SumFunction
<1> HIDE DEF w, v
<1>13. RowOf(p, e) = [participantId |-> p, earned |-> SumFunction(v),
                      sumPesos |-> SumPesos(e),
                      notaSimbolica |-> exams[e].notaSimbolica,
                      redacao |-> participants[p].redacaoNota,
                      acertos |-> Cardinality(hit), respondidas |-> Cardinality(done)]
  BY <1>1, <1>2, <1>10, <1>12 DEF RowOf, RankingRow, sheet
<1>14. MarkOf(p, e) = [participantId |-> p, earned |-> SumFunction(v),
                       sumPesos |-> SumPesos(e),
                       notaSimbolica |-> exams[e].notaSimbolica,
                       redacao |-> participants[p].redacaoNota,
                       acertos |-> Cardinality(hit), respondidas |-> Cardinality(done)]
  BY DEF MarkOf, SumPesos, v, hit, done
<1> QED
  BY <1>13, <1>14

-----------------------------------------------------------------------------
(* The order of a ranking.                                                 *)

LEMMA ProductIsInt ==
  ASSUME NEW a \in Int, NEW b \in Int
  PROVE  a * b \in Int
  OBVIOUS

\* Rows as one statement reads them: every answer of a participant is about
\* another question.
SheetOK(sheet) ==
  /\ sheet.redacao \in Int
  /\ IsFiniteSet(DOMAIN sheet.answers)
  /\ \A a \in DOMAIN sheet.answers : sheet.answers[a].peso \in Nat
  /\ \A a, b \in DOMAIN sheet.answers :
       sheet.answers[a].questId = sheet.answers[b].questId => a = b

PeopleOK(people) ==
  /\ IsFiniteSet(DOMAIN people) /\ DOMAIN people \subseteq Nat
  /\ \A p \in DOMAIN people : SheetOK(people[p])

LEMMA SheetsAreOK ==
  ASSUME TypeOK, NoOrphans, UniqueKeys, NEW p \in DOMAIN participants
  PROVE  SheetOK(SheetOf(p))
<1> DEFINE mine == {a \in DOMAIN answers : answers[a].userId = p}
           sheet == SheetOf(p)
<1>1. /\ sheet.redacao = participants[p].redacaoNota
      /\ DOMAIN sheet.answers = mine
      /\ \A a \in mine : /\ sheet.answers[a].questId = answers[a].questId
                         /\ sheet.answers[a].peso = questions[answers[a].questId].peso
  BY DEF SheetOf, Marked
<1>2. \A a \in mine : a \in DOMAIN answers /\ answers[a].userId = p
  OBVIOUS
<1>3. sheet.redacao \in Int
  BY <1>1, Typing DEF IsTable, Participant, Ids, NoNota
<1>4. IsFiniteSet(mine)
  <2>1. mine \subseteq DOMAIN answers
    OBVIOUS
  <2> HIDE DEF mine
  <2> QED
    BY <2>1, FiniteTables, FS_Subset
<1>5. \A a \in mine : questions[answers[a].questId].peso \in Nat
  <2>1. \A a \in mine : answers[a].questId \in DOMAIN questions
    BY <1>2 DEF NoOrphans
  <2> QED
    BY <2>1, Typing DEF IsTable, Question, Ids
<1>6. \A a, b \in mine : answers[a].questId = answers[b].questId => a = b
  BY <1>2 DEF UniqueKeys, Pair
<1> HIDE DEF mine, sheet
<1>7. SheetOK(sheet)
  BY <1>1, <1>3, <1>4, <1>5, <1>6 DEF SheetOK
<1> QED
  BY <1>7 DEF sheet

LEMMA PeopleAreOK ==
  ASSUME TypeOK, NoOrphans, UniqueKeys, NEW e
  PROVE  PeopleOK(People(e))
<1>1. DOMAIN People(e) = PresentIn(e)
      /\ \A p \in PresentIn(e) : People(e)[p] = SheetOf(p)
  BY DEF People
<1>2. PresentIn(e) \subseteq ParticipantsOf(e)
  BY DEF PresentIn
<1>3. IsFiniteSet(PresentIn(e)) /\ PresentIn(e) \subseteq Nat
  <2>1. ParticipantsOf(e) \subseteq 1..serial.participant /\ serial.participant \in Nat
    BY Typing DEF IsTable, ParticipantsOf
  <2> QED
    BY <1>2, <2>1, FiniteTables, FS_Subset
<1>4. \A p \in PresentIn(e) : SheetOK(SheetOf(p))
  BY <1>2, SheetsAreOK DEF ParticipantsOf
<1> QED
  BY <1>1, <1>3, <1>4 DEF PeopleOK

LEMMA EarnedIsInt ==
  ASSUME NEW sheet, SheetOK(sheet)
  PROVE  Earned(sheet) \in Int /\ IsFiniteSet(Hits(sheet))
<1> DEFINE w == [a \in Hits(sheet) |-> sheet.answers[a].peso]
<1>1. Hits(sheet) \subseteq DOMAIN sheet.answers
  BY DEF Hits
<1>2. IsFiniteSet(Hits(sheet))
  BY <1>1, FS_Subset DEF SheetOK
<1>3. DOMAIN w = Hits(sheet) /\ \A a \in Hits(sheet) : w[a] \in Int
  BY <1>1 DEF SheetOK
<1>4. Earned(sheet) = SumFunctionOnSet(w, DOMAIN w)
  BY DEF Earned, SumFunction
<1> HIDE DEF w
<1> QED
  BY <1>2, <1>3, <1>4, SumIsInt

LEMMA SumPesosIsInt ==
  ASSUME TypeOK, NEW e
  PROVE  SumPesos(e) \in Int
<1> DEFINE w == [q \in QuestionsOf(e) |-> questions[q].peso]
<1>1. DOMAIN w = QuestionsOf(e) /\ \A q \in QuestionsOf(e) : w[q] \in Int
  <2>1. \A q \in QuestionsOf(e) : questions[q].peso \in Nat
    BY Typing DEF IsTable, Question, QuestionsOf, Ids
  <2> QED
    BY <2>1
<1>2. SumPesos(e) = SumFunctionOnSet(w, DOMAIN w)
  BY DEF SumPesos, SumFunction
<1> HIDE DEF w
<1> QED
  BY <1>1, <1>2, FiniteTables, SumIsInt

LEMMA TotalIsInt ==
  ASSUME NEW sheet, SheetOK(sheet), NEW sumPesos \in Int, NEW nota \in Int, NEW p
  PROVE  Total(RankingRow(p, sheet, sumPesos, nota)) \in Int
<1> DEFINE row == RankingRow(p, sheet, sumPesos, nota)
           redacao == IF row.redacao = NoNota THEN 0 ELSE row.redacao
<1>1. row.earned \in Int /\ row.sumPesos \in Int /\ row.notaSimbolica \in Int
      /\ row.redacao \in Int
  BY EarnedIsInt DEF RankingRow, SheetOK
<1> HIDE DEF row
<1>2. redacao \in Int
  BY <1>1
<1> HIDE DEF redacao
<1>3. row.earned * row.notaSimbolica \in Int /\ redacao * row.sumPesos \in Int
  BY <1>1, <1>2, ProductIsInt
<1>4. Total(row) = IF row.sumPesos > 0
                     THEN row.earned * row.notaSimbolica + redacao * row.sumPesos
                     ELSE redacao
  BY DEF Total, redacao
<1>5. Total(row) \in Int
  BY <1>2, <1>3, <1>4
<1> QED
  BY <1>5 DEF row

RowsOf(people, sumPesos, nota) ==
  {RankingRow(p, people[p], sumPesos, nota) : p \in DOMAIN people}

\* Each mark once, the best first.
Lists(rows, marks) ==
  /\ IsFiniteSet(marks)
  /\ rows \in [1..Cardinality(marks) -> marks]
  /\ \A i, j \in 1..Cardinality(marks) : rows[i] = rows[j] => i = j
  /\ \A i, j \in 1..Cardinality(marks) : i < j => Before(rows[i], rows[j])
  /\ \A x \in marks : Total(x) \in Int

\* The rows of a ranking have one order: by mark, and by participant among
\* equal marks.  Whatever the sum and the scale, each participant has one row.
LEMMA RankingOfRows ==
  ASSUME NEW people, PeopleOK(people), NEW sumPesos \in Int, NEW nota \in Int
  PROVE  LET marks == RowsOf(people, sumPesos, nota) IN
         /\ Lists(Ranking(people, sumPesos, nota), marks)
         /\ Cardinality(marks) = Cardinality(DOMAIN people)
<1> DEFINE mark == [p \in DOMAIN people |-> RankingRow(p, people[p], sumPesos, nota)]
           marks == RowsOf(people, sumPesos, nota)
           n == Cardinality(marks)
           R == {pair \in marks \X marks : Before(pair[1], pair[2])}
<1>1. \A p \in DOMAIN people : mark[p].participantId = p
  BY DEF RankingRow
<1>2. marks = {mark[p] : p \in DOMAIN people}
  BY DEF RowsOf
<1>3. \A p \in DOMAIN people : Total(mark[p]) \in Int
  BY TotalIsInt DEF PeopleOK
<1> HIDE DEF mark, marks
<1>4. IsFiniteSet(DOMAIN people) /\ IsFiniteSet(marks)
      /\ Cardinality(marks) = Cardinality(DOMAIN people)
  <2>1. Renames(mark, DOMAIN people, marks)
    BY <1>1, <1>2 DEF Renames
  <2> QED
    BY <2>1, AsMany DEF PeopleOK
<1>5. ASSUME NEW x \in marks, NEW y \in marks
      PROVE  /\ Total(x) \in Int /\ Total(y) \in Int
             /\ x.participantId \in Int /\ y.participantId \in Int
             /\ x.participantId = y.participantId => x = y
  <2>1. PICK p \in DOMAIN people : x = mark[p]
    BY <1>2
  <2>2. PICK q \in DOMAIN people : y = mark[q]
    BY <1>2
  <2>3. p \in Int /\ q \in Int
    BY DEF PeopleOK
  <2> QED
    BY <1>1, <1>3, <2>1, <2>2, <2>3
<1>6. /\ \A x \in marks : <<x, x>> \notin R
      /\ \A x, y \in marks : x # y => <<x, y>> \in R \/ <<y, x>> \in R
      /\ \A x, y, z \in marks : <<x, y>> \in R /\ <<y, z>> \in R => <<x, z>> \in R
  <2>1. \A x, y \in marks : <<x, y>> \in R <=> Before(x, y)
    OBVIOUS
  <2> HIDE DEF R
  <2>2. \A x \in marks : ~Before(x, x)
    BY <1>5 DEF Before
  <2>3. \A x, y \in marks : x # y => Before(x, y) \/ Before(y, x)
    BY <1>5 DEF Before
  <2>4. \A x, y, z \in marks : Before(x, y) /\ Before(y, z) => Before(x, z)
    BY <1>5 DEF Before
  <2> QED
    BY <2>1, <2>2, <2>3, <2>4
<1>7. \E g \in [1..n -> marks] :
        /\ \A i, j \in 1..n : g[i] = g[j] => i = j
        /\ \A i, j \in 1..n : i < j => <<g[i], g[j]>> \in R
  <2> HIDE DEF R
  <2> QED
    BY <1>4, <1>6, SortedEnumeration
<1>8. PICK g \in SetToSeqs(marks) :
        \A i, j \in DOMAIN g : i < j => Before(g[i], g[j])
  <2>1. PICK g \in [1..n -> marks] :
          /\ \A i, j \in 1..n : g[i] = g[j] => i = j
          /\ \A i, j \in 1..n : i < j => <<g[i], g[j]>> \in R
    BY <1>7
  <2>2. g \in SetToSeqs(marks) /\ DOMAIN g = 1..n
    BY <2>1 DEF SetToSeqs
  <2>3. \A i, j \in 1..n : i < j => Before(g[i], g[j])
    BY <2>1
  <2> QED
    BY <2>2, <2>3
<1> DEFINE rows == CHOOSE rows \in SetToSeqs(marks) :
                     \A i, j \in DOMAIN rows : i < j => Before(rows[i], rows[j])
<1>9. Ranking(people, sumPesos, nota) = rows
  BY DEF Ranking, RowsOf, marks
<1>10. rows \in SetToSeqs(marks)
       /\ \A i, j \in DOMAIN rows : i < j => Before(rows[i], rows[j])
  BY <1>8
<1> HIDE DEF rows
<1>11. /\ rows \in [1..n -> marks]
       /\ \A i, j \in 1..n : rows[i] = rows[j] => i = j
       /\ \A i, j \in 1..n : i < j => Before(rows[i], rows[j])
  BY <1>10 DEF SetToSeqs
<1>12. \A x \in marks : Total(x) \in Int
  BY <1>5
<1> QED
  BY <1>4, <1>9, <1>11, <1>12 DEF marks, Lists

\* The rows a ranking gets from the tables as they are.
LEMMA RankingOfMarks ==
  ASSUME TypeOK, NoOrphans, AnswersSameExam, UniqueKeys, NEW e \in DOMAIN exams
  PROVE  LET marks == {MarkOf(p, e) : p \in PresentIn(e)} IN
         /\ Lists(Ranking(People(e), SumPesos(e), exams[e].notaSimbolica), marks)
         /\ Cardinality(marks) = Cardinality(PresentIn(e))
<1> DEFINE people == People(e)
           nota == exams[e].notaSimbolica
<1>1. DOMAIN people = PresentIn(e) /\ PresentIn(e) \subseteq ParticipantsOf(e)
  BY DEF People, PresentIn
<1>2. \A p \in DOMAIN people : RankingRow(p, people[p], SumPesos(e), nota) = MarkOf(p, e)
  <2> SUFFICES ASSUME NEW p \in PresentIn(e)
               PROVE  RankingRow(p, people[p], SumPesos(e), nota) = MarkOf(p, e)
    BY <1>1
  <2>1. people[p] = SheetOf(p)
    BY DEF People
  <2>2. RowOf(p, e) = MarkOf(p, e)
    BY <1>1, SheetIsMark
  <2> QED
    BY <2>1, <2>2 DEF RowOf
<1>3. PeopleOK(people)
  BY PeopleAreOK
<1>4. SumPesos(e) \in Int
  BY SumPesosIsInt
<1>5. nota \in Int
  BY Typing DEF IsTable, Exam, Ids
<1> HIDE DEF people, nota
<1>6. RowsOf(people, SumPesos(e), nota) = {MarkOf(p, e) : p \in PresentIn(e)}
  BY <1>1, <1>2 DEF RowsOf
<1> QED
  BY <1>1, <1>3, <1>4, <1>5, <1>6, RankingOfRows DEF people, nota

-----------------------------------------------------------------------------
(* The theorems on what readers are told.                                  *)

\* The lines of a detail: each is about a question of the exam the participant
\* answered, every such question has one, and it tells what the answer and the
\* question say.
LEMMA LinesOfSheet ==
  ASSUME TypeOK, AnswersSameExam, UniqueKeys, NEW e \in DOMAIN exams,
         NEW p \in ParticipantsOf(e)
  PROVE  LET lines == SheetOf(p).answers
             questoes == {lines[a] : a \in DOMAIN lines} IN
         /\ Cardinality(DOMAIN lines) = MarkOf(p, e).respondidas
         /\ {l.questId : l \in questoes} = {q \in QuestionsOf(e) : Respondeu(p, q)}
         /\ \A l \in questoes :
              /\ l.acertou = Acertou(p, l.questId)
              /\ l.correctAnswer = questions[l.questId].correctAnswer
              /\ l.peso = questions[l.questId].peso
              /\ \E a \in DOMAIN answers :
                   answers[a] = [userId |-> p, questId |-> l.questId,
                                 alternativa |-> l.marcada]
<1> DEFINE lines == SheetOf(p).answers
           mine == {a \in DOMAIN answers : answers[a].userId = p}
           questoes == {lines[a] : a \in DOMAIN lines}
<1>1. /\ DOMAIN lines = mine
      /\ \A a \in mine :
           /\ lines[a].questId = answers[a].questId
           /\ lines[a].marcada = answers[a].alternativa
           /\ lines[a].correctAnswer = questions[answers[a].questId].correctAnswer
           /\ lines[a].acertou = Right(a)
           /\ lines[a].peso = questions[answers[a].questId].peso
  BY DEF SheetOf, Marked
<1>2. \A a \in mine : a \in DOMAIN answers /\ answers[a].userId = p
  OBVIOUS
<1>3. \A a \in mine : answers[a].questId \in QuestionsOf(e)
  BY DEF AnswersSameExam, QuestionsOf, ParticipantsOf
<1>4. Cardinality(DOMAIN lines) = MarkOf(p, e).respondidas
  <2>1. RowOf(p, e).respondidas = Cardinality(DOMAIN SheetOf(p).answers)
    BY DEF RowOf, RankingRow
  <2> QED
    BY <2>1, SheetIsMark
<1>5. \A q \in QuestionsOf(e) : Respondeu(p, q) <=> \E a \in mine : answers[a].questId = q
  BY DEF Respondeu
<1>6. \A a \in mine : Right(a) = Acertou(p, answers[a].questId)
  <2> SUFFICES ASSUME NEW a \in mine
               PROVE  Right(a) <=> Acertou(p, answers[a].questId)
    BY DEF Right, Acertou
  <2>1. ASSUME NEW b \in DOMAIN answers, answers[b].userId = p,
               answers[b].questId = answers[a].questId
        PROVE  b = a
    BY <2>1 DEF UniqueKeys, Pair
  <2> QED
    BY <2>1 DEF Right, Acertou
<1>7. \A a \in mine : answers[a] = [userId |-> p, questId |-> answers[a].questId,
                                    alternativa |-> answers[a].alternativa]
  BY Typing DEF IsTable, Answer
<1>8. questoes = {lines[a] : a \in mine}
  BY <1>1
<1> HIDE DEF lines, mine
<1>9. {l.questId : l \in questoes} = {q \in QuestionsOf(e) : Respondeu(p, q)}
  BY <1>1, <1>3, <1>5, <1>8
<1>10. ASSUME NEW l \in questoes
       PROVE  /\ l.acertou = Acertou(p, l.questId)
              /\ l.correctAnswer = questions[l.questId].correctAnswer
              /\ l.peso = questions[l.questId].peso
              /\ \E a \in DOMAIN answers :
                   answers[a] = [userId |-> p, questId |-> l.questId,
                                 alternativa |-> l.marcada]
  <2>1. PICK a \in mine : l = lines[a]
    BY <1>8
  <2>2. l.questId = answers[a].questId /\ l.marcada = answers[a].alternativa
    BY <1>1, <2>1
  <2>3. a \in DOMAIN answers /\ answers[a] = [userId |-> p, questId |-> l.questId,
                                              alternativa |-> l.marcada]
    BY <1>2, <1>7, <2>2
  <2> QED
    BY <1>1, <1>6, <2>1, <2>2, <2>3
<1> QED
  BY <1>4, <1>9, <1>10 DEF lines

\* A detail no write came across shows the notas of the specification and the
\* lines of what its participant answered, though it is put together from two
\* statements that run side by side.
THEOREM DetailOfMark == ResultsSpec => []DetailIsExact
<1>1. TypeOK /\ AnswersSameExam /\ UniqueKeys /\ ReadsCurrent => DetailIsExact
  <2> SUFFICES ASSUME TypeOK, AnswersSameExam, UniqueKeys, ReadsCurrent,
                      NEW r \in Readers, Undisturbed(r, "detailed")
               PROVE  LET c == reads[r]
                          questoes == {c.questoes[a] : a \in DOMAIN c.questoes} IN
                      /\ \A f \in DOMAIN c.notas : c.notas[f] = MarkOf(c.id, c.examId)[f]
                      /\ Cardinality(DOMAIN c.questoes) = MarkOf(c.id, c.examId).respondidas
                      /\ {l.questId : l \in questoes}
                           = {q \in QuestionsOf(c.examId) : Respondeu(c.id, q)}
                      /\ \A l \in questoes :
                           /\ l.acertou = Acertou(c.id, l.questId)
                           /\ l.correctAnswer = questions[l.questId].correctAnswer
                           /\ l.peso = questions[l.questId].peso
                           /\ \E a \in DOMAIN answers :
                                answers[a] = [userId |-> c.id, questId |-> l.questId,
                                              alternativa |-> l.marcada]
    BY DEF DetailIsExact
  <2>1. PICK c : c = reads[r]
    OBVIOUS
  <2>2. c.step = "detailed" /\ c.quiet /\ c.examId \in DOMAIN exams /\ c # Free
    BY <2>1 DEF Undisturbed, At, Free
  <2>3. /\ c.id \in ParticipantsOf(c.examId)
        /\ c.notas = Notas(SheetOf(c.id), SumPesos(c.examId), exams[c.examId].notaSimbolica)
        /\ c.questoes = SheetOf(c.id).answers
    BY <2>1, <2>2 DEF ReadsCurrent, Current, DetailedCurrent
  <2>4. \A f \in DOMAIN c.notas : c.notas[f] = MarkOf(c.id, c.examId)[f]
    <3>1. RowOf(c.id, c.examId) = MarkOf(c.id, c.examId)
      BY <2>2, <2>3, SheetIsMark
    <3>2. \A f \in DOMAIN c.notas : c.notas[f] = RowOf(c.id, c.examId)[f]
      BY <2>3 DEF Notas, RowOf, RankingRow
    <3> QED
      BY <3>1, <3>2
  <2> QED
    BY <2>1, <2>2, <2>3, <2>4, LinesOfSheet
<1>2. Init /\ [][Next]_vars => [](TypeOK /\ AnswersSameExam /\ UniqueKeys)
  BY TypeCorrect, AnswersJoinOneExam, KeysStayUnique, PTL DEF Spec
<1> QED
  BY <1>1, <1>2, ReadsStayCurrent, ReadersOnlyRead, PTL DEF Spec

\* A ranking no write came across lists every present participant once with
\* the mark of the specification, best first, whatever number of participants,
\* questions and answers there are and however the four statements interleave
\* with other calls.
THEOREM RankingOfPresent == ResultsSpec => []RankingIsExact
<1>1. TypeOK /\ NoOrphans /\ AnswersSameExam /\ UniqueKeys /\ ReadsCurrent => RankingIsExact
  <2> SUFFICES ASSUME TypeOK, NoOrphans, AnswersSameExam, UniqueKeys,
                      ReadsCurrent, NEW r \in Readers, Undisturbed(r, "ranked")
               PROVE  LET e == reads[r].examId
                          rows == reads[r].ranking
                          present == {p \in ParticipantsOf(e) : participants[p].presenca} IN
                      /\ Len(rows) = Cardinality(present)
                      /\ {rows[i] : i \in DOMAIN rows} = {MarkOf(p, e) : p \in present}
                      /\ \A i, j \in DOMAIN rows : i < j => Total(rows[i]) >= Total(rows[j])
    BY DEF RankingIsExact
  <2>1. PICK c : c = reads[r]
    OBVIOUS
  <2>2. c.step = "ranked" /\ c.quiet /\ c.examId \in DOMAIN exams /\ c # Free
    BY <2>1 DEF Undisturbed, At, Free
  <2> DEFINE e == c.examId
             rows == c.ranking
             marks == {MarkOf(p, e) : p \in PresentIn(e)}
             n == Cardinality(marks)
  <2>3. rows = Ranking(People(e), SumPesos(e), exams[e].notaSimbolica)
    BY <2>1, <2>2 DEF ReadsCurrent, Current, RankedCurrent
  <2>4. /\ IsFiniteSet(marks) /\ n = Cardinality(PresentIn(e))
        /\ rows \in [1..n -> marks]
        /\ \A i, j \in 1..n : rows[i] = rows[j] => i = j
        /\ \A i, j \in 1..n : i < j => Before(rows[i], rows[j])
        /\ \A x \in marks : Total(x) \in Int
    BY <2>2, <2>3, RankingOfMarks DEF Lists
  <2>5. n \in Nat
    BY <2>4, FS_CardinalityType
  <2> HIDE DEF marks, rows
  <2>7. {rows[i] : i \in 1..n} = marks
    BY <2>4, Enumerated
  <2>8. DOMAIN rows = 1..n /\ Len(rows) = n
    BY <2>4, <2>5
  <2>9. \A i, j \in 1..n : i < j => Total(rows[i]) >= Total(rows[j])
    <3>1. \A i \in 1..n : Total(rows[i]) \in Int
      BY <2>4
    <3> QED
      BY <2>4, <3>1 DEF Before
  <2>10. PresentIn(e) = {p \in ParticipantsOf(e) : participants[p].presenca}
    BY DEF PresentIn
  <2>11. {rows[i] : i \in DOMAIN rows} = marks
    BY <2>7, <2>8
  <2>12. marks = {MarkOf(p, e) : p \in {x \in ParticipantsOf(e) : participants[x].presenca}}
    BY <2>10 DEF marks
  <2>13. Len(rows) = Cardinality({x \in ParticipantsOf(e) : participants[x].presenca})
    BY <2>4, <2>8, <2>10
  <2>14. \A i, j \in DOMAIN rows : i < j => Total(rows[i]) >= Total(rows[j])
    BY <2>8, <2>9
  <2> QED
    BY <2>1, <2>11, <2>12, <2>13, <2>14 DEF rows
<1>2. Init /\ [][Next]_vars => [](TypeOK /\ NoOrphans /\ AnswersSameExam /\ UniqueKeys)
  BY TypeCorrect, NoRowIsOrphan, AnswersJoinOneExam, KeysStayUnique, PTL DEF Spec
<1> QED
  BY <1>1, <1>2, ReadsStayCurrent, ReadersOnlyRead, PTL DEF Spec

-----------------------------------------------------------------------------
(* Hits and answers, by participant and by question.                       *)

\* w counts the pairs of a relation by the owner of a row, v by question.
Tallies(R, owner, D, S, T, w, v) ==
  /\ DOMAIN w = D /\ DOMAIN v = T
  /\ \A i \in D : w[i] = Cardinality({q \in T : <<owner[i], q>> \in R})
  /\ \A q \in T : v[q] = Cardinality({p \in S : <<p, q>> \in R})

\* A relation between participants and questions, summed over the rows of a
\* ranking and over the questions.
LEMMA SummedBothWays ==
  ASSUME NEW S, IsFiniteSet(S), NEW T, IsFiniteSet(T), NEW D, IsFiniteSet(D),
         NEW owner, Renames(owner, D, S), NEW R, NEW w, NEW v,
         Tallies(R, owner, D, S, T, w, v)
  PROVE  SumFunction(w) = SumFunction(v)
<1>. /\ DOMAIN w = D /\ DOMAIN v = T
     /\ \A i \in D : w[i] = Cardinality({q \in T : <<owner[i], q>> \in R})
     /\ \A q \in T : v[q] = Cardinality({p \in S : <<p, q>> \in R})
  BY DEF Tallies
<1> DEFINE u == [p \in S |-> Cardinality({q \in T : <<p, q>> \in R})]
<1>1. \A i \in D : owner[i] \in S
  BY DEF Renames
<1>2. \A p \in S : u[p] \in Int
  <2>1. ASSUME NEW p \in S
        PROVE  Cardinality({q \in T : <<p, q>> \in R}) \in Nat
    BY FS_Subset, FS_CardinalityType
  <2> QED
    BY <2>1
<1>3. \A i \in D : u[owner[i]] \in Int /\ w[i] = u[owner[i]]
  BY <1>1, <1>2
<1>4. RowsAndColumns(R, S, T, u, v)
  BY DEF RowsAndColumns
<1> HIDE DEF u
<1>5. SumFunctionOnSet(w, D) = SumFunctionOnSet(u, S)
  BY <1>3, SumRenamed
<1>6. SumFunctionOnSet(u, S) = SumFunctionOnSet(v, T)
  BY <1>4, CountedBothWays
<1> QED
  BY <1>5, <1>6 DEF SumFunction

\* What CountsAgree says of one ranking.
SameCounts(rows, per) ==
  /\ SumFunction([i \in DOMAIN rows |-> rows[i].acertos])
       = SumFunction([q \in DOMAIN per |-> per[q].acertos])
  /\ SumFunction([i \in DOMAIN rows |-> rows[i].respondidas])
       = SumFunction([q \in DOMAIN per |-> per[q].respondidas])

\* The answers of a sheet are about questions of the list.
About(sheet, quests) ==
  \A a \in DOMAIN sheet.answers : sheet.answers[a].questId \in quests

\* Counting the answers of a sheet is counting the questions they are about.
LEMMA SheetCounts ==
  ASSUME NEW sheet, SheetOK(sheet), NEW quests, About(sheet, quests),
         NEW chosen \in SUBSET DOMAIN sheet.answers
  PROVE  Cardinality(chosen)
           = Cardinality({q \in quests : \E a \in chosen : sheet.answers[a].questId = q})
<1> DEFINE of == [a \in chosen |-> sheet.answers[a].questId]
           met == {q \in quests : \E a \in chosen : sheet.answers[a].questId = q}
<1>1. Renames(of, chosen, met)
  BY DEF Renames, SheetOK, About
<1>2. IsFiniteSet(chosen)
  BY FS_Subset DEF SheetOK
<1> HIDE DEF of, met
<1>3. Cardinality(met) = Cardinality(chosen)
  BY <1>1, <1>2, AsMany
<1> QED
  BY <1>3 DEF met

\* Rows and statistics count one relation between participants and questions,
\* when every answer is about a question of the list.
LEMMA CountsOfRows ==
  ASSUME NEW people, PeopleOK(people), NEW sumPesos \in Int, NEW nota \in Int,
         NEW quests, IsFiniteSet(quests),
         \A p \in DOMAIN people : About(people[p], quests)
  PROVE  SameCounts(Ranking(people, sumPesos, nota), PorQuestao(people, quests))
<1> DEFINE rows == Ranking(people, sumPesos, nota)
           per == PorQuestao(people, quests)
           marks == RowsOf(people, sumPesos, nota)
           present == DOMAIN people
           n == Cardinality(marks)
           owner == [i \in 1..n |-> rows[i].participantId]
           answered == {pair \in present \X quests :
                          \E a \in DOMAIN people[pair[1]].answers :
                            people[pair[1]].answers[a].questId = pair[2]}
           hit == {pair \in present \X quests :
                     \E a \in Hits(people[pair[1]]) :
                       people[pair[1]].answers[a].questId = pair[2]}
<1>1. /\ IsFiniteSet(marks) /\ rows \in [1..n -> marks]
      /\ \A i, j \in 1..n : rows[i] = rows[j] => i = j
  BY RankingOfRows DEF Lists
<1>2. \A p \in present : Hits(people[p]) \subseteq DOMAIN people[p].answers
  BY DEF Hits
<1>3. ASSUME NEW p \in present
      PROVE  LET row == RankingRow(p, people[p], sumPesos, nota) IN
             /\ row.participantId = p
             /\ row.acertos = Cardinality({q \in quests : <<p, q>> \in hit})
             /\ row.respondidas = Cardinality({q \in quests : <<p, q>> \in answered})
  <2> DEFINE sheet == people[p]
             row == RankingRow(p, sheet, sumPesos, nota)
             met(chosen) == {q \in quests : \E a \in chosen : sheet.answers[a].questId = q}
  <2>1. /\ row.participantId = p
        /\ row.acertos = Cardinality(Hits(sheet))
        /\ row.respondidas = Cardinality(DOMAIN sheet.answers)
    BY DEF RankingRow
  <2>2. /\ {q \in quests : <<p, q>> \in hit} = met(Hits(sheet))
        /\ {q \in quests : <<p, q>> \in answered} = met(DOMAIN sheet.answers)
    OBVIOUS
  <2>3. SheetOK(sheet) /\ About(sheet, quests)
    BY DEF PeopleOK
  <2>4. Hits(sheet) \in SUBSET DOMAIN sheet.answers
    BY <1>2
  <2> HIDE DEF sheet, row, hit, answered
  <2>5. /\ Cardinality(Hits(sheet)) = Cardinality(met(Hits(sheet)))
        /\ Cardinality(DOMAIN sheet.answers) = Cardinality(met(DOMAIN sheet.answers))
    BY <2>3, <2>4, SheetCounts
  <2> QED
    BY <2>1, <2>2, <2>5 DEF row, sheet
<1>4. ASSUME NEW q \in quests
      PROVE  /\ per[q].acertos = Cardinality({p \in present : <<p, q>> \in hit})
             /\ per[q].respondidas = Cardinality({p \in present : <<p, q>> \in answered})
  <2> DEFINE on == {p \in present :
                      \E a \in DOMAIN people[p].answers : people[p].answers[a].questId = q}
             right == {p \in on : \E a \in Hits(people[p]) :
                                    people[p].answers[a].questId = q}
  <2>1. per[q] = [acertos |-> Cardinality(right), respondidas |-> Cardinality(on)]
    BY DEF PorQuestao
  <2>2. on = {p \in present : <<p, q>> \in answered}
    OBVIOUS
  <2>3. right = {p \in present : <<p, q>> \in hit}
    BY <1>2
  <2> HIDE DEF on, right, hit, answered
  <2> QED
    BY <2>1, <2>2, <2>3
<1>5. DOMAIN per = quests
  BY DEF PorQuestao
<1>6. \A x \in marks : \E p \in present : x = RankingRow(p, people[p], sumPesos, nota)
  BY DEF RowsOf
<1>7. \A p \in present : RankingRow(p, people[p], sumPesos, nota) \in marks
  BY DEF RowsOf
<1>8. n \in Nat /\ IsFiniteSet(1..n) /\ IsFiniteSet(present)
  BY <1>1, FS_CardinalityType, FS_Interval DEF PeopleOK
<1> HIDE DEF rows, per, marks, present, hit, answered
<1>9. ASSUME NEW i \in 1..n
      PROVE  /\ owner[i] \in present
             /\ rows[i] = RankingRow(owner[i], people[owner[i]], sumPesos, nota)
  <2>1. PICK p \in present : rows[i] = RankingRow(p, people[p], sumPesos, nota)
    BY <1>1, <1>6
  <2>2. owner[i] = p
    BY <1>3, <2>1
  <2> QED
    BY <2>1, <2>2
<1>10. {rows[i] : i \in 1..n} = marks
  BY <1>1, Enumerated
<1> HIDE DEF n
<1>11. Renames(owner, 1..n, present)
  <2>1. \A i, j \in 1..n : owner[i] = owner[j] => i = j
    <3> HIDE DEF owner
    <3> QED
      BY <1>1, <1>9
  <2>2. ASSUME NEW p \in present
        PROVE  \E i \in 1..n : owner[i] = p
    <3>1. PICK i \in 1..n : rows[i] = RankingRow(p, people[p], sumPesos, nota)
      BY <1>7, <1>10
    <3> QED
      BY <1>3, <3>1
  <2> HIDE DEF owner
  <2> QED
    BY <1>9, <2>1, <2>2 DEF Renames
<1>12. DOMAIN rows = 1..n
  BY <1>1
<1> HIDE DEF owner
<1>13. SumFunction([i \in DOMAIN rows |-> rows[i].acertos])
         = SumFunction([q \in DOMAIN per |-> per[q].acertos])
  <2> DEFINE w == [i \in 1..n |-> rows[i].acertos]
             v == [q \in quests |-> per[q].acertos]
  <2>1. Tallies(hit, owner, 1..n, present, quests, w, v)
    BY <1>3, <1>4, <1>9 DEF Tallies
  <2> HIDE DEF w, v
  <2>2. SumFunction(w) = SumFunction(v)
    BY <1>8, <1>11, <2>1, SummedBothWays
  <2> QED
    BY <1>5, <1>12, <2>2 DEF w, v
<1>14. SumFunction([i \in DOMAIN rows |-> rows[i].respondidas])
         = SumFunction([q \in DOMAIN per |-> per[q].respondidas])
  <2> DEFINE w == [i \in 1..n |-> rows[i].respondidas]
             v == [q \in quests |-> per[q].respondidas]
  <2>1. Tallies(answered, owner, 1..n, present, quests, w, v)
    BY <1>3, <1>4, <1>9 DEF Tallies
  <2> HIDE DEF w, v
  <2>2. SumFunction(w) = SumFunction(v)
    BY <1>8, <1>11, <2>1, SummedBothWays
  <2> QED
    BY <1>5, <1>12, <2>2 DEF w, v
<1> QED
  BY <1>13, <1>14 DEF SameCounts, rows, per

-----------------------------------------------------------------------------
(* Rankings written across.                                                *)

\* A line of a sheet that has the weight its question has.
Weighed(line, e) ==
  line.questId \in QuestionsOf(e) /\ line.peso = questions[line.questId].peso

\* What the lines of a sheet earn is part of the sum of the weights.
LEMMA EarnedWithin ==
  ASSUME TypeOK, NEW e, NEW sheet, SheetOK(sheet),
         \A a \in DOMAIN sheet.answers : Weighed(sheet.answers[a], e)
  PROVE  Earned(sheet) <= SumPesos(e)
<1> DEFINE right == Hits(sheet)
           of == [a \in right |-> sheet.answers[a].questId]
           met == {q \in QuestionsOf(e) : \E a \in right : sheet.answers[a].questId = q}
           w == [a \in right |-> sheet.answers[a].peso]
           v == [q \in QuestionsOf(e) |-> questions[q].peso]
<1>1. right \subseteq DOMAIN sheet.answers
  BY DEF Hits
<1>2. Renames(of, right, met)
  BY <1>1 DEF Renames, SheetOK, Weighed
<1>3. \A q \in QuestionsOf(e) : questions[q].peso \in Nat
  BY Typing DEF IsTable, Question, QuestionsOf, Ids
<1>4. \A a \in right : v[of[a]] \in Int /\ w[a] = v[of[a]]
  BY <1>1, <1>3 DEF Weighed
<1>5. (\A q \in QuestionsOf(e) : v[q] \in Nat) /\ DOMAIN v = QuestionsOf(e)
  BY <1>3
<1>6. IsFiniteSet(right) /\ IsFiniteSet(QuestionsOf(e)) /\ met \in SUBSET QuestionsOf(e)
  BY EarnedIsInt, FiniteTables
<1>7. Earned(sheet) = SumFunctionOnSet(w, right) /\ SumPesos(e) = SumFunctionOnSet(v, DOMAIN v)
  BY DEF Earned, SumPesos, SumFunction
<1> HIDE DEF right, of, met, w, v
<1>8. SumFunctionOnSet(w, right) = SumFunctionOnSet(v, met)
  BY <1>2, <1>4, <1>6, SumRenamed
<1>9. SumFunctionOnSet(v, met) <= SumFunctionOnSet(v, QuestionsOf(e))
  BY <1>5, <1>6, SumOfPart
<1> QED
  BY <1>5, <1>7, <1>8, <1>9

\* What ScaleHoldsWithWeights says of one ranking.
InScale(rows) == \A i \in DOMAIN rows : rows[i].earned <= rows[i].sumPesos

LEMMA ScaleOfRows ==
  ASSUME TypeOK, NEW e, NEW nota \in Int, NEW people, PeopleOK(people),
         \A p \in DOMAIN people : \A a \in DOMAIN people[p].answers :
           Weighed(people[p].answers[a], e)
  PROVE  InScale(Ranking(people, SumPesos(e), nota))
<1> DEFINE marks == RowsOf(people, SumPesos(e), nota)
           rows == Ranking(people, SumPesos(e), nota)
<1>1. Lists(rows, marks)
  BY SumPesosIsInt, RankingOfRows
<1>2. \A x \in marks : x.earned <= x.sumPesos
  <2> SUFFICES ASSUME NEW p \in DOMAIN people
               PROVE  LET x == RankingRow(p, people[p], SumPesos(e), nota) IN
                      x.earned <= x.sumPesos
    BY DEF RowsOf
  <2>1. Earned(people[p]) <= SumPesos(e)
    BY EarnedWithin DEF PeopleOK
  <2> QED
    BY <2>1 DEF RankingRow
<1> HIDE DEF marks, rows
<1>3. InScale(rows)
  BY <1>1, <1>2 DEF Lists, InScale
<1> QED
  BY <1>3 DEF rows

\* What a request for a ranking holds of the lists it has read, as long as no
\* question came or went since it came in; and of the weights, as long as none
\* went or changed its weight.
ListHeld(c) ==
  c.sameList =>
    /\ "questions" \notin c.unread => c.quests = QuestionsOf(c.examId)
    /\ "participants" \notin c.unread =>
         \A p \in DOMAIN c.people : About(c.people[p], QuestionsOf(c.examId))

WeightsHeld(c) ==
  c.sameWeights /\ "participants" \notin c.unread =>
    \A p \in DOMAIN c.people : \A a \in DOMAIN c.people[p].answers :
      Weighed(c.people[p].answers[a], c.examId)

\* The rest was read in one statement and stays as it was read.
RowsHeld(c) ==
  c.step = "rows" =>
    /\ c.nota \in Int
    /\ "participants" \notin c.unread => PeopleOK(c.people)
    /\ ListHeld(c) /\ WeightsHeld(c)

RankedHeld(c) ==
  c.step = "ranked" =>
    /\ c.sameList => SameCounts(c.ranking, c.porQuestao)
    /\ c.sameWeights => InScale(c.ranking)

Held(c) ==
  /\ c.step \in {"exam", "rows"} => DOMAIN Fresh \subseteq DOMAIN c
  /\ RowsHeld(c) /\ RankedHeld(c)

ReadsHeld == \A r \in Readers : reads[r] = Free \/ Held(reads[r])

\* A step that keeps the questions a request relies on keeps what it holds.
LEMMA SameHeld ==
  ASSUME NEW c, NEW d, Held(c), DOMAIN d = DOMAIN c, d.step = c.step, d.examId = c.examId,
         c.step = "rows" => /\ d.nota = c.nota /\ d.unread = c.unread
                            /\ "participants" \notin c.unread => d.people = c.people
                            /\ "questions" \notin c.unread => d.quests = c.quests,
         c.step = "ranked" => d = c,
         c.step = "rows" /\ d.sameList =>
           c.sameList /\ QuestionsOf(c.examId)' = QuestionsOf(c.examId),
         c.step = "rows" /\ d.sameWeights =>
           c.sameWeights /\ \A q \in QuestionsOf(c.examId) :
             q \in QuestionsOf(c.examId)' /\ questions'[q].peso = questions[q].peso
  PROVE  Held(d)'
<1>1. (c.step \in {"exam", "rows"} => DOMAIN Fresh \subseteq DOMAIN c)
      /\ RowsHeld(c) /\ RankedHeld(c)
  BY DEF Held
<1>2. (d.step \in {"exam", "rows"} => DOMAIN Fresh \subseteq DOMAIN d)'
  BY <1>1 DEF Fresh
<1>3. RankedHeld(d)'
  BY <1>1 DEF RankedHeld, SameCounts, InScale
<1>4. RowsHeld(d)'
  <2> SUFFICES ASSUME c.step = "rows"
               PROVE  /\ d.nota \in Int
                      /\ "participants" \notin d.unread => PeopleOK(d.people)
                      /\ ListHeld(d)' /\ WeightsHeld(d)'
    BY DEF RowsHeld
  <2>1. c.nota \in Int /\ ("participants" \notin c.unread => PeopleOK(c.people))
        /\ ListHeld(c) /\ WeightsHeld(c)
    BY <1>1 DEF RowsHeld
  <2>2. ListHeld(d)'
    BY <2>1 DEF ListHeld, About
  <2>3. WeightsHeld(d)'
    BY <2>1 DEF WeightsHeld, Weighed
  <2> QED
    BY <2>1, <2>2, <2>3
<1> QED
  BY <1>2, <1>3, <1>4 DEF Held

\* A step that does not write to the results of an exam leaves its questions
\* alone; nor does any step give questions to an exam that is gone.
LEMMA UnwrittenQuestions ==
  ASSUME TypeOK, NoOrphans, NoOrphans', AnswersSameExam, Next,
         NEW e \in 1..serial.exam, e \notin Written
  PROVE  /\ QuestionsOf(e)' = QuestionsOf(e)
         /\ \A q \in QuestionsOf(e) : questions'[q] = questions[q]
<1>1. e \in DOMAIN exams' => e \in DOMAIN exams
  BY NewExamIds
<1>2. CASE e \in DOMAIN exams
  <2>1. ResultData(e)' = ResultData(e)
    BY <1>2 DEF Written
  <2>2. Restrict(questions, QuestionsOf(e))' = Restrict(questions, QuestionsOf(e))
    BY <2>1 DEF ResultData
  <2> QED
    BY <2>2 DEF Restrict
<1>3. CASE e \notin DOMAIN exams
  <2>1. QuestionsOf(e) = {}
    BY <1>3 DEF NoOrphans, QuestionsOf
  <2>2. QuestionsOf(e)' = {}
    BY <1>1, <1>3 DEF NoOrphans, QuestionsOf
  <2> QED
    BY <2>1, <2>2
<1> QED
  BY <1>2, <1>3

LEMMA DisturbedHeld ==
  ASSUME TypeOK, NoOrphans, NoOrphans', AnswersSameExam, ReadersInv, ReadsCurrent, ReadsHeld,
         Next, reads' = Disturbed
  PROVE  ReadsHeld'
<1>1. ASSUME NEW r \in Readers
      PROVE  reads'[r] = Free \/ Held(reads[r])'
  <2>1. PICK c : c = reads[r]
    OBVIOUS
  <2>2. PICK d : d = reads'[r]
    OBVIOUS
  <2>3. \/ d = Free
        \/ c # Free /\ c.examId \notin Written /\ d = c
        \/ c # Free /\ c.examId \in Written /\ ~Settled(r) /\ d = Crossed(c)
    BY <2>1, <2>2 DEF Disturbed
  <2>4. CASE d = Free
    BY <2>2, <2>4
  <2>5. CASE c # Free /\ c.examId \notin Written /\ d = c
    <3>1. Held(c) /\ c.examId \in 1..serial.exam
      BY <2>1, <2>5 DEF ReadsHeld, ReadersInv, ReadOK
    <3>2. /\ QuestionsOf(c.examId)' = QuestionsOf(c.examId)
          /\ \A q \in QuestionsOf(c.examId) : questions'[q] = questions[q]
      BY <2>5, <3>1, UnwrittenQuestions
    <3>3. Held(d)'
      BY <2>5, <3>1, <3>2, SameHeld
    <3> QED
      BY <2>2, <3>3
  <2>6. CASE c # Free /\ c.examId \in Written /\ ~Settled(r) /\ d = Crossed(c)
    <3>1. Held(c) /\ HasFields(c) /\ {"step", "examId", "quiet"} \subseteq DOMAIN c
      BY <2>1, <2>6 DEF ReadsHeld, ReadsCurrent, ReadersInv, ReadOK
    <3>2. /\ DOMAIN d = DOMAIN c
          /\ \A f \in DOMAIN c \ DOMAIN Fresh : d[f] = c[f]
      BY <2>6, <3>1, CrossedFields
    <3>3. d.step = c.step /\ d.examId = c.examId
      BY <3>1, <3>2 DEF Fresh
    <3>4. c.step # "ranked"
      BY <2>1, <2>6 DEF Settled
    <3>5. c.step = "rows" =>
            /\ d.nota = c.nota /\ d.unread = c.unread
            /\ "participants" \notin c.unread => d.people = c.people
            /\ "questions" \notin c.unread => d.quests = c.quests
      BY <3>1, <3>2 DEF HasFields, Fresh
    <3>6. c.step = "rows" => DOMAIN Fresh \subseteq DOMAIN c
      BY <3>1 DEF Held
    <3>7. c.step = "rows" =>
            /\ d.sameList => c.sameList /\ c.examId \in ListKept
            /\ d.sameWeights => c.sameWeights /\ c.examId \in WeightsKept
      BY <2>6, <3>6 DEF Crossed, Fresh
    <3>8. Held(d)'
      BY <3>1, <3>2, <3>3, <3>4, <3>5, <3>7, SameHeld DEF ListKept, WeightsKept
    <3> QED
      BY <2>2, <3>8
  <2> QED
    BY <2>3, <2>4, <2>5, <2>6
<1> QED
  BY <1>1 DEF ReadsHeld

\* While the tables stand still, the other requests hold what they held.
LEMMA QuietHeld ==
  ASSUME NEW c, Held(c), UNCHANGED vars
  PROVE  Held(c)'
<1>1. UNCHANGED questions
  BY DEF vars, tables
<1>2. QuestionsOf(c.examId)' = QuestionsOf(c.examId)
  BY <1>1 DEF QuestionsOf
<1> QED
  BY <1>1, <1>2 DEF Held, RowsHeld, RankedHeld, ListHeld, WeightsHeld, Weighed, About,
                    SameCounts, InScale

LEMMA OneReadHeld ==
  ASSUME DOMAIN reads = Readers, ReadsHeld, UNCHANGED vars, NEW r \in Readers,
         NEW c, reads' = [reads EXCEPT ![r] = c], Held(c)
  PROVE  ReadsHeld'
<1>1. ASSUME NEW z \in Readers
      PROVE  reads'[z] = Free \/ Held(reads[z])'
  <2>1. PICK d : d = reads'[z]
    OBVIOUS
  <2>2. d = Free \/ Held(d)
    BY <2>1 DEF ReadsHeld
  <2>3. d = Free \/ Held(d)'
    BY <2>2, QuietHeld
  <2> QED
    BY <2>1, <2>3
<1> QED
  BY <1>1 DEF ReadsHeld

LEMMA AskHeld ==
  ASSUME DOMAIN reads = Readers, ReadsHeld, NEW r \in Readers, NEW request,
         Ask(r, request), request.step \in {"exam", "detail", "code"},
         "step" \in DOMAIN request
  PROVE  ReadsHeld'
<1>1. PICK c : c = With(Fresh, request)
  OBVIOUS
<1>2. DOMAIN c = DOMAIN Fresh \cup DOMAIN request /\ c.step = request.step
  BY <1>1 DEF With, Fresh
<1>3. Held(c)
  BY <1>2 DEF Held, RowsHeld, RankedHeld
<1>4. reads' = [reads EXCEPT ![r] = c] /\ UNCHANGED vars
  BY <1>1 DEF Ask
<1> QED
  BY <1>3, <1>4, OneReadHeld

\* The sheets of the participants of an exam fit its questions as they are.
LEMMA PeopleFit ==
  ASSUME AnswersSameExam, NEW e, NEW p \in PresentIn(e)
  PROVE  /\ About(People(e)[p], QuestionsOf(e))
         /\ \A a \in DOMAIN People(e)[p].answers : Weighed(People(e)[p].answers[a], e)
<1> DEFINE mine == {a \in DOMAIN answers : answers[a].userId = p}
           lines == People(e)[p].answers
<1>1. /\ DOMAIN lines = mine
      /\ \A a \in mine : /\ lines[a].questId = answers[a].questId
                         /\ lines[a].peso = questions[answers[a].questId].peso
  BY DEF People, SheetOf, Marked
<1>2. \A a \in mine : answers[a].questId \in QuestionsOf(e)
  BY DEF AnswersSameExam, QuestionsOf, PresentIn, ParticipantsOf
<1> HIDE DEF mine, lines
<1>3. \A a \in DOMAIN lines : lines[a].questId \in QuestionsOf(e) /\ Weighed(lines[a], e)
  BY <1>1, <1>2 DEF Weighed
<1> QED
  BY <1>3 DEF About, lines

LEMMA StepHeld ==
  ASSUME TypeOK, NoOrphans, AnswersSameExam, UniqueKeys, ReadersInv, ReadsCurrent, ReadsHeld,
         NEW r \in Readers, ResultsStep(r)
  PROVE  ReadsHeld'
<1>1. PICK c : c = reads[r]
  OBVIOUS
<1>2. c # Free
  BY <1>1 DEF ResultsStep, ReadExam, ReadParticipants, ReadQuestions, ReadPesos, FindCode,
              ReadParticipant, ReadDetailPesos, Detail, At, Free
<1>3. HasFields(c) /\ Held(c) /\ {"step", "examId", "quiet"} \subseteq DOMAIN c
  BY <1>1, <1>2 DEF ReadsCurrent, ReadsHeld, ReadersInv, ReadOK
<1>4. ASSUME NEW d, reads' = [reads EXCEPT ![r] = d], UNCHANGED vars, Held(d)
      PROVE  ReadsHeld'
  BY <1>4, OneReadHeld DEF ReadersInv
<1>5. ASSUME NEW fields, Advance(r, fields),
             \/ "step" \in DOMAIN fields /\ fields.step \in {"detail", "notFound"}
             \/ "step" \notin DOMAIN fields /\ c.step = "detail"
      PROVE  ReadsHeld'
  <2>1. PICK d : d = With(c, fields)
    OBVIOUS
  <2>2. d.step \in {"detail", "notFound"}
    BY <1>3, <1>5, <2>1 DEF With
  <2>3. Held(d)
    BY <2>2 DEF Held, RowsHeld, RankedHeld
  <2> QED
    BY <1>1, <1>4, <1>5, <2>1, <2>3 DEF Advance
<1>6. CASE ReadExam(r)
  <2>1. c.step = "exam"
    BY <1>1, <1>6 DEF ReadExam, At
  <2>2. CASE c.examId \in DOMAIN exams
    <3>1. PICK fields : fields = [step |-> "rows", nota |-> exams[c.examId].notaSimbolica,
                                  unread |-> {"participants", "questions"}]
      OBVIOUS
    <3>2. Advance(r, fields)
      BY <1>1, <1>6, <2>2, <3>1 DEF ReadExam
    <3>3. PICK d : d = With(c, fields)
      OBVIOUS
    <3>4. DOMAIN fields = {"step", "nota", "unread"}
      BY <3>1
    <3>5. /\ DOMAIN d = DOMAIN c \cup {"step", "nota", "unread"}
          /\ d.step = "rows" /\ d.nota = exams[c.examId].notaSimbolica
          /\ d.unread = {"participants", "questions"}
      BY <1>3, <3>1, <3>3, <3>4 DEF With
    <3>6. d.nota \in Int
      BY <2>2, <3>5, Typing DEF IsTable, Exam, Ids
    <3>7. DOMAIN Fresh \subseteq DOMAIN d
      BY <1>3, <2>1, <3>5 DEF Held
    <3>8. Held(d)
      BY <3>5, <3>6, <3>7 DEF Held, RowsHeld, RankedHeld, ListHeld, WeightsHeld
    <3> QED
      BY <1>1, <1>4, <3>2, <3>3, <3>8 DEF Advance
  <2>3. CASE c.examId \notin DOMAIN exams
    <3>1. Advance(r, [step |-> "notFound"])
      BY <1>1, <1>6, <2>3 DEF ReadExam
    <3> QED
      BY <1>5, <3>1
  <2> QED
    BY <2>2, <2>3
<1>7. CASE ReadParticipants(r)
  <2>1. PICK fields : fields = [unread |-> c.unread \ {"participants"},
                                people |-> [p \in PresentIn(c.examId) |-> SheetOf(p)]]
    OBVIOUS
  <2>2. c.step = "rows" /\ Advance(r, fields)
    BY <1>1, <1>7, <2>1 DEF ReadParticipants, At
  <2>3. PICK d : d = With(c, fields)
    OBVIOUS
  <2>4. DOMAIN fields = {"unread", "people"}
    BY <2>1
  <2>5. /\ {"nota", "unread"} \subseteq DOMAIN c
        /\ "questions" \notin c.unread => "quests" \in DOMAIN c
        /\ DOMAIN Fresh \subseteq DOMAIN c /\ RowsHeld(c)
    BY <1>3, <2>2 DEF HasFields, Held
  <2>6. /\ DOMAIN d = DOMAIN c \cup {"unread", "people"}
        /\ d.step = "rows" /\ d.nota = c.nota /\ d.examId = c.examId
        /\ d.unread = c.unread \ {"participants"} /\ d.people = People(c.examId)
        /\ "quests" \in DOMAIN c => d.quests = c.quests
        /\ d.sameList = c.sameList /\ d.sameWeights = c.sameWeights
    BY <1>3, <2>1, <2>2, <2>3, <2>4, <2>5 DEF With, People, Fresh
  <2>7. c.nota \in Int /\ ListHeld(c)
    BY <2>2, <2>5 DEF RowsHeld
  <2>8. PeopleOK(d.people)
    BY <2>6, PeopleAreOK
  <2>9. DOMAIN d.people = PresentIn(c.examId)
    BY <2>6 DEF People
  <2>10. ListHeld(d)
    BY <2>5, <2>6, <2>7, <2>9, PeopleFit DEF ListHeld
  <2>11. WeightsHeld(d)
    BY <2>6, <2>9, PeopleFit DEF WeightsHeld
  <2>12. Held(d)
    BY <2>5, <2>6, <2>7, <2>8, <2>10, <2>11 DEF Held, RowsHeld, RankedHeld
  <2> QED
    BY <1>1, <1>4, <2>2, <2>3, <2>12 DEF Advance
<1>8. CASE ReadQuestions(r)
  <2>1. PICK fields : fields = [unread |-> c.unread \ {"questions"},
                                quests |-> QuestionsOf(c.examId)]
    OBVIOUS
  <2>2. c.step = "rows" /\ Advance(r, fields)
    BY <1>1, <1>8, <2>1 DEF ReadQuestions, At
  <2>3. PICK d : d = With(c, fields)
    OBVIOUS
  <2>4. DOMAIN fields = {"unread", "quests"}
    BY <2>1
  <2>5. /\ {"nota", "unread"} \subseteq DOMAIN c
        /\ "participants" \notin c.unread => "people" \in DOMAIN c
        /\ DOMAIN Fresh \subseteq DOMAIN c /\ RowsHeld(c)
    BY <1>3, <2>2 DEF HasFields, Held
  <2>6. /\ DOMAIN d = DOMAIN c \cup {"unread", "quests"}
        /\ d.step = "rows" /\ d.nota = c.nota /\ d.examId = c.examId
        /\ d.unread = c.unread \ {"questions"} /\ d.quests = QuestionsOf(c.examId)
        /\ "people" \in DOMAIN c => d.people = c.people
        /\ d.sameList = c.sameList /\ d.sameWeights = c.sameWeights
    BY <1>3, <2>1, <2>2, <2>3, <2>4, <2>5 DEF With, Fresh
  <2>7. /\ c.nota \in Int /\ ListHeld(c) /\ WeightsHeld(c)
        /\ "participants" \notin c.unread => PeopleOK(c.people)
    BY <2>2, <2>5 DEF RowsHeld
  <2>8. ListHeld(d) /\ WeightsHeld(d)
    BY <2>5, <2>6, <2>7 DEF ListHeld, WeightsHeld
  <2>9. Held(d)
    BY <2>5, <2>6, <2>7, <2>8 DEF Held, RowsHeld, RankedHeld
  <2> QED
    BY <1>1, <1>4, <2>2, <2>3, <2>9 DEF Advance
<1>9. CASE ReadPesos(r)
  <2>1. PICK d : d = Ranked(c, SumPesos(c.examId))
    OBVIOUS
  <2>2. c.step = "rows" /\ c.unread = {} /\ UNCHANGED vars
        /\ reads' = [reads EXCEPT ![r] = d]
    BY <1>1, <1>9, <2>1 DEF ReadPesos, At
  <2>3. /\ d.step = "ranked" /\ d.sameList = c.sameList /\ d.sameWeights = c.sameWeights
        /\ d.ranking = Ranking(c.people, SumPesos(c.examId), c.nota)
        /\ d.porQuestao = PorQuestao(c.people, c.quests)
    BY <2>1 DEF Ranked
  <2>4. c.nota \in Int /\ PeopleOK(c.people) /\ ListHeld(c) /\ WeightsHeld(c)
    BY <1>3, <2>2 DEF Held, RowsHeld
  <2>5. c.sameList => SameCounts(d.ranking, d.porQuestao)
    <3> SUFFICES ASSUME c.sameList PROVE SameCounts(d.ranking, d.porQuestao)
      OBVIOUS
    <3>1. /\ c.quests = QuestionsOf(c.examId)
          /\ \A p \in DOMAIN c.people : About(c.people[p], c.quests)
      BY <2>2, <2>4 DEF ListHeld
    <3>2. IsFiniteSet(c.quests) /\ SumPesos(c.examId) \in Int
      BY <3>1, FiniteTables, SumPesosIsInt
    <3> QED
      BY <2>3, <2>4, <3>1, <3>2, CountsOfRows
  <2>6. c.sameWeights => InScale(d.ranking)
    BY <2>2, <2>3, <2>4, ScaleOfRows DEF WeightsHeld
  <2>7. Held(d)
    BY <2>3, <2>5, <2>6 DEF Held, RowsHeld, RankedHeld
  <2> QED
    BY <1>4, <2>2, <2>7
<1>10. CASE FindCode(r)
  <2>1. \/ \E p : Advance(r, [step |-> "detail", id |-> p,
                               unread |-> {"participant", "pesos"}])
        \/ Advance(r, [step |-> "notFound"])
    BY <1>10 DEF FindCode
  <2> QED
    BY <1>5, <2>1
<1>11. CASE ReadParticipant(r) \/ ReadDetailPesos(r)
  <2>1. c.step = "detail"
    BY <1>1, <1>11 DEF ReadParticipant, ReadDetailPesos, At
  <2>2. \/ Advance(r, [step |-> "notFound"])
        \/ \E fields : Advance(r, fields) /\ "step" \notin DOMAIN fields
    BY <1>11 DEF ReadParticipant, ReadDetailPesos
  <2> QED
    BY <1>5, <2>1, <2>2
<1>12. CASE Detail(r)
  <2>1. PICK d : /\ d.step = "detailed" /\ reads' = [reads EXCEPT ![r] = d]
    BY <1>12 DEF Detail
  <2>2. Held(d) /\ UNCHANGED vars
    BY <1>12, <2>1 DEF Held, RowsHeld, RankedHeld, Detail
  <2> QED
    BY <1>4, <2>1, <2>2
<1> QED
  BY <1>6, <1>7, <1>8, <1>9, <1>10, <1>11, <1>12 DEF ResultsStep

LEMMA NextHeld ==
  ASSUME TypeOK, NoOrphans, NoOrphans', AnswersSameExam, UniqueKeys, ReadersInv,
         ReadsCurrent, ReadsHeld, [ResultsNext]_resultsVars
  PROVE  ReadsHeld'
<1>1. CASE Next /\ reads' = Disturbed
  BY <1>1, DisturbedHeld
<1>2. ASSUME NEW r \in Readers, ResultsStep(r)
      PROVE  ReadsHeld'
  BY <1>2, StepHeld
<1>3. ASSUME NEW r \in Readers, NEW e \in 1..serial.exam,
             \/ AskRanking(r, e) \/ AskPublicResults(r, e)
             \/ \E p \in 1..serial.participant : AskDetail(r, e, p)
             \/ \E code \in Codes : AskConsulta(r, e, code)
      PROVE  ReadsHeld'
  <2> DEFINE Asks(request) == /\ Ask(r, request) /\ "step" \in DOMAIN request
                              /\ request.step \in {"exam", "detail", "code"}
  <2>1. ASSUME Ask(r, [step |-> "exam", examId |-> e])
        PROVE  \E request : Asks(request)
    BY <2>1
  <2>2. ASSUME NEW p, AskDetail(r, e, p)
        PROVE  \E request : Asks(request)
    BY <2>2 DEF AskDetail
  <2>3. ASSUME NEW code, AskConsulta(r, e, code)
        PROVE  \E request : Asks(request)
    BY <2>3 DEF AskConsulta
  <2>4. PICK request : Asks(request)
    BY <1>3, <2>1, <2>2, <2>3 DEF AskRanking, AskPublicResults
  <2> QED
    BY <2>4, AskHeld DEF ReadersInv
<1>4. CASE UNCHANGED resultsVars
  <2>1. UNCHANGED vars /\ reads' = reads
    BY <1>4 DEF resultsVars
  <2>2. ASSUME NEW z \in Readers
        PROVE  reads'[z] = Free \/ Held(reads[z])'
    <3>1. PICK d : d = reads[z]
      OBVIOUS
    <3>2. d = Free \/ Held(d)'
      BY <2>1, <3>1, QuietHeld DEF ReadsHeld
    <3> QED
      BY <2>1, <3>1, <3>2
  <2> QED
    BY <2>2 DEF ReadsHeld
<1> QED
  BY <1>1, <1>2, <1>3, <1>4 DEF ResultsNext

LEMMA ReadsHoldInvariance == ResultsSpec => []ReadsHeld
<1>1. Init /\ [][Next]_vars => [](TypeOK /\ NoOrphans /\ AnswersSameExam /\ UniqueKeys)
  BY TypeCorrect, NoRowIsOrphan, AnswersJoinOneExam, KeysStayUnique, PTL DEF Spec
<1>2. ResultsInit => ReadsHeld
  BY DEF ResultsInit, ReadsHeld
<1>3. TypeOK /\ NoOrphans /\ NoOrphans' /\ AnswersSameExam /\ UniqueKeys /\ ReadersInv
      /\ ReadsCurrent /\ ReadsHeld /\ [ResultsNext]_resultsVars => ReadsHeld'
  BY NextHeld
<1> QED
  BY <1>1, <1>2, <1>3, ReadersInvariance, ReadsStayCurrent, ReadersOnlyRead, PTL
     DEF ResultsSpec, Spec

\* Hits and answers counted by question add up to those counted by participant
\* in every ranking, whatever is answered, corrected, enrolled or removed while
\* its statements are read, as long as no question comes or goes.
THEOREM CountsOfRanking == ResultsSpec => []CountsAgree
<1>1. ReadsHeld => CountsAgree
  <2> SUFFICES ASSUME ReadsHeld, NEW r \in Readers, At(r, "ranked"), reads[r].sameList
               PROVE  SameCounts(reads[r].ranking, reads[r].porQuestao)
    BY DEF CountsAgree, SameCounts
  <2> QED
    BY DEF ReadsHeld, Held, RankedHeld, At, Free
<1> QED
  BY <1>1, ReadsHoldInvariance, PTL

\* No ranking has a mark above the scale but one a question was removed or
\* lost weight across: what is earned is read before the sum of the weights.
THEOREM ScaleOfRanking == ResultsSpec => []ScaleHoldsWithWeights
<1>1. ReadsHeld => ScaleHoldsWithWeights
  <2> SUFFICES ASSUME ReadsHeld, NEW r \in Readers, At(r, "ranked"), reads[r].sameWeights
               PROVE  InScale(reads[r].ranking)
    BY DEF ScaleHoldsWithWeights, InScale
  <2> QED
    BY DEF ReadsHeld, Held, RankedHeld, At, Free
<1> QED
  BY <1>1, ReadsHoldInvariance, PTL

-----------------------------------------------------------------------------
(* Consultas written across.                                               *)

\* An id that was given is not given again, and its exam and code stay.
LEMMA CodesStay ==
  ASSUME TypeOK, [Next]_vars, NEW p \in 1..serial.participant, p \in DOMAIN participants'
  PROVE  /\ p \in DOMAIN participants
         /\ participants'[p].examId = participants[p].examId
         /\ participants'[p].consultaCode = participants[p].consultaCode
<1>1. p \in DOMAIN participants /\ participants'[p].examId = participants[p].examId
  BY NextKeepsExam DEF IdsKeepExam, SameExamRows
<1>2. CASE CodesKeep
  BY <1>2 DEF CodesKeep
<1>3. ASSUME NEW s \in Slots, InsertParticipants(s)
      PROVE  participants'[p] = participants[p]
  BY <1>1, <1>3, EnrolledParticipant
<1> QED
  BY <1>1, <1>2, <1>3, CodesKeepOrEnrol

\* The participant a consulta has found, once FindCode found it.
OwnerHeld(c) ==
  c.step \in {"detail", "detailed"} =>
    \A code \in c.code :
      /\ c.id \in 1..serial.participant
      /\ c.id \in DOMAIN participants =>
           /\ participants[c.id].examId = c.examId
           /\ participants[c.id].consultaCode = code

OwnersHeld == \A r \in Readers : reads[r] = Free \/ OwnerHeld(reads[r])

LEMMA SameOwner ==
  ASSUME TypeOK, [Next]_vars, NEW c, OwnerHeld(c)
  PROVE  OwnerHeld(c)'
<1>1. serial.participant \in Nat /\ serial'.participant \in Nat
      /\ serial.participant <= serial'.participant
  <2>1. TypeOK'
    BY NextTypes
  <2>2. serial'.participant \in Nat
    BY <2>1 DEF TypeOK, TablesOK, Tables
  <2> QED
    BY <2>2, Typing, NextKeepsExam DEF IdsKeepExam
<1>2. SUFFICES ASSUME c.step \in {"detail", "detailed"}, NEW code \in c.code
               PROVE  /\ c.id \in 1..serial'.participant
                      /\ c.id \in DOMAIN participants' =>
                           /\ participants'[c.id].examId = c.examId
                           /\ participants'[c.id].consultaCode = code
  BY DEF OwnerHeld
<1>3. /\ c.id \in 1..serial.participant
      /\ c.id \in DOMAIN participants =>
           /\ participants[c.id].examId = c.examId
           /\ participants[c.id].consultaCode = code
  BY <1>2 DEF OwnerHeld
<1> QED
  BY <1>1, <1>3, CodesStay

LEMMA OneReadOwner ==
  ASSUME TypeOK, DOMAIN reads = Readers, OwnersHeld, UNCHANGED vars, NEW r \in Readers,
         NEW c, reads' = [reads EXCEPT ![r] = c], OwnerHeld(c)
  PROVE  OwnersHeld'
<1>1. ASSUME NEW z \in Readers
      PROVE  reads'[z] = Free \/ OwnerHeld(reads[z])'
  <2>1. PICK d : d = reads'[z]
    OBVIOUS
  <2>2. d = Free \/ OwnerHeld(d)
    BY <2>1 DEF OwnersHeld
  <2>3. d = Free \/ OwnerHeld(d)'
    BY <2>2, SameOwner
  <2> QED
    BY <2>1, <2>3
<1> QED
  BY <1>1 DEF OwnersHeld

LEMMA DisturbedOwner ==
  ASSUME TypeOK, ReadersInv, OwnersHeld, Next, reads' = Disturbed
  PROVE  OwnersHeld'
<1>1. ASSUME NEW r \in Readers
      PROVE  reads'[r] = Free \/ OwnerHeld(reads[r])'
  <2>1. PICK c : c = reads[r]
    OBVIOUS
  <2>2. PICK d : d = reads'[r]
    OBVIOUS
  <2>3. d = Free \/ (c # Free /\ d = c) \/ (c # Free /\ ~Settled(r) /\ d = Crossed(c))
    BY <2>1, <2>2 DEF Disturbed
  <2>4. CASE c # Free /\ d = c
    <3>1. OwnerHeld(d)'
      BY <2>1, <2>4, SameOwner DEF OwnersHeld
    <3> QED
      BY <2>2, <3>1
  <2>5. CASE c # Free /\ ~Settled(r) /\ d = Crossed(c)
    <3>1. ReadOK(c) /\ OwnerHeld(c)
      BY <2>1, <2>5 DEF ReadersInv, OwnersHeld
    <3>2. \A f \in DOMAIN c \ DOMAIN Fresh : d[f] = c[f]
      BY <2>5, <3>1, CrossedFields DEF ReadOK
    <3>3. d.step = c.step /\ d.examId = c.examId /\ c.step # "detailed"
          /\ (c.step = "detail" => d.code = c.code /\ d.id = c.id)
      BY <2>1, <2>5, <3>1, <3>2 DEF ReadOK, Fresh, Settled
    <3>4. OwnerHeld(d)
      BY <3>1, <3>3 DEF OwnerHeld
    <3>5. OwnerHeld(d)'
      BY <3>4, SameOwner
    <3> QED
      BY <2>2, <3>5
  <2> QED
    BY <2>2, <2>3, <2>4, <2>5
<1> QED
  BY <1>1 DEF OwnersHeld

LEMMA StepOwner ==
  ASSUME TypeOK, ReadersInv, OwnersHeld, NEW r \in Readers, ResultsStep(r)
  PROVE  OwnersHeld'
<1>1. PICK c : c = reads[r]
  OBVIOUS
<1>2. c # Free
  BY <1>1 DEF ResultsStep, ReadExam, ReadParticipants, ReadQuestions, ReadPesos, FindCode,
              ReadParticipant, ReadDetailPesos, Detail, At, Free
<1>3. ReadOK(c) /\ OwnerHeld(c)
  BY <1>1, <1>2 DEF ReadersInv, OwnersHeld
<1>4. ASSUME NEW d, reads' = [reads EXCEPT ![r] = d], UNCHANGED vars, OwnerHeld(d)
      PROVE  OwnersHeld'
  BY <1>4, OneReadOwner DEF ReadersInv
<1>5. ASSUME NEW fields, Advance(r, fields), "step" \in DOMAIN fields,
             fields.step \in {"rows", "notFound"}
      PROVE  OwnersHeld'
  <2>1. PICK d : d = With(c, fields)
    OBVIOUS
  <2>2. d.step \in {"rows", "notFound"}
    BY <1>5, <2>1 DEF With
  <2>3. OwnerHeld(d)
    BY <2>2 DEF OwnerHeld
  <2> QED
    BY <1>1, <1>4, <1>5, <2>1, <2>3 DEF Advance
<1>6. ASSUME NEW fields, Advance(r, fields), c.step \in {"rows", "detail"},
             DOMAIN fields \subseteq {"unread", "people", "quests", "sheet", "nota", "sumPesos"}
      PROVE  OwnersHeld'
  <2>1. PICK d : d = With(c, fields)
    OBVIOUS
  <2>2. \A f \in DOMAIN c \ DOMAIN fields : d[f] = c[f]
    BY <2>1 DEF With
  <2>3. d.step = c.step /\ d.examId = c.examId
        /\ (c.step = "detail" => d.code = c.code /\ d.id = c.id)
    BY <1>3, <1>6, <2>2 DEF ReadOK
  <2>4. OwnerHeld(d)
    BY <1>3, <1>6, <2>3 DEF OwnerHeld
  <2> QED
    BY <1>1, <1>4, <1>6, <2>1, <2>4 DEF Advance
<1>7. CASE ReadExam(r)
  <2>1. \E fields : /\ Advance(r, fields) /\ "step" \in DOMAIN fields
                    /\ fields.step \in {"rows", "notFound"}
    <3>1. \/ Advance(r, [step |-> "rows", nota |-> exams[c.examId].notaSimbolica,
                          unread |-> {"participants", "questions"}])
          \/ Advance(r, [step |-> "notFound"])
      BY <1>1, <1>7 DEF ReadExam
    <3> QED
      BY <3>1
  <2> QED
    BY <1>5, <2>1
<1>8. CASE ReadParticipants(r) \/ ReadQuestions(r) \/ ReadDetailPesos(r)
  <2>1. /\ c.step \in {"rows", "detail"}
        /\ \E fields : /\ Advance(r, fields)
                       /\ DOMAIN fields \subseteq {"unread", "people", "quests", "sumPesos"}
    BY <1>1, <1>8 DEF ReadParticipants, ReadQuestions, ReadDetailPesos, At
  <2> QED
    BY <1>6, <2>1
<1>9. CASE ReadPesos(r)
  <2>1. PICK d : d = Ranked(c, SumPesos(c.examId))
    OBVIOUS
  <2>2. reads' = [reads EXCEPT ![r] = d] /\ UNCHANGED vars
    BY <1>1, <1>9, <2>1 DEF ReadPesos
  <2>3. OwnerHeld(d)
    BY <2>1 DEF Ranked, OwnerHeld
  <2> QED
    BY <1>4, <2>2, <2>3
<1>10. CASE FindCode(r)
  <2>1. c.step = "code" /\ "code" \in DOMAIN c
    BY <1>1, <1>3, <1>10 DEF FindCode, At, ReadOK
  <2>2. PICK code \in c.code : c.code = {code}
    BY <1>3, <2>1 DEF ReadOK
  <2>3. UNION {OwnersIn(c.examId, x) : x \in c.code} = OwnersIn(c.examId, code)
    BY <2>2
  <2>4. ASSUME NEW p \in OwnersIn(c.examId, code),
               Advance(r, [step |-> "detail", id |-> p,
                           unread |-> {"participant", "pesos"}])
        PROVE  OwnersHeld'
    <3>1. PICK fields : fields = [step |-> "detail", id |-> p,
                                  unread |-> {"participant", "pesos"}]
      OBVIOUS
    <3>2. PICK d : d = With(c, fields)
      OBVIOUS
    <3>3. DOMAIN fields = {"step", "id", "unread"}
      BY <3>1
    <3>4. d.id = p /\ d.code = c.code /\ d.examId = c.examId
      BY <1>3, <2>1, <3>1, <3>2, <3>3 DEF With, ReadOK
    <3>5. /\ p \in DOMAIN participants /\ participants[p].examId = c.examId
          /\ participants[p].consultaCode = code
      BY DEF OwnersIn, ParticipantsOf
    <3>6. p \in 1..serial.participant
      BY <3>5, Typing DEF IsTable
    <3>7. OwnerHeld(d)
      BY <2>2, <3>4, <3>5, <3>6 DEF OwnerHeld
    <3> QED
      BY <1>1, <1>4, <2>4, <3>1, <3>2, <3>7 DEF Advance
  <2>5. \/ \E p \in OwnersIn(c.examId, code) :
             Advance(r, [step |-> "detail", id |-> p,
                         unread |-> {"participant", "pesos"}])
        \/ Advance(r, [step |-> "notFound"])
    <3>1. PICK owners : owners = UNION {OwnersIn(c.examId, x) : x \in c.code}
      OBVIOUS
    <3>2. \/ \E p \in owners : Advance(r, [step |-> "detail", id |-> p,
                                           unread |-> {"participant", "pesos"}])
          \/ Advance(r, [step |-> "notFound"])
      BY <1>1, <1>10, <3>1 DEF FindCode
    <3> QED
      BY <2>3, <3>1, <3>2
  <2> QED
    BY <1>5, <2>4, <2>5
<1>11. CASE ReadParticipant(r)
  <2>1. c.step = "detail"
    BY <1>1, <1>11 DEF ReadParticipant, At
  <2>2. \/ Advance(r, [step |-> "notFound"])
        \/ \E fields : Advance(r, fields) /\ DOMAIN fields = {"unread", "sheet", "nota"}
    BY <1>11 DEF ReadParticipant
  <2> QED
    BY <1>5, <1>6, <2>1, <2>2
<1>12. CASE Detail(r)
  <2>1. c.step = "detail" /\ UNCHANGED vars
    BY <1>1, <1>12 DEF Detail, At
  <2>2. PICK d : d = [step |-> "detailed", examId |-> c.examId, quiet |-> c.quiet,
                      code |-> c.code, id |-> c.id,
                      notas |-> Notas(c.sheet, c.sumPesos, c.nota),
                      questoes |-> c.sheet.answers]
    OBVIOUS
  <2>3. reads' = [reads EXCEPT ![r] = d]
    BY <1>1, <1>12, <2>2 DEF Detail
  <2>4. d.id = c.id /\ d.code = c.code /\ d.examId = c.examId
    BY <2>2
  <2>5. OwnerHeld(d)
    BY <1>3, <2>1, <2>4 DEF OwnerHeld
  <2> QED
    BY <1>4, <2>1, <2>3, <2>5
<1> QED
  BY <1>7, <1>8, <1>9, <1>10, <1>11, <1>12 DEF ResultsStep

LEMMA AskOwner ==
  ASSUME TypeOK, ReadersInv, OwnersHeld, NEW r \in Readers, NEW e,
         \/ AskRanking(r, e) \/ AskPublicResults(r, e)
         \/ \E p \in 1..serial.participant : AskDetail(r, e, p)
         \/ \E code \in Codes : AskConsulta(r, e, code)
  PROVE  OwnersHeld'
<1>1. ASSUME NEW request, Ask(r, request), "step" \in DOMAIN request,
             \/ request.step \in {"exam", "code"}
             \/ "code" \in DOMAIN request /\ request.code = {}
      PROVE  OwnersHeld'
  <2>1. PICK c : c = With(Fresh, request)
    OBVIOUS
  <2>2. c.step = request.step /\ ("code" \in DOMAIN request => c.code = request.code)
    BY <1>1, <2>1 DEF With, Fresh
  <2>3. OwnerHeld(c)
    BY <1>1, <2>2 DEF OwnerHeld
  <2>4. reads' = [reads EXCEPT ![r] = c] /\ UNCHANGED vars
    BY <1>1, <2>1 DEF Ask
  <2> QED
    BY <2>3, <2>4, OneReadOwner DEF ReadersInv
<1>2. ASSUME Ask(r, [step |-> "exam", examId |-> e])
      PROVE  OwnersHeld'
  BY <1>1, <1>2
<1>3. ASSUME NEW p, AskDetail(r, e, p)
      PROVE  OwnersHeld'
  BY <1>1, <1>3 DEF AskDetail
<1>4. ASSUME NEW code, AskConsulta(r, e, code)
      PROVE  OwnersHeld'
  BY <1>1, <1>4 DEF AskConsulta
<1> QED
  BY <1>2, <1>3, <1>4 DEF AskRanking, AskPublicResults

LEMMA NextOwner ==
  ASSUME TypeOK, ReadersInv, OwnersHeld, [ResultsNext]_resultsVars
  PROVE  OwnersHeld'
<1>1. CASE Next /\ reads' = Disturbed
  BY <1>1, DisturbedOwner
<1>2. ASSUME NEW r \in Readers, StepOf(r)
      PROVE  OwnersHeld'
  BY <1>2, StepOwner, AskOwner DEF StepOf
<1>3. CASE UNCHANGED resultsVars
  <2>1. UNCHANGED vars /\ reads' = reads
    BY <1>3 DEF resultsVars
  <2>2. ASSUME NEW z \in Readers
        PROVE  reads'[z] = Free \/ OwnerHeld(reads[z])'
    <3>1. PICK d : d = reads[z]
      OBVIOUS
    <3>2. d = Free \/ OwnerHeld(d)'
      BY <2>1, <3>1, SameOwner DEF OwnersHeld
    <3> QED
      BY <2>1, <3>1, <3>2
  <2> QED
    BY <2>2 DEF OwnersHeld
<1> QED
  BY <1>1, <1>2, <1>3, ReadersStep

\* A consulta never shows another participant than the owner of its code in
\* that exam, though the second statement looks at the id alone and anything
\* may be enrolled or removed between the two.
THEOREM ConsultaOfNoOther == ResultsSpec => []ConsultaShowsOwner
<1>1. OwnersHeld => ConsultaShowsOwner
  BY DEF OwnersHeld, OwnerHeld, ConsultaShowsOwner, At, Free
<1>2. Init /\ [][Next]_vars => []TypeOK
  BY TypeCorrect, PTL DEF Spec
<1>3. ResultsInit => OwnersHeld
  BY DEF ResultsInit, OwnersHeld
<1>4. TypeOK /\ ReadersInv /\ OwnersHeld /\ [ResultsNext]_resultsVars => OwnersHeld'
  BY NextOwner
<1> QED
  BY <1>1, <1>2, <1>3, <1>4, ReadersInvariance, ReadersOnlyRead, PTL DEF ResultsSpec, Spec
=============================================================================
