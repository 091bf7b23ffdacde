--------------------------- MODULE ResultsService ---------------------------
(***************************************************************************)
(* results.service.ts and its two controllers: the ranking of an exam and  *)
(* the detail of a participant, for administrators and, two days after the *)
(* exam is closed, for visitors.                                           *)
(*                                                                         *)
(* Neither reads in a transaction.  A ranking is put together from four    *)
(* statements - the exam, the participants with their answers and the      *)
(* questions of those, the list of questions, the sum of the weights - the *)
(* second and third in parallel; the services of EnemExams write between   *)
(* them.  One statement of Prisma is one step, whatever it includes.       *)
(*                                                                         *)
(* Quotients are not computed: a row keeps its numerator, its denominator  *)
(* and its scale, and rows of one ranking are compared after scaling.      *)
(* nome, which breaks ties, is the participant's id.  The counter that     *)
(* limits the tries of a consulta is module ConsultaRate.                  *)
(***************************************************************************)
EXTENDS EnemExams, SequencesExt

CONSTANT Readers   \* requests for results in progress

\* What each reader holds between two awaits, and at last its response.  Three
\* fields are history: since the request came in nothing of the exam's results
\* was written (quiet), no question of the exam came or went (sameList), none
\* went or changed its weight (sameWeights).
VARIABLE reads

resultsVars == <<vars, reads>>

Free == [step |-> "free"]
At(r, step) == reads[r].step = step
Settled(r) == reads[r].step \in {"free", "ranked", "detailed", "notFound"}

\* What a read holds, with fields set or added.
With(read, fields) ==
  [f \in DOMAIN fields \cup DOMAIN read |->
     IF f \in DOMAIN fields THEN fields[f] ELSE read[f]]

Fresh == [quiet |-> TRUE, sameList |-> TRUE, sameWeights |-> TRUE]

Ask(r, request) ==
  /\ Settled(r)
  /\ reads' = [reads EXCEPT ![r] = With(Fresh, request)]
  /\ UNCHANGED vars

Advance(r, fields) ==
  /\ reads' = [reads EXCEPT ![r] = With(@, fields)]
  /\ UNCHANGED vars

-----------------------------------------------------------------------------
(* What the statements return.                                             *)

Right(a) == answers[a].alternativa = questions[answers[a].questId].correctAnswer

\* answers: { include: { quest } } of one participant.
Marked(p) ==
  [a \in {x \in DOMAIN answers : answers[x].userId = p} |->
     LET quest == questions[answers[a].questId] IN
     [questId |-> answers[a].questId, marcada |-> answers[a].alternativa,
      correctAnswer |-> quest.correctAnswer, acertou |-> Right(a),
      peso |-> quest.peso]]

SheetOf(p) == [redacao |-> participants[p].redacaoNota, answers |-> Marked(p)]

\* where: { examId, presenca: true }
PresentIn(e) == {p \in ParticipantsOf(e) : participants[p].presenca}

\* A sum without its filter.
SumPesosAnyExam(e) == SumFunction([q \in DOMAIN questions |-> questions[q].peso])

\* aggregate _sum of peso, null and then 0 when the exam has no question.
SumPesos(e) == SumFunction([q \in QuestionsOf(e) |-> questions[q].peso])

-----------------------------------------------------------------------------
(* What is computed from them.                                             *)

Hits(sheet) == {a \in DOMAIN sheet.answers : sheet.answers[a].acertou}

\* The count of hits in place of their weights.
EarnedUnweighted(sheet) == Cardinality(Hits(sheet))

\* The numerator of ponderada: earned / sumPesos * notaSimbolica.
Earned(sheet) == SumFunction([a \in Hits(sheet) |-> sheet.answers[a].peso])

\* total * sumPesos: ponderada is 0 when there are no weights, a missing
\* essay mark counts for 0.
Total(row) ==
  LET redacao == IF row.redacao = NoNota THEN 0 ELSE row.redacao IN
  IF row.sumPesos > 0 THEN row.earned * row.notaSimbolica + redacao * row.sumPesos
                      ELSE redacao

Before(x, y) ==
  \/ Total(x) > Total(y)
  \/ Total(x) = Total(y) /\ x.participantId < y.participantId

RankingRow(p, sheet, sumPesos, nota) ==
  [participantId |-> p, earned |-> Earned(sheet), sumPesos |-> sumPesos,
   notaSimbolica |-> nota, redacao |-> sheet.redacao,
   acertos |-> Cardinality(Hits(sheet)),
   respondidas |-> Cardinality(DOMAIN sheet.answers)]

\* What computeNotaFromLoaded divides, scales and adds up.
Notas(sheet, sumPesos, nota) ==
  [earned |-> Earned(sheet), sumPesos |-> sumPesos, notaSimbolica |-> nota,
   redacao |-> sheet.redacao]

\* The rows, sorted.
Ranking(people, sumPesos, nota) ==
  CHOOSE rows \in SetToSeqs({RankingRow(p, people[p], sumPesos, nota) :
                               p \in DOMAIN people}) :
    \A i, j \in DOMAIN rows : i < j => Before(rows[i], rows[j])

\* Every answer found counts as a hit.
PorQuestaoAnswered(people, quests) ==
  [q \in quests |->
     LET on == {p \in DOMAIN people :
                  \E a \in DOMAIN people[p].answers : people[p].answers[a].questId = q} IN
     [acertos |-> Cardinality(on), respondidas |-> Cardinality(on)]]

\* stats.acertosPorQuestao, over the questions of the separate list.
PorQuestao(people, quests) ==
  [q \in quests |->
     LET on == {p \in DOMAIN people :
                  \E a \in DOMAIN people[p].answers : people[p].answers[a].questId = q}
         right == {p \in on : \E a \in Hits(people[p]) :
                                people[p].answers[a].questId = q} IN
     [acertos |-> Cardinality(right), respondidas |-> Cardinality(on)]]

-----------------------------------------------------------------------------
(* getRanking, for an administrator and, behind assertDivulgado, for a     *)
(* visitor: getPublicResults keeps the first names of the same response.   *)

\* assertDivulgado and listDivulgados: results are public two days after the
\* exam was closed.
Divulgado(e) ==
  /\ exams[e].status = "completed"
  /\ exams[e].encerramento # NoDate
  /\ now >= exams[e].encerramento + 2

AskRanking(r, e) == Ask(r, [step |-> "exam", examId |-> e])

AskPublicResults(r, e) ==
  /\ e \in DOMAIN exams
  /\ Divulgado(e)
  /\ Ask(r, [step |-> "exam", examId |-> e])

ReadExam(r) ==
  LET e == reads[r].examId IN
  /\ At(r, "exam")
  /\ IF e \in DOMAIN exams
       THEN Advance(r, [step |-> "rows", nota |-> exams[e].notaSimbolica,
                        unread |-> {"participants", "questions"}])
       ELSE Advance(r, [step |-> "notFound"])

ReadParticipants(r) ==
  LET e == reads[r].examId IN
  /\ At(r, "rows") /\ "participants" \in reads[r].unread
  /\ Advance(r, [unread |-> reads[r].unread \ {"participants"},
                 people |-> [p \in PresentIn(e) |-> SheetOf(p)]])

ReadQuestions(r) ==
  /\ At(r, "rows") /\ "questions" \in reads[r].unread
  /\ Advance(r, [unread |-> reads[r].unread \ {"questions"},
                 quests |-> QuestionsOf(reads[r].examId)])

\* The response: a ranking with the sum of the weights it is given.
Ranked(c, sumPesos) ==
  [step |-> "ranked", examId |-> c.examId, quiet |-> c.quiet,
   sameList |-> c.sameList, sameWeights |-> c.sameWeights,
   ranking |-> Ranking(c.people, sumPesos, c.nota),
   porQuestao |-> PorQuestao(c.people, c.quests)]

\* The weights of the list read beside the participants, for the aggregate
\* that comes after both.
ReadPesosOfList(r) ==
  LET c == reads[r] IN
  /\ At(r, "rows") /\ c.unread = {}
  /\ reads' = [reads EXCEPT ![r] = Ranked(c,
       SumFunction([q \in c.quests \cap DOMAIN questions |-> questions[q].peso]))]
  /\ UNCHANGED vars

ReadPesos(r) ==
  LET c == reads[r] IN
  /\ At(r, "rows") /\ c.unread = {}
  /\ reads' = [reads EXCEPT ![r] = Ranked(c, SumPesos(c.examId))]
  /\ UNCHANGED vars

-----------------------------------------------------------------------------
(* getDetail, by the participant's id or by a consulta code.               *)

AskDetail(r, e, p) ==
  Ask(r, [step |-> "detail", examId |-> e, id |-> p, code |-> {},
          unread |-> {"participant", "pesos"}])

AskConsulta(r, e, code) ==
  /\ e \in DOMAIN exams
  /\ Divulgado(e)
  /\ Ask(r, [step |-> "code", examId |-> e, code |-> {code}])

\* The filter of a code that is undefined: Prisma leaves it out.
OwnersUnfiltered(e, code) == ParticipantsOf(e)

\* A filter on the code alone: the first row that has it.
OwnersOfCode(e, code) == {p \in DOMAIN participants : participants[p].consultaCode = code}

\* findFirst({ examId, consultaCode }).
OwnersIn(e, code) == {p \in ParticipantsOf(e) : participants[p].consultaCode = code}

FindCode(r) ==
  LET c == reads[r]
      owners == UNION {OwnersIn(c.examId, code) : code \in c.code} IN
  /\ At(r, "code")
  /\ \/ \E p \in owners :
          Advance(r, [step |-> "detail", id |-> p,
                      unread |-> {"participant", "pesos"}])
     \/ owners = {} /\ Advance(r, [step |-> "notFound"])

\* An absent participant has a detail too: getDetail does not ask presenca.
ReadParticipant(r) ==
  LET c == reads[r] IN
  /\ At(r, "detail") /\ "participant" \in c.unread
  /\ IF c.id \in ParticipantsOf(c.examId)
       THEN Advance(r, [unread |-> c.unread \ {"participant"},
                        sheet |-> SheetOf(c.id),
                        nota |-> exams[c.examId].notaSimbolica])
       ELSE Advance(r, [step |-> "notFound"])

ReadDetailPesos(r) ==
  LET c == reads[r] IN
  /\ At(r, "detail") /\ "pesos" \in c.unread
  /\ Advance(r, [unread |-> c.unread \ {"pesos"},
                 sumPesos |-> SumPesos(c.examId)])

\* The response: participant, notas and questoes.  The number and the texts of
\* a question stand by its id, so the lines are kept by answer, unsorted.
Detail(r) ==
  LET c == reads[r] IN
  /\ At(r, "detail") /\ c.unread = {}
  /\ reads' = [reads EXCEPT ![r] =
       [step |-> "detailed", examId |-> c.examId, quiet |-> c.quiet,
        code |-> c.code, id |-> c.id,
        notas |-> Notas(c.sheet, c.sumPesos, c.nota), questoes |-> c.sheet.answers]]
  /\ UNCHANGED vars

-----------------------------------------------------------------------------

ResultsStep(r) ==
  \/ ReadExam(r) \/ ReadParticipants(r) \/ ReadQuestions(r) \/ ReadPesos(r)
  \/ FindCode(r) \/ ReadParticipant(r) \/ ReadDetailPesos(r) \/ Detail(r)

\* What the results of an exam are computed from.
ResultData(e) ==
  [nota |-> exams[e].notaSimbolica,
   questions |-> Restrict(questions, QuestionsOf(e)),
   participants |-> Restrict(participants, ParticipantsOf(e)),
   answers |-> Restrict(answers, {a \in DOMAIN answers :
                                    answers[a].userId \in ParticipantsOf(e)})]

\* The exams whose results a step of the other services writes to.
Written ==
  {e \in DOMAIN exams : e \in DOMAIN exams' => ResultData(e)' # ResultData(e)}

\* Those of which it adds and removes no question, and those of which it
\* removes none and changes no weight.
ListKept == {e \in DOMAIN exams : QuestionsOf(e)' = QuestionsOf(e)}

WeightsKept ==
  {e \in DOMAIN exams : \A q \in QuestionsOf(e) :
     q \in QuestionsOf(e)' /\ questions'[q].peso = questions[q].peso}

Crossed(c) ==
  [c EXCEPT !.quiet = FALSE, !.sameList = @ /\ c.examId \in ListKept,
            !.sameWeights = @ /\ c.examId \in WeightsKept]

\* A request they come across notes it; a response already given is of no more
\* interest.
Disturbed ==
  [r \in Readers |->
     IF reads[r] = Free \/ reads[r].examId \notin Written THEN reads[r]
     ELSE IF Settled(r) THEN Free ELSE Crossed(reads[r])]

ResultsInit == Init /\ reads = [r \in Readers |-> Free]

ResultsNext ==
  \/ Next /\ reads' = Disturbed
  \/ \E r \in Readers :
       \/ ResultsStep(r)
       \/ \E e \in 1..serial.exam :
            \/ AskRanking(r, e)
            \/ AskPublicResults(r, e)
            \/ \E p \in 1..serial.participant : AskDetail(r, e, p)
            \/ \E code \in Codes : AskConsulta(r, e, code)

ResultsSpec == ResultsInit /\ [][ResultsNext]_resultsVars

-----------------------------------------------------------------------------
(* Reference: the mark of a participant as the specification states it,    *)
(* question by question: sum(peso * acerto) over the questions of the exam.*)

Acertou(p, q) ==
  \E a \in DOMAIN answers : /\ answers[a].userId = p
                            /\ answers[a].questId = q
                            /\ answers[a].alternativa = questions[q].correctAnswer

Respondeu(p, q) ==
  \E a \in DOMAIN answers : answers[a].userId = p /\ answers[a].questId = q

MarkOf(p, e) ==
  LET hit  == {q \in QuestionsOf(e) : Acertou(p, q)}
      done == {q \in QuestionsOf(e) : Respondeu(p, q)} IN
  [participantId |-> p,
   earned |-> SumFunction([q \in hit |-> questions[q].peso]),
   sumPesos |-> SumFunction([q \in QuestionsOf(e) |-> questions[q].peso]),
   notaSimbolica |-> exams[e].notaSimbolica,
   redacao |-> participants[p].redacaoNota,
   acertos |-> Cardinality(hit), respondidas |-> Cardinality(done)]

Undisturbed(r, step) ==
  At(r, step) /\ reads[r].quiet /\ reads[r].examId \in DOMAIN exams

-----------------------------------------------------------------------------
(* Properties.                                                             *)

\* A ranking no write came across lists each present participant of the exam
\* once, with the mark of the specification, best mark first; although
\* answers are summed per participant and weights per exam.
RankingIsExact ==
  \A r \in Readers : Undisturbed(r, "ranked") =>
    LET e == reads[r].examId
        rows == reads[r].ranking
        present == {p \in ParticipantsOf(e) : participants[p].presenca} IN
    /\ Len(rows) = Cardinality(present)
    /\ {rows[i] : i \in DOMAIN rows} = {MarkOf(p, e) : p \in present}
    /\ \A i, j \in DOMAIN rows : i < j => Total(rows[i]) >= Total(rows[j])

\* In a ranking the hits and answers counted by question and those counted by
\* participant are the same hits and answers, whatever was answered, corrected,
\* enrolled or removed between its statements, as long as no question came or
\* went: the rows and the list of questions come from two statements.
CountsAgree ==
  \A r \in Readers : At(r, "ranked") /\ reads[r].sameList =>
    LET rows == reads[r].ranking
        per == reads[r].porQuestao IN
    /\ SumFunction([i \in DOMAIN rows |-> rows[i].acertos])
         = SumFunction([q \in DOMAIN per |-> per[q].acertos])
    /\ SumFunction([i \in DOMAIN rows |-> rows[i].respondidas])
         = SumFunction([q \in DOMAIN per |-> per[q].respondidas])

\* A ranking written across has no mark above the scale unless a question went
\* or changed its weight meanwhile: the weights are summed last, so questions
\* created and answered between the statements are in the sum.
ScaleHoldsWithWeights ==
  \A r \in Readers : At(r, "ranked") /\ reads[r].sameWeights =>
    \A i \in DOMAIN reads[r].ranking :
      reads[r].ranking[i].earned <= reads[r].ranking[i].sumPesos

\* A detail no write came across shows the notas of the specification and one
\* line for each question of the exam its participant answered, with what was
\* marked, the key, the hit and the weight.
DetailIsExact ==
  \A r \in Readers : Undisturbed(r, "detailed") =>
    LET c == reads[r]
        questoes == {c.questoes[a] : a \in DOMAIN c.questoes} IN
    /\ \A f \in DOMAIN c.notas : c.notas[f] = MarkOf(c.id, c.examId)[f]
    /\ Cardinality(DOMAIN c.questoes) = MarkOf(c.id, c.examId).respondidas
    /\ {l.questId : l \in questoes} = {q \in QuestionsOf(c.examId) : Respondeu(c.id, q)}
    /\ \A l \in questoes :
         /\ l.acertou = Acertou(c.id, l.questId)
         /\ l.correctAnswer = questions[l.questId].correctAnswer
         /\ l.peso = questions[l.questId].peso
         /\ \E a \in DOMAIN answers :
              answers[a] = [userId |-> c.id, questId |-> l.questId, alternativa |-> l.marcada]

\* A consulta no write came across answers with the detail of the one
\* participant of the exam the code was given to, and refuses the code only
\* when nobody in the exam has it.
ConsultaFindsOwner ==
  \A r \in Readers : \A step \in {"detailed", "notFound"} :
    Undisturbed(r, step) /\ "code" \in DOMAIN reads[r] =>
      \A code \in reads[r].code :
        OwnersIn(reads[r].examId, code) =
          IF step = "notFound" THEN {} ELSE {reads[r].id}

\* Whatever was removed or enrolled between the statements of a consulta, the
\* participant it shows is the one the code belongs to in that exam, unless
\* that participant is gone by now.
ConsultaShowsOwner ==
  \A r \in Readers : At(r, "detailed") /\ reads[r].id \in DOMAIN participants =>
    \A code \in reads[r].code :
      /\ participants[reads[r].id].examId = reads[r].examId
      /\ participants[reads[r].id].consultaCode = code

\* What is earned is part of the sum of the weights, when there are weights:
\* without any, ponderada is 0.
WithinScale(row) == row.sumPesos > 0 => row.earned <= row.sumPesos

\* No mark of a ranking or of a detail exceeds notaSimbolica plus the essay,
\* whatever is written while getRanking and getDetail read (the formula of
\* spec-enem-read-v3-mvp.md, story 13).
MarksWithinScale ==
  \A r \in Readers :
    /\ At(r, "ranked") =>
         \A i \in DOMAIN reads[r].ranking : WithinScale(reads[r].ranking[i])
    /\ At(r, "detailed") => WithinScale(reads[r].notas)
=============================================================================
