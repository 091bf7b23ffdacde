--------------------------- MODULE QuestionsService ---------------------------
(***************************************************************************)
(* questions.service.ts: the bulk upsert of an exam's questions and the    *)
(* removal of one.                                                         *)
(*                                                                         *)
(* bulkUpsert resolves every item against a snapshot of the exam's         *)
(* questions read at the start of its transaction (READ COMMITTED, no      *)
(* lock), then writes item by item.  The rows written stay locked until    *)
(* the commit, so the writes take effect together; what they find may be   *)
(* newer than the snapshot.  An item refused by the validation of lines    *)
(* 13-22 changes nothing: the inputs are items that pass it.               *)
(***************************************************************************)
EXTENDS EnemSchema

\* An item of PUT /exams/:examId/questions/bulk; id = NoId when absent.
QuestionItem == [id : Nat, numero : Ids, correctAnswer : Letters, peso : Ids]

CONSTANT QuestionInputs   \* bodies of the bulk request: sequences of items

ASSUME QuestionsAssumption == QuestionInputs \subseteq Seq(QuestionItem)

BulkQuestionsCall ==
  [op : {"bulkQuestions"}, examId : Ids, items : Seq(QuestionItem),
   target : Seq(Nat)]
RemoveQuestionCall == [op : {"removeQuestion"}, examId : Ids, id : Ids]

\* A look-up by numero that forgets the exam.
targetIdAnyExam(e, item) ==
  LET same == {q \in DOMAIN questions : questions[q].numero = item.numero} IN
  IF item.id # NoId THEN item.id
  ELSE IF same = {} THEN NoId ELSE CHOOSE q \in same : TRUE

\* targetId of an item: the question it names, which must belong to the exam,
\* or the one that has its numero, or NoId when the item is to be created.
targetId(e, item) ==
  LET same == {q \in QuestionsOf(e) : questions[q].numero = item.numero} IN
  IF item.id # NoId THEN item.id
  ELSE IF same = {} THEN NoId ELSE CHOOSE q \in same : TRUE

\* bulkUpsert up to the snapshot.  The exam's existence is read just before
\* it; an exam deleted between the two leaves an empty snapshot, and then the
\* first INSERT fails on its foreign key.
SnapshotQuestions(s, e, items) ==
  /\ e \in DOMAIN exams
  /\ \A i, j \in DOMAIN items : items[i].numero = items[j].numero => i = j
  /\ \A i \in DOMAIN items : items[i].id \in QuestionsOf(e) \cup {NoId}
  /\ Start(s, [op |-> "bulkQuestions", examId |-> e, items |-> items,
               target |-> [i \in DOMAIN items |-> targetId(e, items[i])]])
  /\ UNCHANGED tables

\* The schema without its unique index.
NumeroNeverTaken(c, i) == FALSE

\* UNIQUE (exam_id, numero) as item i meets it: the rows the items before i
\* wrote carry other numeros of the request, so only untouched rows collide.
NumeroTaken(c, i) ==
  \E q \in QuestionsOf(c.examId) :
    /\ q # c.target[i]
    /\ \A j \in 1..(i - 1) : c.target[j] # q
    /\ questions[q].numero = c.items[i].numero

\* The items that become INSERTs, and their rank in the order of the request:
\* the id each draws from the sequence.
CreatedItems(c) == {i \in DOMAIN c.items : c.target[i] = NoId}
RankInRequest(c, i) == i
Rank(c, i) == Cardinality({j \in CreatedItems(c) : j <= i})
newQuestionId(c, i) == serial.question + Rank(c, i)

\* updateMany in place of update: an UPDATE that finds no row is no error.
QuestionsFitAnyRow(c) ==
  /\ Room("question", Cardinality(CreatedItems(c)))
  /\ \A i \in DOMAIN c.items :
       /\ c.target[i] = NoId => c.examId \in DOMAIN exams
       /\ ~NumeroTaken(c, i)

\* Every UPDATE finds its row, every INSERT its exam, none meets the index.
QuestionsFit(c) ==
  /\ Room("question", Cardinality(CreatedItems(c)))
  /\ \A i \in DOMAIN c.items :
       /\ IF c.target[i] = NoId THEN c.examId \in DOMAIN exams
                                ELSE c.target[i] \in DOMAIN questions
       /\ ~NumeroTaken(c, i)

QuestionRow(e, item) ==
  [examId |-> e, numero |-> item.numero, peso |-> item.peso,
   correctAnswer |-> item.correctAnswer]

\* Of the UPDATEs aimed at one row the last one stays; data has no examId.
SavedQuestion(c, q) ==
  LET on == {i \in DOMAIN c.items : c.target[i] = q}
      last == CHOOSE i \in on : \A j \in on : j <= i
      created == CHOOSE i \in CreatedItems(c) : q = newQuestionId(c, i) IN
  IF q \notin DOMAIN questions THEN QuestionRow(c.examId, c.items[created])
  ELSE IF on = {} THEN questions[q]
  ELSE QuestionRow(questions[q].examId, c.items[last])

SaveQuestions(s) ==
  LET c == calls[s] IN
  /\ Serving(s, "bulkQuestions")
  /\ QuestionsFit(c)
  /\ questions' =
       [q \in DOMAIN questions \cup {newQuestionId(c, i) : i \in CreatedItems(c)}
          |-> SavedQuestion(c, q)]
  /\ serial' = [serial EXCEPT !.question = @ + Cardinality(CreatedItems(c))]
  /\ Close(s)
  /\ UNCHANGED <<exams, participants, aplicadores, answers>>

\* A statement of the transaction fails and everything is rolled back.
QuestionsRefused(s) ==
  /\ Serving(s, "bulkQuestions")
  /\ ~QuestionsFit(calls[s])
  /\ Close(s)
  /\ UNCHANGED tables

\* remove: findFirst with the exam's id, then a delete by id alone.
FindQuestion(s, e, q) ==
  /\ q \in QuestionsOf(e)
  /\ Start(s, [op |-> "removeQuestion", examId |-> e, id |-> q])
  /\ UNCHANGED tables

RemoveQuestion(s) ==
  /\ Serving(s, "removeQuestion")
  /\ questions' = Without(questions, {calls[s].id})
  /\ answers' = AnswersWithout({}, {calls[s].id})
  /\ Close(s)
  /\ UNCHANGED <<exams, participants, aplicadores, serial>>

QuestionsStep(s) ==
  \/ SaveQuestions(s)
  \/ QuestionsRefused(s)
  \/ RemoveQuestion(s)

QuestionsNext ==
  \/ \E s \in Slots, e \in DOMAIN exams, items \in QuestionInputs :
       SnapshotQuestions(s, e, items)
  \/ \E s \in Slots, e \in DOMAIN exams : \E q \in QuestionsOf(e) :
       FindQuestion(s, e, q)
  \/ \E s \in Slots : QuestionsStep(s)
=============================================================================
