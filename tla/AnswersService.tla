---------------------------- MODULE AnswersService ----------------------------
(***************************************************************************)
(* answers.service.ts: the bulk upsert of answers and the edit of one.     *)
(*                                                                         *)
(* bulkUpsert reads the participants and the questions of its items in two *)
(* statements run in parallel, checks that both belong to the exam of the  *)
(* path, and then writes chunks of BulkAnswerChunk rows with INSERT ... ON *)
(* CONFLICT DO UPDATE in one transaction.                                  *)
(***************************************************************************)
EXTENDS EnemSchema

AnswerItem == [userId : Ids, questId : Ids, alternativa : Letters \cup {""}]

CONSTANTS
  AnswerInputs,     \* bodies of POST /answers/bulk: sequences of items
  EditInputs,       \* alternatives PATCH /answers/:id may carry
  BulkAnswerChunk   \* BULK_ANSWER_CHUNK, 500 in the code

ASSUME AnswersAssumption ==
  /\ AnswerInputs \subseteq Seq(AnswerItem)
  /\ EditInputs \subseteq Letters \cup {""}
  /\ BulkAnswerChunk \in Ids

Reads == {"users", "quests"}

BulkAnswersCall ==
  [op : {"bulkAnswers"}, examId : Ids, items : Seq(AnswerItem),
   unread : SUBSET Reads]

OpenBulkAnswers(s, e, items) ==
  /\ e \in DOMAIN exams
  /\ items # <<>>
  /\ Start(s, [op |-> "bulkAnswers", examId |-> e, items |-> items,
               unread |-> Reads])
  /\ UNCHANGED tables

\* One of the two maps is never looked at.
AllUsersInExam(c, table) ==
  \A i \in DOMAIN c.items :
    table = "users" => c.items[i].userId \in ParticipantsOf(c.examId)

\* The test of lines 30-41 that concerns one read: uExam = qExam = examId
\* for every item exactly when both reads pass it.
AllInExam(c, table) ==
  \A i \in DOMAIN c.items :
    IF table = "users" THEN c.items[i].userId \in ParticipantsOf(c.examId)
                       ELSE c.items[i].questId \in QuestionsOf(c.examId)

ReadOwners(s, table) ==
  /\ Serving(s, "bulkAnswers")
  /\ table \in calls[s].unread
  /\ AllInExam(calls[s], table)
  /\ calls' = [calls EXCEPT ![s].unread = @ \ {table}]
  /\ UNCHANGED tables

Pair(item) == <<item.userId, item.questId>>
Stored(item) == \E a \in DOMAIN answers : Pair(answers[a]) = Pair(item)
ChunkOf(i) == (i - 1) \div BulkAnswerChunk

\* What the statements need: live parents, and no row of one statement
\* proposed twice (PostgreSQL refuses to update a row a second time).
AnswersFit(c) ==
  /\ Room("answer", Len(c.items))
  /\ \A i \in DOMAIN c.items : /\ c.items[i].userId \in DOMAIN participants
                               /\ c.items[i].questId \in DOMAIN questions
  /\ \A i, j \in DOMAIN c.items :
       ChunkOf(i) = ChunkOf(j) /\ Pair(c.items[i]) = Pair(c.items[j]) => i = j

\* The schema without its unique index: nothing to conflict with.
EveryItemInserted(c) == DOMAIN c.items

\* The items whose row is inserted: no stored answer, none earlier in the
\* request.  nextval runs for every row proposed, so item i has id serial + i.
InsertedItems(c) ==
  {i \in DOMAIN c.items : /\ ~Stored(c.items[i])
                          /\ \A j \in 1..(i - 1) : Pair(c.items[j]) # Pair(c.items[i])}

\* ON CONFLICT DO NOTHING.
FirstAnswerKept(c, a) ==
  IF a \in DOMAIN answers THEN answers[a] ELSE c.items[a - serial.answer]

\* Of the upserts of one pair the last one stays.
UpsertedAnswer(c, a) ==
  LET row == IF a \in DOMAIN answers THEN answers[a]
                                     ELSE c.items[a - serial.answer]
      on == {i \in DOMAIN c.items : Pair(c.items[i]) = Pair(row)}
      last == CHOOSE i \in on : \A j \in on : j <= i IN
  IF on = {} THEN row ELSE [row EXCEPT !.alternativa = c.items[last].alternativa]

SaveAnswers(s) ==
  LET c == calls[s] IN
  /\ Serving(s, "bulkAnswers")
  /\ c.unread = {}
  /\ AnswersFit(c)
  /\ answers' = [a \in DOMAIN answers \cup {serial.answer + i : i \in InsertedItems(c)}
                   |-> UpsertedAnswer(c, a)]
  /\ serial' = [serial EXCEPT !.answer = @ + Len(c.items)]
  /\ Close(s)
  /\ UNCHANGED <<exams, questions, participants, aplicadores>>

\* 404 or 400 after the reads, or a statement that fails.
AnswersRefused(s) ==
  LET c == calls[s] IN
  /\ Serving(s, "bulkAnswers")
  /\ \/ \E table \in c.unread : ~AllInExam(c, table)
     \/ c.unread = {} /\ ~AnswersFit(c)
  /\ Close(s)
  /\ UNCHANGED tables

\* update: by the answer's id; the exam of the path is not looked at.
UpdateAnswer(a, alternativa) ==
  /\ a \in DOMAIN answers
  /\ answers' = [answers EXCEPT ![a].alternativa = alternativa]
  /\ UNCHANGED <<exams, questions, participants, aplicadores, serial, calls>>

AnswersStep(s) ==
  \/ \E table \in Reads : ReadOwners(s, table)
  \/ SaveAnswers(s)
  \/ AnswersRefused(s)

AnswersNext ==
  \/ \E s \in Slots, e \in DOMAIN exams, items \in AnswerInputs :
       OpenBulkAnswers(s, e, items)
  \/ \E s \in Slots : AnswersStep(s)
  \/ \E a \in DOMAIN answers, alternativa \in EditInputs :
       UpdateAnswer(a, alternativa)
=============================================================================
