----------------------------- MODULE LegacyCopy -----------------------------
(***************************************************************************)
(* prisma/backup-to-legacy.ts and prisma/seed.ts: the completed exams go   *)
(* to a SQLite file, and a file replaces the database.                     *)
(*                                                                         *)
(* One script runs at a time.  The services go on during a backup; a seed  *)
(* has the database to itself, and after one that was cut short the        *)
(* operator runs it again before the services start.  Any step may be the  *)
(* last of its script (Cut).  The accounts a seed replaces are no part of  *)
(* this module.                                                            *)
(***************************************************************************)
EXTENDS EnemExams

CONSTANTS
  Shipped,      \* files that may lie in prisma/legacy from the start
  AnswerBatch,  \* rows of an INSERT of answers (1000 in the code)
  FirstKey,     \* the key a question without one is given ('A' in the code)
  MaxBaks       \* bound: how many files may be put aside

Copied == {"exam", "question", "participant", "answer"}
Blank  == [t \in Copied |-> Empty]

\* A file that is not there, that has no tables yet, or that has them.
Absent       == [state |-> "absent", image |-> Blank]
Bare         == [state |-> "bare",   image |-> Blank]
Holding(img) == [state |-> "tables", image |-> img]

\* A participant without the code and the aplicador.
CopiedPerson == [examId : Ids, presenca : BOOLEAN, redacaoNota : Nat \cup {NoNota}]

\* A table of a file: rows of one shape under ids of which one is the largest.
IsCopy(t, rows) ==
  /\ t \in [DOMAIN t -> rows] /\ DOMAIN t \subseteq Ids
  /\ DOMAIN t # {} => \E last \in DOMAIN t : \A id \in DOMAIN t : id <= last

\* The unique keys of a file.
FileKeys(img) ==
  /\ \A x, y \in DOMAIN img.question :
       /\ img.question[x].examId = img.question[y].examId
       /\ img.question[x].numero = img.question[y].numero
       => x = y
  /\ \A x, y \in DOMAIN img.answer :
       Pair(img.answer[x]) = Pair(img.answer[y]) => x = y

\* Its foreign keys, which only a backup turns on.
FileParents(img) ==
  /\ \A q \in DOMAIN img.question : img.question[q].examId \in DOMAIN img.exam
  /\ \A p \in DOMAIN img.participant : img.participant[p].examId \in DOMAIN img.exam
  /\ \A a \in DOMAIN img.answer : /\ img.answer[a].userId \in DOMAIN img.participant
                                  /\ img.answer[a].questId \in DOMAIN img.question

ASSUME LegacyAssumption ==
  /\ AnswerBatch \in Ids /\ MaxBaks \in Nat
  /\ FirstKey \in Letters
  /\ \A file \in Shipped :
       \/ file = Absent
       \/ /\ file = Holding(file.image)
          /\ IsCopy(file.image.exam, Exam) /\ IsCopy(file.image.question, Question)
          /\ IsCopy(file.image.participant, CopiedPerson)
          /\ IsCopy(file.image.answer, Answer)
          /\ FileKeys(file.image)

VARIABLES
  legacy,   \* prisma/legacy/database.db
  baks,     \* the files put aside as database.db.bak-*
  script,   \* the script under way
  unfinished, \* a seed has begun and not reached its end
  lastCopy  \* (history) the image of the last backup that ended, until a
            \* backup is told to drop it

legacyVars == <<legacy, baks, script, unfinished, lastCopy>>

NoScript == [op |-> "none"]
Running(op) == script.op = op
SeedsApart == script = NoScript /\ \A s \in Slots : calls[s] = Idle

-----------------------------------------------------------------------------
(* Backup.                                                                 *)

Completed == {e \in DOMAIN exams : exams[e].status = "completed"}
CompletedPeople == {p \in DOMAIN participants : participants[p].examId \in Completed}

\* A participant loses the code and the aplicador on the way.
CopiedParticipant(p) ==
  [examId |-> participants[p].examId, presenca |-> participants[p].presenca,
   redacaoNota |-> participants[p].redacaoNota]

CompletedImage ==
  [exam        |-> Restrict(exams, Completed),
   question    |-> Restrict(questions, {q \in DOMAIN questions :
                                          questions[q].examId \in Completed}),
   participant |-> [p \in CompletedPeople |-> CopiedParticipant(p)],
   answer      |-> Restrict(answers, {a \in DOMAIN answers :
                                        answers[a].userId \in CompletedPeople})]

\* Without a completed exam the script ends and leaves the files alone.
StartBackup(keep) ==
  /\ script = NoScript /\ Cardinality(baks) < MaxBaks
  /\ Completed # {}
  /\ script' = [op |-> "backup", stage |-> "move", keep |-> keep,
                image |-> CompletedImage]
  /\ UNCHANGED <<legacy, baks, unfinished, lastCopy>>

\* A previous file that is always deleted.
PutAsideNothing(keep) == baks

\* The old file is renamed, or deleted under --no-backup-previous.
PutAside(keep) == IF keep /\ legacy # Absent THEN baks \cup {legacy} ELSE baks

MovePrevious ==
  /\ Running("backup") /\ script.stage = "move"
  /\ legacy' = Absent
  /\ baks' = PutAside(script.keep)
  /\ lastCopy' = IF ~script.keep /\ legacy = lastCopy THEN Absent ELSE lastCopy
  /\ script' = [script EXCEPT !.stage = "open"]
  /\ UNCHANGED unfinished

OpenLegacy ==
  /\ Running("backup") /\ script.stage = "open"
  /\ legacy' = Bare
  /\ script' = [script EXCEPT !.stage = "ddl"]
  /\ UNCHANGED <<baks, unfinished, lastCopy>>

CreateLegacyTables ==
  /\ Running("backup") /\ script.stage = "ddl"
  /\ legacy' = Holding(Blank)
  /\ script' = [script EXCEPT !.stage = "write"]
  /\ UNCHANGED <<baks, unfinished, lastCopy>>

\* One transaction of SQLite, refused as a whole (Cut) when a row has no
\* parent or repeats a key.
WriteAll ==
  /\ Running("backup") /\ script.stage = "write"
  /\ FileKeys(script.image) /\ FileParents(script.image)
  /\ legacy' = Holding(script.image)
  /\ lastCopy' = Holding(script.image)
  /\ script' = NoScript
  /\ UNCHANGED <<baks, unfinished>>

-----------------------------------------------------------------------------
(* Seed.                                                                   *)

ClearOrder == <<"answer", "question", "participant", "aplicador", "exam">>
LoadOrder  == <<"exam", "question", "participant", "answer">>

\* The rows of the file.
Source(t) == legacy.image[t]

\* A missing file ends the script before it touches the database.  `cleared'
\* and `at' are the places reached in the two orders, `left' the rows of the
\* table being loaded that are still to be inserted.
StartSeed ==
  /\ SeedsApart
  /\ legacy # Absent
  /\ script' = [op |-> "seed", cleared |-> 0, at |-> 1,
                left |-> DOMAIN Source(LoadOrder[1])]
  /\ unfinished' = TRUE
  /\ UNCHANGED <<tables, legacy, baks, lastCopy>>

\* deleteMany, child tables first.
ClearTable ==
  LET left(t, rows) == IF ClearOrder[script.cleared + 1] = t THEN Empty ELSE rows IN
  /\ Running("seed") /\ script.cleared < Len(ClearOrder)
  /\ answers' = left("answer", answers)
  /\ questions' = left("question", questions)
  /\ participants' = left("participant", participants)
  /\ aplicadores' = left("aplicador", aplicadores)
  /\ exams' = left("exam", exams)
  /\ script' = [script EXCEPT !.cleared = @ + 1]
  /\ UNCHANGED <<serial, legacy, baks, unfinished, lastCopy>>

Loading(t) == /\ Running("seed") /\ script.cleared = Len(ClearOrder)
              /\ LoadOrder[script.at] = t /\ legacy # Bare
\* SQLite hands them out by rowid: slice(i, i + n) of those that are left.
Slice(n) == {id \in script.left : Cardinality({i \in script.left : i < id}) < n}
Loaded(ids) == script' = [script EXCEPT !.left = @ \ ids]

\* Rows with explicit ids, beside those that are there.
Insert(t, rows) ==
  [i \in DOMAIN t \cup DOMAIN rows |-> IF i \in DOMAIN t THEN t[i] ELSE rows[i]]

LoadExam ==
  /\ Loading("exam")
  /\ \E id \in Slice(1) \ DOMAIN exams :
       /\ exams' = Insert(exams, [i \in {id} |-> Source("exam")[id]])
       /\ Loaded({id})
  /\ UNCHANGED <<questions, participants, aplicadores, answers, serial, legacy,
                 baks, unfinished, lastCopy>>

\* A key that is a placeholder on every row, as the texts are.
MigratedKeyDropped(key) == FirstKey

MigratedKey(key) == IF key = "" THEN FirstKey ELSE key

LoadQuestion ==
  /\ Loading("question")
  /\ \E id \in Slice(1) \ DOMAIN questions :
       /\ Source("question")[id].examId \in DOMAIN exams
       /\ questions' = Insert(questions, [i \in {id} |->
            [Source("question")[id] EXCEPT !.correctAnswer = MigratedKey(@)]])
       /\ Loaded({id})
  /\ UNCHANGED <<exams, participants, aplicadores, answers, serial, legacy,
                 baks, unfinished, lastCopy>>

\* A code drawn without a look at those of the exam.
DrawnCodes(e) == Codes

\* A code is drawn until it is new in its exam.
NewCodes(e) == Codes \ {participants[p].consultaCode : p \in ParticipantsOf(e)}

LoadParticipant ==
  /\ Loading("participant")
  /\ \E id \in Slice(1) \ DOMAIN participants :
       LET row == Source("participant")[id] IN
       /\ row.examId \in DOMAIN exams
       /\ \E code \in NewCodes(row.examId) :
            participants' = Insert(participants, [i \in {id} |->
              [examId |-> row.examId, consultaCode |-> code,
               presenca |-> row.presenca, redacaoNota |-> row.redacaoNota,
               aplicadorId |-> NoId]])
       /\ Loaded({id})
  /\ UNCHANGED <<exams, questions, aplicadores, answers, serial, legacy, baks,
                 unfinished, lastCopy>>

\* skipDuplicates, of ids: no pair of a file is there twice.
LoadAnswers ==
  /\ Loading("answer") /\ script.left # {}
  /\ \A a \in Slice(AnswerBatch) : /\ Source("answer")[a].userId \in DOMAIN participants
                                   /\ Source("answer")[a].questId \in DOMAIN questions
  /\ answers' = Insert(answers, Restrict(Source("answer"), Slice(AnswerBatch)))
  /\ Loaded(Slice(AnswerBatch))
  /\ UNCHANGED <<exams, questions, participants, aplicadores, serial, legacy,
                 baks, unfinished, lastCopy>>

\* A sequence moved to the number of rows.
RowCount(t) == Cardinality(DOMAIN Source(t))

\* setval to the largest id, unless the table of the file is empty; after the
\* last table the script is done.
LastId(t) == CHOOSE last \in DOMAIN Source(t) : \A id \in DOMAIN Source(t) : id <= last

SetVal ==
  \E t \in Copied :
    /\ Loading(t) /\ script.left = {}
    /\ serial' = IF DOMAIN Source(t) = {} THEN serial
                 ELSE [serial EXCEPT ![t] = LastId(t)]
    /\ script' = IF script.at = Len(LoadOrder) THEN NoScript
                 ELSE [script EXCEPT !.at = @ + 1,
                                     !.left = DOMAIN Source(LoadOrder[script.at + 1])]
    /\ unfinished' = (script.at < Len(LoadOrder))
    /\ UNCHANGED <<exams, questions, participants, aplicadores, answers, legacy,
                   baks, lastCopy>>

\* The first SELECT on a file without tables, or a failure of the host.
Cut ==
  /\ script # NoScript
  /\ script' = NoScript
  /\ UNCHANGED <<tables, legacy, baks, unfinished, lastCopy>>

-----------------------------------------------------------------------------
InitLegacy == /\ legacy \in Shipped /\ baks = {} /\ script = NoScript
              /\ unfinished = FALSE /\ lastCopy = Absent

BackupNext ==
  \/ \E keep \in BOOLEAN : StartBackup(keep)
  \/ MovePrevious \/ OpenLegacy \/ CreateLegacyTables \/ WriteAll

SeedNext ==
  \/ StartSeed \/ ClearTable \/ LoadExam \/ LoadQuestion \/ LoadParticipant
  \/ LoadAnswers \/ SetVal \/ Cut

LegacyNext ==
  \/ Next /\ ~unfinished /\ UNCHANGED legacyVars
  \/ BackupNext /\ UNCHANGED vars
  \/ SeedNext /\ UNCHANGED <<calls, examsVars>>

LegacySpec == Init /\ InitLegacy /\ [][LegacyNext]_<<vars, legacyVars>>

-----------------------------------------------------------------------------
(* Properties.                                                             *)

\* A seed that reaches its end leaves what its file holds and nothing else,
\* whatever earlier seeds that were cut short had left: the exams with their
\* days and scales, the questions with their keys, the participants, every
\* answer of every batch.
SeedRestores ==
  [][unfinished /\ ~unfinished' =>
       /\ exams' = Source("exam") /\ answers' = Source("answer")
       /\ DOMAIN questions' = DOMAIN Source("question")
       /\ \A q \in DOMAIN questions' :
            LET row == Source("question")[q] IN
            row.correctAnswer # "" => questions'[q] = row
       /\ DOMAIN participants' = DOMAIN Source("participant")
       /\ \A p \in DOMAIN participants' :
            LET row == Source("participant")[p] IN
            /\ participants'[p].examId = row.examId
            /\ participants'[p].presenca = row.presenca
            /\ participants'[p].redacaoNota = row.redacaoNota
       /\ aplicadores' = Empty]_<<vars, legacyVars>>

\* Outside a seed the next id of every table is free, though seeds write
\* explicit ids: the INSERTs of the services never meet a row.
NextIdsAreFree ==
  ~unfinished =>
    /\ \A e \in DOMAIN exams : e <= serial.exam
    /\ \A q \in DOMAIN questions : q <= serial.question
    /\ \A p \in DOMAIN participants : p <= serial.participant
    /\ \A a \in DOMAIN answers : a <= serial.answer

\* The last backup that ended stays on disk through backups that are cut
\* short anywhere and seeds, until a run is told to drop what it finds.
LastCopyKept == lastCopy = Absent \/ lastCopy \in baks \cup {legacy}
=============================================================================
