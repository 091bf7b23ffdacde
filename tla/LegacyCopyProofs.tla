-------------------------- MODULE LegacyCopyProofs --------------------------
(***************************************************************************)
(* Theorems of LegacyCopy: what a seed leaves, where the ids go on, what   *)
(* becomes of the last copy, which keys hold in the tables and the files,  *)
(* and that the services find their invariant again, for any file, any     *)
(* size of a batch and cuts at any step of any number of runs.             *)
(***************************************************************************)
EXTENDS LegacyCopy, EnemExamsProofs

-----------------------------------------------------------------------------
(* The inductive invariant.                                                *)

\* A table, whatever its sequence says of the last id.
Bounded(ids)    == \E n \in Nat : ids \subseteq 1..n
Shaped(t, rows) == t \in [DOMAIN t -> rows] /\ Bounded(DOMAIN t)

ImageShaped(img) ==
  /\ Shaped(img.exam, Exam) /\ Shaped(img.question, Question)
  /\ Shaped(img.participant, CopiedPerson) /\ Shaped(img.answer, Answer)

RowsShaped ==
  /\ Shaped(exams, Exam) /\ Shaped(questions, Question)
  /\ Shaped(participants, Participant) /\ Shaped(aplicadores, Aplicador)
  /\ Shaped(answers, Answer)

FilesShaped ==
  /\ ImageShaped(legacy.image) /\ ImageShaped(lastCopy.image)
  /\ \A file \in baks : ImageShaped(file.image)

BackupScript ==
  /\ Running("backup")
  /\ script = [op |-> "backup", stage |-> script.stage, keep |-> script.keep,
               image |-> script.image]
  /\ script.stage \in {"move", "open", "ddl", "write"} /\ script.keep \in BOOLEAN
  /\ ImageShaped(script.image)

SeedScript ==
  /\ Running("seed")
  /\ script = [op |-> "seed", cleared |-> script.cleared, at |-> script.at,
               left |-> script.left]
  /\ script.cleared \in 0..5 /\ script.at \in 1..4
  /\ script.left \subseteq DOMAIN Source(LoadOrder[script.at])

\* What the services rely on is whole but for the bound of the ids, which a
\* seed under way, or cut short, does not keep.
LegacyTypes ==
  /\ RowsShaped /\ FilesShaped
  /\ serial \in [Tables -> Nat] /\ calls \in [Slots -> Call]
  /\ now \in Nat /\ outbox \in Seq(Mail)
  /\ script = NoScript \/ BackupScript \/ SeedScript
  /\ unfinished \in BOOLEAN
  /\ ~unfinished => TablesOK
  /\ unfinished => \A s \in Slots : calls[s] = Idle

\* While a backup has moved the old file away, the last copy is not at its
\* place, and a file without tables is never one.
CopyFacts ==
  /\ LastCopyKept
  /\ lastCopy = Absent \/ lastCopy.state = "tables"
  /\ Running("backup") =>
       /\ script.stage = "open" => legacy = Absent
       /\ script.stage = "ddl" => legacy = Bare

\* A table that is loaded k-th holds nothing before its turn, the rows that
\* were taken in its turn, and then all, with its sequence at the last one.
Progress(ids, t, k) ==
  LET all == DOMAIN Source(t) IN
  /\ script.at < k => ids = {}
  /\ script.at = k => ids = all \ script.left
  /\ script.at > k => ids = all /\ all \subseteq 1..serial[t]

ExamsLoaded ==
  script.cleared = 5 =>
    /\ Progress(DOMAIN exams, "exam", 1)
    /\ \A e \in DOMAIN exams : exams[e] = Source("exam")[e]

QuestionsLoaded ==
  script.cleared >= 2 =>
    /\ Progress(DOMAIN questions, "question", 2)
    /\ \A q \in DOMAIN questions :
         questions[q] = [Source("question")[q] EXCEPT !.correctAnswer = MigratedKey(@)]

ParticipantsLoaded ==
  script.cleared >= 3 =>
    /\ Progress(DOMAIN participants, "participant", 3)
    /\ \A p \in DOMAIN participants :
         LET row == Source("participant")[p] IN
         /\ participants[p].examId = row.examId
         /\ participants[p].presenca = row.presenca
         /\ participants[p].redacaoNota = row.redacaoNota

AnswersLoaded ==
  script.cleared >= 1 =>
    /\ Progress(DOMAIN answers, "answer", 4)
    /\ \A a \in DOMAIN answers : answers[a] = Source("answer")[a]

SeedFacts ==
  Running("seed") =>
    /\ unfinished /\ legacy # Absent
    /\ script.cleared < 5 => script.at = 1 /\ script.left = DOMAIN Source("exam")
    /\ ExamsLoaded /\ QuestionsLoaded /\ ParticipantsLoaded /\ AnswersLoaded
    /\ script.cleared >= 4 => aplicadores = Empty

LegacyInv == LegacyTypes /\ CopyFacts /\ SeedFacts

-----------------------------------------------------------------------------
(* Tables and their ids.                                                   *)

LEMMA FewerIds ==
  ASSUME NEW S, Bounded(S), NEW T \in SUBSET S
  PROVE  Bounded(T)
  BY DEF Bounded

LEMMA MoreIds ==
  ASSUME NEW S, NEW T, Bounded(S), Bounded(T)
  PROVE  Bounded(S \cup T)
<1>1. PICK m \in Nat : S \subseteq 1..m
  BY DEF Bounded
<1>2. PICK n \in Nat : T \subseteq 1..n
  BY DEF Bounded
<1>3. CASE m <= n
  <2>1. S \cup T \subseteq 1..n
    BY <1>1, <1>2, <1>3
  <2> QED
    BY <2>1 DEF Bounded
<1>4. CASE n <= m
  <2>1. S \cup T \subseteq 1..m
    BY <1>1, <1>2, <1>4
  <2> QED
    BY <2>1 DEF Bounded
<1> QED
  BY <1>1, <1>2, <1>3, <1>4

LEMMA EmptyShaped ==
  ASSUME NEW rows
  PROVE  Shaped(Empty, rows) /\ DOMAIN Empty = {}
<1>1. DOMAIN Empty = {} /\ Empty \in [{} -> rows]
  BY DEF Empty
<1>2. {} \subseteq 1..0
  OBVIOUS
<1> QED
  BY <1>1, <1>2 DEF Shaped, Bounded

LEMMA TableShaped ==
  ASSUME NEW t, NEW rows, NEW n \in Nat, IsTable(t, rows, n)
  PROVE  Shaped(t, rows)
  BY DEF IsTable, Shaped, Bounded

LEMMA CopyShaped ==
  ASSUME NEW t, NEW rows, IsCopy(t, rows)
  PROVE  Shaped(t, rows)
<1>1. CASE DOMAIN t = {}
  <2>1. DOMAIN t \subseteq 1..0
    BY <1>1
  <2> QED
    BY <2>1 DEF IsCopy, Shaped, Bounded
<1>2. CASE DOMAIN t # {}
  <2>1. PICK last \in DOMAIN t : \A id \in DOMAIN t : id <= last
    BY <1>2 DEF IsCopy
  <2>2. last \in Nat /\ DOMAIN t \subseteq 1..last
    BY <2>1 DEF IsCopy, Ids
  <2> QED
    BY <2>2 DEF IsCopy, Shaped, Bounded
<1> QED
  BY <1>1, <1>2

LEMMA RestrictShaped ==
  ASSUME NEW t, NEW rows, Shaped(t, rows), NEW keep \in SUBSET DOMAIN t
  PROVE  /\ Shaped(Restrict(t, keep), rows)
         /\ DOMAIN Restrict(t, keep) = keep
         /\ \A i \in keep : Restrict(t, keep)[i] = t[i]
<1>1. Bounded(keep)
  BY FewerIds DEF Shaped
<1> QED
  BY <1>1 DEF Shaped, Restrict

LEMMA InsertShaped ==
  ASSUME NEW t, NEW u, NEW rows, Shaped(t, rows), Shaped(u, rows)
  PROVE  /\ Shaped(Insert(t, u), rows)
         /\ DOMAIN Insert(t, u) = DOMAIN t \cup DOMAIN u
         /\ \A i \in DOMAIN t : Insert(t, u)[i] = t[i]
         /\ \A i \in DOMAIN u \ DOMAIN t : Insert(t, u)[i] = u[i]
<1>1. Bounded(DOMAIN t \cup DOMAIN u)
  BY MoreIds DEF Shaped
<1> QED
  BY <1>1 DEF Shaped, Insert

\* An INSERT of one row that is not there yet.
LEMMA OneRow ==
  ASSUME NEW t, NEW rows, Shaped(t, rows), NEW id \in Ids \ DOMAIN t,
         NEW one \in [{id} -> rows]
  PROVE  /\ Shaped(Insert(t, one), rows) /\ DOMAIN Insert(t, one) = DOMAIN t \cup {id}
         /\ \A i \in DOMAIN t : Insert(t, one)[i] = t[i]
         /\ Insert(t, one)[id] = one[id]
<1>1. DOMAIN one = {id}
  OBVIOUS
<1>2. id \in Nat /\ {id} \subseteq 1..id
  BY DEF Ids
<1>3. Shaped(one, rows)
  BY <1>1, <1>2 DEF Shaped, Bounded
<1>4. /\ Shaped(Insert(t, one), rows)
      /\ DOMAIN Insert(t, one) = DOMAIN t \cup DOMAIN one
      /\ \A i \in DOMAIN t : Insert(t, one)[i] = t[i]
      /\ \A i \in DOMAIN one \ DOMAIN t : Insert(t, one)[i] = one[i]
  BY <1>3, InsertShaped
<1> QED
  BY <1>1, <1>4

LEMMA ShapedIds ==
  ASSUME NEW t, NEW rows, Shaped(t, rows), NEW id \in DOMAIN t
  PROVE  id \in Ids /\ t[id] \in rows
  BY DEF Shaped, Bounded, Ids

\* Math.max of the ids is one of them, and the largest.
LEMMA LastIdIsLargest ==
  ASSUME NEW t, Bounded(DOMAIN Source(t)), DOMAIN Source(t) # {}
  PROVE  LastId(t) \in Nat /\ DOMAIN Source(t) \subseteq 1..LastId(t)
<1> DEFINE S == DOMAIN Source(t)
<1>1. PICK n \in Nat : S \subseteq 1..n
  BY DEF Bounded
<1>2. \E last \in S : \A id \in S : id <= last
  <2> HIDE DEF S
  <2> QED
    BY <1>1, LastIndex DEF S
<1>3. LastId(t) \in S /\ \A id \in S : id <= LastId(t)
  BY <1>2 DEF LastId
<1> QED
  BY <1>1, <1>3

LEMMA CompletedShaped ==
  ASSUME RowsShaped
  PROVE  ImageShaped(CompletedImage)
<1> DEFINE img == CompletedImage
<1>1. /\ img.exam = Restrict(exams, Completed)
      /\ img.question = Restrict(questions, {q \in DOMAIN questions :
                                               questions[q].examId \in Completed})
      /\ img.participant = [p \in CompletedPeople |-> CopiedParticipant(p)]
      /\ img.answer = Restrict(answers, {a \in DOMAIN answers :
                                           answers[a].userId \in CompletedPeople})
  BY DEF CompletedImage
<1>2. Shaped(img.exam, Exam) /\ Shaped(img.question, Question) /\ Shaped(img.answer, Answer)
  BY <1>1, RestrictShaped DEF RowsShaped, Completed
<1>3. CompletedPeople \subseteq DOMAIN participants
  BY DEF CompletedPeople
<1>4. Bounded(CompletedPeople)
  BY <1>3, FewerIds DEF RowsShaped, Shaped
<1>5. \A p \in CompletedPeople : CopiedParticipant(p) \in CopiedPerson
  BY <1>3 DEF RowsShaped, Shaped, Participant, CopiedParticipant, CopiedPerson
<1>6. Shaped(img.participant, CopiedPerson)
  BY <1>1, <1>4, <1>5 DEF Shaped
<1> QED
  BY <1>2, <1>6 DEF ImageShaped

LEMMA BlankShaped == ImageShaped(Blank)
<1>1. /\ Blank.exam = Empty /\ Blank.question = Empty
      /\ Blank.participant = Empty /\ Blank.answer = Empty
  BY DEF Blank, Copied
<1> QED
  BY <1>1, EmptyShaped DEF ImageShaped

-----------------------------------------------------------------------------
(* The first state, and the steps of the services.                         *)

LEMMA TypesShaped ==
  ASSUME TypeOK
  PROVE  /\ RowsShaped
         /\ serial \in [Tables -> Nat] /\ calls \in [Slots -> Call]
         /\ now \in Nat /\ outbox \in Seq(Mail)
<1>1. /\ serial.exam \in Nat /\ serial.question \in Nat /\ serial.participant \in Nat
      /\ serial.aplicador \in Nat /\ serial.answer \in Nat
  BY DEF TypeOK, TablesOK, Tables
<1>2. RowsShaped
  BY <1>1, TableShaped DEF TypeOK, TablesOK, RowsShaped
<1> QED
  BY <1>2 DEF TypeOK, TablesOK

LEMMA TypesShapedNext ==
  ASSUME TypeOK'
  PROVE  /\ RowsShaped'
         /\ serial' \in [Tables -> Nat] /\ calls' \in [Slots -> Call]
         /\ now' \in Nat /\ outbox' \in Seq(Mail)
<1>1. /\ serial'.exam \in Nat /\ serial'.question \in Nat /\ serial'.participant \in Nat
      /\ serial'.aplicador \in Nat /\ serial'.answer \in Nat
  BY DEF TypeOK, TablesOK, Tables
<1>2. RowsShaped'
  BY <1>1, TableShaped DEF TypeOK, TablesOK, RowsShaped
<1> QED
  BY <1>2 DEF TypeOK, TablesOK

LEMMA InitLegacyInv ==
  ASSUME Init, InitLegacy
  PROVE  LegacyInv
<1>1. TypeOK
  BY InitTypes
<1>2. script = NoScript /\ ~Running("backup") /\ ~Running("seed")
  BY DEF InitLegacy, Running, NoScript
<1>3. legacy.image = Blank \/ ImageShaped(legacy.image)
  <2>1. Absent.image = Blank
    BY DEF Absent
  <2> QED
    BY <2>1, LegacyAssumption, CopyShaped DEF InitLegacy, ImageShaped
<1>4. FilesShaped
  <2>1. lastCopy.image = Blank
    BY DEF InitLegacy, Absent
  <2> QED
    BY <1>3, <2>1, BlankShaped DEF InitLegacy, FilesShaped
<1>5. LegacyTypes
  BY <1>1, <1>2, <1>4, TypesShaped DEF LegacyTypes, InitLegacy, TypeOK
<1> QED
  BY <1>2, <1>5 DEF LegacyInv, CopyFacts, SeedFacts, LastCopyKept, InitLegacy

LEMMA ServicesKeep ==
  ASSUME LegacyInv, Next, ~unfinished, UNCHANGED legacyVars
  PROVE  LegacyInv'
<1>1. TypeOK
  BY DEF LegacyInv, LegacyTypes, TypeOK
<1>2. TypeOK'
  BY <1>1, NextTypes
<1>3. /\ RowsShaped' /\ serial' \in [Tables -> Nat] /\ calls' \in [Slots -> Call]
      /\ now' \in Nat /\ outbox' \in Seq(Mail)
  BY <1>2, TypesShapedNext
<1>4. UNCHANGED <<legacy, baks, script, unfinished, lastCopy>>
  BY DEF legacyVars
<1>5. ~Running("seed")
  BY DEF LegacyInv, SeedFacts
<1>6. script' = NoScript \/ BackupScript'
  BY <1>4, <1>5 DEF LegacyInv, LegacyTypes, BackupScript, SeedScript, Running
<1>7. LegacyTypes'
  BY <1>2, <1>3, <1>4, <1>6
     DEF LegacyInv, LegacyTypes, FilesShaped, TypeOK
<1>8. CopyFacts'
  BY <1>4 DEF LegacyInv, CopyFacts, LastCopyKept, Running
<1>9. SeedFacts'
  BY <1>4, <1>5 DEF SeedFacts, Running
<1> QED
  BY <1>7, <1>8, <1>9 DEF LegacyInv

-----------------------------------------------------------------------------
(* The steps of a backup.                                                  *)

LEMMA BackupKeeps ==
  ASSUME LegacyInv, BackupNext, UNCHANGED vars
  PROVE  LegacyInv'
<1>1. UNCHANGED <<exams, questions, participants, aplicadores, answers, serial,
                  calls, now, outbox>>
  BY DEF vars, tables, examsVars
<1>2. ASSUME FilesShaped', script' = NoScript \/ BackupScript', CopyFacts',
             unfinished' = unfinished
      PROVE  LegacyInv'
  <2>1. RowsShaped' /\ (TablesOK' <=> TablesOK)
    BY <1>1 DEF LegacyInv, LegacyTypes, RowsShaped, TablesOK
  <2>2. LegacyTypes'
    BY <1>1, <1>2, <2>1 DEF LegacyInv, LegacyTypes
  <2>3. SeedFacts'
    BY <1>2 DEF SeedFacts, BackupScript, Running, NoScript
  <2> QED
    BY <1>2, <2>2, <2>3 DEF LegacyInv
<1>3. FilesShaped /\ CopyFacts /\ RowsShaped
  BY DEF LegacyInv, LegacyTypes
<1>4. Running("backup") => BackupScript
  BY DEF LegacyInv, LegacyTypes, Running, NoScript, SeedScript
<1>5. ASSUME NEW keep \in BOOLEAN, StartBackup(keep)
      PROVE  LegacyInv'
  <2>1. PICK image : image = CompletedImage
    OBVIOUS
  <2>2. ImageShaped(image)
    BY <1>3, <2>1, CompletedShaped
  <2>3. script' = [op |-> "backup", stage |-> "move", keep |-> keep, image |-> image]
    BY <1>5, <2>1 DEF StartBackup
  <2>4. BackupScript'
    BY <2>2, <2>3 DEF BackupScript, Running, ImageShaped
  <2>5. FilesShaped' /\ CopyFacts'
    BY <1>3, <1>5, <2>3 DEF StartBackup, FilesShaped, CopyFacts, LastCopyKept, Running
  <2> QED
    BY <1>2, <1>5, <2>4, <2>5 DEF StartBackup
<1>6. ASSUME NEW stage \in {"open", "ddl", "write"}, Running("backup"),
             script' = [script EXCEPT !.stage = stage]
      PROVE  BackupScript' /\ script'.stage = stage
  <2>1. BackupScript
    BY <1>4, <1>6
  <2>2. script' = [op |-> "backup", stage |-> stage, keep |-> script.keep,
                   image |-> script.image]
    BY <1>6, <2>1 DEF BackupScript
  <2> QED
    BY <2>1, <2>2 DEF BackupScript, Running, ImageShaped
<1>7. CASE MovePrevious
  <2>1. BackupScript' /\ script'.stage = "open"
    BY <1>6, <1>7 DEF MovePrevious
  <2>2. baks' \subseteq baks \cup {legacy} /\ legacy' = Absent
    BY <1>7 DEF MovePrevious, PutAside
  <2>3. lastCopy' = lastCopy \/ lastCopy' = Absent
    BY <1>7 DEF MovePrevious
  <2>4. Absent.image = Blank
    BY DEF Absent
  <2>5. FilesShaped'
    BY <1>3, <2>2, <2>3, <2>4, BlankShaped DEF FilesShaped
  <2>6. LastCopyKept'
    BY <1>3, <1>7 DEF CopyFacts, LastCopyKept, MovePrevious, PutAside
  <2>7. CopyFacts'
    BY <1>3, <2>1, <2>2, <2>3, <2>6 DEF CopyFacts
  <2> QED
    BY <1>2, <1>7, <2>1, <2>5, <2>7 DEF MovePrevious
<1>8. CASE OpenLegacy
  <2>1. BackupScript' /\ script'.stage = "ddl"
    BY <1>6, <1>8 DEF OpenLegacy
  <2>2. Bare.image = Blank /\ legacy' = Bare
    BY <1>8 DEF OpenLegacy, Bare
  <2>3. FilesShaped'
    BY <1>3, <1>8, <2>2, BlankShaped DEF FilesShaped, OpenLegacy
  <2>4. legacy = Absent
    BY <1>3, <1>8 DEF CopyFacts, OpenLegacy
  <2>5. CopyFacts'
    BY <1>3, <1>8, <2>1, <2>2, <2>4 DEF CopyFacts, LastCopyKept, OpenLegacy
  <2> QED
    BY <1>2, <1>8, <2>1, <2>3, <2>5 DEF OpenLegacy
<1>9. CASE CreateLegacyTables
  <2>1. BackupScript' /\ script'.stage = "write"
    BY <1>6, <1>9 DEF CreateLegacyTables
  <2>2. legacy'.image = Blank
    BY <1>9 DEF CreateLegacyTables, Holding
  <2>3. FilesShaped'
    BY <1>3, <1>9, <2>2, BlankShaped DEF FilesShaped, CreateLegacyTables
  <2>4. legacy = Bare /\ Bare.state = "bare"
    BY <1>3, <1>9 DEF CopyFacts, CreateLegacyTables, Bare
  <2>5. LastCopyKept'
    BY <1>3, <1>9, <2>4 DEF CopyFacts, LastCopyKept, CreateLegacyTables
  <2>6. CopyFacts'
    BY <1>3, <1>9, <2>1, <2>5 DEF CopyFacts, CreateLegacyTables
  <2> QED
    BY <1>2, <1>9, <2>1, <2>3, <2>6 DEF CreateLegacyTables
<1>10. CASE WriteAll
  <2>1. BackupScript
    BY <1>4, <1>10 DEF WriteAll
  <2>2. PICK img : img = script.image
    OBVIOUS
  <2>3. /\ legacy' = Holding(img) /\ lastCopy' = Holding(img) /\ script' = NoScript
        /\ UNCHANGED <<baks, unfinished>>
    BY <1>10, <2>2 DEF WriteAll
  <2>4. Holding(img).image = img /\ Holding(img).state = "tables"
    BY DEF Holding
  <2>5. ImageShaped(img)
    BY <2>1, <2>2 DEF BackupScript
  <2>6. FilesShaped'
    BY <1>3, <2>3, <2>4, <2>5 DEF FilesShaped
  <2>7. CopyFacts'
    BY <2>3, <2>4 DEF CopyFacts, LastCopyKept, Running, NoScript
  <2> QED
    BY <1>2, <2>3, <2>6, <2>7
<1> QED
  BY <1>5, <1>7, <1>8, <1>9, <1>10 DEF BackupNext

-----------------------------------------------------------------------------
(* The steps of a seed.                                                    *)

LEMMA SeedingFacts ==
  ASSUME LegacyInv, Running("seed")
  PROVE  /\ SeedScript /\ unfinished /\ legacy # Absent
         /\ RowsShaped /\ FilesShaped /\ CopyFacts /\ SeedFacts
         /\ serial \in [Tables -> Nat]
         /\ ~Running("backup") /\ script # NoScript
  BY DEF LegacyInv, LegacyTypes, SeedFacts, BackupScript, Running, NoScript

\* Files and services are out of its way.
LEMMA SeedFrame ==
  ASSUME LegacyInv, SeedNext, UNCHANGED <<calls, examsVars>>,
         RowsShaped', serial' \in [Tables -> Nat],
         script' = NoScript \/ SeedScript', SeedFacts',
         ~unfinished' => TablesOK'
  PROVE  LegacyInv'
<1>1. UNCHANGED <<legacy, baks, lastCopy, calls, now, outbox>>
  BY DEF SeedNext, StartSeed, ClearTable, LoadExam, LoadQuestion, LoadParticipant,
         LoadAnswers, SetVal, Cut, examsVars
<1>2. unfinished' \in BOOLEAN /\ (unfinished' => \A s \in Slots : calls'[s] = Idle)
  <2>1. CASE StartSeed
    BY <1>1, <2>1 DEF StartSeed, SeedsApart
  <2>2. CASE SetVal
    <3>1. unfinished
      BY <2>2 DEF SetVal, Loading, LegacyInv, SeedFacts
    <3> QED
      BY <1>1, <2>2, <3>1 DEF SetVal, LegacyInv, LegacyTypes
  <2>3. CASE unfinished' = unfinished
    BY <1>1, <2>3 DEF LegacyInv, LegacyTypes
  <2> QED
    BY <2>1, <2>2, <2>3
       DEF SeedNext, ClearTable, LoadExam, LoadQuestion, LoadParticipant,
           LoadAnswers, Cut
<1>3. LegacyTypes'
  BY <1>1, <1>2 DEF LegacyInv, LegacyTypes, FilesShaped
<1>4. CopyFacts'
  BY <1>1 DEF LegacyInv, CopyFacts, LastCopyKept, SeedScript, Running, NoScript
<1> QED
  BY <1>3, <1>4 DEF LegacyInv

LEMMA OrdersAre ==
  /\ Len(ClearOrder) = 5 /\ Len(LoadOrder) = 4
  /\ ClearOrder[1] = "answer" /\ ClearOrder[2] = "question"
  /\ ClearOrder[3] = "participant" /\ ClearOrder[4] = "aplicador"
  /\ ClearOrder[5] = "exam"
  /\ LoadOrder[1] = "exam" /\ LoadOrder[2] = "question"
  /\ LoadOrder[3] = "participant" /\ LoadOrder[4] = "answer"
  BY DEF ClearOrder, LoadOrder

LEMMA StartKeeps ==
  ASSUME LegacyInv, StartSeed, UNCHANGED <<calls, examsVars>>
  PROVE  LegacyInv'
<1>1. script' = [op |-> "seed", cleared |-> 0, at |-> 1,
                 left |-> DOMAIN Source(LoadOrder[1])]
  BY DEF StartSeed
<1>2. /\ script'.op = "seed" /\ script'.cleared = 0 /\ script'.at = 1
      /\ script'.left = DOMAIN Source("exam")
  BY <1>1, OrdersAre
<1>3. /\ UNCHANGED <<exams, questions, participants, aplicadores, answers, serial, legacy>>
      /\ unfinished' = TRUE /\ legacy # Absent
  BY DEF StartSeed, tables
<1>4. DOMAIN Source("exam") = DOMAIN Source("exam")'
  BY <1>3 DEF Source
<1>5. SeedScript'
  BY <1>1, <1>2, <1>3, <1>4, OrdersAre DEF SeedScript, Running, Source
<1>6. SeedFacts'
  BY <1>2, <1>3, <1>4
     DEF SeedFacts, ExamsLoaded, QuestionsLoaded, ParticipantsLoaded, AnswersLoaded
<1>7. RowsShaped' /\ serial' \in [Tables -> Nat]
  BY <1>3 DEF LegacyInv, LegacyTypes, RowsShaped
<1> QED
  BY <1>3, <1>5, <1>6, <1>7, SeedFrame DEF SeedNext

LEMMA CutKeeps ==
  ASSUME LegacyInv, Cut, UNCHANGED <<calls, examsVars>>
  PROVE  LegacyInv'
<1>1. script' = NoScript
      /\ UNCHANGED <<exams, questions, participants, aplicadores, answers, serial,
                     unfinished>>
  BY DEF Cut, tables
<1>2. RowsShaped' /\ serial' \in [Tables -> Nat] /\ (~unfinished' => TablesOK')
  BY <1>1 DEF LegacyInv, LegacyTypes, RowsShaped, TablesOK
<1>3. SeedFacts'
  BY <1>1 DEF SeedFacts, Running, NoScript
<1> QED
  BY <1>1, <1>2, <1>3, SeedFrame DEF SeedNext

LEMMA ClearKeeps ==
  ASSUME LegacyInv, ClearTable, UNCHANGED <<calls, examsVars>>
  PROVE  LegacyInv'
<1>1. Running("seed") /\ script.cleared < 5
  BY OrdersAre DEF ClearTable
<1>2. /\ SeedScript /\ unfinished /\ legacy # Absent /\ RowsShaped /\ SeedFacts
      /\ serial \in [Tables -> Nat]
  BY <1>1, SeedingFacts
<1>3. PICK n \in 0..4 : n = script.cleared
  BY <1>1, <1>2 DEF SeedScript
<1>4. PICK left \in SUBSET DOMAIN Source("exam") : left = script.left
  BY <1>1, <1>2 DEF SeedFacts
<1>5. left = DOMAIN Source("exam") /\ script.at = 1
  BY <1>1, <1>2, <1>4 DEF SeedFacts
<1>6. script' = [op |-> "seed", cleared |-> n + 1, at |-> 1, left |-> left]
  BY <1>2, <1>3, <1>4, <1>5 DEF ClearTable, SeedScript
<1>7. /\ script'.op = "seed" /\ script'.cleared = n + 1 /\ script'.at = 1
      /\ script'.left = left
  BY <1>6
<1>8. /\ answers' = IF n = 0 THEN Empty ELSE answers
      /\ questions' = IF n = 1 THEN Empty ELSE questions
      /\ participants' = IF n = 2 THEN Empty ELSE participants
      /\ aplicadores' = IF n = 3 THEN Empty ELSE aplicadores
      /\ exams' = IF n = 4 THEN Empty ELSE exams
      /\ UNCHANGED <<serial, legacy, unfinished>>
  BY <1>3, OrdersAre DEF ClearTable
<1>9. RowsShaped'
  BY <1>2, <1>8, EmptyShaped DEF RowsShaped
<1>10. (\A t : Source(t)' = Source(t)) /\ Source("exam")' = Source("exam")
  BY <1>8 DEF Source
<1>11. SeedScript'
  BY <1>5, <1>6, <1>7, <1>10, OrdersAre DEF SeedScript, Running
<1>12. DOMAIN Empty = {}
  BY EmptyShaped
<1>13. n >= 1 => DOMAIN answers = {}
  BY <1>1, <1>2, <1>3, <1>5 DEF SeedFacts, AnswersLoaded, Progress
<1>14. n >= 2 => DOMAIN questions = {}
  BY <1>1, <1>2, <1>3, <1>5 DEF SeedFacts, QuestionsLoaded, Progress
<1>15. n >= 3 => DOMAIN participants = {}
  BY <1>1, <1>2, <1>3, <1>5 DEF SeedFacts, ParticipantsLoaded, Progress
<1>16. DOMAIN answers' = {}
  BY <1>8, <1>12, <1>13
<1>17. n >= 1 => DOMAIN questions' = {}
  BY <1>8, <1>12, <1>14
<1>18. n >= 2 => DOMAIN participants' = {}
  BY <1>8, <1>12, <1>15
<1>19. n >= 3 => aplicadores' = Empty
  BY <1>1, <1>2, <1>3, <1>8 DEF SeedFacts
<1>20. n = 4 => DOMAIN exams' = {}
  BY <1>8, <1>12
<1>21. /\ AnswersLoaded' /\ QuestionsLoaded' /\ ParticipantsLoaded' /\ ExamsLoaded'
  <2>1. AnswersLoaded'
    BY <1>7, <1>16 DEF AnswersLoaded, Progress
  <2>2. QuestionsLoaded'
    BY <1>7, <1>17 DEF QuestionsLoaded, Progress
  <2>3. ParticipantsLoaded'
    BY <1>7, <1>18 DEF ParticipantsLoaded, Progress
  <2>4. ExamsLoaded'
    BY <1>5, <1>7, <1>8, <1>20 DEF ExamsLoaded, Progress, Source
  <2> QED
    BY <2>1, <2>2, <2>3, <2>4
<1>22. SeedFacts'
  BY <1>2, <1>5, <1>7, <1>8, <1>10, <1>19, <1>21 DEF SeedFacts
<1> QED
  BY <1>2, <1>8, <1>9, <1>11, <1>22, SeedFrame DEF SeedNext

\* What every step that loads rows has in common: the table in turn is the
\* k-th, and loses from `left' the rows it is given.
LEMMA LoadingFacts ==
  ASSUME LegacyInv, NEW k \in 1..4, NEW t, t = LoadOrder[k], Loading(t)
  PROVE  /\ SeedScript /\ unfinished /\ legacy # Absent
         /\ RowsShaped /\ FilesShaped /\ SeedFacts /\ serial \in [Tables -> Nat]
         /\ script.cleared = 5 /\ script.at = k
         /\ script.left \subseteq DOMAIN Source(t)
         /\ ExamsLoaded /\ QuestionsLoaded /\ ParticipantsLoaded /\ AnswersLoaded
         /\ aplicadores = Empty
<1>1. Running("seed") /\ script.cleared = 5
  BY OrdersAre DEF Loading
<1>2. /\ SeedScript /\ unfinished /\ legacy # Absent
      /\ RowsShaped /\ FilesShaped /\ SeedFacts /\ serial \in [Tables -> Nat]
  BY <1>1, SeedingFacts
<1>3. script.at \in 1..4 /\ LoadOrder[script.at] = LoadOrder[k]
  BY <1>2 DEF SeedScript, Loading
<1>4. script.at = k
  BY <1>3, OrdersAre
<1> QED
  BY <1>1, <1>2, <1>3, <1>4 DEF SeedFacts, SeedScript

LEMMA LoadedFacts ==
  ASSUME LegacyInv, SeedScript, script.cleared = 5, NEW ids, Loaded(ids),
         UNCHANGED legacy
  PROVE  /\ SeedScript' /\ script'.op = "seed" /\ script'.cleared = 5
         /\ script'.at = script.at /\ script'.left = script.left \ ids
         /\ Source("exam")' = Source("exam")
         /\ Source("question")' = Source("question")
         /\ Source("participant")' = Source("participant")
         /\ Source("answer")' = Source("answer")
<1>1. PICK at \in 1..4 : at = script.at
  BY DEF SeedScript
<1>2. script' = [op |-> "seed", cleared |-> 5, at |-> at, left |-> script.left \ ids]
  BY <1>1 DEF SeedScript, Loaded
<1>3. /\ Source("exam")' = Source("exam")
      /\ Source("question")' = Source("question")
      /\ Source("participant")' = Source("participant")
      /\ Source("answer")' = Source("answer")
      /\ \A t : Source(t)' = Source(t)
  BY DEF Source
<1>4. script.left \subseteq DOMAIN Source(LoadOrder[at])
  BY <1>1 DEF SeedScript
<1> QED
  BY <1>1, <1>2, <1>3, <1>4 DEF SeedScript, Running

\* The row one INSERT of the seed adds.
ExamInserted(id) ==
  /\ Loaded({id}) /\ Shaped(exams', Exam) /\ DOMAIN exams' = DOMAIN exams \cup {id}
  /\ \A e \in DOMAIN exams : exams'[e] = exams[e]
  /\ exams'[id] = Source("exam")[id]

LEMMA ExamIsInserted ==
  ASSUME LegacyInv, LoadExam
  PROVE  \E id \in script.left \ DOMAIN exams : ExamInserted(id)
<1>1. PICK id \in script.left \ DOMAIN exams :
        /\ exams' = Insert(exams, [i \in {id} |-> Source("exam")[id]])
        /\ Loaded({id})
  BY DEF LoadExam, Slice
<1>2. /\ RowsShaped /\ FilesShaped /\ script.left \subseteq DOMAIN Source("exam")
  BY LoadingFacts, OrdersAre DEF LoadExam
<1>3. Shaped(Source("exam"), Exam)
  BY <1>2 DEF FilesShaped, ImageShaped, Source
<1>4. PICK row \in Exam : row = Source("exam")[id]
  BY <1>1, <1>2, <1>3, ShapedIds
<1>5. id \in Ids \ DOMAIN exams /\ Shaped(exams, Exam)
  BY <1>1, <1>2, <1>3, ShapedIds DEF RowsShaped
<1>6. PICK one \in [{id} -> Exam] : one = [i \in {id} |-> row]
  OBVIOUS
<1>7. exams' = Insert(exams, one) /\ one[id] = row
  BY <1>1, <1>4, <1>6
<1>8. /\ Shaped(exams', Exam) /\ DOMAIN exams' = DOMAIN exams \cup {id}
      /\ \A e \in DOMAIN exams : exams'[e] = exams[e]
      /\ exams'[id] = row
  BY SMTT(30), <1>5, <1>7, OneRow
<1>9. ExamInserted(id)
  BY <1>1, <1>4, <1>8 DEF ExamInserted
<1> QED
  BY <1>9

LEMMA LoadExamKeeps ==
  ASSUME LegacyInv, LoadExam, UNCHANGED <<calls, examsVars>>
  PROVE  LegacyInv'
<1>1. PICK id \in script.left \ DOMAIN exams : ExamInserted(id)
  BY ExamIsInserted
<1>2. /\ Loading("exam") /\ UNCHANGED <<questions, participants, aplicadores, answers,
                                        serial, legacy, unfinished>>
  BY DEF LoadExam
<1>3. /\ SeedScript /\ unfinished /\ legacy # Absent
      /\ RowsShaped /\ FilesShaped /\ SeedFacts /\ serial \in [Tables -> Nat]
      /\ script.cleared = 5 /\ script.at = 1 /\ script.left \subseteq DOMAIN Source("exam")
      /\ ExamsLoaded /\ QuestionsLoaded /\ ParticipantsLoaded /\ AnswersLoaded
      /\ aplicadores = Empty
  BY <1>2, LoadingFacts, OrdersAre
<1>4. /\ SeedScript' /\ script'.op = "seed" /\ script'.cleared = 5
      /\ script'.at = 1 /\ script'.left = script.left \ {id}
      /\ Source("exam")' = Source("exam")
      /\ Source("question")' = Source("question")
      /\ Source("participant")' = Source("participant")
      /\ Source("answer")' = Source("answer")
  BY <1>1, <1>2, <1>3, LoadedFacts DEF ExamInserted
<1>5. /\ Shaped(exams', Exam) /\ DOMAIN exams' = DOMAIN exams \cup {id}
      /\ \A e \in DOMAIN exams : exams'[e] = exams[e]
      /\ exams'[id] = Source("exam")[id]
  BY <1>1 DEF ExamInserted
<1>6. ExamsLoaded'
  BY <1>1, <1>3, <1>4, <1>5 DEF ExamsLoaded, Progress
<1>7. QuestionsLoaded' /\ ParticipantsLoaded' /\ AnswersLoaded'
  BY <1>2, <1>3, <1>4 DEF QuestionsLoaded, ParticipantsLoaded, AnswersLoaded, Progress
<1>8. SeedFacts'
  BY <1>2, <1>3, <1>4, <1>6, <1>7 DEF SeedFacts
<1>9. RowsShaped'
  BY <1>2, <1>3, <1>5 DEF RowsShaped
<1> QED
  BY <1>2, <1>3, <1>4, <1>8, <1>9, SeedFrame DEF SeedNext

MigratedQuestion(id) ==
  [Source("question")[id] EXCEPT !.correctAnswer = MigratedKey(@)]

QuestionInserted(id) ==
  /\ Loaded({id}) /\ Source("question")[id].examId \in DOMAIN exams
  /\ Source("question")[id] \in Question
  /\ Shaped(questions', Question) /\ DOMAIN questions' = DOMAIN questions \cup {id}
  /\ \A q \in DOMAIN questions : questions'[q] = questions[q]
  /\ questions'[id] = MigratedQuestion(id)

LEMMA QuestionIsInserted ==
  ASSUME LegacyInv, LoadQuestion
  PROVE  \E id \in script.left \ DOMAIN questions : QuestionInserted(id)
<1>1. PICK id \in script.left \ DOMAIN questions :
        /\ Source("question")[id].examId \in DOMAIN exams
        /\ questions' = Insert(questions, [i \in {id} |-> MigratedQuestion(id)])
        /\ Loaded({id})
  BY DEF LoadQuestion, Slice, MigratedQuestion
<1>2. /\ RowsShaped /\ FilesShaped /\ script.left \subseteq DOMAIN Source("question")
  BY LoadingFacts, OrdersAre DEF LoadQuestion
<1>3. Shaped(Source("question"), Question)
  BY <1>2 DEF FilesShaped, ImageShaped, Source
<1>4. Source("question")[id] \in Question
  BY <1>1, <1>2, <1>3, ShapedIds
<1>5. PICK new \in Question : new = MigratedQuestion(id)
  <2>1. Source("question")[id].correctAnswer \in Letters \cup {""}
    BY <1>4 DEF Question
  <2>2. MigratedKey(Source("question")[id].correctAnswer) \in Letters \cup {""}
    BY <2>1, LegacyAssumption DEF MigratedKey
  <2> QED
    BY <1>4, <2>2 DEF Question, MigratedQuestion
<1>6. id \in Ids \ DOMAIN questions /\ Shaped(questions, Question)
  BY <1>1, <1>2, <1>3, ShapedIds DEF RowsShaped
<1>7. PICK one \in [{id} -> Question] : one = [i \in {id} |-> new]
  OBVIOUS
<1>8. questions' = Insert(questions, one) /\ one[id] = new
  BY <1>1, <1>5, <1>7
<1>9. QuestionInserted(id)
  BY <1>1, <1>4, <1>5, <1>6, <1>8, OneRow DEF QuestionInserted
<1> QED
  BY <1>9

LEMMA LoadQuestionKeeps ==
  ASSUME LegacyInv, LoadQuestion, UNCHANGED <<calls, examsVars>>
  PROVE  LegacyInv'
<1> DEFINE row(i) == MigratedQuestion(i)
<1>1. PICK id \in script.left \ DOMAIN questions : QuestionInserted(id)
  BY QuestionIsInserted
<1>2. /\ Loading("question")
      /\ UNCHANGED <<exams, participants, aplicadores, answers,
                     serial, legacy, unfinished>>
  BY DEF LoadQuestion
<1>3. /\ SeedScript /\ unfinished /\ legacy # Absent
      /\ RowsShaped /\ FilesShaped /\ SeedFacts /\ serial \in [Tables -> Nat]
      /\ script.cleared = 5 /\ script.at = 2
      /\ script.left \subseteq DOMAIN Source("question")
      /\ ExamsLoaded /\ QuestionsLoaded /\ ParticipantsLoaded /\ AnswersLoaded
      /\ aplicadores = Empty
  BY <1>2, LoadingFacts, OrdersAre
<1>4. /\ SeedScript' /\ script'.op = "seed" /\ script'.cleared = 5
      /\ script'.at = 2 /\ script'.left = script.left \ {id}
      /\ Source("exam")' = Source("exam")
      /\ Source("question")' = Source("question")
      /\ Source("participant")' = Source("participant")
      /\ Source("answer")' = Source("answer")
  BY <1>1, <1>2, <1>3, LoadedFacts DEF QuestionInserted
<1>5. /\ Shaped(questions', Question) /\ DOMAIN questions' = DOMAIN questions \cup {id}
      /\ \A q \in DOMAIN questions : questions'[q] = questions[q]
      /\ questions'[id] = row(id)
  BY <1>1 DEF QuestionInserted
<1>6. QuestionsLoaded'
  <2>1. \A q \in DOMAIN questions : questions[q] = row(q)
    BY <1>3 DEF QuestionsLoaded, MigratedQuestion
  <2>2. \A q \in DOMAIN questions' : questions'[q] = row(q)
    <3> HIDE DEF row
    <3> QED
      BY <1>5, <2>1
  <2>3. DOMAIN questions = DOMAIN Source("question") \ script.left
    BY <1>3 DEF QuestionsLoaded, Progress
  <2>4. DOMAIN questions' = DOMAIN Source("question")' \ script'.left
    <3> HIDE DEF row
    <3>1. DOMAIN Source("question")' = DOMAIN Source("question")
      BY <1>4
    <3> QED
      BY <1>1, <1>3, <1>4, <1>5, <2>3, <3>1
  <2>5. Progress(DOMAIN questions, "question", 2)'
    BY <1>4, <2>4 DEF Progress
  <2> QED
    BY <1>4, <2>2, <2>5 DEF QuestionsLoaded, MigratedQuestion
<1>7. ExamsLoaded' /\ ParticipantsLoaded' /\ AnswersLoaded'
  BY <1>2, <1>3, <1>4 DEF ExamsLoaded, ParticipantsLoaded, AnswersLoaded, Progress
<1>8. SeedFacts'
  BY <1>2, <1>3, <1>4, <1>6, <1>7 DEF SeedFacts
<1>9. RowsShaped'
  BY <1>2, <1>3, <1>5 DEF RowsShaped
<1> QED
  BY <1>2, <1>3, <1>4, <1>8, <1>9, SeedFrame DEF SeedNext

ParticipantInserted(id) ==
  /\ Loaded({id}) /\ Source("participant")[id].examId \in DOMAIN exams
  /\ Shaped(participants', Participant)
  /\ DOMAIN participants' = DOMAIN participants \cup {id}
  /\ \A p \in DOMAIN participants : participants'[p] = participants[p]
  /\ participants'[id].examId = Source("participant")[id].examId
  /\ participants'[id].presenca = Source("participant")[id].presenca
  /\ participants'[id].redacaoNota = Source("participant")[id].redacaoNota
  /\ participants'[id].consultaCode \in NewCodes(Source("participant")[id].examId)
  /\ participants'[id].aplicadorId = NoId

LEMMA ParticipantIsInserted ==
  ASSUME LegacyInv, LoadParticipant
  PROVE  \E id \in script.left \ DOMAIN participants : ParticipantInserted(id)
<1>1. PICK id \in script.left \ DOMAIN participants :
        /\ Source("participant")[id].examId \in DOMAIN exams
        /\ \E code \in NewCodes(Source("participant")[id].examId) :
             participants' = Insert(participants, [i \in {id} |->
               [examId |-> Source("participant")[id].examId, consultaCode |-> code,
                presenca |-> Source("participant")[id].presenca,
                redacaoNota |-> Source("participant")[id].redacaoNota,
                aplicadorId |-> NoId]])
        /\ Loaded({id})
  BY DEF LoadParticipant, Slice
<1>2. RowsShaped /\ FilesShaped /\ script.left \subseteq DOMAIN Source("participant")
  BY LoadingFacts, OrdersAre DEF LoadParticipant
<1>3. Shaped(Source("participant"), CopiedPerson)
  BY <1>2 DEF FilesShaped, ImageShaped, Source
<1>4. PICK row \in CopiedPerson : row = Source("participant")[id]
  BY <1>1, <1>2, <1>3, ShapedIds
<1>5. PICK code \in NewCodes(row.examId) :
        participants' = Insert(participants, [i \in {id} |->
          [examId |-> row.examId, consultaCode |-> code, presenca |-> row.presenca,
           redacaoNota |-> row.redacaoNota, aplicadorId |-> NoId]])
  BY <1>1, <1>4
<1>6. PICK new : new = [examId |-> row.examId, consultaCode |-> code,
                        presenca |-> row.presenca, redacaoNota |-> row.redacaoNota,
                        aplicadorId |-> NoId]
  OBVIOUS
<1>7. code \in Codes
  BY <1>5 DEF NewCodes
<1>8. /\ new \in Participant /\ new.examId = row.examId
      /\ new.presenca = row.presenca /\ new.redacaoNota = row.redacaoNota
      /\ new.consultaCode = code /\ new.aplicadorId = NoId
  BY <1>4, <1>6, <1>7 DEF Participant, CopiedPerson, NoId
<1>9. id \in Ids \ DOMAIN participants /\ Shaped(participants, Participant)
  BY <1>1, <1>2, <1>3, ShapedIds DEF RowsShaped
<1>10. PICK one \in [{id} -> Participant] : one = [i \in {id} |-> new]
  BY <1>8
<1>11. participants' = Insert(participants, one) /\ one[id] = new
  BY <1>5, <1>6, <1>10
<1>12. /\ Shaped(participants', Participant)
       /\ DOMAIN participants' = DOMAIN participants \cup {id}
       /\ \A p \in DOMAIN participants : participants'[p] = participants[p]
       /\ participants'[id] = new
  BY SMTT(30), <1>9, <1>11, OneRow
<1>13. ParticipantInserted(id)
  BY <1>1, <1>4, <1>5, <1>8, <1>12 DEF ParticipantInserted
<1> QED
  BY <1>13

LEMMA LoadParticipantKeeps ==
  ASSUME LegacyInv, LoadParticipant, UNCHANGED <<calls, examsVars>>
  PROVE  LegacyInv'
<1>1. PICK id \in script.left \ DOMAIN participants : ParticipantInserted(id)
  BY ParticipantIsInserted
<1>2. /\ Loading("participant")
      /\ UNCHANGED <<exams, questions, aplicadores, answers,
                     serial, legacy, unfinished>>
  BY DEF LoadParticipant
<1>3. /\ SeedScript /\ unfinished /\ legacy # Absent
      /\ RowsShaped /\ FilesShaped /\ SeedFacts /\ serial \in [Tables -> Nat]
      /\ script.cleared = 5 /\ script.at = 3
      /\ script.left \subseteq DOMAIN Source("participant")
      /\ ExamsLoaded /\ QuestionsLoaded /\ ParticipantsLoaded /\ AnswersLoaded
      /\ aplicadores = Empty
  BY <1>2, LoadingFacts, OrdersAre
<1>4. /\ SeedScript' /\ script'.op = "seed" /\ script'.cleared = 5
      /\ script'.at = 3 /\ script'.left = script.left \ {id}
      /\ Source("exam")' = Source("exam")
      /\ Source("question")' = Source("question")
      /\ Source("participant")' = Source("participant")
      /\ Source("answer")' = Source("answer")
  BY <1>1, <1>2, <1>3, LoadedFacts DEF ParticipantInserted
<1>5. /\ Shaped(participants', Participant)
      /\ DOMAIN participants' = DOMAIN participants \cup {id}
      /\ \A p \in DOMAIN participants : participants'[p] = participants[p]
      /\ participants'[id].examId = Source("participant")[id].examId
      /\ participants'[id].presenca = Source("participant")[id].presenca
      /\ participants'[id].redacaoNota = Source("participant")[id].redacaoNota
  BY <1>1 DEF ParticipantInserted
<1>6. ParticipantsLoaded'
  <2>1. Progress(DOMAIN participants, "participant", 3)'
    <3>1. DOMAIN participants = DOMAIN Source("participant") \ script.left
      BY <1>3 DEF ParticipantsLoaded, Progress
    <3>2. DOMAIN Source("participant")' = DOMAIN Source("participant")
      BY <1>4
    <3>3. DOMAIN participants' = DOMAIN Source("participant")' \ script'.left
      BY <1>1, <1>3, <1>4, <1>5, <3>1, <3>2
    <3> QED
      BY <1>4, <3>3 DEF Progress
  <2>2. \A p \in DOMAIN participants' :
          /\ participants'[p].examId = Source("participant")[p].examId
          /\ participants'[p].presenca = Source("participant")[p].presenca
          /\ participants'[p].redacaoNota = Source("participant")[p].redacaoNota
    BY <1>3, <1>5 DEF ParticipantsLoaded
  <2> QED
    BY <1>4, <2>1, <2>2 DEF ParticipantsLoaded
<1>7. ExamsLoaded' /\ QuestionsLoaded' /\ AnswersLoaded'
  BY <1>2, <1>3, <1>4 DEF ExamsLoaded, QuestionsLoaded, AnswersLoaded, Progress
<1>8. SeedFacts'
  BY <1>2, <1>3, <1>4, <1>6, <1>7 DEF SeedFacts
<1>9. RowsShaped'
  BY <1>2, <1>3, <1>5 DEF RowsShaped
<1> QED
  BY <1>2, <1>3, <1>4, <1>8, <1>9, SeedFrame DEF SeedNext

AnswersInserted(slice) ==
  /\ Loaded(slice)
  /\ \A a \in slice : /\ Source("answer")[a].userId \in DOMAIN participants
                      /\ Source("answer")[a].questId \in DOMAIN questions
  /\ Shaped(answers', Answer) /\ DOMAIN answers' = DOMAIN answers \cup slice
  /\ \A a \in DOMAIN answers : answers'[a] = answers[a]
  /\ \A a \in slice \ DOMAIN answers : answers'[a] = Source("answer")[a]

LEMMA AnswersAreInserted ==
  ASSUME LegacyInv, LoadAnswers
  PROVE  \E slice \in SUBSET script.left : AnswersInserted(slice)
<1>1. PICK slice \in SUBSET script.left :
        /\ \A a \in slice : /\ Source("answer")[a].userId \in DOMAIN participants
                            /\ Source("answer")[a].questId \in DOMAIN questions
        /\ answers' = Insert(answers, Restrict(Source("answer"), slice))
        /\ Loaded(slice)
  BY DEF LoadAnswers, Slice
<1>2. RowsShaped /\ FilesShaped /\ script.left \subseteq DOMAIN Source("answer")
  BY LoadingFacts, OrdersAre DEF LoadAnswers
<1>3. Shaped(Source("answer"), Answer) /\ Shaped(answers, Answer)
  BY <1>2 DEF FilesShaped, ImageShaped, Source, RowsShaped
<1>4. PICK rows : rows = Restrict(Source("answer"), slice)
  OBVIOUS
<1>5. /\ Shaped(rows, Answer) /\ DOMAIN rows = slice
      /\ \A a \in slice : rows[a] = Source("answer")[a]
  BY <1>2, <1>3, <1>4, RestrictShaped
<1>6. answers' = Insert(answers, rows)
  BY <1>1, <1>4
<1>7. /\ Shaped(Insert(answers, rows), Answer)
      /\ DOMAIN Insert(answers, rows) = DOMAIN answers \cup DOMAIN rows
      /\ \A i \in DOMAIN answers : Insert(answers, rows)[i] = answers[i]
      /\ \A i \in DOMAIN rows \ DOMAIN answers : Insert(answers, rows)[i] = rows[i]
  BY <1>3, <1>5, InsertShaped
<1>8. AnswersInserted(slice)
  BY <1>1, <1>5, <1>6, <1>7 DEF AnswersInserted
<1> QED
  BY <1>8

LEMMA LoadAnswersKeeps ==
  ASSUME LegacyInv, LoadAnswers, UNCHANGED <<calls, examsVars>>
  PROVE  LegacyInv'
<1>1. PICK slice \in SUBSET script.left : AnswersInserted(slice)
  BY AnswersAreInserted
<1>2. /\ Loading("answer")
      /\ UNCHANGED <<exams, questions, participants, aplicadores,
                     serial, legacy, unfinished>>
  BY DEF LoadAnswers
<1>3. /\ SeedScript /\ unfinished /\ legacy # Absent
      /\ RowsShaped /\ FilesShaped /\ SeedFacts /\ serial \in [Tables -> Nat]
      /\ script.cleared = 5 /\ script.at = 4
      /\ script.left \subseteq DOMAIN Source("answer")
      /\ ExamsLoaded /\ QuestionsLoaded /\ ParticipantsLoaded /\ AnswersLoaded
      /\ aplicadores = Empty
  BY <1>2, LoadingFacts, OrdersAre
<1>4. /\ SeedScript' /\ script'.op = "seed" /\ script'.cleared = 5
      /\ script'.at = 4 /\ script'.left = script.left \ slice
      /\ Source("exam")' = Source("exam")
      /\ Source("question")' = Source("question")
      /\ Source("participant")' = Source("participant")
      /\ Source("answer")' = Source("answer")
  BY <1>1, <1>2, <1>3, LoadedFacts DEF AnswersInserted
<1>5. /\ Shaped(answers', Answer) /\ DOMAIN answers' = DOMAIN answers \cup slice
      /\ \A a \in DOMAIN answers : answers'[a] = answers[a]
      /\ \A a \in slice \ DOMAIN answers : answers'[a] = Source("answer")[a]
  BY <1>1 DEF AnswersInserted
<1>6. AnswersLoaded'
  <2>1. Progress(DOMAIN answers, "answer", 4)'
    BY <1>1, <1>3, <1>4, <1>5 DEF AnswersLoaded, Progress
  <2>2. \A a \in DOMAIN answers' : answers'[a] = Source("answer")[a]
    BY <1>3, <1>5 DEF AnswersLoaded
  <2> QED
    BY <1>4, <2>1, <2>2 DEF AnswersLoaded
<1>7. ExamsLoaded' /\ QuestionsLoaded' /\ ParticipantsLoaded'
  BY <1>2, <1>3, <1>4 DEF ExamsLoaded, QuestionsLoaded, ParticipantsLoaded, Progress
<1>8. SeedFacts'
  BY <1>2, <1>3, <1>4, <1>6, <1>7 DEF SeedFacts
<1>9. RowsShaped'
  BY <1>2, <1>3, <1>5 DEF RowsShaped
<1> QED
  BY <1>2, <1>3, <1>4, <1>8, <1>9, SeedFrame DEF SeedNext

\* setval moves the sequence to the last id of the file, which every id of
\* the table is at most; after the last table the seed is done.
LEMMA SetValAt ==
  ASSUME LegacyInv, SetVal
  PROVE  \E k \in 1..4 :
           /\ Loading(LoadOrder[k]) /\ script.left = {} /\ LoadOrder[k] \in Copied
           /\ serial' = IF DOMAIN Source(LoadOrder[k]) = {} THEN serial
                        ELSE [serial EXCEPT ![LoadOrder[k]] = LastId(LoadOrder[k])]
           /\ script.at = k
           /\ k = 4 => script' = NoScript /\ ~unfinished'
           /\ k # 4 => /\ script' = [script EXCEPT !.at = k + 1,
                                       !.left = DOMAIN Source(LoadOrder[k + 1])]
                       /\ unfinished'
<1>1. PICK t \in Copied :
        /\ Loading(t) /\ script.left = {}
        /\ serial' = IF DOMAIN Source(t) = {} THEN serial
                     ELSE [serial EXCEPT ![t] = LastId(t)]
  BY DEF SetVal
<1>2. SeedScript
  BY <1>1, SeedingFacts DEF Loading
<1>3. PICK k \in 1..4 : k = script.at
  BY <1>2 DEF SeedScript
<1>4. t = LoadOrder[k]
  BY <1>1, <1>3 DEF Loading
<1>5. /\ script' = IF k = 4 THEN NoScript
                   ELSE [script EXCEPT !.at = k + 1,
                                       !.left = DOMAIN Source(LoadOrder[k + 1])]
      /\ unfinished' = (k < 4)
  BY <1>3, OrdersAre DEF SetVal
<1>6. (k = 4 => ~(k < 4)) /\ (k # 4 => k < 4)
  OBVIOUS
<1>7. (k = 4 => ~unfinished') /\ (k # 4 => unfinished')
  BY <1>5, <1>6, Zenon
<1> QED
  BY <1>1, <1>3, <1>4, <1>5, <1>7

LEMMA SerialMoved ==
  ASSUME LegacyInv, Running("seed"), NEW t \in Copied,
         serial' = IF DOMAIN Source(t) = {} THEN serial
                   ELSE [serial EXCEPT ![t] = LastId(t)]
  PROVE  /\ serial' \in [Tables -> Nat] /\ DOMAIN Source(t) \subseteq 1..serial'[t]
         /\ \A u \in Tables \ {t} : serial'[u] = serial[u]
<1>1. serial \in [Tables -> Nat] /\ FilesShaped
  BY SeedingFacts
<1>2. t \in Tables
  BY DEF Copied, Tables
<1>3. Bounded(DOMAIN Source(t))
  BY <1>1 DEF FilesShaped, ImageShaped, Shaped, Source, Copied
<1>4. CASE DOMAIN Source(t) = {}
  BY <1>1, <1>4
<1>5. CASE DOMAIN Source(t) # {}
  <2>1. LastId(t) \in Nat /\ DOMAIN Source(t) \subseteq 1..LastId(t)
    BY <1>3, <1>5, LastIdIsLargest
  <2>2. serial' = [serial EXCEPT ![t] = LastId(t)]
    BY <1>5
  <2> QED
    BY <1>1, <1>2, <2>1, <2>2
<1> QED
  BY <1>4, <1>5

\* Where the four tables stand at the end of the k-th.
LEMMA LoadedUpTo ==
  ASSUME LegacyInv, NEW k \in 1..4, Loading(LoadOrder[k]), script.left = {}
  PROVE  /\ DOMAIN exams = DOMAIN Source("exam")
         /\ k >= 2 => DOMAIN questions = DOMAIN Source("question")
         /\ k >= 3 => DOMAIN participants = DOMAIN Source("participant")
         /\ k >= 4 => DOMAIN answers = DOMAIN Source("answer")
         /\ k >= 2 => DOMAIN exams \subseteq 1..serial.exam
         /\ k >= 3 => DOMAIN questions \subseteq 1..serial.question
         /\ k >= 4 => DOMAIN participants \subseteq 1..serial.participant
         /\ k < 2 => DOMAIN questions = {}
         /\ k < 3 => DOMAIN participants = {}
         /\ k < 4 => DOMAIN answers = {}
<1>1. /\ script.cleared = 5 /\ script.at = k
      /\ ExamsLoaded /\ QuestionsLoaded /\ ParticipantsLoaded /\ AnswersLoaded
  BY LoadingFacts
<1>2. Progress(DOMAIN exams, "exam", 1)
  BY <1>1 DEF ExamsLoaded
<1>3. Progress(DOMAIN questions, "question", 2)
  BY <1>1 DEF QuestionsLoaded
<1>4. Progress(DOMAIN participants, "participant", 3)
  BY <1>1 DEF ParticipantsLoaded
<1>5. Progress(DOMAIN answers, "answer", 4)
  BY <1>1 DEF AnswersLoaded
<1>6. DOMAIN exams = DOMAIN Source("exam") /\ (k >= 2 => DOMAIN exams \subseteq 1..serial.exam)
  BY <1>1, <1>2 DEF Progress
<1>7. /\ k >= 2 => DOMAIN questions = DOMAIN Source("question")
      /\ k >= 3 => DOMAIN questions \subseteq 1..serial.question
      /\ k < 2 => DOMAIN questions = {}
  BY <1>1, <1>3 DEF Progress
<1>8. /\ k >= 3 => DOMAIN participants = DOMAIN Source("participant")
      /\ k >= 4 => DOMAIN participants \subseteq 1..serial.participant
      /\ k < 3 => DOMAIN participants = {}
  BY <1>1, <1>4 DEF Progress
<1>9. /\ k >= 4 => DOMAIN answers = DOMAIN Source("answer")
      /\ k < 4 => DOMAIN answers = {}
  BY <1>1, <1>5 DEF Progress
<1> QED
  BY <1>6, <1>7, <1>8, <1>9

LEMMA SetValKeeps ==
  ASSUME LegacyInv, SetVal, UNCHANGED <<calls, examsVars>>
  PROVE  LegacyInv'
<1>1. PICK k \in 1..4 :
        /\ Loading(LoadOrder[k]) /\ script.left = {} /\ LoadOrder[k] \in Copied
        /\ serial' = IF DOMAIN Source(LoadOrder[k]) = {} THEN serial
                     ELSE [serial EXCEPT ![LoadOrder[k]] = LastId(LoadOrder[k])]
        /\ script.at = k
        /\ k = 4 => script' = NoScript /\ ~unfinished'
        /\ k # 4 => /\ script' = [script EXCEPT !.at = k + 1,
                                    !.left = DOMAIN Source(LoadOrder[k + 1])]
                    /\ unfinished'
  BY SetValAt
<1>2. PICK t \in Copied : t = LoadOrder[k]
  BY <1>1
<1>3. UNCHANGED <<exams, questions, participants, aplicadores, answers, legacy>>
  BY DEF SetVal
<1>4. /\ SeedScript /\ unfinished /\ legacy # Absent
      /\ RowsShaped /\ FilesShaped /\ SeedFacts /\ serial \in [Tables -> Nat]
      /\ script.cleared = 5
      /\ ExamsLoaded /\ QuestionsLoaded /\ ParticipantsLoaded /\ AnswersLoaded
      /\ aplicadores = Empty
  BY <1>1, <1>2, LoadingFacts
<1>5. Running("seed")
  BY <1>4 DEF SeedScript
<1>6. /\ serial' \in [Tables -> Nat] /\ DOMAIN Source(t) \subseteq 1..serial'[t]
      /\ \A u \in Tables \ {t} : serial'[u] = serial[u]
  BY <1>1, <1>2, <1>5, SerialMoved
<1>7. /\ DOMAIN exams = DOMAIN Source("exam")
      /\ k >= 2 => DOMAIN questions = DOMAIN Source("question")
      /\ k >= 3 => DOMAIN participants = DOMAIN Source("participant")
      /\ k >= 4 => DOMAIN answers = DOMAIN Source("answer")
      /\ k >= 2 => DOMAIN exams \subseteq 1..serial.exam
      /\ k >= 3 => DOMAIN questions \subseteq 1..serial.question
      /\ k >= 4 => DOMAIN participants \subseteq 1..serial.participant
      /\ k < 2 => DOMAIN questions = {}
      /\ k < 3 => DOMAIN participants = {}
      /\ k < 4 => DOMAIN answers = {}
  BY <1>1, LoadedUpTo
<1>8. /\ k = 1 => t = "exam"
      /\ k = 2 => t = "question"
      /\ k = 3 => t = "participant"
      /\ k = 4 => t = "answer"
  BY <1>2, OrdersAre
<1>9. "exam" \in Tables /\ "question" \in Tables /\ "participant" \in Tables /\ "answer" \in Tables
  BY DEF Tables
<1>10. /\ DOMAIN exams \subseteq 1..serial'.exam
       /\ k >= 2 => DOMAIN questions \subseteq 1..serial'.question
       /\ k >= 3 => DOMAIN participants \subseteq 1..serial'.participant
       /\ k >= 4 => DOMAIN answers \subseteq 1..serial'.answer
  <2>1. CASE k = 1
    BY <1>6, <1>7, <1>8, <2>1
  <2>2. CASE k = 2
    BY <1>6, <1>7, <1>8, <1>9, <2>2
  <2>3. CASE k = 3
    <3>1. serial'.exam = serial.exam /\ serial'.question = serial.question
      BY <1>6, <1>8, <1>9, <2>3
    <3>2. DOMAIN participants \subseteq 1..serial'.participant
      BY <1>6, <1>7, <1>8, <2>3
    <3> QED
      BY <1>7, <2>3, <3>1, <3>2
  <2>4. CASE k = 4
    BY <1>6, <1>7, <1>8, <1>9, <2>4
  <2> QED
    BY <2>1, <2>2, <2>3, <2>4
<1>11. RowsShaped'
  BY <1>3, <1>4 DEF RowsShaped
<1>12. CASE k = 4
  <2>1. script' = NoScript /\ ~unfinished'
    BY <1>1, <1>12
  <2>2. TablesOK'
    <3>1. /\ serial'.exam \in Nat /\ serial'.question \in Nat /\ serial'.participant \in Nat
          /\ serial'.aplicador \in Nat /\ serial'.answer \in Nat
      BY <1>6 DEF Tables
    <3>2. /\ IsTable(exams', Exam, serial'.exam)
          /\ IsTable(questions', Question, serial'.question)
          /\ IsTable(participants', Participant, serial'.participant)
          /\ IsTable(answers', Answer, serial'.answer)
      <4>1. /\ DOMAIN exams' \subseteq 1..serial'.exam
            /\ DOMAIN questions' \subseteq 1..serial'.question
            /\ DOMAIN participants' \subseteq 1..serial'.participant
            /\ DOMAIN answers' \subseteq 1..serial'.answer
        BY <1>3, <1>10, <1>12
      <4>2. /\ exams' \in [DOMAIN exams' -> Exam]
            /\ questions' \in [DOMAIN questions' -> Question]
            /\ participants' \in [DOMAIN participants' -> Participant]
            /\ answers' \in [DOMAIN answers' -> Answer]
        BY <1>11 DEF RowsShaped, Shaped
      <4> QED
        BY <3>1, <4>1, <4>2 DEF IsTable
    <3>3. IsTable(aplicadores', Aplicador, serial'.aplicador)
      <4>1. DOMAIN aplicadores' = {} /\ Shaped(aplicadores', Aplicador)
        BY <1>3, <1>4, EmptyShaped
      <4> QED
        BY <3>1, <4>1 DEF Shaped, IsTable
    <3> QED
      BY <1>6, <3>2, <3>3 DEF TablesOK
  <2>3. SeedFacts'
    BY <2>1 DEF SeedFacts, Running, NoScript
  <2> QED
    BY <1>6, <1>11, <2>1, <2>2, <2>3, SeedFrame DEF SeedNext
<1>13. CASE k < 4
  <2>1. PICK next : next = DOMAIN Source(LoadOrder[k + 1])
    OBVIOUS
  <2>2. script' = [op |-> "seed", cleared |-> 5, at |-> k + 1, left |-> next]
    <3>1. PICK left : script = [op |-> "seed", cleared |-> 5, at |-> k, left |-> left]
      BY <1>1, <1>4 DEF SeedScript
    <3>2. script' = [script EXCEPT !.at = k + 1, !.left = next]
      BY <1>1, <1>13, <2>1
    <3> QED
      BY <3>1, <3>2
  <2>3. /\ script'.op = "seed" /\ script'.cleared = 5
        /\ script'.at = k + 1 /\ script'.left = next /\ unfinished'
    BY <1>1, <1>13, <2>2
  <2>4. /\ Source("exam")' = Source("exam")
        /\ Source("question")' = Source("question")
        /\ Source("participant")' = Source("participant")
        /\ Source("answer")' = Source("answer")
        /\ Source(LoadOrder[k + 1])' = Source(LoadOrder[k + 1])
    BY <1>3 DEF Source
  <2>5. SeedScript'
    BY <1>13, <2>1, <2>2, <2>3, <2>4 DEF SeedScript, Running
  <2>6. /\ k = 1 => next = DOMAIN Source("question")
        /\ k = 2 => next = DOMAIN Source("participant")
        /\ k = 3 => next = DOMAIN Source("answer")
    BY <2>1, OrdersAre
  <2>7. ExamsLoaded'
    <3>1. DOMAIN exams' = DOMAIN Source("exam")' /\ DOMAIN exams' \subseteq 1..serial'.exam
      BY <1>3, <1>7, <1>10, <2>4
    <3>2. Progress(DOMAIN exams, "exam", 1)'
      BY <2>3, <3>1 DEF Progress
    <3>3. \A e \in DOMAIN exams' : exams'[e] = Source("exam")'[e]
      BY <1>3, <1>4, <2>4 DEF ExamsLoaded
    <3> QED
      BY <3>2, <3>3 DEF ExamsLoaded
  <2>8. QuestionsLoaded'
    <3>1. Progress(DOMAIN questions, "question", 2)'
      <4>1. CASE k = 1
        <5>1. DOMAIN questions' = DOMAIN Source("question")' \ script'.left
          BY <1>3, <1>7, <2>3, <2>4, <2>6, <4>1
        <5> QED
          BY <2>3, <4>1, <5>1 DEF Progress
      <4>2. CASE k >= 2
        <5>1. /\ DOMAIN questions' = DOMAIN Source("question")'
              /\ DOMAIN questions' \subseteq 1..serial'.question
          BY <1>3, <1>7, <1>10, <2>4, <4>2
        <5> QED
          BY <2>3, <4>2, <5>1 DEF Progress
      <4> QED
        BY <4>1, <4>2
    <3>2. \A q \in DOMAIN questions :
            questions[q] = [Source("question")[q] EXCEPT !.correctAnswer = MigratedKey(@)]
      BY <1>4 DEF QuestionsLoaded
    <3>3. \A q \in DOMAIN questions' :
            questions'[q] = [Source("question")'[q] EXCEPT !.correctAnswer = MigratedKey(@)]
      BY <1>3, <2>4, <3>2
    <3> QED
      BY <3>1, <3>3 DEF QuestionsLoaded
  <2>9. ParticipantsLoaded'
    <3>1. Progress(DOMAIN participants, "participant", 3)'
      <4>1. CASE k = 1
        <5>1. DOMAIN participants' = {}
          BY <1>3, <1>7, <4>1
        <5> QED
          BY <2>3, <4>1, <5>1 DEF Progress
      <4>2. CASE k = 2
        <5>1. DOMAIN participants' = DOMAIN Source("participant")' \ script'.left
          BY <1>3, <1>7, <2>3, <2>4, <2>6, <4>2
        <5> QED
          BY <2>3, <4>2, <5>1 DEF Progress
      <4>3. CASE k = 3
        <5>1. /\ DOMAIN participants' = DOMAIN Source("participant")'
              /\ DOMAIN participants' \subseteq 1..serial'.participant
          BY <1>3, <1>7, <1>10, <2>4, <4>3
        <5> QED
          BY <2>3, <4>3, <5>1 DEF Progress
      <4> QED
        BY <1>13, <4>1, <4>2, <4>3
    <3>2. \A p \in DOMAIN participants' :
            /\ participants'[p].examId = Source("participant")'[p].examId
            /\ participants'[p].presenca = Source("participant")'[p].presenca
            /\ participants'[p].redacaoNota = Source("participant")'[p].redacaoNota
      BY <1>3, <1>4, <2>4 DEF ParticipantsLoaded
    <3> QED
      BY <3>1, <3>2 DEF ParticipantsLoaded
  <2>10. AnswersLoaded'
    <3>1. Progress(DOMAIN answers, "answer", 4)'
      <4>1. DOMAIN answers' = {}
        BY <1>3, <1>7, <1>13
      <4>2. CASE k = 3
        <5>1. DOMAIN answers' = DOMAIN Source("answer")' \ script'.left
          BY <2>3, <2>4, <2>6, <4>1, <4>2
        <5> QED
          BY <2>3, <4>2, <5>1 DEF Progress
      <4>3. CASE k < 3
        BY <2>3, <4>1, <4>3 DEF Progress
      <4> QED
        BY <1>13, <4>2, <4>3
    <3>2. \A a \in DOMAIN answers' : answers'[a] = Source("answer")'[a]
      BY <1>3, <1>4, <2>4 DEF AnswersLoaded
    <3> QED
      BY <3>1, <3>2 DEF AnswersLoaded
  <2>11. aplicadores' = Empty /\ legacy' # Absent
    BY <1>3, <1>4
  <2>12. SeedFacts'
    BY <2>3, <2>7, <2>8, <2>9, <2>10, <2>11 DEF SeedFacts
  <2> QED
    BY <1>6, <1>11, <2>3, <2>5, <2>12, SeedFrame DEF SeedNext
<1> QED
  BY <1>12, <1>13

-----------------------------------------------------------------------------
(* The theorems.                                                           *)

LEMMA NextLegacyInv ==
  ASSUME LegacyInv, [LegacyNext]_<<vars, legacyVars>>
  PROVE  LegacyInv'
<1>1. CASE Next /\ ~unfinished /\ UNCHANGED legacyVars
  BY <1>1, ServicesKeep
<1>2. CASE BackupNext /\ UNCHANGED vars
  BY <1>2, BackupKeeps
<1>3. CASE SeedNext /\ UNCHANGED <<calls, examsVars>>
  BY <1>3, StartKeeps, ClearKeeps, LoadExamKeeps, LoadQuestionKeeps,
     LoadParticipantKeeps, LoadAnswersKeeps, SetValKeeps, CutKeeps DEF SeedNext
<1>4. CASE UNCHANGED <<vars, legacyVars>>
  <2>1. UNCHANGED <<exams, questions, participants, aplicadores, answers, serial, calls,
                    now, outbox, legacy, baks, script, unfinished, lastCopy>>
    BY <1>4 DEF vars, tables, examsVars, legacyVars
  <2>2. LegacyTypes'
    BY <2>1 DEF LegacyInv, LegacyTypes, RowsShaped, FilesShaped, BackupScript,
                SeedScript, Running, Source, TablesOK
  <2>3. CopyFacts'
    BY <2>1 DEF LegacyInv, CopyFacts, LastCopyKept, Running
  <2>4. SeedFacts'
    BY <2>1 DEF LegacyInv, SeedFacts, ExamsLoaded, QuestionsLoaded, ParticipantsLoaded,
                AnswersLoaded, Progress, Source, Running
  <2> QED
    BY <2>2, <2>3, <2>4 DEF LegacyInv
<1> QED
  BY <1>1, <1>2, <1>3, <1>4 DEF LegacyNext

\* The invariant of the scripts: whole tables outside a seed, and inside one
\* nothing but rows of the file, table after table, each sequence moved past
\* its last id before the next table starts (prisma/seed.ts), the last copy
\* always somewhere (prisma/backup-to-legacy.ts).
THEOREM LegacyInvariance == LegacySpec => []LegacyInv
<1>1. Init /\ InitLegacy => LegacyInv
  BY InitLegacyInv
<1>2. LegacyInv /\ [LegacyNext]_<<vars, legacyVars>> => LegacyInv'
  BY NextLegacyInv
<1> QED
  BY <1>1, <1>2, PTL DEF LegacySpec

\* Outside a seed the sequence of every table is at or past its last id, so
\* that an INSERT of the services never meets a row a seed wrote under an
\* explicit id.
THEOREM NextIdsFree == LegacySpec => []NextIdsAreFree
<1>1. LegacyInv => NextIdsAreFree
  <2> SUFFICES ASSUME LegacyInv, ~unfinished
               PROVE  /\ \A e \in DOMAIN exams : e <= serial.exam
                      /\ \A q \in DOMAIN questions : q <= serial.question
                      /\ \A p \in DOMAIN participants : p <= serial.participant
                      /\ \A a \in DOMAIN answers : a <= serial.answer
    BY DEF NextIdsAreFree
  <2>1. TablesOK
    BY DEF LegacyInv, LegacyTypes
  <2> QED
    BY <2>1 DEF TablesOK, IsTable, Tables
<1> QED
  BY <1>1, LegacyInvariance, PTL

\* The image of the last backup that ended is in the file or in one of those
\* put aside, whatever backup was cut short since, until a run is told to
\* delete what it finds.
THEOREM CopyKept == LegacySpec => []LastCopyKept
<1>1. LegacyInv => LastCopyKept
  BY DEF LegacyInv, CopyFacts
<1> QED
  BY <1>1, LegacyInvariance, PTL

\* A seed that reaches its end has put the tables of its file in the place
\* of whatever was there, also after any number of seeds that were cut short.
THEOREM SeedReplaces == LegacySpec => SeedRestores
<1> DEFINE Restored ==
      /\ exams' = Source("exam") /\ answers' = Source("answer")
      /\ DOMAIN questions' = DOMAIN Source("question")
      /\ \A q \in DOMAIN questions' :
           LET row == Source("question")[q] IN
           row.correctAnswer # "" => questions'[q] = row
      /\ DOMAIN participants' = DOMAIN Source("participant")
      /\ \A p \in DOMAIN participants' :
           LET row == Source("participant")[p] IN
           /\ participants'[p].examId = row.examId
           /\ participants'[p].presenca = row.presenca
           /\ participants'[p].redacaoNota = row.redacaoNota
      /\ aplicadores' = Empty
<1>1. ASSUME LegacyInv, [LegacyNext]_<<vars, legacyVars>>, unfinished, ~unfinished'
      PROVE  Restored
  <2>1. SetVal
    <3>1. CASE BackupNext
      BY <1>1, <3>1 DEF BackupNext, StartBackup, MovePrevious, OpenLegacy,
                        CreateLegacyTables, WriteAll
    <3>2. CASE SeedNext
      BY <1>1, <3>2 DEF SeedNext, StartSeed, ClearTable, LoadExam, LoadQuestion,
                        LoadParticipant, LoadAnswers, Cut
    <3> QED
      BY <1>1, <3>1, <3>2 DEF LegacyNext, legacyVars
  <2>2. PICK k \in 1..4 :
          Loading(LoadOrder[k]) /\ script.left = {} /\ (k # 4 => unfinished')
    BY <1>1, <2>1, SetValAt
  <2>3. k = 4
    BY <1>1, <2>2
  <2>4. /\ RowsShaped /\ FilesShaped /\ aplicadores = Empty /\ script.cleared = 5
        /\ ExamsLoaded /\ QuestionsLoaded /\ ParticipantsLoaded /\ AnswersLoaded
    BY <1>1, <2>2, LoadingFacts
  <2>5. /\ DOMAIN exams = DOMAIN Source("exam")
        /\ DOMAIN questions = DOMAIN Source("question")
        /\ DOMAIN participants = DOMAIN Source("participant")
        /\ DOMAIN answers = DOMAIN Source("answer")
    BY <1>1, <2>2, <2>3, LoadedUpTo
  <2>6. UNCHANGED <<exams, questions, participants, aplicadores, answers>>
    BY <2>1 DEF SetVal
  <2>7. /\ Shaped(Source("exam"), Exam) /\ Shaped(Source("question"), Question)
        /\ Shaped(Source("answer"), Answer)
    BY <2>4 DEF FilesShaped, ImageShaped, Source
  <2>8. exams = Source("exam")
    BY <2>4, <2>5, <2>7 DEF ExamsLoaded, RowsShaped, Shaped
  <2>9. answers = Source("answer")
    BY <2>4, <2>5, <2>7 DEF AnswersLoaded, RowsShaped, Shaped
  <2>10. ASSUME NEW q \in DOMAIN questions, Source("question")[q].correctAnswer # ""
         PROVE  questions[q] = Source("question")[q]
    <3>1. PICK row \in Question : row = Source("question")[q]
      BY <2>5, <2>7, ShapedIds
    <3>2. questions[q] = [row EXCEPT !.correctAnswer = MigratedKey(@)]
      BY <2>4, <3>1 DEF QuestionsLoaded
    <3>3. MigratedKey(row.correctAnswer) = row.correctAnswer
      BY <2>10, <3>1 DEF MigratedKey
    <3> QED
      BY ZenonT(40), <3>1, <3>2, <3>3 DEF Question
  <2>11. \A p \in DOMAIN participants :
           /\ participants[p].examId = Source("participant")[p].examId
           /\ participants[p].presenca = Source("participant")[p].presenca
           /\ participants[p].redacaoNota = Source("participant")[p].redacaoNota
    BY <2>4 DEF ParticipantsLoaded
  <2> QED
    BY <2>4, <2>5, <2>6, <2>8, <2>9, <2>10, <2>11
<1>2. LegacyInv /\ [LegacyNext]_<<vars, legacyVars>>
        => [unfinished /\ ~unfinished' => Restored]_<<vars, legacyVars>>
  BY <1>1
<1> QED
  BY <1>2, LegacyInvariance, PTL DEF LegacySpec, SeedRestores
-----------------------------------------------------------------------------
(* Unique keys and parents.  A seed writes rows no service has checked:    *)
(* what keeps the keys is that its file has them, and a file has them      *)
(* since the tables it was copied from had.                                *)

FilesUnique ==
  /\ FileKeys(legacy.image) /\ FileKeys(lastCopy.image)
  /\ \A file \in baks : FileKeys(file.image)
  /\ Running("backup") => FileKeys(script.image)

TablesWhole == NoOrphans /\ CallsOwnRows /\ KeysInv
WholeInv == TablesWhole /\ FilesUnique

LEMMA BlankKeys == FileKeys(Blank)
<1>1. \A t \in Copied : DOMAIN Blank[t] = {}
  BY DEF Blank, Empty
<1> QED
  BY <1>1 DEF FileKeys, Copied, Blank

LEMMA IdleCallsOwn ==
  ASSUME \A s \in Slots : calls'[s] = Idle
  PROVE  CallsOwnRows' /\ RequestsDiffer'
<1>1. Idle.op = "idle"
  BY DEF Idle
<1>2. ASSUME NEW s \in Slots
      PROVE  /\ EditsOwn(calls[s])' /\ BulkQuestionsOwn(calls[s])'
             /\ BulkAnswersOwn(calls[s])' /\ Differ(calls[s])'
  BY <1>1 DEF EditsOwn, BulkQuestionsOwn, BulkAnswersOwn, Differ, ItemsDiffer,
              CodesDiffer
<1> QED
  BY <1>2 DEF CallsOwnRows, RequestsDiffer

LEMMA SameTablesWhole ==
  ASSUME TablesWhole, UNCHANGED <<exams, questions, participants, aplicadores,
                                  answers, serial, calls>>
  PROVE  TablesWhole'
<1>1. NoOrphans' /\ UniqueKeys'
  BY DEF TablesWhole, KeysInv, NoOrphans, UniqueKeys, Pair
<1>2. CallsOwnRows'
  BY DEF TablesWhole, CallsOwnRows, EditsOwn, BulkQuestionsOwn, BulkAnswersOwn,
         ParticipantStays, QuestionStays, ParticipantsOf, QuestionsOf
<1>3. RequestsDiffer'
  BY NoRequestChanges DEF TablesWhole, KeysInv
<1> QED
  BY <1>1, <1>2, <1>3 DEF TablesWhole, KeysInv

LEMMA InitWhole ==
  ASSUME Init, InitLegacy
  PROVE  WholeInv
<1>1. TablesWhole
  BY InitInv, InitKeys DEF TablesWhole, Inv
<1>2. legacy \in Shipped /\ baks = {} /\ script = NoScript /\ lastCopy = Absent
  BY DEF InitLegacy
<1>3. FileKeys(Absent.image)
  BY BlankKeys DEF Absent
<1>4. FileKeys(legacy.image)
  BY <1>2, <1>3, LegacyAssumption
<1> QED
  BY <1>1, <1>2, <1>3, <1>4 DEF WholeInv, FilesUnique, Running, NoScript

LEMMA ServicesWhole ==
  ASSUME LegacyInv, WholeInv, Next, ~unfinished, UNCHANGED legacyVars
  PROVE  WholeInv'
<1>1. TypeOK /\ TypeOK'
  BY NextTypes DEF LegacyInv, LegacyTypes, TypeOK
<1>2. NoOrphans /\ CallsOwnRows /\ KeysInv
  BY DEF WholeInv, TablesWhole
<1>3. NoOrphans'
  BY <1>1, <1>2, NoOrphansNext
<1>4. CallsOwnRows'
  BY <1>1, <1>2, CallsOwnRowsNext
<1>5. KeysInv'
  BY <1>1, <1>2, NextKeys
<1>6. FilesUnique'
  BY DEF WholeInv, FilesUnique, legacyVars, Running, FileKeys, Pair
<1> QED
  BY <1>3, <1>4, <1>5, <1>6 DEF WholeInv, TablesWhole

LEMMA CompletedKeys ==
  ASSUME UniqueKeys
  PROVE  FileKeys(CompletedImage)
<1> DEFINE img == CompletedImage
<1>1. /\ DOMAIN img.question \subseteq DOMAIN questions
      /\ \A q \in DOMAIN img.question : img.question[q] = questions[q]
  BY DEF CompletedImage, Restrict
<1>2. /\ DOMAIN img.answer \subseteq DOMAIN answers
      /\ \A a \in DOMAIN img.answer : img.answer[a] = answers[a]
  BY DEF CompletedImage, Restrict
<1> HIDE DEF img
<1>3. ASSUME NEW x \in DOMAIN img.question, NEW y \in DOMAIN img.question,
             /\ img.question[x].examId = img.question[y].examId
             /\ img.question[x].numero = img.question[y].numero
      PROVE  x = y
  BY <1>1, <1>3, UniqueKeysParts DEF NumerosUnique
<1>4. ASSUME NEW x \in DOMAIN img.answer, NEW y \in DOMAIN img.answer,
             Pair(img.answer[x]) = Pair(img.answer[y])
      PROVE  x = y
  BY <1>2, <1>4, UniqueKeysParts DEF PairsUnique
<1>5. FileKeys(img)
  BY <1>3, <1>4 DEF FileKeys
<1> QED
  BY <1>5 DEF img

LEMMA BackupWhole ==
  ASSUME LegacyInv, WholeInv, BackupNext, UNCHANGED vars
  PROVE  WholeInv'
<1>1. TablesWhole'
  BY SameTablesWhole DEF WholeInv, vars, tables
<1>2. FilesUnique /\ UniqueKeys
  BY DEF WholeInv, TablesWhole, KeysInv
<1>3. FileKeys(Absent.image) /\ FileKeys(Bare.image)
  BY BlankKeys DEF Absent, Bare
<1>4. Running("backup") => BackupScript
  BY DEF LegacyInv, LegacyTypes, Running, NoScript, SeedScript
<1>5. ASSUME NEW keep \in BOOLEAN, StartBackup(keep)
      PROVE  FilesUnique'
  <2>1. PICK image : image = CompletedImage
    OBVIOUS
  <2>2. FileKeys(image)
    BY <1>2, <2>1, CompletedKeys
  <2>3. script'.image = image /\ UNCHANGED <<legacy, baks, lastCopy>>
    BY <1>5, <2>1 DEF StartBackup
  <2> QED
    BY <1>2, <2>2, <2>3 DEF FilesUnique
<1>6. ASSUME NEW stage, Running("backup"), script' = [script EXCEPT !.stage = stage]
      PROVE  script'.image = script.image /\ FileKeys(script.image)
  BY <1>2, <1>4, <1>6 DEF BackupScript, FilesUnique
<1>7. ASSUME MovePrevious
      PROVE  FilesUnique'
  <2>1. /\ legacy' = Absent /\ baks' \subseteq baks \cup {legacy}
        /\ lastCopy' \in {lastCopy, Absent}
    BY <1>7 DEF MovePrevious, PutAside
  <2>2. script'.image = script.image /\ FileKeys(script.image)
    BY <1>6, <1>7 DEF MovePrevious
  <2> QED
    BY <1>2, <1>3, <2>1, <2>2 DEF FilesUnique
<1>8. ASSUME OpenLegacy
      PROVE  FilesUnique'
  <2>1. legacy' = Bare /\ UNCHANGED <<baks, lastCopy>>
    BY <1>8 DEF OpenLegacy
  <2>2. script'.image = script.image /\ FileKeys(script.image)
    BY <1>6, <1>8 DEF OpenLegacy
  <2> QED
    BY <1>2, <1>3, <2>1, <2>2 DEF FilesUnique
<1>9. ASSUME CreateLegacyTables
      PROVE  FilesUnique'
  <2>1. legacy'.image = Blank /\ UNCHANGED <<baks, lastCopy>>
    BY <1>9 DEF CreateLegacyTables, Holding
  <2>2. script'.image = script.image /\ FileKeys(script.image)
    BY <1>6, <1>9 DEF CreateLegacyTables
  <2> QED
    BY <1>2, <2>1, <2>2, BlankKeys DEF FilesUnique
<1>10. ASSUME WriteAll
       PROVE  FilesUnique'
  <2>1. /\ legacy'.image = script.image /\ lastCopy'.image = script.image
        /\ UNCHANGED baks /\ ~Running("backup")'
    BY <1>10 DEF WriteAll, Holding, Running, NoScript
  <2>2. FileKeys(script.image)
    BY <1>10 DEF WriteAll
  <2> QED
    BY <1>2, <2>1, <2>2 DEF FilesUnique
<1> QED
  BY <1>1, <1>5, <1>7, <1>8, <1>9, <1>10 DEF BackupNext, WholeInv

LEMMA ClearWhole ==
  ASSUME LegacyInv, NoOrphans, UniqueKeys, ClearTable
  PROVE  NoOrphans' /\ UniqueKeys'
<1>1. Running("seed") /\ script.cleared < 5
  BY OrdersAre DEF ClearTable
<1>2. SeedScript /\ SeedFacts
  BY <1>1, SeedingFacts
<1>3. PICK n \in 0..4 : n = script.cleared
  BY <1>1, <1>2 DEF SeedScript
<1>4. script.at = 1
  BY <1>1, <1>2 DEF SeedFacts
<1>5. /\ answers' = IF n = 0 THEN Empty ELSE answers
      /\ questions' = IF n = 1 THEN Empty ELSE questions
      /\ participants' = IF n = 2 THEN Empty ELSE participants
      /\ aplicadores' = IF n = 3 THEN Empty ELSE aplicadores
      /\ exams' = IF n = 4 THEN Empty ELSE exams
  BY <1>3, OrdersAre DEF ClearTable
<1>6. DOMAIN Empty = {}
  BY EmptyShaped
<1>7. n >= 1 => DOMAIN answers = {}
  BY <1>1, <1>2, <1>3, <1>4 DEF SeedFacts, AnswersLoaded, Progress
<1>8. n >= 2 => DOMAIN questions = {}
  BY <1>1, <1>2, <1>3, <1>4 DEF SeedFacts, QuestionsLoaded, Progress
<1>9. n >= 3 => DOMAIN participants = {}
  BY <1>1, <1>2, <1>3, <1>4 DEF SeedFacts, ParticipantsLoaded, Progress
<1>10. n >= 4 => DOMAIN aplicadores = {}
  BY <1>1, <1>2, <1>3, <1>6 DEF SeedFacts
<1>11. UniqueKeys'
  <2>1. NumerosUnique'
    BY <1>5, <1>6, UniqueKeysParts DEF NumerosUnique
  <2>2. CodesUnique'
    BY <1>5, <1>6, UniqueKeysParts DEF CodesUnique
  <2>3. PairsUnique'
    BY <1>5, <1>6, UniqueKeysParts DEF PairsUnique
  <2> QED
    BY <2>1, <2>2, <2>3, UniqueKeysParts
<1>12. NoOrphans'
  <2>1. QuestionsHaveExam'
    BY <1>3, <1>5, <1>6, <1>8, NoOrphansParts DEF QuestionsHaveExam
  <2>2. AplicadoresHaveExam'
    BY <1>3, <1>5, <1>6, <1>10, NoOrphansParts DEF AplicadoresHaveExam
  <2>3. ParticipantsHaveParents'
    BY <1>3, <1>5, <1>6, <1>9, NoOrphansParts DEF ParticipantsHaveParents
  <2>4. AnswersHaveParents'
    BY <1>3, <1>5, <1>6, <1>7, NoOrphansParts DEF AnswersHaveParents
  <2> QED
    BY <2>1, <2>2, <2>3, <2>4
       DEF NoOrphans, QuestionsHaveExam, AplicadoresHaveExam,
           ParticipantsHaveParents, AnswersHaveParents
<1> QED
  BY <1>11, <1>12

LEMMA LoadExamWhole ==
  ASSUME LegacyInv, NoOrphans, UniqueKeys, LoadExam
  PROVE  NoOrphans' /\ UniqueKeys'
<1>1. DOMAIN exams \subseteq DOMAIN exams'
  BY ExamIsInserted DEF ExamInserted
<1>2. UNCHANGED <<questions, participants, aplicadores, answers>>
  BY DEF LoadExam
<1> QED
  BY <1>1, <1>2 DEF NoOrphans, UniqueKeys, Pair

\* The questions loaded so far have the numeros they have in the file.
LEMMA LoadQuestionWhole ==
  ASSUME LegacyInv, NoOrphans, UniqueKeys, FileKeys(legacy.image), LoadQuestion
  PROVE  NoOrphans' /\ UniqueKeys'
<1>1. PICK id \in script.left \ DOMAIN questions : QuestionInserted(id)
  BY QuestionIsInserted
<1>2. /\ Loading("question") /\ UNCHANGED <<exams, participants, aplicadores, answers>>
  BY DEF LoadQuestion
<1>3. /\ FilesShaped /\ script.cleared = 5 /\ script.at = 2
      /\ script.left \subseteq DOMAIN Source("question") /\ QuestionsLoaded
  BY <1>2, LoadingFacts, OrdersAre
<1>4. Shaped(Source("question"), Question)
  BY <1>3 DEF FilesShaped, ImageShaped, Source
<1>5. /\ DOMAIN questions' = DOMAIN questions \cup {id}
      /\ \A q \in DOMAIN questions : questions'[q] = questions[q]
      /\ questions'[id] = MigratedQuestion(id)
      /\ Source("question")[id].examId \in DOMAIN exams
  BY <1>1 DEF QuestionInserted
<1>6. ASSUME NEW q \in DOMAIN Source("question")
      PROVE  /\ MigratedQuestion(q).examId = Source("question")[q].examId
             /\ MigratedQuestion(q).numero = Source("question")[q].numero
  <2>1. PICK row \in Question : row = Source("question")[q]
    BY <1>4, <1>6, ShapedIds
  <2> QED
    BY <2>1 DEF MigratedQuestion, Question
<1>7. ASSUME NEW q \in DOMAIN questions'
      PROVE  /\ q \in DOMAIN Source("question")
             /\ questions'[q].examId = Source("question")[q].examId
             /\ questions'[q].numero = Source("question")[q].numero
  <2>1. DOMAIN questions \subseteq DOMAIN Source("question")
    BY <1>3 DEF QuestionsLoaded, Progress
  <2>2. q \in DOMAIN Source("question")
    BY <1>1, <1>3, <1>5, <2>1
  <2>3. questions'[q] = MigratedQuestion(q)
    BY <1>3, <1>5, <1>7 DEF QuestionsLoaded, MigratedQuestion
  <2> QED
    BY <1>6, <2>2, <2>3
<1>8. NumerosUnique'
  BY <1>7 DEF NumerosUnique, FileKeys, Source
<1>9. UniqueKeys'
  BY <1>2, <1>8 DEF UniqueKeys, NumerosUnique, Pair
<1>10. QuestionsHaveExam'
  <2>1. questions'[id].examId \in DOMAIN exams
    BY <1>1, <1>3, <1>5, <1>6
  <2> QED
    BY <1>2, <1>5, <2>1 DEF NoOrphans, QuestionsHaveExam
<1>11. NoOrphans'
  BY <1>2, <1>5, <1>10 DEF NoOrphans, QuestionsHaveExam
<1> QED
  BY <1>9, <1>11

LEMMA LoadParticipantWhole ==
  ASSUME LegacyInv, NoOrphans, UniqueKeys, LoadParticipant
  PROVE  NoOrphans' /\ UniqueKeys'
<1>1. PICK id \in script.left \ DOMAIN participants : ParticipantInserted(id)
  BY ParticipantIsInserted
<1>2. UNCHANGED <<exams, questions, aplicadores, answers>>
  BY DEF LoadParticipant
<1>3. PICK e \in DOMAIN exams : e = Source("participant")[id].examId
  BY <1>1 DEF ParticipantInserted
<1>4. /\ DOMAIN participants' = DOMAIN participants \cup {id}
      /\ \A p \in DOMAIN participants : participants'[p] = participants[p]
      /\ participants'[id].examId = e
      /\ participants'[id].consultaCode \in NewCodes(e)
      /\ participants'[id].aplicadorId = NoId
  BY <1>1, <1>3 DEF ParticipantInserted
<1>5. \A p \in DOMAIN participants :
        participants[p].examId = e
          => participants[p].consultaCode # participants'[id].consultaCode
  BY <1>4 DEF NewCodes, ParticipantsOf
<1>6. CodesUnique'
  BY <1>4, <1>5, UniqueKeysParts DEF CodesUnique
<1>7. UniqueKeys'
  BY <1>2, <1>6 DEF UniqueKeys, CodesUnique, Pair
<1>8. ParticipantsHaveParents'
  BY <1>2, <1>3, <1>4 DEF NoOrphans, ParticipantsHaveParents
<1>9. NoOrphans'
  BY <1>2, <1>4, <1>8 DEF NoOrphans, ParticipantsHaveParents
<1> QED
  BY <1>7, <1>9

LEMMA LoadAnswersWhole ==
  ASSUME LegacyInv, NoOrphans, UniqueKeys, FileKeys(legacy.image), LoadAnswers
  PROVE  NoOrphans' /\ UniqueKeys'
<1>1. PICK slice \in SUBSET script.left : AnswersInserted(slice)
  BY AnswersAreInserted
<1>2. Loading("answer") /\ UNCHANGED <<exams, questions, participants, aplicadores>>
  BY DEF LoadAnswers
<1>3. /\ script.cleared = 5 /\ script.at = 4 /\ AnswersLoaded
      /\ script.left \subseteq DOMAIN Source("answer")
  BY <1>2, LoadingFacts, OrdersAre
<1>4. /\ DOMAIN answers' = DOMAIN answers \cup slice
      /\ \A a \in DOMAIN answers : answers'[a] = answers[a]
      /\ \A a \in slice \ DOMAIN answers : answers'[a] = Source("answer")[a]
      /\ \A a \in slice : /\ Source("answer")[a].userId \in DOMAIN participants
                          /\ Source("answer")[a].questId \in DOMAIN questions
  BY <1>1 DEF AnswersInserted
<1>5. \A a \in DOMAIN answers' :
        a \in DOMAIN Source("answer") /\ answers'[a] = Source("answer")[a]
  <2>1. \A a \in DOMAIN answers :
          a \in DOMAIN Source("answer") /\ answers[a] = Source("answer")[a]
    BY <1>3 DEF AnswersLoaded, Progress
  <2> QED
    BY <1>1, <1>3, <1>4, <2>1
<1>6. PairsUnique'
  BY <1>5 DEF PairsUnique, FileKeys, Source
<1>7. UniqueKeys'
  BY <1>2, <1>6 DEF UniqueKeys, PairsUnique
<1>8. AnswersHaveParents'
  BY <1>2, <1>4 DEF NoOrphans, AnswersHaveParents
<1>9. NoOrphans'
  BY <1>2, <1>8 DEF NoOrphans, AnswersHaveParents
<1> QED
  BY <1>7, <1>9

LEMMA SeedFiles ==
  ASSUME LegacyInv, SeedNext
  PROVE  UNCHANGED <<legacy, baks, lastCopy>> /\ ~Running("backup")'
<1>1. UNCHANGED <<legacy, baks, lastCopy>>
  BY DEF SeedNext, StartSeed, ClearTable, LoadExam, LoadQuestion, LoadParticipant,
         LoadAnswers, SetVal, Cut
<1>2. Running("seed") => SeedScript
  BY SeedingFacts
<1>3. script'.op # "backup"
  <2>1. CASE StartSeed
    BY <2>1 DEF StartSeed
  <2>2. CASE Cut
    BY <2>2 DEF Cut, NoScript
  <2>3. CASE ClearTable
    BY <1>2, <2>3 DEF ClearTable, SeedScript
  <2>4. CASE SetVal
    <3>1. SeedScript
      BY <1>2, <2>4 DEF SetVal, Loading
    <3> QED
      BY <2>4, <3>1 DEF SetVal, SeedScript, NoScript
  <2>5. ASSUME NEW ids, Loaded(ids), Running("seed")
        PROVE  script'.op # "backup"
    BY <1>2, <2>5 DEF Loaded, SeedScript
  <2>6. CASE LoadExam
    BY <2>5, <2>6 DEF LoadExam, Loading
  <2>7. CASE LoadQuestion
    BY <2>5, <2>7 DEF LoadQuestion, Loading
  <2>8. CASE LoadParticipant
    <3>1. \E id : Loaded({id}) /\ Running("seed")
      BY <2>8 DEF LoadParticipant, Loading
    <3> QED
      BY <2>5, <3>1
  <2>9. CASE LoadAnswers
    BY <2>5, <2>9 DEF LoadAnswers, Loading
  <2> QED
    BY <2>1, <2>2, <2>3, <2>4, <2>6, <2>7, <2>8, <2>9 DEF SeedNext
<1> QED
  BY <1>1, <1>3 DEF Running

LEMMA SeedWhole ==
  ASSUME LegacyInv, WholeInv, SeedNext, UNCHANGED <<calls, examsVars>>
  PROVE  WholeInv'
<1>1. /\ NoOrphans /\ UniqueKeys /\ FilesUnique /\ TablesWhole
      /\ FileKeys(legacy.image)
  BY DEF WholeInv, TablesWhole, KeysInv, FilesUnique
<1>2. UNCHANGED <<legacy, baks, lastCopy>> /\ ~Running("backup")'
  BY SeedFiles
<1>3. FilesUnique'
  BY <1>1, <1>2 DEF FilesUnique
<1>4. TablesWhole'
  <2>1. CASE StartSeed \/ Cut
    <3>1. UNCHANGED <<exams, questions, participants, aplicadores, answers, serial, calls>>
      BY <2>1 DEF StartSeed, Cut, tables
    <3> QED
      BY <1>1, <3>1, SameTablesWhole
  <2>2. CASE ~(StartSeed \/ Cut)
    <3>1. Running("seed")
      BY <2>2 DEF SeedNext, ClearTable, LoadExam, LoadQuestion, LoadParticipant,
                  LoadAnswers, SetVal, Loading
    <3>2. \A s \in Slots : calls'[s] = Idle
      BY <3>1, SeedingFacts DEF LegacyInv, LegacyTypes
    <3>3. CASE SetVal
      <4>1. UNCHANGED <<exams, questions, participants, aplicadores, answers>>
        BY <3>3 DEF SetVal
      <4> QED
        BY <1>1, <3>2, <4>1, IdleCallsOwn
           DEF NoOrphans, UniqueKeys, Pair, TablesWhole, KeysInv
    <3>4. CASE ~SetVal
      <4>1. NoOrphans' /\ UniqueKeys'
        BY <1>1, <2>2, <3>4, ClearWhole, LoadExamWhole, LoadQuestionWhole,
           LoadParticipantWhole, LoadAnswersWhole DEF SeedNext
      <4> QED
        BY <3>2, <4>1, IdleCallsOwn DEF TablesWhole, KeysInv
    <3> QED
      BY <3>3, <3>4
  <2> QED
    BY <2>1, <2>2
<1> QED
  BY <1>3, <1>4 DEF WholeInv

LEMMA NextWhole ==
  ASSUME LegacyInv, WholeInv, [LegacyNext]_<<vars, legacyVars>>
  PROVE  WholeInv'
<1>1. CASE Next /\ ~unfinished /\ UNCHANGED legacyVars
  BY <1>1, ServicesWhole
<1>2. CASE BackupNext /\ UNCHANGED vars
  BY <1>2, BackupWhole
<1>3. CASE SeedNext /\ UNCHANGED <<calls, examsVars>>
  BY <1>3, SeedWhole
<1>4. CASE UNCHANGED <<vars, legacyVars>>
  <2>1. UNCHANGED <<exams, questions, participants, aplicadores, answers, serial, calls,
                    legacy, baks, script, lastCopy>>
    BY <1>4 DEF vars, tables, examsVars, legacyVars
  <2>2. TablesWhole'
    BY <2>1, SameTablesWhole DEF WholeInv
  <2>3. FilesUnique'
    BY <2>1 DEF WholeInv, FilesUnique, Running
  <2> QED
    BY <2>2, <2>3 DEF WholeInv
<1> QED
  BY <1>1, <1>2, <1>3, <1>4 DEF LegacyNext

\* Neither a service nor a script, cut short or not, leaves a row without its
\* parent or one that repeats a key, and no file that lies on disk repeats one.
THEOREM WholeInvariance == LegacySpec => []WholeInv
<1>1. Init /\ InitLegacy => WholeInv
  BY InitWhole
<1>2. LegacyInv /\ WholeInv /\ [LegacyNext]_<<vars, legacyVars>> => WholeInv'
  BY NextWhole
<1> QED
  BY <1>1, <1>2, LegacyInvariance, PTL DEF LegacySpec

\* The unique keys of the schema (prisma/schema.prisma) hold beside the
\* scripts, inside a seed and after one that was cut short as well.
THEOREM KeysKept == LegacySpec => []UniqueKeys
<1>1. WholeInv => UniqueKeys
  BY DEF WholeInv, TablesWhole, KeysInv
<1> QED
  BY <1>1, WholeInvariance, PTL

\* So do its foreign keys: a seed empties the child tables first and loads the
\* parents first (prisma/seed.ts).
THEOREM ParentsKept == LegacySpec => []NoOrphans
<1>1. WholeInv => NoOrphans
  BY DEF WholeInv, TablesWhole
<1> QED
  BY <1>1, WholeInvariance, PTL

-----------------------------------------------------------------------------
(* Files the services can take over from.  The tables of a file do not say *)
(* that an answer joins a participant and a question of one exam, nor that *)
(* a completed exam has its day: whoever wrote the first files saw to it.  *)

OneExam(img) ==
  \A a \in DOMAIN img.answer :
    LET row == img.answer[a] IN
    row.userId \in DOMAIN img.participant /\ row.questId \in DOMAIN img.question =>
      img.participant[row.userId].examId = img.question[row.questId].examId

Dated(img, day) ==
  \A e \in DOMAIN img.exam :
    img.exam[e].status = "completed" => img.exam[e].encerramento \in 0..day

SoundCopy(img) == OneExam(img) /\ Dated(img, now)
SoundFiles == \A file \in Shipped : OneExam(file.image) /\ Dated(file.image, 0)

FilesSound ==
  /\ SoundCopy(legacy.image) /\ SoundCopy(lastCopy.image)
  /\ \A file \in baks : SoundCopy(file.image)
  /\ Running("backup") => SoundCopy(script.image)

SoundInv == AnswersSameExam /\ CompletedHasClosingDay /\ FilesSound

LEMMA BlankSound ==
  SoundCopy(Blank) /\ SoundCopy(Absent.image) /\ SoundCopy(Bare.image)
<1>1. \A t \in Copied : DOMAIN Blank[t] = {}
  BY DEF Blank, Empty
<1>2. DOMAIN Blank.answer = {} /\ DOMAIN Blank.exam = {}
  BY <1>1 DEF Copied
<1>3. Absent.image = Blank /\ Bare.image = Blank
  BY DEF Absent, Bare
<1> QED
  BY <1>2, <1>3 DEF SoundCopy, OneExam, Dated

LEMMA InitSound ==
  ASSUME SoundFiles, Init, InitLegacy
  PROVE  SoundInv
<1>1. AnswersSameExam /\ CompletedHasClosingDay /\ now = 0
  BY InitInv DEF Inv, Init, InitExams
<1>2. legacy \in Shipped /\ baks = {} /\ ~Running("backup") /\ lastCopy = Absent
  BY DEF InitLegacy, Running, NoScript
<1>3. SoundCopy(legacy.image)
  BY <1>1, <1>2 DEF SoundFiles, SoundCopy
<1> QED
  BY <1>1, <1>2, <1>3, BlankSound DEF SoundInv, FilesSound

LEMMA NowGrows ==
  ASSUME now \in Nat, Next
  PROVE  now' \in Nat /\ now <= now'
<1>1. CASE Tick
  BY <1>1 DEF Tick
<1>2. CASE UNCHANGED now
  BY <1>2
<1>3. ASSUME NEW s \in Slots, ExamsStep(s)
      PROVE  UNCHANGED now
  BY <1>3 DEF ExamsStep, WriteStatus, ExportRanking, SendMail, ExamGone, examsVars
<1> QED
  BY <1>1, <1>2, <1>3 DEF Next, ExamsNext, CreateExam, UpdateExam, RemoveExam, ReadStatus,
                          examsVars

LEMMA SoundLater ==
  ASSUME NEW img, SoundCopy(img), now \in Nat, now' \in Nat, now <= now'
  PROVE  OneExam(img) /\ Dated(img, now')
<1>1. 0..now \subseteq 0..now'
  OBVIOUS
<1> QED
  BY <1>1 DEF SoundCopy, Dated

LEMMA ServicesSound ==
  ASSUME LegacyInv, WholeInv, WholeInv', SoundInv, Next, ~unfinished,
         UNCHANGED legacyVars
  PROVE  SoundInv'
<1>1. TypeOK
  BY DEF LegacyInv, LegacyTypes, TypeOK
<1>2. AnswersSameExam'
  BY <1>1, AnswersSameExamNext DEF WholeInv, TablesWhole, SoundInv
<1>3. CompletedHasClosingDay'
  BY <1>1, ClosingDayNext DEF SoundInv
<1>4. UNCHANGED <<legacy, baks, script, lastCopy>>
  BY DEF legacyVars
<1>5. now \in Nat /\ now' \in Nat /\ now <= now'
  BY NowGrows DEF LegacyInv, LegacyTypes
<1>6. FilesSound'
  BY <1>4, <1>5, SoundLater DEF SoundInv, FilesSound, SoundCopy, Running
<1> QED
  BY <1>2, <1>3, <1>6 DEF SoundInv

LEMMA CompletedSound ==
  ASSUME AnswersSameExam, CompletedHasClosingDay
  PROVE  SoundCopy(CompletedImage)
<1> DEFINE img == CompletedImage
<1>1. /\ DOMAIN img.exam = Completed
      /\ \A e \in Completed : img.exam[e] = exams[e]
  BY DEF CompletedImage, Restrict, Completed
<1>2. \A q \in DOMAIN img.question : img.question[q] = questions[q]
  BY DEF CompletedImage, Restrict
<1>3. \A p \in DOMAIN img.participant : img.participant[p].examId = participants[p].examId
  BY DEF CompletedImage, CopiedParticipant
<1>4. /\ DOMAIN img.answer \subseteq DOMAIN answers
      /\ \A a \in DOMAIN img.answer : img.answer[a] = answers[a]
  BY DEF CompletedImage, Restrict
<1> HIDE DEF img
<1>5. OneExam(img)
  BY <1>2, <1>3, <1>4 DEF OneExam, AnswersSameExam
<1>6. Dated(img, now)
  BY <1>1 DEF Dated, Completed, CompletedHasClosingDay
<1>7. SoundCopy(img)
  BY <1>5, <1>6 DEF SoundCopy
<1> QED
  BY <1>7 DEF img

LEMMA BackupSound ==
  ASSUME LegacyInv, SoundInv, BackupNext, UNCHANGED vars
  PROVE  SoundInv'
<1>1. UNCHANGED <<exams, questions, participants, answers, now>>
  BY DEF vars, tables, examsVars
<1>2. AnswersSameExam' /\ CompletedHasClosingDay' /\ FilesSound
  BY <1>1 DEF SoundInv, AnswersSameExam, CompletedHasClosingDay
<1>3. \A img : SoundCopy(img) => OneExam(img) /\ Dated(img, now')
  BY <1>1 DEF SoundCopy, Dated
<1>4. Running("backup") => BackupScript
  BY DEF LegacyInv, LegacyTypes, Running, NoScript, SeedScript
<1>5. ASSUME NEW keep \in BOOLEAN, StartBackup(keep)
      PROVE  FilesSound'
  <2>1. PICK image : image = CompletedImage
    OBVIOUS
  <2>2. SoundCopy(image)
    BY <2>1, CompletedSound DEF SoundInv
  <2>3. script'.image = image /\ UNCHANGED <<legacy, baks, lastCopy>>
    BY <1>5, <2>1 DEF StartBackup
  <2> QED
    BY <1>2, <1>3, <2>2, <2>3 DEF FilesSound, SoundCopy
<1>6. ASSUME NEW stage, Running("backup"), script' = [script EXCEPT !.stage = stage]
      PROVE  script'.image = script.image /\ SoundCopy(script.image)
  BY <1>2, <1>4, <1>6 DEF BackupScript, FilesSound
<1>7. ASSUME MovePrevious
      PROVE  FilesSound'
  <2>1. /\ legacy' = Absent /\ baks' \subseteq baks \cup {legacy}
        /\ lastCopy' \in {lastCopy, Absent}
    BY <1>7 DEF MovePrevious, PutAside
  <2>2. script'.image = script.image /\ SoundCopy(script.image)
    BY <1>6, <1>7 DEF MovePrevious
  <2> QED
    BY <1>2, <1>3, <2>1, <2>2, BlankSound DEF FilesSound, SoundCopy
<1>8. ASSUME OpenLegacy
      PROVE  FilesSound'
  <2>1. legacy' = Bare /\ UNCHANGED <<baks, lastCopy>>
    BY <1>8 DEF OpenLegacy
  <2>2. script'.image = script.image /\ SoundCopy(script.image)
    BY <1>6, <1>8 DEF OpenLegacy
  <2> QED
    BY <1>2, <1>3, <2>1, <2>2, BlankSound DEF FilesSound, SoundCopy
<1>9. ASSUME CreateLegacyTables
      PROVE  FilesSound'
  <2>1. legacy'.image = Blank /\ UNCHANGED <<baks, lastCopy>>
    BY <1>9 DEF CreateLegacyTables, Holding
  <2>2. script'.image = script.image /\ SoundCopy(script.image)
    BY <1>6, <1>9 DEF CreateLegacyTables
  <2> QED
    BY <1>2, <1>3, <2>1, <2>2, BlankSound DEF FilesSound, SoundCopy
<1>10. ASSUME WriteAll
       PROVE  FilesSound'
  <2>1. /\ legacy'.image = script.image /\ lastCopy'.image = script.image
        /\ UNCHANGED baks /\ ~Running("backup")' /\ Running("backup")
    BY <1>10 DEF WriteAll, Holding, Running, NoScript
  <2>2. SoundCopy(script.image)
    BY <1>2, <2>1 DEF FilesSound
  <2> QED
    BY <1>2, <1>3, <2>1, <2>2 DEF FilesSound, SoundCopy
<1> QED
  BY <1>2, <1>5, <1>7, <1>8, <1>9, <1>10 DEF BackupNext, SoundInv

\* What a seed has loaded so far is as sound as its file.
LEMMA LoadedSound ==
  LegacyInv /\ NoOrphans /\ SoundCopy(legacy.image)
    /\ Running("seed") /\ script.cleared = 5
    => AnswersSameExam /\ CompletedHasClosingDay
<1> SUFFICES ASSUME LegacyInv, NoOrphans, SoundCopy(legacy.image), Running("seed"),
                    script.cleared = 5
             PROVE  AnswersSameExam /\ CompletedHasClosingDay
  OBVIOUS
<1>1. /\ SeedScript /\ FilesShaped
      /\ ExamsLoaded /\ QuestionsLoaded /\ ParticipantsLoaded /\ AnswersLoaded
  BY SeedingFacts DEF SeedFacts, LegacyInv, LegacyTypes
<1>2. PICK at \in 1..4 : at = script.at
  BY <1>1 DEF SeedScript
<1>3. /\ DOMAIN exams \subseteq DOMAIN Source("exam")
      /\ DOMAIN questions \subseteq DOMAIN Source("question")
      /\ DOMAIN participants \subseteq DOMAIN Source("participant")
      /\ DOMAIN answers \subseteq DOMAIN Source("answer")
  BY <1>1, <1>2 DEF ExamsLoaded, QuestionsLoaded, ParticipantsLoaded, AnswersLoaded,
                    Progress
<1>4. \A q \in DOMAIN questions : questions[q].examId = Source("question")[q].examId
  <2> SUFFICES ASSUME NEW q \in DOMAIN questions
               PROVE  questions[q].examId = Source("question")[q].examId
    OBVIOUS
  <2>1. PICK row \in Question : row = Source("question")[q]
    BY <1>1, <1>3, ShapedIds DEF FilesShaped, ImageShaped, Source
  <2>2. questions[q] = [row EXCEPT !.correctAnswer = MigratedKey(@)]
    BY <1>1, <2>1 DEF QuestionsLoaded
  <2> QED
    BY <2>1, <2>2 DEF Question
<1>5. AnswersSameExam
  <2> SUFFICES ASSUME NEW a \in DOMAIN answers
               PROVE  participants[answers[a].userId].examId =
                        questions[answers[a].questId].examId
    BY DEF AnswersSameExam, NoOrphans
  <2>1. PICK u \in DOMAIN participants, q \in DOMAIN questions :
          u = answers[a].userId /\ q = answers[a].questId
    BY DEF NoOrphans
  <2>2. Source("answer")[a].userId = u /\ Source("answer")[a].questId = q
    BY <1>1, <2>1 DEF AnswersLoaded
  <2>3. Source("participant")[u].examId = Source("question")[q].examId
    BY <1>3, <2>1, <2>2 DEF SoundCopy, OneExam, Source
  <2>4. participants[u].examId = Source("participant")[u].examId
    BY <1>1 DEF ParticipantsLoaded
  <2> QED
    BY <1>4, <2>1, <2>3, <2>4
<1>6. CompletedHasClosingDay
  BY <1>1, <1>3 DEF ExamsLoaded, Source, SoundCopy, Dated, CompletedHasClosingDay
<1> QED
  BY <1>5, <1>6

LEMMA LoadedSoundNext ==
  (LegacyInv /\ NoOrphans /\ SoundCopy(legacy.image)
    /\ Running("seed") /\ script.cleared = 5)'
    => (AnswersSameExam /\ CompletedHasClosingDay)'
  BY LoadedSound, PTL

LEMMA SeedSound ==
  ASSUME LegacyInv, LegacyInv', WholeInv, WholeInv', SoundInv, SeedNext,
         UNCHANGED <<calls, examsVars>>
  PROVE  SoundInv'
<1>1. UNCHANGED <<legacy, baks, lastCopy, now>> /\ ~Running("backup")'
  BY SeedFiles DEF examsVars
<1>2. FilesSound'
  BY <1>1 DEF SoundInv, FilesSound, SoundCopy
<1>3. SoundCopy(legacy.image)'
  BY <1>2 DEF FilesSound
<1>4. CASE StartSeed \/ SetVal \/ Cut
  <2>1. UNCHANGED <<exams, questions, participants, answers>>
    BY <1>4 DEF StartSeed, SetVal, Cut, tables
  <2> QED
    BY <1>1, <1>2, <2>1 DEF SoundInv, AnswersSameExam, CompletedHasClosingDay
<1>5. CASE ClearTable
  <2>1. Running("seed") /\ SeedScript /\ script.cleared < 5
    BY <1>5, SeedingFacts, OrdersAre DEF ClearTable
  <2>2. PICK n \in 0..4 : n = script.cleared
    BY <2>1 DEF SeedScript
  <2>3. /\ answers' = IF n = 0 THEN Empty ELSE answers
        /\ exams' = IF n = 4 THEN Empty ELSE exams
    BY <1>5, <2>2, OrdersAre DEF ClearTable
  <2>4. n >= 1 => DOMAIN answers = {}
    BY <2>1, <2>2, SeedingFacts DEF SeedFacts, AnswersLoaded, Progress
  <2>5. DOMAIN Empty = {}
    BY EmptyShaped
  <2>6. AnswersSameExam'
    BY <2>2, <2>3, <2>4, <2>5 DEF AnswersSameExam
  <2>7. CompletedHasClosingDay'
    BY <1>1, <2>3, <2>5 DEF SoundInv, CompletedHasClosingDay
  <2> QED
    BY <1>2, <2>6, <2>7 DEF SoundInv
<1>6. CASE LoadExam \/ LoadQuestion \/ LoadParticipant \/ LoadAnswers
  <2>1. ASSUME NEW t, Loading(t)
        PROVE  SeedScript /\ script.cleared = 5
    BY <2>1, SeedingFacts, OrdersAre DEF Loading
  <2>2. ASSUME NEW t, Loading(t), NEW ids, Loaded(ids)
        PROVE  Running("seed")' /\ script'.cleared = 5
    BY <1>1, <2>1, <2>2, LoadedFacts DEF Running
  <2>3. Running("seed")' /\ script'.cleared = 5
    <3>1. CASE LoadExam
      <4>1. Loading("exam")
        BY <3>1 DEF LoadExam
      <4> QED
        BY <2>2, <3>1, <4>1, ExamIsInserted DEF ExamInserted
    <3>2. CASE LoadQuestion
      <4>1. Loading("question")
        BY <3>2 DEF LoadQuestion
      <4> QED
        BY <2>2, <3>2, <4>1, QuestionIsInserted DEF QuestionInserted
    <3>3. CASE LoadParticipant
      <4>1. Loading("participant")
        BY <3>3 DEF LoadParticipant
      <4> QED
        BY <2>2, <3>3, <4>1, ParticipantIsInserted DEF ParticipantInserted
    <3>4. CASE LoadAnswers
      <4>1. Loading("answer")
        BY <3>4 DEF LoadAnswers
      <4> QED
        BY <2>2, <3>4, <4>1, AnswersAreInserted DEF AnswersInserted
    <3> QED
      BY <1>6, <3>1, <3>2, <3>3, <3>4
  <2>4. AnswersSameExam' /\ CompletedHasClosingDay'
    BY <1>3, <2>3, LoadedSoundNext DEF WholeInv, TablesWhole
  <2> QED
    BY <1>2, <2>4 DEF SoundInv
<1> QED
  BY <1>4, <1>5, <1>6 DEF SeedNext

LEMMA NextSound ==
  ASSUME LegacyInv, WholeInv, SoundInv, [LegacyNext]_<<vars, legacyVars>>
  PROVE  SoundInv'
<1>1. LegacyInv' /\ WholeInv'
  BY NextLegacyInv, NextWhole
<1>2. CASE Next /\ ~unfinished /\ UNCHANGED legacyVars
  BY <1>1, <1>2, ServicesSound
<1>3. CASE BackupNext /\ UNCHANGED vars
  BY <1>3, BackupSound
<1>4. CASE SeedNext /\ UNCHANGED <<calls, examsVars>>
  BY <1>1, <1>4, SeedSound
<1>5. CASE UNCHANGED <<vars, legacyVars>>
  <2>1. UNCHANGED <<exams, questions, participants, answers, now, legacy, baks, script,
                    lastCopy>>
    BY <1>5 DEF vars, tables, examsVars, legacyVars
  <2>2. AnswersSameExam' /\ CompletedHasClosingDay'
    BY <2>1 DEF SoundInv, AnswersSameExam, CompletedHasClosingDay
  <2>3. FilesSound'
    BY <2>1 DEF SoundInv, FilesSound, SoundCopy, Running
  <2> QED
    BY <2>2, <2>3 DEF SoundInv
<1> QED
  BY <1>2, <1>3, <1>4, <1>5 DEF LegacyNext

\* From files that are sound every database and every file that follows is.
THEOREM SoundInvariance ==
  ASSUME SoundFiles
  PROVE  LegacySpec => []SoundInv
<1>1. Init /\ InitLegacy => SoundInv
  BY InitSound
<1>2. LegacyInv /\ WholeInv /\ SoundInv /\ [LegacyNext]_<<vars, legacyVars>> => SoundInv'
  BY NextSound
<1> QED
  BY <1>1, <1>2, LegacyInvariance, WholeInvariance, PTL DEF LegacySpec

\* The services find their own invariant in the database after every seed that
\* reached its end, and beside every backup: all that EnemExamsProofs shows of
\* their steps goes on holding.
THEOREM ServicesGoOn ==
  ASSUME SoundFiles
  PROVE  LegacySpec => [](~unfinished => Inv /\ KeysInv)
<1>1. LegacyInv /\ WholeInv /\ SoundInv => (~unfinished => Inv /\ KeysInv)
  BY DEF LegacyInv, LegacyTypes, WholeInv, TablesWhole, SoundInv, Inv, TypeOK
<1> QED
  BY <1>1, LegacyInvariance, WholeInvariance, SoundInvariance, PTL
=============================================================================
