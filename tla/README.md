# Formal model of backend_enem_read_v3

The backend corrects mock ENEM exams: an administrator creates an exam with its
questions, enrols participants, types in presence, essay marks and answers, and
closes the exam; the administrators are then sent a ranking by e-mail, and two
days later visitors may look results up. It is one NestJS process over a
PostgreSQL database reached through Prisma. This directory holds a TLA+ model of
it, TLC runs of small instances and machine-checked proofs about every instance.

## 1. The system

| Component | State it keeps | Operations that change it | What makes it hard |
|---|---|---|---|
| Exams (`exams.service.ts`) | `exams`: status, closing day, scale | create, update, updateStatus, remove; results mail launched and not awaited | status read and written in two statements; a job that outlives its request; a loop of mails that may fail half way |
| Questions (`questions.service.ts`) | `questoes`, unique (exam, numero) | bulkUpsert, remove | items resolved against a snapshot, items that depend on each other, overlapping bulks |
| Participants (`participants.service.ts`, `consulta-code.util.ts`) | `participantes`, unique (exam, code) | create, createMany, presence, essay mark, remove | codes drawn against stale codes; ownership checked before, write by id alone |
| Answers (`answers.service.ts`) | `resultados`, unique (participant, question), no exam column | bulkUpsert, update | two parallel reads, checks long before the writes, chunks of 500 rows |
| Aplicadores (`aplicadores.service.ts`) | `aplicadores` | create, updateStatus, remove | `SET NULL` into participants of any exam |
| Results (`results.service.ts`, two controllers, `results-export.service.ts`) | a map of tries per client; nothing else | none on the tables: ranking, detail, public results, consulta | several statements without a transaction; publication by date; a window that must not be off by one |
| Accounts (`auth.service.ts`, `adm-email-token.service.ts`, `user.service.ts`) | `adms`, `adm_email_tokens`, `refresh_tokens` | login, refresh, logout, invite, accept, forgot, reset, update, remove | links used once, rotation, revocation; several statements without a transaction; accounts removed under a call |
| Guards (`jwt.strategy.ts`, `app-api-key.guard.ts`) | none | none | an access token outlives its account, so each request looks the account up |
| Lists (`common/pagination.ts` under exams and participants) | none | none: a page and the count of its rows | a client reads page after page while rows come and go |
| Scripts (`prisma/backup-to-legacy.ts`, `prisma/seed.ts`) | a SQLite file and the ones put aside | backup of the completed exams; a seed replaces the database by a file | cut short anywhere and run again; explicit ids beside sequences |
| Mail (`mail.service.ts`) | none | one call that resolves or rejects | external |
| Other helpers, shell, `prisma/seed-test.ts` | none | - | - |

The services do not call each other, except that the results mail calls the
export, which calls getRanking. They interact through the tables: Node runs one
handler at a time, but every `await` on a Prisma call lets the others run, so
handlers interleave statement by statement, and so would a second instance of
the process.

What makes each component correct:

* **Exams** - a completed exam has a past closing day; it stays completed; each
  administrator gets the results.
* **Questions** - a success leaves each item of the request in a row of its own,
  in its own exam; a numero names one question of an exam.
* **Participants** - a code names one participant of an exam; an edit checked for
  an exam touches nothing outside it.
* **Answers** - an answer joins a participant and a question of one exam; the
  last answer sent for a pair stands, in one row.
* **Aplicadores / schema** - no row outlives its parents.
* **Results** - a response equals the mark the specification defines; a code
  finds its owner and nobody else; no mark exceeds the scale; tries are limited as
  stated, and nobody is refused who was not over the limit.
* **Accounts** - a link is spent once and withdrawn by the next one; a renewed
  session is over; after a reset no older session goes on; nothing of a removed
  administrator stays usable.
* **Lists** - a walk through the pages serves every row.
* **Scripts** - a seed brings back its file exactly and leaves free ids to the
  services; the last good copy is never lost unless asked.

The hazards behind these are listed with their lines in `PROJECT.json`.

## 2. Modules

```
EnemSchema            tables, cascades, calls in flight
  ExamsService  QuestionsService  ParticipantsService  AnswersService  AplicadoresService
    EnemExams         their composition: Init, Next, Spec, FairSpec, properties
      EnemBook        the tables seen as ExamBook
        MCEnemExams   instances for TLC
      ResultsService  readers of results beside EnemExams      MCResultsService
      LegacyCopy      the scripts beside EnemExams             MCLegacyCopy
ExamBook              what the correction promises (abstract)
AdmAccounts           accounts, links, sessions                MCAdmAccounts
ListPages             the pages of a list                      MCListPages
ConsultaRate          the counter of tries                     MCConsultaRate

Theorems (TLAPS), each module extending the one above it and what it is about:
FiniteLemmas          finite sets, sorted sequences, sums
  EnemExamsProofs     types, parents, calls in flight,         EnemExams
                      unique keys, what bulks leave
    EnemBookProofs    the refinement of ExamBook               EnemBook
    ResultsServiceProofs  owners of codes, marks, counts       ResultsService
    LegacyCopyProofs  what seeds and backups leave, unique    LegacyCopy
                      keys and parents beside them
  ListPagesProofs     walks through a list                     ListPages
AdmAccountsProofs                                              AdmAccounts
ConsultaRateProofs                                             ConsultaRate
```

**Tables.** A table is a function from the ids of its live rows to rows. Ids
come from sequences, start at 1 and are never given twice: `serial` holds the
last of each. `WithRows` is INSERT, `Without` DELETE, and `DeleteExam`,
`AnswersWithout`, `AplicadorCleared` are the `ON DELETE` rules of the first
migration. Texts, names and columns no property tells apart are left out. The
unique keys are *not* built into the tables: they are guards of the statements
that could break them, and `UniqueKeys` is checked.

**Calls.** `calls[s]` is what a handler keeps between two awaits, one slot for
each request being served: the request after its checks, with the ids it
resolved. A handler is cut where it awaits a Prisma call, and one call is one
step, with these joins: an existence check whose answer a foreign key tests
again is joined to the next statement (creation of an aplicador, the exam of a
bulk); the statements of a transaction take effect together, since nobody sees
them before the commit and the rows written are locked until then, but their
snapshot is an earlier step, since READ COMMITTED does not protect it. A request
the first checks refuse changes nothing and is not represented. A statement
that meets no row or breaks a constraint ends the call without a write
(`QuestionsRefused`, `EnrolRefused`, `AnswersRefused`, `ParticipantGone`,
`ExamGone`), and `Crash` ends any call in a slot of `Faulty` at any await: an
error of the database, such as a deadlock it resolves, a rejected mail or the
end of the process.

**Services.** Each operation of a service that writes is an action, or one action for
each await:

| Module | Code | Actions |
|---|---|---|
| ExamsService | create, update, remove | CreateExam, UpdateExam, RemoveExam |
| | updateStatus | ReadStatus, WriteStatus |
| | notifyAdmsResultsEmail | ExportRanking, SendMail per message; the slot of the request that completed the exam stands for the job |
| QuestionsService | bulkUpsert | SnapshotQuestions, SaveQuestions or QuestionsRefused |
| | remove | FindQuestion, RemoveQuestion |
| ParticipantsService | create, createMany | AllocateCodes, InsertParticipants or EnrolRefused |
| | assertOwned and the edits | AssertOwned, then UpdatePresenca, UpdateRedacao, RemoveParticipant or ParticipantGone |
| AnswersService | bulkUpsert | OpenBulkAnswers, ReadOwners twice in any order, SaveAnswers or AnswersRefused |
| | update | UpdateAnswer |
| AplicadoresService | create, updateStatus, remove | one action each |
| ResultsService | getRanking | AskRanking or AskPublicResults, ReadExam, ReadParticipants and ReadQuestions in any order, ReadPesos |
| | consultaByCode, getDetail | AskConsulta, FindCode; AskDetail; ReadParticipant and ReadDetailPesos in any order, Detail |
| ConsultaRate | assertConsultaRateLimit | Admit or Refuse, in one step |
| AdmAccounts | loginAdm, refresh, issueTokens | Login; Refresh, Rotate; IssueTokens or SessionRefused |
| | logout | Logout |
| | invite, forgotPassword, issueInvite, issuePasswordReset | Invite or ForgotPassword; InvalidatePending; CreateLink or LinkRefused |
| | acceptInvite, resetPassword, consume | AcceptInvite, ConsumeRead, ConsumeWrite, CreateAdm; ResetPassword, ConsumeWrite, SetPassword, RevokeSessions; LinkUseRefused |
| | update, remove of users | FindEmail, UpdateAdm or UpdateRefused; RemoveAdm |
| ListPages | findAll, findAllPresente | StartWalk, Count and FindMany in any order, Respond; Enter and Leave are the writes of others |
| LegacyCopy | backup-to-legacy.ts | StartBackup, MovePrevious, OpenLegacy, CreateLegacyTables, WriteAll |
| | seed.ts | StartSeed, ClearTable, LoadExam, LoadQuestion, LoadParticipant, LoadAnswers, SetVal |

**Accounts.** A link is `pending`, `expired` or `used`, a session `live`,
`expired` or `revoked`: the columns `used_at`, `revoked_at` and `expires_at` seen
at the present instant, and `ExpireLink` and `ExpireSession` are the clock. What
`used` hides - whether the link was spent or withdrawn - is in the history field
`spent`, and the other fields marked (history) tell the properties what came
before what; no guard reads them. Joined steps: the mail of a link with the
response that ends it (it touches no table, the link is stored already); the
lookup of the account in refresh with that of the session (the session's foreign
key says the account is there); the lookup of the address in acceptInvite with
that of the link (the unique key tests it again at the insert). Passwords are the
number of the write that stored them; bcrypt, hashes and JWT signatures are left
out, and an access token is the account it names (`Authenticated`).

**Scripts.** One script runs at a time; the services go on during a backup, while
a seed has the database to itself and is run again, after a cut, before the
services start. These are assumptions on the operator, nothing in the scripts
enforces them. `Cut` ends a script at any step. Every row of a
seed carries explicit ids and `SetVal` moves each sequence afterwards. The
tables are loaded one after the other, rows by rowid: `left` holds the ids of the
table being loaded that are still to be inserted. A file that lies in
`prisma/legacy` from the start (`Shipped`) is absent or holds tables of rows of
the column types and the unique keys of its DDL, which SQLite always enforces.
Nothing is assumed of how its rows refer to each other, since SQLite checks the
foreign keys only for a connection that turns them on, nor that it has a row at
all: a row without its parent is refused by the database (the guards of the
loads), and ends the seed there. Likewise `WriteAll` is refused by the keys of the
file (`FileKeys`, `FileParents`).

**The abstract book.** ExamBook knows exams only: each is one object with its
status, scale, key, people and one sheet of answers, and each operation is one
step on one exam. It has no ids that refer to each other, no calls, no checks and
no failures. `EnemBook` reads the book off the tables - an exam's key and people
by `exam_id`, its sheet from the answers of its people - and `ImplementsBook`
says that every step of the services is a step of the book or leaves it as it
is. The mapping needs no history: what is in flight is no part of the book, so
a call that waits, is refused or crashes is a stutter. This is where a write whose
checks are long past would show: answers that join two exams are a `Mark` of
neither, a renumbering seen half done is no `EditQuestions`.

**Marks.** ResultsService does not divide: a row keeps what was earned, the sum
of the weights and the scale, and rows of one ranking, which share the sum, are
compared after scaling. The rounding of floating point is not modelled. The name
that breaks ties is the participant's id. The sorted rows (`Ranking`) are defined by
what the sort promises, the sequence of the rows in which none comes before
a better one, and the sums are those of module Functions: both are definitions
the prover can reason about.

**A statement that includes relations** (the participants of a ranking with
their answers and questions) is one step, though Prisma may send it as several
SELECTs: the model has fewer torn reads than the program, which makes the run
that shows one conclusive and leaves the exactness of responses that no write came
across unaffected. It limits what is said
of the others: `CountsAgree` and `ScaleHoldsWithWeights` take the participants of a
ranking, with their answers and questions, as they were at one instant. The read of a backup
(`CompletedImage`) is such a statement as well. Torn, it could take an answer
without its question, and writeAll would refuse the copy: to the properties that is
a backup cut before writeAll. A torn copy that is accepted is no state the
database ever was in, but each of its tables is of one SELECT and no row ever
moves to another exam, so it keeps the keys and joins no two exams: this is an
argument, not a theorem.

## 3. Properties and runs

`CHECK_DEADLOCK FALSE` in every configuration but `pages`: ids and clocks are
bounded, and at the bound nothing is left to do.

| Run | Question | Bounds |
|---|---|---|
| life | `CompletedHasClosingDay` under two concurrent status calls, edits, removals, days; `EveryAdmIsSentResults` unless a message fails; `EveryCallEnds` with the results job | 2 slots, 1 exam, 2 administrators, a clock of two days, messages that fail or not |
| questions | `TypeOK`, `SavedQuestionsStand`, `UniqueKeys`, `CallsOwnRows`, `ImplementsBook` | 2 slots, 2 exams, ids up to 5; bulks by numero, by id, renumbering, swapping, creating twice |
| enrol | `NoOrphans`, `UniqueKeys`, `EditsStayInExam`, `CallsOwnRows`, `ImplementsBook` | 2 slots, 2 exams, 2 participants, 1 aplicador; one and two participants per request |
| answers | `AnswersSameExam`, `SavedAnswersStand`, `UniqueKeys`, `CallsOwnRows`, `ImplementsBook` | 2 slots, two exams of one question or one exam of two, chunks of 2 rows, a pair repeated across the boundary of a chunk |
| results | responses no write came across: `RankingIsExact`, `DetailIsExact`, `ConsultaFindsOwner`; responses written across: `CountsAgree`, `ScaleHoldsWithWeights`, `ConsultaShowsOwner` | one reader and one slot; two exams that share a code, one closed yesterday or two days ago; 3 questions, 3 participants; a question corrected, one created and answered, answers to the others, removals; `QuietOrCrossed` |
| rate | `LessThanTwiceAdmitted`, `RefusedOnlyWhenSpent` | 2 tries in a window of 3 instants, 8 instants, 2 clients; restarts, across which nothing is claimed |
| accounts | `TypeOK`, `LinksSpentOnce`, `OnlyOverlappedLinksCoexist`, `RenewedIsRevoked`, `ResetEndsSessions`, `RemovedAdmIsOut` | 2 calls at once that may fail anywhere, 2 spellings of one address, 2 accounts, 2 links, 2 sessions, 3 passwords |
| legacy | `SeedRestores`, `NextIdsAreFree`, `LastCopyKept`, `UniqueKeys` over scripts cut anywhere | a file of 2 exams with gaps in its ids and a question without a key, batches of 2 answers, 1 file put aside; services reduced to their one-statement operations |
| pages | `QuietWalkServesAll`, `WalkErrorsAreCaused` | 5 rows, two of them with one name, pages of 1, 2 and 3 rows, up to 2 rows that enter or leave during a walk |

Why these are enough: every race of this code is between two handlers (each
check-then-write has one read and one write, and a third handler can only do
what the second did), so two slots show it; two exams are enough to confuse one
with the other; two rows of a kind are enough to confuse rows, and ids run up to
5 so that rows are created after others were removed. What the bounds leave out
- more slots, rows, longer requests - is what the proofs of section 5 cover for
the safety properties named there.

The run of results starts from a populated database, a state the services reach,
and has two kinds of requests in the picture. From the first start, an exam closed
yesterday whose results were sent, and a draft, come the requests that no write
comes across: `QuietReaders` drops a reader at the first write across it, or when a
call on its exam begins. The properties about these speak only of undisturbed
responses, and the services do not look at readers, so what they do afterwards is
also done in the states where the reader is free. From the second start, the exam
closed a day earlier and its mail failed (which only tells the two starts apart),
`OneRequest` spends the states on one request about the published exam: it comes in
while the tables are still as they were at the start - a bulk or a removal may be
under way already - the writes come across its statements, and its response ends
the behaviour. The draft is there, with a question and a participant who has a code of
the other exam, and is left alone. Requests on tables already changed that are
written across, and enrolments beside a request, are left to the proofs, which
cover every state of the services. `torn_marks` has no constraint.

In `accounts` two calls race over one account or two: a second one comes of an
invite, once the address of the first was edited to its other spelling; two links and
two sessions are an older and a younger one. A third link could only replace one
of the two as the second does. `legacy` needs no slots: the calls of the services
and their interleavings are the subject of the other runs, and between two
scripts, and during a backup, exams are created and removed and answers edited in
single statements. Batches of two answers split the three
of the file into a full one and a part. In `pages` each row can be first, inside
or last on a page, with a boundary before and after it.

Slots, and in `enrol` codes, are symmetric: they are only compared for equality.
No run of a liveness property uses symmetry.

Fairness (`FairSpec`, in `life` alone, for its two liveness properties): weak
fairness of the steps that carry an accepted call on. The event loop keeps running
and the database and the mail service settle every promise, with an answer or an
error. No fairness is assumed of clients, of the clock or of failures; a slot
outside `Faulty` has no failures, which is what `life` needs to say that nothing
else stops a call. The other runs state safety
properties alone and assume no fairness.

### What the documents say and the code does not do

Each is a run that TLC ends with a counterexample.

| Run | Says the repository | Does the code |
|---|---|---|
| completed_terminal | `completed` is terminal (spec-resend-email, story 38) | two calls read the same status; the later write takes the exam back to `in_progress` (exams.service.ts:103) |
| old_session | a reset ends every session begun before it (spec-resend-email, story 13) | a login that compared the old password, or a refresh that read its token, stores a new one after the sweep (auth.service.ts:140) |
| torn_marks | the formula of the mark (mvp, story 13) | hits with their weights and the sum of the weights are read in different statements (results.service.ts:164, and 78 with 85): a bulk lowers a weight from 2 to 1 between them, a participant has earned 3 out of 2 and gets 15 on a scale of 10 |

TLC's counterexample of `torn_marks` is a detail, the shorter one; a ranking takes one
step more. The property asks nothing of an exam without weights, where the code gives 0 (results.service.ts:91, 29). `ScaleHoldsWithWeights`
says what remains: only a question that went, or changed its weight, can do it;
questions created and answered between the statements cannot, since the weights are
summed last. A detail has no such order, and nothing is left of it but the
undisturbed case.

### Facts of the code the model keeps and no run is spent on

* The first results mail that fails ends the loop: the administrators after it
  get none (exams.service.ts:117; the handoff, line 49, promises one to each).
  `EveryAdmIsSentResults` holds with that exception, and names it.
* Two overlapping completions both launch the mails (exams.service.ts:104).
* An item of a bulk that takes the numero an earlier item of it just left
  overwrites that item; `SavedQuestionsStand` speaks of bulks whose items aim at
  different rows. A pair repeated within one chunk of answers is refused, across
  two chunks it is an update (spec-tasks 6b has duplicates update).
* A participant may be enrolled with the aplicador of another exam
  (participants.service.ts:38; story 25 of the mvp). Nothing closes an exam to
  corrections once its results are public (story 24).
* Two overlapped invites leave two links that work (adm-email-token.service.ts:27;
  spec-resend-email, story 6, has the older one stop): `OnlyOverlappedLinksCoexist`
  says that only overlap does it. Resets are withdrawn by address, so an
  older link works on after the address of its account changed.
* Two refreshes of one token leave two sessions; `RenewedIsRevoked` says that the
  token itself is over in any case.
* An invite is spent in a statement before the account is created: a failure
  between them leaves neither.
* PATCH /users/:id stores an address as it was typed, invite and forgotPassword
  look for the one spelling. `TypeOK` of AdmAccounts asks it of links alone.
* A reset that fails between the password and the sweep leaves the older sessions
  alive (auth.service.ts:139); `ResetEndsSessions` speaks of resets that end.
* A seed gives a question without a key the key A, and texts come back as
  placeholders; a backup cut short leaves a file without rows or tables, which a
  seed takes for a copy.
* Lists are sorted by name alone, so of people with one name one may be on two
  pages and another on none; `QuietWalkServesAll` states what remains true.

## 4. Checking

Parse, run and prove with SANY, TLC and tlapm from this directory, e.g.
`tlc -config answers.cfg MCEnemExams.tla` and `tlapm EnemExamsProofs.tla`. Each
property of a passing run also has a mutant: a variant of one definition, kept
beside it in its module with a comment that says what was broken
(`ClosingDayForgotten`, `targetIdAnyExam`, `RotateKeeping`, ...), under which TLC
finds the property violated.

## 5. Proofs

For every value of the constants: any number of slots, readers, letters, codes,
clients, administrators, any bodies of requests, any shipped file and size of a
batch, any bound of the sequences and the clock, faults in any slots. The
assumptions are the ones named in the modules (`SchemaAssumption`,
`ExamsAssumption`, `LegacyAssumption`, ...): they only say what the constants are.
Every inductive invariant below was an invariant of a run of TLC before it was
proved.

**FiniteLemmas** has what the other modules need of finite data. Induction
cannot be stated for a predicate here, so it is stated for a *set* of good
subsets: one that holds the empty set, and each good set with one more element,
holds every subset (`ElementByElement`). With it:

* a sum over a finite set is a fold, of which a prover knows only that it solves a
  recursive equation if some function does. `SummingExists` builds the function
  (by well-founded recursion on the strict parts of a set), and then `SumTakes`,
  `SumAdds`, `SumOfSums`, `SumRenamed`, `SumCounts` are the rules of sums;
* `CountedBothWays` exchanges two sums, the reason why hits by participant and hits by
  question agree;
* `SortedEnumeration`: a finite set under a strict total order has a sequence
  of its elements in that order, so the CHOOSE in `Ranking` has a witness.

**EnemExams** (`Spec`)

* `TypeCorrect` - `[]TypeOK`. One lemma per action; the work is in the
  tables, where every write must leave ids within `1..serial`: the first part of
  EnemExamsProofs states once what insertion, removal, update and the cascades
  preserve.
* `Invariance` - `[]Inv`, with `Inv == TypeOK /\ NoOrphans /\
  CallsOwnRows /\ AnswersSameExam /\ CompletedHasClosingDay`, inductive as a
  whole. `AnswersSameExam` must survive
  SaveAnswers, which looks at foreign keys only: what it needs is that the
  participants and questions the call checked are still of its exam
  (`CallsOwnRows`). That in turn holds because an id is never given twice
  (`TypeOK` bounds the ids a call may hold by `serial`) and no statement changes
  the exam of a row (the lemma `NextKeepsExam`): between check and write a row
  may vanish, never move. A statement of the transaction then finds the row as it
  was checked, or the foreign key refuses it.
* `NoRowIsOrphan`, `CallsStayInTheirExam`, `AnswersJoinOneExam`,
  `CompletedExamsAreDated` - the parts of `Inv`.
* `EditsKeepToTheirExam` - the action property `EditsStayInExam`, from `Inv`: the
  id an edit writes by belongs to the exam it was checked for.
* `KeysStayUnique` - `[]UniqueKeys`, by `KeysInv == UniqueKeys /\
  RequestsDiffer`. The index an INSERT meets compares it with the rows of the
  table; that two rows of one request differ was found out before the first await
  (the numeros of a bulk, the codes that were drawn), and `RequestsDiffer` says
  that the call still carries it when it writes. Of two rows a bulk writes
  the last items differ in numero; a row it leaves alone was met by the index of
  every item.
* `BulkAnswersStand`, `BulkQuestionsStand` - the action properties
  `SavedAnswersStand` and `SavedQuestionsStand`: after the transaction each pair
  has the last answer sent, in one row; each item of a bulk of questions whose
  targets differ has its row. The targets come from a snapshot older than the
  write: `CallsOwnRows` says that a target still there is of the exam, and an UPDATE
  whose target vanished fails (`QuestionsFit`).
* `ServicesImplementBook` - `Spec => ImplementsBook`, step by step under `Sound
  == Inv /\ KeysInv`. A book is compared page by page (key, people, sheet), each
  step changes some pages of one exam or none. The sheet of an exam is a function
  of pairs only because pairs are unique; that a bulk of answers touches no sheet
  but its own is `AnswersSameExam`.

**ResultsService** (`ResultsSpec`)

* `ReadersOnlyRead` - `ResultsSpec => Spec`: a step of the readers leaves the
  services alone, so each theorem above holds whoever reads.
* `ConsultaOfOwner` - `[]ConsultaFindsOwner`, by `ReadersInv`. The code and the
  row are read in two statements, the second by the id alone. As long as no write
  came across, the participant the first one found still has the code;
  `UniqueKeys` makes it the only one. The run starts from a populated database, the
  theorem from the empty database: every state of the services is covered.
* `ReadsStayCurrent` - `[]ReadsCurrent`, the inductive invariant of the readers:
  the rows, weights and scale a read holds are, at each of its stages, what the
  tables would answer now, unless a write to the results of the exam marked it as
  crossed. The work is in the writes: one that is not marked touches nothing the
  results of that exam are made of (`SameResults`).
* `DetailOfMark`, `RankingOfPresent` - `[]DetailIsExact` and `[]RankingIsExact`.
  `DetailIsExact` is about the notas and the lines of
  `questoes`. The response sums over the rows of the include, `MarkOf` over the questions of the
  exam: the two agree because a pair has one answer (`UniqueKeys`) and its
  question is of the exam of the participant (`AnswersSameExam`), so that answers
  and questions answered correspond one to one (`SheetIsMark`).
* `CountsOfRanking` - `[]CountsAgree`: one table of hits, summed by rows and by
  columns, for rankings written across as well. `ReadsHeld` says what a read keeps
  then: its rows came from one statement, so a pair has one answer in them, and
  each answer is about a question that the list read beside them has too, as long
  as no question came or went.
* `ScaleOfRanking` - `[]ScaleHoldsWithWeights`, from `ReadsHeld` as well: the
  questions a row was read with are still there with their weights when the
  weights are summed, and no two answers of the row are about one of them, so what was
  earned is a part of the sum (`SumOfPart`), however many questions came meanwhile.
* `ConsultaOfNoOther` - `[]ConsultaShowsOwner`, by `OwnersHeld`: the id that was found
  may vanish before its detail is read, but no other row gets it, and no statement
  changes the exam or the code of a row (`CodesKeepOrEnrol`).

**ListPages** (`Spec`)

* `Invariance` - `[]Inv`. A row under a name of its own has one place in every order of
  the list, the number of rows before it, however equal names are ordered. `Inv`
  counts the rows whose place is in front of the last place asked for: those that
  never came are no more than the rows that left (`MissesFollow`), those that came
  again no more than the rows that entered (`RepeatsFollow`), since a write moves
  what is behind it by one place and takes at most one row across that place. `late`
  are the rows that entered after the total was counted: the last page is computed
  of it (`CountFollows`).
* `QuietWalk`, `ErrorsAreCaused` - `[]QuietWalkServesAll`, `[]WalkErrorsAreCaused`:
  the walk ends at a page whose end is at or beyond the total, where every row is in front.

**AdmAccounts** (`Spec`)

* `Invariance` - `[]Inv`, with `Inv == TypeOK /\ CallsFollow /\ AdmsOrdered /\
  RemovedAdmIsOut /\ LinksInv /\ SessionsInv`. `CallsFollow` is what a call goes
  on trusting between two statements: that the links it will replace are spent,
  that the parent of the session it will store is revoked, that the password of
  the account is no older than the one its reset gave. `SpentIsUsed` closes the
  other half of a single use: a link that did its work is no longer pending.
* `TypeCorrect`, `LinkSpentOnce`, `LaterLinkWithdraws`, `RenewalRevokes`,
  `ResetRevokes`, `RemovalIsComplete` - the properties of the run.

**ConsultaRate** (`Spec`)

* `FewerThanTwice`, `RefusalIsEarned` - `[]LessThanTwiceAdmitted` and
  `RefusedOnlyWhenSpent`, by `ClientAccounted`: the entry of a client counts the
  tries admitted in its window, the window began with one of them, and in the
  stretch of one window before it fewer than the maximum were admitted. A
  stretch of one length meets two windows at most, the older one only without
  its first try. A restart loses the map and with it the history `admitted`: the
  bound is one of stretches without a restart in them.

**LegacyCopy** (`LegacySpec`)

* `NextIdsFree` - `[]NextIdsAreFree`, by `LegacyInv == LegacyTypes /\ CopyFacts
  /\ SeedFacts`. A seed writes ids the sequences have not reached, so the bound of
  `TypeOK` is given up while a seed is unfinished; `SeedFacts` follows the order of
  loading: tables after the current one are empty, those before it are whole
  with their sequence at the last id.
* `CopyKept` - `[]LastCopyKept`, from `CopyFacts`: after the first step of a backup
  the file at its place is absent or has no tables, so what the next two
  steps replace is never the last copy, and writeAll makes a new one.
* `SeedReplaces` - the action property `SeedRestores`: when a seed ends, the
  tables are those of its file, whatever earlier seeds had left.
* `KeysKept`, `ParentsKept` - `[]UniqueKeys` and `[]NoOrphans`, by `WholeInv ==
  TablesWhole /\ FilesUnique` beside `LegacyInv`. A seed compares nothing but the
  codes: what it has loaded has the numeros and pairs of its file (`SeedFacts`), and
  the file has each once, because SQLite or the tables it was copied from did.
  While it deletes, a table whose children were not emptied before it would leave
  orphans; `SeedFacts` has the order. `TablesWhole` includes `CallsOwnRows`, for the
  calls that go on beside a backup.
* `ServicesGoOn` - outside a seed `Inv /\ KeysInv`, the invariant under which
  everything is proved of the steps of the services, holds again: services that
  start on what a seed left, or go on beside a backup, are in the states the
  theorems of EnemExams speak of. Two parts of `Inv` are in no key of the file, that an
  answer joins a participant and a question of one exam and that a completed exam has
  its day. They are the hypothesis `SoundFiles` of the files that were there at the
  start (the file of MCLegacyCopy meets it), and `SoundInv` carries them from
  database to file and back.

Only model-checked:

* The liveness of `life`: `EveryAdmIsSentResults` and `EveryCallEnds`. (That an
  await of a call that meets no row ends it is no property: a statement that fails
  is a rejected promise, and the model says so by its actions of refusal.)

## 6. Not modelled

* `loginAplicador` and the tokens it signs: it writes nothing, and what a token
  opens is decided per request. The API key, a stateless check of a header.
* Mail templates, spreadsheets, slugs, durations: formatting and pure functions.
* The average, maximum and minimum of a ranking; `calcNota`, which only tests
  call.
* Searches by name: a list selects some rows, whichever they are. Lists without
  pages and single lookups are one SELECT.
* `prisma/seed-test.ts`, a tool of development: it fills exam 999 row by row.
  One of its statements matters to the rest: it moves the sequence of exams to the largest id in
  use, so ids of exams removed beyond it are given again. The models and the
  theorems take ids as never given twice, which holds as long as that script is
  not run beside the services.
* The in-memory mock of the tests, where it differs from PostgreSQL (its upserts,
  its lack of transactions).

## 7. Plan

1. Done: the models of every component listed as modelled, their runs, and the
   theorems of section 5: the inductive invariants of EnemExams, AdmAccounts,
   ConsultaRate, LegacyCopy and ListPages, the unique keys (beside the scripts as well),
   what bulks leave behind, the refinement of ExamBook, owners, marks and counts in
   ResultsService, and that the services find their invariant after a seed.
2. Left open: a backup whose read is torn between its SELECTs, as a machine of
   its own; mail and formatting stay out.
