---------------------------- MODULE EnemBookProofs ----------------------------
(***************************************************************************)
(* The services implement ExamBook: every step of theirs, with whatever    *)
(* calls in flight, is a step of the book on one exam or leaves it alone.  *)
(***************************************************************************)
EXTENDS EnemBook, EnemExamsProofs

TheBook == [e \in DOMAIN exams |-> BookOf(e)]

-----------------------------------------------------------------------------
(* The pages of the book.                                                  *)

KeyOf(e) == [q \in QuestionsOf(e) |->
               [numero |-> questions[q].numero, peso |-> questions[q].peso,
                correctAnswer |-> questions[q].correctAnswer]]

PeopleOf(e) == [p \in ParticipantsOf(e) |->
                  [consultaCode |-> participants[p].consultaCode,
                   presenca |-> participants[p].presenca,
                   redacaoNota |-> participants[p].redacaoNota]]

SheetOf(e) == [pair \in SheetPairs(e) |-> MarkedAs(pair)]

LEMMA Pages ==
  ASSUME NEW e
  PROVE  /\ BookOf(e).status = exams[e].status
         /\ BookOf(e).closing = exams[e].encerramento
         /\ BookOf(e).nota = exams[e].notaSimbolica
         /\ BookOf(e).key = KeyOf(e)
         /\ BookOf(e).people = PeopleOf(e)
         /\ BookOf(e).sheet = SheetOf(e)
  BY DEF BookOf, KeyOf, PeopleOf, SheetOf

LEMMA PagesNext ==
  ASSUME NEW e
  PROVE  /\ BookOf(e)'.status = exams'[e].status
         /\ BookOf(e)'.closing = exams'[e].encerramento
         /\ BookOf(e)'.nota = exams'[e].notaSimbolica
         /\ BookOf(e)'.key = KeyOf(e)'
         /\ BookOf(e)'.people = PeopleOf(e)'
         /\ BookOf(e)'.sheet = SheetOf(e)'
  BY DEF BookOf, KeyOf, PeopleOf, SheetOf

\* An exam none of whose pages changed.
LEMMA SamePages ==
  ASSUME NEW e, exams'[e] = exams[e], KeyOf(e)' = KeyOf(e),
         PeopleOf(e)' = PeopleOf(e), SheetOf(e)' = SheetOf(e)
  PROVE  BookOf(e)' = BookOf(e)
<1>1. BookOf(e) = [status |-> exams[e].status, closing |-> exams[e].encerramento,
                   nota |-> exams[e].notaSimbolica, key |-> KeyOf(e),
                   people |-> PeopleOf(e), sheet |-> SheetOf(e)]
  BY DEF BookOf, KeyOf, PeopleOf, SheetOf
<1>2. BookOf(e)' = [status |-> exams'[e].status, closing |-> exams'[e].encerramento,
                    nota |-> exams'[e].notaSimbolica, key |-> KeyOf(e)',
                    people |-> PeopleOf(e)', sheet |-> SheetOf(e)']
  BY DEF BookOf, KeyOf, PeopleOf, SheetOf
<1> QED
  BY <1>1, <1>2

\* A step that changes some pages of one exam.
LEMMA ChangedPages ==
  ASSUME NEW e \in DOMAIN exams, NEW fields, DOMAIN exams' = DOMAIN exams,
         \A other \in DOMAIN exams \ {e} : BookOf(other)' = BookOf(other),
         "status" \notin fields => exams'[e].status = exams[e].status,
         "closing" \notin fields => exams'[e].encerramento = exams[e].encerramento,
         "nota" \notin fields => exams'[e].notaSimbolica = exams[e].notaSimbolica,
         "key" \notin fields => KeyOf(e)' = KeyOf(e),
         "people" \notin fields => PeopleOf(e)' = PeopleOf(e),
         "sheet" \notin fields => SheetOf(e)' = SheetOf(e)
  PROVE  Book!Changes(e, fields)
<1>1. ASSUME NEW field \in Book!Fields \ fields
      PROVE  BookOf(e)'[field] = BookOf(e)[field]
  <2>1. field \in {"status", "closing", "nota", "key", "people", "sheet"}
    BY DEF Book!Fields
  <2> QED
    BY <1>1, <2>1, Pages, PagesNext
<1> QED
  BY <1>1 DEF Book!Changes

LEMMA SameKey ==
  ASSUME NEW e, QuestionsOf(e)' = QuestionsOf(e),
         \A q \in QuestionsOf(e) : questions'[q] = questions[q]
  PROVE  KeyOf(e)' = KeyOf(e)
  BY DEF KeyOf

\* What the book keeps of a participant.
SamePerson(p) ==
  /\ participants'[p].consultaCode = participants[p].consultaCode
  /\ participants'[p].presenca = participants[p].presenca
  /\ participants'[p].redacaoNota = participants[p].redacaoNota

LEMMA SamePeople ==
  ASSUME NEW e, ParticipantsOf(e)' = ParticipantsOf(e),
         \A p \in ParticipantsOf(e) : SamePerson(p)
  PROVE  PeopleOf(e)' = PeopleOf(e)
  BY DEF PeopleOf, SamePerson

-----------------------------------------------------------------------------
(* The sheet of an exam: since a pair has one answer, an answer of one of  *)
(* its people is on it with its own alternative.                           *)

AnswersOf(e) == {a \in DOMAIN answers : answers[a].userId \in ParticipantsOf(e)}

MarkIn(t, pair) == t[CHOOSE a \in DOMAIN t : Pair(t[a]) = pair].alternativa

LEMMA MarkIsRow ==
  ASSUME NEW t, \A x, y \in DOMAIN t : Pair(t[x]) = Pair(t[y]) => x = y,
         NEW a \in DOMAIN t
  PROVE  MarkIn(t, Pair(t[a])) = t[a].alternativa
<1> DEFINE found == CHOOSE x \in DOMAIN t : Pair(t[x]) = Pair(t[a])
<1>1. found \in DOMAIN t /\ Pair(t[found]) = Pair(t[a])
  OBVIOUS
<1>2. found = a
  <2> HIDE DEF found
  <2> QED
    BY <1>1
<1> QED
  BY <1>2 DEF MarkIn

LEMMA SheetRead ==
  ASSUME NEW e, PairsUnique
  PROVE  /\ SheetPairs(e) = {Pair(answers[a]) : a \in AnswersOf(e)}
         /\ DOMAIN SheetOf(e) = SheetPairs(e)
         /\ \A a \in AnswersOf(e) :
              SheetOf(e)[Pair(answers[a])] = answers[a].alternativa
<1>1. SheetPairs(e) = {Pair(answers[a]) : a \in AnswersOf(e)}
  BY DEF SheetPairs, AnswersOf, Pair
<1>2. \A pair : MarkedAs(pair) = MarkIn(answers, pair)
  BY DEF MarkedAs, MarkIn, Pair
<1>3. \A a \in AnswersOf(e) : MarkIn(answers, Pair(answers[a])) = answers[a].alternativa
  BY MarkIsRow DEF PairsUnique, AnswersOf
<1> QED
  BY <1>1, <1>2, <1>3 DEF SheetOf

LEMMA SheetReadNext ==
  ASSUME NEW e, PairsUnique'
  PROVE  /\ SheetPairs(e)' = {Pair(answers'[a]) : a \in AnswersOf(e)'}
         /\ DOMAIN SheetOf(e)' = SheetPairs(e)'
         /\ \A a \in AnswersOf(e)' :
              SheetOf(e)'[Pair(answers'[a])] = answers'[a].alternativa
<1>1. SheetPairs(e)' = {Pair(answers'[a]) : a \in AnswersOf(e)'}
  BY DEF SheetPairs, AnswersOf, Pair
<1>2. \A pair : MarkedAs(pair)' = MarkIn(answers', pair)
  BY DEF MarkedAs, MarkIn, Pair
<1>3. \A a \in AnswersOf(e)' : MarkIn(answers', Pair(answers'[a])) = answers'[a].alternativa
  BY MarkIsRow DEF PairsUnique, AnswersOf
<1> QED
  BY <1>1, <1>2, <1>3 DEF SheetOf

\* Answers of the exam that go, and no other change to them.
LEMMA SheetShrinks ==
  ASSUME NEW e, PairsUnique, PairsUnique', NEW keep \in SUBSET SheetPairs(e),
         \A a \in AnswersOf(e)' : a \in AnswersOf(e) /\ answers'[a] = answers[a],
         \A a \in AnswersOf(e) :
           a \in AnswersOf(e)' <=> Pair(answers[a]) \in keep
  PROVE  SheetOf(e)' = Restrict(SheetOf(e), keep)
<1>1. SheetPairs(e)' = keep
  <2>1. ASSUME NEW pair \in keep PROVE pair \in SheetPairs(e)'
    BY <2>1, SheetRead, SheetReadNext
  <2>2. ASSUME NEW pair \in SheetPairs(e)' PROVE pair \in keep
    BY <2>2, SheetReadNext
  <2> QED
    BY <2>1, <2>2
<1>2. ASSUME NEW pair \in keep
      PROVE  SheetOf(e)'[pair] = SheetOf(e)[pair]
  <2>1. PICK a \in AnswersOf(e)' : Pair(answers'[a]) = pair
    BY <1>1, SheetReadNext
  <2> QED
    BY <2>1, SheetRead, SheetReadNext
<1>3. DOMAIN SheetOf(e)' = keep
  BY <1>1, SheetReadNext
<1>4. SheetOf(e)' = [pair \in keep |-> SheetOf(e)'[pair]]
  BY <1>1 DEF SheetOf
<1> QED
  BY <1>2, <1>4 DEF Restrict

LEMMA SameSheet ==
  ASSUME NEW e, PairsUnique, PairsUnique',
         \A a \in AnswersOf(e)' : a \in AnswersOf(e) /\ answers'[a] = answers[a],
         \A a \in AnswersOf(e) : a \in AnswersOf(e)'
  PROVE  SheetOf(e)' = SheetOf(e)
<1>1. SheetOf(e)' = Restrict(SheetOf(e), SheetPairs(e))
  BY SheetShrinks, SheetRead
<1>2. SheetOf(e) = Restrict(SheetOf(e), SheetPairs(e))
  BY DEF SheetOf, Restrict
<1> QED
  BY <1>1, <1>2

-----------------------------------------------------------------------------
(* Steps that leave the book alone.                                        *)

\* An exam whose rows a step leaves as they are.
LEMMA SameExam ==
  ASSUME NEW e, PairsUnique, PairsUnique', exams'[e] = exams[e],
         QuestionsOf(e)' = QuestionsOf(e),
         \A q \in QuestionsOf(e) : questions'[q] = questions[q],
         ParticipantsOf(e)' = ParticipantsOf(e),
         \A p \in ParticipantsOf(e) : SamePerson(p),
         \A a \in AnswersOf(e)' : a \in AnswersOf(e) /\ answers'[a] = answers[a],
         \A a \in AnswersOf(e) : a \in AnswersOf(e)'
  PROVE  BookOf(e)' = BookOf(e)
  BY SameKey, SamePeople, SameSheet, SamePages

LEMMA SameTables ==
  ASSUME UNCHANGED <<exams, questions, participants, answers>>
  PROVE  UNCHANGED TheBook
<1>1. \A e \in DOMAIN exams : BookOf(e)' = BookOf(e)
  BY DEF BookOf, SheetPairs, MarkedAs, QuestionsOf, ParticipantsOf
<1> QED
  BY <1>1 DEF TheBook

LEMMA SameBook ==
  ASSUME DOMAIN exams' = DOMAIN exams,
         \A e \in DOMAIN exams : BookOf(e)' = BookOf(e)
  PROVE  UNCHANGED TheBook
  BY DEF TheBook

\* A deleted aplicador is forgotten; nothing the book keeps of a person is.
LEMMA ClearedPeople ==
  ASSUME NEW ps, NEW n \in Nat, NEW gone, IsTable(ps, Participant, n),
         participants' = AplicadorCleared(ps, gone),
         \A p \in DOMAIN ps : p \in DOMAIN participants /\ ps[p] = participants[p]
  PROVE  /\ DOMAIN participants' = DOMAIN ps
         /\ \A p \in DOMAIN ps : /\ SamePerson(p)
                                 /\ participants'[p].examId = participants[p].examId
<1>1. DOMAIN participants' = DOMAIN ps
  BY DEF AplicadorCleared
<1>2. ASSUME NEW p \in DOMAIN ps
      PROVE  SamePerson(p) /\ participants'[p].examId = participants[p].examId
  <2>1. participants[p] \in Participant
    BY DEF IsTable
  <2>2. \/ participants'[p] = participants[p]
        \/ participants'[p] = [participants[p] EXCEPT !.aplicadorId = NoId]
    BY DEF AplicadorCleared
  <2> QED
    BY <2>1, <2>2 DEF SamePerson, Participant
<1> QED
  BY <1>1, <1>2

-----------------------------------------------------------------------------
(* The steps of the book, one operation of the services at a time.         *)

\* What holds before and after a step.
Sound == Inv /\ KeysInv

LEMMA SoundFacts ==
  ASSUME Sound
  PROVE  /\ TypeOK /\ NoOrphans /\ CallsOwnRows /\ AnswersSameExam
         /\ RequestsDiffer /\ NumerosUnique /\ CodesUnique /\ PairsUnique
  BY UniqueKeysParts DEF Sound, Inv, KeysInv

LEMMA SoundFactsNext ==
  ASSUME Sound'
  PROVE  /\ NoOrphans' /\ AnswersSameExam'
         /\ NumerosUnique' /\ CodesUnique' /\ PairsUnique'
  BY UniqueKeysParts DEF Sound, Inv, KeysInv

LEMMA OpenStep ==
  ASSUME Sound, Sound', NEW dto \in ExamInputs, CreateExam(dto)
  PROVE  Book!Open
<1> USE SoundFacts, SoundFactsNext
<1>1. PICK e \in Nat, last \in Nat, k \in Nat :
        e = serial.exam + 1 /\ last = serial.question /\ k = dto.qtdQuestoes
  BY ExamsAssumption, Typing DEF Ids
<1> DEFINE row == [status |-> "draft", encerramento |-> NoDate,
                   notaSimbolica |-> dto.notaSimbolica]
           rows == [n \in 1..k |->
                      [examId |-> e, numero |-> n, peso |-> 1, correctAnswer |-> ""]]
<1>2. /\ exams' = WithRows(exams, serial.exam, <<row>>)
      /\ questions' = WithRows(questions, last, rows)
      /\ UNCHANGED <<participants, answers>>
  BY <1>1 DEF CreateExam
<1>3. /\ IsTable(exams, Exam, serial.exam) /\ IsTable(questions, Question, last)
      /\ e \notin DOMAIN exams
  <2>1. IsTable(exams, Exam, serial.exam) /\ IsTable(questions, Question, last)
    BY <1>1, Typing
  <2> QED
    BY <1>1, <2>1, Typing DEF IsTable
<1>4. /\ DOMAIN exams' = DOMAIN exams \cup {e} /\ exams'[e] = row
      /\ \A x \in DOMAIN exams : exams'[x] = exams[x]
  <2>1. (serial.exam + 1)..(serial.exam + Len(<<row>>)) = {e} /\ e - serial.exam = 1
    BY <1>1, Typing
  <2>2. <<row>>[1] = row
    OBVIOUS
  <2> HIDE DEF row
  <2> QED
    BY <1>2, <1>3, <2>1, <2>2 DEF WithRows
<1>5. Len(rows) = k /\ \A n \in 1..k : /\ rows[n].examId = e /\ rows[n].numero = n
                                       /\ rows[n].correctAnswer = ""
  <2>1. Len(rows) = k
    BY <1>1
  <2>2. ASSUME NEW n \in 1..k
        PROVE  /\ rows[n].examId = e /\ rows[n].numero = n
               /\ rows[n].correctAnswer = ""
    OBVIOUS
  <2> HIDE DEF rows
  <2> QED
    BY <2>1, <2>2
<1>6. row.status = "draft" /\ row.encerramento = Book!NoDay
  BY DEF NoDate, Book!NoDay
<1> HIDE DEF rows, row
<1>7. DOMAIN questions' = DOMAIN questions \cup (last + 1)..(last + k)
  BY <1>2, <1>5 DEF WithRows
<1>8. /\ \A q \in DOMAIN questions : questions'[q] = questions[q]
      /\ \A q \in (last + 1)..(last + k) :
           /\ questions'[q].examId = e /\ questions'[q].numero = q - last
           /\ questions'[q].correctAnswer = ""
  <2>1. \A q \in DOMAIN questions : questions'[q] = questions[q]
    BY <1>2, <1>7 DEF WithRows
  <2>2. ASSUME NEW q \in (last + 1)..(last + k)
        PROVE  questions'[q] = rows[q - last] /\ q - last \in 1..k
    <3>1. q \notin DOMAIN questions /\ q - last \in 1..k
      BY <1>1, <1>3 DEF IsTable
    <3> QED
      BY <1>2, <1>7, <3>1 DEF WithRows
  <2>3. ASSUME NEW q \in (last + 1)..(last + k)
        PROVE  /\ questions'[q].examId = e /\ questions'[q].numero = q - last
               /\ questions'[q].correctAnswer = ""
    <3>1. PICK n \in 1..k : n = q - last
      BY <2>2
    <3> QED
      BY ZenonT(40), <1>5, <2>2, <3>1
  <2> QED
    BY <2>1, <2>3
<1>9. QuestionsOf(e)' = (last + 1)..(last + k)
  <2>1. \A q \in DOMAIN questions : questions[q].examId # e
    BY <1>3 DEF NoOrphans
  <2> QED
    BY <1>7, <1>8, <2>1 DEF QuestionsOf
<1>10. ParticipantsOf(e)' = {}
  <2>1. \A p \in DOMAIN participants : participants[p].examId # e
    BY <1>3 DEF NoOrphans
  <2> QED
    BY <1>2, <2>1 DEF ParticipantsOf
<1>11. ASSUME NEW x \in DOMAIN exams
       PROVE  BookOf(x)' = BookOf(x)
  <2>1. QuestionsOf(x)' = QuestionsOf(x)
    BY <1>3, <1>7, <1>8 DEF QuestionsOf
  <2>2. \A q \in QuestionsOf(x) : questions'[q] = questions[q]
    BY <1>8 DEF QuestionsOf
  <2>3. /\ ParticipantsOf(x)' = ParticipantsOf(x) /\ AnswersOf(x)' = AnswersOf(x)
        /\ \A p \in ParticipantsOf(x) : SamePerson(p)
    BY <1>2 DEF ParticipantsOf, AnswersOf, SamePerson
  <2> QED
    BY <1>2, <1>4, <2>1, <2>2, <2>3, SameExam
<1>12. PeopleOf(e)' = Book!Empty
  BY <1>10 DEF PeopleOf, Book!Empty
<1>13. SheetOf(e)' = Book!Empty
  <2>1. SheetPairs(e)' = {}
    BY <1>10 DEF SheetPairs
  <2> QED
    BY <2>1 DEF SheetOf, Book!Empty
<1>14. /\ DOMAIN KeyOf(e)' = (last + 1)..(last + k)
       /\ \A q \in (last + 1)..(last + k) :
            KeyOf(e)'[q].numero = q - last /\ KeyOf(e)'[q].correctAnswer = ""
  BY <1>8, <1>9 DEF KeyOf
<1>15. {KeyOf(e)'[q].numero : q \in DOMAIN KeyOf(e)'} = 1..Cardinality(DOMAIN KeyOf(e)')
  <2>1. Cardinality((last + 1)..(last + k)) = k
    <3>1. last + 1 \in Int /\ last + k \in Int
      BY <1>1
    <3>2. Cardinality((last + 1)..(last + k)) =
            IF last + 1 > last + k THEN 0 ELSE (last + k) - (last + 1) + 1
      BY <3>1, FS_Interval
    <3>3. k \in Nat /\ last \in Nat
      BY <1>1
    <3> QED
      BY <3>2, <3>3
  <2>2. {KeyOf(e)'[q].numero : q \in (last + 1)..(last + k)} = 1..k
    <3>1. ASSUME NEW n \in 1..k
          PROVE  \E q \in (last + 1)..(last + k) : KeyOf(e)'[q].numero = n
      <4>1. last + n \in (last + 1)..(last + k) /\ (last + n) - last = n
        BY <1>1
      <4> QED
        BY <1>14, <4>1
    <3>2. ASSUME NEW q \in (last + 1)..(last + k)
          PROVE  KeyOf(e)'[q].numero \in 1..k
      <4>1. q - last \in 1..k
        BY <1>1
      <4> QED
        BY <1>14, <4>1
    <3> QED
      BY <3>1, <3>2
  <2> QED
    BY <1>14, <2>1, <2>2
<1>16. PICK page : page = BookOf(e)'
  OBVIOUS
<1>17. /\ page.status = "draft" /\ page.closing = Book!NoDay
       /\ page.people = Book!Empty /\ page.sheet = Book!Empty
       /\ page.key = KeyOf(e)'
  BY <1>4, <1>6, <1>12, <1>13, <1>16, PagesNext
<1>18. \A q \in DOMAIN page.key : page.key[q].correctAnswer = ""
  BY <1>14, <1>17
<1>19. {page.key[q].numero : q \in DOMAIN page.key} = 1..Book!Cardinality(DOMAIN page.key)
  <2>1. \A S : Book!Cardinality(S) = Cardinality(S)
    BY Zenon DEF Book!Cardinality, Cardinality
  <2> QED
    BY <1>15, <1>17, <2>1
<1>20. /\ DOMAIN TheBook = DOMAIN exams /\ DOMAIN TheBook' = DOMAIN exams \cup {e}
       /\ \A x \in DOMAIN TheBook : TheBook'[x] = TheBook[x]
       /\ TheBook'[e] = page
  BY <1>4, <1>11, <1>16 DEF TheBook
<1>21. e \in DOMAIN TheBook' \ DOMAIN TheBook
  BY <1>3, <1>20
<1> QED
  <2>1. Book!Open <=>
          \E x \in DOMAIN TheBook' \ DOMAIN TheBook :
            /\ DOMAIN TheBook' = DOMAIN TheBook \cup {x}
            /\ \A other \in DOMAIN TheBook : TheBook'[other] = TheBook[other]
            /\ TheBook'[x].status = "draft" /\ TheBook'[x].closing = Book!NoDay
            /\ TheBook'[x].people = Book!Empty /\ TheBook'[x].sheet = Book!Empty
            /\ \A q \in DOMAIN TheBook'[x].key : TheBook'[x].key[q].correctAnswer = ""
            /\ {TheBook'[x].key[q].numero : q \in DOMAIN TheBook'[x].key}
                 = 1..Book!Cardinality(DOMAIN TheBook'[x].key)
    BY Zenon DEF Book!Open, TheBook
  <2> QED
    BY ZenonT(40), <1>17, <1>18, <1>19, <1>20, <1>21, <2>1

LEMMA SameRows ==
  ASSUME UNCHANGED <<questions, participants, answers>>
  PROVE  \A e : /\ KeyOf(e)' = KeyOf(e)
                /\ PeopleOf(e)' = PeopleOf(e)
                /\ SheetOf(e)' = SheetOf(e)
  BY DEF KeyOf, PeopleOf, SheetOf, SheetPairs, MarkedAs, QuestionsOf, ParticipantsOf

LEMMA RescaleStep ==
  ASSUME Sound, NEW e \in DOMAIN exams, NEW nota \in NotaInputs, UpdateExam(e, nota)
  PROVE  Book!Rescale(e)
<1>1. exams' = [exams EXCEPT ![e].notaSimbolica = nota]
  BY DEF UpdateExam
<1>2. exams[e] \in Exam
  BY SoundFacts, Typing DEF IsTable
<1>3. /\ DOMAIN exams' = DOMAIN exams
      /\ \A x \in DOMAIN exams \ {e} : exams'[x] = exams[x]
      /\ exams'[e].status = exams[e].status
      /\ exams'[e].encerramento = exams[e].encerramento
  BY <1>1, <1>2 DEF Exam
<1>4. \A x : /\ KeyOf(x)' = KeyOf(x) /\ PeopleOf(x)' = PeopleOf(x)
             /\ SheetOf(x)' = SheetOf(x)
  BY SameRows DEF UpdateExam
<1>5. \A x \in DOMAIN exams \ {e} : BookOf(x)' = BookOf(x)
  BY <1>3, <1>4, SamePages
<1>6. Book!Changes(e, {"nota"})
  BY <1>3, <1>4, <1>5, ChangedPages
<1> QED
  BY <1>6 DEF Book!Rescale

LEMMA SetStatusStep ==
  ASSUME Sound, NEW s \in Slots, WriteStatus(s)
  PROVE  \E e \in DOMAIN exams : Book!SetStatus(e)
<1>1. PICK e \in DOMAIN exams, to \in ExamStatus : e = calls[s].examId /\ to = calls[s].to
  <2>1. calls[s] \in StatusCall
    BY SoundFacts, CallShape DEF TypeOK, WriteStatus, Serving
  <2> QED
    BY <2>1 DEF WriteStatus, StatusCall
<1>2. PICK day : day = ClosingDay(e, to)
  OBVIOUS
<1>3. exams' = [exams EXCEPT ![e].status = to, ![e].encerramento = day]
  BY <1>1, <1>2 DEF WriteStatus
<1>4. exams[e] \in Exam /\ now \in Nat
  BY SoundFacts, Typing DEF IsTable, TypeOK
<1>5. /\ DOMAIN exams' = DOMAIN exams
      /\ \A x \in DOMAIN exams \ {e} : exams'[x] = exams[x]
      /\ exams'[e].status = to /\ exams'[e].encerramento = day
      /\ exams'[e].notaSimbolica = exams[e].notaSimbolica
  BY <1>3, <1>4 DEF Exam
<1>6. \A x : /\ KeyOf(x)' = KeyOf(x) /\ PeopleOf(x)' = PeopleOf(x)
             /\ SheetOf(x)' = SheetOf(x)
  BY SameRows DEF WriteStatus
<1>7. \A x \in DOMAIN exams \ {e} : BookOf(x)' = BookOf(x)
  BY <1>5, <1>6, SamePages
<1>8. Book!Changes(e, {"status", "closing"})
  BY <1>5, <1>6, <1>7, ChangedPages
<1>9. IF to = "completed" THEN day >= 0 ELSE day = exams[e].encerramento
  BY <1>2, <1>4 DEF ClosingDay
<1>10. /\ TheBook[e].closing = exams[e].encerramento
       /\ TheBook'[e].status = to /\ TheBook'[e].closing = day
  BY <1>5, Pages, PagesNext DEF TheBook
<1>11. Book!SetStatus(e)
  BY <1>8, <1>9, <1>10 DEF Book!SetStatus, TheBook
<1> QED
  BY <1>11

\* The cascades of a removed exam reach no other exam: an answer of another
\* one answers a question of that one.
LEMMA DiscardStep ==
  ASSUME Sound, Sound', NEW e \in DOMAIN exams, RemoveExam(e)
  PROVE  Book!Discard
<1> USE SoundFacts, SoundFactsNext
<1> DEFINE left == Without(participants, ParticipantsOf(e))
<1>1. /\ exams' = Without(exams, {e})
      /\ questions' = Without(questions, QuestionsOf(e))
      /\ participants' = AplicadorCleared(left, AplicadoresOf(e))
      /\ answers' = AnswersWithout(ParticipantsOf(e), QuestionsOf(e))
  BY DEF RemoveExam, DeleteExam
<1>2. /\ DOMAIN exams' = DOMAIN exams \ {e}
      /\ \A x \in DOMAIN exams' : exams'[x] = exams[x]
      /\ DOMAIN questions' = DOMAIN questions \ QuestionsOf(e)
      /\ \A q \in DOMAIN questions' : questions'[q] = questions[q]
  BY <1>1 DEF Without, Restrict
<1>3. /\ DOMAIN left = DOMAIN participants \ ParticipantsOf(e)
      /\ \A p \in DOMAIN left : left[p] = participants[p]
      /\ IsTable(left, Participant, serial.participant)
      /\ serial.participant \in Nat
  <2>1. IsTable(participants, Participant, serial.participant)
        /\ serial.participant \in Nat
    BY Typing
  <2> QED
    BY SMTT(30), <2>1, RemovedRows
<1>4. /\ DOMAIN participants' = DOMAIN left
      /\ \A p \in DOMAIN left : SamePerson(p) /\ participants'[p].examId = participants[p].examId
  <2> HIDE DEF left
  <2>1. \A p \in DOMAIN left : p \in DOMAIN participants /\ left[p] = participants[p]
    BY <1>3
  <2> QED
    BY <1>1, <1>3, <2>1, ClearedPeople
<1>5. \A a : a \in DOMAIN answers' <=>
               /\ a \in DOMAIN answers /\ answers[a].userId \notin ParticipantsOf(e)
               /\ answers[a].questId \notin QuestionsOf(e)
  BY <1>1 DEF AnswersWithout, Restrict
<1>6. \A a \in DOMAIN answers' : answers'[a] = answers[a]
  BY <1>1 DEF AnswersWithout, Restrict
<1>7. ASSUME NEW x \in DOMAIN exams \ {e}
      PROVE  BookOf(x)' = BookOf(x)
  <2>1. QuestionsOf(x)' = QuestionsOf(x) /\ QuestionsOf(x) \subseteq DOMAIN questions'
    BY <1>2 DEF QuestionsOf
  <2>2. ParticipantsOf(x)' = ParticipantsOf(x) /\ ParticipantsOf(x) \subseteq DOMAIN left
    BY <1>3, <1>4 DEF ParticipantsOf
  <2>3. \A a \in AnswersOf(x) : a \in DOMAIN answers'
    BY <1>5 DEF AnswersOf, ParticipantsOf, QuestionsOf, AnswersSameExam
  <2>4. \A a \in AnswersOf(x)' : a \in AnswersOf(x) /\ answers'[a] = answers[a]
    BY <1>5, <1>6, <2>2 DEF AnswersOf
  <2>5. \A a \in AnswersOf(x) : a \in AnswersOf(x)'
    BY <1>6, <2>2, <2>3 DEF AnswersOf
  <2>6. /\ \A q \in QuestionsOf(x) : questions'[q] = questions[q]
        /\ \A p \in ParticipantsOf(x) : SamePerson(p)
        /\ exams'[x] = exams[x]
    BY <1>2, <1>4, <2>1, <2>2
  <2> QED
    BY <2>1, <2>2, <2>4, <2>5, <2>6, SameExam
<1>8. TheBook' = [x \in DOMAIN exams \ {e} |-> TheBook[x]]
  BY <1>2, <1>7 DEF TheBook
<1>9. TheBook' = Book!Restrict(TheBook, DOMAIN TheBook \ {e}) /\ e \in DOMAIN TheBook
  BY <1>8 DEF Book!Restrict, TheBook
<1> QED
  BY <1>9 DEF Book!Discard, TheBook

LEMMA SamePeopleRows ==
  ASSUME UNCHANGED <<participants, answers>>
  PROVE  \A e : PeopleOf(e)' = PeopleOf(e) /\ SheetOf(e)' = SheetOf(e)
  BY DEF PeopleOf, SheetOf, SheetPairs, MarkedAs, ParticipantsOf

\* A bulk of questions: those there were stay, in their exams, and what is
\* created or changed is of the exam of the request.
LEMMA EditQuestionsStep ==
  ASSUME Sound, Sound', NEW s \in Slots, SaveQuestions(s)
  PROVE  (\E e \in DOMAIN exams : Book!EditQuestions(e)) \/ UNCHANGED TheBook
<1> USE SoundFacts, SoundFactsNext
<1>1. PICK e : e = calls[s].examId
  OBVIOUS
<1>2. UNCHANGED <<exams, participants, answers>>
  BY DEF SaveQuestions
<1>3. ASSUME NEW q \in DOMAIN questions
      PROVE  /\ q \in DOMAIN questions'
             /\ questions'[q].examId = questions[q].examId
             /\ questions[q].examId # e => questions'[q] = questions[q]
  <2>1. QuestionsStand(s)
    BY QuestionsStandNext
  <2>2. q \in DOMAIN questions'
    BY DEF SaveQuestions
  <2> QED
    BY <1>1, <2>1, <2>2 DEF QuestionsStand
<1>4. ASSUME NEW q \in DOMAIN questions', q \notin DOMAIN questions
      PROVE  questions'[q].examId = e
  <2>1. PICK item : questions'[q] = QuestionRow(e, item)
    BY <1>1, <1>4, SavedQuestionRow
  <2> QED
    BY <2>1 DEF QuestionRow
<1>5. \A x : PeopleOf(x)' = PeopleOf(x) /\ SheetOf(x)' = SheetOf(x)
  BY <1>2, SamePeopleRows
<1>6. ASSUME NEW x \in DOMAIN exams, x # e
      PROVE  BookOf(x)' = BookOf(x)
  <2>1. /\ QuestionsOf(x)' = QuestionsOf(x)
        /\ \A q \in QuestionsOf(x) : questions'[q] = questions[q]
    BY <1>3, <1>4, <1>6 DEF QuestionsOf
  <2> QED
    BY <1>2, <1>5, <2>1, SameKey, SamePages
<1>7. CASE e \notin DOMAIN exams
  BY <1>2, <1>6, <1>7, SameBook
<1>8. CASE e \in DOMAIN exams
  <2>1. Book!Changes(e, {"key"})
    BY <1>2, <1>5, <1>6, <1>8, ChangedPages
  <2>2. DOMAIN KeyOf(e) \subseteq DOMAIN KeyOf(e)'
    BY <1>3 DEF KeyOf, QuestionsOf
  <2>3. \A x, y \in DOMAIN KeyOf(e)' : KeyOf(e)'[x].numero = KeyOf(e)'[y].numero => x = y
    BY DEF KeyOf, QuestionsOf, NumerosUnique
  <2>4. TheBook[e].key = KeyOf(e) /\ TheBook'[e].key = KeyOf(e)'
    BY <1>2, <1>8, Pages, PagesNext DEF TheBook
  <2>5. Book!EditQuestions(e)
    BY <2>1, <2>2, <2>3, <2>4 DEF Book!EditQuestions, Book!Injective, TheBook
  <2> QED
    BY <1>8, <2>5
<1> QED
  BY <1>7, <1>8

\* Only the exam of the question has answers to it.
LEMMA DropQuestionStep ==
  ASSUME Sound, Sound', NEW s \in Slots, RemoveQuestion(s)
  PROVE  \/ \E e \in DOMAIN exams : \E q \in DOMAIN TheBook[e].key : Book!DropQuestion(e, q)
         \/ UNCHANGED TheBook
<1> USE SoundFacts, SoundFactsNext
<1>1. PICK q : q = calls[s].id
  OBVIOUS
<1>2. /\ questions' = Without(questions, {q}) /\ answers' = AnswersWithout({}, {q})
      /\ UNCHANGED <<exams, participants>>
  BY <1>1 DEF RemoveQuestion
<1>3. /\ DOMAIN questions' = DOMAIN questions \ {q}
      /\ \A x \in DOMAIN questions' : questions'[x] = questions[x]
  BY <1>2 DEF Without, Restrict
<1>4. /\ \A a : a \in DOMAIN answers' <=> a \in DOMAIN answers /\ answers[a].questId # q
      /\ \A a \in DOMAIN answers' : answers'[a] = answers[a]
  BY <1>2 DEF AnswersWithout, Restrict
<1>5. \A x : /\ ParticipantsOf(x)' = ParticipantsOf(x)
             /\ \A p \in ParticipantsOf(x) : SamePerson(p)
  BY <1>2 DEF ParticipantsOf, SamePerson
<1>6. \A x : /\ \A a \in AnswersOf(x)' : a \in AnswersOf(x) /\ answers'[a] = answers[a]
             /\ \A a \in AnswersOf(x) : a \in AnswersOf(x)' <=> answers[a].questId # q
  BY <1>4, <1>5 DEF AnswersOf
<1>7. ASSUME NEW x \in DOMAIN exams, q \notin QuestionsOf(x)
      PROVE  BookOf(x)' = BookOf(x)
  <2>1. /\ QuestionsOf(x)' = QuestionsOf(x)
        /\ \A y \in QuestionsOf(x) : questions'[y] = questions[y]
    BY <1>3, <1>7 DEF QuestionsOf
  <2>2. \A a \in AnswersOf(x) : answers[a].questId # q
    BY <1>7 DEF AnswersOf, ParticipantsOf, QuestionsOf, AnswersSameExam
  <2>3. exams'[x] = exams[x]
    BY <1>2
  <2> QED
    BY <1>5, <1>6, <2>1, <2>2, <2>3, SameExam
<1>8. CASE q \notin DOMAIN questions
  BY <1>2, <1>7, <1>8, SameBook DEF QuestionsOf
<1>9. CASE q \in DOMAIN questions
  <2>1. PICK e \in DOMAIN exams : e = questions[q].examId
    BY <1>9 DEF NoOrphans
  <2>2. \A x \in DOMAIN exams \ {e} : BookOf(x)' = BookOf(x)
    BY <1>7, <2>1 DEF QuestionsOf
  <2>3. PeopleOf(e)' = PeopleOf(e)
    BY <1>5, SamePeople
  <2>4. Book!Changes(e, {"key", "sheet"})
    BY <1>2, <2>2, <2>3, ChangedPages
  <2>5. KeyOf(e)' = Book!Restrict(KeyOf(e), DOMAIN KeyOf(e) \ {q})
    <3>1. QuestionsOf(e)' = QuestionsOf(e) \ {q}
      BY <1>3 DEF QuestionsOf
    <3>2. \A y \in QuestionsOf(e) \ {q} : questions'[y] = questions[y]
      BY <1>3 DEF QuestionsOf
    <3> QED
      BY <3>1, <3>2 DEF KeyOf, Book!Restrict
  <2>6. SheetOf(e)' = Book!Restrict(SheetOf(e), {x \in DOMAIN SheetOf(e) : x[2] # q})
    <3>1. PICK keep \in SUBSET SheetPairs(e) : keep = {x \in SheetPairs(e) : x[2] # q}
      OBVIOUS
    <3>2. \A a \in AnswersOf(e) :
            Pair(answers[a]) \in SheetPairs(e) /\ Pair(answers[a])[2] = answers[a].questId
      BY SheetRead DEF Pair
    <3>3. \A a \in AnswersOf(e) : a \in AnswersOf(e)' <=> Pair(answers[a]) \in keep
      BY <1>6, <3>1, <3>2
    <3>4. SheetOf(e)' = Restrict(SheetOf(e), keep)
      BY <1>6, <3>3, SheetShrinks
    <3>5. keep = {x \in DOMAIN SheetOf(e) : x[2] # q}
      BY <3>1, SheetRead
    <3> QED
      BY <3>4, <3>5 DEF Restrict, Book!Restrict
  <2>7. /\ TheBook[e].key = KeyOf(e) /\ TheBook'[e].key = KeyOf(e)'
        /\ TheBook[e].sheet = SheetOf(e) /\ TheBook'[e].sheet = SheetOf(e)'
    BY <1>2, Pages, PagesNext DEF TheBook
  <2>8. q \in DOMAIN KeyOf(e)
    BY <1>9, <2>1 DEF KeyOf, QuestionsOf
  <2>9. Book!DropQuestion(e, q)
    BY <2>4, <2>5, <2>6, <2>7 DEF Book!DropQuestion, TheBook
  <2> QED
    BY <2>7, <2>8, <2>9
<1> QED
  BY <1>8, <1>9

\* The answers of a person are on the sheet of the person's exam.
LEMMA DropPersonStep ==
  ASSUME Sound, Sound', NEW s \in Slots, RemoveParticipant(s)
  PROVE  \/ \E e \in DOMAIN exams : \E p \in DOMAIN TheBook[e].people : Book!DropPerson(e, p)
         \/ UNCHANGED TheBook
<1> USE SoundFacts, SoundFactsNext
<1>1. PICK p : p = calls[s].id
  OBVIOUS
<1>2. /\ participants' = Without(participants, {p}) /\ answers' = AnswersWithout({p}, {})
      /\ UNCHANGED <<exams, questions>>
  BY <1>1 DEF RemoveParticipant
<1>3. /\ DOMAIN participants' = DOMAIN participants \ {p}
      /\ \A x \in DOMAIN participants' : participants'[x] = participants[x]
  BY <1>2 DEF Without, Restrict
<1>4. /\ \A a : a \in DOMAIN answers' <=> a \in DOMAIN answers /\ answers[a].userId # p
      /\ \A a \in DOMAIN answers' : answers'[a] = answers[a]
  BY <1>2 DEF AnswersWithout, Restrict
<1>5. \A x : /\ ParticipantsOf(x)' = ParticipantsOf(x) \ {p}
             /\ KeyOf(x)' = KeyOf(x)
             /\ QuestionsOf(x)' = QuestionsOf(x)
             /\ \A q \in QuestionsOf(x) : questions'[q] = questions[q]
  BY <1>2, <1>3 DEF ParticipantsOf, KeyOf, QuestionsOf
<1>6. \A x : /\ \A a \in AnswersOf(x)' : a \in AnswersOf(x) /\ answers'[a] = answers[a]
             /\ \A a \in AnswersOf(x) : a \in AnswersOf(x)' <=> answers[a].userId # p
  BY <1>4, <1>5 DEF AnswersOf
<1>7. ASSUME NEW x \in DOMAIN exams, p \notin ParticipantsOf(x)
      PROVE  BookOf(x)' = BookOf(x)
  <2>1. /\ ParticipantsOf(x)' = ParticipantsOf(x)
        /\ \A y \in ParticipantsOf(x) : SamePerson(y)
    BY <1>3, <1>5, <1>7 DEF ParticipantsOf, SamePerson
  <2>2. \A a \in AnswersOf(x) : answers[a].userId # p
    BY <1>7 DEF AnswersOf
  <2>3. exams'[x] = exams[x]
    BY <1>2
  <2> QED
    BY <1>5, <1>6, <2>1, <2>2, <2>3, SameExam
<1>8. CASE p \notin DOMAIN participants
  BY <1>2, <1>7, <1>8, SameBook DEF ParticipantsOf
<1>9. CASE p \in DOMAIN participants
  <2>1. PICK e \in DOMAIN exams : e = participants[p].examId
    BY <1>9 DEF NoOrphans
  <2>2. \A x \in DOMAIN exams \ {e} : BookOf(x)' = BookOf(x)
    BY <1>7, <2>1 DEF ParticipantsOf
  <2>3. Book!Changes(e, {"people", "sheet"})
    BY <1>2, <1>5, <2>2, ChangedPages
  <2>4. PeopleOf(e)' = Book!Restrict(PeopleOf(e), DOMAIN PeopleOf(e) \ {p})
    <3>1. \A y \in ParticipantsOf(e) \ {p} : participants'[y] = participants[y]
      BY <1>3 DEF ParticipantsOf
    <3> QED
      BY <1>5, <3>1 DEF PeopleOf, Book!Restrict
  <2>5. SheetOf(e)' = Book!Restrict(SheetOf(e), {x \in DOMAIN SheetOf(e) : x[1] # p})
    <3>1. PICK keep \in SUBSET SheetPairs(e) : keep = {x \in SheetPairs(e) : x[1] # p}
      OBVIOUS
    <3>2. \A a \in AnswersOf(e) :
            Pair(answers[a]) \in SheetPairs(e) /\ Pair(answers[a])[1] = answers[a].userId
      BY SheetRead DEF Pair
    <3>3. \A a \in AnswersOf(e) : a \in AnswersOf(e)' <=> Pair(answers[a]) \in keep
      BY <1>6, <3>1, <3>2
    <3>4. SheetOf(e)' = Restrict(SheetOf(e), keep)
      BY <1>6, <3>3, SheetShrinks
    <3>5. keep = {x \in DOMAIN SheetOf(e) : x[1] # p}
      BY <3>1, SheetRead
    <3> QED
      BY <3>4, <3>5 DEF Restrict, Book!Restrict
  <2>6. /\ TheBook[e].people = PeopleOf(e) /\ TheBook'[e].people = PeopleOf(e)'
        /\ TheBook[e].sheet = SheetOf(e) /\ TheBook'[e].sheet = SheetOf(e)'
    BY <1>2, Pages, PagesNext DEF TheBook
  <2>7. p \in DOMAIN PeopleOf(e)
    BY <1>9, <2>1 DEF PeopleOf, ParticipantsOf
  <2>8. Book!DropPerson(e, p)
    BY <2>3, <2>4, <2>5, <2>6 DEF Book!DropPerson, TheBook
  <2> QED
    BY <2>6, <2>7, <2>8
<1> QED
  BY <1>8, <1>9

\* Steps that touch participants and leave the answers where they are.
LEMMA SheetStands ==
  ASSUME Sound, Sound', NEW x, UNCHANGED answers,
         \A p \in DOMAIN participants :
           /\ p \in DOMAIN participants'
           /\ participants'[p].examId = participants[p].examId
  PROVE  SheetOf(x)' = SheetOf(x)
<1> USE SoundFacts, SoundFactsNext
<1>1. AnswersOf(x)' = AnswersOf(x)
  BY DEF AnswersOf, ParticipantsOf, NoOrphans
<1>2. \A a \in AnswersOf(x)' : a \in AnswersOf(x) /\ answers'[a] = answers[a]
  BY <1>1
<1> QED
  BY <1>1, <1>2, SameSheet

LEMMA EnrolStep ==
  ASSUME Sound, Sound', NEW s \in Slots, InsertParticipants(s)
  PROVE  \E e \in DOMAIN exams : Book!Enrol(e)
<1> USE SoundFacts, SoundFactsNext
<1>1. PICK e \in DOMAIN exams : e = calls[s].examId
  BY DEF InsertParticipants, EnrolFits
<1>2. UNCHANGED <<exams, questions, answers>>
  BY DEF InsertParticipants
<1>3. ASSUME NEW p \in DOMAIN participants
      PROVE  p \in DOMAIN participants' /\ participants'[p] = participants[p]
  <2>1. p \in DOMAIN participants'
    BY DEF InsertParticipants, WithRows
  <2> QED
    BY <2>1, EnrolledParticipant
<1>4. ASSUME NEW p \in DOMAIN participants', p \notin DOMAIN participants
      PROVE  participants'[p].examId = e
  BY <1>1, <1>4, EnrolledParticipant
<1>5. \A x : KeyOf(x)' = KeyOf(x) /\ SheetOf(x)' = SheetOf(x)
  <2>1. \A x : SheetOf(x)' = SheetOf(x)
    BY <1>2, <1>3, SheetStands
  <2> QED
    BY <1>2, <2>1 DEF KeyOf, QuestionsOf
<1>6. ASSUME NEW x \in DOMAIN exams \ {e}
      PROVE  BookOf(x)' = BookOf(x)
  <2>1. /\ ParticipantsOf(x)' = ParticipantsOf(x)
        /\ \A p \in ParticipantsOf(x) : SamePerson(p)
    BY <1>3, <1>4 DEF ParticipantsOf, SamePerson
  <2> QED
    BY <1>2, <1>5, <2>1, SamePeople, SamePages
<1>7. Book!Changes(e, {"people"})
  BY <1>2, <1>5, <1>6, ChangedPages
<1>8. /\ DOMAIN PeopleOf(e) \subseteq DOMAIN PeopleOf(e)'
      /\ \A p \in DOMAIN PeopleOf(e) : PeopleOf(e)'[p] = PeopleOf(e)[p]
  <2>1. ParticipantsOf(e) \subseteq ParticipantsOf(e)'
    BY <1>3 DEF ParticipantsOf
  <2>2. \A p \in ParticipantsOf(e) : participants'[p] = participants[p]
    BY <1>3 DEF ParticipantsOf
  <2> QED
    BY <2>1, <2>2 DEF PeopleOf
<1>9. \A x, y \in DOMAIN PeopleOf(e)' :
        PeopleOf(e)'[x].consultaCode = PeopleOf(e)'[y].consultaCode => x = y
  BY DEF PeopleOf, ParticipantsOf, CodesUnique
<1>10. TheBook[e].people = PeopleOf(e) /\ TheBook'[e].people = PeopleOf(e)'
  BY <1>2, Pages, PagesNext DEF TheBook
<1>11. Book!Enrol(e)
  BY <1>7, <1>8, <1>9, <1>10 DEF Book!Enrol, Book!Injective, TheBook
<1> QED
  BY <1>11

LEMMA EditPersonStep ==
  ASSUME Sound, Sound', NEW s \in Slots, UpdatePresenca(s) \/ UpdateRedacao(s)
  PROVE  \E e \in DOMAIN exams : \E p \in DOMAIN TheBook[e].people : Book!EditPerson(e, p)
<1> USE SoundFacts, SoundFactsNext
<1>1. PICK p \in DOMAIN participants : p = calls[s].id
  BY DEF UpdatePresenca, UpdateRedacao
<1>2. PICK e \in DOMAIN exams : e = participants[p].examId
  BY DEF NoOrphans
<1>3. UNCHANGED <<exams, questions, answers>>
  BY DEF UpdatePresenca, UpdateRedacao
<1>4. /\ DOMAIN participants' = DOMAIN participants
      /\ \A x \in DOMAIN participants \ {p} : participants'[x] = participants[x]
      /\ participants'[p].examId = participants[p].examId
      /\ participants'[p].consultaCode = participants[p].consultaCode
  <2>1. participants[p] \in Participant
    BY Typing DEF IsTable
  <2>2. \/ \E v : participants' = [participants EXCEPT ![p].presenca = v]
        \/ \E v : participants' = [participants EXCEPT ![p].redacaoNota = v]
    BY <1>1 DEF UpdatePresenca, UpdateRedacao
  <2> QED
    BY <2>1, <2>2 DEF Participant
<1>5. \A x : KeyOf(x)' = KeyOf(x) /\ SheetOf(x)' = SheetOf(x)
  <2>1. \A x : SheetOf(x)' = SheetOf(x)
    BY <1>3, <1>4, SheetStands
  <2> QED
    BY <1>3, <2>1 DEF KeyOf, QuestionsOf
<1>6. ASSUME NEW x \in DOMAIN exams \ {e}
      PROVE  BookOf(x)' = BookOf(x)
  <2>1. /\ ParticipantsOf(x)' = ParticipantsOf(x)
        /\ \A y \in ParticipantsOf(x) : SamePerson(y)
    BY <1>2, <1>4 DEF ParticipantsOf, SamePerson
  <2> QED
    BY <1>3, <1>5, <2>1, SamePeople, SamePages
<1>7. Book!Changes(e, {"people"})
  BY <1>3, <1>5, <1>6, ChangedPages
<1>8. ParticipantsOf(e)' = ParticipantsOf(e) /\ p \in ParticipantsOf(e)
  BY <1>2, <1>4 DEF ParticipantsOf
<1>9. /\ DOMAIN PeopleOf(e)' = DOMAIN PeopleOf(e) /\ p \in DOMAIN PeopleOf(e)
      /\ \A x \in DOMAIN PeopleOf(e) \ {p} : PeopleOf(e)'[x] = PeopleOf(e)[x]
      /\ PeopleOf(e)'[p].consultaCode = PeopleOf(e)[p].consultaCode
  <2>1. \A x \in ParticipantsOf(e) \ {p} : participants'[x] = participants[x]
    BY <1>4 DEF ParticipantsOf
  <2> QED
    BY <1>4, <1>8, <2>1 DEF PeopleOf
<1>10. TheBook[e].people = PeopleOf(e) /\ TheBook'[e].people = PeopleOf(e)'
  BY <1>3, Pages, PagesNext DEF TheBook
<1>11. Book!EditPerson(e, p)
  BY <1>7, <1>9, <1>10 DEF Book!EditPerson, TheBook
<1> QED
  BY <1>9, <1>10, <1>11

\* The answers that appear or change are all on the sheet of one exam.
LEMMA MarkedSheet ==
  ASSUME Sound, Sound', UNCHANGED <<exams, questions, participants>>,
         \A a \in DOMAIN answers :
           a \in DOMAIN answers' /\ Pair(answers'[a]) = Pair(answers[a]),
         NEW e,
         \A x \in DOMAIN exams \ {e} : \A a \in AnswersOf(x)' :
           a \in DOMAIN answers /\ answers'[a] = answers[a]
  PROVE  (e \in DOMAIN exams /\ Book!Mark(e)) \/ UNCHANGED TheBook
<1> USE SoundFacts, SoundFactsNext
<1>1. \A x : /\ KeyOf(x)' = KeyOf(x) /\ PeopleOf(x)' = PeopleOf(x)
             /\ ParticipantsOf(x)' = ParticipantsOf(x)
             /\ QuestionsOf(x)' = QuestionsOf(x)
  BY DEF KeyOf, PeopleOf, QuestionsOf, ParticipantsOf
<1>2. \A x : \A a \in AnswersOf(x) : a \in AnswersOf(x)'
  BY <1>1 DEF AnswersOf, Pair
<1>3. ASSUME NEW x \in DOMAIN exams \ {e}
      PROVE  BookOf(x)' = BookOf(x)
  <2>1. \A a \in AnswersOf(x)' : a \in AnswersOf(x) /\ answers'[a] = answers[a]
    BY <1>1 DEF AnswersOf
  <2>2. SheetOf(x)' = SheetOf(x)
    BY <1>2, <2>1, SameSheet
  <2> QED
    BY <1>1, <2>2, SamePages
<1>4. CASE e \notin DOMAIN exams
  BY <1>3, <1>4, SameBook
<1>5. CASE e \in DOMAIN exams
  <2>1. Book!Changes(e, {"sheet"})
    BY <1>1, <1>3, <1>5, ChangedPages
  <2>2. DOMAIN SheetOf(e) \subseteq DOMAIN SheetOf(e)'
    <3>1. ASSUME NEW a \in AnswersOf(e)
          PROVE  Pair(answers[a]) \in SheetPairs(e)'
      <4>1. a \in AnswersOf(e)' /\ Pair(answers'[a]) = Pair(answers[a])
        BY <1>2, <3>1 DEF AnswersOf
      <4> QED
        BY <4>1, SheetReadNext
    <3> QED
      BY <3>1, SheetRead, SheetReadNext
  <2>3. DOMAIN SheetOf(e)' \subseteq (DOMAIN PeopleOf(e)) \X (DOMAIN KeyOf(e))
    <3>1. ASSUME NEW a \in AnswersOf(e)'
          PROVE  Pair(answers'[a]) \in ParticipantsOf(e) \X QuestionsOf(e)
      BY <1>1, <3>1 DEF AnswersOf, AnswersSameExam, ParticipantsOf, QuestionsOf, Pair
    <3>2. DOMAIN PeopleOf(e) = ParticipantsOf(e) /\ DOMAIN KeyOf(e) = QuestionsOf(e)
      BY DEF PeopleOf, KeyOf
    <3> QED
      BY <3>1, <3>2, SheetReadNext
  <2>4. /\ TheBook[e].people = PeopleOf(e) /\ TheBook[e].key = KeyOf(e)
        /\ TheBook[e].sheet = SheetOf(e) /\ TheBook'[e].sheet = SheetOf(e)'
    BY <1>5, Pages, PagesNext DEF TheBook
  <2>5. Book!Mark(e)
    BY <2>1, <2>2, <2>3, <2>4 DEF Book!Mark, TheBook
  <2> QED
    BY <1>5, <2>5
<1> QED
  BY <1>4, <1>5

LEMMA MarkManyStep ==
  ASSUME Sound, Sound', NEW s \in Slots, SaveAnswers(s)
  PROVE  (\E e \in DOMAIN exams : Book!Mark(e)) \/ UNCHANGED TheBook
<1> USE SoundFacts, SoundFactsNext
<1>1. PICK e, items : e = calls[s].examId /\ items = calls[s].items
  OBVIOUS
<1>2. UNCHANGED <<exams, questions, participants>>
  BY DEF SaveAnswers
<1>3. ASSUME NEW a \in DOMAIN answers
      PROVE  a \in DOMAIN answers' /\ Pair(answers'[a]) = Pair(answers[a])
  <2>1. a \in DOMAIN answers'
    BY DEF SaveAnswers
  <2> QED
    BY AnswersStandNext, <2>1 DEF AnswersStand
<1>4. \A i \in DOMAIN items : items[i].userId \in ParticipantsOf(e)
  BY <1>1 DEF SaveAnswers, Serving, AnswersFit, CallsOwnRows, BulkAnswersOwn,
              ParticipantStays, ParticipantsOf
<1>5. ASSUME NEW x \in DOMAIN exams \ {e}, NEW a \in AnswersOf(x)'
      PROVE  a \in DOMAIN answers /\ answers'[a] = answers[a]
  <2>1. a \in DOMAIN answers' /\ answers'[a].userId \in ParticipantsOf(x)
    BY <1>2, <1>5 DEF AnswersOf, ParticipantsOf
  <2>2. \A i \in DOMAIN items : items[i].userId # answers'[a].userId
    BY <1>4, <2>1 DEF ParticipantsOf
  <2>3. \A i \in DOMAIN items : Pair(items[i]) # Pair(answers'[a])
    BY <2>2 DEF Pair
  <2>4. a \in DOMAIN answers /\ Pair(answers'[a]) = Pair(answers[a])
    BY <1>1, <2>1, <2>3, SavedPairs
  <2>5. \A i \in DOMAIN calls[s].items : Pair(calls[s].items[i]) # Pair(answers[a])
    BY <1>1, <2>3, <2>4
  <2> QED
    BY <2>4, <2>5, AnswersStandNext DEF AnswersStand
<1> QED
  BY <1>2, <1>3, <1>5, MarkedSheet

LEMMA MarkOneStep ==
  ASSUME Sound, Sound', NEW a \in DOMAIN answers, NEW alternativa \in EditInputs,
         UpdateAnswer(a, alternativa)
  PROVE  (\E e \in DOMAIN exams : Book!Mark(e)) \/ UNCHANGED TheBook
<1> USE SoundFacts, SoundFactsNext
<1>1. PICK e \in DOMAIN exams : e = participants[answers[a].userId].examId
  BY DEF NoOrphans
<1>2. UNCHANGED <<exams, questions, participants>>
  BY DEF UpdateAnswer
<1>3. /\ DOMAIN answers' = DOMAIN answers
      /\ \A x \in DOMAIN answers \ {a} : answers'[x] = answers[x]
      /\ answers'[a].userId = answers[a].userId
      /\ answers'[a].questId = answers[a].questId
  <2>1. answers[a] \in Answer
    BY Typing DEF IsTable
  <2>2. answers' = [answers EXCEPT ![a].alternativa = alternativa]
    BY DEF UpdateAnswer
  <2> QED
    BY <2>1, <2>2 DEF Answer
<1>4. \A x \in DOMAIN answers :
        x \in DOMAIN answers' /\ Pair(answers'[x]) = Pair(answers[x])
  BY <1>3 DEF Pair
<1>5. ASSUME NEW x \in DOMAIN exams \ {e}, NEW y \in AnswersOf(x)'
      PROVE  y \in DOMAIN answers /\ answers'[y] = answers[y]
  <2>1. y # a
    BY <1>1, <1>2, <1>3, <1>5 DEF AnswersOf, ParticipantsOf
  <2> QED
    BY <1>3, <1>5, <2>1 DEF AnswersOf
<1> QED
  BY <1>2, <1>4, <1>5, MarkedSheet

\* A deleted aplicador is on no page.
LEMMA RemoveAplicadorStep ==
  ASSUME Sound, Sound', NEW a \in DOMAIN aplicadores, RemoveAplicador(a)
  PROVE  UNCHANGED TheBook
<1> USE SoundFacts, SoundFactsNext
<1>1. /\ participants' = AplicadorCleared(participants, {a})
      /\ UNCHANGED <<exams, questions, answers>>
  BY DEF RemoveAplicador
<1>2. /\ DOMAIN participants' = DOMAIN participants
      /\ \A p \in DOMAIN participants :
           SamePerson(p) /\ participants'[p].examId = participants[p].examId
  <2>1. IsTable(participants, Participant, serial.participant)
        /\ serial.participant \in Nat
    BY Typing
  <2> QED
    BY <1>1, <2>1, ClearedPeople
<1>3. ASSUME NEW x \in DOMAIN exams
      PROVE  BookOf(x)' = BookOf(x)
  <2>1. /\ ParticipantsOf(x)' = ParticipantsOf(x)
        /\ \A p \in ParticipantsOf(x) : SamePerson(p)
    BY <1>2 DEF ParticipantsOf
  <2>2. SheetOf(x)' = SheetOf(x)
    BY <1>1, <1>2, SheetStands
  <2>3. KeyOf(x)' = KeyOf(x)
    BY <1>1 DEF KeyOf, QuestionsOf
  <2> QED
    BY <1>1, <2>1, <2>2, <2>3, SamePeople, SamePages
<1> QED
  BY <1>1, <1>3, SameBook

-----------------------------------------------------------------------------
(* The theorem.                                                            *)

\* A step of the services is a step of the book or leaves it as it is.
BookStep == Book!Next \/ UNCHANGED TheBook

LEMMA OneExam ==
  ASSUME NEW e \in DOMAIN exams,
         \/ Book!Rescale(e) \/ Book!SetStatus(e) \/ Book!EditQuestions(e)
         \/ Book!Enrol(e) \/ Book!Mark(e)
         \/ \E q : q \in DOMAIN TheBook[e].key /\ Book!DropQuestion(e, q)
         \/ \E p : /\ p \in DOMAIN TheBook[e].people
                   /\ Book!EditPerson(e, p) \/ Book!DropPerson(e, p)
  PROVE  BookStep
  BY DEF BookStep, Book!Next, TheBook

LEMMA ExamsBook ==
  ASSUME Sound, Sound', ExamsNext
  PROVE  BookStep
<1>1. ASSUME NEW dto \in ExamInputs, CreateExam(dto)
      PROVE  BookStep
  BY <1>1, OpenStep DEF BookStep, Book!Next
<1>2. ASSUME NEW e \in DOMAIN exams, RemoveExam(e)
      PROVE  BookStep
  BY <1>2, DiscardStep DEF BookStep, Book!Next
<1>3. ASSUME NEW e \in DOMAIN exams, NEW nota \in NotaInputs, UpdateExam(e, nota)
      PROVE  BookStep
  BY <1>3, RescaleStep, OneExam
<1>4. ASSUME NEW s \in Slots, WriteStatus(s)
      PROVE  BookStep
  BY <1>4, SetStatusStep, OneExam
<1>5. \/ UNCHANGED <<exams, questions, participants, answers>>
      \/ \E dto \in ExamInputs : CreateExam(dto)
      \/ \E e \in DOMAIN exams : RemoveExam(e)
      \/ \E e \in DOMAIN exams, nota \in NotaInputs : UpdateExam(e, nota)
      \/ \E s \in Slots : WriteStatus(s)
  BY DEF ExamsNext, ExamsStep, ReadStatus, ExportRanking, SendMail, ExamGone,
         Tick, tables
<1> QED
  BY <1>1, <1>2, <1>3, <1>4, <1>5, SameTables DEF BookStep

LEMMA QuestionsBook ==
  ASSUME Sound, Sound', QuestionsNext
  PROVE  BookStep
<1>1. \/ UNCHANGED <<exams, questions, participants, answers>>
      \/ \E s \in Slots : SaveQuestions(s) \/ RemoveQuestion(s)
  BY DEF QuestionsNext, QuestionsStep, SnapshotQuestions, QuestionsRefused,
         FindQuestion, tables
<1>2. ASSUME NEW s \in Slots, SaveQuestions(s)
      PROVE  BookStep
  BY <1>2, EditQuestionsStep, OneExam DEF BookStep
<1>3. ASSUME NEW s \in Slots, RemoveQuestion(s)
      PROVE  BookStep
  BY <1>3, DropQuestionStep, OneExam DEF BookStep
<1> QED
  BY <1>1, <1>2, <1>3, SameTables DEF BookStep

LEMMA ParticipantsBook ==
  ASSUME Sound, Sound', ParticipantsNext
  PROVE  BookStep
<1>1. \/ UNCHANGED <<exams, questions, participants, answers>>
      \/ \E s \in Slots : \/ InsertParticipants(s) \/ RemoveParticipant(s)
                          \/ UpdatePresenca(s) \/ UpdateRedacao(s)
  BY DEF ParticipantsNext, ParticipantsStep, AllocateCodes, AssertOwned,
         EnrolRefused, ParticipantGone, tables
<1>2. ASSUME NEW s \in Slots, InsertParticipants(s)
      PROVE  BookStep
  BY <1>2, EnrolStep, OneExam
<1>3. ASSUME NEW s \in Slots, RemoveParticipant(s)
      PROVE  BookStep
  BY <1>3, DropPersonStep, OneExam DEF BookStep
<1>4. ASSUME NEW s \in Slots, UpdatePresenca(s) \/ UpdateRedacao(s)
      PROVE  BookStep
  BY <1>4, EditPersonStep, OneExam
<1> QED
  BY <1>1, <1>2, <1>3, <1>4, SameTables DEF BookStep

LEMMA AnswersBook ==
  ASSUME Sound, Sound', AnswersNext
  PROVE  BookStep
<1>1. \/ UNCHANGED <<exams, questions, participants, answers>>
      \/ \E s \in Slots : SaveAnswers(s)
      \/ \E a \in DOMAIN answers, alternativa \in EditInputs :
           UpdateAnswer(a, alternativa)
  BY DEF AnswersNext, AnswersStep, OpenBulkAnswers, ReadOwners, AnswersRefused,
         tables
<1>2. ASSUME NEW s \in Slots, SaveAnswers(s)
      PROVE  BookStep
  BY <1>2, MarkManyStep, OneExam DEF BookStep
<1>3. ASSUME NEW a \in DOMAIN answers, NEW alternativa \in EditInputs,
             UpdateAnswer(a, alternativa)
      PROVE  BookStep
  BY <1>3, MarkOneStep, OneExam DEF BookStep
<1> QED
  BY <1>1, <1>2, <1>3, SameTables DEF BookStep

LEMMA NextBook ==
  ASSUME Sound, Sound', [Next]_vars
  PROVE  BookStep
<1>1. CASE AplicadoresNext
  <2>1. \/ UNCHANGED <<exams, questions, participants, answers>>
        \/ \E a \in DOMAIN aplicadores : RemoveAplicador(a)
    BY <1>1 DEF AplicadoresNext, CreateAplicador, UpdateAplicadorStatus
  <2> QED
    BY <2>1, RemoveAplicadorStep, SameTables DEF BookStep
<1>2. ASSUME NEW s \in Slots, Crash(s)
      PROVE  BookStep
  BY <1>2, SameTables DEF BookStep, Crash, tables
<1>3. CASE UNCHANGED vars
  BY <1>3, SameTables DEF BookStep, vars, tables
<1> QED
  BY <1>1, <1>2, <1>3, ExamsBook, QuestionsBook, ParticipantsBook, AnswersBook
     DEF Next

LEMMA InitBook == Init => Book!Init
<1> SUFFICES ASSUME Init PROVE Book!Init
  OBVIOUS
<1>1. DOMAIN exams = {}
  BY DEF Init, InitTables, Empty
<1> QED
  BY <1>1 DEF Book!Init, Book!Empty

\* Whatever calls overlap, are refused or are cut short, the services take
\* single steps on single exams: every behaviour of theirs is one of ExamBook.
THEOREM ServicesImplementBook == Spec => ImplementsBook
<1>1. Spec => []Sound
  BY Invariance, KeysInvariance, PTL DEF Sound
<1>2. Sound /\ Sound' /\ [Next]_vars => [Book!Next]_TheBook
  BY NextBook DEF BookStep
<1>3. Spec => [][Book!Next]_TheBook
  BY <1>1, <1>2, PTL DEF Spec
<1>4. Spec => Book!Init
  BY InitBook DEF Spec
<1> QED
  BY <1>3, <1>4, PTL DEF ImplementsBook, Book!Spec, TheBook
=============================================================================
