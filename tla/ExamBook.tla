------------------------------ MODULE ExamBook ------------------------------
(***************************************************************************)
(* What the correction of exams promises, told without tables, ids that    *)
(* refer to each other, checks or calls in flight: an exam is one object   *)
(* with its questions, its people and one sheet of answers, and every      *)
(* operation is a single step on a single exam.                            *)
(***************************************************************************)
EXTENDS Integers, FiniteSets, Functions

VARIABLE book   \* the exams there are

Fields == {"status", "closing", "nota", "key", "people", "sheet"}
Empty  == [i \in {} |-> i]
NoDay  == -1

Init == book = Empty

Injective(f, field) ==
  \A x, y \in DOMAIN f : f[x][field] = f[y][field] => x = y

\* Exam e changes in some fields, nothing else does.
Changes(e, fields) ==
  /\ DOMAIN book' = DOMAIN book
  /\ \A other \in DOMAIN book \ {e} : book'[other] = book[other]
  /\ \A field \in Fields \ fields : book'[e][field] = book[e][field]

\* A new exam is a draft with blank questions numbered from 1.
Open ==
  \E e \in DOMAIN book' \ DOMAIN book :
    /\ DOMAIN book' = DOMAIN book \cup {e}
    /\ \A other \in DOMAIN book : book'[other] = book[other]
    /\ LET exam == book'[e] IN
         /\ exam.status = "draft" /\ exam.closing = NoDay
         /\ exam.people = Empty /\ exam.sheet = Empty
         /\ \A q \in DOMAIN exam.key : exam.key[q].correctAnswer = ""
         /\ {exam.key[q].numero : q \in DOMAIN exam.key}
              = 1..Cardinality(DOMAIN exam.key)

Discard == \E e \in DOMAIN book : book' = Restrict(book, DOMAIN book \ {e})

Rescale(e) == Changes(e, {"nota"})

\* Closing stamps the day; no other change of status touches it.
SetStatus(e) ==
  /\ Changes(e, {"status", "closing"})
  /\ IF book'[e].status = "completed" THEN book'[e].closing >= 0
                                      ELSE book'[e].closing = book[e].closing

\* A bulk edits and adds questions; each has a numero of its own, no answer
\* is lost.
EditQuestions(e) ==
  /\ Changes(e, {"key"})
  /\ DOMAIN book[e].key \subseteq DOMAIN book'[e].key
  /\ Injective(book'[e].key, "numero")

\* A question goes with the answers to it, a person with the answers given.
DropQuestion(e, q) ==
  LET exam == book[e] IN
  /\ Changes(e, {"key", "sheet"})
  /\ book'[e].key = Restrict(exam.key, DOMAIN exam.key \ {q})
  /\ book'[e].sheet = Restrict(exam.sheet, {x \in DOMAIN exam.sheet : x[2] # q})

DropPerson(e, p) ==
  LET exam == book[e] IN
  /\ Changes(e, {"people", "sheet"})
  /\ book'[e].people = Restrict(exam.people, DOMAIN exam.people \ {p})
  /\ book'[e].sheet = Restrict(exam.sheet, {x \in DOMAIN exam.sheet : x[1] # p})

\* Newcomers get codes nobody of the exam has; a code is for good.
Enrol(e) ==
  /\ Changes(e, {"people"})
  /\ DOMAIN book[e].people \subseteq DOMAIN book'[e].people
  /\ \A p \in DOMAIN book[e].people : book'[e].people[p] = book[e].people[p]
  /\ Injective(book'[e].people, "consultaCode")

EditPerson(e, p) ==
  LET people == book[e].people IN
  /\ Changes(e, {"people"})
  /\ DOMAIN book'[e].people = DOMAIN people
  /\ \A other \in DOMAIN people \ {p} : book'[e].people[other] = people[other]
  /\ book'[e].people[p].consultaCode = people[p].consultaCode

\* Answers are added or changed, each of a person of the exam to one of its
\* questions; none is taken away.
Mark(e) ==
  /\ Changes(e, {"sheet"})
  /\ DOMAIN book[e].sheet \subseteq DOMAIN book'[e].sheet
  /\ DOMAIN book'[e].sheet \subseteq (DOMAIN book[e].people) \X (DOMAIN book[e].key)

Next ==
  \/ Open \/ Discard
  \/ \E e \in DOMAIN book :
       \/ Rescale(e) \/ SetStatus(e) \/ EditQuestions(e) \/ Enrol(e) \/ Mark(e)
       \/ \E q \in DOMAIN book[e].key : DropQuestion(e, q)
       \/ \E p \in DOMAIN book[e].people : EditPerson(e, p) \/ DropPerson(e, p)

Spec == Init /\ [][Next]_book
=============================================================================
