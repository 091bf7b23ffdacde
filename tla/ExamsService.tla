---------------------------- MODULE ExamsService ----------------------------
(***************************************************************************)
(* exams.service.ts: life of an exam, from draft to completed, and the     *)
(* results e-mail its completion starts without being awaited.             *)
(*                                                                         *)
(* updateStatus reads the status, decides, and writes in a second          *)
(* statement that does not look at the status again.  The slot that wrote  *)
(* `completed' goes on with notifyAdmsResultsEmail: its HTTP answer is     *)
(* already sent, the slot stands for the job left running.                 *)
(***************************************************************************)
EXTENDS EnemSchema

CONSTANTS
  Adms,         \* administrators the results go to (rows of adms)
  ExamInputs,   \* bodies of POST /exams: [qtdQuestoes, notaSimbolica]
  NotaInputs,   \* notaSimbolica values PATCH /exams/:id may carry
  StatusInputs, \* statuses PATCH /exams/:id/status may carry
  MailOutcomes, \* what mail.send may do: TRUE it resolves, FALSE it rejects
  MaxDay        \* bound: the last day of the clock

ASSUME ExamsAssumption ==
  /\ Adms # {}
  /\ ExamInputs \subseteq [qtdQuestoes : Ids, notaSimbolica : Ids]
  /\ NotaInputs \subseteq Ids
  /\ StatusInputs \subseteq ExamStatus
  /\ MailOutcomes \subseteq BOOLEAN
  /\ MaxDay \in Nat

VARIABLES now,      \* the clock, in days
          outbox    \* results e-mails handed to mail.send, in order

examsVars == <<now, outbox>>

allowedTransitions ==
  [draft |-> {"in_progress"}, in_progress |-> {"completed"}, completed |-> {}]

StatusCall == [op : {"status"}, examId : Ids, to : ExamStatus]
ExportCall == [op : {"export"}, examId : Ids]
MailCall   == [op : {"mail"}, examId : Ids, pending : SUBSET Adms]

Mail == [examId : Ids, to : Adms, sent : BOOLEAN]

InitExams == now = 0 /\ outbox = <<>>

\* create: the exam and its placeholder questions 1..qtdQuestoes, in one
\* transaction.
CreateExam(dto) ==
  LET e == serial.exam + 1
      placeholder(n) == [examId |-> e, numero |-> n, peso |-> 1,
                         correctAnswer |-> ""] IN
  /\ Room("exam", 1) /\ Room("question", dto.qtdQuestoes)
  /\ exams' = WithRows(exams, serial.exam,
                       <<[status |-> "draft", encerramento |-> NoDate,
                          notaSimbolica |-> dto.notaSimbolica]>>)
  /\ questions' = WithRows(questions, serial.question,
                           [n \in 1..dto.qtdQuestoes |-> placeholder(n)])
  /\ serial' = [serial EXCEPT !.exam = e, !.question = @ + dto.qtdQuestoes]
  /\ UNCHANGED <<participants, aplicadores, answers, calls, examsVars>>

UpdateExam(e, nota) ==
  /\ e \in DOMAIN exams
  /\ exams' = [exams EXCEPT ![e].notaSimbolica = nota]
  /\ UNCHANGED <<questions, participants, aplicadores, answers, serial, calls,
                 examsVars>>

RemoveExam(e) ==
  /\ e \in DOMAIN exams
  /\ DeleteExam(e)
  /\ UNCHANGED <<calls, examsVars>>

\* updateStatus up to the check of allowedTransitions.
ReadStatus(s, e, to) ==
  /\ e \in DOMAIN exams
  /\ to \in allowedTransitions[exams[e].status]
  /\ Start(s, [op |-> "status", examId |-> e, to |-> to])
  /\ UNCHANGED <<tables, examsVars>>

\* encerramento is set by the write that completes the exam, and by no other.
ClosingDayForgotten(e, to) == exams[e].encerramento
ClosingDay(e, to) == IF to = "completed" THEN now ELSE exams[e].encerramento

\* The rest of updateStatus: the write, and the notification it launches.
WriteStatus(s) ==
  LET e == calls[s].examId
      to == calls[s].to IN
  /\ Serving(s, "status")
  /\ e \in DOMAIN exams
  /\ exams' = [exams EXCEPT ![e].status = to,
                            ![e].encerramento = ClosingDay(e, to)]
  /\ calls' = [calls EXCEPT ![s] = IF to = "completed"
                                     THEN [op |-> "export", examId |-> e]
                                     ELSE Idle]
  /\ UNCHANGED <<questions, participants, aplicadores, answers, serial,
                 examsVars>>

\* notifyAdmsResultsEmail: the spreadsheet is built and the adms are read ...
ExportRanking(s) ==
  /\ Serving(s, "export")
  /\ calls[s].examId \in DOMAIN exams
  /\ calls' = [calls EXCEPT ![s] = [op |-> "mail", examId |-> @.examId,
                                    pending |-> Adms]]
  /\ UNCHANGED <<tables, examsVars>>

\* A return inside the loop: one message and the job is over.
SendMailOnce(s, adm, sent) ==
  /\ Serving(s, "mail")
  /\ adm \in calls[s].pending
  /\ outbox' = Append(outbox, [examId |-> calls[s].examId, to |-> adm,
                               sent |-> sent])
  /\ Close(s)
  /\ UNCHANGED <<tables, now>>

\* ... then the messages go out one after the other, until one fails: the
\* error leaves the loop and is only logged.
SendMail(s, adm, sent) ==
  LET left == IF sent THEN calls[s].pending \ {adm} ELSE {} IN
  /\ Serving(s, "mail")
  /\ adm \in calls[s].pending
  /\ outbox' = Append(outbox, [examId |-> calls[s].examId, to |-> adm,
                               sent |-> sent])
  /\ calls' = [calls EXCEPT ![s] = IF left = {} THEN Idle
                                   ELSE [@ EXCEPT !.pending = left]]
  /\ UNCHANGED <<tables, now>>

\* The job that waits for an exam that will not come back.
ExamGoneBeforeWrite(s) ==
  /\ calls[s].op = "status"
  /\ calls[s].examId \notin DOMAIN exams
  /\ Close(s)
  /\ UNCHANGED <<tables, examsVars>>

\* The exam is gone when the write or the export asks for it.
ExamGone(s) ==
  /\ calls[s].op \in {"status", "export"}
  /\ calls[s].examId \notin DOMAIN exams
  /\ Close(s)
  /\ UNCHANGED <<tables, examsVars>>

Tick ==
  /\ now < MaxDay
  /\ now' = now + 1
  /\ UNCHANGED <<tables, calls, outbox>>

ExamsStep(s) ==
  \/ WriteStatus(s)
  \/ ExportRanking(s)
  \/ \E adm \in Adms, sent \in MailOutcomes : SendMail(s, adm, sent)
  \/ ExamGone(s)

ExamsNext ==
  \/ \E dto \in ExamInputs : CreateExam(dto)
  \/ \E e \in DOMAIN exams, nota \in NotaInputs : UpdateExam(e, nota)
  \/ \E e \in DOMAIN exams : RemoveExam(e)
  \/ \E s \in Slots, e \in DOMAIN exams, to \in StatusInputs : ReadStatus(s, e, to)
  \/ \E s \in Slots : ExamsStep(s)
  \/ Tick
=============================================================================
