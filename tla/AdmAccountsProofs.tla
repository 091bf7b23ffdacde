-------------------------- MODULE AdmAccountsProofs --------------------------
(***************************************************************************)
(* Theorems of AdmAccounts for every number of slots, every set of         *)
(* addresses and every length of the sequences.                            *)
(***************************************************************************)
EXTENDS AdmAccounts, TLAPS

-----------------------------------------------------------------------------
(* The inductive invariant: to the properties it adds what a call goes on  *)
(* trusting after the statement that tested it.                            *)

\* The link a call is about to store has one spelling, names an account if it
\* is a reset, and every link of its kind that was there when it withdrew
\* them is spent.
LinkCallFollows(c) ==
  c.op = "link" =>
    /\ normalizeEmail[c.email] = c.email
    /\ (c.purpose = "password_reset") = (c.admId # NoId)
    /\ c.since <= serial.link
    /\ c.stage = "create" =>
         \A l \in DOMAIN links :
           /\ links[l].email = c.email /\ links[l].purpose = c.purpose
           /\ l <= c.since
           => links[l].state = "used"

\* The session a call is about to store renews one that is revoked, and no
\* reset ended since its password was checked, unless it is marked late.
SessionCallFollows(c) ==
  c.op \in {"issue", "refresh"} =>
    /\ c.parent <= serial.session
    /\ c.op = "issue" /\ c.parent \in DOMAIN sessions =>
         sessions[c.parent].state = "revoked"
    /\ c.admId \in DOMAIN adms => c.late \/ c.senha >= adms[c.admId].reset

\* The account of a reset was stored before it, and goes on to no password
\* older than the one the reset gave it.
ResetCallFollows(c) ==
  c.op = "reset" =>
    /\ c.admId <= serial.adm
    /\ c.stage = "sweep" /\ c.admId \in DOMAIN adms =>
         c.senha <= adms[c.admId].senha

CallFollows(c) == LinkCallFollows(c) /\ SessionCallFollows(c) /\ ResetCallFollows(c)

CallsFollow == \A s \in Slots : CallFollows(calls[s])

AdmsOrdered ==
  \A a \in DOMAIN adms : adms[a].reset <= adms[a].senha /\ adms[a].senha <= serial.senha

ParentsOlder == \A t \in DOMAIN sessions : sessions[t].parent <= serial.session

SpentIsUsed ==
  \A l \in DOMAIN links :
    links[l].spent = 0 \/ (links[l].spent = 1 /\ links[l].state = "used")

LinksInv == SpentIsUsed /\ OnlyOverlappedLinksCoexist
SessionsInv == ParentsOlder /\ RenewedIsRevoked /\ ResetEndsSessions

Inv ==
  /\ TypeOK /\ CallsFollow
  /\ AdmsOrdered /\ RemovedAdmIsOut /\ LinksInv /\ SessionsInv

-----------------------------------------------------------------------------
(* Tables and calls.                                                       *)

\* A statement that leaves a part of the rows, each of the type, keeps a table.
LEMMA RewrittenTable ==
  ASSUME NEW t, NEW u, NEW R, NEW n \in Nat, IsTable(t, R, n),
         u = [i \in DOMAIN u |-> u[i]], DOMAIN u \subseteq DOMAIN t,
         \A i \in DOMAIN u : u[i] \in R
  PROVE  IsTable(u, R, n)
  BY DEF IsTable

\* The shape of the call a slot is serving follows from its op.
LEMMA CallShape ==
  ASSUME NEW c \in Call
  PROVE  /\ c.op = "issue" => c \in IssueCall
         /\ c.op = "refresh" => c \in RefreshCall
         /\ c.op = "accept" => c \in AcceptCall
         /\ c.op = "reset" => c \in ResetCall
         /\ c.op = "link" => c \in LinkCall
         /\ c.op = "update" => c \in UpdateCall
<1>1. c = Idle => c.op = "idle"
  BY DEF Idle
<1>2. c \in IssueCall => c.op = "issue"
  BY DEF IssueCall
<1>3. c \in RefreshCall => c.op = "refresh"
  BY DEF RefreshCall
<1>4. c \in AcceptCall => c.op = "accept"
  BY DEF AcceptCall
<1>5. c \in ResetCall => c.op = "reset"
  BY DEF ResetCall
<1>6. c \in LinkCall => c.op = "link"
  BY DEF LinkCall
<1>7. c \in UpdateCall => c.op = "update"
  BY DEF UpdateCall
<1> HIDE DEF Idle, IssueCall, RefreshCall, AcceptCall, ResetCall, LinkCall, UpdateCall
<1> QED
  BY <1>1, <1>2, <1>3, <1>4, <1>5, <1>6, <1>7 DEF Call

LEMMA TypeFacts ==
  ASSUME TypeOK
  PROVE  /\ serial.adm \in Nat /\ serial.link \in Nat
         /\ serial.session \in Nat /\ serial.senha \in Nat
         /\ \A a \in DOMAIN adms : adms[a] \in Adm /\ a \in 1..serial.adm
         /\ \A l \in DOMAIN links : links[l] \in Link /\ l \in 1..serial.link
         /\ \A t \in DOMAIN sessions :
              sessions[t] \in Session /\ t \in 1..serial.session
         /\ \A s \in Slots : calls[s] \in Call
  BY DEF TypeOK, IsTable, Tables

\* A step of one call that touches no table.
LEMMA CallStep ==
  ASSUME Inv, UNCHANGED tables, NEW s \in Slots, NEW c \in Call, CallFollows(c),
         calls' = [calls EXCEPT ![s] = c]
  PROVE  Inv'
<1>1. TypeOK'
  BY DEF Inv, TypeOK, tables
<1>2. CallsFollow'
  <2> SUFFICES ASSUME NEW r \in Slots PROVE CallFollows(calls[r])'
    BY DEF CallsFollow
  <2>1. calls'[r] = c \/ calls'[r] = calls[r]
    BY DEF Inv, TypeOK
  <2>2. CallFollows(calls'[r])
    BY <2>1 DEF Inv, CallsFollow
  <2> QED
    BY <2>2 DEF CallFollows, LinkCallFollows, SessionCallFollows, ResetCallFollows, tables
<1>3. (AdmsOrdered /\ RemovedAdmIsOut /\ LinksInv /\ SessionsInv)'
  BY DEF Inv, AdmsOrdered, RemovedAdmIsOut, Names, LinksInv, SpentIsUsed,
         OnlyOverlappedLinksCoexist, SessionsInv, ParentsOlder, RenewedIsRevoked,
         ResetEndsSessions, tables
<1> QED
  BY <1>1, <1>2, <1>3 DEF Inv

\* No step but the removal of a row goes back: ids are not given again, what
\* is spent or revoked stays so, and passwords only grow.
RowsGoForward ==
  /\ serial.adm <= serial'.adm /\ serial.link <= serial'.link
  /\ serial.session <= serial'.session
  /\ \A a \in DOMAIN adms' :
       a <= serial.adm => a \in DOMAIN adms /\ adms[a].senha <= adms'[a].senha
  /\ \A l \in DOMAIN links' :
       l <= serial.link =>
         /\ l \in DOMAIN links
         /\ links'[l].email = links[l].email /\ links'[l].purpose = links[l].purpose
         /\ links[l].state = "used" => links'[l].state = "used"
  /\ \A t \in DOMAIN sessions' :
       t <= serial.session =>
         /\ t \in DOMAIN sessions
         /\ sessions[t].state = "revoked" => sessions'[t].state = "revoked"

\* What a call trusts stays true under a step of another one, unless a reset
\* of its account ends.
LEMMA StillFollows ==
  ASSUME Inv, TypeOK', NEW c \in Call, CallFollows(c), RowsGoForward,
         c.op \in {"issue", "refresh"} /\ c.admId \in DOMAIN adms' =>
           \/ adms'[c.admId].reset = 0
           \/ c.admId \in DOMAIN adms /\ adms'[c.admId].reset = adms[c.admId].reset
  PROVE  CallFollows(c)'
<1>1. TypeOK
  BY DEF Inv
<1>2. LinkCallFollows(c)'
  <2> SUFFICES ASSUME c.op = "link" PROVE LinkCallFollows(c)'
    BY DEF LinkCallFollows
  <2>1. c \in LinkCall /\ c.since \in Nat
    BY CallShape DEF LinkCall
  <2>2. serial.link \in Nat /\ serial'.link \in Nat
    BY <1>1, TypeFacts DEF TypeOK, Tables
  <2>3. \A l \in DOMAIN links' : l \in Nat
    BY DEF TypeOK, IsTable
  <2> QED
    BY <2>1, <2>2, <2>3 DEF CallFollows, LinkCallFollows, RowsGoForward
<1>3. SessionCallFollows(c)'
  <2> SUFFICES ASSUME c.op \in {"issue", "refresh"} PROVE SessionCallFollows(c)'
    BY DEF SessionCallFollows
  <2>1. c.parent \in Nat /\ c.senha \in Nat
    BY CallShape DEF IssueCall, RefreshCall, Ids
  <2>2. serial.session \in Nat /\ serial'.session \in Nat
    BY <1>1, TypeFacts DEF TypeOK, Tables
  <2> QED
    BY <2>1, <2>2 DEF CallFollows, SessionCallFollows, RowsGoForward
<1>4. ResetCallFollows(c)'
  <2> SUFFICES ASSUME c.op = "reset" PROVE ResetCallFollows(c)'
    BY DEF ResetCallFollows
  <2>1. c.admId \in Nat /\ c.senha \in Nat
    BY CallShape DEF ResetCall, Ids
  <2>2. serial.adm \in Nat /\ serial'.adm \in Nat
    BY <1>1, TypeFacts DEF TypeOK, Tables
  <2>3. \A a \in DOMAIN adms : adms[a].senha \in Nat
    BY <1>1, TypeFacts DEF Adm, Ids
  <2>4. \A a \in DOMAIN adms' : adms'[a].senha \in Nat
    <3>1. \A a \in DOMAIN adms' : adms'[a] \in Adm
      BY DEF TypeOK, IsTable
    <3> QED
      BY <3>1 DEF Adm, Ids
  <2> QED
    BY <2>1, <2>2, <2>3, <2>4 DEF CallFollows, ResetCallFollows, RowsGoForward
<1> QED
  BY <1>2, <1>3, <1>4 DEF CallFollows

LEMMA IdleFollows == Idle \in Call /\ CallFollows(Idle)
  BY DEF Idle, Call, CallFollows, LinkCallFollows, SessionCallFollows, ResetCallFollows

LEMMA IdleStays ==
  ASSUME NEW r \in Slots, calls'[r] = Idle
  PROVE  CallFollows(calls[r])'
  BY DEF Idle, CallFollows, LinkCallFollows, SessionCallFollows, ResetCallFollows

LEMMA CloseStep ==
  ASSUME Inv, UNCHANGED tables, NEW s \in Slots, Close(s)
  PROVE  Inv'
  BY CallStep, IdleFollows DEF Close

-----------------------------------------------------------------------------
(* Sessions.                                                               *)

LEMMA LoginKeeps ==
  ASSUME Inv, NEW s \in Slots, NEW a \in DOMAIN adms, Login(s, a)
  PROVE  Inv'
<1> DEFINE c == [op |-> "issue", admId |-> a, senha |-> adms[a].senha,
                 parent |-> NoId, late |-> FALSE]
<1>1. adms[a] \in Adm /\ a \in Ids
  BY TypeFacts DEF Inv, Ids
<1>2. c \in Call
  BY <1>1 DEF Adm, Call, IssueCall, NoId
<1>3. CallFollows(c)
  <2>1. NoId \notin DOMAIN sessions /\ NoId <= serial.session
    BY TypeFacts DEF Inv, NoId
  <2>2. adms[a].senha >= adms[a].reset
    BY <1>1 DEF Inv, AdmsOrdered, Adm, Ids
  <2> QED
    BY <2>1, <2>2 DEF CallFollows, LinkCallFollows, SessionCallFollows, ResetCallFollows
<1> QED
  BY <1>2, <1>3, CallStep DEF Login, Start

LEMMA RefreshKeeps ==
  ASSUME Inv, NEW s \in Slots, NEW t \in DOMAIN sessions, Refresh(s, t)
  PROVE  Inv'
<1> DEFINE c == [op |-> "refresh", admId |-> sessions[t].admId,
                 senha |-> sessions[t].senha, parent |-> t,
                 late |-> sessions[t].late]
<1>1. sessions[t] \in Session /\ t \in Ids /\ t <= serial.session
  BY TypeFacts DEF Inv, Ids
<1>2. c \in Call
  BY <1>1 DEF Session, Call, RefreshCall
<1>3. c.admId \in DOMAIN adms => c.late \/ c.senha >= adms[c.admId].reset
  BY DEF Refresh, Inv, SessionsInv, ResetEndsSessions
<1>4. CallFollows(c)
  BY <1>1, <1>3 DEF CallFollows, LinkCallFollows, SessionCallFollows, ResetCallFollows
<1> QED
  BY <1>2, <1>4, CallStep DEF Refresh, Start

\* A statement that only revokes sessions, or lets one expire, and goes on
\* with a call or leaves it.
LEMMA SessionsWorsen ==
  ASSUME Inv, UNCHANGED <<adms, links, serial>>,
         sessions' = [t \in DOMAIN sessions |-> sessions'[t]],
         \A t \in DOMAIN sessions :
           \/ sessions'[t] = sessions[t]
           \/ sessions'[t] = [sessions[t] EXCEPT !.state = "revoked"]
           \/ /\ sessions[t].state = "live"
              /\ sessions'[t] = [sessions[t] EXCEPT !.state = "expired"],
         calls' \in [Slots -> Call],
         \A s \in Slots : calls'[s] = calls[s] \/ CallFollows(calls[s])'
  PROVE  Inv'
<1>0. sessions'= [t \in DOMAIN sessions |-> sessions'[t]] /\ DOMAIN sessions' = DOMAIN sessions
  OBVIOUS
<1>1. \A t \in DOMAIN sessions :
        /\ sessions'[t] \in Session
        /\ sessions'[t].parent = sessions[t].parent
        /\ sessions'[t].admId = sessions[t].admId
        /\ sessions'[t].senha = sessions[t].senha
        /\ sessions'[t].late = sessions[t].late
        /\ sessions[t].state = "revoked" => sessions'[t].state = "revoked"
  <2> SUFFICES ASSUME NEW t \in DOMAIN sessions
      PROVE  /\ sessions'[t] \in Session
             /\ sessions'[t].parent = sessions[t].parent
             /\ sessions'[t].admId = sessions[t].admId
             /\ sessions'[t].senha = sessions[t].senha
             /\ sessions'[t].late = sessions[t].late
             /\ sessions[t].state = "revoked" => sessions'[t].state = "revoked"
    OBVIOUS
  <2>1. sessions[t] \in Session
    BY TypeFacts DEF Inv
  <2> QED
    BY <2>1 DEF Session
<1>2. TypeOK'
  <2>1. IsTable(sessions', Session, serial.session)
    BY <1>0, <1>1, RewrittenTable, TypeFacts DEF Inv, TypeOK
  <2> QED
    BY <2>1 DEF Inv, TypeOK
<1>3. CallsFollow'
  <2> SUFFICES ASSUME NEW s \in Slots, calls'[s] = calls[s]
               PROVE CallFollows(calls[s])'
    BY DEF CallsFollow
  <2>1. CallFollows(calls[s])
    BY DEF Inv, CallsFollow
  <2> QED
    BY <1>0, <1>1, <2>1 DEF CallFollows, LinkCallFollows, SessionCallFollows, ResetCallFollows
<1>4. SessionsInv'
  BY <1>0, <1>1 DEF Inv, SessionsInv, ParentsOlder, RenewedIsRevoked, ResetEndsSessions
<1>5. (AdmsOrdered /\ RemovedAdmIsOut /\ LinksInv)'
  BY <1>0, <1>1 DEF Inv, AdmsOrdered, RemovedAdmIsOut, Names, LinksInv, SpentIsUsed,
         OnlyOverlappedLinksCoexist
<1> QED
  BY <1>2, <1>3, <1>4, <1>5 DEF Inv

LEMMA RotateKeeps ==
  ASSUME Inv, NEW s \in Slots, Rotate(s)
  PROVE  Inv'
<1> DEFINE c == calls[s]
           p == c.parent
           next == [op |-> "issue", admId |-> c.admId, senha |-> c.senha,
                    parent |-> p, late |-> c.late]
<1>1. c \in RefreshCall /\ CallFollows(c)
  BY CallShape, TypeFacts DEF Rotate, Inv, CallsFollow
<1>2. next \in Call
  BY <1>1 DEF RefreshCall, IssueCall, Call, Ids
<1>3. /\ DOMAIN sessions' = DOMAIN sessions
      /\ sessions' = [t \in DOMAIN sessions |-> sessions'[t]]
      /\ sessions'[p] = [sessions[p] EXCEPT !.state = "revoked"]
      /\ \A t \in DOMAIN sessions : t # p => sessions'[t] = sessions[t]
      /\ UNCHANGED <<adms, links, serial>> /\ p \in DOMAIN sessions
  BY DEF Rotate, Inv, TypeOK, IsTable
<1>4. calls' = [calls EXCEPT ![s] = next]
  BY DEF Rotate
<1>5. /\ calls' \in [Slots -> Call] /\ calls'[s] = next
      /\ \A r \in Slots : r # s => calls'[r] = calls[r]
  BY <1>2, <1>4 DEF Inv, TypeOK
<1>6. sessions'[p].state = "revoked"
  <2>1. sessions[p] \in Session
    BY <1>3, TypeFacts DEF Inv
  <2> QED
    BY <1>3, <2>1 DEF Session
<1>7. CallFollows(calls[s])'
  <2>1. /\ calls'[s].op = "issue" /\ calls'[s].parent = p
        /\ calls'[s].admId = c.admId /\ calls'[s].senha = c.senha
        /\ calls'[s].late = c.late
    BY <1>5
  <2>2. /\ p <= serial.session
        /\ c.admId \in DOMAIN adms => c.late \/ c.senha >= adms[c.admId].reset
    BY <1>1 DEF Rotate, CallFollows, SessionCallFollows
  <2> HIDE DEF c, p, next
  <2> QED
    BY <1>3, <1>6, <2>1, <2>2 DEF CallFollows, LinkCallFollows, SessionCallFollows,
       ResetCallFollows
<1> QED
  <2> HIDE DEF next, p, c
  <2> QED
    BY <1>3, <1>5, <1>7, SessionsWorsen

LEMMA IssueTokensKeeps ==
  ASSUME Inv, NEW s \in Slots, IssueTokens(s)
  PROVE  Inv'
<1> DEFINE c == calls[s]
<1>1. c \in IssueCall /\ CallFollows(c) /\ c.op = "issue" /\ c.admId \in DOMAIN adms
  BY CallShape, TypeFacts DEF IssueTokens, Inv, CallsFollow
<1>2. PICK n \in Nat : n = serial.session
  BY TypeFacts DEF Inv
<1>3. PICK row \in Session :
        row = [admId |-> c.admId, state |-> "live", senha |-> c.senha,
               parent |-> c.parent, late |-> c.late]
  BY <1>1 DEF IssueCall, Session
<1>4. /\ sessions' = Insert(sessions, n + 1, row)
      /\ serial' = [serial EXCEPT !.session = n + 1]
      /\ calls' = [calls EXCEPT ![s] = Idle]
      /\ UNCHANGED <<adms, links>>
  BY <1>2, <1>3 DEF IssueTokens, Next1, Close
<1>5. /\ row.parent <= n /\ row.admId \in DOMAIN adms
      /\ row.late \/ row.senha >= adms[row.admId].reset
      /\ row.parent \in DOMAIN sessions => sessions[row.parent].state = "revoked"
  BY <1>1, <1>2, <1>3 DEF CallFollows, SessionCallFollows
<1> HIDE DEF c
<1>6. /\ IsTable(sessions', Session, n + 1)
      /\ DOMAIN sessions' = DOMAIN sessions \cup {n + 1}
      /\ sessions'[n + 1] = row
      /\ \A t \in DOMAIN sessions :
           t # n + 1 /\ t \in 1..n /\ sessions'[t] = sessions[t]
  <2>1. IsTable(sessions, Session, n)
    BY <1>2 DEF Inv, TypeOK
  <2>2. n \in Nat /\ row \in Session
    BY <1>2, <1>3
  <2>3. sessions' = Insert(sessions, n + 1, row)
    BY <1>4
  <2> QED
    BY <2>1, <2>2, <2>3 DEF Insert, IsTable
<1>7. /\ serial' \in [Tables -> Nat] /\ serial'.session = n + 1
      /\ serial'.adm = serial.adm /\ serial'.link = serial.link
      /\ serial'.senha = serial.senha
  BY <1>2, <1>4 DEF Inv, TypeOK, Tables
<1>8. /\ calls' \in [Slots -> Call]
      /\ \A r \in Slots : calls'[r] = calls[r] \/ calls'[r] = Idle
  BY <1>4, IdleFollows DEF Inv, TypeOK
<1>9. TypeOK'
  BY <1>4, <1>6, <1>7, <1>8 DEF Inv, TypeOK
<1>10. RowsGoForward
  <2>1. /\ serial.adm \in Nat /\ serial.link \in Nat
        /\ \A a \in DOMAIN adms : adms[a].senha \in Nat
    BY TypeFacts DEF Inv, Adm, Ids
  <2> QED
    BY <1>2, <1>4, <1>6, <1>7, <2>1 DEF RowsGoForward
<1>11. CallsFollow'
  <2> SUFFICES ASSUME NEW r \in Slots, calls'[r] = calls[r]
               PROVE  CallFollows(calls[r])'
    BY <1>8, IdleStays DEF CallsFollow
  <2>1. calls[r] \in Call /\ CallFollows(calls[r])
    BY TypeFacts DEF Inv, CallsFollow
  <2> QED
    BY <1>4, <1>9, <1>10, <2>1, StillFollows
<1>12. SessionsInv'
  <2>1. \A t \in DOMAIN sessions' :
          sessions'[t].parent # n + 1 /\ sessions'[t].parent <= n + 1
    <3> SUFFICES ASSUME NEW t \in DOMAIN sessions'
                 PROVE  sessions'[t].parent # n + 1 /\ sessions'[t].parent <= n + 1
      OBVIOUS
    <3>1. sessions'[t].parent <= n
      BY <1>2, <1>5, <1>6 DEF Inv, SessionsInv, ParentsOlder
    <3>2. sessions'[t].parent \in Nat
      BY <1>6 DEF IsTable, Session
    <3> QED
      BY <3>1, <3>2
  <2>2. ParentsOlder'
    BY <1>7, <2>1 DEF ParentsOlder
  <2>3. RenewedIsRevoked'
    BY <1>5, <1>6, <2>1 DEF Inv, SessionsInv, RenewedIsRevoked
  <2>4. ResetEndsSessions'
    BY <1>4, <1>5, <1>6 DEF Inv, SessionsInv, ResetEndsSessions
  <2> QED
    BY <2>2, <2>3, <2>4 DEF SessionsInv
<1>13. (AdmsOrdered /\ LinksInv)'
  BY <1>4, <1>7 DEF Inv, AdmsOrdered, LinksInv, SpentIsUsed, OnlyOverlappedLinksCoexist
<1>14. RemovedAdmIsOut'
  BY <1>4, <1>5, <1>6 DEF Inv, RemovedAdmIsOut, Names
<1> QED
  BY <1>9, <1>11, <1>12, <1>13, <1>14 DEF Inv

LEMMA LogoutKeeps ==
  ASSUME Inv, NEW t \in DOMAIN sessions, Logout(t)
  PROVE  Inv'
<1>1. /\ sessions' = [i \in DOMAIN sessions |-> sessions'[i]]
      /\ \A i \in DOMAIN sessions :
           \/ sessions'[i] = sessions[i]
           \/ sessions'[i] = [sessions[i] EXCEPT !.state = "revoked"]
      /\ UNCHANGED <<adms, links, serial, calls>>
  BY DEF Logout, Inv, TypeOK, IsTable
<1>2. calls' \in [Slots -> Call]
  BY <1>1 DEF Inv, TypeOK
<1> QED
  BY <1>1, <1>2, SessionsWorsen

LEMMA ExpireSessionKeeps ==
  ASSUME Inv, NEW t \in DOMAIN sessions, ExpireSession(t)
  PROVE  Inv'
<1>1. /\ sessions' = [i \in DOMAIN sessions |-> sessions'[i]]
      /\ \A i \in DOMAIN sessions :
           \/ sessions'[i] = sessions[i]
           \/ /\ sessions[i].state = "live"
              /\ sessions'[i] = [sessions[i] EXCEPT !.state = "expired"]
      /\ UNCHANGED <<adms, links, serial, calls>>
  BY DEF ExpireSession, Inv, TypeOK, IsTable
<1>2. calls' \in [Slots -> Call]
  BY <1>1 DEF Inv, TypeOK
<1> QED
  BY <1>1, <1>2, SessionsWorsen

\* The last statement of a reset: the sessions of its account are revoked,
\* and the calls that may still store one are marked.
LEMMA RevokeSessionsKeeps ==
  ASSUME Inv, NEW s \in Slots, RevokeSessions(s)
  PROVE  Inv'
<1>1. PICK a \in Ids, w \in Nat :
        /\ a = calls[s].admId /\ w = calls[s].senha
        /\ a \in DOMAIN adms => w <= adms[a].senha
  <2>1. calls[s] \in ResetCall /\ CallFollows(calls[s])
    BY CallShape, TypeFacts DEF RevokeSessions, At, Inv, CallsFollow
  <2>2. calls[s].stage = "sweep" /\ calls[s].op = "reset"
    BY DEF RevokeSessions, At
  <2> QED
    BY <2>1, <2>2 DEF ResetCall, CallFollows, ResetCallFollows
<1>2. /\ adms' = [i \in DOMAIN adms |->
                    IF i = a /\ adms[i].reset < w
                      THEN [adms[i] EXCEPT !.reset = w] ELSE adms[i]]
      /\ sessions' = [t \in DOMAIN sessions |->
                        IF sessions[t].admId = a
                          THEN [sessions[t] EXCEPT !.state = "revoked"]
                          ELSE sessions[t]]
      /\ calls' = [r \in Slots |->
                     IF r = s THEN Idle
                     ELSE IF calls[r].op \in {"issue", "refresh"} /\ calls[r].admId = a
                       THEN [calls[r] EXCEPT !.late = TRUE]
                     ELSE calls[r]]
      /\ UNCHANGED <<links, serial>>
  BY <1>1 DEF RevokeSessions, EndReset, SessionsOf
<1>3. /\ DOMAIN adms' = DOMAIN adms
      /\ \A i \in DOMAIN adms :
           /\ adms'[i] \in Adm /\ adms'[i].senha = adms[i].senha
           /\ adms'[i].reset = IF i = a /\ adms[i].reset < w THEN w ELSE adms[i].reset
  <2>1. \A i \in DOMAIN adms : adms[i] \in Adm
    BY TypeFacts DEF Inv
  <2> QED
    BY <1>1, <1>2, <2>1 DEF Adm
<1>4. /\ DOMAIN sessions' = DOMAIN sessions
      /\ \A t \in DOMAIN sessions :
           /\ sessions'[t] \in Session
           /\ sessions'[t].parent = sessions[t].parent
           /\ sessions'[t].admId = sessions[t].admId
           /\ sessions'[t].senha = sessions[t].senha
           /\ sessions'[t].late = sessions[t].late
           /\ sessions[t].admId = a => sessions'[t].state = "revoked"
           /\ sessions[t].admId # a => sessions'[t].state = sessions[t].state
  <2>1. \A t \in DOMAIN sessions : sessions[t] \in Session
    BY TypeFacts DEF Inv
  <2> QED
    BY <1>2, <2>1 DEF Session
<1>5. ASSUME NEW r \in Slots
      PROVE  /\ calls'[r] \in Call
             /\ \/ calls'[r] = Idle
                \/ /\ calls[r] \in IssueCall \cup RefreshCall
                   /\ calls'[r] = [calls[r] EXCEPT !.late = TRUE]
                \/ /\ calls'[r] = calls[r]
                   /\ calls[r].op \in {"issue", "refresh"} => calls[r].admId # a
  <2>1. calls[r] \in Call
    BY TypeFacts DEF Inv
  <2>2. CASE r = s
    BY <1>2, <2>2, IdleFollows
  <2>3. CASE r # s /\ calls[r].op \in {"issue", "refresh"} /\ calls[r].admId = a
    <3>1. calls'[r] = [calls[r] EXCEPT !.late = TRUE]
      BY <1>2, <2>3
    <3>2. calls[r] \in IssueCall \cup RefreshCall
      BY <2>1, <2>3, CallShape
    <3>3. calls'[r] \in IssueCall \cup RefreshCall
      BY <3>1, <3>2 DEF IssueCall, RefreshCall
    <3> QED
      BY <3>1, <3>2, <3>3 DEF Call
  <2>4. CASE r # s /\ ~(calls[r].op \in {"issue", "refresh"} /\ calls[r].admId = a)
    BY <1>2, <2>1, <2>4
  <2> QED
    BY <2>2, <2>3, <2>4
<1>6. TypeOK'
  <2>1. IsTable(adms', Adm, serial.adm)
    BY <1>2, <1>3 DEF Inv, TypeOK, IsTable
  <2>2. IsTable(sessions', Session, serial.session)
    BY <1>2, <1>4 DEF Inv, TypeOK, IsTable
  <2>3. calls' \in [Slots -> Call]
    BY <1>2, <1>5
  <2> QED
    BY <1>2, <2>1, <2>2, <2>3 DEF Inv, TypeOK
<1>7. RowsGoForward
  <2>1. /\ serial.adm \in Nat /\ serial.link \in Nat /\ serial.session \in Nat
        /\ \A i \in DOMAIN adms : adms[i].senha \in Nat
    BY TypeFacts DEF Inv, Adm, Ids
  <2> QED
    BY <1>2, <1>3, <1>4, <2>1 DEF RowsGoForward
<1>8. CallsFollow'
  <2> SUFFICES ASSUME NEW r \in Slots PROVE CallFollows(calls[r])'
    BY DEF CallsFollow
  <2>1. calls[r] \in Call /\ CallFollows(calls[r])
    BY TypeFacts DEF Inv, CallsFollow
  <2>2. CASE calls'[r] = Idle
    BY <2>2, IdleStays
  <2>3. CASE /\ calls'[r] = calls[r]
             /\ calls[r].op \in {"issue", "refresh"} => calls[r].admId # a
    BY <1>3, <1>6, <1>7, <2>1, <2>3, StillFollows
  <2>4. CASE /\ calls[r] \in IssueCall \cup RefreshCall
             /\ calls'[r] = [calls[r] EXCEPT !.late = TRUE]
    <3>1. /\ calls'[r].op = calls[r].op /\ calls'[r].parent = calls[r].parent
          /\ calls'[r].op \in {"issue", "refresh"} /\ calls'[r].late
      BY <2>4 DEF IssueCall, RefreshCall
    <3>2. SessionCallFollows(calls[r])'
      BY <1>2, <1>4, <2>1, <3>1 DEF CallFollows, SessionCallFollows
    <3> QED
      BY <3>1, <3>2 DEF CallFollows, LinkCallFollows, ResetCallFollows
  <2> QED
    BY <1>5, <2>2, <2>3, <2>4
<1>9. AdmsOrdered'
  BY <1>1, <1>2, <1>3 DEF Inv, AdmsOrdered
<1>10. SessionsInv'
  <2>1. ParentsOlder' /\ RenewedIsRevoked'
    BY <1>2, <1>4 DEF Inv, SessionsInv, ParentsOlder, RenewedIsRevoked
  <2>2. ResetEndsSessions'
    BY <1>3, <1>4 DEF Inv, SessionsInv, ResetEndsSessions
  <2> QED
    BY <2>1, <2>2 DEF SessionsInv
<1>11. (RemovedAdmIsOut /\ LinksInv)'
  BY <1>2, <1>3, <1>4 DEF Inv, RemovedAdmIsOut, Names, LinksInv, SpentIsUsed,
     OnlyOverlappedLinksCoexist
<1> QED
  BY <1>6, <1>8, <1>9, <1>10, <1>11 DEF Inv

LEMMA SessionRefusedKeeps ==
  ASSUME Inv, NEW s \in Slots, SessionRefused(s)
  PROVE  Inv'
  BY CloseStep DEF SessionRefused

-----------------------------------------------------------------------------
(* Links.                                                                  *)

LEMMA InviteKeeps ==
  ASSUME Inv, NEW s \in Slots, NEW by \in DOMAIN adms, NEW to \in Emails,
         Invite(s, by, to)
  PROVE  Inv'
<1> DEFINE c == [op |-> "link", stage |-> "withdraw", email |-> AddressOf(to),
                 purpose |-> "invite", admId |-> NoId, invitedBy |-> by, since |-> 0]
<1>1. AddressOf(to) \in Emails /\ normalizeEmail[AddressOf(to)] = AddressOf(to)
  BY AccountsAssumption DEF AddressOf
<1>2. by \in Nat /\ serial.link \in Nat
  BY TypeFacts DEF Inv
<1>3. c \in Call
  BY <1>1, <1>2 DEF Call, LinkCall, NoId
<1>4. CallFollows(c)
  BY <1>1, <1>2 DEF CallFollows, LinkCallFollows, SessionCallFollows, ResetCallFollows
<1> QED
  BY <1>3, <1>4, CallStep DEF Invite, Start

LEMMA ForgotPasswordKeeps ==
  ASSUME Inv, NEW s \in Slots, NEW typed \in Emails, ForgotPassword(s, typed)
  PROVE  Inv'
<1>1. PICK a \in DOMAIN adms :
        /\ Start(s, [op |-> "link", stage |-> "withdraw", email |-> AddressOf(typed),
                     purpose |-> "password_reset", admId |-> a, invitedBy |-> NoId,
                     since |-> 0])
        /\ UNCHANGED tables
  BY DEF ForgotPassword
<1> DEFINE c == [op |-> "link", stage |-> "withdraw", email |-> AddressOf(typed),
                 purpose |-> "password_reset", admId |-> a, invitedBy |-> NoId,
                 since |-> 0]
<1>2. AddressOf(typed) \in Emails /\ normalizeEmail[AddressOf(typed)] = AddressOf(typed)
  BY AccountsAssumption DEF AddressOf
<1>3. a \in Nat \ {0} /\ serial.link \in Nat
  BY TypeFacts DEF Inv
<1>4. c \in Call
  BY <1>2, <1>3 DEF Call, LinkCall, NoId
<1>5. CallFollows(c)
  BY <1>2, <1>3 DEF CallFollows, LinkCallFollows, SessionCallFollows, ResetCallFollows, NoId
<1> QED
  BY <1>1, <1>4, <1>5, CallStep DEF Start

\* A link is brought nearer its end, and consumed only when it was not spent.
LinkWorsens(l) ==
  \/ links'[l] = links[l]
  \/ links'[l] = [links[l] EXCEPT !.state = "used"]
  \/ /\ links[l].state # "used"
     /\ \/ links'[l] = [links[l] EXCEPT !.state = "expired"]
        \/ links'[l] = [links[l] EXCEPT !.state = "used", !.spent = @ + 1]

\* A statement that does no more than that goes on with a call or leaves it.
LEMMA LinksWorsen ==
  ASSUME Inv, UNCHANGED <<adms, sessions, serial>>,
         links' = [l \in DOMAIN links |-> links'[l]],
         \A l \in DOMAIN links : LinkWorsens(l),
         calls' \in [Slots -> Call],
         \A s \in Slots : calls'[s] = calls[s] \/ CallFollows(calls[s])'
  PROVE  Inv'
<1>1. DOMAIN links' = DOMAIN links
  OBVIOUS
<1>2. \A l \in DOMAIN links :
        /\ links'[l] \in Link
        /\ links'[l].email = links[l].email /\ links'[l].purpose = links[l].purpose
        /\ links'[l].admId = links[l].admId
        /\ links'[l].invitedBy = links[l].invitedBy
        /\ links'[l].since = links[l].since
        /\ links[l].state = "used" => links'[l].state = "used"
        /\ links'[l].spent = 0 \/ (links'[l].spent = 1 /\ links'[l].state = "used")
  <2> SUFFICES ASSUME NEW l \in DOMAIN links
      PROVE  /\ links'[l] \in Link
             /\ links'[l].email = links[l].email /\ links'[l].purpose = links[l].purpose
             /\ links'[l].admId = links[l].admId
             /\ links'[l].invitedBy = links[l].invitedBy
             /\ links'[l].since = links[l].since
             /\ links[l].state = "used" => links'[l].state = "used"
             /\ links'[l].spent = 0 \/ (links'[l].spent = 1 /\ links'[l].state = "used")
    OBVIOUS
  <2>1. links[l] \in Link /\ LinkWorsens(l)
    BY TypeFacts DEF Inv
  <2>2. links[l].spent = 0 \/ (links[l].spent = 1 /\ links[l].state = "used")
    BY DEF Inv, LinksInv, SpentIsUsed
  <2>3. CASE links'[l] = links[l]
    BY <2>1, <2>2, <2>3
  <2>4. CASE links'[l] = [links[l] EXCEPT !.state = "used"]
    BY <2>1, <2>2, <2>4 DEF Link
  <2>5. CASE links[l].state # "used" /\ links'[l] = [links[l] EXCEPT !.state = "expired"]
    BY <2>1, <2>2, <2>5 DEF Link
  <2>6. CASE /\ links[l].state # "used"
             /\ links'[l] = [links[l] EXCEPT !.state = "used", !.spent = @ + 1]
    <3>1. links[l].spent = 0
      BY <2>2, <2>6
    <3>2. PICK one \in Nat : one = 1
      OBVIOUS
    <3>3. links'[l] = [links[l] EXCEPT !.state = "used", !.spent = one]
      BY <2>6, <3>1, <3>2
    <3>4. /\ links'[l] \in Link /\ links'[l].spent = one /\ links'[l].state = "used"
          /\ links'[l].email = links[l].email /\ links'[l].purpose = links[l].purpose
          /\ links'[l].admId = links[l].admId
          /\ links'[l].invitedBy = links[l].invitedBy
          /\ links'[l].since = links[l].since
      BY <2>1, <3>3 DEF Link
    <3> QED
      BY <3>2, <3>4
  <2> QED
    BY <2>1, <2>3, <2>4, <2>5, <2>6 DEF LinkWorsens
<1>3. TypeOK'
  <2>1. IsTable(links', Link, serial.link)
    BY <1>1, <1>2, RewrittenTable, TypeFacts DEF Inv, TypeOK
  <2> QED
    BY <1>1, <1>2, <2>1 DEF Inv, TypeOK
<1>4. RowsGoForward
  <2>1. /\ serial.adm \in Nat /\ serial.link \in Nat /\ serial.session \in Nat
        /\ \A a \in DOMAIN adms : adms[a].senha \in Nat
    BY TypeFacts DEF Inv, Adm, Ids
  <2> QED
    BY <1>1, <1>2, <2>1 DEF RowsGoForward
<1>5. CallsFollow'
  <2> SUFFICES ASSUME NEW s \in Slots, calls'[s] = calls[s]
               PROVE  CallFollows(calls[s])'
    BY DEF CallsFollow
  <2>1. calls[s] \in Call /\ CallFollows(calls[s])
    BY TypeFacts DEF Inv, CallsFollow
  <2> QED
    BY <1>3, <1>4, <2>1, StillFollows
<1>6. LinksInv'
  BY <1>1, <1>2 DEF Inv, LinksInv, SpentIsUsed, OnlyOverlappedLinksCoexist
<1>7. (AdmsOrdered /\ RemovedAdmIsOut /\ SessionsInv)'
  BY <1>1, <1>2 DEF Inv, AdmsOrdered, RemovedAdmIsOut, Names, SessionsInv, ParentsOlder,
     RenewedIsRevoked, ResetEndsSessions
<1> QED
  BY <1>3, <1>5, <1>6, <1>7 DEF Inv

LEMMA ExpireLinkKeeps ==
  ASSUME Inv, NEW l \in DOMAIN links, ExpireLink(l)
  PROVE  Inv'
<1>1. /\ links' = [i \in DOMAIN links |-> links'[i]]
      /\ \A i \in DOMAIN links : LinkWorsens(i)
      /\ UNCHANGED <<adms, sessions, serial, calls>>
  BY DEF ExpireLink, LinkWorsens, Inv, TypeOK, IsTable
<1>2. calls' \in [Slots -> Call]
  BY <1>1 DEF Inv, TypeOK
<1> QED
  BY <1>1, <1>2, LinksWorsen

\* The withdrawal leaves no working link of its kind, so the one to be stored
\* may count every id given so far as older.
LEMMA InvalidatePendingKeeps ==
  ASSUME Inv, NEW s \in Slots, InvalidatePending(s)
  PROVE  Inv'
<1> DEFINE c == calls[s]
           next == [c EXCEPT !.stage = "create", !.since = serial.link]
<1>1. c \in LinkCall /\ CallFollows(c) /\ serial.link \in Nat
  BY CallShape, TypeFacts DEF InvalidatePending, At, Inv, CallsFollow
<1>2. next \in LinkCall
  BY <1>1 DEF LinkCall
<1>3. calls' = [calls EXCEPT ![s] = next]
  BY DEF InvalidatePending, Inv, TypeOK
<1>4. /\ calls' \in [Slots -> Call] /\ calls'[s] = next
      /\ \A r \in Slots : r # s => calls'[r] = calls[r]
  BY <1>2, <1>3 DEF Inv, TypeOK, Call
<1>5. /\ calls'[s].op = "link" /\ calls'[s].email = c.email
      /\ calls'[s].purpose = c.purpose /\ calls'[s].admId = c.admId
      /\ calls'[s].since = serial.link
  BY <1>1, <1>4 DEF LinkCall
<1>6. /\ links' = [l \in DOMAIN links |-> links'[l]]
      /\ DOMAIN links' = DOMAIN links
      /\ \A l \in DOMAIN links :
           links'[l] = IF /\ links[l].email = c.email /\ links[l].purpose = c.purpose
                          /\ links[l].state # "used"
                         THEN [links[l] EXCEPT !.state = "used"] ELSE links[l]
      /\ UNCHANGED <<adms, sessions, serial>>
  BY DEF InvalidatePending, Pending
<1>7. \A l \in DOMAIN links :
        /\ links'[l].email = links[l].email /\ links'[l].purpose = links[l].purpose
        /\ links[l].email = c.email /\ links[l].purpose = c.purpose =>
             links'[l].state = "used"
  <2>1. \A l \in DOMAIN links : links[l] \in Link
    BY TypeFacts DEF Inv
  <2> QED
    BY <1>6, <2>1 DEF Link
<1>8. CallFollows(calls[s])'
  <2>1. /\ normalizeEmail[c.email] = c.email
        /\ (c.purpose = "password_reset") = (c.admId # NoId)
    BY <1>1 DEF InvalidatePending, At, CallFollows, LinkCallFollows
  <2> HIDE DEF c, next
  <2> QED
    BY <1>1, <1>5, <1>6, <1>7, <2>1 DEF CallFollows, LinkCallFollows, SessionCallFollows,
       ResetCallFollows
<1>9. \A l \in DOMAIN links : LinkWorsens(l)
  BY <1>6 DEF LinkWorsens
<1> HIDE DEF c, next
<1> QED
  BY <1>4, <1>6, <1>8, <1>9, LinksWorsen

LEMMA LinkRefusedKeeps ==
  ASSUME Inv, NEW s \in Slots, LinkRefused(s)
  PROVE  Inv'
  BY CloseStep DEF LinkRefused

\* The link stored is the youngest; of its kind, those that work are younger
\* than its withdrawal.
LEMMA CreateLinkKeeps ==
  ASSUME Inv, NEW s \in Slots, CreateLink(s)
  PROVE  Inv'
<1> DEFINE c == calls[s]
<1>1. /\ c \in LinkCall /\ CallFollows(c) /\ c.op = "link" /\ c.stage = "create"
      /\ Names(c)
  BY CallShape, TypeFacts DEF CreateLink, At, Inv, CallsFollow
<1>2. PICK n \in Nat : n = serial.link
  BY TypeFacts DEF Inv
<1>3. PICK row \in Link :
        row = [email |-> c.email, purpose |-> c.purpose, admId |-> c.admId,
               invitedBy |-> c.invitedBy, state |-> "pending", spent |-> 0,
               since |-> c.since]
  BY <1>1 DEF LinkCall, Link
<1>4. /\ links' = Insert(links, n + 1, row)
      /\ serial' = [serial EXCEPT !.link = n + 1]
      /\ calls' = [calls EXCEPT ![s] = Idle]
      /\ UNCHANGED <<adms, sessions>>
  BY <1>2, <1>3 DEF CreateLink, Next1, Close
<1>5. /\ normalizeEmail[row.email] = row.email
      /\ (row.purpose = "password_reset") = (row.admId # NoId)
      /\ row.since <= n /\ row.spent = 0
      /\ {row.admId, row.invitedBy} \subseteq DOMAIN adms \cup {NoId}
      /\ \A l \in DOMAIN links :
           /\ links[l].email = row.email /\ links[l].purpose = row.purpose
           /\ links[l].state # "used"
           => ~(l <= row.since)
  BY <1>1, <1>2, <1>3 DEF CallFollows, LinkCallFollows, Names
<1> HIDE DEF c
<1>6. /\ IsTable(links', Link, n + 1)
      /\ DOMAIN links' = DOMAIN links \cup {n + 1}
      /\ links'[n + 1] = row
      /\ \A l \in DOMAIN links : l # n + 1 /\ l \in 1..n /\ links'[l] = links[l]
  <2>1. IsTable(links, Link, n)
    BY <1>2 DEF Inv, TypeOK
  <2>2. n \in Nat /\ row \in Link /\ links' = Insert(links, n + 1, row)
    BY <1>2, <1>3, <1>4
  <2> QED
    BY <2>1, <2>2 DEF Insert, IsTable
<1>7. /\ serial' \in [Tables -> Nat] /\ serial'.link = n + 1
      /\ serial'.adm = serial.adm /\ serial'.session = serial.session
      /\ serial'.senha = serial.senha
  BY <1>2, <1>4 DEF Inv, TypeOK, Tables
<1>8. /\ calls' \in [Slots -> Call]
      /\ \A r \in Slots : calls'[r] = calls[r] \/ calls'[r] = Idle
  BY <1>4, IdleFollows DEF Inv, TypeOK
<1>9. TypeOK'
  BY <1>4, <1>5, <1>6, <1>7, <1>8 DEF Inv, TypeOK
<1>10. RowsGoForward
  <2>1. /\ serial.adm \in Nat /\ serial.session \in Nat
        /\ \A a \in DOMAIN adms : adms[a].senha \in Nat
    BY TypeFacts DEF Inv, Adm, Ids
  <2> QED
    BY <1>2, <1>4, <1>6, <1>7, <2>1 DEF RowsGoForward
<1>11. CallsFollow'
  <2> SUFFICES ASSUME NEW r \in Slots, calls'[r] = calls[r]
               PROVE  CallFollows(calls[r])'
    BY <1>8, IdleStays DEF CallsFollow
  <2>1. calls[r] \in Call /\ CallFollows(calls[r])
    BY TypeFacts DEF Inv, CallsFollow
  <2> QED
    BY <1>4, <1>9, <1>10, <2>1, StillFollows
<1>12. SpentIsUsed'
  <2> SUFFICES ASSUME NEW l \in DOMAIN links'
               PROVE  links'[l].spent = 0 \/ (links'[l].spent = 1 /\ links'[l].state = "used")
    BY DEF SpentIsUsed
  <2>1. CASE l = n + 1
    <3>1. links'[l] = row /\ row.spent = 0
      BY <1>5, <1>6, <2>1
    <3> QED
      BY <3>1
  <2>2. CASE l \in DOMAIN links
    BY <1>6, <2>2 DEF Inv, LinksInv, SpentIsUsed
  <2> QED
    BY <1>6, <2>1, <2>2
<1>13. OnlyOverlappedLinksCoexist'
  <2> SUFFICES ASSUME NEW old \in DOMAIN links', NEW young \in DOMAIN links',
                      old < young,
                      links'[old].email = links'[young].email,
                      links'[old].purpose = links'[young].purpose,
                      links'[old].state # "used", links'[young].state # "used"
               PROVE  old > links'[young].since
    BY DEF OnlyOverlappedLinksCoexist
  <2>1. old \in DOMAIN links
    BY <1>2, <1>6
  <2>2. CASE young = n + 1
    <3>1. ~(old <= row.since) /\ old \in Nat /\ row.since \in Nat
      BY <1>3, <1>5, <1>6, <2>1, <2>2 DEF Link
    <3> QED
      BY <1>6, <2>2, <3>1
  <2>3. CASE young \in DOMAIN links
    BY <1>6, <2>1, <2>3 DEF Inv, LinksInv, OnlyOverlappedLinksCoexist
  <2> QED
    BY <1>6, <2>2, <2>3
<1>14. RemovedAdmIsOut'
  BY <1>4, <1>5, <1>6 DEF Inv, RemovedAdmIsOut, Names
<1>15. (AdmsOrdered /\ SessionsInv)'
  BY <1>4, <1>7 DEF Inv, AdmsOrdered, SessionsInv, ParentsOlder, RenewedIsRevoked,
     ResetEndsSessions
<1> QED
  BY <1>9, <1>11, <1>12, <1>13, <1>14, <1>15 DEF Inv, LinksInv

-----------------------------------------------------------------------------
(* Use of a link.                                                          *)

LEMMA AcceptInviteKeeps ==
  ASSUME Inv, NEW s \in Slots, NEW l \in DOMAIN links, AcceptInvite(s, l)
  PROVE  Inv'
<1> DEFINE c == [op |-> "accept", stage |-> "read", link |-> l, email |-> links[l].email]
<1>1. links[l] \in Link /\ l \in Ids
  BY TypeFacts DEF Inv, Ids
<1>2. c \in Call
  BY <1>1 DEF Link, Call, AcceptCall
<1>3. CallFollows(c)
  BY DEF CallFollows, LinkCallFollows, SessionCallFollows, ResetCallFollows
<1> QED
  BY <1>2, <1>3, CallStep DEF AcceptInvite, Start

LEMMA ConsumeReadKeeps ==
  ASSUME Inv, NEW s \in Slots, ConsumeRead(s)
  PROVE  Inv'
<1> DEFINE c == [calls[s] EXCEPT !.stage = "spend"]
<1>1. calls[s] \in AcceptCall
  BY CallShape, TypeFacts DEF ConsumeRead, At, Inv
<1>2. c \in AcceptCall /\ c.op = "accept"
  BY <1>1 DEF AcceptCall
<1>3. calls' = [calls EXCEPT ![s] = c] /\ UNCHANGED tables
  BY DEF ConsumeRead, Goto, Inv, TypeOK
<1> HIDE DEF c
<1>4. c \in Call /\ CallFollows(c)
  BY <1>2 DEF Call, CallFollows, LinkCallFollows, SessionCallFollows, ResetCallFollows
<1> QED
  BY <1>3, <1>4, CallStep

\* The account a reset is for was stored before its link.
LEMMA ResetPasswordKeeps ==
  ASSUME Inv, NEW s \in Slots, NEW l \in DOMAIN links, ResetPassword(s, l)
  PROVE  Inv'
<1> DEFINE c == [op |-> "reset", stage |-> "spend", link |-> l,
                 admId |-> links[l].admId, senha |-> 0]
<1>1. links[l] \in Link /\ l \in Ids
  BY TypeFacts DEF Inv, Ids
<1>2. c.admId \in DOMAIN adms
  BY DEF ResetPassword, Usable, Inv, TypeOK, RemovedAdmIsOut, Names
<1>3. c.admId \in Ids /\ c.admId <= serial.adm
  BY <1>2, TypeFacts DEF Inv, Ids
<1>4. c \in Call
  BY <1>1, <1>3 DEF Call, ResetCall
<1>5. CallFollows(c)
  BY <1>3 DEF CallFollows, LinkCallFollows, SessionCallFollows, ResetCallFollows
<1> QED
  BY <1>4, <1>5, CallStep DEF ResetPassword, Start

\* The one UPDATE that tells the first of several consumers from the others.
LEMMA ConsumeWriteKeeps ==
  ASSUME Inv, NEW s \in Slots, ConsumeWrite(s)
  PROVE  Inv'
<1> DEFINE c == calls[s]
           next == [c EXCEPT !.stage = IF c.op = "accept" THEN "create" ELSE "senha"]
<1>1. CallFollows(c) /\ c \in AcceptCall \cup ResetCall
  BY CallShape, TypeFacts DEF ConsumeWrite, At, Inv, CallsFollow
<1>2. /\ next \in Call /\ next.op = c.op /\ next.stage # "sweep"
      /\ next.op \in {"accept", "reset"}
      /\ c.op = "reset" => next.admId = c.admId
  <2>1. CASE c \in AcceptCall
    <3>1. c.op = "accept" /\ next \in AcceptCall /\ next.stage = "create"
          /\ next.op = "accept"
      BY <2>1 DEF AcceptCall
    <3> QED
      BY <3>1 DEF Call
  <2>2. CASE c \in ResetCall
    <3>1. c.op = "reset" /\ next \in ResetCall /\ next.stage = "senha"
          /\ next.op = "reset" /\ next.admId = c.admId
      BY <2>2 DEF ResetCall
    <3> QED
      BY <3>1 DEF Call
  <2> QED
    BY <1>1, <2>1, <2>2
<1>3. calls' = [calls EXCEPT ![s] = next]
  BY DEF ConsumeWrite, Goto, Inv, TypeOK
<1>4. /\ calls' \in [Slots -> Call] /\ calls'[s] = next
      /\ \A r \in Slots : r # s => calls'[r] = calls[r]
  BY <1>2, <1>3 DEF Inv, TypeOK
<1>5. /\ links' = [l \in DOMAIN links |-> links'[l]]
      /\ UNCHANGED <<adms, sessions, serial>>
      /\ \A l \in DOMAIN links :
           \/ links'[l] = links[l]
           \/ /\ links[l].state # "used"
              /\ links'[l] = [links[l] EXCEPT !.state = "used", !.spent = @ + 1]
  BY DEF ConsumeWrite, Unspent, Inv, TypeOK, IsTable
<1>6. \A l \in DOMAIN links : LinkWorsens(l)
  BY <1>5 DEF LinkWorsens
<1>7. CallFollows(calls[s])'
  <2>1. c.op = "reset" => c.admId <= serial.adm
    BY <1>1 DEF CallFollows, ResetCallFollows
  <2> HIDE DEF c, next
  <2> QED
    BY <1>2, <1>4, <1>5, <2>1 DEF CallFollows, LinkCallFollows, SessionCallFollows,
       ResetCallFollows
<1> HIDE DEF c, next
<1> QED
  BY <1>4, <1>5, <1>6, <1>7, LinksWorsen

LEMMA LinkUseRefusedKeeps ==
  ASSUME Inv, NEW s \in Slots, LinkUseRefused(s)
  PROVE  Inv'
  BY CloseStep DEF LinkUseRefused

-----------------------------------------------------------------------------
(* Accounts.                                                               *)

LEMMA CreateAdmKeeps ==
  ASSUME Inv, NEW s \in Slots, CreateAdm(s)
  PROVE  Inv'
<1>1. PICK n \in Nat, w \in Nat : n = serial.adm /\ w = serial.senha
  BY TypeFacts DEF Inv
<1>2. calls[s] \in AcceptCall
  BY CallShape, TypeFacts DEF CreateAdm, At, Inv
<1>3. PICK row \in Adm :
        /\ row = [email |-> calls[s].email, senha |-> w + 1, reset |-> 0]
        /\ row.senha = w + 1 /\ row.reset = 0
  <2>1. w + 1 \in Ids /\ calls[s].email \in Emails
    BY <1>1, <1>2 DEF AcceptCall, Ids
  <2>2. [email |-> calls[s].email, senha |-> w + 1, reset |-> 0] \in Adm
    BY <2>1 DEF Adm
  <2> QED
    BY <2>2
<1>4. /\ adms' = Insert(adms, n + 1, row)
      /\ serial' = [serial EXCEPT !.adm = n + 1, !.senha = w + 1]
      /\ calls' = [calls EXCEPT ![s] = Idle]
      /\ UNCHANGED <<links, sessions>>
  BY <1>1, <1>3 DEF CreateAdm, Next1, Close
<1>5. /\ IsTable(adms', Adm, n + 1)
      /\ DOMAIN adms' = DOMAIN adms \cup {n + 1}
      /\ adms'[n + 1] = row
      /\ \A a \in DOMAIN adms : a # n + 1 /\ a \in 1..n /\ adms'[a] = adms[a]
  <2>1. IsTable(adms, Adm, n)
    BY <1>1 DEF Inv, TypeOK
  <2>2. n \in Nat /\ row \in Adm /\ adms' = Insert(adms, n + 1, row)
    BY <1>1, <1>3, <1>4
  <2> QED
    BY <2>1, <2>2 DEF Insert, IsTable
<1>6. /\ serial' \in [Tables -> Nat] /\ serial'.adm = n + 1 /\ serial'.senha = w + 1
      /\ serial'.link = serial.link /\ serial'.session = serial.session
  <2>1. serial \in [Tables -> Nat] /\ n + 1 \in Nat /\ w + 1 \in Nat
    BY <1>1 DEF Inv, TypeOK
  <2>2. serial' = [serial EXCEPT !.adm = n + 1, !.senha = w + 1]
    BY <1>4
  <2> QED
    BY <2>1, <2>2 DEF Tables
<1>7. /\ calls' \in [Slots -> Call]
      /\ \A r \in Slots : calls'[r] = calls[r] \/ calls'[r] = Idle
  BY <1>4, IdleFollows DEF Inv, TypeOK
<1>8. TypeOK'
  BY <1>4, <1>5, <1>6, <1>7 DEF Inv, TypeOK
<1>9. RowsGoForward
  <2>1. /\ serial.link \in Nat /\ serial.session \in Nat
        /\ \A a \in DOMAIN adms : adms[a].senha \in Nat
    BY TypeFacts DEF Inv, Adm, Ids
  <2> QED
    BY <1>1, <1>4, <1>5, <1>6, <2>1 DEF RowsGoForward
<1>10. CallsFollow'
  <2> SUFFICES ASSUME NEW r \in Slots, calls'[r] = calls[r]
               PROVE  CallFollows(calls[r])'
    BY <1>7, IdleStays DEF CallsFollow
  <2>1. calls[r] \in Call /\ CallFollows(calls[r])
    BY TypeFacts DEF Inv, CallsFollow
  <2>2. calls[r].admId \in DOMAIN adms' =>
          \/ adms'[calls[r].admId].reset = 0
          \/ /\ calls[r].admId \in DOMAIN adms
             /\ adms'[calls[r].admId].reset = adms[calls[r].admId].reset
    BY <1>3, <1>5
  <2> QED
    BY <1>8, <1>9, <2>1, <2>2, StillFollows
<1>11. AdmsOrdered'
  <2>1. \A a \in DOMAIN adms :
          /\ adms[a].reset <= adms[a].senha /\ adms[a].senha <= w
          /\ adms[a].senha \in Nat
    BY <1>1, TypeFacts DEF Inv, AdmsOrdered, Adm, Ids
  <2> QED
    BY <1>1, <1>3, <1>5, <1>6, <2>1 DEF AdmsOrdered
<1>12. SessionsInv'
  <2>1. \A t \in DOMAIN sessions : sessions[t].admId \in DOMAIN adms
    BY DEF Inv, RemovedAdmIsOut
  <2> QED
    BY <1>4, <1>5, <1>6, <2>1 DEF Inv, SessionsInv, ParentsOlder, RenewedIsRevoked,
       ResetEndsSessions
<1>13. (RemovedAdmIsOut /\ LinksInv)'
  BY <1>4, <1>5 DEF Inv, RemovedAdmIsOut, Names, LinksInv, SpentIsUsed,
     OnlyOverlappedLinksCoexist
<1> QED
  BY <1>8, <1>10, <1>11, <1>12, <1>13 DEF Inv

\* A statement that leaves the accounts their resets and gives none an older
\* password, as a call goes on or ends.
LEMMA AdmsMove ==
  ASSUME Inv, UNCHANGED <<links, sessions>>,
         NEW w \in Nat, serial' = [serial EXCEPT !.senha = w], serial.senha <= w,
         adms' = [a \in DOMAIN adms |-> adms'[a]],
         \A a \in DOMAIN adms :
           /\ adms'[a] \in Adm /\ adms'[a].reset = adms[a].reset
           /\ adms[a].senha <= adms'[a].senha /\ adms'[a].senha <= w,
         calls' \in [Slots -> Call],
         \A s \in Slots : calls'[s] = calls[s] \/ CallFollows(calls[s])'
  PROVE  Inv'
<1>1. DOMAIN adms' = DOMAIN adms
  OBVIOUS
<1>2. /\ serial' \in [Tables -> Nat] /\ serial'.senha = w
      /\ serial'.adm = serial.adm /\ serial'.link = serial.link
      /\ serial'.session = serial.session
  BY DEF Inv, TypeOK, Tables
<1>3. TypeOK'
  <2>1. IsTable(adms', Adm, serial.adm)
    BY <1>1, RewrittenTable, TypeFacts DEF Inv, TypeOK
  <2> QED
    BY <1>2, <2>1 DEF Inv, TypeOK
<1>4. RowsGoForward
  <2>1. serial.adm \in Nat /\ serial.link \in Nat /\ serial.session \in Nat
    BY TypeFacts DEF Inv
  <2> QED
    BY <1>1, <1>2, <2>1 DEF RowsGoForward
<1>5. CallsFollow'
  <2> SUFFICES ASSUME NEW s \in Slots, calls'[s] = calls[s]
               PROVE  CallFollows(calls[s])'
    BY DEF CallsFollow
  <2>1. calls[s] \in Call /\ CallFollows(calls[s])
    BY TypeFacts DEF Inv, CallsFollow
  <2> QED
    BY <1>1, <1>3, <1>4, <2>1, StillFollows
<1>6. AdmsOrdered'
  <2>1. \A a \in DOMAIN adms :
          /\ adms[a].reset \in Nat /\ adms[a].senha \in Nat
          /\ adms[a].reset <= adms[a].senha
    BY TypeFacts DEF Inv, AdmsOrdered, Adm, Ids
  <2>2. \A a \in DOMAIN adms : adms'[a].senha \in Nat
    BY DEF Adm, Ids
  <2> QED
    BY <1>1, <1>2, <2>1, <2>2 DEF AdmsOrdered
<1>7. SessionsInv'
  BY <1>1, <1>2 DEF Inv, SessionsInv, ParentsOlder, RenewedIsRevoked, ResetEndsSessions
<1>8. (RemovedAdmIsOut /\ LinksInv)'
  BY <1>1 DEF Inv, RemovedAdmIsOut, Names, LinksInv, SpentIsUsed, OnlyOverlappedLinksCoexist
<1> QED
  BY <1>3, <1>5, <1>6, <1>7, <1>8 DEF Inv

LEMMA SetPasswordKeeps ==
  ASSUME Inv, NEW s \in Slots, SetPassword(s)
  PROVE  Inv'
<1> DEFINE c == calls[s]
<1>1. PICK w \in Nat : w = serial.senha
  BY TypeFacts DEF Inv
<1>2. c \in ResetCall /\ CallFollows(c) /\ c.op = "reset"
  BY CallShape, TypeFacts DEF SetPassword, At, Inv, CallsFollow
<1>3. PICK next \in ResetCall :
        /\ next = [c EXCEPT !.stage = "sweep", !.senha = w + 1]
        /\ next.op = "reset" /\ next.admId = c.admId /\ next.senha = w + 1
  <2>1. [c EXCEPT !.stage = "sweep", !.senha = w + 1] \in ResetCall
    <3>1. w + 1 \in Nat
      BY <1>1
    <3> HIDE DEF c
    <3> QED
      BY <1>2, <3>1 DEF ResetCall
  <2>2. /\ [c EXCEPT !.stage = "sweep", !.senha = w + 1].op = "reset"
        /\ [c EXCEPT !.stage = "sweep", !.senha = w + 1].admId = c.admId
        /\ [c EXCEPT !.stage = "sweep", !.senha = w + 1].senha = w + 1
    BY <1>2 DEF ResetCall
  <2> QED
    BY <2>1, <2>2
<1>4. /\ calls' = [calls EXCEPT ![s] = next]
      /\ serial' = [serial EXCEPT !.senha = w + 1]
      /\ UNCHANGED <<links, sessions>>
  BY <1>1, <1>3 DEF SetPassword, Next1, Inv, TypeOK
<1>5. /\ calls' \in [Slots -> Call] /\ calls'[s] = next
      /\ \A r \in Slots : r # s => calls'[r] = calls[r]
  BY <1>3, <1>4 DEF Inv, TypeOK, Call
<1>6. /\ adms' = [a \in DOMAIN adms |-> adms'[a]]
      /\ \A a \in DOMAIN adms :
           adms'[a] = IF a = c.admId THEN [adms[a] EXCEPT !.senha = w + 1] ELSE adms[a]
  BY <1>1 DEF SetPassword, Next1, Inv, TypeOK, IsTable
<1>7. \A a \in DOMAIN adms :
        /\ adms'[a] \in Adm /\ adms'[a].reset = adms[a].reset
        /\ adms[a].senha <= adms'[a].senha /\ adms'[a].senha <= w + 1
        /\ a = c.admId => adms'[a].senha = w + 1
  <2> SUFFICES ASSUME NEW a \in DOMAIN adms
               PROVE  /\ adms'[a] \in Adm /\ adms'[a].reset = adms[a].reset
                      /\ adms[a].senha <= adms'[a].senha /\ adms'[a].senha <= w + 1
                      /\ a = c.admId => adms'[a].senha = w + 1
    OBVIOUS
  <2>1. adms[a] \in Adm /\ adms[a].senha <= w
    BY <1>1, TypeFacts DEF Inv, AdmsOrdered
  <2> QED
    BY <1>1, <1>6, <2>1 DEF Adm, Ids
<1>8. CallFollows(calls[s])'
  <2>1. c.admId <= serial'.adm
    BY <1>2, <1>4 DEF CallFollows, ResetCallFollows, Inv, TypeOK, Tables
  <2>2. c.admId \in DOMAIN adms' => w + 1 <= adms'[c.admId].senha
    BY <1>1, <1>6, <1>7
  <2> HIDE DEF c
  <2> QED
    BY <1>3, <1>5, <2>1, <2>2 DEF CallFollows, LinkCallFollows, SessionCallFollows,
       ResetCallFollows
<1> HIDE DEF c
<1>9. w + 1 \in Nat /\ serial.senha <= w + 1
  BY <1>1
<1> QED
  BY <1>4, <1>5, <1>6, <1>7, <1>8, <1>9, AdmsMove

LEMMA FindEmailKeeps ==
  ASSUME Inv, NEW s \in Slots, NEW a \in DOMAIN adms, NEW dto \in UpdateInputs,
         FindEmail(s, a, dto)
  PROVE  Inv'
<1> DEFINE c == [op |-> "update", admId |-> a, email |-> dto.email, senha |-> dto.senha]
<1>1. dto \in [email : Emails \cup {NoEmail}, senha : BOOLEAN] /\ a \in Ids
  BY AccountsAssumption, TypeFacts DEF Inv, Ids
<1>2. c \in Call
  BY <1>1 DEF Call, UpdateCall
<1>3. CallFollows(c)
  BY DEF CallFollows, LinkCallFollows, SessionCallFollows, ResetCallFollows
<1> QED
  BY <1>2, <1>3, CallStep DEF FindEmail, Start

LEMMA UpdateAdmKeeps ==
  ASSUME Inv, NEW s \in Slots, UpdateAdm(s)
  PROVE  Inv'
<1>1. PICK w \in Nat : w = serial.senha
  BY TypeFacts DEF Inv
<1>2. calls[s] \in UpdateCall
  BY CallShape, TypeFacts DEF UpdateAdm, Inv
<1>3. PICK id \in Ids, email \in Emails \cup {NoEmail}, senha \in BOOLEAN :
        id = calls[s].admId /\ email = calls[s].email /\ senha = calls[s].senha
  BY <1>2 DEF UpdateCall
<1>4. PICK v \in Nat : v = IF senha THEN w + 1 ELSE w
  BY <1>1
<1>5. /\ serial' = [serial EXCEPT !.senha = v]
      /\ calls' = [calls EXCEPT ![s] = Idle] /\ UNCHANGED <<links, sessions>>
  BY <1>1, <1>3, <1>4 DEF UpdateAdm, Close, Inv, TypeOK
<1>6. /\ adms' = [a \in DOMAIN adms |-> adms'[a]]
      /\ \A a \in DOMAIN adms :
           adms'[a] = IF a = id
                        THEN [adms[a] EXCEPT
                                !.email = IF email = NoEmail THEN @ ELSE email,
                                !.senha = IF senha THEN w + 1 ELSE @]
                        ELSE adms[a]
  BY <1>1, <1>3 DEF UpdateAdm, Next1, Inv, TypeOK, IsTable
<1>7. \A a \in DOMAIN adms :
        /\ adms'[a] \in Adm /\ adms'[a].reset = adms[a].reset
        /\ adms[a].senha <= adms'[a].senha /\ adms'[a].senha <= v
  <2> SUFFICES ASSUME NEW a \in DOMAIN adms
               PROVE  /\ adms'[a] \in Adm /\ adms'[a].reset = adms[a].reset
                      /\ adms[a].senha <= adms'[a].senha /\ adms'[a].senha <= v
    OBVIOUS
  <2>1. adms[a] \in Adm /\ adms[a].senha <= w
    BY <1>1, TypeFacts DEF Inv, AdmsOrdered
  <2>2. PICK to \in Emails : to = IF email = NoEmail THEN adms[a].email ELSE email
    BY <1>3, <2>1 DEF Adm
  <2>3. PICK new \in Ids : new = IF senha THEN w + 1 ELSE adms[a].senha
    BY <1>1, <2>1 DEF Adm, Ids
  <2>4. CASE a = id
    <3>1. adms'[a] = [adms[a] EXCEPT !.email = to, !.senha = new]
      BY <1>6, <2>1, <2>2, <2>3, <2>4 DEF Adm
    <3>2. /\ adms'[a] \in Adm /\ adms'[a].reset = adms[a].reset
          /\ adms'[a].senha = new
      BY <2>1, <3>1 DEF Adm
    <3>3. adms[a].senha <= new /\ new <= v
      BY <1>1, <1>4, <2>1, <2>3 DEF Adm, Ids
    <3> QED
      BY <3>2, <3>3
  <2>5. CASE a # id
    <3>1. adms'[a] = adms[a]
      BY <1>6, <2>5
    <3>2. adms[a].senha \in Nat
      BY <2>1 DEF Adm, Ids
    <3>3. adms[a].senha <= v
      BY <1>1, <1>4, <2>1, <3>2
    <3> QED
      BY <2>1, <3>1, <3>2, <3>3
  <2> QED
    BY <2>4, <2>5
<1>8. /\ calls' \in [Slots -> Call]
      /\ \A r \in Slots : calls'[r] = calls[r] \/ CallFollows(calls[r])'
  BY <1>5, IdleFollows, IdleStays DEF Inv, TypeOK
<1>9. v \in Nat /\ serial.senha <= v
  BY <1>1, <1>4
<1> QED
  BY <1>5, <1>6, <1>7, <1>8, <1>9, AdmsMove

LEMMA UpdateRefusedKeeps ==
  ASSUME Inv, NEW s \in Slots, UpdateRefused(s)
  PROVE  Inv'
  BY CloseStep DEF UpdateRefused

\* The cascades leave no session and no link of the account; the calls that
\* still name it trust nothing about it.
LEMMA RemoveAdmKeeps ==
  ASSUME Inv, NEW a \in DOMAIN adms, RemoveAdm(a)
  PROVE  Inv'
<1>1. /\ DOMAIN adms' = DOMAIN adms \ {a}
      /\ adms' = [i \in DOMAIN adms' |-> adms'[i]]
      /\ \A i \in DOMAIN adms' : adms'[i] = adms[i]
  BY DEF RemoveAdm, Restrict
<1>2. /\ DOMAIN links' = DOMAIN links \ LinksNaming(a)
      /\ links' = [l \in DOMAIN links' |-> links'[l]]
      /\ \A l \in DOMAIN links' : links'[l] = links[l]
  BY DEF RemoveAdm, Restrict
<1>3. /\ DOMAIN sessions' = DOMAIN sessions \ SessionsOf(a)
      /\ sessions' = [t \in DOMAIN sessions' |-> sessions'[t]]
      /\ \A t \in DOMAIN sessions' : sessions'[t] = sessions[t]
  BY DEF RemoveAdm, Restrict
<1>4. UNCHANGED <<serial, calls>>
  BY DEF RemoveAdm
<1>5. TypeOK'
  <2>1. IsTable(adms', Adm, serial.adm)
    BY <1>1, RewrittenTable, TypeFacts DEF Inv, TypeOK
  <2>2. IsTable(links', Link, serial.link)
    BY <1>2, RewrittenTable, TypeFacts DEF Inv, TypeOK
  <2>3. IsTable(sessions', Session, serial.session)
    BY <1>3, RewrittenTable, TypeFacts DEF Inv, TypeOK
  <2> QED
    BY <1>2, <1>4, <2>1, <2>2, <2>3 DEF Inv, TypeOK
<1>6. RowsGoForward
  <2>1. /\ serial.adm \in Nat /\ serial.link \in Nat /\ serial.session \in Nat
        /\ \A i \in DOMAIN adms : adms[i].senha \in Nat
    BY TypeFacts DEF Inv, Adm, Ids
  <2> QED
    BY <1>1, <1>2, <1>3, <1>4, <2>1 DEF RowsGoForward
<1>7. CallsFollow'
  <2> SUFFICES ASSUME NEW r \in Slots PROVE CallFollows(calls[r])'
    BY DEF CallsFollow
  <2>1. calls[r] \in Call /\ CallFollows(calls[r])
    BY TypeFacts DEF Inv, CallsFollow
  <2> QED
    BY <1>1, <1>4, <1>5, <1>6, <2>1, StillFollows
<1>8. AdmsOrdered'
  BY <1>1, <1>4 DEF Inv, AdmsOrdered
<1>9. RemovedAdmIsOut'
  <2>1. \A t \in DOMAIN sessions' : sessions'[t].admId \in DOMAIN adms'
    BY <1>1, <1>3 DEF Inv, RemovedAdmIsOut, SessionsOf
  <2>2. \A l \in DOMAIN links' :
          {links'[l].admId, links'[l].invitedBy} \subseteq DOMAIN adms' \cup {NoId}
    BY <1>1, <1>2 DEF Inv, RemovedAdmIsOut, Names, LinksNaming
  <2> QED
    BY <2>1, <2>2 DEF RemovedAdmIsOut, Names
<1>10. LinksInv'
  BY <1>2 DEF Inv, LinksInv, SpentIsUsed, OnlyOverlappedLinksCoexist
<1>11. SessionsInv'
  BY <1>1, <1>3, <1>4 DEF Inv, SessionsInv, ParentsOlder, RenewedIsRevoked,
     ResetEndsSessions
<1> QED
  BY <1>5, <1>7, <1>8, <1>9, <1>10, <1>11 DEF Inv

LEMMA CrashKeeps ==
  ASSUME Inv, NEW s \in Slots, Crash(s)
  PROVE  Inv'
  BY CloseStep DEF Crash

-----------------------------------------------------------------------------
(* The theorems.                                                           *)

LEMMA InitInv == Init => Inv
<1> SUFFICES ASSUME Init PROVE Inv
  OBVIOUS
<1>1. /\ DOMAIN adms = {1} /\ adms[1].senha = 1 /\ adms[1].reset = 0
      /\ serial \in [Tables -> Nat]
      /\ serial.adm = 1 /\ serial.link = 0 /\ serial.session = 0 /\ serial.senha = 1
      /\ DOMAIN links = {} /\ DOMAIN sessions = {}
  BY DEF Init, Tables
<1>2. IsTable(adms, Adm, 1)
  <2>1. 1 \in Ids /\ 0 \in Nat
    BY DEF Ids
  <2>2. [email |-> FirstEmail, senha |-> 1, reset |-> 0] \in Adm
    BY <2>1, AccountsAssumption DEF Adm
  <2> QED
    BY <2>2 DEF Init, IsTable
<1>3. IsTable(links, Link, 0) /\ IsTable(sessions, Session, 0)
  BY DEF Init, IsTable
<1>4. \A s \in Slots : calls[s] = Idle
  BY DEF Init
<1>5. calls \in [Slots -> Call]
  BY IdleFollows DEF Init
<1>6. CallsFollow
  BY <1>4, IdleFollows DEF CallsFollow
<1>7. TypeOK
  BY <1>1, <1>2, <1>3, <1>5 DEF TypeOK
<1>8. AdmsOrdered /\ RemovedAdmIsOut /\ LinksInv /\ SessionsInv
  BY <1>1 DEF AdmsOrdered, RemovedAdmIsOut, LinksInv, SpentIsUsed,
     OnlyOverlappedLinksCoexist, SessionsInv, ParentsOlder, RenewedIsRevoked,
     ResetEndsSessions
<1> QED
  BY <1>6, <1>7, <1>8 DEF Inv

LEMMA StepKeeps ==
  ASSUME Inv, NEW s \in Slots, Step(s) \/ Crash(s)
  PROVE  Inv'
  BY RotateKeeps, IssueTokensKeeps, SessionRefusedKeeps, InvalidatePendingKeeps,
     CreateLinkKeeps, LinkRefusedKeeps, ConsumeReadKeeps, ConsumeWriteKeeps,
     CreateAdmKeeps, SetPasswordKeeps, RevokeSessionsKeeps, LinkUseRefusedKeeps,
     UpdateAdmKeeps, UpdateRefusedKeeps, CrashKeeps DEF Step

LEMMA NextKeeps ==
  ASSUME Inv, Next
  PROVE  Inv'
<1>1. CASE AuthNext
  BY <1>1, LoginKeeps, RefreshKeeps, LogoutKeeps, ForgotPasswordKeeps, AcceptInviteKeeps,
     ResetPasswordKeeps DEF AuthNext
<1>2. CASE UsersNext
  BY <1>2, InviteKeeps, FindEmailKeeps, RemoveAdmKeeps DEF UsersNext
<1>3. CASE \E s \in Slots : Step(s) \/ Crash(s)
  BY <1>3, StepKeeps
<1>4. CASE \E l \in DOMAIN links : ExpireLink(l)
  BY <1>4, ExpireLinkKeeps
<1>5. CASE \E t \in DOMAIN sessions : ExpireSession(t)
  BY <1>5, ExpireSessionKeeps
<1> QED
  BY <1>1, <1>2, <1>3, <1>4, <1>5 DEF Next

LEMMA StutterKeeps ==
  ASSUME Inv, UNCHANGED vars
  PROVE  Inv'
  BY DEF vars, tables, Inv, TypeOK, CallsFollow, CallFollows, LinkCallFollows,
     SessionCallFollows, ResetCallFollows, AdmsOrdered, RemovedAdmIsOut, Names, LinksInv,
     SpentIsUsed, OnlyOverlappedLinksCoexist, SessionsInv, ParentsOlder, RenewedIsRevoked,
     ResetEndsSessions

\* The tables and the calls keep to what each call trusts, in every state.
THEOREM Invariance == Spec => []Inv
<1>1. Inv /\ [Next]_vars => Inv'
  BY NextKeeps, StutterKeeps
<1> QED
  BY InitInv, <1>1, PTL DEF Spec

\* Every row and every call has its shape, links their one spelling.
THEOREM TypeCorrect == Spec => []TypeOK
<1>1. Inv => TypeOK
  BY DEF Inv
<1> QED
  BY Invariance, <1>1, PTL

\* No link is consumed by two calls.
THEOREM LinkSpentOnce == Spec => []LinksSpentOnce
<1>1. Inv => LinksSpentOnce
  BY DEF Inv, LinksInv, SpentIsUsed, LinksSpentOnce
<1> QED
  BY Invariance, <1>1, PTL

\* Links of one address and purpose both work only if their requests overlapped.
THEOREM LaterLinkWithdraws == Spec => []OnlyOverlappedLinksCoexist
<1>1. Inv => OnlyOverlappedLinksCoexist
  BY DEF Inv, LinksInv
<1> QED
  BY Invariance, <1>1, PTL

\* A renewed session is revoked.
THEOREM RenewalRevokes == Spec => []RenewedIsRevoked
<1>1. Inv => RenewedIsRevoked
  BY DEF Inv, SessionsInv
<1> QED
  BY Invariance, <1>1, PTL

\* A reset ends the sessions of older passwords, but for the calls it overtook.
THEOREM ResetRevokes == Spec => []ResetEndsSessions
<1>1. Inv => ResetEndsSessions
  BY DEF Inv, SessionsInv
<1> QED
  BY Invariance, <1>1, PTL

\* Nothing of a removed account is left.
THEOREM RemovalIsComplete == Spec => []RemovedAdmIsOut
<1>1. Inv => RemovedAdmIsOut
  BY DEF Inv
<1> QED
  BY Invariance, <1>1, PTL
=============================================================================
