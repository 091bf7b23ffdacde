---------------------------- MODULE AdmAccounts -----------------------------
(***************************************************************************)
(* Accounts of the administrators: auth.service.ts, user.service.ts and    *)
(* adm-email-token.service.ts over the tables adms, adm_email_tokens (the  *)
(* links of invites and resets) and refresh_tokens (the sessions).         *)
(*                                                                         *)
(* Calls interleave at every await, as in EnemSchema: calls[s] is what the *)
(* handler of slot s keeps.  A token is named by its row; ids count up,    *)
(* which a cuid does not, but no code compares them.  A password is the    *)
(* number of the write that stored it: two are never the same.             *)
(*                                                                         *)
(* Fields marked (history) are no columns; no guard reads them.            *)
(***************************************************************************)
EXTENDS Integers, FiniteSets, Functions

CONSTANTS
  Slots, Faulty,    \* calls served at once, those a failure may cut short
  Emails,           \* spellings of addresses
  normalizeEmail,   \* trim().toLowerCase() on them
  FirstEmail,       \* the administrator the seed creates
  UpdateInputs,     \* bodies of PATCH /users/:id
  MaxSerial         \* bound: the last id of each table, the last password

Tables  == {"adm", "link", "session", "senha"}
Ids     == Nat \ {0}
NoId    == 0
NoEmail == ""

ASSUME AccountsAssumption ==
  /\ Faulty \subseteq Slots
  /\ NoEmail \notin Emails /\ FirstEmail \in Emails
  /\ normalizeEmail \in [Emails -> Emails]
  /\ \A e \in Emails : normalizeEmail[normalizeEmail[e]] = normalizeEmail[e]
  /\ UpdateInputs \subseteq [email : Emails \cup {NoEmail}, senha : BOOLEAN]
  /\ MaxSerial \in [Tables -> Ids]

VARIABLES adms, links, sessions, serial, calls

tables == <<adms, links, sessions, serial>>
vars   == <<tables, calls>>

-----------------------------------------------------------------------------
(* Rows and calls.                                                         *)

Adm == [email : Emails, senha : Ids,
        reset : Nat]        \* (history) password of the last finished reset

Link == [email : Emails, purpose : {"invite", "password_reset"},
         admId : Nat, invitedBy : Nat, state : {"pending", "expired", "used"},
         spent : Nat,       \* (history) how many calls consumed it
         since : Nat]       \* (history) last link when older ones were withdrawn

Session == [admId : Ids, state : {"live", "expired", "revoked"},
            senha : Ids,    \* (history) password its login was checked against
            parent : Nat,   \* (history) session it renews
            late : BOOLEAN] \* (history) its call was in flight when a reset ended

IssueCall   == [op : {"issue"}, admId : Ids, senha : Ids, parent : Nat,
                late : BOOLEAN]
RefreshCall == [op : {"refresh"}, admId : Ids, senha : Ids, parent : Ids,
                late : BOOLEAN]
AcceptCall  == [op : {"accept"}, stage : {"read", "spend", "create"},
                link : Ids, email : Emails]
ResetCall   == [op : {"reset"}, stage : {"spend", "senha", "sweep"},
                link : Ids, admId : Ids, senha : Nat]
LinkCall    == [op : {"link"}, stage : {"withdraw", "create"},
                email : Emails, purpose : {"invite", "password_reset"},
                admId : Nat, invitedBy : Nat, since : Nat]
UpdateCall  == [op : {"update"}, admId : Ids, email : Emails \cup {NoEmail},
                senha : BOOLEAN]
Idle == [op |-> "idle"]
Call == {Idle} \cup IssueCall \cup RefreshCall \cup AcceptCall \cup ResetCall
        \cup LinkCall \cup UpdateCall

Start(s, call) == calls[s] = Idle /\ calls' = [calls EXCEPT ![s] = call]
At(s, op, stage) == calls[s].op = op /\ calls[s].stage = stage
Goto(s, stage) == calls' = [calls EXCEPT ![s].stage = stage]
Close(s) == calls' = [calls EXCEPT ![s] = Idle]

Room(t) == serial[t] < MaxSerial[t]
Insert(t, id, row) ==
  [i \in DOMAIN t \cup {id} |-> IF i = id THEN row ELSE t[i]]
Next1(t) == serial[t] + 1

\* adms.email is unique; an account may keep the address it has.
EmailFree(email, owner) ==
  \A a \in DOMAIN adms \ {owner} : adms[a].email # email

\* JwtStrategy: the administrator of an access token still exists.
Authenticated(a) == a \in DOMAIN adms

\* findUnique by token hash, and the conditions of consume.
Usable(l, purpose) ==
  /\ l \in DOMAIN links
  /\ links[l].purpose = purpose /\ links[l].state = "pending"

Init ==
  /\ adms = [i \in {1} |-> [email |-> FirstEmail, senha |-> 1, reset |-> 0]]
  /\ links = [i \in {} |-> i] /\ sessions = [i \in {} |-> i]
  /\ serial = [link |-> 0, session |-> 0, adm |-> 1, senha |-> 1]
  /\ calls = [s \in Slots |-> Idle]

-----------------------------------------------------------------------------
(* Sessions.                                                               *)

\* loginAdm: validateAdm keeps the row whose password it compared.
Login(s, a) ==
  /\ a \in DOMAIN adms
  /\ Start(s, [op |-> "issue", admId |-> a, senha |-> adms[a].senha,
               parent |-> NoId, late |-> FALSE])
  /\ UNCHANGED tables

\* refresh: the stored token is neither revoked nor expired, so its
\* administrator exists too ...
Refresh(s, t) ==
  /\ t \in DOMAIN sessions
  /\ sessions[t].state = "live"
  /\ Start(s, [op |-> "refresh", admId |-> sessions[t].admId,
               senha |-> sessions[t].senha, parent |-> t,
               late |-> sessions[t].late])
  /\ UNCHANGED tables

\* A rotation that forgets to revoke.
RotateKeeping(s) ==
  LET c == calls[s] IN
  /\ c.op = "refresh"
  /\ calls' = [calls EXCEPT ![s] =
                 [op |-> "issue", admId |-> c.admId, senha |-> c.senha,
                  parent |-> c.parent, late |-> c.late]]
  /\ UNCHANGED tables

\* ... and it is revoked before another is issued.
Rotate(s) ==
  LET c == calls[s] IN
  /\ c.op = "refresh"
  /\ c.parent \in DOMAIN sessions
  /\ sessions' = [sessions EXCEPT ![c.parent].state = "revoked"]
  /\ calls' = [calls EXCEPT ![s] =
                 [op |-> "issue", admId |-> c.admId, senha |-> c.senha,
                  parent |-> c.parent, late |-> c.late]]
  /\ UNCHANGED <<adms, links, serial>>

\* issueTokens: the INSERT of login and refresh.
IssueTokens(s) ==
  LET c == calls[s] IN
  /\ c.op = "issue"
  /\ c.admId \in DOMAIN adms /\ Room("session")
  /\ sessions' = Insert(sessions, Next1("session"),
                        [admId |-> c.admId, state |-> "live",
                         senha |-> c.senha, parent |-> c.parent, late |-> c.late])
  /\ serial' = [serial EXCEPT !.session = @ + 1]
  /\ Close(s)
  /\ UNCHANGED <<adms, links>>

\* logout: one updateMany.
Logout(t) ==
  /\ t \in DOMAIN sessions
  /\ sessions' = [sessions EXCEPT ![t].state = "revoked"]
  /\ UNCHANGED <<adms, links, serial, calls>>

\* A statement of login or refresh meets no row: the administrator, and with
\* it the token, is gone.
SessionRefused(s) ==
  /\ \/ calls[s].op = "refresh" /\ calls[s].parent \notin DOMAIN sessions
     \/ /\ calls[s].op = "issue"
        /\ calls[s].admId \notin DOMAIN adms \/ ~Room("session")
  /\ Close(s)
  /\ UNCHANGED tables

-----------------------------------------------------------------------------
(* Links.                                                                  *)

\* An address kept as it was typed.
AddressAsTyped(typed) == typed

\* The addresses of links are kept in one spelling.
AddressOf(typed) == normalizeEmail[typed]

\* invite: sent by an administrator JwtStrategy found, to a free address.
Invite(s, by, to) ==
  LET email == AddressOf(to) IN
  /\ Authenticated(by) /\ EmailFree(email, NoId)
  /\ Start(s, [op |-> "link", stage |-> "withdraw", email |-> email,
               purpose |-> "invite", admId |-> NoId, invitedBy |-> by,
               since |-> 0])
  /\ UNCHANGED tables

\* forgotPassword for an address that is an account's.
ForgotPassword(s, typed) ==
  LET email == AddressOf(typed) IN
  \E a \in DOMAIN adms :
    /\ adms[a].email = email
    /\ Start(s, [op |-> "link", stage |-> "withdraw", email |-> email,
                 purpose |-> "password_reset", admId |-> a, invitedBy |-> NoId,
                 since |-> 0])
    /\ UNCHANGED tables

\* A withdrawal that takes every link for an invite.
PendingInvites(email, purpose) ==
  {l \in DOMAIN links : /\ links[l].email = email
                        /\ links[l].purpose = "invite"
                        /\ links[l].state # "used"}

Pending(email, purpose) ==
  {l \in DOMAIN links : /\ links[l].email = email
                        /\ links[l].purpose = purpose
                        /\ links[l].state # "used"}

\* issueInvite, issuePasswordReset: older links are withdrawn ...
InvalidatePending(s) ==
  LET old == Pending(calls[s].email, calls[s].purpose) IN
  /\ At(s, "link", "withdraw")
  /\ links' = [l \in DOMAIN links |->
                 IF l \in old THEN [links[l] EXCEPT !.state = "used"] ELSE links[l]]
  /\ calls' = [calls EXCEPT ![s].stage = "create", ![s].since = serial.link]
  /\ UNCHANGED <<adms, sessions, serial>>

Names(c) == {c.admId, c.invitedBy} \subseteq DOMAIN adms \cup {NoId}

\* ... and the new one is stored.  Its mail comes last and touches no table:
\* a failure shows in the response alone.
CreateLink(s) ==
  LET c == calls[s] IN
  /\ At(s, "link", "create")
  /\ Names(c) /\ Room("link")
  /\ links' = Insert(links, Next1("link"),
                     [email |-> c.email, purpose |-> c.purpose,
                      admId |-> c.admId, invitedBy |-> c.invitedBy,
                      state |-> "pending", spent |-> 0,
                      since |-> c.since])
  /\ serial' = [serial EXCEPT !.link = @ + 1]
  /\ Close(s)
  /\ UNCHANGED <<adms, sessions>>

LinkRefused(s) ==
  /\ At(s, "link", "create")
  /\ ~Names(calls[s]) \/ ~Room("link")
  /\ Close(s)
  /\ UNCHANGED tables

-----------------------------------------------------------------------------
(* Use of a link.                                                          *)

\* acceptInvite reads the link, and that its address is free (which the
\* unique key tests again) ...
AcceptInvite(s, l) ==
  /\ Usable(l, "invite") /\ EmailFree(links[l].email, NoId)
  /\ Start(s, [op |-> "accept", stage |-> "read", link |-> l,
               email |-> links[l].email])
  /\ UNCHANGED tables

\* ... consume reads it once more ...
ConsumeRead(s) ==
  /\ At(s, "accept", "read")
  /\ Usable(calls[s].link, "invite")
  /\ Goto(s, "spend")
  /\ UNCHANGED tables

\* ... which is the first statement of resetPassword.
ResetPassword(s, l) ==
  /\ Usable(l, "password_reset")
  /\ Start(s, [op |-> "reset", stage |-> "spend", link |-> l,
               admId |-> links[l].admId, senha |-> 0])
  /\ UNCHANGED tables

\* An update by hash alone, trusting the read before it.
FoundByHash(l) == l \in DOMAIN links

\* updateMany where used_at is null; count 0 is a refusal.
Unspent(l) == l \in DOMAIN links /\ links[l].state # "used"

ConsumeWrite(s) ==
  LET l == calls[s].link IN
  /\ At(s, "accept", "spend") \/ At(s, "reset", "spend")
  /\ Unspent(l)
  /\ links' = [links EXCEPT ![l].state = "used", ![l].spent = @ + 1]
  /\ Goto(s, IF calls[s].op = "accept" THEN "create" ELSE "senha")
  /\ UNCHANGED <<adms, sessions, serial>>

CreateAdm(s) ==
  /\ At(s, "accept", "create")
  /\ EmailFree(calls[s].email, NoId) /\ Room("adm") /\ Room("senha")
  /\ adms' = Insert(adms, Next1("adm"),
                    [email |-> calls[s].email, senha |-> Next1("senha"),
                     reset |-> 0])
  /\ serial' = [serial EXCEPT !.adm = @ + 1, !.senha = @ + 1]
  /\ Close(s)
  /\ UNCHANGED <<links, sessions>>

SetPassword(s) ==
  /\ At(s, "reset", "senha")
  /\ calls[s].admId \in DOMAIN adms /\ Room("senha")
  /\ adms' = [adms EXCEPT ![calls[s].admId].senha = Next1("senha")]
  /\ serial' = [serial EXCEPT !.senha = @ + 1]
  /\ calls' = [calls EXCEPT ![s].stage = "sweep", ![s].senha = Next1("senha")]
  /\ UNCHANGED <<links, sessions>>

SessionsOf(a) == {t \in DOMAIN sessions : sessions[t].admId = a}

\* (history) The reset of slot s ends: it noted its password, and overtook
\* the logins and refreshes of its account that are under way.
EndReset(s) ==
  LET a == calls[s].admId
      mine(c) == c.op \in {"issue", "refresh"} /\ c.admId = a IN
  /\ adms' = [i \in DOMAIN adms |->
                IF i = a /\ adms[i].reset < calls[s].senha
                  THEN [adms[i] EXCEPT !.reset = calls[s].senha] ELSE adms[i]]
  /\ calls' = [r \in Slots |->
                 IF r = s THEN Idle
                 ELSE IF mine(calls[r]) THEN [calls[r] EXCEPT !.late = TRUE]
                 ELSE calls[r]]

\* A reset that forgets its sessions.
RevokeNothing(s) ==
  /\ At(s, "reset", "sweep") /\ EndReset(s)
  /\ UNCHANGED <<links, sessions, serial>>

\* The last statement of resetPassword.
RevokeSessions(s) ==
  /\ At(s, "reset", "sweep")
  /\ sessions' = [t \in DOMAIN sessions |->
                    IF t \in SessionsOf(calls[s].admId)
                      THEN [sessions[t] EXCEPT !.state = "revoked"] ELSE sessions[t]]
  /\ EndReset(s)
  /\ UNCHANGED <<links, serial>>

LinkUseRefused(s) ==
  LET c == calls[s] IN
  /\ \/ At(s, "accept", "read") /\ ~Usable(c.link, "invite")
     \/ (At(s, "accept", "spend") \/ At(s, "reset", "spend")) /\ ~Unspent(c.link)
     \/ /\ At(s, "accept", "create")
        /\ ~(EmailFree(c.email, NoId) /\ Room("adm") /\ Room("senha"))
     \/ At(s, "reset", "senha") /\ ~(c.admId \in DOMAIN adms /\ Room("senha"))
  /\ Close(s)
  /\ UNCHANGED tables

-----------------------------------------------------------------------------
(* Accounts.                                                               *)

\* update of user.service.ts: the address of the body, as it is typed, is no
\* other account's ...
FindEmail(s, a, dto) ==
  /\ \E by \in DOMAIN adms : Authenticated(by)
  /\ dto.email # NoEmail => EmailFree(dto.email, a)
  /\ Start(s, [op |-> "update", admId |-> a, email |-> dto.email,
               senha |-> dto.senha])
  /\ UNCHANGED tables

UpdateFits(c) ==
  /\ c.admId \in DOMAIN adms
  /\ c.email # NoEmail => EmailFree(c.email, c.admId)
  /\ c.senha => Room("senha")

\* ... then one UPDATE, which leaves the sessions alone.
UpdateAdm(s) ==
  LET c == calls[s] IN
  /\ c.op = "update"
  /\ UpdateFits(c)
  /\ adms' = [adms EXCEPT
                ![c.admId].email = IF c.email = NoEmail THEN @ ELSE c.email,
                ![c.admId].senha = IF c.senha THEN Next1("senha") ELSE @]
  /\ serial' = [serial EXCEPT !.senha = IF c.senha THEN @ + 1 ELSE @]
  /\ Close(s)
  /\ UNCHANGED <<links, sessions>>

UpdateRefused(s) ==
  /\ calls[s].op = "update"
  /\ ~UpdateFits(calls[s])
  /\ Close(s)
  /\ UNCHANGED tables

\* The cascade of adm_id without that of invited_by_adm_id.
LinksFor(a) == {l \in DOMAIN links : a = links[l].admId}

LinksNaming(a) == {l \in DOMAIN links : a \in {links[l].admId, links[l].invitedBy}}

\* remove, with the cascades of the foreign keys.
RemoveAdm(a) ==
  /\ a \in DOMAIN adms
  /\ adms' = Restrict(adms, DOMAIN adms \ {a})
  /\ links' = Restrict(links, DOMAIN links \ LinksNaming(a))
  /\ sessions' = Restrict(sessions, DOMAIN sessions \ SessionsOf(a))
  /\ UNCHANGED <<serial, calls>>

-----------------------------------------------------------------------------
(* Time.  The end of a row that is spent already makes no difference.      *)

ExpireLink(l) ==
  /\ l \in DOMAIN links
  /\ links[l].state = "pending"
  /\ links' = [links EXCEPT ![l].state = "expired"]
  /\ UNCHANGED <<adms, sessions, serial, calls>>

ExpireSession(t) ==
  /\ t \in DOMAIN sessions
  /\ sessions[t].state = "live"
  /\ sessions' = [sessions EXCEPT ![t].state = "expired"]
  /\ UNCHANGED <<adms, links, serial, calls>>

\* An error of the database or of the mail service, or the end of the process.
Crash(s) ==
  /\ s \in Faulty /\ calls[s] # Idle
  /\ Close(s)
  /\ UNCHANGED tables

Step(s) ==
  \/ Rotate(s) \/ IssueTokens(s) \/ SessionRefused(s)
  \/ InvalidatePending(s) \/ CreateLink(s) \/ LinkRefused(s)
  \/ ConsumeRead(s) \/ ConsumeWrite(s) \/ CreateAdm(s)
  \/ SetPassword(s) \/ RevokeSessions(s) \/ LinkUseRefused(s)
  \/ UpdateAdm(s) \/ UpdateRefused(s)

AuthNext ==
  \/ \E s \in Slots, a \in DOMAIN adms : Login(s, a)
  \/ \E s \in Slots, t \in DOMAIN sessions : Refresh(s, t)
  \/ \E t \in DOMAIN sessions : Logout(t)
  \/ \E s \in Slots, typed \in Emails : ForgotPassword(s, typed)
  \/ \E s \in Slots, l \in DOMAIN links : AcceptInvite(s, l) \/ ResetPassword(s, l)

UsersNext ==
  \/ \E s \in Slots, by \in DOMAIN adms, to \in Emails : Invite(s, by, to)
  \/ \E s \in Slots, a \in DOMAIN adms, dto \in UpdateInputs : FindEmail(s, a, dto)
  \/ \E a \in DOMAIN adms : RemoveAdm(a)

Next ==
  \/ AuthNext \/ UsersNext
  \/ \E s \in Slots : Step(s) \/ Crash(s)
  \/ \E l \in DOMAIN links : ExpireLink(l)
  \/ \E t \in DOMAIN sessions : ExpireSession(t)

Spec == Init /\ [][Next]_vars

-----------------------------------------------------------------------------
(* Properties.                                                             *)

IsTable(t, rows, last) == DOMAIN t \subseteq 1..last /\ t \in [DOMAIN t -> rows]

\* Every row and every call has the shape its code gives it; the link of a
\* reset names an account, so the null check of resetPassword never fires; its
\* address is in the one spelling invalidatePending looks for.
TypeOK ==
  /\ serial \in [Tables -> Nat]
  /\ IsTable(adms, Adm, serial.adm)
  /\ IsTable(links, Link, serial.link)
  /\ IsTable(sessions, Session, serial.session)
  /\ calls \in [Slots -> Call]
  /\ \A l \in DOMAIN links :
       /\ (links[l].purpose = "password_reset") = (links[l].admId # NoId)
       /\ normalizeEmail[links[l].email] = links[l].email

\* A link is consumed by one call at most, though several may have read it
\* unused (adm-email-token.service.ts, consume).
LinksSpentOnce == \A l \in DOMAIN links : links[l].spent <= 1

\* Of two links of one address and purpose that both still work, the younger
\* was already being issued when the older was stored: a request made after
\* another has ended always withdraws it (invalidatePending).
OnlyOverlappedLinksCoexist ==
  \A old, young \in DOMAIN links :
    /\ old < young
    /\ links[old].email = links[young].email
    /\ links[old].purpose = links[young].purpose
    /\ links[old].state # "used" /\ links[young].state # "used"
    => old > links[young].since

\* A token that was renewed is revoked, whatever rotations, logouts, resets
\* and removals overlap (refresh of auth.service.ts).
RenewedIsRevoked ==
  \A t \in DOMAIN sessions :
    sessions[t].parent \in DOMAIN sessions => sessions[sessions[t].parent].state = "revoked"

\* Once a reset has ended, a session that works was begun with the password
\* it set or a later one, or by a call the reset overtook: no other way leads
\* past the order of the writes of resetPassword.
ResetEndsSessions ==
  \A t \in DOMAIN sessions :
    LET a == sessions[t].admId IN
    a \in DOMAIN adms /\ sessions[t].state # "revoked" =>
      sessions[t].late \/ sessions[t].senha >= adms[a].reset

\* Nothing of a removed administrator stays usable, though logins, refreshes
\* and invites write long after they saw the account.
RemovedAdmIsOut ==
  /\ \A t \in DOMAIN sessions : sessions[t].admId \in DOMAIN adms
  /\ \A l \in DOMAIN links : Names(links[l])

\* What spec-resend-email.md asks (story 13): after a reset no session begun
\* before it goes on.
ResetEndsEverySession ==
  \A t \in DOMAIN sessions :
    LET a == sessions[t].admId IN
    a \in DOMAIN adms /\ sessions[t].state = "live" =>
      sessions[t].senha >= adms[a].reset
=============================================================================
