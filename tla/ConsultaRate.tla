---------------------------- MODULE ConsultaRate ----------------------------
(***************************************************************************)
(* assertConsultaRateLimit of results.service.ts: how often a client may   *)
(* try a consulta code.  The map lives in the process and an entry starts  *)
(* a window with the first try after the previous window is over; nothing  *)
(* is awaited between the read and the write of an entry, so a try is one  *)
(* step.                                                                   *)
(***************************************************************************)
EXTENDS Integers, Sequences, FiniteSets

CONSTANTS
  Clients,            \* keys of the map: addresses of clients
  CONSULTA_RATE_MAX,  \* 30 in the code
  Window,             \* CONSULTA_RATE_WINDOW_MS, 60 000 in the code
  MaxTime,            \* bound: the last instant of the clock
  MaxCount            \* bound: the tries counted in one window

ASSUME RateAssumption ==
  /\ CONSULTA_RATE_MAX \in Nat \ {0}
  /\ Window \in Nat \ {0}
  /\ MaxTime \in Nat
  /\ MaxCount \in Nat

VARIABLES
  clock,
  consultaRate,  \* client -> [count, resetAt], for the clients seen so far
  admitted       \* history: client -> instants of the tries let through

vars == <<clock, consultaRate, admitted>>

Init ==
  /\ clock = 0
  /\ consultaRate = [k \in {} |-> k]
  /\ admitted = [k \in Clients |-> <<>>]

\* Only the first try of a client starts a window.
WindowNeverOver(k) == k \notin DOMAIN consultaRate

\* !entry || now >= entry.resetAt
WindowOver(k) ==
  \/ k \notin DOMAIN consultaRate
  \/ clock >= consultaRate[k].resetAt

\* A counter that starts at 0 lets one more try through.
FirstTryUncounted(k) == [count |-> 0, resetAt |-> clock + Window]
FirstTry(k) == [count |-> 1, resetAt |-> clock + Window]

Entry(k) ==
  IF WindowOver(k) THEN FirstTry(k)
                   ELSE [consultaRate[k] EXCEPT !.count = @ + 1]

Record(k) ==
  consultaRate' = [c \in DOMAIN consultaRate \cup {k} |->
                     IF c = k THEN Entry(k) ELSE consultaRate[c]]

Admit(k) ==
  /\ Entry(k).count <= CONSULTA_RATE_MAX
  /\ Record(k)
  /\ admitted' = [admitted EXCEPT ![k] = Append(@, clock)]
  /\ UNCHANGED clock

\* 429: the try counts, the window does not move.
Refuse(k) ==
  /\ Entry(k).count > CONSULTA_RATE_MAX
  /\ Entry(k).count <= MaxCount
  /\ Record(k)
  /\ UNCHANGED <<clock, admitted>>

\* The process restarts with an empty map: what follows is counted afresh.
Restart ==
  /\ consultaRate' = [k \in {} |-> k]
  /\ admitted' = [k \in Clients |-> <<>>]
  /\ UNCHANGED clock

Tick ==
  /\ clock < MaxTime
  /\ clock' = clock + 1
  /\ UNCHANGED <<consultaRate, admitted>>

Next ==
  \/ \E k \in Clients : Admit(k) \/ Refuse(k)
  \/ Restart
  \/ Tick

Spec == Init /\ [][Next]_vars

-----------------------------------------------------------------------------

AdmittedSince(k, t) == Cardinality({i \in DOMAIN admitted[k] : admitted[k][i] >= t})

\* Whatever instant a stretch of Window starts at, a client gets less than
\* twice the maximum through in it: it meets two windows, never three, and
\* not the try the first of the two started with.  The stretch lies within one
\* run of the process: what was let through before a restart is not counted.
LessThanTwiceAdmitted ==
  \A k \in Clients : \A t \in 0..clock :
    t > clock - Window => AdmittedSince(k, t) < 2 * CONSULTA_RATE_MAX

\* A client is refused only after the maximum was let through within the last
\* Window: its refused tries keep nobody waiting longer.
RefusedOnlyWhenSpent ==
  [][\A k \in Clients : Refuse(k) =>
       AdmittedSince(k, clock - Window + 1) >= CONSULTA_RATE_MAX]_vars
=============================================================================
