-------------------------- MODULE ConsultaRateProofs --------------------------
(***************************************************************************)
(* Theorems of ConsultaRate for every number of clients, every maximum and *)
(* every length of the window.                                             *)
(***************************************************************************)
EXTENDS ConsultaRate, FiniteSetTheorems, TLAPS

Entries == [count : Nat, resetAt : Nat]

TypeOK ==
  /\ clock \in Nat
  /\ DOMAIN consultaRate \subseteq Clients
  /\ consultaRate \in [DOMAIN consultaRate -> Entries]
  /\ admitted \in [Clients -> Seq(Nat)]

\* Indices of the tries of a list let through since t, and between lo and hi.
Since(a, t) == {i \in DOMAIN a : a[i] >= t}
Between(a, lo, hi) == {i \in DOMAIN a : lo < a[i] /\ a[i] < hi}

\* What an entry says of the tries let through until now: those of its window
\* are counted up to the maximum, the window began with one of them, and
\* the stretch of one Window before it holds less than the maximum, the first
\* try of the window before being out of it.
Accounts(e, a, now) ==
  LET start == e.resetAt - Window IN
  /\ start \in Nat /\ start <= now
  /\ \A i \in DOMAIN a : a[i] < e.resetAt
  /\ \E i \in DOMAIN a : a[i] = start
  /\ Cardinality(Since(a, start))
       = IF e.count <= CONSULTA_RATE_MAX THEN e.count ELSE CONSULTA_RATE_MAX
  /\ Cardinality(Between(a, start - Window, start)) < CONSULTA_RATE_MAX

ClientAccounted(k) ==
  /\ \A i \in DOMAIN admitted[k] : admitted[k][i] <= clock
  /\ IF k \in DOMAIN consultaRate THEN Accounts(consultaRate[k], admitted[k], clock)
                                  ELSE admitted[k] = <<>>

Inv == TypeOK /\ \A k \in Clients : ClientAccounted(k)

-----------------------------------------------------------------------------
(* Lists of tries.                                                         *)

LEMMA FinitelyMany ==
  ASSUME NEW a \in Seq(Nat), NEW S \in SUBSET DOMAIN a
  PROVE  IsFiniteSet(S) /\ Cardinality(S) \in Nat
<1>1. Len(a) \in Nat /\ DOMAIN a = 1..Len(a)
  OBVIOUS
<1>2. IsFiniteSet(DOMAIN a)
  BY <1>1, FS_Interval
<1> QED
  BY <1>2, FS_Subset, FS_CardinalityType

LEMMA FewerInPart ==
  ASSUME NEW a \in Seq(Nat), NEW S \in SUBSET DOMAIN a, NEW T \in SUBSET S
  PROVE  Cardinality(T) <= Cardinality(S)
  BY FinitelyMany, FS_Subset

LEMMA Appended ==
  ASSUME NEW a \in Seq(Nat), NEW now \in Nat
  PROVE  /\ Append(a, now) \in Seq(Nat)
         /\ DOMAIN Append(a, now) = DOMAIN a \cup {Len(a) + 1}
         /\ Len(a) + 1 \notin DOMAIN a
         /\ Append(a, now)[Len(a) + 1] = now
         /\ \A i \in DOMAIN a : Append(a, now)[i] = a[i]
  OBVIOUS

-----------------------------------------------------------------------------
(* A try and the entry it leaves.                                          *)

\* A try within the window, let through or refused.
LEMMA CountedTry ==
  ASSUME NEW a \in Seq(Nat), NEW e \in Entries, NEW now \in Nat,
         Accounts(e, a, now), now < e.resetAt,
         NEW f \in Entries, f = [e EXCEPT !.count = @ + 1],
         NEW b \in Seq(Nat),
         b = IF f.count <= CONSULTA_RATE_MAX THEN Append(a, now) ELSE a
  PROVE  Accounts(f, b, now)
<1> DEFINE n == Len(a) + 1
           start == e.resetAt - Window
<1>1. f.resetAt = e.resetAt /\ f.count = e.count + 1 /\ e.count \in Nat /\ e.resetAt \in Nat
  BY DEF Entries
<1>2. CONSULTA_RATE_MAX \in Nat \ {0} /\ Window \in Nat \ {0}
  BY RateAssumption
<1>3. start \in Nat /\ start <= now /\ start < e.resetAt
  BY <1>1, <1>2 DEF Accounts
<1>4. CASE f.count <= CONSULTA_RATE_MAX
  <2>1. /\ DOMAIN b = DOMAIN a \cup {n} /\ n \notin DOMAIN a /\ b[n] = now
        /\ \A i \in DOMAIN a : b[i] = a[i]
    BY <1>4, Appended
  <2>2. Since(b, start) = Since(a, start) \cup {n} /\ n \notin Since(a, start)
    BY <1>3, <2>1 DEF Since
  <2>3. Between(b, start - Window, start) = Between(a, start - Window, start)
    BY <1>3, <2>1 DEF Between
  <2>4. Since(a, start) \in SUBSET DOMAIN a
    BY DEF Since
  <2>5. Cardinality(Since(b, start)) = Cardinality(Since(a, start)) + 1
    BY SMTT(30), <2>2, <2>4, FinitelyMany, FS_AddElement
  <2>6. Cardinality(Since(a, start)) = e.count
    BY <1>1, <1>2, <1>4 DEF Accounts
  <2>7. \A i \in DOMAIN b : b[i] < f.resetAt
    BY <1>1, <2>1 DEF Accounts
  <2>8. \E i \in DOMAIN b : b[i] = start
    BY <2>1 DEF Accounts
  <2> QED
    BY <1>1, <1>3, <1>4, <2>3, <2>5, <2>6, <2>7, <2>8 DEF Accounts
<1>5. CASE ~(f.count <= CONSULTA_RATE_MAX)
  <2>1. b = a
    BY <1>5
  <2>2. Cardinality(Since(a, start)) = CONSULTA_RATE_MAX
    BY SMTT(30), <1>1, <1>2, <1>5 DEF Accounts
  <2> QED
    BY <1>1, <1>5, <2>1, <2>2 DEF Accounts
<1> QED
  BY <1>4, <1>5

\* The first try of a window: of the window before, at most the maximum less
\* its own first try lies within one Window of it.
LEMMA FirstTryAfter ==
  ASSUME NEW a \in Seq(Nat), NEW e \in Entries, NEW now \in Nat,
         Accounts(e, a, now), now >= e.resetAt
  PROVE  Accounts([count |-> 1, resetAt |-> now + Window], Append(a, now), now)
<1> DEFINE n == Len(a) + 1
           b == Append(a, now)
           start == e.resetAt - Window
           f == [count |-> 1, resetAt |-> now + Window]
<1>1. CONSULTA_RATE_MAX \in Nat \ {0} /\ Window \in Nat \ {0} /\ e.resetAt \in Nat /\ e.count \in Nat
  BY RateAssumption DEF Entries
<1>2. /\ DOMAIN b = DOMAIN a \cup {n} /\ n \notin DOMAIN a /\ b[n] = now
      /\ \A i \in DOMAIN a : b[i] = a[i] /\ a[i] \in Nat
  BY Appended
<1>3. \A i \in DOMAIN a : a[i] < now
  BY SMTT(30), <1>1, <1>2 DEF Accounts
<1>4. f.resetAt - Window = now /\ f.count = 1 /\ f.resetAt = now + Window
  BY <1>1
<1> HIDE DEF b, f, n
<1>5. Since(b, now) = {n}
  BY <1>2, <1>3 DEF Since
<1>6. Cardinality(Since(b, now)) = 1
  BY <1>5, FS_Singleton
<1>7. PICK first \in DOMAIN a : a[first] = start
  BY DEF Accounts
<1>8. Between(b, now - Window, now) \in SUBSET (Since(a, start) \ {first})
  <2> SUFFICES ASSUME NEW i \in DOMAIN b, now - Window < b[i], b[i] < now
               PROVE  i \in DOMAIN a /\ a[i] >= start /\ i # first
    BY DEF Between, Since
  <2>1. i \in DOMAIN a /\ b[i] = a[i] /\ a[i] \in Nat
    BY <1>2
  <2>2. start <= now - Window
    BY <1>1
  <2> QED
    BY <1>1, <1>7, <2>1, <2>2
<1>9. Cardinality(Between(b, now - Window, now)) < CONSULTA_RATE_MAX
  <2>1. Since(a, start) \in SUBSET DOMAIN a /\ first \in Since(a, start)
    BY <1>1, <1>7 DEF Since
  <2>2. Cardinality(Since(a, start) \ {first}) = Cardinality(Since(a, start)) - 1
    <3>1. IsFiniteSet(Since(a, start))
      BY <2>1, FinitelyMany
    <3> QED
      BY <2>1, <3>1, FS_RemoveElement
  <2>3. Cardinality(Between(b, now - Window, now)) <= Cardinality(Since(a, start) \ {first})
    BY <1>8, <2>1, FewerInPart
  <2>4. Cardinality(Between(b, now - Window, now)) \in Nat
    BY <1>8, <2>1, FinitelyMany
  <2>5. Cardinality(Since(a, start)) \in Nat
    BY <2>1, FinitelyMany
  <2>6. Cardinality(Since(a, start)) <= CONSULTA_RATE_MAX
    BY SMTT(30), <1>1 DEF Accounts
  <2> QED
    BY <1>1, <2>2, <2>3, <2>4, <2>5, <2>6
<1>10. \A i \in DOMAIN b : b[i] < now + Window
  BY <1>1, <1>2, <1>3
<1>11. \E i \in DOMAIN b : b[i] = now
  BY <1>2
<1>12. Accounts(f, b, now)
  BY <1>1, <1>4, <1>6, <1>9, <1>10, <1>11 DEF Accounts
<1> QED
  BY <1>12 DEF b, f

LEMMA FirstTryEver ==
  ASSUME NEW now \in Nat
  PROVE  Accounts([count |-> 1, resetAt |-> now + Window], Append(<<>>, now), now)
<1> DEFINE f == [count |-> 1, resetAt |-> now + Window]
<1>1. CONSULTA_RATE_MAX \in Nat \ {0} /\ Window \in Nat \ {0}
  BY RateAssumption
<1>2. PICK b \in Seq(Nat) :
        b = Append(<<>>, now) /\ DOMAIN b = {1} /\ b[1] = now
  <2>1. Append(<<>>, now) = <<now>>
    OBVIOUS
  <2>2. <<now>> \in Seq(Nat) /\ DOMAIN <<now>> = {1} /\ <<now>>[1] = now
    OBVIOUS
  <2> QED
    BY <2>1, <2>2
<1>3. f.resetAt - Window = now /\ f.count = 1 /\ f.resetAt = now + Window
  BY <1>1
<1> HIDE DEF f
<1>4. Since(b, now) = {1} /\ Between(b, now - Window, now) = {}
  BY <1>2 DEF Since, Between
<1>5. Cardinality(Since(b, now)) = 1 /\ Cardinality(Between(b, now - Window, now)) = 0
  BY <1>4, FS_Singleton, FS_EmptySet
<1>6. Accounts(f, b, now)
  BY <1>1, <1>2, <1>3, <1>5 DEF Accounts
<1> QED
  BY <1>2, <1>6 DEF f

-----------------------------------------------------------------------------
(* The invariant.                                                          *)

LEMMA Later ==
  ASSUME NEW a, NEW e \in Entries, NEW now \in Nat, NEW then \in Nat, now <= then,
         Accounts(e, a, now)
  PROVE  Accounts(e, a, then)
<1>1. e.resetAt \in Nat /\ Window \in Nat
  BY RateAssumption DEF Entries
<1> QED
  BY <1>1 DEF Accounts

\* A try changes the entry and the list of its client alone.
LEMMA TryKeeps ==
  ASSUME Inv, NEW k \in Clients, Admit(k) \/ Refuse(k)
  PROVE  Inv'
<1>1. PICK a \in Seq(Nat), now \in Nat : a = admitted[k] /\ now = clock
  BY DEF Inv, TypeOK
<1>2. CONSULTA_RATE_MAX \in Nat \ {0} /\ Window \in Nat \ {0}
  BY RateAssumption
<1>3. Entry(k) \in Entries
  <2>1. CASE WindowOver(k)
    <3>1. 1 \in Nat /\ clock + Window \in Nat
      BY <1>1, <1>2
    <3> QED
      BY <2>1, <3>1 DEF Entry, FirstTry, Entries
  <2>2. CASE ~WindowOver(k)
    <3>1. consultaRate[k] \in Entries
      BY <2>2 DEF WindowOver, Inv, TypeOK
    <3>2. consultaRate[k].count + 1 \in Nat
      BY <3>1 DEF Entries
    <3> QED
      BY <2>2, <3>1, <3>2 DEF Entry, Entries
  <2> QED
    BY <2>1, <2>2
<1>4. PICK b \in Seq(Nat) :
        b = IF Entry(k).count <= CONSULTA_RATE_MAX THEN Append(a, now) ELSE a
  BY <1>1, Appended
<1>5. PICK f \in Entries : f = Entry(k)
  BY <1>3
<1>6. /\ consultaRate' = [c \in DOMAIN consultaRate \cup {k} |->
                            IF c = k THEN f ELSE consultaRate[c]]
      /\ admitted' = [admitted EXCEPT ![k] = b]
      /\ clock' = now
  <2>1. Record(k) /\ clock' = clock
    BY DEF Admit, Refuse
  <2>2. admitted' = [admitted EXCEPT ![k] = b]
    <3>1. CASE Admit(k)
      BY <1>1, <1>4, <3>1 DEF Admit
    <3>2. CASE Refuse(k)
      <4>1. b = a /\ admitted' = admitted
        <5>1. f.count \in Nat /\ f.count > CONSULTA_RATE_MAX
          BY <1>5, <3>2 DEF Refuse, Entries
        <5> QED
          BY <1>2, <1>4, <1>5, <3>2, <5>1 DEF Refuse
      <4> QED
        BY <1>1, <4>1 DEF Inv, TypeOK
    <3> QED
      BY <3>1, <3>2
  <2> QED
    BY <1>1, <1>5, <2>1, <2>2 DEF Record
<1>7. TypeOK'
  BY <1>1, <1>4, <1>5, <1>6 DEF Inv, TypeOK
<1>8. Accounts(f, b, now)
  <2>1. CASE k \notin DOMAIN consultaRate
    <3>1. a = <<>> /\ Entry(k) = FirstTry(k)
      BY <1>1, <2>1 DEF Inv, ClientAccounted, Entry, WindowOver
    <3>2. f = [count |-> 1, resetAt |-> now + Window]
      BY <1>1, <1>5, <3>1 DEF FirstTry
    <3>3. b = Append(<<>>, now)
      BY <1>2, <1>4, <1>5, <3>1, <3>2
    <3> QED
      BY <3>2, <3>3, FirstTryEver
  <2>2. CASE k \in DOMAIN consultaRate /\ clock >= consultaRate[k].resetAt
    <3>1. consultaRate[k] \in Entries /\ Accounts(consultaRate[k], a, now)
      BY <1>1, <2>2 DEF Inv, TypeOK, ClientAccounted
    <3>2. f = [count |-> 1, resetAt |-> now + Window]
      BY <1>1, <1>5, <2>2 DEF Entry, WindowOver, FirstTry
    <3>3. b = Append(a, now)
      BY <1>2, <1>4, <1>5, <3>2
    <3> QED
      BY <1>1, <2>2, <3>1, <3>2, <3>3, FirstTryAfter
  <2>3. CASE k \in DOMAIN consultaRate /\ ~(clock >= consultaRate[k].resetAt)
    <3>1. consultaRate[k] \in Entries /\ Accounts(consultaRate[k], a, now)
      BY <1>1, <2>3 DEF Inv, TypeOK, ClientAccounted
    <3>2. f = [consultaRate[k] EXCEPT !.count = @ + 1]
      BY <1>5, <2>3 DEF Entry, WindowOver
    <3>3. now < consultaRate[k].resetAt
      BY <1>1, <2>3, <3>1 DEF Entries
    <3>4. b = IF f.count <= CONSULTA_RATE_MAX THEN Append(a, now) ELSE a
      BY <1>4, <1>5
    <3> QED
      BY <1>1, <1>4, <1>5, <3>1, <3>2, <3>3, <3>4, CountedTry
  <2> QED
    BY <2>1, <2>2, <2>3
<1>9. \A i \in DOMAIN b : b[i] <= now
  <2>1. \A i \in DOMAIN a : a[i] <= now
    BY <1>1 DEF Inv, ClientAccounted
  <2> QED
    BY <1>1, <1>4, <2>1, Appended
<1>10. ASSUME NEW c \in Clients PROVE ClientAccounted(c)'
  <2>1. CASE c = k
    <3>1. /\ k \in DOMAIN consultaRate' /\ consultaRate'[k] = f
          /\ admitted'[k] = b /\ clock' = now
      BY <1>6 DEF Inv, TypeOK
    <3> QED
      BY <1>8, <1>9, <2>1, <3>1 DEF ClientAccounted
  <2>2. CASE c # k
    <3>1. /\ c \in DOMAIN consultaRate' <=> c \in DOMAIN consultaRate
          /\ c \in DOMAIN consultaRate => consultaRate'[c] = consultaRate[c]
          /\ admitted'[c] = admitted[c] /\ clock' = clock
      BY <1>1, <1>6, <2>2 DEF Inv, TypeOK
    <3>2. ClientAccounted(c)
      BY DEF Inv
    <3> QED
      BY <3>1, <3>2 DEF ClientAccounted
  <2> QED
    BY <2>1, <2>2
<1> QED
  BY <1>7, <1>10 DEF Inv

LEMMA TickKeeps ==
  ASSUME Inv, Tick
  PROVE  Inv'
<1>1. clock \in Nat /\ clock' \in Nat /\ clock <= clock' /\ UNCHANGED <<consultaRate, admitted>>
  BY DEF Tick, Inv, TypeOK
<1>2. TypeOK'
  BY <1>1 DEF Inv, TypeOK
<1>3. ASSUME NEW k \in Clients PROVE ClientAccounted(k)'
  <2>1. ClientAccounted(k)
    BY DEF Inv
  <2>2. \A i \in DOMAIN admitted[k] : admitted[k][i] <= clock'
    <3>1. \A i \in DOMAIN admitted[k] : admitted[k][i] \in Nat
      BY DEF Inv, TypeOK
    <3> QED
      BY <1>1, <2>1, <3>1 DEF ClientAccounted
  <2>3. CASE k \in DOMAIN consultaRate
    <3>1. consultaRate[k] \in Entries /\ Accounts(consultaRate[k], admitted[k], clock)
      BY <2>1, <2>3 DEF ClientAccounted, Inv, TypeOK
    <3>2. Accounts(consultaRate[k], admitted[k], clock')
      BY <1>1, <3>1, Later
    <3> QED
      BY <1>1, <2>2, <2>3, <3>2 DEF ClientAccounted
  <2>4. CASE k \notin DOMAIN consultaRate
    BY <1>1, <2>1, <2>2, <2>4 DEF ClientAccounted
  <2> QED
    BY <2>3, <2>4
<1> QED
  BY <1>2, <1>3 DEF Inv

LEMMA EmptyMap ==
  ASSUME consultaRate = [k \in {} |-> k], admitted = [k \in Clients |-> <<>>], clock \in Nat
  PROVE  Inv
<1>1. DOMAIN consultaRate = {} /\ \A k \in Clients : admitted[k] = <<>>
  OBVIOUS
<1> QED
  BY <1>1 DEF Inv, TypeOK, ClientAccounted

LEMMA RestartKeeps ==
  ASSUME Inv, Restart
  PROVE  Inv'
<1>1. clock' \in Nat /\ DOMAIN consultaRate' = {} /\ admitted' = [k \in Clients |-> <<>>]
      /\ consultaRate' = [k \in {} |-> k]
  BY DEF Restart, Inv, TypeOK
<1> QED
  BY <1>1 DEF Inv, TypeOK, ClientAccounted

\* In every state the entries account for the tries let through.
THEOREM Invariance == Spec => []Inv
<1>1. Init => Inv
  BY EmptyMap DEF Init
<1>2. Inv /\ [Next]_vars => Inv'
  <2> SUFFICES ASSUME Inv, [Next]_vars PROVE Inv'
    OBVIOUS
  <2>1. CASE Next
    BY <2>1, TryKeeps, RestartKeeps, TickKeeps DEF Next
  <2>2. CASE UNCHANGED vars
    BY <2>2 DEF vars, Inv, TypeOK, ClientAccounted
  <2> QED
    BY <2>1, <2>2
<1> QED
  BY <1>1, <1>2, PTL DEF Spec

-----------------------------------------------------------------------------
(* The theorems.                                                           *)

LEMMA AdmittedIsSince ==
  ASSUME NEW k, NEW t
  PROVE  AdmittedSince(k, t) = Cardinality(Since(admitted[k], t))
  BY DEF AdmittedSince, Since

\* In any stretch of Window without a restart in it a client gets less than
\* twice the maximum.
THEOREM FewerThanTwice == Spec => []LessThanTwiceAdmitted
<1>1. Inv => LessThanTwiceAdmitted
  <2> SUFFICES ASSUME Inv, NEW k \in Clients, NEW t \in 0..clock, t > clock - Window
               PROVE  AdmittedSince(k, t) < 2 * CONSULTA_RATE_MAX
    BY DEF LessThanTwiceAdmitted
  <2>1. PICK a \in Seq(Nat), now \in Nat, max \in Nat \ {0}, w \in Nat \ {0} :
          a = admitted[k] /\ now = clock /\ max = CONSULTA_RATE_MAX /\ w = Window
    BY RateAssumption DEF Inv, TypeOK
  <2>2. PICK s \in SUBSET DOMAIN a : s = Since(a, t)
    BY DEF Since
  <2>3. IsFiniteSet(s) /\ Cardinality(s) \in Nat
    BY <2>2, FinitelyMany
  <2>4. AdmittedSince(k, t) = Cardinality(s)
    BY <2>1, <2>2, AdmittedIsSince
  <2>5. CASE k \notin DOMAIN consultaRate
    <3>1. s = {}
      BY <2>1, <2>2, <2>5 DEF Inv, ClientAccounted
    <3> QED
      BY <2>1, <2>4, <3>1, FS_EmptySet
  <2>6. CASE k \in DOMAIN consultaRate
    <3>1. PICK e \in Entries : e = consultaRate[k] /\ Accounts(e, a, now)
      BY <2>1, <2>6 DEF Inv, TypeOK, ClientAccounted
    <3>2. PICK start \in Nat :
            /\ start = e.resetAt - Window /\ start <= now
            /\ Cardinality(Since(a, start)) <= max
            /\ Cardinality(Between(a, start - w, start)) < max
      <4>1. e.count \in Nat
        BY <3>1 DEF Entries
      <4> QED
        BY <2>1, <3>1, <4>1 DEF Accounts
    <3>3. s \subseteq Since(a, start) \cup Between(a, start - w, start)
      <4> SUFFICES ASSUME NEW i \in DOMAIN a, a[i] >= t, ~(a[i] >= start)
                   PROVE  start - w < a[i] /\ a[i] < start
        BY <2>2 DEF Since, Between
      <4>1. a[i] \in Nat /\ t \in Nat
        BY <2>1
      <4> QED
        BY <2>1, <3>2, <4>1
    <3>4. /\ Since(a, start) \in SUBSET DOMAIN a
          /\ Between(a, start - w, start) \in SUBSET DOMAIN a
      BY DEF Since, Between
    <3>5. PICK A \in SUBSET DOMAIN a, B \in SUBSET DOMAIN a :
            A = Since(a, start) /\ B = Between(a, start - w, start)
      BY <3>4
    <3>6. /\ IsFiniteSet(A) /\ IsFiniteSet(B) /\ IsFiniteSet(A \cap B) /\ IsFiniteSet(A \cup B)
          /\ Cardinality(A) \in Nat /\ Cardinality(B) \in Nat
          /\ Cardinality(A \cap B) \in Nat
          /\ Cardinality(A \cup B) = Cardinality(A) + Cardinality(B) - Cardinality(A \cap B)
      BY FinitelyMany, FS_Union
    <3>7. Cardinality(s) <= Cardinality(A \cup B)
      BY <3>3, <3>5, <3>6, FS_Subset
    <3> QED
      BY <2>1, <2>3, <2>4, <3>2, <3>5, <3>6, <3>7
  <2> QED
    BY <2>5, <2>6
<1> QED
  BY Invariance, <1>1, PTL

\* A refusal means that the maximum was let through within the last Window.
THEOREM RefusalIsEarned == Spec => RefusedOnlyWhenSpent
<1>1. ASSUME Inv, NEW k \in Clients, Refuse(k)
      PROVE  AdmittedSince(k, clock - Window + 1) >= CONSULTA_RATE_MAX
  <2>1. PICK a \in Seq(Nat), now \in Nat, max \in Nat \ {0}, w \in Nat \ {0} :
          a = admitted[k] /\ now = clock /\ max = CONSULTA_RATE_MAX /\ w = Window
    BY <1>1, RateAssumption DEF Inv, TypeOK
  <2>2. Entry(k).count > max
    BY <1>1, <2>1 DEF Refuse
  <2>3. ~WindowOver(k)
    BY <2>1, <2>2 DEF Entry, FirstTry
  <2>4. PICK e \in Entries : e = consultaRate[k] /\ Accounts(e, a, now)
    BY <1>1, <2>1, <2>3 DEF WindowOver, Inv, TypeOK, ClientAccounted
  <2>5. e.count \in Nat /\ e.resetAt \in Nat /\ e.count >= max /\ now < e.resetAt
    <3>1. Entry(k) = [e EXCEPT !.count = @ + 1] /\ ~(now >= e.resetAt)
      BY <2>1, <2>3, <2>4 DEF Entry, WindowOver
    <3>2. e.count \in Nat /\ e.resetAt \in Nat /\ Entry(k).count = e.count + 1
      BY <3>1 DEF Entries
    <3> QED
      BY <2>1, <2>2, <3>1, <3>2
  <2>6. PICK start \in Nat :
          start = e.resetAt - w /\ Cardinality(Since(a, start)) = max
    BY <2>1, <2>4, <2>5 DEF Accounts
  <2>7. Since(a, start) \in SUBSET Since(a, now - w + 1)
    <3>1. now - w + 1 <= start /\ now - w + 1 \in Int
      BY <2>1, <2>5, <2>6
    <3>2. \A i \in DOMAIN a : a[i] \in Nat
      BY <2>1
    <3> QED
      BY <3>1, <3>2 DEF Since
  <2>8. Since(a, now - w + 1) \in SUBSET DOMAIN a
    BY DEF Since
  <2>9. /\ Cardinality(Since(a, start)) <= Cardinality(Since(a, now - w + 1))
        /\ Cardinality(Since(a, now - w + 1)) \in Nat
    BY <2>7, <2>8, FewerInPart, FinitelyMany
  <2>10. AdmittedSince(k, clock - Window + 1) = Cardinality(Since(a, now - w + 1))
    BY <2>1, AdmittedIsSince
  <2> QED
    BY <2>1, <2>6, <2>9, <2>10
<1>2. Inv /\ [Next]_vars =>
        [\A k \in Clients : Refuse(k) =>
           AdmittedSince(k, clock - Window + 1) >= CONSULTA_RATE_MAX]_vars
  BY <1>1
<1> QED
  BY Invariance, <1>2, PTL DEF Spec, RefusedOnlyWhenSpent
=============================================================================
