-------------------------- MODULE AlarmClockProofs --------------------------
(***************************************************************************)
(* That the clock keeps each alarm until it is removed or fires, fires none *)
(* early or after its removal, and does not sleep past any, for any number  *)
(* of alarms, threads that start and stop it, times and periods.            *)
(*                                                                          *)
(* The argument: the list is sorted and its identifiers differ, so that the *)
(* first alarm is the next one and removing an alarm leaves no other with   *)
(* its identifier; a thread that waits, waits for the first alarm, because  *)
(* whatever changes the list wakes it; and one that timed out fires the     *)
(* alarm it waited for only.                                                *)
(***************************************************************************)
EXTENDS AlarmClock, WellFoundedInduction, SequenceTheorems, TLAPS

Alarm == [id : Nat, periodic : BOOLEAN, exp : Nat]

Ids(list) == {list[i].id : i \in 1 .. Len(list)}

\* A list of alarms as the clock keeps it.
Kept(list) ==
    /\ list \in Seq(Alarm)
    /\ \A i, j \in 1 .. Len(list) : i <= j => list[i].exp <= list[j].exp
    /\ \A i, j \in 1 .. Len(list) : list[i].id = list[j].id => i = j

Typed ==
    /\ identifier \in Nat /\ timeout \in Nat /\ now \in Nat
    /\ removed \subseteq 1 .. identifier /\ spent \subseteq 1 .. identifier
    /\ cpc \in [Controllers -> {"idle", "quit", "join", "unlock", "recover"}]

\* The inductive invariant.
IInv ==
    /\ Typed
    /\ Kept(alarms)
    /\ NoAlarmLost
    /\ NeverOversleeps
    /\ NeverEarly
    /\ tpc = "timedout" => timeout <= now

-----------------------------------------------------------------------------
\* A set of numbers up to n has a greatest one.
LEMMA Greatest ==
    ASSUME NEW n \in Nat, NEW S \in SUBSET (0 .. n), S # {}
    PROVE  \E m \in S : \A k \in S : k <= m
  <1> DEFINE T == {n - k : k \in S}
  <1>1. T \subseteq Nat
    OBVIOUS
  <1>2. T # {}
    <2>1. PICK k \in S : TRUE
      OBVIOUS
    <2>2. n - k \in T
      BY <2>1
    <2> QED BY <2>2
  <1>3. PICK x \in T : \A y \in T : ~ (<<y, x>> \in OpToRel(<, Nat))
    BY <1>1, <1>2, WFMin, NatLessThanWellFounded
  <1>4. \A y \in T : ~(y < x)
    BY <1>1, <1>3 DEF OpToRel
  <1> QED BY <1>4

\* The place alarmClockInsertAlarm finds exists, in a list of any order.
LEMMA PlaceExists ==
    ASSUME NEW list \in Seq(Alarm), NEW a \in Alarm
    PROVE  \E i \in 0 .. Len(list) :
               /\ i = 0 \/ list[i].exp <= a.exp
               /\ \A j \in (i + 1) .. Len(list) : a.exp < list[j].exp
  <1> DEFINE S == {0} \cup {i \in 1 .. Len(list) : list[i].exp <= a.exp}
  <1>1. Len(list) \in Nat /\ \A i \in 1 .. Len(list) : list[i] \in Alarm
    BY LenProperties, ElementOfSeq
  <1>2. PICK m \in S : \A k \in S : k <= m
    <2>1. S \subseteq 0 .. Len(list) /\ S # {}
      BY <1>1
    <2> QED BY <1>1, <2>1, Greatest
  <1>3. \A j \in (m + 1) .. Len(list) : j \in 1 .. Len(list) /\ j \notin S
    BY <1>1, <1>2
  <1>4. \A j \in (m + 1) .. Len(list) : a.exp < list[j].exp
    BY <1>1, <1>3 DEF Alarm
  <1> QED BY <1>1, <1>2, <1>4

\* What is where after an insertion at place k.
LEMMA InsertedAt ==
    ASSUME NEW list \in Seq(Alarm), NEW a \in Alarm, NEW k \in 0 .. Len(list)
    PROVE  LET r == InsertAt(list, k + 1, a)
           IN  /\ r \in Seq(Alarm) /\ Len(r) = Len(list) + 1
               /\ \A i \in 1 .. k : r[i] = list[i]
               /\ r[k + 1] = a
               /\ \A i \in (k + 2) .. Len(list) + 1 : r[i] = list[i - 1]
  <1> DEFINE n == Len(list)
             x == SubSeq(list, 1, k)
             y == SubSeq(list, k + 1, n)
  <1>1. n \in Nat /\ \A i \in 1 .. n : list[i] \in Alarm
    BY LenProperties, ElementOfSeq
  <1>2. x \in Seq(Alarm) /\ Len(x) = k /\ \A i \in 1 .. k : x[i] = list[i]
    BY <1>1, SubSeqProperties
  <1>3. /\ y \in Seq(Alarm) /\ Len(y) = n - k
        /\ \A i \in 1 .. n - k : y[i] = list[k + i]
    <2>1. \A i \in (k + 1) .. n : list[i] \in Alarm
      BY <1>1
    <2>2. /\ y \in Seq(Alarm) /\ Len(y) = IF k + 1 <= n THEN n - (k + 1) + 1 ELSE 0
          /\ \A i \in 1 .. n - (k + 1) + 1 : y[i] = list[(k + 1) + i - 1]
      BY <1>1, <2>1, SubSeqProperties
    <2> HIDE DEF y
    <2> QED BY <1>1, <2>2
  <1> HIDE DEF x, y
  <1>4. <<a>> \in Seq(Alarm) /\ Len(<<a>>) = 1 /\ <<a>>[1] = a
    OBVIOUS
  <1> DEFINE z == <<a>>
  <1> HIDE DEF z
  <1>5. z \in Seq(Alarm) /\ Len(z) = 1 /\ z[1] = a
    BY <1>4 DEF z
  <1> DEFINE u == x \o z
  <1>6. /\ u \in Seq(Alarm) /\ Len(u) = k + 1
        /\ \A i \in 1 .. k + 1 : u[i] = IF i <= k THEN x[i] ELSE z[i - k]
    <2>1. /\ u \in Seq(Alarm) /\ Len(u) = Len(x) + Len(z)
          /\ \A i \in 1 .. Len(x) + Len(z) : u[i] = IF i <= Len(x) THEN x[i] ELSE z[i - Len(x)]
      BY <1>2, <1>5, ConcatProperties
    <2> HIDE DEF u
    <2> QED BY <1>2, <1>5, <2>1
  <1> HIDE DEF u
  <1> DEFINE r == u \o y
  <1>7. /\ r \in Seq(Alarm) /\ Len(r) = (k + 1) + (n - k)
        /\ \A i \in 1 .. (k + 1) + (n - k) : r[i] = IF i <= k + 1 THEN u[i] ELSE y[i - (k + 1)]
    <2>1. /\ r \in Seq(Alarm) /\ Len(r) = Len(u) + Len(y)
          /\ \A i \in 1 .. Len(u) + Len(y) : r[i] = IF i <= Len(u) THEN u[i] ELSE y[i - Len(u)]
      BY <1>3, <1>6, ConcatProperties
    <2> HIDE DEF r
    <2> QED BY <1>3, <1>6, <2>1
  <1>8. InsertAt(list, k + 1, a) = r
    <2>1. (k + 1) - 1 = k
      OBVIOUS
    <2> QED BY <2>1, Zenon DEF InsertAt, r, u, x, y, z
  <1> HIDE DEF r
  <1>9. Len(r) = n + 1 /\ \A i \in 1 .. k : r[i] = list[i]
    BY <1>1, <1>2, <1>6, <1>7, SMTT(60)
  <1>10. r[k + 1] = a
    BY <1>1, <1>5, <1>6, <1>7
  <1>11. \A i \in (k + 2) .. n + 1 : r[i] = list[i - 1]
    <2> SUFFICES ASSUME NEW i \in (k + 2) .. n + 1 PROVE r[i] = list[i - 1]
      OBVIOUS
    <2>1. ~(i <= k + 1) /\ i \in 1 .. (k + 1) + (n - k) /\ i - (k + 1) \in 1 .. n - k
      BY <1>1
    <2>2. r[i] = y[i - (k + 1)] /\ y[i - (k + 1)] = list[k + (i - (k + 1))]
      BY <1>3, <1>7, <2>1
    <2>3. k + (i - (k + 1)) = i - 1
      BY <1>1
    <2> QED BY <2>2, <2>3
  <1> QED BY <1>7, <1>8, <1>9, <1>10, <1>11

\* alarmClockInsertAlarm keeps the list, when the alarm's identifier is not on it.
LEMMA InsertKeeps ==
    ASSUME NEW list, Kept(list), NEW a \in Alarm, a.id \notin Ids(list)
    PROVE  /\ Kept(InsertAlarm(list, a))
           /\ Ids(InsertAlarm(list, a)) = Ids(list) \cup {a.id}
  <1>1. PICK k \in 0 .. Len(list) :
            /\ k = 0 \/ list[k].exp <= a.exp
            /\ \A j \in (k + 1) .. Len(list) : a.exp < list[j].exp
            /\ InsertAlarm(list, a) = InsertAt(list, k + 1, a)
    BY PlaceExists DEF Kept, InsertAlarm
  <1> DEFINE r == InsertAlarm(list, a)
             n == Len(list)
  <1>2. /\ r \in Seq(Alarm) /\ Len(r) = n + 1
        /\ \A i \in 1 .. k : r[i] = list[i]
        /\ r[k + 1] = a
        /\ \A i \in (k + 2) .. n + 1 : r[i] = list[i - 1]
    <2>1. list \in Seq(Alarm)
      BY DEF Kept
    <2>2. r = InsertAt(list, k + 1, a)
      BY <1>1
    <2> HIDE DEF r
    <2> QED BY <2>1, <2>2, InsertedAt, ZenonT(60)
  <1> HIDE DEF r
  <1>3. /\ n \in Nat /\ k \in Nat /\ a.exp \in Nat
        /\ \A i \in 1 .. n : list[i] \in Alarm /\ list[i].exp \in Nat
    <2>1. list \in Seq(Alarm)
      BY DEF Kept
    <2>2. n \in Nat /\ \A i \in 1 .. n : list[i] \in Alarm
      BY <2>1, LenProperties, ElementOfSeq
    <2> QED BY <2>2 DEF Alarm
  <1>4. \A i \in 1 .. n + 1 :
            \/ i \in 1 .. k /\ i \in 1 .. n /\ r[i] = list[i]
            \/ i = k + 1 /\ r[i] = a
            \/ i \in (k + 2) .. n + 1 /\ i - 1 \in 1 .. n /\ r[i] = list[i - 1]
    BY <1>1, <1>2, <1>3
  <1>5. ASSUME NEW i \in 1 .. k
        PROVE  list[i].exp <= a.exp
    <2>1. i \in 1 .. n /\ k \in 1 .. n /\ i <= k /\ k # 0
      BY <1>1, <1>3
    <2>2. list[i].exp <= list[k].exp /\ list[k].exp <= a.exp
      BY <1>1, <2>1 DEF Kept
    <2> QED BY <1>3, <2>1, <2>2
  <1>6. ASSUME NEW i \in 1 .. n + 1, NEW j \in 1 .. n + 1, i <= j
        PROVE  r[i].exp <= r[j].exp
    <2>1. CASE i \in 1 .. k
      <3>1. CASE j \in 1 .. k
        <4>1. i \in 1 .. n /\ j \in 1 .. n
          BY <1>1, <1>3, <2>1, <3>1
        <4> QED BY <1>2, <1>6, <2>1, <3>1, <4>1 DEF Kept
      <3>2. CASE j = k + 1
        BY <1>2, <1>5, <2>1, <3>2
      <3>3. CASE j \in (k + 2) .. n + 1
        <4>1. i \in 1 .. n /\ j - 1 \in 1 .. n /\ i <= j - 1
          BY <1>1, <1>3, <2>1, <3>3
        <4> QED BY <1>2, <2>1, <3>3, <4>1 DEF Kept
      <3> QED BY <1>4, <3>1, <3>2, <3>3
    <2>2. CASE i = k + 1
      <3>1. CASE j = k + 1
        BY <1>2, <2>2, <3>1 DEF Alarm
      <3>2. CASE j \in (k + 2) .. n + 1
        <4>1. j - 1 \in (k + 1) .. n /\ j - 1 \in 1 .. n
          BY <1>1, <1>3, <3>2
        <4>2. a.exp < list[j - 1].exp
          BY <1>1, <4>1
        <4>3. r[i] = a /\ r[j] = list[j - 1] /\ list[j - 1].exp \in Nat
          BY <1>2, <1>3, <2>2, <3>2, <4>1
        <4> QED BY <1>3, <4>2, <4>3
      <3> QED BY <1>1, <1>3, <1>4, <1>6, <2>2, <3>1, <3>2
    <2>3. CASE i \in (k + 2) .. n + 1
      <3>1. j \in (k + 2) .. n + 1 /\ i - 1 \in 1 .. n /\ j - 1 \in 1 .. n /\ i - 1 <= j - 1
        BY <1>1, <1>3, <1>6, <2>3
      <3> QED BY <1>2, <2>3, <3>1 DEF Kept
    <2> QED BY <1>4, <2>1, <2>2, <2>3
  <1>7. ASSUME NEW i \in 1 .. n + 1, NEW j \in 1 .. n + 1, r[i].id = r[j].id
        PROVE  i = j
    <2>1. \A l \in 1 .. n : list[l].id # a.id
      BY DEF Ids
    <2>2. CASE i = k + 1
      BY <1>2, <1>4, <1>7, <2>1, <2>2
    <2>3. CASE j = k + 1
      BY <1>2, <1>4, <1>7, <2>1, <2>3
    <2>4. CASE i # k + 1 /\ j # k + 1
      <3> DEFINE l == IF i <= k THEN i ELSE i - 1
                 m == IF j <= k THEN j ELSE j - 1
      <3>1. l \in 1 .. n /\ m \in 1 .. n /\ (l = m => i = j)
        BY <1>1, <1>3, <2>4
      <3>2. r[i] = list[l]
        BY <1>1, <1>3, <1>4, <2>4
      <3>3. r[j] = list[m]
        BY <1>1, <1>3, <1>4, <2>4
      <3> HIDE DEF l, m
      <3> QED BY <1>7, <3>1, <3>2, <3>3 DEF Kept
    <2> QED BY <2>2, <2>3, <2>4
  <1>8. Kept(r)
    BY <1>2, <1>6, <1>7 DEF Kept
  <1>9. Ids(r) = Ids(list) \cup {a.id}
    <2>1. Ids(r) \subseteq Ids(list) \cup {a.id}
      BY <1>2, <1>4 DEF Ids
    <2>2. a.id \in Ids(r)
      <3>1. k + 1 \in 1 .. n + 1
        BY <1>1, <1>3
      <3> QED BY <1>2, <3>1 DEF Ids
    <2>3. ASSUME NEW i \in 1 .. n
          PROVE  list[i].id \in Ids(r)
      <3>1. CASE i <= k
        BY <1>1, <1>2, <1>3, <3>1 DEF Ids
      <3>2. CASE ~(i <= k)
        <4>1. i + 1 \in (k + 2) .. n + 1 /\ i + 1 \in 1 .. n + 1 /\ (i + 1) - 1 = i
          BY <1>1, <1>3, <3>2
        <4>2. r[i + 1] = list[i]
          BY <1>2, <4>1
        <4> QED BY <1>2, <4>1, <4>2 DEF Ids
      <3> QED BY <3>1, <3>2
    <2> QED BY <2>1, <2>2, <2>3 DEF Ids
  <1> QED BY <1>8, <1>9 DEF r

\* Taking the alarm at place k off the list keeps it, and takes that identifier off.
LEMMA RemoveKeeps ==
    ASSUME NEW list, Kept(list), NEW k \in 1 .. Len(list)
    PROVE  /\ Kept(RemoveAt(list, k))
           /\ Ids(RemoveAt(list, k)) = Ids(list) \ {list[k].id}
  <1> DEFINE n == Len(list)
             x == SubSeq(list, 1, k - 1)
             y == SubSeq(list, k + 1, n)
             r == x \o y
  <1>1. n \in Nat /\ k \in Nat /\ list \in Seq(Alarm) /\ \A i \in 1 .. n : list[i] \in Alarm
    BY LenProperties, ElementOfSeq DEF Kept
  <1>2. x \in Seq(Alarm) /\ Len(x) = k - 1 /\ \A i \in 1 .. k - 1 : x[i] = list[i]
    <2>1. /\ x \in Seq(Alarm) /\ Len(x) = IF 1 <= k - 1 THEN (k - 1) - 1 + 1 ELSE 0
          /\ \A i \in 1 .. (k - 1) - 1 + 1 : x[i] = list[1 + i - 1]
      BY <1>1, SubSeqProperties
    <2> HIDE DEF x
    <2> QED BY <1>1, <2>1
  <1>3. /\ y \in Seq(Alarm) /\ Len(y) = n - k
        /\ \A i \in 1 .. n - k : y[i] = list[k + i]
    <2>1. \A i \in (k + 1) .. n : list[i] \in Alarm
      BY <1>1
    <2>2. /\ y \in Seq(Alarm) /\ Len(y) = IF k + 1 <= n THEN n - (k + 1) + 1 ELSE 0
          /\ \A i \in 1 .. n - (k + 1) + 1 : y[i] = list[(k + 1) + i - 1]
      BY <1>1, <2>1, SubSeqProperties
    <2> HIDE DEF y
    <2> QED BY <1>1, <2>2
  <1>4. RemoveAt(list, k) = r
    BY DEF RemoveAt
  <1> HIDE DEF x, y
  <1>5. /\ r \in Seq(Alarm) /\ Len(r) = n - 1
        /\ \A i \in 1 .. n - 1 : r[i] = IF i < k THEN list[i] ELSE list[i + 1]
    <2>1. /\ r \in Seq(Alarm) /\ Len(r) = Len(x) + Len(y)
          /\ \A i \in 1 .. Len(x) + Len(y) : r[i] = IF i <= Len(x) THEN x[i] ELSE y[i - Len(x)]
      BY <1>2, <1>3, ConcatProperties
    <2> HIDE DEF r
    <2>2. Len(r) = n - 1
      BY <1>1, <1>2, <1>3, <2>1
    <2>3. ASSUME NEW i \in 1 .. n - 1
          PROVE  r[i] = IF i < k THEN list[i] ELSE list[i + 1]
      <3>1. CASE i < k
        BY <1>1, <1>2, <1>3, <2>1, <3>1, SMTT(60)
      <3>2. CASE ~(i < k)
        <4>1. ~(i <= k - 1) /\ i - (k - 1) \in 1 .. n - k /\ k + (i - (k - 1)) = i + 1
          BY <1>1, <3>2
        <4>2. r[i] = y[i - (k - 1)]
          <5>1. i \in 1 .. Len(x) + Len(y) /\ Len(x) = k - 1
            BY <1>1, <1>2, <1>3
          <5> QED BY <2>1, <4>1, <5>1
        <4> QED BY <1>3, <3>2, <4>1, <4>2
      <3> QED BY <3>1, <3>2
    <2> QED BY <2>1, <2>2, <2>3
  <1> HIDE DEF r
  <1>6. ASSUME NEW i \in 1 .. n - 1, NEW j \in 1 .. n - 1, i <= j
        PROVE  r[i].exp <= r[j].exp
    <2> DEFINE l == IF i < k THEN i ELSE i + 1
               m == IF j < k THEN j ELSE j + 1
    <2>1. l \in 1 .. n /\ m \in 1 .. n /\ l <= m
      BY <1>1, <1>6
    <2>2. r[i] = list[l] /\ r[j] = list[m]
      BY <1>5
    <2> HIDE DEF l, m
    <2> QED BY <2>1, <2>2 DEF Kept
  <1>7. \A i, j \in 1 .. n - 1 : r[i].id = r[j].id => i = j
    <2> SUFFICES ASSUME NEW i \in 1 .. n - 1, NEW j \in 1 .. n - 1, r[i].id = r[j].id
                 PROVE  i = j
      OBVIOUS
    <2> DEFINE l == IF i < k THEN i ELSE i + 1
               m == IF j < k THEN j ELSE j + 1
    <2>1. l \in 1 .. n /\ m \in 1 .. n /\ (l = m => i = j)
      BY <1>1
    <2>2. r[i] = list[l] /\ r[j] = list[m]
      BY <1>5
    <2> HIDE DEF l, m
    <2> QED BY <2>1, <2>2 DEF Kept
  <1>8. Kept(r)
    BY <1>5, <1>6, <1>7 DEF Kept
  <1>9. Ids(r) = Ids(list) \ {list[k].id}
    <2>1. ASSUME NEW i \in 1 .. n - 1
          PROVE  r[i].id \in Ids(list) \ {list[k].id}
      <3>1. PICK l \in 1 .. n : l # k /\ r[i] = list[l]
        BY <1>1, <1>5
      <3> QED BY <3>1 DEF Ids, Kept
    <2>2. ASSUME NEW i \in 1 .. n, i # k
          PROVE  list[i].id \in Ids(r)
      <3>1. PICK l \in 1 .. n - 1 : r[l] = list[i]
        <4>1. CASE i < k
          BY <1>1, <1>5, <4>1
        <4>2. CASE i > k
          <5>1. i - 1 \in 1 .. n - 1 /\ ~(i - 1 < k) /\ (i - 1) + 1 = i
            BY <1>1, <4>2
          <5>2. r[i - 1] = list[i]
            BY <1>5, <5>1
          <5> QED BY <5>1, <5>2
        <4> QED BY <1>1, <2>2, <4>1, <4>2
      <3> QED BY <1>5, <3>1 DEF Ids
    <2> QED BY <1>5, <2>1, <2>2 DEF Ids
  <1> QED BY <1>4, <1>8, <1>9

-----------------------------------------------------------------------------
\* The parts of the invariant that follow from a list that is kept.
LEMMA IdsAreAlarmIds ==
    ASSUME alarms \in Seq(Alarm)
    PROVE  DOMAIN alarms = 1 .. Len(alarms) /\ AlarmIds = Ids(alarms) /\ Len(alarms) \in Nat
  BY LenProperties DEF AlarmIds, Ids

\* No alarm is lost, as far as the list and the history go.
Accounted(list, n, gone, fired) == Ids(list) = 1 .. n \ (gone \cup fired)

LEMMA NoAlarmLostMeans ==
    ASSUME Kept(alarms)
    PROVE  NoAlarmLost <=> Accounted(alarms, identifier, removed, spent)
  <1>1. /\ DOMAIN alarms = 1 .. Len(alarms) /\ AlarmIds = Ids(alarms)
        /\ \A i, j \in 1 .. Len(alarms) : alarms[i].id = alarms[j].id => i = j
    BY IdsAreAlarmIds DEF Kept
  <1> QED BY <1>1 DEF NoAlarmLost, Accounted

\* The thread that goes to the head of its loop with a list that is kept waits for
\* its first alarm, if it waits.
LEMMA LoopKeeps ==
    ASSUME NEW list, Kept(list), NEW quit, timeout \in Nat, Loop(list, quit)
    PROVE  /\ timeout' \in Nat /\ tpc' \in {"exited", "wait"}
           /\ tpc' = "wait" => \A i \in 1 .. Len(list) : timeout' <= list[i].exp
  <1>1. /\ list \in Seq(Alarm) /\ Len(list) \in Nat
        /\ \A i \in 1 .. Len(list) : list[i] \in Alarm
    BY LenProperties, ElementOfSeq DEF Kept
  <1>2. list # <<>> => 1 \in 1 .. Len(list) /\ list[1].exp \in Nat
    BY <1>1, EmptySeq DEF Alarm
  <1>3. Forever \in Nat
    BY ClockAssumption DEF Forever
  <1>4. CASE quit
    BY <1>4 DEF Loop
  <1>5. CASE ~quit /\ list = <<>>
    BY <1>3, <1>5 DEF Loop
  <1>6. CASE ~quit /\ list # <<>>
    <2>1. timeout' = list[1].exp /\ tpc' = "wait"
      BY <1>6 DEF Loop
    <2>2. \A i \in 1 .. Len(list) : list[1].exp <= list[i].exp
      BY <1>1, <1>2, <1>6 DEF Kept
    <2> QED BY <1>2, <1>6, <2>1, <2>2
  <1> QED BY <1>4, <1>5, <1>6

\* The invariant after a step, from the list, the history and the thread.
LEMMA ListChanged ==
    ASSUME IInv, Typed', Kept(alarms'), Accounted(alarms', identifier', removed', spent'),
           tpc' = "wait" => \A i \in 1 .. Len(alarms') : timeout' <= alarms'[i].exp,
           NeverEarly', tpc' = "timedout" => timeout' <= now'
    PROVE  IInv'
  <1>1. /\ DOMAIN (alarms') = 1 .. Len(alarms') /\ AlarmIds' = Ids(alarms')
        /\ \A i, j \in 1 .. Len(alarms') : alarms'[i].id = alarms'[j].id => i = j
    BY LenProperties DEF Kept, AlarmIds, Ids
  <1>2. NoAlarmLost'
    BY <1>1 DEF NoAlarmLost, Accounted
  <1>3. NeverOversleeps'
    BY <1>1 DEF NeverOversleeps
  <1> QED BY <1>2, <1>3 DEF IInv

\* A step that leaves the alarms alone.
LEMMA ListUnchanged ==
    ASSUME IInv, UNCHANGED alarmVars, Typed',
           tpc' = "wait" => \A i \in 1 .. Len(alarms) : timeout' <= alarms[i].exp,
           tpc' = "timedout" => timeout' <= now'
    PROVE  IInv'
  <1>1. Kept(alarms') /\ Accounted(alarms', identifier', removed', spent')
    BY NoAlarmLostMeans DEF IInv, alarmVars
  <1>2. NeverEarly'
    BY DEF IInv, NeverEarly, alarmVars
  <1> QED BY <1>1, <1>2, ListChanged DEF alarmVars

\* A thread that did not wait before a signal, or does not after it.
LEMMA Signalled ==
    ASSUME Signal
    PROVE  tpc' # "wait" /\ (tpc' = "timedout" => tpc = "timedout")
  BY DEF Signal

-----------------------------------------------------------------------------
LEMMA InitIInv ==
    Init => IInv
  <1> SUFFICES ASSUME Init PROVE IInv
    OBVIOUS
  <1>1. Kept(alarms)
    BY DEF Init, Kept
  <1>2. Forever \in Nat
    BY ClockAssumption DEF Forever
  <1>3. Typed
    BY <1>2 DEF Init, Typed
  <1>4. NoAlarmLost
    BY DEF Init, NoAlarmLost, AlarmIds
  <1> QED BY <1>1, <1>3, <1>4 DEF Init, IInv, NeverOversleeps, NeverEarly

LEMMA AddAlarmKeeps ==
    ASSUME IInv, NEW periodic \in BOOLEAN, NEW exp \in Nat, AddAlarm(periodic, exp)
    PROVE  IInv'
  <1> DEFINE a == [id |-> identifier + 1, periodic |-> periodic, exp |-> exp]
  <1>1. a \in Alarm /\ a.id = identifier + 1 /\ identifier \in Nat
    BY DEF Alarm, IInv, Typed
  <1> HIDE DEF a
  <1>2. identifier' = identifier + 1 /\ alarms' = InsertAlarm(alarms, a) /\ Signal
    BY DEF AddAlarm, a
  <1>3. UNCHANGED <<timeout, callVars, now, removed, spent, lastFired>>
    BY DEF AddAlarm
  <1>4. Ids(alarms) = 1 .. identifier \ (removed \cup spent) /\ Kept(alarms)
    BY NoAlarmLostMeans DEF IInv, Accounted
  <1>5. removed \subseteq 1 .. identifier /\ spent \subseteq 1 .. identifier
    BY DEF IInv, Typed
  <1>6. a.id \notin Ids(alarms)
    BY <1>1, <1>4
  <1>7. Kept(alarms') /\ Ids(alarms') = Ids(alarms) \cup {identifier + 1}
    BY <1>1, <1>2, <1>4, <1>6, InsertKeeps
  <1>8. Accounted(alarms', identifier', removed', spent')
    BY <1>1, <1>2, <1>3, <1>4, <1>5, <1>7 DEF Accounted
  <1>9. Typed'
    BY <1>1, <1>2, <1>3 DEF IInv, Typed, callVars
  <1>10. NeverEarly' /\ (tpc' = "timedout" => timeout' <= now')
    BY <1>2, <1>3, Signalled DEF IInv, NeverEarly
  <1> QED BY <1>2, <1>7, <1>8, <1>9, <1>10, Signalled, ListChanged

LEMMA RemAlarmKeeps ==
    ASSUME IInv, NEW id \in 1 .. identifier, RemAlarm(id)
    PROVE  IInv'
  <1>1. removed' = removed \cup {id} /\ Signal
    BY DEF RemAlarm
  <1>2. UNCHANGED <<identifier, timeout, callVars, now, spent, lastFired>>
    BY DEF RemAlarm
  <1>3. /\ Ids(alarms) = 1 .. identifier \ (removed \cup spent) /\ Kept(alarms)
        /\ DOMAIN alarms = 1 .. Len(alarms) /\ AlarmIds = Ids(alarms)
    BY NoAlarmLostMeans, IdsAreAlarmIds DEF IInv, Accounted, Kept
  <1>4. Kept(alarms') /\ Ids(alarms') = Ids(alarms) \ {id}
    <2>1. CASE id \notin AlarmIds /\ UNCHANGED alarms
      BY <1>3, <2>1
    <2>2. CASE \E i \in DOMAIN alarms : alarms[i].id = id /\ alarms' = RemoveAt(alarms, i)
      BY <1>3, <2>2, RemoveKeeps
    <2> QED BY <2>1, <2>2 DEF RemAlarm
  <1>5. Accounted(alarms', identifier', removed', spent')
    BY <1>1, <1>2, <1>3, <1>4 DEF Accounted
  <1>6. Typed'
    BY <1>1, <1>2 DEF IInv, Typed, callVars
  <1>7. NeverEarly' /\ (tpc' = "timedout" => timeout' <= now')
    BY <1>1, <1>2, Signalled DEF IInv, NeverEarly
  <1> QED BY <1>1, <1>4, <1>5, <1>6, <1>7, Signalled, ListChanged

\* The steps of the clock's thread that fire nothing.
LEMMA ThreadKeeps ==
    ASSUME IInv, Begin \/ TimedOut \/ Woken \/ Ignore
    PROVE  IInv'
  <1>1. UNCHANGED alarmVars /\ UNCHANGED <<callVars, now>>
    BY DEF Begin, TimedOut, Woken, Ignore
  <1>2. CASE TimedOut
    <2>1. UNCHANGED timeout /\ tpc' = "timedout" /\ timeout <= now
      BY <1>2 DEF TimedOut
    <2>2. Typed'
      BY <1>1, <2>1 DEF IInv, Typed, alarmVars, callVars
    <2> QED BY <1>1, <2>1, <2>2, ListUnchanged
  <1>3. CASE ~TimedOut
    <2>1. \E quit : Loop(alarms, quit)
      BY <1>3 DEF Begin, Woken, Ignore
    <2>2. /\ timeout' \in Nat /\ tpc' \in {"exited", "wait"}
          /\ tpc' = "wait" => \A i \in 1 .. Len(alarms) : timeout' <= alarms[i].exp
      BY <2>1, LoopKeeps DEF IInv, Typed
    <2>3. Typed'
      BY <1>1, <2>2 DEF IInv, Typed, alarmVars, callVars
    <2> QED BY <1>1, <2>2, <2>3, ListUnchanged
  <1> QED BY <1>2, <1>3

\* The first alarm taken off.
LEMMA TailKeeps ==
    ASSUME NEW list, Kept(list), list # <<>>
    PROVE  /\ Kept(Tail(list)) /\ Ids(Tail(list)) = Ids(list) \ {list[1].id}
           /\ 1 \in 1 .. Len(list) /\ list[1] \in Alarm
  <1>1. list \in Seq(Alarm) /\ Len(list) \in Nat /\ 1 \in 1 .. Len(list)
    BY EmptySeq, LenProperties DEF Kept
  <1>2. list[1] \in Alarm
    BY <1>1, ElementOfSeq
  <1>3. RemoveAt(list, 1) = Tail(list)
    <2> DEFINE y == SubSeq(list, 2, Len(list))
    <2>1. SubSeq(list, 1, 1 - 1) = <<>> /\ 1 + 1 = 2
      BY SubSeqEmpty
    <2>2. Tail(list) = y /\ Tail(list) \in Seq(Alarm)
      BY <1>1, TailIsSubSeq, HeadTailProperties
    <2>3. <<>> \o y = y
      BY <2>2, ConcatEmptySeq
    <2>4. RemoveAt(list, 1) = <<>> \o y
      BY <2>1, Zenon DEF RemoveAt, y
    <2> QED BY <2>2, <2>3, <2>4
  <1>4. /\ Kept(RemoveAt(list, 1))
        /\ Ids(RemoveAt(list, 1)) = Ids(list) \ {list[1].id}
    BY <1>1, RemoveKeeps
  <1> QED BY <1>1, <1>2, <1>3, <1>4, Zenon

LEMMA ExpireKeeps ==
    ASSUME IInv, Expire
    PROVE  IInv'
  <1> DEFINE a == alarms[1]
             b == [a EXCEPT !.exp = IF a.exp + Period < now THEN now ELSE a.exp + Period]
             rest == Tail(alarms)
  <1>1. Kept(alarms) /\ alarms # <<>> /\ a.exp = timeout /\ tpc = "timedout"
    BY DEF Expire, IInv
  <1>2. /\ Kept(rest) /\ Ids(rest) = Ids(alarms) \ {a.id}
        /\ a \in Alarm /\ a.id \in Ids(alarms)
    BY <1>1, TailKeeps DEF Ids
  <1>3. b \in Alarm /\ b.id = a.id
    BY <1>2, ClockAssumption DEF Alarm, IInv, Typed
  <1>4. /\ UNCHANGED <<identifier, removed, callVars, now>>
        /\ lastFired' = [alarm |-> a, at |-> now]
        /\ spent' = IF a.periodic THEN spent ELSE spent \cup {a.id}
        /\ alarms' = IF a.periodic THEN InsertAlarm(rest, b) ELSE rest
        /\ Loop(alarms', threadQuit)
    BY DEF Expire, Reinsert
  <1> HIDE DEF a, b, rest
  <1>5. Ids(alarms) = 1 .. identifier \ (removed \cup spent)
    BY NoAlarmLostMeans DEF IInv, Accounted
  <1>6. Kept(alarms') /\ Accounted(alarms', identifier', removed', spent')
    <2>1. CASE a.periodic
      <3>1. Kept(alarms') /\ Ids(alarms') = Ids(alarms)
        BY <1>2, <1>3, <1>4, <2>1, InsertKeeps
      <3> QED BY <1>4, <1>5, <2>1, <3>1 DEF Accounted
    <2>2. CASE ~a.periodic
      <3>1. Kept(alarms') /\ Ids(alarms') = Ids(alarms) \ {a.id}
        BY <1>2, <1>4, <2>2
      <3> QED BY <1>4, <1>5, <2>2, <3>1 DEF Accounted
    <2> QED BY <2>1, <2>2
  <1>7. /\ timeout' \in Nat /\ tpc' \in {"exited", "wait"}
        /\ tpc' = "wait" => \A i \in 1 .. Len(alarms') : timeout' <= alarms'[i].exp
    BY <1>4, <1>6, LoopKeeps DEF IInv, Typed
  <1>8. a.id \in 1 .. identifier
    BY <1>2, <1>5
  <1>9. Typed'
    BY <1>4, <1>7, <1>8 DEF IInv, Typed, callVars
  <1>10. NeverEarly'
    BY <1>1, <1>4 DEF IInv, NeverEarly
  <1> QED BY <1>6, <1>7, <1>9, <1>10, ListChanged

\* The calls.
LEMMA CallKeeps ==
    ASSUME IInv, NEW c \in Controllers,
           Start(c) \/ Quit(c) \/ Join(c) \/ Unlock(c) \/ \E op \in Ops : Stop(c, op)
    PROVE  IInv'
  <1>1. UNCHANGED <<alarmVars, timeout, now>>
    BY DEF Start, Quit, Join, Unlock, Stop, threadVars
  <1>2. (tpc' = "wait" => tpc = "wait") /\ (tpc' = "timedout" => tpc = "timedout")
    BY DEF Start, Quit, Join, Unlock, Stop, threadVars, Signal
  <1>3. cpc' \in [Controllers -> {"idle", "quit", "join", "unlock", "recover"}]
    BY DEF Start, Quit, Join, Unlock, Stop, Goto, IInv, Typed
  <1>4. Typed'
    BY <1>1, <1>3 DEF IInv, Typed, alarmVars
  <1>5. tpc' = "wait" => \A i \in 1 .. Len(alarms) : timeout' <= alarms[i].exp
    BY <1>1, <1>2, IdsAreAlarmIds DEF IInv, Kept, NeverOversleeps
  <1> QED BY <1>1, <1>2, <1>4, <1>5, ListUnchanged DEF IInv

LEMMA RecoverKeeps ==
    ASSUME IInv, NEW c \in Controllers, Recover(c)
    PROVE  IInv'
  <1>1. /\ alarms' = <<>> /\ removed' = removed \cup AlarmIds
        /\ UNCHANGED <<identifier, spent, lastFired, threadVars, now>>
    BY DEF Recover
  <1>2. AlarmIds = Ids(alarms) /\ Ids(alarms) = 1 .. identifier \ (removed \cup spent)
    BY IdsAreAlarmIds, NoAlarmLostMeans DEF IInv, Kept, Accounted
  <1>3. cpc' \in [Controllers -> {"idle", "quit", "join", "unlock", "recover"}]
    BY DEF Recover, Goto, IInv, Typed
  <1>4. Typed'
    BY <1>1, <1>2, <1>3 DEF IInv, Typed, threadVars
  <1>5. /\ Kept(alarms') /\ Accounted(alarms', identifier', removed', spent')
        /\ \A i \in 1 .. Len(alarms') : timeout' <= alarms'[i].exp
    BY <1>1, <1>2 DEF Kept, Accounted, Ids
  <1>6. NeverEarly' /\ (tpc' = "timedout" => timeout' <= now')
    BY <1>1 DEF IInv, NeverEarly, threadVars
  <1> QED BY <1>4, <1>5, <1>6, ListChanged

LEMMA TimeKeeps ==
    ASSUME IInv, Tick \/ UNCHANGED vars
    PROVE  IInv'
  <1>1. UNCHANGED <<alarmVars, threadVars, callVars>> /\ now' \in Nat /\ now <= now'
    BY DEF Tick, vars, IInv, Typed
  <1>2. Typed'
    BY <1>1 DEF IInv, Typed, alarmVars, threadVars, callVars
  <1>3. tpc' = "wait" => \A i \in 1 .. Len(alarms) : timeout' <= alarms[i].exp
    BY <1>1, IdsAreAlarmIds DEF IInv, Kept, NeverOversleeps, threadVars
  <1>4. tpc' = "timedout" => timeout' <= now'
    BY <1>1 DEF IInv, Typed, threadVars
  <1> QED BY <1>1, <1>2, <1>3, <1>4, ListUnchanged

LEMMA NextIInv ==
    ASSUME IInv, [Next]_vars
    PROVE  IInv'
  <1>1. CASE AddAlarmPeriodic \/ AddAlarmOneShot
    <2>1. now \in Nat /\ Time \subseteq Nat
      BY ClockAssumption DEF Time, IInv, Typed
    <2> QED BY <1>1, <2>1, AddAlarmKeeps DEF AddAlarmPeriodic, AddAlarmOneShot
  <1>2. CASE \E id \in 1..identifier : RemAlarm(id)
    BY <1>2, RemAlarmKeeps
  <1>3. CASE ClockThread
    BY <1>3, ThreadKeeps, ExpireKeeps DEF ClockThread
  <1>4. ASSUME NEW c \in Controllers,
               Start(c) \/ CallStep(c) \/ \E op \in Ops : Stop(c, op)
        PROVE  IInv'
    BY <1>4, CallKeeps, RecoverKeeps DEF CallStep
  <1>5. CASE Tick \/ UNCHANGED vars
    BY <1>5, TimeKeeps
  <1> QED BY <1>1, <1>2, <1>3, <1>4, <1>5 DEF Next

-----------------------------------------------------------------------------
\* Every state satisfies the invariant.
THEOREM Invariance == Spec => []IInv
  <1>1. IInv /\ [Next]_vars => IInv'
    BY NextIInv
  <1> QED BY InitIInv, <1>1, PTL DEF Spec

\* alarmClockThread waits for no time past that of an alarm it has.
THEOREM Wakes == Spec => []NeverOversleeps
  <1>1. IInv => NeverOversleeps
    BY DEF IInv
  <1> QED BY Invariance, <1>1, PTL

\* alarmClockThread calls no alarm back before its time.
THEOREM OnTime == Spec => []NeverEarly
  <1>1. IInv => NeverEarly
    BY DEF IInv
  <1> QED BY Invariance, <1>1, PTL

\* An alarm is on the clock's list once from its addition to its removal or end.
THEOREM ListIsExact == Spec => []NoAlarmLost
  <1>1. IInv => NoAlarmLost
    BY DEF IInv
  <1> QED BY Invariance, <1>1, PTL

\* Once alarmClockRemAlarm has returned, alarmClockThread does not call the alarm.
THEOREM RemovedIsSilent == Spec => SilentOnceRemoved
  <1>1. IInv /\ [Next]_vars => [lastFired' # lastFired => lastFired'.alarm.id \notin removed]_vars
    <2> SUFFICES ASSUME IInv, Next, lastFired' # lastFired
                 PROVE  lastFired'.alarm.id \notin removed
      OBVIOUS
    <2>1. CASE Expire
      <3>1. Kept(alarms) /\ alarms # <<>> /\ lastFired'.alarm = alarms[1]
        BY <2>1 DEF Expire, IInv
      <3>2. alarms[1].id \in Ids(alarms)
        BY <3>1, TailKeeps DEF Ids
      <3>3. Ids(alarms) = 1 .. identifier \ (removed \cup spent)
        BY NoAlarmLostMeans DEF IInv, Accounted
      <3> QED BY <3>1, <3>2, <3>3
    <2>2. CASE ~Expire
      BY <2>2 DEF Next, AddAlarmPeriodic, AddAlarmOneShot, AddAlarm, RemAlarm, ClockThread, Begin,
                  TimedOut, Woken, Ignore, Start, CallStep, Quit, Join, Unlock, Recover, Stop,
                  Tick, alarmVars
    <2> QED BY <2>1, <2>2
  <1> QED BY Invariance, <1>1, PTL DEF Spec, SilentOnceRemoved
=============================================================================
