---------------------------- MODULE WalletProofs ----------------------------
(***************************************************************************)
(* What the wallet's list, ledger and balance are, for any transactions,    *)
(* scripts, amounts and order of calls: the list is sorted, of two          *)
(* conflicting transactions one counts, and the balance is what is unspent. *)
(* Also that a reorganisation and a removal miss nothing they must find.    *)
(*                                                                          *)
(* Every loop over the list is a recursive function in Wallet.  Iteration   *)
(* says that such a function exists, and CountUp what it is at its end.     *)
(***************************************************************************)
EXTENDS Wallet, FiniteSetTheorems, SequenceTheorems, WellFoundedInduction, TLAPS

-----------------------------------------------------------------------------
(* Induction, by the least counterexample, and iteration.                   *)

LEMMA LeastOf ==
    ASSUME NEW T \in SUBSET Nat, T # {}
    PROVE  \E x \in T : \A y \in T : x <= y
  <1>1. PICK x \in T : \A y \in T : ~ (<<y, x>> \in OpToRel(<, Nat))
    BY WFMin, NatLessThanWellFounded
  <1>2. \A y \in T : ~(y < x)
    BY <1>1 DEF OpToRel
  <1> QED BY <1>2

\* A set with 0 that has each number if it has the one before has them all.
LEMMA CountUp ==
    ASSUME NEW N \in Nat, NEW S, 0 \in S, \A n \in 1..N : n - 1 \in S => n \in S
    PROVE  \A n \in 0..N : n \in S
  <1> DEFINE T == (0..N) \ S
  <1>1. CASE T = {}
    BY <1>1
  <1>2. CASE T # {}
    <2>1. PICK n \in T : \A k \in T : n <= k
      <3>1. T \in SUBSET Nat
        OBVIOUS
      <3> HIDE DEF T
      <3> QED BY <1>2, <3>1, LeastOf
    <2>2. n \in 0..N /\ n # 0
      OBVIOUS
    <2>3. n \in 1..N /\ n - 1 \in 0..N /\ ~(n <= n - 1)
      BY <2>2
    <2>4. n - 1 \notin T
      BY <2>1, <2>3
    <2> QED BY <2>3, <2>4
  <1> QED BY <1>1, <1>2

\* f begins at c, and its n-th step is G[n].
Walk(f, S, c, G, N) ==
    /\ f \in [0..N -> S] /\ f[0] = c
    /\ \A n \in 1..N : f[n] = G[n][f[n - 1]]

\* There is such a function.
LEMMA Iteration ==
    ASSUME NEW S, NEW c \in S, NEW N \in Nat, NEW G \in [1..N -> [S -> S]]
    PROVE  \E f : Walk(f, S, c, G, N)
  <1> DEFINE Is(f, m) == f[0] = c /\ \A n \in 1..m : f[n] = G[n][f[n - 1]]
             T == {m \in 0..N : \E f \in [0..m -> S] : Is(f, m)}
  <1>1. 0 \in T
    <2>1. Is([n \in 0..0 |-> c], 0)
      OBVIOUS
    <2>2. [n \in 0..0 |-> c] \in [0..0 -> S]
      OBVIOUS
    <2>3. \E f \in [0..0 -> S] : Is(f, 0)
      BY <2>1, <2>2
    <2>4. 0 \in 0..N
      OBVIOUS
    <2> QED BY <2>3, <2>4
  <1>2. ASSUME NEW n \in 1..N, n - 1 \in T PROVE n \in T
    <2>1. PICK f \in [0..(n - 1) -> S] : Is(f, n - 1)
      BY <1>2
    <2> DEFINE g == [k \in 0..n |-> IF k = n THEN G[n][f[n - 1]] ELSE f[k]]
    <2>2. n - 1 \in 0..(n - 1) /\ f[n - 1] \in S /\ G[n] \in [S -> S]
      BY <2>1
    <2>3. g \in [0..n -> S] /\ g[0] = c
      BY <2>1, <2>2
    <2>4. ASSUME NEW k \in 1..n PROVE g[k] = G[k][g[k - 1]]
      <3>1. k - 1 \in 0..n /\ k - 1 # n /\ g[k - 1] = f[k - 1]
        OBVIOUS
      <3>2. CASE k = n
        BY <3>1, <3>2
      <3>3. CASE k # n
        <4>1. k \in 1..(n - 1)
          BY <3>3
        <4> QED BY <2>1, <3>1, <3>3, <4>1
      <3> QED BY <3>2, <3>3
    <2> HIDE DEF g
    <2> QED BY <2>3, <2>4
  <1>3. N \in T
    <2>1. \A n \in 0..N : n \in T
      <3> HIDE DEF T
      <3> QED BY <1>1, <1>2, CountUp
    <2> QED BY <2>1
  <1> QED BY <1>3 DEF Walk

-----------------------------------------------------------------------------
(* Lists.                                                                   *)

\* No transaction twice, and sorted by the heights h.
Sorted(h) == {s \in Seq(Tx) : \A i, j \in 1..Len(s) :
                                  i < j => s[i] # s[j] /\ h[s[i]] <= h[s[j]]}

Heights == [Tx -> 0..Unconfirmed]

LEMMA InList ==
    ASSUME NEW s \in Seq(Tx)
    PROVE  /\ Len(s) \in Nat /\ DOMAIN s = 1..Len(s)
           /\ \A i \in 1..Len(s) : s[i] \in Tx
           /\ Range(s) = {s[i] : i \in 1..Len(s)} /\ Range(s) \subseteq Tx
  <1>1. Len(s) \in Nat /\ DOMAIN s = 1..Len(s) /\ \A i \in 1..Len(s) : s[i] \in Tx
    BY LenProperties, ElementOfSeq
  <1>2. Range(s) = {s[i] : i \in 1..Len(s)}
    BY <1>1 DEF Range
  <1> QED BY <1>1, <1>2

LEMMA AppendTo ==
    ASSUME NEW h \in Heights, NEW s \in Sorted(h), NEW t \in Tx \ Range(s),
           \A u \in Range(s) : h[u] <= h[t]
    PROVE  Append(s, t) \in Sorted(h) /\ Range(Append(s, t)) = Range(s) \cup {t}
  <1> DEFINE a == Append(s, t)
  <1>1. s \in Seq(Tx) /\ Len(s) \in Nat
    BY LenProperties DEF Sorted
  <1>2. /\ a \in Seq(Tx) /\ Len(a) = Len(s) + 1 /\ a[Len(s) + 1] = t
        /\ \A i \in 1..Len(s) : a[i] = s[i]
    BY <1>1, AppendProperties
  <1> HIDE DEF a
  <1>3. /\ Range(s) = {s[i] : i \in 1..Len(s)} /\ Range(a) = {a[i] : i \in 1..Len(a)}
    BY <1>1, <1>2, InList
  <1>4. \A i \in 1..Len(a) : i \in 1..Len(s) \/ i = Len(s) + 1
    BY <1>1, <1>2
  <1>5. \A i \in 1..Len(s) : i \in 1..Len(a)
    BY <1>1, <1>2
  <1>6. Len(s) + 1 \in 1..Len(a)
    BY <1>1, <1>2
  <1>7. Range(a) = Range(s) \cup {t}
    BY <1>2, <1>3, <1>4, <1>5, <1>6
  <1>8. ASSUME NEW i \in 1..Len(a), NEW j \in 1..Len(a), i < j
        PROVE  a[i] # a[j] /\ h[a[i]] <= h[a[j]]
    <2>1. i \in 1..Len(s)
      BY <1>1, <1>2, <1>8
    <2>2. CASE j = Len(s) + 1
      BY <1>2, <1>3, <2>1, <2>2
    <2>3. CASE j \in 1..Len(s)
      BY <1>2, <1>8, <2>1, <2>3 DEF Sorted
    <2> QED BY <1>4, <2>2, <2>3
  <1>9. a \in Sorted(h)
    BY <1>2, <1>8 DEF Sorted
  <1> QED BY <1>7, <1>9 DEF a

\* What stays keeps its order.
LEMMA WithoutKeeps ==
    ASSUME NEW h \in Heights, NEW s \in Sorted(h), NEW gone
    PROVE  Without(s, gone) \in Sorted(h) /\ Range(Without(s, gone)) = Range(s) \ gone
  <1> DEFINE N == Len(s)
             S == Seq(Tx)
             E(n, x) == IF s[n] \in gone THEN x ELSE Append(x, s[n])
             G == [n \in 1..N |-> [x \in S |-> E(n, x)]]
             IsKept(f) == f = [n \in 0..N |-> IF n = 0 THEN <<>>
                                 ELSE IF s[n] \in gone THEN f[n - 1] ELSE Append(f[n - 1], s[n])]
             kept == CHOOSE f : IsKept(f)
  <1>1. s \in Seq(Tx) /\ N \in Nat /\ \A n \in 1..N : s[n] \in Tx
    BY InList DEF Sorted
  <1>2. \A n \in 1..N : \A x \in S : E(n, x) \in S
    BY <1>1, AppendProperties
  <1>3. G \in [1..N -> [S -> S]]
    <2> HIDE DEF S, E
    <2> QED BY <1>2
  <1>4. \E f : IsKept(f)
    <2>1. PICK f : Walk(f, S, <<>>, G, N)
      <3> HIDE DEF S, G, N
      <3>1. <<>> \in S
        BY DEF S
      <3> QED BY <1>1, <1>3, <3>1, Iteration
    <2>2. \A n \in 1..N : n - 1 \in 0..N
      BY <1>1
    <2>3. \A n \in 1..N : f[n] = E(n, f[n - 1])
      <3> HIDE DEF S, E, N
      <3> QED BY <2>1, <2>2 DEF Walk
    <2>4. \A n \in 0..N : n = 0 \/ n \in 1..N
      BY <1>1
    <2>5. IsKept(f)
      <3> HIDE DEF S, N, G
      <3> QED BY <2>1, <2>3, <2>4 DEF Walk
    <2> QED BY <2>5
  <1>5. IsKept(kept)
    <2> HIDE DEF IsKept
    <2> QED BY <1>4
  <1>6. Without(s, gone) = kept[N]
    BY DEF Without
  <1> HIDE DEF kept
  <1> DEFINE T == {n \in 0..N : /\ kept[n] \in Sorted(h)
                                /\ Range(kept[n]) = {s[i] : i \in 1..n} \ gone}
  <1>7. 0 \in T
    <2>1. kept[0] = <<>>
      BY <1>1, <1>5
    <2>2. <<>> \in Sorted(h) /\ Range(<<>>) = {}
      BY DEF Sorted, Range
    <2> QED BY <1>1, <2>1, <2>2
  <1>8. ASSUME NEW n \in 1..N, n - 1 \in T PROVE n \in T
    <2>0. n \in 0..N /\ n # 0
      BY <1>1
    <2>1. kept[n - 1] \in Sorted(h) /\ Range(kept[n - 1]) = {s[i] : i \in 1..(n - 1)} \ gone
      BY <1>8
    <2>2. {s[i] : i \in 1..n} = {s[i] : i \in 1..(n - 1)} \cup {s[n]}
      <3>1. \A i \in 1..n : i \in 1..(n - 1) \/ i = n
        OBVIOUS
      <3>2. n \in 1..n /\ \A i \in 1..(n - 1) : i \in 1..n
        OBVIOUS
      <3> QED BY <3>1, <3>2
    <2>3. CASE s[n] \in gone
      <3>1. kept[n] = kept[n - 1]
        BY <1>5, <2>0, <2>3, Zenon
      <3> QED BY <2>1, <2>2, <2>3, <3>1
    <2>4. CASE s[n] \notin gone
      <3>1. kept[n] = Append(kept[n - 1], s[n])
        BY <1>5, <2>0, <2>4, Zenon
      <3>2. \A i \in 1..(n - 1) : s[i] # s[n] /\ h[s[i]] <= h[s[n]]
        BY <1>1 DEF Sorted
      <3>3. s[n] \in Tx \ Range(kept[n - 1]) /\ \A u \in Range(kept[n - 1]) : h[u] <= h[s[n]]
        BY <1>1, <2>1, <3>2
      <3>4. /\ kept[n] \in Sorted(h)
            /\ Range(kept[n]) = Range(kept[n - 1]) \cup {s[n]}
        BY <2>1, <3>1, <3>3, AppendTo
      <3> QED BY <2>1, <2>2, <2>4, <3>4
    <2> QED BY <2>3, <2>4
  <1>9. N \in T
    <2>1. \A n \in 0..N : n \in T
      <3> HIDE DEF T
      <3> QED BY <1>1, <1>7, <1>8, CountUp
    <2>2. N \in 0..N
      BY <1>1
    <2> HIDE DEF T, N
    <2> QED BY ONLY <2>1, <2>2
  <1>10. Range(s) = {s[i] : i \in 1..N}
    BY <1>1, InList
  <1> QED BY <1>6, <1>9, <1>10

-----------------------------------------------------------------------------
(* The order of the list.                                                   *)

\* What depends on what may have cycles; the least solution is a solution.
LEMMA Ascends ==
    ASSUME NEW h \in Heights, NEW known \in SUBSET Tx, NEW t1 \in Tx, NEW t2 \in Tx
    PROVE  /\ h[t1] > h[t2] => TxIsAscending(t1, t2, known, h)
           /\ h[t1] < h[t2] => ~TxIsAscending(t1, t2, known, h)
  <1> DEFINE Above(t) == h[t] > h[t2]
             Level(t) == h[t] = h[t2]
             Before(t) == t2 \in Parents(t)
             After(t) == t \in Parents(t2)
             Holds(t, X) == \/ Above(t)
                            \/ /\ Level(t)
                               /\ \/ Before(t)
                                  \/ ~After(t) /\ \E p \in Parents(t) \cap known : p \in X
             Step(X) == {t \in Tx : Holds(t, X)}
             W == {t \in Tx : \A X \in SUBSET Tx : Step(X) \subseteq X => t \in X}
             IsAsc(f) == f = [t \in Tx |->
                                 \/ Above(t)
                                 \/ /\ Level(t)
                                    /\ \/ Before(t)
                                       \/ t \notin Parents(t2)
                                          /\ \E p \in Parents(t) \cap known : f[p]]
             g == [t \in Tx |-> t \in W]
             asc == CHOOSE f : IsAsc(f)
  <1>1. \A X, Y \in SUBSET Tx : X \subseteq Y => Step(X) \subseteq Step(Y)
    <2> HIDE DEF Above, Level, Before, After
    <2> QED OBVIOUS
  <1>2. W \in SUBSET Tx /\ \A X \in SUBSET Tx : Step(X) \subseteq X => W \subseteq X
    <2> HIDE DEF Step
    <2> QED OBVIOUS
  <1>3. \A X \in SUBSET Tx : Step(X) \in SUBSET Tx
    OBVIOUS
  <1>4. Step(W) \subseteq W
    <2> SUFFICES ASSUME NEW t \in Step(W), NEW X \in SUBSET Tx, Step(X) \subseteq X
                 PROVE  t \in X
      <3> HIDE DEF Step
      <3> QED BY <1>2, <1>3
    <2>1. W \subseteq X
      <3> HIDE DEF Step, W
      <3> QED BY <1>2
    <2>2. Step(W) \subseteq Step(X)
      <3> HIDE DEF Step, W
      <3> QED BY <1>1, <1>2, <2>1
    <2> HIDE DEF Step, W
    <2> QED BY <2>2
  <1>5. Step(W) = W
    <2>1. Step(Step(W)) \subseteq Step(W)
      <3> HIDE DEF Step, W
      <3> QED BY <1>1, <1>2, <1>3, <1>4
    <2> HIDE DEF Step, W
    <2> QED BY <1>2, <1>3, <1>4, <2>1
  <1>6. \A t \in Tx : t \in W <=> Holds(t, W)
    <2>1. \A t \in Tx : t \in W <=> t \in Step(W)
      <3> HIDE DEF Step, W
      <3> QED BY <1>5
    <2> HIDE DEF W, Holds
    <2> QED BY <2>1
  <1>7. \E f : IsAsc(f)
    <2>1. \A t \in Tx : g[t] <=> t \in W
      OBVIOUS
    <2>2. ASSUME NEW t \in Tx
          PROVE  (\E p \in Parents(t) \cap known : p \in W)
                    <=> (\E p \in Parents(t) \cap known : g[p])
      <3> HIDE DEF W, g
      <3> QED BY <2>1
    <2>3. ASSUME NEW t \in Tx
          PROVE  (t \in W) <=> \/ Above(t)
                               \/ /\ Level(t)
                                  /\ \/ Before(t)
                                     \/ t \notin Parents(t2)
                                        /\ \E p \in Parents(t) \cap known : g[p]
      <3>1. t \in W <=> Holds(t, W)
        BY <1>6
      <3> HIDE DEF W, g, Above, Level, Before
      <3> QED BY <2>2, <3>1
    <2>4. IsAsc(g)
      <3>1. \A t \in Tx : (t \in W) = \/ Above(t)
                                      \/ /\ Level(t)
                                         /\ \/ Before(t)
                                            \/ t \notin Parents(t2)
                                               /\ \E p \in Parents(t) \cap known : g[p]
        <4> HIDE DEF W, g, Above, Level, Before
        <4> TAKE t \in Tx
        <4>1. CASE t \in W
          BY <2>3, <4>1, Zenon
        <4>2. CASE t \notin W
          <5>1. (t \in W) = FALSE
            BY <4>2
          <5>2. (\/ Above(t)
                 \/ /\ Level(t)
                    /\ \/ Before(t)
                       \/ t \notin Parents(t2)
                          /\ \E p \in Parents(t) \cap known : g[p]) = FALSE
            <6>1. ~(\/ Above(t)
                 \/ /\ Level(t)
                    /\ \/ Before(t)
                       \/ t \notin Parents(t2)
                          /\ \E p \in Parents(t) \cap known : g[p])
              BY <2>3, <4>2, Zenon
            <6> QED BY <6>1
          <5> QED BY <5>1, <5>2
        <4> QED BY <4>1, <4>2, Zenon
      <3> HIDE DEF W, Above, Level, Before
      <3> QED BY <3>1, Zenon
    <2> HIDE DEF IsAsc, g
    <2> QED BY <2>4
  <1>8. IsAsc(asc)
    <2> HIDE DEF IsAsc
    <2> QED BY <1>7
  <1>9. TxIsAscending(t1, t2, known, h) = asc[t1]
    BY Zenon DEF TxIsAscending
  <1> HIDE DEF asc
  <1>10. /\ Above(t1) => asc[t1]
         /\ ~Above(t1) /\ ~Level(t1) => ~asc[t1]
    <2> HIDE DEF Above, Level, Before
    <2> QED BY <1>8, Zenon
  <1>11. h[t1] \in Int /\ h[t2] \in Int
    BY WalletAssumption DEF Heights, Unconfirmed
  <1> QED BY <1>9, <1>10, <1>11

LEMMA InOrder ==
    ASSUME NEW h \in Heights, NEW known \in SUBSET Tx, NEW d, NEW t \in Tx, NEW u \in Tx
    PROVE  /\ TxComesAfter(u, t, known, h, d) => h[t] <= h[u]
           /\ ~TxComesAfter(u, t, known, h, d) => h[u] <= h[t]
  <1>1. h[t] \in Int /\ h[u] \in Int
    BY DEF Heights
  <1>2. CASE h[t] = h[u]
    BY <1>1, <1>2
  <1>3. CASE h[t] < h[u]
    <2>1. TxIsAscending(u, t, known, h)
      BY <1>1, <1>3, Ascends
    <2>2. TxComesAfter(u, t, known, h, d)
      BY <2>1 DEF TxComesAfter
    <2> QED BY <1>1, <1>3, <2>2
  <1>4. CASE h[u] < h[t]
    <2>1. TxIsAscending(t, u, known, h) /\ ~TxIsAscending(u, t, known, h)
      BY <1>1, <1>4, Ascends
    <2>2. ~TxComesAfter(u, t, known, h, d)
      BY <2>1 DEF TxComesAfter
    <2> QED BY <1>1, <1>4, <2>2
  <1> QED BY <1>1, <1>2, <1>3, <1>4

\* The search from the end of the list for the place of t.
LEMMA PlaceOf ==
    ASSUME NEW N \in Nat, NEW After,
           NEW place,
           place = CHOOSE f : f = [i \in 0..N |-> IF i > 0 /\ i \in After THEN f[i - 1] ELSE i]
    PROVE  /\ place[N] \in 0..N
           /\ \A i \in (place[N] + 1)..N : i \in After
           /\ place[N] # 0 => place[N] \notin After
  <1> DEFINE S == 0..N
             E(i, x) == IF i \in After THEN x ELSE i
             G == [i \in 1..N |-> [x \in S |-> E(i, x)]]
             IsPlace(f) == f = [i \in 0..N |-> IF i > 0 /\ i \in After THEN f[i - 1] ELSE i]
             T == {n \in 0..N : /\ place[n] \in 0..n
                                /\ \A i \in (place[n] + 1)..n : i \in After
                                /\ place[n] # 0 => place[n] \notin After}
  <1>1. \E f : IsPlace(f)
    <2>1. G \in [1..N -> [S -> S]]
      OBVIOUS
    <2>2. PICK f : Walk(f, S, 0, G, N)
      <3>1. 0 \in S
        OBVIOUS
      <3> HIDE DEF S, G
      <3> QED BY <2>1, <3>1, Iteration
    <2>3. \A n \in 1..N : n - 1 \in 0..N /\ n > 0
      OBVIOUS
    <2>4. \A n \in 1..N : f[n] = E(n, f[n - 1])
      <3> HIDE DEF E
      <3> QED BY <2>2, <2>3 DEF Walk
    <2>5. f \in [0..N -> S] /\ f[0] = 0
      BY <2>2 DEF Walk
    <2>6. \A n \in 0..N : n = 0 \/ n \in 1..N
      OBVIOUS
    <2>7. \A n \in 0..N : f[n] = IF n > 0 /\ n \in After THEN f[n - 1] ELSE n
      BY <2>3, <2>4, <2>5, <2>6
    <2>8. IsPlace(f)
      <3> HIDE DEF S
      <3> QED BY <2>5, <2>7
    <2> HIDE DEF IsPlace
    <2> QED BY <2>8
  <1>2. IsPlace(place)
    <2>1. place = CHOOSE f : IsPlace(f)
      OBVIOUS
    <2> HIDE DEF IsPlace
    <2> QED BY <1>1, <2>1
  <1>3. 0 \in T
    <2>1. place[0] = 0
      BY <1>2
    <2>2. 0 \in 0..0 /\ 0 \in 0..N /\ \A i \in (0 + 1)..0 : i \in After
      OBVIOUS
    <2> HIDE DEF IsPlace
    <2> QED BY <2>1, <2>2
  <1>4. ASSUME NEW n \in 1..N, n - 1 \in T PROVE n \in T
    <2>1. n \in 0..N /\ n > 0
      OBVIOUS
    <2>2. CASE n \in After
      <3>1. place[n] = place[n - 1]
        BY <1>2, <2>1, <2>2
      <3>2. \A i \in (place[n - 1] + 1)..n : i \in (place[n - 1] + 1)..(n - 1) \/ i = n
        BY <1>4
      <3>3. /\ place[n - 1] \in 0..(n - 1)
            /\ \A i \in (place[n - 1] + 1)..(n - 1) : i \in After
            /\ place[n - 1] # 0 => place[n - 1] \notin After
        BY <1>4
      <3>4. place[n - 1] \in 0..n
        BY <3>3
      <3> HIDE DEF IsPlace
      <3> QED BY <2>1, <2>2, <3>1, <3>2, <3>3, <3>4
    <2>3. CASE n \notin After
      <3>1. place[n] = n
        BY <1>2, <2>1, <2>3
      <3>2. n \in 0..n /\ \A i \in (n + 1)..n : i \in After
        OBVIOUS
      <3> HIDE DEF IsPlace
      <3> QED BY <2>1, <2>3, <3>1, <3>2
    <2> QED BY <2>2, <2>3
  <1>5. \A n \in 0..N : n \in T
    <2> HIDE DEF T
    <2> QED BY <1>3, <1>4, CountUp
  <1>6. N \in T
    BY <1>5
  <1> HIDE DEF IsPlace
  <1> QED BY <1>6

\* r is s with t behind the first p.
IsInserted(r, s, p, t) ==
    /\ r \in Seq(Tx) /\ Len(r) = Len(s) + 1
    /\ \A i \in 1..p : r[i] = s[i]
    /\ r[p + 1] = t
    /\ \A i \in (p + 2)..(Len(s) + 1) : r[i] = s[i - 1]

LEMMA InsertAtIs ==
    ASSUME NEW s \in Seq(Tx), NEW p \in 0..Len(s), NEW t \in Tx
    PROVE  IsInserted(InsertAt(s, p + 1, t), s, p, t)
  <1> DEFINE a == SubSeq(s, 1, (p + 1) - 1)
             b == SubSeq(s, p + 1, Len(s))
             m == <<t>>
  <1>1. Len(s) \in Nat /\ \A i \in 1..Len(s) : s[i] \in Tx
    BY InList
  <1>2. a \in Seq(Tx) /\ Len(a) = p /\ \A i \in 1..p : a[i] = s[i]
    <2>1. \A i \in 1..p : s[i] \in Tx
      BY <1>1
    <2>2. (p + 1) - 1 = p
      OBVIOUS
    <2> QED BY <1>1, <2>1, <2>2, SubSeqProperties
  <1>3. b \in Seq(Tx) /\ Len(b) = Len(s) - p /\ \A i \in 1..(Len(s) - p) : b[i] = s[p + i]
    <2>1. \A i \in (p + 1)..Len(s) : s[i] \in Tx
      BY <1>1
    <2>2. /\ b \in Seq(Tx) /\ Len(b) = IF p + 1 <= Len(s) THEN Len(s) - (p + 1) + 1 ELSE 0
          /\ \A i \in 1..(Len(s) - (p + 1) + 1) : b[i] = s[(p + 1) + i - 1]
      BY <1>1, <2>1, SubSeqProperties
    <2> HIDE DEF b
    <2>3. \A i \in 1..(Len(s) - p) : (p + 1) + i - 1 = p + i /\ i \in 1..(Len(s) - (p + 1) + 1)
      BY <1>1
    <2> QED BY <1>1, <2>2, <2>3
  <1>4. m \in Seq(Tx) /\ Len(m) = 1 /\ m[1] = t
    OBVIOUS
  <1>5. InsertAt(s, p + 1, t) = (a \o m) \o b
    BY DEF InsertAt
  <1> HIDE DEF a, b, m
  <1>6. /\ a \o m \in Seq(Tx) /\ Len(a \o m) = p + 1
        /\ \A i \in 1..(p + 1) : (a \o m)[i] = IF i <= p THEN a[i] ELSE m[i - p]
    <2>1. /\ a \o m \in Seq(Tx) /\ Len(a \o m) = Len(a) + Len(m)
          /\ \A i \in 1..(Len(a) + Len(m)) :
                (a \o m)[i] = IF i <= Len(a) THEN a[i] ELSE m[i - Len(a)]
      BY <1>2, <1>4, ConcatProperties
    <2> QED BY <1>2, <1>4, <2>1
  <1> DEFINE c == a \o m
  <1>7. /\ c \o b \in Seq(Tx) /\ Len(c \o b) = (p + 1) + (Len(s) - p)
        /\ \A i \in 1..((p + 1) + (Len(s) - p)) :
              (c \o b)[i] = IF i <= p + 1 THEN c[i] ELSE b[i - (p + 1)]
    <2>1. /\ c \o b \in Seq(Tx) /\ Len(c \o b) = Len(c) + Len(b)
          /\ \A i \in 1..(Len(c) + Len(b)) :
                (c \o b)[i] = IF i <= Len(c) THEN c[i] ELSE b[i - Len(c)]
      BY <1>3, <1>6, ConcatProperties
    <2>2. Len(c) = p + 1
      BY <1>6
    <2> HIDE DEF c
    <2> QED BY <1>3, <2>1, <2>2
  <1>8. /\ \A i \in 1..p : c[i] = s[i]
        /\ c[p + 1] = t
    BY <1>2, <1>4, <1>6
  <1> HIDE DEF c
  <1>9. (p + 1) + (Len(s) - p) = Len(s) + 1
    BY <1>1
  <1>10. \A i \in 1..p : (c \o b)[i] = s[i]
    <2>1. \A i \in 1..p : i \in 1..(Len(s) + 1) /\ i <= p + 1
      BY <1>1
    <2> QED BY <1>7, <1>8, <1>9, <2>1
  <1>11. (c \o b)[p + 1] = t
    <2>1. p + 1 \in 1..(Len(s) + 1) /\ p + 1 <= p + 1
      BY <1>1
    <2> QED BY <1>7, <1>8, <1>9, <2>1
  <1>12. ASSUME NEW i \in (p + 2)..(Len(s) + 1) PROVE (c \o b)[i] = s[i - 1]
    <2>1. i \in 1..(Len(s) + 1) /\ ~(i <= p + 1) /\ i - (p + 1) \in 1..(Len(s) - p)
      BY <1>1
    <2>2. (c \o b)[i] = b[i - (p + 1)]
      BY <1>7, <1>9, <2>1
    <2>3. p + (i - (p + 1)) = i - 1
      BY <1>1
    <2> QED BY <1>3, <2>1, <2>2, <2>3
  <1>13. IsInserted(c \o b, s, p, t)
    BY <1>7, <1>9, <1>10, <1>11, <1>12 DEF IsInserted
  <1> QED BY <1>5, <1>13 DEF c

LEMMA InsertKeeps ==
    ASSUME NEW h \in Heights, NEW s \in Sorted(h), NEW t \in Tx \ Range(s),
           NEW known \in SUBSET Tx, NEW d
    PROVE  /\ InsertTx(s, t, known, h, d) \in Sorted(h)
           /\ Range(InsertTx(s, t, known, h, d)) = Range(s) \cup {t}
  <1> DEFINE N == Len(s)
             After == {i \in 1..N : TxComesAfter(s[i], t, known, h, d)}
             place == CHOOSE f : f = [i \in 0..N |->
                                  IF i > 0 /\ TxComesAfter(s[i], t, known, h, d)
                                    THEN f[i - 1] ELSE i]
             p == place[N]
             r == InsertAt(s, p + 1, t)
  <1>1. s \in Seq(Tx) /\ N \in Nat /\ \A i \in 1..N : s[i] \in Tx
    BY InList DEF Sorted
  <1>2. InsertTx(s, t, known, h, d) = r
    BY DEF InsertTx
  <1>3. /\ p \in 0..N
        /\ \A i \in (p + 1)..N : i \in After
        /\ p # 0 => p \notin After
    <2>1. \A f : [i \in 0..N |-> IF i > 0 /\ TxComesAfter(s[i], t, known, h, d)
                                   THEN f[i - 1] ELSE i]
                   = [i \in 0..N |-> IF i > 0 /\ i \in After THEN f[i - 1] ELSE i]
      <3> SUFFICES ASSUME NEW f, NEW i \in 0..N
                   PROVE  (i > 0 /\ TxComesAfter(s[i], t, known, h, d)) <=> (i > 0 /\ i \in After)
        OBVIOUS
      <3> QED BY <1>1
    <2>2. place = CHOOSE f : f = [i \in 0..N |-> IF i > 0 /\ i \in After THEN f[i - 1] ELSE i]
      <3> HIDE DEF After
      <3> QED BY <2>1
    <2> HIDE DEF place, After, N
    <2> QED BY <1>1, <2>2, PlaceOf
  <1> HIDE DEF place, p
  <1>4. h[t] \in Int /\ \A i \in 1..N : h[s[i]] \in Int
    BY <1>1 DEF Heights
  <1>5. \A i \in (p + 1)..N : i \in 1..N /\ h[t] <= h[s[i]]
    BY <1>1, <1>3, InOrder
  <1>6. \A i \in 1..p : i \in 1..N /\ h[s[i]] <= h[t]
    <2>1. CASE p = 0
      BY <1>1, <1>3, <2>1
    <2>2. CASE p # 0
      <3>1. p \in 1..N /\ ~TxComesAfter(s[p], t, known, h, d)
        BY <1>3, <2>2
      <3>2. h[s[p]] <= h[t]
        BY <1>1, <3>1, InOrder
      <3>3. \A i \in 1..p : i \in 1..N /\ h[s[i]] <= h[s[p]]
        <4>1. \A i \in 1..p : i \in 1..N /\ (i = p \/ i < p)
          BY <1>1, <3>1
        <4> QED BY <1>4, <3>1, <4>1 DEF Sorted
      <3> QED BY <1>4, <3>1, <3>2, <3>3
    <2> QED BY <2>1, <2>2
  <1>7. /\ r \in Seq(Tx) /\ Len(r) = N + 1
        /\ \A i \in 1..p : r[i] = s[i]
        /\ r[p + 1] = t
        /\ \A i \in (p + 2)..(N + 1) : r[i] = s[i - 1]
    <2>1. s \in Seq(Tx) /\ t \in Tx /\ p \in 0..Len(s) /\ N = Len(s)
      BY <1>1, <1>3
    <2>2. IsInserted(r, s, p, t)
      BY ONLY <2>1, InsertAtIs
    <2> HIDE DEF r, N
    <2> QED BY ONLY <2>1, <2>2 DEF IsInserted
  <1> HIDE DEF r
  <1>8. /\ Range(s) = {s[i] : i \in 1..N}
        /\ Range(r) = {r[i] : i \in 1..(N + 1)}
    BY <1>1, <1>7, InList
  <1>9. Range(r) = Range(s) \cup {t}
    <2>1. \A i \in 1..(N + 1) : \/ i \in 1..p
                                \/ i = p + 1
                                \/ i \in (p + 2)..(N + 1) /\ i - 1 \in 1..N
      BY <1>1, <1>3
    <2>2. \A i \in 1..(N + 1) : r[i] = t \/ \E k \in 1..N : r[i] = s[k]
      BY <1>6, <1>7, <2>1
    <2>3. \A k \in 1..N : \/ k \in 1..p /\ k \in 1..(N + 1)
                          \/ k + 1 \in (p + 2)..(N + 1) /\ k + 1 \in 1..(N + 1) /\ (k + 1) - 1 = k
      BY <1>1, <1>3
    <2>4. \A k \in 1..N : \E i \in 1..(N + 1) : r[i] = s[k]
      BY <1>7, <2>3
    <2>5. p + 1 \in 1..(N + 1)
      BY <1>1, <1>3
    <2> HIDE DEF N
    <2>6. Range(r) \subseteq Range(s) \cup {t}
      BY <1>8, <2>2
    <2>7. Range(s) \subseteq Range(r)
      BY <1>8, <2>4
    <2>8. t \in Range(r)
      BY <1>7, <1>8, <2>5
    <2> QED BY <2>6, <2>7, <2>8
  <1>10. ASSUME NEW i \in 1..(N + 1), NEW j \in 1..(N + 1), i < j
         PROVE  r[i] # r[j] /\ h[r[i]] <= h[r[j]]
    <2>1. \A k, m \in 1..N : k < m => s[k] # s[m] /\ h[s[k]] <= h[s[m]]
      BY DEF Sorted
    <2>2. \A k \in 1..N : s[k] # t
      BY <1>8
    <2>3. CASE j \in 1..p
      <3>1. i \in 1..p /\ i \in 1..N /\ j \in 1..N
        <4>1. i < j
          BY <1>10
        <4>2. i \in 1..p
          BY <1>3, <2>3, <4>1
        <4> QED BY <1>6, <2>3, <4>2
      <3> QED BY <1>7, <1>10, <2>1, <2>3, <3>1
    <2>4. CASE j = p + 1
      <3>1. i \in 1..p
        BY <1>3, <1>10, <2>4
      <3> QED BY <1>6, <1>7, <2>2, <2>4, <3>1
    <2>5. CASE j \in (p + 2)..(N + 1)
      <3>1. j - 1 \in (p + 1)..N /\ j - 1 \in 1..N /\ r[j] = s[j - 1]
        BY <1>1, <1>3, <1>7, <2>5
      <3>2. CASE i \in 1..p
        <4>1. i \in 1..N /\ i < j - 1
          BY <1>3, <1>6, <3>1, <3>2
        <4> QED BY <1>7, <2>1, <3>1, <3>2, <4>1
      <3>3. CASE i = p + 1
        BY <1>5, <1>7, <2>2, <3>1, <3>3
      <3>4. CASE i \in (p + 2)..(N + 1)
        <4>1. i - 1 \in 1..N /\ i - 1 < j - 1 /\ r[i] = s[i - 1]
          BY <1>1, <1>3, <1>7, <1>10, <3>4
        <4> QED BY <2>1, <3>1, <4>1
      <3>5. i \in 1..p \/ i = p + 1 \/ i \in (p + 2)..(N + 1)
        BY <1>1, <1>3
      <3> QED BY <3>2, <3>3, <3>4, <3>5
    <2>6. j \in 1..p \/ j = p + 1 \/ j \in (p + 2)..(N + 1)
      BY <1>1, <1>3
    <2> QED BY <2>3, <2>4, <2>5, <2>6
  <1>11. r \in Sorted(h)
    BY <1>7, <1>10 DEF Sorted
  <1> QED BY <1>2, <1>9, <1>11

\* The search from the end finds what is above h.
LEMMA TxAfterIs ==
    ASSUME height \in Heights, list \in Sorted(height), NEW h \in Nat
    PROVE  TxAfter(h) = {t \in Listed : height[t] > h}
  <1> DEFINE N == Len(list)
             After == {i \in 1..N : height[list[i]] > h}
             first == CHOOSE f : f = [i \in 0..N |->
                                  IF i > 0 /\ height[list[i]] > h THEN f[i - 1] ELSE i]
             p == first[N]
  <1>1. list \in Seq(Tx) /\ N \in Nat /\ \A i \in 1..N : list[i] \in Tx
    BY InList DEF Sorted
  <1>2. TxAfter(h) = {list[i] : i \in (p + 1)..N}
    BY DEF TxAfter
  <1>3. /\ p \in 0..N
        /\ \A i \in (p + 1)..N : i \in After
        /\ p # 0 => p \notin After
    <2>1. \A f : [i \in 0..N |-> IF i > 0 /\ height[list[i]] > h THEN f[i - 1] ELSE i]
                   = [i \in 0..N |-> IF i > 0 /\ i \in After THEN f[i - 1] ELSE i]
      <3> SUFFICES ASSUME NEW f, NEW i \in 0..N
                   PROVE  (i > 0 /\ height[list[i]] > h) <=> (i > 0 /\ i \in After)
        OBVIOUS
      <3> QED BY <1>1
    <2>2. first = CHOOSE f : f = [i \in 0..N |-> IF i > 0 /\ i \in After THEN f[i - 1] ELSE i]
      <3> HIDE DEF After
      <3> QED BY <2>1
    <2> HIDE DEF first, After, N
    <2> QED BY <1>1, <2>2, PlaceOf
  <1> HIDE DEF first, p
  <1>4. Listed = {list[i] : i \in 1..N}
    BY <1>1, InList DEF Listed
  <1>5. \A i \in (p + 1)..N : i \in 1..N /\ height[list[i]] > h
    BY <1>1, <1>3
  <1>6. ASSUME NEW i \in 1..N, height[list[i]] > h
        PROVE  i \in (p + 1)..N
    <2>1. CASE p = 0
      BY <2>1
    <2>2. CASE p # 0
      <3>1. p \in 1..N /\ ~(height[list[p]] > h)
        BY <1>3, <2>2
      <3>2. height[list[p]] \in Int /\ height[list[i]] \in Int
        BY <1>1, <3>1 DEF Heights
      <3>3. i < p => height[list[i]] <= height[list[p]]
        BY <1>1, <3>1 DEF Sorted
      <3>4. i # p /\ ~(i < p)
        BY <1>6, <3>1, <3>2, <3>3
      <3> QED BY <1>1, <3>1, <3>4
    <2> QED BY <2>1, <2>2
  <1> HIDE DEF N
  <1> QED BY <1>2, <1>4, <1>5, <1>6

\* The search for dependents ends when it finds no more, before it has made as
\* many rounds as the list is long.
LEMMA DependentsAre ==
    ASSUME list \in Seq(Tx), NEW t \in Listed
    PROVE  /\ t \in Dependents(t) /\ Dependents(t) \subseteq Listed
           /\ \A u \in Listed : height[u] >= height[t] /\ Parents(u) \cap Dependents(t) # {}
                                   => u \in Dependents(t)
  <1> DEFINE N == Len(list)
             S == SUBSET Listed
             More(x) == {u \in Listed : height[u] >= height[t] /\ Parents(u) \cap x # {}}
             G == [n \in 1..N |-> [x \in S |-> x \cup More(x)]]
             IsReach(f) == f = [n \in 0..N |-> IF n = 0 THEN {t} ELSE f[n - 1] \cup More(f[n - 1])]
             reach == CHOOSE f : IsReach(f)
  <1>1. N \in Nat /\ DOMAIN list = 1..N /\ Listed = {list[i] : i \in 1..N}
    BY InList DEF Listed
  <1>2. \E f : IsReach(f)
    <2>1. G \in [1..N -> [S -> S]] /\ {t} \in S
      <3>1. \A x \in S : x \cup More(x) \in S
        OBVIOUS
      <3> HIDE DEF More
      <3> QED BY <3>1
    <2>2. PICK f : Walk(f, S, {t}, G, N)
      <3> HIDE DEF S, G, N
      <3> QED BY <1>1, <2>1, Iteration
    <2>3. \A n \in 1..N : n - 1 \in 0..N
      BY <1>1
    <2>4. \A n \in 1..N : f[n] = f[n - 1] \cup More(f[n - 1])
      <3> HIDE DEF More, S, N
      <3> QED BY <2>2, <2>3 DEF Walk
    <2>5. \A n \in 0..N : n = 0 \/ n \in 1..N
      BY <1>1
    <2>6. IsReach(f)
      <3> HIDE DEF More, S, N, G
      <3> QED BY <2>2, <2>4, <2>5 DEF Walk
    <2> HIDE DEF IsReach
    <2> QED BY <2>6
  <1>3. IsReach(reach)
    <2> HIDE DEF IsReach
    <2> QED BY <1>2
  <1>4. Dependents(t) = reach[N]
    BY Zenon DEF Dependents
  <1> HIDE DEF reach
  <1>5. IsFiniteSet(Listed) /\ Cardinality(Listed) <= N
    <2>1. list \in Surjection(1..N, Listed)
      <3>1. list \in [1..N -> Listed]
        BY <1>1, LenProperties
      <3>2. \A x \in Listed : \E i \in 1..N : list[i] = x
        BY <1>1
      <3> HIDE DEF N
      <3> QED BY <3>1, <3>2 DEF Surjection
    <2>2. IsFiniteSet(1..N) /\ Cardinality(1..N) = N
      <3>1. Cardinality(1..N) = IF 1 > N THEN 0 ELSE N - 1 + 1
        <4> HIDE DEF N
        <4>1. N \in Int /\ 1 \in Int
          BY <1>1
        <4> QED BY <4>1, FS_Interval
      <3>2. N \in Nat /\ 1 \in Int
        BY <1>1
      <3> HIDE DEF N
      <3>3. IsFiniteSet(1..N)
        BY ONLY <3>2, FS_Interval
      <3>4. (IF 1 > N THEN 0 ELSE N - 1 + 1) = N
        BY ONLY <3>2
      <3> QED BY ONLY <3>1, <3>3, <3>4
    <2> HIDE DEF N
    <2> QED BY <2>1, <2>2, FS_Surjection
  <1> DEFINE Closed(x) == More(x) \subseteq x
             T == {n \in 0..N : /\ reach[n] \in SUBSET Listed /\ t \in reach[n]
                                /\ Closed(reach[n]) \/ Cardinality(reach[n]) >= n + 1}
  <1>6. 0 \in T
    <2>1. reach[0] = {t}
      <3>1. 0 \in 0..N
        BY <1>1
      <3> HIDE DEF More
      <3> QED BY <1>3, <3>1
    <2>2. Cardinality({t}) = 1
      BY FS_Singleton
    <2>3. reach[0] \in SUBSET Listed /\ t \in reach[0] /\ Cardinality(reach[0]) >= 0 + 1
      BY <2>1, <2>2
    <2>4. 0 \in 0..N
      BY <1>1
    <2> HIDE DEF IsReach, Closed, N
    <2> QED BY <2>3, <2>4
  <1>7. ASSUME NEW n \in 1..N, n - 1 \in T PROVE n \in T
    <2> DEFINE x == reach[n - 1]
               y == reach[n]
    <2>1. /\ x \in SUBSET Listed /\ t \in x
          /\ Closed(x) \/ Cardinality(x) >= n
      <3> HIDE DEF Closed, IsReach
      <3> QED BY <1>7
    <2>2. y = x \cup More(x)
      <3>1. n \in 0..N /\ n # 0
        BY <1>1
      <3> HIDE DEF More
      <3> QED BY <1>3, <3>1
    <2>3. y \in SUBSET Listed /\ t \in y
      <3> HIDE DEF x, y
      <3> QED BY <2>1, <2>2
    <2>4. IsFiniteSet(x) /\ IsFiniteSet(y) /\ Cardinality(x) \in Nat /\ Cardinality(y) \in Nat
      <3> HIDE DEF x, y
      <3> QED BY <1>5, <2>1, <2>3, FS_Subset, FS_CardinalityType
    <2> HIDE DEF x, y, IsReach
    <2>5. CASE Closed(x)
      <3>1. y = x
        <4> HIDE DEF More
        <4> QED BY <2>2, <2>5
      <3> HIDE DEF Closed
      <3> QED BY <2>3, <2>5, <3>1 DEF x, y
    <2>6. CASE ~Closed(x)
      <3>1. x \subseteq y /\ x # y
        <4> HIDE DEF More
        <4> QED BY <2>2, <2>6
      <3>2. Cardinality(x) <= Cardinality(y) /\ Cardinality(x) # Cardinality(y)
        BY <2>4, <3>1, FS_Subset
      <3>3. Cardinality(y) >= n + 1
        <4> HIDE DEF Closed
        <4> QED BY <2>1, <2>4, <2>6, <3>2
      <3> HIDE DEF Closed
      <3> QED BY <2>3, <3>3 DEF y
    <2> QED BY <2>5, <2>6
  <1>8. N \in T
    <2>1. \A n \in 0..N : n \in T
      <3> HIDE DEF T
      <3> QED BY <1>1, <1>6, <1>7, CountUp
    <2> HIDE DEF T
    <2> QED BY <1>1, <2>1
  <1>9. Closed(reach[N])
    <2>1. reach[N] \in SUBSET Listed /\ (Closed(reach[N]) \/ Cardinality(reach[N]) >= N + 1)
      <3> HIDE DEF Closed, IsReach
      <3> QED BY <1>8
    <2>2. Cardinality(reach[N]) <= Cardinality(Listed) /\ Cardinality(reach[N]) \in Nat
          /\ Cardinality(Listed) \in Nat
      BY <1>5, <2>1, FS_Subset, FS_CardinalityType
    <2> HIDE DEF Closed, N, IsReach
    <2> QED BY <1>1, <1>5, <2>1, <2>2
  <1>10. reach[N] \in SUBSET Listed /\ t \in reach[N]
    BY <1>8
  <1> HIDE DEF IsReach, N
  <1> QED BY <1>4, <1>9, <1>10

-----------------------------------------------------------------------------
(* Sums of amounts.                                                         *)

Payments == UNION {Outputs(t) : t \in Tx}

Purses == {s \in SUBSET Payments : IsFiniteSet(s)}

Sum(s) == MapThenSumSet(Amount, s)

LEMMA OutputsAre ==
    ASSUME NEW t \in Tx
    PROVE  /\ Outputs(t) \in Purses
           /\ \A o \in Outputs(t) : /\ o[1] = t /\ Amount(o) \in Nat
                                    /\ PKH(o) \in (Chains \cup {"foreign"}) \X (0..MaxAddr)
  <1> DEFINE N == Len(Outs[t])
             Paid == [addr : (Chains \cup {"foreign"}) \X (0..MaxAddr), amount : Nat]
  <1>1. Outs[t] \in Seq(Paid)
    BY WalletAssumption
  <1>2. N \in Nat /\ DOMAIN Outs[t] = 1..N /\ \A n \in 1..N : Outs[t][n] \in Paid
    <2> HIDE DEF Paid
    <2> QED BY <1>1, LenProperties, ElementOfSeq
  <1>3. Outputs(t) = {<<t, n>> : n \in 1..N}
    BY <1>2 DEF Outputs
  <1>4. IsFiniteSet(Outputs(t))
    <2> DEFINE f == [n \in 1..N |-> <<t, n>>]
    <2>1. f \in Surjection(1..N, Outputs(t))
      <3>1. f \in [1..N -> Outputs(t)] /\ \A o \in Outputs(t) : \E n \in 1..N : f[n] = o
        BY <1>3
      <3> HIDE DEF f, N
      <3> QED BY <3>1 DEF Surjection
    <2>2. IsFiniteSet(1..N)
      <3> HIDE DEF N
      <3>1. N \in Int /\ 1 \in Int
        BY <1>2
      <3> QED BY <3>1, FS_Interval
    <2> QED BY <2>1, <2>2, FS_Surjection
  <1>5. \A o \in Outputs(t) : \E n \in 1..N : o = <<t, n>> /\ o[1] = t /\ o[2] = n
    BY <1>3
  <1>6. \A o \in Outputs(t) : o[1] = t /\ Amount(o) = Outs[t][o[2]].amount
                              /\ PKH(o) = Outs[t][o[2]].addr /\ o[2] \in 1..N
    BY <1>5 DEF Amount, PKH
  <1>7. \A n \in 1..N : Outs[t][n].amount \in Nat
                        /\ Outs[t][n].addr \in (Chains \cup {"foreign"}) \X (0..MaxAddr)
    <2> HIDE DEF N
    <2> QED BY <1>2
  <1> HIDE DEF N
  <1>8. Outputs(t) \in SUBSET Payments
    BY DEF Payments
  <1> QED BY <1>4, <1>6, <1>7, <1>8 DEF Purses

LEMMA PursesAre ==
    /\ {} \in Purses
    /\ \A s \in Purses : /\ s \in SUBSET Payments /\ IsFiniteSet(s) /\ Cardinality(s) \in Nat
                         /\ \A r \in SUBSET s : r \in Purses
                         /\ \A x \in s : /\ s \ {x} \in Purses
                                         /\ Cardinality(s \ {x}) = Cardinality(s) - 1
    /\ \A s, r \in Purses : s \cup r \in Purses
    /\ \A x \in Payments : Amount(x) \in Nat
  <1>1. {} \in Purses
    BY FS_EmptySet DEF Purses
  <1>2. ASSUME NEW s \in Purses
        PROVE  /\ s \in SUBSET Payments /\ IsFiniteSet(s) /\ Cardinality(s) \in Nat
               /\ \A r \in SUBSET s : r \in Purses
               /\ \A x \in s : /\ s \ {x} \in Purses
                               /\ Cardinality(s \ {x}) = Cardinality(s) - 1
    <2>1. s \in SUBSET Payments /\ IsFiniteSet(s) /\ Cardinality(s) \in Nat
      BY FS_CardinalityType DEF Purses
    <2>2. \A r \in SUBSET s : r \in Purses
      BY <2>1, FS_Subset DEF Purses
    <2>3. \A x \in s : Cardinality(s \ {x}) = Cardinality(s) - 1
      BY <2>1, FS_RemoveElement
    <2> QED BY <2>1, <2>2, <2>3
  <1>3. ASSUME NEW s \in Purses, NEW r \in Purses PROVE s \cup r \in Purses
    BY FS_Union DEF Purses
  <1>4. ASSUME NEW x \in Payments PROVE Amount(x) \in Nat
    BY OutputsAre DEF Payments
  <1> QED BY <1>1, <1>2, <1>3, <1>4

Pick(s) == CHOOSE x \in s : TRUE

\* What MapThenSumSet defines on the subsets of s.
IsSum(f, s) == f = [r \in SUBSET s |-> IF r = {} THEN 0
                                       ELSE Amount(Pick(r)) + f[r \ {Pick(r)}]]

LEMMA SumExists ==
    ASSUME NEW s \in Purses
    PROVE  \E f \in [SUBSET s -> Nat] : IsSum(f, s)
  <1> DEFINE N == Cardinality(s)
             RHS(f, r) == IF r = {} THEN 0 ELSE Amount(Pick(r)) + f[r \ {Pick(r)}]
             UpTo(f, n) == \A r \in SUBSET s : Cardinality(r) <= n => f[r] = RHS(f, r)
             T == {n \in 0..N : \E f \in [SUBSET s -> Nat] : UpTo(f, n)}
  <1>1. N \in Nat /\ \A r \in SUBSET s : r \in Purses /\ Cardinality(r) \in 0..N
    <2>1. \A r \in SUBSET s : r \in Purses /\ Cardinality(r) <= N /\ Cardinality(r) \in Nat
      BY PursesAre, FS_Subset
    <2> QED BY <2>1, PursesAre
  <1>2. \A r \in SUBSET s : r # {} =>
            /\ Pick(r) \in r /\ Amount(Pick(r)) \in Nat /\ r \ {Pick(r)} \in SUBSET s
            /\ Cardinality(r \ {Pick(r)}) = Cardinality(r) - 1
    <2> SUFFICES ASSUME NEW r \in SUBSET s, r # {}
                 PROVE  /\ Pick(r) \in r /\ Amount(Pick(r)) \in Nat /\ r \ {Pick(r)} \in SUBSET s
                        /\ Cardinality(r \ {Pick(r)}) = Cardinality(r) - 1
      OBVIOUS
    <2>1. Pick(r) \in r
      BY DEF Pick
    <2>2. r \in Purses
      BY <1>1
    <2>3. Pick(r) \in Payments
      BY <2>1, <2>2, PursesAre
    <2> QED BY <2>1, <2>2, <2>3, PursesAre
  <1>3. ASSUME NEW f \in [SUBSET s -> Nat], NEW r \in SUBSET s PROVE RHS(f, r) \in Nat
    <2>1. CASE r = {}
      BY <2>1
    <2>2. CASE r # {}
      <3>1. Amount(Pick(r)) \in Nat /\ r \ {Pick(r)} \in SUBSET s
        BY <1>2, <2>2
      <3>2. f[r \ {Pick(r)}] \in Nat
        BY <3>1
      <3> QED BY <2>2, <3>1, <3>2
    <2> QED BY <2>1, <2>2
  <1>4. 0 \in T
    <2> DEFINE f == [r \in SUBSET s |-> 0]
    <2>1. \A r \in SUBSET s : Cardinality(r) <= 0 => r = {}
      <3>1. \A r \in SUBSET s : IsFiniteSet(r) /\ Cardinality(r) \in Nat
        BY <1>1, PursesAre
      <3> QED BY <3>1, FS_EmptySet
    <2>2. UpTo(f, 0)
      <3>1. \A r \in SUBSET s : f[r] = 0
        OBVIOUS
      <3> HIDE DEF f
      <3> QED BY <2>1, <3>1
    <2>3. f \in [SUBSET s -> Nat]
      OBVIOUS
    <2> HIDE DEF f, UpTo
    <2> QED BY <1>1, <2>2, <2>3
  <1>5. ASSUME NEW n \in 1..N, n - 1 \in T PROVE n \in T
    <2>1. PICK f \in [SUBSET s -> Nat] : UpTo(f, n - 1)
      <3> HIDE DEF UpTo
      <3> QED BY <1>5
    <2> DEFINE g == [r \in SUBSET s |-> IF Cardinality(r) = n THEN RHS(f, r) ELSE f[r]]
    <2>2. g \in [SUBSET s -> Nat]
      <3> HIDE DEF RHS
      <3> QED BY <1>3
    <2>3. \A r \in SUBSET s : Cardinality(r) # n => g[r] = f[r]
      OBVIOUS
    <2>4. \A r \in SUBSET s : Cardinality(r) <= n => RHS(g, r) = RHS(f, r)
      <3> SUFFICES ASSUME NEW r \in SUBSET s, Cardinality(r) <= n, r # {}
                   PROVE  g[r \ {Pick(r)}] = f[r \ {Pick(r)}]
        OBVIOUS
      <3>1. r \ {Pick(r)} \in SUBSET s /\ Cardinality(r \ {Pick(r)}) # n
        <4>1. Cardinality(r) \in Int /\ Cardinality(r \ {Pick(r)}) = Cardinality(r) - 1
          BY <1>1, <1>2
        <4> HIDE DEF N
        <4> QED BY <1>1, <1>2, <4>1
      <3> HIDE DEF g
      <3> QED BY <2>3, <3>1
    <2>5. UpTo(g, n)
      <3> SUFFICES ASSUME NEW r \in SUBSET s, Cardinality(r) <= n PROVE g[r] = RHS(g, r)
        OBVIOUS
      <3>1. CASE Cardinality(r) = n
        <4>1. g[r] = RHS(f, r)
          BY <3>1
        <4> HIDE DEF g, RHS
        <4> QED BY <2>4, <4>1
      <3>2. CASE Cardinality(r) # n
        <4>1. Cardinality(r) \in Int
          BY <1>1
        <4>2. Cardinality(r) <= n - 1
          <5> HIDE DEF N
          <5> QED BY <1>1, <3>2, <4>1
        <4> HIDE DEF g, RHS
        <4> QED BY <2>1, <2>3, <2>4, <3>2, <4>2
      <3> QED BY <3>1, <3>2
    <2> HIDE DEF g, UpTo
    <2> QED BY <2>2, <2>5
  <1>6. N \in T
    <2>1. \A n \in 0..N : n \in T
      <3> HIDE DEF T, N
      <3> QED BY <1>1, <1>4, <1>5, CountUp
    <2> HIDE DEF T, N
    <2> QED BY <1>1, <2>1
  <1>7. PICK f \in [SUBSET s -> Nat] : UpTo(f, N)
    <2> HIDE DEF UpTo
    <2> QED BY <1>6
  <1>8. \A r \in SUBSET s : f[r] = RHS(f, r)
    <2>1. \A r \in SUBSET s : Cardinality(r) <= N
      BY <1>1
    <2> HIDE DEF RHS
    <2> QED BY <1>7, <2>1
  <1> QED BY <1>7, <1>8 DEF IsSum

\* It does not matter of which set the sum of a part is taken.
LEMMA SumsAgree ==
    ASSUME NEW s \in Purses, NEW u \in SUBSET s, NEW f, IsSum(f, s), NEW g, IsSum(g, u)
    PROVE  \A r \in SUBSET u : f[r] = g[r]
  <1> DEFINE N == Cardinality(u)
             T == {n \in 0..N : \A r \in SUBSET u : Cardinality(r) = n => f[r] = g[r]}
  <1>1. N \in Nat /\ \A r \in SUBSET u : r \in Purses /\ Cardinality(r) \in 0..N
    <2>1. u \in Purses
      BY PursesAre
    <2>2. \A r \in SUBSET u : r \in Purses /\ Cardinality(r) <= N /\ Cardinality(r) \in Nat
      BY <2>1, PursesAre, FS_Subset
    <2> QED BY <2>1, <2>2, PursesAre
  <1>2. \A r \in SUBSET u : /\ f[r] = IF r = {} THEN 0 ELSE Amount(Pick(r)) + f[r \ {Pick(r)}]
                            /\ g[r] = IF r = {} THEN 0 ELSE Amount(Pick(r)) + g[r \ {Pick(r)}]
    BY DEF IsSum
  <1>3. 0 \in T
    <2>1. \A r \in SUBSET u : Cardinality(r) = 0 => r = {}
      <3>1. \A r \in SUBSET u : IsFiniteSet(r)
        BY <1>1, PursesAre
      <3> QED BY <3>1, FS_EmptySet
    <2> HIDE DEF N
    <2> QED BY <1>1, <1>2, <2>1
  <1>4. ASSUME NEW n \in 1..N, n - 1 \in T PROVE n \in T
    <2> SUFFICES ASSUME NEW r \in SUBSET u, Cardinality(r) = n PROVE f[r] = g[r]
      OBVIOUS
    <2>1. CASE r = {}
      BY <1>2, <2>1
    <2>2. CASE r # {}
      <3>1. Pick(r) \in r
        BY <2>2 DEF Pick
      <3>2. r \ {Pick(r)} \in SUBSET u /\ Cardinality(r \ {Pick(r)}) = n - 1
        BY <1>1, <3>1, PursesAre
      <3>3. f[r \ {Pick(r)}] = g[r \ {Pick(r)}]
        BY <1>4, <3>2
      <3> QED BY <1>2, <2>2, <3>3
    <2> QED BY <2>1, <2>2
  <1> HIDE DEF N
  <1>5. \A n \in 0..N : n \in T
    <2> HIDE DEF T
    <2> QED BY <1>1, <1>3, <1>4, CountUp
  <1> QED BY <1>1, <1>5

LEMMA SumIs ==
    ASSUME NEW s \in Purses
    PROVE  \E f \in [SUBSET s -> Nat] : IsSum(f, s) /\ Sum(s) = f[s]
  <1> DEFINE it == CHOOSE f : IsSum(f, s)
  <1>1. PICK f \in [SUBSET s -> Nat] : IsSum(f, s)
    BY SumExists
  <1>2. IsSum(it, s)
    BY <1>1
  <1>3. Sum(s) = it[s]
    BY DEF Sum, MapThenSumSet, MapThenFoldSet, IsSum, Pick
  <1> HIDE DEF it
  <1>4. \A r \in SUBSET s : it[r] = f[r]
    BY <1>1, <1>2, SumsAgree
  <1> QED BY <1>1, <1>3, <1>4

LEMMA SumStep ==
    ASSUME NEW s \in Purses
    PROVE  /\ Sum(s) \in Nat
           /\ s = {} => Sum(s) = 0
           /\ s # {} => Sum(s) = Amount(Pick(s)) + Sum(s \ {Pick(s)})
  <1>1. PICK f \in [SUBSET s -> Nat] : IsSum(f, s) /\ Sum(s) = f[s]
    BY SumIs
  <1>2. ASSUME s # {} PROVE Sum(s) = Amount(Pick(s)) + Sum(s \ {Pick(s)})
    <2> DEFINE u == s \ {Pick(s)}
    <2>1. f[s] = Amount(Pick(s)) + f[u]
      BY <1>1, <1>2 DEF IsSum
    <2>2. u \in SUBSET s /\ u \in Purses
      BY PursesAre
    <2> HIDE DEF u
    <2>3. PICK g \in [SUBSET u -> Nat] : IsSum(g, u) /\ Sum(u) = g[u]
      BY <2>2, SumIs
    <2>4. f[u] = g[u]
      BY <1>1, <2>2, <2>3, SumsAgree
    <2> QED BY <1>1, <2>1, <2>3, <2>4 DEF u
  <1>3. ASSUME s = {} PROVE Sum(s) = 0
    BY <1>1, <1>3 DEF IsSum
  <1> QED BY <1>1, <1>2, <1>3

LEMMA SumRemove ==
    ASSUME NEW s \in Purses, NEW x \in s
    PROVE  Sum(s) = Amount(x) + Sum(s \ {x})
  <1> DEFINE N == Cardinality(s)
             Good(r) == \A y \in r : Sum(r) = Amount(y) + Sum(r \ {y})
             T == {n \in 0..N : \A r \in Purses : Cardinality(r) = n => Good(r)}
  <1>1. N \in Nat
    BY PursesAre
  <1>2. 0 \in T
    <2>1. \A r \in Purses : Cardinality(r) = 0 => r = {}
      BY PursesAre, FS_EmptySet
    <2>2. \A r \in Purses : Cardinality(r) = 0 => Good(r)
      BY <2>1
    <2> HIDE DEF Good, N
    <2> QED BY <1>1, <2>2
  <1>3. ASSUME NEW n \in 1..N, n - 1 \in T PROVE n \in T
    <2> SUFFICES ASSUME NEW r \in Purses, Cardinality(r) = n, NEW y \in r
                 PROVE  Sum(r) = Amount(y) + Sum(r \ {y})
      <3> HIDE DEF N
      <3> QED BY <1>1
    <2> DEFINE p == Pick(r)
    <2>1. p \in r
      BY DEF Pick
    <2>2. Sum(r) = Amount(p) + Sum(r \ {p})
      BY <2>1, SumStep
    <2>3. /\ r \ {p} \in Purses /\ Cardinality(r \ {p}) = n - 1
          /\ r \ {y} \in Purses /\ Cardinality(r \ {y}) = n - 1
      BY <2>1, PursesAre
    <2>4. Good(r \ {p}) /\ Good(r \ {y})
      <3> HIDE DEF Good, p
      <3> QED BY <1>3, <2>3
    <2> HIDE DEF p
    <2>5. CASE p = y
      BY <2>2, <2>5
    <2>6. CASE p # y
      <3>1. Sum(r \ {p}) = Amount(y) + Sum((r \ {p}) \ {y})
        BY <2>4, <2>6
      <3>2. Sum(r \ {y}) = Amount(p) + Sum((r \ {y}) \ {p})
        BY <2>1, <2>4, <2>6
      <3>3. (r \ {p}) \ {y} = (r \ {y}) \ {p}
        OBVIOUS
      <3>4. /\ Amount(y) \in Nat /\ Amount(p) \in Nat /\ Sum((r \ {y}) \ {p}) \in Nat
            /\ Sum(r \ {p}) \in Nat /\ Sum(r \ {y}) \in Nat
        <4>1. (r \ {y}) \ {p} \in Purses
          BY <2>1, <2>3, <2>6, PursesAre
        <4>2. y \in Payments /\ p \in Payments
          BY <2>1, PursesAre
        <4> QED BY <2>3, <4>1, <4>2, PursesAre, SumStep
      <3> QED BY <2>2, <3>1, <3>2, <3>3, <3>4
    <2> QED BY <2>5, <2>6
  <1>4. N \in T
    <2> HIDE DEF T, N
    <2>1. \A n \in 0..N : n \in T
      BY <1>1, <1>2, <1>3, CountUp
    <2> QED BY <1>1, <2>1
  <1>5. Good(s)
    <2> HIDE DEF Good
    <2> QED BY <1>4
  <1> QED BY <1>5

LEMMA SumUnion ==
    ASSUME NEW a \in Purses, NEW b \in Purses, a \cap b = {}
    PROVE  Sum(a \cup b) = Sum(a) + Sum(b)
  <1> DEFINE N == Cardinality(b)
             Good(r) == a \cap r = {} => Sum(a \cup r) = Sum(a) + Sum(r)
             T == {n \in 0..N : \A r \in Purses : Cardinality(r) = n => Good(r)}
  <1>1. N \in Nat
    BY PursesAre
  <1>2. 0 \in T
    <2>1. \A r \in Purses : Cardinality(r) = 0 => r = {}
      BY PursesAre, FS_EmptySet
    <2>2. Sum(a) \in Nat /\ Sum({}) = 0 /\ a \cup {} = a
      BY SumStep, PursesAre
    <2>3. Good({})
      BY <2>2
    <2> HIDE DEF Good, N
    <2> QED BY <1>1, <2>1, <2>3
  <1>3. ASSUME NEW n \in 1..N, n - 1 \in T PROVE n \in T
    <2> SUFFICES ASSUME NEW r \in Purses, Cardinality(r) = n, a \cap r = {}
                 PROVE  Sum(a \cup r) = Sum(a) + Sum(r)
      <3> HIDE DEF N
      <3> QED BY <1>1
    <2>1. r # {}
      <3>1. n # 0
        BY <1>1
      <3> QED BY <3>1, FS_EmptySet
    <2>2. PICK x \in r : TRUE
      BY <2>1
    <2>3. r \ {x} \in Purses /\ Cardinality(r \ {x}) = n - 1 /\ a \cap (r \ {x}) = {}
      BY PursesAre
    <2>4. Good(r \ {x})
      <3> HIDE DEF Good
      <3> QED BY <1>3, <2>3
    <2>5. Sum(a \cup (r \ {x})) = Sum(a) + Sum(r \ {x})
      BY <2>3, <2>4
    <2>6. a \cup r \in Purses /\ (a \cup r) \ {x} = a \cup (r \ {x}) /\ a \cup (r \ {x}) \in Purses
      BY <2>3, PursesAre
    <2>7. Sum(a \cup r) = Amount(x) + Sum(a \cup (r \ {x}))
      <3>1. x \in a \cup r
        OBVIOUS
      <3>2. Sum(a \cup r) = Amount(x) + Sum((a \cup r) \ {x})
        BY <2>6, <3>1, SumRemove
      <3> QED BY <2>6, <3>2
    <2>8. Sum(r) = Amount(x) + Sum(r \ {x})
      BY SumRemove
    <2>9. Sum(a) \in Nat /\ Sum(r \ {x}) \in Nat /\ Amount(x) \in Nat
      <3>1. x \in Payments
        BY PursesAre
      <3> QED BY <2>3, <3>1, PursesAre, SumStep
    <2> QED BY <2>5, <2>7, <2>8, <2>9
  <1>4. N \in T
    <2> HIDE DEF T, N
    <2>1. \A n \in 0..N : n \in T
      BY <1>1, <1>2, <1>3, CountUp
    <2> QED BY <1>1, <2>1
  <1>5. Good(b)
    <2> HIDE DEF Good
    <2> QED BY <1>4
  <1> QED BY <1>5

\* What is added and taken away again.
LEMMA SumChange ==
    ASSUME NEW a \in Purses, NEW b \in Purses, a \cap b = {}, NEW gone \in SUBSET (a \cup b)
    PROVE  /\ (a \cup b) \ gone \in Purses
           /\ Sum((a \cup b) \ gone) = Sum(a) + Sum(b) - Sum(gone)
  <1> DEFINE rest == (a \cup b) \ gone
  <1>1. a \cup b \in Purses
    BY PursesAre
  <1>2. gone \in Purses /\ rest \in Purses
    <2>1. rest \in SUBSET (a \cup b)
      OBVIOUS
    <2> HIDE DEF rest
    <2> QED BY <1>1, <2>1, PursesAre
  <1>3. rest \cap gone = {} /\ rest \cup gone = a \cup b
    OBVIOUS
  <1> HIDE DEF rest
  <1>4. Sum(a \cup b) = Sum(rest) + Sum(gone) /\ Sum(a \cup b) = Sum(a) + Sum(b)
    <2>1. Sum(rest \cup gone) = Sum(rest) + Sum(gone)
      BY <1>2, <1>3, SumUnion
    <2>2. Sum(a \cup b) = Sum(a) + Sum(b)
      BY SumUnion
    <2> QED BY <1>3, <2>1, <2>2
  <1>5. Sum(rest) \in Nat /\ Sum(gone) \in Nat /\ Sum(a) \in Nat /\ Sum(b) \in Nat
    BY <1>2, SumStep
  <1> QED BY <1>2, <1>4, <1>5 DEF rest

-----------------------------------------------------------------------------
(* The ledger.                                                              *)

Addresses == Chains \X (0..MaxAddr)

Ledgers == [invalid : SUBSET Tx, pending : SUBSET Tx,
            spent : SUBSET (Payments \cup UNION {Ins[t] : t \in Tx}),
            used : SUBSET Addresses, utxos : Purses, balance : Int, balanceHist : Seq(Int)]

\* What the ledger l says of the transactions ts at the heights h.
Fair(l, ts, h, d) ==
    /\ l.invalid \cup l.pending \subseteq ts
    /\ \A t \in l.invalid \cup l.pending : h[t] = Unconfirmed
    /\ \A t, u \in ts \ l.invalid : Conflict(t, u) => h[t] # Unconfirmed /\ h[u] # Unconfirmed
    /\ l.balance = Sum(l.utxos)
    /\ \A o \in l.utxos :
          /\ o[1] \in ts \ (l.invalid \cup l.pending) /\ AllPKH(o, d)
          /\ \A t \in ts \ (l.invalid \cup l.pending) : o \notin Ins[t]

\* While it is computed: what counts is known to be spent.
Counts(l, ts) == \A t \in ts \ l.invalid : Ins[t] \subseteq l.spent

\* The fields that AddTx changes.
LEMMA LedgerFields ==
    ASSUME NEW l \in Ledgers
    PROVE  /\ l.invalid \in SUBSET Tx /\ l.pending \in SUBSET Tx /\ l.used \in SUBSET Addresses
           /\ l.spent \in SUBSET (Payments \cup UNION {Ins[u] : u \in Tx})
           /\ l.utxos \in Purses /\ l.balance \in Int /\ l.balanceHist \in Seq(Int)
           /\ \A x \in SUBSET Tx : /\ [l EXCEPT !.invalid = @ \cup x] \in Ledgers
                                   /\ [l EXCEPT !.pending = @ \cup x] \in Ledgers
           /\ \A t \in Tx : [l EXCEPT !.spent = @ \cup Ins[t]] \in Ledgers
           /\ Skip(l) \in Ledgers
  <1> DEFINE A == SUBSET Tx
             B == SUBSET (Payments \cup UNION {Ins[u] : u \in Tx})
             D == SUBSET Addresses
             E == Purses
             F == Int
             H == Seq(Int)
  <1>1. /\ \A x, y \in A : x \cup y \in A
        /\ \A x \in B, t \in Tx : x \cup Ins[t] \in B
    OBVIOUS
  <1>2. \A x \in H, y \in F : Append(x, y) \in H
    BY AppendProperties
  <1>3. Ledgers = [invalid : A, pending : A, spent : B, used : D, utxos : E,
                   balance : F, balanceHist : H]
    BY DEF Ledgers
  <1> HIDE DEF A, B, D, E, F, H
  <1>4. /\ l.invalid \in A /\ l.pending \in A /\ l.used \in D /\ l.spent \in B
        /\ l.utxos \in E /\ l.balance \in F /\ l.balanceHist \in H
    BY <1>3
  <1>5. \A x \in A : /\ [l EXCEPT !.invalid = @ \cup x] \in Ledgers
                     /\ [l EXCEPT !.pending = @ \cup x] \in Ledgers
    BY <1>1, <1>3, <1>4
  <1>6. \A t \in Tx : [l EXCEPT !.spent = @ \cup Ins[t]] \in Ledgers
    BY <1>1, <1>3, <1>4
  <1>7. Skip(l) \in Ledgers
    BY <1>2, <1>3, <1>4 DEF Skip
  <1> QED BY <1>4, <1>5, <1>6, <1>7 DEF A, B, D, E, F, H

LEMMA LedgerPaid ==
    ASSUME NEW l \in Ledgers, NEW used \in SUBSET Addresses, NEW utxos \in Purses, NEW b \in Int
    PROVE  [l EXCEPT !.used = l.used \cup used, !.utxos = utxos, !.balance = b,
                     !.balanceHist = Append(l.balanceHist, b)] \in Ledgers
  <1> DEFINE A == SUBSET Tx
             B == SUBSET (Payments \cup UNION {Ins[u] : u \in Tx})
             D == SUBSET Addresses
             E == Purses
             H == Seq(Int)
  <1>1. l.used \cup used \in D /\ Append(l.balanceHist, b) \in H
    BY AppendProperties, LedgerFields
  <1>2. Ledgers = [invalid : A, pending : A, spent : B, used : D, utxos : E,
                   balance : Int, balanceHist : H]
    BY DEF Ledgers
  <1> HIDE DEF A, B, D, E, H
  <1> QED BY <1>1, <1>2 DEF E

LEMMA AddOutputsKeeps ==
    ASSUME NEW h \in Heights, NEW d, NEW ts \in SUBSET Tx, NEW l \in Ledgers,
           Fair(l, ts, h, d), Counts(l, ts), NEW t \in Tx \ ts,
           \A u \in ts : h[u] <= h[t], h[t] = Unconfirmed => ~IsInvalid(l, t),
           NEW k, k = [l EXCEPT !.spent = @ \cup Ins[t]],
           NEW m, m = AddOutputs(k, t, d)
    PROVE  m \in Ledgers /\ Fair(m, ts \cup {t}, h, d) /\ Counts(m, ts \cup {t})
  <1> DEFINE mine == {o \in Outputs(t) : AllPKH(o, d)}
             spent == l.spent \cup Ins[t]
             gone == (l.utxos \cup mine) \cap spent
             b == l.balance + Sum(mine) - Sum(gone)
             paid == {PKH(o) : o \in mine}
  <1>1. /\ l.invalid \in SUBSET Tx /\ l.pending \in SUBSET Tx /\ l.used \in SUBSET Addresses
        /\ l.spent \in SUBSET (Payments \cup UNION {Ins[u] : u \in Tx})
        /\ l.utxos \in Purses /\ l.balance \in Int /\ l.balanceHist \in Seq(Int)
    BY LedgerFields
  <1>2. /\ k.spent = spent /\ k.utxos = l.utxos /\ k.balance = l.balance
        /\ k.invalid = l.invalid /\ k.pending = l.pending /\ k.used = l.used
        /\ k.balanceHist = l.balanceHist /\ k \in Ledgers
    BY LedgerFields DEF Ledgers
  <1>3. m = [k EXCEPT !.used = k.used \cup paid, !.utxos = (k.utxos \cup mine) \ gone,
                      !.balance = b, !.balanceHist = Append(k.balanceHist, b)]
    <2>1. \A o : o \in (k.utxos \cup mine) \cap k.spent <=> o \in gone
      BY <1>2
    <2>2. (k.utxos \cup mine) \cap k.spent = gone
      BY <2>1
    <2> QED BY <1>2, <2>2 DEF AddOutputs, Sum
  <1>4. mine \in Purses /\ l.utxos \cap mine = {} /\ gone \in SUBSET (l.utxos \cup mine)
        /\ gone \in Purses
    <2>1. mine \in Purses
      <3>1. mine \subseteq Outputs(t)
        OBVIOUS
      <3> HIDE DEF mine
      <3> QED BY <3>1, OutputsAre, PursesAre
    <2>2. \A o \in mine : o[1] = t
      BY OutputsAre
    <2>3. \A o \in l.utxos : o[1] # t
      BY DEF Fair
    <2>4. l.utxos \cup mine \in Purses
      <3> HIDE DEF mine
      <3> QED BY <1>1, <2>1, PursesAre
    <2>5. gone \in SUBSET (l.utxos \cup mine)
      OBVIOUS
    <2> HIDE DEF mine, gone
    <2> QED BY <2>1, <2>2, <2>3, <2>4, <2>5, PursesAre
  <1>5. b \in Int
    <2>1. Sum(mine) \in Nat /\ Sum(gone) \in Nat
      <3> HIDE DEF mine, gone
      <3> QED BY <1>4, SumStep
    <2> HIDE DEF mine, gone
    <2> QED BY <1>1, <2>1
  <1>6. paid \in SUBSET Addresses
    <2>1. \A o \in mine : PKH(o) \in (Chains \cup {"foreign"}) \X (0..MaxAddr) /\ PKH(o)[1] \in Chains
      BY OutputsAre DEF AllPKH
    <2>2. \A o \in mine : PKH(o) \in Addresses
      <3> HIDE DEF mine
      <3> QED BY <2>1 DEF Addresses
    <2> HIDE DEF mine
    <2> QED BY <2>2
  <1>7. /\ (l.utxos \cup mine) \ gone \in Purses
        /\ Sum((l.utxos \cup mine) \ gone) = Sum(l.utxos) + Sum(mine) - Sum(gone)
    <2> HIDE DEF mine, gone
    <2> QED BY <1>1, <1>4, SumChange
  <1>8. \A o \in (l.utxos \cup mine) \ gone : o \notin l.spent /\ o \notin Ins[t]
    OBVIOUS
  <1>9. \A o \in mine : o[1] = t /\ AllPKH(o, d)
    BY OutputsAre
  <1>10. /\ m.spent = spent /\ m.utxos = (l.utxos \cup mine) \ gone /\ m.balance = b
         /\ m.invalid = l.invalid /\ m.pending = l.pending
    <2> HIDE DEF mine, gone, b, spent, paid
    <2> QED BY <1>2, <1>3 DEF Ledgers
  <1>11. m \in Ledgers
    <2>1. (k.utxos \cup mine) \ gone \in Purses
      <3> HIDE DEF mine, gone
      <3> QED BY <1>2, <1>7
    <2> DEFINE utxos == (k.utxos \cup mine) \ gone
    <2> HIDE DEF mine, gone, b, spent, paid
    <2>2. k \in Ledgers /\ utxos \in Purses
      BY <1>2, <2>1
    <2>3. m = [k EXCEPT !.used = k.used \cup paid, !.utxos = utxos, !.balance = b,
                        !.balanceHist = Append(k.balanceHist, b)]
      BY <1>3
    <2> HIDE DEF utxos
    <2>4. [k EXCEPT !.used = k.used \cup paid, !.utxos = utxos, !.balance = b,
                    !.balanceHist = Append(k.balanceHist, b)] \in Ledgers
      BY <1>5, <1>6, <2>2, LedgerPaid
    <2> QED BY <2>3, <2>4
  <1> HIDE DEF mine, gone, paid
  <1>12. Counts(m, ts \cup {t})
    BY <1>10 DEF Counts
  <1>13. m.balance = Sum(m.utxos)
    BY <1>7, <1>10 DEF Fair
  <1>14. t \notin l.invalid \cup l.pending
    BY DEF Fair
  <1>15. ASSUME NEW u \in ts \ l.invalid, Conflict(t, u)
         PROVE  h[t] # Unconfirmed /\ h[u] # Unconfirmed
    <2>1. Ins[u] \subseteq l.spent
      BY DEF Counts
    <2>2. Ins[t] \cap l.spent # {}
      BY <1>15, <2>1 DEF Conflict
    <2>3. h[t] # Unconfirmed
      BY <2>2 DEF IsInvalid
    <2>4. h[u] <= h[t] /\ h[u] \in 0..Unconfirmed /\ h[t] \in 0..Unconfirmed /\ Unconfirmed \in Nat
      BY WalletAssumption DEF Heights, Unconfirmed
    <2>5. h[u] # Unconfirmed
      BY <2>3, <2>4
    <2> QED BY <2>3, <2>5
  <1>16. \A u, v : Conflict(u, v) => Conflict(v, u) /\ u # v
    BY DEF Conflict
  <1>17. \A u, v \in (ts \cup {t}) \ m.invalid :
             Conflict(u, v) => h[u] # Unconfirmed /\ h[v] # Unconfirmed
    BY <1>10, <1>15, <1>16 DEF Fair
  <1>18. ASSUME NEW o \in m.utxos
         PROVE  /\ o[1] \in (ts \cup {t}) \ (m.invalid \cup m.pending) /\ AllPKH(o, d)
                /\ \A u \in (ts \cup {t}) \ (m.invalid \cup m.pending) : o \notin Ins[u]
    <2>1. o \notin l.spent /\ o \notin Ins[t] /\ (o \in l.utxos \/ o \in mine)
      BY <1>8, <1>10
    <2>2. \A u \in ts \ (l.invalid \cup l.pending) : o \notin Ins[u]
      BY <2>1 DEF Counts
    <2>3. CASE o \in l.utxos
      BY <1>10, <2>1, <2>2, <2>3 DEF Fair
    <2>4. CASE o \in mine
      BY <1>9, <1>10, <1>14, <2>1, <2>2, <2>4
    <2> QED BY <2>1, <2>3, <2>4
  <1>19. /\ m.invalid \cup m.pending \subseteq ts \cup {t}
         /\ \A u \in m.invalid \cup m.pending : h[u] = Unconfirmed
    BY <1>10 DEF Fair
  <1>20. Fair(m, ts \cup {t}, h, d)
    BY <1>13, <1>17, <1>18, <1>19 DEF Fair
  <1> QED BY <1>11, <1>12, <1>20

LEMMA AddTxKeeps ==
    ASSUME NEW h \in Heights, NEW d, NEW ts \in SUBSET Tx, NEW l \in Ledgers,
           Fair(l, ts, h, d), Counts(l, ts), NEW t \in Tx \ ts, \A u \in ts : h[u] <= h[t]
    PROVE  /\ AddTx(l, t, h, d) \in Ledgers /\ Fair(AddTx(l, t, h, d), ts \cup {t}, h, d)
           /\ Counts(AddTx(l, t, h, d), ts \cup {t})
  <1> DEFINE k == [l EXCEPT !.spent = @ \cup Ins[t]]
             m == AddTx(l, t, h, d)
  <1>1. /\ l.invalid \in SUBSET Tx /\ l.pending \in SUBSET Tx /\ l.used \in SUBSET Addresses
        /\ l.spent \in SUBSET (Payments \cup UNION {Ins[u] : u \in Tx})
        /\ l.utxos \in Purses /\ l.balance \in Int /\ l.balanceHist \in Seq(Int)
    BY LedgerFields
  <1>3. t \notin l.invalid \cup l.pending
    BY DEF Fair
  <1>4. CASE h[t] = Unconfirmed /\ IsInvalid(l, t)
    <2>1. m = Skip([l EXCEPT !.invalid = @ \cup {t}])
      BY <1>4 DEF AddTx
    <2>2. m \in Ledgers
      <3> HIDE DEF m
      <3>1. [l EXCEPT !.invalid = @ \cup {t}] \in Ledgers
        BY LedgerFields
      <3> QED BY <2>1, <3>1, LedgerFields
    <2>3. /\ m.spent = l.spent /\ m.utxos = l.utxos /\ m.balance = l.balance
          /\ m.invalid = l.invalid \cup {t} /\ m.pending = l.pending
      BY <2>1 DEF Skip, Ledgers
    <2> HIDE DEF m
    <2>4. /\ (ts \cup {t}) \ m.invalid = ts \ l.invalid
          /\ (ts \cup {t}) \ (m.invalid \cup m.pending) = ts \ (l.invalid \cup l.pending)
      BY <2>3
    <2>5. Counts(m, ts \cup {t})
      BY <2>3, <2>4 DEF Counts
    <2>6. /\ m.invalid \cup m.pending \subseteq ts \cup {t}
          /\ \A u \in m.invalid \cup m.pending : h[u] = Unconfirmed
      BY <1>4, <2>3 DEF Fair
    <2>7. Fair(m, ts \cup {t}, h, d)
      BY <2>3, <2>4, <2>6 DEF Fair
    <2> QED BY <2>2, <2>5, <2>7 DEF m
  <1>5. CASE h[t] = Unconfirmed /\ ~IsInvalid(l, t) /\ IsPending(l, t)
    <2>1. m = Skip([k EXCEPT !.pending = @ \cup {t}])
      BY <1>5 DEF AddTx
    <2>2. m \in Ledgers
      <3>1. k \in Ledgers
        BY LedgerFields
      <3> HIDE DEF k, m
      <3>2. [k EXCEPT !.pending = @ \cup {t}] \in Ledgers
        BY <3>1, LedgerFields
      <3> QED BY <2>1, <3>2, LedgerFields
    <2>3. /\ m.spent = l.spent \cup Ins[t] /\ m.utxos = l.utxos /\ m.balance = l.balance
          /\ m.invalid = l.invalid /\ m.pending = l.pending \cup {t}
      BY <2>1 DEF Skip, Ledgers
    <2> HIDE DEF m
    <2>4. /\ (ts \cup {t}) \ m.invalid = (ts \ l.invalid) \cup {t}
          /\ (ts \cup {t}) \ (m.invalid \cup m.pending) = ts \ (l.invalid \cup l.pending)
      BY <1>3, <2>3
    <2>5. Counts(m, ts \cup {t})
      BY <2>3, <2>4 DEF Counts
    <2>6. /\ m.invalid \cup m.pending \subseteq ts \cup {t}
          /\ \A u \in m.invalid \cup m.pending : h[u] = Unconfirmed
      BY <1>5, <2>3 DEF Fair
    <2>7. \A u \in ts \ l.invalid : ~Conflict(t, u) /\ ~Conflict(u, t)
      BY <1>5 DEF Conflict, IsInvalid, Counts
    <2>8. ~Conflict(t, t)
      BY DEF Conflict
    <2>9. \A u, v \in (ts \cup {t}) \ m.invalid :
             Conflict(u, v) => h[u] # Unconfirmed /\ h[v] # Unconfirmed
      BY <2>4, <2>7, <2>8 DEF Fair
    <2>10. m.balance = Sum(m.utxos)
      BY <2>3 DEF Fair
    <2>11. \A o \in m.utxos :
            /\ o[1] \in (ts \cup {t}) \ (m.invalid \cup m.pending) /\ AllPKH(o, d)
            /\ \A u \in (ts \cup {t}) \ (m.invalid \cup m.pending) : o \notin Ins[u]
      BY <2>3, <2>4 DEF Fair
    <2>12. Fair(m, ts \cup {t}, h, d)
      BY <2>6, <2>9, <2>10, <2>11 DEF Fair
    <2> QED BY <2>2, <2>5, <2>12 DEF m
  <1>6. CASE h[t] = Unconfirmed => ~IsInvalid(l, t) /\ ~IsPending(l, t)
    <2>1. m = AddOutputs(k, t, d)
      BY <1>6 DEF AddTx
    <2> HIDE DEF m, k
    <2> QED BY <1>6, <2>1, AddOutputsKeeps DEF m, k
  <1> QED BY <1>4, <1>5, <1>6

\* The ledger computed from a sorted list is fair.

LEMMA OnlyOne == \A x : (CHOOSE y \in {x} : TRUE) = x
  OBVIOUS

\* The ledger computed from a sorted list is fair.
LEMMA UpdateBalanceIs ==
    ASSUME NEW h \in Heights, NEW d, NEW s \in Sorted(h)
    PROVE  UpdateBalance(s, h, d) \in Ledgers /\ Fair(UpdateBalance(s, h, d), Range(s), h, d)
  <1> DEFINE N == Len(s)
             Upto(n) == {s[i] : i \in 1..n}
             E(n, l) == AddTx(l, s[n], h, d)
             Good(l, n) == l \in Ledgers /\ Fair(l, Upto(n), h, d) /\ Counts(l, Upto(n))
             G == [n \in 1..N |-> [l \in Ledgers |-> IF E(n, l) \in Ledgers THEN E(n, l) ELSE l]]
             IsAfter(f) == f = [n \in 0..N |->
                                  IF n = 0 THEN NoLedger
                                  ELSE CHOOSE l \in {AddTx(m, s[n], h, d) : m \in {f[n - 1]}} : TRUE]
             after == CHOOSE f : IsAfter(f)
  <1>1. s \in Seq(Tx) /\ N \in Nat /\ \A i \in 1..N : s[i] \in Tx
    BY InList DEF Sorted
  <1>2. NoLedger \in Ledgers /\ Good(NoLedger, 0)
    <2>1. Sum({}) = 0 /\ {} \in Purses
      BY PursesAre, SumStep
    <2>2. NoLedger \in Ledgers
      BY <2>1, EmptySeq DEF NoLedger, Ledgers
    <2>3. Upto(0) = {}
      OBVIOUS
    <2> HIDE DEF Upto
    <2>4. Fair(NoLedger, Upto(0), h, d) /\ Counts(NoLedger, Upto(0))
      BY <2>1, <2>3 DEF NoLedger, Fair, Counts
    <2> QED BY <2>2, <2>4
  <1>3. ASSUME NEW n \in 1..N, NEW l, Good(l, n - 1) PROVE Good(E(n, l), n)
    <2>1. Upto(n) = Upto(n - 1) \cup {s[n]}
      <3>1. \A i \in 1..n : i \in 1..(n - 1) \/ i = n
        BY <1>1
      <3>2. n \in 1..n /\ \A i \in 1..(n - 1) : i \in 1..n
        BY <1>1
      <3> QED BY <3>1, <3>2
    <2>2. /\ Upto(n - 1) \in SUBSET Tx /\ s[n] \in Tx \ Upto(n - 1)
          /\ \A u \in Upto(n - 1) : h[u] <= h[s[n]]
      <3>1. \A i \in 1..(n - 1) : i \in 1..N /\ i < n
        BY <1>1
      <3>2. \A i \in 1..(n - 1) : s[i] \in Tx /\ s[i] # s[n] /\ h[s[i]] <= h[s[n]]
        BY <1>1, <3>1 DEF Sorted
      <3> QED BY <1>1, <3>2
    <2> HIDE DEF Upto
    <2> DEFINE ts == Upto(n - 1)
               t == s[n]
    <2>3. l \in Ledgers /\ Fair(l, ts, h, d) /\ Counts(l, ts)
      BY <1>3
    <2>4. ts \in SUBSET Tx /\ t \in Tx \ ts /\ \A u \in ts : h[u] <= h[t]
      BY <2>2
    <2>5. E(n, l) = AddTx(l, t, h, d) /\ Upto(n) = ts \cup {t}
      BY <2>1
    <2> HIDE DEF ts, t, E
    <2>6. /\ AddTx(l, t, h, d) \in Ledgers /\ Fair(AddTx(l, t, h, d), ts \cup {t}, h, d)
          /\ Counts(AddTx(l, t, h, d), ts \cup {t})
      BY <2>3, <2>4, AddTxKeeps
    <2> QED BY <2>5, <2>6
  <1> HIDE DEF Upto
  <1>4. PICK f : Walk(f, Ledgers, NoLedger, G, N)
    <2>1. G \in [1..N -> [Ledgers -> Ledgers]]
      <3> HIDE DEF E, N
      <3> QED OBVIOUS
    <2> HIDE DEF G, N
    <2> QED BY <1>1, <1>2, <2>1, Iteration
  <1>5. \A n \in 1..N : n - 1 \in 0..N
    BY <1>1
  <1>6. ASSUME NEW n \in 1..N, Good(f[n - 1], n - 1) PROVE f[n] = E(n, f[n - 1]) /\ Good(f[n], n)
    <2>1. E(n, f[n - 1]) \in Ledgers /\ f[n - 1] \in Ledgers /\ Good(E(n, f[n - 1]), n)
      BY <1>3, <1>6
    <2> HIDE DEF E, N, Good
    <2> QED BY <1>4, <1>5, <2>1 DEF Walk
  <1> DEFINE T == {n \in 0..N : Good(f[n], n)}
  <1>7. \A n \in 0..N : n \in T
    <2>1. 0 \in T
      <3>1. f[0] = NoLedger
        BY <1>4 DEF Walk
      <3>2. 0 \in 0..N
        BY <1>1
      <3> HIDE DEF Good, N
      <3> QED BY <1>2, <3>1, <3>2
    <2>2. \A n \in 1..N : n - 1 \in T => n \in T
      <3>1. \A n \in 1..N : n \in 0..N
        BY <1>1
      <3> HIDE DEF Good, N
      <3> QED BY <1>6, <3>1
    <2> HIDE DEF T, N
    <2> QED BY <1>1, <2>1, <2>2, CountUp
  <1>8. IsAfter(f)
    <2>1. \A n \in 1..N : f[n] = E(n, f[n - 1])
      <3> HIDE DEF E, N, Good
      <3> QED BY <1>5, <1>6, <1>7
    <2>2. ASSUME NEW n \in 0..N
          PROVE  f[n] = IF n = 0 THEN NoLedger
                        ELSE CHOOSE l \in {AddTx(m, s[n], h, d) : m \in {f[n - 1]}} : TRUE
      <3>1. CASE n = 0
        BY <1>4, <3>1 DEF Walk
      <3>2. CASE n # 0
        <4>1. n \in 1..N
          BY <1>1, <3>2
        <4>2. {AddTx(m, s[n], h, d) : m \in {f[n - 1]}} = {f[n]}
          <5>1. f[n] = AddTx(f[n - 1], s[n], h, d)
            BY <2>1, <4>1
          <5> QED BY <5>1
        <4> QED BY <3>2, <4>2, OnlyOne
      <3> QED BY <3>1, <3>2
    <2>3. f = [n \in 0..N |-> f[n]]
      <3> HIDE DEF N, G
      <3> QED BY <1>4 DEF Walk
    <2> HIDE DEF N
    <2> QED BY <2>2, <2>3, Zenon
  <1>9. IsAfter(after)
    <2> HIDE DEF IsAfter
    <2> QED BY <1>8
  <1>10. UpdateBalance(s, h, d) = after[N]
    BY Zenon DEF UpdateBalance
  <1> HIDE DEF after
  <1> DEFINE Q == {n \in 0..N : Good(after[n], n)}
  <1>11. 0 \in Q
    <2>1. 0 \in 0..N
      BY <1>1
    <2>2. after[0] = NoLedger
      <3> HIDE DEF N
      <3> QED BY <1>9, <2>1, Zenon
    <2> HIDE DEF Good, N, IsAfter
    <2> QED BY <1>2, <2>1, <2>2
  <1>12. ASSUME NEW n \in 1..N, n - 1 \in Q PROVE n \in Q
    <2>1. n \in 0..N /\ n # 0
      BY <1>1
    <2>2. after[n] = CHOOSE l \in {AddTx(m, s[n], h, d) : m \in {after[n - 1]}} : TRUE
      <3> HIDE DEF N
      <3> QED BY <1>9, <2>1, Zenon
    <2>3. {AddTx(m, s[n], h, d) : m \in {after[n - 1]}} = {E(n, after[n - 1])}
      OBVIOUS
    <2>4. after[n] = E(n, after[n - 1])
      <3> HIDE DEF E, IsAfter
      <3> QED BY <2>2, <2>3, OnlyOne
    <2>5. Good(after[n - 1], n - 1)
      <3> HIDE DEF Good, IsAfter, N
      <3> QED BY <1>12
    <2> HIDE DEF Good, E, IsAfter, N
    <2> QED BY <1>3, <2>1, <2>4, <2>5
  <1>13. Good(after[N], N)
    <2>1. \A n \in 0..N : n \in Q
      <3> HIDE DEF Q, N
      <3> QED BY <1>1, <1>11, <1>12, CountUp
    <2>2. N \in 0..N
      BY <1>1
    <2> HIDE DEF Good, N, IsAfter
    <2> QED BY <2>1, <2>2
  <1>14. Range(s) = Upto(N)
    BY <1>1, InList DEF Upto
  <1> HIDE DEF IsAfter
  <1> QED BY <1>10, <1>13, <1>14

-----------------------------------------------------------------------------
(* Address chains and the tip.                                              *)

LEMMA GreatestOf ==
    ASSUME NEW N \in Nat, NEW T \in SUBSET (0..N), T # {}
    PROVE  \E x \in T : \A y \in T : y <= x
  <1> DEFINE U == {k \in 0..N : N - k \in T}
  <1>1. U \in SUBSET Nat /\ U # {}
    <2>1. PICK x \in T : TRUE
      OBVIOUS
    <2>2. N - x \in 0..N /\ N - (N - x) = x
      OBVIOUS
    <2>3. N - x \in U
      BY <2>1, <2>2
    <2>4. U \in SUBSET Nat
      OBVIOUS
    <2> HIDE DEF U
    <2> QED BY <2>3, <2>4
  <1>2. PICK k \in U : \A m \in U : k <= m
    <2> HIDE DEF U
    <2> QED BY <1>1, LeastOf
  <1>3. N - k \in T /\ k \in 0..N
    OBVIOUS
  <1>4. ASSUME NEW y \in T PROVE y <= N - k
    <2>1. N - y \in 0..N /\ N - (N - y) = y
      OBVIOUS
    <2>2. k <= N - y
      BY <1>2, <2>1
    <2> QED BY <1>3, <2>2
  <1> QED BY <1>3, <1>4

LEMMA TipIs ==
    ASSUME mined \in [Tx -> 0..MaxHeight]
    PROVE  Tip \in 0..MaxHeight
  <1> DEFINE T == {0} \cup Range(mined)
  <1>1. MaxHeight \in Nat /\ T \in SUBSET (0..MaxHeight) /\ T # {}
    BY WalletAssumption DEF Range
  <1>2. \E x \in T : \A y \in T : y <= x
    <2> HIDE DEF T
    <2> QED BY <1>1, GreatestOf
  <1>3. \A x, y \in T : y <= x => x >= y
    <2> HIDE DEF T
    <2> QED BY <1>1
  <1>4. \E x \in T : \A y \in T : x >= y
    <2> HIDE DEF T
    <2> QED BY <1>2, <1>3
  <1>5. Tip \in T
    <2> HIDE DEF T
    <2>1. Max(T) \in T
      BY <1>4 DEF Max
    <2> QED BY <2>1 DEF Tip, T
  <1> HIDE DEF T
  <1> QED BY <1>1, <1>5

\* The chains only grow.
LEMMA UnusedAddrsAre ==
    ASSUME NEW d \in [Chains -> Nat], NEW used \in SUBSET ((Chains \cup {"foreign"}) \X (0..MaxAddr)),
           NEW gap \in Nat \ {0}
    PROVE  /\ UnusedAddrs(d, used, gap) \in [Chains -> Nat]
           /\ \A c \in Chains : d[c] <= UnusedAddrs(d, used, gap)[c]
  <1> DEFINE Last1(c, n, k) == /\ k = 0 \/ <<c, k>> \in used
                               /\ \A m \in (k + 1)..n : <<c, m>> \notin used
             lastUsed(c, n) == CHOOSE k \in 0..n : Last1(c, n, k)
             High(c) == d[c] + MaxAddr + gap
             Grown(c, n) == /\ lastUsed(c, n) + gap <= n
                            /\ \A m \in d[c]..(n - 1) : lastUsed(c, m) + gap > m
             u == UnusedAddrs(d, used, gap)
  <1>1. u = [c \in Chains |-> CHOOSE n \in d[c]..High(c) : Grown(c, n)]
    BY DEF UnusedAddrs
  <1>2. ASSUME NEW c \in Chains, NEW n \in Nat
        PROVE  lastUsed(c, n) \in 0..n /\ lastUsed(c, n) <= MaxAddr
    <2> DEFINE T == {k \in 0..n : k = 0 \/ <<c, k>> \in used}
    <2>1. T \in SUBSET (0..n) /\ T # {}
      <3>1. 0 \in T
        OBVIOUS
      <3> QED BY <3>1
    <2>2. PICK x \in T : \A y \in T : y <= x
      <3> HIDE DEF T
      <3> QED BY <2>1, GreatestOf
    <2>3. \A m \in (x + 1)..n : <<c, m>> \notin used
      <3>1. \A m \in (x + 1)..n : m \in 0..n /\ ~(m <= x)
        BY <2>1
      <3> QED BY <2>2, <3>1
    <2>4. x \in 0..n /\ Last1(c, n, x)
      BY <2>1, <2>3
    <2>5. lastUsed(c, n) \in 0..n /\ Last1(c, n, lastUsed(c, n))
      <3> HIDE DEF Last1
      <3> QED BY <2>4
    <2> HIDE DEF lastUsed, T
    <2>6. lastUsed(c, n) = 0 \/ lastUsed(c, n) \in 0..MaxAddr
      BY <2>5
    <2>7. lastUsed(c, n) <= MaxAddr
      BY <2>6, WalletAssumption
    <2> QED BY <2>5, <2>7
  <1> HIDE DEF lastUsed, u
  <1>3. ASSUME NEW c \in Chains PROVE \E n \in d[c]..High(c) : Grown(c, n)
    <2> DEFINE T == {n \in Nat : d[c] <= n /\ lastUsed(c, n) + gap <= n}
    <2>1. d[c] \in Nat /\ MaxAddr \in Nat /\ gap \in Nat /\ High(c) \in Nat
      BY WalletAssumption
    <2>2. High(c) \in T
      <3>1. lastUsed(c, High(c)) \in Int /\ lastUsed(c, High(c)) <= MaxAddr
        <4> HIDE DEF High
        <4> QED BY <1>2, <2>1
      <3> QED BY <2>1, <3>1
    <2>3. PICK n \in T : \A m \in T : n <= m
      <3>1. T \in SUBSET Nat /\ T # {}
        <4> HIDE DEF High
        <4> QED BY <2>2
      <3> HIDE DEF T
      <3> QED BY <3>1, LeastOf
    <2>4. n \in d[c]..High(c)
      <3>1. n <= High(c) /\ d[c] <= n /\ n \in Nat
        <4> HIDE DEF High
        <4> QED BY <2>2, <2>3
      <3> HIDE DEF High
      <3> QED BY <2>1, <3>1
    <2>5. ASSUME NEW m \in d[c]..(n - 1) PROVE lastUsed(c, m) + gap > m
      <3>1. m \in Nat /\ d[c] <= m /\ ~(n <= m) /\ n \in Nat
        BY <2>1
      <3>2. m \notin T
        <4> HIDE DEF T
        <4> QED BY <2>3, <3>1
      <3>3. lastUsed(c, m) \in Int /\ ~(lastUsed(c, m) + gap <= m)
        BY <1>2, <3>1, <3>2
      <3> QED BY <2>1, <3>1, <3>3
    <2>6. lastUsed(c, n) + gap <= n
      BY <2>3
    <2> HIDE DEF High
    <2> QED BY <2>4, <2>5, <2>6
  <1>4. ASSUME NEW c \in Chains PROVE u[c] \in d[c]..High(c)
    <2> HIDE DEF Grown, High
    <2>1. u[c] = CHOOSE n \in d[c]..High(c) : Grown(c, n)
      BY <1>1
    <2> QED BY <1>3, <2>1
  <1>5. \A c \in Chains : u[c] \in Nat /\ d[c] <= u[c]
    <2>1. \A c \in Chains : d[c] \in Nat /\ High(c) \in Nat
      BY WalletAssumption
    <2> HIDE DEF High
    <2> QED BY <1>4, <2>1
  <1>6. u \in [Chains -> Nat]
    <2> HIDE DEF Grown, High
    <2>1. u = [c \in Chains |-> u[c]]
      BY <1>1
    <2> HIDE DEF u
    <2> QED BY <1>5, <2>1
  <1> QED BY <1>5, <1>6 DEF u

Typed ==
    /\ allTx \subseteq Tx /\ saved \subseteq Tx
    /\ height \in Heights /\ list \in Sorted(height)
    /\ derived \in [Chains -> Nat]
    /\ ledger \in Ledgers
    /\ mined \in [Tx -> 0..MaxHeight]

\* Only a wallet whose list holds a freed transaction lists what it does not know.
Known == open => Listed \subseteq allTx

IInv == Typed /\ Known /\ Fair(ledger, Listed, height, derived)

-----------------------------------------------------------------------------
(* What each call keeps.                                                    *)

LEMMA FairLater ==
    ASSUME NEW l, NEW ts, NEW h, NEW d \in [Chains -> Nat], NEW e \in [Chains -> Nat],
           Fair(l, ts, h, d), \A c \in Chains : d[c] <= e[c],
           \A o \in l.utxos : PKH(o)[2] \in Nat
    PROVE  Fair(l, ts, h, e)
  <1>1. \A o \in l.utxos : AllPKH(o, d) => AllPKH(o, e)
    BY DEF AllPKH
  <1> QED BY <1>1 DEF Fair

LEMMA UtxosAre ==
    ASSUME NEW l \in Ledgers, NEW o \in l.utxos
    PROVE  PKH(o)[2] \in Nat
  <1>1. l.utxos \in SUBSET Payments
    BY LedgerFields, PursesAre
  <1>2. PICK t \in Tx : o \in Outputs(t)
    BY <1>1 DEF Payments
  <1>3. PKH(o) \in (Chains \cup {"foreign"}) \X (0..MaxAddr)
    BY <1>2, OutputsAre
  <1> QED BY <1>3, WalletAssumption

LEMMA RegisterTransactionKeeps ==
    ASSUME IInv, NEW t \in Tx, RegisterTransaction(t)
    PROVE  IInv'
  <1>1. /\ allTx' = allTx \cup {t} /\ height' = height /\ open' = open /\ mined' = mined /\ open
    BY DEF RegisterTransaction
  <1>2. CASE t \notin allTx /\ ContainsTx(t, allTx, derived)
    <2>1. /\ list' = InsertTx(list, t, allTx', height, derived)
          /\ ledger' = UpdateBalance(list', height, derived)
          /\ derived' = UnusedAddrs(derived, ledger'.used, Gap)
          /\ saved' = saved \cup {t}
      BY <1>2 DEF RegisterTransaction
    <2>2. t \in Tx \ Range(list) /\ allTx' \in SUBSET Tx
      BY <1>1, <1>2 DEF IInv, Known, Listed, Typed
    <2>3. list' \in Sorted(height) /\ Range(list') = Range(list) \cup {t}
      <3>1. height \in Heights /\ list \in Sorted(height)
        BY DEF IInv, Typed
      <3>2. list' = InsertTx(list, t, allTx \cup {t}, height, derived)
        BY <1>1, <2>1
      <3>3. allTx \cup {t} \in SUBSET Tx
        BY <1>1, <2>2
      <3> QED BY <2>2, <3>1, <3>2, <3>3, InsertKeeps
    <2>4. ledger' \in Ledgers /\ Fair(ledger', Range(list'), height, derived)
      BY <2>1, <2>3, UpdateBalanceIs DEF IInv, Typed
    <2>5. ledger'.used \in SUBSET ((Chains \cup {"foreign"}) \X (0..MaxAddr))
      <3>1. ledger'.used \in SUBSET Addresses
        BY <2>4, LedgerFields
      <3> QED BY <3>1 DEF Addresses
    <2>6. derived' \in [Chains -> Nat] /\ \A c \in Chains : derived[c] <= derived'[c]
      BY <2>1, <2>5, WalletAssumption, UnusedAddrsAre DEF IInv, Typed
    <2>7. Fair(ledger', Range(list'), height, derived')
      BY <2>4, <2>6, FairLater, UtxosAre DEF IInv, Typed
    <2>8. Typed'
      BY <1>1, <2>1, <2>2, <2>3, <2>4, <2>6 DEF IInv, Typed
    <2>9. Known'
      BY <1>1, <2>3 DEF IInv, Known, Listed
    <2> QED BY <1>1, <2>7, <2>8, <2>9 DEF IInv, Listed
  <1>3. CASE ~(t \notin allTx /\ ContainsTx(t, allTx, derived))
    <2>1. UNCHANGED <<list, ledger, derived, saved>>
      BY <1>3 DEF RegisterTransaction
    <2> QED BY <1>1, <2>1 DEF IInv, Typed, Known, Listed
  <1> QED BY <1>2, <1>3

LEMMA RemoveTransactionKeeps ==
    ASSUME IInv, NEW t \in Tx, RemoveTransaction(t)
    PROVE  /\ IInv' /\ Listed' = Listed \ Dependents(t)
  <1>1. /\ list' = Without(list, Dependents(t)) /\ saved' = saved \ Dependents(t)
        /\ ledger' = UpdateBalance(list', height, derived)
        /\ UNCHANGED <<allTx, height, derived, open, mined>>
    BY DEF RemoveTransaction
  <1>2. list' \in Sorted(height) /\ Range(list') = Range(list) \ Dependents(t)
    BY <1>1, WithoutKeeps DEF IInv, Typed
  <1>3. ledger' \in Ledgers /\ Fair(ledger', Range(list'), height, derived)
    BY <1>1, <1>2, UpdateBalanceIs DEF IInv, Typed
  <1>4. Typed'
    BY <1>1, <1>2, <1>3 DEF IInv, Typed
  <1>5. Known'
    BY <1>1, <1>2 DEF IInv, Known, Listed
  <1> QED BY <1>1, <1>2, <1>3, <1>4, <1>5 DEF IInv, Listed

LEMMA SetTxUnconfirmedAfterKeeps ==
    ASSUME IInv, NEW h \in 0..MaxHeight, SetTxUnconfirmedAfter(h)
    PROVE  /\ IInv' /\ \A t \in Listed : height'[t] \notin (h + 1)..MaxHeight
  <1> DEFINE ts == {t \in Listed : height[t] > h}
  <1>0. h \in Nat /\ MaxHeight \in Nat /\ Unconfirmed \in Nat /\ Unconfirmed > MaxHeight
    BY WalletAssumption DEF Unconfirmed
  <1>1. TxAfter(h) = ts
    BY <1>0, TxAfterIs DEF IInv, Typed
  <1>2. /\ mined' = [t \in Tx |-> IF mined[t] > h THEN 0 ELSE mined[t]]
        /\ height' = [t \in Tx |-> IF t \in ts THEN Unconfirmed ELSE height[t]]
        /\ ledger' = IF ts = {} THEN ledger ELSE UpdateBalance(list, height', derived)
        /\ saved' = saved \cup ts
        /\ UNCHANGED <<allTx, list, derived, open>>
    <2> HIDE DEF ts
    <2> QED BY <1>1 DEF SetTxUnconfirmedAfter
  <1>3. list \in Seq(Tx) /\ \A i \in 1..Len(list) : list[i] \in Tx /\ list[i] \in Listed
    BY InList DEF IInv, Typed, Sorted, Listed
  <1>4. Listed \subseteq Tx
    BY <1>3, InList DEF Listed
  <1>5. height' \in Heights
    <2>1. \A t \in Tx : height[t] \in 0..Unconfirmed
      BY DEF IInv, Typed, Heights
    <2>2. Unconfirmed \in 0..Unconfirmed
      BY <1>0
    <2> HIDE DEF ts
    <2> QED BY <1>2, <2>1, <2>2 DEF Heights
  <1>6. \A t \in Tx : height'[t] = IF t \in ts THEN Unconfirmed ELSE height[t]
    <2> HIDE DEF ts
    <2> QED BY <1>2
  <1>7. list \in Sorted(height')
    <2> SUFFICES ASSUME NEW i \in 1..Len(list), NEW j \in 1..Len(list), i < j
                 PROVE  list[i] # list[j] /\ height'[list[i]] <= height'[list[j]]
      BY <1>3 DEF Sorted
    <2>1. list[i] # list[j] /\ height[list[i]] <= height[list[j]]
      BY DEF IInv, Typed, Sorted
    <2>2. /\ height'[list[i]] \in 0..Unconfirmed /\ height[list[i]] \in 0..Unconfirmed
          /\ height[list[j]] \in 0..Unconfirmed
      BY <1>3, <1>5 DEF Heights, IInv, Typed
    <2>3. CASE list[j] \in ts
      BY <1>0, <1>3, <1>6, <2>1, <2>2, <2>3
    <2>4. CASE list[j] \notin ts
      <3>1. list[i] \notin ts
        BY <1>0, <1>3, <2>1, <2>2, <2>4
      <3> HIDE DEF ts
      <3> QED BY <1>3, <1>6, <2>1, <2>4, <3>1
    <2> QED BY <2>3, <2>4
  <1>8. ledger' \in Ledgers /\ Fair(ledger', Listed, height', derived)
    <2>1. CASE ts = {}
      <3>1. height' = height
        <4>1. height' = [t \in Tx |-> height[t]]
          <5> HIDE DEF ts
          <5> QED BY <1>2, <2>1
        <4> QED BY <4>1 DEF IInv, Typed, Heights
      <3> HIDE DEF ts
      <3> QED BY <1>2, <2>1, <3>1 DEF IInv, Typed
    <2>2. CASE ts # {}
      <3> HIDE DEF ts
      <3>1. ledger' = UpdateBalance(list, height', derived)
        BY <1>2, <2>2
      <3> QED BY <1>5, <1>7, <3>1, UpdateBalanceIs DEF Listed
    <2> QED BY <2>1, <2>2
  <1>9. mined' \in [Tx -> 0..MaxHeight]
    <2>1. \A t \in Tx : mined[t] \in 0..MaxHeight /\ 0 \in 0..MaxHeight
      BY <1>0 DEF IInv, Typed
    <2> QED BY <1>2, <2>1
  <1>10. Typed'
    <2>1. saved' \subseteq Tx
      BY <1>2, <1>4 DEF IInv, Typed
    <2> HIDE DEF ts
    <2> QED BY <1>2, <1>5, <1>7, <1>8, <1>9, <2>1 DEF IInv, Typed
  <1>11. Known'
    BY <1>2 DEF IInv, Known, Listed
  <1>12. IInv'
    BY <1>2, <1>8, <1>10, <1>11 DEF IInv, Listed
  <1>13. ASSUME NEW t \in Listed PROVE height'[t] \notin (h + 1)..MaxHeight
    <2>1. t \in Tx /\ height[t] \in 0..Unconfirmed
      BY <1>4 DEF IInv, Typed, Heights
    <2> QED BY <1>0, <1>6, <2>1
  <1> QED BY <1>12, <1>13

\* What UpdateTransactions has done so far, of hashes in hs and to the height h.
Records == [allTx : SUBSET Tx, list : Seq(Tx), height : Heights, saved : SUBSET Tx,
            needs : BOOLEAN]

Updates(hs, h) ==
    {r \in Records :
        /\ r.list \in Sorted(r.height) /\ Range(r.list) = Listed
        /\ \A t \in Tx : r.height[t] # height[t] =>
              /\ t \in hs /\ r.height[t] = h
              /\ r.needs \/ t \notin ledger.invalid \cup ledger.pending}

LEMMA SortedLike ==
    ASSUME NEW h \in Heights, NEW k \in Heights, NEW s \in Sorted(h),
           \A t \in Range(s) : h[t] = k[t]
    PROVE  s \in Sorted(k)
  <1>1. s \in Seq(Tx) /\ \A i \in 1..Len(s) : h[s[i]] = k[s[i]]
    BY InList DEF Sorted
  <1> QED BY <1>1 DEF Sorted

LEMMA UpdateTransactionKeeps ==
    ASSUME IInv, NEW hs \in SUBSET Tx, NEW h \in 0..Unconfirmed, NEW t \in hs,
           NEW r \in Updates(hs, h)
    PROVE  UpdateTransaction(r, t, h) \in Updates(hs, h)
  <1> DEFINE k == [r.height EXCEPT ![t] = h]
             l == Resort(r.list, t, r.allTx, k)
  <1>1. /\ r.allTx \in SUBSET Tx /\ r.list \in Seq(Tx) /\ r.height \in Heights
        /\ r.saved \in SUBSET Tx /\ r.needs \in BOOLEAN
        /\ r.list \in Sorted(r.height) /\ Range(r.list) = Listed
    BY DEF Updates, Records
  <1>2. \A u \in Tx : r.height[u] # height[u] =>
              /\ u \in hs /\ r.height[u] = h
              /\ r.needs \/ u \notin ledger.invalid \cup ledger.pending
    BY DEF Updates
  <1>3. k \in Heights /\ k[t] = h /\ \A u \in Tx : u # t => k[u] = r.height[u]
    BY <1>1 DEF Heights
  <1> HIDE DEF k
  <1>4. l \in Sorted(k) /\ Range(l) = Listed
    <2>1. CASE t \in Range(r.list)
      <3> DEFINE w == Without(r.list, {t})
      <3>1. w \in Sorted(r.height) /\ Range(w) = Listed \ {t}
        BY <1>1, WithoutKeeps
      <3>2. Listed \subseteq Tx
        BY <1>1, InList
      <3> HIDE DEF w
      <3>3. w \in Sorted(k)
        BY <1>1, <1>3, <3>1, <3>2, SortedLike
      <3>4. t \in Tx \ Range(w)
        BY <3>1
      <3>5. l = InsertTx(w, t, r.allTx, k, derived)
        BY <2>1 DEF Resort, w
      <3> HIDE DEF l
      <3>6. l \in Sorted(k) /\ Range(l) = Range(w) \cup {t}
        BY <1>1, <1>3, <3>3, <3>4, <3>5, InsertKeeps
      <3> QED BY <1>1, <2>1, <3>1, <3>6
    <2>2. CASE t \notin Range(r.list)
      <3>1. l = r.list
        BY <2>2 DEF Resort
      <3>2. Listed \subseteq Tx
        BY <1>1, InList
      <3>3. \A u \in Range(r.list) : r.height[u] = k[u]
        BY <1>1, <1>3, <2>2, <3>2
      <3>4. r.list \in Sorted(k)
        BY <1>1, <1>3, <3>3, SortedLike
      <3> QED BY <1>1, <3>1, <3>4
    <2> QED BY <2>1, <2>2
  <1> HIDE DEF l
  <1>5. CASE UpdateTransaction(r, t, h) = r
    BY <1>5
  <1>6. CASE UpdateTransaction(r, t, h) = [r EXCEPT !.allTx = @ \ {t}]
    BY <1>1, <1>2, <1>6 DEF Updates, Records
  <1>7. CASE UpdateTransaction(r, t, h) =
                [r EXCEPT !.height = k, !.list = l, !.saved = @ \cup {t},
                          !.needs = @ \/ NeedsUpdate(t)]
    <2> DEFINE m == UpdateTransaction(r, t, h)
    <2>1. /\ m.allTx = r.allTx /\ m.height = k /\ m.list = l
          /\ m.needs = (r.needs \/ NeedsUpdate(t))
      BY <1>7 DEF Updates, Records
    <2>2. m \in Records
      <3>1. l \in Seq(Tx) /\ r.saved \cup {t} \in SUBSET Tx /\ r \in Records
            /\ (r.needs \/ NeedsUpdate(t)) \in BOOLEAN
        BY <1>1, <1>4 DEF Sorted, Updates
      <3> HIDE DEF m
      <3> QED BY <1>3, <1>7, <3>1 DEF Records, m
    <2>3. ASSUME NEW u \in Tx, m.height[u] # height[u]
          PROVE  /\ u \in hs /\ m.height[u] = h
                 /\ m.needs \/ u \notin ledger.invalid \cup ledger.pending
      <3> HIDE DEF m
      <3>1. CASE u = t
        BY <1>3, <2>1, <3>1 DEF NeedsUpdate
      <3>2. CASE u # t
        BY <1>2, <1>3, <2>1, <2>3, <3>2
      <3> QED BY <3>1, <3>2
    <2> HIDE DEF m
    <2>4. m \in Updates(hs, h)
      BY <1>4, <2>1, <2>2, <2>3 DEF Updates
    <2> QED BY <2>4 DEF m
  <1> QED BY <1>5, <1>6, <1>7 DEF UpdateTransaction, k, l

LEMMA UpdateTransactionsKeeps ==
    ASSUME IInv, NEW n \in Nat, NEW hashes \in [1..n -> Tx], NEW h \in 0..Unconfirmed,
           h = Unconfirmed => \A t \in Range(hashes) : height[t] = Unconfirmed,
           UpdateTransactions(hashes, h), mined' \in [Tx -> 0..MaxHeight]
    PROVE  IInv'
  <1> DEFINE hs == Range(hashes)
             S == Updates(hs, h)
             now == [allTx |-> allTx, list |-> list, height |-> height, saved |-> saved,
                     needs |-> FALSE]
             E(i, r) == UpdateTransaction(r, hashes[i], h)
             G == [i \in 1..n |-> [r \in S |-> E(i, r)]]
             IsAfter(f) == f = [i \in 0..Len(hashes) |->
                                  IF i = 0 THEN now
                                  ELSE CHOOSE r \in {UpdateTransaction(m, hashes[i], h) :
                                                        m \in {f[i - 1]}} : TRUE]
             after == CHOOSE f : IsAfter(f)
  <1>1. /\ Len(hashes) = n /\ hashes \in Seq(Tx) /\ hs \in SUBSET Tx
        /\ \A i \in 1..n : hashes[i] \in hs
    <2>1. Len(hashes) = n /\ hashes \in Seq(Tx)
      OBVIOUS
    <2> QED BY <2>1 DEF Range
  <1> HIDE DEF hs
  <1>2. now \in S
    BY DEF IInv, Typed, Sorted, Updates, Records, Listed
  <1>3. \A i \in 1..n : \A r \in S : E(i, r) \in S
    BY <1>1, UpdateTransactionKeeps
  <1>8. \E r \in {after[Len(hashes)]} :
              /\ allTx' = r.allTx /\ list' = r.list
              /\ height' = r.height /\ saved' = r.saved
              /\ open' = (Range(r.list) \subseteq r.allTx)
              /\ ledger' = IF r.needs THEN UpdateBalance(r.list, r.height, derived) ELSE ledger
    BY Zenon DEF UpdateTransactions
  <1> HIDE DEF S, now, E
  <1>4. PICK f : Walk(f, S, now, G, n)
    <2>1. G \in [1..n -> [S -> S]]
      BY <1>3
    <2> HIDE DEF G
    <2> QED BY <1>2, <2>1, Iteration
  <1>5. \A i \in 1..n : i - 1 \in 0..n
    OBVIOUS
  <1>6. IsAfter(f)
    <2>1. \A i \in 1..n : f[i] = E(i, f[i - 1])
      BY <1>4, <1>5 DEF Walk
    <2>2. ASSUME NEW i \in 0..n
          PROVE  f[i] = IF i = 0 THEN now
                        ELSE CHOOSE r \in {UpdateTransaction(m, hashes[i], h) :
                                              m \in {f[i - 1]}} : TRUE
      <3>1. CASE i = 0
        BY <1>4, <3>1 DEF Walk
      <3>2. CASE i # 0
        <4>1. i \in 1..n
          BY <3>2
        <4>2. {UpdateTransaction(m, hashes[i], h) : m \in {f[i - 1]}} = {f[i]}
          <5>1. f[i] = UpdateTransaction(f[i - 1], hashes[i], h)
            BY <2>1, <4>1 DEF E
          <5> QED BY <5>1
        <4> QED BY <3>2, <4>2, OnlyOne
      <3> QED BY <3>1, <3>2
    <2>3. f = [i \in 0..n |-> f[i]]
      <3> HIDE DEF G
      <3> QED BY <1>4 DEF Walk
    <2> QED BY <1>1, <2>2, <2>3, Zenon
  <1>7. IsAfter(after)
    <2> HIDE DEF IsAfter
    <2> QED BY <1>6
  <1> HIDE DEF after
  <1> DEFINE T == {i \in 0..n : after[i] \in S}
  <1>9. after[n] \in S
    <2>1. 0 \in T
      <3>1. 0 \in 0..n
        OBVIOUS
      <3>2. after[0] = now
        BY <1>1, <1>7, <3>1, Zenon
      <3> HIDE DEF IsAfter
      <3> QED BY <1>2, <3>1, <3>2
    <2>2. ASSUME NEW i \in 1..n, i - 1 \in T PROVE i \in T
      <3>1. i \in 0..n /\ i # 0
        OBVIOUS
      <3>2. after[i] = CHOOSE r \in {UpdateTransaction(m, hashes[i], h) :
                                        m \in {after[i - 1]}} : TRUE
        BY <1>1, <1>7, <3>1, Zenon
      <3>3. {UpdateTransaction(m, hashes[i], h) : m \in {after[i - 1]}} = {E(i, after[i - 1])}
        BY DEF E
      <3>4. after[i] = E(i, after[i - 1])
        <4> HIDE DEF IsAfter
        <4> QED BY <3>2, <3>3, OnlyOne
      <3> HIDE DEF IsAfter
      <3> QED BY <1>3, <2>2, <3>1, <3>4
    <2>3. \A i \in 0..n : i \in T
      <3> HIDE DEF T
      <3> QED BY <2>1, <2>2, CountUp
    <2> HIDE DEF IsAfter
    <2> QED BY <2>3
  <1> HIDE DEF IsAfter
  <1>10. PICK r \in S : /\ allTx' = r.allTx /\ list' = r.list
                        /\ height' = r.height /\ saved' = r.saved
                        /\ open' = (Range(r.list) \subseteq r.allTx)
                        /\ ledger' = IF r.needs THEN UpdateBalance(r.list, r.height, derived)
                                     ELSE ledger
    BY <1>1, <1>8, <1>9
  <1>11. derived' = derived
    BY DEF UpdateTransactions
  <1>12. /\ r.allTx \in SUBSET Tx /\ r.list \in Seq(Tx) /\ r.height \in Heights
         /\ r.saved \in SUBSET Tx
         /\ r.list \in Sorted(r.height) /\ Range(r.list) = Listed
         /\ \A t \in Tx : r.height[t] # height[t] =>
              /\ t \in hs /\ r.height[t] = h
              /\ r.needs \/ t \notin ledger.invalid \cup ledger.pending
    BY DEF S, Updates, Records
  <1>13. ledger' \in Ledgers /\ Fair(ledger', Listed, r.height, derived)
    <2>1. CASE r.needs
      <3>1. ledger' = UpdateBalance(r.list, r.height, derived)
        BY <1>10, <2>1
      <3> QED BY <1>12, <3>1, UpdateBalanceIs
    <2>2. CASE ~r.needs
      <3>1. ledger' = ledger
        BY <1>10, <2>2
      <3>2. \A t \in Tx : r.height[t] # height[t] =>
                t \notin ledger.invalid \cup ledger.pending /\ r.height[t] # Unconfirmed
        <4>1. ASSUME NEW t \in Tx, r.height[t] # height[t], r.height[t] = Unconfirmed
              PROVE  FALSE
          <5>1. h = Unconfirmed /\ t \in hs
            BY <1>12, <4>1
          <5> QED BY <4>1, <5>1 DEF hs
        <4> QED BY <1>12, <2>2, <4>1
      <3>3. Listed \subseteq Tx
        BY <1>12, InList
      <3>4. Fair(ledger, Listed, height, derived) /\ ledger \in Ledgers
        BY DEF IInv, Typed
      <3>5. \A t \in ledger.invalid \cup ledger.pending : r.height[t] = Unconfirmed
        BY <3>2, <3>3, <3>4 DEF Fair
      <3>6. \A t, u \in Listed \ ledger.invalid :
               Conflict(t, u) => r.height[t] # Unconfirmed /\ r.height[u] # Unconfirmed
        BY <3>2, <3>3, <3>4 DEF Fair
      <3> QED BY <3>1, <3>4, <3>5, <3>6 DEF Fair
    <2> QED BY <2>1, <2>2
  <1>14. Typed'
    BY <1>10, <1>11, <1>12, <1>13 DEF IInv, Typed
  <1>15. Known'
    BY <1>10 DEF Known, Listed
  <1>16. Fair(ledger', Listed', height', derived')
    BY <1>10, <1>11, <1>12, <1>13 DEF Listed
  <1> QED BY <1>14, <1>15, <1>16 DEF IInv

\* The list that New makes of the transactions on file.
LEMMA FiledIs ==
    ASSUME NEW order \in Seq(Tx), NEW h \in Heights, NEW none,
           \A i, j \in 1..Len(order) : i < j => order[i] # order[j],
           NEW txs,
           txs = CHOOSE f : f = [n \in 0..Len(order) |->
                                    IF n = 0 THEN <<>>
                                    ELSE InsertTx(f[n - 1], order[n], {order[i] : i \in 1..n}, h, none)]
    PROVE  txs[Len(order)] \in Sorted(h) /\ Range(txs[Len(order)]) = Range(order)
  <1> DEFINE N == Len(order)
             Upto(n) == {order[i] : i \in 1..n}
             E(n, s) == InsertTx(s, order[n], Upto(n), h, none)
             Good(s, n) == s \in Sorted(h) /\ Range(s) = Upto(n)
             G == [n \in 1..N |-> [s \in Seq(Tx) |-> IF E(n, s) \in Seq(Tx) THEN E(n, s) ELSE s]]
             IsTxs(f) == f = [n \in 0..N |->
                                 IF n = 0 THEN <<>>
                                 ELSE InsertTx(f[n - 1], order[n], {order[i] : i \in 1..n}, h, none)]
  <1>1. N \in Nat /\ (\A i \in 1..N : order[i] \in Tx) /\ Range(order) = Upto(N)
    BY InList
  <1>2. Good(<<>>, 0)
    BY DEF Sorted, Range
  <1>3. ASSUME NEW n \in 1..N, NEW s, Good(s, n - 1) PROVE Good(E(n, s), n)
    <2>1. Upto(n) = Upto(n - 1) \cup {order[n]}
      <3>1. \A i \in 1..n : i \in 1..(n - 1) \/ i = n
        BY <1>1
      <3>2. n \in 1..n /\ \A i \in 1..(n - 1) : i \in 1..n
        BY <1>1
      <3> QED BY <3>1, <3>2
    <2>2. order[n] \in Tx \ Upto(n - 1) /\ Upto(n) \in SUBSET Tx
      <3>1. \A i \in 1..n : i \in 1..N
        BY <1>1
      <3>2. \A i \in 1..(n - 1) : i \in 1..N /\ i < n /\ order[i] # order[n]
        BY <1>1
      <3> QED BY <1>1, <3>1, <3>2
    <2> HIDE DEF Upto
    <2> DEFINE t == order[n]
               known == Upto(n)
    <2>3. /\ s \in Sorted(h) /\ t \in Tx \ Range(s) /\ known \in SUBSET Tx
          /\ Range(s) \cup {t} = known /\ E(n, s) = InsertTx(s, t, known, h, none)
      BY <1>3, <2>1, <2>2
    <2> HIDE DEF t, known, E
    <2>4. /\ InsertTx(s, t, known, h, none) \in Sorted(h)
          /\ Range(InsertTx(s, t, known, h, none)) = Range(s) \cup {t}
      BY <2>3, InsertKeeps
    <2> QED BY <2>3, <2>4 DEF known
  <1> HIDE DEF Upto
  <1>4. PICK f : Walk(f, Seq(Tx), <<>>, G, N)
    <2>1. G \in [1..N -> [Seq(Tx) -> Seq(Tx)]] /\ <<>> \in Seq(Tx)
      <3> HIDE DEF E, N
      <3> QED OBVIOUS
    <2> HIDE DEF G, N
    <2> QED BY <1>1, <2>1, Iteration
  <1>5. \A n \in 1..N : n - 1 \in 0..N /\ n \in 0..N
    BY <1>1
  <1>6. \A s, n : Good(s, n) => s \in Seq(Tx)
    BY DEF Sorted
  <1>7. ASSUME NEW n \in 1..N, Good(f[n - 1], n - 1) PROVE f[n] = E(n, f[n - 1]) /\ Good(f[n], n)
    <2>1. E(n, f[n - 1]) \in Seq(Tx) /\ f[n - 1] \in Seq(Tx) /\ Good(E(n, f[n - 1]), n)
      <3> HIDE DEF Good, E, N
      <3> QED BY <1>3, <1>6, <1>7
    <2> HIDE DEF E, N, Good
    <2> QED BY <1>4, <1>5, <2>1 DEF Walk
  <1> DEFINE T == {n \in 0..N : Good(f[n], n)}
  <1>8. \A n \in 0..N : n \in T
    <2>1. 0 \in T
      <3>1. f[0] = <<>>
        BY <1>4 DEF Walk
      <3>2. 0 \in 0..N
        BY <1>1
      <3> HIDE DEF Good, N
      <3> QED BY <1>2, <3>1, <3>2
    <2>2. \A n \in 1..N : n - 1 \in T => n \in T
      <3> HIDE DEF Good, N
      <3> QED BY <1>5, <1>7
    <2> HIDE DEF T, N
    <2> QED BY <1>1, <2>1, <2>2, CountUp
  <1>9. IsTxs(f)
    <2>1. \A n \in 1..N : f[n] = E(n, f[n - 1])
      <3> HIDE DEF E, N, Good
      <3> QED BY <1>5, <1>7, <1>8
    <2>2. ASSUME NEW n \in 0..N
          PROVE  f[n] = IF n = 0 THEN <<>>
                        ELSE InsertTx(f[n - 1], order[n], {order[i] : i \in 1..n}, h, none)
      <3>1. CASE n = 0
        BY <1>4, <3>1 DEF Walk
      <3>2. CASE n # 0
        <4>1. n \in 1..N
          BY <1>1, <3>2
        <4> QED BY <2>1, <3>2, <4>1 DEF Upto
      <3> QED BY <3>1, <3>2
    <2>3. f = [n \in 0..N |-> f[n]]
      <3> HIDE DEF N, G
      <3> QED BY <1>4 DEF Walk
    <2> HIDE DEF N
    <2> QED BY <2>2, <2>3, Zenon
  <1>10. IsTxs(txs)
    <2>1. txs = CHOOSE g : IsTxs(g)
      OBVIOUS
    <2> HIDE DEF IsTxs
    <2> QED BY <1>9, <2>1
  <1> DEFINE Q == {n \in 0..N : Good(txs[n], n)}
  <1>11. 0 \in Q
    <2>1. 0 \in 0..N
      BY <1>1
    <2>2. txs[0] = <<>>
      <3> HIDE DEF N
      <3> QED BY <1>10, <2>1, Zenon
    <2> HIDE DEF Good, N, IsTxs
    <2> QED BY <1>2, <2>1, <2>2
  <1>12. ASSUME NEW n \in 1..N, n - 1 \in Q PROVE n \in Q
    <2>1. n \in 0..N /\ n # 0
      BY <1>1
    <2>2. txs[n] = InsertTx(txs[n - 1], order[n], {order[i] : i \in 1..n}, h, none)
      <3> HIDE DEF N
      <3> QED BY <1>10, <2>1, Zenon
    <2>3. txs[n] = E(n, txs[n - 1])
      BY <2>2 DEF Upto
    <2>4. Good(txs[n - 1], n - 1)
      <3> HIDE DEF Good, IsTxs, N
      <3> QED BY <1>12
    <2> HIDE DEF Good, E, IsTxs, N
    <2> QED BY <1>3, <2>1, <2>3, <2>4
  <1>13. Good(txs[N], N)
    <2>1. \A n \in 0..N : n \in Q
      <3> HIDE DEF Q, N
      <3> QED BY <1>1, <1>11, <1>12, CountUp
    <2>2. N \in 0..N
      BY <1>1
    <2> HIDE DEF Good, N, IsTxs
    <2> QED BY <2>1, <2>2
  <1> HIDE DEF IsTxs
  <1> QED BY <1>1, <1>13

LEMMA RestartKeeps ==
    ASSUME IInv, Restart
    PROVE  IInv'
  <1> DEFINE none == [c \in Chains |-> 0]
             onFile == [t \in Tx |-> IF t \in saved THEN height[t] ELSE Unconfirmed]
             zero == [t \in Tx |-> 0]
  <1>1. PICK all \in ReadOrders : LET order == Without(all, Tx \ saved)
                                  IN  /\ New(order, onFile)
                                      /\ open' = Opens(order, derived')
                                      /\ UNCHANGED <<saved, mined>>
    BY DEF Restart
  <1> DEFINE order == Without(all, Tx \ saved)
             used == {PKH(o) : o \in UNION {Outputs(t) : t \in Range(order)}}
             txs == CHOOSE f : f = [n \in 0..Len(order) |->
                       IF n = 0 THEN <<>>
                       ELSE InsertTx(f[n - 1], order[n], {order[i] : i \in 1..n}, onFile, none)]
  <1>2. UNCHANGED <<saved, mined>>
    BY <1>1
  <1>3. New(order, onFile)
    BY <1>1
  <1>4. /\ allTx' = Range(order) /\ height' = onFile /\ list' = txs[Len(order)]
        /\ derived' = UnusedAddrs(none, used, GapExtended)
        /\ ledger' = UpdateBalance(list', onFile, derived')
    BY <1>3, Zenon DEF New
  <1>5. order \in Sorted(zero) /\ Range(order) = saved
    <2>1. all \in Seq(Tx) /\ Range(all) = Tx /\ IsInjective(all)
      BY WalletAssumption
    <2>2. DOMAIN all = 1..Len(all) /\ Len(all) \in Nat /\ \A i \in 1..Len(all) : all[i] \in Tx
      BY <2>1, InList
    <2>3. zero \in Heights
      BY WalletAssumption DEF Heights, Unconfirmed
    <2>4. \A i, j \in 1..Len(all) : i < j => all[i] # all[j]
      BY <2>1, <2>2 DEF IsInjective
    <2>5. all \in Sorted(zero)
      <3>1. \A i, j \in 1..Len(all) : zero[all[i]] <= zero[all[j]]
        BY <2>2
      <3> HIDE DEF zero
      <3> QED BY <2>1, <2>4, <3>1 DEF Sorted
    <2>6. Tx \ (Tx \ saved) = saved
      BY DEF IInv, Typed
    <2> HIDE DEF zero
    <2>7. order \in Sorted(zero) /\ Range(order) = Range(all) \ (Tx \ saved)
      BY <2>3, <2>5, WithoutKeeps
    <2> QED BY <2>1, <2>6, <2>7
  <1>6. order \in Seq(Tx) /\ \A i, j \in 1..Len(order) : i < j => order[i] # order[j]
    <2> HIDE DEF order, zero
    <2> QED BY <1>5 DEF Sorted
  <1> HIDE DEF order, zero
  <1>7. onFile \in Heights
    <2>1. \A t \in Tx : height[t] \in 0..Unconfirmed /\ Unconfirmed \in 0..Unconfirmed
      BY WalletAssumption DEF IInv, Typed, Heights, Unconfirmed
    <2> QED BY <2>1 DEF Heights
  <1> HIDE DEF onFile
  <1>8. list' \in Sorted(onFile) /\ Range(list') = saved
    <2>1. txs[Len(order)] \in Sorted(onFile) /\ Range(txs[Len(order)]) = Range(order)
      <3> HIDE DEF none
      <3> QED BY <1>6, <1>7, FiledIs
    <2> HIDE DEF txs
    <2> QED BY <1>4, <1>5, <2>1
  <1> HIDE DEF txs
  <1>9. used \in SUBSET ((Chains \cup {"foreign"}) \X (0..MaxAddr))
    <2>1. Range(order) \subseteq Tx
      BY <1>6, InList
    <2> QED BY <2>1, OutputsAre
  <1> HIDE DEF used
  <1>10. derived' \in [Chains -> Nat]
    <2>1. none \in [Chains -> Nat]
      OBVIOUS
    <2> HIDE DEF none
    <2>2. UnusedAddrs(none, used, GapExtended) \in [Chains -> Nat]
      BY <1>9, <2>1, WalletAssumption, UnusedAddrsAre
    <2> QED BY <1>4, <2>2
  <1>11. ledger' \in Ledgers /\ Fair(ledger', Range(list'), onFile, derived')
    BY <1>4, <1>7, <1>8, UpdateBalanceIs
  <1>12. Typed'
    BY <1>2, <1>4, <1>5, <1>7, <1>8, <1>10, <1>11 DEF IInv, Typed
  <1>13. Known'
    BY <1>4, <1>5, <1>8 DEF Known, Listed
  <1> QED BY <1>4, <1>11, <1>12, <1>13 DEF IInv, Listed

LEMMA InitIInv == Init => IInv
  <1> SUFFICES ASSUME Init PROVE IInv
    OBVIOUS
  <1>1. Sum({}) = 0 /\ {} \in Purses
    BY PursesAre, SumStep
  <1>2. ledger \in Ledgers
    BY <1>1, EmptySeq DEF Init, NoLedger, Ledgers
  <1>3. Listed = {}
    BY DEF Init, Listed, Range
  <1>4. Fair(ledger, Listed, height, derived)
    BY <1>1, <1>3 DEF Init, NoLedger, Fair
  <1>5. height \in Heights /\ mined \in [Tx -> 0..MaxHeight]
    BY WalletAssumption DEF Init, Heights, Unconfirmed
  <1>6. list \in Sorted(height)
    BY DEF Init, Sorted
  <1>7. derived \in [Chains -> Nat]
    <2> DEFINE none == [c \in Chains |-> 0]
    <2>1. none \in [Chains -> Nat]
      OBVIOUS
    <2>2. derived = UnusedAddrs(none, {}, GapExtended)
      BY DEF Init
    <2> HIDE DEF none
    <2>3. {} \in SUBSET ((Chains \cup {"foreign"}) \X (0..MaxAddr))
      OBVIOUS
    <2> QED BY <2>1, <2>2, <2>3, WalletAssumption, UnusedAddrsAre
  <1>8. allTx = {} /\ saved = {} /\ open
    BY DEF Init
  <1> QED BY <1>2, <1>3, <1>4, <1>5, <1>6, <1>7, <1>8 DEF IInv, Typed, Known

\* What each step is proved to do besides.
Reorgs == \A h \in 0..MaxHeight : SetTxUnconfirmedAfter(h) =>
              \A t \in Listed : height'[t] \notin (h + 1)..MaxHeight

Removals == \A t \in Listed \ Listed' : RemoveTransaction(t) =>
                \A u \in Listed' : height[u] = Unconfirmed =>
                    Parents(u) \cap (Listed \ Listed') = {}

LEMMA RemovalIsComplete ==
    ASSUME IInv, NEW t \in Tx, RemoveTransaction(t), NEW u \in Listed', height[u] = Unconfirmed
    PROVE  Parents(u) \cap (Listed \ Listed') = {}
  <1>1. Listed' = Listed \ Dependents(t)
    BY RemoveTransactionKeeps
  <1>2. t \in Listed /\ height[t] = Unconfirmed /\ list \in Seq(Tx)
    BY DEF RemoveTransaction, IInv, Typed, Sorted
  <1>3. u \in Listed /\ u \notin Dependents(t) /\ height[u] >= height[t]
    BY <1>1, <1>2, WalletAssumption DEF Unconfirmed
  <1>4. Parents(u) \cap Dependents(t) = {}
    BY <1>2, <1>3, DependentsAre
  <1> QED BY <1>1, <1>4

LEMMA NextIInv == IInv /\ [Next]_vars => IInv' /\ Reorgs /\ Removals
  <1> SUFFICES ASSUME IInv, [Next]_vars PROVE IInv' /\ Reorgs /\ Removals
    OBVIOUS
  <1>1. Reorgs
    BY SetTxUnconfirmedAfterKeeps DEF Reorgs
  <1>2. Removals
    <2>1. Listed \subseteq Tx
      BY InList DEF IInv, Typed, Sorted, Listed
    <2> QED BY <2>1, RemovalIsComplete DEF Removals
  <1>3. IInv'
    <2>1. ASSUME NEW t \in Tx, RegisterTransaction(t) PROVE IInv'
      BY <2>1, RegisterTransactionKeeps
    <2>2. ASSUME NEW t \in Tx, RemoveTransaction(t) PROVE IInv'
      BY <2>2, RemoveTransactionKeeps
    <2>3. ASSUME NEW n \in 1..MaxBlock, NEW hashes \in [1..n -> Tx], BlockRelayed(hashes)
          PROVE  IInv'
      <3>1. n \in Nat /\ MaxHeight \in Nat
        BY WalletAssumption
      <3>2. Tip \in 0..MaxHeight
        BY TipIs DEF IInv, Typed
      <3>3. /\ Tip < MaxHeight /\ UpdateTransactions(hashes, Tip + 1)
            /\ mined' = [t \in Tx |-> IF t \in Range(hashes) THEN Tip + 1 ELSE mined[t]]
        BY <2>3 DEF BlockRelayed
      <3> DEFINE h == Tip + 1
      <3>4. h \in 0..MaxHeight /\ h \in 0..Unconfirmed /\ h # Unconfirmed
        BY <3>1, <3>2, <3>3 DEF Unconfirmed
      <3>5. mined' \in [Tx -> 0..MaxHeight]
        <4>1. mined \in [Tx -> 0..MaxHeight] /\ UpdateTransactions(hashes, h)
              /\ mined' = [t \in Tx |-> IF t \in Range(hashes) THEN h ELSE mined[t]]
          BY <3>3 DEF IInv, Typed
        <4> HIDE DEF h
        <4> QED BY <3>4, <4>1
      <3>6. UpdateTransactions(hashes, h)
        BY <3>3
      <3> HIDE DEF h
      <3> QED BY <3>1, <3>4, <3>5, <3>6, UpdateTransactionsKeeps
    <2>4. ASSUME NEW t \in Tx, BlockRepeated(t) PROVE IInv'
      <3>1. mined[t] \in 0..Unconfirmed /\ mined[t] # Unconfirmed /\ MaxHeight \in Nat
        BY WalletAssumption DEF IInv, Typed, Unconfirmed
      <3>2. UpdateTransactions(<<t>>, mined[t]) /\ mined' = mined
        BY <2>4 DEF BlockRepeated
      <3>3. <<t>> \in [1..1 -> Tx]
        OBVIOUS
      <3>4. mined' \in [Tx -> 0..MaxHeight]
        BY <3>2 DEF IInv, Typed
      <3> QED BY <3>1, <3>2, <3>3, <3>4, UpdateTransactionsKeeps
    <2>5. ASSUME NEW t \in Tx, RelayCounted(t) PROVE IInv'
      <3>1. Unconfirmed \in 0..Unconfirmed
        BY WalletAssumption DEF Unconfirmed
      <3>2. UpdateTransactions(<<t>>, Unconfirmed) /\ mined' = mined /\ height[t] = Unconfirmed
        BY <2>5 DEF RelayCounted
      <3>3. <<t>> \in [1..1 -> Tx] /\ Range(<<t>>) = {t}
        BY DEF Range
      <3>4. mined' \in [Tx -> 0..MaxHeight]
        BY <3>2 DEF IInv, Typed
      <3>5. \A u \in Range(<<t>>) : height[u] = Unconfirmed
        BY <3>2, <3>3
      <3> QED BY <3>1, <3>2, <3>3, <3>4, <3>5, UpdateTransactionsKeeps
    <2>6. ASSUME NEW h \in 0..MaxHeight, SetTxUnconfirmedAfter(h) PROVE IInv'
      BY <2>6, SetTxUnconfirmedAfterKeeps
    <2>7. ASSUME Restart PROVE IInv'
      BY <2>7, RestartKeeps
    <2>8. ASSUME UNCHANGED vars PROVE IInv'
      BY <2>8 DEF vars, walletVars, IInv, Typed, Known, Listed
    <2> QED BY <2>1, <2>2, <2>3, <2>4, <2>5, <2>6, <2>7, <2>8 DEF Next
  <1> QED BY <1>1, <1>2, <1>3

-----------------------------------------------------------------------------
(* The theorems.                                                            *)

\* The inductive invariant: the types, the order of the list, the list known to
\* the wallet, and what the ledger says of it.
THEOREM Invariance == Spec => []IInv
  <1>1. Init => IInv
    BY InitIInv
  <1>2. IInv /\ [Next]_vars => IInv'
    BY NextIInv
  <1> QED BY <1>1, <1>2, PTL DEF Spec

\* The list has no transaction twice and is sorted by height.
THEOREM Sorting == Spec => []SortedByHeight
  <1>1. IInv => SortedByHeight
    <2> SUFFICES ASSUME IInv PROVE SortedByHeight
      OBVIOUS
    <2>1. DOMAIN list = 1..Len(list)
      BY InList DEF IInv, Typed, Sorted
    <2> QED BY <2>1 DEF SortedByHeight, IInv, Typed, Sorted
  <1> QED BY <1>1, Invariance, PTL

\* Of two listed transactions in conflict one is invalid unless both are confirmed.
THEOREM Conflicts == Spec => []NoDoubleSpend
  <1>1. IInv => NoDoubleSpend
    BY DEF IInv, Fair, NoDoubleSpend
  <1> QED BY <1>1, Invariance, PTL

\* A confirmed transaction counts.
THEOREM Confirmation == Spec => []ConfirmedCounts
  <1>1. IInv => ConfirmedCounts
    BY DEF IInv, Fair, ConfirmedCounts
  <1> QED BY <1>1, Invariance, PTL

\* The balance is the sum of the unspent outputs, which nothing in effect spends.
THEOREM Balance == Spec => []BalanceIsUnspent
  <1>1. IInv => BalanceIsUnspent
    BY DEF IInv, Fair, BalanceIsUnspent, InEffect, Sum
  <1> QED BY <1>1, Invariance, PTL

\* A reorganisation leaves nothing listed confirmed above the fork.
THEOREM Reorganisation == Spec => ReorgUnconfirms
  <1>1. IInv /\ [Next]_vars => [Reorgs]_vars
    BY NextIInv
  <1> QED BY <1>1, Invariance, PTL DEF Spec, ReorgUnconfirms, Reorgs

\* A removal takes along every unconfirmed transaction that depends on what it takes.
THEOREM Removal == Spec => RemovalTakesDependents
  <1>1. IInv /\ [Next]_vars => [Removals]_vars
    BY NextIInv
  <1> QED BY <1>1, Invariance, PTL DEF Spec, RemovalTakesDependents, Removals
=============================================================================
