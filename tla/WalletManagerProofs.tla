------------------------ MODULE WalletManagerProofs ------------------------
(***************************************************************************)
(* That the wallet manager's records become those of the wallet's           *)
(* transactions, and the application's transfers those of the records, for  *)
(* any number of transactions, heights, submissions and restarts, and       *)
(* however long the queue is.                                               *)
(*                                                                          *)
(* The argument: the events of a transaction that wait in the queue say     *)
(* what its record does not yet.  The addition is the first of them and     *)
(* comes once; the last one carries the height the wallet has; a removal is *)
(* among them unless the record shows it.  The same holds of the events     *)
(* that the records' changes signal: those of a transfer wait in the order  *)
(* its handlers demand, the first finds the transfer as it asserts, and the *)
(* last is the one that shows the record.                                   *)
(***************************************************************************)
EXTENDS WalletManager, FiniteSetTheorems, SequenceTheorems, TLAPS

Names ==
    WalletEvents \cup TransferEvents \cup {"SUBMIT_FAILED", "SUBMIT_SUCCEEDED", "Rejected",
        "Submitted", "Transaction", "LateTransaction"}
Events == [name : Names, tx : Tx, height : Nat]

Wallets == [known : SUBSET Tx, listed : SUBSET Tx, saved : SUBSET Tx, height : [Tx -> Nat]]
Records == [is : {"none", "unsigned", "signed", "deleted"}, refed : BOOLEAN, height : Nat]

WalletTyped(w) == w \in Wallets /\ w.listed \subseteq w.known /\ w.saved \subseteq w.known

Typed ==
    /\ WalletTyped(wallet)
    /\ record \in [Tx -> Records]
    /\ queue \in Seq(Events)
    /\ answers \subseteq [tx : Tx, outcome : {"relayed", "conflict", "given up"}]
    /\ requests \subseteq Tx

\* What the queue q has for the record of t.
Tells(q, i, t) == q[i].tx = t /\ q[i].name \in WalletEvents
Silent(q, t) == \A i \in 1 .. Len(q) : ~Tells(q, i, t)
Adds(q, t) == \E i \in 1 .. Len(q) : Tells(q, i, t) /\ q[i].name = "TxAdded"
Deletes(q, t) == \E i \in 1 .. Len(q) : Tells(q, i, t) /\ q[i].name = "TxDeleted"
AddsFirst(q, t) ==
    \A i, j \in 1 .. Len(q) :
        Tells(q, i, t) /\ q[i].name = "TxAdded" /\ Tells(q, j, t) => i <= j
Ends(q, t, h) ==
    \A i \in 1 .. Len(q) :
        Tells(q, i, t) /\ (\A j \in 1 .. Len(q) : Tells(q, j, t) => j <= i) => q[i].height = h

\* With what waits in q, the record r is that of t in wallet w.
Recorded(q, w, r, t) ==
    /\ AddsFirst(q, t)
    /\ t \notin w.known => Silent(q, t)
    /\ t \notin w.known \/ Adds(q, t) => ~r.refed /\ r.is # "deleted"
    /\ t \in w.known /\ ~Adds(q, t) => r.refed /\ r.is \in {"signed", "deleted"}
    /\ t \in w.listed =>
           /\ r.is # "deleted" /\ ~Deletes(q, t)
           /\ Ends(q, t, w.height[t])
           /\ Silent(q, t) => r.height = w.height[t]
    /\ t \in w.known \ w.listed => Deletes(q, t) \/ (r.is = "deleted" /\ ~Adds(q, t))

\* With what waits in q, the records rs are those of the transactions in wallet w.
Fits(q, w, rs) == \A t \in Tx : Recorded(q, w, rs[t], t)

\* The inductive invariant.
IInv == Typed /\ (Running => Fits(queue, wallet, record))

-----------------------------------------------------------------------------
\* What a sequence of events tells after another one was appended.
LEMMA Appended ==
    ASSUME NEW q \in Seq(Events), NEW v \in Seq(Events)
    PROVE  /\ q \o v \in Seq(Events) /\ Len(q) \in Nat /\ Len(v) \in Nat
           /\ Len(q \o v) = Len(q) + Len(v)
           /\ \A i \in 1 .. Len(q) : (q \o v)[i] = q[i]
           /\ \A i \in 1 .. Len(v) : (q \o v)[Len(q) + i] = v[i]
           /\ \A i \in 1 .. Len(q \o v) :
                  \/ i \in 1 .. Len(q)
                  \/ i > Len(q) /\ i - Len(q) \in 1 .. Len(v) /\ (q \o v)[i] = v[i - Len(q)]
  BY ConcatProperties, LenProperties

\* Events that are not about t change nothing for it.
LEMMA SilentAppended ==
    ASSUME NEW t \in Tx, NEW q \in Seq(Events), NEW v \in Seq(Events), Silent(v, t),
           NEW w, NEW u, NEW r, Recorded(q, w, r, t),
           t \in u.known <=> t \in w.known, t \in u.listed <=> t \in w.listed,
           u.height[t] = w.height[t]
    PROVE  Recorded(q \o v, u, r, t)
  <1> DEFINE p == q \o v
  <1>1. /\ Len(q) \in Nat /\ Len(p) \in Nat /\ Len(q) <= Len(p)
        /\ \A i \in 1 .. Len(q) : p[i] = q[i]
        /\ \A i \in 1 .. Len(p) : i \in 1 .. Len(q) \/ ~Tells(p, i, t)
    BY Appended, LenProperties DEF Silent, Tells
  <1> HIDE DEF p
  <1>2. \A i \in 1 .. Len(q) : i \in 1 .. Len(p) /\ (Tells(p, i, t) <=> Tells(q, i, t))
    BY <1>1 DEF Tells
  <1>3. /\ Silent(p, t) <=> Silent(q, t)
        /\ Adds(p, t) <=> Adds(q, t)
        /\ Deletes(p, t) <=> Deletes(q, t)
    BY <1>1, <1>2 DEF Silent, Adds, Deletes
  <1>4. AddsFirst(q, t) => AddsFirst(p, t)
    BY <1>1, <1>2 DEF AddsFirst
  <1>5. ASSUME NEW h, Ends(q, t, h)
        PROVE  Ends(p, t, h)
    BY <1>1, <1>2, <1>5 DEF Ends
  <1>6. Recorded(p, u, r, t)
    BY <1>3, <1>4, <1>5 DEF Recorded
  <1> QED BY <1>6 DEF p

\* The events in v, of which the k-th is the only one about t, come after q.
OnlyTold(v, k, t) ==
    /\ k \in 1 .. Len(v) /\ Tells(v, k, t)
    /\ \A i \in 1 .. Len(v) : Tells(v, i, t) => i = k

LEMMA OneAppended ==
    ASSUME NEW t \in Tx, NEW q \in Seq(Events), NEW v \in Seq(Events), NEW k, OnlyTold(v, k, t)
    PROVE  LET p == q \o v
           IN  /\ ~Silent(p, t)
               /\ Adds(p, t) <=> Adds(q, t) \/ v[k].name = "TxAdded"
               /\ Deletes(p, t) <=> Deletes(q, t) \/ v[k].name = "TxDeleted"
               /\ Ends(p, t, v[k].height)
               /\ AddsFirst(q, t) /\ (v[k].name = "TxAdded" => Silent(q, t)) => AddsFirst(p, t)
  <1> DEFINE p == q \o v
             l == Len(q) + k
  <1>1. /\ Len(q) \in Nat /\ Len(v) \in Nat /\ k \in Nat /\ Len(p) = Len(q) + Len(v)
        /\ \A i \in 1 .. Len(q) : p[i] = q[i]
        /\ p[l] = v[k] /\ l \in 1 .. Len(p) /\ l > Len(q)
        /\ \A i \in 1 .. Len(p) : i \in 1 .. Len(q) \/ i = l \/ ~Tells(p, i, t)
    <2>1. k \in 1 .. Len(v)
      BY DEF OnlyTold
    <2>2. ASSUME NEW i \in 1 .. Len(p), i \notin 1 .. Len(q), Tells(p, i, t)
          PROVE  i = l
      <3>1. i - Len(q) \in 1 .. Len(v) /\ p[i] = v[i - Len(q)]
        BY <2>2, Appended
      <3>2. i - Len(q) = k
        BY <2>2, <3>1 DEF OnlyTold, Tells
      <3> QED BY <2>1, <3>1, <3>2, Appended
    <2> QED BY <2>1, <2>2, Appended
  <1> HIDE DEF p, l
  <1>2. Tells(p, l, t) /\ \A i \in 1 .. Len(q) : Tells(p, i, t) <=> Tells(q, i, t)
    BY <1>1 DEF OnlyTold, Tells
  <1>3. \A i \in 1 .. Len(q) : i \in 1 .. Len(p) /\ i < l
    BY <1>1
  <1>4. ~Silent(p, t)
    BY <1>1, <1>2 DEF Silent
  <1>5. Adds(p, t) <=> Adds(q, t) \/ v[k].name = "TxAdded"
    BY <1>1, <1>2, <1>3 DEF Adds
  <1>6. Deletes(p, t) <=> Deletes(q, t) \/ v[k].name = "TxDeleted"
    BY <1>1, <1>2, <1>3 DEF Deletes
  <1>7. Ends(p, t, v[k].height)
    BY <1>1, <1>2, <1>3 DEF Ends
  <1>8. ASSUME AddsFirst(q, t), v[k].name = "TxAdded" => Silent(q, t)
        PROVE  AddsFirst(p, t)
    <2> SUFFICES ASSUME NEW i \in 1 .. Len(p), NEW j \in 1 .. Len(p), Tells(p, i, t),
                        p[i].name = "TxAdded", Tells(p, j, t)
                 PROVE  i <= j
      BY DEF AddsFirst
    <2>1. CASE i = l
      BY <1>1, <1>2, <1>8, <2>1 DEF Silent
    <2>2. CASE i # l
      <3>1. i \in 1 .. Len(q) /\ (j \in 1 .. Len(q) \/ j = l)
        BY <1>1, <2>2
      <3> QED BY <1>1, <1>2, <1>3, <1>8, <3>1 DEF AddsFirst
    <2> QED BY <2>1, <2>2
  <1> QED BY <1>4, <1>5, <1>6, <1>7, <1>8 DEF p

\* The three events of the wallet.
LEMMA AdditionTold ==
    ASSUME NEW t \in Tx, NEW q \in Seq(Events), NEW v \in Seq(Events), NEW k, OnlyTold(v, k, t),
           NEW w, NEW u, NEW r, Recorded(q, w, r, t),
           v[k].name = "TxAdded", t \notin w.known, t \in u.known, t \in u.listed,
           v[k].height = u.height[t]
    PROVE  Recorded(q \o v, u, r, t)
  <1> DEFINE p == q \o v
  <1>1. /\ ~Silent(p, t) /\ Adds(p, t) /\ (Deletes(p, t) <=> Deletes(q, t))
        /\ Ends(p, t, u.height[t])
        /\ AddsFirst(q, t) /\ Silent(q, t) => AddsFirst(p, t)
    BY OneAppended
  <1> HIDE DEF p
  <1>2. Silent(q, t) /\ ~Deletes(q, t) /\ ~r.refed /\ r.is # "deleted" /\ AddsFirst(q, t)
    BY DEF Recorded, Silent, Deletes
  <1>3. Recorded(p, u, r, t)
    BY <1>1, <1>2 DEF Recorded
  <1> QED BY <1>3 DEF p

LEMMA UpdateTold ==
    ASSUME NEW t \in Tx, NEW q \in Seq(Events), NEW v \in Seq(Events), NEW k, OnlyTold(v, k, t),
           NEW w, NEW u, NEW r, Recorded(q, w, r, t),
           v[k].name = "TxUpdated", t \in w.known, t \in u.known,
           t \in u.listed <=> t \in w.listed, v[k].height = u.height[t]
    PROVE  Recorded(q \o v, u, r, t)
  <1> DEFINE p == q \o v
  <1>1. /\ ~Silent(p, t) /\ (Adds(p, t) <=> Adds(q, t)) /\ (Deletes(p, t) <=> Deletes(q, t))
        /\ Ends(p, t, u.height[t])
        /\ AddsFirst(q, t) => AddsFirst(p, t)
    BY OneAppended
  <1> HIDE DEF p
  <1>2. Recorded(p, u, r, t)
    BY <1>1 DEF Recorded
  <1> QED BY <1>2 DEF p

LEMMA DeletionTold ==
    ASSUME NEW t \in Tx, NEW q \in Seq(Events), NEW v \in Seq(Events), NEW k, OnlyTold(v, k, t),
           NEW w, NEW u, NEW r, Recorded(q, w, r, t),
           v[k].name = "TxDeleted", t \in w.known, t \in u.known, t \notin u.listed
    PROVE  Recorded(q \o v, u, r, t)
  <1> DEFINE p == q \o v
  <1>1. /\ ~Silent(p, t) /\ (Adds(p, t) <=> Adds(q, t)) /\ Deletes(p, t)
        /\ AddsFirst(q, t) => AddsFirst(p, t)
    BY OneAppended
  <1> HIDE DEF p
  <1>2. Recorded(p, u, r, t)
    BY <1>1 DEF Recorded
  <1> QED BY <1>2 DEF p

-----------------------------------------------------------------------------
\* What is left of a queue when its first event is taken.
LEMMA Taken1 ==
    ASSUME NEW q \in Seq(Events), q # <<>>
    PROVE  /\ Tail(q) \in Seq(Events) /\ Head(q) \in Events /\ Head(q) = q[1]
           /\ Len(q) \in Nat /\ 1 \in 1 .. Len(q) /\ Len(Tail(q)) = Len(q) - 1
           /\ \A i \in 1 .. Len(q) - 1 : Tail(q)[i] = q[i + 1] /\ i + 1 \in 1 .. Len(q)
           /\ \A i \in 1 .. Len(q) : i = 1 \/ (i - 1 \in 1 .. Len(q) - 1 /\ Tail(q)[i - 1] = q[i])
  <1> DEFINE p == Tail(q)
  <1>1. /\ p \in Seq(Events) /\ Len(p) = Len(q) - 1 /\ Len(q) \in Nat /\ Len(q) # 0
        /\ \A i \in 1 .. Len(p) : p[i] = q[i + 1]
        /\ Head(q) = q[1]
    BY HeadTailProperties, LenProperties, EmptySeq
  <1>2. 1 \in 1 .. Len(q) /\ q[1] \in Events
    BY <1>1
  <1> HIDE DEF p
  <1>3. /\ \A i \in 1 .. Len(q) - 1 : p[i] = q[i + 1] /\ i + 1 \in 1 .. Len(q)
        /\ \A i \in 1 .. Len(q) : i = 1 \/ (i - 1 \in 1 .. Len(q) - 1 /\ p[i - 1] = q[i])
    BY <1>1
  <1> QED BY <1>1, <1>2, <1>3 DEF p

\* What is said of the rest of the queue.
LEMMA TailTells ==
    ASSUME NEW t \in Tx, NEW q \in Seq(Events), q # <<>>, AddsFirst(q, t), NEW p, p = Tail(q)
    PROVE  /\ AddsFirst(p, t)
           /\ Tells(q, 1, t) => ~Silent(q, t) /\ ~Adds(p, t)
           /\ Tells(q, 1, t) /\ q[1].name = "TxAdded" => Adds(q, t)
           /\ Tells(q, 1, t) /\ q[1].name # "TxAdded" => ~Adds(q, t)
           /\ Tells(q, 1, t) /\ q[1].name = "TxDeleted" => Deletes(q, t)
           /\ Tells(q, 1, t) /\ q[1].name # "TxDeleted" => (Deletes(p, t) <=> Deletes(q, t))
           /\ Deletes(p, t) => Deletes(q, t)
           /\ Tells(q, 1, t) /\ Silent(p, t) => \A h : Ends(q, t, h) => q[1].height = h
           /\ \A h : Ends(q, t, h) => Ends(p, t, h)
           /\ ~Tells(q, 1, t) => /\ Silent(p, t) <=> Silent(q, t)
                                 /\ Adds(p, t) <=> Adds(q, t)
                                 /\ Deletes(p, t) <=> Deletes(q, t)
  <1>1. /\ Len(q) \in Nat /\ 1 \in 1 .. Len(q) /\ Len(p) = Len(q) - 1
        /\ \A i \in 1 .. Len(p) : p[i] = q[i + 1] /\ i + 1 \in 1 .. Len(q)
        /\ \A i \in 1 .. Len(q) : i = 1 \/ (i - 1 \in 1 .. Len(p) /\ p[i - 1] = q[i])
    BY Taken1
  <1>2. /\ \A i \in 1 .. Len(p) : Tells(p, i, t) <=> Tells(q, i + 1, t)
        /\ \A i \in 1 .. Len(q) : i # 1 => (Tells(q, i, t) <=> Tells(p, i - 1, t))
    BY <1>1 DEF Tells
  <1>3. AddsFirst(p, t)
    <2> SUFFICES ASSUME NEW i \in 1 .. Len(p), NEW j \in 1 .. Len(p), Tells(p, i, t),
                        p[i].name = "TxAdded", Tells(p, j, t)
                 PROVE  i <= j
      BY DEF AddsFirst
    <2>1. i + 1 <= j + 1
      BY <1>1, <1>2 DEF AddsFirst
    <2> QED BY <2>1
  <1>4. ASSUME Tells(q, 1, t)
        PROVE  ~Adds(p, t)
    <2> SUFFICES ASSUME NEW i \in 1 .. Len(p), Tells(p, i, t), p[i].name = "TxAdded"
                 PROVE  FALSE
      BY DEF Adds
    <2>1. i + 1 <= 1
      BY <1>1, <1>2, <1>4 DEF AddsFirst
    <2> QED BY <2>1
  <1>5. ASSUME Tells(q, 1, t), q[1].name # "TxAdded"
        PROVE  ~Adds(q, t)
    <2> SUFFICES ASSUME NEW i \in 1 .. Len(q), Tells(q, i, t), q[i].name = "TxAdded"
                 PROVE  FALSE
      BY DEF Adds
    <2>1. i <= 1
      BY <1>1, <1>5 DEF AddsFirst
    <2> QED BY <1>5, <2>1
  <1>6. /\ Tells(q, 1, t) => ~Silent(q, t)
        /\ Tells(q, 1, t) /\ q[1].name = "TxAdded" => Adds(q, t)
        /\ Tells(q, 1, t) /\ q[1].name = "TxDeleted" => Deletes(q, t)
    BY <1>1 DEF Silent, Adds, Deletes
  <1>7. /\ Deletes(p, t) => Deletes(q, t)
        /\ ~(Tells(q, 1, t) /\ q[1].name = "TxDeleted") => (Deletes(q, t) => Deletes(p, t))
    BY <1>1, <1>2 DEF Deletes
  <1>8. Adds(p, t) => Adds(q, t)
    BY <1>1, <1>2 DEF Adds
  <1>9. ~Tells(q, 1, t) => /\ Silent(p, t) <=> Silent(q, t)
                           /\ Adds(q, t) => Adds(p, t)
    BY <1>1, <1>2 DEF Silent, Adds
  <1>10. ASSUME NEW h, Ends(q, t, h)
         PROVE  Ends(p, t, h) /\ (Tells(q, 1, t) /\ Silent(p, t) => q[1].height = h)
    <2>1. ASSUME NEW i \in 1 .. Len(p), Tells(p, i, t),
                 \A j \in 1 .. Len(p) : Tells(p, j, t) => j <= i
          PROVE  p[i].height = h
      <3>1. i + 1 \in 1 .. Len(q) /\ Tells(q, i + 1, t) /\ p[i] = q[i + 1]
        BY <1>1, <1>2, <2>1
      <3>2. ASSUME NEW j \in 1 .. Len(q), Tells(q, j, t)
            PROVE  j <= i + 1
        <4>1. j = 1 \/ (j - 1 \in 1 .. Len(p) /\ Tells(p, j - 1, t))
          BY <1>1, <1>2, <3>2
        <4>2. j = 1 \/ j - 1 <= i
          BY <2>1, <4>1
        <4> QED BY <1>1, <4>2
      <3> QED BY <1>10, <3>1, <3>2 DEF Ends
    <2>2. ASSUME Tells(q, 1, t), Silent(p, t)
          PROVE  q[1].height = h
      <3>1. \A j \in 1 .. Len(q) : Tells(q, j, t) => j <= 1
        BY <1>1, <1>2, <2>2 DEF Silent
      <3> QED BY <1>1, <1>10, <2>2, <3>1 DEF Ends
    <2> QED BY <2>1, <2>2 DEF Ends
  <1> QED BY <1>3, <1>4, <1>5, <1>6, <1>7, <1>8, <1>9, <1>10

\* An event that is not about the record of t is taken.
LEMMA OtherHandled ==
    ASSUME NEW t \in Tx, NEW q \in Seq(Events), q # <<>>, ~Tells(q, 1, t),
           NEW w, NEW r, Recorded(q, w, r, t)
    PROVE  Recorded(Tail(q), w, r, t)
  <1> DEFINE p == Tail(q)
  <1>1. AddsFirst(q, t)
    BY DEF Recorded
  <1>2. /\ AddsFirst(p, t) /\ (Silent(p, t) <=> Silent(q, t)) /\ (Adds(p, t) <=> Adds(q, t))
        /\ Deletes(p, t) <=> Deletes(q, t)
        /\ \A h : Ends(q, t, h) => Ends(p, t, h)
    BY <1>1, TailTells
  <1> HIDE DEF p
  <1>3. Recorded(p, w, r, t)
    BY <1>2 DEF Recorded
  <1> QED BY <1>3 DEF p

\* The record is changed by what was about it, as its assertion demands.
Changes(x, r, s) ==
    \/ x.name = "TxAdded" /\ s = [is |-> "signed", refed |-> TRUE, height |-> x.height]
    \/ x.name = "TxUpdated" /\ r.is = "signed" /\ s = [r EXCEPT !.height = x.height]
    \/ x.name = "TxDeleted" /\ r.is = "signed" /\ s = [r EXCEPT !.is = "deleted"]

LEMMA OwnHandled ==
    ASSUME NEW t \in Tx, NEW q \in Seq(Events), q # <<>>, Tells(q, 1, t),
           NEW w, NEW r \in Records, NEW s, Recorded(q, w, r, t), Changes(q[1], r, s)
    PROVE  Recorded(Tail(q), w, s, t)
  <1> DEFINE p == Tail(q)
             x == q[1]
  <1>1. AddsFirst(q, t)
    BY DEF Recorded
  <1>2. /\ AddsFirst(p, t) /\ ~Silent(q, t) /\ ~Adds(p, t)
        /\ x.name = "TxAdded" => Adds(q, t)
        /\ x.name # "TxAdded" => ~Adds(q, t)
        /\ x.name = "TxDeleted" => Deletes(q, t)
        /\ x.name # "TxDeleted" => (Deletes(p, t) <=> Deletes(q, t))
        /\ Deletes(p, t) => Deletes(q, t)
        /\ \A h : Ends(q, t, h) => Ends(p, t, h) /\ (Silent(p, t) => x.height = h)
    BY <1>1, TailTells
  <1> HIDE DEF p, x
  <1>3. t \in w.known
    BY <1>2 DEF Recorded
  <1>4. CASE x.name = "TxAdded"
    <2>1. s.is = "signed" /\ s.refed /\ s.height = x.height
      BY <1>4 DEF Changes, x
    <2> QED BY <1>2, <1>3, <1>4, <2>1 DEF Recorded, p
  <1>5. CASE x.name = "TxUpdated"
    <2>1. s.is = "signed" /\ s.refed = r.refed /\ s.height = x.height /\ r.is = "signed"
      BY <1>5 DEF Changes, x, Records
    <2> QED BY <1>2, <1>3, <1>5, <2>1 DEF Recorded, p
  <1>6. CASE x.name = "TxDeleted"
    <2>1. s.is = "deleted" /\ s.refed = r.refed
      BY <1>6 DEF Changes, x, Records
    <2> QED BY <1>2, <1>3, <1>6, <2>1 DEF Recorded, p
  <1> QED BY <1>4, <1>5, <1>6 DEF Changes, x

-----------------------------------------------------------------------------
\* Each element of a finite set is in its sequence once.
LEMMA SetToSeqIs ==
    ASSUME NEW S, IsFiniteSet(S), NEW v, v = SetToSeq(S)
    PROVE  /\ v \in Seq(S) /\ Len(v) = Cardinality(S)
           /\ \A i, j \in 1 .. Len(v) : v[i] = v[j] => i = j
           /\ \A x \in S : \E i \in 1 .. Len(v) : v[i] = x
  <1> DEFINE n == Cardinality(S)
  <1>1. n \in Nat /\ ExistsBijection(1 .. n, S)
    BY FS_CardinalityType
  <1> HIDE DEF n
  <1>2. \E f \in [1 .. n -> S] : IsInjective(f)
    BY <1>1 DEF ExistsBijection, Bijection, Injection
  <1>3. v \in [1 .. n -> S] /\ IsInjective(v)
    BY <1>2 DEF SetToSeq, n
  <1>4. IsFiniteSet(1 .. n) /\ Cardinality(1 .. n) = n
    BY <1>1, FS_Interval
  <1>5. v \in Surjection(1 .. n, S)
    BY <1>3, <1>4, FS_Injection DEF Injection, n
  <1>6. v \in Seq(S) /\ Len(v) = n
    BY <1>1, <1>3
  <1> QED BY <1>3, <1>5, <1>6 DEF IsInjective, Surjection, n

\* What the callback of an update signals.
LEMMA UpdatesTold ==
    ASSUME NEW txs \in SUBSET Tx, NEW h \in Nat
    PROVE  /\ UpdatedEvents(txs, h) \in Seq(Events)
           /\ \A t \in Tx \ txs : Silent(UpdatedEvents(txs, h), t)
           /\ \A t \in txs : \E k : /\ OnlyTold(UpdatedEvents(txs, h), k, t)
                                  /\ UpdatedEvents(txs, h)[k] = Event("TxUpdated", t, h)
           /\ \A i \in 1 .. Len(UpdatedEvents(txs, h)) : UpdatedEvents(txs, h)[i].name = "TxUpdated"
  <1> DEFINE v == UpdatedEvents(txs, h)
             S == {Event("TxUpdated", t, h) : t \in txs}
             f == [t \in txs |-> Event("TxUpdated", t, h)]
  <1>1. IsFiniteSet(txs)
    BY ConstantsAssumption, FS_Subset
  <1>2. f \in Surjection(txs, S)
    BY DEF Surjection
  <1>3. IsFiniteSet(S)
    BY <1>1, <1>2, FS_Surjection
  <1>4. S \subseteq Events
    BY DEF Event, Events, Names, WalletEvents
  <1>5. \A x \in S : x.tx \in txs /\ x = Event("TxUpdated", x.tx, h) /\ x.name = "TxUpdated"
    BY DEF Event
  <1>6. v = SetToSeq(S)
    BY DEF UpdatedEvents
  <1>7. \A t \in txs : Event("TxUpdated", t, h) \in S /\ Event("TxUpdated", t, h).tx = t
    BY DEF Event
  <1> HIDE DEF S, f, v
  <1>8. /\ v \in Seq(S)
        /\ \A i, j \in 1 .. Len(v) : v[i] = v[j] => i = j
        /\ \A x \in S : \E i \in 1 .. Len(v) : v[i] = x
    BY <1>3, <1>6, SetToSeqIs
  <1>9. v \in Seq(Events) /\ \A i \in 1 .. Len(v) : v[i] \in S
    BY <1>4, <1>8, SeqMonotonic
  <1>10. \A t \in Tx \ txs : Silent(v, t)
    BY <1>5, <1>9 DEF Silent, Tells
  <1>11. ASSUME NEW t \in txs
         PROVE  \E k : OnlyTold(v, k, t) /\ v[k] = Event("TxUpdated", t, h)
    <2>1. PICK k \in 1 .. Len(v) : v[k] = Event("TxUpdated", t, h)
      BY <1>7, <1>8
    <2>2. ASSUME NEW i \in 1 .. Len(v), Tells(v, i, t)
          PROVE  i = k
      <3>1. v[i] = Event("TxUpdated", t, h)
        BY <1>5, <1>9, <2>2 DEF Tells
      <3> QED BY <1>8, <2>1, <3>1
    <2>3. Tells(v, k, t)
      BY <1>5, <1>7, <1>9, <2>1 DEF Tells, WalletEvents
    <2> QED BY <2>1, <2>2, <2>3 DEF OnlyTold
  <1>12. \A i \in 1 .. Len(v) : v[i].name = "TxUpdated"
    BY <1>5, <1>9
  <1> QED BY <1>9, <1>10, <1>11, <1>12 DEF v

\* One event.
LEMMA OneTold ==
    ASSUME NEW n \in Names, NEW t \in Tx, NEW h \in Nat
    PROVE  /\ <<Event(n, t, h)>> \in Seq(Events)
           /\ \A s : s # t \/ n \notin WalletEvents => Silent(<<Event(n, t, h)>>, s)
           /\ n \in WalletEvents => OnlyTold(<<Event(n, t, h)>>, 1, t)
           /\ <<Event(n, t, h)>>[1].name = n /\ <<Event(n, t, h)>>[1].height = h
  <1>1. Event(n, t, h) \in Events
    BY DEF Event, Events
  <1> QED BY <1>1 DEF Event, Silent, Tells, OnlyTold

\* Nothing for the record.
Quiet(v) == v \in Seq(Events) /\ \A t \in Tx : Silent(v, t)

LEMMA QuietAppended ==
    ASSUME NEW v, NEW u, Quiet(v), Quiet(u)
    PROVE  Quiet(v \o u)
  <1>1. v \in Seq(Events) /\ u \in Seq(Events)
    BY DEF Quiet
  <1> QED BY <1>1, Appended DEF Quiet, Silent, Tells

LEMMA OneQuiet ==
    ASSUME NEW n \in Names \ WalletEvents, NEW t \in Tx, NEW h \in Nat
    PROVE  Quiet(<<Event(n, t, h)>>)
  BY OneTold DEF Quiet

LEMMA NoneQuiet == Quiet(<<>>)
  BY DEF Quiet, Silent

-----------------------------------------------------------------------------
\* The wallet's calls keep the wallet, and what they signal fits the records.
LEMMA RegisteredFits ==
    ASSUME NEW q \in Seq(Events), NEW w, WalletTyped(w), NEW rs, Fits(q, w, rs), NEW t \in Tx,
           NEW u, u = Registered(w, t), NEW v, v = Added(w, t)
    PROVE  WalletTyped(u) /\ v \in Seq(Events) /\ Fits(q \o v, u, rs)
  <1>1. CASE t \in w.known
    <2>1. u = w /\ v = <<>> /\ q \o v = q
      BY <1>1, ConcatEmptySeq DEF Registered, Added
    <2> QED BY <2>1
  <1>2. CASE t \notin w.known
    <2>1. /\ u = [w EXCEPT !.known = @ \cup {t}, !.listed = @ \cup {t}, !.saved = @ \cup {t}]
          /\ v = <<Event("TxAdded", t, w.height[t])>>
      BY <1>2 DEF Registered, Added
    <2>2. w.height[t] \in Nat
      BY DEF WalletTyped, Wallets
    <2>6. /\ u \in Wallets /\ u.known = w.known \cup {t} /\ u.listed = w.listed \cup {t}
          /\ u.saved = w.saved \cup {t} /\ u.height = w.height
      <3>1. u = [w EXCEPT !.known = @ \cup {t}, !.listed = @ \cup {t}, !.saved = @ \cup {t}]
        BY <2>1
      <3>2. u = [known |-> w.known \cup {t}, listed |-> w.listed \cup {t},
                 saved |-> w.saved \cup {t}, height |-> w.height]
        BY <3>1 DEF WalletTyped, Wallets
      <3> QED BY <3>2 DEF WalletTyped, Wallets
    <2>3. WalletTyped(u)
      BY <2>6 DEF WalletTyped
    <2>4. /\ v \in Seq(Events) /\ \A s \in Tx : s # t => Silent(v, s)
          /\ OnlyTold(v, 1, t) /\ v[1].name = "TxAdded" /\ v[1].height = u.height[t]
      <3>1. "TxAdded" \in Names /\ "TxAdded" \in WalletEvents
        BY DEF Names, WalletEvents
      <3> QED BY <2>1, <2>2, <2>6, <3>1, OneTold
    <2>5. ASSUME NEW s \in Tx
          PROVE  Recorded(q \o v, u, rs[s], s)
      <3>1. Recorded(q, w, rs[s], s)
        BY DEF Fits
      <3>2. CASE s = t
        BY <1>2, <2>6, <2>4, <3>1, <3>2, AdditionTold
      <3>3. CASE s # t
        BY <2>6, <2>4, <3>1, <3>3, SilentAppended
      <3> QED BY <3>2, <3>3
    <2> QED BY <2>3, <2>4, <2>5 DEF Fits
  <1> QED BY <1>1, <1>2

LEMMA UpdatedFits ==
    ASSUME NEW q \in Seq(Events), NEW w, WalletTyped(w), NEW rs, Fits(q, w, rs),
           NEW txs \in SUBSET w.known, NEW h \in Nat,
           NEW u, u = Updated(w, txs, h), NEW v, v = UpdatedEvents(txs, h)
    PROVE  WalletTyped(u) /\ v \in Seq(Events) /\ Fits(q \o v, u, rs)
  <1>1. /\ u \in Wallets /\ u.known = w.known /\ u.listed = w.listed
        /\ u.saved = w.saved \cup txs
        /\ \A t \in Tx : u.height[t] = IF t \in txs THEN h ELSE w.height[t]
    BY DEF WalletTyped, Wallets, Updated
  <1>2. WalletTyped(u) /\ txs \in SUBSET Tx
    BY <1>1 DEF WalletTyped, Wallets
  <1>3. /\ v \in Seq(Events)
        /\ \A t \in Tx \ txs : Silent(v, t)
        /\ \A t \in txs : \E k : OnlyTold(v, k, t) /\ v[k] = Event("TxUpdated", t, h)
    BY <1>2, UpdatesTold
  <1>4. ASSUME NEW t \in Tx
        PROVE  Recorded(q \o v, u, rs[t], t)
    <2>1. Recorded(q, w, rs[t], t)
      BY DEF Fits
    <2>2. CASE t \in txs
      <3>1. PICK k : OnlyTold(v, k, t) /\ v[k] = Event("TxUpdated", t, h)
        BY <1>3, <2>2
      <3>2. v[k].name = "TxUpdated" /\ v[k].height = u.height[t]
        BY <1>1, <2>2, <3>1 DEF Event
      <3> QED BY <1>1, <1>3, <2>1, <2>2, <3>1, <3>2, UpdateTold
    <2>3. CASE t \notin txs
      BY <1>1, <1>3, <2>1, <2>3, SilentAppended
    <2> QED BY <2>2, <2>3
  <1> QED BY <1>2, <1>3, <1>4 DEF Fits

Removed(w, t) == [w EXCEPT !.listed = @ \ {t}, !.saved = @ \ {t}]
Removal(t) == <<Event("TxDeleted", t, 0)>>

LEMMA RemovalTold ==
    ASSUME NEW t \in Tx
    PROVE  /\ Removal(t) \in Seq(Events) /\ \A s \in Tx : s # t => Silent(Removal(t), s)
           /\ OnlyTold(Removal(t), 1, t) /\ Removal(t)[1].name = "TxDeleted"
  <1>1. "TxDeleted" \in Names /\ "TxDeleted" \in WalletEvents
    BY DEF Names, WalletEvents
  <1>2. Removal(t) = <<Event("TxDeleted", t, 0)>>
    BY DEF Removal
  <1>3. 0 \in Nat
    OBVIOUS
  <1> QED BY <1>1, <1>2, <1>3, OneTold

LEMMA RemovedFits ==
    ASSUME NEW q \in Seq(Events), NEW w, WalletTyped(w), NEW rs, Fits(q, w, rs), NEW t \in w.listed
    PROVE  /\ WalletTyped(Removed(w, t)) /\ Removal(t) \in Seq(Events)
           /\ Fits(q \o Removal(t), Removed(w, t), rs)
  <1> DEFINE u == Removed(w, t)
             v == Removal(t)
  <1>1. /\ u \in Wallets /\ u.known = w.known /\ u.listed = w.listed \ {t}
        /\ u.saved = w.saved \ {t} /\ u.height = w.height /\ t \in Tx /\ t \in w.known
    BY DEF WalletTyped, Wallets, Removed
  <1>2. /\ v \in Seq(Events) /\ \A s \in Tx : s # t => Silent(v, s)
        /\ OnlyTold(v, 1, t) /\ v[1].name = "TxDeleted"
    BY <1>1, RemovalTold
  <1> HIDE DEF u, v
  <1>4. WalletTyped(u)
    BY <1>1 DEF WalletTyped
  <1>3. ASSUME NEW s \in Tx
        PROVE  Recorded(q \o v, u, rs[s], s)
    <2>1. Recorded(q, w, rs[s], s)
      BY DEF Fits
    <2>2. CASE s = t
      BY <1>1, <1>2, <2>1, <2>2, DeletionTold
    <2>3. CASE s # t
      BY <1>1, <1>2, <2>1, <2>3, SilentAppended
    <2> QED BY <2>2, <2>3
  <1> QED BY <1>2, <1>3, <1>4 DEF Fits, u, v

\* Other events.
LEMMA QuietFits ==
    ASSUME NEW q \in Seq(Events), NEW w, NEW rs, Fits(q, w, rs), NEW v, Quiet(v)
    PROVE  q \o v \in Seq(Events) /\ Fits(q \o v, w, rs)
  BY SilentAppended, ConcatProperties DEF Fits, Quiet

\* An event that is not about a record is taken.
LEMMA OtherFits ==
    ASSUME NEW q \in Seq(Events), q # <<>>, Head(q).name \notin WalletEvents,
           NEW w, NEW rs, Fits(q, w, rs)
    PROVE  Tail(q) \in Seq(Events) /\ Fits(Tail(q), w, rs)
  <1>1. \A t \in Tx : ~Tells(q, 1, t)
    BY Taken1 DEF Tells
  <1> QED BY <1>1, OtherHandled, Taken1 DEF Fits

\* An event that is about a record is taken, and the record changed.
LEMMA OwnFits ==
    ASSUME NEW q \in Seq(Events), q # <<>>, NEW x, x = Head(q), x.name \in WalletEvents,
           NEW w, NEW rs \in [Tx -> Records], Fits(q, w, rs),
           NEW r, Changes(x, rs[x.tx], r), NEW ss, ss = [rs EXCEPT ![x.tx] = r]
    PROVE  Tail(q) \in Seq(Events) /\ Fits(Tail(q), w, ss)
  <1>1. x = q[1] /\ x.tx \in Tx /\ Tail(q) \in Seq(Events)
    BY Taken1 DEF Events
  <1>2. ASSUME NEW t \in Tx
        PROVE  Recorded(Tail(q), w, ss[t], t)
    <2>1. Recorded(q, w, rs[t], t) /\ rs[t] \in Records
      BY DEF Fits
    <2>2. CASE t = x.tx
      <3>1. Tells(q, 1, t) /\ Changes(q[1], rs[t], ss[t])
        BY <1>1, <2>2 DEF Tells
      <3> QED BY <2>1, <3>1, OwnHandled
    <2>3. CASE t # x.tx
      <3>1. ~Tells(q, 1, t) /\ ss[t] = rs[t]
        BY <1>1, <2>3 DEF Tells
      <3> QED BY <2>1, <3>1, OtherHandled
    <2> QED BY <2>2, <2>3
  <1> QED BY <1>1, <1>2 DEF Fits

-----------------------------------------------------------------------------
\* The steps of peers, client and user.
Submitting ==
    /\ answers' \subseteq [tx : Tx, outcome : {"relayed", "conflict", "given up"}]
    /\ requests' \subseteq Tx

LEMMA CallKeeps ==
    ASSUME IInv, Submitting, record' = record, NEW v, v \in Seq(Events), queue' = queue \o v,
           WalletTyped(wallet'), Fits(queue \o v, wallet', record)
    PROVE  IInv'
  <1>1. queue' \in Seq(Events)
    BY ConcatProperties DEF IInv, Typed
  <1> QED BY <1>1 DEF IInv, Typed, Submitting, Fits

LEMMA QuietKeeps ==
    ASSUME IInv, Running, Submitting, UNCHANGED <<wallet, record>>,
           NEW v, Quiet(v), queue' = queue \o v
    PROVE  IInv'
  <1>1. v \in Seq(Events) /\ Fits(queue \o v, wallet', record)
    BY QuietFits DEF IInv, Typed, Quiet
  <1> QED BY <1>1, CallKeeps DEF IInv, Typed

\* SubmitEvent
LEMMA SubmitIsQuiet ==
    ASSUME NEW t \in Tx, NEW error
    PROVE  Quiet(SubmitEvent(t, error))
  <1>1. "SUBMIT_FAILED" \in Names \ WalletEvents /\ "SUBMIT_SUCCEEDED" \in Names \ WalletEvents
    BY DEF Names, WalletEvents
  <1> QED BY <1>1, OneQuiet DEF SubmitEvent

LEMMA TakenKeeps ==
    ASSUME IInv, NEW t \in Tx, RequestedTx(t) \/ RelayedTx(t)
    PROVE  IInv'
  <1>1. PICK outcome \in {"relayed", "conflict"} : Running /\ Taken(t, outcome)
    BY DEF RequestedTx, RelayedTx, Peers
  <1>2. /\ wallet' = Registered(wallet, t) /\ queue' = queue \o Added(wallet, t)
        /\ record' = record /\ requests' = requests
    BY <1>1 DEF Taken, Signal, book
  <1>4. Submitting
    <2>1. answers' = answers \cup
              {[tx |-> x, outcome |-> outcome] : x \in {y \in {t} : published[y] = "pending"}}
      BY <1>1 DEF Taken
    <2>2. \A x \in {t} : [tx |-> x, outcome |-> outcome]
                            \in [tx : Tx, outcome : {"relayed", "conflict", "given up"}]
      OBVIOUS
    <2> QED BY <1>2, <2>1, <2>2 DEF Submitting, IInv, Typed
  <1>3. /\ WalletTyped(wallet') /\ Added(wallet, t) \in Seq(Events)
        /\ Fits(queue \o Added(wallet, t), wallet', record)
    BY <1>1, <1>2, RegisteredFits DEF IInv, Typed
  <1> QED BY <1>2, <1>3, <1>4, CallKeeps

LEMMA UpdatesKeep ==
    ASSUME IInv, Running, Submitting, record' = record,
           NEW txs \in SUBSET wallet.known, NEW h \in Nat,
           wallet' = Updated(wallet, txs, h), queue' = queue \o UpdatedEvents(txs, h)
    PROVE  IInv'
  <1>1. /\ WalletTyped(wallet') /\ UpdatedEvents(txs, h) \in Seq(Events)
        /\ Fits(queue \o UpdatedEvents(txs, h), wallet', record)
    BY UpdatedFits DEF IInv, Typed
  <1> QED BY <1>1, CallKeeps

LEMMA HeightsAreNat == MaxHeight \in Nat /\ Unconfirmed \in Nat /\ Blocks \subseteq Nat
  BY ConstantsAssumption DEF Unconfirmed, Blocks

LEMMA BlocksKeep ==
    ASSUME IInv,
           \/ \E txs \in SUBSET Tx, h \in Blocks : RelayedBlock(txs, h)
           \/ \E t \in Tx : RelayCounted(t)
           \/ \E h \in 0 .. MaxHeight : Reorganisation(h)
    PROVE  IInv'
  <1>1. ASSUME NEW txs \in SUBSET Tx, NEW h \in Blocks, RelayedBlock(txs, h)
        PROVE  IInv'
    <2>1. txs \in SUBSET wallet.known /\ h \in Nat
      BY <1>1, HeightsAreNat DEF RelayedBlock, Changed
    <2>2. Running /\ Submitting /\ record' = record
      BY <1>1 DEF RelayedBlock, Peers, book, submission, Submitting, IInv, Typed
    <2>3. wallet' = Updated(wallet, txs, h) /\ queue' = queue \o UpdatedEvents(txs, h)
      BY <1>1 DEF RelayedBlock, Signal
    <2> QED BY <2>1, <2>2, <2>3, UpdatesKeep
  <1>2. ASSUME NEW t \in Tx, RelayCounted(t)
        PROVE  IInv'
    <2>1. {t} \in SUBSET wallet.known
      BY <1>2 DEF RelayCounted
    <2>2. Running /\ Submitting /\ record' = record
      BY <1>2 DEF RelayCounted, Peers, book, submission, Submitting, IInv, Typed
    <2>3. /\ wallet' = Updated(wallet, {t}, Unconfirmed)
          /\ queue' = queue \o UpdatedEvents({t}, Unconfirmed)
      BY <1>2 DEF RelayCounted, Signal
    <2> QED BY <2>1, <2>2, <2>3, UpdatesKeep, HeightsAreNat
  <1>3. ASSUME NEW h \in 0 .. MaxHeight, Reorganisation(h)
        PROVE  IInv'
    <2> DEFINE txs == {t \in wallet.listed : wallet.height[t] > h}
    <2>1. txs \in SUBSET wallet.known
      BY DEF IInv, Typed, WalletTyped
    <2>2. Running /\ Submitting /\ record' = record
      BY <1>3 DEF Reorganisation, Peers, book, submission, Submitting, IInv, Typed
    <2>3. /\ wallet' = Updated(wallet, txs, Unconfirmed)
          /\ queue' = queue \o UpdatedEvents(txs, Unconfirmed)
      BY <1>3 DEF Reorganisation, Signal, UnconfirmedAfter
    <2> HIDE DEF txs
    <2> QED BY <2>1, <2>2, <2>3, UpdatesKeep, HeightsAreNat
  <1> QED BY <1>1, <1>2, <1>3

LEMMA RemoveTransactionKeeps ==
    ASSUME IInv, NEW t \in Tx, RemoveTransaction(t)
    PROVE  IInv'
  <1>1. Running /\ Submitting /\ record' = record /\ t \in wallet.listed
    BY DEF RemoveTransaction, Peers, book, submission, Submitting, IInv, Typed
  <1>2. wallet' = Removed(wallet, t) /\ queue' = queue \o Removal(t)
    BY DEF RemoveTransaction, Signal, Removed, Removal
  <1>3. /\ WalletTyped(wallet') /\ Removal(t) \in Seq(Events)
        /\ Fits(queue \o Removal(t), wallet', record)
    BY <1>1, <1>2, RemovedFits DEF IInv, Typed
  <1> QED BY <1>1, <1>2, <1>3, CallKeeps

\* Answers and submissions are only queued.
LEMMA AnswersKeep ==
    ASSUME IInv,
           \/ \E a \in answers : TxPublished(a)
           \/ \E t \in Tx : SubmitOffline(t)
           \/ \E t \in Tx, error \in BOOLEAN : AnnounceSubmit(t, error)
           \/ \E t \in Tx, h \in 0 .. MaxHeight, current \in BOOLEAN :
                  AnnounceTransaction(t, h, current)
    PROVE  IInv'
  <1>1. Running /\ Submitting /\ UNCHANGED <<wallet, record>>
    BY DEF TxPublished, SubmitOffline, Submits, AnnounceSubmit, AnnounceTransaction, Peers, Room,
           book, submission, Submitting, IInv, Typed
  <1>2. \E v : Quiet(v) /\ queue' = queue \o v
    <2>1. ASSUME NEW a \in answers, TxPublished(a)
          PROVE  \E v : Quiet(v) /\ queue' = queue \o v
      <3>1. a.tx \in Tx
        BY DEF IInv, Typed
      <3> QED BY <2>1, <3>1, SubmitIsQuiet DEF TxPublished, Signal
    <2>2. ASSUME NEW t \in Tx, SubmitOffline(t)
          PROVE  \E v : Quiet(v) /\ queue' = queue \o v
      BY <2>2, SubmitIsQuiet DEF SubmitOffline, Signal
    <2>3. ASSUME NEW t \in Tx, NEW error \in BOOLEAN, AnnounceSubmit(t, error)
          PROVE  \E v : Quiet(v) /\ queue' = queue \o v
      <3>1. "Rejected" \in Names \ WalletEvents /\ "Submitted" \in Names \ WalletEvents
        BY DEF Names, WalletEvents
      <3>2. PICK n \in {"Rejected", "Submitted"} : queue' = queue \o <<Event(n, t, 0)>>
        BY <2>3 DEF AnnounceSubmit, Signal
      <3> QED BY <3>1, <3>2, OneQuiet
    <2>4. ASSUME NEW t \in Tx, NEW h \in 0 .. MaxHeight, NEW current \in BOOLEAN,
                 AnnounceTransaction(t, h, current)
          PROVE  \E v : Quiet(v) /\ queue' = queue \o v
      <3>1. /\ "Transaction" \in Names \ WalletEvents
            /\ "LateTransaction" \in Names \ WalletEvents
        BY DEF Names, WalletEvents
      <3>2. PICK n \in {"Transaction", "LateTransaction"} : queue' = queue \o <<Event(n, t, h)>>
        BY <2>4 DEF AnnounceTransaction, Signal
      <3>3. h \in Nat
        BY HeightsAreNat
      <3> QED BY <3>1, <3>2, <3>3, OneQuiet
    <2> QED BY <2>1, <2>2, <2>3, <2>4
  <1> QED BY <1>1, <1>2, QuietKeeps

\* Steps that neither the wallet nor the queue notices.
LEMMA AsidesKeep ==
    ASSUME IInv,
           \/ \E t \in Tx : PublishFails(t) \/ Accepted(t) \/ SubmitToClient(t) \/ PublishTx(t)
           \/ SetMode \/ UNCHANGED vars
    PROVE  IInv'
  <1>1. UNCHANGED <<wallet, record, queue, failed>>
    BY DEF PublishFails, Accepted, SubmitToClient, PublishTx, Submits, SetMode, vars, book, process
  <1>2. Submitting
    <2>1. ASSUME NEW t \in Tx, PublishFails(t)
          PROVE  Submitting
      <3>1. /\ requests' = requests
            /\ answers' = answers \cup {[tx |-> t, outcome |-> "given up"]}
        BY <2>1 DEF PublishFails
      <3>2. [tx |-> t, outcome |-> "given up"]
                \in [tx : Tx, outcome : {"relayed", "conflict", "given up"}]
        OBVIOUS
      <3> QED BY <3>1, <3>2 DEF Submitting, IInv, Typed
    <2>2. ASSUME NEW t \in Tx, Accepted(t) \/ SubmitToClient(t) \/ PublishTx(t)
          PROVE  Submitting
      BY <2>2 DEF Accepted, SubmitToClient, PublishTx, Submits, submission, Submitting, IInv, Typed
    <2>3. CASE SetMode \/ UNCHANGED vars
      BY <2>3 DEF SetMode, vars, submission, Submitting, IInv, Typed
    <2> QED BY <2>1, <2>2, <2>3
  <1> QED BY <1>1, <1>2 DEF IInv, Typed, Submitting, Running, Fits

\* The user makes the record of a transaction that nobody has.
LEMMA MakingKeeps ==
    ASSUME IInv, NEW t \in Tx, Create(t) \/ Sign(t)
    PROVE  IInv'
  <1>1. Running /\ Submitting /\ wallet' = wallet
    BY DEF Create, Sign, Room, submission, Submitting, IInv, Typed
  <1>2. PICK n \in {"unsigned", "signed"} :
            record' = [record EXCEPT ![t].is = n] /\ record[t].is \in {"none", "unsigned"}
    BY DEF Create, Sign
  <1>3. \E v : Quiet(v) /\ queue' = queue \o v
    <2>1. "CREATED" \in Names \ WalletEvents /\ "SIGNED" \in Names \ WalletEvents
      BY DEF Names, WalletEvents, TransferEvents
    <2> QED BY <2>1, OneQuiet DEF Create, Sign, Signal
  <1>4. record' \in [Tx -> Records]
    BY <1>2 DEF IInv, Typed, Records
  <1>5. ASSUME NEW s \in Tx
        PROVE  Recorded(queue, wallet, record'[s], s)
    <2>1. Recorded(queue, wallet, record[s], s)
      BY <1>1 DEF IInv, Fits
    <2>2. CASE s = t
      <3>1. /\ record'[s].is = n /\ record'[s].refed = record[s].refed
            /\ record'[s].height = record[s].height /\ record[s].is \in {"none", "unsigned"}
        BY <1>2, <2>2 DEF IInv, Typed, Records
      <3>2. t \in wallet.known => Adds(queue, t) /\ ~Silent(queue, t)
        BY <2>1, <2>2, <3>1 DEF Recorded, Adds, Silent
      <3> QED BY <2>1, <2>2, <3>1, <3>2 DEF Recorded, IInv, Typed, WalletTyped
    <2>3. CASE s # t
      BY <1>2, <2>1, <2>3 DEF IInv, Typed
    <2> QED BY <2>2, <2>3
  <1>6. Fits(queue, wallet, record')
    BY <1>5 DEF Fits
  <1>7. queue' \in Seq(Events) /\ Fits(queue', wallet', record')
    BY <1>1, <1>3, <1>6, QuietFits DEF IInv, Typed
  <1> QED BY <1>1, <1>4, <1>7 DEF IInv, Typed, Submitting

-----------------------------------------------------------------------------
\* A restart tells of every transaction that was saved, and its record is made.
LEMMA RestartKeeps ==
    ASSUME IInv, Restart
    PROVE  IInv'
  <1> DEFINE w == wallet.saved
             q == Loaded(w)
  <1>1. /\ w \subseteq Tx /\ wallet.height \in [Tx -> Nat] /\ IsFiniteSet(w)
    BY ConstantsAssumption, FS_Subset DEF IInv, Typed, WalletTyped, Wallets
  <1>2. Quiet(q)
    <2> DEFINE v == SetToSeq(w)
    <2>1. v \in Seq(w) /\ Len(v) = Cardinality(w) /\ Cardinality(w) \in Nat
      BY <1>1, SetToSeqIs, FS_CardinalityType
    <2> HIDE DEF v, w
    <2>2. \A i \in 1 .. 2 * Cardinality(w) : v[(i + 1) \div 2] \in w
      <3>1. \A i \in 1 .. 2 * Cardinality(w) : (i + 1) \div 2 \in 1 .. Len(v)
        BY <2>1
      <3> QED BY <2>1, <3>1
    <2>3. /\ "ADDED" \in Names \ WalletEvents /\ "UPDATED" \in Names \ WalletEvents
      BY DEF Names, WalletEvents, TransferEvents
    <2>4. \A i \in 1 .. 2 * Cardinality(w) : q[i] \in Events /\ q[i].name \notin WalletEvents
      BY <1>1, <2>2, <2>3 DEF Loaded, Event, Events, v
    <2> DEFINE n == 2 * Cardinality(w)
    <2>5. q = [i \in 1 .. n |-> q[i]]
      BY DEF Loaded
    <2>6. n \in Nat
      BY <2>1
    <2>7. q \in Seq(Events) /\ Len(q) = n
      <3> HIDE DEF q, n
      <3> QED BY <2>4, <2>5, <2>6 DEF n
    <2> QED BY <2>4, <2>7 DEF Quiet, Silent, Tells
  <1>3. /\ queue' = q /\ requests' = {} /\ answers' = {}
        /\ wallet'.known = w /\ wallet'.listed = w /\ wallet'.saved = w
        /\ wallet' \in Wallets
        /\ record' \in [Tx -> Records]
    BY <1>1, HeightsAreNat DEF Restart, Wallets, Records, NoRecord
  <1>4. \A t \in Tx : IF t \in w THEN /\ record'[t].is = "signed" /\ record'[t].refed
                                      /\ record'[t].height = wallet'.height[t]
                      ELSE record'[t].is = "none" /\ ~record'[t].refed
    BY <1>1 DEF Restart, NoRecord
  <1> HIDE DEF q, w
  <1>5. Typed'
    BY <1>2, <1>3 DEF Typed, WalletTyped, Quiet
  <1>6. ASSUME NEW t \in Tx
        PROVE  Recorded(q, wallet', record'[t], t)
    <2>1. Silent(q, t) /\ ~Adds(q, t) /\ ~Deletes(q, t) /\ AddsFirst(q, t)
          /\ Ends(q, t, wallet'.height[t])
      BY <1>2 DEF Quiet, Silent, Adds, Deletes, AddsFirst, Ends
    <2> QED BY <1>3, <1>4, <2>1 DEF Recorded
  <1> QED BY <1>3, <1>5, <1>6 DEF IInv, Fits

-----------------------------------------------------------------------------
\* The handlers.  What is left of the queue when the event is taken.
LEMMA Handling ==
    ASSUME IInv, NEW name, Handles(name)
    PROVE  /\ queue \in Seq(Events) /\ queue # <<>> /\ e = Head(queue) /\ e \in Events
           /\ e.name = name /\ e.tx \in Tx /\ e.height \in Nat
           /\ Running /\ Fits(queue, wallet, record) /\ Tail(queue) \in Seq(Events)
  BY Taken1 DEF Handles, IInv, Typed, e, Events

\* bwmHandleTxAdded, bwmHandleTxUpdated, bwmHandleTxDeleted
LEMMA RecordsKept ==
    ASSUME IInv, e.name \in WalletEvents, Handles(e.name),
           NEW r \in Records, Running' => Changes(e, record[e.tx], r),
           record' = [record EXCEPT ![e.tx] = r],
           UNCHANGED <<wallet, answers, requests>>,
           NEW v, Quiet(v), queue' = Tail(queue) \o v
    PROVE  IInv'
  <1>1. /\ queue \in Seq(Events) /\ queue # <<>> /\ e = Head(queue) /\ e.tx \in Tx
        /\ Fits(queue, wallet, record) /\ Tail(queue) \in Seq(Events)
        /\ record \in [Tx -> Records] /\ v \in Seq(Events)
    BY Handling DEF IInv, Typed, Quiet
  <1>2. queue' \in Seq(Events) /\ record' \in [Tx -> Records]
    BY <1>1, ConcatProperties
  <1>3. Typed'
    BY <1>2 DEF IInv, Typed
  <1>4. ASSUME Running'
        PROVE  Fits(queue', wallet', record')
    <2>1. Fits(Tail(queue), wallet, record')
      BY <1>1, <1>4, OwnFits
    <2> QED BY <1>1, <2>1, QuietFits
  <1> QED BY <1>3, <1>4 DEF IInv

LEMMA WalletEventsKeep ==
    ASSUME IInv, TxAdded \/ TxUpdated \/ TxDeleted
    PROVE  IInv'
  <1>1. {"TxAdded", "TxUpdated", "TxDeleted"} = WalletEvents
    BY DEF WalletEvents
  <1>2. Handles(e.name) /\ e.name \in WalletEvents /\ UNCHANGED <<wallet, answers, requests>>
    BY <1>1 DEF TxAdded, TxUpdated, TxDeleted, Handles, submission
  <1>3. e.tx \in Tx /\ e.height \in Nat /\ record \in [Tx -> Records] /\ record[e.tx] \in Records
    BY <1>2, Handling DEF IInv, Typed
  <1>4. Running
    BY <1>2 DEF Handles
  <1>5. /\ Quiet(<<Event("ADDED", e.tx, 0)>>) /\ Quiet(<<Event("UPDATED", e.tx, e.height)>>)
        /\ Quiet(<<Event("DELETED", e.tx, 0)>>)
    <2>1. {"ADDED", "UPDATED", "DELETED"} \subseteq Names \ WalletEvents
      BY DEF Names, WalletEvents, TransferEvents
    <2> QED BY <1>3, <2>1, OneQuiet
  <1>6. CASE TxAdded
    <2> DEFINE r == [is |-> "signed", refed |-> TRUE, height |-> e.height]
               v == <<Event("ADDED", e.tx, 0), Event("UPDATED", e.tx, e.height)>>
    <2>1. Quiet(v)
      <3>1. v = <<Event("ADDED", e.tx, 0)>> \o <<Event("UPDATED", e.tx, e.height)>>
        OBVIOUS
      <3> QED BY <1>5, <3>1, QuietAppended
    <2>2. r \in Records /\ Changes(e, record[e.tx], r)
      BY <1>3, <1>6 DEF Records, Changes, TxAdded, Handles
    <2>3. record' = [record EXCEPT ![e.tx] = r] /\ queue' = Tail(queue) \o v
      BY <1>6 DEF TxAdded, Handled
    <2> HIDE DEF r, v
    <2> QED BY <1>2, <2>1, <2>2, <2>3, RecordsKept
  <1>7. CASE TxUpdated
    <2> DEFINE r == [record[e.tx] EXCEPT !.height = e.height]
    <2>1. r \in Records
      BY <1>3 DEF Records
    <2>2. Running' => Changes(e, record[e.tx], r)
      BY <1>4, <1>7 DEF Changes, TxUpdated, Handles, Asserts, Running
    <2>3. record' = [record EXCEPT ![e.tx] = r]
          /\ queue' = Tail(queue) \o <<Event("UPDATED", e.tx, e.height)>>
      BY <1>3, <1>7 DEF TxUpdated, Handled
    <2> HIDE DEF r
    <2> QED BY <1>2, <1>5, <2>1, <2>2, <2>3, RecordsKept
  <1>8. CASE TxDeleted
    <2> DEFINE r == [record[e.tx] EXCEPT !.is = "deleted"]
    <2>1. r \in Records
      BY <1>3 DEF Records
    <2>2. Running' => Changes(e, record[e.tx], r)
      BY <1>4, <1>8 DEF Changes, TxDeleted, Handles, Asserts, Running
    <2>3. record' = [record EXCEPT ![e.tx] = r]
          /\ queue' = Tail(queue) \o <<Event("DELETED", e.tx, 0)>>
      BY <1>3, <1>8 DEF TxDeleted, Handled
    <2> HIDE DEF r
    <2> QED BY <1>2, <1>5, <2>1, <2>2, <2>3, RecordsKept
  <1> QED BY <1>6, <1>7, <1>8

\* cwmTransactionEventAsBTC, cwmWalletEventAsBTC
LEMMA TransfersKeep ==
    ASSUME IInv, TransferStep \/ SubmitAnswered
    PROVE  IInv'
  <1>1. Handles(e.name) /\ e.name \notin WalletEvents
    BY DEF TransferStep, SubmitAnswered, Handles, WalletEvents
  <1>2. queue' = Tail(queue) \o <<>> /\ UNCHANGED <<wallet, record, answers, requests>>
    BY DEF TransferStep, SubmitAnswered, Handled, submission
  <1>3. /\ queue \in Seq(Events) /\ Tail(queue) \in Seq(Events) /\ Fits(Tail(queue), wallet, record)
    BY <1>1, Handling, OtherFits
  <1>4. queue' = Tail(queue)
    BY <1>2, <1>3, ConcatEmptySeq
  <1> QED BY <1>2, <1>3, <1>4 DEF IInv, Typed, Fits

\* The handlers that call the wallet, with the events of the callbacks.
LEMMA HandlersKeep ==
    ASSUME IInv, Handles(e.name), e.name \notin WalletEvents,
           UNCHANGED <<record, answers, requests>>,
           NEW v \in Seq(Events), queue' = Tail(queue) \o v, WalletTyped(wallet'),
           Fits(Tail(queue), wallet, record) => Fits(Tail(queue) \o v, wallet', record)
    PROVE  IInv'
  <1>1. Tail(queue) \in Seq(Events) /\ Fits(Tail(queue), wallet, record)
    BY Handling, OtherFits
  <1>2. queue' \in Seq(Events) /\ Fits(queue', wallet', record')
    BY <1>1, ConcatProperties
  <1> QED BY <1>2 DEF IInv, Typed

\* bwmHandleAnnounceSubmit
LEMMA HandleAnnounceSubmitKeeps ==
    ASSUME IInv, HandleAnnounceSubmit
    PROVE  IInv'
  <1> DEFINE q == Tail(queue)
             success == e.name = "Submitted"
             heard == mode = "API" /\ record[e.tx].is = "signed"
             a == IF success THEN Added(wallet, e.tx) ELSE <<>>
             b == SubmitEvent(e.tx, ~success)
             v == IF heard THEN a \o b ELSE <<>>
             u == IF success THEN Registered(wallet, e.tx) ELSE wallet
  <1>1. /\ Handles(e.name) /\ e.name \notin WalletEvents /\ UNCHANGED <<record, answers, requests>>
        /\ wallet' = (IF heard THEN u ELSE wallet) /\ queue' = q \o v
    BY DEF HandleAnnounceSubmit, Handles, WalletEvents, Handled, book, submission
  <1>2. /\ q \in Seq(Events) /\ Fits(q, wallet, record) /\ e.tx \in Tx /\ WalletTyped(wallet)
    BY <1>1, Handling, OtherFits DEF IInv, Typed
  <1> HIDE DEF q, success, heard
  <1>3. Quiet(b)
    BY <1>2, SubmitIsQuiet
  <1>4. a \in Seq(Events) /\ WalletTyped(u) /\ Fits(q \o a, u, record)
    <2>1. CASE success
      BY <1>2, <2>1, RegisteredFits
    <2>2. CASE ~success
      BY <1>2, <2>2, ConcatEmptySeq
    <2> QED BY <2>1, <2>2
  <1> HIDE DEF a, b, u
  <1>5. b \in Seq(Events)
    BY <1>3 DEF Quiet
  <1>6. (q \o a) \o b = q \o (a \o b) /\ q \o a \in Seq(Events) /\ a \o b \in Seq(Events)
    BY <1>2, <1>4, <1>5, ConcatAssociative, ConcatProperties, SMTT(60)
  <1>7. Fits(q \o (a \o b), u, record)
    BY <1>3, <1>4, <1>6, QuietFits
  <1>8. v \in Seq(Events) /\ WalletTyped(wallet') /\ Fits(q \o v, wallet', record)
    <2>1. CASE heard
      BY <1>1, <1>4, <1>6, <1>7, <2>1
    <2>2. CASE ~heard
      BY <1>1, <1>2, <2>2, ConcatEmptySeq
    <2> QED BY <2>1, <2>2
  <1> HIDE DEF v
  <1> QED BY <1>1, <1>8, HandlersKeep DEF q

\* bwmHandleAnnounceTransaction
LEMMA HandleAnnounceTransactionKeeps ==
    ASSUME IInv, HandleAnnounceTransaction
    PROVE  IInv'
  <1> DEFINE q == Tail(queue)
             w == IF e.name = "Transaction" THEN Registered(wallet, e.tx) ELSE wallet
             txs == Changed(w, {e.tx}, e.height)
             a == IF w = wallet THEN <<>> ELSE Added(wallet, e.tx)
             b == UpdatedEvents(txs, e.height)
             v == IF mode # "API" THEN <<>> ELSE a \o b
             u == Updated(w, txs, e.height)
  <1>1. /\ Handles(e.name) /\ e.name \notin WalletEvents /\ UNCHANGED <<record, answers, requests>>
        /\ wallet' = (IF mode = "API" THEN u ELSE wallet) /\ queue' = q \o v
    BY DEF HandleAnnounceTransaction, Handles, WalletEvents, Handled, book, submission
  <1>2. /\ q \in Seq(Events) /\ Fits(q, wallet, record) /\ e.tx \in Tx /\ e.height \in Nat
        /\ WalletTyped(wallet)
    BY <1>1, Handling, OtherFits DEF IInv, Typed
  <1>3. txs \in SUBSET w.known
    BY DEF Changed
  <1> HIDE DEF q, txs
  <1>4. a \in Seq(Events) /\ WalletTyped(w) /\ Fits(q \o a, w, record)
    <2>1. CASE w = wallet
      BY <1>2, <2>1, ConcatEmptySeq
    <2>2. CASE w # wallet
      <3>1. w = Registered(wallet, e.tx) /\ a = Added(wallet, e.tx)
        BY <2>2
      <3> QED BY <1>2, <3>1, RegisteredFits
    <2> QED BY <2>1, <2>2
  <1> HIDE DEF a, w
  <1>5. q \o a \in Seq(Events)
    BY <1>2, <1>4, ConcatProperties
  <1>6. WalletTyped(u) /\ b \in Seq(Events) /\ Fits((q \o a) \o b, u, record)
    BY <1>2, <1>3, <1>4, <1>5, UpdatedFits
  <1> HIDE DEF b, u
  <1>7. (q \o a) \o b = q \o (a \o b) /\ a \o b \in Seq(Events)
    BY <1>2, <1>4, <1>6, ConcatAssociative, ConcatProperties, SMTT(60)
  <1>8. v \in Seq(Events) /\ WalletTyped(wallet') /\ Fits(q \o v, wallet', record)
    <2>1. CASE mode = "API"
      BY <1>1, <1>6, <1>7, <2>1
    <2>2. CASE mode # "API"
      BY <1>1, <1>2, <2>2, ConcatEmptySeq
    <2> QED BY <2>1, <2>2
  <1> HIDE DEF v
  <1> QED BY <1>1, <1>8, HandlersKeep DEF q

-----------------------------------------------------------------------------
\* At the start nothing is known and nothing waits.
LEMMA InitIInv == Init => IInv
  <1> SUFFICES ASSUME Init
               PROVE  IInv
    OBVIOUS
  <1>1. Typed
    BY HeightsAreNat DEF Init, Typed, WalletTyped, Wallets, Records, NoRecord
  <1>2. Quiet(queue) /\ wallet.known = {} /\ wallet.listed = {}
        /\ \A t \in Tx : record[t].is = "none" /\ ~record[t].refed
    BY NoneQuiet DEF Init, NoRecord
  <1>3. \A t \in Tx : ~Adds(queue, t) /\ AddsFirst(queue, t) /\ Silent(queue, t)
    BY <1>2 DEF Quiet, Silent, Adds, AddsFirst
  <1>4. Fits(queue, wallet, record)
    BY <1>2, <1>3 DEF Fits, Recorded
  <1> QED BY <1>1, <1>4 DEF IInv

\* Every step keeps it.
LEMMA NextIInv == IInv /\ [Next]_vars => IInv'
  <1> SUFFICES ASSUME IInv, [Next]_vars
               PROVE  IInv'
    OBVIOUS
  <1>1. CASE \E t \in Tx : RequestedTx(t) \/ RelayedTx(t)
    BY <1>1, TakenKeeps
  <1>2. CASE \E t \in Tx : RelayCounted(t)
    BY <1>2, BlocksKeep
  <1>3. CASE \E t \in Tx : RemoveTransaction(t)
    BY <1>3, RemoveTransactionKeeps
  <1>4. CASE \E t \in Tx : PublishFails(t) \/ Accepted(t) \/ SubmitToClient(t) \/ PublishTx(t)
    BY <1>4, AsidesKeep
  <1>5. CASE \E t \in Tx : Create(t) \/ Sign(t)
    BY <1>5, MakingKeeps
  <1>6. CASE \E t \in Tx : SubmitOffline(t)
    BY <1>6, AnswersKeep
  <1>7. CASE \E a \in answers : TxPublished(a)
    BY <1>7, AnswersKeep
  <1>8. CASE \E txs \in SUBSET Tx, h \in Blocks : RelayedBlock(txs, h)
    BY <1>8, BlocksKeep
  <1>9. CASE \E h \in 0 .. MaxHeight : Reorganisation(h)
    BY <1>9, BlocksKeep
  <1>10. CASE \E t \in Tx, error \in BOOLEAN : AnnounceSubmit(t, error)
    BY <1>10, AnswersKeep
  <1>11. CASE \E t \in Tx, h \in 0 .. MaxHeight, current \in BOOLEAN :
                  AnnounceTransaction(t, h, current)
    BY <1>11, AnswersKeep
  <1>12. CASE SetMode \/ UNCHANGED vars
    BY <1>12, AsidesKeep
  <1>13. CASE Restart
    BY <1>13, RestartKeeps
  <1>14. CASE Dispatch
    BY <1>14, WalletEventsKeep, TransfersKeep, HandleAnnounceSubmitKeeps,
       HandleAnnounceTransactionKeeps DEF Dispatch
  <1> QED BY <1>1, <1>2, <1>3, <1>4, <1>5, <1>6, <1>7, <1>8, <1>9, <1>10, <1>11, <1>12,
             <1>13, <1>14 DEF Next

\* The events that wait say what the records do not yet: the addition of a
\* transaction comes first and once, the last event about one that is listed
\* carries the wallet's height, and a removal waits or is recorded.
THEOREM Invariance == Spec => []IInv
  BY InitIInv, NextIInv, PTL DEF Spec

\* With nothing waiting for it, a record is that of the wallet's transaction.
LEMMA IInvAgrees == IInv => RecordsAgree
  <1> SUFFICES ASSUME IInv, NEW t \in Tx, Running, ~Waits(t, WalletEvents)
               PROVE  /\ t \in wallet.listed <=> record[t].is = "signed" /\ record[t].refed
                      /\ t \in wallet.listed => record[t].height = wallet.height[t]
    BY DEF RecordsAgree
  <1>1. Silent(queue, t) /\ ~Adds(queue, t) /\ ~Deletes(queue, t)
    BY DEF Waits, Silent, Tells, Adds, Deletes
  <1>2. Recorded(queue, wallet, record[t], t)
    BY DEF IInv, Fits
  <1>3. t \in wallet.listed => t \in wallet.known
    BY DEF IInv, Typed, WalletTyped
  <1> QED BY <1>1, <1>2, <1>3 DEF Recorded

\* Once the events of the wallet's callbacks are handled
\* (BRWalletManager.c, bwmHandleTxAdded, bwmHandleTxUpdated, bwmHandleTxDeleted),
\* the signed records are those of the wallet's transactions, at its heights.
THEOREM RecordsFollow == Spec => []RecordsAgree
  BY Invariance, IInvAgrees, PTL

-----------------------------------------------------------------------------
(* The transfers                                                            *)

States == {"none", "CREATED", "SIGNED", "SUBMITTED", "INCLUDED", "ERRORED"}
SubmitEvents == {"SUBMIT_FAILED", "SUBMIT_SUCCEEDED", "Rejected", "Submitted"}

\* The queue q has no event of these names about t.
NoneOf(q, t, names) == \A i \in 1 .. Len(q) : ~(q[i].tx = t /\ q[i].name \in names)

\* What the queue q has for the transfer of t.
Shows(q, i, t) == q[i].tx = t /\ q[i].name \in TransferEvents
Mute(q, t) == NoneOf(q, t, TransferEvents)

\* The events of a transfer come in this order, and only updates are repeated.
Before(a, b) ==
    \/ a = "CREATED" /\ b # "CREATED"
    \/ a = "SIGNED" /\ b \notin {"CREATED", "SIGNED"}
    \/ a \in {"ADDED", "UPDATED"} /\ b \in {"UPDATED", "DELETED"}

Ordered(q, t) ==
    \A i, j \in 1 .. Len(q) : Shows(q, i, t) /\ Shows(q, j, t) /\ i < j => Before(q[i].name, q[j].name)

\* The first one finds the transfer x as its handler demands.
Ready(n, x) ==
    /\ n = "CREATED" => x = "none"
    /\ n = "SIGNED" => x \notin {"none", "SIGNED"}
    /\ n \in {"UPDATED", "DELETED"} => x # "none"

Starts(q, t, x) ==
    \A i \in 1 .. Len(q) :
        Shows(q, i, t) /\ (\A j \in 1 .. Len(q) : Shows(q, j, t) => i <= j) => Ready(q[i].name, x)

\* The events that may wait when the record is r, and the one that is the last.
Within(n, r) ==
    \/ r.is = "unsigned" /\ n = "CREATED"
    \/ r.is = "signed" /\ ~r.refed /\ n \in {"CREATED", "SIGNED"}
    \/ r.is = "signed" /\ r.refed /\ n # "DELETED"
    \/ r.is = "deleted"

Closes(x, r) ==
    \/ r.is = "unsigned" /\ x.name = "CREATED"
    \/ r.is = "signed" /\ ~r.refed /\ x.name = "SIGNED"
    \/ r.is = "signed" /\ r.refed /\ x.name = "UPDATED" /\ x.height = r.height
    \/ r.is = "deleted" /\ x.name = "DELETED"

Bounded(q, t, r) == \A i \in 1 .. Len(q) : Shows(q, i, t) => Within(q[i].name, r)

Stops(q, t, r) ==
    \A i \in 1 .. Len(q) :
        Shows(q, i, t) /\ (\A j \in 1 .. Len(q) : Shows(q, j, t) => j <= i) => Closes(q[i], r)

\* When none waits the transfer x is that of the record r, and if it was not
\* submitted, s times, it shows how far the record is.
Settled(r, x, s) ==
    /\ r.is \in {"none", "deleted"} <=> x = "none"
    /\ r.is = "unsigned" => x # "SIGNED"
    /\ s = 0 => \/ r.is \in {"none", "deleted"}
                \/ r.is = "unsigned" /\ x = "CREATED"
                \/ r.is = "signed" /\ ~r.refed /\ x = "SIGNED"
                \/ r.is = "signed" /\ r.refed /\ x = StateAt(x, r.height)

Shown(q, r, x, s, t) ==
    /\ Ordered(q, t) /\ Starts(q, t, x) /\ Bounded(q, t, r) /\ Stops(q, t, r)
    /\ Mute(q, t) => Settled(r, x, s)

\* What was not submitted has no answer.
Idle(t) == t \notin requests /\ published[t] # "pending" /\ \A a \in answers : a.tx # t
Unasked(q, t) == submits[t] = 0 => Idle(t) /\ NoneOf(q, t, SubmitEvents)

TypedToo ==
    /\ transfer \in [Tx -> States] /\ submits \in [Tx -> Nat]
    /\ published \in [Tx -> {"no", "listed", "pending"}]

\* The invariant that is inductive beside IInv.
TInv ==
    /\ TypedToo /\ AssertionsKept
    /\ Running => \A t \in Tx : /\ Shown(queue, record[t], transfer[t], submits[t], t)
                                /\ Unasked(queue, t)

-----------------------------------------------------------------------------
\* Events appended that are not of these names, and the first one taken.
LEMMA NoneAppended ==
    ASSUME NEW t \in Tx, NEW N, NEW q \in Seq(Events), NEW v \in Seq(Events), NoneOf(v, t, N)
    PROVE  NoneOf(q \o v, t, N) <=> NoneOf(q, t, N)
  <1> DEFINE p == q \o v
  <1>1. /\ Len(q) \in Nat /\ Len(p) \in Nat /\ Len(q) <= Len(p)
        /\ \A i \in 1 .. Len(q) : p[i] = q[i]
        /\ \A i \in 1 .. Len(p) : i \in 1 .. Len(q) \/ ~(p[i].tx = t /\ p[i].name \in N)
    BY Appended, LenProperties DEF NoneOf
  <1> HIDE DEF p
  <1>2. \A i \in 1 .. Len(q) : i \in 1 .. Len(p)
    BY <1>1
  <1>3. NoneOf(p, t, N) <=> NoneOf(q, t, N)
    BY <1>1, <1>2 DEF NoneOf
  <1> QED BY <1>3 DEF p

LEMMA NoneLeft ==
    ASSUME NEW t \in Tx, NEW N, NEW q \in Seq(Events), q # <<>>
    PROVE  /\ NoneOf(q, t, N) => NoneOf(Tail(q), t, N)
           /\ ~(q[1].tx = t /\ q[1].name \in N) /\ NoneOf(Tail(q), t, N) => NoneOf(q, t, N)
           /\ NoneOf(q, t, N) => ~(q[1].tx = t /\ q[1].name \in N)
  <1> DEFINE p == Tail(q)
  <1>1. /\ Len(q) \in Nat /\ 1 \in 1 .. Len(q) /\ Len(p) = Len(q) - 1
        /\ \A i \in 1 .. Len(p) : p[i] = q[i + 1] /\ i + 1 \in 1 .. Len(q)
        /\ \A i \in 1 .. Len(q) : i = 1 \/ (i - 1 \in 1 .. Len(p) /\ p[i - 1] = q[i])
    BY Taken1
  <1> HIDE DEF p
  <1>2. /\ NoneOf(q, t, N) => NoneOf(p, t, N)
        /\ ~(q[1].tx = t /\ q[1].name \in N) /\ NoneOf(p, t, N) => NoneOf(q, t, N)
        /\ NoneOf(q, t, N) => ~(q[1].tx = t /\ q[1].name \in N)
    BY <1>1 DEF NoneOf
  <1> QED BY <1>2 DEF p

\* Events that are not about the transfer of t change nothing for it.
LEMMA MuteAppended ==
    ASSUME NEW t \in Tx, NEW q \in Seq(Events), NEW v \in Seq(Events), Mute(v, t),
           NEW r, NEW x, NEW s, Shown(q, r, x, s, t)
    PROVE  Shown(q \o v, r, x, s, t)
  <1> DEFINE p == q \o v
  <1>1. /\ Len(q) \in Nat /\ Len(p) \in Nat /\ Len(q) <= Len(p)
        /\ \A i \in 1 .. Len(q) : p[i] = q[i]
        /\ \A i \in 1 .. Len(p) : i \in 1 .. Len(q) \/ ~Shows(p, i, t)
    BY Appended, LenProperties DEF Mute, NoneOf, Shows
  <1>2. Mute(p, t) <=> Mute(q, t)
    BY NoneAppended DEF Mute
  <1> HIDE DEF p
  <1>3. \A i \in 1 .. Len(q) : i \in 1 .. Len(p) /\ (Shows(p, i, t) <=> Shows(q, i, t))
    BY <1>1 DEF Shows
  <1>4. Ordered(p, t)
    BY <1>1, <1>3 DEF Ordered, Shown
  <1>5. Starts(p, t, x)
    BY <1>1, <1>3 DEF Starts, Shown
  <1>6. Bounded(p, t, r)
    BY <1>1, <1>3 DEF Bounded, Shown
  <1>7. Stops(p, t, r)
    BY <1>1, <1>3 DEF Stops, Shown
  <1>8. Shown(p, r, x, s, t)
    BY <1>2, <1>4, <1>5, <1>6, <1>7 DEF Shown
  <1> QED BY <1>8 DEF p

\* An event about the transfer of t comes after q.
LEMMA ShowAppended ==
    ASSUME NEW t \in Tx, NEW q \in Seq(Events), NEW y \in Events, y.tx = t, y.name \in TransferEvents
    PROVE  LET p == q \o <<y>>
           IN  /\ p \in Seq(Events) /\ ~Mute(p, t)
               /\ Ordered(q, t) /\ (\A i \in 1 .. Len(q) : Shows(q, i, t) => Before(q[i].name, y.name))
                     => Ordered(p, t)
               /\ \A x : Starts(q, t, x) /\ (Mute(q, t) => Ready(y.name, x)) => Starts(p, t, x)
               /\ \A r : Bounded(q, t, r) /\ Within(y.name, r) => Bounded(p, t, r)
               /\ \A r : Closes(y, r) => Stops(p, t, r)
  <1> DEFINE p == q \o <<y>>
             l == Len(q) + 1
  <1>1. /\ Len(q) \in Nat /\ Len(p) = l /\ l \in 1 .. l /\ p[l] = y /\ p \in Seq(Events)
        /\ \A i \in 1 .. Len(q) : p[i] = q[i] /\ i \in 1 .. l /\ i < l
        /\ \A i \in 1 .. l : i \in 1 .. Len(q) \/ i = l
    BY LenProperties
  <1> HIDE DEF p, l
  <1>2. Shows(p, l, t) /\ \A i \in 1 .. Len(q) : Shows(p, i, t) <=> Shows(q, i, t)
    BY <1>1 DEF Shows
  <1>3. ~Mute(p, t)
    BY <1>1, <1>2 DEF Mute, NoneOf, Shows
  <1>4. ASSUME Ordered(q, t), \A i \in 1 .. Len(q) : Shows(q, i, t) => Before(q[i].name, y.name)
        PROVE  Ordered(p, t)
    <2> SUFFICES ASSUME NEW i \in 1 .. l, NEW j \in 1 .. l, Shows(p, i, t), Shows(p, j, t), i < j
                 PROVE  Before(p[i].name, p[j].name)
      BY <1>1 DEF Ordered
    <2>1. i \in 1 .. Len(q)
      BY <1>1
    <2>2. CASE j = l
      BY <1>1, <1>2, <1>4, <2>1, <2>2
    <2>3. CASE j # l
      BY <1>1, <1>2, <1>4, <2>1, <2>3 DEF Ordered
    <2> QED BY <2>2, <2>3
  <1>5. ASSUME NEW x, Starts(q, t, x), Mute(q, t) => Ready(y.name, x)
        PROVE  Starts(p, t, x)
    <2> SUFFICES ASSUME NEW i \in 1 .. l, Shows(p, i, t), \A j \in 1 .. l : Shows(p, j, t) => i <= j
                 PROVE  Ready(p[i].name, x)
      BY <1>1 DEF Starts
    <2>1. CASE i = l
      <3>1. \A j \in 1 .. Len(q) : ~Shows(q, j, t)
        <4>1. ASSUME NEW j \in 1 .. Len(q), Shows(q, j, t)
              PROVE  FALSE
          <5>1. j \in 1 .. l /\ Shows(p, j, t) /\ j < l
            BY <1>1, <1>2, <4>1
          <5>2. l <= j
            BY <2>1, <5>1
          <5> QED BY <1>1, <5>1, <5>2
        <4> QED BY <4>1
      <3> QED BY <1>1, <1>5, <2>1, <3>1 DEF Mute, NoneOf, Shows
    <2>2. CASE i # l
      BY <1>1, <1>2, <1>5, <2>2 DEF Starts
    <2> QED BY <2>1, <2>2
  <1>6. ASSUME NEW r, Bounded(q, t, r), Within(y.name, r)
        PROVE  Bounded(p, t, r)
    BY <1>1, <1>2, <1>6 DEF Bounded
  <1>7. ASSUME NEW r, Closes(y, r)
        PROVE  Stops(p, t, r)
    <2> SUFFICES ASSUME NEW i \in 1 .. l, Shows(p, i, t), \A j \in 1 .. l : Shows(p, j, t) => j <= i
                 PROVE  Closes(p[i], r)
      BY <1>1 DEF Stops
    <2>1. l <= i
      BY <1>1, <1>2
    <2>2. i = l
      BY <1>1, <2>1
    <2> QED BY <1>1, <1>7, <2>2
  <1> QED BY <1>1, <1>3, <1>4, <1>5, <1>6, <1>7 DEF p

\* It is the only one, and the record changes from r to z with it.
LEMMA ShowsOne ==
    ASSUME NEW t \in Tx, NEW q \in Seq(Events), NEW y \in Events, y.tx = t, y.name \in TransferEvents,
           NEW r, NEW z, NEW x, NEW s, Shown(q, r, x, s, t),
           \A n \in TransferEvents : Within(n, r) => Before(n, y.name) /\ Within(n, z),
           Settled(r, x, s) => Ready(y.name, x), Within(y.name, z), Closes(y, z)
    PROVE  Shown(q \o <<y>>, z, x, s, t)
  <1> DEFINE p == q \o <<y>>
  <1>1. \A i \in 1 .. Len(q) : Shows(q, i, t) => Before(q[i].name, y.name) /\ Within(q[i].name, z)
    BY DEF Shown, Bounded, Shows
  <1>2. Ordered(q, t) /\ Starts(q, t, x) /\ Bounded(q, t, z) /\ (Mute(q, t) => Ready(y.name, x))
    BY <1>1 DEF Shown, Bounded
  <1>3. ~Mute(p, t) /\ Ordered(p, t) /\ Starts(p, t, x) /\ Bounded(p, t, z) /\ Stops(p, t, z)
    BY <1>1, <1>2, ShowAppended
  <1> HIDE DEF p
  <1>4. Shown(p, z, x, s, t)
    BY <1>3 DEF Shown
  <1> QED BY <1>4 DEF p

\* What is left when the first event is taken.
LEMMA TailShows ==
    ASSUME NEW t \in Tx, NEW q \in Seq(Events), q # <<>>, NEW p, p = Tail(q),
           NEW r, NEW x, NEW s, Shown(q, r, x, s, t)
    PROVE  /\ ~Shows(q, 1, t) => Shown(p, r, x, s, t)
           /\ Shows(q, 1, t) =>
                 /\ Ready(q[1].name, x) /\ Within(q[1].name, r)
                 /\ Ordered(p, t) /\ Bounded(p, t, r) /\ Stops(p, t, r)
                 /\ Mute(p, t) => Closes(q[1], r)
                 /\ \A y : (\A n \in TransferEvents : Before(q[1].name, n) => Ready(n, y))
                              => Starts(p, t, y)
  <1>1. /\ Len(q) \in Nat /\ 1 \in 1 .. Len(q) /\ Len(p) = Len(q) - 1
        /\ \A i \in 1 .. Len(p) : p[i] = q[i + 1] /\ i + 1 \in 1 .. Len(q)
        /\ \A i \in 1 .. Len(q) : i = 1 \/ (i - 1 \in 1 .. Len(p) /\ p[i - 1] = q[i])
    BY Taken1
  <1>2. /\ \A i \in 1 .. Len(p) : Shows(p, i, t) <=> Shows(q, i + 1, t)
        /\ \A i \in 1 .. Len(q) : i # 1 => (Shows(q, i, t) <=> Shows(p, i - 1, t))
    BY <1>1 DEF Shows
  <1>3. Ordered(q, t) /\ Starts(q, t, x) /\ Bounded(q, t, r) /\ Stops(q, t, r)
        /\ (Mute(q, t) => Settled(r, x, s))
    BY DEF Shown
  <1>4. Ordered(p, t)
    <2> SUFFICES ASSUME NEW i \in 1 .. Len(p), NEW j \in 1 .. Len(p), Shows(p, i, t), Shows(p, j, t), i < j
                 PROVE  Before(p[i].name, p[j].name)
      BY DEF Ordered
    <2>1. Shows(q, i + 1, t) /\ Shows(q, j + 1, t) /\ i + 1 < j + 1
      BY <1>1, <1>2
    <2> QED BY <1>1, <1>3, <2>1 DEF Ordered
  <1>5. Bounded(p, t, r)
    BY <1>1, <1>2, <1>3 DEF Bounded
  <1>6. Stops(p, t, r)
    <2> SUFFICES ASSUME NEW i \in 1 .. Len(p), Shows(p, i, t),
                        \A j \in 1 .. Len(p) : Shows(p, j, t) => j <= i
                 PROVE  Closes(p[i], r)
      BY DEF Stops
    <2>1. ASSUME NEW j \in 1 .. Len(q), Shows(q, j, t)
          PROVE  j <= i + 1
      <3>1. j = 1 \/ (j - 1 \in 1 .. Len(p) /\ Shows(p, j - 1, t))
        BY <1>1, <1>2, <2>1
      <3>2. j = 1 \/ j - 1 <= i
        BY <3>1
      <3> QED BY <1>1, <3>2
    <2>2. Closes(q[i + 1], r)
      BY <1>1, <1>2, <1>3, <2>1 DEF Stops
    <2> QED BY <1>1, <2>2
  <1>7. CASE ~Shows(q, 1, t)
    <2>1. Starts(p, t, x)
      <3> SUFFICES ASSUME NEW i \in 1 .. Len(p), Shows(p, i, t),
                          \A j \in 1 .. Len(p) : Shows(p, j, t) => i <= j
                   PROVE  Ready(p[i].name, x)
        BY DEF Starts
      <3>1. ASSUME NEW j \in 1 .. Len(q), Shows(q, j, t)
            PROVE  i + 1 <= j
        <4>1. j - 1 \in 1 .. Len(p) /\ Shows(p, j - 1, t)
          BY <1>1, <1>2, <1>7, <3>1
        <4>2. i <= j - 1
          BY <4>1
        <4> QED BY <1>1, <4>2
      <3>2. Ready(q[i + 1].name, x)
        BY <1>1, <1>2, <1>3, <3>1 DEF Starts
      <3> QED BY <1>1, <3>2
    <2>2. Mute(p, t) => Mute(q, t)
      BY <1>7, NoneLeft DEF Mute, Shows
    <2> QED BY <1>3, <1>4, <1>5, <1>6, <1>7, <2>1, <2>2 DEF Shown
  <1>8. CASE Shows(q, 1, t)
    <2>1. Ready(q[1].name, x) /\ Within(q[1].name, r)
      <3>1. \A j \in 1 .. Len(q) : 1 <= j
        BY <1>1
      <3> QED BY <1>1, <1>3, <1>8, <3>1 DEF Starts, Bounded
    <2>2. ASSUME Mute(p, t)
          PROVE  Closes(q[1], r)
      <3>1. \A j \in 1 .. Len(q) : Shows(q, j, t) => j <= 1
        BY <1>1, <1>2, <2>2 DEF Mute, NoneOf, Shows
      <3> QED BY <1>1, <1>3, <1>8, <3>1 DEF Stops
    <2>3. ASSUME NEW y, \A n \in TransferEvents : Before(q[1].name, n) => Ready(n, y)
          PROVE  Starts(p, t, y)
      <3>1. ASSUME NEW i \in 1 .. Len(p), Shows(p, i, t)
            PROVE  Ready(p[i].name, y)
        <4>1. i + 1 \in 1 .. Len(q) /\ Shows(q, i + 1, t) /\ p[i] = q[i + 1] /\ 1 < i + 1
          BY <1>1, <1>2, <3>1
        <4>2. Before(q[1].name, p[i].name)
          BY <1>1, <1>3, <1>8, <4>1 DEF Ordered
        <4> QED BY <2>3, <3>1, <4>2 DEF Shows
      <3> QED BY <3>1 DEF Starts
    <2> QED BY <1>4, <1>5, <1>6, <1>8, <2>1, <2>2, <2>3
  <1> QED BY <1>7, <1>8

-----------------------------------------------------------------------------
\* What is signalled is about no transfer, and answers submissions in S only.
Answers(v, S) ==
    /\ v \in Seq(Events)
    /\ \A t \in Tx : Mute(v, t) /\ (t \notin S => NoneOf(v, t, SubmitEvents))

LEMMA NamesApart ==
    /\ WalletEvents \cup {"Transaction", "LateTransaction"} \subseteq Names \ (TransferEvents \cup SubmitEvents)
    /\ SubmitEvents \subseteq Names \ (TransferEvents \cup WalletEvents)
    /\ TransferEvents \subseteq Names \ (SubmitEvents \cup WalletEvents)
  BY DEF Names, WalletEvents, TransferEvents, SubmitEvents

LEMMA NothingAnswers == \A S : Answers(<<>>, S)
  BY DEF Answers, Mute, NoneOf

\* Events with these names.
LEMMA OthersAnswer ==
    ASSUME NEW v \in Seq(Events),
           \A i \in 1 .. Len(v) : v[i].name \in WalletEvents \cup {"Transaction", "LateTransaction"}
    PROVE  \A S : Answers(v, S)
  <1>1. \A i \in 1 .. Len(v) : v[i].name \notin TransferEvents /\ v[i].name \notin SubmitEvents
    BY NamesApart
  <1> QED BY <1>1 DEF Answers, Mute, NoneOf

LEMMA OneAnswers ==
    ASSUME NEW n, NEW t \in Tx, NEW h \in Nat, NEW S,
           n \in WalletEvents \cup {"Transaction", "LateTransaction"} \/ (n \in SubmitEvents /\ t \in S)
    PROVE  Answers(<<Event(n, t, h)>>, S)
  <1> DEFINE v == <<Event(n, t, h)>>
  <1>1. n \in Names /\ n \notin TransferEvents /\ (n \notin SubmitEvents \/ t \in S)
    BY NamesApart
  <1>2. /\ v \in Seq(Events) /\ Len(v) = 1 /\ v[1].name = n /\ v[1].tx = t
    BY <1>1 DEF Event, Events
  <1> HIDE DEF v
  <1>3. \A i \in 1 .. Len(v) : i = 1
    BY <1>2
  <1>4. Answers(v, S)
    BY <1>1, <1>2, <1>3 DEF Answers, Mute, NoneOf
  <1> QED BY <1>4 DEF v

LEMMA BothAnswer ==
    ASSUME NEW S, NEW v, NEW u, Answers(v, S), Answers(u, S)
    PROVE  Answers(v \o u, S)
  <1>1. v \in Seq(Events) /\ u \in Seq(Events) /\ v \o u \in Seq(Events)
    BY ConcatProperties DEF Answers
  <1> QED BY <1>1, NoneAppended DEF Answers, Mute

LEMMA AddedAnswers ==
    ASSUME NEW w, WalletTyped(w), NEW t \in Tx, NEW S
    PROVE  Answers(Added(w, t), S)
  <1>1. w.height[t] \in Nat /\ "TxAdded" \in WalletEvents
    BY DEF WalletTyped, Wallets, WalletEvents
  <1> QED BY <1>1, OneAnswers, NothingAnswers DEF Added

LEMMA UpdatesAnswer ==
    ASSUME NEW txs \in SUBSET Tx, NEW h \in Nat, NEW S
    PROVE  Answers(UpdatedEvents(txs, h), S)
  <1> DEFINE v == UpdatedEvents(txs, h)
  <1>1. v \in Seq(Events) /\ \A i \in 1 .. Len(v) : v[i].name = "TxUpdated"
    BY UpdatesTold
  <1> HIDE DEF v
  <1>2. \A i \in 1 .. Len(v) : v[i].name \in WalletEvents
    BY <1>1 DEF WalletEvents
  <1>3. Answers(v, S)
    BY <1>1, <1>2, OthersAnswer
  <1> QED BY <1>3 DEF v

\* SubmitEvent
LEMMA SubmitAnswers ==
    ASSUME NEW t \in Tx, NEW error, NEW S, t \in S
    PROVE  Answers(SubmitEvent(t, error), S)
  <1>1. "SUBMIT_FAILED" \in SubmitEvents /\ "SUBMIT_SUCCEEDED" \in SubmitEvents /\ 0 \in Nat
    BY DEF SubmitEvents
  <1> QED BY <1>1, OneAnswers DEF SubmitEvent

-----------------------------------------------------------------------------
\* With what waits in q, the transfers are those of the records.
Follows(q) == \A t \in Tx : Shown(q, record[t], transfer[t], submits[t], t) /\ Unasked(q, t)

\* Another submission demands less.
LEMMA SubmittedShown ==
    ASSUME NEW q, NEW r, NEW x, NEW s, NEW n, NEW t, Shown(q, r, x, s, t), n = 0 => s = 0
    PROVE  Shown(q, r, x, n, t)
  BY DEF Shown, Settled

\* Steps that signal what is about no transfer, behind q.
LEMMA CallShows ==
    ASSUME TInv, UNCHANGED <<record, transfer, failed>>, TypedToo',
           NEW S, NEW v, Answers(v, S), NEW q \in Seq(Events), queue' = q \o v,
           Running => Follows(q),
           \A t \in S \cap Tx : submits'[t] # 0,
           Running => \A t \in Tx : submits'[t] = 0 => submits[t] = 0 /\ Idle(t)'
    PROVE  TInv'
  <1>1. AssertionsKept'
    BY DEF TInv, AssertionsKept
  <1>2. ASSUME Running', NEW t \in Tx
        PROVE  Shown(queue', record'[t], transfer'[t], submits'[t], t) /\ Unasked(queue, t)'
    <2>1. Running
      BY <1>2 DEF Running
    <2>2. /\ Shown(q, record[t], transfer[t], submits[t], t) /\ Unasked(q, t)
          /\ v \in Seq(Events) /\ Mute(v, t)
      BY <2>1 DEF Follows, Answers
    <2>3. Shown(q, record[t], transfer[t], submits'[t], t)
      BY <2>1, <2>2, SubmittedShown
    <2>4. Shown(queue', record'[t], transfer'[t], submits'[t], t)
      BY <2>2, <2>3, MuteAppended
    <2>5. ASSUME submits'[t] = 0
          PROVE  Idle(t)' /\ NoneOf(queue', t, SubmitEvents)
      <3>1. t \notin S /\ submits[t] = 0 /\ Idle(t)'
        BY <2>1, <2>5
      <3>2. NoneOf(q, t, SubmitEvents) /\ NoneOf(v, t, SubmitEvents)
        BY <2>2, <3>1 DEF Unasked, Answers
      <3> QED BY <2>2, <3>1, <3>2, NoneAppended
    <2> QED BY <2>4, <2>5 DEF Unasked
  <1> QED BY <1>1, <1>2 DEF TInv

\* With nothing taken from the queue.
LEMMA CallFollows ==
    ASSUME IInv, TInv, UNCHANGED <<record, transfer, failed>>, TypedToo',
           NEW S, NEW v, Answers(v, S), queue' = queue \o v,
           \A t \in S \cap Tx : submits'[t] # 0,
           Running => \A t \in Tx : submits'[t] = 0 => submits[t] = 0 /\ Idle(t)'
    PROVE  TInv'
  <1>1. queue \in Seq(Events) /\ (Running => Follows(queue))
    BY DEF IInv, Typed, TInv, Follows
  <1> QED BY <1>1, CallShows

\* An event that is about no transfer is taken.
LEMMA RestFollows ==
    ASSUME IInv, TInv, Handles(e.name), e.name \notin TransferEvents
    PROVE  Follows(Tail(queue)) /\ Tail(queue) \in Seq(Events)
  <1>1. /\ queue \in Seq(Events) /\ queue # <<>> /\ e = queue[1] /\ Running
        /\ Tail(queue) \in Seq(Events)
    BY Taken1 DEF Handles, IInv, Typed, e
  <1>2. ASSUME NEW t \in Tx
        PROVE  Shown(Tail(queue), record[t], transfer[t], submits[t], t) /\ Unasked(Tail(queue), t)
    <2>1. Shown(queue, record[t], transfer[t], submits[t], t) /\ Unasked(queue, t) /\ ~Shows(queue, 1, t)
      BY <1>1 DEF TInv, Shows
    <2>2. Shown(Tail(queue), record[t], transfer[t], submits[t], t)
      BY <1>1, <2>1, TailShows
    <2>3. Unasked(Tail(queue), t)
      BY <1>1, <2>1, NoneLeft DEF Unasked
    <2> QED BY <2>2, <2>3
  <1> QED BY <1>1, <1>2 DEF Follows

-----------------------------------------------------------------------------
\* _peerRequestedTx, _peerRelayedTx, _peerHasTx
LEMMA TakenFollows ==
    ASSUME IInv, TInv, NEW t \in Tx, RequestedTx(t) \/ RelayedTx(t)
    PROVE  TInv'
  <1>1. PICK outcome : Running /\ Taken(t, outcome)
    BY DEF RequestedTx, RelayedTx, Peers
  <1>2. /\ UNCHANGED <<record, transfer, failed, submits, requests>>
        /\ queue' = queue \o Added(wallet, t)
    BY <1>1 DEF Taken, Signal, book, process
  <1>3. /\ published' \in [Tx -> {"no", "listed", "pending"}] /\ published'[t] # "pending"
        /\ \A s \in Tx : s # t => published'[s] = published[s]
    BY <1>1 DEF Taken, TInv, TypedToo
  <1>4. answers' = answers \cup {[tx |-> x, outcome |-> outcome] : x \in {y \in {t} : published[y] = "pending"}}
    BY <1>1 DEF Taken
  <1>5. \A a \in answers' : a \in answers \/ (a.tx = t /\ published[t] = "pending")
    BY <1>4
  <1>6. ASSUME NEW s \in Tx, submits'[s] = 0
        PROVE  submits[s] = 0 /\ Idle(s)'
    <2>1. submits[s] = 0 /\ Idle(s)
      BY <1>1, <1>2, <1>6 DEF TInv, Unasked
    <2>2. s \notin requests' /\ published'[s] # "pending"
      BY <1>2, <1>3, <2>1 DEF Idle
    <2>3. \A a \in answers' : a.tx # s
      BY <1>5, <2>1 DEF Idle
    <2> QED BY <2>1, <2>2, <2>3 DEF Idle
  <1>7. Answers(Added(wallet, t), {})
    BY AddedAnswers DEF IInv, Typed
  <1>8. TypedToo'
    BY <1>2, <1>3 DEF TInv, TypedToo
  <1> QED BY <1>2, <1>6, <1>7, <1>8, CallFollows

\* The wallet is told of blocks, relays and removals.
LEMMA UpdatesFollow ==
    ASSUME IInv, TInv,
           \/ \E txs \in SUBSET Tx, h \in Blocks : RelayedBlock(txs, h)
           \/ \E t \in Tx : RelayCounted(t) \/ RemoveTransaction(t)
           \/ \E h \in 0 .. MaxHeight : Reorganisation(h)
           \/ \E t \in Tx, h \in 0 .. MaxHeight, current \in BOOLEAN : AnnounceTransaction(t, h, current)
    PROVE  TInv'
  <1>1. /\ Running
        /\ UNCHANGED <<record, transfer, failed, published, answers, requests, submits>>
    BY DEF RelayedBlock, RelayCounted, RemoveTransaction, Reorganisation, AnnounceTransaction,
           Peers, Room, book, submission, process
  <1>2. \E v : Answers(v, {}) /\ queue' = queue \o v
    <2>1. ASSUME NEW txs \in SUBSET Tx, NEW h \in Nat, queue' = queue \o UpdatedEvents(txs, h)
          PROVE  \E v : Answers(v, {}) /\ queue' = queue \o v
      BY <2>1, UpdatesAnswer
    <2>2. ASSUME NEW t \in Tx, NEW h \in Nat, queue' = queue \o <<Event("TxDeleted", t, h)>>
          PROVE  \E v : Answers(v, {}) /\ queue' = queue \o v
      BY <2>2, OneAnswers DEF WalletEvents
    <2>3. CASE \E txs \in SUBSET Tx, h \in Blocks : RelayedBlock(txs, h)
      BY <2>1, <2>3, HeightsAreNat DEF RelayedBlock, Signal
    <2>4. CASE \E t \in Tx : RelayCounted(t)
      <3>1. PICK t \in Tx : RelayCounted(t)
        BY <2>4
      <3>2. {t} \in SUBSET Tx /\ queue' = queue \o UpdatedEvents({t}, Unconfirmed)
        BY <3>1 DEF RelayCounted, Signal
      <3> QED BY <2>1, <3>2, HeightsAreNat
    <2>5. CASE \E t \in Tx : RemoveTransaction(t)
      <3>1. 0 \in Nat
        OBVIOUS
      <3> QED BY <2>2, <2>5, <3>1 DEF RemoveTransaction, Signal
    <2>6. CASE \E h \in 0 .. MaxHeight : Reorganisation(h)
      <3>1. PICK h \in 0 .. MaxHeight : Reorganisation(h)
        BY <2>6
      <3> DEFINE txs == {t \in wallet.listed : wallet.height[t] > h}
      <3>2. txs \in SUBSET Tx
        BY DEF IInv, Typed, WalletTyped, Wallets
      <3>3. queue' = queue \o UpdatedEvents(txs, Unconfirmed)
        BY <3>1 DEF Reorganisation, Signal, UnconfirmedAfter
      <3> HIDE DEF txs
      <3> QED BY <2>1, <3>2, <3>3, HeightsAreNat
    <2>7. CASE \E t \in Tx, h \in 0 .. MaxHeight, current \in BOOLEAN : AnnounceTransaction(t, h, current)
      <3>1. PICK t \in Tx, h \in 0 .. MaxHeight, n \in {"Transaction", "LateTransaction"} :
                queue' = queue \o <<Event(n, t, h)>>
        BY <2>7 DEF AnnounceTransaction, Signal
      <3>2. h \in Nat
        BY <3>1, HeightsAreNat
      <3> QED BY <3>1, <3>2, OneAnswers
    <2>8. \/ \E txs \in SUBSET Tx, h \in Blocks : RelayedBlock(txs, h)
          \/ \E t \in Tx : RelayCounted(t)
          \/ \E t \in Tx : RemoveTransaction(t)
          \/ \E h \in 0 .. MaxHeight : Reorganisation(h)
          \/ \E t \in Tx, h \in 0 .. MaxHeight, current \in BOOLEAN : AnnounceTransaction(t, h, current)
      OBVIOUS
    <2> QED BY <2>3, <2>4, <2>5, <2>6, <2>7, <2>8
  <1>3. TypedToo'
    BY <1>1 DEF TInv, TypedToo
  <1>4. \A t \in Tx : submits'[t] = 0 => submits[t] = 0 /\ Idle(t)'
    BY <1>1 DEF TInv, Unasked, Idle
  <1> QED BY <1>1, <1>2, <1>3, <1>4, CallFollows

\* The user submits, to the client or the peers or to nobody.
LEMMA SubmitsFollow ==
    ASSUME IInv, TInv, NEW t \in Tx, SubmitOffline(t) \/ SubmitToClient(t) \/ PublishTx(t)
    PROVE  TInv'
  <1>1. /\ Running /\ submits' = [submits EXCEPT ![t] = @ + 1]
        /\ UNCHANGED <<record, transfer, failed, answers>>
    BY DEF SubmitOffline, SubmitToClient, PublishTx, Submits, Room, book, process
  <1>2. /\ submits \in [Tx -> Nat] /\ submits' \in [Tx -> Nat] /\ submits'[t] # 0
        /\ \A s \in Tx : s # t => submits'[s] = submits[s]
    BY <1>1 DEF TInv, TypedToo
  <1>3. /\ published' \in [Tx -> {"no", "listed", "pending"}] /\ requests' \subseteq requests \cup {t}
        /\ \A s \in Tx : s # t => published'[s] = published[s]
    BY DEF SubmitOffline, SubmitToClient, PublishTx, TInv, TypedToo
  <1>4. \E v : Answers(v, {t}) /\ queue' = queue \o v
    <2>1. CASE SubmitOffline(t)
      BY <2>1, SubmitAnswers DEF SubmitOffline, Signal
    <2>2. CASE SubmitToClient(t) \/ PublishTx(t)
      <3>1. queue' = queue /\ queue \in Seq(Events)
        BY <2>2 DEF SubmitToClient, PublishTx, IInv, Typed
      <3> QED BY <3>1, NothingAnswers, ConcatEmptySeq
    <2> QED BY <2>1, <2>2
  <1>5. ASSUME NEW s \in Tx, submits'[s] = 0
        PROVE  submits[s] = 0 /\ Idle(s)'
    <2>1. s # t /\ submits[s] = 0 /\ Idle(s)
      BY <1>1, <1>2, <1>5 DEF TInv, Unasked
    <2> QED BY <1>1, <1>3, <2>1 DEF Idle
  <1>6. TypedToo'
    BY <1>1, <1>2, <1>3 DEF TInv, TypedToo
  <1>7. \A s \in {t} \cap Tx : submits'[s] # 0
    BY <1>2
  <1> QED BY <1>1, <1>4, <1>5, <1>6, <1>7, CallFollows

\* What was submitted is answered.
LEMMA AnswersFollow ==
    ASSUME IInv, TInv,
           \/ \E t \in Tx : PublishFails(t)
           \/ \E a \in answers : TxPublished(a)
           \/ \E t \in Tx, error \in BOOLEAN : AnnounceSubmit(t, error)
    PROVE  TInv'
  <1>1. Running /\ UNCHANGED <<record, transfer, failed, submits>>
    BY DEF PublishFails, TxPublished, AnnounceSubmit, Peers, Room, book, process
  <1>2. PICK t \in Tx : /\ submits[t] # 0 /\ requests' \subseteq requests
                        /\ published' \in [Tx -> {"no", "listed", "pending"}]
                        /\ \A s \in Tx : published'[s] = "pending" => published[s] = "pending"
                        /\ \A a \in answers' : a \in answers \/ a.tx = t
                        /\ \E v : Answers(v, {t}) /\ queue' = queue \o v
    <2>1. ASSUME NEW t \in Tx, PublishFails(t)
          PROVE  /\ submits[t] # 0 /\ requests' \subseteq requests
                 /\ published' \in [Tx -> {"no", "listed", "pending"}]
                 /\ \A s \in Tx : published'[s] = "pending" => published[s] = "pending"
                 /\ \A a \in answers' : a \in answers \/ a.tx = t
                 /\ \E v : Answers(v, {t}) /\ queue' = queue \o v
      <3>1. submits[t] # 0
        BY <1>1, <2>1 DEF PublishFails, TInv, Unasked, Idle
      <3>2. requests' = requests /\ queue' = queue /\ queue \in Seq(Events)
        BY <2>1 DEF PublishFails, IInv, Typed
      <3>3. /\ published' \in [Tx -> {"no", "listed", "pending"}]
            /\ \A s \in Tx : published'[s] = "pending" => published[s] = "pending"
        BY <2>1 DEF PublishFails, TInv, TypedToo
      <3>4. \A a \in answers' : a \in answers \/ a.tx = t
        <4> DEFINE b == [tx |-> t, outcome |-> "given up"]
        <4>1. answers' = answers \cup {b} /\ b.tx = t
          BY <2>1 DEF PublishFails
        <4> HIDE DEF b
        <4> QED BY <4>1
      <3> QED BY <3>1, <3>2, <3>3, <3>4, NothingAnswers, ConcatEmptySeq
    <2>2. ASSUME NEW a \in answers, TxPublished(a)
          PROVE  /\ a.tx \in Tx /\ submits[a.tx] # 0 /\ requests' \subseteq requests
                 /\ published' \in [Tx -> {"no", "listed", "pending"}]
                 /\ \A s \in Tx : published'[s] = "pending" => published[s] = "pending"
                 /\ \A b \in answers' : b \in answers \/ b.tx = a.tx
                 /\ \E v : Answers(v, {a.tx}) /\ queue' = queue \o v
      <3>1. a.tx \in Tx
        BY DEF IInv, Typed
      <3>2. submits[a.tx] # 0
        BY <1>1, <3>1 DEF TInv, Unasked, Idle
      <3>3. /\ requests' = requests /\ published' = published /\ answers' \subseteq answers
            /\ queue' = queue \o SubmitEvent(a.tx, a.outcome # "relayed")
        BY <2>2 DEF TxPublished, Signal
      <3>4. Answers(SubmitEvent(a.tx, a.outcome # "relayed"), {a.tx})
        BY <3>1, SubmitAnswers
      <3> QED BY <3>1, <3>2, <3>3, <3>4 DEF TInv, TypedToo
    <2>3. ASSUME NEW t \in Tx, NEW error \in BOOLEAN, AnnounceSubmit(t, error)
          PROVE  /\ submits[t] # 0 /\ requests' \subseteq requests
                 /\ published' \in [Tx -> {"no", "listed", "pending"}]
                 /\ \A s \in Tx : published'[s] = "pending" => published[s] = "pending"
                 /\ \A a \in answers' : a \in answers \/ a.tx = t
                 /\ \E v : Answers(v, {t}) /\ queue' = queue \o v
      <3>1. submits[t] # 0
        BY <1>1, <2>3 DEF AnnounceSubmit, TInv, Unasked, Idle
      <3>2. requests' \subseteq requests /\ answers' = answers /\ published' = published
        BY <2>3 DEF AnnounceSubmit
      <3>3. PICK n \in {"Rejected", "Submitted"} : queue' = queue \o <<Event(n, t, 0)>>
        BY <2>3 DEF AnnounceSubmit, Signal
      <3>4. Answers(<<Event(n, t, 0)>>, {t})
        <4>1. n \in SubmitEvents /\ 0 \in Nat
          BY <3>3 DEF SubmitEvents
        <4> QED BY <4>1, OneAnswers
      <3> QED BY <3>1, <3>2, <3>3, <3>4 DEF TInv, TypedToo
    <2>4. CASE \E t \in Tx : PublishFails(t)
      BY <2>1, <2>4
    <2>5. CASE \E a \in answers : TxPublished(a)
      BY <2>2, <2>5
    <2>6. CASE \E t \in Tx, error \in BOOLEAN : AnnounceSubmit(t, error)
      BY <2>3, <2>6
    <2> QED BY <2>4, <2>5, <2>6
  <1>3. PICK v : Answers(v, {t}) /\ queue' = queue \o v
    BY <1>2
  <1>4. ASSUME NEW s \in Tx, submits'[s] = 0
        PROVE  submits[s] = 0 /\ Idle(s)'
    <2>1. s # t /\ submits[s] = 0 /\ Idle(s)
      BY <1>1, <1>2, <1>4 DEF TInv, Unasked
    <2> QED BY <1>2, <2>1 DEF Idle
  <1>5. TypedToo'
    BY <1>1, <1>2 DEF TInv, TypedToo
  <1>6. \A s \in {t} \cap Tx : submits'[s] # 0
    BY <1>1, <1>2
  <1> QED BY <1>1, <1>3, <1>4, <1>5, <1>6, CallFollows

\* Steps that signal nothing.
LEMMA AsidesFollow ==
    ASSUME IInv, TInv, (\E t \in Tx : Accepted(t)) \/ SetMode \/ UNCHANGED vars
    PROVE  TInv'
  <1>1. /\ UNCHANGED <<record, transfer, failed, submits, requests, answers, queue>>
        /\ published' = published \/ published' = [t \in Tx |-> "no"]
    BY DEF Accepted, SetMode, vars, book, submission, process
  <1>2. TypedToo'
    BY <1>1 DEF TInv, TypedToo
  <1>3. Running => \A t \in Tx : submits'[t] = 0 => submits[t] = 0 /\ Idle(t)'
    BY <1>1 DEF TInv, Unasked, Idle
  <1>4. Answers(<<>>, {}) /\ queue' = queue \o <<>>
    <2>1. queue \in Seq(Events)
      BY DEF IInv, Typed
    <2> QED BY <1>1, <2>1, NothingAnswers, ConcatEmptySeq
  <1> QED BY <1>1, <1>2, <1>3, <1>4, CallFollows

-----------------------------------------------------------------------------
\* An event about the transfer of t alone comes after q.
LEMMA OneShown ==
    ASSUME NEW n \in TransferEvents, NEW t \in Tx, NEW h \in Nat
    PROVE  /\ Event(n, t, h) \in Events /\ Event(n, t, h).tx = t /\ Event(n, t, h).name = n
           /\ Event(n, t, h).height = h /\ <<Event(n, t, h)>> \in Seq(Events)
           /\ \A s \in Tx : /\ s # t => Mute(<<Event(n, t, h)>>, s)
                            /\ NoneOf(<<Event(n, t, h)>>, s, SubmitEvents)
  <1>1. n \in Names /\ n \notin SubmitEvents
    BY NamesApart
  <1>2. Event(n, t, h) \in Events
    BY <1>1 DEF Event, Events
  <1> QED BY <1>1, <1>2 DEF Event, Mute, NoneOf

\* Its record becomes r, and what is signalled, v, is about it alone.
LEMMA RecordFollows ==
    ASSUME IInv, TInv, NEW q \in Seq(Events), Follows(q),
           NEW t \in Tx, NEW r, record' = [record EXCEPT ![t] = r],
           UNCHANGED <<transfer, published, answers, requests, submits>>, AssertionsKept',
           NEW v \in Seq(Events), queue' = q \o v,
           \A s \in Tx : (s # t => Mute(v, s)) /\ NoneOf(v, s, SubmitEvents),
           Running' => Shown(q \o v, r, transfer[t], submits[t], t)
    PROVE  TInv'
  <1>1. TypedToo'
    BY DEF TInv, TypedToo
  <1>2. record \in [Tx -> Records]
    BY DEF IInv, Typed
  <1>3. ASSUME Running', NEW s \in Tx
        PROVE  Shown(queue', record'[s], transfer'[s], submits'[s], s)
    <2>1. CASE s = t
      BY <1>2, <1>3, <2>1
    <2>2. CASE s # t
      <3>1. Shown(q, record[s], transfer[s], submits[s], s) /\ Mute(v, s)
        BY <2>2 DEF Follows
      <3>2. Shown(q \o v, record[s], transfer[s], submits[s], s)
        BY <3>1, MuteAppended
      <3> QED BY <1>2, <2>2, <3>2
    <2> QED BY <2>1, <2>2
  <1>4. ASSUME NEW s \in Tx
        PROVE  Unasked(queue, s)'
    <2>1. Unasked(q, s) /\ NoneOf(v, s, SubmitEvents)
      BY DEF Follows
    <2>2. submits[s] = 0 => Idle(s)' /\ NoneOf(queue', s, SubmitEvents)
      BY <2>1, NoneAppended DEF Unasked, Idle
    <2> QED BY <2>2 DEF Unasked
  <1> QED BY <1>1, <1>3, <1>4 DEF TInv

\* Create, Sign
LEMMA MakingFollows ==
    ASSUME IInv, TInv, NEW t \in Tx, Create(t) \/ Sign(t)
    PROVE  TInv'
  <1>1. /\ Running /\ UNCHANGED <<transfer, failed, published, answers, requests, submits>>
    BY DEF Create, Sign, Room, submission, process
  <1>2. /\ queue \in Seq(Events) /\ Follows(queue) /\ record \in [Tx -> Records]
        /\ record[t] \in Records
    BY <1>1 DEF IInv, Typed, TInv, Follows
  <1>3. Shown(queue, record[t], transfer[t], submits[t], t)
    BY <1>2 DEF Follows
  <1>4. AssertionsKept'
    BY <1>1 DEF TInv, AssertionsKept
  <1>5. CASE Create(t)
    <2> DEFINE r == [record[t] EXCEPT !.is = "unsigned"]
               y == Event("CREATED", t, 0)
    <2>1. /\ record[t].is = "none" /\ r.is = "unsigned" /\ record' = [record EXCEPT ![t] = r]
          /\ queue' = queue \o <<y>>
      BY <1>2, <1>5 DEF Create, Signal, Records
    <2>2. /\ y \in Events /\ y.tx = t /\ y.name = "CREATED" /\ <<y>> \in Seq(Events)
          /\ \A s \in Tx : (s # t => Mute(<<y>>, s)) /\ NoneOf(<<y>>, s, SubmitEvents)
      BY OneShown DEF TransferEvents
    <2> HIDE DEF r, y
    <2>3. \A n : ~Within(n, record[t])
      BY <2>1 DEF Within
    <2>4. Settled(record[t], transfer[t], submits[t]) => Ready(y.name, transfer[t])
      BY <2>1, <2>2 DEF Settled, Ready
    <2>5. Within(y.name, r) /\ Closes(y, r) /\ y.name \in TransferEvents
      BY <2>1, <2>2 DEF Within, Closes, TransferEvents
    <2>6. Shown(queue \o <<y>>, r, transfer[t], submits[t], t)
      BY <1>2, <1>3, <2>2, <2>3, <2>4, <2>5, ShowsOne
    <2> QED BY <1>1, <1>2, <1>4, <2>1, <2>2, <2>6, RecordFollows
  <1>6. CASE Sign(t)
    <2> DEFINE r == [record[t] EXCEPT !.is = "signed"]
               y == Event("SIGNED", t, 0)
    <2>1. /\ record[t].is = "unsigned" /\ r.is = "signed" /\ r.refed = record[t].refed
          /\ record' = [record EXCEPT ![t] = r] /\ queue' = queue \o <<y>>
      BY <1>2, <1>6 DEF Sign, Signal, Records
    <2>2. /\ y \in Events /\ y.tx = t /\ y.name = "SIGNED" /\ <<y>> \in Seq(Events)
          /\ \A s \in Tx : (s # t => Mute(<<y>>, s)) /\ NoneOf(<<y>>, s, SubmitEvents)
      BY OneShown DEF TransferEvents
    <2>3. ~record[t].refed
      <3>1. Recorded(queue, wallet, record[t], t)
        BY <1>1 DEF IInv, Fits
      <3> QED BY <2>1, <3>1 DEF Recorded
    <2> HIDE DEF r, y
    <2>4. \A n \in TransferEvents : Within(n, record[t]) => Before(n, y.name) /\ Within(n, r)
      BY <2>1, <2>2, <2>3 DEF Within, Before
    <2>5. Settled(record[t], transfer[t], submits[t]) => Ready(y.name, transfer[t])
      BY <2>1, <2>2 DEF Settled, Ready
    <2>6. Within(y.name, r) /\ Closes(y, r) /\ y.name \in TransferEvents
      BY <2>1, <2>2, <2>3 DEF Within, Closes, TransferEvents
    <2>7. Shown(queue \o <<y>>, r, transfer[t], submits[t], t)
      BY <1>2, <1>3, <2>2, <2>4, <2>5, <2>6, ShowsOne
    <2> QED BY <1>1, <1>2, <1>4, <2>1, <2>2, <2>7, RecordFollows
  <1> QED BY <1>5, <1>6

LEMMA PairIs ==
    ASSUME NEW a \in Events, NEW b \in Events
    PROVE  <<a, b>> = <<a>> \o <<b>>
  <1> DEFINE p == <<a, b>>
             q == <<a>> \o <<b>>
  <1>1. p \in Seq(Events) /\ Len(p) = 2 /\ p[1] = a /\ p[2] = b
    OBVIOUS
  <1>2. q \in Seq(Events) /\ Len(q) = 2 /\ q[1] = a /\ q[2] = b
    OBVIOUS
  <1> HIDE DEF p, q
  <1>3. \A i \in 1 .. Len(p) : i = 1 \/ i = 2
    BY <1>1
  <1>4. p = q
    BY <1>1, <1>2, <1>3, SeqEqual
  <1> QED BY <1>4 DEF p, q

\* bwmHandleTxAdded: the addition is announced, then the record's height.
LEMMA TxAddedFollows ==
    ASSUME IInv, TInv, TxAdded
    PROVE  TInv'
  <1> DEFINE t == e.tx
             q == Tail(queue)
             r == [is |-> "signed", refed |-> TRUE, height |-> e.height]
             a == Event("ADDED", t, 0)
             b == Event("UPDATED", t, e.height)
             x == transfer[t]
  <1>1. /\ Handles("TxAdded") /\ Handles(e.name) /\ "TxAdded" \in WalletEvents /\ e.name \notin TransferEvents
    BY DEF TxAdded, Handles, WalletEvents, TransferEvents
  <1>2. /\ queue \in Seq(Events) /\ queue # <<>> /\ e = Head(queue) /\ t \in Tx /\ e.height \in Nat
        /\ Running /\ Fits(queue, wallet, record) /\ e.name = "TxAdded"
    BY <1>1, Handling
  <1>3. q \in Seq(Events) /\ Follows(q)
    BY <1>1, RestFollows
  <1>4. record[t].is # "deleted" /\ ~record[t].refed /\ record[t] \in Records
    <2>1. Recorded(queue, wallet, record[t], t) /\ record[t] \in Records
      BY <1>2 DEF Fits, IInv, Typed
    <2>2. Tells(queue, 1, t) /\ queue[1].name = "TxAdded" /\ 1 \in 1 .. Len(queue)
      BY <1>1, <1>2, Taken1 DEF Tells
    <2>3. Adds(queue, t)
      BY <2>2 DEF Adds
    <2> QED BY <2>1, <2>3 DEF Recorded
  <1>5. /\ failed' = failed /\ record' = [record EXCEPT ![t] = r]
        /\ UNCHANGED <<transfer, published, answers, requests, submits>>
    BY <1>4 DEF TxAdded, Asserts, submission
  <1>6. queue' = q \o <<a, b>>
    BY DEF TxAdded, Handled
  <1>7. AssertionsKept'
    BY <1>5 DEF TInv, AssertionsKept
  <1>8. /\ a \in Events /\ a.tx = t /\ a.name = "ADDED" /\ <<a>> \in Seq(Events)
        /\ \A s \in Tx : (s # t => Mute(<<a>>, s)) /\ NoneOf(<<a>>, s, SubmitEvents)
    BY <1>2, OneShown DEF TransferEvents
  <1>9. /\ b \in Events /\ b.tx = t /\ b.name = "UPDATED" /\ b.height = e.height /\ <<b>> \in Seq(Events)
        /\ \A s \in Tx : (s # t => Mute(<<b>>, s)) /\ NoneOf(<<b>>, s, SubmitEvents)
    BY <1>2, OneShown DEF TransferEvents
  <1>10. Shown(q, record[t], x, submits[t], t)
    BY <1>2, <1>3 DEF Follows
  <1>11. r.is = "signed" /\ r.refed /\ r.height = e.height
    OBVIOUS
  <1> HIDE DEF t, q, r, a, b, x
  <1>12. "ADDED" \in TransferEvents /\ "UPDATED" \in TransferEvents
    BY DEF TransferEvents
  <1> DEFINE p == q \o <<a>>
  <1>13. p \in Seq(Events) /\ ~Mute(p, t) /\ Ordered(p, t) /\ Starts(p, t, x) /\ Bounded(p, t, r)
    <2>1. \A n \in TransferEvents : Within(n, record[t]) => n \in {"CREATED", "SIGNED"}
      BY <1>4 DEF Within, Records
    <2>2. \A i \in 1 .. Len(q) : Shows(q, i, t) => q[i].name \in {"CREATED", "SIGNED"}
      BY <1>10, <2>1 DEF Shown, Bounded, Shows
    <2>3. /\ \A n \in {"CREATED", "SIGNED"} : Before(n, a.name) /\ Within(n, r)
          /\ Within(a.name, r) /\ Ready(a.name, x)
      BY <1>8, <1>11 DEF Before, Within, Ready
    <2>4. Bounded(q, t, r)
      BY <2>2, <2>3 DEF Bounded
    <2>5. Ordered(q, t) /\ Starts(q, t, x)
      BY <1>10 DEF Shown
    <2> QED BY <1>2, <1>3, <1>8, <1>12, <2>2, <2>3, <2>4, <2>5, ShowAppended DEF t
  <1> HIDE DEF p
  <1>14. Shown(p \o <<b>>, r, x, submits[t], t)
    <2>1. \A n \in TransferEvents : Within(n, r) => Before(n, b.name)
      BY <1>9, <1>11 DEF Within, Before, TransferEvents
    <2>2. \A i \in 1 .. Len(p) : Shows(p, i, t) => Before(p[i].name, b.name)
      BY <1>13, <2>1 DEF Bounded, Shows
    <2>3. Within(b.name, r) /\ Closes(b, r)
      BY <1>9, <1>11 DEF Within, Closes
    <2>4. /\ Ordered(p \o <<b>>, t) /\ Starts(p \o <<b>>, t, x) /\ Bounded(p \o <<b>>, t, r)
          /\ Stops(p \o <<b>>, t, r) /\ ~Mute(p \o <<b>>, t)
      BY <1>2, <1>9, <1>12, <1>13, <2>2, <2>3, ShowAppended DEF t
    <2> QED BY <2>4 DEF Shown
  <1>15. p \o <<b>> = q \o <<a, b>> /\ <<a, b>> = <<a>> \o <<b>> /\ <<a, b>> \in Seq(Events)
    <2>1. <<a, b>> = <<a>> \o <<b>>
      BY <1>8, <1>9, PairIs
    <2>2. (q \o <<a>>) \o <<b>> = q \o (<<a>> \o <<b>>)
      BY <1>3, <1>8, <1>9, ConcatAssociative
    <2> QED BY <1>8, <1>9, <2>1, <2>2 DEF p
  <1>16. \A s \in Tx : (s # t => Mute(<<a, b>>, s)) /\ NoneOf(<<a, b>>, s, SubmitEvents)
    BY <1>8, <1>9, <1>15, NoneAppended DEF Mute
  <1> QED BY <1>2, <1>3, <1>5, <1>6, <1>7, <1>14, <1>15, <1>16, RecordFollows DEF t, x

\* bwmHandleTxUpdated, bwmHandleTxDeleted
LEMMA TxChangedFollows ==
    ASSUME IInv, TInv, TxUpdated \/ TxDeleted
    PROVE  TInv'
  <1> DEFINE t == e.tx
             q == Tail(queue)
             x == transfer[t]
  <1>1. /\ Handles(e.name) /\ e.name \in {"TxUpdated", "TxDeleted"} /\ e.name \notin TransferEvents
        /\ UNCHANGED <<transfer, published, answers, requests, submits>>
        /\ failed' = IF record[t].is = "signed" THEN failed ELSE "recorded"
    BY DEF TxUpdated, TxDeleted, Handles, TransferEvents, Asserts, submission
  <1>2. /\ queue \in Seq(Events) /\ queue # <<>> /\ e = Head(queue) /\ t \in Tx /\ e.height \in Nat
        /\ Running /\ Fits(queue, wallet, record)
    BY <1>1, Handling
  <1>3. q \in Seq(Events) /\ Follows(q)
    BY <1>1, RestFollows
  <1>4. record \in [Tx -> Records] /\ record[t] \in Records
    BY <1>2 DEF IInv, Typed
  <1>5. AssertionsKept'
    BY <1>1 DEF TInv, AssertionsKept
  <1>6. Running' => record[t].is = "signed"
    BY <1>1 DEF Running
  <1>7. record[t].is = "signed" => record[t].refed
    <2>1. Recorded(queue, wallet, record[t], t)
      BY <1>2 DEF Fits
    <2>2. Tells(queue, 1, t) /\ queue[1].name # "TxAdded" /\ 1 \in 1 .. Len(queue) /\ Len(queue) \in Nat
      BY <1>1, <1>2, Taken1 DEF Tells, WalletEvents
    <2>3. ~Adds(queue, t)
      <3>1. ASSUME NEW i \in 1 .. Len(queue), Tells(queue, i, t), queue[i].name = "TxAdded"
            PROVE  FALSE
        <4>1. i <= 1
          BY <2>1, <2>2, <3>1 DEF Recorded, AddsFirst
        <4>2. i = 1
          BY <2>2, <4>1
        <4> QED BY <2>2, <3>1, <4>2
      <3> QED BY <3>1 DEF Adds
    <2>4. ~Silent(queue, t)
      BY <2>2 DEF Silent
    <2> QED BY <2>1, <2>3, <2>4 DEF Recorded
  <1>8. Shown(q, record[t], x, submits[t], t)
    BY <1>2, <1>3 DEF Follows
  <1>9. "UPDATED" \in TransferEvents /\ "DELETED" \in TransferEvents /\ 0 \in Nat
    BY DEF TransferEvents
  <1>10. CASE TxUpdated
    <2> DEFINE r == [record[t] EXCEPT !.height = e.height]
               y == Event("UPDATED", t, e.height)
    <2>1. /\ record' = [record EXCEPT ![t] = r] /\ queue' = q \o <<y>>
          /\ r.is = record[t].is /\ r.refed = record[t].refed /\ r.height = e.height
      BY <1>4, <1>10 DEF TxUpdated, Handled, Records
    <2>2. /\ y \in Events /\ y.tx = t /\ y.name = "UPDATED" /\ y.height = e.height /\ <<y>> \in Seq(Events)
          /\ \A s \in Tx : (s # t => Mute(<<y>>, s)) /\ NoneOf(<<y>>, s, SubmitEvents)
      BY <1>2, <1>9, OneShown
    <2> HIDE DEF r, y, t, q, x
    <2>3. ASSUME record[t].is = "signed"
          PROVE  Shown(q \o <<y>>, r, x, submits[t], t)
      <3>1. record[t].refed
        BY <1>7, <2>3
      <3>2. \A n \in TransferEvents : Within(n, record[t]) => Before(n, y.name) /\ Within(n, r)
        BY <2>1, <2>2, <2>3, <3>1 DEF Within, Before, TransferEvents
      <3>3. Settled(record[t], x, submits[t]) => Ready(y.name, x)
        BY <2>2, <2>3 DEF Settled, Ready
      <3>4. Within(y.name, r) /\ Closes(y, r)
        BY <2>1, <2>2, <2>3, <3>1 DEF Within, Closes
      <3> QED BY <1>2, <1>3, <1>8, <1>9, <2>2, <3>2, <3>3, <3>4, ShowsOne DEF t
    <2> QED BY <1>1, <1>2, <1>3, <1>5, <1>6, <2>1, <2>2, <2>3, RecordFollows DEF t, x
  <1>11. CASE TxDeleted
    <2> DEFINE r == [record[t] EXCEPT !.is = "deleted"]
               y == Event("DELETED", t, 0)
    <2>1. /\ record' = [record EXCEPT ![t] = r] /\ queue' = q \o <<y>> /\ r.is = "deleted"
      BY <1>4, <1>11 DEF TxDeleted, Handled, Records
    <2>2. /\ y \in Events /\ y.tx = t /\ y.name = "DELETED" /\ <<y>> \in Seq(Events)
          /\ \A s \in Tx : (s # t => Mute(<<y>>, s)) /\ NoneOf(<<y>>, s, SubmitEvents)
      BY <1>2, <1>9, OneShown
    <2> HIDE DEF r, y, t, q, x
    <2>3. ASSUME record[t].is = "signed"
          PROVE  Shown(q \o <<y>>, r, x, submits[t], t)
      <3>1. record[t].refed
        BY <1>7, <2>3
      <3>2. \A n \in TransferEvents : Within(n, record[t]) => Before(n, y.name) /\ Within(n, r)
        BY <2>1, <2>2, <2>3, <3>1 DEF Within, Before, TransferEvents
      <3>3. Settled(record[t], x, submits[t]) => Ready(y.name, x)
        BY <2>2, <2>3 DEF Settled, Ready
      <3>4. Within(y.name, r) /\ Closes(y, r)
        BY <2>1, <2>2 DEF Within, Closes
      <3> QED BY <1>2, <1>3, <1>8, <1>9, <2>2, <3>2, <3>3, <3>4, ShowsOne DEF t
    <2> QED BY <1>1, <1>2, <1>3, <1>5, <1>6, <2>1, <2>2, <2>3, RecordFollows DEF t, x
  <1> QED BY <1>10, <1>11

-----------------------------------------------------------------------------
\* The transfer of t becomes y when the first event, about it, is taken.
LEMMA TransferFollows ==
    ASSUME IInv, TInv, Handles(e.name), NEW y \in States,
           transfer' = [transfer EXCEPT ![e.tx] = y],
           UNCHANGED <<record, published, answers, requests, submits>>, AssertionsKept',
           queue' = Tail(queue),
           \A s \in Tx : s # e.tx => ~Shows(queue, 1, s),
           Running' => Shown(Tail(queue), record[e.tx], y, submits[e.tx], e.tx)
    PROVE  TInv'
  <1>1. queue \in Seq(Events) /\ queue # <<>> /\ Running
    BY Handling
  <1>2. TypedToo'
    BY DEF TInv, TypedToo
  <1>3. ASSUME Running', NEW s \in Tx
        PROVE  Shown(queue', record'[s], transfer'[s], submits'[s], s)
    <2>1. CASE s = e.tx
      BY <1>3, <2>1 DEF TInv, TypedToo
    <2>2. CASE s # e.tx
      <3>1. Shown(queue, record[s], transfer[s], submits[s], s) /\ ~Shows(queue, 1, s)
        BY <1>1, <2>2 DEF TInv
      <3>2. Shown(Tail(queue), record[s], transfer[s], submits[s], s)
        BY <1>1, <3>1, TailShows
      <3>3. transfer'[s] = transfer[s]
        BY <2>2 DEF TInv, TypedToo
      <3> QED BY <3>2, <3>3
    <2> QED BY <2>1, <2>2
  <1>4. ASSUME NEW s \in Tx
        PROVE  Unasked(queue, s)'
    <2>1. Unasked(queue, s)
      BY <1>1 DEF TInv
    <2>2. submits[s] = 0 => Idle(s)' /\ NoneOf(queue', s, SubmitEvents)
      BY <1>1, <2>1, NoneLeft DEF Unasked, Idle
    <2> QED BY <2>2 DEF Unasked
  <1> QED BY <1>2, <1>3, <1>4 DEF TInv

\* cwmTransactionEventAsBTC: the events of a transfer find it as they demand,
\* and leave it as the next one does.
LEMMA TransferStepFollows ==
    ASSUME IInv, TInv, TransferStep
    PROVE  TInv'
  <1> DEFINE t == e.tx
             x == transfer[t]
             r == record[t]
             q == Tail(queue)
             y == IF e.name = "CREATED" THEN "CREATED"
                  ELSE IF e.name = "SIGNED" THEN "SIGNED"
                  ELSE IF e.name = "ADDED" THEN (IF x = "none" THEN "CREATED" ELSE x)
                  ELSE IF e.name = "UPDATED" THEN StateAt(x, e.height)
                  ELSE "none"
  <1>1. /\ Handles(e.name) /\ e.name \in TransferEvents
        /\ UNCHANGED <<record, published, answers, requests, submits>>
        /\ transfer' = [transfer EXCEPT ![t] = y] /\ queue' = q \o <<>>
    BY DEF TransferStep, Handles, TransferEvents, Handled, submission
  <1>2. /\ e.name = "CREATED" => failed' = IF x = "none" THEN failed ELSE "found"
        /\ e.name = "SIGNED" => failed' = IF x \notin {"none", "SIGNED"} THEN failed ELSE "found"
        /\ e.name = "ADDED" => failed' = failed
        /\ e.name \in {"UPDATED", "DELETED"} => failed' = IF x # "none" THEN failed ELSE "found"
    BY DEF TransferStep, Handles, Asserts
  <1>3. /\ queue \in Seq(Events) /\ queue # <<>> /\ e = queue[1] /\ t \in Tx /\ e.height \in Nat
        /\ Running /\ q \in Seq(Events)
    BY <1>1, Handling, Taken1
  <1>4. queue' = q
    BY <1>1, <1>3, ConcatEmptySeq
  <1>5. Shown(queue, r, x, submits[t], t) /\ Shows(queue, 1, t) /\ x \in States
    BY <1>1, <1>3 DEF TInv, TypedToo, Shows
  <1>6. y \in States
    BY <1>5 DEF States, StateAt
  <1>7. \A s \in Tx : s # t => ~Shows(queue, 1, s)
    BY <1>3 DEF Shows
  <1>8. /\ Ready(e.name, x) /\ Within(e.name, r)
        /\ Ordered(q, t) /\ Bounded(q, t, r) /\ Stops(q, t, r)
        /\ Mute(q, t) => Closes(e, r)
        /\ (\A n \in TransferEvents : Before(e.name, n) => Ready(n, y)) => Starts(q, t, y)
    BY <1>3, <1>5, TailShows
  <1>9. failed' = failed
    BY <1>1, <1>2, <1>8 DEF Ready, TransferEvents
  <1>10. AssertionsKept'
    BY <1>9 DEF TInv, AssertionsKept
  <1>11. Starts(q, t, y)
    <2>1. StateAt(x, e.height) # "none"
      BY DEF StateAt
    <2>2. /\ e.name # "DELETED" => y # "none"
          /\ e.name = "CREATED" => y # "SIGNED"
      BY <1>1, <2>1 DEF TransferEvents
    <2>3. \A n \in TransferEvents : Before(e.name, n) => Ready(n, y)
      <3> HIDE DEF y
      <3> QED BY <2>2 DEF Before, Ready
    <2> HIDE DEF y
    <2> QED BY <1>8, <2>3
  <1>12. Mute(q, t) => Settled(r, y, submits[t])
    <2> SUFFICES ASSUME Closes(e, r)
                 PROVE  Settled(r, y, submits[t])
      BY <1>8
    <2>1. CASE r.is = "unsigned" /\ e.name = "CREATED"
      BY <2>1 DEF Settled
    <2>2. CASE r.is = "signed" /\ ~r.refed /\ e.name = "SIGNED"
      BY <2>2 DEF Settled
    <2>3. CASE r.is = "signed" /\ r.refed /\ e.name = "UPDATED" /\ e.height = r.height
      <3>1. y = StateAt(y, r.height) /\ y # "none"
        BY <2>3 DEF StateAt
      <3> HIDE DEF y
      <3> QED BY <2>3, <3>1 DEF Settled
    <2>4. CASE r.is = "deleted" /\ e.name = "DELETED"
      BY <2>4 DEF Settled
    <2> QED BY <2>1, <2>2, <2>3, <2>4 DEF Closes
  <1> HIDE DEF y
  <1>13. Shown(q, r, y, submits[t], t)
    BY <1>8, <1>11, <1>12 DEF Shown
  <1> QED BY <1>1, <1>4, <1>6, <1>7, <1>10, <1>13, TransferFollows

\* cwmWalletEventAsBTC: only what was submitted is answered.
LEMMA SubmitAnsweredFollows ==
    ASSUME IInv, TInv, SubmitAnswered
    PROVE  TInv'
  <1> DEFINE t == e.tx
             x == transfer[t]
             r == record[t]
             q == Tail(queue)
  <1>1. /\ Handles(e.name) /\ e.name \in {"SUBMIT_SUCCEEDED", "SUBMIT_FAILED"}
        /\ UNCHANGED <<record, published, answers, requests, submits>>
        /\ queue' = q \o <<>>
    BY DEF SubmitAnswered, Handles, Handled, submission
  <1>2. PICK y \in {"SUBMITTED", "ERRORED"} : transfer' = [transfer EXCEPT ![t] = y]
    BY DEF SubmitAnswered
  <1>3. /\ failed' \in {failed, "answered", "submitted"}
        /\ x = "none" => failed' # failed
    BY <1>1 DEF SubmitAnswered, Asserts, Handles, Running
  <1>4. /\ queue \in Seq(Events) /\ queue # <<>> /\ e = queue[1] /\ t \in Tx
        /\ Running /\ q \in Seq(Events)
    BY <1>1, Handling, Taken1
  <1>5. queue' = q
    BY <1>1, <1>4, ConcatEmptySeq
  <1>6. e.name \notin TransferEvents /\ e.name \in SubmitEvents
    BY <1>1 DEF TransferEvents, SubmitEvents
  <1>7. AssertionsKept'
    BY <1>3 DEF TInv, AssertionsKept
  <1>8. \A s \in Tx : ~Shows(queue, 1, s)
    BY <1>4, <1>6 DEF Shows
  <1>9. submits[t] # 0
    <2>1. Unasked(queue, t)
      BY <1>4 DEF TInv
    <2> QED BY <1>4, <1>6, <2>1, NoneLeft DEF Unasked
  <1>10. Shown(q, r, x, submits[t], t)
    BY <1>1, <1>4, <1>6, RestFollows DEF Follows
  <1>11. Running' => x # "none"
    BY <1>3, <1>4 DEF Running
  <1>12. ASSUME x # "none"
         PROVE  Shown(q, r, y, submits[t], t)
    <2>1. \A n : Ready(n, x) => Ready(n, y)
      BY <1>2, <1>12 DEF Ready
    <2>2. Starts(q, t, y)
      BY <1>10, <2>1 DEF Starts, Shown
    <2>3. Settled(r, x, submits[t]) => Settled(r, y, submits[t])
      BY <1>2, <1>9, <1>12 DEF Settled
    <2> QED BY <1>10, <2>2, <2>3 DEF Shown
  <1>13. y \in States
    BY <1>2 DEF States
  <1> QED BY <1>1, <1>2, <1>5, <1>7, <1>8, <1>11, <1>12, <1>13, TransferFollows

\* bwmHandleAnnounceSubmit, bwmHandleAnnounceTransaction
LEMMA AnnouncedFollows ==
    ASSUME IInv, TInv, HandleAnnounceSubmit \/ HandleAnnounceTransaction
    PROVE  TInv'
  <1> DEFINE t == e.tx
             q == Tail(queue)
  <1>1. /\ Handles(e.name) /\ e.name \in {"Submitted", "Rejected", "Transaction", "LateTransaction"}
        /\ UNCHANGED <<record, transfer, failed, published, answers, requests, submits>>
    BY DEF HandleAnnounceSubmit, HandleAnnounceTransaction, Handles, book, submission, process
  <1>2. e.name \notin TransferEvents
    BY <1>1 DEF TransferEvents
  <1>3. /\ queue \in Seq(Events) /\ queue # <<>> /\ e = queue[1] /\ t \in Tx /\ e.height \in Nat
        /\ Running /\ WalletTyped(wallet)
    BY <1>1, Handling, Taken1 DEF IInv, Typed
  <1>4. q \in Seq(Events) /\ Follows(q)
    BY <1>1, <1>2, RestFollows
  <1>5. TypedToo'
    BY <1>1 DEF TInv, TypedToo
  <1>6. \A s \in Tx : submits'[s] = 0 => submits[s] = 0 /\ Idle(s)'
    BY <1>1, <1>3 DEF TInv, Unasked, Idle
  <1>7. CASE HandleAnnounceSubmit
    <2> DEFINE success == e.name = "Submitted"
               heard == mode = "API" /\ record[t].is = "signed"
               a == IF success THEN Added(wallet, t) ELSE <<>>
               b == SubmitEvent(t, ~success)
               v == IF ~heard THEN <<>> ELSE a \o b
    <2>1. queue' = q \o v /\ e.name \in {"Submitted", "Rejected"}
      BY <1>7 DEF HandleAnnounceSubmit, Handled, Handles
    <2>2. submits[t] # 0
      <3>1. Unasked(queue, t) /\ e.name \in SubmitEvents
        BY <1>3, <2>1 DEF TInv, SubmitEvents
      <3> QED BY <1>3, <3>1, NoneLeft DEF Unasked
    <2>3. Answers(a, {t})
      BY <1>3, AddedAnswers, NothingAnswers
    <2>4. Answers(b, {t})
      BY <1>3, SubmitAnswers
    <2> HIDE DEF a, b, heard, q, t
    <2>5. Answers(v, {t})
      BY <2>3, <2>4, BothAnswer, NothingAnswers
    <2> HIDE DEF v
    <2>6. \A s \in {t} \cap Tx : submits'[s] # 0
      BY <1>1, <2>2
    <2> QED BY <1>1, <1>4, <1>5, <1>6, <2>1, <2>5, <2>6, CallShows
  <1>8. CASE HandleAnnounceTransaction
    <2> DEFINE w == IF e.name = "Transaction" THEN Registered(wallet, t) ELSE wallet
               txs == Changed(w, {t}, e.height)
               a == IF w = wallet THEN <<>> ELSE Added(wallet, t)
               b == UpdatedEvents(txs, e.height)
               v == IF mode # "API" THEN <<>> ELSE a \o b
    <2>1. queue' = q \o v
      BY <1>8 DEF HandleAnnounceTransaction, Handled
    <2>2. Answers(a, {})
      BY <1>3, AddedAnswers, NothingAnswers
    <2>3. txs \in SUBSET Tx
      BY <1>3 DEF Changed
    <2> HIDE DEF w, txs, a, q, t
    <2>4. Answers(b, {})
      BY <1>3, <2>3, UpdatesAnswer
    <2> HIDE DEF b
    <2>5. Answers(v, {})
      BY <2>2, <2>4, BothAnswer, NothingAnswers
    <2> HIDE DEF v
    <2> QED BY <1>1, <1>4, <1>5, <1>6, <2>1, <2>5, CallShows
  <1> QED BY <1>7, <1>8

-----------------------------------------------------------------------------
\* What a restart signals: of each transaction on file its addition and then its height.
LEMMA Halves ==
    ASSUME NEW i \in Nat, i # 0
    PROVE  LET k == (i + 1) \div 2
           IN  /\ k \in Nat \ {0}
               /\ i % 2 = 1 => i = 2 * k - 1
               /\ i % 2 # 1 => i = 2 * k
  OBVIOUS

LEMMA Doubles ==
    ASSUME NEW k \in Nat, k # 0
    PROVE  /\ ((2 * k - 1) + 1) \div 2 = k /\ (2 * k - 1) % 2 = 1
           /\ (2 * k + 1) \div 2 = k /\ (2 * k) % 2 # 1
  OBVIOUS

LEMMA LoadedTold ==
    ASSUME NEW w \in SUBSET Tx, wallet.height \in [Tx -> Nat], NEW q, q = Loaded(w)
    PROVE  /\ q \in Seq(Events)
           /\ \A i \in 1 .. Len(q) : q[i].name \in {"ADDED", "UPDATED"} /\ q[i].tx \in w
           /\ \A t \in w : \E k \in 1 .. Len(q) :
                 /\ k + 1 \in 1 .. Len(q)
                 /\ q[k] = Event("ADDED", t, 0) /\ q[k + 1] = Event("UPDATED", t, wallet.height[t])
                 /\ \A i \in 1 .. Len(q) : q[i].tx = t => i = k \/ i = k + 1
  <1> DEFINE v == SetToSeq(w)
             c == Cardinality(w)
             n == 2 * c
  <1>1. IsFiniteSet(w)
    BY ConstantsAssumption, FS_Subset
  <1>2. /\ v \in Seq(w) /\ Len(v) = c /\ c \in Nat
        /\ \A i, j \in 1 .. Len(v) : v[i] = v[j] => i = j
        /\ \A x \in w : \E i \in 1 .. Len(v) : v[i] = x
    BY <1>1, SetToSeqIs, FS_CardinalityType
  <1>3. q = [i \in 1 .. n |-> IF i % 2 = 1 THEN Event("ADDED", v[(i + 1) \div 2], 0)
                              ELSE Event("UPDATED", v[(i + 1) \div 2], wallet.height[v[(i + 1) \div 2]])]
    BY DEF Loaded
  <1> HIDE DEF v, c
  <1>4. n \in Nat
    BY <1>2
  <1>5. \A i \in 1 .. n : /\ i \in Nat /\ i # 0 /\ (i + 1) \div 2 \in 1 .. c /\ v[(i + 1) \div 2] \in w
    <2>1. \A i \in 1 .. n : i \in Nat /\ i # 0 /\ (i + 1) \div 2 \in 1 .. c
      BY <1>2
    <2> QED BY <1>2, <2>1
  <1> HIDE DEF n
  <1>6. ASSUME NEW i \in 1 .. n
        PROVE  /\ q[i] = IF i % 2 = 1 THEN Event("ADDED", v[(i + 1) \div 2], 0)
                         ELSE Event("UPDATED", v[(i + 1) \div 2], wallet.height[v[(i + 1) \div 2]])
               /\ q[i].tx = v[(i + 1) \div 2] /\ q[i].tx \in w
               /\ q[i].name \in {"ADDED", "UPDATED"} /\ q[i] \in Events
    <2>1. q[i] = IF i % 2 = 1 THEN Event("ADDED", v[(i + 1) \div 2], 0)
                 ELSE Event("UPDATED", v[(i + 1) \div 2], wallet.height[v[(i + 1) \div 2]])
      BY <1>3
    <2> DEFINE x == v[(i + 1) \div 2]
    <2>2. x \in w /\ x \in Tx /\ wallet.height[x] \in Nat
      BY <1>5
    <2> HIDE DEF x
    <2>0. "ADDED" \in Names /\ "UPDATED" \in Names /\ 0 \in Nat
      BY DEF Names, TransferEvents
    <2>3. /\ Event("ADDED", x, 0) \in Events /\ Event("ADDED", x, 0).tx = x
          /\ Event("ADDED", x, 0).name = "ADDED"
      BY <2>0, <2>2 DEF Event, Events
    <2>4. /\ Event("UPDATED", x, wallet.height[x]) \in Events /\ Event("UPDATED", x, wallet.height[x]).tx = x
          /\ Event("UPDATED", x, wallet.height[x]).name = "UPDATED"
      BY <2>0, <2>2 DEF Event, Events
    <2> QED BY <2>1, <2>2, <2>3, <2>4 DEF x
  <1>7. q \in Seq(Events) /\ Len(q) = n
    <2>1. q = [i \in 1 .. n |-> q[i]]
      BY <1>3
    <2> QED BY <1>4, <1>6, <2>1
  <1>8. ASSUME NEW t \in w
        PROVE  \E k \in 1 .. Len(q) :
                 /\ k + 1 \in 1 .. Len(q)
                 /\ q[k] = Event("ADDED", t, 0) /\ q[k + 1] = Event("UPDATED", t, wallet.height[t])
                 /\ \A i \in 1 .. Len(q) : q[i].tx = t => i = k \/ i = k + 1
    <2>1. PICK m \in 1 .. c : v[m] = t
      BY <1>2
    <2> DEFINE k == 2 * m - 1
    <2>2. /\ m \in Nat /\ m # 0 /\ k \in 1 .. n /\ k + 1 \in 1 .. n /\ k + 1 = 2 * m
      BY <1>2, <2>1 DEF n
    <2>3. (k + 1) \div 2 = m /\ k % 2 = 1 /\ ((k + 1) + 1) \div 2 = m /\ (k + 1) % 2 # 1
      <3>1. ((2 * m - 1) + 1) \div 2 = m /\ (2 * m - 1) % 2 = 1 /\ (2 * m + 1) \div 2 = m /\ (2 * m) % 2 # 1
        BY <2>2, Doubles
      <3> QED BY <2>2, <3>1
    <2>4. q[k] = Event("ADDED", t, 0) /\ q[k + 1] = Event("UPDATED", t, wallet.height[t])
      <3> HIDE DEF k
      <3> QED BY <1>6, <2>1, <2>2, <2>3
    <2>5. ASSUME NEW i \in 1 .. n, q[i].tx = t
          PROVE  i = k \/ i = k + 1
      <3> DEFINE j == (i + 1) \div 2
      <3>1. v[j] = t /\ j \in 1 .. c /\ i \in Nat /\ i # 0
        BY <1>5, <1>6, <2>5
      <3>2. j = m
        <4> HIDE DEF j
        <4> QED BY <1>2, <2>1, <3>1
      <3>3. i = 2 * j - 1 \/ i = 2 * j
        BY <3>1, Halves
      <3> HIDE DEF j
      <3> QED BY <2>2, <3>2, <3>3
    <2> HIDE DEF k
    <2> QED BY <1>7, <2>2, <2>4, <2>5
  <1> QED BY <1>6, <1>7, <1>8

LEMMA RestartFollows ==
    ASSUME IInv, TInv, Restart
    PROVE  TInv'
  <1> DEFINE w == wallet.saved
             q == Loaded(w)
  <1>1. w \in SUBSET Tx /\ wallet.height \in [Tx -> Nat]
    BY DEF IInv, Typed, WalletTyped, Wallets
  <1>2. /\ queue' = q /\ requests' = {} /\ answers' = {} /\ failed' = "none"
        /\ transfer' = [t \in Tx |-> "none"] /\ published' = [t \in Tx |-> "no"]
        /\ submits' = [t \in Tx |-> 0]
        /\ \A t \in Tx : IF t \in w THEN /\ record'[t].is = "signed" /\ record'[t].refed
                                        /\ record'[t].height = wallet.height[t]
                         ELSE record'[t].is = "none"
    BY DEF Restart, NoRecord
  <1> HIDE DEF w, q
  <1>3. TypedToo' /\ AssertionsKept'
    BY <1>2 DEF TypedToo, States, AssertionsKept
  <1>4. /\ q \in Seq(Events)
        /\ \A i \in 1 .. Len(q) : q[i].name \in {"ADDED", "UPDATED"} /\ q[i].tx \in w
        /\ \A t \in w : \E k \in 1 .. Len(q) :
              /\ k + 1 \in 1 .. Len(q)
              /\ q[k] = Event("ADDED", t, 0) /\ q[k + 1] = Event("UPDATED", t, wallet.height[t])
              /\ \A i \in 1 .. Len(q) : q[i].tx = t => i = k \/ i = k + 1
    BY <1>1, LoadedTold DEF q
  <1>5. ASSUME NEW t \in Tx
        PROVE  Unasked(queue, t)'
    <2>1. Idle(t)'
      BY <1>2 DEF Idle
    <2>2. NoneOf(q, t, SubmitEvents)
      BY <1>4 DEF NoneOf, SubmitEvents
    <2> QED BY <1>2, <2>1, <2>2 DEF Unasked
  <1>6. ASSUME NEW t \in Tx, t \notin w
        PROVE  Shown(q, record'[t], "none", 0, t)
    <2>1. \A i \in 1 .. Len(q) : ~Shows(q, i, t)
      BY <1>4, <1>6 DEF Shows
    <2>2. Settled(record'[t], "none", 0)
      BY <1>2, <1>6 DEF Settled
    <2> QED BY <2>1, <2>2 DEF Shown, Ordered, Starts, Bounded, Stops
  <1>7. ASSUME NEW t \in w
        PROVE  Shown(q, record'[t], "none", 0, t)
    <2>1. t \in Tx /\ wallet.height[t] \in Nat
      BY <1>1
    <2>2. PICK k \in 1 .. Len(q) :
              /\ k + 1 \in 1 .. Len(q)
              /\ q[k] = Event("ADDED", t, 0) /\ q[k + 1] = Event("UPDATED", t, wallet.height[t])
              /\ \A i \in 1 .. Len(q) : q[i].tx = t => i = k \/ i = k + 1
      BY <1>4
    <2>3. /\ q[k].name = "ADDED" /\ q[k].tx = t
          /\ q[k + 1].name = "UPDATED" /\ q[k + 1].tx = t /\ q[k + 1].height = wallet.height[t]
      BY <2>2 DEF Event
    <2>4. k \in Int /\ k < k + 1
      BY <2>2
    <2>5. \A i \in 1 .. Len(q) : Shows(q, i, t) <=> i = k \/ i = k + 1
      BY <2>2, <2>3 DEF Shows, TransferEvents
    <2>6. record'[t].is = "signed" /\ record'[t].refed /\ record'[t].height = wallet.height[t]
      BY <1>2, <2>1
    <2>7. Ordered(q, t)
      <3> SUFFICES ASSUME NEW i \in 1 .. Len(q), NEW j \in 1 .. Len(q), Shows(q, i, t), Shows(q, j, t), i < j
                   PROVE  Before(q[i].name, q[j].name)
        BY DEF Ordered
      <3>1. i = k /\ j = k + 1
        BY <2>4, <2>5
      <3> QED BY <2>3, <3>1 DEF Before
    <2>8. Starts(q, t, "none")
      <3> SUFFICES ASSUME NEW i \in 1 .. Len(q), Shows(q, i, t),
                          \A j \in 1 .. Len(q) : Shows(q, j, t) => i <= j
                   PROVE  Ready(q[i].name, "none")
        BY DEF Starts
      <3>1. i <= k
        BY <2>2, <2>5
      <3>2. i = k
        BY <2>4, <2>5, <3>1
      <3> QED BY <2>3, <3>2 DEF Ready
    <2>9. Bounded(q, t, record'[t])
      <3>1. \A i \in 1 .. Len(q) : q[i].name # "DELETED"
        BY <1>4
      <3> QED BY <2>6, <3>1 DEF Bounded, Within
    <2>10. Stops(q, t, record'[t])
      <3> SUFFICES ASSUME NEW i \in 1 .. Len(q), Shows(q, i, t),
                          \A j \in 1 .. Len(q) : Shows(q, j, t) => j <= i
                   PROVE  Closes(q[i], record'[t])
        BY DEF Stops
      <3>1. k + 1 <= i
        BY <2>2, <2>5
      <3>2. i = k + 1
        BY <2>4, <2>5, <3>1
      <3> QED BY <2>3, <2>6, <3>2 DEF Closes
    <2>11. ~Mute(q, t)
      BY <2>2, <2>3 DEF Mute, NoneOf, TransferEvents
    <2> QED BY <2>7, <2>8, <2>9, <2>10, <2>11 DEF Shown
  <1>8. ASSUME NEW t \in Tx
        PROVE  Shown(queue', record'[t], transfer'[t], submits'[t], t)
    BY <1>2, <1>6, <1>7
  <1> QED BY <1>3, <1>5, <1>8 DEF TInv

-----------------------------------------------------------------------------
LEMMA InitTInv == Init => TInv
  <1> SUFFICES ASSUME Init
               PROVE  TInv
    OBVIOUS
  <1>1. TypedToo /\ AssertionsKept
    BY DEF Init, TypedToo, States, AssertionsKept
  <1>2. ASSUME NEW t \in Tx
        PROVE  Shown(queue, record[t], transfer[t], submits[t], t) /\ Unasked(queue, t)
    <2>1. \A i \in 1 .. Len(queue) : FALSE
      BY DEF Init
    <2>2. Settled(record[t], transfer[t], submits[t])
      BY DEF Init, Settled, NoRecord
    <2>3. Shown(queue, record[t], transfer[t], submits[t], t)
      BY <2>1, <2>2 DEF Shown, Ordered, Starts, Bounded, Stops
    <2>4. Idle(t)
      BY DEF Init, Idle
    <2> QED BY <2>1, <2>3, <2>4 DEF Unasked, NoneOf
  <1> QED BY <1>1, <1>2 DEF TInv

LEMMA NextTInv == IInv /\ TInv /\ [Next]_vars => TInv'
  <1> SUFFICES ASSUME IInv, TInv, [Next]_vars
               PROVE  TInv'
    OBVIOUS
  <1>1. CASE \E t \in Tx : RequestedTx(t) \/ RelayedTx(t)
    BY <1>1, TakenFollows
  <1>2. CASE \E t \in Tx : RelayCounted(t) \/ RemoveTransaction(t)
    BY <1>2, UpdatesFollow
  <1>3. CASE \E t \in Tx : PublishFails(t)
    BY <1>3, AnswersFollow
  <1>4. CASE \E t \in Tx : Accepted(t)
    BY <1>4, AsidesFollow
  <1>5. CASE \E t \in Tx : Create(t) \/ Sign(t)
    BY <1>5, MakingFollows
  <1>6. CASE \E t \in Tx : SubmitOffline(t) \/ SubmitToClient(t) \/ PublishTx(t)
    BY <1>6, SubmitsFollow
  <1>7. CASE \E a \in answers : TxPublished(a)
    BY <1>7, AnswersFollow
  <1>8. CASE \E txs \in SUBSET Tx, h \in Blocks : RelayedBlock(txs, h)
    BY <1>8, UpdatesFollow
  <1>9. CASE \E h \in 0 .. MaxHeight : Reorganisation(h)
    BY <1>9, UpdatesFollow
  <1>10. CASE \E t \in Tx, error \in BOOLEAN : AnnounceSubmit(t, error)
    BY <1>10, AnswersFollow
  <1>11. CASE \E t \in Tx, h \in 0 .. MaxHeight, current \in BOOLEAN :
                  AnnounceTransaction(t, h, current)
    BY <1>11, UpdatesFollow
  <1>12. CASE SetMode \/ UNCHANGED vars
    BY <1>12, AsidesFollow
  <1>13. CASE Restart
    BY <1>13, RestartFollows
  <1>14. CASE Dispatch
    BY <1>14, TxAddedFollows, TxChangedFollows, TransferStepFollows, SubmitAnsweredFollows,
       AnnouncedFollows DEF Dispatch
  <1> QED BY <1>1, <1>2, <1>3, <1>4, <1>5, <1>6, <1>7, <1>8, <1>9, <1>10, <1>11, <1>12,
             <1>13, <1>14 DEF Next

\* The events that wait for a transfer come in the order in which its handlers
\* demand them, the first finds it as it must be, and the last shows the record.
THEOREM Delivery == Spec => [](IInv /\ TInv)
  <1>1. Init => IInv /\ TInv
    BY InitIInv, InitTInv
  <1>2. IInv /\ TInv /\ [Next]_vars => IInv' /\ TInv'
    BY NextIInv, NextTInv
  <1> QED BY <1>1, <1>2, PTL DEF Spec

\* No transaction is added to the records twice (bwmHandleTxAdded), and no event
\* of a transfer finds it missing, or there already (cwmTransactionEventAsBTC),
\* whoever makes, relays, submits, removes or announces its transaction.
THEOREM AssertionsHold == Spec => []AssertionsKept
  <1>1. IInv /\ TInv => AssertionsKept
    BY DEF TInv
  <1> QED BY <1>1, Delivery, PTL

LEMMA TInvAgrees == IInv /\ TInv => TransfersAgree
  <1> SUFFICES ASSUME IInv, TInv, NEW t \in Tx, Running, submits[t] = 0,
                      ~Waits(t, WalletEvents \cup TransferEvents)
               PROVE  IF t \in wallet.listed
                      THEN transfer[t] = IF wallet.height[t] \in Blocks THEN "INCLUDED" ELSE "SUBMITTED"
                      ELSE \/ record[t].is = "unsigned" /\ transfer[t] = "CREATED"
                           \/ record[t].is = "signed" /\ transfer[t] = "SIGNED"
                           \/ record[t].is \notin {"unsigned", "signed"} /\ transfer[t] = "none"
    BY DEF TransfersAgree
  <1>1. ~Waits(t, WalletEvents) /\ Mute(queue, t)
    BY DEF Waits, Mute, NoneOf
  <1>2. /\ t \in wallet.listed <=> record[t].is = "signed" /\ record[t].refed
        /\ t \in wallet.listed => record[t].height = wallet.height[t]
    BY <1>1, IInvAgrees DEF RecordsAgree
  <1>3. Settled(record[t], transfer[t], 0)
    BY <1>1 DEF TInv, Shown
  <1> QED BY <1>2, <1>3 DEF Settled, StateAt

\* When nothing waits the application is shown each transaction of the wallet
\* as a transfer, included or not as it is in a block, and none but those and the
\* ones the user makes (cwmTransactionEventAsBTC).
THEOREM TransfersFollow == Spec => []TransfersAgree
  BY Delivery, TInvAgrees, PTL
=============================================================================
