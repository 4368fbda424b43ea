----------------------- MODULE BlockChainSliceProofs ------------------------
(***************************************************************************)
(* That the chain of the Ethereum block chain slice grows by children only,  *)
(* that a block which waits for nothing holds no transfers, and that a       *)
(* transfer whose block is orphaned is asked for again, for any blocks,      *)
(* transfers, saved blocks and order of answers.                             *)
(***************************************************************************)
EXTENDS BlockChainSlice, FiniteSetTheorems, SequenceTheorems, WellFoundedInduction, TLAPS

\* A restart may chain blocks that are not linked, but none of them twice.
Chains == {c \in Seq(Block) : c # <<>> /\ \A i, j \in 1..Len(c) : c[i] = c[j] => i = j}

\* The links of d: from a block to its parent, or links of c.
LinkedFrom(d, c) ==
    \A i \in 2..Len(d) :
        \/ parent[d[i]] = d[i - 1]
        \/ \E j \in 2..Len(c) : c[j] = d[i] /\ c[j - 1] = d[i - 1]

\* Each block is the child of the one before.
InLine(c) == \A i \in 2..Len(c) : parent[c[i]] = c[i - 1]

\* The variables that the steps on the chain need to know something of.
Typed ==
    /\ chain \in Chains \/ chain = <<>>
    /\ orphans \subseteq Block /\ known \subseteq Block /\ strays \subseteq Block
    /\ held \in [Block -> SUBSET Transfer]

State == {"not needed", "pending", "unasked", "complete"}

\* A proof is never left unasked.
Requests == {r \in [Part -> State] : r["proof"] # "unasked"}

Requested == request \in [Block -> Requests]

\* A block that holds transfers has been asked for its proof.
Proofs == \A b \in Block : held[b] # {} => request[b]["proof"] # "not needed"

\* While the process runs a block is on the chain, an orphan or a stray, if it is
\* one of them, but not two of them, and it is known.
Apart ==
    Running => /\ Range(chain) \cup orphans \cup strays \subseteq known
               /\ Range(chain) \cap orphans = {}
               /\ Range(chain) \cap strays = {}
               /\ orphans \cap strays = {}

\* What is not known holds nothing, so that a block that is learnt anew does not.
Forgotten == \A b \in Block \ known : held[b] = {}

IInv == Typed /\ Requested /\ Proofs /\ Apart /\ Forgotten /\ NothingWithheld

-----------------------------------------------------------------------------
(* Induction, by the least counterexample.                                  *)

LEMMA LeastOf ==
    ASSUME NEW T \in SUBSET Nat, T # {}
    PROVE  \E x \in T : \A y \in T : x <= y
  <1>1. PICK x \in T : \A y \in T : ~ (<<y, x>> \in OpToRel(<, Nat))
    BY WFMin, NatLessThanWellFounded
  <1>2. \A y \in T : ~(y < x)
    BY <1>1 DEF OpToRel
  <1> QED BY <1>2

\* A set with 0 that has each number if it has the one before has them all.
LEMMA CountUp ==
    ASSUME NEW N \in Nat, NEW S, 0 \in S, \A n \in 1..N : n - 1 \in S => n \in S
    PROVE  \A n \in 0..N : n \in S
  <1> DEFINE T == (0..N) \ S
  <1>1. CASE T = {}
    BY <1>1
  <1>2. CASE T # {}
    <2>1. PICK n \in T : \A k \in T : n <= k
      <3>1. T \in SUBSET Nat
        OBVIOUS
      <3> HIDE DEF T
      <3> QED BY <1>2, <3>1, LeastOf
    <2>2. n \in 0..N /\ n # 0
      OBVIOUS
    <2>3. n \in 1..N /\ n - 1 \in 0..N /\ ~(n <= n - 1)
      BY <2>2
    <2>4. n - 1 \notin T
      BY <2>1, <2>3
    <2> QED BY <2>3, <2>4
  <1> QED BY <1>1, <1>2

\* What a function has at 0 and hands on from each place to the next it has everywhere.
LEMMA HandedOn ==
    ASSUME NEW S, NEW N \in Nat, NEW f, f[0] \in S,
           \A n \in 1..N : f[n - 1] \in S => f[n] \in S
    PROVE  \A n \in 0..N : f[n] \in S
  <1> DEFINE T == {n \in 0..N : f[n] \in S}
  <1>1. 0 \in T
    OBVIOUS
  <1>2. \A n \in 1..N : n - 1 \in T => n \in T
    OBVIOUS
  <1>3. \A n \in 0..N : n \in T
    <2> HIDE DEF T
    <2> QED BY <1>1, <1>2, CountUp
  <1> QED BY <1>3

\* f begins at c and takes N steps of G.
Steps(f, S, c, G, N) ==
    /\ f \in [0..N -> S] /\ f[0] = c
    /\ \A n \in 1..N : f[n] = G[f[n - 1]]

\* There is such a function.
LEMMA Iteration ==
    ASSUME NEW S, NEW c \in S, NEW G \in [S -> S], NEW N \in Nat
    PROVE  \E f : Steps(f, S, c, G, N)
  <1> DEFINE Is(f, m) == f[0] = c /\ \A n \in 1..m : f[n] = G[f[n - 1]]
             T == {m \in 0..N : \E f \in [0..m -> S] : Is(f, m)}
  <1>1. 0 \in T
    <2>1. Is([n \in 0..0 |-> c], 0)
      OBVIOUS
    <2>2. [n \in 0..0 |-> c] \in [0..0 -> S]
      OBVIOUS
    <2>3. \E f \in [0..0 -> S] : Is(f, 0)
      BY <2>1, <2>2
    <2>4. 0 \in 0..N
      OBVIOUS
    <2> QED BY <2>3, <2>4
  <1>2. ASSUME NEW n \in 1..N, n - 1 \in T PROVE n \in T
    <2>1. PICK f \in [0..(n - 1) -> S] : Is(f, n - 1)
      BY <1>2
    <2> DEFINE g == [k \in 0..n |-> IF k = n THEN G[f[n - 1]] ELSE f[k]]
    <2>2. n - 1 \in 0..(n - 1) /\ f[n - 1] \in S
      BY <2>1
    <2>3. g \in [0..n -> S] /\ g[0] = c
      BY <2>1, <2>2
    <2>4. ASSUME NEW k \in 1..n PROVE g[k] = G[g[k - 1]]
      <3>1. k - 1 \in 0..n /\ k - 1 # n /\ g[k - 1] = f[k - 1]
        OBVIOUS
      <3>2. CASE k = n
        BY <3>1, <3>2
      <3>3. CASE k # n
        <4>1. k \in 1..(n - 1)
          BY <3>3
        <4> QED BY <2>1, <3>1, <3>3, <4>1
      <3> QED BY <3>2, <3>3
    <2> HIDE DEF g
    <2> QED BY <2>3, <2>4
  <1>3. N \in T
    <2>1. \A n \in 0..N : n \in T
      <3> HIDE DEF T
      <3> QED BY <1>1, <1>2, CountUp
    <2> QED BY <2>1
  <1> QED BY <1>3 DEF Steps

\* Of finitely many blocks one is the greatest.
LEMMA Greatest ==
    ASSUME NEW bs \in SUBSET Block, bs # {}
    PROVE  \E b \in bs : \A c \in bs : rank[b] >= rank[c]
  <1> DEFINE Has(v) == \E t \in v : \A u \in v : rank[t] >= rank[u]
             T == {n \in Nat : \E v \in SUBSET bs : Cardinality(v) = n /\ v # {} /\ ~Has(v)}
  <1>1. IsFiniteSet(bs) /\ \A b \in bs : rank[b] \in Nat
    BY BlockAssumption, FS_Subset
  <1>2. \A v \in SUBSET bs : IsFiniteSet(v) /\ Cardinality(v) \in Nat
    BY <1>1, FS_Subset, FS_CardinalityType
  <1>3. CASE T = {}
    <2>1. Cardinality(bs) \notin T
      BY <1>3
    <2> QED BY <1>2, <2>1
  <1>4. CASE T # {}
    <2>1. PICK n \in T : \A k \in T : n <= k
      <3>1. T \in SUBSET Nat
        OBVIOUS
      <3> HIDE DEF T
      <3> QED BY <1>4, <3>1, LeastOf
    <2>2. PICK v \in SUBSET bs : Cardinality(v) = n /\ v # {} /\ ~Has(v)
      OBVIOUS
    <2>3. PICK x \in v : TRUE
      BY <2>2
    <2>4. v \ {x} \in SUBSET bs /\ Cardinality(v \ {x}) = n - 1 /\ n \in Nat
      BY <1>2, <2>2, <2>3, FS_RemoveElement
    <2>5. n - 1 \notin T /\ n - 1 \in Nat
      <3>1. ~(n <= n - 1) /\ n - 1 \in Nat
        BY <1>2, <2>4
      <3> QED BY <2>1, <3>1
    <2>6. v \ {x} = {} \/ Has(v \ {x})
      BY <2>4, <2>5
    <2>7. CASE v \ {x} = {}
      <3>1. \A u \in v : u = x
        BY <2>7
      <3> QED BY <1>1, <2>2, <2>3, <3>1
    <2>8. CASE Has(v \ {x})
      <3>1. PICK t \in v \ {x} : \A u \in v \ {x} : rank[t] >= rank[u]
        BY <2>8
      <3>2. rank[t] \in Nat /\ rank[x] \in Nat /\ \A u \in v : rank[u] \in Nat
        BY <1>1, <2>2, <2>3
      <3>3. CASE rank[t] >= rank[x]
        <4>1. \A u \in v : rank[t] >= rank[u]
          BY <3>1, <3>3
        <4> QED BY <2>2, <4>1
      <3>4. CASE rank[x] >= rank[t]
        <4>1. \A u \in v : rank[x] >= rank[u]
          BY <3>1, <3>2, <3>4
        <4> QED BY <2>2, <2>3, <4>1
      <3> QED BY <3>2, <3>3, <3>4
    <2> QED BY <2>6, <2>7, <2>8
  <1> QED BY <1>3, <1>4

-----------------------------------------------------------------------------
(* Chains.                                                                  *)

LEMMA OnChain ==
    ASSUME NEW c \in Chains
    PROVE  /\ Len(c) \in Nat \ {0} /\ DOMAIN c = 1..Len(c)
           /\ \A i \in 1..Len(c) : c[i] \in Block
           /\ Range(c) = {c[i] : i \in 1..Len(c)} /\ Range(c) \subseteq Block
           /\ Last(c) = c[Len(c)] /\ Last(c) \in Range(c) /\ c[1] \in Range(c)
  <1>1. c \in Seq(Block) /\ c # <<>>
    BY DEF Chains
  <1>2. Len(c) \in Nat \ {0} /\ DOMAIN c = 1..Len(c) /\ \A i \in 1..Len(c) : c[i] \in Block
    BY <1>1, LenProperties, EmptySeq, ElementOfSeq
  <1>3. Range(c) = {c[i] : i \in 1..Len(c)}
    BY <1>2 DEF Range
  <1>4. Last(c) = c[Len(c)]
    BY DEF Last
  <1> QED BY <1>2, <1>3, <1>4

LEMMA NoneTwice ==
    ASSUME NEW c \in Chains, NEW i \in 1..Len(c), NEW j \in 1..Len(c), c[i] = c[j]
    PROVE  i = j
  BY DEF Chains

LEMMA OwnLinks == \A c : LinkedFrom(c, c)
  BY DEF LinkedFrom

LEMMA InLineStays ==
    ASSUME NEW d, NEW c, LinkedFrom(d, c), InLine(c)
    PROVE  InLine(d)
  BY DEF LinkedFrom, InLine

\* A chain goes on with a child of its last block.
LEMMA GoesOn ==
    ASSUME NEW c \in Chains, NEW b \in Block, parent[b] = Last(c), b \notin Range(c),
           NEW a, LinkedFrom(c, a)
    PROVE  /\ Append(c, b) \in Chains /\ Range(Append(c, b)) = Range(c) \cup {b}
           /\ LinkedFrom(Append(c, b), a) /\ Last(Append(c, b)) = b
  <1> DEFINE d == Append(c, b)
  <1>1. /\ d \in Seq(Block) /\ d # <<>> /\ Len(d) = Len(c) + 1 /\ d[Len(c) + 1] = b
        /\ \A i \in 1..Len(c) : d[i] = c[i]
    BY AppendProperties DEF Chains
  <1>2. Len(c) \in Nat \ {0} /\ Range(c) = {c[i] : i \in 1..Len(c)} /\ Last(c) = c[Len(c)]
    BY OnChain
  <1> HIDE DEF d
  <1>3. ASSUME NEW i \in 2..Len(d)
        PROVE  \/ parent[d[i]] = d[i - 1]
               \/ \E j \in 2..Len(a) : a[j] = d[i] /\ a[j - 1] = d[i - 1]
    <2>1. CASE i = Len(c) + 1
      BY <1>1, <1>2, <2>1
    <2>2. CASE i # Len(c) + 1
      <3>1. i \in 2..Len(c) /\ i \in 1..Len(c) /\ i - 1 \in 1..Len(c)
        BY <1>1, <1>2, <2>2
      <3> QED BY <1>1, <3>1 DEF LinkedFrom
    <2> QED BY <2>1, <2>2
  <1>4. ASSUME NEW i \in 1..Len(d), NEW j \in 1..Len(d), d[i] = d[j] PROVE i = j
    <2>1. (i \in 1..Len(c) \/ i = Len(c) + 1) /\ (j \in 1..Len(c) \/ j = Len(c) + 1)
      BY <1>1, <1>2
    <2>2. CASE i \in 1..Len(c) /\ j \in 1..Len(c)
      BY <1>1, <1>4, <2>2, NoneTwice
    <2>3. CASE ~(i \in 1..Len(c) /\ j \in 1..Len(c))
      <3>1. \A k \in 1..Len(c) : d[k] # b
        BY <1>1, <1>2
      <3> QED BY <1>1, <1>4, <2>1, <2>3, <3>1
    <2> QED BY <2>2, <2>3
  <1>5. d \in Chains
    BY <1>1, <1>4 DEF Chains
  <1>6. Range(d) = Range(c) \cup {b}
    <2>1. Range(d) = {d[i] : i \in 1..Len(d)}
      BY <1>5, OnChain
    <2>2. \A i \in 1..Len(d) : i \in 1..Len(c) \/ i = Len(c) + 1
      BY <1>1, <1>2
    <2>3. \A i \in 1..Len(c) : i \in 1..Len(d)
      BY <1>1, <1>2
    <2>4. Len(c) + 1 \in 1..Len(d)
      BY <1>1, <1>2
    <2> QED BY <1>1, <1>2, <2>1, <2>2, <2>3, <2>4
  <1>7. Last(d) = b
    BY <1>1 DEF Last
  <1>8. LinkedFrom(d, a)
    BY <1>3 DEF LinkedFrom
  <1> QED BY <1>5, <1>6, <1>7, <1>8 DEF d

\* A piece of a chain is a chain.
LEMMA PieceOf ==
    ASSUME NEW c \in Chains, NEW m \in 1..Len(c), NEW n \in m..Len(c),
           NEW a, LinkedFrom(c, a)
    PROVE  /\ SubSeq(c, m, n) \in Chains
           /\ Range(SubSeq(c, m, n)) = {c[i] : i \in m..n}
           /\ Last(SubSeq(c, m, n)) = c[n]
           /\ LinkedFrom(SubSeq(c, m, n), a)
  <1> DEFINE d == SubSeq(c, m, n)
  <1>1. Len(c) \in Nat \ {0} /\ m \in Int /\ n \in Int /\ m <= n /\ \A i \in m..n : c[i] \in Block
    BY OnChain
  <1>2. /\ d \in Seq(Block) /\ Len(d) = n - m + 1
        /\ \A i \in 1..(n - m + 1) : d[i] = c[m + i - 1]
    BY <1>1, SubSeqProperties
  <1> HIDE DEF d
  <1>3. d # <<>>
    BY <1>1, <1>2, EmptySeq
  <1>4. LinkedFrom(d, a)
    <2> SUFFICES ASSUME NEW i \in 2..Len(d)
                 PROVE  \/ parent[d[i]] = d[i - 1]
                        \/ \E j \in 2..Len(a) : a[j] = d[i] /\ a[j - 1] = d[i - 1]
      BY DEF LinkedFrom
    <2>1. i \in 1..(n - m + 1) /\ i - 1 \in 1..(n - m + 1)
          /\ m + i - 1 \in 2..Len(c) /\ m + (i - 1) - 1 = (m + i - 1) - 1
      BY <1>1, <1>2
    <2>2. d[i] = c[m + i - 1] /\ d[i - 1] = c[(m + i - 1) - 1]
      BY <1>2, <2>1
    <2> QED BY <2>1, <2>2 DEF LinkedFrom
  <1>5. d \in Chains
    <2>1. ASSUME NEW i \in 1..Len(d), NEW j \in 1..Len(d), d[i] = d[j] PROVE i = j
      <3>1. /\ d[i] = c[m + i - 1] /\ d[j] = c[m + j - 1]
            /\ m + i - 1 \in 1..Len(c) /\ m + j - 1 \in 1..Len(c)
        BY <1>1, <1>2
      <3>2. m + i - 1 = m + j - 1
        BY <2>1, <3>1, NoneTwice
      <3> QED BY <1>1, <3>2
    <2> QED BY <1>2, <1>3, <2>1 DEF Chains
  <1>6. Range(d) = {c[i] : i \in m..n}
    <2>1. Range(d) = {d[i] : i \in 1..Len(d)}
      BY <1>5, OnChain
    <2>2. \A i \in 1..Len(d) : d[i] = c[m + i - 1] /\ m + i - 1 \in m..n
      BY <1>1, <1>2
    <2>3. ASSUME NEW i \in m..n PROVE c[i] \in Range(d)
      <3>1. i - m + 1 \in 1..Len(d) /\ m + (i - m + 1) - 1 = i
        BY <1>1, <1>2
      <3>2. d[i - m + 1] = c[i]
        BY <2>2, <3>1
      <3> QED BY <2>1, <3>1, <3>2
    <2>4. Range(d) \subseteq {c[i] : i \in m..n}
      BY ONLY <2>1, <2>2
    <2> QED BY ONLY <2>3, <2>4
  <1>7. Last(d) = c[n]
    <2>1. Last(d) = d[Len(d)]
      BY DEF Last
    <2>2. Len(d) \in 1..(n - m + 1) /\ m + Len(d) - 1 = n
      BY <1>1, <1>2
    <2> QED BY <1>2, <2>1, <2>2
  <1> QED BY <1>4, <1>5, <1>6, <1>7 DEF d

\* The two pieces of a chain have no block in common.
LEMMA PiecesApart ==
    ASSUME NEW c \in Chains, NEW m \in 1..Len(c)
    PROVE  {c[i] : i \in 1..m} \cap {c[i] : i \in (m + 1)..Len(c)} = {}
  <1>1. Len(c) \in Nat
    BY OnChain
  <1>2. ASSUME NEW i \in 1..m, NEW j \in (m + 1)..Len(c), c[i] = c[j] PROVE FALSE
    <2>1. i \in 1..Len(c) /\ j \in 1..Len(c) /\ i # j
      BY <1>1
    <2> QED BY <1>2, <2>1, NoneTwice
  <1> QED BY <1>2

\* What is above place m of a chain.
LEMMA Above ==
    ASSUME NEW c \in Chains, NEW m \in 1..Len(c)
    PROVE  Range(SubSeq(c, m + 1, Len(c))) = {c[i] : i \in (m + 1)..Len(c)}
  <1>1. Len(c) \in Nat \ {0}
    BY OnChain
  <1>2. CASE m = Len(c)
    <2>1. SubSeq(c, m + 1, Len(c)) = <<>>
      BY <1>1, <1>2, SubSeqEmpty
    <2>2. Range(SubSeq(c, m + 1, Len(c))) = {}
      BY <2>1 DEF Range
    <2>3. (m + 1)..Len(c) = {}
      BY <1>1, <1>2
    <2> QED BY <2>2, <2>3
  <1>3. CASE m # Len(c)
    <2>1. m + 1 \in 1..Len(c) /\ Len(c) \in (m + 1)..Len(c)
      BY <1>1, <1>3
    <2> QED BY <2>1, OwnLinks, PieceOf
  <1> QED BY <1>2, <1>3

\* A chain cut at place m: the pieces have no block in common.
LEMMA CutAt ==
    ASSUME NEW c \in Chains, NEW m \in 1..Len(c)
    PROVE  /\ SubSeq(c, 1, m) \in Chains /\ Last(SubSeq(c, 1, m)) = c[m]
           /\ LinkedFrom(SubSeq(c, 1, m), c)
           /\ Range(SubSeq(c, 1, m)) \subseteq Range(c)
           /\ Range(SubSeq(c, m + 1, Len(c))) \subseteq Range(c)
           /\ Range(SubSeq(c, 1, m)) \cap Range(SubSeq(c, m + 1, Len(c))) = {}
  <1>1. Len(c) \in Nat \ {0} /\ 1 \in 1..Len(c) /\ Range(c) = {c[i] : i \in 1..Len(c)}
    BY OnChain
  <1>2. /\ SubSeq(c, 1, m) \in Chains /\ Last(SubSeq(c, 1, m)) = c[m]
        /\ LinkedFrom(SubSeq(c, 1, m), c)
        /\ Range(SubSeq(c, 1, m)) = {c[i] : i \in 1..m}
    BY <1>1, OwnLinks, PieceOf
  <1>3. /\ \A i \in 1..m : i \in 1..Len(c)
        /\ \A i \in (m + 1)..Len(c) : i \in 1..Len(c)
    BY <1>1
  <1>4. {c[i] : i \in 1..m} \subseteq Range(c) /\ {c[i] : i \in (m + 1)..Len(c)} \subseteq Range(c)
    BY <1>1, <1>3
  <1> QED BY <1>2, <1>4, Above, PiecesApart

\* Orphans that follow a chain make it longer: each is the child of the last, so
\* that none of them comes twice.
LEMMA OrphansFollow ==
    ASSUME NEW c \in Chains, NEW o \in SUBSET Block, Range(c) \cap o = {},
           NEW a, LinkedFrom(c, a)
    PROVE  /\ ChainOrphans(c, o) \in Chains
           /\ Range(c) \subseteq Range(ChainOrphans(c, o))
           /\ Range(ChainOrphans(c, o)) \subseteq Range(c) \cup o
           /\ LinkedFrom(ChainOrphans(c, o), a)
  <1> DEFINE S == {d \in Chains : /\ Range(c) \subseteq Range(d) /\ Range(d) \subseteq Range(c) \cup o
                                  /\ LinkedFrom(d, a)
                                  /\ \A x \in Range(d) \ Range(c) : number[x] <= number[Last(d)]}
             G == [d \in S |-> Follow(d, o)]
             N == Cardinality(o)
  <1>1. ASSUME NEW d \in S PROVE Follow(d, o) \in S
    <2> DEFINE next == {b \in o : parent[b] = Last(d)}
    <2>1. CASE next = {}
      BY <2>1 DEF Follow
    <2>2. CASE next # {}
      <3>1. \E b \in next : \A e \in next : rank[b] >= rank[e]
        <4> HIDE DEF next
        <4>1. next \in SUBSET Block
          BY DEF next
        <4> QED BY <2>2, <4>1, Greatest
      <3>2. Preferred(next) \in next
        <4> HIDE DEF next
        <4> QED BY <3>1 DEF Preferred
      <3> DEFINE p == Preferred(next)
      <3>3. p \in o /\ parent[p] = Last(d) /\ p \in Block
        BY <3>2
      <3>4. Follow(d, o) = Append(d, p)
        BY <2>2 DEF Follow
      <3> HIDE DEF p, next
      <3>5. d \in Chains /\ Last(d) \in Block /\ Range(d) \subseteq Block
        <4>1. d \in Chains
          OBVIOUS
        <4> HIDE DEF S
        <4> QED BY <4>1, OnChain
      <3>6. number[p] = number[Last(d)] + 1
        <4>1. p # Genesis
          BY <3>3, <3>5, BlockAssumption
        <4>2. number[Last(d)] = number[p] - 1
          BY <3>3, <4>1, BlockAssumption
        <4>3. number[p] \in Nat /\ number[Last(d)] \in Nat
          BY <3>3, <3>5, BlockAssumption
        <4> QED BY <4>2, <4>3
      <3>7. \A x \in Range(d) : number[x] \in Nat
        BY <3>5, BlockAssumption
      <3>8. number[Last(d)] \in Nat
        BY <3>5, BlockAssumption
      <3>9. p \notin Range(d)
        BY <3>3, <3>6, <3>7, <3>8
      <3>10. /\ Append(d, p) \in Chains /\ Range(Append(d, p)) = Range(d) \cup {p}
             /\ LinkedFrom(Append(d, p), a) /\ Last(Append(d, p)) = p
        <4>1. LinkedFrom(d, a)
          OBVIOUS
        <4> HIDE DEF S
        <4> QED BY <3>3, <3>5, <3>9, <4>1, GoesOn
      <3>11. \A x \in Range(d) \ Range(c) : number[x] <= number[p]
        BY <3>6, <3>7, <3>8
      <3>12. number[p] <= number[p]
        BY <3>3, BlockAssumption
      <3> QED BY <3>3, <3>4, <3>10, <3>11, <3>12
    <2> QED BY <2>1, <2>2
  <1>2. N \in Nat /\ c \in S
    BY BlockAssumption, FS_Subset, FS_CardinalityType
  <1>3. G \in [S -> S]
    BY <1>1
  <1> DEFINE IsAfter(f) == f = [n \in 0..N |-> IF n = 0 THEN c ELSE Follow(f[n - 1], o)]
  <1>4. \E f : IsAfter(f)
    <2>1. PICK f : /\ f \in [0..N -> S] /\ f[0] = c
                   /\ \A n \in 1..N : f[n] = G[f[n - 1]]
      <3> HIDE DEF S, G, N
      <3>1. \E f : Steps(f, S, c, G, N)
        BY <1>2, <1>3, Iteration
      <3> QED BY <3>1 DEF Steps
    <2>2. \A n \in 1..N : f[n] = Follow(f[n - 1], o)
      <3>1. \A n \in 1..N : n - 1 \in 0..N
        BY <1>2
      <3>2. \A n \in 1..N : f[n - 1] \in S
        <4> HIDE DEF S, N
        <4> QED BY <2>1, <3>1
      <3> HIDE DEF S, N
      <3> QED BY <2>1, <3>2
    <2>3. IsAfter(f)
      <3>1. \A n \in 0..N : n = 0 \/ n \in 1..N
        BY <1>2
      <3>2. \A n \in 0..N : f[n] = IF n = 0 THEN c ELSE Follow(f[n - 1], o)
        <4> HIDE DEF S, N, G
        <4> QED BY <2>1, <2>2, <3>1
      <3> HIDE DEF S, N, G
      <3> QED BY <2>1, <3>2
    <2> QED BY <2>3
  <1> DEFINE after == CHOOSE f : IsAfter(f)
  <1>5. IsAfter(after)
    <2> HIDE DEF IsAfter
    <2> QED BY <1>4
  <1>6. ChainOrphans(c, o) = after[N]
    BY DEF ChainOrphans
  <1> HIDE DEF after
  <1>7. \A n \in 0..N : after[n] \in S
    <2>1. after[0] = c
      BY <1>2, <1>5
    <2>2. ASSUME NEW n \in 1..N, after[n - 1] \in S PROVE after[n] \in S
      <3>1. after[n] = Follow(after[n - 1], o)
        BY <1>2, <1>5
      <3> HIDE DEF S
      <3> QED BY <1>1, <2>2, <3>1
    <2> HIDE DEF S, N
    <2> QED BY <1>2, <2>1, <2>2, HandedOn
  <1>8. after[N] \in S
    BY <1>2, <1>7
  <1> QED BY <1>6, <1>8

\* Reclaiming blocks leaves a piece of the chain, or the process ends.
LEMMA TrimLeaves ==
    ASSUME NEW c \in Chains, NEW a, LinkedFrom(c, a)
    PROVE  /\ Trim(c) \in Chains \/ Trim(c) = <<>>
           /\ Range(Trim(c)) \subseteq Range(c)
           /\ LinkedFrom(Trim(c), a)
  <1> DEFINE m == Len(c) - SaveCount
  <1>1. Len(c) \in Nat \ {0} /\ DOMAIN c = 1..Len(c) /\ Range(c) = {c[i] : i \in 1..Len(c)}
        /\ SaveCount \in Nat \ {0}
    BY OnChain, BlockAssumption
  <1>2. CASE ~Long(c)
    BY <1>2 DEF Trim
  <1>3. CASE Long(c) /\ Saves(c, m)
    <2>1. Trim(c) = SubSeq(c, m, Len(c))
      BY <1>3 DEF Trim
    <2>2. m \in 1..Len(c) /\ Len(c) \in m..Len(c)
      BY <1>1, <1>3 DEF Saves
    <2>3. /\ Trim(c) \in Chains /\ Range(Trim(c)) = {c[i] : i \in m..Len(c)}
          /\ LinkedFrom(Trim(c), a)
      <3> HIDE DEF m
      <3> QED BY <2>1, <2>2, PieceOf
    <2>4. \A i \in m..Len(c) : i \in 1..Len(c)
      BY <1>1, <2>2
    <2> QED BY <1>1, <2>3, <2>4
  <1>4. CASE Long(c) /\ ~Saves(c, m)
    <2>1. Trim(c) = <<>>
      BY <1>4 DEF Trim
    <2>2. Range(<<>>) = {}
      BY DEF Range
    <2>3. 2..Len(<<>>) = {}
      OBVIOUS
    <2> QED BY <2>1, <2>2, <2>3 DEF LinkedFrom
  <1> QED BY <1>2, <1>3, <1>4

LEMMA PurgeLeaves ==
    ASSUME NEW o, NEW n
    PROVE  PurgeOrphans(o, n) \subseteq o
  BY DEF PurgeOrphans

\* In a chain in line the heights rise by one from block to block.
LEMMA HeightsRise ==
    ASSUME NEW c \in Chains, InLine(c)
    PROVE  \A i \in 1..Len(c) : number[c[i]] = number[c[1]] + i - 1
  <1> DEFINE T == {n \in Nat : n + 1 \in 1..Len(c) => number[c[n + 1]] = number[c[1]] + n}
             N == Len(c) - 1
  <1>1. /\ Len(c) \in Nat \ {0} /\ N \in Nat
        /\ \A i \in 1..Len(c) : c[i] \in Block /\ number[c[i]] \in Nat
    BY OnChain, BlockAssumption
  <1>2. 0 \in T
    BY <1>1
  <1>3. ASSUME NEW n \in 1..N, n - 1 \in T PROVE n \in T
    <2>1. n + 1 \in 2..Len(c) /\ n \in 1..Len(c) /\ n + 1 \in 1..Len(c)
          /\ (n + 1) - 1 = n /\ (n - 1) + 1 = n
      BY <1>1
    <2>2. parent[c[n + 1]] = c[n]
      BY <2>1 DEF InLine
    <2>3. c[n + 1] # Genesis
      BY <1>1, <2>1, <2>2, BlockAssumption
    <2>4. number[c[n]] = number[c[n + 1]] - 1
      BY <1>1, <2>1, <2>2, <2>3, BlockAssumption
    <2>5. number[c[n]] = number[c[1]] + (n - 1)
      BY <1>3, <2>1
    <2>6. c[1] \in Block /\ number[c[1]] \in Nat /\ number[c[n + 1]] \in Nat
      BY <1>1, <2>1
    <2>7. number[c[n + 1]] = number[c[1]] + n
      <3> HIDE DEF T, N
      <3>1. n \in Nat
        BY <1>1
      <3> QED BY <2>4, <2>5, <2>6, <3>1
    <2>8. n \in Nat
      BY <1>1
    <2> QED BY <2>7, <2>8
  <1>4. \A n \in 0..N : n \in T
    <2> HIDE DEF T, N
    <2> QED BY <1>1, <1>2, <1>3, CountUp
  <1>5. ASSUME NEW i \in 1..Len(c) PROVE number[c[i]] = number[c[1]] + i - 1
    <2>1. i - 1 \in 0..N /\ (i - 1) + 1 = i
      BY <1>1
    <2>2. i - 1 \in T
      BY <1>4, <2>1
    <2> QED BY <1>1, <2>1, <2>2
  <1> QED BY <1>5

\* A chain in line can be saved.
LEMMA TrimInLine ==
    ASSUME NEW c \in Chains, InLine(c)
    PROVE  Trim(c) # <<>>
  <1> DEFINE m == Len(c) - SaveCount
  <1>1. /\ Len(c) \in Nat \ {0} /\ DOMAIN c = 1..Len(c) /\ Last(c) = c[Len(c)]
        /\ SaveCount \in Nat \ {0} /\ number[c[1]] \in Nat
    BY OnChain, BlockAssumption
  <1>2. \A i \in 1..Len(c) : number[c[i]] = number[c[1]] + i - 1
    BY HeightsRise
  <1>3. number[Last(c)] = number[c[1]] + Len(c) - 1
    BY <1>1, <1>2
  <1>4. CASE ~Long(c)
    BY <1>4 DEF Trim, Chains
  <1>5. CASE Long(c)
    <2>1. Len(c) - 1 >= 2 * SaveCount
      BY <1>1, <1>3, <1>5 DEF Long
    <2>2. m \in 1..Len(c) /\ Cut(c) = number[c[1]] + m - 1
      BY <1>1, <1>3, <2>1 DEF Cut
    <2>3. Saves(c, m)
      <3>1. \A i \in 1..(m - 1) : i \in 1..Len(c) /\ number[c[i]] # Cut(c)
        BY <1>1, <1>2, <2>2
      <3>2. \A i \in m..Len(c) : number[c[i]] >= Cut(c)
        BY <1>1, <1>2, <2>2
      <3>3. number[c[m]] = Cut(c)
        BY <1>1, <1>2, <2>2
      <3> HIDE DEF m
      <3> QED BY <1>1, <2>2, <3>1, <3>2, <3>3 DEF Saves
    <2>4. Trim(c) = SubSeq(c, m, Len(c))
      BY <1>5, <2>3 DEF Trim
    <2>5. Len(c) \in m..Len(c)
      BY <1>1, <2>2
    <2>6. SubSeq(c, m, Len(c)) \in Chains
      <3> HIDE DEF m
      <3> QED BY <2>2, <2>5, OwnLinks, PieceOf
    <2> QED BY <2>4, <2>6 DEF Chains
  <1> QED BY <1>4, <1>5

-----------------------------------------------------------------------------
(* Steps on the chain.                                                      *)

\* What the step owes a transfer whose block leaves the chain for the orphans.
Requeries ==
    \A t \in Transfer :
        status[t] \in Range(chain) /\ status[t] \in orphans' /\ Running' => t \in pending'

\* A chain in line is lost only to a header whose parent is on no chain.
LastsInLine ==
    Running /\ InLine(chain) /\ ~Running' => \E b \in Block : HeaderAborts(b)

\* What a step may do.
Allowed == Requeries /\ LastsInLine /\ LinkedFrom(chain', chain)

\* What a header that was not known does to what blocks hold.
HoldsNoMore(b) ==
    /\ request' = [request EXCEPT ![b] = Asks(b)]
    /\ held' \in [Block -> SUBSET Transfer]
    /\ \A x \in Block : held'[x] \subseteq held[x]
    /\ \A x \in Block \ known' : held'[x] = {}
    /\ known' \subseteq known \cup {b}

LEMMA NoMoreIsFine ==
    ASSUME IInv, NEW b \in Block \ known, HoldsNoMore(b)
    PROVE  Requested' /\ Proofs' /\ Forgotten' /\ NothingWithheld'
  <1>1. held[b] = {} /\ held'[b] = {}
    BY DEF IInv, Forgotten, HoldsNoMore
  <1>2. Asks(b) \in Requests
    BY DEF Asks, Requests, State, Part
  <1>3. Requested' /\ \A x \in Block \ {b} : request'[x] = request[x]
    BY <1>2 DEF Requested, HoldsNoMore, IInv
  <1>4. ASSUME NEW x \in known', Complete(x)' PROVE held'[x] = {}
    <2>1. CASE x = b
      BY <1>1, <2>1
    <2>2. CASE x # b
      <3>1. x \in known /\ x \in Block
        BY <2>2 DEF HoldsNoMore, IInv, Typed
      <3>2. request'[x] = request[x]
        BY <1>3, <2>2, <3>1
      <3>3. Complete(x)
        BY <1>4, <3>2 DEF Complete
      <3>4. held[x] = {}
        BY <3>1, <3>3 DEF IInv, NothingWithheld
      <3> QED BY <3>1, <3>4 DEF HoldsNoMore
    <2> QED BY <2>1, <2>2
  <1>5. NothingWithheld'
    BY <1>4 DEF NothingWithheld
  <1>6. Forgotten'
    BY DEF Forgotten, HoldsNoMore
  <1>7. Proofs'
    <2> SUFFICES ASSUME NEW x \in Block, held'[x] # {}
                 PROVE  request'[x]["proof"] # "not needed"
      BY DEF Proofs
    <2>1. x # b /\ held[x] # {}
      BY <1>1 DEF HoldsNoMore
    <2> QED BY <1>3, <2>1 DEF IInv, Proofs
  <1> QED BY <1>3, <1>5, <1>6, <1>7

\* The end of an extension: the chain c, the orphans o, the strays s and the known
\* blocks k are apart, and what is not known or complete holds nothing, so that
\* nothing is left to be handed out.
LEMMA Settles ==
    ASSUME NEW c \in Chains, NEW o \in SUBSET Block, NEW s \in SUBSET Block,
           NEW k \in SUBSET Block,
           Range(c) \cup o \cup s \subseteq k, Range(c) \cap o = {},
           Range(c) \cap s = {}, o \cap s = {}, LinkedFrom(c, chain),
           held \in [Block -> SUBSET Transfer], \A x \in Block \ k : held[x] = {},
           \A x \in k : Complete(x) => held[x] = {},
           Settle(c, o, s, k)
    PROVE  /\ Typed' /\ Apart' /\ Allowed
           /\ known' \subseteq k
           /\ \A x \in Block : held'[x] \subseteq held[x]
           /\ \A x \in Block \ known' : held'[x] = {}
  <1> DEFINE c1 == ChainOrphans(c, o)
             o1 == PurgeOrphans(o \ Range(c1), number[Last(c1)])
             done == {b \in Range(c1) : Complete(b) /\ Valid(request[b]) /\ held[b] # {}}
             gone == Reclaimed(c1)
             st == [t \in Transfer |->
                       IF \E b \in done : t \in held[b]
                       THEN CHOOSE b \in done : t \in held[b] ELSE status[t]]
  <1>1. /\ chain' = Trim(c1) /\ orphans' = o1 \ gone /\ known' = k \ gone
        /\ strays' = s \cup LeftBehind(c1)
        /\ held' = [b \in Block |-> IF b \in done \cup gone THEN {} ELSE held[b]]
        /\ pending' = pending \cup PendOrphaned(st, o1)
    <2>1. chain' = Trim(c1)
      BY Zenon DEF Settle
    <2>2. orphans' = o1 \ gone
      BY Zenon DEF Settle
    <2>3. known' = k \ gone
      BY Zenon DEF Settle
    <2>4. strays' = s \cup LeftBehind(c1)
      BY Zenon DEF Settle
    <2>5. held' = [b \in Block |-> IF b \in done \cup gone THEN {} ELSE held[b]]
      BY Zenon DEF Settle
    <2>6. pending' = pending \cup PendOrphaned(st, o1)
      BY Zenon DEF Settle
    <2> QED BY <2>1, <2>2, <2>3, <2>4, <2>5, <2>6
  <1>2. /\ c1 \in Chains /\ Range(c1) \subseteq Range(c) \cup o /\ LinkedFrom(c1, chain)
    BY OrphansFollow
  <1>3. o1 \subseteq o \ Range(c1)
    BY PurgeLeaves
  <1>4. \A t \in Transfer : st[t] = status[t]
    <2>1. done = {}
      BY <1>2
    <2> HIDE DEF done
    <2> QED BY <2>1
  <1>5. /\ gone \subseteq Range(c1) \ Range(Trim(c1))
        /\ LeftBehind(c1) \subseteq Range(c1) \ (Range(Trim(c1)) \cup gone)
    BY DEF Reclaimed, LeftBehind
  <1> HIDE DEF c1, o1, done, st, gone
  <1>6. /\ chain' \in Chains \/ chain' = <<>>
        /\ Range(chain') \subseteq Range(c1) /\ LinkedFrom(chain', chain)
    BY <1>1, <1>2, TrimLeaves
  <1>7. held' \in [Block -> SUBSET Transfer] /\ \A x \in Block : held'[x] \subseteq held[x]
    BY <1>1
  <1>8. \A x \in Block \ known' : held'[x] = {}
    BY <1>1
  <1>9. Range(c1) \subseteq k /\ Range(c1) \cap s = {}
    BY <1>2
  <1>10. Typed'
    BY <1>1, <1>3, <1>5, <1>6, <1>7, <1>9 DEF Typed
  <1>11. Apart'
    <2>1. Range(chain') \cup orphans' \cup strays' \subseteq known'
      BY <1>1, <1>3, <1>5, <1>6, <1>9
    <2>2. Range(chain') \cap orphans' = {} /\ Range(chain') \cap strays' = {}
      BY <1>1, <1>3, <1>5, <1>6, <1>9
    <2>3. orphans' \cap strays' = {}
      BY <1>1, <1>3, <1>5
    <2> QED BY <2>1, <2>2, <2>3 DEF Apart
  <1>12. Requeries
    BY <1>1, <1>4 DEF PendOrphaned, Requeries
  <1>13. LastsInLine
    <2>1. InLine(chain) => InLine(c1)
      BY <1>2, InLineStays
    <2>2. InLine(c1) => Trim(c1) # <<>>
      BY <1>2, TrimInLine
    <2> QED BY <1>1, <2>1, <2>2 DEF LastsInLine, Running
  <1> QED BY <1>1, <1>6, <1>7, <1>8, <1>10, <1>11, <1>12, <1>13 DEF Allowed

LEMMA RunningKnows ==
    ASSUME IInv, Running
    PROVE  /\ chain \in Chains /\ orphans \in SUBSET Block /\ strays \in SUBSET Block
           /\ known \in SUBSET Block /\ held \in [Block -> SUBSET Transfer]
           /\ Range(chain) \cup orphans \cup strays \subseteq known
           /\ Range(chain) \cap orphans = {} /\ Range(chain) \cap strays = {}
           /\ orphans \cap strays = {}
           /\ \A b \in Block \ known : held[b] = {}
           /\ \A b \in known : Complete(b) => held[b] = {}
  BY DEF IInv, Typed, Apart, Forgotten, Running, NothingWithheld

LEMMA HeaderInconsistentKeeps ==
    ASSUME IInv, NEW b \in Block, Learn(b), HeaderInconsistent(b)
    PROVE  IInv' /\ Allowed
  <1>1. /\ b \notin known /\ request' = [request EXCEPT ![b] = Asks(b)]
        /\ known' = known \cup {b}
        /\ UNCHANGED <<chain, orphans, strays, held, status, pending>> /\ Running
    BY DEF Learn, HeaderInconsistent
  <1>2. Typed'
    BY <1>1 DEF IInv, Typed
  <1>3. Apart'
    BY <1>1 DEF IInv, Apart, Running
  <1>4. HoldsNoMore(b)
    BY <1>1, RunningKnows DEF HoldsNoMore
  <1>5. Requested' /\ Proofs' /\ Forgotten' /\ NothingWithheld'
    BY <1>1, <1>4, NoMoreIsFine
  <1>6. Requeries /\ LastsInLine
    BY <1>1, RunningKnows DEF Requeries, LastsInLine, Running
  <1> QED BY <1>1, <1>2, <1>3, <1>5, <1>6, OwnLinks DEF IInv, Allowed

LEMMA HeaderAbortsKeeps ==
    ASSUME IInv, NEW b \in Block, Learn(b), HeaderAborts(b)
    PROVE  IInv' /\ Allowed
  <1>1. /\ b \notin known /\ request' = [request EXCEPT ![b] = Asks(b)]
        /\ known' = known \cup {b} /\ chain' = <<>> /\ orphans' = orphans \cup Range(chain)
        /\ UNCHANGED <<strays, held, status, pending>> /\ Running
    BY DEF Learn, HeaderAborts
  <1>2. Typed'
    <2>1. Range(chain) \subseteq Block
      BY <1>1, RunningKnows
    <2> QED BY <1>1, <2>1 DEF IInv, Typed
  <1>3. ~Running'
    BY <1>1 DEF Running
  <1>4. HoldsNoMore(b)
    BY <1>1, RunningKnows DEF HoldsNoMore
  <1>5. Requested' /\ Proofs' /\ Forgotten' /\ NothingWithheld'
    BY <1>1, <1>4, NoMoreIsFine
  <1>6. LinkedFrom(chain', chain)
    <2>1. 2..Len(<<>>) = {}
      OBVIOUS
    <2> QED BY <1>1, <2>1 DEF LinkedFrom
  <1> QED BY <1>2, <1>3, <1>5, <1>6 DEF IInv, Apart, Requeries, LastsInLine, Allowed

\* What is above the parent is cut off and orphaned.
LEMMA HeaderChainedKeeps ==
    ASSUME IInv, NEW b \in Block, Learn(b), HeaderChained(b)
    PROVE  IInv' /\ Allowed
  <1>1. b \notin known /\ request' = [request EXCEPT ![b] = Asks(b)] /\ Running
    BY DEF Learn
  <1>2. PICK i \in DOMAIN chain :
          /\ chain[i] = parent[b]
          /\ Settle(Append(SubSeq(chain, 1, i), b),
                    orphans \cup Range(SubSeq(chain, i + 1, Len(chain))),
                    strays, known \cup {b})
    BY DEF HeaderChained
  <1> DEFINE low == SubSeq(chain, 1, i)
             up == SubSeq(chain, i + 1, Len(chain))
             c == Append(low, b)
             o == orphans \cup Range(up)
             k == known \cup {b}
  <1>3. chain \in Chains /\ i \in 1..Len(chain)
    BY <1>1, <1>2, RunningKnows, OnChain
  <1>4. /\ low \in Chains /\ Last(low) = chain[i] /\ LinkedFrom(low, chain)
        /\ Range(low) \cap Range(up) = {} /\ Range(low) \subseteq Range(chain)
        /\ Range(up) \subseteq Range(chain)
    BY <1>3, CutAt
  <1> HIDE DEF low, up
  <1>5. b \notin Range(low) /\ parent[b] = Last(low)
    BY <1>1, <1>2, <1>4, RunningKnows
  <1>6. c \in Chains /\ Range(c) = Range(low) \cup {b} /\ LinkedFrom(c, chain)
    BY <1>4, <1>5, GoesOn
  <1> HIDE DEF c
  <1>7. /\ o \in SUBSET Block /\ k \in SUBSET Block /\ strays \in SUBSET Block
        /\ Range(c) \cup o \cup strays \subseteq k
        /\ Range(c) \cap o = {} /\ Range(c) \cap strays = {} /\ o \cap strays = {}
        /\ held \in [Block -> SUBSET Transfer] /\ \A x \in Block \ k : held[x] = {}
        /\ \A x \in k : Complete(x) => held[x] = {}
    BY <1>1, <1>4, <1>6, RunningKnows
  <1>8. Settle(c, o, strays, k)
    BY <1>2 DEF c, low, up
  <1>9. /\ Typed' /\ Apart' /\ Allowed /\ known' \subseteq k
        /\ \A x \in Block : held'[x] \subseteq held[x]
        /\ \A x \in Block \ known' : held'[x] = {}
    <2> HIDE DEF o, k
    <2> QED BY <1>6, <1>7, <1>8, Settles
  <1>10. HoldsNoMore(b)
    BY <1>1, <1>9 DEF HoldsNoMore, Typed
  <1>11. Requested' /\ Proofs' /\ Forgotten' /\ NothingWithheld'
    BY <1>1, <1>10, NoMoreIsFine
  <1> QED BY <1>9, <1>11 DEF IInv

LEMMA HeaderOrphanedKeeps ==
    ASSUME IInv, NEW b \in Block, Learn(b), HeaderOrphaned(b)
    PROVE  IInv' /\ Allowed
  <1> DEFINE c == ChainOrphans(chain, orphans)
             o == PurgeOrphans(orphans \ Range(c), number[Last(c)]) \cup {b}
  <1>1. /\ b \notin known /\ request' = [request EXCEPT ![b] = Asks(b)] /\ Running
        /\ chain' = c /\ orphans' = o /\ known' = known \cup {b}
        /\ UNCHANGED <<strays, held, status, pending>>
    BY DEF Learn, HeaderOrphaned
  <1>2. /\ c \in Chains /\ Range(chain) \subseteq Range(c)
        /\ Range(c) \subseteq Range(chain) \cup orphans /\ LinkedFrom(c, chain)
    BY <1>1, RunningKnows, OwnLinks, OrphansFollow
  <1>3. o \subseteq (orphans \ Range(c)) \cup {b}
    BY PurgeLeaves
  <1> HIDE DEF c, o
  <1>4. Typed'
    BY <1>1, <1>2, <1>3, RunningKnows DEF Typed
  <1>5. Apart'
    BY <1>1, <1>2, <1>3, RunningKnows DEF Apart
  <1>6. HoldsNoMore(b)
    BY <1>1, RunningKnows DEF HoldsNoMore
  <1>7. Requested' /\ Proofs' /\ Forgotten' /\ NothingWithheld'
    BY <1>1, <1>6, NoMoreIsFine
  <1>8. Requeries
    BY <1>1, <1>2, <1>3, RunningKnows DEF Requeries
  <1>9. Running'
    BY <1>1, <1>2 DEF Running, Chains
  <1> QED BY <1>1, <1>2, <1>4, <1>5, <1>7, <1>8, <1>9 DEF IInv, Allowed, LastsInLine

\* The old chain's complete blocks hold nothing when they go.
LEMMA HeaderAdoptedKeeps ==
    ASSUME IInv, NEW b \in Block, Learn(b), HeaderAdopted(b)
    PROVE  IInv' /\ Allowed
  <1> DEFINE old == {x \in Range(chain) : Complete(x)}
             s == (strays \cup (Range(chain) \ {chain[1]})) \ old
             o == orphans \ old
             k == (known \ old) \cup {b}
  <1>1. /\ b \notin known /\ request' = [request EXCEPT ![b] = Asks(b)] /\ Running
        /\ Settle(<<b>>, o, s, k)
    BY DEF Learn, HeaderAdopted
  <1>2. /\ Range(chain) \cup orphans \cup strays \subseteq known /\ known \subseteq Block
        /\ Range(chain) \cap orphans = {} /\ Range(chain) \cap strays = {}
        /\ orphans \cap strays = {}
        /\ held \in [Block -> SUBSET Transfer]
        /\ \A x \in Block \ known : held[x] = {}
        /\ \A x \in known : Complete(x) => held[x] = {}
    BY <1>1, RunningKnows
  <1>3. <<b>> \in Chains /\ Range(<<b>>) = {b} /\ LinkedFrom(<<b>>, chain)
    <2> DEFINE d == <<b>>
    <2>1. d \in Seq(Block) /\ Len(d) = 1 /\ d[1] = b /\ d # <<>>
      OBVIOUS
    <2> HIDE DEF d
    <2>2. 2..Len(d) = {} /\ 1..Len(d) = {1}
      BY <2>1
    <2>3. LinkedFrom(d, chain)
      BY <2>2 DEF LinkedFrom
    <2>4. d \in Chains
      BY <2>1, <2>2 DEF Chains
    <2>5. Range(d) = {d[i] : i \in 1..Len(d)}
      BY <2>4, OnChain
    <2> QED BY <2>1, <2>2, <2>3, <2>4, <2>5 DEF d
  <1>4. /\ o \in SUBSET Block /\ s \in SUBSET Block /\ k \in SUBSET Block
        /\ {b} \cup o \cup s \subseteq k /\ {b} \cap o = {} /\ {b} \cap s = {} /\ o \cap s = {}
        /\ \A x \in Block \ k : held[x] = {}
        /\ \A x \in k : Complete(x) => held[x] = {}
    BY <1>1, <1>2
  <1> HIDE DEF o, s, k
  <1>5. /\ Typed' /\ Apart' /\ Allowed /\ known' \subseteq k
        /\ \A x \in Block : held'[x] \subseteq held[x]
        /\ \A x \in Block \ known' : held'[x] = {}
    BY <1>1, <1>2, <1>3, <1>4, Settles
  <1>6. HoldsNoMore(b)
    BY <1>1, <1>5 DEF HoldsNoMore, Typed, k
  <1>7. Requested' /\ Proofs' /\ Forgotten' /\ NothingWithheld'
    BY <1>1, <1>6, NoMoreIsFine
  <1> QED BY <1>5, <1>7 DEF IInv

LEMMA HeaderAsideKeeps ==
    ASSUME IInv, NEW b \in Block, Learn(b), HeaderAside(b)
    PROVE  IInv' /\ Allowed
  <1> DEFINE k == known \cup {b}
  <1>1. /\ b \notin known /\ request' = [request EXCEPT ![b] = Asks(b)] /\ Running
        /\ Settle(chain, orphans, strays, k)
    BY DEF Learn, HeaderAside
  <1>2. /\ chain \in Chains /\ orphans \in SUBSET Block /\ strays \in SUBSET Block
        /\ k \in SUBSET Block /\ held \in [Block -> SUBSET Transfer]
        /\ Range(chain) \cup orphans \cup strays \subseteq k
        /\ Range(chain) \cap orphans = {} /\ Range(chain) \cap strays = {}
        /\ orphans \cap strays = {}
        /\ \A x \in Block \ k : held[x] = {}
        /\ \A x \in k : Complete(x) => held[x] = {}
    BY <1>1, RunningKnows
  <1> HIDE DEF k
  <1>3. /\ Typed' /\ Apart' /\ Allowed /\ known' \subseteq k
        /\ \A x \in Block : held'[x] \subseteq held[x]
        /\ \A x \in Block \ known' : held'[x] = {}
    BY <1>1, <1>2, OwnLinks, Settles
  <1>4. HoldsNoMore(b)
    BY <1>1, <1>3 DEF HoldsNoMore, Typed, k
  <1>5. Requested' /\ Proofs' /\ Forgotten' /\ NothingWithheld'
    BY <1>1, <1>4, NoMoreIsFine
  <1> QED BY <1>3, <1>5 DEF IInv

-----------------------------------------------------------------------------
(* The other steps.                                                         *)

\* A step that leaves the blocks as they are.
LEMMA BlocksStay ==
    ASSUME IInv, UNCHANGED blocks
    PROVE  IInv' /\ Allowed
  <1>1. IInv'
    BY DEF IInv, Typed, Requested, Proofs, Apart, Forgotten, NothingWithheld, Complete,
           Running, blocks
  <1>2. Requeries
    BY DEF IInv, Apart, Running, Requeries, blocks
  <1>3. LastsInLine /\ LinkedFrom(chain', chain)
    BY OwnLinks DEF LastsInLine, Running, blocks
  <1> QED BY <1>1, <1>2, <1>3 DEF Allowed

LEMMA HandleBlockHeaderKeeps ==
    ASSUME IInv, NEW b \in Block, HandleBlockHeader(b)
    PROVE  IInv' /\ Allowed
  BY HeaderInconsistentKeeps, HeaderChainedKeeps, HeaderAbortsKeeps, HeaderOrphanedKeeps
     DEF HandleBlockHeader, Linked

LEMMA HandleSyncHeaderKeeps ==
    ASSUME IInv, NEW b \in Block, HandleSyncHeader(b)
    PROVE  IInv' /\ Allowed
  BY HeaderInconsistentKeeps, HeaderChainedKeeps, HeaderAbortsKeeps, HeaderAdoptedKeeps,
     HeaderAsideKeeps, BlocksStay DEF HandleSyncHeader, Linked

\* A block that has its answers hands out what it holds: it has been asked for its
\* proof if it holds anything, so that it is valid.
LEMMA ExtendTransfersKeeps ==
    ASSUME IInv, Running, NEW b \in known, NEW r \in Requests, NEW h \in SUBSET Transfer,
           h = {} \/ r["proof"] # "not needed",
           ExtendTransfers(b, r, h)
    PROVE  IInv' /\ Allowed
  <1> DEFINE done == Answers(r) /\ Valid(r)
  <1>1. /\ request' = [request EXCEPT ![b] = r]
        /\ held' = [held EXCEPT ![b] = IF done THEN {} ELSE h]
        /\ known' = IF done /\ b \notin Range(chain) \cup strays \cup orphans
                    THEN known \ {b} ELSE known
        /\ UNCHANGED <<chain, orphans, strays, pending>>
    BY DEF ExtendTransfers
  <1>2. Answers(r) /\ ~Valid(r) => h = {}
    <2>1. r["proof"] \in State /\ r["proof"] # "unasked" /\ "proof" \in Part
      BY DEF Requests, Part
    <2> QED BY <2>1 DEF Answers, Valid, State
  <1> HIDE DEF done
  <1>3. Typed'
    BY <1>1 DEF IInv, Typed
  <1>4. Apart'
    BY <1>1, RunningKnows DEF Apart
  <1>5. Forgotten' /\ Requested'
    BY <1>1, RunningKnows DEF Forgotten, Requested, IInv
  <1>6. b \in Block /\ request'[b] = r /\ held'[b] = (IF done THEN {} ELSE h)
        /\ \A x \in Block \ {b} : request'[x] = request[x] /\ held'[x] = held[x]
    BY <1>1, RunningKnows DEF IInv, Requested
  <1>7. Proofs'
    BY <1>6 DEF Proofs, IInv
  <1>8. ASSUME NEW x \in known', Complete(x)' PROVE held'[x] = {}
    <2>1. x \in known /\ x \in Block
      BY <1>1, RunningKnows
    <2>2. CASE x = b
      <3>1. Answers(r)
        BY <1>6, <1>8, <2>2 DEF Complete, Answers
      <3> QED BY <1>2, <1>6, <2>2, <3>1 DEF done
    <2>3. CASE x # b
      <3>1. request'[x] = request[x] /\ held'[x] = held[x]
        BY <1>6, <2>1, <2>3
      <3> QED BY <1>8, <2>1, <3>1 DEF Complete, Answers, IInv, NothingWithheld
    <2> QED BY <2>2, <2>3
  <1>9. NothingWithheld'
    BY <1>8 DEF NothingWithheld
  <1>10. Allowed
    BY <1>1, RunningKnows, OwnLinks DEF Requeries, LastsInLine, Running, Allowed
  <1> QED BY <1>3, <1>4, <1>5, <1>7, <1>9, <1>10 DEF IInv

\* A proof that was asked for, or is asked for now, is not forgotten.
LEMMA AnsweredIs ==
    ASSUME NEW r \in Requests, NEW p \in Part, NEW more,
           r["proof"] # "not needed" \/ "proof" \in more \/ p = "proof"
    PROVE  Answered(r, p, more)["proof"] # "not needed"
  BY DEF Answered, Requests, Part, State

LEMMA AnsweredType ==
    ASSUME NEW r \in Requests, NEW p \in Part, NEW more
    PROVE  Answered(r, p, more) \in Requests
  BY DEF Answered, Requests, Part, State

LEMMA AnswersKeep ==
    ASSUME IInv, NEW b \in Block,
           HandleBlockBody(b) \/ HandleTransactionReceipts(b) \/ HandleAccountState(b)
               \/ HandleBlockProof(b)
    PROVE  IInv' /\ Allowed
  <1>1. Running /\ b \in known
    BY DEF HandleBlockBody, HandleTransactionReceipts, HandleAccountState, HandleBlockProof,
           Awaits
  <1>2. /\ held[b] \in SUBSET Transfer /\ inBody[b] \in SUBSET Transfer
        /\ inReceipts[b] \in SUBSET Transfer
        /\ request[b] \in Requests
        /\ held[b] # {} => request[b]["proof"] # "not needed"
    BY <1>1, RunningKnows, BlockAssumption DEF IInv, Requested, Proofs
  <1>3. CASE HandleBlockBody(b)
    <2> DEFINE more == IF inBody[b] = {} THEN {} ELSE {"receipts", "proof", "account"}
               r == Answered(request[b], "bodies", more)
               h == held[b] \cup inBody[b]
    <2>1. h \in SUBSET Transfer /\ "bodies" \in Part
          /\ (h # {} => request[b]["proof"] # "not needed" \/ "proof" \in more)
      BY <1>2 DEF Part
    <2>2. ExtendTransfers(b, r, h)
      BY <1>3 DEF HandleBlockBody
    <2> HIDE DEF more, h
    <2>3. r \in Requests /\ (h = {} \/ r["proof"] # "not needed")
      BY <1>2, <2>1, AnsweredType, AnsweredIs
    <2> HIDE DEF r
    <2> QED BY <1>1, <2>1, <2>2, <2>3, ExtendTransfersKeeps
  <1>4. CASE HandleTransactionReceipts(b)
    <2> DEFINE more == IF inReceipts[b] = {} THEN {} ELSE {"bodies", "proof"}
               r == Answered(request[b], "receipts", more)
               h == held[b] \cup inReceipts[b]
    <2>1. h \in SUBSET Transfer /\ "receipts" \in Part
          /\ (h # {} => request[b]["proof"] # "not needed" \/ "proof" \in more)
      BY <1>2 DEF Part
    <2>2. ExtendTransfers(b, r, h)
      BY <1>4 DEF HandleTransactionReceipts
    <2> HIDE DEF more, h
    <2>3. r \in Requests /\ (h = {} \/ r["proof"] # "not needed")
      BY <1>2, <2>1, AnsweredType, AnsweredIs
    <2> HIDE DEF r
    <2> QED BY <1>1, <2>1, <2>2, <2>3, ExtendTransfersKeeps
  <1>5. CASE HandleAccountState(b)
    <2> DEFINE r == Answered(request[b], "account", {})
    <2>1. ExtendTransfers(b, r, held[b])
      BY <1>5 DEF HandleAccountState
    <2>2. r \in Requests /\ (held[b] = {} \/ r["proof"] # "not needed")
      BY <1>2, AnsweredType, AnsweredIs DEF Part
    <2> HIDE DEF r
    <2> QED BY <1>1, <1>2, <2>1, <2>2, ExtendTransfersKeeps
  <1>6. CASE HandleBlockProof(b)
    <2> DEFINE r == Answered(request[b], "proof", {})
    <2>1. ExtendTransfers(b, r, held[b])
      BY <1>6 DEF HandleBlockProof
    <2>2. r \in Requests /\ (held[b] = {} \/ r["proof"] # "not needed")
      BY <1>2, AnsweredType, AnsweredIs DEF Part
    <2> HIDE DEF r
    <2> QED BY <1>1, <1>2, <2>1, <2>2, ExtendTransfersKeeps
  <1> QED BY <1>3, <1>4, <1>5, <1>6

LEMMA HandleAnnounceKeeps ==
    ASSUME IInv, NEW head, NEW depth, HandleAnnounce(head, depth)
    PROVE  IInv' /\ Allowed
  <1>1. /\ Running
        /\ UNCHANGED <<known, strays, request, held, status>>
    BY DEF HandleAnnounce
  <1>2. PICK n \in DOMAIN chain :
           /\ chain' = SubSeq(chain, 1, n)
           /\ orphans' = orphans \cup Range(SubSeq(chain, n + 1, Len(chain)))
           /\ pending' = pending \cup PendOrphaned(status, orphans')
    BY DEF HandleAnnounce, Stops
  <1>3. chain \in Chains /\ n \in 1..Len(chain)
    BY <1>1, RunningKnows, OnChain
  <1> DEFINE over == Range(SubSeq(chain, n + 1, Len(chain)))
  <1>4. /\ chain' \in Chains /\ LinkedFrom(chain', chain)
        /\ Range(chain') \subseteq Range(chain) /\ over \subseteq Range(chain)
        /\ Range(chain') \cap over = {}
    BY <1>2, <1>3, CutAt
  <1> HIDE DEF over
  <1>5. orphans' = orphans \cup over
    BY <1>2 DEF over
  <1>6. Typed'
    BY <1>1, <1>4, <1>5, RunningKnows DEF Typed
  <1>7. Apart'
    BY <1>1, <1>4, <1>5, RunningKnows DEF Apart
  <1>8. Requested' /\ Proofs' /\ Forgotten' /\ NothingWithheld'
    BY <1>1 DEF IInv, Requested, Proofs, Forgotten, NothingWithheld, Complete
  <1>9. Requeries
    BY <1>2 DEF Requeries, PendOrphaned
  <1>10. Running'
    BY <1>4 DEF Running, Chains
  <1> QED BY <1>4, <1>6, <1>7, <1>8, <1>9, <1>10 DEF IInv, Allowed, LastsInLine

\* The saved blocks make a chain in which none of them comes twice.
LEMMA RestoredIs ==
    ASSUME NEW saved \in SUBSET Block, NEW c \in Restored(saved)
    PROVE  c \in Chains /\ Range(c) \subseteq saved
  <1>1. Cardinality(saved) \in Nat
    BY BlockAssumption, FS_Subset, FS_CardinalityType
  <1>2. PICK n \in 1..Cardinality(saved) : c \in [1..n -> saved]
    BY DEF Restored
  <1>3. \A i, j \in DOMAIN c : c[i] = c[j] => i = j
    BY DEF Restored, IsInjective
  <1>4. n \in Nat /\ n > 0 /\ DOMAIN c = 1..n
    BY <1>1, <1>2
  <1>5. c \in Seq(Block) /\ Len(c) = n
    BY <1>2, <1>4
  <1>6. c # <<>>
    BY <1>4, <1>5, EmptySeq
  <1>7. c \in Chains
    BY <1>3, <1>4, <1>5, <1>6 DEF Chains
  <1>8. Range(c) \subseteq saved
    BY <1>2, <1>4 DEF Range
  <1> QED BY <1>7, <1>8

LEMMA InitIInv == Init => IInv
  <1> SUFFICES ASSUME Init PROVE IInv
    OBVIOUS
  <1>1. PICK saved \in Saved :
           /\ chain \in Restored(saved.blocks)
           /\ request = [b \in Block |-> IF b \in saved.waiting THEN Unasked ELSE NoRequest]
    BY DEF Init
  <1>2. saved.blocks \in SUBSET Block
    BY BlockAssumption
  <1>3. chain \in Chains /\ Range(chain) \subseteq Block /\ Genesis \in Block
    BY <1>1, <1>2, RestoredIs, BlockAssumption
  <1>4. Unasked \in Requests /\ NoRequest \in Requests
    BY DEF Unasked, NoRequest, Requests, Part, State
  <1>5. Requested
    BY <1>1, <1>4 DEF Requested
  <1>6. /\ known = {Genesis} \cup Range(chain)
        /\ orphans = {} /\ strays = {} /\ held = [x \in Block |-> {}]
    BY DEF Init
  <1>7. Typed /\ Apart
    BY <1>3, <1>6 DEF Typed, Apart
  <1>8. Proofs /\ Forgotten /\ NothingWithheld
    BY <1>3, <1>6 DEF Proofs, Forgotten, NothingWithheld
  <1> QED BY <1>5, <1>7, <1>8 DEF IInv

LEMMA NextIInv == IInv /\ [Next]_vars => IInv' /\ Allowed
  <1> SUFFICES ASSUME IInv, [Next]_vars PROVE IInv' /\ Allowed
    OBVIOUS
  <1>1. CASE UNCHANGED blocks
    BY <1>1, BlocksStay
  <1>2. ASSUME NEW b \in Block, HandleBlockHeader(b) PROVE IInv' /\ Allowed
    BY <1>2, HandleBlockHeaderKeeps
  <1>3. ASSUME NEW b \in Block, HandleSyncHeader(b) PROVE IInv' /\ Allowed
    BY <1>3, HandleSyncHeaderKeeps
  <1>4. ASSUME NEW b \in Block,
               HandleBlockBody(b) \/ HandleTransactionReceipts(b) \/ HandleAccountState(b)
                   \/ HandleBlockProof(b)
        PROVE  IInv' /\ Allowed
    BY <1>4, AnswersKeep
  <1>5. ASSUME NEW head \in Heads, NEW depth \in 1..(ReorgLimit - 1),
               HandleAnnounce(head, depth)
        PROVE  IInv' /\ Allowed
    BY <1>5, HandleAnnounceKeeps
  <1>6. CASE \/ \E head \in Heads : HandleStatus(head)
             \/ \E from \in Depths : StartSync(from)
             \/ SyncEnds \/ HandleTransaction \/ PeriodicDispatcher
             \/ \E t \in Transfer : \/ HandleSubmitTransaction(t)
                                   \/ \E r \in Reports(t) : HandleTransactionStatus(t, r)
             \/ UNCHANGED vars
    <2>1. UNCHANGED blocks
      BY <1>6 DEF HandleStatus, StartSync, SyncEnds, HandleTransaction, PeriodicDispatcher,
                  HandleSubmitTransaction, HandleTransactionStatus, vars, blocks
    <2> QED BY <1>1, <2>1
  <1> QED BY <1>2, <1>3, <1>4, <1>5, <1>6 DEF Next

-----------------------------------------------------------------------------
\* The invariant of the chain, its orphans and what the blocks hold, for every order
\* in which bcsCreate may chain the blocks that were saved.
THEOREM Invariance == Spec => []IInv
  <1>1. Init => IInv
    BY InitIInv
  <1>2. IInv /\ [Next]_vars => IInv'
    BY NextIInv
  <1> QED BY <1>1, <1>2, PTL DEF Spec

\* The chain is made of known blocks that are no orphans or strays, and every step
\* puts a block on its parent alone, whatever the start has chained and in whatever
\* order headers come.
THEOREM Linkage == Spec => ChainGrowsByChildren
  <1>1. IInv => (Running => /\ Range(chain) \cup orphans \cup strays \subseteq known
                           /\ Range(chain) \cap (orphans \cup strays) = {})
    BY DEF IInv, Apart
  <1>2. IInv /\ [Next]_vars =>
            [\A i \in 2..Len(chain') :
                \/ parent[chain'[i]] = chain'[i - 1]
                \/ \E j \in 2..Len(chain) : /\ chain[j] = chain'[i]
                                            /\ chain[j - 1] = chain'[i - 1]]_vars
    BY NextIInv DEF Allowed, LinkedFrom
  <1> QED BY <1>1, <1>2, Invariance, PTL DEF Spec, ChainGrowsByChildren

\* A chain that a start has found in line stays in line, and then no save can end the
\* process: only a header whose parent is known and on no chain does.
THEOREM Straightness ==
    Spec /\ InLine(chain) => /\ []InLine(chain)
                             /\ [][Running /\ ~Running' => \E b \in Block : HeaderAborts(b)]_vars
  <1>1. IInv /\ InLine(chain) /\ [Next]_vars => InLine(chain)'
    <2> SUFFICES ASSUME IInv, InLine(chain), [Next]_vars PROVE InLine(chain')
      BY DEF InLine
    <2>1. LinkedFrom(chain', chain)
      BY NextIInv DEF Allowed
    <2> QED BY <2>1, InLineStays
  <1>2. IInv /\ InLine(chain) /\ [Next]_vars =>
            [Running /\ ~Running' => \E b \in Block : HeaderAborts(b)]_vars
    BY NextIInv DEF Allowed, LastsInLine
  <1> QED BY <1>1, <1>2, Invariance, PTL DEF Spec

\* The last answer about a block hands out its transfers, in whatever order they come.
THEOREM HandsOut == Spec => []NothingWithheld
  <1>1. IInv => NothingWithheld
    BY DEF IInv
  <1> QED BY <1>1, Invariance, PTL

\* A transfer whose block a step takes off the chain is asked for again.
THEOREM AsksAgain == Spec => OrphanedIsPending
  <1>1. IInv /\ [Next]_vars =>
            [\A t \in Transfer :
                 status[t] \in Range(chain) /\ status[t] \in orphans' /\ Running'
                   => t \in pending']_vars
    BY NextIInv DEF Requeries, Allowed
  <1> QED BY <1>1, Invariance, PTL DEF Spec, OrphanedIsPending
=============================================================================
