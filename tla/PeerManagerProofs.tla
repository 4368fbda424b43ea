------------------------- MODULE PeerManagerProofs -------------------------
(***************************************************************************)
(* That nothing points to a peer that was freed, for any number of peers,   *)
(* failures, blocks, calls and submissions.  It holds because a thread's    *)
(* work is in order: a peer leaves the manager in the callback of its       *)
(* disconnection, which is followed by the cleanup that ends its thread and *)
(* by nothing else; and only a peer without a thread is taken on.           *)
(*                                                                          *)
(* The second part is about the same manager's block chain (PeerChain): its *)
(* tip, its orphans, the heights of the transactions and what a restart     *)
(* reads back, for any blocks.                                              *)
(***************************************************************************)
EXTENDS PeerSync, PeerChain, FiniteSetTheorems, SequenceTheorems, WellFoundedInduction, TLAPS

\* What a thread may have to do, and what any thread that runs may have to do first.
Items == Steps \cup Submissions
Later == {"Started", "Stopped", "Connect", "Continue", "LookedUp"} \cup Submissions

\* s is what a thread in state t has to do, for a peer that is connected if c.
Fits(s, t, c) ==
    /\ t \notin {"up", "ending"} => s = <<>>
    /\ \A i \in 1 .. Len(s) :
          /\ s[i] \in {"Connected", "Message"} => t = "up"
          /\ s[i] \in AnyError \cup {"Cleanup"} => t = "ending" /\ i = Len(s)
          /\ s[i] = "Cleanup" => ~c

\* What the caller lists is a submission, with which its call ends.
Lists(s) ==
    \A i \in 1 .. Len(s) : s[i] = "List" => i = 1 /\ Len(s) = 2 /\ s[2] \in Submissions

Typed ==
    /\ connectedPeers \in SUBSET Peers
    /\ status \in [Peers -> {"Disconnected", "Connecting", "Connected"}]
    /\ thread \in [Peers -> {"none", "starting", "opening", "up", "ending"}]
    /\ todo \in [Threads -> Seq(Items)] /\ Lists(todo[User])
    /\ callback \in Submissions \cup {NoSubmission}

InOrder(p) ==
    /\ Fits(todo[p], thread[p], p \in connectedPeers)
    /\ thread[p] \in {"starting", "opening", "up"} => p \in connectedPeers

\* The inductive invariant.
IInv == Typed /\ PeersLive /\ \A p \in Peers : InOrder(p)

-----------------------------------------------------------------------------
\* Nothing to do fits any thread.
LEMMA NothingFits ==
    ASSUME NEW t, NEW c
    PROVE  Fits(<<>>, t, c)
  BY DEF Fits

\* What is left fits when the first step was done.
LEMMA TailFits ==
    ASSUME NEW s \in Seq(Items), s # <<>>, NEW t, NEW c, Fits(s, t, c)
    PROVE  Tail(s) \in Seq(Items) /\ Fits(Tail(s), t, c)
  <1> DEFINE r == Tail(s)
  <1>1. /\ r \in Seq(Items) /\ Len(r) = Len(s) - 1 /\ Len(s) \in Nat
        /\ \A i \in 1 .. Len(r) : r[i] = s[i + 1]
    BY HeadTailProperties, LenProperties
  <1> HIDE DEF r
  <1>2. \A i \in 1 .. Len(r) : i + 1 \in 1 .. Len(s) /\ (i + 1 = Len(s) => i = Len(r))
    BY <1>1
  <1>3. t \in {"up", "ending"}
    BY DEF Fits
  <1>4. Fits(r, t, c)
    BY <1>1, <1>2, <1>3 DEF Fits
  <1> QED BY <1>1, <1>4 DEF r

\* Nothing is left of one step.
LEMMA TailOfOne ==
    ASSUME NEW s \in Seq(Items), Len(s) = 1
    PROVE  Tail(s) = <<>>
  <1> DEFINE r == Tail(s)
  <1>1. s # <<>>
    BY EmptySeq
  <1>2. r \in Seq(Items) /\ Len(r) = 0
    BY <1>1, HeadTailProperties
  <1> HIDE DEF r
  <1>3. r = <<>>
    BY <1>2, EmptySeq
  <1> QED BY <1>3 DEF r

\* Steps that a thread which runs may have to do fit before what it has to do.
LEMMA LaterFits ==
    ASSUME NEW n \in Seq(Later), NEW s \in Seq(Items), NEW t \in {"up", "ending"}, NEW c,
           Fits(s, t, c)
    PROVE  Fits(n \o s, t, c)
  <1>1. n \in Seq(Items)
    BY SeqMonotonic DEF Items, Later, Steps
  <1>2. /\ Len(n) \in Nat /\ Len(s) \in Nat /\ Len(n \o s) = Len(n) + Len(s)
        /\ \A i \in 1 .. Len(n) + Len(s) :
              (n \o s)[i] = IF i <= Len(n) THEN n[i] ELSE s[i - Len(n)]
    BY <1>1, ConcatProperties, LenProperties
  <1>3. \A i \in 1 .. Len(n) :
            n[i] \notin {"Connected", "Message", "Cleanup"} \cup AnyError
    <2> SUFFICES ASSUME NEW i \in 1 .. Len(n)
                 PROVE  n[i] \notin {"Connected", "Message", "Cleanup"} \cup AnyError
      OBVIOUS
    <2>1. n[i] \in Later
      BY ElementOfSeq
    <2> QED BY <2>1, ConstantsAssumption DEF Later, Steps, AnyError
  <1>4. ASSUME NEW i \in 1 .. Len(n \o s)
        PROVE  /\ (n \o s)[i] \in {"Connected", "Message"} => t = "up"
               /\ (n \o s)[i] \in AnyError \cup {"Cleanup"} => t = "ending" /\ i = Len(n \o s)
               /\ (n \o s)[i] = "Cleanup" => ~c
    <2>1. CASE i <= Len(n)
      BY <1>2, <1>3, <1>4, <2>1
    <2>2. CASE ~(i <= Len(n))
      <3>1. /\ i - Len(n) \in 1 .. Len(s) /\ (n \o s)[i] = s[i - Len(n)]
            /\ i - Len(n) = Len(s) => i = Len(n \o s)
        BY <1>2, <1>4, <2>2
      <3> QED BY <3>1 DEF Fits
    <2> QED BY <2>1, <2>2
  <1> QED BY <1>4 DEF Fits

\* A cleanup after them fits a thread that ends, once its peer is not connected.
LEMMA CleanupFits ==
    ASSUME NEW n \in Seq(Later)
    PROVE  n \o <<"Cleanup">> \in Seq(Items) /\ Fits(n \o <<"Cleanup">>, "ending", FALSE)
  <1>1. <<"Cleanup">> \in Seq(Items) /\ n \in Seq(Items)
    BY SeqMonotonic DEF Items, Later, Steps
  <1>2. Fits(<<"Cleanup">>, "ending", FALSE)
    BY DEF Fits
  <1> QED BY <1>1, <1>2, LaterFits, ConcatProperties

\* Steps that go before what is left list nothing.
LEMMA ListsLater ==
    ASSUME NEW n \in Seq(Later), NEW s \in Seq(Items), Lists(s)
    PROVE  Lists(n \o (IF s = <<>> THEN <<>> ELSE Tail(s)))
  <1> DEFINE r == IF s = <<>> THEN <<>> ELSE Tail(s)
  <1>1. n \in Seq(Items)
    BY SeqMonotonic DEF Items, Later, Steps
  <1>2. /\ r \in Seq(Items) /\ Len(s) \in Nat /\ Len(r) \in Nat
        /\ \A i \in 1 .. Len(r) : r[i] = s[i + 1] /\ i + 1 \in 1 .. Len(s)
    <2>1. CASE s = <<>>
      BY <2>1
    <2>2. CASE s # <<>>
      <3> DEFINE t == Tail(s)
      <3>1. /\ t \in Seq(Items) /\ Len(t) = Len(s) - 1 /\ Len(s) \in Nat
            /\ \A i \in 1 .. Len(t) : t[i] = s[i + 1]
        BY <2>2, HeadTailProperties, LenProperties
      <3>2. Len(t) \in Nat /\ r = t
        BY <2>2, <3>1, LenProperties
      <3> HIDE DEF t, r
      <3> QED BY <3>1, <3>2
    <2> QED BY <2>1, <2>2
  <1> HIDE DEF r
  <1>3. /\ Len(n) \in Nat /\ Len(n \o r) = Len(n) + Len(r)
        /\ \A i \in 1 .. Len(n) + Len(r) :
              (n \o r)[i] = IF i <= Len(n) THEN n[i] ELSE r[i - Len(n)]
    BY <1>1, <1>2, ConcatProperties, LenProperties
  <1>4. ASSUME NEW i \in 1 .. Len(n \o r)
        PROVE  (n \o r)[i] # "List"
    <2>1. CASE i <= Len(n)
      <3>1. (n \o r)[i] \in Later
        BY <1>3, <1>4, <2>1, ElementOfSeq
      <3> QED BY <3>1, ConstantsAssumption DEF Later, Steps
    <2>2. CASE ~(i <= Len(n))
      <3>1. i - Len(n) \in 1 .. Len(r) /\ (n \o r)[i] = r[i - Len(n)]
        BY <1>2, <1>3, <1>4, <2>2
      <3>2. r[i - Len(n)] = s[i - Len(n) + 1] /\ i - Len(n) + 1 \in 1 .. Len(s)
        BY <1>2, <3>1
      <3>3. i - Len(n) + 1 # 1
        BY <1>3, <3>1
      <3> QED BY <3>1, <3>2, <3>3 DEF Lists
    <2> QED BY <2>1, <2>2
  <1> QED BY <1>4 DEF Lists, r

\* The thread x goes on with steps that any thread which runs may have to do.
LEMMA ThenFits ==
    ASSUME Typed, \A p \in Peers : InOrder(p),
           NEW x \in Threads, x \in Peers => todo[x] # <<>>,
           NEW n \in Seq(Later), Then(x, n)
    PROVE  /\ todo' \in [Threads -> Seq(Items)] /\ Lists(todo'[User])
           /\ \A p \in Peers : Fits(todo'[p], thread[p], p \in connectedPeers)
           /\ \A p \in Peers : todo[p] = <<>> => todo'[p] = <<>>
  <1> DEFINE rest == IF todo[x] = <<>> THEN <<>> ELSE Tail(todo[x])
  <1>1. /\ todo \in [Threads -> Seq(Items)] /\ Lists(todo[User])
        /\ Peers \subseteq Threads /\ User \in Threads /\ User \notin Peers
    BY ConstantsAssumption DEF Typed, Threads
  <1>2. rest \in Seq(Items)
    BY <1>1, HeadTailProperties
  <1>3. n \in Seq(Items)
    BY SeqMonotonic DEF Items, Later, Steps
  <1>4. todo' = [todo EXCEPT ![x] = n \o rest]
    BY <1>1 DEF Then
  <1>5. n \o rest \in Seq(Items)
    BY <1>2, <1>3, ConcatProperties
  <1>6. ASSUME x \in Peers
        PROVE  Fits(n \o rest, thread[x], x \in connectedPeers)
    <2>1. /\ Fits(todo[x], thread[x], x \in connectedPeers)
          /\ todo[x] # <<>> /\ todo[x] \in Seq(Items)
      BY <1>1, <1>6 DEF InOrder
    <2>2. Fits(rest, thread[x], x \in connectedPeers)
      BY <2>1, TailFits
    <2>3. thread[x] \in {"up", "ending"}
      BY <2>1 DEF Fits
    <2> QED BY <1>2, <2>2, <2>3, LaterFits
  <1>7. Lists(n \o rest) \/ x # User
    BY <1>1, ListsLater, NothingFits
  <1> HIDE DEF rest
  <1>8. \A y \in Threads : todo'[y] = IF y = x THEN n \o rest ELSE todo[y]
    BY <1>1, <1>4
  <1> QED BY <1>1, <1>4, <1>5, <1>6, <1>7, <1>8 DEF InOrder


\* A step of a thread that changes no thread and no connected peer.
LEMMA KeepsPeers ==
    ASSUME IInv, UNCHANGED <<connectedPeers, thread>>,
           downloadPeer' \in connectedPeers \cup {NoPeer},
           callback' \in Submissions \cup {NoSubmission},
           status' \in [Peers -> {"Disconnected", "Connecting", "Connected"}],
           \A p \in Peers : ~Alive(p) => status'[p] = status[p],
           NEW x \in Threads, x \in Peers => todo[x] # <<>>,
           NEW n \in Seq(Later), Then(x, n)
    PROVE  IInv'
  <1>1. /\ todo' \in [Threads -> Seq(Items)] /\ Lists(todo'[User])
        /\ \A p \in Peers : Fits(todo'[p], thread[p], p \in connectedPeers)
    BY ThenFits DEF IInv
  <1>2. Typed'
    BY <1>1 DEF IInv, Typed
  <1>3. PeersLive'
    BY DEF IInv, Typed, PeersLive, Alive
  <1>4. (\A p \in Peers : InOrder(p))'
    BY <1>1 DEF IInv, InOrder
  <1> QED BY <1>2, <1>3, <1>4 DEF IInv

\* A call that changes no thread and no connected peer.
LEMMA CallKeepsPeers ==
    ASSUME IInv, UNCHANGED <<connectedPeers, thread>>,
           downloadPeer' \in connectedPeers \cup {NoPeer},
           callback' \in Submissions \cup {NoSubmission},
           status' \in [Peers -> {"Disconnected", "Connecting", "Connected"}],
           \A p \in Peers : ~Alive(p) => status'[p] = status[p],
           NEW n \in Seq(Items), Lists(n), todo' = [todo EXCEPT ![User] = n]
    PROVE  IInv'
  <1>1. /\ todo' \in [Threads -> Seq(Items)] /\ todo'[User] = n
        /\ \A p \in Peers : todo'[p] = todo[p]
    BY ConstantsAssumption DEF IInv, Typed, Threads
  <1>2. Typed'
    BY <1>1 DEF IInv, Typed
  <1>3. PeersLive'
    BY DEF IInv, Typed, PeersLive, Alive
  <1>4. (\A p \in Peers : InOrder(p))'
    BY <1>1 DEF IInv, InOrder
  <1> QED BY <1>2, <1>3, <1>4 DEF IInv

\* Telling peers to disconnect reaches those with a thread only.
LEMMA DisconnectsLive ==
    ASSUME Typed, NEW ps, status' = Disconnected(ps)
    PROVE  /\ status' \in [Peers -> {"Disconnected", "Connecting", "Connected"}]
           /\ \A p \in Peers : ~Alive(p) => status'[p] = status[p]
  BY DEF Typed, Disconnected, HasSocket, Alive

-----------------------------------------------------------------------------
\* The steps of a thread that connects.
LEMMA ConnectsIsDone ==
    ASSUME NEW x, Does(x, "Connect") \/ Connects(x), x # User
    PROVE  todo[x] # <<>>
  BY DEF Does, Connects

LEMMA StartSyncKeeps ==
    ASSUME IInv, NEW x \in Threads, StartSync(x)
    PROVE  IInv'
  <1>1. x \in Peers => todo[x] # <<>>
    BY ConnectsIsDone, ConstantsAssumption DEF StartSync
  <1>2. <<"Started", "Continue">> \in Seq(Later)
    BY DEF Later
  <1>3. Then(x, <<"Started", "Continue">>)
    BY DEF StartSync
  <1> QED BY <1>1, <1>2, <1>3, KeepsPeers DEF StartSync, IInv, Typed, PeersLive, peer, publish

\* Peers that have no thread are connected, the new ones among them.
LEMMA ConnectingKeeps ==
    ASSUME IInv, NEW x \in Threads, x \in Peers => todo[x] # <<>>,
           NEW n \in Seq(Later), Then(x, n),
           NEW new \in SUBSET {p \in Peers : ~Alive(p)},
           NEW retried \in SUBSET {p \in connectedPeers : ~Alive(p)},
           connectedPeers' = connectedPeers \cup new, Connecting(new \cup retried),
           UNCHANGED <<downloadPeer, callback>>
    PROVE  IInv'
  <1>1. /\ todo' \in [Threads -> Seq(Items)] /\ Lists(todo'[User])
        /\ \A p \in Peers : Fits(todo'[p], thread[p], p \in connectedPeers)
        /\ \A p \in Peers : todo[p] = <<>> => todo'[p] = <<>>
    BY ThenFits DEF IInv
  <1>2. /\ status' \in [Peers -> {"Disconnected", "Connecting", "Connected"}]
        /\ thread' \in [Peers -> {"none", "starting", "opening", "up", "ending"}]
        /\ \A p \in Peers : p \in new \cup retried => status'[p] = "Connecting"
        /\ \A p \in Peers \ (new \cup retried) : status'[p] = status[p] /\ thread'[p] = thread[p]
    BY DEF Connecting, IInv, Typed
  <1>3. Typed'
    BY <1>1, <1>2 DEF IInv, Typed
  <1>4. PeersLive'
    BY <1>2 DEF IInv, Typed, PeersLive, Alive
  <1>5. ASSUME NEW p \in Peers
        PROVE  InOrder(p)'
    <2>1. CASE p \in new \cup retried
      <3>1. thread[p] = "none" /\ todo'[p] = <<>>
        BY <1>1, <2>1 DEF Alive, IInv, InOrder, Fits
      <3> QED BY <2>1, <3>1, NothingFits DEF InOrder
    <2>2. CASE p \notin new \cup retried
      BY <1>1, <1>2, <2>2 DEF IInv, InOrder
    <2> QED BY <2>1, <2>2
  <1> QED BY <1>3, <1>4, <1>5 DEF IInv

LEMMA TakesOnKeeps ==
    ASSUME IInv, NEW x \in Threads, x \in Peers => todo[x] # <<>>,
           NEW retried \in SUBSET {p \in connectedPeers : ~Alive(p)},
           TakesOn(x, retried), UNCHANGED <<downloadPeer, callback>>
    PROVE  IInv'
  <1>1. PICK new \in SUBSET {p \in Peers \ connectedPeers : ~Alive(p)} :
            /\ connectedPeers' = connectedPeers \cup new
            /\ Connecting(new \cup retried)
            /\ Then(x, <<"Stopped">>) \/ Then(x, <<>>)
    BY DEF TakesOn
  <1>2. <<"Stopped">> \in Seq(Later) /\ <<>> \in Seq(Later)
    BY DEF Later
  <1> QED BY <1>1, <1>2, ConnectingKeeps

LEMMA ConnectPeersKeeps ==
    ASSUME IInv, NEW x \in Threads, ConnectPeers(x)
    PROVE  IInv'
  <1>1. x \in Peers => todo[x] # <<>>
    BY ConnectsIsDone, ConstantsAssumption DEF ConnectPeers, Does
  <1>2. WaitsForNetwork \in SUBSET {p \in connectedPeers : ~Alive(p)}
    BY DEF WaitsForNetwork
  <1>3. UNCHANGED <<downloadPeer, callback>>
    BY DEF ConnectPeers, publish
  <1>4. CASE TakesOn(x, WaitsForNetwork)
    BY <1>1, <1>2, <1>3, <1>4, TakesOnKeeps
  <1>5. CASE ~TakesOn(x, WaitsForNetwork)
    <2>1. /\ connectedPeers' = connectedPeers \cup {}
          /\ Connecting({} \cup WaitsForNetwork) /\ Then(x, <<"LookedUp">>)
      BY <1>5 DEF ConnectPeers
    <2>2. <<"LookedUp">> \in Seq(Later)
      BY DEF Later
    <2> QED BY <1>1, <1>2, <1>3, <2>1, <2>2, ConnectingKeeps
  <1> QED BY <1>4, <1>5

LEMMA FindPeersKeeps ==
    ASSUME IInv, NEW x \in Threads, FindPeers(x)
    PROVE  IInv'
  BY TakesOnKeeps DEF FindPeers, Does, publish

\* What a thread tells the owner.
LEMMA TellingKeeps ==
    ASSUME IInv, NEW x \in Threads,
           TxPublished(x) \/ \E what \in {"Started", "Stopped"} : CallsBack(x, what)
    PROVE  IInv'
  <1>1. x \in Peers => todo[x] # <<>>
    BY DEF TxPublished, CallsBack, Does
  <1>2. Then(x, <<>>) /\ <<>> \in Seq(Later)
    BY DEF TxPublished, CallsBack
  <1>3. UNCHANGED <<connectedPeers, thread, downloadPeer, status, callback>>
    BY DEF TxPublished, CallsBack, pm, peer, publish
  <1> QED BY <1>1, <1>2, <1>3, KeepsPeers DEF IInv, Typed, PeersLive

-----------------------------------------------------------------------------
\* The threads of peers.
LEMMA OpenSocketKeeps ==
    ASSUME IInv, NEW p \in Peers, OpenSocket(p)
    PROVE  IInv'
  <1>1. thread' = [thread EXCEPT ![p] = "opening"] /\ thread[p] = "starting"
    BY DEF OpenSocket
  <1>2. UNCHANGED <<connectedPeers, downloadPeer, status, callback, todo>>
    BY DEF OpenSocket, pm, publish
  <1>3. Typed'
    BY <1>1, <1>2 DEF IInv, Typed
  <1>4. PeersLive'
    BY <1>1, <1>2 DEF IInv, Typed, PeersLive, Alive
  <1>5. (\A q \in Peers : InOrder(q))'
    BY <1>1, <1>2 DEF IInv, Typed, InOrder, Fits
  <1> QED BY <1>3, <1>4, <1>5 DEF IInv

\* A thread that is up has one thing to do: what it was told of.
LEMMA OneThingFits ==
    ASSUME NEW what \in {"Connected", "Message"}, NEW c
    PROVE  <<what>> \in Seq(Items) /\ Fits(<<what>>, "up", c)
  BY DEF Fits, Items, Steps, AnyError

LEMMA DidConnectKeeps ==
    ASSUME IInv, NEW p \in Peers, DidConnect(p)
    PROVE  IInv'
  <1>1. /\ thread' = [thread EXCEPT ![p] = "up"] /\ thread[p] = "opening"
        /\ status' = [status EXCEPT ![p] = "Connected"]
        /\ todo' = [todo EXCEPT ![p] = <<"Connected">>]
    BY DEF DidConnect
  <1>2. UNCHANGED <<connectedPeers, downloadPeer, callback>>
    BY DEF DidConnect, pm, publish
  <1>3. <<"Connected">> \in Seq(Items) /\ \A c : Fits(<<"Connected">>, "up", c)
    BY OneThingFits
  <1>4. Typed'
    BY <1>1, <1>2, <1>3, ConstantsAssumption DEF IInv, Typed, Threads
  <1>5. PeersLive'
    BY <1>1, <1>2 DEF IInv, Typed, PeersLive, Alive
  <1>6. ASSUME NEW q \in Peers
        PROVE  InOrder(q)'
    BY <1>1, <1>2, <1>3 DEF IInv, Typed, InOrder, Threads
  <1> QED BY <1>4, <1>5, <1>6 DEF IInv

LEMMA ReadKeeps ==
    ASSUME IInv, NEW p \in Peers, Read(p)
    PROVE  IInv'
  <1>1. thread[p] = "up" /\ todo' = [todo EXCEPT ![p] = <<"Message">>]
    BY DEF Read
  <1>2. UNCHANGED <<connectedPeers, downloadPeer, status, thread, callback>>
    BY DEF Read, pm, peer, publish
  <1>3. <<"Message">> \in Seq(Items) /\ \A c : Fits(<<"Message">>, "up", c)
    BY OneThingFits
  <1>4. Typed' /\ PeersLive'
    BY <1>1, <1>2, <1>3, ConstantsAssumption DEF IInv, Typed, Threads, PeersLive, Alive
  <1>5. ASSUME NEW q \in Peers
        PROVE  InOrder(q)'
    BY <1>1, <1>2, <1>3 DEF IInv, Typed, InOrder, Threads
  <1> QED BY <1>4, <1>5 DEF IInv

LEMMA EndKeeps ==
    ASSUME IInv, NEW p \in Peers, End(p)
    PROVE  IInv'
  <1>1. /\ thread' = [thread EXCEPT ![p] = "ending"]
        /\ status' = [status EXCEPT ![p] = "Disconnected"]
        /\ thread[p] \in {"starting", "opening", "up"}
    BY DEF End, IInv, Typed, Alive
  <1>2. UNCHANGED <<connectedPeers, downloadPeer, callback>>
    BY DEF End, pm, publish
  <1>3. PICK error \in AnyError :
            todo' = [todo EXCEPT ![p] = IF "LoadFilter" \in awaited[p]
                                        THEN <<"LoadFilterFailed", error>> ELSE <<error>>]
    BY DEF End, Errors, AnyError
  <1>4. PICK s : s \in {<<"LoadFilterFailed", error>>, <<error>>} /\ todo' = [todo EXCEPT ![p] = s]
    BY <1>3
  <1>5. s \in Seq(Items) /\ Fits(s, "ending", TRUE)
    <2>1. CASE s = <<"LoadFilterFailed", error>>
      BY <2>1 DEF Fits, Items, Steps, AnyError
    <2>2. CASE s = <<error>>
      BY <2>2 DEF Fits, Items, Steps, AnyError
    <2> QED BY <1>4, <2>1, <2>2
  <1>6. Typed'
    BY <1>1, <1>2, <1>4, <1>5, ConstantsAssumption DEF IInv, Typed, Threads
  <1>7. PeersLive'
    BY <1>1, <1>2 DEF IInv, Typed, PeersLive, Alive
  <1>8. ASSUME NEW q \in Peers
        PROVE  InOrder(q)'
    <2>1. CASE q = p
      <3>1. p \in connectedPeers
        BY <1>1 DEF IInv, InOrder
      <3> QED BY <1>1, <1>2, <1>4, <1>5, <2>1, <3>1 DEF IInv, Typed, InOrder, Threads
    <2>2. CASE q # p
      BY <1>1, <1>2, <1>4, <2>2 DEF IInv, Typed, InOrder, Threads
    <2> QED BY <2>1, <2>2
  <1> QED BY <1>6, <1>7, <1>8 DEF IInv

\* The callback of the transaction, if there is one, is called later.
LEMMA PendingLater ==
    ASSUME Typed
    PROVE  Pending \in Seq(Later)
  <1>1. CASE callback = NoSubmission
    BY <1>1 DEF Pending
  <1>2. CASE callback # NoSubmission
    <2>1. callback \in Later
      BY <1>2 DEF Typed, Later
    <2> QED BY <1>2, <2>1 DEF Pending
  <1> QED BY <1>1, <1>2

\* What a peer's handler of a message does: only what its thread does next changes,
\* the status of peers that have a thread, and the callback of the transaction.
LEMMA MessageKeeps ==
    ASSUME IInv, NEW p \in Peers,
           LoadFilterDone(p) \/ MempoolDone(p) \/ RelayedBlock(p) \/ Misbehaves(p)
               \/ HasTx(p) \/ LoadFilterFailed(p)
    PROVE  IInv'
  <1>1. p \in Threads /\ todo[p] # <<>>
    BY DEF Threads, LoadFilterDone, MempoolDone, RelayedBlock, Misbehaves, HasTx,
           LoadFilterFailed, Does
  <1>2. UNCHANGED <<connectedPeers, thread, downloadPeer>>
    BY DEF LoadFilterDone, MempoolDone, RelayedBlock, Misbehaves, HasTx, LoadFilterFailed, pm
  <1>3. callback' \in Submissions \cup {NoSubmission}
    BY DEF LoadFilterDone, MempoolDone, RelayedBlock, Misbehaves, HasTx, LoadFilterFailed,
           publish, IInv, Typed
  <1>4. status' = status \/ status' = Disconnected({p})
    BY DEF LoadFilterDone, MempoolDone, RelayedBlock, Misbehaves, HasTx, LoadFilterFailed
  <1>5. /\ status' \in [Peers -> {"Disconnected", "Connecting", "Connected"}]
        /\ \A q \in Peers : ~Alive(q) => status'[q] = status[q]
    BY <1>4, DisconnectsLive DEF IInv, Typed
  <1>6. \E n \in Seq(Later) : Then(p, n)
    <2>1. Pending \in Seq(Later) /\ <<"Stopped">> \in Seq(Later) /\ <<>> \in Seq(Later)
      BY PendingLater DEF Later, IInv
    <2>2. Then(p, Pending) \/ Then(p, <<"Stopped">>) \/ Then(p, <<>>)
      BY DEF LoadFilterDone, MempoolDone, RelayedBlock, Misbehaves, HasTx, LoadFilterFailed
    <2> QED BY <2>1, <2>2
  <1> QED BY <1>1, <1>2, <1>3, <1>5, <1>6, KeepsPeers DEF IInv, Typed, PeersLive

\* Only a connected peer becomes the download peer.
LEMMA PeerConnectedKeeps ==
    ASSUME IInv, NEW p \in Peers, PeerConnected(p)
    PROVE  IInv'
  <1>1. p \in Threads /\ todo[p] # <<>> /\ Then(p, <<>>) /\ <<>> \in Seq(Later)
    BY DEF Threads, PeerConnected, Does
  <1>2. p \in connectedPeers
    <2>1. todo[p] \in Seq(Items) /\ 1 \in 1 .. Len(todo[p]) /\ todo[p][1] = "Connected"
      BY <1>1, EmptySeq, LenProperties DEF PeerConnected, Does, IInv, Typed
    <2>2. thread[p] = "up"
      BY <2>1 DEF IInv, InOrder, Fits
    <2> QED BY <2>2 DEF IInv, InOrder
  <1>3. UNCHANGED <<connectedPeers, thread, callback>>
    BY DEF PeerConnected, PeerRefused, PeerKept, PeerSelected, publish
  <1>4. downloadPeer' \in connectedPeers \cup {NoPeer}
    <2>1. CASE PeerRefused(p) \/ PeerKept(p)
      BY <2>1 DEF PeerRefused, PeerKept, pm, IInv, PeersLive
    <2>2. CASE PeerSelected(p)
      BY <1>2, <2>2 DEF PeerSelected, Connected
    <2> QED BY <2>1, <2>2 DEF PeerConnected
  <1>5. \/ status' = status \/ status' = Disconnected({p})
        \/ status' = Disconnected({downloadPeer})
    BY DEF PeerConnected, PeerRefused, PeerKept, PeerSelected
  <1>6. /\ status' \in [Peers -> {"Disconnected", "Connecting", "Connected"}]
        /\ \A q \in Peers : ~Alive(q) => status'[q] = status[q]
    BY <1>5, DisconnectsLive DEF IInv, Typed
  <1>7. callback' \in Submissions \cup {NoSubmission}
    BY <1>3 DEF IInv, Typed
  <1> QED BY <1>1, <1>3, <1>4, <1>6, <1>7, KeepsPeers

\* The peer is gone, and its thread has nothing to do but to connect and to clean up.
LEMMA PeerDisconnectedKeeps ==
    ASSUME IInv, NEW p \in Peers, NEW error \in AnyError, PeerDisconnected(p, error)
    PROVE  IInv'
  <1> DEFINE a == IF Cancels(p, error) THEN Pending ELSE <<>>
             b == IF GivesUp(p, error) THEN <<"Stopped">>
                  ELSE IF Failures(p, error) < MaxFailures THEN <<"Connect">> ELSE <<>>
  <1>1. a \in Seq(Later) /\ b \in Seq(Later)
    <2>1. Pending \in Seq(Later)
      BY PendingLater DEF IInv
    <2>2. <<"Stopped">> \in Seq(Later) /\ <<"Connect">> \in Seq(Later) /\ <<>> \in Seq(Later)
      BY DEF Later
    <2> QED BY <2>1, <2>2
  <1>2. a \o b \in Seq(Later)
    BY <1>1, ConcatProperties
  <1> DEFINE s == a \o b \o <<"Cleanup">>
  <1>3. s \in Seq(Items) /\ Fits(s, "ending", FALSE)
    BY <1>2, CleanupFits
  <1>4. /\ todo[p] \in Seq(Items) /\ todo[p] # <<>> /\ todo[p][1] = error
        /\ 1 \in 1 .. Len(todo[p])
    BY EmptySeq, LenProperties DEF PeerDisconnected, Does, IInv, Typed, Threads
  <1>5. thread[p] = "ending" /\ Len(todo[p]) = 1
    BY <1>4 DEF IInv, InOrder, Fits
  <1>6. Tail(todo[p]) = <<>>
    BY <1>4, <1>5, TailOfOne
  <1>7. Then(p, s)
    BY DEF PeerDisconnected
  <1> HIDE DEF s
  <1>8. todo' = [todo EXCEPT ![p] = s]
    <2>1. todo' = [todo EXCEPT ![p] = s \o <<>>]
      BY <1>4, <1>6, <1>7 DEF Then, IInv, Typed, Threads
    <2> QED BY <1>3, <2>1, ConcatEmptySeq
  <1>9. /\ connectedPeers' = connectedPeers \ {p} /\ downloadPeer' = Left(p)
        /\ callback' \in {callback, NoSubmission} /\ UNCHANGED <<status, thread>>
    BY DEF PeerDisconnected
  <1>10. Typed'
    BY <1>3, <1>8, <1>9, ConstantsAssumption DEF IInv, Typed, Threads
  <1>11. PeersLive'
    BY <1>9 DEF IInv, Typed, PeersLive, Left, Alive
  <1>12. ASSUME NEW q \in Peers
         PROVE  InOrder(q)'
    <2>1. CASE q = p
      <3>1. todo'[p] = s /\ thread'[p] = "ending" /\ (p \in connectedPeers') = FALSE
        BY <1>5, <1>8, <1>9 DEF IInv, Typed, Threads
      <3> QED BY <1>3, <2>1, <3>1 DEF InOrder
    <2>2. CASE q # p
      <3>1. /\ todo'[q] = todo[q] /\ thread'[q] = thread[q]
            /\ q \in connectedPeers' <=> q \in connectedPeers
        BY <1>8, <1>9, <2>2 DEF IInv, Typed, Threads
      <3> QED BY <3>1 DEF IInv, InOrder, Fits
    <2> QED BY <2>1, <2>2
  <1> QED BY <1>10, <1>11, <1>12 DEF IInv

\* The thread ends when it has nothing to do, and its peer was taken out before.
LEMMA ThreadCleanupKeeps ==
    ASSUME IInv, NEW p \in Peers, ThreadCleanup(p)
    PROVE  IInv'
  <1>1. /\ todo[p] \in Seq(Items) /\ todo[p] # <<>> /\ todo[p][1] = "Cleanup"
        /\ 1 \in 1 .. Len(todo[p])
    BY EmptySeq, LenProperties DEF ThreadCleanup, Does, IInv, Typed, Threads
  <1>2. Len(todo[p]) = 1 /\ p \notin connectedPeers
    BY <1>1 DEF IInv, InOrder, Fits
  <1>3. <<>> \o Tail(todo[p]) = <<>>
    BY <1>1, <1>2, TailOfOne
  <1>4. todo' = [todo EXCEPT ![p] = <<>>]
    BY <1>1, <1>3 DEF ThreadCleanup, Then, IInv, Typed, Threads
  <1>5. /\ thread' = [thread EXCEPT ![p] = "none"]
        /\ UNCHANGED <<connectedPeers, downloadPeer, status, callback>>
    BY DEF ThreadCleanup, pm, publish
  <1>6. Typed'
    BY <1>4, <1>5, ConstantsAssumption DEF IInv, Typed, Threads
  <1>7. PeersLive'
    BY <1>2, <1>5 DEF IInv, Typed, PeersLive, Alive
  <1>8. ASSUME NEW q \in Peers
        PROVE  InOrder(q)'
    <2>1. CASE q = p
      BY <1>4, <1>5, <2>1, NothingFits DEF IInv, Typed, InOrder, Threads
    <2>2. CASE q # p
      BY <1>4, <1>5, <2>2 DEF IInv, Typed, InOrder, Threads
    <2> QED BY <2>1, <2>2
  <1> QED BY <1>6, <1>7, <1>8 DEF IInv

-----------------------------------------------------------------------------
\* The calls.
LEMMA CallsKeep ==
    ASSUME IInv, Disconnect \/ DisconnectReturns \/ Rescan
    PROVE  IInv'
  <1>1. \E n \in Seq(Items) : Lists(n) /\ todo' = [todo EXCEPT ![User] = n]
    <2>1. /\ <<"Wait">> \in Seq(Items) /\ <<"Connect">> \in Seq(Items)
          /\ <<>> \in Seq(Items)
          /\ Lists(<<"Wait">>) /\ Lists(<<"Connect">>) /\ Lists(<<>>)
      BY DEF Items, Steps, Lists
    <2> QED BY <2>1 DEF Disconnect, DisconnectReturns, Rescan, Calls
  <1>2. UNCHANGED <<connectedPeers, thread, downloadPeer, callback>>
    BY DEF Disconnect, DisconnectReturns, Rescan, peer, publish
  <1>3. \/ status' = status \/ status' = Disconnected(connectedPeers)
        \/ status' = Disconnected({downloadPeer})
    BY DEF Disconnect, DisconnectReturns, Rescan, peer
  <1>4. /\ status' \in [Peers -> {"Disconnected", "Connecting", "Connected"}]
        /\ \A q \in Peers : ~Alive(q) => status'[q] = status[q]
    BY <1>3, DisconnectsLive DEF IInv, Typed
  <1> QED BY <1>1, <1>2, <1>4, CallKeepsPeers DEF IInv, Typed, PeersLive

LEMMA PublishKeeps ==
    ASSUME IInv, PublishTxListed \/ \E s \in Submissions : PublishTx(s)
    PROVE  IInv'
  <1>1. UNCHANGED <<connectedPeers, thread, downloadPeer, status>>
    BY DEF PublishTxListed, PublishTx, pm
  <1>2. CASE PublishTxListed
    <2>1. todo' = [todo EXCEPT ![User] = <<>>] /\ <<>> \in Seq(Items) /\ Lists(<<>>)
      BY <1>2 DEF PublishTxListed, Calls, Lists
    <2>2. todo[User][2] \in Submissions
      <3>1. todo[User] \in Seq(Items) /\ todo[User] # <<>> /\ todo[User][1] = "List"
        BY <1>2 DEF PublishTxListed, Does, IInv, Typed, Threads
      <3>2. 1 \in 1 .. Len(todo[User])
        BY <3>1, EmptySeq
      <3> QED BY <3>1, <3>2 DEF IInv, Typed, Lists
    <2>3. callback' \in Submissions \cup {NoSubmission}
      BY <1>2, <2>2 DEF PublishTxListed, AddToPublishList, IInv, Typed
    <2> QED BY <1>1, <2>1, <2>3, CallKeepsPeers DEF IInv, Typed, PeersLive
  <1>3. ASSUME NEW s \in Submissions, PublishTx(s)
        PROVE  IInv'
    <2>1. callback' \in Submissions \cup {NoSubmission}
      BY <1>3 DEF PublishTx, AddToPublishList, IInv, Typed
    <2>2. \E n \in Seq(Items) : Lists(n) /\ todo' = [todo EXCEPT ![User] = n]
      <3>1. /\ <<s>> \in Seq(Items) /\ <<"List", s>> \in Seq(Items)
            /\ todo[User] \in Seq(Items) /\ todo = [todo EXCEPT ![User] = todo[User]]
        BY DEF Items, Steps, IInv, Typed, Threads
      <3>2. Lists(<<s>>) /\ Lists(<<"List", s>>) /\ Lists(todo[User])
        BY ConstantsAssumption DEF Lists, Steps, IInv, Typed
      <3> QED BY <1>3, <3>1, <3>2 DEF PublishTx, Calls
    <2> QED BY <1>1, <2>1, <2>2, CallKeepsPeers DEF IInv, Typed, PeersLive
  <1> QED BY <1>2, <1>3

-----------------------------------------------------------------------------
\* The invariant holds from the start and at every step.
LEMMA InitIInv ==
    Init => IInv
  <1> SUFFICES ASSUME Init PROVE IInv
    OBVIOUS
  <1>1. \A p \in Peers : todo[p] = <<>> /\ thread[p] = "none"
    BY DEF Init, Threads
  <1>2. Typed
    BY DEF Init, Typed, Threads, Lists
  <1>3. PeersLive
    BY DEF Init, PeersLive
  <1> QED BY <1>1, <1>2, <1>3, NothingFits DEF IInv, InOrder

LEMMA NextIInv ==
    ASSUME IInv, [Next]_vars
    PROVE  IInv'
  <1>1. CASE UNCHANGED vars
    BY <1>1 DEF vars, pm, peer, publish, IInv, Typed, PeersLive, Alive, InOrder
  <1>2. ASSUME NEW x \in Threads, Goes(x)
        PROVE  IInv'
    BY <1>2, StartSyncKeeps, ConnectPeersKeeps, FindPeersKeeps, TellingKeeps DEF Goes
  <1>3. ASSUME NEW x \in Threads, NEW what \in {"Started", "Stopped"}, CallsBack(x, what)
        PROVE  IInv'
    BY <1>3, TellingKeeps
  <1>4. ASSUME NEW p \in Peers, Handles(p)
        PROVE  IInv'
    BY <1>4, PeerConnectedKeeps, MessageKeeps, ThreadCleanupKeeps, PeerDisconnectedKeeps
       DEF Handles
  <1>5. ASSUME NEW p \in Peers, OpenSocket(p) \/ DidConnect(p) \/ Read(p) \/ End(p)
        PROVE  IInv'
    BY <1>5, OpenSocketKeeps, DidConnectKeeps, ReadKeeps, EndKeeps
  <1>6. CASE SetNetworkReachable
    BY <1>6 DEF SetNetworkReachable, pm, peer, publish, IInv, Typed, PeersLive, Alive, InOrder
  <1>7. CASE Disconnect \/ Rescan \/ Returns \/ \E s \in Submissions : PublishTx(s)
    BY <1>7, CallsKeep, PublishKeeps DEF Returns
  <1> QED BY <1>1, <1>2, <1>3, <1>4, <1>5, <1>6, <1>7 DEF Next, Works, Threads

\* Every state satisfies the invariant.
THEOREM Invariance == Spec => []IInv
  <1>1. IInv /\ [Next]_vars => IInv'
    BY NextIInv
  <1> QED BY InitIInv, <1>1, PTL DEF Spec

\* Nothing points to a peer that its thread has freed (BRPeerManager.c, 852).
THEOREM NothingDangles == Spec => []PeersLive
  <1>1. IInv => PeersLive
    BY DEF IInv
  <1> QED BY Invariance, <1>1, PTL

\* The sync manager that owns a peer manager adds no behaviour to it: what is true
\* of the peer manager with any owner is true with this one.
THEOREM SyncImplements == SyncSpec => Spec
  <1>1. SyncInit => Init
    BY DEF SyncInit
  <1>2. [SyncNext]_syncVars => [Next]_vars
    BY DEF SyncNext, syncVars, Started, Stopped, TickTock, Next
  <1> QED BY <1>1, <1>2, PTL DEF SyncSpec, Spec

-----------------------------------------------------------------------------
(***************************************************************************)
(* A submission of the transaction is reported at most once.  It is in one  *)
(* place: not made yet, the callback of what is published, in what one      *)
(* thread has to do, or reported; and a step moves it, or drops it, but     *)
(* never copies it.                                                         *)
(***************************************************************************)
In(q, s) == \E i \in 1 .. Len(q) : q[i] = s
AtMostOnce(q, s) == \A i, j \in 1 .. Len(q) : q[i] = s /\ q[j] = s => i = j

\* The submission s is in one place at most.
Once(s) ==
    /\ reports[s] \in {0, 1}
    /\ \A x \in Threads : AtMostOnce(todo[x], s)
    /\ \A x, y \in Threads : In(todo[x], s) /\ In(todo[y], s) => x = y
    /\ callback = s => reports[s] = 0 /\ \A x \in Threads : ~In(todo[x], s)
    /\ reports[s] = 1 => \A x \in Threads : ~In(todo[x], s)
    /\ s \notin submitted =>
           reports[s] = 0 /\ callback # s /\ \A x \in Threads : ~In(todo[x], s)

\* The inductive invariant, with that of PeerManagerProofs.
InOnePlace ==
    /\ reports \in [Submissions -> Nat]
    /\ \A s \in Submissions : Once(s)

-----------------------------------------------------------------------------
\* What is in two sequences after each other.
LEMMA InConcat ==
    ASSUME NEW a \in Seq(Items), NEW b \in Seq(Items), NEW s
    PROVE  /\ a \o b \in Seq(Items)
           /\ In(a \o b, s) => In(a, s) \/ In(b, s)
           /\ AtMostOnce(a, s) /\ AtMostOnce(b, s) /\ ~(In(a, s) /\ In(b, s))
                  => AtMostOnce(a \o b, s)
  <1> DEFINE r == a \o b
  <1>1. /\ r \in Seq(Items) /\ Len(a) \in Nat /\ Len(b) \in Nat /\ Len(r) = Len(a) + Len(b)
        /\ \A i \in 1 .. Len(a) + Len(b) :
              r[i] = IF i <= Len(a) THEN a[i] ELSE b[i - Len(a)]
    BY ConcatProperties, LenProperties
  <1> HIDE DEF r
  <1>2. \A i \in 1 .. Len(r) :
            \/ i \in 1 .. Len(a) /\ r[i] = a[i]
            \/ i - Len(a) \in 1 .. Len(b) /\ r[i] = b[i - Len(a)]
    BY <1>1
  <1>3. In(r, s) => In(a, s) \/ In(b, s)
    BY <1>2 DEF In
  <1>4. ASSUME AtMostOnce(a, s), AtMostOnce(b, s), ~(In(a, s) /\ In(b, s))
        PROVE  AtMostOnce(r, s)
    <2> SUFFICES ASSUME NEW i \in 1 .. Len(r), NEW j \in 1 .. Len(r), r[i] = s, r[j] = s
                 PROVE  i = j
      BY DEF AtMostOnce
    <2>1. CASE In(a, s)
      <3>1. i \in 1 .. Len(a) /\ a[i] = s /\ j \in 1 .. Len(a) /\ a[j] = s
        BY <1>2, <1>4, <2>1 DEF In
      <3> QED BY <1>4, <3>1 DEF AtMostOnce
    <2>2. CASE ~In(a, s)
      <3>1. /\ i - Len(a) \in 1 .. Len(b) /\ b[i - Len(a)] = s
            /\ j - Len(a) \in 1 .. Len(b) /\ b[j - Len(a)] = s
        BY <1>2, <2>2 DEF In
      <3>2. i - Len(a) = j - Len(a)
        BY <1>4, <3>1 DEF AtMostOnce
      <3> QED BY <1>1, <3>2
    <2> QED BY <2>1, <2>2
  <1> QED BY <1>1, <1>3, <1>4 DEF r

\* What is left when the first thing to do is done.
Rest(q) == IF q = <<>> THEN <<>> ELSE Tail(q)

LEMMA InRest ==
    ASSUME NEW q \in Seq(Items), NEW s, AtMostOnce(q, s)
    PROVE  /\ Rest(q) \in Seq(Items)
           /\ In(Rest(q), s) => In(q, s)
           /\ AtMostOnce(Rest(q), s)
           /\ q # <<>> /\ Head(q) = s => In(q, s) /\ ~In(Rest(q), s)
  <1>1. CASE q = <<>>
    BY <1>1 DEF Rest, In, AtMostOnce
  <1>2. CASE q # <<>>
    <2> DEFINE r == Tail(q)
    <2>1. /\ r \in Seq(Items) /\ Len(r) = Len(q) - 1 /\ Len(q) \in Nat
          /\ \A i \in 1 .. Len(r) : r[i] = q[i + 1]
          /\ Rest(q) = r /\ Head(q) = q[1] /\ Len(q) # 0
      BY <1>2, HeadTailProperties, LenProperties, EmptySeq DEF Rest
    <2> HIDE DEF r
    <2>2. \A i \in 1 .. Len(r) : i + 1 \in 1 .. Len(q) /\ i + 1 # 1
      BY <2>1
    <2>3. In(r, s) => In(q, s)
      BY <2>1, <2>2 DEF In
    <2>4. AtMostOnce(r, s)
      <3> SUFFICES ASSUME NEW i \in 1 .. Len(r), NEW j \in 1 .. Len(r), r[i] = s, r[j] = s
                   PROVE  i = j
        BY DEF AtMostOnce
      <3>1. i + 1 = j + 1
        BY <2>1, <2>2 DEF AtMostOnce
      <3> QED BY <3>1
    <2>5. ASSUME Head(q) = s
          PROVE  In(q, s) /\ ~In(r, s)
      <3>1. 1 \in 1 .. Len(q) /\ q[1] = s
        BY <2>1, <2>5
      <3> QED BY <2>1, <2>2, <3>1 DEF In, AtMostOnce
    <2> QED BY <2>1, <2>3, <2>4, <2>5
  <1> QED BY <1>1, <1>2

\* A submission that is somewhere after a step of thread x was not made before, or
\* was where x could take it from.
LEMMA Moves ==
    ASSUME NEW s \in Submissions, Once(s), todo \in [Threads -> Seq(Items)],
           NEW x \in Threads, NEW n, todo' = [todo EXCEPT ![x] = n],
           AtMostOnce(n, s), submitted \subseteq submitted', reports'[s] \in {0, 1},
           callback' = s \/ In(n, s) \/ reports'[s] = 1 =>
               /\ s \in submitted'
               /\ s \notin submitted \/ callback = s \/ In(todo[x], s) \/ reports[s] = 1,
           ~(callback' = s /\ In(n, s)),
           ~(callback' = s /\ reports'[s] = 1),
           ~(In(n, s) /\ reports'[s] = 1)
    PROVE  Once(s)'
  <1>1. \A y \in Threads : todo'[y] = IF y = x THEN n ELSE todo[y]
    OBVIOUS
  <1>2. ASSUME NEW y \in Threads, y # x, In(todo[y], s)
        PROVE  callback' # s /\ ~In(n, s) /\ reports'[s] = 0 /\ s \in submitted'
    BY <1>2 DEF Once
  <1> QED BY <1>1, <1>2 DEF Once

\* Thread x goes on with l, in which there is no submission but the callback's, which
\* is then no longer to be called.
LEMMA ThenMoves ==
    ASSUME Typed, InOnePlace, NEW x \in Threads, NEW l \in Seq(Items), Then(x, l),
           UNCHANGED <<reports, submitted>>, callback' \in {callback, NoSubmission},
           \A s \in Submissions : AtMostOnce(l, s) /\ (In(l, s) => callback = s),
           callback' = callback => \A s \in Submissions : ~In(l, s)
    PROVE  InOnePlace'
  <1>1. todo' = [todo EXCEPT ![x] = l \o Rest(todo[x])] /\ todo \in [Threads -> Seq(Items)]
    BY DEF Then, Rest, Typed
  <1>2. ASSUME NEW s \in Submissions
        PROVE  Once(s)'
    <2>1. Once(s) /\ todo[x] \in Seq(Items) /\ AtMostOnce(todo[x], s)
      BY <1>1 DEF InOnePlace, Once
    <2>2. /\ Rest(todo[x]) \in Seq(Items) /\ AtMostOnce(Rest(todo[x]), s)
          /\ In(Rest(todo[x]), s) => In(todo[x], s)
      BY <2>1, InRest
    <2>3. In(l, s) => ~In(Rest(todo[x]), s) /\ callback' # s
      BY <2>1, <2>2, ConstantsAssumption DEF Once
    <2> DEFINE n == l \o Rest(todo[x])
    <2>4. AtMostOnce(n, s) /\ (In(n, s) => In(l, s) \/ In(Rest(todo[x]), s))
      BY <2>2, <2>3, InConcat
    <2>5. todo' = [todo EXCEPT ![x] = n]
      BY <1>1
    <2> HIDE DEF n
    <2>6. callback' = s => callback = s
      BY ConstantsAssumption
    <2>7. In(n, s) => callback' # s /\ reports[s] # 1 /\ (callback = s \/ In(todo[x], s))
      BY <2>1, <2>2, <2>3, <2>4, <2>6 DEF Once
    <2>8. callback' = s => reports[s] # 1
      BY <2>1, <2>6 DEF Once
    <2>9. callback = s \/ In(todo[x], s) \/ reports[s] = 1 => s \in submitted
      BY <2>1 DEF Once
    <2>10. reports'[s] = reports[s] /\ reports[s] \in {0, 1} /\ submitted' = submitted
      BY <2>1 DEF Once
    <2> QED BY <1>1, <2>1, <2>4, <2>5, <2>6, <2>7, <2>8, <2>9, <2>10, Moves
  <1> QED BY <1>2 DEF InOnePlace

\* Nothing of what a thread is given to do is a submission.
LEMMA GivenMoves ==
    ASSUME Typed, InOnePlace, NEW x \in Threads, NEW n, todo' = [todo EXCEPT ![x] = n],
           UNCHANGED <<reports, submitted, callback>>,
           \A s \in Submissions : ~In(n, s)
    PROVE  InOnePlace'
  <1>1. ASSUME NEW s \in Submissions
        PROVE  Once(s)'
    <2>1. Once(s) /\ AtMostOnce(n, s) /\ ~In(n, s)
      BY DEF InOnePlace, AtMostOnce, In
    <2>2. reports'[s] = reports[s] /\ reports[s] \in {0, 1} /\ submitted' = submitted
      BY <2>1 DEF Once
    <2>3. callback = s \/ reports[s] = 1 => s \in submitted
      BY <2>1 DEF Once
    <2>4. ~(callback = s /\ reports[s] = 1)
      BY <2>1 DEF Once
    <2> QED BY <2>1, <2>2, <2>3, <2>4, Moves DEF Typed
  <1> QED BY <1>1 DEF InOnePlace

\* Short lists of things to do.  The names of steps are no submissions.
LEMMA FewItems ==
    ASSUME NEW a \in Items, NEW b \in Items
    PROVE  <<>> \in Seq(Items) /\ <<a>> \in Seq(Items) /\ <<a, b>> \in Seq(Items)
  OBVIOUS

LEMMA StepsTell ==
    ASSUME NEW s \in Submissions, NEW a \in Steps, NEW b \in Steps
    PROVE  /\ ~In(<<>>, s) /\ ~In(<<a>>, s) /\ ~In(<<a, b>>, s)
           /\ a \in Items /\ b \in Items
  BY ConstantsAssumption DEF In, Items

-----------------------------------------------------------------------------
\* The handlers of threads.
LEMMA NoneMoves ==
    ASSUME Typed, InOnePlace, NEW x \in Threads,
           Then(x, <<>>) \/ (\E a \in Steps : Then(x, <<a>>))
               \/ (\E a, b \in Steps : Then(x, <<a, b>>)),
           UNCHANGED <<reports, submitted, callback>>
    PROVE  InOnePlace'
  <1>1. PICK l \in Seq(Items) : Then(x, l) /\ \A s \in Submissions : ~In(l, s)
    <2>1. CASE Then(x, <<>>)
      <3>1. <<>> \in Seq(Items) /\ \A s \in Submissions : ~In(<<>>, s)
        BY DEF In
      <3> QED BY <2>1, <3>1
    <2>2. ASSUME NEW a \in Steps, Then(x, <<a>>)
          PROVE  \E l \in Seq(Items) : Then(x, l) /\ \A s \in Submissions : ~In(l, s)
      <3>1. a \in Items
        BY DEF Items
      <3>2. <<a>> \in Seq(Items) /\ \A s \in Submissions : ~In(<<a>>, s)
        BY <3>1, FewItems, StepsTell
      <3> QED BY <2>2, <3>2
    <2>3. ASSUME NEW a \in Steps, NEW b \in Steps, Then(x, <<a, b>>)
          PROVE  \E l \in Seq(Items) : Then(x, l) /\ \A s \in Submissions : ~In(l, s)
      <3>1. a \in Items /\ b \in Items
        BY DEF Items
      <3>2. <<a, b>> \in Seq(Items) /\ \A s \in Submissions : ~In(<<a, b>>, s)
        BY <3>1, FewItems, StepsTell
      <3> QED BY <2>3, <3>2
    <2> QED BY <2>1, <2>2, <2>3
  <1>2. \A s \in Submissions : AtMostOnce(l, s)
    BY <1>1 DEF In, AtMostOnce
  <1> QED BY <1>1, <1>2, ThenMoves

LEMMA ConnectMoves ==
    ASSUME Typed, InOnePlace, NEW x \in Threads,
           StartSync(x) \/ ConnectPeers(x) \/ FindPeers(x)
               \/ \E what \in {"Started", "Stopped"} : CallsBack(x, what)
    PROVE  InOnePlace'
  <1>1. Then(x, <<>>) \/ (\E a \in Steps : Then(x, <<a>>))
            \/ (\E a, b \in Steps : Then(x, <<a, b>>))
    <2>1. "Started" \in Steps /\ "Continue" \in Steps /\ "Stopped" \in Steps /\ "LookedUp" \in Steps
      BY DEF Steps
    <2> QED BY <2>1 DEF StartSync, ConnectPeers, FindPeers, TakesOn, CallsBack
  <1>2. UNCHANGED <<reports, submitted, callback>>
    BY DEF StartSync, ConnectPeers, FindPeers, CallsBack, publish
  <1> QED BY <1>1, <1>2, NoneMoves

LEMMA MessageMoves ==
    ASSUME Typed, InOnePlace, NEW p \in Peers,
           PeerConnected(p) \/ LoadFilterDone(p) \/ MempoolDone(p) \/ RelayedBlock(p)
               \/ Misbehaves(p) \/ LoadFilterFailed(p) \/ ThreadCleanup(p)
    PROVE  InOnePlace'
  <1>1. Then(p, <<>>) \/ Then(p, <<"Stopped">>)
    BY DEF PeerConnected, LoadFilterDone, MempoolDone, RelayedBlock, Misbehaves,
           LoadFilterFailed, ThreadCleanup
  <1>2. UNCHANGED <<reports, submitted, callback>>
    BY DEF PeerConnected, LoadFilterDone, MempoolDone, RelayedBlock, Misbehaves,
           LoadFilterFailed, ThreadCleanup, publish
  <1>3. "Stopped" \in Steps /\ p \in Threads
    BY DEF Steps, Threads
  <1> QED BY <1>1, <1>2, <1>3, NoneMoves

\* The threads of peers are told what to do.
LEMMA ThreadMoves ==
    ASSUME Typed, InOnePlace, NEW p \in Peers, DidConnect(p) \/ Read(p) \/ End(p)
    PROVE  InOnePlace'
  <1>1. PICK n : todo' = [todo EXCEPT ![p] = n] /\ \A s \in Submissions : ~In(n, s)
    <2>1. {"Connected", "Message", "LoadFilterFailed"} \cup AnyError \subseteq Steps
      BY DEF Steps
    <2>2. CASE DidConnect(p) \/ Read(p)
      <3>1. \A s \in Submissions : ~In(<<"Connected">>, s) /\ ~In(<<"Message">>, s)
        BY <2>1, StepsTell
      <3> QED BY <2>2, <3>1 DEF DidConnect, Read
    <2>3. CASE End(p)
      <3>1. PICK error \in AnyError :
                todo' = [todo EXCEPT ![p] = IF "LoadFilter" \in awaited[p]
                                            THEN <<"LoadFilterFailed", error>> ELSE <<error>>]
        BY <2>3 DEF End, Errors, AnyError
      <3>2. \A s \in Submissions : ~In(<<"LoadFilterFailed", error>>, s) /\ ~In(<<error>>, s)
        BY <2>1, StepsTell
      <3> QED BY <3>1, <3>2
    <2> QED BY <2>2, <2>3
  <1>2. UNCHANGED <<reports, submitted, callback>> /\ p \in Threads
    BY DEF DidConnect, Read, End, publish, Threads
  <1> QED BY <1>1, <1>2, GivenMoves

\* The callback is taken, to be called.
LEMMA PendingIs ==
    ASSUME Typed
    PROVE  /\ Pending \in Seq(Items)
           /\ \A s : AtMostOnce(Pending, s) /\ (In(Pending, s) => callback = s)
  <1>1. callback \in Items \/ callback = NoSubmission
    BY DEF Typed, Items
  <1>2. Pending \in Seq(Items)
    BY <1>1, FewItems DEF Pending
  <1>3. ASSUME NEW s
        PROVE  AtMostOnce(Pending, s) /\ (In(Pending, s) => callback = s)
    BY DEF Pending, In, AtMostOnce
  <1> QED BY <1>2, <1>3

LEMMA HasTxMoves ==
    ASSUME Typed, InOnePlace, NEW p \in Peers, HasTx(p)
    PROVE  InOnePlace'
  <1>1. /\ Then(p, Pending) /\ callback' = NoSubmission /\ UNCHANGED <<reports, submitted>>
        /\ p \in Threads
    BY DEF HasTx, Threads
  <1>2. Pending \in Seq(Items)
    BY PendingIs
  <1>3. \A s \in Submissions : AtMostOnce(Pending, s) /\ (In(Pending, s) => callback = s)
    BY PendingIs
  <1>4. callback' = callback => \A s \in Submissions : ~In(Pending, s)
    BY <1>1 DEF Pending, In
  <1> QED BY <1>1, <1>2, <1>3, <1>4, ThenMoves

\* A submission is given up with the peer, or stays.
LEMMA PeerDisconnectedMoves ==
    ASSUME Typed, InOnePlace, NEW p \in Peers, NEW error \in AnyError,
           PeerDisconnected(p, error)
    PROVE  InOnePlace'
  <1> DEFINE a == IF Cancels(p, error) THEN Pending ELSE <<>>
             b == IF GivesUp(p, error) THEN <<"Stopped">>
                  ELSE IF Failures(p, error) < MaxFailures THEN <<"Connect">> ELSE <<>>
             c == <<"Cleanup">>
  <1>1. /\ Then(p, a \o b \o c) /\ UNCHANGED <<reports, submitted>> /\ p \in Threads
        /\ callback' = IF Cancels(p, error) THEN NoSubmission ELSE callback
    BY DEF PeerDisconnected, Threads
  <1>2. a \in Seq(Items) /\ b \in Seq(Items) /\ c \in Seq(Items)
    <2>1. "Stopped" \in Items /\ "Connect" \in Items /\ "Cleanup" \in Items
      BY DEF Items, Steps
    <2> QED BY <2>1, PendingIs, FewItems
  <1>3. ASSUME NEW s \in Submissions
        PROVE  /\ AtMostOnce(a, s) /\ (In(a, s) => callback = s /\ callback' # callback)
               /\ ~In(b, s) /\ ~In(c, s)
    <2>1. AtMostOnce(Pending, s) /\ (In(Pending, s) => callback = s)
      BY PendingIs
    <2>2. AtMostOnce(<<>>, s) /\ ~In(<<>>, s)
      BY DEF AtMostOnce, In
    <2>3. In(a, s) => callback = s /\ callback' # callback
      BY <1>1, <2>1, <2>2, ConstantsAssumption
    <2>4. "Stopped" \in Steps /\ "Connect" \in Steps /\ "Cleanup" \in Steps
      BY DEF Steps
    <2>5. ~In(b, s) /\ ~In(c, s)
      BY <2>2, <2>4, StepsTell
    <2> QED BY <2>1, <2>2, <2>3, <2>5
  <1> HIDE DEF a, b, c
  <1>4. a \o b \o c \in Seq(Items)
    BY <1>2, InConcat
  <1>5. ASSUME NEW s \in Submissions
        PROVE  AtMostOnce(a \o b \o c, s) /\ (In(a \o b \o c, s) => In(a, s))
    <2>1. AtMostOnce(b, s) /\ AtMostOnce(c, s)
      BY <1>3 DEF In, AtMostOnce
    <2>2. a \o b \in Seq(Items) /\ AtMostOnce(a \o b, s) /\ (In(a \o b, s) => In(a, s))
      BY <1>2, <1>3, <2>1, InConcat
    <2> QED BY <1>2, <1>3, <2>1, <2>2, InConcat
  <1> QED BY <1>1, <1>3, <1>4, <1>5, ThenMoves

\* A report is made.
LEMMA TxPublishedMoves ==
    ASSUME Typed, InOnePlace, NEW x \in Threads, TxPublished(x)
    PROVE  InOnePlace'
  <1>1. PICK u \in Submissions :
            Does(x, u) /\ reports' = [reports EXCEPT ![u] = @ + 1]
    BY DEF TxPublished
  <1>2. /\ todo \in [Threads -> Seq(Items)] /\ todo[x] \in Seq(Items)
        /\ todo' = [todo EXCEPT ![x] = <<>> \o Rest(todo[x])]
        /\ UNCHANGED <<callback, submitted>>
    BY DEF TxPublished, Then, Rest, Typed
  <1>3. Rest(todo[x]) \in Seq(Items)
    BY <1>2, HeadTailProperties DEF Rest
  <1> DEFINE n == Rest(todo[x])
  <1>4. todo' = [todo EXCEPT ![x] = n]
    BY <1>2, <1>3, ConcatEmptySeq
  <1>5. ASSUME NEW s \in Submissions
        PROVE  Once(s)'
    <2>1. Once(s) /\ AtMostOnce(todo[x], s) /\ reports[s] \in {0, 1}
      BY DEF InOnePlace, Once
    <2>2. /\ AtMostOnce(n, s) /\ (In(n, s) => In(todo[x], s))
          /\ s = u => In(todo[x], s) /\ ~In(n, s)
      BY <1>1, <1>2, <2>1, InRest DEF Does
    <2> HIDE DEF n
    <2>3. /\ s = u => reports[s] = 0 /\ reports'[s] = 1 /\ callback # s
          /\ s # u => reports'[s] = reports[s]
      BY <1>1, <2>1, <2>2 DEF InOnePlace, Once
    <2>4. callback = s \/ In(todo[x], s) \/ reports[s] = 1 => s \in submitted
      BY <2>1 DEF Once
    <2>5. reports'[s] = 1 => reports[s] = 1 \/ s = u
      BY <2>3
    <2>6. /\ ~(callback = s /\ In(n, s)) /\ ~(callback = s /\ reports'[s] = 1)
          /\ ~(In(n, s) /\ reports'[s] = 1)
      BY <2>1, <2>2, <2>3, <2>5 DEF Once
    <2>7. reports'[s] \in {0, 1}
      BY <2>1, <2>3
    <2> QED BY <1>2, <1>4, <2>1, <2>2, <2>4, <2>5, <2>6, <2>7, Moves
  <1>6. reports' \in [Submissions -> Nat]
    BY <1>1 DEF InOnePlace
  <1> QED BY <1>5, <1>6 DEF InOnePlace

-----------------------------------------------------------------------------
\* The calls.
LEMMA CallMoves ==
    ASSUME Typed, InOnePlace, Disconnect \/ DisconnectReturns \/ Rescan
    PROVE  InOnePlace'
  <1>1. PICK n \in {<<"Wait">>, <<"Connect">>, <<>>} : todo' = [todo EXCEPT ![User] = n]
    BY DEF Disconnect, DisconnectReturns, Rescan, Calls
  <1>2. UNCHANGED <<reports, submitted, callback>> /\ User \in Threads
    BY DEF Disconnect, DisconnectReturns, Rescan, publish, Threads
  <1>3. \A s \in Submissions : ~In(n, s)
    <2>1. "Wait" \in Steps /\ "Connect" \in Steps
      BY DEF Steps
    <2> QED BY <1>1, <2>1, StepsTell
  <1> QED BY <1>1, <1>2, <1>3, GivenMoves

LEMMA PublishTxMoves ==
    ASSUME Typed, InOnePlace, NEW u \in Submissions, PublishTx(u)
    PROVE  InOnePlace'
  <1>1. /\ u \notin submitted /\ submitted' = submitted \cup {u} /\ todo[User] = <<>>
        /\ UNCHANGED reports /\ User \in Threads /\ todo \in [Threads -> Seq(Items)]
    BY DEF PublishTx, Called, Idle, Threads, Typed
  <1>2. PICK n \in {<<>>, <<u>>, <<"List", u>>} :
            /\ todo' = [todo EXCEPT ![User] = n]
            /\ callback' \in {callback, u}
            /\ callback' = callback \/ n = <<>>
    <2>1. todo = [todo EXCEPT ![User] = <<>>]
      BY <1>1
    <2> QED BY <2>1 DEF PublishTx, AddToPublishList, Calls
  <1>3. ASSUME NEW s \in Submissions
        PROVE  Once(s)'
    <2>1. Once(s) /\ reports[s] \in {0, 1}
      BY DEF InOnePlace, Once
    <2>2. "List" # s
      BY ConstantsAssumption DEF Steps
    <2>3. AtMostOnce(n, s) /\ (In(n, s) => s = u /\ n # <<>>)
      BY <1>2, <2>2 DEF AtMostOnce, In
    <2>4. s = u => reports[s] = 0 /\ callback # s /\ s \notin submitted
      BY <1>1, <2>1 DEF Once
    <2>5. callback = s \/ reports[s] = 1 => s \in submitted
      BY <2>1 DEF Once
    <2>6. callback' = s => s = u \/ callback = s
      BY <1>2
    <2>7. /\ ~(callback' = s /\ In(n, s)) /\ ~(callback' = s /\ reports[s] = 1)
          /\ ~(In(n, s) /\ reports[s] = 1)
      BY <1>2, <2>1, <2>3, <2>4, <2>6 DEF Once
    <2> QED BY <1>1, <1>2, <2>1, <2>3, <2>4, <2>5, <2>6, <2>7, Moves
  <1> QED BY <1>1, <1>3 DEF InOnePlace

\* What is listed becomes the callback, if the transaction was not listed meanwhile.
LEMMA ListedMoves ==
    ASSUME Typed, InOnePlace, PublishTxListed
    PROVE  InOnePlace'
  <1>1. /\ Does(User, "List") /\ todo' = [todo EXCEPT ![User] = <<>>]
        /\ callback' \in {callback, todo[User][2]}
        /\ UNCHANGED <<reports, submitted>> /\ User \in Threads
        /\ todo \in [Threads -> Seq(Items)] /\ todo[User] \in Seq(Items)
    BY DEF PublishTxListed, AddToPublishList, Calls, Threads, Typed
  <1>2. Len(todo[User]) = 2
    <2>1. 1 \in 1 .. Len(todo[User]) /\ todo[User][1] = "List"
      BY <1>1, EmptySeq DEF Does
    <2> QED BY <2>1 DEF Lists, Typed
  <1>3. ASSUME NEW s \in Submissions
        PROVE  Once(s)'
    <2>1. Once(s) /\ reports[s] \in {0, 1} /\ AtMostOnce(<<>>, s) /\ ~In(<<>>, s)
      BY DEF InOnePlace, Once, AtMostOnce, In
    <2>2. callback' = s => callback = s \/ In(todo[User], s)
      BY <1>1, <1>2 DEF In
    <2>3. callback = s \/ In(todo[User], s) \/ reports[s] = 1 => s \in submitted
      BY <1>1, <2>1 DEF Once
    <2>4. ~(callback' = s /\ reports[s] = 1)
      BY <1>1, <2>1, <2>2 DEF Once
    <2> QED BY <1>1, <2>1, <2>2, <2>3, <2>4, Moves
  <1> QED BY <1>1, <1>3 DEF InOnePlace

-----------------------------------------------------------------------------
LEMMA InitInOnePlace == Init => InOnePlace
  <1> SUFFICES ASSUME Init PROVE InOnePlace
    OBVIOUS
  <1>3. reports \in [Submissions -> Nat]
    BY DEF Init
  <1> SUFFICES ASSUME NEW s \in Submissions
               PROVE  Once(s)
    BY <1>3 DEF InOnePlace
  <1>1. /\ reports[s] = 0 /\ callback # s /\ s \notin submitted
        /\ \A x \in Threads : todo[x] = <<>>
    BY ConstantsAssumption DEF Init
  <1>2. \A x \in Threads : AtMostOnce(todo[x], s) /\ ~In(todo[x], s)
    BY <1>1 DEF AtMostOnce, In
  <1> QED BY <1>1, <1>2 DEF Once

LEMMA NextInOnePlace ==
    ASSUME IInv, InOnePlace, [Next]_vars
    PROVE  InOnePlace'
  <1>1. Typed
    BY DEF IInv
  <1>2. CASE UNCHANGED <<reports, todo, callback, submitted>>
    BY <1>2 DEF InOnePlace, Once
  <1>3. ASSUME NEW x \in Threads,
               Goes(x) \/ \E what \in {"Started", "Stopped"} : CallsBack(x, what)
        PROVE  InOnePlace'
    BY <1>1, <1>3, ConnectMoves, TxPublishedMoves DEF Goes
  <1>4. ASSUME NEW p \in Peers, Handles(p)
        PROVE  InOnePlace'
    BY <1>1, <1>4, MessageMoves, HasTxMoves, PeerDisconnectedMoves DEF Handles
  <1>5. ASSUME NEW p \in Peers, DidConnect(p) \/ Read(p) \/ End(p)
        PROVE  InOnePlace'
    BY <1>1, <1>5, ThreadMoves
  <1>6. CASE Disconnect \/ Rescan \/ Returns
    BY <1>1, <1>6, CallMoves, ListedMoves DEF Returns
  <1>7. CASE \E s \in Submissions : PublishTx(s)
    BY <1>1, <1>7, PublishTxMoves
  <1>8. CASE SetNetworkReachable \/ (\E p \in Peers : OpenSocket(p)) \/ UNCHANGED vars
    BY <1>2, <1>8 DEF SetNetworkReachable, OpenSocket, vars, publish
  <1> QED BY <1>3, <1>4, <1>5, <1>6, <1>7, <1>8 DEF Next, Works, Threads

\* In one place, a submission is reported once.
LEMMA OnePlaceOneReport == InOnePlace => ReportedOnce
  <1> SUFFICES ASSUME InOnePlace PROVE ReportedOnce
    OBVIOUS
  <1>1. ASSUME NEW s \in Submissions, NEW R, R = {x \in Threads : Reporting(x, s)}
        PROVE  reports[s] + Cardinality(R) + (IF callback = s THEN 1 ELSE 0) <= 1
    <2>1. /\ Once(s) /\ reports[s] \in {0, 1} /\ (callback = s => reports[s] = 0)
          /\ \A x \in Threads : Reporting(x, s) <=> In(todo[x], s)
      BY DEF InOnePlace, Once, Reporting, In
    <2>2. CASE R = {}
      <3>1. Cardinality(R) = 0
        BY <2>2, FS_EmptySet
      <3> QED BY <2>1, <3>1
    <2>3. CASE R # {}
      <3>1. PICK x \in Threads : Reporting(x, s)
        BY <1>1, <2>3
      <3>2. R = {x} /\ reports[s] = 0 /\ callback # s
        BY <1>1, <2>1, <3>1 DEF Once
      <3>3. Cardinality(R) = 1
        BY <3>2, FS_Singleton
      <3> QED BY <3>2, <3>3
    <2> QED BY <2>2, <2>3
  <1> QED BY <1>1 DEF ReportedOnce

\* However peers that have the transaction, timeouts, lost connections and calls race,
\* BRPeerManager reports a submission once at most (_peerRelayedTx, _peerDisconnected,
\* BRPeerManagerPublishTx), for any number of submissions.
THEOREM ReportsOnce == Spec => []ReportedOnce
  <1>1. IInv /\ InOnePlace /\ [Next]_vars => InOnePlace'
    BY NextInOnePlace
  <1>2. Spec => []InOnePlace
    BY Invariance, InitInOnePlace, <1>1, PTL DEF Spec
  <1> QED BY <1>2, OnePlaceOneReport, PTL

-----------------------------------------------------------------------------
(* The block chain: PeerChain, for any tree of blocks, any checkpoints,     *)
(* peers, orders of relaying, rescans and restarts.  Its specification is   *)
(* ChainSpec; of PeerManager's nothing is used, nor of PeerSync's lastblock. *)

\* What the tree of the blocks is, of what is assumed of the constants.
Tree ==
    /\ Prev \in [Block -> Block \cup {None}] /\ Height \in [Block -> Nat]
    /\ None \notin Block
    /\ \A b \in Block : Prev[b] # None => Height[b] = Height[Prev[b]] + 1

LEMMA TreeOfBlocks ==
    Tree
  BY PeerChainAssumption DEF Tree

LEMMA LeastOf ==
    ASSUME NEW T \in SUBSET Nat, T # {}
    PROVE  \E x \in T : \A y \in T : x <= y
  <1>1. PICK x \in T : \A y \in T : ~ (<<y, x>> \in OpToRel(<, Nat))
    BY WFMin, NatLessThanWellFounded
  <1>2. \A y \in T : ~(y < x)
    BY <1>1 DEF OpToRel
  <1> QED BY <1>2

\* A set that has each block if it has the block before has all of them.
LEMMA UpTheChain ==
    ASSUME Tree, NEW S, \A b \in Block : (Prev[b] # None => Prev[b] \in S) => b \in S
    PROVE  \A b \in Block : b \in S
  <1> DEFINE T == {Height[b] : b \in Block \ S}
  <1>1. T \subseteq Nat
    BY DEF Tree
  <1>2. SUFFICES ASSUME T # {} PROVE FALSE
    OBVIOUS
  <1>3. PICK b \in Block \ S : \A c \in Block \ S : Height[b] <= Height[c]
    <2>1. \E x \in T : \A y \in T : x <= y
      <3> HIDE DEF T
      <3> QED BY <1>1, <1>2, LeastOf
    <2> QED BY <2>1
  <1>4. Prev[b] # None /\ Prev[b] \in Block \ S
    BY <1>3 DEF Tree
  <1>5. Height[b] = Height[Prev[b]] + 1 /\ Height[Prev[b]] \in Nat
    BY <1>4 DEF Tree
  <1>6. Height[b] <= Height[Prev[b]]
    BY <1>3, <1>4
  <1> QED BY <1>5, <1>6

-----------------------------------------------------------------------------
(* The line of a block is the least set with the block that goes back.      *)

GoesOn(held, zero, c) == c \notin zero /\ Prev[c] \in held
GoesBack(S, held, zero) == \A c \in S : GoesOn(held, zero, c) => Prev[c] \in S

\* The recursive function is defined, and is this set.
LEMMA LineIsLeast ==
    ASSUME Tree, NEW held \in SUBSET Block, NEW zero, NEW b \in Block
    PROVE  Line(held, zero, b)
              = {c \in Block : \A S \in SUBSET Block : b \in S /\ GoesBack(S, held, zero) => c \in S}
  <1> DEFINE L(d) == {c \in Block : \A S \in SUBSET Block :
                                        d \in S /\ GoesBack(S, held, zero) => c \in S}
             IsBack(f) == f = [c \in Block |-> IF c \in zero \/ Prev[c] \notin held THEN {c}
                                               ELSE {c} \cup f[Prev[c]]]
             back == CHOOSE f : IsBack(f)
             g == [c \in Block |-> L(c)]
  <1>1. ASSUME NEW d \in Block
        PROVE  L(d) = IF d \in zero \/ Prev[d] \notin held THEN {d} ELSE {d} \cup L(Prev[d])
    <2>1. d \in L(d)
      OBVIOUS
    <2>2. CASE ~GoesOn(held, zero, d)
      <3>1. {d} \in SUBSET Block /\ GoesBack({d}, held, zero)
        BY <2>2 DEF GoesBack
      <3>2. L(d) \subseteq {d}
        BY <3>1
      <3> QED BY <2>1, <2>2, <3>2 DEF GoesOn
    <2>3. CASE GoesOn(held, zero, d)
      <3> DEFINE p == Prev[d]
                 U == {d} \cup L(p)
      <3>1. p \in Block
        BY <2>3 DEF GoesOn
      <3>2. p \in L(p) /\ U \in SUBSET Block
        BY <3>1
      <3>3. GoesBack(L(p), held, zero)
        <4> SUFFICES ASSUME NEW c \in L(p), GoesOn(held, zero, c),
                            NEW S \in SUBSET Block, p \in S, GoesBack(S, held, zero)
                     PROVE  Prev[c] \in S /\ Prev[c] \in Block
          <5>1. \A c \in L(p) : GoesOn(held, zero, c) => Prev[c] \in Block
            BY DEF GoesOn
          <5> QED BY <5>1 DEF GoesBack
        <4>1. c \in S
          OBVIOUS
        <4> QED BY <4>1 DEF GoesBack
      <3>4. GoesBack(U, held, zero)
        <4> HIDE DEF L
        <4> QED BY <3>2, <3>3 DEF GoesBack
      <3>5. L(d) \subseteq U
        <4>1. d \in U
          OBVIOUS
        <4>2. \A c \in L(d) : \A S \in SUBSET Block : d \in S /\ GoesBack(S, held, zero) => c \in S
          OBVIOUS
        <4> HIDE DEF L, U
        <4> QED BY <3>2, <3>4, <4>1, <4>2
      <3>6. L(p) \subseteq L(d)
        <4> SUFFICES ASSUME NEW c \in L(p), NEW S \in SUBSET Block, d \in S,
                            GoesBack(S, held, zero)
                     PROVE  c \in S
          OBVIOUS
        <4>1. p \in S
          BY <2>3 DEF GoesBack
        <4> QED BY <4>1
      <3>7. L(d) = U
        <4> HIDE DEF L
        <4> QED BY <2>1, <3>5, <3>6
      <3> HIDE DEF L
      <3> QED BY <2>3, <3>7 DEF GoesOn
    <2> QED BY <2>2, <2>3
  <1> HIDE DEF L
  <1>2. IsBack(g)
    <2>1. ASSUME NEW d \in Block
          PROVE  L(d) = IF d \in zero \/ Prev[d] \notin held THEN {d} ELSE {d} \cup g[Prev[d]]
      <3>1. Prev[d] \in held => g[Prev[d]] = L(Prev[d])
        OBVIOUS
      <3> QED BY <1>1, <3>1
    <2> QED BY <2>1, Zenon
  <1>3. IsBack(back)
    <2>1. \E f : IsBack(f)
      <3> HIDE DEF IsBack, g
      <3> QED BY <1>2
    <2> HIDE DEF IsBack
    <2> QED BY <2>1
  <1>4. Line(held, zero, b) = back[b]
    BY DEF Line
  <1> HIDE DEF back
  <1> DEFINE S == {d \in Block : back[d] = L(d)}
  <1>5. ASSUME NEW d \in Block, Prev[d] # None => Prev[d] \in S
        PROVE  d \in S
    <2>1. back[d] = IF d \in zero \/ Prev[d] \notin held THEN {d} ELSE {d} \cup back[Prev[d]]
      BY <1>3, Zenon
    <2>2. Prev[d] \in held => back[Prev[d]] = L(Prev[d])
      BY <1>5 DEF Tree
    <2> QED BY <1>1, <2>1, <2>2
  <1>6. \A d \in Block : d \in S
    <2> HIDE DEF S
    <2> QED BY <1>5, UpTheChain
  <1> QED BY <1>4, <1>6 DEF L

\* What is used of it.
LEMMA LineGoesBack ==
    ASSUME Tree, NEW held \in SUBSET Block, NEW zero, NEW b \in Block
    PROVE  /\ b \in Line(held, zero, b)
           /\ Line(held, zero, b) \subseteq Block
           /\ GoesBack(Line(held, zero, b), held, zero)
           /\ \A S \in SUBSET Block :
                 b \in S /\ GoesBack(S, held, zero) => Line(held, zero, b) \subseteq S
  <1> DEFINE L == {c \in Block : \A S \in SUBSET Block :
                                     b \in S /\ GoesBack(S, held, zero) => c \in S}
  <1>1. Line(held, zero, b) = L
    BY LineIsLeast
  <1>2. b \in L /\ L \subseteq Block
    OBVIOUS
  <1>3. GoesBack(L, held, zero)
    <2> SUFFICES ASSUME NEW c \in L, GoesOn(held, zero, c)
                 PROVE  Prev[c] \in L
      BY DEF GoesBack
    <2>1. Prev[c] \in Block
      BY DEF GoesOn
    <2>2. ASSUME NEW S \in SUBSET Block, b \in S, GoesBack(S, held, zero)
          PROVE  Prev[c] \in S
      <3>1. c \in S
        BY <2>2
      <3> QED BY <2>2, <3>1 DEF GoesBack
    <2> QED BY <2>1, <2>2
  <1>4. \A S \in SUBSET Block : b \in S /\ GoesBack(S, held, zero) => L \subseteq S
    OBVIOUS
  <1> HIDE DEF L
  <1> QED BY <1>1, <1>2, <1>3, <1>4

-----------------------------------------------------------------------------
(* Ancestries and lines.                                                    *)

LEMMA AncestryGoesBack ==
    ASSUME Tree, NEW b \in Block
    PROVE  /\ b \in Ancestry(b) /\ Ancestry(b) \subseteq Block
           /\ \A c \in Ancestry(b) : Prev[c] # None => Prev[c] \in Ancestry(b)
           /\ \A S \in SUBSET Block :
                 b \in S /\ (\A c \in S : Prev[c] # None => Prev[c] \in S)
                    => Ancestry(b) \subseteq S
  <1>1. \A c \in Block : GoesOn(Block, {}, c) <=> Prev[c] # None
    BY DEF GoesOn, Tree
  <1>2. \A S \in SUBSET Block :
            GoesBack(S, Block, {}) <=> \A c \in S : Prev[c] # None => Prev[c] \in S
    BY <1>1 DEF GoesBack
  <1>3. /\ b \in Ancestry(b) /\ Ancestry(b) \in SUBSET Block
        /\ GoesBack(Ancestry(b), Block, {})
        /\ \A S \in SUBSET Block :
              b \in S /\ GoesBack(S, Block, {}) => Ancestry(b) \subseteq S
    BY LineGoesBack DEF Ancestry
  <1> QED BY <1>2, <1>3

\* An ancestor's ancestors are ancestors; all but the block itself are lower.
LEMMA AncestorsAreLower ==
    ASSUME Tree, NEW b \in Block, NEW c \in Ancestry(b)
    PROVE  /\ Ancestry(c) \subseteq Ancestry(b)
           /\ c = b \/ Height[c] < Height[b]
  <1>1. c \in Block
    BY AncestryGoesBack
  <1>2. Ancestry(c) \subseteq Ancestry(b)
    BY <1>1, AncestryGoesBack
  <1> DEFINE S == {d \in Block : d = b \/ Height[d] < Height[b]}
  <1>3. \A d \in S : Prev[d] # None => Prev[d] \in S
    BY DEF Tree
  <1>4. Ancestry(b) \subseteq S
    <2>1. b \in S /\ S \in SUBSET Block
      OBVIOUS
    <2> HIDE DEF S
    <2> QED BY <1>3, <2>1, AncestryGoesBack
  <1> QED BY <1>2, <1>4

\* The block and its predecessor's ancestors.
LEMMA AncestryUnfolds ==
    ASSUME Tree, NEW b \in Block, Prev[b] # None
    PROVE  /\ Prev[b] \in Block
           /\ Ancestry(b) = {b} \cup Ancestry(Prev[b])
  <1>1. Prev[b] \in Block
    BY DEF Tree
  <1> DEFINE S == {b} \cup Ancestry(Prev[b])
  <1>2. b \in S /\ S \in SUBSET Block
    BY <1>1, AncestryGoesBack
  <1>3. \A c \in S : Prev[c] # None => Prev[c] \in S
    BY <1>1, AncestryGoesBack
  <1>4. Ancestry(b) \subseteq S
    <2> HIDE DEF S
    <2> QED BY <1>2, <1>3, AncestryGoesBack
  <1>5. Prev[b] \in Ancestry(b) /\ b \in Ancestry(b)
    BY AncestryGoesBack
  <1> QED BY <1>1, <1>4, <1>5, AncestorsAreLower

\* Of two ancestors the lower one is an ancestor of the other.
LEMMA AncestorsInLine ==
    ASSUME Tree, NEW b \in Block, NEW c \in Ancestry(b), NEW d \in Ancestry(b)
    PROVE  /\ Height[c] <= Height[d] => c \in Ancestry(d)
           /\ Height[c] = Height[d] => c = d
  <1>1. c \in Block /\ d \in Block
    BY AncestryGoesBack
  <1> DEFINE S == {e \in Block : e \in Ancestry(d) \/ d \in Ancestry(e)}
  <1>2. b \in S /\ S \in SUBSET Block
    OBVIOUS
  <1>3. ASSUME NEW e \in S, Prev[e] # None
        PROVE  Prev[e] \in S
    <2>1. Prev[e] \in Block /\ Ancestry(e) = {e} \cup Ancestry(Prev[e])
      BY <1>3, AncestryUnfolds
    <2>2. CASE e \in Ancestry(d)
      BY <1>1, <1>3, <2>1, <2>2, AncestryGoesBack
    <2>3. CASE d = e
      BY <1>1, <1>3, <2>1, <2>3, AncestryGoesBack
    <2>4. CASE d \in Ancestry(Prev[e])
      BY <2>1, <2>4
    <2> QED BY <2>1, <2>2, <2>3, <2>4
  <1>4. Ancestry(b) \subseteq S
    <2> HIDE DEF S
    <2> QED BY <1>2, <1>3, AncestryGoesBack
  <1>5. c \in Ancestry(d) \/ d \in Ancestry(c)
    BY <1>4
  <1>6. Height[c] \in Nat /\ Height[d] \in Nat
    BY <1>1 DEF Tree
  <1>7. CASE c \in Ancestry(d)
    BY <1>1, <1>6, <1>7, AncestorsAreLower
  <1>8. CASE d \in Ancestry(c)
    <2>1. d = c \/ Height[d] < Height[c]
      BY <1>1, <1>8, AncestorsAreLower
    <2> QED BY <1>6, <1>8, <2>1
  <1> QED BY <1>5, <1>7, <1>8

\* A line is of ancestors, and has all of them that are not below one it has.
LEMMA LineOfAncestors ==
    ASSUME Tree, NEW held \in SUBSET Block, NEW zero, NEW b \in Block
    PROVE  /\ Line(held, zero, b) \subseteq Ancestry(b)
           /\ \A x \in Line(held, zero, b), c \in Ancestry(b) :
                 Height[x] <= Height[c] => c \in Line(held, zero, b)
  <1> DEFINE M == Line(held, zero, b)
             A == Ancestry(b)
  <1>1. A \in SUBSET Block /\ b \in A /\ \A c \in A : Prev[c] # None => Prev[c] \in A
    BY AncestryGoesBack
  <1>2. GoesBack(A, held, zero)
    BY <1>1 DEF GoesBack, GoesOn, Tree
  <1>3. /\ b \in M /\ M \in SUBSET Block /\ GoesBack(M, held, zero)
        /\ \A S \in SUBSET Block : b \in S /\ GoesBack(S, held, zero) => M \subseteq S
    BY LineGoesBack
  <1>4. /\ \A c \in A : c = b \/ Height[c] < Height[b]
        /\ \A c, d \in A : Height[c] = Height[d] => c = d
    BY AncestorsAreLower, AncestorsInLine
  <1> HIDE DEF M, A
  <1>5. M \subseteq A
    BY <1>1, <1>2, <1>3
  <1> DEFINE S == {x \in M : \A c \in A : Height[x] <= Height[c] => c \in M}
  <1>6. b \in S
    BY <1>1, <1>3, <1>4 DEF Tree
  <1>7. ASSUME NEW x \in S, GoesOn(held, zero, x)
        PROVE  Prev[x] \in S
    <2>1. Prev[x] \in M /\ Prev[x] \in held /\ x \in Block
      BY <1>3, <1>7 DEF GoesBack, GoesOn
    <2>2. Prev[x] \in Block /\ Height[x] = Height[Prev[x]] + 1
      BY <2>1 DEF Tree
    <2>3. ASSUME NEW c \in A, Height[Prev[x]] <= Height[c]
          PROVE  c \in M
      <3>1. Height[c] \in Nat /\ Height[x] \in Nat /\ Height[Prev[x]] \in Nat
        BY <1>1, <2>1, <2>2 DEF Tree
      <3>2. CASE Height[c] = Height[Prev[x]]
        BY <1>4, <1>5, <2>1, <3>2
      <3>3. CASE Height[x] <= Height[c]
        BY <3>3
      <3> QED BY <2>2, <2>3, <3>1, <3>2, <3>3
    <2> QED BY <2>1, <2>3
  <1>8. M \subseteq S
    <2>1. S \in SUBSET Block /\ GoesBack(S, held, zero)
      BY <1>3, <1>7 DEF GoesBack
    <2> HIDE DEF S
    <2> QED BY <1>3, <1>6, <2>1
  <1>9. \A x \in M, c \in A : Height[x] <= Height[c] => c \in M
    BY <1>8
  <1> QED BY <1>5, <1>9 DEF M, A

\* A line that starts at a block that is held is of blocks that are held.
LEMMA LineIsHeld ==
    ASSUME Tree, NEW held \in SUBSET Block, NEW zero, NEW b \in held
    PROVE  Line(held, zero, b) \subseteq held
  <1>1. GoesBack(held, held, zero)
    BY DEF GoesBack, GoesOn
  <1> QED BY <1>1, LineGoesBack

\* There is a highest block of a finite set, and of an ancestry's part.
LEMMA HighestOf ==
    ASSUME Tree, NEW held \in SUBSET Block, held # {}, NEW n \in Nat,
           \A c \in held : Height[c] <= n
    PROVE  Highest(held) \in held /\ \A c \in held : ~(Height[c] > Height[Highest(held)])
  <1> DEFINE T == {n - Height[c] : c \in held}
  <1>1. T \in SUBSET Nat /\ T # {}
    BY DEF Tree
  <1>2. \E x \in T : \A y \in T : x <= y
    <2> HIDE DEF T
    <2> QED BY <1>1, LeastOf
  <1>3. \E b \in held : \A c \in held : n - Height[b] <= n - Height[c]
    BY <1>2
  <1>4. \E b \in held : \A c \in held : ~(Height[c] > Height[b])
    BY <1>3 DEF Tree
  <1> QED BY <1>4 DEF Highest, Ahead

LEMMA HeightsAreBounded ==
    ASSUME Tree, NEW held \in SUBSET Block, IsFiniteSet(held)
    PROVE  \E n \in Nat : \A c \in held : Height[c] <= n
  <1>1. PICK n \in Nat : ExistsSurjection(1..n, held)
    BY FS_NatSurjection
  <1>2. PICK f \in [1..n -> held] : \A c \in held : \E k \in 1..n : f[k] = c
    BY <1>1 DEF ExistsSurjection, Surjection
  <1> DEFINE Bounded(m) == \E h \in Nat : \A k \in 1..m : Height[f[k]] <= h
             T == {m \in 0..n : ~Bounded(m)}
  <1>3. ASSUME T # {} PROVE FALSE
    <2>1. PICK m \in T : \A k \in T : m <= k
      <3>1. T \in SUBSET Nat
        OBVIOUS
      <3> HIDE DEF T
      <3> QED BY <1>3, <3>1, LeastOf
    <2>2. m \in 0..n /\ ~Bounded(m)
      OBVIOUS
    <2>3. Bounded(0)
      OBVIOUS
    <2>4. m \in 1..n /\ m - 1 \in 0..n /\ ~(m <= m - 1)
      BY <2>2, <2>3
    <2>5. Bounded(m - 1)
      BY <2>1, <2>4
    <2>6. PICK h \in Nat : \A k \in 1..(m - 1) : Height[f[k]] <= h
      BY <2>5
    <2>7. f[m] \in Block /\ Height[f[m]] \in Nat
      BY <1>2, <2>4 DEF Tree
    <2>8. \A k \in 1..m : k = m \/ k \in 1..(m - 1)
      BY <2>4
    <2>9. \A k \in 1..m : Height[f[k]] <= h + Height[f[m]]
      <3> TAKE k \in 1..m
      <3>1. Height[f[k]] \in Nat
        BY <1>2, <2>4 DEF Tree
      <3> QED BY <2>6, <2>7, <2>8, <3>1
    <2>10. h + Height[f[m]] \in Nat
      BY <2>7
    <2> QED BY <2>2, <2>9, <2>10
  <1>4. Bounded(n)
    <2>1. T = {}
      <3> HIDE DEF T
      <3> QED BY <1>3
    <2>2. n \in 0..n
      OBVIOUS
    <2> QED BY <2>1, <2>2
  <1>5. PICK h \in Nat : \A k \in 1..n : Height[f[k]] <= h
    BY <1>4
  <1> QED BY <1>2, <1>5

LEMMA HighestOfFinite ==
    ASSUME Tree, NEW held \in SUBSET Block, held # {}, IsFiniteSet(held)
    PROVE  Highest(held) \in held
  BY HeightsAreBounded, HighestOf

-----------------------------------------------------------------------------
(* The invariant of the block chain.                                        *)

ChainTyped ==
    /\ blocks \in SUBSET Block /\ IsFiniteSet(blocks) /\ Checkpoints \subseteq blocks
    /\ file \in SUBSET Block /\ IsFiniteSet(file)
    /\ orphans \in SUBSET Block /\ lastBlock \in Block
    /\ next \in [Peers -> Block \cup {None}]
    /\ txHeight \in [Tx -> Nat]

ChainInv ==
    ChainTyped /\ TipIsHighest /\ NoOrphanOnTip /\ HeightsOnChain

LEMMA ChainInitially ==
    ASSUME ChainInit
    PROVE  ChainInv
  <1>1. Tree /\ Checkpoints \in SUBSET Block /\ IsFiniteSet(Checkpoints) /\ Start \in Checkpoints
    <2>1. Tree
      BY TreeOfBlocks
    <2>2. Checkpoints \in SUBSET Block /\ IsFiniteSet(Checkpoints) /\ Start \in Checkpoints
      BY PeerChainAssumption
    <2> QED BY <2>1, <2>2
  <1>2. ChainTyped
    BY <1>1, FS_EmptySet DEF ChainInit, ChainTyped
  <1>3. TipIsHighest /\ NoOrphanOnTip
    <2>1. blocks \ ahead = {c \in Checkpoints : Ahead(Start, c)} /\ lastBlock = Start
      BY DEF ChainInit
    <2>2. TipIsHighest
      BY <1>1, <2>1 DEF TipIsHighest, Ahead, Tree
    <2>3. NoOrphanOnTip
      BY DEF ChainInit, NoOrphanOnTip
    <2> QED BY <2>2, <2>3
  <1>4. HeightsFit(Start)
    <2>1. \A c \in Ancestry(Start) : c \in Block /\ Txs[c] = {}
      <3>1. \A c \in Ancestry(Start) : c \in Block
        BY <1>1, AncestryGoesBack
      <3>2. \A c \in Ancestry(Start) : Txs[c] = {}
        BY PeerChainAssumption
      <3> QED BY <3>1, <3>2
    <2>2. txHeight = [t \in Tx |-> 0] /\ Height \in [Block -> Nat]
      BY <1>1 DEF ChainInit, Tree
    <2> QED BY <1>1, <2>1, <2>2 DEF HeightsFit
  <1>5. HeightsOnChain
    BY <1>4 DEF ChainInit, HeightsOnChain
  <1> QED BY <1>2, <1>3, <1>5 DEF ChainInv

\* Where the tip and the heights stay, the heights still fit.
LEMMA SameHeights ==
    ASSUME HeightsOnChain, UNCHANGED <<lastBlock, txHeight, rewound>>
    PROVE  HeightsOnChain'
  BY DEF HeightsOnChain, HeightsFit

\* Where no block is added and the tip stays, it is still the highest.
LEMMA SameTip ==
    ASSUME TipIsHighest, failed => failed', blocks' \subseteq blocks,
           UNCHANGED <<lastBlock, ahead>>
    PROVE  TipIsHighest'
  BY DEF TipIsHighest, Ahead

\* What is freed is no checkpoint.
LEMMA HeldKeeps ==
    ASSUME ChainTyped, NEW b \in Block
    PROVE  /\ Held(b) \in SUBSET blocks /\ IsFiniteSet(Held(b))
           /\ Checkpoints \subseteq Held(b)
  <1>1. \A d \in Purged(b) : ~IsTransition(d)
    BY DEF Purged
  <1>2. \A c \in Checkpoints : IsTransition(c)
    BY PeerChainAssumption
  <1>3. Held(b) \in SUBSET blocks
    BY DEF Held
  <1> QED BY <1>1, <1>2, <1>3, FS_Subset DEF Held, ChainTyped

LEMMA AddsBlock ==
    ASSUME ChainTyped, NEW b \in Block, AddBlock(b)
    PROVE  /\ blocks' \in SUBSET Block /\ IsFiniteSet(blocks') /\ Checkpoints \subseteq blocks'
           /\ b \in blocks' /\ blocks' \subseteq blocks \cup {b}
  <1>1. blocks' = Held(b) \cup {b}
    BY DEF AddBlock
  <1>2. IsFiniteSet(Held(b) \cup {b})
    BY HeldKeeps, FS_AddElement
  <1> QED BY <1>1, <1>2, HeldKeeps DEF ChainTyped

LEMMA Releases ==
    ASSUME ChainTyped, NEW p \in Peers, NEW b \in Block, NEW waiting \in SUBSET Block,
           Release(p, b, waiting)
    PROVE  /\ orphans' \in SUBSET waiting /\ \A o \in orphans' : Prev[o] # b
           /\ next' \in [Peers -> Block \cup {None}]
  <1>1. orphans' = {o \in waiting : Prev[o] # b}
    BY DEF Release
  <1> DEFINE n == IF orphans' = waiting THEN None ELSE CHOOSE o \in waiting \ orphans' : TRUE
  <1>2. n \in Block \cup {None}
    BY <1>1
  <1>3. next' = [next EXCEPT ![p] = n]
    BY DEF Release
  <1> HIDE DEF n
  <1> QED BY <1>1, <1>2, <1>3 DEF ChainTyped

LEMMA Frees ==
    ASSUME ChainTyped, NEW p \in Peers, Free(p)
    PROVE  UNCHANGED orphans /\ next' \in [Peers -> Block \cup {None}]
  BY DEF ChainTyped, Free

LEMMA Saves ==
    ASSUME ChainTyped, NEW saves \in SUBSET Block, IsFiniteSet(saves), Save(saves)
    PROVE  file' \in SUBSET Block /\ IsFiniteSet(file')
  <1>1. IsFiniteSet(file \cup saves)
    BY FS_Union DEF ChainTyped
  <1> QED BY <1>1 DEF Save, ChainTyped

LEMMA SavesComplete ==
    ASSUME Tree, ChainTyped, NEW b \in Block, b \in blocks', blocks' \in SUBSET Block,
           IsFiniteSet(blocks'), SaveComplete(b)
    PROVE  file' \in SUBSET Block /\ IsFiniteSet(file')
  <1> DEFINE saves == SavedLine(b, CompleteCount(b))
  <1>1. Line(blocks', stubs', b) \subseteq blocks'
    BY LineIsHeld
  <1>2. saves \in SUBSET blocks'
    BY <1>1 DEF SavedLine
  <1>3. Save(saves)
    BY DEF SaveComplete
  <1>4. IsFiniteSet(saves)
    <2> HIDE DEF saves
    <2> QED BY <1>2, FS_Subset
  <1> HIDE DEF saves
  <1> QED BY <1>2, <1>3, <1>4, Saves

\* A line confirms the transactions in its blocks, and changes no other height.
ConfirmedBy(line, old, new) ==
    \A t \in Tx :
        \/ new[t] = old[t] /\ \A c \in line : t \notin Txs[c]
        \/ \E c \in line : t \in Txs[c] /\ new[t] = Height[c]

LEMMA Confirms ==
    ASSUME Tree, NEW line \in SUBSET Block, NEW old \in [Tx -> Nat]
    PROVE  /\ Confirmed(old, line) \in [Tx -> Nat]
           /\ ConfirmedBy(line, old, Confirmed(old, line))
  <1>1. ASSUME NEW t \in Tx, \E c \in line : t \in Txs[c]
        PROVE  (CHOOSE c \in line : t \in Txs[c]) \in line
               /\ t \in Txs[CHOOSE c \in line : t \in Txs[c]]
    BY <1>1
  <1> QED BY <1>1 DEF ConfirmedBy, Confirmed, Tree

\* The same of one block.
OneConfirmedBy(b, old, new) ==
    \A t \in Tx :
        \/ t \notin Txs[b] /\ new[t] = old[t]
        \/ t \in Txs[b] /\ new[t] = Height[b]

LEMMA ConfirmsOne ==
    ASSUME Tree, NEW b \in Block, NEW old \in [Tx -> Nat]
    PROVE  /\ Confirmed(old, {b}) \in [Tx -> Nat]
           /\ OneConfirmedBy(b, old, Confirmed(old, {b}))
  <1> DEFINE line == {b}
             new == Confirmed(old, line)
  <1>1. line \in SUBSET Block /\ b \in line /\ \A c \in line : c = b
    OBVIOUS
  <1> HIDE DEF line
  <1>2. new \in [Tx -> Nat] /\ ConfirmedBy(line, old, new)
    BY <1>1, Confirms
  <1> HIDE DEF new
  <1>3. OneConfirmedBy(b, old, new)
    BY <1>1, <1>2 DEF ConfirmedBy, OneConfirmedBy
  <1> QED BY <1>2, <1>3 DEF new, line

-----------------------------------------------------------------------------
(* A relayed block where the tip stays.                                     *)

LEMMA TipStays ==
    ASSUME ChainInv, failed => failed',
           \A c \in blocks' : c \in blocks \/ ~Ahead(c, lastBlock),
           \A o \in orphans' : o \in orphans \/ Prev[o] # lastBlock,
           UNCHANGED <<lastBlock, ahead, rewound>>
    PROVE  TipIsHighest' /\ NoOrphanOnTip'
  BY DEF ChainInv, TipIsHighest, NoOrphanOnTip, Ahead

\* What the actions of a relayed block have in common.
Relays(p, b) ==
    /\ ChainInv /\ Usable
    /\ p \in Peers /\ b \in Block /\ UNCHANGED rewound

LEMMA IgnoredKeeps ==
    ASSUME NEW p, NEW b, Relays(p, b), Ignored(p)
    PROVE  ChainInv'
  <1>1. ChainTyped /\ HeightsOnChain /\ p \in Peers /\ UNCHANGED rewound
    BY DEF Relays, ChainInv
  <1>2. UNCHANGED <<orphans, blocks, lastBlock, txHeight, file, failed, ahead>>
        /\ next' \in [Peers -> Block \cup {None}]
    BY <1>1, Frees DEF Ignored, lineVars
  <1>3. ChainTyped'
    BY <1>1, <1>2 DEF ChainTyped
  <1>4. TipIsHighest' /\ NoOrphanOnTip'
    BY <1>1, <1>2, TipStays DEF Relays
  <1>5. HeightsOnChain'
    BY <1>1, <1>2, SameHeights
  <1> QED BY <1>3, <1>4, <1>5 DEF ChainInv

LEMMA DroppedKeeps ==
    ASSUME NEW p, NEW b, Relays(p, b), Dropped(p, b)
    PROVE  ChainInv'
  <1>1. /\ ChainTyped /\ HeightsOnChain /\ p \in Peers /\ b \in Block
        /\ UNCHANGED rewound
    BY DEF Relays, ChainInv
  <1>2. /\ UNCHANGED <<orphans, lastBlock, txHeight, file, failed, ahead>>
        /\ blocks' = Held(b)
        /\ next' \in [Peers -> Block \cup {None}]
    BY <1>1, Frees DEF Dropped
  <1>3. blocks' \in SUBSET blocks /\ IsFiniteSet(blocks') /\ Checkpoints \subseteq blocks'
    BY <1>1, <1>2, HeldKeeps
  <1>4. ChainTyped'
    BY <1>1, <1>2, <1>3 DEF ChainTyped
  <1>5. TipIsHighest' /\ NoOrphanOnTip'
    BY <1>1, <1>2, <1>3, TipStays DEF Relays
  <1>6. HeightsOnChain'
    BY <1>1, <1>2, SameHeights
  <1> QED BY <1>4, <1>5, <1>6 DEF ChainInv

\* The block before it is not held, and the tip is.
LEMMA OrphanedKeeps ==
    ASSUME NEW p, NEW b, Relays(p, b), Prev[b] \notin blocks, Orphaned(p, b)
    PROVE  ChainInv'
  <1>1. /\ ChainTyped /\ HeightsOnChain /\ p \in Peers /\ b \in Block
        /\ UNCHANGED rewound /\ lastBlock \in blocks
    BY DEF Relays, ChainInv, Usable
  <1>2. UNCHANGED <<blocks, lastBlock, txHeight, file, failed, ahead>>
    BY DEF Orphaned, lineVars
  <1>3. /\ orphans' \subseteq orphans \cup {b}
        /\ next' \in [Peers -> Block \cup {None}]
    <2>1. CASE Free(p)
      BY <1>1, <2>1, Frees
    <2>2. CASE orphans' = WithOrphan(b) /\ next' = [next EXCEPT ![p] = None]
      BY <1>1, <2>2 DEF WithOrphan, ChainTyped
    <2> QED BY <2>1, <2>2 DEF Orphaned
  <1>4. ChainTyped'
    BY <1>1, <1>2, <1>3 DEF ChainTyped
  <1>5. TipIsHighest' /\ NoOrphanOnTip'
    BY <1>1, <1>2, <1>3, TipStays DEF Relays
  <1>6. HeightsOnChain'
    BY <1>1, <1>2, SameHeights
  <1> QED BY <1>4, <1>5, <1>6 DEF ChainInv

LEMMA PostponedKeeps ==
    ASSUME NEW p, NEW b, Relays(p, b), Apart(b), Postponed(p, b)
    PROVE  ChainInv'
  <1>1. /\ ChainTyped /\ HeightsOnChain /\ p \in Peers /\ b \in Block
        /\ UNCHANGED rewound /\ Prev[b] # lastBlock
    BY DEF Relays, ChainInv, Apart
  <1>2. /\ UNCHANGED <<lastBlock, txHeight, file, failed, ahead>>
        /\ blocks' = Held(b)
    BY DEF Postponed
  <1>3. blocks' \in SUBSET blocks /\ IsFiniteSet(blocks') /\ Checkpoints \subseteq blocks'
    BY <1>1, <1>2, HeldKeeps
  <1>4. /\ orphans' \subseteq orphans \cup {b}
        /\ next' \in [Peers -> Block \cup {None}]
    <2>1. WithOrphan(b) \in SUBSET (orphans \cup {b})
      BY DEF WithOrphan
    <2>2. WithOrphan(b) \in SUBSET Block /\ Release(p, b, WithOrphan(b))
      BY <1>1, <2>1 DEF ChainTyped, Postponed
    <2>3. /\ orphans' \in SUBSET WithOrphan(b)
          /\ next' \in [Peers -> Block \cup {None}]
      BY <1>1, <2>2, Releases
    <2> QED BY <2>1, <2>3
  <1>5. ChainTyped'
    BY <1>1, <1>2, <1>3, <1>4 DEF ChainTyped
  <1>6. TipIsHighest' /\ NoOrphanOnTip'
    BY <1>1, <1>2, <1>3, <1>4, TipStays DEF Relays
  <1>7. HeightsOnChain'
    BY <1>1, <1>2, SameHeights
  <1> QED BY <1>5, <1>6, <1>7 DEF ChainInv

LEMMA BranchesKeeps ==
    ASSUME NEW p, NEW b, Relays(p, b), ~Longer(b), Branches(p, b)
    PROVE  ChainInv'
  <1>1. /\ ChainTyped /\ HeightsOnChain /\ p \in Peers /\ b \in Block
        /\ UNCHANGED rewound /\ ~Ahead(b, lastBlock)
    BY DEF Relays, ChainInv, Longer
  <1>2. /\ UNCHANGED <<lastBlock, txHeight, file, failed, ahead>>
        /\ AddBlock(b) /\ Release(p, b, orphans)
    BY DEF Branches
  <1>3. /\ blocks' \in SUBSET Block /\ IsFiniteSet(blocks') /\ Checkpoints \subseteq blocks'
        /\ blocks' \subseteq blocks \cup {b}
    BY <1>1, <1>2, AddsBlock
  <1>4. orphans' \in SUBSET orphans /\ next' \in [Peers -> Block \cup {None}]
    BY <1>1, <1>2, Releases DEF ChainTyped
  <1>5. ChainTyped'
    BY <1>1, <1>2, <1>3, <1>4 DEF ChainTyped
  <1>6. TipIsHighest' /\ NoOrphanOnTip'
    BY <1>1, <1>2, <1>3, <1>4, TipStays DEF Relays
  <1>7. HeightsOnChain'
    BY <1>1, <1>2, SameHeights
  <1> QED BY <1>5, <1>6, <1>7 DEF ChainInv

\* A block of the main chain confirms what it confirmed before.
LEMMA ConfirmsAgain ==
    ASSUME Tree, ChainTyped, NEW b \in Ancestry(lastBlock), Height[b] > 0,
           HeightsFit(lastBlock)
    PROVE  Confirmed(txHeight, {b}) = txHeight
  <1>1. b \in Block /\ txHeight \in [Tx -> Nat]
    BY AncestryGoesBack DEF ChainTyped
  <1>2. \A t \in Tx : Confirmed(txHeight, {b})[t] = txHeight[t]
    <2>1. \A t \in Tx : \/ Confirmed(txHeight, {b})[t] = txHeight[t]
                        \/ t \in Txs[b] /\ Confirmed(txHeight, {b})[t] = Height[b]
      BY <1>1, ConfirmsOne DEF OneConfirmedBy
    <2> QED BY <2>1 DEF HeightsFit
  <1>3. Confirmed(txHeight, {b}) \in [Tx -> Nat]
    BY <1>1, ConfirmsOne
  <1> QED BY <1>1, <1>2, <1>3

LEMMA AlreadyHeldKeeps ==
    ASSUME NEW p, NEW b, Relays(p, b), Prev[b] # None, b \in blocks, AlreadyHeld(p, b)
    PROVE  ChainInv'
  <1>1. /\ ChainTyped /\ HeightsOnChain /\ p \in Peers /\ b \in Block /\ Tree
        /\ UNCHANGED rewound /\ ~failed
    BY TreeOfBlocks DEF Relays, ChainInv, Usable
  <1> DEFINE main == Line(Held(b), stubs, lastBlock)
  <1>2. main \subseteq Ancestry(lastBlock)
    <2>1. Held(b) \in SUBSET Block /\ lastBlock \in Block
      BY <1>1, HeldKeeps DEF ChainTyped
    <2> QED BY <1>1, <2>1, LineOfAncestors
  <1>3. UNCHANGED <<lastBlock, file, ahead>>
    BY DEF AlreadyHeld
  <1>4. \/ /\ failed' = TRUE /\ blocks' = Held(b) /\ Free(p)
           /\ UNCHANGED txHeight
        \/ /\ txHeight' = IF b \in main THEN Confirmed(txHeight, {b}) ELSE txHeight
           /\ AddBlock(b) /\ Release(p, b, orphans) /\ UNCHANGED failed
    BY DEF AlreadyHeld
  <1> HIDE DEF main
  <1>5. /\ blocks' \in SUBSET blocks /\ IsFiniteSet(blocks') /\ Checkpoints \subseteq blocks'
        /\ orphans' \in SUBSET orphans /\ next' \in [Peers -> Block \cup {None}]
        /\ txHeight' \in [Tx -> Nat]
    <2>1. CASE blocks' = Held(b) /\ Free(p) /\ UNCHANGED txHeight
      BY <1>1, <2>1, HeldKeeps, Frees DEF ChainTyped
    <2>2. CASE AddBlock(b) /\ Release(p, b, orphans)
               /\ txHeight' = IF b \in main THEN Confirmed(txHeight, {b}) ELSE txHeight
      <3>1. /\ IsFiniteSet(blocks') /\ Checkpoints \subseteq blocks'
            /\ blocks' \subseteq blocks \cup {b}
        BY <1>1, <2>2, AddsBlock
      <3>2. orphans' \in SUBSET orphans /\ next' \in [Peers -> Block \cup {None}]
        BY <1>1, <2>2, Releases DEF ChainTyped
      <3>3. Confirmed(txHeight, {b}) \in [Tx -> Nat] /\ txHeight \in [Tx -> Nat]
        <4>1. txHeight \in [Tx -> Nat]
          BY <1>1 DEF ChainTyped
        <4> QED BY <1>1, <4>1, ConfirmsOne
      <3> QED BY <2>2, <3>1, <3>2, <3>3
    <2> QED BY <1>4, <2>1, <2>2
  <1>6. ChainTyped'
    BY <1>1, <1>3, <1>5 DEF ChainTyped
  <1>7. TipIsHighest' /\ NoOrphanOnTip'
    BY <1>1, <1>3, <1>5, TipStays DEF Relays
  <1>8. HeightsOnChain'
    <2>1. CASE rewound
      BY <1>1, <2>1 DEF HeightsOnChain
    <2>2. CASE ~rewound
      <3>1. HeightsFit(lastBlock) /\ Height[b] > 0
        BY <1>1, <2>2 DEF HeightsOnChain, Tree
      <3>2. b \in main => Confirmed(txHeight, {b}) = txHeight
        BY <1>1, <1>2, <3>1, ConfirmsAgain
      <3>3. UNCHANGED txHeight
        BY <1>4, <3>2
      <3> QED BY <1>1, <1>3, <3>3, SameHeights
    <2> QED BY <2>1, <2>2
  <1> QED BY <1>6, <1>7, <1>8 DEF ChainInv

-----------------------------------------------------------------------------
(* A relayed block that becomes the tip.                                    *)

\* It is higher than the tip was, so it is the highest block, and it releases
\* the orphans that wait for it.
LEMMA TipMoves ==
    ASSUME ChainInv, Tree, NEW b \in Block, ~failed, Ahead(b, lastBlock),
           blocks' \subseteq blocks \cup {b}, \A o \in orphans' : Prev[o] # b,
           lastBlock' = b, ahead' = {c \in ahead : Ahead(c, b)}
    PROVE  TipIsHighest' /\ NoOrphanOnTip'
  <1>1. \A c \in blocks : c \in Block /\ Height[c] \in Nat
    BY DEF ChainInv, ChainTyped, Tree
  <1>2. \A c \in blocks \ ahead : ~(Height[c] > Height[lastBlock])
    BY DEF ChainInv, TipIsHighest, Ahead
  <1>3. Height[b] > Height[lastBlock] /\ Height[b] \in Nat /\ Height[lastBlock] \in Nat
    BY DEF ChainInv, ChainTyped, Tree, Ahead
  <1>4. \A c \in blocks' \ ahead' : ~(Height[c] > Height[b])
    BY <1>1, <1>2, <1>3 DEF Ahead
  <1> QED BY <1>4 DEF TipIsHighest, NoOrphanOnTip, Ahead

\* HeightsFit, of any heights.
Fit(h, b) ==
    /\ \A t \in Tx, c \in Ancestry(b) :
          Height[c] > 0 => (h[t] = Height[c] <=> t \in Txs[c])
    /\ \A t \in Tx : h[t] <= Height[b]

\* The heights fit a block after the tip with what it confirms.
LEMMA FitsOneMore ==
    ASSUME Tree, NEW last \in Block, NEW b \in Block, Prev[b] = last,
           NEW old \in [Tx -> Nat], Fit(old, last), NEW new \in [Tx -> Nat],
           OneConfirmedBy(b, old, new)
    PROVE  Fit(new, b)
  <1>1. /\ Ancestry(b) = {b} \cup Ancestry(last)
        /\ Height[b] = Height[last] + 1
        /\ Height[b] \in Nat /\ Height[last] \in Nat
    <2>1. Prev[b] # None
      BY DEF Tree
    <2> QED BY <2>1, AncestryUnfolds DEF Tree
  <1>2. \A c \in Ancestry(last) :
            c \in Block /\ Height[c] \in Nat /\ Height[c] <= Height[last]
    <2>1. \A c \in Ancestry(last) : c \in Block
      BY AncestryGoesBack
    <2>2. \A c \in Ancestry(last) : c = last \/ Height[c] < Height[last]
      BY AncestorsAreLower
    <2> QED BY <1>1, <2>1, <2>2 DEF Tree
  <1>3. \A c \in Ancestry(last), t \in Txs[b] : t \notin Txs[c]
    <2>1. \A c \in Ancestry(b) \ {b} : Txs[b] \cap Txs[c] = {}
      BY PeerChainAssumption
    <2>2. \A c \in Ancestry(last) : c \in Ancestry(b) \ {b}
      BY <1>1, <1>2
    <2> QED BY <2>1, <2>2
  <1>4. ASSUME NEW t \in Tx
        PROVE  /\ new[t] <= Height[b]
               /\ new[t] = Height[b] <=> t \in Txs[b]
               /\ \A c \in Ancestry(last) :
                     Height[c] > 0 => (new[t] = Height[c] <=> t \in Txs[c])
    <2>1. old[t] \in Nat /\ old[t] <= Height[last]
      BY DEF Fit
    <2>2. \A c \in Ancestry(last) : Height[c] > 0 => (old[t] = Height[c] <=> t \in Txs[c])
      BY DEF Fit
    <2>3. CASE t \in Txs[b] /\ new[t] = Height[b]
      BY <1>1, <1>2, <1>3, <2>3
    <2>4. CASE t \notin Txs[b] /\ new[t] = old[t]
      BY <1>1, <2>1, <2>2, <2>4
    <2> QED BY <2>3, <2>4 DEF OneConfirmedBy
  <1> QED BY <1>1, <1>4 DEF Fit

LEMMA ExtendsKeeps ==
    ASSUME NEW p, NEW b, Relays(p, b), Prev[b] = lastBlock, Extends(p, b)
    PROVE  ChainInv'
  <1>1. /\ ChainInv /\ ChainTyped /\ HeightsOnChain /\ p \in Peers /\ b \in Block
        /\ Tree /\ UNCHANGED rewound /\ ~failed
    BY TreeOfBlocks DEF Relays, ChainInv, Usable
  <1>2. /\ AddBlock(b) /\ lastBlock' = b /\ Release(p, b, orphans)
        /\ txHeight' = Confirmed(txHeight, {b})
        /\ ahead' = {c \in ahead : Ahead(c, b)}
    BY DEF Extends
  <1>3. /\ blocks' \in SUBSET Block /\ IsFiniteSet(blocks') /\ Checkpoints \subseteq blocks'
        /\ b \in blocks' /\ blocks' \subseteq blocks \cup {b}
    BY <1>1, <1>2, AddsBlock
  <1>4. /\ orphans' \in SUBSET orphans /\ \A o \in orphans' : Prev[o] # b
        /\ next' \in [Peers -> Block \cup {None}]
    BY <1>1, <1>2, Releases DEF ChainTyped
  <1>5. file' \in SUBSET Block /\ IsFiniteSet(file')
    <2> DEFINE saves == {c \in {b} : IsTransition(c)
                                     /\ Height[c] + SaveAhead < estimatedHeight}
    <2>1. CASE SaveComplete(b)
      BY <1>1, <1>3, <2>1, SavesComplete
    <2>2. CASE Save(saves)
      <3>1. saves \in SUBSET {b} /\ saves \in SUBSET Block /\ IsFiniteSet({b})
        BY <1>1, FS_Singleton
      <3> HIDE DEF saves
      <3>2. IsFiniteSet(saves)
        BY <3>1, FS_Subset
      <3> QED BY <1>1, <2>2, <3>1, <3>2, Saves
    <2> QED BY <2>1, <2>2 DEF Extends
  <1>6. /\ txHeight \in [Tx -> Nat] /\ txHeight' \in [Tx -> Nat]
        /\ OneConfirmedBy(b, txHeight, txHeight')
    <2>1. txHeight \in [Tx -> Nat]
      BY <1>1 DEF ChainTyped
    <2> QED BY <1>1, <1>2, <2>1, ConfirmsOne
  <1>7. ChainTyped'
    BY <1>1, <1>2, <1>3, <1>4, <1>5, <1>6 DEF ChainTyped
  <1>8. Ahead(b, lastBlock)
    BY <1>1 DEF Tree, ChainTyped, Ahead
  <1>9. TipIsHighest' /\ NoOrphanOnTip'
    BY <1>1, <1>2, <1>3, <1>4, <1>8, TipMoves
  <1>10. HeightsOnChain'
    <2>1. CASE rewound
      BY <1>1, <2>1 DEF HeightsOnChain
    <2>2. CASE ~rewound
      <3>1. Fit(txHeight, lastBlock) /\ lastBlock \in Block
        BY <1>1, <2>2 DEF HeightsOnChain, HeightsFit, Fit, ChainTyped
      <3>2. Fit(txHeight', b)
        BY <1>1, <1>6, <3>1, FitsOneMore
      <3> QED BY <1>2, <3>2 DEF HeightsOnChain, HeightsFit, Fit
    <2> QED BY <2>1, <2>2
  <1> QED BY <1>7, <1>9, <1>10 DEF ChainInv

\* What of the heights is left when those above a height are undone.
UndoneAbove(h, old, undone) ==
    \A t \in Tx :
        \/ old[t] <= h /\ undone[t] = old[t]
        \/ old[t] > h /\ undone[t] = 0

LEMMA Undone ==
    ASSUME NEW old \in [Tx -> Nat], NEW h \in Nat
    PROVE  /\ Unconfirmed(old, h) \in [Tx -> Nat]
           /\ UndoneAbove(h, old, Unconfirmed(old, h))
  BY DEF Unconfirmed, UndoneAbove

\* Undone above a block of both chains and confirmed by what lies above it on
\* the fork, the heights fit the fork.
LEMMA FitsFork ==
    ASSUME Tree, NEW last \in Block, NEW b \in Block,
           NEW held \in SUBSET Block, NEW zero, NEW main, NEW fork, NEW join,
           main \subseteq Ancestry(last), fork = Line(held, zero, b),
           join \in main \cap fork, \A c \in main \cap fork : ~(Height[c] > Height[join]),
           NEW old \in [Tx -> Nat], Fit(old, last), NEW undone \in [Tx -> Nat],
           UndoneAbove(Height[join], old, undone),
           NEW new \in [Tx -> Nat], ConfirmedBy(fork \ main, undone, new)
    PROVE  Fit(new, b)
  <1>1. /\ fork \subseteq Ancestry(b) /\ Ancestry(b) \subseteq Block
        /\ \A x \in fork, c \in Ancestry(b) : Height[x] <= Height[c] => c \in fork
        /\ Ancestry(last) \subseteq Block
    <2>1. /\ fork \subseteq Ancestry(b)
          /\ \A x \in fork, c \in Ancestry(b) : Height[x] <= Height[c] => c \in fork
      BY LineOfAncestors
    <2> QED BY <2>1, AncestryGoesBack
  <1>2. \A c \in Ancestry(b) : Height[c] \in Nat /\ Height[c] <= Height[b]
    <2>1. \A c \in Ancestry(b) : c = b \/ Height[c] < Height[b]
      BY AncestorsAreLower
    <2> QED BY <1>1, <2>1 DEF Tree
  <1>3. Height[join] \in Nat /\ Height[join] <= Height[b]
    BY <1>1, <1>2
  \* Above the join the fork is new, and up to it the chains are the same.
  <1>7. ASSUME NEW c \in Ancestry(b), Height[c] > Height[join]
        PROVE  c \in fork \ main
    <2>1. c \in fork
      BY <1>1, <1>2, <1>3, <1>7
    <2> QED BY <1>7, <2>1
  <1>8. ASSUME NEW c \in Ancestry(b), Height[c] <= Height[join]
        PROVE  c \in Ancestry(last)
    <2>1. c \in Ancestry(join)
      <3>1. join \in Ancestry(b)
        BY <1>1
      <3> QED BY <1>8, <3>1, AncestorsInLine
    <2>2. Ancestry(join) \subseteq Ancestry(last)
      <3>1. join \in Ancestry(last)
        OBVIOUS
      <3> QED BY <3>1, AncestorsAreLower
    <2> QED BY <2>1, <2>2
  \* The fork has a transaction once.
  <1>9. ASSUME NEW c \in Ancestry(b), NEW d \in Ancestry(b), c # d
        PROVE  Height[c] # Height[d] /\ Txs[c] \cap Txs[d] = {}
    <2>1. c \in Block /\ d \in Block /\ Height[c] \in Nat /\ Height[d] \in Nat
      BY <1>1, <1>2
    <2>2. \A e \in Block : \A f \in Ancestry(e) \ {e} : Txs[e] \cap Txs[f] = {}
      BY PeerChainAssumption
    <2>3. c \in Ancestry(d) \/ d \in Ancestry(c)
      <3>1. CASE Height[c] <= Height[d]
        BY <3>1, AncestorsInLine
      <3>2. CASE Height[d] <= Height[c]
        BY <3>2, AncestorsInLine
      <3> QED BY <2>1, <3>1, <3>2
    <2>4. Height[c] # Height[d]
      BY <1>9, AncestorsInLine
    <2> QED BY <1>9, <2>1, <2>2, <2>3, <2>4
  <1>10. ASSUME NEW t \in Tx
         PROVE  /\ new[t] <= Height[b]
                /\ \A c \in Ancestry(b) :
                      Height[c] > 0 => (new[t] = Height[c] <=> t \in Txs[c])
    <2>1. ASSUME NEW d \in fork \ main, t \in Txs[d], new[t] = Height[d]
          PROVE  /\ new[t] <= Height[b]
                 /\ \A c \in Ancestry(b) : new[t] = Height[c] <=> t \in Txs[c]
      <3>1. d \in Ancestry(b) /\ Height[d] <= Height[b]
        BY <1>1, <1>2
      <3>2. \A c \in Ancestry(b) : c # d => Height[c] # Height[d] /\ t \notin Txs[c]
        BY <1>9, <2>1, <3>1
      <3> QED BY <2>1, <3>1, <3>2
    <2>2. ASSUME new[t] = undone[t], \A d \in fork \ main : t \notin Txs[d]
          PROVE  /\ new[t] <= Height[b]
                 /\ \A c \in Ancestry(b) :
                       Height[c] > 0 => (new[t] = Height[c] <=> t \in Txs[c])
      <3>1. new[t] <= Height[join] /\ old[t] \in Nat /\ new[t] \in Nat
        BY <1>3, <2>2 DEF UndoneAbove
      <3>2. \A c \in Ancestry(last) :
                Height[c] > 0 => (old[t] = Height[c] <=> t \in Txs[c])
        BY DEF Fit
      <3>3. ASSUME NEW c \in Ancestry(b), Height[c] > 0
            PROVE  new[t] = Height[c] <=> t \in Txs[c]
        <4>1. CASE Height[c] > Height[join]
          <5>1. t \notin Txs[c]
            BY <1>7, <2>2, <4>1
          <5>2. new[t] # Height[c]
            BY <1>2, <1>3, <3>1, <4>1
          <5> QED BY <5>1, <5>2
        <4>2. CASE Height[c] <= Height[join]
          <5>1. old[t] = Height[c] <=> t \in Txs[c]
            BY <1>8, <3>2, <3>3, <4>2
          <5>2. Height[c] \in Nat
            BY <1>2
          <5> QED BY <1>3, <2>2, <3>1, <3>3, <4>2, <5>1, <5>2 DEF UndoneAbove
        <4> QED BY <1>2, <1>3, <4>1, <4>2
      <3>4. new[t] <= Height[b]
        <4>1. Height[b] \in Nat
          BY DEF Tree
        <4> QED BY <1>3, <3>1, <4>1
      <3> QED BY <3>3, <3>4
    <2> QED BY <2>1, <2>2 DEF ConfirmedBy
  <1> QED BY <1>10 DEF Fit

\* The reorganization of a fork that a block makes longer than the main chain.
LEMMA ReorganizesKeeps ==
    ASSUME NEW p, NEW b, Relays(p, b), Longer(b), Reorganizes(p, b)
    PROVE  ChainInv'
  <1>1. /\ ChainInv /\ ChainTyped /\ HeightsOnChain /\ p \in Peers /\ b \in Block
        /\ Tree /\ UNCHANGED rewound /\ ~failed
        /\ Ahead(b, lastBlock) /\ lastBlock \in Block /\ txHeight \in [Tx -> Nat]
    BY TreeOfBlocks DEF Relays, ChainInv, ChainTyped, Usable, Longer
  <1>2. /\ blocks' \in SUBSET Block /\ IsFiniteSet(blocks') /\ Checkpoints \subseteq blocks'
        /\ b \in blocks' /\ blocks' \subseteq blocks \cup {b}
    BY <1>1, AddsBlock DEF Reorganizes
  <1> DEFINE main == Line(Held(b), stubs, lastBlock)
             fork == Line(blocks', stubs', b)
             join == Highest(main \cap fork)
             undone == Unconfirmed(txHeight, Height[join])
  <1>3. CASE /\ main \cap fork = {} /\ failed' = TRUE /\ Free(p)
             /\ UNCHANGED <<lastBlock, txHeight, file, ahead>>
    <2>1. UNCHANGED orphans /\ next' \in [Peers -> Block \cup {None}]
      BY <1>1, <1>3, Frees
    <2>2. ChainTyped'
      BY <1>1, <1>2, <1>3, <2>1 DEF ChainTyped
    <2>3. TipIsHighest' /\ NoOrphanOnTip'
      BY <1>1, <1>3, <2>1 DEF ChainInv, TipIsHighest, NoOrphanOnTip
    <2>4. HeightsOnChain'
      BY <1>1, <1>3, SameHeights
    <2> QED BY <2>2, <2>3, <2>4 DEF ChainInv
  <1>4. CASE /\ main \cap fork # {} /\ txHeight' = Confirmed(undone, fork \ main)
             /\ lastBlock' = b /\ ahead' = {c \in ahead : Ahead(c, b)}
             /\ SaveComplete(b) \/ UNCHANGED file
             /\ Release(p, b, orphans)
    <2>1. /\ orphans' \in SUBSET orphans /\ \A o \in orphans' : Prev[o] # b
          /\ next' \in [Peers -> Block \cup {None}]
      BY <1>1, <1>4, Releases DEF ChainTyped
    <2>2. file' \in SUBSET Block /\ IsFiniteSet(file')
      BY <1>1, <1>2, <1>4, SavesComplete DEF ChainTyped
    <2>3. main \subseteq Ancestry(lastBlock) /\ fork \subseteq Block
      <3>1. Held(b) \in SUBSET Block
        BY <1>1, HeldKeeps DEF ChainTyped
      <3>2. main \subseteq Ancestry(lastBlock)
        BY <1>1, <3>1, LineOfAncestors
      <3>3. fork \subseteq Block
        BY <1>1, <1>2, LineGoesBack
      <3> QED BY <3>2, <3>3
    <2>4. /\ join \in main \cap fork /\ \A c \in main \cap fork : ~(Height[c] > Height[join])
          /\ Height[join] \in Nat
      <3>1. Ancestry(lastBlock) \subseteq Block /\ Height[lastBlock] \in Nat
        BY <1>1, AncestryGoesBack DEF Tree
      <3>2. \A c \in Ancestry(lastBlock) : c = lastBlock \/ Height[c] < Height[lastBlock]
        BY <1>1, AncestorsAreLower
      <3> HIDE DEF main, fork
      <3>3. main \cap fork \in SUBSET Block /\ main \cap fork # {}
        BY <1>4, <2>3
      <3>4. \A c \in main \cap fork : Height[c] <= Height[lastBlock]
        BY <1>1, <2>3, <3>1, <3>2 DEF Tree
      <3>5. join \in main \cap fork /\ \A c \in main \cap fork : ~(Height[c] > Height[join])
        BY <1>1, <3>1, <3>3, <3>4, HighestOf
      <3> HIDE DEF join
      <3> QED BY <1>1, <3>3, <3>5 DEF Tree
    <2>5. undone \in [Tx -> Nat] /\ UndoneAbove(Height[join], txHeight, undone)
      <3> HIDE DEF join
      <3> QED BY <1>1, <2>4, Undone
    <2>6. txHeight' \in [Tx -> Nat] /\ ConfirmedBy(fork \ main, undone, txHeight')
      <3> DEFINE line == fork \ main
      <3>1. line \in SUBSET Block /\ txHeight' = Confirmed(undone, line)
        BY <1>4, <2>3
      <3> HIDE DEF line, undone
      <3>2. /\ Confirmed(undone, line) \in [Tx -> Nat]
            /\ ConfirmedBy(line, undone, Confirmed(undone, line))
        BY <1>1, <2>5, <3>1, Confirms
      <3> QED BY <3>1, <3>2 DEF line
    <2>7. ChainTyped'
      BY <1>1, <1>2, <1>4, <2>1, <2>2, <2>6 DEF ChainTyped
    <2>8. TipIsHighest' /\ NoOrphanOnTip'
      BY <1>1, <1>2, <1>4, <2>1, TipMoves
    <2>9. HeightsOnChain'
      <3>1. CASE rewound
        BY <1>1, <3>1 DEF HeightsOnChain
      <3>2. CASE ~rewound
        <4>1. Fit(txHeight, lastBlock)
          BY <1>1, <3>2 DEF HeightsOnChain, HeightsFit, Fit
        <4>2. fork = Line(blocks', stubs', b)
          OBVIOUS
        <4> HIDE DEF main, fork, join, undone
        <4>3. Fit(txHeight', b)
          BY <1>1, <1>2, <2>3, <2>4, <2>5, <2>6, <4>1, <4>2, FitsFork
        <4> QED BY <1>4, <4>3 DEF HeightsOnChain, HeightsFit, Fit
      <3> QED BY <3>1, <3>2
    <2> QED BY <2>7, <2>8, <2>9 DEF ChainInv
  <1> QED BY <1>3, <1>4 DEF Reorganizes

LEMMA HandlesKeeps ==
    ASSUME ChainInv, Usable, NEW p \in Peers, NEW b \in Block,
           HandlesBlock(p, b)
    PROVE  ChainInv'
  <1>1. Relays(p, b)
    BY DEF Relays, HandlesBlock
  <1>2. Prev[b] \in blocks => Prev[b] # None
    BY TreeOfBlocks DEF Tree, ChainInv, ChainTyped
  <1>3. CASE Ignored(p)
    BY <1>1, <1>3, IgnoredKeeps
  <1>4. CASE Prev[b] \notin blocks /\ Orphaned(p, b)
    BY <1>1, <1>4, OrphanedKeeps
  <1>5. CASE Dropped(p, b)
    BY <1>1, <1>5, DroppedKeeps
  <1>6. CASE Prev[b] = lastBlock /\ Extends(p, b)
    BY <1>1, <1>6, ExtendsKeeps
  <1>7. CASE Prev[b] \in blocks /\ b \in blocks /\ AlreadyHeld(p, b)
    BY <1>1, <1>2, <1>7, AlreadyHeldKeeps
  <1>8. CASE Apart(b) /\ Postponed(p, b)
    BY <1>1, <1>8, PostponedKeeps
  <1>9. CASE Longer(b) /\ Reorganizes(p, b)
    BY <1>1, <1>9, ReorganizesKeeps
  <1>10. CASE ~Longer(b) /\ Branches(p, b)
    BY <1>1, <1>10, BranchesKeeps
  <1> QED BY <1>3, <1>4, <1>5, <1>6, <1>7, <1>8, <1>9, <1>10 DEF HandlesBlock

-----------------------------------------------------------------------------
(* Peers, the filter, rescans and restarts.                                 *)

\* Of the chain nothing changes but that orphans go.
LEMMA PeersKeep ==
    ASSUME ChainInv, orphans' \in SUBSET orphans,
           UNCHANGED <<blocks, lastBlock, txHeight, next, file, failed, ahead, rewound>>
    PROVE  ChainInv'
  <1>1. ChainTyped'
    BY DEF ChainInv, ChainTyped
  <1>2. TipIsHighest' /\ NoOrphanOnTip'
    BY DEF ChainInv, TipIsHighest, NoOrphanOnTip, Ahead
  <1>3. HeightsOnChain'
    BY SameHeights DEF ChainInv
  <1> QED BY <1>1, <1>2, <1>3 DEF ChainInv

\* The tip is set back to a block that is held.
LEMMA SetBackKeeps ==
    ASSUME Tree, ChainTyped', lastBlock' \in blocks', SetBack(lastBlock', blocks'),
           UNCHANGED txHeight
    PROVE  ChainInv'
  <1>1. ahead' = {c \in blocks' : ~Ahead(lastBlock', c)}
    BY DEF SetBack
  <1>2. \A c \in blocks' : Height[c] \in Nat
    BY DEF ChainTyped, Tree
  <1>3. \A c \in blocks' \ ahead' : ~Ahead(c, lastBlock')
    BY <1>1, <1>2 DEF Ahead
  <1>4. lastBlock' \in ahead'
    BY <1>1, <1>2 DEF Ahead
  <1>5. TipIsHighest' /\ NoOrphanOnTip'
    BY <1>3, <1>4 DEF TipIsHighest, NoOrphanOnTip, Ahead
  <1>6. ~rewound' => HeightsFit(lastBlock')
    BY DEF SetBack
  <1>7. HeightsOnChain'
    BY <1>6 DEF HeightsOnChain, HeightsFit
  <1> QED BY <1>5, <1>7 DEF ChainInv

LEMMA RescanKeeps ==
    ASSUME ChainInv, NEW b \in blocks, RescanTo(b)
    PROVE  ChainInv'
  <1>1. /\ lastBlock' = b /\ SetBack(b, blocks)
        /\ UNCHANGED <<blocks, txHeight, orphans, next, file>>
    BY DEF RescanTo, peerVars
  <1>2. ChainTyped'
    BY <1>1 DEF ChainInv, ChainTyped
  <1> QED BY <1>1, <1>2, TreeOfBlocks, SetBackKeeps

\* Whatever number is asked for, the block that is found is held.
LEMMA LooksUpHeld ==
    ASSUME ChainTyped, lastBlock \in blocks, NEW n \in Nat,
           NEW b \in LookupBlock(n)
    PROVE  b \in blocks
  <1>1. /\ Checkpoints \in SUBSET Block /\ IsFiniteSet(Checkpoints) /\ Tree
        /\ \E genesis \in Checkpoints : Height[genesis] = 0
    <2>1. Checkpoints \in SUBSET Block /\ \E genesis \in Checkpoints : Height[genesis] = 0
      BY PeerChainAssumption
    <2>2. IsFiniteSet(Checkpoints)
      BY PeerChainAssumption
    <2> QED BY <2>1, <2>2, TreeOfBlocks
  <1> DEFINE main == {c \in MainLine : Height[c] = n}
             same == {c \in Checkpoints : Height[c] = n}
             lower == {c \in Checkpoints : Height[c] < n}
  <1>2. MainLine \subseteq blocks
    BY <1>1, LineIsHeld DEF ChainTyped, MainLine
  <1>3. ASSUME same = {} PROVE Highest(lower) \in Checkpoints
    <2>1. lower \in SUBSET Checkpoints /\ lower # {}
      BY <1>1, <1>3
    <2> HIDE DEF lower
    <2>2. lower \in SUBSET Block /\ IsFiniteSet(lower)
      BY <1>1, <2>1, FS_Subset
    <2> QED BY <1>1, <2>1, <2>2, HighestOfFinite
  <1>4. b \in IF main # {} THEN main ELSE IF same # {} THEN same ELSE {Highest(lower)}
    BY DEF LookupBlock
  <1>5. b \in main \/ b \in same \/ (same = {} /\ b = Highest(lower))
    <2> HIDE DEF main, same, lower
    <2> QED BY <1>4
  <1> QED BY <1>2, <1>3, <1>5 DEF ChainTyped

\* What is loaded is on file, and the tip is the highest of it.
LEMMA RestartKeeps ==
    ASSUME ChainInv, Restart
    PROVE  ChainInv'
  <1>1. /\ Checkpoints \in SUBSET Block /\ IsFiniteSet(Checkpoints) /\ Start \in Checkpoints
        /\ Tree
    <2>1. Checkpoints \in SUBSET Block /\ Start \in Checkpoints
      BY PeerChainAssumption
    <2>2. IsFiniteSet(Checkpoints)
      BY PeerChainAssumption
    <2> QED BY <2>1, <2>2, TreeOfBlocks
  <1>2. \E loaded \in SUBSET file : Loads(loaded)
    <2>1. \A t : LoadedFrom(t) \in SUBSET file
      BY DEF LoadedFrom
    <2>2. {} \in SUBSET file
      OBVIOUS
    <2> QED BY <2>1, <2>2 DEF Restart
  <1>3. PICK loaded \in SUBSET file : Loads(loaded)
    BY <1>2
  <1>4. loaded \in SUBSET Block /\ IsFiniteSet(loaded)
    <2>1. file \in SUBSET Block /\ IsFiniteSet(file)
      BY DEF ChainInv, ChainTyped
    <2> QED BY <2>1, FS_Subset
  <1>5. loaded # {} => Highest(loaded) \in loaded
    BY <1>1, <1>4, HighestOfFinite
  <1>6. /\ blocks' = Checkpoints \cup loaded
        /\ lastBlock' = IF loaded = {} THEN Start ELSE Highest(loaded)
    BY <1>3 DEF Loads
  <1>7. /\ orphans' = {} /\ next' = [p \in Peers |-> None]
        /\ SetBack(lastBlock', blocks') /\ UNCHANGED <<file, txHeight>>
    BY DEF Restart
  <1>8. lastBlock' \in blocks' /\ blocks' \in SUBSET Block
    BY <1>1, <1>4, <1>5, <1>6
  <1>9. IsFiniteSet(Checkpoints \cup loaded)
    BY <1>1, <1>4, FS_Union
  <1>10. ChainTyped'
    BY <1>6, <1>7, <1>8, <1>9 DEF ChainInv, ChainTyped
  <1> QED BY <1>1, <1>7, <1>8, <1>10, SetBackKeeps

LEMMA ChainStep ==
    ASSUME ChainInv, [ChainNext]_chainVars
    PROVE  ChainInv'
  <1>1. ASSUME NEW p \in Peers, NEW h \in Lasts, PeerConnectedAt(p, h) PROVE ChainInv'
    <2>1. UNCHANGED <<blocks, lastBlock, txHeight, next, file, failed, ahead, rewound>>
      BY <1>1 DEF PeerConnectedAt, lineVars, histVars
    <2>2. orphans' \in SUBSET orphans
      BY <1>1 DEF PeerConnectedAt, LoadBloomFilter
    <2> QED BY <2>1, <2>2, PeersKeep
  <1>2. ASSUME NEW p \in Peers, PeerLost(p) PROVE ChainInv'
    BY <1>2, PeersKeep DEF PeerLost, lineVars, histVars
  <1>3. ASSUME NEW p \in Peers, FilterReset(p) PROVE ChainInv'
    BY <1>3, PeersKeep DEF FilterReset, lineVars, peerVars, histVars
  <1>4. ASSUME NEW p \in Peers, FilterUpdate(p) PROVE ChainInv'
    <2>1. UNCHANGED <<blocks, lastBlock, txHeight, next, file, failed, ahead, rewound>>
      BY <1>4 DEF FilterUpdate, lineVars, peerVars, histVars
    <2>2. orphans' \in SUBSET orphans
      BY <1>4 DEF FilterUpdate, LoadBloomFilter
    <2> QED BY <2>1, <2>2, PeersKeep
  <1>5. ASSUME NEW p \in Peers, NEW b \in Block, Relay(p, b) PROVE ChainInv'
    BY <1>5, HandlesKeeps DEF Relay
  <1>6. ASSUME NEW p \in Peers, RelayNext(p) PROVE ChainInv'
    <2>1. CASE HandlesBlock(p, next[p])
      <3>1. Usable /\ next[p] \in Block
        BY <1>6 DEF RelayNext, ChainInv, ChainTyped
      <3> QED BY <2>1, <3>1, HandlesKeeps
    <2>2. CASE /\ Free(p)
               /\ UNCHANGED <<lineVars, file, failed, histVars>>
      <3>1. UNCHANGED <<blocks, lastBlock, txHeight, file, failed, ahead, rewound>>
        BY <2>2 DEF lineVars, histVars
      <3>2. UNCHANGED orphans /\ next' \in [Peers -> Block \cup {None}]
        BY <2>2, Frees DEF ChainInv
      <3>3. ChainTyped'
        BY <3>1, <3>2 DEF ChainInv, ChainTyped
      <3>4. TipIsHighest' /\ NoOrphanOnTip'
        BY <3>1, <3>2, TipStays
      <3>5. HeightsOnChain'
        BY <3>1, SameHeights DEF ChainInv
      <3> QED BY <3>3, <3>4, <3>5 DEF ChainInv
    <2> QED BY <1>6, <2>1, <2>2 DEF RelayNext
  <1>7. ASSUME RescanFromStart PROVE ChainInv'
    <2>1. Start \in blocks
      BY PeerChainAssumption DEF ChainInv, ChainTyped
    <2> QED BY <1>7, <2>1, RescanKeeps DEF RescanFromStart
  <1>8. ASSUME RescanFromLastHardcodedCheckpoint PROVE ChainInv'
    <2>1. Checkpoints \in SUBSET Block /\ Checkpoints # {}
      BY PeerChainAssumption
    <2>2. IsFiniteSet(Checkpoints)
      BY PeerChainAssumption
    <2>3. Highest(Checkpoints) \in blocks
      BY <2>1, <2>2, TreeOfBlocks, HighestOfFinite DEF ChainInv, ChainTyped
    <2> QED BY <1>8, <2>3, RescanKeeps DEF RescanFromLastHardcodedCheckpoint
  <1>9. ASSUME RescanFromBlockNumber PROVE ChainInv'
    <2>1. PICK b \in Block : \E c \in LookupBlock(Height[b]) : RescanTo(c)
      BY <1>9 DEF RescanFromBlockNumber
    <2>2. PICK c \in LookupBlock(Height[b]) : RescanTo(c)
      BY <2>1
    <2>3. Height[b] \in Nat /\ lastBlock \in blocks
      BY <2>2, TreeOfBlocks DEF Tree, RescanTo, Usable
    <2>4. c \in blocks
      BY <2>3, LooksUpHeld DEF ChainInv
    <2> QED BY <2>2, <2>4, RescanKeeps
  <1>10. ASSUME Restart PROVE ChainInv'
    BY <1>10, RestartKeeps
  <1>11. ASSUME UNCHANGED chainVars PROVE ChainInv'
    BY <1>11, PeersKeep
       DEF chainVars, lineVars, peerVars, histVars
  <1> QED BY <1>1, <1>2, <1>3, <1>4, <1>5, <1>6, <1>7, <1>8, <1>9, <1>10, <1>11
          DEF ChainNext

\* The inductive invariant of the block chain holds.
LEMMA ChainInvariant ==
    ChainSpec => []ChainInv
  <1>1. ChainInit => ChainInv
    BY ChainInitially
  <1>2. ChainInv /\ [ChainNext]_chainVars => ChainInv'
    BY ChainStep
  <1> QED BY <1>1, <1>2, PTL DEF ChainSpec

\* The tip is the highest block that is held, but for those known from before it
\* was set back: no relayed block is longer than the chain and left beside it.
THEOREM TipIsTheHighest ==
    ChainSpec => []TipIsHighest
  <1>1. ChainInv => TipIsHighest
    BY DEF ChainInv
  <1> QED BY <1>1, ChainInvariant, PTL

\* Whoever relays what when, no orphan stays behind that follows the tip.
THEOREM NoOrphanFollowsTheTip ==
    ChainSpec => []NoOrphanOnTip
  <1>1. ChainInv => NoOrphanOnTip
    BY DEF ChainInv
  <1> QED BY <1>1, ChainInvariant, PTL

\* Through any reorganizations, exactly the transactions of the tip's chain are
\* confirmed, at their heights, unless the tip was set where they did not fit.
THEOREM HeightsAreOnTheChain ==
    ChainSpec => []HeightsOnChain
  <1>1. ChainInv => HeightsOnChain
    BY DEF ChainInv
  <1> QED BY <1>1, ChainInvariant, PTL

\* A rescan or a restart that goes back on the tip's own chain, and not below a
\* confirmed transaction, does not set the tip where the heights do not fit.
THEOREM FitsBackOnTheChain ==
    ChainSpec => [][/\ lastBlock' \in Ancestry(lastBlock)
                    /\ \A t \in Tx : txHeight[t] <= Height[lastBlock']
                    /\ ~rewound
                    => ~rewound']_chainVars
  <1> DEFINE Back == /\ lastBlock' \in Ancestry(lastBlock)
                     /\ \A t \in Tx : txHeight[t] <= Height[lastBlock']
                     /\ ~rewound
  <1>1. ASSUME [ChainNext]_chainVars
        PROVE  UNCHANGED rewound \/ \E held : SetBack(lastBlock', held)
    <2>1. ASSUME NEW b, RescanTo(b) PROVE \E held : SetBack(lastBlock', held)
      BY <2>1 DEF RescanTo
    <2>2. Restart => \E held : SetBack(lastBlock', held)
      BY DEF Restart
    <2>3. ASSUME NEW p, NEW b, HandlesBlock(p, b) PROVE UNCHANGED rewound
      BY <2>3 DEF HandlesBlock
    <2> QED BY <1>1, <2>1, <2>2, <2>3
            DEF ChainNext, PeerConnectedAt, PeerLost, FilterReset,
                FilterUpdate, Relay, RelayNext, RescanFromStart,
                RescanFromLastHardcodedCheckpoint, RescanFromBlockNumber,
                chainVars, histVars
  <1>2. ASSUME ChainInv, Back, NEW held, SetBack(lastBlock', held)
        PROVE  ~rewound'
    <2>1. Tree /\ lastBlock \in Block /\ HeightsFit(lastBlock)
      BY <1>2, TreeOfBlocks DEF ChainInv, ChainTyped, HeightsOnChain
    <2>2. Ancestry(lastBlock') \subseteq Ancestry(lastBlock)
      BY <1>2, <2>1, AncestorsAreLower
    <2>3. HeightsFit(lastBlock')
      BY <1>2, <2>1, <2>2 DEF HeightsFit
    <2> QED BY <1>2, <2>3 DEF SetBack
  <1>3. ChainInv /\ [ChainNext]_chainVars => [Back => ~rewound']_chainVars
    BY <1>1, <1>2
  <1> QED BY <1>3, ChainInvariant, PTL DEF ChainSpec
-----------------------------------------------------------------------------
(* A restart goes on from the last complete download.                       *)

\* From the file f the chain is read back to the height n: to the highest
\* transition in f leads a block at or above n, and no transition lies between.
Brings(f, n) ==
    /\ n > 0 => \E t \in f : IsTransition(t)
                    /\ \A s \in Block : IsTransition(s) /\ Ahead(s, t) => Height[s] > n
    /\ \A t \in f : IsTransition(t) /\ (\A s \in f : IsTransition(s) => ~Ahead(s, t))
                    => \E c \in f : t \in Line(f, {}, c) /\ Height[c] >= n

\* What is above some block of a chain down to one, with a transition in it.
Segment(line, b) ==
    /\ line \in SUBSET Ancestry(b) /\ b \in line
    /\ \A x \in line, c \in Ancestry(b) : Height[x] <= Height[c] => c \in line
    /\ \E t \in line : IsTransition(t)

\* Above an ancestor a chain goes on down.
LEMMA GoesDown ==
    ASSUME Tree, NEW b \in Block, NEW x \in Ancestry(b), NEW t \in Ancestry(b),
           Height[t] < Height[x]
    PROVE  /\ Prev[x] \in Ancestry(b) /\ Prev[x] # None
           /\ Height[x] = Height[Prev[x]] + 1 /\ Height[Prev[x]] >= Height[t]
  <1>1. x \in Block /\ t \in Block /\ t \in Ancestry(x) /\ t # x
    BY AncestryGoesBack, AncestorsInLine DEF Tree
  <1>2. Prev[x] # None
    <2>1. Prev[x] = None => Ancestry(x) \subseteq {x}
      <3>1. {x} \in SUBSET Block
        BY <1>1
      <3> QED BY <1>1, <3>1, AncestryGoesBack
    <2> QED BY <1>1, <2>1
  <1>3. Prev[x] \in Ancestry(b) /\ Prev[x] \in Block
    BY <1>2, AncestryGoesBack
  <1>4. Height[x] = Height[Prev[x]] + 1
    BY <1>1, <1>2 DEF Tree
  <1>5. Height[x] \in Nat /\ Height[t] \in Nat /\ Height[Prev[x]] \in Nat
    BY <1>1, <1>3 DEF Tree
  <1> QED BY <1>2, <1>3, <1>4, <1>5

\* A set of blocks has a lowest one.
LEMMA LowestOf ==
    ASSUME Tree, NEW held \in SUBSET Block, held # {}
    PROVE  \E x \in held : \A y \in held : Height[x] <= Height[y]
  <1> DEFINE T == {Height[y] : y \in held}
  <1>1. T \in SUBSET Nat /\ T # {}
    BY DEF Tree
  <1>2. \E n \in T : \A m \in T : n <= m
    <2> HIDE DEF T
    <2> QED BY <1>1, LeastOf
  <1> QED BY <1>2

\* A chain has a block of each height from an ancestor up.
LEMMA AncestorAt ==
    ASSUME Tree, NEW b \in Block, NEW t \in Ancestry(b), NEW h \in Nat,
           Height[t] <= h, h <= Height[b]
    PROVE  \E d \in Ancestry(b) : Height[d] = h
  <1> DEFINE S == {x \in Ancestry(b) : Height[x] >= h}
  <1>1. S \in SUBSET Block /\ b \in S
    BY AncestryGoesBack
  <1>2. PICK x \in S : \A y \in S : Height[x] <= Height[y]
    <2> HIDE DEF S
    <2> QED BY <1>1, LowestOf
  <1>3. Height[x] \in Nat /\ Height[t] \in Nat
    BY <1>1, AncestryGoesBack DEF Tree
  <1>4. CASE Height[x] > h
    <2>1. /\ Prev[x] \in Ancestry(b) /\ Prev[x] \in Block
          /\ Height[x] = Height[Prev[x]] + 1
      <3>1. Height[t] < Height[x]
        BY <1>3, <1>4
      <3> QED BY <3>1, GoesDown, AncestryGoesBack
    <2>2. Height[Prev[x]] \in Nat
      BY <2>1 DEF Tree
    <2>3. Prev[x] \in S
      BY <1>3, <1>4, <2>1, <2>2
    <2> QED BY <1>2, <1>3, <2>1, <2>2, <2>3
  <1> QED BY <1>2, <1>3, <1>4

\* Where more is held, a line is no shorter.
LEMMA LineGrows ==
    ASSUME Tree, NEW f \in SUBSET Block, NEW g \in SUBSET Block, f \subseteq g, NEW b \in Block
    PROVE  Line(f, {}, b) \subseteq Line(g, {}, b)
  <1>1. Line(g, {}, b) \in SUBSET Block /\ b \in Line(g, {}, b) /\ GoesBack(Line(g, {}, b), g, {})
    BY LineGoesBack
  <1>2. GoesBack(Line(g, {}, b), f, {})
    BY <1>1 DEF GoesBack, GoesOn
  <1> QED BY <1>1, <1>2, LineGoesBack

\* In a segment the walk from its top gets to each of its blocks.
LEMMA SegmentIsWalked ==
    ASSUME Tree, NEW b \in Block, NEW line, Segment(line, b), NEW t \in line
    PROVE  t \in Line(line, {}, b)
  <1> DEFINE L == Line(line, {}, b)
  <1>1. line \in SUBSET Block /\ t \in Ancestry(b)
    BY AncestryGoesBack DEF Segment
  <1>2. L \in SUBSET Block /\ b \in L /\ L \subseteq Ancestry(b) /\ GoesBack(L, line, {})
    BY <1>1, LineGoesBack, LineOfAncestors
  <1>3. PICK x \in L : \A y \in L : Height[x] <= Height[y]
    <2> HIDE DEF L
    <2> QED BY <1>2, LowestOf
  <1>4. Height[x] \in Nat /\ Height[t] \in Nat
    BY <1>1, <1>2 DEF Tree
  <1>5. CASE Height[x] <= Height[t]
    BY <1>1, <1>5, LineOfAncestors
  <1>6. CASE Height[t] < Height[x]
    <2>1. /\ Prev[x] \in Ancestry(b) /\ Prev[x] # None
          /\ Height[x] = Height[Prev[x]] + 1 /\ Height[Prev[x]] >= Height[t]
      BY <1>1, <1>2, <1>6, GoesDown
    <2>2. Prev[x] \in line /\ Height[Prev[x]] \in Nat
      BY <1>1, <2>1, AncestryGoesBack DEF Segment, Tree
    <2>3. Prev[x] \in L
      BY <1>2, <2>2 DEF GoesBack, GoesOn
    <2> QED BY <1>3, <1>4, <2>1, <2>2, <2>3
  <1> QED BY <1>4, <1>5, <1>6

\* A file that is a segment brings the chain back to its top.
LEMMA SegmentBrings ==
    ASSUME Tree, NEW b \in Block, NEW line, Segment(line, b)
    PROVE  Brings(line, Height[b])
  <1> DEFINE T == {t \in line : IsTransition(t)}
  <1>1. line \in SUBSET Block /\ line \subseteq Ancestry(b) /\ b \in line /\ Height[b] \in Nat
    BY AncestryGoesBack DEF Segment, Tree
  <1>2. T \in SUBSET Block /\ T # {} /\ \A t \in T : Height[t] <= Height[b]
    <2>1. \A t \in T : Height[t] <= Height[b]
      <3> SUFFICES ASSUME NEW t \in T PROVE Height[t] <= Height[b]
        OBVIOUS
      <3>1. t = b \/ Height[t] < Height[b]
        BY <1>1, AncestorsAreLower
      <3>2. Height[t] \in Nat
        BY <1>1 DEF Tree
      <3> QED BY <1>1, <3>1, <3>2
    <2> QED BY <1>1, <2>1 DEF Segment
  <1>3. PICK t \in T : \A s \in T : ~(Height[s] > Height[t])
    <2> HIDE DEF T
    <2> QED BY <1>1, <1>2, HighestOf
  <1>4. ASSUME NEW s \in Block, IsTransition(s), Ahead(s, t) PROVE Height[s] > Height[b]
    <2>1. Height[s] \in Nat /\ Height[t] \in Nat /\ t \in Ancestry(b) /\ Height[t] < Height[s]
      BY <1>1, <1>4 DEF Tree, Ahead
    <2>2. SUFFICES ASSUME Height[s] <= Height[b] PROVE FALSE
      BY <1>1, <2>1
    <2>3. PICK d \in Ancestry(b) : Height[d] = Height[s]
      BY <2>1, <2>2, AncestorAt
    <2>4. d \in line
      BY <2>1, <2>3 DEF Segment
    <2>5. IsTransition(d)
      BY <1>4, <2>3 DEF IsTransition
    <2> QED BY <1>3, <2>1, <2>3, <2>4, <2>5
  <1>5. \A s \in line : s \in Line(line, {}, b) /\ Height[b] >= Height[b]
    BY <1>1, SegmentIsWalked
  <1>6. t \in line /\ IsTransition(t)
    OBVIOUS
  <1> QED BY <1>1, <1>4, <1>5, <1>6 DEF Brings

\* So does one that has its one block, which is a transition, beside others.
LEMMA TransitionBrings ==
    ASSUME Tree, NEW f \in SUBSET Block, NEW b \in f, IsTransition(b)
    PROVE  Brings(f, Height[b])
  <1>1. \A s \in Block : Ahead(s, b) => Height[s] > Height[b]
    BY DEF Ahead
  <1>2. ASSUME NEW t \in f, ~Ahead(b, t) PROVE t \in Line(f, {}, t) /\ Height[t] >= Height[b]
    BY <1>2, LineGoesBack DEF Ahead, Tree
  <1> QED BY <1>1, <1>2 DEF Brings

\* saveBlocks, given a segment, replaces the file, or adds a transition to it.
LEMMA SaveBrings ==
    ASSUME Tree, NEW b \in Block, NEW saves, Segment(saves, b), IsFiniteSet(saves),
           file \in SUBSET Block, Save(saves)
    PROVE  Brings(file', Height[b])
  <1>1. CASE Cardinality(saves) > 1
    BY <1>1, SegmentBrings DEF Save
  <1>2. CASE ~(Cardinality(saves) > 1)
    <2>1. ASSUME NEW c \in saves PROVE c = b
      <3> SUFFICES ASSUME c # b PROVE FALSE
        OBVIOUS
      <3>1. {b, c} \subseteq saves /\ IsFiniteSet({b, c}) /\ Cardinality({b, c}) = 2
        <4>1. IsFiniteSet({b}) /\ Cardinality({b}) = 1
          BY FS_Singleton
        <4>2. IsFiniteSet({b} \cup {c}) /\ Cardinality({b} \cup {c}) = 2
          <5>1. c \notin {b}
            OBVIOUS
          <5>2. /\ IsFiniteSet({b} \cup {c})
                /\ Cardinality({b} \cup {c}) = Cardinality({b}) + 1
            BY <4>1, <5>1, FS_AddElement, Zenon
          <5> QED BY <4>1, <5>2
        <4>3. {b} \cup {c} = {b, c}
          OBVIOUS
        <4> QED BY <4>2, <4>3 DEF Segment
      <3>2. Cardinality({b, c}) <= Cardinality(saves) /\ Cardinality(saves) \in Nat
        BY <3>1, FS_Subset, FS_CardinalityType
      <3> QED BY <1>2, <3>1, <3>2
    <2>2. saves = {b} /\ IsTransition(b)
      BY <2>1 DEF Segment
    <2>3. file' = file \cup {b}
      BY <1>2, <2>2 DEF Save
    <2> QED BY <2>2, <2>3, TransitionBrings
  <1> QED BY <1>1, <1>2

\* A transition that is saved alone does no harm, where it is the only one of its height.
LEMMA OneMoreBrings ==
    ASSUME Tree, NEW f \in SUBSET Block, NEW n \in Nat, Brings(f, n), NEW b \in Block,
           IsTransition(b), \A t \in f : IsTransition(t) /\ Height[t] = Height[b] => t = b
    PROVE  Brings(f \cup {b}, n)
  <1> DEFINE g == f \cup {b}
  <1>1. n > 0 => \E t \in g : IsTransition(t)
                    /\ \A s \in Block : IsTransition(s) /\ Ahead(s, t) => Height[s] > n
    BY DEF Brings
  <1>2. ASSUME NEW t \in g, IsTransition(t), \A s \in g : IsTransition(s) => ~Ahead(s, t)
        PROVE  \E c \in g : t \in Line(g, {}, c) /\ Height[c] >= n
    <2>1. CASE t \in f
      <3>1. PICK c \in f : t \in Line(f, {}, c) /\ Height[c] >= n
        BY <1>2, <2>1 DEF Brings
      <3>2. Line(f, {}, c) \subseteq Line(g, {}, c)
        BY LineGrows
      <3> QED BY <3>1, <3>2
    <2>2. CASE t \notin f
      <3>1. t = b /\ b \notin f
        BY <2>2
      <3>2. b \in Line(g, {}, b)
        BY LineGoesBack
      <3>3. Height[b] >= n
        <4>1. CASE n = 0
          BY <4>1 DEF Tree
        <4>2. CASE n > 0
          <5>1. PICK s \in f : IsTransition(s)
                    /\ \A r \in Block : IsTransition(r) /\ Ahead(r, s) => Height[r] > n
            BY <4>2 DEF Brings
          <5>2. Height[s] # Height[b] /\ ~Ahead(s, b)
            BY <1>2, <3>1, <5>1
          <5>3. Ahead(b, s)
            BY <5>1, <5>2 DEF Ahead, Tree
          <5>4. Height[b] > n /\ Height[b] \in Nat
            BY <5>1, <5>3 DEF Tree
          <5> QED BY <5>4
        <4> QED BY <4>1, <4>2
      <3> QED BY <3>1, <3>2, <3>3
    <2> QED BY <2>1, <2>2
  <1> QED BY <1>1, <1>2 DEF Brings

\* What is saved of a line is a segment, if it is anything.
LEMMA SavesSegment ==
    ASSUME Tree, NEW b \in Block, blocks' \in SUBSET Block, NEW count \in Int,
           SavedLine(b, count) # {}
    PROVE  Segment(SavedLine(b, count), b)
  <1> DEFINE L == Line(blocks', stubs', b)
             S == SavedLine(b, count)
             InS(c) == /\ c \in L /\ Height[b] - Height[c] < count
                       /\ \E t \in L : /\ Height[b] - Height[t] < count
                                       /\ IsTransition(t) /\ ~Ahead(t, c)
  <1>1. \A c : c \in S <=> InS(c)
    BY DEF SavedLine
  <1>2. /\ b \in L /\ L \subseteq Ancestry(b)
        /\ \A x \in L, c \in Ancestry(b) : Height[x] <= Height[c] => c \in L
    BY LineGoesBack, LineOfAncestors
  <1>3. \A c \in Ancestry(b) : Height[c] \in Nat /\ (c = b \/ Height[c] < Height[b])
    BY AncestryGoesBack, AncestorsAreLower DEF Tree
  <1> HIDE DEF L, S
  <1>4. S \subseteq Ancestry(b)
    BY <1>1, <1>2
  <1>5. PICK t \in L : Height[b] - Height[t] < count /\ IsTransition(t)
    BY <1>1 DEF S
  <1>6. InS(t)
    <2>1. ~Ahead(t, t)
      BY <1>2, <1>3, <1>5 DEF Ahead
    <2> QED BY <1>5, <2>1
  <1>7. ASSUME NEW x \in S, NEW c \in Ancestry(b), Height[x] <= Height[c] PROVE c \in S
    <2>1. InS(x) /\ x \in Ancestry(b)
      BY <1>1, <1>4
    <2>2. PICK s \in L : Height[b] - Height[s] < count /\ IsTransition(s) /\ ~Ahead(s, x)
      BY <2>1
    <2>3. Height[s] \in Nat /\ Height[x] \in Nat /\ Height[c] \in Nat /\ Height[b] \in Nat
      BY <1>2, <1>3, <2>1, <2>2
    <2>4. c \in L /\ Height[b] - Height[c] < count /\ ~Ahead(s, c)
      BY <1>2, <1>7, <2>1, <2>2, <2>3 DEF Ahead
    <2> QED BY <1>1, <2>2, <2>4
  <1>8. b \in S
    <2>1. t \in S /\ t \in Ancestry(b) /\ b \in Ancestry(b)
      BY <1>1, <1>2, <1>5, <1>6
    <2>2. Height[t] <= Height[b]
      BY <1>3, <2>1
    <2> QED BY <1>7, <2>1, <2>2
  <1>9. t \in S /\ IsTransition(t)
    BY <1>1, <1>5, <1>6
  <1> QED BY <1>4, <1>7, <1>8, <1>9 DEF Segment, S

\* What must not happen to the tip when a download completes: that its line is cut
\* above the transitions from which on it is saved.
ReachesTransition ==
    \E t \in MainLine :
        IsTransition(t) /\ Height[lastBlock] - Height[t] < CompleteCount(lastBlock)

\* And to the file: that two chains have each left a transition of one height in it.
OneTransition ==
    \A s, t \in file : IsTransition(s) /\ IsTransition(t) /\ Height[s] = Height[t] => s = t

Resumes == synced \in Nat /\ Brings(file, synced)

\* A complete download.
LEMMA CompleteResumes ==
    ASSUME Tree, ChainTyped, Resumes, NEW b \in Block, b \in blocks', lastBlock' = b,
           blocks' \in SUBSET Block, IsFiniteSet(blocks'), SaveComplete(b),
           synced' # synced => ReachesTransition'
    PROVE  Resumes'
  <1> DEFINE saves == SavedLine(b, CompleteCount(b))
  <1>1. Height[b] \in Nat /\ CompleteCount(b) \in Int /\ file \in SUBSET Block
    BY PeerChainAssumption DEF Tree, ChainTyped, CompleteCount
  <1>2. Save(saves) /\ synced' = Height[b]
    BY DEF SaveComplete
  <1>3. CASE saves = {}
    <2>1. file' = file
      BY <1>2, <1>3, FS_EmptySet DEF Save
    <2>2. ~ReachesTransition'
      <3> SUFFICES ASSUME ReachesTransition' PROVE FALSE
        OBVIOUS
      <3>1. PICK t \in Line(blocks', stubs', b) :
                IsTransition(t) /\ Height[b] - Height[t] < CompleteCount(b)
        BY DEF ReachesTransition, MainLine, IsTransition, CompleteCount
      <3>2. ~Ahead(t, t)
        <4>1. t \in Block
          BY <3>1, LineGoesBack
        <4> QED BY <4>1 DEF Ahead, Tree
      <3>3. t \in saves
        BY <3>1, <3>2 DEF SavedLine
      <3> QED BY <1>3, <3>3
    <2> QED BY <2>1, <2>2 DEF Resumes
  <1>4. CASE saves # {}
    <2>1. Segment(saves, b)
      BY <1>1, <1>4, SavesSegment
    <2>2. IsFiniteSet(saves)
      <3>1. Line(blocks', stubs', b) \subseteq blocks'
        BY LineIsHeld
      <3>2. saves \subseteq blocks'
        BY <3>1 DEF SavedLine
      <3> QED BY <3>2, FS_Subset
    <2>3. Brings(file', Height[b])
      <3> HIDE DEF saves
      <3> QED BY <1>1, <1>2, <2>1, <2>2, SaveBrings
    <2> QED BY <1>1, <1>2, <2>3 DEF Resumes
  <1> QED BY <1>3, <1>4

LEMMA ExtendsResumes ==
    ASSUME NEW p, NEW b, Relays(p, b), Extends(p, b), Resumes, OneTransition', ChainInv',
           synced' # synced => ReachesTransition'
    PROVE  Resumes'
  <1>1. /\ Tree /\ ChainTyped /\ b \in Block /\ b \in blocks' /\ lastBlock' = b
        /\ blocks' \in SUBSET Block /\ IsFiniteSet(blocks')
    BY TreeOfBlocks DEF Relays, ChainInv, ChainTyped, Extends, AddBlock
  <1>2. CASE SaveComplete(b)
    BY <1>1, <1>2, CompleteResumes
  <1>3. CASE Save({c \in {b} : IsTransition(c) /\ Height[c] + SaveAhead < estimatedHeight})
             /\ UNCHANGED synced
    <2>1. \/ UNCHANGED file
          \/ IsTransition(b) /\ file' = file \cup {b}
      <3> DEFINE saves == {c \in {b} : IsTransition(c) /\ Height[c] + SaveAhead < estimatedHeight}
      <3>1. saves = {} \/ (saves = {b} /\ IsTransition(b))
        <4>1. \A c \in saves : c = b /\ IsTransition(b)
          OBVIOUS
        <4> HIDE DEF saves
        <4> QED BY <4>1
      <3>2. Cardinality({}) = 0 /\ Cardinality({b}) = 1
        BY FS_EmptySet, FS_Singleton
      <3>3. ~(Cardinality(saves) > 1)
        BY <3>1, <3>2
      <3>4. file' = file \cup saves
        <4>1. Save(saves)
          BY <1>3
        <4> HIDE DEF saves
        <4> QED BY <3>3, <4>1 DEF Save
      <3> HIDE DEF saves
      <3> QED BY <3>1, <3>4
    <2>2. CASE UNCHANGED file
      BY <1>3, <2>2 DEF Resumes
    <2>3. CASE IsTransition(b) /\ file' = file \cup {b}
      <3>1. \A t \in file : IsTransition(t) /\ Height[t] = Height[b] => t = b
        BY <2>3 DEF OneTransition, IsTransition
      <3>2. file \in SUBSET Block /\ synced \in Nat /\ Brings(file, synced)
        BY <1>1 DEF ChainTyped, Resumes
      <3>3. Brings(file \cup {b}, synced)
        BY <1>1, <2>3, <3>1, <3>2, OneMoreBrings
      <3> QED BY <1>3, <2>3, <3>2, <3>3 DEF Resumes
    <2> QED BY <2>1, <2>2, <2>3
  <1> QED BY <1>2, <1>3 DEF Extends

LEMMA ReorganizesResumes ==
    ASSUME NEW p, NEW b, Relays(p, b), Reorganizes(p, b), Resumes, ChainInv',
           synced' # synced => ReachesTransition'
    PROVE  Resumes'
  <1>1. /\ Tree /\ ChainTyped /\ b \in Block /\ b \in blocks'
        /\ blocks' \in SUBSET Block /\ IsFiniteSet(blocks')
    BY TreeOfBlocks DEF Relays, ChainInv, ChainTyped, Reorganizes, AddBlock
  <1>2. UNCHANGED <<file, synced>> \/ (SaveComplete(b) /\ lastBlock' = b)
    <2>1. PICK main \in {Line(Held(b), stubs, lastBlock)}, fork \in {Line(blocks', stubs', b)} :
            IF main \cap fork = {} THEN UNCHANGED <<file, synced>>
            ELSE /\ lastBlock' = b
                 /\ IF Height[b] = estimatedHeight THEN SaveComplete(b)
                    ELSE UNCHANGED <<file, synced>>
      BY DEF Reorganizes
    <2>2. CASE main \cap fork = {}
      BY <2>1, <2>2
    <2>3. CASE main \cap fork # {}
      <3>1. lastBlock' = b
        BY <2>1, <2>3
      <3>2. SaveComplete(b) \/ UNCHANGED <<file, synced>>
        BY <2>1, <2>3
      <3> QED BY <3>1, <3>2
    <2> QED BY <2>2, <2>3
  <1> QED BY <1>1, <1>2, CompleteResumes DEF Resumes

LEMMA HandlesResumes ==
    ASSUME ChainInv, Usable, NEW p \in Peers, NEW b \in Block, HandlesBlock(p, b), Resumes,
           OneTransition', ChainInv', synced' # synced => ReachesTransition'
    PROVE  Resumes'
  <1>1. Relays(p, b)
    BY DEF Relays, HandlesBlock
  <1>2. \/ UNCHANGED <<file, synced>>
        \/ Extends(p, b)
        \/ Reorganizes(p, b)
    BY DEF HandlesBlock, Ignored, Orphaned, Dropped, AlreadyHeld, Postponed, Branches
  <1>3. CASE UNCHANGED <<file, synced>>
    BY <1>3 DEF Resumes
  <1> QED BY <1>1, <1>2, <1>3, ExtendsResumes, ReorganizesResumes

LEMMA ResumesStep ==
    ASSUME ChainInv, ChainInv', Resumes, OneTransition', [ChainNext]_chainVars,
           [synced' # synced => ReachesTransition']_chainVars
    PROVE  Resumes'
  <1>1. CASE UNCHANGED <<file, synced>>
    BY <1>1 DEF Resumes
  <1>2. synced' # synced => ReachesTransition'
    BY DEF chainVars, histVars
  <1>3. ASSUME NEW p \in Peers, NEW b \in Block, Relay(p, b) PROVE Resumes'
    BY <1>2, <1>3, HandlesResumes DEF Relay
  <1>4. ASSUME NEW p \in Peers, RelayNext(p) PROVE Resumes'
    <2>1. Usable /\ next[p] \in Block
      BY <1>4 DEF RelayNext, ChainInv, ChainTyped
    <2>2. CASE HandlesBlock(p, next[p])
      BY <1>2, <2>1, <2>2, HandlesResumes
    <2> QED BY <1>1, <1>4, <2>2 DEF RelayNext, histVars
  <1>5. \/ UNCHANGED <<file, synced>>
        \/ \E p \in Peers, b \in Block : Relay(p, b)
        \/ \E p \in Peers : RelayNext(p)
    <2>1. ASSUME NEW b, RescanTo(b) PROVE UNCHANGED <<file, synced>>
      BY <2>1 DEF RescanTo
    <2> QED BY <2>1 DEF ChainNext, PeerConnectedAt, PeerLost, FilterReset, FilterUpdate,
                        RescanFromStart, RescanFromLastHardcodedCheckpoint,
                        RescanFromBlockNumber, Restart, chainVars, histVars
  <1> QED BY <1>1, <1>3, <1>4, <1>5

\* What is read back reaches as far as the file brings it.
LEMMA RestartReads ==
    ASSUME ChainInv, Resumes, Restart
    PROVE  Height[lastBlock'] >= synced
  <1>1. Tree /\ file \in SUBSET Block /\ IsFiniteSet(file) /\ synced \in Nat
    BY TreeOfBlocks DEF ChainInv, ChainTyped, Resumes
  <1>2. CASE LastTransitions = {}
    <2>1. Loads({}) /\ Height[Start] \in Nat
      BY <1>1, <1>2, PeerChainAssumption DEF Restart, Tree
    <2>2. lastBlock' = Start
      BY <2>1 DEF Loads
    <2>3. ~(synced > 0)
      <3> SUFFICES ASSUME synced > 0 PROVE FALSE
        OBVIOUS
      <3> DEFINE T == {t \in file : IsTransition(t)}
      <3>1. T # {} /\ T \in SUBSET Block /\ IsFiniteSet(T)
        <4>1. T \subseteq file
          OBVIOUS
        <4>2. T # {}
          BY DEF Resumes, Brings
        <4> QED BY <1>1, <4>1, <4>2, FS_Subset
      <3>2. PICK t \in T : \A s \in T : ~Ahead(s, t)
        <4> HIDE DEF T
        <4> QED BY <1>1, <3>1, HeightsAreBounded, HighestOf DEF Ahead
      <3>3. t \in LastTransitions
        BY <3>2 DEF LastTransitions
      <3> QED BY <1>2, <3>3
    <2> QED BY <1>1, <2>1, <2>2, <2>3
  <1>3. CASE LastTransitions # {}
    <2>1. PICK t \in LastTransitions : Loads(LoadedFrom(t))
      BY <1>3 DEF Restart
    <2>2. PICK c \in file : t \in Line(file, {}, c) /\ Height[c] >= synced
      BY <2>1 DEF LastTransitions, Resumes, Brings
    <2>3. c \in LoadedFrom(t) /\ LoadedFrom(t) \in SUBSET Block /\ IsFiniteSet(LoadedFrom(t))
      <3>1. LoadedFrom(t) \subseteq file /\ c \in LoadedFrom(t)
        BY <2>2 DEF LoadedFrom
      <3> QED BY <1>1, <3>1, FS_Subset
    <2>4. lastBlock' = Highest(LoadedFrom(t))
      BY <2>1, <2>3 DEF Loads
    <2>5. lastBlock' \in Block /\ ~(Height[c] > Height[lastBlock'])
      BY <1>1, <2>3, <2>4, HeightsAreBounded, HighestOf
    <2> QED BY <1>1, <2>2, <2>5 DEF Tree
  <1> QED BY <1>2, <1>3

\* A restart does not go back below the last complete download, as long as every
\* complete download finds a transition on the way back from the tip, and no two
\* chains leave transitions of the same height on file.
THEOREM RestartGoesOn ==
    ChainSpec /\ []OneTransition /\ [][synced' # synced => ReachesTransition']_chainVars
        => RestartResumes
  <1>1. ChainInit => Resumes
    <2>1. ChainInit => synced = 0 /\ file = {}
      BY DEF ChainInit
    <2> QED BY <2>1 DEF Resumes, Brings
  <1>2. /\ ChainInv /\ ChainInv' /\ Resumes /\ OneTransition' /\ [ChainNext]_chainVars
        /\ [synced' # synced => ReachesTransition']_chainVars
        => Resumes'
    BY ResumesStep
  <1>3. ChainInv /\ Resumes => [Restart => Height[lastBlock'] >= synced]_chainVars
    BY RestartReads
  <1> QED BY <1>1, <1>2, <1>3, ChainInvariant, PTL DEF ChainSpec, RestartResumes
=============================================================================
