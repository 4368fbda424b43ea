-------------------------- MODULE ClientSyncProofs --------------------------
(***************************************************************************)
(* That the owner of a client sync manager is told the truth, that a request *)
(* number is answered once, and that scans miss no transaction, for any     *)
(* wallet, any number of blocks, requests and changes of mode.  The first   *)
(* two follow from one inductive invariant (IInv): a manager that is not    *)
(* connected scans nothing, a scan has a number the manager gave out, and so *)
(* has each request that waits for the client.  The third needs another     *)
(* (CInv) beside it: each transaction that the scan in progress must find   *)
(* is in the wallet or with a request that will bring it.                   *)
(***************************************************************************)
EXTENDS ClientSync, FiniteSetTheorems, WellFoundedInduction, TLAPS

\* A manager has its fields, of which the proofs leave the heights and addresses
\* open; one that is not connected runs no full scan, and a scan has a number that
\* was given out.
Manager(n) ==
    /\ n \in [connected : BOOLEAN, init : {n.init}, network : {n.network},
              synced : {n.synced}, rid : Nat, scan : {n.scan}]
    /\ n.scan \in [rid : Nat, beg : {n.scan.beg}, end : {n.scan.end}, full : BOOLEAN,
                   first : {n.scan.first}, known : {n.scan.known}]
    /\ n.scan.rid <= n.rid
    /\ n.scan.rid = 0 \/ ~n.connected => ~n.scan.full

\* The owner's state o is that of manager n.
Agrees(n, o) ==
    o = (IF ~n.connected THEN "disconnected" ELSE IF n.scan.full THEN "syncing" ELSE "connected")

\* A request has its fields, and a number that its manager has given out.
Request(q) ==
    q \in [rid : Nat, epoch : Nat, addresses : {q.addresses}, beg : {q.beg}, end : {q.end},
          answered : {q.answered}, todo : {q.todo}]

\* Numbers are given out in order, by one manager after the other.
NumbersGrow ==
    /\ epoch \in Nat /\ crossed \in BOOLEAN
    /\ \A q \in requests :
          /\ Request(q)
          /\ q.epoch <= epoch
          /\ q.epoch = epoch => q.rid <= m.rid

\* The inductive invariant.
IInv ==
    /\ Manager(m)
    /\ mode = "p2p" => ~m.connected
    /\ Agrees(m, told)
    /\ NumbersGrow
    /\ OneAnswerDue

-----------------------------------------------------------------------------
\* A manager that is made is idle, and its owner knows none that is connected.
LEMMA NewManagerIdle ==
    ASSUME NEW h
    PROVE  /\ Manager(NewManager(h)) /\ ~NewManager(h).connected
           /\ Agrees(NewManager(h), "disconnected")
  BY DEF Manager, NewManager, NoScan, Agrees

\* A manager whose scan is replaced by one that it may have.
LEMMA ScanReplaced ==
    ASSUME NEW n, NEW s,
           n \in [connected : BOOLEAN, init : {n.init}, network : {n.network},
                 synced : {n.synced}, rid : Nat, scan : {n.scan}],
           s \in [rid : Nat, beg : {s.beg}, end : {s.end}, full : BOOLEAN,
                 first : {s.first}, known : {s.known}],
           s.rid <= n.rid, s.rid = 0 \/ ~n.connected => ~s.full
    PROVE  LET r == [n EXCEPT !.scan = s]
           IN  /\ Manager(r) /\ r.rid = n.rid /\ r.connected = n.connected /\ r.scan = s
  <1> DEFINE r == [n EXCEPT !.scan = s]
  <1>1. /\ r \in [connected : BOOLEAN, init : {r.init}, network : {r.network},
                  synced : {r.synced}, rid : Nat, scan : {r.scan}]
        /\ r.rid = n.rid /\ r.connected = n.connected /\ r.scan = s
    OBVIOUS
  <1> HIDE DEF r
  <1>2. Manager(r)
    BY <1>1 DEF Manager
  <1> QED BY <1>1, <1>2 DEF r

\* No scan is one that any manager may have.
LEMMA NoScanIdle ==
    /\ NoScan \in [rid : Nat, beg : {NoScan.beg}, end : {NoScan.end}, full : BOOLEAN,
                   first : {NoScan.first}, known : {NoScan.known}]
    /\ NoScan.rid = 0 /\ NoScan.full = FALSE
  BY DEF NoScan

\* Ending the scan, with or without the connection, leaves a manager, of which the
\* owner has heard.
LEMMA EndsTold ==
    ASSUME Manager(m), Agrees(m, told)
    PROVE  /\ Manager(Wiped(m)) /\ Wiped(m).rid = m.rid /\ Wiped(m).connected = m.connected
           /\ ~Wiped(m).scan.full
           /\ m.connected => Agrees(Wiped(m), ScanStopped)
           /\ Manager(Disconnected) /\ Disconnected.rid = m.rid /\ ~Disconnected.connected
           /\ Dropped = "disconnected"
           /\ Agrees(Disconnected, Dropped)
  <1>1. /\ m.connected => ScanStopped = "connected"
        /\ Dropped = "disconnected"
    BY DEF Manager, Agrees, ScanStopped, Dropped, Told, After
  <1>2. /\ Manager(Wiped(m)) /\ Wiped(m).rid = m.rid /\ Wiped(m).connected = m.connected
        /\ ~Wiped(m).scan.full
    BY ScanReplaced, NoScanIdle DEF Manager, Wiped
  <1>3. Manager(Disconnected) /\ Disconnected.rid = m.rid /\ ~Disconnected.connected
    <2> DEFINE c == [m EXCEPT !.connected = FALSE]
    <2>1. /\ c \in [connected : BOOLEAN, init : {c.init}, network : {c.network},
                    synced : {c.synced}, rid : Nat, scan : {c.scan}]
          /\ c.rid = m.rid /\ c.connected = FALSE
      BY DEF Manager
    <2>2. Disconnected = [c EXCEPT !.scan = NoScan]
      BY DEF Disconnected, Wiped
    <2> HIDE DEF c
    <2> QED BY <2>1, <2>2, ScanReplaced, NoScanIdle
  <1> QED BY <1>1, <1>2, <1>3 DEF Agrees

\* Asking for the height and for the transactions: a scan gets a number never used,
\* and the owner hears of it if it is a full one.
LEMMA UpdateTells ==
    ASSUME NEW n, NEW o, Manager(n), Agrees(n, o), Update(n, o)
    PROVE  /\ Manager(m') /\ Agrees(m', told')
           /\ m'.connected = n.connected
           /\ n.rid <= m'.rid
           /\ \/ requests' = requests
              \/ \E a, d, e : requests' = requests \cup
                    {[rid |-> m'.rid, epoch |-> epoch, addresses |-> a, beg |-> d, end |-> e,
                      answered |-> FALSE, todo |-> {}]}
                 /\ n.rid < m'.rid
  <1> DEFINE b == BlockNumberAsked(n)
             scan == NewScan(b)
  <1>1. /\ Manager(b) /\ b.connected = n.connected /\ b.scan = n.scan
        /\ b.rid \in Nat /\ n.rid <= b.rid
    BY DEF Manager, BlockNumberAsked
  <1>2. CASE ~ScansNow(b)
    BY <1>1, <1>2 DEF Update, Manager, Agrees
  <1>3. CASE ScansNow(b)
    <2>1. /\ m' = [b EXCEPT !.rid = @ + 1, !.scan = scan]
          /\ told' = Told(o, "SYNC_STARTED", scan.full)
          /\ requests' = requests \cup {Query(scan, scan.known)}
      BY <1>3 DEF Update
    <2>2. /\ scan \in [rid : {scan.rid}, beg : {scan.beg}, end : {scan.end},
                       full : BOOLEAN, first : {scan.first}, known : {scan.known}]
          /\ scan.rid = b.rid + 1 /\ scan.full \in BOOLEAN
      BY DEF NewScan
    <2> HIDE DEF scan
    <2>3. b.connected /\ n.connected /\ ~n.scan.full /\ o = "connected"
      BY <1>1, <1>3 DEF ScansNow, Manager, Agrees
    <2> HIDE DEF b
    <2> DEFINE c == [b EXCEPT !.rid = @ + 1]
    <2>4. /\ c \in [connected : BOOLEAN, init : {c.init}, network : {c.network},
                    synced : {c.synced}, rid : Nat, scan : {c.scan}]
          /\ c.rid = b.rid + 1 /\ c.connected = b.connected
      BY <1>1 DEF Manager
    <2>11. m' = [c EXCEPT !.scan = scan]
      BY <2>1
    <2> HIDE DEF c
    <2>5. Manager(m') /\ m'.rid = b.rid + 1 /\ m'.scan = scan /\ m'.connected = b.connected
      <3>1. scan.rid \in Nat /\ scan.rid <= c.rid /\ scan.rid # 0 /\ c.connected
        BY <1>1, <2>2, <2>3, <2>4
      <3> QED BY <2>2, <2>4, <2>11, <3>1, ScanReplaced
    <2>6. Agrees(m', told')
      BY <2>1, <2>2, <2>3, <2>5 DEF Agrees, Told, After
    <2>7. Query(scan, scan.known) =
             [rid |-> m'.rid, epoch |-> epoch, addresses |-> scan.known, beg |-> scan.beg,
              end |-> IF scan.full THEN scan.end ELSE Unbounded,
              answered |-> FALSE, todo |-> {}]
      BY <2>2, <2>5 DEF Query
    <2>8. n.rid < m'.rid /\ n.rid <= m'.rid
      BY <1>1, <2>5 DEF Manager
    <2>9. requests' = requests \cup
             {[rid |-> m'.rid, epoch |-> epoch, addresses |-> scan.known, beg |-> scan.beg,
               end |-> IF scan.full THEN scan.end ELSE Unbounded,
               answered |-> FALSE, todo |-> {}]}
      BY <2>1, <2>7
    <2>10. \E a, d, e : requests' = requests \cup
              {[rid |-> m'.rid, epoch |-> epoch, addresses |-> a, beg |-> d, end |-> e,
                answered |-> FALSE, todo |-> {}]}
      BY <2>9
    <2> QED BY <1>1, <2>5, <2>6, <2>8, <2>10
  <1> QED BY <1>2, <1>3

\* What an update asks does not disturb the numbers.
LEMMA UpdateNumbers ==
    ASSUME NEW n, NEW o, Manager(n), Agrees(n, o), Update(n, o), n.rid = m.rid,
           NumbersGrow, OneAnswerDue, UNCHANGED <<epoch, crossed>>
    PROVE  NumbersGrow' /\ OneAnswerDue'
  <1>1. /\ Manager(m') /\ n.rid <= m'.rid
        /\ \/ requests' = requests
           \/ \E a, d, e : requests' = requests \cup
                 {[rid |-> m'.rid, epoch |-> epoch, addresses |-> a, beg |-> d, end |-> e,
                   answered |-> FALSE, todo |-> {}]}
              /\ n.rid < m'.rid
    BY UpdateTells
  <1>2. m'.rid \in Nat /\ n.rid \in Nat
    BY <1>1 DEF Manager
  <1>3. CASE requests' = requests
    BY <1>1, <1>2, <1>3 DEF NumbersGrow, OneAnswerDue, Request
  <1>4. CASE requests' # requests
    <2>1. PICK a, d, e : requests' = requests \cup
                 {[rid |-> m'.rid, epoch |-> epoch, addresses |-> a, beg |-> d, end |-> e,
                   answered |-> FALSE, todo |-> {}]}
              /\ n.rid < m'.rid
      BY <1>1, <1>4
    <2> DEFINE new == [rid |-> m'.rid, epoch |-> epoch, addresses |-> a, beg |-> d, end |-> e,
                       answered |-> FALSE, todo |-> {}]
    <2>2. Request(new) /\ new.rid = m'.rid /\ new.epoch = epoch
      BY <1>2 DEF Request, NumbersGrow
    <2>3. requests' = requests \cup {new}
      BY <2>1
    <2> HIDE DEF new
    <2>4. NumbersGrow'
      BY <1>2, <2>1, <2>2, <2>3 DEF NumbersGrow, Request
    <2>5. \A q \in requests : q.epoch = epoch => q.rid < new.rid
      BY <1>2, <2>1, <2>2 DEF NumbersGrow, Request
    <2>6. OneAnswerDue'
      BY <1>2, <2>2, <2>3, <2>5 DEF OneAnswerDue, NumbersGrow, Request
    <2> QED BY <2>4, <2>6
  <1> QED BY <1>3, <1>4

\* Whatever leaves the requests alone, or takes one away, keeps the numbers.
LEMMA FewerNumbers ==
    ASSUME Manager(m), Manager(m'), m.rid <= m'.rid, NumbersGrow, OneAnswerDue,
           requests' \subseteq requests, UNCHANGED epoch,
           crossed' \in BOOLEAN, crossed => crossed'
    PROVE  NumbersGrow' /\ OneAnswerDue'
  BY DEF Manager, NumbersGrow, OneAnswerDue, Request

\* So does one that takes the place of another with its number.
LEMMA SameNumber ==
    ASSUME Manager(m), Manager(m'), m.rid = m'.rid, NumbersGrow, OneAnswerDue,
           NEW q \in requests, NEW r, Request(r), r.rid = q.rid, r.epoch = q.epoch \/ crossed',
           r.epoch <= epoch, r.rid <= m.rid,
           requests' = (requests \ {q}) \cup {r}, UNCHANGED epoch,
           crossed' \in BOOLEAN, crossed => crossed'
    PROVE  NumbersGrow' /\ OneAnswerDue'
  <1>1. NumbersGrow'
    BY DEF Manager, NumbersGrow, Request
  <1>2. OneAnswerDue'
    BY DEF Manager, NumbersGrow, OneAnswerDue, Request
  <1> QED BY <1>1, <1>2

\* In particular the request itself, answered in part.
LEMMA Renewed ==
    ASSUME Manager(m), NumbersGrow, OneAnswerDue, NEW q \in requests,
           NEW r, Request(r), r.rid = q.rid, r.epoch = q.epoch,
           requests' = (requests \ {q}) \cup {r}, UNCHANGED <<m, epoch>>,
           crossed' \in BOOLEAN, crossed => crossed'
    PROVE  NumbersGrow' /\ OneAnswerDue'
  <1>1. NumbersGrow'
    BY DEF NumbersGrow, Request
  <1>2. OneAnswerDue'
    BY DEF NumbersGrow, OneAnswerDue, Request
  <1> QED BY <1>1, <1>2

\* A scan that goes on with more addresses is the same scan.
LEMMA ScanAdvanced ==
    ASSUME Manager(m), NEW f, NEW k,
           m' = [m EXCEPT !.scan.first = f, !.scan.known = k]
    PROVE  /\ Manager(m') /\ m'.rid = m.rid /\ m'.connected = m.connected
           /\ m'.scan.rid = m.scan.rid /\ m'.scan.full = m.scan.full
  <1> DEFINE s == [m.scan EXCEPT !.first = f, !.known = k]
  <1>1. m' = [m EXCEPT !.scan = s]
    BY DEF Manager
  <1>2. /\ s \in [rid : Nat, beg : {s.beg}, end : {s.end}, full : BOOLEAN,
                  first : {s.first}, known : {s.known}]
        /\ s.rid = m.scan.rid /\ s.full = m.scan.full
    BY DEF Manager
  <1> HIDE DEF s
  <1>3. /\ m \in [connected : BOOLEAN, init : {m.init}, network : {m.network},
                  synced : {m.synced}, rid : Nat, scan : {m.scan}]
        /\ s.rid <= m.rid
        /\ s.rid = 0 \/ ~m.connected => ~s.full
    BY <1>2 DEF Manager
  <1>4. LET r == [m EXCEPT !.scan = s]
        IN  Manager(r) /\ r.rid = m.rid /\ r.connected = m.connected /\ r.scan = s
    <2>1. s \in [rid : Nat, beg : {s.beg}, end : {s.end}, full : BOOLEAN,
                first : {s.first}, known : {s.known}]
      BY <1>2
    <2> QED BY <1>3, <2>1, ScanReplaced
  <1> QED BY <1>1, <1>2, <1>4

-----------------------------------------------------------------------------
\* The invariant holds when the wallet manager has made its first sync manager.
LEMMA InitIInv == Init => IInv
  <1> SUFFICES ASSUME Init PROVE IInv
    OBVIOUS
  <1>1. PICK h \in 0 .. Checkpoint : m = NewManager(h)
    BY DEF Init
  <1>2. Manager(m) /\ ~m.connected /\ Agrees(m, told)
    BY <1>1, NewManagerIdle DEF Init
  <1>3. NumbersGrow /\ OneAnswerDue
    BY DEF Init, NumbersGrow, OneAnswerDue
  <1> QED BY <1>2, <1>3 DEF IInv

\* What the owner calls keeps it.
LEMMA OwnsIInv == ASSUME IInv, Owns PROVE IInv'
  <1>0. /\ Manager(m) /\ (mode = "p2p" => ~m.connected) /\ Agrees(m, told)
        /\ NumbersGrow /\ OneAnswerDue /\ crossed \in BOOLEAN /\ m.rid \in Nat
    BY DEF IInv, NumbersGrow, Manager
  \* Every call that updates does so for a manager that has the number of m.
  <1>1. ASSUME NEW n, NEW o, Manager(n), Agrees(n, o), n.rid = m.rid, Update(n, o),
               mode = "api", UNCHANGED <<mode, epoch, crossed>>
        PROVE  IInv'
    BY <1>0, <1>1, UpdateTells, UpdateNumbers DEF IInv
  <1>2. CASE Connect
    <2> DEFINE n == [m EXCEPT !.connected = TRUE]
               o == Told(told, "CONNECTED", ~m.connected)
    <2>1. Manager(n) /\ n.rid = m.rid /\ n.connected = TRUE /\ n.scan = m.scan
      BY <1>0 DEF Manager
    <2>2. Agrees(n, o)
      BY <1>0, <2>1 DEF Agrees, Told, After, Manager
    <2> HIDE DEF n, o
    <2>3. Update(n, o) /\ mode = "api" /\ UNCHANGED <<mode, epoch, crossed>>
      BY <1>2 DEF Connect, n, o
    <2> QED BY <1>1, <2>1, <2>2, <2>3
  <1>3. CASE Disconnect
    <2>1. m' = Disconnected /\ told' = Dropped /\ UNCHANGED <<mode, requests, epoch, crossed>>
      BY <1>3 DEF Disconnect
    <2>2. Manager(m') /\ m'.rid = m.rid /\ ~m'.connected /\ Agrees(m', told')
      BY <1>0, <2>1, EndsTold
    <2>3. NumbersGrow' /\ OneAnswerDue'
      BY <1>0, <2>1, <2>2, FewerNumbers
    <2> QED BY <2>2, <2>3 DEF IInv
  <1>4. CASE ScanToDepth
    <2>1. mode = "api" /\ UNCHANGED <<mode, epoch, crossed>>
      BY <1>4 DEF ScanToDepth
    <2>2. CASE ~m.connected
      BY <1>0, <1>1, <1>4, <2>1, <2>2 DEF ScanToDepth
    <2>3. CASE m.connected
      <3>1. PICK d : Update(Rewound(Wiped(m), d), After(Dropped, "CONNECTED"))
        BY <1>4, <2>3 DEF ScanToDepth
      <3> DEFINE w == Wiped(m)
                 n == Rewound(w, d)
                 o == After(Dropped, "CONNECTED")
      <3>2. Manager(w) /\ w.rid = m.rid /\ w.connected = TRUE /\ ~w.scan.full
        BY <1>0, <2>3, EndsTold DEF Manager
      <3> HIDE DEF w
      <3>3. Manager(n) /\ n.rid = w.rid /\ n.connected = TRUE /\ n.scan = w.scan
        BY <3>2 DEF Manager, Rewound
      <3>4. Agrees(n, o)
        BY <1>0, <3>2, <3>3, EndsTold DEF Agrees, After
      <3>5. Update(n, o)
        BY <3>1 DEF w
      <3> HIDE DEF n, o
      <3> QED BY <1>1, <2>1, <3>2, <3>3, <3>4, <3>5
    <2> QED BY <2>2, <2>3
  <1>5. CASE TickTock
    BY <1>0, <1>1, <1>5 DEF TickTock
  <1>6. CASE Submit
    <2>1. /\ m' = [m EXCEPT !.rid = @ + 1] /\ m.connected /\ mode = "api"
          /\ UNCHANGED <<mode, told, requests, epoch, crossed>>
      BY <1>6 DEF Submit
    <2>2. /\ Manager(m') /\ m'.rid = m.rid + 1 /\ m'.connected = m.connected
          /\ m'.scan = m.scan
      <3>1. /\ m' \in [connected : BOOLEAN, init : {m'.init}, network : {m'.network},
                       synced : {m'.synced}, rid : Nat, scan : {m'.scan}]
            /\ m'.rid = m.rid + 1 /\ m'.connected = m.connected /\ m'.scan = m.scan
        <4> DEFINE c == [m EXCEPT !.rid = @ + 1]
        <4>1. /\ c \in [connected : BOOLEAN, init : {c.init}, network : {c.network},
                        synced : {c.synced}, rid : Nat, scan : {c.scan}]
              /\ c.rid = m.rid + 1 /\ c.connected = m.connected /\ c.scan = m.scan
          BY <1>0 DEF Manager
        <4>2. m' = c
          BY <2>1
        <4> HIDE DEF c
        <4> QED BY <4>1, <4>2
      <3> QED BY <1>0, <3>1 DEF Manager
    <2>3. Agrees(m', told')
      BY <1>0, <2>1, <2>2 DEF Agrees
    <2>4. NumbersGrow' /\ OneAnswerDue'
      BY <1>0, <2>1, <2>2, FewerNumbers
    <2> QED BY <2>1, <2>2, <2>3, <2>4 DEF IInv
  <1>7. CASE SetMode
    <2>1. CASE mode = "api" /\ m' = Disconnected /\ told' = Dropped
               /\ UNCHANGED <<requests, epoch, crossed>>
      <3>1. Manager(m') /\ m'.rid = m.rid /\ ~m'.connected /\ Agrees(m', told')
        BY <1>0, <2>1, EndsTold
      <3>2. NumbersGrow' /\ OneAnswerDue'
        BY <1>0, <2>1, <3>1, FewerNumbers
      <3> QED BY <3>1, <3>2 DEF IInv
    <2>2. CASE mode = "p2p" /\ mode' = "api" /\ (\E h : m' = NewManager(h))
               /\ epoch' = epoch + 1 /\ UNCHANGED <<told, requests, crossed>>
      <3>1. Manager(m') /\ ~m'.connected /\ Agrees(m', "disconnected")
        BY <2>2, NewManagerIdle
      <3>2. told' = "disconnected"
        BY <1>0, <2>2 DEF Agrees
      <3>3. NumbersGrow' /\ OneAnswerDue'
        <4>1. epoch \in Nat /\ epoch' \in Nat /\ crossed' \in BOOLEAN
          BY <1>0, <2>2 DEF NumbersGrow
        <4>2. \A q \in requests' : Request(q) /\ q.epoch <= epoch' /\ q.epoch # epoch'
          BY <1>0, <2>2 DEF NumbersGrow, Request
        <4> QED BY <4>1, <4>2 DEF NumbersGrow, OneAnswerDue
      <3> QED BY <2>2, <3>1, <3>2, <3>3 DEF IInv
    <2> QED BY <1>7, <2>1, <2>2 DEF SetMode
  <1> QED BY <1>2, <1>3, <1>4, <1>5, <1>6, <1>7 DEF Owns

\* What the client answers keeps it.
LEMMA AnswersIInv == ASSUME IInv, Answers PROVE IInv'
  <1>0. /\ Manager(m) /\ (mode = "p2p" => ~m.connected) /\ Agrees(m, told)
        /\ NumbersGrow /\ OneAnswerDue /\ crossed \in BOOLEAN /\ epoch \in Nat
    BY DEF IInv, NumbersGrow
  <1>1. PICK q \in requests :
            Answer(q) \/ AnnounceGetTransactionsItem(q) \/ AnnounceGetTransactionsDone(q)
    BY DEF Answers
  <1>2. Request(q) /\ q.epoch <= epoch /\ (q.epoch = epoch => q.rid <= m.rid)
    BY <1>0 DEF NumbersGrow
  <1>3. Crosses(q) \in BOOLEAN /\ (crossed => Crosses(q))
    BY <1>0 DEF Crosses, IsCurrent
  <1>4. CASE Answer(q)
    <2>1. PICK found : requests' = (requests \ {q}) \cup
                          {[q EXCEPT !.answered = TRUE, !.todo = found]}
      BY <1>4 DEF Answer
    <2>2. UNCHANGED <<mode, m, told, epoch, crossed>>
      BY <1>4 DEF Answer
    <2> DEFINE r == [q EXCEPT !.answered = TRUE, !.todo = found]
    <2>3. Request(r) /\ r.rid = q.rid /\ r.epoch = q.epoch
      BY <1>2 DEF Request
    <2> HIDE DEF r
    <2>4. requests' = (requests \ {q}) \cup {r}
      BY <2>1 DEF r
    <2>5. NumbersGrow' /\ OneAnswerDue'
      BY <1>0, <1>2, <2>2, <2>3, <2>4, Renewed
    <2> QED BY <1>0, <2>2, <2>5 DEF IInv
  <1>5. CASE AnnounceGetTransactionsItem(q)
    <2>1. PICK t \in q.todo : requests' = (requests \ {q}) \cup {[q EXCEPT !.todo = @ \ {t}]}
      BY <1>5 DEF AnnounceGetTransactionsItem
    <2>2. UNCHANGED <<mode, m, told, epoch>> /\ crossed' = Crosses(q)
      BY <1>5 DEF AnnounceGetTransactionsItem
    <2> DEFINE r == [q EXCEPT !.todo = @ \ {t}]
    <2>3. Request(r) /\ r.rid = q.rid /\ r.epoch = q.epoch
      BY <1>2 DEF Request
    <2> HIDE DEF r
    <2>4. requests' = (requests \ {q}) \cup {r}
      BY <2>1 DEF r
    <2>5. NumbersGrow' /\ OneAnswerDue'
      BY <1>0, <1>2, <1>3, <2>2, <2>3, <2>4, Renewed
    <2> QED BY <1>0, <2>2, <2>5 DEF IInv
  <1>6. CASE AnnounceGetTransactionsDone(q)
    <2>1. UNCHANGED <<mode, epoch>> /\ crossed' = Crosses(q)
      BY <1>6 DEF AnnounceGetTransactionsDone
    <2>2. CASE IsCurrent(q) /\ Requeries(q)
      <3>1. /\ m' = [m EXCEPT !.scan.first = FirstUnused(wallet),
                              !.scan.known = @ \cup Derived(wallet)]
            /\ requests' = (requests \ {q}) \cup {Query(m.scan, NewAddresses)}
            /\ told' = told
        BY <2>2 DEF Requeries
      <3>2. m'.scan.rid = m.scan.rid /\ m'.rid = m.rid /\ m'.connected = m.connected
            /\ m'.scan.full = m.scan.full /\ Manager(m')
        BY <1>0, <3>1, ScanAdvanced
      <3>3. Agrees(m', told')
        BY <1>0, <3>1, <3>2 DEF Agrees
      <3> DEFINE r == Query(m.scan, NewAddresses)
      <3>4. r \in [rid : {m.scan.rid}, epoch : {epoch}, addresses : {r.addresses},
                  beg : {r.beg}, end : {r.end}, answered : {r.answered}, todo : {r.todo}]
        BY DEF Query
      <3> HIDE DEF r
      <3>5. m.scan.rid \in Nat /\ m.scan.rid <= m.rid
        BY <1>0 DEF Manager
      <3>6. Request(r) /\ r.rid = m.scan.rid /\ r.epoch = epoch
        BY <1>0, <3>4, <3>5 DEF Request
      <3>7. q.rid = m.scan.rid /\ (q.epoch = epoch \/ Crosses(q))
        BY <2>2 DEF IsCurrent, Crosses
      <3>8. requests' = (requests \ {q}) \cup {r}
        BY <3>1 DEF r
      <3>9. NumbersGrow' /\ OneAnswerDue'
        BY <1>0, <1>3, <2>1, <3>2, <3>5, <3>6, <3>7, <3>8, SameNumber
      <3> QED BY <1>0, <2>1, <3>2, <3>3, <3>9 DEF IInv
    <2>3. CASE IsCurrent(q) /\ Completes(q)
      <3>1. /\ m' = Wiped([m EXCEPT !.synced = m.scan.end - 1]) /\ told' = ScanStopped
            /\ requests' = requests \ {q}
        BY <2>3 DEF Completes
      <3> DEFINE c == [m EXCEPT !.synced = m.scan.end - 1]
      <3>2. /\ c \in [connected : BOOLEAN, init : {c.init}, network : {c.network},
                      synced : {c.synced}, rid : Nat, scan : {c.scan}]
            /\ c.rid = m.rid /\ c.connected = m.connected
        BY <1>0 DEF Manager
      <3>3. m' = [c EXCEPT !.scan = NoScan]
        BY <3>1 DEF Wiped
      <3> HIDE DEF c
      <3>4. /\ Manager(m') /\ m'.rid = m.rid /\ m'.connected = m.connected
            /\ m'.scan.full = FALSE
        BY <3>2, <3>3, NoScanIdle, ScanReplaced
      <3>5. m.connected
        BY <2>3 DEF IsCurrent
      <3>6. Agrees(m', told')
        BY <1>0, <3>1, <3>4, <3>5 DEF Agrees, ScanStopped, Told, After, Manager
      <3>7. NumbersGrow' /\ OneAnswerDue'
        BY <1>0, <1>3, <2>1, <3>1, <3>4, FewerNumbers DEF Manager
      <3> QED BY <1>0, <2>1, <3>4, <3>6, <3>7 DEF IInv
    <2>4. CASE Fails(q)
      <3>1. m' = Disconnected /\ told' = Dropped /\ requests' = requests \ {q}
        BY <2>4 DEF Fails
      <3>2. Manager(m') /\ m'.rid = m.rid /\ ~m'.connected /\ Agrees(m', told')
        BY <1>0, <3>1, EndsTold
      <3>3. NumbersGrow' /\ OneAnswerDue'
        BY <1>0, <1>3, <2>1, <3>1, <3>2, FewerNumbers DEF Manager
      <3> QED BY <3>2, <3>3 DEF IInv
    <2>5. CASE Ignored(q)
      <3>1. UNCHANGED <<m, told>> /\ requests' = requests \ {q}
        BY <2>5 DEF Ignored
      <3>2. NumbersGrow' /\ OneAnswerDue'
        BY <1>0, <1>3, <2>1, <3>1, FewerNumbers DEF Manager
      <3> QED BY <1>0, <2>1, <3>1, <3>2 DEF IInv
    <2> QED BY <1>6, <2>2, <2>3, <2>4, <2>5 DEF AnnounceGetTransactionsDone
  <1> QED BY <1>1, <1>4, <1>5, <1>6

\* So does every step.
LEMMA NextIInv == ASSUME IInv, [Next]_vars PROVE IInv'
  <1>1. CASE UNCHANGED vars
    BY <1>1 DEF vars, IInv, Manager, Agrees, NumbersGrow, Request, OneAnswerDue
  <1>2. CASE AnnounceGetBlockNumber
    <2>1. /\ Manager(m) /\ Agrees(m, told) /\ NumbersGrow /\ OneAnswerDue
          /\ mode = "p2p" => ~m.connected
      BY DEF IInv
    <2>2. PICK h : m' = [m EXCEPT !.network = h]
      BY <1>2 DEF AnnounceGetBlockNumber
    <2>3. UNCHANGED <<mode, told, requests, epoch, crossed>>
      BY <1>2 DEF AnnounceGetBlockNumber
    <2>4. /\ Manager(m') /\ m'.rid = m.rid /\ m'.connected = m.connected
          /\ m'.scan = m.scan
      BY <2>1, <2>2 DEF Manager
    <2>5. NumbersGrow' /\ OneAnswerDue'
      BY <2>1, <2>3, <2>4, FewerNumbers DEF Manager, NumbersGrow
    <2> QED BY <2>1, <2>3, <2>4, <2>5 DEF IInv, Agrees
  <1>3. CASE AnnounceSubmitTransaction \/ Mine
    <2>1. UNCHANGED <<mode, m, told, requests, epoch, crossed>>
      BY <1>3 DEF AnnounceSubmitTransaction, Mine
    <2> QED BY <2>1 DEF IInv, Manager, Agrees, NumbersGrow, Request, OneAnswerDue
  <1> QED BY <1>1, <1>2, <1>3, OwnsIInv, AnswersIInv DEF Next

\* The invariant holds whatever the wallet, the bounds and the client's answers.
THEOREM Invariance == Spec => []IInv
  BY InitIInv, NextIInv, PTL DEF Spec

\* The state that the owner knows from the events is the manager's, always.
THEOREM OwnerKnows == Spec => []OwnerAgrees
  <1>1. IInv => OwnerAgrees
    BY DEF IInv, Agrees, OwnerAgrees
  <1> QED BY <1>1, Invariance, PTL

\* No request number of a sync manager is out with the client twice, as long as no
\* answer has gone to the wrong manager.
THEOREM AnswersOnce == Spec => []OneAnswerDue
  <1>1. IInv => OneAnswerDue
    BY DEF IInv
  <1> QED BY <1>1, Invariance, PTL

-----------------------------------------------------------------------------
(* Nothing is missed                                                        *)

\* Heights in order.
Heights ==
    /\ tip \in Nat /\ Checkpoint <= tip /\ tip <= MaxHeight
    /\ m.init \in 0 .. Checkpoint /\ m.network \in 0 .. tip /\ m.synced \in 0 .. tip

\* What was in a block before t, or with it and at a smaller address.
Before(t) ==
    {u \in Txs : mined[u] # 0 /\ mined[u] < mined[t]}
    \cup {u \in Txs : mined[u] = mined[t] /\ Address[u] < Address[t]}

\* Transactions are mined above the checkpoint and below the tip, and one only
\* uses an address that could be derived from those before it.
Ledger ==
    /\ wallet \subseteq Txs /\ sent \subseteq Txs
    /\ mined \in [Txs -> Nat]
    /\ \A t \in Txs : mined[t] # 0 =>
          /\ Checkpoint < mined[t] /\ mined[t] <= tip
          /\ Address[t] \in Derived(wallet \cup Before(t))

\* The scan in progress knows addresses of the wallet, those up to the gap at
\* least that there were when it last looked, and begins where it may.
Scan ==
    m.scan.rid # 0 =>
        /\ mode = "api" /\ m.connected
        /\ m.scan.beg \in Nat /\ m.scan.end \in 1 .. tip + 1
        /\ m.scan.first \in 0 .. FirstUnused(wallet)
        /\ 0 .. m.scan.first + Gap - 1 \subseteq m.scan.known
        /\ m.scan.known \subseteq Derived(wallet)
        /\ ~skipped => m.scan.beg <= Greatest(m.synced - Lag, Checkpoint) + 1

\* What the client is asked for.
Asked ==
    \A q \in requests : q.todo \subseteq Txs /\ q.beg \in Nat /\ q.end \in Nat /\ q.rid # 0

\* The transactions that the scan in progress must find.
InScan(t) ==
    /\ mined[t] # 0 /\ m.scan.beg <= mined[t] /\ mined[t] + Lag < m.scan.end
    /\ Address[t] \in m.scan.known

\* The request q will bring t.
Brings(q, t) ==
    /\ q.epoch = epoch /\ q.rid = m.scan.rid
    /\ \/ ~q.answered /\ Address[t] \in q.addresses /\ q.beg <= mined[t] /\ mined[t] < q.end
       \/ q.answered /\ t \in q.todo

Coverage ==
    ~crossed /\ m.scan.rid # 0 =>
        \A t \in Txs : InScan(t) => t \in wallet \/ \E q \in requests : Brings(q, t)

CInv ==
    /\ Heights
    /\ Ledger
    /\ skipped \in BOOLEAN
    /\ Scan
    /\ Asked
    /\ Coverage
    /\ NothingMissed

-----------------------------------------------------------------------------
\* A set of numbers has a least one.
LEMMA LeastOf ==
    ASSUME NEW T \in SUBSET Nat, T # {}
    PROVE  \E x \in T : \A y \in T : x <= y
  <1>1. PICK x \in T : \A y \in T : ~ (<<y, x>> \in OpToRel(<, Nat))
    BY WFMin, NatLessThanWellFounded
  <1>2. \A y \in T : ~(y < x)
    BY <1>1 DEF OpToRel
  <1> QED BY <1>2

\* Of finitely many transactions one has the greatest address: the least number of
\* transactions without one cannot be.
LEMMA GreatestAddress ==
    ASSUME NEW w \in SUBSET Txs, w # {}
    PROVE  \E t \in w : \A u \in w : Address[u] <= Address[t]
  <1> DEFINE Has(v) == \E t \in v : \A u \in v : Address[u] <= Address[t]
             T == {n \in Nat : \E v \in SUBSET w : Cardinality(v) = n /\ v # {} /\ ~Has(v)}
  <1>1. IsFiniteSet(w) /\ Address \in [Txs -> Nat]
    BY ConstantsAssumption, FS_Subset
  <1>2. \A v \in SUBSET w : IsFiniteSet(v) /\ Cardinality(v) \in Nat
    BY <1>1, FS_Subset, FS_CardinalityType
  <1>3. CASE T = {}
    <2>1. Cardinality(w) \notin T
      BY <1>3
    <2>2. Has(w)
      BY <1>2, <2>1
    <2> QED BY <2>2
  <1>4. CASE T # {}
    <2>1. PICK n \in T : \A k \in T : n <= k
      <3>1. T \in SUBSET Nat
        OBVIOUS
      <3> HIDE DEF T
      <3> QED BY <1>4, <3>1, LeastOf
    <2>2. PICK v \in SUBSET w : Cardinality(v) = n /\ v # {} /\ ~Has(v)
      OBVIOUS
    <2>3. PICK x \in v : TRUE
      BY <2>2
    <2>4. v \ {x} \in SUBSET w /\ Cardinality(v \ {x}) = n - 1 /\ n \in Nat
      BY <1>2, <2>2, <2>3, FS_RemoveElement
    <2>5. n - 1 \notin T /\ n - 1 \in Nat
      <3>1. ~(n <= n - 1) /\ n - 1 \in Nat
        BY <1>2, <2>4
      <3> QED BY <2>1, <3>1
    <2>6. v \ {x} = {} \/ Has(v \ {x})
      BY <2>4, <2>5
    <2>7. CASE v \ {x} = {}
      <3>1. \A u \in v : u = x
        BY <2>7
      <3> QED BY <1>1, <2>2, <2>3, <3>1
    <2>8. CASE Has(v \ {x})
      <3>1. PICK t \in v \ {x} : \A u \in v \ {x} : Address[u] <= Address[t]
        BY <2>8
      <3>2. Address[t] \in Nat /\ Address[x] \in Nat /\ \A u \in v : Address[u] \in Nat
        BY <1>1, <2>2, <2>3
      <3>3. CASE Address[x] <= Address[t]
        <4>1. \A u \in v : Address[u] <= Address[t]
          BY <3>1, <3>3
        <4> QED BY <2>2, <4>1
      <3>4. CASE Address[t] <= Address[x]
        <4>1. \A u \in v : Address[u] <= Address[x]
          BY <3>1, <3>2, <3>4
        <4> QED BY <2>2, <2>3, <4>1
      <3> QED BY <3>2, <3>3, <3>4
    <2> QED BY <2>6, <2>7, <2>8
  <1> QED BY <1>3, <1>4

\* The first unused address comes after those that are used, and no later than needed.
LEMMA FirstUnusedAfter ==
    ASSUME NEW w \in SUBSET Txs
    PROVE  /\ FirstUnused(w) \in Nat
           /\ \A t \in w : Address[t] < FirstUnused(w)
           /\ w # {} => \E t \in w : FirstUnused(w) = Address[t] + 1
  <1>1. Address \in [Txs -> Nat]
    BY ConstantsAssumption
  <1>2. CASE w = {}
    BY <1>2 DEF FirstUnused
  <1>3. CASE w # {}
    <2> DEFINE A == {Address[t] : t \in w}
    <2>1. PICK t \in w : \A u \in w : Address[u] <= Address[t]
      BY <1>3, GreatestAddress
    <2>2. Address[t] \in A /\ \A a \in A : Address[t] >= a
      BY <1>1, <2>1
    <2>3. Max(A) \in A /\ \A a \in A : Max(A) >= a
      <3> HIDE DEF A
      <3> QED BY <2>2 DEF Max
    <2>4. FirstUnused(w) = Max(A) + 1
      BY <1>3 DEF FirstUnused
    <2>5. PICK u \in w : Max(A) = Address[u]
      BY <2>3
    <2>6. Address[u] \in Nat /\ FirstUnused(w) = Address[u] + 1
      BY <1>1, <2>4, <2>5
    <2>7. \A v \in w : Address[v] \in Nat /\ Address[v] <= Address[u]
      BY <1>1, <2>3, <2>5
    <2> QED BY <2>6, <2>7
  <1> QED BY <1>2, <1>3

\* A wallet with more transactions has derived more addresses.
LEMMA DerivedGrows ==
    ASSUME NEW w \in SUBSET Txs, NEW v \in SUBSET w
    PROVE  FirstUnused(v) <= FirstUnused(w) /\ Derived(v) \subseteq Derived(w)
  <1>1. Address \in [Txs -> Nat] /\ Gap \in Nat
    BY ConstantsAssumption
  <1>2. FirstUnused(v) \in Nat /\ FirstUnused(w) \in Nat
    BY FirstUnusedAfter
  <1>3. FirstUnused(v) <= FirstUnused(w)
    <2>1. CASE v = {}
      BY <1>2, <2>1 DEF FirstUnused
    <2>2. CASE v # {}
      <3>1. PICK t \in v : FirstUnused(v) = Address[t] + 1
        BY <2>2, FirstUnusedAfter
      <3>2. Address[t] < FirstUnused(w) /\ Address[t] \in Nat
        BY <1>1, <3>1, FirstUnusedAfter
      <3> QED BY <1>2, <3>1, <3>2
    <2> QED BY <2>1, <2>2
  <1> QED BY <1>1, <1>2, <1>3 DEF Derived

-----------------------------------------------------------------------------
\* The numbers that the constants are.
LEMMA Numbers ==
    /\ Address \in [Txs -> Nat] /\ Gap \in Nat /\ Gap > 0 /\ Offset \in Nat /\ Lag \in Nat
    /\ Checkpoint \in Nat /\ MaxHeight \in Nat /\ Checkpoint <= MaxHeight
  BY ConstantsAssumption

\* The ledger keeps its shape while the wallet grows.
LEMMA LedgerGrows ==
    ASSUME Ledger, UNCHANGED chain, wallet \subseteq wallet', wallet' \subseteq Txs,
           sent' \subseteq Txs
    PROVE  Ledger'
  <1>1. \A t \in Txs : Before(t)' = Before(t) /\ Before(t) \subseteq Txs
    BY DEF chain, Before
  <1>2. ASSUME NEW t \in Txs
        PROVE  Derived(wallet \cup Before(t)) \subseteq Derived(wallet' \cup Before(t)')
    BY <1>1, <1>2, DerivedGrows
  <1>3. \A t \in Txs : mined'[t] # 0 =>
            /\ Checkpoint < mined'[t] /\ mined'[t] <= tip'
            /\ Address[t] \in Derived(wallet' \cup Before(t)')
    BY <1>2 DEF Ledger, chain
  <1> QED BY <1>3 DEF Ledger, chain

\* A manager without a scan has only its height to keep.
LEMMA WithoutScan ==
    ASSUME Heights', Ledger', skipped' \in BOOLEAN, Asked', NothingMissed', m'.scan.rid = 0
    PROVE  CInv'
  BY DEF CInv, Scan, Coverage

\* A step that leaves the scan alone, but may answer requests and add to the wallet.
LEMMA ScanStays ==
    ASSUME CInv, Heights', Asked', UNCHANGED <<mode, chain, skipped, epoch>>, crossed => crossed',
           m'.scan = m.scan, m'.synced = m.synced, m'.connected = m.connected,
           wallet \subseteq wallet', wallet' \subseteq Txs, sent' \subseteq Txs,
           ASSUME ~crossed', m.scan.rid # 0, NEW t \in Txs, InScan(t), t \notin wallet',
                  NEW q \in requests, Brings(q, t)
           PROVE  \E r \in requests' : Brings(r, t)'
    PROVE  CInv'
  <1>1. Ledger'
    BY LedgerGrows DEF CInv
  <1>2. FirstUnused(wallet) <= FirstUnused(wallet') /\ Derived(wallet) \subseteq Derived(wallet')
    BY DerivedGrows
  <1>3. FirstUnused(wallet) \in Nat /\ FirstUnused(wallet') \in Nat
    BY <1>2, FirstUnusedAfter
  <1>4. Scan'
    <2>1. 0 .. FirstUnused(wallet) \subseteq 0 .. FirstUnused(wallet')
      BY <1>2, <1>3
    <2> QED BY <1>2, <2>1 DEF CInv, Scan, chain
  <1>5. Coverage'
    <2> SUFFICES ASSUME ~crossed', m.scan.rid # 0, NEW t \in Txs, InScan(t), t \notin wallet'
                 PROVE  \E q \in requests' : Brings(q, t)'
      BY DEF Coverage, InScan, chain
    <2>1. PICK q \in requests : Brings(q, t)
      BY DEF CInv, Coverage
    <2> QED BY <2>1
  <1>6. NothingMissed'
    BY DEF CInv, NothingMissed, chain
  <1> QED BY <1>1, <1>4, <1>5, <1>6 DEF CInv

\* An update starts a scan that asks for all it must find, or leaves the scan alone.
LEMMA UpdateMissesNothing ==
    ASSUME CInv, NEW n, Manager(n), NEW o, Update(n, o),
           n.init = m.init, n.network = m.network, n.synced \in 0 .. tip,
           n.synced <= m.synced \/ n.synced <= Checkpoint,
           \/ n.scan = m.scan /\ n.synced = m.synced /\ (m.connected => n.connected)
           \/ n.scan.rid = 0,
           mode = "api", UNCHANGED <<mode, wallet, sent, chain, epoch, crossed>>
    PROVE  CInv'
  <1> DEFINE b == BlockNumberAsked(n)
             scan == NewScan(b)
  <1>1. /\ b \in [connected : BOOLEAN, init : {n.init}, network : {n.network},
                  synced : {n.synced}, rid : Nat, scan : {n.scan}]
        /\ b.connected = n.connected
    BY DEF BlockNumberAsked, Manager
  <1>2. Ledger' /\ wallet' = wallet /\ wallet \subseteq Txs
    BY LedgerGrows DEF CInv, Ledger
  <1>3. UNCHANGED <<tip, mined, epoch, crossed>> /\ tip \in Nat /\ Checkpoint <= tip /\ tip <= MaxHeight
    BY DEF chain, CInv, Heights
  <1>4. ASSUME m'.synced = n.synced, skipped => skipped' PROVE NothingMissed'
    <2> SUFFICES ASSUME ~crossed, ~skipped, NEW t \in Txs, mined[t] # 0, mined[t] + Lag <= n.synced
                 PROVE  t \in wallet
      BY <1>2, <1>3, <1>4 DEF NothingMissed
    <2>1. mined[t] \in Nat /\ Checkpoint < mined[t]
      BY DEF CInv, Ledger
    <2>2. n.synced \in Nat /\ m.synced \in Nat
      BY <1>3 DEF CInv, Heights
    <2>3. mined[t] + Lag <= m.synced
      BY <2>1, <2>2, Numbers
    <2> QED BY <2>3 DEF CInv, NothingMissed
  <1>5. CASE ~ScansNow(b)
    <2>1. m' = b /\ UNCHANGED <<requests, skipped>>
      BY <1>5 DEF Update, b
    <2>2. /\ m'.scan = n.scan /\ m'.synced = n.synced /\ m'.init = n.init
          /\ m'.network = n.network /\ m'.connected = n.connected
      BY <1>1, <2>1
    <2>3. Heights' /\ Asked' /\ skipped' \in BOOLEAN
      BY <1>3, <2>1, <2>2 DEF CInv, Heights, Asked
    <2>4. NothingMissed'
      BY <1>4, <2>1, <2>2
    <2>5. CASE n.scan.rid = 0
      BY <1>2, <2>2, <2>3, <2>4, <2>5, WithoutScan
    <2>6. CASE n.scan = m.scan /\ n.synced = m.synced /\ (m.connected => n.connected)
      <3>1. Scan'
        BY <1>2, <1>3, <2>1, <2>2, <2>6 DEF CInv, Scan
      <3>2. Coverage'
        BY <1>2, <1>3, <2>1, <2>2, <2>6 DEF CInv, Coverage, InScan, Brings
      <3> QED BY <1>2, <2>3, <2>4, <3>1, <3>2 DEF CInv
    <2> QED BY <2>5, <2>6
  <1>6. CASE ScansNow(b)
    <2>1. /\ m' = [b EXCEPT !.rid = @ + 1, !.scan = scan]
          /\ requests' = requests \cup {Query(scan, scan.known)}
          /\ skipped' = (skipped \/ Skips(b))
      BY <1>6 DEF Update, b, scan
    <2>2. /\ scan.beg = ScanBegin(b) /\ scan.end = ScanEnd(b) /\ scan.first = FirstUnused(wallet)
          /\ scan.known = Derived(wallet) /\ scan.rid = b.rid + 1
      BY DEF scan, NewScan
    <2>3. b.synced \in 0 .. tip /\ b.network \in 0 .. tip /\ b.rid \in Nat /\ b.connected
      BY <1>1, <1>6 DEF CInv, Heights, ScansNow
    <2>4. PICK q : q = Query(scan, scan.known)
      OBVIOUS
    <2>5. /\ q.rid = scan.rid /\ q.epoch = epoch /\ q.addresses = scan.known /\ q.beg = scan.beg
          /\ ~q.answered /\ q.todo = {} /\ (q.end = scan.end \/ q.end = Unbounded)
          /\ requests' = requests \cup {q}
      BY <2>1, <2>4 DEF Query
    <2> HIDE DEF scan, b
    <2>6. /\ m'.scan = scan /\ m'.synced = b.synced /\ m'.connected = b.connected
          /\ m'.init = n.init /\ m'.network = n.network /\ b.synced = n.synced
      BY <1>1, <2>1
    <2>7. scan.end \in 1 .. tip + 1 /\ scan.beg \in Nat
      BY <1>3, <2>2, <2>3, Numbers DEF ScanEnd, ScanBegin, Greatest, Least
    <2>8. Heights' /\ skipped' \in BOOLEAN
      <3>1. Skips(b) \in BOOLEAN
        BY DEF Skips
      <3> QED BY <1>3, <2>1, <2>6, <3>1 DEF CInv, Heights
    <2>9. Asked'
      <3>1. q.beg \in Nat /\ q.end \in Nat /\ q.rid # 0 /\ q.todo \subseteq Txs
        BY <1>3, <2>2, <2>3, <2>5, <2>7, Numbers DEF Unbounded
      <3> QED BY <2>5, <3>1 DEF CInv, Asked
    <2>10. NothingMissed'
      BY <1>4, <2>1, <2>6
    <2>11. Scan'
      <3>1. FirstUnused(wallet) \in Nat /\ Derived(wallet) = 0 .. FirstUnused(wallet) + Gap - 1
        BY <1>2, FirstUnusedAfter DEF Derived
      <3>2. ~skipped' => scan.beg <= Greatest(m'.synced - Lag, Checkpoint) + 1
        <4>1. m'.synced \in Nat
          BY <1>3, <2>3, <2>6
        <4>2. Greatest(m'.synced - Lag, Checkpoint) \in Int
          BY <4>1, Numbers DEF Greatest
        <4>3. ~skipped' => ~(ScanBegin(b) > Greatest(m'.synced - Lag, Checkpoint) + 1)
          BY <2>1, <2>6 DEF Skips
        <4> QED BY <2>2, <2>7, <4>2, <4>3
      <3>3. scan.first \in 0 .. FirstUnused(wallet)
        BY <2>2, <3>1
      <3> QED BY <1>2, <1>3, <2>2, <2>3, <2>6, <2>7, <3>1, <3>2, <3>3 DEF Scan
    <2>12. Coverage'
      <3>1. ASSUME NEW t \in Txs, InScan(t)' PROVE Brings(q, t)'
        <4>1. /\ mined[t] # 0 /\ scan.beg <= mined[t] /\ mined[t] + Lag < scan.end
              /\ Address[t] \in scan.known /\ mined[t] \in Nat /\ mined[t] <= tip
          BY <1>3, <2>6, <3>1 DEF InScan, CInv, Ledger
        <4>2. mined[t] < q.end
          BY <1>3, <2>5, <2>7, <4>1, Numbers DEF Unbounded
        <4> QED BY <1>3, <2>5, <2>6, <4>1, <4>2 DEF Brings
      <3>2. q \in requests'
        BY <2>5
      <3> QED BY <3>1, <3>2 DEF Coverage
    <2> QED BY <1>2, <2>8, <2>9, <2>10, <2>11, <2>12 DEF CInv
  <1> QED BY <1>5, <1>6

\* Nothing is missed where no scan has been made.
LEMMA InitCInv == Init => CInv
  <1> SUFFICES ASSUME Init PROVE CInv
    OBVIOUS
  <1>1. PICK h \in 0 .. Checkpoint : m = NewManager(h)
    BY DEF Init
  <1>2. /\ m.scan.rid = 0 /\ m.init \in 0 .. Checkpoint /\ m.network \in 0 .. Checkpoint
        /\ m.synced \in 0 .. Checkpoint
    BY <1>1, Numbers DEF NewManager, NoScan, Least, Greatest
  <1>3. /\ tip = Checkpoint /\ mined = [t \in Txs |-> 0] /\ wallet = {} /\ sent = {}
        /\ requests = {} /\ skipped = FALSE
    BY DEF Init
  <1>4. Heights
    BY <1>2, <1>3, Numbers DEF Heights
  <1>5. Ledger /\ NothingMissed
    BY <1>3 DEF Ledger, NothingMissed
  <1>6. Scan /\ Coverage /\ Asked
    BY <1>2, <1>3 DEF Scan, Coverage, Asked
  <1> QED BY <1>3, <1>4, <1>5, <1>6 DEF CInv

\* A manager that stops scanning stays at its heights.
LEMMA StopsScanning ==
    ASSUME CInv, Manager(m), NEW c, c \in BOOLEAN,
           m' = Wiped([m EXCEPT !.connected = c]),
           UNCHANGED <<wallet, sent, chain, skipped>>, crossed => crossed',
           requests' \subseteq requests
    PROVE  CInv'
  <1>1. /\ m'.scan.rid = 0 /\ m'.init = m.init /\ m'.network = m.network
        /\ m'.synced = m.synced
    BY DEF Manager, Wiped, NoScan
  <1>2. Heights' /\ Asked' /\ NothingMissed' /\ skipped' \in BOOLEAN
    BY <1>1 DEF CInv, Heights, Asked, NothingMissed, chain
  <1>3. Ledger'
    BY LedgerGrows DEF CInv, Ledger
  <1> QED BY <1>1, <1>2, <1>3, WithoutScan

\* What the owner calls misses nothing.
LEMMA OwnsCInv == ASSUME IInv, CInv, Owns PROVE CInv'
  <1>0. Manager(m) /\ wallet \subseteq Txs /\ sent \subseteq Txs
    BY DEF IInv, CInv, Ledger
  <1>00. /\ m.init \in 0 .. Checkpoint /\ m.network \in 0 .. tip /\ m.synced \in 0 .. tip
         /\ tip \in Nat /\ Checkpoint <= tip
    BY DEF CInv, Heights
  <1>1. ASSUME NEW n, NEW o, Manager(n), Update(n, o), n.init = m.init, n.network = m.network,
               n.synced = m.synced, n.scan = m.scan, m.connected => n.connected,
               mode = "api", UNCHANGED <<mode, wallet, sent, chain, epoch, crossed>>
        PROVE  CInv'
    BY <1>00, <1>1, UpdateMissesNothing
  <1>2. CASE Connect
    <2> DEFINE n == [m EXCEPT !.connected = TRUE]
    <2>1. /\ Manager(n) /\ n.init = m.init /\ n.network = m.network /\ n.synced = m.synced
          /\ n.scan = m.scan /\ n.connected
      BY <1>0 DEF Manager
    <2> HIDE DEF n
    <2>2. PICK o : Update(n, o)
      BY <1>2 DEF Connect, n
    <2> QED BY <1>1, <1>2, <2>1, <2>2 DEF Connect
  <1>3. CASE Disconnect
    <2>1. m' = Wiped([m EXCEPT !.connected = FALSE])
      BY <1>3 DEF Disconnect, Disconnected
    <2> QED BY <1>0, <1>3, <2>1, StopsScanning DEF Disconnect
  <1>4. CASE ScanToDepth
    <2>1. mode = "api" /\ UNCHANGED <<mode, wallet, sent, chain, epoch, crossed>>
      BY <1>4 DEF ScanToDepth
    <2>2. CASE ~m.connected
      BY <1>0, <1>1, <1>4, <2>1, <2>2 DEF ScanToDepth
    <2>3. CASE m.connected
      <3>1. PICK d \in Depths : Update(Rewound(Wiped(m), d), After(Dropped, "CONNECTED"))
        BY <1>4, <2>3 DEF ScanToDepth
      <3>2. d \in Nat
        BY <1>0, Numbers DEF Depths, CInv, Ledger
      <3> DEFINE w == Wiped(m)
                 n == Rewound(w, d)
      <3>3. /\ Manager(w) /\ w.init = m.init /\ w.network = m.network /\ w.synced = m.synced
            /\ w.scan.rid = 0
        <4>1. Manager(w)
          BY <1>0, EndsTold DEF IInv
        <4>2. /\ w.init = m.init /\ w.network = m.network /\ w.synced = m.synced
              /\ w.scan.rid = 0
          BY <1>0 DEF Manager, Wiped, NoScan
        <4> QED BY <4>1, <4>2
      <3> HIDE DEF w
      <3>4. /\ Manager(n) /\ n.init = w.init /\ n.network = w.network /\ n.scan = w.scan
            /\ n.synced = Greatest(w.init, Least(d, w.synced))
        BY <3>3 DEF Manager, Rewound
      <3>5. n.synced \in 0 .. tip /\ (n.synced <= m.synced \/ n.synced <= Checkpoint)
        BY <1>00, <3>2, <3>3, <3>4, Numbers DEF Greatest, Least
      <3>6. PICK o : Update(n, o)
        BY <3>1 DEF w
      <3> HIDE DEF n
      <3> QED BY <2>1, <3>3, <3>4, <3>5, <3>6, UpdateMissesNothing
    <2> QED BY <2>2, <2>3
  <1>5. CASE TickTock
    BY <1>0, <1>1, <1>5 DEF TickTock
  <1>6. CASE Submit
    <2>1. /\ m' = [m EXCEPT !.rid = @ + 1]
          /\ UNCHANGED <<mode, told, wallet, requests, chain, epoch, crossed, skipped>>
          /\ sent' \subseteq Txs
      BY <1>0, <1>6 DEF Submit
    <2>2. /\ m'.scan = m.scan /\ m'.synced = m.synced /\ m'.connected = m.connected
          /\ m'.init = m.init /\ m'.network = m.network
      BY <1>0, <2>1 DEF Manager
    <2>3. Heights' /\ Asked'
      BY <2>1, <2>2 DEF CInv, Heights, Asked, chain
    <2>4. ASSUME NEW t, NEW q, Brings(q, t) PROVE Brings(q, t)'
      BY <2>1, <2>2, <2>4 DEF Brings, chain
    <2> QED BY <1>0, <2>1, <2>2, <2>3, <2>4, ScanStays
  <1>7. CASE SetMode
    <2>1. CASE m' = Disconnected /\ UNCHANGED <<wallet, requests, sent, chain, epoch, crossed, skipped>>
      <3>1. m' = Wiped([m EXCEPT !.connected = FALSE])
        BY <2>1 DEF Disconnected
      <3> QED BY <1>0, <2>1, <3>1, StopsScanning
    <2>2. CASE /\ \E h \in m.network .. tip : m' = NewManager(h)
               /\ skipped' = FALSE /\ UNCHANGED <<wallet, requests, sent, chain, crossed>>
      <3>1. PICK h \in m.network .. tip : m' = NewManager(h)
        BY <2>2
      <3>2. /\ m'.scan.rid = 0 /\ m'.init \in 0 .. Checkpoint /\ m'.network \in 0 .. tip
            /\ m'.synced \in 0 .. Checkpoint
        BY <1>00, <3>1, Numbers DEF NewManager, NoScan, Least, Greatest
      <3>3. Heights' /\ Asked' /\ skipped' \in BOOLEAN
        <4>1. /\ tip' = tip /\ tip <= MaxHeight /\ m'.synced \in 0 .. tip
              /\ requests' = requests
          BY <1>00, <2>2, <3>2, Numbers DEF CInv, Heights, chain
        <4> QED BY <1>00, <2>2, <3>2, <4>1 DEF CInv, Heights, Asked
      <3>4. Ledger'
        BY <1>0, <2>2, LedgerGrows DEF CInv
      <3>5. NothingMissed'
        <4>1. ASSUME NEW t \in Txs, mined'[t] # 0 PROVE ~(mined'[t] + Lag <= m'.synced)
          <5>1. mined'[t] \in Nat /\ Checkpoint < mined'[t]
            BY <4>1, <3>4 DEF Ledger
          <5> QED BY <3>2, <5>1, Numbers
        <4> QED BY <4>1 DEF NothingMissed
      <3> QED BY <3>2, <3>3, <3>4, <3>5, WithoutScan
    <2> QED BY <1>7, <2>1, <2>2 DEF SetMode
  <1> QED BY <1>2, <1>3, <1>4, <1>5, <1>6, <1>7 DEF Owns

\* A request that the service answers brings what it was to bring: of the blocks of
\* the scan that are Lag below its end the service has looked up all.
LEMMA AnswerCInv ==
    ASSUME IInv, CInv, NEW q \in requests, Answer(q)
    PROVE  CInv'
  <1>1. PICK h \in Greatest(0, tip - Lag) .. tip :
            requests' = (requests \ {q}) \cup
                {[q EXCEPT !.answered = TRUE,
                           !.todo = {t \in Txs : /\ Address[t] \in q.addresses
                                                 /\ mined[t] \in Greatest(1, q.beg) .. Least(h, q.end - 1)}]}
    BY DEF Answer
  <1>2. ~q.answered /\ UNCHANGED <<mode, m, told, wallet, sent, chain, epoch, crossed, skipped>>
    BY DEF Answer
  <1> DEFINE found == {t \in Txs : /\ Address[t] \in q.addresses
                                   /\ mined[t] \in Greatest(1, q.beg) .. Least(h, q.end - 1)}
  <1>3. PICK r : r = [q EXCEPT !.answered = TRUE, !.todo = found]
    OBVIOUS
  <1>4. Request(q)
    BY DEF IInv, NumbersGrow
  <1>5. /\ r.rid = q.rid /\ r.epoch = q.epoch /\ r.answered /\ r.todo = found
        /\ r.beg = q.beg /\ r.end = q.end /\ requests' = (requests \ {q}) \cup {r}
    BY <1>1, <1>3, <1>4 DEF Request
  <1>6. wallet \subseteq Txs /\ sent \subseteq Txs /\ Heights' /\ Asked'
    BY <1>2, <1>4, <1>5 DEF CInv, Ledger, Heights, Asked, chain, Request
  <1>7. ASSUME m.scan.rid # 0, NEW t \in Txs, InScan(t), NEW p \in requests, Brings(p, t)
        PROVE  \E x \in requests' : Brings(x, t)'
    <2>1. CASE p # q
      <3>1. p \in requests' /\ Brings(p, t)'
        BY <1>2, <1>5, <1>7, <2>1 DEF Brings, chain
      <3> QED BY <3>1
    <2>2. CASE p = q
      <3>1. /\ Address[t] \in q.addresses /\ q.beg <= mined[t] /\ mined[t] < q.end
            /\ q.beg \in Nat /\ q.end \in Nat /\ r.epoch = epoch /\ r.rid = m.scan.rid
        BY <1>2, <1>5, <1>7, <2>2 DEF Brings, CInv, Asked
      <3>2. /\ tip \in Nat /\ mined[t] \in Nat /\ mined[t] # 0 /\ m.scan.end \in 1 .. tip + 1
            /\ mined[t] + Lag < m.scan.end
        BY <1>7 DEF CInv, Heights, Ledger, Scan, InScan
      <3>3. mined[t] <= h /\ h \in Int
        <4>1. h >= tip - Lag /\ h \in Int
          BY <3>2, Numbers DEF Greatest
        <4> QED BY <3>2, <4>1, Numbers
      <3>4. mined[t] \in Greatest(1, q.beg) .. Least(h, q.end - 1)
        BY <1>7, <2>2, <3>1, <3>2, <3>3 DEF Greatest, Least
      <3>6. r \in requests' /\ Brings(r, t)'
        BY <1>2, <1>5, <3>1, <3>4 DEF Brings
      <3> QED BY <3>6
    <2> QED BY <2>1, <2>2
  <1> QED BY <1>2, <1>6, <1>7, ScanStays

\* A transaction that is announced is registered if the scan must find it.
LEMMA ItemCInv ==
    ASSUME IInv, CInv, NEW q \in requests, AnnounceGetTransactionsItem(q)
    PROVE  CInv'
  <1>1. PICK i \in q.todo :
            /\ wallet' = IF IsCurrent(q) THEN Registered(wallet, i) ELSE wallet
            /\ requests' = (requests \ {q}) \cup {[q EXCEPT !.todo = @ \ {i}]}
    BY DEF AnnounceGetTransactionsItem
  <1>2. UNCHANGED <<mode, m, told, sent, chain, epoch, skipped>> /\ crossed' = Crosses(q)
    BY DEF AnnounceGetTransactionsItem
  <1>3. PICK r : r = [q EXCEPT !.todo = @ \ {i}]
    OBVIOUS
  <1>4. Request(q)
    BY DEF IInv, NumbersGrow
  <1>5. /\ r.rid = q.rid /\ r.epoch = q.epoch /\ r.answered = q.answered /\ r.todo = q.todo \ {i}
        /\ r.addresses = q.addresses /\ r.beg = q.beg /\ r.end = q.end
        /\ requests' = (requests \ {q}) \cup {r}
    BY <1>1, <1>3, <1>4 DEF Request
  <1>6. /\ wallet \subseteq wallet' /\ wallet' \subseteq Txs /\ sent' \subseteq Txs
        /\ Heights' /\ Asked' /\ (crossed => crossed')
    BY <1>1, <1>2, <1>5 DEF CInv, Ledger, Heights, Asked, chain, Registered, Crosses
  <1>7. ASSUME m.scan.rid # 0, NEW t \in Txs, InScan(t), t \notin wallet',
               NEW p \in requests, Brings(p, t)
        PROVE  \E x \in requests' : Brings(x, t)'
    <2>1. CASE p # q
      <3>1. p \in requests' /\ Brings(p, t)'
        BY <1>2, <1>5, <1>7, <2>1 DEF Brings, chain
      <3> QED BY <3>1
    <2>2. CASE p = q /\ t # i
      <3>1. r \in requests' /\ Brings(r, t)'
        BY <1>2, <1>5, <1>7, <2>2 DEF Brings, chain
      <3> QED BY <3>1
    <2>3. CASE p = q /\ t = i /\ q.answered
      <3>1. IsCurrent(q)
        BY <1>7, <2>3 DEF Brings, IsCurrent, IInv, CInv, Scan
      <3>2. Address[t] \in Derived(wallet)
        BY <1>7 DEF InScan, CInv, Scan
      <3> QED BY <1>1, <1>7, <2>3, <3>1, <3>2 DEF Registered
    <2>4. CASE p = q /\ t = i /\ ~q.answered
      <3>1. r \in requests' /\ Brings(r, t)'
        BY <1>2, <1>5, <1>7, <2>4 DEF Brings, chain
      <3> QED BY <3>1
    <2> QED BY <2>1, <2>2, <2>3, <2>4
  <1> QED BY <1>2, <1>6, <1>7, ScanStays

\* Where the scan has all it must find and knows all that is derived, no transaction
\* up to its end, less the lag, is missing: the first of them, by block and then by
\* address, would use an address that was derived.
LEMMA NoneLeft ==
    ASSUME CInv, ~skipped, m.scan.rid # 0, Derived(wallet) \subseteq m.scan.known,
           NothingMissed, ~crossed,
           \A t \in Txs : InScan(t) => t \in wallet
    PROVE  \A t \in Txs : mined[t] # 0 /\ mined[t] + Lag < m.scan.end => t \in wallet
  <1> DEFINE Left == {t \in Txs : mined[t] # 0 /\ mined[t] + Lag < m.scan.end /\ t \notin wallet}
             Blocks == {mined[t] : t \in Left}
  <1>1. SUFFICES ASSUME Left # {} PROVE FALSE
    OBVIOUS
  <1>2. /\ mined \in [Txs -> Nat] /\ Address \in [Txs -> Nat] /\ wallet \subseteq Txs
        /\ m.scan.end \in Nat /\ m.scan.beg \in Nat /\ m.synced \in Nat /\ Lag \in Nat
        /\ Checkpoint \in Nat
    BY Numbers DEF CInv, Ledger, Scan, Heights
  <1>3. PICK b \in Blocks : \A c \in Blocks : b <= c
    <2>1. Blocks \in SUBSET Nat /\ Blocks # {}
      BY <1>1, <1>2
    <2> HIDE DEF Blocks
    <2> QED BY <2>1, LeastOf
  <1> DEFINE Addresses == {Address[t] : t \in {u \in Left : mined[u] = b}}
  <1>4. PICK a \in Addresses : \A c \in Addresses : a <= c
    <2>1. Addresses \in SUBSET Nat /\ Addresses # {}
      BY <1>2, <1>3
    <2> HIDE DEF Addresses
    <2> QED BY <2>1, LeastOf
  <1>5. PICK t \in Left : mined[t] = b /\ Address[t] = a
    BY <1>4
  <1>6. \A u \in Left : mined[t] <= mined[u]
    BY <1>3, <1>5
  <1>7. \A u \in Left : mined[u] = mined[t] => Address[t] <= Address[u]
    BY <1>4, <1>5
  <1> HIDE DEF Blocks, Addresses
  <1>8. /\ t \in Txs /\ mined[t] # 0 /\ mined[t] + Lag < m.scan.end /\ t \notin wallet
        /\ mined[t] \in Nat /\ Address[t] \in Nat
    BY <1>2, <1>5
  <1>9. Before(t) \subseteq wallet
    <2> SUFFICES ASSUME NEW u \in Before(t) PROVE u \in wallet
      OBVIOUS
    <2>1. /\ u \in Txs /\ mined[u] # 0 /\ mined[u] \in Nat /\ Address[u] \in Nat
          /\ mined[u] < mined[t] \/ (mined[u] = mined[t] /\ Address[u] < Address[t])
      BY <1>2, <1>8 DEF Before
    <2>2. mined[u] + Lag < m.scan.end
      BY <1>2, <1>8, <2>1
    <2>3. u \notin Left
      BY <1>6, <1>7, <1>8, <2>1
    <2> QED BY <2>1, <2>2, <2>3
  <1>10. Address[t] \in m.scan.known
    <2>1. wallet \cup Before(t) = wallet
      BY <1>9
    <2>2. Address[t] \in Derived(wallet)
      BY <1>8, <2>1 DEF CInv, Ledger
    <2> QED BY <2>2
  <1>11. CASE m.scan.beg <= mined[t]
    BY <1>8, <1>10, <1>11 DEF InScan
  <1>12. CASE ~(m.scan.beg <= mined[t])
    <2>1. m.scan.beg <= Greatest(m.synced - Lag, Checkpoint) + 1 /\ Checkpoint < mined[t]
      BY <1>8 DEF CInv, Scan, Ledger
    <2>2. mined[t] + Lag <= m.synced
      BY <1>2, <1>8, <1>12, <2>1 DEF Greatest
    <2> QED BY <1>8, <2>2 DEF NothingMissed
  <1> QED BY <1>11, <1>12

\* When a request is done, the scan goes on with what is new, or has found all.
LEMMA DoneCInv ==
    ASSUME IInv, CInv, NEW q \in requests, AnnounceGetTransactionsDone(q)
    PROVE  CInv'
  <1>1. UNCHANGED <<mode, wallet, sent, chain, epoch, skipped>> /\ crossed' = Crosses(q)
    BY DEF AnnounceGetTransactionsDone
  <1>2. /\ Manager(m) /\ wallet \subseteq Txs /\ sent \subseteq Txs /\ (crossed => crossed')
        /\ q.rid # 0 /\ wallet' \subseteq Txs /\ sent' \subseteq Txs /\ wallet \subseteq wallet'
    BY <1>1 DEF IInv, CInv, Ledger, Asked, Crosses
  <1>3. CASE ~IsCurrent(q) /\ Ignored(q)
    <2>1. requests' = requests \ {q} /\ UNCHANGED <<m, told>>
      BY <1>3 DEF Ignored
    <2>2. Heights' /\ Asked'
      BY <1>1, <2>1 DEF CInv, Heights, Asked, chain
    <2>3. ASSUME m.scan.rid # 0, NEW t, NEW p \in requests, Brings(p, t)
          PROVE  \E r \in requests' : Brings(r, t)'
      <3>1. p # q
        BY <1>3, <2>3 DEF Brings, IsCurrent, CInv, Scan
      <3>2. p \in requests' /\ Brings(p, t)'
        BY <1>1, <2>1, <2>3, <3>1 DEF Brings, chain
      <3> QED BY <3>2
    <2> QED BY <1>1, <1>2, <2>1, <2>2, <2>3, ScanStays
  <1>4. CASE IsCurrent(q) /\ Fails(q)
    <2>1. m' = Wiped([m EXCEPT !.connected = FALSE]) /\ requests' = requests \ {q}
      BY <1>4 DEF Fails, Disconnected
    <2> QED BY <1>1, <1>2, <2>1, StopsScanning
  <1>5. CASE /\ q.answered /\ q.todo = {} /\ IsCurrent(q) /\ NewAddresses # {}
             /\ Requeries(q)
    <2> DEFINE k == m.scan.known \cup Derived(wallet)
    <2>1. /\ m' = [m EXCEPT !.scan.first = FirstUnused(wallet), !.scan.known = @ \cup Derived(wallet)]
          /\ requests' = (requests \ {q}) \cup {Query(m.scan, NewAddresses)}
      BY <1>5 DEF Requeries
    <2>2. /\ m'.scan.rid = m.scan.rid /\ m'.connected = m.connected /\ m'.synced = m.synced
          /\ m'.init = m.init /\ m'.network = m.network /\ m'.scan.beg = m.scan.beg
          /\ m'.scan.end = m.scan.end /\ m'.scan.first = FirstUnused(wallet) /\ m'.scan.known = k
      BY <1>2, <2>1 DEF Manager
    <2>3. PICK r : r = Query(m.scan, NewAddresses)
      OBVIOUS
    <2>4. /\ r.rid = m.scan.rid /\ r.epoch = epoch /\ r.addresses = NewAddresses
          /\ r.beg = m.scan.beg /\ ~r.answered /\ r.todo = {}
          /\ (r.end = m.scan.end \/ r.end = Unbounded)
          /\ requests' = (requests \ {q}) \cup {r}
      BY <2>1, <2>3 DEF Query
    <2>5. m.scan.rid # 0 /\ m.scan.rid = q.rid
      BY <1>2, <1>5 DEF IsCurrent
    <2>6. /\ m.scan.beg \in Nat /\ m.scan.end \in 1 .. tip + 1 /\ tip \in Nat /\ tip <= MaxHeight
          /\ m.scan.known \subseteq Derived(wallet)
      BY <2>5 DEF CInv, Scan, Heights
    <2>7. Heights' /\ skipped' \in BOOLEAN
      BY <1>1, <2>2 DEF CInv, Heights, chain
    <2>8. Asked'
      <3>1. r.todo \subseteq Txs /\ r.beg \in Nat /\ r.end \in Nat /\ r.rid # 0
        BY <2>4, <2>5, <2>6, Numbers DEF Unbounded
      <3> QED BY <2>4, <3>1 DEF CInv, Asked
    <2>9. Ledger' /\ NothingMissed'
      BY <1>1, <1>2, <2>2, LedgerGrows DEF CInv, NothingMissed, chain
    <2>10. Scan'
      <3>1. FirstUnused(wallet) \in Nat /\ Derived(wallet) = 0 .. FirstUnused(wallet) + Gap - 1
        BY <1>2, FirstUnusedAfter DEF Derived
      <3>2. UNCHANGED <<wallet, mode, skipped, tip>>
        BY <1>1 DEF chain
      <3>3. /\ m'.scan.first \in 0 .. FirstUnused(wallet)
            /\ 0 .. m'.scan.first + Gap - 1 \subseteq m'.scan.known
            /\ m'.scan.known \subseteq Derived(wallet)
        BY <2>2, <2>6, <3>1
      <3>4. /\ mode = "api" /\ m.connected
            /\ ~skipped => m.scan.beg <= Greatest(m.synced - Lag, Checkpoint) + 1
        BY <2>5 DEF CInv, Scan
      <3> QED BY <2>2, <2>6, <3>2, <3>3, <3>4 DEF Scan
    <2>11. Coverage'
      <3> SUFFICES ASSUME ~crossed', NEW t \in Txs, InScan(t)', t \notin wallet
                   PROVE  \E p \in requests' : Brings(p, t)'
        BY <1>1 DEF Coverage
      <3>0. UNCHANGED <<epoch, mined, tip>>
        BY <1>1 DEF chain
      <3>1. CASE Address[t] \in m.scan.known
        <4>1. InScan(t)
          BY <2>2, <3>0, <3>1 DEF InScan
        <4>2. PICK p \in requests : Brings(p, t)
          BY <1>2, <2>5, <4>1 DEF CInv, Coverage
        <4>3. p # q
          BY <1>5, <4>2 DEF Brings
        <4>4. p \in requests' /\ Brings(p, t)'
          BY <2>2, <2>4, <3>0, <4>2, <4>3 DEF Brings
        <4> QED BY <4>4
      <3>2. CASE Address[t] \notin m.scan.known
        <4>1. Address[t] \in Derived(wallet) \ m.scan.known
          BY <2>2, <3>2 DEF InScan
        <4>2. Address[t] \in r.addresses
          BY <1>5, <2>4, <4>1 DEF NewAddresses
        <4>3. /\ mined[t] \in Nat /\ mined[t] <= tip /\ m.scan.beg <= mined[t]
              /\ mined[t] + Lag < m.scan.end
          BY <2>2, <3>0 DEF InScan, CInv, Ledger
        <4>4. mined[t] < r.end
          BY <2>4, <2>6, <4>3, Numbers DEF Unbounded
        <4>5. r \in requests' /\ Brings(r, t)'
          BY <2>2, <2>4, <3>0, <4>2, <4>3, <4>4 DEF Brings
        <4> QED BY <4>5
      <3> QED BY <3>1, <3>2
    <2> QED BY <2>7, <2>8, <2>9, <2>10, <2>11 DEF CInv
  <1>6. CASE /\ q.answered /\ q.todo = {} /\ IsCurrent(q) /\ NewAddresses = {}
             /\ Completes(q)
    <2>1. m' = Wiped([m EXCEPT !.synced = m.scan.end - 1]) /\ requests' = requests \ {q}
      BY <1>6 DEF Completes
    <2>2. /\ m'.scan.rid = 0 /\ m'.init = m.init /\ m'.network = m.network
          /\ m'.synced = m.scan.end - 1
      BY <1>2, <2>1 DEF Manager, Wiped, NoScan
    <2>3. m.scan.rid # 0 /\ m.scan.rid = q.rid
      BY <1>2, <1>6 DEF IsCurrent
    <2>4. /\ m.scan.end \in 1 .. tip + 1 /\ tip \in Nat
          /\ m.scan.first \in 0 .. FirstUnused(wallet)
          /\ 0 .. m.scan.first + Gap - 1 \subseteq m.scan.known
      BY <2>3 DEF CInv, Scan, Heights
    <2>5. Heights' /\ Asked' /\ Ledger' /\ skipped' \in BOOLEAN
      BY <1>1, <1>2, <2>1, <2>2, <2>4, LedgerGrows DEF CInv, Heights, Asked, chain
    <2>6. NothingMissed'
      <3> SUFFICES ASSUME ~crossed', ~skipped, NEW t \in Txs, mined[t] # 0,
                          mined[t] + Lag <= m.scan.end - 1
                   PROVE  t \in wallet
        BY <1>1, <2>2 DEF NothingMissed, chain
      <3>1. ~crossed /\ q.epoch = epoch
        BY <1>1, <1>2, <1>6 DEF Crosses
      <3>2. \A u \in Txs, p \in requests : ~Brings(p, u)
        <4> SUFFICES ASSUME NEW u \in Txs, NEW p \in requests, Brings(p, u) PROVE FALSE
          OBVIOUS
        <4>1. p = q
          BY <2>3, <3>1 DEF Brings, IInv, OneAnswerDue
        <4> QED BY <1>6, <4>1 DEF Brings
      <3>3. \A u \in Txs : InScan(u) => u \in wallet
        BY <2>3, <3>1, <3>2 DEF CInv, Coverage
      <3>4. Derived(wallet) \subseteq m.scan.known
        BY <1>6, <2>4 DEF NewAddresses, Derived
      <3>5. mined[t] \in Nat /\ m.scan.end \in Nat
        BY <2>4 DEF CInv, Ledger
      <3>6. mined[t] + Lag < m.scan.end
        BY <3>5, Numbers
      <3> QED BY <2>3, <3>1, <3>3, <3>4, <3>6, NoneLeft DEF CInv
    <2> QED BY <2>2, <2>5, <2>6, WithoutScan
  <1> QED BY <1>3, <1>4, <1>5, <1>6 DEF AnnounceGetTransactionsDone

\* A block that is mined is above every scan, and its transactions use addresses
\* that could be derived.
LEMMA MineCInv ==
    ASSUME CInv, Mine
    PROVE  CInv'
  <1>1. /\ tip < MaxHeight /\ tip' = tip + 1
        /\ UNCHANGED <<mode, m, told, wallet, requests, sent, epoch, crossed, skipped>>
    BY DEF Mine
  <1>2. PICK new \in SUBSET {t \in Txs : mined[t] = 0} :
            /\ \A t \in new :
                  Address[t] \in Derived(wallet \cup {u \in Txs : mined[u] # 0}
                                         \cup {u \in new : Address[u] < Address[t]})
            /\ mined' = [t \in Txs |-> IF t \in new THEN tip + 1 ELSE mined[t]]
    BY DEF Mine
  <1>3. /\ tip \in Nat /\ Checkpoint <= tip /\ mined \in [Txs -> Nat] /\ wallet \subseteq Txs
        /\ Address \in [Txs -> Nat] /\ Checkpoint \in Nat /\ MaxHeight \in Nat
        /\ \A t \in Txs : mined[t] # 0 => Checkpoint < mined[t] /\ mined[t] <= tip
    BY Numbers DEF CInv, Heights, Ledger
  <1>4. Heights'
    BY <1>1, <1>3 DEF CInv, Heights
  <1>5. mined' \in [Txs -> Nat]
    BY <1>2, <1>3
  <1>6. ASSUME NEW t \in Txs, t \notin new, mined[t] # 0
        PROVE  mined'[t] = mined[t] /\ Before(t)' = Before(t)
    <2>1. \A u \in Txs : IF u \in new THEN mined'[u] = tip + 1 /\ mined[u] = 0
                                      ELSE mined'[u] = mined[u]
      BY <1>2
    <2>2. mined[t] <= tip /\ mined[t] \in Nat /\ \A u \in Txs : mined[u] \in Nat
      BY <1>3, <1>6
    <2>3. \A u \in Txs : /\ mined'[u] # 0 /\ mined'[u] < mined'[t] <=> mined[u] # 0 /\ mined[u] < mined[t]
                         /\ mined'[u] = mined'[t] <=> mined[u] = mined[t]
      BY <1>3, <1>6, <2>1, <2>2
    <2> QED BY <1>6, <2>1, <2>3 DEF Before
  <1>7. Ledger'
    <2>1. ASSUME NEW t \in Txs, mined'[t] # 0
          PROVE  /\ Checkpoint < mined'[t] /\ mined'[t] <= tip'
                 /\ Address[t] \in Derived(wallet \cup Before(t)')
      <3>1. CASE t \notin new
        <4>1. mined[t] # 0 /\ mined'[t] = mined[t]
          BY <1>2, <2>1, <3>1
        <4>2. Before(t)' = Before(t)
          BY <1>6, <3>1, <4>1
        <4> QED BY <1>1, <1>3, <4>1, <4>2 DEF CInv, Ledger
      <3>2. CASE t \in new
        <4> DEFINE Earlier == wallet \cup {u \in Txs : mined[u] # 0}
                                     \cup {u \in new : Address[u] < Address[t]}
        <4>1. mined'[t] = tip + 1 /\ Address[t] \in Derived(Earlier)
          BY <1>2, <3>2
        <4>2. ASSUME NEW u \in Txs, mined[u] # 0 PROVE u \in Before(t)'
          <5>1. u \notin new /\ mined'[u] = mined[u] /\ mined[u] <= tip /\ mined[u] \in Nat
            BY <1>2, <1>3, <4>2
          <5> QED BY <1>3, <4>1, <4>2, <5>1 DEF Before
        <4>3. ASSUME NEW u \in new, Address[u] < Address[t] PROVE u \in Before(t)'
          BY <1>2, <4>1, <4>3 DEF Before
        <4>4. Earlier \subseteq wallet \cup Before(t)'
          BY <4>2, <4>3
        <4>5. wallet \cup Before(t)' \in SUBSET Txs
          BY <1>3 DEF Before
        <4> HIDE DEF Earlier
        <4>6. Derived(Earlier) \subseteq Derived(wallet \cup Before(t)')
          BY <4>4, <4>5, DerivedGrows
        <4>7. Address[t] \in Derived(wallet \cup Before(t)')
          BY <4>1, <4>6
        <4>8. Checkpoint < tip + 1 /\ tip + 1 <= tip'
          BY <1>1, <1>3
        <4> QED BY <4>1, <4>7, <4>8
      <3> QED BY <3>1, <3>2
    <2> QED BY <1>1, <1>5, <2>1 DEF CInv, Ledger
  <1>8. ASSUME NEW t \in Txs, mined'[t] # 0, mined'[t] <= tip
        PROVE  mined'[t] = mined[t]
    BY <1>2, <1>3, <1>8
  <1>9. NothingMissed'
    <2> SUFFICES ASSUME ~crossed, ~skipped, NEW t \in Txs, mined'[t] # 0, mined'[t] + Lag <= m.synced
                 PROVE  t \in wallet
      BY <1>1 DEF NothingMissed
    <2>1. m.synced \in 0 .. tip /\ mined'[t] \in Nat
      BY <1>5 DEF CInv, Heights
    <2>2. mined'[t] <= tip
      BY <1>3, <2>1, Numbers
    <2> QED BY <1>8, <2>2 DEF CInv, NothingMissed
  <1>10. Scan'
    <2>1. m.scan.end \in 1 .. tip + 1 => m.scan.end \in 1 .. tip' + 1
      BY <1>1, <1>3
    <2> QED BY <1>1, <2>1 DEF CInv, Scan
  <1>11. Coverage'
    <2> SUFFICES ASSUME ~crossed, m.scan.rid # 0, NEW t \in Txs, InScan(t)', t \notin wallet
                 PROVE  \E p \in requests : Brings(p, t)'
      BY <1>1 DEF Coverage
    <2>1. m.scan.end \in 1 .. tip + 1 /\ mined'[t] \in Nat /\ mined'[t] + Lag < m.scan.end
          /\ mined'[t] # 0
      BY <1>1, <1>5 DEF CInv, Scan, InScan
    <2>2. mined'[t] = mined[t]
      BY <1>3, <1>8, <2>1, Numbers
    <2>3. InScan(t)
      BY <1>1, <2>2 DEF InScan
    <2>4. PICK p \in requests : Brings(p, t)
      BY <2>3 DEF CInv, Coverage
    <2>5. Brings(p, t)'
      BY <1>1, <2>2, <2>4 DEF Brings
    <2> QED BY <2>5
  <1> QED BY <1>1, <1>4, <1>7, <1>9, <1>10, <1>11 DEF CInv, Asked

\* Every step misses nothing.
LEMMA NextCInv == ASSUME IInv, CInv, [Next]_vars PROVE CInv'
  <1>0. /\ Manager(m) /\ wallet \subseteq Txs /\ sent \subseteq Txs
    BY DEF IInv, CInv, Ledger
  <1>1. CASE UNCHANGED vars
    <2>1. UNCHANGED <<mode, m, wallet, requests, sent, chain, epoch, crossed, skipped>>
      BY <1>1 DEF vars, chain
    <2>2. Heights' /\ Asked'
      BY <2>1 DEF CInv, Heights, Asked, chain
    <2>3. ASSUME NEW t, NEW p, Brings(p, t) PROVE Brings(p, t)'
      BY <2>1, <2>3 DEF Brings, chain
    <2> QED BY <1>0, <2>1, <2>2, <2>3, ScanStays
  <1>2. CASE AnnounceGetBlockNumber
    <2>1. PICK h \in m.network + 1 .. tip : m' = [m EXCEPT !.network = h]
      BY <1>2 DEF AnnounceGetBlockNumber
    <2>2. UNCHANGED <<mode, wallet, requests, sent, chain, epoch, crossed, skipped>>
      BY <1>2 DEF AnnounceGetBlockNumber
    <2>3. /\ m'.scan = m.scan /\ m'.synced = m.synced /\ m'.connected = m.connected
          /\ m'.init = m.init /\ m'.network = h
      BY <1>0, <2>1 DEF Manager
    <2>4. Heights' /\ Asked'
      BY <2>1, <2>2, <2>3 DEF CInv, Heights, Asked, chain
    <2>5. ASSUME NEW t, NEW p, Brings(p, t) PROVE Brings(p, t)'
      BY <2>2, <2>3, <2>5 DEF Brings, chain
    <2> QED BY <1>0, <2>2, <2>3, <2>4, <2>5, ScanStays
  <1>3. CASE AnnounceSubmitTransaction
    <2>1. PICK t \in sent : /\ sent' = sent \ {t}
                            /\ wallet' = wallet \/ wallet' = Registered(wallet, t)
      BY <1>3 DEF AnnounceSubmitTransaction
    <2>2. UNCHANGED <<mode, m, requests, chain, epoch, crossed, skipped>>
      BY <1>3 DEF AnnounceSubmitTransaction
    <2>3. wallet \subseteq wallet' /\ wallet' \subseteq Txs /\ sent' \subseteq Txs
      BY <1>0, <2>1 DEF Registered
    <2>4. Heights' /\ Asked'
      BY <2>2 DEF CInv, Heights, Asked, chain
    <2>5. ASSUME NEW u, NEW p, Brings(p, u) PROVE Brings(p, u)'
      BY <2>2, <2>5 DEF Brings, chain
    <2> QED BY <2>2, <2>3, <2>4, <2>5, ScanStays
  <1>4. CASE Answers
    BY <1>4, AnswerCInv, ItemCInv, DoneCInv DEF Answers
  <1> QED BY <1>1, <1>2, <1>3, <1>4, OwnsCInv, MineCInv DEF Next

\* Whatever the wallet, the gap, the lag of the service and the order of calls and
\* answers, no transaction up to the height synced, less the lag, is missing as long
\* as the scans leave out no block that the service may not have looked up.
THEOREM NoTransactionMissed == Spec => []NothingMissed
  <1>1. IInv /\ CInv /\ IInv' /\ [Next]_vars => CInv'
    BY NextCInv
  <1>2. Spec => []CInv
    BY <1>1, InitCInv, Invariance, PTL DEF Spec
  <1>3. CInv => NothingMissed
    BY DEF CInv
  <1> QED BY <1>2, <1>3, PTL

\* None does where the service is at most one block behind: a scan begins no later
\* than the height synced.
THEOREM NoneSkipped == ASSUME Lag <= 1 PROVE Spec => []~skipped
  <1> DEFINE J == skipped = FALSE
  <1>1. Init => J
    BY DEF Init
  <1>2. ASSUME IInv, CInv, J, [Next]_vars PROVE J'
    <2>1. ASSUME NEW n, NEW o, Manager(n), n.synced \in Nat, n.network \in Nat, Update(n, o)
          PROVE  J'
      <3> DEFINE b == BlockNumberAsked(n)
      <3>1. b.synced = n.synced /\ b.network = n.network
        BY <2>1 DEF BlockNumberAsked, Manager
      <3> HIDE DEF b
      <3>2. ScanBegin(b) <= b.synced /\ ScanBegin(b) \in Nat
        BY <2>1, <3>1, Numbers DEF ScanBegin, ScanEnd, Least, Greatest
      <3>3. ~Skips(b)
        BY <2>1, <3>1, <3>2, Numbers DEF Skips, Greatest
      <3> QED BY <1>2, <2>1, <3>3 DEF Update, b
    <2>2. /\ Manager(m) /\ Agrees(m, told) /\ m.synced \in Nat /\ m.network \in Nat /\ m.init \in Nat
      BY <1>2, Numbers DEF IInv, CInv, Heights
    <2>3. CASE Connect
      <3> DEFINE n == [m EXCEPT !.connected = TRUE]
      <3>1. Manager(n) /\ n.synced = m.synced /\ n.network = m.network
        BY <2>2 DEF Manager
      <3> HIDE DEF n
      <3>2. PICK o : Update(n, o)
        BY <2>3 DEF Connect, n
      <3> QED BY <2>1, <2>2, <3>1, <3>2
    <2>4. CASE ScanToDepth
      <3>1. CASE ~m.connected
        BY <2>1, <2>2, <2>4, <3>1 DEF ScanToDepth
      <3>2. CASE m.connected
        <4>1. PICK d \in Depths : Update(Rewound(Wiped(m), d), After(Dropped, "CONNECTED"))
          BY <2>4, <3>2 DEF ScanToDepth
        <4>2. d \in Nat
          BY <1>2, Numbers DEF Depths, CInv, Ledger
        <4> DEFINE w == Wiped(m)
                   n == Rewound(w, d)
        <4>3. Manager(w)
          BY <2>2, EndsTold
        <4>4. w.init = m.init /\ w.network = m.network /\ w.synced = m.synced
          BY <2>2 DEF Manager, Wiped
        <4> HIDE DEF w
        <4>5. /\ Manager(n) /\ n.network = w.network
              /\ n.synced = Greatest(w.init, Least(d, w.synced))
          BY <4>3 DEF Manager, Rewound
        <4>6. n.synced \in Nat
          BY <2>2, <4>2, <4>4, <4>5 DEF Greatest, Least
        <4>7. PICK o : Update(n, o)
          BY <4>1 DEF w
        <4> HIDE DEF n
        <4> QED BY <2>1, <2>2, <4>4, <4>5, <4>6, <4>7
      <3> QED BY <3>1, <3>2
    <2>5. CASE TickTock
      BY <2>1, <2>2, <2>5 DEF TickTock
    <2>6. CASE Disconnect \/ Submit \/ SetMode \/ AnnounceGetBlockNumber \/ Answers
               \/ AnnounceSubmitTransaction \/ Mine \/ UNCHANGED vars
      BY <1>2, <2>6 DEF Disconnect, Submit, SetMode, AnnounceGetBlockNumber, Answers, Answer,
             AnnounceGetTransactionsItem, AnnounceGetTransactionsDone,
             AnnounceSubmitTransaction, Mine, vars
    <2> QED BY <1>2, <2>3, <2>4, <2>5, <2>6 DEF Next, Owns
  <1>3. Spec => []CInv
    <2>1. IInv /\ CInv /\ IInv' /\ [Next]_vars => CInv'
      BY NextCInv
    <2> QED BY <2>1, InitCInv, Invariance, PTL DEF Spec
  <1>4. J => ~skipped
    OBVIOUS
  <1>5. IInv /\ CInv /\ J /\ [Next]_vars => J'
    BY <1>2
  <1> HIDE DEF J
  <1> QED BY <1>1, <1>3, <1>4, <1>5, Invariance, PTL DEF Spec
=============================================================================
