------------------------ MODULE EthereumSyncProofs --------------------------
(***************************************************************************)
(* For any offset, chain and number of disturbances: the scans of           *)
(* EthereumSync miss blocks only where one slips, and their owner is told   *)
(* of changes that follow one another until an answer is late.              *)
(***************************************************************************)
EXTENDS EthereumSync, TLAPS

Syncs == [rid : [Kinds -> Rids \cup {Unknown}], beg : Nat, end : Nat,
          completed : [Kinds -> BOOLEAN]]

Typed ==
    /\ head \in 0 .. MaxHeight /\ blockHeight \in 0 .. head /\ numbers \subseteq 0 .. head
    /\ brdSync \in Syncs
    /\ requests \subseteq [kind : Kinds, rid : Rids, beg : Nat, end : Nat]
    /\ answers \subseteq [kind : Kinds, rid : Rids, ok : BOOLEAN, blocks : SUBSET Blocks]
    /\ told \in [Kinds -> SUBSET Blocks]
    /\ past \in [bad : BOOLEAN, slipped : BOOLEAN, late : BOOLEAN]

\* A request is answered once.
OnePerRid ==
    /\ \A x, y \in requests : x.rid = y.rid => x = y
    /\ \A x, y \in answers : x.rid = y.rid => x = y
    /\ \A x \in requests, y \in answers : x.rid # y.rid

\* The blocks that the scan is to cover if the next one begins where it should; no
\* reorganisation reaches them.
Due(b) == {n \in Blocks : b.beg <= n /\ n + Offset < b.end}

\* A scan that is neither failing nor ended: its messages are those that have not
\* completed, and what they ask for, bring or have brought covers what is due.
Asked(b) ==
    \A r \in requests :
        r.rid = b.rid[r.kind] => r.beg = b.beg /\ r.end = b.end /\ ~b.completed[r.kind]
Answered(b) ==
    \A a \in answers :
        a.rid = b.rid[a.kind] => ~b.completed[a.kind] /\ (a.ok => Due(b) \subseteq a.blocks)
Taken(b) == Scanning(b) => \A k \in Kinds : b.completed[k] => Due(b) \subseteq told[k]

Placed(b) == b.end <= head /\ (b.beg = 0 \/ b.beg + Offset <= head)
Told(b) == \A n \in 1 .. b.beg - 1 : \A k \in Kinds : n \in told[k]

Sound(b) ==
    /\ Placed(b)
    /\ past.bad \/ (Asked(b) /\ Answered(b) /\ Taken(b))
    /\ Told(b) \/ past.slipped

\* The inductive invariant.
IInv == Typed /\ OnePerRid /\ Sound(brdSync)

-----------------------------------------------------------------------------
LEMMA Numbers ==
    ASSUME Typed
    PROVE  /\ head \in Nat /\ blockHeight \in Nat /\ Offset \in Nat /\ MaxHeight \in Nat
           /\ blockHeight <= head /\ head <= MaxHeight /\ brdSync.beg \in Nat /\ brdSync.end \in Nat
           /\ Blocks = 1 .. MaxHeight
  BY ConstantsAssumption DEF Typed, Syncs, Blocks

LEMMA InitHolds == Init => IInv
  BY ConstantsAssumption
  DEF Init, IInv, Typed, Syncs, OnePerRid, Sound, Placed, Asked, Answered, Taken, Told, Scanning,
      All, Kinds, Blocks

LEMMA FreshAreNew ==
    ASSUME NEW b, FreshRids(b) # {}, NEW f, f = CHOOSE g \in FreshRids(b) : TRUE
    PROVE  /\ f \in [Kinds -> Rids] /\ f["transactions"] # f["logs"]
           /\ \A k \in Kinds : \A m \in requests \cup answers : m.rid # f[k]
  <1>1. f \in FreshRids(b)
    OBVIOUS
  <1> QED BY <1>1 DEF FreshRids, InUse

\* ewmHandleSyncAPI keeps what is sound.
LEMMA SyncAPIKeeps ==
    ASSUME Typed, OnePerRid, NEW b \in Syncs, Sound(b), NEW s, HandleSyncAPI(b, s),
           UNCHANGED <<blockHeight, answers, head, told>>
    PROVE  IInv'
  <1>1. numbers' \subseteq 0 .. head
    BY DEF HandleSyncAPI, Typed
  <1>2. CASE brdSync' = b /\ UNCHANGED <<requests, past>>
    BY <1>1, <1>2 DEF IInv, Typed, OnePerRid, Sound, Placed, Asked, Answered, Taken, Told,
                            Scanning, Due
  <1> DEFINE n == [b EXCEPT !.end = blockHeight]
  <1>3. /\ n \in Syncs /\ n.beg = b.beg /\ n.end = blockHeight /\ n.rid = b.rid
        /\ n.completed = b.completed
    BY DEF Syncs, Typed
  <1>4. CASE ~Scanning(b) /\ brdSync' = n /\ UNCHANGED <<requests, past>>
    <2>1. Typed' /\ OnePerRid'
      BY <1>1, <1>3, <1>4 DEF Typed, OnePerRid
    <2>2. \A k \in Kinds : b.completed[k]
      BY <1>4 DEF Scanning
    <2>3. past.bad \/ (\A m \in requests \cup answers : m.rid # b.rid[m.kind])
      BY <2>2 DEF Sound, Asked, Answered, Typed
    <2>4. Placed(brdSync)' /\ (Told(brdSync) \/ past.slipped)'
      BY <1>3, <1>4 DEF Sound, Placed, Told, Typed
    <2>5. past.bad \/ (Asked(brdSync) /\ Answered(brdSync) /\ Taken(brdSync))'
      BY <1>3, <1>4, <2>2, <2>3 DEF Asked, Answered, Taken, Scanning
    <2> QED BY <1>4, <2>1, <2>4, <2>5 DEF IInv, Sound
  <1>5. CASE /\ ~Scanning(b) /\ FreshRids(b) # {}
             /\ brdSync' = [n EXCEPT !.rid = CHOOSE f \in FreshRids(b) : TRUE,
                                     !.completed = All(FALSE)]
             /\ requests' = requests \cup Requests(brdSync')
             /\ past' = [past EXCEPT !.bad = FALSE, !.slipped = @ /\ n.beg # 0]
    <2> DEFINE f == CHOOSE g \in FreshRids(b) : TRUE
               c == brdSync'
    <2>1. /\ f \in [Kinds -> Rids] /\ f["transactions"] # f["logs"]
          /\ \A k \in Kinds : \A m \in requests \cup answers : m.rid # f[k]
      BY <1>5, FreshAreNew
    <2>2. /\ c \in Syncs /\ c.rid = f /\ c.beg = b.beg /\ c.end = blockHeight
          /\ \A k \in Kinds : ~c.completed[k]
      BY <1>3, <1>5, <2>1 DEF Syncs, All
    <2>d. c = brdSync'
      OBVIOUS
    <2> HIDE DEF f, n, c
    <2>3. \A r \in Requests(c) : /\ r.kind \in Kinds /\ r.rid = f[r.kind] /\ r.rid \in Rids
                                 /\ r.beg = c.beg /\ r.end = c.end
                                 /\ r \in [kind : Kinds, rid : Rids, beg : Nat, end : Nat]
      BY <2>1, <2>2 DEF Requests, Syncs
    <2>4. \A x, y \in Requests(c) : x.rid = y.rid => x = y
      BY <2>1, <2>2 DEF Requests, Kinds
    <2>5. /\ past' \in [bad : BOOLEAN, slipped : BOOLEAN, late : BOOLEAN] /\ ~past'.bad
          /\ past'.slipped = (past.slipped /\ b.beg # 0)
      BY <1>3, <1>5 DEF Typed
    <2>6. Typed'
      BY <1>1, <1>5, <2>d, <2>2, <2>3, <2>5 DEF Typed
    <2>7. OnePerRid'
      <3>1. \A r \in Requests(c) : \A m \in requests \cup answers : m.rid # r.rid
        BY <2>1, <2>3
      <3>2. requests' = requests \cup Requests(c) /\ answers' = answers
        BY <1>5, <2>d
      <3> QED BY <2>4, <3>1, <3>2 DEF OnePerRid
    <2>8. \A r \in requests' : r.rid = f[r.kind] => r \in Requests(c)
      BY <1>5, <2>d, <2>1 DEF Typed
    <2>9. \A a \in answers' : a.rid # f[a.kind]
      BY <2>1 DEF Typed
    <2>10. Asked(brdSync)' /\ Answered(brdSync)' /\ Taken(brdSync)'
      BY <2>2, <2>d, <2>3, <2>8, <2>9 DEF Asked, Answered, Taken, Scanning
    <2>11. Placed(brdSync)' /\ (Told(brdSync) \/ past.slipped)'
      BY <2>2, <2>d, <2>5 DEF Sound, Placed, Told, Typed, Syncs
    <2> QED BY <2>6, <2>7, <2>10, <2>11 DEF IInv, Sound
  <1> QED BY <1>2, <1>4, <1>5 DEF HandleSyncAPI

-----------------------------------------------------------------------------
LEMMA DisconnectKeeps ==
    ASSUME IInv, Disconnect
    PROVE  IInv'
  <1>1. CASE Scanning(brdSync)
    <2>1. /\ brdSync' \in Syncs /\ brdSync'.beg = 0 /\ brdSync'.end = blockHeight
          /\ past' \in [bad : BOOLEAN, slipped : BOOLEAN, late : BOOLEAN] /\ past'.bad
      <3>1. /\ brdSync' = [brdSync EXCEPT !.beg = 0, !.end = blockHeight, !.completed = All(TRUE)]
            /\ past' = [past EXCEPT !.bad = TRUE, !.slipped = FALSE]
        BY <1>1 DEF Disconnect
      <3>2. brdSync \in Syncs /\ blockHeight \in Nat
            /\ past \in [bad : BOOLEAN, slipped : BOOLEAN, late : BOOLEAN]
        BY Numbers DEF IInv, Typed
      <3> QED BY <3>1, <3>2 DEF Syncs, All
    <2>2. UNCHANGED <<blockHeight, requests, answers, numbers, head, told>>
      BY DEF Disconnect, service
    <2>3. Sound(brdSync)'
      BY <2>1, <2>2 DEF Sound, Placed, Told, IInv, Typed
    <2> QED BY <2>1, <2>2, <2>3 DEF IInv, Typed, OnePerRid
  <1>2. CASE ~Scanning(brdSync)
    <2>1. UNCHANGED <<blockHeight, brdSync, requests, answers, numbers, head, told, past>>
      BY <1>2 DEF Disconnect, service
    <2> QED BY <2>1 DEF IInv, Typed, OnePerRid, Sound, Placed, Asked, Answered, Taken, Told,
                            Scanning
  <1> QED BY <1>1, <1>2

LEMMA SyncToDepthKeeps ==
    ASSUME IInv, NEW h \in 0 .. MaxHeight, SyncToDepth(h)
    PROVE  IInv'
  <1> DEFINE b == Aborted(brdSync)
             c == [b EXCEPT !.beg = Least(@, Least(h, blockHeight))]
  <1>1. /\ b \in Syncs /\ b.beg = brdSync.beg /\ b.end = brdSync.end /\ ~Scanning(b)
        /\ b = brdSync \/ (\A k \in Kinds : b.rid[k] = Unknown)
    BY DEF Aborted, IInv, Typed, Syncs, Scanning, All
  <1> HIDE DEF b
  <1>2. /\ c \in Syncs /\ c.end = b.end /\ c.rid = b.rid /\ c.completed = b.completed
        /\ c.beg \in Nat /\ c.beg <= b.beg /\ c.beg <= blockHeight
    BY <1>1 DEF Syncs, Least, IInv, Typed
  <1> HIDE DEF c
  <1>3. \A k \in Kinds : c.completed[k]
    BY <1>1, <1>2 DEF Scanning
  <1>4. past.bad \/ (\A m \in requests \cup answers : m.rid # c.rid[m.kind])
    <2>1. \A m \in requests \cup answers : m.kind \in Kinds /\ m.rid \in Rids
      BY DEF IInv, Typed
    <2>2. CASE b = brdSync
      BY <1>2, <1>3, <2>1, <2>2 DEF IInv, Sound, Asked, Answered
    <2>3. CASE \A k \in Kinds : b.rid[k] = Unknown
      BY <1>2, <2>1, <2>3, ConstantsAssumption
    <2> QED BY <1>1, <2>2, <2>3
  <1>5. past.bad \/ (Asked(c) /\ Answered(c) /\ Taken(c))
    BY <1>3, <1>4 DEF Asked, Answered, Taken, Scanning
  <1>6. Placed(c) /\ (Told(c) \/ past.slipped)
    BY <1>1, <1>2, ConstantsAssumption DEF Placed, Told, IInv, Sound, Typed, Syncs
  <1>7. HandleSyncAPI(c, EndShown) /\ UNCHANGED <<blockHeight, answers, head, told>>
    BY DEF SyncToDepth, b, c
  <1> QED BY <1>2, <1>5, <1>6, <1>7, SyncAPIKeeps DEF IInv, Sound

\* An answer to a request covers what is due, if the request is of the scan.
LEMMA AnswersKeeps ==
    ASSUME IInv, NEW r \in requests, Answers(r)
    PROVE  IInv'
  <1>1. PICK a \in [kind : Kinds, rid : Rids, ok : BOOLEAN, blocks : SUBSET Blocks] :
            /\ answers' = answers \cup {a} /\ a.kind = r.kind /\ a.rid = r.rid
            /\ a.ok => a.blocks = Blocks \cap (r.beg .. Least(r.end, head))
    <2>1. r.kind \in Kinds /\ r.rid \in Rids
      BY DEF IInv, Typed
    <2> DEFINE covered == Blocks \cap (r.beg .. Least(r.end, head))
               good == [kind |-> r.kind, rid |-> r.rid, ok |-> TRUE, blocks |-> covered]
               failed == [kind |-> r.kind, rid |-> r.rid, ok |-> FALSE, blocks |-> {}]
    <2>2. covered \in SUBSET Blocks /\ {} \in SUBSET Blocks
      OBVIOUS
    <2>3. answers' = answers \cup {good} \/ answers' = answers \cup {failed}
      BY DEF Answers
    <2> HIDE DEF covered
    <2>4. /\ good \in [kind : Kinds, rid : Rids, ok : BOOLEAN, blocks : SUBSET Blocks]
          /\ failed \in [kind : Kinds, rid : Rids, ok : BOOLEAN, blocks : SUBSET Blocks]
      BY <2>1, <2>2
    <2>5. good.kind = r.kind /\ good.rid = r.rid /\ good.blocks = covered
      OBVIOUS
    <2>6. failed.kind = r.kind /\ failed.rid = r.rid /\ ~failed.ok
      OBVIOUS
    <2> HIDE DEF good, failed
    <2> QED BY <2>3, <2>4, <2>5, <2>6 DEF covered
  <1>2. /\ requests' = requests \ {r}
        /\ UNCHANGED <<blockHeight, brdSync, numbers, head, told, past>>
    BY DEF Answers
  <1>3. Typed'
    BY <1>1, <1>2 DEF IInv, Typed
  <1>4. OnePerRid'
    BY <1>1, <1>2 DEF IInv, OnePerRid
  <1>5. ASSUME ~past.bad, a.rid = brdSync.rid[a.kind], a.ok
        PROVE  Due(brdSync) \subseteq a.blocks
    <2>1. r.beg = brdSync.beg /\ r.end = brdSync.end
      BY <1>1, <1>5 DEF IInv, Sound, Asked
    <2>2. /\ brdSync.end <= head /\ brdSync.beg \in Nat /\ brdSync.end \in Nat /\ head \in Nat
          /\ Blocks \subseteq Nat
      BY DEF IInv, Typed, Syncs, Sound, Placed, Blocks
    <2>3. Least(r.end, head) = brdSync.end
      BY <2>1, <2>2 DEF Least
    <2> QED BY <1>1, <1>5, <2>1, <2>2, <2>3, Numbers DEF Due, IInv
  <1>6. past.bad \/ (Asked(brdSync) /\ Answered(brdSync) /\ Taken(brdSync))'
    <2>1. CASE ~past.bad
      <3>1. ~brdSync.completed[a.kind] \/ a.rid # brdSync.rid[a.kind]
        BY <1>1, <2>1 DEF IInv, Sound, Asked
      <3>2. Due(brdSync)' = Due(brdSync)
        BY <1>2 DEF Due
      <3> QED BY <1>1, <1>2, <1>5, <2>1, <3>1, <3>2
              DEF IInv, Sound, Asked, Answered, Taken, Scanning
    <2> QED BY <2>1 DEF IInv, Typed
  <1>7. Sound(brdSync)'
    BY <1>2, <1>6 DEF IInv, Sound, Placed, Told
  <1> QED BY <1>3, <1>4, <1>7 DEF IInv

\* A completion is that of the scan, of one that failed or was ended, or of none.
LEMMA CompletesKeeps ==
    ASSUME IInv, NEW a \in answers, Completes(a)
    PROVE  IInv'
  <1>1. /\ answers' = answers \ {a} /\ told' = [told EXCEPT ![a.kind] = @ \cup a.blocks]
        /\ UNCHANGED <<blockHeight, requests, numbers, head>>
        /\ a \in [kind : Kinds, rid : Rids, ok : BOOLEAN, blocks : SUBSET Blocks]
    BY DEF Completes, IInv, Typed
  <1>2. /\ told' \in [Kinds -> SUBSET Blocks] /\ a.blocks \subseteq told'[a.kind]
        /\ \A k \in Kinds : told[k] \subseteq told'[k]
    BY <1>1 DEF IInv, Typed
  <1>3. OnePerRid'
    BY <1>1 DEF IInv, OnePerRid
  <1>4. CASE ~Matches(a)
    <2>1. UNCHANGED <<brdSync, past>>
      BY <1>4 DEF Completes
    <2>2. Typed'
      BY <1>1, <1>2, <2>1 DEF IInv, Typed
    <2>3. Sound(brdSync)'
      <3>1. Due(brdSync)' = Due(brdSync) /\ Scanning(brdSync)' = Scanning(brdSync)
        BY <2>1 DEF Due, Scanning
      <3>2. Told(brdSync) => Told(brdSync)'
        BY <1>2, <2>1 DEF Told
      <3>3. Taken(brdSync) => Taken(brdSync)'
        BY <1>2, <2>1, <3>1 DEF Taken
      <3> QED BY <1>1, <2>1, <3>1, <3>2, <3>3 DEF IInv, Sound, Placed, Asked, Answered
    <2> QED BY <1>3, <2>2, <2>3 DEF IInv
  <1> DEFINE b == [brdSync EXCEPT !.completed[a.kind] = TRUE]
  <1>5. /\ b \in Syncs /\ b.rid = brdSync.rid /\ b.beg = brdSync.beg /\ b.end = brdSync.end
        /\ b.completed[a.kind]
        /\ \A k \in Kinds \ {a.kind} : b.completed[k] = brdSync.completed[k]
    BY <1>1 DEF IInv, Typed, Syncs
  <1>6. Due(b) = Due(brdSync)
    BY <1>5 DEF Due
  <1>7. ASSUME Matches(a), ~past.bad
        PROVE  /\ ~brdSync.completed[a.kind] /\ (a.ok => Due(b) \subseteq a.blocks)
               /\ \A m \in requests' \cup answers' : m.rid = b.rid[m.kind] => m.kind # a.kind
    BY <1>1, <1>5, <1>6, <1>7 DEF IInv, Sound, Answered, Matches, OnePerRid
  <1>8. ASSUME Matches(a), ~past.bad, a.ok, NEW k \in Kinds, b.completed[k]
        PROVE  Due(b) \subseteq told'[k]
    <2>1. CASE k = a.kind
      BY <1>2, <1>7, <1>8, <2>1
    <2>2. CASE k # a.kind
      <3>1. Scanning(brdSync) /\ brdSync.completed[k]
        BY <1>5, <1>7, <1>8, <2>2 DEF Scanning, Matches, IInv, Typed
      <3>2. Due(brdSync) \subseteq told[k]
        BY <1>8, <3>1 DEF IInv, Sound, Taken
      <3> QED BY <1>2, <1>6, <3>2
    <2> QED BY <2>1, <2>2
  <1> HIDE DEF b
  <1>9. CASE Matches(a) /\ Scanning(b)
    <2>1. brdSync' = b /\ past' = [past EXCEPT !.bad = @ \/ ~a.ok]
      BY <1>9 DEF Completes, b
    <2>2. /\ past' \in [bad : BOOLEAN, slipped : BOOLEAN, late : BOOLEAN]
          /\ past'.bad = (past.bad \/ ~a.ok) /\ past'.slipped = past.slipped
      BY <2>1, <1>1 DEF IInv, Typed
    <2>3. Typed'
      BY <1>1, <1>2, <1>5, <2>1, <2>2 DEF IInv, Typed
    <2>4. Placed(brdSync)' /\ (Told(brdSync) \/ past.slipped)'
      BY <1>1, <1>2, <1>5, <2>1, <2>2 DEF IInv, Sound, Placed, Told
    <2>5. ASSUME ~past'.bad
          PROVE  Asked(brdSync)' /\ Answered(brdSync)' /\ Taken(brdSync)'
      <3>1. ~past.bad /\ a.ok
        BY <2>2, <2>5 DEF IInv, Typed
      <3>2. Due(brdSync)' = Due(b)
        BY <2>1 DEF Due
      <3>3. Asked(brdSync)' /\ Answered(brdSync)'
        BY <1>1, <1>5, <1>6, <1>7, <1>9, <2>1, <3>1, <3>2
           DEF IInv, Typed, Sound, Asked, Answered
      <3>4. Taken(brdSync)'
        BY <1>8, <1>9, <2>1, <3>1, <3>2 DEF Taken
      <3> QED BY <3>3, <3>4
    <2>6. past'.bad \in BOOLEAN
      BY <2>2
    <2> QED BY <1>3, <2>3, <2>4, <2>5, <2>6 DEF IInv, Sound
  <1>10. CASE Matches(a) /\ ~Scanning(b)
    <2>1. brdSync' = Advanced(b, a) /\ past' = Judged(brdSync', a)
      BY <1>10 DEF Completes, b
    <2>2. /\ brdSync' \in Syncs /\ brdSync'.rid = b.rid /\ brdSync'.completed = b.completed
          /\ brdSync'.end = b.end
          /\ brdSync'.beg = IF a.ok THEN NextBegin(b) ELSE b.beg
      BY <1>5, <2>1, ConstantsAssumption DEF Advanced, NextBegin, Syncs
    <2>3. /\ past' \in [bad : BOOLEAN, slipped : BOOLEAN, late : BOOLEAN]
          /\ past'.bad = (past.bad \/ ~a.ok)
          /\ past'.slipped = (brdSync'.beg # 0 /\ (past.slipped \/ (a.ok /\ past.bad)))
      <3>1. /\ past.bad \in BOOLEAN /\ past.slipped \in BOOLEAN /\ past.late \in BOOLEAN
            /\ a.ok \in BOOLEAN /\ brdSync.completed[a.kind] \in BOOLEAN
        BY <1>1 DEF IInv, Typed, Syncs
      <3> QED BY <2>1, <3>1 DEF Judged
    <2>4. Typed'
      BY <1>1, <1>2, <2>2, <2>3 DEF IInv, Typed
    <2>5. Placed(brdSync)'
      BY <1>1, <1>5, <2>2, ConstantsAssumption DEF IInv, Typed, Sound, Placed, NextBegin, Syncs
    <2>6. \A k \in Kinds : b.completed[k]
      BY <1>10 DEF Scanning
    <2>7. ASSUME ~past'.bad
          PROVE  Asked(brdSync)' /\ Answered(brdSync)' /\ Taken(brdSync)'
      <3>1. ~past.bad /\ a.ok
        BY <2>3, <2>7 DEF IInv, Typed
      <3>2. \A m \in requests' \cup answers' : m.rid # b.rid[m.kind]
        <4>1. \A m \in requests \cup answers :
                  m.kind \in Kinds /\ (m.rid = brdSync.rid[m.kind] => ~brdSync.completed[m.kind])
          BY <3>1 DEF IInv, Typed, Sound, Asked, Answered
        <4> QED BY <1>1, <1>5, <1>7, <1>10, <2>6, <3>1, <4>1
      <3>3. Asked(brdSync)' /\ Answered(brdSync)'
        BY <2>2, <3>2 DEF Asked, Answered
      <3>4. Taken(brdSync)'
        BY <2>2, <2>6 DEF Taken, Scanning
      <3> QED BY <3>3, <3>4
    <2>8. (Told(brdSync) \/ past.slipped)'
      <3>1. CASE brdSync'.beg = 0
        BY <3>1 DEF Told
      <3>2. CASE brdSync'.beg # 0 /\ (past.slipped \/ (a.ok /\ past.bad))
        BY <2>3, <3>2
      <3>3. CASE ~past.slipped /\ ~a.ok
        BY <1>2, <1>5, <2>2, <3>3 DEF IInv, Sound, Told
      <3>4. CASE brdSync'.beg # 0 /\ ~past.slipped /\ a.ok /\ ~past.bad
        <4>1. /\ b.end \in Nat /\ b.beg \in Nat /\ brdSync'.beg = b.end - Offset
              /\ b.end <= head /\ head \in Nat /\ Offset \in Nat
          BY <1>5, <2>2, <3>4, ConstantsAssumption DEF NextBegin, Syncs, IInv, Typed, Sound, Placed
        <4>2. ASSUME NEW n \in 1 .. brdSync'.beg - 1, NEW k \in Kinds
              PROVE  n \in told'[k]
          <5>1. CASE n < b.beg
            BY <1>2, <1>5, <3>4, <4>1, <5>1 DEF IInv, Sound, Told
          <5>2. CASE b.beg <= n
            <6>1. n \in Blocks
              <7>1. n \in Nat /\ n >= 1 /\ n <= head
                BY <4>1
              <7> QED BY <7>1, Numbers DEF IInv
            <6>2. n \in Due(b)
              BY <4>1, <5>2, <6>1 DEF Due
            <6> QED BY <1>8, <1>10, <2>6, <3>4, <6>2
          <5> QED BY <4>1, <5>1, <5>2
        <4> QED BY <4>2 DEF Told
      <3> QED BY <1>1, <3>1, <3>2, <3>3, <3>4 DEF IInv, Typed
    <2>9. past'.bad \in BOOLEAN
      BY <2>3
    <2> QED BY <1>3, <2>4, <2>5, <2>7, <2>8, <2>9 DEF IInv, Sound
  <1> QED BY <1>4, <1>9, <1>10

\* No reorganisation reaches what has been told for good, nor what is due.
LEMMA ReorganizeKeeps ==
    ASSUME IInv, NEW n \in Blocks, Reorganize(n)
    PROVE  IInv'
  <1>1. /\ n + Offset > head
        /\ told' = [k \in Kinds |-> {m \in told[k] : m < n}]
        /\ answers' = {[a EXCEPT !.blocks = {m \in @ : m < n}] : a \in answers}
        /\ UNCHANGED <<blockHeight, brdSync, requests, numbers, head, past>>
    BY DEF Reorganize
  <1>2. \A x \in answers' : \E a \in answers :
            /\ x = [a EXCEPT !.blocks = {m \in a.blocks : m < n}]
            /\ x.kind = a.kind /\ x.rid = a.rid /\ x.ok = a.ok
            /\ x.blocks = {m \in a.blocks : m < n} /\ x.blocks \subseteq Blocks
            /\ x \in [kind : Kinds, rid : Rids, ok : BOOLEAN, blocks : SUBSET Blocks]
    BY <1>1 DEF IInv, Typed
  <1>3. Typed'
    <2>1. told' \in [Kinds -> SUBSET Blocks]
      BY <1>1 DEF IInv, Typed
    <2> QED BY <1>1, <1>2, <2>1 DEF IInv, Typed
  <1>4. OnePerRid'
    <2>1. ASSUME NEW x \in answers', NEW y \in answers', x.rid = y.rid
          PROVE  x = y
      <3>1. PICK a \in answers : x = [a EXCEPT !.blocks = {m \in a.blocks : m < n}] /\ x.rid = a.rid
        BY <1>2
      <3>2. PICK b \in answers : y = [b EXCEPT !.blocks = {m \in b.blocks : m < n}] /\ y.rid = b.rid
        BY <1>2
      <3>3. a = b
        BY <2>1, <3>1, <3>2 DEF IInv, OnePerRid
      <3> QED BY <3>1, <3>2, <3>3
    <2>2. \A x \in answers' : \E a \in answers : x.rid = a.rid
      BY <1>2
    <2> QED BY <1>1, <2>1, <2>2 DEF IInv, OnePerRid
  <1>5. \A m \in Due(brdSync) : m < n
    BY <1>1, Numbers DEF Due, Blocks, IInv, Sound, Placed
  <1>6. Due(brdSync)' = Due(brdSync) /\ Scanning(brdSync)' = Scanning(brdSync)
    BY <1>1 DEF Due, Scanning
  <1>7. Answered(brdSync) => Answered(brdSync)'
    <2> SUFFICES ASSUME Answered(brdSync), NEW x \in answers', x.rid = brdSync.rid[x.kind]
                 PROVE  ~brdSync.completed[x.kind] /\ (x.ok => Due(brdSync) \subseteq x.blocks)
      BY <1>1, <1>6 DEF Answered
    <2> QED BY <1>2, <1>5 DEF Answered
  <1>8. Taken(brdSync) => Taken(brdSync)'
    BY <1>1, <1>5, <1>6 DEF Taken
  <1>9. Told(brdSync) => Told(brdSync)'
    <2> SUFFICES ASSUME Told(brdSync), NEW m \in 1 .. brdSync.beg - 1, NEW k \in Kinds
                 PROVE  m \in told'[k]
      BY <1>1 DEF Told
    <2>1. m < n
      BY <1>1, Numbers DEF Blocks, IInv, Sound, Placed
    <2> QED BY <1>1, <2>1 DEF Told
  <1> QED BY <1>1, <1>3, <1>4, <1>7, <1>8, <1>9 DEF IInv, Sound, Placed, Asked

LEMMA MineKeeps ==
    ASSUME IInv, Mine
    PROVE  IInv'
  <1>1. /\ head' = head + 1 /\ head < MaxHeight
        /\ UNCHANGED <<blockHeight, brdSync, requests, answers, numbers, told, past>>
    BY DEF Mine
  <1>2. Typed'
    BY <1>1, Numbers DEF IInv, Typed
  <1>3. Placed(brdSync)'
    BY <1>1, Numbers DEF IInv, Sound, Placed
  <1>4. Due(brdSync)' = Due(brdSync)
    BY <1>1 DEF Due
  <1> QED BY <1>1, <1>2, <1>3, <1>4
          DEF IInv, OnePerRid, Sound, Asked, Answered, Taken, Told, Scanning

\* A step of anything that the invariant does not mention.
LEMMA OthersKeep ==
    ASSUME IInv, blockHeight' \in 0 .. head, numbers' \subseteq 0 .. head,
           UNCHANGED <<brdSync, requests, answers, head, told, past>>
    PROVE  IInv'
  BY DEF IInv, Typed, OnePerRid, Sound, Placed, Asked, Answered, Taken, Told,
                            Scanning, Due

\* Messages are of scans, one for each id, and cover what is due.
THEOREM Invariance == Spec => []IInv
  <1>1. IInv /\ [Next]_vars => IInv'
    <2> SUFFICES ASSUME IInv, [Next]_vars PROVE IInv'
      OBVIOUS
    <2>1. CASE Connect
      BY <2>1, OthersKeep DEF Connect, service, IInv, Typed
    <2>2. CASE Disconnect
      BY <2>2, DisconnectKeeps
    <2>3. CASE SyncAPI
      BY <2>3, SyncAPIKeeps DEF SyncAPI, IInv, Typed
    <2>4. CASE Mine
      BY <2>4, MineKeeps
    <2>5. ASSUME NEW h \in 0 .. MaxHeight, SyncToDepth(h) PROVE IInv'
      BY <2>5, SyncToDepthKeeps
    <2>6. ASSUME NEW h \in 0 .. MaxHeight, AnnounceBlockNumber(h) PROVE IInv'
      BY <2>6, OthersKeep DEF AnnounceBlockNumber, IInv, Typed
    <2>7. ASSUME NEW a \in answers, Completes(a) PROVE IInv'
      BY <2>7, CompletesKeeps
    <2>8. ASSUME NEW r \in requests, Answers(r) PROVE IInv'
      BY <2>8, AnswersKeeps
    <2>9. ASSUME NEW b \in Blocks, Reorganize(b) PROVE IInv'
      BY <2>9, ReorganizeKeeps
    <2>10. CASE UNCHANGED vars
      BY <2>10, OthersKeep DEF vars, IInv, Typed
    <2> QED BY <2>1, <2>2, <2>3, <2>4, <2>5, <2>6, <2>7, <2>8, <2>9, <2>10 DEF Next
  <1> QED BY InitHolds, <1>1, PTL DEF Spec

\* The scans leave out a block whose items were not announced only where a scan slipped.
THEOREM MissesOnlyBySlip == Spec => []MissedOnlyBySlip
  <1>1. IInv => MissedOnlyBySlip
    BY DEF IInv, Sound, Told, MissedOnlyBySlip, NothingMissed
  <1> QED BY Invariance, <1>1, PTL

-----------------------------------------------------------------------------
\* What the owner was told is what the scan in progress, or the state, has come to.
Shows(b, st) == IF Scanning(b) /\ IsNotOngoing(b) THEN "SYNCING" ELSE st

\* No scan is in progress but while the manager is connected.
ShownInv ==
    /\ state \in {"CREATED", "CONNECTED", "DISCONNECTED"}
    /\ Scanning(brdSync) => state = "CONNECTED"
    /\ past.late \/ shown = Shows(brdSync, state)

LEMMA InitShows == Init => ShownInv
  BY DEF Init, ShownInv, Shows, Scanning, All

\* The end of a scan is shown, whether it completes or is ended.
LEMMA EndShows ==
    ASSUME shown = Shows(brdSync, state), Scanning(brdSync) => state = "CONNECTED"
    PROVE  EndShown = state
  BY DEF Shows, EndShown, Ended, Changed

LEMMA SyncAPIShows ==
    ASSUME ShownInv, NEW b, NEW s, ~Scanning(b) \/ (b = brdSync /\ s = shown),
           b \in Syncs, blockHeight \in Nat,
           past.late \/ s = Shows(b, state), Scanning(b) => state = "CONNECTED",
           past \in [bad : BOOLEAN, slipped : BOOLEAN, late : BOOLEAN],
           HandleSyncAPI(b, s), UNCHANGED state
    PROVE  ShownInv'
  <1>1. CASE brdSync' = b /\ shown' = s /\ UNCHANGED past
    BY <1>1 DEF ShownInv, Shows, Scanning, IsNotOngoing
  <1> DEFINE n == [b EXCEPT !.end = blockHeight]
  <1>2. n.completed = b.completed /\ n.beg = b.beg /\ n.end = blockHeight
    BY DEF Syncs
  <1>3. CASE ~Scanning(b) /\ brdSync' = n /\ shown' = s /\ UNCHANGED past
    BY <1>2, <1>3 DEF ShownInv, Shows, Scanning
  <1>4. CASE /\ state = "CONNECTED" /\ ~Scanning(b)
             /\ brdSync' = [n EXCEPT !.rid = CHOOSE f \in FreshRids(b) : TRUE,
                                     !.completed = All(FALSE)]
             /\ shown' = Begun(n, s)
             /\ past' = [past EXCEPT !.bad = FALSE, !.slipped = @ /\ n.beg # 0]
    <2>1. brdSync'.beg = n.beg /\ brdSync'.end = n.end /\ brdSync'.completed = All(FALSE)
      BY <1>4 DEF Syncs
    <2>2. IsNotOngoing(brdSync') = IsNotOngoing(n)
      BY <2>1 DEF IsNotOngoing
    <2>3. past'.late = past.late
      BY <1>4
    <2>4. Scanning(brdSync')
      BY <2>1 DEF Scanning, All, Kinds
    <2>5. past.late \/ s = "CONNECTED"
      BY <1>4 DEF Shows
    <2> QED BY <1>4, <2>2, <2>3, <2>4, <2>5 DEF ShownInv, Shows, Begun, Changed
  <1> QED BY <1>1, <1>3, <1>4 DEF HandleSyncAPI

LEMMA SyncToDepthShows ==
    ASSUME IInv, ShownInv, NEW h \in 0 .. MaxHeight, SyncToDepth(h)
    PROVE  ShownInv'
  <1> DEFINE b == Aborted(brdSync)
             c == [b EXCEPT !.beg = Least(@, Least(h, blockHeight))]
  <1>1. b \in Syncs /\ ~Scanning(b)
    BY DEF Aborted, IInv, Typed, Syncs, Scanning, All
  <1> HIDE DEF b
  <1>2. c \in Syncs /\ ~Scanning(c)
    BY <1>1, Numbers DEF Syncs, Least, IInv, Typed, Scanning
  <1> HIDE DEF c
  <1>3. past.late \/ EndShown = Shows(c, state)
    BY <1>2, EndShows DEF ShownInv, Shows
  <1>4. HandleSyncAPI(c, EndShown) /\ UNCHANGED state
    BY DEF SyncToDepth, b, c
  <1> QED BY <1>2, <1>3, <1>4, Numbers, SyncAPIShows DEF IInv, Typed

LEMMA CompletesShows ==
    ASSUME IInv, ShownInv, NEW a \in answers, Completes(a)
    PROVE  ShownInv'
  <1> DEFINE b == [brdSync EXCEPT !.completed[a.kind] = TRUE]
  <1>1. UNCHANGED state
    BY DEF Completes
  <1>2. CASE ~Matches(a)
    BY <1>1, <1>2 DEF Completes, ShownInv, Shows, Scanning, IsNotOngoing
  <1>3. /\ a.kind \in Kinds /\ b.beg = brdSync.beg /\ b.end = brdSync.end
        /\ \A k \in Kinds : brdSync.completed[k] => b.completed[k]
    BY DEF IInv, Typed, Syncs
  <1>4. IsNotOngoing(b) = IsNotOngoing(brdSync) /\ (Scanning(b) => Scanning(brdSync))
    BY <1>3 DEF IsNotOngoing, Scanning
  <1>5. CASE Matches(a) /\ Scanning(b)
    <2>1. brdSync' = b /\ shown' = shown /\ past'.late = past.late
      BY <1>5 DEF Completes, IInv, Typed
    <2> QED BY <1>1, <1>4, <1>5, <2>1 DEF ShownInv, Shows
  <1>6. CASE Matches(a) /\ ~Scanning(b)
    <2>1. /\ brdSync' = Advanced(b, a) /\ shown' = Ended(b, shown)
          /\ past'.late = (past.late \/ brdSync.completed[a.kind])
      BY <1>6 DEF Completes, Judged
    <2>2. ~Scanning(brdSync')
      BY <1>6, <2>1 DEF Advanced, Scanning
    <2>3. ASSUME ~past'.late
          PROVE  shown' = state
      <3>1. ~past.late /\ Scanning(brdSync)
        BY <1>3, <2>1, <2>3 DEF Scanning
      <3> QED BY <1>4, <2>1, <3>1 DEF ShownInv, Shows, Ended, Changed
    <2> QED BY <1>1, <2>2, <2>3 DEF ShownInv, Shows
  <1> QED BY <1>2, <1>5, <1>6

\* The owner is told of changes that follow one another until an answer is late.
THEOREM OwnerFollows == Spec => []TornOnlyByLateAnswer
  <1>1. IInv /\ ShownInv /\ [Next]_vars => ShownInv'
    <2> SUFFICES ASSUME IInv, ShownInv, [Next]_vars PROVE ShownInv'
      OBVIOUS
    <2>1. CASE Connect
      BY <2>1 DEF Connect, ShownInv, Shows, Scanning, Changed
    <2>2. CASE Disconnect
      <3>1. past'.late = past.late
        BY <2>2 DEF Disconnect, IInv, Typed
      <3>2. ~Scanning(brdSync')
        BY <2>2 DEF Disconnect, Scanning, All, IInv, Typed, Syncs
      <3>3. past.late \/ EndShown = "CONNECTED"
        BY <2>2, EndShows DEF ShownInv, Disconnect
      <3> QED BY <2>2, <3>1, <3>2, <3>3 DEF Disconnect, Changed, ShownInv, Shows
    <2>3. CASE SyncAPI
      BY <2>3, Numbers, SyncAPIShows DEF SyncAPI, IInv, Typed, ShownInv
    <2>4. ASSUME NEW h \in 0 .. MaxHeight, SyncToDepth(h) PROVE ShownInv'
      BY <2>4, SyncToDepthShows
    <2>5. ASSUME NEW a \in answers, Completes(a) PROVE ShownInv'
      BY <2>5, CompletesShows
    <2>6. CASE UNCHANGED <<state, brdSync, shown, past>>
      BY <2>6 DEF ShownInv, Shows, Scanning, IsNotOngoing
    <2> QED BY <2>1, <2>2, <2>3, <2>4, <2>5, <2>6
            DEF Next, vars, Mine, AnnounceBlockNumber, Answers, Reorganize
  <1>2. ShownInv => TornOnlyByLateAnswer
    BY DEF ShownInv, Shows, TornOnlyByLateAnswer
  <1> QED BY Invariance, InitShows, <1>1, <1>2, PTL DEF Spec
=============================================================================
