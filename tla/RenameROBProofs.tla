--------------------------- MODULE RenameROBProofs ---------------------------
(* Proofs about renaming, the ROB and commit: ownership of the physical     *)
(* registers, the order of the instructions in flight, and what the signals *)
(* between the stages say.                                                  *)
EXTENDS RenameROB, TLAPS

RNTypeOK ==
    /\ renameMap \in [ArchReg -> PhysReg]
    /\ freeList \in Seq(PhysReg)
    /\ historyBuffer \in Seq(RenameHistory)
    /\ freeingInProgress \in Seq(PhysReg)

(* The inductive invariant of the four variables of rename.                 *)
RNInv == RNTypeOK /\ Ownership /\ HistoryChain

(* What an instruction in the middle of rename looks like.                  *)
InstOK ==
    /\ seqNum \in Nat
    /\ inst # None => /\ inst.seqNum \in Nat
                      /\ inst.dest \in Seq(ArchReg)
                      /\ Len(inst.renamed) \in Nat

-----------------------------------------------------------------------------
(* The initial map and free list share out the physical registers.          *)
LEMMA RNInitial ==
    ASSUME RenameInit
    PROVE  RNInv
<1>1. RNTypeOK
  BY RenameAssumption DEF RenameInit, RNTypeOK
<1>e. /\ DOMAIN historyBuffer = {} /\ DOMAIN freeingInProgress = {}
  BY DEF RenameInit
<1>r. \A p \in PhysReg : ~Freeing(p) /\ ~Replaced(p)
  BY <1>e, Zenon DEF Freeing, Replaced
<1>m. \A p \in PhysReg : Free(p) <=> ~Mapped(p)
  <2>1. renameMap = InitMap /\ freeList = InitFree
    BY Zenon DEF RenameInit
  <2>2. \A p \in PhysReg : Mapped(p) <=> \E a \in ArchReg : InitMap[a] = p
    BY <2>1, Zenon DEF Mapped
  <2>3. \A p \in PhysReg :
            Free(p) <=> \E i \in DOMAIN InitFree : InitFree[i] = p
    BY <2>1, Zenon DEF Free
  <2> QED
    BY <2>2, <2>3, RenameAssumption, Zenon
<1>2. NoneLost /\ OnePlace
  BY <1>r, <1>m, Zenon DEF NoneLost, OnePlace
<1>3. Once
  BY <1>e, RenameAssumption, Zenon DEF RenameInit, Once
<1>4. HistoryChain
  BY <1>e, Zenon DEF HistoryChain
<1> QED
  BY <1>1, <1>2, <1>3, <1>4, Zenon DEF RNInv, Ownership

(* A step of the three stages keeps both parts of the invariant: only four  *)
(* of them touch the rename variables, and only three the instruction that  *)
(* is being renamed.                                                        *)
LEMMA OwnershipStep ==
    ASSUME RNInv, InstOK, [RRNext]_rvars
    PROVE  RNInv' /\ InstOK'
(* A step that leaves the rename variables alone keeps the invariant.       *)
<1>RNUnchanged. ASSUME RNInv, UNCHANGED rnvars
                PROVE  RNInv'
  BY <1>RNUnchanged DEF RNInv, RNTypeOK, Ownership, NoneLost, OnePlace, Once, HistoryChain,
         Mapped, Free, Freeing, Replaced, Replaces, IsNewest, NextEntry, rnvars
(* A destination that is not renamed only adds an entry without effect      *)
(* (UnifiedRenameMap::rename for miscellaneous registers).                  *)
<1>MiscDest. ASSUME RNInv, NEW s \in Nat, NEW a \in MiscReg, RenameDest(s, a)
             PROVE  RNInv'
  <2> USE <1>MiscDest
  <2> DEFINE n == Len(historyBuffer) + 1
             e == [instSeqNum |-> s, archReg |-> a, newPhysReg |-> renameMap[a],
                   prevPhysReg |-> renameMap[a]]
  <2> USE RenameAssumption
  <2>t. /\ RNTypeOK /\ a \in ArchReg /\ n \in Nat /\ n = Len(historyBuffer) + 1
        /\ e \in RenameHistory
    BY DEF RNInv, RNTypeOK, RenameHistory
  <2>h. historyBuffer' = Append(historyBuffer, e)
    BY Zenon DEF RenameDest, RenamedReg
  <2>m. /\ renameMap' = renameMap /\ freeList' = freeList
        /\ freeingInProgress' = freeingInProgress
    BY <2>t, Zenon DEF RenameDest, RenamedReg, RNTypeOK
  <2>d. /\ DOMAIN historyBuffer' = DOMAIN historyBuffer \cup {n}
        /\ DOMAIN historyBuffer = 1 .. n - 1
        /\ historyBuffer'[n] = e
        /\ \A i \in DOMAIN historyBuffer : historyBuffer'[i] = historyBuffer[i]
    BY <2>t, <2>h DEF RNTypeOK
  <2>1. RNTypeOK'
    BY <2>t, <2>h, <2>m DEF RNTypeOK
  <2>r. \A p \in PhysReg : /\ Replaced(p)' <=> Replaced(p)
                           /\ Mapped(p)' <=> Mapped(p)
                           /\ Free(p)' <=> Free(p)
                           /\ Freeing(p)' <=> Freeing(p)
    BY <2>d, <2>m DEF Replaced, Replaces, Mapped, Free, Freeing
  <2>2. NoneLost' /\ OnePlace'
    BY <2>r, Zenon DEF RNInv, Ownership, NoneLost, OnePlace
  <2>3. Once'
    BY <2>d, <2>m DEF RNInv, Ownership, Once, Replaces
  <2>4. HistoryChain'
    <3> SUFFICES ASSUME NEW i \in DOMAIN historyBuffer'
                 PROVE  /\ Replaces(historyBuffer[i])' <=>
                              historyBuffer'[i].archReg \notin MiscReg
                        /\ IsNewest(i)' => renameMap'[historyBuffer'[i].archReg]
                                              = historyBuffer'[i].newPhysReg
                        /\ \A j \in DOMAIN historyBuffer' : NextEntry(i, j)' =>
                              historyBuffer'[j].prevPhysReg
                                  = historyBuffer'[i].newPhysReg
      BY Zenon DEF HistoryChain
    <3>1. CASE i = n
      BY <3>1, <2>d, <2>m DEF Replaces, IsNewest, NextEntry
    <3>2. CASE i \in DOMAIN historyBuffer
      <4>1. Replaces(historyBuffer[i])' <=>
              historyBuffer'[i].archReg \notin MiscReg
        BY <3>2, <2>d, Zenon DEF RNInv, HistoryChain, Replaces
      <4>2. IsNewest(i)' => IsNewest(i)
        BY <3>2, <2>d, Zenon DEF IsNewest
      <4>3. ASSUME NEW j \in DOMAIN historyBuffer', NextEntry(i, j)'
            PROVE  historyBuffer'[j].prevPhysReg = historyBuffer'[i].newPhysReg
        <5>1. CASE j \in DOMAIN historyBuffer
          BY <5>1, <4>3, <3>2, <2>d DEF NextEntry, RNInv, HistoryChain
        <5>2. CASE j = n
          <6>1. IsNewest(i)
            BY <5>2, <4>3, <3>2, <2>d DEF NextEntry, IsNewest
          <6>2. renameMap[historyBuffer[i].archReg] = historyBuffer[i].newPhysReg
            BY <6>1, <3>2, Zenon DEF RNInv, HistoryChain
          <6>3. historyBuffer[i].archReg = a
            BY <5>2, <4>3, <3>2, <2>d DEF NextEntry
          <6> QED
            BY <6>2, <6>3, <5>2, <3>2, <2>d
        <5> QED
          BY <5>1, <5>2, <4>3, <2>d, Zenon
      <4> QED
        BY <4>1, <4>2, <4>3, <3>2, <2>d, <2>m, Zenon DEF RNInv, HistoryChain
    <3> QED
      BY <3>1, <3>2, <2>d, Zenon
  <2> QED
    BY <2>1, <2>2, <2>3, <2>4, Zenon DEF RNInv, Ownership
(* A renamed destination takes the first free register; the register it     *)
(* replaces moves to the new history entry (renameDestRegs).                *)
<1>RealDest. ASSUME RNInv, NEW s \in Nat, NEW a \in ArchReg \ MiscReg, RenameDest(s, a)
             PROVE  RNInv'
  <2> USE <1>RealDest
  <2> DEFINE n == Len(historyBuffer) + 1
             q == Head(freeList)
             o == renameMap[a]
             e == [instSeqNum |-> s, archReg |-> a, newPhysReg |-> q,
                   prevPhysReg |-> o]
  <2>t. RNTypeOK /\ freeList # <<>> /\ n \in Nat
    BY DEF RNInv, RNTypeOK, RenameDest
  <2>f. /\ q \in PhysReg /\ o \in PhysReg /\ q = freeList[1]
        /\ 1 \in DOMAIN freeList
        /\ Tail(freeList) \in Seq(PhysReg)
        /\ DOMAIN Tail(freeList) = 1 .. Len(freeList) - 1
        /\ \A i \in 1 .. Len(freeList) - 1 :
              i + 1 \in DOMAIN freeList /\ Tail(freeList)[i] = freeList[i + 1]
        /\ \A i \in DOMAIN freeList : i # 1 =>
              i - 1 \in 1 .. Len(freeList) - 1
    BY <2>t DEF RNTypeOK
  <2>e. e \in RenameHistory
    BY <2>f, Zenon DEF RenameHistory
  <2>h. historyBuffer' = Append(historyBuffer, e)
    BY Zenon DEF RenameDest, RenamedReg
  <2>m. /\ renameMap' = [renameMap EXCEPT ![a] = q]
        /\ freeList' = Tail(freeList)
        /\ freeingInProgress' = freeingInProgress
    BY Zenon DEF RenameDest, RenamedReg
  <2>d. /\ DOMAIN historyBuffer' = DOMAIN historyBuffer \cup {n}
        /\ DOMAIN historyBuffer = 1 .. n - 1
        /\ historyBuffer'[n] = e
        /\ \A i \in DOMAIN historyBuffer : historyBuffer'[i] = historyBuffer[i]
    BY <2>t, <2>h DEF RNTypeOK
  <2>x. \A b \in ArchReg : renameMap'[b] = IF b = a THEN q ELSE renameMap[b]
    BY <2>t, <2>m, Zenon DEF RNTypeOK
  <2>1. RNTypeOK'
    BY <2>t, <2>f, <2>e, <2>h, <2>m DEF RNTypeOK
  <2>p. Free(q) /\ Mapped(o)
    BY <2>f, Zenon DEF Free, Mapped
  <2>q. q # o /\ ~Mapped(q) /\ ~Replaced(q) /\ ~Freeing(q)
        /\ ~Free(o) /\ ~Replaced(o) /\ ~Freeing(o)
    BY <2>p, <2>f, Zenon DEF RNInv, Ownership, OnePlace
  <2>o. Once
    BY Zenon DEF RNInv, Ownership
  <2> HIDE DEF q, o
  <2>r1. \A p \in PhysReg : Mapped(p)' <=> p = q \/ (Mapped(p) /\ p # o)
    BY <2>x, <2>o, <2>q, Zenon DEF Mapped, Once, o
  <2>r2. \A p \in PhysReg : Free(p)' <=> Free(p) /\ p # q
    <3> SUFFICES ASSUME NEW p \in PhysReg PROVE Free(p)' <=> Free(p) /\ p # q
      BY Zenon
    <3>1. ASSUME Free(p)' PROVE Free(p) /\ p # q
      <4>1. PICK i \in 1 .. Len(freeList) - 1 : freeList[i + 1] = p
        BY <3>1, <2>m, <2>f, Zenon DEF Free
      <4>2. i + 1 # 1 /\ i + 1 \in DOMAIN freeList
        BY <2>f
      <4> QED
        BY <4>1, <4>2, <2>f, <2>o, Zenon DEF Free, Once
    <3>2. ASSUME Free(p), p # q PROVE Free(p)'
      <4>1. PICK i \in DOMAIN freeList : freeList[i] = p
        BY <3>2, Zenon DEF Free
      <4>2. i # 1 /\ i - 1 \in 1 .. Len(freeList) - 1 /\ (i - 1) + 1 = i
        BY <4>1, <3>2, <2>f, <2>t DEF RNTypeOK
      <4>3. Tail(freeList)[i - 1] = p
        BY <4>1, <4>2, <2>f, Zenon
      <4> QED
        BY <4>2, <4>3, <2>m, <2>f, Zenon DEF Free
    <3> QED
      BY <3>1, <3>2, Zenon
  <2>r3. \A p \in PhysReg : Freeing(p)' <=> Freeing(p)
    BY <2>m, Zenon DEF Freeing
  <2>r4. \A p \in PhysReg : Replaced(p)' <=> Replaced(p) \/ p = o
    BY <2>d, <2>q DEF Replaced, Replaces
  <2>2. NoneLost' /\ OnePlace'
    BY <2>r1, <2>r2, <2>r3, <2>r4, <2>q, <2>p, Zenon DEF RNInv, Ownership, NoneLost, OnePlace
  <2>3. Once'
    <3>1. \A b, c \in ArchReg : renameMap'[b] = renameMap'[c] => b = c
      BY <2>x, <2>o, <2>q, Zenon DEF Once, Mapped
    <3>2. \A i, j \in DOMAIN freeList' : freeList'[i] = freeList'[j] => i = j
      <4> SUFFICES ASSUME NEW i \in DOMAIN freeList', NEW j \in DOMAIN freeList',
                          freeList'[i] = freeList'[j]
                   PROVE  i = j
        BY Zenon
      <4>1. i \in 1 .. Len(freeList) - 1 /\ j \in 1 .. Len(freeList) - 1
        BY <2>m, <2>f, Zenon
      <4>2. freeList[i + 1] = freeList[j + 1]
        BY <4>1, <2>m, <2>f, Zenon
      <4>3. i + 1 = j + 1
        BY <4>1, <4>2, <2>f, <2>o, Zenon DEF Once
      <4> QED
        BY <4>1, <4>3
    <3>3. \A i, j \in DOMAIN historyBuffer' :
              /\ Replaces(historyBuffer'[i])
              /\ Replaces(historyBuffer'[j])
              /\ historyBuffer'[i].prevPhysReg = historyBuffer'[j].prevPhysReg
              => i = j
      BY <2>d, <2>o, <2>q DEF Once, Replaced, Replaces
    <3> QED
      BY <3>1, <3>2, <3>3, <2>m, <2>o, Zenon DEF Once, Replaces
  <2>4. HistoryChain'
    <3> SUFFICES ASSUME NEW i \in DOMAIN historyBuffer'
                 PROVE  /\ Replaces(historyBuffer[i])' <=>
                              historyBuffer'[i].archReg \notin MiscReg
                        /\ IsNewest(i)' => renameMap'[historyBuffer'[i].archReg]
                                              = historyBuffer'[i].newPhysReg
                        /\ \A j \in DOMAIN historyBuffer' : NextEntry(i, j)' =>
                              historyBuffer'[j].prevPhysReg
                                  = historyBuffer'[i].newPhysReg
      BY Zenon DEF HistoryChain
    <3>1. CASE i = n
      BY <3>1, <2>d, <2>x, <2>q DEF Replaces, IsNewest, NextEntry
    <3>2. CASE i \in DOMAIN historyBuffer
      <4>1. Replaces(historyBuffer[i])' <=>
              historyBuffer'[i].archReg \notin MiscReg
        BY <3>2, <2>d, Zenon DEF RNInv, HistoryChain, Replaces
      <4>2. IsNewest(i)' => IsNewest(i) /\ historyBuffer[i].archReg # a
        BY <3>2, <2>d DEF IsNewest
      <4>a. historyBuffer[i].archReg \in ArchReg
        <5>1. historyBuffer[i] \in RenameHistory
          BY <3>2, <2>t, <2>d DEF RNTypeOK
        <5> QED
          BY <5>1, Zenon DEF RenameHistory
      <4>3. ASSUME NEW j \in DOMAIN historyBuffer', NextEntry(i, j)'
            PROVE  historyBuffer'[j].prevPhysReg = historyBuffer'[i].newPhysReg
        <5>1. CASE j \in DOMAIN historyBuffer
          BY <5>1, <4>3, <3>2, <2>d DEF NextEntry, RNInv, HistoryChain
        <5>2. CASE j = n
          <6>1. IsNewest(i)
            BY <5>2, <4>3, <3>2, <2>d DEF NextEntry, IsNewest
          <6>2. renameMap[historyBuffer[i].archReg] = historyBuffer[i].newPhysReg
            BY <6>1, <3>2, Zenon DEF RNInv, HistoryChain
          <6>3. historyBuffer[i].archReg = a
            BY <5>2, <4>3, <3>2, <2>d DEF NextEntry
          <6> QED
            BY <6>2, <6>3, <5>2, <3>2, <2>d DEF o
        <5> QED
          BY <5>1, <5>2, <4>3, <2>d, Zenon
      <4>4. ASSUME IsNewest(i)'
            PROVE  renameMap'[historyBuffer'[i].archReg]
                      = historyBuffer'[i].newPhysReg
        <5>1. IsNewest(i) /\ historyBuffer[i].archReg # a
          BY <4>2, <4>4, Zenon
        <5>2. renameMap[historyBuffer[i].archReg] = historyBuffer[i].newPhysReg
          BY <5>1, <3>2, Zenon DEF RNInv, HistoryChain
        <5>3. historyBuffer'[i] = historyBuffer[i]
          BY <3>2, <2>d, Zenon
        <5> QED
          BY <5>1, <5>2, <5>3, <4>a, <2>x, Zenon
      <4> QED
        BY <4>1, <4>3, <4>4, Zenon
    <3> QED
      BY <3>1, <3>2, <2>d, Zenon
  <2> QED
    BY <2>1, <2>2, <2>3, <2>4, Zenon DEF RNInv, Ownership
(* Undoing the newest entry (doSquash) gives the map the register it had,   *)
(* and the register of the squashed instruction waits to be freed.          *)
<1>Undo. ASSUME RNInv, UndoNewest
         PROVE  RNInv'
  <2> USE <1>Undo
  <2> DEFINE n == Len(historyBuffer)
             a == Newest.archReg
             q == Newest.newPhysReg
             o == Newest.prevPhysReg
  <2>t. /\ RNTypeOK /\ Once /\ HistoryChain
        /\ n \in Nat \ {0} /\ n \in DOMAIN historyBuffer
        /\ DOMAIN historyBuffer = 1 .. n
    BY DEF RNInv, RNTypeOK, UndoNewest, Ownership
  <2>e. Newest \in RenameHistory
    BY <2>t DEF RNTypeOK, Newest
  <2>f. a \in ArchReg /\ q \in PhysReg /\ o \in PhysReg
    BY <2>e, Zenon DEF RenameHistory
  <2>h. historyBuffer' = SubSeq(historyBuffer, 1, n - 1) /\ freeList' = freeList
    BY Zenon DEF UndoNewest
  <2>d. /\ historyBuffer' \in Seq(RenameHistory)
        /\ DOMAIN historyBuffer' = 1 .. n - 1
        /\ \A i \in 1 .. n - 1 : i \in DOMAIN historyBuffer
                                 /\ historyBuffer'[i] = historyBuffer[i]
    <3>1. historyBuffer \in Seq(RenameHistory) /\ n - 1 \in Nat
      BY <2>t DEF RNTypeOK
    <3> QED
      BY <3>1, <2>t, <2>h
  <2>w. renameMap[a] = q
    <3>1. IsNewest(n)
      BY <2>t DEF IsNewest
    <3> QED
      BY <3>1, <2>t, Zenon DEF HistoryChain, Newest
  <2>n. historyBuffer[n] = Newest
    BY Zenon DEF Newest
  <2>x. \A b \in ArchReg : renameMap'[b] = IF b = a THEN o ELSE renameMap[b]
    <3>1. CASE q # o
      BY <3>1, <2>t, <2>f, Zenon DEF RNTypeOK, UndoNewest
    <3>2. CASE q = o
      BY <3>2, <2>w, Zenon DEF UndoNewest
    <3> QED
      BY <3>1, <3>2, Zenon
  <2>1. RNTypeOK'
    <3>1. renameMap' \in [ArchReg -> PhysReg] /\ freeingInProgress' \in Seq(PhysReg)
      <4>1. CASE q # o
        <5>1. /\ renameMap' = [renameMap EXCEPT ![a] = o]
              /\ freeingInProgress' = Append(freeingInProgress, q)
          BY <4>1, Zenon DEF UndoNewest
        <5> HIDE DEF a, q, o
        <5>2. renameMap' \in [ArchReg -> PhysReg]
          BY <5>1, <2>t, <2>f, Zenon DEF RNTypeOK
        <5>3. freeingInProgress' \in Seq(PhysReg)
          BY <5>1, <2>t, <2>f DEF RNTypeOK
        <5> QED
          BY <5>2, <5>3, Zenon
      <4>2. CASE q = o
        BY <4>2, <2>t, Zenon DEF UndoNewest, RNTypeOK
      <4> QED
        BY <4>1, <4>2, Zenon
    <3> QED
      BY <3>1, <2>d, <2>h, <2>t, Zenon DEF RNTypeOK
  <2>4. HistoryChain'
    <3> SUFFICES ASSUME NEW i \in DOMAIN historyBuffer'
                 PROVE  /\ Replaces(historyBuffer[i])' <=>
                              historyBuffer'[i].archReg \notin MiscReg
                        /\ IsNewest(i)' => renameMap'[historyBuffer'[i].archReg]
                                              = historyBuffer'[i].newPhysReg
                        /\ \A j \in DOMAIN historyBuffer' : NextEntry(i, j)' =>
                              historyBuffer'[j].prevPhysReg
                                  = historyBuffer'[i].newPhysReg
      BY Zenon DEF HistoryChain
    <3>i. i \in 1 .. n - 1 /\ i \in DOMAIN historyBuffer
          /\ historyBuffer'[i] = historyBuffer[i]
      BY <2>d, Zenon
    <3>a. historyBuffer[i].archReg \in ArchReg
      <4>1. historyBuffer[i] \in RenameHistory
        BY <3>i, <2>t DEF RNTypeOK
      <4> QED
        BY <4>1, Zenon DEF RenameHistory
    <3>1. Replaces(historyBuffer[i])' <=> historyBuffer'[i].archReg \notin MiscReg
      BY <3>i, <2>t, Zenon DEF HistoryChain, Replaces
    <3>2. ASSUME IsNewest(i)'
          PROVE  renameMap'[historyBuffer'[i].archReg]
                      = historyBuffer'[i].newPhysReg
      <4>1. \A j \in 1 .. n - 1 :
              j > i => historyBuffer[j].archReg # historyBuffer[i].archReg
        BY <3>2, <3>i, <2>d, Zenon DEF IsNewest
      <4>2. CASE historyBuffer[i].archReg = a
        <5>1. NextEntry(i, n)
          BY <4>1, <4>2, <3>i, <2>t, <2>n DEF NextEntry
        <5>2. o = historyBuffer[i].newPhysReg
          BY <5>1, <3>i, <2>t, <2>n, Zenon DEF HistoryChain
        <5> QED
          BY <5>2, <4>2, <3>i, <2>x, <2>f, Zenon
      <4>3. CASE historyBuffer[i].archReg # a
        <5>1. \A j \in DOMAIN historyBuffer : j = n \/ j \in 1 .. n - 1
          BY <2>t
        <5>2. IsNewest(i)
          BY <5>1, <4>1, <4>3, <2>n, Zenon DEF IsNewest
        <5> QED
          BY <5>2, <4>3, <3>i, <3>a, <2>x, <2>t, Zenon DEF HistoryChain
      <4> QED
        BY <4>2, <4>3, Zenon
    <3>3. ASSUME NEW j \in DOMAIN historyBuffer', NextEntry(i, j)'
          PROVE  historyBuffer'[j].prevPhysReg = historyBuffer'[i].newPhysReg
      <4>1. j \in 1 .. n - 1 /\ j \in DOMAIN historyBuffer
            /\ historyBuffer'[j] = historyBuffer[j]
        BY <2>d, Zenon
      <4>2. \A k \in DOMAIN historyBuffer : k < j => k \in 1 .. n - 1
        BY <4>1, <2>t
      <4>3. NextEntry(i, j)
        BY <3>3, <4>1, <4>2, <3>i, <2>d, Zenon DEF NextEntry
      <4> QED
        BY <4>3, <4>1, <3>i, <2>t, Zenon DEF HistoryChain
    <3> QED
      BY <3>1, <3>2, <3>3, Zenon
  <2>c. \A i \in DOMAIN historyBuffer : i = n \/ i \in 1 .. n - 1
    BY <2>t
  <2>g. Mapped(q)
    BY <2>w, <2>f, Zenon DEF Mapped
  <2>5. CASE q = o
    <3>1. renameMap' = renameMap /\ freeingInProgress' = freeingInProgress
      BY <2>5, Zenon DEF UndoNewest
    <3>2. \A p \in PhysReg : /\ Replaced(p)' <=> Replaced(p)
                             /\ Mapped(p)' <=> Mapped(p)
                             /\ Free(p)' <=> Free(p)
                             /\ Freeing(p)' <=> Freeing(p)
      BY <3>1, <2>5, <2>c, <2>d, <2>h, <2>n, Zenon
         DEF Replaced, Replaces, Mapped, Free, Freeing
    <3>3. NoneLost' /\ OnePlace'
      BY <3>2, Zenon DEF RNInv, Ownership, NoneLost, OnePlace
    <3>4. Once'
      BY <3>1, <2>d, <2>h, <2>t, SMTT(20) DEF Once, Replaces
    <3> QED
      BY <3>3, <3>4, <2>1, <2>4, Zenon DEF RNInv, Ownership
  <2>6. CASE q # o
    <3> HIDE DEF q, o, a, n
    <3>o. Replaced(o)
      BY <2>6, <2>t, <2>n, Zenon DEF Replaced, Replaces, q, o
    <3>q. /\ ~Free(q) /\ ~Replaced(q) /\ ~Freeing(q)
          /\ ~Free(o) /\ ~Mapped(o) /\ ~Freeing(o)
      BY <3>o, <2>g, <2>f, Zenon DEF RNInv, Ownership, OnePlace
    <3>f. freeingInProgress' = Append(freeingInProgress, q)
      BY <2>6, Zenon DEF UndoNewest, q, o
    <3>k. LET m == Len(freeingInProgress)
          IN  /\ m \in Nat /\ DOMAIN freeingInProgress = 1 .. m
              /\ DOMAIN freeingInProgress' = 1 .. m + 1
              /\ freeingInProgress'[m + 1] = q
              /\ \A i \in 1 .. m : freeingInProgress'[i] = freeingInProgress[i]
      BY <3>f, <2>t, <2>f DEF RNTypeOK
    <3>r1. \A p \in PhysReg : Mapped(p)' <=> p = o \/ (Mapped(p) /\ p # q)
      BY <2>x, <2>t, <2>w, <2>f, <3>q, Zenon DEF Mapped, Once
    <3>r2. \A p \in PhysReg : Free(p)' <=> Free(p)
      BY <2>h, Zenon DEF Free
    <3>r3. \A p \in PhysReg : Freeing(p)' <=> Freeing(p) \/ p = q
      BY <3>k DEF Freeing
    <3>r4. \A p \in PhysReg : Replaced(p)' <=> Replaced(p) /\ p # o
      <4> SUFFICES ASSUME NEW p \in PhysReg
                   PROVE  Replaced(p)' <=> Replaced(p) /\ p # o
        BY Zenon
      <4>n. Replaces(historyBuffer[n]) /\ historyBuffer[n].prevPhysReg = o
        BY <2>n, <2>6, Zenon DEF Replaces, q, o
      <4>1. ASSUME Replaced(p)' PROVE Replaced(p) /\ p # o
        <5>1. PICK i \in 1 .. n - 1 : /\ Replaces(historyBuffer[i])
                                      /\ historyBuffer[i].prevPhysReg = p
          BY <4>1, <2>d, Zenon DEF Replaced, Replaces
        <5>2. i # n /\ i \in DOMAIN historyBuffer
          BY <2>t
        <5> QED
          BY <5>1, <5>2, <4>n, <2>t, Zenon DEF Replaced, Once
      <4>2. ASSUME Replaced(p), p # o PROVE Replaced(p)'
        <5>1. PICK i \in DOMAIN historyBuffer : /\ Replaces(historyBuffer[i])
                                                /\ historyBuffer[i].prevPhysReg = p
          BY <4>2, Zenon DEF Replaced
        <5>2. i \in 1 .. n - 1
          BY <5>1, <4>2, <4>n, <2>c, Zenon
        <5> QED
          BY <5>1, <5>2, <2>d, Zenon DEF Replaced, Replaces
      <4> QED
        BY <4>1, <4>2, Zenon
    <3>3. NoneLost' /\ OnePlace'
      BY <3>r1, <3>r2, <3>r3, <3>r4, <3>q, <3>o, <2>g, <2>6, Zenon
         DEF RNInv, Ownership, NoneLost, OnePlace
    <3>4. Once'
      <4>1. \A b, c \in ArchReg : renameMap'[b] = renameMap'[c] => b = c
        BY <2>x, <2>t, <3>q, Zenon DEF Once, Mapped
      <4>2. \A i, j \in DOMAIN freeingInProgress' :
              freeingInProgress'[i] = freeingInProgress'[j] => i = j
        BY <3>k, <3>q, <2>t DEF Once, Freeing
      <4>3. \A i, j \in DOMAIN historyBuffer' :
              /\ Replaces(historyBuffer'[i])
              /\ Replaces(historyBuffer'[j])
              /\ historyBuffer'[i].prevPhysReg = historyBuffer'[j].prevPhysReg
              => i = j
        BY <2>d, <2>t, Zenon DEF Once, Replaces
      <4>4. \A i, j \in DOMAIN freeList' : freeList'[i] = freeList'[j] => i = j
        BY <2>h, <2>t, Zenon DEF Once
      <4> QED
        BY <4>1, <4>2, <4>3, <4>4, Zenon DEF Once, Replaces
    <3> QED
      BY <3>3, <3>4, <2>1, <2>4, Zenon DEF RNInv, Ownership
  <2> QED
    BY <2>5, <2>6, Zenon
(* Removing the oldest entry (removeFromHistory) frees what it replaced.    *)
<1>Remove. ASSUME RNInv, FreeOldest
           PROVE  RNInv'
  <2> USE <1>Remove
  <2> DEFINE n == Len(historyBuffer)
             o == Oldest.prevPhysReg
  <2>t. /\ RNTypeOK /\ Once /\ HistoryChain
        /\ n \in Nat \ {0} /\ 1 \in DOMAIN historyBuffer
        /\ DOMAIN historyBuffer = 1 .. n
        /\ historyBuffer[1] = Oldest
    BY DEF RNInv, RNTypeOK, FreeOldest, Ownership, Oldest
  <2>e. Oldest \in RenameHistory
    BY <2>t DEF RNTypeOK
  <2>f. o \in PhysReg
    BY <2>e, Zenon DEF RenameHistory
  <2>h. /\ historyBuffer' = Tail(historyBuffer) /\ renameMap' = renameMap
        /\ freeingInProgress' = freeingInProgress
    BY Zenon DEF FreeOldest
  <2>d. /\ historyBuffer' \in Seq(RenameHistory)
        /\ DOMAIN historyBuffer' = 1 .. n - 1
        /\ \A i \in 1 .. n - 1 : i + 1 \in DOMAIN historyBuffer /\ i + 1 # 1
                                 /\ historyBuffer'[i] = historyBuffer[i + 1]
    BY <2>t, <2>h DEF RNTypeOK
  <2>s. \A i \in DOMAIN historyBuffer :
          i # 1 => i - 1 \in DOMAIN historyBuffer'
                   /\ historyBuffer'[i - 1] = historyBuffer[i]
    <3> SUFFICES ASSUME NEW i \in DOMAIN historyBuffer, i # 1
                 PROVE  i - 1 \in DOMAIN historyBuffer'
                        /\ historyBuffer'[i - 1] = historyBuffer[i]
      BY Zenon
    <3>1. i - 1 \in 1 .. n - 1 /\ (i - 1) + 1 = i
      BY <2>t
    <3> QED
      BY <3>1, <2>d, Zenon
  <2>1. RNTypeOK'
    BY <2>t, <2>d, <2>h, <2>f, SMTT(20) DEF FreeOldest, RNTypeOK
  <2>4. HistoryChain'
    <3> SUFFICES ASSUME NEW i \in DOMAIN historyBuffer'
                 PROVE  /\ Replaces(historyBuffer[i])' <=>
                              historyBuffer'[i].archReg \notin MiscReg
                        /\ IsNewest(i)' => renameMap'[historyBuffer'[i].archReg]
                                              = historyBuffer'[i].newPhysReg
                        /\ \A j \in DOMAIN historyBuffer' : NextEntry(i, j)' =>
                              historyBuffer'[j].prevPhysReg
                                  = historyBuffer'[i].newPhysReg
      BY Zenon DEF HistoryChain
    <3>i. i \in 1 .. n - 1 /\ i + 1 \in DOMAIN historyBuffer
          /\ historyBuffer'[i] = historyBuffer[i + 1]
      BY <2>d, Zenon
    <3>1. Replaces(historyBuffer[i])' <=> historyBuffer'[i].archReg \notin MiscReg
      BY <3>i, <2>t, Zenon DEF HistoryChain, Replaces
    <3>2. IsNewest(i)' => IsNewest(i + 1)
      <4> SUFFICES ASSUME IsNewest(i)', NEW j \in DOMAIN historyBuffer, j > i + 1
                   PROVE  historyBuffer[j].archReg # historyBuffer[i + 1].archReg
        BY Zenon DEF IsNewest
      <4>1. j # 1 /\ j - 1 > i
        BY <3>i, <2>t
      <4> QED
        BY <4>1, <2>s, <3>i, Zenon DEF IsNewest
    <3>3. ASSUME NEW j \in DOMAIN historyBuffer', NextEntry(i, j)'
          PROVE  historyBuffer'[j].prevPhysReg = historyBuffer'[i].newPhysReg
      <4>1. /\ j \in 1 .. n - 1 /\ j + 1 \in DOMAIN historyBuffer
            /\ historyBuffer'[j] = historyBuffer[j + 1]
        BY <2>d, Zenon
      <4>2. j > i /\ historyBuffer[j + 1].archReg = historyBuffer[i + 1].archReg
        BY <3>3, <3>i, <4>1, Zenon DEF NextEntry
      <4>3. ASSUME NEW k \in DOMAIN historyBuffer, i + 1 < k, k < j + 1
            PROVE  historyBuffer[k].archReg # historyBuffer[i + 1].archReg
        <5>1. k # 1 /\ i < k - 1 /\ k - 1 < j
          BY <4>3, <4>1, <3>i, <2>t
        <5> QED
          BY <5>1, <2>s, <3>3, <3>i, Zenon DEF NextEntry
      <4>4. j + 1 > i + 1
        BY <4>1, <4>2, <3>i
      <4>5. NextEntry(i + 1, j + 1)
        BY <4>2, <4>3, <4>4, Zenon DEF NextEntry
      <4> QED
        BY <4>5, <4>1, <3>i, <2>t DEF HistoryChain
    <3> QED
      BY <3>1, <3>2, <3>3, <3>i, <2>h, <2>t, Zenon DEF HistoryChain
  <2>o. \A i, j \in DOMAIN historyBuffer' :
          /\ Replaces(historyBuffer'[i])
          /\ Replaces(historyBuffer'[j])
          /\ historyBuffer'[i].prevPhysReg = historyBuffer'[j].prevPhysReg
          => i = j
    <3> SUFFICES ASSUME NEW i \in 1 .. n - 1, NEW j \in 1 .. n - 1,
                        Replaces(historyBuffer[i + 1]),
                        Replaces(historyBuffer[j + 1]),
                        historyBuffer[i + 1].prevPhysReg
                          = historyBuffer[j + 1].prevPhysReg
                 PROVE  i = j
      BY <2>d, Zenon
    <3>1. i + 1 = j + 1
      BY <2>d, <2>t, Zenon DEF Once
    <3> QED
      BY <3>1
  <2>5. CASE ~Replaces(Oldest)
    <3>1. freeList' = freeList
      BY <2>5, Zenon DEF FreeOldest, Replaces
    <3>2. \A p \in PhysReg : Replaced(p)' <=> Replaced(p)
      <4> SUFFICES ASSUME NEW p \in PhysReg
                   PROVE  Replaced(p)' <=> Replaced(p)
        BY Zenon
      <4>1. ASSUME Replaced(p)' PROVE Replaced(p)
        <5>1. PICK i \in 1 .. n - 1 : /\ Replaces(historyBuffer[i + 1])
                                      /\ historyBuffer[i + 1].prevPhysReg = p
          BY <4>1, <2>d, Zenon DEF Replaced, Replaces
        <5>2. i + 1 \in DOMAIN historyBuffer
          BY <2>d, Zenon
        <5> QED
          BY <5>1, <5>2, Zenon DEF Replaced
      <4>2. ASSUME Replaced(p) PROVE Replaced(p)'
        <5>1. PICK i \in DOMAIN historyBuffer : /\ Replaces(historyBuffer[i])
                                                /\ historyBuffer[i].prevPhysReg = p
          BY <4>2, Zenon DEF Replaced
        <5>2. i # 1
          BY <5>1, <2>5, <2>t, Zenon
        <5> QED
          BY <5>1, <5>2, <2>s, Zenon DEF Replaced, Replaces
      <4> QED
        BY <4>1, <4>2, Zenon
    <3>3. \A p \in PhysReg : /\ Mapped(p)' <=> Mapped(p)
                             /\ Free(p)' <=> Free(p)
                             /\ Freeing(p)' <=> Freeing(p)
      BY <3>1, <2>h, Zenon DEF Mapped, Free, Freeing
    <3>4. NoneLost' /\ OnePlace'
      BY <3>2, <3>3, Zenon DEF RNInv, Ownership, NoneLost, OnePlace
    <3>5. Once'
      BY <3>1, <2>o, <2>h, <2>t, Zenon DEF Once, Replaces
    <3> QED
      BY <3>4, <3>5, <2>1, <2>4, Zenon DEF RNInv, Ownership
  <2>6. CASE Replaces(Oldest)
    <3>o. Replaced(o)
      BY <2>6, <2>t, Zenon DEF Replaced
    <3>q. ~Free(o) /\ ~Mapped(o) /\ ~Freeing(o)
      BY <3>o, <2>f, Zenon DEF RNInv, Ownership, OnePlace
    <3>f. freeList' = Append(freeList, o)
      BY <2>6, Zenon DEF FreeOldest, Replaces
    <3>k. LET m == Len(freeList)
          IN  /\ m \in Nat /\ DOMAIN freeList = 1 .. m
              /\ DOMAIN freeList' = 1 .. m + 1
              /\ freeList'[m + 1] = o
              /\ \A i \in 1 .. m : freeList'[i] = freeList[i]
      BY <3>f, <2>t, <2>f DEF RNTypeOK
    <3>r1. \A p \in PhysReg : Free(p)' <=> Free(p) \/ p = o
      BY <3>k DEF Free
    <3>r2. \A p \in PhysReg : /\ Mapped(p)' <=> Mapped(p)
                              /\ Freeing(p)' <=> Freeing(p)
      BY <2>h, Zenon DEF Mapped, Freeing
    <3>r3. \A p \in PhysReg : Replaced(p)' <=> Replaced(p) /\ p # o
      <4> SUFFICES ASSUME NEW p \in PhysReg
                   PROVE  Replaced(p)' <=> Replaced(p) /\ p # o
        BY Zenon
      <4>1. ASSUME Replaced(p)' PROVE Replaced(p) /\ p # o
        <5>1. PICK i \in 1 .. n - 1 : /\ Replaces(historyBuffer[i + 1])
                                      /\ historyBuffer[i + 1].prevPhysReg = p
          BY <4>1, <2>d, Zenon DEF Replaced, Replaces
        <5>2. i + 1 # 1 /\ i + 1 \in DOMAIN historyBuffer
          BY <2>d, Zenon
        <5> QED
          BY <5>1, <5>2, <2>6, <2>t, Zenon DEF Replaced, Once
      <4>2. ASSUME Replaced(p), p # o PROVE Replaced(p)'
        <5>1. PICK i \in DOMAIN historyBuffer : /\ Replaces(historyBuffer[i])
                                                /\ historyBuffer[i].prevPhysReg = p
          BY <4>2, Zenon DEF Replaced
        <5>2. i # 1
          BY <5>1, <4>2, <2>t, Zenon
        <5> QED
          BY <5>1, <5>2, <2>s, Zenon DEF Replaced, Replaces
      <4> QED
        BY <4>1, <4>2, Zenon
    <3>4. NoneLost' /\ OnePlace'
      BY <3>r1, <3>r2, <3>r3, <3>q, <3>o, Zenon DEF RNInv, Ownership, NoneLost, OnePlace
    <3>5. Once'
      <4>1. \A i, j \in DOMAIN freeList' : freeList'[i] = freeList'[j] => i = j
        <5>1. \A i \in 1 .. Len(freeList) : freeList[i] # o
          BY <3>k, <3>q, Zenon DEF Free
        <5>2. \A i, j \in 1 .. Len(freeList) : freeList[i] = freeList[j] => i = j
          BY <3>k, <2>t, Zenon DEF Once
        <5>3. \A i \in DOMAIN freeList' :
                  i = Len(freeList) + 1 \/ i \in 1 .. Len(freeList)
          BY <3>k
        <5> QED
          BY <5>1, <5>2, <5>3, <3>k, Zenon
      <4> QED
        BY <4>1, <2>o, <2>h, <2>t, Zenon DEF Once, Replaces
    <3> QED
      BY <3>4, <3>5, <2>1, <2>4, Zenon DEF RNInv, Ownership
  <2> QED
    BY <2>5, <2>6, Zenon
(* The registers of squashed instructions become free together once the ROB *)
(* is done (checkSignalsAndUpdate).                                         *)
<1>Release. ASSUME RNInv, NEW busy, ReleaseFreeing(busy)
            PROVE  RNInv'
  <2> USE <1>Release
  <2>1. CASE busy
    BY <2>1, <1>RNUnchanged, Zenon DEF ReleaseFreeing, rnvars
  <2>2. CASE ~busy
    <3> DEFINE m == Len(freeList)
               l == Len(freeingInProgress)
    <3>t. /\ RNTypeOK /\ Once /\ HistoryChain
          /\ m \in Nat /\ DOMAIN freeList = 1 .. m
          /\ l \in Nat /\ DOMAIN freeingInProgress = 1 .. l
      BY DEF RNInv, RNTypeOK, Ownership
    <3>h. /\ freeList' = freeList \o freeingInProgress
          /\ freeingInProgress' = <<>>
          /\ renameMap' = renameMap /\ historyBuffer' = historyBuffer
      BY <2>2, Zenon DEF ReleaseFreeing
    <3>d. /\ freeList' \in Seq(PhysReg)
          /\ DOMAIN freeList' = 1 .. m + l
          /\ \A i \in 1 .. m : freeList'[i] = freeList[i]
          /\ \A i \in 1 .. m + l : i > m => /\ freeList'[i] = freeingInProgress[i - m]
                                            /\ i - m \in 1 .. l
      BY <3>t, <3>h DEF RNTypeOK
    <3>e. \A i \in 1 .. l : /\ m + i \in 1 .. m + l
                            /\ freeList'[m + i] = freeingInProgress[i]
      <4> TAKE i \in 1 .. l
      <4>1. m + i \in 1 .. m + l /\ m + i > m /\ (m + i) - m = i
        BY <3>t
      <4> QED
        BY <4>1, <3>d, Zenon
    <3>c. \A i \in 1 .. m : i \in 1 .. m + l
      BY <3>t
    <3>s. \A i \in 1 .. m + l : i \in 1 .. m \/ i > m
      BY <3>t
    <3>r1. \A p \in PhysReg : Free(p)' <=> Free(p) \/ Freeing(p)
      <4> SUFFICES ASSUME NEW p \in PhysReg
                   PROVE  Free(p)' <=> Free(p) \/ Freeing(p)
        BY Zenon
      <4>1. Free(p)' => Free(p) \/ Freeing(p)
        BY <3>d, <3>s, <3>t, Zenon DEF Free, Freeing
      <4>2. Free(p) => Free(p)'
        BY <3>d, <3>c, <3>t, Zenon DEF Free
      <4>3. Freeing(p) => Free(p)'
        BY <3>d, <3>e, <3>t, Zenon DEF Free, Freeing
      <4> QED
        BY <4>1, <4>2, <4>3, Zenon
    <3>r2. \A p \in PhysReg : /\ Mapped(p)' <=> Mapped(p)
                              /\ ~Freeing(p)'
                              /\ Replaced(p)' <=> Replaced(p)
      BY <3>h DEF Mapped, Freeing, Replaced, Replaces
    <3>1. NoneLost' /\ OnePlace'
      BY <3>r1, <3>r2, Zenon DEF RNInv, Ownership, NoneLost, OnePlace
    <3>2. ASSUME NEW i \in 1 .. m + l, NEW j \in 1 .. m + l,
                 freeList'[i] = freeList'[j]
          PROVE  i = j
      <4>1. CASE i \in 1 .. m /\ j \in 1 .. m
        BY <4>1, <3>2, <3>d, <3>t, Zenon DEF Once
      <4>2. CASE i > m /\ j > m
        <5>1. i - m = j - m
          BY <4>2, <3>2, <3>d, <3>t, SMTT(20) DEF Once
        <5> QED
          BY <5>1, <3>t
      <4>3. ASSUME NEW x \in 1 .. m, NEW y \in 1 .. m + l, y > m
            PROVE  freeList'[x] # freeList'[y]
        <5>1. freeList[x] \in PhysReg /\ Free(freeList[x])
          BY <3>t DEF RNTypeOK, Free
        <5>2. ~Freeing(freeList[x])
          BY <5>1, Zenon DEF RNInv, Ownership, OnePlace
        <5> QED
          BY <5>2, <4>3, <3>d, <3>t, Zenon DEF Freeing
      <4> QED
        BY <4>1, <4>2, <4>3, <3>2, <3>s, Zenon
    <3>u. historyBuffer' = historyBuffer /\ renameMap' = renameMap
      BY <3>h, Zenon
    <3>3. Once'
      <4>1. \A i, j \in DOMAIN freeList' : freeList'[i] = freeList'[j] => i = j
        BY <3>2, <3>d, Zenon
      <4>2. \A i, j \in DOMAIN freeingInProgress' : i = j
        BY <3>h
      <4> QED
        BY <4>1, <4>2, <3>u, <3>t, Zenon DEF Once, Replaces
    <3>4. HistoryChain'
      <4>1. HistoryChain <=> HistoryChain'
        BY <3>u DEF HistoryChain, IsNewest, NextEntry, Replaces
      <4> QED
        BY <4>1, <3>t, Zenon
    <3>5. RNTypeOK'
      <4>1. freeList' \in Seq(PhysReg) /\ freeingInProgress' \in Seq(PhysReg)
        BY <3>d, <3>h
      <4> QED
        BY <4>1, <3>u, <3>t, Zenon DEF RNTypeOK
    <3> QED
      BY <3>1, <3>3, <3>4, <3>5, Zenon DEF RNInv, Ownership
  <2> QED
    BY <2>1, <2>2, Zenon
(* Every destination of an instruction is an architectural register.        *)
<1>AnyDest. ASSUME RNInv, NEW s \in Nat, NEW a \in ArchReg, RenameDest(s, a)
            PROVE  RNInv'
  BY <1>AnyDest, <1>MiscDest, <1>RealDest, Zenon
<1>1. CASE UndoStep
  BY <1>1, <1>Undo, Zenon DEF UndoStep, frontvars, InstOK
<1>2. CASE NoSquashSignal
  BY <1>2, <1>Release, Zenon DEF NoSquashSignal, frontvars, InstOK
<1>3. CASE RemoveStep
  BY <1>3, <1>Remove, Zenon DEF RemoveStep, frontvars, InstOK
<1>4. CASE RenameDestStep
  <2> DEFINE k == Len(inst.renamed) + 1
             a == inst.dest[k]
  <2>1. /\ inst # None /\ Len(inst.renamed) < Len(inst.dest)
        /\ RenameDest(inst.seqNum, a)
        /\ inst' = [inst EXCEPT !.renamed = Append(inst.renamed, RenamedReg(a))]
        /\ seqNum' = seqNum
    BY <1>4, Zenon DEF RenameDestStep
  <2>2. inst.seqNum \in Nat /\ a \in ArchReg
    BY <2>1 DEF InstOK
  <2>3. RNInv'
    BY <2>1, <2>2, <1>AnyDest, Zenon
  <2> QED
    BY <2>1, <2>3 DEF InstOK
<1>5. ASSUME NEW dest \in Seq(ArchReg), RenameInst(dest)
      PROVE  RNInv' /\ InstOK'
  BY <1>5, <1>RNUnchanged DEF RenameInst, InstOK
<1>6. CASE SendInst
  BY <1>6, <1>RNUnchanged, Zenon DEF SendInst, InstOK
<1>7. CASE SquashSignal \/ UndoEnd \/ RenameEnd \/ RemoveEnd \/ IEWTick
  <2>1. UNCHANGED <<rnvars, seqNum, inst>>
    BY <1>7, Zenon DEF SquashSignal, UndoEnd, RenameEnd, RemoveEnd, IEWTick, IEWIdle,
                IEWExecute, frontvars
  <2> QED
    BY <2>1, <1>RNUnchanged, Zenon DEF InstOK
<1>8. CASE CommitTick \/ SquashFromTC
  <2>1. UNCHANGED <<rnvars, seqNum, inst>>
    BY <1>8, Zenon DEF CommitTick, SquashFromTC, CommitStart, SquashFromTrap,
                SquashFromSquashAfter, SquashAllStatus, NoSquashAll,
                SquashFromIEW, NoSquashFromIEW, GetInst, GetInstsEnd, RetireSquashed,
                FaultHead, RetireEnd, CycleEnd, CommitHead, frontvars
  <2> QED
    BY <2>1, <1>RNUnchanged, Zenon DEF InstOK
<1>9. CASE UNCHANGED rvars
  BY <1>9, <1>RNUnchanged, Zenon DEF rvars, frontvars, InstOK
<1> QED
  BY <1>1, <1>2, <1>3, <1>4, <1>5, <1>6, <1>7, <1>8, <1>9, Zenon
        DEF RRNext, RenameTick

(* For any number of registers, widths and delays, no physical register is  *)
(* lost and none has two owners, through every interleaving of renaming,    *)
(* squashing, committing and delayed freeing (rename.cc, rename_map.cc,     *)
(* free_list.hh).                                                           *)
THEOREM OwnershipTheorem == RRSpec => []Ownership
<1>1. RRInit => RNInv /\ InstOK
  BY RNInitial DEF RRInit, InstOK
<1>2. RNInv /\ InstOK /\ [RRNext]_rvars => RNInv' /\ InstOK'
  BY OwnershipStep, Zenon
<1>3. RNInv => Ownership
  BY Zenon DEF RNInv
<1> QED
  BY <1>1, <1>2, <1>3, PTL DEF RRSpec

(* The history buffer always chains back from the rename map, so undoing it *)
(* from the newest entry restores each earlier map (Rename::doSquash).      *)
THEOREM HistoryChainTheorem == RRSpec => []HistoryChain
<1>1. RRInit => RNInv /\ InstOK
  BY RNInitial DEF RRInit, InstOK
<1>2. RNInv /\ InstOK /\ [RRNext]_rvars => RNInv' /\ InstOK'
  BY OwnershipStep, Zenon
<1>3. RNInv => HistoryChain
  BY Zenon DEF RNInv
<1> QED
  BY <1>1, <1>2, <1>3, PTL DEF RRSpec

-----------------------------------------------------------------------------
(* An instruction whose destinations are all renamed.                       *)
FullInst == {x \in DynInst : x.seqNum > 0 /\ Len(x.renamed) = Len(x.dest)}

SignalType == [squash : BOOLEAN, robSquashing : BOOLEAN, doneSeqNum : Nat]
IEWType == [executed : Nat \cup {None},
            squashedSeqNum : (Nat \ {0}) \cup {None},
            includeSquashInst : BOOLEAN]

(* Type correctness, with what it needs: instructions that leave rename are *)
(* complete, and the ROB squashes only while commit says so.                *)
FrontTypes ==
    /\ seqNum \in Nat /\ refill \in Nat /\ iewBlock \in BOOLEAN
    /\ toROB \in Seq(FullInst) /\ fromRename \in Seq(FullInst)
    /\ inst # None => /\ inst \in DynInst /\ inst.seqNum > 0
                      /\ Len(inst.renamed) <= Len(inst.dest)
RobTypes ==
    /\ rob \in Seq(FullInst)
    /\ squashedSeqNum \in Nat /\ squashIt \in 0 .. Len(rob)
    /\ doneSquashing \in BOOLEAN /\ (doneSquashing <=> squashIt = 0)
CommitTypes ==
    /\ commitStatus \in CommitStatus
    /\ commitStatus # "ROBSquashing" => squashIt = 0
    /\ commitMap \in [ArchReg -> PhysReg]
    /\ youngestSeqNum \in Nat /\ lastCommitedSeqNum \in Nat
    /\ commitInfo \in SignalType
    /\ toCommit \in IEWType /\ fromIEW \in IEWType
TypeInv == FrontTypes /\ RobTypes /\ CommitTypes

-----------------------------------------------------------------------------
(* Two instructions are the same but for how far they have come.            *)
Same(x, y) == /\ x.seqNum = y.seqNum /\ x.dest = y.dest
              /\ x.renamed = y.renamed /\ x.src = y.src

(* An iteration of ROB::doSquash: the instructions after low, up to it, are *)
(* marked, and nothing else changes.                                        *)
Marked(low, it, s) ==
    /\ \A i \in 1 .. it : low < i => rob[i].seqNum > s
    /\ rob' \in Seq(FullInst) /\ Len(rob') = Len(rob)
    /\ \A i \in 1 .. Len(rob) : Same(rob'[i], rob[i])
    /\ \A i \in 1 .. Len(rob) : rob'[i].executed = rob[i].executed
    /\ \A i \in 1 .. Len(rob) : low < i /\ i <= it
            => rob'[i].squashed /\ rob'[i].canCommit
    /\ \A i \in 1 .. Len(rob) : ~(low < i /\ i <= it) => rob'[i] = rob[i]
    /\ squashIt' \in 0 .. Len(rob')
    /\ doneSquashing' \in BOOLEAN /\ (doneSquashing' <=> squashIt' = 0)
    /\ squashIt' \in {0, low}
    /\ squashIt' = 0 => low = 0 \/ rob[low].seqNum <= s

(* So does a squash of an instruction on its way to the ROB.                *)
LEMMA SquashInst ==
    ASSUME NEW x \in FullInst
    PROVE  LET y == [x EXCEPT !.squashed = TRUE]
           IN  /\ y \in FullInst /\ Same(y, x) /\ y.squashed
               /\ y.executed = x.executed /\ y.canCommit = x.canCommit
<1> DEFINE y == [x EXCEPT !.squashed = TRUE]
<1>1. x \in DynInst /\ x.seqNum > 0 /\ Len(x.renamed) = Len(x.dest)
  BY Zenon DEF FullInst
<1>2. Same(y, x) /\ y.executed = x.executed /\ y.canCommit = x.canCommit
  BY <1>1, Zenon DEF Same, DynInst
<1>3. y.squashed = TRUE
  BY <1>1, Zenon DEF DynInst
<1>4. y \in DynInst
  BY <1>1, Zenon DEF DynInst
<1> QED
  BY <1>1, <1>2, <1>3, <1>4, Zenon DEF Same, FullInst

(* And so does marking it as ready to commit,                               *)
LEMMA ReadyInst ==
    ASSUME NEW x \in FullInst
    PROVE  LET y == [x EXCEPT !.canCommit = TRUE]
           IN  /\ y \in FullInst /\ Same(y, x) /\ y.canCommit
               /\ y.squashed = x.squashed /\ y.executed = x.executed
<1> DEFINE y == [x EXCEPT !.canCommit = TRUE]
<1>1. x \in DynInst /\ x.seqNum > 0 /\ Len(x.renamed) = Len(x.dest)
  BY Zenon DEF FullInst
<1>2. Same(y, x) /\ y.squashed = x.squashed /\ y.executed = x.executed
  BY <1>1, Zenon DEF Same, DynInst
<1>3. y.canCommit = TRUE
  BY <1>1, Zenon DEF DynInst
<1>4. y \in DynInst
  BY <1>1, Zenon DEF DynInst
<1> QED
  BY <1>1, <1>2, <1>3, <1>4, Zenon DEF Same, FullInst

(* or as executed.                                                          *)
LEMMA ExecutedInst ==
    ASSUME NEW x \in FullInst
    PROVE  LET y == [x EXCEPT !.executed = TRUE]
           IN  /\ y \in FullInst /\ Same(y, x) /\ y.executed
               /\ y.squashed = x.squashed /\ y.canCommit = x.canCommit
<1> DEFINE y == [x EXCEPT !.executed = TRUE]
<1>1. x \in DynInst /\ x.seqNum > 0 /\ Len(x.renamed) = Len(x.dest)
  BY Zenon DEF FullInst
<1>2. Same(y, x) /\ y.squashed = x.squashed /\ y.canCommit = x.canCommit
  BY <1>1, Zenon DEF Same, DynInst
<1>3. y.executed = TRUE
  BY <1>1, Zenon DEF DynInst
<1>4. y \in DynInst
  BY <1>1, Zenon DEF DynInst
<1> QED
  BY <1>1, <1>2, <1>3, <1>4, Zenon DEF Same, FullInst

(* This is what ROB::doSquash does.                                         *)
LEMMA DoSquashMarks ==
    ASSUME RobTypes, NEW it \in 0 .. Len(rob), NEW s \in Nat, DoSquash(it, s)
    PROVE  \E low \in 0 .. it : Marked(low, it, s)
(* Marking an instruction keeps everything else about it.                   *)
<1>MarkInst. ASSUME NEW x \in FullInst
             PROVE  LET y == [x EXCEPT !.squashed = TRUE, !.canCommit = TRUE]
                    IN  /\ y \in FullInst /\ Same(y, x) /\ y.executed = x.executed
                        /\ y.squashed /\ y.canCommit
  <2> USE <1>MarkInst
  <2> DEFINE y == [x EXCEPT !.squashed = TRUE, !.canCommit = TRUE]
  <2>1. x \in DynInst /\ x.seqNum > 0 /\ Len(x.renamed) = Len(x.dest)
    BY Zenon DEF FullInst
  <2>2. Same(y, x) /\ y.executed = x.executed
    BY <2>1, Zenon DEF Same, DynInst
  <2>3. y.squashed = TRUE /\ y.canCommit = TRUE
    BY <2>1, Zenon DEF DynInst
  <2>4. y \in DynInst
    BY <2>1, Zenon DEF DynInst
  <2> QED
    BY <2>1, <2>2, <2>3, <2>4, Zenon DEF Same, FullInst
<1>1. /\ rob \in Seq(FullInst) /\ Len(rob) \in Nat /\ DOMAIN rob = 1 .. Len(rob)
      /\ it \in Nat
  BY DEF RobTypes
<1>2. PICK low \in 0 .. it :
        LET done == low = 0 \/ rob[low].seqNum <= s
        IN  /\ SquashStops(it, s, low)
            /\ rob' = [i \in DOMAIN rob |->
                        IF low < i /\ i <= it
                        THEN [rob[i] EXCEPT !.squashed = TRUE, !.canCommit = TRUE]
                        ELSE rob[i]]
            /\ squashIt' = IF done THEN 0 ELSE low
            /\ doneSquashing' = done
  BY Zenon DEF DoSquash
<1>s. \A i \in 1 .. it : low < i => rob[i].seqNum > s
  <2>1. SquashStops(it, s, low)
    BY <1>2, Zenon
  <2>2. \A i \in 1 .. it : low < i => i \in low + 1 .. it
    BY <1>1
  <2> QED
    BY <2>1, <2>2, Zenon DEF SquashStops
<1>3. rob' = [i \in DOMAIN rob |->
                IF low < i /\ i <= it
                THEN [rob[i] EXCEPT !.squashed = TRUE, !.canCommit = TRUE]
                ELSE rob[i]]
  BY <1>2, Zenon
<1>4. LET done == low = 0 \/ rob[low].seqNum <= s
      IN  squashIt' = (IF done THEN 0 ELSE low) /\ doneSquashing' = done
  BY <1>2, Zenon
<1>5. \A i \in 1 .. Len(rob) :
        LET x == [rob[i] EXCEPT !.squashed = TRUE, !.canCommit = TRUE]
        IN  /\ rob[i] \in FullInst /\ x \in FullInst /\ Same(x, rob[i])
            /\ x.executed = rob[i].executed /\ x.squashed /\ x.canCommit
  <2> TAKE i \in 1 .. Len(rob)
  <2>1. rob[i] \in FullInst
    BY <1>1
  <2> QED
    BY <2>1, <1>MarkInst, ZenonT(30)
<1>6. rob' \in Seq(FullInst) /\ Len(rob') = Len(rob)
  <2> DEFINE e(i) == IF low < i /\ i <= it
                     THEN [rob[i] EXCEPT !.squashed = TRUE, !.canCommit = TRUE]
                     ELSE rob[i]
  <2>1. \A i \in 1 .. Len(rob) : e(i) \in FullInst
    BY <1>5, Zenon
  <2>2. rob' = [i \in 1 .. Len(rob) |-> e(i)]
    BY <1>1, <1>3, ZenonT(30)
  <2> HIDE DEF e
  <2> QED
    BY <1>1, <2>1, <2>2
<1>7. \A i \in 1 .. Len(rob) : ~(low < i /\ i <= it) => rob'[i] = rob[i]
  BY <1>1, <1>3, ZenonT(30)
<1>8. \A i \in 1 .. Len(rob) : low < i /\ i <= it
        => rob'[i] = [rob[i] EXCEPT !.squashed = TRUE, !.canCommit = TRUE]
  BY <1>1, <1>3, Zenon
<1>10. \A i \in 1 .. Len(rob) : Same(rob'[i], rob[i])
                                /\ rob'[i].executed = rob[i].executed
  BY <1>5, <1>7, <1>8, ZenonT(30) DEF Same
<1>11. \A i \in 1 .. Len(rob) : low < i /\ i <= it
            => rob'[i].squashed /\ rob'[i].canCommit
  BY <1>5, <1>8, Zenon
<1>12. /\ squashIt' \in 0 .. Len(rob') /\ squashIt' \in {0, low}
       /\ doneSquashing' \in BOOLEAN /\ (doneSquashing' <=> squashIt' = 0)
       /\ squashIt' = 0 => low = 0 \/ rob[low].seqNum <= s
  <2>1. low \in 0 .. Len(rob') /\ 0 \in 0 .. Len(rob')
    BY <1>1, <1>6
  <2> QED
    BY <1>4, <2>1, Zenon
<1> QED
  BY <1>s, <1>6, <1>7, <1>10, <1>11, <1>12, Zenon DEF Marked

(* ROB::squash marks from the tail.                                         *)
LEMMA ROBSquashMarks ==
    ASSUME RobTypes, NEW s \in Nat, ROBSquash(s)
    PROVE  /\ rob = <<>> => UNCHANGED robvars
           /\ rob # <<>> => /\ squashedSeqNum' = s
                            /\ \E low \in 0 .. Len(rob) : Marked(low, Len(rob), s)
<1>1. Len(rob) \in 0 .. Len(rob)
  BY DEF RobTypes
<1> QED
  BY <1>1, DoSquashMarks, Zenon DEF ROBSquash

-----------------------------------------------------------------------------
restvars == <<frontvars, fromRename, iewBlock, robvars, commitvars, commitInfo,
              toCommit, fromIEW>>

(* The map of the commit stage before and after instruction x commits: each *)
(* destination gets the register of the last one with that name.            *)
MovesOver(x, old, new) ==
    \A a \in ArchReg :
        /\ a \notin DestRegs(x) => new[a] = old[a]
        /\ a \in DestRegs(x) =>
            \E k \in 1 .. Len(x.dest) :
                /\ x.dest[k] = a /\ new[a] = x.renamed[k]
                /\ \A j \in 1 .. Len(x.dest) : x.dest[j] = a => j <= k

(* This is what Commit::commitHead does to it.                              *)
LEMMA CommitMoves ==
    ASSUME NEW squashAfter, CommitHead(squashAfter), Head(rob) \in FullInst,
           commitMap \in [ArchReg -> PhysReg]
    PROVE  /\ MovesOver(Head(rob), commitMap, commitMap')
           /\ commitMap' \in [ArchReg -> PhysReg]
<1> DEFINE x == Head(rob)
<1>1. PICK last \in [DestRegs(x) -> DOMAIN x.dest] :
        /\ \A a \in DestRegs(x) : LastDest(x, a, last[a])
        /\ commitMap' = [a \in ArchReg |-> IF a \in DestRegs(x) THEN x.renamed[last[a]]
                                          ELSE commitMap[a]]
  BY Zenon DEF CommitHead
<1>2. /\ DOMAIN x.dest = 1 .. Len(x.dest) /\ Len(x.renamed) = Len(x.dest)
      /\ x.renamed \in Seq(PhysReg)
  BY DEF FullInst, DynInst
<1> HIDE DEF x
<1>3. \A a \in DestRegs(x) : last[a] \in 1 .. Len(x.dest) /\ x.renamed[last[a]] \in PhysReg
  BY <1>1, <1>2
<1>4. commitMap' \in [ArchReg -> PhysReg]
  BY <1>1, <1>3, Zenon
<1>5. MovesOver(x, commitMap, commitMap')
  BY <1>1, <1>2, <1>3, Zenon DEF MovesOver, LastDest
<1> QED
  BY <1>4, <1>5, Zenon DEF x

(* The next instruction to commit.                                          *)
LEMMA HeadOfROB ==
    ASSUME RobTypes, rob # <<>>
    PROVE  /\ Len(rob) \in Nat \ {0} /\ 1 \in DOMAIN rob /\ rob[1] = Head(rob)
           /\ DOMAIN rob = 1 .. Len(rob)
           /\ Head(rob) \in FullInst /\ Head(rob).seqNum \in Nat \ {0}
           /\ Tail(rob) \in Seq(FullInst) /\ Len(Tail(rob)) = Len(rob) - 1
           /\ \A i \in 1 .. Len(rob) - 1 : Tail(rob)[i] = rob[i + 1]
<1>1. rob \in Seq(FullInst)
  BY Zenon DEF RobTypes
<1>2. Head(rob) \in FullInst
  BY <1>1
<1>3. Head(rob).seqNum \in Nat \ {0}
  BY <1>2 DEF FullInst, DynInst
<1>4. Len(rob) \in Nat \ {0} /\ DOMAIN rob = 1 .. Len(rob)
  BY <1>1
<1> QED
  BY <1>1, <1>2, <1>3, <1>4

(* What a squash is for: the sequence number is a number.                   *)
LEMMA SquashAllNum ==
    ASSUME TypeInv
    PROVE  (IF rob = <<>> THEN lastCommitedSeqNum ELSE Head(rob).seqNum - 1) \in Nat
<1>1. rob # <<>> => Head(rob).seqNum \in Nat \ {0}
  BY HeadOfROB, Zenon DEF TypeInv
<1>2. lastCommitedSeqNum \in Nat
  BY Zenon DEF TypeInv, CommitTypes
<1> QED
  BY <1>1, <1>2

(* The rename variables keep their invariant (proved in RenameROBProofs).   *)
LEMMA RNInvariant == RRSpec => []RNInv
<1>1. RRInit => RNInv /\ InstOK
  BY RNInitial DEF RRInit, InstOK
<1>2. RNInv /\ InstOK /\ [RRNext]_rvars => RNInv' /\ InstOK'
  BY OwnershipStep, Zenon
<1> QED
  BY <1>1, <1>2, PTL DEF RRSpec

(* So the types are an invariant.                                           *)
LEMMA TypesInvariant == RRSpec => []TypeInv
(* So the variables of the ROB keep their types.                            *)
<1>ROBSquashTypes. ASSUME RobTypes, NEW s \in Nat, ROBSquash(s)
                   PROVE  RobTypes'
  <2> USE <1>ROBSquashTypes
  <2>1. CASE rob = <<>>
    BY <2>1, ROBSquashMarks, Zenon DEF robvars, RobTypes
  <2>2. CASE rob # <<>>
    <3>1. PICK low \in 0 .. Len(rob) : Marked(low, Len(rob), s)
      BY <2>2, ROBSquashMarks, Zenon
    <3>2. squashedSeqNum' \in Nat
      BY <2>2, ROBSquashMarks, Zenon
    <3> QED
      BY <3>1, <3>2, Zenon DEF Marked, RobTypes
  <2> QED
    BY <2>1, <2>2, Zenon
(* The types do not depend on the rename variables and the point reached.   *)
<1>TypesUnchanged. ASSUME TypeInv, UNCHANGED restvars
                   PROVE  TypeInv'
  <2> USE <1>TypesUnchanged
  <2>1. /\ UNCHANGED <<seqNum, inst, toROB, refill, fromRename, iewBlock>>
        /\ UNCHANGED <<rob, squashedSeqNum, squashIt, doneSquashing>>
        /\ UNCHANGED <<commitStatus, commitMap, youngestSeqNum,
                       lastCommitedSeqNum, commitInfo, toCommit, fromIEW>>
    BY Zenon DEF restvars, frontvars, robvars, commitvars
  <2>2. FrontTypes'
    BY <2>1, Zenon DEF TypeInv, FrontTypes
  <2>3. RobTypes'
    BY <2>1, Zenon DEF TypeInv, RobTypes
  <2>4. CommitTypes'
    BY <2>1, Zenon DEF TypeInv, CommitTypes
  <2> QED
    BY <2>2, <2>3, <2>4, Zenon DEF TypeInv
(* The types of the stages after rename do not depend on what rename does.  *)
<1>TypesFront. ASSUME TypeInv, FrontTypes',
                      UNCHANGED <<robvars, commitvars, commitInfo, toCommit, fromIEW>>
               PROVE  TypeInv'
  <2> USE <1>TypesFront
  <2>1. /\ UNCHANGED <<rob, squashedSeqNum, squashIt, doneSquashing>>
        /\ UNCHANGED <<commitStatus, commitMap, youngestSeqNum,
                       lastCommitedSeqNum, commitInfo, toCommit, fromIEW>>
    BY Zenon DEF robvars, commitvars
  <2>2. RobTypes'
    BY <2>1, Zenon DEF TypeInv, RobTypes
  <2>3. CommitTypes'
    BY <2>1, Zenon DEF TypeInv, CommitTypes
  <2> QED
    BY <2>2, <2>3, Zenon DEF TypeInv
(* Rename keeps the types.                                                  *)
<1>TypesRename. ASSUME TypeInv, RNInv, RenameTick(Seq(ArchReg))
                PROVE  TypeInv'
  <2> USE <1>TypesRename
  <2>1. CASE \/ UndoStep \/ UndoEnd \/ NoSquashSignal \/ RenameEnd
             \/ RemoveStep \/ RemoveEnd
    <3>1. UNCHANGED restvars
      BY <2>1, Zenon DEF UndoStep, UndoEnd, NoSquashSignal, RenameEnd, RemoveStep,
                  RemoveEnd, restvars
    <3> QED
      BY <3>1, <1>TypesUnchanged, Zenon
  <2>2. CASE SquashSignal
    <3>1. UNCHANGED <<seqNum, inst, toROB, iewBlock, robvars, commitvars,
                      commitInfo, toCommit, fromIEW>>
      BY <2>2, Zenon DEF SquashSignal
    <3>2. fromRename' \in Seq(FullInst)
      <4> DEFINE e(i) == [fromRename[i] EXCEPT !.squashed = TRUE]
      <4>1. /\ fromRename \in Seq(FullInst) /\ Len(fromRename) \in Nat
            /\ DOMAIN fromRename = 1 .. Len(fromRename)
        BY DEF TypeInv, FrontTypes
      <4>2. \A i \in 1 .. Len(fromRename) : e(i) \in FullInst
        <5> TAKE i \in 1 .. Len(fromRename)
        <5>1. fromRename[i] \in FullInst
          BY <4>1
        <5> QED
          BY <5>1, SquashInst, Zenon
      <4>3. fromRename' = [i \in 1 .. Len(fromRename) |-> e(i)]
        BY <2>2, <4>1, Zenon DEF SquashSignal
      <4> HIDE DEF e
      <4> QED
        BY <4>1, <4>2, <4>3
    <3>3. refill' \in Nat
      BY <2>2, WidthAssumption DEF SquashSignal
    <3>4. FrontTypes'
      BY <3>1, <3>2, <3>3, Zenon DEF TypeInv, FrontTypes
    <3> QED
      BY <3>1, <3>4, <1>TypesFront, Zenon
  <2>3. ASSUME NEW dest \in Seq(ArchReg), RenameInst(dest)
        PROVE  TypeInv'
    <3>1. UNCHANGED <<toROB, refill, fromRename, iewBlock, robvars, commitvars,
                      commitInfo, toCommit, fromIEW>>
      BY <2>3, Zenon DEF RenameInst
    <3>2. seqNum \in Nat /\ renameMap \in [ArchReg -> PhysReg]
      BY Zenon DEF TypeInv, FrontTypes, RNInv, RNTypeOK
    <3>3. /\ seqNum' \in Nat /\ inst' \in DynInst /\ inst'.seqNum > 0
          /\ Len(inst'.renamed) <= Len(inst'.dest)
      BY <2>3, <3>2 DEF RenameInst, DynInst
    <3>4. FrontTypes'
      BY <3>1, <3>3, Zenon DEF TypeInv, FrontTypes
    <3> QED
      BY <3>1, <3>4, <1>TypesFront, Zenon
  <2>4. CASE RenameDestStep
    <3> DEFINE a == inst.dest[Len(inst.renamed) + 1]
    <3>1. /\ inst # None /\ inst \in DynInst /\ inst.seqNum > 0
          /\ Len(inst.renamed) < Len(inst.dest)
          /\ RenameDest(inst.seqNum, a)
          /\ inst' = [inst EXCEPT !.renamed = Append(inst.renamed, RenamedReg(a))]
          /\ UNCHANGED <<seqNum, toROB, refill, fromRename, iewBlock, robvars,
                         commitvars, commitInfo, toCommit, fromIEW>>
      BY <2>4, Zenon DEF RenameDestStep, TypeInv, FrontTypes
    <3>2. a \in ArchReg
      BY <3>1 DEF DynInst
    <3>3. RenamedReg(a) \in PhysReg
      BY <3>1, <3>2 DEF RenameDest, RenamedReg, RNInv, RNTypeOK
    <3> HIDE DEF a
    <3>4. /\ inst' \in DynInst /\ inst'.seqNum > 0
          /\ Len(inst'.renamed) <= Len(inst'.dest)
      <4>1. /\ inst.renamed \in Seq(PhysReg) /\ inst.dest \in Seq(ArchReg)
        BY <3>1, Zenon DEF DynInst
      <4>2. /\ Append(inst.renamed, RenamedReg(a)) \in Seq(PhysReg)
            /\ Len(Append(inst.renamed, RenamedReg(a))) <= Len(inst.dest)
        BY <3>1, <3>3, <4>1
      <4>3. /\ inst'.renamed = Append(inst.renamed, RenamedReg(a))
            /\ inst'.dest = inst.dest /\ inst'.seqNum = inst.seqNum
        BY <3>1, Zenon DEF DynInst
      <4>4. inst' \in DynInst
        BY <3>1, <4>2, Zenon DEF DynInst
      <4> QED
        BY <3>1, <4>2, <4>3, <4>4, Zenon
    <3>5. FrontTypes'
      BY <3>1, <3>4, Zenon DEF TypeInv, FrontTypes
    <3> QED
      BY <3>1, <3>5, <1>TypesFront, Zenon
  <2>5. CASE SendInst
    <3>1. /\ inst \in FullInst /\ toROB' = Append(toROB, inst) /\ inst' = None
          /\ UNCHANGED <<seqNum, refill, fromRename, iewBlock, robvars,
                         commitvars, commitInfo, toCommit, fromIEW>>
      BY <2>5, Zenon DEF SendInst, TypeInv, FrontTypes, FullInst
    <3>2. FrontTypes'
      BY <3>1 DEF TypeInv, FrontTypes
    <3> QED
      BY <3>1, <3>2, <1>TypesFront, Zenon
  <2> QED
    BY <2>1, <2>2, <2>3, <2>4, <2>5, Zenon DEF RenameTick
(* IEW marks an instruction executed, and tells commit about it.            *)
<1>TypesIEW. ASSUME TypeInv, IEWTick
             PROVE  TypeInv'
  <2> USE <1>TypesIEW
  <2> USE DEF IEWStall
  <2>1. iewBlock' \in BOOLEAN /\ UNCHANGED <<fromRename, commitvars, commitInfo, fromIEW>>
        /\ UNCHANGED frontvars /\ UNCHANGED <<squashedSeqNum, squashIt, doneSquashing>>
    BY Zenon DEF IEWTick, IEWIdle, IEWExecute, robvars
  <2>2. FrontTypes'
    BY <2>1, Zenon DEF frontvars, TypeInv, FrontTypes
  <2>3. CASE IEWIdle
    <3>1. UNCHANGED rob /\ toCommit' = NoIEW
      BY <2>3, Zenon DEF IEWIdle, robvars
    <3>2. toCommit' \in IEWType
      BY <3>1, Zenon DEF NoIEW, IEWType
    <3>3. RobTypes'
      BY <2>1, <3>1, Zenon DEF TypeInv, RobTypes
    <3>4. CommitTypes'
      BY <2>1, <3>2, Zenon DEF TypeInv, CommitTypes, commitvars
    <3> QED
      BY <2>2, <3>3, <3>4, Zenon DEF TypeInv
  <2>4. ASSUME NEW i \in DOMAIN rob, NEW v \in DOMAIN rob \cup {None}, IEWExecute(i, v)
        PROVE  TypeInv'
    <3>1. /\ rob \in Seq(FullInst) /\ Len(rob) \in Nat /\ DOMAIN rob = 1 .. Len(rob)
      BY DEF TypeInv, RobTypes
    <3>2. \A j \in 1 .. Len(rob) : rob[j] \in FullInst /\ rob[j].seqNum \in Nat \ {0}
      BY <3>1 DEF FullInst, DynInst
    <3>3. [rob[i] EXCEPT !.executed = TRUE] \in FullInst
      BY <3>1, <3>2, Zenon DEF FullInst, DynInst
    <3>4. rob' = [rob EXCEPT ![i] = [rob[i] EXCEPT !.executed = TRUE]]
      BY <2>4, Zenon DEF IEWExecute
    <3>5. rob' \in Seq(FullInst) /\ Len(rob') = Len(rob)
      BY <3>1, <3>3, <3>4
    <3>6. RobTypes'
      BY <2>1, <3>5, Zenon DEF TypeInv, RobTypes
    <3>7. toCommit' \in IEWType
      <4>1. v # None => rob[v].seqNum \in Nat \ {0}
        BY <3>1, <3>2, Zenon
      <4>2. rob[i].seqNum \in Nat
        BY <3>1, <3>2, Zenon
      <4> QED
        BY <2>4, <4>1, <4>2, Zenon DEF IEWExecute, IEWType
    <3>8. CommitTypes'
      BY <2>1, <3>7, Zenon DEF TypeInv, CommitTypes, commitvars
    <3> QED
      BY <2>2, <3>6, <3>8, Zenon DEF TypeInv
  <2> QED
    BY <2>3, <2>4, Zenon DEF IEWTick
(* Commit keeps the types: squashes.                                        *)
<1>TypesSquash. ASSUME TypeInv, NEW s \in Nat, NEW y \in Nat, ROBSquash(s),
                       commitInfo' = SquashSignalFor(s), youngestSeqNum' = y,
                       commitStatus' = "ROBSquashing",
                       UNCHANGED <<frontvars, fromRename, iewBlock, commitMap,
                                   lastCommitedSeqNum, toCommit, fromIEW>>
                PROVE  TypeInv'
  <2> USE <1>TypesSquash
  <2>1. FrontTypes'
    BY Zenon DEF frontvars, TypeInv, FrontTypes
  <2>2. RobTypes'
    BY <1>ROBSquashTypes, Zenon DEF TypeInv
  <2>3. commitInfo' \in SignalType
    BY Zenon DEF SquashSignalFor, SignalType
  <2>4. CommitTypes'
    BY <2>3, Zenon DEF TypeInv, CommitTypes, CommitStatus
  <2> QED
    BY <2>1, <2>2, <2>4, Zenon DEF TypeInv
(* The rest of the variables of the ROB stay, and the head leaves it.       *)
<1>RetireTypes. ASSUME TypeInv, HeadReady, rob' = Tail(rob),
                       UNCHANGED <<squashedSeqNum, squashIt, doneSquashing>>
                PROVE  RobTypes' /\ squashIt = 0
  <2> USE <1>RetireTypes
  <2>1. squashIt = 0
    BY Zenon DEF HeadReady, TypeInv, CommitTypes
  <2>2. rob # <<>> /\ RobTypes
    BY Zenon DEF HeadReady, TypeInv
  <2>3. Tail(rob) \in Seq(FullInst) /\ Len(Tail(rob)) \in Nat
    BY <2>2, HeadOfROB
  <2> QED
    BY <2>1, <2>2, <2>3 DEF RobTypes
(* Commit keeps the types.                                                  *)
<1>TypesCommit. ASSUME TypeInv, CommitTick \/ SquashFromTC
                PROVE  TypeInv'
  <2> USE <1>TypesCommit
  <2>1. CASE CommitStart
    <3>1. /\ FrontTypes'
      BY <2>1, Zenon DEF CommitStart, frontvars, TypeInv, FrontTypes
    <3>2. CASE commitStatus = "ROBSquashing" /\ ~doneSquashing
      <4>1. /\ DoSquash(squashIt, squashedSeqNum) /\ squashedSeqNum' = squashedSeqNum
            /\ commitInfo' = [NoSignal EXCEPT !.robSquashing = TRUE]
            /\ UNCHANGED <<commitStatus, commitMap, youngestSeqNum,
                           lastCommitedSeqNum, toCommit, fromIEW>>
        BY <2>1, <3>2, Zenon DEF CommitStart
      <4>2. squashIt \in 0 .. Len(rob) /\ squashedSeqNum \in Nat /\ RobTypes
        BY Zenon DEF TypeInv, RobTypes
      <4>3. PICK low \in 0 .. squashIt : Marked(low, squashIt, squashedSeqNum)
        BY <4>1, <4>2, DoSquashMarks, Zenon
      <4>4. RobTypes'
        BY <4>1, <4>2, <4>3, Zenon DEF Marked, RobTypes
      <4>5. commitInfo' \in SignalType
        BY <4>1, Zenon DEF NoSignal, SignalType
      <4>6. CommitTypes'
        BY <3>2, <4>1, <4>5, Zenon DEF TypeInv, CommitTypes
      <4> QED
        BY <3>1, <4>4, <4>6, Zenon DEF TypeInv
    <3>3. CASE ~(commitStatus = "ROBSquashing" /\ ~doneSquashing)
      <4>1. /\ commitInfo' = NoSignal /\ UNCHANGED robvars
            /\ commitStatus' = IF commitStatus = "ROBSquashing"
                               THEN "Running" ELSE commitStatus
            /\ UNCHANGED <<commitMap, youngestSeqNum, lastCommitedSeqNum,
                           toCommit, fromIEW>>
        BY <2>1, <3>3, Zenon DEF CommitStart
      <4>2. RobTypes' /\ squashIt' = squashIt
        BY <4>1, Zenon DEF robvars, TypeInv, RobTypes
      <4>3. commitInfo' \in SignalType
        BY <4>1, Zenon DEF NoSignal, SignalType
      <4>4. squashIt = 0
        BY <3>3, Zenon DEF TypeInv, CommitTypes, RobTypes
      <4>5. CommitTypes'
        BY <4>1, <4>2, <4>3, <4>4, Zenon DEF TypeInv, CommitTypes, CommitStatus
      <4> QED
        BY <3>1, <4>2, <4>5, Zenon DEF TypeInv
    <3> QED
      BY <3>2, <3>3, Zenon
  <2>2. ASSUME NEW status, SquashAllStatus(status)
        PROVE  TypeInv'
    <3> DEFINE s == IF rob = <<>> THEN lastCommitedSeqNum ELSE Head(rob).seqNum - 1
    <3>1. s \in Nat /\ lastCommitedSeqNum \in Nat
      BY SquashAllNum, Zenon DEF TypeInv, CommitTypes
    <3>2. /\ ROBSquash(s) /\ commitInfo' = SquashSignalFor(s)
          /\ youngestSeqNum' = lastCommitedSeqNum /\ commitStatus' = "ROBSquashing"
          /\ UNCHANGED <<frontvars, fromRename, iewBlock, commitMap,
                         lastCommitedSeqNum, toCommit, fromIEW>>
      BY <2>2, Zenon DEF SquashAllStatus
    <3> HIDE DEF s
    <3> QED
      BY <3>1, <3>2, <1>TypesSquash, Zenon
  <2>3. CASE SquashFromIEW
    <3> DEFINE s == IF fromIEW.includeSquashInst
                    THEN fromIEW.squashedSeqNum - 1 ELSE fromIEW.squashedSeqNum
    <3>1. fromIEW.squashedSeqNum \in Nat \ {0}
      BY <2>3, Zenon DEF SquashFromIEW, IEWSquashes, TypeInv, CommitTypes, IEWType
    <3>2. s \in Nat
      BY <3>1
    <3>3. /\ ROBSquash(s) /\ commitInfo' = SquashSignalFor(s)
          /\ youngestSeqNum' = s /\ commitStatus' = "ROBSquashing"
          /\ UNCHANGED <<frontvars, fromRename, iewBlock, commitMap,
                         lastCommitedSeqNum, toCommit, fromIEW>>
      BY <2>3, Zenon DEF SquashFromIEW
    <3> HIDE DEF s
    <3> QED
      BY <3>2, <3>3, <1>TypesSquash, Zenon
  <2>4. CASE NoSquashAll \/ NoSquashFromIEW \/ GetInstsEnd \/ RetireEnd
    <3>1. UNCHANGED restvars
      BY <2>4, Zenon DEF NoSquashAll, NoSquashFromIEW, GetInstsEnd, RetireEnd, restvars
    <3> QED
      BY <3>1, <1>TypesUnchanged, Zenon
  <2>5. CASE GetInst
    <3> DEFINE x == Head(fromRename)
    <3>1. /\ fromRename \in Seq(FullInst) /\ fromRename # <<>>
          /\ fromRename' = Tail(fromRename)
          /\ UNCHANGED <<frontvars, iewBlock, squashedSeqNum, squashIt, doneSquashing,
                         commitStatus, commitMap, lastCommitedSeqNum, commitInfo,
                         toCommit, fromIEW>>
      BY <2>5, Zenon DEF GetInst, TypeInv, FrontTypes
    <3>2. x \in FullInst /\ Tail(fromRename) \in Seq(FullInst)
      BY <3>1
    <3>3. FrontTypes'
      BY <3>1, <3>2, Zenon DEF TypeInv, FrontTypes, frontvars
    <3>4. x.seqNum \in Nat
      BY <3>2, Zenon DEF FullInst, DynInst
    <3>5. \/ rob' = rob /\ youngestSeqNum' = youngestSeqNum
          \/ rob' = Append(rob, x) /\ youngestSeqNum' = x.seqNum
      BY <2>5, Zenon DEF GetInst
    <3>6. youngestSeqNum' \in Nat
      BY <3>4, <3>5, Zenon DEF TypeInv, CommitTypes
    <3>7. CommitTypes'
      BY <3>1, <3>6, Zenon DEF TypeInv, CommitTypes
    <3> HIDE DEF x
    <3>8. rob' \in Seq(FullInst) /\ squashIt \in 0 .. Len(rob')
      BY <3>2, <3>5, SMTT(20) DEF TypeInv, RobTypes
    <3>9. RobTypes'
      BY <3>1, <3>8, Zenon DEF TypeInv, RobTypes
    <3> QED
      BY <3>3, <3>7, <3>9, Zenon DEF TypeInv
  <2>6. CASE RetireSquashed
    <3>1. FrontTypes'
      BY <2>6, Zenon DEF RetireSquashed, frontvars, TypeInv, FrontTypes
    <3>2. RobTypes' /\ squashIt = 0
      BY <2>6, <1>RetireTypes, Zenon DEF RetireSquashed
    <3>3. CommitTypes'
      BY <2>6, Zenon DEF RetireSquashed, commitvars, TypeInv, CommitTypes
    <3> QED
      BY <3>1, <3>2, <3>3, Zenon DEF TypeInv
  <2>7. ASSUME NEW squashAfter \in BOOLEAN, CommitHead(squashAfter)
        PROVE  TypeInv'
    <3>1. FrontTypes'
      BY <2>7, Zenon DEF CommitHead, frontvars, TypeInv, FrontTypes
    <3>2. RobTypes' /\ squashIt = 0 /\ squashIt' = 0
      BY <2>7, <1>RetireTypes, Zenon DEF CommitHead
    <3>3. Head(rob) \in FullInst /\ Head(rob).seqNum \in Nat
      BY <2>7, HeadOfROB, Zenon DEF CommitHead, HeadReady, TypeInv
    <3>4. commitMap' \in [ArchReg -> PhysReg]
      BY <2>7, <3>3, CommitMoves, Zenon DEF TypeInv, CommitTypes
    <3>5. commitInfo' \in SignalType
      BY <2>7, <3>3, Zenon DEF CommitHead, TypeInv, CommitTypes, SignalType
    <3>6. commitStatus' \in CommitStatus /\ lastCommitedSeqNum' \in Nat
      BY <2>7, <3>3, Zenon DEF CommitHead, CommitStatus
    <3>7. CommitTypes'
      BY <2>7, <3>2, <3>4, <3>5, <3>6, Zenon DEF CommitHead, TypeInv, CommitTypes
    <3> QED
      BY <3>1, <3>2, <3>7, Zenon DEF TypeInv
  <2>8. CASE FaultHead
    <3>1. squashIt = 0
      BY <2>8, Zenon DEF FaultHead, HeadReady, TypeInv, CommitTypes
    <3>2. FrontTypes'
      BY <2>8, Zenon DEF FaultHead, frontvars, TypeInv, FrontTypes
    <3>3. RobTypes' /\ squashIt' = squashIt
      BY <2>8, Zenon DEF FaultHead, robvars, TypeInv, RobTypes
    <3>4. CommitTypes'
      BY <2>8, <3>1, <3>3, Zenon DEF FaultHead, TypeInv, CommitTypes, CommitStatus
    <3> QED
      BY <3>2, <3>3, <3>4, Zenon DEF TypeInv
  <2>9. CASE CycleEnd
    <3>1. /\ toROB \in Seq(FullInst) /\ fromRename' = toROB /\ toROB' = <<>>
          /\ UNCHANGED <<seqNum, inst, iewBlock, squashedSeqNum, squashIt,
                         doneSquashing, commitvars, commitInfo>>
          /\ fromIEW' = toCommit /\ toCommit' = NoIEW
      BY <2>9, Zenon DEF CycleEnd, TypeInv, FrontTypes
    <3>2. refill' \in Nat
      BY <2>9 DEF CycleEnd, TypeInv, FrontTypes
    <3>3. <<>> \in Seq(FullInst)
      OBVIOUS
    <3>4. FrontTypes'
      BY <3>1, <3>2, <3>3, Zenon DEF TypeInv, FrontTypes
    <3>5. rob' \in Seq(FullInst) /\ Len(rob') = Len(rob)
      <4> DEFINE e(i) == IF rob[i].seqNum = fromIEW.executed
                         THEN [rob[i] EXCEPT !.canCommit = TRUE] ELSE rob[i]
      <4>1. /\ rob \in Seq(FullInst) /\ Len(rob) \in Nat
            /\ DOMAIN rob = 1 .. Len(rob)
        BY DEF TypeInv, RobTypes
      <4>2. \A i \in 1 .. Len(rob) : e(i) \in FullInst
        <5> TAKE i \in 1 .. Len(rob)
        <5>1. rob[i] \in FullInst
          BY <4>1
        <5> QED
          BY <5>1, ReadyInst, Zenon
      <4>3. rob' = [i \in 1 .. Len(rob) |-> e(i)]
        BY <2>9, <4>1, Zenon DEF CycleEnd
      <4> HIDE DEF e
      <4> QED
        BY <4>1, <4>2, <4>3
    <3>6. RobTypes'
      BY <3>1, <3>5, Zenon DEF TypeInv, RobTypes
    <3>7. NoIEW \in IEWType
      BY Zenon DEF NoIEW, IEWType
    <3>8. CommitTypes'
      BY <3>1, <3>7, Zenon DEF TypeInv, CommitTypes, commitvars
    <3> QED
      BY <3>4, <3>6, <3>8, Zenon DEF TypeInv
  <2> QED
    BY <2>1, <2>2, <2>3, <2>4, <2>5, <2>6, <2>7, <2>8, <2>9, Zenon
       DEF CommitTick, SquashFromTC, SquashFromTrap, SquashFromSquashAfter
(* All stages keep the types.                                               *)
<1>TypesStep. ASSUME RNInv, TypeInv, [RRNext]_rvars
              PROVE  TypeInv'
  <2> USE <1>TypesStep
  <2>1. CASE UNCHANGED rvars
    BY <2>1, <1>TypesUnchanged, Zenon DEF rvars, restvars
  <2> QED
    BY <2>1, <1>TypesRename, <1>TypesIEW, <1>TypesCommit, Zenon DEF RRNext
(* The initial state has the types.                                         *)
<1>TypesInitial. RRInit => TypeInv
  <2> SUFFICES ASSUME RRInit PROVE TypeInv
    BY Zenon
  <2>1. <<>> \in Seq(FullInst) /\ Len(<<>>) = 0
    OBVIOUS
  <2>2. NoSignal \in SignalType /\ NoIEW \in IEWType
    BY Zenon DEF NoSignal, SignalType, NoIEW, IEWType
  <2>3. FrontTypes
    BY <2>1, Zenon DEF RRInit, FrontTypes
  <2>4. RobTypes
    BY <2>1 DEF RRInit, RobTypes
  <2>5. CommitTypes
    BY <2>2, RenameAssumption, Zenon DEF RRInit, CommitTypes, CommitStatus
  <2> QED
    BY <2>3, <2>4, <2>5, Zenon DEF TypeInv
<1>1. RNInv /\ TypeInv /\ [RRNext]_rvars => TypeInv'
  BY <1>TypesStep, Zenon
<1> QED
  BY <1>1, <1>TypesInitial, RNInvariant, PTL DEF RRSpec

(* Every variable has its type, and the iterator of ROB::doSquash is a       *)
(* position of the ROB exactly while the ROB squashes, although the ROB      *)
(* grows and shrinks at both ends (rob.cc, commit.cc).                       *)
THEOREM RRTypesTheorem == RRSpec => []RRTypeOK
<1>1. RNInv /\ TypeInv => RRTypeOK
  <2> SUFFICES ASSUME RNInv, TypeInv PROVE RRTypeOK
    BY Zenon
  <2>1. FullInst \subseteq DynInst
    BY Zenon DEF FullInst
  <2>2. rob \in Seq(DynInst) /\ toROB \in Seq(DynInst) /\ fromRename \in Seq(DynInst)
    BY <2>1 DEF TypeInv, FrontTypes, RobTypes
  <2> QED
    BY <2>2, Zenon DEF RRTypeOK, RNInv, RNTypeOK, TypeInv, FrontTypes, RobTypes, CommitTypes
<1> QED
  BY <1>1, RNInvariant, TypesInvariant, PTL

-----------------------------------------------------------------------------
(* The order of the steps in a cycle, and what commit's signals mean at each*)
(* of them: while the signal of a squash is there, the status is            *)
(* ROBSquashing, and rename takes no instruction in the cycle in which it   *)
(* sees the signal.                                                         *)
ControlInv ==
    /\ at # "rename" => inst = None
    /\ at \in {"signals", "undo"} => toROB = <<>>
    /\ at = "retire" => fromRename = <<>>
    /\ at = "undo" => commitInfo.squash
    /\ at \in {"rename", "remove", "squash", "insts", "retire"} => ~commitInfo.squash
    /\ commitInfo.robSquashing <=> commitStatus = "ROBSquashing"
    /\ commitInfo.squash => commitInfo.robSquashing
    /\ at \in {"insts", "retire"} => commitStatus # "ROBSquashing"

(* The signal of a squash that rename has not yet seen.                     *)
OnItsWay == commitInfo.squash /\ at \in {"iewsquash", "end", "signals"}

(* Nothing that counts is between rename and the ROB.                       *)
Quiet == /\ toROB = <<>> /\ inst = None
         /\ \A i \in DOMAIN fromRename : fromRename[i].squashed

(* While the ROB squashes, rename sends nothing: first because fetch and    *)
(* decode are empty, then because IEW, which sees the ROB squash with the   *)
(* same delay, tells it to stall.                                           *)
StallInv ==
    /\ commitInfo.robSquashing /\ ~OnItsWay => Quiet
    /\ at \in {"undo", "iew", "commit"} /\ commitInfo.squash => refill > 1
    /\ /\ at \in {"signals", "rename", "remove"}
       /\ commitInfo.robSquashing /\ ~commitInfo.squash
       => iewBlock \/ refill > 0
    /\ /\ at \in {"commit", "squash", "iewsquash", "end"}
       /\ commitInfo.robSquashing /\ ~commitInfo.squash
       => iewBlock \/ refill > 1

(* Types, the order of the steps, and the stall of rename, together.        *)
Base == RNInv /\ TypeInv /\ ControlInv /\ StallInv

(* So they are invariants.                                                  *)
LEMMA BaseInvariant == RRSpec => []Base
(* Rename keeps the order of the steps.                                     *)
<1>ControlRename. ASSUME TypeInv, ControlInv, RenameTick(Seq(ArchReg))
                  PROVE  ControlInv'
  <2> USE <1>ControlRename
  <2>1. UNCHANGED <<commitStatus, commitInfo>>
    BY Zenon DEF RenameTick, SquashSignal, UndoStep, UndoEnd, NoSquashSignal, RenameInst,
           RenameDestStep, SendInst, RenameEnd, RemoveStep, RemoveEnd, commitvars
  <2>2. CASE SquashSignal
    BY <2>1, <2>2, Zenon DEF SquashSignal, ControlInv
  <2>3. CASE UndoStep \/ UndoEnd
    BY <2>1, <2>3, Zenon DEF UndoStep, UndoEnd, ControlInv, frontvars
  <2>4. CASE NoSquashSignal
    BY <2>1, <2>4, Zenon DEF NoSquashSignal, ControlInv, frontvars
  <2>5. ASSUME NEW dest \in Seq(ArchReg), RenameInst(dest)
        PROVE  ControlInv'
    BY <2>1, <2>5, Zenon DEF RenameInst, ControlInv
  <2>6. CASE RenameDestStep \/ SendInst
    BY <2>1, <2>6, Zenon DEF RenameDestStep, SendInst, ControlInv
  <2>7. CASE RenameEnd \/ RemoveStep \/ RemoveEnd
    BY <2>1, <2>7, Zenon DEF RenameEnd, RemoveStep, RemoveEnd, ControlInv, frontvars
  <2> QED
    BY <2>2, <2>3, <2>4, <2>5, <2>6, <2>7, Zenon DEF RenameTick
(* So do IEW and commit.                                                    *)
<1>ControlCommit. ASSUME TypeInv, ControlInv, IEWTick \/ CommitTick \/ SquashFromTC
                  PROVE  ControlInv'
  <2> USE <1>ControlCommit
  <2>1. CASE IEWTick
    BY <2>1, Zenon DEF IEWTick, IEWIdle, IEWExecute, frontvars, commitvars, ControlInv
  <2>2. CASE CommitStart
    <3>1. /\ at = "commit" /\ at' = "squash"
          /\ UNCHANGED <<inst, toROB, fromRename>>
          /\ ~commitInfo'.squash
          /\ commitInfo'.robSquashing <=> commitStatus' = "ROBSquashing"
      BY <2>2 DEF CommitStart, NoSignal, frontvars
    <3> QED
      BY <3>1, Zenon DEF ControlInv
  <2>3. ASSUME NEW status, SquashAllStatus(status)
        PROVE  ControlInv'
    <3>1. /\ at = "squash" /\ at' = "iewsquash" /\ commitStatus' = "ROBSquashing"
          /\ UNCHANGED <<inst, toROB, fromRename>>
          /\ commitInfo'.squash /\ commitInfo'.robSquashing
      BY <2>3, Zenon DEF SquashAllStatus, SquashSignalFor, frontvars
    <3> QED
      BY <3>1, Zenon DEF ControlInv
  <2>4. CASE SquashFromIEW
    <3>1. /\ at = "iewsquash" /\ at' = "end" /\ commitStatus' = "ROBSquashing"
          /\ UNCHANGED <<inst, toROB, fromRename>>
          /\ commitInfo'.squash /\ commitInfo'.robSquashing
      BY <2>4, Zenon DEF SquashFromIEW, SquashSignalFor, frontvars
    <3> QED
      BY <3>1, Zenon DEF ControlInv
  <2>5. CASE NoSquashAll \/ NoSquashFromIEW \/ GetInstsEnd \/ RetireEnd
    BY <2>5, Zenon DEF NoSquashAll, NoSquashFromIEW, GetInstsEnd, RetireEnd, frontvars,
                commitvars, ControlInv
  <2>6. CASE GetInst \/ RetireSquashed
    BY <2>6, Zenon DEF GetInst, RetireSquashed, HeadReady, frontvars, commitvars, ControlInv
  <2>7. ASSUME NEW squashAfter \in BOOLEAN, CommitHead(squashAfter)
        PROVE  ControlInv'
    <3>1. /\ at = "retire" /\ at' = "retire" /\ commitStatus' # "ROBSquashing"
          /\ commitStatus # "ROBSquashing"
          /\ UNCHANGED <<inst, toROB, fromRename>>
      BY <2>7, Zenon DEF CommitHead, HeadReady, frontvars
    <3>2. /\ commitInfo'.squash = commitInfo.squash
          /\ commitInfo'.robSquashing = commitInfo.robSquashing
      BY <2>7, Zenon DEF CommitHead, TypeInv, CommitTypes, SignalType
    <3> QED
      BY <3>1, <3>2, Zenon DEF ControlInv
  <2>8. CASE FaultHead
    BY <2>8, Zenon DEF FaultHead, HeadReady, frontvars, ControlInv
  <2>9. CASE CycleEnd
    BY <2>9, Zenon DEF CycleEnd, commitvars, ControlInv
  <2> QED
    BY <2>1, <2>2, <2>3, <2>4, <2>5, <2>6, <2>7, <2>8, <2>9, Zenon
       DEF CommitTick, SquashFromTC, SquashFromTrap, SquashFromSquashAfter
(* Rename sends nothing while the ROB squashes.                             *)
<1>StallRename. ASSUME TypeInv, ControlInv, StallInv, RenameTick(Seq(ArchReg))
                PROVE  StallInv'
  <2> USE <1>StallRename
  <2>1. UNCHANGED <<commitInfo, iewBlock>>
    BY Zenon DEF RenameTick, SquashSignal, UndoStep, UndoEnd, NoSquashSignal, RenameInst,
           RenameDestStep, SendInst, RenameEnd, RemoveStep, RemoveEnd
  <2>2. CASE SquashSignal
    <3>1. /\ at' = "undo" /\ refill' = RefillDelay + 1 /\ commitInfo.squash
          /\ toROB' = <<>> /\ inst' = None
      BY <2>2, Zenon DEF SquashSignal, ControlInv
    <3>2. \A i \in DOMAIN fromRename' : fromRename'[i].squashed
      <4> SUFFICES ASSUME NEW i \in DOMAIN fromRename'
                   PROVE  fromRename'[i].squashed
        BY Zenon
      <4>1. /\ i \in DOMAIN fromRename
            /\ fromRename'[i] = [fromRename[i] EXCEPT !.squashed = TRUE]
        BY <2>2, Zenon DEF SquashSignal
      <4>2. fromRename[i] \in FullInst
        BY <4>1 DEF TypeInv, FrontTypes
      <4> QED
        BY <4>1, <4>2, SquashInst, Zenon
    <3>3. refill' > 1
      BY <3>1, WidthAssumption, SMTT(20)
    <3> QED
      BY <2>1, <3>1, <3>2, <3>3, Zenon DEF StallInv, Quiet
  <2>3. CASE \/ UndoStep \/ UndoEnd \/ NoSquashSignal
             \/ RenameEnd \/ RemoveStep \/ RemoveEnd
    <3>1. UNCHANGED <<toROB, inst, fromRename, refill>>
      BY <2>3, Zenon DEF UndoStep, UndoEnd, NoSquashSignal, RenameEnd, RemoveStep,
                  RemoveEnd, frontvars
    <3>2. \/ at = "undo" /\ at' \in {"undo", "iew"}
          \/ at = "signals" /\ at' = "rename" /\ ~commitInfo.squash
          \/ at = "rename" /\ at' = "remove"
          \/ at = "remove" /\ at' \in {"remove", "iew"}
      BY <2>3, Zenon DEF UndoStep, UndoEnd, NoSquashSignal, RenameEnd, RemoveStep, RemoveEnd
    <3> QED
      BY <2>1, <3>1, <3>2, Zenon DEF StallInv, OnItsWay, Quiet, ControlInv
  <2>4. CASE \/ \E dest \in Seq(ArchReg) : RenameInst(dest)
             \/ RenameDestStep \/ SendInst
    <3>1. ~commitInfo.robSquashing
      BY <2>4 DEF RenameInst, RenameDestStep, SendInst, StallInv, ControlInv,
                  OnItsWay, Quiet, TypeInv, FrontTypes
    <3>2. ~commitInfo.squash
      BY <3>1, Zenon DEF ControlInv
    <3> QED
      BY <2>1, <3>1, <3>2, Zenon DEF StallInv
  <2> QED
    BY <2>2, <2>3, <2>4, Zenon DEF RenameTick
(* IEW and commit keep it so.                                               *)
<1>StallCommit. ASSUME TypeInv, ControlInv, StallInv, IEWTick \/ CommitTick \/ SquashFromTC
                PROVE  StallInv'
  <2> USE <1>StallCommit
  <2>1. CASE IEWTick
    <3>1. /\ at = "iew" /\ at' = "commit"
          /\ iewBlock' = (commitInfo.robSquashing /\ ~commitInfo.squash)
          /\ UNCHANGED <<commitInfo, toROB, inst, fromRename, refill>>
      BY <2>1, Zenon DEF IEWTick, IEWIdle, IEWExecute, IEWStall, frontvars
    <3> QED
      BY <3>1, ZenonT(30) DEF StallInv, OnItsWay, Quiet
  <2>2. CASE CommitStart
    <3>1. /\ at = "commit" /\ at' = "squash"
          /\ UNCHANGED <<inst, toROB, fromRename, iewBlock, refill>>
          /\ ~commitInfo'.squash
          /\ commitInfo'.robSquashing => commitStatus = "ROBSquashing"
      BY <2>2 DEF CommitStart, NoSignal, frontvars
    <3> QED
      BY <3>1, Zenon DEF ControlInv, StallInv, OnItsWay, Quiet
  <2>3. CASE SquashFromIEW \/ \E status : SquashAllStatus(status)
    <3>1. commitInfo'.squash /\ at' \in {"iewsquash", "end"}
      BY <2>3 DEF SquashFromIEW, SquashAllStatus, SquashSignalFor
    <3> QED
      BY <3>1, Zenon DEF StallInv, OnItsWay
  <2>4. CASE NoSquashAll \/ NoSquashFromIEW
    <3>1. UNCHANGED <<commitInfo, commitStatus, inst, toROB, fromRename, iewBlock, refill>>
      BY <2>4, Zenon DEF NoSquashAll, NoSquashFromIEW, frontvars, commitvars
    <3>2. \/ at = "squash" /\ at' = "iewsquash"
          \/ at = "iewsquash" /\ at' = "end"
          \/ at = "iewsquash" /\ at' = "insts" /\ commitStatus # "ROBSquashing"
      BY <2>4, Zenon DEF NoSquashAll, NoSquashFromIEW
    <3> QED
      BY <3>1, <3>2, Zenon DEF StallInv, OnItsWay, Quiet, ControlInv
  <2>5. CASE \/ GetInst \/ GetInstsEnd \/ RetireSquashed \/ FaultHead \/ RetireEnd
             \/ \E squashAfter \in BOOLEAN : CommitHead(squashAfter)
    <3>1. at \in {"insts", "retire"}
      BY <2>5, Zenon DEF GetInst, GetInstsEnd, RetireSquashed, FaultHead, RetireEnd,
                  CommitHead, HeadReady
    <3>2. /\ commitInfo'.squash = commitInfo.squash
          /\ commitInfo'.robSquashing = commitInfo.robSquashing
      BY <2>5, Zenon DEF GetInst, GetInstsEnd, RetireSquashed, FaultHead, RetireEnd,
                  CommitHead, TypeInv, CommitTypes, SignalType
    <3> QED
      BY <3>1, <3>2, Zenon DEF ControlInv, StallInv
  <2>6. CASE CycleEnd
    <3>1. /\ at = "end" /\ at' = "signals" /\ fromRename' = toROB /\ toROB' = <<>>
          /\ UNCHANGED <<commitInfo, inst, iewBlock>>
          /\ refill' = IF refill = 0 THEN 0 ELSE refill - 1
      BY <2>6, Zenon DEF CycleEnd
    <3>2. refill > 1 => refill' > 0
      BY <3>1 DEF TypeInv, FrontTypes
    <3> QED
      BY <3>1, <3>2 DEF StallInv, OnItsWay, Quiet
  <2> QED
    BY <2>1, <2>2, <2>3, <2>4, <2>5, <2>6, Zenon
       DEF CommitTick, SquashFromTC, SquashFromTrap, SquashFromSquashAfter
(* A step that changes nothing keeps them.                                  *)
<1>ControlUnchanged. ASSUME ControlInv, StallInv, UNCHANGED rvars
                     PROVE  ControlInv' /\ StallInv'
  <2> USE <1>ControlUnchanged
  <2>1. UNCHANGED <<at, inst, toROB, fromRename, refill, iewBlock, commitStatus,
                    commitInfo>>
    BY Zenon DEF rvars, frontvars, commitvars
  <2>2. ControlInv'
    BY <2>1, Zenon DEF ControlInv
  <2>3. StallInv'
    BY <2>1, Zenon DEF StallInv, OnItsWay, Quiet
  <2> QED
    BY <2>2, <2>3, Zenon
<1>1. RRInit => ControlInv /\ StallInv
  BY DEF RRInit, NoSignal, ControlInv, StallInv, OnItsWay, Quiet
<1>2. TypeInv /\ ControlInv /\ StallInv /\ [RRNext]_rvars => ControlInv' /\ StallInv'
  BY <1>ControlUnchanged, <1>ControlRename, <1>ControlCommit, <1>StallRename, <1>StallCommit, Zenon
     DEF RRNext
<1> QED
  BY <1>1, <1>2, RNInvariant, TypesInvariant, PTL DEF RRSpec, Base

-----------------------------------------------------------------------------
(* What is known of the instructions of a queue.                            *)
LEMMA FullSeq ==
    ASSUME NEW q \in Seq(FullInst)
    PROVE  /\ Len(q) \in Nat /\ DOMAIN q = 1 .. Len(q)
           /\ \A i \in DOMAIN q :
                /\ q[i] \in FullInst /\ q[i].seqNum \in Nat \ {0}
                /\ q[i].dest \in Seq(ArchReg) /\ q[i].renamed \in Seq(PhysReg)
                /\ Len(q[i].renamed) = Len(q[i].dest)
                /\ q[i].src \in [ArchReg -> PhysReg]
<1>1. ASSUME NEW x \in FullInst
      PROVE  /\ x.seqNum \in Nat \ {0}
             /\ x.dest \in Seq(ArchReg) /\ x.renamed \in Seq(PhysReg)
             /\ Len(x.renamed) = Len(x.dest)
             /\ x.src \in [ArchReg -> PhysReg]
  BY DEF FullInst, DynInst
<1>2. \A i \in DOMAIN q : q[i] \in FullInst
  OBVIOUS
<1> QED
  BY <1>1, <1>2

(* Two queues hold the same instructions, perhaps marked differently.       *)
SameInsts(p, q) == DOMAIN p = DOMAIN q /\ \A i \in DOMAIN q : Same(p[i], q[i])

(* Instructions are in program order: the ones that have committed, the ROB,*)
(* those on their way to it, and the one that is renamed.                   *)
Increasing(q) == \A i, j \in DOMAIN q : i < j => q[i].seqNum < q[j].seqNum
Above(n, q) == \A i \in DOMAIN q : n < q[i].seqNum
UpTo(q, n) == \A i \in DOMAIN q : q[i].seqNum <= n
Below(p, q) == \A i \in DOMAIN p, j \in DOMAIN q : p[i].seqNum < q[j].seqNum
OrderInv ==
    /\ Increasing(rob) /\ Increasing(fromRename) /\ Increasing(toROB)
    /\ Below(rob, fromRename) /\ Below(rob, toROB) /\ Below(fromRename, toROB)
    /\ Above(lastCommitedSeqNum, rob) /\ Above(lastCommitedSeqNum, fromRename)
    /\ Above(lastCommitedSeqNum, toROB) /\ lastCommitedSeqNum <= seqNum
    /\ UpTo(rob, seqNum) /\ UpTo(fromRename, seqNum) /\ UpTo(toROB, seqNum)
    /\ inst # None =>
        /\ inst.seqNum = seqNum /\ lastCommitedSeqNum < seqNum
        /\ UpTo(rob, seqNum - 1) /\ UpTo(fromRename, seqNum - 1)
        /\ UpTo(toROB, seqNum - 1)

(* A queue with one more instruction.                                       *)
LEMMA AppendFull ==
    ASSUME NEW q \in Seq(FullInst), NEW x
    PROVE  /\ DOMAIN Append(q, x) = DOMAIN q \cup {Len(q) + 1}
           /\ Append(q, x)[Len(q) + 1] = x
           /\ \A i \in DOMAIN q : Append(q, x)[i] = q[i] /\ i < Len(q) + 1
OBVIOUS

(* A queue without its head.                                                *)
LEMMA TailFull ==
    ASSUME NEW q \in Seq(FullInst), q # <<>>
    PROVE  /\ 1 \in DOMAIN q /\ q[1] = Head(q)
           /\ \A i \in DOMAIN Tail(q) : /\ i + 1 \in DOMAIN q /\ i \in Nat
                                        /\ Tail(q)[i] = q[i + 1] /\ i + 1 > 1
           /\ \A i \in DOMAIN q : i # 1 => /\ i - 1 \in DOMAIN Tail(q)
                                           /\ Tail(q)[i - 1] = q[i]
BY SMTT(20)

(* A squash keeps the instructions of the ROB.                              *)
LEMMA MarkedSame ==
    ASSUME RobTypes, NEW low, NEW it, NEW s, Marked(low, it, s)
    PROVE  SameInsts(rob', rob)
<1>1. DOMAIN rob' = 1 .. Len(rob) /\ DOMAIN rob = 1 .. Len(rob)
  BY DEF RobTypes, Marked
<1> QED
  BY <1>1, Zenon DEF SameInsts, Marked

(* The steps that keep the instructions of the ROB, apart from marks.       *)
LEMMA RobKept ==
    ASSUME TypeInv,
           \/ RenameTick(Seq(ArchReg)) \/ IEWTick \/ CommitStart
           \/ (\E status : SquashAllStatus(status)) \/ SquashFromIEW
           \/ NoSquashAll \/ NoSquashFromIEW \/ GetInstsEnd \/ FaultHead
           \/ RetireEnd \/ CycleEnd \/ UNCHANGED rvars
    PROVE  SameInsts(rob', rob)
(* So does a squash from the tail.                                          *)
<1>ROBSquashSame. ASSUME RobTypes, NEW s \in Nat, ROBSquash(s)
                  PROVE  SameInsts(rob', rob)
  <2> USE <1>ROBSquashSame
  <2>1. CASE rob = <<>>
    <3>1. rob' = rob
      BY <2>1, ROBSquashMarks, Zenon DEF robvars
    <3> QED
      BY <3>1, Zenon DEF SameInsts, Same
  <2>2. CASE rob # <<>>
    BY <2>2, ROBSquashMarks, MarkedSame, Zenon
  <2> QED
    BY <2>1, <2>2, Zenon
<1>t. RobTypes /\ rob \in Seq(FullInst)
  BY Zenon DEF TypeInv, RobTypes
<1>s. rob' = rob => SameInsts(rob', rob)
  BY Zenon DEF SameInsts, Same
<1>1. CASE \/ RenameTick(Seq(ArchReg)) \/ IEWIdle \/ NoSquashAll
           \/ NoSquashFromIEW \/ GetInstsEnd \/ FaultHead
           \/ RetireEnd \/ UNCHANGED rvars
  <2>1. rob' = rob
    BY <1>1, Zenon DEF RenameTick, SquashSignal, UndoStep, UndoEnd, NoSquashSignal,
       RenameInst, RenameDestStep, SendInst, RenameEnd, RemoveStep, RemoveEnd,
       IEWIdle, NoSquashAll, NoSquashFromIEW, GetInstsEnd, FaultHead, RetireEnd,
       rvars, robvars
  <2> QED
    BY <1>s, <2>1, Zenon
<1>2. ASSUME NEW i \in DOMAIN rob, NEW v \in DOMAIN rob \cup {None}, IEWExecute(i, v)
      PROVE  SameInsts(rob', rob)
  <2>1. rob' = [rob EXCEPT ![i].executed = TRUE]
    BY <1>2, Zenon DEF IEWExecute
  <2>2. \A j \in DOMAIN rob : rob'[j] = rob[j] \/ rob'[j] = [rob[j] EXCEPT !.executed = TRUE]
    BY <2>1, Zenon
  <2>3. \A j \in DOMAIN rob : rob[j] \in FullInst
    BY <1>t, FullSeq, Zenon
  <2>4. \A j \in DOMAIN rob : Same(rob'[j], rob[j])
    BY <2>2, <2>3, ExecutedInst, ZenonT(30) DEF Same
  <2>5. DOMAIN rob' = DOMAIN rob
    BY <2>1, Zenon
  <2> QED
    BY <2>4, <2>5, Zenon DEF SameInsts
<1>3. CASE CommitStart
  <2>1. CASE commitStatus = "ROBSquashing" /\ ~doneSquashing
    <3>1. DoSquash(squashIt, squashedSeqNum)
      BY <1>3, <2>1, Zenon DEF CommitStart
    <3>2. squashIt \in 0 .. Len(rob) /\ squashedSeqNum \in Nat /\ RobTypes
      BY Zenon DEF TypeInv, RobTypes
    <3> QED
      BY <3>1, <3>2, DoSquashMarks, MarkedSame, Zenon
  <2>2. CASE ~(commitStatus = "ROBSquashing" /\ ~doneSquashing)
    <3>1. rob' = rob
      BY <1>3, <2>2, Zenon DEF CommitStart, robvars
    <3> QED
      BY <1>s, <3>1, Zenon
  <2> QED
    BY <2>1, <2>2, Zenon
<1>4. ASSUME NEW status, SquashAllStatus(status) PROVE SameInsts(rob', rob)
  BY <1>4, <1>t, SquashAllNum, <1>ROBSquashSame, Zenon DEF SquashAllStatus
<1>5. CASE SquashFromIEW
  <2>1. fromIEW.squashedSeqNum \in Nat \ {0}
    BY <1>5, Zenon DEF SquashFromIEW, IEWSquashes, TypeInv, CommitTypes, IEWType
  <2>2. \E s \in Nat : ROBSquash(s)
    BY <1>5, <2>1 DEF SquashFromIEW
  <2> QED
    BY <1>t, <2>2, <1>ROBSquashSame, Zenon
<1>6. CASE CycleEnd
  <2>1. rob' = [i \in DOMAIN rob |->
                IF rob[i].seqNum = fromIEW.executed
                THEN [rob[i] EXCEPT !.canCommit = TRUE] ELSE rob[i]]
    BY <1>6, Zenon DEF CycleEnd
  <2>2. \A j \in DOMAIN rob : rob'[j] = rob[j] \/ rob'[j] = [rob[j] EXCEPT !.canCommit = TRUE]
    BY <2>1, Zenon
  <2>3. \A j \in DOMAIN rob : rob[j] \in FullInst
    BY <1>t, FullSeq, Zenon
  <2>4. \A j \in DOMAIN rob : Same(rob'[j], rob[j])
    BY <2>2, <2>3, ReadyInst, ZenonT(30) DEF Same
  <2>5. DOMAIN rob' = DOMAIN rob
    BY <2>1, Zenon
  <2> QED
    BY <2>4, <2>5, Zenon DEF SameInsts
<1> QED
  BY <1>1, <1>2, <1>3, <1>4, <1>5, <1>6, Zenon DEF IEWTick

(* The steps that keep what is between rename and the ROB.                  *)
FrontSteps ==
    \/ SquashSignal \/ UndoStep \/ UndoEnd \/ NoSquashSignal \/ RenameDestStep
    \/ RenameEnd \/ RemoveStep \/ RemoveEnd \/ IEWTick
    \/ CommitStart \/ (\E status : SquashAllStatus(status)) \/ SquashFromIEW
    \/ NoSquashAll \/ NoSquashFromIEW \/ GetInstsEnd
    \/ RetireSquashed \/ FaultHead \/ RetireEnd
    \/ (\E squashAfter \in BOOLEAN : CommitHead(squashAfter))
    \/ UNCHANGED rvars

(* They do.                                                                 *)
LEMMA FrontKept ==
    ASSUME TypeInv, FrontSteps
    PROVE  /\ SameInsts(fromRename', fromRename) /\ UNCHANGED <<toROB, seqNum>>
           /\ inst' # None => inst # None /\ inst'.seqNum = inst.seqNum
<1>s. fromRename' = fromRename => SameInsts(fromRename', fromRename)
  BY Zenon DEF SameInsts, Same
<1>1. CASE SquashSignal
  <2>1. /\ fromRename' = [i \in DOMAIN fromRename |->
                            [fromRename[i] EXCEPT !.squashed = TRUE]]
        /\ UNCHANGED <<toROB, seqNum, inst>>
    BY <1>1, Zenon DEF SquashSignal
  <2>2. \A i \in DOMAIN fromRename : fromRename[i] \in FullInst
    BY FullSeq, Zenon DEF TypeInv, FrontTypes
  <2>3. \A i \in DOMAIN fromRename : Same(fromRename'[i], fromRename[i])
    BY <2>1, <2>2, SquashInst, Zenon
  <2>4. DOMAIN fromRename' = DOMAIN fromRename
    BY <2>1, Zenon
  <2> QED
    BY <2>1, <2>3, <2>4, Zenon DEF SameInsts
<1>2. CASE RenameDestStep
  <2>1. /\ UNCHANGED <<fromRename, toROB, seqNum>> /\ inst # None
        /\ \E q : inst' = [inst EXCEPT !.renamed = q]
    BY <1>2, Zenon DEF RenameDestStep
  <2>2. inst'.seqNum = inst.seqNum
    BY <2>1, Zenon DEF TypeInv, FrontTypes, DynInst
  <2> QED
    BY <1>s, <2>1, <2>2, Zenon
<1>3. CASE /\ FrontSteps /\ ~SquashSignal /\ ~RenameDestStep
  <2>1. UNCHANGED <<fromRename, toROB, seqNum, inst>>
    BY <1>3, Zenon DEF FrontSteps, UndoStep, UndoEnd, NoSquashSignal, RenameEnd,
       RemoveStep, RemoveEnd, IEWTick, IEWIdle, IEWExecute, CommitStart,
       SquashAllStatus, SquashFromIEW, NoSquashAll, NoSquashFromIEW,
       GetInstsEnd, RetireSquashed, FaultHead, RetireEnd, CommitHead, rvars,
       frontvars
  <2> QED
    BY <1>s, <2>1, Zenon
<1> QED
  BY <1>1, <1>2, <1>3, Zenon

(* All steps.                                                               *)
LEMMA FrontCases ==
    ASSUME [RRNext]_rvars
    PROVE  \/ FrontSteps \/ SendInst \/ GetInst \/ CycleEnd
           \/ \E dest \in Seq(ArchReg) : RenameInst(dest)
BY Zenon DEF FrontSteps, RRNext, RenameTick, CommitTick, SquashFromTC, SquashFromTrap,
       SquashFromSquashAfter

(* The program order is an invariant.                                       *)
LEMMA OrderInvariant == RRSpec => []OrderInv
(* The order depends only on the sequence numbers.                          *)
<1>OrderSame. ASSUME OrderInv, SameInsts(rob', rob), SameInsts(fromRename', fromRename),
                     UNCHANGED <<toROB, seqNum, lastCommitedSeqNum>>,
                     inst' # None => inst # None /\ inst'.seqNum = inst.seqNum
              PROVE  OrderInv'
  <2> USE <1>OrderSame
  <2>1. /\ DOMAIN rob' = DOMAIN rob /\ DOMAIN fromRename' = DOMAIN fromRename
        /\ \A i \in DOMAIN rob : rob'[i].seqNum = rob[i].seqNum
        /\ \A i \in DOMAIN fromRename : fromRename'[i].seqNum = fromRename[i].seqNum
    BY ZenonT(30) DEF SameInsts, Same
  <2>2. /\ Increasing(rob)' /\ Increasing(fromRename)' /\ Increasing(toROB)'
        /\ Below(rob, fromRename)' /\ Below(rob, toROB)' /\ Below(fromRename, toROB)'
    BY <2>1, ZenonT(30) DEF OrderInv, Increasing, Below
  <2>3. /\ Above(lastCommitedSeqNum, rob)' /\ Above(lastCommitedSeqNum, fromRename)'
        /\ Above(lastCommitedSeqNum, toROB)'
        /\ UpTo(rob, seqNum)' /\ UpTo(fromRename, seqNum)' /\ UpTo(toROB, seqNum)'
    BY <2>1, ZenonT(30) DEF OrderInv, Above, UpTo
  <2>4. inst # None => /\ UpTo(rob, seqNum - 1)' /\ UpTo(fromRename, seqNum - 1)'
                       /\ UpTo(toROB, seqNum - 1)'
    BY <2>1, Zenon DEF OrderInv, UpTo
  <2> QED
    BY <2>2, <2>3, <2>4, Zenon DEF OrderInv
(* The order is kept when an instruction is renamed and sent,               *)
<1>OrderFront. ASSUME TypeInv, ControlInv, OrderInv,
                      SendInst \/ \E dest \in Seq(ArchReg) : RenameInst(dest)
               PROVE  OrderInv'
  <2> USE <1>OrderFront
  <2>t. /\ rob \in Seq(FullInst) /\ fromRename \in Seq(FullInst)
        /\ toROB \in Seq(FullInst) /\ seqNum \in Nat /\ lastCommitedSeqNum \in Nat
    BY Zenon DEF TypeInv, RobTypes, FrontTypes, CommitTypes
  <2>n. /\ \A i \in DOMAIN rob : rob[i].seqNum \in Nat
        /\ \A i \in DOMAIN fromRename : fromRename[i].seqNum \in Nat
        /\ \A i \in DOMAIN toROB : toROB[i].seqNum \in Nat
    BY <2>t, FullSeq, Zenon
  <2>1. CASE \E dest \in Seq(ArchReg) : RenameInst(dest)
    <3>1. /\ UNCHANGED <<rob, fromRename, toROB, lastCommitedSeqNum>>
          /\ seqNum' = seqNum + 1 /\ inst'.seqNum = seqNum + 1
      BY <2>1, SMTT(20) DEF RenameInst, robvars, commitvars
    <3>2. /\ UpTo(rob, seqNum)' /\ UpTo(fromRename, seqNum)' /\ UpTo(toROB, seqNum)'
          /\ UpTo(rob, seqNum - 1)' /\ UpTo(fromRename, seqNum - 1)'
          /\ UpTo(toROB, seqNum - 1)'
      BY <2>t, <2>n, <3>1, SMTT(20) DEF OrderInv, UpTo
    <3>3. lastCommitedSeqNum' < seqNum' /\ lastCommitedSeqNum' <= seqNum'
      BY <2>t, <3>1, SMTT(20) DEF OrderInv
    <3>4. /\ Increasing(rob)' /\ Increasing(fromRename)' /\ Increasing(toROB)'
          /\ Below(rob, fromRename)' /\ Below(rob, toROB)' /\ Below(fromRename, toROB)'
          /\ Above(lastCommitedSeqNum, rob)' /\ Above(lastCommitedSeqNum, fromRename)'
          /\ Above(lastCommitedSeqNum, toROB)'
      BY <3>1, ZenonT(30) DEF OrderInv, Increasing, Below, Above
    <3> QED
      BY <3>1, <3>2, <3>3, <3>4, Zenon DEF OrderInv
  <2>2. CASE SendInst
    <3>1. /\ UNCHANGED <<rob, fromRename, seqNum, lastCommitedSeqNum>>
          /\ toROB' = Append(toROB, inst) /\ inst' = None
          /\ inst # None /\ inst.seqNum = seqNum /\ lastCommitedSeqNum < seqNum
      BY <2>2, Zenon DEF SendInst, robvars, commitvars, OrderInv
    <3>2. /\ DOMAIN toROB' = DOMAIN toROB \cup {Len(toROB) + 1}
          /\ toROB'[Len(toROB) + 1].seqNum = seqNum
          /\ \A i \in DOMAIN toROB : toROB'[i] = toROB[i] /\ i < Len(toROB) + 1
          /\ Len(toROB) \in Nat /\ DOMAIN toROB = 1 .. Len(toROB)
      BY <2>t, <3>1, AppendFull, FullSeq, SMTT(20)
    <3>3. Increasing(toROB)'
      BY <2>n, <3>1, <3>2, <2>t, SMTT(20) DEF OrderInv, Increasing, UpTo
    <3>4. /\ Increasing(rob)' /\ Increasing(fromRename)' /\ Below(rob, fromRename)'
          /\ Above(lastCommitedSeqNum, rob)' /\ Above(lastCommitedSeqNum, fromRename)'
          /\ UpTo(rob, seqNum)' /\ UpTo(fromRename, seqNum)'
      BY <3>1, ZenonT(30) DEF OrderInv, Increasing, Below, Above, UpTo
    <3>5. Below(rob, toROB)' /\ Below(fromRename, toROB)'
      BY <2>n, <3>1, <3>2, <2>t, SMTT(20) DEF OrderInv, Below, UpTo
    <3>6. Above(lastCommitedSeqNum, toROB)' /\ UpTo(toROB, seqNum)'
      BY <2>n, <3>1, <3>2, <2>t DEF OrderInv, Above, UpTo
    <3> QED
      BY <3>1, <3>3, <3>4, <3>5, <3>6, Zenon DEF OrderInv
  <2> QED
    BY <2>1, <2>2, Zenon
(* when the ROB takes it,                                                   *)
<1>OrderGet. ASSUME TypeInv, ControlInv, OrderInv, GetInst
             PROVE  OrderInv'
  <2> USE <1>OrderGet
  <2>t. /\ rob \in Seq(FullInst) /\ fromRename \in Seq(FullInst)
        /\ toROB \in Seq(FullInst) /\ seqNum \in Nat /\ lastCommitedSeqNum \in Nat
    BY Zenon DEF TypeInv, RobTypes, FrontTypes, CommitTypes
  <2>n. /\ \A i \in DOMAIN rob : rob[i].seqNum \in Nat
        /\ \A i \in DOMAIN fromRename : fromRename[i].seqNum \in Nat
        /\ \A i \in DOMAIN toROB : toROB[i].seqNum \in Nat
    BY <2>t, FullSeq, Zenon
  <2>1. /\ UNCHANGED <<toROB, seqNum, inst, lastCommitedSeqNum>> /\ inst = None
        /\ fromRename # <<>> /\ fromRename' = Tail(fromRename)
        /\ rob' = rob \/ rob' = Append(rob, Head(fromRename))
    BY Zenon DEF GetInst, frontvars, ControlInv
  <2>2. /\ 1 \in DOMAIN fromRename /\ fromRename[1] = Head(fromRename)
        /\ \A i \in DOMAIN fromRename' : /\ i + 1 \in DOMAIN fromRename /\ i \in Nat
                                         /\ fromRename'[i] = fromRename[i + 1]
                                         /\ i + 1 > 1
    BY <2>t, <2>1, TailFull, Zenon
  <2>3. /\ Increasing(toROB)' /\ Above(lastCommitedSeqNum, toROB)'
        /\ UpTo(toROB, seqNum)'
    BY <2>1, Zenon DEF OrderInv, Increasing, Above, UpTo
  <2>4. Increasing(fromRename)'
    BY <2>1, <2>2, SMTT(20) DEF OrderInv, Increasing
  <2>5. /\ Above(lastCommitedSeqNum, fromRename)' /\ UpTo(fromRename, seqNum)'
        /\ Below(fromRename, toROB)'
    BY <2>1, <2>2, Zenon DEF OrderInv, Above, UpTo, Below
  <2>6. CASE rob' = rob
    <3>1. /\ Increasing(rob)' /\ Below(rob, toROB)' /\ Above(lastCommitedSeqNum, rob)'
          /\ UpTo(rob, seqNum)'
      BY <2>1, <2>6, ZenonT(30) DEF OrderInv, Increasing, Below, Above, UpTo
    <3>2. Below(rob, fromRename)'
      BY <2>2, <2>6, ZenonT(30) DEF OrderInv, Below
    <3> QED
      BY <2>1, <2>3, <2>4, <2>5, <3>1, <3>2, Zenon DEF OrderInv
  <2>7. CASE rob' = Append(rob, Head(fromRename))
    <3>1. /\ DOMAIN rob' = DOMAIN rob \cup {Len(rob) + 1}
          /\ rob'[Len(rob) + 1] = fromRename[1]
          /\ \A i \in DOMAIN rob : rob'[i] = rob[i] /\ i < Len(rob) + 1
          /\ Len(rob) \in Nat /\ DOMAIN rob = 1 .. Len(rob)
      BY <2>t, <2>2, <2>7, AppendFull, FullSeq, SMTT(20)
    <3>2. Increasing(rob)'
      BY <2>n, <2>2, <3>1, SMTT(20) DEF OrderInv, Increasing, Below
    <3>3. Below(rob, fromRename)'
      BY <2>n, <2>2, <3>1, ZenonT(30) DEF OrderInv, Increasing, Below
    <3>4. Below(rob, toROB)' /\ Above(lastCommitedSeqNum, rob)' /\ UpTo(rob, seqNum)'
      BY <2>n, <2>1, <2>2, <3>1, ZenonT(30) DEF OrderInv, Below, Above, UpTo
    <3> QED
      BY <2>1, <2>3, <2>4, <2>5, <3>2, <3>3, <3>4, Zenon DEF OrderInv
  <2> QED
    BY <2>1, <2>6, <2>7, Zenon
(* when the head leaves the ROB,                                            *)
<1>OrderRetire. ASSUME TypeInv, ControlInv, OrderInv, HeadReady, rob' = Tail(rob),
                       UNCHANGED <<toROB, fromRename, seqNum, inst>>,
                       lastCommitedSeqNum' \in {lastCommitedSeqNum, Head(rob).seqNum}
                PROVE  OrderInv'
  <2> USE <1>OrderRetire
  <2>t. /\ rob \in Seq(FullInst) /\ fromRename \in Seq(FullInst)
        /\ toROB \in Seq(FullInst) /\ seqNum \in Nat /\ lastCommitedSeqNum \in Nat
    BY Zenon DEF TypeInv, RobTypes, FrontTypes, CommitTypes
  <2>n. /\ \A i \in DOMAIN rob : rob[i].seqNum \in Nat
        /\ \A i \in DOMAIN fromRename : fromRename[i].seqNum \in Nat
        /\ \A i \in DOMAIN toROB : toROB[i].seqNum \in Nat
    BY <2>t, FullSeq, Zenon
  <2>1. rob # <<>> /\ inst = None
    BY Zenon DEF HeadReady, ControlInv
  <2>2. /\ 1 \in DOMAIN rob /\ rob[1] = Head(rob)
        /\ \A i \in DOMAIN rob' : /\ i + 1 \in DOMAIN rob /\ i \in Nat
                                  /\ rob'[i] = rob[i + 1] /\ i + 1 > 1
    BY <2>t, <2>1, TailFull, Zenon
  <2>3. /\ Increasing(fromRename)' /\ Increasing(toROB)' /\ Below(fromRename, toROB)'
        /\ UpTo(fromRename, seqNum)' /\ UpTo(toROB, seqNum)'
    BY ZenonT(30) DEF OrderInv, Increasing, Below, UpTo
  <2>4. Increasing(rob)'
    BY <2>2, SMTT(20) DEF OrderInv, Increasing
  <2>5. Below(rob, fromRename)' /\ Below(rob, toROB)' /\ UpTo(rob, seqNum)'
    BY <2>2, ZenonT(30) DEF OrderInv, Below, UpTo
  <2>6. Above(lastCommitedSeqNum, rob)'
    BY <2>n, <2>2, ZenonT(30) DEF OrderInv, Above, Increasing
  <2>7. /\ Above(lastCommitedSeqNum, fromRename)' /\ Above(lastCommitedSeqNum, toROB)'
        /\ lastCommitedSeqNum' <= seqNum'
    BY <2>n, <2>2, Zenon DEF OrderInv, Above, Below, UpTo
  <2> QED
    BY <2>1, <2>3, <2>4, <2>5, <2>6, <2>7, Zenon DEF OrderInv
(* and when the wires advance.                                              *)
<1>OrderCycle. ASSUME TypeInv, ControlInv, OrderInv, SameInsts(rob', rob),
                      fromRename' = toROB, toROB' = <<>>, inst = None,
                      UNCHANGED <<seqNum, inst, lastCommitedSeqNum>>
               PROVE  OrderInv'
  <2> USE <1>OrderCycle
  <2>1. /\ DOMAIN rob' = DOMAIN rob /\ DOMAIN toROB' = {}
        /\ \A i \in DOMAIN rob : rob'[i].seqNum = rob[i].seqNum
    BY SMTT(20) DEF SameInsts, Same
  <2>2. /\ Increasing(rob)' /\ Increasing(fromRename)' /\ Increasing(toROB)'
        /\ Below(rob, fromRename)' /\ Below(rob, toROB)' /\ Below(fromRename, toROB)'
    BY <2>1, ZenonT(30) DEF OrderInv, Increasing, Below
  <2>3. /\ Above(lastCommitedSeqNum, rob)' /\ Above(lastCommitedSeqNum, fromRename)'
        /\ Above(lastCommitedSeqNum, toROB)'
        /\ UpTo(rob, seqNum)' /\ UpTo(fromRename, seqNum)' /\ UpTo(toROB, seqNum)'
    BY <2>1, Zenon DEF OrderInv, Above, UpTo
  <2> QED
    BY <2>2, <2>3, Zenon DEF OrderInv
(* Only commit changes the last instruction that has committed.             *)
<1>LastKept. ASSUME [RRNext]_rvars,
                    ~ \E squashAfter \in BOOLEAN : CommitHead(squashAfter)
             PROVE  lastCommitedSeqNum' = lastCommitedSeqNum
  <2> USE <1>LastKept
  <2>1. CASE RenameTick(Seq(ArchReg))
    BY <2>1, Zenon DEF RenameTick, SquashSignal, UndoStep, UndoEnd, NoSquashSignal,
       RenameInst, RenameDestStep, SendInst, RenameEnd, RemoveStep, RemoveEnd,
       commitvars
  <2>2. CASE IEWTick \/ UNCHANGED rvars
    BY <2>2, Zenon DEF IEWTick, IEWIdle, IEWExecute, commitvars, rvars
  <2>3. CASE CommitTick \/ SquashFromTC
    BY <2>3, Zenon DEF CommitTick, SquashFromTC, SquashFromTrap, SquashFromSquashAfter,
       CommitStart, SquashAllStatus, SquashFromIEW, NoSquashAll, NoSquashFromIEW,
       GetInst, GetInstsEnd, RetireSquashed, FaultHead, RetireEnd, CycleEnd,
       commitvars
  <2> QED
    BY <2>1, <2>2, <2>3, Zenon DEF RRNext
(* Every step keeps the program order.                                      *)
<1>OrderStep. ASSUME TypeInv, ControlInv, OrderInv, [RRNext]_rvars
              PROVE  OrderInv'
  <2> USE <1>OrderStep
  <2>1. CASE SendInst \/ \E dest \in Seq(ArchReg) : RenameInst(dest)
    BY <2>1, <1>OrderFront, Zenon
  <2>2. CASE GetInst
    BY <2>2, <1>OrderGet, Zenon
  <2>3. CASE CycleEnd
    <3>1. /\ fromRename' = toROB /\ toROB' = <<>> /\ inst = None
          /\ UNCHANGED <<seqNum, inst, lastCommitedSeqNum>>
      BY <2>3, Zenon DEF CycleEnd, commitvars, ControlInv
    <3>2. SameInsts(rob', rob)
      BY <2>3, RobKept, Zenon
    <3> QED
      BY <3>1, <3>2, <1>OrderCycle, Zenon
  <2>4. CASE FrontSteps
    <3>1. /\ SameInsts(fromRename', fromRename) /\ UNCHANGED <<toROB, seqNum>>
          /\ inst' # None => inst # None /\ inst'.seqNum = inst.seqNum
      BY <2>4, FrontKept, Zenon
    <3>2. CASE RetireSquashed \/ \E squashAfter \in BOOLEAN : CommitHead(squashAfter)
      <4>1. /\ HeadReady /\ rob' = Tail(rob)
            /\ UNCHANGED <<toROB, fromRename, seqNum, inst>>
            /\ lastCommitedSeqNum' \in {lastCommitedSeqNum, Head(rob).seqNum}
        BY <3>2, Zenon DEF RetireSquashed, CommitHead, frontvars, commitvars
      <4> QED
        BY <4>1, <1>OrderRetire, Zenon
    <3>3. CASE ~(RetireSquashed \/ \E squashAfter \in BOOLEAN : CommitHead(squashAfter))
      <4>1. lastCommitedSeqNum' = lastCommitedSeqNum
        BY <3>3, <1>LastKept, Zenon
      <4>2. SameInsts(rob', rob)
        BY <2>4, <3>3, RobKept, Zenon DEF FrontSteps, RenameTick
      <4> QED
        BY <3>1, <4>1, <4>2, <1>OrderSame, Zenon
    <3> QED
      BY <3>2, <3>3, Zenon
  <2> QED
    BY <2>1, <2>2, <2>3, <2>4, FrontCases, Zenon
<1>1. RRInit => OrderInv
  <2> SUFFICES ASSUME RRInit PROVE OrderInv
    BY Zenon
  <2>1. /\ DOMAIN rob = {} /\ DOMAIN fromRename = {} /\ DOMAIN toROB = {}
        /\ inst = None /\ lastCommitedSeqNum = 0 /\ seqNum = 0
    BY DEF RRInit
  <2> QED
    BY <2>1 DEF OrderInv, Increasing, Below, Above, UpTo
<1>2. Base /\ OrderInv /\ [RRNext]_rvars => OrderInv'
  BY <1>OrderStep, Zenon DEF Base
<1> QED
  BY <1>1, <1>2, BaseInvariant, PTL DEF RRSpec

-----------------------------------------------------------------------------
(* A sequence number older than all that is on its way to the ROB.          *)
Older(s) == /\ s <= seqNum /\ (inst # None => s < seqNum)
            /\ Above(s, toROB) /\ Above(s, fromRename)

(* What IEW reports to commit is about instructions that are in the ROB, or *)
(* have been: older than all that are on their way to it.                   *)
AgesInv ==
    /\ toCommit.executed # None => Older(toCommit.executed)
    /\ toCommit.squashedSeqNum # None => Older(toCommit.squashedSeqNum)
    /\ fromIEW.executed # None => Older(fromIEW.executed)
    /\ fromIEW.squashedSeqNum # None => Older(fromIEW.squashedSeqNum)

(* So they are at all times.                                                *)
LEMMA AgesInvariant == RRSpec => []AgesInv
(* An instruction older than those on their way stays so.                   *)
<1>OlderKept. ASSUME TypeInv, ControlInv, OrderInv, [RRNext]_rvars, NEW s \in Nat, Older(s)
              PROVE  Older(s)'
  <2> USE <1>OlderKept
  <2>t. /\ fromRename \in Seq(FullInst) /\ toROB \in Seq(FullInst) /\ seqNum \in Nat
    BY Zenon DEF TypeInv, FrontTypes
  <2>n. /\ \A i \in DOMAIN fromRename : fromRename[i].seqNum \in Nat
        /\ \A i \in DOMAIN toROB : toROB[i].seqNum \in Nat
    BY <2>t, FullSeq, Zenon
  <2>1. CASE FrontSteps
    <3>1. /\ SameInsts(fromRename', fromRename) /\ UNCHANGED <<toROB, seqNum>>
          /\ inst' # None => inst # None /\ inst'.seqNum = inst.seqNum
      BY <2>1, FrontKept, Zenon
    <3>2. /\ DOMAIN fromRename' = DOMAIN fromRename
          /\ \A i \in DOMAIN fromRename : fromRename'[i].seqNum = fromRename[i].seqNum
      BY <3>1, Zenon DEF SameInsts, Same
    <3> QED
      BY <3>1, <3>2, Zenon DEF Older, Above
  <2>2. CASE SendInst
    <3>1. /\ UNCHANGED <<fromRename, seqNum>> /\ toROB' = Append(toROB, inst)
          /\ inst' = None /\ inst # None /\ inst.seqNum = seqNum
      BY <2>2, Zenon DEF SendInst, OrderInv
    <3>2. /\ DOMAIN toROB' = DOMAIN toROB \cup {Len(toROB) + 1}
          /\ toROB'[Len(toROB) + 1].seqNum = seqNum
          /\ \A i \in DOMAIN toROB : toROB'[i] = toROB[i]
      BY <2>t, <3>1, AppendFull, SMTT(20)
    <3> QED
      BY <3>1, <3>2, Zenon DEF Older, Above
  <2>3. CASE GetInst
    <3>1. /\ UNCHANGED <<toROB, seqNum, inst>>
          /\ fromRename # <<>> /\ fromRename' = Tail(fromRename)
      BY <2>3, Zenon DEF GetInst, frontvars
    <3>2. \A i \in DOMAIN fromRename' : /\ i + 1 \in DOMAIN fromRename
                                        /\ fromRename'[i] = fromRename[i + 1]
      BY <2>t, <3>1, TailFull, Zenon
    <3> QED
      BY <3>1, <3>2, Zenon DEF Older, Above
  <2>4. CASE CycleEnd
    BY <2>4, SMTT(20) DEF CycleEnd, Older, Above
  <2>5. CASE \E dest \in Seq(ArchReg) : RenameInst(dest)
    BY <2>5, <2>t DEF RenameInst, Older, Above
  <2> QED
    BY <2>1, <2>2, <2>3, <2>4, <2>5, FrontCases, Zenon
(* Only IEW and the end of the cycle change what IEW reports.               *)
<1>ReportKept. ASSUME [RRNext]_rvars, ~IEWTick, ~CycleEnd
               PROVE  UNCHANGED <<toCommit, fromIEW>>
  <2> USE <1>ReportKept
  <2>1. CASE RenameTick(Seq(ArchReg))
    BY <2>1, Zenon DEF RenameTick, SquashSignal, UndoStep, UndoEnd, NoSquashSignal,
       RenameInst, RenameDestStep, SendInst, RenameEnd, RemoveStep, RemoveEnd
  <2>2. CASE CommitTick \/ SquashFromTC
    BY <2>2, Zenon DEF CommitTick, SquashFromTC, SquashFromTrap, SquashFromSquashAfter,
       CommitStart, SquashAllStatus, SquashFromIEW, NoSquashAll, NoSquashFromIEW,
       GetInst, GetInstsEnd, RetireSquashed, FaultHead, RetireEnd, CommitHead
  <2> QED
    BY <2>1, <2>2, Zenon DEF RRNext, rvars
(* The reports stay older than what is on its way.                          *)
<1>AgesStep. ASSUME TypeInv, ControlInv, OrderInv, AgesInv, [RRNext]_rvars
             PROVE  AgesInv'
  <2> USE <1>AgesStep
  <2>t. /\ toCommit.executed # None => toCommit.executed \in Nat
        /\ toCommit.squashedSeqNum # None => toCommit.squashedSeqNum \in Nat
        /\ fromIEW.executed # None => fromIEW.executed \in Nat
        /\ fromIEW.squashedSeqNum # None => fromIEW.squashedSeqNum \in Nat
    BY Zenon DEF TypeInv, CommitTypes, IEWType
  <2> DEFINE Old(s) == /\ s <= seqNum' /\ (inst' # None => s < seqNum')
                       /\ Above(s, toROB') /\ Above(s, fromRename')
  <2>a. \A s \in Nat : Older(s) => Old(s)
    BY <1>OlderKept, Zenon DEF Older, Above
  <2>o. /\ toCommit.executed # None => Old(toCommit.executed)
        /\ toCommit.squashedSeqNum # None => Old(toCommit.squashedSeqNum)
        /\ fromIEW.executed # None => Old(fromIEW.executed)
        /\ fromIEW.squashedSeqNum # None => Old(fromIEW.squashedSeqNum)
    <3> HIDE DEF Old
    <3> QED
      BY <2>t, <2>a, Zenon DEF AgesInv
  <2> SUFFICES /\ toCommit'.executed # None => Old(toCommit'.executed)
               /\ toCommit'.squashedSeqNum # None => Old(toCommit'.squashedSeqNum)
               /\ fromIEW'.executed # None => Old(fromIEW'.executed)
               /\ fromIEW'.squashedSeqNum # None => Old(fromIEW'.squashedSeqNum)
    BY ZenonT(30) DEF AgesInv, Older, Above
  <2>1. ASSUME NEW i \in DOMAIN rob PROVE Older(rob[i].seqNum) \/ inst # None
    BY ZenonT(30) DEF OrderInv, Older, UpTo, Below, Above
  <2>2. CASE CycleEnd
    <3>1. fromIEW' = toCommit /\ toCommit' = NoIEW
      BY <2>2, Zenon DEF CycleEnd
    <3> HIDE DEF Old
    <3> QED
      BY <3>1, <2>o, Zenon DEF NoIEW
  <2>3. CASE IEWIdle
    <3>1. fromIEW' = fromIEW /\ toCommit' = NoIEW
      BY <2>3, Zenon DEF IEWIdle
    <3> HIDE DEF Old
    <3> QED
      BY <3>1, <2>o, Zenon DEF NoIEW
  <2>4. ASSUME NEW i \in DOMAIN rob, NEW v \in DOMAIN rob \cup {None}, IEWExecute(i, v)
        PROVE  /\ toCommit'.executed # None => Old(toCommit'.executed)
               /\ toCommit'.squashedSeqNum # None => Old(toCommit'.squashedSeqNum)
               /\ fromIEW'.executed # None => Old(fromIEW'.executed)
               /\ fromIEW'.squashedSeqNum # None => Old(fromIEW'.squashedSeqNum)
    <3>1. /\ fromIEW' = fromIEW /\ toCommit'.executed = rob[i].seqNum /\ inst = None
          /\ toCommit'.squashedSeqNum = IF v = None THEN None ELSE rob[v].seqNum
      BY <2>4, Zenon DEF IEWExecute, ControlInv
    <3>2. \A j \in DOMAIN rob : rob[j].seqNum \in Nat /\ Older(rob[j].seqNum)
      BY <2>1, <3>1, FullSeq, Zenon DEF TypeInv, RobTypes
    <3> HIDE DEF Old
    <3> QED
      BY <3>1, <3>2, <2>o, <2>a, Zenon
  <2>5. CASE ~CycleEnd /\ ~IEWTick
    <3>1. UNCHANGED <<toCommit, fromIEW>>
      BY <2>5, <1>ReportKept, Zenon
    <3> HIDE DEF Old
    <3> QED
      BY <3>1, <2>o, Zenon
  <2> QED
    BY <2>2, <2>3, <2>4, <2>5, Zenon DEF IEWTick
<1>1. RRInit => AgesInv
  BY DEF RRInit, NoIEW, AgesInv
<1>2. Base /\ OrderInv /\ AgesInv /\ [RRNext]_rvars => AgesInv'
  BY <1>AgesStep, Zenon DEF Base
<1> QED
  BY <1>1, <1>2, BaseInvariant, OrderInvariant, PTL DEF RRSpec

-----------------------------------------------------------------------------
(* What the steps do to the ROB: it stays,                                  *)
RobStays ==
    \/ RenameTick(Seq(ArchReg)) \/ IEWIdle \/ NoSquashAll \/ NoSquashFromIEW
    \/ GetInstsEnd \/ FaultHead \/ RetireEnd \/ UNCHANGED rvars

(* a squash begins or goes on,                                              *)
RobSquashes ==
    CommitStart \/ SquashFromIEW \/ \E status : SquashAllStatus(status)

(* an instruction executes, the ones that have executed become ready, the   *)
(* head leaves, or an instruction enters.                                   *)
RobExecutes ==
    \E i \in DOMAIN rob, v \in DOMAIN rob \cup {None} : IEWExecute(i, v)
RobRetires ==
    RetireSquashed \/ \E squashAfter \in BOOLEAN : CommitHead(squashAfter)

(* These are all steps.                                                     *)
LEMMA RobCases ==
    ASSUME [RRNext]_rvars
    PROVE  \/ RobStays \/ RobSquashes \/ RobExecutes \/ RobRetires
           \/ CycleEnd \/ GetInst
BY Zenon DEF RobStays, RobSquashes, RobExecutes, RobRetires, RRNext, IEWTick,
       CommitTick, SquashFromTC, SquashFromTrap, SquashFromSquashAfter

(* Which steps leave the variables of the ROB alone.                        *)
LEMMA RobStaysEffect ==
    ASSUME RobStays
    PROVE  UNCHANGED <<rob, squashedSeqNum, squashIt, doneSquashing>>
BY Zenon DEF RobStays, RenameTick, SquashSignal, UndoStep, UndoEnd, NoSquashSignal,
       RenameInst, RenameDestStep, SendInst, RenameEnd, RemoveStep, RemoveEnd,
       IEWIdle, NoSquashAll, NoSquashFromIEW, GetInstsEnd, FaultHead, RetireEnd,
       rvars, robvars

(* What a squash does to the ROB.                                           *)
LEMMA RobSquashesEffect ==
    ASSUME TypeInv, RobSquashes
    PROVE  \/ UNCHANGED <<rob, squashedSeqNum, squashIt, doneSquashing>>
           \/ \E it \in 0 .. Len(rob), s \in Nat : \E low \in 0 .. it :
                Marked(low, it, s) /\ squashedSeqNum' = s
<1>t. RobTypes /\ Len(rob) \in 0 .. Len(rob)
  BY DEF TypeInv, RobTypes
<1>s. ASSUME NEW s \in Nat, ROBSquash(s)
      PROVE  \/ UNCHANGED <<rob, squashedSeqNum, squashIt, doneSquashing>>
             \/ \E it \in 0 .. Len(rob), n \in Nat : \E low \in 0 .. it :
                  Marked(low, it, n) /\ squashedSeqNum' = n
  BY <1>s, <1>t, ROBSquashMarks, Zenon DEF robvars
<1>1. CASE CommitStart
  <2>1. CASE commitStatus = "ROBSquashing" /\ ~doneSquashing
    <3>1. DoSquash(squashIt, squashedSeqNum) /\ squashedSeqNum' = squashedSeqNum
      BY <1>1, <2>1, Zenon DEF CommitStart
    <3>2. squashIt \in 0 .. Len(rob) /\ squashedSeqNum \in Nat
      BY Zenon DEF TypeInv, RobTypes
    <3>3. \E low \in 0 .. squashIt : Marked(low, squashIt, squashedSeqNum)
      BY <1>t, <3>1, <3>2, DoSquashMarks, Zenon
    <3> QED
      BY <3>1, <3>2, <3>3, Zenon
  <2>2. CASE ~(commitStatus = "ROBSquashing" /\ ~doneSquashing)
    BY <1>1, <2>2, Zenon DEF CommitStart, robvars
  <2> QED
    BY <2>1, <2>2, Zenon
<1>2. ASSUME NEW status, SquashAllStatus(status)
      PROVE  \E s \in Nat : ROBSquash(s)
  BY <1>2, SquashAllNum, Zenon DEF SquashAllStatus
<1>3. CASE SquashFromIEW
  <2>1. fromIEW.squashedSeqNum \in Nat \ {0}
    BY <1>3, Zenon DEF SquashFromIEW, IEWSquashes, TypeInv, CommitTypes, IEWType
  <2>2. \E s \in Nat : ROBSquash(s)
    BY <1>3, <2>1 DEF SquashFromIEW
  <2> QED
    BY <2>2, <1>s, Zenon
<1> QED
  BY <1>s, <1>1, <1>2, <1>3, Zenon DEF RobSquashes

(* What the execution of an instruction does to the ROB.                    *)
LEMMA RobExecutesEffect ==
    ASSUME TypeInv, NEW i \in DOMAIN rob, NEW v, IEWExecute(i, v)
    PROVE  /\ DOMAIN rob' = DOMAIN rob
           /\ rob'[i].executed /\ Same(rob'[i], rob[i])
           /\ rob'[i].squashed = rob[i].squashed
           /\ rob'[i].canCommit = rob[i].canCommit
           /\ \A j \in DOMAIN rob : j # i => rob'[j] = rob[j]
           /\ UNCHANGED <<squashedSeqNum, squashIt, doneSquashing>>
<1>1. /\ rob' = [rob EXCEPT ![i].executed = TRUE]
      /\ UNCHANGED <<squashedSeqNum, squashIt, doneSquashing>>
  BY Zenon DEF IEWExecute
<1>2. rob'[i] = [rob[i] EXCEPT !.executed = TRUE]
  BY <1>1, Zenon
<1>3. rob[i] \in FullInst
  BY FullSeq, Zenon DEF TypeInv, RobTypes
<1>4. /\ rob'[i].executed /\ Same(rob'[i], rob[i])
      /\ rob'[i].squashed = rob[i].squashed
      /\ rob'[i].canCommit = rob[i].canCommit
  BY <1>2, <1>3, ExecutedInst, Zenon
<1>5. DOMAIN rob' = DOMAIN rob /\ \A j \in DOMAIN rob : j # i => rob'[j] = rob[j]
  BY <1>1, Zenon
<1> QED
  BY <1>1, <1>4, <1>5, Zenon

(* What the end of the cycle does to the ROB.                               *)
LEMMA CycleEndEffect ==
    ASSUME TypeInv, CycleEnd
    PROVE  /\ DOMAIN rob' = DOMAIN rob
           /\ \A i \in DOMAIN rob :
                /\ Same(rob'[i], rob[i])
                /\ rob'[i].squashed = rob[i].squashed
                /\ rob'[i].executed = rob[i].executed
                /\ rob'[i].canCommit => rob[i].canCommit
                                        \/ rob[i].seqNum = fromIEW.executed
           /\ UNCHANGED <<squashedSeqNum, squashIt, doneSquashing>>
<1>1. /\ rob' = [i \in DOMAIN rob |->
                IF rob[i].seqNum = fromIEW.executed
                THEN [rob[i] EXCEPT !.canCommit = TRUE] ELSE rob[i]]
      /\ UNCHANGED <<squashedSeqNum, squashIt, doneSquashing>>
  BY Zenon DEF CycleEnd
<1>2. DOMAIN rob' = DOMAIN rob
  BY <1>1, Zenon
<1>3. ASSUME NEW i \in DOMAIN rob
      PROVE  /\ Same(rob'[i], rob[i])
             /\ rob'[i].squashed = rob[i].squashed
             /\ rob'[i].executed = rob[i].executed
             /\ rob'[i].canCommit => rob[i].canCommit
                                     \/ rob[i].seqNum = fromIEW.executed
  <2>1. rob[i] \in FullInst
    BY FullSeq, Zenon DEF TypeInv, RobTypes
  <2>2. CASE rob[i].seqNum = fromIEW.executed
    <3>1. rob'[i] = [rob[i] EXCEPT !.canCommit = TRUE]
      BY <1>1, <2>2, Zenon
    <3> QED
      BY <2>1, <2>2, <3>1, ReadyInst, Zenon
  <2>3. CASE rob[i].seqNum # fromIEW.executed
    <3>1. rob'[i] = rob[i]
      BY <1>1, <2>3, Zenon
    <3> QED
      BY <3>1, Zenon DEF Same
  <2> QED
    BY <2>2, <2>3, ZenonT(30)
<1> QED
  BY <1>1, <1>2, <1>3, Zenon

-----------------------------------------------------------------------------
(* What may commit has executed or is squashed; what IEW reports as executed*)
(* has; nothing is ready before it enters the ROB.                          *)
RobMarks ==
    /\ \A i \in DOMAIN rob : rob[i].canCommit => rob[i].executed \/ rob[i].squashed
    /\ \A i \in DOMAIN rob : rob[i].seqNum = toCommit.executed => rob[i].executed
    /\ \A i \in DOMAIN rob : rob[i].seqNum = fromIEW.executed => rob[i].executed
FrontMarks ==
    /\ \A i \in DOMAIN fromRename : ~fromRename[i].canCommit
    /\ \A i \in DOMAIN toROB : ~toROB[i].canCommit /\ ~toROB[i].squashed
    /\ inst # None => ~inst.canCommit /\ ~inst.squashed

(* So they are at all times.                                                *)
LEMMA MarksInvariant == RRSpec => [](FrontMarks /\ RobMarks)
(* Instructions enter the ROB without marks.                                *)
<1>FrontMarksStep. ASSUME TypeInv, FrontMarks, [RRNext]_rvars
                   PROVE  FrontMarks'
  <2> USE <1>FrontMarksStep
  <2>t. /\ fromRename \in Seq(FullInst) /\ toROB \in Seq(FullInst)
    BY Zenon DEF TypeInv, FrontTypes
  <2>1. CASE SquashSignal
    <3>1. /\ fromRename' = [i \in DOMAIN fromRename |->
                              [fromRename[i] EXCEPT !.squashed = TRUE]]
          /\ UNCHANGED <<toROB, inst>>
      BY <2>1, Zenon DEF SquashSignal
    <3>2. \A i \in DOMAIN fromRename : fromRename[i] \in FullInst
      BY <2>t, FullSeq, Zenon
    <3>3. \A i \in DOMAIN fromRename : fromRename'[i].canCommit = fromRename[i].canCommit
      BY <3>1, <3>2, SquashInst, Zenon
    <3>4. DOMAIN fromRename' = DOMAIN fromRename
      BY <3>1, Zenon
    <3> QED
      BY <3>1, <3>3, <3>4, Zenon DEF FrontMarks
  <2>2. CASE RenameDestStep
    <3>1. /\ UNCHANGED <<fromRename, toROB>> /\ inst # None
          /\ \E q : inst' = [inst EXCEPT !.renamed = q]
      BY <2>2, Zenon DEF RenameDestStep
    <3>2. inst'.canCommit = inst.canCommit /\ inst'.squashed = inst.squashed
      BY <3>1, Zenon DEF TypeInv, FrontTypes, DynInst
    <3> QED
      BY <3>1, <3>2, Zenon DEF FrontMarks
  <2>3. CASE /\ FrontSteps /\ ~SquashSignal /\ ~RenameDestStep
    <3>1. UNCHANGED <<fromRename, toROB, seqNum, inst>>
      BY <2>3, Zenon DEF FrontSteps, UndoStep, UndoEnd, NoSquashSignal, RenameEnd,
         RemoveStep, RemoveEnd, IEWTick, IEWIdle, IEWExecute, CommitStart,
         SquashAllStatus, SquashFromIEW, NoSquashAll, NoSquashFromIEW,
         GetInstsEnd, RetireSquashed, FaultHead, RetireEnd, CommitHead, rvars,
         frontvars
    <3> QED
      BY <3>1, Zenon DEF FrontMarks
  <2>4. CASE SendInst
    <3>1. /\ fromRename' = fromRename /\ toROB' = Append(toROB, inst)
          /\ inst' = None /\ inst # None
      BY <2>4, Zenon DEF SendInst
    <3>2. /\ DOMAIN toROB' = DOMAIN toROB \cup {Len(toROB) + 1}
          /\ toROB'[Len(toROB) + 1] = inst
          /\ \A i \in DOMAIN toROB : toROB'[i] = toROB[i]
      BY <2>t, <3>1, AppendFull, SMTT(20)
    <3> QED
      BY <3>1, <3>2, Zenon DEF FrontMarks
  <2>5. CASE GetInst
    <3>1. /\ UNCHANGED <<toROB, inst>>
          /\ fromRename # <<>> /\ fromRename' = Tail(fromRename)
      BY <2>5, Zenon DEF GetInst, frontvars
    <3>2. \A i \in DOMAIN fromRename' : /\ i + 1 \in DOMAIN fromRename
                                        /\ fromRename'[i] = fromRename[i + 1]
      BY <2>t, <3>1, TailFull, Zenon
    <3> QED
      BY <3>1, <3>2, Zenon DEF FrontMarks
  <2>6. CASE CycleEnd
    BY <2>6 DEF CycleEnd, FrontMarks
  <2>7. CASE \E dest \in Seq(ArchReg) : RenameInst(dest)
    <3>1. UNCHANGED <<fromRename, toROB>> /\ ~inst'.canCommit /\ ~inst'.squashed
      BY <2>7 DEF RenameInst
    <3> QED
      BY <3>1, Zenon DEF FrontMarks
  <2> QED
    BY <2>1, <2>2, <2>3, <2>4, <2>5, <2>6, <2>7, FrontCases, Zenon
(* The marks of the ROB stay right.                                         *)
<1>RobMarksStep. ASSUME TypeInv, ControlInv, OrderInv, AgesInv, FrontMarks, RobMarks,
                        [RRNext]_rvars
                 PROVE  RobMarks'
  <2> USE <1>RobMarksStep
  <2>t. /\ rob \in Seq(FullInst) /\ fromRename \in Seq(FullInst)
        /\ DOMAIN rob = 1 .. Len(rob) /\ Len(rob) \in Nat
        /\ \A i \in DOMAIN rob : rob[i].seqNum \in Nat
    BY FullSeq, Zenon DEF TypeInv, FrontTypes, RobTypes
  <2>n. None \notin Nat
    BY WidthAssumption, Zenon
  <2>1. CASE RobStays
    <3>1. rob' = rob
      BY <2>1, RobStaysEffect, Zenon
    <3>3. fromIEW' = fromIEW /\ (toCommit' = toCommit \/ toCommit'.executed = None)
      BY <2>1 DEF RobStays, RenameTick, SquashSignal, UndoStep, UndoEnd,
         NoSquashSignal, RenameInst, RenameDestStep, SendInst, RenameEnd,
         RemoveStep, RemoveEnd, IEWIdle, NoSquashAll, NoSquashFromIEW,
         GetInstsEnd, FaultHead, RetireEnd, rvars, NoIEW
    <3> QED
      BY <2>t, <2>n, <3>1, <3>3, Zenon DEF RobMarks
  <2>2. CASE RobSquashes
    <3>1. UNCHANGED <<toCommit, fromIEW>>
      BY <2>2, Zenon DEF RobSquashes, CommitStart, SquashFromIEW, SquashAllStatus
    <3>2. CASE rob' = rob
      BY <3>1, <3>2, Zenon DEF RobMarks
    <3>3. ASSUME NEW it \in 0 .. Len(rob), NEW s \in Nat, NEW low \in 0 .. it,
                 Marked(low, it, s)
          PROVE  RobMarks'
      <4>1. /\ DOMAIN rob' = DOMAIN rob
            /\ \A i \in DOMAIN rob : /\ rob'[i].seqNum = rob[i].seqNum
                                     /\ rob'[i].executed = rob[i].executed
            /\ \A i \in DOMAIN rob : rob'[i] = rob[i] \/ rob'[i].squashed
        <5>1. DOMAIN rob' = DOMAIN rob
          BY <3>3, <2>t, MarkedSame, Zenon DEF SameInsts, TypeInv
        <5> QED
          BY <5>1, <3>3, <2>t, ZenonT(30) DEF Marked, Same
      <4> QED
        BY <3>1, <4>1, Zenon DEF RobMarks
    <3> QED
      BY <2>2, <3>2, <3>3, RobSquashesEffect, Zenon
  <2>3. ASSUME NEW i \in DOMAIN rob, NEW v, IEWExecute(i, v)
        PROVE  RobMarks'
    <3>1. /\ DOMAIN rob' = DOMAIN rob
          /\ rob'[i].executed /\ Same(rob'[i], rob[i])
          /\ \A j \in DOMAIN rob : j # i => rob'[j] = rob[j]
      BY <2>3, RobExecutesEffect, Zenon
    <3>2. fromIEW' = fromIEW /\ toCommit'.executed = rob[i].seqNum
      BY <2>3, Zenon DEF IEWExecute
    <3>3. \A j \in DOMAIN rob : j # i => rob[j].seqNum # rob[i].seqNum
      BY <2>t, SMTT(20) DEF OrderInv, Increasing
    <3> QED
      BY <3>1, <3>2, <3>3, ZenonT(30) DEF RobMarks
  <2>4. CASE CycleEnd
    <3>1. fromIEW' = toCommit /\ toCommit'.executed = None
      BY <2>4, Zenon DEF CycleEnd, NoIEW
    <3>2. /\ DOMAIN rob' = DOMAIN rob
          /\ \A i \in DOMAIN rob :
               /\ Same(rob'[i], rob[i])
               /\ rob'[i].squashed = rob[i].squashed
               /\ rob'[i].executed = rob[i].executed
               /\ rob'[i].canCommit => rob[i].canCommit
                                       \/ rob[i].seqNum = fromIEW.executed
      BY <2>4, CycleEndEffect, ZenonT(30)
    <3>3. \A i \in DOMAIN rob : rob'[i].seqNum # None
      BY <2>t, <2>n, <3>2, SMTT(20) DEF Same
    <3> QED
      BY <3>1, <3>2, <3>3, ZenonT(30) DEF RobMarks, Same
  <2>5. CASE RobRetires
    <3>1. rob # <<>> /\ rob' = Tail(rob) /\ UNCHANGED <<toCommit, fromIEW>>
      BY <2>5, Zenon DEF RobRetires, RetireSquashed, CommitHead, HeadReady
    <3>2. \A i \in DOMAIN rob' : i + 1 \in DOMAIN rob /\ rob'[i] = rob[i + 1]
      BY <2>t, <3>1, TailFull, Zenon
    <3> QED
      BY <3>1, <3>2, Zenon DEF RobMarks
  <2>6. CASE GetInst
    <3>1. /\ fromRename # <<>> /\ UNCHANGED <<toCommit, fromIEW>>
          /\ rob' = rob \/ rob' = Append(rob, Head(fromRename))
      BY <2>6, Zenon DEF GetInst
    <3>2. CASE rob' = rob
      BY <3>1, <3>2, Zenon DEF RobMarks
    <3>3. CASE rob' = Append(rob, Head(fromRename))
      <4>1. 1 \in DOMAIN fromRename /\ fromRename[1] = Head(fromRename)
        BY <2>t, <3>1, TailFull, Zenon
      <4>2. /\ DOMAIN rob' = DOMAIN rob \cup {Len(rob) + 1}
            /\ rob'[Len(rob) + 1] = fromRename[1]
            /\ \A i \in DOMAIN rob : rob'[i] = rob[i]
        BY <2>t, <3>3, <4>1, AppendFull, Zenon
      <4>3. ~fromRename[1].canCommit
        BY <4>1, Zenon DEF FrontMarks
      <4>4. fromRename[1].seqNum \in Nat
        BY <2>t, <4>1, FullSeq, Zenon
      <4>5. /\ toCommit.executed # None => /\ toCommit.executed \in Nat
                                           /\ toCommit.executed < fromRename[1].seqNum
            /\ fromIEW.executed # None => /\ fromIEW.executed \in Nat
                                          /\ fromIEW.executed < fromRename[1].seqNum
        BY <4>1, ZenonT(30) DEF AgesInv, Older, Above, TypeInv, CommitTypes, IEWType
      <4>6. fromRename[1].seqNum \notin {toCommit.executed, fromIEW.executed}
        BY <4>4, <4>5, <2>n, SMTT(20)
      <4> QED
        BY <3>1, <4>2, <4>3, <4>6, ZenonT(30) DEF RobMarks
    <3> QED
      BY <3>1, <3>2, <3>3, Zenon
  <2> QED
    BY <2>1, <2>2, <2>3, <2>4, <2>5, <2>6, RobCases, Zenon DEF RobExecutes
<1>1. RRInit => FrontMarks /\ RobMarks
  <2> SUFFICES ASSUME RRInit PROVE FrontMarks /\ RobMarks
    BY Zenon
  <2>1. /\ DOMAIN rob = {} /\ DOMAIN fromRename = {} /\ DOMAIN toROB = {}
        /\ inst = None
    BY DEF RRInit
  <2> QED
    BY <2>1, Zenon DEF FrontMarks, RobMarks
<1>2. /\ Base /\ OrderInv /\ AgesInv /\ FrontMarks /\ RobMarks /\ [RRNext]_rvars
      => FrontMarks' /\ RobMarks'
  BY <1>FrontMarksStep, <1>RobMarksStep, Zenon DEF Base
<1> QED
  BY <1>1, <1>2, BaseInvariant, OrderInvariant, AgesInvariant, PTL DEF RRSpec

-----------------------------------------------------------------------------
(* The instruction that IEW reports as executed cannot commit in the same   *)
(* cycle. So a squash that IEW asks for is for an instruction that has not  *)
(* committed when commit sees the request, a cycle later.                   *)
Waits == \E i \in DOMAIN rob : rob[i].seqNum = toCommit.executed /\ ~rob[i].canCommit
InCommit == \/ at = "commit"
            \/ /\ at \in {"squash", "iewsquash", "insts", "retire"}
               /\ commitStatus # "ROBSquashing"
Asking == at \in {"signals", "undo", "rename", "remove", "iew", "commit",
                  "squash", "iewsquash"}
ReportInv ==
    /\ toCommit.executed # None => /\ lastCommitedSeqNum < toCommit.executed
                                   /\ InCommit => Waits
    /\ toCommit.squashedSeqNum # None =>
            /\ toCommit.executed # None
            /\ toCommit.executed <= toCommit.squashedSeqNum
    /\ Asking /\ fromIEW.squashedSeqNum # None =>
            lastCommitedSeqNum < fromIEW.squashedSeqNum

(* So it is at all times.                                                   *)
LEMMA ReportInvariant == RRSpec => []ReportInv
(* Commit keeps it so.                                                      *)
<1>ReportCommit. ASSUME TypeInv, ControlInv, OrderInv, RobMarks, ReportInv,
                        CommitTick \/ SquashFromTC
                 PROVE  ReportInv'
  <2> USE <1>ReportCommit
  <2>t. /\ rob \in Seq(FullInst) /\ DOMAIN rob = 1 .. Len(rob) /\ Len(rob) \in Nat
        /\ \A i \in DOMAIN rob : rob[i].seqNum \in Nat
        /\ lastCommitedSeqNum \in Nat
        /\ toCommit.executed # None => toCommit.executed \in Nat
        /\ toCommit.squashedSeqNum # None => toCommit.squashedSeqNum \in Nat
    BY FullSeq, Zenon DEF TypeInv, RobTypes, CommitTypes, IEWType
  <2>1. CASE CommitStart
    <3>1. /\ at = "commit" /\ at' = "squash"
          /\ UNCHANGED <<lastCommitedSeqNum, toCommit, fromIEW>>
          /\ commitStatus' # "ROBSquashing" => rob' = rob
      BY <2>1, Zenon DEF CommitStart, robvars
    <3> QED
      BY <3>1, Zenon DEF ReportInv, InCommit, Waits, Asking
  <2>2. CASE SquashFromIEW \/ \E status : SquashAllStatus(status)
    <3>1. /\ at \in {"squash", "iewsquash"} /\ at' \in {"iewsquash", "end"}
          /\ commitStatus' = "ROBSquashing"
          /\ UNCHANGED <<lastCommitedSeqNum, toCommit, fromIEW>>
      BY <2>2, Zenon DEF SquashFromIEW, SquashAllStatus
    <3> QED
      BY <3>1, Zenon DEF ReportInv, InCommit, Asking
  <2>3. CASE \/ NoSquashAll \/ NoSquashFromIEW \/ GetInstsEnd \/ FaultHead \/ RetireEnd
    <3>1. /\ UNCHANGED <<rob, lastCommitedSeqNum, toCommit, fromIEW>>
          /\ at' = "end" \/ commitStatus' = commitStatus
          /\ at \in {"squash", "iewsquash", "insts", "retire"}
          /\ at' = "iewsquash" => at = "squash"
          /\ at' \in {"iewsquash", "insts", "retire", "end"}
      BY <2>3, Zenon DEF NoSquashAll, NoSquashFromIEW, GetInstsEnd, FaultHead, RetireEnd,
                  HeadReady, robvars, commitvars
    <3> QED
      BY <3>1, Zenon DEF ReportInv, InCommit, Waits, Asking
  <2>4. CASE GetInst
    <3>1. /\ UNCHANGED <<lastCommitedSeqNum, toCommit, fromIEW, commitStatus, at>>
          /\ at = "insts"
          /\ rob' = rob \/ rob' = Append(rob, Head(fromRename))
      BY <2>4, Zenon DEF GetInst
    <3>2. \A i \in DOMAIN rob : i \in DOMAIN rob' /\ rob'[i] = rob[i]
      BY <2>t, <3>1, AppendFull, SMTT(20)
    <3> QED
      BY <3>1, <3>2, Zenon DEF ReportInv, InCommit, Waits, Asking
  <2>5. CASE RobRetires
    <3>1. /\ rob # <<>> /\ rob' = Tail(rob) /\ UNCHANGED <<toCommit, fromIEW, at>>
          /\ at = "retire" /\ Head(rob).canCommit
          /\ commitStatus = "Running"
          /\ lastCommitedSeqNum' \in {lastCommitedSeqNum, Head(rob).seqNum}
      BY <2>5, Zenon DEF RobRetires, RetireSquashed, CommitHead, HeadReady, commitvars
    <3>2. /\ 1 \in DOMAIN rob /\ rob[1] = Head(rob)
          /\ \A i \in DOMAIN rob : i # 1 => i - 1 \in DOMAIN rob' /\ rob'[i - 1] = rob[i]
      BY <2>t, <3>1, TailFull, Zenon
    <3>3. ASSUME toCommit.executed # None
          PROVE  Waits' /\ lastCommitedSeqNum' < toCommit.executed
      <4>1. PICK i \in DOMAIN rob : rob[i].seqNum = toCommit.executed /\ ~rob[i].canCommit
        BY <3>1, <3>3, Zenon DEF ReportInv, InCommit, Waits
      <4>2. i # 1 /\ rob[1].seqNum < rob[i].seqNum
        BY <2>t, <3>1, <3>2, <4>1, SMTT(20) DEF OrderInv, Increasing
      <4>3. Waits'
        BY <3>1, <3>2, <4>1, <4>2, Zenon DEF Waits
      <4> QED
        BY <3>1, <3>2, <3>3, <4>1, <4>2, <4>3, Zenon DEF ReportInv
    <3> QED
      BY <3>1, <3>3, Zenon DEF ReportInv, Asking
  <2>6. CASE CycleEnd
    <3>1. /\ at' = "signals" /\ fromIEW' = toCommit /\ toCommit'.executed = None
          /\ toCommit'.squashedSeqNum = None /\ lastCommitedSeqNum' = lastCommitedSeqNum
      BY <2>6, Zenon DEF CycleEnd, NoIEW, commitvars
    <3> QED
      BY <2>t, <3>1 DEF ReportInv
  <2> QED
    BY <2>1, <2>2, <2>3, <2>4, <2>5, <2>6, Zenon
       DEF CommitTick, SquashFromTC, SquashFromTrap, SquashFromSquashAfter, RobRetires
(* All stages keep it so.                                                   *)
<1>ReportStep. ASSUME TypeInv, ControlInv, OrderInv, RobMarks, ReportInv, [RRNext]_rvars
               PROVE  ReportInv'
  <2> USE <1>ReportStep
  <2>1. CASE RenameTick(Seq(ArchReg))
    <3>1. UNCHANGED <<rob, lastCommitedSeqNum, toCommit, fromIEW>>
      BY <2>1, Zenon DEF RenameTick, SquashSignal, UndoStep, UndoEnd, NoSquashSignal,
         RenameInst, RenameDestStep, SendInst, RenameEnd, RemoveStep, RemoveEnd,
         robvars, commitvars
    <3>2. /\ at \in {"signals", "undo", "rename", "remove"}
          /\ at' \in {"undo", "rename", "remove", "iew"}
      BY <2>1, Zenon DEF RenameTick, SquashSignal, UndoStep, UndoEnd, NoSquashSignal,
         RenameInst, RenameDestStep, SendInst, RenameEnd, RemoveStep, RemoveEnd,
         ControlInv
    <3> QED
      BY <3>1, <3>2, Zenon DEF ReportInv, InCommit, Asking
  <2>2. CASE IEWIdle
    <3>1. /\ at = "iew" /\ at' = "commit" /\ toCommit'.executed = None
          /\ toCommit'.squashedSeqNum = None
          /\ UNCHANGED <<lastCommitedSeqNum, fromIEW>>
      BY <2>2, Zenon DEF IEWIdle, NoIEW, commitvars
    <3> QED
      BY <3>1, Zenon DEF ReportInv, Asking
  <2>3. ASSUME NEW i \in DOMAIN rob, NEW v \in DOMAIN rob \cup {None}, IEWExecute(i, v)
        PROVE  ReportInv'
    <3>1. /\ at = "iew" /\ at' = "commit" /\ toCommit'.executed = rob[i].seqNum
          /\ toCommit'.squashedSeqNum = IF v = None THEN None ELSE rob[v].seqNum
          /\ v # None => v \in DOMAIN rob /\ v >= i
          /\ UNCHANGED <<lastCommitedSeqNum, fromIEW>>
          /\ ~rob[i].executed /\ ~rob[i].squashed
      BY <2>3, Zenon DEF IEWExecute, InIEW, commitvars
    <3>2. /\ DOMAIN rob' = DOMAIN rob /\ Same(rob'[i], rob[i])
          /\ rob'[i].canCommit = rob[i].canCommit
      BY <2>3, RobExecutesEffect, ZenonT(30)
    <3>3. ~rob[i].canCommit
      BY <3>1, Zenon DEF RobMarks
    <3>4. Waits'
      BY <3>1, <3>2, <3>3, ZenonT(30) DEF Waits, Same
    <3>5. lastCommitedSeqNum < rob[i].seqNum
      BY ZenonT(30) DEF OrderInv, Above
    <3>6. v # None => rob[i].seqNum <= rob[v].seqNum /\ rob[i].seqNum # None
      <4>1. /\ DOMAIN rob = 1 .. Len(rob) /\ rob[i].seqNum \in Nat
            /\ Len(rob) \in Nat /\ \A j \in DOMAIN rob : rob[j].seqNum \in Nat
        BY FullSeq, Zenon DEF TypeInv, RobTypes
      <4> QED
        BY <3>1, <4>1, WidthAssumption, SMTT(20) DEF OrderInv, Increasing
    <3> QED
      BY <3>1, <3>4, <3>5, <3>6, Zenon DEF ReportInv, Asking
  <2>4. CASE UNCHANGED rvars
    <3>1. UNCHANGED <<rob, lastCommitedSeqNum, toCommit, fromIEW, at, commitStatus>>
      BY <2>4, Zenon DEF rvars, robvars, commitvars
    <3> QED
      BY <3>1, Zenon DEF ReportInv, InCommit, Waits, Asking
  <2> QED
    BY <2>1, <2>2, <2>3, <2>4, <1>ReportCommit, Zenon DEF RRNext, IEWTick
<1>1. RRInit => ReportInv
  BY DEF RRInit, NoIEW, ReportInv
<1>2. /\ Base /\ OrderInv /\ FrontMarks /\ RobMarks /\ ReportInv /\ [RRNext]_rvars
      => ReportInv'
  BY <1>ReportStep, Zenon DEF Base
<1> QED
  BY <1>1, <1>2, BaseInvariant, OrderInvariant, MarksInvariant, PTL DEF RRSpec

-----------------------------------------------------------------------------
(* What commit says is done, with and without a squash.                     *)
DoneInv ==
    /\ SquashSparesCommitted
    /\ ~commitInfo.squash => commitInfo.doneSeqNum <= lastCommitedSeqNum
    /\ at = "iewsquash" /\ commitInfo.squash => youngestSeqNum = lastCommitedSeqNum

(* It holds at all times.                                                   *)
LEMMA DoneInvariant == RRSpec => []DoneInv
(* Every step keeps it.                                                     *)
<1>DoneStep. ASSUME TypeInv, ControlInv, OrderInv, ReportInv, DoneInv, [RRNext]_rvars
             PROVE  DoneInv'
  <2> USE <1>DoneStep
  <2>t. /\ lastCommitedSeqNum \in Nat /\ commitInfo \in SignalType
        /\ fromIEW.squashedSeqNum # None => fromIEW.squashedSeqNum \in Nat
    BY Zenon DEF TypeInv, CommitTypes, IEWType
  <2>1. CASE RenameTick(Seq(ArchReg)) \/ IEWTick \/ UNCHANGED rvars
    <3>1. UNCHANGED <<commitInfo, lastCommitedSeqNum, youngestSeqNum>>
      BY <2>1, Zenon DEF RenameTick, SquashSignal, UndoStep, UndoEnd, NoSquashSignal,
         RenameInst, RenameDestStep, SendInst, RenameEnd, RemoveStep, RemoveEnd,
         IEWTick, IEWIdle, IEWExecute, commitvars, rvars
    <3>2. at' = "iewsquash" => at = "iewsquash"
      BY <2>1, Zenon DEF RenameTick, SquashSignal, UndoStep, UndoEnd, NoSquashSignal,
         RenameInst, RenameDestStep, SendInst, RenameEnd, RemoveStep, RemoveEnd,
         IEWTick, IEWIdle, IEWExecute, rvars
    <3> QED
      BY <3>1, <3>2, Zenon DEF DoneInv, SquashSparesCommitted
  <2>2. CASE CommitStart
    <3>1. /\ lastCommitedSeqNum' = lastCommitedSeqNum
          /\ ~commitInfo'.squash /\ commitInfo'.doneSeqNum = 0
      BY <2>2, SMTT(20) DEF CommitStart, NoSignal
    <3> QED
      BY <2>t, <3>1 DEF DoneInv, SquashSparesCommitted
  <2>3. ASSUME NEW status, SquashAllStatus(status)
        PROVE  DoneInv'
    <3>1. /\ lastCommitedSeqNum' = lastCommitedSeqNum
          /\ youngestSeqNum' = lastCommitedSeqNum
          /\ commitInfo'.squash
          /\ commitInfo'.doneSeqNum = IF rob = <<>> THEN lastCommitedSeqNum
                                      ELSE Head(rob).seqNum - 1
      BY <2>3, Zenon DEF SquashAllStatus, SquashSignalFor
    <3>2. rob # <<>> => Head(rob).seqNum \in Nat /\ lastCommitedSeqNum < Head(rob).seqNum
      BY HeadOfROB, Zenon DEF TypeInv, OrderInv, Above
    <3> QED
      BY <2>t, <3>1, <3>2, SMTT(20) DEF DoneInv, SquashSparesCommitted
  <2>4. CASE SquashFromIEW
    <3>1. /\ lastCommitedSeqNum' = lastCommitedSeqNum /\ at' = "end"
          /\ commitInfo'.squash /\ fromIEW.squashedSeqNum # None /\ at = "iewsquash"
          /\ commitInfo'.doneSeqNum \in {fromIEW.squashedSeqNum,
                                         fromIEW.squashedSeqNum - 1}
      BY <2>4, Zenon DEF SquashFromIEW, IEWSquashes, SquashSignalFor
    <3>2. lastCommitedSeqNum < fromIEW.squashedSeqNum
      BY <3>1, Zenon DEF ReportInv, Asking
    <3> QED
      BY <2>t, <3>1, <3>2, SMTT(20) DEF DoneInv, SquashSparesCommitted
  <2>5. CASE NoSquashAll \/ NoSquashFromIEW \/ GetInst \/ GetInstsEnd
             \/ RetireSquashed \/ FaultHead \/ RetireEnd \/ CycleEnd
    <3>1. /\ UNCHANGED <<lastCommitedSeqNum, commitInfo>>
          /\ at' = "iewsquash" => at = "squash"
      BY <2>5, Zenon DEF NoSquashAll, NoSquashFromIEW, GetInst, GetInstsEnd,
         RetireSquashed, FaultHead, RetireEnd, CycleEnd, HeadReady, commitvars
    <3> QED
      BY <3>1, Zenon DEF DoneInv, SquashSparesCommitted, ControlInv
  <2>6. ASSUME NEW squashAfter \in BOOLEAN, CommitHead(squashAfter)
        PROVE  DoneInv'
    <3>1. /\ lastCommitedSeqNum' = Head(rob).seqNum /\ at = "retire" /\ at' = at
          /\ commitInfo' = [commitInfo EXCEPT !.doneSeqNum = Head(rob).seqNum]
          /\ rob # <<>>
      BY <2>6, Zenon DEF CommitHead, HeadReady
    <3>2. /\ commitInfo'.squash = commitInfo.squash
          /\ commitInfo'.doneSeqNum = Head(rob).seqNum
      BY <2>t, <3>1, Zenon DEF SignalType
    <3>3. ~commitInfo.squash /\ Head(rob).seqNum \in Nat
      BY <3>1, HeadOfROB, Zenon DEF ControlInv, TypeInv
    <3> QED
      BY <3>1, <3>2, <3>3 DEF DoneInv, SquashSparesCommitted
  <2> QED
    BY <2>1, <2>2, <2>3, <2>4, <2>5, <2>6, Zenon
       DEF RRNext, CommitTick, SquashFromTC, SquashFromTrap, SquashFromSquashAfter
<1>1. RRInit => DoneInv
  BY DEF RRInit, NoSignal, DoneInv, SquashSparesCommitted
<1>2. Base /\ OrderInv /\ ReportInv /\ DoneInv /\ [RRNext]_rvars => DoneInv'
  BY <1>DoneStep, Zenon DEF Base
<1> QED
  BY <1>1, <1>2, BaseInvariant, OrderInvariant, ReportInvariant, PTL DEF RRSpec

(* No squash signal covers an instruction that has committed, for any       *)
(* number of registers and any widths: the requests of IEW, which commit    *)
(* sees a cycle late, are for instructions that could not commit meanwhile, *)
(* or are younger than what has been squashed (Commit::squashAll, tick).    *)
THEOREM SquashSparesCommittedTheorem == RRSpec => []SquashSparesCommitted
<1>1. DoneInv => SquashSparesCommitted
  BY Zenon DEF DoneInv
<1> QED
  BY <1>1, DoneInvariant, PTL
=============================================================================
