------------------------- MODULE RenameHistoryProofs -------------------------
(* Proofs about renaming, the ROB and commit: what the history of renaming  *)
(* says about the instructions in flight.                                   *)
EXTENDS RenameROBProofs

(* The entries of the history are in program order, and those of registers  *)
(* that are not renamed have no effect.                                     *)
Ordered(h) == \A i, j \in DOMAIN h : i < j => h[i].instSeqNum <= h[j].instSeqNum
EntriesUpTo(h, s) == \A i \in DOMAIN h : h[i].instSeqNum <= s
MiscConst(h, m) ==
    \A i \in DOMAIN h : h[i].archReg \in MiscReg =>
        h[i].newPhysReg = m[h[i].archReg] /\ h[i].prevPhysReg = m[h[i].archReg]
HistoryInv ==
    /\ Ordered(historyBuffer) /\ EntriesUpTo(historyBuffer, seqNum)
    /\ MiscConst(historyBuffer, renameMap)

(* What is known of the entries of the history.                             *)
LEMMA EntryTypes ==
    ASSUME RNInv
    PROVE  /\ Len(historyBuffer) \in Nat
           /\ DOMAIN historyBuffer = 1 .. Len(historyBuffer)
           /\ renameMap \in [ArchReg -> PhysReg]
           /\ \A i \in DOMAIN historyBuffer :
                /\ historyBuffer[i] \in RenameHistory
                /\ historyBuffer[i].instSeqNum \in Nat
                /\ historyBuffer[i].archReg \in ArchReg
                /\ historyBuffer[i].newPhysReg \in PhysReg
                /\ historyBuffer[i].prevPhysReg \in PhysReg
<1>1. ASSUME NEW e \in RenameHistory
      PROVE  /\ e.instSeqNum \in Nat /\ e.archReg \in ArchReg
             /\ e.newPhysReg \in PhysReg /\ e.prevPhysReg \in PhysReg
  BY Zenon DEF RenameHistory
<1>2. historyBuffer \in Seq(RenameHistory) /\ renameMap \in [ArchReg -> PhysReg]
  BY Zenon DEF RNInv, RNTypeOK
<1>3. \A i \in DOMAIN historyBuffer : historyBuffer[i] \in RenameHistory
  BY <1>2
<1> QED
  BY <1>1, <1>2, <1>3

(* Renaming a destination adds an entry at the end.                         *)
LEMMA DestEffect ==
    ASSUME RNInv, NEW s \in Nat, NEW a \in ArchReg, RenameDest(s, a)
    PROVE  LET n == Len(historyBuffer) + 1
           IN  /\ DOMAIN historyBuffer' = DOMAIN historyBuffer \cup {n}
               /\ Len(historyBuffer') = n /\ n \notin DOMAIN historyBuffer
               /\ \A i \in DOMAIN historyBuffer :
                    historyBuffer'[i] = historyBuffer[i] /\ i < n
               /\ historyBuffer'[n].instSeqNum = s
               /\ historyBuffer'[n].archReg = a
               /\ historyBuffer'[n].newPhysReg = RenamedReg(a)
               /\ historyBuffer'[n].prevPhysReg = renameMap[a]
               /\ renameMap'[a] = RenamedReg(a)
               /\ \A b \in ArchReg : b # a => renameMap'[b] = renameMap[b]
               /\ freeingInProgress' = freeingInProgress
<1> DEFINE e == [instSeqNum |-> s, archReg |-> a,
                 newPhysReg |-> RenamedReg(a), prevPhysReg |-> renameMap[a]]
           n == Len(historyBuffer) + 1
<1>1. /\ historyBuffer \in Seq(RenameHistory) /\ renameMap \in [ArchReg -> PhysReg]
      /\ Len(historyBuffer) \in Nat /\ DOMAIN historyBuffer = 1 .. Len(historyBuffer)
  BY EntryTypes, Zenon DEF RNInv, RNTypeOK
<1>2. /\ historyBuffer' = Append(historyBuffer, e)
      /\ renameMap' = [renameMap EXCEPT ![a] = RenamedReg(a)]
      /\ freeingInProgress' = freeingInProgress
  BY Zenon DEF RenameDest
<1>3. /\ e.instSeqNum = s /\ e.archReg = a /\ e.newPhysReg = RenamedReg(a)
      /\ e.prevPhysReg = renameMap[a]
  BY Zenon
<1> HIDE DEF e
<1>4. /\ DOMAIN historyBuffer' = DOMAIN historyBuffer \cup {n}
      /\ Len(historyBuffer') = n /\ n \notin DOMAIN historyBuffer
      /\ \A i \in DOMAIN historyBuffer :
            historyBuffer'[i] = historyBuffer[i] /\ i < n
      /\ historyBuffer'[n] = e
  BY <1>1, <1>2
<1>5. /\ renameMap'[a] = RenamedReg(a)
      /\ \A b \in ArchReg : b # a => renameMap'[b] = renameMap[b]
  BY <1>1, <1>2, Zenon
<1> QED
  BY <1>2, <1>3, <1>4, <1>5, Zenon

(* Undoing the newest entry removes it and gives the map what it replaced.  *)
LEMMA UndoEffect ==
    ASSUME RNInv, UndoNewest
    PROVE  LET n == Len(historyBuffer)
               a == historyBuffer[n].archReg
           IN  /\ n \in DOMAIN historyBuffer
               /\ DOMAIN historyBuffer' = DOMAIN historyBuffer \ {n}
               /\ \A i \in DOMAIN historyBuffer : i <= n
               /\ \A i \in DOMAIN historyBuffer' :
                    historyBuffer'[i] = historyBuffer[i] /\ i < n
               /\ Newest = historyBuffer[n] /\ a \in ArchReg
               /\ renameMap[a] = historyBuffer[n].newPhysReg
               /\ renameMap'[a] = historyBuffer[n].prevPhysReg
               /\ \A b \in ArchReg : b # a => renameMap'[b] = renameMap[b]
               /\ \A p : \/ Freeing(p)
                         \/ /\ p = historyBuffer[n].newPhysReg
                            /\ p # historyBuffer[n].prevPhysReg
                         => Freeing(p)'
<1> DEFINE n == Len(historyBuffer)
           a == historyBuffer[n].archReg
           q == historyBuffer[n].newPhysReg
           o == historyBuffer[n].prevPhysReg
<1>1. /\ historyBuffer \in Seq(RenameHistory) /\ renameMap \in [ArchReg -> PhysReg]
      /\ freeingInProgress \in Seq(PhysReg)
      /\ n \in Nat \ {0} /\ DOMAIN historyBuffer = 1 .. n /\ n \in DOMAIN historyBuffer
      /\ a \in ArchReg /\ q \in PhysReg
  BY EntryTypes DEF RNInv, RNTypeOK, UndoNewest
<1>2. /\ historyBuffer' = SubSeq(historyBuffer, 1, n - 1)
      /\ Newest = historyBuffer[n]
      /\ q # o => /\ renameMap' = [renameMap EXCEPT ![a] = o]
                  /\ freeingInProgress' = Append(freeingInProgress, q)
      /\ q = o => UNCHANGED <<renameMap, freeingInProgress>>
  BY Zenon DEF UndoNewest, Newest
<1>3. /\ DOMAIN historyBuffer' = 1 .. n - 1
      /\ \A i \in 1 .. n - 1 : historyBuffer'[i] = historyBuffer[i]
  <2>1. n - 1 \in Nat
    BY <1>1
  <2> QED
    BY <1>1, <1>2, <2>1
<1>4. renameMap[a] = q
  <2>1. IsNewest(n)
    BY <1>1 DEF IsNewest
  <2> QED
    BY <2>1, <1>1, Zenon DEF RNInv, HistoryChain
<1> HIDE DEF a, q, o
<1>5. renameMap'[a] = o /\ \A b \in ArchReg : b # a => renameMap'[b] = renameMap[b]
  BY <1>1, <1>2, <1>4, Zenon
<1>6. \A p : Freeing(p) \/ (p = q /\ p # o) => Freeing(p)'
  <2>1. CASE q # o
    <3>1. freeingInProgress' = Append(freeingInProgress, q)
      BY <1>2, <2>1, Zenon
    <3>2. /\ DOMAIN freeingInProgress' =
                DOMAIN freeingInProgress \cup {Len(freeingInProgress) + 1}
          /\ freeingInProgress'[Len(freeingInProgress) + 1] = q
          /\ \A i \in DOMAIN freeingInProgress :
                freeingInProgress'[i] = freeingInProgress[i]
      BY <1>1, <3>1
    <3> QED
      BY <3>2, Zenon DEF Freeing
  <2>2. CASE q = o
    BY <1>2, <2>2, Zenon DEF Freeing
  <2> QED
    BY <2>1, <2>2, Zenon
<1>7. /\ DOMAIN historyBuffer' = DOMAIN historyBuffer \ {n}
      /\ \A i \in DOMAIN historyBuffer : i <= n
      /\ \A i \in DOMAIN historyBuffer' :
            historyBuffer'[i] = historyBuffer[i] /\ i < n
  BY <1>1, <1>3
<1> QED
  BY <1>1, <1>2, <1>4, <1>5, <1>6, <1>7, Zenon DEF a, q, o

(* Freeing the oldest entry removes it.                                     *)
LEMMA FreeEffect ==
    ASSUME RNInv, FreeOldest
    PROVE  /\ 1 \in DOMAIN historyBuffer /\ Oldest = historyBuffer[1]
           /\ \A i \in DOMAIN historyBuffer' :
                /\ i \in Nat \ {0} /\ i + 1 \in DOMAIN historyBuffer
                /\ historyBuffer'[i] = historyBuffer[i + 1]
           /\ \A i \in DOMAIN historyBuffer : i # 1 =>
                /\ i - 1 \in DOMAIN historyBuffer' /\ i - 1 \in Nat \ {0}
                /\ historyBuffer'[i - 1] = historyBuffer[i]
           /\ UNCHANGED <<renameMap, freeingInProgress>>
<1>1. /\ historyBuffer \in Seq(RenameHistory) /\ historyBuffer # <<>>
      /\ historyBuffer' = Tail(historyBuffer)
      /\ Oldest = Head(historyBuffer)
      /\ UNCHANGED <<renameMap, freeingInProgress>>
  BY Zenon DEF RNInv, RNTypeOK, FreeOldest, Oldest
<1>2. Len(historyBuffer) \in Nat \ {0}
  BY <1>1
<1> QED
  BY <1>1, <1>2

(* The steps that change the history; all others leave it and the map alone.*)
LEMMA HistoryKept ==
    ASSUME [RRNext]_rvars, ~RenameDestStep, ~UndoStep, ~RemoveStep
    PROVE  /\ UNCHANGED <<historyBuffer, renameMap>>
           /\ ~NoSquashSignal => UNCHANGED <<freeList, freeingInProgress>>
<1>1. CASE RenameTick(Seq(ArchReg))
  BY <1>1, Zenon DEF RenameTick, SquashSignal, UndoEnd, NoSquashSignal, ReleaseFreeing,
     RenameInst, SendInst, RenameEnd, RemoveEnd, rnvars
<1>2. CASE IEWTick \/ UNCHANGED rvars
  BY <1>2, Zenon DEF IEWTick, IEWIdle, IEWExecute, rnvars, rvars
<1>3. CASE CommitTick \/ SquashFromTC
  BY <1>3, Zenon DEF CommitTick, SquashFromTC, SquashFromTrap, SquashFromSquashAfter,
     CommitStart, SquashAllStatus, SquashFromIEW, NoSquashAll, NoSquashFromIEW,
     GetInst, GetInstsEnd, RetireSquashed, FaultHead, RetireEnd, CycleEnd,
     CommitHead, rnvars
<1> QED
  BY <1>1, <1>2, <1>3, Zenon DEF RRNext

(* The destination that is renamed.                                         *)
LEMMA DestStepEffect ==
    ASSUME TypeInv, OrderInv, RenameDestStep
    PROVE  \E a \in ArchReg :
              /\ inst # None /\ inst.seqNum = seqNum /\ seqNum \in Nat
              /\ RenameDest(seqNum, a)
              /\ Len(inst.renamed) + 1 \in DOMAIN inst.dest
              /\ a = inst.dest[Len(inst.renamed) + 1]
              /\ inst' = [inst EXCEPT !.renamed = Append(inst.renamed, RenamedReg(a))]
              /\ UNCHANGED <<at, seqNum, lastCommitedSeqNum, rob, fromRename, toROB>>
<1>1. /\ inst # None /\ Len(inst.renamed) < Len(inst.dest)
      /\ RenameDest(inst.seqNum, inst.dest[Len(inst.renamed) + 1])
      /\ inst' = [inst EXCEPT !.renamed =
            Append(inst.renamed, RenamedReg(inst.dest[Len(inst.renamed) + 1]))]
      /\ UNCHANGED <<at, seqNum, lastCommitedSeqNum, rob, fromRename, toROB>>
  BY Zenon DEF RenameDestStep, commitvars, robvars
<1>2. inst.dest \in Seq(ArchReg) /\ inst.renamed \in Seq(PhysReg) /\ seqNum \in Nat
  BY <1>1, Zenon DEF TypeInv, FrontTypes, DynInst
<1>3. Len(inst.renamed) + 1 \in DOMAIN inst.dest
  BY <1>1, <1>2
<1>4. inst.dest[Len(inst.renamed) + 1] \in ArchReg
  BY <1>2, <1>3
<1>5. inst.seqNum = seqNum
  BY <1>1, Zenon DEF OrderInv
<1> QED
  BY <1>1, <1>2, <1>3, <1>4, <1>5, Zenon

(* The instruction that is renamed stays the same but for its registers.    *)
LEMMA DestStepInst ==
    ASSUME RNInv, TypeInv, OrderInv, RenameDestStep
    PROVE  /\ inst # None /\ inst' # None
           /\ inst \in DynInst /\ inst' \in DynInst
           /\ inst'.seqNum = inst.seqNum /\ inst'.dest = inst.dest
           /\ inst'.src = inst.src
           /\ UNCHANGED <<fromRename, toROB>>
<1>1. PICK a \in ArchReg :
        /\ inst # None /\ RenameDest(seqNum, a) /\ UNCHANGED <<fromRename, toROB>>
        /\ inst' = [inst EXCEPT !.renamed = Append(inst.renamed, RenamedReg(a))]
  BY DestStepEffect, Zenon
<1>2. inst \in DynInst
  BY <1>1, Zenon DEF TypeInv, FrontTypes
<1>3. RenamedReg(a) \in PhysReg
  BY <1>1 DEF RenameDest, RenamedReg, RNInv, RNTypeOK
<1>4. Append(inst.renamed, RenamedReg(a)) \in Seq(PhysReg)
  BY <1>2, <1>3 DEF DynInst
<1>5. /\ inst' \in DynInst
      /\ inst'.seqNum = inst.seqNum /\ inst'.dest = inst.dest
      /\ inst'.src = inst.src
  BY <1>1, <1>2, <1>4, Zenon DEF DynInst
<1> QED
  BY <1>1, <1>2, <1>5, WidthAssumption, Zenon

(* So it is an invariant.                                                   *)
LEMMA HistoryInvariant == RRSpec => []HistoryInv
(* The order of the history is kept.                                        *)
<1>HistoryStep. ASSUME RNInv, TypeInv, OrderInv, HistoryInv, [RRNext]_rvars
                PROVE  HistoryInv'
  <2> USE <1>HistoryStep
  <2>t. /\ Len(historyBuffer) \in Nat /\ DOMAIN historyBuffer = 1 .. Len(historyBuffer)
        /\ renameMap \in [ArchReg -> PhysReg] /\ seqNum \in Nat
        /\ \A i \in DOMAIN historyBuffer : /\ historyBuffer[i].instSeqNum \in Nat
                                           /\ historyBuffer[i].archReg \in ArchReg
    BY EntryTypes, Zenon DEF TypeInv, FrontTypes
  <2>h. /\ Ordered(historyBuffer) /\ EntriesUpTo(historyBuffer, seqNum)
        /\ MiscConst(historyBuffer, renameMap)
    BY Zenon DEF HistoryInv
  <2>1. CASE RenameDestStep
    <3>1. PICK a \in ArchReg : RenameDest(seqNum, a) /\ seqNum' = seqNum
      BY <2>1, DestStepEffect, Zenon
    <3> DEFINE n == Len(historyBuffer) + 1
    <3>2. /\ DOMAIN historyBuffer' = DOMAIN historyBuffer \cup {n}
          /\ \A i \in DOMAIN historyBuffer :
                  historyBuffer'[i] = historyBuffer[i] /\ i < n
          /\ historyBuffer'[n].instSeqNum = seqNum
          /\ historyBuffer'[n].archReg = a
          /\ historyBuffer'[n].newPhysReg = RenamedReg(a)
          /\ historyBuffer'[n].prevPhysReg = renameMap[a]
          /\ renameMap'[a] = RenamedReg(a)
          /\ \A b \in ArchReg : b # a => renameMap'[b] = renameMap[b]
      BY <2>t, <3>1, DestEffect, ZenonT(30)
    <3>3. a \in MiscReg => RenamedReg(a) = renameMap[a]
      BY Zenon DEF RenamedReg
    <3> HIDE DEF n
    <3>4. Ordered(historyBuffer') /\ EntriesUpTo(historyBuffer', seqNum')
      BY <2>t, <2>h, <3>1, <3>2 DEF Ordered, EntriesUpTo, n
    <3>5. MiscConst(historyBuffer', renameMap')
      BY <2>t, <2>h, <3>2, <3>3 DEF MiscConst
    <3> QED
      BY <3>4, <3>5, Zenon DEF HistoryInv
  <2>2. CASE UndoStep
    <3> DEFINE n == Len(historyBuffer)
               b == historyBuffer[n].archReg
    <3>1. UndoNewest /\ seqNum' = seqNum
      BY <2>2, Zenon DEF UndoStep, frontvars
    <3>2. /\ n \in DOMAIN historyBuffer
          /\ DOMAIN historyBuffer' = DOMAIN historyBuffer \ {n}
          /\ \A i \in DOMAIN historyBuffer' : historyBuffer'[i] = historyBuffer[i]
          /\ b \in ArchReg /\ renameMap[b] = historyBuffer[n].newPhysReg
          /\ renameMap'[b] = historyBuffer[n].prevPhysReg
          /\ \A c \in ArchReg : c # b => renameMap'[c] = renameMap[c]
      BY <3>1, UndoEffect, Zenon
    <3>3. \A c \in MiscReg : renameMap'[c] = renameMap[c]
      BY <2>h, <3>2, RenameAssumption, Zenon DEF MiscConst
    <3> HIDE DEF n, b
    <3>4. Ordered(historyBuffer') /\ EntriesUpTo(historyBuffer', seqNum')
      BY <2>t, <2>h, <3>1, <3>2, Zenon DEF Ordered, EntriesUpTo
    <3>5. MiscConst(historyBuffer', renameMap')
      BY <2>h, <3>2, <3>3 DEF MiscConst
    <3> QED
      BY <3>4, <3>5, Zenon DEF HistoryInv
  <2>3. CASE RemoveStep
    <3>1. FreeOldest /\ seqNum' = seqNum
      BY <2>3, Zenon DEF RemoveStep, frontvars
    <3>2. /\ \A i \in DOMAIN historyBuffer' :
                  /\ i \in Nat \ {0} /\ i + 1 \in DOMAIN historyBuffer
                  /\ historyBuffer'[i] = historyBuffer[i + 1]
          /\ renameMap' = renameMap
      BY <3>1, FreeEffect, Zenon
    <3>3. Ordered(historyBuffer')
      BY <2>h, <3>2 DEF Ordered
    <3>4. EntriesUpTo(historyBuffer', seqNum') /\ MiscConst(historyBuffer', renameMap')
      BY <2>h, <3>1, <3>2, ZenonT(30) DEF EntriesUpTo, MiscConst
    <3> QED
      BY <3>3, <3>4, Zenon DEF HistoryInv
  <2>4. CASE ~RenameDestStep /\ ~UndoStep /\ ~RemoveStep
    <3>1. UNCHANGED <<historyBuffer, renameMap>>
      BY <2>4, HistoryKept, Zenon
    <3>2. seqNum' = seqNum \/ seqNum' = seqNum + 1
      BY FrontCases, FrontKept, Zenon
         DEF SendInst, GetInst, CycleEnd, RenameInst, frontvars
    <3>3. EntriesUpTo(historyBuffer', seqNum')
      BY <2>t, <2>h, <3>1, <3>2 DEF EntriesUpTo
    <3> QED
      BY <2>h, <3>1, <3>3, Zenon DEF HistoryInv
  <2> QED
    BY <2>1, <2>2, <2>3, <2>4, Zenon
<1>1. RRInit => HistoryInv
  <2> SUFFICES ASSUME RRInit PROVE HistoryInv
    BY Zenon
  <2>1. DOMAIN historyBuffer = {}
    BY DEF RRInit, RenameInit
  <2> QED
    BY <2>1, Zenon DEF HistoryInv, Ordered, EntriesUpTo, MiscConst
<1>2. Base /\ OrderInv /\ HistoryInv /\ [RRNext]_rvars => HistoryInv'
  BY <1>HistoryStep, Zenon DEF Base
<1> QED
  BY <1>1, <1>2, BaseInvariant, OrderInvariant, PTL DEF RRSpec

-----------------------------------------------------------------------------
(* The map that undoing all entries from sequence number s on gives is old: *)
(* each register has what the oldest such entry replaced.                   *)
IsLater(h, i, s, a) == h[i].archReg = a /\ h[i].instSeqNum >= s
IsFirst(h, i, s, a) ==
    IsLater(h, i, s, a) /\ \A j \in DOMAIN h : j < i => ~IsLater(h, j, s, a)
MapBefore(h, m, s, old) ==
    \A a \in ArchReg :
        /\ (\A i \in DOMAIN h : ~IsLater(h, i, s, a)) => old[a] = m[a]
        /\ \A i \in DOMAIN h : IsFirst(h, i, s, a) => old[a] = h[i].prevPhysReg

(* It does not change when a younger destination is renamed,                *)
LEMMA MapBeforeDest ==
    ASSUME RNInv, NEW t \in Nat, NEW a \in ArchReg, RenameDest(t, a),
           NEW s \in Nat, s <= t, NEW old,
           MapBefore(historyBuffer, renameMap, s, old)
    PROVE  MapBefore(historyBuffer', renameMap', s, old)
<1> DEFINE n == Len(historyBuffer) + 1
<1>1. /\ DOMAIN historyBuffer' = DOMAIN historyBuffer \cup {n}
      /\ n \notin DOMAIN historyBuffer
      /\ \A i \in DOMAIN historyBuffer :
            historyBuffer'[i] = historyBuffer[i] /\ i < n
      /\ historyBuffer'[n].instSeqNum = t /\ historyBuffer'[n].archReg = a
      /\ historyBuffer'[n].prevPhysReg = renameMap[a]
      /\ \A b \in ArchReg : b # a => renameMap'[b] = renameMap[b]
  BY DestEffect, ZenonT(30)
<1>2. n \in Nat /\ DOMAIN historyBuffer = 1 .. n - 1
  BY EntryTypes
<1> HIDE DEF n
<1> SUFFICES ASSUME NEW b \in ArchReg
             PROVE  /\ (\A i \in DOMAIN historyBuffer' :
                            ~IsLater(historyBuffer', i, s, b)) => old[b] = renameMap'[b]
                    /\ \A i \in DOMAIN historyBuffer' :
                          IsFirst(historyBuffer', i, s, b)
                            => old[b] = historyBuffer'[i].prevPhysReg
  BY Zenon DEF MapBefore
<1>3. \A i \in DOMAIN historyBuffer :
        /\ IsLater(historyBuffer', i, s, b) <=> IsLater(historyBuffer, i, s, b)
        /\ IsFirst(historyBuffer', i, s, b) => IsFirst(historyBuffer, i, s, b)
  BY <1>1, <1>2, Zenon DEF IsLater, IsFirst
<1>4. IsLater(historyBuffer', n, s, b) <=> b = a
  BY <1>1, Zenon DEF IsLater
<1>5. (\A i \in DOMAIN historyBuffer' : ~IsLater(historyBuffer', i, s, b))
        => old[b] = renameMap'[b]
  BY <1>1, <1>3, <1>4, Zenon DEF MapBefore
<1>6. IsFirst(historyBuffer', n, s, b) => old[b] = historyBuffer'[n].prevPhysReg
  <2> SUFFICES ASSUME IsFirst(historyBuffer', n, s, b)
               PROVE  old[b] = historyBuffer'[n].prevPhysReg
    BY Zenon
  <2>1. b = a
    BY <1>4, Zenon DEF IsFirst
  <2>2. \A i \in DOMAIN historyBuffer : ~IsLater(historyBuffer, i, s, b)
    BY <1>1, <1>3, Zenon DEF IsFirst
  <2> QED
    BY <1>1, <2>1, <2>2, Zenon DEF MapBefore
<1> QED
  BY <1>1, <1>3, <1>5, <1>6 DEF MapBefore

(* when a younger entry is undone,                                          *)
LEMMA MapBeforeUndo ==
    ASSUME RNInv, UndoNewest, NEW s \in Nat, s <= Newest.instSeqNum, NEW old,
           MapBefore(historyBuffer, renameMap, s, old)
    PROVE  MapBefore(historyBuffer', renameMap', s, old)
<1> DEFINE n == Len(historyBuffer)
           a == historyBuffer[n].archReg
<1>1. /\ n \in DOMAIN historyBuffer
      /\ DOMAIN historyBuffer' = DOMAIN historyBuffer \ {n}
      /\ \A i \in DOMAIN historyBuffer' :
            historyBuffer'[i] = historyBuffer[i] /\ i < n
      /\ Newest = historyBuffer[n] /\ a \in ArchReg
      /\ renameMap'[a] = historyBuffer[n].prevPhysReg
      /\ \A b \in ArchReg : b # a => renameMap'[b] = renameMap[b]
  BY UndoEffect, Zenon
<1>2. n \in Nat /\ DOMAIN historyBuffer = 1 .. n
  BY EntryTypes, Zenon
<1>e. IsLater(historyBuffer, n, s, a)
  BY <1>1, Zenon DEF IsLater
<1>f. \A b \in ArchReg : IsLater(historyBuffer, n, s, b) => b = a
  BY Zenon DEF IsLater
<1> HIDE DEF n, a
<1> SUFFICES ASSUME NEW b \in ArchReg
             PROVE  /\ (\A i \in DOMAIN historyBuffer' :
                            ~IsLater(historyBuffer', i, s, b)) => old[b] = renameMap'[b]
                    /\ \A i \in DOMAIN historyBuffer' :
                          IsFirst(historyBuffer', i, s, b)
                            => old[b] = historyBuffer'[i].prevPhysReg
  BY Zenon DEF MapBefore
<1>3. \A i \in DOMAIN historyBuffer' :
        /\ i \in DOMAIN historyBuffer
        /\ IsLater(historyBuffer', i, s, b) <=> IsLater(historyBuffer, i, s, b)
        /\ IsFirst(historyBuffer', i, s, b) => IsFirst(historyBuffer, i, s, b)
  BY <1>1, <1>2 DEF IsLater, IsFirst
<1>4. ASSUME \A i \in DOMAIN historyBuffer' : ~IsLater(historyBuffer', i, s, b)
      PROVE  old[b] = renameMap'[b]
  <2>1. CASE b = a
    <3>1. IsFirst(historyBuffer, n, s, b)
      BY <1>1, <1>2, <1>3, <1>4, <1>e, <2>1 DEF IsFirst
    <3> QED
      BY <1>1, <2>1, <3>1, Zenon DEF MapBefore
  <2>2. CASE b # a
    <3>1. \A i \in DOMAIN historyBuffer : ~IsLater(historyBuffer, i, s, b)
      BY <1>1, <1>3, <1>4, <1>f, <2>2, Zenon
    <3> QED
      BY <1>1, <2>2, <3>1, Zenon DEF MapBefore
  <2> QED
    BY <2>1, <2>2, Zenon
<1> QED
  BY <1>1, <1>3, <1>4 DEF MapBefore

(* and when an older one is removed.                                        *)
LEMMA MapBeforeFree ==
    ASSUME RNInv, FreeOldest, NEW s \in Nat, Oldest.instSeqNum < s, NEW old,
           MapBefore(historyBuffer, renameMap, s, old)
    PROVE  MapBefore(historyBuffer', renameMap', s, old)
<1>1. /\ 1 \in DOMAIN historyBuffer /\ Oldest = historyBuffer[1]
      /\ \A i \in DOMAIN historyBuffer' :
            /\ i \in Nat \ {0} /\ i + 1 \in DOMAIN historyBuffer
            /\ historyBuffer'[i] = historyBuffer[i + 1]
      /\ \A i \in DOMAIN historyBuffer : i # 1 =>
            /\ i - 1 \in DOMAIN historyBuffer' /\ i - 1 \in Nat \ {0}
            /\ historyBuffer'[i - 1] = historyBuffer[i]
      /\ renameMap' = renameMap
  BY FreeEffect, Zenon
<1>2. /\ DOMAIN historyBuffer = 1 .. Len(historyBuffer) /\ Len(historyBuffer) \in Nat
      /\ historyBuffer[1].instSeqNum \in Nat
  BY <1>1, EntryTypes, Zenon
<1> SUFFICES ASSUME NEW b \in ArchReg
             PROVE  /\ (\A i \in DOMAIN historyBuffer' :
                            ~IsLater(historyBuffer', i, s, b)) => old[b] = renameMap'[b]
                    /\ \A i \in DOMAIN historyBuffer' :
                          IsFirst(historyBuffer', i, s, b)
                            => old[b] = historyBuffer'[i].prevPhysReg
  BY Zenon DEF MapBefore
<1>3. ~IsLater(historyBuffer, 1, s, b)
  BY <1>1, <1>2 DEF IsLater
<1>4. \A i \in DOMAIN historyBuffer' :
        IsLater(historyBuffer', i, s, b) <=> IsLater(historyBuffer, i + 1, s, b)
  BY <1>1, Zenon DEF IsLater
<1>5. ASSUME \A i \in DOMAIN historyBuffer' : ~IsLater(historyBuffer', i, s, b)
      PROVE  old[b] = renameMap'[b]
  <2>1. \A i \in DOMAIN historyBuffer : ~IsLater(historyBuffer, i, s, b)
    <3> SUFFICES ASSUME NEW i \in DOMAIN historyBuffer, i # 1
                 PROVE  ~IsLater(historyBuffer, i, s, b)
      BY <1>3, Zenon
    <3>1. i - 1 \in DOMAIN historyBuffer' /\ historyBuffer'[i - 1] = historyBuffer[i]
      BY <1>1, Zenon
    <3> QED
      BY <1>5, <3>1, Zenon DEF IsLater
  <2> QED
    BY <1>1, <2>1, Zenon DEF MapBefore
<1>6. ASSUME NEW i \in DOMAIN historyBuffer', IsFirst(historyBuffer', i, s, b)
      PROVE  old[b] = historyBuffer'[i].prevPhysReg
  <2>1. IsLater(historyBuffer, i + 1, s, b) /\ i + 1 \in DOMAIN historyBuffer
    BY <1>1, <1>4, <1>6, Zenon DEF IsFirst
  <2>2. ASSUME NEW j \in DOMAIN historyBuffer, j < i + 1
        PROVE  ~IsLater(historyBuffer, j, s, b)
    <3>1. CASE j = 1
      BY <1>3, <3>1, Zenon
    <3>2. CASE j # 1
      <4>1. /\ j - 1 \in DOMAIN historyBuffer' /\ historyBuffer'[j - 1] = historyBuffer[j]
            /\ j - 1 < i
        BY <1>1, <1>2, <2>2, <3>2
      <4>2. ~IsLater(historyBuffer', j - 1, s, b)
        BY <1>6, <4>1, Zenon DEF IsFirst
      <4> QED
        BY <4>1, <4>2, Zenon DEF IsLater
    <3> QED
      BY <3>1, <3>2, Zenon
  <2> QED
    BY <1>1, <2>1, <2>2 DEF MapBefore, IsFirst
<1> QED
  BY <1>5, <1>6, Zenon

-----------------------------------------------------------------------------
(* The entries of the instruction with sequence number s are the ones after *)
(* position o, one per destination that it has renamed.                     *)
MatchAt(h, s, dest, renamed, o) ==
    /\ \A k \in 1 .. Len(renamed) :
            /\ o + k \in DOMAIN h
            /\ h[o + k].instSeqNum = s /\ h[o + k].archReg = dest[k]
            /\ h[o + k].newPhysReg = renamed[k]
    /\ \A j \in DOMAIN h : h[j].instSeqNum = s => o < j /\ j <= o + Len(renamed)
Match(h, x) == \E o \in Nat : MatchAt(h, x.seqNum, x.dest, x.renamed, o)

-----------------------------------------------------------------------------

(* and when it ends, it has marked all of them.                             *)
LEMMA MarkedAll ==
    ASSUME RobTypes, Increasing(rob), NEW it \in 0 .. Len(rob), NEW s \in Nat,
           NEW low \in 0 .. it, Marked(low, it, s), squashIt' = 0,
           NEW i \in 1 .. it, rob[i].seqNum > s
    PROVE  rob'[i].squashed
<1>t. /\ Len(rob) \in Nat /\ DOMAIN rob = 1 .. Len(rob) /\ it \in Nat
      /\ \A j \in DOMAIN rob : rob[j].seqNum \in Nat
  BY FullSeq DEF RobTypes
<1>1. low = 0 \/ rob[low].seqNum <= s
  BY Zenon DEF Marked
<1>2. low < i
  <2>1. i \in DOMAIN rob /\ (low # 0 => low \in DOMAIN rob)
    BY <1>t
  <2>2. i < low => rob[i].seqNum < rob[low].seqNum
    BY <2>1, <1>t DEF Increasing
  <2> QED
    BY <1>t, <1>1, <2>1, <2>2
<1> QED
  BY <1>t, <1>2 DEF Marked

(* Instructions that have not reached the ROB are younger than the squash   *)
(* whose signal rename has not seen.                                        *)
PendInv == OnItsWay => /\ Above(commitInfo.doneSeqNum, toROB)
                       /\ Above(commitInfo.doneSeqNum, fromRename)

(* It holds when commit sends the signal of a squash of everything.         *)
LEMMA SquashAllYounger ==
    ASSUME TypeInv, OrderInv,
           NEW s, s = IF rob = <<>> THEN lastCommitedSeqNum ELSE Head(rob).seqNum - 1
    PROVE  /\ s \in Nat /\ lastCommitedSeqNum <= s
           /\ Above(s, rob) /\ Above(s, toROB) /\ Above(s, fromRename)
<1>t. /\ rob \in Seq(FullInst) /\ fromRename \in Seq(FullInst) /\ toROB \in Seq(FullInst)
      /\ lastCommitedSeqNum \in Nat
      /\ \A i \in DOMAIN rob : rob[i].seqNum \in Nat
      /\ \A i \in DOMAIN fromRename : fromRename[i].seqNum \in Nat
      /\ \A i \in DOMAIN toROB : toROB[i].seqNum \in Nat
      /\ DOMAIN rob = 1 .. Len(rob) /\ Len(rob) \in Nat
  BY FullSeq, Zenon DEF TypeInv, RobTypes, FrontTypes, CommitTypes
<1>1. CASE rob = <<>>
  BY <1>1, <1>t DEF OrderInv
<1>2. CASE rob # <<>>
  <2>1. 1 \in DOMAIN rob /\ rob[1] = Head(rob) /\ Head(rob).seqNum \in Nat \ {0}
    BY <1>2, HeadOfROB, Zenon DEF TypeInv
  <2>2. s = rob[1].seqNum - 1 /\ s \in Nat
    BY <1>2, <2>1
  <2>3. lastCommitedSeqNum <= s
    BY <1>t, <2>1, <2>2 DEF OrderInv, Above
  <2>4. Above(s, rob)
    <3> SUFFICES ASSUME NEW i \in DOMAIN rob PROVE s < rob[i].seqNum
      BY Zenon DEF Above
    <3>1. i = 1 \/ rob[1].seqNum < rob[i].seqNum
      BY <1>t, <2>1, SMTT(20) DEF OrderInv, Increasing
    <3>2. s < rob[1].seqNum /\ rob[1].seqNum \in Nat /\ rob[i].seqNum \in Nat
      BY <1>t, <2>1, <2>2
    <3> QED
      BY <2>2, <3>1, <3>2
  <2>5. Above(s, toROB) /\ Above(s, fromRename)
    <3>1. Above(rob[1].seqNum, toROB) /\ Above(rob[1].seqNum, fromRename)
      BY <2>1, Zenon DEF OrderInv, Below, Above
    <3>2. s < rob[1].seqNum /\ rob[1].seqNum \in Nat
      BY <1>t, <2>1, <2>2
    <3> QED
      BY <1>t, <2>2, <3>1, <3>2, SMTT(20) DEF Above
  <2> QED
    BY <2>2, <2>3, <2>4, <2>5, Zenon
<1> QED
  BY <1>1, <1>2, Zenon

(* What a squash that IEW asked for covers.                                 *)
LEMMA SquashIEWYounger ==
    ASSUME TypeInv, AgesInv, ReportInv, ControlInv, DoneInv, SquashFromIEW
    PROVE  LET s == commitInfo'.doneSeqNum
           IN  /\ s \in Nat /\ lastCommitedSeqNum <= s /\ s <= youngestSeqNum
               /\ ROBSquash(s) /\ commitInfo'.squash /\ youngestSeqNum' = s
               /\ Above(s, toROB) /\ Above(s, fromRename)
               /\ ~commitInfo.squash /\ commitStatus # "TrapPending"
<1>1. /\ fromIEW.squashedSeqNum # None /\ fromIEW.squashedSeqNum <= youngestSeqNum
      /\ commitStatus # "TrapPending" /\ at = "iewsquash"
      /\ \E s \in {fromIEW.squashedSeqNum, fromIEW.squashedSeqNum - 1} :
            /\ ROBSquash(s) /\ commitInfo' = SquashSignalFor(s)
            /\ youngestSeqNum' = s
  BY Zenon DEF SquashFromIEW, IEWSquashes
<1>t. /\ fromIEW.squashedSeqNum \in Nat \ {0} /\ youngestSeqNum \in Nat
      /\ lastCommitedSeqNum \in Nat
      /\ fromRename \in Seq(FullInst) /\ toROB \in Seq(FullInst)
      /\ \A i \in DOMAIN fromRename : fromRename[i].seqNum \in Nat
      /\ \A i \in DOMAIN toROB : toROB[i].seqNum \in Nat
  BY <1>1, FullSeq, Zenon DEF TypeInv, CommitTypes, FrontTypes, IEWType
<1>2. PICK s \in {fromIEW.squashedSeqNum, fromIEW.squashedSeqNum - 1} :
            /\ ROBSquash(s) /\ commitInfo' = SquashSignalFor(s)
            /\ youngestSeqNum' = s
  BY <1>1, Zenon
<1>3. commitInfo'.doneSeqNum = s /\ commitInfo'.squash
  BY <1>2, Zenon DEF SquashSignalFor
<1>4. lastCommitedSeqNum < fromIEW.squashedSeqNum
  BY <1>1, Zenon DEF ReportInv, Asking
<1>5. Above(fromIEW.squashedSeqNum, toROB) /\ Above(fromIEW.squashedSeqNum, fromRename)
  BY <1>1, Zenon DEF AgesInv, Older
<1>6. s \in Nat /\ lastCommitedSeqNum <= s /\ s <= youngestSeqNum
  BY <1>t, <1>1, <1>2, <1>4
<1>7. Above(s, toROB) /\ Above(s, fromRename)
  BY <1>t, <1>2, <1>5 DEF Above
<1>8. ~commitInfo.squash
  BY <1>1, <1>4, <1>t DEF DoneInv
<1> QED
  BY <1>1, <1>2, <1>3, <1>6, <1>7, <1>8, Zenon

(* After rename has seen the signal, the history holds nothing that it      *)
(* covers.                                                                  *)
UndoneInv == at \in {"iew", "commit"} /\ commitInfo.squash =>
                EntriesUpTo(historyBuffer, commitInfo.doneSeqNum)

(* A squash that takes several cycles: the instructions behind the iterator *)
(* are marked, the iterator is at the squash that was signalled, and all    *)
(* its instructions are marked when it ends.                                *)
SquashInv ==
    /\ squashIt # 0 => youngestSeqNum <= squashedSeqNum
    /\ squashIt # 0 => \A i \in DOMAIN rob : i > squashIt => rob[i].squashed
    /\ commitInfo.squash /\ squashIt # 0 => squashedSeqNum = commitInfo.doneSeqNum
    /\ commitInfo.squash /\ squashIt = 0 =>
            \A i \in DOMAIN rob : rob[i].seqNum > commitInfo.doneSeqNum
                                    => rob[i].squashed
    /\ ~commitInfo.squash /\ squashIt # 0 => EntriesUpTo(historyBuffer, squashedSeqNum)

(* All of the above together.                                               *)
Pipe == /\ Base /\ OrderInv /\ AgesInv /\ FrontMarks /\ RobMarks /\ ReportInv
        /\ DoneInv /\ HistoryInv /\ PendInv /\ UndoneInv /\ SquashInv

(* It is an invariant.                                                      *)
LEMMA PipeInvariant == RRSpec => []Pipe
(* Every step keeps it.                                                     *)
<1>PendStep. ASSUME TypeInv, ControlInv, OrderInv, AgesInv, ReportInv, DoneInv, PendInv,
                    [RRNext]_rvars
             PROVE  PendInv'
  <2> USE <1>PendStep
  <2>1. CASE RenameTick(Seq(ArchReg)) \/ IEWTick \/ CommitStart
    <3>1. at' \in {"undo", "rename", "remove", "iew", "commit", "squash"}
      BY <2>1, Zenon DEF RenameTick, SquashSignal, UndoStep, UndoEnd, NoSquashSignal,
         RenameInst, RenameDestStep, SendInst, RenameEnd, RemoveStep, RemoveEnd,
         IEWTick, IEWIdle, IEWExecute, CommitStart, ControlInv
    <3> QED
      BY <3>1, Zenon DEF PendInv, OnItsWay
  <2>2. ASSUME NEW status, SquashAllStatus(status)
        PROVE  PendInv'
    <3>1. /\ UNCHANGED <<toROB, fromRename>>
          /\ commitInfo'.doneSeqNum = IF rob = <<>> THEN lastCommitedSeqNum
                                      ELSE Head(rob).seqNum - 1
      BY <2>2, Zenon DEF SquashAllStatus, SquashSignalFor, frontvars
    <3>2. /\ Above(commitInfo'.doneSeqNum, toROB)
          /\ Above(commitInfo'.doneSeqNum, fromRename)
      BY <3>1, SquashAllYounger, Zenon
    <3> QED
      BY <3>1, <3>2, Zenon DEF PendInv
  <2>3. CASE SquashFromIEW
    <3>1. UNCHANGED <<toROB, fromRename>>
      BY <2>3, Zenon DEF SquashFromIEW, frontvars
    <3> QED
      BY <2>3, <3>1, SquashIEWYounger, Zenon DEF PendInv
  <2>4. CASE NoSquashAll \/ GetInst \/ GetInstsEnd \/ RetireSquashed \/ FaultHead \/ RetireEnd
             \/ \E squashAfter \in BOOLEAN : CommitHead(squashAfter)
    <3>1. /\ at \in {"squash", "insts", "retire"}
          /\ commitInfo'.squash = commitInfo.squash
      BY <2>4, Zenon DEF NoSquashAll, GetInst, GetInstsEnd, RetireSquashed, FaultHead,
         RetireEnd, CommitHead, HeadReady, TypeInv, CommitTypes, SignalType
    <3> QED
      BY <3>1, Zenon DEF PendInv, OnItsWay, ControlInv
  <2>5. CASE NoSquashFromIEW \/ UNCHANGED rvars
    <3>1. /\ UNCHANGED <<toROB, fromRename, commitInfo>>
          /\ at' \in {"iewsquash", "end", "signals"} =>
                  at \in {"iewsquash", "end", "signals"}
      BY <2>5, Zenon DEF NoSquashFromIEW, rvars, frontvars
    <3> QED
      BY <3>1, Zenon DEF PendInv, OnItsWay
  <2>6. CASE CycleEnd
    <3>1. /\ at = "end" /\ fromRename' = toROB /\ toROB' = <<>> /\ commitInfo' = commitInfo
      BY <2>6, Zenon DEF CycleEnd
    <3> QED
      BY <3>1 DEF PendInv, OnItsWay, Above
  <2> QED
    BY <2>1, <2>2, <2>3, <2>4, <2>5, <2>6, Zenon
       DEF RRNext, CommitTick, SquashFromTC, SquashFromTrap, SquashFromSquashAfter
(* Every step keeps it.                                                     *)
<1>UndoneStep. ASSUME RNInv, TypeInv, ControlInv, HistoryInv, UndoneInv, [RRNext]_rvars
               PROVE  UndoneInv'
  <2> USE <1>UndoneStep
  <2>1. CASE UndoEnd
    <3>1. ~ToUndo /\ UNCHANGED <<historyBuffer, commitInfo>>
      BY <2>1, Zenon DEF UndoEnd, rnvars
    <3>t. /\ Len(historyBuffer) \in Nat /\ DOMAIN historyBuffer = 1 .. Len(historyBuffer)
          /\ commitInfo.doneSeqNum \in Nat
          /\ \A i \in DOMAIN historyBuffer : historyBuffer[i].instSeqNum \in Nat
      BY EntryTypes, Zenon DEF TypeInv, CommitTypes, SignalType
    <3>2. CASE historyBuffer = <<>>
      BY <3>1, <3>2 DEF UndoneInv, EntriesUpTo
    <3>3. CASE historyBuffer # <<>>
      <4>1. Len(historyBuffer) \in DOMAIN historyBuffer
        BY <3>t, <3>3 DEF RNInv, RNTypeOK
      <4>2. historyBuffer[Len(historyBuffer)].instSeqNum <= commitInfo.doneSeqNum
        BY <3>t, <3>1, <3>3, <4>1 DEF ToUndo, Newest
      <4>3. \A i \in DOMAIN historyBuffer :
              historyBuffer[i].instSeqNum <= historyBuffer[Len(historyBuffer)].instSeqNum
        BY <3>t, <4>1 DEF HistoryInv, Ordered
      <4>4. EntriesUpTo(historyBuffer, commitInfo.doneSeqNum)
        BY <3>t, <4>1, <4>2, <4>3 DEF EntriesUpTo
      <4> QED
        BY <3>1, <4>4, Zenon DEF UndoneInv
    <3> QED
      BY <3>2, <3>3, Zenon
  <2>2. CASE IEWTick \/ UNCHANGED rvars
    <3>1. /\ UNCHANGED <<historyBuffer, commitInfo>>
          /\ at' \in {"iew", "commit"} => at \in {"iew", "commit"}
      BY <2>2, Zenon DEF IEWTick, IEWIdle, IEWExecute, rvars, rnvars
    <3> QED
      BY <3>1, Zenon DEF UndoneInv
  <2>3. CASE RemoveEnd
    BY <2>3, Zenon DEF RemoveEnd, UndoneInv, ControlInv
  <2>4. CASE \/ SquashSignal \/ UndoStep \/ NoSquashSignal \/ RenameDestStep \/ SendInst
             \/ RenameEnd \/ RemoveStep \/ \E dest \in Seq(ArchReg) : RenameInst(dest)
    <3>1. at' \in {"undo", "rename", "remove"}
      BY <2>4, Zenon DEF SquashSignal, UndoStep, NoSquashSignal, RenameInst, RenameDestStep,
         SendInst, RenameEnd, RemoveStep, ControlInv
    <3> QED
      BY <3>1, Zenon DEF UndoneInv
  <2>5. CASE CommitTick \/ SquashFromTC
    <3>1. at' \notin {"iew", "commit"}
      BY <2>5, Zenon DEF CommitTick, SquashFromTC, SquashFromTrap, SquashFromSquashAfter,
         CommitStart, SquashAllStatus, SquashFromIEW, NoSquashAll, NoSquashFromIEW,
         GetInst, GetInstsEnd, RetireSquashed, FaultHead, RetireEnd, CycleEnd,
         CommitHead, HeadReady
    <3> QED
      BY <3>1, Zenon DEF UndoneInv
  <2> QED
    BY <2>1, <2>2, <2>3, <2>4, <2>5, Zenon DEF RRNext, RenameTick
(* It holds when a squash begins,                                           *)
<1>SquashBegins. ASSUME TypeInv, OrderInv, NEW s \in Nat, ROBSquash(s), commitInfo'.squash,
                        commitInfo'.doneSeqNum = s, youngestSeqNum' <= s
                 PROVE  SquashInv'
  <2> USE <1>SquashBegins
  <2>t. /\ rob \in Seq(FullInst) /\ Len(rob) \in Nat /\ DOMAIN rob = 1 .. Len(rob)
        /\ RobTypes /\ Increasing(rob) /\ Len(rob) \in 0 .. Len(rob)
    BY FullSeq DEF TypeInv, RobTypes, OrderInv
  <2>1. CASE rob = <<>>
    <3>1. UNCHANGED <<rob, squashIt>>
      BY <2>1, ROBSquashMarks, <2>t, Zenon DEF robvars
    <3>2. squashIt = 0
      BY <2>1 DEF TypeInv, RobTypes
    <3> QED
      BY <2>1, <3>1, <3>2 DEF SquashInv
  <2>2. CASE rob # <<>>
    <3>1. PICK low \in 0 .. Len(rob) : Marked(low, Len(rob), s)
      BY <2>2, <2>t, ROBSquashMarks, Zenon
    <3>2. squashedSeqNum' = s
      BY <2>2, <2>t, ROBSquashMarks, Zenon
    <3>3. /\ DOMAIN rob' = DOMAIN rob
          /\ \A i \in DOMAIN rob : rob'[i].seqNum = rob[i].seqNum
      BY <2>t, <3>1, MarkedSame, Zenon DEF SameInsts, Same
    <3>4. squashIt' = 0 => \A i \in DOMAIN rob : rob[i].seqNum > s => rob'[i].squashed
      BY <2>t, <3>1, MarkedAll, Zenon
    <3>5. squashIt' # 0 => squashIt' = low
      BY <3>1, Zenon DEF Marked
    <3>6. \A i \in DOMAIN rob : i > low => rob'[i].squashed
      BY <2>t, <3>1 DEF Marked
    <3> QED
      BY <3>2, <3>3, <3>4, <3>5, <3>6, Zenon DEF SquashInv
  <2> QED
    BY <2>1, <2>2, Zenon
(* when it goes on or has ended,                                            *)
<1>SquashContinues. ASSUME TypeInv, OrderInv, UndoneInv, SquashInv, CommitStart
                    PROVE  SquashInv'
  <2> USE <1>SquashContinues
  <2>t. /\ rob \in Seq(FullInst) /\ Len(rob) \in Nat /\ DOMAIN rob = 1 .. Len(rob)
        /\ RobTypes /\ squashIt \in 0 .. Len(rob) /\ squashedSeqNum \in Nat
    BY FullSeq, Zenon DEF TypeInv, RobTypes
  <2>1. /\ at = "commit" /\ ~commitInfo'.squash
        /\ UNCHANGED <<youngestSeqNum, historyBuffer>>
    BY DEF CommitStart, NoSignal, rnvars
  <2>2. CASE commitStatus = "ROBSquashing" /\ ~doneSquashing
    <3>1. DoSquash(squashIt, squashedSeqNum) /\ squashedSeqNum' = squashedSeqNum
      BY <2>2, Zenon DEF CommitStart
    <3>2. PICK low \in 0 .. squashIt : Marked(low, squashIt, squashedSeqNum)
      BY <2>t, <3>1, DoSquashMarks, Zenon
    <3>3. squashIt # 0
      BY <2>2, Zenon DEF TypeInv, RobTypes
    <3>4. EntriesUpTo(historyBuffer, squashedSeqNum)
      BY <2>1, <3>3, Zenon DEF SquashInv, UndoneInv
    <3>5. DOMAIN rob' = DOMAIN rob /\ (squashIt' # 0 => squashIt' = low)
      BY <2>t, <3>2, MarkedSame, Zenon DEF SameInsts, Marked
    <3>6. \A i \in DOMAIN rob : i > squashIt => rob[i].squashed
      BY <3>3, Zenon DEF SquashInv
    <3>7. \A i \in DOMAIN rob : low < i /\ i <= squashIt => rob'[i].squashed
      BY <2>t, <3>2, Zenon DEF Marked
    <3>8. \A i \in DOMAIN rob : ~(low < i /\ i <= squashIt) => rob'[i] = rob[i]
      BY <2>t, <3>2, Zenon DEF Marked
    <3>9. \A i \in DOMAIN rob : i > low => rob'[i].squashed
      <4> SUFFICES ASSUME NEW i \in DOMAIN rob, i > low PROVE rob'[i].squashed
        BY Zenon
      <4>1. i <= squashIt \/ i > squashIt
        BY <2>t
      <4>2. CASE i > squashIt
        <5>1. rob'[i] = rob[i]
          BY <2>t, <3>8, <4>2, SMTT(20)
        <5> QED
          BY <5>1, <3>6, <4>2, Zenon
      <4> QED
        BY <4>1, <4>2, <3>7, Zenon
    <3> QED
      BY <2>1, <3>1, <3>3, <3>4, <3>5, <3>9, Zenon DEF SquashInv
  <2>3. CASE ~(commitStatus = "ROBSquashing" /\ ~doneSquashing)
    <3>1. squashIt' = squashIt
      BY <2>3, Zenon DEF CommitStart, robvars
    <3>2. squashIt = 0
      BY <2>3, Zenon DEF TypeInv, CommitTypes, RobTypes
    <3> QED
      BY <2>1, <3>1, <3>2, Zenon DEF SquashInv
  <2> QED
    BY <2>2, <2>3, Zenon
(* and after every other step.                                              *)
<1>SquashStep. ASSUME Base, OrderInv, AgesInv, ReportInv, DoneInv, HistoryInv, UndoneInv,
                      SquashInv, [RRNext]_rvars
               PROVE  SquashInv'
  <2> USE <1>SquashStep
  <2>t. /\ RNInv /\ TypeInv /\ ControlInv /\ StallInv
        /\ commitInfo.robSquashing <=> commitStatus = "ROBSquashing"
        /\ commitStatus # "ROBSquashing" => squashIt = 0
    BY Zenon DEF Base, ControlInv, TypeInv, CommitTypes
  <2>1. CASE CommitStart
    BY <2>1, <2>t, <1>SquashContinues, Zenon
  <2>2. ASSUME NEW status, SquashAllStatus(status)
        PROVE  SquashInv'
    <3> DEFINE s == IF rob = <<>> THEN lastCommitedSeqNum ELSE Head(rob).seqNum - 1
    <3>1. /\ ROBSquash(s) /\ commitInfo' = SquashSignalFor(s)
          /\ youngestSeqNum' = lastCommitedSeqNum
      BY <2>2, Zenon DEF SquashAllStatus
    <3>2. s \in Nat /\ lastCommitedSeqNum <= s
      BY <2>t, SquashAllYounger, Zenon
    <3> HIDE DEF s
    <3>3. commitInfo'.squash /\ commitInfo'.doneSeqNum = s
      BY <3>1, Zenon DEF SquashSignalFor
    <3> QED
      BY <2>t, <3>1, <3>2, <3>3, <1>SquashBegins, Zenon
  <2>3. CASE SquashFromIEW
    <3> DEFINE s == commitInfo'.doneSeqNum
    <3>1. s \in Nat /\ ROBSquash(s) /\ commitInfo'.squash /\ youngestSeqNum' = s
      BY <2>3, <2>t, SquashIEWYounger, Zenon
    <3> HIDE DEF s
    <3>2. youngestSeqNum' <= s
      BY <3>1
    <3> QED
      BY <2>t, <3>1, <3>2, <1>SquashBegins, Zenon DEF s
  <2>4. CASE GetInst \/ RobRetires
    <3>1. /\ at \in {"insts", "retire"} /\ squashIt' = squashIt
          /\ commitInfo'.squash = commitInfo.squash
      BY <2>4, <2>t, Zenon DEF GetInst, RobRetires, RetireSquashed, CommitHead, HeadReady,
         TypeInv, CommitTypes, SignalType
    <3>2. ~commitInfo.squash /\ squashIt = 0
      BY <2>t, <3>1, Zenon DEF ControlInv
    <3> QED
      BY <3>1, <3>2, Zenon DEF SquashInv
  <2>5. CASE RobStays
    <3>1. UNCHANGED <<rob, squashedSeqNum, squashIt, doneSquashing>>
      BY <2>5, RobStaysEffect, Zenon
    <3>2. UNCHANGED <<commitInfo, youngestSeqNum>>
      BY <2>5, Zenon DEF RobStays, RenameTick, SquashSignal, UndoStep, UndoEnd, NoSquashSignal,
         RenameInst, RenameDestStep, SendInst, RenameEnd, RemoveStep, RemoveEnd,
         IEWIdle, NoSquashAll, NoSquashFromIEW, GetInstsEnd, FaultHead, RetireEnd,
         rvars, commitvars
    <3>3. ASSUME ~commitInfo.squash, squashIt # 0
          PROVE  EntriesUpTo(historyBuffer', squashedSeqNum)
      <4>0. EntriesUpTo(historyBuffer, squashedSeqNum)
        BY <3>3, Zenon DEF SquashInv
      <4>1. ~RenameDestStep
        <5>1. commitInfo.robSquashing /\ ~OnItsWay
          BY <2>t, <3>3, Zenon DEF OnItsWay
        <5>2. inst = None
          BY <2>t, <5>1, Zenon DEF StallInv, Quiet
        <5> QED
          BY <5>2, Zenon DEF RenameDestStep
      <4>2. ~UndoStep
        BY <3>3, <2>t, Zenon DEF UndoStep, ControlInv
      <4>3. CASE RemoveStep
        <5>1. FreeOldest
          BY <4>3, Zenon DEF RemoveStep
        <5>2. \A i \in DOMAIN historyBuffer' :
                  /\ i + 1 \in DOMAIN historyBuffer
                  /\ historyBuffer'[i] = historyBuffer[i + 1]
          BY <2>t, <5>1, FreeEffect, Zenon
        <5> QED
          BY <4>0, <5>2, Zenon DEF EntriesUpTo
      <4> QED
        BY <4>0, <4>1, <4>2, <4>3, HistoryKept, Zenon
    <3> QED
      BY <3>1, <3>2, <3>3, Zenon DEF SquashInv
  <2>6. CASE RobExecutes \/ CycleEnd
    <3>1. UNCHANGED <<commitInfo, youngestSeqNum, historyBuffer>>
      BY <2>6, Zenon DEF RobExecutes, IEWExecute, CycleEnd, rnvars, commitvars
    <3>2. /\ UNCHANGED <<squashedSeqNum, squashIt>> /\ DOMAIN rob' = DOMAIN rob
          /\ \A i \in DOMAIN rob : /\ rob'[i].seqNum = rob[i].seqNum
                                   /\ rob'[i].squashed = rob[i].squashed
      <4>1. CASE RobExecutes
        BY <2>t, <4>1, RobExecutesEffect, Zenon DEF RobExecutes, Same
      <4>2. CASE CycleEnd
        BY <2>t, <4>2, CycleEndEffect, Zenon DEF Same
      <4> QED
        BY <2>6, <4>1, <4>2, Zenon
    <3> QED
      BY <3>1, <3>2, Zenon DEF SquashInv
  <2> QED
    BY <2>1, <2>2, <2>3, <2>4, <2>5, <2>6, RobCases, Zenon DEF RobSquashes
<1>1. RRInit => PendInv /\ UndoneInv /\ SquashInv
  BY DEF RRInit, NoSignal, PendInv, OnItsWay, UndoneInv, SquashInv
<1>2. /\ Base /\ OrderInv /\ AgesInv /\ ReportInv /\ DoneInv /\ HistoryInv
      /\ PendInv /\ UndoneInv /\ SquashInv /\ [RRNext]_rvars
      => PendInv' /\ UndoneInv' /\ SquashInv'
  BY <1>PendStep, <1>UndoneStep, <1>SquashStep, Zenon DEF Base
<1> QED
  BY <1>1, <1>2, BaseInvariant, OrderInvariant, AgesInvariant, MarksInvariant,
     ReportInvariant, DoneInvariant, HistoryInvariant, PTL DEF RRSpec, Pipe

-----------------------------------------------------------------------------
(* Where the instruction with sequence number s can be, until it commits: in*)
(* the ROB, on its way to it, in rename; or a squash that covers it is      *)
(* signalled, or follows because the head of the ROB, which is older, waits *)
(* for its trap.                                                            *)
InROB(s) == \E i \in DOMAIN rob : rob[i].seqNum = s /\ ~rob[i].squashed
InToROB(s) == \E i \in DOMAIN toROB : toROB[i].seqNum = s
InFromRename(s) ==
    /\ at # "end"
    /\ \E i \in DOMAIN fromRename : fromRename[i].seqNum = s /\ ~fromRename[i].squashed
InRename(s) == inst # None /\ inst.seqNum = s
Pending(s) == commitInfo.squash /\ s > commitInfo.doneSeqNum
Trapped(s) == commitStatus = "TrapPending" /\ \A i \in DOMAIN rob : rob[i].seqNum < s
Covered(s) == \/ s <= lastCommitedSeqNum \/ InROB(s) \/ InToROB(s)
              \/ InFromRename(s) \/ InRename(s) \/ Pending(s) \/ Trapped(s)
CoveredInv ==
    \A i \in DOMAIN historyBuffer : Covered(historyBuffer[i].instSeqNum)

(* The entries have sequence numbers.                                       *)
NatEntries ==
    \A i \in DOMAIN historyBuffer : historyBuffer[i].instSeqNum \in Nat

(* By their type.                                                           *)
LEMMA EntriesNat == RNInv => NatEntries
  BY EntryTypes, Zenon DEF NatEntries

(* It is an invariant.                                                      *)
LEMMA CoveredInvariant == RRSpec => []CoveredInv
(* It stays there when rename works,                                        *)
<1>CoveredRename. ASSUME Pipe, RenameTick(Seq(ArchReg)), NEW s \in Nat, Covered(s)
                  PROVE  Covered(s)'
  <2> USE <1>CoveredRename
  <2>t. /\ RNInv /\ TypeInv /\ ControlInv /\ OrderInv /\ PendInv
        /\ fromRename \in Seq(FullInst) /\ toROB \in Seq(FullInst)
    BY Zenon DEF Pipe, Base, TypeInv, FrontTypes
  <2>1. UNCHANGED <<rob, lastCommitedSeqNum, commitInfo, commitStatus>>
    BY Zenon DEF RenameTick, SquashSignal, UndoStep, UndoEnd, NoSquashSignal,
       RenameInst, RenameDestStep, SendInst, RenameEnd, RemoveStep, RemoveEnd,
       robvars, commitvars
  <2>a. at' # "end"
    BY <2>t, Zenon DEF RenameTick, SquashSignal, UndoStep, UndoEnd, NoSquashSignal,
       RenameInst, RenameDestStep, SendInst, RenameEnd, RemoveStep, RemoveEnd,
       ControlInv
  <2>2. CASE SquashSignal
    <3>1. /\ UNCHANGED <<toROB, inst>> /\ OnItsWay
      BY <2>2, Zenon DEF SquashSignal, OnItsWay
    <3>2. InFromRename(s) => Pending(s)
      BY <2>t, <3>1, Zenon DEF InFromRename, Pending, PendInv, Above, OnItsWay
    <3> QED
      BY <2>1, <3>1, <3>2, Zenon DEF Covered, InROB, InToROB, InRename, Pending, Trapped
  <2>3. CASE RenameDestStep
    <3>1. inst' # None /\ inst'.seqNum = inst.seqNum /\ UNCHANGED <<toROB, fromRename>>
      BY <2>3, <2>t, DestStepInst, Zenon
    <3> QED
      BY <2>1, <2>a, <3>1, Zenon DEF Covered, InROB, InToROB, InFromRename, InRename, Pending, Trapped
  <2>4. CASE SendInst
    <3>1. /\ fromRename' = fromRename /\ toROB' = Append(toROB, inst) /\ inst # None
      BY <2>4, Zenon DEF SendInst
    <3>2. /\ DOMAIN toROB' = DOMAIN toROB \cup {Len(toROB) + 1}
          /\ toROB'[Len(toROB) + 1] = inst
          /\ \A i \in DOMAIN toROB : toROB'[i] = toROB[i]
      BY <2>t, <3>1, AppendFull
    <3>3. InToROB(s) \/ InRename(s) => InToROB(s)'
      BY <3>2, Zenon DEF InToROB, InRename
    <3> QED
      BY <2>1, <2>a, <3>1, <3>3, Zenon DEF Covered, InROB, InFromRename, Pending, Trapped
  <2>5. CASE \E dest \in Seq(ArchReg) : RenameInst(dest)
    <3>1. UNCHANGED <<fromRename, toROB>> /\ inst = None
      BY <2>5, Zenon DEF RenameInst
    <3> QED
      BY <2>1, <2>a, <3>1, Zenon DEF Covered, InROB, InToROB, InFromRename, InRename, Pending, Trapped
  <2>6. CASE \/ UndoStep \/ UndoEnd \/ NoSquashSignal \/ RenameEnd \/ RemoveStep
             \/ RemoveEnd
    <3>1. UNCHANGED <<fromRename, toROB, inst>>
      BY <2>6, Zenon DEF UndoStep, UndoEnd, NoSquashSignal, RenameEnd, RemoveStep,
         RemoveEnd, frontvars
    <3> QED
      BY <2>1, <2>a, <3>1, Zenon DEF Covered, InROB, InToROB, InFromRename, InRename, Pending, Trapped
  <2> QED
    BY <2>2, <2>3, <2>4, <2>5, <2>6, Zenon DEF RenameTick
(* when a squash begins or goes on (an entry of the instruction is still in *)
(* the history),                                                            *)
<1>CoveredSquash. ASSUME Pipe, RobSquashes, NEW s \in Nat, Covered(s),
                         \E i \in DOMAIN historyBuffer : historyBuffer[i].instSeqNum = s
                  PROVE  Covered(s)'
  <2> USE <1>CoveredSquash
  <2>t. /\ TypeInv /\ ControlInv /\ StallInv /\ OrderInv /\ PendInv /\ SquashInv
        /\ UndoneInv /\ AgesInv /\ ReportInv /\ DoneInv /\ RobTypes /\ Increasing(rob)
        /\ DOMAIN rob = 1 .. Len(rob) /\ Len(rob) \in Nat
        /\ Len(rob) \in 0 .. Len(rob) /\ squashIt \in 0 .. Len(rob)
        /\ squashedSeqNum \in Nat /\ lastCommitedSeqNum \in Nat
        /\ \A i \in DOMAIN rob : rob[i].seqNum \in Nat
        /\ commitInfo.doneSeqNum \in Nat
    BY FullSeq DEF Pipe, Base, TypeInv, RobTypes, OrderInv, CommitTypes, SignalType
  <2>1. UNCHANGED <<toROB, fromRename, inst, lastCommitedSeqNum>>
    BY Zenon DEF RobSquashes, CommitStart, SquashFromIEW, SquashAllStatus, frontvars
  <2>m. ASSUME NEW n \in Nat, ROBSquash(n), InROB(s), s <= n
        PROVE  InROB(s)'
    <3>1. PICK i \in DOMAIN rob : rob[i].seqNum = s /\ ~rob[i].squashed
      BY <2>m, Zenon DEF InROB
    <3>2. rob # <<>>
      BY <3>1, SMTT(20)
    <3>3. PICK low \in 0 .. Len(rob) : Marked(low, Len(rob), n)
      BY <2>t, <2>m, <3>2, ROBSquashMarks, Zenon
    <3>4. ~(low < i)
      <4>1. low < i => rob[i].seqNum > n
        BY <2>t, <3>3, Zenon DEF Marked
      <4> QED
        BY <2>t, <2>m, <3>1, <4>1, SMTT(20)
    <3>5. rob'[i] = rob[i] /\ i \in DOMAIN rob'
      BY <2>t, <3>3, <3>4, MarkedSame, Zenon DEF Marked, SameInsts
    <3> QED
      BY <3>1, <3>5, Zenon DEF InROB
  <2>2. CASE CommitStart
    <3>1. /\ at = "commit" /\ at' = "squash"
          /\ commitStatus = "TrapPending" => commitStatus' = commitStatus /\ rob' = rob
      BY <2>2, Zenon DEF CommitStart, robvars
    <3>2. ~Pending(s)
      BY <2>t, <3>1 DEF Pending, UndoneInv, EntriesUpTo
    <3>3. InROB(s) => InROB(s)'
      <4>1. CASE commitStatus = "ROBSquashing" /\ ~doneSquashing
        <5>1. DoSquash(squashIt, squashedSeqNum)
          BY <2>2, <4>1, Zenon DEF CommitStart
        <5>2. PICK low \in 0 .. squashIt : Marked(low, squashIt, squashedSeqNum)
          BY <2>t, <5>1, DoSquashMarks, Zenon
        <5>3. squashIt # 0
          BY <2>t, <4>1, Zenon DEF RobTypes
        <5>4. EntriesUpTo(historyBuffer, squashedSeqNum)
          BY <2>t, <3>1, <5>3, Zenon DEF SquashInv, UndoneInv
        <5>5. s <= squashedSeqNum
          BY <5>4, Zenon DEF EntriesUpTo
        <5> SUFFICES ASSUME InROB(s) PROVE InROB(s)'
          BY Zenon
        <5>6. PICK i \in DOMAIN rob : rob[i].seqNum = s /\ ~rob[i].squashed
          BY Zenon DEF InROB
        <5>7. ~(low < i /\ i <= squashIt)
          <6>1. i \in 1 .. squashIt /\ low < i => rob[i].seqNum > squashedSeqNum
            BY <2>t, <5>2, Zenon DEF Marked
          <6> QED
            BY <2>t, <5>5, <5>6, <6>1, SMTT(20)
        <5>8. rob'[i] = rob[i] /\ i \in DOMAIN rob'
          BY <2>t, <5>2, <5>7, MarkedSame, Zenon DEF Marked, SameInsts
        <5> QED
          BY <5>6, <5>8, Zenon DEF InROB
      <4>2. CASE ~(commitStatus = "ROBSquashing" /\ ~doneSquashing)
        BY <2>2, <4>2, Zenon DEF CommitStart, robvars, InROB
      <4> QED
        BY <4>1, <4>2, Zenon
    <3> QED
      BY <2>1, <3>1, <3>2, <3>3, Zenon DEF Covered, InToROB, InFromRename, InRename, Trapped
  <2>3. ASSUME NEW status, SquashAllStatus(status)
        PROVE  Covered(s)'
    <3> DEFINE n == IF rob = <<>> THEN lastCommitedSeqNum ELSE Head(rob).seqNum - 1
    <3>1. /\ at = "squash" /\ commitInfo' = SquashSignalFor(n)
      BY <2>3, Zenon DEF SquashAllStatus
    <3>2. /\ n \in Nat /\ Above(n, rob) /\ Above(n, toROB) /\ Above(n, fromRename)
      BY <2>t, SquashAllYounger, Zenon
    <3>3. ~Pending(s) /\ ~InRename(s)
      BY <2>t, <3>1, Zenon DEF Pending, InRename, ControlInv
    <3>4. Trapped(s) => s <= lastCommitedSeqNum \/ s > n
      <4>1. CASE rob = <<>>
        BY <2>t, <4>1
      <4>2. CASE rob # <<>>
        <5>1. 1 \in DOMAIN rob /\ rob[1] = Head(rob)
          BY <2>t, <4>2, HeadOfROB, Zenon
        <5>2. Trapped(s) => rob[1].seqNum < s /\ rob[1].seqNum \in Nat
          BY <2>t, <5>1, Zenon DEF Trapped
        <5>3. n = rob[1].seqNum - 1
          BY <4>2, <5>1, Zenon
        <5> HIDE DEF n
        <5> QED
          BY <5>2, <5>3
      <4> QED
        BY <4>1, <4>2, Zenon
    <3> HIDE DEF n
    <3>5. commitInfo'.squash /\ commitInfo'.doneSeqNum = n
      BY <3>1, Zenon DEF SquashSignalFor
    <3>6. InROB(s) \/ InToROB(s) \/ InFromRename(s) => s > n
      BY <3>2, Zenon DEF InROB, InToROB, InFromRename, Above
    <3>7. s <= lastCommitedSeqNum \/ s > n
      BY <3>3, <3>4, <3>6, Zenon DEF Covered
    <3> QED
      BY <2>1, <3>5, <3>7, Zenon DEF Covered, Pending
  <2>4. CASE SquashFromIEW
    <3> DEFINE n == commitInfo'.doneSeqNum
    <3>1. /\ n \in Nat /\ ROBSquash(n) /\ commitInfo'.squash
          /\ Above(n, toROB) /\ Above(n, fromRename)
          /\ ~commitInfo.squash /\ commitStatus # "TrapPending"
      BY <2>4, <2>t, SquashIEWYounger, Zenon
    <3>2. s > n => Pending(s)'
      BY <3>1, Zenon DEF Pending
    <3>3. InToROB(s) \/ InFromRename(s) => s > n
      BY <3>1, Zenon DEF InToROB, InFromRename, Above
    <3>4. InROB(s) => InROB(s)' \/ s > n
      BY <3>1, <2>m
    <3>5. ~Pending(s) /\ ~Trapped(s)
      BY <3>1, Zenon DEF Pending, Trapped
    <3> HIDE DEF n
    <3> QED
      BY <2>1, <3>2, <3>3, <3>4, <3>5, Zenon DEF Covered, InRename
  <2> QED
    BY <2>2, <2>3, <2>4, Zenon DEF RobSquashes
(* and in all other steps of IEW and commit.                                *)
<1>CoveredCommit. ASSUME Pipe, IEWTick \/ CommitTick \/ SquashFromTC, ~RobSquashes,
                         NEW s \in Nat, Covered(s)
                  PROVE  Covered(s)'
  <2> USE <1>CoveredCommit
  <2>t. /\ TypeInv /\ ControlInv /\ StallInv /\ OrderInv /\ PendInv /\ FrontMarks
        /\ rob \in Seq(FullInst) /\ fromRename \in Seq(FullInst)
        /\ DOMAIN rob = 1 .. Len(rob) /\ Len(rob) \in Nat
        /\ \A i \in DOMAIN rob : rob[i].seqNum \in Nat
        /\ lastCommitedSeqNum \in Nat
    BY FullSeq, Zenon DEF Pipe, Base, TypeInv, RobTypes, FrontTypes, CommitTypes
  <2>1. CASE IEWIdle \/ NoSquashAll \/ GetInstsEnd
    <3>1. /\ UNCHANGED <<rob, toROB, fromRename, inst, lastCommitedSeqNum,
                         commitInfo, commitStatus>>
          /\ at' # "end"
      BY <2>1, Zenon DEF IEWIdle, NoSquashAll, GetInstsEnd, robvars, frontvars, commitvars
    <3> QED
      BY <3>1, Zenon DEF Covered, InROB, InToROB, InFromRename, InRename, Pending, Trapped
  <2>2. CASE RobExecutes
    <3>1. /\ UNCHANGED <<toROB, fromRename, inst, lastCommitedSeqNum,
                         commitInfo, commitStatus>>
          /\ at' # "end"
      BY <2>2, Zenon DEF RobExecutes, IEWExecute, frontvars, commitvars
    <3>2. /\ DOMAIN rob' = DOMAIN rob
          /\ \A i \in DOMAIN rob : /\ rob'[i].seqNum = rob[i].seqNum
                                   /\ rob'[i].squashed = rob[i].squashed
      BY <2>t, <2>2, RobExecutesEffect, ZenonT(30) DEF RobExecutes, Same
    <3> QED
      BY <3>1, <3>2, Zenon DEF Covered, InROB, InToROB, InFromRename, InRename, Pending, Trapped
  <2>3. CASE NoSquashFromIEW
    <3>1. /\ UNCHANGED <<rob, toROB, fromRename, inst, lastCommitedSeqNum,
                         commitInfo, commitStatus>>
          /\ at = "iewsquash" /\ (at' = "end" => commitStatus = "ROBSquashing")
      BY <2>3, Zenon DEF NoSquashFromIEW, robvars, frontvars, commitvars
    <3>2. InFromRename(s) => InFromRename(s)' \/ Pending(s)
      <4> SUFFICES ASSUME InFromRename(s), at' = "end" PROVE Pending(s)
        BY <3>1, Zenon DEF InFromRename
      <4>1. OnItsWay
        BY <2>t, <3>1, Zenon DEF StallInv, ControlInv, Quiet, InFromRename
      <4> QED
        BY <2>t, <4>1, Zenon DEF PendInv, OnItsWay, Above, InFromRename, Pending
    <3> QED
      BY <3>1, <3>2, Zenon DEF Covered, InROB, InToROB, InRename, Pending, Trapped
  <2>4. CASE GetInst
    <3>1. /\ UNCHANGED <<toROB, inst, lastCommitedSeqNum, commitInfo, commitStatus>>
          /\ at = "insts" /\ at' = "insts" /\ fromRename # <<>>
          /\ fromRename' = Tail(fromRename)
          /\ commitStatus # "ROBSquashing"
          /\ Head(fromRename).squashed \/ commitStatus = "TrapPending" => rob' = rob
          /\ ~Head(fromRename).squashed /\ commitStatus # "TrapPending" =>
                  rob' = Append(rob, Head(fromRename))
      BY <2>4, <2>t, Zenon DEF GetInst, frontvars, ControlInv
    <3>2. /\ 1 \in DOMAIN fromRename /\ fromRename[1] = Head(fromRename)
          /\ \A i \in DOMAIN fromRename : i # 1 =>
                  i - 1 \in DOMAIN fromRename' /\ fromRename'[i - 1] = fromRename[i]
      BY <2>t, <3>1, TailFull, Zenon
    <3>3. CASE rob' = rob
      <4>1. Head(fromRename).squashed \/ commitStatus = "TrapPending"
        <5> SUFFICES ASSUME ~Head(fromRename).squashed, commitStatus # "TrapPending"
                     PROVE  FALSE
          BY Zenon
        <5>1. rob' = Append(rob, Head(fromRename))
          BY <3>1, Zenon
        <5> QED
          BY <2>t, <3>3, <5>1, AppendFull
      <4>2. InFromRename(s) => InFromRename(s)' \/ Trapped(s)
        <5> SUFFICES ASSUME InFromRename(s) PROVE InFromRename(s)' \/ Trapped(s)
          BY Zenon
        <5>1. PICK i \in DOMAIN fromRename :
                  fromRename[i].seqNum = s /\ ~fromRename[i].squashed
          BY Zenon DEF InFromRename
        <5>2. CASE i = 1
          BY <2>t, <3>2, <4>1, <5>1, <5>2, Zenon DEF Trapped, OrderInv, Below
        <5>3. CASE i # 1
          BY <3>1, <3>2, <5>1, <5>3, Zenon DEF InFromRename
        <5> QED
          BY <5>2, <5>3, Zenon
      <4> QED
        BY <3>1, <3>3, <4>2, Zenon DEF Covered, InROB, InToROB, InRename, Pending, Trapped
    <3>4. CASE rob' = Append(rob, Head(fromRename))
      <4>1. commitStatus # "TrapPending" /\ ~Head(fromRename).squashed
        <5> SUFFICES ASSUME rob' = rob PROVE FALSE
          BY <3>1, Zenon
        <5> QED
          BY <2>t, <3>4, AppendFull
      <4>2. /\ DOMAIN rob' = DOMAIN rob \cup {Len(rob) + 1}
            /\ rob'[Len(rob) + 1] = fromRename[1]
            /\ \A i \in DOMAIN rob : rob'[i] = rob[i]
        BY <2>t, <3>2, <3>4, AppendFull, Zenon
      <4>3. InROB(s) => InROB(s)'
        BY <4>2, Zenon DEF InROB
      <4>4. InFromRename(s) => InFromRename(s)' \/ InROB(s)'
        <5> SUFFICES ASSUME InFromRename(s) PROVE InFromRename(s)' \/ InROB(s)'
          BY Zenon
        <5>1. PICK i \in DOMAIN fromRename :
                  fromRename[i].seqNum = s /\ ~fromRename[i].squashed
          BY Zenon DEF InFromRename
        <5>2. CASE i = 1
          BY <4>2, <5>1, <5>2, Zenon DEF InROB
        <5>3. CASE i # 1
          BY <3>1, <3>2, <5>1, <5>3, Zenon DEF InFromRename
        <5> QED
          BY <5>2, <5>3, Zenon
      <4> QED
        BY <3>1, <4>1, <4>3, <4>4, Zenon DEF Covered, InToROB, InRename, Pending, Trapped
    <3> QED
      BY <3>1, <3>3, <3>4, Zenon
  <2>5. CASE RobRetires
    <3>1. /\ UNCHANGED <<toROB, fromRename, inst, at>> /\ at = "retire"
          /\ rob # <<>> /\ rob' = Tail(rob) /\ commitStatus = "Running"
          /\ \/ Head(rob).squashed /\ lastCommitedSeqNum' = lastCommitedSeqNum
             \/ lastCommitedSeqNum' = Head(rob).seqNum
      BY <2>5, Zenon DEF RobRetires, RetireSquashed, CommitHead, HeadReady, frontvars, commitvars
    <3>2. /\ 1 \in DOMAIN rob /\ rob[1] = Head(rob)
          /\ \A i \in DOMAIN rob : i # 1 => i - 1 \in DOMAIN rob' /\ rob'[i - 1] = rob[i]
      BY <2>t, <3>1, TailFull, Zenon
    <3>3. ~Pending(s) /\ ~Trapped(s)
      BY <2>t, <3>1, Zenon DEF Pending, Trapped, ControlInv
    <3>4. InROB(s) => InROB(s)' \/ s <= lastCommitedSeqNum'
      <4> SUFFICES ASSUME InROB(s) PROVE InROB(s)' \/ s <= lastCommitedSeqNum'
        BY Zenon
      <4>1. PICK i \in DOMAIN rob : rob[i].seqNum = s /\ ~rob[i].squashed
        BY Zenon DEF InROB
      <4>2. CASE i = 1
        BY <3>1, <3>2, <4>1, <4>2, SMTT(20)
      <4>3. CASE i # 1
        BY <3>2, <4>1, <4>3, Zenon DEF InROB
      <4> QED
        BY <4>2, <4>3, Zenon
    <3>5. lastCommitedSeqNum <= lastCommitedSeqNum' /\ lastCommitedSeqNum' \in Nat
      BY <2>t, <3>1, <3>2 DEF OrderInv, Above
    <3>6. s <= lastCommitedSeqNum => s <= lastCommitedSeqNum'
      BY <2>t, <3>5, SMTT(20)
    <3> QED
      BY <3>1, <3>3, <3>4, <3>6, Zenon DEF Covered, InToROB, InFromRename, InRename
  <2>6. CASE FaultHead \/ RetireEnd
    <3>1. /\ UNCHANGED <<rob, toROB, fromRename, inst, lastCommitedSeqNum, commitInfo>>
          /\ at = "retire" /\ (commitStatus' = commitStatus \/ commitStatus = "Running")
      BY <2>6, Zenon DEF FaultHead, RetireEnd, HeadReady, robvars, frontvars, commitvars
    <3>2. ~InFromRename(s)
      BY <2>t, <3>1, SMTT(20) DEF InFromRename, ControlInv
    <3> QED
      BY <3>1, <3>2, Zenon DEF Covered, InROB, InToROB, InRename, Pending, Trapped
  <2>7. CASE CycleEnd
    <3>1. /\ UNCHANGED <<inst, lastCommitedSeqNum, commitInfo, commitStatus>>
          /\ at = "end" /\ at' = "signals" /\ fromRename' = toROB
      BY <2>7, Zenon DEF CycleEnd, commitvars
    <3>2. /\ DOMAIN rob' = DOMAIN rob
          /\ \A i \in DOMAIN rob : /\ rob'[i].seqNum = rob[i].seqNum
                                   /\ rob'[i].squashed = rob[i].squashed
      BY <2>t, <2>7, CycleEndEffect, ZenonT(30) DEF Same
    <3>3. InToROB(s) => InFromRename(s)'
      BY <2>t, <3>1, Zenon DEF InToROB, InFromRename, FrontMarks
    <3> QED
      BY <3>1, <3>2, <3>3, Zenon DEF Covered, InROB, InFromRename, InRename, Pending, Trapped
  <2> QED
    BY <2>1, <2>2, <2>3, <2>4, <2>5, <2>6, <2>7, Zenon
       DEF IEWTick, RobExecutes, CommitTick, SquashFromTC, SquashFromTrap,
           SquashFromSquashAfter, RobSquashes, RobRetires
(* Every entry of the history after a step was there, or is of the          *)
(* instruction that rename holds.                                           *)
<1>EntriesFrom. ASSUME Pipe, [RRNext]_rvars
                PROVE  \A i \in DOMAIN historyBuffer' :
                          \/ \E j \in DOMAIN historyBuffer :
                                historyBuffer[j].instSeqNum = historyBuffer'[i].instSeqNum
                          \/ inst' # None /\ inst'.seqNum = historyBuffer'[i].instSeqNum
  <2> USE <1>EntriesFrom
  <2>t. RNInv /\ TypeInv /\ OrderInv
    BY Zenon DEF Pipe, Base
  <2>1. CASE RenameDestStep
    <3>1. PICK a \in ArchReg : inst.seqNum = seqNum /\ seqNum \in Nat /\ RenameDest(seqNum, a)
      BY <2>t, <2>1, DestStepEffect, Zenon
    <3>2. inst' # None /\ inst'.seqNum = seqNum
      BY <2>t, <2>1, <3>1, DestStepInst, Zenon
    <3>3. \A i \in DOMAIN historyBuffer' :
              \/ i \in DOMAIN historyBuffer /\ historyBuffer'[i] = historyBuffer[i]
              \/ historyBuffer'[i].instSeqNum = seqNum
      BY <2>t, <3>1, DestEffect
    <3> QED
      BY <3>2, <3>3, Zenon
  <2>2. CASE UndoStep
    <3>1. UndoNewest
      BY <2>2, Zenon DEF UndoStep
    <3>2. \A i \in DOMAIN historyBuffer' :
              i \in DOMAIN historyBuffer /\ historyBuffer'[i] = historyBuffer[i]
      BY <2>t, <3>1, UndoEffect, Zenon
    <3> QED
      BY <3>2, Zenon
  <2>3. CASE RemoveStep
    <3>1. FreeOldest
      BY <2>3, Zenon DEF RemoveStep
    <3>2. \A i \in DOMAIN historyBuffer' : \E j \in DOMAIN historyBuffer :
              historyBuffer'[i] = historyBuffer[j]
      BY <2>t, <3>1, FreeEffect, Zenon
    <3> QED
      BY <3>2, Zenon
  <2>4. CASE ~RenameDestStep /\ ~UndoStep /\ ~RemoveStep
    BY <2>4, HistoryKept, Zenon
  <2> QED
    BY <2>1, <2>2, <2>3, <2>4, Zenon
(* So no instruction with an entry is lost.                                 *)
<1>CoveredStep. ASSUME Pipe, Pipe', CoveredInv, [RRNext]_rvars
                PROVE  CoveredInv'
  <2> USE <1>CoveredStep
  <2> SUFFICES ASSUME NEW s \in Nat,
                      \E i \in DOMAIN historyBuffer' : historyBuffer'[i].instSeqNum = s
               PROVE  Covered(s)'
    <3>1. \A i \in DOMAIN historyBuffer' : historyBuffer'[i].instSeqNum \in Nat
      <4>1. RNInv'
        BY Zenon DEF Pipe, Base
      <4>2. NatEntries'
        BY <4>1, EntriesNat, PTL
      <4> QED
        BY <4>2, Zenon DEF NatEntries
    <3>2. \A s \in Nat : (\E i \in DOMAIN historyBuffer' :
                              historyBuffer'[i].instSeqNum = s) => Covered(s)'
      BY Zenon
    <3>3. \A i \in DOMAIN historyBuffer' : \A s \in Nat :
              s = historyBuffer'[i].instSeqNum => Covered(s)'
      BY <3>2, Zenon
    <3> QED
      BY <3>1, <3>3, Zenon DEF CoveredInv, Covered, InROB, InToROB, InFromRename, InRename,
                        Pending, Trapped
  <2>1. \/ \E j \in DOMAIN historyBuffer : historyBuffer[j].instSeqNum = s
        \/ inst' # None /\ inst'.seqNum = s
    BY <1>EntriesFrom, Zenon
  <2>2. CASE inst' # None /\ inst'.seqNum = s
    BY <2>2, Zenon DEF Covered, InRename
  <2>3. CASE \E j \in DOMAIN historyBuffer : historyBuffer[j].instSeqNum = s
    <3>1. Covered(s)
      BY <2>3, Zenon DEF CoveredInv
    <3>2. CASE RenameTick(Seq(ArchReg))
      BY <3>1, <3>2, <1>CoveredRename, Zenon
    <3>3. CASE RobSquashes
      BY <2>3, <3>1, <3>3, <1>CoveredSquash, Zenon
    <3>4. CASE (IEWTick \/ CommitTick \/ SquashFromTC) /\ ~RobSquashes
      BY <3>1, <3>4, <1>CoveredCommit, Zenon
    <3>5. CASE UNCHANGED rvars
      BY <3>1, <3>5, Zenon DEF rvars, frontvars, robvars, commitvars, Covered, InROB, InToROB,
                        InFromRename, InRename, Pending, Trapped
    <3> QED
      BY <3>2, <3>3, <3>4, <3>5, Zenon DEF RRNext
  <2> QED
    BY <2>1, <2>2, <2>3, Zenon
<1>1. RRInit => CoveredInv
  BY DEF RRInit, RenameInit, CoveredInv
<1>2. Pipe /\ Pipe' /\ CoveredInv /\ [RRNext]_rvars => CoveredInv'
  BY <1>CoveredStep, Zenon
<1> QED
  BY <1>1, <1>2, PipeInvariant, PTL DEF RRSpec

(* No instruction is lost between rename and the ROB, for every width of the*)
(* stages and every program: commit drops what arrives while it squashes    *)
(* (Commit::commit), but only what the squash covers.                       *)
THEOREM NoneDroppedTheorem == RRSpec => []NoneDropped
<1>1. ASSUME Pipe, CoveredInv
      PROVE  NoneDropped
  <2> SUFFICES ASSUME NEW i \in DOMAIN historyBuffer,
                      NEW s, s = historyBuffer[i].instSeqNum
               PROVE  \/ s <= lastCommitedSeqNum
                      \/ \E d \in InFlight : d.seqNum = s /\ ~d.squashed
                      \/ inst # None /\ inst.seqNum = s
                      \/ commitInfo.squash /\ s > commitInfo.doneSeqNum
                      \/ commitStatus = "TrapPending"
    BY Zenon DEF NoneDropped
  <2>1. Covered(s)
    BY <1>1, Zenon DEF CoveredInv
  <2>2. InROB(s) => \E d \in InFlight : d.seqNum = s /\ ~d.squashed
    BY Zenon DEF InROB, InFlight, Range
  <2>3. InFromRename(s) => \E d \in InFlight : d.seqNum = s /\ ~d.squashed
    BY Zenon DEF InFromRename, InFlight, Range
  <2>4. InToROB(s) => \E d \in InFlight : d.seqNum = s /\ ~d.squashed
    BY <1>1, Zenon DEF InToROB, InFlight, Range, Pipe, FrontMarks
  <2> QED
    BY <2>1, <2>2, <2>3, <2>4, Zenon DEF Covered, InRename, Pending, Trapped
<1> QED
  BY <1>1, CoveredInvariant, PipeInvariant, PTL

-----------------------------------------------------------------------------
(* What rename's history must still know of an instruction x: its entries,  *)
(* and the map that it read its sources in.                                 *)
Strong(h, m, x) == Match(h, x) /\ MapBefore(h, m, x.seqNum, x.src)

(* The history knows of every instruction in flight that is not squashed.   *)
(* Of those that rename has undone and that the ROB has not marked yet it   *)
(* knows nothing: IEW has dropped them.                                     *)
Live(x) == ~x.squashed /\ (squashIt = 0 \/ x.seqNum <= squashedSeqNum)
RobStrong ==
    \A i \in DOMAIN rob : Live(rob[i]) /\ ~Pending(rob[i].seqNum)
                            => Strong(historyBuffer, renameMap, rob[i])
FromStrong ==
    \A i \in DOMAIN fromRename :
        ~fromRename[i].squashed /\ ~Pending(fromRename[i].seqNum)
            => Strong(historyBuffer, renameMap, fromRename[i])
ToStrong ==
    \A i \in DOMAIN toROB : ~Pending(toROB[i].seqNum)
                                => Strong(historyBuffer, renameMap, toROB[i])

(* The entries of the instruction that rename holds are the newest ones.    *)
InstStrong ==
    inst # None =>
        /\ Len(inst.renamed) <= Len(historyBuffer)
        /\ MatchAt(historyBuffer, inst.seqNum, inst.dest, inst.renamed,
                   Len(historyBuffer) - Len(inst.renamed))
        /\ MapBefore(historyBuffer, renameMap, inst.seqNum, inst.src)
StrongInv == RobStrong /\ FromStrong /\ ToStrong /\ InstStrong

(* So the history always knows of the live instructions.                    *)
LEMMA StrongInvariant == RRSpec => []StrongInv
(* They stay when a destination of another instruction is renamed,          *)
<1>MatchDest. ASSUME RNInv, NEW t \in Nat, NEW a \in ArchReg, RenameDest(t, a),
                     NEW x \in FullInst, x.seqNum # t, Match(historyBuffer, x)
              PROVE  Match(historyBuffer', x)
  <2> USE <1>MatchDest
  <2> DEFINE n == Len(historyBuffer) + 1
  <2>1. /\ DOMAIN historyBuffer' = DOMAIN historyBuffer \cup {n}
        /\ \A i \in DOMAIN historyBuffer : historyBuffer'[i] = historyBuffer[i]
        /\ historyBuffer'[n].instSeqNum = t
    BY DestEffect, ZenonT(30)
  <2> HIDE DEF n
  <2>2. PICK o \in Nat : MatchAt(historyBuffer, x.seqNum, x.dest, x.renamed, o)
    BY Zenon DEF Match
  <2>3. MatchAt(historyBuffer', x.seqNum, x.dest, x.renamed, o)
    BY <2>1, <2>2, Zenon DEF MatchAt
  <2> QED
    BY <2>3, Zenon DEF Match
(* when an entry of another one is undone,                                  *)
<1>MatchUndo. ASSUME RNInv, UndoNewest, NEW x \in FullInst, x.seqNum # Newest.instSeqNum,
                     Match(historyBuffer, x)
              PROVE  Match(historyBuffer', x)
  <2> USE <1>MatchUndo
  <2> DEFINE n == Len(historyBuffer)
  <2>1. /\ DOMAIN historyBuffer' = DOMAIN historyBuffer \ {n}
        /\ \A i \in DOMAIN historyBuffer' : historyBuffer'[i] = historyBuffer[i]
        /\ Newest = historyBuffer[n]
    BY UndoEffect, Zenon
  <2> HIDE DEF n
  <2>2. PICK o \in Nat : MatchAt(historyBuffer, x.seqNum, x.dest, x.renamed, o)
    BY Zenon DEF Match
  <2>3. MatchAt(historyBuffer', x.seqNum, x.dest, x.renamed, o)
    BY <2>1, <2>2, Zenon DEF MatchAt
  <2> QED
    BY <2>3, Zenon DEF Match
(* and when one of another one is removed.                                  *)
<1>MatchFree. ASSUME RNInv, FreeOldest, NEW x \in FullInst, x.seqNum # Oldest.instSeqNum,
                     Match(historyBuffer, x)
              PROVE  Match(historyBuffer', x)
  <2> USE <1>MatchFree
  <2>1. /\ 1 \in DOMAIN historyBuffer /\ Oldest = historyBuffer[1]
        /\ \A i \in DOMAIN historyBuffer' :
              /\ i \in Nat \ {0} /\ i + 1 \in DOMAIN historyBuffer
              /\ historyBuffer'[i] = historyBuffer[i + 1]
        /\ \A i \in DOMAIN historyBuffer : i # 1 =>
              /\ i - 1 \in DOMAIN historyBuffer' /\ i - 1 \in Nat \ {0}
              /\ historyBuffer'[i - 1] = historyBuffer[i]
    BY FreeEffect, Zenon
  <2>2. PICK o \in Nat : MatchAt(historyBuffer, x.seqNum, x.dest, x.renamed, o)
    BY Zenon DEF Match
  <2>3. Len(x.renamed) \in Nat
    BY SMTT(20) DEF FullInst, DynInst
  <2>4. CASE o # 0
    <3>1. o - 1 \in Nat
      BY <2>4, SMTT(20)
    <3>2. ASSUME NEW k \in 1 .. Len(x.renamed)
          PROVE  /\ (o - 1) + k \in DOMAIN historyBuffer'
                 /\ historyBuffer'[(o - 1) + k] = historyBuffer[o + k]
      <4>1. o + k \in DOMAIN historyBuffer /\ o + k # 1 /\ (o + k) - 1 = (o - 1) + k
        BY <2>2, <2>4, SMTT(20) DEF MatchAt
      <4> QED
        BY <2>1, <4>1, Zenon
    <3>3. ASSUME NEW j \in DOMAIN historyBuffer', historyBuffer'[j].instSeqNum = x.seqNum
          PROVE  o - 1 < j /\ j <= (o - 1) + Len(x.renamed)
      <4>1. o < j + 1 /\ j + 1 <= o + Len(x.renamed) /\ j \in Nat
        BY <2>1, <2>2, <3>3, Zenon DEF MatchAt
      <4> QED
        BY <2>3, <4>1, SMTT(20)
    <3>4. MatchAt(historyBuffer', x.seqNum, x.dest, x.renamed, o - 1)
      BY <2>2, <3>2, <3>3, Zenon DEF MatchAt
    <3> QED
      BY <3>1, <3>4, Zenon DEF Match
  <2>5. CASE o = 0
    <3>1. Len(x.renamed) = 0
      <4>1. 1 \in 1 .. Len(x.renamed) => historyBuffer[o + 1].instSeqNum = x.seqNum
        BY <2>2, Zenon DEF MatchAt
      <4>2. o + 1 = 1
        BY <2>5, SMTT(20)
      <4> QED
        BY <2>1, <2>3, <4>1, <4>2, SMTT(20)
    <3>2. \A j \in DOMAIN historyBuffer : historyBuffer[j].instSeqNum # x.seqNum
      BY <2>2, <2>5, <3>1, EntryTypes, SMTT(20) DEF MatchAt
    <3>3. MatchAt(historyBuffer', x.seqNum, x.dest, x.renamed, 0)
      BY <2>1, <3>1, <3>2 DEF MatchAt
    <3> QED
      BY <3>3, Zenon DEF Match
  <2> QED
    BY <2>4, <2>5, Zenon
(* It knows it until x is undone or has committed.                          *)
<1>StrongKept. ASSUME Pipe, [RRNext]_rvars, NEW x \in FullInst,
                      Strong(historyBuffer, renameMap, x),
                      RenameDestStep => x.seqNum < seqNum,
                      UndoStep => x.seqNum <= commitInfo.doneSeqNum,
                      RemoveStep => lastCommitedSeqNum < x.seqNum
               PROVE  Strong(historyBuffer', renameMap', x)
  <2> USE <1>StrongKept
  <2>t. /\ RNInv /\ TypeInv /\ OrderInv /\ ControlInv /\ DoneInv /\ x.seqNum \in Nat
        /\ commitInfo.doneSeqNum \in Nat /\ lastCommitedSeqNum \in Nat
        /\ Match(historyBuffer, x) /\ MapBefore(historyBuffer, renameMap, x.seqNum, x.src)
        /\ Len(historyBuffer) \in Nat /\ DOMAIN historyBuffer = 1 .. Len(historyBuffer)
        /\ \A i \in DOMAIN historyBuffer : historyBuffer[i].instSeqNum \in Nat
    BY EntryTypes, Zenon DEF Pipe, Base, Strong, FullInst, DynInst, TypeInv, CommitTypes, SignalType
  <2>1. CASE RenameDestStep
    <3>1. PICK a \in ArchReg : seqNum \in Nat /\ RenameDest(seqNum, a)
      BY <2>t, <2>1, DestStepEffect, Zenon
    <3>2. x.seqNum # seqNum /\ x.seqNum <= seqNum
      BY <2>t, <2>1, <3>1, SMTT(20)
    <3>3. Match(historyBuffer', x)
      BY <2>t, <3>1, <3>2, <1>MatchDest, Zenon
    <3>4. MapBefore(historyBuffer', renameMap', x.seqNum, x.src)
      BY <2>t, <3>1, <3>2, MapBeforeDest, Zenon
    <3> QED
      BY <3>3, <3>4, Zenon DEF Strong
  <2>2. CASE UndoStep
    <3>1. UndoNewest /\ Newest.instSeqNum > commitInfo.doneSeqNum
      BY <2>2, Zenon DEF UndoStep, ToUndo
    <3>2. Newest.instSeqNum \in Nat
      BY <2>t, <3>1, UndoEffect, ZenonT(30)
    <3>3. x.seqNum # Newest.instSeqNum /\ x.seqNum <= Newest.instSeqNum
      BY <2>t, <2>2, <3>1, <3>2, SMTT(20)
    <3>4. Match(historyBuffer', x)
      BY <2>t, <3>1, <3>3, <1>MatchUndo, Zenon
    <3>5. MapBefore(historyBuffer', renameMap', x.seqNum, x.src)
      BY <2>t, <3>1, <3>3, MapBeforeUndo, Zenon
    <3> QED
      BY <3>4, <3>5, Zenon DEF Strong
  <2>3. CASE RemoveStep
    <3>1. FreeOldest /\ Oldest.instSeqNum <= commitInfo.doneSeqNum /\ at = "remove"
      BY <2>3, Zenon DEF RemoveStep, ToRemove
    <3>2. Oldest.instSeqNum \in Nat
      BY <2>t, <3>1, FreeEffect, Zenon
    <3>3. commitInfo.doneSeqNum <= lastCommitedSeqNum
      BY <2>t, <3>1, Zenon DEF DoneInv, ControlInv
    <3>4. x.seqNum # Oldest.instSeqNum /\ Oldest.instSeqNum < x.seqNum
      BY <2>t, <2>3, <3>1, <3>2, <3>3, SMTT(20)
    <3>5. Match(historyBuffer', x)
      BY <2>t, <3>1, <3>4, <1>MatchFree, Zenon
    <3>6. MapBefore(historyBuffer', renameMap', x.seqNum, x.src)
      BY <2>t, <3>1, <3>4, MapBeforeFree, Zenon
    <3> QED
      BY <3>5, <3>6, Zenon DEF Strong
  <2>4. CASE ~RenameDestStep /\ ~UndoStep /\ ~RemoveStep
    BY <2>4, HistoryKept, Zenon
  <2> QED
    BY <2>1, <2>2, <2>3, <2>4, Zenon
(* Whether it knows of x does not depend on the marks of x.                 *)
<1>StrongSame. ASSUME NEW h, NEW m, NEW x, NEW y, Same(y, x), Strong(h, m, x)
               PROVE  Strong(h, m, y)
  BY <1>StrongSame, Zenon DEF Same, Strong, Match
(* Rename keeps its knowledge of the ROB,                                   *)
<1>RobStrongRename. ASSUME Pipe, RobStrong, RenameTick(Seq(ArchReg))
                    PROVE  RobStrong'
  <2> USE <1>RobStrongRename
  <2>1. UNCHANGED <<rob, squashedSeqNum, squashIt, commitInfo>>
    BY Zenon DEF RenameTick, SquashSignal, UndoStep, UndoEnd, NoSquashSignal,
       RenameInst, RenameDestStep, SendInst, RenameEnd, RemoveStep, RemoveEnd, robvars
  <2>t. /\ RNInv /\ TypeInv /\ OrderInv /\ ControlInv /\ rob \in Seq(FullInst)
        /\ commitInfo.doneSeqNum \in Nat /\ seqNum \in Nat
        /\ [RRNext]_rvars
    BY Zenon DEF Pipe, Base, TypeInv, RobTypes, FrontTypes, CommitTypes, SignalType, RRNext
  <2> SUFFICES ASSUME NEW i \in DOMAIN rob, Live(rob[i]), ~Pending(rob[i].seqNum)
               PROVE  Strong(historyBuffer', renameMap', rob[i])
    BY <2>1, Zenon DEF RobStrong, Live, Pending
  <2>2. rob[i] \in FullInst /\ rob[i].seqNum \in Nat
    BY <2>t, FullSeq, Zenon
  <2>3. Strong(historyBuffer, renameMap, rob[i])
    BY Zenon DEF RobStrong
  <2>4. RenameDestStep => rob[i].seqNum < seqNum
    BY <2>t, <2>2, SMTT(20) DEF RenameDestStep, OrderInv, UpTo
  <2>5. UndoStep => rob[i].seqNum <= commitInfo.doneSeqNum
    BY <2>t, <2>2, SMTT(20) DEF UndoStep, ControlInv, Pending
  <2>6. RemoveStep => lastCommitedSeqNum < rob[i].seqNum
    BY <2>t, Zenon DEF OrderInv, Above
  <2> QED
    BY <2>t, <2>2, <2>3, <2>4, <2>5, <2>6, <1>StrongKept, Zenon
(* of what it has sent to commit,                                           *)
<1>FromStrongRename. ASSUME Pipe, FromStrong, RenameTick(Seq(ArchReg))
                     PROVE  FromStrong'
  <2> USE <1>FromStrongRename
  <2>1. UNCHANGED commitInfo /\ (~SquashSignal => UNCHANGED fromRename)
    BY Zenon DEF RenameTick, SquashSignal, UndoStep, UndoEnd, NoSquashSignal,
       RenameInst, RenameDestStep, SendInst, RenameEnd, RemoveStep, RemoveEnd
  <2>t. /\ RNInv /\ TypeInv /\ OrderInv /\ ControlInv /\ fromRename \in Seq(FullInst)
        /\ commitInfo.doneSeqNum \in Nat /\ seqNum \in Nat
        /\ [RRNext]_rvars
    BY Zenon DEF Pipe, Base, TypeInv, FrontTypes, CommitTypes, SignalType, RRNext
  <2>2. CASE SquashSignal
    <3>1. fromRename' = [i \in DOMAIN fromRename |->
                              [fromRename[i] EXCEPT !.squashed = TRUE]]
      BY <2>2, Zenon DEF SquashSignal
    <3>2. \A i \in DOMAIN fromRename : [fromRename[i] EXCEPT !.squashed = TRUE].squashed
      BY <2>t, FullSeq, SquashInst, Zenon
    <3>3. \A i \in DOMAIN fromRename' : fromRename'[i].squashed
      BY <3>1, <3>2, ZenonT(30)
    <3> QED
      BY <3>3, Zenon DEF FromStrong
  <2>3. CASE ~SquashSignal
    <3> SUFFICES ASSUME NEW i \in DOMAIN fromRename, ~fromRename[i].squashed,
                        ~Pending(fromRename[i].seqNum)
                 PROVE  Strong(historyBuffer', renameMap', fromRename[i])
      BY <2>1, <2>3, Zenon DEF FromStrong, Pending
    <3>2. fromRename[i] \in FullInst /\ fromRename[i].seqNum \in Nat
      BY <2>t, FullSeq, Zenon
    <3>3. Strong(historyBuffer, renameMap, fromRename[i])
      BY Zenon DEF FromStrong
    <3>4. RenameDestStep => fromRename[i].seqNum < seqNum
      BY <2>t, <3>2, SMTT(20) DEF RenameDestStep, OrderInv, UpTo
    <3>5. UndoStep => fromRename[i].seqNum <= commitInfo.doneSeqNum
      BY <2>t, <3>2, SMTT(20) DEF UndoStep, ControlInv, Pending
    <3>6. RemoveStep => lastCommitedSeqNum < fromRename[i].seqNum
      BY <2>t, Zenon DEF OrderInv, Above
    <3> QED
      BY <2>t, <3>2, <3>3, <3>4, <3>5, <3>6, <1>StrongKept, Zenon
  <2> QED
    BY <2>2, <2>3, Zenon
(* of what it sends in this cycle,                                          *)
<1>ToStrongRename. ASSUME Pipe, ToStrong, InstStrong, RenameTick(Seq(ArchReg))
                   PROVE  ToStrong'
  <2> USE <1>ToStrongRename
  <2>1. /\ UNCHANGED commitInfo /\ (~SendInst => UNCHANGED toROB)
        /\ SendInst => inst # None /\ toROB' = Append(toROB, inst)
                       /\ Len(inst.renamed) = Len(inst.dest)
                       /\ UNCHANGED <<historyBuffer, renameMap>>
    BY Zenon DEF RenameTick, SquashSignal, UndoStep, UndoEnd, NoSquashSignal,
       RenameInst, RenameDestStep, SendInst, RenameEnd, RemoveStep, RemoveEnd, frontvars,
       rnvars
  <2>t. /\ RNInv /\ TypeInv /\ OrderInv /\ ControlInv /\ toROB \in Seq(FullInst)
        /\ commitInfo.doneSeqNum \in Nat /\ seqNum \in Nat
        /\ [RRNext]_rvars
    BY Zenon DEF Pipe, Base, TypeInv, FrontTypes, CommitTypes, SignalType, RRNext
  <2>2. ASSUME NEW i \in DOMAIN toROB, ~Pending(toROB[i].seqNum)
        PROVE  Strong(historyBuffer', renameMap', toROB[i])
    <3>2. toROB[i] \in FullInst /\ toROB[i].seqNum \in Nat
      BY <2>t, FullSeq, Zenon
    <3>3. Strong(historyBuffer, renameMap, toROB[i])
      BY <2>2, Zenon DEF ToStrong
    <3>4. RenameDestStep => toROB[i].seqNum < seqNum
      BY <2>t, <3>2, SMTT(20) DEF RenameDestStep, OrderInv, UpTo
    <3>5. UndoStep => toROB[i].seqNum <= commitInfo.doneSeqNum
      BY <2>t, <2>2, <3>2, SMTT(20) DEF UndoStep, ControlInv, Pending
    <3>6. RemoveStep => lastCommitedSeqNum < toROB[i].seqNum
      BY <2>t, Zenon DEF OrderInv, Above
    <3> QED
      BY <2>t, <3>2, <3>3, <3>4, <3>5, <3>6, <1>StrongKept, Zenon
  <2>3. CASE ~SendInst
    BY <2>1, <2>2, <2>3, Zenon DEF ToStrong, Pending
  <2>4. CASE SendInst
    <3>1. Strong(historyBuffer, renameMap, inst)
      <4>1. /\ Len(historyBuffer) \in Nat /\ Len(inst.renamed) \in Nat
        BY <2>t, <2>1, <2>4, EntryTypes DEF TypeInv, FrontTypes, DynInst
      <4>2. /\ Len(inst.renamed) <= Len(historyBuffer)
            /\ MatchAt(historyBuffer, inst.seqNum, inst.dest, inst.renamed,
                       Len(historyBuffer) - Len(inst.renamed))
            /\ MapBefore(historyBuffer, renameMap, inst.seqNum, inst.src)
        BY <2>1, <2>4, Zenon DEF InstStrong
      <4>3. Len(historyBuffer) - Len(inst.renamed) \in Nat
        BY <4>1, <4>2
      <4> QED
        BY <4>2, <4>3, Zenon DEF Strong, Match
    <3>2. /\ DOMAIN toROB' = DOMAIN toROB \cup {Len(toROB) + 1}
          /\ toROB'[Len(toROB) + 1] = inst
          /\ \A i \in DOMAIN toROB : toROB'[i] = toROB[i]
      BY <2>t, <2>1, <2>4, AppendFull, SMTT(20)
    <3>3. \A i \in DOMAIN toROB' : ~Pending(toROB'[i].seqNum) =>
                  Strong(historyBuffer', renameMap', toROB'[i])
      BY <2>1, <2>2, <2>4, <3>1, <3>2, Zenon
    <3> QED
      BY <2>1, <3>3, Zenon DEF ToStrong, Pending
  <2> QED
    BY <2>3, <2>4, Zenon
(* and of the instruction that it holds.                                    *)
<1>InstStrongRename. ASSUME Pipe, InstStrong, RenameTick(Seq(ArchReg))
                     PROVE  InstStrong'
  <2> USE <1>InstStrongRename
  <2>t. /\ RNInv /\ TypeInv /\ OrderInv /\ ControlInv /\ HistoryInv
        /\ Len(historyBuffer) \in Nat /\ seqNum \in Nat
        /\ DOMAIN historyBuffer = 1 .. Len(historyBuffer)
        /\ \A i \in DOMAIN historyBuffer : historyBuffer[i].instSeqNum \in Nat
    BY EntryTypes, Zenon DEF Pipe, Base, TypeInv, FrontTypes
  <2>1. CASE at # "rename" \/ RenameEnd \/ SendInst
    <3>1. inst' = None
      <4>1. inst = None \/ SendInst
        BY <2>t, <2>1, Zenon DEF ControlInv, RenameEnd
      <4>2. at # "rename" \/ RenameEnd => inst' = inst \/ SendInst
        BY <4>1, Zenon DEF RenameTick, SquashSignal, UndoStep, UndoEnd, NoSquashSignal,
           RenameInst, RenameDestStep, SendInst, RenameEnd, RemoveStep, RemoveEnd, frontvars
      <4> QED
        BY <2>1, <4>1, <4>2, Zenon DEF SendInst
    <3> QED
      BY <3>1, Zenon DEF InstStrong
  <2>2. ASSUME NEW dest \in Seq(ArchReg), RenameInst(dest)
        PROVE  InstStrong'
    <3>1. /\ inst' = [seqNum |-> seqNum + 1, dest |-> dest, renamed |-> <<>>,
                      src |-> renameMap, squashed |-> FALSE,
                      executed |-> FALSE, canCommit |-> FALSE]
          /\ UNCHANGED <<historyBuffer, renameMap>>
      BY <2>2, Zenon DEF RenameInst, rnvars
    <3>2. /\ inst'.seqNum = seqNum + 1 /\ inst'.renamed = <<>> /\ inst'.src = renameMap
      BY <3>1, Zenon
    <3>3. \A i \in DOMAIN historyBuffer : historyBuffer[i].instSeqNum < seqNum + 1
      BY <2>t, SMTT(20) DEF HistoryInv, EntriesUpTo
    <3>4. MapBefore(historyBuffer, renameMap, seqNum + 1, renameMap)
      BY <2>t, <3>3 DEF MapBefore, IsLater, IsFirst
    <3>5. Len(inst'.renamed) = 0
      BY <3>2, SMTT(20)
    <3>6. MatchAt(historyBuffer, seqNum + 1, inst'.dest, inst'.renamed,
                  Len(historyBuffer))
      BY <2>t, <3>3, <3>5, SMTT(20) DEF MatchAt
    <3>7. Len(historyBuffer) - 0 = Len(historyBuffer) /\ 0 <= Len(historyBuffer)
      BY <2>t
    <3> QED
      BY <3>1, <3>2, <3>4, <3>5, <3>6, <3>7, Zenon DEF InstStrong
  <2>3. CASE RenameDestStep
    <3> DEFINE n == Len(historyBuffer) + 1
               r == inst.renamed
               o == Len(historyBuffer) - Len(r)
    <3>1. PICK a \in ArchReg :
              /\ inst.seqNum = seqNum /\ RenameDest(seqNum, a) /\ a = inst.dest[Len(r) + 1]
              /\ inst' = [inst EXCEPT !.renamed = Append(r, RenamedReg(a))]
      BY <2>t, <2>3, DestStepEffect, Zenon
    <3>2. /\ inst # None /\ inst' # None /\ inst \in DynInst
          /\ inst'.seqNum = inst.seqNum /\ inst'.dest = inst.dest /\ inst'.src = inst.src
      BY <2>t, <2>3, DestStepInst, Zenon
    <3>3. /\ DOMAIN historyBuffer' = DOMAIN historyBuffer \cup {n}
          /\ Len(historyBuffer') = n /\ n \notin DOMAIN historyBuffer
          /\ \A i \in DOMAIN historyBuffer : historyBuffer'[i] = historyBuffer[i]
          /\ historyBuffer'[n].instSeqNum = seqNum
          /\ historyBuffer'[n].archReg = a
          /\ historyBuffer'[n].newPhysReg = RenamedReg(a)
      BY <2>t, <3>1, DestEffect, ZenonT(30)
    <3>4. r \in Seq(PhysReg) /\ Len(r) \in Nat
      BY <3>2 DEF DynInst
    <3>5. inst'.renamed = Append(r, RenamedReg(a))
      BY <3>1, <3>2, Zenon DEF DynInst
    <3>6. /\ Len(inst'.renamed) = Len(r) + 1
          /\ \A k \in 1 .. Len(r) : inst'.renamed[k] = r[k]
          /\ inst'.renamed[Len(r) + 1] = RenamedReg(a)
      <4> HIDE DEF r
      <4> QED
        BY <3>4, <3>5
    <3>7. /\ Len(r) <= Len(historyBuffer)
          /\ MatchAt(historyBuffer, seqNum, inst.dest, r, o)
          /\ MapBefore(historyBuffer, renameMap, seqNum, inst.src)
      BY <3>1, <3>2, Zenon DEF InstStrong
    <3>8. MapBefore(historyBuffer', renameMap', seqNum, inst.src)
      BY <2>t, <3>1, <3>7, MapBeforeDest
    <3>9. o \in Nat /\ o + (Len(r) + 1) = n /\ n - (Len(r) + 1) = o
          /\ Len(r) + 1 <= n
      <4>1. \A l, q \in Nat : q <= l =>
              /\ l - q \in Nat /\ (l - q) + (q + 1) = l + 1
              /\ (l + 1) - (q + 1) = l - q /\ q + 1 <= l + 1
        OBVIOUS
      <4> HIDE DEF r
      <4> QED
        BY <2>t, <3>4, <3>7, <4>1, Zenon
    <3>10. MatchAt(historyBuffer', seqNum, inst.dest, inst'.renamed, o)
      <4> HIDE DEF r, o, n
      <4>1. ASSUME NEW k \in 1 .. Len(inst'.renamed)
            PROVE  /\ o + k \in DOMAIN historyBuffer'
                   /\ historyBuffer'[o + k].instSeqNum = seqNum
                   /\ historyBuffer'[o + k].archReg = inst.dest[k]
                   /\ historyBuffer'[o + k].newPhysReg = inst'.renamed[k]
        <5>1. CASE k = Len(r) + 1
          BY <3>1, <3>3, <3>6, <3>9, <5>1, Zenon
        <5>2. CASE k \in 1 .. Len(r)
          BY <3>3, <3>6, <3>7, <5>2, ZenonT(30) DEF MatchAt
        <5> QED
          BY <3>4, <3>6, <4>1, <5>1, <5>2, SMTT(20)
      <4>2. ASSUME NEW j \in DOMAIN historyBuffer', historyBuffer'[j].instSeqNum = seqNum
            PROVE  o < j /\ j <= o + Len(inst'.renamed)
        <5>1. CASE j = n
          BY <3>4, <3>6, <3>9, <5>1, SMTT(20)
        <5>2. CASE j \in DOMAIN historyBuffer
          <6>1. o < j /\ j <= o + Len(r) /\ j \in Nat
            BY <2>t, <3>3, <3>7, <4>2, <5>2 DEF MatchAt
          <6> QED
            BY <3>4, <3>6, <3>9, <6>1, SMTT(20)
        <5> QED
          BY <3>3, <4>2, <5>1, <5>2, Zenon
      <4> QED
        BY <4>1, <4>2, Zenon DEF MatchAt
    <3> HIDE DEF r, o, n
    <3> QED
      BY <3>1, <3>2, <3>3, <3>6, <3>8, <3>9, <3>10, Zenon DEF InstStrong
  <2>4. CASE at = "rename" /\ ~RenameEnd /\ ~SendInst
    BY <2>2, <2>3, <2>4, Zenon DEF RenameTick, SquashSignal, UndoStep, UndoEnd, NoSquashSignal,
                            RemoveStep, RemoveEnd
  <2> QED
    BY <2>1, <2>4, Zenon
(* What is not squashed after a squash has begun or gone on was live.       *)
<1>LiveSquash. ASSUME Pipe, CommitStart \/ SquashFromIEW, NEW i \in DOMAIN rob,
                      ~rob'[i].squashed, squashIt' = 0 \/ rob[i].seqNum <= squashedSeqNum',
                      ~commitInfo'.squash \/ rob[i].seqNum <= commitInfo'.doneSeqNum
               PROVE  Live(rob[i]) /\ ~Pending(rob[i].seqNum)
  <2> USE <1>LiveSquash
  <2>t. /\ TypeInv /\ OrderInv /\ SquashInv /\ ControlInv /\ DoneInv /\ AgesInv /\ ReportInv
        /\ RobTypes /\ Increasing(rob) /\ DOMAIN rob = 1 .. Len(rob) /\ Len(rob) \in Nat
        /\ Len(rob) \in 0 .. Len(rob) /\ squashIt \in 0 .. Len(rob)
        /\ squashedSeqNum \in Nat /\ rob[i].seqNum \in Nat /\ youngestSeqNum \in Nat
        /\ commitInfo.doneSeqNum \in Nat
    BY FullSeq, SMTT(20) DEF Pipe, Base, TypeInv, RobTypes, OrderInv, CommitTypes, SignalType
  <2>1. CASE CommitStart /\ commitStatus = "ROBSquashing" /\ ~doneSquashing
    <3>1. DoSquash(squashIt, squashedSeqNum) /\ squashedSeqNum' = squashedSeqNum
      BY <2>1, Zenon DEF CommitStart
    <3>2. PICK low \in 0 .. squashIt : Marked(low, squashIt, squashedSeqNum)
      BY <2>t, <3>1, DoSquashMarks, Zenon
    <3>3. squashIt # 0
      BY <2>t, <2>1, Zenon DEF RobTypes
    <3>4. i > squashIt => rob[i].squashed
      BY <2>t, <3>3, Zenon DEF SquashInv
    <3>5. ~rob[i].squashed
      <4>1. CASE low < i /\ i <= squashIt
        BY <2>t, <3>2, <4>1, Zenon DEF Marked
      <4>2. CASE ~(low < i /\ i <= squashIt)
        BY <2>t, <3>2, <4>2, Zenon DEF Marked
      <4> QED
        BY <4>1, <4>2, Zenon
    <3>6. i \in 1 .. squashIt
      BY <2>t, <3>4, <3>5, SMTT(20)
    <3>7. rob[i].seqNum <= squashedSeqNum
      <4>1. squashIt' = 0 /\ rob[i].seqNum > squashedSeqNum => rob'[i].squashed
        BY <2>t, <3>2, <3>6, MarkedAll, Zenon
      <4> QED
        BY <2>t, <3>1, <4>1, SMTT(20)
    <3> QED
      BY <2>t, <3>3, <3>5, <3>7, SMTT(20) DEF Live, Pending, SquashInv
  <2>2. CASE CommitStart /\ ~(commitStatus = "ROBSquashing" /\ ~doneSquashing)
    <3>1. rob' = rob
      BY <2>2, Zenon DEF CommitStart, robvars
    <3>2. squashIt = 0
      BY <2>t, <2>2, Zenon DEF RobTypes, TypeInv, CommitTypes
    <3> QED
      BY <2>t, <3>1, <3>2, Zenon DEF Live, Pending, SquashInv
  <2>3. CASE SquashFromIEW
    <3>1. /\ commitInfo'.doneSeqNum \in Nat /\ commitInfo'.doneSeqNum <= youngestSeqNum
          /\ ROBSquash(commitInfo'.doneSeqNum) /\ commitInfo'.squash /\ ~commitInfo.squash
      BY <2>t, <2>3, SquashIEWYounger, Zenon
    <3>2. ~rob[i].squashed
      <4>1. rob # <<>>
        BY <2>t, SMTT(20)
      <4>2. PICK low \in 0 .. Len(rob) : Marked(low, Len(rob), commitInfo'.doneSeqNum)
        BY <2>t, <3>1, <4>1, ROBSquashMarks, Zenon
      <4>3. CASE low < i /\ i <= Len(rob)
        BY <2>t, <4>2, <4>3, Zenon DEF Marked
      <4>4. CASE ~(low < i /\ i <= Len(rob))
        BY <2>t, <4>2, <4>4, Zenon DEF Marked
      <4> QED
        BY <4>3, <4>4, Zenon
    <3>3. squashIt # 0 => rob[i].seqNum <= squashedSeqNum
      BY <2>t, <3>1 DEF SquashInv
    <3> QED
      BY <3>1, <3>2, <3>3, Zenon DEF Live, Pending
  <2> QED
    BY <2>1, <2>2, <2>3, ZenonT(30)
(* Commit takes the instructions that rename sent, and forgets those it     *)
(* squashes.                                                                *)
<1>RobStrongCommit. ASSUME Pipe, RobStrong, FromStrong, [RRNext]_rvars, ~RenameTick(Seq(ArchReg))
                    PROVE  RobStrong'
  <2> USE <1>RobStrongCommit
  <2>t. /\ TypeInv /\ OrderInv /\ ControlInv /\ rob \in Seq(FullInst)
        /\ fromRename \in Seq(FullInst)
        /\ DOMAIN rob = 1 .. Len(rob) /\ Len(rob) \in Nat
        /\ \A i \in DOMAIN rob : rob[i].seqNum \in Nat
    BY FullSeq, Zenon DEF Pipe, Base, TypeInv, RobTypes, FrontTypes
  <2>h. UNCHANGED <<historyBuffer, renameMap>>
    BY HistoryKept, Zenon DEF RenameTick
  <2>2. CASE RobStays
    <3>1. UNCHANGED <<rob, squashIt, squashedSeqNum, commitInfo>>
      BY <2>2, RobStaysEffect, Zenon DEF RobStays, IEWIdle, NoSquashAll, NoSquashFromIEW,
         GetInstsEnd, FaultHead, RetireEnd, rvars
    <3> QED
      BY <2>h, <3>1, Zenon DEF RobStrong, Live, Pending
  <2>3. CASE RobExecutes
    <3>1. UNCHANGED <<squashIt, squashedSeqNum, commitInfo>>
      BY <2>3, Zenon DEF RobExecutes, IEWExecute
    <3>2. /\ DOMAIN rob' = DOMAIN rob
          /\ \A i \in DOMAIN rob : /\ Same(rob'[i], rob[i])
                                   /\ rob'[i].squashed = rob[i].squashed
      BY <2>t, <2>3, RobExecutesEffect, ZenonT(30) DEF RobExecutes, Same
    <3> QED
      BY <2>h, <3>1, <3>2, <1>StrongSame, Zenon DEF RobStrong, Live, Pending, Same
  <2>4. CASE CycleEnd
    <3>1. UNCHANGED <<squashIt, squashedSeqNum, commitInfo>>
      BY <2>4, Zenon DEF CycleEnd
    <3>2. /\ DOMAIN rob' = DOMAIN rob
          /\ \A i \in DOMAIN rob : /\ Same(rob'[i], rob[i])
                                   /\ rob'[i].squashed = rob[i].squashed
      BY <2>t, <2>4, CycleEndEffect, Zenon
    <3> QED
      BY <2>h, <3>1, <3>2, <1>StrongSame, Zenon DEF RobStrong, Live, Pending, Same
  <2>5. CASE RobRetires
    <3>1. /\ UNCHANGED <<squashIt, squashedSeqNum>> /\ rob # <<>> /\ rob' = Tail(rob)
          /\ at = "retire"
      BY <2>5, Zenon DEF RobRetires, RetireSquashed, CommitHead, HeadReady
    <3>2. ~commitInfo.squash
      BY <2>t, <3>1, Zenon DEF ControlInv
    <3>3. \A i \in DOMAIN rob' : \E j \in DOMAIN rob : rob'[i] = rob[j]
      BY <2>t, <3>1, TailFull, Zenon
    <3> QED
      BY <2>h, <3>1, <3>2, <3>3, Zenon DEF RobStrong, Live, Pending
  <2>6. CASE GetInst
    <3>1. /\ UNCHANGED <<squashIt, squashedSeqNum, commitInfo>> /\ fromRename # <<>>
          /\ at = "insts"
          /\ \/ rob' = rob
             \/ ~Head(fromRename).squashed /\ rob' = Append(rob, Head(fromRename))
      BY <2>6, Zenon DEF GetInst
    <3>2. ~commitInfo.squash
      BY <2>t, <3>1, Zenon DEF ControlInv
    <3>3. CASE rob' = rob
      BY <2>h, <3>1, <3>3, Zenon DEF RobStrong, Live, Pending
    <3>4. CASE ~Head(fromRename).squashed /\ rob' = Append(rob, Head(fromRename))
      <4>1. 1 \in DOMAIN fromRename /\ fromRename[1] = Head(fromRename)
        BY <2>t, <3>1, TailFull, Zenon
      <4>2. Strong(historyBuffer, renameMap, Head(fromRename))
        BY <3>2, <3>4, <4>1, Zenon DEF FromStrong, Pending
      <4>3. /\ DOMAIN rob' = DOMAIN rob \cup {Len(rob) + 1}
            /\ rob'[Len(rob) + 1] = Head(fromRename)
            /\ \A i \in DOMAIN rob : rob'[i] = rob[i]
        BY <2>t, <3>4, AppendFull
      <4> QED
        BY <2>h, <3>1, <4>2, <4>3, Zenon DEF RobStrong, Live, Pending
    <3> QED
      BY <3>1, <3>3, <3>4, Zenon
  <2>7. CASE RobSquashes
    <3>1. CASE CommitStart \/ SquashFromIEW
      <4>1. SameInsts(rob', rob)
        BY <2>t, <3>1, RobKept, Zenon
      <4>2. ASSUME NEW i \in DOMAIN rob, Live(rob[i])', ~Pending(rob[i].seqNum)'
            PROVE  Strong(historyBuffer, renameMap, rob[i])
        <5>1. rob'[i].seqNum = rob[i].seqNum /\ rob[i].seqNum \in Nat
          BY <2>t, <4>1, Zenon DEF SameInsts, Same
        <5>2. commitInfo'.squash => commitInfo'.doneSeqNum \in Nat
          <6>1. CASE CommitStart
            BY <6>1 DEF CommitStart, NoSignal
          <6>2. CASE SquashFromIEW
            BY <6>2, SquashIEWYounger, Zenon DEF Pipe, Base
          <6> QED
            BY <3>1, <6>1, <6>2, Zenon
        <5>3. Live(rob[i]) /\ ~Pending(rob[i].seqNum)
          BY <3>1, <4>2, <5>1, <5>2, <1>LiveSquash, SMTT(20) DEF Live, Pending
        <5> QED
          BY <5>3, Zenon DEF RobStrong
      <4>3. ASSUME NEW i \in DOMAIN rob', Live(rob[i])', ~Pending(rob[i].seqNum)'
            PROVE  Strong(historyBuffer', renameMap', rob'[i])
        BY <2>h, <4>1, <4>2, <4>3, <1>StrongSame, Zenon DEF SameInsts
      <4> QED
        BY <4>3, Zenon DEF RobStrong
    <3>2. ASSUME NEW status, SquashAllStatus(status)
          PROVE  RobStrong'
      <4> DEFINE n == IF rob = <<>> THEN lastCommitedSeqNum ELSE Head(rob).seqNum - 1
      <4>1. commitInfo' = SquashSignalFor(n)
        BY <3>2, Zenon DEF SquashAllStatus
      <4>2. Above(n, rob)
        BY <2>t, SquashAllYounger, Zenon
      <4>3. SameInsts(rob', rob)
        BY <2>t, <3>2, RobKept, Zenon
      <4> HIDE DEF n
      <4>4. \A i \in DOMAIN rob' : rob'[i].seqNum > n
        BY <4>2, <4>3, Zenon DEF SameInsts, Same, Above
      <4> QED
        BY <4>1, <4>4, Zenon DEF SquashSignalFor, Pending, RobStrong
    <3> QED
      BY <2>7, <3>1, <3>2, Zenon DEF RobSquashes
  <2> QED
    BY <2>2, <2>3, <2>4, <2>5, <2>6, <2>7, RobCases, Zenon
(* What is on its way to commit is squashed with it or arrives.             *)
<1>FrontStrongCommit. ASSUME Pipe, FromStrong, ToStrong, InstStrong, [RRNext]_rvars,
                             ~RenameTick(Seq(ArchReg))
                      PROVE  FromStrong' /\ ToStrong' /\ InstStrong'
  <2> USE <1>FrontStrongCommit
  <2>t. /\ TypeInv /\ OrderInv /\ ControlInv /\ StallInv /\ fromRename \in Seq(FullInst)
        /\ AgesInv /\ ReportInv /\ DoneInv
    BY Zenon DEF Pipe, Base, TypeInv, FrontTypes
  <2>h. UNCHANGED <<historyBuffer, renameMap>>
    BY HistoryKept, Zenon DEF RenameTick
  <2>i. inst' = inst
    <3>1. CASE IEWTick \/ UNCHANGED rvars
      BY <3>1, Zenon DEF IEWTick, IEWIdle, IEWExecute, rvars, frontvars
    <3>2. CASE CommitTick \/ SquashFromTC
      BY <3>2, Zenon DEF CommitTick, SquashFromTC, SquashFromTrap, SquashFromSquashAfter,
         CommitStart, SquashAllStatus, SquashFromIEW, NoSquashAll, NoSquashFromIEW,
         GetInst, GetInstsEnd, RetireSquashed, FaultHead, RetireEnd, CycleEnd, CommitHead,
         frontvars
    <3> QED
      BY <3>1, <3>2, Zenon DEF RRNext
  <2>j. InstStrong'
    BY <2>h, <2>i, Zenon DEF InstStrong
  <2>1. CASE ~RobSquashes /\ ~RobRetires /\ ~CycleEnd /\ ~GetInst
    <3>1. UNCHANGED <<fromRename, toROB, commitInfo>>
      BY <2>1, Zenon DEF RRNext, IEWTick, IEWIdle, IEWExecute, rvars, frontvars, CommitTick,
         SquashFromTC, SquashFromTrap, SquashFromSquashAfter, RobSquashes, RobRetires,
         NoSquashAll, NoSquashFromIEW, GetInstsEnd, FaultHead, RetireEnd
    <3> QED
      BY <2>h, <2>j, <3>1, Zenon DEF FromStrong, ToStrong, Pending
  <2>2. CASE RobRetires
    <3>1. UNCHANGED <<fromRename, toROB>> /\ at = "retire"
      BY <2>2, Zenon DEF RobRetires, RetireSquashed, CommitHead, HeadReady, frontvars
    <3>2. ~commitInfo.squash
      BY <2>t, <3>1, Zenon DEF ControlInv
    <3> QED
      BY <2>h, <2>j, <3>1, <3>2, Zenon DEF FromStrong, ToStrong, Pending
  <2>3. CASE CycleEnd
    <3>1. fromRename' = toROB /\ toROB' = <<>> /\ commitInfo' = commitInfo
      BY <2>3, Zenon DEF CycleEnd
    <3> QED
      BY <2>h, <2>j, <3>1 DEF FromStrong, ToStrong, Pending
  <2>4. CASE GetInst
    <3>1. /\ UNCHANGED <<toROB, commitInfo>> /\ fromRename # <<>>
          /\ fromRename' = Tail(fromRename)
      BY <2>4, Zenon DEF GetInst, frontvars
    <3>2. \A i \in DOMAIN fromRename' : \E j \in DOMAIN fromRename :
              fromRename'[i] = fromRename[j]
      BY <2>t, <3>1, TailFull, Zenon
    <3> QED
      BY <2>h, <2>j, <3>1, <3>2, Zenon DEF FromStrong, ToStrong, Pending
  <2>5. CASE CommitStart
    <3>1. UNCHANGED <<fromRename, toROB>> /\ at = "commit" /\ ~commitInfo'.squash
      BY <2>5, SMTT(20) DEF CommitStart, frontvars, NoSignal
    <3>2. commitInfo.squash => Quiet
      BY <2>t, <3>1, Zenon DEF StallInv, ControlInv, OnItsWay
    <3>3. CASE commitInfo.squash
      BY <2>j, <3>1, <3>2, <3>3, SMTT(20) DEF FromStrong, ToStrong, Quiet
    <3>4. CASE ~commitInfo.squash
      BY <2>h, <2>j, <3>1, <3>4, Zenon DEF FromStrong, ToStrong, Pending
    <3> QED
      BY <3>3, <3>4, Zenon
  <2>6. ASSUME NEW n, Above(n, toROB), Above(n, fromRename), commitInfo'.squash,
               commitInfo'.doneSeqNum = n, UNCHANGED <<fromRename, toROB>>
        PROVE  FromStrong' /\ ToStrong'
    BY <2>6, Zenon DEF FromStrong, ToStrong, Pending, Above
  <2>7. CASE SquashFromIEW
    <3>1. UNCHANGED <<fromRename, toROB>>
      BY <2>7, Zenon DEF SquashFromIEW, frontvars
    <3>2. /\ Above(commitInfo'.doneSeqNum, toROB) /\ commitInfo'.squash
          /\ Above(commitInfo'.doneSeqNum, fromRename)
      BY <2>t, <2>7, SquashIEWYounger, Zenon
    <3> QED
      BY <2>6, <2>j, <3>1, <3>2, Zenon
  <2>8. ASSUME NEW status, SquashAllStatus(status)
        PROVE  FromStrong' /\ ToStrong'
    <3> DEFINE n == IF rob = <<>> THEN lastCommitedSeqNum ELSE Head(rob).seqNum - 1
    <3>1. commitInfo' = SquashSignalFor(n) /\ UNCHANGED <<fromRename, toROB>>
      BY <2>8, Zenon DEF SquashAllStatus, frontvars
    <3>2. Above(n, toROB) /\ Above(n, fromRename)
      BY <2>t, SquashAllYounger, Zenon
    <3> HIDE DEF n
    <3>3. commitInfo'.squash /\ commitInfo'.doneSeqNum = n
      BY <3>1, Zenon DEF SquashSignalFor
    <3> QED
      BY <2>6, <3>1, <3>2, <3>3, Zenon
  <2> QED
    BY <2>1, <2>2, <2>3, <2>4, <2>5, <2>7, <2>8, <2>j, Zenon DEF RobSquashes
<1>1. RRInit => StrongInv
  <2> SUFFICES ASSUME RRInit PROVE StrongInv
    BY Zenon
  <2>1. rob = <<>> /\ fromRename = <<>> /\ toROB = <<>> /\ inst = None
    BY Zenon DEF RRInit
  <2> QED
    BY <2>1, SMTT(20) DEF StrongInv, RobStrong, FromStrong, ToStrong, InstStrong
<1>2. Pipe /\ StrongInv /\ [RRNext]_rvars => StrongInv'
  <2> SUFFICES ASSUME Pipe, StrongInv, [RRNext]_rvars PROVE StrongInv'
    BY Zenon
  <2>1. RobStrong /\ FromStrong /\ ToStrong /\ InstStrong
    BY Zenon DEF StrongInv
  <2>2. CASE RenameTick(Seq(ArchReg))
    BY <2>1, <2>2, <1>RobStrongRename, <1>FromStrongRename, <1>ToStrongRename, <1>InstStrongRename, Zenon
       DEF StrongInv
  <2>3. CASE ~RenameTick(Seq(ArchReg))
    BY <2>1, <2>3, <1>RobStrongCommit, <1>FrontStrongCommit, Zenon DEF StrongInv
  <2> QED
    BY <2>2, <2>3, Zenon
<1> QED
  BY <1>1, <1>2, PipeInvariant, PTL DEF RRSpec
=============================================================================
