--------------------------- MODULE RenameHeldProofs ---------------------------
(* Proofs about renaming, the ROB and commit: commit's map is that before   *)
(* the oldest instruction in flight, there are enough registers, and those  *)
(* that commit's map and the instructions in the ROB refer to are not free. *)
EXTENDS RenameHistoryProofs, FiniteSetTheorems

(* The map of the commit stage is the one before the oldest instruction that*)
(* has not committed.                                                       *)
CommitMapInv ==
    MapBefore(historyBuffer, renameMap, lastCommitedSeqNum + 1, commitMap)

(* All that is known of the history and the maps.                           *)
Maps == Pipe /\ CoveredInv /\ StrongInv /\ CommitMapInv

(* It is an invariant.                                                      *)
LEMMA MapsInvariant == RRSpec => []Maps
(* When an instruction whose entries the history knows commits, the map     *)
(* before it becomes the map after it (Commit::commitHead).                 *)
<1>MapAfter. ASSUME RNInv, Ordered(historyBuffer), NEW x \in FullInst, Match(historyBuffer, x),
                    NEW old, MapBefore(historyBuffer, renameMap, x.seqNum, old),
                    NEW new, MovesOver(x, old, new)
             PROVE  MapBefore(historyBuffer, renameMap, x.seqNum + 1, new)
  <2> USE <1>MapAfter
  <2> DEFINE h == historyBuffer
             s == x.seqNum
  <2>t. /\ DOMAIN h = 1 .. Len(h) /\ Len(h) \in Nat /\ s \in Nat
        /\ \A i \in DOMAIN h : h[i].instSeqNum \in Nat /\ h[i].archReg \in ArchReg
        /\ x.dest \in Seq(ArchReg) /\ DOMAIN x.dest = 1 .. Len(x.dest)
        /\ Len(x.dest) \in Nat /\ Len(x.renamed) = Len(x.dest)
    BY EntryTypes, SMTT(20) DEF FullInst, DynInst
  <2>1. PICK o \in Nat : MatchAt(h, s, x.dest, x.renamed, o)
    BY Zenon DEF Match
  <2> HIDE DEF h, s
  <2> SUFFICES ASSUME NEW a \in ArchReg
               PROVE  /\ (\A i \in DOMAIN h : ~IsLater(h, i, s + 1, a)) => new[a] = renameMap[a]
                      /\ \A i \in DOMAIN h : IsFirst(h, i, s + 1, a)
                                                  => new[a] = h[i].prevPhysReg
    BY Zenon DEF MapBefore, h, s
  <2>2. \A i \in DOMAIN h : h[i].instSeqNum = s =>
              i - o \in 1 .. Len(x.dest) /\ h[i].archReg = x.dest[i - o]
    <3> SUFFICES ASSUME NEW i \in DOMAIN h, h[i].instSeqNum = s
                 PROVE  i - o \in 1 .. Len(x.dest) /\ h[i].archReg = x.dest[i - o]
      BY Zenon
    <3>1. o < i /\ i <= o + Len(x.dest) /\ i \in Nat
      BY <2>t, <2>1, SMTT(20) DEF MatchAt
    <3>2. i - o \in 1 .. Len(x.dest) /\ o + (i - o) = i
      BY <2>t, <3>1, SMTT(20)
    <3>3. h[o + (i - o)].archReg = x.dest[i - o]
      BY <2>t, <2>1, <3>2, ZenonT(30) DEF MatchAt
    <3> QED
      BY <3>2, <3>3, ZenonT(30)
  <2>3. CASE ~ \E k \in DOMAIN x.dest : x.dest[k] = a
    <3>1. new[a] = old[a]
      BY <2>3, ZenonT(30) DEF MovesOver, DestRegs, Range
    <3>2. \A i \in DOMAIN h : ~(h[i].archReg = a /\ h[i].instSeqNum = s)
      BY <2>t, <2>2, <2>3, Zenon
    <3>3. \A i \in DOMAIN h : IsLater(h, i, s + 1, a) <=> IsLater(h, i, s, a)
      BY <2>t, <3>2, SMTT(20) DEF IsLater
    <3>4. \A i \in DOMAIN h : IsFirst(h, i, s + 1, a) => IsFirst(h, i, s, a)
      BY <3>3, Zenon DEF IsFirst
    <3> QED
      BY <3>1, <3>3, <3>4, ZenonT(30) DEF MapBefore, h, s
  <2>4. CASE \E k \in DOMAIN x.dest : x.dest[k] = a
    <3>1. PICK k \in 1 .. Len(x.dest) :
              /\ x.dest[k] = a /\ new[a] = x.renamed[k]
              /\ \A j \in 1 .. Len(x.dest) : x.dest[j] = a => j <= k
      BY <2>4, SMTT(20) DEF MovesOver, DestRegs, Range
    <3> DEFINE e == o + k
    <3>2. /\ e \in DOMAIN h /\ h[e].instSeqNum = s /\ h[e].archReg = a
          /\ h[e].newPhysReg = new[a]
      BY <2>t, <2>1, <2>4, <3>1, ZenonT(30) DEF MatchAt
    <3>3. \A i \in DOMAIN h : h[i].archReg = a => (IsLater(h, i, s + 1, a) <=> i > e)
      <4> SUFFICES ASSUME NEW i \in DOMAIN h, h[i].archReg = a
                   PROVE  IsLater(h, i, s + 1, a) <=> i > e
        BY Zenon
      <4>1. i \in Nat /\ e \in Nat /\ h[i].instSeqNum \in Nat
        BY <2>t, <3>2, SMTT(20)
      <4>2. CASE i > e
        <5>1. h[e].instSeqNum <= h[i].instSeqNum
          BY <3>2, <4>1, <4>2, ZenonT(30) DEF Ordered, h
        <5>2. h[i].instSeqNum # s
          <6> SUFFICES ASSUME h[i].instSeqNum = s PROVE FALSE
            BY Zenon
          <6>1. i - o \in 1 .. Len(x.dest) /\ x.dest[i - o] = a
            BY <2>2, Zenon
          <6>2. i - o <= k
            BY <3>1, <6>1, Zenon
          <6> QED
            BY <2>t, <3>1, <4>1, <4>2, <6>2, SMTT(20)
        <5>3. h[i].instSeqNum >= s + 1
          BY <2>t, <3>2, <4>1, <5>1, <5>2, SMTT(20)
        <5> QED
          BY <4>2, <5>3, Zenon DEF IsLater
      <4>3. CASE i < e \/ i = e
        <5>1. h[i].instSeqNum <= h[e].instSeqNum
          BY <2>t, <3>2, <4>1, <4>3, SMTT(20) DEF Ordered, h
        <5>2. ~(h[i].instSeqNum >= s + 1)
          BY <2>t, <3>2, <4>1, <5>1, SMTT(20)
        <5> QED
          BY <4>1, <4>3, <5>2, SMTT(20) DEF IsLater
      <4> HIDE DEF e
      <4> QED
        BY <4>1, <4>2, <4>3, SMTT(20)
    <3> HIDE DEF e
    <3>4. ASSUME \A i \in DOMAIN h : ~IsLater(h, i, s + 1, a)
          PROVE  new[a] = renameMap[a]
      <4>1. IsNewest(e)
        BY <3>2, <3>3, <3>4, ZenonT(30) DEF IsNewest, h
      <4> QED
        BY <3>2, <4>1, ZenonT(30) DEF RNInv, HistoryChain, h
    <3>5. ASSUME NEW i \in DOMAIN h, IsFirst(h, i, s + 1, a)
          PROVE  new[a] = h[i].prevPhysReg
      <4>1. h[i].archReg = a /\ i > e
        BY <3>3, <3>5, Zenon DEF IsFirst, IsLater
      <4>2. \A j \in DOMAIN h : e < j /\ j < i => h[j].archReg # a
        <5> SUFFICES ASSUME NEW j \in DOMAIN h, e < j, j < i, h[j].archReg = a PROVE FALSE
          BY Zenon
        <5>1. j \in Nat /\ e \in Nat
          BY <2>t, <3>2, SMTT(20)
        <5>2. IsLater(h, j, s + 1, a)
          BY <3>3, <5>1, Zenon
        <5> QED
          BY <3>5, <5>2, Zenon DEF IsFirst
      <4>3. NextEntry(e, i)
        BY <3>2, <4>1, <4>2, ZenonT(30) DEF NextEntry, h
      <4> QED
        BY <3>2, <4>3, ZenonT(30) DEF RNInv, HistoryChain, h
    <3> QED
      BY <3>4, <3>5, ZenonT(30)
  <2> QED
    BY <2>3, <2>4, ZenonT(30)
(* The head of the ROB is that instruction: no other entry is between.      *)
<1>HeadNext. ASSUME Pipe, CoveredInv, HeadReady, ~Head(rob).squashed,
                    NEW i \in DOMAIN historyBuffer,
                    historyBuffer[i].instSeqNum > lastCommitedSeqNum
             PROVE  historyBuffer[i].instSeqNum >= Head(rob).seqNum
  <2> USE <1>HeadNext
  <2> DEFINE s == historyBuffer[i].instSeqNum
  <2>t. /\ TypeInv /\ OrderInv /\ ControlInv /\ FrontMarks /\ RobTypes
        /\ lastCommitedSeqNum \in Nat /\ s \in Nat
        /\ at = "retire" /\ rob # <<>> /\ commitStatus = "Running"
        /\ toROB \in Seq(FullInst) /\ rob \in Seq(FullInst)
    BY EntryTypes, Zenon DEF Pipe, Base, TypeInv, CommitTypes, FrontTypes, RobTypes, HeadReady
  <2>1. /\ 1 \in DOMAIN rob /\ rob[1] = Head(rob) /\ rob[1].seqNum \in Nat
        /\ DOMAIN rob = 1 .. Len(rob) /\ Len(rob) \in Nat
    BY <2>t, HeadOfROB, Zenon
  <2>2. Covered(s)
    BY Zenon DEF CoveredInv
  <2>3. InROB(s) => s >= rob[1].seqNum
    <3> SUFFICES ASSUME NEW j \in DOMAIN rob, rob[j].seqNum = s PROVE s >= rob[1].seqNum
      BY Zenon DEF InROB
    <3>1. j = 1 \/ 1 < j
      BY <2>1, SMTT(20)
    <3>2. 1 < j => rob[1].seqNum < rob[j].seqNum
      BY <2>t, <2>1, ZenonT(30) DEF OrderInv, Increasing
    <3> QED
      BY <2>t, <2>1, <3>1, <3>2, SMTT(20)
  <2>4. InToROB(s) => s >= rob[1].seqNum
    <3> SUFFICES ASSUME NEW j \in DOMAIN toROB, toROB[j].seqNum = s PROVE s >= rob[1].seqNum
      BY ZenonT(30) DEF InToROB
    <3>1. rob[1].seqNum < toROB[j].seqNum
      BY <2>t, <2>1, ZenonT(30) DEF OrderInv, Below
    <3> QED
      BY <2>t, <2>1, <3>1, SMTT(20)
  <2>5. ~InFromRename(s) /\ ~InRename(s) /\ ~Pending(s) /\ ~Trapped(s)
    BY <2>t, SMTT(20) DEF ControlInv, InFromRename, InRename, Pending, Trapped
  <2>6. ~(s <= lastCommitedSeqNum)
    BY <2>t, SMTT(20)
  <2> HIDE DEF s
  <2>7. s >= Head(rob).seqNum
    BY <2>1, <2>2, <2>3, <2>4, <2>5, <2>6, ZenonT(30) DEF Covered
  <2> QED
    BY <2>7, Zenon DEF s
(* Commit changes the map together with the last instruction committed.     *)
<1>CommitMapKept. ASSUME [RRNext]_rvars,
                         ~ \E squashAfter \in BOOLEAN : CommitHead(squashAfter)
                  PROVE  UNCHANGED <<commitMap, lastCommitedSeqNum>>
  <2> USE <1>CommitMapKept
  <2>1. CASE RenameTick(Seq(ArchReg)) \/ IEWTick \/ UNCHANGED rvars
    BY <2>1, Zenon DEF RenameTick, SquashSignal, UndoStep, UndoEnd, NoSquashSignal,
       RenameInst, RenameDestStep, SendInst, RenameEnd, RemoveStep, RemoveEnd,
       IEWTick, IEWIdle, IEWExecute, rvars, commitvars
  <2>2. CASE CommitTick \/ SquashFromTC
    BY <2>2, Zenon DEF CommitTick, SquashFromTC, SquashFromTrap, SquashFromSquashAfter,
       CommitStart, SquashAllStatus, SquashFromIEW, NoSquashAll, NoSquashFromIEW,
       GetInst, GetInstsEnd, RetireSquashed, FaultHead, RetireEnd, CycleEnd,
       commitvars
  <2> QED
    BY <2>1, <2>2, Zenon DEF RRNext
(* When the head commits, the map of the commit stage moves over it,        *)
<1>CommitMapHead. ASSUME Pipe, CoveredInv, RobStrong, CommitMapInv, NEW squashAfter,
                         CommitHead(squashAfter)
                  PROVE  CommitMapInv'
  <2> USE <1>CommitMapHead
  <2> DEFINE x == Head(rob)
             h == historyBuffer
             l == lastCommitedSeqNum
  <2>t. /\ RNInv /\ TypeInv /\ OrderInv /\ ControlInv /\ RobTypes /\ Ordered(h)
        /\ l \in Nat /\ HeadReady /\ ~x.squashed /\ at = "retire"
        /\ commitStatus = "Running" /\ rob # <<>>
        /\ \A i \in DOMAIN h : h[i].instSeqNum \in Nat
    BY EntryTypes, Zenon DEF Pipe, Base, TypeInv, CommitTypes, CommitHead, HeadReady, HistoryInv
  <2>1. 1 \in DOMAIN rob /\ rob[1] = x /\ x \in FullInst /\ x.seqNum \in Nat
    BY <2>t, HeadOfROB, Zenon
  <2>2. l < x.seqNum
    BY <2>t, <2>1, Zenon DEF OrderInv, Above
  <2>3. Strong(h, renameMap, x)
    <3>1. ~commitInfo.squash /\ squashIt = 0
      BY <2>t, Zenon DEF ControlInv, TypeInv, CommitTypes
    <3> QED
      BY <2>t, <2>1, <3>1, ZenonT(30) DEF RobStrong, Live, Pending
  <2>4. MapBefore(h, renameMap, x.seqNum, commitMap)
    <3>1. \A i \in DOMAIN h : h[i].instSeqNum >= l + 1 <=> h[i].instSeqNum >= x.seqNum
      <4> SUFFICES ASSUME NEW i \in DOMAIN h
                   PROVE  h[i].instSeqNum >= l + 1 <=> h[i].instSeqNum >= x.seqNum
        BY Zenon
      <4>1. h[i].instSeqNum \in Nat
        BY <2>t, Zenon
      <4>2. h[i].instSeqNum > l => h[i].instSeqNum >= x.seqNum
        BY <2>t, <1>HeadNext, Zenon
      <4> HIDE DEF h, x, l
      <4> QED
        BY <2>t, <2>1, <2>2, <4>1, <4>2, SMTT(20)
    <3> HIDE DEF x
    <3> QED
      BY <3>1, Zenon DEF CommitMapInv, MapBefore, IsFirst, IsLater
  <2>5. lastCommitedSeqNum' = x.seqNum /\ UNCHANGED <<historyBuffer, renameMap>>
    BY Zenon DEF CommitHead, rnvars
  <2>6. MovesOver(x, commitMap, commitMap')
    BY <2>t, <2>1, CommitMoves, Zenon DEF TypeInv, CommitTypes
  <2>7. Match(h, x)
    BY <2>3, Zenon DEF Strong
  <2> HIDE DEF x
  <2>8. MapBefore(h, renameMap, x.seqNum + 1, commitMap')
    <3>1. RNInv /\ Ordered(h)
      BY <2>t, Zenon
    <3> QED
      BY <3>1, <2>1, <2>4, <2>6, <2>7, <1>MapAfter, ZenonT(30)
  <2> QED
    BY <2>5, <2>8, Zenon DEF CommitMapInv
(* and no other step of rename, IEW or commit changes the map before the    *)
(* oldest instruction that has not committed.                               *)
<1>CommitMapStep. ASSUME Pipe, CoveredInv, StrongInv, CommitMapInv, [RRNext]_rvars
                  PROVE  CommitMapInv'
  <2> USE <1>CommitMapStep
  <2>t. /\ RNInv /\ TypeInv /\ OrderInv /\ ControlInv /\ DoneInv
        /\ lastCommitedSeqNum \in Nat /\ lastCommitedSeqNum + 1 \in Nat
        /\ commitInfo.doneSeqNum \in Nat
        /\ Len(historyBuffer) \in Nat /\ DOMAIN historyBuffer = 1 .. Len(historyBuffer)
        /\ \A i \in DOMAIN historyBuffer : historyBuffer[i].instSeqNum \in Nat
    BY EntryTypes DEF Pipe, Base, TypeInv, CommitTypes, SignalType
  <2>0. CASE \E squashAfter \in BOOLEAN : CommitHead(squashAfter)
    BY <2>0, <1>CommitMapHead, Zenon DEF StrongInv
  <2>k. CASE ~ \E squashAfter \in BOOLEAN : CommitHead(squashAfter)
    <3>k. UNCHANGED <<commitMap, lastCommitedSeqNum>>
      BY <2>k, <1>CommitMapKept, Zenon
    <3>1. CASE RenameDestStep
      <4>1. PICK a \in ArchReg : inst # None /\ seqNum \in Nat /\ RenameDest(seqNum, a)
        BY <2>t, <3>1, DestStepEffect, Zenon
      <4>2. lastCommitedSeqNum + 1 <= seqNum
        BY <2>t, <4>1, SMTT(20) DEF OrderInv
      <4> QED
        BY <2>t, <3>k, <4>1, <4>2, MapBeforeDest, Zenon DEF CommitMapInv
    <3>2. CASE UndoStep
      <4>1. UndoNewest /\ Newest.instSeqNum > commitInfo.doneSeqNum /\ at = "undo"
        BY <3>2, Zenon DEF UndoStep, ToUndo
      <4>2. Newest.instSeqNum \in Nat
        BY <2>t, <4>1, UndoEffect, Zenon
      <4>3. lastCommitedSeqNum + 1 <= Newest.instSeqNum
        BY <2>t, <4>1, <4>2, SMTT(20) DEF ControlInv, DoneInv, SquashSparesCommitted
      <4> QED
        BY <2>t, <3>k, <4>1, <4>3, MapBeforeUndo, Zenon DEF CommitMapInv
    <3>3. CASE RemoveStep
      <4>1. FreeOldest /\ Oldest.instSeqNum <= commitInfo.doneSeqNum /\ at = "remove"
        BY <3>3, Zenon DEF RemoveStep, ToRemove
      <4>2. Oldest.instSeqNum \in Nat
        BY <2>t, <4>1, FreeEffect, Zenon
      <4>3. Oldest.instSeqNum < lastCommitedSeqNum + 1
        BY <2>t, <4>1, <4>2 DEF ControlInv, DoneInv
      <4> QED
        BY <2>t, <3>k, <4>1, <4>3, MapBeforeFree, Zenon DEF CommitMapInv
    <3>4. CASE ~RenameDestStep /\ ~UndoStep /\ ~RemoveStep
      BY <3>k, <3>4, HistoryKept, Zenon DEF CommitMapInv
    <3> QED
      BY <3>1, <3>2, <3>3, <3>4, Zenon
  <2> QED
    BY <2>0, <2>k, Zenon
<1>1. RRInit => CommitMapInv
  BY DEF RRInit, RenameInit, CommitMapInv, MapBefore, IsFirst
<1>2. Pipe /\ CoveredInv /\ StrongInv /\ CommitMapInv /\ [RRNext]_rvars => CommitMapInv'
  BY <1>CommitMapStep, Zenon
<1> QED
  BY <1>1, <1>2, PipeInvariant, CoveredInvariant, StrongInvariant, PTL DEF RRSpec, Maps

-----------------------------------------------------------------------------
(* A set of natural numbers has a least element.                            *)
LEMMA Least ==
    ASSUME NEW S \in SUBSET Nat, S # {}
    PROVE  \E m \in S : \A n \in S : m <= n
<1> DEFINE R == {ss \in Nat \X Nat : ss[1] < ss[2]}
<1>1. IsWellFoundedOn(R, Nat)
  BY NatLessThanWellFounded, Zenon DEF OpToRel
<1> HIDE DEF R
<1>2. PICK x \in S : \A y \in S : ~(<<y, x>> \in R)
  BY <1>1, WFMin, Zenon
<1>3. \A y \in S : ~(y < x)
  BY <1>2, Zenon DEF R
<1> QED
  BY <1>3

-----------------------------------------------------------------------------
(* The destinations that still need a register.                             *)
Needed(x) == {i \in DOMAIN x.dest : i > Len(x.renamed) /\ x.dest[i] \notin MiscReg}

(* For any number of registers, getReg() never finds the free list empty:   *)
(* while an instruction is renamed, there is a free register for each of    *)
(* its remaining destinations (rename.cc renameDestRegs, canRename).        *)
THEOREM RegsLeftTheorem == RRSpec => []RegsLeft
(* There are finitely many.                                                 *)
<1>NeededFinite. ASSUME NEW x \in DynInst
                 PROVE  /\ DOMAIN x.dest = 1 .. Len(x.dest) /\ Len(x.dest) \in Nat
                        /\ IsFiniteSet(Needed(x)) /\ Cardinality(Needed(x)) \in Nat
  <2> USE <1>NeededFinite
  <2>1. x.dest \in Seq(ArchReg)
    BY Zenon DEF DynInst
  <2>2. DOMAIN x.dest = 1 .. Len(x.dest) /\ Len(x.dest) \in Nat
    BY <2>1
  <2>3. IsFiniteSet(1 .. Len(x.dest))
    BY <2>2, FS_Interval
  <2>4. IsFiniteSet(Needed(x))
    BY <2>2, <2>3, FS_Subset, Zenon DEF Needed
  <2> QED
    BY <2>2, <2>4, FS_CardinalityType, Zenon
(* A step that does not shorten the free list keeps enough registers.       *)
<1>RegsKept. ASSUME TypeInv, RegsLeft, inst' = inst,
                    Len(freeList) \in Nat, Len(freeList') \in Nat, Len(freeList) <= Len(freeList')
             PROVE  RegsLeft'
  <2> USE <1>RegsKept
  <2> SUFFICES ASSUME inst # None
               PROVE  Cardinality(Needed(inst)) <= Len(freeList')
    BY Zenon DEF RegsLeft, Needed
  <2>1. Cardinality(Needed(inst)) \in Nat
    BY <1>NeededFinite, Zenon DEF TypeInv, FrontTypes
  <2>2. Cardinality(Needed(inst)) <= Len(freeList)
    BY Zenon DEF RegsLeft, Needed
  <2> QED
    BY <2>1, <2>2
(* A destination takes the register that it needs.                          *)
<1>RegsDest. ASSUME TypeInv, RNInv, RegsLeft, RenameDestStep
             PROVE  RegsLeft'
  <2> USE <1>RegsDest
  <2> DEFINE k == Len(inst.renamed) + 1
             a == inst.dest[k]
  <2>1. /\ inst # None /\ inst \in DynInst /\ Len(inst.renamed) < Len(inst.dest)
        /\ RenameDest(inst.seqNum, a)
        /\ inst' = [inst EXCEPT !.renamed = Append(inst.renamed, RenamedReg(a))]
    BY Zenon DEF RenameDestStep, TypeInv, FrontTypes
  <2>2. inst.renamed \in Seq(PhysReg) /\ inst.dest \in Seq(ArchReg)
    BY <2>1, Zenon DEF DynInst
  <2>3. a \in ArchReg /\ k \in 1 .. Len(inst.dest)
    BY <2>1, <2>2
  <2>4. RenamedReg(a) \in PhysReg
    BY <2>1, <2>3 DEF RenameDest, RenamedReg, RNInv, RNTypeOK
  <2>5. inst'.dest = inst.dest /\ Len(inst'.renamed) = k
    <3>1. inst'.dest = inst.dest /\ inst'.renamed = Append(inst.renamed, RenamedReg(a))
      BY <2>1, Zenon DEF DynInst
    <3> QED
      BY <2>2, <2>4, <3>1
  <2>6. /\ DOMAIN inst.dest = 1 .. Len(inst.dest)
        /\ IsFiniteSet(Needed(inst)) /\ Cardinality(Needed(inst)) \in Nat
    BY <2>1, <1>NeededFinite, Zenon
  <2>7. Needed(inst') = Needed(inst) \ {k}
    BY <2>2, <2>5, <2>6 DEF Needed
  <2>8. Cardinality(Needed(inst)) <= Len(freeList)
    BY <2>1, Zenon DEF RegsLeft, Needed
  <2>9. freeList \in Seq(PhysReg)
    BY Zenon DEF RNInv, RNTypeOK
  <2>c. Cardinality(Needed(inst')) = IF k \in Needed(inst)
                                     THEN Cardinality(Needed(inst)) - 1
                                     ELSE Cardinality(Needed(inst))
    <3> HIDE DEF k
    <3>1. Cardinality(Needed(inst) \ {k}) = IF k \in Needed(inst)
                                            THEN Cardinality(Needed(inst)) - 1
                                            ELSE Cardinality(Needed(inst))
      BY <2>6, FS_RemoveElement, Zenon
    <3> QED
      BY <2>7, <3>1, Zenon
  <2>10. Cardinality(Needed(inst')) <= Len(freeList')
    <3>1. CASE a \in MiscReg
      <4>1. k \notin Needed(inst) /\ freeList' = freeList
        BY <2>1, <3>1, Zenon DEF Needed, RenameDest
      <4> QED
        BY <2>8, <2>c, <4>1, Zenon
    <3>2. CASE a \notin MiscReg
      <4>1. k \in Needed(inst)
        BY <2>2, <2>3, <2>6, <3>2 DEF Needed
      <4>2. freeList # <<>> /\ freeList' = Tail(freeList)
        BY <2>1, <3>2, Zenon DEF RenameDest
      <4>3. Len(freeList') = Len(freeList) - 1 /\ Len(freeList) \in Nat
        BY <2>9, <4>2
      <4>4. Cardinality(Needed(inst')) = Cardinality(Needed(inst)) - 1
        BY <2>c, <4>1, Zenon
      <4> QED
        BY <2>6, <2>8, <4>3, <4>4
    <3> QED
      BY <3>1, <3>2, Zenon
  <2> QED
    BY <2>10, Zenon DEF RegsLeft, Needed
(* Each step keeps enough registers for the instruction that is renamed.    *)
<1>RegsStep. ASSUME RNInv, RNInv', TypeInv, RegsLeft, [RRNext]_rvars
             PROVE  RegsLeft'
  <2> USE <1>RegsStep
  <2>t. /\ freeList \in Seq(PhysReg) /\ Len(freeList) \in Nat
        /\ freeList' \in Seq(PhysReg) /\ Len(freeList') \in Nat
        /\ freeingInProgress \in Seq(PhysReg) /\ historyBuffer \in Seq(RenameHistory)
    BY DEF RNInv, RNTypeOK
  <2>1. CASE RenameDestStep
    BY <2>1, <1>RegsDest, Zenon
  <2>2. ASSUME NEW dest \in Seq(ArchReg), RenameInst(dest)
        PROVE  RegsLeft'
    <3>1. /\ inst'.dest = dest /\ inst'.renamed = <<>> /\ freeList' = freeList
          /\ CanRename(dest)
      BY <2>2, Zenon DEF RenameInst, rnvars
    <3>2. Needed(inst') = {i \in DOMAIN dest : dest[i] \notin MiscReg}
      BY <3>1 DEF Needed
    <3> QED
      BY <3>1, <3>2, Zenon DEF RegsLeft, Needed, CanRename
  <2>3. CASE SendInst
    BY <2>3, Zenon DEF SendInst, RegsLeft
  <2>4. CASE NoSquashSignal
    <3>1. inst' = inst /\ ReleaseFreeing(commitInfo.robSquashing)
      BY <2>4, Zenon DEF NoSquashSignal, frontvars
    <3>2. freeList' \in {freeList, freeList \o freeingInProgress}
      BY <3>1, Zenon DEF ReleaseFreeing
    <3>3. Len(freeList) <= Len(freeList')
      BY <2>t, <3>2
    <3> QED
      BY <2>t, <3>1, <3>3, <1>RegsKept, Zenon
  <2>5. CASE RemoveStep
    <3>1. inst' = inst /\ FreeOldest
      BY <2>5, Zenon DEF RemoveStep, frontvars
    <3>2. freeList' \in {freeList, Append(freeList, Oldest.prevPhysReg)}
      BY <3>1, Zenon DEF FreeOldest
    <3>3. Oldest.prevPhysReg \in PhysReg
      <4>1. historyBuffer # <<>>
        BY <3>1, Zenon DEF FreeOldest
      <4>2. Oldest \in RenameHistory
        BY <2>t, <4>1 DEF Oldest
      <4> QED
        BY <4>2, Zenon DEF RenameHistory
    <3>4. Len(freeList) <= Len(freeList')
      BY <2>t, <3>2, <3>3
    <3> QED
      BY <2>t, <3>1, <3>4, <1>RegsKept, Zenon
  <2>6. CASE UndoStep
    BY <2>6, <2>t, <1>RegsKept DEF UndoStep, UndoNewest, frontvars
  <2>7. CASE \/ SquashSignal \/ UndoEnd \/ RenameEnd \/ RemoveEnd \/ IEWTick
             \/ CommitTick \/ SquashFromTC \/ UNCHANGED rvars
    <3>1. UNCHANGED <<rnvars, inst>>
      BY <2>7, Zenon DEF SquashSignal, UndoEnd, RenameEnd, RemoveEnd, IEWTick, IEWIdle,
                  IEWExecute, CommitTick, SquashFromTC, CommitStart,
                  SquashFromTrap, SquashFromSquashAfter, SquashAllStatus,
                  NoSquashAll, SquashFromIEW, NoSquashFromIEW, GetInst,
                  GetInstsEnd, RetireSquashed, FaultHead, RetireEnd, CycleEnd,
                  CommitHead, frontvars, rvars
    <3> QED
      BY <2>t, <3>1, <1>RegsKept DEF rnvars
  <2> QED
    BY <2>1, <2>2, <2>3, <2>4, <2>5, <2>6, <2>7, ZenonT(30) DEF RRNext, RenameTick
<1>1. RRInit => RegsLeft
  BY Zenon DEF RRInit, RegsLeft
<1>2. RNInv /\ RNInv' /\ TypeInv /\ RegsLeft /\ [RRNext]_rvars => RegsLeft'
  BY <1>RegsStep, Zenon
<1> QED
  BY <1>1, <1>2, RNInvariant, TypesInvariant, PTL DEF RRSpec

-----------------------------------------------------------------------------
(* The map of the commit stage is what rename would have after undoing every*)
(* uncommitted instruction, for every register file and every width, through*)
(* every delay between the stages (Rename::doSquash, removeFromHistory,     *)
(* Commit::commitHead). So a trap restores the architectural registers.     *)
THEOREM CommitMapInHistoryTheorem == RRSpec => []CommitMapInHistory
<1>1. ASSUME Maps PROVE CommitMapInHistory
  <2> DEFINE h == historyBuffer
             l == lastCommitedSeqNum
             S(a) == {i \in DOMAIN h : h[i].archReg = a /\ h[i].instSeqNum > l}
  <2>t. /\ DOMAIN h = 1 .. Len(h) /\ Len(h) \in Nat /\ l \in Nat
        /\ \A i \in DOMAIN h : h[i].instSeqNum \in Nat
    BY <1>1, EntryTypes, Zenon DEF Maps, Pipe, Base, TypeInv, CommitTypes
  <2>1. \A a \in ArchReg, i \in DOMAIN h : i \in S(a) <=> IsLater(h, i, l + 1, a)
    BY <2>t DEF IsLater
  <2>2. ASSUME NEW a \in ArchReg, S(a) = {} PROVE commitMap[a] = renameMap[a]
    BY <1>1, <2>1, <2>2, Zenon DEF Maps, CommitMapInv, MapBefore
  <2>3. ASSUME NEW a \in ArchReg, S(a) # {}
        PROVE  \E i \in S(a) : (\A j \in S(a) : i <= j) /\ h[i].prevPhysReg = commitMap[a]
    <3>1. S(a) \in SUBSET Nat
      BY <2>t
    <3>2. PICK i \in S(a) : \A j \in S(a) : i <= j
      <4> HIDE DEF S
      <4> QED
        BY <2>3, <3>1, Least, Zenon
    <3>3. \A j \in DOMAIN h : j < i => ~IsLater(h, j, l + 1, a)
      <4> SUFFICES ASSUME NEW j \in DOMAIN h, j < i, j \in S(a) PROVE FALSE
        BY <2>1, Zenon
      <4>1. i <= j /\ i \in Nat /\ j \in Nat
        BY <2>t, <3>2
      <4> QED
        BY <4>1
    <3>4. IsFirst(h, i, l + 1, a) /\ i \in DOMAIN h
      BY <2>1, <3>2, <3>3, Zenon DEF IsFirst
    <3>5. commitMap[a] = h[i].prevPhysReg
      BY <1>1, <3>4, Zenon DEF Maps, CommitMapInv, MapBefore
    <3> QED
      BY <3>2, <3>5, Zenon
  <2> QED
    BY <2>2, <2>3, Zenon DEF CommitMapInHistory, Uncommitted
<1> QED
  BY <1>1, MapsInvariant, PTL

(* The register an entry replaced is held: by the entry, or, when the       *)
(* register is not renamed, by the map.                                     *)
LEMMA PrevHeld ==
    ASSUME RNInv, HistoryInv, NEW i \in DOMAIN historyBuffer
    PROVE  ~Free(historyBuffer[i].prevPhysReg) /\ ~Freeing(historyBuffer[i].prevPhysReg)
<1> DEFINE p == historyBuffer[i].prevPhysReg
<1>1. p \in PhysReg /\ historyBuffer[i].archReg \in ArchReg
  BY EntryTypes, Zenon
<1>2. CASE Replaces(historyBuffer[i])
  <2>1. Replaced(p)
    BY <1>2, Zenon DEF Replaced
  <2> QED
    BY <1>1, <2>1, Zenon DEF RNInv, Ownership, OnePlace
<1>3. CASE ~Replaces(historyBuffer[i])
  <2>1. historyBuffer[i].archReg \in MiscReg
    BY <1>3, Zenon DEF RNInv, HistoryChain
  <2>2. Mapped(p)
    BY <1>1, <2>1, Zenon DEF HistoryInv, MiscConst, Mapped
  <2> QED
    BY <1>1, <2>2, Zenon DEF RNInv, Ownership, OnePlace
<1> QED
  BY <1>2, <1>3, Zenon

(* A register that holds architectural state is never free or about to be,  *)
(* although the free list learns of a commit a cycle late.                  *)
THEOREM CommittedHeldTheorem == RRSpec => []CommittedHeld
<1>1. ASSUME Maps, CommitMapInHistory PROVE CommittedHeld
  <2> SUFFICES ASSUME NEW a \in ArchReg
               PROVE  ~Free(commitMap[a]) /\ ~Freeing(commitMap[a])
    BY Zenon DEF CommittedHeld, Range, Free, Freeing
  <2>t. RNInv /\ HistoryInv /\ renameMap \in [ArchReg -> PhysReg]
    BY <1>1, EntryTypes, Zenon DEF Maps, Pipe, Base
  <2>1. CASE commitMap[a] = renameMap[a]
    <3>1. Mapped(renameMap[a]) /\ renameMap[a] \in PhysReg
      BY <2>t, Zenon DEF Mapped
    <3> QED
      BY <2>t, <2>1, <3>1, Zenon DEF RNInv, Ownership, OnePlace
  <2>2. CASE \E i \in DOMAIN historyBuffer : historyBuffer[i].prevPhysReg = commitMap[a]
    BY <2>t, <2>2, PrevHeld, Zenon
  <2>3. \/ commitMap[a] = renameMap[a]
        \/ \E i \in DOMAIN historyBuffer : historyBuffer[i].prevPhysReg = commitMap[a]
    BY <1>1, Zenon DEF CommitMapInHistory
  <2> QED
    BY <2>1, <2>2, <2>3, Zenon
<1> QED
  BY <1>1, MapsInvariant, CommitMapInHistoryTheorem, PTL

-----------------------------------------------------------------------------
(* Where the registers of an instruction are that the ROB has not marked    *)
(* squashed, even after rename has undone it: one that it writes in its     *)
(* entry, and one that it reads in the map or in the entry of the           *)
(* instruction that replaced it, unless they wait to be freed.              *)
HeldNew(h, m, f, p, s) ==
    \/ \E j \in DOMAIN h : h[j].instSeqNum = s /\ h[j].newPhysReg = p
    \/ \E j \in DOMAIN f : f[j] = p
    \/ \E b \in MiscReg : m[b] = p
HeldOld(h, m, f, a, p, s) ==
    \/ m[a] = p
    \/ \E j \in DOMAIN h : /\ h[j].instSeqNum >= s /\ h[j].archReg = a
                           /\ h[j].prevPhysReg = p
    \/ \E j \in DOMAIN f : f[j] = p
Held(h, m, f, x) ==
    /\ \A k \in DOMAIN x.renamed : HeldNew(h, m, f, x.renamed[k], x.seqNum)
    /\ \A a \in ArchReg : HeldOld(h, m, f, a, x.src[a], x.seqNum)
HeldInv ==
    \A i \in DOMAIN rob : ~rob[i].squashed =>
        Held(historyBuffer, renameMap, freeingInProgress, rob[i])

(* So the registers of the instructions in the ROB are always there.        *)
LEMMA HeldInvariant == RRSpec => []HeldInv
(* Whether they are there does not depend on the marks.                     *)
<1>HeldSame. ASSUME NEW h, NEW m, NEW f, NEW x, NEW y, Same(y, x), Held(h, m, f, x)
             PROVE  Held(h, m, f, y)
  BY <1>HeldSame, Zenon DEF Same, Held
(* An instruction that the history knows has its registers there.           *)
<1>StrongHeld. ASSUME RNInv, NEW x \in FullInst, Strong(historyBuffer, renameMap, x), NEW f
               PROVE  Held(historyBuffer, renameMap, f, x)
  <2> USE <1>StrongHeld
  <2> DEFINE h == historyBuffer
  <2>t. /\ DOMAIN h = 1 .. Len(h) /\ Len(h) \in Nat /\ x.seqNum \in Nat
        /\ x.renamed \in Seq(PhysReg) /\ DOMAIN x.renamed = 1 .. Len(x.renamed)
    BY EntryTypes DEF FullInst, DynInst
  <2>1. ASSUME NEW k \in DOMAIN x.renamed
        PROVE  HeldNew(h, renameMap, f, x.renamed[k], x.seqNum)
    <3>1. PICK o \in Nat : MatchAt(h, x.seqNum, x.dest, x.renamed, o)
      BY Zenon DEF Strong, Match
    <3>2. /\ o + k \in DOMAIN h /\ h[o + k].instSeqNum = x.seqNum
          /\ h[o + k].newPhysReg = x.renamed[k]
      BY <2>t, <2>1, <3>1, Zenon DEF MatchAt
    <3> QED
      BY <3>2, Zenon DEF HeldNew
  <2>2. ASSUME NEW a \in ArchReg
        PROVE  HeldOld(h, renameMap, f, a, x.src[a], x.seqNum)
    <3> DEFINE S == {i \in DOMAIN h : IsLater(h, i, x.seqNum, a)}
    <3>1. MapBefore(h, renameMap, x.seqNum, x.src)
      BY Zenon DEF Strong
    <3>2. CASE S = {}
      BY <3>1, <3>2, Zenon DEF MapBefore, HeldOld
    <3>3. CASE S # {}
      <4>1. S \in SUBSET Nat
        BY <2>t
      <4>2. PICK i \in S : \A j \in S : i <= j
        <5> HIDE DEF S
        <5> QED
          BY <3>3, <4>1, Least, Zenon
      <4>3. \A j \in DOMAIN h : j < i => ~IsLater(h, j, x.seqNum, a)
        <5> SUFFICES ASSUME NEW j \in DOMAIN h, j < i, j \in S PROVE FALSE
          BY Zenon
        <5>1. i <= j /\ i \in Nat /\ j \in Nat
          BY <2>t, <4>2
        <5> QED
          BY <5>1
      <4>4. IsFirst(h, i, x.seqNum, a) /\ i \in DOMAIN h
        BY <4>2, <4>3, Zenon DEF IsFirst
      <4>5. x.src[a] = h[i].prevPhysReg
        BY <3>1, <4>4, Zenon DEF MapBefore
      <4> QED
        BY <4>4, <4>5, Zenon DEF HeldOld, IsFirst, IsLater
    <3> QED
      BY <3>2, <3>3, Zenon
  <2> QED
    BY <2>1, <2>2, Zenon DEF Held
(* The registers stay there when a younger destination is renamed,          *)
<1>HeldDest. ASSUME RNInv, NEW t \in Nat, NEW b \in ArchReg, RenameDest(t, b),
                    NEW x \in FullInst, x.seqNum <= t,
                    Held(historyBuffer, renameMap, freeingInProgress, x)
             PROVE  Held(historyBuffer', renameMap', freeingInProgress', x)
  <2> USE <1>HeldDest
  <2> DEFINE n == Len(historyBuffer) + 1
  <2>1. /\ DOMAIN historyBuffer' = DOMAIN historyBuffer \cup {n}
        /\ \A i \in DOMAIN historyBuffer : historyBuffer'[i] = historyBuffer[i]
        /\ historyBuffer'[n].instSeqNum = t /\ historyBuffer'[n].archReg = b
        /\ historyBuffer'[n].prevPhysReg = renameMap[b]
        /\ renameMap'[b] = RenamedReg(b)
        /\ \A c \in ArchReg : c # b => renameMap'[c] = renameMap[c]
        /\ freeingInProgress' = freeingInProgress
    BY DestEffect, ZenonT(30)
  <2>2. \A c \in MiscReg : renameMap'[c] = renameMap[c]
    BY <2>1, RenameAssumption, Zenon DEF RenamedReg
  <2>t. x.seqNum \in Nat
    BY Zenon DEF FullInst, DynInst
  <2> HIDE DEF n
  <2>3. ASSUME NEW p, NEW s, HeldNew(historyBuffer, renameMap, freeingInProgress, p, s)
        PROVE  HeldNew(historyBuffer', renameMap', freeingInProgress', p, s)
    BY <2>1, <2>2, <2>3, Zenon DEF HeldNew
  <2>4. ASSUME NEW a \in ArchReg, NEW p,
               HeldOld(historyBuffer, renameMap, freeingInProgress, a, p, x.seqNum)
        PROVE  HeldOld(historyBuffer', renameMap', freeingInProgress', a, p, x.seqNum)
    <3>1. CASE renameMap[a] = p
      <4>1. CASE a = b
        <5>1. /\ n \in DOMAIN historyBuffer' /\ historyBuffer'[n].instSeqNum >= x.seqNum
              /\ historyBuffer'[n].archReg = a /\ historyBuffer'[n].prevPhysReg = p
          BY <2>1, <2>t, <3>1, <4>1, Zenon
        <5> QED
          BY <5>1, Zenon DEF HeldOld
      <4>2. CASE a # b
        BY <2>1, <3>1, <4>2, Zenon DEF HeldOld
      <4> QED
        BY <4>1, <4>2, Zenon
    <3>2. CASE renameMap[a] # p
      BY <2>1, <2>4, <3>2, Zenon DEF HeldOld
    <3> QED
      BY <3>1, <3>2, Zenon
  <2> QED
    BY <2>3, <2>4, Zenon DEF Held
(* when the newest entry is undone,                                         *)
<1>HeldUndo. ASSUME RNInv, UndoNewest, NEW x \in FullInst,
                    Held(historyBuffer, renameMap, freeingInProgress, x)
             PROVE  Held(historyBuffer', renameMap', freeingInProgress', x)
  <2> USE <1>HeldUndo
  <2> DEFINE n == Len(historyBuffer)
             b == historyBuffer[n].archReg
             new == historyBuffer[n].newPhysReg
             prev == historyBuffer[n].prevPhysReg
  <2>1. /\ n \in DOMAIN historyBuffer /\ b \in ArchReg
        /\ DOMAIN historyBuffer' = DOMAIN historyBuffer \ {n}
        /\ \A i \in DOMAIN historyBuffer' : historyBuffer'[i] = historyBuffer[i]
        /\ renameMap[b] = new /\ renameMap'[b] = prev
        /\ \A c \in ArchReg : c # b => renameMap'[c] = renameMap[c]
    BY UndoEffect, Zenon
  <2>2. \A p : Freeing(p) \/ (p = new /\ p # prev) => Freeing(p)'
    BY UndoEffect, Zenon
  <2>3. \A p : \/ \E j \in DOMAIN freeingInProgress : freeingInProgress[j] = p
               \/ p = new /\ p # prev
               => \E j \in DOMAIN freeingInProgress' : freeingInProgress'[j] = p
    BY <2>2, Zenon DEF Freeing
  <2>4. new = prev => b \in MiscReg
    BY <2>1, Zenon DEF RNInv, HistoryChain, Replaces
  <2>5. b \in MiscReg => new = prev
    BY <2>1, Zenon DEF RNInv, HistoryChain, Replaces
  <2>6. \A c \in MiscReg : renameMap'[c] = renameMap[c]
    BY <2>1, <2>5, RenameAssumption, Zenon
  <2> HIDE DEF b, new, prev
  <2>7. ASSUME NEW p, NEW s, HeldNew(historyBuffer, renameMap, freeingInProgress, p, s)
        PROVE  HeldNew(historyBuffer', renameMap', freeingInProgress', p, s)
    <3>1. CASE p = new
      <4>1. new # prev => HeldNew(historyBuffer', renameMap', freeingInProgress', p, s)
        BY <2>3, <3>1, Zenon DEF HeldNew
      <4>2. new = prev => HeldNew(historyBuffer', renameMap', freeingInProgress', p, s)
        BY <2>1, <2>4, <3>1, Zenon DEF HeldNew
      <4> QED
        BY <4>1, <4>2, Zenon
    <3>2. CASE p # new
      <4>1. CASE \E j \in DOMAIN historyBuffer :
                      historyBuffer[j].instSeqNum = s /\ historyBuffer[j].newPhysReg = p
        <5>1. PICK j \in DOMAIN historyBuffer :
                      historyBuffer[j].instSeqNum = s /\ historyBuffer[j].newPhysReg = p
          BY <4>1, Zenon
        <5>2. j # n
          BY <3>2, <5>1, Zenon DEF new
        <5>3. j \in DOMAIN historyBuffer' /\ historyBuffer'[j] = historyBuffer[j]
          BY <2>1, <5>2, Zenon
        <5> QED
          BY <5>1, <5>3, Zenon DEF HeldNew
      <4>2. CASE \/ \E j \in DOMAIN freeingInProgress : freeingInProgress[j] = p
                 \/ \E c \in MiscReg : renameMap[c] = p
        BY <2>3, <2>6, <4>2, Zenon DEF HeldNew
      <4> QED
        BY <2>7, <4>1, <4>2, Zenon DEF HeldNew
    <3> QED
      BY <3>1, <3>2, Zenon
  <2>8. ASSUME NEW a \in ArchReg, NEW p, NEW s,
               HeldOld(historyBuffer, renameMap, freeingInProgress, a, p, s)
        PROVE  HeldOld(historyBuffer', renameMap', freeingInProgress', a, p, s)
    <3>1. CASE renameMap[a] = p
      <4>1. a = b => p = new
        BY <2>1, <3>1, Zenon
      <4>2. a = b /\ new # prev =>
              HeldOld(historyBuffer', renameMap', freeingInProgress', a, p, s)
        BY <2>3, <4>1, Zenon DEF HeldOld
      <4>3. a = b /\ new = prev =>
              HeldOld(historyBuffer', renameMap', freeingInProgress', a, p, s)
        BY <2>1, <4>1, Zenon DEF HeldOld
      <4>4. a # b => HeldOld(historyBuffer', renameMap', freeingInProgress', a, p, s)
        BY <2>1, <3>1, Zenon DEF HeldOld
      <4> QED
        BY <4>2, <4>3, <4>4, Zenon
    <3>2. CASE \E j \in DOMAIN historyBuffer :
                  /\ historyBuffer[j].instSeqNum >= s /\ historyBuffer[j].archReg = a
                  /\ historyBuffer[j].prevPhysReg = p
      <4>1. PICK j \in DOMAIN historyBuffer :
                  /\ historyBuffer[j].instSeqNum >= s /\ historyBuffer[j].archReg = a
                  /\ historyBuffer[j].prevPhysReg = p
        BY <3>2, Zenon
      <4>2. CASE j = n
        BY <2>1, <4>1, <4>2, Zenon DEF HeldOld, b, prev
      <4>3. CASE j # n
        <5>1. j \in DOMAIN historyBuffer' /\ historyBuffer'[j] = historyBuffer[j]
          BY <2>1, <4>3, Zenon
        <5> QED
          BY <4>1, <5>1, Zenon DEF HeldOld
      <4> QED
        BY <4>2, <4>3, Zenon
    <3>3. CASE \E j \in DOMAIN freeingInProgress : freeingInProgress[j] = p
      BY <2>3, <3>3, Zenon DEF HeldOld
    <3> QED
      BY <2>8, <3>1, <3>2, <3>3, Zenon DEF HeldOld
  <2> QED
    BY <2>7, <2>8, Zenon DEF Held
(* and when the entry of an older instruction is removed.                   *)
<1>HeldFree. ASSUME RNInv, FreeOldest, NEW x \in FullInst, Oldest.instSeqNum < x.seqNum,
                    Held(historyBuffer, renameMap, freeingInProgress, x)
             PROVE  Held(historyBuffer', renameMap', freeingInProgress', x)
  <2> USE <1>HeldFree
  <2>1. /\ 1 \in DOMAIN historyBuffer /\ Oldest = historyBuffer[1]
        /\ \A i \in DOMAIN historyBuffer : i # 1 =>
              i - 1 \in DOMAIN historyBuffer' /\ historyBuffer'[i - 1] = historyBuffer[i]
        /\ UNCHANGED <<renameMap, freeingInProgress>>
    BY FreeEffect, Zenon
  <2>t. x.seqNum \in Nat /\ historyBuffer[1].instSeqNum \in Nat
    BY <2>1, EntryTypes, Zenon DEF FullInst, DynInst
  <2>2. \A j \in DOMAIN historyBuffer : historyBuffer[j].instSeqNum >= x.seqNum =>
              \E k \in DOMAIN historyBuffer' : historyBuffer'[k] = historyBuffer[j]
    BY <2>1, <2>t
  <2>3. \A j \in DOMAIN historyBuffer : historyBuffer[j].instSeqNum = x.seqNum =>
              \E k \in DOMAIN historyBuffer' : historyBuffer'[k] = historyBuffer[j]
    BY <2>1, <2>t
  <2>4. ASSUME NEW p, HeldNew(historyBuffer, renameMap, freeingInProgress, p, x.seqNum)
        PROVE  HeldNew(historyBuffer', renameMap', freeingInProgress', p, x.seqNum)
    BY <2>1, <2>3, <2>4, ZenonT(30) DEF HeldNew
  <2>5. ASSUME NEW a \in ArchReg, NEW p,
               HeldOld(historyBuffer, renameMap, freeingInProgress, a, p, x.seqNum)
        PROVE  HeldOld(historyBuffer', renameMap', freeingInProgress', a, p, x.seqNum)
    BY <2>1, <2>2, <2>5, ZenonT(30) DEF HeldOld
  <2> QED
    BY <2>4, <2>5, Zenon DEF Held
(* Rename frees the registers of squashed instructions only when the ROB has*)
(* marked them all (Rename::checkSignalsAndUpdate),                         *)
<1>HeldRename. ASSUME Pipe, RobStrong, HeldInv, RenameTick(Seq(ArchReg))
               PROVE  HeldInv'
  <2> USE <1>HeldRename
  <2>t. /\ RNInv /\ TypeInv /\ OrderInv /\ ControlInv /\ DoneInv /\ rob \in Seq(FullInst)
        /\ lastCommitedSeqNum \in Nat /\ commitInfo.doneSeqNum \in Nat /\ seqNum \in Nat
        /\ Len(historyBuffer) \in Nat /\ DOMAIN historyBuffer = 1 .. Len(historyBuffer)
        /\ \A i \in DOMAIN historyBuffer : historyBuffer[i].instSeqNum \in Nat
        /\ [RRNext]_rvars
    BY EntryTypes, Zenon DEF Pipe, Base, TypeInv, RobTypes, FrontTypes, CommitTypes, SignalType, RRNext
  <2>1. rob' = rob
    BY Zenon DEF RenameTick, SquashSignal, UndoStep, UndoEnd, NoSquashSignal,
       RenameInst, RenameDestStep, SendInst, RenameEnd, RemoveStep, RemoveEnd, robvars
  <2> SUFFICES ASSUME NEW i \in DOMAIN rob, ~rob[i].squashed
               PROVE  Held(historyBuffer', renameMap', freeingInProgress', rob[i])
    BY <2>1, Zenon DEF HeldInv
  <2>2. rob[i] \in FullInst /\ rob[i].seqNum \in Nat
    BY <2>t, FullSeq, Zenon
  <2>3. Held(historyBuffer, renameMap, freeingInProgress, rob[i])
    BY Zenon DEF HeldInv
  <2>4. CASE RenameDestStep
    <3>1. PICK a \in ArchReg : inst # None /\ RenameDest(seqNum, a)
      BY <2>t, <2>4, DestStepEffect, Zenon
    <3>2. rob[i].seqNum <= seqNum
      BY <2>t, Zenon DEF OrderInv, UpTo
    <3> QED
      BY <2>t, <2>2, <2>3, <3>1, <3>2, <1>HeldDest, ZenonT(30)
  <2>5. CASE UndoStep
    BY <2>t, <2>2, <2>3, <2>5, <1>HeldUndo, Zenon DEF UndoStep
  <2>6. CASE RemoveStep
    <3>1. FreeOldest /\ Oldest.instSeqNum <= commitInfo.doneSeqNum /\ at = "remove"
      BY <2>6, Zenon DEF RemoveStep, ToRemove
    <3>2. Oldest.instSeqNum \in Nat
      BY <2>t, <3>1, FreeEffect, Zenon
    <3>3. lastCommitedSeqNum < rob[i].seqNum
      BY <2>t, Zenon DEF OrderInv, Above
    <3>4. Oldest.instSeqNum < rob[i].seqNum
      BY <2>t, <2>2, <3>1, <3>2, <3>3 DEF ControlInv, DoneInv
    <3> QED
      BY <2>t, <2>2, <2>3, <3>1, <3>4, <1>HeldFree, ZenonT(30)
  <2>7. CASE NoSquashSignal
    <3>1. /\ ~commitInfo.squash /\ UNCHANGED <<historyBuffer, renameMap>>
          /\ commitInfo.robSquashing => UNCHANGED freeingInProgress
      BY <2>7, Zenon DEF NoSquashSignal, ReleaseFreeing
    <3>2. CASE commitInfo.robSquashing
      BY <2>3, <3>1, <3>2, Zenon
    <3>3. CASE ~commitInfo.robSquashing
      <4>1. squashIt = 0
        BY <2>t, <3>3, Zenon DEF ControlInv, TypeInv, CommitTypes
      <4>2. Strong(historyBuffer, renameMap, rob[i])
        BY <3>1, <4>1, Zenon DEF RobStrong, Live, Pending
      <4> QED
        BY <2>t, <2>2, <3>1, <4>2, <1>StrongHeld, ZenonT(30)
    <3> QED
      BY <3>2, <3>3, Zenon
  <2>8. CASE ~RenameDestStep /\ ~UndoStep /\ ~RemoveStep /\ ~NoSquashSignal
    <3>1. UNCHANGED <<historyBuffer, renameMap, freeingInProgress>>
      BY <2>t, <2>8, HistoryKept, Zenon
    <3> QED
      BY <2>3, <3>1, Zenon
  <2> QED
    BY <2>4, <2>5, <2>6, <2>7, <2>8, Zenon
(* and what enters the ROB is known to the history.                         *)
<1>HeldCommit. ASSUME Pipe, FromStrong, HeldInv, [RRNext]_rvars, ~RenameTick(Seq(ArchReg))
               PROVE  HeldInv'
  <2> USE <1>HeldCommit
  <2>t. /\ RNInv /\ TypeInv /\ ControlInv /\ rob \in Seq(FullInst)
        /\ fromRename \in Seq(FullInst)
        /\ DOMAIN rob = 1 .. Len(rob) /\ Len(rob) \in Nat
    BY FullSeq, Zenon DEF Pipe, Base, TypeInv, RobTypes, FrontTypes
  <2>h. UNCHANGED <<historyBuffer, renameMap, freeingInProgress>>
    BY HistoryKept, Zenon DEF RenameTick
  <2>1. ASSUME \A i \in DOMAIN rob' : \E j \in DOMAIN rob :
                  Same(rob'[i], rob[j]) /\ (rob[j].squashed => rob'[i].squashed)
        PROVE  HeldInv'
    BY <2>1, <2>h, <1>HeldSame, Zenon DEF HeldInv
  <2>s. \A x : Same(x, x)
    BY Zenon DEF Same
  <2>2. CASE RobStays
    BY <2>1, <2>2, <2>s, RobStaysEffect, Zenon
  <2>3. CASE RobExecutes
    <3>1. /\ DOMAIN rob' = DOMAIN rob
          /\ \A i \in DOMAIN rob : /\ Same(rob'[i], rob[i])
                                   /\ rob'[i].squashed = rob[i].squashed
      BY <2>t, <2>3, RobExecutesEffect, Zenon DEF RobExecutes, Same
    <3> QED
      BY <2>1, <3>1, Zenon
  <2>4. CASE CycleEnd
    <3>1. /\ DOMAIN rob' = DOMAIN rob
          /\ \A i \in DOMAIN rob : /\ Same(rob'[i], rob[i])
                                   /\ rob'[i].squashed = rob[i].squashed
      BY <2>t, <2>4, CycleEndEffect, Zenon
    <3> QED
      BY <2>1, <3>1, Zenon
  <2>5. CASE RobRetires
    <3>1. rob # <<>> /\ rob' = Tail(rob)
      BY <2>5, Zenon DEF RobRetires, RetireSquashed, CommitHead, HeadReady
    <3>2. \A i \in DOMAIN rob' : \E j \in DOMAIN rob : rob'[i] = rob[j]
      BY <2>t, <3>1, TailFull, Zenon
    <3> QED
      BY <2>1, <2>s, <3>2, Zenon
  <2>6. CASE GetInst
    <3>1. /\ fromRename # <<>> /\ at = "insts"
          /\ \/ rob' = rob
             \/ ~Head(fromRename).squashed /\ rob' = Append(rob, Head(fromRename))
      BY <2>6, Zenon DEF GetInst
    <3>2. CASE rob' = rob
      BY <2>1, <2>s, <3>2, Zenon
    <3>3. CASE ~Head(fromRename).squashed /\ rob' = Append(rob, Head(fromRename))
      <4>1. /\ 1 \in DOMAIN fromRename /\ fromRename[1] = Head(fromRename)
            /\ ~commitInfo.squash
        BY <2>t, <3>1, TailFull, Zenon DEF ControlInv
      <4>2. Head(fromRename) \in FullInst
        BY <2>t, <4>1, FullSeq
      <4>3. Strong(historyBuffer, renameMap, Head(fromRename))
        BY <3>3, <4>1, Zenon DEF FromStrong, Pending
      <4>4. Held(historyBuffer, renameMap, freeingInProgress, Head(fromRename))
        BY <2>t, <4>2, <4>3, <1>StrongHeld, Zenon
      <4>5. /\ DOMAIN rob' = DOMAIN rob \cup {Len(rob) + 1}
            /\ rob'[Len(rob) + 1] = Head(fromRename)
            /\ \A i \in DOMAIN rob : rob'[i] = rob[i]
        BY <2>t, <3>3, AppendFull
      <4> QED
        BY <2>h, <4>4, <4>5, Zenon DEF HeldInv
    <3> QED
      BY <3>1, <3>2, <3>3, Zenon
  <2>7. CASE RobSquashes
    <3>1. CASE UNCHANGED rob
      BY <2>1, <2>s, <3>1, Zenon
    <3>2. CASE \E it \in 0 .. Len(rob), s \in Nat : \E low \in 0 .. it : Marked(low, it, s)
      <4>0. PICK it \in 0 .. Len(rob), s \in Nat : \E low \in 0 .. it : Marked(low, it, s)
        BY <3>2, Zenon
      <4>1. PICK low \in 0 .. it : Marked(low, it, s)
        BY <4>0, Zenon
      <4>2. SameInsts(rob', rob)
        BY <2>t, <4>1, MarkedSame, Zenon DEF TypeInv
      <4>3. \A i \in DOMAIN rob : rob[i].squashed => rob'[i].squashed
        <5> SUFFICES ASSUME NEW i \in DOMAIN rob, rob[i].squashed PROVE rob'[i].squashed
          BY Zenon
        <5>1. CASE low < i /\ i <= it
          BY <2>t, <4>1, <5>1, Zenon DEF Marked
        <5>2. CASE ~(low < i /\ i <= it)
          BY <2>t, <4>1, <5>2, Zenon DEF Marked
        <5> QED
          BY <5>1, <5>2, Zenon
      <4> QED
        BY <2>1, <4>2, <4>3, Zenon DEF SameInsts
    <3> QED
      BY <2>t, <2>7, <3>1, <3>2, RobSquashesEffect, Zenon
  <2> QED
    BY <2>2, <2>3, <2>4, <2>5, <2>6, <2>7, RobCases, ZenonT(30)
<1>1. RRInit => HeldInv
  BY DEF RRInit, HeldInv
<1>2. Maps /\ HeldInv /\ [RRNext]_rvars => HeldInv'
  BY <1>HeldRename, <1>HeldCommit, Zenon DEF Maps, StrongInv
<1> QED
  BY <1>1, <1>2, MapsInvariant, PTL DEF RRSpec

(* No instruction in the ROB that is not marked squashed reads or writes a  *)
(* register that has been freed, for every squash width: Rename::doSquash   *)
(* delays the freeing of registers "until they are indeed squashed in the   *)
(* commit stage", and checkSignalsAndUpdate ends the delay in time.         *)
THEOREM NoOwnershipHazardTheorem == RRSpec => []NoOwnershipHazard
(* The register an entry introduced is held: by the map, or by the entry of *)
(* the instruction that replaced it.                                        *)
<1>NewHeld. ASSUME RNInv, HistoryInv, NEW i \in DOMAIN historyBuffer
            PROVE  ~Free(historyBuffer[i].newPhysReg)
  <2> USE <1>NewHeld
  <2> DEFINE h == historyBuffer
             S == {j \in DOMAIN h : j > i /\ h[j].archReg = h[i].archReg}
  <2>t. /\ DOMAIN h = 1 .. Len(h) /\ Len(h) \in Nat
        /\ h[i].newPhysReg \in PhysReg /\ h[i].archReg \in ArchReg
    BY EntryTypes, Zenon
  <2>1. CASE S = {}
    <3>1. IsNewest(i)
      BY <2>1, Zenon DEF IsNewest
    <3>2. Mapped(h[i].newPhysReg)
      BY <2>t, <3>1, Zenon DEF RNInv, HistoryChain, Mapped
    <3> QED
      BY <2>t, <3>2, Zenon DEF RNInv, Ownership, OnePlace
  <2>2. CASE S # {}
    <3>1. S \in SUBSET Nat
      BY <2>t
    <3>2. PICK j \in S : \A k \in S : j <= k
      <4> HIDE DEF S
      <4> QED
        BY <2>2, <3>1, Least, Zenon
    <3>3. \A k \in DOMAIN h : i < k /\ k < j => h[k].archReg # h[i].archReg
      <4> SUFFICES ASSUME NEW k \in DOMAIN h, i < k, k < j, k \in S PROVE FALSE
        BY <2>t, Zenon
      <4>1. j <= k /\ j \in Nat /\ k \in Nat
        BY <2>t, <3>2
      <4> QED
        BY <4>1
    <3>4. NextEntry(i, j) /\ j \in DOMAIN h
      BY <3>2, <3>3, Zenon DEF NextEntry
    <3>5. h[j].prevPhysReg = h[i].newPhysReg
      BY <3>4, Zenon DEF RNInv, HistoryChain
    <3> QED
      BY <3>4, <3>5, PrevHeld, Zenon
  <2> QED
    BY <2>1, <2>2, Zenon
(* A register that is there is not free.                                    *)
<1>HeldNotFree. ASSUME RNInv, HistoryInv, NEW x \in FullInst,
                       Held(historyBuffer, renameMap, freeingInProgress, x)
                PROVE  /\ \A k \in DOMAIN x.renamed : ~Free(x.renamed[k])
                       /\ \A a \in ArchReg : ~Free(x.src[a])
  <2> USE <1>HeldNotFree
  <2>t. /\ \A k \in DOMAIN x.renamed : x.renamed[k] \in PhysReg
        /\ \A a \in ArchReg : x.src[a] \in PhysReg
    BY DEF FullInst, DynInst
  <2>1. \A p \in PhysReg : Freeing(p) \/ Mapped(p) => ~Free(p)
    BY Zenon DEF RNInv, Ownership, OnePlace
  <2>2. ASSUME NEW k \in DOMAIN x.renamed PROVE ~Free(x.renamed[k])
    <3>1. HeldNew(historyBuffer, renameMap, freeingInProgress, x.renamed[k], x.seqNum)
      BY Zenon DEF Held
    <3>2. CASE \E j \in DOMAIN historyBuffer : historyBuffer[j].newPhysReg = x.renamed[k]
      BY <3>2, <1>NewHeld, Zenon
    <3>3. (\E b \in MiscReg : renameMap[b] = x.renamed[k]) => Mapped(x.renamed[k])
      BY RenameAssumption, Zenon DEF Mapped
    <3>4. (\E j \in DOMAIN freeingInProgress : freeingInProgress[j] = x.renamed[k])
              => Freeing(x.renamed[k])
      BY Zenon DEF Freeing
    <3> QED
      BY <2>t, <2>1, <3>1, <3>2, <3>3, <3>4, Zenon DEF HeldNew
  <2>3. ASSUME NEW a \in ArchReg PROVE ~Free(x.src[a])
    <3>1. HeldOld(historyBuffer, renameMap, freeingInProgress, a, x.src[a], x.seqNum)
      BY Zenon DEF Held
    <3>2. CASE \E j \in DOMAIN historyBuffer : historyBuffer[j].prevPhysReg = x.src[a]
      BY <3>2, PrevHeld, Zenon
    <3>3. renameMap[a] = x.src[a] => Mapped(x.src[a])
      BY Zenon DEF Mapped
    <3>4. (\E j \in DOMAIN freeingInProgress : freeingInProgress[j] = x.src[a])
              => Freeing(x.src[a])
      BY Zenon DEF Freeing
    <3> QED
      BY <2>t, <2>1, <3>1, <3>2, <3>3, <3>4, Zenon DEF HeldOld
  <2> QED
    BY <2>2, <2>3, Zenon
<1>1. ASSUME Pipe, HeldInv PROVE NoOwnershipHazard
  <2> SUFFICES ASSUME NEW i \in DOMAIN rob, ~rob[i].squashed,
                      NEW p \in Range(freeList),
                      \/ p \in Range(rob[i].renamed)
                      \/ \E a \in ArchReg : p = rob[i].src[a]
               PROVE  FALSE
    BY Zenon DEF NoOwnershipHazard
  <2>1. Free(p)
    BY Zenon DEF Free, Range
  <2>2. rob[i] \in FullInst
    BY <1>1, FullSeq, Zenon DEF Pipe, Base, TypeInv, RobTypes
  <2>3. Held(historyBuffer, renameMap, freeingInProgress, rob[i])
    BY <1>1, Zenon DEF HeldInv
  <2>4. /\ \A k \in DOMAIN rob[i].renamed : ~Free(rob[i].renamed[k])
        /\ \A a \in ArchReg : ~Free(rob[i].src[a])
    BY <1>1, <2>2, <2>3, <1>HeldNotFree, Zenon DEF Pipe, Base
  <2> QED
    BY <2>1, <2>4, Zenon DEF Range
<1> QED
  BY <1>1, HeldInvariant, PipeInvariant, PTL
==============================================================================
