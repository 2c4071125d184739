------------------------ MODULE BranchRecordsProofs ------------------------
(***************************************************************************)
(* The records of the branch prediction unit are those of the branches in  *)
(* the pipeline, for any number of branches in flight and any order of     *)
(* squashes from decode and commit. The other proofs about the unit use    *)
(* its type invariant and BPStep, what a step may do to the unit. Then the *)
(* return address stack is that of the calls of the path, for any number   *)
(* of entries.                                                             *)
(***************************************************************************)
EXTENDS BranchFrontEnd, TLAPS

Ghr == [0 .. GHRBits - 1 -> Bit]
Target == Nat \X BOOLEAN
Index == {NoIndex} \cup [pc : Nat, ghr : Ghr, path : Seq(Target)]
RasHistory == [op : {"none", "push", "pop"}, tos : Entry, entry : Nat]

Record ==
    [sn : Nat, type : BranchType, predTaken : BOOLEAN, actuallyTaken : BOOLEAN,
     mispredict : BOOLEAN, ras : RasHistory, callers : Seq(Nat), kept : Nat,
     targets : Seq(Target), pathHist : PathReg, ghr : Ghr, pcAddr : Nat,
     index : Index]

Inst == [sn : Nat, type : BranchType, predTaken : BOOLEAN,
         stage : {"fetch", "decode", "rename", "iew", "done"}]

Signal == [squash : BOOLEAN, doneSeqNum : Nat, mispredict : BOOLEAN, taken : BOOLEAN]

(* Type correctness of the unit and of the pipeline around it; what the     *)
(* direction history holds needs the bounds of BranchHistoryProofs.         *)
BPTypeOK ==
    /\ predHist \in Seq(Record)
    /\ ras \in [addrStack : [Entry -> Nat], tos : Entry]
    /\ IsTage(tage)
    /\ ind \in [ghr : Ghr, pathHist : Seq(Target)]
    /\ requiresBTBHit \in BOOLEAN
    /\ done \in Seq([sn : Nat, taken : BOOLEAN])
    /\ callers \in Seq(Nat) /\ kept \in Nat /\ targets \in Seq(Target)

BTypeOK ==
    /\ BPTypeOK
    /\ at \in {"bac", "squash", "fetch", "decode", "commit"}
    /\ insts \in Seq(Inst)
    /\ decodeInfo \in Signal /\ commitInfo \in Signal
    /\ seqNum \in Nat

-----------------------------------------------------------------------------
(* The branches in the pipeline are the records after the first d. *)
Same(d) ==
    /\ d + Len(insts) <= Len(predHist)
    /\ \A i \in 1 .. Len(insts) : /\ insts[i].sn = predHist[d + i].sn
                                  /\ insts[i].type = predHist[d + i].type

(* The youngest branch left in the pipeline is the one that s corrects. *)
Corrects(s) ==
    /\ insts # <<>>
    /\ insts[Len(insts)].sn = s.doneSeqNum
    /\ IsUncondCtrl(insts[Len(insts)].type) => s.taken

Ordered ==
    /\ \A i, j \in 1 .. Len(predHist) : i < j => predHist[i].sn < predHist[j].sn
    /\ \A i \in 1 .. Len(predHist) : predHist[i].sn \in 1 .. seqNum

(* The signals on their way account for the difference between the records  *)
(* and the branches: commitInfo for the oldest records, a squash for the    *)
(* youngest.                                                                *)
RecordsInv ==
    /\ Ordered
    /\ at \in {"fetch", "decode"} => Same(0) /\ Len(insts) = Len(predHist)
    /\ at = "commit" =>
         /\ Same(0)
         /\ decodeInfo.squash => /\ Corrects(decodeInfo)
                                 /\ insts[Len(insts)].stage = "rename"
         /\ ~decodeInfo.squash => Len(insts) = Len(predHist)
    /\ at = "bac" /\ ~commitInfo.squash => \E d \in 0 .. Len(predHist) :
         /\ Same(d)
         /\ \A i \in 1 .. Len(predHist) :
                i <= d <=> predHist[i].sn <= commitInfo.doneSeqNum
         /\ decodeInfo.squash => Corrects(decodeInfo)
         /\ ~decodeInfo.squash => d + Len(insts) = Len(predHist)
    /\ at = "squash" \/ (at = "bac" /\ commitInfo.squash) =>
         /\ Same(0) /\ Squash.squash
         /\ \A i \in 1 .. Len(predHist) :
                i <= Len(insts) <=> predHist[i].sn <= Squash.doneSeqNum
         /\ Squash.mispredict => Corrects(Squash)
    /\ ~requiresBTBHit =>
         \A i \in 1 .. Len(predHist) :
             predHist[i].ras.op = RasOp(predHist[i].type, TRUE)

-----------------------------------------------------------------------------

(* A prefix of a sequence.                                                  *)
LEMMA PrefixType ==
    ASSUME NEW S, NEW s \in Seq(S), NEW n \in 0 .. Len(s)
    PROVE  /\ SubSeq(s, 1, n) \in Seq(S)
           /\ Len(SubSeq(s, 1, n)) = n
           /\ \A i \in 1 .. n : SubSeq(s, 1, n)[i] = s[i]
  OBVIOUS

(* A sequence without its last element.                                     *)
LEMMA DropLastType ==
    ASSUME NEW S, NEW s \in Seq(S)
    PROVE  /\ DropLast(s) \in Seq(S)
           /\ s # <<>> => Len(DropLast(s)) = Len(s) - 1
           /\ \A i \in 1 .. Len(DropLast(s)) : DropLast(s)[i] = s[i]
  <1>1. CASE s = <<>>
    BY <1>1, Zenon DEF DropLast
  <1>2. CASE s # <<>>
    <2>1. Len(s) - 1 \in 0 .. Len(s) /\ DropLast(s) = SubSeq(s, 1, Len(s) - 1)
      BY <1>2 DEF DropLast
    <2> QED
      BY <2>1, PrefixType, Zenon
  <1> QED
    BY <1>1, <1>2, Zenon

(* The stack operations keep the stack a stack (AddrStack).                 *)
LEMMA RasTypes ==
    ASSUME NEW s \in [addrStack : [Entry -> Nat], tos : Entry], NEW addr \in Nat,
           NEW op \in {"none", "push", "pop"}, NEW h \in RasHistory
    PROVE  /\ RasApply(s, op, addr) \in [addrStack : [Entry -> Nat], tos : Entry]
           /\ RasSquash(s, h) \in [addrStack : [Entry -> Nat], tos : Entry]
           /\ RasRecord(op, s) \in RasHistory
  <1>1. IncrTos(s.tos) \in Entry /\ DecrTos(s.tos) \in Entry
    BY RasAssumption, SMTT(20) DEF IncrTos, DecrTos, Entry
  <1>2. Push(s, addr) \in [addrStack : [Entry -> Nat], tos : Entry]
    BY <1>1, Zenon DEF Push
  <1>3. Pop(s) \in [addrStack : [Entry -> Nat], tos : Entry]
    BY <1>1, Zenon DEF Pop
  <1>4. Restore(s, h.tos, h.entry) \in [addrStack : [Entry -> Nat], tos : Entry]
    BY Zenon DEF Restore, RasHistory
  <1>5. RasApply(s, op, addr) \in [addrStack : [Entry -> Nat], tos : Entry]
    BY <1>2, <1>3, Zenon DEF RasApply
  <1>6. RasSquash(s, h) \in [addrStack : [Entry -> Nat], tos : Entry]
    BY <1>3, <1>4, Zenon DEF RasSquash
  <1>7. RasRecord(op, s) \in RasHistory
    BY RasAssumption, Zenon DEF RasRecord, RasHistory
  <1> QED
    BY <1>5, <1>6, <1>7, Zenon

-----------------------------------------------------------------------------
(* What a prediction records and pushes. *)
Predicted(r, sn, type, op) ==
    /\ predHist' = Append(predHist, r)
    /\ r.sn = sn /\ r.type = type /\ r.mispredict = FALSE
    /\ r.ras = RasRecord(op, ras)
    /\ r.callers = callers /\ r.kept = kept /\ r.targets = targets
    /\ r.pathHist = tage.pathHist /\ r.ghr = ind.ghr
    /\ r.pcAddr # Null => r.pcAddr = sn /\ r.index = IndexOf(ind, sn)
    /\ tage' = PushHistories(tage, AddrBit(sn), TakenBit(r.actuallyTaken))
    /\ ind' = IndirectPush(ind, IsIndirectNoReturn(type), TargetOf(sn, FALSE),
                           TakenBit(r.actuallyTaken))

(* predict() adds one record of the right type.                             *)
LEMMA PredictRecord ==
    ASSUME BPTypeOK, NEW sn \in Nat, NEW type \in BranchType,
           NEW cond \in BOOLEAN, NEW btbHit \in BOOLEAN, NEW hit \in BOOLEAN,
           Predict(sn, type, cond, btbHit, hit)
    PROVE  \E r \in Record :
             Predicted(r, sn, type, RasOp(type, btbHit \/ ~requiresBTBHit))
  <1> DEFINE op == RasOp(type, btbHit \/ ~requiresBTBHit)
             lookup == cond /\ (btbHit \/ ~requiresBTBHit) /\ IsIndirectNoReturn(type)
             taken == cond /\ (\/ btbHit /\ cond
                               \/ op = "pop" /\ RasRecord(op, ras).entry # Null
                               \/ lookup /\ hit)
             r == [sn |-> sn, type |-> type, predTaken |-> taken,
                   actuallyTaken |-> taken, mispredict |-> FALSE,
                   ras |-> RasRecord(op, ras), callers |-> callers, kept |-> kept,
                   targets |-> targets,
                   pathHist |-> tage.pathHist, ghr |-> ind.ghr,
                   pcAddr |-> IF lookup THEN sn ELSE Null,
                   index |-> IF lookup THEN IndexOf(ind, sn) ELSE NoIndex]
  <1>1. /\ predHist' = Append(predHist, r)
        /\ tage' = PushHistories(tage, AddrBit(sn), TakenBit(taken))
        /\ ind' = IndirectPush(ind, IsIndirectNoReturn(type), TargetOf(sn, FALSE),
                               TakenBit(taken))
    BY Zenon DEF Predict
  <1>2. RasRecord(op, ras) \in RasHistory
    BY RasAssumption, Zenon DEF RasRecord, RasHistory, BPTypeOK, RasOp
  <1>3. IndexOf(ind, sn) \in Index
    <2>1. LastTargets(ind.pathHist) \in Seq(Target)
      BY IndirectAssumption DEF LastTargets, BPTypeOK
    <2> QED
      BY <2>1, Zenon DEF IndexOf, Index, BPTypeOK
  <1>4. /\ taken \in BOOLEAN
        /\ (IF lookup THEN sn ELSE Null) \in Nat
        /\ (IF lookup THEN IndexOf(ind, sn) ELSE NoIndex) \in Index
    BY <1>3, RasAssumption, Zenon DEF Index
  <1>5. /\ callers \in Seq(Nat) /\ kept \in Nat /\ targets \in Seq(Target)
        /\ tage.pathHist \in PathReg /\ ind.ghr \in Ghr
    BY Zenon DEF BPTypeOK, IsTage
  <1> HIDE DEF lookup, taken, op
  <1>6. r \in Record
    BY <1>2, <1>4, <1>5, Zenon DEF Record
  <1>7. r.pcAddr # Null => r.pcAddr = sn /\ r.index = IndexOf(ind, sn)
    BY Zenon
  <1> QED
    BY <1>1, <1>6, <1>7, Zenon DEF op, Predicted

(* What a correction leaves in the record. *)
Corrected(r, taken) ==
    LET h     == Newest
        fix   == taken /\ h.ras.op = "none"
        unfix == ~taken /\ h.ras.op # "none"
        stack == IF unfix THEN RasSquash(ras, h.ras) ELSE ras
        indirect == IsIndirectNoReturn(h.type)
    IN
    /\ predHist' = [predHist EXCEPT ![Len(predHist)] = r]
    /\ r.sn = h.sn /\ r.type = h.type /\ r.mispredict = TRUE
    /\ r.actuallyTaken = taken
    /\ r.callers = h.callers /\ r.targets = h.targets
    /\ r.pathHist = h.pathHist /\ r.ghr = h.ghr /\ r.pcAddr = h.pcAddr
    /\ r.kept = IF fix THEN kept ELSE h.kept
    /\ r.ras = IF fix \/ unfix THEN RasRecord(RasOp(h.type, taken), stack) ELSE h.ras
    /\ r.index = IF indirect THEN IndexOf(IndirectUndo(ind, indirect, h.ghr), h.pcAddr)
                 ELSE h.index

(* The correction replaces the newest record.                               *)
LEMMA CorrectRecord ==
    ASSUME BPTypeOK, predHist # <<>>, NEW taken \in BOOLEAN, Correct(taken)
    PROVE  \E r \in Record : Corrected(r, taken)
  <1> DEFINE h == Newest
             indirect == IsIndirectNoReturn(h.type)
             fix == taken /\ h.ras.op = "none"
             unfix == ~taken /\ h.ras.op # "none"
             op == RasOp(h.type, taken)
             undone == IndirectUndo(ind, indirect, h.ghr)
             stack == IF unfix THEN RasSquash(ras, h.ras) ELSE ras
  <1>1. h \in Record /\ predHist \in Seq(Record)
    BY DEF BPTypeOK, Newest
  <1>2. op \in {"none", "push", "pop"} /\ indirect \in BOOLEAN
    BY DEF RasOp, IsIndirectNoReturn
  <1>3. stack \in [addrStack : [Entry -> Nat], tos : Entry]
    BY <1>1, RasTypes, ZenonT(30) DEF BPTypeOK, Record
  <1>4. RasRecord(op, stack) \in RasHistory
    BY <1>1, <1>2, <1>3, RasTypes, Zenon DEF Record
  <1>5. undone \in [ghr : Ghr, pathHist : Seq(Target)]
    <2>1. DropLast(ind.pathHist) \in Seq(Target)
      BY DropLastType, Zenon DEF BPTypeOK
    <2> QED
      BY <1>1, <2>1, Zenon DEF BPTypeOK, Record, IndirectUndo
  <1>6. IndexOf(undone, h.pcAddr) \in Index
    <2>1. LastTargets(undone.pathHist) \in Seq(Target)
      BY <1>5, IndirectAssumption DEF LastTargets
    <2> QED
      BY <1>1, <1>5, <2>1, Zenon DEF IndexOf, Index, Record
  <1> DEFINE r == [h EXCEPT !.mispredict = TRUE, !.actuallyTaken = taken,
                    !.ras = IF fix \/ unfix THEN RasRecord(op, stack) ELSE h.ras,
                    !.kept = IF fix THEN kept ELSE h.kept,
                    !.index = IF indirect THEN IndexOf(undone, h.pcAddr)
                              ELSE h.index]
  <1>7. predHist' = [predHist EXCEPT ![Len(predHist)] = r]
    BY Zenon DEF Correct
  <1>8. /\ (IF fix \/ unfix THEN RasRecord(op, stack) ELSE h.ras) \in RasHistory
        /\ (IF fix THEN kept ELSE h.kept) \in Nat
        /\ (IF indirect THEN IndexOf(undone, h.pcAddr) ELSE h.index) \in Index
    BY <1>1, <1>4, <1>6, Zenon DEF Record, BPTypeOK
  <1> HIDE DEF fix, unfix, op, undone, stack, h, indirect
  <1>9. /\ r \in Record
        /\ r.sn = h.sn /\ r.type = h.type /\ r.mispredict = TRUE
        /\ r.actuallyTaken = taken
        /\ r.callers = h.callers /\ r.targets = h.targets
        /\ r.pathHist = h.pathHist /\ r.ghr = h.ghr /\ r.pcAddr = h.pcAddr
        /\ r.kept = IF fix THEN kept ELSE h.kept
        /\ r.ras = IF fix \/ unfix THEN RasRecord(op, stack) ELSE h.ras
        /\ r.index = IF indirect THEN IndexOf(undone, h.pcAddr) ELSE h.index
    BY <1>1, <1>8, Zenon DEF Record
  <1> HIDE DEF r
  <1> QED
    BY <1>7, <1>9, Zenon DEF fix, unfix, op, undone, stack, h, indirect, Corrected

-----------------------------------------------------------------------------
(* What a step of the pipeline may do to the unit.                          *)
BPStep ==
    \/ \E type \in Types, cond, btbHit, hit \in BOOLEAN :
         Len(predHist) < MaxInFlight /\ Predict(seqNum + 1, type, cond, btbHit, hit)
    \/ predHist # <<>> /\ SquashHistory
    \/ predHist # <<>> /\ \E taken \in BOOLEAN : Correct(taken)
    \/ predHist # <<>> /\ CommitBranch
    \/ UNCHANGED bpvars

(* Every step of the specification is one of these for the unit.            *)
LEMMA StepCases ==
    ASSUME BTypeOK, [Next]_bvars
    PROVE  BPStep
  <1>1. CASE UNCHANGED bvars
    BY <1>1, Zenon DEF bvars, BPStep
  <1>2. CASE BacTick
    <2>1. CASE CommitStep
      BY <2>1, Zenon DEF CommitStep, ToCommit, BPStep
    <2>2. CASE BacSquash \/ SquashEnd \/ BacEnd
      BY <2>2, Zenon DEF BacSquash, SquashEnd, BacEnd, BPStep
    <2>3. CASE SquashStep
      BY <2>3, Zenon DEF SquashStep, ToSquash, BPStep
    <2>4. CASE SquashCorrect
      <3>1. Squash.taken \in BOOLEAN
        BY Zenon DEF Squash, BTypeOK, Signal
      <3> QED
        BY <2>4, <3>1, Zenon DEF SquashCorrect, BPStep
    <2> QED
      BY <1>2, <2>1, <2>2, <2>3, <2>4, Zenon DEF BacTick
  <1>3. CASE FetchTick
    BY <1>3, Zenon DEF FetchTick, FetchBranch, FetchEnd, BPStep
  <1>4. CASE DecodeTick
    BY <1>4, Zenon DEF DecodeTick, DecodeBranch, DecodeEnd, BPStep
  <1>5. CASE CommitTick
    BY <1>5, Zenon DEF CommitTick, CommitIdle, ExecuteRight, Retire, ExecuteWrong,
                SquashOther, NextCycle, BPStep
  <1> QED
    BY <1>1, <1>2, <1>3, <1>4, <1>5, Zenon DEF Next

(* Every step keeps the types of the unit.                                  *)
LEMMA BPTypeStep ==
    ASSUME BTypeOK, [Next]_bvars
    PROVE  BPTypeOK'
  (* What the operations on the components keep: a register shifted by one    *)
  (* is a register.                                                           *)
  <1>ShiftType. ASSUME NEW n \in Nat \ {0}, NEW h \in [0 .. n - 1 -> Bit], NEW b \in Bit
                PROVE  Shift(h, b) \in [0 .. n - 1 -> Bit]
    <2> USE <1>ShiftType
    <2>1. DOMAIN h = 0 .. n - 1
      BY Zenon
    <2>2. \A i \in 0 .. n - 1 : (IF i = 0 THEN b ELSE h[i - 1]) \in Bit
      BY SMT
    <2> QED
      BY <2>1, <2>2, Zenon DEF Shift
  (* The direction register of the indirect predictor likewise. *)
  <1>GhrType. ASSUME NEW g \in Ghr, NEW b \in Bit
              PROVE  UpdateDirectionInfo(g, b) \in Ghr
    <2> USE <1>GhrType
    <2>1. \A i \in 0 .. GHRBits - 1 : (IF i = 0 THEN b ELSE g[i - 1]) \in Bit
      BY IndirectAssumption DEF Ghr
    <2> QED
      BY <2>1, Zenon DEF UpdateDirectionInfo, Ghr
  (* What the histories push are bits.                                        *)
  <1>BitTypes. /\ \A sn \in Nat : AddrBit(sn) \in Bit
               /\ \A taken : TakenBit(taken) \in Bit
    BY DEF AddrBit, TakenBit, Bit
  (* A branch that updates the histories, and one that is undone, leave the   *)
  (* path history a register (updatePathAndGlobalHistory, restoreHistState).  *)
  <1>PushType. ASSUME NEW t, IsTage(t), NEW a \in Bit, NEW b
               PROVE  IsTage(PushHistories(t, a, b))
    <2> USE <1>PushType
    <2> DEFINE u == [t EXCEPT !.pathHist = Shift(@, a)]
    <2>1. IsTage(u)
      <3>1. Shift(t.pathHist, a) \in PathReg
        BY <1>ShiftType, TageAssumption, Zenon DEF IsTage, PathReg
      <3> QED
        BY <3>1, Zenon DEF IsTage
    <2> HIDE DEF u
    <2>2. IsTage(RollOver(u))
      BY <2>1, Zenon DEF IsTage, RollOver
    <2>3. ASSUME NEW r, IsTage(r), NEW h, NEW p, NEW c
          PROVE  IsTage([r EXCEPT !.globalHist = h, !.ptGhist = p, !.comp = c])
      BY <2>3, Zenon DEF IsTage
    <2> QED
      BY <2>1, <2>2, <2>3, Zenon DEF PushHistories, UpdateGHist, u
  (* Restoring the histories of TAGE keeps their shape.                       *)
  <1>RestoreType. ASSUME NEW t, IsTage(t), NEW saved \in PathReg
                  PROVE  IsTage(RestoreHistState(t, saved))
    BY <1>RestoreType, Zenon DEF IsTage, RestoreHistState
  (* The queue of targets stays a sequence of targets.                        *)
  <1>IndirectTypes. ASSUME NEW d \in [ghr : Ghr, pathHist : Seq(Target)], NEW indirect \in BOOLEAN,
                           NEW target \in Target, NEW b \in Bit, NEW g \in Ghr
                    PROVE  /\ IndirectPush(d, indirect, target, b) \in [ghr : Ghr, pathHist : Seq(Target)]
                           /\ IndirectUndo(d, indirect, g) \in [ghr : Ghr, pathHist : Seq(Target)]
    <2> USE <1>IndirectTypes
    <2>1. UpdateDirectionInfo(d.ghr, b) \in Ghr
      BY <1>GhrType, Zenon
    <2>2. DropLast(d.pathHist) \in Seq(Target) /\ Append(d.pathHist, target) \in Seq(Target)
      BY DropLastType
    <2> QED
      BY <2>1, <2>2, Zenon DEF IndirectPush, IndirectUndo
  (* The history variables. *)
  <1>CallersTypes. ASSUME NEW c \in Seq(Nat), NEW k \in Nat, NEW op \in {"none", "push", "pop"},
                          NEW sn \in Nat
                   PROVE  CallersAfter(c, op, sn) \in Seq(Nat) /\ KeptAfter(k, op) \in Nat
    <2> USE <1>CallersTypes
    <2>1. DropLast(c) \in Seq(Nat) /\ Append(c, sn) \in Seq(Nat)
      BY DropLastType
    <2>2. OneMore(k) \in Nat /\ OneLess(k) \in Nat
      BY RasAssumption DEF OneMore, OneLess
    <2> QED
      BY <2>1, <2>2, Zenon DEF CallersAfter, KeptAfter
  (* The list of targets of the path keeps its type.                          *)
  <1>TargetTypes. ASSUME NEW t \in Seq(Target), NEW indirect, NEW sn \in Nat, NEW m \in BOOLEAN
                  PROVE  TargetsAfter(t, indirect, TargetOf(sn, m)) \in Seq(Target)
    <2> USE <1>TargetTypes
    <2>1. TargetOf(sn, m) \in Target
      BY Zenon DEF TargetOf, Target
    <2> QED
      BY <2>1 DEF TargetsAfter
  (* Each operation of the unit keeps its types: a prediction, ... *)
  <1>TypePredict. ASSUME BPTypeOK, NEW sn \in Nat, NEW type \in BranchType,
                         NEW cond \in BOOLEAN, NEW btbHit \in BOOLEAN, NEW hit \in BOOLEAN,
                         Predict(sn, type, cond, btbHit, hit)
                  PROVE  BPTypeOK'
    <2> USE <1>TypePredict
    <2> DEFINE op == RasOp(type, btbHit \/ ~requiresBTBHit)
    <2>1. op \in {"none", "push", "pop"}
      BY Zenon DEF RasOp
    <2>2. RasApply(ras, op, sn) \in [addrStack : [Entry -> Nat], tos : Entry]
      <3>1. RasRecord("none", ras) \in RasHistory
        BY RasAssumption, Zenon DEF RasRecord, RasHistory, BPTypeOK
      <3> QED
        BY <2>1, <3>1, RasTypes, Zenon DEF BPTypeOK
    <2>5. predHist' \in Seq(Record)
      <3>1. \E r \in Record : predHist' = Append(predHist, r)
        BY PredictRecord, Zenon DEF Predicted
      <3> QED
        BY <3>1 DEF BPTypeOK
    <2>6. ras' \in [addrStack : [Entry -> Nat], tos : Entry]
      BY <2>2, Zenon DEF Predict
    <2>7. IsTage(tage')
      <3>1. PICK b \in Bit : tage' = PushHistories(tage, AddrBit(sn), b)
        BY <1>BitTypes, Zenon DEF Predict
      <3>2. IsTage(tage) /\ AddrBit(sn) \in Bit
        BY <1>BitTypes, Zenon DEF BPTypeOK
      <3> QED
        BY <3>1, <3>2, <1>PushType, Zenon
    <2>8. ind' \in [ghr : Ghr, pathHist : Seq(Target)]
      <3>1. PICK b \in Bit :
              ind' = IndirectPush(ind, IsIndirectNoReturn(type), TargetOf(sn, FALSE), b)
        BY <1>BitTypes, Zenon DEF Predict
      <3>2. TargetOf(sn, FALSE) \in Target
        BY Zenon DEF TargetOf, Target
      <3>3. IsIndirectNoReturn(type) \in BOOLEAN
        BY DEF IsIndirectNoReturn
      <3>4. ind.ghr \in Ghr /\ ind \in [ghr : Ghr, pathHist : Seq(Target)]
        BY Zenon DEF BPTypeOK
      <3> QED
        BY <3>1, <3>2, <3>3, <3>4, <1>IndirectTypes, Zenon
    <2>9. callers' \in Seq(Nat) /\ kept' \in Nat
      <3>1. callers' = CallersAfter(callers, op, sn) /\ kept' = KeptAfter(kept, op)
        BY Zenon DEF Predict
      <3> QED
        BY <2>1, <3>1, <1>CallersTypes, Zenon DEF BPTypeOK
    <2>10. targets' \in Seq(Target)
      <3>1. targets' = TargetsAfter(targets, IsIndirectNoReturn(type), TargetOf(sn, FALSE))
        BY Zenon DEF Predict
      <3> QED
        BY <3>1, <1>TargetTypes, Zenon DEF BPTypeOK
    <2>11. requiresBTBHit' \in BOOLEAN /\ done' \in Seq([sn : Nat, taken : BOOLEAN])
      BY Zenon DEF Predict, BPTypeOK
    <2> QED
      BY <2>5, <2>6, <2>7, <2>8, <2>9, <2>10, <2>11, Zenon DEF BPTypeOK
  (* ... an undone prediction, ... *)
  <1>TypeSquash. ASSUME BPTypeOK, predHist # <<>>, SquashHistory
                 PROVE  BPTypeOK'
    <2> USE <1>TypeSquash
    <2>1. Newest \in Record
      BY DEF BPTypeOK, Newest
    <2>2. predHist' \in Seq(Record)
      BY PrefixType DEF SquashHistory, BPTypeOK
    <2>3. ras' \in [addrStack : [Entry -> Nat], tos : Entry]
      BY <2>1, RasTypes, Zenon DEF SquashHistory, BPTypeOK, Record
    <2>4. IsTage(tage')
      BY <2>1, <1>RestoreType, Zenon DEF SquashHistory, BPTypeOK, Record
    <2>5. ind' \in [ghr : Ghr, pathHist : Seq(Target)]
      <3>1. DropLast(ind.pathHist) \in Seq(Target)
        BY DropLastType, Zenon DEF BPTypeOK
      <3> QED
        BY <2>1, <3>1, Zenon DEF SquashHistory, BPTypeOK, Record, IndirectUndo
    <2>6. callers' \in Seq(Nat) /\ targets' \in Seq(Target)
      BY <2>1, Zenon DEF SquashHistory, Record
    <2>7. kept' \in Nat
      <3>1. KeptBefore(kept, Newest) \in Nat
        BY RasAssumption DEF BPTypeOK, KeptBefore, OneMore, OneLess
      <3> QED
        BY <3>1, Zenon DEF SquashHistory
    <2>8. requiresBTBHit' \in BOOLEAN /\ done' \in Seq([sn : Nat, taken : BOOLEAN])
      BY Zenon DEF SquashHistory, BPTypeOK
    <2> QED
      BY <2>2, <2>3, <2>4, <2>5, <2>6, <2>7, <2>8, Zenon DEF BPTypeOK
  (* ... a commit ... *)
  <1>TypeCommit. ASSUME BPTypeOK, predHist # <<>>, CommitBranch
                 PROVE  BPTypeOK'
    <2> USE <1>TypeCommit
    <2>1. Oldest \in Record
      BY DEF BPTypeOK, Oldest
    <2>2. predHist' \in Seq(Record)
      BY DEF CommitBranch, BPTypeOK
    <2>3. IsTage(tage')
      BY Zenon DEF CommitBranch, CommitHistories, BPTypeOK, IsTage
    <2>4. ind' \in [ghr : Ghr, pathHist : Seq(Target)]
      <3> DEFINE n == Len(ind.pathHist)
                 most == PathLength + SpeculativePathLength
      <3>1. ind.pathHist \in Seq(Target) /\ n \in Nat /\ most \in Nat \ {0}
        BY IndirectAssumption DEF BPTypeOK
      <3>2. n >= most => SubSeq(ind.pathHist, n - most + 2, n) \in Seq(Target)
        BY <3>1
      <3> QED
        BY <3>1, <3>2, Zenon DEF CommitBranch, Trim, BPTypeOK
    <2>5. done' \in Seq([sn : Nat, taken : BOOLEAN])
      BY <2>1 DEF CommitBranch, BPTypeOK, Outcome, Record
    <2>6. UNCHANGED <<ras, requiresBTBHit, callers, kept, targets>>
      BY Zenon DEF CommitBranch
    <2> QED
      BY <2>2, <2>3, <2>4, <2>5, <2>6, Zenon DEF BPTypeOK
  (* ... and a correction. *)
  <1>TypeCorrect. ASSUME BPTypeOK, predHist # <<>>, NEW taken \in BOOLEAN, Correct(taken)
                  PROVE  BPTypeOK'
    <2> USE <1>TypeCorrect
    <2> DEFINE h == Newest
               indirect == IsIndirectNoReturn(h.type)
               fix == taken /\ h.ras.op = "none"
               unfix == ~taken /\ h.ras.op # "none"
               op == RasOp(h.type, taken)
               undone == IndirectUndo(ind, indirect, h.ghr)
               stack == IF unfix THEN RasSquash(ras, h.ras) ELSE ras
    <2>1. h \in Record /\ predHist \in Seq(Record)
      BY DEF BPTypeOK, Newest
    <2>2. op \in {"none", "push", "pop"} /\ indirect \in BOOLEAN
      BY DEF RasOp, IsIndirectNoReturn
    <2>3. stack \in [addrStack : [Entry -> Nat], tos : Entry]
      BY <2>1, RasTypes, ZenonT(30) DEF BPTypeOK, Record
    <2>5. undone \in [ghr : Ghr, pathHist : Seq(Target)]
      <3>1. DropLast(ind.pathHist) \in Seq(Target)
        BY DropLastType, Zenon DEF BPTypeOK
      <3> QED
        BY <2>1, <3>1, Zenon DEF BPTypeOK, Record, IndirectUndo
    <2>6. predHist' \in Seq(Record)
      <3>1. \E r \in Record : predHist' = [predHist EXCEPT ![Len(predHist)] = r]
        BY CorrectRecord, Zenon DEF Corrected
      <3> QED
        BY <2>1, <3>1
    <2>7. ras' \in [addrStack : [Entry -> Nat], tos : Entry]
      <3>1. ras' = IF fix THEN RasApply(ras, op, h.sn) ELSE stack
        BY Zenon DEF Correct
      <3>2. RasApply(ras, op, h.sn) \in [addrStack : [Entry -> Nat], tos : Entry]
        BY <2>1, <2>2, RasTypes, ZenonT(30) DEF BPTypeOK, Record
      <3> QED
        BY <2>3, <3>1, <3>2, Zenon
    <2>8. IsTage(tage')
      <3>1. PICK b : tage' = PushHistories(RestoreHistState(tage, h.pathHist),
                                           AddrBit(h.sn), b)
        BY Zenon DEF Correct
      <3>2. AddrBit(h.sn) \in Bit /\ h.pathHist \in PathReg
        BY <2>1, <1>BitTypes, Zenon DEF Record
      <3>3. IsTage(RestoreHistState(tage, h.pathHist))
        BY <3>2, <1>RestoreType, Zenon DEF BPTypeOK
      <3> QED
        BY <3>1, <3>2, <3>3, <1>PushType, Zenon
    <2>9. ind' \in [ghr : Ghr, pathHist : Seq(Target)]
      <3>1. PICK b \in Bit : ind' = IndirectPush(undone, indirect, TargetOf(h.sn, TRUE), b)
        BY <1>BitTypes, Zenon DEF Correct
      <3>2. TargetOf(h.sn, TRUE) \in Target
        BY <2>1, Zenon DEF TargetOf, Target, Record
      <3>3. undone.ghr \in Ghr
        BY <2>5, Zenon
      <3> HIDE DEF undone, indirect, h
      <3> QED
        BY <2>2, <2>5, <3>1, <3>2, <3>3, <1>IndirectTypes, Zenon
    <2>10. callers' \in Seq(Nat)
      <3>1. CallersAfter(h.callers, op, h.sn) \in Seq(Nat)
        BY <2>1, <2>2, <1>CallersTypes, Zenon DEF Record
      <3> QED
        BY <3>1, Zenon DEF Correct, BPTypeOK
    <2>11. kept' \in Nat
      <3>1. KeptAfter(kept, op) \in Nat /\ KeptBefore(kept, h) \in Nat
        BY <2>2, RasAssumption DEF BPTypeOK, KeptAfter, KeptBefore, OneMore, OneLess
      <3> QED
        BY <3>1, Zenon DEF Correct, BPTypeOK
    <2>12. targets' \in Seq(Target)
      BY <2>1, <1>TargetTypes, Zenon DEF Correct, Record
    <2>13. requiresBTBHit' \in BOOLEAN /\ done' \in Seq([sn : Nat, taken : BOOLEAN])
      BY Zenon DEF Correct, BPTypeOK
    <2> QED
      BY <2>6, <2>7, <2>8, <2>9, <2>10, <2>11, <2>12, <2>13, Zenon DEF BPTypeOK
  <1>1. BPTypeOK /\ seqNum + 1 \in Nat /\ Types \subseteq BranchType
    BY FrontEndAssumption DEF BTypeOK
  <1>2. CASE \E type \in Types, cond, btbHit, hit \in BOOLEAN :
               Predict(seqNum + 1, type, cond, btbHit, hit)
    BY <1>1, <1>2, <1>TypePredict, Zenon
  <1>3. CASE predHist # <<>> /\ SquashHistory
    BY <1>1, <1>3, <1>TypeSquash, Zenon
  <1>4. CASE predHist # <<>> /\ \E taken \in BOOLEAN : Correct(taken)
    BY <1>1, <1>4, <1>TypeCorrect, Zenon
  <1>5. CASE predHist # <<>> /\ CommitBranch
    BY <1>1, <1>5, <1>TypeCommit, Zenon
  <1>6. CASE UNCHANGED bpvars
    BY <1>1, <1>6, Zenon DEF bpvars, pathvars, BPTypeOK
  <1> QED
    BY <1>2, <1>3, <1>4, <1>5, <1>6, StepCases, Zenon DEF BPStep

(* The end of a cycle changes nothing but the stages of the branches.       *)
LEMMA AdvanceType ==
    ASSUME NEW s \in Seq(Inst)
    PROVE  /\ Advance(s) \in Seq(Inst) /\ Len(Advance(s)) = Len(s)
           /\ \A i \in 1 .. Len(s) : /\ Advance(s)[i].sn = s[i].sn
                                     /\ Advance(s)[i].type = s[i].type
  <1> DEFINE step(x) == [x EXCEPT !.stage =
        CASE @ = "fetch" -> "decode" [] @ = "rename" -> "iew" [] OTHER -> @]
  <1>1. \A x \in Inst : step(x) \in Inst /\ step(x).sn = x.sn /\ step(x).type = x.type
    BY Zenon DEF Inst
  <1>2. Advance(s) = [i \in 1 .. Len(s) |-> step(s[i])]
    BY DEF Advance
  <1> HIDE DEF step
  <1>3. \A i \in 1 .. Len(s) : s[i] \in Inst
    OBVIOUS
  <1>4. Advance(s) \in [1 .. Len(s) -> Inst] /\ Len(s) \in Nat
    BY <1>1, <1>2, <1>3
  <1>5. Advance(s) \in Seq(Inst) /\ Len(Advance(s)) = Len(s)
    BY <1>4
  <1> QED
    BY <1>1, <1>2, <1>3, <1>5, Zenon

Staged(r, s, i, to) == r = [s EXCEPT ![i].stage = to]

(* A change of one branch's stage leaves the others, and what it is.        *)
LEMMA StageType ==
    ASSUME NEW s \in Seq(Inst), NEW i \in 1 .. Len(s), NEW to \in {"rename", "done"},
           NEW r, Staged(r, s, i, to)
    PROVE  /\ r \in Seq(Inst) /\ Len(r) = Len(s)
           /\ r[i].stage = to
           /\ \A j \in 1 .. Len(s) : r[j].sn = s[j].sn /\ r[j].type = s[j].type
  <1> DEFINE x == [s[i] EXCEPT !.stage = to]
  <1>1. s[i] \in Inst
    OBVIOUS
  <1>2. x \in Inst /\ x.sn = s[i].sn /\ x.type = s[i].type /\ x.stage = to
    BY <1>1, Zenon DEF Inst
  <1>3. r = [s EXCEPT ![i] = x]
    BY Zenon DEF Staged
  <1> HIDE DEF x
  <1> QED
    BY <1>2, <1>3

(* Type correctness of the branch prediction unit and of the front end.     *)
THEOREM BTypeCorrect == Spec => []BTypeOK
  (* Every step keeps the types of the pipeline.                              *)
  <1>FETypeStep. ASSUME BTypeOK, BPTypeOK', [Next]_bvars
                 PROVE  BTypeOK'
    <2> USE <1>FETypeStep
    <2> USE DEF BTypeOK
    <2>0. NoSignal \in Signal
      BY Zenon DEF NoSignal, Signal
    <2>c. ASSUME NEW left \in Seq(Inst), NEW info \in Signal, NextCycle(left, info)
          PROVE  BTypeOK'
      BY <2>c, AdvanceType, Zenon DEF NextCycle
    <2>1. CASE UNCHANGED bvars
      BY <2>1, Zenon DEF bvars, fevars
    <2>2. CASE BacTick
      BY <2>2, Zenon DEF BacTick, CommitStep, BacSquash, SquashStep, SquashCorrect, SquashEnd,
                  BacEnd, Goto, fevars
    <2>3. CASE FetchTick
      <3>1. CASE FetchEnd
        BY <3>1, Zenon DEF FetchEnd, Goto
      <3>2. ASSUME NEW type \in Types, NEW cond \in BOOLEAN, NEW btbHit \in BOOLEAN,
                   NEW hit \in BOOLEAN, FetchBranch(type, cond, btbHit, hit)
            PROVE  BTypeOK'
        <4>1. predHist'[Len(predHist')] \in Record
          <5>1. predHist' # <<>>
            <6>1. PICK r \in Record : predHist' = Append(predHist, r)
              <7>1. BPTypeOK /\ seqNum + 1 \in Nat /\ type \in BranchType
                    /\ Predict(seqNum + 1, type, cond, btbHit, hit)
                BY <3>2, FrontEndAssumption DEF FetchBranch
              <7> HIDE DEF BTypeOK
              <7> QED
                BY <7>1, PredictRecord, Zenon DEF Predicted
            <6>2. predHist \in Seq(Record)
              BY Zenon DEF BPTypeOK
            <6>3. Append(predHist, r) # <<>>
              BY <6>2
            <6> QED
              BY <6>1, <6>3, Zenon
          <5> QED
            BY <5>1, SMTT(20) DEF BPTypeOK
        <4>2. predHist'[Len(predHist')].predTaken \in BOOLEAN /\ type \in BranchType
          BY <4>1, FrontEndAssumption, Zenon DEF Record
        <4>3. insts' \in Seq(Inst)
          BY <3>2, <4>2 DEF FetchBranch, Inst
        <4> QED
          BY <3>2, <4>3 DEF FetchBranch
      <3> QED
        BY <2>3, <3>1, <3>2, Zenon DEF FetchTick
    <2>4. CASE DecodeTick
      <3>1. CASE DecodeEnd
        BY <2>0, <3>1, Zenon DEF DecodeEnd
      <3>2. ASSUME NEW i \in DOMAIN insts, NEW wrong \in BOOLEAN, DecodeBranch(i, wrong)
            PROVE  BTypeOK'
        <4>1. insts[i] \in Inst /\ i \in 1 .. Len(insts)
          OBVIOUS
        <4>2. Upto(i) \in Seq(Inst) /\ Len(Upto(i)) = i
          BY <4>1, PrefixType DEF Upto
        <4>3. insts' \in Seq(Inst)
          <5>1. CASE wrong
            <6>1. Staged(insts', Upto(i), i, "rename")
              BY <3>2, <5>1, Zenon DEF DecodeBranch, Staged
            <6>2. i \in 1 .. Len(Upto(i))
              BY <4>1, <4>2
            <6> QED
              BY <4>2, <6>1, <6>2, StageType, Zenon
          <5>2. CASE ~wrong
            <6>1. Staged(insts', insts, i, "rename")
              BY <3>2, <5>2, Zenon DEF DecodeBranch, Staged
            <6> QED
              BY <4>1, <6>1, StageType, Zenon
          <5> QED
            BY <5>1, <5>2, Zenon
        <4>4. decodeInfo' \in Signal
          BY <2>0, <3>2, <4>1, Zenon DEF DecodeBranch, Signal, Inst, IsUncondCtrl
        <4> QED
          BY <3>2, <4>3, <4>4, Zenon DEF DecodeBranch
      <3> QED
        BY <2>4, <3>1, <3>2, Zenon DEF DecodeTick
    <2>5. CASE CommitTick
      <3>1. CASE CommitIdle
        BY <2>0, <2>c, <3>1, Zenon DEF CommitIdle
      <3>2. ASSUME NEW i \in DOMAIN insts, ExecuteRight(i)
            PROVE  BTypeOK'
        <4>1. i \in 1 .. Len(insts)
          OBVIOUS
        <4>2. [insts EXCEPT ![i].stage = "done"] \in Seq(Inst)
          BY <4>1, StageType, ZenonT(30) DEF Staged
        <4> QED
          BY <2>0, <2>c, <3>2, <4>2, Zenon DEF ExecuteRight
      <3>3. ASSUME NEW i \in DOMAIN insts, Retire(i)
            PROVE  BTypeOK'
        <4>1. SubSeq(insts, i + 1, Len(insts)) \in Seq(Inst) /\ insts[i] \in Inst
          OBVIOUS
        <4>2. [NoSignal EXCEPT !.doneSeqNum = insts[i].sn] \in Signal
          BY <4>1, Zenon DEF NoSignal, Signal, Inst
        <4> QED
          BY <2>c, <3>3, <4>1, <4>2, Zenon DEF Retire
      <3>4. ASSUME NEW i \in DOMAIN insts, NEW branching \in BOOLEAN,
                   ExecuteWrong(i, branching)
            PROVE  BTypeOK'
        <4>1. Upto(i) \in Seq(Inst) /\ Len(Upto(i)) = i /\ i \in 1 .. i
              /\ insts[i] \in Inst
          BY PrefixType DEF Upto
        <4>2. [Upto(i) EXCEPT ![i].stage = "done"] \in Seq(Inst)
          BY <4>1, StageType, ZenonT(30) DEF Staged
        <4>3. [squash |-> TRUE, doneSeqNum |-> insts[i].sn, mispredict |-> TRUE,
               taken |-> CommitTaken(insts[i].type, branching)] \in Signal
          BY <4>1, Zenon DEF Signal, CommitTaken, Inst, IsUncondCtrl
        <4> QED
          BY <2>c, <3>4, <4>2, <4>3, Zenon DEF ExecuteWrong
      <3>5. ASSUME NEW n \in 0 .. Len(insts), SquashOther(n)
            PROVE  BTypeOK'
        <4>1. Upto(n) \in Seq(Inst)
          BY PrefixType, Zenon DEF Upto
        <4>2. (IF n = 0 THEN 0 ELSE insts[n].sn) \in Nat
          <5>1. n # 0 => insts[n] \in Inst
            OBVIOUS
          <5> QED
            BY <5>1, Zenon DEF Inst
        <4>3. [NoSignal EXCEPT !.squash = TRUE,
               !.doneSeqNum = IF n = 0 THEN 0 ELSE insts[n].sn] \in Signal
          BY <4>2, Zenon DEF NoSignal, Signal
        <4> QED
          BY <2>c, <3>5, <4>1, <4>3, Zenon DEF SquashOther
      <3> QED
        BY <2>5, <3>1, <3>2, <3>3, <3>4, <3>5, Zenon DEF CommitTick
    <2> QED
      BY <2>1, <2>2, <2>3, <2>4, <2>5, Zenon DEF Next
  (* The reset state is well typed. *)
  <1>TypeInit. Init => BTypeOK
    <2> SUFFICES ASSUME Init PROVE BTypeOK
      BY Zenon
    <2> USE DEF Init, BPInit
    <2>1. ras \in [addrStack : [Entry -> Nat], tos : Entry]
      BY RasAssumption DEF EmptyStack, Entry
    <2>2. IsTage(tage)
      BY TageAssumption, Zenon DEF NewHistory, IsTage, PathReg, Bit
    <2>3. ind \in [ghr : Ghr, pathHist : Seq(Target)]
      BY DEF NewIndirect, Ghr, Bit
    <2>4. NoSignal \in Signal
      BY Zenon DEF NoSignal, Signal
    <2> QED
      BY <2>1, <2>2, <2>3, <2>4 DEF BTypeOK, BPTypeOK
  <1>1. BTypeOK /\ [Next]_bvars => BTypeOK'
    BY BPTypeStep, <1>FETypeStep, Zenon
  <1> QED
    BY <1>1, <1>TypeInit, PTL DEF Spec

-----------------------------------------------------------------------------
(* The records keep their order and their operations whatever the unit      *)
(* does, provided that a correction of an unconditional branch takes it.    *)
RecordOps ==
    ~requiresBTBHit => \A i \in 1 .. Len(predHist) :
                           predHist[i].ras.op = RasOp(predHist[i].type, TRUE)

(* Sequence numbers are natural numbers.                                    *)
LEMMA NumbersNat ==
    ASSUME BTypeOK
    PROVE  /\ \A i \in 1 .. Len(predHist) : predHist[i].sn \in Nat
           /\ Squash.doneSeqNum \in Nat
  <1>1. \A i \in 1 .. Len(predHist) : predHist[i] \in Record
    BY DEF BTypeOK, BPTypeOK
  <1>2. \A r \in Record : r.sn \in Nat
    BY Zenon DEF Record
  <1>3. Squash \in Signal
    BY Zenon DEF Squash, BTypeOK
  <1> QED
    BY <1>1, <1>2, <1>3, Zenon DEF Signal

(* When nothing is left to undo the records are those of the branches.      *)
LEMMA RecordsSquashed ==
    ASSUME BTypeOK, RecordsInv, at = "squash", ~ToSquash
    PROVE  Same(0) /\ Len(insts) = Len(predHist)
  <1>1. predHist \in Seq(Record) /\ insts \in Seq(Inst)
    BY Zenon DEF BTypeOK, BPTypeOK
  <1>2. /\ Same(0)
        /\ \A i \in 1 .. Len(predHist) :
                i <= Len(insts) <=> predHist[i].sn <= Squash.doneSeqNum
    BY Zenon DEF RecordsInv
  <1>3. CASE predHist = <<>>
    BY <1>1, <1>2, <1>3 DEF Same
  <1>4. CASE predHist # <<>>
    <2>1. Len(predHist) \in 1 .. Len(predHist)
      BY <1>1, <1>4
    <2>2. predHist[Len(predHist)].sn \in Nat /\ Squash.doneSeqNum \in Nat
      BY <2>1, NumbersNat, Zenon
    <2>3. Len(predHist) <= Len(insts)
      BY <1>2, <1>4, <2>1, <2>2 DEF ToSquash, Newest
    <2> QED
      BY <1>1, <1>2, <2>3 DEF Same
  <1> QED
    BY <1>3, <1>4, Zenon

(* Type correctness with the records invariant. *)
THEOREM RecordsCorrect == Spec => [](BTypeOK /\ RecordsInv)
  (* BAC retires the records that commit has named (BPredUnit::update).       *)
  <1>RecordsCommitStep. ASSUME BTypeOK, RecordsInv, CommitStep
                        PROVE  RecordsInv'
    <2> USE <1>RecordsCommitStep
    <2>1. predHist \in Seq(Record) /\ predHist # <<>> /\ insts \in Seq(Inst)
      BY Zenon DEF CommitStep, ToCommit, BTypeOK, BPTypeOK
    <2>2. /\ predHist' \in Seq(Record) /\ Len(predHist') = Len(predHist) - 1
          /\ \A i \in 1 .. Len(predHist) - 1 : predHist'[i] = predHist[i + 1]
          /\ requiresBTBHit' = requiresBTBHit
      BY <2>1 DEF CommitStep, CommitBranch
    <2>3. at = "bac" /\ ~commitInfo.squash /\ UNCHANGED fevars
      BY Zenon DEF CommitStep, ToCommit
    <2>4. PICK d \in 0 .. Len(predHist) :
           /\ Same(d)
           /\ \A i \in 1 .. Len(predHist) :
                  i <= d <=> predHist[i].sn <= commitInfo.doneSeqNum
           /\ decodeInfo.squash => Corrects(decodeInfo)
           /\ ~decodeInfo.squash => d + Len(insts) = Len(predHist)
      BY <2>3, Zenon DEF RecordsInv
    <2>5. d >= 1 /\ d - 1 \in 0 .. Len(predHist')
      BY <2>1, <2>2, <2>4 DEF CommitStep, ToCommit, Oldest
    <2>6. Same(d - 1)'
      <3>1. insts' = insts /\ Len(insts) \in Nat /\ d + Len(insts) <= Len(predHist)
        BY <2>1, <2>3, <2>4 DEF Same, fevars
      <3>2. ASSUME NEW i \in 1 .. Len(insts)
            PROVE  predHist'[(d - 1) + i] = predHist[d + i]
        <4>1. (d - 1) + i \in 1 .. Len(predHist) - 1 /\ ((d - 1) + i) + 1 = d + i
          BY <2>4, <2>5, <3>1
        <4> QED
          BY <2>2, <4>1, Zenon
      <3>3. (d - 1) + Len(insts) <= Len(predHist')
        BY <2>2, <2>4, <3>1
      <3> QED
        BY <2>4, <3>1, <3>2, <3>3, Zenon DEF Same
    <2>7. \A i \in 1 .. Len(predHist') :
             i <= d - 1 <=> predHist'[i].sn <= commitInfo'.doneSeqNum
      BY <2>1, <2>2, <2>3, <2>4, <2>5, SMTT(20) DEF fevars
    <2>8. /\ decodeInfo'.squash => Corrects(decodeInfo)'
          /\ ~decodeInfo'.squash => (d - 1) + Len(insts') = Len(predHist')
      <3>1. decodeInfo' = decodeInfo /\ insts' = insts
        BY <2>3, Zenon DEF fevars
      <3>2. decodeInfo'.squash => Corrects(decodeInfo)'
        BY <2>1, <2>2, <2>4, <2>5, <3>1, Zenon DEF Corrects
      <3>3. ~decodeInfo'.squash => (d - 1) + Len(insts') = Len(predHist')
        BY <2>1, <2>2, <2>4, <3>1
      <3> QED
        BY <3>2, <3>3, Zenon
    <2>9. Ordered'
      <3>1. \A i \in 1 .. Len(predHist') : i + 1 \in 1 .. Len(predHist)
        BY <2>1, <2>2
      <3>2. \A i, j \in 1 .. Len(predHist') : i < j => i + 1 < j + 1
        OBVIOUS
      <3>3. seqNum' = seqNum
        BY <2>3, Zenon DEF fevars
      <3> QED
        BY <2>2, <3>1, <3>2, <3>3, Zenon DEF Ordered, RecordsInv
    <2>10. RecordOps'
      <3>1. \A i \in 1 .. Len(predHist') : i + 1 \in 1 .. Len(predHist)
        BY <2>1, <2>2
      <3> QED
        BY <2>2, <3>1, Zenon DEF RecordOps, RecordsInv
    <2>11. at' = "bac" /\ ~commitInfo'.squash
      BY <2>3, Zenon DEF fevars
    <2> QED
      BY <2>5, <2>6, <2>7, <2>8, <2>9, <2>10, <2>11, Zenon DEF RecordsInv, RecordOps
  (* The squash that BAC serves accounts for all the records of branches that *)
  (* have left the pipeline.                                                  *)
  <1>RecordsBacSquash. ASSUME BTypeOK, RecordsInv, BacSquash
                       PROVE  RecordsInv'
    <2> USE <1>RecordsBacSquash
    <2>1. /\ at = "bac" /\ at' = "squash" /\ ~ToCommit /\ Squash.squash
          /\ UNCHANGED <<predHist, requiresBTBHit, insts, decodeInfo, commitInfo, seqNum>>
      BY Zenon DEF BacSquash, Goto, bpvars
    <2>2. predHist \in Seq(Record) /\ insts \in Seq(Inst)
      BY Zenon DEF BTypeOK, BPTypeOK
    <2>3. /\ Same(0)
          /\ \A i \in 1 .. Len(predHist) :
                  i <= Len(insts) <=> predHist[i].sn <= Squash.doneSeqNum
          /\ Squash.mispredict => Corrects(Squash)
      <3>1. CASE commitInfo.squash
        BY <2>1, <3>1, Zenon DEF RecordsInv
      <3>2. CASE ~commitInfo.squash
        <4>1. Squash = decodeInfo
          BY <3>2, Zenon DEF Squash
        <4>2. PICK d \in 0 .. Len(predHist) :
                /\ Same(d)
                /\ \A i \in 1 .. Len(predHist) :
                      i <= d <=> predHist[i].sn <= commitInfo.doneSeqNum
                /\ Corrects(decodeInfo)
          BY <2>1, <3>2, <4>1, Zenon DEF RecordsInv
        <4>3. d = 0
          BY <2>1, <2>2, <3>2, <4>2 DEF ToCommit, Oldest
        <4>4. /\ Len(insts) \in 1 .. Len(predHist)
              /\ predHist[Len(insts)].sn = decodeInfo.doneSeqNum
          BY <2>2, <4>2, <4>3 DEF Same, Corrects
        <4>5. \A i \in 1 .. Len(predHist) : predHist[i].sn \in Nat
          BY DEF RecordsInv, Ordered, BTypeOK
        <4>6. \A i \in 1 .. Len(predHist) :
                  i <= Len(insts) <=> predHist[i].sn <= decodeInfo.doneSeqNum
          BY <2>2, <4>4, <4>5 DEF RecordsInv, Ordered
        <4> QED
          BY <4>1, <4>2, <4>3, <4>6, Zenon
      <3> QED
        BY <3>1, <3>2, Zenon
    <2>4. Squash' = Squash
      BY <2>1, Zenon DEF Squash
    <2>5. Ordered' /\ RecordOps'
      BY <2>1, Zenon DEF Ordered, RecordOps, RecordsInv
    <2>6. /\ Same(0)' /\ Squash'.squash
          /\ \A i \in 1 .. Len(predHist') :
                  i <= Len(insts') <=> predHist'[i].sn <= Squash'.doneSeqNum
          /\ Squash'.mispredict => Corrects(Squash)'
      BY <2>1, <2>3, <2>4, Zenon DEF Same, Corrects
    <2> QED
      BY <2>1, <2>5, <2>6, Zenon DEF RecordsInv, RecordOps
  (* Undoing a record that is younger than the squashed instruction.          *)
  <1>RecordsSquashStep. ASSUME BTypeOK, RecordsInv, SquashStep
                        PROVE  RecordsInv'
    <2> USE <1>RecordsSquashStep
    <2>1. /\ at = "squash" /\ ToSquash /\ UNCHANGED fevars
          /\ requiresBTBHit' = requiresBTBHit
          /\ predHist' = SubSeq(predHist, 1, Len(predHist) - 1)
      BY Zenon DEF SquashStep, SquashHistory
    <2>2. predHist \in Seq(Record) /\ insts \in Seq(Inst) /\ predHist # <<>>
      BY <2>1, Zenon DEF BTypeOK, BPTypeOK, ToSquash
    <2>3. Len(predHist) - 1 \in 0 .. Len(predHist)
      BY <2>2
    <2>4. /\ Len(predHist') = Len(predHist) - 1
          /\ \A i \in 1 .. Len(predHist) - 1 : predHist'[i] = predHist[i]
      BY <2>1, <2>2, <2>3, PrefixType, Zenon
    <2>5. /\ Same(0) /\ Squash.squash
          /\ \A i \in 1 .. Len(predHist) :
                  i <= Len(insts) <=> predHist[i].sn <= Squash.doneSeqNum
          /\ Squash.mispredict => Corrects(Squash)
      BY <2>1, Zenon DEF RecordsInv
    <2>6. Len(insts) \in 0 .. Len(predHist) - 1
      <3>1. predHist[Len(predHist)].sn > Squash.doneSeqNum
        BY <2>1, Zenon DEF ToSquash, Newest
      <3>2. predHist[Len(predHist)].sn \in Nat /\ Squash.doneSeqNum \in Nat
        BY <2>2, NumbersNat
      <3>3. ~(Len(predHist) <= Len(insts))
        BY <2>2, <2>5, <3>1, <3>2
      <3> QED
        BY <2>2, <3>3
    <2>7. /\ Same(0)'
          /\ \A i \in 1 .. Len(predHist') :
                  i <= Len(insts') <=> predHist'[i].sn <= Squash'.doneSeqNum
      <3>1. insts' = insts /\ Squash' = Squash
        BY <2>1, Zenon DEF fevars, Squash
      <3>2. \A i \in 1 .. Len(insts) : 0 + i = i /\ i \in 1 .. Len(predHist) - 1
        BY <2>2, <2>6
      <3> QED
        BY <2>2, <2>4, <2>5, <2>6, <3>1, <3>2 DEF Same
    <2>8. at' = "squash" /\ Squash'.squash /\ (Squash'.mispredict => Corrects(Squash)')
      BY <2>1, <2>5, Zenon DEF fevars, Squash, Corrects
    <2>9. Ordered' /\ RecordOps'
      <3>1. \A i \in 1 .. Len(predHist') : i \in 1 .. Len(predHist) - 1
                                           /\ i \in 1 .. Len(predHist)
        BY <2>2, <2>4
      <3>2. seqNum' = seqNum
        BY <2>1, Zenon DEF fevars
      <3>3. Ordered'
        BY <2>4, <3>1, <3>2, Zenon DEF Ordered, RecordsInv
      <3>4. RecordOps'
        BY <2>1, <2>4, <3>1, Zenon DEF RecordOps, RecordsInv
      <3> QED
        BY <3>3, <3>4, Zenon
    <2> QED
      BY <2>7, <2>8, <2>9, Zenon DEF RecordsInv, RecordOps
  (* The correction does not touch what a record is of.                       *)
  <1>RecordsSquashCorrect. ASSUME BTypeOK, RecordsInv, SquashCorrect
                           PROVE  RecordsInv'
    <2> USE <1>RecordsSquashCorrect
    <2>1. /\ at = "squash" /\ ~ToSquash /\ predHist # <<>> /\ Squash.mispredict
          /\ Correct(Squash.taken) /\ at' = "decode"
          /\ insts' = insts /\ seqNum' = seqNum /\ requiresBTBHit' = requiresBTBHit
      BY Zenon DEF SquashCorrect, Goto, Correct
    <2>2. predHist \in Seq(Record) /\ insts \in Seq(Inst) /\ Squash.taken \in BOOLEAN
          /\ BPTypeOK
      BY Zenon DEF BTypeOK, BPTypeOK, Squash, Signal
    <2> DEFINE n == Len(predHist)
               h == predHist[n]
    <2>3. n \in 1 .. n /\ h \in Record /\ Newest = h
      BY <2>1, <2>2 DEF Newest
    <2>b. PICK r \in Record : Corrected(r, Squash.taken)
      BY <2>1, <2>2, CorrectRecord, Zenon
    <2>a. predHist' = [predHist EXCEPT ![n] = r] /\ r.sn = h.sn /\ r.type = h.type
      BY <2>b, <2>3, Zenon DEF Corrected
    <2>4. r.ras.op = IF \/ Squash.taken /\ h.ras.op = "none"
                        \/ ~Squash.taken /\ h.ras.op # "none"
                     THEN RasOp(h.type, Squash.taken) ELSE h.ras.op
      <3>1. \A op, s : RasRecord(op, s).op = op
        BY Zenon DEF RasRecord
      <3>2. PICK s : r.ras = IF \/ Squash.taken /\ h.ras.op = "none"
                                \/ ~Squash.taken /\ h.ras.op # "none"
                             THEN RasRecord(RasOp(h.type, Squash.taken), s) ELSE h.ras
        BY <2>b, <2>3, Zenon DEF Corrected
      <3> QED
        BY <3>1, <3>2, Zenon
    <2>5. /\ Len(predHist') = n
          /\ \A i \in 1 .. n : /\ predHist'[i].sn = predHist[i].sn
                                /\ predHist'[i].type = predHist[i].type
          /\ predHist'[n] = r
          /\ \A i \in 1 .. n - 1 : predHist'[i] = predHist[i]
      BY <2>2, <2>3, <2>a
    <2>6. Same(0) /\ Len(insts) = n /\ Corrects(Squash)
      BY <2>1, RecordsSquashed, Zenon DEF RecordsInv
    <2>7. Same(0)' /\ Len(insts') = Len(predHist')
      <3>1. \A i \in 1 .. Len(insts) : 0 + i \in 1 .. n
        BY <2>2, <2>6
      <3> QED
        BY <2>1, <2>5, <2>6, <3>1, Zenon DEF Same
    <2>8. Ordered'
      BY <2>1, <2>5, Zenon DEF Ordered, RecordsInv
    <2>9. RecordOps'
      <3> SUFFICES ASSUME ~requiresBTBHit
                   PROVE  r.ras.op = RasOp(h.type, TRUE)
        <4>1. \A i \in 1 .. n : i = n \/ i \in 1 .. n - 1
          BY <2>3
        <4>2. r.type = h.type
          BY <2>a, Zenon
        <4> QED
          BY <2>1, <2>5, <4>1, <4>2, Zenon DEF RecordOps, RecordsInv
      <3>1. h.ras.op = RasOp(h.type, TRUE)
        BY <2>3, Zenon DEF RecordsInv
      <3>2. IsUncondCtrl(h.type) => Squash.taken
        <4>1. insts[n].type = h.type
          BY <2>3, <2>6 DEF Same
        <4> QED
          BY <2>6, <4>1, Zenon DEF Corrects
      <3> QED
        BY <2>2, <2>4, <3>1, <3>2, Zenon DEF RasOp, IsCall, IsUncondCtrl
    <2> QED
      BY <2>1, <2>7, <2>8, <2>9, Zenon DEF RecordsInv, RecordOps
  (* A squash without correction, and a cycle without squash.                 *)
  <1>RecordsSquashEnd. ASSUME BTypeOK, RecordsInv, SquashEnd
                       PROVE  RecordsInv'
    <2> USE <1>RecordsSquashEnd
    <2>1. /\ at = "squash" /\ ~ToSquash /\ at' = "decode"
          /\ UNCHANGED <<predHist, requiresBTBHit, insts, seqNum>>
      BY Zenon DEF SquashEnd, Goto, bpvars
    <2>2. Same(0)' /\ Len(insts') = Len(predHist')
      BY <2>1, RecordsSquashed, Zenon DEF Same
    <2> QED
      BY <2>1, <2>2, Zenon DEF RecordsInv, Ordered
  (* BAC ends its tick when no signal is left to handle.                      *)
  <1>RecordsBacEnd. ASSUME BTypeOK, RecordsInv, BacEnd
                    PROVE  RecordsInv'
    <2> USE <1>RecordsBacEnd
    <2>1. /\ at = "bac" /\ ~ToCommit /\ ~Squash.squash /\ at' = "fetch"
          /\ UNCHANGED <<predHist, requiresBTBHit, insts, seqNum>>
      BY Zenon DEF BacEnd, Goto, bpvars
    <2>2. ~commitInfo.squash /\ ~decodeInfo.squash
      BY <2>1, Zenon DEF Squash
    <2>3. predHist \in Seq(Record) /\ insts \in Seq(Inst)
      BY Zenon DEF BTypeOK, BPTypeOK
    <2>4. PICK d \in 0 .. Len(predHist) :
           /\ Same(d)
           /\ \A i \in 1 .. Len(predHist) :
                  i <= d <=> predHist[i].sn <= commitInfo.doneSeqNum
           /\ d + Len(insts) = Len(predHist)
      BY <2>1, <2>2, Zenon DEF RecordsInv
    <2>5. d = 0
      BY <2>1, <2>2, <2>3, <2>4 DEF ToCommit, Oldest
    <2>6. Same(0)' /\ Len(insts') = Len(predHist')
      BY <2>1, <2>3, <2>4, <2>5 DEF Same
    <2> QED
      BY <2>1, <2>6, Zenon DEF RecordsInv, Ordered
  (* A branch enters the pipeline and the records together.                   *)
  <1>RecordsFetch. ASSUME BTypeOK, RecordsInv, NEW type \in Types, NEW cond \in BOOLEAN,
                          NEW btbHit \in BOOLEAN, NEW hit \in BOOLEAN,
                          FetchBranch(type, cond, btbHit, hit)
                   PROVE  RecordsInv'
    <2> USE <1>RecordsFetch
    <2>1. /\ BPTypeOK /\ seqNum + 1 \in Nat /\ type \in BranchType
          /\ Predict(seqNum + 1, type, cond, btbHit, hit)
      BY FrontEndAssumption DEF FetchBranch, BTypeOK
    <2>b. PICK r \in Record :
            Predicted(r, seqNum + 1, type, RasOp(type, btbHit \/ ~requiresBTBHit))
      BY <2>1, PredictRecord, Zenon
    <2>2. /\ predHist' = Append(predHist, r)
          /\ r.sn = seqNum + 1 /\ r.type = type
          /\ r.ras = RasRecord(RasOp(type, btbHit \/ ~requiresBTBHit), ras)
      BY <2>b, Zenon DEF Predicted
    <2>3. /\ at = "fetch" /\ at' = "fetch" /\ seqNum' = seqNum + 1
          /\ requiresBTBHit' = requiresBTBHit
      BY <2>1, ZenonT(30) DEF FetchBranch, Predict
    <2>4. PICK x \in Inst : insts' = Append(insts, x) /\ x.sn = seqNum + 1 /\ x.type = type
      <3>1. predHist'[Len(predHist')].predTaken \in BOOLEAN
        BY <2>1, <2>2, SMTT(20) DEF BPTypeOK, Record
      <3> QED
        BY <2>1, <3>1, SMTT(20) DEF FetchBranch, Inst
    <2>5. predHist \in Seq(Record) /\ insts \in Seq(Inst) /\ seqNum \in Nat
      BY Zenon DEF BTypeOK, BPTypeOK
    <2>6. /\ Len(predHist') = Len(predHist) + 1 /\ Len(insts') = Len(insts) + 1
          /\ \A i \in 1 .. Len(predHist) : predHist'[i] = predHist[i]
          /\ \A i \in 1 .. Len(insts) : insts'[i] = insts[i]
          /\ predHist'[Len(predHist) + 1] = r /\ insts'[Len(insts) + 1] = x
      BY <2>2, <2>4, <2>5, SMTT(20)
    <2>7. Same(0) /\ Len(insts) = Len(predHist)
      BY <2>3, Zenon DEF RecordsInv
    <2>8. Same(0)' /\ Len(insts') = Len(predHist')
      <3>1. \A i \in 1 .. Len(insts) : insts[i].sn = predHist[i].sn
                                       /\ insts[i].type = predHist[i].type
        BY <2>5, <2>7, SMTT(20) DEF Same
      <3>2. \A i \in 1 .. Len(insts) + 1 : insts'[i].sn = predHist'[i].sn
                                           /\ insts'[i].type = predHist'[i].type
        BY <2>2, <2>4, <2>5, <2>6, <2>7, <3>1, SMTT(20)
      <3> QED
        BY <2>5, <2>6, <2>7, <3>2 DEF Same
    <2>9. Ordered'
      <3>1. Ordered
        BY Zenon DEF RecordsInv
      <3>2. \A i \in 1 .. Len(predHist) :
              predHist'[i].sn = predHist[i].sn /\ predHist[i].sn \in 1 .. seqNum
        BY <2>6, <3>1, Zenon DEF Ordered
      <3>3. predHist'[Len(predHist) + 1].sn = seqNum + 1
        BY <2>2, <2>6, Zenon
      <3>4. \A i \in 1 .. Len(predHist') : i = Len(predHist) + 1 \/ i \in 1 .. Len(predHist)
        BY <2>5, <2>6
      <3>5. \A i \in 1 .. Len(predHist') : predHist'[i].sn \in 1 .. seqNum'
        BY <2>3, <2>5, <3>2, <3>3, <3>4, SMTT(20)
      <3>6. ASSUME NEW i \in 1 .. Len(predHist'), NEW j \in 1 .. Len(predHist'), i < j
            PROVE  predHist'[i].sn < predHist'[j].sn
        <4>1. i \in 1 .. Len(predHist)
          BY <2>5, <2>6, <3>6
        <4>2. CASE j = Len(predHist) + 1
          <5>1. predHist'[i].sn \in 1 .. seqNum
            BY <3>2, <4>1, Zenon
          <5> QED
            BY <2>5, <3>3, <4>2, <5>1, SMTT(20)
        <4>3. CASE j \in 1 .. Len(predHist)
          BY <3>1, <3>2, <3>6, <4>1, <4>3, Zenon DEF Ordered
        <4> QED
          BY <3>4, <4>2, <4>3, Zenon
      <3> QED
        BY <3>5, <3>6, Zenon DEF Ordered
    <2>10. RecordOps'
      <3>1. r.ras.op = RasOp(type, btbHit \/ ~requiresBTBHit)
        BY <2>2 DEF RasRecord
      <3>2. \A i \in 1 .. Len(predHist') : i = Len(predHist) + 1 \/ i \in 1 .. Len(predHist)
        BY <2>5, <2>6
      <3>3. ~requiresBTBHit => r.ras.op = RasOp(r.type, TRUE)
        BY <2>2, <3>1, Zenon
      <3> QED
        BY <2>3, <2>6, <3>2, <3>3, ZenonT(30) DEF RecordOps, RecordsInv
    <2> QED
      BY <2>3, <2>8, <2>9, <2>10, Zenon DEF RecordsInv, RecordOps
  (* Decode moves a branch on, or squashes what is younger and says so.       *)
  <1>RecordsDecode. ASSUME BTypeOK, RecordsInv, NEW i \in DOMAIN insts, NEW wrong \in BOOLEAN,
                           DecodeBranch(i, wrong)
                    PROVE  RecordsInv'
    <2> USE <1>RecordsDecode
    <2>1. /\ at = "decode" /\ UNCHANGED <<predHist, requiresBTBHit, seqNum>>
          /\ Same(0) /\ Len(insts) = Len(predHist)
      BY Zenon DEF DecodeBranch, bpvars, RecordsInv
    <2>2. predHist \in Seq(Record) /\ insts \in Seq(Inst) /\ i \in 1 .. Len(insts)
      BY DEF BTypeOK, BPTypeOK
    <2>3. Ordered' /\ RecordOps'
      BY <2>1, Zenon DEF Ordered, RecordOps, RecordsInv
    <2>4. CASE ~wrong
      <3>1. at' = "decode" /\ insts' = [insts EXCEPT ![i].stage = "rename"]
        BY <2>4, Zenon DEF DecodeBranch
      <3>2. /\ Len(insts') = Len(insts)
            /\ \A j \in 1 .. Len(insts) : /\ insts'[j].sn = insts[j].sn
                                           /\ insts'[j].type = insts[j].type
        <4>1. Staged(insts', insts, i, "rename") /\ "rename" \in {"rename", "done"}
          BY <3>1, Zenon DEF Staged
        <4> QED
          BY <2>2, <4>1, StageType
      <3>3. Same(0)' /\ Len(insts') = Len(predHist')
        BY <2>1, <3>2, Zenon DEF Same
      <3> QED
        BY <2>3, <3>1, <3>3, Zenon DEF RecordsInv, RecordOps
    <2>5. CASE wrong
      <3>1. /\ at' = "commit" /\ insts' = [Upto(i) EXCEPT ![i].stage = "rename"]
            /\ decodeInfo' = [squash |-> TRUE, doneSeqNum |-> insts[i].sn,
                              mispredict |-> TRUE,
                              taken |-> insts[i].predTaken \/ IsUncondCtrl(insts[i].type)]
        BY <2>5, Zenon DEF DecodeBranch
      <3>2. /\ Upto(i) \in Seq(Inst) /\ Len(Upto(i)) = i
            /\ \A j \in 1 .. i : Upto(i)[j] = insts[j]
        BY <2>2, PrefixType DEF Upto
      <3>3. i \in 1 .. Len(Upto(i))
        BY <2>2, <3>2
      <3>4. /\ insts' \in Seq(Inst) /\ Len(insts') = i /\ insts'[i].stage = "rename"
            /\ \A j \in 1 .. i : /\ insts'[j].sn = insts[j].sn
                                  /\ insts'[j].type = insts[j].type
        <4>1. /\ insts' \in Seq(Inst) /\ Len(insts') = Len(Upto(i))
              /\ insts'[i].stage = "rename"
              /\ \A j \in 1 .. Len(Upto(i)) : /\ insts'[j].sn = Upto(i)[j].sn
                                               /\ insts'[j].type = Upto(i)[j].type
          <5>1. PICK u : u = Upto(i)
            BY Zenon
          <5>2. u \in Seq(Inst) /\ i \in 1 .. Len(u) /\ insts' = [u EXCEPT ![i].stage = "rename"]
            BY <3>1, <3>2, <3>3, <5>1, Zenon
          <5>3. Staged(insts', u, i, "rename") /\ "rename" \in {"rename", "done"}
            BY <5>2, Zenon DEF Staged
          <5> QED
            BY <5>1, <5>2, <5>3, StageType
        <4> QED
          BY <3>2, <4>1, Zenon
      <3>5. Same(0)'
        <4>1. \A j \in 1 .. i : j \in 1 .. Len(insts)
          BY <2>2
        <4> QED
          BY <2>1, <2>2, <3>4, <4>1 DEF Same
      <3>6. insts' # <<>>
        BY <2>2, <3>4
      <3>7. Corrects(decodeInfo)' /\ insts'[Len(insts')].stage = "rename"
        <4>1. Len(insts') = i /\ i \in 1 .. i
          BY <2>2, <3>4
        <4>2. insts'[i].sn = insts[i].sn /\ insts'[i].type = insts[i].type
          BY <3>4, <4>1, Zenon
        <4>3. decodeInfo'.doneSeqNum = insts[i].sn
              /\ (IsUncondCtrl(insts[i].type) => decodeInfo'.taken)
          BY <3>1, Zenon
        <4> QED
          BY <3>4, <3>6, <4>1, <4>2, <4>3, Zenon DEF Corrects
      <3> QED
        BY <2>3, <3>1, <3>5, <3>7, Zenon DEF RecordsInv, RecordOps
    <2> QED
      BY <2>4, <2>5, Zenon
  (* Fetch ends; decode has no more branches or stops for a squash.           *)
  <1>RecordsNoBranch. ASSUME BTypeOK, RecordsInv, FetchEnd \/ DecodeEnd
                      PROVE  RecordsInv'
    <2> USE <1>RecordsNoBranch
    <2>1. /\ at \in {"fetch", "decode"}
          /\ UNCHANGED <<predHist, requiresBTBHit, insts, seqNum>>
          /\ at' = "decode" \/ (at' = "commit" /\ ~decodeInfo'.squash)
      BY SMTT(20) DEF FetchEnd, DecodeEnd, Goto, bpvars, NoSignal
    <2>2. Same(0)' /\ Len(insts') = Len(predHist')
      BY <2>1, Zenon DEF RecordsInv, Same
    <2> QED
      BY <2>1, <2>2, Zenon DEF RecordsInv, Ordered
  (* A cycle in which nothing is squashed from commit: the first d branches   *)
  (* retire.                                                                  *)
  <1>RecordsRetire. ASSUME BTypeOK, RecordsInv, at = "commit", NEW d \in 0 .. Len(insts),
                           d # 0 => insts[d].stage # "rename",
                           NEW left \in Seq(Inst), Len(left) = Len(insts) - d,
                           \A j \in 1 .. Len(left) : /\ left[j].sn = insts[d + j].sn
                                                     /\ left[j].type = insts[d + j].type,
                           NEW info \in Signal, ~info.squash,
                           info.doneSeqNum = (IF d = 0 THEN 0 ELSE insts[d].sn),
                           NextCycle(left, info)
                    PROVE  RecordsInv'
    <2> USE <1>RecordsRetire
    <2>1. /\ at' = "bac" /\ commitInfo' = info /\ insts' = Advance(left)
          /\ UNCHANGED <<predHist, requiresBTBHit, seqNum, decodeInfo>>
      BY Zenon DEF NextCycle, bpvars
    <2>2. predHist \in Seq(Record) /\ insts \in Seq(Inst)
      BY Zenon DEF BTypeOK, BPTypeOK
    <2>3. /\ insts' \in Seq(Inst) /\ Len(insts') = Len(insts) - d
          /\ \A j \in 1 .. Len(insts) - d : /\ insts'[j].sn = insts[d + j].sn
                                             /\ insts'[j].type = insts[d + j].type
      <3>1. /\ insts' \in Seq(Inst) /\ Len(insts') = Len(left)
            /\ \A j \in 1 .. Len(left) : /\ insts'[j].sn = left[j].sn
                                          /\ insts'[j].type = left[j].type
        <4>1. insts' = Advance(left)
          BY <2>1, Zenon
        <4>2. /\ Advance(left) \in Seq(Inst) /\ Len(Advance(left)) = Len(left)
              /\ \A j \in 1 .. Len(left) : /\ Advance(left)[j].sn = left[j].sn
                                            /\ Advance(left)[j].type = left[j].type
          BY AdvanceType, Zenon
        <4> QED
          BY <4>1, <4>2, Zenon
      <3> QED
        BY <3>1, Zenon
    <2>4. /\ Len(insts) <= Len(predHist)
          /\ \A j \in 1 .. Len(insts) : /\ insts[j].sn = predHist[j].sn
                                         /\ insts[j].type = predHist[j].type
      BY <2>2, SMTT(20) DEF RecordsInv, Same
    <2>5. Same(d)' /\ d \in 0 .. Len(predHist')
      <3>1. \A j \in 1 .. Len(insts) - d : d + j \in 1 .. Len(insts)
        BY <2>2
      <3>2. \A j \in 1 .. Len(insts') : /\ insts'[j].sn = predHist'[d + j].sn
                                        /\ insts'[j].type = predHist'[d + j].type
        BY <2>1, <2>3, <2>4, <3>1, Zenon
      <3>3. d + Len(insts') <= Len(predHist') /\ d \in 0 .. Len(predHist')
        BY <2>1, <2>2, <2>3, <2>4
      <3> QED
        BY <3>2, <3>3, Zenon DEF Same
    <2>6. \A j \in 1 .. Len(predHist) : j <= d <=> predHist[j].sn <= info.doneSeqNum
      <3>1. \A j \in 1 .. Len(predHist) : predHist[j].sn \in Nat /\ predHist[j].sn > 0
        BY DEF RecordsInv, Ordered, BTypeOK
      <3>2. CASE d = 0
        BY <3>1, <3>2, SMTT(20)
      <3>3. CASE d # 0
        <4>1. info.doneSeqNum = predHist[d].sn /\ d \in 1 .. Len(predHist)
          BY <2>2, <2>4, <3>3, SMTT(20)
        <4> QED
          BY <2>2, <3>1, <4>1 DEF RecordsInv, Ordered
      <3> QED
        BY <3>2, <3>3, Zenon
    <2>7. decodeInfo.squash => Corrects(decodeInfo)'
      <3> SUFFICES ASSUME decodeInfo.squash
                   PROVE  Corrects(decodeInfo)'
        BY Zenon
      <3>1. Corrects(decodeInfo) /\ insts[Len(insts)].stage = "rename"
        BY Zenon DEF RecordsInv
      <3>2. d < Len(insts) /\ Len(insts) \in Nat
        BY <2>2, <3>1 DEF Corrects
      <3>3. Len(insts') \in 1 .. Len(insts) - d /\ d + Len(insts') = Len(insts)
        BY <2>3, <3>2
      <3>4. insts' # <<>>
        BY <2>3, <3>3, SMTT(20)
      <3> QED
        BY <2>1, <2>3, <3>1, <3>3, <3>4, Zenon DEF Corrects
    <2>8. ~decodeInfo.squash => d + Len(insts') = Len(predHist)
      BY <2>2, <2>3 DEF RecordsInv
    <2>9. Ordered' /\ RecordOps'
      BY <2>1, Zenon DEF Ordered, RecordOps, RecordsInv
    <2> QED
      BY <2>1, <2>5, <2>6, <2>7, <2>8, <2>9, Zenon DEF RecordsInv, RecordOps
  (* A cycle in which commit squashes all but the first n branches.           *)
  <1>RecordsSquash. ASSUME BTypeOK, RecordsInv, at = "commit", NEW n \in 0 .. Len(insts),
                           NEW left \in Seq(Inst), Len(left) = n,
                           \A j \in 1 .. n : left[j].sn = insts[j].sn /\ left[j].type = insts[j].type,
                           NEW info \in Signal, info.squash,
                           info.doneSeqNum = (IF n = 0 THEN 0 ELSE insts[n].sn),
                           info.mispredict => n # 0 /\ (IsUncondCtrl(insts[n].type) => info.taken),
                           NextCycle(left, info)
                    PROVE  RecordsInv'
    <2> USE <1>RecordsSquash
    <2>1. /\ at' = "bac" /\ commitInfo' = info /\ insts' = Advance(left)
          /\ UNCHANGED <<predHist, requiresBTBHit, seqNum, decodeInfo>>
      BY Zenon DEF NextCycle, bpvars
    <2>2. predHist \in Seq(Record) /\ insts \in Seq(Inst)
      BY Zenon DEF BTypeOK, BPTypeOK
    <2>3. /\ insts' \in Seq(Inst) /\ Len(insts') = n
          /\ \A j \in 1 .. n : /\ insts'[j].sn = insts[j].sn
                                /\ insts'[j].type = insts[j].type
      BY <2>1, AdvanceType, ZenonT(30)
    <2>4. /\ Len(insts) <= Len(predHist)
          /\ \A j \in 1 .. Len(insts) : /\ insts[j].sn = predHist[j].sn
                                         /\ insts[j].type = predHist[j].type
      BY <2>2, SMTT(20) DEF RecordsInv, Same
    <2>5. Same(0)'
      <3>1. \A j \in 1 .. n : j \in 1 .. Len(insts) /\ 0 + j = j
        BY <2>2, SMTT(20)
      <3> QED
        BY <2>1, <2>2, <2>3, <2>4, <3>1 DEF Same
    <2>6. \A j \in 1 .. Len(predHist) : j <= n <=> predHist[j].sn <= info.doneSeqNum
      <3>1. \A j \in 1 .. Len(predHist) : predHist[j].sn \in Nat /\ predHist[j].sn > 0
        BY SMTT(20) DEF RecordsInv, Ordered, BTypeOK
      <3>2. CASE n = 0
        BY <3>1, <3>2, SMTT(20)
      <3>3. CASE n # 0
        <4>1. info.doneSeqNum = predHist[n].sn /\ n \in 1 .. Len(predHist)
          BY <2>2, <2>4, <3>3, SMTT(20)
        <4> QED
          BY <2>2, <3>1, <4>1, SMTT(20) DEF RecordsInv, Ordered
      <3> QED
        BY <3>2, <3>3, Zenon
    <2>7. info.mispredict => Corrects(info)'
      <3>1. info.mispredict => n \in 1 .. n /\ insts' # <<>>
        BY <2>3, SMTT(20)
      <3> QED
        BY <2>3, <3>1, Zenon DEF Corrects
    <2>8. Squash' = info
      BY <2>1, Zenon DEF Squash
    <2>9. Ordered' /\ RecordOps'
      BY <2>1, ZenonT(30) DEF Ordered, RecordOps, RecordsInv
    <2>10. Squash'.mispredict => Corrects(Squash)'
      BY <2>1, <2>7, <2>8, Zenon DEF Corrects
    <2> QED
      BY <2>1, <2>3, <2>5, <2>6, <2>8, <2>9, <2>10, ZenonT(30) DEF RecordsInv, RecordOps
  (* What commit sends names branches of the pipeline.                        *)
  <1>RecordsCommitTick. ASSUME BTypeOK, RecordsInv, CommitTick
                        PROVE  RecordsInv'
    <2> USE <1>RecordsCommitTick
    <2>1. insts \in Seq(Inst) /\ NoSignal \in Signal /\ 0 \in 0 .. Len(insts)
      BY SMTT(20) DEF BTypeOK, NoSignal, Signal
    <2>2. CASE CommitIdle
      <3>1. NextCycle(insts, NoSignal) /\ ~NoSignal.squash /\ NoSignal.doneSeqNum = 0
        BY <2>2, Zenon DEF CommitIdle, NoSignal
      <3>3. at = "commit"
        BY <3>1, Zenon DEF NextCycle
      <3>2. Len(insts) = Len(insts) - 0 /\ \A j \in 1 .. Len(insts) : 0 + j = j
        BY <2>1, SMTT(20)
      <3> QED
        BY <2>1, <3>1, <3>2, <3>3, <1>RecordsRetire, Zenon
    <2>3. ASSUME NEW i \in DOMAIN insts, ExecuteRight(i)
          PROVE  RecordsInv'
      <3>1. PICK left : left = [insts EXCEPT ![i].stage = "done"]
        BY Zenon
      <3>2. i \in 1 .. Len(insts)
        BY <2>1
      <3>3. /\ left \in Seq(Inst) /\ Len(left) = Len(insts)
            /\ \A j \in 1 .. Len(insts) : /\ left[j].sn = insts[j].sn
                                           /\ left[j].type = insts[j].type
        <4>1. Staged(left, insts, i, "done") /\ "done" \in {"rename", "done"}
          BY <3>1, Zenon DEF Staged
        <4> QED
          BY <2>1, <3>2, <4>1, StageType
      <3>4. NextCycle(left, NoSignal) /\ ~NoSignal.squash /\ NoSignal.doneSeqNum = 0
        BY <2>3, <3>1, Zenon DEF ExecuteRight, NoSignal
      <3>5. Len(left) = Len(insts) - 0 /\ \A j \in 1 .. Len(left) : 0 + j = j
        BY <2>1, <3>3
      <3>6. at = "commit"
        BY <3>4, Zenon DEF NextCycle
      <3> QED
        BY <2>1, <3>3, <3>4, <3>5, <3>6, <1>RecordsRetire, ZenonT(30)
    <2>4. ASSUME NEW i \in DOMAIN insts, Retire(i)
          PROVE  RecordsInv'
      <3>1. i \in 1 .. Len(insts) /\ insts[i] \in Inst /\ i \in 1 .. i
        BY <2>1
      <3>2. PICK left : left = SubSeq(insts, i + 1, Len(insts))
        BY Zenon
      <3>3. PICK info : info = [NoSignal EXCEPT !.doneSeqNum = insts[i].sn]
        BY Zenon
      <3>4. info \in Signal /\ ~info.squash /\ info.doneSeqNum = insts[i].sn
        BY <3>1, <3>3, Zenon DEF NoSignal, Signal, Inst
      <3>5. /\ left \in Seq(Inst) /\ Len(left) = Len(insts) - i
            /\ \A j \in 1 .. Len(left) : left[j] = insts[i + j]
        BY <2>1, <3>1, <3>2
      <3>6. NextCycle(left, info) /\ insts[i].stage # "rename"
        BY <2>4, <3>1, <3>2, <3>3, Zenon DEF Retire
      <3>7. at = "commit"
        BY <3>6, Zenon DEF NextCycle
      <3>8. i \in 0 .. Len(insts) /\ i # 0
        BY <2>1, <3>1
      <3>9. info.doneSeqNum = (IF i = 0 THEN 0 ELSE insts[i].sn)
        BY <3>4, <3>8, Zenon
      <3>10. \A j \in 1 .. Len(left) : /\ left[j].sn = insts[i + j].sn
                                       /\ left[j].type = insts[i + j].type
        BY <3>5, Zenon
      <3> QED
        BY <3>4, <3>5, <3>6, <3>7, <3>8, <3>9, <3>10, <1>RecordsRetire, Zenon
    <2>5. ASSUME NEW i \in DOMAIN insts, NEW branching \in BOOLEAN,
                 ExecuteWrong(i, branching)
          PROVE  RecordsInv'
      <3>1. i \in 1 .. Len(insts) /\ insts[i] \in Inst
        BY <2>1
      <3>2. PICK u : u = Upto(i)
        BY Zenon
      <3>3. /\ u \in Seq(Inst) /\ Len(u) = i
            /\ \A j \in 1 .. i : u[j] = insts[j]
        BY <2>1, <3>1, <3>2, PrefixType DEF Upto
      <3>4. PICK left : left = [u EXCEPT ![i].stage = "done"]
        BY Zenon
      <3>5. i \in 1 .. Len(u)
        BY <3>1, <3>3, SMTT(20)
      <3>6. /\ left \in Seq(Inst) /\ Len(left) = Len(u)
            /\ \A j \in 1 .. Len(u) : left[j].sn = u[j].sn /\ left[j].type = u[j].type
        <4>1. Staged(left, u, i, "done") /\ "done" \in {"rename", "done"}
          BY <3>4, Zenon DEF Staged
        <4> QED
          BY <3>3, <3>5, <4>1, StageType
      <3>7. PICK info : info = [squash |-> TRUE, doneSeqNum |-> insts[i].sn,
                                mispredict |-> TRUE,
                                taken |-> CommitTaken(insts[i].type, branching)]
        BY ZenonT(30)
      <3>8. info \in Signal /\ info.squash /\ info.doneSeqNum = insts[i].sn
        BY <3>1, <3>7, Zenon DEF Signal, CommitTaken, Inst, IsUncondCtrl
      <3>9. IsUncondCtrl(insts[i].type) => info.taken
        BY <3>7, Zenon DEF CommitTaken
      <3>10. NextCycle(left, info)
        BY <2>5, <3>2, <3>4, <3>7, Zenon DEF ExecuteWrong
      <3>11. at = "commit"
        BY <3>10, Zenon DEF NextCycle
      <3>12. i \in 0 .. Len(insts) /\ i # 0
        BY <2>1, <3>1
      <3>13. info.doneSeqNum = (IF i = 0 THEN 0 ELSE insts[i].sn)
        BY <3>8, <3>12, Zenon
      <3>14. /\ Len(left) = i
             /\ \A j \in 1 .. i : /\ left[j].sn = insts[j].sn
                                   /\ left[j].type = insts[j].type
        BY <3>3, <3>6, Zenon
      <3> QED
        BY <3>6, <3>8, <3>9, <3>10, <3>11, <3>12, <3>13, <3>14, <1>RecordsSquash, Zenon
    <2>6. ASSUME NEW n \in 0 .. Len(insts), SquashOther(n)
          PROVE  RecordsInv'
      <3>1. PICK left : left = Upto(n)
        BY Zenon
      <3>2. /\ left \in Seq(Inst) /\ Len(left) = n
            /\ \A j \in 1 .. n : left[j] = insts[j]
        BY <2>1, <3>1, PrefixType, Zenon DEF Upto
      <3>3. PICK num : num = IF n = 0 THEN 0 ELSE insts[n].sn
        BY Zenon
      <3>4. num \in Nat
        <4>1. n # 0 => insts[n] \in Inst
          BY <2>1
        <4> QED
          BY <3>3, <4>1, Zenon DEF Inst
      <3>5. PICK info : info = [NoSignal EXCEPT !.squash = TRUE, !.doneSeqNum = num]
        BY Zenon
      <3>6. info \in Signal /\ info.squash /\ info.doneSeqNum = num /\ ~info.mispredict
        BY <3>4, <3>5, Zenon DEF NoSignal, Signal
      <3>7. NextCycle(left, info)
        BY <2>6, <3>1, <3>3, <3>5, Zenon DEF SquashOther
      <3>8. at = "commit"
        BY <3>7, Zenon DEF NextCycle
      <3> QED
        BY <2>1, <3>2, <3>3, <3>6, <3>7, <3>8, <1>RecordsSquash, Zenon
    <2> QED
      BY <2>2, <2>3, <2>4, <2>5, <2>6, Zenon DEF CommitTick
  (* There is neither a record nor a branch at the start.                     *)
  <1>RecordsInit. Init => RecordsInv
    <2> SUFFICES ASSUME Init PROVE RecordsInv
      BY Zenon
    <2>1. /\ predHist = <<>> /\ insts = <<>> /\ at = "bac"
          /\ ~commitInfo.squash /\ ~decodeInfo.squash
      BY Zenon DEF Init, BPInit, NoSignal
    <2>2. Len(predHist) = 0 /\ Len(insts) = 0
      BY <2>1, Zenon
    <2>3. Same(0) /\ 0 + Len(insts) = Len(predHist) /\ 0 \in 0 .. Len(predHist)
      BY <2>2 DEF Same
    <2> QED
      BY <2>1, <2>2, <2>3 DEF RecordsInv, Ordered
  (* Every step keeps the records in step with the branches.                  *)
  <1>RecordsStep. ASSUME BTypeOK, RecordsInv, [Next]_bvars
                  PROVE  RecordsInv'
    <2> USE <1>RecordsStep
    <2>1. CASE UNCHANGED bvars
      BY <2>1, ZenonT(30) DEF bvars, bpvars, fevars, RecordsInv, Ordered, Same, Corrects, Squash
    <2>2. CASE BacTick
      BY <2>2, <1>RecordsCommitStep, <1>RecordsBacSquash, <1>RecordsSquashStep,
         <1>RecordsSquashCorrect, <1>RecordsSquashEnd, <1>RecordsBacEnd, Zenon DEF BacTick
    <2>3. CASE FetchTick
      BY <2>3, <1>RecordsFetch, <1>RecordsNoBranch, Zenon DEF FetchTick
    <2>4. CASE DecodeTick
      BY <2>4, <1>RecordsDecode, <1>RecordsNoBranch, Zenon DEF DecodeTick
    <2>5. CASE CommitTick
      BY <2>5, <1>RecordsCommitTick, Zenon
    <2> QED
      BY <2>1, <2>2, <2>3, <2>4, <2>5, Zenon DEF Next
  <1>1. RecordsInv /\ BTypeOK /\ [Next]_bvars => RecordsInv'
    BY <1>RecordsStep, Zenon
  <1> QED
    BY <1>1, <1>RecordsInit, BTypeCorrect, PTL DEF Spec

(* Whatever squash from decode or commit overtakes another, when fetch goes *)
(* on the unit holds one record for each branch in the pipeline and no      *)
(* other (BAC::checkAndUpdateBPUSignals).                                   *)
THEOREM RecordsTheorem == Spec => []RecordsAreBranches
  <1>1. BTypeOK /\ RecordsInv => RecordsAreBranches
    <2> SUFFICES ASSUME BTypeOK, RecordsInv, at = "fetch"
                 PROVE  /\ Len(predHist) = Len(insts)
                        /\ \A i \in DOMAIN insts : predHist[i].sn = insts[i].sn
      BY Zenon DEF RecordsAreBranches
    <2>1. Same(0) /\ Len(insts) = Len(predHist) /\ DOMAIN insts = 1 .. Len(insts)
      BY DEF RecordsInv, BTypeOK
    <2>2. \A i \in 1 .. Len(insts) : 0 + i = i
      OBVIOUS
    <2> QED
      BY <2>1, <2>2, Zenon DEF Same
  <1> QED
    BY <1>1, RecordsCorrect, PTL

(* The record that a squash corrects, the newest one left, is that of the   *)
(* mispredicted branch (BPredUnit::squash).                                 *)
THEOREM CorrectsTheorem == Spec => []CorrectsMispredicted
  <1>1. BTypeOK /\ RecordsInv => CorrectsMispredicted
    <2> SUFFICES ASSUME BTypeOK, RecordsInv, at = "squash", ~ToSquash, Squash.mispredict
                 PROVE  predHist # <<>> /\ Newest.sn = Squash.doneSeqNum
      BY Zenon DEF CorrectsMispredicted
    <2>1. Same(0) /\ Len(insts) = Len(predHist) /\ Corrects(Squash)
      BY RecordsSquashed, Zenon DEF RecordsInv
    <2>2. predHist \in Seq(Record) /\ insts \in Seq(Inst)
      BY Zenon DEF BTypeOK, BPTypeOK
    <2>3. Len(insts) \in 1 .. Len(insts) /\ 0 + Len(insts) = Len(insts)
      BY <2>1, <2>2 DEF Corrects
    <2>4. predHist # <<>>
      BY <2>1, <2>2, <2>3
    <2> QED
      BY <2>1, <2>3, <2>4, Zenon DEF Same, Corrects, Newest
  <1> QED
    BY <1>1, RecordsCorrect, PTL

(* An unconditional call or return has moved the return address stack by    *)
(* the time it commits, unless it needs a BTB hit to be seen                *)
(* (ReturnAddrStack::commit).                                               *)
THEOREM CommitsTheorem == Spec => []CommitsWithRecord
  <1>1. BTypeOK /\ RecordsInv => CommitsWithRecord
    <2> SUFFICES ASSUME BTypeOK, RecordsInv, ToCommit, ~requiresBTBHit
                 PROVE  Oldest.ras.op = RasOp(Oldest.type, TRUE)
      BY Zenon DEF CommitsWithRecord
    <2>1. 1 \in 1 .. Len(predHist)
      BY DEF ToCommit, BTypeOK, BPTypeOK
    <2> QED
      BY <2>1, Zenon DEF RecordsInv, Oldest
  <1> QED
    BY <1>1, RecordsCorrect, PTL

-----------------------------------------------------------------------------
RasState == [addrStack : [Entry -> Nat], tos : Entry]
Op == {"none", "push", "pop"}

SlotOf(t, k) == IF k <= t THEN t - k ELSE t - k + NumEntries

(* The first n entries from the top are the last n callers. *)
Stack(s, c, n) ==
    /\ n \in Nat /\ n <= NumEntries /\ n <= Len(c)
    /\ \A i \in 0 .. n - 1 : s.addrStack[SlotOf(s.tos, i)] = c[Len(c) - i]

TosAfter(t, op) ==
    CASE op = "push" -> IncrTos(t) [] op = "pop" -> DecrTos(t) [] OTHER -> t

-----------------------------------------------------------------------------
(* The top moves round the buffer, and every entry below it one further     *)
(* down or up.                                                              *)
LEMMA SlotMoves ==
    ASSUME NEW t \in Entry
    PROVE  /\ IncrTos(t) \in Entry /\ DecrTos(t) \in Entry
           /\ DecrTos(IncrTos(t)) = t
           /\ \A i \in 0 .. NumEntries - 1 : SlotOf(t, i) \in Entry
           /\ SlotOf(t, 0) = t
           /\ \A i \in 1 .. NumEntries - 1 :
                /\ SlotOf(t, i) = SlotOf(DecrTos(t), i - 1)
                /\ SlotOf(IncrTos(t), i) = SlotOf(t, i - 1)
                /\ SlotOf(t, i) # t
  <1>1. NumEntries \in Nat /\ NumEntries >= 1
    BY RasAssumption
  <1>2. t \in Nat /\ t < NumEntries
    BY <1>1 DEF Entry
  <1>3. /\ IncrTos(t) \in Entry /\ DecrTos(t) \in Entry
        /\ DecrTos(IncrTos(t)) = t
    BY <1>1, <1>2 DEF Entry, IncrTos, DecrTos
  <1>4. \A i \in 0 .. NumEntries - 1 : SlotOf(t, i) \in Entry
    BY <1>1, <1>2 DEF Entry, SlotOf
  <1>5. SlotOf(t, 0) = t
    BY <1>2 DEF SlotOf
  <1>6. ASSUME NEW i \in 1 .. NumEntries - 1
        PROVE  /\ SlotOf(t, i) = SlotOf(DecrTos(t), i - 1)
               /\ SlotOf(IncrTos(t), i) = SlotOf(t, i - 1)
               /\ SlotOf(t, i) # t
    BY <1>1, <1>2 DEF SlotOf, IncrTos, DecrTos
  <1> QED
    BY <1>3, <1>4, <1>5, <1>6, Zenon

(* Without its last element a sequence is one shorter.                      *)
LEMMA DropLastLen ==
    ASSUME NEW S, NEW c \in Seq(S), Len(c) >= 1
    PROVE  /\ DropLast(c) \in Seq(S) /\ Len(DropLast(c)) = Len(c) - 1
           /\ \A i \in 1 .. Len(c) - 1 : DropLast(c)[i] = c[i]
  <1>1. c # <<>>
    OBVIOUS
  <1> QED
    BY <1>1, DropLastType, Zenon

(* A call or a return moves the stack with the callers.                     *)
LEMMA StackApply ==
    ASSUME NEW s \in RasState, NEW c \in Seq(Nat), NEW n, Stack(s, c, n),
           NEW op \in Op, NEW sn \in Nat
    PROVE  /\ Stack(RasApply(s, op, sn), CallersAfter(c, op, sn), KeptAfter(n, op))
           /\ RasApply(s, op, sn).tos = TosAfter(s.tos, op)
  <1>1. /\ NumEntries \in Nat /\ NumEntries >= 1
        /\ n \in Nat /\ n <= NumEntries /\ n <= Len(c) /\ Len(c) \in Nat
    BY RasAssumption DEF Stack
  <1>2. PICK t : t = s.tos
    BY Zenon
  <1>3. t \in Entry /\ s.addrStack \in [Entry -> Nat]
    BY <1>2, Zenon DEF RasState
  <1>4. \A i \in 0 .. n - 1 : s.addrStack[SlotOf(t, i)] = c[Len(c) - i]
    BY <1>2, Zenon DEF Stack
  <1>5. CASE op = "push"
    <2>1. PICK s2 : s2 = Push(s, sn)
      BY Zenon
    <2>2. PICK c2 : c2 = Append(c, sn)
      BY Zenon
    <2>3. PICK n2 : n2 = OneMore(n)
      BY Zenon
    <2>4. /\ s2.tos = IncrTos(t) /\ s2.addrStack[IncrTos(t)] = sn
          /\ \A e \in Entry : e # IncrTos(t) => s2.addrStack[e] = s.addrStack[e]
      BY <1>2, <1>3, <2>1, SlotMoves, Zenon DEF Push
    <2>5. Len(c2) = Len(c) + 1 /\ c2[Len(c) + 1] = sn
          /\ \A i \in 1 .. Len(c) : c2[i] = c[i]
      BY <2>2
    <2>6. n2 \in Nat /\ n2 <= NumEntries /\ n2 <= n + 1 /\ n2 <= Len(c2)
      BY <1>1, <2>3, <2>5 DEF OneMore
    <2>7. ASSUME NEW i \in 0 .. n2 - 1
          PROVE  s2.addrStack[SlotOf(s2.tos, i)] = c2[Len(c2) - i]
      <3>1. CASE i = 0
        <4>1. SlotOf(IncrTos(t), 0) = IncrTos(t) /\ (Len(c) + 1) - 0 = Len(c) + 1
          BY <1>1, <1>3, SlotMoves, SMTT(20)
        <4> QED
          BY <2>4, <2>5, <3>1, <4>1, Zenon
      <3>2. CASE i # 0
        <4>1. /\ i \in 1 .. NumEntries - 1 /\ i - 1 \in 0 .. n - 1
              /\ (Len(c) + 1) - i = Len(c) - (i - 1)
              /\ Len(c) - (i - 1) \in 1 .. Len(c)
              /\ i \in 0 .. NumEntries - 1
          BY <1>1, <2>6, <3>2
        <4>2. IncrTos(t) \in Entry
          BY <1>3, SlotMoves, Zenon
        <4>3. /\ SlotOf(IncrTos(t), i) = SlotOf(t, i - 1)
              /\ SlotOf(IncrTos(t), i) # IncrTos(t)
              /\ SlotOf(IncrTos(t), i) \in Entry
          BY <1>3, <4>1, <4>2, SlotMoves, Zenon
        <4>4. s2.addrStack[SlotOf(IncrTos(t), i)] = c[Len(c) - (i - 1)]
          BY <1>4, <2>4, <4>1, <4>3, ZenonT(30)
        <4> QED
          BY <2>4, <2>5, <4>1, <4>4, Zenon
      <3> QED
        BY <3>1, <3>2, Zenon
    <2>8. Stack(s2, c2, n2)
      BY <2>6, <2>7, Zenon DEF Stack
    <2> QED
      BY <1>2, <1>5, <2>1, <2>2, <2>3, <2>4, <2>8, Zenon
         DEF RasApply, CallersAfter, KeptAfter, TosAfter
  <1>6. CASE op = "pop"
    <2>1. PICK s2 : s2 = Pop(s)
      BY Zenon
    <2>2. PICK c2 : c2 = DropLast(c)
      BY Zenon
    <2>3. PICK n2 : n2 = OneLess(n)
      BY Zenon
    <2>4. s2.tos = DecrTos(t) /\ s2.addrStack = s.addrStack
      BY <1>2, <2>1, Zenon DEF Pop, RasState
    <2>5. CASE n = 0
      <3>1. n2 = 0 /\ Len(c2) \in Nat
        <4>1. Len(c2) \in Nat
          BY <2>2 DEF DropLast
        <4> QED
          BY <2>3, <2>5, <4>1, Zenon DEF OneLess
      <3>2. Stack(s2, c2, n2)
        BY <1>1, <3>1 DEF Stack
      <3> QED
        BY <1>2, <1>6, <2>1, <2>2, <2>3, <2>4, <3>2, Zenon
           DEF RasApply, CallersAfter, KeptAfter, TosAfter
    <2>6. CASE n # 0
      <3>1. n2 = n - 1 /\ n2 \in Nat /\ n2 <= NumEntries
        BY <1>1, <2>3, <2>6 DEF OneLess
      <3>2. /\ Len(c2) = Len(c) - 1 /\ n2 <= Len(c2)
            /\ \A i \in 1 .. Len(c) - 1 : c2[i] = c[i]
        <4>1. Len(c) >= 1
          BY <1>1, <2>6
        <4>2. /\ Len(c2) = Len(c) - 1
              /\ \A i \in 1 .. Len(c) - 1 : c2[i] = c[i]
          BY <2>2, <4>1, DropLastLen, Zenon
        <4> QED
          BY <1>1, <3>1, <4>2
      <3>3. ASSUME NEW i \in 0 .. n2 - 1
            PROVE  s2.addrStack[SlotOf(s2.tos, i)] = c2[Len(c2) - i]
        <4>1. /\ i + 1 \in 1 .. NumEntries - 1 /\ i + 1 \in 0 .. n - 1
              /\ (i + 1) - 1 = i /\ (Len(c) - 1) - i = Len(c) - (i + 1)
              /\ Len(c) - (i + 1) \in 1 .. Len(c) - 1
          BY <1>1, <3>1, SMTT(20)
        <4>2. SlotOf(t, i + 1) = SlotOf(DecrTos(t), i)
          BY <1>3, <4>1, SlotMoves, SMTT(20)
        <4>3. s.addrStack[SlotOf(t, i + 1)] = c[Len(c) - (i + 1)]
          BY <1>4, <4>1, Zenon
        <4> QED
          BY <2>4, <3>2, <4>1, <4>2, <4>3, Zenon
      <3>4. Stack(s2, c2, n2)
        BY <3>1, <3>2, <3>3, Zenon DEF Stack
      <3> QED
        BY <1>2, <1>6, <2>1, <2>2, <2>3, <2>4, <3>4, Zenon
           DEF RasApply, CallersAfter, KeptAfter, TosAfter
    <2> QED
      BY <2>5, <2>6, Zenon
  <1>7. CASE op = "none"
    BY <1>7, Zenon DEF RasApply, CallersAfter, KeptAfter, TosAfter
  <1> QED
    BY <1>5, <1>6, <1>7, Zenon DEF Op

(* What a return found is its caller, if the stack still held it. *)
Found(h) ==
    h.ras.op = "pop" /\ h.kept >= 1 =>
        Len(h.callers) >= 1 /\ h.ras.entry = h.callers[Len(h.callers)]

(* The stack and the callers after the branch of the record. *)
Follows(h, t, c) ==
    t = TosAfter(h.ras.tos, h.ras.op) /\ c = CallersAfter(h.callers, h.ras.op, h.sn)

(* ReturnAddrStack::squash goes back to the stack before the branch.        *)
LEMMA StackUndo ==
    ASSUME NEW s \in RasState, NEW c, NEW n, Stack(s, c, n),
           NEW h \in Record, Found(h), Follows(h, s.tos, c)
    PROVE  /\ Stack(RasSquash(s, h.ras), h.callers, KeptBefore(n, h))
           /\ RasSquash(s, h.ras).tos = h.ras.tos
  <1>1. /\ h.callers \in Seq(Nat) /\ h.sn \in Nat /\ h.ras \in RasHistory /\ h.kept \in Nat
    BY Zenon DEF Record
  <1>2. /\ h.ras.op \in Op /\ h.ras.tos \in Entry /\ h.ras.entry \in Nat
    BY <1>1, Zenon DEF RasHistory, Op
  <1>3. PICK t : t = h.ras.tos
    BY Zenon
  <1>4. PICK d : d = h.callers
    BY Zenon
  <1>5. /\ NumEntries \in Nat /\ NumEntries >= 1
        /\ n \in Nat /\ n <= NumEntries /\ n <= Len(c)
        /\ s.addrStack \in [Entry -> Nat] /\ t \in Entry
        /\ d \in Seq(Nat) /\ Len(d) \in Nat
    BY <1>1, <1>2, <1>3, <1>4, RasAssumption DEF Stack, RasState
  <1>6. \A i \in 0 .. n - 1 : s.addrStack[SlotOf(s.tos, i)] = c[Len(c) - i]
    BY Zenon DEF Stack
  <1>7. CASE h.ras.op = "push"
    <2>1. s.tos = IncrTos(t) /\ c = Append(d, h.sn)
      BY <1>3, <1>4, <1>7, Zenon DEF Follows, TosAfter, CallersAfter
    <2>2. PICK s2 : s2 = Pop(s)
      BY Zenon
    <2>3. PICK n2 : n2 = OneLess(n)
      BY Zenon
    <2>4. s2.tos = t /\ s2.addrStack = s.addrStack
      BY <1>5, <2>1, <2>2, SlotMoves, Zenon DEF Pop, RasState
    <2>5. /\ Len(c) = Len(d) + 1
          /\ \A i \in 1 .. Len(d) : c[i] = d[i]
      BY <1>1, <1>5, <2>1, SMTT(20)
    <2>6. n2 \in Nat /\ n2 <= NumEntries /\ n2 <= Len(d) /\ (n2 # 0 => n2 = n - 1)
      BY <1>5, <2>3, <2>5, SMTT(20) DEF OneLess
    <2>7. ASSUME NEW i \in 0 .. n2 - 1
          PROVE  s2.addrStack[SlotOf(s2.tos, i)] = d[Len(d) - i]
      <3>1. /\ i + 1 \in 1 .. NumEntries - 1 /\ i + 1 \in 0 .. n - 1 /\ (i + 1) - 1 = i
            /\ (Len(d) + 1) - (i + 1) = Len(d) - i /\ Len(d) - i \in 1 .. Len(d)
        BY <1>5, <2>6, SMTT(20)
      <3>2. SlotOf(IncrTos(t), i + 1) = SlotOf(t, i)
        BY <1>5, <3>1, SlotMoves, SMTT(20)
      <3>3. s.addrStack[SlotOf(s.tos, i + 1)] = c[Len(c) - (i + 1)]
        BY <1>6, <3>1, Zenon
      <3> QED
        BY <2>1, <2>4, <2>5, <3>1, <3>2, <3>3, Zenon
    <2>8. Stack(s2, d, n2)
      BY <2>6, <2>7, Zenon DEF Stack
    <2> QED
      BY <1>3, <1>4, <1>7, <2>2, <2>3, <2>4, <2>8, Zenon DEF RasSquash, KeptBefore
  <1>8. CASE h.ras.op = "pop"
    <2>1. s.tos = DecrTos(t) /\ c = DropLast(d)
      BY <1>3, <1>4, <1>8, Zenon DEF Follows, TosAfter, CallersAfter
    <2>2. PICK s2 : s2 = Restore(s, t, h.ras.entry)
      BY Zenon
    <2>3. /\ s2.tos = t /\ s2.addrStack[t] = h.ras.entry
          /\ \A e \in Entry : e # t => s2.addrStack[e] = s.addrStack[e]
      BY <1>5, <2>2, Zenon DEF Restore
    <2>4. CASE h.kept = 0
      <3>1. Stack(s2, d, 0)
        BY <1>5 DEF Stack
      <3> QED
        BY <1>3, <1>4, <1>8, <2>2, <2>3, <2>4, <3>1, Zenon DEF RasSquash, KeptBefore
    <2>5. CASE h.kept # 0
      <3>1. PICK n2 : n2 = OneMore(n)
        BY Zenon
      <3>2. Len(d) >= 1 /\ h.ras.entry = d[Len(d)]
        BY <1>1, <1>4, <1>8, <2>5, SMTT(20) DEF Found
      <3>3. /\ Len(c) = Len(d) - 1
            /\ \A i \in 1 .. Len(d) - 1 : c[i] = d[i]
        BY <1>5, <2>1, <3>2, DropLastLen, Zenon
      <3>4. n2 \in Nat /\ n2 <= NumEntries /\ n2 <= Len(d) /\ n2 <= n + 1
        BY <1>5, <3>1, <3>3, SMTT(20) DEF OneMore
      <3>5. ASSUME NEW i \in 0 .. n2 - 1
            PROVE  s2.addrStack[SlotOf(s2.tos, i)] = d[Len(d) - i]
        <4>1. CASE i = 0
          <5>1. SlotOf(t, 0) = t /\ Len(d) - 0 = Len(d)
            BY <1>5, SlotMoves, SMTT(20)
          <5> QED
            BY <2>3, <3>2, <4>1, <5>1, Zenon
        <4>2. CASE i # 0
          <5>1. /\ i \in 1 .. NumEntries - 1 /\ i - 1 \in 0 .. n - 1
                /\ i \in 0 .. NumEntries - 1
                /\ (Len(d) - 1) - (i - 1) = Len(d) - i
                /\ Len(d) - i \in 1 .. Len(d) - 1
            BY <1>5, <3>4, <4>2, SMTT(20)
          <5>2. /\ SlotOf(t, i) = SlotOf(DecrTos(t), i - 1)
                /\ SlotOf(t, i) # t /\ SlotOf(t, i) \in Entry
            BY <1>5, <5>1, SlotMoves, Zenon
          <5>3. s.addrStack[SlotOf(s.tos, i - 1)] = c[Len(c) - (i - 1)]
            BY <1>6, <5>1, Zenon
          <5>4. s2.addrStack[SlotOf(t, i)] = c[Len(c) - (i - 1)]
            BY <2>1, <2>3, <5>2, <5>3, ZenonT(30)
          <5> QED
            BY <2>3, <3>3, <5>1, <5>4, Zenon
        <4> QED
          BY <4>1, <4>2, Zenon
      <3>6. Stack(s2, d, n2)
        BY <3>4, <3>5, Zenon DEF Stack
      <3> QED
        BY <1>3, <1>4, <1>8, <2>2, <2>3, <2>5, <3>1, <3>6, Zenon DEF RasSquash, KeptBefore
    <2> QED
      BY <2>4, <2>5, Zenon
  <1>9. CASE h.ras.op = "none"
    <2>1. s.tos = t /\ c = d
      BY <1>3, <1>4, <1>9, Zenon DEF Follows, TosAfter, CallersAfter
    <2> QED
      BY <1>3, <1>4, <1>9, <2>1, Zenon DEF RasSquash, KeptBefore
  <1> QED
    BY <1>2, <1>7, <1>8, <1>9, Zenon DEF Op

-----------------------------------------------------------------------------
(* The stack is that of the path, and each record continues the one before  *)
(* it, so that a squash can go back one by one.                             *)
RasInv ==
    /\ Stack(ras, callers, kept)
    /\ predHist # <<>> => Follows(Newest, ras.tos, callers)
    /\ \A k \in 1 .. Len(predHist) - 1 :
         Follows(predHist[k], predHist[k + 1].ras.tos, predHist[k + 1].callers)
    /\ \A k \in 1 .. Len(predHist) : Found(predHist[k])

(* Calls and returns on the wrong path leave no trace: as far down as no    *)
(* deeper call has overwritten it, the stack holds the return addresses of  *)
(* the calls that the path is in, for any number of entries                 *)
(* (ReturnAddrStack, BPredUnit::squash).                                    *)
THEOREM ReturnTheorem == Spec => []ReturnsToCaller
  (* A return that is recorded finds its caller on top.                       *)
  <1>FoundNow. ASSUME NEW s \in RasState, NEW c \in Seq(Nat), NEW n, Stack(s, c, n), n >= 1
               PROVE  Len(c) >= 1 /\ s.addrStack[s.tos] = c[Len(c)]
    <2> USE <1>FoundNow
    <2>1. n \in Nat /\ n <= Len(c) /\ 0 \in 0 .. n - 1 /\ Len(c) - 0 = Len(c) /\ Len(c) >= 1
      BY DEF Stack
    <2>2. SlotOf(s.tos, 0) = s.tos
      BY SlotMoves, Zenon DEF RasState
    <2> QED
      BY <2>1, <2>2, Zenon DEF Stack
  (* predict() applies the operation that it records.                         *)
  <1>RasPredict. ASSUME BPTypeOK, RasInv, NEW sn \in Nat, NEW type \in BranchType,
                        NEW cond \in BOOLEAN, NEW btbHit \in BOOLEAN, NEW hit \in BOOLEAN,
                        Predict(sn, type, cond, btbHit, hit)
                 PROVE  RasInv'
    <2> USE <1>RasPredict
    <2>1. PICK op : op = RasOp(type, btbHit \/ ~requiresBTBHit)
      BY Zenon
    <2>2. PICK r \in Record : Predicted(r, sn, type, op)
      BY <2>1, PredictRecord, Zenon
    <2>3. /\ predHist' = Append(predHist, r) /\ r.sn = sn
          /\ r.ras = RasRecord(op, ras) /\ r.callers = callers /\ r.kept = kept
      BY <2>2, ZenonT(30) DEF Predicted
    <2>4. /\ ras' = RasApply(ras, op, sn) /\ callers' = CallersAfter(callers, op, sn)
          /\ kept' = KeptAfter(kept, op)
      BY <2>1, Zenon DEF Predict
    <2>5. op \in Op /\ ras \in RasState /\ callers \in Seq(Nat) /\ predHist \in Seq(Record)
          /\ kept \in Nat /\ Stack(ras, callers, kept)
      BY <2>1, Zenon DEF BPTypeOK, RasInv, RasState, Op, RasOp
    <2>6. /\ Stack(ras', callers', kept') /\ ras'.tos = TosAfter(ras.tos, op)
      BY <2>4, <2>5, StackApply, Zenon
    <2>7. /\ r.ras.op = op /\ r.ras.tos = ras.tos
          /\ op = "pop" => r.ras.entry = ras.addrStack[ras.tos]
      BY <2>3 DEF RasRecord
    <2>8. PICK n : n = Len(predHist)
      BY ZenonT(30)
    <2>9. /\ n \in Nat /\ Len(predHist') = n + 1 /\ predHist'[n + 1] = r
          /\ \A j \in 1 .. n : predHist'[j] = predHist[j]
      BY <2>3, <2>5, <2>8, SMTT(20)
    <2>10. Follows(r, ras'.tos, callers')
      BY <2>3, <2>4, <2>6, <2>7, Zenon DEF Follows
    <2>11. Newest' = r
      BY <2>9, Zenon DEF Newest
    <2>12. Found(r)
      <3>1. CASE op = "pop" /\ kept >= 1
        BY <2>3, <2>5, <2>7, <3>1, <1>FoundNow, Zenon DEF Found
      <3>2. CASE ~(op = "pop" /\ kept >= 1)
        BY <2>3, <2>7, <3>2, Zenon DEF Found
      <3> QED
        BY <3>1, <3>2, Zenon
    <2>13. ASSUME NEW k \in 1 .. (n + 1) - 1
           PROVE  Follows(predHist'[k], predHist'[k + 1].ras.tos, predHist'[k + 1].callers)
      <3>1. CASE k = n
        <4>1. predHist # <<>> /\ k \in 1 .. n /\ k + 1 = n + 1
          BY <2>8, <2>9, <3>1
        <4>2. Newest = predHist[k]
          BY <2>8, <3>1, Zenon DEF Newest
        <4>3. Follows(predHist[k], ras.tos, callers)
          BY <4>1, <4>2, Zenon DEF RasInv
        <4> QED
          BY <2>3, <2>7, <2>9, <4>1, <4>3, Zenon
      <3>2. CASE k # n
        <4>1. k \in 1 .. n - 1 /\ k \in 1 .. n /\ k + 1 \in 1 .. n
          BY <2>9, <3>2
        <4> QED
          BY <2>8, <2>9, <4>1, Zenon DEF RasInv
      <3> QED
        BY <3>1, <3>2, Zenon
    <2>14. ASSUME NEW k \in 1 .. n + 1
           PROVE  Found(predHist'[k])
      <3>1. CASE k = n + 1
        BY <2>9, <2>12, <3>1, Zenon
      <3>2. CASE k # n + 1
        <4>1. k \in 1 .. n
          BY <2>9, <3>2, SMTT(20)
        <4> QED
          BY <2>8, <2>9, <4>1, Zenon DEF RasInv
      <3> QED
        BY <3>1, <3>2, Zenon
    <2> QED
      BY <2>6, <2>9, <2>10, <2>11, <2>13, <2>14, Zenon DEF RasInv
  (* What the newest record needs to be undone.                               *)
  <1>NewestRecord. ASSUME BPTypeOK, RasInv, predHist # <<>>
                   PROVE  /\ Newest \in Record /\ Newest = predHist[Len(predHist)]
                          /\ Len(predHist) \in Nat \ {0}
                          /\ Found(Newest) /\ Follows(Newest, ras.tos, callers)
                          /\ Stack(RasSquash(ras, Newest.ras), Newest.callers, KeptBefore(kept, Newest))
                          /\ RasSquash(ras, Newest.ras).tos = Newest.ras.tos
    <2> USE <1>NewestRecord
    <2>1. /\ predHist \in Seq(Record) /\ Len(predHist) \in 1 .. Len(predHist)
          /\ Len(predHist) \in Nat \ {0}
      BY DEF BPTypeOK
    <2>2. Newest \in Record /\ Newest = predHist[Len(predHist)]
      BY <2>1, SMTT(20) DEF Newest
    <2>3. /\ Found(Newest) /\ Follows(Newest, ras.tos, callers)
          /\ Stack(ras, callers, kept) /\ ras \in RasState
      BY <2>1, <2>2, Zenon DEF RasInv, BPTypeOK, RasState
    <2> QED
      BY <2>1, <2>2, <2>3, StackUndo, Zenon
  (* squashHistory() goes back to the record before.                          *)
  <1>RasSquashStep. ASSUME BPTypeOK, RasInv, predHist # <<>>, SquashHistory
                    PROVE  RasInv'
    <2> USE <1>RasSquashStep
    <2>1. PICK n : n = Len(predHist)
      BY ZenonT(30)
    <2>2. /\ predHist \in Seq(Record) /\ n \in Nat \ {0} /\ Newest = predHist[n]
          /\ Stack(ras', callers', kept')
          /\ ras'.tos = predHist[n].ras.tos /\ callers' = predHist[n].callers
      BY <2>1, <1>NewestRecord, ZenonT(30) DEF SquashHistory, BPTypeOK
    <2>3. /\ Len(predHist') = n - 1
          /\ \A j \in 1 .. n - 1 : predHist'[j] = predHist[j]
      BY <2>1, <2>2, SMTT(20) DEF SquashHistory
    <2>4. predHist' # <<>> => Follows(Newest', ras'.tos, callers')
      <3> SUFFICES ASSUME predHist' # <<>>
                   PROVE  Follows(Newest', ras'.tos, callers')
        BY Zenon
      <3>1. predHist' \in Seq(Record)
        BY <2>2 DEF SquashHistory
      <3>2. n - 1 # 0
        BY <2>3, <3>1
      <3>3. n - 1 \in 1 .. n - 1 /\ (n - 1) + 1 = n
        BY <2>2, <3>2
      <3>4. Newest' = predHist[n - 1]
        BY <2>3, <3>3, Zenon DEF Newest
      <3>5. Follows(predHist[n - 1], predHist[n].ras.tos, predHist[n].callers)
        BY <2>1, <3>3, Zenon DEF RasInv
      <3> QED
        BY <2>2, <3>4, <3>5, Zenon
    <2>5. ASSUME NEW k \in 1 .. (n - 1) - 1
          PROVE  Follows(predHist'[k], predHist'[k + 1].ras.tos, predHist'[k + 1].callers)
      <3>1. k \in 1 .. n - 1 /\ k + 1 \in 1 .. n - 1
        BY <2>2, SMTT(20)
      <3> QED
        BY <2>1, <2>3, <3>1, Zenon DEF RasInv
    <2>6. ASSUME NEW k \in 1 .. n - 1
          PROVE  Found(predHist'[k])
      <3>1. k \in 1 .. n
        BY <2>2, SMTT(20)
      <3> QED
        BY <2>1, <2>3, <3>1, Zenon DEF RasInv
    <2> QED
      BY <2>2, <2>3, <2>4, <2>5, <2>6, Zenon DEF RasInv
  (* The correction of a direction moves the stack, or moves it back, and     *)
  (* leaves the place of the record in the chain.                             *)
  <1>CorrectedStack. ASSUME BPTypeOK, RasInv, predHist # <<>>, NEW taken \in BOOLEAN, Correct(taken),
                            NEW r \in Record, Corrected(r, taken)
                     PROVE  /\ Stack(ras', callers', kept')
                            /\ Follows(r, ras'.tos, callers') /\ Found(r)
                            /\ r.ras.tos = Newest.ras.tos /\ r.callers = Newest.callers
    <2> USE <1>CorrectedStack
    <2>1. PICK h \in Record : h = Newest
      BY <1>NewestRecord, ZenonT(30)
    <2>2. /\ Found(h) /\ Follows(h, ras.tos, callers)
          /\ Stack(RasSquash(ras, h.ras), h.callers, KeptBefore(kept, h))
          /\ RasSquash(ras, h.ras).tos = h.ras.tos
      BY <2>1, <1>NewestRecord, ZenonT(30)
    <2>3. /\ Stack(ras, callers, kept) /\ ras \in RasState /\ callers \in Seq(Nat)
          /\ kept \in Nat /\ h.sn \in Nat /\ h.type \in BranchType
          /\ h.ras \in RasHistory
      BY Zenon DEF BPTypeOK, RasInv, RasState, Record
    <2>4. r.sn = h.sn /\ r.callers = h.callers
      BY <2>1, Zenon DEF Corrected
    <2>5. PICK op : op = RasOp(h.type, taken)
      BY Zenon
    <2>6. op \in Op
      BY <2>5, Zenon DEF RasOp, Op
    <2>7. CASE taken /\ h.ras.op = "none"
      <3>1. ras.tos = h.ras.tos /\ callers = h.callers
        BY <2>2, <2>7, Zenon DEF Follows, TosAfter, CallersAfter
      <3>2. /\ ras' = RasApply(ras, op, h.sn) /\ callers' = CallersAfter(h.callers, op, h.sn)
            /\ kept' = KeptAfter(kept, op)
        BY <2>1, <2>5, <2>7, Zenon DEF Correct
      <3>3. r.ras = RasRecord(op, ras) /\ r.kept = kept
        BY <2>1, <2>5, <2>7, ZenonT(30) DEF Corrected
      <3>4. /\ r.ras.op = op /\ r.ras.tos = ras.tos
            /\ op = "pop" => r.ras.entry = ras.addrStack[ras.tos]
        BY <3>3, SMTT(20) DEF RasRecord
      <3>5. Stack(ras', callers', kept') /\ ras'.tos = TosAfter(ras.tos, op)
        BY <2>3, <2>6, <3>1, <3>2, StackApply, Zenon
      <3>6. Follows(r, ras'.tos, callers')
        BY <2>4, <3>2, <3>4, <3>5, Zenon DEF Follows
      <3>7. Found(r)
        <4>1. CASE op = "pop" /\ kept >= 1
          BY <2>3, <2>4, <3>1, <3>3, <3>4, <4>1, <1>FoundNow, ZenonT(30) DEF Found
        <4>2. CASE ~(op = "pop" /\ kept >= 1)
          BY <3>3, <3>4, <4>2, Zenon DEF Found
        <4> QED
          BY <4>1, <4>2, Zenon
      <3> QED
        BY <2>1, <2>4, <3>1, <3>4, <3>5, <3>6, <3>7, Zenon
    <2>8. CASE ~taken /\ h.ras.op # "none"
      <3>1. op = "none"
        BY <2>5, <2>8, Zenon DEF RasOp
      <3>2. ras' = RasSquash(ras, h.ras) /\ kept' = KeptBefore(kept, h)
        BY <2>1, <2>8, Zenon DEF Correct
      <3>3. callers' = CallersAfter(h.callers, op, h.sn)
        BY <2>1, <2>5, <2>8, Zenon DEF Correct
      <3>4. callers' = h.callers
        BY <3>1, <3>3, Zenon DEF CallersAfter
      <3>5. r.ras = RasRecord(op, ras')
        BY <2>1, <2>5, <2>8, <3>2, ZenonT(30) DEF Corrected
      <3>6. r.ras.op = "none" /\ r.ras.tos = ras'.tos
        BY <3>1, <3>5 DEF RasRecord
      <3>7. Follows(r, ras'.tos, callers') /\ Found(r)
        BY <2>4, <3>4, <3>6, Zenon DEF Follows, Found, TosAfter, CallersAfter
      <3> QED
        BY <2>1, <2>2, <2>4, <3>2, <3>4, <3>6, <3>7, Zenon
    <2>9. CASE ~(taken /\ h.ras.op = "none") /\ ~(~taken /\ h.ras.op # "none")
      <3>1. ras' = ras /\ callers' = callers /\ kept' = kept
        BY <2>1, <2>9, Zenon DEF Correct
      <3>2. r.ras = h.ras /\ r.kept = h.kept
        BY <2>1, <2>9, ZenonT(30) DEF Corrected
      <3> QED
        BY <2>1, <2>2, <2>3, <2>4, <3>1, <3>2, Zenon DEF Follows, Found
    <2> QED
      BY <2>7, <2>8, <2>9, Zenon
  (* So the correction keeps the invariant.                                   *)
  <1>RasCorrectStep. ASSUME BPTypeOK, RasInv, predHist # <<>>, NEW taken \in BOOLEAN, Correct(taken)
                     PROVE  RasInv'
    <2> USE <1>RasCorrectStep
    <2>1. PICK r \in Record : Corrected(r, taken)
      BY CorrectRecord, Zenon
    <2>2. PICK n : n = Len(predHist)
      BY ZenonT(30)
    <2>3. /\ predHist \in Seq(Record) /\ n \in Nat \ {0} /\ n \in 1 .. n
          /\ Newest = predHist[n]
      BY <2>2, <1>NewestRecord, SMTT(20) DEF BPTypeOK
    <2>4. /\ Stack(ras', callers', kept')
          /\ Follows(r, ras'.tos, callers') /\ Found(r)
          /\ r.ras.tos = predHist[n].ras.tos /\ r.callers = predHist[n].callers
      BY <2>1, <2>3, <1>CorrectedStack, Zenon
    <2>5. predHist' = [predHist EXCEPT ![n] = r]
      BY <2>1, <2>2, Zenon DEF Corrected
    <2>6. /\ Len(predHist') = n /\ predHist'[n] = r
          /\ \A j \in 1 .. n : j # n => predHist'[j] = predHist[j]
      BY <2>2, <2>3, <2>5
    <2>7. Newest' = r
      BY <2>6, Zenon DEF Newest
    <2>8. ASSUME NEW k \in 1 .. n - 1
          PROVE  Follows(predHist'[k], predHist'[k + 1].ras.tos, predHist'[k + 1].callers)
      <3>1. k \in 1 .. n /\ k # n /\ k + 1 \in 1 .. n
        BY <2>3
      <3>2. Follows(predHist[k], predHist[k + 1].ras.tos, predHist[k + 1].callers)
        BY <2>2, Zenon DEF RasInv
      <3>3. CASE k + 1 = n
        BY <2>4, <2>6, <3>1, <3>2, <3>3, Zenon
      <3>4. CASE k + 1 # n
        BY <2>6, <3>1, <3>2, <3>4, Zenon
      <3> QED
        BY <3>3, <3>4, Zenon
    <2>9. ASSUME NEW k \in 1 .. n
          PROVE  Found(predHist'[k])
      BY <2>2, <2>4, <2>6, ZenonT(30) DEF RasInv
    <2> QED
      BY <2>4, <2>6, <2>7, <2>8, <2>9, Zenon DEF RasInv
  (* A commit takes the oldest record out of the chain.                       *)
  <1>RasCommitStep. ASSUME BPTypeOK, RasInv, predHist # <<>>, CommitBranch
                    PROVE  RasInv'
    <2> USE <1>RasCommitStep
    <2>1. PICK n : n = Len(predHist)
      BY Zenon
    <2>2. predHist \in Seq(Record) /\ n \in Nat \ {0}
      BY <2>1 DEF BPTypeOK
    <2>3. /\ Len(predHist') = n - 1 /\ predHist' \in Seq(Record)
          /\ \A j \in 1 .. n - 1 : predHist'[j] = predHist[j + 1]
      BY <2>1, <2>2 DEF CommitBranch
    <2>4. UNCHANGED <<ras, callers, kept>>
      BY Zenon DEF CommitBranch
    <2>5. predHist' # <<>> => Follows(Newest', ras.tos, callers)
      <3> SUFFICES ASSUME predHist' # <<>>
                   PROVE  Follows(Newest', ras.tos, callers)
        BY Zenon
      <3>1. n - 1 \in 1 .. n - 1 /\ (n - 1) + 1 = n
        BY <2>2, <2>3
      <3>2. Newest' = predHist[n] /\ Newest = predHist[n]
        BY <2>1, <2>3, <3>1, Zenon DEF Newest
      <3> QED
        BY <3>2, Zenon DEF RasInv
    <2>6. ASSUME NEW k \in 1 .. (n - 1) - 1
          PROVE  Follows(predHist'[k], predHist'[k + 1].ras.tos, predHist'[k + 1].callers)
      <3>1. k \in 1 .. n - 1 /\ k + 1 \in 1 .. n - 1
        BY <2>2, SMTT(20)
      <3>2. Follows(predHist[k + 1], predHist[(k + 1) + 1].ras.tos,
                    predHist[(k + 1) + 1].callers)
        BY <2>1, <3>1, Zenon DEF RasInv
      <3> QED
        BY <2>3, <3>1, <3>2, Zenon
    <2>7. ASSUME NEW k \in 1 .. n - 1
          PROVE  Found(predHist'[k])
      <3>1. k + 1 \in 1 .. n
        BY <2>2
      <3> QED
        BY <2>1, <2>3, <3>1, Zenon DEF RasInv
    <2> QED
      BY <2>3, <2>4, <2>5, <2>6, <2>7, Zenon DEF RasInv
  (* Every step keeps the invariant.                                          *)
  <1>RasStep. ASSUME BTypeOK, RasInv, [Next]_bvars
              PROVE  RasInv'
    <2> USE <1>RasStep
    <2>1. BPStep /\ BPTypeOK
      BY StepCases, Zenon DEF BTypeOK
    <2>2. CASE \E type \in Types, cond, btbHit, hit \in BOOLEAN :
                 Len(predHist) < MaxInFlight /\ Predict(seqNum + 1, type, cond, btbHit, hit)
      <3>1. PICK type \in Types, cond \in BOOLEAN, btbHit \in BOOLEAN, hit \in BOOLEAN :
              Predict(seqNum + 1, type, cond, btbHit, hit)
        BY <2>2, Zenon
      <3>2. PICK sn : sn = seqNum + 1
        BY Zenon
      <3>3. sn \in Nat /\ type \in BranchType
        BY <3>2, FrontEndAssumption DEF BTypeOK
      <3> QED
        BY <2>1, <3>1, <3>2, <3>3, <1>RasPredict, Zenon
    <2>3. CASE predHist # <<>> /\ SquashHistory
      BY <2>1, <2>3, <1>RasSquashStep, Zenon
    <2>4. CASE predHist # <<>> /\ \E taken \in BOOLEAN : Correct(taken)
      BY <2>1, <2>4, <1>RasCorrectStep, Zenon
    <2>5. CASE predHist # <<>> /\ CommitBranch
      BY <2>1, <2>5, <1>RasCommitStep, Zenon
    <2>6. CASE UNCHANGED bpvars
      <3>1. UNCHANGED <<predHist, ras, callers, kept>>
        BY <2>6, Zenon DEF bpvars, pathvars
      <3> QED
        BY <3>1, Zenon DEF RasInv, Newest
    <2> QED
      BY <2>1, <2>2, <2>3, <2>4, <2>5, <2>6, Zenon DEF BPStep
  <1>1. Init => RasInv
    <2> SUFFICES ASSUME Init PROVE RasInv
      BY Zenon
    <2>1. predHist = <<>> /\ callers = <<>> /\ kept = 0 /\ ras = EmptyStack
      BY Zenon DEF Init, BPInit
    <2>2. Stack(ras, callers, kept)
      BY <2>1, RasAssumption DEF Stack
    <2> QED
      BY <2>1, <2>2 DEF RasInv
  <1>2. BTypeOK /\ RasInv /\ [Next]_bvars => RasInv'
    BY <1>RasStep, Zenon
  <1>3. RasInv => ReturnsToCaller
    BY Zenon DEF RasInv, ReturnsToCaller, Stack, Slot, SlotOf
  <1> QED
    BY <1>1, <1>2, <1>3, BTypeCorrect, PTL DEF Spec
=============================================================================
