------------------------------ MODULE BPredUnit ------------------------------
(***************************************************************************)
(* The branch prediction unit (pred/bpred_unit.cc) with its return address *)
(* stack, TAGE histories and indirect predictor. A prediction changes all  *)
(* of them at once, on a path that may be wrong, and is recorded in        *)
(* predHist; a squash undoes the records from the newest, the last of them *)
(* is corrected if it was mispredicted, and a commit retires the oldest.   *)
(* What the tables (TAGE, BTB, target cache) answer is left open.          *)
(***************************************************************************)
EXTENDS ReturnStack, TageHistory, IndirectHistory

VARIABLES
    predHist,       \* predictor histories, oldest first
    ras, tage, ind, \* the three components
    requiresBTBHit  \* a parameter of the unit

(* History variables: what the components should remember of the path, that *)
(* is, of the committed branches and then of those in flight.               *)
VARIABLES
    done,           \* outcomes of the committed branches, oldest first
    callers,        \* calls seen that the path is in, innermost last
    kept,           \* how many of them no deeper call has overwritten
    targets         \* targets of the indirect branches, oldest first

pathvars == <<done, callers, kept, targets>>
bpvars == <<predHist, ras, tage, ind, requiresBTBHit, pathvars>>

(* getBranchType() of the branches of x86, where a call, a return or an     *)
(* indirect jump is unconditional. NoBranch: microops that jump within the  *)
(* microcode, or write the PC in a macroop not declared a control transfer. *)
BranchType == {"DirectCond", "DirectUncond", "CallDirect", "CallIndirect",
               "IndirectUncond", "Return", "NoBranch"}

(* !isCondCtrl(): the prediction asks no direction of these. *)
IsUncond(type) == type # "DirectCond"

(* isUncondCtrl(): decode and commit take these for taken. A jump within    *)
(* the microcode lacks the flag, although it is not conditional; what       *)
(* execution reports of a NoBranch is left open, which covers the microops  *)
(* of that type that have it.                                               *)
IsUncondCtrl(type) == type \notin {"DirectCond", "NoBranch"}

IsCall(type) == type \in {"CallDirect", "CallIndirect"}
IsIndirectNoReturn(type) == type \in {"CallIndirect", "IndirectUncond"}
IsDirect(type) == type \in {"DirectCond", "DirectUncond", "CallDirect"}

(* An address stands for the branch at it, and a target for that of the     *)
(* branch, as predicted or as corrected.                                    *)
AddrBit(sn) == sn % 2
TakenBit(taken) == IF taken THEN 1 ELSE 0
TargetOf(sn, mispredict) == <<sn, mispredict>>
NoIndex == [pc |-> Null]

BPInit ==
    /\ predHist = <<>>
    /\ done = <<>> /\ callers = <<>> /\ kept = 0 /\ targets = <<>>
    /\ ras = EmptyStack /\ tage = NewHistory /\ ind = NewIndirect
    /\ requiresBTBHit \in BOOLEAN

-----------------------------------------------------------------------------
(* The operation on the stack that a branch needs once it is detected. *)
RasOp(type, detected) ==
    IF ~detected THEN "none"
    ELSE IF IsCall(type) THEN "push"
    ELSE IF type = "Return" THEN "pop" ELSE "none"

CallersAfter(c, op, sn) ==
    CASE op = "push" -> Append(c, sn) [] op = "pop" -> DropLast(c) [] OTHER -> c
OneMore(k) == IF k = NumEntries THEN k ELSE k + 1
OneLess(k) == IF k = 0 THEN 0 ELSE k - 1
KeptAfter(k, op) ==
    CASE op = "push" -> OneMore(k) [] op = "pop" -> OneLess(k) [] OTHER -> k

(* An undone pop brings back the address that it found, if it was a caller. *)
KeptBefore(k, h) ==
    CASE h.ras.op = "push" -> OneLess(k)
      [] h.ras.op = "pop"  -> IF h.kept = 0 THEN 0 ELSE OneMore(k)
      [] OTHER             -> k
TargetsAfter(t, indirect, target) == IF indirect THEN Append(t, target) ELSE t

(* predict(): cond is the answer of the direction predictor, btbHit that of *)
(* the BTB and hit that of the target cache.                                *)
Predict(sn, type, cond, btbHit, hit) ==
    LET detected == btbHit \/ ~requiresBTBHit
        op       == RasOp(type, detected)
        record   == RasRecord(op, ras)
        lookup   == cond /\ detected /\ IsIndirectNoReturn(type)
        target   == \/ btbHit /\ cond
                    \/ op = "pop" /\ record.entry # Null
                    \/ lookup /\ hit
        taken    == cond /\ target
    IN
    /\ IsUncond(type) => cond
    /\ hit => lookup
    /\ predHist' = Append(predHist,
            [sn |-> sn, type |-> type, predTaken |-> taken,
             actuallyTaken |-> taken, mispredict |-> FALSE,
             ras |-> record, callers |-> callers, kept |-> kept,
             targets |-> targets,
             pathHist |-> tage.pathHist, ghr |-> ind.ghr,
             pcAddr |-> IF lookup THEN sn ELSE Null,
             index |-> IF lookup THEN IndexOf(ind, sn) ELSE NoIndex])
    /\ ras' = RasApply(ras, op, sn)
    /\ tage' = PushHistories(tage, AddrBit(sn), TakenBit(taken))
    /\ ind' = IndirectPush(ind, IsIndirectNoReturn(type), TargetOf(sn, FALSE),
                           TakenBit(taken))
    /\ callers' = CallersAfter(callers, op, sn) /\ kept' = KeptAfter(kept, op)
    /\ targets' = TargetsAfter(targets, IsIndirectNoReturn(type), TargetOf(sn, FALSE))
    /\ UNCHANGED <<requiresBTBHit, done>>

Newest == predHist[Len(predHist)]
Oldest == predHist[1]

(* squashHistory() of the newest record. *)
SquashHistory ==
    /\ ras' = RasSquash(ras, Newest.ras)
    /\ ind' = IndirectUndo(ind, IsIndirectNoReturn(Newest.type), Newest.ghr)
    /\ tage' = RestoreHistState(tage, Newest.pathHist)
    /\ predHist' = SubSeq(predHist, 1, Len(predHist) - 1)
    /\ callers' = Newest.callers /\ kept' = KeptBefore(kept, Newest)
    /\ targets' = Newest.targets
    /\ UNCHANGED <<requiresBTBHit, done>>

(* The correction of the newest record at the end of squash(). *)
Correct(taken) ==
    LET h        == Newest
        indirect == IsIndirectNoReturn(h.type)
        fix      == taken /\ h.ras.op = "none"
        unfix    == ~taken /\ h.ras.op # "none"
        op       == RasOp(h.type, taken)
        undone   == IndirectUndo(ind, indirect, h.ghr)
        stack    == IF unfix THEN RasSquash(ras, h.ras) ELSE ras
    IN
    /\ predHist' = [predHist EXCEPT ![Len(predHist)] =
            [h EXCEPT !.mispredict = TRUE, !.actuallyTaken = taken,
                      !.ras = IF fix \/ unfix THEN RasRecord(op, stack) ELSE h.ras,
                      !.kept = IF fix THEN kept ELSE h.kept,
                      !.index = IF indirect THEN IndexOf(undone, h.pcAddr)
                                ELSE h.index]]
    /\ ras' = IF fix THEN RasApply(ras, op, h.sn) ELSE stack
    /\ tage' = PushHistories(RestoreHistState(tage, h.pathHist), AddrBit(h.sn),
                             TakenBit(taken))
    /\ ind' = IndirectPush(undone, indirect, TargetOf(h.sn, TRUE), TakenBit(taken))
    /\ callers' = IF fix \/ unfix THEN CallersAfter(h.callers, op, h.sn) ELSE callers
    /\ kept' = IF fix THEN KeptAfter(kept, op)
               ELSE IF unfix THEN KeptBefore(kept, h) ELSE kept
    /\ targets' = TargetsAfter(h.targets, indirect, TargetOf(h.sn, TRUE))
    /\ UNCHANGED <<requiresBTBHit, done>>

Outcome(h) == [sn |-> h.sn, taken |-> h.actuallyTaken]

(* commitBranch() of the oldest record. *)
CommitBranch ==
    /\ tage' = CommitHistories(tage, Oldest.pathHist, AddrBit(Oldest.sn))
    /\ ind' = Trim(ind)
    /\ done' = Append(done, Outcome(Oldest))
    /\ predHist' = Tail(predHist)
    /\ UNCHANGED <<ras, requiresBTBHit, callers, kept, targets>>
=============================================================================
