----------------------------- MODULE LVPPipeline -----------------------------
(***************************************************************************)
(* The load value predictor inside the O3 pipeline. A load is dispatched   *)
(* in program order (IEW::dispatchInsts, where a load that is not a microop*)
(* asks for a prediction), executes and writes back in any order           *)
(* (IEW::writebackInsts, where such a load trains the predictor), retires  *)
(* in order in the ROB, and leaves the load queue in LSQUnit::commitLoad,  *)
(* which trains the predictor and asks for a prediction again, for         *)
(* microops as well. A squash removes the youngest loads at any time.      *)
(***************************************************************************)
EXTENDS LVPCommitted, Sequences

CONSTANTS
    Microop,    \* whether loads are microops: a subset of BOOLEAN ({TRUE}: X86)
    LQEntries,  \* size of the load queue
    NoData      \* memData == nullptr

ASSUME PipelineAssumption ==
    /\ Microop \subseteq BOOLEAN
    /\ LQEntries \in Nat \ {0}
    /\ NoData \notin Value

VARIABLES
    loadQueue,      \* the load queue, oldest first
    seqNum,         \* sequence number of the last load dispatched
    lastTrained,    \* history: number of the load update() was last called for
    askedBy,        \* history: who made the pending prediction of each PC
    dispatchPreds   \* history: number of predictions issued at dispatch

pvars == <<vht, markovTable, stats, loadQueue, seqNum, lastTrained, askedBy,
           dispatchPreds>>

Stage == {"dispatched", "executed", "writtenBack", "retired"}

Load == [seqNum : Nat, pc : PC, microop : BOOLEAN, stage : Stage,
         memData : Value \cup {NoData}, fault : BOOLEAN]

PInit ==
    /\ Init
    /\ loadQueue = <<>>
    /\ seqNum = 0
    /\ lastTrained = 0
    /\ askedBy = [pc \in PC |-> "nobody"]
    /\ dispatchPreds = 0

-----------------------------------------------------------------------------
(* Mutant: dispatch asks for a prediction for microops as well.             *)
DispatchLoadMicroops(pc, microop, nonSpec) ==
    /\ Len(loadQueue) < LQEntries
    /\ seqNum' = seqNum + 1
    /\ loadQueue' = Append(loadQueue,
            [seqNum |-> seqNum + 1, pc |-> pc, microop |-> microop,
             stage |-> "dispatched", memData |-> NoData, fault |-> FALSE])
    /\ Predict(pc)
    /\ UNCHANGED <<askedBy, lastTrained, dispatchPreds>>

(* Dispatch of a load. A non-speculative one goes to the instruction queue  *)
(* by insertNonSpec and is not predicted; nor is a microop.                 *)
DispatchLoad(pc, microop, nonSpec) ==
    /\ Len(loadQueue) < LQEntries
    /\ seqNum' = seqNum + 1
    /\ loadQueue' = Append(loadQueue,
            [seqNum |-> seqNum + 1, pc |-> pc, microop |-> microop,
             stage |-> "dispatched", memData |-> NoData, fault |-> FALSE])
    /\ IF ~microop /\ ~nonSpec
       THEN /\ Predict(pc)
            /\ askedBy' = IF Issues(vht, markovTable, pc)
                          THEN [askedBy EXCEPT ![pc] = "dispatch"] ELSE askedBy
            /\ dispatchPreds' = IF Issues(vht, markovTable, pc)
                                THEN dispatchPreds + 1 ELSE dispatchPreds
       ELSE UNCHANGED <<vars, askedBy, dispatchPreds>>
    /\ UNCHANGED lastTrained

(* A load completes: with data, without (its access was predicated off), or *)
(* with a fault.                                                            *)
ExecuteLoad(i, data, fault) ==
    /\ loadQueue[i].stage = "dispatched"
    /\ loadQueue' = [loadQueue EXCEPT ![i] =
            [@ EXCEPT !.stage = "executed", !.memData = data, !.fault = fault]]
    /\ UNCHANGED <<vars, seqNum, lastTrained, askedBy, dispatchPreds>>

(* Writeback. peekIntResult() reads memData; without it, it falls back on   *)
(* the register result the load recorded, if any: a value unrelated to the  *)
(* memory it names.                                                         *)
IntResults(ld) ==
    IF ld.memData # NoData THEN {ld.memData} ELSE Value \cup {NoData}

(* Mutant: writeback that trains on microops as well. *)
WritebackLoadMicroops(i, result) ==
    /\ loadQueue[i].stage = "executed" /\ ~loadQueue[i].fault
    /\ result \in IntResults(loadQueue[i]) \ {NoData}
    /\ loadQueue' = [loadQueue EXCEPT ![i].stage = "writtenBack"]
    /\ Update(loadQueue[i].pc, result)
    /\ askedBy' = [askedBy EXCEPT ![loadQueue[i].pc] = "nobody"]
    /\ lastTrained' = loadQueue[i].seqNum
    /\ UNCHANGED <<seqNum, dispatchPreds>>

WritebackLoad(i, result) ==
    /\ loadQueue[i].stage = "executed"
    /\ result \in IntResults(loadQueue[i])
    /\ loadQueue' = [loadQueue EXCEPT ![i].stage = "writtenBack"]
    /\ IF ~loadQueue[i].fault /\ ~loadQueue[i].microop /\ result # NoData
       THEN /\ Update(loadQueue[i].pc, result)
            /\ askedBy' = [askedBy EXCEPT ![loadQueue[i].pc] = "nobody"]
            /\ lastTrained' = loadQueue[i].seqNum
       ELSE UNCHANGED <<vars, askedBy, lastTrained>>
    /\ UNCHANGED <<seqNum, dispatchPreds>>

(* Mutant: a load that retires before an older one. *)
RetireAnyOrder(i) ==
    /\ loadQueue[i].stage = "writtenBack"
    /\ ~loadQueue[i].fault
    /\ loadQueue' = [loadQueue EXCEPT ![i].stage = "retired"]
    /\ UNCHANGED <<vars, seqNum, lastTrained, askedBy, dispatchPreds>>

(* The ROB retires its head; a faulting head traps instead (see Squash).    *)
Retire(i) ==
    /\ \A j \in 1 .. i - 1 : loadQueue[j].stage = "retired"
    /\ loadQueue[i].stage = "writtenBack"
    /\ ~loadQueue[i].fault
    /\ loadQueue' = [loadQueue EXCEPT ![i].stage = "retired"]
    /\ UNCHANGED <<vars, seqNum, lastTrained, askedBy, dispatchPreds>>

(* Mutant: a commit that leaves the training of a load that is not a microop *)
(* to writeback, and still asks for its next prediction.                    *)
CommitLoadAsksOnly ==
    /\ loadQueue # <<>>
    /\ Head(loadQueue).stage = "retired"
    /\ LET ld == Head(loadQueue) IN
       IF ld.memData # NoData
       THEN /\ IF ld.microop THEN CommittedLoad(ld.pc, ld.memData) ELSE Predict(ld.pc)
            /\ lastTrained' = ld.seqNum
            /\ askedBy' = [askedBy EXCEPT ![ld.pc] =
                             IF vht'[ld.pc].hasPending THEN "commit" ELSE "nobody"]
       ELSE UNCHANGED <<vars, lastTrained, askedBy>>
    /\ loadQueue' = Tail(loadQueue)
    /\ UNCHANGED <<seqNum, dispatchPreds>>

(* One round of the loop of commitLoads(): the head of the load queue has   *)
(* retired. Loads that retire in different cycles leave in different calls, *)
(* so the rounds interleave with the other steps.                           *)
CommitLoad ==
    /\ loadQueue # <<>>
    /\ Head(loadQueue).stage = "retired"
    /\ LET ld == Head(loadQueue) IN
       IF ld.memData # NoData
       THEN /\ CommittedLoad(ld.pc, ld.memData)
            /\ lastTrained' = ld.seqNum
            /\ askedBy' = [askedBy EXCEPT ![ld.pc] =
                             IF vht'[ld.pc].hasPending THEN "commit" ELSE "nobody"]
       ELSE UNCHANGED <<vars, lastTrained, askedBy>>
    /\ loadQueue' = Tail(loadQueue)
    /\ UNCHANGED <<seqNum, dispatchPreds>>

(* A mispredicted branch, a memory order violation or a trap squashes every *)
(* load after the first n; retired loads are beyond its reach.              *)
Squash(n) ==
    /\ \A i \in n + 1 .. Len(loadQueue) : loadQueue[i].stage # "retired"
    /\ loadQueue' = SubSeq(loadQueue, 1, n)
    /\ UNCHANGED <<vars, seqNum, lastTrained, askedBy, dispatchPreds>>

-----------------------------------------------------------------------------
PNext ==
    \/ \E pc \in PC, microop \in Microop, nonSpec \in BOOLEAN :
            DispatchLoad(pc, microop, nonSpec)
    \/ \E i \in DOMAIN loadQueue :
            \/ \E data \in Value \cup {NoData}, fault \in BOOLEAN :
                    ExecuteLoad(i, data, fault)
            \/ \E result \in Value \cup {NoData} : WritebackLoad(i, result)
            \/ Retire(i)
    \/ CommitLoad
    \/ \E n \in 0 .. Len(loadQueue) - 1 : Squash(n)

PSpec == PInit /\ [][PNext]_pvars

-----------------------------------------------------------------------------
(***************************************************************************)
(* Properties.                                                             *)
(***************************************************************************)

(* The tables keep their types inside the pipeline, and the queue holds    *)
(* loads whose data is a word or absent.                                   *)
PTypeOK ==
    /\ TypeOK
    /\ loadQueue \in Seq(Load)
    /\ seqNum \in Nat /\ lastTrained \in Nat
    /\ askedBy \in [PC -> {"nobody", "dispatch", "commit"}]
    /\ dispatchPreds \in Nat

(* The load queue never exceeds its size, stays in program order across    *)
(* squashes and later dispatches, and what has retired is a prefix of it:  *)
(* commitLoads() may stop at the first load that has not retired.          *)
QueueInOrder ==
    /\ Len(loadQueue) <= LQEntries
    /\ \A i \in DOMAIN loadQueue : loadQueue[i].seqNum <= seqNum
    /\ \A i, j \in DOMAIN loadQueue :
          i < j => /\ loadQueue[i].seqNum < loadQueue[j].seqNum
                   /\ loadQueue[j].stage = "retired" => loadQueue[i].stage = "retired"

(* A prediction is lost (neither evaluated nor pending) only when another  *)
(* of its PC overwrites it, and only a dispatch overwrites one: commitLoad *)
(* trains, which evaluates the pending prediction, before it asks again.   *)
(* Whatever is squashed, dispatched again or written back out of order, at *)
(* most one prediction is lost for each one issued at dispatch.            *)
LostOnlyToDispatch ==
    stats["predicted"] - stats["pendingChecked"] - Cardinality(Pending) <= dispatchPreds

(* When loads are microops only committed loads train the predictor, in    *)
(* program order: every load still in the queue is younger than the last   *)
(* one trained on, so none that is squashed later has left a trace.        *)
TrainedAreCommitted == \A i \in DOMAIN loadQueue : loadQueue[i].seqNum > lastTrained

(* When loads are microops no prediction is lost: every prediction issued  *)
(* was evaluated or is still pending (plots.py relates correct and         *)
(* pendingChecked to predicted).                                           *)
ExactAccounting ==
    stats["predicted"] = stats["pendingChecked"] + Cardinality(Pending)

(* When loads are microops the pipeline implements LVPCommitted: dispatch, *)
(* out-of-order execution, writeback and squashes leave no trace.          *)
CommitOnly == CSpec

(* "Total loads seen by LVP" (markov_lvp.cc, totalLoads): no load is       *)
(* counted more than once.                                                 *)
LoadsCountedOnce == stats["totalLoads"] <= seqNum

(* "stores it on the instruction for accuracy tracking at the next commit  *)
(* of the same PC" (lsq_unit.cc, commitLoad): a prediction that a commit   *)
(* asked for stays pending until a commit evaluates it.                    *)
CheckedAtNextCommit ==
    [][\A pc \in PC :
         askedBy[pc] = "commit" /\ askedBy'[pc] # "commit"
         => loadQueue # <<>> /\ loadQueue' = Tail(loadQueue)]_pvars
=============================================================================
