------------------------------ MODULE RenameROB ------------------------------
(***************************************************************************)
(* Renaming, reorder buffer and commit of the O3 CPU, cycle by cycle. In a *)
(* cycle rename runs, then IEW, then commit (CPU::tick); what commit and   *)
(* IEW write is read by the others in the next cycle. `at` is the point    *)
(* reached within the cycle. The loops over history entries, destinations  *)
(* and the head of the ROB take one step per iteration.                    *)
(***************************************************************************)
EXTENDS Rename, Functions

CONSTANTS
    RenameWidth, CommitWidth, SquashWidth,  \* instructions per cycle
    RefillDelay,    \* empty cycles after the squash, until decode delivers:
                    \* fetch and decode each take at least one
    None            \* no instruction

(* An instruction in flight, with the map its sources were looked up in.    *)
DynInst == [seqNum : Nat, dest : Seq(ArchReg), renamed : Seq(PhysReg),
            src : [ArchReg -> PhysReg], squashed : BOOLEAN,
            executed : BOOLEAN, canCommit : BOOLEAN]

ASSUME WidthAssumption ==
    /\ RenameWidth \in Nat \ {0}
    /\ CommitWidth \in Nat \ {0}
    /\ SquashWidth \in Nat \ {0}
    /\ RefillDelay \in Nat \ {0}
    /\ None \notin Nat /\ None \notin DynInst

VARIABLES
    at,             \* the next step of the cycle
    seqNum,         \* sequence number of the last instruction renamed
    inst,           \* the instruction whose destinations are being renamed
    toROB,          \* instructions renamed in this cycle
    fromRename,     \* instructions renamed in the previous cycle
    refill,         \* cycles until decode has instructions again
    iewBlock,       \* IEW told rename to stall
    rob,            \* the reorder buffer, oldest first
    squashedSeqNum, squashIt,   \* ROB::doSquash: where to, where it is (0: end)
    doneSquashing,
    commitStatus,
    commitMap,      \* the rename map of the commit stage
    youngestSeqNum, lastCommitedSeqNum,
    numCommitted,   \* instructions committed in this cycle
    commitInfo,     \* what commit tells the other stages
    toCommit,       \* what IEW tells commit in this cycle
    fromIEW         \* what it told commit in the previous one

frontvars == <<seqNum, inst, toROB, refill>>
robvars == <<rob, squashedSeqNum, squashIt, doneSquashing>>
commitvars == <<commitStatus, commitMap, youngestSeqNum, lastCommitedSeqNum,
                numCommitted>>
rvars == <<rnvars, at, frontvars, fromRename, iewBlock, robvars, commitvars,
           commitInfo, toCommit, fromIEW>>

NoSignal == [squash |-> FALSE, robSquashing |-> FALSE, doneSeqNum |-> 0]
NoIEW == [executed |-> None, squashedSeqNum |-> None,
          includeSquashInst |-> FALSE]

RRInit ==
    /\ RenameInit
    /\ at = "signals"
    /\ seqNum = 0
    /\ inst = None
    /\ toROB = <<>> /\ fromRename = <<>>
    /\ refill = 0
    /\ iewBlock = FALSE
    /\ rob = <<>>
    /\ squashedSeqNum = 0 /\ squashIt = 0 /\ doneSquashing = TRUE
    /\ commitStatus = "Running"
    /\ commitMap = InitMap
    /\ youngestSeqNum = 0 /\ lastCommitedSeqNum = 0 /\ numCommitted = 0
    /\ commitInfo = NoSignal
    /\ toCommit = NoIEW /\ fromIEW = NoIEW

-----------------------------------------------------------------------------
(* Rename::tick. With a squash signal, fetch has marked every instruction   *)
(* that is not in the ROB (CPU::removeInstsNotInROB), and rename undoes the *)
(* history down to the squashed instruction.                                *)
SquashSignal ==
    /\ at = "signals"
    /\ commitInfo.squash
    /\ at' = "undo"
    /\ fromRename' = [i \in DOMAIN fromRename |->
                        [fromRename[i] EXCEPT !.squashed = TRUE]]
    /\ refill' = RefillDelay + 1
    /\ UNCHANGED <<rnvars, seqNum, inst, toROB, iewBlock, robvars, commitvars,
                   commitInfo, toCommit, fromIEW>>

(* The loop condition of Rename::doSquash.                                  *)
ToUndo == historyBuffer # <<>> /\ Newest.instSeqNum > commitInfo.doneSeqNum

UndoStep ==
    /\ at = "undo"
    /\ ToUndo
    /\ UndoNewest
    /\ UNCHANGED <<at, frontvars, fromRename, iewBlock, robvars, commitvars,
                   commitInfo, toCommit, fromIEW>>

UndoEnd ==
    /\ at = "undo"
    /\ ~ToUndo
    /\ at' = "iew"
    /\ UNCHANGED <<rnvars, frontvars, fromRename, iewBlock, robvars,
                   commitvars, commitInfo, toCommit, fromIEW>>

NoSquashSignal ==
    /\ at = "signals"
    /\ ~commitInfo.squash
    /\ ReleaseFreeing(commitInfo.robSquashing)
    /\ at' = "rename"
    /\ UNCHANGED <<frontvars, fromRename, iewBlock, robvars, commitvars,
                   commitInfo, toCommit, fromIEW>>

(* An instruction with destinations dest is taken from decode. Its sources  *)
(* are looked up before its destinations are renamed; it may read any       *)
(* register, so the whole map is kept.                                      *)
RenameInst(dest) ==
    /\ at = "rename"
    /\ inst = None
    /\ ~iewBlock /\ refill = 0
    /\ Len(toROB) < RenameWidth
    /\ CanRename(dest)
    /\ seqNum' = seqNum + 1
    /\ inst' = [seqNum |-> seqNum + 1, dest |-> dest, renamed |-> <<>>,
                src |-> renameMap, squashed |-> FALSE,
                executed |-> FALSE, canCommit |-> FALSE]
    /\ UNCHANGED <<rnvars, at, toROB, refill, fromRename, iewBlock, robvars,
                   commitvars, commitInfo, toCommit, fromIEW>>

RenameDestStep ==
    /\ inst # None
    /\ Len(inst.renamed) < Len(inst.dest)
    /\ LET a == inst.dest[Len(inst.renamed) + 1]
       IN  /\ RenameDest(inst.seqNum, a)
           /\ inst' = [inst EXCEPT !.renamed =
                            Append(inst.renamed, RenamedReg(a))]
    /\ UNCHANGED <<at, seqNum, toROB, refill, fromRename, iewBlock, robvars,
                   commitvars, commitInfo, toCommit, fromIEW>>

SendInst ==
    /\ inst # None
    /\ Len(inst.renamed) = Len(inst.dest)
    /\ toROB' = Append(toROB, inst)
    /\ inst' = None
    /\ UNCHANGED <<rnvars, at, seqNum, refill, fromRename, iewBlock, robvars,
                   commitvars, commitInfo, toCommit, fromIEW>>

(* Rename may stop at any point: decode has no more instructions, or a      *)
(* later stage has no room.                                                 *)
RenameEnd ==
    /\ at = "rename"
    /\ inst = None
    /\ at' = "remove"
    /\ UNCHANGED <<rnvars, frontvars, fromRename, iewBlock, robvars,
                   commitvars, commitInfo, toCommit, fromIEW>>

(* Mutant: the entry of the instruction after the committed ones is freed.  *)
ToRemoveNext ==
    /\ commitInfo.doneSeqNum # 0
    /\ historyBuffer # <<>> /\ Oldest.instSeqNum <= commitInfo.doneSeqNum + 1

(* The loop condition of Rename::removeFromHistory.                         *)
ToRemove ==
    /\ commitInfo.doneSeqNum # 0
    /\ historyBuffer # <<>> /\ Oldest.instSeqNum <= commitInfo.doneSeqNum

RemoveStep ==
    /\ at = "remove"
    /\ ToRemove
    /\ FreeOldest
    /\ UNCHANGED <<at, frontvars, fromRename, iewBlock, robvars, commitvars,
                   commitInfo, toCommit, fromIEW>>

RemoveEnd ==
    /\ at = "remove"
    /\ ~ToRemove
    /\ at' = "iew"
    /\ UNCHANGED <<rnvars, frontvars, fromRename, iewBlock, robvars,
                   commitvars, commitInfo, toCommit, fromIEW>>

-----------------------------------------------------------------------------
(* IEW::tick. IEW drops what the squash signal covers at once, while the    *)
(* ROB marks SquashWidth instructions per cycle.                            *)
InIEW(i) == /\ ~rob[i].squashed
            /\ ~doneSquashing => rob[i].seqNum <= squashedSeqNum

(* Mutant: IEW lets rename run while the ROB squashes.                      *)
IEWStallNever == iewBlock' = FALSE

IEWStall ==
    iewBlock' = (commitInfo.robSquashing /\ ~commitInfo.squash)

IEWIdle ==
    /\ at = "iew"
    /\ at' = "commit"
    /\ IEWStall
    /\ toCommit' = NoIEW
    /\ UNCHANGED <<rnvars, frontvars, fromRename, robvars, commitvars,
                   commitInfo, fromIEW>>

(* Mutant: an executed instruction can commit in the same cycle.            *)
IEWExecuteReady(i, v) ==
    /\ at = "iew"
    /\ InIEW(i) /\ ~rob[i].executed
    /\ v # None => InIEW(v) /\ v >= i
    /\ at' = "commit"
    /\ IEWStall
    /\ rob' = [rob EXCEPT ![i].executed = TRUE, ![i].canCommit = TRUE]
    /\ toCommit' = [executed |-> rob[i].seqNum,
                    squashedSeqNum |-> IF v = None THEN None
                                       ELSE rob[v].seqNum,
                    includeSquashInst |-> v \notin {None, i}]
    /\ UNCHANGED <<rnvars, frontvars, fromRename, squashedSeqNum, squashIt,
                   doneSquashing, commitvars, commitInfo, fromIEW>>

(* Instruction i executes. It may be a mispredicted branch (v = i,          *)
(* squashDueToBranch), or a store that finds a younger load v that has read *)
(* too early (squashDueToMemOrder, which includes the load in the squash).  *)
IEWExecute(i, v) ==
    /\ at = "iew"
    /\ InIEW(i) /\ ~rob[i].executed
    /\ v # None => InIEW(v) /\ v >= i
    /\ at' = "commit"
    /\ IEWStall
    /\ rob' = [rob EXCEPT ![i].executed = TRUE]
    /\ toCommit' = [executed |-> rob[i].seqNum,
                    squashedSeqNum |-> IF v = None THEN None
                                       ELSE rob[v].seqNum,
                    includeSquashInst |-> v \notin {None, i}]
    /\ UNCHANGED <<rnvars, frontvars, fromRename, squashedSeqNum, squashIt,
                   doneSquashing, commitvars, commitInfo, fromIEW>>

-----------------------------------------------------------------------------
(* The loop of ROB::doSquash, from iterator it down: it leaves the iterator *)
(* at low after SquashWidth instructions, at the head, or at one that is not*)
(* younger than s.                                                          *)
SquashStops(it, s, low) ==
    /\ \A i \in low + 1 .. it : rob[i].seqNum > s
    /\ it - low <= SquashWidth
    /\ it - low < SquashWidth /\ low > 0 => rob[low].seqNum <= s

(* Mutants: the iterator is left where it stopped; squashed instructions    *)
(* are not made ready to leave; the head of the ROB is not noticed.         *)
DoSquashKeepsIt(it, s) ==
    \E low \in 0 .. it :
        /\ SquashStops(it, s, low)
        /\ rob' = [i \in DOMAIN rob |->
                    IF low < i /\ i <= it
                    THEN [rob[i] EXCEPT !.squashed = TRUE, !.canCommit = TRUE]
                    ELSE rob[i]]
        /\ squashIt' = low
        /\ doneSquashing' = (low = 0 \/ rob[low].seqNum <= s)
DoSquashNotReady(it, s) ==
    \E low \in 0 .. it :
    LET done == low = 0 \/ rob[low].seqNum <= s
    IN  /\ SquashStops(it, s, low)
        /\ rob' = [i \in DOMAIN rob |->
                    IF low < i /\ i <= it
                    THEN [rob[i] EXCEPT !.squashed = TRUE] ELSE rob[i]]
        /\ squashIt' = IF done THEN 0 ELSE low
        /\ doneSquashing' = done
DoSquashNoHead(it, s) ==
    \E low \in 0 .. it :
    LET done == low > 0 /\ rob[low].seqNum <= s
    IN  /\ SquashStops(it, s, low)
        /\ rob' = [i \in DOMAIN rob |->
                    IF low < i /\ i <= it
                    THEN [rob[i] EXCEPT !.squashed = TRUE, !.canCommit = TRUE]
                    ELSE rob[i]]
        /\ squashIt' = IF done THEN 0 ELSE low
        /\ doneSquashing' = done

DoSquash(it, s) ==
    \E low \in 0 .. it :
    LET done == low = 0 \/ rob[low].seqNum <= s
    IN  /\ SquashStops(it, s, low)
        /\ rob' = [i \in DOMAIN rob |->
                    IF low < i /\ i <= it
                    THEN [rob[i] EXCEPT !.squashed = TRUE, !.canCommit = TRUE]
                    ELSE rob[i]]
        /\ squashIt' = IF done THEN 0 ELSE low
        /\ doneSquashing' = done

(* ROB::squash: from the tail.                                              *)
ROBSquash(s) ==
    IF rob = <<>> THEN UNCHANGED robvars
    ELSE squashedSeqNum' = s /\ DoSquash(Len(rob), s)

(* Commit::tick: a squash in progress continues or has ended.               *)
CommitStart ==
    /\ at = "commit"
    /\ at' = "squash"
    /\ numCommitted' = 0
    /\ IF commitStatus = "ROBSquashing" /\ ~doneSquashing
       THEN /\ DoSquash(squashIt, squashedSeqNum)
            /\ commitInfo' = [NoSignal EXCEPT !.robSquashing = TRUE]
            /\ UNCHANGED <<squashedSeqNum, commitStatus>>
       ELSE /\ commitInfo' = NoSignal
            /\ commitStatus' = IF commitStatus = "ROBSquashing"
                               THEN "Running" ELSE commitStatus
            /\ UNCHANGED robvars
    /\ UNCHANGED <<rnvars, frontvars, fromRename, iewBlock, commitMap,
                   youngestSeqNum, lastCommitedSeqNum, toCommit, fromIEW>>

SquashSignalFor(s) ==
    [squash |-> TRUE, robSquashing |-> TRUE, doneSeqNum |-> s]

(* Commit::squashAll, for a trap (once its latency has passed), a write     *)
(* through the thread context, or an instruction that squashes all after it.*)
SquashAllStatus(status) ==
    /\ at = "squash"
    /\ commitStatus = status
    /\ LET s == IF rob = <<>> THEN lastCommitedSeqNum
                ELSE Head(rob).seqNum - 1
       IN  /\ ROBSquash(s)
           /\ commitInfo' = SquashSignalFor(s)
    /\ youngestSeqNum' = lastCommitedSeqNum
    /\ commitStatus' = "ROBSquashing"
    /\ at' = "iewsquash"
    /\ UNCHANGED <<rnvars, frontvars, fromRename, iewBlock, commitMap,
                   lastCommitedSeqNum, numCommitted, toCommit, fromIEW>>

SquashFromTrap == SquashAllStatus("TrapPending")
SquashFromTC == \E status \in {"Running", "ROBSquashing", "SquashAfterPending"} :
                    SquashAllStatus(status)
SquashFromSquashAfter == SquashAllStatus("SquashAfterPending")

NoSquashAll ==
    /\ at = "squash"
    /\ commitStatus # "SquashAfterPending"
    /\ at' = "iewsquash"
    /\ UNCHANGED <<rnvars, frontvars, fromRename, iewBlock, robvars,
                   commitvars, commitInfo, toCommit, fromIEW>>

(* Mutant: a squash from IEW is taken whatever its age.                     *)
IEWSquashesAlways ==
    fromIEW.squashedSeqNum # None /\ commitStatus # "TrapPending"

(* Squashes requested by IEW in the previous cycle, unless everything down  *)
(* to an older instruction has been squashed since.                         *)
IEWSquashes ==
    /\ fromIEW.squashedSeqNum # None
    /\ commitStatus # "TrapPending"
    /\ fromIEW.squashedSeqNum <= youngestSeqNum

SquashFromIEW ==
    /\ at = "iewsquash"
    /\ IEWSquashes
    /\ LET s == IF fromIEW.includeSquashInst
                THEN fromIEW.squashedSeqNum - 1 ELSE fromIEW.squashedSeqNum
       IN  /\ ROBSquash(s)
           /\ commitInfo' = SquashSignalFor(s)
           /\ youngestSeqNum' = s
    /\ commitStatus' = "ROBSquashing"
    /\ at' = "end"
    /\ UNCHANGED <<rnvars, frontvars, fromRename, iewBlock, commitMap,
                   lastCommitedSeqNum, numCommitted, toCommit, fromIEW>>

NoSquashFromIEW ==
    /\ at = "iewsquash"
    /\ ~IEWSquashes
    /\ at' = IF commitStatus = "ROBSquashing" THEN "end" ELSE "insts"
    /\ UNCHANGED <<rnvars, frontvars, fromRename, iewBlock, robvars,
                   commitvars, commitInfo, toCommit, fromIEW>>

(* Commit::getInsts, which only runs while nothing is being squashed: the   *)
(* instructions that rename sent enter the ROB one after the other.         *)
GetInst ==
    /\ at = "insts"
    /\ fromRename # <<>>
    /\ fromRename' = Tail(fromRename)
    /\ IF Head(fromRename).squashed
          \/ commitStatus \in {"ROBSquashing", "TrapPending"}
       THEN UNCHANGED <<rob, youngestSeqNum>>
       ELSE /\ rob' = Append(rob, Head(fromRename))
            /\ youngestSeqNum' = Head(fromRename).seqNum
    /\ UNCHANGED <<rnvars, at, frontvars, iewBlock, squashedSeqNum, squashIt,
                   doneSquashing, commitStatus, commitMap, lastCommitedSeqNum,
                   numCommitted, commitInfo, toCommit, fromIEW>>

GetInstsEnd ==
    /\ at = "insts"
    /\ fromRename = <<>>
    /\ at' = "retire"
    /\ UNCHANGED <<rnvars, frontvars, fromRename, iewBlock, robvars,
                   commitvars, commitInfo, toCommit, fromIEW>>

(* Commit::commitInsts: the head is retired if it is squashed, committed if *)
(* it is done, or raises a trap if it has a fault and is the first one.     *)
HeadReady ==
    /\ at = "retire"
    /\ numCommitted < CommitWidth
    /\ commitStatus = "Running"
    /\ rob # <<>> /\ Head(rob).canCommit

RetireSquashed ==
    /\ HeadReady
    /\ Head(rob).squashed
    /\ rob' = Tail(rob)
    /\ UNCHANGED <<rnvars, at, frontvars, fromRename, iewBlock, squashedSeqNum,
                   squashIt, doneSquashing, commitvars, commitInfo, toCommit,
                   fromIEW>>

(* The destinations of an instruction, and each one's last register: the    *)
(* loop of commitHead() over them overwrites the earlier ones.              *)
DestRegs(i) == Range(i.dest)
LastDest(i, a, k) ==
    i.dest[k] = a /\ \A j \in DOMAIN i.dest : i.dest[j] = a => j <= k

CommitHead(squashAfter) ==
    /\ HeadReady
    /\ ~Head(rob).squashed
    /\ \E last \in [DestRegs(Head(rob)) -> DOMAIN Head(rob).dest] :
        /\ \A a \in DestRegs(Head(rob)) : LastDest(Head(rob), a, last[a])
        /\ commitMap' = [a \in ArchReg |-> IF a \in DestRegs(Head(rob))
                                          THEN Head(rob).renamed[last[a]]
                                          ELSE commitMap[a]]
    /\ rob' = Tail(rob)
    /\ numCommitted' = numCommitted + 1
    /\ lastCommitedSeqNum' = Head(rob).seqNum
    /\ commitInfo' = [commitInfo EXCEPT !.doneSeqNum = Head(rob).seqNum]
    /\ commitStatus' = IF squashAfter THEN "SquashAfterPending" ELSE "Running"
    /\ UNCHANGED <<rnvars, at, frontvars, fromRename, iewBlock, squashedSeqNum,
                   squashIt, doneSquashing, youngestSeqNum, toCommit, fromIEW>>

FaultHead ==
    /\ HeadReady
    /\ ~Head(rob).squashed
    /\ numCommitted = 0
    /\ commitStatus' = "TrapPending"
    /\ at' = "end"
    /\ UNCHANGED <<rnvars, frontvars, fromRename, iewBlock, robvars, commitMap,
                   youngestSeqNum, lastCommitedSeqNum, numCommitted,
                   commitInfo, toCommit, fromIEW>>

(* The head cannot commit in this cycle, or has a fault and waits: for the  *)
(* next cycle if another instruction committed in this one, or for stores   *)
(* to be written.                                                           *)
RetireEnd ==
    /\ at = "retire"
    /\ HeadReady => ~Head(rob).squashed
    /\ at' = "end"
    /\ UNCHANGED <<rnvars, frontvars, fromRename, iewBlock, robvars,
                   commitvars, commitInfo, toCommit, fromIEW>>

(* markCompletedInsts(), and the wires advance to the next cycle.           *)
CycleEnd ==
    /\ at = "end"
    /\ at' = "signals"
    /\ rob' = [i \in DOMAIN rob |->
                IF rob[i].seqNum = fromIEW.executed
                THEN [rob[i] EXCEPT !.canCommit = TRUE] ELSE rob[i]]
    /\ fromIEW' = toCommit
    /\ toCommit' = NoIEW
    /\ fromRename' = toROB
    /\ toROB' = <<>>
    /\ refill' = IF refill = 0 THEN 0 ELSE refill - 1
    /\ UNCHANGED <<rnvars, seqNum, inst, iewBlock, squashedSeqNum, squashIt,
                   doneSquashing, commitvars, commitInfo>>

-----------------------------------------------------------------------------
RenameTick(Dests) ==
    \/ SquashSignal \/ UndoStep \/ UndoEnd \/ NoSquashSignal
    \/ \E dest \in Dests : RenameInst(dest)
    \/ RenameDestStep \/ SendInst \/ RenameEnd \/ RemoveStep \/ RemoveEnd

IEWTick ==
    \/ IEWIdle
    \/ \E i \in DOMAIN rob, v \in DOMAIN rob \cup {None} : IEWExecute(i, v)

CommitTick ==
    \/ CommitStart
    \/ SquashFromTrap \/ SquashFromSquashAfter \/ NoSquashAll
    \/ SquashFromIEW \/ NoSquashFromIEW
    \/ GetInst \/ GetInstsEnd
    \/ RetireSquashed \/ FaultHead \/ RetireEnd \/ CycleEnd
    \/ \E squashAfter \in BOOLEAN : CommitHead(squashAfter)

RRNext ==
    RenameTick(Seq(ArchReg)) \/ IEWTick \/ CommitTick \/ SquashFromTC

RRSpec == RRInit /\ [][RRNext]_rvars

-----------------------------------------------------------------------------
CommitStatus == {"Running", "ROBSquashing", "TrapPending",
                 "SquashAfterPending"}

(* Type correctness. In particular the iterator of ROB::doSquash is an      *)
(* instruction of the ROB while the ROB squashes, and the end otherwise.    *)
RRTypeOK ==
    /\ renameMap \in [ArchReg -> PhysReg]
    /\ freeList \in Seq(PhysReg)
    /\ historyBuffer \in Seq(RenameHistory)
    /\ freeingInProgress \in Seq(PhysReg)
    /\ commitMap \in [ArchReg -> PhysReg]
    /\ rob \in Seq(DynInst) /\ toROB \in Seq(DynInst)
    /\ fromRename \in Seq(DynInst)
    /\ inst \in DynInst \cup {None}
    /\ commitStatus \in CommitStatus
    /\ squashIt \in 0 .. Len(rob)
    /\ doneSquashing <=> squashIt = 0

Uncommitted(h) == h.instSeqNum > lastCommitedSeqNum

(* The map of the commit stage is what rename would have after undoing every*)
(* instruction that has not committed: for each register the one replaced by*)
(* the oldest uncommitted entry, or the current one if there is none. So a  *)
(* squash of everything (a trap) restores the architectural registers, and  *)
(* both ends of the pipeline agree through every signal delay               *)
(* (Rename::doSquash, removeFromHistory, Commit::commitHead).               *)
CommitMapInHistory ==
    \A a \in ArchReg :
        LET uncommitted == {i \in DOMAIN historyBuffer :
                                /\ historyBuffer[i].archReg = a
                                /\ Uncommitted(historyBuffer[i])}
        IN  IF uncommitted = {} THEN commitMap[a] = renameMap[a]
            ELSE \E i \in uncommitted :
                    /\ \A j \in uncommitted : i <= j
                    /\ historyBuffer[i].prevPhysReg = commitMap[a]

(* A register that holds architectural state is never free or about to be,  *)
(* although the free list learns of a commit a cycle late.                  *)
CommittedHeld ==
    \A a \in ArchReg :
        commitMap[a] \notin Range(freeList) \cup Range(freeingInProgress)

(* Rename::doSquash delays the freeing of registers "until they are indeed  *)
(* squashed in the commit stage": no instruction in the ROB that is not     *)
(* marked squashed reads or writes a register that has been freed.          *)
NoOwnershipHazard ==
    \A i \in DOMAIN rob :
        ~rob[i].squashed =>
            Range(freeList) \cap (Range(rob[i].renamed) \cup
                                  {rob[i].src[a] : a \in ArchReg}) = {}

(* A squash signal never covers an instruction that has committed, whatever *)
(* traps, thread-context writes and late squashes from IEW meet in a cycle. *)
SquashSparesCommitted ==
    commitInfo.squash => commitInfo.doneSeqNum >= lastCommitedSeqNum

InFlight == Range(toROB) \cup Range(fromRename) \cup Range(rob)

(* No instruction is lost between rename and the ROB: one that has renamed a*)
(* destination and has not committed is on its way to the ROB, or in it, or *)
(* a squash that covers it is signalled or must follow (a trap). Commit     *)
(* drops what arrives while it squashes (Commit::commit), so this rests on  *)
(* IEW stalling rename while the ROB squashes and on the refill delay.      *)
NoneDropped ==
    \A i \in DOMAIN historyBuffer :
        LET s == historyBuffer[i].instSeqNum
        IN  \/ s <= lastCommitedSeqNum
            \/ \E d \in InFlight : d.seqNum = s /\ ~d.squashed
            \/ inst # None /\ inst.seqNum = s
            \/ commitInfo.squash /\ s > commitInfo.doneSeqNum
            \/ commitStatus = "TrapPending"

(* getReg() never finds the free list empty: the test made for the whole    *)
(* instruction (canRename) still holds for each of its destinations.        *)
RegsLeft ==
    inst # None =>
        Cardinality({i \in DOMAIN inst.dest : /\ i > Len(inst.renamed)
                                              /\ inst.dest[i] \notin MiscReg})
            <= Len(freeList)

(* Registers taken back from squashed instructions become free in the end:  *)
(* the ROB does not report for ever that it is squashing.                   *)
RegistersReturned == freeingInProgress # <<>> ~> freeingInProgress = <<>>

(* The ROB drains when no more instructions come: traps, squashes and       *)
(* instructions marked squashed never leave commit waiting for ever.        *)
Drains == rob # <<>> ~> rob = <<>>
=============================================================================
