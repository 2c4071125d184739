----------------------------- MODULE MCRenameROB -----------------------------
(* RenameROB on a small instance: three registers, the last never renamed.   *)
EXTENDS RenameROB

CONSTANTS
    NumPhys,    \* physical registers 1 .. NumPhys
    MaxSeq,     \* instructions renamed in a behaviour
    Eager,      \* whether decode always has instructions
    ManyDests,  \* the instructions that may have several destinations
    MaxTC       \* thread-context writes in a behaviour

VARIABLE tcWrites

MCInitMap == [a \in ArchReg |-> a]
MCPhysReg == 1 .. NumPhys
MCInitFree == [i \in 1 .. NumPhys - Cardinality(ArchReg) |->
                    i + Cardinality(ArchReg)]
MCDests == IF seqNum + 1 \in ManyDests THEN {<<1>>, <<3, 2, 1>>} ELSE {<<1>>}

BoundedTC == tcWrites < MaxTC /\ SquashFromTC /\ tcWrites' = tcWrites + 1

(* With Eager, rename stops only when it has to.                             *)
MCRenameEnd ==
    /\ RenameEnd
    /\ Eager => \/ seqNum = MaxSeq \/ iewBlock \/ refill # 0
                \/ Len(toROB) = RenameWidth
                \/ \A dest \in MCDests : ~CanRename(dest)

MCRenameTick ==
    \/ SquashSignal \/ UndoStep \/ UndoEnd \/ NoSquashSignal
    \/ seqNum < MaxSeq /\ \E dest \in MCDests : RenameInst(dest)
    \/ RenameDestStep \/ SendInst \/ MCRenameEnd \/ RemoveStep \/ RemoveEnd

MCNext ==
    \/ (MCRenameTick \/ IEWTick \/ CommitTick) /\ UNCHANGED tcWrites
    \/ BoundedTC

MCInit == RRInit /\ tcWrites = 0

MCSpec == MCInit /\ [][MCNext]_<<rvars, tcWrites>>

(* The clock ticks, the oldest instruction is executed in the end, a head    *)
(* with a fault does not wait for stores for ever, and the trap's latency    *)
(* passes.                                                                   *)
Execute == \E v \in DOMAIN rob \cup {None} :
                rob # <<>> /\ IEWExecute(1, v) /\ UNCHANGED tcWrites
Commit == /\ FaultHead \/ \E squashAfter \in BOOLEAN : CommitHead(squashAfter)
          /\ UNCHANGED tcWrites
Trap == SquashFromTrap /\ UNCHANGED tcWrites
MCFairSpec ==
    /\ MCSpec
    /\ WF_<<rvars, tcWrites>>(MCNext)
    /\ SF_<<rvars, tcWrites>>(Execute)
    /\ SF_<<rvars, tcWrites>>(Commit)
    /\ SF_<<rvars, tcWrites>>(Trap)
=============================================================================
