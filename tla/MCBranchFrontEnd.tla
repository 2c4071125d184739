-------------------------- MODULE MCBranchFrontEnd --------------------------
(* BranchFrontEnd for a bounded number of branches.                          *)
EXTENDS BranchFrontEnd

CONSTANT MaxSeqNum      \* branches that are fetched, on right and wrong paths

MCFolded == {"index", "tag"}
MCOrigLength == [f \in MCFolded |-> IF f = "index" THEN 3 ELSE 2]
MCCompLength == [f \in MCFolded |-> IF f = "index" THEN 2 ELSE 3]

(* The run starts after some branches that were not taken, at addresses     *)
(* whose path bit is 0: a reset state but for the place in the buffer. The  *)
(* third branch fetched, and every one after a squash that takes the place  *)
(* back to there, finds the buffer full.                                    *)
MCInit ==
    /\ tage = [NewHistory EXCEPT !.ptGhist = 2]
    /\ predHist = <<>>
    /\ done = <<>> /\ callers = <<>> /\ kept = 0 /\ targets = <<>>
    /\ ras = EmptyStack /\ ind = NewIndirect
    /\ requiresBTBHit \in BOOLEAN
    /\ at = "bac" /\ insts = <<>> /\ seqNum = 0
    /\ decodeInfo = NoSignal /\ commitInfo = NoSignal

MCNext ==
    \/ BacTick \/ DecodeTick \/ CommitTick
    \/ FetchEnd
    \/ \E type \in Types, cond, btbHit, hit \in BOOLEAN :
         seqNum < MaxSeqNum /\ FetchBranch(type, cond, btbHit, hit)

MCSpec == MCInit /\ [][MCNext]_bvars

=============================================================================
