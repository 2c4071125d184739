--------------------------- MODULE BranchFrontEnd ---------------------------
(***************************************************************************)
(* The branch prediction unit in the pipeline: the stages of one cycle     *)
(* (BAC, fetch, decode, commit, in the order of CPU::tick) and the signals *)
(* that decode and commit send back, which BAC reads a cycle later. The    *)
(* front end is the coupled one: fetch asks for a prediction when it meets *)
(* a branch. Only branches are modelled; what lies between them shows in   *)
(* where a squash may cut. A loop of the code is one step per iteration.   *)
(***************************************************************************)
EXTENDS BPredUnit, FiniteSets

CONSTANTS
    Types,          \* the kinds of branches the program has
    MaxInFlight     \* records the pipeline has room for, from fetch to commit

ASSUME FrontEndAssumption ==
    Types \subseteq BranchType /\ MaxInFlight \in 1 .. RollbackBuffer

VARIABLES
    at,             \* the stage that is ticking
    insts,          \* branches in the pipeline, oldest first
    decodeInfo,     \* what decode sent to BAC
    commitInfo,     \* what commit sent to BAC and decode
    seqNum          \* sequence numbers given out

fevars == <<at, insts, decodeInfo, commitInfo, seqNum>>
bvars == <<bpvars, fevars>>

NoSignal == [squash |-> FALSE, doneSeqNum |-> 0, mispredict |-> FALSE,
             taken |-> FALSE]

Init ==
    /\ BPInit
    /\ at = "bac" /\ insts = <<>> /\ seqNum = 0
    /\ decodeInfo = NoSignal /\ commitInfo = NoSignal

Goto(stage) == at' = stage /\ UNCHANGED <<insts, decodeInfo, commitInfo, seqNum>>

-----------------------------------------------------------------------------
(***************************************************************************)
(* BAC::checkAndUpdateBPUSignals                                           *)
(***************************************************************************)

(* BPredUnit::update(): the branches that commit says are done. *)
ToCommit == /\ ~commitInfo.squash
            /\ predHist # <<>> /\ Oldest.sn <= commitInfo.doneSeqNum

CommitStep ==
    /\ at = "bac" /\ ToCommit
    /\ CommitBranch
    /\ UNCHANGED fevars

(* Mutant: the squash of decode is served first. *)
DecodeFirst == IF decodeInfo.squash THEN decodeInfo ELSE commitInfo

(* Commit's squash is served, and decode's then forgotten. *)
Squash == IF commitInfo.squash THEN commitInfo ELSE decodeInfo

(* Mutant: the squashed instruction's own record is undone as well.         *)
ToSquashOwn == predHist # <<>> /\ Newest.sn >= Squash.doneSeqNum

(* BPredUnit::squash(): the records younger than the squashed instruction. *)
ToSquash == predHist # <<>> /\ Newest.sn > Squash.doneSeqNum

BacSquash ==
    /\ at = "bac" /\ ~ToCommit /\ Squash.squash
    /\ Goto("squash") /\ UNCHANGED bpvars

SquashStep ==
    /\ at = "squash" /\ ToSquash
    /\ SquashHistory
    /\ UNCHANGED fevars

(* Then the mispredicted branch is corrected; fetch does not run.           *)
SquashCorrect ==
    /\ at = "squash" /\ ~ToSquash
    /\ Squash.mispredict /\ predHist # <<>>
    /\ Correct(Squash.taken)
    /\ Goto("decode")

SquashEnd ==
    /\ at = "squash" /\ ~ToSquash
    /\ ~Squash.mispredict \/ predHist = <<>>
    /\ Goto("decode") /\ UNCHANGED bpvars

BacEnd ==
    /\ at = "bac" /\ ~ToCommit /\ ~Squash.squash
    /\ Goto("fetch") /\ UNCHANGED bpvars

-----------------------------------------------------------------------------
(* BAC::updatePC for a branch that fetch meets. *)
FetchBranch(type, cond, btbHit, hit) ==
    LET sn == seqNum + 1 IN
    /\ at = "fetch" /\ Len(predHist) < MaxInFlight
    /\ Predict(sn, type, cond, btbHit, hit)
    /\ seqNum' = sn
    /\ insts' = Append(insts, [sn |-> sn, type |-> type, stage |-> "fetch",
                               predTaken |-> predHist'[Len(predHist')].predTaken])
    /\ UNCHANGED <<at, decodeInfo, commitInfo>>

FetchEnd == at = "fetch" /\ Goto("decode") /\ UNCHANGED bpvars

-----------------------------------------------------------------------------
(* A squash after the i-th branch leaves the older ones and it. *)
Upto(i) == SubSeq(insts, 1, i)

(* The oldest branch that decode has not seen. *)
Waiting(i) == /\ i \in DOMAIN insts /\ insts[i].stage = "decode"
              /\ \A j \in 1 .. i - 1 : insts[j].stage # "decode"

(* Decode compares the target of a direct branch that jumps, or is expected *)
(* to, with the predicted one. wrong: they differ, and all that is younger  *)
(* leaves the pipeline.                                                     *)
DecodeBranch(i, wrong) ==
    LET x == insts[i] IN
    /\ at = "decode" /\ ~commitInfo.squash
    /\ Waiting(i)
    /\ wrong => IsDirect(x.type) /\ (IsUncondCtrl(x.type) \/ x.predTaken)
    /\ insts' = [IF wrong THEN Upto(i) ELSE insts EXCEPT ![i].stage = "rename"]
    /\ decodeInfo' = IF ~wrong THEN NoSignal
                     ELSE [squash |-> TRUE, doneSeqNum |-> x.sn, mispredict |-> TRUE,
                           taken |-> x.predTaken \/ IsUncondCtrl(x.type)]
    /\ at' = IF wrong THEN "commit" ELSE "decode"
    /\ UNCHANGED <<commitInfo, seqNum, bpvars>>

(* No branch left, no more decoded in this cycle, or a squash from commit. *)
DecodeEnd ==
    /\ at = "decode"
    /\ at' = "commit" /\ decodeInfo' = NoSignal
    /\ UNCHANGED <<insts, commitInfo, seqNum, bpvars>>

-----------------------------------------------------------------------------
(* The time buffers advance: what a stage did in this cycle the next stage  *)
(* sees in the next one.                                                    *)
Advance(s) ==
    [i \in DOMAIN s |-> [s[i] EXCEPT !.stage =
        CASE @ = "fetch" -> "decode" [] @ = "rename" -> "iew" [] OTHER -> @]]

NextCycle(left, info) ==
    /\ at = "commit"
    /\ at' = "bac" /\ insts' = Advance(left) /\ commitInfo' = info
    /\ UNCHANGED <<decodeInfo, seqNum, bpvars>>

(* A branch executes and was predicted right, or nothing happens. *)
ExecuteRight(i) ==
    /\ insts[i].stage = "iew"
    /\ NextCycle([insts EXCEPT ![i].stage = "done"], NoSignal)

CommitIdle == NextCycle(insts, NoSignal)

(* Mutant: the direction that the executed instruction reports is used for  *)
(* every branch.                                                            *)
CommitTakenAsIs(type, branching) == branching

(* Commit::commit for a misprediction: an unconditional branch is taken,    *)
(* even if its target is the next instruction.                              *)
CommitTaken(type, branching) == branching \/ IsUncondCtrl(type)

(* Whether execution may find the branch mispredicted: decode has already   *)
(* settled the target of a direct one.                                      *)
MayMispredict(x, branching) ==
    IF x.type = "DirectCond" THEN branching = ~x.predTaken ELSE ~IsDirect(x.type)

ExecuteWrong(i, branching) ==
    LET x == insts[i] IN
    /\ x.stage = "iew" /\ MayMispredict(x, branching)
    /\ NextCycle([Upto(i) EXCEPT ![i].stage = "done"],
                 [squash |-> TRUE, doneSeqNum |-> x.sn, mispredict |-> TRUE,
                  taken |-> CommitTaken(x.type, branching)])

(* The branches up to insts[n] retire in one cycle. *)
Retire(n) ==
    /\ \A i \in 1 .. n : insts[i].stage = "done"
    /\ NextCycle(SubSeq(insts, n + 1, Len(insts)),
                 [NoSignal EXCEPT !.doneSeqNum = insts[n].sn])

(* A trap, a memory order violation or another squash after an instruction  *)
(* that is not a mispredicted branch: everything after insts[n], or all.    *)
(* That instruction has been renamed, and so has every branch before it.    *)
SquashOther(n) ==
    /\ n > 0 => insts[n].stage \in {"iew", "done"}
    /\ NextCycle(Upto(n),
                 [NoSignal EXCEPT !.squash = TRUE,
                  !.doneSeqNum = IF n = 0 THEN 0 ELSE insts[n].sn])

-----------------------------------------------------------------------------
BacTick == CommitStep \/ BacSquash \/ SquashStep \/ SquashCorrect \/ SquashEnd \/ BacEnd

FetchTick == \/ \E type \in Types, cond, btbHit, hit \in BOOLEAN :
                    FetchBranch(type, cond, btbHit, hit)
             \/ FetchEnd

DecodeTick == \/ \E i \in DOMAIN insts, wrong \in BOOLEAN : DecodeBranch(i, wrong)
              \/ DecodeEnd

CommitTick ==
    \/ CommitIdle
    \/ \E i \in DOMAIN insts :
         \/ ExecuteRight(i) \/ Retire(i)
         \/ \E branching \in BOOLEAN : ExecuteWrong(i, branching)
    \/ \E n \in 0 .. Len(insts) : SquashOther(n)

Next == BacTick \/ FetchTick \/ DecodeTick \/ CommitTick

Spec == Init /\ [][Next]_bvars
-----------------------------------------------------------------------------
(***************************************************************************)
(* Properties. The path is what the pipeline now takes for the program's   *)
(* control flow: the committed branches and then those in flight, each     *)
(* with the direction last predicted or corrected.                         *)
(***************************************************************************)

(* The direction and the address bit of the i-th branch back from the n-th  *)
(* record; n = Len(predHist) looks back from now.                           *)
TakenBack(n, i) ==
    IF i < n THEN TakenBit(predHist[n - i].actuallyTaken)
    ELSE IF i - n < Len(done) THEN TakenBit(done[Len(done) - (i - n)].taken) ELSE 0

AddrBack(n, i) ==
    IF i < n THEN AddrBit(predHist[n - i].sn)
    ELSE IF i - n < Len(done) THEN AddrBit(done[Len(done) - (i - n)].sn) ELSE 0

(* Whatever was predicted, squashed, corrected and committed in between,   *)
(* and wherever the history buffer rolled over, each history register      *)
(* holds exactly the last branches of the path, and looking MaxHist bits   *)
(* back never leaves the buffer (updateGHist, restoreHistState and its     *)
(* assert, updateHistories, genIndirectInfo).                              *)
HistoryIsPath ==
    LET n == Len(predHist) IN
    /\ tage.ptGhist + MaxHist < HistBufferSize
    /\ \A i \in 0 .. MaxHist : tage.globalHist[tage.ptGhist + i] = TakenBack(n, i)
    /\ \A i \in 0 .. PathHistBits - 1 : /\ tage.pathHist[i] = AddrBack(n, i)
                                        /\ tage.nonSpecPathHist[i] = AddrBack(0, i)
    /\ \A i \in 0 .. GHRBits - 1 : ind.ghr[i] = TakenBack(n, i)

(* The incremental folding, with all its undone steps, is the folding that *)
(* it stands for: bit j of a folded history is the parity of the bits at   *)
(* distance j, j + CompLength, ... in its window (FoldedHistory).          *)
FoldedIsParity ==
    \A f \in Folded : \A j \in 0 .. CompLength[f] - 1 :
        tage.comp[f][j] = Cardinality({i \in 0 .. OrigLength[f] - 1 :
            i % CompLength[f] = j /\ TakenBack(Len(predHist), i) = 1}) % 2

(* The entry k below the top of the circular stack. *)
Slot(k) == IF k <= ras.tos THEN ras.tos - k ELSE ras.tos - k + NumEntries

(* Wrong-path calls and returns leave no trace at the top of the stack: as *)
(* far down as no deeper call has overwritten it, it holds the return      *)
(* addresses of the calls that the path is in, innermost first             *)
(* (ReturnAddrStack::squash, BPredUnit::squash).                           *)
ReturnsToCaller ==
    /\ kept <= NumEntries /\ kept <= Len(callers)
    /\ \A k \in 0 .. kept - 1 :
         ras.addrStack[Slot(k)] = callers[Len(callers) - k]

(* ras.cc says of a call or return that commits without a record: "The     *)
(* only case where we could have no history at this point is for a         *)
(* conditional call that is not taken." So an unconditional one has moved  *)
(* the stack by the time it commits, unless it needs a BTB hit to be seen. *)
CommitsWithRecord ==
    ToCommit /\ at = "bac" /\ ~requiresBTBHit
    => Oldest.ras.op = RasOp(Oldest.type, TRUE)

(* When fetch goes on, the unit has one record for each branch in the      *)
(* pipeline and no other: none leaks and none is missing, whatever squash  *)
(* overtook another (checkAndUpdateBPUSignals, drainSanityCheck).          *)
RecordsAreBranches ==
    at = "fetch" => /\ Len(predHist) = Len(insts)
                    /\ \A i \in DOMAIN insts : predHist[i].sn = insts[i].sn

(* The record that squash() corrects, simply the newest one left, is that  *)
(* of the mispredicted branch.                                             *)
CorrectsMispredicted ==
    at = "squash" /\ ~ToSquash /\ Squash.mispredict
    => predHist # <<>> /\ Newest.sn = Squash.doneSeqNum

(* BranchPredictor.py, on speculativePathLength: "If there are more        *)
(* speculative branches in flight the history cannot be recovered." With   *)
(* no more than that, the targets hashed for an indirect branch are always *)
(* the last ones of the path (SimpleIndirectPredictor::commit, squash).    *)
TargetsRecovered == LastTargets(ind.pathHist) = LastTargets(targets)

(* A mispredicted indirect branch records its target where the next lookup *)
(* in the same context will look: the recalculated index, like the first,  *)
(* is that of the path before the branch (SimpleIndirectPredictor::update).*)
IndexIsContext ==
    \A k \in DOMAIN predHist : predHist[k].pcAddr # Null =>
        predHist[k].index = [pc |-> predHist[k].sn,
                             ghr |-> [i \in 0 .. GHRBits - 1 |-> TakenBack(k - 1, i)],
                             path |-> LastTargets(predHist[k].targets)]
=============================================================================
