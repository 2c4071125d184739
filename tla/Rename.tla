------------------------------- MODULE Rename -------------------------------
(***************************************************************************)
(* Register renaming of the O3 CPU, one thread and one register class: the *)
(* rename map (UnifiedRenameMap), the free list (a std::queue), the history*)
(* buffer that records what each instruction replaced, and the registers   *)
(* of squashed instructions that wait for the ROB before they are freed.   *)
(* Every operation here is one iteration of a loop of rename.cc; RenameROB *)
(* puts them in the order of a cycle.                                      *)
(***************************************************************************)
EXTENDS Naturals, Sequences, FiniteSets

CONSTANTS
    ArchReg,    \* architectural registers
    MiscReg,    \* those that are never renamed
    PhysReg,    \* physical registers
    InitMap,    \* the mapping set up by the CPU's constructor
    InitFree    \* the free list after it

ASSUME RenameAssumption ==
    /\ MiscReg \subseteq ArchReg
    /\ InitMap \in [ArchReg -> PhysReg]
    /\ InitFree \in Seq(PhysReg)
    /\ \A a, b \in ArchReg : InitMap[a] = InitMap[b] => a = b
    /\ \A i, j \in DOMAIN InitFree : InitFree[i] = InitFree[j] => i = j
    /\ \A p \in PhysReg : (\E a \in ArchReg : InitMap[a] = p)
                          <=> ~(\E i \in DOMAIN InitFree : InitFree[i] = p)

VARIABLES
    renameMap,          \* architectural to physical register
    freeList,           \* next register to hand out first
    historyBuffer,      \* oldest entry first
    freeingInProgress   \* registers of squashed instructions

rnvars == <<renameMap, freeList, historyBuffer, freeingInProgress>>

RenameHistory == [instSeqNum : Nat, archReg : ArchReg,
                  newPhysReg : PhysReg, prevPhysReg : PhysReg]

RenameInit ==
    /\ renameMap = InitMap
    /\ freeList = InitFree
    /\ historyBuffer = <<>>
    /\ freeingInProgress = <<>>

-----------------------------------------------------------------------------
(* Mutant: one free register is enough for an instruction.                  *)
CanRenameOne(dest) == freeList # <<>>

(* UnifiedRenameMap::canRename: a free register for each destination that   *)
(* is really renamed.                                                       *)
CanRename(dest) ==
    Cardinality({i \in DOMAIN dest : dest[i] \notin MiscReg}) <= Len(freeList)

(* The register that rename() gives to architectural register a.            *)
RenamedReg(a) == IF a \in MiscReg THEN renameMap[a] ELSE Head(freeList)

(* One destination of renameDestRegs(): the map, the free list and the      *)
(* history buffer.                                                          *)
RenameDest(seqNum, a) ==
    /\ a \notin MiscReg => freeList # <<>>
    /\ renameMap' = [renameMap EXCEPT ![a] = RenamedReg(a)]
    /\ freeList' = IF a \in MiscReg THEN freeList ELSE Tail(freeList)
    /\ historyBuffer' = Append(historyBuffer,
            [instSeqNum |-> seqNum, archReg |-> a,
             newPhysReg |-> RenamedReg(a), prevPhysReg |-> renameMap[a]])
    /\ UNCHANGED freeingInProgress

Newest == historyBuffer[Len(historyBuffer)]
Oldest == Head(historyBuffer)

(* Mutant: the map keeps the register of the squashed instruction.          *)
UndoNewestKeepsMap ==
    /\ historyBuffer # <<>>
    /\ IF Newest.newPhysReg # Newest.prevPhysReg
       THEN freeingInProgress' = Append(freeingInProgress, Newest.newPhysReg)
       ELSE UNCHANGED freeingInProgress
    /\ historyBuffer' = SubSeq(historyBuffer, 1, Len(historyBuffer) - 1)
    /\ UNCHANGED <<renameMap, freeList>>

(* One iteration of doSquash(): the newest entry is undone.                 *)
UndoNewest ==
    /\ historyBuffer # <<>>
    /\ IF Newest.newPhysReg # Newest.prevPhysReg
       THEN /\ renameMap' = [renameMap EXCEPT
                                ![Newest.archReg] = Newest.prevPhysReg]
            /\ freeingInProgress' = Append(freeingInProgress,
                                           Newest.newPhysReg)
       ELSE UNCHANGED <<renameMap, freeingInProgress>>
    /\ historyBuffer' = SubSeq(historyBuffer, 1, Len(historyBuffer) - 1)
    /\ UNCHANGED freeList

(* Mutant: also the registers that are not renamed are freed.               *)
FreeOldestAlways ==
    /\ historyBuffer # <<>>
    /\ freeList' = Append(freeList, Oldest.prevPhysReg)
    /\ historyBuffer' = Tail(historyBuffer)
    /\ UNCHANGED <<renameMap, freeingInProgress>>

(* One iteration of removeFromHistory(): the oldest entry belongs to a      *)
(* committed instruction, and what it replaced is free.                     *)
FreeOldest ==
    /\ historyBuffer # <<>>
    /\ freeList' = IF Oldest.newPhysReg # Oldest.prevPhysReg
                   THEN Append(freeList, Oldest.prevPhysReg) ELSE freeList
    /\ historyBuffer' = Tail(historyBuffer)
    /\ UNCHANGED <<renameMap, freeingInProgress>>

(* Mutant: the registers are freed while the ROB is still squashing.        *)
ReleaseFreeingEarly(robSquashing) ==
    /\ freeList' = freeList \o freeingInProgress
    /\ freeingInProgress' = <<>>
    /\ UNCHANGED <<renameMap, historyBuffer>>

(* checkSignalsAndUpdate() without a squash: once the ROB is done, the      *)
(* registers of the squashed instructions are free.                         *)
ReleaseFreeing(robSquashing) ==
    /\ IF robSquashing THEN UNCHANGED <<freeList, freeingInProgress>>
       ELSE /\ freeList' = freeList \o freeingInProgress
            /\ freeingInProgress' = <<>>
    /\ UNCHANGED <<renameMap, historyBuffer>>

-----------------------------------------------------------------------------
(* The places where a physical register can be.                             *)
Mapped(p) == \E a \in ArchReg : renameMap[a] = p
Free(p) == \E i \in DOMAIN freeList : freeList[i] = p
Freeing(p) == \E i \in DOMAIN freeingInProgress : freeingInProgress[i] = p
Replaces(h) == h.newPhysReg # h.prevPhysReg
Replaced(p) == \E i \in DOMAIN historyBuffer :
                    /\ Replaces(historyBuffer[i])
                    /\ historyBuffer[i].prevPhysReg = p

(* The three parts of ownership: somewhere, in one kind of place, once.     *)
NoneLost ==
    \A p \in PhysReg : Mapped(p) \/ Free(p) \/ Freeing(p) \/ Replaced(p)
OnePlace ==
    \A p \in PhysReg : /\ ~(Mapped(p) /\ Free(p))
                       /\ ~(Mapped(p) /\ Freeing(p))
                       /\ ~(Mapped(p) /\ Replaced(p))
                       /\ ~(Free(p) /\ Freeing(p))
                       /\ ~(Free(p) /\ Replaced(p))
                       /\ ~(Freeing(p) /\ Replaced(p))
Once ==
    /\ \A a, b \in ArchReg : renameMap[a] = renameMap[b] => a = b
    /\ \A i, j \in DOMAIN freeList : freeList[i] = freeList[j] => i = j
    /\ \A i, j \in DOMAIN freeingInProgress :
            freeingInProgress[i] = freeingInProgress[j] => i = j
    /\ \A i, j \in DOMAIN historyBuffer :
            /\ Replaces(historyBuffer[i])
            /\ Replaces(historyBuffer[j])
            /\ historyBuffer[i].prevPhysReg = historyBuffer[j].prevPhysReg
            => i = j

(* No physical register is lost and none has two owners: each is in exactly *)
(* one place, once: mapped, free, waiting to be freed, or held by the entry *)
(* of the instruction that replaced it (rename.cc, rename_map.cc,           *)
(* free_list.hh). A register freed twice would be given to two              *)
(* instructions at once; a lost one shrinks the machine for ever.           *)
Ownership == NoneLost /\ OnePlace /\ Once

(* Entry i is the newest one for its register; entry j is the next newer one*)
(* for the register of entry i.                                             *)
IsNewest(i) == \A j \in DOMAIN historyBuffer :
                    j > i => historyBuffer[j].archReg # historyBuffer[i].archReg
NextEntry(i, j) ==
    /\ j > i
    /\ historyBuffer[j].archReg = historyBuffer[i].archReg
    /\ \A k \in DOMAIN historyBuffer :
            i < k /\ k < j => historyBuffer[k].archReg # historyBuffer[i].archReg

(* The history of each register is a chain that ends in the rename map: the *)
(* register an entry introduced is the one the next newer entry replaced, or*)
(* the current one. This is why undoing the newest entry (doSquash) is right*)
(* whatever was committed, undone and renamed before. Only entries of       *)
(* registers that are not renamed keep the register they had.               *)
HistoryChain ==
    \A i \in DOMAIN historyBuffer :
        /\ Replaces(historyBuffer[i]) <=> historyBuffer[i].archReg \notin MiscReg
        /\ IsNewest(i) => renameMap[historyBuffer[i].archReg]
                                = historyBuffer[i].newPhysReg
        /\ \A j \in DOMAIN historyBuffer :
                NextEntry(i, j) => historyBuffer[j].prevPhysReg
                                        = historyBuffer[i].newPhysReg
=============================================================================
