--------------------------- MODULE IndirectHistory ---------------------------
(***************************************************************************)
(* The histories of the indirect target predictor                          *)
(* (pred/simple_indirect.cc): a global direction register, and a queue of  *)
(* the targets of indirect branches, whose last PathLength entries are     *)
(* hashed with the register into the index of the target cache. What the   *)
(* cache holds is left open: a lookup may hit or miss.                     *)
(***************************************************************************)
EXTENDS Integers, Sequences

CONSTANTS
    GHRBits,
    PathLength,             \* indirectPathLength
    SpeculativePathLength   \* room for the targets of branches in flight

ASSUME IndirectAssumption ==
    GHRBits \in Nat \ {0} /\ PathLength \in Nat \ {0}
    /\ SpeculativePathLength \in Nat

NewIndirect == [ghr |-> [i \in 0 .. GHRBits - 1 |-> 0], pathHist |-> <<>>]

(* The last PathLength targets, which is what getSetIndex hashes. *)
LastTargets(s) ==
    SubSeq(s, IF Len(s) > PathLength THEN Len(s) - PathLength + 1 ELSE 1, Len(s))

(* Everything that goes into set_index and tag (getSetIndex, getTag). *)
IndexOf(d, pcAddr) ==
    [pc |-> pcAddr, ghr |-> d.ghr, path |-> LastTargets(d.pathHist)]

DropLast(s) == IF s = <<>> THEN s ELSE SubSeq(s, 1, Len(s) - 1)

UpdateDirectionInfo(g, b) ==
    [i \in 0 .. GHRBits - 1 |-> IF i = 0 THEN b ELSE g[i - 1]]

(* update() at the prediction: the direction of every branch and the target *)
(* of an indirect one.                                                      *)
IndirectPush(d, indirect, target, b) ==
    [ghr |-> UpdateDirectionInfo(d.ghr, b),
     pathHist |-> IF indirect THEN Append(d.pathHist, target) ELSE d.pathHist]

(* Mutant: the target stays in the queue.                                   *)
UndoGhrOnly(d, indirect, savedGhr) == [d EXCEPT !.ghr = savedGhr]

(* squash(): the saved register, and the target taken out. *)
IndirectUndo(d, indirect, savedGhr) ==
    [ghr |-> savedGhr,
     pathHist |-> IF indirect THEN DropLast(d.pathHist) ELSE d.pathHist]

(* Mutant: one more target is dropped.                                      *)
TrimShort(d) ==
    LET n == Len(d.pathHist)
        most == PathLength + SpeculativePathLength
    IN  [d EXCEPT !.pathHist = IF n >= most - 1 THEN SubSeq(d.pathHist, n - most + 3, n)
                               ELSE d.pathHist]

(* commit(): old targets are dropped while the queue has PathLength +       *)
(* SpeculativePathLength entries or more.                                   *)
Trim(d) ==
    LET n == Len(d.pathHist)
        most == PathLength + SpeculativePathLength
    IN  [d EXCEPT !.pathHist =
            IF n >= most THEN SubSeq(d.pathHist, n - most + 2, n) ELSE d.pathHist]
=============================================================================
