----------------------------- MODULE TageHistory -----------------------------
(***************************************************************************)
(* The histories that TAGE indexes its tables with (pred/tage_base.cc): a  *)
(* long direction history kept in a buffer that is filled downwards and    *)
(* copied up when it is full, folded histories that compress its first     *)
(* OrigLength bits into CompLength, and the path history of address bits.  *)
(* Every branch, also on the wrong path, pushes one bit when it is         *)
(* predicted (takenOnlyHistory off); a squash takes the bit out again.     *)
(***************************************************************************)
EXTENDS Integers

CONSTANTS
    HistBufferSize, MaxHist,
    RollbackBuffer,     \* 1000 in the code: bits copied besides the last MaxHist
    PathHistBits,
    Folded,             \* the folded histories: an index and two tags per table
    OrigLength, CompLength

ASSUME TageAssumption ==
    /\ MaxHist \in Nat \ {0} /\ RollbackBuffer \in Nat \ {0}
    /\ HistBufferSize \in Nat /\ PathHistBits \in Nat \ {0}
    /\ HistBufferSize > MaxHist * 3
    /\ HistBufferSize >= 2 * (MaxHist + RollbackBuffer)
    /\ OrigLength \in [Folded -> 1 .. MaxHist]
    /\ CompLength \in [Folded -> Nat \ {0}]

Bit == {0, 1}

(* The fields of TageBase's ThreadHistory, and the type of the path history. *)
PathReg == [0 .. PathHistBits - 1 -> Bit]
IsTage(t) ==
    /\ t = [x \in {"globalHist", "ptGhist", "pathHist", "nonSpecPathHist", "comp"}
               |-> t[x]]
    /\ t.pathHist \in PathReg

NewHistory ==
    [globalHist |-> [i \in 0 .. HistBufferSize - 1 |-> 0], ptGhist |-> 0,
     pathHist |-> [i \in 0 .. PathHistBits - 1 |-> 0],
     nonSpecPathHist |-> [i \in 0 .. PathHistBits - 1 |-> 0],
     comp |-> [f \in Folded |-> [j \in 0 .. CompLength[f] - 1 |-> 0]]]

(* A history register shifted left by one, its newest bit at 0. *)
Shift(h, b) == [i \in DOMAIN h |-> IF i = 0 THEN b ELSE h[i - 1]]

-----------------------------------------------------------------------------
OutPoint(f) == OrigLength[f] % CompLength[f]

(* FoldedHistory::update, bit by bit: comp rotates left, the newest bit     *)
(* enters at 0 and the bit that leaves the window is taken out where the    *)
(* rotations have brought it. h[p] is the newest bit.                       *)
FoldUpdate(f, c, h, p) ==
    [j \in 0 .. CompLength[f] - 1 |->
        ((IF j = 0 THEN c[CompLength[f] - 1] + h[p] ELSE c[j - 1])
         + (IF j = OutPoint(f) THEN h[p + OrigLength[f]] ELSE 0)) % 2]

(* Mutant: the bit that left the window does not come back.                 *)
FoldRestoreNoOld(f, c, h, p) ==
    LET C == CompLength[f]
        b == [j \in 0 .. C - 1 |-> IF j = 0 THEN c[0] + h[p] ELSE c[j]]
    IN  [j \in 0 .. C - 1 |-> (IF j = C - 1 THEN b[0] ELSE b[j + 1]) % 2]

(* FoldedHistory::restore, its inverse. *)
FoldRestore(f, c, h, p) ==
    LET C == CompLength[f]
        b == [j \in 0 .. C - 1 |->
                c[j] + (IF j = OutPoint(f) THEN h[p + OrigLength[f]] ELSE 0)
                     + (IF j = 0 THEN h[p] ELSE 0)]
    IN  [j \in 0 .. C - 1 |-> (IF j = C - 1 THEN b[0] ELSE b[j + 1]) % 2]

-----------------------------------------------------------------------------
(* Mutant: only the last MaxHist bits are copied. *)
RollOverShort(t) ==
    LET top == HistBufferSize - MaxHist
    IN  [t EXCEPT !.ptGhist = top,
                  !.globalHist = [i \in 0 .. HistBufferSize - 1 |->
                        IF i >= top THEN t.globalHist[t.ptGhist + i - top]
                                    ELSE t.globalHist[i]]]

(* The first bits move to the end of the buffer when it has no room left at *)
(* its beginning; they are enough to undo every branch in flight.           *)
RollOver(t) ==
    LET top == HistBufferSize - MaxHist - RollbackBuffer
    IN  [t EXCEPT !.ptGhist = top,
                  !.globalHist = [i \in 0 .. HistBufferSize - 1 |->
                        IF i >= top THEN t.globalHist[t.ptGhist + i - top]
                                    ELSE t.globalHist[i]]]

UpdateGHist(t, b) ==
    LET r == IF t.ptGhist < 1 THEN RollOver(t) ELSE t
        p == r.ptGhist - 1
        h == [r.globalHist EXCEPT ![p] = b]
    IN  [r EXCEPT !.globalHist = h, !.ptGhist = p,
                  !.comp = [f \in Folded |-> FoldUpdate(f, r.comp[f], h, p)]]

(* updatePathAndGlobalHistory: one bit of the address, one of the outcome. *)
PushHistories(t, addrBit, b) ==
    UpdateGHist([t EXCEPT !.pathHist = Shift(@, addrBit)], b)

(* restoreHistState: saved is the path history recorded by recordHistState. *)
RestoreHistState(t, saved) ==
    [t EXCEPT !.pathHist = saved,
              !.comp = [f \in Folded |->
                    FoldRestore(f, t.comp[f], t.globalHist, t.ptGhist)],
              !.ptGhist = @ + 1]

(* updateHistories of a committed branch. *)
CommitHistories(t, saved, addrBit) ==
    [t EXCEPT !.nonSpecPathHist = Shift(saved, addrBit)]
=============================================================================
