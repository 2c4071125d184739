-------------------------- MODULE BranchFoldProofs --------------------------
(***************************************************************************)
(* A folded history is kept up bit by bit, and stays the parities of the   *)
(* window that it stands for: a push moves every bit of the window one     *)
(* further back and round the folding, drops the oldest and adds the       *)
(* newest, and so changes the number of ones behind each folded bit by     *)
(* these two alone. With it the theorems about the histories and the       *)
(* index, for any window and folded length.                                *)
(***************************************************************************)
EXTENDS BranchHistoryProofs, FiniteSetTheorems

-----------------------------------------------------------------------------
(* Remainders of neighbouring numbers.                                      *)
LEMMA Remainder ==
    ASSUME NEW i \in Nat, NEW c \in Nat \ {0}
    PROVE  i % c \in 0 .. c - 1 /\ i \div c \in Int /\ i = c * (i \div c) + (i % c)
  OBVIOUS

(* The bit before j, going round. *)
PrevBit(f, j) == IF j = 0 THEN CompLength[f] - 1 ELSE j - 1

(* The bits that fold into j are those that folded into the bit before it,  *)
(* one further back, without the one that leaves the window and with the    *)
(* new one.                                                                 *)
LEMMA WindowShift ==
    ASSUME NEW f \in Folded, NEW bk \in History, NEW b \in Bit,
           NEW j \in 0 .. CompLength[f] - 1
    PROVE  LET A == Window(bk, f, PrevBit(f, j)) IN
           /\ IsFiniteSet(A)
           /\ Window(Shift(bk, b), f, j) =
                {i + 1 : i \in IF j = OutPoint(f) THEN A \ {OrigLength[f] - 1} ELSE A}
                \cup (IF j = 0 /\ b = 1 THEN {0} ELSE {})
           /\ j = OutPoint(f) => (OrigLength[f] - 1 \in A <=> bk[OrigLength[f] - 1] = 1)
  (* The remainder is unique.                                                 *)
  <1>SameRemainder. ASSUME NEW c \in Nat \ {0}, NEW p \in Int, NEW q \in Int,
                           NEW r \in 0 .. c - 1, NEW s \in 0 .. c - 1, c * p + r = c * q + s
                    PROVE  r = s
    BY <1>SameRemainder
  (* It counts round from 0 to c - 1.                                         *)
  <1>NextRemainder. ASSUME NEW i \in Nat, NEW c \in Nat \ {0}
                    PROVE  (i + 1) % c = IF i % c = c - 1 THEN 0 ELSE (i % c) + 1
    <2> USE <1>NextRemainder
    <2> DEFINE p == (i + 1) \div c
               q == i \div c
               r == (i + 1) % c
               s == i % c
    <2>1. /\ p \in Int /\ q \in Int /\ r \in 0 .. c - 1 /\ s \in 0 .. c - 1
          /\ i = c * q + s /\ i + 1 = c * p + r
      BY Remainder
    <2> HIDE DEF p, q, r, s
    <2>2. CASE s = c - 1
      <3>1. c * p + r = c * (q + 1) + 0
        BY <2>1, <2>2
      <3>2. r = 0
        BY <2>1, <3>1, <1>SameRemainder
      <3> QED
        BY <2>2, <3>2, Zenon DEF r, s
    <2>3. CASE s # c - 1
      <3>1. c * p + r = c * q + (s + 1)
        BY <2>1, <2>3
      <3>2. r = s + 1
        BY <2>1, <2>3, <3>1, <1>SameRemainder
      <3> QED
        BY <2>3, <3>2, Zenon DEF r, s
    <2> QED
      BY <2>2, <2>3, Zenon
  <1> DEFINE L == OrigLength[f]
             C == CompLength[f]
             A == Window(bk, f, PrevBit(f, j))
             B == IF j = OutPoint(f) THEN A \ {L - 1} ELSE A
             W == Window(Shift(bk, b), f, j)
             N == IF j = 0 /\ b = 1 THEN {0} ELSE {}
  <1>1. L \in 1 .. MaxHist /\ C \in Nat \ {0} /\ MaxHist \in Nat
    BY TageAssumption, Zenon
  <1>2. IsFiniteSet(A)
    <2>1. IsFiniteSet(0 .. L - 1)
      <3>1. L - 1 \in Int /\ 0 \in Int
        BY <1>1
      <3> QED
        BY <3>1, FS_Interval, Zenon
    <2>2. A \in SUBSET (0 .. L - 1)
      BY Zenon DEF Window
    <2> QED
      BY <2>1, <2>2, FS_Subset, Zenon
  <1>3. \A i \in Nat : (i + 1) % C = j <=> i % C = PrevBit(f, j)
    <2>1. ASSUME NEW i \in Nat
          PROVE  (i + 1) % C = j <=> i % C = PrevBit(f, j)
      <3>1. /\ i % C \in 0 .. C - 1
            /\ (i + 1) % C = IF i % C = C - 1 THEN 0 ELSE (i % C) + 1
        BY <1>1, Remainder, <1>NextRemainder, Zenon
      <3>2. PICK s : s = i % C
        BY Zenon
      <3>3. PICK r : r = (i + 1) % C
        BY Zenon
      <3> QED
        BY <1>1, <3>1, <3>2, <3>3 DEF PrevBit
    <2> QED
      BY <2>1, Zenon
  <1>4. 0 % C = 0
    BY <1>1
  <1>5. OutPoint(f) = L % C /\ L - 1 \in Nat /\ (L - 1) + 1 = L
    BY <1>1 DEF OutPoint
  <1>6. j = OutPoint(f) => (L - 1 \in A <=> bk[L - 1] = 1)
    BY <1>1, <1>3, <1>5 DEF Window
  <1>7. \A i \in 0 .. L - 1 : i + 1 \in 0 .. L - 1 <=> i # L - 1
    BY <1>1
  <1>8. \A i \in A : i \in B <=> i # L - 1
    <2>1. L - 1 \in A => j = OutPoint(f)
      BY <1>3, <1>5, Zenon DEF Window
    <2> QED
      BY <2>1, Zenon
  <1>9. /\ Shift(bk, b)[0] = b
        /\ \A i \in Nat : Shift(bk, b)[i + 1] = bk[i]
    BY ShiftHistory, Zenon
  <1>10. \A i \in Nat : i \in A <=> i \in 0 .. L - 1 /\ i % C = PrevBit(f, j) /\ bk[i] = 1
    BY Zenon DEF Window
  <1>11. \A x \in 0 .. L - 1 : x \in W <=> x % C = j /\ Shift(bk, b)[x] = 1
    BY Zenon DEF Window
  <1>12. 0 \in W <=> 0 \in N
    BY <1>1, <1>4, <1>9, <1>11
  <1>13. \A i \in Nat : i + 1 \in W <=> i \in B
    <2>1. ASSUME NEW i \in Nat
          PROVE  i + 1 \in W <=> i \in B
      <3>1. i + 1 \in W <=> i + 1 \in 0 .. L - 1 /\ (i + 1) % C = j
                            /\ Shift(bk, b)[i + 1] = 1
        BY Zenon DEF Window
      <3>2. i + 1 \in W <=> i \in 0 .. L - 1 /\ i # L - 1 /\ i % C = PrevBit(f, j)
                            /\ bk[i] = 1
        <4>1. i + 1 \in 0 .. L - 1 <=> i \in 0 .. L - 1 /\ i # L - 1
          BY <1>1
        <4> QED
          BY <1>3, <1>9, <3>1, <4>1, Zenon
      <3> QED
        BY <1>8, <1>10, <3>2, Zenon
    <2> QED
      BY <2>1, Zenon
  <1>14. W \subseteq Nat /\ B \subseteq Nat
    BY DEF Window
  <1> HIDE DEF W, B, A
  <1>15. W = {i + 1 : i \in B} \cup N
    <2>1. ASSUME NEW x \in W PROVE x \in {i + 1 : i \in B} \cup N
      <3>1. CASE x = 0
        BY <1>12, <2>1, <3>1, Zenon
      <3>2. CASE x # 0
        <4>1. x - 1 \in Nat /\ (x - 1) + 1 = x
          BY <1>14, <3>2
        <4>2. x - 1 \in B
          BY <1>13, <2>1, <4>1, Zenon
        <4> QED
          BY <4>1, <4>2, Zenon
      <3> QED
        BY <3>1, <3>2, Zenon
    <2>2. ASSUME NEW i \in B PROVE i + 1 \in W
      BY <1>13, <1>14, Zenon
    <2>3. N \subseteq W
      BY <1>12, Zenon
    <2> QED
      BY <2>1, <2>2, <2>3, Zenon
  <1> QED
    BY <1>2, <1>6, <1>15, Zenon DEF W, B, A

(* So the number of ones that fold into a bit changes by the new bit and    *)
(* the one that leaves the window.                                          *)
LEMMA FoldCount ==
    ASSUME NEW f \in Folded, NEW bk \in History, NEW b \in Bit,
           NEW j \in 0 .. CompLength[f] - 1
    PROVE  /\ Cardinality(Window(bk, f, PrevBit(f, j))) \in Nat
           /\ Cardinality(Window(Shift(bk, b), f, j)) =
                Cardinality(Window(bk, f, PrevBit(f, j)))
                - (IF j = OutPoint(f) THEN bk[OrigLength[f] - 1] ELSE 0)
                + (IF j = 0 THEN b ELSE 0)
  (* The image of a finite set under the successor has as many elements.      *)
  <1>SuccCard. ASSUME NEW S \in SUBSET Nat, IsFiniteSet(S)
               PROVE  /\ IsFiniteSet({i + 1 : i \in S})
                      /\ Cardinality({i + 1 : i \in S}) = Cardinality(S)
    <2> USE <1>SuccCard
    <2> DEFINE T == {i + 1 : i \in S}
               g == [i \in S |-> i + 1]
    <2>1. g \in [S -> T]
      BY Zenon
    <2>2. \A x, y \in S : g[x] = g[y] => x = y
      OBVIOUS
    <2>3. \A t \in T : \E s \in S : g[s] = t
      BY Zenon
    <2>4. g \in Bijection(S, T)
      BY <2>1, <2>2, <2>3, Zenon DEF Bijection, Injection, Surjection, IsInjective
    <2>5. ExistsBijection(S, T)
      BY <2>4, Zenon DEF ExistsBijection
    <2> QED
      BY <2>5, FS_Bijection, Zenon
  <1> DEFINE L == OrigLength[f]
             A == Window(bk, f, PrevBit(f, j))
             B == IF j = OutPoint(f) THEN A \ {L - 1} ELSE A
             S == {i + 1 : i \in B}
             W == Window(Shift(bk, b), f, j)
             out == IF j = OutPoint(f) THEN bk[L - 1] ELSE 0
  <1>1. /\ IsFiniteSet(A)
        /\ W = S \cup (IF j = 0 /\ b = 1 THEN {0} ELSE {})
        /\ j = OutPoint(f) => (L - 1 \in A <=> bk[L - 1] = 1)
    BY WindowShift, Zenon
  <1>2. A \in SUBSET Nat /\ B \in SUBSET Nat
    BY DEF Window
  <1>3. L - 1 \in Nat
    BY TageAssumption
  <1>4. bk[L - 1] \in {0, 1}
    BY <1>3, Zenon DEF History, Bit
  <1> HIDE DEF A, W, L
  <1>5. Cardinality(A) \in Nat
    BY <1>1, FS_CardinalityType, Zenon
  <1>6. IsFiniteSet(B) /\ Cardinality(B) = Cardinality(A) - out
    <2>1. CASE j = OutPoint(f)
      <3>1. /\ IsFiniteSet(A \ {L - 1})
            /\ Cardinality(A \ {L - 1}) =
                 IF L - 1 \in A THEN Cardinality(A) - 1 ELSE Cardinality(A)
        BY <1>1, FS_RemoveElement, Zenon
      <3>2. CASE bk[L - 1] = 1
        BY <1>1, <1>5, <2>1, <3>1, <3>2, Zenon
      <3>3. CASE bk[L - 1] = 0
        BY <1>1, <1>5, <2>1, <3>1, <3>3
      <3> QED
        BY <1>4, <3>2, <3>3, Zenon
    <2>2. CASE j # OutPoint(f)
      BY <1>1, <1>5, <2>2
    <2> QED
      BY <2>1, <2>2, Zenon
  <1> HIDE DEF B
  <1>7. IsFiniteSet(S) /\ Cardinality(S) = Cardinality(B)
    BY <1>2, <1>6, <1>SuccCard, Zenon
  <1>8. 0 \notin S
    <2>1. \A i \in B : i + 1 # 0
      BY <1>2
    <2> QED
      BY <2>1, Zenon
  <1> HIDE DEF S
  <1>9. Cardinality(W) = Cardinality(S) + (IF j = 0 THEN b ELSE 0)
    <2>1. Cardinality(S) \in Nat
      BY <1>7, FS_CardinalityType, Zenon
    <2>2. CASE j = 0 /\ b = 1
      <3>1. W = S \cup {0}
        BY <1>1, <2>2, Zenon
      <3>2. Cardinality(S \cup {0}) = Cardinality(S) + 1
        BY <1>7, <1>8, FS_AddElement, Zenon
      <3> QED
        BY <2>2, <3>1, <3>2, Zenon
    <2>3. CASE ~(j = 0 /\ b = 1)
      <3>1. W = S
        BY <1>1, <2>3, Zenon
      <3> QED
        BY <2>1, <2>3, <3>1 DEF Bit
    <2> QED
      BY <2>2, <2>3, Zenon
  <1> QED
    BY <1>5, <1>6, <1>7, <1>9, Zenon DEF A, W, L

(* FoldedHistory::update keeps the folding.                                 *)
LEMMA FoldPush ==
    ASSUME NEW f \in Folded, NEW bk \in History, NEW b \in Bit,
           NEW c, IsFold(c, f, bk),
           NEW h, NEW p \in Nat, h[p] = b,
           h[p + OrigLength[f]] = bk[OrigLength[f] - 1]
    PROVE  IsFold(FoldUpdate(f, c, h, p), f, Shift(bk, b))
  <1> SUFFICES ASSUME NEW j \in 0 .. CompLength[f] - 1
               PROVE  FoldUpdate(f, c, h, p)[j]
                      = Cardinality(Window(Shift(bk, b), f, j)) % 2
    BY Zenon DEF IsFold
  <1>1. CompLength[f] \in Nat \ {0} /\ OrigLength[f] - 1 \in Nat
    BY TageAssumption
  <1>2. PrevBit(f, j) \in 0 .. CompLength[f] - 1
    BY <1>1 DEF PrevBit
  <1>3. PICK m : m = Cardinality(Window(bk, f, PrevBit(f, j)))
    BY Zenon
  <1>4. PICK o : o = IF j = OutPoint(f) THEN bk[OrigLength[f] - 1] ELSE 0
    BY Zenon
  <1>5. PICK e : e = IF j = 0 THEN b ELSE 0
    BY Zenon
  <1>6. o \in {0, 1} /\ e \in {0, 1}
    BY <1>1, <1>4, <1>5, Zenon DEF History, Bit
  <1>7. m \in Nat /\ Cardinality(Window(Shift(bk, b), f, j)) = m - o + e
    BY <1>3, <1>4, <1>5, FoldCount, ZenonT(30)
  <1>8. c[PrevBit(f, j)] = m % 2
    BY <1>2, <1>3, Zenon DEF IsFold
  <1>9. FoldUpdate(f, c, h, p)[j] = ((m % 2) + e + o) % 2
    <2>1. FoldUpdate(f, c, h, p)[j] =
            ((IF j = 0 THEN c[CompLength[f] - 1] + h[p] ELSE c[j - 1])
             + (IF j = OutPoint(f) THEN h[p + OrigLength[f]] ELSE 0)) % 2
      BY Zenon DEF FoldUpdate
    <2>2. CASE j = 0
      <3>1. c[CompLength[f] - 1] = m % 2 /\ e = b
        BY <1>5, <1>8, <2>2, Zenon DEF PrevBit
      <3> QED
        BY <1>4, <2>1, <2>2, <3>1, Zenon
    <2>3. CASE j # 0
      <3>1. c[j - 1] = m % 2 /\ e = 0 /\ m % 2 \in Nat
        BY <1>5, <1>7, <1>8, <2>3 DEF PrevBit
      <3>2. (m % 2) + 0 = m % 2
        BY <3>1
      <3> QED
        BY <1>4, <2>1, <2>3, <3>1, <3>2, ZenonT(30)
    <2> QED
      BY <2>2, <2>3, Zenon
  <1>10. ((m % 2) + e + o) % 2 = (m - o + e) % 2
    BY <1>6, <1>7
  <1> QED
    BY <1>7, <1>9, <1>10, Zenon

(* FoldedHistory::restore undoes it.                                        *)
LEMMA FoldUndo ==
    ASSUME NEW f \in Folded, NEW bk \in History,
           NEW c, IsFold(c, f, bk),
           NEW h, NEW p \in Nat, h[p] = bk[0],
           h[p + OrigLength[f]] = bk[OrigLength[f]]
    PROVE  IsFold(FoldRestore(f, c, h, p), f, Unshift(bk))
  <1> SUFFICES ASSUME NEW j \in 0 .. CompLength[f] - 1
               PROVE  FoldRestore(f, c, h, p)[j]
                      = Cardinality(Window(Unshift(bk), f, j)) % 2
    BY Zenon DEF IsFold
  <1> DEFINE C == CompLength[f]
             k == IF j = C - 1 THEN 0 ELSE j + 1
             u == Unshift(bk)
  <1>1. C \in Nat \ {0} /\ OrigLength[f] - 1 \in Nat
        /\ (OrigLength[f] - 1) + 1 = OrigLength[f]
    BY TageAssumption
  <1>2. k \in 0 .. C - 1 /\ PrevBit(f, k) = j
    BY <1>1 DEF PrevBit
  <1>3. /\ u \in History /\ Shift(u, bk[0]) = bk
        /\ u[OrigLength[f] - 1] = bk[OrigLength[f]]
    <2>1. bk[0] \in Bit
      BY Zenon DEF History
    <2> QED
      BY <1>1, <2>1, ShiftHistory
  <1>4. PICK m : m = Cardinality(Window(u, f, j))
    BY Zenon
  <1>5. PICK o : o = IF k = OutPoint(f) THEN bk[OrigLength[f]] ELSE 0
    BY Zenon
  <1>6. PICK e : e = IF k = 0 THEN bk[0] ELSE 0
    BY Zenon
  <1>7. o \in {0, 1} /\ e \in {0, 1} /\ bk[0] \in Bit
    BY <1>1, <1>5, <1>6 DEF History, Bit
  <1> HIDE DEF k, u
  <1>8. m \in Nat /\ Cardinality(Window(bk, f, k)) = m - o + e
    BY <1>2, <1>3, <1>4, <1>5, <1>6, <1>7, FoldCount
  <1>9. c[k] = (m - o + e) % 2
    BY <1>2, <1>8, Zenon DEF IsFold
  <1>10. FoldRestore(f, c, h, p)[j] = (c[k] + o + e) % 2
    <2> DEFINE bb == [i \in 0 .. C - 1 |->
                c[i] + (IF i = OutPoint(f) THEN h[p + OrigLength[f]] ELSE 0)
                     + (IF i = 0 THEN h[p] ELSE 0)]
    <2>1. FoldRestore(f, c, h, p)[j] = (IF j = C - 1 THEN bb[0] ELSE bb[j + 1]) % 2
      BY Zenon DEF FoldRestore
    <2>2. (IF j = C - 1 THEN bb[0] ELSE bb[j + 1]) = bb[k]
      BY Zenon DEF k
    <2>3. bb[k] = c[k] + o + e
      BY <1>2, <1>5, <1>6, Zenon
    <2> QED
      BY <2>1, <2>2, <2>3, Zenon
  <1>11. (((m - o + e) % 2) + o + e) % 2 = m % 2
    BY <1>7, <1>8
  <1> QED
    BY <1>4, <1>9, <1>10, <1>11, Zenon DEF u

(* Every folding keeps up with the history (FoldedHistory).                 *)
LEMMA FoldsKept == FoldsKeepUp
  <1>1. ASSUME NEW f \in Folded, NEW bk \in History, \A i \in Nat : bk[i] = 0
        PROVE  IsFold([j \in 0 .. CompLength[f] - 1 |-> 0], f, bk)
    <2> SUFFICES ASSUME NEW j \in 0 .. CompLength[f] - 1
                 PROVE  0 = Cardinality(Window(bk, f, j)) % 2
      BY Zenon DEF IsFold
    <2>1. OrigLength[f] \in Nat
      BY TageAssumption
    <2>2. Window(bk, f, j) = {}
      BY <1>1, <2>1 DEF Window
    <2>3. Cardinality({}) = 0 /\ 0 % 2 = 0
      BY FS_EmptySet
    <2> QED
      BY <2>2, <2>3, Zenon
  <1> QED
    BY <1>1, FoldPush, FoldUndo, ZenonT(30) DEF FoldsKeepUp

-----------------------------------------------------------------------------
(* Whatever is predicted, squashed, corrected and committed, and wherever   *)
(* the buffer rolls over, the history registers hold the last branches of   *)
(* the path, and looking back never leaves the buffer (updateGHist,         *)
(* restoreHistState and its assert, updateHistories).                       *)
THEOREM HistoryTheorem == Spec => []HistoryIsPath
  <1>1. BTypeOK /\ HistInv => HistoryIsPath
    <2> SUFFICES ASSUME BTypeOK, HistInv PROVE HistoryIsPath
      BY Zenon
    <2>1. PICK n : n = Len(predHist)
      BY ZenonT(30)
    <2>2. /\ n \in Nat /\ tage.ptGhist \in Nat /\ MaxHist \in Nat /\ HistBufferSize \in Nat
          /\ tage.ptGhist + MaxHist + n < HistBufferSize
          /\ \A i \in 0 .. HistBufferSize - 1 - tage.ptGhist :
               tage.globalHist[tage.ptGhist + i] = Path(n)[i]
      BY <2>1, TageAssumption DEF HistInv, Holds, BTypeOK, BPTypeOK
    <2>3. tage.ptGhist + MaxHist < HistBufferSize
      BY <2>2
    <2>4. \A i \in 0 .. MaxHist : i \in 0 .. HistBufferSize - 1 - tage.ptGhist
      BY <2>2
    <2>5. \A i \in 0 .. MaxHist : tage.globalHist[tage.ptGhist + i] = TakenBack(n, i)
      BY <2>2, <2>4, SMTT(20) DEF Path
    <2>6. \A i \in 0 .. PathHistBits - 1 : /\ tage.pathHist[i] = AddrBack(n, i)
                                           /\ tage.nonSpecPathHist[i] = AddrBack(0, i)
      BY <2>1 DEF HistInv, Prefix, Addrs
    <2>7. \A i \in 0 .. GHRBits - 1 : ind.ghr[i] = TakenBack(n, i)
      BY <2>1 DEF HistInv, Prefix, Path
    <2> QED
      BY <2>1, <2>3, <2>5, <2>6, <2>7, Zenon DEF HistoryIsPath
  <1> QED
    BY <1>1, HistCorrectness, FoldsKept, PTL

(* The folding that is kept up bit by bit, with all its undone steps, is    *)
(* the parity that it stands for, for every window and folded length        *)
(* (FoldedHistory::update and restore).                                     *)
THEOREM FoldedTheorem == Spec => []FoldedIsParity
  <1>1. BTypeOK /\ HistInv => FoldedIsParity
    <2> SUFFICES ASSUME BTypeOK, HistInv, NEW f \in Folded,
                        NEW j \in 0 .. CompLength[f] - 1
                 PROVE  tage.comp[f][j] = Cardinality({i \in 0 .. OrigLength[f] - 1 :
                    i % CompLength[f] = j /\ TakenBack(Len(predHist), i) = 1}) % 2
      BY Zenon DEF FoldedIsParity
    <2>1. OrigLength[f] \in Nat
      BY TageAssumption
    <2>2. Window(Path(Len(predHist)), f, j) =
            {i \in 0 .. OrigLength[f] - 1 :
                i % CompLength[f] = j /\ TakenBack(Len(predHist), i) = 1}
      BY <2>1, SMTT(20) DEF Window, Path
    <2>3. tage.comp[f][j] = Cardinality(Window(Path(Len(predHist)), f, j)) % 2
      BY Zenon DEF HistInv, Folds, IsFold
    <2> QED
      BY <2>2, <2>3, ZenonT(30)
  <1> QED
    BY <1>1, HistCorrectness, FoldsKept, PTL

(* The index under which a mispredicted indirect branch records its target  *)
(* is that of the path before the branch, for any history lengths           *)
(* (SimpleIndirectPredictor::lookup, update).                               *)
THEOREM IndexTheorem ==
    ASSUME MaxInFlight <= SpeculativePathLength
    PROVE  Spec => []IndexIsContext
  <1>1. BTypeOK /\ HistInv /\ TargetInv => IndexIsContext
    <2> SUFFICES ASSUME BTypeOK, HistInv, TargetInv,
                        NEW k \in DOMAIN predHist, predHist[k].pcAddr # Null
                 PROVE  predHist[k].index
                          = [pc |-> predHist[k].sn,
                             ghr |-> [i \in 0 .. GHRBits - 1 |-> TakenBack(k - 1, i)],
                             path |-> LastTargets(predHist[k].targets)]
      BY Zenon DEF IndexIsContext
    <2>1. predHist \in Seq(Record) /\ k \in 1 .. Len(predHist)
      BY DEF BTypeOK, BPTypeOK
    <2>2. /\ predHist[k].index = [pc |-> predHist[k].sn, ghr |-> predHist[k].ghr,
                                  path |-> LastTargets(predHist[k].targets)]
      BY <2>1, Zenon DEF TargetInv, IndexOK
    <2>3. predHist[k].ghr = Prefix(Path(k - 1), GHRBits)
      BY <2>1, Zenon DEF HistInv
    <2>4. Prefix(Path(k - 1), GHRBits)
            = [i \in 0 .. GHRBits - 1 |-> TakenBack(k - 1, i)]
      <3>1. \A i \in 0 .. GHRBits - 1 : i \in Nat
        BY IndirectAssumption
      <3> QED
        BY <3>1, Zenon DEF Prefix, Path
    <2> QED
      BY <2>2, <2>3, <2>4, ZenonT(30)
  <1> QED
    BY <1>1, TargetCorrectness, HistCorrectness, FoldsKept, PTL
=============================================================================
