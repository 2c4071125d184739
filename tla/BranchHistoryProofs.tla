------------------------ MODULE BranchHistoryProofs ------------------------
(***************************************************************************)
(* What the predictors remember of the path. The queue of indirect targets *)
(* ends with the targets of the path, for any lengths with room for the    *)
(* branches in flight. The direction and path histories are those of the   *)
(* path, for every buffer size, history length and number of branches in   *)
(* flight that TageAssumption and FrontEndAssumption allow, and so is the  *)
(* index of an indirect branch. A history is a function from distances     *)
(* back in time to bits. That a folding keeps up with one bit more or      *)
(* less, FoldsKeepUp, is arithmetic on cardinalities and proved, with the  *)
(* theorems that rest on it, in BranchFoldProofs.                          *)
(***************************************************************************)
EXTENDS BranchRecordsProofs

(* The queue q is the list of targets t without its first d. *)
IsSuffix(q, t, d) ==
    /\ d \in Nat /\ Len(t) = d + Len(q)
    /\ \A i \in 1 .. Len(q) : q[i] = t[d + i]

(* A suffix with PathLength entries, or all, has the same last targets.     *)
LEMMA SuffixLast ==
    ASSUME NEW q \in Seq(Target), NEW t \in Seq(Target), NEW d, IsSuffix(q, t, d),
           d # 0 => Len(q) >= PathLength
    PROVE  LastTargets(q) = LastTargets(t)
  <1>1. /\ d \in Nat /\ Len(t) = d + Len(q) /\ Len(q) \in Nat /\ Len(t) \in Nat
        /\ \A i \in 1 .. Len(q) : q[i] = t[d + i]
    BY DEF IsSuffix
  <1>2. PathLength \in Nat \ {0}
    BY IndirectAssumption, Zenon
  <1>3. CASE d = 0
    <2>1. Len(q) = Len(t) /\ \A i \in 1 .. Len(q) : q[i] = t[i]
      BY <1>1, <1>3
    <2>2. q = t
      BY <2>1
    <2> QED
      BY <2>2, Zenon
  <1>4. CASE d # 0
    <2>1. PICK a : a = Len(q) - PathLength + 1
      BY Zenon
    <2>2. PICK b : b = Len(t) - PathLength + 1
      BY Zenon
    <2>3. /\ a \in Nat \ {0} /\ b = d + a /\ a \in Int /\ b \in Int
          /\ Len(q) - a + 1 = PathLength /\ Len(t) - b + 1 = PathLength
          /\ a <= Len(q) /\ b <= Len(t) /\ Len(t) > PathLength /\ b \in Nat \ {0}
      BY <1>1, <1>2, <1>4, <2>1, <2>2
    <2>4. /\ LastTargets(q) = SubSeq(q, a, Len(q))
          /\ LastTargets(t) = SubSeq(t, b, Len(t))
      <3>1. (IF Len(q) > PathLength THEN Len(q) - PathLength + 1 ELSE 1) = a
        BY <1>1, <1>2, <1>4, <2>1
      <3>2. (IF Len(t) > PathLength THEN Len(t) - PathLength + 1 ELSE 1) = b
        BY <2>2, <2>3, Zenon
      <3> QED
        BY <3>1, <3>2, Zenon DEF LastTargets
    <2>5. (\A i \in a .. Len(q) : q[i] \in Target) /\ \A i \in b .. Len(t) : t[i] \in Target
      BY <2>3, SMTT(20)
    <2>6. /\ SubSeq(q, a, Len(q)) \in Seq(Target)
          /\ Len(SubSeq(q, a, Len(q))) = PathLength
          /\ \A i \in 1 .. PathLength : SubSeq(q, a, Len(q))[i] = q[a + i - 1]
      BY <1>1, <2>3, <2>5, SMTT(20)
    <2>7. /\ SubSeq(t, b, Len(t)) \in Seq(Target)
          /\ Len(SubSeq(t, b, Len(t))) = PathLength
          /\ \A i \in 1 .. PathLength : SubSeq(t, b, Len(t))[i] = t[b + i - 1]
      BY <1>1, <2>3, <2>5, SMTT(20)
    <2>8. \A i \in 1 .. PathLength :
             a + i - 1 \in 1 .. Len(q) /\ d + (a + i - 1) = b + i - 1
      BY <1>1, <1>2, <2>3
    <2>9. \A i \in 1 .. PathLength : SubSeq(q, a, Len(q))[i] = SubSeq(t, b, Len(t))[i]
      BY <1>1, <2>6, <2>7, <2>8, Zenon
    <2>10. PICK u : u = SubSeq(q, a, Len(q))
      BY Zenon
    <2>11. PICK v : v = SubSeq(t, b, Len(t))
      BY Zenon
    <2>12. u \in Seq(Target) /\ v \in Seq(Target) /\ Len(u) = PathLength
           /\ Len(v) = PathLength /\ \A i \in 1 .. PathLength : u[i] = v[i]
      BY <2>6, <2>7, <2>9, <2>10, <2>11, Zenon
    <2>13. u = v
      BY <2>12, SMTT(20)
    <2> QED
      BY <2>4, <2>10, <2>11, <2>13, Zenon
  <1> QED
    BY <1>3, <1>4, Zenon

(* A target pushed on both.                                                 *)
LEMMA SuffixPush ==
    ASSUME NEW q \in Seq(Target), NEW t \in Seq(Target), NEW d, IsSuffix(q, t, d),
           NEW g \in Target
    PROVE  IsSuffix(Append(q, g), Append(t, g), d)
  <1>1. /\ d \in Nat /\ Len(t) = d + Len(q) /\ Len(q) \in Nat /\ Len(t) \in Nat
        /\ \A i \in 1 .. Len(q) : q[i] = t[d + i]
    BY DEF IsSuffix
  <1>2. PICK q2 : q2 = Append(q, g)
    BY Zenon
  <1>3. PICK t2 : t2 = Append(t, g)
    BY Zenon
  <1>4. /\ Len(q2) = Len(q) + 1 /\ q2[Len(q) + 1] = g
        /\ \A i \in 1 .. Len(q) : q2[i] = q[i]
    BY <1>2
  <1>5. /\ Len(t2) = Len(t) + 1 /\ t2[Len(t) + 1] = g
        /\ \A i \in 1 .. Len(t) : t2[i] = t[i]
    BY <1>3
  <1>6. ASSUME NEW i \in 1 .. Len(q2)
        PROVE  q2[i] = t2[d + i]
    <2>1. CASE i = Len(q) + 1
      <3>1. d + i = Len(t) + 1
        BY <1>1, <2>1
      <3> QED
        BY <1>4, <1>5, <2>1, <3>1, Zenon
    <2>2. CASE i # Len(q) + 1
      <3>1. i \in 1 .. Len(q) /\ d + i \in 1 .. Len(t)
        BY <1>1, <1>4, <2>2, SMTT(20)
      <3> QED
        BY <1>1, <1>4, <1>5, <3>1, Zenon
    <2> QED
      BY <2>1, <2>2, Zenon
  <1>7. Len(t2) = d + Len(q2)
    BY <1>1, <1>4, <1>5, SMTT(20)
  <1> QED
    BY <1>1, <1>2, <1>3, <1>6, <1>7, Zenon DEF IsSuffix

(* A target taken out of both.                                              *)
LEMMA SuffixDrop ==
    ASSUME NEW q \in Seq(Target), NEW t \in Seq(Target), NEW g \in Target, NEW d,
           NEW t2, t2 = Append(t, g), IsSuffix(q, t2, d), d <= Len(t)
    PROVE  IsSuffix(DropLast(q), t, d)
  <1>1. Len(t) \in Nat /\ Len(t2) = Len(t) + 1 /\ \A i \in 1 .. Len(t) : t2[i] = t[i]
    OBVIOUS
  <1>2. /\ d \in Nat /\ Len(t2) = d + Len(q) /\ Len(q) \in Nat
        /\ \A i \in 1 .. Len(q) : q[i] = t2[d + i]
    <2>1. Len(q) \in Nat
      OBVIOUS
    <2> QED
      BY <2>1, Zenon DEF IsSuffix
  <1>3. Len(q) >= 1
    BY <1>1, <1>2, SMTT(20)
  <1>4. /\ Len(DropLast(q)) = Len(q) - 1
        /\ \A i \in 1 .. Len(q) - 1 : DropLast(q)[i] = q[i]
    BY <1>3, DropLastLen, Zenon
  <1>5. \A i \in 1 .. Len(q) - 1 : i \in 1 .. Len(q) /\ d + i \in 1 .. Len(t)
    BY <1>1, <1>2
  <1>6. Len(t) = d + (Len(q) - 1)
    <2>1. PICK m : m = Len(q)
      BY Zenon
    <2>2. PICK n : n = Len(t)
      BY Zenon
    <2>3. m \in Nat /\ n \in Nat /\ d \in Nat /\ n + 1 = d + m
      BY <1>1, <1>2, <2>1, <2>2, Zenon
    <2>4. n = d + (m - 1)
      BY <2>3
    <2> QED
      BY <2>1, <2>2, <2>4, Zenon
  <1> QED
    BY <1>1, <1>2, <1>4, <1>5, <1>6, Zenon DEF IsSuffix

-----------------------------------------------------------------------------
(* The targets of the path before the k-th record. *)
Before(k) == IF k <= Len(predHist) THEN predHist[k].targets ELSE targets

(* Each record adds at most one target. *)
AddsOne ==
    \A j, k \in 1 .. Len(predHist) + 1 : j <= k =>
        /\ Len(Before(j)) <= Len(Before(k))
        /\ Len(Before(k)) <= Len(Before(j)) + (k - j)

AfterRecord(h) ==
    TargetsAfter(h.targets, IsIndirectNoReturn(h.type), TargetOf(h.sn, h.mispredict))

(* The first d targets are gone from the queue, and all of them had so many *)
(* committed targets after them that no squash will need them.              *)
Dropped(d) ==
    /\ IsSuffix(ind.pathHist, targets, d)
    /\ d # 0 => d + PathLength <= Len(Before(1))

IndexOK(h) ==
    h.pcAddr # Null => /\ h.pcAddr = h.sn
                       /\ h.index = [pc |-> h.sn, ghr |-> h.ghr,
                                     path |-> LastTargets(h.targets)]

TargetInv ==
    /\ Len(predHist) <= MaxInFlight
    /\ \A k \in 1 .. Len(predHist) : Before(k + 1) = AfterRecord(predHist[k])
    /\ AddsOne
    /\ \E d \in Nat : Dropped(d)
    /\ \A k \in 1 .. Len(predHist) : IndexOK(predHist[k])

(* Before names sequences of targets.                                       *)
LEMMA BeforeType ==
    ASSUME BPTypeOK
    PROVE  \A k \in 1 .. Len(predHist) + 1 : /\ Before(k) \in Seq(Target)
                                             /\ Len(Before(k)) \in Nat
  <1>1. predHist \in Seq(Record) /\ targets \in Seq(Target)
    BY Zenon DEF BPTypeOK
  <1>2. ASSUME NEW k \in 1 .. Len(predHist) + 1
        PROVE  Before(k) \in Seq(Target)
    <2>1. CASE k <= Len(predHist)
      <3>1. predHist[k] \in Record
        BY <1>1, <2>1
      <3> QED
        BY <2>1, <3>1, Zenon DEF Before, Record
    <2>2. CASE ~(k <= Len(predHist))
      BY <1>1, <2>2, Zenon DEF Before
    <2> QED
      BY <2>1, <2>2, Zenon
  <1> QED
    BY <1>2

(* What is looked up now is that of the path.                               *)
LEMMA LookupNow ==
    ASSUME BPTypeOK, NEW d \in Nat, Dropped(d), AddsOne
    PROVE  LastTargets(ind.pathHist) = LastTargets(targets)
  <1>1. /\ ind.pathHist \in Seq(Target) /\ targets \in Seq(Target)
        /\ Len(predHist) \in Nat /\ Len(targets) \in Nat /\ Len(ind.pathHist) \in Nat
    BY DEF BPTypeOK
  <1>2. IsSuffix(ind.pathHist, targets, d) /\ Len(targets) = d + Len(ind.pathHist)
    BY Zenon DEF Dropped, IsSuffix
  <1>3. PICK n : n = Len(predHist)
    BY Zenon
  <1>4. 1 \in 1 .. n + 1 /\ n + 1 \in 1 .. n + 1 /\ 1 <= n + 1
    BY <1>1, <1>3
  <1>5. Before(n + 1) = targets
    BY <1>1, <1>3 DEF Before
  <1>6. Len(Before(1)) <= Len(targets) /\ Len(Before(1)) \in Nat
    BY <1>3, <1>4, <1>5, BeforeType, Zenon DEF AddsOne
  <1>7. d # 0 => Len(ind.pathHist) >= PathLength
    <2>1. PathLength \in Nat
      BY IndirectAssumption, Zenon
    <2> QED
      BY <1>1, <1>2, <1>6, <2>1 DEF Dropped
  <1> QED
    BY <1>1, <1>2, <1>7, SuffixLast, Zenon

(* The queue without the newest branch. *)
Undone == IF IsIndirectNoReturn(Newest.type) THEN DropLast(ind.pathHist)
          ELSE ind.pathHist

(* The invariant holds when the queue keeps a target for every branch that  *)
(* may be in flight.                                                        *)
THEOREM TargetCorrectness ==
    ASSUME MaxInFlight <= SpeculativePathLength
    PROVE  Spec => []TargetInv
  (* One target more or none.                                                 *)
  <1>AfterLen. ASSUME NEW t \in Seq(Target), NEW indirect \in BOOLEAN, NEW sn \in Nat,
                      NEW m \in BOOLEAN
               PROVE  /\ TargetOf(sn, m) \in Target
                      /\ Len(TargetsAfter(t, indirect, TargetOf(sn, m))) \in {Len(t), Len(t) + 1}
    <2> USE <1>AfterLen
    <2>1. TargetOf(sn, m) \in Target
      BY Zenon DEF TargetOf, Target
    <2> QED
      BY <2>1, SMTT(20) DEF TargetsAfter
  (* predict() adds the target of the branch.                                 *)
  <1>TargetPredict. ASSUME BPTypeOK, BPTypeOK', TargetInv, NEW sn \in Nat, NEW type \in BranchType,
                           NEW cond \in BOOLEAN, NEW btbHit \in BOOLEAN, NEW hit \in BOOLEAN,
                           Len(predHist) < MaxInFlight, Predict(sn, type, cond, btbHit, hit)
                    PROVE  TargetInv'
    <2> USE <1>TargetPredict
    <2>1. PICK r \in Record :
            Predicted(r, sn, type, RasOp(type, btbHit \/ ~requiresBTBHit))
      BY PredictRecord, Zenon
    <2>2. /\ predHist' = Append(predHist, r) /\ r.sn = sn /\ r.type = type
          /\ r.targets = targets /\ r.mispredict = FALSE /\ r.ghr = ind.ghr
          /\ r.pcAddr # Null => r.pcAddr = sn /\ r.index = IndexOf(ind, sn)
      BY <2>1, Zenon DEF Predicted
    <2>3. PICK i2 : i2 = IsIndirectNoReturn(type)
      BY Zenon
    <2>4. PICK g : g = TargetOf(sn, FALSE)
      BY ZenonT(30)
    <2>5. /\ targets' = TargetsAfter(targets, i2, g)
          /\ ind'.pathHist = IF i2 THEN Append(ind.pathHist, g) ELSE ind.pathHist
      BY <2>3, <2>4, Zenon DEF Predict, IndirectPush
    <2>6. PICK n : n = Len(predHist)
      BY Zenon
    <2>7. /\ predHist \in Seq(Record) /\ n \in Nat /\ targets \in Seq(Target)
          /\ ind.pathHist \in Seq(Target) /\ targets' \in Seq(Target)
      BY <2>6, SMTT(20) DEF BPTypeOK
    <2>8. /\ Len(predHist') = n + 1 /\ predHist'[n + 1] = r
          /\ \A k \in 1 .. n : predHist'[k] = predHist[k]
      BY <2>2, <2>6, <2>7, SMTT(20)
    <2>9. /\ \A k \in 1 .. n + 1 : Before(k)' = Before(k)
          /\ Before(n + 1) = targets /\ Before(n + 2)' = targets'
      <3>1. ASSUME NEW k \in 1 .. n PROVE Before(k)' = Before(k)
        BY <2>6, <2>7, <2>8, SMTT(20) DEF Before
      <3>2. Before(n + 1) = targets /\ Before(n + 1)' = targets /\ Before(n + 2)' = targets'
        BY <2>2, <2>6, <2>7, <2>8 DEF Before
      <3>3. \A k \in 1 .. n + 1 : k \in 1 .. n \/ k = n + 1
        BY <2>7
      <3> QED
        BY <3>1, <3>2, <3>3, Zenon
    <2>10. i2 \in BOOLEAN /\ g \in Target /\ Len(targets') \in {Len(targets), Len(targets) + 1}
      <3>1. i2 \in BOOLEAN /\ FALSE \in BOOLEAN
        BY <2>3 DEF IsIndirectNoReturn
      <3> QED
        BY <2>4, <2>5, <2>7, <3>1, <1>AfterLen, Zenon
    <2>11. ASSUME NEW k \in 1 .. n + 1
           PROVE  Before(k + 1)' = AfterRecord(predHist'[k])
      <3>1. CASE k = n + 1
        <4>1. AfterRecord(r) = targets'
          BY <2>2, <2>3, <2>4, <2>5, Zenon DEF AfterRecord
        <4>2. k + 1 = n + 2
          BY <2>7, <3>1, SMTT(20)
        <4> QED
          BY <2>8, <2>9, <3>1, <4>1, <4>2, Zenon
      <3>2. CASE k # n + 1
        <4>1. k \in 1 .. n /\ k + 1 \in 1 .. n + 1
          BY <2>7, <3>2
        <4> QED
          BY <2>6, <2>8, <2>9, <4>1, Zenon DEF TargetInv
      <3> QED
        BY <3>1, <3>2, Zenon
    <2>12. ASSUME NEW j \in 1 .. n + 2, NEW k \in 1 .. n + 2, j <= k
           PROVE  /\ Len(Before(j)') <= Len(Before(k)')
                  /\ Len(Before(k)') <= Len(Before(j)') + (k - j)
      <3>1. CASE k = n + 2 /\ j = n + 2
        <4>1. Len(targets') \in Nat
          BY <2>7
        <4> QED
          BY <2>7, <2>9, <3>1, <4>1
      <3>2. CASE k = n + 2 /\ j # n + 2
        <4>1. j \in 1 .. n + 1 /\ n + 1 \in 1 .. n + 1 /\ j <= n + 1
          BY <2>7, <3>2
        <4>2. /\ Len(Before(j)) <= Len(targets)
              /\ Len(targets) <= Len(Before(j)) + ((n + 1) - j)
          BY <2>6, <2>9, <4>1, Zenon DEF TargetInv, AddsOne
        <4>3. Len(Before(j)) \in Nat /\ Len(targets) \in Nat
          BY <2>6, <2>7, <4>1, BeforeType
        <4>4. Before(j)' = Before(j) /\ Before(k)' = targets'
          BY <2>9, <3>2, <4>1, Zenon
        <4> QED
          BY <2>7, <2>10, <3>2, <4>1, <4>2, <4>3, <4>4, SMTT(20)
      <3>3. CASE k # n + 2
        <4>1. j \in 1 .. n + 1 /\ k \in 1 .. n + 1
          BY <2>7, <2>12, <3>3
        <4> QED
          BY <2>6, <2>9, <2>12, <4>1, Zenon DEF TargetInv, AddsOne
      <3> QED
        BY <3>1, <3>2, <3>3, Zenon
    <2>13. PICK d \in Nat : Dropped(d)
      BY Zenon DEF TargetInv
    <2>14. Dropped(d)'
      <3>1. IsSuffix(ind.pathHist, targets, d) /\ (d # 0 => d + PathLength <= Len(Before(1)))
        BY <2>13, Zenon DEF Dropped
      <3>2. Before(1)' = Before(1)
        BY <2>7, <2>9
      <3>3. IsSuffix(ind'.pathHist, targets', d)
        <4>1. CASE i2
          BY <2>5, <2>7, <2>10, <3>1, <4>1, SuffixPush, Zenon DEF TargetsAfter
        <4>2. CASE ~i2
          BY <2>5, <3>1, <4>2, Zenon DEF TargetsAfter
        <4> QED
          BY <4>1, <4>2, Zenon
      <3> QED
        BY <3>1, <3>2, <3>3, Zenon DEF Dropped
    <2>15. IndexOK(r)
      <3>1. LastTargets(ind.pathHist) = LastTargets(targets)
        BY <2>13, LookupNow, Zenon DEF TargetInv
      <3> QED
        BY <2>2, <3>1, Zenon DEF IndexOK, IndexOf
    <2>16. \A k \in 1 .. n + 1 : IndexOK(predHist'[k])
      <3>1. \A k \in 1 .. n + 1 : k = n + 1 \/ k \in 1 .. n
        BY <2>7, SMTT(20)
      <3> QED
        BY <2>6, <2>8, <2>15, <3>1, Zenon DEF TargetInv
    <2>17. AddsOne'
      <3>1. (n + 1) + 1 = n + 2
        BY <2>7, SMTT(20)
      <3> QED
        BY <2>8, <2>12, <3>1, Zenon DEF AddsOne
    <2>18. Len(predHist') <= MaxInFlight
      BY <2>6, <2>7, <2>8, FrontEndAssumption
    <2> QED
      BY <2>8, <2>11, <2>14, <2>16, <2>17, <2>18, Zenon DEF TargetInv
  (* It is that of the path before the branch.                                *)
  <1>UndoTargets. ASSUME BPTypeOK, TargetInv, predHist # <<>>, NEW d \in Nat, Dropped(d)
                  PROVE  /\ Newest \in Record /\ Newest = predHist[Len(predHist)]
                         /\ Undone \in Seq(Target)
                         /\ IsSuffix(Undone, Newest.targets, d)
                         /\ LastTargets(Undone) = LastTargets(Newest.targets)
    <2> USE <1>UndoTargets
    <2>1. PICK n : n = Len(predHist)
      BY Zenon
    <2>2. /\ predHist \in Seq(Record) /\ n \in Nat \ {0} /\ n \in 1 .. n
          /\ ind.pathHist \in Seq(Target) /\ targets \in Seq(Target)
          /\ n \in 1 .. n + 1 /\ 1 \in 1 .. n + 1 /\ 1 <= n
      BY <2>1 DEF BPTypeOK
    <2>3. PICK h : h = Newest
      BY Zenon
    <2>4. h = predHist[n] /\ h \in Record
      BY <2>1, <2>2, <2>3 DEF Newest
    <2>5. /\ h.targets \in Seq(Target) /\ h.sn \in Nat /\ h.mispredict \in BOOLEAN
          /\ h.type \in BranchType
      BY <2>4, Zenon DEF Record
    <2>6. Before(n) = h.targets /\ Before(n + 1) = targets
      BY <2>1, <2>2, <2>4 DEF Before
    <2>7. targets = AfterRecord(h)
      BY <2>1, <2>2, <2>4, <2>6, Zenon DEF TargetInv
    <2>8. Len(Before(1)) <= Len(h.targets) /\ Len(Before(1)) \in Nat
          /\ Len(h.targets) \in Nat
      BY <2>1, <2>2, <2>5, <2>6, BeforeType, Zenon DEF TargetInv, AddsOne
    <2>9. /\ IsSuffix(ind.pathHist, targets, d) /\ PathLength \in Nat
          /\ d # 0 => d + PathLength <= Len(h.targets)
      <3>1. PathLength \in Nat
        BY IndirectAssumption, Zenon
      <3>2. d # 0 => d + PathLength <= Len(Before(1))
        BY Zenon DEF Dropped
      <3> QED
        BY <2>8, <3>1, <3>2 DEF Dropped
    <2>10. d <= Len(h.targets)
      BY <2>8, <2>9
    <2>11. IsSuffix(Undone, h.targets, d) /\ Undone \in Seq(Target)
      <3>1. CASE IsIndirectNoReturn(h.type)
        <4>1. PICK g : g = TargetOf(h.sn, h.mispredict)
          BY Zenon
        <4>2. g \in Target
          BY <2>5, <4>1, Zenon DEF TargetOf, Target
        <4>3. targets = Append(h.targets, g)
          BY <2>7, <3>1, <4>1, Zenon DEF AfterRecord, TargetsAfter
        <4>4. IsSuffix(DropLast(ind.pathHist), h.targets, d)
          BY <2>2, <2>5, <2>9, <2>10, <4>2, <4>3, SuffixDrop, ZenonT(30)
        <4>5. DropLast(ind.pathHist) \in Seq(Target)
          BY <2>2, DropLastType, Zenon
        <4> QED
          BY <2>3, <3>1, <4>4, <4>5, Zenon DEF Undone
      <3>2. CASE ~IsIndirectNoReturn(h.type)
        <4>1. targets = h.targets
          BY <2>7, <3>2, Zenon DEF AfterRecord, TargetsAfter
        <4> QED
          BY <2>2, <2>3, <2>9, <3>2, <4>1, Zenon DEF Undone
      <3> QED
        BY <3>1, <3>2, Zenon
    <2>12. d # 0 => Len(Undone) >= PathLength
      <3>1. Len(h.targets) = d + Len(Undone) /\ Len(Undone) \in Nat
        BY <2>11 DEF IsSuffix
      <3> QED
        BY <2>8, <2>9, <3>1
    <2>13. LastTargets(Undone) = LastTargets(h.targets)
      BY <2>5, <2>11, <2>12, SuffixLast, Zenon
    <2> QED
      BY <2>1, <2>3, <2>4, <2>11, <2>13, Zenon
  (* squashHistory() takes the target of the branch out.                      *)
  <1>TargetSquash. ASSUME BPTypeOK, TargetInv, predHist # <<>>, SquashHistory
                   PROVE  TargetInv'
    <2> USE <1>TargetSquash
    <2>1. PICK n : n = Len(predHist)
      BY Zenon
    <2>2. PICK d \in Nat : Dropped(d)
      BY Zenon DEF TargetInv
    <2>3. /\ predHist \in Seq(Record) /\ n \in Nat \ {0} /\ Newest = predHist[n]
          /\ IsSuffix(Undone, Newest.targets, d)
      <3>1. Newest = predHist[Len(predHist)] /\ IsSuffix(Undone, Newest.targets, d)
        BY <2>2, <1>UndoTargets, Zenon
      <3>2. predHist \in Seq(Record) /\ n \in Nat \ {0}
        BY <2>1, SMTT(20) DEF BPTypeOK
      <3> QED
        BY <2>1, <3>1, <3>2, Zenon
    <2>4. ind'.pathHist = Undone /\ targets' = Newest.targets
      BY Zenon DEF SquashHistory, IndirectUndo, Undone
    <2>5. /\ Len(predHist') = n - 1
          /\ \A k \in 1 .. n - 1 : predHist'[k] = predHist[k]
      BY <2>1, <2>3 DEF SquashHistory
    <2>6. \A k \in 1 .. n : Before(k)' = Before(k)
      <3>1. ASSUME NEW k \in 1 .. n - 1 PROVE Before(k)' = Before(k)
        BY <2>1, <2>3, <2>5 DEF Before
      <3>2. Before(n)' = targets' /\ Before(n) = predHist[n].targets
        BY <2>1, <2>3, <2>5 DEF Before
      <3>3. \A k \in 1 .. n : k \in 1 .. n - 1 \/ k = n
        BY <2>3
      <3> QED
        BY <2>3, <2>4, <3>1, <3>2, <3>3, Zenon
    <2>7. ASSUME NEW k \in 1 .. n - 1
          PROVE  Before(k + 1)' = AfterRecord(predHist'[k]) /\ IndexOK(predHist'[k])
      <3>1. k \in 1 .. n /\ k + 1 \in 1 .. n
        BY <2>3
      <3> QED
        BY <2>1, <2>5, <2>6, <3>1, Zenon DEF TargetInv
    <2>8. AddsOne'
      <3>1. (n - 1) + 1 = n /\ \A k \in 1 .. n : k \in 1 .. n + 1
        BY <2>3
      <3> QED
        BY <2>1, <2>5, <2>6, <3>1, Zenon DEF TargetInv, AddsOne
    <2>9. Dropped(d)'
      <3>1. Before(1)' = Before(1)
        BY <2>3, <2>6
      <3> QED
        BY <2>2, <2>3, <2>4, <3>1, Zenon DEF Dropped
    <2>10. Len(predHist') <= MaxInFlight
      BY <2>1, <2>3, <2>5, FrontEndAssumption, SMTT(20) DEF TargetInv
    <2> QED
      BY <2>5, <2>7, <2>8, <2>9, <2>10, Zenon DEF TargetInv
  (* The correction replaces the target of the branch.                        *)
  <1>TargetCorrect. ASSUME BPTypeOK, TargetInv, predHist # <<>>, NEW taken \in BOOLEAN, Correct(taken)
                    PROVE  TargetInv'
    <2> USE <1>TargetCorrect
    <2>1. PICK n : n = Len(predHist)
      BY Zenon
    <2>2. PICK d \in Nat : Dropped(d)
      BY Zenon DEF TargetInv
    <2>3. PICK h : h = Newest
      BY Zenon
    <2>4. /\ predHist \in Seq(Record) /\ n \in Nat \ {0} /\ n \in 1 .. n
          /\ h = predHist[n] /\ h \in Record /\ Undone \in Seq(Target)
          /\ IsSuffix(Undone, h.targets, d)
          /\ LastTargets(Undone) = LastTargets(h.targets)
      <3>1. /\ Newest \in Record /\ Newest = predHist[Len(predHist)]
            /\ Undone \in Seq(Target)
            /\ IsSuffix(Undone, Newest.targets, d)
            /\ LastTargets(Undone) = LastTargets(Newest.targets)
        BY <2>2, <1>UndoTargets, Zenon
      <3>2. predHist \in Seq(Record) /\ n \in Nat \ {0}
        BY <2>1 DEF BPTypeOK
      <3>3. n \in 1 .. n
        BY <3>2
      <3> QED
        BY <2>1, <2>3, <3>1, <3>2, <3>3, Zenon
    <2>5. PICK r \in Record : Corrected(r, taken)
      BY CorrectRecord, Zenon
    <2>6. PICK i2 : i2 = IsIndirectNoReturn(h.type)
      BY Zenon
    <2>7. PICK u : u = IndirectUndo(ind, i2, h.ghr)
      BY Zenon
    <2>8. u.pathHist = Undone /\ u.ghr = h.ghr
      BY <2>3, <2>6, <2>7, Zenon DEF IndirectUndo, Undone
    <2>9. /\ predHist' = [predHist EXCEPT ![n] = r]
          /\ r.sn = h.sn /\ r.type = h.type /\ r.mispredict = TRUE
          /\ r.targets = h.targets /\ r.ghr = h.ghr /\ r.pcAddr = h.pcAddr
          /\ r.index = IF i2 THEN IndexOf(u, h.pcAddr) ELSE h.index
      BY <2>1, <2>3, <2>5, <2>6, <2>7, Zenon DEF Corrected
    <2>10. /\ Len(predHist') = n /\ predHist'[n] = r
           /\ \A k \in 1 .. n : k # n => predHist'[k] = predHist[k]
      BY <2>1, <2>4, <2>9
    <2>11. PICK g : g = TargetOf(h.sn, TRUE)
      BY Zenon
    <2>12. /\ targets' = TargetsAfter(h.targets, i2, g)
           /\ ind'.pathHist = IF i2 THEN Append(Undone, g) ELSE Undone
      BY <2>3, <2>6, <2>7, <2>8, <2>11, Zenon DEF Correct, IndirectPush
    <2>13. /\ h.targets \in Seq(Target) /\ h.sn \in Nat /\ h.type \in BranchType
           /\ Len(h.targets) \in Nat /\ i2 \in BOOLEAN
      <3>1. h.targets \in Seq(Target) /\ h.sn \in Nat /\ h.type \in BranchType
        BY <2>4, Zenon DEF Record
      <3>2. i2 \in BOOLEAN
        BY <2>6 DEF IsIndirectNoReturn
      <3> QED
        BY <3>1, <3>2
    <2>14. g \in Target /\ Len(targets') \in {Len(h.targets), Len(h.targets) + 1}
      <3>1. TRUE \in BOOLEAN
        BY Zenon
      <3> QED
        BY <2>11, <2>12, <2>13, <3>1, <1>AfterLen, Zenon
    <2>15. /\ \A k \in 1 .. n : Before(k)' = Before(k)
           /\ Before(n) = h.targets /\ Before(n + 1)' = targets'
      <3>1. ASSUME NEW k \in 1 .. n, k # n PROVE Before(k)' = Before(k)
        BY <2>1, <2>4, <2>10, <3>1, SMTT(20) DEF Before
      <3>2. Before(n)' = r.targets /\ Before(n) = h.targets /\ Before(n + 1)' = targets'
        BY <2>1, <2>4, <2>10 DEF Before
      <3> QED
        BY <2>9, <3>1, <3>2, Zenon
    <2>16. AfterRecord(r) = targets'
      BY <2>6, <2>9, <2>11, <2>12, Zenon DEF AfterRecord
    <2>17. ASSUME NEW k \in 1 .. n
           PROVE  Before(k + 1)' = AfterRecord(predHist'[k])
      <3>1. CASE k = n
        BY <2>10, <2>15, <2>16, <3>1, Zenon
      <3>2. CASE k # n
        <4>1. k + 1 \in 1 .. n
          BY <2>4, <3>2
        <4> QED
          BY <2>1, <2>10, <2>15, <3>2, <4>1, Zenon DEF TargetInv
      <3> QED
        BY <3>1, <3>2, Zenon
    <2>18. ASSUME NEW j \in 1 .. n + 1, NEW k \in 1 .. n + 1, j <= k
           PROVE  /\ Len(Before(j)') <= Len(Before(k)')
                  /\ Len(Before(k)') <= Len(Before(j)') + (k - j)
      <3>1. CASE k = n + 1 /\ j = n + 1
        <4>1. Len(targets') \in Nat
          BY <2>13, <2>14
        <4> QED
          BY <2>4, <2>15, <3>1, <4>1
      <3>2. CASE k = n + 1 /\ j # n + 1
        <4>1. j \in 1 .. n /\ j \in 1 .. n + 1 /\ n \in 1 .. n + 1 /\ j <= n
          BY <2>4, <3>2
        <4>2. /\ Len(Before(j)) <= Len(h.targets)
              /\ Len(h.targets) <= Len(Before(j)) + (n - j)
          BY <2>1, <2>15, <4>1, Zenon DEF TargetInv, AddsOne
        <4>3. Len(Before(j)) \in Nat
          BY <2>1, <4>1, BeforeType, Zenon
        <4>4. Before(j)' = Before(j) /\ Before(k)' = targets'
          BY <2>15, <3>2, <4>1, Zenon
        <4>5. PICK a, b, c : a = Len(Before(j)) /\ b = Len(h.targets) /\ c = Len(targets')
          BY Zenon
        <4>6. a \in Nat /\ b \in Nat /\ c \in {b, b + 1} /\ a <= b /\ b <= a + (n - j)
          BY <2>13, <2>14, <4>2, <4>3, <4>5, Zenon
        <4>7. a <= c /\ c <= a + (k - j)
          BY <2>4, <3>2, <4>1, <4>6, SMTT(20)
        <4> QED
          BY <4>4, <4>5, <4>7, Zenon
      <3>3. CASE k # n + 1
        <4>1. j \in 1 .. n /\ k \in 1 .. n
          BY <2>4, <2>18, <3>3
        <4> QED
          BY <2>1, <2>15, <2>18, <4>1, Zenon DEF TargetInv, AddsOne
      <3> QED
        BY <3>1, <3>2, <3>3, Zenon
    <2>19. AddsOne'
      BY <2>10, <2>18, Zenon DEF AddsOne
    <2>20. Dropped(d)'
      <3>1. d # 0 => d + PathLength <= Len(Before(1))
        BY <2>2, Zenon DEF Dropped
      <3>2. Before(1)' = Before(1)
        BY <2>4, <2>15
      <3>3. IsSuffix(ind'.pathHist, targets', d)
        <4>1. CASE i2
          BY <2>4, <2>12, <2>13, <2>14, <4>1, SuffixPush, Zenon DEF TargetsAfter
        <4>2. CASE ~i2
          BY <2>4, <2>12, <4>2, Zenon DEF TargetsAfter
        <4> QED
          BY <4>1, <4>2, Zenon
      <3> QED
        BY <3>1, <3>2, <3>3, Zenon DEF Dropped
    <2>21. IndexOK(r)
      <3>1. IndexOK(h)
        BY <2>1, <2>4, Zenon DEF TargetInv
      <3>2. CASE i2
        BY <2>4, <2>8, <2>9, <3>1, <3>2, Zenon DEF IndexOK, IndexOf
      <3>3. CASE ~i2
        BY <2>9, <3>1, <3>3, Zenon DEF IndexOK
      <3> QED
        BY <3>2, <3>3, Zenon
    <2>22. \A k \in 1 .. n : IndexOK(predHist'[k])
      BY <2>1, <2>10, <2>21, Zenon DEF TargetInv
    <2>23. Len(predHist') <= MaxInFlight
      BY <2>1, <2>10, Zenon DEF TargetInv
    <2> QED
      BY <2>10, <2>17, <2>19, <2>20, <2>22, <2>23, Zenon DEF TargetInv
  (* commit() drops old targets, but none that a squash of the branches in    *)
  (* flight could make one of the last PathLength again.                      *)
  <1>TargetCommit. ASSUME BPTypeOK, TargetInv, predHist # <<>>, CommitBranch,
                          MaxInFlight <= SpeculativePathLength
                   PROVE  TargetInv'
    <2> USE <1>TargetCommit
    <2>1. PICK n : n = Len(predHist)
      BY Zenon
    <2>2. PICK d \in Nat : Dropped(d)
      BY Zenon DEF TargetInv
    <2>3. PICK q : q = ind.pathHist
      BY Zenon
    <2>4. /\ predHist \in Seq(Record) /\ n \in Nat \ {0} /\ q \in Seq(Target)
          /\ targets \in Seq(Target) /\ Len(q) \in Nat /\ Len(targets) \in Nat
      BY <2>1, <2>3 DEF BPTypeOK
    <2>5. /\ Len(predHist') = n - 1
          /\ \A k \in 1 .. n - 1 : predHist'[k] = predHist[k + 1]
      BY <2>1, <2>4 DEF CommitBranch
    <2>6. targets' = targets
      BY Zenon DEF CommitBranch
    <2>7. /\ \A k \in 1 .. n : Before(k)' = Before(k + 1)
          /\ Before(n + 1) = targets
      <3>1. ASSUME NEW k \in 1 .. n - 1 PROVE Before(k)' = Before(k + 1)
        <4>1. k <= n - 1 /\ k + 1 <= n
          BY <2>4
        <4> QED
          BY <2>1, <2>5, <4>1, Zenon DEF Before
      <3>2. Before(n)' = targets /\ Before(n + 1) = targets
        BY <2>1, <2>4, <2>5, <2>6 DEF Before
      <3>3. \A k \in 1 .. n : k \in 1 .. n - 1 \/ k = n
        BY <2>4
      <3> QED
        BY <3>1, <3>2, <3>3, Zenon
    <2>8. ASSUME NEW k \in 1 .. n - 1
          PROVE  Before(k + 1)' = AfterRecord(predHist'[k]) /\ IndexOK(predHist'[k])
      <3>1. k + 1 \in 1 .. n
        BY <2>4
      <3>2. Before(k + 1)' = Before((k + 1) + 1)
        BY <2>7, <3>1, Zenon
      <3> QED
        BY <2>1, <2>5, <3>1, <3>2, Zenon DEF TargetInv
    <2>9. AddsOne'
      <3>1. ASSUME NEW j \in 1 .. n, NEW k \in 1 .. n, j <= k
            PROVE  /\ Len(Before(j)') <= Len(Before(k)')
                   /\ Len(Before(k)') <= Len(Before(j)') + (k - j)
        <4>1. /\ j + 1 \in 1 .. n + 1 /\ k + 1 \in 1 .. n + 1 /\ j + 1 <= k + 1
              /\ (k + 1) - (j + 1) = k - j
          BY <2>4, <3>1
        <4>2. /\ Len(Before(j + 1)) <= Len(Before(k + 1))
              /\ Len(Before(k + 1)) <= Len(Before(j + 1)) + ((k + 1) - (j + 1))
          BY <2>1, <4>1, Zenon DEF TargetInv, AddsOne
        <4> QED
          BY <2>7, <4>1, <4>2, Zenon
      <3>2. (n - 1) + 1 = n
        BY <2>4
      <3> QED
        BY <2>5, <3>1, <3>2, Zenon DEF AddsOne
    <2>10. PICK c : c = Len(Before(2))
      BY Zenon
    <2>11. /\ c \in Nat /\ Len(Before(1)) \in Nat /\ Len(Before(1)) <= c
           /\ Len(targets) <= c + (n - 1) /\ Before(1)' = Before(2)
      <3>1. /\ 1 \in 1 .. n + 1 /\ 2 \in 1 .. n + 1 /\ n + 1 \in 1 .. n + 1
            /\ 1 <= 2 /\ 2 <= n + 1 /\ (n + 1) - 2 = n - 1 /\ 1 \in 1 .. n /\ 1 + 1 = 2
        BY <2>4
      <3>2. Before(1)' = Before(2)
        BY <2>7, <3>1, Zenon
      <3>3. /\ Len(Before(1)) <= Len(Before(2))
            /\ Len(Before(n + 1)) <= Len(Before(2)) + ((n + 1) - 2)
        BY <2>1, <3>1, Zenon DEF TargetInv, AddsOne
      <3>4. Len(Before(1)) \in Nat /\ Len(Before(2)) \in Nat
        BY <2>1, <3>1, BeforeType, Zenon
      <3> QED
        BY <2>7, <2>10, <3>1, <3>2, <3>3, <3>4, Zenon
    <2>12. /\ d \in Nat /\ Len(targets) = d + Len(q)
           /\ \A i \in 1 .. Len(q) : q[i] = targets[d + i]
           /\ d # 0 => d + PathLength <= Len(Before(1))
      BY <2>2, <2>3, Zenon DEF Dropped, IsSuffix
    <2>13. PICK m : m = PathLength + SpeculativePathLength
      BY Zenon
    <2>14. /\ PathLength \in Nat \ {0} /\ SpeculativePathLength \in Nat
           /\ n <= SpeculativePathLength /\ m \in Nat
      <3>1. n <= MaxInFlight
        BY <2>1, Zenon DEF TargetInv
      <3> QED
        BY <2>4, <2>13, <3>1, IndirectAssumption, FrontEndAssumption, TageAssumption
    <2>15. Len(predHist') <= MaxInFlight
      BY <2>1, <2>4, <2>5, FrontEndAssumption, SMTT(20) DEF TargetInv
    <2>16. CASE Len(q) >= m
      <3>1. PICK a : a = Len(q) - m + 2
        BY Zenon
      <3>2. ind'.pathHist = SubSeq(q, a, Len(q))
        BY <2>3, <2>13, <2>16, <3>1, Zenon DEF CommitBranch, Trim, BPTypeOK
      <3>3. /\ a \in Nat \ {0} /\ a \in Int /\ Len(q) \in Int /\ Len(q) - a + 1 = m - 1
            /\ m - 1 \in Nat /\ a <= Len(q) + 1
        BY <2>4, <2>13, <2>14, <2>16, <3>1
      <3>4. PICK q2 : q2 = SubSeq(q, a, Len(q))
        BY Zenon
      <3>5. /\ Len(q2) = m - 1
            /\ \A i \in 1 .. m - 1 : q2[i] = q[a + i - 1]
        <4>1. \A i \in a .. Len(q) : q[i] \in Target
          BY <2>4, <3>3
        <4>2. (IF a <= Len(q) THEN Len(q) - a + 1 ELSE 0) = m - 1
          BY <3>3
        <4> QED
          BY <3>3, <3>4, <4>1, <4>2
      <3>6. PICK e : e = d + (a - 1)
        BY Zenon
      <3>7. e \in Nat /\ Len(targets) = e + (m - 1) /\ e + PathLength <= c
        BY <2>4, <2>11, <2>12, <2>13, <2>14, <3>1, <3>3, <3>6, SMTT(20)
      <3>8. ASSUME NEW i \in 1 .. m - 1 PROVE q2[i] = targets[e + i]
        <4>1. a + i - 1 \in 1 .. Len(q) /\ d + (a + i - 1) = e + i
          BY <2>12, <3>3, <3>6
        <4> QED
          BY <2>12, <3>5, <4>1, Zenon
      <3>9. IsSuffix(q2, targets, e)
        BY <3>5, <3>7, <3>8, Zenon DEF IsSuffix
      <3>10. Dropped(e)'
        BY <2>6, <2>10, <2>11, <3>2, <3>4, <3>7, <3>9, Zenon DEF Dropped
      <3> QED
        BY <2>5, <2>8, <2>9, <2>15, <3>7, <3>10, Zenon DEF TargetInv
    <2>17. CASE ~(Len(q) >= m)
      <3>1. ind'.pathHist = q
        BY <2>3, <2>13, <2>17, Zenon DEF CommitBranch, Trim, BPTypeOK
      <3>2. d # 0 => d + PathLength <= c
        BY <2>11, <2>12, <2>14
      <3>3. IsSuffix(q, targets, d)
        BY <2>12, Zenon DEF IsSuffix
      <3>4. Dropped(d)'
        BY <2>6, <2>10, <2>11, <3>1, <3>2, <3>3, Zenon DEF Dropped
      <3> QED
        BY <2>5, <2>8, <2>9, <2>15, <3>4, Zenon DEF TargetInv
    <2> QED
      BY <2>16, <2>17, Zenon
  (* Every step keeps the invariant.                                          *)
  <1>TargetStep. ASSUME MaxInFlight <= SpeculativePathLength, BTypeOK, BTypeOK', TargetInv,
                        [Next]_bvars
                 PROVE  TargetInv'
    <2> USE <1>TargetStep
    <2>1. BPStep /\ BPTypeOK /\ BPTypeOK'
      BY StepCases, Zenon DEF BTypeOK
    <2>2. CASE \E type \in Types, cond, btbHit, hit \in BOOLEAN :
                 Len(predHist) < MaxInFlight /\ Predict(seqNum + 1, type, cond, btbHit, hit)
      <3>1. PICK type \in Types, cond \in BOOLEAN, btbHit \in BOOLEAN, hit \in BOOLEAN :
              Len(predHist) < MaxInFlight /\ Predict(seqNum + 1, type, cond, btbHit, hit)
        BY <2>2, Zenon
      <3>2. PICK sn : sn = seqNum + 1
        BY Zenon
      <3>3. sn \in Nat /\ type \in BranchType
        BY <3>2, FrontEndAssumption DEF BTypeOK
      <3> QED
        BY <2>1, <3>1, <3>2, <3>3, <1>TargetPredict, Zenon
    <2>3. CASE predHist # <<>> /\ SquashHistory
      BY <2>1, <2>3, <1>TargetSquash, Zenon
    <2>4. CASE predHist # <<>> /\ \E taken \in BOOLEAN : Correct(taken)
      BY <2>1, <2>4, <1>TargetCorrect, Zenon
    <2>5. CASE predHist # <<>> /\ CommitBranch
      BY <2>1, <2>5, <1>TargetCommit, Zenon
    <2>6. CASE UNCHANGED bpvars
      <3>1. UNCHANGED <<predHist, ind, targets>>
        BY <2>6, Zenon DEF bpvars, pathvars
      <3>2. \A k : Before(k)' = Before(k)
        BY <3>1, Zenon DEF Before
      <3>3. AddsOne'
        BY <3>1, <3>2, Zenon DEF TargetInv, AddsOne
      <3>4. \A d : Dropped(d) => Dropped(d)'
        BY <3>1, <3>2, Zenon DEF Dropped
      <3>5. \A k \in 1 .. Len(predHist') : /\ Before(k + 1)' = AfterRecord(predHist'[k])
                                           /\ IndexOK(predHist'[k])
        BY <3>1, <3>2, Zenon DEF TargetInv
      <3>6. \E d \in Nat : Dropped(d)'
        BY <3>4, Zenon DEF TargetInv
      <3> QED
        BY <3>1, <3>3, <3>5, <3>6, Zenon DEF TargetInv
    <2> QED
      BY <2>1, <2>2, <2>3, <2>4, <2>5, <2>6, Zenon DEF BPStep
  (* No target has been dropped at the start.                                 *)
  <1>TargetInit. Init => TargetInv
    <2> SUFFICES ASSUME Init PROVE TargetInv
      BY Zenon
    <2>1. /\ predHist = <<>> /\ targets = <<>> /\ ind.pathHist = <<>>
          /\ Len(predHist) = 0
      BY Zenon DEF Init, BPInit, NewIndirect
    <2>2. Before(1) = <<>>
      BY <2>1 DEF Before
    <2>3. AddsOne
      BY <2>1, <2>2 DEF AddsOne
    <2>4. Dropped(0)
      BY <2>1 DEF Dropped, IsSuffix
    <2> QED
      BY <2>1, <2>3, <2>4, FrontEndAssumption DEF TargetInv
  <1>1. BTypeOK /\ BTypeOK' /\ TargetInv /\ [Next]_bvars => TargetInv'
    BY <1>TargetStep, Zenon
  <1> QED
    BY <1>1, <1>TargetInit, BTypeCorrect, PTL DEF Spec

(* With no more branches in flight than speculativePathLength, the targets  *)
(* hashed for an indirect branch are the last ones of the path, whatever    *)
(* was squashed, corrected and committed before, for any path lengths       *)
(* (SimpleIndirectPredictor::commit, squash).                               *)
THEOREM TargetsTheorem ==
    ASSUME MaxInFlight <= SpeculativePathLength
    PROVE  Spec => []TargetsRecovered
  <1>1. BTypeOK /\ TargetInv => TargetsRecovered
    <2> SUFFICES ASSUME BTypeOK, TargetInv PROVE TargetsRecovered
      BY Zenon
    <2>1. PICK d \in Nat : Dropped(d)
      BY Zenon DEF TargetInv
    <2> QED
      BY <2>1, LookupNow, Zenon DEF TargetInv, BTypeOK, TargetsRecovered
  <1> QED
    BY <1>1, TargetCorrectness, BTypeCorrect, PTL

-----------------------------------------------------------------------------
History == [Nat -> Bit]

(* The history before its newest bit. *)
Unshift(bk) == [i \in Nat |-> bk[i + 1]]

(* The buffer holds bk, with room to undo n more branches and still look    *)
(* MaxHist bits back.                                                       *)
Holds(t, bk, n) ==
    /\ t.globalHist \in [0 .. HistBufferSize - 1 -> Bit] /\ t.ptGhist \in Nat
    /\ t.ptGhist + MaxHist + n < HistBufferSize
    /\ \A i \in 0 .. HistBufferSize - 1 - t.ptGhist :
         t.globalHist[t.ptGhist + i] = bk[i]

Window(bk, f, j) ==
    {i \in 0 .. OrigLength[f] - 1 : i % CompLength[f] = j /\ bk[i] = 1}

IsFold(c, f, bk) ==
    \A j \in 0 .. CompLength[f] - 1 : c[j] = Cardinality(Window(bk, f, j)) % 2

Folds(t, bk) == \A f \in Folded : IsFold(t.comp[f], f, bk)

(* FoldedHistory::update folds the new bit in and the oldest of the window  *)
(* out, restore undoes it, and a new folding is that of no ones.            *)
FoldsKeepUp ==
    /\ \A f \in Folded, bk \in History, b \in Bit, p \in Nat : \A c, h :
         (IsFold(c, f, bk) /\ h[p] = b
             /\ h[p + OrigLength[f]] = bk[OrigLength[f] - 1])
         => IsFold(FoldUpdate(f, c, h, p), f, Shift(bk, b))
    /\ \A f \in Folded, bk \in History, p \in Nat : \A c, h :
         (IsFold(c, f, bk) /\ h[p] = bk[0]
             /\ h[p + OrigLength[f]] = bk[OrigLength[f]])
         => IsFold(FoldRestore(f, c, h, p), f, Unshift(bk))
    /\ \A f \in Folded, bk \in History :
         (\A i \in Nat : bk[i] = 0)
         => IsFold([j \in 0 .. CompLength[f] - 1 |-> 0], f, bk)

-----------------------------------------------------------------------------
(* A pushed bit and its undoing are inverse.                                *)
LEMMA ShiftHistory ==
    ASSUME NEW bk \in History, NEW b \in Bit
    PROVE  /\ Shift(bk, b) \in History /\ Unshift(bk) \in History
           /\ Shift(bk, b)[0] = b
           /\ \A i \in Nat : Shift(bk, b)[i + 1] = bk[i] /\ Unshift(bk)[i] = bk[i + 1]
           /\ Unshift(Shift(bk, b)) = bk
           /\ Shift(Unshift(bk), bk[0]) = bk
  <1>1. DOMAIN bk = Nat
    BY Zenon DEF History
  <1>2. \A i \in Nat : (IF i = 0 THEN b ELSE bk[i - 1]) \in Bit /\ bk[i + 1] \in Bit
    BY DEF History
  <1>3. Shift(bk, b) = [i \in Nat |-> IF i = 0 THEN b ELSE bk[i - 1]]
    BY <1>1, Zenon DEF Shift
  <1>4. Shift(bk, b) \in History /\ Unshift(bk) \in History
    BY <1>2, <1>3, Zenon DEF History, Unshift
  <1>5. \A i \in Nat : Shift(bk, b)[i + 1] = bk[i] /\ Unshift(bk)[i] = bk[i + 1]
    BY <1>3 DEF Unshift
  <1>6. Unshift(Shift(bk, b)) = bk
    <2>1. Unshift(Shift(bk, b)) = [i \in Nat |-> bk[i]]
      BY <1>5, Zenon DEF Unshift
    <2> QED
      BY <2>1, Zenon DEF History
  <1>7. Shift(Unshift(bk), bk[0]) = bk
    <2>1. Shift(Unshift(bk), bk[0]) =
            [i \in Nat |-> IF i = 0 THEN bk[0] ELSE Unshift(bk)[i - 1]]
      BY Zenon DEF Shift, Unshift
    <2>2. \A i \in Nat : (IF i = 0 THEN bk[0] ELSE Unshift(bk)[i - 1]) = bk[i]
      BY <1>5
    <2> QED
      BY <2>1, <2>2, Zenon DEF History
  <1>8. Shift(bk, b)[0] = b
    BY <1>3, Zenon
  <1> QED
    BY <1>4, <1>5, <1>6, <1>7, <1>8, Zenon

(* A register holds the newest bits of a history. *)
Prefix(bk, n) == [i \in 0 .. n - 1 |-> bk[i]]

(* Shifting the register shifts the history that it holds.                  *)
LEMMA ShiftPrefix ==
    ASSUME NEW n \in Nat \ {0}, NEW bk \in History, NEW b \in Bit
    PROVE  /\ Shift(Prefix(bk, n), b) = Prefix(Shift(bk, b), n)
           /\ Prefix(bk, n) \in [0 .. n - 1 -> Bit]
  <1>1. DOMAIN Prefix(bk, n) = 0 .. n - 1
    BY Zenon DEF Prefix
  <1>2. Shift(Prefix(bk, n), b) =
          [i \in 0 .. n - 1 |-> IF i = 0 THEN b ELSE Prefix(bk, n)[i - 1]]
    BY <1>1, Zenon DEF Shift
  <1>3. ASSUME NEW i \in 0 .. n - 1
        PROVE  (IF i = 0 THEN b ELSE Prefix(bk, n)[i - 1]) = Shift(bk, b)[i]
    <2>1. CASE i = 0
      BY <2>1, ShiftHistory, Zenon
    <2>2. CASE i # 0
      <3>1. i - 1 \in 0 .. n - 1 /\ i - 1 \in Nat /\ (i - 1) + 1 = i
        BY <2>2
      <3>2. Prefix(bk, n)[i - 1] = bk[i - 1]
        BY <3>1, Zenon DEF Prefix
      <3>3. Shift(bk, b)[(i - 1) + 1] = bk[i - 1]
        BY <3>1, ShiftHistory, Zenon
      <3> QED
        BY <2>2, <3>1, <3>2, <3>3, Zenon
    <2> QED
      BY <2>1, <2>2, Zenon
  <1>4. Prefix(bk, n) \in [0 .. n - 1 -> Bit]
    BY DEF Prefix, History
  <1> QED
    BY <1>2, <1>3, <1>4, Zenon DEF Prefix

-----------------------------------------------------------------------------
(* A copied-up buffer holds the same history, and has room again.           *)
LEMMA RollOverHolds ==
    ASSUME NEW t, IsTage(t), NEW bk \in History, NEW n \in Nat, n < RollbackBuffer,
           Holds(t, bk, n), t.ptGhist < 1
    PROVE  /\ IsTage(RollOver(t)) /\ Holds(RollOver(t), bk, n)
           /\ RollOver(t).ptGhist >= 1
           /\ RollOver(t).comp = t.comp /\ RollOver(t).pathHist = t.pathHist
           /\ RollOver(t).nonSpecPathHist = t.nonSpecPathHist
  <1> DEFINE top == HistBufferSize - MaxHist - RollbackBuffer
             h == [i \in 0 .. HistBufferSize - 1 |->
                     IF i >= top THEN t.globalHist[t.ptGhist + i - top]
                                 ELSE t.globalHist[i]]
             r == [t EXCEPT !.ptGhist = top, !.globalHist = h]
  <1>1. /\ HistBufferSize \in Nat /\ MaxHist \in Nat /\ RollbackBuffer \in Nat
        /\ top \in Nat /\ top >= 1 /\ top >= MaxHist + RollbackBuffer
        /\ MaxHist >= 1 /\ RollbackBuffer >= 1
    BY TageAssumption
  <1>2. t.ptGhist = 0 /\ t.globalHist \in [0 .. HistBufferSize - 1 -> Bit]
        /\ \A i \in 0 .. HistBufferSize - 1 : t.globalHist[i] = bk[i]
    <2>1. t.ptGhist = 0 /\ t.globalHist \in [0 .. HistBufferSize - 1 -> Bit]
      BY DEF Holds
    <2>2. HistBufferSize - 1 - 0 = HistBufferSize - 1
      BY <1>1
    <2>3. \A i \in 0 .. HistBufferSize - 1 : t.globalHist[0 + i] = bk[i]
      BY <2>1, <2>2, Zenon DEF Holds
    <2>4. \A i \in 0 .. HistBufferSize - 1 : 0 + i = i
      OBVIOUS
    <2> QED
      BY <2>1, <2>3, <2>4, Zenon
  <1>3. ASSUME NEW i \in 0 .. HistBufferSize - 1, i >= top
        PROVE  i - top \in 0 .. HistBufferSize - 1 /\ h[i] = bk[i - top]
    <2>1. i - top \in 0 .. HistBufferSize - 1 /\ 0 + i - top = i - top
      BY <1>1, <1>3
    <2> QED
      BY <1>2, <1>3, <2>1, Zenon
  <1>4. h \in [0 .. HistBufferSize - 1 -> Bit]
    <2>1. ASSUME NEW i \in 0 .. HistBufferSize - 1
          PROVE  h[i] \in Bit
      <3>1. CASE i >= top
        <4>1. i - top \in Nat /\ h[i] = bk[i - top]
          BY <1>3, <3>1
        <4> QED
          BY <4>1, Zenon DEF History
      <3>2. CASE ~(i >= top)
        BY <1>2, <3>2, Zenon
      <3> QED
        BY <3>1, <3>2, Zenon
    <2> QED
      BY <2>1, Zenon
  <1>5. \A i \in 0 .. HistBufferSize - 1 - top : h[top + i] = bk[i]
    <2>1. ASSUME NEW i \in 0 .. HistBufferSize - 1 - top
          PROVE  h[top + i] = bk[i]
      <3>1. /\ top + i \in 0 .. HistBufferSize - 1 /\ top + i >= top
            /\ (top + i) - top = i
        BY <1>1
      <3> HIDE DEF top, h
      <3> QED
        BY <1>3, <3>1, Zenon
    <2> QED
      BY <2>1, Zenon
  <1>6. RollOver(t) = r
    BY Zenon DEF RollOver
  <1> HIDE DEF h
  <1>7. /\ r.globalHist = h /\ r.ptGhist = top /\ r.comp = t.comp
        /\ r.pathHist = t.pathHist /\ r.nonSpecPathHist = t.nonSpecPathHist
        /\ IsTage(r)
    BY Zenon DEF IsTage
  <1>8. top + MaxHist + n < HistBufferSize
    BY <1>1
  <1> HIDE DEF r, top
  <1>9. Holds(r, bk, n)
    BY <1>1, <1>4, <1>5, <1>7, <1>8, Zenon DEF Holds
  <1> QED
    BY <1>1, <1>6, <1>7, <1>9, Zenon

(* updateGHist pushes one bit, into the buffer and into every folding.      *)
LEMMA PushHolds ==
    ASSUME FoldsKeepUp,
           NEW t, IsTage(t), NEW bk \in History, NEW n \in Nat, n < RollbackBuffer,
           Holds(t, bk, n), Folds(t, bk), NEW a \in Bit, NEW b \in Bit
    PROVE  LET s == PushHistories(t, a, b) IN
           /\ Holds(s, Shift(bk, b), n + 1) /\ Folds(s, Shift(bk, b))
           /\ s.pathHist = Shift(t.pathHist, a)
           /\ s.nonSpecPathHist = t.nonSpecPathHist
  <1> DEFINE q == [t EXCEPT !.pathHist = Shift(@, a)]
             r == IF q.ptGhist < 1 THEN RollOver(q) ELSE q
             p == r.ptGhist - 1
             h == [r.globalHist EXCEPT ![p] = b]
             s == [r EXCEPT !.globalHist = h, !.ptGhist = p,
                            !.comp = [f \in Folded |-> FoldUpdate(f, r.comp[f], h, p)]]
  <1>1. Shift(t.pathHist, a) \in PathReg
    <2>1. t.pathHist \in [0 .. PathHistBits - 1 -> Bit] /\ PathHistBits \in Nat \ {0}
      BY TageAssumption, Zenon DEF IsTage, PathReg
    <2>2. /\ DOMAIN t.pathHist = 0 .. PathHistBits - 1
          /\ \A i \in 0 .. PathHistBits - 1 :
               (IF i = 0 THEN a ELSE t.pathHist[i - 1]) \in Bit
      BY <2>1, SMT
    <2> QED
      BY <2>2, Zenon DEF Shift, PathReg
  <1>2. /\ IsTage(q) /\ q.pathHist = Shift(t.pathHist, a)
        /\ q.nonSpecPathHist = t.nonSpecPathHist /\ q.comp = t.comp
        /\ q.globalHist = t.globalHist /\ q.ptGhist = t.ptGhist
    BY <1>1, Zenon DEF IsTage
  <1> HIDE DEF q
  <1>3. Holds(q, bk, n)
    BY <1>2, Zenon DEF Holds
  <1>4. /\ IsTage(r) /\ r.pathHist = Shift(t.pathHist, a)
        /\ r.nonSpecPathHist = t.nonSpecPathHist /\ r.comp = t.comp
        /\ Holds(r, bk, n) /\ r.ptGhist >= 1
    <2>1. CASE q.ptGhist < 1
      BY <1>2, <1>3, <2>1, RollOverHolds, Zenon
    <2>2. CASE ~(q.ptGhist < 1)
      BY <1>2, <1>3, <2>2 DEF Holds
    <2> QED
      BY <2>1, <2>2, Zenon
  <1>5. PushHistories(t, a, b) = s
    BY Zenon DEF PushHistories, UpdateGHist, q
  <1> HIDE DEF r
  <1>6. /\ s.globalHist = h /\ s.ptGhist = p /\ s.pathHist = r.pathHist
        /\ s.nonSpecPathHist = r.nonSpecPathHist
        /\ s.comp = [f \in Folded |-> FoldUpdate(f, r.comp[f], h, p)]
    BY <1>4, Zenon DEF IsTage
  <1> HIDE DEF s
  <1>7. /\ HistBufferSize \in Nat /\ MaxHist \in Nat /\ r.ptGhist \in Nat
        /\ r.globalHist \in [0 .. HistBufferSize - 1 -> Bit]
        /\ r.ptGhist + MaxHist + n < HistBufferSize
    BY <1>4, TageAssumption, Zenon DEF Holds
  <1>8. p \in Nat /\ p + 1 = r.ptGhist /\ p \in 0 .. HistBufferSize - 1
        /\ p + MaxHist + (n + 1) < HistBufferSize
    BY <1>4, <1>7
  <1>9. /\ h \in [0 .. HistBufferSize - 1 -> Bit] /\ h[p] = b
        /\ \A i \in 0 .. HistBufferSize - 1 : i # p => h[i] = r.globalHist[i]
    BY <1>7, <1>8, Zenon
  <1> HIDE DEF p, h
  <1>10. ASSUME NEW i \in 0 .. HistBufferSize - 1 - p
         PROVE  h[p + i] = Shift(bk, b)[i]
    <2>1. CASE i = 0
      BY <1>8, <1>9, <2>1, ShiftHistory, SMTT(20)
    <2>2. CASE i # 0
      <3>1. /\ i - 1 \in 0 .. HistBufferSize - 1 - r.ptGhist /\ i - 1 \in Nat
            /\ p + i = r.ptGhist + (i - 1) /\ (i - 1) + 1 = i
            /\ p + i # p /\ p + i \in 0 .. HistBufferSize - 1
        <4>1. PICK g : g = r.ptGhist
          BY Zenon
        <4>2. g \in Nat /\ p \in Nat /\ p + 1 = g /\ HistBufferSize \in Nat
          BY <1>7, <1>8, <4>1, Zenon
        <4>3. /\ i - 1 \in 0 .. HistBufferSize - 1 - g /\ i - 1 \in Nat
              /\ p + i = g + (i - 1) /\ (i - 1) + 1 = i
              /\ p + i # p /\ p + i \in 0 .. HistBufferSize - 1
          BY <2>2, <4>2, SMTT(20)
        <4> QED
          BY <4>1, <4>3, Zenon
      <3>2. h[p + i] = r.globalHist[r.ptGhist + (i - 1)]
        BY <1>9, <3>1, Zenon
      <3>3. r.globalHist[r.ptGhist + (i - 1)] = bk[i - 1]
        BY <1>4, <3>1, Zenon DEF Holds
      <3>4. Shift(bk, b)[(i - 1) + 1] = bk[i - 1]
        BY <3>1, ShiftHistory, Zenon
      <3> QED
        BY <3>1, <3>2, <3>3, <3>4, Zenon
    <2> QED
      BY <2>1, <2>2, Zenon
  <1>11. Holds(s, Shift(bk, b), n + 1)
    BY <1>6, <1>8, <1>9, <1>10, Zenon DEF Holds
  <1>12. Folds(s, Shift(bk, b))
    <2> SUFFICES ASSUME NEW f \in Folded
                 PROVE  IsFold(s.comp[f], f, Shift(bk, b))
      BY Zenon DEF Folds
    <2>1. IsFold(r.comp[f], f, bk)
      BY <1>4, Zenon DEF Folds
    <2>2. OrigLength[f] \in 1 .. MaxHist
      BY TageAssumption, Zenon
    <2>3. /\ OrigLength[f] \in 0 .. HistBufferSize - 1 - p /\ OrigLength[f] - 1 \in Nat
          /\ (OrigLength[f] - 1) + 1 = OrigLength[f]
      BY <1>7, <1>8, <2>2, SMTT(20)
    <2>4. h[p + OrigLength[f]] = bk[OrigLength[f] - 1]
      BY <1>10, <2>3, ShiftHistory
    <2>5. IsFold(FoldUpdate(f, r.comp[f], h, p), f, Shift(bk, b))
      BY <1>8, <1>9, <2>1, <2>4, Zenon DEF FoldsKeepUp
    <2> QED
      BY <1>6, <2>5, Zenon
  <1> QED
    BY <1>4, <1>5, <1>6, <1>11, <1>12, Zenon

(* restoreHistState takes the newest bit out of both.                       *)
LEMMA UndoHolds ==
    ASSUME FoldsKeepUp,
           NEW t, IsTage(t), NEW bk \in History, NEW n \in Nat, n >= 1,
           Holds(t, bk, n), Folds(t, bk), NEW saved \in PathReg
    PROVE  LET s == RestoreHistState(t, saved) IN
           /\ IsTage(s)
           /\ Holds(s, Unshift(bk), n - 1) /\ Folds(s, Unshift(bk))
           /\ s.pathHist = saved /\ s.nonSpecPathHist = t.nonSpecPathHist
  <1> DEFINE s == RestoreHistState(t, saved)
  <1>1. /\ IsTage(s) /\ s.globalHist = t.globalHist /\ s.ptGhist = t.ptGhist + 1
        /\ s.pathHist = saved /\ s.nonSpecPathHist = t.nonSpecPathHist
        /\ s.comp = [f \in Folded |->
                       FoldRestore(f, t.comp[f], t.globalHist, t.ptGhist)]
    BY Zenon DEF RestoreHistState, IsTage
  <1> HIDE DEF s
  <1>2. /\ HistBufferSize \in Nat /\ MaxHist \in Nat /\ t.ptGhist \in Nat
        /\ t.globalHist \in [0 .. HistBufferSize - 1 -> Bit]
        /\ t.ptGhist + MaxHist + n < HistBufferSize
    BY TageAssumption, Zenon DEF Holds
  <1>3. ASSUME NEW i \in 0 .. HistBufferSize - 1 - (t.ptGhist + 1)
        PROVE  t.globalHist[(t.ptGhist + 1) + i] = Unshift(bk)[i]
    <2>1. /\ i + 1 \in 0 .. HistBufferSize - 1 - t.ptGhist /\ i \in Nat
          /\ (t.ptGhist + 1) + i = t.ptGhist + (i + 1)
      <3>1. PICK p : p = t.ptGhist
        BY Zenon
      <3>2. p \in Nat /\ i \in 0 .. HistBufferSize - 1 - (p + 1)
        BY <1>2, <3>1, Zenon
      <3>3. HistBufferSize \in Nat
        BY <1>2, Zenon
      <3>4. /\ i + 1 \in 0 .. HistBufferSize - 1 - p /\ i \in Nat
            /\ (p + 1) + i = p + (i + 1)
        BY <3>2, <3>3
      <3> QED
        BY <3>1, <3>4, Zenon
    <2>2. t.globalHist[t.ptGhist + (i + 1)] = bk[i + 1]
      BY <2>1, Zenon DEF Holds
    <2> QED
      BY <2>1, <2>2, Zenon DEF Unshift
  <1>4. t.ptGhist + 1 \in Nat /\ (t.ptGhist + 1) + MaxHist + (n - 1) < HistBufferSize
    BY <1>2
  <1>5. Holds(s, Unshift(bk), n - 1)
    BY <1>1, <1>2, <1>3, <1>4, Zenon DEF Holds
  <1>6. Folds(s, Unshift(bk))
    <2> SUFFICES ASSUME NEW f \in Folded
                 PROVE  IsFold(s.comp[f], f, Unshift(bk))
      BY Zenon DEF Folds
    <2>1. IsFold(t.comp[f], f, bk)
      BY Zenon DEF Folds
    <2>2. OrigLength[f] \in 1 .. MaxHist
      BY TageAssumption, Zenon
    <2>3. /\ OrigLength[f] \in 0 .. HistBufferSize - 1 - t.ptGhist
          /\ 0 \in 0 .. HistBufferSize - 1 - t.ptGhist /\ t.ptGhist + 0 = t.ptGhist
      BY <1>2, <2>2
    <2>4. /\ t.globalHist[t.ptGhist] = bk[0]
          /\ t.globalHist[t.ptGhist + OrigLength[f]] = bk[OrigLength[f]]
      BY <2>3, Zenon DEF Holds
    <2>5. IsFold(FoldRestore(f, t.comp[f], t.globalHist, t.ptGhist), f, Unshift(bk))
      BY <1>2, <2>1, <2>4, Zenon DEF FoldsKeepUp
    <2> QED
      BY <1>1, <2>5, Zenon
  <1> QED
    BY <1>1, <1>5, <1>6, Zenon DEF s

-----------------------------------------------------------------------------
(* The directions and the address bits of the path up to the k-th record. *)
Path(k) == [i \in Nat |-> TakenBack(k, i)]
Addrs(k) == [i \in Nat |-> AddrBack(k, i)]

(* One record more pushes its bits. *)
PathShifts ==
    \A k \in 1 .. Len(predHist) :
        /\ Path(k) = Shift(Path(k - 1), TakenBit(predHist[k].actuallyTaken))
        /\ Addrs(k) = Shift(Addrs(k - 1), AddrBit(predHist[k].sn))

-----------------------------------------------------------------------------
(* The inductive invariant: every register, also those saved in the         *)
(* records, holds the path up to where it was saved.                        *)
HistInv ==
    /\ Len(predHist) <= MaxInFlight
    /\ Holds(tage, Path(Len(predHist)), Len(predHist))
    /\ Folds(tage, Path(Len(predHist)))
    /\ tage.pathHist = Prefix(Addrs(Len(predHist)), PathHistBits)
    /\ tage.nonSpecPathHist = Prefix(Addrs(0), PathHistBits)
    /\ ind.ghr = Prefix(Path(Len(predHist)), GHRBits)
    /\ \A k \in 1 .. Len(predHist) :
         /\ predHist[k].pathHist = Prefix(Addrs(k - 1), PathHistBits)
         /\ predHist[k].ghr = Prefix(Path(k - 1), GHRBits)

(* The invariant holds throughout.                                          *)
THEOREM HistCorrectness ==
    ASSUME FoldsKeepUp
    PROVE  Spec => [](BTypeOK /\ HistInv)
  (* Both are histories.                                                      *)
  <1>PathType. ASSUME BPTypeOK
               PROVE  \A k \in 0 .. Len(predHist) : Path(k) \in History /\ Addrs(k) \in History
    <2> USE <1>PathType
    <2>1. predHist \in Seq(Record) /\ done \in Seq([sn : Nat, taken : BOOLEAN])
      BY Zenon DEF BPTypeOK
    <2>2. \A b : TakenBit(b) \in Bit
      BY Zenon DEF TakenBit, Bit
    <2>3. \A m \in Nat : AddrBit(m) \in Bit
      BY DEF AddrBit, Bit
    <2>4. ASSUME NEW k \in 0 .. Len(predHist), NEW i \in Nat
          PROVE  TakenBack(k, i) \in Bit /\ AddrBack(k, i) \in Bit
      <3>1. CASE i < k
        <4>1. k - i \in 1 .. Len(predHist)
          BY <2>1, <3>1
        <4>2. predHist[k - i] \in Record
          BY <2>1, <4>1
        <4>3. predHist[k - i].sn \in Nat
          BY <4>2, Zenon DEF Record
        <4> QED
          BY <2>2, <2>3, <3>1, <4>3, Zenon DEF TakenBack, AddrBack
      <3>2. CASE ~(i < k) /\ i - k < Len(done)
        <4>1. Len(done) - (i - k) \in 1 .. Len(done)
          BY <2>1, <3>2
        <4>2. PICK D : D = [sn : Nat, taken : BOOLEAN]
          BY Zenon
        <4>3. done \in Seq(D)
          BY <2>1, <4>2, Zenon
        <4>4. done[Len(done) - (i - k)] \in D
          BY <4>1, <4>3
        <4>5. done[Len(done) - (i - k)].sn \in Nat
          BY <4>2, <4>4, Zenon
        <4> QED
          BY <2>2, <2>3, <3>2, <4>5, Zenon DEF TakenBack, AddrBack
      <3>3. CASE ~(i < k) /\ ~(i - k < Len(done))
        BY <3>3, Zenon DEF TakenBack, AddrBack, Bit
      <3> QED
        BY <3>1, <3>2, <3>3, Zenon
    <2> QED
      BY <2>4, Zenon DEF Path, Addrs, History
  (* That is how TakenBack and AddrBack look back.                            *)
  <1>PathShift. BPTypeOK => PathShifts
    <2> SUFFICES ASSUME BPTypeOK, NEW k \in 1 .. Len(predHist)
                 PROVE  /\ Path(k) = Shift(Path(k - 1), TakenBit(predHist[k].actuallyTaken))
                        /\ Addrs(k) = Shift(Addrs(k - 1), AddrBit(predHist[k].sn))
      BY Zenon DEF PathShifts
    <2> DEFINE b == TakenBit(predHist[k].actuallyTaken)
               a == AddrBit(predHist[k].sn)
    <2>1. k \in Nat /\ k >= 1 /\ k - 1 \in Nat /\ k - 0 = k
      BY DEF BPTypeOK
    <2>2. /\ Shift(Path(k - 1), b)
               = [i \in Nat |-> IF i = 0 THEN b ELSE Path(k - 1)[i - 1]]
          /\ Shift(Addrs(k - 1), a)
               = [i \in Nat |-> IF i = 0 THEN a ELSE Addrs(k - 1)[i - 1]]
      BY Zenon DEF Shift, Path, Addrs
    <2>3. ASSUME NEW i \in Nat
          PROVE  /\ TakenBack(k, i) = IF i = 0 THEN b ELSE Path(k - 1)[i - 1]
                 /\ AddrBack(k, i) = IF i = 0 THEN a ELSE Addrs(k - 1)[i - 1]
      <3>1. CASE i = 0
        BY <2>1, <3>1 DEF TakenBack, AddrBack
      <3>2. CASE i # 0
        <4>1. /\ i - 1 \in Nat /\ (i < k <=> i - 1 < k - 1)
              /\ k - i = (k - 1) - (i - 1) /\ i - k = (i - 1) - (k - 1)
          BY <2>1, <3>2
        <4>2. /\ TakenBack(k, i) = TakenBack(k - 1, i - 1)
              /\ AddrBack(k, i) = AddrBack(k - 1, i - 1)
          BY <4>1, Zenon DEF TakenBack, AddrBack
        <4> QED
          BY <3>2, <4>1, <4>2, Zenon DEF Path, Addrs
      <3> QED
        BY <3>1, <3>2, Zenon
    <2>4. /\ Path(k) = [i \in Nat |-> TakenBack(k, i)]
          /\ Addrs(k) = [i \in Nat |-> AddrBack(k, i)]
      BY Zenon DEF Path, Addrs
    <2>5. Path(k) = Shift(Path(k - 1), b) /\ Addrs(k) = Shift(Addrs(k - 1), a)
      BY <2>2, <2>3, <2>4, ZenonT(30)
    <2> QED
      BY <2>5, Zenon
  (* What happens to the younger records does not change the path before.     *)
  <1>PathPrefix. ASSUME NEW m \in Nat, done' = done,
                        \A j \in 1 .. m : /\ predHist'[j].sn = predHist[j].sn
                                          /\ predHist'[j].actuallyTaken = predHist[j].actuallyTaken
                 PROVE  \A k \in 0 .. m : Path(k)' = Path(k) /\ Addrs(k)' = Addrs(k)
    <2> USE <1>PathPrefix
    <2>1. ASSUME NEW k \in 0 .. m, NEW i \in Nat
          PROVE  TakenBack(k, i)' = TakenBack(k, i) /\ AddrBack(k, i)' = AddrBack(k, i)
      <3>1. CASE i < k
        <4>1. k - i \in 1 .. m
          BY <3>1
        <4> QED
          BY <3>1, <4>1, Zenon DEF TakenBack, AddrBack
      <3>2. CASE ~(i < k)
        BY <3>2, Zenon DEF TakenBack, AddrBack
      <3> QED
        BY <3>1, <3>2, Zenon
    <2> QED
      BY <2>1, Zenon DEF Path, Addrs
  (* A committed branch stays where it is in the path.                        *)
  <1>PathCommit. ASSUME BPTypeOK, predHist # <<>>, CommitBranch
                 PROVE  \A k \in 0 .. Len(predHist) - 1 :
                          Path(k)' = Path(k + 1) /\ Addrs(k)' = Addrs(k + 1)
    <2> USE <1>PathCommit
    <2>1. predHist \in Seq(Record) /\ done \in Seq([sn : Nat, taken : BOOLEAN])
      BY Zenon DEF BPTypeOK
    <2>2. /\ Len(predHist') = Len(predHist) - 1 /\ Len(predHist) \in Nat
          /\ \A i \in 1 .. Len(predHist) - 1 : predHist'[i] = predHist[i + 1]
      BY <2>1 DEF CommitBranch
    <2>3. Outcome(Oldest) \in [sn : Nat, taken : BOOLEAN]
          /\ Outcome(Oldest).sn = predHist[1].sn
          /\ Outcome(Oldest).taken = predHist[1].actuallyTaken
      <3>1. Oldest \in Record /\ Oldest = predHist[1]
        BY <2>1 DEF Oldest
      <3>2. Oldest.sn \in Nat /\ Oldest.actuallyTaken \in BOOLEAN
        BY <3>1, Zenon DEF Record
      <3> QED
        BY <3>1, <3>2, Zenon DEF Outcome
    <2>4. /\ Len(done') = Len(done) + 1 /\ Len(done) \in Nat
          /\ done'[Len(done) + 1] = Outcome(Oldest)
          /\ \A i \in 1 .. Len(done) : done'[i] = done[i]
      BY <2>1, <2>3 DEF CommitBranch
    <2>5. ASSUME NEW k \in 0 .. Len(predHist) - 1, NEW i \in Nat
          PROVE  /\ TakenBack(k, i)' = TakenBack(k + 1, i)
                 /\ AddrBack(k, i)' = AddrBack(k + 1, i)
      <3>1. CASE i < k
        <4>1. k - i \in 1 .. Len(predHist) - 1 /\ i < k + 1 /\ (k - i) + 1 = (k + 1) - i
          BY <2>2, <3>1
        <4>2. predHist'[k - i] = predHist[(k + 1) - i]
          BY <2>2, <4>1, Zenon
        <4> QED
          BY <3>1, <4>1, <4>2, Zenon DEF TakenBack, AddrBack
      <3>2. CASE i = k
        <4>1. ~(i < k) /\ i - k = 0 /\ i < k + 1 /\ (k + 1) - i = 1
              /\ 0 < Len(done) + 1 /\ (Len(done) + 1) - 0 = Len(done) + 1
          BY <2>2, <2>4, <3>2
        <4> QED
          BY <2>3, <2>4, <4>1, Zenon DEF TakenBack, AddrBack
      <3>3. CASE i > k
        <4>1. /\ ~(i < k) /\ ~(i < k + 1)
              /\ (i - k < Len(done) + 1 <=> i - (k + 1) < Len(done))
              /\ (Len(done) + 1) - (i - k) = Len(done) - (i - (k + 1))
              /\ i - k < Len(done) + 1 => Len(done) - (i - (k + 1)) \in 1 .. Len(done)
          BY <2>2, <2>4, <3>3, SMTT(20)
        <4> QED
          BY <2>4, <4>1, Zenon DEF TakenBack, AddrBack
      <3> QED
        BY <2>2, <3>1, <3>2, <3>3, SMTT(20)
    <2> QED
      BY <2>5, Zenon DEF Path, Addrs
  (* A push into the direction register is a shift.                           *)
  <1>GhrShift. ASSUME NEW bk \in History, NEW b \in Bit
               PROVE  UpdateDirectionInfo(Prefix(bk, GHRBits), b) = Prefix(Shift(bk, b), GHRBits)
    <2> USE <1>GhrShift
    <2>1. GHRBits \in Nat \ {0}
      BY IndirectAssumption, Zenon
    <2>2. UpdateDirectionInfo(Prefix(bk, GHRBits), b) = Shift(Prefix(bk, GHRBits), b)
      BY Zenon DEF UpdateDirectionInfo, Shift, Prefix
    <2> QED
      BY <2>1, <2>2, ShiftPrefix, Zenon
  (* predict() pushes the branch.                                             *)
  <1>HistPredict. ASSUME BPTypeOK, BPTypeOK', HistInv, Len(predHist) < MaxInFlight,
                         NEW sn \in Nat, NEW type \in BranchType, NEW cond \in BOOLEAN,
                         NEW btbHit \in BOOLEAN, NEW hit \in BOOLEAN,
                         Predict(sn, type, cond, btbHit, hit)
                  PROVE  HistInv'
    <2> USE <1>HistPredict
    <2>0. PICK n : n = Len(predHist)
      BY Zenon
    <2>1. PICK r \in Record :
            Predicted(r, sn, type, RasOp(type, btbHit \/ ~requiresBTBHit))
      BY PredictRecord, Zenon
    <2>2. /\ predHist' = Append(predHist, r) /\ r.sn = sn
          /\ r.pathHist = tage.pathHist /\ r.ghr = ind.ghr
          /\ tage' = PushHistories(tage, AddrBit(sn), TakenBit(r.actuallyTaken))
          /\ ind' = IndirectPush(ind, IsIndirectNoReturn(type), TargetOf(sn, FALSE),
                                 TakenBit(r.actuallyTaken))
      BY <2>1, Zenon DEF Predicted
    <2>3. predHist \in Seq(Record) /\ n \in Nat
      BY <2>0 DEF BPTypeOK
    <2>4. /\ Len(predHist') = n + 1 /\ predHist'[n + 1] = r
          /\ \A j \in 1 .. n : predHist'[j] = predHist[j]
      BY <2>0, <2>2, <2>3, SMTT(20)
    <2>5. done' = done
      BY Zenon DEF Predict
    <2>6. \A k \in 0 .. n : Path(k)' = Path(k) /\ Addrs(k)' = Addrs(k)
      BY <2>3, <2>4, <2>5, <1>PathPrefix, Zenon
    <2>7. PathShifts'
      BY <1>PathShift, PTL
    <2>8. n + 1 \in 1 .. n + 1 /\ (n + 1) - 1 = n /\ n \in 0 .. n /\ 0 \in 0 .. n
      BY <2>3
    <2>9. /\ Path(n + 1)' = Shift(Path(n), TakenBit(r.actuallyTaken))
          /\ Addrs(n + 1)' = Shift(Addrs(n), AddrBit(sn))
      BY <2>2, <2>4, <2>6, <2>7, <2>8, ZenonT(30) DEF PathShifts
    <2>10. Path(n) \in History /\ Addrs(n) \in History
      BY <2>0, <2>8, <1>PathType, Zenon
    <2>11. TakenBit(r.actuallyTaken) \in Bit /\ AddrBit(sn) \in Bit
      BY DEF TakenBit, AddrBit, Bit
    <2> DEFINE a == AddrBit(sn)
               b == TakenBit(r.actuallyTaken)
    <2>12. n < RollbackBuffer /\ n + 1 <= MaxInFlight
      BY <2>0, <2>3, TageAssumption, FrontEndAssumption, SMTT(20)
    <2>13. /\ Holds(tage', Shift(Path(n), b), n + 1) /\ Folds(tage', Shift(Path(n), b))
           /\ tage'.pathHist = Shift(tage.pathHist, a)
           /\ tage'.nonSpecPathHist = tage.nonSpecPathHist
      <3>1. IsTage(tage) /\ Holds(tage, Path(n), n) /\ Folds(tage, Path(n))
        BY <2>0, Zenon DEF HistInv, BPTypeOK
      <3>2. PICK bk : bk = Path(n)
        BY ZenonT(30)
      <3> QED
        BY <2>2, <2>3, <2>10, <2>11, <2>12, <3>1, <3>2, PushHolds, SMTT(20)
    <2>14. tage'.pathHist = Prefix(Addrs(n + 1)', PathHistBits)
      BY <2>0, <2>9, <2>10, <2>11, <2>13, TageAssumption, ShiftPrefix, SMTT(20) DEF HistInv
    <2>15. ind'.ghr = Prefix(Path(n + 1)', GHRBits)
      BY <2>0, <2>2, <2>9, <2>10, <2>11, <1>GhrShift, Zenon DEF HistInv, IndirectPush
    <2>16. tage'.nonSpecPathHist = Prefix(Addrs(0)', PathHistBits)
      BY <2>6, <2>8, <2>13, ZenonT(30) DEF HistInv
    <2>17. ASSUME NEW k \in 1 .. n + 1
           PROVE  /\ predHist'[k].pathHist = Prefix(Addrs(k - 1)', PathHistBits)
                  /\ predHist'[k].ghr = Prefix(Path(k - 1)', GHRBits)
      <3>1. k - 1 \in 0 .. n
        BY <2>3
      <3>2. CASE k = n + 1
        BY <2>0, <2>2, <2>4, <2>6, <2>8, <3>2, ZenonT(30) DEF HistInv
      <3>3. CASE k # n + 1
        <4>1. k \in 1 .. n
          BY <2>3, <3>3
        <4> QED
          BY <2>0, <2>4, <2>6, <3>1, <4>1, Zenon DEF HistInv
      <3> QED
        BY <3>2, <3>3, Zenon
    <2>18. Holds(tage', Path(n + 1)', n + 1) /\ Folds(tage', Path(n + 1)')
      BY <2>9, <2>13, Zenon
    <2> QED
      BY <2>4, <2>12, <2>14, <2>15, <2>16, <2>17, <2>18, Zenon DEF HistInv
  (* squashHistory() takes the newest branch out.                             *)
  <1>HistSquash. ASSUME BPTypeOK, BPTypeOK', HistInv, predHist # <<>>, SquashHistory
                 PROVE  HistInv'
    <2> USE <1>HistSquash
    <2>0. PICK n : n = Len(predHist)
      BY Zenon
    <2>1. /\ predHist \in Seq(Record) /\ n \in Nat \ {0} /\ n \in 1 .. n /\ n - 1 \in Nat
          /\ 0 \in 0 .. n - 1 /\ n - 1 \in 0 .. n - 1 /\ n >= 1
      BY <2>0, SMTT(20) DEF BPTypeOK
    <2>2. /\ Len(predHist') = n - 1
          /\ \A j \in 1 .. n - 1 : predHist'[j] = predHist[j]
          /\ done' = done
      BY <2>0, <2>1 DEF SquashHistory
    <2>3. \A k \in 0 .. n - 1 : Path(k)' = Path(k) /\ Addrs(k)' = Addrs(k)
      BY <2>1, <2>2, <1>PathPrefix, Zenon
    <2>4. /\ Path(n) \in History /\ Path(n - 1) \in History
          /\ Path(n) = Shift(Path(n - 1), TakenBit(predHist[n].actuallyTaken))
      BY <2>0, <2>1, <1>PathType, <1>PathShift, SMTT(20) DEF PathShifts
    <2>5. Unshift(Path(n)) = Path(n - 1)
      <3>1. TakenBit(predHist[n].actuallyTaken) \in Bit
        BY Zenon DEF TakenBit, Bit
      <3>2. PICK bk : bk = Path(n - 1)
        BY Zenon
      <3>3. PICK c : c = TakenBit(predHist[n].actuallyTaken)
        BY Zenon
      <3>4. bk \in History /\ c \in Bit /\ Path(n) = Shift(bk, c)
        BY <2>4, <3>1, <3>2, <3>3, Zenon
      <3> QED
        BY <3>2, <3>4, ShiftHistory
    <2>6. /\ Newest = predHist[n] /\ Newest.pathHist \in PathReg
          /\ Newest.pathHist = Prefix(Addrs(n - 1), PathHistBits)
          /\ Newest.ghr = Prefix(Path(n - 1), GHRBits)
      <3>1. Newest = predHist[n] /\ Newest \in Record
        BY <2>0, <2>1 DEF Newest
      <3>2. Newest.pathHist \in PathReg
        BY <3>1, Zenon DEF Record
      <3> QED
        BY <2>0, <2>1, <3>1, <3>2, Zenon DEF HistInv
    <2>7. /\ Holds(tage', Path(n - 1), n - 1) /\ Folds(tage', Path(n - 1))
          /\ tage'.pathHist = Newest.pathHist
          /\ tage'.nonSpecPathHist = tage.nonSpecPathHist
      <3>1. IsTage(tage) /\ Holds(tage, Path(n), n) /\ Folds(tage, Path(n))
        BY <2>0, Zenon DEF HistInv, BPTypeOK
      <3>2. PICK bk : bk = Path(n)
        BY Zenon
      <3>3. PICK saved : saved = Newest.pathHist
        BY Zenon
      <3>4. tage' = RestoreHistState(tage, saved)
        BY <3>3, Zenon DEF SquashHistory
      <3>5. n \in Nat /\ bk \in History /\ saved \in PathReg
        BY <2>1, <2>4, <2>6, <3>2, <3>3, Zenon
      <3>6. /\ Holds(tage', Unshift(bk), n - 1) /\ Folds(tage', Unshift(bk))
            /\ tage'.pathHist = saved
            /\ tage'.nonSpecPathHist = tage.nonSpecPathHist
        BY <2>1, <3>1, <3>2, <3>4, <3>5, UndoHolds, Zenon
      <3> QED
        BY <2>5, <3>2, <3>3, <3>6, Zenon
    <2>8. ind'.ghr = Newest.ghr
      BY Zenon DEF SquashHistory, IndirectUndo
    <2>9. n - 1 <= MaxInFlight
      BY <2>0, <2>1, FrontEndAssumption, TageAssumption, SMTT(20) DEF HistInv
    <2>10. ASSUME NEW k \in 1 .. n - 1
           PROVE  /\ predHist'[k].pathHist = Prefix(Addrs(k - 1)', PathHistBits)
                  /\ predHist'[k].ghr = Prefix(Path(k - 1)', GHRBits)
      <3>1. k - 1 \in 0 .. n - 1 /\ k \in 1 .. n
        BY <2>1, SMTT(20)
      <3> QED
        BY <2>0, <2>2, <2>3, <3>1, Zenon DEF HistInv
    <2>11. tage'.nonSpecPathHist = Prefix(Addrs(0)', PathHistBits)
      BY <2>1, <2>3, <2>7, Zenon DEF HistInv
    <2>12. /\ Holds(tage', Path(n - 1)', n - 1) /\ Folds(tage', Path(n - 1)')
           /\ tage'.pathHist = Prefix(Addrs(n - 1)', PathHistBits)
           /\ ind'.ghr = Prefix(Path(n - 1)', GHRBits)
      BY <2>1, <2>3, <2>6, <2>7, <2>8, Zenon
    <2> QED
      BY <2>2, <2>9, <2>10, <2>11, <2>12, Zenon DEF HistInv
  (* The correction takes the newest branch out and pushes it again.          *)
  <1>HistCorrect. ASSUME BPTypeOK, BPTypeOK', HistInv, predHist # <<>>,
                         NEW taken \in BOOLEAN, Correct(taken)
                  PROVE  HistInv'
    <2> USE <1>HistCorrect
    <2>0. PICK n : n = Len(predHist)
      BY Zenon
    <2>1. /\ predHist \in Seq(Record) /\ n \in Nat \ {0} /\ n \in 1 .. n /\ n - 1 \in Nat
          /\ 0 \in 0 .. n - 1 /\ n - 1 \in 0 .. n - 1 /\ n >= 1 /\ (n - 1) + 1 = n
      BY <2>0, SMTT(20) DEF BPTypeOK
    <2>2. PICK r \in Record : Corrected(r, taken)
      BY CorrectRecord, Zenon
    <2>3. Newest = predHist[n] /\ Newest \in Record
      BY <2>0, <2>1 DEF Newest
    <2>4. /\ predHist' = [predHist EXCEPT ![n] = r]
          /\ r.sn = Newest.sn /\ r.actuallyTaken = taken
          /\ r.pathHist = Newest.pathHist /\ r.ghr = Newest.ghr
      BY <2>0, <2>2, Zenon DEF Corrected
    <2>5. /\ Len(predHist') = n /\ predHist'[n] = r
          /\ \A j \in 1 .. n - 1 : predHist'[j] = predHist[j]
          /\ done' = done
      <3>1. done' = done
        BY Zenon DEF Correct
      <3> QED
        BY <2>0, <2>1, <2>4, <3>1, SMTT(20)
    <2>6. \A k \in 0 .. n - 1 : Path(k)' = Path(k) /\ Addrs(k)' = Addrs(k)
      BY <2>1, <2>5, <1>PathPrefix, Zenon
    <2>7. PathShifts /\ PathShifts'
      BY <1>PathShift, PTL
    <2>8. PICK b : b = TakenBit(taken)
      BY Zenon
    <2>9. PICK a : a = AddrBit(Newest.sn)
      BY Zenon
    <2>10. a \in Bit /\ b \in Bit
      <3>1. Newest.sn \in Nat
        BY <2>3, Zenon DEF Record
      <3> QED
        BY <2>8, <2>9, <3>1 DEF TakenBit, AddrBit, Bit
    <2>11. Path(n)' = Shift(Path(n - 1), b) /\ Addrs(n)' = Shift(Addrs(n - 1), a)
      BY <2>1, <2>4, <2>5, <2>6, <2>7, <2>8, <2>9, SMTT(20) DEF PathShifts
    <2>12. /\ Path(n) \in History /\ Path(n - 1) \in History /\ Addrs(n - 1) \in History
           /\ Path(n) = Shift(Path(n - 1), TakenBit(predHist[n].actuallyTaken))
      BY <2>0, <2>1, <2>7, <1>PathType, SMTT(20) DEF PathShifts
    <2>13. Unshift(Path(n)) = Path(n - 1)
      <3>1. TakenBit(predHist[n].actuallyTaken) \in Bit
        BY Zenon DEF TakenBit, Bit
      <3>2. PICK bk : bk = Path(n - 1)
        BY Zenon
      <3>3. PICK c : c = TakenBit(predHist[n].actuallyTaken)
        BY Zenon
      <3>4. bk \in History /\ c \in Bit /\ Path(n) = Shift(bk, c)
        BY <2>12, <3>1, <3>2, <3>3, Zenon
      <3> QED
        BY <3>2, <3>4, ShiftHistory, SMTT(20)
    <2>14. PICK saved : saved = Newest.pathHist
      BY Zenon
    <2>15. /\ saved \in PathReg /\ saved = Prefix(Addrs(n - 1), PathHistBits)
           /\ Newest.ghr = Prefix(Path(n - 1), GHRBits)
      <3>1. Newest.pathHist \in PathReg
        BY <2>3, Zenon DEF Record
      <3> QED
        BY <2>0, <2>1, <2>3, <2>14, <3>1, Zenon DEF HistInv
    <2>16. PICK u : u = RestoreHistState(tage, saved)
      BY Zenon
    <2>17. /\ IsTage(u) /\ Holds(u, Path(n - 1), n - 1) /\ Folds(u, Path(n - 1))
           /\ u.pathHist = saved /\ u.nonSpecPathHist = tage.nonSpecPathHist
      <3>1. IsTage(tage) /\ Holds(tage, Path(n), n) /\ Folds(tage, Path(n))
        BY <2>0, Zenon DEF HistInv, BPTypeOK
      <3>2. PICK bk : bk = Path(n)
        BY Zenon
      <3>3. n \in Nat /\ bk \in History
        BY <2>1, <2>12, <3>2, Zenon
      <3>4. /\ IsTage(u) /\ Holds(u, Unshift(bk), n - 1) /\ Folds(u, Unshift(bk))
            /\ u.pathHist = saved
            /\ u.nonSpecPathHist = tage.nonSpecPathHist
        BY <2>1, <2>15, <2>16, <3>1, <3>2, <3>3, UndoHolds, Zenon
      <3> QED
        BY <2>13, <3>2, <3>4, Zenon
    <2>18. n - 1 < RollbackBuffer /\ n <= MaxInFlight
      BY <2>0, <2>1, FrontEndAssumption, TageAssumption, SMTT(20) DEF HistInv
    <2>19. tage' = PushHistories(u, a, b)
      BY <2>8, <2>9, <2>14, <2>16, Zenon DEF Correct
    <2>20. /\ Holds(tage', Path(n)', n) /\ Folds(tage', Path(n)')
           /\ tage'.pathHist = Shift(saved, a)
           /\ tage'.nonSpecPathHist = tage.nonSpecPathHist
      <3>1. PICK bk : bk = Path(n - 1)
        BY Zenon
      <3>2. PICK m : m = n - 1
        BY ZenonT(30)
      <3>3. /\ Holds(tage', Shift(bk, b), m + 1) /\ Folds(tage', Shift(bk, b))
            /\ tage'.pathHist = Shift(u.pathHist, a)
            /\ tage'.nonSpecPathHist = u.nonSpecPathHist
        BY <2>1, <2>10, <2>12, <2>17, <2>18, <2>19, <3>1, <3>2, PushHolds, SMTT(20)
      <3> QED
        BY <2>1, <2>11, <2>17, <3>1, <3>2, <3>3, Zenon
    <2>21. tage'.pathHist = Prefix(Addrs(n)', PathHistBits)
      BY <2>10, <2>11, <2>12, <2>15, <2>20, TageAssumption, ShiftPrefix, SMTT(20)
    <2>22. ind'.ghr = Prefix(Path(n)', GHRBits)
      <3>1. ind'.ghr = UpdateDirectionInfo(Newest.ghr, b)
        BY <2>8, Zenon DEF Correct, IndirectPush, IndirectUndo
      <3> QED
        BY <2>10, <2>11, <2>12, <2>15, <3>1, <1>GhrShift, Zenon
    <2>23. tage'.nonSpecPathHist = Prefix(Addrs(0)', PathHistBits)
      BY <2>1, <2>6, <2>20, Zenon DEF HistInv
    <2>24. ASSUME NEW k \in 1 .. n
           PROVE  /\ predHist'[k].pathHist = Prefix(Addrs(k - 1)', PathHistBits)
                  /\ predHist'[k].ghr = Prefix(Path(k - 1)', GHRBits)
      <3>1. k - 1 \in 0 .. n - 1
        BY <2>1
      <3>2. CASE k = n
        BY <2>1, <2>4, <2>5, <2>6, <2>14, <2>15, <3>2, Zenon
      <3>3. CASE k # n
        <4>1. k \in 1 .. n - 1
          BY <2>1, <3>3, SMTT(20)
        <4> QED
          BY <2>0, <2>5, <2>6, <3>1, <4>1, Zenon DEF HistInv
      <3> QED
        BY <3>2, <3>3, Zenon
    <2> QED
      BY <2>5, <2>18, <2>20, <2>21, <2>22, <2>23, <2>24, Zenon DEF HistInv
  (* commitBranch() moves the oldest branch to the committed ones.            *)
  <1>HistCommit. ASSUME BPTypeOK, BPTypeOK', HistInv, predHist # <<>>, CommitBranch
                 PROVE  HistInv'
    <2> USE <1>HistCommit
    <2>0. PICK n : n = Len(predHist)
      BY Zenon
    <2>1. /\ predHist \in Seq(Record) /\ n \in Nat \ {0} /\ 1 \in 1 .. n /\ n - 1 \in Nat
          /\ 0 \in 0 .. n - 1 /\ n - 1 \in 0 .. n - 1 /\ (n - 1) + 1 = n
          /\ 0 + 1 = 1 /\ 1 - 1 = 0 /\ 0 \in 0 .. n
      BY <2>0, SMTT(20) DEF BPTypeOK
    <2>2. /\ Len(predHist') = n - 1
          /\ \A i \in 1 .. n - 1 : predHist'[i] = predHist[i + 1]
      BY <2>0, <2>1 DEF CommitBranch
    <2>3. \A k \in 0 .. n - 1 : Path(k)' = Path(k + 1) /\ Addrs(k)' = Addrs(k + 1)
      BY <2>0, <1>PathCommit, Zenon
    <2>4. Path(n - 1)' = Path(n) /\ Addrs(n - 1)' = Addrs(n) /\ Addrs(0)' = Addrs(1)
      BY <2>1, <2>3, Zenon
    <2>5. /\ tage'.globalHist = tage.globalHist /\ tage'.ptGhist = tage.ptGhist
          /\ tage'.comp = tage.comp /\ tage'.pathHist = tage.pathHist
          /\ tage'.nonSpecPathHist = Shift(Oldest.pathHist, AddrBit(Oldest.sn))
      BY Zenon DEF CommitBranch, CommitHistories, BPTypeOK, IsTage
    <2>6. ind'.ghr = ind.ghr
      BY Zenon DEF CommitBranch, Trim, BPTypeOK
    <2>7. tage'.nonSpecPathHist = Prefix(Addrs(0)', PathHistBits)
      <3>1. Oldest = predHist[1] /\ Oldest \in Record
        BY <2>0, <2>1 DEF Oldest
      <3>2. Oldest.sn \in Nat
        BY <3>1, Zenon DEF Record
      <3>3. PICK a : a = AddrBit(Oldest.sn)
        BY Zenon
      <3>4. a \in Bit
        BY <3>2, <3>3 DEF AddrBit, Bit
      <3>5. Addrs(0) \in History /\ Addrs(1) = Shift(Addrs(0), a)
        BY <2>0, <2>1, <3>1, <3>3, <1>PathType, <1>PathShift, Zenon DEF PathShifts
      <3>6. Oldest.pathHist = Prefix(Addrs(0), PathHistBits)
        BY <2>0, <2>1, <3>1, Zenon DEF HistInv
      <3>7. PICK bk : bk = Addrs(0)
        BY Zenon
      <3>8. Shift(Prefix(bk, PathHistBits), a) = Prefix(Shift(bk, a), PathHistBits)
        BY <3>4, <3>5, <3>7, TageAssumption, ShiftPrefix, Zenon
      <3> QED
        BY <2>4, <2>5, <3>3, <3>5, <3>6, <3>7, <3>8, Zenon
    <2>8. Holds(tage', Path(n - 1)', n - 1) /\ Folds(tage', Path(n - 1)')
      <3>1. Holds(tage, Path(n), n) /\ Folds(tage, Path(n))
        BY <2>0, Zenon DEF HistInv
      <3>2. Folds(tage', Path(n - 1)')
        BY <2>4, <2>5, <3>1, Zenon DEF Folds
      <3>3. PICK bk : bk = Path(n)
        BY Zenon
      <3>4. Holds(tage', bk, n - 1)
        <4>1. /\ tage.ptGhist \in Nat /\ tage.ptGhist + MaxHist + n < HistBufferSize
              /\ MaxHist \in Nat /\ HistBufferSize \in Nat
          BY <3>1, TageAssumption, Zenon DEF Holds
        <4>2. tage.ptGhist + MaxHist + (n - 1) < HistBufferSize
          BY <2>1, <4>1
        <4> QED
          BY <2>5, <3>1, <3>3, <4>2, Zenon DEF Holds
      <3> QED
        BY <2>4, <3>2, <3>3, <3>4, Zenon
    <2>9. ASSUME NEW k \in 1 .. n - 1
          PROVE  /\ predHist'[k].pathHist = Prefix(Addrs(k - 1)', PathHistBits)
                 /\ predHist'[k].ghr = Prefix(Path(k - 1)', GHRBits)
      <3>1. /\ k - 1 \in 0 .. n - 1 /\ k + 1 \in 1 .. n
            /\ (k - 1) + 1 = k /\ (k + 1) - 1 = k
        BY <2>1
      <3>2. Addrs(k - 1)' = Addrs(k) /\ Path(k - 1)' = Path(k)
        BY <2>3, <3>1, Zenon
      <3>3. /\ predHist[k + 1].pathHist = Prefix(Addrs(k), PathHistBits)
            /\ predHist[k + 1].ghr = Prefix(Path(k), GHRBits)
        BY <2>0, <3>1, Zenon DEF HistInv
      <3> QED
        BY <2>2, <3>2, <3>3, Zenon
    <2>10. n - 1 <= MaxInFlight
      BY <2>0, <2>1, FrontEndAssumption, TageAssumption, SMTT(20) DEF HistInv
    <2>11. /\ tage'.pathHist = Prefix(Addrs(n - 1)', PathHistBits)
           /\ ind'.ghr = Prefix(Path(n - 1)', GHRBits)
      BY <2>0, <2>4, <2>5, <2>6, Zenon DEF HistInv
    <2> QED
      BY <2>2, <2>7, <2>8, <2>9, <2>10, <2>11, Zenon DEF HistInv
  (* Nothing is predicted and all registers are 0.                            *)
  <1>HistInit. Init => HistInv
    <2> SUFFICES ASSUME Init PROVE HistInv
      BY Zenon
    <2>1. /\ predHist = <<>> /\ done = <<>> /\ tage = NewHistory /\ ind = NewIndirect
          /\ Len(predHist) = 0
      BY Zenon DEF Init, BPInit
    <2>2. /\ HistBufferSize \in Nat /\ MaxHist \in Nat /\ MaxHist + 0 < HistBufferSize
          /\ 0 + MaxHist + 0 < HistBufferSize /\ MaxInFlight \in Nat
          /\ PathHistBits \in Nat /\ GHRBits \in Nat
      BY TageAssumption, IndirectAssumption, FrontEndAssumption, SMTT(20)
    <2>3. \A i \in Nat : TakenBack(0, i) = 0 /\ AddrBack(0, i) = 0
      BY <2>1 DEF TakenBack, AddrBack
    <2>4. \A i \in Nat : Path(0)[i] = 0 /\ Addrs(0)[i] = 0
      BY <2>3, Zenon DEF Path, Addrs
    <2>5. /\ tage.globalHist = [i \in 0 .. HistBufferSize - 1 |-> 0] /\ tage.ptGhist = 0
          /\ tage.pathHist = [i \in 0 .. PathHistBits - 1 |-> 0]
          /\ tage.nonSpecPathHist = [i \in 0 .. PathHistBits - 1 |-> 0]
          /\ tage.comp = [f \in Folded |-> [j \in 0 .. CompLength[f] - 1 |-> 0]]
          /\ ind.ghr = [i \in 0 .. GHRBits - 1 |-> 0]
      BY <2>1, Zenon DEF NewHistory, NewIndirect
    <2>6. Holds(tage, Path(0), 0)
      <3>1. PICK bk : bk = Path(0)
        BY Zenon
      <3>2. \A i \in 0 .. HistBufferSize - 1 - 0 :
               /\ 0 + i \in 0 .. HistBufferSize - 1 /\ i \in Nat
        BY <2>2
      <3>3. \A i \in 0 .. HistBufferSize - 1 - tage.ptGhist :
               tage.globalHist[tage.ptGhist + i] = bk[i]
        BY <2>4, <2>5, <3>1, <3>2, SMTT(20)
      <3>4. tage.globalHist \in [0 .. HistBufferSize - 1 -> Bit]
        BY <2>5, Zenon DEF Bit
      <3>5. tage.ptGhist \in Nat /\ tage.ptGhist + MaxHist + 0 < HistBufferSize
        BY <2>2, <2>5, SMTT(20)
      <3>6. Holds(tage, bk, 0)
        BY <3>3, <3>4, <3>5, Zenon DEF Holds
      <3> QED
        BY <3>1, <3>6, Zenon
    <2>7. Folds(tage, Path(0))
      <3> SUFFICES ASSUME NEW f \in Folded
                   PROVE  IsFold(tage.comp[f], f, Path(0))
        BY Zenon DEF Folds
      <3>1. PICK bk : bk = Path(0)
        BY Zenon
      <3>2. bk \in History
        BY <2>3, <3>1, Zenon DEF Path, History, Bit
      <3>3. tage.comp[f] = [j \in 0 .. CompLength[f] - 1 |-> 0]
        BY <2>5, Zenon
      <3>4. IsFold(tage.comp[f], f, bk)
        BY <2>4, <3>1, <3>2, <3>3, Zenon DEF FoldsKeepUp
      <3> QED
        BY <3>1, <3>4, Zenon
    <2>8. /\ tage.pathHist = Prefix(Addrs(0), PathHistBits)
          /\ tage.nonSpecPathHist = Prefix(Addrs(0), PathHistBits)
          /\ ind.ghr = Prefix(Path(0), GHRBits)
      BY <2>2, <2>4, <2>5, SMTT(20) DEF Prefix
    <2> QED
      BY <2>1, <2>2, <2>6, <2>7, <2>8, SMTT(20) DEF HistInv
  (* Every step keeps the invariant.                                          *)
  <1>HistStep. ASSUME BTypeOK, BTypeOK', HistInv, [Next]_bvars
               PROVE  HistInv'
    <2> USE <1>HistStep
    <2>1. BPStep /\ BPTypeOK /\ BPTypeOK'
      BY StepCases, Zenon DEF BTypeOK
    <2>2. CASE \E type \in Types, cond, btbHit, hit \in BOOLEAN :
                 Len(predHist) < MaxInFlight /\ Predict(seqNum + 1, type, cond, btbHit, hit)
      <3>1. PICK type \in Types, cond \in BOOLEAN, btbHit \in BOOLEAN, hit \in BOOLEAN :
              Len(predHist) < MaxInFlight /\ Predict(seqNum + 1, type, cond, btbHit, hit)
        BY <2>2, Zenon
      <3>2. PICK sn : sn = seqNum + 1
        BY Zenon
      <3>3. sn \in Nat /\ type \in BranchType
        BY <3>2, FrontEndAssumption DEF BTypeOK
      <3> QED
        BY <2>1, <3>1, <3>2, <3>3, <1>HistPredict, Zenon
    <2>3. CASE predHist # <<>> /\ SquashHistory
      BY <2>1, <2>3, <1>HistSquash, Zenon
    <2>4. CASE predHist # <<>> /\ \E taken \in BOOLEAN : Correct(taken)
      BY <2>1, <2>4, <1>HistCorrect, Zenon
    <2>5. CASE predHist # <<>> /\ CommitBranch
      BY <2>1, <2>5, <1>HistCommit, Zenon
    <2>6. CASE UNCHANGED bpvars
      <3>1. predHist' = predHist /\ done' = done /\ tage' = tage /\ ind' = ind
        BY <2>6, Zenon DEF bpvars, pathvars
      <3>2. \A k : Path(k)' = Path(k) /\ Addrs(k)' = Addrs(k)
        BY <3>1, Zenon DEF Path, Addrs, TakenBack, AddrBack
      <3> QED
        BY <3>1, <3>2, Zenon DEF HistInv
    <2> QED
      BY <2>1, <2>2, <2>3, <2>4, <2>5, <2>6, Zenon DEF BPStep
  <1>1. HistInv /\ BTypeOK /\ BTypeOK' /\ [Next]_bvars => HistInv'
    BY <1>HistStep, Zenon
  <1> QED
    BY <1>1, <1>HistInit, BTypeCorrect, PTL DEF Spec
=============================================================================
