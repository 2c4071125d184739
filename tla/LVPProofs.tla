------------------------------ MODULE LVPProofs ------------------------------
(* Proofs about MarkovLVP, MarkovLVPHistory and LVPPipeline, for every value *)
(* of their constants.                                                       *)
EXTENDS MarkovLVPHistory, LVPPipeline, FiniteSetTheorems, TLAPS

(* Reduction modulo a positive number lands below it. *)
LEMMA ModRange ==
    ASSUME NEW a \in Int, NEW b \in Nat \ {0}
    PROVE  a % b \in 0 .. b - 1
  OBVIOUS

(* The ring of an entry, read newest first, is a context of the hash. *)
LEMMA ContextType ==
    ASSUME NEW e \in VHTEntry
    PROVE  Context(e) \in [Slot -> Value]
<1>1. ASSUME NEW i \in Slot
      PROVE  e.strides[(e.writePtr + ContextDepth - 1 - i) % ContextDepth] \in Value
  <2>1. e.writePtr \in Slot /\ e.strides \in [Slot -> Value]
    BY DEF VHTEntry
  <2>2. e.writePtr + ContextDepth - 1 - i \in Int
    BY <2>1, ParamAssumption DEF Slot
  <2>3. (e.writePtr + ContextDepth - 1 - i) % ContextDepth \in Slot
    BY <2>2, ModRange, ParamAssumption, Zenon DEF Slot
  <2> QED BY <2>1, <2>3
<1> QED BY <1>1 DEF Context

(* The hash of a context is an index of the table.                          *)
LEMMA HashType ==
    ASSUME NEW pc \in PC, NEW e \in VHTEntry
    PROVE  hashContext(pc, e) \in Index
BY ContextType, HashAssumption DEF hashContext

(* The constructors of the tables build entries of the right type. *)
LEMMA NewVHTEntryType == NewVHTEntry \in VHTEntry
<1>1. 0 \in Value /\ 0 \in Slot
  BY ParamAssumption DEF Value, Slot
<1> QED BY <1>1 DEF NewVHTEntry, VHTEntry

(* The empty tables have their types.                                       *)
LEMMA InitType == Init => TypeOK
<1>1. 0 \in Value /\ 0 \in 0 .. ConfRange - 1
  BY ParamAssumption DEF Value
<1>2. NewVHTEntry \in VHTEntry
  BY NewVHTEntryType
<1>3. NewMarkovEntry \in MarkovEntry
  BY <1>1 DEF NewMarkovEntry, MarkovEntry
<1> QED BY <1>2, <1>3 DEF Init, TypeOK

(* Training an entry of the Markov table keeps its type.                    *)
LEMMA TrainType ==
    ASSUME NEW m \in MarkovEntry, NEW stride \in Value
    PROVE  Train(m, stride) \in MarkovEntry
<1>0. 1 \in 0 .. ConfRange - 1
  BY ParamAssumption
<1>1. Allocate(stride) \in MarkovEntry
  BY <1>0 DEF Allocate, MarkovEntry
<1>2. Strengthen(m) \in MarkovEntry
  <2>1. m.confidence + 1 \in Int /\ ConfRange \in Nat \ {0}
    BY ParamAssumption DEF MarkovEntry
  <2>2. (m.confidence + 1) % ConfRange \in 0 .. ConfRange - 1
    BY <2>1, ModRange, Zenon
  <2> QED BY <2>2 DEF Strengthen, MarkovEntry
<1>3. Weaken(m, stride) \in MarkovEntry
  <2>1. ASSUME m.confidence > 1 PROVE m.confidence - 1 \in 0 .. ConfRange - 1
    BY <2>1, ParamAssumption DEF MarkovEntry
  <2> QED BY <1>1, <2>1 DEF Weaken, MarkovEntry
<1> QED BY <1>1, <1>2, <1>3 DEF Train

(* Counting keeps the type of the statistics.                               *)
LEMMA BumpType ==
    ASSUME NEW s \in [StatName -> Nat], NEW events
    PROVE  Bump(s, events) \in [StatName -> Nat]
BY DEF Bump

-----------------------------------------------------------------------------
(* predict() and update() keep the types of the tables. *)
LEMMA PredictVHTType ==
    ASSUME NEW h \in [PC -> VHTEntry], NEW t \in [Index -> MarkovEntry], NEW pc \in PC
    PROVE  PredictVHT(h, t, pc) \in [PC -> VHTEntry]
<1>1. PredVal(h, t, pc) \in Value
  <2>1. hashContext(pc, h[pc]) \in Index
    BY HashType
  <2>2. h[pc].lastVal + t[hashContext(pc, h[pc])].predictedStride \in Int
    BY <2>1 DEF VHTEntry, MarkovEntry, Value
  <2> QED BY <2>2, ModRange, ParamAssumption, Zenon DEF PredVal, Value
<1> QED BY <1>1, Zenon DEF PredictVHT, VHTEntry

(* A stride is a value.                                                     *)
LEMMA StrideType ==
    ASSUME NEW e \in VHTEntry, NEW actual \in Value
    PROVE  Stride(e, actual) \in Value
<1>1. actual - e.lastVal \in Int
  BY DEF VHTEntry, Value
<1> QED BY <1>1, ModRange, ParamAssumption, Zenon DEF Stride, Value

(* An update keeps the type of the value history table.                     *)
LEMMA UpdateVHTType ==
    ASSUME NEW h \in [PC -> VHTEntry], NEW pc \in PC, NEW actual \in Value
    PROVE  UpdateVHT(h, pc, actual) \in [PC -> VHTEntry]
<1>1. FirstSeen(actual) \in VHTEntry
  BY NewVHTEntryType, Zenon DEF FirstSeen, VHTEntry
<1>2. PushStride(h[pc], actual) \in VHTEntry
  <2>1. Stride(h[pc], actual) \in Value
    BY StrideType
  <2>2. h[pc].writePtr + 1 \in Int
    BY DEF VHTEntry, Slot
  <2>3. (h[pc].writePtr + 1) % ContextDepth \in Slot
    BY <2>2, ModRange, ParamAssumption, Zenon DEF Slot
  <2> QED BY <2>1, <2>3, Zenon DEF PushStride, VHTEntry
<1> QED BY <1>1, <1>2 DEF UpdateVHT

(* An update keeps the type of the Markov table.                            *)
LEMMA UpdateTableType ==
    ASSUME NEW h \in [PC -> VHTEntry], NEW t \in [Index -> MarkovEntry],
           NEW pc \in PC, NEW actual \in Value
    PROVE  UpdateTable(h, t, pc, actual) \in [Index -> MarkovEntry]
BY HashType, StrideType, TrainType DEF UpdateTable

(* Every call keeps the tables and counters in their types: ring positions *)
(* and table indices stay in bounds whatever the hash does.                *)
THEOREM TypeCorrect == Spec => []TypeOK
<1>1. Init => TypeOK
  BY InitType
<1>2. TypeOK /\ [Next]_vars => TypeOK'
  <2> SUFFICES ASSUME TypeOK, [Next]_vars PROVE TypeOK'
    OBVIOUS
  <2>1. ASSUME NEW pc \in PC, Predict(pc) PROVE TypeOK'
    BY <2>1, PredictVHTType, BumpType DEF TypeOK, Predict, PredictStats
  <2>2. ASSUME NEW pc \in PC, NEW actual \in Value, Update(pc, actual) PROVE TypeOK'
    BY <2>2, UpdateVHTType, UpdateTableType, BumpType DEF TypeOK, Update, UpdateStats
  <2>3. CASE UNCHANGED vars
    BY <2>3 DEF vars, TypeOK
  <2> QED BY <2>1, <2>2, <2>3 DEF Next
<1> QED BY <1>1, <1>2, PTL DEF Spec

-----------------------------------------------------------------------------
(* Training keeps the confidence of an entry within its bounds, provided   *)
(* that the ceiling fits the counter.                                      *)
LEMMA TrainConfidence ==
    ASSUME MaxConf < ConfRange,
           NEW m \in MarkovEntry, NEW stride \in Value, ConfidenceOK(m)
    PROVE  ConfidenceOK(Train(m, stride))
<1>1. ConfidenceOK(Allocate(stride))
  BY DEF ConfidenceOK, Allocate
<1>2. CASE ~m.valid
  BY <1>1, <1>2 DEF Train
<1>3. CASE m.valid /\ stride = m.predictedStride
  <2>1. CASE m.confidence < MaxConf
    <3>1. (m.confidence + 1) % ConfRange = m.confidence + 1
      BY <2>1, ParamAssumption DEF MarkovEntry
    <3>2. Train(m, stride) = [m EXCEPT !.confidence = m.confidence + 1]
      BY <1>3, <2>1, <3>1 DEF Train, Strengthen
    <3> QED BY <1>3, <2>1, <3>2, ParamAssumption DEF ConfidenceOK, MarkovEntry
  <2>2. CASE ~(m.confidence < MaxConf)
    BY <1>3, <2>2 DEF Train, Strengthen
  <2> QED BY <2>1, <2>2
<1>4. CASE m.valid /\ stride # m.predictedStride
  <2>1. CASE m.confidence > 1
    <3>1. Train(m, stride) = [m EXCEPT !.confidence = m.confidence - 1]
      BY <1>4, <2>1 DEF Train, Weaken
    <3> QED BY <1>4, <2>1, <3>1, ParamAssumption DEF ConfidenceOK, MarkovEntry
  <2>2. CASE ~(m.confidence > 1)
    BY <1>1, <1>4, <2>2 DEF Train, Weaken
  <2> QED BY <2>1, <2>2
<1> QED BY <1>2, <1>3, <1>4

(* ConfidenceInv holds for every table, hash and depth as long as max_conf *)
(* fits the counter: no valid entry is ever left at confidence 0.          *)
THEOREM ConfidenceBounded ==
    ASSUME MaxConf < ConfRange
    PROVE  Spec => []ConfidenceInv
<1>1. Init => ConfidenceInv
  BY DEF Init, ConfidenceInv, ConfidenceOK, NewMarkovEntry
<1>2. TypeOK /\ ConfidenceInv /\ [Next]_vars => ConfidenceInv'
  <2> SUFFICES ASSUME TypeOK, ConfidenceInv, [Next]_vars PROVE ConfidenceInv'
    OBVIOUS
  <2>1. ASSUME NEW pc \in PC, NEW actual \in Value, Update(pc, actual)
        PROVE  ConfidenceInv'
    <3>1. vht[pc] \in VHTEntry /\ markovTable \in [Index -> MarkovEntry]
      BY DEF TypeOK
    <3>2. hashContext(pc, vht[pc]) \in Index /\ Stride(vht[pc], actual) \in Value
      BY <3>1, HashType, StrideType
    <3>3. ConfidenceOK(Train(markovTable[hashContext(pc, vht[pc])], Stride(vht[pc], actual)))
      BY <3>1, <3>2, TrainConfidence DEF ConfidenceInv
    <3> QED BY <2>1, <3>1, <3>2, <3>3 DEF Update, UpdateTable, ConfidenceInv
  <2>2. CASE UNCHANGED markovTable
    BY <2>2 DEF ConfidenceInv
  <2> QED BY <2>1, <2>2 DEF Next, Predict, vars
<1> QED BY <1>1, <1>2, TypeCorrect, PTL DEF Spec

-----------------------------------------------------------------------------
(* A pending prediction always sits on a PC that has a stride. *)
THEOREM PendingTheorem == Spec => []PendingHasStride
<1>1. Init => PendingHasStride
  BY DEF Init, PendingHasStride, NewVHTEntry
<1>2. TypeOK /\ PendingHasStride /\ [Next]_vars => PendingHasStride'
  <2> SUFFICES ASSUME TypeOK, PendingHasStride, [Next]_vars PROVE PendingHasStride'
    OBVIOUS
  <2>1. ASSUME NEW pc \in PC, Predict(pc) PROVE PendingHasStride'
    <3>1. CASE Issues(vht, markovTable, pc)
      <4>1. vht[pc].valid /\ vht[pc].strideValid
        BY <3>1 DEF Issues, PredictOutcome
      <4> QED BY <2>1, <3>1, <4>1 DEF Predict, PredictVHT, PendingHasStride, TypeOK, VHTEntry
    <3>2. CASE ~Issues(vht, markovTable, pc)
      BY <2>1, <3>2 DEF Predict, PredictVHT, PendingHasStride
    <3> QED BY <3>1, <3>2
  <2>2. ASSUME NEW pc \in PC, NEW actual \in Value, Update(pc, actual)
        PROVE  PendingHasStride'
    <3>1. FirstSeen(actual).hasPending = FALSE /\ FirstSeen(actual).strideValid = FALSE
      BY DEF FirstSeen, NewVHTEntry
    <3>2. /\ PushStride(vht[pc], actual).hasPending = FALSE
          /\ PushStride(vht[pc], actual).valid = vht[pc].valid
      BY DEF PushStride, TypeOK, VHTEntry
    <3> QED BY <2>2, <3>1, <3>2 DEF Update, UpdateVHT, PendingHasStride, TypeOK
  <2>3. CASE UNCHANGED vars
    BY <2>3 DEF vars, PendingHasStride
  <2> QED BY <2>1, <2>2, <2>3 DEF Next
<1> QED BY <1>1, <1>2, TypeCorrect, PTL DEF Spec

(* The counters account for every prediction: evaluated ones are correct   *)
(* or incorrect, and evaluated and pending ones were all issued.           *)
THEOREM AccountingTheorem == Spec => []PredictionAccounting
<1>0. IsFiniteSet(Pending) /\ Cardinality(Pending) \in Nat
  BY ParamAssumption, FS_Subset, FS_CardinalityType DEF Pending
<1>0p. IsFiniteSet(Pending') /\ Cardinality(Pending') \in Nat
  BY ParamAssumption, FS_Subset, FS_CardinalityType DEF Pending
<1>1. Init => PredictionAccounting
  <2> SUFFICES ASSUME Init PROVE PredictionAccounting
    OBVIOUS
  <2>1. Pending = {}
    BY DEF Init, Pending, NewVHTEntry
  <2>2. Cardinality(Pending) = 0
    BY <2>1, FS_EmptySet
  <2> QED BY <2>2 DEF Init, PredictionAccounting, StatName
<1>2. TypeOK /\ PredictionAccounting /\ [Next]_vars => PredictionAccounting'
  <2> SUFFICES ASSUME TypeOK, PredictionAccounting, [Next]_vars
               PROVE  PredictionAccounting'
    OBVIOUS
  <2> DEFINE Kept == \A n \in {"predicted", "pendingChecked", "correct", "incorrect"} :
                        stats'[n] = stats[n]
  <2>1. ASSUME NEW pc \in PC, Predict(pc) PROVE PredictionAccounting'
    <3>1. CASE Issues(vht, markovTable, pc)
      <4>1. Pending' = Pending \cup {pc}
        BY <2>1, <3>1 DEF Predict, PredictVHT, Pending, TypeOK, VHTEntry
      <4>2. Cardinality(Pending') <= Cardinality(Pending) + 1
        BY <4>1, <1>0, <1>0p, FS_AddElement
      <4>3. /\ stats'["predicted"] = stats["predicted"] + 1
            /\ \A n \in {"pendingChecked", "correct", "incorrect"} : stats'[n] = stats[n]
        BY <2>1, <3>1 DEF Predict, PredictStats, Issues, Bump, StatName
      <4> QED BY <4>2, <4>3, <1>0, <1>0p DEF PredictionAccounting, TypeOK, StatName
    <3>2. CASE ~Issues(vht, markovTable, pc)
      <4>1. Pending' = Pending
        BY <2>1, <3>2 DEF Predict, PredictVHT, Pending
      <4>2. Kept
        BY <2>1, <3>2 DEF Predict, PredictStats, PredictOutcome, Issues, Bump, StatName
      <4> QED BY <4>1, <4>2 DEF PredictionAccounting
    <3> QED BY <3>1, <3>2
  <2>2. ASSUME NEW pc \in PC, NEW actual \in Value, Update(pc, actual)
        PROVE  PredictionAccounting'
    <3>1. Pending' = Pending \ {pc}
      <4>1. FirstSeen(actual).hasPending = FALSE
        BY DEF FirstSeen, NewVHTEntry
      <4>2. PushStride(vht[pc], actual).hasPending = FALSE
        BY DEF PushStride, TypeOK, VHTEntry
      <4> QED BY <2>2, <4>1, <4>2 DEF Update, UpdateVHT, Pending, TypeOK
    <3>2. Cardinality(Pending') <= Cardinality(Pending)
      BY <3>1, <1>0, <1>0p, FS_RemoveElement
    <3>3. CASE vht[pc].valid /\ vht[pc].hasPending
      <4>1. Cardinality(Pending') = Cardinality(Pending) - 1
        BY <3>1, <3>3, <1>0, <1>0p, FS_RemoveElement DEF Pending
      <4>2. /\ stats'["pendingChecked"] = stats["pendingChecked"] + 1
            /\ stats'["predicted"] = stats["predicted"]
            /\ stats'["correct"] + stats'["incorrect"] = stats["correct"] + stats["incorrect"] + 1
        BY <2>2, <3>3 DEF Update, UpdateStats, PendingEvents, Bump, StatName, TypeOK
      <4> QED BY <4>1, <4>2, <1>0, <1>0p DEF PredictionAccounting, TypeOK, StatName
    <3>4. CASE ~(vht[pc].valid /\ vht[pc].hasPending)
      <4>1. Kept
        BY <2>2, <3>4 DEF Update, UpdateStats, PendingEvents, Bump, StatName
      <4> QED BY <4>1, <3>2, <1>0, <1>0p DEF PredictionAccounting, TypeOK, StatName
    <3> QED BY <3>3, <3>4
  <2>3. CASE UNCHANGED vars
    BY <2>3 DEF vars, PredictionAccounting, Pending
  <2> QED BY <2>1, <2>2, <2>3 DEF Next
<1> QED BY <1>1, <1>2, TypeCorrect, PTL DEF Spec

-----------------------------------------------------------------------------
(* Hysteresis: one disagreeing load never evicts a stride that more than   *)
(* one load has confirmed.                                                 *)
THEOREM HysteresisTheorem ==
    ASSUME MaxConf < ConfRange
    PROVE  Spec => ConfidentStrideKept
<1> DEFINE Kept == \A i \in Index :
                     markovTable[i].confidence > 1
                     => /\ markovTable'[i].predictedStride = markovTable[i].predictedStride
                        /\ markovTable'[i].valid
<1>1. TypeOK /\ ConfidenceInv /\ [Next]_vars => [Kept]_vars
  <2> SUFFICES ASSUME TypeOK, ConfidenceInv, Next PROVE Kept
    BY DEF vars
  <2>1. \A i \in Index : markovTable[i].confidence > 1 => markovTable[i].valid
    BY DEF ConfidenceInv, ConfidenceOK
  <2>2. ASSUME NEW pc \in PC, NEW actual \in Value, Update(pc, actual) PROVE Kept
    <3> DEFINE i0 == hashContext(pc, vht[pc])
               st == Stride(vht[pc], actual)
               m  == markovTable[i0]
    <3>1. vht[pc] \in VHTEntry /\ i0 \in Index
      BY HashType DEF TypeOK
    <3>2. m \in MarkovEntry
      BY <3>1 DEF TypeOK
    <3>3. ASSUME m.valid, m.confidence > 1
          PROVE  /\ Train(m, st).predictedStride = m.predictedStride
                 /\ Train(m, st).valid
      BY <3>2, <3>3 DEF Train, Strengthen, Weaken, MarkovEntry
    <3>4. markovTable' = markovTable \/ markovTable' = [markovTable EXCEPT ![i0] = Train(m, st)]
      BY <2>2 DEF Update, UpdateTable
    <3> HIDE DEF i0, st
    <3> QED BY <2>1, <3>1, <3>3, <3>4 DEF TypeOK
  <2>3. CASE UNCHANGED markovTable
    BY <2>1, <2>3
  <2> QED BY <2>2, <2>3 DEF Next, Predict
<1> QED BY <1>1, TypeCorrect, ConfidenceBounded, PTL DEF Spec, ConfidentStrideKept

(* The counter moves by at most one while its entry keeps its stride.      *)
THEOREM SaturationTheorem ==
    ASSUME MaxConf < ConfRange
    PROVE  Spec => ConfidenceSaturates
<1> DEFINE Close == \A i \in Index :
                      /\ markovTable[i].valid
                      /\ markovTable'[i].predictedStride = markovTable[i].predictedStride
                      => markovTable'[i].confidence - markovTable[i].confidence \in {-1, 0, 1}
<1>1. TypeOK /\ ConfidenceInv /\ [Next]_vars => [Close]_vars
  <2> SUFFICES ASSUME TypeOK, ConfidenceInv, Next PROVE Close
    BY DEF vars
  <2>0. \A i \in Index : markovTable[i].confidence \in Int
    BY ParamAssumption DEF TypeOK, MarkovEntry
  <2>1. ASSUME NEW pc \in PC, NEW actual \in Value, Update(pc, actual) PROVE Close
    <3> DEFINE i0 == hashContext(pc, vht[pc])
               st == Stride(vht[pc], actual)
               m  == markovTable[i0]
    <3>1. vht[pc] \in VHTEntry /\ i0 \in Index
      BY HashType DEF TypeOK
    <3>2. m \in MarkovEntry /\ ConfidenceOK(m)
      BY <3>1 DEF TypeOK, ConfidenceInv
    <3>3. ASSUME m.valid
          PROVE  Train(m, st).confidence - m.confidence \in {-1, 0, 1}
      <4>1. m.confidence \in Nat /\ m.confidence >= 1
        BY <3>2, <3>3, ParamAssumption DEF MarkovEntry, ConfidenceOK
      <4>2. CASE st = m.predictedStride /\ m.confidence < MaxConf
        <5>1. (m.confidence + 1) % ConfRange = m.confidence + 1
          BY <4>1, <4>2, ParamAssumption
        <5>2. Train(m, st).confidence = m.confidence + 1
          BY <3>2, <3>3, <4>2, <5>1 DEF Train, Strengthen, MarkovEntry
        <5> QED BY <4>1, <5>2
      <4>3. CASE st = m.predictedStride /\ ~(m.confidence < MaxConf)
        BY <3>3, <4>1, <4>3 DEF Train, Strengthen
      <4>4. CASE st # m.predictedStride
        BY <3>2, <3>3, <4>1, <4>4 DEF Train, Weaken, Allocate, MarkovEntry
      <4> QED BY <4>2, <4>3, <4>4
    <3>4. markovTable' = markovTable \/ markovTable' = [markovTable EXCEPT ![i0] = Train(m, st)]
      BY <2>1 DEF Update, UpdateTable
    <3> HIDE DEF i0, st
    <3> QED BY <2>0, <3>1, <3>3, <3>4 DEF TypeOK
  <2>2. CASE UNCHANGED markovTable
    BY <2>0, <2>2
  <2> QED BY <2>1, <2>2 DEF Next, Predict
<1> QED BY <1>1, TypeCorrect, ConfidenceBounded, PTL DEF Spec, ConfidenceSaturates

-----------------------------------------------------------------------------
(* The predictor with the loads that it was trained on. *)
HTypeOK ==
    /\ TypeOK
    /\ loaded \in [PC -> Seq(Value)]
    /\ trained \in [Index -> [Value -> Nat]]

(* Reduction modulo b of a number below 2b. *)
LEMMA ModSmall ==
    ASSUME NEW b \in Nat \ {0}, NEW a \in 0 .. b - 1
    PROVE  a % b = a
  OBVIOUS

(* And of one from b on.                                                    *)
LEMMA ModWrap ==
    ASSUME NEW b \in Nat \ {0}, NEW a \in b .. 2 * b - 1
    PROVE  a % b = a - b
  OBVIOUS

(* One step of the ring: the new stride becomes the newest of the context, *)
(* the others move one place back and the oldest one drops out.            *)
LEMMA RingShift ==
    ASSUME NEW e \in VHTEntry, NEW actual \in Value
    PROVE  \A i \in Slot :
             Context(PushStride(e, actual))[i] =
               IF i = 0 THEN Stride(e, actual) ELSE Context(e)[i - 1]
<1> DEFINE D == ContextDepth
           w == e.writePtr
           f == PushStride(e, actual)
<1>1. D \in Nat \ {0} /\ w \in 0 .. D - 1 /\ e.strides \in [Slot -> Value]
  BY ParamAssumption DEF VHTEntry, Slot
<1>2. /\ f.strides = [e.strides EXCEPT ![w] = Stride(e, actual)]
      /\ f.writePtr = (w + 1) % D
  BY DEF PushStride, VHTEntry
<1>3. f.writePtr = IF w + 1 = D THEN 0 ELSE w + 1
  <2>1. CASE w + 1 = D
    BY <1>1, <1>2, <2>1, ModWrap
  <2>2. CASE w + 1 # D
    <3>1. w + 1 \in 0 .. D - 1
      BY <1>1, <2>2
    <3> QED BY <1>1, <1>2, <2>2, <3>1, ModSmall
  <2> QED BY <2>1, <2>2
<1> HIDE DEF D, w, f
<1> SUFFICES ASSUME NEW i \in Slot
             PROVE  Context(f)[i] = IF i = 0 THEN Stride(e, actual) ELSE Context(e)[i - 1]
  BY DEF f
<1>4. i \in 0 .. D - 1
  BY DEF Slot, D
<1>5. (f.writePtr + D - 1 - i) % D = IF i <= w THEN w - i ELSE w - i + D
  <2>1. CASE w + 1 = D
    <3>1. f.writePtr + D - 1 - i \in 0 .. D - 1 /\ i <= w
      BY <1>1, <1>3, <1>4, <2>1
    <3> QED BY <1>1, <1>3, <1>4, <2>1, <3>1, ModSmall
  <2>2. CASE w + 1 # D /\ i <= w
    <3>1. f.writePtr + D - 1 - i \in D .. 2 * D - 1
      BY <1>1, <1>3, <1>4, <2>2
    <3> QED BY <1>1, <1>3, <1>4, <2>2, <3>1, ModWrap
  <2>3. CASE w + 1 # D /\ i > w
    <3>1. f.writePtr + D - 1 - i \in 0 .. D - 1
      BY <1>1, <1>3, <1>4, <2>3
    <3> QED BY <1>1, <1>3, <1>4, <2>3, <3>1, ModSmall, SMTT(20)
  <2> QED BY <2>1, <2>2, <2>3, <1>1, <1>4
<1>6. Context(f)[i] = f.strides[IF i <= w THEN w - i ELSE w - i + D]
  BY <1>5 DEF Context, D
<1>7. CASE i = 0
  BY <1>1, <1>2, <1>6, <1>7 DEF Slot, D
<1>8. CASE i # 0
  <2>1. i - 1 \in Slot
    BY <1>1, <1>4, <1>8 DEF Slot, D
  <2>2. (w + D - 1 - (i - 1)) % D = IF i <= w THEN w - i ELSE w - i + D
    <3>1. CASE i <= w
      <4>1. w + D - 1 - (i - 1) \in D .. 2 * D - 1
        BY <1>1, <1>4, <1>8, <3>1
      <4>2. (w + D - 1 - (i - 1)) % D = (w + D - 1 - (i - 1)) - D
        BY <1>1, <4>1, ModWrap
      <4>3. (w + D - 1 - (i - 1)) - D = w - i
        BY <1>1, <1>4
      <4> QED BY <3>1, <4>2, <4>3, Zenon
    <3>2. CASE i > w
      <4>1. w + D - 1 - (i - 1) \in 0 .. D - 1
        BY <1>1, <1>4, <1>8, <3>2
      <4>2. (w + D - 1 - (i - 1)) % D = w + D - 1 - (i - 1)
        BY <1>1, <4>1, ModSmall
      <4>3. w + D - 1 - (i - 1) = w - i + D /\ ~(i <= w)
        BY <1>1, <1>4, <3>2
      <4> QED BY <4>2, <4>3, Zenon
    <3> QED BY <3>1, <3>2, <1>1, <1>4
  <2>3. Context(e)[i - 1] = e.strides[IF i <= w THEN w - i ELSE w - i + D]
    BY <2>1, <2>2 DEF Context, D, w
  <2>4. (IF i <= w THEN w - i ELSE w - i + D) \in Slot \ {w}
    BY <1>1, <1>4, <1>8 DEF Slot, D
  <2> QED BY <1>1, <1>2, <1>6, <1>8, <2>3, <2>4
<1> QED BY <1>7, <1>8

-----------------------------------------------------------------------------
(* The types hold with the histories too.                                   *)
LEMMA HSpecTypes == HSpec => []HTypeOK
<1>1. HInit => HTypeOK
  BY InitType DEF HInit, HTypeOK
<1>2. HTypeOK /\ [HNext]_hvars => HTypeOK'
  <2> SUFFICES ASSUME HTypeOK, [HNext]_hvars PROVE HTypeOK'
    OBVIOUS
  <2>1. ASSUME NEW pc \in PC, HPredict(pc) PROVE HTypeOK'
    BY <2>1, PredictVHTType, BumpType, Zenon DEF HTypeOK, TypeOK, HPredict, Predict, PredictStats
  <2>2. ASSUME NEW pc \in PC, NEW actual \in Value, HUpdate(pc, actual) PROVE HTypeOK'
    <3>1. TypeOK'
      BY <2>2, UpdateVHTType, UpdateTableType, BumpType, Zenon
         DEF HTypeOK, TypeOK, HUpdate, Update, UpdateStats
    <3>2. loaded' \in [PC -> Seq(Value)]
      BY <2>2 DEF HTypeOK, HUpdate
    <3>3. hashContext(pc, vht[pc]) \in Index /\ Stride(vht[pc], actual) \in Value
      BY HashType, StrideType DEF HTypeOK, TypeOK
    <3>4. trained' \in [Index -> [Value -> Nat]]
      BY <2>2, <3>3 DEF HTypeOK, HUpdate
    <3> QED BY <3>1, <3>2, <3>4 DEF HTypeOK
  <2>3. CASE UNCHANGED hvars
    BY <2>3 DEF hvars, HTypeOK, TypeOK
  <2> QED BY <2>1, <2>2, <2>3 DEF HNext
<1> QED BY <1>1, <1>2, PTL DEF HSpec

(* The ring of strides is the tail of the value history of its PC, for     *)
(* every depth: hashContext never mixes a stale or a reordered stride.     *)
THEOREM ContextTheorem == HSpec => []ContextIsHistory
<1>1. HInit => ContextIsHistory
  <2> SUFFICES ASSUME NEW i \in Slot
               PROVE  Context(NewVHTEntry)[i] = 0
    <3>1. ASSUME \A i \in Slot : Context(NewVHTEntry)[i] = 0
          PROVE  EntryMatches(NewVHTEntry, <<>>)
      <4>1. ~NewVHTEntry.valid /\ ~NewVHTEntry.strideValid
        BY DEF NewVHTEntry
      <4>2. \A i \in Slot : StrideOf(<<>>, i) = 0
        BY DEF StrideOf, Slot
      <4> QED BY <3>1, <4>1, <4>2 DEF EntryMatches
    <3> QED BY <3>1 DEF HInit, Init, ContextIsHistory
  <2>1. 0 + ContextDepth - 1 - i \in Int
    BY ParamAssumption DEF Slot
  <2>2. (0 + ContextDepth - 1 - i) % ContextDepth \in Slot
    BY <2>1, ModRange, ParamAssumption DEF Slot
  <2> QED BY <2>2 DEF Context, NewVHTEntry
<1>2. HTypeOK /\ ContextIsHistory /\ [HNext]_hvars => ContextIsHistory'
  <2> SUFFICES ASSUME HTypeOK, ContextIsHistory, [HNext]_hvars PROVE ContextIsHistory'
    OBVIOUS
  <2>1. ASSUME NEW pc \in PC, HPredict(pc) PROVE ContextIsHistory'
    <3>1. ASSUME NEW q \in PC
          PROVE  /\ vht'[q].valid = vht[q].valid
                 /\ vht'[q].strideValid = vht[q].strideValid
                 /\ vht'[q].lastVal = vht[q].lastVal
                 /\ vht'[q].strides = vht[q].strides
                 /\ vht'[q].writePtr = vht[q].writePtr
      BY <2>1 DEF HTypeOK, TypeOK, VHTEntry, HPredict, Predict, PredictVHT
    <3>2. \A q \in PC : Context(vht'[q]) = Context(vht[q])
      BY <3>1 DEF Context
    <3> QED BY <2>1, <3>1, <3>2 DEF HPredict, ContextIsHistory, EntryMatches
  <2>2. ASSUME NEW pc \in PC, NEW actual \in Value, HUpdate(pc, actual)
        PROVE  ContextIsHistory'
    <3> DEFINE e == vht[pc]
               vals == loaded[pc]
               n == Len(vals)
    <3>1. /\ e \in VHTEntry /\ vals \in Seq(Value) /\ n \in Nat
          /\ loaded'[pc] = Append(vals, actual)
          /\ \A q \in PC \ {pc} : vht'[q] = vht[q] /\ loaded'[q] = loaded[q]
      BY <2>2 DEF HTypeOK, TypeOK, HUpdate, Update, UpdateVHT
    <3>2. /\ Len(loaded'[pc]) = n + 1
          /\ loaded'[pc][n + 1] = actual
          /\ \A k \in 1 .. n : loaded'[pc][k] = vals[k]
      BY <3>1
    <3>3. /\ e.valid <=> n > 0
          /\ e.strideValid <=> n > 1
          /\ n > 0 => e.lastVal = vals[n]
          /\ \A i \in Slot : Context(e)[i] = StrideOf(vals, i)
      BY <3>1 DEF ContextIsHistory, EntryMatches
    <3>4. CASE ~e.valid
      <4>1. vht'[pc] = FirstSeen(actual) /\ n = 0
        BY <2>2, <3>1, <3>3, <3>4 DEF HUpdate, Update, UpdateVHT, HTypeOK, TypeOK
      <4>2. /\ vht'[pc].valid /\ ~vht'[pc].strideValid /\ vht'[pc].lastVal = actual
            /\ vht'[pc].strides = [j \in Slot |-> 0] /\ vht'[pc].writePtr = 0
        BY <4>1 DEF FirstSeen, NewVHTEntry
      <4>3. ASSUME NEW i \in Slot
            PROVE  Context(vht'[pc])[i] = 0 /\ StrideOf(loaded'[pc], i) = 0
        <5>1. 0 + ContextDepth - 1 - i \in Int
          BY ParamAssumption DEF Slot
        <5>2. (0 + ContextDepth - 1 - i) % ContextDepth \in Slot
          BY <5>1, ModRange, ParamAssumption DEF Slot
        <5>3. Context(vht'[pc])[i] = 0
          BY <4>2, <5>2 DEF Context
        <5>4. ~(i + 1 < Len(loaded'[pc]))
          BY <3>2, <4>1 DEF Slot
        <5> QED BY <5>3, <5>4 DEF StrideOf
      <4>4. loaded'[pc] # <<>> /\ Len(loaded'[pc]) = 1 /\ loaded'[pc][1] = actual
        BY <3>1, <3>2, <4>1
      <4>5. EntryMatches(vht'[pc], loaded'[pc])
        BY <4>2, <4>3, <4>4 DEF EntryMatches
      <4> QED BY <3>1, <4>5, Zenon DEF ContextIsHistory
    <3>5. CASE e.valid
      <4>1. vht'[pc] = PushStride(e, actual) /\ n > 0
        BY <2>2, <3>3, <3>5 DEF HUpdate, Update, UpdateVHT, HTypeOK, TypeOK
      <4>2. vht'[pc].valid /\ vht'[pc].strideValid /\ vht'[pc].lastVal = actual
        BY <3>1, <3>5, <4>1 DEF PushStride, VHTEntry
      <4>3. ASSUME NEW i \in Slot
            PROVE  Context(vht'[pc])[i] = StrideOf(loaded'[pc], i)
        <5>1. Context(vht'[pc])[i] = IF i = 0 THEN Stride(e, actual) ELSE Context(e)[i - 1]
          BY <3>1, <4>1, RingShift
        <5>2. CASE i = 0
          BY <3>1, <3>2, <3>3, <4>1, <5>1, <5>2 DEF StrideOf, Stride
        <5>3. CASE i # 0
          <6>1. i - 1 \in Slot /\ i \in Nat
            BY <5>3, ParamAssumption DEF Slot
          <6>2. Context(vht'[pc])[i] = StrideOf(vals, i - 1)
            BY <3>3, <5>1, <5>3, <6>1
          <6>3. StrideOf(loaded'[pc], i) = StrideOf(vals, i - 1)
            <7>1. /\ (n + 1) - i = n - (i - 1)
                  /\ (n + 1) - i - 1 = n - (i - 1) - 1
                  /\ (i + 1 < n + 1) <=> ((i - 1) + 1 < n)
              BY <3>1, <6>1
            <7>2. CASE i + 1 < n + 1
              <8>1. n - (i - 1) \in 1 .. n /\ n - (i - 1) - 1 \in 1 .. n
                BY <3>1, <6>1, <7>2, <5>3
              <8> QED BY <8>1, <7>1, <7>2, <3>2 DEF StrideOf
            <7>3. CASE ~(i + 1 < n + 1)
              BY <7>1, <7>3, <3>2 DEF StrideOf
            <7> QED BY <7>2, <7>3
          <6> QED BY <6>2, <6>3
        <5> QED BY <5>2, <5>3
      <4>4. EntryMatches(vht'[pc], loaded'[pc])
        BY <3>1, <3>2, <4>1, <4>2, <4>3 DEF EntryMatches
      <4> QED BY <3>1, <4>4, Zenon DEF ContextIsHistory
    <3> QED BY <3>4, <3>5
  <2>3. CASE UNCHANGED hvars
    BY <2>3 DEF hvars, ContextIsHistory
  <2> QED BY <2>1, <2>2, <2>3 DEF HNext
<1> QED BY <1>1, <1>2, HSpecTypes, PTL DEF HSpec

-----------------------------------------------------------------------------
(* Training an entry keeps its confidence below the count of its stride.   *)
LEMMA TrainBacked ==
    ASSUME NEW m \in MarkovEntry, NEW stride \in Value,
           NEW count \in [Value -> Nat],
           m.valid => m.confidence <= count[m.predictedStride]
    PROVE  LET n == Train(m, stride)
               c == [count EXCEPT ![stride] = @ + 1]
           IN  n.confidence <= c[n.predictedStride]
<1> DEFINE n == Train(m, stride)
           c == [count EXCEPT ![stride] = @ + 1]
<1>0. /\ c[stride] = count[stride] + 1
      /\ \A s \in Value : c[s] \in Nat /\ c[s] >= count[s]
  OBVIOUS
<1>t. m.confidence \in Nat /\ m.predictedStride \in Value
  BY ParamAssumption DEF MarkovEntry
<1>1. CASE n = Allocate(stride)
  BY <1>0, <1>1 DEF Allocate
<1>2. CASE m.valid /\ stride = m.predictedStride
  <2>1. (m.confidence + 1) % ConfRange <= m.confidence + 1
    BY <1>t, ParamAssumption
  <2>2. n.predictedStride = stride /\ n.confidence <= m.confidence + 1
    BY <1>2, <1>t, <2>1 DEF Train, Strengthen, MarkovEntry
  <2>3. n.confidence \in Nat
    BY TrainType, ParamAssumption DEF MarkovEntry
  <2> QED BY <1>0, <1>2, <1>t, <2>2, <2>3
<1>3. CASE m.valid /\ stride # m.predictedStride /\ m.confidence > 1
  <2>1. n.predictedStride = m.predictedStride /\ n.confidence = m.confidence - 1
    BY <1>3 DEF Train, Weaken, MarkovEntry
  <2> QED BY <1>0, <1>3, <1>t, <2>1
<1>4. \/ n = Allocate(stride)
      \/ m.valid /\ stride = m.predictedStride
      \/ m.valid /\ stride # m.predictedStride /\ m.confidence > 1
  BY DEF Train, Weaken
<1> QED BY <1>1, <1>2, <1>3, <1>4

(* A confidence counter is backed by that many trainings.                   *)
LEMMA ConfidenceIsBacked == HSpec => []ConfidenceBacked
<1>1. HInit => ConfidenceBacked
  BY DEF HInit, Init, ConfidenceBacked, NewMarkovEntry
<1>2. HTypeOK /\ ConfidenceBacked /\ [HNext]_hvars => ConfidenceBacked'
  <2> SUFFICES ASSUME HTypeOK, ConfidenceBacked, [HNext]_hvars PROVE ConfidenceBacked'
    OBVIOUS
  <2>1. ASSUME NEW pc \in PC, NEW actual \in Value, HUpdate(pc, actual)
        PROVE  ConfidenceBacked'
    <3> DEFINE i0 == hashContext(pc, vht[pc])
               st == Stride(vht[pc], actual)
    <3>1. i0 \in Index /\ st \in Value
      BY HashType, StrideType DEF HTypeOK, TypeOK
    <3>2. CASE vht[pc].valid /\ vht[pc].strideValid
      <4>1. /\ markovTable' = [markovTable EXCEPT ![i0] = Train(markovTable[i0], st)]
            /\ trained' = [trained EXCEPT ![i0] = [trained[i0] EXCEPT ![st] = @ + 1]]
        BY <2>1, <3>2 DEF HUpdate, Update, UpdateTable
      <4>2. markovTable[i0] \in MarkovEntry /\ trained[i0] \in [Value -> Nat]
        BY <3>1 DEF HTypeOK, TypeOK
      <4>3. markovTable[i0].valid
            => markovTable[i0].confidence <= trained[i0][markovTable[i0].predictedStride]
        BY <3>1 DEF ConfidenceBacked
      <4> HIDE DEF i0, st
      <4>4. markovTable'[i0].confidence <= trained'[i0][markovTable'[i0].predictedStride]
        BY <3>1, <4>1, <4>2, <4>3, TrainBacked, SMTT(20) DEF HTypeOK, TypeOK
      <4> QED BY <3>1, <4>1, <4>4 DEF ConfidenceBacked, HTypeOK, TypeOK
    <3>3. CASE ~(vht[pc].valid /\ vht[pc].strideValid)
      BY <2>1, <3>3 DEF HUpdate, Update, UpdateTable, ConfidenceBacked
    <3> QED BY <3>2, <3>3
  <2>2. CASE UNCHANGED <<markovTable, trained>>
    BY <2>2 DEF ConfidenceBacked
  <2> QED BY <2>1, <2>2 DEF HNext, HPredict, Predict, hvars
<1> QED BY <1>1, <1>2, HSpecTypes, PTL DEF HSpec

(* predict() never adds a stride that was not observed, conf_threshold     *)
(* times or more, after a context of the same hash, provided max_conf fits *)
(* the counter.                                                            *)
THEOREM PredictionTheorem ==
    ASSUME MaxConf < ConfRange
    PROVE  HSpec => []PredictionBacked
<1>1. HSpec => Spec
  <2>1. HInit => Init
    BY DEF HInit
  <2>2. [HNext]_hvars => [Next]_vars
    BY Zenon DEF HNext, HPredict, HUpdate, hvars, Next, vars
  <2> QED BY <2>1, <2>2, PTL DEF HSpec, Spec
<1>2. HTypeOK /\ ConfidenceBacked /\ ConfidenceInv => PredictionBacked
  <2> SUFFICES ASSUME HTypeOK, ConfidenceBacked, ConfidenceInv,
                      NEW pc \in PC, Issues(vht, markovTable, pc)
               PROVE  LET i == hashContext(pc, vht[pc])
                          k == trained[i][markovTable[i].predictedStride]
                      IN  k >= ConfThreshold /\ k >= 1
    BY DEF PredictionBacked
  <2> DEFINE i0 == hashContext(pc, vht[pc])
             m == markovTable[i0]
  <2>1. i0 \in Index
    BY HashType DEF HTypeOK, TypeOK
  <2>2. m.valid /\ ~(m.confidence < ConfThreshold)
    BY DEF Issues, PredictOutcome
  <2>3. m.confidence >= 1 /\ m.confidence <= trained[i0][m.predictedStride]
    BY <2>1, <2>2 DEF ConfidenceInv, ConfidenceOK, ConfidenceBacked
  <2>4. m \in MarkovEntry /\ trained[i0] \in [Value -> Nat]
    BY <2>1 DEF HTypeOK, TypeOK
  <2>5. m.confidence \in Nat /\ trained[i0][m.predictedStride] \in Nat
    BY <2>4, ParamAssumption DEF MarkovEntry
  <2> HIDE DEF i0
  <2>6. trained[i0][m.predictedStride] >= ConfThreshold /\ trained[i0][m.predictedStride] >= 1
    BY <2>2, <2>3, <2>5, ParamAssumption
  <2> QED BY <2>6 DEF i0
<1> QED BY <1>1, <1>2, HSpecTypes, ConfidenceIsBacked, ConfidenceBounded, PTL

-----------------------------------------------------------------------------
(* The predictor in the pipeline. *)

(* Every load of the queue is a microop when all loads are. *)
AllMicroops == \A i \in DOMAIN loadQueue : loadQueue[i].microop

(* Training on a committed load keeps the types of the tables.              *)
LEMMA CommittedLoadType ==
    ASSUME TypeOK, NEW pc \in PC, NEW actual \in Value, CommittedLoad(pc, actual)
    PROVE  TypeOK'
<1> DEFINE h == UpdateVHT(vht, pc, actual)
           t == UpdateTable(vht, markovTable, pc, actual)
<1>1. h \in [PC -> VHTEntry] /\ t \in [Index -> MarkovEntry]
  BY UpdateVHTType, UpdateTableType, Zenon DEF TypeOK
<1>2. PredictVHT(h, t, pc) \in [PC -> VHTEntry]
  BY <1>1, PredictVHTType
<1>3. stats' \in [StatName -> Nat]
  BY BumpType DEF TypeOK, CommittedLoad, UpdateStats, PredictStats
<1> QED BY <1>1, <1>2, <1>3 DEF TypeOK, CommittedLoad

(* So does a prediction.                                                    *)
LEMMA PredictType ==
    ASSUME TypeOK, NEW pc \in PC, Predict(pc)
    PROVE  TypeOK'
BY PredictVHTType, BumpType DEF TypeOK, Predict, PredictStats

(* So does an update.                                                       *)
LEMMA UpdateType ==
    ASSUME TypeOK, NEW pc \in PC, NEW actual \in Value, Update(pc, actual)
    PROVE  TypeOK'
BY UpdateVHTType, UpdateTableType, BumpType DEF TypeOK, Update, UpdateStats

(* Replacing an element of a sequence. *)
LEMMA SeqReplace ==
    ASSUME NEW S, NEW q \in Seq(S), NEW i \in DOMAIN q, NEW x \in S
    PROVE  /\ [q EXCEPT ![i] = x] \in Seq(S)
           /\ Len([q EXCEPT ![i] = x]) = Len(q)
  OBVIOUS

(* The head and the tail of a sequence that is not empty. *)
LEMMA SeqHeadTail ==
    ASSUME NEW S, NEW q \in Seq(S), q # <<>>
    PROVE  /\ Head(q) \in S /\ Head(q) = q[1] /\ 1 \in DOMAIN q
           /\ Tail(q) \in Seq(S) /\ Len(Tail(q)) = Len(q) - 1
           /\ \A i \in DOMAIN Tail(q) : i + 1 \in DOMAIN q /\ Tail(q)[i] = q[i + 1]
  OBVIOUS

(* The tables and the load queue keep their types. *)
THEOREM PipelineTypes == PSpec => []PTypeOK
<1>1. PInit => PTypeOK
  BY InitType DEF PInit, PTypeOK
<1>2. PTypeOK /\ [PNext]_pvars => PTypeOK'
  <2> SUFFICES ASSUME PTypeOK, [PNext]_pvars PROVE PTypeOK'
    OBVIOUS
  <2>1. ASSUME NEW pc \in PC, NEW microop \in Microop, NEW nonSpec \in BOOLEAN,
               DispatchLoad(pc, microop, nonSpec)
        PROVE  PTypeOK'
    <3>1. loadQueue' \in Seq(Load) /\ seqNum' \in Nat /\ lastTrained' \in Nat
      BY <2>1, PipelineAssumption DEF DispatchLoad, PTypeOK, Load, Stage
    <3>2. CASE ~microop /\ ~nonSpec
      <4>1. TypeOK'
        BY <2>1, <3>2, PredictType DEF DispatchLoad, PTypeOK
      <4>2. askedBy' \in [PC -> {"nobody", "dispatch", "commit"}]
        BY <2>1, <3>2 DEF DispatchLoad, PTypeOK
      <4>3. dispatchPreds' \in Nat
        BY <2>1, <3>2 DEF DispatchLoad, PTypeOK
      <4> QED BY <3>1, <4>1, <4>2, <4>3 DEF PTypeOK
    <3>3. CASE ~(~microop /\ ~nonSpec)
      BY <2>1, <3>1, <3>3 DEF DispatchLoad, PTypeOK, TypeOK, vars
    <3> QED BY <3>2, <3>3
  <2>2. ASSUME NEW i \in DOMAIN loadQueue, NEW data \in Value \cup {NoData},
               NEW fault \in BOOLEAN, ExecuteLoad(i, data, fault)
        PROVE  PTypeOK'
    <3>1. loadQueue' \in Seq(Load)
      <4>0. loadQueue[i] \in Load
        BY DEF PTypeOK
      <4>1. [loadQueue[i] EXCEPT !.stage = "executed", !.memData = data, !.fault = fault]
              \in Load
        BY <4>0, Zenon DEF Load, Stage
      <4> QED BY <2>2, <4>1, SeqReplace DEF ExecuteLoad, PTypeOK
    <3> QED BY <2>2, <3>1 DEF ExecuteLoad, PTypeOK, TypeOK, vars
  <2>3. ASSUME NEW i \in DOMAIN loadQueue, NEW result \in Value \cup {NoData},
               WritebackLoad(i, result)
        PROVE  PTypeOK'
    <3>1. loadQueue[i] \in Load
      BY DEF PTypeOK
    <3>2. [loadQueue[i] EXCEPT !.stage = "writtenBack"] \in Load
      BY <3>1 DEF Load, Stage
    <3>3. loadQueue' \in Seq(Load)
      BY <2>3, <3>2, SeqReplace DEF WritebackLoad, PTypeOK
    <3>4. CASE ~loadQueue[i].fault /\ ~loadQueue[i].microop /\ result # NoData
      <4>1. TypeOK'
        BY <2>3, <3>1, <3>4, UpdateType DEF WritebackLoad, PTypeOK, Load
      <4>2. lastTrained' \in Nat
        BY <2>3, <3>1, <3>4 DEF WritebackLoad, Load
      <4>3. askedBy' \in [PC -> {"nobody", "dispatch", "commit"}]
        BY <2>3, <3>4 DEF WritebackLoad, PTypeOK
      <4> QED BY <2>3, <3>3, <4>1, <4>2, <4>3 DEF WritebackLoad, PTypeOK
    <3>5. CASE ~(~loadQueue[i].fault /\ ~loadQueue[i].microop /\ result # NoData)
      BY <2>3, <3>3, <3>5 DEF WritebackLoad, PTypeOK, TypeOK, vars
    <3> QED BY <3>4, <3>5
  <2>4. ASSUME NEW i \in DOMAIN loadQueue, Retire(i) PROVE PTypeOK'
    <3>1. loadQueue' \in Seq(Load)
      <4>0. loadQueue[i] \in Load
        BY DEF PTypeOK
      <4>1. [loadQueue[i] EXCEPT !.stage = "retired"] \in Load
        BY <4>0 DEF Load, Stage
      <4> QED BY <2>4, <4>1, SeqReplace DEF Retire, PTypeOK
    <3> QED BY <2>4, <3>1 DEF Retire, PTypeOK, TypeOK, vars
  <2>5. CASE CommitLoad
    <3> DEFINE ld == Head(loadQueue)
    <3>1. ld \in Load /\ loadQueue' \in Seq(Load)
      BY <2>5, SeqHeadTail DEF CommitLoad, PTypeOK
    <3>2. CASE ld.memData # NoData
      <4>1. ld.pc \in PC /\ ld.memData \in Value /\ ld.seqNum \in Nat
        BY <3>1, <3>2 DEF Load
      <4>2. TypeOK'
        BY <2>5, <3>2, <4>1, CommittedLoadType DEF CommitLoad, PTypeOK
      <4>3. lastTrained' \in Nat /\ askedBy' \in [PC -> {"nobody", "dispatch", "commit"}]
        BY <2>5, <3>2, <4>1 DEF CommitLoad, PTypeOK
      <4> QED BY <2>5, <3>1, <4>2, <4>3 DEF CommitLoad, PTypeOK
    <3>3. CASE ~(ld.memData # NoData)
      BY <2>5, <3>1, <3>3 DEF CommitLoad, PTypeOK, TypeOK, vars
    <3> QED BY <3>2, <3>3
  <2>6. ASSUME NEW n \in 0 .. Len(loadQueue) - 1, Squash(n) PROVE PTypeOK'
    <3>1. loadQueue' \in Seq(Load)
      BY <2>6 DEF Squash, PTypeOK
    <3> QED BY <2>6, <3>1 DEF Squash, PTypeOK, TypeOK, vars
  <2>7. CASE UNCHANGED pvars
    BY <2>7 DEF pvars, PTypeOK, TypeOK
  <2> QED BY <2>1, <2>2, <2>3, <2>4, <2>5, <2>6, <2>7 DEF PNext
<1> QED BY <1>1, <1>2, PTL DEF PSpec

-----------------------------------------------------------------------------
(* A step that rewrites one load keeps the order of the queue, as long as  *)
(* it keeps the number of the load and retires it only after the older ones.*)
LEMMA RewriteInOrder ==
    ASSUME PTypeOK, QueueInOrder, NEW i \in DOMAIN loadQueue, NEW x \in Load,
           loadQueue' = [loadQueue EXCEPT ![i] = x], seqNum' = seqNum,
           x.seqNum = loadQueue[i].seqNum,
           loadQueue[i].stage # "retired",
           x.stage = "retired" => \A j \in 1 .. i - 1 : loadQueue[j].stage = "retired"
    PROVE  QueueInOrder'
<1>1. Len(loadQueue') = Len(loadQueue) /\ DOMAIN loadQueue' = DOMAIN loadQueue
  BY DEF PTypeOK
<1>2. \A j \in DOMAIN loadQueue : loadQueue'[j] = IF j = i THEN x ELSE loadQueue[j]
  BY DEF PTypeOK
<1>3. DOMAIN loadQueue = 1 .. Len(loadQueue) /\ Len(loadQueue) \in Nat
  BY DEF PTypeOK
<1>4. ASSUME NEW j \in DOMAIN loadQueue, NEW k \in DOMAIN loadQueue, j < k
      PROVE  /\ loadQueue'[j].seqNum < loadQueue'[k].seqNum
             /\ loadQueue'[k].stage = "retired" => loadQueue'[j].stage = "retired"
  BY <1>2, <1>3, <1>4 DEF QueueInOrder
<1> QED BY <1>1, <1>2, <1>4 DEF QueueInOrder

(* The load queue stays in program order, with what has retired in front.  *)
THEOREM QueueTheorem == PSpec => []QueueInOrder
<1>1. PInit => QueueInOrder
  BY PipelineAssumption DEF PInit, QueueInOrder
<1>2. PTypeOK /\ QueueInOrder /\ [PNext]_pvars => QueueInOrder'
  <2> SUFFICES ASSUME PTypeOK, QueueInOrder, [PNext]_pvars PROVE QueueInOrder'
    OBVIOUS
  <2>0. DOMAIN loadQueue = 1 .. Len(loadQueue) /\ Len(loadQueue) \in Nat /\ seqNum \in Nat
    BY DEF PTypeOK
  <2>t. \A i \in DOMAIN loadQueue : loadQueue[i] \in Load /\ loadQueue[i].seqNum \in Nat
    <3>1. \A i \in DOMAIN loadQueue : loadQueue[i] \in Load
      BY DEF PTypeOK
    <3> QED BY <3>1 DEF Load
  <2>1. ASSUME NEW pc \in PC, NEW microop \in Microop, NEW nonSpec \in BOOLEAN,
               DispatchLoad(pc, microop, nonSpec)
        PROVE  QueueInOrder'
    <3>1. PICK x : /\ x.seqNum = seqNum + 1 /\ x.stage = "dispatched"
                   /\ loadQueue' = Append(loadQueue, x)
      BY <2>1 DEF DispatchLoad
    <3>2. /\ Len(loadQueue') = Len(loadQueue) + 1
          /\ DOMAIN loadQueue' = 1 .. Len(loadQueue) + 1
          /\ \A j \in DOMAIN loadQueue : loadQueue'[j] = loadQueue[j]
          /\ loadQueue'[Len(loadQueue) + 1] = x
      BY <2>0, <3>1 DEF PTypeOK
    <3>3. seqNum' = seqNum + 1 /\ Len(loadQueue) < LQEntries
      BY <2>1 DEF DispatchLoad
    <3>4. ASSUME NEW j \in DOMAIN loadQueue', NEW k \in DOMAIN loadQueue', j < k
          PROVE  /\ loadQueue'[j].seqNum < loadQueue'[k].seqNum
                 /\ loadQueue'[k].stage = "retired" => loadQueue'[j].stage = "retired"
      <4>1. j \in DOMAIN loadQueue
        BY <2>0, <3>2, <3>4
      <4>2. CASE k \in DOMAIN loadQueue
        BY <3>2, <3>4, <4>1, <4>2 DEF QueueInOrder
      <4>3. CASE k \notin DOMAIN loadQueue
        <5>1. loadQueue'[k] = x
          BY <2>0, <3>2, <4>3
        <5> QED BY <2>0, <2>t, <3>1, <3>2, <4>1, <5>1 DEF QueueInOrder
      <4> QED BY <4>2, <4>3
    <3>5. ASSUME NEW j \in DOMAIN loadQueue' PROVE loadQueue'[j].seqNum <= seqNum'
      <4>1. CASE j \in DOMAIN loadQueue
        BY <2>0, <2>t, <3>2, <3>3, <4>1 DEF QueueInOrder
      <4>2. CASE j \notin DOMAIN loadQueue
        <5>1. loadQueue'[j] = x
          BY <2>0, <3>2, <4>2
        <5> QED BY <2>0, <3>1, <3>3, <5>1
      <4> QED BY <4>1, <4>2
    <3>6. Len(loadQueue') <= LQEntries
      BY <2>0, <3>2, <3>3, PipelineAssumption
    <3> QED BY <3>4, <3>5, <3>6 DEF QueueInOrder
  <2>2. ASSUME NEW i \in DOMAIN loadQueue, NEW data \in Value \cup {NoData},
               NEW fault \in BOOLEAN, ExecuteLoad(i, data, fault)
        PROVE  QueueInOrder'
    <3> DEFINE x == [loadQueue[i] EXCEPT !.stage = "executed", !.memData = data, !.fault = fault]
    <3>1. x \in Load /\ x.seqNum = loadQueue[i].seqNum /\ x.stage = "executed"
      BY <2>t, Zenon DEF Load, Stage
    <3>2. /\ loadQueue' = [loadQueue EXCEPT ![i] = x] /\ seqNum' = seqNum
          /\ loadQueue[i].stage # "retired"
      BY <2>2 DEF ExecuteLoad
    <3> QED BY <3>1, <3>2, RewriteInOrder, Zenon
  <2>3. ASSUME NEW i \in DOMAIN loadQueue, NEW result, WritebackLoad(i, result)
        PROVE  QueueInOrder'
    <3> DEFINE x == [loadQueue[i] EXCEPT !.stage = "writtenBack"]
    <3>1. x \in Load /\ x.seqNum = loadQueue[i].seqNum /\ x.stage = "writtenBack"
      BY <2>t DEF Load, Stage
    <3>2. /\ loadQueue' = [loadQueue EXCEPT ![i] = x] /\ seqNum' = seqNum
          /\ loadQueue[i].stage # "retired"
      BY <2>3 DEF WritebackLoad
    <3> QED BY <3>1, <3>2, RewriteInOrder, Zenon
  <2>4. ASSUME NEW i \in DOMAIN loadQueue, Retire(i) PROVE QueueInOrder'
    <3> DEFINE x == [loadQueue[i] EXCEPT !.stage = "retired"]
    <3>1. x \in Load /\ x.seqNum = loadQueue[i].seqNum
      BY <2>t DEF Load, Stage
    <3>2. /\ loadQueue' = [loadQueue EXCEPT ![i] = x] /\ seqNum' = seqNum
          /\ loadQueue[i].stage # "retired"
          /\ \A j \in 1 .. i - 1 : loadQueue[j].stage = "retired"
      BY <2>4 DEF Retire
    <3> QED BY <3>1, <3>2, RewriteInOrder, Zenon
  <2>5. CASE CommitLoad
    <3>1. /\ loadQueue' = Tail(loadQueue) /\ loadQueue # <<>> /\ seqNum' = seqNum
      BY <2>5 DEF CommitLoad
    <3>2. /\ Len(loadQueue') = Len(loadQueue) - 1
          /\ \A j \in DOMAIN loadQueue' : j \in Int /\ j + 1 \in DOMAIN loadQueue
                                          /\ loadQueue'[j] = loadQueue[j + 1]
      BY <2>0, <3>1, SeqHeadTail DEF PTypeOK
    <3> QED BY <2>0, <2>t, <3>1, <3>2, PipelineAssumption DEF QueueInOrder
  <2>6. ASSUME NEW n \in 0 .. Len(loadQueue) - 1, Squash(n) PROVE QueueInOrder'
    <3>1. /\ Len(loadQueue') = n /\ DOMAIN loadQueue' = 1 .. n /\ seqNum' = seqNum
          /\ \A j \in 1 .. n : j \in DOMAIN loadQueue /\ loadQueue'[j] = loadQueue[j]
      BY <2>0, <2>6 DEF Squash, PTypeOK
    <3> QED BY <2>0, <2>t, <3>1, PipelineAssumption DEF QueueInOrder
  <2>7. CASE UNCHANGED pvars
    BY <2>7 DEF pvars, QueueInOrder
  <2> QED BY <2>1, <2>2, <2>3, <2>4, <2>5, <2>6, <2>7 DEF PNext
<1> QED BY <1>1, <1>2, PipelineTypes, PTL DEF PSpec

-----------------------------------------------------------------------------
(* When every load is a microop, each load of the queue is one. *)
LEMMA MicroopsOnly ==
    ASSUME Microop = {TRUE}
    PROVE  PSpec => []AllMicroops
<1>1. PInit => AllMicroops
  BY DEF PInit, AllMicroops
<1>2. PTypeOK /\ AllMicroops /\ [PNext]_pvars => AllMicroops'
  <2> SUFFICES ASSUME PTypeOK, AllMicroops, [PNext]_pvars PROVE AllMicroops'
    OBVIOUS
  <2>0. DOMAIN loadQueue = 1 .. Len(loadQueue) /\ Len(loadQueue) \in Nat
    BY DEF PTypeOK
  <2>t. \A i \in DOMAIN loadQueue : loadQueue[i] \in Load
    BY DEF PTypeOK
  <2>1. ASSUME NEW pc \in PC, NEW microop \in Microop, NEW nonSpec \in BOOLEAN,
               DispatchLoad(pc, microop, nonSpec)
        PROVE  AllMicroops'
    <3>1. PICK x : x.microop = TRUE /\ loadQueue' = Append(loadQueue, x)
      BY <2>1, Zenon DEF DispatchLoad
    <3>2. \A j \in DOMAIN loadQueue' :
            loadQueue'[j] = IF j \in DOMAIN loadQueue THEN loadQueue[j] ELSE x
      BY <2>0, <3>1 DEF PTypeOK
    <3> QED BY <3>1, <3>2 DEF AllMicroops
  <2>2. ASSUME NEW i \in DOMAIN loadQueue, NEW data, NEW fault, ExecuteLoad(i, data, fault)
        PROVE  AllMicroops'
    BY <2>2, <2>t DEF ExecuteLoad, AllMicroops, Load
  <2>3. ASSUME NEW i \in DOMAIN loadQueue, NEW result, WritebackLoad(i, result)
        PROVE  AllMicroops'
    BY <2>3, <2>t DEF WritebackLoad, AllMicroops, Load
  <2>4. ASSUME NEW i \in DOMAIN loadQueue, Retire(i) PROVE AllMicroops'
    BY <2>4, <2>t DEF Retire, AllMicroops, Load
  <2>5. CASE CommitLoad
    BY <2>5, SeqHeadTail DEF CommitLoad, AllMicroops, PTypeOK
  <2>6. ASSUME NEW n \in 0 .. Len(loadQueue) - 1, Squash(n) PROVE AllMicroops'
    BY <2>0, <2>6 DEF Squash, AllMicroops, PTypeOK
  <2>7. CASE UNCHANGED pvars
    BY <2>7 DEF pvars, AllMicroops
  <2> QED BY <2>1, <2>2, <2>3, <2>4, <2>5, <2>6, <2>7, Zenon DEF PNext
<1> QED BY <1>1, <1>2, PipelineTypes, PTL DEF PSpec

(* With microop loads (X86) the pipeline implements the predictor that     *)
(* sees committed loads only: speculation, reordering and squashes leave   *)
(* no trace in its tables or its counters.                                 *)
THEOREM CommitOnlyTheorem ==
    ASSUME Microop = {TRUE}
    PROVE  PSpec => CommitOnly
<1>1. PInit => Init
  BY DEF PInit
<1>2. PTypeOK /\ AllMicroops /\ [PNext]_pvars => [CNext]_vars
  <2> SUFFICES ASSUME PTypeOK, AllMicroops, [PNext]_pvars PROVE [CNext]_vars
    OBVIOUS
  <2>1. ASSUME NEW pc \in PC, NEW microop \in Microop, NEW nonSpec \in BOOLEAN,
               DispatchLoad(pc, microop, nonSpec)
        PROVE  UNCHANGED vars
    BY <2>1 DEF DispatchLoad
  <2>2. ASSUME NEW i \in DOMAIN loadQueue, NEW data, NEW fault, ExecuteLoad(i, data, fault)
        PROVE  UNCHANGED vars
    BY <2>2 DEF ExecuteLoad
  <2>3. ASSUME NEW i \in DOMAIN loadQueue, NEW result, WritebackLoad(i, result)
        PROVE  UNCHANGED vars
    BY <2>3 DEF WritebackLoad, AllMicroops
  <2>4. ASSUME NEW i \in DOMAIN loadQueue, Retire(i) PROVE UNCHANGED vars
    BY <2>4 DEF Retire
  <2>5. ASSUME CommitLoad PROVE [CNext]_vars
    <3>1. Head(loadQueue) \in Load
      BY <2>5, SeqHeadTail DEF CommitLoad, PTypeOK
    <3>2. Head(loadQueue).memData # NoData
          => Head(loadQueue).pc \in PC /\ Head(loadQueue).memData \in Value
      BY <3>1 DEF Load
    <3> QED BY <2>5, <3>2 DEF CommitLoad, CNext
  <2>6. ASSUME NEW n, Squash(n) PROVE UNCHANGED vars
    BY <2>6 DEF Squash
  <2>7. CASE UNCHANGED pvars
    BY <2>7 DEF pvars, vars
  <2> QED BY <2>1, <2>2, <2>3, <2>4, <2>5, <2>6, <2>7, Zenon DEF PNext
<1> QED BY <1>1, <1>2, PipelineTypes, MicroopsOnly, PTL DEF PSpec, CommitOnly, CSpec

(* With microop loads every load in the queue is younger than the last one *)
(* trained on: nothing that can still be squashed has trained.             *)
THEOREM TrainedTheorem ==
    ASSUME Microop = {TRUE}
    PROVE  PSpec => []TrainedAreCommitted
<1> DEFINE IInv == TrainedAreCommitted /\ lastTrained <= seqNum
<1>1. PInit => IInv
  BY DEF PInit, TrainedAreCommitted
<1>2. PTypeOK /\ QueueInOrder /\ AllMicroops /\ IInv /\ [PNext]_pvars => IInv'
  <2> SUFFICES ASSUME PTypeOK, QueueInOrder, AllMicroops, IInv, [PNext]_pvars PROVE IInv'
    OBVIOUS
  <2>0. /\ DOMAIN loadQueue = 1 .. Len(loadQueue) /\ Len(loadQueue) \in Nat
        /\ seqNum \in Nat /\ lastTrained \in Nat
    BY DEF PTypeOK
  <2>t. \A i \in DOMAIN loadQueue : loadQueue[i] \in Load
    BY DEF PTypeOK
  <2>1. ASSUME NEW pc \in PC, NEW microop \in Microop, NEW nonSpec \in BOOLEAN,
               DispatchLoad(pc, microop, nonSpec)
        PROVE  IInv'
    <3>1. PICK x : x.seqNum = seqNum + 1 /\ loadQueue' = Append(loadQueue, x)
      BY <2>1, Zenon DEF DispatchLoad
    <3>2. \A j \in DOMAIN loadQueue' :
            loadQueue'[j] = IF j \in DOMAIN loadQueue THEN loadQueue[j] ELSE x
      BY <2>0, <3>1 DEF PTypeOK
    <3>3. lastTrained' = lastTrained /\ seqNum' = seqNum + 1
      BY <2>1 DEF DispatchLoad
    <3> QED BY <2>0, <3>1, <3>2, <3>3 DEF TrainedAreCommitted
  <2>2. ASSUME NEW i \in DOMAIN loadQueue, NEW data, NEW fault, ExecuteLoad(i, data, fault)
        PROVE  IInv'
    BY <2>2, <2>t DEF ExecuteLoad, TrainedAreCommitted, Load
  <2>3. ASSUME NEW i \in DOMAIN loadQueue, NEW result, WritebackLoad(i, result)
        PROVE  IInv'
    BY <2>3, <2>t DEF WritebackLoad, TrainedAreCommitted, AllMicroops, Load
  <2>4. ASSUME NEW i \in DOMAIN loadQueue, Retire(i) PROVE IInv'
    BY <2>4, <2>t DEF Retire, TrainedAreCommitted, Load
  <2>5. ASSUME CommitLoad PROVE IInv'
    <3>1. /\ 1 \in DOMAIN loadQueue /\ Head(loadQueue) = loadQueue[1]
          /\ \A j \in DOMAIN Tail(loadQueue) :
                j + 1 \in DOMAIN loadQueue /\ Tail(loadQueue)[j] = loadQueue[j + 1]
          /\ \A j \in DOMAIN Tail(loadQueue) : j \in Nat /\ j >= 1
      BY <2>5, SeqHeadTail DEF CommitLoad, PTypeOK
    <3>2. loadQueue' = Tail(loadQueue) /\ seqNum' = seqNum
      BY <2>5 DEF CommitLoad
    <3>3. \A j \in DOMAIN loadQueue' : loadQueue'[j].seqNum > loadQueue[1].seqNum
      <4>1. \A j \in DOMAIN loadQueue : loadQueue[j].seqNum \in Nat
        BY <2>t DEF Load
      <4>2. \A j \in DOMAIN Tail(loadQueue) : 1 < j + 1
        BY <3>1
      <4> QED BY <3>1, <3>2, <4>1, <4>2 DEF QueueInOrder
    <3>4. lastTrained' \in {lastTrained, loadQueue[1].seqNum}
      BY <2>5, <3>1 DEF CommitLoad
    <3>5. CASE lastTrained' = loadQueue[1].seqNum
      BY <3>1, <3>2, <3>3, <3>5 DEF TrainedAreCommitted, QueueInOrder
    <3>6. CASE lastTrained' = lastTrained
      BY <3>1, <3>2, <3>6 DEF TrainedAreCommitted
    <3> QED BY <3>4, <3>5, <3>6
  <2>6. ASSUME NEW n \in 0 .. Len(loadQueue) - 1, Squash(n) PROVE IInv'
    BY <2>0, <2>6 DEF Squash, TrainedAreCommitted, PTypeOK
  <2>7. CASE UNCHANGED pvars
    BY <2>7 DEF pvars, TrainedAreCommitted
  <2> QED BY <2>1, <2>2, <2>3, <2>4, <2>5, <2>6, <2>7, Zenon DEF PNext
<1> QED BY <1>1, <1>2, PipelineTypes, QueueTheorem, MicroopsOnly, PTL DEF PSpec

-----------------------------------------------------------------------------
(* The predictions of a table h and counters s that are neither evaluated   *)
(* nor pending, and the shape of the entries that predict() leaves behind.  *)
PendingIn(h) == {p \in PC : h[p].hasPending}
Lost(h, s) == s["predicted"] - s["pendingChecked"] - Cardinality(PendingIn(h))
HasStride(h) == \A p \in PC : /\ h[p].hasPending => h[p].strideValid
                              /\ h[p].strideValid => h[p].valid

(* The pending predictions are finitely many, at most one for each PC.      *)
LEMMA PendingInFinite ==
    ASSUME NEW h
    PROVE  IsFiniteSet(PendingIn(h)) /\ Cardinality(PendingIn(h)) \in Nat
BY ParamAssumption, FS_Subset, FS_CardinalityType DEF PendingIn

(* The empty tables have lost nothing.                                      *)
LEMMA InitLosesNone == Init => Lost(vht, stats) = 0 /\ PendingHasStride
<1> SUFFICES ASSUME Init PROVE Lost(vht, stats) = 0 /\ PendingHasStride
  OBVIOUS
<1>1. PendingIn(vht) = {} /\ PendingHasStride
  BY DEF Init, PendingIn, NewVHTEntry, PendingHasStride
<1>2. Cardinality(PendingIn(vht)) = 0
  BY <1>1, FS_EmptySet
<1> QED BY <1>1, <1>2 DEF Init, Lost, StatName

(* update() loses no prediction: it evaluates the pending one of its PC as  *)
(* it clears the flag, and leaves the other entries alone.                  *)
LEMMA UpdateLosesNone ==
    ASSUME TypeOK, PendingHasStride, NEW pc \in PC, NEW actual \in Value
    PROVE  /\ Lost(UpdateVHT(vht, pc, actual), UpdateStats(vht, stats, pc, actual))
                = Lost(vht, stats)
           /\ HasStride(UpdateVHT(vht, pc, actual))
           /\ ~UpdateVHT(vht, pc, actual)[pc].hasPending
<1> DEFINE h == UpdateVHT(vht, pc, actual)
           s == UpdateStats(vht, stats, pc, actual)
<1>1. /\ h[pc].hasPending = FALSE
      /\ h[pc].strideValid => h[pc].valid
      /\ \A p \in PC \ {pc} : h[p] = vht[p]
  <2>1. FirstSeen(actual).hasPending = FALSE /\ FirstSeen(actual).strideValid = FALSE
    BY DEF FirstSeen, NewVHTEntry
  <2>2. /\ PushStride(vht[pc], actual).hasPending = FALSE
        /\ PushStride(vht[pc], actual).valid = vht[pc].valid
    BY DEF PushStride, TypeOK, VHTEntry
  <2> QED BY <2>1, <2>2 DEF UpdateVHT, TypeOK
<1>2. PendingIn(h) = PendingIn(vht) \ {pc}
  BY <1>1 DEF PendingIn
<1>3. HasStride(h)
  BY <1>1 DEF HasStride, PendingHasStride
<1>4. stats["predicted"] \in Nat /\ stats["pendingChecked"] \in Nat
  BY DEF TypeOK, StatName
<1>5. CASE vht[pc].hasPending
  <2>1. vht[pc].valid
    BY <1>5 DEF PendingHasStride
  <2>2. /\ s["pendingChecked"] = stats["pendingChecked"] + 1
        /\ s["predicted"] = stats["predicted"]
    BY <1>5, <2>1 DEF UpdateStats, PendingEvents, Bump, StatName
  <2>3. pc \in PendingIn(vht)
    BY <1>5 DEF PendingIn
  <2>4. Cardinality(PendingIn(h)) = Cardinality(PendingIn(vht)) - 1
    BY <1>2, <2>3, PendingInFinite, FS_RemoveElement
  <2> HIDE DEF h, s
  <2>5. Lost(h, s) = Lost(vht, stats)
    BY <1>4, <2>2, <2>4, PendingInFinite DEF Lost
  <2> QED BY <1>1, <1>3, <2>5 DEF h, s
<1>6. CASE ~vht[pc].hasPending
  <2>1. s["pendingChecked"] = stats["pendingChecked"] /\ s["predicted"] = stats["predicted"]
    BY <1>6 DEF UpdateStats, PendingEvents, Bump, StatName
  <2>2. PendingIn(h) = PendingIn(vht)
    BY <1>2, <1>6 DEF PendingIn
  <2>3. Lost(h, s) = Lost(vht, stats)
    BY <2>1, <2>2, Zenon DEF Lost
  <2> QED BY <1>1, <1>3, <2>3
<1> QED BY <1>5, <1>6

(* predict() loses at most one prediction: the one of its PC that is still  *)
(* pending when it issues another.                                          *)
LEMMA PredictLoses ==
    ASSUME NEW h \in [PC -> VHTEntry], NEW t, NEW s \in [StatName -> Nat],
           NEW pc \in PC, HasStride(h)
    PROVE  /\ HasStride(PredictVHT(h, t, pc))
           /\ Lost(PredictVHT(h, t, pc), PredictStats(h, t, s, pc))
                = IF Issues(h, t, pc) /\ h[pc].hasPending THEN Lost(h, s) + 1 ELSE Lost(h, s)
<1> DEFINE h2 == PredictVHT(h, t, pc)
           s2 == PredictStats(h, t, s, pc)
<1>1. CASE Issues(h, t, pc)
  <2>1. h[pc].valid /\ h[pc].strideValid
    BY <1>1 DEF Issues, PredictOutcome
  <2>2. h2 = [h EXCEPT ![pc].hasPending = TRUE, ![pc].pendingPred = PredVal(h, t, pc)]
    BY <1>1 DEF PredictVHT
  <2>3. HasStride(h2) /\ PendingIn(h2) = PendingIn(h) \cup {pc}
    BY <2>1, <2>2 DEF HasStride, PendingIn, VHTEntry
  <2>4. s2["predicted"] = s["predicted"] + 1 /\ s2["pendingChecked"] = s["pendingChecked"]
    BY <1>1 DEF PredictStats, Issues, Bump, StatName
  <2>5. s["predicted"] \in Nat /\ s["pendingChecked"] \in Nat
    BY DEF StatName
  <2>6. Cardinality(PendingIn(h2)) = IF h[pc].hasPending THEN Cardinality(PendingIn(h))
                                     ELSE Cardinality(PendingIn(h)) + 1
    <3>1. pc \in PendingIn(h) <=> h[pc].hasPending
      BY DEF PendingIn
    <3>2. CASE pc \in PendingIn(h)
      <4>1. PendingIn(h) \cup {pc} = PendingIn(h)
        BY <3>2
      <4> QED BY <2>3, <3>1, <3>2, <4>1
    <3>3. CASE pc \notin PendingIn(h)
      BY <2>3, <3>1, <3>3, PendingInFinite, FS_AddElement
    <3> QED BY <3>2, <3>3
  <2> HIDE DEF h2, s2
  <2>7. Lost(h2, s2) = IF h[pc].hasPending THEN Lost(h, s) + 1 ELSE Lost(h, s)
    BY <2>4, <2>5, <2>6, PendingInFinite DEF Lost
  <2> QED BY <1>1, <2>3, <2>7 DEF h2, s2
<1>2. CASE ~Issues(h, t, pc)
  <2>1. h2 = h
    BY <1>2 DEF PredictVHT
  <2>2. s2["predicted"] = s["predicted"] /\ s2["pendingChecked"] = s["pendingChecked"]
    BY <1>2 DEF PredictStats, PredictOutcome, Issues, Bump, StatName
  <2>3. Lost(h2, s2) = Lost(h, s)
    BY <2>1, <2>2, Zenon DEF Lost
  <2> QED BY <1>2, <2>1, <2>3
<1> QED BY <1>1, <1>2

(* A committed load loses no prediction: it evaluates the pending one of    *)
(* its PC before it asks for the next.                                      *)
LEMMA CommitLosesNone ==
    ASSUME TypeOK, PendingHasStride, NEW pc \in PC, NEW actual \in Value,
           CommittedLoad(pc, actual)
    PROVE  Lost(vht', stats') = Lost(vht, stats) /\ PendingHasStride'
<1> DEFINE h == UpdateVHT(vht, pc, actual)
           t == UpdateTable(vht, markovTable, pc, actual)
           s == UpdateStats(vht, stats, pc, actual)
<1>1. h \in [PC -> VHTEntry] /\ s \in [StatName -> Nat]
  BY UpdateVHTType, BumpType DEF TypeOK, UpdateStats
<1>2. Lost(h, s) = Lost(vht, stats) /\ HasStride(h) /\ ~h[pc].hasPending
  BY UpdateLosesNone, Zenon
<1>3. vht' = PredictVHT(h, t, pc) /\ stats' = PredictStats(h, t, s, pc)
  BY Zenon DEF CommittedLoad
<1> HIDE DEF h, t, s
<1>4. Lost(vht', stats') = Lost(h, s) /\ HasStride(vht')
  BY <1>1, <1>2, <1>3, PredictLoses, Zenon
<1> QED BY <1>2, <1>4 DEF HasStride, PendingHasStride

(* Trained at commit only, the predictor loses no prediction: each one     *)
(* issued is evaluated or pending.                                         *)
THEOREM CommittedAccounting == CSpec => []ExactAccounting
<1> DEFINE IInv == TypeOK /\ PendingHasStride /\ Lost(vht, stats) = 0
<1>1. Init => IInv
  BY InitType, InitLosesNone
<1>2. IInv /\ [CNext]_vars => IInv'
  <2>1. ASSUME IInv, UNCHANGED vars PROVE IInv'
    BY <2>1 DEF vars, TypeOK, PendingHasStride, Lost, PendingIn
  <2>2. ASSUME IInv, NEW pc \in PC, NEW actual \in Value, CommittedLoad(pc, actual)
        PROVE  IInv'
    BY <2>2, CommittedLoadType, CommitLosesNone, Zenon
  <2> QED BY <2>1, <2>2, Zenon DEF CNext
<1>3. IInv => ExactAccounting
  <2>1. Pending = PendingIn(vht)
    BY DEF Pending, PendingIn
  <2> QED BY <2>1, PendingInFinite DEF ExactAccounting, Lost, TypeOK, StatName
<1> QED BY <1>1, <1>2, <1>3, PTL DEF CSpec

(* With microop loads no prediction is lost in the pipeline either.        *)
THEOREM ExactAccountingTheorem ==
    ASSUME Microop = {TRUE}
    PROVE  PSpec => []ExactAccounting
BY CommitOnlyTheorem, CommittedAccounting, PTL DEF CommitOnly

(* Whatever loads run and whatever is squashed, predictions are lost only   *)
(* to the ones issued at dispatch, one each at most: writeback and commit   *)
(* evaluate the pending prediction, and a commit asks only after that.      *)
THEOREM LostOnlyToDispatchTheorem == PSpec => []LostOnlyToDispatch
<1> DEFINE Few == Lost(vht, stats) <= dispatchPreds
           IInv == PendingHasStride /\ Few
<1>0. /\ PTypeOK => Lost(vht, stats) \in Int
      /\ LostOnlyToDispatch <=> Few
  <2>1. Pending = PendingIn(vht)
    BY DEF Pending, PendingIn
  <2> QED BY <2>1, PendingInFinite DEF LostOnlyToDispatch, Lost, PTypeOK, TypeOK, StatName
<1>1. PInit => IInv
  BY InitLosesNone DEF PInit
<1>2. PTypeOK /\ IInv /\ [PNext]_pvars => IInv'
  <2> SUFFICES ASSUME PTypeOK, IInv, [PNext]_pvars PROVE IInv'
    OBVIOUS
  <2>0. /\ TypeOK /\ vht \in [PC -> VHTEntry] /\ stats \in [StatName -> Nat]
        /\ dispatchPreds \in Nat /\ Lost(vht, stats) \in Int
    BY <1>0 DEF PTypeOK, TypeOK
  <2>t. \A i \in DOMAIN loadQueue : loadQueue[i] \in Load
    BY DEF PTypeOK
  <2>u. UNCHANGED <<vars, dispatchPreds>> => IInv'
    BY DEF vars, PendingHasStride, Lost, PendingIn
  <2>k. PendingHasStride' /\ Lost(vht', stats') = Lost(vht, stats)
        /\ dispatchPreds' = dispatchPreds => IInv'
    OBVIOUS
  <2>1. ASSUME NEW pc \in PC, NEW microop \in Microop, NEW nonSpec \in BOOLEAN,
               DispatchLoad(pc, microop, nonSpec)
        PROVE  IInv'
    <3>1. CASE ~microop /\ ~nonSpec
      <4>1. /\ vht' = PredictVHT(vht, markovTable, pc)
            /\ stats' = PredictStats(vht, markovTable, stats, pc)
            /\ dispatchPreds' = IF Issues(vht, markovTable, pc)
                                THEN dispatchPreds + 1 ELSE dispatchPreds
        BY <2>1, <3>1, Zenon DEF DispatchLoad, Predict
      <4>2. HasStride(vht)
        BY DEF HasStride, PendingHasStride
      <4>3. /\ HasStride(vht')
            /\ Lost(vht', stats') = IF Issues(vht, markovTable, pc) /\ vht[pc].hasPending
                                    THEN Lost(vht, stats) + 1 ELSE Lost(vht, stats)
        BY <2>0, <4>1, <4>2, PredictLoses, Zenon
      <4>4. PendingHasStride'
        BY <4>3 DEF HasStride, PendingHasStride
      <4>5. Few'
        BY <2>0, <4>1, <4>3
      <4> QED BY <4>4, <4>5
    <3>2. CASE ~(~microop /\ ~nonSpec)
      BY <2>1, <2>u, <3>2, Zenon DEF DispatchLoad
    <3> QED BY <3>1, <3>2
  <2>2. ASSUME NEW i \in DOMAIN loadQueue, NEW data, NEW fault, ExecuteLoad(i, data, fault)
        PROVE  IInv'
    BY <2>2, <2>u, Zenon DEF ExecuteLoad
  <2>3. ASSUME NEW i \in DOMAIN loadQueue, NEW result \in Value \cup {NoData},
               WritebackLoad(i, result)
        PROVE  IInv'
    <3>1. CASE ~loadQueue[i].fault /\ ~loadQueue[i].microop /\ result # NoData
      <4>1. /\ vht' = UpdateVHT(vht, loadQueue[i].pc, result)
            /\ stats' = UpdateStats(vht, stats, loadQueue[i].pc, result)
            /\ dispatchPreds' = dispatchPreds
        BY <2>3, <3>1, Zenon DEF WritebackLoad, Update
      <4>2. loadQueue[i].pc \in PC /\ result \in Value
        BY <2>t, <3>1 DEF Load
      <4>3. Lost(vht', stats') = Lost(vht, stats) /\ HasStride(vht')
        BY <2>0, <4>1, <4>2, UpdateLosesNone, Zenon
      <4> QED BY <2>k, <4>1, <4>3 DEF HasStride, PendingHasStride
    <3>2. CASE ~(~loadQueue[i].fault /\ ~loadQueue[i].microop /\ result # NoData)
      BY <2>3, <2>u, <3>2, Zenon DEF WritebackLoad
    <3> QED BY <3>1, <3>2
  <2>4. ASSUME NEW i \in DOMAIN loadQueue, Retire(i) PROVE IInv'
    BY <2>4, <2>u, Zenon DEF Retire
  <2>5. ASSUME CommitLoad PROVE IInv'
    <3> DEFINE ld == Head(loadQueue)
    <3>1. ld \in Load
      BY <2>5, SeqHeadTail DEF CommitLoad, PTypeOK
    <3>2. CASE ld.memData # NoData
      <4>1. ld.pc \in PC /\ ld.memData \in Value
        BY <3>1, <3>2 DEF Load
      <4>2. CommittedLoad(ld.pc, ld.memData) /\ dispatchPreds' = dispatchPreds
        BY <2>5, <3>2, Zenon DEF CommitLoad
      <4> HIDE DEF ld
      <4>3. Lost(vht', stats') = Lost(vht, stats) /\ PendingHasStride'
        BY <2>0, <4>1, <4>2, CommitLosesNone, Zenon
      <4> QED BY <2>k, <4>2, <4>3, Zenon
    <3>3. CASE ~(ld.memData # NoData)
      BY <2>5, <2>u, <3>3, Zenon DEF CommitLoad
    <3> QED BY <3>2, <3>3, Zenon
  <2>6. ASSUME NEW n, Squash(n) PROVE IInv'
    BY <2>6, <2>u, Zenon DEF Squash
  <2>7. CASE UNCHANGED pvars
    BY <2>7, <2>u, Zenon DEF pvars, vars
  <2> QED BY <2>1, <2>2, <2>3, <2>4, <2>5, <2>6, <2>7, Zenon DEF PNext
<1>3. IInv => LostOnlyToDispatch
  BY <1>0
<1> QED BY <1>1, <1>2, <1>3, PipelineTypes, PTL DEF PSpec

(* With microop loads totalLoads counts no load twice, squashed and         *)
(* redispatched loads included: together with the loads still queued it     *)
(* never exceeds the loads dispatched, for a commit moves one load from the *)
(* queue to the counter and nothing else counts.                            *)
THEOREM LoadsCountedOnceTheorem ==
    ASSUME Microop = {TRUE}
    PROVE  PSpec => []LoadsCountedOnce
<1> DEFINE IInv == stats["totalLoads"] + Len(loadQueue) <= seqNum
<1>1. PInit => IInv
  BY DEF PInit, Init, StatName
<1>2. PTypeOK /\ AllMicroops /\ IInv /\ [PNext]_pvars => IInv'
  <2> SUFFICES ASSUME PTypeOK, AllMicroops, IInv, [PNext]_pvars PROVE IInv'
    OBVIOUS
  <2>0. /\ Len(loadQueue) \in Nat /\ seqNum \in Nat
        /\ stats["totalLoads"] \in Nat
    BY DEF PTypeOK, TypeOK, StatName
  <2>1. ASSUME NEW pc \in PC, NEW microop \in Microop, NEW nonSpec \in BOOLEAN,
               DispatchLoad(pc, microop, nonSpec)
        PROVE  IInv'
    <3>1. PICK x : loadQueue' = Append(loadQueue, x)
      BY <2>1, Zenon DEF DispatchLoad
    <3>2. Len(loadQueue') = Len(loadQueue) + 1
      BY <3>1 DEF PTypeOK
    <3>3. stats' = stats /\ seqNum' = seqNum + 1
      BY <2>1 DEF DispatchLoad, vars
    <3> QED BY <2>0, <3>2, <3>3
  <2>2. ASSUME NEW i \in DOMAIN loadQueue, NEW data, NEW fault, ExecuteLoad(i, data, fault)
        PROVE  IInv'
    BY <2>2 DEF ExecuteLoad, vars, PTypeOK
  <2>3. ASSUME NEW i \in DOMAIN loadQueue, NEW result, WritebackLoad(i, result)
        PROVE  IInv'
    BY <2>3 DEF WritebackLoad, AllMicroops, vars, PTypeOK
  <2>4. ASSUME NEW i \in DOMAIN loadQueue, Retire(i) PROVE IInv'
    BY <2>4 DEF Retire, vars, PTypeOK
  <2>5. ASSUME CommitLoad PROVE IInv'
    <3>1. Len(loadQueue') = Len(loadQueue) - 1 /\ seqNum' = seqNum
      BY <2>5, SeqHeadTail, SMTT(20) DEF CommitLoad, PTypeOK
    <3>2. stats'["totalLoads"] \in {stats["totalLoads"], stats["totalLoads"] + 1}
      <4>1. \A pc, actual : CommittedLoad(pc, actual) =>
               stats'["totalLoads"] = stats["totalLoads"] + 1
        <5> SUFFICES ASSUME NEW pc, NEW actual, CommittedLoad(pc, actual)
                     PROVE  stats'["totalLoads"] = stats["totalLoads"] + 1
          OBVIOUS
        <5> DEFINE h == UpdateVHT(vht, pc, actual)
                   t == UpdateTable(vht, markovTable, pc, actual)
                   s == UpdateStats(vht, stats, pc, actual)
        <5>1. s["totalLoads"] = stats["totalLoads"] + 1
          BY DEF UpdateStats, Bump, StatName
        <5>2. stats' = PredictStats(h, t, s, pc)
          BY DEF CommittedLoad
        <5> HIDE DEF h, t, s
        <5>3. PredictOutcome(h, t, pc) # "totalLoads"
          BY DEF PredictOutcome
        <5> QED BY <5>1, <5>2, <5>3 DEF PredictStats, Bump, StatName
      <4> QED BY <2>5, <4>1 DEF CommitLoad, vars
    <3> QED BY <2>0, <3>1, <3>2
  <2>6. ASSUME NEW n \in 0 .. Len(loadQueue) - 1, Squash(n) PROVE IInv'
    <3>1. Len(loadQueue') = n
      BY <2>0, <2>6 DEF Squash, PTypeOK
    <3>2. stats' = stats /\ seqNum' = seqNum
      BY <2>6 DEF Squash, vars
    <3> QED BY <2>0, <3>1, <3>2
  <2>7. CASE UNCHANGED pvars
    BY <2>7 DEF pvars
  <2> QED BY <2>1, <2>2, <2>3, <2>4, <2>5, <2>6, <2>7, Zenon DEF PNext
<1>3. PTypeOK /\ IInv => LoadsCountedOnce
  BY DEF PTypeOK, TypeOK, StatName, LoadsCountedOnce
<1> QED BY <1>1, <1>2, <1>3, PipelineTypes, MicroopsOnly, PTL DEF PSpec

(* With microop loads a prediction that a commit asked for waits for the    *)
(* next commit: only a step that takes the head off the load queue ends it. *)
THEOREM CheckedAtNextCommitTheorem ==
    ASSUME Microop = {TRUE}
    PROVE  PSpec => CheckedAtNextCommit
<1> DEFINE A == \A pc \in PC :
                  askedBy[pc] = "commit" /\ askedBy'[pc] # "commit"
                  => loadQueue # <<>> /\ loadQueue' = Tail(loadQueue)
<1>1. AllMicroops /\ [PNext]_pvars => [A]_pvars
  <2> SUFFICES ASSUME AllMicroops, PNext PROVE A
    OBVIOUS
  <2>1. ASSUME NEW pc \in PC, NEW microop \in Microop, NEW nonSpec \in BOOLEAN,
               DispatchLoad(pc, microop, nonSpec)
        PROVE  A
    BY <2>1 DEF DispatchLoad
  <2>2. ASSUME NEW i \in DOMAIN loadQueue, NEW data, NEW fault, ExecuteLoad(i, data, fault)
        PROVE  A
    BY <2>2 DEF ExecuteLoad
  <2>3. ASSUME NEW i \in DOMAIN loadQueue, NEW result, WritebackLoad(i, result)
        PROVE  A
    BY <2>3 DEF WritebackLoad, AllMicroops
  <2>4. ASSUME NEW i \in DOMAIN loadQueue, Retire(i) PROVE A
    BY <2>4 DEF Retire
  <2>5. ASSUME CommitLoad PROVE A
    BY <2>5 DEF CommitLoad
  <2>6. ASSUME NEW n, Squash(n) PROVE A
    BY <2>6 DEF Squash
  <2> QED BY <2>1, <2>2, <2>3, <2>4, <2>5, <2>6, Zenon DEF PNext
<1> QED BY <1>1, MicroopsOnly, PTL DEF PSpec, CheckedAtNextCommit
=============================================================================
