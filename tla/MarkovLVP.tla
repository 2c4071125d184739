------------------------------ MODULE MarkovLVP ------------------------------
(***************************************************************************)
(* The Markov load value predictor of gem5-fresh/src/cpu/markov_lvp.{hh,cc}*)
(* A per-PC value history table (VHT) holds the last value and a ring of   *)
(* the last ContextDepth strides; the hash of the ring selects an entry of *)
(* the shared Markov table, which predicts the next stride with a          *)
(* saturating confidence counter.                                          *)
(*                                                                         *)
(* The methods are written as operators on the tables, so that a caller    *)
(* that runs several of them in one handler (LVPPipeline) can compose them.*)
(***************************************************************************)
EXTENDS Integers, FiniteSets

CONSTANTS
    PC,                 \* the addresses of the load instructions
    Word,               \* 2^64 in the code: values and strides wrap at Word
    TableSize,          \* table_size
    ContextDepth,       \* context_depth
    ConfThreshold,      \* conf_threshold
    MaxConf,            \* max_conf
    ConfRange,          \* 2^8 in the code: the confidence is a uint8_t
    HashContext(_, _)   \* table index of a pc and its context, newest first

Value == 0 .. Word - 1
Slot  == 0 .. ContextDepth - 1
Index == 0 .. TableSize - 1

(***************************************************************************)
(* The constructor's assertions, the widths of the fields, and that the    *)
(* masked hash is an index.                                                *)
(***************************************************************************)
ASSUME ParamAssumption ==
    /\ IsFiniteSet(PC)
    /\ Word \in Nat \ {0}
    /\ TableSize \in Nat \ {0}
    /\ ContextDepth \in Nat \ {0}
    /\ ConfThreshold \in Nat
    /\ MaxConf \in Nat
    /\ ConfRange \in Nat \ {0, 1}

ASSUME HashAssumption ==
    \A pc \in PC, ctx \in [Slot -> Value] : HashContext(pc, ctx) \in Index

StatName == {"totalLoads", "predicted", "correct", "incorrect",
             "noHistory", "noStride", "lowConfidence", "pendingChecked"}

VHTEntry == [strides     : [Slot -> Value],
             lastVal     : Value,
             writePtr    : Slot,
             valid       : BOOLEAN,
             strideValid : BOOLEAN,
             hasPending  : BOOLEAN,
             pendingPred : Value]

MarkovEntry == [predictedStride : Value,
                confidence      : 0 .. ConfRange - 1,
                valid           : BOOLEAN]

VARIABLES
    vht,            \* VHT entry of each PC; an absent entry is not valid
    markovTable,    \* the Markov table, shared by all the PCs
    stats           \* the counters of LVPStats

vars == <<vht, markovTable, stats>>

NewVHTEntry == [strides |-> [i \in Slot |-> 0], lastVal |-> 0, writePtr |-> 0,
                valid |-> FALSE, strideValid |-> FALSE,
                hasPending |-> FALSE, pendingPred |-> 0]

NewMarkovEntry == [predictedStride |-> 0, confidence |-> 0, valid |-> FALSE]

Init ==
    /\ vht = [pc \in PC |-> NewVHTEntry]
    /\ markovTable = [i \in Index |-> NewMarkovEntry]
    /\ stats = [n \in StatName |-> 0]

Bump(s, events) == [n \in StatName |-> IF n \in events THEN s[n] + 1 ELSE s[n]]

-----------------------------------------------------------------------------
(* Mutant: the ring read from its oldest stride. *)
ContextFromOldest(e) ==
    [i \in Slot |-> e.strides[(e.writePtr + i) % ContextDepth]]

(* The strides of an entry, newest first: the order hashContext mixes them. *)
Context(e) ==
    [i \in Slot |-> e.strides[(e.writePtr + ContextDepth - 1 - i) % ContextDepth]]

hashContext(pc, e) == HashContext(pc, Context(e))

-----------------------------------------------------------------------------
(* predict(pc, predVal) *)

(* The counter that a call of predict bumps names the way it returned. *)
PredictOutcome(h, t, pc) ==
    LET m == t[hashContext(pc, h[pc])] IN
    IF ~h[pc].valid THEN "noHistory"
    ELSE IF ~h[pc].strideValid THEN "noStride"
    ELSE IF ~m.valid \/ m.confidence < ConfThreshold THEN "lowConfidence"
    ELSE "predicted"

Issues(h, t, pc) == PredictOutcome(h, t, pc) = "predicted"

PredVal(h, t, pc) ==
    (h[pc].lastVal + t[hashContext(pc, h[pc])].predictedStride) % Word

PredictVHT(h, t, pc) ==
    IF Issues(h, t, pc)
    THEN [h EXCEPT ![pc].hasPending = TRUE, ![pc].pendingPred = PredVal(h, t, pc)]
    ELSE h

PredictStats(h, t, s, pc) == Bump(s, {PredictOutcome(h, t, pc)})

Predict(pc) ==
    /\ vht' = PredictVHT(vht, markovTable, pc)
    /\ stats' = PredictStats(vht, markovTable, stats, pc)
    /\ UNCHANGED markovTable

-----------------------------------------------------------------------------
(* update(pc, actualVal, ..): its last two parameters are never read. *)

Stride(e, actual) == (actual - e.lastVal) % Word

(* Mutant: a new entry that starts at the threshold. *)
AllocateConfident(stride) ==
    [predictedStride |-> stride, confidence |-> ConfThreshold, valid |-> TRUE]

Allocate(stride) == [predictedStride |-> stride, confidence |-> 1, valid |-> TRUE]

Strengthen(m) ==
    IF m.confidence < MaxConf
    THEN [m EXCEPT !.confidence = (m.confidence + 1) % ConfRange]
    ELSE m

(* Mutants: a counter that reaches 0 and keeps its entry; one that a         *)
(* mismatch resets; a mismatch that always replaces the stride.             *)
WeakenToZero(m, stride) ==
    IF m.confidence > 0 THEN [m EXCEPT !.confidence = m.confidence - 1] ELSE Allocate(stride)
WeakenResets(m, stride) ==
    IF m.confidence > 1 THEN [m EXCEPT !.confidence = 1] ELSE Allocate(stride)
WeakenReplaces(m, stride) == Allocate(stride)

(* A mismatch costs one point of confidence; the last one costs the stride. *)
Weaken(m, stride) ==
    IF m.confidence > 1
    THEN [m EXCEPT !.confidence = m.confidence - 1]
    ELSE Allocate(stride)

(* What a Markov entry becomes once it has seen a stride. *)
Train(m, stride) ==
    IF ~m.valid THEN Allocate(stride)
    ELSE IF stride = m.predictedStride THEN Strengthen(m)
    ELSE Weaken(m, stride)

FirstSeen(actual) == [NewVHTEntry EXCEPT !.valid = TRUE, !.lastVal = actual]

(* Mutant: a write pointer that does not wrap. *)
PushStrideNoWrap(e, actual) ==
    [e EXCEPT !.strides[e.writePtr] = Stride(e, actual), !.writePtr = e.writePtr + 1,
              !.strideValid = TRUE, !.hasPending = FALSE, !.lastVal = actual]

PushStride(e, actual) ==
    [e EXCEPT !.strides[e.writePtr] = Stride(e, actual),
              !.writePtr = (e.writePtr + 1) % ContextDepth,
              !.strideValid = TRUE,
              !.hasPending = FALSE,
              !.lastVal = actual]

UpdateVHT(h, pc, actual) ==
    [h EXCEPT ![pc] = IF h[pc].valid THEN PushStride(h[pc], actual)
                                     ELSE FirstSeen(actual)]

UpdateTable(h, t, pc, actual) ==
    IF h[pc].valid /\ h[pc].strideValid
    THEN [t EXCEPT ![hashContext(pc, h[pc])] = Train(@, Stride(h[pc], actual))]
    ELSE t

(* Mutant: the accuracy counted whether or not a prediction is pending. *)
PendingEventsAlways(e, actual) ==
    IF e.valid
    THEN {"pendingChecked", IF actual = e.pendingPred THEN "correct" ELSE "incorrect"}
    ELSE {}

PendingEvents(e, actual) ==
    IF e.valid /\ e.hasPending
    THEN {"pendingChecked",
          IF actual = e.pendingPred THEN "correct" ELSE "incorrect"}
    ELSE {}

UpdateStats(h, s, pc, actual) ==
    Bump(s, {"totalLoads"} \cup PendingEvents(h[pc], actual))

Update(pc, actual) ==
    /\ vht' = UpdateVHT(vht, pc, actual)
    /\ markovTable' = UpdateTable(vht, markovTable, pc, actual)
    /\ stats' = UpdateStats(vht, stats, pc, actual)

-----------------------------------------------------------------------------
Next ==
    \E pc \in PC :
        \/ Predict(pc)
        \/ \E actual \in Value : Update(pc, actual)

Spec == Init /\ [][Next]_vars

-----------------------------------------------------------------------------
(***************************************************************************)
(* Properties.                                                             *)
(***************************************************************************)

(* Every field stays in its range: indices inside the ring and the table,  *)
(* values and strides inside a word (markov_lvp.hh, VHTEntry, MarkovEntry). *)
TypeOK ==
    /\ vht \in [PC -> VHTEntry]
    /\ markovTable \in [Index -> MarkovEntry]
    /\ stats \in [StatName -> Nat]

ConfidenceOK(m) ==
    IF m.valid
    THEN m.confidence >= 1 /\ (m.confidence <= MaxConf \/ m.confidence = 1)
    ELSE m.confidence = 0

(* An entry of the Markov table that has been allocated keeps a confidence *)
(* of at least 1 and never more than max_conf (or 1): update() replaces    *)
(* the stride rather than leave a valid entry at confidence 0. A           *)
(* conf_threshold of 0 therefore predicts exactly what 1 does.             *)
ConfidenceInv == \A i \in Index : ConfidenceOK(markovTable[i])

Pending == {pc \in PC : vht[pc].hasPending}

(* The accuracy counters account for every prediction: each evaluated one  *)
(* was correct or incorrect, and no prediction is evaluated twice, nor one *)
(* that predict() never issued. (Predictions are lost when a second        *)
(* predict() overwrites the pending one, hence no equality.)               *)
PredictionAccounting ==
    /\ stats["pendingChecked"] = stats["correct"] + stats["incorrect"]
    /\ stats["predicted"] >= stats["pendingChecked"] + Cardinality(Pending)

(* A prediction is only ever pending on a PC with a stride, and it is one  *)
(* that the entry could have produced: a pending flag without a history    *)
(* would be counted against whatever value loads first.                    *)
PendingHasStride ==
    \A pc \in PC : /\ vht[pc].hasPending => vht[pc].strideValid
                   /\ vht[pc].strideValid => vht[pc].valid

(* The confidence counter saturates: while an entry keeps its stride, one  *)
(* step moves its confidence by at most one (MarkovLVP.py calls max_conf   *)
(* the "Saturating counter ceiling").                                      *)
ConfidenceSaturates ==
    [][\A i \in Index :
         /\ markovTable[i].valid
         /\ markovTable'[i].predictedStride = markovTable[i].predictedStride
         => markovTable'[i].confidence - markovTable[i].confidence \in {-1, 0, 1}]_vars

(* Hysteresis: a stride that more than one load has confirmed is not       *)
(* replaced by a single load that disagrees with it.                       *)
ConfidentStrideKept ==
    [][\A i \in Index :
         markovTable[i].confidence > 1
         => /\ markovTable'[i].predictedStride = markovTable[i].predictedStride
            /\ markovTable'[i].valid]_vars
=============================================================================
