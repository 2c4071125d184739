--------------------------- MODULE MarkovLVPHistory ---------------------------
(***************************************************************************)
(* MarkovLVP with two history variables, which no step reads: the values   *)
(* that update() was given for each PC, in order, and how often it trained *)
(* each index of the table with each stride.                               *)
(***************************************************************************)
EXTENDS MarkovLVP, Sequences

VARIABLES
    loaded,     \* loaded[pc]: the values update() was given, oldest first
    trained     \* trained[i][s]: times update() trained index i with stride s

hvars == <<vht, markovTable, stats, loaded, trained>>

HInit ==
    /\ Init
    /\ loaded = [pc \in PC |-> <<>>]
    /\ trained = [i \in Index |-> [s \in Value |-> 0]]

HPredict(pc) == Predict(pc) /\ UNCHANGED <<loaded, trained>>

HUpdate(pc, actual) ==
    /\ Update(pc, actual)
    /\ loaded' = [loaded EXCEPT ![pc] = Append(@, actual)]
    /\ trained' = IF vht[pc].valid /\ vht[pc].strideValid
                  THEN [trained EXCEPT ![hashContext(pc, vht[pc])]
                                          [Stride(vht[pc], actual)] = @ + 1]
                  ELSE trained

HNext ==
    \E pc \in PC :
        \/ HPredict(pc)
        \/ \E actual \in Value : HUpdate(pc, actual)

HSpec == HInit /\ [][HNext]_hvars

-----------------------------------------------------------------------------
(* The i-th newest stride of a sequence of values; 0 before there are any. *)
StrideOf(vals, i) ==
    IF i + 1 < Len(vals)
    THEN (vals[Len(vals) - i] - vals[Len(vals) - i - 1]) % Word
    ELSE 0

(* A VHT entry is what the values loaded at its PC make it. *)
EntryMatches(e, vals) ==
    /\ e.valid <=> vals # <<>>
    /\ e.strideValid <=> Len(vals) > 1
    /\ vals # <<>> => e.lastVal = vals[Len(vals)]
    /\ \A i \in Slot : Context(e)[i] = StrideOf(vals, i)

(* The context that hashContext mixes is exactly the last ContextDepth     *)
(* strides of the values loaded at that PC, newest first and padded with   *)
(* zeros: the ring and its write pointer never lose, repeat or reorder one *)
(* (update, the strides[writePtr] store; hashContext, the idx expression). *)
ContextIsHistory == \A pc \in PC : EntryMatches(vht[pc], loaded[pc])

(* The confidence of an entry never exceeds the number of loads that       *)
(* trained the entry with the stride it predicts.                          *)
ConfidenceBacked ==
    \A i \in Index :
        markovTable[i].valid
        => markovTable[i].confidence <= trained[i][markovTable[i].predictedStride]

(* predict() issues a value only when the stride it adds was really seen   *)
(* after a context with the same hash, at least conf_threshold times       *)
(* ("Min confidence counter value before issuing a prediction").           *)
PredictionBacked ==
    \A pc \in PC :
        LET i == hashContext(pc, vht[pc]) IN
        Issues(vht, markovTable, pc)
        => /\ trained[i][markovTable[i].predictedStride] >= ConfThreshold
           /\ trained[i][markovTable[i].predictedStride] >= 1
=============================================================================
