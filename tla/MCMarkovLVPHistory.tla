-------------------------- MODULE MCMarkovLVPHistory --------------------------
(* MarkovLVPHistory on a small instance, with ContextHash as its hash and a *)
(* bounded number of calls.                                                 *)
EXTENDS MarkovLVPHistory

CONSTANTS
    MCWordBits, MCIndexBits,
    MaxPredicts,    \* calls of predict() in a behaviour
    MaxUpdates      \* calls of update() in a behaviour

CH == INSTANCE ContextHash WITH
        WordBits <- MCWordBits, Multiplier <- 3, Rotation <- 1,
        Depth <- ContextDepth, IndexBits <- MCIndexBits

MCHashContext(pc, ctx) == CH!TableIndex(pc, ctx)

PredictCalls ==
    stats["predicted"] + stats["noHistory"] + stats["noStride"] + stats["lowConfidence"]

BoundedPredict(pc) == PredictCalls < MaxPredicts /\ HPredict(pc)

BoundedUpdate(pc, actual) == stats["totalLoads"] < MaxUpdates /\ HUpdate(pc, actual)

MCNext ==
    \E pc \in PC :
        \/ BoundedPredict(pc)
        \/ \E actual \in Value : BoundedUpdate(pc, actual)

MCSpec == HInit /\ [][MCNext]_hvars
=============================================================================
