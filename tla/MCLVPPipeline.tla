---------------------------- MODULE MCLVPPipeline ----------------------------
(* LVPPipeline on a small instance, with ContextHash as its hash. *)
EXTENDS LVPPipeline

CONSTANTS
    MCWordBits, MCIndexBits,
    MaxLoads    \* loads dispatched in a behaviour

CH == INSTANCE ContextHash WITH
        WordBits <- MCWordBits, Multiplier <- 3, Rotation <- 0,
        Depth <- ContextDepth, IndexBits <- MCIndexBits

MCHashContext(pc, ctx) == CH!TableIndex(pc, ctx)

BoundedDispatch(pc, microop, nonSpec) ==
    seqNum < MaxLoads /\ DispatchLoad(pc, microop, nonSpec)

MCNext ==
    \/ \E pc \in PC, microop \in Microop, nonSpec \in BOOLEAN :
            BoundedDispatch(pc, microop, nonSpec)
    \/ \E i \in DOMAIN loadQueue :
            \/ \E data \in Value \cup {NoData}, fault \in BOOLEAN :
                    ExecuteLoad(i, data, fault)
            \/ \E result \in Value \cup {NoData} : WritebackLoad(i, result)
            \/ Retire(i)
    \/ CommitLoad
    \/ \E n \in 0 .. Len(loadQueue) - 1 : Squash(n)

MCSpec == PInit /\ [][MCNext]_pvars
=============================================================================
