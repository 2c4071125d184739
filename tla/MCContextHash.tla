---------------------------- MODULE MCContextHash ----------------------------
(* The loop of MarkovLVP::hashContext as a state machine, for every pc and   *)
(* every context of a small word. A run of it ends with the hash in h.       *)
EXTENDS ContextHash

VARIABLES
    pc, ctx,    \* the arguments: the address, and the strides newest first
    i,          \* the loop counter
    h           \* the hash so far

hashVars == <<pc, ctx, i, h>>

WordValue == 0 .. WordSize - 1

HashInit ==
    /\ pc \in WordValue
    /\ ctx \in [0 .. Depth - 1 -> WordValue]
    /\ i = 0
    /\ h = FoldPC(pc)

HashRound ==
    /\ i < Depth
    /\ h' = Mix(h, ctx[i])
    /\ i' = i + 1
    /\ UNCHANGED <<pc, ctx>>

HashSpec == HashInit /\ [][HashRound]_hashVars

-----------------------------------------------------------------------------
(* Before the mask no information is lost: two loads whose contexts differ  *)
(* in a single stride, or that differ only in their address, never share a  *)
(* hash. This is what makes the choice of xor, rotation and an odd          *)
(* multiplier right; only the mask of hashContext makes them collide.       *)
HashSeparates ==
    i = Depth
    => /\ \A p \in WordValue \ {pc} : Hash(p, ctx) # h
       /\ \A k \in 0 .. Depth - 1 : \A s \in WordValue \ {ctx[k]} :
             Hash(pc, [ctx EXCEPT ![k] = s]) # h

=============================================================================
