----------------------------- MODULE ContextHash -----------------------------
(***************************************************************************)
(* MarkovLVP::hashContext at a word of WordBits bits. The code mixes 64-bit*)
(* words with the odd multiplier 2654435761, rotates left by 5 and folds   *)
(* the upper half of the pc; here the width, the multiplier and the        *)
(* rotation are constants, so that TLC can enumerate every input.          *)
(***************************************************************************)
EXTENDS Integers, Bitwise

CONSTANTS
    WordBits,       \* 64 in the code
    Multiplier,     \* 2654435761 in the code
    Rotation,       \* 5 in the code
    Depth,          \* context_depth
    IndexBits       \* log2 of table_size

WordSize == 2 ^ WordBits

ASSUME HashParams ==
    /\ WordBits \in Nat \ {0} /\ Multiplier % 2 = 1
    /\ Rotation \in 0 .. WordBits - 1
    /\ Depth \in Nat \ {0} /\ IndexBits \in 0 .. WordBits

rotl(h) == ((h * 2 ^ Rotation) % WordSize) + (h \div 2 ^ (WordBits - Rotation))

(* Mutant: an or in place of the xor.                                       *)
MixWithOr(h, stride) == rotl(h | ((stride * Multiplier) % WordSize))

Mix(h, stride) == rotl(h ^^ ((stride * Multiplier) % WordSize))

(* The loop of hashContext: h before round i, ctx[0] being the newest stride. *)
RECURSIVE Rounds(_, _, _)
Rounds(h, ctx, i) == IF i = Depth THEN h ELSE Rounds(Mix(h, ctx[i]), ctx, i + 1)

FoldPC(pc) == pc ^^ (pc \div 2 ^ (WordBits \div 2))

Hash(pc, ctx) == Rounds(FoldPC(pc), ctx, 0)

TableIndex(pc, ctx) == Hash(pc, ctx) % (2 ^ IndexBits)
=============================================================================
