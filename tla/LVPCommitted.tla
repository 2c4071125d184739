----------------------------- MODULE LVPCommitted -----------------------------
(***************************************************************************)
(* What the predictor promises when it is trained at commit only: each     *)
(* committed load is one atomic step that trains on its value and then     *)
(* asks for the next one, as if the processor ran loads one at a time. No  *)
(* other step touches the tables or the counters.                          *)
(***************************************************************************)
EXTENDS MarkovLVP

CommittedLoad(pc, actual) ==
    LET h == UpdateVHT(vht, pc, actual)
        t == UpdateTable(vht, markovTable, pc, actual)
        s == UpdateStats(vht, stats, pc, actual)
    IN /\ vht' = PredictVHT(h, t, pc)
       /\ markovTable' = t
       /\ stats' = PredictStats(h, t, s, pc)

CNext == \E pc \in PC, actual \in Value : CommittedLoad(pc, actual)

CSpec == Init /\ [][CNext]_vars
=============================================================================
