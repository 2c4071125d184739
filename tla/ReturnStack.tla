----------------------------- MODULE ReturnStack -----------------------------
(***************************************************************************)
(* The return address stack (pred/ras.cc): a circular buffer whose top     *)
(* moves round. A push records nothing but itself; a pop records the top   *)
(* and the address it found there, so that a squash can put both back.     *)
(* usedEntries only feeds debug output and is left out.                    *)
(***************************************************************************)
EXTENDS Integers

CONSTANTS
    NumEntries,     \* entries of the stack
    Null            \* an entry that no call has written

ASSUME RasAssumption == NumEntries \in Nat \ {0} /\ Null = 0

Entry == 0 .. NumEntries - 1

EmptyStack == [addrStack |-> [e \in Entry |-> Null], tos |-> 0]

IncrTos(t) == IF t + 1 = NumEntries THEN 0 ELSE t + 1

DecrTos(t) == IF t = 0 THEN NumEntries - 1 ELSE t - 1

Push(s, addr) ==
    LET t == IncrTos(s.tos)
    IN  [addrStack |-> [s.addrStack EXCEPT ![t] = addr], tos |-> t]

Pop(s) == [s EXCEPT !.tos = DecrTos(@)]

Restore(s, t, addr) ==
    [addrStack |-> [s.addrStack EXCEPT ![t] = addr], tos |-> t]

(* The rasHistory of a branch. The code keeps tos and entry for a pop only; *)
(* here every record names the top before the branch.                       *)
RasRecord(op, s) ==
    [op |-> op, tos |-> s.tos,
     entry |-> IF op = "pop" THEN s.addrStack[s.tos] ELSE Null]

(* What the record says was done to the stack. *)
RasApply(s, op, addr) ==
    CASE op = "push" -> Push(s, addr)
      [] op = "pop"  -> Pop(s)
      [] OTHER       -> s

(* Mutant: the popped address is not put back, only the top.                *)
RasSquashTopOnly(s, h) ==
    CASE h.op = "push" -> Pop(s)
      [] h.op = "pop"  -> [s EXCEPT !.tos = h.tos]
      [] OTHER         -> s

RasSquash(s, h) ==
    CASE h.op = "push" -> Pop(s)
      [] h.op = "pop"  -> Restore(s, h.tos, h.entry)
      [] OTHER         -> s
=============================================================================
