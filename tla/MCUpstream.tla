------------------------------ MODULE MCUpstream ------------------------------
(* Two processes, one with two callers; an interval of two ticks, a poll of *)
(* one, and a patience longer than one slot.                               *)
EXTENDS Upstream

CONSTANTS p1, p2, c1, c2, c3

TwoAndOne == [c \in Callers |-> IF c = c3 THEN p2 ELSE p1]
=============================================================================
