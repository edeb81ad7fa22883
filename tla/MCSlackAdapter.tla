---------------------------- MODULE MCSlackAdapter ----------------------------
(***************************************************************************)
(* SlackAdapter for TLC: an event that is delivered twice, another mention *)
(* in its thread, and one in another thread.                               *)
(***************************************************************************)
EXTENDS SlackAdapter, TLC

CONSTANTS d1, d2, d3, d4, x, y

MCEventOf == [d \in Deliveries |-> CASE d \in {d1, d2} -> 1 [] d = d3 -> 3 [] d = d4 -> 4]
MCThreadOf == [d \in Deliveries |-> IF d = d4 THEN y ELSE x]

Symmetric == Permutations(Workers)
===============================================================================
