------------------------------- MODULE MCAlerts -------------------------------
(* Small instances of Alerts: the author of a review and one watcher.      *)
EXTENDS Alerts, TLC

CONSTANTS r1, u1, u2, a1, w1, w2, i1, i2

WrittenByU1 == [r \in Reviews |-> u1]
OneArea == [r \in Reviews |-> a1]

(* Requests and row ids are interchangeable.                               *)
Symmetric == Permutations({w1, w2}) \cup Permutations({i1, i2})
=============================================================================
