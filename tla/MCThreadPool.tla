---------------------------- MODULE MCThreadPool ----------------------------
(* Instances of ThreadPool for TLC. *)
EXTENDS ThreadPool

CONSTANTS r1, r2, k1, k2

\* r1 submits k1 and k2 while it runs, the others submit nothing.
Nested == [x \in Tasks |-> IF x = r1 THEN {k1, k2} \cap Tasks ELSE {}]
=============================================================================
