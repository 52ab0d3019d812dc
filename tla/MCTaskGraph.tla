---------------------------- MODULE MCTaskGraph ----------------------------
(* Instances of TaskGraph for TLC. *)
EXTENDS TaskGraph, TLC

WorkerSymmetry == Permutations(Workers)
=============================================================================
