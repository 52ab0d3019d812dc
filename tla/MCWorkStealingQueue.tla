------------------------ MODULE MCWorkStealingQueue ------------------------
(* Instances of WorkStealingQueue for TLC. *)
EXTENDS WorkStealingQueue, TLC

ThiefSymmetry == Permutations(Thieves)
=============================================================================
