-------------------------- MODULE MCBaselineGraph --------------------------
(* Instances of BaselineGraph for TLC. *)
EXTENDS BaselineGraph

\* In the first graph one node releases two that run()'s loop has passed, in
\* the second the loop meets a successor after its predecessor.
ForkAndChain == {<<<<>>, <<>>, <<1, 2>>>>, <<<<2>>, <<>>>>}

\* The successor of the second graph may be dispatched twice.
ForkAndChainTasks == {<<1, 1>>, <<2, 1>>, <<2, 2>>, <<3, 1>>}
=============================================================================
