------------------------- MODULE MCParallelExecutor -------------------------
(* Up to three branches, of which two get a task: of one or two actions,   *)
(* with a timeout of their own, the divergence's or the default.           *)
EXTENDS ParallelExecutor

MCBranches == {[actions |-> 1, timeout |-> None], [actions |-> 2, timeout |-> 1]}

MCLists ==
  {<<>>} \cup {<<b, c>> : b, c \in MCBranches} \cup {<<b, b, b>> : b \in MCBranches}

MCDivergences ==
  [branches: MCLists, sync_type: {"and", "or", "all_settled"}, timeout: {None, 1}]
=============================================================================
