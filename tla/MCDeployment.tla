---------------------------- MODULE MCDeployment ----------------------------
(* Two versions of one program on script a, and a program on script b,     *)
(* which is provisioned as a yaml file; room for one script.               *)
EXTENDS Deployment, TLC

MCPriorities == {50}

CONSTANTS a, b

On == [enabled |-> TRUE, priority |-> 50]
Off == [enabled |-> FALSE, priority |-> 50]

MCProvisioned == a :> Absent @@ b :> On

MCPrograms ==
  {[id |-> "A", script |-> a, text |-> On],
   [id |-> "A", script |-> a, text |-> Off],
   [id |-> "B", script |-> b, text |-> On]}
=============================================================================
