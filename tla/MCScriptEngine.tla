--------------------------- MODULE MCScriptEngine ---------------------------
(* Two scripts of two priorities that call each other and write one pin.   *)
EXTENDS ScriptEngine, TLC

MCPriorities == {50, 100}

CONSTANTS a, b, low, high

MCStored ==
  a :> [enabled |-> TRUE, priority |-> 50] @@ b :> [enabled |-> TRUE, priority |-> 100]

Symmetry == Permutations({low, high})
=============================================================================
