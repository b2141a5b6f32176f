----------------------------- MODULE MCTriggers -----------------------------
(* An input and an output, both inverted.  The script watches the input,   *)
(* behind a trigger of another kind, and is deployed again as it is or     *)
(* with another trigger in its first place and none in its second.         *)
EXTENDS Triggers

In == 1
Out == 2

MCOrder == <<Out, In>>

MCConfigs ==
  {[p \in {In, Out} |->
      [direction |-> IF p = In THEN "input" ELSE "output", invert |-> TRUE]]}

Of(kind, debounce) ==
  [kind |-> kind, pin |-> In, debounce |-> debounce, interval |-> 1]

MCTriggerLists ==
  {<<Of("threshold", 1), Of("gpio_change", 1)>>, <<>>}
=============================================================================
