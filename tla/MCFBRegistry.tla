---------------------------- MODULE MCFBRegistry ----------------------------
(* Two blocks and one signal.  The agent is restarted with any of a few    *)
(* programs, so a row is read by the block that wrote it, by one of the    *)
(* same type under another preset and by one of another type.              *)
EXTENDS FBRegistry, TLC

CONSTANTS fb1, fb2, s, x

Signal == <<"signal", s>>
NoWires == [f \in {} |-> <<>>]

Define(type, preset, inputs) ==
  [type |-> type, preset |-> preset, inputs |-> inputs, outputs |-> NoWires]

Counting ==
  fb1 :> Define("R_TRIG", 0, [clk |-> Signal]) @@
  fb2 :> Define("CTU", 1, [cu |-> <<"fb", fb1, "q">>])

Pulse == fb1 :> Define("TP", 2, [input |-> Signal]) @@ fb2 :> Absent
Delay == fb1 :> Define("TON", 2, [input |-> Signal]) @@ fb2 :> Absent
Hold  == fb1 :> Define("TOF", 2, [input |-> Signal]) @@ fb2 :> Absent

Filling ==
  fb1 :> [type |-> "TON", preset |-> 1, outputs |-> x :> "output",
        inputs |-> [input |-> Signal, mode |-> <<"value", "scan_cycle">>]] @@
  fb2 :> Define("CTUD", 1, [cd |-> <<"variable", x>>])

Emptying ==
  fb1 :> Define("F_TRIG", 0, [clk |-> Signal]) @@
  fb2 :> Define("CTD", 1, [cd |-> <<"fb", fb1, "q">>])

TimerPrograms == {Pulse, Delay, Hold, Filling}
CounterPrograms == {Counting, Emptying}
MCPrograms == TimerPrograms \cup CounterPrograms

(* Timers and counters are not mixed on one disk, and the timers are upset *)
(* once only.                                                              *)
Bounded ==
  LET used == UNION {{definitions[i], writers[i]} : i \in Ids} \ {Absent}
      counting == UNION {{p[i] : i \in Ids} : p \in CounterPrograms}
  IN  \/ used \subseteq counting
      \/ used \cap counting = {} /\ upsets <= 1

OnlyPulse == {Pulse}

(* These programs are among those of the theorem on timers.                *)
ASSUME SteadyPrograms == SteadyTimers
=============================================================================
