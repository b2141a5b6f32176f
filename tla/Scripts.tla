------------------------------ MODULE Scripts ------------------------------
(* The record the script storage keeps of each script, and what each       *)
(* storage operation does to it (src/src/scripting/storage.rs).  A         *)
(* definition is reduced to the two fields control depends on: whether the *)
(* script is enabled and the priority of its writes.                       *)
EXTENDS Naturals

CONSTANTS
  Priorities,   \* the numeric values of ScriptPriority in use
  ErrorLimit,   \* consecutive failures after which a script is stopped (5)
  Absent        \* "no such script"

ASSUME ScriptAssumption ==
  /\ Priorities \subseteq 0..255
  /\ ErrorLimit \in Nat \ {0}

Definition == [enabled: BOOLEAN, priority: Priorities]

Status == {"active", "paused", "error", "running"}

(* error_count saturates at ErrorLimit: the code only compares it with     *)
(* that bound.                                                             *)
Record == [definition: Definition, status: Status, error_count: 0..ErrorLimit]

ASSUME AbsentAssumption == Absent \notin Record

(* A script as it is loaded from disk or first deployed.                   *)
Loaded(d) ==
  [definition  |-> d,
   status      |-> IF d.enabled THEN "active" ELSE "paused",
   error_count |-> 0]

Enabled(s) == [s EXCEPT !.definition.enabled = TRUE, !.status = "active"]

Disabled(s) == [s EXCEPT !.definition.enabled = FALSE, !.status = "paused"]

MarkedRunning(s) == [s EXCEPT !.status = "running"]

Succeeded(s) ==
  [s EXCEPT !.error_count = 0,
            !.status = IF @ = "running" THEN "active" ELSE @]

Failed(s) ==
  LET errors == IF s.error_count = ErrorLimit THEN ErrorLimit ELSE s.error_count + 1
  IN [s EXCEPT !.error_count = errors,
               !.status = IF errors >= ErrorLimit THEN "error" ELSE @]

(* What get_active selects: the scripts whose triggers are looked at.      *)
Runnable(s) == s # Absent /\ s.status = "active" /\ s.definition.enabled
=============================================================================
