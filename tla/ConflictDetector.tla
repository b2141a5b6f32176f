-------------------------- MODULE ConflictDetector --------------------------
(* The per-cycle record of output writes and its priority rule             *)
(* (src/src/scripting/conflict.rs).  check_gpio_write, check_modbus_write  *)
(* and check_coil_write are the same code over three maps: a target here   *)
(* is a pin, a (device, register) or a (device, coil).                     *)
EXTENDS Naturals

CONSTANT NoWrite   \* the target has not been written in this cycle

(* pending maps a target to NoWrite or to the winning write of this cycle, *)
(* a record [script, priority, value]; by is the [script, priority] that   *)
(* now wants the target to have value v.                                   *)
Verdict(pending, by, t, v) ==
  LET old == pending[t] IN
  IF old = NoWrite \/ old.script = by.script THEN "no_conflict"
  ELSE IF old.value = v THEN "duplicate"
  ELSE IF by.priority >= old.priority THEN "won"
  ELSE "lost"

Granted(verdict) == verdict \in {"no_conflict", "won"}

(* Variant of Register: a refused write is recorded too.                   *)
RegisterAlways(pending, by, t, v) ==
  [pending EXCEPT ![t] = [script |-> by.script, priority |-> by.priority, value |-> v]]

(* The record after the check: only a write that is let through replaces   *)
(* what is there.                                                          *)
Register(pending, by, t, v) ==
  IF Granted(Verdict(pending, by, t, v))
  THEN [pending EXCEPT ![t] = [script |-> by.script, priority |-> by.priority, value |-> v]]
  ELSE pending
=============================================================================
