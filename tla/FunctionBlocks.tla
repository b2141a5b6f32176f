--------------------------- MODULE FunctionBlocks ---------------------------
(* The IEC 61131-3 function blocks (src/src/scripting/function_blocks).  A  *)
(* block is a record of its fields, named as its JSON names them, with its  *)
(* type.  The start_instant of a timer, which is never saved, is its age:   *)
(* the time since that instant, or NotStarted.                              *)
EXTENDS Integers

CONSTANTS
  MaxCount,   \* i32::MAX, and -MaxCount is i32::MIN
  MaxAge      \* bound on the age of a timer, in ms and in scans: at least every preset

ASSUME BlockAssumption == MaxCount \in Nat /\ MaxAge \in Nat

NotStarted == -1

Timers == {"TON", "TOF", "TP"}
Counters == {"CTU", "CTD", "CTUD"}
Triggers == {"R_TRIG", "F_TRIG"}
Types == Timers \cup Counters \cup Triggers
Modes == {"wall_clock", "scan_cycle"}

-----------------------------------------------------------------------------
(* The constructors; `preset` is pt_ms of a timer and pv of a counter.     *)
NewTON(preset) ==
  [type |-> "TON", pt_ms |-> preset, et_ms |-> 0, input |-> FALSE,
   output |-> FALSE, prev_input |-> FALSE, start |-> NotStarted,
   mode |-> "wall_clock", scan_count |-> 0]

NewTOF(preset) ==
  [type |-> "TOF", pt_ms |-> preset, et_ms |-> 0, input |-> FALSE,
   output |-> FALSE, prev_input |-> FALSE, start |-> NotStarted]

NewTP(preset) ==
  [type |-> "TP", pt_ms |-> preset, et_ms |-> 0, input |-> FALSE,
   output |-> FALSE, prev_input |-> FALSE, start |-> NotStarted,
   pulse_active |-> FALSE]

NewCTU(preset) ==
  [type |-> "CTU", pv |-> preset, cv |-> 0, cu |-> FALSE, reset |-> FALSE,
   q |-> FALSE, prev_cu |-> FALSE]

NewCTD(preset) ==
  [type |-> "CTD", pv |-> preset, cv |-> preset, cd |-> FALSE,
   load |-> FALSE, q |-> FALSE, prev_cd |-> FALSE]

NewCTUD(preset) ==
  [type |-> "CTUD", pv |-> preset, cv |-> 0, cu |-> FALSE, cd |-> FALSE,
   reset |-> FALSE, load |-> FALSE, qu |-> FALSE, qd |-> TRUE,
   prev_cu |-> FALSE, prev_cd |-> FALSE]

NewTrigger(type) ==
  [type |-> type, clk |-> FALSE, q |-> FALSE, prev_clk |-> FALSE]

-----------------------------------------------------------------------------
(* execute of each type.                                                   *)

(* Variant of ExecuteTON: the elapsed time is not capped at the preset.    *)
ExecuteTONUncapped(b) ==
  LET rising == ~b.prev_input
      scans  == IF b.scan_count < MaxAge THEN b.scan_count + 1 ELSE b.scan_count
      et     == IF b.mode = "scan_cycle" THEN scans
                ELSE IF rising THEN 0 ELSE b.start
  IN  IF b.input
      THEN [b EXCEPT !.start = IF rising THEN 0 ELSE @, !.scan_count = scans,
                     !.output = et >= b.pt_ms, !.et_ms = et, !.prev_input = TRUE]
      ELSE [b EXCEPT !.start = NotStarted, !.scan_count = 0, !.et_ms = 0,
                     !.output = FALSE, !.prev_input = FALSE]

ExecuteTON(b) ==
  LET rising  == ~b.prev_input
      scanned == b.mode = "scan_cycle"
      start   == IF rising /\ ~scanned THEN 0 ELSE b.start
      before  == IF rising THEN 0 ELSE b.scan_count
      scans   == IF scanned /\ before < MaxAge THEN before + 1 ELSE b.scan_count
      elapsed == CASE scanned -> scans   \* one cycle_time_ms a scan
                   [] ~scanned /\ start # NotStarted -> start
                   [] OTHER -> b.et_ms
  IN  IF b.input
      THEN [b EXCEPT !.start = start, !.scan_count = scans,
                     !.output = @ \/ elapsed >= b.pt_ms,
                     !.et_ms = IF elapsed >= b.pt_ms THEN b.pt_ms ELSE elapsed,
                     !.prev_input = TRUE]
      ELSE [b EXCEPT !.start = NotStarted, !.scan_count = 0, !.et_ms = 0,
                     !.output = FALSE, !.prev_input = FALSE]

ExecuteTOF(b) ==
  LET start   == IF b.prev_input THEN 0 ELSE b.start
      expired == start # NotStarted /\ start >= b.pt_ms
  IN  CASE b.input ->
             [b EXCEPT !.output = TRUE, !.start = NotStarted, !.et_ms = 0,
                       !.prev_input = TRUE]
        [] ~b.input /\ start = NotStarted ->
             [b EXCEPT !.et_ms = IF b.output THEN @ ELSE 0]
        [] OTHER ->
             [b EXCEPT !.start = IF expired THEN NotStarted ELSE start,
                       !.et_ms = IF expired THEN b.pt_ms ELSE start,
                       !.output = @ /\ ~expired, !.prev_input = FALSE]

ExecuteTP(b) ==
  LET rising  == b.input /\ ~b.prev_input /\ ~b.pulse_active
      active  == b.pulse_active \/ rising
      start   == IF rising THEN 0 ELSE b.start
      expired == active /\ start # NotStarted /\ start >= b.pt_ms
  IN  [b EXCEPT !.start = IF expired THEN NotStarted ELSE start,
                !.pulse_active = active /\ ~expired,
                !.output = (@ \/ rising) /\ ~expired,
                !.et_ms = CASE ~active -> 0
                            [] expired -> b.pt_ms
                            [] active /\ start = NotStarted -> @
                            [] OTHER -> start,
                !.prev_input = b.input]

(* A count stops at the ends of i32.                                       *)
Up(n)   == IF n < MaxCount THEN n + 1 ELSE n
Down(n) == IF n > -MaxCount THEN n - 1 ELSE n

ExecuteCTU(b) ==
  LET cv == CASE b.reset -> 0
              [] ~b.reset /\ b.cu /\ ~b.prev_cu -> Up(b.cv)
              [] OTHER -> b.cv
  IN  [b EXCEPT !.cv = cv, !.q = cv >= b.pv, !.prev_cu = b.cu]

ExecuteCTD(b) ==
  LET cv == CASE b.load -> b.pv
              [] ~b.load /\ b.cd /\ ~b.prev_cd -> Down(b.cv)
              [] OTHER -> b.cv
  IN  [b EXCEPT !.cv = cv, !.q = cv <= 0, !.prev_cd = b.cd]

ExecuteCTUD(b) ==
  LET up == IF b.cu /\ ~b.prev_cu THEN Up(b.cv) ELSE b.cv
      cv == CASE b.reset -> 0
              [] ~b.reset /\ b.load -> b.pv
              [] OTHER -> IF b.cd /\ ~b.prev_cd THEN Down(up) ELSE up
  IN  [b EXCEPT !.cv = cv, !.qu = cv >= b.pv, !.qd = cv <= 0,
                !.prev_cu = b.cu, !.prev_cd = b.cd]

ExecuteR_TRIG(b) == [b EXCEPT !.q = b.clk /\ ~b.prev_clk, !.prev_clk = b.clk]
ExecuteF_TRIG(b) == [b EXCEPT !.q = ~b.clk /\ b.prev_clk, !.prev_clk = b.clk]

Execute(b) ==
  CASE b.type = "TON"    -> ExecuteTON(b)
    [] b.type = "TOF"    -> ExecuteTOF(b)
    [] b.type = "TP"     -> ExecuteTP(b)
    [] b.type = "CTU"    -> ExecuteCTU(b)
    [] b.type = "CTD"    -> ExecuteCTD(b)
    [] b.type = "CTUD"   -> ExecuteCTUD(b)
    [] b.type = "R_TRIG" -> ExecuteR_TRIG(b)
    [] b.type = "F_TRIG" -> ExecuteF_TRIG(b)

(* The inputs set_input takes; it ignores the others.                      *)
Inputs(type) ==
  CASE type = "TON"  -> {"input", "pt_ms", "mode"}
    [] type \in {"TOF", "TP"} -> {"input", "pt_ms"}
    [] type = "CTU"  -> {"cu", "reset", "pv"}
    [] type = "CTD"  -> {"cd", "load", "pv"}
    [] type = "CTUD" -> {"cu", "cd", "reset", "load", "pv"}
    [] type \in Triggers -> {"clk"}

(* A value of another kind is not taken.  A preset is a number of its      *)
(* width here; pv is cut to i32 in the code.                               *)
Takes(input, v) ==
  CASE input = "pt_ms" -> v \in 0..MaxAge
    [] input = "pv"    -> v \in -MaxCount..MaxCount
    [] input = "mode"  -> v \in Modes
    [] OTHER           -> v \in BOOLEAN

-----------------------------------------------------------------------------
(* Variant of Serialized: the last level of an edge trigger is not saved.  *)
SerializedWithoutEdges(b) ==
  [f \in DOMAIN b \ {"type", "start", "prev_clk"} |-> b[f]]

(* serialize_state: every field but start_instant.  The type is a column   *)
(* of the row, which nothing reads back.                                   *)
Serialized(b) == [f \in DOMAIN b \ {"type", "start"} |-> b[f]]

(* A timer was in the middle of its time, so deserialize_state gives it a  *)
(* start again.                                                            *)
MidTime(b) == b.et_ms > 0 /\ b.et_ms < b.pt_ms

ResumesTON(b) == b.mode = "wall_clock" /\ b.input /\ MidTime(b)
ResumesTOF(b) == ~b.input /\ b.output /\ MidTime(b)

(* Variant of ResumesTP: a pulse resumes only while its input is on.       *)
ResumesTPWithInput(b) == b.input /\ MidTime(b)

ResumesTP(b) == b.pulse_active /\ MidTime(b)

Resumes(b) ==
  CASE b.type = "TON" -> ResumesTON(b)
    [] b.type = "TOF" -> ResumesTOF(b)
    [] b.type = "TP"  -> ResumesTP(b)

Started(b) == [b EXCEPT !.start = IF Resumes(b) THEN b.et_ms ELSE @]

(* deserialize_state takes the fields it knows from the row and leaves the *)
(* others, so it also takes those of a row that another type wrote.        *)
Deserialized(b, row) ==
  LET known == [f \in DOMAIN b |-> IF f \in DOMAIN row THEN row[f] ELSE b[f]]
  IN  IF b.type \in Timers THEN Started(known) ELSE known

New(type, preset) ==
  CASE type = "TON"    -> NewTON(preset)
    [] type = "TOF"    -> NewTOF(preset)
    [] type = "TP"     -> NewTP(preset)
    [] type = "CTU"    -> NewCTU(preset)
    [] type = "CTD"    -> NewCTD(preset)
    [] type = "CTUD"   -> NewCTUD(preset)
    [] type \in Triggers -> NewTrigger(type)

Preset(b) == CASE b.type \in Timers -> b.pt_ms
               [] b.type \in Counters -> b.pv
               [] b.type \in Triggers -> 0

(* The fields of a block; what one can hold is a Value.                    *)
Fields(type) == DOMAIN New(type, 0)
Value == BOOLEAN \cup Int \cup Types \cup Modes

(* reset: as new, with the preset and the mode it has.                     *)
Reset(b) == LET new == New(b.type, Preset(b))
            IN  IF b.type = "TON" THEN [new EXCEPT !.mode = b.mode] ELSE new

(* Time passes for a timer that has a start; no preset tells ages from     *)
(* MaxAge on apart.                                                        *)
Aged(b) ==
  IF b.type \in Timers /\ b.start # NotStarted /\ b.start < MaxAge
  THEN [b EXCEPT !.start = @ + 1] ELSE b

=============================================================================
