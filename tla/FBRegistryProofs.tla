-------------------------- MODULE FBRegistryProofs --------------------------
(***************************************************************************)
(* Proofs about FunctionBlocks and FBRegistry for any programs, signals    *)
(* and restarts: blocks and rows keep their types, no edge is counted      *)
(* twice, and timers neither rush nor stop.                                *)
(***************************************************************************)
EXTENDS FBRegistry, TLAPS

(* What a field holds, whatever type of block has it.                      *)
Kind(f) ==
  CASE f = "type" -> Types
    [] f \in {"pt_ms", "et_ms", "scan_count"} -> 0..MaxAge
    [] f = "start" -> NotStarted..MaxAge
    [] f \in {"pv", "cv"} -> -MaxCount..MaxCount
    [] f = "mode" -> Modes
    [] OTHER -> BOOLEAN

IsBlock(b) ==
  /\ b.type \in Types
  /\ b = [f \in Fields(b.type) |-> b[f]]
  /\ \A f \in Fields(b.type) : b[f] \in Kind(f)

Stored(type) == Fields(type) \ {"type", "start"}

IsRow(r, type) ==
  /\ r = [f \in Stored(type) |-> r[f]]
  /\ \A f \in Stored(type) : r[f] \in Kind(f)

(* After a scan a block remembers the inputs it has.                       *)
Remembers(b) ==
  /\ "input" \in DOMAIN b => b.prev_input = b.input
  /\ "cu" \in DOMAIN b => b.prev_cu = b.cu
  /\ "clk" \in DOMAIN b => b.prev_clk = b.clk

(* The blocks of each type, as records.                                    *)
TONs == [type: {"TON"}, pt_ms: 0..MaxAge, et_ms: 0..MaxAge, input: BOOLEAN,
         output: BOOLEAN, prev_input: BOOLEAN, start: NotStarted..MaxAge,
         mode: Modes, scan_count: 0..MaxAge]
TOFs == [type: {"TOF"}, pt_ms: 0..MaxAge, et_ms: 0..MaxAge, input: BOOLEAN,
         output: BOOLEAN, prev_input: BOOLEAN, start: NotStarted..MaxAge]
TPs  == [type: {"TP"}, pt_ms: 0..MaxAge, et_ms: 0..MaxAge, input: BOOLEAN,
         output: BOOLEAN, prev_input: BOOLEAN, start: NotStarted..MaxAge,
         pulse_active: BOOLEAN]
CTUs == [type: {"CTU"}, pv: -MaxCount..MaxCount, cv: -MaxCount..MaxCount,
         cu: BOOLEAN, reset: BOOLEAN, q: BOOLEAN, prev_cu: BOOLEAN]
CTDs == [type: {"CTD"}, pv: -MaxCount..MaxCount, cv: -MaxCount..MaxCount,
         cd: BOOLEAN, load: BOOLEAN, q: BOOLEAN, prev_cd: BOOLEAN]
CTUDs == [type: {"CTUD"}, pv: -MaxCount..MaxCount, cv: -MaxCount..MaxCount,
          cu: BOOLEAN, cd: BOOLEAN, reset: BOOLEAN, load: BOOLEAN,
          qu: BOOLEAN, qd: BOOLEAN, prev_cu: BOOLEAN, prev_cd: BOOLEAN]
TRIGs == [type: Triggers, clk: BOOLEAN, q: BOOLEAN, prev_clk: BOOLEAN]

-----------------------------------------------------------------------------
LEMMA FieldsOf ==
  /\ Fields("TON") = {"type", "pt_ms", "et_ms", "input", "output", "prev_input",
                      "start", "mode", "scan_count"}
  /\ Fields("TOF") = {"type", "pt_ms", "et_ms", "input", "output", "prev_input", "start"}
  /\ Fields("TP") = {"type", "pt_ms", "et_ms", "input", "output", "prev_input",
                     "start", "pulse_active"}
  /\ Fields("CTU") = {"type", "pv", "cv", "cu", "reset", "q", "prev_cu"}
  /\ Fields("CTD") = {"type", "pv", "cv", "cd", "load", "q", "prev_cd"}
  /\ Fields("CTUD") = {"type", "pv", "cv", "cu", "cd", "reset", "load", "qu", "qd",
                       "prev_cu", "prev_cd"}
  /\ Fields("R_TRIG") = {"type", "clk", "q", "prev_clk"}
  /\ Fields("F_TRIG") = {"type", "clk", "q", "prev_clk"}
BY DEF Fields, New, NewTON, NewTOF, NewTP, NewCTU, NewCTD, NewCTUD, NewTrigger,
       Timers, Counters, Triggers

\* A block is a record of its type.
LEMMA Records ==
  ASSUME NEW b, IsBlock(b)
  PROVE  /\ b.type = "TON" => b \in TONs
         /\ b.type = "TOF" => b \in TOFs
         /\ b.type = "TP" => b \in TPs
         /\ b.type = "CTU" => b \in CTUs
         /\ b.type = "CTD" => b \in CTDs
         /\ b.type = "CTUD" => b \in CTUDs
         /\ b.type \in Triggers => b \in TRIGs
<1>1. b.type = "TON" => b \in TONs
  BY FieldsOf DEF IsBlock, TONs, Kind
<1>2. b.type = "TOF" => b \in TOFs
  BY FieldsOf DEF IsBlock, TOFs, Kind
<1>3. b.type = "TP" => b \in TPs
  BY FieldsOf DEF IsBlock, TPs, Kind
<1>4. b.type = "CTU" => b \in CTUs
  BY FieldsOf DEF IsBlock, CTUs, Kind
<1>5. b.type = "CTD" => b \in CTDs
  BY FieldsOf DEF IsBlock, CTDs, Kind
<1>6. b.type = "CTUD" => b \in CTUDs
  BY FieldsOf DEF IsBlock, CTUDs, Kind
<1>7. b.type \in Triggers => b \in TRIGs
  BY FieldsOf DEF IsBlock, TRIGs, Kind, Triggers
<1>8. QED BY <1>1, <1>2, <1>3, <1>4, <1>5, <1>6, <1>7

LEMMA Blocks ==
  ASSUME NEW b
  PROVE  /\ b \in TONs => IsBlock(b) /\ b.type = "TON"
         /\ b \in TOFs => IsBlock(b) /\ b.type = "TOF"
         /\ b \in TPs => IsBlock(b) /\ b.type = "TP"
         /\ b \in CTUs => IsBlock(b) /\ b.type = "CTU"
         /\ b \in CTDs => IsBlock(b) /\ b.type = "CTD"
         /\ b \in CTUDs => IsBlock(b) /\ b.type = "CTUD"
         /\ b \in TRIGs => IsBlock(b) /\ b.type \in Triggers
<1>1. b \in TONs => IsBlock(b) /\ b.type = "TON"
  BY FieldsOf DEF IsBlock, TONs, Kind, Types, Timers
<1>2. b \in TOFs => IsBlock(b) /\ b.type = "TOF"
  BY FieldsOf DEF IsBlock, TOFs, Kind, Types, Timers
<1>3. b \in TPs => IsBlock(b) /\ b.type = "TP"
  BY FieldsOf DEF IsBlock, TPs, Kind, Types, Timers
<1>4. b \in CTUs => IsBlock(b) /\ b.type = "CTU"
  BY FieldsOf DEF IsBlock, CTUs, Kind, Types, Counters
<1>5. b \in CTDs => IsBlock(b) /\ b.type = "CTD"
  BY FieldsOf DEF IsBlock, CTDs, Kind, Types, Counters
<1>6. b \in CTUDs => IsBlock(b) /\ b.type = "CTUD"
  BY FieldsOf DEF IsBlock, CTUDs, Kind, Types, Counters
<1>7. b \in TRIGs => IsBlock(b) /\ b.type \in Triggers
  BY FieldsOf DEF IsBlock, TRIGs, Kind, Types, Triggers
<1>8. QED BY <1>1, <1>2, <1>3, <1>4, <1>5, <1>6, <1>7

-----------------------------------------------------------------------------
(* execute, type by type: what it leaves of a block.                       *)

LEMMA InRange == NotStarted \in NotStarted..MaxAge /\ 0 \in 0..MaxAge /\ 0 # NotStarted
BY BlockAssumption DEF NotStarted

\* The elapsed time of a TON is capped at its preset, and the output comes on
\* only then.
LEMMA RunsTON ==
  ASSUME NEW b \in TONs
  PROVE  LET e == ExecuteTON(b)
             start == IF b.prev_input THEN b.start ELSE 0
             elapsed == IF start = NotStarted THEN b.et_ms ELSE start
         IN  /\ e \in TONs /\ e.pt_ms = b.pt_ms /\ e.mode = b.mode
             /\ e.prev_input = b.input /\ e.input = b.input
             /\ e.et_ms <= e.pt_ms
             /\ ~b.input => ~e.output
             /\ b.input /\ b.mode = "wall_clock" =>
                  /\ e.start = start
                  /\ e.output = (b.output \/ elapsed >= b.pt_ms)
                  /\ e.et_ms = IF elapsed >= b.pt_ms THEN b.pt_ms ELSE elapsed
<1> DEFINE rising  == ~b.prev_input
           scanned == b.mode = "scan_cycle"
           start   == IF rising /\ ~scanned THEN 0 ELSE b.start
           before  == IF rising THEN 0 ELSE b.scan_count
           scans   == IF scanned /\ before < MaxAge THEN before + 1 ELSE b.scan_count
           elapsed == CASE scanned -> scans
                        [] ~scanned /\ start # NotStarted -> start
                        [] OTHER -> b.et_ms
           on  == [b EXCEPT !.start = start, !.scan_count = scans,
                     !.output = @ \/ elapsed >= b.pt_ms,
                     !.et_ms = IF elapsed >= b.pt_ms THEN b.pt_ms ELSE elapsed,
                     !.prev_input = TRUE]
           off == [b EXCEPT !.start = NotStarted, !.scan_count = 0, !.et_ms = 0,
                     !.output = FALSE, !.prev_input = FALSE]
<1>1. start \in NotStarted..MaxAge
  BY BlockAssumption DEF TONs, NotStarted
<1>2. scans \in 0..MaxAge
  BY BlockAssumption DEF TONs, NotStarted
<1>3. elapsed \in 0..MaxAge
  <2>1. CASE scanned
    BY <2>1, <1>2
  <2>2. CASE ~scanned /\ start # NotStarted
    BY <2>2, <1>1 DEF NotStarted
  <2>3. CASE ~scanned /\ start = NotStarted
    BY <2>3 DEF TONs
  <2>4. QED BY <2>1, <2>2, <2>3
<1>4. b.mode = "wall_clock" =>
        /\ start = IF b.prev_input THEN b.start ELSE 0
        /\ elapsed = IF start = NotStarted THEN b.et_ms ELSE start
  BY DEF NotStarted
<1>5. ExecuteTON(b) = IF b.input THEN on ELSE off
  BY DEF ExecuteTON
<1>6. CASE b.input
  <2> HIDE DEF start, scans, elapsed
  <2>1. ExecuteTON(b) = on
    BY <1>5, <1>6
  <2> HIDE DEF on
  <2>2. /\ on \in TONs /\ on.pt_ms = b.pt_ms /\ on.mode = b.mode /\ on.prev_input = TRUE
        /\ on.input = b.input /\ on.start = start
        /\ on.output = (b.output \/ elapsed >= b.pt_ms)
        /\ on.et_ms = IF elapsed >= b.pt_ms THEN b.pt_ms ELSE elapsed
    BY <1>1, <1>2, <1>3 DEF TONs, on
  <2>3. on.et_ms <= on.pt_ms
    BY <2>2, <1>3 DEF TONs
  <2>4. on.prev_input = b.input
    BY <2>2, <1>6 DEF TONs
  <2>5. QED BY <1>4, <1>6, <2>1, <2>2, <2>3, <2>4
<1>7. CASE ~b.input
  <2> HIDE DEF start, scans, elapsed
  <2>1. ExecuteTON(b) = off
    BY <1>5, <1>7
  <2> HIDE DEF off
  <2>2. /\ off \in TONs /\ off.pt_ms = b.pt_ms /\ off.mode = b.mode /\ off.prev_input = FALSE
        /\ off.input = b.input /\ ~off.output /\ off.et_ms = 0
    BY InRange DEF TONs, off
  <2>3. off.et_ms <= off.pt_ms /\ off.prev_input = b.input
    BY <2>2, <1>7 DEF TONs
  <2>4. QED BY <1>7, <2>1, <2>2, <2>3
<1>8. QED BY <1>6, <1>7

\* A TOF that is on without its input has a start and is short of its preset.
LEMMA RunsTOF ==
  ASSUME NEW b \in TOFs
  PROVE  LET e == ExecuteTOF(b)
         IN  /\ e \in TOFs /\ e.input = b.input
             /\ b.start = NotStarted /\ ~b.prev_input /\ ~b.input => ~e.prev_input
             /\ e.prev_input = b.input
             /\ ~b.output \/ b.prev_input \/ b.start # NotStarted \/ ~e.output =>
                  /\ e.et_ms <= e.pt_ms
                  /\ e.output /\ ~e.prev_input => e.start # NotStarted /\ e.et_ms < e.pt_ms
<1> DEFINE start   == IF b.prev_input THEN 0 ELSE b.start
           expired == start # NotStarted /\ start >= b.pt_ms
           on   == [b EXCEPT !.output = TRUE, !.start = NotStarted, !.et_ms = 0,
                             !.prev_input = TRUE]
           rest == [b EXCEPT !.et_ms = IF b.output THEN @ ELSE 0]
           off  == [b EXCEPT !.start = IF expired THEN NotStarted ELSE start,
                             !.et_ms = IF expired THEN b.pt_ms ELSE start,
                             !.output = @ /\ ~expired, !.prev_input = FALSE]
<1>1. start \in NotStarted..MaxAge
  BY BlockAssumption DEF TOFs, NotStarted
<1>2. CASE b.input
  <2>1. ExecuteTOF(b) = on
    BY <1>2 DEF ExecuteTOF
  <2> HIDE DEF on
  <2>2. /\ on \in TOFs /\ on.input = b.input /\ on.prev_input = TRUE /\ on.et_ms = 0
    BY InRange DEF TOFs, on
  <2>3. on.et_ms <= on.pt_ms
    BY <2>2 DEF TOFs
  <2>4. on.prev_input = b.input
    BY <2>2, <1>2 DEF TOFs
  <2>5. QED BY <1>2, <2>1, <2>2, <2>3, <2>4
<1>3. CASE ~b.input /\ start = NotStarted
  <2>1. ExecuteTOF(b) = rest
    BY <1>3 DEF ExecuteTOF
  <2>2. ~b.prev_input /\ b.start = NotStarted
    BY <1>3 DEF NotStarted
  <2> HIDE DEF rest
  <2>3. /\ rest \in TOFs /\ rest.input = b.input /\ rest.prev_input = b.prev_input
        /\ rest.output = b.output /\ (~b.output => rest.et_ms = 0)
    BY InRange DEF TOFs, rest
  <2>4. rest.prev_input = b.input
    BY <2>2, <2>3, <1>3 DEF TOFs
  <2>5. ~b.output => rest.et_ms <= rest.pt_ms
    BY <2>3 DEF TOFs
  <2>6. QED BY <1>3, <2>1, <2>2, <2>3, <2>4, <2>5
<1>4. CASE ~b.input /\ start # NotStarted
  <2>1. ExecuteTOF(b) = off
    BY <1>4 DEF ExecuteTOF
  <2>2. start \in 0..MaxAge
    BY <1>1, <1>4 DEF NotStarted
  <2> HIDE DEF off, start, expired
  <2>3. /\ off \in TOFs /\ off.input = b.input /\ off.prev_input = FALSE
        /\ off.pt_ms = b.pt_ms
        /\ off.start = IF expired THEN NotStarted ELSE start
        /\ off.et_ms = IF expired THEN b.pt_ms ELSE start
        /\ off.output = (b.output /\ ~expired)
    <3>1. (b.output /\ ~expired) \in BOOLEAN
      OBVIOUS
    <3>2. (IF expired THEN NotStarted ELSE start) \in NotStarted..MaxAge
      BY <1>1, BlockAssumption DEF NotStarted
    <3>3. (IF expired THEN b.pt_ms ELSE start) \in 0..MaxAge
      BY <2>2 DEF TOFs
    <3>4. QED BY <3>1, <3>2, <3>3 DEF TOFs, off
  <2>4. ~expired => start < b.pt_ms
    BY <2>2, <1>4 DEF TOFs, expired
  <2>5. b.pt_ms \in 0..MaxAge
    BY DEF TOFs
  <2>6. off.et_ms <= off.pt_ms
    BY <2>2, <2>3, <2>4, <2>5
  <2>7. off.output => off.start # NotStarted /\ off.et_ms < off.pt_ms
    BY <2>2, <2>3, <2>4, <1>4
  <2>8. off.prev_input = b.input
    BY <2>3, <1>4 DEF TOFs
  <2>9. QED BY <1>4, <2>1, <2>3, <2>6, <2>7, <2>8
<1>5. QED BY <1>2, <1>3, <1>4

\* A pulse has a start and is short of its preset, and the output is the pulse.
LEMMA RunsTP ==
  ASSUME NEW b \in TPs
  PROVE  LET e == ExecuteTP(b)
         IN  /\ e \in TPs /\ e.input = b.input /\ e.prev_input = b.input
             /\ (b.pulse_active => b.start # NotStarted) \/ ~e.pulse_active =>
                  /\ e.et_ms <= e.pt_ms
                  /\ e.pulse_active => e.start # NotStarted /\ e.et_ms < e.pt_ms
             /\ b.output = b.pulse_active => e.output = e.pulse_active
<1> DEFINE rising  == b.input /\ ~b.prev_input /\ ~b.pulse_active
           active  == b.pulse_active \/ rising
           start   == IF rising THEN 0 ELSE b.start
           expired == active /\ start # NotStarted /\ start >= b.pt_ms
           et == CASE ~active -> 0
                   [] expired -> b.pt_ms
                   [] active /\ start = NotStarted -> b.et_ms
                   [] OTHER -> start
           e  == ExecuteTP(b)
<1>1. start \in NotStarted..MaxAge /\ b.pt_ms \in 0..MaxAge /\ b.et_ms \in 0..MaxAge
  BY BlockAssumption DEF TPs, NotStarted
<1>2. /\ ~active => et = 0
      /\ expired => et = b.pt_ms
      /\ active /\ ~expired /\ start = NotStarted => et = b.et_ms
      /\ active /\ ~expired /\ start # NotStarted => et = start /\ start < b.pt_ms
  <2> HIDE DEF start, rising
  <2>1. active /\ ~expired /\ start # NotStarted => start < b.pt_ms
    BY <1>1 DEF NotStarted
  <2>2. expired => active /\ start # NotStarted
    OBVIOUS
  <2> HIDE DEF active, expired
  <2>3. QED BY <2>1, <2>2
<1>3. et \in 0..MaxAge
  <2> HIDE DEF et, active, expired, start
  <2>1. start # NotStarted => start \in 0..MaxAge
    BY <1>1 DEF NotStarted
  <2>2. QED BY <2>1, <1>1, <1>2, InRange
<1>4. e = [b EXCEPT !.start = IF expired THEN NotStarted ELSE start,
                    !.pulse_active = active /\ ~expired,
                    !.output = (@ \/ rising) /\ ~expired,
                    !.et_ms = et,
                    !.prev_input = b.input]
  BY DEF ExecuteTP
<1>5. rising => active /\ start = 0
  OBVIOUS
<1>6. ~rising => active = b.pulse_active /\ start = b.start
  BY DEF TPs
<1> HIDE DEF et, e, expired, start, active, rising
<1>7. /\ (IF expired THEN NotStarted ELSE start) \in NotStarted..MaxAge
      /\ (active /\ ~expired) \in BOOLEAN /\ ((b.output \/ rising) /\ ~expired) \in BOOLEAN
  BY <1>1, BlockAssumption DEF NotStarted
<1>8. /\ e \in TPs /\ e.input = b.input /\ e.prev_input = b.input /\ e.pt_ms = b.pt_ms
      /\ e.start = IF expired THEN NotStarted ELSE start
      /\ e.pulse_active = (active /\ ~expired)
      /\ e.output = ((b.output \/ rising) /\ ~expired)
      /\ e.et_ms = et
  BY <1>3, <1>4, <1>7 DEF TPs
<1>9. (b.pulse_active => b.start # NotStarted) \/ ~e.pulse_active =>
         /\ e.et_ms <= e.pt_ms
         /\ e.pulse_active => e.start # NotStarted /\ e.et_ms < e.pt_ms
  <2>1. CASE e.pulse_active /\ (b.pulse_active => b.start # NotStarted)
    <3>1. active /\ ~expired
      BY <2>1, <1>8
    <3>2. start # NotStarted
      BY <2>1, <3>1, <1>5, <1>6, InRange
    <3>3. QED BY <3>1, <3>2, <1>2, <1>8, <1>1
  <2>2. CASE ~e.pulse_active
    <3>1. ~active \/ expired
      BY <2>2, <1>8
    <3>2. et <= b.pt_ms
      BY <3>1, <1>1, <1>2
    <3>3. QED BY <2>2, <3>2, <1>8
  <2>3. QED BY <2>1, <2>2
<1>10. b.output = b.pulse_active => e.output = e.pulse_active
  BY <1>5, <1>6, <1>8 DEF TPs
<1>11. QED BY <1>8, <1>9, <1>10 DEF e

Due(c) == IF c THEN 1 ELSE 0

LEMMA Ends ==
  ASSUME NEW n \in -MaxCount..MaxCount
  PROVE  /\ Up(n) \in -MaxCount..MaxCount /\ Up(n) <= n + 1
         /\ Down(n) \in -MaxCount..MaxCount
         /\ 0 \in -MaxCount..MaxCount
BY BlockAssumption DEF Up, Down

\* A CTU counts at most one, and only when its input has come on.
LEMMA RunsCTU ==
  ASSUME NEW b \in CTUs
  PROVE  LET e == ExecuteCTU(b)
         IN  /\ e \in CTUs /\ e.cu = b.cu /\ e.prev_cu = b.cu
             /\ e.cv = 0 \/ e.cv <= b.cv + Due(b.cu /\ ~b.prev_cu)
<1> DEFINE cv == CASE b.reset -> 0
                   [] ~b.reset /\ b.cu /\ ~b.prev_cu -> Up(b.cv)
                   [] OTHER -> b.cv
           e  == [b EXCEPT !.cv = cv, !.q = cv >= b.pv, !.prev_cu = b.cu]
<1>1. ExecuteCTU(b) = e
  BY DEF ExecuteCTU
<1>2. b.cv \in -MaxCount..MaxCount /\ b.pv \in -MaxCount..MaxCount
  BY DEF CTUs
<1>3. cv = 0 \/ (cv = Up(b.cv) /\ b.cu /\ ~b.prev_cu) \/ cv = b.cv
  OBVIOUS
<1> HIDE DEF cv
<1>4. cv \in -MaxCount..MaxCount /\ (cv = 0 \/ cv <= b.cv + Due(b.cu /\ ~b.prev_cu))
  BY <1>2, <1>3, Ends, BlockAssumption DEF Due
<1>5. (cv >= b.pv) \in BOOLEAN
  OBVIOUS
<1>6. e \in CTUs /\ e.cu = b.cu /\ e.prev_cu = b.cu /\ e.cv = cv
  BY <1>4, <1>5 DEF CTUs
<1> HIDE DEF e
<1>7. QED BY <1>1, <1>4, <1>6

LEMMA RunsCTD ==
  ASSUME NEW b \in CTDs
  PROVE  ExecuteCTD(b) \in CTDs
<1> DEFINE cv == CASE b.load -> b.pv
                   [] ~b.load /\ b.cd /\ ~b.prev_cd -> Down(b.cv)
                   [] OTHER -> b.cv
<1>1. ExecuteCTD(b) = [b EXCEPT !.cv = cv, !.q = cv <= 0, !.prev_cd = b.cd]
  BY DEF ExecuteCTD
<1>2. b.cv \in -MaxCount..MaxCount /\ b.pv \in -MaxCount..MaxCount
  BY DEF CTDs
<1>3. cv = b.pv \/ cv = Down(b.cv) \/ cv = b.cv
  OBVIOUS
<1> HIDE DEF cv
<1>4. cv \in -MaxCount..MaxCount /\ (cv <= 0) \in BOOLEAN
  BY <1>2, <1>3, Ends
<1>5. QED BY <1>1, <1>4 DEF CTDs

LEMMA RunsCTUD ==
  ASSUME NEW b \in CTUDs
  PROVE  LET e == ExecuteCTUD(b)
         IN  e \in CTUDs /\ e.cu = b.cu /\ e.prev_cu = b.cu
<1> DEFINE up == IF b.cu /\ ~b.prev_cu THEN Up(b.cv) ELSE b.cv
           cv == CASE b.reset -> 0
                   [] ~b.reset /\ b.load -> b.pv
                   [] OTHER -> IF b.cd /\ ~b.prev_cd THEN Down(up) ELSE up
<1>1. ExecuteCTUD(b) = [b EXCEPT !.cv = cv, !.qu = cv >= b.pv, !.qd = cv <= 0,
                                 !.prev_cu = b.cu, !.prev_cd = b.cd]
  BY DEF ExecuteCTUD
<1>2. b.cv \in -MaxCount..MaxCount /\ b.pv \in -MaxCount..MaxCount
  BY DEF CTUDs
<1>3. up \in -MaxCount..MaxCount
  BY <1>2, Ends
<1>4. cv = 0 \/ cv = b.pv \/ cv = Down(up) \/ cv = up
  BY DEF CTUDs
<1> HIDE DEF cv, up
<1>5. cv \in -MaxCount..MaxCount /\ (cv >= b.pv) \in BOOLEAN /\ (cv <= 0) \in BOOLEAN
  BY <1>2, <1>3, <1>4, Ends
<1>6. QED BY <1>1, <1>5 DEF CTUDs

LEMMA RunsTRIG ==
  ASSUME NEW b \in TRIGs
  PROVE  /\ LET e == ExecuteR_TRIG(b)
            IN  /\ e \in TRIGs /\ e.type = b.type /\ e.clk = b.clk /\ e.prev_clk = b.clk
                /\ e.q = (b.clk /\ ~b.prev_clk)
         /\ LET e == ExecuteF_TRIG(b)
            IN  e \in TRIGs /\ e.type = b.type /\ e.clk = b.clk /\ e.prev_clk = b.clk
<1>1. (b.clk /\ ~b.prev_clk) \in BOOLEAN /\ (~b.clk /\ b.prev_clk) \in BOOLEAN
  OBVIOUS
<1>2. QED BY <1>1 DEF TRIGs, ExecuteR_TRIG, ExecuteF_TRIG

\* Execute is the execute of the block's type.
LEMMA ExecuteOf ==
  ASSUME NEW b
  PROVE  /\ b.type = "TON" => Execute(b) = ExecuteTON(b)
         /\ b.type = "TOF" => Execute(b) = ExecuteTOF(b)
         /\ b.type = "TP" => Execute(b) = ExecuteTP(b)
         /\ b.type = "CTU" => Execute(b) = ExecuteCTU(b)
         /\ b.type = "CTD" => Execute(b) = ExecuteCTD(b)
         /\ b.type = "CTUD" => Execute(b) = ExecuteCTUD(b)
         /\ b.type = "R_TRIG" => Execute(b) = ExecuteR_TRIG(b)
         /\ b.type = "F_TRIG" => Execute(b) = ExecuteF_TRIG(b)
BY DEF Execute

\* What a block remembers is in the fields of its type.
LEMMA RememberedIn ==
  ASSUME NEW b, IsBlock(b)
  PROVE  /\ "input" \in DOMAIN b <=> b.type \in Timers
         /\ "cu" \in DOMAIN b <=> b.type \in {"CTU", "CTUD"}
         /\ "clk" \in DOMAIN b <=> b.type \in Triggers
<1>1. DOMAIN b = Fields(b.type) /\ b.type \in Types
  BY DEF IsBlock
<1>2. QED BY <1>1, FieldsOf DEF Types, Timers, Counters, Triggers

\* A block that was executed is a block of its type that remembers its inputs.
LEMMA Executed ==
  ASSUME NEW b, IsBlock(b)
  PROVE  /\ IsBlock(Execute(b)) /\ Execute(b).type = b.type
         /\ Remembers(Execute(b))
<1> DEFINE e == Execute(b)
<1>1. /\ IsBlock(e) /\ e.type = b.type
      /\ b.type \in Timers => e.prev_input = e.input
      /\ b.type \in {"CTU", "CTUD"} => e.prev_cu = e.cu
      /\ b.type \in Triggers => e.prev_clk = e.clk
  <2> HIDE DEF e
  <2>1. CASE b.type = "TON"
    <3>1. b \in TONs /\ e = ExecuteTON(b)
      BY <2>1, Records, ExecuteOf DEF e
    <3>2. e \in TONs /\ e.prev_input = e.input
      BY <3>1, RunsTON
    <3>3. QED BY <2>1, <3>2, Blocks DEF Timers, Counters, Triggers
  <2>2. CASE b.type = "TOF"
    <3>1. b \in TOFs /\ e = ExecuteTOF(b)
      BY <2>2, Records, ExecuteOf DEF e
    <3>2. e \in TOFs /\ e.prev_input = e.input
      BY <3>1, RunsTOF
    <3>3. QED BY <2>2, <3>2, Blocks DEF Timers, Counters, Triggers
  <2>3. CASE b.type = "TP"
    <3>1. b \in TPs /\ e = ExecuteTP(b)
      BY <2>3, Records, ExecuteOf DEF e
    <3>2. e \in TPs /\ e.prev_input = e.input
      BY <3>1, RunsTP
    <3>3. QED BY <2>3, <3>2, Blocks DEF Timers, Counters, Triggers
  <2>4. CASE b.type = "CTU"
    <3>1. b \in CTUs /\ e = ExecuteCTU(b)
      BY <2>4, Records, ExecuteOf DEF e
    <3>2. e \in CTUs /\ e.prev_cu = e.cu
      BY <3>1, RunsCTU
    <3>3. QED BY <2>4, <3>2, Blocks DEF Timers, Counters, Triggers
  <2>5. CASE b.type = "CTD"
    <3>1. b \in CTDs /\ e = ExecuteCTD(b)
      BY <2>5, Records, ExecuteOf DEF e
    <3>2. e \in CTDs
      BY <3>1, RunsCTD
    <3>3. QED BY <2>5, <3>2, Blocks DEF Timers, Counters, Triggers
  <2>6. CASE b.type = "CTUD"
    <3>1. b \in CTUDs /\ e = ExecuteCTUD(b)
      BY <2>6, Records, ExecuteOf DEF e
    <3>2. e \in CTUDs /\ e.prev_cu = e.cu
      BY <3>1, RunsCTUD
    <3>3. QED BY <2>6, <3>2, Blocks DEF Timers, Counters, Triggers
  <2>7. CASE b.type \in Triggers
    <3>1. b \in TRIGs /\ (e = ExecuteR_TRIG(b) \/ e = ExecuteF_TRIG(b))
      BY <2>7, Records, ExecuteOf DEF e, Triggers
    <3>2. e \in TRIGs /\ e.type = b.type /\ e.prev_clk = e.clk
      BY <3>1, RunsTRIG
    <3>3. QED BY <2>7, <3>2, Blocks DEF Timers, Counters, Triggers
  <2>8. QED BY <2>1, <2>2, <2>3, <2>4, <2>5, <2>6, <2>7
            DEF IsBlock, Types, Timers, Counters, Triggers
<1>2. QED BY <1>1, RememberedIn DEF Remembers

-----------------------------------------------------------------------------
(* A timer that was never restored from a row it could not use: it is not  *)
(* past its preset, and in the middle of its time it has a start.          *)
Going(b) ==
  /\ b.type = "TOF" /\ b.output /\ ~b.prev_input => b.start # NotStarted
  /\ b.type = "TP" => b.output = b.pulse_active
  /\ b.type = "TP" /\ b.pulse_active => b.start # NotStarted

Short(b, type) ==
  /\ b.et_ms <= b.pt_ms
  /\ type = "TOF" /\ b.output /\ ~b.prev_input => b.et_ms < b.pt_ms
  /\ type = "TP" => b.output = b.pulse_active
  /\ type = "TP" /\ b.pulse_active => b.et_ms < b.pt_ms

Sound(b) == Going(b) /\ Short(b, b.type)

\* Execute keeps a timer going, and repairs one that comes to rest.
LEMMA SoundRuns ==
  ASSUME NEW b, IsBlock(b), b.type \in Timers,
         Going(b) \/ AtRest(Execute(b))
  PROVE  Sound(Execute(b))
<1> DEFINE e == Execute(b)
<1>1. e.type = b.type
  BY Executed
<1>2. CASE b.type = "TON"
  <2>1. e.et_ms <= e.pt_ms
    BY <1>2, Records, ExecuteOf, RunsTON
  <2>2. QED BY <1>1, <1>2, <2>1 DEF Sound, Going, Short
<1>3. CASE b.type = "TOF"
  <2>1. b \in TOFs /\ e = ExecuteTOF(b)
    BY <1>3, Records, ExecuteOf
  <2>2. ~b.output \/ b.prev_input \/ b.start # NotStarted \/ ~e.output
    BY <1>3 DEF Going, AtRest
  <2> HIDE DEF e
  <2>3. e.et_ms <= e.pt_ms /\ (e.output /\ ~e.prev_input => e.start # NotStarted /\ e.et_ms < e.pt_ms)
    BY <2>1, <2>2, RunsTOF
  <2>4. Sound(e)
    BY <1>1, <1>3, <2>3 DEF Sound, Going, Short
  <2>5. QED BY <2>4 DEF e
<1>4. CASE b.type = "TP"
  <2>1. b \in TPs /\ e = ExecuteTP(b)
    BY <1>4, Records, ExecuteOf
  <2>2. /\ (b.pulse_active => b.start # NotStarted) \/ ~e.pulse_active
        /\ b.output = b.pulse_active \/ (~e.output /\ ~e.pulse_active)
    BY <1>1, <1>4 DEF Going, AtRest
  <2> HIDE DEF e
  <2>3. e \in TPs /\ e.et_ms <= e.pt_ms /\ (e.pulse_active => e.start # NotStarted /\ e.et_ms < e.pt_ms)
    BY <2>1, <2>2, RunsTP
  <2>4. e.output = e.pulse_active
    <3>1. CASE b.output = b.pulse_active
      BY <3>1, <2>1, RunsTP
    <3>2. CASE ~e.output /\ ~e.pulse_active
      BY <3>2, <2>3 DEF TPs
    <3>3. QED BY <3>1, <3>2, <2>2
  <2>5. Sound(e)
    BY <1>1, <1>4, <2>3, <2>4 DEF Sound, Going, Short
  <2>6. QED BY <2>5 DEF e
<1>5. QED BY <1>2, <1>3, <1>4 DEF Timers

\* set_input takes values of the field's kind, and only inputs.
LEMMA InputsAreTaken ==
  ASSUME NEW t \in Types, NEW f \in Inputs(t), NEW v, Takes(f, v)
  PROVE  v \in Kind(f) /\ f # "type" /\ f # "start"
<1>1. f \in {"input", "pt_ms", "mode", "cu", "reset", "pv", "cd", "load", "clk"}
  BY DEF Inputs, Types, Timers, Counters, Triggers
<1>2. QED BY <1>1 DEF Takes, Kind

\* Wiring changes inputs only, to values of their kind.
LEMMA WiredIs ==
  ASSUME NEW i \in Ids, NEW readable, IsBlock(instances[i])
  PROVE  LET b == instances[i]
             w == Wired(i, readable)
         IN  /\ IsBlock(w) /\ w.type = b.type /\ DOMAIN w = DOMAIN b
             /\ \A f \in DOMAIN b : w[f] = b[f] \/ (f \in Inputs(b.type) /\
                  f \in DOMAIN definitions[i].inputs /\ w[f] = ValueOf(definitions[i].inputs[f]))
<1> DEFINE b == instances[i]
           w == Wired(i, readable)
           inputs == definitions[i].inputs
           taken  == {f \in DOMAIN inputs \cap Inputs(b.type) :
                        HasValue(inputs[f], readable) /\ Takes(f, ValueOf(inputs[f]))}
<1>1. w = [f \in DOMAIN b |-> IF f \in taken THEN ValueOf(inputs[f]) ELSE b[f]]
  BY DEF Wired
<1>2. b.type \in Types /\ DOMAIN b = Fields(b.type) /\ \A f \in DOMAIN b : b[f] \in Kind(f)
  BY DEF IsBlock
<1>3. \A f \in taken : ValueOf(inputs[f]) \in Kind(f) /\ f # "type"
  BY <1>2, InputsAreTaken
<1>4. \A f \in taken : f \in DOMAIN inputs /\ f \in Inputs(b.type)
  OBVIOUS
<1> HIDE DEF taken, w, inputs, b
<1>5. DOMAIN w = DOMAIN b /\ \A f \in DOMAIN b : w[f] = IF f \in taken THEN ValueOf(inputs[f]) ELSE b[f]
  BY <1>1
<1>6. "type" \in DOMAIN b
  BY <1>2, FieldsOf DEF Types, Timers, Counters, Triggers
<1>7. w.type = b.type
  BY <1>3, <1>5, <1>6
<1>8. \A f \in DOMAIN b : w[f] \in Kind(f)
  BY <1>2, <1>3, <1>5
<1>9. w = [f \in Fields(w.type) |-> w[f]]
  BY <1>1, <1>2, <1>7
<1>10. IsBlock(w)
  BY <1>2, <1>5, <1>7, <1>8, <1>9 DEF IsBlock
<1>11. QED BY <1>4, <1>5, <1>7, <1>10 DEF w, b, inputs

-----------------------------------------------------------------------------
PresetOf(type) == IF type \in Timers THEN 0..MaxAge ELSE -MaxCount..MaxCount

(* A block that has done nothing yet.                                      *)
Fresh(b) ==
  /\ b.type \in Timers => /\ b.start = NotStarted /\ b.et_ms = 0
                          /\ ~b.input /\ ~b.prev_input /\ ~b.output
  /\ b.type = "TON" => b.mode \in Modes
  /\ b.type = "TP" => ~b.pulse_active
  /\ b.type = "CTU" => b.cv = 0 /\ ~b.cu /\ ~b.prev_cu
  /\ b.type \in Triggers => ~b.clk /\ ~b.prev_clk /\ ~b.q

LEMMA NewIs ==
  ASSUME NEW t \in Types, NEW preset \in PresetOf(t)
  PROVE  LET b == New(t, preset)
         IN  /\ IsBlock(b) /\ b.type = t /\ Remembers(b) /\ Fresh(b)
             /\ t \in Timers => b.pt_ms = preset
             /\ t = "TON" => b.mode = "wall_clock"
<1> DEFINE b == New(t, preset)
<1>1. CASE t = "TON"
  <2>1. b = NewTON(preset) /\ preset \in 0..MaxAge
    BY <1>1 DEF New, PresetOf, Timers, Triggers
  <2>2. b \in TONs /\ ~b.input /\ ~b.prev_input /\ ~b.output /\ b.start = NotStarted
        /\ b.et_ms = 0 /\ b.pt_ms = preset /\ b.mode = "wall_clock" /\ b.input = b.prev_input
    BY <2>1, InRange DEF NewTON, TONs, Modes
  <2> HIDE DEF b
  <2>3. IsBlock(b) /\ b.type = "TON"
    BY <2>2, Blocks
  <2>4. Fresh(b) /\ Remembers(b)
    BY <2>2, <2>3, RememberedIn DEF Fresh, Remembers, Triggers, Modes, Timers
  <2>5. QED BY <1>1, <2>2, <2>3, <2>4 DEF b
<1>2. CASE t = "TOF"
  <2>1. b = NewTOF(preset) /\ preset \in 0..MaxAge
    BY <1>2 DEF New, PresetOf, Timers, Triggers
  <2>2. b \in TOFs /\ ~b.input /\ ~b.prev_input /\ ~b.output /\ b.start = NotStarted
        /\ b.et_ms = 0 /\ b.pt_ms = preset /\ b.input = b.prev_input
    BY <2>1, InRange DEF NewTOF, TOFs
  <2> HIDE DEF b
  <2>3. IsBlock(b) /\ b.type = "TOF"
    BY <2>2, Blocks
  <2>4. Fresh(b) /\ Remembers(b)
    BY <2>2, <2>3, RememberedIn DEF Fresh, Remembers, Triggers, Timers
  <2>5. QED BY <1>2, <2>2, <2>3, <2>4 DEF b
<1>3. CASE t = "TP"
  <2>1. b = NewTP(preset) /\ preset \in 0..MaxAge
    BY <1>3 DEF New, PresetOf, Timers, Triggers
  <2>2. b \in TPs /\ ~b.input /\ ~b.prev_input /\ ~b.output /\ b.start = NotStarted
        /\ b.et_ms = 0 /\ b.pt_ms = preset /\ ~b.pulse_active /\ b.input = b.prev_input
    BY <2>1, InRange DEF NewTP, TPs
  <2> HIDE DEF b
  <2>3. IsBlock(b) /\ b.type = "TP"
    BY <2>2, Blocks
  <2>4. Fresh(b) /\ Remembers(b)
    BY <2>2, <2>3, RememberedIn DEF Fresh, Remembers, Triggers, Timers
  <2>5. QED BY <1>3, <2>2, <2>3, <2>4 DEF b
<1>4. CASE t = "CTU"
  <2>1. b = NewCTU(preset) /\ preset \in -MaxCount..MaxCount
    BY <1>4 DEF New, PresetOf, Timers, Triggers
  <2>2. 0 \in -MaxCount..MaxCount
    BY BlockAssumption
  <2>3. b \in CTUs /\ ~b.cu /\ ~b.prev_cu /\ b.cv = 0 /\ b.cu = b.prev_cu
    BY <2>1, <2>2 DEF NewCTU, CTUs
  <2> HIDE DEF b
  <2>4. IsBlock(b) /\ b.type = "CTU"
    BY <2>3, Blocks
  <2>5. Fresh(b) /\ Remembers(b)
    BY <2>3, <2>4, RememberedIn DEF Fresh, Remembers, Triggers, Timers
  <2>6. QED BY <1>4, <2>4, <2>5 DEF b, Timers
<1>5. CASE t = "CTD"
  <2>1. b = NewCTD(preset) /\ preset \in -MaxCount..MaxCount
    BY <1>5 DEF New, PresetOf, Timers, Triggers
  <2>2. b \in CTDs
    BY <2>1 DEF NewCTD, CTDs
  <2> HIDE DEF b
  <2>3. IsBlock(b) /\ b.type = "CTD"
    BY <2>2, Blocks
  <2>4. Fresh(b) /\ Remembers(b)
    BY <2>3, RememberedIn DEF Fresh, Remembers, Triggers, Timers
  <2>5. QED BY <1>5, <2>3, <2>4 DEF b, Timers
<1>6. CASE t = "CTUD"
  <2>1. b = NewCTUD(preset) /\ preset \in -MaxCount..MaxCount
    BY <1>6 DEF New, PresetOf, Timers, Triggers
  <2>2. 0 \in -MaxCount..MaxCount
    BY BlockAssumption
  <2>3. b \in CTUDs /\ b.cu = b.prev_cu
    BY <2>1, <2>2 DEF NewCTUD, CTUDs
  <2> HIDE DEF b
  <2>4. IsBlock(b) /\ b.type = "CTUD"
    BY <2>3, Blocks
  <2>5. Fresh(b) /\ Remembers(b)
    BY <2>3, <2>4, RememberedIn DEF Fresh, Remembers, Triggers, Timers
  <2>6. QED BY <1>6, <2>4, <2>5 DEF b, Timers
<1>7. CASE t \in Triggers
  <2>1. b = NewTrigger(t)
    BY <1>7 DEF New, Timers, Counters, Triggers
  <2>2. b \in TRIGs /\ ~b.clk /\ ~b.prev_clk /\ ~b.q /\ b.clk = b.prev_clk /\ b.type = t
    BY <1>7, <2>1 DEF NewTrigger, TRIGs
  <2> HIDE DEF b
  <2>3. IsBlock(b)
    BY <2>2, Blocks
  <2>4. Fresh(b) /\ Remembers(b)
    BY <1>7, <2>2, <2>3, RememberedIn DEF Fresh, Remembers, Triggers, Timers
  <2>5. QED BY <1>7, <2>2, <2>3, <2>4 DEF b, Timers, Triggers
<1>8. QED BY <1>1, <1>2, <1>3, <1>4, <1>5, <1>6, <1>7 DEF Types, Timers, Counters, Triggers

\* A fresh timer is sound.
LEMMA FreshIsSound ==
  ASSUME NEW b, IsBlock(b), b.type \in Timers, Fresh(b)
  PROVE  Sound(b)
<1>1. b.et_ms <= b.pt_ms
  BY Records DEF Fresh, TONs, TOFs, TPs, Timers
<1>2. b.type = "TP" => b.output = b.pulse_active
  BY Records DEF Fresh, TPs
<1>3. QED BY <1>1, <1>2 DEF Sound, Going, Short, Fresh

LEMMA ResetIs ==
  ASSUME NEW b, IsBlock(b)
  PROVE  /\ IsBlock(Reset(b)) /\ Reset(b).type = b.type
         /\ Remembers(Reset(b)) /\ Fresh(Reset(b))
<1> DEFINE new == New(b.type, Preset(b))
<1>1. Preset(b) \in PresetOf(b.type) /\ b.type \in Types
  <2>1. CASE b.type \in Timers
    <3>1. b.pt_ms \in 0..MaxAge
      BY <2>1, Records DEF TONs, TOFs, TPs, Timers
    <3>2. Preset(b) = b.pt_ms
      BY <2>1 DEF Preset, Timers, Counters, Triggers
    <3>3. QED BY <2>1, <3>1, <3>2 DEF PresetOf, IsBlock
  <2>2. CASE b.type \in Counters
    <3>1. b.pv \in -MaxCount..MaxCount
      BY <2>2, Records DEF CTUs, CTDs, CTUDs, Counters
    <3>2. Preset(b) = b.pv /\ b.type \notin Timers
      BY <2>2 DEF Preset, Timers, Counters, Triggers
    <3>3. QED BY <2>2, <3>1, <3>2 DEF PresetOf, IsBlock
  <2>3. CASE b.type \in Triggers
    <3>1. Preset(b) = 0 /\ b.type \notin Timers
      BY <2>3 DEF Preset, Timers, Counters, Triggers
    <3>2. 0 \in -MaxCount..MaxCount
      BY BlockAssumption
    <3>3. QED BY <2>3, <3>1, <3>2 DEF PresetOf, IsBlock
  <2>4. QED BY <2>1, <2>2, <2>3 DEF IsBlock, Types
<1>2. IsBlock(new) /\ new.type = b.type /\ Remembers(new) /\ Fresh(new)
  BY <1>1, NewIs
<1> HIDE DEF new
<1>3. CASE b.type # "TON"
  <2>1. Reset(b) = new
    BY <1>3 DEF Reset, new
  <2>2. QED BY <2>1, <1>2
<1>4. CASE b.type = "TON"
  <2> DEFINE r == [new EXCEPT !.mode = b.mode]
  <2>1. Reset(b) = r
    BY <1>4 DEF Reset, new
  <2>2. new \in TONs /\ b.mode \in Modes
    BY <1>2, <1>4, Records DEF TONs
  <2>3. /\ r \in TONs /\ r.input = new.input /\ r.prev_input = new.prev_input
        /\ r.output = new.output /\ r.start = new.start /\ r.et_ms = new.et_ms /\ r.mode = b.mode
    BY <2>2 DEF TONs
  <2>4. /\ ~new.input /\ ~new.prev_input /\ ~new.output /\ new.start = NotStarted
        /\ new.et_ms = 0
    BY <1>2, <1>4 DEF Fresh, Timers
  <2> HIDE DEF r
  <2>5. IsBlock(r) /\ r.type = "TON"
    BY <2>3, Blocks
  <2>6. Fresh(r)
    BY <2>2, <2>3, <2>4, <2>5 DEF Fresh, Triggers
  <2>7. r.prev_input = r.input
    BY <2>3, <2>4 DEF TONs
  <2>8. Remembers(r)
    BY <2>5, <2>7, RememberedIn DEF Remembers, Triggers, Timers
  <2>9. QED BY <1>4, <2>1, <2>5, <2>6, <2>8
<1>5. QED BY <1>3, <1>4

\* Time changes the start of a timer and nothing else.
LEMMA AgedIs ==
  ASSUME NEW b, IsBlock(b)
  PROVE  LET a == Aged(b)
         IN  /\ IsBlock(a) /\ a.type = b.type /\ DOMAIN a = DOMAIN b
             /\ \A f \in DOMAIN b \ {"start"} : a[f] = b[f]
             /\ b.type \in Timers =>
                  a.start = IF b.start # NotStarted /\ b.start < MaxAge
                            THEN b.start + 1 ELSE b.start
<1> DEFINE a == [b EXCEPT !.start = @ + 1]
<1>1. CASE b.type \in Timers /\ b.start # NotStarted /\ b.start < MaxAge
  <2>1. Aged(b) = a
    BY <1>1 DEF Aged
  <2>2. b.type \in Types /\ DOMAIN b = Fields(b.type) /\ \A f \in DOMAIN b : b[f] \in Kind(f)
    BY DEF IsBlock
  <2>3. "start" \in DOMAIN b
    BY <1>1, <2>2, FieldsOf DEF Timers
  <2>4. b.start + 1 \in Kind("start") /\ Kind("start") = NotStarted..MaxAge
    <3>1. b.start \in NotStarted..MaxAge
      BY <2>2, <2>3 DEF Kind
    <3>2. QED BY <1>1, <3>1, BlockAssumption DEF Kind, NotStarted
  <2>5. /\ DOMAIN a = DOMAIN b /\ a.start = b.start + 1
        /\ \A f \in DOMAIN b \ {"start"} : a[f] = b[f]
    BY <2>3
  <2>6. a = [f \in DOMAIN b |-> a[f]]
    BY <2>2, <2>3 DEF IsBlock
  <2> HIDE DEF a
  <2>7. "type" \in DOMAIN b
    BY <1>1, <2>2, FieldsOf DEF Timers
  <2>8. a.type = b.type
    BY <2>5, <2>7
  <2>9. IsBlock(a)
    BY <2>2, <2>3, <2>4, <2>5, <2>6, <2>8 DEF IsBlock
  <2>10. QED BY <1>1, <2>1, <2>5, <2>8, <2>9
<1>2. CASE ~(b.type \in Timers /\ b.start # NotStarted /\ b.start < MaxAge)
  <2>1. Aged(b) = b
    BY <1>2 DEF Aged
  <2>2. QED BY <1>2, <2>1
<1>3. QED BY <1>1, <1>2

-----------------------------------------------------------------------------
\* A type that has an input has what it remembers of it.
LEMMA Pairs ==
  ASSUME NEW t \in Types
  PROVE  /\ "type" \in Fields(t)
         /\ "input" \in Fields(t) => "prev_input" \in Fields(t)
         /\ "cu" \in Fields(t) => "prev_cu" \in Fields(t)
         /\ "clk" \in Fields(t) => "prev_clk" \in Fields(t)
         /\ "prev_input" \in Fields(t) => "input" \in Fields(t)
         /\ "prev_cu" \in Fields(t) => "cu" \in Fields(t)
         /\ "prev_clk" \in Fields(t) => "clk" \in Fields(t)
BY FieldsOf DEF Types, Timers, Counters, Triggers

\* serialize_state writes every field but the type and the start.
LEMMA SerializedIs ==
  ASSUME NEW b, IsBlock(b), Remembers(b)
  PROVE  LET r == Serialized(b)
         IN  /\ IsRow(r, b.type) /\ DOMAIN r = Stored(b.type) /\ Remembers(r)
             /\ \A f \in Stored(b.type) : r[f] = b[f]
<1> DEFINE r == Serialized(b)
<1>1. b.type \in Types /\ DOMAIN b = Fields(b.type) /\ \A f \in DOMAIN b : b[f] \in Kind(f)
  BY DEF IsBlock
<1>2. r = [f \in Stored(b.type) |-> b[f]]
  BY <1>1 DEF Serialized, Stored
<1> HIDE DEF r
<1>3. DOMAIN r = Stored(b.type) /\ \A f \in Stored(b.type) : r[f] = b[f]
  BY <1>2
<1>4. IsRow(r, b.type)
  BY <1>1, <1>2, <1>3 DEF IsRow, Stored
<1>5. Remembers(r)
  BY <1>1, <1>3, Pairs DEF Remembers, Stored
<1>6. QED BY <1>3, <1>4, <1>5 DEF r

\* deserialize_state takes what the row has, of any type, and starts a timer
\* that is in the middle of its time.
LEMMA DeserializedIs ==
  ASSUME NEW b, IsBlock(b), Remembers(b), b.type \in Timers => b.start = NotStarted,
         NEW t \in Types, NEW r, IsRow(r, t), Remembers(r)
  PROVE  LET d == Deserialized(b, r)
         IN  /\ IsBlock(d) /\ d.type = b.type /\ Remembers(d)
             /\ \A f \in Stored(b.type) : d[f] = IF f \in Stored(t) THEN r[f] ELSE b[f]
             /\ b.type \in Timers => d.start = IF Resumes(d) THEN d.et_ms ELSE NotStarted
<1> DEFINE known == [f \in DOMAIN b |-> IF f \in DOMAIN r THEN r[f] ELSE b[f]]
           d == Deserialized(b, r)
<1>1. b.type \in Types /\ DOMAIN b = Fields(b.type) /\ \A f \in DOMAIN b : b[f] \in Kind(f)
  BY DEF IsBlock
<1>2. DOMAIN r = Stored(t) /\ \A f \in Stored(t) : r[f] \in Kind(f)
  BY DEF IsRow
<1>3. /\ DOMAIN known = Fields(b.type)
      /\ \A f \in Fields(b.type) : known[f] = IF f \in Stored(t) THEN r[f] ELSE b[f]
      /\ known = [f \in Fields(b.type) |-> known[f]]
  BY <1>1, <1>2
<1>4. d = IF b.type \in Timers THEN Started(known) ELSE known
  BY DEF Deserialized
<1> HIDE DEF known, d
<1>5. known.type = b.type /\ "type" \in Fields(b.type)
  BY <1>1, <1>3, Pairs DEF Stored
<1>6. \A f \in Fields(b.type) : known[f] \in Kind(f)
  BY <1>1, <1>2, <1>3
<1>7. IsBlock(known)
  BY <1>1, <1>3, <1>5, <1>6 DEF IsBlock
<1>8. Remembers(known)
  <2>1. "input" \in DOMAIN known => known.prev_input = known.input
    BY <1>1, <1>2, <1>3, Pairs DEF Stored, Remembers
  <2>2. "cu" \in DOMAIN known => known.prev_cu = known.cu
    BY <1>1, <1>2, <1>3, Pairs DEF Stored, Remembers
  <2>3. "clk" \in DOMAIN known => known.prev_clk = known.clk
    BY <1>1, <1>2, <1>3, Pairs DEF Stored, Remembers
  <2>4. QED BY <2>1, <2>2, <2>3 DEF Remembers
<1>9. CASE b.type \notin Timers
  BY <1>3, <1>4, <1>5, <1>7, <1>8, <1>9 DEF Stored, d
<1>10. CASE b.type \in Timers
  <2> DEFINE start == IF Resumes(known) THEN known.et_ms ELSE known.start
  <2>1. d = [known EXCEPT !.start = start]
    BY <1>4, <1>10 DEF Started
  <2>2. "start" \in Fields(b.type) /\ "et_ms" \in Fields(b.type)
    BY <1>10, FieldsOf DEF Timers
  <2>3. known.start = NotStarted
    BY <1>3, <1>10, <2>2 DEF Stored
  <2>4. start \in Kind("start")
    <3>1. known.et_ms \in Kind("et_ms")
      BY <2>2, <1>6
    <3>2. known.et_ms \in NotStarted..MaxAge
      BY <3>1 DEF Kind, NotStarted
    <3>3. start \in NotStarted..MaxAge
      BY <2>3, <3>2, InRange
    <3>4. QED BY <3>3 DEF Kind
  <2> HIDE DEF start
  <2>5. /\ DOMAIN d = Fields(b.type) /\ d.start = start
        /\ \A f \in Fields(b.type) \ {"start"} : d[f] = known[f]
        /\ d = [f \in Fields(b.type) |-> d[f]]
    BY <2>1, <2>2, <1>3
  <2>6. d.type = b.type
    BY <2>5, <1>5
  <2>7. IsBlock(d)
    BY <2>4, <2>5, <2>6, <1>1, <1>6 DEF IsBlock
  <2>8. Remembers(d)
    BY <2>5, <1>1, <1>3, <1>8, Pairs DEF Remembers
  <2>9. \A f \in Stored(b.type) : d[f] = IF f \in Stored(t) THEN r[f] ELSE b[f]
    BY <2>5, <1>3 DEF Stored
  <2>10. Resumes(d) = Resumes(known) /\ d.et_ms = known.et_ms
    <3>1. /\ d.type = known.type /\ d.et_ms = known.et_ms /\ d.pt_ms = known.pt_ms
          /\ d.input = known.input /\ d.output = known.output
          /\ b.type = "TON" => d.mode = known.mode
          /\ b.type = "TP" => d.pulse_active = known.pulse_active
      BY <2>5, <1>5, <1>10, FieldsOf DEF Timers
    <3>2. MidTime(d) = MidTime(known)
      BY <3>1 DEF MidTime
    <3>3. CASE b.type = "TON"
      BY <3>1, <3>2, <3>3, <1>5 DEF Resumes, ResumesTON
    <3>4. CASE b.type = "TOF"
      BY <3>1, <3>2, <3>4, <1>5 DEF Resumes, ResumesTOF
    <3>5. CASE b.type = "TP"
      BY <3>1, <3>2, <3>5, <1>5 DEF Resumes, ResumesTP
    <3>6. QED BY <3>1, <3>3, <3>4, <3>5, <1>10 DEF Timers
  <2>11. d.start = IF Resumes(d) THEN d.et_ms ELSE NotStarted
    BY <2>3, <2>5, <2>10 DEF start
  <2>12. QED BY <2>6, <2>7, <2>8, <2>9, <2>11 DEF d
<1>11. QED BY <1>9, <1>10 DEF d

\* A timer restored from a row of its own type is sound, unless it has lost its
\* start.
LEMMA DeserializedSound ==
  ASSUME NEW b, IsBlock(b), Remembers(b), b.type \in Timers, b.start = NotStarted,
         NEW r, IsRow(r, b.type), Remembers(r), Short(r, b.type),
         ~(Frozen(Deserialized(b, r)) /\ Deserialized(b, r).et_ms = 0)
  PROVE  Sound(Deserialized(b, r))
<1> DEFINE d == Deserialized(b, r)
           t == b.type
<1>1. t \in Types
  BY DEF IsBlock
<1>2. /\ IsBlock(d) /\ d.type = t /\ Remembers(d)
      /\ \A f \in Stored(t) : d[f] = r[f]
      /\ d.start = IF Resumes(d) THEN d.et_ms ELSE NotStarted
  BY <1>1, DeserializedIs
<1> HIDE DEF d
<1>3. /\ d.et_ms = r.et_ms /\ d.pt_ms = r.pt_ms /\ d.output = r.output
      /\ d.prev_input = r.prev_input /\ (t = "TP" => d.pulse_active = r.pulse_active)
  BY <1>2, FieldsOf DEF Stored, Timers
<1>4. d.et_ms \in 0..MaxAge /\ d.pt_ms \in 0..MaxAge /\ d.prev_input = d.input
  BY <1>2, Records, RememberedIn DEF TONs, TOFs, TPs, Timers, Remembers
<1>5. Short(d, t)
  BY <1>3 DEF Short
<1>6. Going(d)
  <2>1. CASE t = "TON"
    BY <2>1, <1>2 DEF Going
  <2>2. CASE t = "TOF"
    <3>1. SUFFICES ASSUME d.output, ~d.prev_input PROVE d.start # NotStarted
      BY <2>2, <1>2 DEF Going
    <3>2. d.et_ms < d.pt_ms
      BY <3>1, <2>2, <1>5 DEF Short
    <3>3. CASE d.et_ms = 0
      BY <3>1, <3>3, <2>2, <1>2 DEF Frozen, d, Timers
    <3>4. CASE d.et_ms > 0
      <4>1. Resumes(d)
        BY <3>1, <3>2, <3>4, <2>2, <1>2, <1>4 DEF Resumes, ResumesTOF, MidTime
      <4>2. QED BY <4>1, <3>4, <1>2, <1>4 DEF NotStarted
    <3>5. QED BY <3>3, <3>4, <1>4
  <2>3. CASE t = "TP"
    <3>1. d.output = d.pulse_active
      BY <2>3, <1>5 DEF Short
    <3>2. SUFFICES ASSUME d.pulse_active PROVE d.start # NotStarted
      BY <3>1, <2>3, <1>2 DEF Going
    <3>3. d.et_ms < d.pt_ms
      BY <3>2, <2>3, <1>5 DEF Short
    <3>4. CASE d.et_ms = 0
      BY <3>2, <3>4, <2>3, <1>2 DEF Frozen, d, Timers
    <3>5. CASE d.et_ms > 0
      <4>1. Resumes(d)
        BY <3>2, <3>3, <3>5, <2>3, <1>2 DEF Resumes, ResumesTP, MidTime
      <4>2. QED BY <4>1, <3>5, <1>2, <1>4 DEF NotStarted
    <3>6. QED BY <3>4, <3>5, <1>4
  <2>4. QED BY <2>1, <2>2, <2>3 DEF Timers
<1>7. QED BY <1>2, <1>5, <1>6 DEF Sound, d

-----------------------------------------------------------------------------
IsDefinition(d) == d # Absent /\ \E p \in Programs, i \in Ids : d = p[i]

BlockOK(b, d) ==
  /\ IsBlock(b) /\ Remembers(b)
  /\ IsDefinition(d) /\ d.type = b.type

(* A row is one of the type it was written under, unless a stalled timer   *)
(* wrote it.                                                               *)
RowOK(r, w) ==
  \E t \in Types :
    /\ IsRow(r, t) /\ Remembers(r)
    /\ \/ w.type = t /\ (t \in Timers => Short(r, t))
       \/ w.type = "stalled"

BlocksInv ==
  /\ running \in BOOLEAN
  /\ DOMAIN instances = Ids /\ DOMAIN definitions = Ids
  /\ \A i \in Ids : instances[i] = Absent <=> definitions[i] = Absent
  /\ \A i \in Ids : instances[i] # Absent => BlockOK(instances[i], definitions[i])
  /\ \A i \in Ids \ stalled :
       instances[i] # Absent /\ instances[i].type \in Timers => Sound(instances[i])
  /\ held \in [Ids -> 0..MaxAge]
  /\ ~running => Present = {} /\ unsaved = {}
  /\ unsaved \subseteq Present /\ stalled \subseteq OfType(Timers)

RowsInv ==
  /\ DOMAIN rows = Ids /\ DOMAIN writers = Ids
  /\ \A i \in Ids : rows[i] = Absent <=> writers[i] = Absent
  /\ \A i \in Ids : rows[i] # Absent => RowOK(rows[i], writers[i])

PlantInv ==
  /\ level \in [Signals -> BOOLEAN] /\ edges \in [Signals -> 0..MaxEdges]
  /\ \A sg \in Signals : level[sg] => edges[sg] > 0

FlagsInv ==
  /\ whole \in BOOLEAN /\ clean \in BOOLEAN
  /\ upsets \in 0..MaxUpsets

RegistryInv == BlocksInv /\ RowsInv /\ PlantInv /\ FlagsInv

-----------------------------------------------------------------------------
LEMMA DefinitionIs ==
  ASSUME NEW d, IsDefinition(d)
  PROVE  /\ d.type \in Types /\ d.preset \in PresetOf(d.type)
         /\ [d EXCEPT !.type = "stalled"] # Absent
         /\ [d EXCEPT !.type = "stalled"].type = "stalled"
<1>1. PICK p \in Programs, i \in Ids : d = p[i]
  BY DEF IsDefinition
<1>2. p[i] # Absent
  BY <1>1 DEF IsDefinition
<1>3. /\ DOMAIN d = {"type", "preset", "inputs", "outputs"}
      /\ d.type \in Types
      /\ d.preset \in IF d.type \in Timers THEN 0..MaxAge ELSE -MaxCount..MaxCount
  BY <1>1, <1>2, RegistryAssumption
<1>4. [d EXCEPT !.type = "stalled"] # Absent
  BY <1>1, <1>2, AbsentAssumption
<1>5. QED BY <1>3, <1>4 DEF PresetOf

LEMMA KindsAreValues == \A f : Kind(f) \subseteq Value
<1>1. BlockAssumption /\ \A n \in NotStarted..MaxAge : n \in Int
  BY BlockAssumption DEF NotStarted
<1>2. QED BY <1>1 DEF Kind, Value, BlockAssumption

\* A block or a row is there.
LEMMA NotAbsent ==
  /\ \A b : IsBlock(b) => b # Absent
  /\ \A r : \A t \in Types : IsRow(r, t) => r # Absent
<1>1. ASSUME NEW b, IsBlock(b) PROVE b # Absent
  <2>1. b \in [Fields(b.type) -> Value] /\ b.type \in Types
    BY <1>1, KindsAreValues DEF IsBlock
  <2>2. QED BY <2>1, AbsentAssumption
<1>2. ASSUME NEW r, NEW t \in Types, IsRow(r, t) PROVE r # Absent
  <2>1. r \in [Stored(t) -> Value]
    BY <1>2, KindsAreValues DEF IsRow
  <2>2. QED BY <2>1, AbsentAssumption DEF Stored
<1>3. QED BY <1>1, <1>2

LEMMA CreditIs ==
  ASSUME NEW b, IsBlock(b)
  PROVE  Credit(b) \in 0..MaxAge
<1>1. b.type \in Timers => b.et_ms \in 0..MaxAge
  BY Records DEF TONs, TOFs, TPs, Timers
<1>2. QED BY <1>1, InRange DEF Credit

\* A block that is created has the type of its definition; a timer is sound
\* unless it has misread its row.
LEMMA CreatedIs ==
  ASSUME RowsInv, NEW i \in Ids, NEW d, IsDefinition(d), NEW unread
  PROVE  LET b == Created(i, d, unread)
         IN  /\ BlockOK(b, d) /\ Credit(b) \in 0..MaxAge
             /\ Misread(i, b) => b.type \in Timers
             /\ b.type \in Timers /\ (i \in unread \/ ~Misread(i, b)) => Sound(b)
             /\ rows[i] = Absent => Fresh(b)
<1> DEFINE n == New(d.type, d.preset)
           b == Created(i, d, unread)
<1>1. d.type \in Types /\ d.preset \in PresetOf(d.type)
  BY DefinitionIs
<1>2. IsBlock(n) /\ n.type = d.type /\ Remembers(n) /\ Fresh(n)
  BY <1>1, NewIs
<1>3. n.type \in Timers => Sound(n) /\ n.start = NotStarted
  BY <1>2, FreshIsSound DEF Fresh
<1>4. b = IF rows[i] = Absent \/ i \in unread THEN n ELSE Deserialized(n, rows[i])
  BY DEF Created, Loaded
<1> HIDE DEF n, b
<1>5. CASE rows[i] = Absent \/ i \in unread
  <2>1. b = n
    BY <1>4, <1>5
  <2>2. QED BY <2>1, <1>2, <1>3, CreditIs DEF BlockOK, b, Misread
<1>6. CASE rows[i] # Absent /\ i \notin unread
  <2>1. b = Deserialized(n, rows[i])
    BY <1>4, <1>6
  <2>2. PICK t \in Types :
          /\ IsRow(rows[i], t) /\ Remembers(rows[i])
          /\ \/ writers[i].type = t /\ (t \in Timers => Short(rows[i], t))
             \/ writers[i].type = "stalled"
    BY <1>6 DEF RowsInv, RowOK
  <2>3. IsBlock(b) /\ b.type = d.type /\ Remembers(b)
    BY <2>1, <2>2, <1>2, <1>3, DeserializedIs
  <2>4. ASSUME b.type \in Timers, ~Misread(i, b) PROVE Sound(b)
    <3>1. writers[i] # Absent
      BY <1>6 DEF RowsInv
    <3>2. writers[i].type = b.type /\ ~(Frozen(b) /\ b.et_ms = 0)
      BY <2>4, <3>1 DEF Misread
    <3>3. t = b.type
      BY <3>2, <2>2, <2>4 DEF Timers
    <3>4. n.type \in Timers /\ IsRow(rows[i], n.type) /\ Short(rows[i], n.type)
      BY <2>2, <2>3, <2>4, <3>2, <3>3, <1>2 DEF Timers
    <3>5. Sound(Deserialized(n, rows[i]))
      BY <2>1, <2>2, <3>2, <3>4, <1>2, <1>3, DeserializedSound
    <3>6. QED BY <3>5, <2>1
  <2>5. QED BY <1>6, <2>3, <2>4, CreditIs DEF BlockOK, b, Misread
<1>7. QED BY <1>5, <1>6

\* Wiring leaves a timer's place in its time.
LEMMA WiredTimer ==
  ASSUME NEW i \in Ids, NEW readable, IsBlock(instances[i]), instances[i].type \in Timers
  PROVE  LET b == instances[i]
             w == Wired(i, readable)
         IN  /\ w.output = b.output /\ w.prev_input = b.prev_input /\ w.start = b.start
             /\ w.et_ms = b.et_ms /\ (b.type = "TP" => w.pulse_active = b.pulse_active)
<1> DEFINE b == instances[i]
           w == Wired(i, readable)
<1>1. \A f \in DOMAIN b \ Inputs(b.type) : w[f] = b[f]
  BY WiredIs
<1>2. DOMAIN b = Fields(b.type)
  BY DEF IsBlock
<1> HIDE DEF b, w
<1>3. {"output", "prev_input", "start", "et_ms"} \subseteq DOMAIN b \ Inputs(b.type)
  BY <1>2, FieldsOf DEF Timers, Inputs, b
<1>4. b.type = "TP" => "pulse_active" \in DOMAIN b \ Inputs(b.type)
  BY <1>2, FieldsOf DEF Inputs, Triggers
<1>5. QED BY <1>1, <1>3, <1>4 DEF b, w

\* A scanned block is a block of its definition still.
LEMMA ScannedIs ==
  ASSUME NEW i \in Ids, NEW readable, BlockOK(instances[i], definitions[i])
  PROVE  LET e == Execute(Wired(i, readable))
         IN  /\ BlockOK(e, definitions[i]) /\ e.type = instances[i].type
             /\ e.type \in Timers /\ (Sound(instances[i]) \/ AtRest(e)) => Sound(e)
<1> DEFINE b == instances[i]
           w == Wired(i, readable)
           e == Execute(w)
<1>1. IsBlock(b)
  BY DEF BlockOK
<1>2. IsBlock(w) /\ w.type = b.type
  BY <1>1, WiredIs
<1>3. IsBlock(e) /\ e.type = b.type /\ Remembers(e)
  BY <1>2, Executed
<1>4. ASSUME b.type \in Timers, Sound(b) PROVE Going(w)
  <2>1. /\ w.output = b.output /\ w.prev_input = b.prev_input /\ w.start = b.start
        /\ b.type = "TP" => w.pulse_active = b.pulse_active
    BY <1>1, <1>4, WiredTimer
  <2>2. QED BY <2>1, <1>2, <1>4 DEF Sound, Going
<1>5. ASSUME b.type \in Timers, Sound(b) \/ AtRest(e) PROVE Sound(e)
  BY <1>2, <1>4, <1>5, SoundRuns
<1>6. QED BY <1>3, <1>5 DEF BlockOK

-----------------------------------------------------------------------------
\* A signal that is on has risen.
LEMMA PlantStep == PlantInv /\ [Next]_vars => PlantInv'
<1> SUFFICES ASSUME PlantInv, [Next]_vars PROVE PlantInv'
  OBVIOUS
<1> USE DEF PlantInv
<1>1. ASSUME NEW sg \in Signals, Rise(sg) PROVE PlantInv'
  BY <1>1, RegistryAssumption DEF Rise
<1>2. ASSUME NEW sg \in Signals, Fall(sg) PROVE PlantInv'
  BY <1>2 DEF Fall
<1>3. CASE UNCHANGED plant
  BY <1>3 DEF plant
<1>4. QED BY <1>1, <1>2, <1>3
          DEF Next, vars, Boot, CreateFB, RemoveFB, SaveRow, ResetAll, BeginSave, Stop,
              Tick, Scan

LEMMA FlagsStep == FlagsInv /\ [Next]_vars => FlagsInv'
<1> SUFFICES ASSUME FlagsInv, [Next]_vars PROVE FlagsInv'
  OBVIOUS
<1> USE DEF FlagsInv
<1>0. ASSUME Upset PROVE upsets' \in 0..MaxUpsets
  <2>1. MaxUpsets \in Nat
    BY RegistryAssumption
  <2>2. QED BY <1>0, <2>1 DEF Upset
<1>1. ASSUME NEW unread, NEW p, Boot(p, unread) PROVE FlagsInv'
  BY <1>1 DEF Boot
<1>2. ASSUME NEW unread, NEW d, NEW i, CreateFB(i, d, unread) PROVE FlagsInv'
  BY <1>2 DEF CreateFB
<1>3. ASSUME NEW i, RemoveFB(i) PROVE FlagsInv'
  BY <1>0, <1>3 DEF RemoveFB
<1>4. ASSUME NEW i, SaveRow(i) PROVE FlagsInv'
  <2>1. whole' \in BOOLEAN
    BY <1>4 DEF SaveRow
  <2>2. QED BY <1>4, <2>1 DEF SaveRow
<1>5. CASE ResetAll
  BY <1>0, <1>5 DEF ResetAll
<1>6. CASE Stop
  BY <1>0, <1>6 DEF Stop
<1>7. CASE UNCHANGED <<whole, clean, upsets>>
  BY <1>7
<1>8. QED BY <1>1, <1>2, <1>3, <1>4, <1>5, <1>6, <1>7
          DEF Next, vars, BeginSave, Tick, Scan, Rise, Fall

\* Every row was written from a block, under its definition.
LEMMA RowsStep == BlocksInv /\ RowsInv /\ [Next]_vars => RowsInv'
<1> SUFFICES ASSUME BlocksInv, RowsInv, [Next]_vars PROVE RowsInv'
  OBVIOUS
<1>1. ASSUME NEW i \in Ids, RemoveFB(i) PROVE RowsInv'
  <2>1. CASE UNCHANGED disk
    BY <2>1 DEF RowsInv, disk
  <2>2. CASE /\ rows' = [rows EXCEPT ![i] = Absent]
             /\ writers' = [writers EXCEPT ![i] = Absent]
    BY <2>2 DEF RowsInv
  <2>3. QED BY <1>1, <2>1, <2>2 DEF RemoveFB, ClearState, SaveState
<1>2. ASSUME NEW i \in Ids, SaveRow(i) PROVE RowsInv'
  <2> DEFINE b == instances[i]
             r == Serialized(b)
             w == Writer(i)
  <2>1. instances[i] # Absent /\ BlockOK(b, definitions[i])
    BY <1>2 DEF SaveRow, BlocksInv, Present
  <2>2. /\ IsRow(r, b.type) /\ DOMAIN r = Stored(b.type) /\ Remembers(r) /\ b.type \in Types
        /\ \A f \in Stored(b.type) : r[f] = b[f]
    BY <2>1, SerializedIs DEF BlockOK, IsBlock
  <2>3. IsDefinition(definitions[i]) /\ definitions[i].type = b.type
    BY <2>1 DEF BlockOK
  <2>4. r # Absent /\ w # Absent
    BY <2>2, <2>3, NotAbsent, DefinitionIs DEF Writer, IsDefinition
  <2>5. RowOK(r, w)
    <3>1. CASE i \in stalled
      <4>1. w.type = "stalled"
        BY <3>1, <2>3, DefinitionIs DEF Writer
      <4>2. QED BY <4>1, <2>2 DEF RowOK
    <3>2. CASE i \notin stalled
      <4>1. w.type = b.type
        BY <3>2, <2>3 DEF Writer
      <4>2. ASSUME b.type \in Timers PROVE Short(r, b.type)
        <5>1. Short(b, b.type)
          BY <3>2, <2>1, <4>2 DEF BlocksInv, Sound
        <5>2. /\ r.et_ms = b.et_ms /\ r.pt_ms = b.pt_ms /\ r.output = b.output
              /\ r.prev_input = b.prev_input
              /\ b.type = "TP" => r.pulse_active = b.pulse_active
          BY <2>2, <4>2, FieldsOf DEF Stored, Timers
        <5>3. QED BY <5>1, <5>2 DEF Short
      <4>3. QED BY <4>1, <4>2, <2>2 DEF RowOK
    <3>3. QED BY <3>1, <3>2
  <2>6. CASE UNCHANGED disk
    BY <2>6 DEF RowsInv, disk
  <2> HIDE DEF r, w
  <2>7. CASE rows' = [rows EXCEPT ![i] = r] /\ writers' = [writers EXCEPT ![i] = w]
    BY <2>4, <2>5, <2>7 DEF RowsInv
  <2>8. QED BY <1>2, <2>6, <2>7 DEF SaveRow, SaveState, r, w
<1>3. CASE UNCHANGED disk
  BY <1>3 DEF RowsInv, disk
<1>4. QED BY <1>1, <1>2, <1>3
          DEF Next, vars, Boot, CreateFB, ResetAll, BeginSave, Stop, Tick, Scan, Rise, Fall

-----------------------------------------------------------------------------
\* Time leaves a block what it is, and a sound timer sound.
LEMMA AgedBlock ==
  ASSUME NEW b, IsBlock(b), Remembers(b)
  PROVE  /\ IsBlock(Aged(b)) /\ Aged(b).type = b.type /\ Remembers(Aged(b))
         /\ b.type \in Timers /\ Sound(b) => Sound(Aged(b))
<1> DEFINE a == Aged(b)
<1>1. /\ IsBlock(a) /\ a.type = b.type /\ DOMAIN a = DOMAIN b
      /\ \A f \in DOMAIN b \ {"start"} : a[f] = b[f]
      /\ b.type \in Timers =>
           a.start = IF b.start # NotStarted /\ b.start < MaxAge
                     THEN b.start + 1 ELSE b.start
  BY AgedIs
<1> HIDE DEF a
<1>2. DOMAIN b = Fields(b.type) /\ b.type \in Types
  BY DEF IsBlock
<1>3. Remembers(a)
  BY <1>1, <1>2, Pairs DEF Remembers
<1>4. ASSUME b.type \in Timers, Sound(b) PROVE Sound(a)
  <2>1. /\ a.et_ms = b.et_ms /\ a.pt_ms = b.pt_ms /\ a.output = b.output
        /\ a.prev_input = b.prev_input
        /\ b.type = "TP" => a.pulse_active = b.pulse_active
    BY <1>1, <1>2, <1>4, FieldsOf DEF Timers
  <2>2. b.start \in NotStarted..MaxAge
    BY <1>4, Records DEF TONs, TOFs, TPs, Timers
  <2>3. b.start # NotStarted => a.start # NotStarted
    BY <1>1, <1>4, <2>2 DEF NotStarted
  <2>4. QED BY <1>1, <1>4, <2>1, <2>3 DEF Sound, Going, Short
<1>5. QED BY <1>1, <1>3, <1>4 DEF a

(* BlocksInv, one action at a time.                                        *)
LEMMA BootStep ==
  ASSUME BlocksInv, RowsInv, NEW p \in Programs, NEW unread, Boot(p, unread)
  PROVE  BlocksInv'
<1> DEFINE built == [i \in Ids |-> IF p[i] = Absent THEN Absent
                                   ELSE Created(i, p[i], unread)]
<1>1. /\ instances' = built /\ definitions' = p /\ running' = TRUE
      /\ unsaved' = unsaved /\ ~running
      /\ held' = [i \in Ids |-> IF p[i] = Absent THEN 0 ELSE Credit(built[i])]
      /\ stalled' = {i \in Ids \ unread : p[i] # Absent /\ Misread(i, built[i])}
  BY DEF Boot
<1>2. DOMAIN p = Ids
  BY RegistryAssumption
<1>3. ASSUME NEW i \in Ids, p[i] # Absent
      PROVE  /\ BlockOK(built[i], p[i]) /\ Credit(built[i]) \in 0..MaxAge
             /\ Misread(i, built[i]) => built[i].type \in Timers
             /\ built[i].type \in Timers /\ (i \in unread \/ ~Misread(i, built[i]))
                  => Sound(built[i])
             /\ built[i] # Absent
  <2>1. IsDefinition(p[i]) /\ built[i] = Created(i, p[i], unread)
    BY <1>3 DEF IsDefinition
  <2>2. QED BY <2>1, CreatedIs, NotAbsent DEF BlockOK
<1>4. DOMAIN built = Ids /\ \A i \in Ids : p[i] = Absent => built[i] = Absent
  OBVIOUS
<1> HIDE DEF built
<1>5. /\ running' \in BOOLEAN /\ DOMAIN instances' = Ids /\ DOMAIN definitions' = Ids
      /\ \A i \in Ids : instances'[i] = Absent <=> definitions'[i] = Absent
      /\ \A i \in Ids : instances'[i] # Absent => BlockOK(instances'[i], definitions'[i])
  BY <1>1, <1>2, <1>3, <1>4
<1>6. \A i \in Ids \ stalled' :
        instances'[i] # Absent /\ instances'[i].type \in Timers => Sound(instances'[i])
  BY <1>1, <1>3, <1>4
<1>7. held' \in [Ids -> 0..MaxAge]
  BY <1>1, <1>3, InRange
<1>8. unsaved' = {} /\ running'
  BY <1>1 DEF BlocksInv
<1>9. stalled' \subseteq OfType(Timers)'
  BY <1>1, <1>3 DEF OfType, Present
<1>10. QED BY <1>5, <1>6, <1>7, <1>8, <1>9 DEF BlocksInv

LEMMA CreateStep ==
  ASSUME BlocksInv, RowsInv, NEW i \in Ids, NEW d, IsDefinition(d), NEW unread,
         CreateFB(i, d, unread)
  PROVE  BlocksInv'
<1> DEFINE b == Created(i, d, unread)
<1>1. /\ instances' = [instances EXCEPT ![i] = b] /\ definitions' = [definitions EXCEPT ![i] = d]
      /\ running' = running /\ running /\ unsaved' = unsaved /\ unsaved = {}
      /\ instances[i] = Absent
      /\ held' = [held EXCEPT ![i] = Credit(b)]
      /\ stalled' = IF i \notin unread /\ Misread(i, b) THEN stalled \cup {i} ELSE stalled
  BY DEF CreateFB, Idle
<1>2. /\ BlockOK(b, d) /\ Credit(b) \in 0..MaxAge
      /\ Misread(i, b) => b.type \in Timers
      /\ b.type \in Timers /\ (i \in unread \/ ~Misread(i, b)) => Sound(b)
  BY CreatedIs
<1>3. b # Absent /\ d # Absent
  BY <1>2, NotAbsent DEF BlockOK, IsDefinition
<1> HIDE DEF b
<1>4. i \notin stalled
  BY <1>1 DEF BlocksInv, OfType, Present
<1>5. /\ running' \in BOOLEAN /\ DOMAIN instances' = Ids /\ DOMAIN definitions' = Ids
      /\ \A j \in Ids : instances'[j] = Absent <=> definitions'[j] = Absent
      /\ \A j \in Ids : instances'[j] # Absent => BlockOK(instances'[j], definitions'[j])
  BY <1>1, <1>2, <1>3 DEF BlocksInv
<1>6. \A j \in Ids \ stalled' :
        instances'[j] # Absent /\ instances'[j].type \in Timers => Sound(instances'[j])
  BY <1>1, <1>2 DEF BlocksInv
<1>7. held' \in [Ids -> 0..MaxAge]
  BY <1>1, <1>2 DEF BlocksInv
<1>8. stalled' \subseteq OfType(Timers)'
  BY <1>1, <1>2, <1>3 DEF BlocksInv, OfType, Present
<1>9. QED BY <1>1, <1>5, <1>6, <1>7, <1>8 DEF BlocksInv

LEMMA RemoveStep ==
  ASSUME BlocksInv, NEW i \in Ids, RemoveFB(i)
  PROVE  BlocksInv'
<1>1. /\ instances' = [instances EXCEPT ![i] = Absent]
      /\ definitions' = [definitions EXCEPT ![i] = Absent]
      /\ running' = running /\ running /\ unsaved' = unsaved /\ unsaved = {}
      /\ held' = [held EXCEPT ![i] = 0] /\ stalled' = stalled \ {i}
  BY DEF RemoveFB, Idle
<1>2. held' \in [Ids -> 0..MaxAge]
  BY <1>1, InRange DEF BlocksInv
<1>3. stalled' \subseteq OfType(Timers)'
  BY <1>1 DEF BlocksInv, OfType, Present
<1>4. \A j \in Ids \ stalled' :
        instances'[j] # Absent /\ instances'[j].type \in Timers => Sound(instances'[j])
  BY <1>1 DEF BlocksInv
<1>5. QED BY <1>1, <1>2, <1>3, <1>4 DEF BlocksInv

LEMMA ResetStep ==
  ASSUME BlocksInv, ResetAll
  PROVE  BlocksInv'
<1> DEFINE new == [i \in Ids |-> IF i \in Present THEN Reset(instances[i]) ELSE Absent]
<1>1. /\ instances' = new /\ definitions' = definitions
      /\ running' = running /\ running /\ unsaved' = unsaved /\ unsaved = {}
      /\ held' = [i \in Ids |-> 0] /\ stalled' = {}
  BY DEF ResetAll, Idle
<1>2. ASSUME NEW i \in Ids, instances[i] # Absent
      PROVE  /\ BlockOK(new[i], definitions[i]) /\ new[i] # Absent
             /\ new[i].type \in Timers => Sound(new[i])
  <2>1. new[i] = Reset(instances[i]) /\ BlockOK(instances[i], definitions[i])
    BY <1>2 DEF Present, BlocksInv
  <2>2. /\ IsBlock(new[i]) /\ new[i].type = instances[i].type /\ Remembers(new[i])
        /\ Fresh(new[i])
    BY <2>1, ResetIs DEF BlockOK
  <2>3. QED BY <2>1, <2>2, FreshIsSound, NotAbsent DEF BlockOK
<1>3. DOMAIN new = Ids /\ \A i \in Ids : instances[i] = Absent => new[i] = Absent
  BY DEF Present
<1> HIDE DEF new
<1>4. held' \in [Ids -> 0..MaxAge]
  BY <1>1, InRange
<1>5. QED BY <1>1, <1>2, <1>3, <1>4 DEF BlocksInv

LEMMA ScanStep ==
  ASSUME BlocksInv, NEW readable, Scan(readable)
  PROVE  BlocksInv'
<1> DEFINE e(i) == Execute(Wired(i, readable))
<1>1. /\ DOMAIN instances' = Ids /\ definitions' = definitions
      /\ \A i \in Ids : instances'[i] = IF instances[i] # Absent THEN e(i) ELSE Absent
      /\ running' = running /\ running /\ unsaved' = unsaved /\ unsaved = {}
      /\ stalled' = {i \in stalled : ~AtRest(instances'[i])}
  BY DEF Scan, Idle, Present
<1>2. ASSUME NEW i \in Ids, instances[i] # Absent
      PROVE  /\ BlockOK(e(i), definitions[i]) /\ e(i) # Absent
             /\ e(i).type = instances[i].type
             /\ e(i).type \in Timers /\ (Sound(instances[i]) \/ AtRest(e(i))) => Sound(e(i))
  BY <1>2, ScannedIs, NotAbsent DEF BlocksInv, BlockOK
<1>3. held' \in [Ids -> 0..MaxAge]
  <2>1. held' = [i \in Ids |-> held'[i]] /\ \A i \in Ids : held'[i] \in {held[i], 0}
    BY DEF Scan
  <2>2. QED BY <2>1, InRange DEF BlocksInv
<1> HIDE DEF e
<1>4. \A i \in Ids \ stalled' :
        instances'[i] # Absent /\ instances'[i].type \in Timers => Sound(instances'[i])
  BY <1>1, <1>2 DEF BlocksInv
<1>5. stalled' \subseteq OfType(Timers)'
  BY <1>1, <1>2 DEF BlocksInv, OfType, Present
<1>6. QED BY <1>1, <1>2, <1>3, <1>4, <1>5 DEF BlocksInv

LEMMA TickStep ==
  ASSUME BlocksInv, Tick
  PROVE  BlocksInv'
<1>1. /\ DOMAIN instances' = Ids /\ definitions' = definitions
      /\ \A i \in Ids : instances'[i] = IF instances[i] # Absent THEN Aged(instances[i]) ELSE Absent
      /\ running' = running /\ running /\ unsaved' = unsaved /\ unsaved = {}
      /\ stalled' = stalled
  BY DEF Tick, Idle, Present
<1>2. ASSUME NEW i \in Ids, instances[i] # Absent
      PROVE  /\ BlockOK(Aged(instances[i]), definitions[i]) /\ Aged(instances[i]) # Absent
             /\ Aged(instances[i]).type = instances[i].type
             /\ instances[i].type \in Timers /\ Sound(instances[i]) => Sound(Aged(instances[i]))
  BY <1>2, AgedBlock, NotAbsent DEF BlocksInv, BlockOK
<1>3. held' \in [Ids -> 0..MaxAge]
  <2>1. /\ held' = [i \in Ids |-> held'[i]]
        /\ \A i \in Ids : held'[i] = held[i] \/ (held[i] < MaxAge /\ held'[i] = held[i] + 1)
    BY DEF Tick
  <2>2. ASSUME NEW i \in Ids PROVE held'[i] \in 0..MaxAge
    <3>1. held[i] \in 0..MaxAge
      BY DEF BlocksInv
    <3>2. QED BY <2>1, <3>1, BlockAssumption
  <2>3. QED BY <2>1, <2>2
<1>4. \A i \in Ids \ stalled' :
        instances'[i] # Absent /\ instances'[i].type \in Timers => Sound(instances'[i])
  BY <1>1, <1>2 DEF BlocksInv
<1>5. stalled' \subseteq OfType(Timers)'
  BY <1>1, <1>2 DEF BlocksInv, OfType, Present
<1>6. QED BY <1>1, <1>2, <1>3, <1>4, <1>5 DEF BlocksInv

\* Every block is one of its definition, and every timer that is not stalled is
\* sound.
LEMMA BlocksStep == BlocksInv /\ RowsInv /\ [Next]_vars => BlocksInv'
<1> SUFFICES ASSUME BlocksInv, RowsInv, [Next]_vars PROVE BlocksInv'
  OBVIOUS
<1>1. ASSUME NEW p \in Programs, NEW i \in Ids, p[i] # Absent, NEW unread,
             CreateFB(i, p[i], unread)
      PROVE  BlocksInv'
  <2>1. IsDefinition(p[i])
    BY <1>1 DEF IsDefinition
  <2>2. QED BY <1>1, <2>1, CreateStep
<1>2. ASSUME NEW i \in Ids, SaveRow(i) PROVE BlocksInv'
  <2>1. /\ unsaved' \subseteq unsaved
        /\ UNCHANGED <<running, definitions, instances, held, stalled>>
    BY <1>2 DEF SaveRow, registry
  <2>2. QED BY <2>1 DEF BlocksInv, OfType, Present
<1>3. CASE BeginSave
  BY <1>3 DEF BeginSave, BlocksInv, OfType, Present, registry, Idle
<1>4. CASE Stop
  <2>1. /\ running' = FALSE /\ definitions' = [i \in Ids |-> Absent]
        /\ instances' = [i \in Ids |-> Absent]
        /\ unsaved' = {} /\ stalled' = {} /\ held' = [i \in Ids |-> 0]
    BY <1>4 DEF Stop, None
  <2>2. held' \in [Ids -> 0..MaxAge]
    BY <2>1, InRange
  <2>3. QED BY <2>1, <2>2 DEF BlocksInv, OfType, Present
<1>5. CASE UNCHANGED <<running, definitions, instances, unsaved, held, stalled>>
  BY <1>5 DEF BlocksInv, OfType, Present
<1>6. QED BY <1>1, <1>2, <1>3, <1>4, <1>5, BootStep, RemoveStep, ResetStep, ScanStep, TickStep
          DEF Next, vars, registry, Rise, Fall

LEMMA RegistryStarts == Init => RegistryInv
<1> SUFFICES ASSUME Init PROVE RegistryInv
  OBVIOUS
<1>1. BlocksInv
  <2>1. held \in [Ids -> 0..MaxAge]
    BY InRange DEF Init
  <2>2. QED BY <2>1 DEF Init, BlocksInv, None, OfType, Present
<1>2. RowsInv
  BY DEF Init, RowsInv, None
<1>3. MaxEdges \in Nat /\ MaxUpsets \in Nat
  BY RegistryAssumption
<1>4. PlantInv
  BY <1>3 DEF Init, PlantInv
<1>5. FlagsInv
  BY <1>3 DEF Init, FlagsInv
<1>6. QED BY <1>1, <1>2, <1>4, <1>5 DEF RegistryInv

\* RegistryInv holds in every reachable state.
THEOREM RegistryInvariant == Spec => []RegistryInv
<1>1. RegistryInv /\ [Next]_vars => RegistryInv'
  BY BlocksStep, RowsStep, PlantStep, FlagsStep DEF RegistryInv
<1>2. QED BY <1>1, RegistryStarts, PTL DEF Spec

\* Blocks have the fields of their type, timers end at their preset unless they
\* were restored without the start they need, counts stay in i32.
THEOREM BlockTypes == Spec => []TypeOK
<1>1. RegistryInv => TypeOK
  <2> SUFFICES ASSUME RegistryInv PROVE TypeOK
    OBVIOUS
  <2> USE DEF RegistryInv
  <2>1. ASSUME NEW i \in Ids, i \in Present
        PROVE  /\ DOMAIN instances[i] = Fields(instances[i].type)
               /\ instances[i].type \in Timers => /\ instances[i].et_ms \in 0..MaxAge
                                                  /\ instances[i].start \in NotStarted..MaxAge
               /\ instances[i].type \in Counters => instances[i].cv \in -MaxCount..MaxCount
    <3>1. IsBlock(instances[i])
      BY <2>1 DEF BlocksInv, BlockOK, Present
    <3>2. DOMAIN instances[i] = Fields(instances[i].type)
      BY <3>1 DEF IsBlock
    <3>3. instances[i].type \in Timers => /\ instances[i].et_ms \in 0..MaxAge
                                          /\ instances[i].start \in NotStarted..MaxAge
      BY <3>1, Records DEF TONs, TOFs, TPs, Timers
    <3>4. instances[i].type \in Counters => instances[i].cv \in -MaxCount..MaxCount
      BY <3>1, Records DEF CTUs, CTDs, CTUDs, Counters
    <3>5. QED BY <3>2, <3>3, <3>4
  <2>2. \A i \in OfType(Timers) \ stalled : instances[i].et_ms <= instances[i].pt_ms
    BY DEF BlocksInv, OfType, Present, Sound, Short
  <2>3. QED BY <2>1, <2>2 DEF TypeOK, BlocksInv, RowsInv, PlantInv, FlagsInv, OfType, Present
<1>2. QED BY <1>1, RegistryInvariant, PTL

-----------------------------------------------------------------------------
(* What a counter has counted and has still to count of the n edges of a   *)
(* signal, its wire being to the signal or to a trigger t on it.           *)
Direct(c, on, n) == c.cv + Due(on /\ ~c.prev_cu) <= n
Through(c, t, on, n) == c.cv + Due(t.q /\ ~c.prev_cu) + Due(on /\ ~t.prev_clk) <= n

(* The counters of definitions D, in blocks or in rows B, have not counted *)
(* more than there was.                                                    *)
NotAhead(D, B, on, n) ==
  \A i \in Ids, sg \in Signals : D[i] # Absent /\ D[i].type = "CTU" =>
    /\ D[i].inputs.cu = <<"signal", sg>> => Direct(B[i], on[sg], n[sg])
    /\ \A j \in Ids :
         /\ D[i].inputs.cu = <<"fb", j, "q">>
         /\ D[j] # Absent /\ D[j].type = "R_TRIG"
         /\ D[j].inputs.clk = <<"signal", sg>>
         => Through(B[i], B[j], on[sg], n[sg])

CountInv ==
  /\ clean => NotAhead(definitions, instances, level, edges)
  /\ clean /\ whole => NotAhead(writers, rows, level, edges)

(* B has the counters and the triggers of D.                               *)
Counted(D, B) ==
  \A i \in Ids : D[i] # Absent =>
    /\ D[i].type = "CTU" => B[i].cv \in Int /\ B[i].prev_cu \in BOOLEAN
    /\ D[i].type = "R_TRIG" => B[i].q \in BOOLEAN /\ B[i].prev_clk \in BOOLEAN

\* What a counter and a trigger have, in a block or in a row.
LEMMA CounterFields ==
  /\ \A b : IsBlock(b) /\ b.type = "CTU" =>
       b \in CTUs /\ b.cv \in Int /\ b.prev_cu \in BOOLEAN
  /\ \A b : IsBlock(b) /\ b.type = "R_TRIG" =>
       b \in TRIGs /\ b.q \in BOOLEAN /\ b.prev_clk \in BOOLEAN
<1>1. ASSUME NEW b, IsBlock(b), b.type = "CTU"
      PROVE  b \in CTUs /\ b.cv \in Int /\ b.prev_cu \in BOOLEAN
  <2>1. b \in CTUs
    BY <1>1, Records
  <2>2. b.cv \in -MaxCount..MaxCount
    BY <2>1 DEF CTUs
  <2>3. QED BY <2>1, <2>2, BlockAssumption DEF CTUs
<1>2. ASSUME NEW b, IsBlock(b), b.type = "R_TRIG"
      PROVE  b \in TRIGs /\ b.q \in BOOLEAN /\ b.prev_clk \in BOOLEAN
  BY <1>2, Records DEF TRIGs, Triggers
<1>3. QED BY <1>1, <1>2

\* NotAhead looks at cv and prev_cu of a counter, q and prev_clk of a trigger.
LEMMA SameCounts ==
  ASSUME NEW D, NEW B, NEW E, NEW on, NEW n, NotAhead(D, B, on, n),
         \A i \in Ids : D[i] # Absent /\ D[i].type = "CTU" =>
           E[i].cv = B[i].cv /\ E[i].prev_cu = B[i].prev_cu,
         \A j \in Ids : D[j] # Absent /\ D[j].type = "R_TRIG" =>
           E[j].q = B[j].q /\ E[j].prev_clk = B[j].prev_clk
  PROVE  NotAhead(D, E, on, n)
BY DEF NotAhead, Direct, Through

\* A counter that is scanned counts what was due, and no more.
LEMMA DirectScan ==
  ASSUME BlocksInv, PlantInv, NEW i \in Ids, NEW sg \in Signals, NEW readable,
         instances[i] # Absent, instances[i].type = "CTU",
         definitions[i].inputs.cu = <<"signal", sg>>,
         Direct(instances[i], level[sg], edges[sg])
  PROVE  Direct(Execute(Wired(i, readable)), level[sg], edges[sg])
<1> DEFINE b == instances[i]
           w == Wired(i, readable)
           e == Execute(w)
<1>1. IsBlock(b) /\ Remembers(b) /\ b.type = "CTU"
  BY DEF BlocksInv, BlockOK
<1>2. IsBlock(w) /\ w.type = "CTU"
  BY <1>1, WiredIs
<1>3. /\ e.prev_cu = w.cu
      /\ e.cv = 0 \/ e.cv <= w.cv + Due(w.cu /\ ~w.prev_cu)
      /\ e.cv \in Int
  <2>1. w \in CTUs /\ e = ExecuteCTU(w)
    BY <1>2, Records, ExecuteOf
  <2>2. IsBlock(e) /\ e.type = "CTU"
    BY <1>2, Executed
  <2> HIDE DEF e, w
  <2>3. e.cv \in Int
    BY <2>2, CounterFields
  <2>4. QED BY <2>1, <2>3, RunsCTU
<1>4. w.cv = b.cv /\ w.prev_cu = b.prev_cu /\ (w.cu = b.prev_cu \/ w.cu = level[sg])
  <2>1. {"cv", "prev_cu", "cu"} \subseteq DOMAIN b
    BY <1>1, FieldsOf DEF IsBlock
  <2>2. "cv" \notin Inputs(b.type) /\ "prev_cu" \notin Inputs(b.type)
    BY <1>1 DEF Inputs, Triggers
  <2>3. b.cu = b.prev_cu
    BY <1>1, <2>1 DEF Remembers
  <2>4. ValueOf(definitions[i].inputs.cu) = level[sg]
    BY DEF ValueOf
  <2>5. w.cv = b.cv /\ w.prev_cu = b.prev_cu /\ (w.cu = b.cu \/ w.cu = ValueOf(definitions[i].inputs.cu))
    BY <1>1, <2>1, <2>2, WiredIs
  <2>6. QED BY <2>3, <2>4, <2>5
<1>5. /\ b.cv \in Int /\ b.prev_cu \in BOOLEAN /\ level[sg] \in BOOLEAN /\ edges[sg] \in Nat
      /\ level[sg] => edges[sg] > 0
  <2>1. edges[sg] \in 0..MaxEdges /\ MaxEdges \in Nat
    BY RegistryAssumption DEF PlantInv
  <2>2. QED BY <1>1, <2>1, CounterFields DEF PlantInv
<1>6. b.cv + Due(level[sg] /\ ~b.prev_cu) <= edges[sg]
  BY DEF Direct
<1> HIDE DEF b, w, e
<1>7. e.cv + Due(level[sg] /\ ~e.prev_cu) <= edges[sg]
  <2>1. CASE w.cu = b.prev_cu
    BY <2>1, <1>3, <1>4, <1>5, <1>6 DEF Due
  <2>2. CASE w.cu = level[sg]
    BY <2>2, <1>3, <1>4, <1>5, <1>6 DEF Due
  <2>3. QED BY <2>1, <2>2, <1>4
<1>8. QED BY <1>7 DEF Direct, e, w

\* So does one behind a trigger, which the same scan may move on.
LEMMA ThroughScan ==
  ASSUME BlocksInv, PlantInv, NEW i \in Ids, NEW j \in Ids, NEW sg \in Signals, NEW readable,
         instances[i] # Absent, instances[i].type = "CTU",
         instances[j] # Absent, instances[j].type = "R_TRIG",
         definitions[i].inputs.cu = <<"fb", j, "q">>,
         definitions[j].inputs.clk = <<"signal", sg>>,
         Through(instances[i], instances[j], level[sg], edges[sg])
  PROVE  Through(Execute(Wired(i, readable)), Execute(Wired(j, readable)),
                 level[sg], edges[sg])
<1> DEFINE b == instances[i]
           t == instances[j]
           w == Wired(i, readable)
           v == Wired(j, readable)
           e == Execute(w)
           u == Execute(v)
<1>1. /\ IsBlock(b) /\ Remembers(b) /\ b.type = "CTU"
      /\ IsBlock(t) /\ Remembers(t) /\ t.type = "R_TRIG"
  BY DEF BlocksInv, BlockOK
<1>2. IsBlock(w) /\ w.type = "CTU" /\ IsBlock(v) /\ v.type = "R_TRIG"
  BY <1>1, WiredIs
<1>3. /\ e.prev_cu = w.cu
      /\ e.cv = 0 \/ e.cv <= w.cv + Due(w.cu /\ ~w.prev_cu)
      /\ e.cv \in Int
  <2>1. w \in CTUs /\ e = ExecuteCTU(w)
    BY <1>2, Records, ExecuteOf
  <2>2. IsBlock(e) /\ e.type = "CTU"
    BY <1>2, Executed
  <2> HIDE DEF e, w
  <2>3. e.cv \in Int
    BY <2>2, CounterFields
  <2>4. QED BY <2>1, <2>3, RunsCTU
<1>4. u.prev_clk = v.clk /\ u.q = (v.clk /\ ~v.prev_clk)
  <2>1. v \in TRIGs /\ u = ExecuteR_TRIG(v)
    BY <1>2, Records, ExecuteOf DEF Triggers
  <2> HIDE DEF u, v
  <2>2. QED BY <2>1, RunsTRIG
<1>5. w.cv = b.cv /\ w.prev_cu = b.prev_cu /\ (w.cu = b.prev_cu \/ w.cu = t.q)
  <2>1. {"cv", "prev_cu", "cu"} \subseteq DOMAIN b
    BY <1>1, FieldsOf DEF IsBlock
  <2>2. "cv" \notin Inputs(b.type) /\ "prev_cu" \notin Inputs(b.type)
    BY <1>1 DEF Inputs, Triggers
  <2>3. b.cu = b.prev_cu
    BY <1>1, <2>1 DEF Remembers
  <2>4. ValueOf(definitions[i].inputs.cu) = t.q
    BY DEF ValueOf
  <2>5. w.cv = b.cv /\ w.prev_cu = b.prev_cu /\ (w.cu = b.cu \/ w.cu = ValueOf(definitions[i].inputs.cu))
    BY <1>1, <2>1, <2>2, WiredIs
  <2>6. QED BY <2>3, <2>4, <2>5
<1>6. v.prev_clk = t.prev_clk /\ (v.clk = t.prev_clk \/ v.clk = level[sg])
  <2>1. {"clk", "prev_clk"} \subseteq DOMAIN t
    BY <1>1, FieldsOf DEF IsBlock
  <2>2. "prev_clk" \notin Inputs(t.type)
    BY <1>1 DEF Inputs, Triggers
  <2>3. t.clk = t.prev_clk
    BY <1>1, <2>1 DEF Remembers
  <2>4. ValueOf(definitions[j].inputs.clk) = level[sg]
    BY DEF ValueOf
  <2>5. v.prev_clk = t.prev_clk /\ (v.clk = t.clk \/ v.clk = ValueOf(definitions[j].inputs.clk))
    BY <1>1, <2>1, <2>2, WiredIs
  <2>6. QED BY <2>3, <2>4, <2>5
<1>7. /\ b.cv \in Int /\ b.prev_cu \in BOOLEAN /\ t.q \in BOOLEAN /\ t.prev_clk \in BOOLEAN
      /\ level[sg] \in BOOLEAN /\ edges[sg] \in Nat
      /\ level[sg] => edges[sg] > 0
  <2>1. edges[sg] \in 0..MaxEdges /\ MaxEdges \in Nat
    BY RegistryAssumption DEF PlantInv
  <2>2. QED BY <1>1, <2>1, CounterFields DEF PlantInv
<1>8. b.cv + Due(t.q /\ ~b.prev_cu) + Due(level[sg] /\ ~t.prev_clk) <= edges[sg]
  BY DEF Through
<1> HIDE DEF b, t, w, v, e, u
<1>9. e.cv = 0 \/ e.cv <= b.cv + Due(t.q /\ ~b.prev_cu)
  BY <1>3, <1>5, <1>7 DEF Due
<1>10. Due(u.q /\ ~e.prev_cu) + Due(level[sg] /\ ~u.prev_clk) <= Due(level[sg] /\ ~t.prev_clk)
  <2>1. \/ ~(u.q /\ ~e.prev_cu) /\ ((level[sg] /\ ~u.prev_clk) => (level[sg] /\ ~t.prev_clk))
        \/ ((u.q /\ ~e.prev_cu) => (level[sg] /\ ~t.prev_clk)) /\ ~(level[sg] /\ ~u.prev_clk)
    BY <1>4, <1>6, <1>7
  <2>2. \A c \in BOOLEAN, d \in BOOLEAN : (c => d) => Due(c) <= Due(d)
    BY DEF Due
  <2>3. \A c \in BOOLEAN : (~c => Due(c) = 0) /\ Due(c) \in {0, 1}
    BY DEF Due
  <2> DEFINE A == u.q /\ ~e.prev_cu
             B == level[sg] /\ ~u.prev_clk
             C == level[sg] /\ ~t.prev_clk
  <2>4. A \in BOOLEAN /\ B \in BOOLEAN /\ C \in BOOLEAN
    OBVIOUS
  <2>5. (~A /\ (B => C)) \/ ((A => C) /\ ~B)
    BY <2>1
  <2> HIDE DEF A, B, C
  <2>6. Due(A) + Due(B) <= Due(C)
    BY <2>2, <2>3, <2>4, <2>5
  <2>7. QED BY <2>6 DEF A, B, C
<1>11. /\ \A c : Due(c) \in {0, 1}
       /\ Due(level[sg] /\ ~t.prev_clk) <= edges[sg]
  BY <1>7 DEF Due
<1>12. e.cv + Due(u.q /\ ~e.prev_cu) + Due(level[sg] /\ ~u.prev_clk) <= edges[sg]
  <2>1. Due(u.q /\ ~e.prev_cu) \in {0, 1} /\ Due(level[sg] /\ ~u.prev_clk) \in {0, 1}
    BY <1>11
  <2>2. Due(t.q /\ ~b.prev_cu) \in {0, 1} /\ Due(level[sg] /\ ~t.prev_clk) \in {0, 1}
    BY <1>11
  <2>3. QED BY <2>1, <2>2, <1>3, <1>7, <1>8, <1>9, <1>10, <1>11
<1>13. QED BY <1>12 DEF Through, e, u, w, v

\* The plant's moves: what comes on has risen.
LEMMA PlantCounts ==
  ASSUME NEW D, NEW B, Counted(D, B),
         NEW on \in [Signals -> BOOLEAN], NEW n \in [Signals -> Nat],
         NEW on2 \in [Signals -> BOOLEAN], NEW n2 \in [Signals -> Nat],
         \A sg \in Signals : n2[sg] >= n[sg] + Due(on2[sg] /\ ~on[sg]),
         NotAhead(D, B, on, n)
  PROVE  NotAhead(D, B, on2, n2)
<1>1. \A c \in BOOLEAN, d \in BOOLEAN, m \in BOOLEAN :
        Due(d /\ ~m) <= Due(c /\ ~m) + Due(d /\ ~c) /\ Due(d /\ ~m) \in Int /\ Due(c /\ ~m) \in Int
  BY DEF Due
<1>2. ASSUME NEW i \in Ids, NEW sg \in Signals, D[i] # Absent, D[i].type = "CTU",
             Direct(B[i], on[sg], n[sg])
      PROVE  Direct(B[i], on2[sg], n2[sg])
  <2>1. B[i].cv \in Int /\ B[i].prev_cu \in BOOLEAN
    BY <1>2 DEF Counted
  <2>2. on[sg] \in BOOLEAN /\ on2[sg] \in BOOLEAN /\ n[sg] \in Nat /\ n2[sg] \in Nat
    OBVIOUS
  <2>3. Due(on2[sg] /\ ~on[sg]) \in Int
    BY DEF Due
  <2>4. Due(on2[sg] /\ ~B[i].prev_cu) <= Due(on[sg] /\ ~B[i].prev_cu) + Due(on2[sg] /\ ~on[sg])
        /\ Due(on2[sg] /\ ~B[i].prev_cu) \in Int /\ Due(on[sg] /\ ~B[i].prev_cu) \in Int
    BY <1>1, <2>1, <2>2
  <2>5. n2[sg] >= n[sg] + Due(on2[sg] /\ ~on[sg])
    OBVIOUS
  <2>6. QED BY <1>2, <2>1, <2>2, <2>3, <2>4, <2>5 DEF Direct
<1>3. ASSUME NEW i \in Ids, NEW sg \in Signals, D[i] # Absent, D[i].type = "CTU",
             NEW j \in Ids, D[j] # Absent, D[j].type = "R_TRIG",
             Through(B[i], B[j], on[sg], n[sg])
      PROVE  Through(B[i], B[j], on2[sg], n2[sg])
  <2>1. B[i].cv \in Int /\ B[j].prev_clk \in BOOLEAN
    BY <1>3 DEF Counted
  <2>2. on[sg] \in BOOLEAN /\ on2[sg] \in BOOLEAN /\ n[sg] \in Nat /\ n2[sg] \in Nat
    OBVIOUS
  <2>3. Due(on2[sg] /\ ~on[sg]) \in Int /\ Due(B[j].q /\ ~B[i].prev_cu) \in Int
    BY DEF Due
  <2>4. Due(on2[sg] /\ ~B[j].prev_clk) <= Due(on[sg] /\ ~B[j].prev_clk) + Due(on2[sg] /\ ~on[sg])
        /\ Due(on2[sg] /\ ~B[j].prev_clk) \in Int /\ Due(on[sg] /\ ~B[j].prev_clk) \in Int
    BY <1>1, <2>1, <2>2
  <2>5. n2[sg] >= n[sg] + Due(on2[sg] /\ ~on[sg])
    OBVIOUS
  <2>6. QED BY <1>3, <2>1, <2>2, <2>3, <2>4, <2>5 DEF Through
<1>4. QED BY <1>2, <1>3 DEF NotAhead

\* The blocks have counters and triggers where the definitions do, and so have
\* the rows.
LEMMA BothCounted ==
  BlocksInv /\ RowsInv => Counted(definitions, instances) /\ Counted(writers, rows)
<1> SUFFICES ASSUME BlocksInv, RowsInv
             PROVE  Counted(definitions, instances) /\ Counted(writers, rows)
  OBVIOUS
<1>1. Counted(definitions, instances)
  <2>1. ASSUME NEW i \in Ids, definitions[i] # Absent
        PROVE  IsBlock(instances[i]) /\ instances[i].type = definitions[i].type
    BY <2>1 DEF BlocksInv, BlockOK
  <2>2. QED BY <2>1, CounterFields DEF Counted
<1>2. Counted(writers, rows)
  <2>1. ASSUME NEW i \in Ids, writers[i] # Absent, writers[i].type = "CTU"
        PROVE  rows[i].cv \in Int /\ rows[i].prev_cu \in BOOLEAN
    <3>1. IsRow(rows[i], "CTU")
      BY <2>1 DEF RowsInv, RowOK
    <3>2. rows[i].cv \in Kind("cv") /\ rows[i].prev_cu \in Kind("prev_cu")
      BY <3>1, FieldsOf DEF IsRow, Stored
    <3>3. Kind("cv") = -MaxCount..MaxCount /\ Kind("prev_cu") = BOOLEAN
      BY DEF Kind
    <3>4. QED BY <3>2, <3>3, BlockAssumption
  <2>2. ASSUME NEW i \in Ids, writers[i] # Absent, writers[i].type = "R_TRIG"
        PROVE  rows[i].q \in BOOLEAN /\ rows[i].prev_clk \in BOOLEAN
    <3>1. IsRow(rows[i], "R_TRIG")
      BY <2>2 DEF RowsInv, RowOK
    <3>2. rows[i].q \in Kind("q") /\ rows[i].prev_clk \in Kind("prev_clk")
      BY <3>1, FieldsOf DEF IsRow, Stored
    <3>3. QED BY <3>2 DEF Kind
  <2>3. QED BY <2>1, <2>2 DEF Counted
<1>3. QED BY <1>1, <1>2

\* A counter restored from its own row has the count and the level of the row.
LEMMA CounterCreated ==
  ASSUME RowsInv, NEW i \in Ids, NEW d, IsDefinition(d), writers[i] = d
  PROVE  LET b == Created(i, d, {})
         IN  /\ d.type = "CTU" => b.cv = rows[i].cv /\ b.prev_cu = rows[i].prev_cu
             /\ d.type = "R_TRIG" => b.q = rows[i].q /\ b.prev_clk = rows[i].prev_clk
<1> DEFINE n == New(d.type, d.preset)
           b == Created(i, d, {})
<1>1. d.type \in Types /\ d.preset \in PresetOf(d.type) /\ d # Absent
  BY DefinitionIs DEF IsDefinition
<1>2. IsBlock(n) /\ n.type = d.type /\ Remembers(n) /\ Fresh(n)
  BY <1>1, NewIs
<1>3. rows[i] # Absent
  BY <1>1 DEF RowsInv
<1>4. b = Deserialized(n, rows[i])
  BY <1>3 DEF Created, Loaded
<1>5. IsRow(rows[i], d.type) /\ Remembers(rows[i])
  <2>1. d.type # "stalled"
    BY <1>1 DEF Types, Timers, Counters, Triggers
  <2>2. QED BY <1>3, <2>1 DEF RowsInv, RowOK
<1>6. n.type \in Timers => n.start = NotStarted
  BY <1>2 DEF Fresh
<1> HIDE DEF n, b
<1>7. \A f \in Stored(d.type) : b[f] = rows[i][f]
  BY <1>1, <1>2, <1>4, <1>5, <1>6, DeserializedIs
<1>8. QED BY <1>7, FieldsOf DEF Stored, b

\* A registry that starts from nothing, or from the rows of a whole save, is not
\* ahead of the plant.
LEMMA CountBoot ==
  ASSUME BlocksInv, RowsInv, PlantInv, CountInv,
         NEW p \in Programs, NEW unread, Boot(p, unread)
  PROVE  CountInv'
<1> DEFINE built == [i \in Ids |-> IF p[i] = Absent THEN Absent
                                   ELSE Created(i, p[i], unread)]
<1>1. /\ instances' = built /\ definitions' = p
      /\ clean' = (clean /\ (rows = None \/ (whole /\ writers = p /\ unread = {})))
      /\ UNCHANGED <<rows, writers, level, edges, whole>>
  BY DEF Boot, disk, plant
<1>2. ASSUME NEW i \in Ids, p[i] # Absent
      PROVE  built[i] = Created(i, p[i], unread) /\ IsDefinition(p[i])
  BY <1>2 DEF IsDefinition
<1> HIDE DEF built
<1>3. ASSUME rows = None PROVE NotAhead(p, built, level, edges)
  <2>1. ASSUME NEW i \in Ids, p[i] # Absent
        PROVE  IsBlock(built[i]) /\ built[i].type = p[i].type /\ Fresh(built[i])
    <3>1. rows[i] = Absent
      BY <1>3 DEF None
    <3>2. QED BY <1>2, <2>1, <3>1, CreatedIs DEF BlockOK
  <2>2. ASSUME NEW sg \in Signals
        PROVE  edges[sg] \in Nat /\ \A m : Due(level[sg] /\ ~m) <= edges[sg]
    <3>1. edges[sg] \in 0..MaxEdges /\ (level[sg] => edges[sg] > 0)
      BY <2>2 DEF PlantInv
    <3>2. QED BY <3>1, RegistryAssumption DEF Due
  <2>3. ASSUME NEW i \in Ids, p[i] # Absent, p[i].type = "CTU", NEW sg \in Signals
        PROVE  Direct(built[i], level[sg], edges[sg])
    <3>1. built[i].cv = 0
      BY <2>1, <2>3 DEF Fresh
    <3>2. QED BY <2>2, <3>1 DEF Direct, Due
  <2>4. ASSUME NEW i \in Ids, p[i] # Absent, p[i].type = "CTU", NEW sg \in Signals,
               NEW j \in Ids, p[j] # Absent, p[j].type = "R_TRIG"
        PROVE  Through(built[i], built[j], level[sg], edges[sg])
    <3>1. built[i].cv = 0 /\ ~built[j].q
      BY <2>1, <2>4 DEF Fresh, Triggers
    <3>2. QED BY <2>2, <3>1 DEF Through, Due
  <2>5. QED BY <2>3, <2>4 DEF NotAhead
<1>4. ASSUME clean, whole, writers = p, unread = {} PROVE NotAhead(p, built, level, edges)
  <2>1. NotAhead(p, rows, level, edges)
    BY <1>4 DEF CountInv
  <2>2. \A i \in Ids : p[i] # Absent =>
          /\ p[i].type = "CTU" => built[i].cv = rows[i].cv /\ built[i].prev_cu = rows[i].prev_cu
          /\ p[i].type = "R_TRIG" => built[i].q = rows[i].q /\ built[i].prev_clk = rows[i].prev_clk
    BY <1>2, <1>4, CounterCreated
  <2>3. QED BY <2>1, <2>2, SameCounts
<1>5. clean' => NotAhead(p, built, level, edges)
  BY <1>1, <1>3, <1>4
<1>6. clean' => clean
  BY <1>1
<1>7. QED BY <1>1, <1>5, <1>6 DEF CountInv

LEMMA CountScan ==
  ASSUME BlocksInv, PlantInv, CountInv, NEW readable, Scan(readable)
  PROVE  CountInv'
<1> DEFINE e(i) == Execute(Wired(i, readable))
<1>1. /\ \A i \in Ids : instances'[i] = IF instances[i] # Absent THEN e(i) ELSE Absent
      /\ UNCHANGED <<definitions, rows, writers, level, edges, whole, clean>>
  BY DEF Scan, Present, disk, plant
<1>2. ASSUME NEW i \in Ids, definitions[i] # Absent
      PROVE  /\ instances[i] # Absent /\ instances[i].type = definitions[i].type
             /\ instances'[i] = e(i)
  BY <1>1, <1>2 DEF BlocksInv, BlockOK
<1>3. ASSUME clean PROVE NotAhead(definitions, instances', level, edges)
  <2>1. NotAhead(definitions, instances, level, edges)
    BY <1>3 DEF CountInv
  <2>2. ASSUME NEW i \in Ids, NEW sg \in Signals, definitions[i] # Absent,
               definitions[i].type = "CTU", definitions[i].inputs.cu = <<"signal", sg>>
        PROVE  Direct(instances'[i], level[sg], edges[sg])
    <3>1. Direct(instances[i], level[sg], edges[sg])
      BY <2>1, <2>2 DEF NotAhead
    <3>2. Direct(e(i), level[sg], edges[sg])
      BY <1>2, <2>2, <3>1, DirectScan
    <3>3. QED BY <1>2, <2>2, <3>2
  <2>3. ASSUME NEW i \in Ids, NEW sg \in Signals, NEW j \in Ids, definitions[i] # Absent,
               definitions[i].type = "CTU", definitions[i].inputs.cu = <<"fb", j, "q">>,
               definitions[j] # Absent, definitions[j].type = "R_TRIG",
               definitions[j].inputs.clk = <<"signal", sg>>
        PROVE  Through(instances'[i], instances'[j], level[sg], edges[sg])
    <3>1. Through(instances[i], instances[j], level[sg], edges[sg])
      BY <2>1, <2>3 DEF NotAhead
    <3>2. Through(e(i), e(j), level[sg], edges[sg])
      BY <1>2, <2>3, <3>1, ThroughScan
    <3>3. QED BY <1>2, <2>3, <3>2
  <2> HIDE DEF e
  <2>4. QED BY <2>2, <2>3 DEF NotAhead
<1> HIDE DEF e
<1>4. QED BY <1>1, <1>3 DEF CountInv

\* The last row of a whole save has the counts of the blocks.
LEMMA CountSave ==
  ASSUME BlocksInv, CountInv, NEW i \in Ids, SaveRow(i)
  PROVE  CountInv'
<1>1. UNCHANGED <<definitions, instances, level, edges, clean>>
  BY DEF SaveRow, registry, plant
<1>2. CASE whole /\ UNCHANGED disk
  BY <1>1, <1>2 DEF CountInv, disk
<1>3. CASE \A j \in Ids : /\ writers'[j] = IF j \in Present THEN Writer(j) ELSE Absent
                          /\ j \in Present => rows'[j] = Serialized(instances[j])
  <2>1. ASSUME NEW j \in Ids, writers'[j] # Absent, writers'[j].type # "stalled"
        PROVE  /\ definitions[j] # Absent /\ writers'[j] = definitions[j]
               /\ \A f \in Stored(definitions[j].type) : rows'[j][f] = instances[j][f]
               /\ definitions[j].type \in Types
    <3>1. j \in Present /\ writers'[j] = Writer(j) /\ rows'[j] = Serialized(instances[j])
      BY <1>3, <2>1
    <3>2. BlockOK(instances[j], definitions[j])
      BY <3>1 DEF Present, BlocksInv
    <3>3. writers'[j] = definitions[j]
      BY <2>1, <3>1, <3>2, DefinitionIs DEF Writer, BlockOK
    <3>4. \A f \in Stored(definitions[j].type) : rows'[j][f] = instances[j][f]
      BY <3>1, <3>2, SerializedIs DEF BlockOK
    <3>5. QED BY <2>1, <3>2, <3>3, <3>4, DefinitionIs DEF BlockOK
  <2>2. ASSUME clean PROVE NotAhead(writers', rows', level, edges)
    <3>1. NotAhead(definitions, instances, level, edges)
      BY <2>2 DEF CountInv
    <3>2. ASSUME NEW j \in Ids, writers'[j] # Absent, writers'[j].type = "CTU"
          PROVE  /\ definitions[j] # Absent /\ writers'[j] = definitions[j]
                 /\ rows'[j].cv = instances[j].cv /\ rows'[j].prev_cu = instances[j].prev_cu
      BY <2>1, <3>2, FieldsOf DEF Stored
    <3>3. ASSUME NEW j \in Ids, writers'[j] # Absent, writers'[j].type = "R_TRIG"
          PROVE  /\ definitions[j] # Absent /\ writers'[j] = definitions[j]
                 /\ rows'[j].q = instances[j].q /\ rows'[j].prev_clk = instances[j].prev_clk
      BY <2>1, <3>3, FieldsOf DEF Stored
    <3>4. NotAhead(writers', instances, level, edges)
      BY <3>1, <3>2, <3>3 DEF NotAhead
    <3>5. QED BY <3>2, <3>3, <3>4, SameCounts
  <2>3. QED BY <1>1, <2>2 DEF CountInv
<1>4. QED BY <1>1, <1>2, <1>3 DEF SaveRow, CountInv

LEMMA CountTick ==
  ASSUME BlocksInv, CountInv, Tick
  PROVE  CountInv'
<1>1. /\ \A i \in Ids : instances'[i] = IF instances[i] # Absent THEN Aged(instances[i]) ELSE Absent
      /\ UNCHANGED <<definitions, rows, writers, level, edges, whole, clean>>
  BY DEF Tick, Present, disk, plant
<1>2. ASSUME NEW i \in Ids, definitions[i] # Absent, definitions[i].type \notin Timers
      PROVE  instances'[i] = instances[i]
  <2>1. instances[i] # Absent /\ instances[i].type = definitions[i].type
    BY <1>2 DEF BlocksInv, BlockOK
  <2>2. QED BY <1>1, <1>2, <2>1 DEF Aged
<1>3. ASSUME clean PROVE NotAhead(definitions, instances', level, edges)
  <2>1. NotAhead(definitions, instances, level, edges)
    BY <1>3 DEF CountInv
  <2>2. QED BY <1>2, <2>1, SameCounts DEF Timers
<1>4. QED BY <1>1, <1>3 DEF CountInv

LEMMA CountPlant ==
  ASSUME BlocksInv, RowsInv, PlantInv, PlantInv', CountInv, NEW sg \in Signals,
         Rise(sg) \/ Fall(sg)
  PROVE  CountInv'
<1>1. UNCHANGED <<definitions, instances, rows, writers, whole, clean>>
  BY DEF Rise, Fall, registry, disk
<1>2. /\ level \in [Signals -> BOOLEAN] /\ edges \in [Signals -> Nat]
      /\ level' \in [Signals -> BOOLEAN] /\ edges' \in [Signals -> Nat]
  BY RegistryAssumption DEF PlantInv
<1>3. \A s \in Signals : edges'[s] >= edges[s] + Due(level'[s] /\ ~level[s])
  <2>1. CASE Rise(sg)
    BY <1>2, <2>1 DEF Rise, Due
  <2>2. CASE Fall(sg)
    BY <1>2, <2>2 DEF Fall, Due
  <2>3. QED BY <2>1, <2>2
<1>4. Counted(definitions, instances) /\ Counted(writers, rows)
  BY BothCounted
<1>5. clean => NotAhead(definitions, instances, level', edges')
  BY <1>2, <1>3, <1>4, PlantCounts DEF CountInv
<1>6. clean /\ whole => NotAhead(writers, rows, level', edges')
  BY <1>2, <1>3, <1>4, PlantCounts DEF CountInv
<1>7. QED BY <1>1, <1>5, <1>6 DEF CountInv

LEMMA CountStep == RegistryInv /\ RegistryInv' /\ CountInv /\ [Next]_vars => CountInv'
<1> SUFFICES ASSUME RegistryInv, RegistryInv', CountInv, [Next]_vars PROVE CountInv'
  OBVIOUS
<1> USE DEF RegistryInv
<1>1. CASE clean' = FALSE
  BY <1>1 DEF CountInv
<1>2. CASE Stop
  <2>1. UNCHANGED <<rows, writers, level, edges, whole, clean>> /\ definitions' = None
    BY <1>2 DEF Stop, disk, plant
  <2>2. NotAhead(None, instances', level, edges)
    BY DEF NotAhead, None
  <2>3. QED BY <2>1, <2>2 DEF CountInv
<1>3. CASE UNCHANGED <<definitions, instances, rows, writers, level, edges, whole, clean>>
  BY <1>3 DEF CountInv
<1>4. QED BY <1>1, <1>2, <1>3, CountBoot, CountScan, CountSave, CountTick, CountPlant
          DEF Next, vars, registry, disk, plant, CreateFB, RemoveFB, ResetAll, BeginSave

\* No counter is ahead of the edges of its signal, on the disk either.
THEOREM EdgesCountedOnce == Spec => []CountedOnce
<1>1. Init => CountInv
  BY DEF Init, CountInv, NotAhead, None
<1>2. Spec => []CountInv
  BY <1>1, RegistryInvariant, CountStep, PTL DEF Spec
<1>3. RegistryInv /\ CountInv => CountedOnce
  <2> SUFFICES ASSUME RegistryInv, CountInv, clean, NEW i \in Ids, NEW sg \in Signals,
                      Counts(i, sg)
               PROVE  instances[i].cv <= edges[sg]
    BY DEF CountedOnce
  <2> USE DEF RegistryInv
  <2>1. Counted(definitions, instances)
    BY BothCounted
  <2>2. /\ \A j \in Present : definitions[j] # Absent /\ instances[j].type = definitions[j].type
        /\ i \in Present /\ instances[i].type = "CTU" /\ edges[sg] \in Nat
    <3>1. i \in Present /\ instances[i].type = "CTU"
      BY DEF Counts, OfType
    <3>2. edges[sg] \in 0..MaxEdges /\ MaxEdges \in Nat
      BY RegistryAssumption DEF PlantInv
    <3>3. QED BY <3>1, <3>2 DEF BlocksInv, BlockOK, Present
  <2>3. instances[i].cv \in Int
    BY <2>1, <2>2 DEF Counted, Present
  <2>4. NotAhead(definitions, instances, level, edges)
    BY DEF CountInv
  <2>5. CASE definitions[i].inputs.cu = <<"signal", sg>>
    <3>1. Direct(instances[i], level[sg], edges[sg])
      BY <2>2, <2>4, <2>5 DEF NotAhead, Present
    <3>2. QED BY <2>2, <2>3, <3>1 DEF Direct, Due
  <2>6. CASE definitions[i].inputs.cu # <<"signal", sg>>
    <3> DEFINE j == definitions[i].inputs.cu[2]
    <3>1. /\ definitions[i].inputs.cu = <<"fb", j, "q">> /\ j \in Present
          /\ instances[j].type = "R_TRIG" /\ definitions[j].inputs.clk = <<"signal", sg>>
      BY <2>6 DEF Counts, OfType
    <3> HIDE DEF j
    <3>2. Through(instances[i], instances[j], level[sg], edges[sg])
      BY <2>2, <2>4, <3>1 DEF NotAhead, Present
    <3>3. QED BY <2>2, <2>3, <3>2 DEF Through, Due
  <2>7. QED BY <2>5, <2>6
<1>4. QED BY <1>2, <1>3, RegistryInvariant, PTL

-----------------------------------------------------------------------------
(* An on-delay timer on the wall clock, in a block or in a row: its output *)
(* is on only with its input and the time at the preset, and off only      *)
(* short of it.                                                            *)
Clocked(b) ==
  /\ ~b.prev_input => ~b.output
  /\ b.output => b.et_ms = b.pt_ms
  /\ b.prev_input /\ ~b.output => b.et_ms < b.pt_ms

(* Such a block whose input was seen on for h.                             *)
Measured(b, h) ==
  /\ b.output => h >= b.pt_ms
  /\ b.prev_input /\ ~b.output => b.start # NotStarted
  /\ b.prev_input /\ b.start # NotStarted => h >= b.start
  /\ b.output /\ b.start # NotStarted => b.start >= b.pt_ms

OnClock(b) == b.type = "TON" /\ b.mode = "wall_clock"

ClockInv ==
  /\ \A i \in Ids \ stalled : instances[i] # Absent /\ OnClock(instances[i]) =>
       Clocked(instances[i]) /\ Measured(instances[i], held[i])
  /\ \A i \in Ids :
       rows[i] # Absent /\ writers[i].type = "TON" /\ rows[i].mode = "wall_clock"
         => Clocked(rows[i])

\* A timer at rest keeps time, whatever it was before.
LEMMA ClockAtRest ==
  ASSUME NEW b, NEW h, ~b.prev_input, ~b.output
  PROVE  Clocked(b) /\ Measured(b, h)
BY DEF Clocked, Measured

\* A scan takes the time since the start, which the history is not short of.
LEMMA ClockRuns ==
  ASSUME NEW b \in TONs, b.mode = "wall_clock", NEW h \in 0..MaxAge,
         Clocked(b), Measured(b, h)
  PROVE  LET e == ExecuteTON(b)
         IN  Clocked(e) /\ Measured(e, IF b.input /\ b.prev_input THEN h ELSE 0)
<1> DEFINE e == ExecuteTON(b)
           start == IF b.prev_input THEN b.start ELSE 0
           elapsed == IF start = NotStarted THEN b.et_ms ELSE start
           h2 == IF b.input /\ b.prev_input THEN h ELSE 0
<1>1. e \in TONs /\ e.pt_ms = b.pt_ms /\ e.prev_input = b.input
  BY RunsTON
<1>2. CASE ~b.input
  <2>1. ~e.output /\ ~e.prev_input
    BY <1>1, <1>2, RunsTON
  <2>2. QED BY <2>1, ClockAtRest
<1>3. CASE b.input
  <2>1. /\ e.start = start /\ e.output = (b.output \/ elapsed >= b.pt_ms)
        /\ e.et_ms = IF elapsed >= b.pt_ms THEN b.pt_ms ELSE elapsed
    BY <1>3, RunsTON
  <2>2. /\ b.pt_ms \in 0..MaxAge /\ b.et_ms \in 0..MaxAge /\ b.start \in NotStarted..MaxAge
        /\ b.output \in BOOLEAN /\ b.prev_input \in BOOLEAN
    BY DEF TONs
  <2>3. e.prev_input = TRUE
    BY <1>1, <1>3 DEF TONs
  <2>4. e.output <=> (b.output \/ elapsed >= b.pt_ms)
    BY <2>1
  <2> HIDE DEF e
  <2>5. CASE ~b.prev_input
    <3>1. start = 0 /\ elapsed = 0 /\ ~b.output /\ h2 = 0
      BY <2>5, InRange DEF Clocked
    <3> HIDE DEF start, elapsed, h2
    <3>2. (e.output <=> 0 >= b.pt_ms) /\ e.start = 0
      BY <3>1, <2>1, <2>4
    <3>3. e.et_ms = IF 0 >= b.pt_ms THEN b.pt_ms ELSE 0
      BY <3>1, <2>1
    <3>4. Clocked(e)
      BY <3>2, <3>3, <2>2, <2>3, <1>1 DEF Clocked
    <3>5. Measured(e, h2)
      BY <3>1, <3>2, <2>2, <1>1, InRange DEF Measured
    <3>6. QED BY <3>4, <3>5 DEF e, h2
  <2>6. CASE b.prev_input
    <3>1. start = b.start /\ h2 = h
      BY <2>6, <1>3
    <3>2. CASE b.output
      <4>1. elapsed >= b.pt_ms /\ h >= b.pt_ms
        BY <3>1, <3>2, <2>2 DEF Clocked, Measured
      <4> HIDE DEF start, elapsed, h2
      <4>2. e.output /\ e.et_ms = b.pt_ms /\ e.start = b.start
        BY <4>1, <3>1, <3>2, <2>1, <2>4
      <4>3. Clocked(e)
        BY <4>2, <2>3, <1>1 DEF Clocked
      <4>4. Measured(e, h2)
        BY <4>1, <4>2, <3>1, <3>2, <2>6, <1>1 DEF Measured
      <4>5. QED BY <4>3, <4>4 DEF e, h2
    <3>3. CASE ~b.output
      <4>1. b.start # NotStarted /\ elapsed = b.start /\ h >= b.start
        BY <3>1, <3>3, <2>6 DEF Measured
      <4>2. b.start \in 0..MaxAge
        BY <4>1, <2>2 DEF NotStarted
      <4> HIDE DEF start, elapsed, h2
      <4>3. (e.output <=> b.start >= b.pt_ms) /\ e.start = b.start
        BY <4>1, <3>1, <3>3, <2>1, <2>4
      <4>4. e.et_ms = IF b.start >= b.pt_ms THEN b.pt_ms ELSE b.start
        BY <4>1, <2>1
      <4>5. Clocked(e)
        BY <4>2, <4>3, <4>4, <2>2, <2>3, <1>1 DEF Clocked
      <4>6. Measured(e, h2)
        BY <4>1, <4>2, <4>3, <3>1, <2>2, <1>1 DEF Measured
      <4>7. QED BY <4>5, <4>6 DEF e, h2
    <3>4. QED BY <3>2, <3>3
  <2>7. QED BY <2>5, <2>6, <2>2 DEF e
<1>4. QED BY <1>2, <1>3

\* Time passes for the timer and for the history alike.
LEMMA ClockAges ==
  ASSUME NEW b, IsBlock(b), Remembers(b), b.type = "TON", NEW h \in 0..MaxAge,
         Clocked(b), Measured(b, h)
  PROVE  /\ Clocked(Aged(b))
         /\ Measured(Aged(b), IF b.input /\ h < MaxAge THEN h + 1 ELSE h)
<1> DEFINE a == Aged(b)
           h2 == IF b.input /\ h < MaxAge THEN h + 1 ELSE h
<1>1. /\ \A f \in DOMAIN b \ {"start"} : a[f] = b[f]
      /\ a.start = IF b.start # NotStarted /\ b.start < MaxAge THEN b.start + 1 ELSE b.start
  BY AgedIs DEF Timers
<1>2. /\ a.et_ms = b.et_ms /\ a.pt_ms = b.pt_ms /\ a.output = b.output
      /\ a.prev_input = b.prev_input
  BY <1>1, FieldsOf DEF IsBlock
<1>3. b.start \in NotStarted..MaxAge /\ b.pt_ms \in 0..MaxAge /\ b.prev_input = b.input
  BY Records, RememberedIn DEF TONs, Remembers, Timers
<1> HIDE DEF a
<1>4. h2 >= h /\ (b.input => h2 = h + 1 \/ h2 = MaxAge) /\ h2 \in Int
  BY BlockAssumption
<1>5. Clocked(a)
  BY <1>2 DEF Clocked
<1> HIDE DEF h2
<1>6. Measured(a, h2)
  <2>1. b.output => h2 >= b.pt_ms
    BY <1>3, <1>4 DEF Measured
  <2>2. b.start # NotStarted <=> a.start # NotStarted
    BY <1>1, <1>3 DEF NotStarted
  <2>3. b.prev_input /\ b.start # NotStarted => h2 >= a.start
    <3>1. SUFFICES ASSUME b.prev_input, b.start # NotStarted PROVE h2 >= a.start
      OBVIOUS
    <3>2. h >= b.start /\ (h2 = h + 1 \/ h2 = MaxAge)
      BY <3>1, <1>3, <1>4 DEF Measured
    <3>3. a.start = b.start + 1 \/ a.start = b.start
      BY <1>1
    <3>4. a.start <= MaxAge
      BY <1>1, <1>3, BlockAssumption DEF NotStarted
    <3>5. QED BY <3>2, <3>3, <3>4, <1>3, <1>4, BlockAssumption DEF NotStarted
  <2>4. b.output /\ b.start # NotStarted => a.start >= b.pt_ms
    BY <1>1, <1>3 DEF Measured, NotStarted
  <2>5. QED BY <1>2, <2>1, <2>2, <2>3, <2>4 DEF Measured
<1>7. QED BY <1>5, <1>6 DEF a, h2

\* A timer that has not misread its row goes on from the time the row has.
LEMMA ClockCreated ==
  ASSUME RowsInv, ClockInv, NEW i \in Ids, NEW d, IsDefinition(d), NEW unread,
         OnClock(Created(i, d, unread)),
         i \in unread \/ ~Misread(i, Created(i, d, unread))
  PROVE  LET b == Created(i, d, unread)
         IN  Clocked(b) /\ Measured(b, Credit(b))
<1> DEFINE n == New(d.type, d.preset)
           b == Created(i, d, unread)
<1>1. d.type \in Types /\ d.preset \in PresetOf(d.type)
  BY DefinitionIs
<1>2. IsBlock(n) /\ n.type = d.type /\ Remembers(n) /\ Fresh(n)
  BY <1>1, NewIs
<1>3. b = IF rows[i] = Absent \/ i \in unread THEN n ELSE Deserialized(n, rows[i])
  BY DEF Created, Loaded
<1>4. BlockOK(b, d) /\ b.type = "TON" /\ b.mode = "wall_clock"
  BY CreatedIs DEF OnClock
<1>5. d.type = "TON" /\ n.start = NotStarted /\ ~n.prev_input /\ ~n.output
  BY <1>2, <1>4 DEF BlockOK, Fresh, Timers
<1>6. Credit(b) = b.et_ms
  BY <1>4 DEF Credit, Timers
<1> HIDE DEF n
<1>7. CASE rows[i] = Absent \/ i \in unread
  BY <1>3, <1>5, <1>7, ClockAtRest
<1>8. CASE rows[i] # Absent /\ i \notin unread
  <2> DEFINE r == rows[i]
  <2>1. b = Deserialized(n, r)
    BY <1>3, <1>8
  <2>2. writers[i].type = "TON" /\ ~(Frozen(b) /\ b.et_ms = 0)
    BY <1>4, <1>8 DEF Misread, RowsInv, Timers
  <2>3. IsRow(r, "TON") /\ Remembers(r)
    BY <1>8, <2>2 DEF RowsInv, RowOK
  <2>4. "TON" \in Types
    BY DEF Types, Timers
  <2> HIDE DEF b
  <2>5. /\ \A f \in Stored("TON") : b[f] = r[f]
        /\ b.start = IF Resumes(b) THEN b.et_ms ELSE NotStarted
    BY <1>2, <1>5, <2>1, <2>3, <2>4, DeserializedIs DEF Timers
  <2>6. /\ b.et_ms = r.et_ms /\ b.pt_ms = r.pt_ms /\ b.output = r.output
        /\ b.prev_input = r.prev_input /\ b.mode = r.mode
    BY <2>5, FieldsOf DEF Stored
  <2>7. Clocked(b)
    <3>1. Clocked(r)
      BY <1>4, <1>8, <2>2, <2>6 DEF ClockInv
    <3>2. QED BY <3>1, <2>6 DEF Clocked
  <2>8. b.et_ms \in 0..MaxAge /\ b.pt_ms \in 0..MaxAge /\ b.prev_input = b.input
    BY <1>4, Records, RememberedIn DEF BlockOK, TONs, Remembers, Timers
  <2>9. Resumes(b) <=> b.input /\ b.et_ms > 0 /\ b.et_ms < b.pt_ms
    BY <1>4 DEF Resumes, ResumesTON, MidTime
  <2>10. Measured(b, b.et_ms)
    <3>1. b.prev_input /\ ~b.output => b.start # NotStarted
      <4>1. SUFFICES ASSUME b.prev_input, ~b.output PROVE b.start # NotStarted
        OBVIOUS
      <4>2. b.et_ms < b.pt_ms
        BY <4>1, <2>7 DEF Clocked
      <4>3. CASE b.et_ms = 0
        BY <4>1, <4>3, <2>2, <1>4 DEF Frozen, Timers
      <4>4. CASE b.et_ms > 0
        <5>1. b.start = b.et_ms
          BY <4>1, <4>2, <4>4, <2>5, <2>8, <2>9
        <5>2. QED BY <5>1, <2>8 DEF NotStarted
      <4>5. QED BY <4>3, <4>4, <2>8
    <3>2. b.output => b.et_ms = b.pt_ms /\ b.start = NotStarted
      BY <2>5, <2>7, <2>8, <2>9 DEF Clocked
    <3>3. b.start # NotStarted => b.start = b.et_ms
      BY <2>5
    <3>4. QED BY <3>1, <3>2, <3>3, <2>8 DEF Measured
  <2>11. QED BY <1>6, <2>7, <2>10 DEF b
<1>9. QED BY <1>7, <1>8

-----------------------------------------------------------------------------
LEMMA ClockBoot ==
  ASSUME BlocksInv, RowsInv, ClockInv, NEW p \in Programs, NEW unread, Boot(p, unread)
  PROVE  ClockInv'
<1> DEFINE built == [i \in Ids |-> IF p[i] = Absent THEN Absent
                                   ELSE Created(i, p[i], unread)]
<1>1. /\ instances' = built /\ rows' = rows /\ writers' = writers
      /\ held' = [i \in Ids |-> IF p[i] = Absent THEN 0 ELSE Credit(built[i])]
      /\ stalled' = {i \in Ids \ unread : p[i] # Absent /\ Misread(i, built[i])}
  BY DEF Boot, disk
<1>2. ASSUME NEW i \in Ids \ stalled', instances'[i] # Absent, OnClock(instances'[i])
      PROVE  Clocked(instances'[i]) /\ Measured(instances'[i], held'[i])
  <2>1. p[i] # Absent
    BY <1>1, <1>2
  <2>2. IsDefinition(p[i]) /\ built[i] = Created(i, p[i], unread)
    BY <2>1 DEF IsDefinition
  <2> HIDE DEF built
  <2>3. instances'[i] = built[i] /\ held'[i] = Credit(built[i])
    BY <1>1, <2>1
  <2>4. i \in unread \/ ~Misread(i, built[i])
    BY <1>1, <1>2, <2>1
  <2>5. QED BY <1>2, <2>2, <2>3, <2>4, ClockCreated
<1>3. QED BY <1>1, <1>2 DEF ClockInv

LEMMA ClockCreate ==
  ASSUME BlocksInv, RowsInv, ClockInv, NEW i \in Ids, NEW d, IsDefinition(d), NEW unread,
         CreateFB(i, d, unread)
  PROVE  ClockInv'
<1> DEFINE b == Created(i, d, unread)
<1>1. /\ instances' = [instances EXCEPT ![i] = b] /\ rows' = rows /\ writers' = writers
      /\ held' = [held EXCEPT ![i] = Credit(b)]
      /\ stalled' = IF i \notin unread /\ Misread(i, b) THEN stalled \cup {i} ELSE stalled
      /\ instances[i] = Absent
  BY DEF CreateFB, disk
<1>2. i \notin stalled /\ DOMAIN instances = Ids /\ DOMAIN held = Ids
  BY <1>1 DEF BlocksInv, OfType, Present
<1>3. OnClock(b) /\ (i \in unread \/ ~Misread(i, b)) => Clocked(b) /\ Measured(b, Credit(b))
  BY ClockCreated
<1> HIDE DEF b
<1>4. QED BY <1>1, <1>2, <1>3 DEF ClockInv

LEMMA ClockReset ==
  ASSUME BlocksInv, ClockInv, ResetAll
  PROVE  ClockInv'
<1>1. /\ \A i \in Ids : instances'[i] = IF instances[i] # Absent THEN Reset(instances[i]) ELSE Absent
      /\ rows' = rows /\ writers' = writers
  BY DEF ResetAll, Present, disk
<1>2. ASSUME NEW i \in Ids, instances'[i] # Absent, OnClock(instances'[i])
      PROVE  Clocked(instances'[i]) /\ Measured(instances'[i], held'[i])
  <2>1. instances'[i] = Reset(instances[i]) /\ IsBlock(instances[i])
    BY <1>1, <1>2 DEF BlocksInv, BlockOK
  <2>2. ~instances'[i].prev_input /\ ~instances'[i].output
    BY <1>2, <2>1, ResetIs DEF Fresh, OnClock, Timers
  <2>3. QED BY <2>2, ClockAtRest
<1>3. QED BY <1>1, <1>2 DEF ClockInv

\* Wires leave the preset, and a timer on the wall clock was on it before.
LEMMA SteadyWired ==
  ASSUME SteadyTimers, NEW i \in Ids, NEW readable, BlockOK(instances[i], definitions[i]),
         instances[i].type = "TON", Wired(i, readable).mode = "wall_clock"
  PROVE  instances[i].mode = "wall_clock" /\ Wired(i, readable).pt_ms = instances[i].pt_ms
<1> DEFINE b == instances[i]
           w == Wired(i, readable)
           d == definitions[i]
<1>1. PICK p \in Programs, j \in Ids : d # Absent /\ d = p[j]
  BY DEF BlockOK, IsDefinition
<1>2. d.type \in Timers
  BY DEF BlockOK, Timers
<1>3. /\ "pt_ms" \notin DOMAIN d.inputs
      /\ "mode" \in DOMAIN d.inputs => d.inputs.mode = <<"value", "scan_cycle">>
  BY <1>1, <1>2 DEF SteadyTimers
<1>4. \A f \in DOMAIN b : w[f] = b[f] \/ (f \in DOMAIN d.inputs /\ w[f] = ValueOf(d.inputs[f]))
  BY WiredIs DEF BlockOK
<1>5. "pt_ms" \in DOMAIN b /\ "mode" \in DOMAIN b
  BY FieldsOf DEF BlockOK, IsBlock
<1>6. ValueOf(<<"value", "scan_cycle">>) = "scan_cycle"
  BY DEF ValueOf
<1>7. QED BY <1>3, <1>4, <1>5, <1>6

LEMMA ClockScan ==
  ASSUME SteadyTimers, BlocksInv, ClockInv, NEW readable, Scan(readable)
  PROVE  ClockInv'
<1> DEFINE w(i) == Wired(i, readable)
           e(i) == Execute(w(i))
<1>1. /\ \A i \in Ids : instances'[i] = IF instances[i] # Absent THEN e(i) ELSE Absent
      /\ \A i \in Ids : instances[i] # Absent =>
           held'[i] = IF InputOn(w(i)) /\ instances[i].prev_input THEN held[i] ELSE 0
      /\ stalled' = {i \in stalled : ~AtRest(instances'[i])}
      /\ rows' = rows /\ writers' = writers
  BY DEF Scan, Present, disk
<1>2. ASSUME NEW i \in Ids \ stalled', instances'[i] # Absent, OnClock(instances'[i])
      PROVE  Clocked(instances'[i]) /\ Measured(instances'[i], held'[i])
  <2>1. instances[i] # Absent /\ instances'[i] = e(i)
    BY <1>1, <1>2
  <2>2. BlockOK(instances[i], definitions[i]) /\ IsBlock(instances[i])
    BY <2>1 DEF BlocksInv, BlockOK
  <2>3. IsBlock(w(i)) /\ w(i).type = instances[i].type /\ e(i).type = w(i).type
    BY <2>2, WiredIs, Executed
  <2>4. w(i).type = "TON" /\ w(i) \in TONs /\ e(i) = ExecuteTON(w(i))
    BY <1>2, <2>1, <2>3, Records, ExecuteOf DEF OnClock
  <2>5. w(i).mode = "wall_clock"
    <3> HIDE DEF w
    <3>1. e(i).mode = w(i).mode
      BY <2>4, RunsTON
    <3>2. QED BY <3>1, <1>2, <2>1 DEF OnClock
  <2>6. CASE AtRest(e(i))
    <3>1. ~e(i).prev_input /\ ~e(i).output
      BY <2>3, <2>4, <2>6 DEF AtRest
    <3>2. QED BY <2>1, <3>1, ClockAtRest
  <2>7. CASE ~AtRest(e(i))
    <3>1. i \notin stalled
      BY <1>1, <1>2, <2>1, <2>7
    <3>2. instances[i].mode = "wall_clock" /\ w(i).pt_ms = instances[i].pt_ms
      BY <2>2, <2>3, <2>4, <2>5, SteadyWired
    <3>3. Clocked(instances[i]) /\ Measured(instances[i], held[i])
      BY <2>1, <2>3, <2>4, <3>1, <3>2 DEF ClockInv, OnClock
    <3>4. /\ w(i).output = instances[i].output /\ w(i).prev_input = instances[i].prev_input
          /\ w(i).start = instances[i].start /\ w(i).et_ms = instances[i].et_ms
      BY <2>2, <2>3, <2>4, WiredTimer DEF Timers
    <3>5. held'[i] = IF w(i).input /\ w(i).prev_input THEN held[i] ELSE 0
      BY <1>1, <2>1, <2>4, <3>4 DEF InputOn, Timers
    <3>6. held[i] \in 0..MaxAge
      BY DEF BlocksInv
    <3> HIDE DEF w
    <3>7. Clocked(w(i)) /\ Measured(w(i), held[i])
      BY <3>2, <3>3, <3>4 DEF Clocked, Measured
    <3>8. Clocked(ExecuteTON(w(i))) /\ Measured(ExecuteTON(w(i)), held'[i])
      BY <2>4, <2>5, <3>5, <3>6, <3>7, ClockRuns
    <3>9. QED BY <2>1, <2>4, <3>8
  <2>8. QED BY <2>6, <2>7
<1>3. QED BY <1>1, <1>2 DEF ClockInv

LEMMA ClockSave ==
  ASSUME BlocksInv, RowsInv, ClockInv, NEW i \in Ids, SaveRow(i)
  PROVE  ClockInv'
<1> DEFINE r == Serialized(instances[i])
           w == Writer(i)
<1>1. UNCHANGED <<definitions, instances, held, stalled>>
  BY DEF SaveRow, registry
<1>2. CASE UNCHANGED disk
  BY <1>1, <1>2 DEF ClockInv, disk
<1>3. CASE rows' = [rows EXCEPT ![i] = r] /\ writers' = [writers EXCEPT ![i] = w]
  <2>1. instances[i] # Absent /\ BlockOK(instances[i], definitions[i])
    BY DEF SaveRow, BlocksInv, Present
  <2>2. ASSUME w.type = "TON", r.mode = "wall_clock" PROVE Clocked(r)
    <3>1. i \notin stalled /\ instances[i].type = "TON"
      BY <2>1, <2>2, DefinitionIs DEF Writer, BlockOK
    <3>2. \A f \in Stored("TON") : r[f] = instances[i][f]
      BY <2>1, <3>1, SerializedIs DEF BlockOK
    <3> HIDE DEF r
    <3>3. /\ r.et_ms = instances[i].et_ms /\ r.pt_ms = instances[i].pt_ms
          /\ r.output = instances[i].output /\ r.prev_input = instances[i].prev_input
          /\ r.mode = instances[i].mode
      BY <3>2, FieldsOf DEF Stored
    <3>4. Clocked(instances[i])
      BY <2>1, <2>2, <3>1, <3>3 DEF ClockInv, OnClock
    <3>5. QED BY <3>3, <3>4 DEF Clocked
  <2> HIDE DEF r, w
  <2>3. DOMAIN rows = Ids /\ DOMAIN writers = Ids
    BY DEF RowsInv
  <2>4. QED BY <1>1, <1>3, <2>2, <2>3 DEF ClockInv
<1>4. QED BY <1>2, <1>3 DEF SaveRow, SaveState

LEMMA ClockTick ==
  ASSUME BlocksInv, ClockInv, Tick
  PROVE  ClockInv'
<1>1. /\ \A i \in Ids : instances'[i] = IF instances[i] # Absent THEN Aged(instances[i]) ELSE Absent
      /\ \A i \in Ids : instances[i] # Absent =>
           held'[i] = IF InputOn(instances[i]) /\ held[i] < MaxAge THEN held[i] + 1 ELSE held[i]
      /\ rows' = rows /\ writers' = writers /\ stalled' = stalled
  BY DEF Tick, Present, disk
<1>2. ASSUME NEW i \in Ids \ stalled, instances'[i] # Absent, OnClock(instances'[i])
      PROVE  Clocked(instances'[i]) /\ Measured(instances'[i], held'[i])
  <2> DEFINE b == instances[i]
  <2>1. b # Absent /\ instances'[i] = Aged(b)
    BY <1>1, <1>2
  <2>2. IsBlock(b) /\ Remembers(b) /\ held[i] \in 0..MaxAge
    BY <2>1 DEF BlocksInv, BlockOK
  <2>3. b.type = "TON" /\ "mode" \in DOMAIN b
    BY <1>2, <2>1, <2>2, AgedIs, FieldsOf DEF OnClock, IsBlock
  <2>4. b.mode = "wall_clock"
    BY <1>2, <2>1, <2>2, <2>3, AgedIs DEF OnClock
  <2>5. Clocked(b) /\ Measured(b, held[i])
    BY <2>1, <2>3, <2>4 DEF ClockInv, OnClock
  <2>6. held'[i] = IF b.input /\ held[i] < MaxAge THEN held[i] + 1 ELSE held[i]
    BY <1>1, <2>1, <2>3 DEF InputOn, Timers
  <2> HIDE DEF b
  <2>7. QED BY <2>1, <2>2, <2>3, <2>5, <2>6, ClockAges
<1>3. QED BY <1>1, <1>2 DEF ClockInv

LEMMA ClockStep ==
  ASSUME SteadyTimers
  PROVE  BlocksInv /\ RowsInv /\ ClockInv /\ [Next]_vars => ClockInv'
<1> SUFFICES ASSUME BlocksInv, RowsInv, ClockInv, [Next]_vars PROVE ClockInv'
  OBVIOUS
<1>1. ASSUME NEW p \in Programs, NEW i \in Ids, p[i] # Absent, NEW unread,
             CreateFB(i, p[i], unread)
      PROVE  ClockInv'
  <2>1. IsDefinition(p[i])
    BY <1>1 DEF IsDefinition
  <2>2. QED BY <1>1, <2>1, ClockCreate
<1>2. ASSUME NEW i \in Ids, RemoveFB(i) PROVE ClockInv'
  <2>1. /\ instances' = [instances EXCEPT ![i] = Absent] /\ held' = [held EXCEPT ![i] = 0]
        /\ stalled' = stalled \ {i}
        /\ \/ UNCHANGED disk
           \/ rows' = [rows EXCEPT ![i] = Absent] /\ writers' = [writers EXCEPT ![i] = Absent]
    BY <1>2 DEF RemoveFB, ClearState, SaveState
  <2>2. /\ DOMAIN instances = Ids /\ DOMAIN held = Ids
        /\ DOMAIN rows = Ids /\ DOMAIN writers = Ids
    BY DEF BlocksInv, RowsInv
  <2>3. QED BY <2>1, <2>2 DEF ClockInv, disk
<1>3. CASE Stop
  BY <1>3 DEF Stop, ClockInv, None, disk
<1>4. CASE UNCHANGED <<instances, held, stalled, rows, writers>>
  BY <1>4 DEF ClockInv
<1>5. QED BY <1>1, <1>2, <1>3, <1>4, ClockBoot, ClockReset, ClockScan, ClockSave, ClockTick
          DEF Next, vars, registry, disk, BeginSave, Rise, Fall

\* On-delay timers wait for their preset, and every timer goes on to its end,
\* through any restarts.
THEOREM TimersAreTrue == ASSUME SteadyTimers PROVE Spec => []TimersKeepTime
<1>1. Init => ClockInv
  BY DEF Init, ClockInv, None
<1>2. RegistryInv /\ ClockInv /\ [Next]_vars => ClockInv'
  BY ClockStep DEF RegistryInv
<1>3. Spec => []ClockInv
  BY <1>1, <1>2, RegistryInvariant, PTL DEF Spec
<1>4. RegistryInv /\ ClockInv => TimersKeepTime
  <2> SUFFICES ASSUME RegistryInv, ClockInv PROVE TimersKeepTime
    OBVIOUS
  <2> USE DEF RegistryInv
  <2>1. OnDelayHeld
    BY DEF ClockInv, OnDelayHeld, OnClock, OfType, Present, Measured
  <2>2. ASSUME NEW i \in OfType(Timers) \ stalled PROVE ~Frozen(instances[i])
    <3> DEFINE b == instances[i]
    <3>1. i \in Ids /\ b # Absent /\ b.type \in Timers /\ Sound(b)
      BY DEF BlocksInv, OfType, Present
    <3>2. CASE b.type = "TON"
      <4>1. b.mode = "wall_clock" => Measured(b, held[i])
        BY <3>1, <3>2 DEF ClockInv, OnClock
      <4>2. QED BY <3>2, <4>1 DEF Measured, Frozen
    <3>3. CASE b.type = "TOF"
      BY <3>1, <3>3 DEF Sound, Going, Frozen
    <3>4. CASE b.type = "TP"
      BY <3>1, <3>4 DEF Sound, Going, Frozen
    <3>5. QED BY <3>1, <3>2, <3>3, <3>4 DEF Timers
  <2>3. QED BY <2>1, <2>2 DEF TimersKeepTime, TimersRun
<1>5. QED BY <1>3, <1>4, RegistryInvariant, PTL

=============================================================================
