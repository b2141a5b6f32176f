----------------------------- MODULE FBRegistry -----------------------------
(* The registry of function blocks (src/src/scripting/fb_registry.rs), the *)
(* part of the scan cycle that drives it (engine.rs) and the table of      *)
(* fb_states it is saved to (persistence.rs).  The agent may stop at any   *)
(* point, between two rows of a save too, and start again with the same    *)
(* program or another.                                                     *)
EXTENDS FunctionBlocks, FiniteSets

CONSTANTS
  Ids,        \* fb ids
  Signals,    \* the Boolean inputs of the plant that wires read
  Variables,  \* the context variables that outputs are wired to
  Programs,   \* the programs: a definition, or Absent, for each id
  MaxEdges,   \* bound on the rising edges of the signals
  MaxUpsets,  \* bound on the stops, removals and resets
  Absent

(* A wire is <<"signal", s>>, <<"variable", x>>, <<"fb", id, output>> or a *)
(* literal <<"value", v>>.                                                 *)
ASSUME RegistryAssumption ==
  /\ IsFiniteSet(Ids) /\ MaxEdges \in Nat /\ MaxUpsets \in Nat
  /\ \A p \in Programs : DOMAIN p = Ids /\ \A i \in Ids : p[i] # Absent =>
       /\ DOMAIN p[i] = {"type", "preset", "inputs", "outputs"}
       /\ p[i].type \in Types
       /\ p[i].preset \in IF p[i].type \in Timers THEN 0..MaxAge ELSE -MaxCount..MaxCount

(* Absent is no block, no row and no definition.                           *)
ASSUME AbsentAssumption ==
  /\ \A t \in Types :
       /\ Absent \notin [Fields(t) -> Value]
       /\ Absent \notin [Fields(t) \ {"type", "start"} -> Value]
  /\ \A p \in Programs, i \in Ids :
       p[i] # Absent => [p[i] EXCEPT !.type = "stalled"] # Absent

VARIABLES
  running,      \* the agent is up
  definitions,  \* definitions: [type, preset, inputs, outputs], or Absent
  instances,    \* instances: a block, or Absent
  context,      \* the context variables, or Absent
  rows,         \* fb_states: a serialized block, or Absent
  unsaved,      \* the ids the save in progress has still to write
  level,        \* the plant: the level of each signal
  edges,        \* history: the rising edges of each signal
  held,         \* history: for how long each block has seen its input on
  writers,      \* history: the definition whose block wrote each row
  whole,        \* history: the rows are those of one save of this program
  clean,        \* history: the registry has lived from whole saves only
  upsets,       \* history: how many stops, removals and resets there were
  stalled       \* history: blocks restored without the start they need

registry == <<definitions, instances, context>>
disk     == <<rows, writers>>
plant    == <<level, edges>>
vars     == <<running, registry, disk, unsaved, plant, held, whole, clean, upsets, stalled>>

None == [i \in Ids |-> Absent]
Present == {i \in Ids : instances[i] # Absent}
OfType(types) == {i \in Present : instances[i].type \in types}

(* The loop that runs the scans is not in the middle of a save.            *)
Idle == running /\ unsaved = {}

-----------------------------------------------------------------------------
(* wire_fb_inputs reads every source before any block executes; a signal   *)
(* that could not be read and an output of a block that is not there leave *)
(* the input as it was, and so does a value of another kind.               *)
HasValue(wire, readable) ==
  CASE wire[1] = "signal"   -> wire[2] \in readable
    [] wire[1] = "variable" -> context[wire[2]] # Absent
    [] wire[1] = "fb"       -> instances[wire[2]] # Absent /\ wire[3] \in DOMAIN instances[wire[2]]
    [] wire[1] = "value"    -> TRUE

ValueOf(wire) ==
  CASE wire[1] = "signal"   -> level[wire[2]]
    [] wire[1] = "variable" -> context[wire[2]]
    [] wire[1] = "fb"       -> instances[wire[2]][wire[3]]
    [] wire[1] = "value"    -> wire[2]

Wired(i, readable) ==
  LET inputs == definitions[i].inputs
      taken  == {f \in DOMAIN inputs \cap Inputs(instances[i].type) :
                   HasValue(inputs[f], readable) /\ Takes(f, ValueOf(inputs[f]))}
  IN  [f \in DOMAIN instances[i] |->
         IF f \in taken THEN ValueOf(inputs[f]) ELSE instances[i][f]]

(* wire_fb_outputs: each output goes to the variable it is wired to.       *)
Published(blocks) ==
  [x \in Variables |->
     LET from == {i \in Present : x \in DOMAIN definitions[i].outputs}
     IN  IF from = {} THEN context[x]
         ELSE LET i == CHOOSE i \in from : TRUE
              IN  blocks[i][definitions[i].outputs[x]]]

InputOn(b) == b.type \in Timers /\ b.input

-----------------------------------------------------------------------------
(* The fb_states table: an upsert, a select and a delete, each of which    *)
(* commits on its own or fails.                                            *)
SaveState(i, state, writer) ==
  \/ rows' = [rows EXCEPT ![i] = state] /\ writers' = [writers EXCEPT ![i] = writer]
  \/ UNCHANGED disk

ClearState(i) == SaveState(i, Absent, Absent)

(* A row that cannot be read counts as one that is not there.              *)
Loaded(i, b, unread) ==
  IF rows[i] = Absent \/ i \in unread THEN b ELSE Deserialized(b, rows[i])

(* create_fb: a new block, with the state saved under its id if there is   *)
(* one.  load_all_states in ScriptEngine::init takes the same row again.   *)
Created(i, d, unread) == Loaded(i, New(d.type, d.preset), unread)

(* The timer is in the middle of its time and has no start to measure it   *)
(* from.                                                                   *)
Frozen(b) ==
  /\ b.type \in Timers /\ b.start = NotStarted
  /\ CASE b.type = "TON" -> b.mode = "wall_clock" /\ b.prev_input /\ ~b.output
       [] b.type = "TOF" -> b.output /\ ~b.prev_input
       [] b.type = "TP"  -> b.output \/ b.pulse_active

(* Its row was written in the scan that started it, when et_ms was still   *)
(* 0, or a block of another type, or itself stalled, wrote it.             *)
Misread(i, b) ==
  /\ b.type \in Timers /\ writers[i] # Absent
  /\ writers[i].type # b.type \/ (Frozen(b) /\ b.et_ms = 0)

Credit(b) == IF b.type \in Timers THEN b.et_ms ELSE 0

(* The timer measures nothing: what it was restored to no longer matters.  *)
AtRest(b) ==
  /\ ~b.output
  /\ b.type = "TON" => ~b.prev_input
  /\ b.type = "TP" => ~b.pulse_active

Upset == upsets < MaxUpsets /\ upsets' = upsets + 1

Init ==
  /\ running = FALSE
  /\ definitions = None /\ instances = None /\ rows = None /\ writers = None
  /\ context = [x \in Variables |-> Absent]
  /\ unsaved = {}
  /\ level = [s \in Signals |-> FALSE]
  /\ edges = [s \in Signals |-> 0]
  /\ held = [i \in Ids |-> 0]
  /\ whole = TRUE /\ clean = TRUE
  /\ stalled = {} /\ upsets = 0

Boot(p, unread) ==
  LET built == [i \in Ids |-> IF p[i] = Absent THEN Absent
                              ELSE Created(i, p[i], unread)]
  IN  /\ ~running
      /\ running' = TRUE
      /\ definitions' = p
      /\ instances' = built
      /\ held' = [i \in Ids |-> IF p[i] = Absent THEN 0 ELSE Credit(built[i])]
      /\ clean' = (clean /\ (rows = None \/ (whole /\ writers = p /\ unread = {})))
      /\ stalled' = {i \in Ids \ unread : p[i] # Absent /\ Misread(i, built[i])}
      /\ UNCHANGED <<context, disk, unsaved, plant, whole, upsets>>

(* A library call while the engine runs; AlreadyExists otherwise.          *)
CreateFB(i, d, unread) ==
  LET b == Created(i, d, unread)
  IN  /\ Idle /\ instances[i] = Absent
      /\ definitions' = [definitions EXCEPT ![i] = d]
      /\ instances' = [instances EXCEPT ![i] = b]
      /\ held' = [held EXCEPT ![i] = Credit(b)]
      /\ clean' = FALSE
      /\ stalled' = IF i \notin unread /\ Misread(i, b) THEN stalled \cup {i} ELSE stalled
      /\ UNCHANGED <<running, context, disk, unsaved, plant, whole, upsets>>

(* remove_fb ignores a failure to clear the row.                           *)
RemoveFB(i) ==
  /\ Idle /\ instances[i] # Absent
  /\ Upset
  /\ definitions' = [definitions EXCEPT ![i] = Absent]
  /\ instances' = [instances EXCEPT ![i] = Absent]
  /\ ClearState(i)
  /\ held' = [held EXCEPT ![i] = 0]
  /\ whole' = FALSE /\ clean' = FALSE
  /\ stalled' = stalled \ {i}
  /\ UNCHANGED <<running, context, unsaved, plant>>

ResetAll ==
  /\ Idle /\ Present # {}
  /\ Upset
  /\ instances' = [i \in Ids |-> IF i \in Present THEN Reset(instances[i]) ELSE Absent]
  /\ held' = [i \in Ids |-> 0]
  /\ clean' = FALSE
  /\ stalled' = {}
  /\ UNCHANGED <<running, definitions, context, disk, unsaved, plant, whole>>

-----------------------------------------------------------------------------
(* run_scan_cycle: wire the inputs, execute every block, wire the outputs. *)
Scan(readable) ==
  LET wired == [i \in Ids |-> IF i \in Present THEN Wired(i, readable) ELSE Absent]
      blocks == [i \in Ids |-> IF i \in Present THEN Execute(wired[i]) ELSE Absent]
  IN  /\ Idle /\ Present # {}
      /\ instances' = blocks
      /\ context' = Published(blocks)
      /\ held' = [i \in Ids |-> IF i \in Present /\ InputOn(wired[i])
                                   /\ instances[i].prev_input
                                THEN held[i] ELSE 0]
      /\ stalled' = {i \in stalled : ~AtRest(blocks[i])}
      /\ UNCHANGED <<running, definitions, disk, unsaved, plant, whole, clean, upsets>>

(* Every so many scans save_all_states writes the rows one by one, in the  *)
(* order of a hash map, each in a transaction of its own.                  *)
BeginSave ==
  /\ Idle /\ Present # {}
  /\ unsaved' = Present
  /\ UNCHANGED <<running, registry, disk, plant, held, whole, clean, upsets, stalled>>

(* The definition a row is written under; a block that was stalled hands   *)
(* that on to its row.                                                     *)
Writer(i) == IF i \in stalled THEN [definitions[i] EXCEPT !.type = "stalled"]
             ELSE definitions[i]

(* A row that cannot be written is a warning, and the rest goes on.        *)
SaveRow(i) ==
  /\ i \in unsaved
  /\ unsaved' = unsaved \ {i}
  /\ SaveState(i, Serialized(instances[i]), Writer(i))
  /\ whole' = (\/ \A j \in Ids : /\ writers'[j] = IF j \in Present THEN Writer(j) ELSE Absent
                                 /\ j \in Present => rows'[j] = Serialized(instances[j])
               \/ whole /\ disk' = disk)
  /\ UNCHANGED <<running, registry, plant, held, clean, upsets, stalled>>

(* The agent stops: by a crash, or by a shutdown, which saves nothing.     *)
Stop ==
  /\ running
  /\ Upset
  /\ running' = FALSE
  /\ definitions' = None /\ instances' = None
  /\ context' = [x \in Variables |-> Absent]
  /\ unsaved' = {}
  /\ held' = [i \in Ids |-> 0]
  /\ stalled' = {}
  /\ UNCHANGED <<disk, plant, whole, clean>>

-----------------------------------------------------------------------------
(* The plant moves and time passes, whether the agent is up or not.        *)
Rise(s) ==
  /\ ~level[s] /\ edges[s] < MaxEdges
  /\ level' = [level EXCEPT ![s] = TRUE]
  /\ edges' = [edges EXCEPT ![s] = @ + 1]
  /\ UNCHANGED <<running, registry, disk, unsaved, held, whole, clean, upsets, stalled>>

Fall(s) ==
  /\ level[s]
  /\ level' = [level EXCEPT ![s] = FALSE]
  /\ UNCHANGED <<running, registry, disk, unsaved, edges, held, whole, clean, upsets, stalled>>

Tick ==
  /\ Idle
  /\ instances' = [i \in Ids |-> IF i \in Present THEN Aged(instances[i]) ELSE Absent]
  /\ held' = [i \in Ids |-> IF i \in Present /\ InputOn(instances[i]) /\ held[i] < MaxAge
                            THEN held[i] + 1 ELSE held[i]]
  /\ UNCHANGED <<running, definitions, context, disk, unsaved, plant, whole, clean, upsets, stalled>>

Next ==
  \/ \E unread \in SUBSET {i \in Ids : rows[i] # Absent} :
       \E p \in Programs :
         \/ Boot(p, unread)
         \/ \E i \in Ids : p[i] # Absent /\ CreateFB(i, p[i], unread)
  \/ \E i \in Ids : RemoveFB(i) \/ SaveRow(i)
  \/ ResetAll \/ BeginSave \/ Stop \/ Tick
  \/ \E readable \in SUBSET Signals : Scan(readable)
  \/ \E s \in Signals : Rise(s) \/ Fall(s)

(* The loop scans again before it saves again, a save ends, time goes on   *)
(* and the service is started again after it stops.                        *)
Fairness ==
  /\ SF_vars(\E readable \in SUBSET Signals : Scan(readable))
  /\ SF_vars(Tick)
  /\ WF_vars(\E i \in Ids : SaveRow(i))
  /\ WF_vars(\E p \in Programs : Boot(p, {}))

Spec == Init /\ [][Next]_vars /\ Fairness

-----------------------------------------------------------------------------
TypeOK ==
  /\ running \in BOOLEAN /\ whole \in BOOLEAN /\ clean \in BOOLEAN
  /\ \A i \in Ids :
       /\ (instances[i] = Absent) <=> (definitions[i] = Absent)
       /\ (rows[i] = Absent) <=> (writers[i] = Absent)
       /\ i \in Present => DOMAIN instances[i] = Fields(instances[i].type)
       /\ i \in OfType(Timers) => /\ instances[i].et_ms \in 0..MaxAge
                                  /\ instances[i].start \in NotStarted..MaxAge
       /\ i \in OfType(Timers) \ stalled => instances[i].et_ms <= instances[i].pt_ms
       /\ i \in OfType(Counters) => instances[i].cv \in -MaxCount..MaxCount
  /\ ~running => Present = {} /\ unsaved = {}
  /\ unsaved \subseteq Present /\ stalled \subseteq OfType(Timers)
  /\ level \in [Signals -> BOOLEAN] /\ edges \in [Signals -> 0..MaxEdges]
  /\ held \in [Ids -> 0..MaxAge] /\ upsets \in 0..MaxUpsets

(* The counter i counts the rising edges of the signal sg, directly or     *)
(* through a rising edge trigger.                                          *)
Counts(i, sg) ==
  LET wire == definitions[i].inputs.cu
  IN  /\ i \in OfType({"CTU"})
      /\ \/ wire = <<"signal", sg>>
         \/ /\ wire = <<"fb", wire[2], "q">> /\ wire[2] \in OfType({"R_TRIG"})
            /\ definitions[wire[2]].inputs.clk = <<"signal", sg>>

(* An up counter (counters.rs, edge_triggers.rs) never counts an edge of   *)
(* its signal twice, through any number of restarts, as long as each       *)
(* restart finds the rows of one whole save of the same program: the state *)
(* that remembers the last level is saved together with the count.  A save *)
(* that a crash or an error cuts short does not count as whole.            *)
CountedOnce ==
  clean => \A i \in Ids, sg \in Signals : Counts(i, sg) => instances[i].cv <= edges[sg]

(* The output of an on-delay timer (timers.rs, TON) comes on only after    *)
(* its input has been seen on for the whole preset time, where the time    *)
(* before a restart counts only as far as it was saved.                    *)
OnDelayHeld ==
  \A i \in OfType({"TON"}) \ stalled :
    instances[i].mode = "wall_clock" /\ instances[i].output
      => held[i] >= instances[i].pt_ms

(* A timer in the middle of its time has the instant it measures from,     *)
(* through restarts too, so it goes on to its end; except one restored     *)
(* from a row that was written in the very scan that started it, or by a   *)
(* block of another type.                                                  *)
TimersRun == \A i \in OfType(Timers) \ stalled : ~Frozen(instances[i])

(* Timers neither rush nor stop: both of the above.                        *)
TimersKeepTime == OnDelayHeld /\ TimersRun

(* What the proof of TimersKeepTime asks of the programs: no wire changes  *)
(* the preset of a timer, and none takes a timer back to the wall clock.   *)
SteadyTimers ==
  \A p \in Programs, i \in Ids : p[i] # Absent /\ p[i].type \in Timers =>
    /\ "pt_ms" \notin DOMAIN p[i].inputs
    /\ "mode" \in DOMAIN p[i].inputs => p[i].inputs.mode = <<"value", "scan_cycle">>

(* timers.rs says of TP: "On rising edge of IN, Q becomes TRUE for exactly *)
(* PT duration", so every pulse ends.                                      *)
Pulsing(i) == i \in OfType({"TP"}) /\ instances[i].output
PulseEnds == \A i \in Ids : Pulsing(i) ~> ~Pulsing(i)

=============================================================================
