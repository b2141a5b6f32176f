---------------------------- MODULE ScriptEngine ----------------------------
(* The script engine (src/src/scripting/engine.rs): one task that runs, in *)
(* cycles, the scripts whose triggers fired, with nested calls, over the   *)
(* shared script storage and the conflict detector, while the command      *)
(* handler changes the same storage between any two of its steps.          *)
(*                                                                         *)
(* A script's actions are not listed: at each step a script does any       *)
(* action a deployed definition could hold.                                *)
EXTENDS Scripts, ConflictDetector, Sequences, FiniteSets

CONSTANTS
  ScriptIds,      \* script ids in use
  Stored,         \* the definition of each script at start, or Absent
  Targets,        \* pins, registers and coils
  Values,         \* values written to them
  NoScript,       \* current_script_id before the first run
  MaxCallDepth,   \* limits.max_call_depth
  MaxActions,     \* limits.max_actions_per_run
  MaxCommands     \* bound of the model: commands received

ASSUME EngineAssumption ==
  /\ IsFiniteSet(ScriptIds)
  /\ MaxCallDepth \in Nat \ {0}
  /\ MaxActions \in Nat
  /\ MaxCommands \in Nat
  /\ 50 \in Priorities
  /\ NoScript \notin ScriptIds
  /\ Stored \in [ScriptIds -> Definition \cup {Absent}]

VARIABLES
  scripts,    \* the shared storage: the record of each script, or Absent
  pending,    \* the conflict detector
  outputs,    \* the value each target has in the field
  unsure,     \* history: targets whose last granted write was not confirmed
              \*          or that a direct command wrote since
  current,    \* current_script_id and current_script_priority
  stack,      \* open executions, innermost last
  todo,       \* scripts_to_run: what is left of this cycle
  commands    \* commands received (bound of the model)

vars == <<scripts, pending, outputs, unsure, current, stack, todo, commands>>

-----------------------------------------------------------------------------
(* An open execution: the script and the priority its definition had when  *)
(* it was entered, the context to restore, where it is, whether one of its *)
(* actions failed, how many it has done.  leaked is history: a call it     *)
(* made returned without restoring its context.                            *)
Late == MaxActions + 1   \* the count of one whose time ran out in record_action

Writer == [script: ScriptIds \cup {NoScript}, priority: Priorities]

PendingWrite == [script: ScriptIds \cup {NoScript}, priority: Priorities, value: Values]

Frame == [script: ScriptIds, priority: Priorities, saved: Writer,
          phase: {"starting", "skipping", "actions", "on_error"},
          failed: BOOLEAN, count: 0..Late, leaked: BOOLEAN]

Top == stack[Len(stack)]

Own(frame) == [script |-> frame.script, priority |-> frame.priority]

Members(q) == {q[i] : i \in DOMAIN q}

Below == SubSeq(stack, 1, Len(stack) - 1)

Active == {s \in ScriptIds : Runnable(scripts[s])}

(* The orders in which a set of scripts can be queued.                     *)
Orders(S) ==
  {q \in [1..Cardinality(S) -> S] : \A i, j \in DOMAIN q : q[i] = q[j] => i = j}

-----------------------------------------------------------------------------
(* run_startup_scripts queues active scripts in the map's order; the first *)
(* cycle's detector is empty.                                              *)
Init ==
  /\ scripts = [s \in ScriptIds |-> IF Stored[s] = Absent THEN Absent ELSE Loaded(Stored[s])]
  /\ pending = [t \in Targets |-> NoWrite]
  /\ outputs \in [Targets -> Values]
  /\ unsure = {}
  /\ current = [script |-> NoScript, priority |-> 50]
  /\ stack = <<>>
  /\ \E S \in SUBSET Active : todo \in Orders(S)
  /\ commands = 0

(* A new cycle: the active scripts whose triggers fire, higher priority    *)
(* first; the detector is cleared only if there is something to run.       *)
StartCycle ==
  /\ stack = <<>> /\ todo = <<>>
  /\ \E S \in SUBSET Active :
       /\ \E q \in Orders(S) :
            /\ \A i, j \in DOMAIN q :
                 i < j => scripts[q[i]].definition.priority >= scripts[q[j]].definition.priority
            /\ todo' = q
       /\ pending' = IF S = {} THEN pending ELSE [t \in Targets |-> NoWrite]
  /\ UNCHANGED <<scripts, outputs, unsure, current, stack, commands>>

-----------------------------------------------------------------------------
(* A failed action fails the run, unless it is an error handler's.         *)
Noted(frame, ok) ==
  [frame EXCEPT !.failed = @ \/ (frame.phase = "actions" /\ ~ok)]

(* A call it made returned, and perhaps left its own context behind.       *)
Leaked(frame, leak) == [frame EXCEPT !.leaked = @ \/ leak]

(* The caller, if there is one, after a call that returned ok.             *)
Resumed(callers, ok, leak) ==
  IF callers = <<>> THEN <<>>
  ELSE [callers EXCEPT ![Len(callers)] = Leaked(Noted(@, ok), leak)]

(* Variant of Counted: actions are not counted.                            *)
CountedNot(frame) == {frame}

(* The execution as it goes on with an action: the action is counted, or,  *)
(* when the time ran out since the loop looked (record_action answers      *)
(* TimeExceeded, which only the error handlers heed), it is done uncounted *)
(* and is the last, over the limit perhaps.                                *)
Counted(frame) ==
  {f \in {[frame EXCEPT !.count = @ + 1]} : frame.count < MaxActions}
    \cup {f \in {[frame EXCEPT !.count = Late]} : frame.phase = "actions" /\ frame.count < Late}

(* The top execution may do another action.                                *)
Acting == stack # <<>> /\ Top.phase \in {"actions", "on_error"}

(* Its action is done and came out ok.                                     *)
Acted(ok) == \E f \in Counted(Top) : stack' = Append(Below, Noted(f, ok))

(* The first half of execute_with_depth, below the depth check: refused by *)
(* the rate limiter or because the script is gone, or entered with the     *)
(* context set to it.                                                      *)
Enter(s, callers) ==
  \/ /\ stack' = Resumed(callers, FALSE, FALSE)
     /\ UNCHANGED current
  \/ /\ scripts[s] # Absent
     /\ LET p == scripts[s].definition.priority IN
        /\ stack' = Append(callers,
             [script |-> s, priority |-> p, saved |-> current, phase |-> "starting",
              failed |-> FALSE, count |-> 0, leaked |-> FALSE])
        /\ current' = [script |-> s, priority |-> p]

RunNext ==
  /\ stack = <<>> /\ todo # <<>>
  /\ Enter(Head(todo), <<>>)
  /\ todo' = Tail(todo)
  /\ UNCHANGED <<scripts, pending, outputs, unsure, commands>>

(* set_running; a script deleted since it was read is not marked.          *)
SetRunning(s) ==
  scripts' = IF scripts[s] = Absent THEN scripts
             ELSE [scripts EXCEPT ![s] = MarkedRunning(@)]

(* Marked running, its conditions evaluated: they hold or they do not.     *)
Begin ==
  /\ stack # <<>> /\ Top.phase = "starting"
  /\ SetRunning(Top.script)
  /\ \E phase \in {"actions", "skipping"} :
       stack' = Append(Below, [Top EXCEPT !.phase = phase])
  /\ UNCHANGED <<pending, outputs, unsure, current, todo, commands>>

(* Variant of UpdateResult: a success leaves the record as it is.          *)
UpdateResultOnError(s, success) ==
  scripts' = IF scripts[s] = Absent \/ success THEN scripts
             ELSE [scripts EXCEPT ![s] = Failed(@)]

(* update_result *)
UpdateResult(s, success) ==
  scripts' = IF scripts[s] = Absent THEN scripts
             ELSE [scripts EXCEPT ![s] = IF success THEN Succeeded(@) ELSE Failed(@)]

(* The early return of a script whose conditions do not hold: a success,   *)
(* but the caller's context is not put back.                               *)
Skip ==
  /\ stack # <<>> /\ Top.phase = "skipping"
  /\ UpdateResult(Top.script, TRUE)
  /\ stack' = Resumed(Below, TRUE, TRUE)
  /\ UNCHANGED <<pending, outputs, unsure, current, todo, commands>>

-----------------------------------------------------------------------------
(* action_set_gpio, action_write_modbus, action_write_coil: the detector's *)
(* verdict first, the hardware after.  A write that reports failure may    *)
(* have reached the device or not.                                         *)
Write(t, v) ==
  /\ Acting
  /\ LET verdict == Verdict(pending, current, t, v)
         written == [outputs EXCEPT ![t] = v]
     IN \/ /\ verdict = "lost"
           /\ Acted(FALSE)
           /\ UNCHANGED <<outputs, unsure>>
        \/ /\ verdict = "duplicate"
           /\ Acted(TRUE)
           /\ UNCHANGED <<outputs, unsure>>
        \/ /\ Granted(verdict)
           /\ \/ /\ Acted(TRUE)
                 /\ outputs' = written
                 /\ unsure' = unsure \ {t}
              \/ /\ Acted(FALSE)
                 /\ outputs' \in {outputs, written}
                 /\ unsure' = unsure \cup {t}
  /\ pending' = Register(pending, current, t, v)
  /\ UNCHANGED <<scripts, current, todo, commands>>

(* The other actions (alert, variable, log, delay, publish, noop, one      *)
(* whose inline condition does not hold) change nothing modelled here.     *)
Other ==
  /\ Acting
  /\ \E ok \in BOOLEAN : Acted(ok)
  /\ UNCHANGED <<scripts, pending, outputs, unsure, current, todo, commands>>

(* Variant of Call: no limit on the depth of calls.                        *)
CallUnlimited(s) ==
  /\ Acting
  /\ \E f \in Counted(Top) : Enter(s, Append(Below, f))
  /\ UNCHANGED <<scripts, pending, outputs, unsure, todo, commands>>

(* action_call_script_with_depth: one deeper, refused at max_call_depth.   *)
Call(s) ==
  /\ Acting
  /\ IF Len(stack) >= MaxCallDepth
     THEN Acted(FALSE) /\ UNCHANGED current
     ELSE \E f \in Counted(Top) : Enter(s, Append(Below, f))
  /\ UNCHANGED <<scripts, pending, outputs, unsure, todo, commands>>

(* The list of actions is at an end, or the time or the action limit cuts  *)
(* it short, which is a failure; after a failure the error handlers run,   *)
(* as many as the script has and the limits allow.                         *)
HandleErrors ==
  /\ stack # <<>> /\ Top.phase = "actions"
  /\ stack' = Append(Below, [Top EXCEPT !.phase = "on_error", !.failed = TRUE])
  /\ UNCHANGED <<scripts, pending, outputs, unsure, current, todo, commands>>

(* Variant of Finish: the caller's context is not restored.                *)
FinishInPlace ==
  /\ stack # <<>> /\ Top.phase \in {"actions", "on_error"}
  /\ UpdateResult(Top.script, ~Top.failed)
  /\ UNCHANGED current
  /\ stack' = Resumed(Below, ~Top.failed, FALSE)
  /\ UNCHANGED <<pending, outputs, unsure, todo, commands>>

(* The end of execute_with_depth: the result, then the caller's context.   *)
Finish ==
  /\ stack # <<>> /\ Top.phase \in {"actions", "on_error"}
  /\ UpdateResult(Top.script, ~Top.failed)
  /\ current' = Top.saved
  /\ stack' = Resumed(Below, ~Top.failed, FALSE)
  /\ UNCHANGED <<pending, outputs, unsure, todo, commands>>

EngineStep ==
  \/ StartCycle \/ RunNext \/ Begin \/ Skip \/ Other
  \/ HandleErrors \/ Finish
  \/ \E t \in Targets, v \in Values : Write(t, v)
  \/ \E s \in ScriptIds : Call(s)

-----------------------------------------------------------------------------
(* The command handler's writes to the shared storage (the file they also  *)
(* write is in ScriptStorage).                                             *)
Commanded ==
  /\ commands < MaxCommands
  /\ commands' = commands + 1
  /\ UNCHANGED <<pending, current, stack, todo>>

EnableScript(s) ==
  /\ Commanded /\ scripts[s] # Absent
  /\ scripts' = [scripts EXCEPT ![s] = Enabled(@)]
  /\ UNCHANGED <<outputs, unsure>>

DisableScript(s) ==
  /\ Commanded /\ scripts[s] # Absent
  /\ scripts' = [scripts EXCEPT ![s] = Disabled(@)]
  /\ UNCHANGED <<outputs, unsure>>

DeployScript(s, d) ==
  /\ Commanded
  /\ scripts' = [scripts EXCEPT ![s] = Loaded(d)]
  /\ UNCHANGED <<outputs, unsure>>

DeleteScript(s) ==
  /\ Commanded /\ scripts[s] # Absent
  /\ scripts' = [scripts EXCEPT ![s] = Absent]
  /\ UNCHANGED <<outputs, unsure>>

(* write_gpio and write_modbus go to the hardware directly, past the       *)
(* conflict detector.                                                      *)
WriteOutput(t, v) ==
  /\ Commanded
  /\ outputs' = [outputs EXCEPT ![t] = v]
  /\ unsure' = unsure \cup {t}
  /\ UNCHANGED scripts

Command ==
  \/ \E s \in ScriptIds : EnableScript(s) \/ DisableScript(s) \/ DeleteScript(s)
  \/ \E s \in ScriptIds, d \in Definition : DeployScript(s, d)
  \/ \E t \in Targets, v \in Values : WriteOutput(t, v)

Next == EngineStep \/ Command

Spec == Init /\ [][Next]_vars

(* The engine task is always scheduled again, and everything it awaits     *)
(* (locks, the GPIO and Modbus actors with their timeouts) answers.        *)
FairSpec == Spec /\ WF_vars(EngineStep)

-----------------------------------------------------------------------------
TypeOK ==
  /\ scripts \in [ScriptIds -> Record \cup {Absent}]
  /\ pending \in [Targets -> PendingWrite \cup {NoWrite}]
  /\ outputs \in [Targets -> Values]
  /\ unsure \subseteq Targets
  /\ current \in Writer
  /\ stack \in Seq(Frame) /\ Len(stack) <= MaxCallDepth
  /\ todo \in Seq(ScriptIds)
  /\ commands \in 0..MaxCommands

(* Writes are recorded under the script that makes them: the context is    *)
(* the innermost execution's, and every call will put back its caller's,   *)
(* except for an execution one of whose calls was skipped.                 *)
ContextFollowsStack ==
  /\ stack # <<>> /\ ~Top.leaked => current = Own(Top)
  /\ \A i \in 2..Len(stack) :
       ~stack[i - 1].leaked => stack[i].saved = Own(stack[i - 1])

(* Without the exception (engine.rs, the comment where the context is      *)
(* saved: "when script A calls script B, after B completes, A's context is *)
(* correctly restored for remaining actions").                             *)
ContextIsTop == stack # <<>> => current = Own(Top)

(* A target has the value of the write that won it in this cycle, unless   *)
(* the hardware failed or a command wrote it directly.                     *)
OutputIsWinners ==
  \A t \in Targets \ unsure :
    pending[t] # NoWrite => outputs[t] = pending[t].value

Executing(s) == \E i \in DOMAIN stack : stack[i].script = s

(* A script's status is what its runs left: stopped with an error only     *)
(* after ErrorLimit failures in a row, and marked running, when it is not, *)
(* only after a failure that was not yet the last one allowed.             *)
StatusExplained ==
  \A s \in ScriptIds : scripts[s] # Absent =>
    /\ scripts[s].status = "error" => scripts[s].error_count >= ErrorLimit
    /\ scripts[s].status = "running" /\ ~Executing(s)
         => scripts[s].error_count \in 1..(ErrorLimit - 1)

(* Status "active" means what it says (storage.rs: "Script is active and   *)
(* will be triggered"): a disabled script is not.                          *)
ActiveIsEnabled ==
  \A s \in ScriptIds :
    scripts[s] # Absent /\ scripts[s].status = "active" => scripts[s].definition.enabled

(* Every execution comes to an end, whatever its actions call.             *)
RunsTerminate == stack # <<>> ~> stack = <<>>
=============================================================================
