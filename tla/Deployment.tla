----------------------------- MODULE Deployment -----------------------------
(* IEC 61131-3 programs: deploy_program and rollback_program of the        *)
(* command handler (src/src/commands.rs) and the engine's start from the   *)
(* same file (src/src/scripting/engine.rs).  A program is stored in two    *)
(* places: its script goes through the script storage, the program and the *)
(* version before it into program.json, one after the other and neither of *)
(* them atomically.  The handler executes one command at a time; the       *)
(* engine reads both places once, while the handler already runs.          *)
EXTENDS ScriptStorage

CONSTANTS
  Programs,     \* [id, script, text]: definitions within the limits
  NoProgram,
  Pending       \* the engine has not read program.json yet

ProgramOrNone == Programs \cup {NoProgram}

ProgramState == [program: ProgramOrNone, previous: ProgramOrNone]

ASSUME DeploymentAssumption ==
  /\ \A p \in Programs : p.script \in ScriptIds /\ p.text \in Definition
  /\ {NoProgram, Pending} \cap Programs = {}
  /\ Torn \notin ProgramState

VARIABLES
  program_file,  \* the content of program.json
  command,       \* the program command in progress, or Idle
  configured,    \* the program the engine took its blocks from at its start
  diverged,      \* history: scripts touched since their program was answered
  undone         \* history: no deployment was answered since a rollback was

deploymentVars == <<program_file, command, configured, diverged, undone>>

allVars == <<vars, deploymentVars>>

-----------------------------------------------------------------------------
NewState == [program |-> NoProgram, previous |-> NoProgram]

(* load_program_state: what cannot be parsed is the default, and what      *)
(* cannot be read is too.                                                  *)
Stored == IF program_file = Torn THEN NewState ELSE program_file

Readings == {Stored, NewState}

(* The state deploy_program saves.  The program it replaces is kept for a  *)
(* rollback if it is the same one; otherwise whatever was kept stays.      *)
Replaced(st, p) ==
  [program  |-> p,
   previous |-> IF st.program # NoProgram /\ st.program.id = p.id
                THEN st.program ELSE st.previous]

(* Variant of Reverted: the version rolled back to is kept.                *)
RevertedKeeping(st) == [program |-> st.previous, previous |-> st.previous]

(* The state rollback_program saves.                                       *)
Reverted(st) == [program |-> st.previous, previous |-> NoProgram]

-----------------------------------------------------------------------------
DeploymentInit ==
  /\ Init
  /\ program_file = NewState
  /\ command = Idle
  /\ configured = Pending
  /\ diverged = {}
  /\ undone = FALSE

(* The script of the program is added first, as deploy_script does; a full *)
(* storage refuses, and nothing has changed.                               *)
AddScript(op, st) ==
  /\ command = Idle
  /\ Deploy(st.program.script, st.program.text)
  /\ command' = [op |-> op, state |-> st, step |-> "script"]
  /\ diverged' = diverged \cup {st.program.script}
  /\ UNCHANGED <<program_file, configured, undone>>

DeployProgram(p) == \E st \in Readings : AddScript("deploy", Replaced(st, p))

RollbackProgram ==
  /\ Stored.previous # NoProgram
  /\ AddScript("rollback", Reverted(Stored))

(* Variant of ScriptAdded: an error of add_script is not looked at.        *)
ScriptAddedUnchecked ==
  /\ command # Idle
  /\ EndWrite
  /\ command' = [command EXCEPT !.step = "save"]
  /\ UNCHANGED <<program_file, configured, diverged, undone>>

(* add_script returns; its error is the command's answer.                  *)
ScriptAdded ==
  /\ command # Idle
  /\ EndWrite
  /\ command' = IF json'[writer.id] = writer.text
                THEN [command EXCEPT !.step = "save"] ELSE Idle
  /\ UNCHANGED <<program_file, configured, diverged, undone>>

(* save_program_state opens the file, which truncates it; if it cannot be  *)
(* opened the command fails, with the script already changed.              *)
OpenProgramFile ==
  /\ command # Idle /\ command.step = "save"
  /\ \/ /\ program_file' = Torn
        /\ command' = [command EXCEPT !.step = "saving"]
     \/ /\ command' = Idle
        /\ UNCHANGED program_file
  /\ UNCHANGED <<vars, configured, diverged, undone>>

(* The write ends, well or in the middle, and the command answers.         *)
WriteProgramFile ==
  /\ command # Idle /\ command.step = "saving"
  /\ \/ /\ program_file' = command.state
        /\ diverged' = diverged \ {command.state.program.script}
        /\ undone' = (command.op = "rollback")
     \/ UNCHANGED <<program_file, diverged, undone>>
  /\ command' = Idle
  /\ UNCHANGED <<vars, configured>>

-----------------------------------------------------------------------------
(* deploy_script, delete_script, enable_script and disable_script touch    *)
(* the scripts of programs too.  (rollback_script is an operation of the   *)
(* storage that no command calls.)                                         *)
ScriptCommand(s) ==
  /\ command = Idle
  /\ \/ Delete(s) \/ Rollback(s)
     \/ \E d \in Definition : Deploy(s, d)
     \/ \E on \in BOOLEAN : SetEnabled(s, on)
  /\ diverged' = diverged \cup {s}
  /\ UNCHANGED <<program_file, command, configured, undone>>

ScriptCommandEnds ==
  /\ command = Idle
  /\ EndWrite
  /\ UNCHANGED deploymentVars

(* ScriptEngine::init: the scripts first, then the program; with an error  *)
(* of the first the engine runs without the second.                        *)
EngineLoads ==
  /\ \E ok \in BOOLEAN :
       /\ Reload(ok)
       /\ configured' = IF ok THEN configured ELSE NoProgram
  /\ UNCHANGED <<program_file, command, diverged, undone>>

(* configure_from_program, with the file as it is at that moment: one that *)
(* is being written, was cut short, or cannot be read leaves the engine    *)
(* without blocks.                                                         *)
EngineConfigures ==
  /\ ~starting /\ configured = Pending
  /\ \E st \in Readings : configured' = st.program
  /\ UNCHANGED <<vars, program_file, command, diverged, undone>>

(* The agent stops at any point and starts again.                          *)
Reboot ==
  /\ Restart
  /\ command' = Idle
  /\ configured' = Pending
  /\ UNCHANGED <<program_file, diverged, undone>>

DeploymentNext ==
  \/ RollbackProgram \/ ScriptAdded \/ OpenProgramFile \/ WriteProgramFile
  \/ ScriptCommandEnds \/ EngineLoads \/ EngineConfigures \/ Reboot
  \/ \E p \in Programs : DeployProgram(p)
  \/ \E s \in ScriptIds : ScriptCommand(s)

DeploymentSpec == DeploymentInit /\ [][DeploymentNext]_allVars

(* The engine is started and the handler goes on with its command.         *)
StartedSpec ==
  /\ DeploymentSpec
  /\ WF_allVars(EngineLoads) /\ WF_allVars(EngineConfigures)
  /\ WF_allVars(ScriptAdded \/ OpenProgramFile \/ WriteProgramFile \/ ScriptCommandEnds)

-----------------------------------------------------------------------------
Command ==
  [op: {"deploy", "rollback"}, step: {"script", "save", "saving"},
   state: [program: Programs, previous: ProgramOrNone]]

(* Types of the composition, with those of the storage and its bound.      *)
DeploymentOK ==
  /\ TypeOK /\ CapacityHeld
  /\ program_file \in ProgramState \cup {Torn}
  /\ command \in Command \cup {Idle}
  /\ configured \in ProgramOrNone \cup {Pending}
  /\ diverged \subseteq ScriptIds
  /\ undone \in BOOLEAN

(* program.json never names a program whose script is not the one on disk: *)
(* whichever of the writes of a command fails or is cut short, and         *)
(* whatever is loaded, they agree unless a command touched the script      *)
(* since and did not end in an answered program command.  Memory has it    *)
(* too, unless the last load passed it over.                               *)
ProgramIsDeployed ==
  \A p \in Programs :
    /\ program_file # Torn /\ program_file.program = p
    /\ p.script \notin diverged /\ Provisioned[p.script] = Absent
    => json[p.script] = p.text /\ InMemory(p.script, p.text)

(* An engine that runs a program takes up the one that is deployed (the    *)
(* answer of deploy_program, commands.rs: "Program deployed successfully.  *)
(* Engine will reload on next cycle.").                                    *)
EngineReloads ==
  \A p \in Programs :
    configured \in Programs /\ command = Idle /\ Stored.program = p
      ~> configured \in {p, Pending} \/ Stored.program # p

(* "can't rollback twice": once a rollback was answered there is nothing   *)
(* to go back to until a deployment is answered, whatever fails between.   *)
RollbackOnce == undone => Stored.previous = NoProgram
=============================================================================
