-------------------------- MODULE DeploymentProofs --------------------------
(***************************************************************************)
(* Proofs about ScriptStorage and Deployment, for any scripts, programs    *)
(* and limits: the storage keeps what it answered for and its bound, the   *)
(* program commands use it as its specification allows, and program.json   *)
(* agrees with it.                                                         *)
(***************************************************************************)
EXTENDS Deployment, FiniteSetTheorems, TLAPS

(* While a file is being written it is unreadable and its operation open;  *)
(* there is still room for what will be inserted, and the map already has  *)
(* what will not.                                                          *)
WriteInProgress ==
  writer # Idle =>
    /\ json[writer.id] = Torn /\ writer.id \in unsettled
    /\ IF writer.insert THEN HasRoom(writer.id) ELSE memory[writer.id] = writer.text

StorageInv == TypeOK /\ CapacityHeld /\ AckedIsStored /\ WriteInProgress

(* A program command adds its script first, and the storage has it before  *)
(* program.json is opened; rolling back leaves nothing to go back to.      *)
CommandInProgress ==
  command # Idle =>
    LET p == command.state.program IN
    /\ command.op = "rollback" => command.state.previous = NoProgram
    /\ command.step = "script" =>
         writer = [id |-> p.script, text |-> p.text, insert |-> TRUE]
    /\ command.step # "script" =>
         /\ writer = Idle
         /\ json[p.script] = p.text
         /\ Provisioned[p.script] = Absent => InMemory(p.script, p.text)

(* The script that is being written was touched.                           *)
Touched == writer # Idle => writer.id \in diverged

ProgramTypes ==
  /\ program_file \in ProgramState \cup {Torn}
  /\ command \in Command \cup {Idle}
  /\ configured \in ProgramOrNone \cup {Pending}
  /\ diverged \subseteq ScriptIds
  /\ undone \in BOOLEAN

DeploymentInv ==
  /\ StorageInv
  /\ ProgramTypes
  /\ CommandInProgress
  /\ Touched
  /\ ProgramIsDeployed
  /\ RollbackOnce

-----------------------------------------------------------------------------
Text == [ScriptIds -> Definition \cup {Absent}]

\* A definition that is enabled or disabled is one.
LEMMA Toggled ==
  ASSUME NEW d \in Definition, NEW on \in BOOLEAN
  PROVE  [d EXCEPT !.enabled = on] \in Definition
BY DEF Definition

\* The scripts of a map can be counted.
LEMMA SizeInRange ==
  ASSUME NEW m
  PROVE  /\ IsFiniteSet({s \in ScriptIds : m[s] # Absent})
         /\ Size(m) \in 0..Cardinality(ScriptIds)
<1> DEFINE filled == {s \in ScriptIds : m[s] # Absent}
<1>1. IsFiniteSet(ScriptIds) /\ filled \subseteq ScriptIds
  BY StorageAssumption
<1>2. IsFiniteSet(filled) /\ Cardinality(filled) <= Cardinality(ScriptIds)
  BY <1>1, FS_Subset
<1>3. Cardinality(filled) \in Nat /\ Cardinality(ScriptIds) \in Nat
  BY <1>1, <1>2, FS_CardinalityType
<1>4. QED BY <1>2, <1>3 DEF Size

\* What a load leaves in the map of a script that has no yaml file.
LEMMA LoadLeaves ==
  ASSUME TypeOK, Load
  PROVE  /\ memory' \in Text /\ previous' \in Text
         /\ missed' \subseteq ScriptIds /\ loaded' \in 0..Cardinality(ScriptIds)
         /\ \A s \in ScriptIds :
              Provisioned[s] = Absent /\ json[s] # Torn =>
                memory'[s] = IF s \in missed' THEN Absent ELSE json[s]
<1>1. /\ memory' \in Text /\ previous' \in Text
      /\ missed' \subseteq ScriptIds /\ loaded' \in 0..Cardinality(ScriptIds)
  BY SizeInRange DEF Load, Directory, Missed, Text
<1>2. ASSUME NEW s \in ScriptIds, Provisioned[s] = Absent, json[s] # Torn
      PROVE  memory'[s] = IF s \in missed' THEN Absent ELSE json[s]
  <2>1. json[s] \in Definition \cup {Absent}
    BY <1>2 DEF TypeOK
  <2>2. Readable(s) = {json[s]} \cap Definition
    BY <1>2, StorageAssumption DEF Readable
  <2>3. memory'[s] \in Readable(s) \cup {Absent}
    BY DEF Load, Directory
  <2>4. s \in missed' <=> memory'[s] = Absent /\ Readable(s) # {}
    BY DEF Load, Missed
  <2>5. CASE json[s] \in Definition
    BY <2>2, <2>3, <2>4, <2>5, StorageAssumption
  <2>6. CASE json[s] = Absent
    BY <2>2, <2>3, <2>4, <2>6, StorageAssumption
  <2>7. QED BY <2>1, <2>5, <2>6
<1>3. QED BY <1>1, <1>2

\* The second load is a load, or leaves the map alone.
LEMMA Reloads ==
  ASSUME NEW ok \in BOOLEAN, Reload(ok)
  PROVE  /\ Load \/ UNCHANGED <<memory, previous, loaded, missed>>
         /\ writer = Idle /\ writer' = Idle /\ UNCHANGED <<json, acked, unsettled>>
         /\ starting' = FALSE
BY DEF Reload

LEMMA BeginTypes ==
  ASSUME TypeOK, NEW s \in ScriptIds, NEW d \in Definition, NEW insert \in BOOLEAN,
         BeginWrite(s, d, insert) \/ CannotWrite(s)
  PROVE  /\ json' \in [ScriptIds -> Definition \cup {Absent, Torn}]
         /\ writer' \in [id: ScriptIds, text: Definition, insert: BOOLEAN] \cup {Idle}
         /\ unsettled' \subseteq ScriptIds
         /\ UNCHANGED <<starting, acked, loaded, missed>>
<1>1. CASE CannotWrite(s)
  BY <1>1 DEF CannotWrite, TypeOK
<1>2. CASE BeginWrite(s, d, insert)
  <2>1. json' \in [ScriptIds -> Definition \cup {Absent, Torn}]
    BY <1>2 DEF BeginWrite, TypeOK
  <2>2. writer' = [id |-> s, text |-> d, insert |-> insert]
    BY <1>2 DEF BeginWrite
  <2>3. QED BY <1>2, <2>1, <2>2 DEF BeginWrite, TypeOK
<1>3. QED BY <1>1, <1>2

LEMMA TypeStep == TypeOK /\ [Next]_vars => TypeOK'
<1> SUFFICES ASSUME TypeOK, [Next]_vars PROVE TypeOK'
  OBVIOUS
<1> USE DEF TypeOK
<1>1. CASE Restart
  <2>1. Load
    BY <1>1 DEF Restart
  <2>2. QED BY <1>1, <2>1, LoadLeaves DEF Restart, Text
<1>2. ASSUME NEW ok \in BOOLEAN, Reload(ok)
      PROVE  TypeOK'
  <2>1. CASE Load
    BY <1>2, <2>1, LoadLeaves, Reloads DEF Text
  <2>2. CASE UNCHANGED <<memory, previous, loaded, missed>>
    BY <1>2, <2>2, Reloads
  <2>3. QED BY <1>2, <2>1, <2>2, Reloads
<1>3. CASE EndWrite
  <2>1. writer.id \in ScriptIds /\ writer.text \in Definition
    BY <1>3 DEF EndWrite
  <2>2. memory' \in Text /\ previous' \in Text
    BY <1>3, <2>1 DEF EndWrite, Text
  <2>3. QED BY <1>3, <2>1, <2>2 DEF EndWrite, Text
<1>4. ASSUME NEW s \in ScriptIds, Rollback(s)
      PROVE  TypeOK'
  <2>1. previous[s] \in Definition /\ memory[s] \in Definition
    BY <1>4 DEF Rollback
  <2>2. memory' \in Text /\ previous' \in Text
    BY <1>4, <2>1 DEF Rollback, Text
  <2>3. BeginWrite(s, previous[s], FALSE) \/ CannotWrite(s)
    BY <1>4 DEF Rollback
  <2>4. QED BY <2>1, <2>2, <2>3, BeginTypes DEF Text
<1>5. ASSUME NEW s \in ScriptIds, Delete(s)
      PROVE  TypeOK'
  BY <1>5 DEF Delete
<1>6. ASSUME NEW s \in ScriptIds, NEW d \in Definition, Deploy(s, d)
      PROVE  TypeOK'
  BY <1>6 DEF Deploy, BeginWrite
<1>7. ASSUME NEW s \in ScriptIds, NEW on \in BOOLEAN, SetEnabled(s, on)
      PROVE  TypeOK'
  <2>1. PICK d \in Definition : memory' = [memory EXCEPT ![s] = d]
                               /\ (BeginWrite(s, d, FALSE) \/ CannotWrite(s))
                               /\ previous' = previous
    BY <1>7, Toggled DEF SetEnabled
  <2>2. memory' \in [ScriptIds -> Definition \cup {Absent}]
    BY <2>1
  <2>3. QED BY <2>1, <2>2, BeginTypes
<1>8. CASE UNCHANGED vars
  BY <1>8 DEF vars
<1>9. QED BY <1>1, <1>2, <1>3, <1>4, <1>5, <1>6, <1>7, <1>8 DEF Next

LEMMA WriteStep == TypeOK /\ WriteInProgress /\ [Next]_vars => WriteInProgress'
<1> SUFFICES ASSUME TypeOK, WriteInProgress, [Next]_vars, writer' # Idle
             PROVE  /\ json'[writer'.id] = Torn /\ writer'.id \in unsettled'
                    /\ IF writer'.insert THEN HasRoom(writer.id)'
                                         ELSE memory'[writer'.id] = writer'.text
  BY DEF WriteInProgress
<1>1. CASE UNCHANGED vars
  BY <1>1 DEF vars, WriteInProgress, HasRoom, Present
<1>2. ASSUME NEW s \in ScriptIds, NEW d \in Definition, NEW insert \in BOOLEAN,
             BeginWrite(s, d, insert),
             IF insert THEN HasRoom(s) /\ memory' = memory ELSE memory'[s] = d
      PROVE  /\ json'[writer'.id] = Torn /\ writer'.id \in unsettled'
             /\ IF writer'.insert THEN HasRoom(writer.id)'
                                  ELSE memory'[writer'.id] = writer'.text
  <2>1. writer'.id = s /\ writer'.text = d /\ writer'.insert = insert
    BY <1>2 DEF BeginWrite
  <2>2. json'[s] = Torn /\ s \in unsettled'
    BY <1>2 DEF BeginWrite, TypeOK
  <2>3. CASE insert
    BY <1>2, <2>1, <2>2, <2>3 DEF HasRoom, Present
  <2>4. CASE ~insert
    BY <1>2, <2>1, <2>2, <2>4
  <2>5. QED BY <2>3, <2>4
<1>3. ASSUME NEW s \in ScriptIds, Rollback(s)
      PROVE  BeginWrite(s, previous[s], FALSE) /\ previous[s] \in Definition
             /\ memory'[s] = previous[s]
  BY <1>3 DEF Rollback, CannotWrite, TypeOK
<1>4. ASSUME NEW s \in ScriptIds, NEW on \in BOOLEAN, SetEnabled(s, on)
      PROVE  \E d \in Definition : BeginWrite(s, d, FALSE) /\ memory'[s] = d
  BY <1>4, Toggled DEF SetEnabled, CannotWrite, TypeOK
<1>5. ASSUME NEW s \in ScriptIds, NEW d \in Definition, Deploy(s, d)
      PROVE  BeginWrite(s, d, TRUE) /\ HasRoom(s) /\ memory' = memory
  BY <1>5 DEF Deploy
<1>6. ~Restart /\ (\A ok \in BOOLEAN : ~Reload(ok)) /\ ~EndWrite /\ \A s \in ScriptIds : ~Delete(s)
  BY DEF Restart, Reload, EndWrite, Delete
<1>7. CASE \E s \in ScriptIds : Rollback(s) \/ \E on \in BOOLEAN : SetEnabled(s, on)
  <2>1. PICK s \in ScriptIds, d \in Definition : BeginWrite(s, d, FALSE) /\ memory'[s] = d
    BY <1>3, <1>4, <1>7
  <2>2. QED BY <1>2, <2>1
<1>8. CASE \E s \in ScriptIds, d \in Definition : Deploy(s, d)
  <2>1. PICK s \in ScriptIds, d \in Definition :
          BeginWrite(s, d, TRUE) /\ HasRoom(s) /\ memory' = memory
    BY <1>5, <1>8
  <2>2. QED BY <1>2, <2>1
<1>9. QED BY <1>1, <1>6, <1>7, <1>8 DEF Next

\* What was answered stays stored, until another operation is begun.
LEMMA AckedStep ==
  TypeOK /\ AckedIsStored /\ WriteInProgress /\ [Next]_vars => AckedIsStored'
<1> SUFFICES ASSUME TypeOK, AckedIsStored, WriteInProgress, [Next]_vars,
                    NEW s \in ScriptIds, s \notin unsettled', Provisioned[s] = Absent
             PROVE  /\ json'[s] = acked'[s]
                    /\ memory'[s] = IF s \in missed' THEN Absent ELSE acked'[s]
  BY DEF AckedIsStored, InMemory
<1> DEFINE Kept == /\ json'[s] = acked'[s]
                   /\ memory'[s] = IF s \in missed' THEN Absent ELSE acked'[s]
<1>0. s \notin unsettled =>
        json[s] = acked[s] /\ memory[s] = IF s \in missed THEN Absent ELSE acked[s]
  BY DEF AckedIsStored, InMemory
<1>a. CASE /\ Load \/ UNCHANGED <<memory, missed>>
           /\ UNCHANGED <<json, acked, unsettled>>
  <2>1. acked[s] # Torn
    BY StorageAssumption DEF TypeOK
  <2>2. CASE Load
    BY <1>0, <1>a, <2>1, <2>2, LoadLeaves
  <2>3. CASE UNCHANGED <<memory, missed>>
    BY <1>0, <1>a, <2>3
  <2>4. QED BY <1>a, <2>2, <2>3
<1>1. CASE Restart \/ \E ok \in BOOLEAN : Reload(ok)
  BY <1>1, <1>a, Reloads DEF Restart
<1>2. CASE EndWrite
  <2>1. CASE s = writer.id
    <3>1. s \in unsettled
      BY <1>2, <2>1 DEF EndWrite, WriteInProgress
    <3>2. /\ json' = [json EXCEPT ![s] = writer.text]
          /\ acked' = [acked EXCEPT ![s] = memory'[s]]
          /\ writer.insert => memory' = [memory EXCEPT ![s] = writer.text]
          /\ ~writer.insert => memory' = memory
      BY <1>2, <2>1, <3>1 DEF EndWrite
    <3>3. memory'[s] = writer.text /\ s \notin missed'
      BY <1>2, <2>1, <3>1, <3>2 DEF TypeOK, EndWrite, WriteInProgress
    <3>4. QED BY <3>2, <3>3 DEF TypeOK
  <2>2. CASE s # writer.id
    BY <1>0, <1>2, <2>2 DEF EndWrite, TypeOK
  <2>3. QED BY <2>1, <2>2
<1>3. ASSUME NEW t \in ScriptIds, Delete(t)
      PROVE  Kept
  BY <1>0, <1>3 DEF Delete, TypeOK
<1>4. ASSUME NEW t \in ScriptIds,
             \/ Rollback(t)
             \/ \E d \in Definition : Deploy(t, d)
             \/ \E on \in BOOLEAN : SetEnabled(t, on)
      PROVE  Kept
  <2>1. /\ unsettled' = unsettled \cup {t} /\ acked' = acked /\ missed' = missed
        /\ \A u \in ScriptIds \ {t} : memory'[u] = memory[u] /\ json'[u] = json[u]
    BY <1>4 DEF Rollback, Deploy, SetEnabled, BeginWrite, CannotWrite, TypeOK
  <2>2. QED BY <1>0, <2>1
<1>5. CASE UNCHANGED vars
  BY <1>0, <1>5 DEF vars
<1>6. QED BY <1>1, <1>2, <1>3, <1>4, <1>5 DEF Next

\* A script more or less, or none.
LEMMA PresentStep ==
  ASSUME TypeOK, NEW s \in ScriptIds,
         \A u \in ScriptIds \ {s} : memory'[u] = memory[u]
  PROVE  /\ Cardinality(Present') <= Cardinality(Present) + 1
         /\ memory'[s] = Absent \/ memory[s] # Absent =>
              Cardinality(Present') <= Cardinality(Present)
         /\ Cardinality(Present) \in Nat /\ Cardinality(Present') \in Nat
<1>1. IsFiniteSet(Present) /\ IsFiniteSet(Present')
  BY SizeInRange DEF Present
<1>2. Cardinality(Present) \in Nat /\ Cardinality(Present') \in Nat
  BY <1>1, FS_CardinalityType
<1>3. Present' \subseteq Present \cup {s}
  BY DEF Present
<1>4. /\ IsFiniteSet(Present \cup {s})
      /\ Cardinality(Present \cup {s}) = IF s \in Present THEN Cardinality(Present)
                                                         ELSE Cardinality(Present) + 1
  BY <1>1, FS_AddElement
<1>5. Cardinality(Present') <= Cardinality(Present \cup {s})
  BY <1>3, <1>4, FS_Subset
<1>6. ASSUME memory'[s] = Absent \/ memory[s] # Absent
      PROVE  Cardinality(Present') <= Cardinality(Present)
  <2>1. Present' \subseteq Present
    BY <1>6 DEF Present
  <2>2. QED BY <1>1, <2>1, FS_Subset
<1>7. QED BY <1>2, <1>4, <1>5, <1>6

\* A script is added only where there is room.
LEMMA CapacityStep ==
  TypeOK /\ CapacityHeld /\ WriteInProgress /\ [Next]_vars => CapacityHeld'
<1> SUFFICES ASSUME TypeOK, CapacityHeld, WriteInProgress, [Next]_vars
             PROVE  CapacityHeld'
  OBVIOUS
<1>0. MaxScripts \in Nat /\ loaded \in Nat
  BY SizeInRange, StorageAssumption DEF TypeOK
<1>1. CASE Restart \/ \E ok \in BOOLEAN : Reload(ok)
  <2>1. Load \/ UNCHANGED <<memory, loaded>>
    BY <1>1, Reloads DEF Restart
  <2>2. CASE Load
    <3>1. loaded' = Cardinality(Present')
      BY <2>2 DEF Load, Size, Present
    <3>2. Cardinality(Present') \in Nat
      BY SizeInRange, FS_CardinalityType DEF Present
    <3>3. QED BY <3>1, <3>2 DEF CapacityHeld
  <2>3. CASE UNCHANGED <<memory, loaded>>
    BY <2>3 DEF CapacityHeld, Present
  <2>4. QED BY <2>1, <2>2, <2>3
<1>2. ASSUME loaded' = loaded, NEW s \in ScriptIds,
             \A u \in ScriptIds \ {s} : memory'[u] = memory[u],
             memory'[s] = Absent \/ memory[s] # Absent \/ Cardinality(Present) < MaxScripts
      PROVE  CapacityHeld'
  BY <1>0, <1>2, PresentStep DEF CapacityHeld
<1>3. CASE EndWrite
  <2>1. writer.id \in ScriptIds /\ loaded' = loaded
    BY <1>3 DEF EndWrite, TypeOK
  <2>2. \/ memory' = memory
        \/ /\ memory' = [memory EXCEPT ![writer.id] = writer.text]
           /\ HasRoom(writer.id)
    BY <1>3 DEF EndWrite, WriteInProgress
  <2>3. CASE memory' = memory
    BY <2>1, <2>3 DEF CapacityHeld, Present
  <2>4. CASE memory' # memory
    BY <1>2, <2>1, <2>2, <2>4 DEF HasRoom, TypeOK
  <2>5. QED BY <2>3, <2>4
<1>4. ASSUME NEW s \in ScriptIds,
             \/ Rollback(s) \/ Delete(s)
             \/ \E on \in BOOLEAN : SetEnabled(s, on)
      PROVE  CapacityHeld'
  <2>1. /\ loaded' = loaded /\ memory[s] # Absent
        /\ \A u \in ScriptIds \ {s} : memory'[u] = memory[u]
    BY <1>4 DEF Rollback, Delete, SetEnabled, BeginWrite, CannotWrite, TypeOK
  <2>2. QED BY <1>2, <2>1
<1>5. CASE UNCHANGED vars \/ \E s \in ScriptIds, d \in Definition : Deploy(s, d)
  <2>1. memory' = memory /\ loaded' = loaded
    BY <1>5 DEF vars, Deploy, BeginWrite
  <2>2. QED BY <2>1 DEF CapacityHeld, Present
<1>6. QED BY <1>1, <1>3, <1>4, <1>5 DEF Next

LEMMA StorageInit == Init => StorageInv
<1> SUFFICES ASSUME Init PROVE StorageInv
  OBVIOUS
<1>1. /\ TypeOK
      /\ \A s \in ScriptIds : Readable(s) = {Provisioned[s]} \cap Definition
  <2>1. \A s \in ScriptIds : Readable(s) = {Provisioned[s]} \cap Definition
    BY StorageAssumption DEF Init, Readable
  <2>2. memory \in [ScriptIds -> Definition \cup {Absent}] /\ missed \subseteq ScriptIds
    BY DEF Init, Directory, Missed
  <2>3. QED BY <2>1, <2>2, StorageAssumption, SizeInRange DEF Init, TypeOK
<1>2. CapacityHeld
  <2>1. loaded = Cardinality(Present)
    BY DEF Init, Size, Present
  <2>2. QED BY <1>1, <2>1, SizeInRange DEF CapacityHeld, TypeOK
<1>3. AckedIsStored /\ WriteInProgress
  <2>1. ASSUME NEW s \in ScriptIds, Provisioned[s] = Absent
        PROVE  json[s] = acked[s] /\ InMemory(s, acked[s])
    <3>1. Readable(s) = {}
      BY <1>1, <2>1, StorageAssumption
    <3>2. memory[s] = Absent
      BY <3>1 DEF Init, Directory
    <3>3. QED BY <2>1, <3>2 DEF Init, InMemory
  <2>2. QED BY <2>1 DEF Init, AckedIsStored, WriteInProgress
<1>4. QED BY <1>1, <1>2, <1>3 DEF StorageInv

LEMMA StorageStep == StorageInv /\ [Next]_vars => StorageInv'
BY TypeStep, CapacityStep, AckedStep, WriteStep DEF StorageInv

\* StorageInv holds in every reachable state of the storage.
THEOREM StorageInvariant == Spec => []StorageInv
BY StorageInit, StorageStep, PTL DEF Spec

-----------------------------------------------------------------------------
\* program.json is read as a program state, whatever is in it.
LEMMA StoredIsState == ProgramTypes => Stored \in ProgramState
BY DEF ProgramTypes, Stored, NewState, ProgramState, ProgramOrNone

\* A program command is one of the two, with a program to store.
LEMMA Begins ==
  ASSUME ProgramTypes, DeploymentNext
  PROVE  \A p \in Programs : DeployProgram(p) =>
           \E st \in [program: Programs, previous: ProgramOrNone] : AddScript("deploy", st)
BY StoredIsState DEF DeployProgram, Readings, NewState, Replaced, ProgramState, ProgramOrNone

LEMMA BeginsBack ==
  ASSUME ProgramTypes, RollbackProgram
  PROVE  \E st \in [program: Programs, previous: ProgramOrNone] :
           AddScript("rollback", st) /\ st.previous = NoProgram
<1>1. Stored.previous \in Programs
  BY StoredIsState DEF RollbackProgram, ProgramState, ProgramOrNone
<1>2. Reverted(Stored) \in [program: Programs, previous: ProgramOrNone]
      /\ Reverted(Stored).previous = NoProgram
  BY <1>1 DEF Reverted, ProgramOrNone
<1>3. QED BY <1>2 DEF RollbackProgram

AddsScript ==
  \E st \in [program: Programs, previous: ProgramOrNone], op \in {"deploy", "rollback"} :
    AddScript(op, st) /\ (op = "rollback" => st.previous = NoProgram)

(* A step of the composition, by what it does to the storage.              *)
LEMMA Steps ==
  ASSUME ProgramTypes, [DeploymentNext]_allVars
  PROVE  \/ AddsScript
         \/ ScriptAdded \/ ScriptCommandEnds
         \/ (\E s \in ScriptIds : ScriptCommand(s))
         \/ EngineLoads \/ Reboot
         \/ OpenProgramFile \/ WriteProgramFile \/ EngineConfigures \/ UNCHANGED allVars
BY Begins, BeginsBack DEF DeploymentNext, AddsScript

\* The commands use the storage by its operations.
LEMMA UsesStorage == ProgramTypes /\ [DeploymentNext]_allVars => [Next]_vars
<1> SUFFICES ASSUME ProgramTypes, [DeploymentNext]_allVars PROVE [Next]_vars
  OBVIOUS
<1>1. CASE AddsScript
  <2>1. PICK st \in [program: Programs, previous: ProgramOrNone], op \in {"deploy", "rollback"} :
          AddScript(op, st)
    BY <1>1 DEF AddsScript
  <2>2. Deploy(st.program.script, st.program.text)
    BY <2>1 DEF AddScript
  <2>3. st.program.script \in ScriptIds /\ st.program.text \in Definition
    BY DeploymentAssumption
  <2>4. QED BY <2>2, <2>3 DEF Next
<1>2. CASE ScriptAdded \/ ScriptCommandEnds
  BY <1>2 DEF ScriptAdded, ScriptCommandEnds, Next
<1>3. CASE \E s \in ScriptIds : ScriptCommand(s)
  BY <1>3 DEF ScriptCommand, Next
<1>4. CASE EngineLoads \/ Reboot
  BY <1>4 DEF EngineLoads, Reboot, Next
<1>5. CASE OpenProgramFile \/ WriteProgramFile \/ EngineConfigures \/ UNCHANGED allVars
  BY <1>5 DEF OpenProgramFile, WriteProgramFile, EngineConfigures, allVars
<1>6. QED BY <1>1, <1>2, <1>3, <1>4, <1>5, Steps

LEMMA ProgramTypesStep == ProgramTypes /\ [DeploymentNext]_allVars => ProgramTypes'
<1> SUFFICES ASSUME ProgramTypes, [DeploymentNext]_allVars PROVE ProgramTypes'
  OBVIOUS
<1>1. CASE AddsScript
  <2>1. PICK st \in [program: Programs, previous: ProgramOrNone], op \in {"deploy", "rollback"} :
          AddScript(op, st)
    BY <1>1 DEF AddsScript
  <2>2. st.program.script \in ScriptIds
    BY DeploymentAssumption
  <2>3. command' = [op |-> op, state |-> st, step |-> "script"]
        /\ diverged' = diverged \cup {st.program.script}
        /\ UNCHANGED <<program_file, configured, undone>>
    BY <2>1 DEF AddScript
  <2>4. command' \in Command
    BY <2>3 DEF Command
  <2>5. QED BY <2>2, <2>3, <2>4 DEF ProgramTypes
<1>2. CASE ScriptAdded
  <2>1. command' \in Command \cup {Idle}
    BY <1>2 DEF ScriptAdded, ProgramTypes, Command
  <2>2. QED BY <1>2, <2>1 DEF ScriptAdded, ProgramTypes
<1>3. CASE OpenProgramFile
  <2>1. command' \in Command \cup {Idle}
    BY <1>3 DEF OpenProgramFile, ProgramTypes, Command
  <2>2. QED BY <1>3, <2>1 DEF OpenProgramFile, ProgramTypes
<1>4. CASE WriteProgramFile
  <2>1. command.state \in ProgramState /\ command.state.program.script \in ScriptIds
    BY <1>4, DeploymentAssumption
    DEF WriteProgramFile, ProgramTypes, Command, ProgramState, ProgramOrNone
  <2>2. QED BY <1>4, <2>1 DEF WriteProgramFile, ProgramTypes
<1>5. CASE \E s \in ScriptIds : ScriptCommand(s)
  BY <1>5 DEF ScriptCommand, ProgramTypes
<1>6. CASE EngineConfigures
  <2>1. \A st \in Readings : st.program \in ProgramOrNone
    BY StoredIsState DEF Readings, NewState, ProgramState, ProgramOrNone
  <2>2. QED BY <1>6, <2>1 DEF EngineConfigures, ProgramTypes
<1>7. CASE ScriptCommandEnds \/ EngineLoads \/ Reboot \/ UNCHANGED allVars
  BY <1>7 DEF ScriptCommandEnds, EngineLoads, Reboot, allVars, deploymentVars, ProgramTypes,
                ProgramOrNone
<1>8. QED BY <1>1, <1>2, <1>3, <1>4, <1>5, <1>6, <1>7, Steps

\* A write that ends well leaves its text in the file and in the map.
LEMMA WriteEnds ==
  ASSUME StorageInv, EndWrite
  PROVE  /\ writer' = Idle /\ writer.id \in ScriptIds /\ writer.text \in Definition
         /\ json'[writer.id] = writer.text =>
              memory'[writer.id] = writer.text /\ writer.id \notin missed'
         /\ \A s \in ScriptIds \ {writer.id} :
              /\ memory'[s] = memory[s] /\ json'[s] = json[s]
              /\ s \in missed' <=> s \in missed
<1>1. writer \in [id: ScriptIds, text: Definition, insert: BOOLEAN]
  BY DEF EndWrite, StorageInv, TypeOK
<1>2. json[writer.id] # writer.text
  BY <1>1, StorageAssumption DEF EndWrite, StorageInv, WriteInProgress
<1>3. ASSUME json'[writer.id] = writer.text
      PROVE  memory'[writer.id] = writer.text /\ writer.id \notin missed'
  BY <1>1, <1>2, <1>3 DEF EndWrite, StorageInv, WriteInProgress, TypeOK
<1>4. QED BY <1>1, <1>3 DEF EndWrite, StorageInv, TypeOK

LEMMA CommandStep ==
  ASSUME StorageInv, ProgramTypes, CommandInProgress, [DeploymentNext]_allVars
  PROVE  CommandInProgress'
<1> SUFFICES ASSUME command' # Idle
             PROVE  LET p == command'.state.program IN
                    /\ command'.op = "rollback" => command'.state.previous = NoProgram
                    /\ command'.step = "script" =>
                         writer' = [id |-> p.script, text |-> p.text, insert |-> TRUE]
                    /\ command'.step # "script" =>
                         /\ writer' = Idle
                         /\ json'[p.script] = p.text
                         /\ Provisioned[p.script] = Absent =>
                              memory'[p.script] = IF p.script \in missed' THEN Absent ELSE p.text
  BY DEF CommandInProgress, InMemory
<1>0. command # Idle =>
        /\ command \in Command
        /\ command.state.program.script \in ScriptIds
        /\ command.state.program.text \in Definition
        /\ command.state.program.text # Torn
  BY DeploymentAssumption, StorageAssumption DEF ProgramTypes, Command
<1>1. CASE AddsScript
  BY <1>1 DEF AddsScript, AddScript, Deploy, BeginWrite
<1>2. CASE ScriptAdded
  <2>1. command # Idle /\ EndWrite /\ writer # Idle
    BY <1>2 DEF ScriptAdded, EndWrite
  <2>2. writer = [id |-> command.state.program.script,
                  text |-> command.state.program.text, insert |-> TRUE]
    BY <2>1 DEF CommandInProgress
  <2>3. json'[writer.id] = writer.text /\ command' = [command EXCEPT !.step = "save"]
    BY <1>2 DEF ScriptAdded
  <2>4. memory'[writer.id] = writer.text /\ writer.id \notin missed' /\ writer' = Idle
    BY <2>1, <2>3, WriteEnds
  <2>5. /\ command'.step = "save" /\ command'.state = command.state
        /\ command'.op = command.op
    BY <1>0, <2>1, <2>3 DEF Command
  <2>6. QED BY <2>1, <2>2, <2>3, <2>4, <2>5 DEF CommandInProgress
<1>3. CASE OpenProgramFile
  <2>1. /\ command # Idle /\ command.step = "save" /\ UNCHANGED vars
        /\ command' = [command EXCEPT !.step = "saving"]
    BY <1>3 DEF OpenProgramFile
  <2>2. /\ command'.step = "saving" /\ command'.state = command.state
        /\ command'.op = command.op
    BY <1>0, <2>1 DEF Command
  <2>3. QED BY <2>1, <2>2 DEF CommandInProgress, InMemory, vars
<1>4. CASE EngineLoads
  <2>1. /\ writer = Idle /\ writer' = Idle /\ json' = json
        /\ Load \/ UNCHANGED <<memory, missed>>
        /\ command' = command
    BY <1>4, Reloads DEF EngineLoads
  <2>2. ASSUME command.step = "script"
        PROVE  FALSE
    <3> DEFINE p == command.state.program
               write == [id |-> p.script, text |-> p.text, insert |-> TRUE]
    <3>1. writer = write
      BY <2>1, <2>2 DEF CommandInProgress
    <3>2. p.script \in ScriptIds /\ p.text \in Definition
      BY <1>0, <2>1
    <3>3. write \in [id: ScriptIds, text: Definition, insert: BOOLEAN]
      BY <3>2
    <3>4. QED BY <2>1, <3>1, <3>3, StorageAssumption
  <2>3. CASE Load
    BY <1>0, <2>1, <2>2, <2>3, LoadLeaves DEF CommandInProgress, StorageInv
  <2>4. CASE UNCHANGED <<memory, missed>>
    BY <1>0, <2>1, <2>2, <2>4 DEF CommandInProgress, InMemory
  <2>5. QED BY <2>1, <2>3, <2>4
<1>5. CASE ScriptCommandEnds \/ \E s \in ScriptIds : ScriptCommand(s)
  BY <1>5 DEF ScriptCommandEnds, ScriptCommand, deploymentVars
<1>6. CASE Reboot \/ WriteProgramFile
  BY <1>6 DEF Reboot, WriteProgramFile
<1>7. CASE EngineConfigures \/ UNCHANGED allVars
  BY <1>7 DEF EngineConfigures, allVars, deploymentVars, vars, CommandInProgress, InMemory
<1>8. QED BY <1>1, <1>2, <1>3, <1>4, <1>5, <1>6, <1>7, Steps

LEMMA TouchedStep ==
  ASSUME StorageInv, ProgramTypes, CommandInProgress, Touched, [DeploymentNext]_allVars
  PROVE  Touched'
<1>1. CASE AddsScript
  BY <1>1 DEF AddsScript, AddScript, Deploy, BeginWrite, Touched
<1>2. CASE \E s \in ScriptIds : ScriptCommand(s)
  <2>1. PICK s \in ScriptIds : ScriptCommand(s)
    BY <1>2
  <2>2. writer' = Idle \/ writer'.id = s
    <3>1. ASSUME NEW d, NEW insert, BeginWrite(s, d, insert)
          PROVE  writer'.id = s
      BY <3>1 DEF BeginWrite
    <3>2. CASE Delete(s) \/ Rollback(s)
      BY <3>1, <3>2 DEF Delete, Rollback, CannotWrite
    <3>3. CASE \E on \in BOOLEAN : SetEnabled(s, on)
      BY <3>1, <3>3 DEF SetEnabled, CannotWrite
    <3>4. CASE \E d \in Definition : Deploy(s, d)
      BY <3>1, <3>4 DEF Deploy
    <3>5. QED BY <2>1, <3>2, <3>3, <3>4 DEF ScriptCommand
  <2>3. diverged' = diverged \cup {s}
    BY <2>1 DEF ScriptCommand
  <2>4. QED BY <2>2, <2>3 DEF Touched
<1>3. CASE ScriptAdded \/ ScriptCommandEnds \/ EngineLoads \/ Reboot
  BY <1>3 DEF ScriptAdded, ScriptCommandEnds, EngineLoads, Reboot, EndWrite, Reload, Restart, Touched
<1>4. CASE WriteProgramFile
  BY <1>4 DEF WriteProgramFile, CommandInProgress, Touched, vars
<1>5. CASE OpenProgramFile \/ EngineConfigures \/ UNCHANGED allVars
  BY <1>5 DEF OpenProgramFile, EngineConfigures, allVars, deploymentVars, vars, Touched
<1>6. QED BY <1>1, <1>2, <1>3, <1>4, <1>5, Steps

\* A command touches only its own script, a load none without a yaml file.
LEMMA OthersStay ==
  ASSUME StorageInv, ProgramTypes, CommandInProgress, Touched, [DeploymentNext]_allVars,
         NEW s \in ScriptIds, s \notin diverged, s \notin diverged', Provisioned[s] = Absent,
         json[s] # Torn, InMemory(s, json[s])
  PROVE  /\ json'[s] = json[s]
         /\ memory'[s] = IF s \in missed' THEN Absent ELSE json[s]
<1> USE DEF InMemory
<1>1. CASE AddsScript
  BY <1>1 DEF AddsScript, AddScript, Deploy, BeginWrite, StorageInv, TypeOK
<1>2. CASE \E t \in ScriptIds : ScriptCommand(t)
  <2>1. PICK t \in ScriptIds : ScriptCommand(t)
    BY <1>2
  <2>2. s # t
    BY <2>1 DEF ScriptCommand
  <2>3. ASSUME NEW d, NEW insert, BeginWrite(t, d, insert) \/ CannotWrite(t)
        PROVE  json'[s] = json[s] /\ missed' = missed
    BY <2>2, <2>3 DEF BeginWrite, CannotWrite, StorageInv, TypeOK
  <2>4. CASE Delete(t)
    BY <2>2, <2>4 DEF Delete, StorageInv, TypeOK
  <2>5. CASE Rollback(t)
    BY <2>2, <2>3, <2>5 DEF Rollback, StorageInv, TypeOK
  <2>6. CASE \E d \in Definition : Deploy(t, d)
    BY <2>2, <2>6 DEF Deploy, BeginWrite, StorageInv, TypeOK
  <2>7. CASE \E on \in BOOLEAN : SetEnabled(t, on)
    BY <2>2, <2>3, <2>7 DEF SetEnabled, StorageInv, TypeOK
  <2>8. QED BY <2>1, <2>4, <2>5, <2>6, <2>7 DEF ScriptCommand
<1>3. CASE ScriptAdded \/ ScriptCommandEnds
  <2>1. EndWrite /\ s # writer.id
    BY <1>3 DEF ScriptAdded, ScriptCommandEnds, EndWrite, Touched
  <2>2. QED BY <2>1, WriteEnds
<1>4. CASE EngineLoads \/ Reboot
  <2>1. (Load \/ UNCHANGED <<memory, missed>>) /\ json' = json
    BY <1>4, Reloads DEF EngineLoads, Reboot, Restart
  <2>2. CASE Load
    BY <2>1, <2>2, LoadLeaves DEF StorageInv
  <2>3. CASE UNCHANGED <<memory, missed>>
    BY <2>1, <2>3
  <2>4. QED BY <2>1, <2>2, <2>3
<1>5. CASE OpenProgramFile \/ WriteProgramFile \/ EngineConfigures \/ UNCHANGED allVars
  BY <1>5 DEF OpenProgramFile, WriteProgramFile, EngineConfigures, allVars, vars
<1>6. QED BY <1>1, <1>2, <1>3, <1>4, <1>5, Steps

\* program.json is written when the storage has the script of its program.
LEMMA ProgramStep ==
  ASSUME StorageInv, ProgramTypes, CommandInProgress, Touched, ProgramIsDeployed,
         [DeploymentNext]_allVars
  PROVE  ProgramIsDeployed'
<1> SUFFICES ASSUME NEW p \in Programs, program_file' # Torn, program_file'.program = p,
                    p.script \notin diverged', Provisioned[p.script] = Absent
             PROVE  /\ json'[p.script] = p.text
                    /\ memory'[p.script] = IF p.script \in missed' THEN Absent ELSE p.text
  BY DEF ProgramIsDeployed, InMemory
<1> DEFINE Deployed == /\ json'[p.script] = p.text
                       /\ memory'[p.script] = IF p.script \in missed' THEN Absent ELSE p.text
<1>0. p.script \in ScriptIds /\ p.text # Torn
  BY DeploymentAssumption, StorageAssumption
<1>1. ASSUME program_file' = program_file, diverged \subseteq diverged'
      PROVE  Deployed
  <2>1. json[p.script] = p.text /\ InMemory(p.script, p.text) /\ p.script \notin diverged
    BY <1>1 DEF ProgramIsDeployed
  <2>2. QED BY <1>0, <2>1, OthersStay
<1>2. CASE WriteProgramFile
  <2>1. /\ command # Idle /\ command.step = "saving"
        /\ UNCHANGED <<memory, json, missed>>
    BY <1>2 DEF WriteProgramFile, vars
  <2>2. CASE program_file' = command.state
    <3>1. command.state.program = p
      BY <2>2
    <3>2. QED BY <2>1, <3>1 DEF CommandInProgress, InMemory
  <2>3. CASE UNCHANGED <<program_file, diverged>>
    BY <1>1, <2>3
  <2>4. QED BY <1>2, <2>2, <2>3 DEF WriteProgramFile
<1>3. CASE OpenProgramFile
  BY <1>1, <1>3 DEF OpenProgramFile
<1>4. CASE \/ AddsScript \/ ScriptAdded \/ ScriptCommandEnds
           \/ (\E s \in ScriptIds : ScriptCommand(s)) \/ EngineLoads \/ Reboot
           \/ EngineConfigures \/ UNCHANGED allVars
  <2>1. program_file' = program_file /\ diverged \subseteq diverged'
    BY <1>4 DEF AddsScript, AddScript, ScriptAdded, ScriptCommandEnds, ScriptCommand, EngineLoads,
                Reboot, EngineConfigures, allVars, deploymentVars
  <2>2. QED BY <1>1, <2>1
<1>5. QED BY <1>2, <1>3, <1>4, Steps

\* A rollback leaves nothing to go back to, and so does a file that is cut short.
LEMMA RollbackStep ==
  ASSUME ProgramTypes, CommandInProgress, RollbackOnce, [DeploymentNext]_allVars
  PROVE  RollbackOnce'
<1>1. CASE WriteProgramFile
  <2>1. CASE program_file' = command.state /\ undone' = (command.op = "rollback")
    BY <1>1, <2>1 DEF WriteProgramFile, CommandInProgress, RollbackOnce, Stored, NewState
  <2>2. CASE UNCHANGED <<program_file, undone>>
    BY <2>2 DEF RollbackOnce, Stored
  <2>3. QED BY <1>1, <2>1, <2>2 DEF WriteProgramFile
<1>2. CASE OpenProgramFile
  BY <1>2 DEF OpenProgramFile, RollbackOnce, Stored, NewState
<1>3. CASE \/ AddsScript \/ ScriptAdded \/ ScriptCommandEnds
           \/ (\E s \in ScriptIds : ScriptCommand(s)) \/ EngineLoads \/ Reboot
           \/ EngineConfigures \/ UNCHANGED allVars
  <2>1. UNCHANGED <<program_file, undone>>
    BY <1>3 DEF AddsScript, AddScript, ScriptAdded, ScriptCommandEnds, ScriptCommand, EngineLoads,
                Reboot, EngineConfigures, allVars, deploymentVars
  <2>2. QED BY <2>1 DEF RollbackOnce, Stored
<1>4. QED BY <1>1, <1>2, <1>3, Steps

LEMMA DeploymentStarts == DeploymentInit => DeploymentInv
<1> SUFFICES ASSUME DeploymentInit PROVE DeploymentInv
  OBVIOUS
<1>1. StorageInv
  BY StorageInit DEF DeploymentInit
<1>2. ProgramTypes
  BY DEF DeploymentInit, ProgramTypes, NewState, ProgramState, ProgramOrNone
<1>3. CommandInProgress /\ Touched
  BY DEF DeploymentInit, Init, CommandInProgress, Touched
<1>4. ProgramIsDeployed
  BY DeploymentAssumption DEF DeploymentInit, NewState, ProgramIsDeployed
<1>5. RollbackOnce
  BY DEF DeploymentInit, RollbackOnce
<1>6. QED BY <1>1, <1>2, <1>3, <1>4, <1>5 DEF DeploymentInv

\* DeploymentInv holds in every reachable state.
THEOREM DeploymentInvariant == DeploymentSpec => []DeploymentInv
<1>1. DeploymentInv /\ [DeploymentNext]_allVars => DeploymentInv'
  <2> SUFFICES ASSUME DeploymentInv, [DeploymentNext]_allVars PROVE DeploymentInv'
    OBVIOUS
  <2> USE DEF DeploymentInv
  <2>1. StorageInv'
    BY UsesStorage, StorageStep
  <2>2. ProgramTypes' /\ CommandInProgress' /\ Touched'
    BY ProgramTypesStep, CommandStep, TouchedStep
  <2>3. ProgramIsDeployed' /\ RollbackOnce'
    BY ProgramStep, RollbackStep
  <2>4. QED BY <2>1, <2>2, <2>3
<1>2. QED BY DeploymentStarts, <1>1, PTL DEF DeploymentSpec

\* The program commands, and the engine's start, use the storage only as the
\* specification of the storage allows.
THEOREM StorageIsUsed == DeploymentSpec => Spec
<1>1. DeploymentInit => Init
  BY DEF DeploymentInit
<1>2. DeploymentInv /\ [DeploymentNext]_allVars => [Next]_vars
  BY UsesStorage DEF DeploymentInv
<1>3. QED BY <1>1, <1>2, DeploymentInvariant, PTL DEF DeploymentSpec, Spec

\* Types, and the storage's bound: no command ever stores a script too many.
THEOREM TypeCorrect == DeploymentSpec => []DeploymentOK
<1>1. DeploymentInv => DeploymentOK
  BY DEF DeploymentInv, StorageInv, ProgramTypes, DeploymentOK
<1>2. QED BY <1>1, DeploymentInvariant, PTL

\* What the storage answered for a script is on disk, whatever loads fail and
\* whenever the agent stops, and in memory what the last load did not pass over,
\* until another operation on it is begun.
THEOREM AnswersAreKept == DeploymentSpec => []AckedIsStored
<1>1. DeploymentInv => AckedIsStored
  BY DEF DeploymentInv, StorageInv
<1>2. QED BY <1>1, DeploymentInvariant, PTL

\* program.json names a program only with its script on disk, and in memory unless
\* the last load passed it over, until a command that touches the script is begun.
THEOREM FilesAgree == DeploymentSpec => []ProgramIsDeployed
<1>1. DeploymentInv => ProgramIsDeployed
  BY DEF DeploymentInv
<1>2. QED BY <1>1, DeploymentInvariant, PTL

\* A program is not rolled back twice.
THEOREM NoSecondRollback == DeploymentSpec => []RollbackOnce
<1>1. DeploymentInv => RollbackOnce
  BY DEF DeploymentInv
<1>2. QED BY <1>1, DeploymentInvariant, PTL
=============================================================================
