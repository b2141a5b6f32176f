---------------------------- MODULE ScriptStorage ----------------------------
(* The script storage and its directory (src/src/scripting/storage.rs).    *)
(* Memory is a map under a read-write lock; every operation that changes a *)
(* definition also rewrites or removes <id>.json, with fs::write, which    *)
(* truncates the file before it writes it.  The agent may stop at any      *)
(* point and starts again from the directory.  Statuses and error counts,  *)
(* which are never on disk, are in ScriptEngine.                           *)
EXTENDS Scripts, FiniteSets

CONSTANTS
  ScriptIds,
  Provisioned,   \* hand-written <id>.yaml files: a definition, or Absent
  MaxScripts,    \* max_scripts
  Torn,          \* the content of a file whose write did not complete
  Idle           \* no write in progress

ASSUME StorageAssumption ==
  /\ IsFiniteSet(ScriptIds)
  /\ MaxScripts \in Nat
  /\ Provisioned \in [ScriptIds -> Definition \cup {Absent}]
  /\ Absent \notin Definition
  /\ Torn \notin Definition \cup {Absent}
  /\ Idle \notin [id: ScriptIds, text: Definition, insert: BOOLEAN]

VARIABLES
  memory,     \* the scripts map: the definition of each script, or Absent
  previous,   \* previous_definition of each script
  json,       \* the content of <id>.json; Absent if there is no file
  writer,     \* the write in progress, which holds the lock, or Idle
  starting,   \* the engine has not reloaded the storage yet since the start
  acked,      \* history: each script as the last successful answer left it
  unsettled,  \* history: scripts an operation was begun on since
  loaded,     \* history: how many scripts the last load found
  missed      \* history: scripts the last load passed over though their file
              \*          was good, and that were not deployed since

vars == <<memory, previous, json, writer, starting, acked, unsettled, loaded, missed>>

-----------------------------------------------------------------------------
Present == {s \in ScriptIds : memory[s] # Absent}

(* What load_all can leave in the map, which it empties first: read_dir    *)
(* lists the two files of a script in any order and the later one stays;   *)
(* one that does not parse or cannot be read is skipped, and an error of   *)
(* the listing ends the load wherever it is.                               *)
Readable(s) == {json[s], Provisioned[s]} \cap Definition

Directory == {m \in [ScriptIds -> Definition \cup {Absent}] :
                \A s \in ScriptIds : m[s] \in Readable(s) \cup {Absent}}

Size(m) == Cardinality({s \in ScriptIds : m[s] # Absent})

Missed(m) == {s \in ScriptIds : m[s] = Absent /\ Readable(s) # {}}

-----------------------------------------------------------------------------
Init ==
  /\ json = [s \in ScriptIds |-> Absent]
  /\ memory \in Directory
  /\ previous = [s \in ScriptIds |-> Absent]
  /\ writer = Idle
  /\ starting = TRUE
  /\ acked = Provisioned
  /\ unsettled = {}
  /\ loaded = Size(memory)
  /\ missed = Missed(memory)

Load ==
  /\ memory' \in Directory
  /\ previous' = [s \in ScriptIds |-> Absent]
  /\ loaded' = Size(memory')
  /\ missed' = Missed(memory')

(* The agent stops, whatever it was doing, and starts again: ScriptStorage *)
(* has an empty map and init calls load_all, whose error is logged.        *)
Restart ==
  /\ Load
  /\ writer' = Idle
  /\ starting' = TRUE
  /\ UNCHANGED <<json, acked, unsettled>>

(* ScriptEngine::init loads the directory a second time, when the command  *)
(* handler is already running.  It may fail before load_all is called (the *)
(* directory is not there and cannot be made) or in it.                    *)
Reload(ok) ==
  /\ starting /\ writer = Idle
  /\ Load \/ (~ok /\ UNCHANGED <<memory, previous, loaded, missed>>)
  /\ starting' = FALSE
  /\ UNCHANGED <<json, writer, acked, unsettled>>

-----------------------------------------------------------------------------
(* An operation on s starts to rewrite its file with the text d; a save    *)
(* puts the script in the map only after that.                             *)
BeginWrite(s, d, insert) ==
  /\ json' = [json EXCEPT ![s] = Torn]
  /\ writer' = [id |-> s, text |-> d, insert |-> insert]
  /\ unsettled' = unsettled \cup {s}
  /\ UNCHANGED <<starting, acked, loaded, missed>>

(* The file cannot be opened: the operation fails and leaves it as it was. *)
CannotWrite(s) ==
  /\ unsettled' = unsettled \cup {s}
  /\ UNCHANGED <<json, writer, starting, acked, loaded, missed>>

(* Variant of HasRoom: one script too many.                                *)
HasRoomOffByOne(s) == memory[s] # Absent \/ Cardinality(Present) <= MaxScripts

HasRoom(s) == memory[s] # Absent \/ Cardinality(Present) < MaxScripts

(* add_script and save: a new definition, or a new version.                *)
Deploy(s, d) ==
  /\ writer = Idle
  /\ HasRoom(s)
  /\ BeginWrite(s, d, TRUE)
  /\ UNCHANGED <<memory, previous>>

(* enable and disable change the definition in the map, then rewrite.      *)
SetEnabled(s, on) ==
  /\ writer = Idle /\ memory[s] # Absent
  /\ LET d == [memory[s] EXCEPT !.enabled = on] IN
     /\ memory' = [memory EXCEPT ![s] = d]
     /\ BeginWrite(s, d, FALSE) \/ CannotWrite(s)
  /\ UNCHANGED previous

(* rollback_script: the two definitions change places, then rewrite.       *)
Rollback(s) ==
  /\ writer = Idle /\ memory[s] # Absent /\ previous[s] # Absent
  /\ memory' = [memory EXCEPT ![s] = previous[s]]
  /\ previous' = [previous EXCEPT ![s] = memory[s]]
  /\ BeginWrite(s, previous[s], FALSE) \/ CannotWrite(s)

(* The write ends, well or in the middle, and the operation answers.       *)
EndWrite ==
  /\ writer # Idle
  /\ writer' = Idle
  /\ LET s == writer.id IN
     \/ /\ json' = [json EXCEPT ![s] = writer.text]
        /\ IF writer.insert
           THEN /\ memory' = [memory EXCEPT ![s] = writer.text]
                /\ previous' = [previous EXCEPT ![s] = memory[s]]
           ELSE UNCHANGED <<memory, previous>>
        /\ acked' = [acked EXCEPT ![s] = memory'[s]]
        /\ unsettled' = unsettled \ {s}
        /\ missed' = missed \ {s}
     \/ UNCHANGED <<memory, previous, json, acked, unsettled, missed>>
  /\ UNCHANGED <<starting, loaded>>

(* Variant of Delete: the file stays on disk.                              *)
DeleteKeepingFile(s) ==
  /\ writer = Idle /\ memory[s] # Absent
  /\ memory' = [memory EXCEPT ![s] = Absent]
  /\ previous' = [previous EXCEPT ![s] = Absent]
  /\ acked' = [acked EXCEPT ![s] = Absent]
  /\ unsettled' = unsettled \ {s}
  /\ UNCHANGED <<json, writer, starting, loaded, missed>>

(* delete: out of the map, then <id>.json is removed if it is there; a     *)
(* <id>.yaml stays.                                                        *)
Delete(s) ==
  /\ writer = Idle /\ memory[s] # Absent
  /\ memory' = [memory EXCEPT ![s] = Absent]
  /\ previous' = [previous EXCEPT ![s] = Absent]
  /\ \/ /\ json' = [json EXCEPT ![s] = Absent]
        /\ acked' = [acked EXCEPT ![s] = Absent]
        /\ unsettled' = unsettled \ {s}
     \/ /\ json[s] # Absent
        /\ unsettled' = unsettled \cup {s}
        /\ UNCHANGED <<json, acked>>
  /\ UNCHANGED <<writer, starting, loaded, missed>>

Next ==
  \/ Restart \/ EndWrite
  \/ \E ok \in BOOLEAN : Reload(ok)
  \/ \E s \in ScriptIds :
       \/ Rollback(s) \/ Delete(s)
       \/ \E d \in Definition : Deploy(s, d)
       \/ \E on \in BOOLEAN : SetEnabled(s, on)

Spec == Init /\ [][Next]_vars

-----------------------------------------------------------------------------
TypeOK ==
  /\ memory \in [ScriptIds -> Definition \cup {Absent}]
  /\ previous \in [ScriptIds -> Definition \cup {Absent}]
  /\ json \in [ScriptIds -> Definition \cup {Absent, Torn}]
  /\ writer \in [id: ScriptIds, text: Definition, insert: BOOLEAN] \cup {Idle}
  /\ starting \in BOOLEAN
  /\ acked \in [ScriptIds -> Definition \cup {Absent}]
  /\ unsettled \subseteq ScriptIds
  /\ loaded \in 0..Cardinality(ScriptIds)
  /\ missed \subseteq ScriptIds

(* The map holds d for a script, unless the last load passed it over.      *)
InMemory(s, d) == memory[s] = IF s \in missed THEN Absent ELSE d

(* What the storage last answered for a script is on disk, whatever loads  *)
(* and stops come after, and in memory unless the last load passed it      *)
(* over, when it is not there at all: only an operation that failed or was *)
(* cut short leaves it open.  (A provisioned script is left out: its yaml  *)
(* file competes with the json file, and outlives a delete.)               *)
AckedIsStored ==
  \A s \in ScriptIds \ unsettled : Provisioned[s] = Absent =>
    json[s] = acked[s] /\ InMemory(s, acked[s])

(* Every load finds what was answered for ("Load all scripts from disk",   *)
(* the comment of load_all).                                               *)
LoadsAll ==
  \A s \in ScriptIds \ unsettled :
    Provisioned[s] = Absent => memory[s] = acked[s]

(* The map never grows past max_scripts, or past what a load found: adding *)
(* a script is refused even when earlier deletes failed halfway.           *)
CapacityHeld ==
  \/ Cardinality(Present) <= MaxScripts
  \/ Cardinality(Present) <= loaded
=============================================================================
