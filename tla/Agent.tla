------------------------------- MODULE Agent -------------------------------
(* The running agent around its shared state: the MQTT event loop          *)
(* (src/src/mqtt.rs), the command handler (src/src/commands.rs), telemetry *)
(* (src/src/telemetry.rs), the script engine's reads of the state          *)
(* (src/src/scripting/engine.rs) and shutdown (src/src/shutdown.rs,        *)
(* src/src/main.rs).  AppState is under a tokio RwLock, which serves its   *)
(* waiters in the order they came; two bounded channels join the event     *)
(* loop to the tasks.  A publication is sent into its channel while the    *)
(* read lock is held.                                                      *)
EXTENDS Startup, Sequences, SequencesExt

CONSTANTS
  OutgoingCap,  \* request channel of the MQTT client (100)
  IncomingCap,  \* channel from the event loop to the handler (100)
  MaxMessages,  \* messages the cloud sends in the life of the model
  MaxOutages    \* how often the connection is lost

ASSUME AgentAssumption ==
  /\ OutgoingCap \in Nat \ {0} /\ IncomingCap \in Nat \ {0}
  /\ MaxMessages \in Nat /\ MaxOutages \in Nat

VARIABLES
  pc,          \* where each task is
  holds,       \* what each task holds of the lock
  waiting,     \* the waiters of the lock, first come first
  connected,   \* the event loop is connected to the broker
  outages,     \* connections lost so far
  sent,        \* messages the cloud sent
  delivering,  \* the event loop waits for room for a message it received
  incoming,    \* messages in the channel to the handler
  outgoing     \* requests in the channel to the event loop

taskVars == <<pc, holds, waiting>>
netVars == <<connected, outages, sent, delivering>>
channelVars == <<incoming, outgoing>>

allVars == <<startupVars, taskVars, netVars, channelVars>>

Tasks == {"handler", "telemetry", "engine"}
Lockers == Tasks \cup {"main"}

-----------------------------------------------------------------------------
Started == [t \in Lockers |-> "idle"]
Unlocked == [t \in Lockers |-> "none"]
Gone == [t \in Lockers |-> IF t = "main" THEN "stop" ELSE "gone"]

AgentInit ==
  /\ StartupInit
  /\ pc = Gone /\ holds = Unlocked /\ waiting = <<>>
  /\ connected = FALSE /\ outages = 0 /\ sent = 0
  /\ delivering = FALSE /\ incoming = 0 /\ outgoing = 0

-----------------------------------------------------------------------------
(* A task asks for the lock and goes on at step next when it has it.       *)
Ask(t, mode, next) ==
  /\ waiting' = Append(waiting, [task |-> t, mode |-> mode])
  /\ pc' = [pc EXCEPT ![t] = next]

Has(t, step, mode) == pc[t] = step /\ holds[t] = mode

(* The first waiter gets the lock when it is free for it.                  *)
Grant ==
  /\ waiting # <<>>
  /\ LET w == Head(waiting) IN
     /\ \A t \in Lockers : holds[t] # "write"
     /\ w.mode = "write" => \A t \in Lockers : holds[t] = "none"
     /\ holds' = [holds EXCEPT ![w.task] = w.mode]
  /\ waiting' = Tail(waiting)
  /\ UNCHANGED <<pc, startupVars, netVars, channelVars>>

Release(t) == holds' = [holds EXCEPT ![t] = "none"]

Back(t) == pc' = [pc EXCEPT ![t] = "idle"] /\ Release(t) /\ UNCHANGED waiting

(* publish().await: into the request channel, which may be full.           *)
Publish(t) ==
  /\ outgoing < OutgoingCap
  /\ outgoing' = outgoing + 1
  /\ Back(t)
  /\ UNCHANGED <<startupVars, netVars, incoming>>

-----------------------------------------------------------------------------
(* The command handler: try_recv under the write lock, ...                 *)
HandlerAsks ==
  /\ pc["handler"] = "idle"
  /\ Ask("handler", "write", "receive")
  /\ UNCHANGED <<holds, startupVars, netVars, channelVars>>

(* ... the rate limit, which drops the message, ...                        *)
HandlerReceives ==
  /\ Has("handler", "receive", "write")
  /\ \/ incoming = 0 /\ Back("handler") /\ UNCHANGED incoming
     \/ /\ incoming > 0
        /\ incoming' = incoming - 1
        /\ \/ Back("handler")
           \/ Ask("handler", "read", "look") /\ Release("handler")
  /\ UNCHANGED <<startupVars, netVars, outgoing>>

(* Variant of HandlerLooks: the first guard is not dropped.                *)
HandlerLooksHolding ==
  /\ Has("handler", "look", "read")
  /\ \/ Ask("handler", "read", "answer") /\ UNCHANGED holds
     \/ Ask("handler", "write", "level") /\ UNCHANGED holds
     \/ Ask("handler", "write", "update") /\ UNCHANGED holds
     \/ Back("handler")
  /\ UNCHANGED <<startupVars, netVars, channelVars>>

(* ... the topics, and the reads of the command itself, none of which      *)
(* waits for anything under the lock; then the answer, the log level or    *)
(* the update.                                                             *)
HandlerLooks ==
  /\ Has("handler", "look", "read")
  /\ \/ Ask("handler", "read", "answer") /\ Release("handler")
     \/ Ask("handler", "write", "level") /\ Release("handler")
     \/ Ask("handler", "write", "update") /\ Release("handler")
     \/ Back("handler")
  /\ UNCHANGED <<startupVars, netVars, channelVars>>

HandlerAnswers == Has("handler", "answer", "read") /\ Publish("handler")

(* set_log_level changes the configuration in memory, and does not save it.*)
HandlerSetsLevel ==
  /\ Has("handler", "level", "write")
  /\ \E l \in Levels : memory' = [memory EXCEPT !.level = l]
  /\ Ask("handler", "read", "answer") /\ Release("handler")
  /\ UNCHANGED <<phase, file, spent, unsaved, upsets, netVars, channelVars>>

(* Variant of Accepts: the range of an interval is not looked at.          *)
AcceptsAny(i) == i \in Intervals

(* handle_config_update takes intervals from 5 seconds to an hour.         *)
Accepts(i) == i >= 5 /\ i <= 3600

(* handle_config_update changes the configuration in memory, then saves it *)
(* under the lock; a save that fails leaves the change in memory.          *)
HandlerUpdates ==
  /\ Has("handler", "update", "write")
  /\ \E i \in Intervals :
       IF Accepts(i)
       THEN /\ memory' = [memory EXCEPT !.interval = i]
            /\ \/ /\ file' = Torn
                  /\ pc' = [pc EXCEPT !["handler"] = "save"]
                  /\ UNCHANGED <<holds, waiting, unsaved, upsets>>
               \/ /\ Back("handler") /\ unsaved' = TRUE /\ Upset
                  /\ UNCHANGED file
       ELSE /\ Back("handler")
            /\ UNCHANGED <<memory, file, unsaved, upsets>>
  /\ UNCHANGED <<phase, spent, netVars, channelVars>>

HandlerSaves ==
  /\ Has("handler", "save", "write")
  /\ WriteConfig
  /\ Back("handler")
  /\ UNCHANGED <<phase, memory, spent, netVars, channelVars>>

-----------------------------------------------------------------------------
(* Telemetry publishes, every interval, under the read lock.               *)
TelemetryAsks ==
  /\ pc["telemetry"] = "idle"
  /\ Ask("telemetry", "read", "report")
  /\ UNCHANGED <<holds, startupVars, netVars, channelVars>>

TelemetryPublishes == Has("telemetry", "report", "read") /\ Publish("telemetry")

(* update_context, and the actions of scripts, clone a handle from the     *)
(* state: no cycle of the engine goes on without the read lock.            *)
EngineAsks ==
  /\ pc["engine"] = "idle"
  /\ Ask("engine", "read", "look")
  /\ UNCHANGED <<holds, startupVars, netVars, channelVars>>

EngineLooks ==
  /\ Has("engine", "look", "read")
  /\ Back("engine")
  /\ UNCHANGED <<startupVars, netVars, channelVars>>

-----------------------------------------------------------------------------
Alive == phase \in {"running", "stopping", "closing"}

(* The event loop sends a request, or receives a message and waits for     *)
(* room to deliver it; it does one thing at a time.                        *)
Send ==
  /\ Alive /\ connected /\ ~delivering /\ outgoing > 0
  /\ outgoing' = outgoing - 1
  /\ UNCHANGED <<startupVars, taskVars, netVars, incoming>>

Receive ==
  /\ Alive /\ connected /\ ~delivering /\ sent < MaxMessages
  /\ sent' = sent + 1
  /\ delivering' = TRUE
  /\ UNCHANGED <<startupVars, taskVars, connected, outages, channelVars>>

(* Variant of Deliver: as if the channel had no bound.                     *)
DeliverUnbounded ==
  /\ Alive /\ delivering
  /\ incoming' = incoming + 1
  /\ delivering' = FALSE
  /\ UNCHANGED <<startupVars, taskVars, connected, outages, sent, outgoing>>

Deliver ==
  /\ Alive /\ delivering /\ incoming < IncomingCap
  /\ incoming' = incoming + 1
  /\ delivering' = FALSE
  /\ UNCHANGED <<startupVars, taskVars, connected, outages, sent, outgoing>>

(* The connection is lost, and made again after the backoff.               *)
Disconnects ==
  /\ connected /\ outages < MaxOutages
  /\ connected' = FALSE
  /\ outages' = outages + 1
  /\ UNCHANGED <<startupVars, taskVars, sent, delivering, channelVars>>

Reconnects ==
  /\ Alive /\ ~connected /\ ~delivering
  /\ connected' = TRUE
  /\ UNCHANGED <<startupVars, taskVars, outages, sent, delivering, channelVars>>

-----------------------------------------------------------------------------
(* Up to the MQTT client, which comes with empty channels; then the tasks. *)
Starts ==
  /\ StartupStep
  /\ IF phase' = "running"
     THEN /\ pc' = Started /\ connected' = FALSE /\ delivering' = FALSE
          /\ incoming' = 0 /\ outgoing' = 0
          /\ UNCHANGED <<holds, waiting, outages, sent>>
     ELSE UNCHANGED <<taskVars, netVars, channelVars>>

Nothing ==
  /\ pc' = Gone /\ holds' = Unlocked /\ waiting' = <<>>
  /\ connected' = FALSE /\ delivering' = FALSE /\ incoming' = 0 /\ outgoing' = 0
  /\ UNCHANGED <<outages, sent>>

Crashes == Crash /\ Nothing

(* A signal ends the main loop, and the coordinator signals the tasks.     *)
Signal ==
  /\ phase = "running"
  /\ phase' = "stopping"
  /\ UNCHANGED <<file, memory, spent, unsaved, upsets, taskVars, netVars, channelVars>>

(* Variant of Dropped: its place among the waiters stays.                  *)
DroppedWaiting(t) ==
  /\ phase \in {"stopping", "closing"}
  /\ pc[t] \notin {"gone", "save"}
  /\ pc' = [pc EXCEPT ![t] = "gone"]
  /\ Release(t)
  /\ UNCHANGED <<waiting, startupVars, netVars, channelVars>>

(* run_until_shutdown drops a task where it awaits, with all that it holds *)
(* or waits for; the write of a file is not such a place.                  *)
Dropped(t) ==
  /\ phase \in {"stopping", "closing"}
  /\ pc[t] \notin {"gone", "save"}
  /\ pc' = [pc EXCEPT ![t] = "gone"]
  /\ Release(t)
  /\ \/ \E i \in DOMAIN waiting :
          waiting[i].task = t /\ waiting' = RemoveAt(waiting, i)
     \/ (\A i \in DOMAIN waiting : waiting[i].task # t) /\ UNCHANGED waiting
  /\ UNCHANGED <<startupVars, netVars, channelVars>>

(* The coordinator waits for each task, but no longer than its time; then  *)
(* the handle of the Modbus devices is fetched from the state, ...         *)
Waited ==
  /\ phase = "stopping"
  /\ phase' = "closing"
  /\ Ask("main", "read", "fetch")
  /\ UNCHANGED <<file, memory, spent, unsaved, upsets, holds, netVars, channelVars>>

Fetched ==
  /\ Has("main", "fetch", "read")
  /\ Release("main")
  /\ pc' = [pc EXCEPT !["main"] = "modbus"]
  /\ UNCHANGED <<waiting, startupVars, netVars, channelVars>>

(* ... they have been disconnected, and the MQTT client is next.           *)
Disconnected ==
  /\ pc["main"] = "modbus"
  /\ Ask("main", "write", "close")
  /\ UNCHANGED <<holds, startupVars, netVars, channelVars>>

(* Variant of Close: without the lock on the state.                        *)
CloseUnlocked ==
  /\ pc["main"] = "close"
  /\ outgoing < OutgoingCap
  /\ outgoing' = outgoing + 1
  /\ pc' = [pc EXCEPT !["main"] = "bye"]
  /\ UNCHANGED <<startupVars, holds, waiting, netVars, incoming>>

(* MqttClient::disconnect: the offline status, then the disconnection, are *)
(* put into the request channel; then the process ends.                    *)
Close ==
  /\ Has("main", "close", "write")
  /\ outgoing < OutgoingCap
  /\ outgoing' = outgoing + 1
  /\ pc' = [pc EXCEPT !["main"] = "bye"]
  /\ UNCHANGED <<startupVars, holds, waiting, netVars, incoming>>

Exit ==
  /\ pc["main"] = "bye"
  /\ outgoing < OutgoingCap
  /\ Nothing
  /\ phase' = "stopped"
  /\ UNCHANGED <<file, memory, spent, unsaved, upsets>>

(* systemd kills what does not stop in time, and may start it again.       *)
Killed ==
  /\ phase \in {"stopping", "closing"}
  /\ Nothing
  /\ phase' = "down"
  /\ UNCHANGED <<file, memory, spent, unsaved, upsets>>

(* Somebody starts the service again.                                      *)
StartedAgain ==
  /\ phase = "stopped"
  /\ phase' = "down"
  /\ UNCHANGED <<file, memory, spent, unsaved, upsets, taskVars, netVars, channelVars>>

Handler ==
  HandlerAsks \/ HandlerReceives \/ HandlerLooks \/ HandlerAnswers
    \/ HandlerSetsLevel \/ HandlerUpdates \/ HandlerSaves

Telemetry == TelemetryAsks \/ TelemetryPublishes

Engine == EngineAsks \/ EngineLooks

EventLoop == Send \/ Receive \/ Deliver

Shutdown ==
  Waited \/ Fetched \/ Disconnected \/ Close \/ Exit \/ \E t \in Tasks : Dropped(t)

AgentNext ==
  \/ Starts \/ Grant \/ Handler \/ Telemetry \/ Engine \/ EventLoop
  \/ Disconnects \/ Reconnects \/ Shutdown
  \/ Crashes \/ Signal \/ Killed \/ StartedAgain

(* The runtime schedules every task that can go on; the connection is      *)
(* tried again for ever (Networked), and whether it is ever made again is  *)
(* up to the network.  Nobody has to stop, kill or start the agent.        *)
Scheduled ==
  /\ WF_allVars(Starts) /\ WF_allVars(Grant)
  /\ WF_allVars(Handler) /\ WF_allVars(Telemetry) /\ WF_allVars(Engine)
  /\ WF_allVars(Send) /\ WF_allVars(Deliver) /\ WF_allVars(Shutdown)

Networked == WF_allVars(Reconnects)

AgentSpec == AgentInit /\ [][AgentNext]_allVars /\ Scheduled

OnlineSpec == AgentSpec /\ Networked

-----------------------------------------------------------------------------
Steps ==
  {"idle", "receive", "look", "answer", "level", "update", "save", "report",
   "gone", "stop", "fetch", "modbus", "close", "bye"}

(* Types; each waiter waits once and no channel is over its bound.         *)
AgentOK ==
  /\ StartupOK
  /\ pc \in [Lockers -> Steps]
  /\ holds \in [Lockers -> {"none", "read", "write"}]
  /\ \A i \in DOMAIN waiting :
       /\ waiting[i].task \in Lockers /\ waiting[i].mode \in {"read", "write"}
       /\ holds[waiting[i].task] = "none"
       /\ \A j \in DOMAIN waiting : waiting[j].task = waiting[i].task => j = i
  /\ connected \in BOOLEAN /\ delivering \in BOOLEAN
  /\ outages \in 0..MaxOutages /\ sent \in 0..MaxMessages
  /\ incoming \in 0..IncomingCap /\ outgoing \in 0..OutgoingCap

(* Unless the last save failed, what a running agent works with is what    *)
(* the next start will find, but for the log level: credentials from the   *)
(* cloud and every accepted update, those too whose own save had failed.   *)
KeptOnDisk ==
  phase = "running" /\ pc["handler"] # "save" /\ ~unsaved =>
    file # Torn /\ memory = [file EXCEPT !.level = memory.level]

(* "Effective after agent restart": a start takes the log level that was   *)
(* set.  It does not: the level is not saved (MCLevelKept.cfg).            *)
LevelKept ==
  [][phase = "down" /\ phase' \in {"connect", "activate"} =>
       memory'.level = memory.level]_allVars

(* Whatever fails, systemd brings the agent back to running, unless it was *)
(* told to stop or has been stranded; no configuration it saved itself     *)
(* keeps it from starting.                                                 *)
ComesBack ==
  []<>(Alive \/ phase = "stopped") \/ <>[]Stranded

(* The event loop waits for room for a message and does nothing else.      *)
Flooded == delivering /\ incoming = IncomingCap

(* The engine gets to the shared state again and again ("shared, short     *)
(* locks"): nobody keeps it from the lock for ever, unless both channels   *)
(* are full and each of their ends waits for the other.  It holds of the   *)
(* OnlineSpec, where a network that is away comes back.                    *)
ControlContinues ==
  []<>(pc["engine"] # "look" \/ (Flooded /\ outgoing = OutgoingCap))

(* A graceful stop waits for the save of a configuration update.           *)
StopsCleanly ==
  [][phase' = "stopped" /\ phase # "stopped" => pc["handler"] # "save"]_allVars

(* A signalled agent exits, although its last publications wait for room   *)
(* in the channel to the network and its tasks are dropped while they hold *)
(* or wait for the lock, unless a flood of messages nobody takes any more  *)
(* holds up the event loop.                                                *)
ShutdownEnds ==
  []<>(phase \notin {"stopping", "closing"} \/ Flooded)
=============================================================================
