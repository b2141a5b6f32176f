------------------------------ MODULE Startup ------------------------------
(* Start, activation and configuration: run_agent (src/src/main.rs), the   *)
(* activation request (src/src/provisioning.rs) and config.yaml            *)
(* (src/src/config.rs).  An unactivated device spends its token, which the *)
(* cloud accepts once, on MQTT credentials and saves them; systemd starts  *)
(* the agent again after every failure.  What fails, and every stop in the *)
(* middle, is counted by upsets.                                           *)
EXTENDS Integers

CONSTANTS
  Shipped,    \* the configurations devices are delivered with
  Intervals,  \* telemetry intervals that updates contain
  Levels,     \* log levels that commands set
  MaxUpsets,
  Torn        \* the content of a file whose write did not complete

Config ==
  [credentials: BOOLEAN,  \* mqtt.broker, port, username and password
   tenant: BOOLEAN,       \* tenant_id
   token: BOOLEAN,        \* provisioning_token
   interval: Nat,         \* telemetry.interval_seconds
   level: STRING,         \* logging.level
   trusted: BOOLEAN]      \* mqtt.tls is off, or names a CA certificate

(* What "suderra-agent --init" writes, with a token added.                 *)
Template ==
  [credentials |-> FALSE, tenant |-> FALSE, token |-> TRUE, interval |-> 30,
   level |-> "info", trusted |-> FALSE]

Templates == {Template}

ASSUME StartupAssumption ==
  /\ Shipped \subseteq Config
  /\ Intervals \subseteq Nat /\ Levels \subseteq STRING
  /\ MaxUpsets \in Nat
  /\ Torn \notin Config

VARIABLES
  phase,    \* where the process is between systemd and the running agent
  file,     \* the content of config.yaml
  memory,   \* AppState.config
  spent,    \* the cloud has activated the device: its token is used
  unsaved,  \* history: the last save of this configuration failed
  upsets    \* failures and stops so far

startupVars == <<phase, file, memory, spent, unsaved, upsets>>

Phases ==
  {"down", "activate", "activated", "saving", "connect", "failed", "running",
   "stopping", "closing", "stopped"}   \* the last three are in Agent

(* validate, as far as anything else in the model depends on it.           *)
Valid(i) == i \in 5..3600

Upset == upsets < MaxUpsets /\ upsets' = upsets + 1

-----------------------------------------------------------------------------
StartupInit ==
  /\ file \in Shipped
  /\ memory = file
  /\ phase = "down"
  /\ spent = FALSE /\ unsaved = FALSE
  /\ upsets = 0

(* AgentConfig::load: a file that does not parse, or not validate, ends    *)
(* the process.                                                            *)
Load ==
  /\ phase = "down"
  /\ IF file # Torn /\ Valid(file.interval)
     THEN /\ memory' = file
          /\ phase' = IF file.credentials THEN "connect" ELSE "activate"
          /\ unsaved' = FALSE
     ELSE /\ phase' = "failed"
          /\ UNCHANGED <<memory, unsaved>>
  /\ UNCHANGED <<file, spent, upsets>>

(* systemd: Restart=on-failure.                                            *)
Respawn ==
  /\ phase = "failed"
  /\ phase' = "down"
  /\ UNCHANGED <<file, memory, spent, unsaved, upsets>>

(* The request for activation: without a token it is not sent; the cloud   *)
(* takes a token once, refuses it afterwards, and may not be reached, or   *)
(* its answer may not.                                                     *)
Activate ==
  /\ phase = "activate"
  /\ \/ /\ ~memory.token \/ spent
        /\ phase' = "failed"
        /\ UNCHANGED <<spent, upsets>>
     \/ /\ memory.token /\ ~spent
        /\ spent' = TRUE
        /\ \/ phase' = "activated" /\ UNCHANGED upsets
           \/ phase' = "failed" /\ Upset
     \/ /\ memory.token
        /\ phase' = "failed"
        /\ Upset
        /\ UNCHANGED spent
  /\ UNCHANGED <<file, memory, unsaved>>

(* fs::write truncates the file; or it cannot be opened.                   *)
OpenConfig(next, onError) ==
  \/ /\ file' = Torn
     /\ phase' = next
     /\ UNCHANGED <<unsaved, upsets>>
  \/ /\ phase' = onError
     /\ unsaved' = TRUE /\ Upset
     /\ UNCHANGED file

(* Variant of Received: the configuration in memory forgets to go to disk. *)
ReceivedUnsaved ==
  /\ phase = "activated"
  /\ memory' = [memory EXCEPT !.credentials = TRUE, !.token = FALSE]
  /\ phase' = "connect"
  /\ UNCHANGED <<file, spent, unsaved, upsets>>

(* The credentials are put in the configuration and the token taken out,   *)
(* then it is saved.  The tenant goes to AppState only.                    *)
Received ==
  /\ phase = "activated"
  /\ memory' = [memory EXCEPT !.credentials = TRUE, !.token = FALSE]
  /\ OpenConfig("saving", "connect")
  /\ UNCHANGED spent

(* The write ends, well or in the middle.                                  *)
WriteConfig ==
  \/ file' = memory /\ unsaved' = FALSE /\ UNCHANGED upsets
  \/ unsaved' = TRUE /\ Upset /\ UNCHANGED file

(* A save that failed is only logged.                                      *)
Saved ==
  /\ phase = "saving"
  /\ WriteConfig
  /\ phase' = "connect"
  /\ UNCHANGED <<memory, spent>>

(* MqttClient::new wants credentials, a tenant and, for TLS, certificates  *)
(* it can read; what it sends first is only queued.                        *)
Connect ==
  /\ phase = "connect"
  /\ \/ /\ phase' = IF memory.credentials /\ memory.tenant /\ memory.trusted
                    THEN "running" ELSE "failed"
        /\ UNCHANGED upsets
     \/ phase' = "failed" /\ Upset
  /\ UNCHANGED <<file, memory, spent, unsaved>>

(* The agent is killed, or the power fails.                                *)
Crash ==
  /\ phase \notin {"down", "failed", "stopped"}
  /\ phase' = "down"
  /\ Upset
  /\ UNCHANGED <<file, memory, spent, unsaved>>

StartupStep ==
  Load \/ Respawn \/ Activate \/ Received \/ Saved \/ Connect

StartupNext == StartupStep \/ Crash

StartupSpec == StartupInit /\ [][StartupNext]_startupVars

-----------------------------------------------------------------------------
StartupOK ==
  /\ phase \in Phases
  /\ file \in Config \cup {Torn}
  /\ memory \in Config
  /\ spent \in BOOLEAN /\ unsaved \in BOOLEAN
  /\ upsets \in 0..MaxUpsets

(* The restarts that lead nowhere: a file cut short, a device delivered    *)
(* without a tenant or with TLS but no CA certificate, a token spent for   *)
(* credentials that were not saved.                                        *)
Stranded ==
  \/ file = Torn
  \/ ~file.tenant \/ ~file.trusted
  \/ spent /\ ~file.credentials

(* "Tenant ID (set after activation)": a device that has its credentials   *)
(* on disk has its tenant there too.                                       *)
TenantKept == file # Torn /\ file.credentials => file.tenant
=============================================================================
