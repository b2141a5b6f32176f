------------------------------ MODULE Triggers ------------------------------
(* The triggers of a script (src/src/scripting/triggers.rs) on the GPIO    *)
(* inputs: the engine reads the pins into its context, checks the triggers *)
(* in their order until one fires, and runs the script, which may write a  *)
(* pin (src/src/scripting/engine.rs).  Commands write pins, enable,        *)
(* disable and replace the script meanwhile; they do not reach the         *)
(* triggers' memory.  Times are ages, so that the clock can go on for ever *)
(* and be set back.                                                        *)
EXTENDS Gpio, FiniteSetsExt

CONSTANTS
  TriggerLists,  \* what the script is deployed with: sequences of triggers
  Horizon,       \* an age from which on times are not told apart
  MaxBacks       \* how often the clock is set back, by one unit each time

Trigger ==
  [kind: {"gpio_change", "change", "threshold", "interval", "schedule", "manual"},
   pin: Pins,            \* source
   debounce: 0..Horizon,
   interval: 0..Horizon]

ASSUME TriggersAssumption ==
  /\ TriggerLists \subseteq Seq(Trigger)
  /\ Horizon \in Nat /\ MaxBacks \in Nat

VARIABLES
  pc,        \* where the engine and the command handler are
  triggers,  \* the triggers of the script
  active,    \* the script is enabled, and its status active
  context,   \* what the engine knows of each pin: a value, or nothing yet
  memory,    \* TriggerState of each place in the list
  backs,     \* clock set back so far
  flipped,   \* pins that changed since the context was read
  unseen,    \* places of gpio_change that looked at their pin before it changed
  strange    \* places of gpio_change that remember what another trigger saw

seenVars == <<flipped, unseen, strange>>
engineVars == <<pc, triggers, active, context, memory, backs, seenVars>>
inputVars == <<gpioVars, engineVars>>

Places == UNION {DOMAIN t : t \in TriggerLists}

Fresh == [age |-> Horizon, previous |-> {}, held |-> FALSE]

InputsInit ==
  /\ GpioInit
  /\ pc = [c \in Callers |-> "idle"]
  /\ triggers \in TriggerLists
  /\ active \in BOOLEAN
  /\ context = [p \in Pins |-> {}]
  /\ memory = [i \in Places |-> Fresh]
  /\ backs = 0
  /\ flipped = {} /\ unseen = {} /\ strange = {}

-----------------------------------------------------------------------------
(* now - last_triggered wraps below zero (the release build), the interval *)
(* saturates.                                                              *)
Debounced(i) == memory[i].age >= 0 /\ memory[i].age < triggers[i].debounce

Elapsed(i) == Max({memory[i].age, 0}) >= triggers[i].interval

Watches(t, i) == i \in DOMAIN t /\ t[i].kind = "gpio_change"

WatchingPlaces == {i \in Places : \E t \in TriggerLists : Watches(t, i)}

Known(i) == context[triggers[i].pin]

(* check_trigger; a threshold is "the pin is high", and whether a schedule *)
(* matches the time is up to the time.                                     *)
Fires(i, due) ==
  LET t == triggers[i] IN
  /\ ~Debounced(i)
  /\ \/ t.kind = "gpio_change" /\ memory[i].previous # {} /\ Known(i) # {}
          /\ memory[i].previous # Known(i)
     \/ t.kind = "change" /\ Known(i) # {} /\ memory[i].previous # Known(i)
     \/ t.kind = "threshold" /\ Known(i) = {TRUE} /\ ~memory[i].held
     \/ t.kind = "interval" /\ Elapsed(i)
     \/ t.kind = "schedule" /\ due

Compares(i) == triggers[i].kind \in {"gpio_change", "change"} /\ Known(i) # {}

(* Variant of Looks: the value is remembered before the debounce is        *)
(* looked at.                                                              *)
LooksAlways(i) == TRUE

Looks(i) == ~Debounced(i)

Looked(i, fires) ==
  [age |-> IF fires THEN 0 ELSE memory[i].age,
   previous |-> IF Looks(i) /\ Compares(i) THEN Known(i) ELSE memory[i].previous,
   held |-> IF Looks(i) /\ triggers[i].kind = "threshold" /\ Known(i) # {}
            THEN Known(i) = {TRUE} ELSE memory[i].held]

(* check_all_triggers: a script that is not active is passed over, and so  *)
(* is every trigger after the first that fires.                            *)
Check ==
  /\ pc["engine"] = "check"
  /\ \E due \in BOOLEAN :
       LET firing == {i \in DOMAIN triggers : Fires(i, due)}
           checked ==
             {i \in DOMAIN triggers : active /\ \A j \in firing : j >= i}
           looked == {i \in checked : Watches(triggers, i) /\ Looks(i) /\ Compares(i)}
       IN
       /\ memory' = [i \in Places |->
            IF i \in checked THEN Looked(i, i \in firing) ELSE memory[i]]
       /\ unseen' = (unseen \ looked) \cup {i \in looked : triggers[i].pin \in flipped}
       /\ strange' = strange \ looked
       /\ pc' = [pc EXCEPT !["engine"] =
                   IF firing \cap checked = {} THEN "idle" ELSE "run"]
  /\ UNCHANGED <<gpioVars, triggers, active, context, backs, flipped>>

-----------------------------------------------------------------------------
(* update_context asks for all inputs.                                     *)
Update ==
  /\ pc["engine"] = "idle"
  /\ SendRead("engine")
  /\ pc' = [pc EXCEPT !["engine"] = "reading"]
  /\ UNCHANGED <<triggers, active, context, memory, backs, seenVars>>

(* The script writes a pin, or it has nothing more to do.                  *)
Run ==
  /\ pc["engine"] = "run"
  /\ \/ /\ \E p \in Pins \cap Numbers, v \in BOOLEAN : SendWrite("engine", p, v)
        /\ pc' = [pc EXCEPT !["engine"] = "writing"]
     \/ /\ pc' = [pc EXCEPT !["engine"] = "idle"]
        /\ UNCHANGED gpioVars
  /\ UNCHANGED <<triggers, active, context, memory, backs, seenVars>>

Command ==
  /\ pc["handler"] = "idle"
  /\ \E n \in Numbers, v \in BOOLEAN : SendWrite("handler", n, v)
  /\ pc' = [pc EXCEPT !["handler"] = "waiting"]
  /\ UNCHANGED <<triggers, active, context, memory, backs, seenVars>>

(* The caller goes on, with an answer or without.                          *)
Continue(c) ==
  pc' = [pc EXCEPT ![c] = IF pc[c] = "reading" THEN "check" ELSE "idle"]

Answer ==
  \E r \in {queue[i] : i \in DOMAIN queue} :
    /\ Serve(r)
    /\ IF r.awaited THEN Continue(r.caller) ELSE UNCHANGED pc
    /\ IF r.awaited /\ r.caller = "engine" /\ r.op = "read_all"
       THEN /\ context' =
                 [p \in Pins |-> IF p \in Inputs THEN {Reading(p)} ELSE context[p]]
            /\ flipped' = flipped \ Inputs
       ELSE UNCHANGED <<context, flipped>>
    /\ UNCHANGED <<triggers, active, memory, backs, unseen, strange>>

(* Variant of TimesOut: without an answer every pin is taken to be low.    *)
TimesOutLow(c) ==
  /\ GiveUp(c)
  /\ Continue(c)
  /\ context' = [p \in Pins |-> IF pc[c] = "reading" THEN {FALSE} ELSE context[p]]
  /\ UNCHANGED <<triggers, active, memory, backs, seenVars>>

(* Without an answer the context stays as it is.                           *)
TimesOut(c) ==
  /\ GiveUp(c)
  /\ Continue(c)
  /\ UNCHANGED <<triggers, active, context, memory, backs, seenVars>>

-----------------------------------------------------------------------------
(* Commands, or errors, enable and disable the script; ...                 *)
Switch ==
  /\ active' = ~active
  /\ UNCHANGED <<gpioVars, pc, triggers, context, memory, backs, seenVars>>

SameAt(i) ==
  Watches(triggers, i) /\ Watches(triggers', i) /\ triggers'[i].pin = triggers[i].pin

(* ... it is deployed again under its id, or deleted and deployed.  What   *)
(* was remembered in a place stays there for the trigger that comes next.  *)
Replace ==
  /\ triggers' \in TriggerLists
  /\ active' \in BOOLEAN
  /\ unseen' = {i \in unseen : SameAt(i)}
  /\ strange' = {i \in DOMAIN triggers' :
       /\ Watches(triggers', i) /\ memory[i].previous # {}
       /\ SameAt(i) => i \in strange}
  /\ UNCHANGED <<gpioVars, pc, context, memory, backs, flipped>>

Change(p) ==
  /\ Flip(p)
  /\ flipped' = flipped \cup {p}
  /\ unseen' = unseen \cup {i \in DOMAIN triggers :
       /\ Watches(triggers, i) /\ triggers[i].pin = p
       /\ memory[i].previous # {} /\ i \notin strange}
  /\ UNCHANGED <<pc, triggers, active, context, memory, backs, strange>>

Tick ==
  /\ memory' = [i \in Places |->
       [memory[i] EXCEPT !.age = IF @ < Horizon THEN @ + 1 ELSE @]]
  /\ UNCHANGED <<gpioVars, pc, triggers, active, context, backs, seenVars>>

(* The clock is set back; a trigger that fired long ago, or never, may not *)
(* notice.                                                                 *)
SetBack ==
  /\ backs < MaxBacks
  /\ backs' = backs + 1
  /\ \E old \in SUBSET {i \in Places : memory[i].age = Horizon} :
       memory' = [i \in Places |->
         [memory[i] EXCEPT !.age = IF i \in old THEN @ ELSE @ - 1]]
  /\ UNCHANGED <<gpioVars, pc, triggers, active, context, seenVars>>

Engine == Update \/ Check \/ Run

InputsNext ==
  \/ Engine \/ Command \/ Answer \/ \E c \in Callers : TimesOut(c)
  \/ Switch \/ Replace \/ \E p \in Pins : Change(p)
  \/ Tick \/ SetBack

(* The engine and the actor go on, and so does the clock.                  *)
InputsSpec ==
  /\ InputsInit /\ [][InputsNext]_inputVars
  /\ WF_inputVars(Engine) /\ WF_inputVars(Answer) /\ WF_inputVars(Tick)

-----------------------------------------------------------------------------
InputsOK ==
  /\ GpioOK
  /\ pc \in [Callers -> {"idle", "reading", "check", "run", "writing", "waiting"}]
  /\ triggers \in TriggerLists /\ active \in BOOLEAN
  /\ context \in [Pins -> SUBSET BOOLEAN]
  /\ memory \in [Places -> [age: -MaxBacks..Horizon, previous: SUBSET BOOLEAN,
                            held: BOOLEAN]]
  /\ backs \in 0..MaxBacks
  /\ flipped \subseteq Pins /\ unseen \subseteq Places /\ strange \subseteq Places

(* Whenever the engine checks the triggers, a gpio_change fires only for a *)
(* pin that has changed since the trigger last looked at it: its first     *)
(* look, a read that fails or comes late, another trigger that fires       *)
(* before it and the clock are no change.  What a trigger that took        *)
(* another's place does with the other's memory is not said here.          *)
NoPhantomChange ==
  pc["engine"] = "check" /\ active =>
    \A i \in DOMAIN triggers :
      triggers[i].kind = "gpio_change" /\ Fires(i, FALSE) => i \in unseen \cup strange

(* "Don't trigger on first read": a trigger does not fire before it has    *)
(* looked itself.  One that took another's place does (MCFirstRead.cfg).   *)
FirstReadIsQuiet ==
  pc["engine"] = "check" /\ active =>
    \A i \in strange : ~Fires(i, FALSE)

(* A read is answered in time now and then: the actor waits for nothing    *)
(* but its requests.                                                       *)
AnswersInTime ==
  []<><<pc["engine"] = "reading" /\ Len(queue') < Len(queue)
          /\ pc'["engine"] = "check">>_inputVars

(* A change of an input that lasts runs the active script that waits for   *)
(* it, through failed reads, debouncing, clocks set back and other         *)
(* triggers that fire first.                                               *)
LastingChangeRuns ==
  AnswersInTime => \A i \in WatchingPlaces, v \in BOOLEAN :
    LET lasts ==
          /\ active /\ Watches(triggers, i)
          /\ triggers[i].pin \in Inputs
          /\ Reading(triggers[i].pin) = v
    IN lasts /\ memory[i].previous = {~v} ~> ~lasts \/ pc["engine"] = "run"
=============================================================================
