-------------------------------- MODULE Gpio --------------------------------
(* GPIO: the actor that owns the pins and the handles that send it         *)
(* requests (src/src/gpio.rs, built for hardware: feature "gpio").  A      *)
(* caller that has waited too long is told so, but its request stays in    *)
(* the channel and is served later.                                        *)
EXTENDS Integers, Sequences

CONSTANTS
  Pins,        \* the pins of the hardware
  Order,       \* the order in which they are configured, each once
  Configs,     \* what they are configured as
  Numbers,     \* pin numbers that write_gpio commands name
  ChannelCap   \* bound of the channel to the actor (64)

PinConfig ==
  [direction: {"input", "output", "in", "out"},   \* all that validate takes
   invert: BOOLEAN]

ASSUME GpioAssumption ==
  /\ Pins \subseteq 0..255
  /\ Order \in Seq(Pins)
  /\ Configs \subseteq [Pins -> PinConfig]
  /\ Numbers \subseteq Nat
  /\ ChannelCap \in Nat \ {0}

VARIABLES
  config,   \* the configuration the actor was started with
  taken,    \* the pins in input_pins and output_pins
  level,    \* the level of each pin
  queue,    \* requests in the channel, oldest first
  wanted    \* for each pin, what the last write sent to it asked for, if any

gpioVars == <<config, taken, level, queue, wanted>>

Callers == {"engine", "handler"}

Request ==
  [caller: Callers, op: {"read_all", "write"}, pin: 0..255, value: BOOLEAN,
   awaited: BOOLEAN]   \* the caller still waits for the answer

-----------------------------------------------------------------------------
(* init_gpio takes the configured pins until one of them cannot be had, and *)
(* keeps those; it passes over a direction other than these two.           *)
GpioInit ==
  /\ config \in Configs
  /\ \E n \in 0..Len(Order) :
       taken = {p \in {Order[i] : i \in 1..n} : config[p].direction \in {"input", "output"}}
  /\ level \in [Pins -> BOOLEAN]
  /\ queue = <<>>
  /\ wanted = [p \in Pins |-> {}]

Taken(p, direction) == p \in taken /\ config[p].direction = direction

(* What read_all_pins says of an input, ...                                *)
Reading(p) == level[p] # config[p].invert

Inputs == {p \in Pins : Taken(p, "input")}

(* ... and the level write_single_pin gives to an output.                  *)
Driven(p, v) == v # config[p].invert

(* A script names a pin that fits; a command's number is cut to eight bits. *)
Narrowed(n) == n % 256

-----------------------------------------------------------------------------
(* Variant of Push: the channel has no bound.                              *)
PushUnbounded(r) == queue' = Append(queue, r)

(* send().await waits for room, without a limit of time.                   *)
Push(r) ==
  /\ Len(queue) < ChannelCap
  /\ queue' = Append(queue, r)

SendRead(c) ==
  /\ Push([caller |-> c, op |-> "read_all", pin |-> 0, value |-> FALSE,
           awaited |-> TRUE])
  /\ UNCHANGED <<config, taken, level, wanted>>

SendWrite(c, n, v) ==
  /\ Push([caller |-> c, op |-> "write", pin |-> Narrowed(n), value |-> v,
           awaited |-> TRUE])
  /\ wanted' = [p \in Pins |-> IF p = Narrowed(n) THEN {v} ELSE wanted[p]]
  /\ UNCHANGED <<config, taken, level>>

(* Variant of Write: the actor passes over a request whose caller is gone. *)
WriteAwaited(r) ==
  level' = [p \in Pins |->
    IF r.awaited /\ p = r.pin /\ Taken(p, "output") THEN Driven(p, r.value)
    ELSE level[p]]

Write(r) ==
  level' = [p \in Pins |->
    IF p = r.pin /\ Taken(p, "output") THEN Driven(p, r.value) ELSE level[p]]

(* The actor serves the oldest request; an answer nobody waits for is      *)
(* dropped with its channel.                                               *)
Serve(r) ==
  /\ queue # <<>> /\ r = Head(queue)
  /\ queue' = Tail(queue)
  /\ IF r.op = "write" THEN Write(r) ELSE UNCHANGED level
  /\ UNCHANGED <<config, taken, wanted>>

(* The time of a request is over before its answer is there.               *)
GiveUp(c) ==
  \E i \in DOMAIN queue :
    /\ queue[i].caller = c /\ queue[i].awaited
    /\ queue' = [queue EXCEPT ![i].awaited = FALSE]
    /\ UNCHANGED <<config, taken, level, wanted>>

(* The world changes an input.                                             *)
Flip(p) ==
  /\ config[p].direction # "output"
  /\ level' = [level EXCEPT ![p] = ~level[p]]
  /\ UNCHANGED <<config, taken, queue, wanted>>

-----------------------------------------------------------------------------
(* Types; a caller waits for one answer at a time.                         *)
GpioOK ==
  /\ config \in Configs /\ taken \subseteq Pins
  /\ level \in [Pins -> BOOLEAN]
  /\ \A i \in DOMAIN queue :
       /\ queue[i] \in Request
       /\ \A j \in DOMAIN queue :
            queue[i].awaited /\ queue[j].awaited /\ queue[i].caller = queue[j].caller
              => i = j
  /\ Len(queue) <= ChannelCap
  /\ wanted \in [Pins -> SUBSET BOOLEAN]

(* When no write to it is left in the channel, an output has the level of  *)
(* the write sent last, also when its sender was told that it had failed:  *)
(* a late write never undoes a later one.                                  *)
LastSentWins ==
  \A p \in Pins, v \in BOOLEAN :
    /\ Taken(p, "output") /\ wanted[p] = {v}
    /\ \A i \in DOMAIN queue : queue[i].op = "write" => queue[i].pin # p
    => level[p] = Driven(p, v)
=============================================================================
