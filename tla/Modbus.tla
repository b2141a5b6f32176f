------------------------------- MODULE Modbus -------------------------------
(* The Modbus actor (src/src/modbus.rs): tasks send it requests through a  *)
(* channel and wait for the answer; it does one at a time.  Each device    *)
(* has a connection, a circuit breaker and a rate limiter of its own,      *)
(* which only the actor uses, so a call of theirs is one step here.        *)
(*                                                                         *)
(* A read of all devices is concurrent: the actor is one task, but devices *)
(* take their turns at every await.  Register values are left out.         *)
EXTENDS Naturals, Sequences, SequencesExt, FiniteSets

CONSTANTS
  Callers,          \* tasks with a handle
  Engine,           \* the script engine, which reads again and again
  Asks,             \* what each caller asks
  Devices,          \* names of configured devices, in configuration order
  Registers,        \* number of registers of each device
  Burst,            \* rate_limit_burst of each device
  Rate,             \* rate_limit_ops_per_sec
  Limited,          \* devices whose security settings are enabled
  ReadOnly,         \* of these, the devices with allow_writes = false
  Threshold,        \* CIRCUIT_BREAKER_THRESHOLD
  SuccessThreshold, \* success_threshold
  Recovery,         \* CIRCUIT_BREAKER_RECOVERY, in clock ticks
  DeadlineAfter,    \* register timeouts that fit into the time of one device
  None              \* no caller, no device

Device == ToSet(Devices)

Kind == {"connect", "disconnect", "read", "read_parallel"}

Request == [kind: Kind, device: {None}] \cup [kind: {"write"}, device: Device]

NoRequest == [kind |-> "none", device |-> None]

Reading == [kind |-> "read_parallel", device |-> None]

ASSUME ModbusAssumption ==
  /\ Asks \in [Callers -> SUBSET Request] /\ Reading \in Asks[Engine]
  /\ Engine \in Callers /\ None \notin Callers
  /\ IsInjective(Devices) /\ None \notin Device
  /\ Registers \in [Device -> Nat]
  /\ Burst \in [Device -> Nat \ {0}] /\ Rate \in Nat \ {0}
  /\ ReadOnly \subseteq Limited /\ Limited \subseteq Device
  /\ Threshold \in Nat \ {0} /\ SuccessThreshold \in Nat \ {0}
  /\ Recovery \in Nat \ {0} /\ DeadlineAfter \in Nat \ {0}

VARIABLES
  request,    \* what each caller has asked and waits for
  queue,      \* callers whose request is in the channel
  serving,    \* the caller whose read the actor does
  channel,    \* whether there is a connection to the device
  breaker,    \* its circuit breaker
  tokens,     \* its rate limiter
  read,       \* where the current read has got to for each device
  issued,     \* history: requests sent to the device in this second
  fruitless   \* history: reads of the device in a row without a value

vars == <<request, queue, serving, channel, breaker, tokens, read, issued, fruitless>>

-----------------------------------------------------------------------------
(* The circuit breaker, used by one task; age is the time since the last   *)
(* failure that opened it.                                                 *)
Breaker ==
  [state: {"closed", "open", "half_open"}, failures: 0..Threshold,
   successes: 0..SuccessThreshold, permits: {0, 1}, age: 0..Recovery]

ResetBreaker ==
  [state |-> "closed", failures |-> 0, successes |-> 0, permits |-> 0, age |-> 0]

Admits(b) ==
  \/ b.state = "closed"
  \/ b.state = "open" /\ b.age = Recovery
  \/ b.state = "half_open" /\ b.permits = 0

Admitted(b) ==
  CASE b.state = "closed"    -> b
    [] b.state = "open"      ->
         [b EXCEPT !.state = "half_open", !.successes = 0, !.permits = 1]
    [] b.state = "half_open" -> [b EXCEPT !.permits = 1]

(* Variant of Succeeded: the permit is not given back.                     *)
SucceededKeepingPermit(b) ==
  CASE b.state = "closed"    -> [b EXCEPT !.failures = 0]
    [] b.state = "open"      -> b
    [] b.state = "half_open" ->
         IF b.successes + 1 >= SuccessThreshold
         THEN [b EXCEPT !.state = "closed", !.successes = @ + 1, !.failures = 0, !.permits = 0]
         ELSE [b EXCEPT !.successes = @ + 1]

Succeeded(b) ==
  CASE b.state = "closed"    -> [b EXCEPT !.failures = 0]
    [] b.state = "open"      -> b
    [] b.state = "half_open" ->
         IF b.successes + 1 >= SuccessThreshold
         THEN [b EXCEPT !.state = "closed", !.successes = @ + 1, !.failures = 0, !.permits = 0]
         ELSE [b EXCEPT !.successes = @ + 1, !.permits = 0]

Opened(b) == [b EXCEPT !.state = "open", !.age = 0]

Failed(b) ==
  CASE b.state = "closed"    ->
         LET counted == [b EXCEPT !.failures = @ + 1] IN
         IF counted.failures >= Threshold THEN Opened(counted) ELSE counted
    [] b.state = "open"      -> b
    [] b.state = "half_open" -> Opened([b EXCEPT !.permits = 0])

-----------------------------------------------------------------------------
(* The rate limiter: a request to a limited device takes a token.          *)
HasToken(d) == d \in Limited => tokens[d] > 0

Taken(d) == IF d \in Limited THEN [tokens EXCEPT ![d] = @ - 1] ELSE tokens

(* Only requests to limited devices are counted.                           *)
Issued(d) == IF d \in Limited THEN [issued EXCEPT ![d] = @ + 1] ELSE issued

(* The read of a device: the register it is at, whether one was read, and  *)
(* how many register timeouts have passed.                                 *)
Stage == {"turn", "asking", "waiting", "done"}

Rested == [stage |-> "done", register |-> 0, got |-> FALSE, spent |-> 0]

Init ==
  /\ request = [c \in Callers |-> NoRequest]
  /\ queue = <<>> /\ serving = None
  /\ channel = [d \in Device |-> FALSE]
  /\ breaker = [d \in Device |-> ResetBreaker]
  /\ tokens = Burst
  /\ read = [d \in Device |-> Rested]
  /\ issued = [d \in Device |-> 0]
  /\ fruitless = [d \in Device |-> 0]

(* A caller sends its request and waits.  The channel has more places than *)
(* there are callers.                                                      *)
Send(c, r) ==
  /\ request[c] = NoRequest
  /\ request' = [request EXCEPT ![c] = r]
  /\ queue' = Append(queue, c)
  /\ UNCHANGED <<serving, channel, breaker, tokens, read, issued, fruitless>>

Received(c) == serving = None /\ queue # <<>> /\ c = Head(queue)

Answered(c) == request' = [request EXCEPT ![c] = NoRequest]

(* Connecting awaits nothing, so its timeout cannot pass.  When it fails   *)
(* an older connection is kept.                                            *)
ConnectAll(c) ==
  /\ Received(c) /\ request[c].kind = "connect"
  /\ \E refused \in SUBSET Device :
       /\ channel' = [d \in Device |-> channel[d] \/ d \notin refused]
       /\ breaker' = [d \in Device |->
            IF d \in refused THEN Failed(ResetBreaker) ELSE Succeeded(ResetBreaker)]
       /\ fruitless' = [d \in Device |-> IF d \in refused THEN 1 ELSE 0]
  /\ queue' = Tail(queue) /\ Answered(c)
  /\ UNCHANGED <<serving, tokens, read, issued>>

DisconnectAll(c) ==
  /\ Received(c) /\ request[c].kind = "disconnect"
  /\ channel' = [d \in Device |-> FALSE]
  /\ queue' = Tail(queue) /\ Answered(c)
  /\ UNCHANGED <<serving, breaker, tokens, read, issued, fruitless>>

(* Variant of Write: the rate limiter is not asked.                        *)
WriteUnlimited(c) ==
  /\ Received(c) /\ request[c].kind = "write"
  /\ LET d == request[c].device IN
     /\ UNCHANGED tokens
     /\ issued' = IF channel[d] /\ d \notin ReadOnly
                  THEN Issued(d) ELSE issued
  /\ queue' = Tail(queue) /\ Answered(c)
  /\ UNCHANGED <<serving, channel, breaker, read, fruitless>>

(* A write asks the rate limiter and not the circuit breaker; whether the  *)
(* device accepts it changes nothing here.                                 *)
Write(c) ==
  /\ Received(c) /\ request[c].kind = "write"
  /\ LET d == request[c].device
         allowed == d \notin ReadOnly /\ HasToken(d) IN
     /\ tokens' = IF allowed THEN Taken(d) ELSE tokens
     /\ issued' = IF allowed /\ channel[d]
                  THEN Issued(d) ELSE issued
  /\ queue' = Tail(queue) /\ Answered(c)
  /\ UNCHANGED <<serving, channel, breaker, read, fruitless>>

StartRead(c) ==
  /\ Received(c) /\ request[c].kind \in {"read", "read_parallel"}
  /\ serving' = c
  /\ read' = [d \in Device |-> [Rested EXCEPT !.stage = "turn"]]
  /\ queue' = Tail(queue)
  /\ UNCHANGED <<request, channel, breaker, tokens, issued, fruitless>>

Done(d) == read[d].stage = "done"

(* One after the other, or all at once.                                    *)
HasTurn(d) ==
  /\ read[d].stage = "turn"
  /\ request[serving].kind = "read" =>
       \A i, j \in DOMAIN Devices : i < j /\ Devices[j] = d => Done(Devices[i])

(* A device whose circuit is open, without a connection or without         *)
(* registers is done at once; in the last two cases the breaker has        *)
(* admitted the read and is told nothing more of it.                       *)
Begin(d) ==
  /\ serving # None /\ HasTurn(d)
  /\ LET admitted == Admits(breaker[d]) IN
     /\ breaker' = [breaker EXCEPT ![d] = IF admitted THEN Admitted(@) ELSE @]
     /\ read' = [read EXCEPT ![d].stage =
          IF admitted /\ channel[d] /\ Registers[d] > 0 THEN "asking" ELSE "done"]
  /\ UNCHANGED <<request, queue, serving, channel, tokens, issued, fruitless>>

(* The read of the device is over; the caller gets its values or none.     *)
Finish(d, r, got) ==
  /\ read' = [read EXCEPT ![d] = [r EXCEPT !.stage = "done", !.got = got]]
  /\ breaker' = [breaker EXCEPT ![d] = IF got THEN Succeeded(@) ELSE Failed(@)]
  /\ fruitless' = [fruitless EXCEPT ![d] =
       IF got THEN 0 ELSE IF @ < Threshold THEN @ + 1 ELSE @]

(* A register is over, with a value or not, after a number of timeouts.    *)
Advance(d, success, timeouts) ==
  LET r == [read[d] EXCEPT !.stage = "asking", !.register = @ + 1,
                           !.got = @ \/ success, !.spent = @ + timeouts] IN
  IF r.register = Registers[d]
  THEN Finish(d, r, r.got)
  ELSE /\ read' = [read EXCEPT ![d] = r]
       /\ UNCHANGED <<breaker, fruitless>>

(* The next register: a request without a token fails.                     *)
Ask(d) ==
  /\ read[d].stage = "asking"
  /\ IF HasToken(d)
     THEN /\ tokens' = Taken(d)
          /\ issued' = Issued(d)
          /\ read' = [read EXCEPT ![d].stage = "waiting"]
          /\ UNCHANGED <<breaker, fruitless>>
     ELSE /\ Advance(d, FALSE, 0)
          /\ UNCHANGED <<tokens, issued>>
  /\ UNCHANGED <<request, queue, serving, channel>>

(* The device answers at once.                                             *)
Respond(d) ==
  /\ read[d].stage = "waiting"
  /\ Advance(d, TRUE, 0)
  /\ UNCHANGED <<request, queue, serving, channel, tokens, issued>>

(* It refuses, or takes almost all its time to answer.                     *)
Struggle(d) ==
  /\ read[d].stage = "waiting"
  /\ \/ Advance(d, FALSE, 0)
     \/ read[d].spent < DeadlineAfter /\ Advance(d, TRUE, 1)
  /\ UNCHANGED <<request, queue, serving, channel, tokens, issued>>

(* Variant of RegisterExpires: the register is tried again.                *)
RegisterRetried(d) ==
  /\ read[d].stage = "waiting" /\ read[d].spent < DeadlineAfter
  /\ read' = [read EXCEPT ![d].stage = "asking"]
  /\ UNCHANGED <<request, queue, serving, channel, breaker, tokens, issued, fruitless>>

(* MODBUS_TIMEOUT: the next register is tried.                             *)
RegisterExpires(d) ==
  /\ read[d].stage = "waiting" /\ read[d].spent < DeadlineAfter
  /\ Advance(d, FALSE, 1)
  /\ UNCHANGED <<request, queue, serving, channel, tokens, issued>>

(* Variant of DeviceExpires: the breaker is not told.                      *)
DeviceExpiresSilently(d) ==
  /\ read[d].stage = "waiting" /\ read[d].spent + 1 >= DeadlineAfter
  /\ read' = [read EXCEPT ![d].stage = "done", ![d].got = FALSE]
  /\ fruitless' = [fruitless EXCEPT ![d] = IF @ < Threshold THEN @ + 1 ELSE @]
  /\ UNCHANGED <<request, queue, serving, channel, breaker, tokens, issued>>

(* The time of the device is over: the values it has given are dropped.    *)
DeviceExpires(d) ==
  /\ read[d].stage = "waiting" /\ read[d].spent + 1 >= DeadlineAfter
  /\ Finish(d, read[d], FALSE)
  /\ UNCHANGED <<request, queue, serving, channel, tokens, issued>>

Reply ==
  /\ serving # None /\ \A d \in Device : Done(d)
  /\ Answered(serving)
  /\ serving' = None
  /\ UNCHANGED <<queue, channel, breaker, tokens, read, issued, fruitless>>

(* A second passes.  The limiter refills when it is asked, which comes to  *)
(* the same.                                                               *)
Tick ==
  /\ breaker' = [d \in Device |->
       [breaker[d] EXCEPT !.age = IF @ < Recovery /\ breaker[d].state = "open"
                                  THEN @ + 1 ELSE @]]
  /\ tokens' = [d \in Device |->
       IF tokens[d] + Rate < Burst[d] THEN tokens[d] + Rate ELSE Burst[d]]
  /\ issued' = [d \in Device |-> 0]
  /\ UNCHANGED <<request, queue, serving, channel, read, fruitless>>

Serve == \E c \in Callers : ConnectAll(c) \/ DisconnectAll(c) \/ Write(c) \/ StartRead(c)

Wait(d) == Respond(d) \/ Struggle(d) \/ RegisterExpires(d) \/ DeviceExpires(d)

Next ==
  \/ \E c \in Callers : \E r \in Asks[c] : Send(c, r)
  \/ Serve \/ Reply \/ Tick
  \/ \E d \in Device : Begin(d) \/ Ask(d) \/ Wait(d)

Spec == Init /\ [][Next]_vars

(* The actor is always run again, timers run out, and every scan cycle of  *)
(* the engine begins with a read.                                          *)
FairSpec ==
  /\ Spec
  /\ WF_vars(Serve) /\ WF_vars(Reply) /\ WF_vars(Tick)
  /\ \A d \in Device : WF_vars(Begin(d)) /\ WF_vars(Ask(d)) /\ WF_vars(Wait(d))
  /\ SF_vars(Send(Engine, Reading))

-----------------------------------------------------------------------------
(* Reads and writes together send a device no more requests in a second    *)
(* than its burst.                                                         *)
BurstBounded == \A d \in Limited : issued[d] <= Burst[d]

(* Types, and the bound of the limiter.                                    *)
TypeOK ==
  /\ request \in [Callers -> Request \cup {NoRequest}]
  /\ queue \in Seq(Callers) /\ serving \in Callers \cup {None}
  /\ channel \in [Device -> BOOLEAN]
  /\ breaker \in [Device -> Breaker]
  /\ tokens \in [Device -> Nat] /\ issued \in [Device -> Nat]
  /\ \A d \in Device :
       /\ read[d] \in [stage: Stage, register: 0..Registers[d], got: BOOLEAN,
                       spent: 0..DeadlineAfter]
       /\ tokens[d] <= Burst[d]
  /\ fruitless \in [Device -> 0..Threshold]
  /\ BurstBounded

InProgress(d) == read[d].stage \in {"asking", "waiting"}

(* As long as there is a connection a half-open permit is out exactly      *)
(* while the device is read; the early returns of read_all and its         *)
(* timeouts never leave one behind that would refuse the device.           *)
PermitOutWhileReading ==
  \A d \in Device :
    channel[d] /\ breaker[d].state = "half_open" =>
      (breaker[d].permits = 1 <=> InProgress(d))

(* The breaker counts what the callers see: the failures of a closed       *)
(* circuit are the last reads in a row that gave no value, too few to open *)
(* it; a circuit opened only because of such a read.                       *)
BreakerAgreesWithAnswers ==
  \A d \in Device :
    /\ breaker[d].state = "closed" =>
         breaker[d].failures = fruitless[d] /\ fruitless[d] < Threshold
    /\ breaker[d].state = "open" => fruitless[d] > 0
    /\ breaker[d].state = "half_open" =>
         (breaker[d].successes = 0 <=> fruitless[d] > 0)

(* What the breaker of a device holds of it is so: both of the above.      *)
BreakerIsRight == PermitOutWhileReading /\ BreakerAgreesWithAnswers

(* Every request is answered, whatever the devices do.                     *)
Answers == \A c \in Callers : request[c] # NoRequest ~> request[c] = NoRequest

AnswersAtOnce(d) ==
  [][read[d].stage = "waiting" /\ read'[d] # read[d] => Respond(d)]_vars

(* The circuit of a device that stays connected and from some time on      *)
(* answers at once is closed in the end and stays so.  (Not so of a device *)
(* with a limit: a read without a token counts as a failure.)              *)
Heals ==
  \A d \in Device \ Limited :
    <>[]channel[d] /\ <>AnswersAtOnce(d) => <>[](breaker[d].state = "closed")
=============================================================================
