--------------------------- MODULE TriggersProofs ---------------------------
(***************************************************************************)
(* Proofs about Triggers and Gpio for any pins, triggers and clocks:       *)
(* InputsInv is inductive; the types and the effect of late writes follow  *)
(* from it, and with WatchInv the absence of phantom changes.              *)
(***************************************************************************)
EXTENDS Triggers, SequenceTheorems, TLAPS

(* Whoever has a request in the channel that is awaited is waiting for it. *)
CallersWait ==
  \A i \in DOMAIN queue :
    queue[i].awaited => pc[queue[i].caller] \in {"reading", "writing", "waiting"}

WritesTo(p, i) == queue[i].op = "write" /\ queue[i].pin = p

(* The last write to a pin in the channel is the one that is wanted; the   *)
(* pin has it already when none is left.                                   *)
LastWriteIsWanted ==
  \A p \in Pins, v \in BOOLEAN :
    wanted[p] = {v} =>
      /\ \A i \in DOMAIN queue :
           WritesTo(p, i) /\ (\A j \in DOMAIN queue : WritesTo(p, j) => j <= i)
             => queue[i].value = v
      /\ Taken(p, "output") /\ (\A i \in DOMAIN queue : ~WritesTo(p, i))
             => level[p] = Driven(p, v)

InputsInv ==
  /\ InputsOK
  /\ queue \in Seq(Request)
  /\ \A i \in Places : memory[i].age >= -backs
  /\ CallersWait
  /\ LastWriteIsWanted

-----------------------------------------------------------------------------
\* send() puts a request behind the others.
LEMMA Pushed ==
  ASSUME queue \in Seq(Request), NEW r \in Request, Push(r)
  PROVE  /\ queue' \in Seq(Request) /\ Len(queue') = Len(queue) + 1
         /\ Len(queue') <= ChannelCap
         /\ \A i \in 1..Len(queue) : queue'[i] = queue[i]
         /\ queue'[Len(queue) + 1] = r
<1>1. queue' = Append(queue, r) /\ Len(queue) < ChannelCap
  BY DEF Push
<1>2. Len(queue) \in Nat /\ ChannelCap \in Nat
  BY LenProperties, GpioAssumption
<1>3. QED BY <1>1, <1>2, AppendProperties

\* The actor takes the first request; the others move up.
LEMMA Served ==
  ASSUME queue \in Seq(Request), NEW r, Serve(r)
  PROVE  /\ queue' \in Seq(Request) /\ Len(queue) = Len(queue') + 1
         /\ r = queue[1] /\ r \in Request
         /\ \A i \in 1..Len(queue') : queue'[i] = queue[i + 1]
<1>1. queue # <<>> /\ r = Head(queue) /\ queue' = Tail(queue)
  BY DEF Serve
<1>2. Len(queue) \in Nat
  BY LenProperties
<1>3. r = queue[1]
  BY <1>1
<1>4. QED BY <1>1, <1>2, <1>3, HeadTailProperties

\* A caller that gives up leaves its request where it is.
LEMMA GivenUp ==
  ASSUME queue \in Seq(Request), NEW c \in Callers, GiveUp(c)
  PROVE  /\ queue' \in Seq(Request) /\ Len(queue') = Len(queue)
         /\ \A i \in 1..Len(queue) : /\ queue'[i].op = queue[i].op
                                     /\ queue'[i].pin = queue[i].pin
                                     /\ queue'[i].value = queue[i].value
                                     /\ queue'[i].caller = queue[i].caller
                                     /\ queue'[i].awaited => queue[i].awaited
         /\ \E i \in 1..Len(queue) : /\ queue[i].caller = c /\ queue[i].awaited
                                     /\ ~queue'[i].awaited
<1>0. DOMAIN queue = 1..Len(queue)
  BY LenProperties
<1>1. PICK k \in 1..Len(queue) :
        /\ queue[k].caller = c /\ queue[k].awaited
        /\ queue' = [queue EXCEPT ![k].awaited = FALSE]
  BY <1>0 DEF GiveUp
<1>2. queue[k] \in Request
  BY ElementOfSeq
<1> DEFINE given == [queue[k] EXCEPT !.awaited = FALSE]
<1>3. given \in Request /\ ~given.awaited
  BY <1>2 DEF Request
<1>4. queue' = [queue EXCEPT ![k] = given]
  BY <1>1
<1>5. /\ queue' \in Seq(Request) /\ Len(queue') = Len(queue)
      /\ \A i \in 1..Len(queue) : queue'[i] = IF i = k THEN given ELSE queue[i]
  BY <1>3, <1>4, ExceptSeq
<1>6. /\ given.op = queue[k].op /\ given.pin = queue[k].pin
      /\ given.value = queue[k].value /\ given.caller = queue[k].caller
  BY <1>2 DEF Request
<1>7. QED BY <1>1, <1>3, <1>5, <1>6

-----------------------------------------------------------------------------
Reads(c) == SendRead(c) /\ pc[c] = "idle" /\ pc' = [pc EXCEPT ![c] = "reading"]

Writes(c) ==
  /\ \E n \in Numbers, v \in BOOLEAN : SendWrite(c, n, v)
  /\ pc[c] \in {"idle", "run"}
  /\ \E w \in {"writing", "waiting"} : pc' = [pc EXCEPT ![c] = w]

Serves ==
  \E r : Serve(r) /\ IF r.awaited THEN Continue(r.caller) ELSE UNCHANGED pc

GivesUp(c) == GiveUp(c) /\ Continue(c)

(* A step of the engine that sends nothing.                                *)
Moves ==
  /\ UNCHANGED gpioVars
  /\ pc["engine"] \in {"check", "run"}
  /\ \E w \in {"idle", "run"} : pc' = [pc EXCEPT !["engine"] = w]

Rests == UNCHANGED pc /\ (UNCHANGED gpioVars \/ \E p \in Pins : Flip(p))

\* What any step does to the channel, the pins and the places of the callers.
LEMMA ChannelStep ==
  [InputsNext]_inputVars =>
    \/ \E c \in Callers : Reads(c) \/ Writes(c) \/ GivesUp(c)
    \/ Serves \/ Moves \/ Rests
<1> SUFFICES ASSUME [InputsNext]_inputVars
             PROVE  \/ \E c \in Callers : Reads(c) \/ Writes(c) \/ GivesUp(c)
                    \/ Serves \/ Moves \/ Rests
  OBVIOUS
<1>0. "engine" \in Callers /\ "handler" \in Callers
  BY DEF Callers
<1>1. CASE Update
  BY <1>0, <1>1 DEF Update, Reads
<1>2. CASE Check
  <2>1. \E w \in {"idle", "run"} : pc' = [pc EXCEPT !["engine"] = w]
    BY <1>2 DEF Check
  <2>2. QED BY <1>2, <2>1 DEF Check, Moves
<1>3. CASE Run
  BY <1>0, <1>3 DEF Run, Writes, Moves
<1>4. CASE Command
  BY <1>0, <1>4 DEF Command, Writes
<1>5. CASE Answer
  BY <1>5 DEF Answer, Serves
<1>6. ASSUME NEW c \in Callers, TimesOut(c) PROVE GivesUp(c)
  BY <1>6 DEF TimesOut, GivesUp
<1>7. CASE Switch \/ Replace \/ Tick \/ SetBack \/ UNCHANGED inputVars
  BY <1>7 DEF Switch, Replace, Tick, SetBack, inputVars, engineVars, Rests
<1>8. ASSUME NEW p \in Pins, Change(p) PROVE Rests
  BY <1>8 DEF Change, Rests
<1>9. QED BY <1>1, <1>2, <1>3, <1>4, <1>5, <1>6, <1>7, <1>8 DEF InputsNext, Engine

-----------------------------------------------------------------------------
(* The part of InputsInv about the channel.                                *)
OneAwaited ==
  \A i, j \in DOMAIN queue :
    queue[i].awaited /\ queue[j].awaited /\ queue[i].caller = queue[j].caller => i = j

ChannelInv ==
  /\ queue \in Seq(Request) /\ Len(queue) <= ChannelCap
  /\ pc \in [Callers -> {"idle", "reading", "check", "run", "writing", "waiting"}]
  /\ OneAwaited /\ CallersWait

LEMMA ChannelFromInputs == InputsInv => ChannelInv
<1> SUFFICES ASSUME InputsInv PROVE ChannelInv
  OBVIOUS
<1>1. OneAwaited
  BY DEF InputsInv, InputsOK, GpioOK, OneAwaited
<1>2. QED BY <1>1 DEF InputsInv, InputsOK, GpioOK, ChannelInv

\* A request is a request; the number of its pin fits into eight bits.
LEMMA Requests ==
  ASSUME NEW c \in Callers, NEW op \in {"read_all", "write"}, NEW n \in 0..255,
         NEW v \in BOOLEAN
  PROVE  [caller |-> c, op |-> op, pin |-> n, value |-> v, awaited |-> TRUE] \in Request
BY DEF Request

LEMMA NarrowedFits == ASSUME NEW n \in Numbers PROVE Narrowed(n) \in 0..255
<1>1. n \in Nat
  BY GpioAssumption
<1>2. QED BY <1>1 DEF Narrowed

\* A caller has one request in the channel that it still waits for.
LEMMA ChannelKept == ChannelInv /\ [InputsNext]_inputVars => ChannelInv'
<1> SUFFICES ASSUME ChannelInv, [InputsNext]_inputVars PROVE ChannelInv'
  OBVIOUS
<1>0. /\ DOMAIN queue = 1..Len(queue) /\ Len(queue) \in Nat
      /\ \A i \in 1..Len(queue) : queue[i] \in Request /\ queue[i].caller \in Callers
      /\ ChannelCap \in Nat
      /\ "engine" \in Callers
  <2>1. \A i \in 1..Len(queue) : queue[i] \in Request
    BY ElementOfSeq DEF ChannelInv
  <2>2. DOMAIN queue = 1..Len(queue) /\ Len(queue) \in Nat
    BY LenProperties DEF ChannelInv
  <2>3. \A i \in 1..Len(queue) : queue[i].caller \in Callers
    BY <2>1 DEF Request
  <2>4. QED BY <2>1, <2>2, <2>3, GpioAssumption DEF Callers
<1>1. ASSUME NEW c \in Callers, NEW r \in Request, Push(r), r.caller = c,
             pc[c] \in {"idle", "run"},
             NEW w \in {"reading", "writing", "waiting"}, pc' = [pc EXCEPT ![c] = w]
      PROVE  ChannelInv'
  <2>1. /\ queue' \in Seq(Request) /\ Len(queue') = Len(queue) + 1
        /\ Len(queue') <= ChannelCap
        /\ \A i \in 1..Len(queue) : queue'[i] = queue[i]
        /\ queue'[Len(queue) + 1] = r
    BY <1>1, Pushed DEF ChannelInv
  <2>2. DOMAIN queue' = 1..(Len(queue) + 1)
    BY <2>1, LenProperties
  <2>3. \A i \in DOMAIN queue' : i \in DOMAIN queue \/ i = Len(queue) + 1
    BY <1>0, <2>2
  <2>4. \A i \in DOMAIN queue : ~queue[i].awaited \/ queue[i].caller # c
    BY <1>1 DEF ChannelInv, CallersWait
  <2>5. OneAwaited'
    BY <1>0, <1>1, <2>1, <2>3, <2>4 DEF ChannelInv, OneAwaited
  <2>6. pc' \in [Callers -> {"idle", "reading", "check", "run", "writing", "waiting"}]
    BY <1>1 DEF ChannelInv
  <2>7. CallersWait'
    <3>1. pc'[c] \in {"reading", "writing", "waiting"}
      BY <1>1 DEF ChannelInv
    <3>2. \A d \in Callers \ {c} : pc'[d] = pc[d]
      BY <1>1 DEF ChannelInv
    <3>3. QED BY <1>0, <1>1, <2>1, <2>3, <3>1, <3>2 DEF ChannelInv, CallersWait
  <2>8. QED BY <2>1, <2>5, <2>6, <2>7 DEF ChannelInv
<1>2. ASSUME NEW c \in Callers, Reads(c) PROVE ChannelInv'
  <2> DEFINE r == [caller |-> c, op |-> "read_all", pin |-> 0, value |-> FALSE,
                   awaited |-> TRUE]
  <2>1. r \in Request
    BY DEF Request
  <2>2. Push(r) /\ pc[c] = "idle" /\ pc' = [pc EXCEPT ![c] = "reading"]
    BY <1>2 DEF Reads, SendRead
  <2>3. QED BY <1>1, <2>1, <2>2
<1>3. ASSUME NEW c \in Callers, Writes(c) PROVE ChannelInv'
  <2>1. PICK n \in Numbers, v \in BOOLEAN : SendWrite(c, n, v)
    BY <1>3 DEF Writes
  <2> DEFINE r == [caller |-> c, op |-> "write", pin |-> Narrowed(n), value |-> v,
                   awaited |-> TRUE]
  <2>2. r \in Request
    BY Requests, NarrowedFits
  <2>3. QED BY <1>1, <1>3, <2>1, <2>2 DEF Writes, SendWrite
<1>4. CASE Serves
  <2>1. PICK r : Serve(r) /\ IF r.awaited THEN Continue(r.caller) ELSE UNCHANGED pc
    BY <1>4 DEF Serves
  <2>2. /\ queue' \in Seq(Request) /\ Len(queue) = Len(queue') + 1
        /\ r = queue[1] /\ r \in Request
        /\ \A i \in 1..Len(queue') : queue'[i] = queue[i + 1]
    BY <2>1, Served DEF ChannelInv
  <2>3. Len(queue') \in Nat /\ DOMAIN queue' = 1..Len(queue')
    BY <2>2, LenProperties
  <2>4. \A i \in DOMAIN queue' : i + 1 \in DOMAIN queue /\ i + 1 # 1
    BY <1>0, <2>2, <2>3
  <2>5. OneAwaited'
    <3> SUFFICES ASSUME NEW i \in DOMAIN queue', NEW j \in DOMAIN queue',
                        queue'[i].awaited, queue'[j].awaited,
                        queue'[i].caller = queue'[j].caller
                 PROVE  i = j
      BY DEF OneAwaited
    <3>1. i + 1 = j + 1
      BY <2>2, <2>3, <2>4 DEF ChannelInv, OneAwaited
    <3>2. QED BY <2>3, <3>1
  <2>6. CallersWait' /\ pc' \in [Callers -> {"idle", "reading", "check", "run", "writing", "waiting"}]
    <3>1. CASE ~r.awaited
      BY <2>1, <2>2, <2>3, <2>4, <3>1 DEF ChannelInv, CallersWait
    <3>2. CASE r.awaited
      <4>1. r.caller \in Callers
        BY <2>2 DEF Request
      <4>2. \A d \in Callers \ {r.caller} : pc'[d] = pc[d]
        BY <2>1, <3>2, <4>1 DEF ChannelInv, Continue
      <4>3. 1 \in DOMAIN queue
        BY <1>0, <2>2, <2>3
      <4>4. \A i \in DOMAIN queue' : queue'[i].awaited => queue'[i].caller # r.caller
        BY <2>2, <2>3, <2>4, <3>2, <4>3 DEF ChannelInv, OneAwaited
      <4>5. CallersWait'
        BY <1>0, <2>2, <2>3, <2>4, <4>2, <4>4 DEF ChannelInv, CallersWait
      <4>6. QED BY <2>1, <3>2, <4>5 DEF ChannelInv, Continue
    <3>3. QED BY <3>1, <3>2
  <2>7. QED BY <1>0, <2>2, <2>3, <2>5, <2>6 DEF ChannelInv
<1>5. ASSUME NEW c \in Callers, GivesUp(c) PROVE ChannelInv'
  <2>1. /\ queue' \in Seq(Request) /\ Len(queue') = Len(queue)
        /\ \A i \in 1..Len(queue) : /\ queue'[i].caller = queue[i].caller
                                    /\ queue'[i].awaited => queue[i].awaited
        /\ \E i \in 1..Len(queue) : /\ queue[i].caller = c /\ queue[i].awaited
                                    /\ ~queue'[i].awaited
    BY <1>5, GivenUp DEF GivesUp, ChannelInv
  <2>2. DOMAIN queue' = DOMAIN queue
    BY <1>0, <2>1, LenProperties
  <2>3. OneAwaited'
    BY <1>0, <2>1, <2>2 DEF ChannelInv, OneAwaited
  <2>4. \A d \in Callers \ {c} : pc'[d] = pc[d]
    BY <1>5 DEF GivesUp, Continue, ChannelInv
  <2>5. \A i \in DOMAIN queue' : queue'[i].awaited => queue'[i].caller # c
    BY <1>0, <2>1, <2>2 DEF ChannelInv, OneAwaited
  <2>6. CallersWait'
    BY <1>0, <2>1, <2>2, <2>4, <2>5 DEF ChannelInv, CallersWait
  <2>7. pc' \in [Callers -> {"idle", "reading", "check", "run", "writing", "waiting"}]
    BY <1>5 DEF GivesUp, Continue, ChannelInv
  <2>8. QED BY <2>1, <2>3, <2>6, <2>7 DEF ChannelInv
<1>6. CASE Moves
  <2>1. UNCHANGED queue
    BY <1>6 DEF Moves, gpioVars
  <2>2. \A d \in Callers : pc[d] \in {"reading", "writing", "waiting"} => pc'[d] = pc[d]
    BY <1>6 DEF Moves, ChannelInv
  <2>3. pc' \in [Callers -> {"idle", "reading", "check", "run", "writing", "waiting"}]
    BY <1>6 DEF Moves, ChannelInv
  <2>4. CallersWait'
    BY <1>0, <2>1, <2>2 DEF ChannelInv, CallersWait
  <2>5. QED BY <2>1, <2>3, <2>4 DEF ChannelInv, OneAwaited
<1>7. CASE Rests
  <2>1. UNCHANGED <<queue, pc>>
    BY <1>7 DEF Rests, gpioVars, Flip
  <2>2. QED BY <2>1 DEF ChannelInv, OneAwaited, CallersWait
<1>8. QED BY ChannelStep, <1>2, <1>3, <1>4, <1>5, <1>6, <1>7

-----------------------------------------------------------------------------
\* Whatever is sent, served, given up or flipped, the last write to a pin is the
\* one that is wanted.
LEMMA WantedKept == InputsInv /\ [InputsNext]_inputVars => LastWriteIsWanted'
<1> SUFFICES ASSUME InputsInv, [InputsNext]_inputVars,
                    NEW p \in Pins, NEW v \in BOOLEAN, wanted'[p] = {v}
             PROVE  /\ \A i \in DOMAIN queue' :
                         WritesTo(p, i)' /\ (\A j \in DOMAIN queue' : WritesTo(p, j)' => j <= i)
                           => queue'[i].value = v
                    /\ Taken(p, "output")' /\ (\A i \in DOMAIN queue' : ~WritesTo(p, i)')
                         => level'[p] = Driven(p, v)'
  BY DEF LastWriteIsWanted
<1> DEFINE Goal ==
      /\ \A i \in DOMAIN queue' :
           WritesTo(p, i)' /\ (\A j \in DOMAIN queue' : WritesTo(p, j)' => j <= i)
             => queue'[i].value = v
      /\ Taken(p, "output")' /\ (\A i \in DOMAIN queue' : ~WritesTo(p, i)')
           => level'[p] = Driven(p, v)'
<1> USE DEF WritesTo
<1>0. /\ queue \in Seq(Request) /\ DOMAIN queue = 1..Len(queue) /\ Len(queue) \in Nat
      /\ wanted \in [Pins -> SUBSET BOOLEAN] /\ level \in [Pins -> BOOLEAN]
  BY LenProperties DEF InputsInv, InputsOK, GpioOK
<1>1. wanted[p] = {v} =>
        /\ \A i \in DOMAIN queue :
             WritesTo(p, i) /\ (\A j \in DOMAIN queue : WritesTo(p, j) => j <= i)
               => queue[i].value = v
        /\ Taken(p, "output") /\ (\A i \in DOMAIN queue : ~WritesTo(p, i))
             => level[p] = Driven(p, v)
  BY DEF InputsInv, LastWriteIsWanted
<1>2. ASSUME NEW c \in Callers, Reads(c) PROVE Goal
  <2> DEFINE r == [caller |-> c, op |-> "read_all", pin |-> 0, value |-> FALSE,
                   awaited |-> TRUE]
  <2>1. Push(r) /\ UNCHANGED <<config, taken, level, wanted>>
    BY <1>2 DEF Reads, SendRead
  <2>2. r \in Request /\ r.op = "read_all"
    BY DEF Request
  <2>3. /\ Len(queue') = Len(queue) + 1 /\ DOMAIN queue' = 1..Len(queue')
        /\ \A i \in 1..Len(queue) : queue'[i] = queue[i]
        /\ queue'[Len(queue) + 1] = r
    BY <1>0, <2>1, <2>2, Pushed, LenProperties
  <2>4. \A i \in DOMAIN queue' : i \in DOMAIN queue \/ queue'[i] = r
    BY <1>0, <2>3
  <2>5. DOMAIN queue \subseteq DOMAIN queue'
    BY <1>0, <2>3
  <2> HIDE DEF r
  <2>6. QED BY <1>0, <1>1, <2>1, <2>2, <2>3, <2>4, <2>5 DEF Taken, Driven
<1>3. ASSUME NEW c \in Callers, Writes(c) PROVE Goal
  <2>1. PICK n \in Numbers, u \in BOOLEAN : SendWrite(c, n, u)
    BY <1>3 DEF Writes
  <2> DEFINE r == [caller |-> c, op |-> "write", pin |-> Narrowed(n), value |-> u,
                   awaited |-> TRUE]
  <2>2. Push(r) /\ UNCHANGED <<config, taken, level>>
    BY <2>1 DEF SendWrite
  <2>3. r \in Request /\ r.op = "write" /\ r.pin = Narrowed(n) /\ r.value = u
    BY Requests, NarrowedFits
  <2>4. /\ Len(queue') = Len(queue) + 1 /\ DOMAIN queue' = 1..Len(queue')
        /\ \A i \in 1..Len(queue) : queue'[i] = queue[i]
        /\ queue'[Len(queue) + 1] = r
    BY <1>0, <2>2, <2>3, Pushed, LenProperties
  <2>5. \A i \in DOMAIN queue' : i \in DOMAIN queue \/ queue'[i] = r
    BY <1>0, <2>4
  <2>6. DOMAIN queue \subseteq DOMAIN queue' /\ Len(queue) + 1 \in DOMAIN queue'
        /\ \A i \in DOMAIN queue : ~(Len(queue) + 1 <= i)
    BY <1>0, <2>4
  <2>7. wanted'[p] = IF p = Narrowed(n) THEN {u} ELSE wanted[p]
    BY <2>1 DEF SendWrite
  <2> HIDE DEF r
  <2>8. CASE p = Narrowed(n)
    <3>1. u = v
      BY <2>7, <2>8
    <3>2. QED BY <1>0, <2>3, <2>4, <2>5, <2>6, <2>8, <3>1
  <2>9. CASE p # Narrowed(n)
    BY <1>0, <1>1, <2>2, <2>3, <2>4, <2>5, <2>6, <2>7, <2>9 DEF Taken, Driven
  <2>10. QED BY <2>8, <2>9
<1>4. CASE Serves
  <2>1. PICK r : Serve(r)
    BY <1>4 DEF Serves
  <2>2. /\ queue' \in Seq(Request) /\ Len(queue) = Len(queue') + 1
        /\ r = queue[1]
        /\ \A i \in 1..Len(queue') : queue'[i] = queue[i + 1]
    BY <1>0, <2>1, Served
  <2>3. Len(queue') \in Nat /\ DOMAIN queue' = 1..Len(queue')
    BY <2>2, LenProperties
  <2>4. UNCHANGED <<config, taken, wanted>>
    BY <2>1 DEF Serve
  <2>5. \A i \in DOMAIN queue' : i + 1 \in DOMAIN queue /\ queue'[i] = queue[i + 1]
    BY <1>0, <2>2, <2>3
  <2>6. \A j \in DOMAIN queue : j # 1 => j - 1 \in DOMAIN queue' /\ queue'[j - 1] = queue[j]
    <3> SUFFICES ASSUME NEW j \in DOMAIN queue, j # 1
                 PROVE  j - 1 \in DOMAIN queue' /\ queue'[j - 1] = queue[j]
      OBVIOUS
    <3>1. j - 1 \in 1..Len(queue') /\ (j - 1) + 1 = j
      BY <1>0, <2>2, <2>3
    <3>2. QED BY <2>2, <2>3, <3>1
  <2>7. 1 \in DOMAIN queue
    BY <1>0, <2>2, <2>3
  <2>8. ASSUME NEW i \in DOMAIN queue', WritesTo(p, i)',
               \A j \in DOMAIN queue' : WritesTo(p, j)' => j <= i
        PROVE  queue'[i].value = v
    <3>1. \A j \in DOMAIN queue : WritesTo(p, j) => j <= i + 1
      BY <1>0, <2>3, <2>6, <2>8
    <3>2. QED BY <1>1, <2>4, <2>5, <2>8, <3>1
  <2>9. ASSUME Taken(p, "output")', \A i \in DOMAIN queue' : ~WritesTo(p, i)'
        PROVE  level'[p] = Driven(p, v)'
    <3>1. \A j \in DOMAIN queue : WritesTo(p, j) => j = 1
      BY <2>6, <2>9
    <3>2. Taken(p, "output") /\ Driven(p, v)' = Driven(p, v)
      BY <2>4, <2>9 DEF Taken, Driven
    <3>3. CASE WritesTo(p, 1)
      <4>1. r.value = v
        BY <1>0, <1>1, <2>2, <2>4, <2>7, <3>1, <3>3
      <4>2. QED BY <2>1, <2>2, <3>2, <3>3, <4>1 DEF Serve, Write
    <3>4. CASE ~WritesTo(p, 1)
      <4>1. level[p] = Driven(p, v)
        BY <1>1, <2>4, <3>1, <3>2, <3>4
      <4>2. level'[p] = level[p]
        BY <2>1, <2>2, <3>4 DEF Serve, Write
      <4>3. QED BY <3>2, <4>1, <4>2
    <3>5. QED BY <3>3, <3>4
  <2>10. QED BY <2>8, <2>9
<1>5. ASSUME NEW c \in Callers, GivesUp(c) PROVE Goal
  <2>1. GiveUp(c) /\ UNCHANGED <<config, taken, level, wanted>>
    BY <1>5 DEF GivesUp, GiveUp
  <2>2. /\ queue' \in Seq(Request) /\ Len(queue') = Len(queue)
        /\ \A i \in 1..Len(queue) : /\ queue'[i].op = queue[i].op
                                    /\ queue'[i].pin = queue[i].pin
                                    /\ queue'[i].value = queue[i].value
    BY <1>0, <2>1, GivenUp
  <2>3. DOMAIN queue' = DOMAIN queue
    BY <1>0, <2>2, LenProperties
  <2>4. QED BY <1>0, <1>1, <2>1, <2>2, <2>3 DEF Taken, Driven
<1>6. CASE Moves \/ UNCHANGED gpioVars
  <2>1. UNCHANGED <<config, taken, level, queue, wanted>>
    BY <1>6 DEF Moves, gpioVars
  <2>2. QED BY <1>1, <2>1 DEF Taken, Driven
<1>7. ASSUME NEW q \in Pins, Flip(q) PROVE Goal
  <2>1. UNCHANGED <<config, taken, queue, wanted>>
    BY <1>7 DEF Flip
  <2>2. Taken(p, "output") => level'[p] = level[p]
    BY <1>0, <1>7 DEF Flip, Taken
  <2>3. QED BY <1>1, <2>1, <2>2 DEF Taken, Driven
<1>8. QED BY ChannelStep, <1>2, <1>3, <1>4, <1>5, <1>6, <1>7 DEF Rests

-----------------------------------------------------------------------------
GpioTypes ==
  /\ config \in Configs /\ taken \subseteq Pins
  /\ level \in [Pins -> BOOLEAN] /\ wanted \in [Pins -> SUBSET BOOLEAN]

Remembered == [age: -MaxBacks..Horizon, previous: SUBSET BOOLEAN, held: BOOLEAN]

EngineTypes ==
  /\ triggers \in TriggerLists /\ active \in BOOLEAN
  /\ context \in [Pins -> SUBSET BOOLEAN]
  /\ memory \in [Places -> Remembered]
  /\ backs \in 0..MaxBacks
  /\ flipped \subseteq Pins /\ unseen \subseteq Places /\ strange \subseteq Places
  /\ \A i \in Places : memory[i].age >= -backs

\* InputsInv by its parts.
LEMMA Parts ==
  InputsInv <=> GpioTypes /\ EngineTypes /\ ChannelInv /\ LastWriteIsWanted
<1>1. ASSUME InputsInv PROVE GpioTypes /\ EngineTypes /\ ChannelInv /\ LastWriteIsWanted
  BY <1>1, ChannelFromInputs DEF InputsInv, InputsOK, GpioOK, GpioTypes, EngineTypes, Remembered
<1>2. ASSUME GpioTypes, EngineTypes, ChannelInv, LastWriteIsWanted PROVE InputsInv
  <2>1. \A i \in DOMAIN queue : queue[i] \in Request
    BY <1>2, LenProperties, ElementOfSeq DEF ChannelInv
  <2>2. GpioOK
    BY <1>2, <2>1 DEF GpioOK, GpioTypes, ChannelInv, OneAwaited
  <2>3. QED BY <1>2, <2>2 DEF InputsInv, InputsOK, EngineTypes, Remembered, ChannelInv
<1>3. QED BY <1>1, <1>2

\* The pins and what is wanted of them keep their types.
LEMMA GpioKept == InputsInv /\ [InputsNext]_inputVars => GpioTypes'
<1> SUFFICES ASSUME InputsInv, [InputsNext]_inputVars PROVE GpioTypes'
  OBVIOUS
<1> USE DEF GpioTypes
<1>0. GpioTypes /\ queue \in Seq(Request)
  BY Parts DEF InputsInv
<1>1. ASSUME NEW c \in Callers, Reads(c) PROVE GpioTypes'
  BY <1>0, <1>1 DEF Reads, SendRead
<1>2. ASSUME NEW c \in Callers, Writes(c) PROVE GpioTypes'
  BY <1>0, <1>2 DEF Writes, SendWrite
<1>3. CASE Serves
  <2>1. PICK r : Serve(r)
    BY <1>3 DEF Serves
  <2>2. level' \in [Pins -> BOOLEAN]
    BY <1>0, <2>1 DEF Serve, Write, Driven
  <2>3. QED BY <1>0, <2>1, <2>2 DEF Serve
<1>4. ASSUME NEW c \in Callers, GivesUp(c) PROVE GpioTypes'
  BY <1>0, <1>4 DEF GivesUp, GiveUp
<1>5. CASE Moves \/ UNCHANGED gpioVars
  BY <1>0, <1>5 DEF Moves, gpioVars
<1>6. ASSUME NEW p \in Pins, Flip(p) PROVE GpioTypes'
  BY <1>0, <1>6 DEF Flip
<1>7. QED BY ChannelStep, <1>1, <1>2, <1>3, <1>4, <1>5, <1>6 DEF Rests

\* A trigger's place is a place, and its source a pin.
LEMMA TriggerTypes ==
  ASSUME NEW t \in TriggerLists
  PROVE  /\ DOMAIN t \subseteq Places
         /\ \A i \in DOMAIN t : t[i].pin \in Pins
<1>1. t \in Seq(Trigger)
  BY TriggersAssumption
<1>2. \A i \in DOMAIN t : t[i] \in Trigger
  BY <1>1, LenProperties, ElementOfSeq
<1>3. QED BY <1>2 DEF Trigger, Places

\* What the engine knows and remembers keeps its types; an age is behind by no
\* more than the clock was set back.
LEMMA EngineKept == InputsInv /\ [InputsNext]_inputVars => EngineTypes'
<1> SUFFICES ASSUME InputsInv, [InputsNext]_inputVars PROVE EngineTypes'
  OBVIOUS
<1> USE DEF EngineTypes
<1>0. EngineTypes /\ GpioTypes
  BY Parts
<1>1. DOMAIN triggers \subseteq Places /\ \A i \in DOMAIN triggers : triggers[i].pin \in Pins
  BY <1>0, TriggerTypes
<1>2. MaxBacks \in Nat /\ Horizon \in Nat
  BY TriggersAssumption
<1>3. CASE Check
  <2>1. PICK due \in BOOLEAN :
          LET firing == {i \in DOMAIN triggers : Fires(i, due)}
              checked == {i \in DOMAIN triggers : active /\ \A j \in firing : j >= i}
              looked == {i \in checked : Watches(triggers, i) /\ Looks(i) /\ Compares(i)}
          IN /\ memory' = [i \in Places |->
                  IF i \in checked THEN Looked(i, i \in firing) ELSE memory[i]]
             /\ unseen' = (unseen \ looked) \cup {i \in looked : triggers[i].pin \in flipped}
             /\ strange' = strange \ looked
    BY <1>3 DEF Check
  <2> DEFINE firing == {i \in DOMAIN triggers : Fires(i, due)}
             checked == {i \in DOMAIN triggers : active /\ \A j \in firing : j >= i}
  <2>2. \A i \in checked :
          /\ Looked(i, i \in firing) \in Remembered
          /\ Looked(i, i \in firing).age = IF i \in firing THEN 0 ELSE memory[i].age
    <3> SUFFICES ASSUME NEW i \in DOMAIN triggers
                 PROVE  /\ Looked(i, i \in firing) \in Remembered
                        /\ Looked(i, i \in firing).age = IF i \in firing THEN 0 ELSE memory[i].age
      OBVIOUS
    <3> HIDE DEF firing
    <3>1. memory[i] \in Remembered /\ Known(i) \in SUBSET BOOLEAN
      BY <1>0, <1>1 DEF Known
    <3>2. /\ memory[i].age \in -MaxBacks..Horizon /\ memory[i].previous \in SUBSET BOOLEAN
          /\ memory[i].held \in BOOLEAN
      BY <3>1 DEF Remembered
    <3>3. 0 \in -MaxBacks..Horizon
      BY <1>2
    <3>4. QED BY <3>1, <3>2, <3>3 DEF Looked, Remembered
  <2>3. checked \subseteq Places
    BY <1>1
  <2> HIDE DEF checked, firing
  <2>4. memory' = [i \in Places |-> IF i \in checked THEN Looked(i, i \in firing) ELSE memory[i]]
    BY <2>1 DEF checked, firing
  <2>5. memory' \in [Places -> Remembered]
    BY <1>0, <2>2, <2>3, <2>4
  <2>6. \A i \in Places : memory'[i].age >= -backs
    <3> SUFFICES ASSUME NEW i \in Places PROVE memory'[i].age >= -backs
      OBVIOUS
    <3>1. memory'[i].age \in {0, memory[i].age}
      BY <2>2, <2>4
    <3>2. memory[i].age >= -backs /\ backs \in Nat
      BY <1>0, <1>2
    <3>3. QED BY <3>1, <3>2
  <2>7. unseen' \subseteq Places /\ strange' \subseteq Places
    BY <1>0, <1>1, <2>1
  <2>8. QED BY <1>0, <1>3, <2>5, <2>6, <2>7 DEF Check
<1>4. CASE Answer
  <2>1. UNCHANGED <<triggers, active, memory, backs, unseen, strange>>
    BY <1>4 DEF Answer
  <2>2. context' \in [Pins -> SUBSET BOOLEAN] /\ flipped' \subseteq Pins
    <3>1. \A p \in Pins : {Reading(p)} \in SUBSET BOOLEAN
      BY DEF Reading
    <3>2. QED BY <1>0, <1>4, <3>1 DEF Answer
  <2>3. QED BY <1>0, <2>1, <2>2
<1>5. CASE Update \/ Run \/ Command \/ (\E c \in Callers : TimesOut(c)) \/ UNCHANGED inputVars
  <2>1. UNCHANGED <<triggers, active, context, memory, backs, seenVars>>
    BY <1>5 DEF Update, Run, Command, TimesOut, inputVars, engineVars
  <2>2. QED BY <1>0, <2>1 DEF seenVars
<1>6. CASE Switch \/ Replace
  <2>1. triggers' \in TriggerLists
    BY <1>0, <1>6 DEF Switch, Replace
  <2>2. DOMAIN triggers' \subseteq Places
    BY <2>1 DEF Places
  <2>3. unseen' \subseteq unseen /\ strange' \subseteq Places
    BY <1>0, <1>6, <2>2 DEF Switch, Replace, seenVars
  <2>4. QED BY <1>0, <1>6, <2>1, <2>3 DEF Switch, Replace, seenVars
<1>7. ASSUME NEW p \in Pins, Change(p) PROVE EngineTypes'
  BY <1>0, <1>1, <1>7 DEF Change
<1>8. CASE Tick
  <2>1. \A i \in Places : memory'[i] = [memory[i] EXCEPT !.age = IF @ < Horizon THEN @ + 1 ELSE @]
    BY <1>8 DEF Tick
  <2>2. ASSUME NEW i \in Places
        PROVE  memory'[i] \in Remembered /\ memory'[i].age >= -backs
    <3>1. memory[i] \in Remembered /\ memory[i].age >= -backs /\ backs \in Nat
      BY <1>0, <1>2
    <3>2. memory[i].age \in -MaxBacks..Horizon
      BY <3>1 DEF Remembered
    <3>3. (IF memory[i].age < Horizon THEN memory[i].age + 1 ELSE memory[i].age)
             \in -MaxBacks..Horizon
      BY <1>2, <3>2
    <3>4. memory'[i].age
            = IF memory[i].age < Horizon THEN memory[i].age + 1 ELSE memory[i].age
      BY <2>1, <3>1 DEF Remembered
    <3>5. memory'[i] \in Remembered
      BY <2>1, <3>1, <3>3 DEF Remembered
    <3>6. QED BY <1>2, <3>1, <3>2, <3>4, <3>5
  <2>3. memory' \in [Places -> Remembered]
    BY <1>8, <2>2 DEF Tick
  <2>4. QED BY <1>0, <1>8, <2>2, <2>3 DEF Tick, seenVars
<1>9. CASE SetBack
  <2>1. PICK old \in SUBSET {i \in Places : memory[i].age = Horizon} :
          memory' = [i \in Places |-> [memory[i] EXCEPT !.age = IF i \in old THEN @ ELSE @ - 1]]
    BY <1>9 DEF SetBack
  <2>2. backs < MaxBacks /\ backs' = backs + 1
    BY <1>9 DEF SetBack
  <2>3. ASSUME NEW i \in Places
        PROVE  memory'[i] \in Remembered /\ memory'[i].age >= -backs'
    <3>1. memory[i] \in Remembered /\ memory[i].age >= -backs /\ backs \in Nat
      BY <1>0, <1>2
    <3>2. memory[i].age \in -MaxBacks..Horizon
      BY <3>1 DEF Remembered
    <3>3. (IF i \in old THEN memory[i].age ELSE memory[i].age - 1) \in -MaxBacks..Horizon
      BY <1>2, <2>2, <3>1, <3>2
    <3>4. memory'[i].age = IF i \in old THEN memory[i].age ELSE memory[i].age - 1
      BY <2>1, <3>1 DEF Remembered
    <3>5. memory'[i] \in Remembered
      BY <2>1, <3>1, <3>3 DEF Remembered
    <3>6. QED BY <1>2, <2>2, <3>1, <3>2, <3>4, <3>5
  <2>4. memory' \in [Places -> Remembered]
    BY <2>1, <2>3
  <2>5. QED BY <1>0, <1>2, <1>9, <2>2, <2>3, <2>4 DEF SetBack, seenVars
<1>10. QED BY <1>3, <1>4, <1>5, <1>6, <1>7, <1>8, <1>9 DEF InputsNext, Engine

\* Nothing has been read or asked for yet.
LEMMA InputsStart == InputsInit => InputsInv
<1> SUFFICES ASSUME InputsInit PROVE InputsInv
  OBVIOUS
<1>1. GpioTypes
  <2>1. PICK n \in 0..Len(Order) :
          taken = {p \in {Order[i] : i \in 1..n} : config[p].direction \in {"input", "output"}}
    BY DEF InputsInit, GpioInit
  <2>2. \A i \in 1..n : Order[i] \in Pins
    BY <2>1, GpioAssumption, ElementOfSeq, LenProperties
  <2>3. taken \subseteq Pins
    BY <2>1, <2>2
  <2>4. QED BY <2>3 DEF InputsInit, GpioInit, GpioTypes
<1>2. EngineTypes
  BY TriggersAssumption DEF InputsInit, EngineTypes, Remembered, Fresh
<1>3. queue = <<>> /\ <<>> \in Seq(Request) /\ Len(<<>>) = 0 /\ DOMAIN <<>> = {}
  BY DEF InputsInit, GpioInit
<1>4. ChannelInv
  BY <1>3, GpioAssumption DEF InputsInit, ChannelInv, OneAwaited, CallersWait, Callers
<1>5. LastWriteIsWanted
  BY DEF InputsInit, GpioInit, LastWriteIsWanted
<1>6. QED BY <1>1, <1>2, <1>4, <1>5, Parts

\* InputsInv holds in every reachable state.
THEOREM InputsInvariant == InputsSpec => []InputsInv
<1>1. InputsInv /\ [InputsNext]_inputVars => InputsInv'
  <2>1. InputsInv /\ [InputsNext]_inputVars
          => GpioTypes' /\ EngineTypes' /\ ChannelInv' /\ LastWriteIsWanted'
    BY Parts, GpioKept, EngineKept, ChannelKept, WantedKept
  <2>2. (GpioTypes /\ EngineTypes /\ ChannelInv /\ LastWriteIsWanted => InputsInv)'
    BY Parts, PTL
  <2>3. QED BY <2>1, <2>2
<1>2. QED BY InputsStart, <1>1, PTL DEF InputsSpec

\* Requests, the engine and its triggers keep their types.
THEOREM TypeCorrect == InputsSpec => []InputsOK
<1>1. InputsInv => InputsOK
  BY DEF InputsInv
<1>2. QED BY <1>1, InputsInvariant, PTL

\* A write that was given up, and is served late, never undoes a later one.
THEOREM LateWritesLose == InputsSpec => []LastSentWins
<1>1. InputsInv => LastSentWins
  BY DEF InputsInv, LastWriteIsWanted, LastSentWins, WritesTo
<1>2. QED BY <1>1, InputsInvariant, PTL

-----------------------------------------------------------------------------
(* Only inputs are known, as they were read unless they changed since.     *)
ContextIsRead ==
  \A p \in Pins : context[p] # {} =>
    p \in Inputs /\ (p \notin flipped => context[p] = {Reading(p)})

(* What a trigger itself has seen of its pin is what the pin is, unless it *)
(* has changed since the trigger looked.                                   *)
MemoryIsSeen ==
  \A i \in DOMAIN triggers :
    Watches(triggers, i) /\ memory[i].previous # {} /\ i \notin unseen \cup strange =>
      /\ triggers[i].pin \in Inputs \ flipped
      /\ memory[i].previous = {Reading(triggers[i].pin)}

WatchInv == ContextIsRead /\ MemoryIsSeen

\* Only the world changes an input, one at a time.
LEMMA InputsChange ==
  ASSUME InputsInv, [InputsNext]_inputVars
  PROVE  /\ Inputs' = Inputs
         /\ \A p \in Inputs : ~Change(p) => Reading(p)' = Reading(p)
<1>0. GpioTypes /\ queue \in Seq(Request)
  BY Parts DEF InputsInv
<1>1. ASSUME UNCHANGED <<config, taken>>, \A p \in Inputs : level'[p] = level[p]
      PROVE  Inputs' = Inputs /\ \A p \in Inputs : Reading(p)' = Reading(p)
  BY <1>1 DEF Inputs, Taken, Reading
<1>2. CASE \E q \in Pins : Change(q)
  <2>1. PICK q \in Pins : Change(q)
    BY <1>2
  <2>2. UNCHANGED <<config, taken>> /\ \A p \in Pins \ {q} : level'[p] = level[p]
    BY <1>0, <2>1 DEF Change, Flip, GpioTypes
  <2>3. Inputs' = Inputs /\ \A p \in Pins \ {q} : Reading(p)' = Reading(p)
    BY <2>2 DEF Inputs, Taken, Reading
  <2>4. ASSUME NEW p \in Inputs, ~Change(p)
        PROVE  p \in Pins \ {q}
    BY <2>1, <2>4 DEF Inputs
  <2>5. QED BY <2>3, <2>4
<1>3. ASSUME Serves
      PROVE  Inputs' = Inputs /\ \A p \in Inputs : Reading(p)' = Reading(p)
  <2>1. PICK r : Serve(r)
    BY <1>3 DEF Serves
  <2>2. UNCHANGED <<config, taken>>
    BY <2>1 DEF Serve
  <2>3. \A p \in Inputs : level'[p] = level[p]
    <3>1. CASE r.op = "write"
      <4>1. \A p \in Pins : ~Taken(p, "output") => level'[p] = level[p]
        BY <2>1, <3>1 DEF Serve, Write
      <4>2. QED BY <4>1 DEF Inputs, Taken
    <3>2. CASE r.op # "write"
      BY <2>1, <3>2 DEF Serve
    <3>3. QED BY <3>1, <3>2
  <2>4. QED BY <1>1, <2>2, <2>3
<1>4. ASSUME UNCHANGED <<config, taken, level>>
      PROVE  Inputs' = Inputs /\ \A p \in Inputs : Reading(p)' = Reading(p)
  BY <1>1, <1>4
<1>5. ASSUME Update \/ Run \/ Command \/ Check \/ \E c \in Callers : TimesOut(c)
      PROVE  UNCHANGED <<config, taken, level>>
  BY <1>5 DEF Update, Run, Command, Check, TimesOut, SendRead, SendWrite, GiveUp, gpioVars
<1>6. ASSUME Switch \/ Replace \/ Tick \/ SetBack \/ UNCHANGED inputVars
      PROVE  UNCHANGED <<config, taken, level>>
  BY <1>6 DEF Switch, Replace, Tick, SetBack, inputVars, gpioVars
<1>7. Answer => Serves
  BY DEF Answer, Serves
<1>8. QED BY <1>2, <1>3, <1>4, <1>5, <1>6, <1>7 DEF InputsNext, Engine

\* The context holds what was read.
LEMMA ContextKept == InputsInv /\ ContextIsRead /\ [InputsNext]_inputVars => ContextIsRead'
<1> SUFFICES ASSUME InputsInv, ContextIsRead, [InputsNext]_inputVars,
                    NEW p \in Pins, context'[p] # {}
             PROVE  p \in Inputs' /\ (p \notin flipped' => context'[p] = {Reading(p)'})
  BY DEF ContextIsRead
<1>0. context \in [Pins -> SUBSET BOOLEAN]
  BY Parts DEF EngineTypes
<1>1. Inputs' = Inputs
  BY InputsChange
<1>2. context[p] # {} => p \in Inputs /\ (p \notin flipped => context[p] = {Reading(p)})
  BY DEF ContextIsRead
<1>3. ASSUME UNCHANGED <<context, flipped>>, ~\E q \in Pins : Change(q)
      PROVE  p \in Inputs' /\ (p \notin flipped' => context'[p] = {Reading(p)'})
  BY <1>1, <1>2, <1>3, InputsChange DEF Inputs
<1>4. ASSUME NEW q \in Pins, Change(q)
      PROVE  p \in Inputs' /\ (p \notin flipped' => context'[p] = {Reading(p)'})
  <2>1. context' = context /\ flipped' = flipped \cup {q}
    BY <1>4 DEF Change
  <2>2. p # q => Reading(p)' = Reading(p)
    <3>1. UNCHANGED config /\ level' = [level EXCEPT ![q] = ~level[q]]
      BY <1>4 DEF Change, Flip
    <3>2. level \in [Pins -> BOOLEAN]
      BY Parts DEF GpioTypes
    <3>3. QED BY <3>1, <3>2 DEF Reading
  <2>3. QED BY <1>1, <1>2, <2>1, <2>2
<1>5. CASE Answer /\ ~UNCHANGED <<context, flipped>>
  <2>1. PICK r \in {queue[i] : i \in DOMAIN queue} :
          /\ Serve(r) /\ r.op = "read_all"
          /\ context' = [q \in Pins |-> IF q \in Inputs THEN {Reading(q)} ELSE context[q]]
          /\ flipped' = flipped \ Inputs
    BY <1>5 DEF Answer
  <2>2. UNCHANGED <<config, level>>
    BY <2>1 DEF Serve
  <2>3. Reading(p)' = Reading(p)
    BY <2>2 DEF Reading
  <2>4. QED BY <1>1, <1>2, <2>1, <2>3
<1>6. CASE UNCHANGED <<context, flipped>>
  BY <1>3, <1>4, <1>6
<1>7. QED
  <2>1. CASE Update \/ Run \/ Command \/ Check \/ \E c \in Callers : TimesOut(c)
    BY <1>6, <2>1 DEF Update, Run, Command, Check, TimesOut, seenVars
  <2>2. CASE Switch \/ Replace \/ Tick \/ SetBack \/ UNCHANGED inputVars
    BY <1>6, <2>2 DEF Switch, Replace, Tick, SetBack, inputVars, engineVars, seenVars
  <2>3. QED BY <1>4, <1>5, <1>6, <2>1, <2>2 DEF InputsNext, Engine

\* What a trigger saw of its pin stays true until the pin changes; what another
\* trigger saw is told apart, in whichever list that one was.
LEMMA MemoryKept == InputsInv /\ WatchInv /\ [InputsNext]_inputVars => MemoryIsSeen'
<1> SUFFICES ASSUME InputsInv, WatchInv, [InputsNext]_inputVars,
                    NEW i \in DOMAIN triggers', Watches(triggers', i),
                    memory'[i].previous # {}, i \notin unseen' \cup strange'
             PROVE  /\ triggers'[i].pin \in Inputs' \ flipped'
                    /\ memory'[i].previous = {Reading(triggers[i].pin)'}
  BY DEF MemoryIsSeen, Watches
<1>q. PICK q : q = triggers'[i].pin
  OBVIOUS
<1> DEFINE Seen == q \in Inputs' \ flipped' /\ memory'[i].previous = {Reading(q)'}
<1>0. /\ triggers \in TriggerLists /\ triggers' \in TriggerLists
      /\ memory \in [Places -> Remembered] /\ i \in Places /\ q \in Pins
  <2>1. EngineTypes /\ EngineTypes'
    BY Parts, EngineKept
  <2>2. QED BY <1>q, <2>1, TriggerTypes DEF EngineTypes
<1>1. ASSUME triggers' = triggers, memory[i].previous # {}, i \notin unseen \cup strange
      PROVE  /\ i \in DOMAIN triggers /\ triggers[i].pin = q
             /\ q \in Inputs \ flipped /\ memory[i].previous = {Reading(q)}
  BY <1>1, <1>q DEF WatchInv, MemoryIsSeen
<1>2. Inputs' = Inputs /\ \A p \in Inputs : ~Change(p) => Reading(p)' = Reading(p)
  BY InputsChange
<1>3. ASSUME triggers' = triggers, flipped' \subseteq flipped, ~Change(q),
             i \notin unseen \cup strange, memory'[i].previous = memory[i].previous
      PROVE  Seen
  BY <1>1, <1>2, <1>3
<1>4. ASSUME NEW p \in Pins, Change(p) PROVE Seen
  <2>1. /\ flipped' = flipped \cup {p} /\ UNCHANGED <<memory, triggers, strange>>
        /\ unseen' = unseen \cup {j \in DOMAIN triggers :
             /\ Watches(triggers, j) /\ triggers[j].pin = p
             /\ memory[j].previous # {} /\ j \notin strange}
    BY <1>4 DEF Change
  <2>2. q # p
    BY <1>q, <2>1
  <2>3. config' = config /\ \A x \in Pins \ {p} : level'[x] = level[x]
    BY <1>4, Parts DEF Change, Flip, GpioTypes
  <2>4. Reading(q)' = Reading(q)
    BY <1>0, <2>2, <2>3 DEF Reading
  <2>5. QED BY <1>1, <1>2, <2>1, <2>2, <2>4
<1>5. ASSUME Check PROVE Seen
  <2>1. PICK due \in BOOLEAN :
          LET firing == {j \in DOMAIN triggers : Fires(j, due)}
              checked == {j \in DOMAIN triggers : active /\ \A k \in firing : k >= j}
              looked == {j \in checked : Watches(triggers, j) /\ Looks(j) /\ Compares(j)}
          IN  /\ memory' = [j \in Places |->
                   IF j \in checked THEN Looked(j, j \in firing) ELSE memory[j]]
              /\ unseen' = (unseen \ looked) \cup {j \in looked : triggers[j].pin \in flipped}
              /\ strange' = strange \ looked
    BY <1>5 DEF Check
  <2> DEFINE firing == {j \in DOMAIN triggers : Fires(j, due)}
             checked == {j \in DOMAIN triggers : active /\ \A k \in firing : k >= j}
             looked == {j \in checked : Watches(triggers, j) /\ Looks(j) /\ Compares(j)}
  <2>2. /\ memory'[i] = IF i \in checked THEN Looked(i, i \in firing) ELSE memory[i]
        /\ unseen' = (unseen \ looked) \cup {j \in looked : triggers[j].pin \in flipped}
        /\ strange' = strange \ looked
    BY <1>0, <2>1
  <2>3. i \in looked <=> i \in checked /\ Looks(i) /\ Compares(i)
    BY <1>5 DEF Check
  <2> HIDE DEF firing, checked, looked
  <2>4. UNCHANGED <<triggers, flipped, level, config, taken>> /\ Reading(q)' = Reading(q)
    BY <1>5 DEF Check, gpioVars, Reading
  <2>5. CASE i \in looked
    <3>1. memory'[i].previous = Known(i)
      BY <2>2, <2>3, <2>5 DEF Looked
    <3>2. Known(i) = context[q] /\ context[q] # {}
      BY <1>q, <2>3, <2>4, <2>5 DEF Known, Compares
    <3>3. q \in Inputs /\ (q \notin flipped => context[q] = {Reading(q)})
      BY <1>0, <3>2 DEF WatchInv, ContextIsRead
    <3>4. q \notin flipped
      BY <1>q, <2>2, <2>4, <2>5
    <3>5. QED BY <1>2, <2>4, <3>1, <3>2, <3>3, <3>4
  <2>6. CASE i \notin looked
    <3>1. memory'[i].previous = memory[i].previous
      BY <2>2, <2>3, <2>6 DEF Looked
    <3>2. i \notin unseen \cup strange
      BY <2>2, <2>6
    <3>3. QED BY <1>1, <1>2, <2>4, <3>1, <3>2
  <2>7. QED BY <2>5, <2>6
<1>6. ASSUME Replace PROVE Seen
  <2>1. UNCHANGED <<memory, flipped, level, config>>
    BY <1>6 DEF Replace, gpioVars
  <2>2. SameAt(i) /\ i \notin strange
    BY <1>6, <2>1 DEF Replace
  <2>3. i \notin unseen
    BY <1>6, <2>2 DEF Replace
  <2>4. i \in DOMAIN triggers /\ Watches(triggers, i) /\ triggers[i].pin = q
    BY <1>q, <2>2 DEF SameAt, Watches
  <2>5. q \in Inputs \ flipped /\ memory[i].previous = {Reading(q)}
    BY <2>1, <2>2, <2>3, <2>4 DEF WatchInv, MemoryIsSeen
  <2>6. Reading(q)' = Reading(q)
    BY <2>1 DEF Reading
  <2>7. QED BY <1>2, <2>1, <2>5, <2>6
<1>7. ASSUME Answer \/ Update \/ Run \/ Command \/ (\E c \in Callers : TimesOut(c)) \/ Switch \/ UNCHANGED inputVars
      PROVE  flipped' \subseteq flipped /\ UNCHANGED <<triggers, memory, unseen, strange>>
  BY <1>7 DEF Answer, Update, Run, Command, TimesOut, Switch, inputVars, engineVars, seenVars
<1>8. ASSUME Tick \/ SetBack
      PROVE  /\ UNCHANGED <<triggers, flipped, unseen, strange>>
             /\ memory'[i].previous = memory[i].previous
  <2>1. memory[i] \in Remembered
    BY <1>0
  <2>2. memory'[i].previous = memory[i].previous
    BY <1>0, <1>8, <2>1 DEF Tick, SetBack, Remembered
  <2>3. QED BY <1>8, <2>2 DEF Tick, SetBack, seenVars
<1>9. QED
  <2>1. Seen
    BY <1>0, <1>3, <1>4, <1>5, <1>6, <1>7, <1>8 DEF InputsNext, Engine
  <2>2. CASE triggers' = triggers
    BY <1>q, <2>1, <2>2
  <2>3. CASE Replace
    <3>1. triggers[i].pin = q
      <4>1. SameAt(i)
        BY <2>3 DEF Replace
      <4>2. QED BY <1>q, <4>1 DEF SameAt
    <3>2. QED BY <1>q, <2>1, <3>1
  <2>4. QED
    BY <1>4, <1>7, <1>8, <2>2, <2>3 DEF InputsNext, Engine, Check, Change

\* WatchInv holds in every reachable state, whatever lists of triggers a script is
\* deployed with one after the other.
THEOREM WatchInvariant == InputsSpec => []WatchInv
<1>1. InputsInit => WatchInv
  BY TriggersAssumption DEF InputsInit, WatchInv, ContextIsRead, MemoryIsSeen, Fresh, Places, Watches
<1>2. InputsInv /\ WatchInv /\ [InputsNext]_inputVars => WatchInv'
  BY ContextKept, MemoryKept DEF WatchInv
<1>3. QED BY <1>1, <1>2, InputsInvariant, PTL DEF InputsSpec

\* A gpio_change that remembers what it has seen itself never fires for a pin that
\* has not changed since.
THEOREM NoPhantom == InputsSpec => []NoPhantomChange
<1>1. ASSUME InputsInv, WatchInv PROVE NoPhantomChange
  <2> SUFFICES ASSUME NEW i \in DOMAIN triggers, triggers[i].kind = "gpio_change",
                      Fires(i, FALSE), i \notin unseen \cup strange
               PROVE  FALSE
    BY DEF NoPhantomChange
  <2>1. memory[i].previous # {} /\ Known(i) # {} /\ memory[i].previous # Known(i)
    BY DEF Fires
  <2>2. /\ triggers[i].pin \in Inputs \ flipped
        /\ memory[i].previous = {Reading(triggers[i].pin)}
    BY <1>1, <2>1 DEF WatchInv, MemoryIsSeen, Watches
  <2>3. Known(i) = {Reading(triggers[i].pin)}
    BY <1>1, <2>1, <2>2 DEF WatchInv, ContextIsRead, Known, Inputs
  <2>4. QED BY <2>1, <2>2, <2>3
<1>2. QED BY <1>1, InputsInvariant, WatchInvariant, PTL
=============================================================================
