---------------------------- MODULE ModbusProofs ----------------------------
(* Proofs about Modbus, for any callers, devices, registers, limits and    *)
(* thresholds.                                                             *)
EXTENDS Modbus, SequenceTheorems, TLAPS

Busy(r) == r.stage \in {"asking", "waiting"}

ReadState ==
  [stage: Stage, register: Nat, got: BOOLEAN, spent: 0..DeadlineAfter]

(* The place of a read in the registers of its device.                     *)
ReadOK(r, registers) ==
  /\ r.register <= registers
  /\ Busy(r) => r.register < registers
  /\ r.stage = "turn" => r.register = 0

(* A device's breaker, whether it is being read, its reads in a row        *)
(* without a value, whether it is connected, its registers.  A device      *)
(* without registers is admitted and never reported; its circuit must not  *)
(* open, and does not when one failed connection is not enough to open it. *)
BreakerOK(b, busy, failed, connected, registers) ==
  /\ b.state = "closed" => b.failures = failed /\ failed < Threshold
  /\ b.state = "open" => failed > 0 /\ ~busy
  /\ b.state = "half_open" =>
       b.successes < SuccessThreshold /\ (b.successes = 0 <=> failed > 0)
  /\ registers > 0 \/ Threshold > 1 =>
       (connected /\ b.state = "half_open" => (b.permits = 1 <=> busy))
  /\ registers = 0 /\ Threshold > 1 => b.state = "closed"

Requests ==
  /\ request \in [Callers -> Request \cup {NoRequest}]
  /\ queue \in Seq(Callers) /\ serving \in Callers \cup {None}
  /\ channel \in [Device -> BOOLEAN]

Limits ==
  /\ tokens \in [Device -> Nat] /\ issued \in [Device -> Nat]
  /\ \A d \in Device : tokens[d] <= Burst[d]
  /\ \A d \in Limited : tokens[d] + issued[d] <= Burst[d]

Reads ==
  /\ breaker \in [Device -> Breaker]
  /\ fruitless \in [Device -> 0..Threshold]
  /\ read \in [Device -> ReadState]
  /\ serving = None => \A d \in Device : ~Busy(read[d])
  /\ \A d \in Device : ReadOK(read[d], Registers[d])

Breakers ==
  \A d \in Device :
    BreakerOK(breaker[d], Busy(read[d]), fruitless[d], channel[d], Registers[d])

ModbusInv == Requests /\ Limits /\ Reads /\ Breakers

-----------------------------------------------------------------------------
(* The circuit breaker's calls.                                            *)

\* A breaker, field by field.
Of(state, failures, successes, permits, age) ==
  [state |-> state, failures |-> failures, successes |-> successes,
   permits |-> permits, age |-> age]

LEMMA OfType ==
  \A state \in {"closed", "open", "half_open"}, failures \in 0..Threshold,
     successes \in 0..SuccessThreshold, permits \in {0, 1}, age \in 0..Recovery :
    Of(state, failures, successes, permits, age) \in Breaker
BY DEF Of, Breaker

LEMMA BreakerParts ==
  ASSUME NEW b \in Breaker
  PROVE  /\ b.state \in {"closed", "open", "half_open"} /\ b.failures \in 0..Threshold
         /\ b.successes \in 0..SuccessThreshold /\ b.permits \in {0, 1} /\ b.age \in 0..Recovery
         /\ b = Of(b.state, b.failures, b.successes, b.permits, b.age)
BY DEF Of, Breaker

LEMMA OfOpened ==
  ASSUME NEW state, NEW failures, NEW successes, NEW permits, NEW age
  PROVE  Opened(Of(state, failures, successes, permits, age))
           = Of("open", failures, successes, permits, 0)
<1> DEFINE b == Of(state, failures, successes, permits, age)
           r == [b EXCEPT !.state = "open"]
<1>1. r = Of("open", failures, successes, permits, age)
  BY DEF Of
<1>2. Opened(b) = [r EXCEPT !.age = 0]
  BY DEF Opened
<1> HIDE DEF r
<1> QED BY <1>1, <1>2 DEF Of

LEMMA OfAdmitted ==
  ASSUME NEW failures, NEW successes, NEW permits, NEW age
  PROVE  /\ Admitted(Of("closed", failures, successes, permits, age))
              = Of("closed", failures, successes, permits, age)
         /\ Admitted(Of("half_open", failures, successes, permits, age))
              = Of("half_open", failures, successes, 1, age)
         /\ Admitted(Of("open", failures, successes, permits, age))
              = Of("half_open", failures, 0, 1, age)
<1>1. /\ Admitted(Of("closed", failures, successes, permits, age))
           = Of("closed", failures, successes, permits, age)
      /\ Admitted(Of("half_open", failures, successes, permits, age))
           = Of("half_open", failures, successes, 1, age)
  BY DEF Admitted, Of
<1> DEFINE b == Of("open", failures, successes, permits, age)
           r == [b EXCEPT !.state = "half_open"]
           q == [r EXCEPT !.successes = 0]
<1>2. r = Of("half_open", failures, successes, permits, age)
  BY DEF Of
<1>3. Admitted(b) = [q EXCEPT !.permits = 1]
  BY DEF Admitted, Of
<1> HIDE DEF r
<1>4. q = Of("half_open", failures, 0, permits, age)
  BY <1>2 DEF Of
<1> HIDE DEF q
<1> QED BY <1>1, <1>3, <1>4 DEF Of

LEMMA OfSucceeded ==
  ASSUME NEW failures, NEW successes, NEW permits, NEW age
  PROVE  /\ Succeeded(Of("closed", failures, successes, permits, age))
              = Of("closed", 0, successes, permits, age)
         /\ Succeeded(Of("half_open", failures, successes, permits, age))
              = IF successes + 1 >= SuccessThreshold
                THEN Of("closed", 0, successes + 1, 0, age)
                ELSE Of("half_open", failures, successes + 1, 0, age)
<1>1. Succeeded(Of("closed", failures, successes, permits, age))
        = Of("closed", 0, successes, permits, age)
  BY DEF Succeeded, Of
<1> DEFINE b == Of("half_open", failures, successes, permits, age)
           r == [b EXCEPT !.state = "closed"]
           q == [r EXCEPT !.successes = successes + 1]
           o == [q EXCEPT !.failures = 0]
           w == [b EXCEPT !.successes = successes + 1]
<1>2. r = Of("closed", failures, successes, permits, age)
  BY DEF Of
<1>3. w = Of("half_open", failures, successes + 1, permits, age)
  BY DEF Of
<1>4. b.state = "half_open" /\ b.successes = successes
  BY DEF Of
<1>5. Succeeded(b) = IF successes + 1 >= SuccessThreshold
                     THEN [o EXCEPT !.permits = 0] ELSE [w EXCEPT !.permits = 0]
  <2> HIDE DEF b
  <2> QED BY <1>4 DEF Succeeded
<1> HIDE DEF r, w
<1>6. q = Of("closed", failures, successes + 1, permits, age)
  BY <1>2 DEF Of
<1> HIDE DEF q
<1>7. o = Of("closed", 0, successes + 1, permits, age)
  BY <1>6 DEF Of
<1> HIDE DEF o, b
<1>8. [o EXCEPT !.permits = 0] = Of("closed", 0, successes + 1, 0, age)
  BY <1>7 DEF Of
<1>9. [w EXCEPT !.permits = 0] = Of("half_open", failures, successes + 1, 0, age)
  BY <1>3 DEF Of
<1> QED BY <1>1, <1>5, <1>8, <1>9 DEF b

LEMMA OfFailed ==
  ASSUME NEW failures, NEW successes, NEW permits, NEW age
  PROVE  /\ Failed(Of("closed", failures, successes, permits, age))
              = IF failures + 1 >= Threshold
                THEN Of("open", failures + 1, successes, permits, 0)
                ELSE Of("closed", failures + 1, successes, permits, age)
         /\ Failed(Of("half_open", failures, successes, permits, age))
              = Of("open", failures, successes, 0, 0)
<1> DEFINE b == Of("closed", failures, successes, permits, age)
           c == [b EXCEPT !.failures = failures + 1]
           h == Of("half_open", failures, successes, permits, age)
           r == [h EXCEPT !.permits = 0]
<1>1. c = Of("closed", failures + 1, successes, permits, age) /\ c.failures = failures + 1
  BY DEF Of
<1>2. r = Of("half_open", failures, successes, 0, age)
  BY DEF Of
<1>3. b.state = "closed" /\ b.failures = failures /\ h.state = "half_open"
  BY DEF Of
<1> HIDE DEF b, h
<1>4. Failed(b) = IF c.failures >= Threshold THEN Opened(c) ELSE c
  BY <1>3 DEF Failed
<1>5. Failed(h) = Opened(r)
  BY <1>3 DEF Failed
<1>6. Opened(c) = Of("open", failures + 1, successes, permits, 0)
  BY <1>1, OfOpened
<1>7. Opened(r) = Of("open", failures, successes, 0, 0)
  BY <1>2, OfOpened
<1> HIDE DEF c, r
<1>8. Failed(b) = IF failures + 1 >= Threshold
                  THEN Of("open", failures + 1, successes, permits, 0)
                  ELSE Of("closed", failures + 1, successes, permits, age)
  BY <1>1, <1>4, <1>6
<1>9. Failed(h) = Of("open", failures, successes, 0, 0)
  BY <1>5, <1>7
<1> QED BY <1>8, <1>9 DEF b, h

LEMMA BreakerCalls ==
  ASSUME NEW b \in Breaker
  PROVE  /\ b.state = "closed" =>
              /\ Admitted(b) = b
              /\ Succeeded(b) = Of("closed", 0, b.successes, b.permits, b.age)
              /\ Failed(b) = IF b.failures + 1 >= Threshold
                             THEN Of("open", b.failures + 1, b.successes, b.permits, 0)
                             ELSE Of("closed", b.failures + 1, b.successes, b.permits, b.age)
         /\ b.state = "open" => Admitted(b) = Of("half_open", b.failures, 0, 1, b.age)
         /\ b.state = "half_open" =>
              /\ Admitted(b) = Of("half_open", b.failures, b.successes, 1, b.age)
              /\ Succeeded(b) = IF b.successes + 1 >= SuccessThreshold
                                THEN Of("closed", 0, b.successes + 1, 0, b.age)
                                ELSE Of("half_open", b.failures, b.successes + 1, 0, b.age)
              /\ Failed(b) = Of("open", b.failures, b.successes, 0, 0)
<1> DEFINE f == b.failures  u == b.successes  p == b.permits  a == b.age
<1>1. b = Of(b.state, f, u, p, a)
  BY BreakerParts
<1> HIDE DEF f, u, p, a
<1>2. CASE b.state = "closed"
  <2>1. b = Of("closed", f, u, p, a)
    BY <1>1, <1>2
  <2> QED BY <1>2, <2>1, OfAdmitted, OfSucceeded, OfFailed DEF f, u, p, a
<1>3. CASE b.state = "open"
  <2>1. b = Of("open", f, u, p, a)
    BY <1>1, <1>3
  <2> QED BY <1>3, <2>1, OfAdmitted DEF f, u, p, a
<1>4. CASE b.state = "half_open"
  <2>1. b = Of("half_open", f, u, p, a)
    BY <1>1, <1>4
  <2> QED BY <1>4, <2>1, OfAdmitted, OfSucceeded, OfFailed DEF f, u, p, a
<1> QED BY <1>2, <1>3, <1>4, BreakerParts

LEMMA BreakerReset ==
  ASSUME NEW connected \in BOOLEAN, NEW registers \in Nat
  PROVE  /\ ResetBreaker \in Breaker
         /\ Succeeded(ResetBreaker) \in Breaker /\ Failed(ResetBreaker) \in Breaker
         /\ BreakerOK(ResetBreaker, FALSE, 0, connected, registers)
         /\ BreakerOK(Succeeded(ResetBreaker), FALSE, 0, connected, registers)
         /\ BreakerOK(Failed(ResetBreaker), FALSE, 1, connected, registers)
<1>1. Succeeded(ResetBreaker) = ResetBreaker
  BY DEF Succeeded, ResetBreaker
<1>2. ResetBreaker \in Breaker
  BY ModbusAssumption DEF ResetBreaker, Breaker
<1>3. Failed(ResetBreaker) = IF 1 >= Threshold THEN Of("open", 1, 0, 0, 0)
                                              ELSE Of("closed", 1, 0, 0, 0)
  <2>1. ResetBreaker = Of("closed", 0, 0, 0, 0) /\ 0 + 1 = 1
    BY DEF ResetBreaker, Of
  <2> QED BY <2>1, OfFailed
<1>4. Failed(ResetBreaker) \in Breaker
  BY <1>3, ModbusAssumption DEF Breaker, Of
<1>5. BreakerOK(ResetBreaker, FALSE, 0, connected, registers)
  BY ModbusAssumption DEF BreakerOK, ResetBreaker
<1>6. BreakerOK(Failed(ResetBreaker), FALSE, 1, connected, registers)
  BY <1>3, ModbusAssumption DEF BreakerOK, Of
<1> QED BY <1>1, <1>2, <1>4, <1>5, <1>6

(* The read of a device is admitted, or is over at once.                   *)
LEMMA BreakerAdmits ==
  ASSUME NEW b \in Breaker, NEW failed \in 0..Threshold, NEW connected \in BOOLEAN,
         NEW registers \in Nat, NEW busy \in BOOLEAN, Admits(b),
         busy = (connected /\ registers > 0),
         BreakerOK(b, FALSE, failed, connected, registers)
  PROVE  /\ Admitted(b) \in Breaker
         /\ BreakerOK(Admitted(b), busy, failed, connected, registers)
<1>1. CASE b.state = "closed"
  <2>1. Admitted(b) = b
    BY <1>1, BreakerCalls
  <2> QED BY <1>1, <2>1 DEF BreakerOK
<1>2. CASE b.state = "open"
  <2>1. Admitted(b) = Of("half_open", b.failures, 0, 1, b.age)
    BY <1>2, BreakerCalls
  <2>2. /\ Admitted(b) \in Breaker
        /\ Admitted(b).state = "half_open" /\ Admitted(b).successes = 0 /\ Admitted(b).permits = 1
    BY <2>1, BreakerParts, OfType, ModbusAssumption DEF Of
  <2>3. failed > 0 /\ ~(registers = 0 /\ Threshold > 1)
    BY <1>2 DEF BreakerOK
  <2>4. registers > 0 \/ Threshold > 1 => registers > 0
    BY <2>3
  <2>5. registers > 0 \/ Threshold > 1 => (connected => busy)
    BY <2>4
  <2>6. registers = 0 /\ Threshold > 1 => FALSE
    BY <2>3
  <2>7. registers > 0 \/ Threshold > 1 =>
          (connected /\ Admitted(b).state = "half_open" => (Admitted(b).permits = 1 <=> busy))
    BY <2>2, <2>5
  <2> QED BY <2>2, <2>3, <2>6, <2>7, ModbusAssumption DEF BreakerOK
<1>3. CASE b.state = "half_open"
  <2>1. Admitted(b) = Of("half_open", b.failures, b.successes, 1, b.age)
    BY <1>3, BreakerCalls
  <2>2. /\ Admitted(b) \in Breaker
        /\ Admitted(b).state = "half_open" /\ Admitted(b).successes = b.successes
        /\ Admitted(b).permits = 1
    BY <2>1, BreakerParts, OfType DEF Of
  <2>3. ~(registers = 0 /\ Threshold > 1)
    BY <1>3 DEF BreakerOK
  <2>4. registers > 0 \/ Threshold > 1 => registers > 0
    BY <2>3
  <2>5. registers > 0 \/ Threshold > 1 => (connected => busy)
    BY <2>4
  <2>6. b.successes < SuccessThreshold /\ (b.successes = 0 <=> failed > 0)
    BY <1>3 DEF BreakerOK
  <2>7. registers > 0 \/ Threshold > 1 =>
          (connected /\ Admitted(b).state = "half_open" => (Admitted(b).permits = 1 <=> busy))
    BY <2>2, <2>5
  <2> QED BY <2>2, <2>3, <2>6, <2>7 DEF BreakerOK
<1> QED BY <1>1, <1>2, <1>3 DEF Breaker

Answerless(failed, got) ==
  IF got THEN 0 ELSE IF failed < Threshold THEN failed + 1 ELSE failed

(* The breaker is told of the end of a read.                               *)
LEMMA BreakerTold ==
  ASSUME NEW b \in Breaker, NEW failed \in 0..Threshold, NEW connected \in BOOLEAN,
         NEW registers \in Nat, registers > 0, NEW got \in BOOLEAN,
         BreakerOK(b, TRUE, failed, connected, registers)
  PROVE  /\ (IF got THEN Succeeded(b) ELSE Failed(b)) \in Breaker
         /\ Answerless(failed, got) \in 0..Threshold
         /\ BreakerOK(IF got THEN Succeeded(b) ELSE Failed(b), FALSE,
                      Answerless(failed, got), connected, registers)
<1>0. /\ b.state \in {"closed", "half_open"}
      /\ b.state = "closed" => b.failures = failed /\ failed < Threshold
      /\ b.state = "half_open" => b.successes < SuccessThreshold
  BY DEF BreakerOK, Breaker
<1>1. Answerless(failed, got) \in 0..Threshold /\ (~got => Answerless(failed, got) > 0)
      /\ (got => Answerless(failed, got) = 0)
  BY ModbusAssumption DEF Answerless
<1> DEFINE k == Answerless(failed, got)
<1> HIDE DEF k
<1>k. k \in 0..Threshold /\ (~got => k > 0) /\ (got => k = 0)
  BY <1>1 DEF k
<1>2. CASE got /\ b.state = "closed"
  <2>1. Succeeded(b) = Of("closed", 0, b.successes, b.permits, b.age)
    BY <1>2, BreakerCalls
  <2>2. Succeeded(b) \in Breaker /\ Succeeded(b).state = "closed" /\ Succeeded(b).failures = 0
    BY <1>2, <2>1, BreakerParts, OfType, ModbusAssumption DEF Of
  <2>3. BreakerOK(Succeeded(b), FALSE, k, connected, registers)
    BY <1>k, <1>2, <2>2, ModbusAssumption DEF BreakerOK
  <2> QED BY <1>1, <1>2, <2>2, <2>3 DEF k
<1>3. CASE got /\ b.state = "half_open" /\ b.successes + 1 >= SuccessThreshold
  <2>1. Succeeded(b) = Of("closed", 0, b.successes + 1, 0, b.age)
    BY <1>3, BreakerCalls
  <2>2. Succeeded(b) \in Breaker /\ Succeeded(b).state = "closed" /\ Succeeded(b).failures = 0
    BY <1>0, <1>3, <2>1, BreakerParts, OfType, ModbusAssumption DEF Of
  <2>3. BreakerOK(Succeeded(b), FALSE, k, connected, registers)
    BY <1>k, <1>3, <2>2, ModbusAssumption DEF BreakerOK
  <2> QED BY <1>1, <1>3, <2>2, <2>3 DEF k
<1>4. CASE got /\ b.state = "half_open" /\ ~(b.successes + 1 >= SuccessThreshold)
  <2>1. Succeeded(b) = Of("half_open", b.failures, b.successes + 1, 0, b.age)
    BY <1>4, BreakerCalls
  <2>2. /\ Succeeded(b) \in Breaker /\ Succeeded(b).state = "half_open"
        /\ Succeeded(b).successes = b.successes + 1 /\ Succeeded(b).permits = 0
        /\ b.successes \in Nat /\ b.successes + 1 < SuccessThreshold
    BY <1>0, <1>4, <2>1, BreakerParts, OfType, ModbusAssumption DEF Of
  <2>3. BreakerOK(Succeeded(b), FALSE, k, connected, registers)
    BY <1>k, <1>4, <2>2, ModbusAssumption DEF BreakerOK
  <2> QED BY <1>1, <1>4, <2>2, <2>3 DEF k
<1>5. CASE ~got /\ b.state = "closed"
  <2>1. Failed(b) = IF b.failures + 1 >= Threshold
                    THEN Of("open", b.failures + 1, b.successes, b.permits, 0)
                    ELSE Of("closed", b.failures + 1, b.successes, b.permits, b.age)
    BY <1>5, BreakerCalls
  <2>2. /\ Failed(b) \in Breaker /\ Failed(b).failures = b.failures + 1
        /\ Failed(b).state = IF b.failures + 1 >= Threshold THEN "open" ELSE "closed"
    BY <1>0, <1>5, <2>1, BreakerParts, OfType, ModbusAssumption DEF Of
  <2>3. Answerless(failed, got) = b.failures + 1
    BY <1>0, <1>5 DEF Answerless
  <2>4. k = b.failures + 1
    BY <2>3 DEF k
  <2>5. BreakerOK(Failed(b), FALSE, k, connected, registers)
    BY <1>0, <1>k, <1>5, <2>2, <2>4, ModbusAssumption DEF BreakerOK
  <2> QED BY <1>1, <1>5, <2>2, <2>5 DEF k
<1>6. CASE ~got /\ b.state = "half_open"
  <2>1. Failed(b) = Of("open", b.failures, b.successes, 0, 0)
    BY <1>6, BreakerCalls
  <2>2. Failed(b) \in Breaker /\ Failed(b).state = "open"
    BY <1>6, <2>1, BreakerParts, OfType, ModbusAssumption DEF Of
  <2>3. BreakerOK(Failed(b), FALSE, k, connected, registers)
    BY <1>k, <1>6, <2>2, ModbusAssumption DEF BreakerOK
  <2> QED BY <1>1, <1>6, <2>2, <2>3 DEF k
<1> QED BY <1>0, <1>2, <1>3, <1>4, <1>5, <1>6

-----------------------------------------------------------------------------
(* Requests, the limiter, the reads and the breakers, step by step.        *)

limitVars == <<tokens, issued>>

readVars == <<breaker, read, fruitless>>

\* A device's read goes on, or ends and the breaker is told.
Goes(d) ==
  \/ \E r \in ReadState :
       /\ ReadOK(r, Registers[d]) /\ Busy(r)
       /\ read' = [read EXCEPT ![d] = r]
       /\ UNCHANGED <<breaker, fruitless>>
  \/ \E r \in ReadState, got \in BOOLEAN :
       /\ ReadOK(r, Registers[d]) /\ ~Busy(r)
       /\ read' = [read EXCEPT ![d] = r]
       /\ breaker' = [breaker EXCEPT ![d] = IF got THEN Succeeded(@) ELSE Failed(@)]
       /\ fruitless' = [fruitless EXCEPT ![d] = Answerless(fruitless[d], got)]

LEMMA FinishGoes ==
  ASSUME Reads, NEW d \in Device, NEW r \in ReadState, r.register <= Registers[d],
         NEW got \in BOOLEAN, Finish(d, r, got)
  PROVE  Goes(d)
<1> DEFINE q == [r EXCEPT !.stage = "done", !.got = got]
<1>1. q \in ReadState /\ q.stage = "done" /\ q.register = r.register
  BY DEF ReadState, Stage
<1>2. ReadOK(q, Registers[d]) /\ ~Busy(q)
  BY <1>1 DEF ReadOK, Busy
<1> HIDE DEF q
<1>3. /\ read' = [read EXCEPT ![d] = q]
      /\ breaker' = [breaker EXCEPT ![d] = IF got THEN Succeeded(@) ELSE Failed(@)]
      /\ fruitless' = [fruitless EXCEPT ![d] = Answerless(fruitless[d], got)]
  BY DEF Finish, Answerless, Reads, q
<1> QED BY <1>1, <1>2, <1>3 DEF Goes

LEMMA AdvanceGoes ==
  ASSUME Reads, NEW d \in Device, NEW success \in BOOLEAN, NEW timeouts \in {0, 1},
         Busy(read[d]), read[d].spent + timeouts <= DeadlineAfter,
         Advance(d, success, timeouts)
  PROVE  Goes(d)
<1> DEFINE o == read[d]
           r == [o EXCEPT !.stage = "asking", !.register = @ + 1,
                          !.got = @ \/ success, !.spent = @ + timeouts]
<1>1. /\ o.register \in Nat /\ o.spent \in 0..DeadlineAfter
      /\ o.register < Registers[d] /\ Registers[d] \in Nat
  BY ModbusAssumption DEF Reads, ReadOK, ReadState
<1>2. o \in ReadState
  BY DEF Reads
<1>3. o.register + 1 \in Nat /\ o.spent + timeouts \in 0..DeadlineAfter
  BY <1>1, ModbusAssumption
<1>4. (o.got \/ success) \in BOOLEAN
  OBVIOUS
<1>5. r \in ReadState /\ r.stage = "asking" /\ r.register = o.register + 1
  <2> DEFINE a == o.register + 1  b == (o.got \/ success)  c == o.spent + timeouts
  <2>1. r = [o EXCEPT !.stage = "asking", !.register = a, !.got = b, !.spent = c]
    OBVIOUS
  <2>2. a \in Nat /\ b \in BOOLEAN /\ c \in 0..DeadlineAfter
    BY <1>3, <1>4
  <2> HIDE DEF a, b, c, o, r
  <2>3. r \in ReadState /\ r.stage = "asking" /\ r.register = a
    BY <1>2, <2>1, <2>2 DEF ReadState, Stage
  <2> QED BY <2>3 DEF a
<1>6. IF r.register = Registers[d]
      THEN Finish(d, r, r.got)
      ELSE read' = [read EXCEPT ![d] = r] /\ UNCHANGED <<breaker, fruitless>>
  BY DEF Advance
<1> HIDE DEF r
<1>7. CASE r.register = Registers[d]
  <2>1. r.got \in BOOLEAN /\ r.register <= Registers[d]
    BY <1>5, <1>1, <1>7 DEF ReadState
  <2> QED BY <1>5, <1>6, <1>7, <2>1, FinishGoes
<1>8. CASE r.register # Registers[d]
  <2>1. ReadOK(r, Registers[d]) /\ Busy(r)
    BY <1>1, <1>5, <1>8 DEF ReadOK, Busy
  <2> QED BY <1>5, <1>6, <1>8, <2>1 DEF Goes
<1> QED BY <1>7, <1>8

\* What going on leaves of the device and of the others.
LEMMA ReadGoes ==
  ASSUME Reads, Breakers, Requests, serving # None, UNCHANGED <<serving, channel>>,
         NEW d \in Device, Busy(read[d]), Goes(d)
  PROVE  Reads' /\ Breakers'
<1> DEFINE n == Registers[d]
<1>0. /\ breaker \in [Device -> Breaker] /\ fruitless \in [Device -> 0..Threshold]
      /\ read \in [Device -> ReadState] /\ channel \in [Device -> BOOLEAN]
      /\ \A e \in Device : ReadOK(read[e], Registers[e])
      /\ \A e \in Device :
           BreakerOK(breaker[e], Busy(read[e]), fruitless[e], channel[e], Registers[e])
      /\ n \in Nat
  BY ModbusAssumption DEF Reads, Breakers, Requests
<1>1. n > 0
  BY <1>0 DEF ReadOK, ReadState
<1>2. BreakerOK(breaker[d], TRUE, fruitless[d], channel[d], n)
  BY <1>0 DEF BreakerOK
<1> HIDE DEF n
<1>3. ASSUME NEW r \in ReadState, ReadOK(r, Registers[d]), Busy(r),
             read' = [read EXCEPT ![d] = r], UNCHANGED <<breaker, fruitless>>
      PROVE  Reads' /\ Breakers'
  <2>1. \A e \in Device : Busy(read'[e]) <=> Busy(read[e])
    BY <1>0, <1>3
  <2>2. Reads'
    BY <1>0, <1>3 DEF Reads
  <2>3. Breakers'
    BY <1>0, <1>3, <2>1 DEF Breakers, BreakerOK
  <2> QED BY <2>2, <2>3
<1>4. ASSUME NEW r \in ReadState, NEW got \in BOOLEAN, ReadOK(r, Registers[d]), ~Busy(r),
             read' = [read EXCEPT ![d] = r],
             breaker' = [breaker EXCEPT ![d] = IF got THEN Succeeded(@) ELSE Failed(@)],
             fruitless' = [fruitless EXCEPT ![d] = Answerless(fruitless[d], got)]
      PROVE  Reads' /\ Breakers'
  <2> DEFINE b == IF got THEN Succeeded(breaker[d]) ELSE Failed(breaker[d])
             f == Answerless(fruitless[d], got)
  <2>1. b \in Breaker /\ f \in 0..Threshold /\ BreakerOK(b, FALSE, f, channel[d], n)
    BY <1>0, <1>1, <1>2, BreakerTold
  <2>2. breaker' = [breaker EXCEPT ![d] = b] /\ fruitless' = [fruitless EXCEPT ![d] = f]
    BY <1>4
  <2> HIDE DEF b, f
  <2>3. Reads'
    BY <1>0, <1>4, <2>1, <2>2 DEF Reads
  <2>4. ASSUME NEW e \in Device
        PROVE  BreakerOK(breaker[e], Busy(read[e]), fruitless[e], channel[e], Registers[e])'
    <3>1. CASE e = d
      <4>1. breaker'[e] = b /\ fruitless'[e] = f /\ read'[e] = r /\ channel'[e] = channel[d]
        BY <1>0, <1>4, <2>2, <3>1
      <4> QED BY <1>4, <2>1, <3>1, <4>1 DEF n, BreakerOK
    <3>2. CASE e # d
      <4>1. /\ breaker'[e] = breaker[e] /\ fruitless'[e] = fruitless[e] /\ read'[e] = read[e]
            /\ channel'[e] = channel[e]
        BY <1>0, <1>4, <2>2, <3>2
      <4> QED BY <1>0, <4>1
    <3> QED BY <3>1, <3>2
  <2> QED BY <2>3, <2>4 DEF Breakers
<1> QED BY <1>3, <1>4 DEF Goes

LEMMA RestedType ==
  Rested \in ReadState /\ Rested.stage = "done" /\ Rested.register = 0
<1>1. 0 \in 0..DeadlineAfter /\ FALSE \in BOOLEAN /\ "done" \in Stage /\ 0 \in Nat
  BY ModbusAssumption DEF Stage
<1> QED BY <1>1 DEF Rested, ReadState

LEMMA RequestsStep ==
  ASSUME Requests, [Next]_vars
  PROVE  Requests'
<1>0. /\ request \in [Callers -> Request \cup {NoRequest}]
      /\ queue \in Seq(Callers) /\ serving \in Callers \cup {None}
      /\ channel \in [Device -> BOOLEAN]
  BY DEF Requests
<1>1. ASSUME UNCHANGED <<request, queue, serving, channel>> PROVE Requests'
  BY <1>0, <1>1 DEF Requests
<1>2. ASSUME NEW c \in Callers, NEW r \in Asks[c], Send(c, r)
      PROVE  Requests'
  <2>1. r \in Request
    BY ModbusAssumption
  <2>2. queue' \in Seq(Callers)
    BY <1>0, <1>2, AppendProperties DEF Send
  <2> QED BY <1>0, <1>2, <2>1, <2>2 DEF Send, Requests
<1>3. ASSUME NEW c \in Callers, Received(c)
      PROVE  Tail(queue) \in Seq(Callers)
  BY <1>0, <1>3, HeadTailProperties DEF Received
<1>4. ASSUME NEW c \in Callers, ConnectAll(c) PROVE Requests'
  <2>1. channel' \in [Device -> BOOLEAN]
    BY <1>0, <1>4 DEF ConnectAll
  <2> QED BY <1>0, <1>3, <1>4, <2>1 DEF ConnectAll, Answered, Requests
<1>5. ASSUME NEW c \in Callers, DisconnectAll(c) \/ Write(c) \/ StartRead(c) PROVE Requests'
  BY <1>0, <1>3, <1>5 DEF DisconnectAll, Write, StartRead, Answered, Requests
<1>6. CASE Reply
  BY <1>0, <1>6 DEF Reply, Answered, Requests
<1>7. ASSUME NEW d \in Device, Begin(d) \/ Ask(d) \/ Wait(d)
      PROVE  UNCHANGED <<request, queue, serving, channel>>
  BY <1>7 DEF Begin, Ask, Wait, Respond, Struggle, RegisterExpires, DeviceExpires
<1> QED BY <1>1, <1>2, <1>4, <1>5, <1>6, <1>7 DEF Next, Serve, Tick, vars

\* A request to a device takes a token of it, if the device is limited.
LEMMA Taking ==
  ASSUME Limits, NEW d \in Device, HasToken(d), tokens' = Taken(d), issued' \in {issued, Issued(d)}
  PROVE  Limits'
<1>0. /\ tokens \in [Device -> Nat] /\ issued \in [Device -> Nat]
      /\ \A e \in Device : tokens[e] <= Burst[e]
      /\ \A e \in Limited : tokens[e] + issued[e] <= Burst[e]
      /\ \A e \in Device : Burst[e] \in Nat
      /\ Limited \subseteq Device
  BY ModbusAssumption DEF Limits
<1>1. CASE d \notin Limited
  BY <1>0, <1>1 DEF Taken, Issued, Limits
<1>2. CASE d \in Limited
  <2>1. tokens[d] - 1 \in Nat /\ issued[d] + 1 \in Nat
    BY <1>0, <1>2 DEF HasToken
  <2>2. /\ tokens' = [tokens EXCEPT ![d] = tokens[d] - 1]
        /\ issued' = issued \/ issued' = [issued EXCEPT ![d] = issued[d] + 1]
    BY <1>0, <1>2 DEF Taken, Issued
  <2>3. tokens' \in [Device -> Nat] /\ issued' \in [Device -> Nat]
    BY <1>0, <2>1, <2>2
  <2>4. \A e \in Device : tokens'[e] <= Burst[e]
    BY <1>0, <2>1, <2>2
  <2>5. \A e \in Limited : tokens'[e] + issued'[e] <= Burst[e]
    <3> SUFFICES ASSUME NEW e \in Limited PROVE tokens'[e] + issued'[e] <= Burst[e]
      OBVIOUS
    <3>1. CASE e = d
      <4>1. tokens'[e] = tokens[d] - 1 /\ (issued'[e] = issued[d] \/ issued'[e] = issued[d] + 1)
        BY <1>0, <2>2, <3>1
      <4>2. tokens[d] \in Nat /\ issued[d] \in Nat /\ Burst[d] \in Nat
            /\ tokens[d] + issued[d] <= Burst[d]
        BY <1>0, <1>2
      <4> QED BY <3>1, <4>1, <4>2
    <3>2. CASE e # d
      BY <1>0, <2>2, <3>2
    <3> QED BY <3>1, <3>2
  <2> QED BY <2>3, <2>4, <2>5 DEF Limits
<1> QED BY <1>1, <1>2

LEMMA LimitsStep ==
  ASSUME Requests, Limits, [Next]_vars
  PROVE  Limits'
<1>1. ASSUME UNCHANGED limitVars PROVE Limits'
  BY <1>1 DEF limitVars, Limits
<1>2. ASSUME NEW c \in Callers, NEW r \in Asks[c], Send(c, r)
      PROVE  Limits'
  BY <1>1, <1>2 DEF Send, limitVars
<1>3. ASSUME NEW c \in Callers, ConnectAll(c) \/ DisconnectAll(c) \/ StartRead(c) PROVE Limits'
  BY <1>1, <1>3 DEF ConnectAll, DisconnectAll, StartRead, limitVars
<1>4. ASSUME NEW c \in Callers, Write(c) PROVE Limits'
  <2> DEFINE d == request[c].device
             allowed == d \notin ReadOnly /\ HasToken(d)
  <2>1. request[c] \in Request \cup {NoRequest} /\ request[c].kind = "write"
    BY <1>4 DEF Requests, Write
  <2>2. d \in Device
    BY <2>1 DEF Request, NoRequest, Kind
  <2>3. /\ tokens' = IF allowed THEN Taken(d) ELSE tokens
        /\ issued' = IF allowed /\ channel[d] THEN Issued(d) ELSE issued
    BY <1>4 DEF Write
  <2>4. CASE allowed
    BY <2>2, <2>3, <2>4, Taking
  <2>5. CASE ~allowed
    BY <1>1, <2>3, <2>5 DEF limitVars
  <2> QED BY <2>4, <2>5
<1>5. ASSUME NEW d \in Device, Begin(d) PROVE Limits'
  BY <1>1, <1>5 DEF Begin, limitVars
<1>6. ASSUME NEW d \in Device, Ask(d) PROVE Limits'
  <2>1. CASE HasToken(d)
    BY <1>6, <2>1, Taking DEF Ask
  <2>2. CASE ~HasToken(d)
    BY <1>1, <1>6, <2>2 DEF Ask, limitVars
  <2> QED BY <2>1, <2>2
<1>7. ASSUME NEW d \in Device, Wait(d) PROVE Limits'
  BY <1>1, <1>7 DEF Wait, Respond, Struggle, RegisterExpires, DeviceExpires, limitVars
<1>8. CASE Tick
  <2>1. /\ \A d \in Device : tokens[d] \in Nat /\ Burst[d] \in Nat
        /\ Rate \in Nat /\ Limited \subseteq Device
    BY ModbusAssumption DEF Limits
  <2>2. tokens' \in [Device -> Nat] /\ \A d \in Device : tokens'[d] <= Burst[d]
    BY <1>8, <2>1 DEF Tick
  <2>3. issued' \in [Device -> Nat] /\ \A d \in Device : issued'[d] = 0
    BY <1>8 DEF Tick
  <2>4. \A d \in Limited : tokens'[d] + issued'[d] <= Burst[d]
    BY <2>1, <2>2, <2>3
  <2> QED BY <2>2, <2>3, <2>4 DEF Limits
<1>9. CASE Reply
  BY <1>1, <1>9 DEF Reply, limitVars
<1> QED BY <1>1, <1>2, <1>3, <1>4, <1>5, <1>6, <1>7, <1>8, <1>9 DEF Next, Serve, vars, limitVars

LEMMA ReadsStep ==
  ASSUME Requests, Reads, Breakers, [Next]_vars
  PROVE  Reads' /\ Breakers'
<1>0. /\ breaker \in [Device -> Breaker] /\ fruitless \in [Device -> 0..Threshold]
      /\ read \in [Device -> ReadState] /\ channel \in [Device -> BOOLEAN]
      /\ \A d \in Device : ReadOK(read[d], Registers[d])
      /\ \A d \in Device :
           BreakerOK(breaker[d], Busy(read[d]), fruitless[d], channel[d], Registers[d])
      /\ serving = None => \A d \in Device : ~Busy(read[d])
      /\ \A d \in Device : Registers[d] \in Nat
      /\ None \notin Callers
  BY ModbusAssumption DEF Reads, Breakers, Requests
<1>1. ASSUME UNCHANGED readVars, UNCHANGED <<serving, channel>> PROVE Reads' /\ Breakers'
  BY <1>0, <1>1 DEF Reads, Breakers, readVars
<1>2. ASSUME NEW c \in Callers, NEW r \in Asks[c], Send(c, r)
      PROVE  Reads' /\ Breakers'
  BY <1>1, <1>2 DEF Send, readVars
<1>3. ASSUME NEW c \in Callers, Write(c) PROVE Reads' /\ Breakers'
  BY <1>1, <1>3 DEF Write, readVars
<1>4. ASSUME NEW c \in Callers, ConnectAll(c) PROVE Reads' /\ Breakers'
  <2>1. serving = None /\ UNCHANGED <<serving, read>>
    BY <1>4 DEF ConnectAll, Received
  <2>2. PICK refused \in SUBSET Device :
          /\ channel' = [d \in Device |-> channel[d] \/ d \notin refused]
          /\ breaker' = [d \in Device |->
               IF d \in refused THEN Failed(ResetBreaker) ELSE Succeeded(ResetBreaker)]
          /\ fruitless' = [d \in Device |-> IF d \in refused THEN 1 ELSE 0]
    BY <1>4 DEF ConnectAll
  <2>3. /\ breaker' \in [Device -> Breaker] /\ fruitless' \in [Device -> 0..Threshold]
        /\ channel' \in [Device -> BOOLEAN]
    <3>1. Succeeded(ResetBreaker) \in Breaker /\ Failed(ResetBreaker) \in Breaker
      BY BreakerReset
    <3>2. 0 \in 0..Threshold /\ 1 \in 0..Threshold
      BY ModbusAssumption
    <3>3. channel' \in [Device -> BOOLEAN]
      BY <1>0, <2>2
    <3> QED BY <2>2, <3>1, <3>2, <3>3
  <2>4. Reads'
    BY <1>0, <2>1, <2>3 DEF Reads
  <2>5. ASSUME NEW d \in Device
        PROVE  BreakerOK(breaker[d], Busy(read[d]), fruitless[d], channel[d], Registers[d])'
    <3> DEFINE connected == channel'[d]
    <3>1. connected \in BOOLEAN /\ Registers[d] \in Nat
      BY <1>0, <2>3
    <3>2. ~Busy(read[d]) /\ read' = read
      BY <1>0, <2>1
    <3> HIDE DEF connected
    <3>3. /\ BreakerOK(Succeeded(ResetBreaker), FALSE, 0, connected, Registers[d])
          /\ BreakerOK(Failed(ResetBreaker), FALSE, 1, connected, Registers[d])
      BY <3>1, BreakerReset
    <3>4. \/ breaker'[d] = Failed(ResetBreaker) /\ fruitless'[d] = 1
          \/ breaker'[d] = Succeeded(ResetBreaker) /\ fruitless'[d] = 0
      BY <2>2
    <3>5. BreakerOK(breaker'[d], FALSE, fruitless'[d], connected, Registers[d])
      BY <3>3, <3>4
    <3>6. BreakerOK(breaker'[d], Busy(read'[d]), fruitless'[d], connected, Registers[d])
      BY <3>2, <3>5 DEF BreakerOK
    <3> QED BY <3>6 DEF connected
  <2> QED BY <2>4, <2>5 DEF Breakers
<1>5. ASSUME NEW c \in Callers, DisconnectAll(c) PROVE Reads' /\ Breakers'
  <2>1. UNCHANGED readVars /\ UNCHANGED serving /\ channel' = [d \in Device |-> FALSE]
    BY <1>5 DEF DisconnectAll, readVars
  <2>2. Reads'
    BY <1>0, <2>1 DEF Reads, readVars
  <2>3. Breakers'
    BY <1>0, <2>1 DEF Breakers, BreakerOK, readVars
  <2> QED BY <2>2, <2>3
<1>6. ASSUME NEW c \in Callers, StartRead(c) PROVE Reads' /\ Breakers'
  <2> DEFINE turn == [Rested EXCEPT !.stage = "turn"]
  <2>1. /\ serving = None /\ serving' = c /\ UNCHANGED <<breaker, fruitless, channel>>
        /\ read' = [d \in Device |-> turn]
    BY <1>6 DEF StartRead, Received
  <2>2. turn \in ReadState /\ ~Busy(turn) /\ turn.register = 0
    <3>1. turn \in ReadState /\ turn.stage = "turn" /\ turn.register = 0
      BY RestedType DEF ReadState, Stage
    <3> QED BY <3>1 DEF Busy
  <2> HIDE DEF turn
  <2>3. Reads'
    BY <1>0, <2>1, <2>2 DEF Reads, ReadOK
  <2>4. \A d \in Device : ~Busy(read[d]) /\ ~Busy(read'[d])
    BY <1>0, <2>1, <2>2
  <2>5. Breakers'
    BY <1>0, <2>1, <2>4 DEF Breakers, BreakerOK
  <2> QED BY <2>3, <2>5
<1>7. ASSUME NEW d \in Device, Begin(d) PROVE Reads' /\ Breakers'
  <2> DEFINE b == breaker[d]
             admitted == Admits(b)
             go == admitted /\ channel[d] /\ Registers[d] > 0
             r == [read[d] EXCEPT !.stage = IF go THEN "asking" ELSE "done"]
  <2>1. /\ serving # None /\ read[d].stage = "turn" /\ UNCHANGED <<serving, channel, fruitless>>
        /\ breaker' = [breaker EXCEPT ![d] = IF admitted THEN Admitted(b) ELSE b]
        /\ read' = [read EXCEPT ![d] = r]
    BY <1>0, <1>7 DEF Begin, HasTurn
  <2>2. /\ read[d] \in ReadState /\ read[d].register <= Registers[d] /\ b \in Breaker
        /\ fruitless[d] \in 0..Threshold /\ channel[d] \in BOOLEAN /\ Registers[d] \in Nat
        /\ ~Busy(read[d])
    BY <1>0, <2>1 DEF ReadOK, Busy
  <2>3. /\ r \in ReadState /\ r.register = read[d].register
        /\ Busy(r) <=> go
    <3>1. r \in ReadState /\ r.register = read[d].register
          /\ r.stage = IF go THEN "asking" ELSE "done"
      BY <2>2 DEF ReadState, Stage
    <3> QED BY <3>1 DEF Busy
  <2>4. BreakerOK(b, FALSE, fruitless[d], channel[d], Registers[d])
    BY <1>0, <2>2 DEF BreakerOK
  <2>5. read[d].register = 0
    BY <1>0, <2>1 DEF ReadOK
  <2> HIDE DEF r, b
  <2>6. ReadOK(r, Registers[d])
    <3>1. r.stage # "turn"
      BY <2>2 DEF r
    <3> QED BY <2>2, <2>3, <2>5, <3>1 DEF ReadOK
  <2>7. ASSUME NEW c \in Breaker, breaker' = [breaker EXCEPT ![d] = c],
               BreakerOK(c, Busy(r), fruitless[d], channel[d], Registers[d])
        PROVE  Reads' /\ Breakers'
    <3>1. Reads'
      BY <1>0, <2>1, <2>3, <2>6, <2>7 DEF Reads
    <3>2. ASSUME NEW e \in Device
          PROVE  BreakerOK(breaker[e], Busy(read[e]), fruitless[e], channel[e], Registers[e])'
      <4>1. CASE e = d
        BY <1>0, <2>1, <2>7, <4>1
      <4>2. CASE e # d
        <5>1. breaker'[e] = breaker[e] /\ read'[e] = read[e]
          BY <1>0, <2>1, <2>7, <4>2
        <5> QED BY <1>0, <2>1, <5>1
      <4> QED BY <4>1, <4>2
    <3> QED BY <3>1, <3>2 DEF Breakers
  <2>8. CASE admitted
    <3> DEFINE busy == Busy(r)
    <3>1. busy \in BOOLEAN /\ busy = (channel[d] /\ Registers[d] > 0)
      <4>1. busy \in BOOLEAN
        BY DEF Busy
      <4> QED BY <2>2, <2>3, <2>8, <4>1
    <3> HIDE DEF busy
    <3>2. Admitted(b) \in Breaker /\ BreakerOK(Admitted(b), busy, fruitless[d], channel[d], Registers[d])
      BY <2>2, <2>4, <2>8, <3>1, BreakerAdmits DEF b
    <3> QED BY <2>1, <2>7, <2>8, <3>2 DEF busy
  <2>9. CASE ~admitted
    <3>1. BreakerOK(b, Busy(r), fruitless[d], channel[d], Registers[d])
      BY <2>3, <2>4, <2>9 DEF BreakerOK
    <3> QED BY <2>1, <2>2, <2>7, <2>9, <3>1
  <2> QED BY <2>8, <2>9
<1>8. ASSUME NEW d \in Device, Busy(read[d]), Goes(d), UNCHANGED <<serving, channel>>
      PROVE  Reads' /\ Breakers'
  BY <1>0, <1>8, ReadGoes
<1>9. ASSUME NEW d \in Device, Ask(d) PROVE Reads' /\ Breakers'
  <2>1. Busy(read[d]) /\ UNCHANGED <<serving, channel>>
    BY <1>9 DEF Ask, Busy
  <2>2. read[d] \in ReadState /\ ReadOK(read[d], Registers[d]) /\ read[d].spent + 0 <= DeadlineAfter
    BY <1>0, ModbusAssumption DEF ReadState
  <2>3. CASE HasToken(d)
    <3> DEFINE r == [read[d] EXCEPT !.stage = "waiting"]
    <3>1. r \in ReadState /\ r.stage = "waiting" /\ r.register = read[d].register
      BY <2>2 DEF ReadState, Stage
    <3>2. read' = [read EXCEPT ![d] = r] /\ UNCHANGED <<breaker, fruitless>>
      BY <1>0, <1>9, <2>3 DEF Ask
    <3> HIDE DEF r
    <3>3. ReadOK(r, Registers[d]) /\ Busy(r)
      BY <2>1, <2>2, <3>1 DEF ReadOK, Busy
    <3>4. Goes(d)
      BY <3>1, <3>2, <3>3 DEF Goes
    <3> QED BY <1>8, <2>1, <3>4
  <2>4. CASE ~HasToken(d)
    <3>1. Advance(d, FALSE, 0)
      BY <1>9, <2>4 DEF Ask
    <3> QED BY <1>8, <2>1, <2>2, <3>1, AdvanceGoes
  <2> QED BY <2>3, <2>4
<1>10. ASSUME NEW d \in Device, Wait(d) PROVE Reads' /\ Breakers'
  <2>1. Busy(read[d]) /\ UNCHANGED <<serving, channel>>
    BY <1>10 DEF Wait, Respond, Struggle, RegisterExpires, DeviceExpires, Busy
  <2>2. /\ read[d] \in ReadState /\ read[d].register <= Registers[d]
        /\ read[d].spent + 0 <= DeadlineAfter
        /\ read[d].spent < DeadlineAfter => read[d].spent + 1 <= DeadlineAfter
    BY <1>0, ModbusAssumption DEF ReadState, ReadOK
  <2>3. ASSUME NEW success \in BOOLEAN, Advance(d, success, 0) PROVE Reads' /\ Breakers'
    BY <1>8, <2>1, <2>2, <2>3, AdvanceGoes
  <2>4. ASSUME NEW success \in BOOLEAN, Advance(d, success, 1), read[d].spent < DeadlineAfter
        PROVE  Reads' /\ Breakers'
    BY <1>8, <2>1, <2>2, <2>4, AdvanceGoes
  <2>5. CASE DeviceExpires(d)
    <3>1. Finish(d, read[d], FALSE)
      BY <2>5 DEF DeviceExpires
    <3> QED BY <1>8, <2>1, <2>2, <3>1, FinishGoes
  <2> QED BY <1>10, <2>3, <2>4, <2>5 DEF Wait, Respond, Struggle, RegisterExpires
<1>11. CASE Reply
  <2>1. /\ UNCHANGED readVars /\ UNCHANGED channel
        /\ \A d \in Device : ~Busy(read[d])
    BY <1>11 DEF Reply, Done, Busy, readVars
  <2>2. Reads'
    BY <1>0, <2>1 DEF Reads, readVars
  <2>3. Breakers'
    BY <1>0, <2>1 DEF Breakers, readVars
  <2> QED BY <2>2, <2>3
<1>12. CASE Tick
  <2>1. /\ UNCHANGED <<read, fruitless, serving, channel>>
        /\ \A d \in Device : breaker'[d] =
             [breaker[d] EXCEPT !.age = IF breaker[d].age < Recovery /\ breaker[d].state = "open"
                                        THEN breaker[d].age + 1 ELSE breaker[d].age]
        /\ breaker' = [d \in Device |-> breaker'[d]]
    BY <1>12 DEF Tick
  <2>2. ASSUME NEW d \in Device
        PROVE  /\ breaker'[d] \in Breaker
               /\ breaker'[d].state = breaker[d].state
               /\ breaker'[d].failures = breaker[d].failures
               /\ breaker'[d].successes = breaker[d].successes
               /\ breaker'[d].permits = breaker[d].permits
    <3> DEFINE age == IF breaker[d].age < Recovery /\ breaker[d].state = "open"
                      THEN breaker[d].age + 1 ELSE breaker[d].age
    <3>1. breaker[d] \in Breaker /\ breaker'[d] = [breaker[d] EXCEPT !.age = age]
      BY <1>0, <2>1
    <3>2. age \in 0..Recovery
      BY <3>1, BreakerParts, ModbusAssumption
    <3> HIDE DEF age
    <3> QED BY <3>1, <3>2 DEF Breaker
  <2>3. Reads'
    BY <1>0, <2>1, <2>2 DEF Reads
  <2>4. Breakers'
    BY <1>0, <2>1, <2>2 DEF Breakers, BreakerOK
  <2> QED BY <2>3, <2>4
<1> QED
  BY <1>1, <1>2, <1>3, <1>4, <1>5, <1>6, <1>7, <1>9, <1>10, <1>11, <1>12
     DEF Next, Serve, vars, readVars

-----------------------------------------------------------------------------
(* A device's breaker and the reads of it say the same of it, and the      *)
(* limiter has given no more tokens in a second than it had.               *)
THEOREM ModbusInvariant == Spec => []ModbusInv
<1>1. Init => ModbusInv
  <2> SUFFICES ASSUME Init PROVE ModbusInv
    OBVIOUS
  <2>1. Requests
    BY EmptySeq DEF Init, Requests
  <2>2. Limits
    <3>1. Burst \in [Device -> Nat] /\ Limited \subseteq Device
      BY ModbusAssumption
    <3> QED BY <3>1 DEF Init, Limits
  <2>3. Rested \in ReadState /\ ~Busy(Rested) /\ Rested.register = 0 /\ Rested.stage = "done"
    BY RestedType DEF Busy
  <2>4. Registers \in [Device -> Nat] /\ 0 \in 0..Threshold
    BY ModbusAssumption
  <2>5. Reads
    <3>1. \A d \in Device : ReadOK(Rested, Registers[d])
      BY <2>3, <2>4 DEF ReadOK
    <3>2. /\ breaker \in [Device -> Breaker] /\ fruitless \in [Device -> 0..Threshold]
          /\ read \in [Device -> ReadState] /\ \A d \in Device : read[d] = Rested
      BY <2>3, <2>4, BreakerReset DEF Init
    <3> QED BY <2>3, <3>1, <3>2 DEF Reads
  <2>6. ASSUME NEW d \in Device
        PROVE  BreakerOK(breaker[d], Busy(read[d]), fruitless[d], channel[d], Registers[d])
    <3>1. BreakerOK(ResetBreaker, FALSE, 0, FALSE, Registers[d])
      BY <2>4, BreakerReset
    <3>2. /\ breaker[d] = ResetBreaker /\ fruitless[d] = 0 /\ channel[d] = FALSE
          /\ Busy(read[d]) = FALSE
      BY <2>3 DEF Init, Busy
    <3> QED BY <3>1, <3>2
  <2> QED BY <2>1, <2>2, <2>5, <2>6 DEF ModbusInv, Breakers
<1>2. ModbusInv /\ [Next]_vars => ModbusInv'
  BY RequestsStep, LimitsStep, ReadsStep DEF ModbusInv
<1>3. QED BY <1>1, <1>2, PTL DEF Spec

(* Every variable keeps to its type, and reads and writes together send a  *)
(* limited device no more requests in a second than its burst.             *)
THEOREM TypeCorrect == Spec => []TypeOK
<1>1. ASSUME ModbusInv PROVE TypeOK
  <2>1. ASSUME NEW d \in Device
        PROVE  read[d] \in [stage: Stage, register: 0..Registers[d], got: BOOLEAN,
                            spent: 0..DeadlineAfter]
    <3>1. read[d] \in ReadState /\ read[d].register <= Registers[d] /\ Registers[d] \in Nat
      BY <1>1, ModbusAssumption DEF ModbusInv, Reads, ReadOK
    <3>2. read[d].register \in 0..Registers[d]
      BY <3>1 DEF ReadState
    <3> QED BY <3>1, <3>2 DEF ReadState
  <2>2. BurstBounded
    <3> SUFFICES ASSUME NEW d \in Limited PROVE issued[d] <= Burst[d]
      BY DEF BurstBounded
    <3>1. /\ d \in Device /\ tokens[d] \in Nat /\ issued[d] \in Nat /\ Burst[d] \in Nat
          /\ tokens[d] + issued[d] <= Burst[d]
      BY <1>1, ModbusAssumption DEF ModbusInv, Limits
    <3> QED BY <3>1
  <2> QED BY <1>1, <2>1, <2>2 DEF ModbusInv, Requests, Limits, Reads, TypeOK
<1>2. QED BY <1>1, ModbusInvariant, PTL

(* The breaker of a device is right about it: its permit is out exactly    *)
(* while the device is read, it counts the reads that gave no value, and   *)
(* it opens only because of them.  One failed connection must not be       *)
(* enough to open it (modbus.rs:49): a device without registers could stay *)
(* half open.                                                              *)
THEOREM BreakerRight ==
  ASSUME Threshold > 1
  PROVE  Spec => []BreakerIsRight
<1>1. ASSUME ModbusInv PROVE BreakerIsRight
  <2>1. ASSUME NEW d \in Device
        PROVE  BreakerOK(breaker[d], InProgress(d), fruitless[d], channel[d], Registers[d])
    BY <1>1 DEF ModbusInv, Breakers, Busy, InProgress
  <2>2. PermitOutWhileReading
    BY <2>1 DEF PermitOutWhileReading, BreakerOK
  <2>3. BreakerAgreesWithAnswers
    BY <2>1 DEF BreakerAgreesWithAnswers, BreakerOK
  <2> QED BY <2>2, <2>3 DEF BreakerIsRight
<1>2. QED BY <1>1, ModbusInvariant, PTL

=============================================================================
