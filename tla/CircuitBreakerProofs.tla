------------------------ MODULE CircuitBreakerProofs ------------------------
(***************************************************************************)
(* Proofs about CircuitBreaker for any set of clients, any thresholds and  *)
(* any recovery timeout.  BreakerInv is inductive; the safety properties   *)
(* that the runs check on two clients follow from it.                      *)
(***************************************************************************)
EXTENDS CircuitBreaker, FiniteSetTheorems, TLAPS

\* Every action keeps the types of the atomics and of the clients' locals.  That
\* the permit counter does not underflow needs ClientInv: the copy release_permit
\* decrements is not 0.
LEMMA TypeStep ==
  TypeOK /\ (\A c \in Clients : ClientInv(c)) /\ [Next]_vars => TypeOK'
<1> USE BreakerAssumption DEF TypeOK, shared, locals, history, Step, Goto, Drop, PCs, Idle,
        Entering, Releasing, Reporting, Resetting, Ages, Never, Verdicts
<1> SUFFICES ASSUME TypeOK, \A c \in Clients : ClientInv(c), [Next]_vars
             PROVE  TypeOK'
  OBVIOUS
<1>1. ASSUME Tick PROVE TypeOK'
  BY <1>1 DEF Tick, Older
<1>2. ASSUME NEW c \in Clients, IsOpen(c) PROVE TypeOK'
  <2>0. seen_permits[c] + 1 \in Nat
    OBVIOUS
  <2>1. CASE LoadState(c)      BY <2>1 DEF LoadState
  <2>2. CASE LoadFailure(c)    BY <2>2 DEF LoadFailure
  <2>3. CASE CheckTimeout(c)   BY <2>3 DEF CheckTimeout
  <2>4. CASE CasHalfOpen(c)    BY <2>4 DEF CasHalfOpen
  <2>5. CASE ClearSuccesses(c) BY <2>5 DEF ClearSuccesses
  <2>6. CASE ClearPermits(c)   BY <2>6 DEF ClearPermits
  <2>7. CASE LoadPermits(c)    BY <2>7 DEF LoadPermits
  <2>8. CASE CasPermits(c)     BY <2>0, <2>8 DEF CasPermits
  <2>9. QED BY <1>2, <2>1, <2>2, <2>3, <2>4, <2>5, <2>6, <2>7, <2>8 DEF IsOpen
<1>3. ASSUME NEW c \in Clients, Record(c) PROVE TypeOK'
  <2>0. Released(c) \in PCs
    BY DEF Released
  <2>1. CASE ReleaseState(c)   BY <2>0, <2>1 DEF ReleaseState
  <2>2. CASE ReleaseLoad(c)    BY <2>0, <2>2 DEF ReleaseLoad
  <2>3. CASE ReleaseCas(c)
    <3>1. seen_permits[c] - 1 \in Nat
      BY <2>3 DEF ReleaseCas, ClientInv
    <3>2. half_open_permits' \in Nat /\ holds' \in [Clients -> BOOLEAN]
      BY <2>3, <3>1 DEF ReleaseCas
    <3>3. pc' \in [Clients -> PCs]
      BY <2>0, <2>3 DEF ReleaseCas
    <3>4. QED BY <2>3, <3>2, <3>3 DEF ReleaseCas
  <2>4. CASE CountSuccess(c)   BY <2>4 DEF CountSuccess
  <2>5. CASE CasClosed(c)      BY <2>5 DEF CasClosed
  <2>6. CASE ForgetFailures(c) BY <2>6 DEF ForgetFailures
  <2>7. CASE ClosePermits(c)   BY <2>7 DEF ClosePermits
  <2>8. CASE CountFailure(c)   BY <2>8 DEF CountFailure
  <2>9. CASE Stamp(c)
    <3>1. age' \in 0..RecoveryTimeout
      BY <2>9 DEF Stamp
    <3>2. QED BY <2>9, <3>1 DEF Stamp
  <2>10. CASE SwapOpen(c)      BY <2>10 DEF SwapOpen
  <2>11. QED BY <1>3, <2>1, <2>2, <2>3, <2>4, <2>5, <2>6, <2>7, <2>8, <2>9, <2>10 DEF Record
<1>4. ASSUME NEW c \in Clients, Reset(c) PROVE TypeOK'
  <2>1. CASE ResetState(c)     BY <2>1 DEF ResetState
  <2>2. CASE ResetFailures(c)  BY <2>2 DEF ResetFailures
  <2>3. CASE ResetSuccesses(c) BY <2>3 DEF ResetSuccesses
  <2>4. CASE ResetTime(c)      BY <2>4 DEF ResetTime
  <2>5. CASE ResetPermits(c)   BY <2>5 DEF ResetPermits
  <2>6. QED BY <1>4, <2>1, <2>2, <2>3, <2>4, <2>5 DEF Reset
<1>5. ASSUME NEW c \in Clients, NEW v \in Verdicts, Report(c, v) PROVE TypeOK'
  BY <1>5 DEF Report
<1>6. CASE UNCHANGED vars
  BY <1>6 DEF vars
<1>7. QED BY <1>1, <1>2, <1>3, <1>4, <1>5, <1>6 DEF Next

\* The local copies and the history stay consistent with each client's place in
\* its call, whichever client moves.
LEMMA ClientStep == BreakerInv /\ [Next]_vars => (\A d \in Clients : ClientInv(d))'
<1> USE BreakerAssumption DEF BreakerInv, TypeOK, shared, locals, history, Step, Goto, Drop,
        Releasing, Ages, Never, ClientInv
<1> SUFFICES ASSUME BreakerInv, [Next]_vars, NEW d \in Clients
             PROVE  ClientInv(d)'
  OBVIOUS
<1>1. ASSUME Tick PROVE ClientInv(d)'
  BY <1>1 DEF Tick, Older
<1>2. ASSUME NEW c \in Clients, IsOpen(c) PROVE ClientInv(d)'
  <2>1. CASE LoadState(c) BY <2>1 DEF LoadState
  <2>2. CASE LoadFailure(c) BY <2>2 DEF LoadFailure
  <2>3. CASE CheckTimeout(c) BY <2>3 DEF CheckTimeout
  <2>4. CASE CasHalfOpen(c) BY <2>4 DEF CasHalfOpen
  <2>5. CASE ClearSuccesses(c) BY <2>5 DEF ClearSuccesses
  <2>6. CASE ClearPermits(c) BY <2>6 DEF ClearPermits
  <2>7. CASE LoadPermits(c) BY <2>7 DEF LoadPermits
  <2>8. CASE CasPermits(c) BY <2>8 DEF CasPermits
  <2>9. QED BY <1>2, <2>1, <2>2, <2>3, <2>4, <2>5, <2>6, <2>7, <2>8 DEF IsOpen
<1>3. ASSUME NEW c \in Clients, Record(c) PROVE ClientInv(d)'
  <2>1. CASE ReleaseState(c) BY <2>1 DEF ReleaseState, Released
  <2>2. CASE ReleaseLoad(c) BY <2>2 DEF ReleaseLoad, Released
  <2>3. CASE ReleaseCas(c) BY <2>3 DEF ReleaseCas, Released
  <2>4. CASE CountSuccess(c) BY <2>4 DEF CountSuccess
  <2>5. CASE CasClosed(c) BY <2>5 DEF CasClosed
  <2>6. CASE ForgetFailures(c) BY <2>6 DEF ForgetFailures
  <2>7. CASE ClosePermits(c) BY <2>7 DEF ClosePermits
  <2>8. CASE CountFailure(c) BY <2>8 DEF CountFailure
  <2>9. CASE Stamp(c) BY <2>9 DEF Stamp
  <2>10. CASE SwapOpen(c) BY <2>10 DEF SwapOpen
  <2>11. QED BY <1>3, <2>1, <2>2, <2>3, <2>4, <2>5, <2>6, <2>7, <2>8, <2>9, <2>10 DEF Record
<1>4. ASSUME NEW c \in Clients, Reset(c) PROVE ClientInv(d)'
  <2>1. CASE ResetState(c) BY <2>1 DEF ResetState
  <2>2. CASE ResetFailures(c) BY <2>2 DEF ResetFailures
  <2>3. CASE ResetSuccesses(c) BY <2>3 DEF ResetSuccesses
  <2>4. CASE ResetTime(c) BY <2>4 DEF ResetTime
  <2>5. CASE ResetPermits(c) BY <2>5 DEF ResetPermits
  <2>6. QED BY <1>4, <2>1, <2>2, <2>3, <2>4, <2>5 DEF Reset
<1>5. ASSUME NEW c \in Clients, NEW v \in Verdicts, Report(c, v) PROVE ClientInv(d)'
  BY <1>5 DEF Report
<1>6. CASE UNCHANGED vars
  BY <1>6 DEF vars
<1>7. QED BY <1>1, <1>2, <1>3, <1>4, <1>5, <1>6 DEF Next

\* No step takes more permits than the limit.
LEMMA BoundStep == BreakerInv /\ [Next]_vars => PermitsBounded'
<1> USE BreakerAssumption DEF BreakerInv, TypeOK, shared, locals, history, Step, Goto, Drop,
        Releasing, Ages, Never, ClientInv, PermitsBounded
<1> SUFFICES ASSUME BreakerInv, [Next]_vars
             PROVE  PermitsBounded'
  OBVIOUS
<1>1. ASSUME Tick PROVE PermitsBounded'
  BY <1>1 DEF Tick, Older
<1>2. ASSUME NEW c \in Clients, IsOpen(c) PROVE PermitsBounded'
  <2>1. CASE LoadState(c) BY <2>1 DEF LoadState
  <2>2. CASE LoadFailure(c) BY <2>2 DEF LoadFailure
  <2>3. CASE CheckTimeout(c) BY <2>3 DEF CheckTimeout
  <2>4. CASE CasHalfOpen(c) BY <2>4 DEF CasHalfOpen
  <2>5. CASE ClearSuccesses(c) BY <2>5 DEF ClearSuccesses
  <2>6. CASE ClearPermits(c) BY <2>6 DEF ClearPermits
  <2>7. CASE LoadPermits(c) BY <2>7 DEF LoadPermits
  <2>8. CASE CasPermits(c) BY <2>8 DEF CasPermits
  <2>9. QED BY <1>2, <2>1, <2>2, <2>3, <2>4, <2>5, <2>6, <2>7, <2>8 DEF IsOpen
<1>3. ASSUME NEW c \in Clients, Record(c) PROVE PermitsBounded'
  <2>1. CASE ReleaseState(c) BY <2>1 DEF ReleaseState
  <2>2. CASE ReleaseLoad(c) BY <2>2 DEF ReleaseLoad
  <2>3. CASE ReleaseCas(c) BY <2>3 DEF ReleaseCas
  <2>4. CASE CountSuccess(c) BY <2>4 DEF CountSuccess
  <2>5. CASE CasClosed(c) BY <2>5 DEF CasClosed
  <2>6. CASE ForgetFailures(c) BY <2>6 DEF ForgetFailures
  <2>7. CASE ClosePermits(c) BY <2>7 DEF ClosePermits
  <2>8. CASE CountFailure(c) BY <2>8 DEF CountFailure
  <2>9. CASE Stamp(c) BY <2>9 DEF Stamp
  <2>10. CASE SwapOpen(c) BY <2>10 DEF SwapOpen
  <2>11. QED BY <1>3, <2>1, <2>2, <2>3, <2>4, <2>5, <2>6, <2>7, <2>8, <2>9, <2>10 DEF Record
<1>4. ASSUME NEW c \in Clients, Reset(c) PROVE PermitsBounded'
  <2>1. CASE ResetState(c) BY <2>1 DEF ResetState
  <2>2. CASE ResetFailures(c) BY <2>2 DEF ResetFailures
  <2>3. CASE ResetSuccesses(c) BY <2>3 DEF ResetSuccesses
  <2>4. CASE ResetTime(c) BY <2>4 DEF ResetTime
  <2>5. CASE ResetPermits(c) BY <2>5 DEF ResetPermits
  <2>6. QED BY <1>4, <2>1, <2>2, <2>3, <2>4, <2>5 DEF Reset
<1>5. ASSUME NEW c \in Clients, NEW v \in Verdicts, Report(c, v) PROVE PermitsBounded'
  BY <1>5 DEF Report
<1>6. CASE UNCHANGED vars
  BY <1>6 DEF vars
<1>7. QED BY <1>1, <1>2, <1>3, <1>4, <1>5, <1>6 DEF Next

\* No step leaves the circuit open without a timestamp, unless a reset raced.
LEMMA StampStep == BreakerInv /\ [Next]_vars => OpenIsStamped'
<1> USE BreakerAssumption DEF BreakerInv, TypeOK, shared, locals, history, Step, Goto, Drop,
        Releasing, Ages, Never, ClientInv, OpenIsStamped
<1> SUFFICES ASSUME BreakerInv, [Next]_vars
             PROVE  OpenIsStamped'
  OBVIOUS
<1>1. ASSUME Tick PROVE OpenIsStamped'
  BY <1>1 DEF Tick, Older
<1>2. ASSUME NEW c \in Clients, IsOpen(c) PROVE OpenIsStamped'
  <2>1. CASE LoadState(c) BY <2>1 DEF LoadState
  <2>2. CASE LoadFailure(c) BY <2>2 DEF LoadFailure
  <2>3. CASE CheckTimeout(c) BY <2>3 DEF CheckTimeout
  <2>4. CASE CasHalfOpen(c) BY <2>4 DEF CasHalfOpen
  <2>5. CASE ClearSuccesses(c) BY <2>5 DEF ClearSuccesses
  <2>6. CASE ClearPermits(c) BY <2>6 DEF ClearPermits
  <2>7. CASE LoadPermits(c) BY <2>7 DEF LoadPermits
  <2>8. CASE CasPermits(c) BY <2>8 DEF CasPermits
  <2>9. QED BY <1>2, <2>1, <2>2, <2>3, <2>4, <2>5, <2>6, <2>7, <2>8 DEF IsOpen
<1>3. ASSUME NEW c \in Clients, Record(c) PROVE OpenIsStamped'
  <2>1. CASE ReleaseState(c) BY <2>1 DEF ReleaseState
  <2>2. CASE ReleaseLoad(c) BY <2>2 DEF ReleaseLoad
  <2>3. CASE ReleaseCas(c) BY <2>3 DEF ReleaseCas
  <2>4. CASE CountSuccess(c) BY <2>4 DEF CountSuccess
  <2>5. CASE CasClosed(c) BY <2>5 DEF CasClosed
  <2>6. CASE ForgetFailures(c) BY <2>6 DEF ForgetFailures
  <2>7. CASE ClosePermits(c) BY <2>7 DEF ClosePermits
  <2>8. CASE CountFailure(c) BY <2>8 DEF CountFailure
  <2>9. CASE Stamp(c) BY <2>9 DEF Stamp
  <2>10. CASE SwapOpen(c) BY <2>10 DEF SwapOpen
  <2>11. QED BY <1>3, <2>1, <2>2, <2>3, <2>4, <2>5, <2>6, <2>7, <2>8, <2>9, <2>10 DEF Record
<1>4. ASSUME NEW c \in Clients, Reset(c) PROVE OpenIsStamped'
  <2>1. CASE ResetState(c) BY <2>1 DEF ResetState
  <2>2. CASE ResetFailures(c) BY <2>2 DEF ResetFailures
  <2>3. CASE ResetSuccesses(c) BY <2>3 DEF ResetSuccesses
  <2>4. CASE ResetTime(c) BY <2>4 DEF ResetTime
  <2>5. CASE ResetPermits(c) BY <2>5 DEF ResetPermits
  <2>6. QED BY <1>4, <2>1, <2>2, <2>3, <2>4, <2>5 DEF Reset
<1>5. ASSUME NEW c \in Clients, NEW v \in Verdicts, Report(c, v) PROVE OpenIsStamped'
  BY <1>5 DEF Report
<1>6. CASE UNCHANGED vars
  BY <1>6 DEF vars
<1>7. QED BY <1>1, <1>2, <1>3, <1>4, <1>5, <1>6 DEF Next

\* No step lets the counter of a half-open breaker exceed the number of holders.
\* Most steps leave counter and holders alone or zero the counter (<1>2, <1>3);
\* the two compare_exchange operations move both by one.
LEMMA HeldStep == BreakerInv /\ [Next]_vars => PermitsHeld'
<1> USE BreakerAssumption DEF BreakerInv, TypeOK, shared, locals, history, Step, Goto, Drop,
        Releasing
<1> DEFINE Calm == \A d \in Clients : pc[d] \notin {"clear_successes", "clear_permits"}
           Goal == half_open_permits' <= Cardinality(Holders')
<1> SUFFICES ASSUME BreakerInv, [Next]_vars, state' = "half_open",
                    \A d \in Clients : pc'[d] \notin {"clear_successes", "clear_permits"}
             PROVE  Goal
  BY DEF PermitsHeld, Clearing
<1>1. /\ IsFiniteSet(Holders) /\ Cardinality(Holders) \in Nat
      /\ IsFiniteSet(Holders') /\ Cardinality(Holders') \in Nat
  BY FS_Subset, FS_CardinalityType DEF Holders
<1>2. half_open_permits' = 0 => Goal
  BY <1>1
<1>3. state = "half_open" /\ Calm /\ half_open_permits' = half_open_permits /\ holds' = holds => Goal
  BY DEF PermitsHeld, Clearing, Holders
<1> HIDE DEF Goal
<1>4. CASE Tick
  BY <1>4, <1>3 DEF Tick
<1>5. ASSUME NEW c \in Clients, IsOpen(c) PROVE Goal
  <2>1. CASE LoadState(c) BY <2>1, <1>2, <1>3 DEF LoadState
  <2>2. CASE LoadFailure(c) BY <2>2, <1>2, <1>3 DEF LoadFailure
  <2>3. CASE CheckTimeout(c) BY <2>3, <1>2, <1>3 DEF CheckTimeout
  <2>4. CASE CasHalfOpen(c) BY <2>4, <1>2, <1>3 DEF CasHalfOpen
  <2>5. CASE ClearSuccesses(c) BY <2>5, <1>2, <1>3 DEF ClearSuccesses
  <2>6. CASE ClearPermits(c) BY <2>6, <1>2, <1>3 DEF ClearPermits
  <2>7. CASE LoadPermits(c) BY <2>7, <1>2, <1>3 DEF LoadPermits
  <2>8. CASE CasPermits(c)
    <3>1. CASE half_open_permits # seen_permits[c]
      BY <2>8, <3>1, <1>3 DEF CasPermits
    <3>2. CASE half_open_permits = seen_permits[c]
      <4>1. c \notin Holders /\ Holders' = Holders \cup {c}
        BY <2>8, <3>2 DEF CasPermits, Holders, ClientInv
      <4>2. Cardinality(Holders') = Cardinality(Holders) + 1
        BY <4>1, <1>1, FS_AddElement
      <4>3. half_open_permits' = half_open_permits + 1 /\ state = "half_open" /\ Calm
        BY <2>8, <3>2 DEF CasPermits
      <4>4. half_open_permits <= Cardinality(Holders)
        BY <4>3 DEF PermitsHeld, Clearing
      <4>5. QED BY <4>2, <4>3, <4>4, <1>1 DEF Goal
    <3>3. QED BY <3>1, <3>2
  <2>9. QED BY <1>5, <2>1, <2>2, <2>3, <2>4, <2>5, <2>6, <2>7, <2>8 DEF IsOpen
<1>6. ASSUME NEW c \in Clients, Record(c) PROVE Goal
  <2>1. CASE ReleaseState(c) BY <2>1, <1>2, <1>3 DEF ReleaseState, Released
  <2>2. CASE ReleaseLoad(c) BY <2>2, <1>2, <1>3 DEF ReleaseLoad, Released
  <2>3. CASE ReleaseCas(c)
    <3>1. CASE half_open_permits # seen_permits[c]
      BY <2>3, <3>1, <1>3 DEF ReleaseCas
    <3>2. CASE half_open_permits = seen_permits[c]
      <4>1. Holders' = Holders \ {c}
        BY <2>3, <3>2 DEF ReleaseCas, Holders
      <4>2. Cardinality(Holders') >= Cardinality(Holders) - 1
        BY <4>1, <1>1, FS_RemoveElement
      <4>3. half_open_permits' = half_open_permits - 1 /\ state = "half_open" /\ Calm
        BY <2>3, <3>2 DEF ReleaseCas, Released
      <4>4. half_open_permits <= Cardinality(Holders)
        BY <4>3 DEF PermitsHeld, Clearing
      <4>5. QED BY <4>2, <4>3, <4>4, <1>1 DEF Goal
    <3>3. QED BY <3>1, <3>2
  <2>4. CASE CountSuccess(c) BY <2>4, <1>2, <1>3 DEF CountSuccess
  <2>5. CASE CasClosed(c) BY <2>5, <1>2, <1>3 DEF CasClosed
  <2>6. CASE ForgetFailures(c) BY <2>6, <1>2, <1>3 DEF ForgetFailures
  <2>7. CASE ClosePermits(c) BY <2>7, <1>2, <1>3 DEF ClosePermits
  <2>8. CASE CountFailure(c) BY <2>8, <1>2, <1>3 DEF CountFailure
  <2>9. CASE Stamp(c) BY <2>9, <1>2, <1>3 DEF Stamp
  <2>10. CASE SwapOpen(c) BY <2>10, <1>2, <1>3 DEF SwapOpen
  <2>11. QED BY <1>6, <2>1, <2>2, <2>3, <2>4, <2>5, <2>6, <2>7, <2>8, <2>9, <2>10 DEF Record
<1>7. ASSUME NEW c \in Clients, Reset(c) PROVE Goal
  <2>1. CASE ResetState(c) BY <2>1, <1>2, <1>3 DEF ResetState
  <2>2. CASE ResetFailures(c) BY <2>2, <1>2, <1>3 DEF ResetFailures
  <2>3. CASE ResetSuccesses(c) BY <2>3, <1>2, <1>3 DEF ResetSuccesses
  <2>4. CASE ResetTime(c) BY <2>4, <1>2, <1>3 DEF ResetTime
  <2>5. CASE ResetPermits(c) BY <2>5, <1>2, <1>3 DEF ResetPermits
  <2>6. QED BY <1>7, <2>1, <2>2, <2>3, <2>4, <2>5 DEF Reset
<1>8. ASSUME NEW c \in Clients, NEW v \in Verdicts, Report(c, v) PROVE Goal
  BY <1>8, <1>3 DEF Report
<1>9. CASE UNCHANGED vars
  BY <1>9, <1>3 DEF vars
<1>10. QED BY <1>4, <1>5, <1>6, <1>7, <1>8, <1>9 DEF Next

-----------------------------------------------------------------------------
LEMMA BreakerInvInit == Init => BreakerInv
<1> SUFFICES ASSUME Init PROVE BreakerInv
  OBVIOUS
<1>1. TypeOK
  BY BreakerAssumption DEF Init, TypeOK, PCs, Idle, Ages, Never, Verdicts
<1>2. PermitsBounded /\ PermitsHeld /\ OpenIsStamped
  BY BreakerAssumption DEF Init, PermitsBounded, PermitsHeld, OpenIsStamped
<1>3. \A c \in Clients : ClientInv(c)
  BY DEF Init, ClientInv
<1>4. QED BY <1>1, <1>2, <1>3 DEF BreakerInv

\* BreakerInv holds in every reachable state.
THEOREM BreakerInvariant == Spec => []BreakerInv
<1>1. BreakerInv /\ [Next]_vars => BreakerInv'
  BY TypeStep, ClientStep, BoundStep, StampStep, HeldStep DEF BreakerInv
<1>2. QED BY BreakerInvInit, <1>1, PTL DEF Spec

\* The atomics and the locals stay in their types; the counter never underflows.
THEOREM TypeCorrect == Spec => []TypeOK
<1>1. BreakerInv => TypeOK
  BY DEF BreakerInv
<1>2. QED BY <1>1, BreakerInvariant, PTL

\* is_open never hands out more permits than the limit counts.
THEOREM PermitsStayBounded == Spec => []PermitsBounded
<1>1. BreakerInv => PermitsBounded
  BY DEF BreakerInv
<1>2. QED BY <1>1, BreakerInvariant, PTL

\* No interleaving loses a permit.
THEOREM NoPermitIsLost == Spec => []QuiescentPermits
<1>1. BreakerInv => QuiescentPermits
  <2> SUFFICES ASSUME BreakerInv, state = "half_open", \A c \in Clients : pc[c] = "idle"
               PROVE  half_open_permits = 0
    BY DEF QuiescentPermits
  <2>1. Holders = {} /\ Clearing = {}
    BY DEF BreakerInv, ClientInv, Holders, Clearing, Releasing
  <2>2. half_open_permits <= 0
    BY <2>1, FS_EmptySet DEF BreakerInv, PermitsHeld
  <2>3. QED BY <2>2 DEF BreakerInv, TypeOK
<1>2. QED BY <1>1, BreakerInvariant, PTL

\* open_circuit's order of stores leaves no open circuit without its timestamp.
THEOREM OpenStaysStamped == Spec => []OpenIsStamped
<1>1. BreakerInv => OpenIsStamped
  BY DEF BreakerInv
<1>2. QED BY <1>1, BreakerInvariant, PTL

\* Besides reset, every change of the state is one of the documented transitions.
THEOREM TransitionsAreLegal == Spec => LegalTransitions
<1> USE DEF LegalTransition, shared, Step, Goto
<1>1. ASSUME [Next]_vars PROVE [LegalTransition]_vars
  <2>1. CASE Tick
    BY <2>1 DEF Tick
  <2>2. ASSUME NEW c \in Clients, IsOpen(c) PROVE LegalTransition
    BY <2>2 DEF IsOpen, LoadState, LoadFailure, CheckTimeout, CasHalfOpen, ClearSuccesses,
                ClearPermits, LoadPermits, CasPermits
  <2>3. ASSUME NEW c \in Clients, Record(c) PROVE LegalTransition
    BY <2>3 DEF Record, ReleaseState, ReleaseLoad, ReleaseCas, CountSuccess, CasClosed,
                ForgetFailures, ClosePermits, CountFailure, Stamp, SwapOpen
  <2>4. ASSUME NEW c \in Clients, Reset(c) PROVE LegalTransition
    BY <2>4 DEF Reset, ResetFailures, ResetSuccesses, ResetTime, ResetPermits
  <2>5. ASSUME NEW c \in Clients, NEW v \in Verdicts, Report(c, v) PROVE LegalTransition
    BY <2>5 DEF Report
  <2>6. QED BY <1>1, <2>1, <2>2, <2>3, <2>4, <2>5 DEF Next
<1>2. QED BY <1>1, PTL DEF Spec, LegalTransitions
=============================================================================
