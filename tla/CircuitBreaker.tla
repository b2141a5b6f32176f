--------------------------- MODULE CircuitBreaker ---------------------------
(***************************************************************************)
(* resilience/circuit_breaker.rs: a circuit breaker whose state is five    *)
(* separate atomics, shared by any number of threads.  Every load, store,  *)
(* swap, fetch_add and compare_exchange of the code is one action, so that *)
(* TLC and the proofs see every interleaving of the calls.                 *)
(*                                                                         *)
(* A client calls is_open; when it is admitted it works, then reports with *)
(* record_success, record_failure or release_permit.  A client of          *)
(* Resetters may also call reset (the reconnect path of the Modbus client  *)
(* does).                                                                  *)
(*                                                                         *)
(* Time is relative: "age" is the time since last_failure_ms, saturated at *)
(* RecoveryTimeout (the code only asks whether it has been reached), and   *)
(* Never stands for last_failure_ms = 0.                                   *)
(***************************************************************************)
EXTENDS Integers, FiniteSets

CONSTANTS
  Clients,             \* threads sharing the breaker
  Resetters,           \* those that may also call reset
  FailureThreshold,    \* failure_threshold
  SuccessThreshold,    \* success_threshold, 2 in the code
  MaxHalfOpenPermits,  \* max_half_open_permits
  RecoveryTimeout      \* recovery_timeout_ms, in clock ticks

ASSUME BreakerAssumption ==
  /\ IsFiniteSet(Clients)
  /\ Resetters \subseteq Clients
  /\ FailureThreshold \in Nat
  /\ SuccessThreshold \in Nat
  /\ MaxHalfOpenPermits \in Nat \ {0}
  /\ RecoveryTimeout \in Nat

VARIABLES
  state,               \* "closed", "open" or "half_open"
  failure_count,
  success_count,
  age,                 \* time since last_failure_ms, or Never
  half_open_permits,
  pc,                  \* what each client is about to do
  seen_age,            \* is_open's local last_failure, as an age
  seen_permits,        \* the local copy of half_open_permits a CAS expects
  verdict,             \* what an admitted client is reporting
  holds,               \* history: admitted by a permit not yet given back
  raced                \* history: a reset erased the timestamp of a circuit that is open or
                       \* about to be, and none was stored since

shared == <<state, failure_count, success_count, age, half_open_permits>>
locals == <<seen_age, seen_permits, verdict>>
history == <<holds, raced>>
vars   == <<shared, pc, locals, history>>

Never == -1
Ages  == {Never} \cup 0..RecoveryTimeout

Verdicts == {"success", "failure", "abandon"}

Idle     == {"idle"}
Entering == {"retry", "load_failure", "check_timeout", "cas_half_open", "clear_successes",
             "clear_permits", "load_permits", "cas_permits"}
Releasing == {"release_state", "release_load", "release_cas"}
Reporting == Releasing \cup
             {"count_success", "cas_closed", "close_failures", "close_permits",
              "forget_failures", "count_failure", "stamp", "swap_open"}
Resetting == {"reset_failures", "reset_successes", "reset_time", "reset_permits"}
PCs == Idle \cup Entering \cup {"working"} \cup Reporting \cup Resetting

TypeOK ==
  /\ state \in {"closed", "open", "half_open"}
  /\ failure_count \in Nat
  /\ success_count \in Nat
  /\ age \in Ages
  /\ half_open_permits \in Nat
  /\ pc \in [Clients -> PCs]
  /\ seen_age \in [Clients -> Ages]
  /\ seen_permits \in [Clients -> Nat]
  /\ verdict \in [Clients -> Verdicts]
  /\ holds \in [Clients -> BOOLEAN]
  /\ raced \in BOOLEAN

Init ==
  /\ state = "closed"
  /\ failure_count = 0
  /\ success_count = 0
  /\ age = Never
  /\ half_open_permits = 0
  /\ pc = [c \in Clients |-> "idle"]
  /\ seen_age = [c \in Clients |-> Never]
  /\ seen_permits = [c \in Clients |-> 0]
  /\ verdict = [c \in Clients |-> "success"]
  /\ holds = [c \in Clients |-> FALSE]
  /\ raced = FALSE

Goto(c, to) == pc' = [pc EXCEPT ![c] = to]
Step(c, from, to) == pc[c] = from /\ Goto(c, to)

-----------------------------------------------------------------------------
(* is_open *)

\* Top of the loop: the state decides which branch is taken.
LoadState(c) ==
  /\ pc[c] \in {"idle", "retry"}
  /\ \/ state = "closed"    /\ Goto(c, "working")
     \/ state = "open"      /\ Goto(c, "load_failure")
     \/ state = "half_open" /\ Goto(c, "load_permits")
  /\ UNCHANGED <<shared, locals, history>>

LoadFailure(c) ==
  /\ Step(c, "load_failure", "check_timeout")
  /\ seen_age' = [seen_age EXCEPT ![c] = age]
  /\ UNCHANGED <<shared, seen_permits, verdict, history>>

\* Rejected while the recovery timeout runs, or when last_failure_ms is 0.
CheckTimeout(c) ==
  /\ Step(c, "check_timeout",
          IF seen_age[c] # Never /\ seen_age[c] >= RecoveryTimeout THEN "cas_half_open" ELSE "idle")
  /\ seen_age' = [seen_age EXCEPT ![c] = Never]
  /\ UNCHANGED <<shared, seen_permits, verdict, history>>

CasHalfOpen(c) ==
  /\ \/ /\ state = "open"
        /\ Step(c, "cas_half_open", "clear_successes")
        /\ state' = "half_open"
     \/ /\ state # "open"
        /\ Step(c, "cas_half_open", "retry")
        /\ UNCHANGED state
  /\ UNCHANGED <<failure_count, success_count, age, half_open_permits, locals, history>>

ClearSuccesses(c) ==
  /\ Step(c, "clear_successes", "clear_permits")
  /\ success_count' = 0
  /\ UNCHANGED <<state, failure_count, age, half_open_permits, locals, history>>

\* Variant of ClearPermits: the permits of an earlier half-open period survive.
ClearPermitsForgotten(c) ==
  /\ Step(c, "clear_permits", "retry")
  /\ UNCHANGED <<shared, locals, history>>

ClearPermits(c) ==
  /\ Step(c, "clear_permits", "retry")
  /\ half_open_permits' = 0
  /\ UNCHANGED <<state, failure_count, success_count, age, locals, history>>

\* Rejected when every permit is taken.
LoadPermits(c) ==
  /\ Step(c, "load_permits",
          IF half_open_permits >= MaxHalfOpenPermits THEN "idle" ELSE "cas_permits")
  /\ seen_permits' = [seen_permits EXCEPT ![c] = half_open_permits]
  /\ UNCHANGED <<shared, seen_age, verdict, history>>

\* Variant of CasPermits: an unconditional fetch_add.
CasPermitsBlind(c) ==
  /\ Step(c, "cas_permits", "working")
  /\ half_open_permits' = half_open_permits + 1
  /\ holds' = [holds EXCEPT ![c] = TRUE]
  /\ UNCHANGED <<state, failure_count, success_count, age, locals, raced>>

CasPermits(c) ==
  /\ \/ /\ half_open_permits = seen_permits[c]
        /\ Step(c, "cas_permits", "working")
        /\ half_open_permits' = seen_permits[c] + 1
        /\ holds' = [holds EXCEPT ![c] = TRUE]
     \/ /\ half_open_permits # seen_permits[c]
        /\ Step(c, "cas_permits", "retry")
        /\ UNCHANGED <<half_open_permits, holds>>
  /\ UNCHANGED <<state, failure_count, success_count, age, locals, raced>>

-----------------------------------------------------------------------------
(* record_success, record_failure and release_permit.  The history variable *)
(* holds is cleared where the client has given its permit back, or has      *)
(* learnt that the half-open period it was admitted to is over.             *)

Drop(c) == holds' = [holds EXCEPT ![c] = FALSE]

\* The call's first load of the state.  release_permit alone does not look at it.
Report(c, v) ==
  /\ pc[c] = "working"
  /\ \/ /\ v = "abandon" \/ state = "half_open"
        /\ Goto(c, "release_state")
        /\ UNCHANGED holds
     \/ /\ v # "abandon" /\ state = "closed"
        /\ Goto(c, IF v = "success" THEN "forget_failures" ELSE "count_failure")
        /\ Drop(c)
     \/ /\ v # "abandon" /\ state = "open"
        /\ Goto(c, "idle")
        /\ Drop(c)
  /\ verdict' = [verdict EXCEPT ![c] = v]
  /\ UNCHANGED <<shared, seen_age, seen_permits, raced>>

\* Where release_permit returns to.
Released(c) ==
  IF verdict[c] = "success" THEN "count_success"
  ELSE IF verdict[c] = "failure" THEN "stamp" ELSE "idle"

\* Variant of ReleaseState: a success does not give its permit back.
ReleaseStateSkipped(c) ==
  /\ Step(c, "release_state",
          IF state = "half_open" /\ verdict[c] # "success" THEN "release_load" ELSE Released(c))
  /\ UNCHANGED <<shared, locals, history>>

ReleaseState(c) ==
  /\ Step(c, "release_state", IF state = "half_open" THEN "release_load" ELSE Released(c))
  /\ IF state = "half_open" THEN UNCHANGED holds ELSE Drop(c)
  /\ UNCHANGED <<shared, locals, raced>>

\* Variant of ReleaseLoad: no test for a counter already at zero.
ReleaseLoadUnguarded(c) ==
  /\ Step(c, "release_load", "release_cas")
  /\ seen_permits' = [seen_permits EXCEPT ![c] = half_open_permits]
  /\ UNCHANGED <<shared, seen_age, verdict, history>>

ReleaseLoad(c) ==
  /\ Step(c, "release_load", IF half_open_permits = 0 THEN Released(c) ELSE "release_cas")
  /\ seen_permits' = [seen_permits EXCEPT ![c] = half_open_permits]
  /\ IF half_open_permits = 0 THEN Drop(c) ELSE UNCHANGED holds
  /\ UNCHANGED <<shared, seen_age, verdict, raced>>

ReleaseCas(c) ==
  /\ \/ /\ half_open_permits = seen_permits[c]
        /\ Step(c, "release_cas", Released(c))
        /\ half_open_permits' = seen_permits[c] - 1
        /\ Drop(c)
     \/ /\ half_open_permits # seen_permits[c]
        /\ Step(c, "release_cas", "release_load")
        /\ UNCHANGED <<half_open_permits, holds>>
  /\ UNCHANGED <<state, failure_count, success_count, age, locals, raced>>

CountSuccess(c) ==
  /\ Step(c, "count_success",
          IF success_count + 1 >= SuccessThreshold THEN "cas_closed" ELSE "idle")
  /\ success_count' = success_count + 1
  /\ UNCHANGED <<state, failure_count, age, half_open_permits, locals, history>>

\* Variant of CasClosed: a plain store.
StoreClosed(c) ==
  /\ Step(c, "cas_closed", "close_failures")
  /\ state' = "closed"
  /\ UNCHANGED <<failure_count, success_count, age, half_open_permits, locals, history>>

CasClosed(c) ==
  /\ \/ /\ state = "half_open"
        /\ Step(c, "cas_closed", "close_failures")
        /\ state' = "closed"
     \/ /\ state # "half_open"
        /\ Step(c, "cas_closed", "idle")
        /\ UNCHANGED state
  /\ UNCHANGED <<failure_count, success_count, age, half_open_permits, locals, history>>

\* failure_count = 0, on closing and on a success while closed.
ForgetFailures(c) ==
  /\ \/ Step(c, "close_failures", "close_permits")
     \/ Step(c, "forget_failures", "idle")
  /\ failure_count' = 0
  /\ UNCHANGED <<state, success_count, age, half_open_permits, locals, history>>

ClosePermits(c) ==
  /\ Step(c, "close_permits", "idle")
  /\ half_open_permits' = 0
  /\ UNCHANGED <<state, failure_count, success_count, age, locals, history>>

\* Variant of CountFailure: the threshold only sets the state.
CountFailureUnstamped(c) ==
  /\ Step(c, "count_failure",
          IF failure_count + 1 >= FailureThreshold THEN "swap_open" ELSE "idle")
  /\ failure_count' = failure_count + 1
  /\ UNCHANGED <<state, success_count, age, half_open_permits, locals, history>>

CountFailure(c) ==
  /\ Step(c, "count_failure",
          IF failure_count + 1 >= FailureThreshold THEN "stamp" ELSE "idle")
  /\ failure_count' = failure_count + 1
  /\ UNCHANGED <<state, success_count, age, half_open_permits, locals, history>>

(* open_circuit: the timestamp first, then the state. *)
Stamp(c) ==
  /\ Step(c, "stamp", "swap_open")
  /\ age' = 0
  /\ raced' = FALSE
  /\ UNCHANGED <<state, failure_count, success_count, half_open_permits, locals, holds>>

SwapOpen(c) ==
  /\ Step(c, "swap_open", "idle")
  /\ state' = "open"
  /\ UNCHANGED <<failure_count, success_count, age, half_open_permits, locals, history>>

-----------------------------------------------------------------------------
(* reset: five stores *)

ResetState(c) ==
  /\ c \in Resetters
  /\ Step(c, "idle", "reset_failures")
  /\ state' = "closed"
  /\ UNCHANGED <<failure_count, success_count, age, half_open_permits, locals, history>>

ResetFailures(c) ==
  /\ Step(c, "reset_failures", "reset_successes")
  /\ failure_count' = 0
  /\ UNCHANGED <<state, success_count, age, half_open_permits, locals, history>>

ResetSuccesses(c) ==
  /\ Step(c, "reset_successes", "reset_time")
  /\ success_count' = 0
  /\ UNCHANGED <<state, failure_count, age, half_open_permits, locals, history>>

ResetTime(c) ==
  /\ Step(c, "reset_time", "reset_permits")
  /\ age' = Never
  /\ raced' = (state = "open" \/ \E d \in Clients : pc[d] = "swap_open")
  /\ UNCHANGED <<state, failure_count, success_count, half_open_permits, locals, holds>>

ResetPermits(c) ==
  /\ Step(c, "reset_permits", "idle")
  /\ half_open_permits' = 0
  /\ UNCHANGED <<state, failure_count, success_count, age, locals, history>>

-----------------------------------------------------------------------------
Older(a) == IF a \in 0..(RecoveryTimeout - 1) THEN a + 1 ELSE a

\* The wall clock moves on: every timestamp gets older.
Tick ==
  /\ age' = Older(age)
  /\ seen_age' = [c \in Clients |-> Older(seen_age[c])]
  /\ <<age', seen_age'>> # <<age, seen_age>>
  /\ UNCHANGED <<state, failure_count, success_count, half_open_permits, pc, seen_permits,
                 verdict, history>>

IsOpen(c) ==
  \/ LoadState(c)      \/ LoadFailure(c)    \/ CheckTimeout(c) \/ CasHalfOpen(c)
  \/ ClearSuccesses(c) \/ ClearPermits(c)   \/ LoadPermits(c)  \/ CasPermits(c)

Record(c) ==
  \/ ReleaseState(c) \/ ReleaseLoad(c)    \/ ReleaseCas(c)
  \/ CountSuccess(c) \/ CasClosed(c)      \/ ForgetFailures(c) \/ ClosePermits(c)
  \/ CountFailure(c) \/ Stamp(c)          \/ SwapOpen(c)

Reset(c) ==
  \/ ResetState(c) \/ ResetFailures(c) \/ ResetSuccesses(c) \/ ResetTime(c) \/ ResetPermits(c)

Next ==
  \/ Tick
  \/ \E c \in Clients : IsOpen(c) \/ Record(c) \/ Reset(c) \/ \E v \in Verdicts : Report(c, v)

Spec == Init /\ [][Next]_vars

\* The clients are polling loops: each keeps calling, finishes every call and
\* reports on every admission, and the clock moves on.
Fairness ==
  /\ WF_vars(Tick)
  /\ \A c \in Clients :
       WF_vars(IsOpen(c) \/ Record(c) \/ Reset(c) \/ \E v \in Verdicts : Report(c, v))

FairSpec == Spec /\ Fairness

-----------------------------------------------------------------------------
(* Properties *)

\* However the calls interleave, the permit counter never exceeds the limit:
\* the check and the increment of is_open are tied by the compare_exchange.
PermitsBounded == half_open_permits <= MaxHalfOpenPermits

\* A permit is not lost: once nobody is in a call and nobody works, a half-open
\* breaker has every permit free, so the next is_open is admitted.  (A lost
\* permit would reject every request for ever: nothing times out half-open.)
QuiescentPermits ==
  state = "half_open" /\ (\A c \in Clients : pc[c] = "idle") => half_open_permits = 0

\* The accounting behind it, inductive: outside the window in which is_open clears
\* the counters, a half-open breaker counts at most one permit per holder.
Holders  == {c \in Clients : holds[c]}
Clearing == {c \in Clients : pc[c] \in {"clear_successes", "clear_permits"}}

PermitsHeld == state = "half_open" /\ Clearing = {} => half_open_permits <= Cardinality(Holders)

\* What the loaded copies and the history say of each client.
ClientInv(c) ==
  /\ pc[c] = "cas_permits" => seen_permits[c] < MaxHalfOpenPermits
  /\ pc[c] = "release_cas" => seen_permits[c] > 0
  /\ pc[c] = "swap_open" /\ ~raced => age # Never
  /\ holds[c] => pc[c] \in {"working"} \cup Releasing

\* An open circuit carries the timestamp is_open needs to leave it
\* (open_circuit stores it before the state), unless a reset overlapped.
OpenIsStamped == state = "open" /\ ~raced => age # Never

\* Closed -> Open -> HalfOpen -> Closed: besides reset, no interleaving takes an
\* open circuit straight to closed, or a closed one to half-open.
LegalTransition ==
  \/ state = state'
  \/ state' = "open"
  \/ state = "open" /\ state' = "half_open"
  \/ state = "half_open" /\ state' = "closed"
  \/ \E c \in Clients : ResetState(c)

LegalTransitions == [][LegalTransition]_vars

\* The inductive invariant: what the proofs establish at every step.
BreakerInv ==
  /\ TypeOK
  /\ PermitsBounded
  /\ PermitsHeld
  /\ OpenIsStamped
  /\ \A c \in Clients : ClientInv(c)

\* In half-open state only a limited number of requests are in flight.
HalfOpenLimit ==
  state = "half_open" => Cardinality(Holders) <= MaxHalfOpenPermits

\* An open circuit is probed again once the recovery timeout has passed, if
\* clients keep calling, unless a reset erased its timestamp.
OpenIsProbed == state = "open" /\ ~raced ~> state # "open" \/ raced

\* Once the service answers every admitted request, the circuit ends up closed.
Recovers ==
  (<>[][\A c \in Clients : ~Report(c, "failure") /\ ~Report(c, "abandon")]_vars)
    => <>[](state = "closed" \/ raced)

\* No circuit stays open for ever: both of the above.
Comeback == OpenIsProbed /\ Recovers
=============================================================================
