-------------------------- MODULE ParallelExecutor --------------------------
(* The executor of parallel branches (src/src/scripting/parallel.rs): one  *)
(* task per branch, a channel on which each task sends its result, and a   *)
(* collector that waits for all of them, or for the first success, until   *)
(* its deadline.                                                           *)
(*                                                                         *)
(* Tasks run on several threads.  A branch's actions are its number; each  *)
(* succeeds, fails or panics, or never ends.                               *)
EXTENDS Naturals, Sequences, FiniteSets

CONSTANTS
  Divergences,      \* the divergences that may be executed
  MaxConcurrent,    \* max_concurrent
  DefaultTimeout,   \* default_timeout_ms, in clock ticks
  None,             \* no timeout given
  MaxClock          \* bound of the model: the clock

Timeout == Nat \cup {None}

Branch == [actions: Nat, timeout: Timeout]

SyncType == {"and", "or", "all_settled"}

Divergence == [branches: Seq(Branch), sync_type: SyncType, timeout: Timeout]

ASSUME ExecutorAssumption ==
  /\ Divergences \subseteq Divergence
  /\ MaxConcurrent \in Nat \ {0}
  /\ DefaultTimeout \in Nat
  /\ None \notin Nat
  /\ MaxClock \in Nat

VARIABLES
  divergence,
  collector,   \* "waiting" for results or "returned"
  phase,       \* where each branch's task is
  left,        \* actions each branch has still to do
  failed,      \* branches with a failed action
  started,     \* when each branch's task began
  channel,     \* results sent and not received
  results,     \* results received
  aborted,     \* branches whose handle was aborted
  panicked,    \* history: branches that panicked
  now

vars == <<divergence, collector, phase, left, failed, started, channel, results,
          aborted, panicked, now>>

-----------------------------------------------------------------------------
Or(timeout, other) == IF timeout = None THEN other ELSE timeout

(* Only the first max_concurrent branches get a task.                      *)
Spawned(d) ==
  {b \in DOMAIN d.branches : b <= MaxConcurrent}

Tasks == Spawned(divergence)

BranchTimeout(b) ==
  Or(divergence.branches[b].timeout, Or(divergence.timeout, DefaultTimeout))

Deadline == Or(divergence.timeout, DefaultTimeout)

Result == [branch: Nat, verdict: {"success", "failure", "timeout"}]

Reported(b) == \E i \in DOMAIN results : results[i].branch = b

Gone(b) == phase[b] = "gone"

(* ParallelResult::is_success                                              *)
IsSuccess ==
  LET succeeded(i) == results[i].verdict = "success" IN
  \/ divergence.sync_type = "and" /\ \A i \in DOMAIN results : succeeded(i)
  \/ divergence.sync_type = "or"  /\ \E i \in DOMAIN results : succeeded(i)
  \/ divergence.sync_type = "all_settled"

-----------------------------------------------------------------------------
(* Without branches execute returns at once.                               *)
Init ==
  /\ divergence \in Divergences
  /\ collector = IF divergence.branches = <<>> THEN "returned" ELSE "waiting"
  /\ phase = [b \in Tasks |-> "spawned"]
  /\ left = [b \in Tasks |-> divergence.branches[b].actions]
  /\ failed = {}
  /\ started = [b \in Tasks |-> 0]
  /\ channel = <<>> /\ results = <<>>
  /\ aborted = {} /\ panicked = {}
  /\ now = 0

Goto(b, to) == phase' = [phase EXCEPT ![b] = to]

(* The task is polled for the first time.                                  *)
Start(b) ==
  /\ phase[b] = "spawned"
  /\ Goto(b, "checking")
  /\ started' = [started EXCEPT ![b] = now]
  /\ UNCHANGED <<divergence, collector, left, failed, channel, results, aborted, panicked, now>>

(* A branch ends when its list or, before an action, its time is over.     *)
Verdict(b) ==
  IF left[b] > 0 THEN "timeout"
  ELSE IF b \in failed THEN "failure" ELSE "success"

(* Variant of Check: whether an action is left is not looked at.           *)
CheckUnguarded(b) ==
  /\ phase[b] = "checking"
  /\ IF now < started[b] + BranchTimeout(b)
     THEN /\ Goto(b, "acting")
          /\ UNCHANGED channel
     ELSE /\ Goto(b, "gone")
          /\ channel' = Append(channel, [branch |-> b, verdict |-> Verdict(b)])
  /\ UNCHANGED <<divergence, collector, left, failed, started, results, aborted, panicked, now>>

(* The top of the loop: the next action, or the result is sent.  The       *)
(* channel has room for every result; when the receiver is gone the error  *)
(* is ignored.                                                             *)
Check(b) ==
  /\ phase[b] = "checking"
  /\ IF left[b] > 0 /\ now < started[b] + BranchTimeout(b)
     THEN /\ Goto(b, "acting")
          /\ UNCHANGED channel
     ELSE /\ Goto(b, "gone")
          /\ channel' = IF collector = "waiting"
                        THEN Append(channel, [branch |-> b, verdict |-> Verdict(b)])
                        ELSE channel
  /\ UNCHANGED <<divergence, collector, left, failed, started, results, aborted, panicked, now>>

(* An action of the branch comes to its end.                               *)
Act(b) ==
  /\ phase[b] = "acting"
  /\ \/ /\ Goto(b, "checking")
        /\ left' = [left EXCEPT ![b] = @ - 1]
        /\ failed' \in {failed, failed \cup {b}}
        /\ UNCHANGED panicked
     \/ /\ Goto(b, "gone")
        /\ panicked' = panicked \cup {b}
        /\ UNCHANGED <<left, failed>>
  /\ UNCHANGED <<divergence, collector, started, channel, results, aborted, now>>

(* An aborted task is dropped where it would be polled again; one that is  *)
(* being polled runs on to its next await.                                 *)
Drop(b) ==
  /\ b \in aborted
  /\ phase[b] \in {"spawned", "acting"}
  /\ Goto(b, "gone")
  /\ UNCHANGED <<divergence, collector, left, failed, started, channel, results, aborted,
                 panicked, now>>

-----------------------------------------------------------------------------
(* Variant of Receive: with "and" a failure, which decides it, ends the    *)
(* wait.                                                                   *)
ReceiveFailFast ==
  /\ collector = "waiting" /\ channel # <<>>
  /\ results' = Append(results, Head(channel))
  /\ channel' = Tail(channel)
  /\ IF \/ divergence.sync_type = "or" /\ Head(channel).verdict = "success"
        \/ divergence.sync_type = "and" /\ Head(channel).verdict = "failure"
     THEN collector' = "returned" /\ aborted' = Tasks
     ELSE UNCHANGED <<collector, aborted>>
  /\ UNCHANGED <<divergence, phase, left, failed, started, panicked, now>>

(* timeout_at looks at the channel before it looks at the clock.  With     *)
(* "or" the first success ends the wait and aborts the others.             *)
Receive ==
  /\ collector = "waiting" /\ channel # <<>>
  /\ results' = Append(results, Head(channel))
  /\ channel' = Tail(channel)
  /\ IF divergence.sync_type = "or" /\ Head(channel).verdict = "success"
     THEN collector' = "returned" /\ aborted' = Tasks
     ELSE UNCHANGED <<collector, aborted>>
  /\ UNCHANGED <<divergence, phase, left, failed, started, panicked, now>>

(* Every sender is gone: the channel is closed.                            *)
Closed ==
  /\ collector = "waiting" /\ channel = <<>>
  /\ \A b \in Tasks : Gone(b)
  /\ collector' = "returned"
  /\ aborted' = IF divergence.sync_type # "or" /\ Len(results) < Cardinality(Tasks)
                THEN Tasks ELSE aborted
  /\ UNCHANGED <<divergence, phase, left, failed, started, channel, results, panicked, now>>

(* Variant of Expire: the tasks are left running.                          *)
ExpireDetached ==
  /\ collector = "waiting" /\ channel = <<>>
  /\ \E b \in Tasks : ~Gone(b)
  /\ now >= Deadline
  /\ collector' = "returned"
  /\ UNCHANGED <<divergence, phase, left, failed, started, channel, results, aborted, panicked, now>>

(* Variant of Expire: only after a first result.                           *)
ExpirePartly ==
  /\ collector = "waiting" /\ channel = <<>> /\ results # <<>>
  /\ \E b \in Tasks : ~Gone(b)
  /\ now >= Deadline
  /\ collector' = "returned"
  /\ aborted' = Tasks
  /\ UNCHANGED <<divergence, phase, left, failed, started, channel, results, panicked, now>>

(* The deadline of the whole; with "or" nothing is aborted.                *)
Expire ==
  /\ collector = "waiting" /\ channel = <<>>
  /\ \E b \in Tasks : ~Gone(b)
  /\ now >= Deadline
  /\ collector' = "returned"
  /\ aborted' = IF divergence.sync_type # "or" /\ Len(results) < Cardinality(Tasks)
                THEN Tasks ELSE aborted
  /\ UNCHANGED <<divergence, phase, left, failed, started, channel, results, panicked, now>>

Tick ==
  /\ now < MaxClock
  /\ now' = now + 1
  /\ UNCHANGED <<divergence, collector, phase, left, failed, started, channel, results,
                 aborted, panicked>>

Collect == Receive \/ Closed \/ Expire

Next ==
  \/ Collect \/ Tick
  \/ \E b \in Tasks : Start(b) \/ Check(b) \/ Act(b) \/ Drop(b)

Spec == Init /\ [][Next]_vars

(* The runtime polls tasks that can run and drops those that were aborted, *)
(* and time passes.  Nothing makes an action come to an end.               *)
FairSpec ==
  /\ Spec
  /\ WF_vars(Collect) /\ WF_vars(Tick)
  /\ \A b \in 1..MaxConcurrent :
       WF_vars(b \in Tasks /\ (Start(b) \/ Check(b) \/ Drop(b)))

-----------------------------------------------------------------------------
TypeOK ==
  /\ divergence \in Divergences
  /\ collector \in {"waiting", "returned"}
  /\ phase \in [Tasks -> {"spawned", "checking", "acting", "gone"}]
  /\ left \in [Tasks -> Nat]
  /\ started \in [Tasks -> 0..MaxClock]
  /\ channel \in Seq(Result) /\ results \in Seq(Result)
  /\ failed \subseteq Tasks /\ aborted \subseteq Tasks /\ panicked \subseteq Tasks
  /\ now \in 0..MaxClock

(* A result says what its branch did, once: success only if it did all its *)
(* actions and none of them failed; the channel and the collector never    *)
(* have two of one branch.                                                 *)
EachIsTrue ==
  LET all == channel \o results IN
  /\ \A i, j \in DOMAIN all : all[i].branch = all[j].branch => i = j
  /\ \A i \in DOMAIN all :
       LET b == all[i].branch IN
       /\ all[i].verdict = "success" <=> left[b] = 0 /\ b \notin failed
       /\ all[i].verdict = "timeout" <=> left[b] > 0

(* execute returns before its deadline only when every task has reported   *)
(* or panicked or, with "or", with a result in hand, of which none but the *)
(* last is a success.  Which result ends the wait of an "or" is left open: *)
(* the code takes the first success, its documents the first to complete   *)
(* (FirstCompletes).                                                       *)
WaitsForAll ==
  collector = "returned" =>
    \/ now >= Deadline
    \/ \A b \in Tasks : Reported(b) \/ b \in panicked
    \/ /\ divergence.sync_type = "or"
       /\ results # <<>>
       /\ \A i \in DOMAIN results : results[i].verdict = "success" => i = Len(results)

(* The results are true, each of them and as a whole.                      *)
ResultsAreTrue == EachIsTrue /\ WaitsForAll

(* With "and" success means that every branch has succeeded (the comment   *)
(* of SyncType::And: "All branches must complete before continuing").      *)
AndMeansAll ==
  collector = "returned" /\ divergence.sync_type = "and" /\ IsSuccess =>
    \A b \in DOMAIN divergence.branches : Reported(b)

(* With "or" the first branch to complete ends the wait (the head of       *)
(* parallel.rs: "OR synchronization (first branch to complete)"; SyncType: *)
(* "First branch to complete allows continuation").                        *)
FirstCompletes ==
  divergence.sync_type = "or" /\ (\E i \in DOMAIN results : results[i].verdict # "timeout")
    => collector = "returned"

(* execute returns, even when an action never ends.                        *)
Returns == <>(collector = "returned")

(* After it has returned no branch runs on, even one whose action never    *)
(* ends; except after an "or" that nobody won in time.                     *)
Settles ==
  collector = "returned" /\ (divergence.sync_type = "or" => IsSuccess)
    ~> \A b \in Tasks : Gone(b)
=============================================================================
