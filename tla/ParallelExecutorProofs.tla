----------------------- MODULE ParallelExecutorProofs -----------------------
(***************************************************************************)
(* Proofs about ParallelExecutor for any divergences, limits and clocks:   *)
(* ExecutorInv is inductive, and what execute returns is true.             *)
(***************************************************************************)
EXTENDS ParallelExecutor, SequenceTheorems, TLAPS

(* What a result says of its branch, which has come to its end.            *)
Honest(r) ==
  LET b == r.branch IN
  /\ b \in Tasks /\ Gone(b)
  /\ r.verdict = "success" <=> left[b] = 0 /\ b \notin failed
  /\ r.verdict = "timeout" <=> left[b] > 0

Distinct(s) == \A i, j \in DOMAIN s : s[i].branch = s[j].branch => i = j

(* No branch has two results, sent or received.                            *)
HonestOnce ==
  /\ \A i \in DOMAIN channel : Honest(channel[i])
  /\ \A i \in DOMAIN results : Honest(results[i])
  /\ Distinct(channel) /\ Distinct(results)
  /\ \A i \in DOMAIN channel, j \in DOMAIN results : channel[i].branch # results[j].branch

Underway(b) == \E i \in DOMAIN channel : channel[i].branch = b

(* While the collector waits, a branch that is gone has sent its result or *)
(* panicked, and with "or" none that was received is a success.            *)
Accounted ==
  collector = "waiting" =>
    /\ aborted = {}
    /\ \A b \in Tasks : Gone(b) => Underway(b) \/ Reported(b) \/ b \in panicked
    /\ divergence.sync_type = "or" =>
         \A i \in DOMAIN results : results[i].verdict # "success"

ActsOnWhatIsLeft == \A b \in Tasks : phase[b] = "acting" => left[b] > 0

ExecutorInv == TypeOK /\ ActsOnWhatIsLeft /\ HonestOnce /\ Accounted /\ WaitsForAll

-----------------------------------------------------------------------------
\* Deadlines are times.
LEMMA DeadlineIsTime == TypeOK => Deadline \in Nat
BY ExecutorAssumption DEF TypeOK, Deadline, Or, Divergence, Timeout

\* What a branch that has ended leaves behind does not change.
LEMMA GoneForGood ==
  ASSUME TypeOK, [Next]_vars
  PROVE  /\ divergence' = divergence /\ Tasks' = Tasks
         /\ \A b \in Tasks : Gone(b) =>
              Gone(b)' /\ left'[b] = left[b] /\ (b \in failed' <=> b \in failed)
<1>1. divergence' = divergence
  BY DEF Next, Collect, Receive, Closed, Expire, Tick, Start, Check, Act, Drop, vars
<1>2. Tasks' = Tasks
  BY <1>1 DEF Tasks
<1>3. ASSUME NEW b \in Tasks, Gone(b), NEW c \in Tasks,
             Start(c) \/ Check(c) \/ Act(c) \/ Drop(c)
      PROVE  Gone(b)' /\ left'[b] = left[b] /\ (b \in failed' <=> b \in failed)
  <2>1. phase[c] # "gone"
    BY <1>3 DEF Start, Check, Act, Drop
  <2>2. b # c
    BY <1>3, <2>1 DEF Gone
  <2>3. \E to : phase' = [phase EXCEPT ![c] = to]
    BY <1>3 DEF Start, Check, Act, Drop, Goto
  <2>4. Gone(b)'
    BY <1>3, <2>2, <2>3 DEF Gone, TypeOK
  <2>5. left'[b] = left[b]
    BY <1>3, <2>2 DEF Start, Check, Act, Drop, TypeOK
  <2>6. b \in failed' <=> b \in failed
    BY <1>3, <2>2 DEF Start, Check, Act, Drop
  <2>7. QED BY <2>4, <2>5, <2>6
<1>4. CASE Collect \/ Tick \/ UNCHANGED vars
  <2>1. UNCHANGED <<divergence, phase, left, failed>>
    BY <1>4 DEF Collect, Receive, Closed, Expire, Tick, vars
  <2>2. QED BY <1>1, <1>2, <2>1 DEF Gone
<1>5. QED BY <1>1, <1>2, <1>3, <1>4 DEF Next

LEMMA StaysHonest ==
  ASSUME TypeOK, [Next]_vars, NEW r, Honest(r)
  PROVE  Honest(r)'
BY GoneForGood DEF Honest

LEMMA ResultType ==
  ASSUME TypeOK, NEW b \in Tasks
  PROVE  [branch |-> b, verdict |-> Verdict(b)] \in Result
<1>1. divergence.branches \in Seq(Branch)
  BY ExecutorAssumption DEF TypeOK, Divergence
<1>2. DOMAIN divergence.branches = 1..Len(divergence.branches)
      /\ Len(divergence.branches) \in Nat
  BY <1>1, LenProperties
<1>3. b \in Nat
  BY <1>2 DEF Tasks, Spawned
<1>4. Verdict(b) \in {"success", "failure", "timeout"}
  BY DEF Verdict
<1>5. QED BY <1>3, <1>4 DEF Result

LEMMA TypeStep == TypeOK /\ ActsOnWhatIsLeft /\ [Next]_vars => TypeOK' /\ ActsOnWhatIsLeft'
<1> SUFFICES ASSUME TypeOK, ActsOnWhatIsLeft, [Next]_vars
             PROVE  TypeOK' /\ ActsOnWhatIsLeft'
  OBVIOUS
<1> USE DEF TypeOK, ActsOnWhatIsLeft
<1>0. divergence' = divergence /\ Tasks' = Tasks
  BY GoneForGood
<1>1. CASE Receive
  <2>1. Head(channel) \in Result /\ Tail(channel) \in Seq(Result)
    BY <1>1, HeadTailProperties DEF Receive
  <2>2. Append(results, Head(channel)) \in Seq(Result)
    BY <2>1, AppendProperties
  <2>3. QED BY <1>0, <1>1, <2>1, <2>2 DEF Receive
<1>2. CASE Closed \/ Expire
  BY <1>0, <1>2 DEF Closed, Expire
<1>3. CASE Tick
  BY <1>0, <1>3, ExecutorAssumption DEF Tick
<1>4. ASSUME NEW b \in Tasks, Start(b)
      PROVE  TypeOK' /\ ActsOnWhatIsLeft'
  BY <1>0, <1>4 DEF Start, Goto
<1>5. ASSUME NEW b \in Tasks, Check(b)
      PROVE  TypeOK' /\ ActsOnWhatIsLeft'
  <2>1. [branch |-> b, verdict |-> Verdict(b)] \in Result
    BY ResultType
  <2>2. channel' \in Seq(Result)
    <3>1. PICK r \in Result : channel' = channel \/ channel' = Append(channel, r)
      BY <1>5, <2>1 DEF Check
    <3>2. channel \in Seq(Result) /\ Append(channel, r) \in Seq(Result)
      BY AppendProperties
    <3>3. QED BY <3>1, <3>2
  <2>3. QED BY <1>0, <1>5, <2>2 DEF Check, Goto
<1>6. ASSUME NEW b \in Tasks, Act(b)
      PROVE  TypeOK' /\ ActsOnWhatIsLeft'
  <2>1. /\ phase' \in [Tasks -> {"spawned", "checking", "acting", "gone"}]
        /\ \A c \in Tasks : phase'[c] = "acting" => c # b /\ phase[c] = "acting"
    BY <1>6 DEF Act, Goto
  <2>2. /\ left' \in [Tasks -> Nat]
        /\ \A c \in Tasks \ {b} : left'[c] = left[c]
    <3>1. left[b] \in Nat /\ left[b] - 1 \in Nat
      BY <1>6 DEF Act
    <3>2. left' = left \/ left' = [left EXCEPT ![b] = left[b] - 1]
      BY <1>6 DEF Act
    <3>3. QED BY <3>1, <3>2
  <2>3. failed' \subseteq Tasks /\ panicked' \subseteq Tasks
    BY <1>6 DEF Act
  <2>4. QED BY <1>0, <1>6, <2>1, <2>2, <2>3 DEF Act
<1>7. ASSUME NEW b \in Tasks, Drop(b)
      PROVE  TypeOK' /\ ActsOnWhatIsLeft'
  BY <1>0, <1>7 DEF Drop, Goto
<1>8. CASE UNCHANGED vars
  BY <1>0, <1>8 DEF vars
<1>9. QED BY <1>1, <1>2, <1>3, <1>4, <1>5, <1>6, <1>7, <1>8 DEF Next, Collect

\* The collector takes the oldest result; the others move up.
LEMMA Received ==
  ASSUME TypeOK, Receive
  PROVE  /\ Len(channel) \in Nat /\ Len(channel') \in Nat /\ Len(channel) = Len(channel') + 1
         /\ DOMAIN channel = 1..Len(channel) /\ DOMAIN channel' = 1..Len(channel')
         /\ \A i \in 1..Len(channel') : channel'[i] = channel[i + 1]
         /\ Head(channel) = channel[1]
         /\ Len(results) \in Nat /\ DOMAIN results = 1..Len(results)
         /\ DOMAIN results' = 1..(Len(results) + 1) /\ Len(results') = Len(results) + 1
         /\ \A i \in 1..Len(results) : results'[i] = results[i]
         /\ results'[Len(results) + 1] = channel[1]
<1>1. channel \in Seq(Result) /\ results \in Seq(Result) /\ channel # <<>>
      /\ channel' = Tail(channel) /\ results' = Append(results, Head(channel))
  BY DEF TypeOK, Receive
<1>2. /\ Head(channel) \in Result /\ Head(channel) = channel[1]
      /\ Tail(channel) \in Seq(Result) /\ Len(Tail(channel)) = Len(channel) - 1
      /\ \A i \in 1..Len(Tail(channel)) : Tail(channel)[i] = channel[i + 1]
  BY <1>1, HeadTailProperties
<1>3. /\ Append(results, Head(channel)) \in Seq(Result)
      /\ Len(Append(results, Head(channel))) = Len(results) + 1
      /\ \A i \in 1..Len(results) : Append(results, Head(channel))[i] = results[i]
      /\ Append(results, Head(channel))[Len(results) + 1] = Head(channel)
  BY <1>1, <1>2, AppendProperties
<1>4. /\ Len(channel) \in Nat /\ DOMAIN channel = 1..Len(channel)
      /\ Len(results) \in Nat /\ DOMAIN results = 1..Len(results)
      /\ Len(channel') \in Nat /\ DOMAIN channel' = 1..Len(channel')
      /\ DOMAIN results' = 1..Len(results')
  BY <1>1, <1>2, <1>3, LenProperties
<1>5. QED BY <1>1, <1>2, <1>3, <1>4

\* A branch that comes to its end sends one result behind the others.
LEMMA Sent ==
  ASSUME TypeOK, NEW b \in Tasks, Check(b), channel' # channel
  PROVE  /\ Len(channel) \in Nat /\ DOMAIN channel = 1..Len(channel)
         /\ DOMAIN channel' = 1..(Len(channel) + 1)
         /\ \A i \in 1..Len(channel) : channel'[i] = channel[i]
         /\ channel'[Len(channel) + 1].branch = b
         /\ channel'[Len(channel) + 1].verdict = Verdict(b)
         /\ phase[b] = "checking" /\ Gone(b)' /\ UNCHANGED <<left, failed, results>>
<1>1. phase[b] = "checking" /\ Gone(b)' /\ UNCHANGED <<left, failed, results>>
  BY DEF Check, Goto, Gone, TypeOK
<1>2. PICK r \in Result : r.branch = b /\ r.verdict = Verdict(b) /\ channel' = Append(channel, r)
  BY ResultType DEF Check
<1>3. channel \in Seq(Result)
  BY DEF TypeOK
<1>4. QED BY <1>1, <1>2, <1>3, AppendProperties, LenProperties

\* The channel and the results together never hold two results of a branch.
LEMMA HonestStep ==
  ASSUME TypeOK, HonestOnce, [Next]_vars
  PROVE  HonestOnce'
<1>0. TypeOK /\ \A r : Honest(r) => Honest(r)'
  BY StaysHonest
<1>1. CASE UNCHANGED <<channel, results>>
  BY <1>0, <1>1 DEF HonestOnce, Distinct
<1>2. CASE Receive
  <2>1. \A i \in DOMAIN channel' : i + 1 \in DOMAIN channel /\ channel'[i] = channel[i + 1]
    BY <1>2, Received
  <2>2. 1 \in DOMAIN channel /\ \A i \in DOMAIN channel' : i \in Nat /\ i + 1 # 1
    BY <1>2, Received
  <2>3. \A i \in DOMAIN results' :
          \/ i \in DOMAIN results /\ results'[i] = results[i]
          \/ i = Len(results) + 1 /\ results'[i] = channel[1]
    BY <1>2, Received
  <2>4. \A i \in DOMAIN channel' : Honest(channel[i])'
    BY <1>0, <2>1 DEF HonestOnce, Honest
  <2>5. \A i \in DOMAIN results' : Honest(results[i])'
    BY <1>0, <2>2, <2>3 DEF HonestOnce, Honest
  <2>6. Distinct(channel)'
    BY <2>1, <2>2 DEF HonestOnce, Distinct
  <2>7. Distinct(results)'
    BY <2>2, <2>3 DEF HonestOnce, Distinct
  <2>8. \A i \in DOMAIN channel', j \in DOMAIN results' : channel'[i].branch # results'[j].branch
    BY <2>1, <2>2, <2>3 DEF HonestOnce, Distinct
  <2>9. QED BY <2>4, <2>5, <2>6, <2>7, <2>8 DEF HonestOnce
<1>3. ASSUME NEW b \in Tasks, Check(b), channel' # channel
      PROVE  HonestOnce'
  <2>1. PICK r :
          /\ r.branch = b /\ r.verdict = Verdict(b)
          /\ \A i \in DOMAIN channel' :
               \/ i \in DOMAIN channel /\ channel'[i] = channel[i]
               \/ i = Len(channel) + 1 /\ channel'[i] = r
    <3>1. \A i \in DOMAIN channel' :
            (i \in DOMAIN channel /\ channel'[i] = channel[i]) \/ i = Len(channel) + 1
      BY <1>3, Sent
    <3>2. /\ channel'[Len(channel) + 1].branch = b
          /\ channel'[Len(channel) + 1].verdict = Verdict(b)
      BY <1>3, Sent
    <3>3. QED BY <3>1, <3>2
  <2>2. ~Gone(b) /\ Gone(b)' /\ UNCHANGED <<left, failed, results>> /\ Tasks' = Tasks
    BY <1>3, Sent, GoneForGood DEF Gone
  <2>3. Honest(r)'
    <3>1. left[b] \in Nat
      BY DEF TypeOK
    <3>2. QED BY <2>1, <2>2, <3>1 DEF Honest, Verdict
  <2>4. /\ \A i \in DOMAIN channel : channel[i].branch # r.branch
        /\ \A i \in DOMAIN results : results[i].branch # r.branch
    BY <2>1, <2>2 DEF HonestOnce, Honest
  <2>5. \A i \in DOMAIN channel' : Honest(channel[i])'
    BY <1>0, <2>1, <2>3 DEF HonestOnce, Honest
  <2>6. \A i \in DOMAIN results' : Honest(results[i])'
    BY <1>0, <2>2 DEF HonestOnce, Honest
  <2>7. Distinct(channel)' /\ Distinct(results)'
    BY <2>1, <2>2, <2>4 DEF HonestOnce, Distinct
  <2>8. \A i \in DOMAIN channel', j \in DOMAIN results' : channel'[i].branch # results'[j].branch
    BY <2>1, <2>2, <2>4 DEF HonestOnce
  <2>9. QED BY <2>5, <2>6, <2>7, <2>8 DEF HonestOnce
<1>4. ASSUME NEW b \in Tasks, Start(b) \/ Check(b) \/ Act(b) \/ Drop(b), channel' = channel
      PROVE  HonestOnce'
  BY <1>1, <1>4 DEF Start, Check, Act, Drop
<1>5. CASE Closed \/ Expire \/ Tick \/ UNCHANGED vars
  BY <1>1, <1>5 DEF Closed, Expire, Tick, vars
<1>6. ASSUME NEW b \in Tasks, Start(b) \/ Act(b) \/ Drop(b)
      PROVE  channel' = channel
  BY <1>6 DEF Start, Act, Drop
<1>7. QED BY <1>2, <1>3, <1>4, <1>5, <1>6 DEF Next, Collect

\* While the collector waits it loses track of no branch, and with "or" it
\* has no success yet.
LEMMA AccountedStep ==
  ASSUME TypeOK, Accounted, [Next]_vars
  PROVE  Accounted'
<1> SUFFICES ASSUME collector' = "waiting"
             PROVE  /\ aborted' = {}
                    /\ \A b \in Tasks : Gone(b)' =>
                         \/ \E i \in DOMAIN channel' : channel'[i].branch = b
                         \/ \E i \in DOMAIN results' : results'[i].branch = b
                         \/ b \in panicked'
                    /\ divergence.sync_type = "or" =>
                         \A i \in DOMAIN results' : results'[i].verdict # "success"
  BY GoneForGood DEF Accounted, Underway, Reported
<1>0. collector = "waiting"
  BY DEF TypeOK, Next, Collect, Receive, Closed, Expire, Tick, Start, Check, Act, Drop, vars
<1> USE <1>0
<1>1. CASE Receive
  <2>1. /\ \A i \in DOMAIN channel : i # 1 => i - 1 \in DOMAIN channel' /\ channel'[i - 1] = channel[i]
        /\ \A i \in DOMAIN results : i \in DOMAIN results' /\ results'[i] = results[i]
        /\ Len(results) + 1 \in DOMAIN results' /\ results'[Len(results) + 1] = channel[1]
        /\ \A i \in DOMAIN results' : i \in DOMAIN results \/ results'[i] = channel[1]
    BY <1>1, Received
  <2>2. /\ UNCHANGED <<phase, aborted, panicked>>
        /\ divergence.sync_type = "or" => channel[1].verdict # "success"
    BY <1>1, Received DEF Receive
  <2>3. ASSUME NEW b \in Tasks, Underway(b)
        PROVE  \/ \E i \in DOMAIN channel' : channel'[i].branch = b
               \/ \E i \in DOMAIN results' : results'[i].branch = b
    <3>1. PICK i \in DOMAIN channel : channel[i].branch = b
      BY <2>3 DEF Underway
    <3>2. QED BY <2>1, <3>1
  <2>4. ASSUME NEW b \in Tasks, Reported(b)
        PROVE  \E i \in DOMAIN results' : results'[i].branch = b
    BY <2>1, <2>4 DEF Reported
  <2>5. QED BY <2>1, <2>2, <2>3, <2>4 DEF Accounted, Gone
<1>2. ASSUME NEW c \in Tasks, Check(c)
      PROVE  /\ aborted' = {}
             /\ \A b \in Tasks : Gone(b)' =>
                  \/ \E i \in DOMAIN channel' : channel'[i].branch = b
                  \/ \E i \in DOMAIN results' : results'[i].branch = b
                  \/ b \in panicked'
             /\ divergence.sync_type = "or" =>
                  \A i \in DOMAIN results' : results'[i].verdict # "success"
  <2>1. UNCHANGED <<results, aborted, panicked>>
    BY <1>2 DEF Check
  <2>2. \A b \in Tasks \ {c} : Gone(b)' => Gone(b)
    BY <1>2 DEF Check, Goto, Gone, TypeOK
  <2>3. CASE channel' = channel
    <3>1. ~Gone(c)'
      <4>1. CASE left[c] > 0 /\ now < started[c] + BranchTimeout(c)
        BY <1>2, <4>1 DEF Check, Goto, Gone, TypeOK
      <4>2. CASE ~(left[c] > 0 /\ now < started[c] + BranchTimeout(c))
        <5>1. PICK r \in Result : channel' = Append(channel, r)
          BY <1>2, <4>2, ResultType DEF Check
        <5>2. channel \in Seq(Result)
          BY DEF TypeOK
        <5>3. QED BY <2>3, <5>1, <5>2, AppendProperties, LenProperties
      <4>3. QED BY <4>1, <4>2
    <3>2. QED BY <2>1, <2>2, <2>3, <3>1 DEF Accounted, Underway, Reported
  <2>4. CASE channel' # channel
    <3>1. /\ \A i \in DOMAIN channel : i \in DOMAIN channel' /\ channel'[i] = channel[i]
          /\ Len(channel) + 1 \in DOMAIN channel' /\ channel'[Len(channel) + 1].branch = c
      BY <1>2, <2>4, Sent
    <3>2. QED BY <2>1, <2>2, <3>1 DEF Accounted, Underway, Reported
  <2>5. QED BY <2>3, <2>4
<1>3. ASSUME NEW c \in Tasks, Act(c)
      PROVE  /\ UNCHANGED <<channel, results, aborted>> /\ panicked \subseteq panicked'
             /\ \A b \in Tasks : Gone(b)' => Gone(b) \/ b \in panicked'
  BY <1>3 DEF Act, Goto, Gone, TypeOK
<1>4. ASSUME NEW c \in Tasks, Start(c)
      PROVE  /\ UNCHANGED <<channel, results, aborted, panicked>>
             /\ \A b \in Tasks : Gone(b)' => Gone(b)
  BY <1>4 DEF Start, Goto, Gone, TypeOK
<1>5. CASE Tick \/ UNCHANGED vars
  <2>1. UNCHANGED <<channel, results, aborted, panicked, phase>>
    BY <1>5 DEF Tick, vars
  <2>2. QED BY <2>1 DEF Accounted, Underway, Reported, Gone
<1>6. ~Closed /\ ~Expire /\ \A c \in Tasks : ~Drop(c)
  BY DEF Closed, Expire, Drop, Accounted
<1>7. QED
  <2>1. CASE \E c \in Tasks : Act(c)
    BY <1>3, <2>1 DEF Accounted, Underway, Reported
  <2>2. CASE \E c \in Tasks : Start(c)
    BY <1>4, <2>2 DEF Accounted, Underway, Reported
  <2>3. QED BY <1>1, <1>2, <1>5, <1>6, <2>1, <2>2 DEF Next, Collect

\* execute does not return before its time.
LEMMA WaitsStep ==
  ASSUME TypeOK, Accounted, WaitsForAll, [Next]_vars
  PROVE  WaitsForAll'
<1>0. /\ Deadline' = Deadline /\ Deadline \in Nat
      /\ now \in Nat /\ now' \in Nat /\ now' >= now
      /\ Tasks' = Tasks /\ divergence' = divergence /\ panicked \subseteq panicked'
  <2>1. now \in Nat
    BY DEF TypeOK
  <2>2. (now' = now \/ now' = now + 1) /\ panicked \subseteq panicked'
    <3>1. CASE \E b \in Tasks : Start(b) \/ Check(b) \/ Act(b) \/ Drop(b)
      BY <3>1 DEF Start, Check, Act, Drop
    <3>2. CASE Collect \/ Tick \/ UNCHANGED vars
      BY <3>2 DEF Collect, Receive, Closed, Expire, Tick, vars
    <3>3. QED BY <3>1, <3>2 DEF Next
  <2>3. QED BY <2>1, <2>2, GoneForGood, DeadlineIsTime DEF Deadline
<1>1. CASE collector = "returned"
  <2>1. results' = results
    BY <1>1 DEF Next, Collect, Receive, Closed, Expire, Tick, Start, Check, Act, Drop, vars
  <2>2. QED BY <1>0, <1>1, <2>1 DEF WaitsForAll, Reported
<1>2. CASE collector = "waiting" /\ Receive /\ collector' = "returned"
  <2>1. divergence.sync_type = "or" /\ Head(channel).verdict = "success"
    BY <1>2 DEF Receive
  <2>2. /\ \A i \in DOMAIN results' :
             \/ i \in DOMAIN results /\ results'[i] = results[i] /\ i # Len(results')
             \/ i = Len(results') /\ results'[i].verdict = "success"
    BY <1>2, <2>1, Received
  <2>3. \A i \in DOMAIN results' : results'[i].verdict = "success" => i = Len(results')
    BY <1>2, <2>1, <2>2 DEF Accounted
  <2>4. results' # <<>>
    <3>1. results \in Seq(Result) /\ Head(channel) \in Result
      BY <1>2, HeadTailProperties DEF Receive, TypeOK
    <3>2. QED BY <1>2, <3>1, AppendProperties, EmptySeq DEF Receive
  <2>5. QED BY <1>0, <2>1, <2>3, <2>4 DEF WaitsForAll
<1>3. CASE collector = "waiting" /\ Closed
  <2>1. DOMAIN channel = {} /\ UNCHANGED <<results, panicked>> /\ \A b \in Tasks : Gone(b)
    BY <1>3 DEF Closed
  <2>2. \A b \in Tasks : Reported(b)' \/ b \in panicked'
    BY <1>3, <2>1 DEF Accounted, Underway, Reported
  <2>3. QED BY <1>0, <2>2 DEF WaitsForAll
<1>4. CASE collector = "waiting" /\ Expire
  BY <1>0, <1>4 DEF Expire, WaitsForAll
<1>5. CASE collector' = "waiting"
  BY <1>5 DEF WaitsForAll
<1>6. CASE Tick \/ UNCHANGED vars \/ \E b \in Tasks : Start(b) \/ Check(b) \/ Act(b) \/ Drop(b)
  <2>1. collector' = collector
    BY <1>6 DEF Tick, Start, Check, Act, Drop, vars
  <2>2. QED BY <1>1, <1>5, <2>1 DEF TypeOK
<1>7. QED
  <2>1. collector \in {"waiting", "returned"} /\ collector' \in {"waiting", "returned"}
    BY DEF TypeOK, Next, Collect, Receive, Closed, Expire, Tick, Start, Check, Act, Drop, vars
  <2>2. QED BY <1>1, <1>2, <1>3, <1>4, <1>5, <1>6, <2>1 DEF Next, Collect

-----------------------------------------------------------------------------
LEMMA InvInit == Init => ExecutorInv
<1> SUFFICES ASSUME Init PROVE ExecutorInv
  OBVIOUS
<1>1. /\ divergence \in Divergences /\ divergence.branches \in Seq(Branch)
      /\ DOMAIN divergence.branches = 1..Len(divergence.branches)
  <2>1. divergence \in Divergences /\ divergence.branches \in Seq(Branch)
    BY ExecutorAssumption DEF Init, Divergence
  <2>2. QED BY <2>1, LenProperties
<1>2. \A b \in Tasks : divergence.branches[b].actions \in Nat
  <2>1. ASSUME NEW b \in Tasks
        PROVE  divergence.branches[b] \in Branch
    BY <1>1, ElementOfSeq DEF Tasks, Spawned
  <2>2. QED BY <2>1 DEF Branch
<1>3. /\ channel = <<>> /\ results = <<>> /\ DOMAIN channel = {} /\ DOMAIN results = {}
      /\ <<>> \in Seq(Result)
  BY DEF Init
<1>4. TypeOK
  BY <1>1, <1>2, <1>3, ExecutorAssumption DEF Init, TypeOK
<1>5. ActsOnWhatIsLeft /\ \A b \in Tasks : ~Gone(b)
  BY DEF Init, ActsOnWhatIsLeft, Gone
<1>6. HonestOnce /\ Accounted
  BY <1>3, <1>5 DEF Init, HonestOnce, Distinct, Accounted
<1>7. WaitsForAll
  <2>1. collector = "returned" => Tasks = {}
    BY DEF Init, Tasks, Spawned
  <2>2. QED BY <2>1 DEF WaitsForAll
<1>8. QED BY <1>4, <1>5, <1>6, <1>7 DEF ExecutorInv

\* ExecutorInv holds in every reachable state.
THEOREM ExecutorInvariant == Spec => []ExecutorInv
<1>1. ExecutorInv /\ [Next]_vars => ExecutorInv'
  BY TypeStep, HonestStep, AccountedStep, WaitsStep DEF ExecutorInv
<1>2. QED BY InvInit, <1>1, PTL DEF Spec

\* The executor keeps its types.
THEOREM TypeCorrect == Spec => []TypeOK
<1>1. ExecutorInv => TypeOK
  BY DEF ExecutorInv
<1>2. QED BY <1>1, ExecutorInvariant, PTL

\* Honest results, each once, are what ResultsAreTrue asks of the two sequences
\* put one after the other.
LEMMA TrueTogether == TypeOK /\ HonestOnce => EachIsTrue
<1> SUFFICES ASSUME TypeOK, HonestOnce PROVE EachIsTrue
  OBVIOUS
<1> DEFINE all == channel \o results
<1>1. /\ channel \in Seq(Result) /\ results \in Seq(Result)
      /\ DOMAIN channel = 1..Len(channel) /\ DOMAIN results = 1..Len(results)
      /\ Len(channel) \in Nat /\ Len(results) \in Nat
  BY LenProperties DEF TypeOK
<1>2. /\ DOMAIN all = 1..(Len(channel) + Len(results))
      /\ \A i \in DOMAIN all :
           all[i] = IF i <= Len(channel) THEN channel[i] ELSE results[i - Len(channel)]
  BY <1>1, ConcatProperties, LenProperties
<1> HIDE DEF all
<1>3. \A i \in DOMAIN all :
        \/ i \in DOMAIN channel /\ all[i] = channel[i]
        \/ i > Len(channel) /\ i - Len(channel) \in DOMAIN results
             /\ all[i] = results[i - Len(channel)]
  BY <1>1, <1>2
<1>4. \A i \in DOMAIN all : Honest(all[i])
  BY <1>3 DEF HonestOnce
<1>5. ASSUME NEW i \in DOMAIN all, NEW j \in DOMAIN all, all[i].branch = all[j].branch
      PROVE  i = j
  <2>1. CASE i \in DOMAIN channel /\ j \in DOMAIN channel /\ all[i] = channel[i] /\ all[j] = channel[j]
    BY <1>5, <2>1 DEF HonestOnce, Distinct
  <2>2. CASE /\ i - Len(channel) \in DOMAIN results /\ all[i] = results[i - Len(channel)]
             /\ j - Len(channel) \in DOMAIN results /\ all[j] = results[j - Len(channel)]
    <3>1. i - Len(channel) = j - Len(channel)
      BY <1>5, <2>2 DEF HonestOnce, Distinct
    <3>2. i \in Nat /\ j \in Nat
      BY <1>1, <1>2
    <3>3. QED BY <1>1, <3>1, <3>2
  <2>3. QED BY <1>3, <1>5, <2>1, <2>2 DEF HonestOnce
<1>6. QED BY <1>4, <1>5 DEF EachIsTrue, Honest, all

\* Every result is true of its branch and counted once, and execute returns
\* before its deadline only with all there is or, with "or", with a result, of
\* which none but the last is a success.
THEOREM ResultsCorrect == Spec => []ResultsAreTrue
<1>1. ExecutorInv => ResultsAreTrue
  BY TrueTogether DEF ExecutorInv, ResultsAreTrue
<1>2. QED BY <1>1, ExecutorInvariant, PTL
=============================================================================
