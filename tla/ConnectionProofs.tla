-------------------------- MODULE ConnectionProofs --------------------------
(***************************************************************************)
(* Proofs about the two sides of the agent's connection, which share no    *)
(* variable.  Startup and Agent, for any configurations, channels and      *)
(* numbers of failures: AgentInv is inductive, so the lock excludes as a   *)
(* read-write lock does, a save is not cut off by a graceful stop, and     *)
(* what a running agent works with is on disk.  OfflineQueue, for any      *)
(* consumers, sizes, limits and clock: QueueInv is inductive, the type     *)
(* invariant with the bound on the size follows from it, and so does the   *)
(* refinement of PriorityQueue.                                            *)
(***************************************************************************)
EXTENDS Agent, OfflineQueue, SequenceTheorems, FiniteSetTheorems, WellFoundedInduction, TLAPS

Waiter == [task: Lockers, mode: {"read", "write"}]

Waits(t) == \E i \in DOMAIN waiting : waiting[i].task = t

(* A task at rest neither holds the lock nor waits for it, and one that    *)
(* waits does not hold it: it would wait for itself.                       *)
AtRest(t) == pc[t] \in {"idle", "gone", "stop", "modbus"}

Queued ==
  /\ waiting \in Seq(Waiter)
  /\ \A t \in Lockers :
       /\ AtRest(t) => holds[t] = "none" /\ ~Waits(t)
       /\ Waits(t) => holds[t] = "none"
  /\ \A i, j \in DOMAIN waiting : waiting[i].task = waiting[j].task => i = j

(* Who writes is alone.                                                    *)
Exclusive ==
  \A t, u \in Lockers : holds[t] = "write" /\ t # u => holds[u] = "none"

(* The tasks live only while the agent runs; the main task asks for the    *)
(* lock when it has signalled them; a file is written under the lock.      *)
Lifecycle ==
  /\ phase \notin {"running", "stopping", "closing"} =>
       pc = Gone /\ holds = Unlocked /\ waiting = <<>>
  /\ phase # "closing" => AtRest("main") /\ pc["main"] # "modbus"
  /\ pc["handler"] = "save" => holds["handler"] = "write"
  /\ pc["main"] = "bye" => holds["main"] = "write"

(* Unless its last save failed the file has what the agent works with, but *)
(* for the log level, and for the moment in which it is rewritten.         *)
FileIsMemory ==
  ~unsaved /\ phase \in {"activate", "activated", "connect", "running"}
    /\ pc["handler"] # "save" => file \in Config /\ memory = [file EXCEPT !.level = memory.level]

AgentInv == AgentOK /\ Queued /\ Exclusive /\ Lifecycle /\ FileIsMemory

-----------------------------------------------------------------------------
(* What a step does to the tasks and the lock.                             *)
Asks(t) ==
  /\ \E mode \in {"read", "write"}, next \in {"receive", "look", "answer", "level", "update", "report", "fetch", "close"} :
       Ask(t, mode, next)
  /\ \/ AtRest(t) /\ (t = "main" \/ pc[t] = "idle") /\ UNCHANGED holds
     \/ holds[t] # "none" /\ Release(t)

Leaves(t) ==
  /\ holds[t] # "none" /\ Release(t) /\ UNCHANGED waiting
  /\ \E next \in {"idle", "modbus"} : pc' = [pc EXCEPT ![t] = next]

GoesOn(t, step) ==
  holds[t] = "write" /\ pc' = [pc EXCEPT ![t] = step] /\ UNCHANGED <<holds, waiting>>

Begins == phase = "connect" /\ phase' = "running" /\ pc' = Started /\ UNCHANGED <<holds, waiting>>

\* Every step does one of these, or leaves the tasks and the lock alone.
LEMMA Moves ==
  ASSUME Lifecycle, [AgentNext]_allVars
  PROVE  \/ (\E t \in Tasks : Asks(t) \/ Leaves(t)) /\ phase' = phase
         \/ Asks("main") /\ phase' = "closing" /\ phase \in {"stopping", "closing"}
         \/ Leaves("main") /\ phase' = phase /\ phase = "closing"
         \/ GoesOn("handler", "save") /\ phase' = phase
         \/ GoesOn("main", "bye") /\ phase' = phase /\ pc["main"] = "close"
         \/ Grant /\ phase' = phase
         \/ (\E t \in Tasks : Dropped(t)) /\ phase' = phase
         \/ Begins
         \/ Nothing
         \/ UNCHANGED taskVars /\ phase' # "closing" /\ phase \notin {"running", "stopping", "closing"}
              /\ phase' \notin {"running", "stopping", "closing"}
         \/ UNCHANGED taskVars /\ phase = "running" /\ phase' = "stopping"
         \/ UNCHANGED taskVars /\ phase' = phase
<1> USE DEF startupVars, netVars, channelVars, taskVars
<1>0. /\ \A t : Publish(t) => Back(t) /\ UNCHANGED phase
      /\ \A t : holds[t] # "none" /\ Back(t) => Leaves(t)
      /\ {"handler", "telemetry", "engine"} = Tasks
  BY DEF Publish, Tasks, Back, Leaves
<1>1. CASE HandlerAsks
  BY <1>1, <1>0 DEF HandlerAsks, Asks, AtRest
<1>2. CASE HandlerReceives
  BY <1>2, <1>0 DEF HandlerReceives, Has, Asks
<1>3. CASE HandlerLooks
  BY <1>3, <1>0 DEF HandlerLooks, Has, Asks
<1>4. CASE HandlerAnswers
  BY <1>4, <1>0 DEF HandlerAnswers, Has
<1>5. CASE HandlerUpdates
  BY <1>5, <1>0 DEF HandlerUpdates, Has, GoesOn
<1>6. CASE HandlerSaves
  BY <1>6, <1>0 DEF HandlerSaves, Has
<1>7. CASE Telemetry
  <2>1. CASE TelemetryAsks
    BY <2>1, <1>0 DEF TelemetryAsks, Asks, AtRest
  <2>2. CASE TelemetryPublishes
    BY <2>2, <1>0 DEF TelemetryPublishes, Has
  <2>3. QED BY <1>7, <2>1, <2>2 DEF Telemetry
<1>8. CASE Engine
  <2>1. CASE EngineAsks
    BY <2>1, <1>0 DEF EngineAsks, Asks, AtRest
  <2>2. CASE EngineLooks
    BY <2>2, <1>0 DEF EngineLooks, Has
  <2>3. QED BY <1>8, <2>1, <2>2 DEF Engine
<1>9. CASE EventLoop
  BY <1>9 DEF EventLoop, Send, Receive, Deliver
<1>10. CASE Disconnects \/ Reconnects
  BY <1>10 DEF Disconnects, Reconnects
<1>11. CASE Starts
  <2>1. CASE phase' = "running"
    <3>1. phase = "connect"
      BY <1>11, <2>1
      DEF Starts, StartupStep, Load, Respawn, Activate, Received, OpenConfig, Saved, Connect
    <3>2. QED BY <1>11, <2>1, <3>1 DEF Starts, Begins
  <2>2. CASE phase' # "running"
    <3>1. /\ phase' \in {"down", "activate", "activated", "saving", "connect", "failed"}
          /\ phase \in {"down", "activate", "activated", "saving", "connect", "failed"}
      BY <1>11, <2>2
      DEF Starts, StartupStep, Load, Respawn, Activate, Received, OpenConfig, Saved, Connect
    <3>2. QED BY <1>11, <2>2, <3>1 DEF Starts
  <2>3. QED BY <2>1, <2>2
<1>12. CASE Crashes \/ Killed \/ Exit
  BY <1>12 DEF Crashes, Killed, Exit
<1>13. CASE Signal \/ StartedAgain
  BY <1>13 DEF Signal, StartedAgain
<1>14. CASE UNCHANGED allVars
  BY <1>14 DEF allVars
<1>15. CASE Grant \/ \E t \in Tasks : Dropped(t)
  BY <1>15 DEF Grant, Dropped
<1>16. CASE Close
  BY <1>16 DEF Close, Has, GoesOn
<1>17. CASE Waited
  BY <1>17 DEF Waited, Asks, Lifecycle
<1>18. CASE HandlerSetsLevel
  BY <1>18, <1>0 DEF HandlerSetsLevel, Has, Asks
<1>19. CASE Fetched
  <2>1. phase = "closing"
    BY <1>19 DEF Fetched, Has, Lifecycle, AtRest
  <2>2. QED BY <1>19, <2>1 DEF Fetched, Has, Leaves
<1>20. CASE Disconnected
  <2>1. pc["main"] = "modbus" /\ phase' = phase
    BY <1>20 DEF Disconnected
  <2>2. Asks("main")
    BY <1>20 DEF Disconnected, Asks, AtRest
  <2>3. phase = "closing"
    BY <2>1 DEF Lifecycle, AtRest
  <2>4. QED BY <2>1, <2>2, <2>3
<1>21. QED
  BY <1>1, <1>2, <1>3, <1>4, <1>5, <1>6, <1>7, <1>8, <1>9, <1>10, <1>11, <1>12, <1>13, <1>14,
     <1>15, <1>16, <1>17, <1>18, <1>19, <1>20 DEF AgentNext, Handler, Shutdown

LockTypes ==
  /\ pc \in [Lockers -> Steps]
  /\ holds \in [Lockers -> {"none", "read", "write"}]

\* Who leaves the queue leaves the others in their order.
LEMMA Removed ==
  ASSUME waiting \in Seq(Waiter), NEW i \in DOMAIN waiting
  PROVE  /\ RemoveAt(waiting, i) \in Seq(Waiter)
         /\ \A j \in DOMAIN RemoveAt(waiting, i) :
              /\ j < i => j \in DOMAIN waiting /\ RemoveAt(waiting, i)[j] = waiting[j]
              /\ j >= i => j + 1 \in DOMAIN waiting /\ RemoveAt(waiting, i)[j] = waiting[j + 1]
         /\ DOMAIN RemoveAt(waiting, i) \subseteq Nat
<1> DEFINE front == SubSeq(waiting, 1, i - 1)
           back == SubSeq(waiting, i + 1, Len(waiting))
<1>1. Len(waiting) \in Nat /\ DOMAIN waiting = 1..Len(waiting) /\ i \in 1..Len(waiting)
  BY LenProperties
<1>2. \A j \in 1..Len(waiting) : waiting[j] \in Waiter
  BY ElementOfSeq
<1>3. /\ front \in Seq(Waiter) /\ Len(front) = i - 1
      /\ \A j \in 1..(i - 1) : front[j] = waiting[j]
  <2>1. 1 \in Int /\ i - 1 \in Int /\ \A j \in 1..(i - 1) : waiting[j] \in Waiter
    BY <1>1, <1>2
  <2>2. /\ front \in Seq(Waiter) /\ Len(front) = IF 1 <= i - 1 THEN i - 1 - 1 + 1 ELSE 0
        /\ \A j \in 1..(i - 1 - 1 + 1) : front[j] = waiting[1 + j - 1]
    BY <2>1, SubSeqProperties
  <2>3. QED BY <1>1, <2>2
<1>4. /\ back \in Seq(Waiter) /\ Len(back) = Len(waiting) - i
      /\ \A j \in 1..(Len(waiting) - i) : back[j] = waiting[j + i]
  <2>1. i + 1 \in Int /\ Len(waiting) \in Int /\ \A j \in (i + 1)..Len(waiting) : waiting[j] \in Waiter
    BY <1>1, <1>2
  <2>2. /\ back \in Seq(Waiter)
        /\ Len(back) = IF i + 1 <= Len(waiting) THEN Len(waiting) - (i + 1) + 1 ELSE 0
        /\ \A j \in 1..(Len(waiting) - (i + 1) + 1) : back[j] = waiting[i + 1 + j - 1]
    BY <2>1, SubSeqProperties
  <2>3. QED BY <1>1, <2>2
<1> HIDE DEF front, back
<1>5. PICK rest : rest = front \o back
  OBVIOUS
<1>6. /\ rest \in Seq(Waiter) /\ Len(rest) = Len(front) + Len(back)
      /\ \A j \in 1..(Len(front) + Len(back)) :
           rest[j] = IF j <= Len(front) THEN front[j] ELSE back[j - Len(front)]
  BY <1>3, <1>4, <1>5, ConcatProperties
<1>7. DOMAIN rest = 1..(Len(waiting) - 1)
  BY <1>1, <1>3, <1>4, <1>6, LenProperties
<1>8. ASSUME NEW j \in 1..(Len(waiting) - 1)
      PROVE  /\ j \in Nat
             /\ j < i => j \in DOMAIN waiting /\ rest[j] = waiting[j]
             /\ j >= i => j + 1 \in DOMAIN waiting /\ rest[j] = waiting[j + 1]
  <2>1. rest[j] = IF j <= i - 1 THEN front[j] ELSE back[j - (i - 1)]
    <3>1. Len(front) + Len(back) = Len(waiting) - 1 /\ Len(front) = i - 1
      BY <1>1, <1>3, <1>4
    <3>2. j \in 1..(Len(front) + Len(back))
      BY <3>1
    <3>3. rest[j] = IF j <= Len(front) THEN front[j] ELSE back[j - Len(front)]
      BY <1>6, <3>2
    <3>4. QED BY <3>1, <3>3
  <2>2. CASE j < i
    BY <1>1, <1>3, <2>1, <2>2
  <2>3. CASE j >= i
    <3>1. j - (i - 1) \in 1..(Len(waiting) - i) /\ (j - (i - 1)) + i = j + 1
      BY <1>1, <2>3
    <3>2. back[j - (i - 1)] = waiting[j + 1]
      BY <1>4, <3>1
    <3>3. QED BY <1>1, <2>1, <2>3, <3>2
  <2>4. QED BY <1>1, <2>2, <2>3
<1>9. RemoveAt(waiting, i) = rest
  BY <1>5 DEF RemoveAt, front, back
<1>10. QED BY <1>6, <1>7, <1>8, <1>9

LEMMA LockTypesStep ==
  ASSUME LockTypes, Queued, Lifecycle, [AgentNext]_allVars
  PROVE  LockTypes'
<1>0. Tasks \subseteq Lockers /\ "main" \in Lockers /\ "handler" \in Lockers
  BY DEF Tasks, Lockers
<1>1. ASSUME NEW t \in Lockers, Asks(t) \/ Leaves(t)
      PROVE  LockTypes'
  BY <1>1 DEF LockTypes, Asks, Leaves, Ask, Back, Release, Steps
<1>2. CASE Grant
  <2>1. Head(waiting) \in Waiter
    BY <1>2, HeadTailProperties DEF Grant, Queued
  <2>2. QED BY <1>2, <2>1 DEF Grant, LockTypes, Waiter
<1>3. ASSUME NEW t \in Tasks, Dropped(t)
      PROVE  LockTypes'
  BY <1>0, <1>3 DEF LockTypes, Dropped, Release, Steps
<1>4. CASE GoesOn("handler", "save") \/ GoesOn("main", "bye")
  BY <1>0, <1>4 DEF LockTypes, GoesOn, Steps
<1>5. CASE Begins
  BY <1>5 DEF LockTypes, Begins, Started, Steps
<1>6. CASE Nothing
  BY <1>6 DEF LockTypes, Nothing, Gone, Unlocked, Steps
<1>7. CASE UNCHANGED taskVars
  BY <1>7 DEF LockTypes, taskVars
<1>8. QED BY <1>0, <1>1, <1>2, <1>3, <1>4, <1>5, <1>6, <1>7, Moves

\* A task that is at rest has left the lock and its queue behind.
LEMMA QueuedStep ==
  ASSUME LockTypes, Queued, Lifecycle, [AgentNext]_allVars
  PROVE  Queued'
<1>0. /\ Tasks \subseteq Lockers /\ "main" \in Lockers /\ "handler" \in Lockers
      /\ waiting \in Seq(Waiter) /\ Len(waiting) \in Nat /\ DOMAIN waiting = 1..Len(waiting)
      /\ \A i \in DOMAIN waiting : waiting[i] \in Waiter
  BY LenProperties, ElementOfSeq DEF Tasks, Lockers, Queued
<1>1. ASSUME NEW t \in Lockers, Asks(t)
      PROVE  Queued'
  <2>1. PICK mode \in {"read", "write"}, next \in {"receive", "look", "answer", "level", "update", "report", "fetch", "close"} :
          waiting' = Append(waiting, [task |-> t, mode |-> mode]) /\ pc' = [pc EXCEPT ![t] = next]
    BY <1>1 DEF Asks, Ask
  <2>2. ~Waits(t)
    BY <1>1 DEF Asks, Queued
  <2>3. holds'[t] = "none" /\ \A u \in Lockers \ {t} : holds'[u] = holds[u]
    BY <1>1 DEF Asks, Release, Queued, LockTypes
  <2>4. ~AtRest(t)' /\ \A u \in Lockers \ {t} : AtRest(u)' <=> AtRest(u)
    BY <2>1 DEF AtRest, LockTypes
  <2>5. PICK w \in Waiter : w.task = t /\ waiting' = Append(waiting, w)
    BY <2>1 DEF Waiter
  <2>6. /\ waiting' \in Seq(Waiter) /\ DOMAIN waiting' = 1..(Len(waiting) + 1)
        /\ \A i \in 1..Len(waiting) : waiting'[i] = waiting[i]
        /\ waiting'[Len(waiting) + 1] = w
    BY <1>0, <2>5, AppendProperties, LenProperties
  <2>7. \A i \in DOMAIN waiting' :
          \/ i \in DOMAIN waiting /\ waiting'[i] = waiting[i]
          \/ i = Len(waiting) + 1 /\ waiting'[i].task = t
    BY <1>0, <2>5, <2>6
  <2>8. \A u \in Lockers \ {t} : Waits(u)' => Waits(u)
    BY <2>7 DEF Waits
  <2>9. \A i, j \in DOMAIN waiting' : waiting'[i].task = waiting'[j].task => i = j
    BY <2>2, <2>7 DEF Waits, Queued
  <2>10. QED BY <2>3, <2>4, <2>6, <2>8, <2>9 DEF Queued
<1>2. ASSUME waiting' = waiting,
             \A u \in Lockers : \/ AtRest(u)' => AtRest(u)
                                \/ holds'[u] = "none" /\ ~Waits(u),
             \A u \in Lockers : holds'[u] \in {holds[u], "none"}
      PROVE  Queued'
  BY <1>2 DEF Queued, Waits
<1>3. ASSUME NEW t \in Lockers, Leaves(t)
      PROVE  Queued'
  <2>1. /\ waiting' = waiting /\ holds'[t] = "none" /\ ~Waits(t)
        /\ \A u \in Lockers \ {t} : holds'[u] = holds[u] /\ (AtRest(u)' <=> AtRest(u))
    BY <1>3 DEF Leaves, Back, Release, AtRest, Queued, LockTypes
  <2>2. QED BY <1>2, <2>1
<1>4. CASE GoesOn("handler", "save") \/ GoesOn("main", "bye")
  BY <1>0, <1>2, <1>4 DEF GoesOn, AtRest, LockTypes
<1>5. CASE Begins
  <2>1. pc = Gone /\ holds = Unlocked /\ waiting = <<>>
    BY <1>5 DEF Begins, Lifecycle
  <2>2. \A u \in Lockers : AtRest(u)
    BY <2>1 DEF Gone, AtRest
  <2>3. QED BY <1>2, <1>5, <2>2 DEF Begins
<1>6. CASE Nothing
  BY <1>6, EmptySeq DEF Nothing, Gone, Unlocked, Queued, Waits
<1>7. CASE UNCHANGED taskVars
  BY <1>2, <1>7 DEF taskVars, AtRest
<1>8. CASE Grant
  <2>1. /\ waiting # <<>> /\ waiting' = Tail(waiting) /\ pc' = pc
        /\ holds' = [holds EXCEPT ![Head(waiting).task] = Head(waiting).mode]
    BY <1>8 DEF Grant
  <2>2. /\ Head(waiting) = waiting[1] /\ waiting' \in Seq(Waiter)
        /\ Len(waiting') = Len(waiting) - 1
        /\ \A i \in 1..Len(waiting') : waiting'[i] = waiting[i + 1]
    BY <1>0, <2>1, HeadTailProperties
  <2>3. /\ DOMAIN waiting' = 1..(Len(waiting) - 1) /\ 1 \in DOMAIN waiting
    BY <1>0, <2>1, <2>2, LenProperties, EmptySeq
  <2>4. \A i \in DOMAIN waiting' :
          i \in Nat /\ i + 1 # 1 /\ i + 1 \in DOMAIN waiting /\ waiting'[i] = waiting[i + 1]
    BY <1>0, <2>2, <2>3
  <2>5. waiting[1].task \in Lockers /\ Waits(waiting[1].task)
    BY <1>0, <2>3 DEF Waits, Waiter
  <2>6. \A u \in Lockers : Waits(u)' => Waits(u) /\ u # waiting[1].task
    BY <2>3, <2>4 DEF Waits, Queued
  <2>7. ~AtRest(waiting[1].task)
    BY <2>5 DEF Queued
  <2>8. \A u \in Lockers \ {waiting[1].task} : holds'[u] = holds[u]
    BY <2>1, <2>2 DEF LockTypes
  <2>9. \A i, j \in DOMAIN waiting' : waiting'[i].task = waiting'[j].task => i = j
    <3> SUFFICES ASSUME NEW i \in DOMAIN waiting', NEW j \in DOMAIN waiting',
                        waiting'[i].task = waiting'[j].task
                 PROVE  i = j
      OBVIOUS
    <3>1. i + 1 = j + 1
      BY <2>4 DEF Queued
    <3>2. QED BY <2>4, <3>1
  <2>10. \A u \in Lockers : AtRest(u)' <=> AtRest(u)
    BY <2>1 DEF AtRest
  <2>11. QED BY <2>2, <2>6, <2>7, <2>8, <2>9, <2>10 DEF Queued
<1>9. ASSUME NEW t \in Tasks, Dropped(t)
      PROVE  Queued'
  <2>1. /\ holds'[t] = "none" /\ \A u \in Lockers \ {t} : holds'[u] = holds[u] /\ (AtRest(u)' <=> AtRest(u))
    BY <1>0, <1>9 DEF Dropped, Release, AtRest, LockTypes
  <2>2. CASE waiting' = waiting /\ \A i \in DOMAIN waiting : waiting[i].task # t
    BY <1>2, <2>1, <2>2 DEF Waits
  <2>3. CASE \E i \in DOMAIN waiting : waiting[i].task = t /\ waiting' = RemoveAt(waiting, i)
    <3>1. PICK i \in DOMAIN waiting : waiting[i].task = t /\ waiting' = RemoveAt(waiting, i)
      BY <2>3
    <3>2. /\ waiting' \in Seq(Waiter) /\ DOMAIN waiting' \subseteq Nat
          /\ \A j \in DOMAIN waiting' :
               /\ j < i => j \in DOMAIN waiting /\ waiting'[j] = waiting[j]
               /\ j >= i => j + 1 \in DOMAIN waiting /\ waiting'[j] = waiting[j + 1]
      BY <1>0, <3>1, Removed
    <3>3. i \in Nat
      BY <1>0
    <3>4. \A j \in DOMAIN waiting' : \E k \in DOMAIN waiting :
            k # i /\ waiting'[j] = waiting[k] /\ k = IF j < i THEN j ELSE j + 1
      BY <3>2, <3>3
    <3>5. \A j, k \in DOMAIN waiting' : waiting'[j].task = waiting'[k].task => j = k
      <4> SUFFICES ASSUME NEW j \in DOMAIN waiting', NEW k \in DOMAIN waiting',
                          waiting'[j].task = waiting'[k].task
                   PROVE  j = k
        OBVIOUS
      <4>1. (IF j < i THEN j ELSE j + 1) = (IF k < i THEN k ELSE k + 1)
        BY <3>4 DEF Queued
      <4>2. j \in Nat /\ k \in Nat
        BY <3>2
      <4>3. QED BY <3>3, <4>1, <4>2
    <3>6. \A u \in Lockers : Waits(u)' => Waits(u) /\ u # t
      BY <3>1, <3>4 DEF Waits, Queued
    <3>7. QED BY <2>1, <3>2, <3>5, <3>6 DEF Queued
  <2>4. QED BY <1>9, <2>2, <2>3 DEF Dropped
<1>10. QED BY <1>0, <1>1, <1>3, <1>4, <1>5, <1>6, <1>7, <1>8, <1>9, Moves

\* The lock is given to a writer when it is free, to a reader when nobody writes.
LEMMA ExclusiveStep ==
  ASSUME LockTypes, Queued, Lifecycle, Exclusive, [AgentNext]_allVars
  PROVE  Exclusive'
<1>0. Tasks \subseteq Lockers /\ "main" \in Lockers
  BY DEF Tasks, Lockers
<1>1. ASSUME \A u \in Lockers : holds'[u] \in {holds[u], "none"}
      PROVE  Exclusive'
  BY <1>1 DEF Exclusive
<1>2. ASSUME NEW t \in Lockers, Asks(t) \/ Leaves(t)
      PROVE  Exclusive'
  BY <1>1, <1>2 DEF Asks, Leaves, Back, Release, LockTypes
<1>3. ASSUME NEW t \in Tasks, Dropped(t)
      PROVE  Exclusive'
  BY <1>1, <1>3 DEF Dropped, Release, LockTypes
<1>4. CASE Nothing
  BY <1>1, <1>4 DEF Nothing, Unlocked
<1>5. CASE GoesOn("handler", "save") \/ GoesOn("main", "bye") \/ Begins \/ UNCHANGED taskVars
  BY <1>1, <1>5 DEF GoesOn, Begins, taskVars
<1>6. CASE Grant
  <2>1. PICK w \in Waiter :
          /\ \A t \in Lockers : holds[t] # "write"
          /\ w.mode = "write" => \A t \in Lockers : holds[t] = "none"
          /\ holds' = [holds EXCEPT ![w.task] = w.mode]
    BY <1>6, HeadTailProperties DEF Grant, Queued
  <2>2. QED BY <2>1 DEF Exclusive, LockTypes, Waiter
<1>7. QED BY <1>0, <1>2, <1>3, <1>4, <1>5, <1>6, Moves

\* Nobody but its writer ends a save, and nobody but the main task its farewell.
LEMMA LifecycleStep ==
  ASSUME LockTypes, Queued, Lifecycle, [AgentNext]_allVars
  PROVE  Lifecycle'
<1> DEFINE alive == {"running", "stopping", "closing"}
<1>0. /\ Tasks \subseteq Lockers /\ "main" \in Lockers /\ "handler" \in Lockers /\ "main" \notin Tasks
      /\ \A t \in Lockers : Gone[t] \in {"gone", "stop"} /\ Started[t] = "idle"
  BY DEF Tasks, Lockers, Gone, Started
<1>1. ASSUME NEW t \in Tasks, Asks(t) \/ Leaves(t), phase' = phase
      PROVE  Lifecycle'
  <2>1. phase \in alive
    <3>1. t \in Lockers /\ t # "main"
      BY <1>0
    <3>2. phase \notin alive => holds[t] = "none" /\ pc[t] = "gone"
      BY <3>1 DEF Lifecycle, Unlocked, Gone
    <3>3. QED BY <1>1, <3>1, <3>2 DEF Asks, Leaves
  <2>2. /\ pc'[t] \notin {"save", "bye"}
        /\ \A u \in Lockers \ {t} : pc'[u] = pc[u] /\ holds'[u] = holds[u]
    BY <1>0, <1>1 DEF Asks, Ask, Leaves, Back, Release, LockTypes
  <2>3. QED BY <1>0, <1>1, <2>1, <2>2 DEF Lifecycle, AtRest
<1>2. CASE Asks("main") /\ phase' = "closing"
  <2>1. /\ pc'["main"] \notin {"save", "bye"}
        /\ pc'["handler"] = pc["handler"] /\ holds'["handler"] = holds["handler"]
    BY <1>0, <1>2 DEF Asks, Ask, Release, LockTypes
  <2>2. QED BY <1>0, <1>2, <2>1 DEF Lifecycle, AtRest
<1>3. CASE GoesOn("handler", "save") /\ phase' = phase
  <2>1. phase \in alive
    BY <1>0, <1>3 DEF GoesOn, Lifecycle, Unlocked
  <2>2. /\ holds'["handler"] = "write"
        /\ pc'["main"] = pc["main"] /\ holds'["main"] = holds["main"]
    BY <1>0, <1>3 DEF GoesOn, LockTypes
  <2>3. QED BY <1>3, <2>1, <2>2 DEF Lifecycle, AtRest
<1>4. CASE GoesOn("main", "bye") /\ phase' = phase /\ pc["main"] = "close"
  <2>1. phase = "closing"
    BY <1>4 DEF Lifecycle, AtRest
  <2>2. /\ holds'["main"] = "write"
        /\ pc'["handler"] = pc["handler"] /\ holds'["handler"] = holds["handler"]
    BY <1>0, <1>4 DEF GoesOn, LockTypes
  <2>3. QED BY <1>4, <2>1, <2>2 DEF Lifecycle
<1>5. CASE Grant /\ phase' = phase
  <2>1. /\ waiting # <<>> /\ pc' = pc
        /\ holds' = [holds EXCEPT ![Head(waiting).task] = Head(waiting).mode]
    BY <1>5 DEF Grant
  <2>2. Head(waiting) \in Waiter /\ Waits(Head(waiting).task)
    <3>1. waiting \in Seq(Waiter)
      BY DEF Queued
    <3>2. Head(waiting) \in Waiter /\ Head(waiting) = waiting[1]
      BY <2>1, <3>1, HeadTailProperties
    <3>3. 1 \in DOMAIN waiting
      BY <2>1, <3>1, EmptySeq, LenProperties
    <3>4. QED BY <3>2, <3>3 DEF Waits
  <2>3. holds[Head(waiting).task] = "none" /\ Head(waiting).task \in Lockers
    BY <2>2 DEF Queued, Waiter
  <2>4. \A u \in Lockers : holds[u] = "write" => holds'[u] = "write"
    BY <2>1, <2>3 DEF LockTypes
  <2>5. QED BY <1>0, <1>5, <2>1, <2>4 DEF Lifecycle, AtRest
<1>6. ASSUME NEW t \in Tasks, Dropped(t), phase' = phase
      PROVE  Lifecycle'
  <2>1. phase \in alive /\ pc[t] # "save"
    BY <1>6 DEF Dropped
  <2>2. /\ pc'[t] = "gone"
        /\ \A u \in Lockers \ {t} : pc'[u] = pc[u] /\ holds'[u] = holds[u]
    BY <1>0, <1>6 DEF Dropped, Release, LockTypes
  <2>3. QED BY <1>0, <1>6, <2>1, <2>2 DEF Lifecycle, AtRest
<1>7. CASE Begins
  BY <1>0, <1>7 DEF Begins, Lifecycle, AtRest
<1>8. CASE Nothing
  BY <1>0, <1>8 DEF Nothing, Lifecycle, AtRest
<1>9. CASE UNCHANGED taskVars /\ phase' \notin alive /\ phase \notin alive
  BY <1>9 DEF taskVars, Lifecycle, AtRest
<1>10. CASE UNCHANGED taskVars /\ phase = "running" /\ phase' = "stopping"
  BY <1>10 DEF taskVars, Lifecycle, AtRest
<1>11. CASE UNCHANGED taskVars /\ phase' = phase
  BY <1>11 DEF taskVars, Lifecycle, AtRest
<1>12. CASE Leaves("main") /\ phase' = phase /\ phase = "closing"
  <2>1. /\ pc'["main"] \notin {"save", "bye"}
        /\ pc'["handler"] = pc["handler"] /\ holds'["handler"] = holds["handler"]
    BY <1>0, <1>12 DEF Leaves, Release, LockTypes
  <2>2. QED BY <1>0, <1>12, <2>1 DEF Lifecycle
<1>13. QED
  BY <1>1, <1>2, <1>3, <1>4, <1>5, <1>6, <1>7, <1>8, <1>9, <1>10, <1>11, <1>12, Moves

\* A configuration with its credentials received, an interval updated or a
\* log level set; what it has but for the level.
LEMMA ConfigTypes ==
  ASSUME NEW c \in Config
  PROVE  /\ [c EXCEPT !.credentials = TRUE, !.token = FALSE] \in Config
         /\ \A i \in Intervals : [c EXCEPT !.interval = i] \in Config
         /\ \A l \in Levels : [c EXCEPT !.level = l] \in Config
         /\ c = [c EXCEPT !.level = c.level]
         /\ \A l \in Levels, d \in Config : c = [d EXCEPT !.level = c.level]
              => [c EXCEPT !.level = l] = [d EXCEPT !.level = [c EXCEPT !.level = l].level]
<1>1. Intervals \subseteq Nat /\ Levels \subseteq STRING
  BY StartupAssumption
<1>2. QED BY <1>1 DEF Config

\* The file is changed by the save of what is in memory, and by nothing else.
LEMMA FileStep ==
  ASSUME Lifecycle, FileIsMemory, AgentOK, [AgentNext]_allVars
  PROVE  FileIsMemory'
<1>0. /\ "handler" \in Lockers /\ pc \in [Lockers -> Steps]
      /\ memory \in Config /\ memory = [memory EXCEPT !.level = memory.level]
      /\ file # Torn => file \in Config /\ file = [file EXCEPT !.level = file.level]
  <2>1. memory \in Config /\ (file # Torn => file \in Config) /\ pc \in [Lockers -> Steps]
    BY DEF AgentOK, StartupOK
  <2>2. QED BY <2>1, ConfigTypes DEF Lockers, Tasks
<1>1. ASSUME UNCHANGED startupVars, pc["handler"] = "save" => pc'["handler"] = "save"
      PROVE  FileIsMemory'
  BY <1>1 DEF FileIsMemory, startupVars
<1>2. CASE HandlerAsks \/ HandlerReceives \/ HandlerLooks \/ HandlerAnswers
  BY <1>1, <1>2 DEF HandlerAsks, HandlerReceives, HandlerLooks, HandlerAnswers, Has, Publish
<1>3. CASE HandlerUpdates
  <2>1. CASE pc' = [pc EXCEPT !["handler"] = "save"]
    BY <1>0, <2>1 DEF FileIsMemory
  <2>2. CASE unsaved' = TRUE
    BY <2>2 DEF FileIsMemory
  <2>3. CASE UNCHANGED <<memory, file, unsaved, phase>> /\ pc["handler"] = "update"
    BY <2>3 DEF FileIsMemory
  <2>4. QED BY <1>3, <2>1, <2>2, <2>3 DEF HandlerUpdates, Has
<1>4. CASE HandlerSaves
  BY <1>0, <1>4 DEF HandlerSaves, WriteConfig, FileIsMemory
<1>5. ASSUME \/ pc' = pc
             \/ \E t \in {"telemetry", "engine", "main"} : \E next : pc' = [pc EXCEPT ![t] = next]
      PROVE  pc'["handler"] = pc["handler"]
  BY <1>0, <1>5
<1>6. CASE Telemetry \/ Engine
  <2>1. UNCHANGED startupVars
    BY <1>6 DEF Telemetry, Engine, TelemetryAsks, TelemetryPublishes, EngineAsks, EngineLooks, Publish
  <2>2. \E t \in {"telemetry", "engine", "main"} : \E next : pc' = [pc EXCEPT ![t] = next]
    BY <1>6 DEF Telemetry, Engine, TelemetryAsks, TelemetryPublishes, EngineAsks, EngineLooks,
                Publish, Ask, Back
  <2>3. QED BY <1>1, <1>5, <2>1, <2>2
<1>7. CASE Close \/ Fetched \/ Disconnected
  <2>1. UNCHANGED startupVars /\ \E next : pc' = [pc EXCEPT !["main"] = next]
    BY <1>7 DEF Close, Fetched, Disconnected, Ask
  <2>2. QED BY <1>1, <1>5, <2>1
<1>8. CASE \E t \in Tasks : Dropped(t)
  BY <1>1, <1>8 DEF Dropped, AgentOK
<1>9. CASE Grant \/ EventLoop \/ Disconnects \/ Reconnects \/ UNCHANGED allVars
  <2>1. UNCHANGED startupVars /\ pc' = pc
    BY <1>9 DEF Grant, EventLoop, Send, Receive, Deliver, Disconnects, Reconnects, allVars, taskVars
  <2>2. QED BY <1>1, <2>1
<1>10. CASE Crashes \/ Signal \/ Killed \/ StartedAgain \/ Waited \/ Exit
  <2>1. phase' \in {"down", "stopping", "closing", "stopped"}
    BY <1>10 DEF Crashes, Crash, Signal, Killed, StartedAgain, Waited, Exit
  <2>2. QED BY <2>1 DEF FileIsMemory
<1>11. CASE Starts
  <2>0. phase \notin {"running", "stopping", "closing"} /\ pc["handler"] # "save"
    <3>1. phase \notin {"running", "stopping", "closing"}
      BY <1>11 DEF Starts, StartupStep, Load, Respawn, Activate, Received, Saved, Connect
    <3>2. QED BY <1>0, <3>1 DEF Lifecycle, Gone
  <2>1. CASE Load
    BY <1>0, <2>1 DEF Load, FileIsMemory
  <2>2. CASE Respawn
    BY <2>2 DEF Respawn, FileIsMemory
  <2>3. CASE Activate
    BY <2>0, <2>3 DEF Activate, FileIsMemory
  <2>4. CASE Received
    BY <2>4 DEF Received, OpenConfig, FileIsMemory
  <2>5. CASE Saved
    BY <1>0, <2>5 DEF Saved, WriteConfig, FileIsMemory
  <2>6. CASE Connect
    BY <2>0, <2>6 DEF Connect, FileIsMemory
  <2>7. QED BY <1>11, <2>1, <2>2, <2>3, <2>4, <2>5, <2>6 DEF Starts, StartupStep
<1>12. CASE HandlerSetsLevel
  <2>1. PICK l \in Levels : memory' = [memory EXCEPT !.level = l]
    BY <1>12 DEF HandlerSetsLevel
  <2>2. UNCHANGED <<phase, file, unsaved>> /\ pc["handler"] # "save"
    BY <1>12 DEF HandlerSetsLevel, Has
  <2>3. QED BY <1>0, <2>1, <2>2, ConfigTypes DEF FileIsMemory
<1>13. QED
  BY <1>2, <1>3, <1>4, <1>6, <1>7, <1>8, <1>9, <1>10, <1>11, <1>12
  DEF AgentNext, Handler, Shutdown

LEMMA StartupOKStep ==
  ASSUME StartupOK, [AgentNext]_allVars
  PROVE  StartupOK'
<1>0. /\ upsets \in Nat /\ (Upset => upsets' \in 0..MaxUpsets) /\ MaxUpsets \in Nat
      /\ memory \in Config
  BY StartupAssumption DEF StartupOK, Upset
<1>1. CASE UNCHANGED startupVars
  BY <1>1 DEF startupVars, StartupOK
<1>2. CASE Starts
  <2>1. CASE Load
    BY <2>1 DEF Load, StartupOK, Phases
  <2>2. CASE Respawn \/ Connect
    BY <1>0, <2>2 DEF Respawn, Connect, StartupOK, Phases
  <2>3. CASE Activate
    BY <1>0, <2>3 DEF Activate, StartupOK, Phases
  <2>4. CASE Received
    BY <1>0, <2>4, ConfigTypes DEF Received, OpenConfig, StartupOK, Phases
  <2>5. CASE Saved
    BY <1>0, <2>5 DEF Saved, WriteConfig, StartupOK, Phases
  <2>6. QED BY <1>2, <2>1, <2>2, <2>3, <2>4, <2>5 DEF Starts, StartupStep
<1>3. CASE HandlerUpdates
  <2>1. memory' \in Config
    <3>1. PICK i \in Intervals : memory' = memory \/ memory' = [memory EXCEPT !.interval = i]
      BY <1>3 DEF HandlerUpdates
    <3>2. [memory EXCEPT !.interval = i] \in Config
      BY <1>0, ConfigTypes
    <3>3. QED BY <1>0, <3>1, <3>2
  <2>2. /\ file' = file \/ file' = Torn
        /\ upsets' \in 0..MaxUpsets /\ unsaved' \in BOOLEAN /\ UNCHANGED <<phase, spent>>
    BY <1>0, <1>3 DEF HandlerUpdates, StartupOK
  <2>3. QED BY <2>1, <2>2 DEF StartupOK
<1>4. CASE HandlerSaves
  BY <1>0, <1>4 DEF HandlerSaves, WriteConfig, StartupOK
<1>5. CASE Crashes \/ Signal \/ Killed \/ StartedAgain \/ Waited \/ Exit
  BY <1>0, <1>5 DEF Crashes, Crash, Signal, Killed, StartedAgain, Waited, Exit, StartupOK, Phases
<1>6. CASE HandlerAsks \/ HandlerReceives \/ HandlerLooks \/ HandlerAnswers
  BY <1>1, <1>6 DEF HandlerAsks, HandlerReceives, HandlerLooks, HandlerAnswers, Publish
<1>7. CASE Telemetry \/ Engine
  BY <1>1, <1>7 DEF Telemetry, Engine, TelemetryAsks, TelemetryPublishes, EngineAsks, EngineLooks, Publish
<1>8. CASE Grant \/ EventLoop \/ Disconnects \/ Reconnects \/ Close \/ Fetched \/ Disconnected
           \/ \E t \in Tasks : Dropped(t)
  BY <1>1, <1>8
  DEF Grant, EventLoop, Send, Receive, Deliver, Disconnects, Reconnects, Close, Fetched, Disconnected, Dropped
<1>9. CASE UNCHANGED allVars
  BY <1>1, <1>9 DEF allVars
<1>10. CASE HandlerSetsLevel
  <2>1. memory' \in Config
    <3>1. PICK l \in Levels : memory' = [memory EXCEPT !.level = l]
      BY <1>10 DEF HandlerSetsLevel
    <3>2. QED BY <1>0, <3>1, ConfigTypes
  <2>2. QED BY <1>10, <2>1 DEF HandlerSetsLevel, StartupOK
<1>11. QED
  BY <1>2, <1>3, <1>4, <1>5, <1>6, <1>7, <1>8, <1>9, <1>10 DEF AgentNext, Handler, Shutdown

Links == connected \in BOOLEAN /\ delivering \in BOOLEAN

Counts ==
  /\ outages \in 0..MaxOutages /\ sent \in 0..MaxMessages
  /\ incoming \in 0..IncomingCap /\ outgoing \in 0..OutgoingCap

NetTypes == Links /\ Counts

\* The channels are never over their bounds.
LEMMA NetTypesStep ==
  ASSUME NetTypes, [AgentNext]_allVars
  PROVE  NetTypes'
<1> USE DEF NetTypes
<1>0. /\ OutgoingCap \in Nat /\ IncomingCap \in Nat /\ MaxMessages \in Nat /\ MaxOutages \in Nat
      /\ Links /\ Counts
  BY AgentAssumption
<1>1. CASE UNCHANGED netVars /\ UNCHANGED channelVars
  BY <1>0, <1>1 DEF netVars, channelVars, Links, Counts
<1>2. ASSUME UNCHANGED netVars, incoming' = incoming, outgoing < OutgoingCap, outgoing' = outgoing + 1
      PROVE  NetTypes'
  BY <1>0, <1>2 DEF netVars, Links, Counts
<1>3. ASSUME NEW t, Publish(t)
      PROVE  NetTypes'
  BY <1>2, <1>3 DEF Publish
<1>4. CASE HandlerAnswers \/ TelemetryPublishes
  BY <1>3, <1>4 DEF HandlerAnswers, TelemetryPublishes
<1>5. CASE Close
  BY <1>2, <1>5 DEF Close
<1>6. CASE HandlerReceives
  <2>1. UNCHANGED <<netVars, outgoing>> /\ (incoming' = incoming \/ (incoming > 0 /\ incoming' = incoming - 1))
    BY <1>6 DEF HandlerReceives
  <2>2. QED BY <1>0, <2>1 DEF netVars, Links, Counts
<1>7. CASE Send
  BY <1>0, <1>7 DEF Send, netVars, Links, Counts
<1>8. CASE Receive \/ Deliver
  <2>1. Links'
    BY <1>0, <1>8 DEF Receive, Deliver, Links
  <2>2. Counts'
    BY <1>0, <1>8 DEF Receive, Deliver, channelVars, Counts
  <2>3. QED BY <2>1, <2>2
<1>9. CASE Disconnects \/ Reconnects
  <2>1. Links'
    BY <1>0, <1>9 DEF Disconnects, Reconnects, Links
  <2>2. Counts'
    BY <1>0, <1>9 DEF Disconnects, Reconnects, channelVars, Counts
  <2>3. QED BY <2>1, <2>2
<1>10. CASE Starts
  <2>1. Links'
    BY <1>0, <1>10 DEF Starts, netVars, Links
  <2>2. Counts'
    BY <1>0, <1>10 DEF Starts, netVars, channelVars, Counts
  <2>3. QED BY <2>1, <2>2
<1>11. CASE Crashes \/ Killed \/ Exit
  <2>1. Nothing
    BY <1>11 DEF Crashes, Killed, Exit
  <2>2. Links'
    BY <2>1 DEF Nothing, Links
  <2>3. Counts'
    BY <1>0, <2>1 DEF Nothing, Counts
  <2>4. QED BY <2>2, <2>3
<1>12. CASE Signal \/ StartedAgain \/ Waited \/ Fetched \/ Disconnected \/ Grant \/ \E t \in Tasks : Dropped(t)
  BY <1>1, <1>12 DEF Signal, StartedAgain, Waited, Fetched, Disconnected, Grant, Dropped
<1>13. CASE HandlerAsks \/ HandlerLooks \/ HandlerSetsLevel \/ HandlerUpdates \/ HandlerSaves
  BY <1>1, <1>13 DEF HandlerAsks, HandlerLooks, HandlerSetsLevel, HandlerUpdates, HandlerSaves
<1>14. CASE TelemetryAsks \/ Engine
  BY <1>1, <1>14 DEF TelemetryAsks, Engine, EngineAsks, EngineLooks
<1>15. CASE UNCHANGED allVars
  BY <1>1, <1>15 DEF allVars
<1>16. QED
  BY <1>4, <1>5, <1>6, <1>7, <1>8, <1>9, <1>10, <1>11, <1>12, <1>13, <1>14, <1>15
  DEF AgentNext, Handler, Telemetry, EventLoop, Shutdown

\* AgentInv by its parts.
LEMMA AgentParts ==
  AgentInv <=> /\ StartupOK /\ LockTypes /\ NetTypes
               /\ Queued /\ Exclusive /\ Lifecycle /\ FileIsMemory
<1>1. AgentInv => StartupOK /\ LockTypes /\ NetTypes
  BY DEF AgentInv, AgentOK, LockTypes, NetTypes, Links, Counts
<1>2. ASSUME StartupOK, LockTypes, NetTypes, Queued
      PROVE  AgentOK
  <2>1. \A i \in DOMAIN waiting : waiting[i] \in Waiter
    BY <1>2, ElementOfSeq, LenProperties DEF Queued
  <2>2. \A i \in DOMAIN waiting : holds[waiting[i].task] = "none"
    BY <1>2, <2>1 DEF Queued, Waits, Waiter
  <2>3. QED BY <1>2, <2>1, <2>2 DEF AgentOK, LockTypes, NetTypes, Links, Counts, Queued, Waiter
<1>3. QED BY <1>1, <1>2 DEF AgentInv

LEMMA AgentStarts == AgentInit => AgentInv
<1> SUFFICES ASSUME AgentInit PROVE AgentInv
  OBVIOUS
<1>1. StartupOK
  <2>1. file \in Config /\ memory = file /\ upsets = 0 /\ 0 \in 0..MaxUpsets
    BY StartupAssumption DEF AgentInit, StartupInit
  <2>2. phase \in Phases /\ spent \in BOOLEAN /\ unsaved \in BOOLEAN
    BY DEF AgentInit, StartupInit, Phases
  <2>3. QED BY <2>1, <2>2 DEF StartupOK
<1>2. LockTypes /\ NetTypes
  <2>1. LockTypes
    BY DEF AgentInit, LockTypes, Gone, Unlocked, Steps
  <2>2. Links
    BY DEF AgentInit, Links
  <2>3. Counts
    BY AgentAssumption DEF AgentInit, Counts
  <2>4. QED BY <2>1, <2>2, <2>3 DEF NetTypes
<1>3. Queued
  BY EmptySeq DEF AgentInit, Queued, Waits, Unlocked
<1>4. Exclusive /\ FileIsMemory
  BY DEF AgentInit, StartupInit, Exclusive, Unlocked, FileIsMemory
<1>5. Lifecycle
  BY DEF AgentInit, StartupInit, Lifecycle, AtRest, Gone, Lockers, Tasks
<1>6. QED BY <1>1, <1>2, <1>3, <1>4, <1>5, AgentParts

LEMMA AgentStep == AgentInv /\ [AgentNext]_allVars => AgentInv'
<1> SUFFICES ASSUME AgentInv, [AgentNext]_allVars PROVE AgentInv'
  OBVIOUS
<1>0. /\ StartupOK /\ LockTypes /\ NetTypes /\ Queued /\ Exclusive /\ Lifecycle /\ FileIsMemory
      /\ AgentOK
  BY AgentParts DEF AgentInv
<1>1. StartupOK' /\ NetTypes'
  BY <1>0, StartupOKStep, NetTypesStep
<1>2. LockTypes' /\ Queued' /\ Exclusive'
  BY <1>0, LockTypesStep, QueuedStep, ExclusiveStep
<1>3. Lifecycle' /\ FileIsMemory'
  BY <1>0, LifecycleStep, FileStep
<1>4. (StartupOK /\ LockTypes /\ NetTypes /\ Queued /\ Exclusive /\ Lifecycle /\ FileIsMemory
        => AgentInv)'
  BY AgentParts, PTL
<1>5. QED BY <1>1, <1>2, <1>3, <1>4

\* AgentInv holds in every reachable state.
THEOREM AgentInvariant == AgentSpec => []AgentInv
BY AgentStarts, AgentStep, PTL DEF AgentSpec

\* Types and bounds; each task waits for the lock once, and not while it has it.
THEOREM AgentTypes == AgentSpec => []AgentOK
<1>1. AgentInv => AgentOK
  BY DEF AgentInv
<1>2. QED BY <1>1, AgentInvariant, PTL

\* AppState is never changed while another task looks at it.
THEOREM LockExcludes == AgentSpec => []Exclusive
<1>1. AgentInv => Exclusive
  BY DEF AgentInv
<1>2. QED BY <1>1, AgentInvariant, PTL

\* Unless the last save failed, a running agent works with what is on disk, but
\* for the log level: credentials from the cloud and every accepted update.
THEOREM StaysOnDisk == AgentSpec => []KeptOnDisk
<1>1. AgentInv => KeptOnDisk
  BY StartupAssumption DEF AgentInv, FileIsMemory, KeptOnDisk
<1>2. QED BY <1>1, AgentInvariant, PTL

\* A graceful stop says goodbye under the lock, which a save in progress holds.
THEOREM SavesAreFinished == AgentSpec => StopsCleanly
<1>1. ASSUME AgentInv, [AgentNext]_allVars, phase' = "stopped", phase # "stopped"
      PROVE  pc["handler"] # "save"
  <2>1. Exit
    <3>1. ASSUME UNCHANGED phase \/ phase' \in {"down", "stopping", "closing"} PROVE FALSE
      BY <1>1, <3>1
    <3>2. ~Starts
      BY <1>1 DEF Starts, StartupStep, Load, Respawn, Activate, Received, OpenConfig, Saved, Connect
    <3>3. ~Handler /\ ~Telemetry /\ ~Engine
      BY <3>1
      DEF startupVars, Handler, HandlerAsks, HandlerReceives, HandlerLooks, HandlerAnswers,
          HandlerSetsLevel, HandlerUpdates, HandlerSaves, Telemetry, TelemetryAsks, TelemetryPublishes, Engine, EngineAsks, EngineLooks, Publish
    <3>4. /\ ~Grant /\ ~EventLoop /\ ~Disconnects /\ ~Reconnects /\ ~Close /\ ~Fetched /\ ~Disconnected
          /\ ~\E t \in Tasks : Dropped(t)
      BY <3>1
      DEF startupVars, Grant, EventLoop, Send, Receive, Deliver, Disconnects, Reconnects, Close, Fetched,
          Disconnected, Dropped
    <3>5. ~Crashes /\ ~Signal /\ ~Killed /\ ~StartedAgain /\ ~Waited
      BY <3>1 DEF Crashes, Crash, Signal, Killed, StartedAgain, Waited
    <3>6. ~UNCHANGED allVars
      BY <3>1 DEF allVars, startupVars
    <3>7. QED BY <1>1, <3>2, <3>3, <3>4, <3>5, <3>6 DEF AgentNext, Shutdown
  <2>2. holds["main"] = "write"
    BY <1>1, <2>1 DEF Exit, AgentInv, Lifecycle
  <2>3. QED BY <1>1, <2>2 DEF AgentInv, Lifecycle, Exclusive, Lockers, Tasks
<1>2. AgentInv /\ [AgentNext]_allVars
        => [phase' = "stopped" /\ phase # "stopped" => pc["handler"] # "save"]_allVars
  BY <1>1
<1>3. QED BY <1>2, AgentInvariant, PTL DEF AgentSpec, StopsCleanly

-----------------------------------------------------------------------------
(* The offline queue.                                                      *)

(* Ids are given out once: an id is the number of its message, so a        *)
(* consumer that holds a row holds the row of that id, or none is left.    *)
IdsAreSerials ==
  /\ last_id = serial
  /\ \A m \in table : m.id = m.serial /\ m.id <= last_id
  /\ \A c \in Consumers : \A k \in held[c] :
       /\ k.id <= last_id
       /\ \A m \in table : m.id = k.id => m = k

(* Within a stretch of the clock messages are stamped in their order.      *)
TimeFollowsSerial ==
  /\ \A m \in table : m.step <= steps /\ (m.step = steps => m.created_at <= now)
  /\ \A m, n \in table : m.step = n.step /\ m.serial < n.serial
                           => m.created_at <= n.created_at

QueueInv ==
  /\ TypeOK
  /\ IdsAreSerials
  /\ TimeFollowsSerial

-----------------------------------------------------------------------------
\* Rows with different ids are no more than there are ids.
LEMMA RowsAreFew ==
  ASSUME NEW rows \in SUBSET Row, \A m, n \in rows : m.id = n.id => m = n
  PROVE  IsFiniteSet(rows) /\ Cardinality(rows) \in 0..MaxId
<1> DEFINE f == [m \in rows |-> m.id]
<1>1. f \in Injection(rows, 1..MaxId)
  BY DEF Injection, IsInjective, Row
<1>2. IsFiniteSet(1..MaxId) /\ Cardinality(1..MaxId) = MaxId
  BY QueueAssumption, FS_Interval
<1>3. IsFiniteSet(rows) /\ Cardinality(rows) <= MaxId
  BY <1>1, <1>2, FS_Injection
<1>4. QED BY <1>3, FS_CardinalityType, QueueAssumption

LEMMA TableIsSmall ==
  ASSUME TypeOK
  PROVE  IsFiniteSet(table) /\ Cardinality(table) \in 0..MaxId
BY RowsAreFew DEF TypeOK

\* The order of rows compares numbers.
LEMMA RowTypes ==
  ASSUME NEW m \in Row
  PROVE  /\ m.id \in Nat /\ m.priority \in Nat /\ m.created_at \in Nat
         /\ m.step \in Nat /\ m.serial \in Nat
<1>1. Priorities \subseteq Nat
  BY QueueAssumption
<1>2. m.priority \in Nat
  BY <1>1 DEF Row
<1>3. m.id \in Nat /\ m.created_at \in Nat /\ m.step \in Nat /\ m.serial \in Nat
  BY QueueAssumption DEF Row
<1>4. QED BY <1>2, <1>3

\* evict_one and evict_for_disk_space delete rows that are there, and none of
\* them is more important than a row that stays.
LEMMA Evicted ==
  ASSUME NEW rows \in SUBSET Row, NEW n, NEW gone \in Evictable(rows, n)
  PROVE  /\ gone \subseteq rows
         /\ \A d \in gone, k \in rows \ gone : d.priority <= k.priority
<1>1. \A m \in rows : m.priority \in Nat
  BY RowTypes
<1>2. QED BY <1>1 DEF Evictable, Sooner

\* Before orders rows as the index does: strictly and transitively.
LEMMA BeforeIsAnOrder ==
  ASSUME NEW k \in Row, NEW m \in Row, NEW n \in Row
  PROVE  /\ ~Before(m, m)
         /\ Before(k, m) /\ Before(m, n) => Before(k, n)
BY RowTypes DEF Before

\* A query with a limit returns no row and leaves out one that comes before it.
LEMMA FirstComeFirst ==
  ASSUME NEW rows \in SUBSET Row, IsFiniteSet(rows), NEW n \in Nat,
         NEW m \in rows, NEW k \in First(rows, n), Before(m, k)
  PROVE  m \in First(rows, n)
<1> DEFINE before(r) == {x \in rows : Before(x, r)}
<1>1. k \in rows /\ Cardinality(before(k)) < n
  BY DEF First
<1>2. before(m) \subseteq before(k)
  BY <1>1, BeforeIsAnOrder
<1>3. IsFiniteSet(before(k))
  BY FS_Subset
<1>4. Cardinality(before(m)) <= Cardinality(before(k))
  BY <1>2, <1>3, FS_Subset
<1>5. Cardinality(before(m)) \in Nat /\ Cardinality(before(k)) \in Nat
  BY <1>2, <1>3, FS_Subset, FS_CardinalityType
<1>6. QED BY <1>1, <1>4, <1>5 DEF First

-----------------------------------------------------------------------------
NewRow(p) ==
  [id |-> last_id + 1, priority |-> p, created_at |-> now, step |-> steps,
   serial |-> serial + 1]

(* What enqueue may have done: the rows outside rest were evicted.         *)
Stored(p, rest) ==
  /\ table' = rest \cup {NewRow(p)}
  /\ serial < MaxId /\ serial' = serial + 1 /\ last_id' = last_id + 1
  /\ pages' = AtLeast(pages, Cardinality(table'))

Refused(rest) == table' = rest /\ UNCHANGED <<last_id, serial, pages>>

\* The promise counts as the queue does.
LEMMA SameCount == ASSUME NEW S PROVE Queue!Cardinality(S) = Cardinality(S)
BY DEF Queue!Cardinality, Cardinality

\* Counting rows: a count of them is right, or fails and is taken for none.
LEMMA CountsAreNumbers ==
  ASSUME TypeOK, NEW counted \in RowCounts
  PROVE  /\ counted \in Nat /\ counted <= Cardinality(table)
         /\ EvictCount(counted) \in Nat
         /\ EvictCount(counted) <= AtLeast(Cardinality(table) \div 10, EvictFloor)
         /\ counted # Cardinality(table) => missed < MaxMissed
<1>1. Cardinality(table) \in Nat
  BY TableIsSmall, QueueAssumption
<1>2. counted \in Nat /\ counted <= Cardinality(table)
  BY <1>1 DEF RowCounts
<1>3. counted # Cardinality(table) => missed < MaxMissed
  BY DEF RowCounts
<1>4. counted \div 10 \in Nat /\ counted \div 10 <= Cardinality(table) \div 10
  BY <1>1, <1>2
<1>5. EvictFloor \in Nat
  BY QueueAssumption
<1>6. QED BY <1>1, <1>2, <1>3, <1>4, <1>5 DEF EvictCount, AtMost, AtLeast

\* Whether it fails or not, enqueue gives up only the least important messages, one
\* at least when it finds the queue full, and no more than they cost at most.
LEMMA EnqueueGivesUpLeast ==
  ASSUME TypeOK, NEW p \in Priorities, Enqueue(p)
  PROVE  \E rest \in SUBSET table :
           /\ \A d \in table \ rest, k \in rest : d.priority <= k.priority
           /\ Full(Cardinality(table)) /\ table # {} /\ missed' = missed => rest # table
           /\ Cardinality(table \ rest) <= Queue!Cost
           /\ Stored(p, rest) \/ Refused(rest)
           /\ missed' \in {missed, missed + 1} /\ missed' \in 0..MaxMissed
           /\ UNCHANGED <<max_size, held, now, opened, steps>>
<1>1. PICK counted \in RowCounts, seen \in FileSizes :
        \E one \in IF Full(counted) THEN Evictable(table, 1) ELSE {{}} :
        \E some \in IF DiskFull(seen) THEN Evictable(table \ one, EvictCount(counted))
                                      ELSE {{}} :
          /\ missed' = IF counted = Cardinality(table) THEN missed ELSE missed + 1
          /\ \/ Stored(p, table \ (one \cup some))
             \/ Refused(table \ one) \/ Refused(table \ (one \cup some))
  BY DEF Enqueue, Stored, Refused, NewRow
<1>0. PICK one \in IF Full(counted) THEN Evictable(table, 1) ELSE {{}} :
        \E some \in IF DiskFull(seen) THEN Evictable(table \ one, EvictCount(counted))
                                      ELSE {{}} :
          /\ missed' = IF counted = Cardinality(table) THEN missed ELSE missed + 1
          /\ \/ Stored(p, table \ (one \cup some))
             \/ Refused(table \ one) \/ Refused(table \ (one \cup some))
  BY <1>1
<1>2. PICK some \in IF DiskFull(seen) THEN Evictable(table \ one, EvictCount(counted))
                                     ELSE {{}} :
          /\ missed' = IF counted = Cardinality(table) THEN missed ELSE missed + 1
          /\ \/ Stored(p, table \ (one \cup some))
             \/ Refused(table \ one) \/ Refused(table \ (one \cup some))
  BY <1>0
<1>3. UNCHANGED <<max_size, held, now, opened, steps>>
  BY DEF Enqueue
<1>4. one \subseteq table /\ \A d \in one, k \in table \ one : d.priority <= k.priority
  BY Evicted DEF TypeOK
<1>5. /\ some \subseteq table \ one
      /\ \A d \in some, k \in (table \ one) \ some : d.priority <= k.priority
  BY Evicted DEF TypeOK
<1>6. missed' \in {missed, missed + 1} /\ missed' \in 0..MaxMissed
  BY <1>2, CountsAreNumbers, QueueAssumption DEF TypeOK
<1>7. IsFiniteSet(table) /\ Cardinality(table) \in Nat
  BY TableIsSmall, QueueAssumption
<1>8. ASSUME Full(Cardinality(table)), table # {}, missed' = missed PROVE one # {}
  <2>1. counted = Cardinality(table)
    BY <1>2, <1>8, QueueAssumption DEF TypeOK
  <2>2. Cardinality(one) = AtMost(1, Cardinality(table))
    BY <1>2, <1>8, <2>1 DEF Evictable
  <2>3. Cardinality(table) # 0
    BY <1>7, <1>8, FS_EmptySet
  <2>4. QED BY <1>7, <2>2, <2>3, FS_EmptySet DEF AtMost
<1>9. /\ IsFiniteSet(one) /\ Cardinality(one) \in Nat
      /\ Cardinality(one) <= IF Cardinality(table) >= max_size THEN 1 ELSE 0
  <2>1. IsFiniteSet(one) /\ Cardinality(one) \in Nat
    BY <1>4, <1>7, FS_Subset, FS_CardinalityType
  <2>2. CASE Full(counted)
    <3>1. Cardinality(one) <= 1
      BY <1>2, <1>7, <2>2 DEF Evictable, AtMost
    <3>2. Cardinality(table) >= max_size
      BY <2>2, <1>7, CountsAreNumbers, QueueAssumption DEF Full, TypeOK
    <3>3. QED BY <2>1, <3>1, <3>2
  <2>3. CASE ~Full(counted)
    BY <1>2, <2>1, <2>3, FS_EmptySet
  <2>4. QED BY <2>2, <2>3
<1>10. /\ IsFiniteSet(some) /\ Cardinality(some) \in Nat
       /\ Cardinality(some) <= IF DiskFull(pages)
                               THEN AtLeast(Cardinality(table) \div 10, EvictFloor) ELSE 0
  <2>1. IsFiniteSet(some) /\ Cardinality(some) \in Nat
    BY <1>5, <1>7, FS_Subset, FS_CardinalityType
  <2>2. CASE DiskFull(seen)
    <3>1. DiskFull(pages)
      BY <2>2, QueueAssumption DEF DiskFull, FileSizes
    <3>2. Cardinality(table \ one) \in Nat
      BY <1>7, FS_Subset, FS_CardinalityType
    <3>3. Cardinality(some) <= EvictCount(counted)
      BY <1>2, <2>2, <3>2, CountsAreNumbers DEF Evictable, AtMost
    <3>4. Cardinality(table) \div 10 \in Nat /\ EvictFloor \in Nat
      BY <1>7, QueueAssumption
    <3>5. QED BY <2>1, <3>1, <3>3, <3>4, CountsAreNumbers DEF AtLeast
  <2>3. CASE ~DiskFull(seen)
    <3>1. Cardinality(some) = 0
      BY <1>2, <2>3, FS_EmptySet
    <3>2. Cardinality(table) \div 10 \in Nat /\ EvictFloor \in Nat
      BY <1>7, QueueAssumption
    <3>3. QED BY <2>1, <3>1, <3>2 DEF AtLeast
  <2>4. QED BY <2>2, <2>3
<1>11. Cardinality(one) + Cardinality(some) <= Queue!Cost
  <2>1. Cardinality(table) \div 10 \in Nat /\ EvictFloor \in Nat
    BY <1>7, QueueAssumption
  <2>2. QED BY <1>9, <1>10, <2>1, SameCount DEF Queue!Cost, AtLeast
<1>12. CASE Refused(table \ one)
  <2> WITNESS table \ one \in SUBSET table
  <2>1. table \ (table \ one) = one
    BY <1>4
  <2>2. Cardinality(one) <= Queue!Cost
    <3>1. Cardinality(table) \div 10 \in Nat /\ EvictFloor \in Nat
      BY <1>7, QueueAssumption
    <3>2. QED BY <1>9, <3>1, SameCount DEF Queue!Cost
  <2>3. Cardinality(table \ (table \ one)) <= Queue!Cost
    BY <2>1, <2>2
  <2> QED BY <1>3, <1>4, <1>6, <1>8, <1>12, <2>3
<1>13. CASE Stored(p, table \ (one \cup some)) \/ Refused(table \ (one \cup some))
  <2> WITNESS table \ (one \cup some) \in SUBSET table
  <2>1. \A d \in table \ (table \ (one \cup some)), k \in table \ (one \cup some) :
          d.priority <= k.priority
    BY <1>4, <1>5
  <2>2. Full(Cardinality(table)) /\ table # {} /\ missed' = missed
          => table \ (one \cup some) # table
    BY <1>4, <1>8
  <2>3. table \ (table \ (one \cup some)) = one \cup some /\ one \cap some = {}
    BY <1>4, <1>5
  <2>4. Cardinality(one \cup some) = Cardinality(one) + Cardinality(some)
    <3>1. Cardinality(one \cup some)
            = Cardinality(one) + Cardinality(some) - Cardinality(one \cap some)
      BY <1>9, <1>10, FS_Union
    <3>2. Cardinality(one \cap some) = 0
      BY <2>3, FS_EmptySet
    <3>3. QED BY <1>9, <1>10, <3>1, <3>2
  <2>5. Cardinality(table \ (table \ (one \cup some))) <= Queue!Cost
    BY <1>11, <2>3, <2>4
  <2> QED BY <1>3, <1>6, <1>13, <2>1, <2>2, <2>5
<1>14. QED BY <1>2, <1>12, <1>13

-----------------------------------------------------------------------------
\* An empty queue.
LEMMA InitInv == Init => QueueInv
<1> SUFFICES ASSUME Init PROVE QueueInv
  OBVIOUS
<1>1. Cardinality({}) = 0
  BY FS_EmptySet
<1>2. TypeOK
  BY <1>1, QueueAssumption DEF Init, TypeOK, SizeBounded, AtLeast
<1>3. QED BY <1>2 DEF Init, QueueInv, IdsAreSerials, TimeFollowsSerial

\* Rows keep their types and their ids through every step.
LEMMA TypeStep == QueueInv /\ [Next]_vars => TypeOK'
<1> SUFFICES ASSUME QueueInv, [Next]_vars PROVE TypeOK'
  OBVIOUS
<1> USE DEF TypeOK, SizeBounded, AtLeast
<1>0. /\ IsFiniteSet(table) /\ Cardinality(table) \in 0..MaxId
      /\ \A rows \in SUBSET table :
           IsFiniteSet(rows) /\ Cardinality(rows) \in 0..Cardinality(table)
  <2>1. TypeOK
    BY DEF QueueInv
  <2>2. IsFiniteSet(table) /\ Cardinality(table) \in 0..MaxId
    BY <2>1, TableIsSmall
  <2>3. QED BY <2>2, FS_Subset, FS_CardinalityType
<1>1. ASSUME NEW p \in Priorities, Enqueue(p) PROVE TypeOK'
  <2>1. PICK rest \in SUBSET table :
           /\ Full(Cardinality(table)) /\ table # {} /\ missed' = missed => rest # table
           /\ Stored(p, rest) \/ Refused(rest)
           /\ missed' \in {missed, missed + 1} /\ missed' \in 0..MaxMissed
           /\ UNCHANGED <<max_size, held, now, opened, steps>>
    BY <1>1, EnqueueGivesUpLeast DEF QueueInv
  <2>2. CASE Refused(rest)
    BY <1>0, <2>1, <2>2, QueueAssumption DEF QueueInv, Refused
  <2>3. CASE Stored(p, rest)
    <3>1. NewRow(p) \in Row
      BY <2>3, QueueAssumption DEF NewRow, Row, Stored, QueueInv, IdsAreSerials
    <3>2. /\ table' \subseteq Row
          /\ \A m, n \in table' : m.id = n.id => m = n
          /\ \A m \in table' : m.id <= last_id'
      <4>1. \A m \in table : m.id \in Nat
        BY RowTypes DEF QueueInv
      <4>2. NewRow(p).id = last_id + 1
        BY DEF NewRow
      <4>3. QED BY <2>3, <3>1, <4>1, <4>2, QueueAssumption DEF QueueInv, Stored
    <3>3. Cardinality(table') \in 0..MaxId
      BY <3>2, RowsAreFew
    <3>4. SizeBounded'
      <4>1. Cardinality(table') <= Cardinality(rest) + 1
        <5>1. IsFiniteSet(rest) /\ Cardinality(rest) \in Nat
          BY <1>0, QueueAssumption
        <5>2. Cardinality(rest \cup {NewRow(p)})
                = IF NewRow(p) \in rest THEN Cardinality(rest) ELSE Cardinality(rest) + 1
          BY <5>1, FS_AddElement
        <5>3. QED BY <2>3, <5>1, <5>2 DEF Stored
      <4>2. /\ Cardinality(rest) \in Nat /\ Cardinality(rest) <= Cardinality(table)
            /\ Cardinality(table) \in Nat /\ max_size \in Nat /\ opened \in Nat
            /\ missed \in Nat
        BY <1>0, QueueAssumption DEF QueueInv
      <4>3. CASE missed' = missed + 1
        BY <2>1, <3>3, <4>1, <4>2, <4>3 DEF QueueInv
      <4>4. CASE missed' = missed /\ Full(Cardinality(table)) /\ table # {}
        <5>1. Cardinality(rest) < Cardinality(table)
          BY <1>0, <2>1, <4>4, FS_Subset
        <5>2. QED BY <2>1, <3>3, <4>1, <4>2, <4>4, <5>1 DEF QueueInv
      <4>5. CASE missed' = missed /\ table = {}
        <5>1. Cardinality(rest) = 0
          BY <4>5, FS_EmptySet
        <5>2. QED BY <2>1, <3>3, <4>1, <4>2, <4>5, <5>1 DEF QueueInv
      <4>6. CASE missed' = missed /\ ~Full(Cardinality(table))
        BY <2>1, <3>3, <4>1, <4>2, <4>6 DEF QueueInv, Full
      <4>7. QED BY <2>1, <4>3, <4>4, <4>5, <4>6
    <3>5. pages' \in 0..MaxId /\ last_id' \in 0..MaxId /\ serial' \in 0..MaxId
      BY <2>3, <3>3, QueueAssumption DEF Stored, QueueInv, IdsAreSerials
    <3>6. QED BY <2>1, <3>2, <3>4, <3>5 DEF QueueInv
  <2>4. QED BY <2>1, <2>2, <2>3
<1>2. ASSUME NEW c \in Consumers, NEW n \in BatchSizes, Peek(c, n) PROVE TypeOK'
  <2>1. table' \subseteq table
    BY <1>2 DEF Peek, Live
  <2>2. held' \in [Consumers -> SUBSET Row]
    BY <1>2, <2>1 DEF Peek, First, QueueInv
  <2>3. UNCHANGED <<last_id, pages, max_size, now, opened, missed, steps, serial>>
    BY <1>2 DEF Peek
  <2>4. SizeBounded'
    BY <1>0, <2>1, <2>3, QueueAssumption DEF QueueInv
  <2>5. QED BY <2>1, <2>2, <2>3, <2>4 DEF QueueInv
<1>3. ASSUME NEW c \in Consumers, NEW done \in SUBSET held[c] \ {{}}, Ack(c, done) PROVE TypeOK'
  <2>1. table' \subseteq table /\ held' \in [Consumers -> SUBSET Row]
    BY <1>3 DEF Ack, QueueInv
  <2>2. QED BY <1>0, <1>3, <2>1, QueueAssumption DEF Ack, QueueInv
<1>4. ASSUME NEW m \in MaxSizes, Open(m) PROVE TypeOK'
  BY <1>0, <1>4, QueueAssumption DEF Open, QueueInv
<1>5. CASE Clear
  <2>1. Cardinality(table') = 0
    BY <1>5, FS_EmptySet DEF Clear
  <2>2. QED BY <1>5, <2>1, QueueAssumption DEF Clear, QueueInv
<1>6. CASE Vacuum
  BY <1>0, <1>6 DEF Vacuum, QueueInv
<1>7. CASE Tick
  BY <1>7, QueueAssumption DEF Tick, QueueInv
<1>8. CASE SetBack
  BY <1>8, QueueAssumption DEF SetBack, QueueInv
<1>9. CASE UNCHANGED vars
  BY <1>9 DEF vars, QueueInv
<1>10. QED BY <1>1, <1>2, <1>3, <1>4, <1>5, <1>6, <1>7, <1>8, <1>9 DEF Next

\* Ids are never given out twice, and what consumers hold stays right.
LEMMA IdStep == QueueInv /\ [Next]_vars => IdsAreSerials'
<1> SUFFICES ASSUME QueueInv, [Next]_vars PROVE IdsAreSerials'
  OBVIOUS
<1> USE DEF IdsAreSerials
<1>0. /\ \A m \in table : m \in Row /\ m.id \in Nat
      /\ \A c \in Consumers : \A k \in held[c] : k \in Row /\ k.id \in Nat
      /\ last_id \in Nat
  BY RowTypes DEF QueueInv, TypeOK
<1>1. ASSUME table' \subseteq table, UNCHANGED <<last_id, serial>>,
             \A c \in Consumers : held'[c] \subseteq held[c] \cup table
      PROVE  IdsAreSerials'
  <2>1. \A m, n \in table : m.id = n.id => m = n
    BY DEF QueueInv, TypeOK
  <2>2. QED BY <1>1, <2>1 DEF QueueInv
<1>2. ASSUME NEW p \in Priorities, Enqueue(p) PROVE IdsAreSerials'
  <2>1. PICK rest \in SUBSET table : (Stored(p, rest) \/ Refused(rest)) /\ UNCHANGED held
    BY <1>2, EnqueueGivesUpLeast DEF QueueInv
  <2>2. CASE Refused(rest)
    BY <1>1, <2>1, <2>2 DEF Refused
  <2>3. CASE Stored(p, rest)
    <3>1. NewRow(p).id = last_id + 1 /\ NewRow(p).serial = serial + 1
      BY DEF NewRow
    <3>2. \A m \in rest : m.id = m.serial /\ m.id <= last_id /\ m.id \in Nat
      BY <1>0 DEF QueueInv
    <3>3. \A c \in Consumers : \A k \in held[c] :
            k.id <= last_id /\ k.id \in Nat /\ \A m \in rest : m.id = k.id => m = k
      BY <1>0 DEF QueueInv
    <3>4. QED BY <1>0, <2>1, <2>3, <3>1, <3>2, <3>3 DEF Stored, QueueInv
  <2>4. QED BY <2>1, <2>2, <2>3
<1>3. ASSUME NEW c \in Consumers, NEW n \in BatchSizes, Peek(c, n) PROVE IdsAreSerials'
  <2>1. table' \subseteq table /\ First(table', n) \subseteq table
    BY <1>3 DEF Peek, Live, First
  <2>2. \A d \in Consumers : held'[d] \subseteq held[d] \cup table
    BY <1>3, <2>1 DEF Peek, QueueInv, TypeOK
  <2>3. QED BY <1>1, <1>3, <2>1, <2>2 DEF Peek
<1>4. ASSUME NEW c \in Consumers, NEW done \in SUBSET held[c] \ {{}}, Ack(c, done)
      PROVE  IdsAreSerials'
  BY <1>1, <1>4 DEF Ack, QueueInv, TypeOK
<1>5. ASSUME NEW m \in MaxSizes, Open(m) PROVE IdsAreSerials'
  BY <1>1, <1>5 DEF Open
<1>6. CASE Clear \/ Vacuum \/ Tick \/ SetBack \/ UNCHANGED vars
  BY <1>1, <1>6 DEF Clear, Vacuum, Tick, SetBack, vars
<1>7. QED BY <1>2, <1>3, <1>4, <1>5, <1>6 DEF Next

\* A message that is stored is the last of its stretch of the clock; setting the
\* clock back begins a new one.
LEMMA TimeStep == QueueInv /\ [Next]_vars => TimeFollowsSerial'
<1> SUFFICES ASSUME QueueInv, [Next]_vars PROVE TimeFollowsSerial'
  OBVIOUS
<1> USE DEF TimeFollowsSerial
<1>0. /\ \A m \in table : /\ m.step \in Nat /\ m.created_at \in Nat /\ m.serial \in Nat
                          /\ m.serial <= serial
      /\ serial \in Nat /\ now \in Nat /\ steps \in Nat
  BY RowTypes, QueueAssumption DEF QueueInv, TypeOK, IdsAreSerials
<1>1. ASSUME table' \subseteq table, UNCHANGED <<now, steps>> PROVE TimeFollowsSerial'
  BY <1>1 DEF QueueInv
<1>2. ASSUME NEW p \in Priorities, Enqueue(p) PROVE TimeFollowsSerial'
  <2>1. PICK rest \in SUBSET table :
          (Stored(p, rest) \/ Refused(rest)) /\ UNCHANGED <<now, steps>>
    BY <1>2, EnqueueGivesUpLeast DEF QueueInv
  <2>2. CASE Refused(rest)
    BY <1>1, <2>1, <2>2 DEF Refused
  <2>3. CASE Stored(p, rest)
    <3>1. /\ NewRow(p).step = steps /\ NewRow(p).created_at = now
          /\ NewRow(p).serial = serial + 1
      BY DEF NewRow
    <3>2. QED BY <1>0, <2>1, <2>3, <3>1 DEF Stored, QueueInv
  <2>4. QED BY <2>1, <2>2, <2>3
<1>3. CASE Tick
  BY <1>0, <1>3 DEF Tick, QueueInv
<1>4. CASE SetBack
  <2>1. table' = table /\ steps' = steps + 1
    BY <1>4 DEF SetBack
  <2>2. QED BY <1>0, <2>1 DEF QueueInv
<1>5. ASSUME NEW c \in Consumers, NEW n \in BatchSizes, Peek(c, n) PROVE TimeFollowsSerial'
  BY <1>1, <1>5 DEF Peek, Live
<1>6. ASSUME NEW c \in Consumers, NEW done \in SUBSET held[c] \ {{}}, Ack(c, done)
      PROVE  TimeFollowsSerial'
  BY <1>1, <1>6 DEF Ack
<1>7. ASSUME NEW m \in MaxSizes, Open(m) PROVE TimeFollowsSerial'
  BY <1>1, <1>7 DEF Open
<1>8. CASE Clear \/ Vacuum \/ UNCHANGED vars
  BY <1>1, <1>8 DEF Clear, Vacuum, vars
<1>9. QED BY <1>2, <1>3, <1>4, <1>5, <1>6, <1>7, <1>8 DEF Next

\* QueueInv holds in every reachable state.
THEOREM QueueInvariant == Spec => []QueueInv
<1>1. QueueInv /\ [Next]_vars => QueueInv'
  BY TypeStep, IdStep, TimeStep DEF QueueInv
<1>2. QED BY InitInv, <1>1, PTL DEF Spec

\* Rows keep their types, ids are unique and the queue never outgrows its size.
THEOREM QueueTypes == Spec => []TypeOK
<1>1. QueueInv => TypeOK
  BY DEF QueueInv
<1>2. QED BY <1>1, QueueInvariant, PTL

-----------------------------------------------------------------------------
\* peek shows the first rows: those it leaves out are no more important, and the
\* equally important ones came later if the clock was not set back in between.
LEMMA FirstAreBest ==
  ASSUME QueueInv, NEW rows \in SUBSET table, NEW n \in Nat
  PROVE  /\ First(rows, n) \subseteq rows
         /\ Queue!NoMoreImportant(rows \ First(rows, n), First(rows, n))
         /\ Queue!NoneBefore(rows \ First(rows, n), First(rows, n))
<1>1. First(rows, n) \subseteq rows
  BY DEF First
<1>2. rows \in SUBSET Row /\ IsFiniteSet(rows)
  BY TableIsSmall, FS_Subset DEF QueueInv, TypeOK
<1>3. ASSUME NEW m \in rows \ First(rows, n), NEW k \in First(rows, n)
      PROVE  /\ m.priority <= k.priority
             /\ m.priority = k.priority /\ m.step = k.step => k.serial < m.serial
  <2>1. ~Before(m, k)
    BY <1>2, <1>3, FirstComeFirst
  <2>2. /\ m \in table /\ k \in table /\ m # k
        /\ m.priority \in Nat /\ m.created_at \in Nat /\ m.serial \in Nat
        /\ k.priority \in Nat /\ k.created_at \in Nat /\ k.serial \in Nat
    BY <1>1, <1>2, <1>3, RowTypes
  <2>3. m.id = m.serial /\ k.id = k.serial /\ m.id # k.id
    BY <2>2 DEF QueueInv, TypeOK, IdsAreSerials
  <2>4. m.step = k.step /\ m.serial < k.serial => m.created_at <= k.created_at
    BY <2>2 DEF QueueInv, TimeFollowsSerial
  <2>5. QED BY <2>1, <2>2, <2>3, <2>4 DEF Before
<1>4. QED BY <1>1, <1>3 DEF Queue!NoMoreImportant, Queue!NoneBefore

\* peek shows a row if there is one.
LEMMA OneIsFirst ==
  ASSUME QueueInv, NEW rows \in SUBSET table, rows # {}, NEW n \in Nat \ {0}
  PROVE  First(rows, n) # {}
<1> DEFINE late(k) == {x \in rows : Before(x, k)}
           lates == {late(k) : k \in rows}
<1>1. rows \in SUBSET Row /\ IsFiniteSet(rows)
  BY TableIsSmall, FS_Subset DEF QueueInv, TypeOK
<1>2. PICK k \in rows : \A m \in rows : ~(late(m) \subseteq late(k) /\ late(m) # late(k))
  <2>1. lates \subseteq SUBSET rows /\ lates # {}
    OBVIOUS
  <2>2. IsWellFoundedOn(StrictSubsetOrdering(rows), SUBSET rows)
    BY <1>1, FS_StrictSubsetOrderingWellFounded, FS_FiniteSubsetsOfFinite
  <2>3. \E x \in lates : \A y \in lates : ~(<<y, x>> \in StrictSubsetOrdering(rows))
    BY <2>1, <2>2, WFMin
  <2>4. \A x, y \in SUBSET rows :
          x \subseteq y /\ x # y => <<x, y>> \in StrictSubsetOrdering(rows)
    BY DEF StrictSubsetOrdering
  <2>5. PICK x \in lates : \A y \in lates : ~(<<y, x>> \in StrictSubsetOrdering(rows))
    BY <2>3
  <2>6. PICK k \in rows : x = late(k)
    OBVIOUS
  <2>7. ASSUME NEW m \in rows, late(m) \subseteq late(k), late(m) # late(k) PROVE FALSE
    <3>1. late(m) \in lates
      OBVIOUS
    <3>2. ~(<<late(m), x>> \in StrictSubsetOrdering(rows))
      BY <2>5, <3>1
    <3>3. <<late(m), late(k)>> \in StrictSubsetOrdering(rows)
      BY <2>4, <2>7
    <3>4. QED BY <2>6, <3>2, <3>3
  <2>8. QED BY <2>7
<1>3. ASSUME NEW m \in late(k) PROVE FALSE
  <2>1. m \in rows /\ m \notin late(m) /\ m \in late(k)
    BY <1>1, <1>3, BeforeIsAnOrder
  <2>2. late(m) \subseteq late(k)
    BY <1>1, <1>3, BeforeIsAnOrder
  <2>3. QED BY <1>2, <2>1, <2>2
<1>4. Cardinality(late(k)) = 0
  BY <1>3, FS_EmptySet
<1>5. QED BY <1>4 DEF First

\* Every step of the queue is one its promise allows, or changes nothing of it.
LEMMA StepKeepsPromise == QueueInv /\ [Next]_vars => [Queue!Step]_(Queue!vars)
<1> SUFFICES ASSUME QueueInv, [Next]_vars PROVE [Queue!Step]_(Queue!vars)
  OBVIOUS
<1> USE DEF Queue!Step, Queue!vars
<1>0. DOMAIN held = Consumers
  BY DEF QueueInv, TypeOK
<1>1. ASSUME NEW p \in Priorities, Enqueue(p) PROVE Queue!Accept
  <2>1. PICK rest \in SUBSET table :
          /\ \A d \in table \ rest, k \in rest : d.priority <= k.priority
          /\ Cardinality(table \ rest) <= Queue!Cost
          /\ Stored(p, rest) \/ Refused(rest)
          /\ UNCHANGED held
    BY <1>1, EnqueueGivesUpLeast DEF QueueInv
  <2>2. \A m \in table : m.id \in Nat /\ m.id <= last_id /\ last_id \in Nat
    BY RowTypes DEF QueueInv, TypeOK
  <2>3. NewRow(p).id = last_id + 1
    BY DEF NewRow
  <2>4. NewRow(p) \notin table
    BY <2>2, <2>3
  <2>5. /\ Queue!Leaving = table \ rest /\ table \ Queue!Leaving = rest
        /\ Queue!Entering \subseteq {NewRow(p)}
    BY <2>1, <2>4 DEF Stored, Refused, Queue!Leaving, Queue!Entering
  <2>6. QED BY <2>1, <2>2, <2>3, <2>5, SameCount DEF Queue!Accept, Queue!NoMoreImportant
<1>2. ASSUME NEW c \in Consumers, NEW n \in BatchSizes, Peek(c, n)
      PROVE  Queue!Show(c) \/ Queue!Expire
  <2>1. /\ table' \subseteq table /\ n \in Nat \ {0}
        /\ Queue!Entering = {} /\ \A m \in Queue!Leaving : Queue!TooOld(m)
    <3>1. \A m \in table \ Live(table) : Queue!TooOld(m)
      <4>1. \A m \in table : m.created_at \in Nat
        BY RowTypes DEF QueueInv, TypeOK
      <4>2. QED BY <4>1, QueueAssumption DEF Live, Queue!TooOld, QueueInv, TypeOK
    <3>2. Live(table) \subseteq table
      BY DEF Live
    <3>3. QED BY <1>2, <3>1, <3>2, QueueAssumption DEF Peek, Queue!Entering, Queue!Leaving
  <2>2. CASE held' = held
    BY <2>1, <2>2 DEF Queue!Expire
  <2>3. CASE held' = [held EXCEPT ![c] = First(table', n)]
    <3>1. held'[c] = First(table', n) /\ held' = [held EXCEPT ![c] = held'[c]]
      BY <1>0, <2>3
    <3>2. /\ First(table', n) \subseteq table'
          /\ Queue!NoMoreImportant(table' \ First(table', n), First(table', n))
          /\ Queue!NoneBefore(table' \ First(table', n), First(table', n))
      BY <2>1, FirstAreBest
    <3>3. First(table', n) = {} => table' = {}
      BY <2>1, OneIsFirst
    <3>4. QED BY <2>1, <3>1, <3>2, <3>3 DEF Queue!Show
  <2>4. QED BY <1>2, <2>2, <2>3 DEF Peek
<1>3. ASSUME NEW c \in Consumers, NEW done \in SUBSET held[c] \ {{}}, Ack(c, done)
      PROVE  Queue!Settle(c)
  <2>1. held' = [held EXCEPT ![c] = held'[c]] /\ held'[c] = held[c] \ done
    BY <1>0, <1>3 DEF Ack
  <2>2. held[c] \ held'[c] = done
    BY <1>3, <2>1
  <2>3. \A m \in table, k \in done : m.id = k.id <=> m = k
    BY <1>3 DEF QueueInv, IdsAreSerials
  <2>4. Queue!Leaving = table \cap done /\ Queue!Entering = {}
    BY <1>3, <2>3 DEF Ack, Queue!Leaving, Queue!Entering
  <2>5. QED BY <2>1, <2>2, <2>4 DEF Queue!Settle
<1>4. ASSUME NEW m \in MaxSizes, Open(m) PROVE Queue!Forget
  BY <1>0, <1>4 DEF Open, Queue!Forget
<1>5. CASE Clear
  BY <1>5 DEF Clear, Queue!Clear
<1>6. CASE Vacuum \/ Tick \/ SetBack \/ UNCHANGED vars
  BY <1>6 DEF Vacuum, Tick, SetBack, vars
<1>7. QED BY <1>0, <1>1, <1>2, <1>3, <1>4, <1>5, <1>6 DEF Next

\* The queue implements PriorityQueue: what is evicted is the least important, what
\* is shown the most important and in order, and no ack removes another message.
THEOREM PromiseIsKept == Spec => KeepsPromise
<1>1. Init => Queue!Start
  BY DEF Init, Queue!Start
<1>2. QED BY <1>1, QueueInvariant, StepKeepsPromise, PTL DEF Spec, KeepsPromise, Queue!Promise

=============================================================================
