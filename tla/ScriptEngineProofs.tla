------------------------- MODULE ScriptEngineProofs -------------------------
(* Proofs about ScriptEngine, for any scripts, priorities, targets, values *)
(* and limits.                                                             *)
EXTENDS ScriptEngine, SequenceTheorems, FiniteSetTheorems, TLAPS

-----------------------------------------------------------------------------
(* The helpers on the stack of executions.                                 *)

LEMMA StackParts ==
  ASSUME stack \in Seq(Frame), stack # <<>>
  PROVE  /\ Len(stack) \in Nat /\ Len(stack) >= 1
         /\ Below \in Seq(Frame) /\ Len(Below) = Len(stack) - 1
         /\ \A i \in 1..(Len(stack) - 1) : Below[i] = stack[i]
         /\ Top \in Frame
<1> DEFINE n == Len(stack)
<1>1. n \in Nat /\ n >= 1 /\ \A i \in 1..n : stack[i] \in Frame
  BY EmptySeq, LenProperties, ElementOfSeq
<1> HIDE DEF n
<1>2. \A i \in 1..(n - 1) : stack[i] \in Frame
  BY <1>1
<1>3. /\ Below \in Seq(Frame)
      /\ Len(Below) = IF 1 <= n - 1 THEN n - 1 - 1 + 1 ELSE 0
      /\ \A i \in 1..(n - 1 - 1 + 1) : Below[i] = stack[1 + i - 1]
  BY <1>1, <1>2, SubSeqProperties DEF Below, n
<1>4. Len(Below) = n - 1
  <2> DEFINE m == Len(Below)
  <2> HIDE DEF m
  <2>1. m = n - 1
    BY <1>1, <1>3 DEF m
  <2> QED
    BY <2>1 DEF m
<1>5. ASSUME NEW i \in 1..(n - 1)
      PROVE  Below[i] = stack[i]
  BY <1>1, <1>3
<1>6. Top \in Frame
  BY <1>1 DEF Top, n
<1> QED
  BY <1>1, <1>3, <1>4, <1>5, <1>6 DEF n

LEMMA Push ==
  ASSUME stack \in Seq(Frame), stack # <<>>, NEW f \in Frame
  PROVE  /\ Append(Below, f) \in Seq(Frame)
         /\ Append(Below, f) # <<>>
         /\ Len(Append(Below, f)) = Len(stack)
         /\ \A i \in 1..(Len(stack) - 1) : Append(Below, f)[i] = stack[i]
         /\ Append(Below, f)[Len(stack)] = f
<1> DEFINE n == Len(stack)  m == Len(Below)  q == Append(Below, f)
<1>1. n \in Nat /\ n >= 1 /\ Below \in Seq(Frame) /\ m = n - 1
  BY StackParts
<1>2. \A i \in 1..(n - 1) : Below[i] = stack[i]
  BY StackParts
<1>3. q \in Seq(Frame) /\ q # <<>> /\ Len(q) = m + 1
      /\ (\A i \in 1..m : q[i] = Below[i]) /\ q[m + 1] = f
  BY <1>1, AppendProperties
<1> DEFINE k == Len(q)
<1> HIDE DEF n, m, q, k
<1>4. k = n /\ m + 1 = n
  BY <1>1, <1>3 DEF k
<1>5. ASSUME NEW i \in 1..(n - 1) PROVE q[i] = stack[i]
  BY <1>1, <1>2, <1>3
<1> QED
  BY <1>3, <1>4, <1>5 DEF n, q, k

(* A frame keeps its identity when an action of it comes out.              *)
SameExecution(f, g) ==
  /\ f.script = g.script
  /\ f.priority = g.priority
  /\ f.saved = g.saved

LEMMA NotedFrame ==
  ASSUME NEW f \in Frame, NEW ok \in BOOLEAN
  PROVE  /\ Noted(f, ok) \in Frame
         /\ SameExecution(Noted(f, ok), f)
         /\ Noted(f, ok).phase = f.phase
         /\ Noted(f, ok).leaked = f.leaked
         /\ Noted(f, ok).count = f.count
         /\ Noted(f, ok).failed = (f.failed \/ (f.phase = "actions" /\ ~ok))
BY DEF Noted, Frame, SameExecution

LEMMA LeakedFrame ==
  ASSUME NEW f \in Frame, NEW leak \in BOOLEAN
  PROVE  /\ Leaked(f, leak) \in Frame
         /\ SameExecution(Leaked(f, leak), f)
         /\ Leaked(f, leak).phase = f.phase
         /\ Leaked(f, leak).count = f.count
         /\ Leaked(f, leak).failed = f.failed
         /\ Leaked(f, leak).leaked = (f.leaked \/ leak)
BY DEF Leaked, Frame, SameExecution

LEMMA CountedFrame ==
  ASSUME NEW f \in Frame, NEW g \in Counted(f)
  PROVE  /\ g \in Frame
         /\ SameExecution(g, f)
         /\ g.phase = f.phase
         /\ g.leaked = f.leaked
         /\ g.failed = f.failed
<1>1. CASE g = [f EXCEPT !.count = @ + 1] /\ f.count < MaxActions
  BY <1>1, EngineAssumption DEF Frame, Late, SameExecution
<1>2. CASE g = [f EXCEPT !.count = Late]
  BY <1>2, EngineAssumption DEF Frame, Late, SameExecution
<1> QED
  BY <1>1, <1>2 DEF Counted

(* Returning to the callers changes only the innermost of them, and of it  *)
(* only whether it failed and whether its context was lost.                *)
Returned(r, q, ok, leak) ==
  /\ r \in Seq(Frame)
  /\ Len(r) = Len(q)
  /\ \A i \in 1..Len(q) :
       /\ SameExecution(r[i], q[i])
       /\ r[i].phase = q[i].phase
       /\ r[i].count = q[i].count
       /\ i # Len(q) => r[i] = q[i]
  /\ q # <<>> =>
       /\ r[Len(q)].leaked = (q[Len(q)].leaked \/ leak)
       /\ r[Len(q)].failed = (q[Len(q)].failed \/ (q[Len(q)].phase = "actions" /\ ~ok))

LEMMA Return ==
  ASSUME NEW q \in Seq(Frame), NEW ok \in BOOLEAN, NEW leak \in BOOLEAN
  PROVE  Returned(Resumed(q, ok, leak), q, ok, leak)
<1> DEFINE r == Resumed(q, ok, leak)
<1>1. CASE q = <<>>
  <2>1. r = <<>>
    BY <1>1 DEF Resumed
  <2> QED
    BY <1>1, <2>1 DEF SameExecution, Returned
<1>2. CASE q # <<>>
  <2> DEFINE n == Len(q)
             h == Noted(q[n], ok)
             g == Leaked(h, leak)
  <2>1. n \in Nat /\ n >= 1 /\ \A i \in 1..n : q[i] \in Frame
    BY <1>2, EmptySeq, LenProperties, ElementOfSeq
  <2>2. q[n] \in Frame
    BY <2>1
  <2>a. /\ h \in Frame /\ SameExecution(h, q[n])
        /\ h.phase = q[n].phase /\ h.count = q[n].count /\ h.leaked = q[n].leaked
        /\ h.failed = (q[n].failed \/ (q[n].phase = "actions" /\ ~ok))
    BY <2>2, NotedFrame
  <2>b. r = IF q = <<>> THEN <<>> ELSE [q EXCEPT ![n] = g]
    BY DEF Resumed
  <2> HIDE DEF h
  <2>c. /\ g \in Frame /\ SameExecution(g, h)
        /\ g.phase = h.phase /\ g.count = h.count /\ g.failed = h.failed
        /\ g.leaked = (h.leaked \/ leak)
    BY <2>a, LeakedFrame
  <2> HIDE DEF g
  <2>3. /\ g \in Frame /\ SameExecution(g, q[n])
        /\ g.phase = q[n].phase /\ g.count = q[n].count
        /\ g.leaked = (q[n].leaked \/ leak)
        /\ g.failed = (q[n].failed \/ (q[n].phase = "actions" /\ ~ok))
    BY <2>a, <2>c DEF SameExecution
  <2>4. r = [q EXCEPT ![n] = g]
    BY <1>2, <2>b
  <2>5. r \in Seq(Frame) /\ Len(r) = n /\ r[n] = g /\ \A i \in 1..n : i # n => r[i] = q[i]
    BY <2>1, <2>3, <2>4, ExceptSeq
  <2>6. ASSUME NEW i \in 1..n
        PROVE  /\ SameExecution(r[i], q[i])
               /\ r[i].phase = q[i].phase
               /\ r[i].count = q[i].count
    BY <2>3, <2>5 DEF SameExecution
  <2> QED
    BY <2>3, <2>5, <2>6 DEF Returned
<1> QED
  BY <1>1, <1>2

LEMMA ReturnType ==
  \A q \in Seq(Frame) : \A ok, leak \in BOOLEAN :
    /\ Resumed(q, ok, leak) \in Seq(Frame)
    /\ Len(Resumed(q, ok, leak)) = Len(q)
BY Return DEF Returned

-----------------------------------------------------------------------------
(* Type correctness.                                                       *)

LEMMA RecordTypes ==
  /\ \A d \in Definition : Loaded(d) \in Record
  /\ \A s \in Record : /\ Enabled(s) \in Record
                        /\ Disabled(s) \in Record
                        /\ MarkedRunning(s) \in Record
                        /\ Succeeded(s) \in Record
                        /\ Failed(s) \in Record
<1>1. ASSUME NEW d \in Definition PROVE Loaded(d) \in Record
  BY ScriptAssumption DEF Loaded, Record, Status, Definition
<1>2. ASSUME NEW s \in Record
      PROVE  Enabled(s) \in Record /\ Disabled(s) \in Record /\ MarkedRunning(s) \in Record
  BY DEF Enabled, Disabled, MarkedRunning, Record, Status, Definition
<1>3. ASSUME NEW s \in Record PROVE Succeeded(s) \in Record
  <2> DEFINE status == IF s.status = "running" THEN "active" ELSE s.status
  <2>1. status \in Status /\ 0 \in 0..ErrorLimit
    BY <1>3, ScriptAssumption DEF Record, Status
  <2>2. Succeeded(s) = [s EXCEPT !.error_count = 0, !.status = status]
    BY DEF Succeeded
  <2> HIDE DEF status
  <2> QED
    BY <1>3, <2>1, <2>2 DEF Record
<1>4. ASSUME NEW s \in Record PROVE Failed(s) \in Record
  <2> DEFINE errors == IF s.error_count = ErrorLimit THEN ErrorLimit ELSE s.error_count + 1
             status == IF errors >= ErrorLimit THEN "error" ELSE s.status
  <2>1. errors \in 0..ErrorLimit /\ status \in Status
    BY <1>4, ScriptAssumption DEF Record, Status
  <2>2. Failed(s) = [s EXCEPT !.error_count = errors, !.status = status]
    BY DEF Failed
  <2> HIDE DEF errors, status
  <2> QED
    BY <1>4, <2>1, <2>2 DEF Record
<1> QED
  BY <1>1, <1>2, <1>3, <1>4

LEMMA QueueType ==
  ASSUME NEW S \in SUBSET ScriptIds, NEW q \in Orders(S)
  PROVE  q \in Seq(ScriptIds)
<1>1. Cardinality(S) \in Nat
  BY EngineAssumption, FS_Subset, FS_CardinalityType
<1>2. q \in [1..Cardinality(S) -> ScriptIds]
  BY DEF Orders
<1> QED
  BY <1>1, <1>2, IsASeq

LEMMA TypeInit == Init => TypeOK
<1> SUFFICES ASSUME Init PROVE TypeOK
  OBVIOUS
<1>1. scripts \in [ScriptIds -> Record \cup {Absent}]
  BY EngineAssumption, RecordTypes DEF Init
<1>2. todo \in Seq(ScriptIds)
  BY QueueType DEF Init, Active
<1>3. current \in Writer
  BY EngineAssumption DEF Init, Writer
<1>4. stack \in Seq(Frame) /\ Len(stack) <= MaxCallDepth
  BY EngineAssumption, EmptySeq DEF Init
<1> QED
  BY <1>1, <1>2, <1>3, <1>4, EngineAssumption DEF Init, TypeOK

(* Where the record of a script goes on being a record.                    *)
LEMMA StorageType ==
  ASSUME TypeOK, NEW s \in ScriptIds,
         \/ SetRunning(s)
         \/ \E ok \in BOOLEAN : UpdateResult(s, ok)
         \/ scripts[s] # Absent /\ scripts' = [scripts EXCEPT ![s] = Enabled(@)]
         \/ scripts[s] # Absent /\ scripts' = [scripts EXCEPT ![s] = Disabled(@)]
         \/ \E d \in Definition : scripts' = [scripts EXCEPT ![s] = Loaded(d)]
         \/ scripts' = [scripts EXCEPT ![s] = Absent]
  PROVE  scripts' \in [ScriptIds -> Record \cup {Absent}]
<1>1. scripts \in [ScriptIds -> Record \cup {Absent}]
  BY DEF TypeOK
<1>2. scripts[s] # Absent => scripts[s] \in Record
  BY <1>1
<1>3. CASE SetRunning(s)
  BY <1>1, <1>2, <1>3, RecordTypes DEF SetRunning
<1>4. ASSUME NEW ok \in BOOLEAN, UpdateResult(s, ok)
      PROVE  scripts' \in [ScriptIds -> Record \cup {Absent}]
  <2>1. CASE scripts[s] = Absent
    BY <1>1, <1>4, <2>1 DEF UpdateResult
  <2>2. CASE scripts[s] # Absent
    <3>1. scripts' = [scripts EXCEPT ![s] = IF ok THEN Succeeded(scripts[s]) ELSE Failed(scripts[s])]
      BY <1>1, <1>4, <2>2 DEF UpdateResult
    <3> QED
      BY <1>1, <1>2, <2>2, <3>1, RecordTypes
  <2> QED
    BY <2>1, <2>2
<1>5. ASSUME NEW d \in Definition, scripts' = [scripts EXCEPT ![s] = Loaded(d)]
      PROVE  scripts' \in [ScriptIds -> Record \cup {Absent}]
  BY <1>1, <1>5, RecordTypes
<1>6. CASE scripts[s] # Absent /\ scripts' = [scripts EXCEPT ![s] = Enabled(@)]
  BY <1>1, <1>2, <1>6, RecordTypes
<1>7. CASE scripts[s] # Absent /\ scripts' = [scripts EXCEPT ![s] = Disabled(@)]
  BY <1>1, <1>2, <1>7, RecordTypes
<1>8. CASE scripts' = [scripts EXCEPT ![s] = Absent]
  BY <1>1, <1>8
<1> QED
  BY <1>3, <1>4, <1>5, <1>6, <1>7, <1>8

LEMMA ActedType ==
  ASSUME stack \in Seq(Frame), stack # <<>>,
         NEW ok \in BOOLEAN, Acted(ok)
  PROVE  /\ stack' \in Seq(Frame) /\ Len(stack') = Len(stack) /\ stack' # <<>>
         /\ \A i \in 1..(Len(stack) - 1) : stack'[i] = stack[i]
         /\ SameExecution(Top', Top) /\ Top'.leaked = Top.leaked
         /\ Top'.phase = Top.phase
         /\ Top'.failed = (Top.failed \/ (Top.phase = "actions" /\ ~ok))
<1>0. PICK g \in Counted(Top) : stack' = Append(Below, Noted(g, ok))
  BY DEF Acted
<1> DEFINE f == Noted(g, ok)
<1>1. Top \in Frame
  BY StackParts
<1>2. /\ g \in Frame /\ SameExecution(g, Top)
      /\ g.phase = Top.phase /\ g.leaked = Top.leaked /\ g.failed = Top.failed
  BY <1>1, CountedFrame
<1>3. stack' = Append(Below, f)
  BY <1>0
<1>4. /\ f \in Frame /\ SameExecution(f, g) /\ f.phase = g.phase /\ f.leaked = g.leaked
      /\ f.failed = (g.failed \/ (g.phase = "actions" /\ ~ok))
  BY <1>2, NotedFrame
<1> HIDE DEF f
<1>5. /\ stack' \in Seq(Frame) /\ Len(stack') = Len(stack) /\ stack' # <<>>
      /\ \A i \in 1..(Len(stack) - 1) : stack'[i] = stack[i]
      /\ stack'[Len(stack)] = f
  BY <1>3, <1>4, Push
<1>6. Top' = f
  BY <1>5 DEF Top
<1> QED
  BY <1>2, <1>4, <1>5, <1>6 DEF SameExecution

(* What entering a script, or refusing to, leaves: the same executions,    *)
(* and perhaps one on top that owns the context.                           *)
LEMMA EnterType ==
  ASSUME scripts \in [ScriptIds -> Record \cup {Absent}], current \in Writer,
         NEW s \in ScriptIds, NEW q \in Seq(Frame), Enter(s, q)
  PROVE  \/ /\ stack' = Resumed(q, FALSE, FALSE)
            /\ current' = current
         \/ \E f \in Frame :
              /\ stack' = Append(q, f)
              /\ f.saved = current /\ f.script = s
              /\ f.phase = "starting" /\ ~f.leaked /\ ~f.failed
              /\ current' = Own(f) /\ current' \in Writer
<1>1. CASE stack' = Resumed(q, FALSE, FALSE) /\ UNCHANGED current
  BY <1>1
<1>2. CASE ~(stack' = Resumed(q, FALSE, FALSE) /\ UNCHANGED current)
  <2> DEFINE p == scripts[s].definition.priority
             f == [script |-> s, priority |-> p, saved |-> current, phase |-> "starting",
                   failed |-> FALSE, count |-> 0, leaked |-> FALSE]
  <2>1. scripts[s] # Absent /\ stack' = Append(q, f) /\ current' = [script |-> s, priority |-> p]
    BY <1>2 DEF Enter
  <2>2. scripts[s] \in Record
    BY <2>1
  <2>3. p \in Priorities
    BY <2>2 DEF Record, Definition
  <2>4. f \in Frame
    BY <2>3, EngineAssumption DEF Frame, Late
  <2>5. current' = Own(f) /\ current' \in Writer
    BY <2>1, <2>3 DEF Own, Writer
  <2> QED
    BY <2>1, <2>4, <2>5
<1> QED
  BY <1>1, <1>2

LEMMA EnterStack ==
  ASSUME scripts \in [ScriptIds -> Record \cup {Absent}], current \in Writer,
         NEW s \in ScriptIds, NEW q \in Seq(Frame), Enter(s, q), Len(q) < MaxCallDepth
  PROVE  stack' \in Seq(Frame) /\ Len(stack') <= MaxCallDepth /\ current' \in Writer
<1>0. Len(q) \in Nat /\ MaxCallDepth \in Nat
  BY EngineAssumption, LenProperties
<1>1. CASE stack' = Resumed(q, FALSE, FALSE) /\ current' = current
  <2>1. stack' \in Seq(Frame) /\ Len(stack') = Len(q)
    BY <1>1, ReturnType
  <2>2. Len(q) <= MaxCallDepth
    BY <1>0
  <2>3. Len(stack') <= MaxCallDepth
    BY <2>1, <2>2
  <2> QED
    BY <1>1, <2>1, <2>3
<1>2. ASSUME NEW f \in Frame, stack' = Append(q, f), current' \in Writer
      PROVE  stack' \in Seq(Frame) /\ Len(stack') <= MaxCallDepth
  <2>1. stack' \in Seq(Frame) /\ Len(stack') = Len(q) + 1
    BY <1>2, AppendProperties
  <2> QED
    BY <1>0, <2>1, EngineAssumption
<1> QED
  BY <1>1, <1>2, EnterType

LEMMA RegisterType ==
  ASSUME pending \in [Targets -> PendingWrite \cup {NoWrite}], current \in Writer,
         NEW t \in Targets, NEW v \in Values
  PROVE  Register(pending, current, t, v) \in [Targets -> PendingWrite \cup {NoWrite}]
<1>1. [script |-> current.script, priority |-> current.priority, value |-> v] \in PendingWrite
  BY DEF Writer, PendingWrite
<1> QED
  BY <1>1 DEF Register

LEMMA TypeStep == TypeOK /\ [Next]_vars => TypeOK'
<1> SUFFICES ASSUME TypeOK, [Next]_vars PROVE TypeOK'
  OBVIOUS
<1> USE DEF TypeOK
<1>0. MaxCallDepth \in Nat /\ Len(stack) \in Nat
  BY EngineAssumption, LenProperties
<1>1. CASE StartCycle
  <2>1. todo' \in Seq(ScriptIds)
    BY <1>1, QueueType DEF StartCycle, Active
  <2>2. pending' \in [Targets -> PendingWrite \cup {NoWrite}]
    BY <1>1 DEF StartCycle
  <2> QED
    BY <1>1, <2>1, <2>2 DEF StartCycle
<1>2. CASE RunNext
  <2>1. Head(todo) \in ScriptIds /\ todo' \in Seq(ScriptIds)
    BY <1>2, HeadTailProperties DEF RunNext
  <2>2. <<>> \in Seq(Frame) /\ Len(<<>>) < MaxCallDepth
    BY EngineAssumption, EmptySeq
  <2>3. stack' \in Seq(Frame) /\ Len(stack') <= MaxCallDepth /\ current' \in Writer
    BY <1>2, <2>1, <2>2, EnterStack DEF RunNext
  <2> QED
    BY <1>2, <2>1, <2>3 DEF RunNext
<1>3. CASE Begin
  <2>1. PICK phase \in {"actions", "skipping"} :
          stack' = Append(Below, [Top EXCEPT !.phase = phase])
    BY <1>3 DEF Begin
  <2>2. Top \in Frame
    BY <1>3, StackParts DEF Begin
  <2>3. [Top EXCEPT !.phase = phase] \in Frame
    BY <2>2 DEF Frame
  <2>4. stack' \in Seq(Frame) /\ Len(stack') = Len(stack)
    BY <1>3, <2>1, <2>3, Push DEF Begin
  <2>5. Top.script \in ScriptIds
    BY <2>2 DEF Frame
  <2>6. scripts' \in [ScriptIds -> Record \cup {Absent}]
    BY <1>3, <2>5, StorageType DEF Begin
  <2> QED
    BY <1>3, <2>4, <2>6 DEF Begin
<1>4. ASSUME stack # <<>>, NEW ok \in BOOLEAN, NEW leak \in BOOLEAN,
             stack' = Resumed(Below, ok, leak), UpdateResult(Top.script, ok)
      PROVE  /\ stack' \in Seq(Frame) /\ Len(stack') <= MaxCallDepth
             /\ scripts' \in [ScriptIds -> Record \cup {Absent}]
  <2>1. Below \in Seq(Frame) /\ Len(Below) = Len(stack) - 1 /\ Top \in Frame
    BY <1>4, StackParts
  <2>2. stack' \in Seq(Frame) /\ Len(stack') = Len(Below)
    <3>1. /\ Resumed(Below, ok, leak) \in Seq(Frame)
          /\ Len(Resumed(Below, ok, leak)) = Len(Below)
      BY <1>4, <2>1, ReturnType
    <3> QED
      BY <1>4, <3>1
  <2>3. Top.script \in ScriptIds
    BY <2>1 DEF Frame
  <2>4. scripts' \in [ScriptIds -> Record \cup {Absent}]
    BY <1>4, <2>3, StorageType
  <2> QED
    BY <1>0, <2>1, <2>2, <2>4
<1>5. CASE Skip
  BY <1>4, <1>5 DEF Skip
<1>6. CASE Finish
  <2>1. Top \in Frame
    BY <1>6, StackParts DEF Finish
  <2>2. Top.saved \in Writer /\ (~Top.failed) \in BOOLEAN
    BY <2>1 DEF Frame
  <2> QED
    BY <1>4, <1>6, <2>2 DEF Finish
<1>7. CASE HandleErrors
  <2>1. Top \in Frame
    BY <1>7, StackParts DEF HandleErrors
  <2>2. [Top EXCEPT !.phase = "on_error", !.failed = TRUE] \in Frame
    BY <2>1 DEF Frame
  <2>3. stack' \in Seq(Frame) /\ Len(stack') = Len(stack)
    BY <1>7, <2>2, Push DEF HandleErrors
  <2> QED
    BY <1>7, <2>3 DEF HandleErrors
<1>8. CASE Other
  BY <1>8, ActedType DEF Other, Acting
<1>9. ASSUME NEW t \in Targets, NEW v \in Values, Write(t, v)
      PROVE  TypeOK'
  <2>1. stack' \in Seq(Frame) /\ Len(stack') = Len(stack)
    BY <1>9, ActedType DEF Write, Acting
  <2>2. pending' \in [Targets -> PendingWrite \cup {NoWrite}]
    BY <1>9, RegisterType DEF Write
  <2>3. outputs' \in [Targets -> Values] /\ unsure' \subseteq Targets
    BY <1>9 DEF Write
  <2> QED
    BY <1>9, <2>1, <2>2, <2>3 DEF Write
<1>10. ASSUME NEW s \in ScriptIds, Call(s)
       PROVE  TypeOK'
  <2>1. CASE Len(stack) >= MaxCallDepth
    BY <1>10, <2>1, ActedType DEF Call, Acting
  <2>2. CASE Len(stack) < MaxCallDepth
    <3>1. stack # <<>> /\ Top \in Frame
      BY <1>10, StackParts DEF Call, Acting
    <3>2. PICK g \in Counted(Top) : Enter(s, Append(Below, g))
      <4>1. ~(Len(stack) >= MaxCallDepth)
        BY <1>0, <2>2
      <4> QED
        BY <1>10, <4>1 DEF Call
    <3>3. g \in Frame
      BY <3>1, CountedFrame
    <3>4. /\ Append(Below, g) \in Seq(Frame)
          /\ Len(Append(Below, g)) = Len(stack)
      BY <3>1, <3>3, Push
    <3>5. stack' \in Seq(Frame) /\ Len(stack') <= MaxCallDepth /\ current' \in Writer
      BY <2>2, <3>2, <3>4, EnterStack
    <3> QED
      BY <1>10, <3>5 DEF Call
  <2> QED
    BY <1>0, <2>1, <2>2
<1>11. CASE Command
  <2>1. commands' \in 0..MaxCommands /\ UNCHANGED <<pending, current, stack, todo>>
    BY <1>11, EngineAssumption
       DEF Command, Commanded, EnableScript, DisableScript, DeleteScript, DeployScript, WriteOutput
  <2>2. scripts' \in [ScriptIds -> Record \cup {Absent}]
    BY <1>11, StorageType
       DEF Command, EnableScript, DisableScript, DeleteScript, DeployScript, WriteOutput
  <2>3. outputs' \in [Targets -> Values] /\ unsure' \subseteq Targets
    BY <1>11 DEF Command, EnableScript, DisableScript, DeleteScript, DeployScript, WriteOutput
  <2> QED
    BY <2>1, <2>2, <2>3
<1>12. CASE UNCHANGED vars
  BY <1>12 DEF vars
<1> QED
  BY <1>1, <1>2, <1>3, <1>5, <1>6, <1>7, <1>8, <1>9, <1>10, <1>11, <1>12 DEF Next, EngineStep
(* Every variable keeps to its type, whatever scripts are run, called,     *)
(* deployed and deleted; no chain of calls is deeper than max_call_depth   *)
(* and no run does more than max_actions_per_run actions.                  *)
THEOREM TypeCorrect == Spec => []TypeOK
<1>1. QED BY TypeInit, TypeStep, PTL DEF Spec

-----------------------------------------------------------------------------
(* The context.                                                            *)

(* The same executions are open, with the same callers and leaks.          *)
SameStack ==
  /\ stack' \in Seq(Frame)
  /\ Len(stack') = Len(stack)
  /\ \A i \in 1..Len(stack) :
       SameExecution(stack'[i], stack[i]) /\ stack'[i].leaked = stack[i].leaked

LEMMA ContextKept ==
  ASSUME TypeOK, ContextFollowsStack, SameStack, current' = current
  PROVE  ContextFollowsStack'
<1> DEFINE n == Len(stack)  m == Len(stack')
<1>1. stack \in Seq(Frame) /\ stack' \in Seq(Frame) /\ n \in Nat /\ m = n
  BY LenProperties DEF TypeOK, SameStack
<1>2. \A i \in 1..n : /\ SameExecution(stack'[i], stack[i])
                       /\ stack'[i].leaked = stack[i].leaked
  BY DEF SameStack
<1>3. stack' # <<>> => stack # <<>> /\ n \in 1..n
  BY <1>1, EmptySeq, LenProperties
<1>4. Top = stack[n] /\ Top' = stack'[m]
  BY DEF Top
<1>5. /\ stack # <<>> /\ ~stack[n].leaked => current = Own(stack[n])
      /\ \A i \in 2..n : ~stack[i - 1].leaked => stack[i].saved = Own(stack[i - 1])
  BY <1>4 DEF ContextFollowsStack
<1> HIDE DEF n, m
<1>6. stack' # <<>> /\ ~stack'[m].leaked => current' = Own(stack'[m])
  BY <1>1, <1>2, <1>3, <1>5 DEF SameExecution, Own
<1>7. ASSUME NEW i \in 2..m, ~stack'[i - 1].leaked
      PROVE  stack'[i].saved = Own(stack'[i - 1])
  <2>1. i \in 1..n /\ i - 1 \in 1..n /\ i \in 2..n
    BY <1>1
  <2> QED
    BY <1>2, <1>5, <1>7, <2>1 DEF SameExecution, Own
<1> QED
  BY <1>4, <1>6, <1>7 DEF ContextFollowsStack, m

LEMMA SameBelow ==
  ASSUME stack \in Seq(Frame), stack # <<>>, NEW f \in Frame,
         SameExecution(f, Top), f.leaked = Top.leaked, stack' = Append(Below, f)
  PROVE  SameStack
<1> DEFINE n == Len(stack)
<1>1. n \in Nat /\ n >= 1
  BY StackParts
<1>2. /\ stack' \in Seq(Frame) /\ Len(stack') = n /\ stack'[n] = f
      /\ \A i \in 1..(n - 1) : stack'[i] = stack[i]
  BY Push
<1>3. Top = stack[n]
  BY DEF Top
<1> HIDE DEF n
<1>4. ASSUME NEW i \in 1..n
      PROVE  SameExecution(stack'[i], stack[i]) /\ stack'[i].leaked = stack[i].leaked
  <2>1. CASE i = n
    BY <1>2, <1>3, <2>1 DEF SameExecution
  <2>2. CASE i # n
    <3>1. i \in 1..(n - 1)
      BY <1>1, <2>2
    <3> QED
      BY <1>2, <3>1 DEF SameExecution
  <2> QED
    BY <2>1, <2>2
<1> QED
  BY <1>2, <1>4 DEF SameStack, n

LEMMA ActedStack ==
  ASSUME stack \in Seq(Frame), Acting, NEW ok \in BOOLEAN, Acted(ok)
  PROVE  SameStack
<1>0. PICK g \in Counted(Top) : stack' = Append(Below, Noted(g, ok))
  BY DEF Acted
<1> DEFINE f == Noted(g, ok)
<1>1. Top \in Frame /\ stack # <<>>
  BY StackParts DEF Acting
<1>2. g \in Frame /\ SameExecution(g, Top) /\ g.leaked = Top.leaked
  BY <1>1, CountedFrame
<1>3. stack' = Append(Below, f)
  BY <1>0
<1>4. f \in Frame /\ SameExecution(f, g) /\ f.leaked = g.leaked
  BY <1>2, NotedFrame
<1> HIDE DEF f
<1>5. SameExecution(f, Top) /\ f.leaked = Top.leaked
  BY <1>2, <1>4 DEF SameExecution
<1> QED
  BY <1>1, <1>3, <1>4, <1>5, SameBelow

(* A call that returns, at the end of a run or by the early return.        *)
LEMMA ContextReturn ==
  ASSUME TypeOK, ContextFollowsStack, stack # <<>>,
         NEW ok \in BOOLEAN, NEW leak \in BOOLEAN,
         stack' = Resumed(Below, ok, leak),
         leak \/ current' = Top.saved
  PROVE  ContextFollowsStack'
<1> DEFINE n == Len(stack)  k == Len(Below)  m == Len(stack')
<1>1. /\ stack \in Seq(Frame) /\ n \in Nat /\ n >= 1
      /\ Below \in Seq(Frame) /\ k = n - 1 /\ k \in Nat
      /\ \A i \in 1..(n - 1) : Below[i] = stack[i]
  BY StackParts, LenProperties DEF TypeOK
<1>2. /\ stack' \in Seq(Frame) /\ m = k
      /\ \A i \in 1..k : SameExecution(stack'[i], Below[i])
                          /\ (i # k => stack'[i] = Below[i])
      /\ Below # <<>> => stack'[k].leaked = (Below[k].leaked \/ leak)
  <2>1. Returned(stack', Below, ok, leak)
    BY <1>1, Return
  <2> QED
    BY <2>1 DEF Returned
<1>3. stack' # <<>> => k >= 1 /\ Below # <<>>
  BY <1>1, <1>2, EmptySeq, LenProperties
<1>4. Top = stack[n] /\ Top' = stack'[m]
  BY DEF Top
<1>5. \A i \in 2..n : ~stack[i - 1].leaked => stack[i].saved = Own(stack[i - 1])
  BY DEF ContextFollowsStack
<1> HIDE DEF n, k, m
<1>6. ASSUME stack' # <<>>, ~stack'[m].leaked
      PROVE  current' = Own(stack'[m])
  <2>1. k \in 1..(n - 1) /\ n \in 2..n /\ n - 1 = k /\ k \in 1..k
    BY <1>1, <1>3, <1>6
  <2>2. ~Below[k].leaked /\ ~leak
    BY <1>2, <1>3, <1>6
  <2>3. Below[k] = stack[n - 1]
    BY <1>1, <2>1
  <2>4. Top.saved = Own(stack[n - 1])
    BY <1>4, <1>5, <2>1, <2>2, <2>3
  <2>5. SameExecution(stack'[m], Below[k])
    BY <1>2, <2>1
  <2> QED
    BY <2>2, <2>3, <2>4, <2>5 DEF SameExecution, Own
<1>7. ASSUME NEW i \in 2..m, ~stack'[i - 1].leaked
      PROVE  stack'[i].saved = Own(stack'[i - 1])
  <2>1. i \in 1..k /\ i - 1 \in 1..k /\ i - 1 # k /\ i \in 1..(n - 1) /\ i - 1 \in 1..(n - 1) /\ i \in 2..n
    BY <1>1, <1>2
  <2>2. SameExecution(stack'[i], stack[i]) /\ stack'[i - 1] = stack[i - 1]
    BY <1>1, <1>2, <2>1
  <2> QED
    BY <1>5, <1>7, <2>1, <2>2 DEF SameExecution, Own
<1> QED
  BY <1>4, <1>6, <1>7 DEF ContextFollowsStack, m

(* A call that is entered, over callers q of which the innermost owns the  *)
(* context unless a call of its own lost it.                               *)
LEMMA ContextEntered ==
  ASSUME NEW q \in Seq(Frame), NEW f \in Frame,
         q # <<>> /\ ~q[Len(q)].leaked => current = Own(q[Len(q)]),
         \A i \in 2..Len(q) : ~q[i - 1].leaked => q[i].saved = Own(q[i - 1]),
         stack' = Append(q, f), f.saved = current, current' = Own(f)
  PROVE  ContextFollowsStack'
<1> DEFINE n == Len(q)  m == Len(stack')
<1>1. /\ n \in Nat /\ stack' # <<>> /\ m = n + 1
      /\ \A i \in 1..n : stack'[i] = q[i]
      /\ stack'[n + 1] = f
  BY AppendProperties, LenProperties
<1>2. Top' = stack'[m]
  BY DEF Top
<1>3. n >= 1 => q # <<>>
  BY EmptySeq
<1>4. /\ q # <<>> /\ ~q[n].leaked => current = Own(q[n])
      /\ \A i \in 2..n : ~q[i - 1].leaked => q[i].saved = Own(q[i - 1])
  OBVIOUS
<1> HIDE DEF n, m
<1>5. current' = Own(Top')
  BY <1>1, <1>2
<1>6. ASSUME NEW i \in 2..m, ~stack'[i - 1].leaked
      PROVE  stack'[i].saved = Own(stack'[i - 1])
  <2>1. CASE i = n + 1
    <3>1. i - 1 = n /\ n \in 1..n /\ n >= 1
      BY <1>1, <2>1
    <3>2. stack'[i - 1] = q[n] /\ stack'[i] = f
      BY <1>1, <2>1, <3>1
    <3> QED
      BY <1>3, <1>4, <1>6, <3>1, <3>2
  <2>2. CASE i # n + 1
    <3>1. i \in 2..n /\ i \in 1..n /\ i - 1 \in 1..n
      BY <1>1, <2>2
    <3> QED
      BY <1>1, <1>4, <1>6, <3>1
  <2> QED
    BY <2>1, <2>2
<1> QED
  BY <1>5, <1>6 DEF ContextFollowsStack, m

LEMMA ContextCall ==
  ASSUME TypeOK, ContextFollowsStack, NEW s \in ScriptIds, Call(s)
  PROVE  ContextFollowsStack'
<1>g. PICK g \in Counted(Top) : Len(stack) >= MaxCallDepth \/ Enter(s, Append(Below, g))
  BY DEF Call, Acted
<1> DEFINE q == Append(Below, g)
<1>0. /\ stack \in Seq(Frame) /\ stack # <<>> /\ Top \in Frame
      /\ Acting /\ current \in Writer /\ scripts \in [ScriptIds -> Record \cup {Absent}]
  BY StackParts DEF TypeOK, Call, Acting
<1>1. g \in Frame /\ SameExecution(g, Top) /\ g.leaked = Top.leaked
  BY <1>0, CountedFrame
<1>2. /\ q \in Seq(Frame) /\ q # <<>> /\ Len(q) = Len(stack)
      /\ \A i \in 1..(Len(stack) - 1) : q[i] = stack[i]
      /\ q[Len(stack)] = g
  BY <1>0, <1>1, Push
<1> HIDE DEF q
<1>3. CASE Len(stack) >= MaxCallDepth
  <2>1. SameStack /\ current' = current
    BY <1>0, <1>3, ActedStack DEF Call
  <2> QED
    BY <2>1, ContextKept
<1>4. CASE ~(Len(stack) >= MaxCallDepth)
  <2>1. Enter(s, q)
    BY <1>4, <1>g DEF q
  <2> DEFINE n == Len(stack)
  <2>2. n \in Nat /\ n >= 1 /\ Top = stack[n]
    BY <1>0, StackParts DEF Top
  <2>3. /\ q[n] = g /\ Len(q) = n
        /\ \A i \in 1..(n - 1) : q[i] = stack[i]
    BY <1>2
  <2>4. /\ ~stack[n].leaked => current = Own(stack[n])
        /\ \A i \in 2..n : ~stack[i - 1].leaked => stack[i].saved = Own(stack[i - 1])
    BY <1>0, <2>2 DEF ContextFollowsStack
  <2> HIDE DEF n
  <2>5. \A i \in 1..n : SameExecution(q[i], stack[i]) /\ q[i].leaked = stack[i].leaked
    <3>1. ASSUME NEW i \in 1..n, i # n PROVE i \in 1..(n - 1)
      BY <2>2, <3>1
    <3> QED
      BY <1>1, <2>2, <2>3, <3>1 DEF SameExecution
  <2>6. CASE stack' = Resumed(q, FALSE, FALSE) /\ current' = current
    <3>1. Returned(stack', q, FALSE, FALSE)
      BY <1>2, <2>6, Return
    <3>2. /\ stack' \in Seq(Frame) /\ Len(stack') = n
          /\ \A i \in 1..n : SameExecution(stack'[i], q[i]) /\ (i # n => stack'[i] = q[i])
          /\ stack'[n].leaked = q[n].leaked
      <4>1. q[n].leaked \in BOOLEAN
        BY <1>1, <2>3 DEF Frame
      <4> QED
        BY <1>2, <2>3, <3>1, <4>1 DEF Returned
    <3>3. \A i \in 1..n : SameExecution(stack'[i], stack[i]) /\ stack'[i].leaked = stack[i].leaked
      BY <2>5, <3>2 DEF SameExecution
    <3>4. SameStack
      BY <3>2, <3>3 DEF SameStack, n
    <3> QED
      BY <2>6, <3>4, ContextKept
  <2>7. ASSUME NEW f \in Frame, stack' = Append(q, f), f.saved = current, current' = Own(f)
        PROVE  ContextFollowsStack'
    <3> DEFINE k == Len(q)
    <3>1. ~q[k].leaked => current = Own(q[k])
      BY <2>2, <2>3, <2>4, <2>5 DEF SameExecution, Own
    <3>2. ASSUME NEW i \in 2..k, ~q[i - 1].leaked
          PROVE  q[i].saved = Own(q[i - 1])
      <4>1. i \in 2..n /\ i \in 1..n /\ i - 1 \in 1..n
        BY <2>2, <2>3
      <4> QED
        BY <2>4, <2>5, <3>2, <4>1 DEF SameExecution, Own
    <3> QED
      BY <1>2, <2>7, <3>1, <3>2, ContextEntered
  <2> QED
    BY <1>0, <1>2, <2>1, <2>6, <2>7, EnterType
<1> QED
  BY <1>3, <1>4

LEMMA ContextStep ==
  ASSUME TypeOK, ContextFollowsStack, [Next]_vars
  PROVE  ContextFollowsStack'
<1>0. stack \in Seq(Frame) /\ current \in Writer
  BY DEF TypeOK
<1>1. ASSUME UNCHANGED <<stack, current>> PROVE ContextFollowsStack'
  BY <1>1 DEF ContextFollowsStack, Top
<1>2. CASE RunNext
  <2>1. Head(todo) \in ScriptIds /\ <<>> \in Seq(Frame)
    BY <1>2, HeadTailProperties, EmptySeq DEF RunNext, TypeOK
  <2>2. CASE stack' = Resumed(<<>>, FALSE, FALSE) /\ current' = current
    <3>1. stack' = <<>>
      BY <2>2 DEF Resumed
    <3> QED
      BY <3>1, <1>1, <1>2, <2>2 DEF RunNext
  <2>3. ASSUME NEW f \in Frame, stack' = Append(<<>>, f), f.saved = current, current' = Own(f)
        PROVE  ContextFollowsStack'
    <3> DEFINE q == <<>>
    <3>1. q \in Seq(Frame) /\ q = <<>> /\ Len(q) = 0 /\ 2..0 = {}
      BY <2>1
    <3> HIDE DEF q
    <3>2. \A i \in 2..Len(q) : ~q[i - 1].leaked => q[i].saved = Own(q[i - 1])
      BY <3>1
    <3>3. stack' = Append(q, f)
      BY <2>3, <3>1
    <3> QED
      BY <2>3, <3>1, <3>2, <3>3, ContextEntered
  <2> QED
    BY <1>0, <1>2, <2>1, <2>2, <2>3, EnterType DEF RunNext, TypeOK
<1>3. CASE Begin
  <2>1. PICK phase \in {"actions", "skipping"} :
          stack' = Append(Below, [Top EXCEPT !.phase = phase])
    BY <1>3 DEF Begin
  <2> DEFINE f == [Top EXCEPT !.phase = phase]
  <2>2. Top \in Frame /\ stack # <<>>
    BY <1>0, <1>3, StackParts DEF Begin
  <2>3. f \in Frame /\ SameExecution(f, Top) /\ f.leaked = Top.leaked
    BY <2>2 DEF Frame, SameExecution
  <2> HIDE DEF f
  <2>4. SameStack
    BY <1>0, <2>1, <2>2, <2>3, SameBelow DEF f
  <2> QED
    BY <1>3, <2>4, ContextKept DEF Begin
<1>4. CASE HandleErrors
  <2> DEFINE f == [Top EXCEPT !.phase = "on_error", !.failed = TRUE]
  <2>1. Top \in Frame /\ stack # <<>> /\ stack' = Append(Below, f)
    BY <1>0, <1>4, StackParts DEF HandleErrors
  <2>2. f \in Frame /\ SameExecution(f, Top) /\ f.leaked = Top.leaked
    BY <2>1 DEF Frame, SameExecution
  <2> HIDE DEF f
  <2>3. SameStack
    BY <1>0, <2>1, <2>2, SameBelow
  <2> QED
    BY <1>4, <2>3, ContextKept DEF HandleErrors
<1>5. CASE Skip
  BY <1>5, ContextReturn DEF Skip
<1>6. CASE Finish
  <2>1. (~Top.failed) \in BOOLEAN
    OBVIOUS
  <2> QED
    BY <1>6, <2>1, ContextReturn DEF Finish
<1>7. CASE Other
  BY <1>0, <1>7, ActedStack, ContextKept DEF Other
<1>8. ASSUME NEW t \in Targets, NEW v \in Values, Write(t, v)
      PROVE  ContextFollowsStack'
  <2>1. SameStack /\ current' = current
    BY <1>0, <1>8, ActedStack DEF Write
  <2> QED
    BY <2>1, ContextKept
<1>9. CASE Command
  BY <1>1, <1>9
     DEF Command, Commanded, EnableScript, DisableScript, DeleteScript, DeployScript, WriteOutput
<1> QED
  BY <1>1, <1>2, <1>3, <1>4, <1>5, <1>6, <1>7, <1>8, <1>9, ContextCall
     DEF Next, EngineStep, StartCycle, vars

(* Every write is recorded under the script that makes it, at any depth of *)
(* calls, except in an execution one of whose calls was skipped.           *)
THEOREM ContextFollows == Spec => []ContextFollowsStack
<1>1. Init => ContextFollowsStack
  <2> SUFFICES ASSUME Init PROVE ContextFollowsStack
    OBVIOUS
  <2>1. stack = <<>> /\ Len(stack) = 0 /\ 2..0 = {}
    BY EmptySeq DEF Init
  <2> QED
    BY <2>1 DEF ContextFollowsStack
<1>2. TypeOK /\ ContextFollowsStack /\ [Next]_vars => ContextFollowsStack'
  BY ContextStep
<1>3. QED BY <1>1, <1>2, TypeCorrect, PTL DEF Spec

-----------------------------------------------------------------------------
(* The outputs and the storage.                                            *)

(* A target has the value of the write that won it, while the hardware     *)
(* answers and no command writes past the detector.                        *)
THEOREM OutputFollowsWinner == Spec => []OutputIsWinners
<1>1. Init => OutputIsWinners
  BY DEF Init, OutputIsWinners
<1>2. ASSUME TypeOK, OutputIsWinners, [Next]_vars PROVE OutputIsWinners'
  <2>0. /\ pending \in [Targets -> PendingWrite \cup {NoWrite}] /\ current \in Writer
        /\ outputs \in [Targets -> Values] /\ unsure \subseteq Targets
    BY <1>2 DEF TypeOK
  <2>1. ASSUME UNCHANGED <<pending, outputs, unsure>> PROVE OutputIsWinners'
    BY <1>2, <2>1 DEF OutputIsWinners
  <2>2. CASE StartCycle
    <3>1. CASE pending' = pending
      BY <2>1, <2>2, <3>1 DEF StartCycle
    <3>2. CASE pending' = [t \in Targets |-> NoWrite]
      BY <2>0, <2>2, <3>2 DEF StartCycle, OutputIsWinners
    <3> QED
      BY <2>2, <3>1, <3>2 DEF StartCycle
  <2>3. ASSUME NEW t \in Targets, NEW v \in Values, Write(t, v)
        PROVE  OutputIsWinners'
    <3> DEFINE verdict == Verdict(pending, current, t, v)
    <3>1. pending' = Register(pending, current, t, v)
      BY <2>3 DEF Write
    <3>2. CASE ~Granted(verdict)
      <4>1. UNCHANGED <<pending, outputs, unsure>>
        BY <2>3, <3>1, <3>2 DEF Write, Register, Granted
      <4> QED
        BY <2>1, <4>1
    <3>3. CASE Granted(verdict)
      <4>1. pending' = [pending EXCEPT ![t] =
                          [script |-> current.script, priority |-> current.priority, value |-> v]]
        BY <3>1, <3>3 DEF Register
      <4>2. \/ outputs' = [outputs EXCEPT ![t] = v] /\ unsure' = unsure \ {t}
            \/ outputs' \in {outputs, [outputs EXCEPT ![t] = v]} /\ unsure' = unsure \cup {t}
        BY <2>3, <3>3 DEF Write, Granted
      <4> QED
        BY <1>2, <2>0, <4>1, <4>2 DEF OutputIsWinners
    <3> QED
      BY <3>2, <3>3
  <2>4. CASE Command
    <3>1. pending' = pending
      BY <2>4
         DEF Command, Commanded, EnableScript, DisableScript, DeleteScript, DeployScript, WriteOutput
    <3>2. CASE UNCHANGED <<outputs, unsure>>
      BY <2>1, <3>1, <3>2
    <3>3. ASSUME NEW t \in Targets, NEW v \in Values,
                 outputs' = [outputs EXCEPT ![t] = v], unsure' = unsure \cup {t}
          PROVE  OutputIsWinners'
      BY <1>2, <2>0, <3>1, <3>3 DEF OutputIsWinners
    <3> QED
      BY <2>4, <3>2, <3>3
         DEF Command, EnableScript, DisableScript, DeleteScript, DeployScript, WriteOutput
  <2> QED
    BY <1>2, <2>1, <2>2, <2>3, <2>4
       DEF Next, EngineStep, RunNext, Begin, Skip, Other, HandleErrors, Finish, Call, vars
<1>3. QED BY <1>1, <1>2, TypeCorrect, PTL DEF Spec

-----------------------------------------------------------------------------
(* The status a script is left with.                                       *)

ActingPhases == {"actions", "on_error"}

Stopped(store, s) == store[s] # Absent /\ store[s].status = "error"

(* Only an execution that got to its actions fails, one in its error       *)
(* handlers has, and only the innermost is anywhere else.                  *)
Orderly(q) ==
  \A i \in 1..Len(q) :
    /\ q[i].failed => q[i].phase \in ActingPhases
    /\ q[i].phase = "on_error" => q[i].failed
    /\ i # Len(q) => q[i].phase \in ActingPhases

(* An execution of a script that was stopped with an error meanwhile (by   *)
(* an execution of the same script inside it) is on its way to fail: it or *)
(* one inside it has failed, and failures reach the callers.               *)
Accounted(store, q) ==
  \A i \in 1..Len(q) :
    Stopped(store, q[i].script) /\ q[i].phase # "starting"
      => \E j \in i..Len(q) : q[j].failed

StatusInv == Orderly(stack) /\ Accounted(scripts, stack) /\ StatusExplained

(* What the storage does to a script's record between two steps: it does   *)
(* not stop it, and marks running only an execution's.                     *)
Unstopped(s) ==
  scripts'[s] # Absent =>
    /\ scripts'[s].status = "error" =>
         scripts[s] # Absent /\ scripts[s].status = "error"
           /\ scripts'[s].error_count = scripts[s].error_count
    /\ scripts'[s].status = "running" /\ ~Executing(s) =>
         scripts[s] # Absent /\ scripts[s].status = "running"
           /\ scripts'[s].error_count = scripts[s].error_count

(* The innermost execution goes on; the storage may have marked its script *)
(* running.                                                                *)
LEMMA StatusOnTop ==
  ASSUME TypeOK, StatusInv, stack # <<>>, NEW f \in Frame,
         stack' \in Seq(Frame), Len(stack') = Len(stack),
         stack'[Len(stack)] = f,
         \A i \in 1..(Len(stack) - 1) : stack'[i] = stack[i],
         f.script = Top.script, Top.failed => f.failed,
         f.failed => f.phase \in ActingPhases,
         f.phase = "on_error" => f.failed,
         \A s \in ScriptIds : Unstopped(s),
         Stopped(scripts', Top.script) /\ f.phase # "starting" => Top.phase # "starting"
  PROVE  StatusInv'
<1> DEFINE n == Len(stack)  m == Len(stack')
<1>1. /\ n \in Nat /\ n >= 1 /\ m = n /\ stack[n] = Top /\ stack'[n] = f
      /\ \A i \in 1..(n - 1) : stack'[i] = stack[i]
      /\ DOMAIN stack = 1..n /\ DOMAIN stack' = 1..n
  BY StackParts, LenProperties DEF TypeOK, Top
<1>a. /\ Orderly(stack)' <=> \A i \in 1..m :
          /\ stack'[i].failed => stack'[i].phase \in ActingPhases
          /\ stack'[i].phase = "on_error" => stack'[i].failed
          /\ i # m => stack'[i].phase \in ActingPhases
      /\ Accounted(scripts, stack)' <=> \A i \in 1..m :
          Stopped(scripts, stack[i].script)' /\ stack'[i].phase # "starting"
            => \E j \in i..m : stack'[j].failed
  BY DEF Orderly, Accounted
<1>b. /\ \A i \in 1..n :
          /\ stack[i].failed => stack[i].phase \in ActingPhases
          /\ stack[i].phase = "on_error" => stack[i].failed
          /\ i # n => stack[i].phase \in ActingPhases
      /\ \A i \in 1..n :
          Stopped(scripts, stack[i].script) /\ stack[i].phase # "starting"
            => \E j \in i..n : stack[j].failed
  BY DEF StatusInv, Orderly, Accounted
<1>c. \A i \in 1..n : stack[i] \in Frame
  BY <1>1, ElementOfSeq DEF TypeOK
<1> HIDE DEF n, m
<1>2. \A i \in 1..n : i = n \/ i \in 1..(n - 1)
  BY <1>1
<1>3. Orderly(stack)'
  BY <1>1, <1>2, <1>a, <1>b
<1>4. Accounted(scripts, stack)'
  <2> SUFFICES ASSUME NEW i \in 1..n, Stopped(scripts, stack[i].script)', stack'[i].phase # "starting"
               PROVE  \E j \in i..n : stack'[j].failed
    BY <1>1, <1>a
  <2>1. stack'[i].script = stack[i].script /\ stack[i].script \in ScriptIds
    BY <1>1, <1>2, <1>c DEF Frame
  <2>2. Stopped(scripts, stack[i].script)
    BY <2>1 DEF Unstopped, Stopped
  <2>3. stack[i].phase # "starting"
    BY <1>1, <1>2, <2>1 DEF Stopped
  <2>4. PICK j \in i..n : stack[j].failed
    BY <1>b, <2>2, <2>3
  <2>5. stack'[j].failed
    BY <1>1, <1>2, <2>4
  <2> QED BY <2>5
<1>5. \A s : Executing(s)' <=> Executing(s)
  <2>1. \A i \in 1..n : stack'[i].script = stack[i].script
    BY <1>1, <1>2
  <2> QED BY <1>1, <2>1 DEF Executing
<1>6. StatusExplained'
  BY <1>5 DEF StatusInv, StatusExplained, Unstopped
<1> QED BY <1>3, <1>4, <1>6 DEF StatusInv

(* A call is entered.                                                      *)
LEMMA StatusEntered ==
  ASSUME TypeOK, StatusInv, UNCHANGED scripts,
         NEW q \in Seq(Frame), Len(q) = Len(stack),
         \A i \in 1..Len(q) : /\ q[i].script = stack[i].script
                              /\ q[i].phase = stack[i].phase
                              /\ q[i].failed = stack[i].failed
                              /\ q[i].phase \in ActingPhases,
         NEW f \in Frame, stack' = Append(q, f), f.phase = "starting", ~f.failed
  PROVE  StatusInv'
<1> DEFINE n == Len(stack)  m == Len(stack')
<1>1. /\ n \in Nat /\ m = n + 1 /\ stack'[n + 1] = f
      /\ \A i \in 1..n : stack'[i] = q[i]
      /\ DOMAIN stack = 1..n /\ DOMAIN stack' = 1..m
  BY AppendProperties, LenProperties DEF TypeOK
<1>2. \A i \in 1..n : /\ stack'[i].script = stack[i].script
                      /\ stack'[i].phase = stack[i].phase
                      /\ stack'[i].failed = stack[i].failed
                      /\ stack'[i].phase \in ActingPhases
  BY <1>1
<1>a. /\ Orderly(stack)' <=> \A i \in 1..m :
          /\ stack'[i].failed => stack'[i].phase \in ActingPhases
          /\ stack'[i].phase = "on_error" => stack'[i].failed
          /\ i # m => stack'[i].phase \in ActingPhases
      /\ Accounted(scripts, stack)' <=> \A i \in 1..m :
          Stopped(scripts, stack[i].script)' /\ stack'[i].phase # "starting"
            => \E j \in i..m : stack'[j].failed
  BY DEF Orderly, Accounted
<1>b. /\ \A i \in 1..n : stack[i].phase = "on_error" => stack[i].failed
      /\ \A i \in 1..n :
          Stopped(scripts, stack[i].script) /\ stack[i].phase # "starting"
            => \E j \in i..n : stack[j].failed
  BY DEF StatusInv, Orderly, Accounted
<1> HIDE DEF n, m
<1>3. \A i \in 1..m : i = n + 1 \/ i \in 1..n
  BY <1>1
<1>4. Orderly(stack)'
  BY <1>1, <1>2, <1>3, <1>a, <1>b
<1>5. Accounted(scripts, stack)'
  <2> SUFFICES ASSUME NEW i \in 1..m, Stopped(scripts, stack[i].script)', stack'[i].phase # "starting"
               PROVE  \E j \in i..m : stack'[j].failed
    BY <1>a
  <2>1. i \in 1..n
    BY <1>1, <1>3
  <2>2. PICK j \in i..n : stack[j].failed
    BY <1>2, <1>b, <2>1 DEF Stopped
  <2>3. j \in 1..n /\ j \in i..m
    BY <1>1, <2>1
  <2> QED BY <1>2, <2>2, <2>3
<1>6. ASSUME NEW s, Executing(s) PROVE Executing(s)'
  <2>1. PICK i \in 1..n : stack[i].script = s
    BY <1>1, <1>6 DEF Executing
  <2>2. i \in 1..m /\ stack'[i].script = s
    BY <1>1, <1>2, <2>1
  <2> QED BY <1>1, <2>2 DEF Executing
<1>7. StatusExplained'
  BY <1>6 DEF StatusInv, StatusExplained
<1> QED BY <1>4, <1>5, <1>7 DEF StatusInv

(* What the storage operations leave of a script.                          *)
LEMMA Statuses ==
  /\ \A d \in Definition : Loaded(d).status \in {"active", "paused"}
  /\ \A r \in Record :
       /\ Enabled(r).status = "active" /\ Disabled(r).status = "paused"
       /\ MarkedRunning(r).status = "running"
       /\ Succeeded(r).status # "running"
       /\ r.status # "error" => Succeeded(r).status # "error"
       /\ (r.status = "error" => r.error_count >= ErrorLimit)
            => (Failed(r).status = "error" => Failed(r).error_count >= ErrorLimit)
       /\ Failed(r).status = "running" => Failed(r).error_count \in 1..(ErrorLimit - 1)
<1>1. \A d \in Definition : Loaded(d).status \in {"active", "paused"}
  BY DEF Loaded
<1>2. ASSUME NEW r \in Record
      PROVE  /\ Enabled(r).status = "active" /\ Disabled(r).status = "paused"
             /\ MarkedRunning(r).status = "running"
  BY DEF Enabled, Disabled, MarkedRunning, Record, Definition
<1>3. ASSUME NEW r \in Record
      PROVE  /\ Succeeded(r).status # "running"
             /\ r.status # "error" => Succeeded(r).status # "error"
  <2>1. Succeeded(r).status = IF r.status = "running" THEN "active" ELSE r.status
    BY DEF Succeeded, Record
  <2> QED BY <2>1
<1>4. ASSUME NEW r \in Record
      PROVE  /\ (r.status = "error" => r.error_count >= ErrorLimit)
                  => (Failed(r).status = "error" => Failed(r).error_count >= ErrorLimit)
             /\ Failed(r).status = "running" => Failed(r).error_count \in 1..(ErrorLimit - 1)
  <2> DEFINE errors == IF r.error_count = ErrorLimit THEN ErrorLimit ELSE r.error_count + 1
  <2>1. errors \in 1..ErrorLimit
    BY ScriptAssumption DEF Record
  <2>2. /\ Failed(r).error_count = errors
        /\ Failed(r).status = IF errors >= ErrorLimit THEN "error" ELSE r.status
    BY DEF Failed, Record
  <2>3. r.error_count >= ErrorLimit => errors = ErrorLimit
    BY ScriptAssumption DEF Record
  <2> HIDE DEF errors
  <2> QED BY <2>1, <2>2, <2>3, ScriptAssumption
<1> QED BY <1>1, <1>2, <1>3, <1>4

(* An execution ends.                                                      *)
LEMMA StatusReturn ==
  ASSUME TypeOK, StatusInv, stack # <<>>, Top.phase # "starting",
         NEW ok \in BOOLEAN, ok = ~Top.failed, NEW leak \in BOOLEAN,
         stack' = Resumed(Below, ok, leak), UpdateResult(Top.script, ok)
  PROVE  StatusInv'
<1> DEFINE n == Len(stack)  k == Len(Below)  m == Len(stack')
<1>0. Returned(stack', Below, ok, leak)
  BY StackParts, Return DEF TypeOK
<1>1. /\ n \in Nat /\ n >= 1 /\ k = n - 1 /\ m = k /\ stack[n] = Top
      /\ \A i \in 1..k : Below[i] = stack[i]
      /\ DOMAIN stack = 1..n /\ DOMAIN stack' = 1..k
      /\ Top \in Frame
  BY <1>0, StackParts, LenProperties DEF TypeOK, Top, Returned
<1>2. k >= 1 => Below # <<>>
  BY EmptySeq
<1>3. /\ \A i \in 1..k : /\ stack'[i].script = Below[i].script
                         /\ stack'[i].phase = Below[i].phase
                         /\ i # k => stack'[i] = Below[i]
      /\ k >= 1 => stack'[k].failed = (Below[k].failed \/ (Below[k].phase = "actions" /\ ~ok))
  BY <1>0, <1>2 DEF Returned, SameExecution
<1>a. /\ Orderly(stack)' <=> \A i \in 1..m :
          /\ stack'[i].failed => stack'[i].phase \in ActingPhases
          /\ stack'[i].phase = "on_error" => stack'[i].failed
          /\ i # m => stack'[i].phase \in ActingPhases
      /\ Accounted(scripts, stack)' <=> \A i \in 1..m :
          Stopped(scripts, stack[i].script)' /\ stack'[i].phase # "starting"
            => \E j \in i..m : stack'[j].failed
  BY DEF Orderly, Accounted
<1>b. /\ \A i \in 1..n :
          /\ stack[i].failed => stack[i].phase \in ActingPhases
          /\ stack[i].phase = "on_error" => stack[i].failed
          /\ i # n => stack[i].phase \in ActingPhases
      /\ \A i \in 1..n :
          Stopped(scripts, stack[i].script) /\ stack[i].phase # "starting"
            => \E j \in i..n : stack[j].failed
  BY DEF StatusInv, Orderly, Accounted
<1>c. \A i \in 1..n : stack[i] \in Frame
  BY <1>1, ElementOfSeq DEF TypeOK
<1> HIDE DEF n, k, m
<1>4. \A i \in 1..k : i \in 1..n /\ i # n /\ (i # k \/ k >= 1)
  BY <1>1
<1>5. \A i \in 1..k : /\ stack'[i].script = stack[i].script
                      /\ stack'[i].phase = stack[i].phase
                      /\ stack'[i].phase \in ActingPhases
                      /\ stack[i].failed => stack'[i].failed
                      /\ i # k => stack'[i] = stack[i]
  <2> SUFFICES ASSUME NEW i \in 1..k
               PROVE  /\ stack'[i].script = stack[i].script
                      /\ stack'[i].phase = stack[i].phase
                      /\ stack'[i].phase \in ActingPhases
                      /\ stack[i].failed => stack'[i].failed
                      /\ i # k => stack'[i] = stack[i]
    OBVIOUS
  <2>1. Below[i] = stack[i] /\ stack[i].phase \in ActingPhases
    BY <1>1, <1>4, <1>b
  <2>2. /\ stack'[i].script = stack[i].script
        /\ stack'[i].phase = stack[i].phase
        /\ i # k => stack'[i] = stack[i]
    BY <1>3, <2>1
  <2>3. CASE i = k
    <3>1. k >= 1
      BY <1>1, <2>3
    <3> QED BY <1>3, <2>1, <2>2, <2>3, <3>1
  <2> QED BY <2>1, <2>2, <2>3
<1>6. k >= 1 /\ ~ok => stack'[k].failed
  <2> SUFFICES ASSUME k >= 1, ~ok PROVE stack'[k].failed
    OBVIOUS
  <2>1. k \in 1..k
    BY <1>1
  <2>2. Below[k] = stack[k] /\ k \in 1..n /\ k # n
    BY <1>1, <1>4, <2>1
  <2>3. stack[k].phase \in ActingPhases /\ (stack[k].phase = "on_error" => stack[k].failed)
    BY <1>b, <2>2
  <2> QED BY <1>3, <2>2, <2>3 DEF ActingPhases
<1>7. Orderly(stack)'
  <2> SUFFICES ASSUME NEW i \in 1..k, stack'[i].phase = "on_error" PROVE stack'[i].failed
    BY <1>1, <1>5, <1>a
  <2> QED BY <1>4, <1>5, <1>b
<1> DEFINE t == Top.script
<1>8. t \in ScriptIds /\ scripts \in [ScriptIds -> Record \cup {Absent}]
  BY <1>1 DEF Frame, TypeOK
<1>9. ok => ~Stopped(scripts, t)
  <2>1. n \in 1..n /\ n..n = {n}
    BY <1>1
  <2> QED BY <1>1, <1>b, <2>1
<1> HIDE DEF t
<1>10. /\ \A s \in ScriptIds \ {t} : scripts'[s] = scripts[s]
       /\ scripts[t] = Absent => scripts'[t] = Absent
       /\ scripts[t] # Absent =>
            /\ scripts[t] \in Record
            /\ scripts'[t] = IF ok THEN Succeeded(scripts[t]) ELSE Failed(scripts[t])
  <2>1. CASE scripts[t] = Absent
    BY <1>8, <2>1 DEF UpdateResult, t
  <2>2. CASE scripts[t] # Absent
    <3>1. scripts' = [scripts EXCEPT ![t] = IF ok THEN Succeeded(scripts[t]) ELSE Failed(scripts[t])]
      BY <1>8, <2>2 DEF UpdateResult, t
    <3>2. scripts[t] \in Record
      BY <1>8, <2>2
    <3> QED BY <1>8, <2>2, <3>1, <3>2
  <2> QED BY <2>1, <2>2
<1>11. ASSUME NEW s \in ScriptIds, ok, Stopped(scripts, s)'
       PROVE  Stopped(scripts, s)
  <2>1. CASE s = t
    BY <1>9, <1>10, <1>11, <2>1, Statuses DEF Stopped
  <2>2. CASE s # t
    BY <1>10, <1>11, <2>2 DEF Stopped
  <2> QED BY <2>1, <2>2
<1>12. Accounted(scripts, stack)'
  <2> SUFFICES ASSUME NEW i \in 1..k, Stopped(scripts, stack[i].script)'
               PROVE  \E j \in i..k : stack'[j].failed
    BY <1>1, <1>a
  <2>1. k \in i..k /\ k >= 1
    BY <1>1
  <2>2. CASE ~ok
    BY <1>6, <2>1, <2>2
  <2>3. CASE ok
    <3>1. stack'[i].script = stack[i].script /\ stack[i].script \in ScriptIds
      BY <1>4, <1>5, <1>c DEF Frame
    <3>2. Stopped(scripts', stack[i].script)
      BY <3>1 DEF Stopped
    <3>3. Stopped(scripts, stack[i].script) /\ stack[i].phase # "starting"
      BY <1>5, <1>11, <2>3, <3>1, <3>2 DEF ActingPhases, Stopped
    <3>4. PICK j \in i..n : stack[j].failed
      BY <1>4, <1>b, <3>3
    <3>5. j # n
      BY <1>1, <2>3, <3>4
    <3>6. j \in i..k /\ j \in 1..k
      BY <1>1, <3>5
    <3> QED BY <1>5, <3>4, <3>6
  <2> QED BY <2>2, <2>3
<1>13. ASSUME NEW s, s # t, Executing(s) PROVE Executing(s)'
  <2>1. PICK i \in 1..n : stack[i].script = s
    BY <1>1, <1>13 DEF Executing
  <2>2. i # n
    BY <1>1, <1>13, <2>1 DEF t
  <2>3. i \in 1..k
    BY <1>1, <2>2
  <2> QED BY <1>1, <1>5, <2>1, <2>3 DEF Executing
<1>14. StatusExplained'
  <2> SUFFICES ASSUME NEW s \in ScriptIds, scripts'[s] # Absent
               PROVE  /\ scripts'[s].status = "error" => scripts'[s].error_count >= ErrorLimit
                      /\ scripts'[s].status = "running" /\ ~Executing(s)'
                           => scripts'[s].error_count \in 1..(ErrorLimit - 1)
    BY DEF StatusExplained
  <2>1. CASE s # t
    BY <1>10, <1>13, <2>1 DEF StatusInv, StatusExplained
  <2>2. CASE s = t /\ ok
    <3>1. scripts[t] \in Record /\ scripts[t].status # "error" /\ scripts'[t] = Succeeded(scripts[t])
      BY <1>9, <1>10, <2>2 DEF Stopped
    <3> QED BY <2>2, <3>1, Statuses
  <2>3. CASE s = t /\ ~ok
    <3>1. scripts[t] \in Record /\ scripts'[t] = Failed(scripts[t])
      BY <1>10, <2>3
    <3>2. scripts[t].status = "error" => scripts[t].error_count >= ErrorLimit
      BY <1>8, <1>10, <2>3 DEF StatusInv, StatusExplained
    <3> QED BY <2>3, <3>1, <3>2, Statuses
  <2> QED BY <2>1, <2>2, <2>3
<1> QED BY <1>7, <1>12, <1>14 DEF StatusInv

(* An action of the innermost execution is done.                           *)
LEMMA StatusActed ==
  ASSUME TypeOK, StatusInv, Acting, NEW ok \in BOOLEAN, Acted(ok), UNCHANGED scripts
  PROVE  StatusInv'
<1>0. PICK g \in Counted(Top) : stack' = Append(Below, Noted(g, ok))
  BY DEF Acted
<1> DEFINE f == Noted(g, ok)
<1>1. Top \in Frame /\ stack # <<>> /\ Top.phase \in ActingPhases
  BY StackParts DEF Acting, TypeOK, ActingPhases
<1>2. /\ g \in Frame /\ SameExecution(g, Top)
      /\ g.phase = Top.phase /\ g.failed = Top.failed
  BY <1>1, CountedFrame
<1>3. stack' = Append(Below, f)
  BY <1>0
<1>4. /\ f \in Frame /\ SameExecution(f, g) /\ f.phase = g.phase
      /\ f.failed = (g.failed \/ (g.phase = "actions" /\ ~ok))
  BY <1>2, NotedFrame
<1> HIDE DEF f
<1>5. f.phase = Top.phase /\ f.script = Top.script /\ (Top.failed => f.failed)
  BY <1>2, <1>4 DEF SameExecution
<1>6. f.phase = "on_error" => f.failed
  <2>1. Top = stack[Len(stack)] /\ Len(stack) \in 1..Len(stack)
    BY <1>1, StackParts DEF Top, TypeOK
  <2>2. Top.phase = "on_error" => Top.failed
    BY <2>1 DEF StatusInv, Orderly
  <2> QED BY <1>5, <2>2
<1>7. /\ stack' \in Seq(Frame) /\ Len(stack') = Len(stack)
      /\ stack'[Len(stack)] = f
      /\ \A i \in 1..(Len(stack) - 1) : stack'[i] = stack[i]
  BY <1>1, <1>3, <1>4, Push DEF TypeOK
<1>8. \A s \in ScriptIds : Unstopped(s)
  BY DEF Unstopped
<1> QED BY <1>1, <1>4, <1>5, <1>6, <1>7, <1>8, StatusOnTop DEF ActingPhases

LEMMA StatusCall ==
  ASSUME TypeOK, StatusInv, NEW s \in ScriptIds, Call(s)
  PROVE  StatusInv'
<1>g. PICK g \in Counted(Top) : Len(stack) >= MaxCallDepth \/ Enter(s, Append(Below, g))
  BY DEF Call, Acted
<1> DEFINE q == Append(Below, g)  n == Len(stack)
<1>0. /\ stack \in Seq(Frame) /\ stack # <<>> /\ Top \in Frame
      /\ Acting /\ current \in Writer /\ scripts \in [ScriptIds -> Record \cup {Absent}]
      /\ Top.phase \in ActingPhases
  BY StackParts DEF TypeOK, Call, Acting, ActingPhases
<1>1. /\ g \in Frame /\ SameExecution(g, Top)
      /\ g.phase = Top.phase /\ g.failed = Top.failed
  BY <1>0, CountedFrame
<1>2. /\ q \in Seq(Frame) /\ q # <<>> /\ Len(q) = n
      /\ \A i \in 1..(n - 1) : q[i] = stack[i]
      /\ q[n] = g
  BY <1>0, <1>1, Push
<1>3. n \in Nat /\ n >= 1 /\ Top = stack[n] /\ UNCHANGED scripts
  BY <1>0, StackParts DEF Top, Call
<1>4. \A i \in 1..n : /\ stack[i].phase = "on_error" => stack[i].failed
                      /\ i # n => stack[i].phase \in ActingPhases
  BY DEF StatusInv, Orderly
<1> HIDE DEF q
<1>5. CASE Len(stack) >= MaxCallDepth
  BY <1>0, <1>3, <1>5, StatusActed DEF Call
<1>6. CASE ~(Len(stack) >= MaxCallDepth)
  <2>1. Enter(s, q)
    BY <1>6, <1>g DEF q
  <2> HIDE DEF n
  <2>2. \A i \in 1..n : /\ q[i].script = stack[i].script
                        /\ q[i].phase = stack[i].phase
                        /\ q[i].failed = stack[i].failed
                        /\ q[i].phase \in ActingPhases
    <3>1. \A i \in 1..n : i = n \/ i \in 1..(n - 1)
      BY <1>3
    <3> QED BY <1>0, <1>1, <1>2, <1>3, <1>4, <3>1 DEF SameExecution
  <2>3. CASE stack' = Resumed(q, FALSE, FALSE) /\ current' = current
    <3> DEFINE f == stack'[n]
    <3>1. Returned(stack', q, FALSE, FALSE)
      BY <1>2, <2>3, Return
    <3>2. /\ stack' \in Seq(Frame) /\ Len(stack') = n
          /\ \A i \in 1..n : /\ SameExecution(stack'[i], q[i])
                             /\ stack'[i].phase = q[i].phase
                             /\ i # n => stack'[i] = q[i]
          /\ f.failed = (q[n].failed \/ q[n].phase = "actions")
      BY <1>2, <3>1 DEF Returned
    <3>3. n \in 1..n /\ (\A i \in 1..(n - 1) : i \in 1..n /\ i # n)
      BY <1>3
    <3>4. /\ f \in Frame /\ f.script = Top.script /\ f.phase = Top.phase
          /\ f.failed = (Top.failed \/ Top.phase = "actions")
      BY <1>3, <2>2, <3>2, <3>3, ElementOfSeq DEF SameExecution
    <3>5. \A i \in 1..(n - 1) : stack'[i] = stack[i]
      BY <1>2, <3>2, <3>3
    <3>6. f.phase = "on_error" => f.failed
      BY <1>3, <1>4, <3>3, <3>4
    <3>7. \A r \in ScriptIds : Unstopped(r)
      BY <1>3 DEF Unstopped
    <3> HIDE DEF f
    <3>8. /\ Top.failed => f.failed
          /\ f.failed => f.phase \in ActingPhases
          /\ f.phase # "starting" => Top.phase # "starting"
      BY <1>0, <3>4
    <3>9. Len(stack') = Len(stack) /\ stack'[Len(stack)] = f
          /\ \A i \in 1..(Len(stack) - 1) : stack'[i] = stack[i]
      BY <3>2, <3>5 DEF n, f
    <3> QED BY <1>0, <3>2, <3>4, <3>6, <3>7, <3>8, <3>9, StatusOnTop
  <2>4. ASSUME NEW f \in Frame, stack' = Append(q, f), f.phase = "starting", ~f.failed
        PROVE  StatusInv'
    <3>1. Len(q) = Len(stack)
      BY <1>2 DEF n
    <3>2. \A i \in 1..Len(q) : /\ q[i].script = stack[i].script
                               /\ q[i].phase = stack[i].phase
                               /\ q[i].failed = stack[i].failed
                               /\ q[i].phase \in ActingPhases
      BY <1>2, <2>2
    <3> QED BY <1>2, <1>3, <2>4, <3>1, <3>2, StatusEntered
  <2> QED BY <1>0, <1>2, <2>1, <2>3, <2>4, EnterType
<1> QED BY <1>5, <1>6

LEMMA StatusStep ==
  ASSUME TypeOK, StatusInv, [Next]_vars
  PROVE  StatusInv'
<1>0. stack \in Seq(Frame) /\ scripts \in [ScriptIds -> Record \cup {Absent}]
  BY DEF TypeOK
<1>1. ASSUME UNCHANGED stack, \A s \in ScriptIds : Unstopped(s)
      PROVE  StatusInv'
  <2>1. Orderly(stack)'
    BY <1>1 DEF StatusInv, Orderly
  <2>2. Accounted(scripts, stack)'
    <3>1. \A i \in 1..Len(stack) : stack[i].script \in ScriptIds
      <4>1. \A i \in 1..Len(stack) : stack[i] \in Frame
        BY <1>0, ElementOfSeq
      <4> QED BY <4>1 DEF Frame
    <3>2. \A s \in ScriptIds : Stopped(scripts', s) => Stopped(scripts, s)
      BY <1>1 DEF Unstopped, Stopped
    <3> QED BY <1>1, <3>1, <3>2 DEF StatusInv, Accounted, Stopped
  <2>3. StatusExplained'
    BY <1>1 DEF StatusInv, StatusExplained, Unstopped, Executing
  <2> QED BY <2>1, <2>2, <2>3 DEF StatusInv
<1>2. ASSUME UNCHANGED <<scripts, stack>> PROVE StatusInv'
  BY <1>1, <1>2 DEF Unstopped
<1>3. CASE RunNext
  <2>1. /\ Head(todo) \in ScriptIds /\ <<>> \in Seq(Frame) /\ stack = <<>> /\ UNCHANGED scripts
        /\ current \in Writer
    BY <1>3, HeadTailProperties, EmptySeq DEF RunNext, TypeOK
  <2>2. CASE stack' = Resumed(<<>>, FALSE, FALSE) /\ current' = current
    BY <1>2, <2>1, <2>2 DEF Resumed
  <2>3. ASSUME NEW f \in Frame, stack' = Append(<<>>, f), f.phase = "starting", ~f.failed
        PROVE  StatusInv'
    <3> DEFINE q == <<>>
    <3>1. q \in Seq(Frame) /\ q = stack /\ Len(q) = 0 /\ 1..0 = {} /\ stack' = Append(q, f)
      BY <2>1, <2>3
    <3> HIDE DEF q
    <3>2. Len(q) = Len(stack) /\ 1..Len(q) = {}
      BY <3>1
    <3> QED BY <2>1, <2>3, <3>1, <3>2, StatusEntered
  <2> QED BY <1>0, <1>3, <2>1, <2>2, <2>3, EnterType DEF RunNext
<1>4. CASE Begin
  <2>1. PICK phase \in {"actions", "skipping"} :
          stack' = Append(Below, [Top EXCEPT !.phase = phase])
    BY <1>4 DEF Begin
  <2> DEFINE f == [Top EXCEPT !.phase = phase]
  <2>2. Top \in Frame /\ stack # <<>> /\ Top.phase = "starting" /\ SetRunning(Top.script)
    BY <1>0, <1>4, StackParts DEF Begin
  <2>3. f \in Frame /\ f.script = Top.script /\ f.phase = phase /\ f.failed = Top.failed
    BY <2>2 DEF Frame
  <2>4. Len(stack) \in 1..Len(stack) /\ Top = stack[Len(stack)] /\ DOMAIN stack = 1..Len(stack)
    BY <1>0, <2>2, StackParts, LenProperties DEF Top
  <2>5. ~Top.failed
    BY <2>2, <2>4 DEF StatusInv, Orderly, ActingPhases
  <2>6. Top.script \in ScriptIds /\ Executing(Top.script)
    BY <2>2, <2>4 DEF Frame, Executing
  <2>7. /\ \A s \in ScriptIds : Unstopped(s)
        /\ ~Stopped(scripts', Top.script)
    <3>1. CASE scripts[Top.script] = Absent
      BY <2>2, <3>1 DEF SetRunning, Unstopped, Stopped
    <3>2. CASE scripts[Top.script] # Absent
      <4>1. /\ scripts' = [scripts EXCEPT ![Top.script] = MarkedRunning(scripts[Top.script])]
            /\ scripts[Top.script] \in Record
        BY <1>0, <2>2, <2>6, <3>2 DEF SetRunning
      <4>2. scripts'[Top.script].status = "running"
        BY <1>0, <2>6, <4>1, Statuses
      <4> QED BY <1>0, <2>6, <4>1, <4>2 DEF Unstopped, Stopped
    <3> QED BY <3>1, <3>2
  <2> HIDE DEF f
  <2>8. /\ stack' \in Seq(Frame) /\ Len(stack') = Len(stack) /\ stack'[Len(stack)] = f
        /\ \A i \in 1..(Len(stack) - 1) : stack'[i] = stack[i]
    BY <1>0, <2>1, <2>2, <2>3, Push DEF f
  <2> QED BY <2>1, <2>2, <2>3, <2>5, <2>7, <2>8, StatusOnTop DEF f
<1>5. CASE HandleErrors
  <2> DEFINE f == [Top EXCEPT !.phase = "on_error", !.failed = TRUE]
  <2>1. Top \in Frame /\ stack # <<>> /\ Top.phase = "actions" /\ stack' = Append(Below, f)
        /\ UNCHANGED scripts
    BY <1>0, <1>5, StackParts DEF HandleErrors
  <2>2. f \in Frame /\ f.script = Top.script /\ f.phase = "on_error" /\ f.failed
    BY <2>1 DEF Frame
  <2> HIDE DEF f
  <2>3. /\ stack' \in Seq(Frame) /\ Len(stack') = Len(stack) /\ stack'[Len(stack)] = f
        /\ \A i \in 1..(Len(stack) - 1) : stack'[i] = stack[i]
    BY <1>0, <2>1, <2>2, Push
  <2>4. \A s \in ScriptIds : Unstopped(s)
    BY <2>1 DEF Unstopped
  <2> QED BY <2>1, <2>2, <2>3, <2>4, StatusOnTop DEF ActingPhases
<1>6. CASE Skip
  <2>1. Top.phase = "skipping" /\ stack # <<>>
    BY <1>6 DEF Skip
  <2>2. Len(stack) \in 1..Len(stack) /\ Top = stack[Len(stack)] /\ Top.failed \in BOOLEAN
    BY <1>0, <2>1, StackParts DEF Top, Frame
  <2>3. TRUE = ~Top.failed
    BY <2>1, <2>2 DEF StatusInv, Orderly, ActingPhases
  <2> QED BY <1>6, <2>1, <2>3, StatusReturn DEF Skip
<1>7. CASE Finish
  <2>1. (~Top.failed) \in BOOLEAN /\ Top.phase # "starting"
    BY <1>7 DEF Finish
  <2> QED BY <1>7, <2>1, StatusReturn DEF Finish
<1>8. CASE Other
  BY <1>8, StatusActed DEF Other
<1>9. ASSUME NEW t \in Targets, NEW v \in Values, Write(t, v)
      PROVE  StatusInv'
  BY <1>9, StatusActed DEF Write
<1>10. ASSUME NEW s \in ScriptIds, scripts[s] # Absent, UNCHANGED stack,
              \/ scripts' = [scripts EXCEPT ![s] = Enabled(scripts[s])]
              \/ scripts' = [scripts EXCEPT ![s] = Disabled(scripts[s])]
       PROVE  StatusInv'
  <2>1. scripts[s] \in Record
    BY <1>0, <1>10
  <2>2. scripts'[s].status \in {"active", "paused"} /\ \A r \in ScriptIds \ {s} : scripts'[r] = scripts[r]
    BY <1>0, <1>10, <2>1, Statuses
  <2>3. \A r \in ScriptIds : Unstopped(r)
    BY <2>2 DEF Unstopped
  <2> QED BY <1>1, <1>10, <2>3
<1>11. ASSUME NEW s \in ScriptIds, NEW d \in Definition, DeployScript(s, d)
       PROVE  StatusInv'
  <2>1. scripts'[s].status \in {"active", "paused"} /\ \A r \in ScriptIds \ {s} : scripts'[r] = scripts[r]
    BY <1>0, <1>11, Statuses DEF DeployScript
  <2>2. \A r \in ScriptIds : Unstopped(r)
    BY <2>1 DEF Unstopped
  <2> QED BY <1>1, <1>11, <2>2 DEF DeployScript, Commanded
<1>12. ASSUME NEW s \in ScriptIds, DeleteScript(s)
       PROVE  StatusInv'
  <2>1. scripts'[s] = Absent /\ \A r \in ScriptIds \ {s} : scripts'[r] = scripts[r]
    BY <1>0, <1>12 DEF DeleteScript
  <2>2. \A r \in ScriptIds : Unstopped(r)
    BY <2>1 DEF Unstopped
  <2> QED BY <1>1, <1>12, <2>2 DEF DeleteScript, Commanded
<1>13. CASE Command
  BY <1>2, <1>10, <1>11, <1>12, <1>13
     DEF Command, Commanded, EnableScript, DisableScript, WriteOutput
<1> QED
  BY <1>2, <1>3, <1>4, <1>5, <1>6, <1>7, <1>8, <1>9, <1>13, StatusCall
     DEF Next, EngineStep, StartCycle, vars

(* The failures of nested executions of a script reach the outer ones, so  *)
(* that none ends well after another stopped the script.                   *)
THEOREM StatusInvariant == Spec => []StatusInv
<1>1. Init => StatusInv
  <2> SUFFICES ASSUME Init PROVE StatusInv
    OBVIOUS
  <2>1. stack = <<>> /\ Len(stack) = 0 /\ 1..0 = {}
    BY EmptySeq DEF Init
  <2>2. StatusExplained
    BY EngineAssumption, Statuses DEF Init, StatusExplained
  <2> QED BY <2>1, <2>2 DEF StatusInv, Orderly, Accounted
<1>2. TypeOK /\ StatusInv /\ [Next]_vars => StatusInv'
  BY StatusStep
<1>3. QED BY <1>1, <1>2, TypeCorrect, PTL DEF Spec

(* A script is stopped with an error only after ErrorLimit failures in a   *)
(* row, and left marked running only by a failure that was not yet the     *)
(* last one allowed, whatever runs, calls and commands there are.          *)
THEOREM StatusIsExplained == Spec => []StatusExplained
<1>1. StatusInv => StatusExplained
  BY DEF StatusInv
<1>2. QED BY <1>1, StatusInvariant, PTL

=============================================================================
