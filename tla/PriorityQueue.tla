---------------------------- MODULE PriorityQueue ----------------------------
(* What the offline queue promises: accepted messages wait, the most       *)
(* important of them are the ones shown to a consumer, and they leave only *)
(* when a consumer they were shown to acknowledges them, when they are too *)
(* old or cleared, or when room is short, the least important first.       *)
EXTENDS Naturals, FiniteSets

CONSTANTS
  Age,       \* how old a message may become; 0 = any age
  Lot        \* how many messages a shortage of disk space may cost

VARIABLES
  waiting,   \* accepted messages: records with an id, a priority, the time
             \* they came (created_at), the stretch of time this falls in
             \* (step) and their number in it (serial)
  shown,     \* the messages each consumer was shown and has not settled
  clock, size, crowded   \* the time, the room for messages, a full disk

vars == <<waiting, shown>>

Leaving == waiting \ waiting'

Entering == waiting' \ waiting

(* No message of A is more important than one of B.                        *)
NoMoreImportant(A, B) == \A a \in A, b \in B : a.priority <= b.priority

(* No message of A came before an equally important one of B.              *)
NoneBefore(A, B) ==
  \A a \in A, b \in B :
    a.priority = b.priority /\ a.step = b.step => b.serial < a.serial

TooOld(m) == Age > 0 /\ m.created_at + Age < clock

(* What may be given up to take in one message: one for a queue at its     *)
(* size, and a lot of them, or a tenth, for a full disk.                   *)
Cost ==
  (IF Cardinality(waiting) >= size THEN 1 ELSE 0)
    + (IF ~crowded THEN 0
       ELSE IF Cardinality(waiting) \div 10 > Lot THEN Cardinality(waiting) \div 10
       ELSE Lot)

Start == waiting = {} /\ \A c \in DOMAIN shown : shown[c] = {}

(* A message is accepted under a fresh id, and others were given up for    *)
(* it; or they were and it could not be stored.                            *)
Accept ==
  /\ NoMoreImportant(Leaving, waiting \ Leaving)
  /\ Cardinality(Leaving) <= Cost
  /\ \A m, n \in Entering : m = n
  /\ \A m \in Entering, w \in waiting : m.id > w.id
  /\ UNCHANGED shown

Expire == Entering = {} /\ (\A m \in Leaving : TooOld(m)) /\ UNCHANGED shown

(* Old messages expire; a consumer is shown the most important others, the *)
(* oldest of them, and at least one if any is left.                        *)
Show(c) ==
  /\ Entering = {} /\ \A m \in Leaving : TooOld(m)
  /\ shown' = [shown EXCEPT ![c] = shown'[c]]
  /\ shown'[c] \subseteq waiting' /\ (shown'[c] = {} => waiting' = {})
  /\ NoMoreImportant(waiting' \ shown'[c], shown'[c])
  /\ NoneBefore(waiting' \ shown'[c], shown'[c])

(* A consumer acknowledges some of what it was shown: just these leave,    *)
(* unless they have left before.                                           *)
Settle(c) ==
  /\ Entering = {}
  /\ shown' = [shown EXCEPT ![c] = shown'[c]] /\ shown'[c] \subseteq shown[c]
  /\ Leaving = waiting \cap (shown[c] \ shown'[c])

Clear == waiting' = {} /\ UNCHANGED shown

(* The consumers are gone.                                                 *)
Forget == UNCHANGED waiting /\ shown' = [c \in DOMAIN shown |-> {}]

Step ==
  \/ Accept \/ Expire \/ Clear \/ Forget
  \/ \E c \in DOMAIN shown : Show(c) \/ Settle(c)

Promise == Start /\ [][Step]_vars
=============================================================================
