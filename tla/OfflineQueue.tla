---------------------------- MODULE OfflineQueue ----------------------------
(* The offline message queue (src/src/offline_queue.rs): a table of        *)
(* messages in SQLite behind a mutex, bounded in messages and in disk      *)
(* pages, filled by enqueue and drained by consumers that peek, publish    *)
(* and acknowledge.  The statements of one call commit one by one.         *)
(*                                                                         *)
(* A message occupies one page of the database file.  Topic, payload, qos, *)
(* retain and retry_count, which order nothing, are left out.              *)
EXTENDS Naturals, FiniteSets

CONSTANTS
  Consumers,
  Priorities,    \* MessagePriority
  MaxSizes,      \* the max_size values the queue is opened with
  MaxAge,        \* max_age_secs in clock ticks; 0 = messages do not expire
  MaxPages,      \* max_disk_bytes in pages; 0 = no limit
  EvictFloor,    \* least number of messages evicted for disk space (5)
  BatchSizes,    \* max_count of peek_batch; 1 is peek
  MaxId,         \* bound of the model: messages ever enqueued
  MaxClock,      \* bound of the model: the clock
  MaxSteps,      \* bound of the model: times the clock is set back
  MaxMissed      \* bound of the model: failed counts while the queue is open

ASSUME QueueAssumption ==
  /\ Priorities \subseteq 0..3
  /\ MaxSizes \subseteq Nat /\ MaxSizes # {}
  /\ MaxAge \in Nat /\ MaxPages \in Nat /\ EvictFloor \in Nat \ {0}
  /\ BatchSizes \subseteq Nat \ {0}
  /\ MaxId \in Nat /\ MaxClock \in Nat /\ MaxSteps \in Nat /\ MaxMissed \in Nat

VARIABLES
  table,      \* the rows of message_queue
  last_id,    \* the sequence behind AUTOINCREMENT
  pages,      \* pages of the database file
  max_size,
  held,       \* the rows each consumer's last peek returned, not yet acked
  now,        \* the wall clock
  opened,     \* history: rows found when the queue was opened
  missed,     \* history: counts that failed since the queue was opened
  steps,      \* history: how often the clock was set back
  serial      \* history: messages ever inserted

vars == <<table, last_id, pages, max_size, held, now, opened, missed, steps, serial>>

-----------------------------------------------------------------------------
(* A row; step and serial are history: in which stretch of a clock that    *)
(* was not set back, and as which message ever, it was inserted.           *)
Row == [id: 1..MaxId, priority: Priorities, created_at: 0..MaxClock,
        step: 0..MaxSteps, serial: 1..MaxId]

AtLeast(a, b) == IF a >= b THEN a ELSE b

AtMost(a, b) == IF a <= b THEN a ELSE b

(* ORDER BY priority DESC, created_at ASC: the index that gives this order *)
(* also orders equal rows, by id.                                          *)
Before(m, n) ==
  \/ m.priority > n.priority
  \/ m.priority = n.priority /\ m.created_at < n.created_at
  \/ m.priority = n.priority /\ m.created_at = n.created_at /\ m.id < n.id

(* The rows a query with LIMIT n returns.                                  *)
First(rows, n) ==
  {m \in rows : Cardinality({k \in rows : Before(k, m)}) < n}

(* ORDER BY priority ASC, created_at ASC LIMIT n: rows equal in both come  *)
(* in any order.                                                           *)
Sooner(m, n) ==
  m.priority < n.priority \/ (m.priority = n.priority /\ m.created_at < n.created_at)

Evictable(rows, n) ==
  {gone \in SUBSET rows :
     /\ Cardinality(gone) = AtMost(n, Cardinality(rows))
     /\ \A d \in gone, k \in rows \ gone : ~Sooner(k, d)}

Live(rows) == IF MaxAge = 0 THEN rows ELSE {m \in rows : m.created_at + MaxAge >= now}

-----------------------------------------------------------------------------
Init ==
  /\ table = {} /\ last_id = 0 /\ pages = 0
  /\ max_size \in MaxSizes
  /\ held = [c \in Consumers |-> {}]
  /\ now = 0
  /\ opened = 0 /\ missed = 0 /\ steps = 0 /\ serial = 0

(* SELECT COUNT, which is taken for 0 when it fails.                       *)
RowCounts == {Cardinality(table)} \cup IF missed < MaxMissed THEN {0} ELSE {}

(* get_db_size, likewise.                                                  *)
FileSizes == {pages, 0}

(* Variant of Full: off by one.                                            *)
FullLate(counted) == counted > max_size

Full(counted) == counted >= max_size

DiskFull(seen) == MaxPages > 0 /\ seen >= MaxPages

EvictCount(counted) == AtMost(AtLeast(counted \div 10, EvictFloor), 50)

(* Variant of Enqueue: without AUTOINCREMENT the id is one more than the   *)
(* largest in the table, which may have been given out before.             *)
EnqueueReusing(p) ==
  /\ serial < MaxId
  /\ ~Full(Cardinality(table)) /\ ~DiskFull(pages)
  /\ \E top \in 0..last_id :
       /\ \A m \in table : m.id <= top
       /\ top = 0 \/ \E m \in table : m.id = top
       /\ table' = table \cup {[id |-> top + 1, priority |-> p, created_at |-> now,
                                step |-> steps, serial |-> serial + 1]}
       /\ last_id' = AtLeast(last_id, top + 1)
  /\ serial' = serial + 1
  /\ pages' = AtLeast(pages, Cardinality(table'))
  /\ UNCHANGED <<max_size, held, now, opened, missed, steps>>

(* enqueue: evict_one, evict_for_disk_space, insert.  Any of the three may *)
(* fail, or the process be killed before it: what was evicted stays so.    *)
(* Deleted rows leave their pages in the file for later rows.              *)
Enqueue(p) ==
  /\ serial < MaxId
  /\ \E counted \in RowCounts, seen \in FileSizes :
     \E one \in IF Full(counted) THEN Evictable(table, 1) ELSE {{}} :
     \E some \in IF DiskFull(seen) THEN Evictable(table \ one, EvictCount(counted))
                                   ELSE {{}} :
       LET rest == table \ (one \cup some)
           row  == [id |-> last_id + 1, priority |-> p, created_at |-> now,
                    step |-> steps, serial |-> serial + 1]
       IN /\ missed' = IF counted = Cardinality(table) THEN missed ELSE missed + 1
          /\ \/ /\ table' = rest \cup {row}
                /\ last_id' = last_id + 1
                /\ serial' = serial + 1
                /\ pages' = AtLeast(pages, Cardinality(table'))
             \/ /\ table' \in {table \ one, rest}
                /\ UNCHANGED <<last_id, serial, pages>>
  /\ UNCHANGED <<max_size, held, now, opened, steps>>

(* peek (n = 1) and peek_batch: expired rows are deleted, an error in      *)
(* which is ignored, then the first rows are returned, or an error.        *)
Peek(c, n) ==
  /\ table' \in {Live(table), table}
  /\ held' \in {held, [held EXCEPT ![c] = First(table', n)]}
  /\ UNCHANGED <<last_id, pages, max_size, now, opened, missed, steps, serial>>

(* The consumer has published some of what it holds and acks it (ack,      *)
(* ack_batch), sooner or later.  It nacks the others, or fails to ack      *)
(* them: that only counts the attempt, and they stay until it peeks again. *)
Ack(c, done) ==
  /\ table' = {m \in table : \A k \in done : m.id # k.id}
  /\ held' = [held EXCEPT ![c] = @ \ done]
  /\ UNCHANGED <<last_id, pages, max_size, now, opened, missed, steps, serial>>

Clear ==
  /\ table' = {}
  /\ UNCHANGED <<last_id, pages, max_size, held, now, opened, missed, steps, serial>>

Vacuum ==
  /\ pages' = Cardinality(table)
  /\ UNCHANGED <<table, last_id, max_size, held, now, opened, missed, steps, serial>>

(* The process stops and opens the file again, perhaps with another size.  *)
Open(m) ==
  /\ max_size' = m
  /\ held' = [c \in Consumers |-> {}]
  /\ opened' = Cardinality(table)
  /\ missed' = 0
  /\ UNCHANGED <<table, last_id, pages, now, steps, serial>>

Tick ==
  /\ now < MaxClock
  /\ now' = now + 1
  /\ UNCHANGED <<table, last_id, pages, max_size, held, opened, missed, steps, serial>>

(* Utc::now() follows the system clock, which may be set back.             *)
SetBack ==
  /\ steps < MaxSteps
  /\ now' \in 0..now /\ now' # now
  /\ steps' = steps + 1
  /\ UNCHANGED <<table, last_id, pages, max_size, held, opened, missed, serial>>

Next ==
  \/ Clear \/ Vacuum \/ Tick \/ SetBack
  \/ \E p \in Priorities : Enqueue(p)
  \/ \E m \in MaxSizes : Open(m)
  \/ \E c \in Consumers, n \in BatchSizes : Peek(c, n)
  \/ \E c \in Consumers : \E done \in SUBSET held[c] \ {{}} : Ack(c, done)

Spec == Init /\ [][Next]_vars

-----------------------------------------------------------------------------
(* The queue never grows past its size, or past what it was opened with,   *)
(* but for one message with each count that fails; a size of zero still    *)
(* lets one message in.                                                    *)
SizeBounded == Cardinality(table) <= AtLeast(1, AtLeast(max_size, opened)) + missed

(* Rows are rows, no two of them have the same id, or one still to be      *)
(* given out, and there are not too many.                                  *)
TypeOK ==
  /\ table \subseteq Row
  /\ \A m, n \in table : m.id = n.id => m = n
  /\ \A m \in table : m.id <= last_id
  /\ last_id \in 0..MaxId /\ serial \in 0..MaxId /\ pages \in 0..MaxId
  /\ max_size \in MaxSizes /\ opened \in 0..MaxId /\ missed \in 0..MaxMissed
  /\ held \in [Consumers -> SUBSET Row]
  /\ now \in 0..MaxClock /\ steps \in 0..MaxSteps
  /\ SizeBounded

(* The queue keeps the promise of PriorityQueue: it gives up the least     *)
(* important, and only when messages or pages are at their limit; it shows *)
(* the most important, those of one priority in the order they came in as  *)
(* long as the clock was not set back between them; only what is too old   *)
(* expires; and an ack, however late, removes the messages it is for if    *)
(* they are still there, and never another.                                *)
Queue == INSTANCE PriorityQueue WITH
           waiting <- table, shown <- held, clock <- now, size <- max_size,
           crowded <- DiskFull(pages), Age <- MaxAge, Lot <- EvictFloor

KeepsPromise == Queue!Promise

(* Messages evicted for disk space leave the file below its limit (the     *)
(* comment of evict_for_disk_space: "Evict oldest low-priority messages    *)
(* until disk usage is under limit").                                      *)
EvictionFreesDisk ==
  [][DiskFull(pages) /\ ~Full(Cardinality(table)) /\ serial' > serial /\ ~(table \subseteq table')
       => pages' < MaxPages]_vars
=============================================================================
