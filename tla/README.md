# Formal models of the edge agent

TLA+ models of the parts of the agent that are hard to test, the TLC configurations that check
them on small instances, and proofs that TLAPS checks for every value of the constants. The
reference is the Rust code under `src/src`; the comments of the modules and the `map` of
`PROJECT.json` name the lines each definition stands for.

## The system

One process, a set of tokio tasks, shared state behind locks and channels.

| Part | State | Operations | What is hard |
|---|---|---|---|
| Circuit breaker (`resilience/circuit_breaker.rs`) | five atomics | `is_open`, `record_success`, `record_failure`, `release_permit`, `reset` | threads interleave between any two atomic operations |
| Script engine (`scripting/engine.rs`) | current context, call depth, cycle | one cycle: triggers, then `execute_with_depth` per script, nested calls | commands change the scripts between any two awaits; failures on every path |
| Conflict detector (`scripting/conflict.rs`) | winning write per target | check and record, reset per cycle | order of scripts, priorities, duplicates, failed writes |
| Script storage (`scripting/storage.rs`) | map under a lock, a directory of files | load, add, save, enable, disable, delete, roll back, results | crash in the middle of a write, two loads that may fail or pass files over, two file formats |
| Script limits (`scripting/limits.rs`) | counters per run and per minute | checks | recursion |
| Offline queue (`offline_queue.rs`) | SQLite table behind a mutex | enqueue, peek, ack, nack, batches, clear, vacuum | eviction, expiry, clock steps, late acks, disk limit, failed counts |
| Modbus client and actor (`modbus.rs`) | channel per device, breaker, limiter, request queue | connect, read all, write, reconnect | timeouts, early returns, half-open permits |
| Rate limiter, timeouts (`resilience/`) | two atomics | acquire, refill | refill is a load and a store |
| Command handler (`commands.rs`) | shared state, the deployed program and the one before it | receive, execute, answer; configuration updates; deploy and roll back programs | a lock held across an await, two files that must agree, partial failure |
| MQTT client (`mqtt.rs`), telemetry (`telemetry.rs`) | two bounded channels, the connection | event loop, publications, lost connections | everyone waiting on everyone |
| Start-up, activation, configuration (`main.rs`, `provisioning.rs`, `config.rs`) | `config.yaml`, the activation token | load, activate, save, connect, restart | a token that is good once, a file that is truncated first |
| Shutdown (`shutdown.rs`) | the tasks' handles | signal, wait, disconnect | tasks dropped while they hold or wait for the lock |
| Function blocks (`scripting/function_blocks/`, `fb_registry.rs`), persistence (`scripting/persistence.rs`) | timers, counters, edges; SQLite | execute per scan, save, restore | restart in the middle of a timing or of a save, another program over old rows |
| Triggers (`scripting/triggers.rs`) | last value and time of each trigger | check in order until one fires | debounce, clock set back, memory that outlives its trigger |
| GPIO actor (`gpio.rs`) | the pins, a request channel | read all, write | a request that timed out is carried out later |
| Parallel executor (`scripting/parallel.rs`) | branches and a result channel | AND, OR, all-settled, timeouts | cancellation, late results |
| Health, utilities | | | see `components` in `PROJECT.json` |

How they interact: the main task starts the command handler and then the script engine over one
shared `ScriptStorage`. The engine reads the active scripts, executes them one after the other,
and writes to GPIO and Modbus through actors; the command handler changes the same storage, and
writes to the same outputs, at any of the engine's awaits. The Modbus clients each own a circuit
breaker and share nothing else. Telemetry, the command handler and the engine all go through one
`RwLock` around `AppState`, in which the MQTT client lives too; its event loop is a task of its
own behind two channels of 100 places. The offline queue and the parallel executor are library
parts the agent does not start yet.

## The modules

| Module | Models |
|---|---|
| `CircuitBreaker` | the breaker, one action per atomic operation |
| `Scripts` | a script's record and what each storage operation does to it |
| `ConflictDetector` | the verdict on a write and what is recorded of it |
| `ScriptEngine` | the engine over the two modules above, composed with the command handler's effects |
| `ScriptStorage` | the storage in memory and on disk, with stops and restarts |
| `PriorityQueue` | what a queue promises: the abstract specification |
| `OfflineQueue` | the SQLite queue, shown to implement `PriorityQueue` |
| `Modbus` | the Modbus actor, its devices, their breakers and limiters |
| `ParallelExecutor` | one divergence: the tasks of its branches, the channel, the collector |
| `FunctionBlocks` | the eight block types as functions: execute, serialize, restore, reset |
| `FBRegistry` | the registry of blocks, the scan, the rows on disk and restarts |
| `Deployment` | program deployment and roll-back over `ScriptStorage`, and the engine's start from both |
| `Startup` | loading, activation, saving and connecting, with systemd around it |
| `Agent` | the running agent over `Startup`: lock, channels, tasks, shutdown |
| `Gpio` | the GPIO actor, its channel and its callers' timeouts |
| `Triggers` | the triggers of a script over `Gpio`, with the engine's loop and commands |
| `CircuitBreakerProofs`, `ScriptEngineProofs`, `ModbusProofs`, `ParallelExecutorProofs`, `DeploymentProofs`, `TriggersProofs`, `FBRegistryProofs` | the theorems about the module of that name and those it extends |
| `ConnectionProofs` | the theorems about `Agent` and `Startup`, and about `OfflineQueue`, which share no variable |
| `MC...` | the instances for TLC |

### CircuitBreaker

A client's `pc` says which atomic operation it does next; an action does that one operation and
nothing else, so every interleaving the compiler and the processor may produce under acquire and
release orderings on single atomics appears as an order of actions. (The five atomics are only
ever used one at a time and each has a single modification order; weaker effects between two of
them, which the code's orderings allow on some processors, are not modelled.) Time is the age of
`last_failure_ms`, which stops at the recovery timeout because the code only asks whether it is
over. The clock is not set back: `saturating_sub` then makes the circuit wait longer, no more.
`holds` and `raced` are history variables: who has a permit it has not returned, and whether a
`reset` erased the time stamp of a circuit that another thread was opening, and none was stored
since. A circuit in that state is never probed, and the code does nothing about it until the
next reset or time stamp: `OpenIsStamped` and `Comeback` claim nothing of it, and of every other
circuit the same as without resets. A client that is admitted reports a success, a failure or
nothing but the return of its permit (`release_permit`), at any later time.

### ScriptEngine

The engine is one task, so its own state changes one step at a time; the commands come between
any two steps. `stack` is the chain of `execute_with_depth` calls that are open, `saved` in a
frame is `prev_script_id` and `prev_script_priority`, and `phase` is the place in the function.
Actions of a script are not enumerated: at each step a script does any action that a deployed
definition could hold (a write with any value to any target, a call to any script, something
else that succeeds or fails), which is every list of actions at once. The time limit and the
rate limiter may refuse or cut short any run; they depend on time, which is not modelled here.
The time limit is looked at when the loop comes to an action and once more when the action is
counted; when it passes in between, the action is done without being counted and is the last of
its run (`Counted`, `Late`). `enabled` is looked at only where scripts are selected, as in the
code: one that is queued, or called, is executed whatever a command does to it in the meantime.
Conditions hold or do not hold. Saved definitions may be replaced while their script runs, as in
the code, where the run goes on with its own copy: a frame keeps the priority it was entered
with.

A write is registered with the detector before the hardware is asked, as in the code. Its
failure may leave the output changed or not. `unsure` is a history variable: targets whose last
granted write failed, or that a command wrote directly. A write of the value that is there
already is granted and not recorded, as in the code; `MCPriority` adds a memory of what each
script was told in a cycle, to show what follows from that (finding 10).

### ScriptStorage

Every operation holds the write lock while it writes its file, so an operation is: take the
lock, begin the write (`fs::write` truncates), end it. A stop may come at any point, and
`Restart` then finds what the directory holds: files that do not parse are skipped, and of two
files for one script the one listed last counts. `Reload` is the second load, by
`ScriptEngine::init`, at a time when the command handler already serves commands. A load empties
the map before it lists the directory, skips what it cannot read, and ends at the first error of
the listing, which its callers log and go on after: it may leave any of the scripts out
(`Directory`), and `missed` is the history of those it left out though their file is good.
`acked` is history: what the last successful answer said of each script; `unsettled` marks the
scripts with an operation that failed or was cut short, about which the code promises nothing.

### OfflineQueue and PriorityQueue

The mutex serialises calls, so a call is one action, with an outcome for each statement that can
fail or be the last before a stop (statements commit one by one). Two statements do not fail but
are taken for zero: the count of the rows and the size of the file (`RowCounts`, `FileSizes`). A
queue whose count failed looks empty, evicts nothing for its size and takes the message past it;
`missed` counts these failures. A message is one page, so `pages` is a high-water mark that only
`Vacuum` lowers, which is what SQLite does. The order of rows that the `ORDER BY` of an eviction
leaves open is a choice.

`PriorityQueue` says what the queue promises without rows, statements or SQL: a message that is
taken in may cost one other at a full queue and a lot of them at a full disk (`Cost`), the least
important ones; messages expire only when they are too old; a consumer is shown the most
important messages, the oldest of them, and at least one if there is any; an acknowledgement
removes exactly what the consumer was shown and acknowledges, if it is still there.
`KeepsPromise` is the refinement `INSTANCE PriorityQueue WITH waiting <- table, shown <- held`.

### Modbus

The actor is one task that takes one request at a time from its channel; `request` is what each
caller waits for. Only a read takes several steps: each device goes through its registers
(`read`), and the devices of a parallel read take turns at every await. Breaker and limiter are
owned by the client and used by this one task, so each of their calls is atomic here and the
breaker is a record with the operators `Admits`, `Admitted`, `Succeeded`, `Failed`;
`CircuitBreaker` models the same code for the threads its documentation promises to support. A
register is answered at once, answered late, refused or times out (5 s); the device's own time
(10 s) is `DeadlineAfter` such timeouts. `connect` awaits nothing, so its timeout cannot pass,
and when it fails an older connection is kept. A second, for the limiter, is the time from one
refill to the next; the bursts of two of them may meet in one second of the clock. `fruitless`
is history: the reads in a row that gave the caller no value.

### ParallelExecutor

`execute` spawns one task per branch (at most `max_concurrent`; the rest are left out) and
collects their results from a channel until its deadline. A branch's `phase` is the place in its
loop: before the first poll, at the check of the next action and of the time, inside an action,
or gone. An action succeeds, fails, panics, or never ends. Tasks run on several threads, so
their steps come in any order with the collector's and the clock's. An aborted task is dropped
only where it waits, inside an action or before its first poll; one that is being polled sends
its result first. `timeout_at` asks the channel before it asks the clock, so a result that waits
is taken even after the deadline. The result that `execute` returns is `results`, and
`IsSuccess` is what the caller makes of it.

### FunctionBlocks and FBRegistry

A block is a record of its fields and `Execute` is one call of its `execute`. The instant a
timer measures from, which is never saved, is its age. A scan reads every wire before any block
executes, so the order of the hash map does not matter there, and takes only values of the
input's kind (`Takes`); it does matter in a save, where each row is a transaction of its own and
the agent may stop between any two. A restart finds the rows there are, reads them or fails to,
and gives each to the block of the same id: its type is not looked at, fields that both types
have are taken over, the others keep their defaults. `clean` and `whole` are history: whether
the blocks have lived from complete saves of the same program only; after a save that was cut
short, or a row that could not be read, an edge may be counted again, and the properties leave
that out. `stalled` marks timers restored from a row that lacks the start they need, about which
nothing is claimed until they come to rest. The blocks of the agent are created when the engine
starts; `create_fb`, `remove_fb` and `reset_all` are calls of the library and so actions too.

### Deployment

`Deployment` extends `ScriptStorage` with `program.json` and the command handler, which executes
one command at a time: a script command is an operation of the storage, a program command is an
operation of the storage and then a save, each of which may fail or be cut short. The engine
loads the scripts and, later, reads `program.json` once, at any time between two steps of the
handler, the middle of a write included; when its load of the scripts ends with an error it runs
without the program. `configured` is the program it took its blocks from, and nothing but a
restart changes it. A script may still be disabled by the engine's own writes (`ScriptEngine`
has those); here it changes only by commands. `diverged` is history: the scripts something was
done to since the last program command for them was answered. A program command whose second
write fails leaves the script it wrote: the code does not take it back, and answers with an
error, so nothing is claimed of that script until the next answered command.

### Startup and Agent

`Startup` is the life of the process between systemd and the running agent; every failure and
every stop is counted by `upsets`. What a configuration holds is reduced to what decides a start
(credentials, a tenant, a token, an interval that `validate` accepts or not, and whether TLS has
the CA certificate without which `MqttClient::new` refuses it) and the log level, which
`set_log_level` changes in memory and does not save. `unsaved` is history: the last save failed.
`Agent` adds the tasks. The `RwLock` is a queue: its first waiter gets the lock when it is free
for it, and nobody passes a waiting writer, as tokio documents. A task is at a step of its loop,
holds the lock for reading, writing or not, or waits. A publication needs room in the channel to
the event loop; the event loop, while it waits for room in the channel to the handler, does
nothing else. A signal makes each task be dropped at any of its awaits, with what it holds and
waits for; the write of a file is not an await. The shutdown then takes the read lock to
disconnect Modbus, and after it the write lock to disconnect MQTT.

### Gpio and Triggers

The channel is a sequence of requests; a caller that gives up marks its request, and the actor
serves it all the same. `init_gpio` takes the pins in `Order`, may stop at any of them and keeps
those it has. A pin number in a command is cut to eight bits, a script's is not. `Triggers` runs
the loop of the engine over it: read all inputs, check the triggers in their order until one
fires, run the script, which may write. Times are ages, so the clock can go on for ever, and be
set back: the age of a trigger that fired recently is then negative, which the debounce (a
subtraction that wraps in release builds) and the interval (one that saturates) see differently.
Commands disable, enable and replace the script and never touch what its triggers remember.
`flipped`, `unseen` and `strange` are history: pins that changed since the last reading, places
whose trigger looked at its pin before a change and has the change still to see, and places
whose trigger finds what another one left there and has not looked itself.

## The runs

| Run | Bounds | What it shows |
|---|---|---|
| `breaker` | 2 threads, one of which may reset; thresholds 2, one permit, timeout 1 tick | `PermitsBounded`, `QuiescentPermits` (no permit is lost), `OpenIsStamped`, `LegalTransitions`; under fairness `Comeback` (an open circuit is probed, and closed when the service is well) |
| `engine` | 2 scripts of 2 priorities, one target of 2 values, calls 2 deep, 2 actions per run, stop after 2 failures, 1 command | `ContextFollowsStack`, `OutputIsWinners`, `StatusExplained`, and the depth and the number of actions in `TypeOK` |
| `engine_terminates` | no targets, calls 3 deep | `RunsTerminate` under fairness |
| `deploy` | 2 scripts, one also as yaml, capacity 1; 2 versions of one program and another program; every load may fail or leave scripts out | `AckedIsStored`, `ProgramIsDeployed`, `RollbackOnce`, and the capacity in `DeploymentOK` |
| `queue` | 1 consumer, 4 messages of 2 priorities, sizes 0 and 2, 3 pages, clock 0 to 2, set back once, 1 failed count | `KeepsPromise`, the refinement, and the size (with the failed counts) in `TypeOK` |
| `modbus` | 2 callers; a device with 2 registers and one with 1, a limit of 1 and writes; threshold 2, recovery 1 tick | `BreakerIsRight` (permits and counts of the breaker agree with what is read), the burst in `TypeOK`; under fairness `Answers` and `Heals` |
| `parallel` | 0 to 3 branches, 2 tasks, 1 or 2 actions, timeouts 1 and 2, clock 0 to 3 | `ResultsAreTrue`; under fairness `Returns`, and `Settles` but for an OR nobody won |
| `blocks` | 4 programs around a timer and 2 of an edge trigger and a counter, 1 signal with 2 edges, presets 1 and 2, one stop, removal or reset of timers, two of counters | `CountedOnce`, `TimersKeepTime` |
| `agent` | delivered with or without a tenant and a CA certificate; 1 failed save or crash, channels of 1 place, 2 messages, 1 lost connection, an interval that is accepted and one that is not, 1 other log level | `KeptOnDisk`, `StopsCleanly`; under fairness `ComesBack`, `ControlContinues`, `ShutdownEnds` |
| `inputs` | 1 input, 1 output, 2 requests in the channel, a threshold and a gpio_change trigger debounced by 1, or no trigger, deployed in turn; clock set back once | `LastSentWins`, `NoPhantomChange`; under fairness `LastingChangeRuns` |
| `tenant_kept` | module `Startup` alone, a device as `--init` leaves it, no failure | that activation saves the tenant does **not** hold |
| `control_stalls` | no network from the start, 2 requests in the channel, no failure | that the engine keeps getting to the shared state does **not** hold |

Configurations that state what a comment of the code says and the code does not do are kept
beside the runs; each gives a short counterexample under `tlc -config <name>.cfg <module>`:

| Configuration | Module | Violated | Finding |
|---|---|---|---|
| `MCHalfOpenLimit` | `MCCircuitBreaker` | `HalfOpenLimit` | 1 |
| `MCContextIsTop` | `MCScriptEngine` | `ContextIsTop` | 2 |
| `MCEvictionFreesDisk` | `MCOfflineQueue` | `EvictionFreesDisk` | 4 |
| `MCAndMeansAll` | `MCParallelExecutor` | `AndMeansAll` | 5 |
| `MCPulseEnds` | `MCFBRegistry` | `PulseEnds` | 8 |
| `MCFirstRead` | `MCTriggers` | `FirstReadIsQuiet` | 9 |
| `MCLowerIsBlocked` | `MCPriority` | `LowerIsBlocked` | 10 |
| `MCActiveIsEnabled` | `MCScriptEngine` | `ActiveIsEnabled` | 11 |
| `MCFirstCompletes` | `MCParallelExecutor` | `FirstCompletes` | 12 |
| `MCLoadsAll` | `MCDeployment` | `LoadsAll` | 13 |
| `MCEngineReloads` | `MCDeployment` | `EngineReloads` | 14 |
| `MCLevelKept` | `MCAgent` | `LevelKept` | 15 |

Why the bounds are enough: the breaker's races need two threads and one step of difference
between a thread's copy and the atomic; two permits or a third thread add no new kind of step,
and the proofs cover any number of both. The engine's interesting cases need a caller, a callee
(which may be the caller) and a conflict between two priorities; with two actions a script can
call and then write, with depth 2 a call can be refused. `ErrorLimit` is 5 in the code and 2
here: one failure that is not the last and one that is. One command in the run suffices to hit
any point of a run; more commands only repeat that, and the proofs allow any number. The storage
needs a script that comes only from commands, one that is provisioned as a file too, and one
beyond the capacity; two versions of one program are what a roll-back goes between, and a
program on another script leaves a version of the first behind. The queue needs a full table, a
full disk, an eviction that empties it and rows with equal order; size 0 is full from the start,
size 2 fills below and above the disk limit, and one failed count shows what another would;
`EvictFloor` is 5 in the code and 2 here, in proportion to the four messages. Modbus devices
share nothing but the actor, so two show how they meet; two registers are as many as timeouts
fit into a device's time, so it ends in the middle or just at the end of a read; threshold 2 (3
in the code) has one failure that opens the circuit and one that does not. The executor's tasks
meet only in the channel and at the abort, so two of them show every order; the third branch is
one beyond `max_concurrent`, and the clock goes one tick past the longest timeout. Its run has
deadlock checking off because an execution ends. Blocks meet only through wires, so two show a
chain, a row that cannot be read and a row that was not written; a preset of 2 has a middle to
be restarted in, and the second edge is the one that could be counted twice; a count may be
restored twice. The state constraint `Bounded` keeps the rows of timers and of counters on disks
of their own: a row another type of block wrote is met among the timers, and among the counters
and edge triggers. Its run has deadlock checking off because the signal, and the stops, are
bounded. One place per channel is enough for both channels to be full at once (100 in the code),
two messages for one in the channel and one in the event loop's hand, one upset for every place
a save or a start can break at; intervals 3 and 60 are one the update refuses and one it
accepts. Two GPIO requests let a late write stand behind or before another; the output is first
in `Order`, so that an agent that has the input has both; the list without triggers is what
leaves memory behind for the next; the two triggers of the other, debounced by one unit, let one
fire before the other has looked, and one unit of a clock set back makes every age negative that
can be.

Every property of a passing run has a mutant: a variant of one definition, as a plausible bug
would have it (next to the definition, marked "Variant of"), under which TLC finds the property
violated.

### Fairness

`breaker`: weak fairness of every thread's steps and of time. Inside a call they are loops over
compare-and-swap without blocking; between calls the clients are polling loops (telemetry and
the script engine read every device again and again), and a request they were admitted for ends
within its timeout and is reported. One early return of the Modbus client does not report
(`modbus.rs:682`): what becomes of its permit is checked in `Modbus`.
`engine_terminates`: weak fairness of the engine's own steps. The engine is one task that the
runtime always polls again, and what it awaits is answered: locks are held only for short
sections, the actors answer or their reply channel closes, delays are bounded by the limits.
`modbus`: weak fairness of the actor, which is one task always run again, of its timers and of
the clock; strong fairness of the engine's read request, with which every scan cycle begins,
whatever else the engine asks for in between. Devices need never answer. `Heals` assumes of its
device that from some time on it stays connected and answers at once, and leaves out devices
with a rate limit: there a read without a token counts as a failure, and a device that is asked
too often may be refused again and again.
`blocks`: strong fairness of the scan and of time, because saves come between scans, weak
fairness of the rows of a save and of the restart by systemd. Only `PulseEnds` uses it.
`agent`: weak fairness of each task's next step, of the lock, of the event loop, of the start-up
and of the shutdown, which is what the runtime and systemd (`Restart=on-failure`) give
(`Scheduled`), and of the reconnection (`Networked`), which the event loop tries for ever: a
network that is away comes back. `control_stalls` is the same without that last assumption. No
fairness of a crash, a signal, or a message. `ControlContinues` and `ShutdownEnds` except the
state in which the event loop waits for room for a message nobody takes (`Flooded`, for the
former only with a full request channel as well), and `ComesBack` the starts that lead nowhere
(`Stranded`): these are the ways in which the agent does stop, and the properties say there are
no others. `Stranded` includes the device as `--init` writes it, with TLS and no CA certificate,
which `MqttClient::new` refuses. A shutdown while the network stays away is not checked: with
the request channel full it waits until systemd kills the process.
`inputs`: weak fairness of the engine's step, the actor's answer and the clock.
`LastingChangeRuns` assumes that a read is answered in time again and again (`AnswersInTime`):
the actor waits for nothing but its requests.
`parallel`: weak fairness of the collector, of every task's polls and drops, which the runtime
gives, and of the clock. Nothing makes an action come to an end. `Settles` leaves out an OR that
nobody won: `parallel.rs:306` drops the handles of its tasks, which does not stop them.

### What the runs found

1. `circuit_breaker.rs:135`: the permit counter is cleared after the state is set to half-open;
   a permit taken in between is forgotten and one more request than the limit is let through.
2. `engine.rs:975`: a called script whose conditions do not hold returns without restoring the
   caller's context, so the caller's next writes are recorded, and ranked, under the called
   script.
3. `storage.rs:498`: after a failed run that is not the fifth in a row the script stays marked
   running, and is never selected again until it is enabled or deployed again or the agent
   restarts. `StatusExplained` allows exactly this and no other way to it.
4. `offline_queue.rs:188`: evicting rows does not shrink the file, so a queue at its disk limit
   evicts five or more messages at every enqueue. The comment of the eviction says "until disk
   usage is under limit" (`offline_queue.rs:187`).
5. `parallel.rs:166`: success is computed over the results that arrived, so an AND whose
   branches timed out as a whole, panicked or were never started succeeds.
6. `main.rs:626`: activation puts the tenant in `AppState.tenant_id` and never in the
   configuration, which `MqttClient::new` takes it from: a device delivered without one
   activates, saves, spends its token, and never connects.
7. `telemetry.rs:140`: publications wait for room under the read lock, the handler asks for the
   write lock every 100 ms, and no reader passes a waiting writer. With the network away for
   longer than it takes to fill 100 requests, control stops until it is back. The watchdog is a
   task of its own and does not notice.
8. `timers.rs:676`: a pulse saved in the very scan that started it is restored as active with no
   start, and stays on for ever.
9. `engine.rs:1578`: only `delete_script` and `disable_script` of the engine reset what triggers
   remember, and no command calls them: a script deployed again after its place held other
   triggers, or after a while without, fires on its first reading, against the comment "Don't
   trigger on first read" (`triggers.rs:319`). `NoPhantomChange` is what does hold: whatever is
   deployed, a trigger that has looked itself fires only for a change since.
10. `conflict.rs:96`: a write of the value that is there already is not recorded, so after A
    (priority 50) wrote and B (100) was told that the value is there, a script of priority 60
    writes another, over B's, against "Higher priority scripts win conflicts" and "Lower
    priority scripts are blocked from overwriting" (`conflict.rs:7`).
11. `engine.rs:941`: `enabled` is not looked at when a script is executed, and `set_running` and
    the result write the status whatever it is: a script disabled while it is queued, or called
    by another, runs and is "active" at the end, which is documented as "Script is active and
    will be triggered" (`storage.rs:147`). It is not selected again.
12. `parallel.rs:306`: an OR waits for the first branch that succeeds, and is documented as
    "first branch to complete" (`parallel.rs:26`, `46`): after a first branch that failed it
    goes on waiting.
13. `storage.rs:221`: "Load all scripts from disk" empties the map, and then a directory that
    cannot be listed leaves it empty, an entry that cannot be read ends it in the middle, and a
    file that cannot be read is passed over. The callers (`main.rs:227`, `main.rs:716`) log it
    and go on without the scripts, acknowledged ones among them, until the next start.
14. `commands.rs:1219`: "Engine will reload on next cycle" is the answer of a deployment, but
    the engine takes the program only in `init` (`engine.rs:415`): its blocks stay those of the
    old program until the agent restarts.
15. `commands.rs:551`: `set_log_level` answers "Effective after agent restart" and does not save
    the configuration: the restart takes the old level, unless an update of the configuration
    happened to save it.

Seen while modelling, without a statement of the documentation to hold them against:
`write_gpio` with pin 273 writes pin 17 (`commands.rs:817`); the directions "in" and "out" pass
validation (`config.rs:1019`) and `init_gpio` skips such a pin (`gpio.rs:460`); the roll-back
after a change of program brings back a version of the program before (`commands.rs:1171`); the
telemetry interval of an update is saved but the running collector keeps the one it started with
(`telemetry.rs:45`); a command over the rate limit gets no answer (`commands.rs:257`); nothing
is subscribed again after a reconnection, so a broker that forgot the session sends no more
commands (`mqtt.rs:247`); a shutdown does not save the blocks (`engine.rs:780`); when its
`COUNT` fails the queue takes a message past its size (`offline_queue.rs:269`); the comment at
the head of `cmd_deploy_program` lists the save of the program before the script and the code
does them the other way round (`commands.rs:1112`); a missing CA certificate is announced as
"using system CA store" (`config.rs:1168`) and refused by `MqttClient::new` (`mqtt.rs:457`).
Release builds are compiled with `panic = "abort"`: what `ParallelExecutor` says of a panic
holds of the other profiles only.

## The proofs

`CircuitBreakerProofs` assumes only the types of the constants (`BreakerAssumption`: a finite
set of clients, at least one permit). `PermitsBounded` is not inductive: a thread about to
increment may rely on a stale copy, and the state may change between its steps. `BreakerInv`
adds, for each client, what its place in the code says about its local copies and about what it
holds (`ClientInv`), and `PermitsHeld`: the counter is at most the number of clients that hold a
permit, unless some thread is about to clear it. From it follow `TypeCorrect`,
`PermitsStayBounded`, `NoPermitIsLost` and `OpenStaysStamped`; that transitions are legal needs
no invariant.

`ScriptEngineProofs` assumes `EngineAssumption` and `ScriptAssumption`. The lemmas about
sequences (`StackParts`, `Push`, `Return`) say what each action does to the stack of executions;
`TypeCorrect` uses them and bounds the depth and the number of actions. `ContextFollowsStack` is
inductive with the types because it speaks of the saved context of every frame, not only of the
top: when a call returns, the invariant of the frame below becomes that of the top.
`OutputFollowsWinner` needs only the types. `StatusIsExplained` is about a script at rest, and
everything that decides it happens while the script runs, nested and perhaps several times over:
`StatusInv` adds that the frames of the stack are in order (only the topmost may be ending) and
that an execution of a script that was stopped with an error while it runs has a failed
execution at or above it, whose failure will reach it.

`ConnectionProofs`, on `OfflineQueue`, assumes `QueueAssumption`. An action of the queue removes
by id what `PriorityQueue` removes by message, so the two agree only while an id names one
message for ever: `IdsAreSerials` says so of the rows and of what each consumer still holds.
Expiry compares times and the abstract queue the order of arrival: `TimeFollowsSerial` relates
them within a stretch between two steps of the clock. With these, `PromiseIsKept` maps every
step to one of the abstract queue or to none: the eviction loop, the batch that is cut short and
the late acknowledgement each by a lemma of its own. A count that failed is one of the cases of
`Enqueue`: it adds one to the bound of the table, which is what `SizeBounded` says and
`QueueTypes` proves, and it never lets more leave than `Cost`.

`ModbusProofs` assumes `ModbusAssumption`. `BreakerOK` says of each device what its breaker, the
place of its read and its history agree on, state by state of the circuit; `Requests`, `Reads`
and `Limits` are what the callers, the read in progress and the limiter need (in a second the
tokens left and the requests sent are together no more than the burst). Only `BreakerRight`, and
`ModbusInvariant` behind it, has a hypothesis besides: the threshold is more than 1, as in the
code (3, `modbus.rs:49`). TLC shows why it is needed: a device without registers takes a permit
of a half-open circuit and reports nothing, which is harmless because nothing but a single
failed connection could have opened its circuit.

`ParallelExecutorProofs` assumes `ExecutorAssumption`. `ResultsAreTrue` speaks of what was
returned; `HonestOnce` says the same of what is still in the channel, and `Accounted` that a
task that is gone has sent its result or panicked, without which the collector could return too
early.

`DeploymentProofs` assumes `StorageAssumption` and `DeploymentAssumption`. `StorageInv`
strengthens `AckedIsStored` by `WriteInProgress`: what the file, the map and the answers are
while the file is truncated, and that a write which will insert still has its room. A load that
leaves scripts out is one of its steps: what is in memory is what the answers said but for the
scripts in `missed`, which are not there at all. `StorageIsUsed` is the refinement: each command
of `Deployment` is a step of `ScriptStorage` or leaves it alone, so `StorageInv` holds of the
composition. `DeploymentInv` adds the order of the two files: `CommandInProgress` has one case
per place of the handler between them, `Touched` that a script being written is one nothing is
claimed about.

`ConnectionProofs`, on `Agent`, assumes the types of the constants in `Startup` and `Agent`.
`AgentInv` says who may hold or await the lock in each place (`Queued`, `Exclusive`), that the
tasks exist only while the agent runs (`Lifecycle`), and that the file differs from memory only
while its holder writes it (`FileIsMemory`). `LockExcludes` and `SavesAreFinished` hold whatever
fails; `StaysOnDisk` says that nothing but the log level and a failed save (`unsaved`, until a
start or the next save that goes well) sets memory and file apart.

`TriggersProofs` assumes `GpioAssumption` and `TriggersAssumption`. For `LateWritesLose` the
pins and the channel have to be seen together: the last write to a pin in the channel is the one
wanted, and where there is none the pin has it (`LastWriteIsWanted`). `NoPhantom` rests on
`MemoryIsSeen`: what a trigger remembers of its pin is what it was when it last looked, so when
that is not what the pin is, the pin changed since (`unseen`) or the trigger never looked at it
itself (`strange`). It holds for every list of triggers and every order of deployments.

`FBRegistryProofs` assumes `BlockAssumption`, `RegistryAssumption` (every program defines its
blocks with a type that exists and a preset in range) and `AbsentAssumption` (what stands for no
block is not a block). One lemma for each type says what `Execute` does to it (`RunsTON` to
`RunsTRIG`), others what wiring, resetting, saving, restoring and time do; the actions are put
together from them. `RegistryInv` says that each block has the type of its definition and
remembers its inputs, that each row is one a block of some type wrote, and that a timer which is
not `stalled` is in a state it can go on from, the rows written by such timers too: what is
restored is as good as what was saved. `CountedOnce` needs more than its bound on the count: an
edge seen by a trigger may still be on its way to the counter, and one of the signal on its way
to the trigger. `NotAhead` adds both to the count, in the blocks and, when the rows are those of
one whole save, in the rows. For `TimersKeepTime`, `ClockInv` relates the start, the elapsed
time and the output of an on-delay timer to the history `held`. Its theorem has a hypothesis,
`SteadyTimers`: no wire changes the preset of a timer or switches it back to the wall clock.
Without it the property is not what the code promises: an output that came on after a short
preset stays on when the preset is made longer. The programs of `MCFBRegistry` satisfy it
(`SteadyPrograms`, evaluated by the run).

Where a proof module's invariant is new, TLC checked it on the instance of the run before it was
proved. Every safety and action property of the passing runs is a theorem. Only model-checked:
liveness (`Comeback`, `RunsTerminate`, `Answers`, `Heals`, `Returns`, `Settles`, `ComesBack`,
`ControlContinues`, `ShutdownEnds`, `LastingChangeRuns`), which is beyond the prover.

## Not modelled

Expressions, variables and conditions of scripts (a condition holds or does not); the rate of
anything per minute, the content and layout of messages, topics and QoS, of TLS anything but
whether there is a CA certificate; the commands that only report, and the reboot; retained
variables, execution history and backups, tables of their own that no other part of the agent
uses yet; the checks of `validate` on fields that decide nothing else; the simulated build of
the GPIO actor, and its calls that nothing uses (`read_pin`, `pin_count`, `reconfigure`); power
loss (SQLite's and the file system's durability: a stop here is a stop of the process); the
memory model beyond single atomics. Utilities (`bounded.rs`, `interning.rs`, `error.rs`,
`security.rs`) have no state the rest depends on. The parts without a module are listed in
`PROJECT.json`.

## Plan

The safety properties are proved. Worth adding next: the lock order behind `ControlContinues` as
an invariant (who can hold the read lock while the request channel is full), which is the safety
half of that property; and what a row of the older program's counter means under a new one,
about which `CountedOnce` claims nothing.
