# A TLA+ model of the engine's concurrency core

This directory models the parts of the engine (Ultralight's port of WebKit) in
which threads, callbacks and messages meet: the locks everything else is built
on, the garbage collector's handshake with the code it runs beside, its
parallel and its concurrent marking, and two services of the web platform that
span threads, locks and message ports. These are the parts where a unit test
reaches few of the orders in which things can happen and where a mistake
shows as a hang or as memory corruption far from its cause.

Paths below are relative to `src/Source/`.

## 1. Inventory

### The system

| Part | State it keeps | Operations | Interacts through |
|---|---|---|---|
| **WTF::Lock** (`WTF/wtf/Lock.h`, `Lock.cpp`, `LockAlgorithm*.h`) | one byte: held bit, parked bit | lock, tryLock, unlock, unlockFairly, safepoint, tryLockWithTimeout | ParkingLot queues keyed by the lock's address |
| **WTF::ParkingLot** (`ParkingLot.cpp`) | hash table of buckets, each a queue of `ThreadData`; each thread's address and token | parkConditionally, unparkOne, unparkCount, unparkAll | bucket WordLocks, one system mutex and condition per thread, callbacks run under the bucket lock |
| **WTF::WordLock** (`WordLock.h`, `WordLock.cpp`) | one word: locked bit, queue-locked bit, queue head; nodes on waiters' stacks | lock, unlock | the nodes' parking mutexes and conditions |
| **WTF::Condition** (`Condition.h`) | the waiter flag | waitUntil, notifyOne, notifyAll | a Lock, ParkingLot |
| **WTF::ReadWriteLock, CountingLock** | counters | read/write lock | Lock, Condition, ParkingLot |
| **WTF::AutomaticThread, WorkerPool, ParallelHelperPool** | running/waiting flags, task lists | notify, poll, work, stop, join | a shared Lock and Condition |
| **JSC::Heap handshake** (`JavaScriptCore/heap/Heap.cpp`, `HeapInlines.h`) | `m_worldState` bits, current/next phase, request queue, served/granted tickets, flags of the collector thread | acquireAccess, releaseAccess, stopIfNecessary, collectAsync/Sync, preventCollection, lastChanceToFinalize; the collector's poll and phases | `m_worldState` + ParkingLot, `m_threadLock` + AutomaticThread condition |
| **JSC parallel marking** (`SlotVisitor.cpp`, `MarkingConstraintSolver.cpp`, `ParallelHelperPool.cpp`) | private and shared mark stacks, active and waiting counts, the bonus task, the solver's queues | drain, donate, steal, waitForTermination, execute constraints, runTaskInParallel | `m_markingMutex` and its condition, the solver's lock and condition |
| **JSC write barrier** (`HeapInlines.h`, `Heap.cpp`, `SlotVisitor.cpp`) | a mark bit and a `CellState` per cell, the remembered set, the race mark stack | store and barrier, allocate, visit, begin and end a collection | mark bits and cell states, read and written without locks |
| **Web locks** (`WebCore/Modules/web-locks`) | per origin: queues and held locks by name; per client: pending requests and release promises | request, abort, callback, settle, stop; registry: request, release, abort, client going away | main-thread run loop, context task queues, event-loop tasks |
| **Message ports** (`WebCore/dom/MessagePort.cpp`, `dom/messageports`, `dom/ScriptExecutionContext.cpp`) | the map of port objects, the channel's pending messages and protectors, a context's "soon" flag | post, start, close, transfer, notify, take, dispatch, suspend and resume | main-thread run loop, worker run loops, event loops |
| **Workers, IndexedDB server, service worker jobs** (`WebCore/...`) | worker states, open/transaction queues, job queues | start/terminate, open/version change/abort, register/update | cross-thread tasks and completion handlers |
| Parser, bytecode, JITs, WebAssembly, DOM, style, layout, loading, media, inspector, vendored libraries | — | — | outside the scope, see section 8 |

### What is hard in them, and what makes each correct

* **Locks.** A decision is made on a value that is stale by the time it is
  acted on (park after unlock); a lock is handed to a sleeping thread; buckets
  are shared by unrelated locks; wake-ups are sent after the locks that
  protected the decision are gone; compare-exchanges fail spuriously; queue
  nodes die with their owners' stack frames. Correct means mutual exclusion,
  no stranded or doubly woken sleeper, no access to a dead node.
* **Heap handshake.** Two threads pass the right to run the collector (the
  *conn*) back and forth through bits of one word, and each sleeps on values
  of that word; finalization is left to a thread that may be away; the
  collector thread comes and goes by timeout; shutdown meets all of it.
  Correct means that they never conduct at once, that the mutator never runs
  in a stopped world, that no collection starts over an unfinalized heap, and
  that whoever waits is woken.
* **Conditions and parking with timeouts.** A park that times out races the
  unparker that has just dequeued it; the table of buckets is replaced under
  threads that hold pointers into the old one. Correct means a monitor: first
  waiter woken first, no notification lost, and the result of a wait true.
* **Parallel marking.** Markers agree that nothing is left from counts and
  stacks they change in turn; helpers run a closure on another thread's stack.
  Correct means that the agreement is never early and always comes.
* **Concurrent marking.** The barrier decides from a mark bit and a cell state
  that visitors change at that moment. Correct means that no live cell is
  freed, now or by the next Eden collection, which trusts the remembered set.
* **Message ports.** One announcement stands for all pending messages, and is
  sent to an object that may have been replaced, on another thread, when it
  arrives. Correct means order, no duplicate, and no message stuck.
* **Web locks.** The registry's grant, the client's knowledge of it and the
  script's callback are three different moments, with queues between them;
  aborts, steals and departures fall in between. Correct means compatible
  holders, first come first served, and a registry that no client's departure
  leaves clogged.

`PROJECT.json` lists every hazard at its line with the properties that guard
it.

## 2. Modules

| Module | Models | Uses |
|---|---|---|
| `Mutex` | what a lock promises: holder, waiters, acquire, release, handoff | — |
| `ParkingLot` | parking on an address and `unparkOne` with a callback, in steps | — |
| `Lock` | the operations of WTF::Lock over `ParkingLot`; refines `Mutex` | `ParkingLot`, `Mutex` |
| `LockTimed` | `tryLockWithTimeout` on top of `Lock` | `Lock` |
| `LockProofs` | theorems about `Lock`, the refinement of `Mutex` among them | `Lock` |
| `WordLock` | WTF::WordLock, nodes included; refines `Mutex` | `Mutex` |
| `WordLockProofs` | theorems about `WordLock`, the refinement of `Mutex` among them | `WordLock` |
| `Selection` | what a loop that drops elements of a list leaves of it | — |
| `Monitor` | what a condition variable promises | `Selection` |
| `Condition` | WTF::Condition over the whole ParkingLot: timeouts, `unparkAll`, rehash; refines `Monitor` | `Monitor`, `Selection` |
| `ConditionProofs` | theorems about `Condition`, the refinement of `Monitor` among them | `Condition` |
| `HeapHandshake` | mutator, collector thread, continuous GC thread | — |
| `HeapHandshakeProofs` | theorems about `HeapHandshake` | `HeapHandshake` |
| `HeapExecution` | `HeapHandshake` with a history of whether the mutator ran | `HeapHandshake` |
| `ParallelMarking` | collector, helpers and mutator increments sharing the marking, the constraint solver, the helper pool | — |
| `ParallelMarkingProofs` | theorems about `ParallelMarking` | `ParallelMarking` |
| `ConcurrentMarking` | mark bits, cell states, write barrier, remembered set, Eden and Full collections | — |
| `ConcurrentMarkingProofs` | theorems about `ConcurrentMarking` | `ConcurrentMarking` |
| `WebLocks` | managers, registry and the queues between them | `Selection` |
| `WebLocksProofs` | theorems about `WebLocks` | `WebLocks` |
| `MessagePorts` | the two ports of a channel, the channel, the threads of their contexts | — |
| `MessagePortsProofs` | theorems about `MessagePorts` | `MessagePorts` |
| `MCLock`, `MCLockTimed`, `MCCondition`, `MCParallelMarking`, `MCConcurrentMarking` | the instances for TLC | the module they are named after |

The three heap modules divide the collector between them. `HeapHandshake` takes
it as given that marking reaches a fixpoint or does not yet; `ParallelMarking`
shows that the fixpoint is reached and is one, over a heap that stands still;
`ConcurrentMarking` shows that a fixpoint found beside a running mutator is
enough, with all visitors' stacks taken together.

Definitions described as mutants, or as another definition "if" or "with"
something changed, are deliberate bugs: each replaces the definition after it
in a check that the property it is paired with notices.

### Lock and ParkingLot

`byte[l]` is `m_byte` as a set of bits; `pc[t]` is the place of thread t in
`lockSlow`, `unlockSlow` or the ParkingLot; `cur`, `spin`, `fair` are the
locals of those functions. `queue[b]`, `bucketLock[b]`, `address[t]` and
`token[t]` are the ParkingLot's. One step is one atomic access to the byte or
one step of the ParkingLot: lock the bucket, validate and set the address,
enqueue and unlock; lock the bucket, dequeue, run the callback and unlock,
signal. `Atomic::transaction` is one step, since a failed iteration changes
nothing. `timeToBeFair` is a free choice, since it depends on a random time.
A weak compare-exchange may fail at will (`SpuriousFailure`).

### WordLock

`word` is `m_word` as a record; `shouldPark`, `nextInQueue`, `queueTail`,
`parkingLock` are the `ThreadData` of each thread, identified with the thread
since it lives on that thread's stack. The loads and plain stores that the
code performs as two accesses are two steps, so that the model can lose an
update if the argument in the code's comments were wrong. Sleeping threads may
wake for no reason.

### Condition and Monitor

The ParkingLot here is the full one: `tables` are all hash tables ever made
(the code leaks the old ones, too, since threads may still look at them),
`my[t]` the table a thread loaded without a lock, `bucketLock` the locks a
rehash holds. Work under one bucket lock is one step. `toSignal[t]` are the
threads t has dequeued and not yet signalled, the window in which a timeout
must wait for the signal. `Monitor` knows only holders, waiters in order and
what became of each wait; the mapping takes the waiters from the queue of the
current table.

### HeapHandshake

`world` is `m_worldState` as a set of its five bits; `phase`/`nextPhase` are
`m_currentPhase`/`m_nextPhase`; `requests`, `granted`, `served` are
`m_requests` and the tickets; `pc` gives the place of mutator and collector
thread in `runCurrentPhase`, `changePhase`, `stopTheMutator`,
`waitForCollector` and the rest; `op` is the call the mutator is in. A
compare-exchange retry loop is its successful iteration, and a load with the
`compareAndPark` that checks it is one step, because a park on a stale value
returns at once. Marking is a fixpoint that may or may not have converged;
GCRequest's scope is kept, its callbacks are not. Three branches are left out
because they are never taken, which invariants check: `handleNeedFinalize` in
`stopIfNecessarySlow`, `waitForCollector` and `releaseAccessSlow`
(`PendingFinalization`), and the branch of `stopTheMutator` that finds the conn
already the mutator's (`ConnDiscipline`).

### ParallelMarking

What a thread does under `m_markingMutex`, or under the solver's lock, is one
step; draining visits one cell between attempts to donate, the least the option
allows. `active` and `waiting` are the counts of `drainFromShared`, `isActive`
its local flag, `asleep` the threads in a wait on the condition. `bonus`,
`task` and `shouldExit` are how helpers get work. The constraints are a root
constraint and one that adds outgrowth; their execution in the solver is by
`pending`, `tasks`, `unclaimed` and `mayProduce`. `increments` says whether the
mutator does marking increments. `converge`'s quick first constraint, Sequential
constraints and the stealing of whole segments are left out.

Two things the model makes visible, neither an error. An increment of the
mutator can finish the last shared work without notifying anybody; a
collector in `waitForTermination` then sleeps until its deadline. Increments
are off unless there is one processor (`Options.cpp:423`), where the scheduler's
deadline is finite. And `m_numberOfWaitingParallelMarkers`
(`SlotVisitor.cpp:610`) is never lowered on the paths that return, so it drifts
upwards and makes steals smaller than intended; it is never zero where it is
used to divide.

### ConcurrentMarking

`marked` and `state` are the mark bits and the `CellState` hints, and every
access to one of them is a step: the barrier's look at the state, the test of
the mark bit, the compare-exchange to white, the second test and the store
back to black; a visitor's store of black, its load of the field, the
test-and-set of the child's mark bit and the push. The fences in the code put
these accesses in the order of the steps. A cell has one field; `register` is a
conservative root. `ExecuteConstraints` marks any of the roots and may or may
not merge the remembered set, since the solver runs constraints until none
produces work; marking ends only when all have been run and nothing is left.
Newly allocated bits are stale after a collection, so a new cell that was not
marked is freed. Weak handles and the barrier on executing CodeBlocks in
`runEndPhase` are left out.

### MessagePorts

`context[p]`, `object[p]` and `started` describe the present object of a port,
`entry` is its entry in `allMessagePorts` and `portToContextIdentifier`.
`channel` is the `MessagePortChannel` with its protectors as flags: it leaves
the registry when the last is gone. A worker reaches it through `mainQueue`, a
document directly, and answers come back by `inbox`. `soon[c]` is the context's
flag and its posted task in one, `events[c]` the tasks of its event loop.
Messages go from `port1` to `port2`. What carries a transferred port is left
out, but for the order in which its disentangling and its arrival reach the
main thread.

The model keeps these as the code has them, and claims nothing after a crash:

* `dispatchEvent` (`MessagePort.cpp:306`) dereferences the context of a port
  that was disentangled after the event was queued, though a comment in
  `disentangle` (203) says that no events come after it: a crash in the model;
* the task of `notifyMessageAvailable` (105) may find the new object of the
  port on a thread that is not the object's: a race in the model, which comes
  to the same or ends in a crash;
* messages of a batch that arrives after the port was disentangled are dropped
  (276), which is why `DeliveredInOrder` claims no completeness after a transfer;
* a message posted to a closed port stays pending and protects the channel for
  ever (`MessagePortChannel.cpp:141`), and a closed port can be transferred
  (`MessagePort.cpp:343`).

### WebLocks

An id is the index of a request in `requests`, which keeps its client, name,
mode and options. `pendingRequests` and `releasePromises` are the managers'
two maps; `lockRequestQueueMap` and `heldLocks` the registry's.
`mainQueue` is the main run loop, to which `MainThreadBridge` posts;
`toContext` what `ensureOnContextThread` posted to a worker, while an answer to
a document is handled in the registry's own step, as in the code;
`tasks` are the event-loop tasks of `didCompleteLockRequest`. A client is
active, stopped (its manager told the registry), or destroyed (answers to it
are dropped). `processLockRequestQueue` is its result: the longest prefix of
the queue that is grantable one after another. Requests rejected before they
get an identifier change nothing and are not modelled.

## 3. Runs

| Run | Configuration | What it shows |
|---|---|---|
| `lock_safety` | 3 threads, 2 locks in one bucket, spurious failures, symmetry | mutual exclusion with direct handoff, the parked bit covers the queue, no stranded sleeper, the assertions, `Lock` implements `Mutex` |
| `lock_liveness` | 3 threads, 1 lock, `FairSpec` | every parked thread is woken |
| `try_lock_with_timeout` | 2 threads, 1 retry | **violation**: true is returned to a thread that did not get the lock |
| `word_lock` | 3 threads, spin limit 1, spurious failures and wake-ups, `FairSpec` | mutual exclusion of lock and queue lock, plain stores lose nothing, well-formed queue, no node used out of scope, refinement of `Mutex`, every sleeper is woken |
| `condition` | 3 threads, 2 Conditions, a table that is rehashed for almost every new thread, symmetry | no missed notification, every parked thread accounted for, `Condition` implements `Monitor` |
| `heap_handshake` | 3 tickets, Eden requests, continuous thread, `LiveSpec` | conn discipline, stopped world, finalization, prevention, RELEASE_ASSERTs, `collectSync` means collected; collectSync, preventCollection, lastChanceToFinalize and acquireAccess return; a polling mutator's requests are served |
| `heap_execution` | 1 scope | **violation**: the mutator runs without `m_mutatorDidRun` |
| `parallel_marking` | collector, mutator, 2 helpers, a root, 2 children, common outgrowth, 2 collections, 1 timeout | marking is complete when it ends, the assertions, the solver's closure outlives its use, every collection ends |
| `concurrent_marking` | root and 2 cells, 2 visitors, 5 stores, 3 collections, symmetry | no live cell freed, the remembered set complete, the barrier's assertions |
| `web_locks` | document + worker, 3 requests for one name, both modes, abort and steal | compatible holders, a running callback holds its lock, no orphaned registry entry, no grantable request waits, first come first served |
| `web_locks_live` | document + worker, 2 exclusive requests, abort, steal and ifAvailable, `LiveSpec` | promises settle, the registry forgets the departed |
| `message_ports` | document + worker, 2 messages, 1 transfer | messages in order and once; none stuck at a port that is ready |

### Why the bounds are enough

* *Locks.* Two threads give contention; a third is needed for a barging thread
  beside an unlocker and a sleeper, and for a queue of two. Two locks in one
  bucket make queues mix. Spinning changes nothing but the spin count, so the
  Lock runs use `SpinLimit = 0`; the theorems hold for every limit.
* *Condition.* Three threads are a waiter, a notifier and a third that rehashes
  or shares the bucket; two Conditions make queues mix and part in a rehash. The
  load and growth factors are 1, so that the table grows with the second and
  third thread instead of the fourth.
* *Heap.* Two tickets let one collection end while another is pending, three
  let the continuous thread, an asynchronous request and `collectSync` overlap.
  The bits and phases are finite as they are; the scope of a request changes no
  guard of the handshake.
* *Parallel marking.* Two helpers and the collector give one that decides, one
  that donates and one that sleeps; two children give something to donate; the
  outgrowth makes the constraints produce work a second time.
* *Concurrent marking.* The theorems hold for all bounds; the run serves to find
  mistakes early and to try the mutants. Three collections give Full after Eden
  and Eden after Full.
* *Web locks.* An exclusive request between two shared ones, which an abort or
  a departure unblocks, needs three requests; a steal with a victim and a
  departure need two clients.
* *Message ports.* A second message is the first that is not announced; one
  transfer gives an old and a new object of a port, on either thread.

Deadlock is checked where the system never stops, or, where it really ends
(heap destroyed, all contexts destroyed), has a `Terminated` step that says so. It
is not in `parallel_marking`, `concurrent_marking` and `message_ports`, which end
with their bounds or wait for a script that need not act.

### Disagreements found

* `tryLockWithTimeout` (`WTF/wtf/Lock.cpp:93`) returns `isHeld()`, which is
  also true when somebody else holds the lock; `Lock.h` declares that true
  means acquired.
* `acquireAccess` by its fast path (`HeapInlines.h:230`) does not set
  `m_mutatorDidRun`, although the collector reads that flag as "the mutator did
  run".

## 4. Fairness

* `Lock`, `WordLock`: weak fairness of each thread's steps once it is inside
  an operation or holds the lock: the scheduler runs every thread and critical
  sections end. Nobody is obliged to call `lock()`. Spurious failures are
  switched off in `lock_liveness` (a compare-exchange that fails for ever would
  be a broken processor); `word_lock` has them, since what wakes a sleeper there
  does not depend on the exchanges of those who are awake.
* `HeapHandshake`: weak fairness of the collector thread and of the steps of
  an operation the mutator is in; strong fairness of the fixpoint's
  convergence, which is retried until it succeeds. `RequestsServed`
  also assumes `Polling`: the mutator keeps polling (allocation
  slow paths do) and its run loop serves its timer. The code admits that the conn may bounce between the two threads
  ("A mischevious mutator could repeatedly relinquish the conn back to us",
  `Heap.cpp:1324`) and no scheduling excludes it, so `WaitsReturn` and
  `RequestsServed` are stated for behaviours in which that stops
  (`BouncesStop`).
* `ParallelMarking`: weak fairness of collector, helpers and of an increment
  under way. The scheduler's time to stop is fair only if the mutator does
  increments, which goes with the scheduler whose deadline is finite; with the
  stochastic one it may be infinite, and everything must end without it.
* `MessagePorts`: weak fairness of the main run loop, the workers' run loops
  and the event loops. Scripts, transfers and the resumption of a document owe
  nothing; `NoMessageStuck` is about ports that come to rest ready to receive.
* `WebLocks`: weak fairness of the main run loop, each worker's run loop, each
  event loop, and of the settling of callbacks' promises. The last is an
  assumption about scripts: one that never settles keeps its lock for ever, as
  the API intends.

## 5. Proofs

`LockProofs` proves, for any sets of threads, locks and buckets, any hash, any
spin limit and with or without spurious failures, that `IInv` is inductive,
and from it `TypeOK`, `MutualExclusion`, `ParkedBitCoversQueue`,
`NoStrandedThread`, `SleeperAccountedFor` and `AssertionsHold`. None of these
is inductive alone. `IInv` adds what each program counter says about its
thread (`LocalInv`), who holds a bucket (`BucketInv`), that both bits are set
under an unlocker in the slow path and under a thread that has passed its
validation (`ByteInv`), that queued threads are asleep on an address of that
bucket and queued once (`QueueInv`), and what a dequeued thread is doing
(`TargetInv`). The heart of it is `ByteInv`: validation and enqueueing happen
under one hold of the bucket lock, the unlocker needs that lock before it can
clear the bits, so the value validated is still there when the thread is
queued. One lemma per action, one step per conjunct. Assumptions: `None` is
not a thread, the hash maps locks to buckets, the spin limit is a natural
number.

`WordLockProofs` proves, for any finite set of threads and any spin limit,
`TypeOK`, `MutualExclusion`, `PlainStoresLoseNothing`, `QueueWellFormed` and
`NoUseAfterScope`. The invariant `Inv` adds that
the queue lock is held only while the lock is, and what a thread about to
compare-exchange remembers of the value it loaded. The argument: every write
to the word is either a compare-exchange whose expected value has the queue
lock clear, or a store by the holder of the queue lock; so while a thread has
the queue lock, the word stands still.

The queue is a second invariant, `QInv`, over the first. It says that there is
a list of distinct threads, each inside `lockSlow` and yet to be woken, linked
by `nextInQueue` from the word's head to `None`, whose head knows the last of
them; and that a thread which waits and is not in the list is in the hands of
exactly one unlocking thread, which has taken it off the head and has not
notified it yet. A thread that has the queue lock may be between two of its
stores; `QInv` says for each of its places what the list is then (a node
linked but not published, a head taken off but still in the word). Enqueueing
extends the list at its end, dequeueing shortens it at its head, and nothing
else touches a link. `QueueWellFormed` follows the links for as many steps as
there are threads, so it needs that a list of distinct threads is no longer
than that; this is where the set of threads must be finite.

*The two locks implement `Mutex`.* The last parts of `LockProofs` and
`WordLockProofs` prove `ImplementsMutex`. The mapping reads the abstract holder
and the abstract waiters off the program counters, so a step of one thread can
only change that thread's part, or that of a thread it hands the lock to. Each
action is shown to make one of a few visible changes (a thread takes a free
lock, starts to wait, takes the lock it waits for, frees a lock, hands it over,
the last two perhaps to wait for it again) or none, and each of these to be a
step of `Mutex` or a stutter. That a step which takes a lock finds it free, and
that a lock is handed over by its owner, is `MutualExclusion` and the invariant
it was proved with.

`ConditionProofs` proves, for any finite set of threads, any conditions, any
hash and any load and growth factors, `ParkedThreadsAccountedFor`,
`NoMissedNotification` and that `Condition` implements `Monitor`. The proof
looks at the ParkingLot through the *line* of each condition: the threads
parked on it, in the order in which they stand in its bucket of the current
table. `Parks` says that a thread with an address is once in the line of that
condition or once in the hands of one notifying thread, and that no other
thread is in either; `Placed`, that a queued thread stands in the bucket that
its address hashes to in the current table, and that the buckets of a table are
distinct; `LocalInv`, what a thread knows at each place of the code, in
particular that the bucket it found is still a bucket of the table it loaded;
`HolderInv`, who holds the conditions' locks. With these, a thread that has
locked its bucket and found its table current sees exactly the line of its
condition, however many conditions share the bucket. Each action then leaves
all lines alone (`Quiet`), appends a thread to one, takes threads out of one,
or clears the address of a thread that is in no line.

The hard case is the rehash, which changes every queue at once. It
concatenates all queues and puts the threads into new ones by their new hash.
All threads of a condition were in one bucket and go to one bucket, so the
line is the same selection from the old queue, from the concatenation and from
the new queue: `RehashKeepsWaiters`. Below it are the lemmas about `Selected`
and `FlattenSeq` (as with web locks, proved from their recursion by a shortest
counterexample), and those about `NewTable` and `Materialize`: the numbers
given to old and new buckets are distinct and stay below the bound.

`NoMissedNotification` is proved over this invariant: only `notifyAll` clears
the flag before it dequeues, and `notifyOne` clears it only when the bucket is
empty or held nobody for it. For the refinement, each action is shown to do to
lines and statuses what one action of `Monitor` does, or nothing; a waiting
thread's status changes when it leaves the line, so a rehash, a signal on its
way and a timeout that comes too late are all invisible. Assumptions: the set
of threads is finite, `Hash` maps conditions to natural numbers, the factors
are positive and `None` is neither a thread nor a condition.

`HeapHandshakeProofs` proves, for any number of tickets, either or both scopes
and with or without the continuous GC thread, `TypeOK`, `ConnDiscipline`,
`StoppedWorldHasNoMutator`, `FinalizedBeforeNextCycle`, `PendingFinalization`,
`AssertionsHold`, `NoCollectionWhilePrevented` and `SyncMeansCollected`. Three
bits keep the threads apart: heap access, the conn and the stopped bit. The
invariant says which of them each place in the two threads' code implies
(`OpInv`, `AccessInv`, `ConnInv`, `StopInv`): only a mutator that has access can
be given the conn, the collector conducts only while the mutator has not got
it, and a phase in which the world is suspended is always conducted by
somebody, by the mutator itself or by the collector behind the stopped bit.
The rest (`PhaseInv`, `CycleInv`, `FinalizeInv`, `WaitInv`, `ShutdownInv`) says
how far a change of phase, a collection, a finalization, a wait for a ticket
and the shutdown have come. Assumptions: scopes are `Eden` and `Full`, the
number of tickets is a natural number, the flag for the continuous thread is
Boolean.

`ParallelMarkingProofs` proves, for any finite sets of helpers and cells and any
heap, `TypeOK`, `MarkingComplete`, `AssertionsHold` and `TaskEndsBeforeReturn`.
`CountInv` and `ActiveInv` make the number of active markers exact and say that
an inactive helper has no cells; `ChildrenInv`, that a marked cell with a child
that is not marked is on somebody's stack. So when the count is zero and the
shared stack is empty, marking is closed under the fields. That is not yet the
end: constraints may mark more. `SolverInv`, `ProduceInv` and `ConstraintInv`
follow one execution of the constraints, and say that while it has produced
nothing, nothing was marked since it began and the stacks are empty, so that
when it ends that way every constraint holds of the very marks it started with.
`TaskInv` says that a block of the parallel constraint is in the queue or in the
hands of a thread, and queued once. Assumptions: the sets are finite, the
collector and the mutator are not helpers, and no cell is one of the strings
that name a constraint.

`WebLocksProofs` proves, for any sets of clients, names and requests, `TypeOK`,
`HeldCompatible`, `NoGrantableWaits`, `NoOrphanedEntry`, `RunningHoldsLock` and
the action property `FirstComeFirstServed`. The invariant has two halves. One
is about the registry, name by name (`NameInv`): no request is queued twice or
both queued and held, and the holders are one exclusive or all shared; no
queued request is grantable. The other is about each request (`AnswerInv`,
`PromiseInv`, `EntryInv`): where the client believes the request to be, given
what the registry has and what is still on its way in either direction; a
request whose client does not know it any more has a release or an abort on its
way, or a departure, and these are what removes the entry in the end.
`PostedInv` and `DepartInv` speak of the queues. The proof has the same two
halves: what the registry's functions do to one name and what they answer
(`NameStep`, `Effect`), and how an answer or a step of a client moves one
request (`Delivery`, `Moves`, `Posts`). The registry filters its lists of held
locks and requests, which `Selected` defines as a recursive function; what it
keeps is proved from its recursion by looking at the shortest counterexample,
which needs no induction theorem. Assumption: `WebLocksAssumption`.

`MessagePortsProofs` proves `DeliveredInOrder` for any set of workers and any
bounds on posts and transfers. A message passes through five places: the queue
of the main thread, the channel, a batch on its way to the port's thread, an
event there, and the listener. `SortedInv` says that within each place the
order is that of posting, `LineInv` that whatever is further on was posted
earlier. Batches and events are compared only for the present object of the
receiving port, since those of an old object may be anywhere; `PlaceInv` says
that what is meant for the present object is where its context is, so it
waits in one inbox and one event loop only. Posting from a Document does not go
through the queue and could overtake a worker's posts; it does not, because the
sending port's disentangling is queued behind all it has posted in the worker,
and arrives in a Document only after that has run (`PostsInv`; the order of the
two is how the transfer is modelled). That nothing is skipped at a port that
was never transferred needs `CompleteInv`, that every message posted is in one
of the five places until the port leaves or is closed, and this in turn
`OpenInv`: the channel is open with the port entangled, or its creation is the
main thread's next task. Assumption: `NamesAssumption`, the Document is not a
worker and `None` is no context.

`ConcurrentMarkingProofs` proves, for any cells, any set of visitors and any
bounds on stores and collections, `TypeOK`, `NoLiveCellFreed`,
`OldToNewIsRemembered`, `AssertionsHold` and `NoDangling`. The argument is a
tricolour invariant in which every exception is named. `NothingMissed`: a
marked cell whose field leads to an unmarked cell is on a stack, is being
scanned by a visitor that will load the field or has loaded that very value,
or is the cell of a barrier that has not yet decided. `NotBlackIsToBeVisited`:
a marked cell that is not black will be visited, so the barrier may ignore it;
the exception is the cell that the barrier itself has made white and is about
to test again. `BlackIsMarked`: outside a Full collection black implies marked,
which is why only a Full collection needs the re-whitening. `OnlyMarked` says
what the stacks and each place in barrier and visitor imply, `Phases` that no
work is left between collections. At the end of marking no stack, visitor or
barrier is left to account for an exception, so the marked cells are closed
under the fields and contain the roots: `NoDangling`, from which
`NoLiveCellFreed` follows because reachability is the least closed set. The
same closedness, kept up by the barrier between collections, is
`OldToNewIsRemembered`. Assumptions: the root is a cell, `None` is not, the
bounds are natural numbers.

## 6. Only model-checked

* Liveness and fairness, which like `ENABLED` are out of the prover's reach:
  `SleepersWake` (of `Lock` and of `WordLock`), `WaitsReturn`,
  `RequestsServed`, `CollectionEnds`, `PromisesSettle`, `DepartedLeaveNothing`
  and `NoMessageStuck`.

Every other property of a passing run, invariant, action property or
refinement, is a theorem of section 5. `LockTimed` and `HeapExecution` have only
the properties that their runs refute.

## 7. Plan

In this order:

1. Done: `Mutex`, `ParkingLot`, `Lock`, `LockTimed`, `WordLock`, `Condition`,
   `HeapHandshake`, `ParallelMarking`, `ConcurrentMarking`, `WebLocks`,
   `MessagePorts`; theorems that state every safety property and every
   refinement checked by a passing run.
2. `ReadWriteLock` (an abstract readers-writer lock and its refinement) and
   `CountingLock`; `AutomaticThread` with several threads on one condition, for
   `WorkerPool`.
3. `Workers`, with the end of a worker added to `MessagePorts`; then
   `UniqueIDBDatabase` (overlapping transactions are serialised) and the service
   worker job queue.

## 8. Not modelled, and why

* *ParkingLot*: the end of a thread, which lowers `numThreads`, and `forEach`,
  which reads.
* *Memory ordering*: every atomic access is sequentially consistent in the
  models. The acquire/release annotations of the lock fast paths are not
  checked.
* *Heap*: allocation and sweeping as algorithms; the periphery's own threads
  (compiler threads are suspended and resumed with the world); the scheduler's
  arithmetic; weak references and finalizers.
* *Message ports*: the end of a worker with answers in flight, messages in both
  directions, ports inside messages, and the garbage collection of a port that
  is still entangled.
* *Workers, IndexedDB, service worker jobs, ReadWriteLock, CountingLock,
  WorkerPool*: planned.
* *Web locks*: `query()`, which only reads; suspended documents; the removal
  of all clients of a process, which nothing in this tree calls.
* Parser, bytecode, compilers, WebAssembly, DOM, style, layout, loading,
  media and the inspector are sequential algorithms on large data or
  platform I/O; vendored code (SQLite, bmalloc, third-party libraries) is
  maintained elsewhere.
