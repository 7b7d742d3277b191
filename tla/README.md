# TLA+ models of StackedCrooked

The repository is a collection of small programs, most of them in C++. What they
have in common is home-made infrastructure: queues between threads, task
schedulers, timers, actors, allocators, barriers, rate limiters. This directory
models the programs whose behaviour depends on the order of events -
interleavings of threads, timeouts, destruction, long sequences of calls - checks
them with TLC and proves theorems about them with TLAPS.

## Inventory

| Component (under `src/Playground/`) | State it keeps | Operations | What is hard about it |
| --- | --- | --- | --- |
| `FastQueue` (`Classic.h`, `Classic.cpp`) | `mItems1`, `mItems2`, `mWaiting`, `mQuit`, counters | `push`, `run`, `stop`, destructor | `notify_one` after the unlock, and only by the producer that finds `mWaiting` set; batches swapped between threads; unprotected `mNotifies`; 32-bit sums |
| `Concurrency/BatchQueue` (`BufferedQueue`) | `mBuffer`, `mQueue`, `mQuit` | `push`, `pop(timeout)`, `pop()`, `stop` | two critical sections in one `pop`; waits without predicates; the last buffer is never announced |
| `TaskScheduling/ThreadSupport.h` (`Scheduler`) | `concurrent_queue`, `mLifetime`, promises | `dispatch`, `schedule`, worker, destructor | detached timer threads that outlive the scheduler; broken promises; a task that throws |
| `TimerBuckets` (`HashedTimerWheel`) | buckets of entries, `mActiveIndex` | `add`, `tick` | tasks that call `add` while their bucket is run; rounds; boundaries of the remainder |
| `Actor` | `quit_`, `queue_` | `execute`, `consume`, destructor | no notification by `execute`; notification without the mutex in the destructor |
| `Dispatcher` | `mSolicitor`, `mRequest`, `mResult`, three mutexes | `solicit`, `result`, `client` | conditions without predicates; the gap between the two critical sections of `client` |
| `ParallelMemcpy` | one atomic counter | `run`, `start_thread` | two barriers on the same counter, read in loops |
| `FrameBlasting` (`TrafficGenerator`, `BBInterface`, `Flow`, `Socket`) | token buckets, next transmission times, the batch, statistics | `start`, the thread, `stop` | a bucket that is only filled when it is overdrawn; batches, rounds and reports that fall together in any way |
| `Asio/Stream` | frames sent, next and stop time | `start`, `send_burst` | a burst goes on at once, after a timer, or as a posted handler; the system clock may be set back |
| `Clojure/Tetris.clj` | field, active block, timer, each an atom | keys, `move-down` by a timer, `set-game-speed`, the end of the game | two kinds of threads, no lock |
| `BuddyPool` | a bitset of free blocks per block size | `allocate`, `deallocate` | splits and merges through all levels; exhaustion |
| `TaskStorage` | ring of task slots, two 16-bit counters | `post`, `run` | the counters wrap around, their difference does not |
| `PacketAllocator` | vector of chunks with free lists in the free blocks; stack of segments | `allocate`, `deallocate` | pointers into a vector that is reallocated; links that users overwrite |
| `LockOrderChecker` | graph of nested locks | `lock`, `unlock` | which inconsistencies a search from the first mutex finds |

The programs are independent: no component calls another. Inside each one the
interaction is between threads, through a mutex and a condition variable, a
queue, an atomic, or (for the `Dispatcher`) HTTP calls from other processes; the
ones with one thread interact with their callers alone.

All components, those left aside included, are listed in `PROJECT.json` with
the reason; see also *Not modelled* below.

## Modules

| Module | Models | Theorems in | Notes |
| --- | --- | --- | --- |
| `FifoChannel` | the abstract specification of a queue between producers and a consumer | | `sent`, `delivered`, `phase`; `Send`, `Deliver`, `Close`, `Finish` |
| `FastQueue` | `FastQueue/Classic.h`, `Classic.cpp` | `FastQueueProofs` | refines `FifoChannel` |
| `BufferedQueue` | `Concurrency/BatchQueue/main.cpp` | `BufferedQueueProofs` | |
| `TaskScheduler` | `TaskScheduling/ThreadSupport.h` | `TaskProofs` | refines `FifoChannel` |
| `TimerWheel` | `TimerBuckets/main.cpp` | `TimerWheelProofs` | |
| `Actor` | `Actor/main.cpp` | `TaskProofs` | refines `FifoChannel` |
| `Dispatcher` | `Dispatcher/main.cpp` | `TaskProofs` | |
| `ParallelMemcpy` | `ParallelMemcpy/main.cpp` | `ParallelMemcpyProofs` | |
| `FrameBlasting` | `FrameBlasting/main.cpp` | `TimedProofs` | |
| `Stream` | `Asio/Stream/Stream.h` | `TimedProofs` | |
| `Tetris` | `Clojure/Tetris.clj` | `TimedProofs` | in part |
| `BuddyPool` | `BuddyPool/main.cpp` | `SequentialProofs` | |
| `TaskStorage` | `TaskStorage/main.cpp` | `SequentialProofs` | |
| `PacketAllocator` | `PacketAllocator/main.cpp` | `SequentialProofs` | |
| `LockOrderChecker` | `LockOrderChecker/main.cpp` | `SequentialProofs` | |
| `MCTasks` | - | | `TaskScheduler`, `Actor` and `Dispatcher`, with a specification for each of the latter two |
| `MCSequential` | - | `SequentialProofs` | `TimerWheel`, `BuddyPool`, `TaskStorage`, `PacketAllocator` and `LockOrderChecker` in one run |
| `MCTimed` | - | `TimedProofs` | `FrameBlasting`, `Stream` and `Tetris` in one run |
| `RunningTotals` | - | `RunningTotals` | lemmas that several proof modules need: induction, functions defined by recursion, least numbers, sums, arithmetic modulo a range |

`MCTasks`, `MCSequential` and `MCTimed` do not compose components that interact.
They put independent ones side by side: the initial state (in `MCTasks` the
specification) chooses one, and the others rest. Every behaviour is a behaviour
of exactly one program.

### How state and actions correspond to the code

Variables keep the names of the members they stand for. Every thread has a
program counter (`pc`, `consumer`, `owner`, `worker`, `timer`, `thread`, ...) with
one value per place at which another thread can get in between. **A critical
section of a mutex is one action**: each variable it touches is touched under the
same mutex only. Steps outside a lock are separate actions - `NotifyOne`,
`LoadNotifies` and `StoreNotifies` in `FastQueue`, `CheckClock` in
`BufferedQueue`, `WaitForResult` in `Dispatcher`, `SetQuit` and `NotifyAll` in
`Actor`, every access to the counter in `ParallelMemcpy`.

A condition variable is a set of blocked threads: notifying takes threads out
of it and is forgotten if there are none; `wait` re-acquires the lock in a
later action. Standard condition variables may wake spuriously
(`SpuriousWakeup`, `WakeEarly`, `Timeout`); Poco's, in `Dispatcher`, do not.
Where only the passing of a deadline matters, time is abstracted to whether it has
passed (`Expire`, `BecomeDue`), which may happen at any moment. `FrameBlasting`
and `Stream` calculate with times, and have a clock that advances on its own.

History variables (`sent`, `delivered`, `signals`, `batches`, `popped`, `dispatched`, `ran`, `added`,
`fired`, `missed`, `nested`, `bytes`, `count`, `latest`, `balance`, ...) record
what the properties talk about. No guard of an action that models code depends
on one, except where it bounds the model or stands for what a caller knows.

Some definitions are headed *Mutation*. They are variants of an action with a
plausible bug, named after it; `PROJECT.json` pairs each property with the
mutation it must catch. No specification uses them.

### Choices that need a word

* `FastQueue`: the counters of lock contention are left out. The critical
  section that ends in a wait is split where `wait` releases the lock.
  `Destroy` needs all `push` calls to be over, as any destructor does. The model
  starts when the constructor has returned (which reserves the vectors after it
  has started the thread, a data race inside `std::vector`). `mNotifies`,
  `mSwaps` and the byte counts are 32 bits wide and wrap around; how many signals
  and swaps there really were is in `signals` and `batches`.
* `BufferedQueue`: `capacity` is that of `mBuffer`, with which the size is
  compared, not the constant. A moved-from vector has none, `reserve` gives it
  back, and a full vector doubles its memory, as the standard library in use does.
* `BufferedQueue`: `UseResult` reads `mQuit`, which the code reads without
  the lock. The thread has just held the lock, so a value that is too old is the
  one before a `stop` that is going on: the same as doing the step before it.
* `TaskScheduler`: `misused` records dispatches on a destroyed scheduler. What
  they do is undefined; the model leaves them without effect.
* `Actor`, `Dispatcher`: a `std::function` that throws, and an HTTP connection
  that breaks, are left out.
* `BuddyPool`: `do_allocate` and `deallocate` recurse over the block sizes. The
  model states what all levels look like afterwards, in units of the smallest
  block. A failed assertion ends the behaviour, and `failed` says in which call.
  The block sizes are a recursive function, as the templates are recursive.
* `LockOrderChecker`: `FindCycle` is a recursive function over a node and the
  set of nodes on the path. What the properties compare it with (`TakenUnder`) is
  the least set closed under nesting, which is no search.
* `TaskStorage`: after a task has been constructed on top of another one nothing
  can be said, and the behaviour ends. Tasks that post tasks are left out: `run`
  would append to the vector it iterates over.
* `PacketAllocator`: a pointer into the vector of chunks is a generation of its
  buffer and an index; it dangles when the buffer has another generation.
  Blocks in use hold user data, which is no link.
* `FrameBlasting`: `update_bucket` grants `4 * Rate` bytes per nanosecond, although
  the rate is said to be in bytes per four nanoseconds: sixteen times as much. The
  model does what the code does, and `RateLimited` is about that rate. A
  `TrafficGenerator` that is destroyed without `start` would join a thread that
  does not exist; the model starts it first, as `main` does.
* `Stream`: an interval of 0 makes the stop time the start time, so that nothing is
  sent. The branch for a next frame after the stop time is never taken before the
  last frame.
* `Tetris`: a step is a `swap!`, a test of the position, the copying of a block
  into the field, the clearing of rows, the dealing of a block, or the end of
  the game; the code has more places at which a thread can get in between. No
  property rests on that: they speak of operations that do not overlap, and of
  `set-game-speed`, which is modelled call by call. The bag is left out (any kind
  of block may come next), and so is what is drawn and counted. One Timer that is
  garbage stands for a new one.

## What the runs check

| Run | Instance | Shows |
| --- | --- | --- |
| `fastqueue` | 2 producers, 2 packet sizes, 4 packets, all counters modulo 3 | safety: no lost wakeup, exactly once and in order, at most one signal per batch and none counted that was not made, the byte counts balance, `run` never leaves in the middle of a batch and `stop` waits for it; liveness: `stop` returns; refinement of `FifoChannel` |
| `batchqueue` | 2 consumers with timeouts, 1 without, batches of 2, 4 items | nothing is lost or handed out twice; the queue is in order; only the unfinished buffer overtakes; everything is popped in the end |
| `batchqueue_comment` | 1 consumer, 5 items | *violated*: "queue was empty" |
| `scheduler` | 4 tasks, 2 of them scheduled, 1 that throws | order, draining by the destructor, every future answered and the destructor done unless a task throws |
| `scheduler_comment` | 3 tasks, 2 of them scheduled | *violated*: "scheduled threads are cancelled" |
| `actor` | 4 tasks | order; at most one call after `quit_`; every future answered; the destructor returns |
| `dispatcher` | 3 clients, 2 workers | answers go to the right client; what a missed signal does, and that nothing else blocks a client |
| `sequential` | wheel: 3 buckets, delays 0-4 and 7, 3 tasks, 9 ticks; buddies: 3 block sizes, 2 largest blocks, 1 block from `operator new`; ring: 2 slots, counters modulo 6, 11 tasks; packets: 3 chunks of 3 blocks, 2 segments; locks: 3 mutexes, at most 3 held | every task runs once, exactly on its tick, in order; memory is always tiled exactly, and requests are refused, and assertions fail, only when there is no room; the ring overwrites a task only after its counter has wrapped, and calls tasks in order until then; free lists list what is free, no dangling pointer is followed; exactly the inconsistencies among the mutexes below the root are reported |
| `timed` | blaster: 2 interfaces, 2 flows of 6 and 12 bytes, a bucket of 3, batches of 3, 10 units of time; stream: 0, 1 or 4 frames, intervals 0 to 2, bursts of 2, one setting back of the clock; game: a field of 2 by 3, 2 kinds of blocks, 3 timers, 1 overlap | the rate is kept but for two bursts; flows get equal shares; no packet is left out of a report or reported twice; no frame is early and every stream ends; the game is sound while operations do not overlap, always has a running timer, and blocks keep landing |
| `tetris_comment` | as `timed` | *violated*: "milliseconds between falling one row" |
| `memcpy` | `run(1)` to `run(4)` | the barriers hold; a thread that is overtaken at the first one stays there; nothing else keeps `run` from returning |
| `memcpy_comment` | `run(1)` to `run(3)` | *violated*: "wait until threads have finished" |

**Bounds.** Two producers suffice for every race in `push`: one that owes a
signal and one that overtakes it. Four packets allow the first batch, a batch
that builds up during it, and a wrap-around of all the counters: of signals and
swaps, of which there are up to four and five, and of the bytes (modulo 3). In `BufferedQueue` four items are two full batches, or one batch and
a buffer that overtakes it. Nine ticks are three turns of the wheel, so that a
delay of 7 goes through two rounds; the delays include 0, multiples of the number
of buckets and their neighbours. Three block sizes let a split and a merge
pass through a level that is neither the top nor the bottom. Eleven posts take
the counters of the ring past their range of 6 with tasks waiting on both sides
of the wrap. Three chunks are two reallocations of the vector. Three mutexes give
cycles of length one, two and three, and cycles off the root. The two flows are
due together and send more than the bucket grants, so that it is overdrawn and
refilled several times and flows fall behind. One setting back of the clock by
any amount may fall between any two steps of a stream. The field of `Tetris` is
filled, has one or two rows cleared at once, and ends games; three timers leave
one for each thread that can be inside `set-game-speed` (a fourth adds no state).
One overlap is what two threads need for every race of two operations; three
operations at a time are not covered, nor are overlaps after the first.
Four threads let one be overtaken while others finish and others wait.

`MaxPackets`, `MaxItems`, `MaxTasks`, `MaxTicks`, `MaxHeap`, `MaxPosted`,
`MaxChunks`, `MaxSegments`, `MaxHeld`, `MaxTime`, `MaxStreamTime` (`MaxTime` of
`Stream`), `MaxSetBacks`, `MaxOverlaps` and `MaxAbove` are the only bounds; each is
a constant and appears in a guard. `MaxThreads` is the argument up to which `main`
calls `run`.

**Fairness.** Only weak fairness, of steps that a thread takes by itself: the
consumer's loop, a `push` under way, a `join` whose thread has left, the worker,
the destructor once begun, a timer thread, an expiring timeout, the threads of
`run`, the handler and the clock of a stream, the threads of the game and its
running timers. It stands for an operating system that schedules every thread
that can run, and a mutex that is not held for ever. No user has to push, stop,
solicit, press a key or destroy anything, no spurious wakeup has to happen, no
clock has to be set back, and `LockClientMutex` has no fairness. In
`BufferedQueue` `Push` is fair because `main` has a thread that pushes
everything. `WF(Loop(c))` is enough there: a woken consumer's steps are not
disabled by others for ever.

**Deadlock** is checked where the program should not stop; a final state loops
with `Over`. It is switched off where the code can really hang or end: in
`dispatcher` a client that missed its signal blocks everything, in `memcpy` a
thread that has been overtaken does, in `sequential` a failed assertion ends the
program, and the programs of `timed` end or reach a bound. `Over` in
`TaskScheduler` admits a destructor blocked by a worker that an exception has
killed, and in `BufferedQueue` a `pop()` without timeout that nobody wakes: both
are real.

## Where the code and its comments disagree

* `Concurrency/BatchQueue/main.cpp:90-92`: when the timeout has occurred "queue
  was empty". It was, under another lock: a producer may have moved a full batch
  to `mQueue` since. `pop` then returns the younger buffer, or nothing. The items
  are not lost (`NoItemLostOrDuplicated`), but they overtake each other
  (`OnlyTheBufferOvertakes` says how much).
* `TaskScheduling/main.cpp:21`: "scheduled threads are cancelled" at the end of
  the scope. Only those that are asleep: `do_schedule` checks the lifetime only
  after a sleep, and not again before `dispatch`.
* `ParallelMemcpy/main.cpp:80`: "wait until threads have finished". The counter
  that is set to 0 as the signal to start also counts the threads that have
  finished. If one of them finishes before another has read the 0, that one never
  leaves its loop, and the wait has no end. `OvertakenForGood` and
  `ReturnsUnlessOvertaken` say that this is for good and the only way to hang.
* `Clojure/Tetris.clj:386-387`: the "speed of falling" is a "number of
  milliseconds between falling one row". If a key and the timer make a block land
  at the same time, both call `set-game-speed`, and two tasks may be left running,
  on one timer or on two, of which one can never be cancelled.

## What is proved

Eight modules have proofs, for every value of their constants that their
`ASSUME` admits (which only says that bounds and sizes are numbers, that sizes
that are divided by are positive, that sets of threads or mutexes are finite
where their number matters, and, for `Tetris`, that every block has room in the
field before it is rotated). `SafeSpec` is the specification without its
fairness.

| Module | About | Theorems |
| --- | --- | --- |
| `FastQueueProofs` | `FastQueue` | `TypeCorrect`, `NoWakeupIsLost`, `PacketsExactlyOnceInOrder`, `BatchesCompleted`, `SignalsAlwaysBounded`, `CountersAlwaysBalance`, `QueueIsAChannel` |
| `BufferedQueueProofs` | `BufferedQueue` | `TypeCorrect`, `NothingLostOrDuplicated`, `AlwaysInOrder`, `OvertakingIsConfined` |
| `TaskProofs` | `TaskScheduler` | `TypeCorrect`, `RunsInDispatchOrder`, `DestructorDrains`, `SchedulerIsAChannel` |
| | `Actor` | `ActorTypeCorrect`, `OneCallAfterQuit`, `CallsInOrder`, `ActorIsAChannel` |
| | `Dispatcher` | `DispatcherTypeCorrect`, `AnswersAreMine`, `HandOverAlwaysReaches`, `MissedAlwaysBlocks` |
| `TimerWheelProofs` | `TimerWheel` | `TypeCorrect`, `AlwaysOnceOnItsTick`, `SameTickAlwaysInOrder` |
| `ParallelMemcpyProofs` | `ParallelMemcpy` | `TypeCorrect`, `BarriersHold`, `OvertakenStaySo` |
| `TimedProofs` | `FrameBlasting` | `TypeCorrect`, `AlwaysRateLimited`, `AlwaysFair`, `ReportsComplete` |
| | `Stream` | `StreamSendsOnTime` |
| | `Tetris` | `GameIsSound` |
| | all three of `MCTimed` | `AllTimedSound` |
| `SequentialProofs` | `TaskStorage` | `RingTypeCorrect`, `RingIsSound` |
| | `PacketAllocator` | `PoolTypeCorrect`, `PoolsAreSound` |
| | `LockOrderChecker` | `LockTypeCorrect`, `CheckerReports` |
| | `BuddyPool` | `BuddyTypeCorrect`, `BuddiesAreSound` |
| | all five of `MCSequential` | `AllTypesCorrect`, `AllAreSound` |

Most invariants are not inductive as they stand. What had to be added:

* **FastQueue.** `Typed`: `mItems2` is empty unless the consumer works on it, which
  is why `swap` empties `mItems1`. `Handshake`: a consumer that has been woken
  and goes back to sleep because there is nothing to do relies on `mWaiting` still
  being set (`WaitAnnounced`); a producer clears it only together with adding a
  packet, and then owes a signal; `StopConsistent` ties `mQuit` to the stopping
  thread; with `Typed` it gives `BatchCompleted`: when `run` has left, all that is
  not processed is what it never took out. `Budget`: signals made, owed and
  announced are covered by swaps, with one to spare when the consumer is about to
  announce a wait (`SignalBudget`). An increment of `mNotifies` consists of a load
  and a store, so what a producer has loaded, together with the increments that
  are under way, must not exceed the signals made (`CountBudget`). The byte
  counters are sums over what is in the queue, on its way and processed, taken
  modulo their width. The refinement maps `Push` to `Send`, `ProcessPacket` to
  `Deliver`, `Stop` to `Close`, `SeeQuit` to `Finish` and every other step to a
  stutter.
* **BufferedQueue.** `Placed`: every item pushed is in exactly one of the batches
  returned, the queue and the buffer. `Sorted`: an order on all that is left,
  which is what a batch taken from the front or from the buffer preserves.
  `Sized`: every way in which the buffer loses its memory gives it the reserved
  amount back, so that batches are complete at `Capacity` items and at no other
  number.
* **TaskScheduler.** What has run is a prefix of what has been dispatched, and the
  queue is the rest. The destructor gets past its wait only through its own task,
  which is the last one that the worker runs (`LastRun`, `QuitMeansLeft`). The same
  facts map each step to one of `FifoChannel` or to a stutter.
* **TimerWheel.** `WheelInv`. `OnTime`: the bucket and the count of every waiting
  entry say on which tick it will run, and that is the tick its delay asks for;
  this holds of entries in the buckets, in the bucket that is run and among those
  put back. `Ordered` and `NewestLast`: within a bucket, entries of the same tick
  are in the order in which they were added, and what tasks add comes behind.
  `FiredInOrder` and `NoneLost`: nothing that is due is still waiting.
* **Actor.** `OwnerConsistent` ties `quit_` and the thread's place to the
  destructor's. The order of calls is that of a queue, as in `TaskScheduler`.
* **Dispatcher.** Who is in which critical section: at most one client holds
  `mClientMutex`, a solicitor that waits is the one that `mSolicitor` announces.
* **ParallelMemcpy.** The counter is the number of threads that have started,
  until it is set to 0, and of those that have finished, after that; each is a
  cardinality, and one thread's step changes it by one. Hence no thread of an
  earlier call is left to count in a later one.
* **FrameBlasting.** `RateInv`. What an interface has sent is bounded by what its
  bucket was granted up to `mLastUpdate` minus what is left in it (`Accounted`); a
  visit overdraws it by three packets of every flow at most, and only a bucket
  that is not overdrawn is visited (`OverdrawnOnce`). `Shares`: within a visit the
  flows before the current one are done and level, those behind it have had
  nothing; flows with the same interval are due together. `StatsInv`: what is
  reported and what is not yet are the sums of the batches sent.
* **Stream.** `StreamInv`. `OnSchedule`: the next time to send is the start plus one
  interval per frame sent, so that a burst that goes on at once, by a timer or by
  a handler continues the same series; `Seen`: the latest time read bounds it.
* **Tetris.** `GameInv`, in two parts. `TimerIsKept` holds however operations
  overlap: a timer in the atom that is cancelled or has no task has a thread that
  is about to replace it or to give it one. The rest holds until operations
  overlap: one thread is at work at a time (`Alone`), the ones in the field are
  counted by `balance` and full rows are there only between `commit-block` and
  `clear-lines` (`FieldSound`), and the block fits or was moved by the operation
  under way from where it fits (`BlockSound`, `FitsBack`). That taking a rotation
  back restores the same grid rests on `Turns` being a multiple of the number of
  grids. `CommittedFits`: laying a block that fits changes exactly its cells, which
  are different ones; `RemainingFacts`: what `clear-lines` keeps has no full row and
  exactly the cells of the rows that were not full. Both are inductions, over the
  cells and over the rows.
* **TaskStorage.** `RingInv`. The two 16-bit counters differ by the number of
  tasks that wait, modulo 2^16 (`CountersCount`), although neither says how many
  were posted; the slots between them are the ones that are occupied, and the
  tasks in them are the ones not yet run, in order (`CalledAndToBeCalled`). What
  makes it inductive is that the capacity divides 2^16.
* **PacketAllocator.** `PoolInv`. The free list of a chunk visits every free block of
  the chunk once and then ends (`ChunksThreaded`), which is proved of the list as
  a function on numbers, not by following links; `PointersValid`: a pointer that
  the program keeps leads into the vector as it is now, after any number of
  reallocations; `SegmentsApart` for the stack of large blocks.
* **LockOrderChecker.** `LockInv`. What a thread holds is a path of the graph
  (`Chained`) and each edge was put there by a nesting of locks (`Recorded`). The
  search reports if and only if a cycle can be reached from its start; this is an
  induction over the number of mutexes it has not been to.
* **BuddyPool.** `BuddyInv`. Every unit of memory belongs to exactly one block, free
  or allocated (`Tiles`), and no two free blocks are buddies (`Merged`). A split
  and a merge preserve it level by level, for any number of levels, and hence the
  assertion in `deallocate` never fails. One in `allocate` does, but only when some
  level and all above it have no free block (`FailsEmpty`), and then there is no
  room for a block of that size (`FailsOnlyWhenFull`).

The library's induction theorems take an operator as a parameter, which none
of the provers used here can instantiate. Where an induction was needed - the sums
of `FrameBlasting` and `FastQueue`, the search of `LockOrderChecker`, the sizes of
`BuddyPool`, the cells and rows of `Tetris` - it is done with `SetInduction` of `RunningTotals`, which follows from the
well-foundedness of `<` on the numbers and speaks of a set of numbers
instead. That module also holds the facts about sums that are defined by recursive
functions and about arithmetic modulo a number.

Only model-checked is liveness, where TLAPS would have to reason about `ENABLED`:
`StopReturns`, `AllItemsPopped`, `FuturesAnswered`, `DestructorReturns`,
`EveryFutureAnswered`, `ActorIsDestroyed`, `AnsweredUnlessMissed`, `StreamEnds`,
`BlocksLand`, `ReturnsUnlessOvertaken`, and the fairness in `ImplementsChannel`.
Every invariant and every action property of the passing runs has a theorem. That
the real constants satisfy the assumptions is read off the code.

## Not modelled

* Drafts that no program uses, or that do not work yet: `Asio/MessageProtocol` (the
  header of a message is read but never written), `SharedBuffer` (asserts in its
  own constructor), `NetworkEmulation`, `FastStack`.
* Wrappers of something that keeps the promise itself: `Threading`,
  `LockfreeCircularBuffer` (two tbb queues), `SchedulerThread`, the TCP and Unix
  socket samples.
* Timing and measurement: `InterruptDetector`, `QueueBenchmark`,
  `CondVarBenchmark`, `RefCount`, `Internal`.
* Schemes that a modelled component has already: `PCAPWriter`, `MemoryPool`,
  `SharedPromise`, `Callback2Future`.
* Functions of their input: parsers and evaluators of packet filters, sieves,
  sorting and searching, the puzzles of `Euler`.
* About a hundred directories that try out one feature of C++ or of a library
  each, user interfaces, database and HTTP code, shell scripts, and vendored code
  (`vectorclass`, `miniz.c`, `FastDelegate`, the boost HTTP server, generated XML
  bindings), which make up nearly all lines of the repository.

## What could come next

* The bag of `Tetris`, whose operations can overlap too, and its score.
