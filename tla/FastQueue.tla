----------------------------- MODULE FastQueue -----------------------------
(***************************************************************************)
(* The multi-producer, single-consumer packet queue of Playground/FastQueue *)
(* (Classic.h, Classic.cpp).  Producers append to mItems1 under mMutex; the *)
(* consumer thread swaps mItems1 with its private mItems2 and works through *)
(* the batch without the lock.  To spare system calls a producer signals    *)
(* the condition variable only when it is the first to find mWaiting set,   *)
(* and it does so after it has released the mutex.                          *)
(*                                                                          *)
(* A critical section of mMutex is one action: every variable it touches is *)
(* touched under mMutex only.  What happens outside the lock - notify_one,  *)
(* the increment of mNotifies, the work on mItems2 - are actions of their   *)
(* own.  The lock-contention counters (mTxBlocks, mTxLocks, mRxBlocks,      *)
(* mRxLocks) are statistics nothing depends on and are left out.            *)
(***************************************************************************)
EXTENDS Integers, Sequences, FiniteSets

CONSTANTS Producers,        \* threads that call push()
          Sizes,            \* the values of Packet::mSize in use
          MaxPackets,       \* bound: how many packets are pushed at most
          CounterRange      \* 2^32 in the code: range of all the counters

ASSUME FastQueueAssumption ==
    /\ IsFiniteSet(Producers)
    /\ Sizes \subseteq Nat
    /\ MaxPackets \in Nat
    /\ CounterRange \in Nat \ {0}

VARIABLES mQuit, mWaiting, mNotifies, mSwaps, mRxReceived, mRxProcessed,
          mItems1, mItems2,
          pc,               \* where each producer is in push()
          seen,             \* value of mNotifies a producer has loaded
          consumer,         \* where the consumer thread is in run()
          position,         \* how many packets of mItems2 are processed
          owner,            \* where the thread that stops the queue is
          sent, delivered,  \* history: packets pushed and packets processed
          signals, batches  \* history: calls of notify_one and of std::swap

items    == <<mItems1, mItems2, position>>
counters == <<mSwaps, mRxReceived, mRxProcessed, batches>>
vars == <<mQuit, mWaiting, mNotifies, mSwaps, mRxReceived, mRxProcessed,
          mItems1, mItems2, pc, seen, consumer, position, owner,
          sent, delivered, signals, batches>>

Packet == [mSize : Sizes]

TypeOK ==
    /\ mQuit \in BOOLEAN
    /\ mWaiting \in BOOLEAN
    /\ mNotifies \in 0 .. CounterRange - 1
    /\ mSwaps \in 0 .. CounterRange - 1
    /\ mRxReceived \in 0 .. CounterRange - 1
    /\ mRxProcessed \in 0 .. CounterRange - 1
    /\ mItems1 \in Seq(Packet)
    /\ mItems2 \in Seq(Packet)
    /\ pc \in [Producers -> {"idle", "notify", "load", "store"}]
    /\ seen \in [Producers -> 0 .. CounterRange - 1]
    /\ consumer \in {"lock", "asleep", "woken", "process", "returned"}
    /\ position \in 0 .. Len(mItems2)
    /\ owner \in {"using", "joining", "stopped", "destroyed"}
    /\ sent \in Seq(Packet)
    /\ delivered \in Seq(Packet)
    /\ signals \in Nat
    /\ batches \in Nat

\* The members' initialisers; the thread the constructor starts has not yet
\* taken the lock.  mWaiting starts TRUE although nobody waits.
Init ==
    /\ mQuit = FALSE
    /\ mWaiting = TRUE
    /\ mNotifies = 0 /\ mSwaps = 0
    /\ mRxReceived = 0 /\ mRxProcessed = 0
    /\ mItems1 = << >> /\ mItems2 = << >>
    /\ pc = [p \in Producers |-> "idle"]
    /\ seen = [p \in Producers |-> 0]
    /\ consumer = "lock"
    /\ position = 0
    /\ owner = "using"
    /\ sent = << >> /\ delivered = << >>
    /\ signals = 0 /\ batches = 0
-----------------------------------------------------------------------------
\* Mutations of the actions below, each a bug that one property catches.

\* push() forgets to clear mWaiting.
PushKeepsWaiting(p, packet) ==
    /\ pc[p] = "idle"
    /\ owner # "destroyed"
    /\ Len(sent) < MaxPackets
    /\ mRxReceived' = (mRxReceived + packet.mSize) % CounterRange
    /\ mItems1' = Append(mItems1, packet)
    /\ sent' = Append(sent, packet)
    /\ pc' = [pc EXCEPT ![p] = IF mWaiting THEN "notify" ELSE "idle"]
    /\ UNCHANGED <<mQuit, mWaiting, mNotifies, signals, mSwaps, batches,
                   mRxProcessed, mItems2, seen, consumer, position, owner,
                   delivered>>

\* run() does not set mWaiting before it blocks.
WaitUnannounced ==
    /\ consumer = "lock"
    /\ ~mQuit
    /\ mItems1 = << >>
    /\ consumer' = "asleep"
    /\ UNCHANGED <<mQuit, mWaiting, mNotifies, signals, counters, items, pc,
                   seen, owner, sent, delivered>>

\* The counter counts packets, not bytes.
ProcessUnsized ==
    /\ consumer = "process"
    /\ position < Len(mItems2)
    /\ mRxProcessed' = (mRxProcessed + 1) % CounterRange
    /\ delivered' = Append(delivered, mItems2[position + 1])
    /\ position' = position + 1
    /\ UNCHANGED <<mQuit, mWaiting, mNotifies, signals, mSwaps, batches,
                   mRxReceived, mItems1, mItems2, pc, seen, consumer, owner,
                   sent>>

\* The batch is not cleared, and comes back with the next swap.
BatchNotCleared ==
    /\ consumer = "process"
    /\ position = Len(mItems2)
    /\ position' = 0
    /\ consumer' = "lock"
    /\ UNCHANGED <<mQuit, mWaiting, mNotifies, signals, counters, mItems1,
                   mItems2, pc, seen, owner, sent, delivered>>

\* mQuit is looked at in the loop over the batch, too.
SeeQuitInBatch ==
    /\ consumer \in {"lock", "process"}
    /\ mQuit
    /\ consumer' = "returned"
    /\ UNCHANGED <<mQuit, mWaiting, mNotifies, signals, counters, items, pc,
                   seen, owner, sent, delivered>>

\* stop() does not notify.
StopSilently ==
    /\ owner = "using"
    /\ ~mQuit
    /\ mQuit' = TRUE
    /\ owner' = "joining"
    /\ UNCHANGED <<mWaiting, mNotifies, signals, counters, items, pc, seen,
                   consumer, sent, delivered>>

-----------------------------------------------------------------------------
(* push() *)

\* The critical section of push().  The producer that finds mWaiting set
\* clears it and thereby takes on the duty to notify.
Push(p, packet) ==
    /\ pc[p] = "idle"
    /\ owner # "destroyed"
    /\ Len(sent) < MaxPackets
    /\ mRxReceived' = (mRxReceived + packet.mSize) % CounterRange
    /\ mItems1' = Append(mItems1, packet)
    /\ sent' = Append(sent, packet)
    /\ pc' = [pc EXCEPT ![p] = IF mWaiting THEN "notify" ELSE "idle"]
    /\ mWaiting' = FALSE
    /\ UNCHANGED <<mQuit, mNotifies, signals, mSwaps, batches, mRxProcessed,
                   mItems2, seen, consumer, position, owner, delivered>>

\* mCondition.notify_one(), outside the lock: it wakes the consumer if that
\* is blocked at this moment and is forgotten otherwise.
WakeConsumer == consumer' = IF consumer = "asleep" THEN "woken" ELSE consumer

NotifyOne(p) ==
    /\ pc[p] = "notify"
    /\ WakeConsumer
    /\ pc' = [pc EXCEPT ![p] = "load"]
    /\ signals' = signals + 1
    /\ UNCHANGED <<mQuit, mWaiting, mNotifies, counters, items, seen, owner,
                   sent, delivered>>

\* mNotifies++ without the lock: two producers may load the same value.
LoadNotifies(p) ==
    /\ pc[p] = "load"
    /\ seen' = [seen EXCEPT ![p] = mNotifies]
    /\ pc' = [pc EXCEPT ![p] = "store"]
    /\ UNCHANGED <<mQuit, mWaiting, mNotifies, signals, counters, items,
                   consumer, owner, sent, delivered>>

StoreNotifies(p) ==
    /\ pc[p] = "store"
    /\ mNotifies' = (seen[p] + 1) % CounterRange
    /\ pc' = [pc EXCEPT ![p] = "idle"]
    /\ UNCHANGED <<mQuit, mWaiting, signals, counters, items, seen, consumer,
                   owner, sent, delivered>>
-----------------------------------------------------------------------------
(* run() *)

\* std::swap(mItems1, mItems2); mSwaps++; and out of the critical section.
SwapItems ==
    /\ mItems1' = mItems2
    /\ mItems2' = mItems1
    /\ mSwaps' = (mSwaps + 1) % CounterRange
    /\ batches' = batches + 1
    /\ consumer' = "process"

\* The head of the loop finds mQuit: what is left in mItems1 stays there.
SeeQuit ==
    /\ consumer = "lock"
    /\ mQuit
    /\ consumer' = "returned"
    /\ UNCHANGED <<mQuit, mWaiting, mNotifies, signals, counters, items, pc,
                   seen, owner, sent, delivered>>

\* Nothing to do: announce it in mWaiting and block.  wait() tests its
\* predicate first, but it cannot hold yet, under the same lock.
StartWait ==
    /\ consumer = "lock"
    /\ ~mQuit
    /\ mItems1 = << >>
    /\ mWaiting' = TRUE
    /\ consumer' = "asleep"
    /\ UNCHANGED <<mQuit, mNotifies, signals, counters, items, pc, seen,
                   owner, sent, delivered>>

TakeBatch ==
    /\ consumer = "lock"
    /\ ~mQuit
    /\ mItems1 # << >>
    /\ SwapItems
    /\ UNCHANGED <<mQuit, mWaiting, mNotifies, signals, mRxReceived,
                   mRxProcessed, pc, seen, position, owner, sent, delivered>>

\* A condition variable may wake without a notification.
SpuriousWakeup ==
    /\ consumer = "asleep"
    /\ consumer' = "woken"
    /\ UNCHANGED <<mQuit, mWaiting, mNotifies, signals, counters, items, pc,
                   seen, owner, sent, delivered>>

\* The predicate of wait(), evaluated under the re-acquired lock.
WaitPredicate == mQuit \/ mItems1 # << >>

WaitAgain ==
    /\ consumer = "woken"
    /\ ~WaitPredicate
    /\ consumer' = "asleep"
    /\ UNCHANGED <<mQuit, mWaiting, mNotifies, signals, counters, items, pc,
                   seen, owner, sent, delivered>>

EndWait ==
    /\ consumer = "woken"
    /\ WaitPredicate
    /\ SwapItems
    /\ UNCHANGED <<mQuit, mWaiting, mNotifies, signals, mRxReceived,
                   mRxProcessed, pc, seen, position, owner, sent, delivered>>

\* One turn of the loop over mItems2.
ProcessPacket ==
    /\ consumer = "process"
    /\ position < Len(mItems2)
    /\ LET packet == mItems2[position + 1] IN
         /\ mRxProcessed' = (mRxProcessed + packet.mSize) % CounterRange
         /\ delivered' = Append(delivered, packet)
    /\ position' = position + 1
    /\ UNCHANGED <<mQuit, mWaiting, mNotifies, signals, mSwaps, batches,
                   mRxReceived, mItems1, mItems2, pc, seen, consumer, owner,
                   sent>>

\* mItems2.clear() and back to the head of the loop.
ClearBatch ==
    /\ consumer = "process"
    /\ position = Len(mItems2)
    /\ mItems2' = << >>
    /\ position' = 0
    /\ consumer' = "lock"
    /\ UNCHANGED <<mQuit, mWaiting, mNotifies, signals, counters, mItems1,
                   pc, seen, owner, sent, delivered>>
-----------------------------------------------------------------------------
(* stop() and the destructor *)

\* The critical section of the first stop(), with notify_all inside it.
Stop ==
    /\ owner = "using"
    /\ ~mQuit
    /\ mQuit' = TRUE
    /\ WakeConsumer
    /\ owner' = "joining"
    /\ UNCHANGED <<mWaiting, mNotifies, signals, counters, items, pc, seen,
                   sent, delivered>>

\* mThread.join()
Join ==
    /\ owner = "joining"
    /\ consumer = "returned"
    /\ owner' = "stopped"
    /\ UNCHANGED <<mQuit, mWaiting, mNotifies, signals, counters, items, pc,
                   seen, consumer, sent, delivered>>

\* ~Queue() after stop(): its stop() finds mQuit and returns at once.  The
\* caller sees to it that no push() is under way.
Destroy ==
    /\ owner = "stopped"
    /\ mQuit
    /\ \A p \in Producers : pc[p] = "idle"
    /\ owner' = "destroyed"
    /\ UNCHANGED <<mQuit, mWaiting, mNotifies, signals, counters, items, pc,
                   seen, consumer, sent, delivered>>

\* The program is over; every other state has a next step.
Over == owner = "destroyed" /\ UNCHANGED vars
-----------------------------------------------------------------------------
Produce(p)  == \E size \in Sizes : Push(p, [mSize |-> size])
FinishPush(p) == NotifyOne(p) \/ LoadNotifies(p) \/ StoreNotifies(p)
Run == \/ SeeQuit \/ StartWait \/ TakeBatch \/ WaitAgain \/ EndWait
       \/ ProcessPacket \/ ClearBatch

Next == \/ \E p \in Producers : Produce(p) \/ FinishPush(p)
        \/ Run
        \/ SpuriousWakeup
        \/ Stop \/ Join \/ Destroy
        \/ Over

SafeSpec == Init /\ [][Next]_vars

\* Threads that can run do run: the consumer, a producer inside push() and
\* a stop() that waits in join().  Nobody has to push, to stop the queue or
\* to be woken spuriously.
Spec == /\ SafeSpec
        /\ WF_vars(Run)
        /\ \A p \in Producers : WF_vars(FinishPush(p))
        /\ WF_vars(Join)
-----------------------------------------------------------------------------
(* Properties *)

\* A consumer blocked on the condition variable while there is work, or
\* after stop(), would sleep for ever unless a notification is still owed.
\* notify_one happens after push() has unlocked, so this is what makes the
\* mWaiting handshake of Classic.h:44-55 correct.
Notifiers == {p \in Producers : pc[p] = "notify"}

NoLostWakeup ==
    consumer = "asleep" => /\ ~mQuit
                           /\ mItems1 # << >> => Notifiers # {}

\* Every pushed packet is in exactly one place, and the places are in the
\* order of the pushes: the processed ones, the rest of the batch being
\* worked on, and mItems1.  (The swap hands whole batches over.)
ToDo == SubSeq(mItems2, position + 1, Len(mItems2)) \o mItems1

ExactlyOnceInOrder == sent = delivered \o ToDo

\* The point of mWaiting: one signal per batch at most.  Every notify_one
\* owed, made or announced is paid for by a swap, or by the initial
\* mWaiting = TRUE.  What stop() prints as their number, mNotifies, may be too
\* small but never too large: increments can be lost between two producers,
\* and the counter wraps around.
SignalsBounded ==
    /\ signals + Cardinality(Notifiers) + (IF mWaiting THEN 1 ELSE 0)
           <= batches + 1
    /\ mNotifies <= signals

\* A packet that run() has taken out of mItems1 is processed even when mQuit
\* is set meanwhile: run() does not return in the middle of a batch, all it
\* leaves behind is what it has never taken out, and stop() and the destructor
\* return only after that.
BatchCompleted ==
    /\ consumer = "returned" => /\ mItems2 = << >>
                                /\ sent = delivered \o mItems1
    /\ owner \in {"stopped", "destroyed"} => consumer = "returned"

\* stop() returns: the consumer is woken, finishes its batch and leaves.
StopReturns == owner = "joining" ~> owner = "stopped"

\* The sum of mSize over a sequence of packets.
TotalSize(packets) ==
    LET sum[n \in 0 .. Len(packets)] ==
            IF n = 0 THEN 0 ELSE sum[n - 1] + packets[n].mSize
    IN  sum[Len(packets)]

\* What stop() prints adds up: the bytes received are those processed plus
\* those still queued, even when the 32-bit counters have wrapped around.
CountersBalance ==
    mRxReceived = (mRxProcessed + TotalSize(ToDo)) % CounterRange

\* The queue is a FIFO channel that may close with values undelivered.  With
\* the channel's fairness this says, too, that every packet pushed is processed
\* unless the queue is stopped first.
Phase == IF consumer = "returned" THEN "closed"
         ELSE IF mQuit THEN "closing" ELSE "open"

Channel == INSTANCE FifoChannel WITH Value <- Packet, phase <- Phase

ImplementsChannel == Channel!Spec
=============================================================================
