--------------------------- MODULE BufferedQueue ---------------------------
(***************************************************************************)
(* The batching queue of Playground/Concurrency/BatchQueue/main.cpp.       *)
(* push() collects items in mBuffer and moves a full buffer to the list    *)
(* mQueue; only then it notifies.  pop(timeout) always blocks first, then  *)
(* takes a batch from mQueue, and falls back on the unfinished mBuffer     *)
(* once the timeout has passed - in a second critical section.  pop()      *)
(* without a timeout looks at both under one lock.                         *)
(*                                                                         *)
(* An item is the number of its push, which is what main() pushes too.     *)
(* The consumers are main()'s: they pop until they see that the queue is   *)
(* stopped or have got everything.                                         *)
(***************************************************************************)
EXTENDS Naturals, SequencesExt

CONSTANTS TimedConsumers,   \* threads that call pop(timeout)
          PlainConsumers,   \* threads that call pop()
          Capacity,         \* of a batch
          MaxItems          \* how many items are pushed, `max' in main()

ASSUME BufferedQueueAssumption ==
    /\ Capacity \in Nat \ {0}
    /\ MaxItems \in Nat
    /\ TimedConsumers \cap PlainConsumers = {}

VARIABLES mQuit, mBuffer, mQueue,
          capacity,         \* mBuffer.capacity()
          pushed,           \* number of items pushed so far
          pc,               \* where each consumer is
          expired,          \* whether the timeout of its pop() has passed
          result,           \* what its last pop() returned
          count,            \* items it has got
          popped            \* history: all batches returned, in their order

vars == <<mQuit, mBuffer, capacity, mQueue, pushed, pc, expired, result,
          count, popped>>
queue == <<mQuit, mBuffer, capacity, mQueue, pushed>>

Consumers == TimedConsumers \cup PlainConsumers

Batch == Seq(1 .. MaxItems)

TypeOK ==
    /\ mQuit \in BOOLEAN
    /\ mBuffer \in Batch
    /\ capacity \in Nat
    /\ mQueue \in Seq(Batch)
    /\ pushed \in 0 .. MaxItems
    /\ pc \in [Consumers -> {"loop", "waiting", "woken", "early?", "late",
                             "returned", "done"}]
    /\ expired \in [Consumers -> BOOLEAN]
    /\ result \in [Consumers -> Batch]
    /\ count \in [Consumers -> Nat]
    /\ popped \in Seq(Batch)

\* The capacity of a vector that had c, after reserve(Capacity) and after a
\* push_back that found it full.
Reserved(c) == IF c < Capacity THEN Capacity ELSE c
Grown(c)    == IF c = 0 THEN 1 ELSE 2 * c

Init ==
    /\ mQuit = FALSE
    /\ mBuffer = << >> /\ mQueue = << >>
    /\ capacity = Reserved(0)
    /\ pushed = 0
    /\ pc = [c \in Consumers |-> "loop"]
    /\ expired = [c \in Consumers |-> FALSE]
    /\ result = [c \in Consumers |-> << >>]
    /\ count = [c \in Consumers |-> 0]
    /\ popped = << >>

Goto(c, label) == pc' = [pc EXCEPT ![c] = label]

\* notify_all: every blocked consumer leaves the wait set.
NotifyAll == pc' = [c \in Consumers |->
                      IF pc[c] = "waiting" THEN "woken" ELSE pc[c]]

\* The capacity of mBuffer once it has taken one more item.
Room == IF Len(mBuffer) < capacity THEN capacity ELSE Grown(capacity)

\* Mutation of push(): the buffer that was moved away is not reserved again.
PushUnreserved ==
    /\ pushed < MaxItems
    /\ pushed' = pushed + 1
    /\ LET filled == Append(mBuffer, pushed + 1) IN
         IF Len(filled) = Room
           THEN /\ mQueue' = Append(mQueue, filled)
                /\ mBuffer' = << >> /\ capacity' = 0
                /\ NotifyAll
           ELSE /\ mBuffer' = filled /\ capacity' = Room
                /\ UNCHANGED <<mQueue, pc>>
    /\ UNCHANGED <<mQuit, expired, result, count, popped>>

\* push(n).  The batch is complete when it fills the vector's memory.  The
\* move leaves a vector without memory, and reserve() gives it some again.
Push ==
    /\ pushed < MaxItems
    /\ pushed' = pushed + 1
    /\ LET filled == Append(mBuffer, pushed + 1) IN
         IF Len(filled) = Room
           THEN /\ mQueue' = Append(mQueue, filled)
                /\ mBuffer' = << >> /\ capacity' = Reserved(0)
                /\ NotifyAll
           ELSE /\ mBuffer' = filled /\ capacity' = Room
                /\ UNCHANGED <<mQueue, pc>>
    /\ UNCHANGED <<mQuit, expired, result, count, popped>>

\* stop(); a second call does nothing.
Stop ==
    /\ ~mQuit
    /\ mQuit' = TRUE
    /\ NotifyAll
    /\ UNCHANGED <<mBuffer, capacity, mQueue, pushed, expired, result, count,
                   popped>>
-----------------------------------------------------------------------------
(* What both pop()s share *)

\* The call, up to the point where the lock is released inside wait.
StartPop(c) ==
    /\ pc[c] = "loop"
    /\ Goto(c, "waiting")
    /\ expired' = [expired EXCEPT ![c] = FALSE]
    /\ UNCHANGED <<queue, result, count, popped>>

\* A wait ends spuriously.
WakeEarly(c) ==
    /\ pc[c] = "waiting"
    /\ Goto(c, "woken")
    /\ UNCHANGED <<queue, expired, result, count, popped>>

Return(c, batch) ==
    /\ Goto(c, "returned")
    /\ result' = [result EXCEPT ![c] = batch]
    /\ popped' = IF batch = << >> THEN popped ELSE Append(popped, batch)
    /\ UNCHANGED <<mQuit, pushed, expired, count>>

\* Mutations: the newest batch is taken; mBuffer is copied, not swapped.
TakeBack(c) ==
    /\ pc[c] = "woken"
    /\ mQueue # << >>
    /\ Return(c, mQueue[Len(mQueue)])
    /\ mQueue' = SubSeq(mQueue, 1, Len(mQueue) - 1)
    /\ UNCHANGED <<mBuffer, capacity>>

CopyBuffer(c) ==
    /\ mBuffer # << >>
    /\ Return(c, mBuffer)
    /\ UNCHANGED <<mBuffer, capacity, mQueue>>

TakeFront(c) ==
    /\ pc[c] = "woken"
    /\ mQueue # << >>
    /\ Return(c, Head(mQueue))
    /\ mQueue' = Tail(mQueue)
    /\ UNCHANGED <<mBuffer, capacity>>

\* swap() leaves the caller's empty buffer, reserved when pop() began.
TakeBuffer(c) ==
    /\ mBuffer # << >>
    /\ Return(c, mBuffer)
    /\ mBuffer' = << >> /\ capacity' = Reserved(0)
    /\ UNCHANGED mQueue

ReturnNothing(c) ==
    Return(c, << >>) /\ UNCHANGED <<mBuffer, capacity, mQueue>>
-----------------------------------------------------------------------------
(* pop(timeout) *)

\* The clock passes start_time + timeout.
Expire(c) ==
    /\ pc[c] \in {"waiting", "woken", "early?"}
    /\ ~expired[c]
    /\ expired' = [expired EXCEPT ![c] = TRUE]
    /\ UNCHANGED <<queue, pc, result, count, popped>>

\* wait_until returns because of the deadline.
WakeLate(c) ==
    /\ pc[c] = "waiting"
    /\ expired[c]
    /\ Goto(c, "woken")
    /\ UNCHANGED <<queue, expired, result, count, popped>>

\* The queue is empty: the first critical section ends without a result.
QueueEmpty(c) ==
    /\ pc[c] = "woken"
    /\ mQueue = << >>
    /\ Goto(c, "early?")
    /\ UNCHANGED <<queue, expired, result, count, popped>>

\* Mutation: the clock is never looked at.
IgnoreClock(c) ==
    /\ pc[c] = "early?"
    /\ Goto(c, "waiting")
    /\ UNCHANGED <<queue, expired, result, count, popped>>

\* Clock::now() - start_time < timeout, without the lock.
CheckClock(c) ==
    /\ pc[c] = "early?"
    /\ Goto(c, IF expired[c] THEN "late" ELSE "waiting")
    /\ UNCHANGED <<queue, expired, result, count, popped>>

\* The second critical section looks at mBuffer only.
FallBack(c) ==
    /\ pc[c] = "late"
    /\ \/ TakeBuffer(c)
       \/ mBuffer = << >> /\ ReturnNothing(c)

TimedPop(c) == WakeLate(c) \/ TakeFront(c) \/ QueueEmpty(c) \/ CheckClock(c)
               \/ FallBack(c)
-----------------------------------------------------------------------------
(* pop() *)

NothingQueued(c) ==
    /\ pc[c] = "woken"
    /\ mQueue = << >>
    /\ \/ TakeBuffer(c)
       \/ mBuffer = << >> /\ mQuit /\ ReturnNothing(c)
       \/ /\ mBuffer = << >>
          /\ ~mQuit
          /\ Goto(c, "waiting")
          /\ UNCHANGED <<queue, expired, result, count, popped>>

PlainPop(c) == TakeFront(c) \/ NothingQueued(c)
-----------------------------------------------------------------------------
\* main()'s loop body after pop(): count, and stop when stoppped() or done.
\* stoppped() reads mQuit without the lock, but pop() has just held it: the
\* value can only be older than a stop() that is going on at this moment.
UseResult(c) ==
    /\ pc[c] = "returned"
    /\ LET total == count[c] + Len(result[c]) IN
         /\ count' = [count EXCEPT ![c] = total]
         /\ Goto(c, IF mQuit \/ total = MaxItems THEN "done" ELSE "loop")
    /\ result' = [result EXCEPT ![c] = << >>]
    /\ UNCHANGED <<queue, expired, popped>>

Loop(c) == \/ StartPop(c) \/ UseResult(c)
           \/ c \in TimedConsumers /\ TimedPop(c)
           \/ c \in PlainConsumers /\ PlainPop(c)

\* Nothing is left to happen but a second stop().
Over == /\ pushed = MaxItems /\ mQuit
        /\ \A c \in Consumers :
             \/ pc[c] = "done"
             \/ c \in PlainConsumers /\ pc[c] = "waiting"
        /\ UNCHANGED vars

Next == \/ Push \/ Stop
        \/ \E c \in Consumers : Loop(c) \/ WakeEarly(c)
        \/ \E c \in TimedConsumers : Expire(c)
        \/ Over

\* The producer pushes everything, the consumers run, time passes.  stop()
\* may never be called and spurious wakeups need not happen.
Fairness == /\ WF_vars(Push)
            /\ \A c \in Consumers : WF_vars(Loop(c))
            /\ \A c \in TimedConsumers : WF_vars(Expire(c))

SafeSpec == Init /\ [][Next]_vars

Spec == SafeSpec /\ Fairness
-----------------------------------------------------------------------------
(* Properties *)

\* Every item pushed is in one place: one returned batch, one batch of the
\* list or mBuffer.  Batches change hands by swap() and pop_front(), with
\* several consumers at work; the sizes and the union together say that
\* nothing is lost and nothing is handed out twice.
AllBatches == popped \o mQueue \o << mBuffer >>

NoItemLostOrDuplicated ==
    /\ UNION {ToSet(AllBatches[i]) : i \in DOMAIN AllBatches} = 1 .. pushed
    /\ \A i, j \in DOMAIN AllBatches :
         i # j => ToSet(AllBatches[i]) \cap ToSet(AllBatches[j]) = {}

\* Read from the head of the list to the end of mBuffer the items are in push
\* order, although mBuffer may be taken out behind them at any time; all the
\* batches of the list have the size that was asked for, and mBuffer is never
\* full, although its memory is moved and swapped away.
Line == Append(mQueue, mBuffer)

Before(a, b) == \A x \in ToSet(a), y \in ToSet(b) : x < y

Ascending(b) == \A k, l \in DOMAIN b : k < l => b[k] < b[l]

QueueInOrder ==
    /\ \A i \in DOMAIN Line : Ascending(Line[i])
    /\ \A i, j \in DOMAIN Line : i < j => Before(Line[i], Line[j])
    /\ \A i \in DOMAIN mQueue : Len(mQueue[i]) = Capacity
    /\ Len(mBuffer) < Capacity

\* Out-of-order delivery is confined to the timeout path: a batch that is
\* taken while an older one is still queued was the unfinished buffer.
OnlyTheBufferOvertakes ==
    [][\A c \in Consumers :
          /\ popped' # popped
          /\ pc[c] # "returned" /\ pc'[c] = "returned"
          /\ \E i \in DOMAIN mQueue' : mQueue'[i][1] < result'[c][1]
          => pc[c] = "late" /\ result'[c] = mBuffer]_vars

\* The comment in pop(timeout), main.cpp:90-92: when it falls back on the
\* buffer, `queue was empty, but perhaps we have some data in the buffer'.
QueueWasEmpty ==
    [][\A c \in TimedConsumers :
          pc[c] = "late" /\ pc'[c] = "returned" => mQueue = << >>]_vars

\* main() gets everything out, the last unfilled buffer included, unless the
\* queue is stopped first.
AllItemsPopped ==
    <>(mQuit \/ (pushed = MaxItems /\ mBuffer = << >> /\ mQueue = << >>))
=============================================================================
