----------------------------- MODULE TimerWheel -----------------------------
(***************************************************************************)
(* HashedTimerWheel of Playground/TimerBuckets/main.cpp.  add() puts a     *)
(* task into the bucket that its delay, modulo the number of buckets,      *)
(* selects, with the number of whole rounds it has to let pass.  tick()    *)
(* runs the active bucket and moves on.  Tasks may call add() while they   *)
(* run, so the bucket being run is first swapped out of the way.           *)
(***************************************************************************)
EXTENDS Naturals, Sequences

CONSTANTS num_buckets,
          Delays,           \* the delays in use
          MaxTasks,         \* bound: tasks added
          MaxTicks          \* bound: calls of tick()

ASSUME TimerWheelAssumption ==
    /\ num_buckets \in Nat \ {0}
    /\ Delays \subseteq Nat
    /\ MaxTasks \in Nat
    /\ MaxTicks \in Nat

VARIABLES mActiveIndex,
          mEntries,         \* of every bucket
          mEntries2,        \* of the bucket being run: what is being run,
          mEntries3,        \* and what stays; both are empty between ticks
          position,         \* entries of mEntries2 dealt with
          pc,               \* "idle", in run_tasks' "loop" or in a "task"
          ticks,            \* history: ticks begun
          added,            \* history: when and with which delay, per task
          fired             \* history: tasks run, with the tick of the run

vars == <<mActiveIndex, mEntries, mEntries2, mEntries3, position, pc, ticks,
          added, fired>>

Bucket == 0 .. num_buckets - 1
Entry  == [mCount : Nat, mTask : 1 .. MaxTasks]

TypeOK ==
    /\ mActiveIndex \in Bucket
    /\ mEntries \in [Bucket -> Seq(Entry)]
    /\ mEntries2 \in Seq(Entry)
    /\ mEntries3 \in Seq(Entry)
    /\ position \in 0 .. Len(mEntries2)
    /\ pc \in {"idle", "loop", "task"}
    /\ ticks \in 0 .. MaxTicks
    /\ added \in Seq([tick : Nat, delay : Delays, inside : BOOLEAN])
    /\ fired \in Seq([tick : Nat, task : 1 .. MaxTasks])

Init ==
    /\ mActiveIndex = 0
    /\ mEntries = [b \in Bucket |-> << >>]
    /\ mEntries2 = << >> /\ mEntries3 = << >>
    /\ position = 0
    /\ pc = "idle"
    /\ ticks = 0
    /\ added = << >> /\ fired = << >>

\* Mutations of the actions below, each a bug that one property catches.

\* A round that has begun is counted as a whole one.
AddRoundedUp(delay) ==
    /\ pc \in {"idle", "task"}
    /\ Len(added) < MaxTasks
    /\ LET bucket == (mActiveIndex + (delay % num_buckets)) % num_buckets
           entry  == [mCount |-> (delay + num_buckets - 1) \div num_buckets,
                      mTask  |-> Len(added) + 1]
       IN  mEntries' = [mEntries EXCEPT ![bucket] = Append(@, entry)]
    /\ added' = Append(added, [tick   |-> ticks,
                               delay  |-> delay,
                               inside |-> pc = "task"])
    /\ UNCHANGED <<mActiveIndex, mEntries2, mEntries3, position, pc, ticks,
                   fired>>

\* What was added while the tasks ran goes in front of what stays.
EndTickMixing ==
    /\ pc = "loop"
    /\ position = Len(mEntries2)
    /\ mEntries' = [mEntries EXCEPT ![mActiveIndex] = @ \o mEntries3]
    /\ mEntries2' = << >> /\ mEntries3' = << >>
    /\ position' = 0
    /\ mActiveIndex' = (mActiveIndex + 1) % num_buckets
    /\ pc' = "idle"
    /\ UNCHANGED <<ticks, added, fired>>

\* add(task, delay), from outside or from a task that is being run.
Add(delay) ==
    /\ pc \in {"idle", "task"}
    /\ Len(added) < MaxTasks
    /\ LET bucket == (mActiveIndex + (delay % num_buckets)) % num_buckets
           entry  == [mCount |-> delay \div num_buckets,
                      mTask  |-> Len(added) + 1]
       IN  mEntries' = [mEntries EXCEPT ![bucket] = Append(@, entry)]
    /\ added' = Append(added, [tick   |-> ticks,
                               delay  |-> delay,
                               inside |-> pc = "task"])
    /\ UNCHANGED <<mActiveIndex, mEntries2, mEntries3, position, pc, ticks,
                   fired>>

\* tick() enters run_tasks() of the active bucket and swaps its entries out.
StartTick ==
    /\ pc = "idle"
    /\ ticks < MaxTicks
    /\ ticks' = ticks + 1
    /\ mEntries2' = mEntries[mActiveIndex]
    /\ mEntries' = [mEntries EXCEPT ![mActiveIndex] = mEntries2]
    /\ pc' = "loop"
    /\ UNCHANGED <<mActiveIndex, mEntries3, position, added, fired>>

Current == mEntries2[position + 1]

\* entry.mCount-- == 0: call the task.
CallTask ==
    /\ pc = "loop"
    /\ position < Len(mEntries2)
    /\ Current.mCount = 0
    /\ fired' = Append(fired, [tick |-> ticks, task |-> Current.mTask])
    /\ pc' = "task"
    /\ UNCHANGED <<mActiveIndex, mEntries, mEntries2, mEntries3, position,
                   ticks, added>>

TaskReturns ==
    /\ pc = "task"
    /\ position' = position + 1
    /\ pc' = "loop"
    /\ UNCHANGED <<mActiveIndex, mEntries, mEntries2, mEntries3, ticks, added,
                   fired>>

\* Otherwise the entry, its count decremented, stays for the next round.
ExecuteLater ==
    /\ pc = "loop"
    /\ position < Len(mEntries2)
    /\ Current.mCount # 0
    /\ mEntries3' = Append(mEntries3, [Current EXCEPT !.mCount = @ - 1])
    /\ position' = position + 1
    /\ UNCHANGED <<mActiveIndex, mEntries, mEntries2, pc, ticks, added, fired>>

\* The end of run_tasks(): what was added meanwhile goes behind what stays;
\* and the end of tick(): the next bucket becomes active.
EndTick ==
    /\ pc = "loop"
    /\ position = Len(mEntries2)
    /\ mEntries' = [mEntries EXCEPT ![mActiveIndex] = mEntries3 \o @]
    /\ mEntries2' = << >> /\ mEntries3' = << >>
    /\ position' = 0
    /\ mActiveIndex' = IF mActiveIndex + 1 = num_buckets
                         THEN 0 ELSE mActiveIndex + 1
    /\ pc' = "idle"
    /\ UNCHANGED <<ticks, added, fired>>

\* MaxTicks ticks have been made.
Over == pc = "idle" /\ ticks = MaxTicks /\ UNCHANGED vars

Tick == StartTick \/ CallTask \/ TaskReturns \/ ExecuteLater \/ EndTick

Next == (\E delay \in Delays : Add(delay)) \/ Tick \/ Over

Spec == Init /\ [][Next]_vars
-----------------------------------------------------------------------------
(* Properties *)

\* The tick on which a task runs.  Added from outside with delay d it runs on
\* the (d+1)-st tick from then.  Added by a running task it runs d ticks
\* later, but a delay that is a multiple of num_buckets selects the bucket
\* being run and costs one round more.
DueTick(task) ==
    LET a == added[task] IN
      CASE ~a.inside                          -> a.tick + a.delay + 1
        [] a.inside /\ a.delay % num_buckets # 0 -> a.tick + a.delay
        [] a.inside /\ a.delay % num_buckets = 0 ->
               a.tick + a.delay + num_buckets

\* Every task runs exactly once and exactly on its tick, through any number of
\* rounds, swaps and re-entrant calls of add(): none runs on another tick or
\* again, and none whose tick is over is still waiting.
RunsOnceOnItsTick ==
    /\ \A i \in DOMAIN fired : fired[i].tick = DueTick(fired[i].task)
    /\ \A i, j \in DOMAIN fired : fired[i].task = fired[j].task => i = j
    /\ \A task \in DOMAIN added :
          pc = "idle" /\ DueTick(task) <= ticks =>
              \E i \in DOMAIN fired : fired[i].task = task

\* Tasks of the same tick run in the order in which they were added, also
\* when some of them have waited for several rounds and some came from tasks.
SameTickInOrder ==
    \A i, j \in DOMAIN fired :
        i < j /\ fired[i].tick = fired[j].tick => fired[i].task < fired[j].task
=============================================================================
