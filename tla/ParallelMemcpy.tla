--------------------------- MODULE ParallelMemcpy ---------------------------
(***************************************************************************)
(* Playground/ParallelMemcpy/main.cpp: run(n) starts n detached threads    *)
(* which copy at the same time, for n = 1, 2, ...  One atomic counter,     *)
(* control_flag, serves as two barriers: it counts the threads that have   *)
(* started, is set to 0 as the signal to start copying, and then counts    *)
(* those that have finished.  Everybody waits by reading it in a loop.     *)
(***************************************************************************)
EXTENDS Integers, FiniteSets

CONSTANTS MaxThreads        \* main() calls run(1) to run(MaxThreads)

ASSUME ParallelMemcpyAssumption == MaxThreads \in Nat \ {0}

VARIABLES control_flag,
          num_threads,      \* of the call of run() in progress
          main,             \* where run() is
          launched,         \* the loop counter of run()
          thread            \* where start_thread() of each index is

vars == <<control_flag, num_threads, main, launched, thread>>

Threads == 1 .. MaxThreads

TypeOK ==
    /\ control_flag \in Nat
    /\ num_threads \in Threads
    /\ main \in {"reset", "launch", "gather", "signal", "wait", "returned"}
    /\ launched \in 0 .. num_threads
    /\ thread \in [Threads -> {"none", "start", "spin", "copy", "finish", "done"}]

Init ==
    /\ control_flag = 0
    /\ num_threads = 1
    /\ main = "reset"
    /\ launched = 0
    /\ thread = [t \in Threads |-> "none"]
-----------------------------------------------------------------------------
(* run(num_threads) *)

\* Mutation: the counter keeps the value of the call before.
ResetWithoutZero ==
    /\ main = "reset"
    /\ main' = "launch"
    /\ launched' = 0
    /\ UNCHANGED <<control_flag, num_threads, thread>>

Reset ==
    /\ main = "reset"
    /\ main' = "launch"
    /\ control_flag' = 0
    /\ launched' = 0
    /\ UNCHANGED <<num_threads, thread>>

Launch ==
    /\ main = "launch" /\ launched < num_threads
    /\ launched' = launched + 1
    /\ thread' = [thread EXCEPT ![launched + 1] = "start"]
    /\ UNCHANGED <<control_flag, num_threads, main>>

AllLaunched ==
    /\ main = "launch" /\ launched = num_threads
    /\ main' = "gather"
    /\ UNCHANGED <<control_flag, num_threads, launched, thread>>

\* Mutation: the last thread is not waited for.
SeeMostStarted ==
    /\ main = "gather" /\ control_flag >= num_threads - 1
    /\ main' = "signal"
    /\ UNCHANGED <<control_flag, num_threads, launched, thread>>

\* while (control_flag != num_threads)
SeeAllStarted ==
    /\ main = "gather" /\ control_flag = num_threads
    /\ main' = "signal"
    /\ UNCHANGED <<control_flag, num_threads, launched, thread>>

SignalStart ==
    /\ main = "signal"
    /\ main' = "wait"
    /\ control_flag' = 0
    /\ UNCHANGED <<num_threads, launched, thread>>

\* The threads are detached: the next call of run() starts new ones.
SeeAllFinished ==
    /\ main = "wait" /\ control_flag = num_threads
    /\ IF num_threads < MaxThreads
         THEN /\ main' = "reset" /\ num_threads' = num_threads + 1
         ELSE /\ main' = "returned" /\ UNCHANGED num_threads
    /\ UNCHANGED <<control_flag, launched, thread>>

Main == \/ Reset \/ Launch \/ AllLaunched \/ SeeAllStarted \/ SignalStart
        \/ SeeAllFinished
-----------------------------------------------------------------------------
(* start_thread(t) *)

Started(t) ==
    /\ thread[t] = "start"
    /\ thread' = [thread EXCEPT ![t] = "spin"]
    /\ control_flag' = control_flag + 1
    /\ UNCHANGED <<num_threads, main, launched>>

\* Mutation: the loop also ends when the others have begun to finish.
SeeSignalOrFinish(t) ==
    /\ thread[t] = "spin" /\ control_flag < num_threads
    /\ thread' = [thread EXCEPT ![t] = "copy"]
    /\ UNCHANGED <<control_flag, num_threads, main, launched>>

\* while (control_flag > 0)
SeeSignal(t) ==
    /\ thread[t] = "spin" /\ ~(control_flag > 0)
    /\ thread' = [thread EXCEPT ![t] = "copy"]
    /\ UNCHANGED <<control_flag, num_threads, main, launched>>

Copy(t) ==
    /\ thread[t] = "copy"
    /\ thread' = [thread EXCEPT ![t] = "finish"]
    /\ UNCHANGED <<control_flag, num_threads, main, launched>>

Finished(t) ==
    /\ thread[t] = "finish"
    /\ thread' = [thread EXCEPT ![t] = "done"]
    /\ control_flag' = control_flag + 1
    /\ UNCHANGED <<num_threads, main, launched>>

StartThread(t) == Started(t) \/ SeeSignal(t) \/ Copy(t) \/ Finished(t)
-----------------------------------------------------------------------------
Next == Main \/ \E t \in Threads : StartThread(t)

SafeSpec == Init /\ [][Next]_vars

\* All threads run.
Spec == /\ SafeSpec
        /\ WF_vars(Main)
        /\ \A t \in Threads : WF_vars(StartThread(t))
-----------------------------------------------------------------------------
(* Properties *)

\* Nobody copies before all threads of the call have started, and run() is
\* left only when all of them have finished, so that no thread of an earlier
\* call ever counts in a later one.
BarrierHolds ==
    /\ (\E t \in Threads : thread[t] \in {"copy", "finish"}) =>
          \A u \in 1 .. num_threads : thread[u] \notin {"none", "start"}
    /\ main \in {"reset", "returned"} =>
          \A t \in Threads : thread[t] \in {"none", "done"}

\* A thread is overtaken when another one finishes before it has read the 0.
Overtaken == {t \in Threads : /\ main = "wait" /\ thread[t] = "spin"
                              /\ control_flag > 0}

\* Nothing ends that: the counter does not become 0 again, because run() waits
\* for the thread that has been overtaken.
OvertakenForGood == [][Overtaken \subseteq Overtaken']_vars

\* Nothing else keeps the program from returning.
ReturnsUnlessOvertaken == <>(main = "returned" \/ Overtaken # {})

\* `wait until threads have finished', main.cpp:80: the wait ends.
WaitEnds == main = "wait" ~> main \in {"reset", "returned"}
=============================================================================
