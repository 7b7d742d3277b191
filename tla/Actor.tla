------------------------------- MODULE Actor -------------------------------
(***************************************************************************)
(* Actor<T> of Playground/Actor/main.cpp: execute() queues a task for the  *)
(* actor's own thread and returns a future.  execute() never notifies the  *)
(* condition variable: it is the timeout of wait_for, `workaround for      *)
(* unfixed deadlock', that lets the thread find the task.  The destructor  *)
(* sets quit_ and notifies, both without the mutex, and joins the thread.  *)
(***************************************************************************)
EXTENDS Naturals, Sequences

CONSTANTS Tasks,            \* the functions given to execute(), once each
          None              \* the empty Task

\* What the definitions take for granted.
ActorParameters == None \notin Tasks

VARIABLES quit_, queue_,
          thread,           \* where consume() is
          task,             \* the task t it has taken, or None
          owner,            \* "using", "notify", "join", "members" or "gone"
          promise,          \* per task: none, pending, set or broken
          executed,         \* history: tasks in the order of execute()
          ran,              \* history: tasks in the order they are called
          ranAtQuit         \* history: Len(ran) when quit_ was set

vars == <<quit_, queue_, thread, task, owner, promise, executed, ran,
          ranAtQuit>>

TypeOK ==
    /\ quit_ \in BOOLEAN
    /\ queue_ \in Seq(Tasks)
    /\ thread \in {"check", "lock", "waiting", "woken", "call", "left"}
    /\ task \in IF thread = "call" THEN Tasks ELSE {None}
    /\ owner \in {"using", "notify", "join", "members", "gone"}
    /\ promise \in [Tasks -> {"none", "pending", "set", "broken"}]
    /\ executed \in Seq(Tasks)
    /\ ran \in Seq(Tasks)
    /\ ranAtQuit \in Nat

Init ==
    /\ quit_ = FALSE
    /\ queue_ = << >>
    /\ thread = "check"
    /\ task = None
    /\ owner = "using"
    /\ promise = [t \in Tasks |-> "none"]
    /\ executed = << >> /\ ran = << >>
    /\ ranAtQuit = 0

\* execute(f): one critical section, no notification.  Nobody calls a member
\* function of an actor that is being destroyed.
Execute(t) ==
    /\ owner = "using"
    /\ promise[t] = "none"
    /\ queue_' = Append(queue_, t)
    /\ promise' = [promise EXCEPT ![t] = "pending"]
    /\ executed' = Append(executed, t)
    /\ UNCHANGED <<quit_, thread, task, owner, ran, ranAtQuit>>
-----------------------------------------------------------------------------
(* Mutations of the actions below, each a bug that one property catches *)

\* The thread leaves only when the queue is empty, too.
QuitWhenEmpty ==
    /\ thread = "check"
    /\ thread' = IF quit_ /\ queue_ = << >> THEN "left" ELSE "lock"
    /\ UNCHANGED <<quit_, queue_, task, owner, promise, executed, ran,
                   ranAtQuit>>

\* The wait has no timeout: only a notification ends it.
WaitOn == thread = "waiting" /\ UNCHANGED vars

\* The newest task is taken.
TakeNewest ==
    /\ thread = "woken"
    /\ \/ /\ queue_ # << >>
          /\ task' = queue_[Len(queue_)]
          /\ queue_' = SubSeq(queue_, 1, Len(queue_) - 1)
          /\ thread' = "call"
       \/ /\ queue_ = << >>
          /\ thread' = "check"
          /\ UNCHANGED <<task, queue_>>
    /\ UNCHANGED <<quit_, owner, promise, executed, ran, ranAtQuit>>

-----------------------------------------------------------------------------
(* consume() *)

CheckQuit ==
    /\ thread = "check"
    /\ thread' = IF quit_ THEN "left" ELSE "lock"
    /\ UNCHANGED <<quit_, queue_, task, owner, promise, executed, ran,
                   ranAtQuit>>

\* wait_for(lock, 100ms) blocks, whatever is in the queue.
StartWait ==
    /\ thread = "lock"
    /\ thread' = "waiting"
    /\ UNCHANGED <<quit_, queue_, task, owner, promise, executed, ran,
                   ranAtQuit>>

\* The 100 ms are over, or the wait ends spuriously.
Timeout ==
    /\ thread = "waiting"
    /\ thread' = "woken"
    /\ UNCHANGED <<quit_, queue_, task, owner, promise, executed, ran,
                   ranAtQuit>>

\* One task per wait, if there is one.
TakeTask ==
    /\ thread = "woken"
    /\ \/ /\ queue_ # << >>
          /\ task' = Head(queue_)
          /\ queue_' = Tail(queue_)
          /\ thread' = "call"
       \/ /\ queue_ = << >>
          /\ thread' = "check"
          /\ UNCHANGED <<task, queue_>>
    /\ UNCHANGED <<quit_, owner, promise, executed, ran, ranAtQuit>>

\* t(): the function is called and its result goes into the promise.
CallTask ==
    /\ thread = "call"
    /\ promise' = [promise EXCEPT ![task] = "set"]
    /\ ran' = Append(ran, task)
    /\ task' = None
    /\ thread' = "check"
    /\ UNCHANGED <<quit_, queue_, owner, executed, ranAtQuit>>

Consume == CheckQuit \/ StartWait \/ Timeout \/ TakeTask \/ CallTask
-----------------------------------------------------------------------------
(* ~Actor() *)

SetQuit ==
    /\ owner = "using"
    /\ owner' = "notify"
    /\ quit_' = TRUE
    /\ ranAtQuit' = Len(ran)
    /\ UNCHANGED <<queue_, thread, task, promise, executed, ran>>

\* Without the mutex: the thread may have checked quit_ and not wait yet.
NotifyAll ==
    /\ owner = "notify"
    /\ owner' = "join"
    /\ thread' = IF thread = "waiting" THEN "woken" ELSE thread
    /\ UNCHANGED <<quit_, queue_, task, promise, executed, ran, ranAtQuit>>

Join ==
    /\ owner = "join"
    /\ thread = "left"
    /\ owner' = "members"
    /\ UNCHANGED <<quit_, queue_, thread, task, promise, executed, ran,
                   ranAtQuit>>

\* queue_ goes, and with it the promises of the tasks still in it.
DestroyMembers ==
    /\ owner = "members"
    /\ owner' = "gone"
    /\ promise' = [t \in Tasks |->
                     IF \E i \in DOMAIN queue_ : queue_[i] = t
                       THEN "broken" ELSE promise[t]]
    /\ queue_' = << >>
    /\ UNCHANGED <<quit_, thread, task, executed, ran, ranAtQuit>>

Destructor == NotifyAll \/ Join \/ DestroyMembers

Over == owner = "gone" /\ UNCHANGED vars

Next == \/ \E t \in Tasks : Execute(t)
        \/ Consume
        \/ SetQuit \/ Destructor
        \/ Over

SafeSpec == Init /\ [][Next]_vars

\* The thread runs, its timeout expires, and a destructor makes progress.
Spec == SafeSpec /\ WF_vars(Consume) /\ WF_vars(Destructor)
-----------------------------------------------------------------------------
(* Properties *)

\* Tasks are called one at a time in the order of execute(), none twice; the
\* one in hand and the queued ones are the rest, until queue_ is destroyed.
InHand == IF task = None THEN << >> ELSE << task >>

CalledInOrder ==
    IF owner = "gone"
      THEN ran = SubSeq(executed, 1, Len(ran))
      ELSE executed = ran \o InHand \o queue_

\* After quit_ is set one more call at most follows: of the task in hand, or
\* of one that is taken because quit_ is only looked at before the wait.
FewCallsAfterQuit == quit_ => Len(ran) + Len(InHand) <= ranAtQuit + 1

\* Every future is answered, by its task or by the destructor, although
\* execute() wakes nobody.
EveryFutureAnswered ==
    \A t \in Tasks : promise[t] = "pending" ~> promise[t] \in {"set", "broken"}

\* The destructor returns although its notification can come too early.
DestructorReturns == owner = "notify" ~> owner = "gone"
=============================================================================
