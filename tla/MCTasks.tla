------------------------------ MODULE MCTasks ------------------------------
(* Three programs that hand work to other threads: TaskScheduler, Actor and   *)
(* Dispatcher.  They have nothing to do with each other: in ActorSpec and in  *)
(* DispatcherSpec the variables of the other two stay as they are.            *)
EXTENDS TaskScheduler

CONSTANTS None,             \* Actor and Dispatcher
          Clients, Workers  \* Dispatcher

VARIABLES quit_, queue_, thread, task, user, promise, executed, called,
          ranAtQuit,        \* Actor: user stands for owner and called for ran
          mSolicitor, mRequest, mResult, holder, client, process, got, answer,
          missed            \* Dispatcher: process stands for worker

actor == <<quit_, queue_, thread, task, user, promise, executed, called,
           ranAtQuit>>
dispatcher == <<mSolicitor, mRequest, mResult, holder, client, process, got,
                answer, missed>>
programs == <<vars, actor, dispatcher>>

A == INSTANCE Actor WITH owner <- user, ran <- called
D == INSTANCE Dispatcher WITH worker <- process

ASSUME TaskParameters == A!ActorParameters /\ D!DispatcherParameters

ProgramsInit == Init /\ A!Init /\ D!Init

\* The specifications of Actor and of Dispatcher, fairness included.
ActorStep(B) == B /\ UNCHANGED <<vars, dispatcher>>

ActorSpec == /\ ProgramsInit /\ [][ActorStep(A!Next)]_programs
             /\ WF_programs(ActorStep(A!Consume))
             /\ WF_programs(ActorStep(A!Destructor))

DispatcherStep(B) == B /\ UNCHANGED <<vars, actor>>

DispatcherSpec ==
    /\ ProgramsInit /\ [][DispatcherStep(D!Next)]_programs
    /\ \A c \in Clients : WF_programs(DispatcherStep(D!ServeClient(c)))
    /\ \A w \in Workers : WF_programs(DispatcherStep(D!ServeWorker(w)))

\* The actor calls its tasks in the order of execute(), and at most one of them
\* after quit_ has been set.
CalledInOrder     == A!CalledInOrder
FewCallsAfterQuit == A!FewCallsAfterQuit

\* The actor answers every future, and its destructor returns.
EveryFutureAnswered == A!EveryFutureAnswered
ActorIsDestroyed    == A!DestructorReturns

\* The dispatcher sends a client its own answer, and hands a request over only
\* when a solicitor waits for it.
AnswerIsMine             == D!AnswerIsMine
HandOverReachesSolicitor == D!HandOverReachesSolicitor

\* A client is answered unless its result was signalled too early; then nobody
\* else is served any more.
AnsweredUnlessMissed  == D!AnsweredUnlessMissed
MissedBlocksEverybody == D!MissedBlocksEverybody
=============================================================================
