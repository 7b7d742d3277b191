------------------------------- MODULE MCTimed -------------------------------
(* Three programs that a clock drives, in one run: every behaviour is one of  *)
(* FrameBlasting, of Stream or of Tetris, chosen in TimedInit.                *)
EXTENDS FrameBlasting

CONSTANTS FrameCounts, FrameIntervals, BurstLimit,          \* Stream
          MaxStreamTime, MaxSetBacks,
          Width, Height, Grids, Turns, Timers, Edt,         \* Tetris
          MaxOverlaps, MaxAbove

VARIABLES program,
          clock, setBacks, mNumberOfFrames, mFrameInterval,
          mNumberOfFramesSent, mNextTransmitTime, mStopTime, handler,
          current_time, burst, latest,
          data, type, rotation, x, y, is_game_over, timer, status, tasks,
          steps, overlaps, balance

stream == <<clock, setBacks, mNumberOfFrames, mFrameInterval,
            mNumberOfFramesSent, mNextTransmitTime, mStopTime, handler,
            current_time, burst, latest>>
game   == <<data, type, rotation, x, y, is_game_over, timer, status, tasks,
            steps, overlaps, balance>>
timed  == <<program, vars, stream, game>>

\* A block of two cells, upright or lying, and one of one cell.
MCGrids ==
    [bar |-> << [width |-> 1, cells |-> << <<0, 0>>, <<0, 1>> >>],
                [width |-> 2, cells |-> << <<0, 0>>, <<1, 0>> >>] >>,
     dot |-> << [width |-> 1, cells |-> << <<0, 0>> >>] >>]

\* Two flows with different packet sizes that are due together: in the long run
\* more than the bucket grants.
MCSize == <<6, 12>>
MCInterval == <<1, 1>>

Streams == INSTANCE Stream WITH MaxTime <- MaxStreamTime
Game    == INSTANCE Tetris WITH pc <- steps

ASSUME TimedParameters ==
    /\ Streams!StreamParameters /\ FrameCounts # {} /\ FrameIntervals # {}
    /\ Game!TetrisParameters

\* The programs that do not run begin in one of their initial states.
SomeStream == Streams!InitFor(CHOOSE number \in FrameCounts : TRUE,
                              CHOOSE interval \in FrameIntervals : TRUE)
SomeGame == Game!InitFor(CHOOSE kind \in DOMAIN Grids : TRUE)

TimedInit ==
    /\ Init
    /\ \/ program = "blaster" /\ SomeStream   /\ SomeGame
       \/ program = "stream"  /\ Streams!Init /\ SomeGame
       \/ program = "game"    /\ SomeStream   /\ Game!Init

StreamStep(A) == program = "stream" /\ A /\ UNCHANGED <<program, vars, game>>
GameStep(A)   == program = "game" /\ A /\ UNCHANGED <<program, vars, stream>>

TimedNext == \/ /\ program = "blaster" /\ Next
                /\ UNCHANGED <<program, stream, game>>
             \/ StreamStep(Streams!Next)
             \/ GameStep(Game!Next)

\* The fairness of the specifications of Stream and of Tetris.
TimedSpec == /\ TimedInit /\ [][TimedNext]_timed
             /\ WF_timed(StreamStep(Streams!Handle))
             /\ WF_timed(StreamStep(Streams!Tick))
             /\ \A t \in Game!Threads : WF_timed(GameStep(Game!Step(t)))
             /\ \A t \in Timers : WF_timed(GameStep(Game!Fire(t)))

\* A stream sends nothing early and stops early only when it is too late.
SendsOnTime == Streams!TypeOK /\ Streams!SendsOnTime

\* Every stream ends.
StreamEnds == program = "stream" => Streams!StreamEnds

\* The game is sound while operations do not overlap, and has a timer that runs
\* however they do.
GameSound == /\ Game!TypeOK
             /\ Game!SoundUnlessOverlapped
             /\ Game!FallingGoesOn

\* Blocks keep landing while operations do not overlap.
BlocksLand == program = "game" => Game!BlocksLand

\* There is never more than one task that moves the block down.
OneRowPerInterval == Game!OneRowPerInterval
=============================================================================
