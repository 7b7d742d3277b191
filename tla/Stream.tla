------------------------------- MODULE Stream -------------------------------
(***************************************************************************)
(* Stream of Playground/Asio/Stream/Stream.h: frames are sent on a         *)
(* schedule over a non-blocking UDP socket, from handlers of one           *)
(* io_context.  send_burst() sends what is due, and then is over, or waits *)
(* for the time of the next frame, or posts itself: when the socket would  *)
(* block and after BurstLimit frames.                                      *)
(*                                                                         *)
(* Clock is the system clock, which advances and may be set back.          *)
(***************************************************************************)
EXTENDS Naturals

CONSTANTS FrameCounts,      \* values of number_of_frames
          FrameIntervals,   \* values of frame_interval
          BurstLimit,       \* 128 in the code
          MaxTime,          \* bound: the clock
          MaxSetBacks       \* bound: how often the clock is set back

\* What the code takes for granted of its parameters.
StreamParameters ==
    /\ FrameCounts \subseteq Nat /\ FrameIntervals \subseteq Nat
    /\ BurstLimit \in Nat \ {0} /\ MaxTime \in Nat /\ MaxSetBacks \in Nat

VARIABLES clock, setBacks,
          mNumberOfFrames, mFrameInterval,
          mNumberOfFramesSent, mNextTransmitTime, mStopTime,
          handler,          \* "start", in a "burst", "posted", waiting for
                            \* the "timer", "over", or an exception "thrown"
          current_time,
          burst,            \* the loop counter of send_burst()
          latest            \* history: the latest time ever read

config == <<mNumberOfFrames, mFrameInterval>>
frames == <<mNumberOfFramesSent, mNextTransmitTime>>
svars == <<clock, setBacks, config, frames, mStopTime, handler, current_time,
           burst, latest>>

TypeOK ==
    /\ clock \in 0 .. MaxTime /\ setBacks \in 0 .. MaxSetBacks
    /\ mNumberOfFrames \in FrameCounts /\ mFrameInterval \in FrameIntervals
    /\ mNumberOfFramesSent \in Nat
    /\ mNextTransmitTime \in Nat /\ mStopTime \in Nat
    /\ handler \in {"start", "burst", "posted", "timer", "over", "thrown"}
    /\ current_time \in 0 .. MaxTime /\ latest \in 0 .. MaxTime
    /\ burst \in 0 .. BurstLimit

InitFor(number, interval) ==
    /\ clock = 0 /\ setBacks = 0
    /\ mNumberOfFrames = number /\ mFrameInterval = interval
    /\ mNumberOfFramesSent = 0
    /\ mNextTransmitTime = 0 /\ mStopTime = 0
    /\ handler = "start"
    /\ current_time = 0 /\ burst = 0 /\ latest = 0

Init == \E number \in FrameCounts, interval \in FrameIntervals :
            InitFor(number, interval)

Tick ==
    /\ handler # "start" /\ clock < MaxTime
    /\ clock' = clock + 1
    /\ UNCHANGED <<setBacks, config, frames, mStopTime, handler, current_time,
                   burst, latest>>

SetBack ==
    /\ handler # "start" /\ setBacks < MaxSetBacks
    /\ setBacks' = setBacks + 1
    /\ clock' \in 0 .. clock - 1
    /\ UNCHANGED <<config, frames, mStopTime, handler, current_time, burst,
                   latest>>
-----------------------------------------------------------------------------
\* send_burst(Clock::now()): nothing is sent after the stop time.
EnterBurst(stop) ==
    /\ current_time' = clock
    /\ latest' = IF clock > latest THEN clock ELSE latest
    /\ burst' = 0
    /\ handler' = IF clock >= stop THEN "over" ELSE "burst"

StartStream ==
    /\ handler = "start"
    /\ mNextTransmitTime' = clock
    /\ mStopTime' = clock + mNumberOfFrames * mFrameInterval
    /\ EnterBurst(mStopTime')
    /\ UNCHANGED <<clock, setBacks, config, mNumberOfFramesSent>>

\* Mutation: the posted handler has kept the time of the burst before it.
RunPostedLate ==
    /\ handler = "posted"
    /\ burst' = 0
    /\ handler' = IF current_time >= mStopTime THEN "over" ELSE "burst"
    /\ UNCHANGED <<clock, setBacks, config, frames, mStopTime, current_time,
                   latest>>

RunPosted ==
    /\ handler = "posted"
    /\ EnterBurst(mStopTime)
    /\ UNCHANGED <<clock, setBacks, config, frames, mStopTime>>

\* Mutation: the handler of the timer runs before its time.
TimerExpiresEarly ==
    /\ handler = "timer"
    /\ EnterBurst(mStopTime)
    /\ UNCHANGED <<clock, setBacks, config, frames, mStopTime>>

TimerExpires ==
    /\ handler = "timer" /\ clock >= mNextTransmitTime
    /\ EnterBurst(mStopTime)
    /\ UNCHANGED <<clock, setBacks, config, frames, mStopTime>>

\* try_send() succeeds.  The first frame of a burst is not checked to be due.
SendFrame ==
    LET next == mNextTransmitTime + mFrameInterval
        all  == mNumberOfFramesSent + 1 >= mNumberOfFrames
    IN  /\ handler = "burst" /\ burst < BurstLimit
        /\ mNumberOfFramesSent' = mNumberOfFramesSent + 1
        /\ mNextTransmitTime' = next
        /\ burst' = burst + 1
        /\ handler' = IF all \/ (current_time < next /\ next >= mStopTime)
                        THEN "over"
                        ELSE IF current_time < next THEN "timer" ELSE "burst"
        /\ UNCHANGED <<clock, setBacks, config, mStopTime, current_time, latest>>

\* try_send() would block.
PostWhenBlocked ==
    /\ handler = "burst" /\ burst < BurstLimit
    /\ handler' = "posted"
    /\ UNCHANGED <<clock, setBacks, config, frames, mStopTime, current_time,
                   burst, latest>>

PostAfterBurst ==
    /\ handler = "burst" /\ burst = BurstLimit
    /\ handler' = "posted"
    /\ UNCHANGED <<clock, setBacks, config, frames, mStopTime, current_time,
                   burst, latest>>

\* try_send() throws any other error, out of io_context::run().
SendFails ==
    /\ handler = "burst" /\ burst < BurstLimit
    /\ handler' = "thrown"
    /\ UNCHANGED <<clock, setBacks, config, frames, mStopTime, current_time,
                   burst, latest>>

Handle == \/ StartStream \/ RunPosted \/ TimerExpires
          \/ SendFrame \/ PostWhenBlocked \/ PostAfterBurst \/ SendFails

Next == Tick \/ SetBack \/ Handle

\* io_context::run() runs what is ready, and time passes.
Spec == Init /\ [][Next]_svars /\ WF_svars(Handle) /\ WF_svars(Tick)
-----------------------------------------------------------------------------
(* Properties *)

\* No frame is sent before its time, the start plus its number times the
\* interval, although the first one of a burst is sent unchecked and the clock
\* may be set back.  A stream is over only when all frames are sent or the
\* stop time has been reached: the branch for a next frame after the stop
\* time is never taken before the last frame.
SendsOnTime ==
    /\ mNumberOfFramesSent > 0 => mNextTransmitTime - mFrameInterval <= latest
    /\ handler = "over" => \/ mNumberOfFramesSent = mNumberOfFrames
                           \/ current_time >= mStopTime

\* run() returns: sent, too late or failed, a stream ends, also when the
\* socket blocks for ever and when the clock is set back.
StreamEnds == <>(handler \in {"over", "thrown"})
=============================================================================
