---------------------------- MODULE FrameBlasting ----------------------------
(***************************************************************************)
(* Playground/FrameBlasting/main.cpp: one thread goes round the interfaces *)
(* for ever and pulls the packets that are due from their flows, as far as *)
(* the interface's token bucket is not overdrawn, into a batch that the    *)
(* socket sends when it is full or the round is over.                      *)
(*                                                                         *)
(* The clock advances on its own.  run_thread() reads it once a round      *)
(* (now) and the socket once more, for the first batch.  Every packet that *)
(* is pulled is a step, so that stop() can come at any time.               *)
(***************************************************************************)
EXTENDS Integers, Sequences

CONSTANTS Interfaces,       \* number of interfaces
          Flows,            \* number of flows of each interface
          Size,             \* per flow: mPacket.size()
          MaxSize,          \* of a packet
          Interval,         \* per flow: mFrameInterval
          Rate,             \* mBytesPerFourNanoseconds, not 0
          MaxBucketSize,    \* mMaxBucketSize
          BatchCapacity,    \* of the vector of packets, 32 in the code
          Second,           \* how often the socket reports, at least
          StartOfClock,     \* the clock when the program starts, not 0
          StartTime,        \* start_time of all flows, as in main()
          MaxTime           \* bound: the clock

ASSUME FrameBlastingAssumption ==
    /\ Interfaces \in Nat \ {0} /\ Flows \in Nat \ {0}
    /\ Size \in [1 .. Flows -> 1 .. MaxSize] /\ MaxSize \in Nat
    /\ Interval \in [1 .. Flows -> Nat \ {0}]
    /\ Rate \in Nat \ {0} /\ MaxBucketSize \in Nat
    /\ BatchCapacity \in Nat \ {0} /\ Second \in Nat \ {0}
    /\ StartOfClock \in Nat \ {0} /\ StartTime \in Nat /\ MaxTime \in Nat

VARIABLES time,             \* what Clock::now() returns
          mQuit,
          owner,            \* "created", "started", "joining" or "joined"
          thread,           \* where run_thread() is
          now,
          bbinterface, flow, \* whose turn it is
          pulled,           \* packets pulled from the flow in this call
          packets,          \* the batch: the flows of the packets in it
          mNextTransmission,
          mBucketSize, mLastUpdate,
          mCounters,        \* packets since the last report, per flow
          mTxBytes, mStartTime,
          count,            \* history: packets ever pulled, per flow
          bytes             \* history: bytes ever pulled, per interface

turn   == <<bbinterface, flow, pulled>>
bucket == <<mBucketSize, mLastUpdate>>
stats  == <<mCounters, mTxBytes, mStartTime>>
flows  == <<mNextTransmission, count, bytes>>
vars == <<time, mQuit, owner, thread, now, turn, packets, bucket, stats, flows>>

Interface == 1 .. Interfaces
Flow == 1 .. Flows

TypeOK ==
    /\ time \in Nat \ {0} /\ now \in Nat
    /\ mQuit \in BOOLEAN
    /\ owner \in {"created", "started", "joining", "joined"}
    /\ thread \in {"none", "loop", "bucket", "pull", "flush", "left"}
    /\ bbinterface \in Interface /\ flow \in Flow /\ pulled \in 0 .. 3
    /\ packets \in Seq(Flow)
    /\ mNextTransmission \in [Interface -> [Flow -> Nat]]
    /\ mBucketSize \in [Interface -> Int]
    /\ mLastUpdate \in [Interface -> Nat]
    /\ mCounters \in [Flow -> Nat]
    /\ mTxBytes \in Nat /\ mStartTime \in Nat
    /\ count \in [Interface -> [Flow -> Nat]]
    /\ bytes \in [Interface -> Nat]

\* mLastUpdate and mStartTime are Clock::time_point(), the epoch.
Init ==
    /\ time = StartOfClock /\ now = 0
    /\ mQuit = FALSE /\ owner = "created" /\ thread = "none"
    /\ bbinterface = 1 /\ flow = 1 /\ pulled = 0
    /\ packets = << >>
    /\ mNextTransmission = [i \in Interface |-> [f \in Flow |-> StartTime]]
    /\ mBucketSize = [i \in Interface |-> MaxBucketSize]
    /\ mLastUpdate = [i \in Interface |-> 0]
    /\ mCounters = [f \in Flow |-> 0]
    /\ mTxBytes = 0 /\ mStartTime = 0
    /\ count = [i \in Interface |-> [f \in Flow |-> 0]]
    /\ bytes = [i \in Interface |-> 0]

Tick ==
    /\ time < MaxTime
    /\ time' = time + 1
    /\ UNCHANGED <<mQuit, owner, thread, now, turn, packets, bucket, stats,
                   flows>>
-----------------------------------------------------------------------------
(* Socket::send_batch(): the batch and the counters it is called with *)

SizeOf(batch) ==
    LET sum[n \in 0 .. Len(batch)] ==
            IF n = 0 THEN 0 ELSE sum[n - 1] + Size[batch[n]]
    IN  sum[Len(batch)]

\* Mutation: the report leaves the counters as they are.
SendBatchWithoutReset(batch, counters) ==
    LET start  == IF mStartTime = 0 THEN time ELSE mStartTime
        report == now - start >= Second
    IN  /\ mTxBytes' = IF report THEN 0 ELSE mTxBytes + SizeOf(batch)
        /\ mStartTime' = IF report THEN now ELSE start
        /\ mCounters' = counters

SendBatch(batch, counters) ==
    LET start  == IF mStartTime = 0 THEN time ELSE mStartTime
        report == now - start >= Second
    IN  /\ mTxBytes' = IF report THEN 0 ELSE mTxBytes + SizeOf(batch)
        /\ mStartTime' = IF report THEN now ELSE start
        /\ mCounters' = IF report THEN [f \in Flow |-> 0] ELSE counters
-----------------------------------------------------------------------------
(* run_thread() *)

StartRound ==
    /\ thread = "loop"
    /\ IF mQuit
         THEN thread' = "left" /\ UNCHANGED <<now, bbinterface>>
         ELSE thread' = "bucket" /\ now' = time /\ bbinterface' = 1
    /\ UNCHANGED <<time, mQuit, owner, flow, pulled, packets, bucket, stats,
                   flows>>

\* The for loop over mBBInterfaces goes on, or is over.
NextInterface ==
    IF bbinterface < Interfaces
      THEN thread' = "bucket" /\ bbinterface' = bbinterface + 1
      ELSE thread' = "flush" /\ UNCHANGED bbinterface

\* Mutation: mLastUpdate is not set.
CheckWithoutUpdate ==
    LET i      == bbinterface
        filled == mBucketSize[i] + 4 * (now - mLastUpdate[i]) * Rate
        new    == IF filled < MaxBucketSize THEN filled ELSE MaxBucketSize
    IN  /\ thread = "bucket"
        /\ mBucketSize' = IF mBucketSize[i] < 0 /\ new >= 0
                            THEN [mBucketSize EXCEPT ![i] = new]
                            ELSE mBucketSize
        /\ IF mBucketSize'[i] >= 0
             THEN /\ thread' = "pull" /\ flow' = 1 /\ pulled' = 0
                  /\ UNCHANGED bbinterface
             ELSE NextInterface /\ UNCHANGED <<flow, pulled>>
        /\ UNCHANGED <<time, mQuit, owner, now, packets, mLastUpdate, stats,
                       flows>>

\* check_token_bucket() looks at the clock only when the bucket is overdrawn.
\* update_bucket() grants 4 * Rate bytes per unit of time.
CheckTokenBucket ==
    LET i      == bbinterface
        filled == mBucketSize[i] + 4 * (now - mLastUpdate[i]) * Rate
        new    == IF filled < MaxBucketSize THEN filled ELSE MaxBucketSize
    IN  /\ thread = "bucket"
        /\ IF mBucketSize[i] < 0 /\ new >= 0
             THEN /\ mBucketSize' = [mBucketSize EXCEPT ![i] = new]
                  /\ mLastUpdate' = [mLastUpdate EXCEPT ![i] = now]
             ELSE UNCHANGED bucket
        /\ IF mBucketSize'[i] >= 0
             THEN /\ thread' = "pull" /\ flow' = 1 /\ pulled' = 0
                  /\ UNCHANGED bbinterface
             ELSE NextInterface /\ UNCHANGED <<flow, pulled>>
        /\ UNCHANGED <<time, mQuit, owner, now, packets, stats, flows>>

Due == pulled < 3 /\ now >= mNextTransmission[bbinterface][flow]

\* The two callbacks of pull(), and the flow's next time.
PullPacket ==
    LET i == bbinterface
        batch == Append(packets, flow)
        counters == [mCounters EXCEPT ![flow] = @ + 1]
    IN  /\ thread = "pull" /\ Due
        /\ mBucketSize' = [mBucketSize EXCEPT ![i] = @ - Size[flow]]
        /\ mNextTransmission' =
               [mNextTransmission EXCEPT ![i][flow] = @ + Interval[flow]]
        /\ pulled' = pulled + 1
        /\ count' = [count EXCEPT ![i][flow] = @ + 1]
        /\ bytes' = [bytes EXCEPT ![i] = @ + Size[flow]]
        /\ IF Len(batch) = BatchCapacity
             THEN SendBatch(batch, counters) /\ packets' = << >>
             ELSE /\ packets' = batch /\ mCounters' = counters
                  /\ UNCHANGED <<mTxBytes, mStartTime>>
        /\ UNCHANGED <<time, mQuit, owner, thread, now, bbinterface, flow,
                       mLastUpdate>>

\* Mutation: a flow that has given three packets ends the visit.
FlowDoneEndsVisit ==
    /\ thread = "pull" /\ ~Due
    /\ IF flow < Flows /\ pulled < 3
         THEN /\ flow' = flow + 1 /\ pulled' = 0
              /\ UNCHANGED <<thread, bbinterface>>
         ELSE NextInterface /\ UNCHANGED <<flow, pulled>>
    /\ UNCHANGED <<time, mQuit, owner, now, packets, bucket, stats, flows>>

\* The flow has no packet due, or has given three: it is the next one's turn.
FlowDone ==
    /\ thread = "pull" /\ ~Due
    /\ IF flow < Flows
         THEN /\ flow' = flow + 1 /\ pulled' = 0
              /\ UNCHANGED <<thread, bbinterface>>
         ELSE NextInterface /\ UNCHANGED <<flow, pulled>>
    /\ UNCHANGED <<time, mQuit, owner, now, packets, bucket, stats, flows>>

\* The rest of the round's packets is sent.
Flush ==
    /\ thread = "flush"
    /\ thread' = "loop"
    /\ IF packets # << >>
         THEN SendBatch(packets, mCounters) /\ packets' = << >>
         ELSE UNCHANGED <<packets, stats>>
    /\ UNCHANGED <<time, mQuit, owner, now, turn, bucket, flows>>

RunThread == StartRound \/ CheckTokenBucket \/ PullPacket \/ FlowDone \/ Flush
-----------------------------------------------------------------------------
(* The owner: start(), and stop() from the destructor *)

Start ==
    /\ owner = "created"
    /\ owner' = "started"
    /\ thread' = "loop"
    /\ UNCHANGED <<time, mQuit, now, turn, packets, bucket, stats, flows>>

Stop ==
    /\ owner = "started"
    /\ owner' = "joining"
    /\ mQuit' = TRUE
    /\ UNCHANGED <<time, thread, now, turn, packets, bucket, stats, flows>>

Join ==
    /\ owner = "joining" /\ thread = "left"
    /\ owner' = "joined"
    /\ UNCHANGED <<time, mQuit, thread, now, turn, packets, bucket, stats,
                   flows>>

Next == Tick \/ RunThread \/ Start \/ Stop \/ Join

Spec == Init /\ [][Next]_vars
-----------------------------------------------------------------------------
(* Properties *)

\* What one visit of an interface can take out of its bucket at most.
Overdraft == 3 * Flows * MaxSize

\* `no big bursts': what an interface has sent is bounded by its rate, 4 * Rate
\* bytes per unit of time, plus two bursts.  The second one is there because
\* time is only accounted for when the bucket is overdrawn, so that the first
\* refill is a full one; a visit may overdraw the bucket, but only once.
RateLimited ==
    \A i \in Interface :
        bytes[i] <= 2 * (MaxBucketSize + Overdraft)
                      + 4 * Rate * (time - StartOfClock)

\* `fairness': two flows of an interface with the same interval are never more
\* than one visit, three packets, apart, and level between two visits, however
\* late the thread is and however often the bucket is empty.
FlowsShareFairly ==
    \A i \in Interface : \A f, g \in Flow :
        Interval[f] = Interval[g] =>
            /\ count[i][f] <= count[i][g] + 3
            /\ ~(thread = "pull" /\ bbinterface = i) => count[i][f] = count[i][g]

\* The bytes counted by the socket and those of the batch are the bytes of the
\* packets counted by the thread since the last report: however batches, rounds
\* and reports fall together, no packet is left out of a report or reported twice.
Weight(counters) ==
    LET sum[f \in 0 .. Flows] ==
            IF f = 0 THEN 0 ELSE sum[f - 1] + Size[f] * counters[f]
    IN  sum[Flows]

StatsConsistent == mTxBytes + SizeOf(packets) = Weight(mCounters)
=============================================================================
