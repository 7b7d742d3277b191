----------------------------- MODULE TimedProofs -----------------------------
(* FrameBlasting limits the rate, is fair, and leaves nothing out of its    *)
(* reports, proved for any number of interfaces and flows, any sizes,       *)
(* intervals and rates, and any clock; Stream sends no frame too early,     *)
(* for any numbers of frames, any intervals and any settings of the clock;  *)
(* and Tetris is sound as long as operations do not overlap, for any field, *)
(* any blocks and any number of timers.                                     *)
EXTENDS MCTimed, RunningTotals, SequenceTheorems, FiniteSetTheorems, TLAPS

(***************************************************************************)
(* The inductive invariant.                                                *)
(***************************************************************************)

Typed ==
    /\ time \in Nat \ {0} /\ now \in Nat
    /\ thread \in {"none", "loop", "bucket", "pull", "flush", "left"}
    /\ owner = "created" => thread = "none"
    /\ bbinterface \in Interface /\ flow \in Flow /\ pulled \in 0 .. 3
    /\ mNextTransmission \in [Interface -> [Flow -> Nat]]
    /\ mBucketSize \in [Interface -> Int]
    /\ mLastUpdate \in [Interface -> Nat]
    /\ count \in [Interface -> [Flow -> Nat]]
    /\ bytes \in [Interface -> Nat]

\* The clock of the thread, and those of the buckets, lag behind the clock.
ClocksLag ==
    /\ StartOfClock <= time /\ now <= time
    /\ thread \in {"bucket", "pull", "flush"} => StartOfClock <= now
    /\ \A i \in Interface :
         mLastUpdate[i] # 0 =>
             StartOfClock <= mLastUpdate[i] /\ mLastUpdate[i] <= now

\* What n packets can weigh, and what t units of time grant.
Weighs(n) == n * MaxSize
Grants(t) == 4 * Rate * t

\* A visit begins with a bucket that is not overdrawn and takes three packets
\* of each flow at most.
OverdrawnOnce ==
    /\ \A i \in Interface : mBucketSize[i] >= -Weighs(3 * Flows)
    /\ thread = "pull" =>
           mBucketSize[bbinterface] >= -Weighs(3 * (flow - 1) + pulled)

\* What has been sent is what has been taken out of the bucket: the first
\* bucketful, and what the refills have granted up to the last of them.
Accounted ==
    \A i \in Interface :
        /\ mLastUpdate[i] = 0 => bytes[i] + mBucketSize[i] <= MaxBucketSize
        /\ mLastUpdate[i] # 0 =>
               bytes[i] + mBucketSize[i] <=
                   2 * MaxBucketSize + Weighs(3 * Flows)
                     + Grants(mLastUpdate[i]) - Grants(StartOfClock)

RateInv == Typed /\ ClocksLag /\ OverdrawnOnce /\ Accounted

(***************************************************************************)
(* Arithmetic, kept apart: the rest of the proofs is linear.               *)
(***************************************************************************)

LEMMA WeighsFacts ==
    /\ Weighs(0) = 0
    /\ \A n \in Nat : Weighs(n) \in Nat /\ Weighs(n + 1) = Weighs(n) + MaxSize
    /\ \A m, n \in Nat : m <= n => Weighs(m) <= Weighs(n)
<1> USE FrameBlastingAssumption DEF Weighs
<1>1. ASSUME NEW m \in Nat, NEW n \in Nat, m <= n
      PROVE  m * MaxSize <= n * MaxSize
  <2>1. n - m \in Nat /\ (n - m) * MaxSize \in Nat
    BY <1>1
  <2>2. n * MaxSize = m * MaxSize + (n - m) * MaxSize
    BY <1>1
  <2> QED
    BY <2>1, <2>2
<1> QED
  BY <1>1

LEMMA GrantsFacts ==
    /\ \A t \in Nat : Grants(t) \in Nat
    /\ \A s, t \in Nat : s <= t => Grants(s) <= Grants(t)
    /\ \A s, t \in Nat : 4 * (t - s) * Rate = Grants(t) - Grants(s)
    /\ \A s, t \in Nat : 4 * Rate * (t - s) = Grants(t) - Grants(s)
<1> USE FrameBlastingAssumption DEF Grants
<1>1. ASSUME NEW s \in Nat, NEW t \in Nat, s <= t
      PROVE  4 * Rate * s <= 4 * Rate * t
  <2>1. t - s \in Nat /\ Rate * (t - s) \in Nat
    BY <1>1
  <2>2. 4 * Rate * t = 4 * Rate * s + 4 * (Rate * (t - s))
    BY <1>1
  <2> QED
    BY <2>1, <2>2
<1>2. \A t \in Nat : 4 * Rate * t \in Nat
  OBVIOUS
<1>3. ASSUME NEW s \in Nat, NEW t \in Nat
      PROVE  /\ 4 * (t - s) * Rate = 4 * Rate * t - 4 * Rate * s
             /\ 4 * Rate * (t - s) = 4 * Rate * t - 4 * Rate * s
  OBVIOUS
<1> QED
  BY <1>1, <1>2, <1>3

\* What the constants are, without the intervals they are taken from.
LEMMA Constants ==
    /\ 1 \in Interface /\ 1 \in Flow
    /\ \A i \in Interface : i < Interfaces => i + 1 \in Interface
    /\ \A f \in Flow : f \in Nat \ {0} /\ f <= Flows
    /\ \A f \in Flow : f < Flows => f + 1 \in Flow
    /\ \A f \in Flow : /\ Size[f] \in Nat /\ Size[f] <= MaxSize
                       /\ Interval[f] \in Nat \ {0}
    /\ Flows \in Nat \ {0} /\ MaxSize \in Nat /\ Rate \in Nat
    /\ MaxBucketSize \in Nat /\ StartOfClock \in Nat \ {0}
BY FrameBlastingAssumption DEF Interface, Flow

(***************************************************************************)
(* Types.                                                                  *)
(***************************************************************************)

\* Init puts every interface in its type.
LEMMA TypedInit == Init => Typed
BY FrameBlastingAssumption DEF Init, Typed, Interface, Flow

LEMMA TypedStep == Typed /\ [Next]_vars => Typed'
<1> SUFFICES ASSUME Typed, [Next]_vars
             PROVE  Typed'
  OBVIOUS
<1> USE DEF Typed
<1>1. CASE Tick \/ Start \/ Stop \/ Join \/ UNCHANGED vars
  BY <1>1 DEF Tick, Start, Stop, Join, vars, turn, bucket, flows
<1>2. CASE StartRound
  BY <1>2, Constants DEF StartRound, bucket, flows
<1>3. CASE CheckTokenBucket
  <2>0. bbinterface \in Interface /\ now \in Nat /\ Rate \in Nat /\ MaxBucketSize \in Nat
    BY Constants
  <2> DEFINE filled == mBucketSize[bbinterface]
                         + 4 * (now - mLastUpdate[bbinterface]) * Rate
             new == IF filled < MaxBucketSize THEN filled ELSE MaxBucketSize
  <2>1. filled \in Int /\ new \in Int
    <3>1. mLastUpdate[bbinterface] \in Nat /\ mBucketSize[bbinterface] \in Int
      OBVIOUS
    <3>2. 4 * (now - mLastUpdate[bbinterface]) * Rate \in Int
      BY <2>0, <3>1
    <3> QED
      BY <2>0, <3>1, <3>2
  <2> HIDE DEF filled, new
  <2>2. /\ mBucketSize' \in [Interface -> Int]
        /\ mLastUpdate' \in [Interface -> Nat]
    BY <1>3, <2>1 DEF CheckTokenBucket, bucket, filled, new
  <2>3. /\ thread' \in {"bucket", "pull", "flush"}
        /\ bbinterface' \in Interface /\ flow' \in Flow /\ pulled' \in 0 .. 3
    BY <1>3, Constants DEF CheckTokenBucket, NextInterface
  <2> QED
    BY <1>3, <2>2, <2>3 DEF CheckTokenBucket, flows
<1>4. CASE PullPacket
  <2>1. /\ Interval[flow] \in Nat /\ Size[flow] \in Nat
        /\ mNextTransmission[bbinterface][flow] \in Nat
        /\ count[bbinterface][flow] \in Nat
    BY Constants
  <2>2. /\ mNextTransmission' \in [Interface -> [Flow -> Nat]]
        /\ count' \in [Interface -> [Flow -> Nat]]
    BY <1>4, <2>1 DEF PullPacket
  <2>3. bytes' \in [Interface -> Nat] /\ mBucketSize' \in [Interface -> Int]
    <3>1. /\ bytes' = [bytes EXCEPT ![bbinterface] = @ + Size[flow]]
          /\ mBucketSize' = [mBucketSize EXCEPT ![bbinterface] = @ - Size[flow]]
      BY <1>4 DEF PullPacket
    <3> QED
      BY <2>1, <3>1
  <2>4. pulled' \in 0 .. 3
    BY <1>4 DEF PullPacket, Due
  <2> QED
    BY <1>4, <2>2, <2>3, <2>4 DEF PullPacket
<1>5. CASE FlowDone
  BY <1>5, Constants DEF FlowDone, NextInterface, bucket, flows
<1>6. CASE Flush
  BY <1>6 DEF Flush, turn, bucket, flows
<1> QED
  BY <1>1, <1>2, <1>3, <1>4, <1>5, <1>6 DEF Next, RunThread

(***************************************************************************)
(* The rate.                                                               *)
(***************************************************************************)

LEMMA RateInit == Init => RateInv
<1> SUFFICES ASSUME Init
             PROVE  RateInv
  OBVIOUS
<1>0. 3 * Flows \in Nat
  BY Constants
<1>1. Weighs(3 * Flows) \in Nat
  BY <1>0, WeighsFacts
<1> QED
  BY <1>1, TypedInit, FrameBlastingAssumption
  DEF Init, RateInv, ClocksLag, OverdrawnOnce, Accounted

\* The round's clock is read once, between those of the last round and of the
\* next; a bucket takes it over.
LEMMA ClockStep == Typed /\ ClocksLag /\ [Next]_vars => ClocksLag'
<1> SUFFICES ASSUME Typed, ClocksLag, [Next]_vars
             PROVE  ClocksLag'
  OBVIOUS
<1> USE DEF Typed, ClocksLag
<1>0. CASE Tick
  <2>1. time' = time + 1 /\ UNCHANGED <<now, thread, mLastUpdate>>
    BY <1>0 DEF Tick, bucket
  <2> QED
    BY <2>1, Constants
<1>1. CASE Start \/ Stop \/ Join \/ UNCHANGED vars
  BY <1>1 DEF Start, Stop, Join, vars, turn, bucket, flows
<1>2. CASE StartRound
  BY <1>2, Constants DEF StartRound, bucket, flows
<1>3. CASE CheckTokenBucket
  <2>1. /\ time' = time /\ now' = now /\ thread = "bucket"
        /\ mLastUpdate' = mLastUpdate
           \/ mLastUpdate' = [mLastUpdate EXCEPT ![bbinterface] = now]
    BY <1>3 DEF CheckTokenBucket, bucket
  <2> QED
    BY <2>1
<1>4. CASE PullPacket
  BY <1>4 DEF PullPacket
<1>5. CASE FlowDone
  BY <1>5, Constants DEF FlowDone, NextInterface, bucket, flows
<1>6. CASE Flush
  BY <1>6 DEF Flush, turn, bucket, flows
<1> QED
  BY <1>0, <1>1, <1>2, <1>3, <1>4, <1>5, <1>6 DEF Next, RunThread

\* Whoever takes packets out has been let in with a bucket of 0 or more.
LEMMA OverdrawnStep ==
    Typed /\ OverdrawnOnce /\ [Next]_vars => OverdrawnOnce'
<1> SUFFICES ASSUME Typed, OverdrawnOnce, [Next]_vars
             PROVE  OverdrawnOnce'
  OBVIOUS
<1> USE DEF Typed, OverdrawnOnce
<1>0. 3 * Flows \in Nat /\ Weighs(3 * Flows) \in Nat /\ Weighs(0) = 0
  BY Constants, WeighsFacts
<1>1. CASE Tick \/ Start \/ Stop \/ Join \/ UNCHANGED vars
  BY <1>1 DEF Tick, Start, Stop, Join, vars, turn, bucket, flows
<1>2. CASE StartRound
  BY <1>2, Constants DEF StartRound, bucket, flows
<1>3. CASE CheckTokenBucket
  <2>1. \/ mBucketSize' = mBucketSize
        \/ \E new \in Int : /\ new >= 0
                            /\ mBucketSize' = [mBucketSize EXCEPT ![bbinterface] = new]
    <3> DEFINE filled == mBucketSize[bbinterface]
                           + 4 * (now - mLastUpdate[bbinterface]) * Rate
               new == IF filled < MaxBucketSize THEN filled ELSE MaxBucketSize
    <3>0. now \in Nat /\ Rate \in Nat /\ MaxBucketSize \in Nat
          /\ mLastUpdate[bbinterface] \in Nat /\ mBucketSize[bbinterface] \in Int
      BY Constants
    <3>1. filled \in Int /\ new \in Int
      BY <3>0
    <3> HIDE DEF filled, new
    <3> QED
      BY <1>3, <3>1 DEF CheckTokenBucket, bucket, filled, new
  <2>2. \A i \in Interface : mBucketSize'[i] >= -Weighs(3 * Flows)
    BY <1>0, <2>1
  <2>3. thread' = "pull" =>
          /\ bbinterface' = bbinterface /\ flow' = 1 /\ pulled' = 0
          /\ mBucketSize'[bbinterface] >= 0
    BY <1>3 DEF CheckTokenBucket, NextInterface
  <2>4. 3 * (1 - 1) + 0 = 0
    OBVIOUS
  <2> QED
    BY <1>0, <2>2, <2>3, <2>4
<1>4. CASE PullPacket
  <2> DEFINE n == 3 * (flow - 1) + pulled
  <2>1. n \in Nat /\ n + 1 \in Nat /\ n + 1 <= 3 * Flows
    <3>1. flow \in Nat \ {0} /\ flow <= Flows /\ Flows \in Nat
      BY Constants
    <3>2. pulled \in 0 .. 2
      BY <1>4 DEF PullPacket, Due
    <3> QED
      BY <3>1, <3>2
  <2>2. /\ Weighs(n + 1) = Weighs(n) + MaxSize /\ Weighs(n) \in Nat
        /\ Weighs(n + 1) <= Weighs(3 * Flows)
    BY <1>0, <2>1, WeighsFacts
  <2>3. Size[flow] <= MaxSize /\ Size[flow] \in Nat /\ MaxSize \in Nat
    BY Constants
  <2>4. /\ mBucketSize' = [mBucketSize EXCEPT ![bbinterface] = @ - Size[flow]]
        /\ thread = "pull" /\ UNCHANGED <<thread, bbinterface, flow>>
        /\ pulled' = pulled + 1
    BY <1>4 DEF PullPacket
  <2>5. mBucketSize[bbinterface] >= -Weighs(n)
    BY <2>4
  <2>6. 3 * (flow' - 1) + pulled' = n + 1
    <3>1. flow \in Nat /\ pulled \in Nat
      BY Constants
    <3>2. flow' = flow /\ pulled' = pulled + 1
      BY <2>4
    <3> QED
      BY <3>1, <3>2
  <2> HIDE DEF n
  <2>7. mBucketSize'[bbinterface] >= -Weighs(n + 1)
    BY <2>2, <2>3, <2>4, <2>5
  <2>8. \A i \in Interface : mBucketSize'[i] >= -Weighs(3 * Flows)
    <3>1. -Weighs(n + 1) >= -Weighs(3 * Flows)
      BY <1>0, <2>2, <2>3
    <3>2. mBucketSize'[bbinterface] >= -Weighs(3 * Flows)
          /\ mBucketSize'[bbinterface] \in Int
      BY <1>0, <2>2, <2>3, <2>4, <2>7, <3>1
    <3>3. \A i \in Interface : i # bbinterface => mBucketSize'[i] = mBucketSize[i]
      BY <2>4
    <3> QED
      BY <3>2, <3>3
  <2> QED
    BY <2>4, <2>6, <2>7, <2>8
<1>5. CASE FlowDone
  <2>1. mBucketSize' = mBucketSize
    BY <1>5 DEF FlowDone, bucket
  <2>2. CASE flow < Flows
    <3>1. /\ thread = "pull" /\ UNCHANGED <<thread, bbinterface>>
          /\ flow' = flow + 1 /\ pulled' = 0
      BY <1>5, <2>2 DEF FlowDone
    <3>2. 3 * (flow' - 1) + pulled' = 3 * flow
          /\ 3 * (flow - 1) + pulled <= 3 * flow
          /\ 3 * (flow - 1) + pulled \in Nat /\ 3 * flow \in Nat
      <4>1. flow \in Nat \ {0} /\ pulled \in 0 .. 3
        BY Constants
      <4>2. flow' = flow + 1 /\ pulled' = 0
        BY <3>1
      <4> QED
        BY <4>1, <4>2
    <3>3. /\ Weighs(3 * (flow - 1) + pulled) <= Weighs(3 * flow)
          /\ Weighs(3 * (flow - 1) + pulled) \in Nat /\ Weighs(3 * flow) \in Nat
      BY <3>2, WeighsFacts
    <3> QED
      BY <2>1, <3>1, <3>2, <3>3
  <2>3. CASE ~(flow < Flows)
    <3>1. thread' # "pull"
      BY <1>5, <2>3 DEF FlowDone, NextInterface
    <3> QED
      BY <2>1, <3>1
  <2> QED
    BY <2>2, <2>3
<1>6. CASE Flush
  BY <1>6 DEF Flush, turn, bucket, flows
<1> QED
  BY <1>1, <1>2, <1>3, <1>4, <1>5, <1>6 DEF Next, RunThread

\* Packets move bytes from the bucket to what has been sent; the first refill
\* fills the bucket at most, and every other one grants what the time since
\* the refill before it is worth, at most.
LEMMA AccountStep == RateInv /\ [Next]_vars => Accounted'
<1> SUFFICES ASSUME Typed, ClocksLag, OverdrawnOnce, Accounted, [Next]_vars
             PROVE  Accounted'
  BY DEF RateInv
<1> USE DEF Typed, Accounted
<1>1. CASE UNCHANGED <<mLastUpdate, bytes, mBucketSize>>
  BY <1>1
<1>2. CASE CheckTokenBucket
  <2> DEFINE i == bbinterface
             last == mLastUpdate[i]
             filled == mBucketSize[i] + 4 * (now - last) * Rate
             new == IF filled < MaxBucketSize THEN filled ELSE MaxBucketSize
             limit == 2 * MaxBucketSize + Weighs(3 * Flows)
  <2>0. /\ i \in Interface /\ now \in Nat /\ now # 0 /\ last \in Nat
        /\ mBucketSize[i] \in Int /\ bytes[i] \in Nat
        /\ StartOfClock \in Nat /\ StartOfClock <= now
        /\ MaxBucketSize \in Nat
    BY <1>2, Constants DEF CheckTokenBucket, ClocksLag
  <2>1. 3 * Flows \in Nat
    BY Constants
  <2>2. Weighs(3 * Flows) \in Nat /\ limit \in Nat
    <3>1. Weighs(3 * Flows) \in Nat
      BY <2>1, WeighsFacts
    <3> HIDE DEF Typed, Accounted, i, last, filled, new
    <3> QED
      BY <2>0, <3>1
  <2>3. /\ Grants(now) \in Nat /\ Grants(last) \in Nat
        /\ Grants(StartOfClock) \in Nat /\ Grants(StartOfClock) <= Grants(now)
        /\ 4 * (now - last) * Rate = Grants(now) - Grants(last)
    BY <2>0, GrantsFacts
  <2>4. filled = mBucketSize[i] + Grants(now) - Grants(last) /\ filled \in Int
    BY <2>0, <2>3
  <2> HIDE DEF filled
  <2>5. new \in Int /\ new <= MaxBucketSize /\ new <= filled
    BY <2>0, <2>4
  <2>6. UNCHANGED bytes
    BY <1>2 DEF CheckTokenBucket, flows
  <2>7. \/ UNCHANGED <<mBucketSize, mLastUpdate>>
        \/ /\ mBucketSize' = [mBucketSize EXCEPT ![i] = new]
           /\ mLastUpdate' = [mLastUpdate EXCEPT ![i] = now]
    BY <1>2 DEF CheckTokenBucket, bucket, filled
  <2> HIDE DEF new, i, last
  <2>8. bytes[i] + new <= limit + Grants(now) - Grants(StartOfClock)
    <3>1. CASE last = 0
      <4>1. bytes[i] + mBucketSize[i] <= MaxBucketSize
        BY <2>0, <3>1 DEF i, last
      <4>2. mBucketSize[i] >= -Weighs(3 * Flows)
        BY <2>0 DEF OverdrawnOnce
      <4> QED
        BY <2>0, <2>2, <2>3, <2>5, <4>1, <4>2
    <3>2. CASE last # 0
      <4>1. bytes[i] + mBucketSize[i] <=
              limit + Grants(last) - Grants(StartOfClock)
        BY <2>0, <3>2 DEF i, last
      <4> QED
        BY <2>0, <2>2, <2>3, <2>4, <2>5, <4>1
    <3> QED
      BY <3>1, <3>2
  <2>9. CASE /\ mBucketSize' = [mBucketSize EXCEPT ![i] = new]
             /\ mLastUpdate' = [mLastUpdate EXCEPT ![i] = now]
    <3>1. /\ mBucketSize'[i] = new /\ mLastUpdate'[i] = now
          /\ \A j \in Interface : j # i =>
                mBucketSize'[j] = mBucketSize[j] /\ mLastUpdate'[j] = mLastUpdate[j]
      BY <2>0, <2>9
    <3> QED
      BY <2>0, <2>6, <2>8, <3>1
  <2> QED
    BY <1>1, <2>6, <2>7, <2>9
<1>3. CASE PullPacket
  <2>1. /\ bytes' = [bytes EXCEPT ![bbinterface] = @ + Size[flow]]
        /\ mBucketSize' = [mBucketSize EXCEPT ![bbinterface] = @ - Size[flow]]
        /\ UNCHANGED mLastUpdate
    BY <1>3 DEF PullPacket
  <2>2. Size[flow] \in Nat
    BY Constants
  <2>3. \A i \in Interface : bytes'[i] + mBucketSize'[i] = bytes[i] + mBucketSize[i]
    BY <2>1, <2>2
  <2> QED
    BY <2>1, <2>3
<1> QED
  BY <1>1, <1>2, <1>3
  DEF Next, RunThread, Tick, StartRound, FlowDone, Flush, Start, Stop, Join,
      vars, bucket, flows

LEMMA RateInvariant == Spec => []RateInv
<1>1. RateInv /\ [Next]_vars => RateInv'
  BY TypedStep, ClockStep, OverdrawnStep, AccountStep DEF RateInv
<1> QED
  BY RateInit, <1>1, PTL DEF Spec

\* No interface sends more than its rate and two bursts allow.
THEOREM AlwaysRateLimited == Spec => []RateLimited
<1>1. ASSUME RateInv, NEW i \in Interface
      PROVE  bytes[i] <= 2 * (MaxBucketSize + Overdraft)
                           + 4 * Rate * (time - StartOfClock)
  <2> DEFINE last == mLastUpdate[i]
  <2>1. /\ bytes[i] \in Nat /\ mBucketSize[i] \in Int /\ last \in Nat
        /\ time \in Nat /\ MaxBucketSize \in Nat /\ StartOfClock \in Nat
        /\ StartOfClock <= time /\ now \in Nat /\ now <= time
        /\ last # 0 => last <= now
    BY <1>1, Constants DEF RateInv, Typed, ClocksLag
  <2>2. Overdraft = Weighs(3 * Flows) /\ 3 * Flows \in Nat
    BY Constants DEF Overdraft, Weighs
  <2>3. Overdraft \in Nat /\ mBucketSize[i] >= -Overdraft
    BY <1>1, <2>2, WeighsFacts DEF RateInv, OverdrawnOnce
  <2>4. /\ 4 * Rate * (time - StartOfClock) = Grants(time) - Grants(StartOfClock)
        /\ Grants(time) \in Nat /\ Grants(StartOfClock) \in Nat
        /\ Grants(StartOfClock) <= Grants(time)
    BY <2>1, GrantsFacts
  <2> HIDE DEF last
  <2>5. CASE last = 0
    <3>1. bytes[i] + mBucketSize[i] <= MaxBucketSize
      BY <1>1, <2>5 DEF RateInv, Accounted, last
    <3> QED
      BY <2>1, <2>3, <2>4, <3>1
  <2>6. CASE last # 0
    <3>1. bytes[i] + mBucketSize[i] <= 2 * MaxBucketSize + Overdraft
            + Grants(last) - Grants(StartOfClock)
      BY <1>1, <2>2, <2>6 DEF RateInv, Accounted, last
    <3>2. Grants(last) \in Nat /\ Grants(last) <= Grants(time)
      <4>1. last \in Nat /\ time \in Nat /\ last <= time
        BY <2>1, <2>6
      <4> QED
        BY <4>1, GrantsFacts
    <3> QED
      BY <2>1, <2>3, <2>4, <3>1, <3>2
  <2> QED
    BY <2>5, <2>6
<1>2. RateInv => RateLimited
  BY <1>1 DEF RateLimited
<1> QED
  BY RateInvariant, <1>2, PTL

(***************************************************************************)
(* The flows' shares.                                                      *)
(***************************************************************************)

\* What k packets more are worth in time.
Takes(k, interval) == k * interval

LEMMA TakesFacts ==
    ASSUME NEW interval \in Nat \ {0}
    PROVE  /\ Takes(0, interval) = 0
           /\ \A k \in Nat : /\ Takes(k, interval) \in Nat
                            /\ Takes(k + 1, interval) = Takes(k, interval) + interval
BY DEF Takes

Level(i, f, g) ==
    /\ count[i][f] = count[i][g]
    /\ mNextTransmission[i][f] = mNextTransmission[i][g]

\* Flow f has been given k packets more than g.
Ahead(i, f, g, k) ==
    /\ count[i][f] = count[i][g] + k
    /\ mNextTransmission[i][f] = mNextTransmission[i][g] + Takes(k, Interval[g])

\* What flow g has been given in this visit, if its turn is not over.
Given(g) == IF g = flow THEN pulled ELSE 0

\* The last packet of flow f was due.
WasDue(f) == mNextTransmission[bbinterface][f] - Interval[f] <= now

\* During a visit, for two flows with the same interval: they are level when
\* both have had their turn, or neither has; one that has had it got three
\* packets, or all that were due; and so far the other has not got more.
Share(f, g) ==
    LET i == bbinterface IN
    /\ f < flow /\ g < flow => Level(i, f, g)
    /\ f > flow /\ g > flow => Level(i, f, g)
    /\ f < flow /\ g >= flow =>
         \E k \in 0 .. 3 :
            /\ Given(g) + k <= 3
            /\ Ahead(i, f, g, k)
            /\ Given(g) + k = 3 \/ now < mNextTransmission[i][f]
            /\ Given(g) + k > 0 => WasDue(f)
    /\ f = flow /\ g > flow =>
         /\ Ahead(i, f, g, pulled)
         /\ pulled > 0 => WasDue(f)

Shares ==
    \A i \in Interface : \A f, g \in Flow :
        Interval[f] = Interval[g] =>
            IF thread = "pull" /\ i = bbinterface THEN Share(f, g)
                                                 ELSE Level(i, f, g)

LEMMA SharesInit == Init => Shares
BY DEF Init, Shares, Level

\* Nobody is ahead by no packets.
LEMMA AheadByNone ==
    ASSUME Typed, NEW i \in Interface, NEW f \in Flow, NEW g \in Flow
    PROVE  /\ Ahead(i, f, g, 0) <=> Level(i, f, g)
           /\ Level(i, f, g) => Level(i, g, f)
           /\ Level(i, f, f)
<1>1. Interval[g] \in Nat \ {0}
  BY Constants
<1>2. Takes(0, Interval[g]) = 0
  BY <1>1, TakesFacts
<1>3. count[i][g] \in Nat /\ mNextTransmission[i][g] \in Nat
  BY DEF Typed
<1> QED
  BY <1>2, <1>3 DEF Ahead, Level

\* When flow g is done, a flow that has had its turn is level with it.
LEMMA TurnOver ==
    ASSUME Typed, thread = "pull", ~Due, NEW f \in Flow, NEW g \in Flow,
           Interval[f] = Interval[g], Share(f, g), f < flow, g = flow
    PROVE  Level(bbinterface, f, g)
<1> DEFINE i == bbinterface
           I == Interval[g]
           next(e) == mNextTransmission[i][e]
<1>1. /\ i \in Interface /\ I \in Nat \ {0} /\ now \in Nat /\ pulled \in 0 .. 3
      /\ next(f) \in Nat /\ next(g) \in Nat /\ Interval[f] = I
  BY Constants DEF Typed
<1>2. PICK k \in 0 .. 3 :
         /\ pulled + k <= 3
         /\ Ahead(i, f, g, k)
         /\ pulled + k > 0 => next(f) - I <= now
  <2>1. Given(g) = pulled /\ g >= flow
    BY Constants DEF Given
  <2> QED
    BY <1>1, <2>1 DEF Share, WasDue
<1>3. pulled = 3 \/ now < next(g)
  BY <1>1 DEF Due
<1>4. k = 0
  <2>1. ASSUME k > 0
        PROVE  FALSE
    <3>1. k - 1 \in Nat /\ (k - 1) + 1 = k
      BY <2>1
    <3>2. Takes(k, I) = Takes(k - 1, I) + I /\ Takes(k - 1, I) \in Nat
      BY <1>1, <3>1, TakesFacts
    <3>3. next(f) = next(g) + Takes(k, I)
      BY <1>2 DEF Ahead
    <3> QED
      BY <1>1, <1>2, <1>3, <2>1, <3>2, <3>3
  <2> QED
    BY <2>1
<1> QED
  BY <1>1, <1>2, <1>4, AheadByNone

\* A packet for the flow whose turn it is.
LEMMA PullShare ==
    ASSUME Typed, PullPacket, NEW f \in Flow, NEW g \in Flow,
           Interval[f] = Interval[g], Share(f, g)
    PROVE  Share(f, g)'
<1> DEFINE i == bbinterface
           I == Interval[g]
           next(e) == mNextTransmission[i][e]
<1>1. /\ i \in Interface /\ now \in Nat /\ flow \in Flow
      /\ I \in Nat \ {0} /\ Interval[f] = I
      /\ pulled \in 0 .. 2 /\ now >= next(flow)
      /\ \A e \in Flow : next(e) \in Nat /\ count[i][e] \in Nat /\ e \in Nat
  <2>1. \A e \in Flow : next(e) \in Nat /\ count[i][e] \in Nat /\ e \in Nat
    BY Constants DEF Typed
  <2>2. pulled \in 0 .. 2 /\ now >= next(flow)
    BY DEF PullPacket, Due, Typed
  <2>3. I \in Nat \ {0} /\ Interval[f] = I
    BY Constants
  <2> QED
    BY <2>1, <2>2, <2>3 DEF Typed
<1>2. UNCHANGED <<bbinterface, flow, now>> /\ pulled' = pulled + 1
  BY DEF PullPacket
<1>3. /\ mNextTransmission'[i][flow] = next(flow) + Interval[flow]
      /\ count'[i][flow] = count[i][flow] + 1
      /\ \A e \in Flow : e # flow =>
           /\ mNextTransmission'[i][e] = next(e)
           /\ count'[i][e] = count[i][e]
  BY <1>1 DEF PullPacket, Typed
<1>4. ASSUME (f < flow /\ g < flow) \/ (f > flow /\ g > flow)
      PROVE  Level(i, f, g)'
  <2>1. Level(i, f, g) /\ f # flow /\ g # flow
    BY <1>1, <1>4 DEF Share
  <2> QED
    BY <1>2, <1>3, <2>1 DEF Level
<1>5. ASSUME f < flow, g > flow
      PROVE  Share(f, g)'
  <2>1. f # flow /\ g # flow /\ Given(g) = 0 /\ Given(g)' = 0
    BY <1>1, <1>2, <1>5 DEF Given
  <2>2. PICK k \in 0 .. 3 :
           /\ Ahead(i, f, g, k)
           /\ k = 3 \/ now < next(f)
           /\ k > 0 => next(f) - Interval[f] <= now
    BY <1>1, <1>5, <2>1 DEF Share, WasDue
  <2>3. Ahead(i, f, g, k)' /\ mNextTransmission'[i][f] = next(f)
    BY <1>2, <1>3, <2>1, <2>2 DEF Ahead
  <2> QED
    BY <1>1, <1>2, <1>5, <2>1, <2>2, <2>3 DEF Share, WasDue
<1>6. ASSUME f < flow, g = flow
      PROVE  Share(f, g)'
  <2>1. f # flow /\ Given(g) = pulled /\ Given(g)' = pulled + 1
    BY <1>1, <1>2, <1>6 DEF Given
  <2>2. PICK k \in 0 .. 3 :
           /\ pulled + k <= 3
           /\ Ahead(i, f, g, k)
           /\ pulled + k = 3 \/ now < next(f)
           /\ pulled + k > 0 => next(f) - I <= now
    BY <1>1, <1>6, <2>1 DEF Share, WasDue
  <2>3. k # 0
    <3>1. ASSUME k = 0
          PROVE  FALSE
      <4>1. next(f) = next(g)
        BY <1>1, <2>2, <3>1, AheadByNone DEF Level
      <4> QED
        BY <1>1, <1>6, <2>2, <3>1, <4>1
    <3> QED
      BY <3>1
  <2>4. k - 1 \in 0 .. 3 /\ (k - 1) + 1 = k
    BY <2>3
  <2>5. Takes(k, I) = Takes(k - 1, I) + I /\ Takes(k - 1, I) \in Nat
    <3>1. \A n \in Nat : Takes(n + 1, I) = Takes(n, I) + I /\ Takes(n, I) \in Nat
      BY <1>1, TakesFacts
    <3>2. k - 1 \in Nat
      BY <2>4
    <3> QED
      BY <2>4, <3>1, <3>2
  <2>6. Ahead(i, f, g, k - 1)'
    <3>1. count[i][f] = count[i][g] + k /\ next(f) = next(g) + Takes(k, I)
      BY <2>2 DEF Ahead
    <3>2. /\ count'[i][f] = count[i][f] /\ count'[i][g] = count[i][g] + 1
          /\ mNextTransmission'[i][f] = next(f)
          /\ mNextTransmission'[i][g] = next(g) + I
      BY <1>3, <1>6, <2>1
    <3>3. /\ count'[i][f] = count'[i][g] + (k - 1)
          /\ mNextTransmission'[i][f]
                = mNextTransmission'[i][g] + Takes(k - 1, I)
      BY <1>1, <2>5, <3>1, <3>2
    <3> QED
      BY <1>2, <3>3 DEF Ahead
  <2>7. /\ Given(g)' + (k - 1) = pulled + k
        /\ mNextTransmission'[i][f] = next(f)
    BY <1>1, <1>3, <2>1
  <2>8. /\ Given(g)' + (k - 1) <= 3
        /\ Given(g)' + (k - 1) = 3 \/ now' < mNextTransmission'[bbinterface'][f]
        /\ Given(g)' + (k - 1) > 0 => WasDue(f)'
    BY <1>1, <1>2, <2>2, <2>7 DEF WasDue
  <2> QED
    BY <1>1, <1>2, <1>6, <2>4, <2>6, <2>8 DEF Share
<1>7. ASSUME f = flow, g > flow
      PROVE  Share(f, g)'
  <2>1. Ahead(i, f, g, pulled) /\ g # flow
    BY <1>1, <1>7 DEF Share
  <2>2. /\ Takes(pulled + 1, I) = Takes(pulled, I) + I
        /\ Takes(pulled, I) \in Nat
    <3>1. \A n \in Nat : Takes(n + 1, I) = Takes(n, I) + I /\ Takes(n, I) \in Nat
      BY <1>1, TakesFacts
    <3> QED
      BY <1>1, <3>1
  <2>3. Ahead(i, f, g, pulled)'
    <3>1. count[i][f] = count[i][g] + pulled /\ next(f) = next(g) + Takes(pulled, I)
      BY <2>1 DEF Ahead
    <3>2. /\ count'[i][g] = count[i][g] /\ count'[i][f] = count[i][f] + 1
          /\ mNextTransmission'[i][g] = next(g)
          /\ mNextTransmission'[i][f] = next(f) + I
      BY <1>1, <1>3, <1>7, <2>1
    <3>3. /\ count'[i][f] = count'[i][g] + (pulled + 1)
          /\ mNextTransmission'[i][f]
                = mNextTransmission'[i][g] + Takes(pulled + 1, I)
      BY <1>1, <2>2, <3>1, <3>2
    <3> QED
      BY <1>2, <3>3 DEF Ahead
  <2>4. WasDue(f)'
    BY <1>1, <1>2, <1>3, <1>7 DEF WasDue
  <2> QED
    BY <1>1, <1>2, <1>7, <2>3, <2>4 DEF Share
<1>8. ASSUME f >= flow, ~(g > flow)
      PROVE  Share(f, g)'
  BY <1>1, <1>2, <1>8 DEF Share
<1> QED
  BY <1>1, <1>2, <1>4, <1>5, <1>6, <1>7, <1>8 DEF Share

\* The turn passes to the next flow.
LEMMA PassShare ==
    ASSUME Typed, FlowDone, flow < Flows, NEW f \in Flow, NEW g \in Flow,
           Interval[f] = Interval[g], Share(f, g), Share(g, f)
    PROVE  Share(f, g)'
<1> DEFINE i == bbinterface
           next(e) == mNextTransmission[i][e]
<1>1. /\ i \in Interface /\ f \in Nat /\ g \in Nat /\ flow \in Nat
      /\ pulled \in 0 .. 3 /\ thread = "pull" /\ ~Due
      /\ next(f) \in Nat /\ now \in Nat
  BY Constants DEF FlowDone, Typed
<1>2. /\ flow' = flow + 1 /\ pulled' = 0
      /\ UNCHANGED <<bbinterface, now, count, mNextTransmission>>
  BY DEF FlowDone, flows
<1>3. ASSUME f < flow + 1, g < flow + 1
      PROVE  Level(i, f, g)
  <2>1. CASE f < flow /\ g < flow
    BY <2>1 DEF Share
  <2>2. CASE f < flow /\ g = flow
    BY <1>1, <2>2, TurnOver
  <2>3. CASE f = flow /\ g < flow
    BY <1>1, <2>3, TurnOver, AheadByNone
  <2>4. CASE f = flow /\ g = flow
    BY <1>1, <2>4, AheadByNone
  <2> QED
    BY <1>1, <1>3, <2>1, <2>2, <2>3, <2>4
<1>4. ASSUME f > flow, g > flow
      PROVE  Level(i, f, g)
  BY <1>4 DEF Share
<1>5. ASSUME f < flow + 1, g >= flow + 1
      PROVE  Share(f, g)'
  <2>1. Given(g)' = 0 /\ g # flow /\ Given(g) = 0
    BY <1>1, <1>2, <1>5 DEF Given
  <2>2. \E k \in 0 .. 3 :
           /\ Ahead(i, f, g, k)
           /\ k = 3 \/ now < next(f)
           /\ k > 0 => WasDue(f)
    <3>1. CASE f < flow
      BY <1>1, <1>5, <2>1, <3>1 DEF Share
    <3>2. CASE f = flow
      <4>1. Ahead(i, f, g, pulled) /\ (pulled > 0 => WasDue(f))
        BY <1>1, <1>5, <3>2 DEF Share
      <4>2. pulled = 3 \/ now < next(f)
        BY <1>1, <3>2 DEF Due
      <4> QED
        BY <1>1, <4>1, <4>2
    <3> QED
      BY <1>1, <1>5, <3>1, <3>2
  <2>3. PICK k \in 0 .. 3 :
           /\ Ahead(i, f, g, k)
           /\ k = 3 \/ now < next(f)
           /\ k > 0 => WasDue(f)
    BY <2>2
  <2>4. Ahead(i, f, g, k)' /\ WasDue(f)' = WasDue(f)
    BY <1>2, <2>3 DEF Ahead, WasDue
  <2> QED
    BY <1>1, <1>2, <1>5, <2>1, <2>3, <2>4 DEF Share
<1>6. Level(i, f, g) => Level(i, f, g)' /\ Ahead(i, f, g, 0)'
  <2>1. Level(i, f, g) => Ahead(i, f, g, 0)
    BY <1>1, AheadByNone
  <2> QED
    BY <1>2, <2>1 DEF Level, Ahead
<1>7. CASE f < flow + 1 /\ g < flow + 1
  BY <1>1, <1>2, <1>3, <1>6, <1>7 DEF Share
<1>8. CASE f > flow + 1 /\ g > flow + 1
  BY <1>1, <1>2, <1>4, <1>6, <1>8 DEF Share
<1>9. CASE f = flow + 1 /\ g > flow + 1
  <2>1. Ahead(i, f, g, pulled)'
    BY <1>1, <1>2, <1>4, <1>6, <1>9
  <2> QED
    BY <1>1, <1>2, <1>9, <2>1 DEF Share
<1>10. CASE f >= flow + 1 /\ g <= flow + 1
  BY <1>1, <1>2, <1>10 DEF Share
<1> QED
  BY <1>1, <1>5, <1>7, <1>8, <1>9, <1>10

\* The visit ends.
LEMMA EndShare ==
    ASSUME Typed, FlowDone, ~(flow < Flows), NEW f \in Flow, NEW g \in Flow,
           Interval[f] = Interval[g], Share(f, g), Share(g, f)
    PROVE  Level(bbinterface, f, g)
<1>1. /\ f \in Nat /\ g \in Nat /\ flow \in Nat /\ f <= flow /\ g <= flow
      /\ thread = "pull" /\ ~Due /\ bbinterface \in Interface
  BY Constants DEF FlowDone, Typed
<1>2. CASE f < flow /\ g < flow
  BY <1>2 DEF Share
<1>3. CASE f < flow /\ g = flow
  BY <1>1, <1>3, TurnOver
<1>4. CASE f = flow /\ g < flow
  BY <1>1, <1>4, TurnOver, AheadByNone
<1>5. CASE f = flow /\ g = flow
  BY <1>1, <1>5, AheadByNone
<1> QED
  BY <1>1, <1>2, <1>3, <1>4, <1>5

\* Every step keeps the shares.
LEMMA SharesStep == Typed /\ Shares /\ [Next]_vars => Shares'
<1> SUFFICES ASSUME Typed, Shares, [Next]_vars,
                    NEW i \in Interface, NEW f \in Flow, NEW g \in Flow,
                    Interval[f] = Interval[g]
             PROVE  IF thread' = "pull" /\ i = bbinterface'
                      THEN Share(f, g)' ELSE Level(i, f, g)'
  BY DEF Shares
<1>0. /\ thread = "pull" /\ i = bbinterface => Share(f, g) /\ Share(g, f)
      /\ ~(thread = "pull" /\ i = bbinterface) => Level(i, f, g)
      /\ Interval[g] = Interval[f]
  BY DEF Shares
<1>1. CASE Tick \/ Start \/ Stop \/ Join \/ UNCHANGED vars
  <2>1. UNCHANGED <<now, turn, flows>> /\ (thread' = thread \/ thread' = "loop")
        /\ (thread' = thread \/ thread = "none")
    BY <1>1 DEF Tick, Start, Stop, Join, vars, Typed
  <2>2. CASE thread' = thread
    <3>1. Share(f, g)' = Share(f, g) /\ Level(i, f, g)' = Level(i, f, g)
      BY <2>1, <2>2
      DEF Share, Level, Ahead, Given, WasDue, turn, flows
    <3> QED
      BY <1>0, <2>1, <2>2, <3>1 DEF turn
  <2>3. CASE thread' # thread
    <3>1. thread # "pull" /\ thread' # "pull"
      BY <2>1, <2>3
    <3>2. Level(i, f, g)' = Level(i, f, g)
      BY <2>1 DEF Level, flows
    <3> QED
      BY <1>0, <3>1, <3>2
  <2> QED
    BY <2>2, <2>3
<1>2. CASE StartRound \/ Flush
  <2>1. thread # "pull" /\ thread' # "pull" /\ UNCHANGED flows
    BY <1>2 DEF StartRound, Flush
  <2> QED
    BY <1>0, <2>1 DEF Level, flows
<1>3. CASE CheckTokenBucket
  <2>1. /\ thread # "pull" /\ UNCHANGED flows
        /\ thread' = "pull" => flow' = 1 /\ pulled' = 0 /\ bbinterface' = bbinterface
    BY <1>3 DEF CheckTokenBucket, NextInterface
  <2>2. Level(i, f, g) /\ Ahead(i, f, g, 0)
    BY <1>0, <2>1, AheadByNone
  <2>3. Level(i, f, g)' /\ Ahead(i, f, g, 0)'
    BY <2>1, <2>2 DEF Level, Ahead, flows
  <2>4. ASSUME thread' = "pull", i = bbinterface'
        PROVE  Share(f, g)'
    <3>1. /\ f \in Nat \ {0} /\ g \in Nat \ {0} /\ flow' = 1 /\ pulled' = 0
          /\ bbinterface' = i
      BY <2>1, <2>4, Constants
    <3>2. Level(bbinterface, f, g)' /\ Ahead(bbinterface, f, g, pulled)'
      BY <2>3, <3>1
    <3> QED
      BY <3>1, <3>2 DEF Share
  <2> QED
    BY <2>3, <2>4
<1>4. CASE PullPacket
  <2>1. thread = "pull" /\ UNCHANGED <<thread, bbinterface>>
    BY <1>4 DEF PullPacket
  <2>2. CASE i = bbinterface
    BY <1>0, <1>4, <2>1, <2>2, PullShare
  <2>3. CASE i # bbinterface
    <3>1. /\ mNextTransmission'[i] = mNextTransmission[i]
          /\ count'[i] = count[i]
      BY <1>4, <2>3 DEF PullPacket, Typed
    <3> QED
      BY <1>0, <2>1, <2>3, <3>1 DEF Level
  <2> QED
    BY <2>2, <2>3
<1>5. CASE FlowDone
  <2>1. thread = "pull" /\ UNCHANGED flows
    BY <1>5 DEF FlowDone
  <2>2. CASE flow < Flows
    <3>1. UNCHANGED <<thread, bbinterface>>
      BY <1>5, <2>2 DEF FlowDone
    <3>2. CASE i = bbinterface
      BY <1>0, <1>5, <2>1, <2>2, <3>1, <3>2, PassShare
    <3>3. CASE i # bbinterface
      BY <1>0, <2>1, <3>1, <3>3 DEF Level, flows
    <3> QED
      BY <3>2, <3>3
  <2>3. CASE ~(flow < Flows)
    <3>1. thread' # "pull"
      BY <1>5, <2>3 DEF FlowDone, NextInterface
    <3>2. Level(i, f, g)
      BY <1>0, <1>5, <2>1, <2>3, EndShare
    <3> QED
      BY <2>1, <3>1, <3>2 DEF Level, flows
  <2> QED
    BY <2>2, <2>3
<1> QED
  BY <1>1, <1>2, <1>3, <1>4, <1>5 DEF Next, RunThread

\* Two flows with the same interval are never more than three packets apart,
\* and level between the visits.
THEOREM AlwaysFair == Spec => []FlowsShareFairly
<1>1. (Typed /\ Shares) /\ [Next]_vars => (Typed /\ Shares)'
  BY TypedStep, SharesStep
<1>2. Init => Typed /\ Shares
  BY TypedInit, SharesInit
<1>3. ASSUME Typed, Shares, NEW i \in Interface, NEW f \in Flow, NEW g \in Flow,
             Interval[f] = Interval[g]
      PROVE  /\ count[i][f] <= count[i][g] + 3
             /\ ~(thread = "pull" /\ bbinterface = i) => count[i][f] = count[i][g]
  <2>1. /\ f \in Nat /\ g \in Nat /\ flow \in Nat /\ pulled \in 0 .. 3
        /\ count[i][f] \in Nat /\ count[i][g] \in Nat
    BY <1>3, Constants DEF Typed
  <2>2. CASE ~(thread = "pull" /\ i = bbinterface)
    BY <1>3, <2>1, <2>2 DEF Shares, Level
  <2>3. CASE thread = "pull" /\ i = bbinterface
    <3>1. Share(f, g) /\ Share(g, f)
      BY <1>3, <2>3 DEF Shares
    <3>2. CASE f < flow /\ g >= flow
      BY <2>1, <2>3, <3>1, <3>2 DEF Share, Ahead
    <3>3. CASE g < flow /\ f >= flow
      BY <2>1, <2>3, <3>1, <3>3 DEF Share, Ahead
    <3>4. CASE (f < flow /\ g < flow) \/ (f > flow /\ g > flow)
      BY <2>1, <2>3, <3>1, <3>4 DEF Share, Level
    <3>5. CASE f = flow /\ g > flow
      BY <2>1, <2>3, <3>1, <3>5 DEF Share, Ahead
    <3>6. CASE g = flow /\ f > flow
      BY <2>1, <2>3, <3>1, <3>6 DEF Share, Ahead
    <3>7. CASE f = flow /\ g = flow
      BY <2>1, <2>3, <3>7
    <3> QED
      BY <2>1, <2>3, <3>2, <3>3, <3>4, <3>5, <3>6, <3>7
  <2> QED
    BY <2>2, <2>3
<1>4. Typed /\ Shares => FlowsShareFairly
  BY <1>3 DEF FlowsShareFairly
<1> QED
  BY <1>1, <1>2, <1>4, PTL DEF Spec

(***************************************************************************)
(* The sums of SizeOf() and Weight().                                      *)
(***************************************************************************)

\* SizeOf() is the last of the running totals of the packets' sizes.
LEMMA SizeOfIsTotal ==
    ASSUME NEW batch \in Seq(Flow)
    PROVE  \E s : /\ Totals(s, [n \in 1 .. Len(batch) |-> Size[batch[n]]], Len(batch))
                  /\ SizeOf(batch) = s[Len(batch)]
<1> DEFINE N == Len(batch)
           g == [n \in 1 .. N |-> Size[batch[n]]]
           IsSum(s) == s = [n \in 0 .. N |->
                              IF n = 0 THEN 0 ELSE s[n - 1] + Size[batch[n]]]
<1>0. N \in Nat
  BY LenProperties
<1>1. \A s : IsSum(s) <=> Totals(s, g, N)
  <2> SUFFICES ASSUME NEW s
               PROVE  [n \in 0 .. N |-> IF n = 0 THEN 0 ELSE s[n - 1] + Size[batch[n]]]
                        = [n \in 0 .. N |-> IF n = 0 THEN 0 ELSE s[n - 1] + g[n]]
    BY DEF Totals
  <2>1. \A n \in 0 .. N : n # 0 => g[n] = Size[batch[n]]
    BY <1>0
  <2> QED
    BY <2>1
<1>2. \E s : IsSum(s)
  BY <1>0, <1>1, TotalsExist
<1>3. SizeOf(batch) = (CHOOSE s : IsSum(s))[N]
  BY DEF SizeOf
<1> HIDE DEF IsSum
<1>4. IsSum(CHOOSE s : IsSum(s))
  BY <1>2
<1> QED
  BY <1>1, <1>3, <1>4

\* One packet more adds its size.
LEMMA SizeOfFacts ==
    /\ SizeOf(<< >>) = 0
    /\ \A batch \in Seq(Flow), f \in Flow :
         /\ SizeOf(batch) \in Nat
         /\ SizeOf(Append(batch, f)) = SizeOf(batch) + Size[f]
<1>1. SizeOf(<< >>) = 0
  <2>1. << >> \in Seq(Flow) /\ Len(<< >>) = 0
    BY EmptySeq
  <2>2. PICK s : /\ Totals(s, [n \in 1 .. 0 |-> Size[<< >>[n]]], 0)
                 /\ SizeOf(<< >>) = s[0]
    BY <2>1, SizeOfIsTotal
  <2> QED
    BY <2>2, TotalsAt
<1>2. ASSUME NEW batch \in Seq(Flow), NEW f \in Flow
      PROVE  /\ SizeOf(batch) \in Nat
             /\ SizeOf(Append(batch, f)) = SizeOf(batch) + Size[f]
  <2> DEFINE N == Len(batch)
             longer == Append(batch, f)
             g == [n \in 1 .. N |-> Size[batch[n]]]
             h == [n \in 1 .. N + 1 |-> Size[longer[n]]]
  <2>1. /\ N \in Nat /\ longer \in Seq(Flow) /\ Len(longer) = N + 1
        /\ longer[N + 1] = f /\ \A n \in 1 .. N : longer[n] = batch[n]
    BY LenProperties, AppendProperties
  <2>2. PICK s : Totals(s, g, N) /\ SizeOf(batch) = s[N]
    BY SizeOfIsTotal
  <2>3. PICK t : Totals(t, h, N + 1) /\ SizeOf(longer) = t[N + 1]
    BY <2>1, SizeOfIsTotal
  <2>4. \A n \in 1 .. N : g[n] \in Nat /\ h[n] = g[n]
    <3>1. \A n \in 1 .. N : batch[n] \in Flow
      BY ElementOfSeq
    <3> QED
      BY <2>1, <3>1, Constants
  <2>5. h[N + 1] = Size[f] /\ Size[f] \in Nat
    BY <2>1, Constants
  <2>6. /\ N + 1 \in Nat /\ N <= N + 1 /\ N <= N /\ 0 \in Nat /\ 0 \in Int
        /\ N + 1 \in 1 .. N + 1 /\ (N + 1) - 1 = N /\ N \in 0 .. N /\ 0 \notin 1 .. N
    BY <2>1
  <2> HIDE DEF N, g, h, longer
  <2>7. s[N] \in Nat
    BY <2>1, <2>2, <2>4, <2>6, TotalsNat
  <2>8. t[N] = s[N]
    <3>1. MoreAt(h, g, 0, 0, N)
      BY <2>1, <2>4 DEF MoreAt
    <3>2. \A n \in 1 .. N : g[n] \in Nat
      BY <2>4
    <3> QED
      BY <2>1, <2>2, <2>3, <2>6, <2>7, <3>1, <3>2, TotalsDiffer
  <2>9. t[N + 1] = t[N] + h[N + 1]
    BY <2>3, <2>6, TotalsAt
  <2> QED
    BY <2>2, <2>3, <2>5, <2>7, <2>8, <2>9 DEF N, longer
<1> QED
  BY <1>1, <1>2

\* Weight() is the last of the running totals of what the flows have sent.
LEMMA WeightIsTotal ==
    ASSUME NEW counters
    PROVE  \E s : /\ Totals(s, [f \in 1 .. Flows |-> Size[f] * counters[f]], Flows)
                  /\ Weight(counters) = s[Flows]
<1> DEFINE g == [f \in 1 .. Flows |-> Size[f] * counters[f]]
           IsSum(s) == s = [f \in 0 .. Flows |->
                              IF f = 0 THEN 0 ELSE s[f - 1] + Size[f] * counters[f]]
<1>0. Flows \in Nat
  BY Constants
<1>1. \A s : IsSum(s) <=> Totals(s, g, Flows)
  <2> SUFFICES ASSUME NEW s
               PROVE  [f \in 0 .. Flows |-> IF f = 0 THEN 0
                                             ELSE s[f - 1] + Size[f] * counters[f]]
                        = [f \in 0 .. Flows |-> IF f = 0 THEN 0 ELSE s[f - 1] + g[f]]
    BY DEF Totals
  <2>1. \A f \in 0 .. Flows : f # 0 => g[f] = Size[f] * counters[f]
    BY <1>0
  <2> QED
    BY <2>1
<1>2. \E s : IsSum(s)
  BY <1>0, <1>1, TotalsExist
<1>3. Weight(counters) = (CHOOSE s : IsSum(s))[Flows]
  BY DEF Weight
<1> HIDE DEF IsSum
<1>4. IsSum(CHOOSE s : IsSum(s))
  BY <1>2
<1> QED
  BY <1>1, <1>3, <1>4

\* One packet more of a flow weighs its size more.
LEMMA WeightFacts ==
    /\ Weight([f \in Flow |-> 0]) = 0
    /\ \A counters \in [Flow -> Nat], f \in Flow :
         Weight([counters EXCEPT ![f] = @ + 1]) = Weight(counters) + Size[f]
<1>0. Flows \in Nat /\ Flow = 1 .. Flows /\ Flows \in 0 .. Flows
  BY Constants DEF Flow
<1>1. Weight([f \in Flow |-> 0]) = 0
  <2> DEFINE zero == [f \in Flow |-> 0]
             g == [f \in 1 .. Flows |-> Size[f] * zero[f]]
  <2>1. PICK s : Totals(s, g, Flows) /\ Weight(zero) = s[Flows]
    BY WeightIsTotal
  <2>2. \A f \in 1 .. Flows : g[f] = 0
    BY <1>0, Constants
  <2> DEFINE Z == {n \in Nat : n <= Flows => s[n] = 0}
  <2> HIDE DEF g
  <2>3. 0 \in Z
    BY <1>0, <2>1, TotalsAt
  <2>4. ASSUME NEW n \in Nat, n \in Z PROVE n + 1 \in Z
    <3> SUFFICES ASSUME n + 1 <= Flows PROVE s[n + 1] = 0
      OBVIOUS
    <3>1. n + 1 \in 1 .. Flows /\ (n + 1) - 1 = n /\ s[n] = 0
      BY <1>0, <2>4
    <3>2. s[n + 1] = s[n] + g[n + 1]
      BY <1>0, <2>1, <3>1, TotalsAt
    <3> QED
      BY <2>2, <3>1, <3>2
  <2> HIDE DEF Z
  <2>5. \A n \in Nat : n \in Z
    BY <2>3, <2>4, SetInduction
  <2> QED
    BY <1>0, <2>1, <2>5 DEF Z
<1>2. ASSUME NEW counters \in [Flow -> Nat], NEW f \in Flow
      PROVE  Weight([counters EXCEPT ![f] = @ + 1]) = Weight(counters) + Size[f]
  <2> DEFINE more == [counters EXCEPT ![f] = @ + 1]
             g == [k \in 1 .. Flows |-> Size[k] * counters[k]]
             h == [k \in 1 .. Flows |-> Size[k] * more[k]]
  <2>1. PICK s : Totals(s, g, Flows) /\ Weight(counters) = s[Flows]
    BY WeightIsTotal
  <2>2. PICK t : Totals(t, h, Flows) /\ Weight(more) = t[Flows]
    BY WeightIsTotal
  <2>3. \A k \in 1 .. Flows : counters[k] \in Nat /\ Size[k] \in Nat
    BY <1>0, Constants
  <2>4. \A k \in 1 .. Flows : g[k] \in Nat
    BY <2>3
  <2>5. MoreAt(h, g, f, Size[f], Flows)
    <3>1. ASSUME NEW k \in 1 .. Flows, k = f
          PROVE  h[k] = g[k] + Size[f]
      <4>1. more[k] = counters[k] + 1
        BY <1>0, <3>1
      <4>2. Size[k] * (counters[k] + 1) = Size[k] * counters[k] + Size[k]
        BY <2>3
      <4> QED
        BY <3>1, <4>1, <4>2
    <3>2. ASSUME NEW k \in 1 .. Flows, k # f
          PROVE  h[k] = g[k]
      BY <1>0, <3>2
    <3> QED
      BY <3>1, <3>2 DEF MoreAt
  <2>6. f \in Nat /\ f \in 1 .. Flows /\ Size[f] \in Int /\ Flows <= Flows
    BY <1>0, Constants
  <2> HIDE DEF g, h, more
  <2>7. t[Flows] = s[Flows] + Size[f]
    BY <1>0, <2>1, <2>2, <2>4, <2>5, <2>6, TotalsDiffer
  <2> QED
    BY <2>1, <2>2, <2>7 DEF more
<1> QED
  BY <1>1, <1>2

(***************************************************************************)
(* The reports.                                                            *)
(***************************************************************************)

StatsTyped ==
    /\ mQuit \in BOOLEAN /\ owner \in {"created", "started", "joining", "joined"}
    /\ packets \in Seq(Flow)
    /\ mCounters \in [Flow -> Nat]
    /\ mTxBytes \in Nat /\ mStartTime \in Nat

StatsInv == StatsTyped /\ StatsConsistent

\* Nothing has been sent or counted at first.
LEMMA StatsInit == Init => StatsInv
<1> SUFFICES ASSUME Init
             PROVE  StatsTyped /\ StatsConsistent
  BY DEF StatsInv
<1>1. StatsTyped
  BY EmptySeq DEF Init, StatsTyped
<1>2. packets = << >> /\ mTxBytes = 0 /\ mCounters = [f \in Flow |-> 0]
  BY DEF Init
<1> QED
  BY <1>1, <1>2, SizeOfFacts, WeightFacts DEF StatsConsistent

\* A batch that is sent is counted, or reported with everything before it.
LEMMA SendBatchConsistent ==
    ASSUME Typed, StatsTyped, NEW batch \in Seq(Flow), NEW counters \in [Flow -> Nat],
           SendBatch(batch, counters),
           mTxBytes + SizeOf(batch) = Weight(counters)
    PROVE  /\ mTxBytes' \in Nat /\ mStartTime' \in Nat
           /\ mCounters' \in [Flow -> Nat]
           /\ mTxBytes' = Weight(mCounters')
<1> DEFINE start  == IF mStartTime = 0 THEN time ELSE mStartTime
           report == now - start >= Second
<1>1. SizeOf(batch) \in Nat /\ start \in Nat /\ now \in Nat
  <2>1. \E f : f \in Flow
    BY Constants
  <2> QED
    BY <2>1, SizeOfFacts DEF Typed, StatsTyped
<1>2. /\ mTxBytes' = IF report THEN 0 ELSE mTxBytes + SizeOf(batch)
      /\ mStartTime' = IF report THEN now ELSE start
      /\ mCounters' = IF report THEN [f \in Flow |-> 0] ELSE counters
  BY DEF SendBatch
<1> HIDE DEF start, report
<1>3. CASE report
  BY <1>1, <1>2, <1>3, WeightFacts
<1>4. CASE ~report
  BY <1>1, <1>2, <1>4 DEF StatsTyped
<1> QED
  BY <1>3, <1>4

\* Every step keeps the sums equal.
LEMMA StatsStep == Typed /\ StatsInv /\ [Next]_vars => StatsInv'
<1> SUFFICES ASSUME Typed, StatsTyped, StatsConsistent, [Next]_vars
             PROVE  StatsTyped' /\ StatsConsistent'
  BY DEF StatsInv
<1> USE DEF StatsTyped
<1>1. CASE Tick \/ Start \/ Stop \/ Join \/ UNCHANGED vars
  BY <1>1 DEF Tick, Start, Stop, Join, vars, stats, StatsConsistent
<1>2. CASE StartRound \/ CheckTokenBucket \/ FlowDone
  BY <1>2 DEF StartRound, CheckTokenBucket, FlowDone, stats, StatsConsistent
<1>3. CASE PullPacket
  <2> DEFINE batch == Append(packets, flow)
             counters == [mCounters EXCEPT ![flow] = @ + 1]
  <2>1. flow \in Flow /\ batch \in Seq(Flow) /\ counters \in [Flow -> Nat]
    BY AppendProperties DEF Typed
  <2>2. mTxBytes + SizeOf(batch) = Weight(counters)
    <3>1. /\ SizeOf(batch) = SizeOf(packets) + Size[flow]
          /\ Weight(counters) = Weight(mCounters) + Size[flow]
          /\ SizeOf(packets) \in Nat /\ Size[flow] \in Nat
      BY <2>1, SizeOfFacts, WeightFacts, Constants
    <3> QED
      BY <3>1 DEF StatsConsistent
  <2>3. mQuit' = mQuit /\ owner' = owner
    BY <1>3 DEF PullPacket
  <2>4. CASE Len(batch) = BatchCapacity
    <3>1. SendBatch(batch, counters) /\ packets' = << >>
      BY <1>3, <2>4 DEF PullPacket
    <3> HIDE DEF batch, counters
    <3>2. /\ mTxBytes' \in Nat /\ mStartTime' \in Nat
          /\ mCounters' \in [Flow -> Nat]
          /\ mTxBytes' = Weight(mCounters')
      BY <2>1, <2>2, <3>1, SendBatchConsistent
    <3> QED
      BY <2>3, <3>1, <3>2, SizeOfFacts, EmptySeq DEF StatsConsistent
  <2>5. CASE Len(batch) # BatchCapacity
    <3>1. /\ packets' = batch /\ mCounters' = counters
          /\ UNCHANGED <<mTxBytes, mStartTime>>
      BY <1>3, <2>5 DEF PullPacket
    <3> HIDE DEF batch, counters
    <3> QED
      BY <2>1, <2>2, <2>3, <3>1 DEF StatsConsistent
  <2> QED
    BY <2>4, <2>5
<1>4. CASE Flush
  <2>1. mQuit' = mQuit /\ owner' = owner
    BY <1>4 DEF Flush
  <2>2. CASE packets = << >>
    BY <1>4, <2>1, <2>2 DEF Flush, stats, StatsConsistent
  <2>3. CASE packets # << >>
    <3>1. SendBatch(packets, mCounters) /\ packets' = << >>
      BY <1>4, <2>3 DEF Flush
    <3>2. /\ mTxBytes' \in Nat /\ mStartTime' \in Nat
          /\ mCounters' \in [Flow -> Nat]
          /\ mTxBytes' = Weight(mCounters')
      BY <3>1, SendBatchConsistent DEF StatsConsistent
    <3> QED
      BY <2>1, <3>1, <3>2, SizeOfFacts, EmptySeq DEF StatsConsistent
  <2> QED
    BY <2>2, <2>3
<1> QED
  BY <1>1, <1>2, <1>3, <1>4 DEF Next, RunThread

LEMMA StatsInvariant == Spec => [](Typed /\ StatsInv)
<1>1. Init => Typed /\ StatsInv
  BY TypedInit, StatsInit
<1>2. (Typed /\ StatsInv) /\ [Next]_vars => (Typed /\ StatsInv)'
  BY TypedStep, StatsStep
<1> QED
  BY <1>1, <1>2, PTL DEF Spec

\* Every variable keeps its type.
THEOREM TypeCorrect == Spec => []TypeOK
<1>1. Typed /\ StatsInv => TypeOK
  BY DEF Typed, StatsInv, StatsTyped, TypeOK
<1> QED
  BY StatsInvariant, <1>1, PTL

\* However batches, rounds and reports of the socket fall together, no packet
\* is left out of a report or reported twice.
THEOREM ReportsComplete == Spec => []StatsConsistent
<1>1. Typed /\ StatsInv => StatsConsistent
  BY DEF StatsInv
<1> QED
  BY StatsInvariant, <1>1, PTL

(***************************************************************************)
(* Stream: the inductive invariant.                                        *)
(***************************************************************************)

\* How long n frames take.
Span(n) == n * mFrameInterval

\* A stream that goes on has frames left, the next of them after the others,
\* and the last one's interval ends at the stop time.
OnSchedule ==
    handler \in {"burst", "posted", "timer"} =>
        /\ mFrameInterval > 0
        /\ mNumberOfFramesSent < mNumberOfFrames
        /\ mNextTransmitTime + Span(mNumberOfFrames - mNumberOfFramesSent)
             = mStopTime

\* Whoever goes on to send without waiting has seen the time of the next frame,
\* even if the clock has been set back since.
Seen ==
    /\ current_time <= latest
    /\ handler \in {"burst", "posted"} => mNextTransmitTime <= latest
    /\ handler = "start" => mNumberOfFramesSent = 0

StreamInv == Streams!TypeOK /\ Streams!SendsOnTime /\ OnSchedule /\ Seen

\* What the constants of Stream are.
LEMMA StreamConstants ==
    /\ BurstLimit \in Nat \ {0} /\ MaxStreamTime \in Nat /\ MaxSetBacks \in Nat
    /\ \A n \in FrameCounts : n \in Nat
    /\ \A n \in FrameIntervals : n \in Nat
BY TimedParameters DEF Streams!StreamParameters

\* One frame less takes one interval less.
LEMMA SpanFacts ==
    ASSUME mFrameInterval \in Nat
    PROVE  /\ Span(0) = 0
           /\ \A n \in Nat : /\ Span(n) \in Nat
                             /\ Span(n + 1) = Span(n) + mFrameInterval
                             /\ n > 0 => Span(n) >= mFrameInterval
<1>1. \A n \in Nat : /\ Span(n) \in Nat
                     /\ Span(n + 1) = Span(n) + mFrameInterval
  BY DEF Span
<1>2. ASSUME NEW n \in Nat, n > 0 PROVE Span(n) >= mFrameInterval
  <2>1. n - 1 \in Nat /\ (n - 1) + 1 = n
    BY <1>2
  <2>2. Span(n) = Span(n - 1) + mFrameInterval /\ Span(n - 1) \in Nat
    BY <1>1, <2>1
  <2> QED
    BY <2>2
<1>3. Span(0) = 0
  BY DEF Span
<1> QED
  BY <1>1, <1>2, <1>3

LEMMA StreamInit == Streams!Init => StreamInv
BY StreamConstants
DEF Streams!Init, Streams!InitFor, StreamInv, Streams!TypeOK, Streams!SendsOnTime,
    OnSchedule, Seen

\* The clock may go where it likes as long as latest is not touched.
LEMMA TickStep ==
    ASSUME StreamInv, Streams!Tick \/ Streams!SetBack
    PROVE  StreamInv'
<1>1. clock' \in 0 .. MaxStreamTime /\ setBacks' \in 0 .. MaxSetBacks
  BY StreamConstants DEF Streams!Tick, Streams!SetBack, StreamInv, Streams!TypeOK
<1>2. UNCHANGED <<mNumberOfFrames, mFrameInterval, mNumberOfFramesSent,
                  mNextTransmitTime, mStopTime, handler, current_time, burst,
                  latest>>
  BY DEF Streams!Tick, Streams!SetBack, Streams!config, Streams!frames
<1>3. Streams!TypeOK'
  BY <1>1, <1>2 DEF StreamInv, Streams!TypeOK
<1>4. Streams!SendsOnTime' /\ OnSchedule' /\ Seen'
  BY <1>2 DEF StreamInv, Streams!SendsOnTime, OnSchedule, Seen, Span
<1> QED
  BY <1>3, <1>4 DEF StreamInv

\* send_burst() is entered.
LEMMA EnterStep ==
    ASSUME StreamInv, NEW stop \in Nat, Streams!EnterBurst(stop)
    PROVE  /\ current_time' = clock /\ current_time' \in 0 .. MaxStreamTime
           /\ latest' \in 0 .. MaxStreamTime
           /\ latest <= latest' /\ clock <= latest' /\ burst' \in 0 .. BurstLimit
           /\ handler' \in {"over", "burst"}
           /\ handler' = "over" => clock >= stop
           /\ handler' = "burst" => clock < stop
BY StreamConstants DEF Streams!EnterBurst, StreamInv, Streams!TypeOK

LEMMA StartStep ==
    ASSUME StreamInv, Streams!StartStream
    PROVE  StreamInv'
<1>1. /\ mNumberOfFrames \in Nat /\ mFrameInterval \in Nat /\ clock \in Nat
      /\ mNumberOfFramesSent = 0
  BY StreamConstants DEF StreamInv, Streams!TypeOK, Seen, Streams!StartStream
<1>2. Span(mNumberOfFrames) \in Nat
  BY <1>1, SpanFacts
<1>3. /\ mNextTransmitTime' = clock /\ mStopTime' = clock + Span(mNumberOfFrames)
      /\ Streams!EnterBurst(mStopTime')
      /\ UNCHANGED <<clock, setBacks, mNumberOfFrames, mFrameInterval,
                     mNumberOfFramesSent>>
  BY DEF Streams!StartStream, Streams!config, Span
<1>4. mStopTime' \in Nat
  BY <1>1, <1>2, <1>3
<1>5. /\ current_time' = clock /\ current_time' \in 0 .. MaxStreamTime
      /\ latest' \in 0 .. MaxStreamTime
      /\ latest <= latest' /\ clock <= latest' /\ burst' \in 0 .. BurstLimit
      /\ handler' \in {"over", "burst"}
      /\ handler' = "over" => clock >= mStopTime'
      /\ handler' = "burst" => clock < mStopTime'
  BY <1>3, <1>4, EnterStep
<1>6. Streams!TypeOK'
  BY <1>1, <1>3, <1>4, <1>5 DEF StreamInv, Streams!TypeOK
<1>7. Streams!SendsOnTime' /\ Seen'
  BY <1>1, <1>3, <1>5 DEF Streams!SendsOnTime, Seen
<1>8. OnSchedule'
  <2> SUFFICES ASSUME handler' = "burst"
               PROVE  /\ mFrameInterval > 0 /\ 0 < mNumberOfFrames
                      /\ (mNextTransmitTime
                            + Span(mNumberOfFrames - mNumberOfFramesSent))'
                           = mStopTime'
    BY <1>1, <1>3, <1>5 DEF OnSchedule
  <2>1. Span(mNumberOfFrames) > 0
    BY <1>1, <1>2, <1>3, <1>5
  <2>2. mFrameInterval > 0 /\ mNumberOfFrames > 0
    BY <1>1, <2>1 DEF Span
  <2>3. mNumberOfFrames - mNumberOfFramesSent = mNumberOfFrames
    BY <1>1
  <2> QED
    BY <1>3, <2>2, <2>3 DEF Span
<1> QED
  BY <1>6, <1>7, <1>8 DEF StreamInv

\* A handler that was posted, or whose timer has expired, runs.
LEMMA ReenterStep ==
    ASSUME StreamInv, Streams!RunPosted \/ Streams!TimerExpires
    PROVE  StreamInv'
<1>1. /\ mStopTime \in Nat /\ clock \in Nat /\ latest \in Nat
      /\ mNextTransmitTime \in Nat
  BY StreamConstants DEF StreamInv, Streams!TypeOK
<1>2. /\ Streams!EnterBurst(mStopTime)
      /\ UNCHANGED <<clock, setBacks, mNumberOfFrames, mFrameInterval,
                     mNumberOfFramesSent, mNextTransmitTime, mStopTime>>
  BY DEF Streams!RunPosted, Streams!TimerExpires, Streams!config, Streams!frames
<1>3. /\ current_time' = clock /\ current_time' \in 0 .. MaxStreamTime
      /\ latest' \in 0 .. MaxStreamTime
      /\ latest <= latest' /\ clock <= latest' /\ burst' \in 0 .. BurstLimit
      /\ handler' \in {"over", "burst"}
      /\ handler' = "over" => clock >= mStopTime
  BY <1>1, <1>2, EnterStep
<1>4. mNextTransmitTime <= latest'
  BY <1>1, <1>3 DEF Streams!RunPosted, Streams!TimerExpires, StreamInv, Seen
<1>5. handler \in {"posted", "timer"}
  BY DEF Streams!RunPosted, Streams!TimerExpires
<1>6. Streams!TypeOK'
  BY <1>2, <1>3 DEF StreamInv, Streams!TypeOK
<1>7. OnSchedule'
  BY <1>2, <1>3, <1>5 DEF StreamInv, OnSchedule, Span
<1>8. Seen'
  BY <1>2, <1>3, <1>4 DEF Seen
<1>9. Streams!SendsOnTime'
  <2>1. mFrameInterval \in Nat /\ latest' \in Nat
    BY StreamConstants, <1>3 DEF StreamInv, Streams!TypeOK
  <2> QED
    BY <1>1, <1>2, <1>3, <1>4, <2>1 DEF Streams!SendsOnTime
<1> QED
  BY <1>6, <1>7, <1>8, <1>9 DEF StreamInv

\* A frame is sent: the schedule goes on by one interval.
LEMMA SendStep ==
    ASSUME StreamInv, Streams!SendFrame
    PROVE  StreamInv'
<1> DEFINE next == mNextTransmitTime + mFrameInterval
           all  == mNumberOfFramesSent + 1 >= mNumberOfFrames
           left == mNumberOfFrames - mNumberOfFramesSent - 1
<1>1. /\ mNumberOfFrames \in Nat /\ mFrameInterval \in Nat
      /\ mNumberOfFramesSent \in Nat /\ mNextTransmitTime \in Nat
      /\ mStopTime \in Nat /\ current_time \in Nat /\ latest \in Nat
      /\ burst \in Nat /\ burst < BurstLimit /\ BurstLimit \in Nat
  BY StreamConstants DEF StreamInv, Streams!TypeOK, Streams!SendFrame
<1>2. /\ handler = "burst"
      /\ mNumberOfFramesSent' = mNumberOfFramesSent + 1
      /\ mNextTransmitTime' = next
      /\ burst' = burst + 1
      /\ handler' = IF all \/ (current_time < next /\ next >= mStopTime)
                      THEN "over"
                      ELSE IF current_time < next THEN "timer" ELSE "burst"
      /\ UNCHANGED <<clock, setBacks, mNumberOfFrames, mFrameInterval,
                     mStopTime, current_time, latest>>
  BY DEF Streams!SendFrame, Streams!config
<1>3. /\ mFrameInterval > 0
      /\ mNumberOfFramesSent < mNumberOfFrames
      /\ mNextTransmitTime + Span(mNumberOfFrames - mNumberOfFramesSent)
           = mStopTime
      /\ mNextTransmitTime <= latest /\ current_time <= latest
  BY <1>2 DEF StreamInv, OnSchedule, Seen
<1>4. /\ left \in Nat /\ mNumberOfFrames - mNumberOfFramesSent = left + 1
      /\ mNumberOfFrames - mNumberOfFramesSent' = left
  BY <1>1, <1>2, <1>3
<1>5. /\ Span(left) \in Nat /\ Span(left + 1) = Span(left) + mFrameInterval
      /\ left > 0 => Span(left) >= mFrameInterval
  BY <1>1, <1>4, SpanFacts
<1>6. next + Span(left) = mStopTime
  BY <1>1, <1>3, <1>4, <1>5
<1>7. ~all => left > 0 /\ next < mStopTime
  BY <1>1, <1>3, <1>4, <1>5, <1>6
<1>8. Streams!TypeOK'
  BY <1>1, <1>2 DEF StreamInv, Streams!TypeOK
<1>9. OnSchedule'
  <2> SUFFICES ASSUME handler' # "over"
               PROVE  /\ mFrameInterval' > 0
                      /\ mNumberOfFramesSent' < mNumberOfFrames'
                      /\ mNextTransmitTime'
                           + (mNumberOfFrames' - mNumberOfFramesSent')
                               * mFrameInterval' = mStopTime'
    BY DEF OnSchedule, Span
  <2>1. ~all
    BY <1>2
  <2>2. mNumberOfFramesSent' < mNumberOfFrames'
    BY <1>1, <1>2, <2>1
  <2> QED
    BY <1>2, <1>3, <1>4, <1>6, <2>2 DEF Span
<1>10. Seen'
  BY <1>1, <1>2, <1>3 DEF Seen
<1>11. Streams!SendsOnTime'
  <2>1. mNextTransmitTime' - mFrameInterval' = mNextTransmitTime
    BY <1>1, <1>2
  <2>2. handler' = "over" => all
    <3>1. ~all => ~(next >= mStopTime)
      BY <1>1, <1>7
    <3> HIDE DEF all, next
    <3> QED
      BY <1>2, <3>1
  <2>3. all => mNumberOfFramesSent' = mNumberOfFrames
    BY <1>1, <1>2, <1>3
  <2> QED
    BY <1>2, <1>3, <2>1, <2>2, <2>3 DEF Streams!SendsOnTime
<1> QED
  BY <1>8, <1>9, <1>10, <1>11 DEF StreamInv

\* A burst ends without the stream being over, or the socket fails.
LEMMA GiveUpStep ==
    ASSUME StreamInv,
           \/ Streams!PostWhenBlocked \/ Streams!PostAfterBurst
           \/ Streams!SendFails
    PROVE  StreamInv'
<1>1. /\ handler = "burst" /\ handler' \in {"posted", "thrown"}
      /\ UNCHANGED <<clock, setBacks, mNumberOfFrames, mFrameInterval,
                     mNumberOfFramesSent, mNextTransmitTime, mStopTime,
                     current_time, burst, latest>>
  BY DEF Streams!PostWhenBlocked, Streams!PostAfterBurst, Streams!SendFails,
         Streams!config, Streams!frames
<1> QED
  BY <1>1 DEF StreamInv, Streams!TypeOK, Streams!SendsOnTime, OnSchedule, Seen,
              Span

LEMMA StreamStepInv == StreamInv /\ [Streams!Next]_Streams!svars => StreamInv'
<1> SUFFICES ASSUME StreamInv, [Streams!Next]_Streams!svars
             PROVE  StreamInv'
  OBVIOUS
<1>1. CASE UNCHANGED Streams!svars
  BY <1>1 DEF Streams!svars, Streams!config, Streams!frames, StreamInv,
              Streams!TypeOK, Streams!SendsOnTime, OnSchedule, Seen, Span
<1>2. CASE Streams!Tick \/ Streams!SetBack
  BY <1>2, TickStep
<1>3. CASE Streams!StartStream
  BY <1>3, StartStep
<1>4. CASE Streams!RunPosted \/ Streams!TimerExpires
  BY <1>4, ReenterStep
<1>5. CASE Streams!SendFrame
  BY <1>5, SendStep
<1>6. CASE Streams!PostWhenBlocked \/ Streams!PostAfterBurst \/ Streams!SendFails
  BY <1>6, GiveUpStep
<1> QED
  BY <1>1, <1>2, <1>3, <1>4, <1>5, <1>6 DEF Streams!Next, Streams!Handle

\* No frame is sent before its time, and no stream ends early, for any numbers
\* of frames, any intervals and any clock.
THEOREM StreamSendsOnTime == Streams!Spec => []SendsOnTime
<1>1. StreamInv => SendsOnTime
  BY DEF StreamInv, SendsOnTime
<1> QED
  BY StreamInit, StreamStepInv, <1>1, PTL DEF Streams!Spec

(***************************************************************************)
(* Tetris: the inductive invariant.                                        *)
(***************************************************************************)

GameThreads == Game!Threads
Operations  == Game!Keys \cup {"none"}
Places == {"idle", "change", "test", "undo", "commit", "clear", "cancel",
           "renew", "schedule", "deal", "verify", "end"}

GameTyped ==
    /\ data \in Seq({0, 1})
    /\ type \in DOMAIN Grids /\ rotation \in 0 .. Turns - 1
    /\ x \in Int /\ y \in Int
    /\ is_game_over \in BOOLEAN
    /\ timer \in Timers
    /\ status \in [Timers -> {"live", "cancelled", "dead"}]
    /\ tasks \in [Timers -> Nat]
    /\ steps \in [GameThreads -> [op : Operations, at : Places]]
    /\ \A t \in GameThreads : steps[t].at = "idle" <=> steps[t].op = "none"
    /\ overlaps \in 0 .. MaxOverlaps
    /\ balance \in Int

\* A timer in the atom that is cancelled has somebody who is about to make a
\* new one, and one without a task somebody who is about to schedule it.
TimerIsKept ==
    /\ status[timer] = "cancelled" =>
           \E t \in GameThreads : steps[t].at = "renew"
    /\ status[timer] = "live" /\ tasks[timer] = 0 =>
           \E t \in GameThreads : steps[t].at = "schedule"

AllIdle == \A t \in GameThreads : steps[t].at = "idle"

\* One operation at a time.
Alone == \A t, u \in GameThreads :
             steps[t].at # "idle" /\ steps[u].at # "idle" => t = u

\* Full rows are there only between commit-block and clear-lines.
Ones(f) == Cardinality({i \in DOMAIN f : f[i] = 1})
FieldSound ==
    /\ Len(data) = Width * Height
    /\ Ones(data) = balance
    /\ (\A t \in GameThreads : steps[t].at # "clear") => Game!FullRows = {}

\* A block in a field of cells, and where it was before the move that its
\* operation has made.
FreeIn(f, cx, cy) == /\ cx \in 0 .. Width - 1 /\ cy \in 0 .. Height - 1
                     /\ f[Game!Index(cx, cy)] = 0
Fits(f, k, r, px, py) ==
    \A j \in DOMAIN Game!Grid(k, r).cells :
        FreeIn(f, Game!Grid(k, r).cells[j][1] + px, Game!Grid(k, r).cells[j][2] + py)
BackX(op, px) == CASE op = "left"  -> px + 1
                   [] op = "right" -> px - 1
                   [] OTHER        -> px
BackY(op, py) == IF op \in {"down", "drop"} THEN py - 1 ELSE py
BackRotation(op, r) == IF op = "rotate" THEN (r - 1) % Turns ELSE r
FitsBack(op, f, k, r, px, py) ==
    /\ BackY(op, py) >= 0
    /\ Fits(f, k, BackRotation(op, r), BackX(op, px), BackY(op, py))

\* The block fits, or has just been moved from where it fits, or is about to be
\* replaced, or has been.
BlockSound ==
    /\ y >= 0
    /\ AllIdle => Game!Valid
    /\ \A t \in GameThreads :
          /\ steps[t].at \in {"change", "commit"} => Game!Valid
          /\ steps[t].at = "test" => \/ steps[t].op = "drop" /\ Game!Valid
                                     \/ FitsBack(steps[t].op, data, type,
                                                 rotation, x, y)
          /\ steps[t].at = "undo" => FitsBack(steps[t].op, data, type,
                                              rotation, x, y)
          /\ steps[t].at \in {"verify", "end"} => rotation = 0 /\ y = 0

\* The timer in the atom runs one task, and no other runs any.
OneTask ==
    /\ \A u \in Timers \ {timer} : status[u] # "live" \/ tasks[u] = 0
    /\ \A t \in GameThreads :
          /\ steps[t].at = "renew" => status[timer] = "cancelled"
          /\ steps[t].at = "schedule" => status[timer] = "live" /\ tasks[timer] = 0
    /\ (\A t \in GameThreads : steps[t].at \notin {"renew", "schedule"}) =>
           status[timer] = "live" /\ tasks[timer] = 1

\* Nothing is begun after the end of a game.
EndedIdle == is_game_over => AllIdle

GameInv ==
    /\ GameTyped
    /\ TimerIsKept
    /\ overlaps = 0 =>
          Alone /\ FieldSound /\ BlockSound /\ OneTask /\ EndedIdle

(***************************************************************************)
(* Tetris: the field and the blocks.                                       *)
(***************************************************************************)

LEMMA GameConstants ==
    /\ Width \in Nat \ {0} /\ Height \in Nat \ {0} /\ Turns \in Nat \ {0}
    /\ Width * Height \in Nat
    /\ DOMAIN Grids # {} /\ Timers # {} /\ Edt \notin Timers
    /\ MaxOverlaps \in Nat
BY TimedParameters DEF Game!TetrisParameters

\* A grid is one of those of its kind.
LEMMA GridFacts ==
    ASSUME NEW k \in DOMAIN Grids, NEW r \in Nat
    PROVE  /\ Game!Grid(k, r).width \in Nat
           /\ Game!Grid(k, r).cells \in Seq(Nat \X Nat)
           /\ \A i, j \in DOMAIN Game!Grid(k, r).cells :
                 Game!Grid(k, r).cells[i] = Game!Grid(k, r).cells[j] => i = j
<1> DEFINE N == Len(Grids[k])
           q == (r % N) + 1
<1>1. N \in Nat \ {0} /\ \A p \in 1 .. N : Game!IsGrid(Grids[k][p])
  BY TimedParameters DEF Game!TetrisParameters
<1>2. r % N \in 0 .. N - 1
  <2> HIDE DEF N
  <2> QED
    BY <1>1, Division
<1>3. q \in 1 .. N
  BY <1>1, <1>2
<1>4. Game!Grid(k, r) = Grids[k][q]
  BY DEF Game!Grid
<1> HIDE DEF q, N
<1> QED
  BY <1>1, <1>3, <1>4 DEF Game!IsGrid

\* A new block has room.
LEMMA FirstGrid ==
    ASSUME NEW k \in DOMAIN Grids
    PROVE  Game!HasRoom(Game!Grid(k, 0))
<1>1. Len(Grids[k]) \in Nat \ {0} /\ Game!HasRoom(Grids[k][1])
  BY TimedParameters DEF Game!TetrisParameters
<1>2. (0 % Len(Grids[k])) + 1 = 1
  BY <1>1
<1> QED
  BY <1>1, <1>2 DEF Game!Grid

\* A block begins in the middle.
LEMMA CentreFacts ==
    ASSUME NEW k \in DOMAIN Grids, NEW r \in Nat
    PROVE  /\ Game!Centre(k, r) \in Int
           /\ Game!Grid(k, r).width <= Width =>
                 /\ Game!Centre(k, r) \in Nat
                 /\ Game!Centre(k, r) + Game!Grid(k, r).width <= Width
<1> DEFINE w == Game!Grid(k, r).width
<1>1. w \in Nat /\ Width \in Nat
  BY GridFacts, GameConstants
<1>2. Game!Centre(k, r) = (Width - w) \div 2
  BY DEF Game!Centre
<1> HIDE DEF w
<1>3. /\ (Width - w) \div 2 \in Int
      /\ w <= Width => (Width - w) \div 2 \in Nat /\ (Width - w) \div 2 + w <= Width
  BY <1>1
<1> QED
  BY <1>2, <1>3 DEF w

\* Every cell of the field has a place of its own in the vector.
LEMMA IndexFacts ==
    ASSUME NEW cx \in 0 .. Width - 1, NEW cy \in 0 .. Height - 1
    PROVE  Game!Index(cx, cy) \in 1 .. Width * Height
<1> DEFINE d == Height - 1 - cy
<1>1. d \in Nat /\ Height = cy + 1 + d
  BY GameConstants
<1> HIDE DEF d
<1>2. /\ Width * cy \in Nat /\ Width * d \in Nat
      /\ Width * (cy + 1 + d) = Width * cy + Width + Width * d
  BY <1>1, GameConstants
<1> QED
  BY <1>1, <1>2, GameConstants DEF Game!Index

LEMMA IndexDiffers ==
    ASSUME NEW cx \in 0 .. Width - 1, NEW cy \in Nat,
           NEW dx \in 0 .. Width - 1, NEW dy \in Nat,
           Game!Index(cx, cy) = Game!Index(dx, dy)
    PROVE  cx = dx /\ cy = dy
<1>1. Width * cy \in Nat /\ Width * dy \in Nat
  BY GameConstants
<1>2. Width * cy + cx = Width * dy + dx
  BY <1>1, GameConstants DEF Game!Index
<1>3. cx = dx
  BY <1>2, QuotientUnique, GameConstants
<1>4. Width * cy = Width * dy
  BY <1>1, <1>2, <1>3
<1>5. ASSUME NEW a \in Nat, NEW b \in Nat, a < b PROVE Width * a # Width * b
  <2>1. b - a - 1 \in Nat /\ b = a + 1 + (b - a - 1)
    BY <1>5
  <2> DEFINE e == b - a - 1
  <2> HIDE DEF e
  <2>2. e \in Nat /\ b = a + 1 + e
    BY <2>1 DEF e
  <2>3. /\ Width * (a + 1 + e) = Width * a + Width + Width * e
        /\ Width * e \in Nat /\ Width * a \in Nat
    BY <2>2, GameConstants
  <2> QED
    BY <2>2, <2>3, GameConstants
<1>6. ~(cy < dy) /\ ~(dy < cy)
  BY <1>4, <1>5
<1> QED
  BY <1>3, <1>6

\* The cells of the block, and their places in the field.
LEMMA CellFacts ==
    ASSUME GameTyped
    PROVE  /\ Game!Cells \in Seq(Nat \X Nat)
           /\ Len(Game!Cells) \in Nat /\ DOMAIN Game!Cells = 1 .. Len(Game!Cells)
           /\ \A j \in DOMAIN Game!Cells :
                 Game!Cells[j][1] \in Nat /\ Game!Cells[j][2] \in Nat
           /\ \A i, j \in DOMAIN Game!Cells :
                 /\ Game!Cells[i][1] = Game!Cells[j][1]
                 /\ Game!Cells[i][2] = Game!Cells[j][2]
                 => i = j
<1>1. type \in DOMAIN Grids /\ rotation \in Nat
  BY GameConstants DEF GameTyped
<1>2. /\ Game!Cells \in Seq(Nat \X Nat)
      /\ \A i, j \in DOMAIN Game!Cells : Game!Cells[i] = Game!Cells[j] => i = j
  BY <1>1, GridFacts DEF Game!Cells
<1>3. Len(Game!Cells) \in Nat /\ DOMAIN Game!Cells = 1 .. Len(Game!Cells)
  BY <1>2, LenProperties
<1>4. \A j \in DOMAIN Game!Cells : Game!Cells[j] \in Nat \X Nat
  BY <1>2, <1>3, ElementOfSeq
<1>5. \A p \in Nat \X Nat : p = <<p[1], p[2]>> /\ p[1] \in Nat /\ p[2] \in Nat
  OBVIOUS
<1>6. \A j \in DOMAIN Game!Cells :
         Game!Cells[j][1] \in Nat /\ Game!Cells[j][2] \in Nat
  BY <1>4, <1>5
<1>7. ASSUME NEW i \in DOMAIN Game!Cells, NEW j \in DOMAIN Game!Cells,
             Game!Cells[i][1] = Game!Cells[j][1],
             Game!Cells[i][2] = Game!Cells[j][2]
      PROVE  i = j
  <2> DEFINE p == Game!Cells[i]
             q == Game!Cells[j]
  <2>1. p \in Nat \X Nat /\ q \in Nat \X Nat /\ p[1] = q[1] /\ p[2] = q[2]
    BY <1>4, <1>7
  <2> HIDE DEF p, q
  <2>2. p = q
    BY <2>1
  <2> QED
    BY <1>2, <2>2 DEF p, q
<1> QED
  BY <1>2, <1>3, <1>6, <1>7

\* A block that is valid fits.
LEMMA ValidFits ==
    Game!Valid <=> \A j \in DOMAIN Game!Cells :
                       Game!Free(Game!Cells[j][1] + x, Game!Cells[j][2] + y)
BY DEF Game!Valid, Game!Taken

\* Below the upper edge nth does not throw.
LEMMA NoThrow ==
    ASSUME GameTyped, y >= 0
    PROVE  ~Game!Throws
<1> SUFFICES ASSUME NEW j \in Game!Taken,
                    Game!Cells[j][1] + x \in 0 .. Width - 1
             PROVE  ~(Game!Index(Game!Cells[j][1] + x, Game!Cells[j][2] + y) < 1)
  BY DEF Game!Throws
<1> DEFINE cx == Game!Cells[j][1] + x
           cy == Game!Cells[j][2] + y
<1>1. Game!Cells[j][2] \in Nat
  BY CellFacts DEF Game!Taken
<1>2. cy \in Nat /\ cx \in Nat
  BY <1>1, GameConstants DEF GameTyped
<1> HIDE DEF cx, cy
<1>3. Width * cy \in Nat
  BY <1>2, GameConstants
<1>4. ~(Game!Index(cx, cy) < 1)
  BY <1>2, <1>3 DEF Game!Index
<1> QED
  BY <1>4 DEF cx, cy

(***************************************************************************)
(* Tetris: commit-block.                                                   *)
(***************************************************************************)

Layouts == [data : Seq({0, 1}), thrown : BOOLEAN]
Place(j) == Game!Index(Game!Cells[j][1] + x, Game!Cells[j][2] + y)

\* One assoc.
LEMMA LayFacts ==
    ASSUME NEW f \in Layouts, NEW i \in Int
    PROVE  /\ Game!Lay(f, i) \in Layouts
           /\ ~f.thrown /\ i \in 1 .. Len(f.data) =>
                 /\ ~Game!Lay(f, i).thrown
                 /\ Game!Lay(f, i).data = [f.data EXCEPT ![i] = 1]
<1>1. /\ f.data \in Seq({0, 1}) /\ f.thrown \in BOOLEAN /\ Len(f.data) \in Nat
      /\ f = [data |-> f.data, thrown |-> f.thrown]
  BY LenProperties DEF Layouts
<1>2. CASE f.thrown \/ i \notin 1 .. Len(f.data) + 1
  <2>1. Game!Lay(f, i) = [f EXCEPT !.thrown = TRUE]
    BY <1>2 DEF Game!Lay
  <2>2. Game!Lay(f, i) = [data |-> f.data, thrown |-> TRUE]
    BY <1>1, <2>1
  <2>3. ~(~f.thrown /\ i \in 1 .. Len(f.data))
    BY <1>1, <1>2
  <2> QED
    BY <1>1, <2>2, <2>3 DEF Layouts
<1>3. CASE ~f.thrown /\ i \in 1 .. Len(f.data)
  <2>1. Game!Lay(f, i) = [f EXCEPT !.data = [@ EXCEPT ![i] = 1]]
    BY <1>1, <1>3 DEF Game!Lay
  <2>2. [f.data EXCEPT ![i] = 1] \in Seq({0, 1})
    BY <1>1, <1>3, ExceptSeq
  <2> QED
    BY <1>1, <1>3, <2>1, <2>2 DEF Layouts
<1>4. CASE ~f.thrown /\ i = Len(f.data) + 1
  <2>1. i \in 1 .. Len(f.data) + 1 /\ ~(i <= Len(f.data))
    BY <1>1, <1>4
  <2>2. Game!Lay(f, i) = [f EXCEPT !.data = Append(@, 1)]
    BY <1>4, <2>1 DEF Game!Lay
  <2>3. Append(f.data, 1) \in Seq({0, 1})
    BY <1>1, AppendProperties
  <2>4. Game!Lay(f, i) = [data |-> Append(f.data, 1), thrown |-> f.thrown]
    BY <1>1, <2>2
  <2> QED
    BY <1>1, <2>1, <2>3, <2>4 DEF Layouts
<1> QED
  BY <1>1, <1>2, <1>3, <1>4

\* commit-block goes through the cells one by one.
LEMMA CommittedFolds ==
    ASSUME GameTyped
    PROVE  \E f : /\ f[0] = [data |-> data, thrown |-> FALSE]
                  /\ \A j \in 1 .. Len(Game!Cells) : f[j] = Game!Lay(f[j - 1], Place(j))
                  /\ \A j \in 0 .. Len(Game!Cells) : f[j] \in Layouts
                  /\ Game!Committed = f[Len(Game!Cells)]
<1> DEFINE N == Len(Game!Cells)
           first == [data |-> data, thrown |-> FALSE]
           step == [j \in 1 .. N |-> [s \in Layouts |-> Game!Lay(s, Place(j))]]
           next(f, j) == IF j = 0 THEN first ELSE Game!Lay(f[j - 1], Place(j))
           IsLaid(f) == f = [j \in 0 .. N |-> next(f, j)]
<1>0. N \in Nat /\ \A j \in 1 .. N : Place(j) \in Int
  <2>1. /\ N \in Nat /\ DOMAIN Game!Cells = 1 .. N
        /\ \A j \in 1 .. N : Game!Cells[j][1] \in Nat /\ Game!Cells[j][2] \in Nat
    BY CellFacts
  <2>2. ASSUME NEW j \in 1 .. N PROVE Place(j) \in Int
    <3> DEFINE cx == Game!Cells[j][1] + x
               cy == Game!Cells[j][2] + y
    <3>1. cx \in Int /\ cy \in Int
      BY <2>1 DEF GameTyped
    <3>2. Place(j) = Game!Index(cx, cy)
      BY DEF Place
    <3> HIDE DEF cx, cy
    <3>3. Width * cy \in Int
      BY <3>1, GameConstants
    <3> QED
      BY <3>1, <3>2, <3>3 DEF Game!Index
  <2> QED
    BY <2>1, <2>2
<1>1. first \in Layouts
  BY DEF GameTyped, Layouts
<1>2. Game!Committed = (CHOOSE f : IsLaid(f))[N]
  BY DEF Game!Committed, Place
<1> HIDE DEF N, first
<1>3. \A s \in Layouts, j \in 1 .. N : /\ step[j][s] = Game!Lay(s, Place(j))
                                       /\ step[j][s] \in Layouts
  BY <1>0, LayFacts
<1> HIDE DEF step
<1>4. PICK f : Folds(f, first, step, N)
  BY <1>0, FoldsExist
<1>5. f[0] = first /\ \A j \in 1 .. N : f[j] = step[j][f[j - 1]]
  BY <1>0, <1>4, FoldsAt
<1>6. \A j \in 0 .. N : f[j] \in Layouts
  <2> DEFINE S == {j \in Nat : j <= N => f[j] \in Layouts}
  <2>1. 0 \in S
    BY <1>1, <1>5
  <2>2. ASSUME NEW j \in Nat, j \in S PROVE j + 1 \in S
    <3> SUFFICES ASSUME j + 1 <= N PROVE f[j + 1] \in Layouts
      OBVIOUS
    <3>1. j + 1 \in 1 .. N /\ (j + 1) - 1 = j /\ f[j] \in Layouts
      BY <1>0, <2>2
    <3> QED
      BY <1>3, <1>5, <3>1
  <2> HIDE DEF S
  <2>3. \A j \in Nat : j \in S
    BY <2>1, <2>2, SetInduction
  <2> QED
    BY <1>0, <2>3 DEF S
<1>7. IsLaid(f)
  <2>1. f = [j \in 0 .. N |-> IF j = 0 THEN first ELSE step[j][f[j - 1]]]
    BY <1>4 DEF Folds
  <2>2. \A j \in 0 .. N : (IF j = 0 THEN first ELSE step[j][f[j - 1]]) = next(f, j)
    <3> SUFFICES ASSUME NEW j \in 1 .. N
                 PROVE  step[j][f[j - 1]] = Game!Lay(f[j - 1], Place(j))
      BY <1>0
    <3>1. j - 1 \in 0 .. N
      BY <1>0
    <3> QED
      BY <1>3, <1>6, <3>1
  <2> HIDE DEF next
  <2> QED
    BY <2>1, <2>2
<1> DEFINE g == CHOOSE h : IsLaid(h)
<1>8. IsLaid(g)
  <2> HIDE DEF IsLaid
  <2> QED
    BY <1>7
<1>9. Game!Committed = g[N]
  BY <1>2
<1> HIDE DEF g
<1>10. g[0] = first /\ \A j \in 1 .. N : g[j] = Game!Lay(g[j - 1], Place(j))
  <2> HIDE DEF next
  <2>1. \A j \in 0 .. N : g[j] = next(g, j)
    BY <1>8
  <2> QED
    BY <1>0, <2>1 DEF next
<1>11. \A j \in 0 .. N : g[j] \in Layouts
  <2> DEFINE S == {j \in Nat : j <= N => g[j] \in Layouts}
  <2>1. 0 \in S
    BY <1>1, <1>10
  <2>2. ASSUME NEW j \in Nat, j \in S PROVE j + 1 \in S
    <3> SUFFICES ASSUME j + 1 <= N PROVE g[j + 1] \in Layouts
      OBVIOUS
    <3>1. j + 1 \in 1 .. N /\ (j + 1) - 1 = j /\ g[j] \in Layouts
      BY <1>0, <2>2
    <3>2. Place(j + 1) \in Int /\ g[j + 1] = Game!Lay(g[j], Place(j + 1))
      BY <1>0, <1>10, <3>1
    <3>3. Game!Lay(g[j], Place(j + 1)) \in Layouts
      BY <3>1, <3>2, LayFacts
    <3> QED
      BY <3>2, <3>3
  <2> HIDE DEF S
  <2>3. \A j \in Nat : j \in S
    BY <2>1, <2>2, SetInduction
  <2> QED
    BY <1>0, <2>3 DEF S
<1> QED
  BY <1>9, <1>10, <1>11 DEF N, first

\* Whatever the position, a vector of cells is left.
LEMMA CommittedTyped ==
    ASSUME GameTyped
    PROVE  Game!Committed.data \in Seq({0, 1}) /\ Game!Committed.thrown \in BOOLEAN
<1>1. Game!Committed \in Layouts
  BY CommittedFolds, CellFacts
<1> QED
  BY <1>1 DEF Layouts

\* A block that fits is laid on free cells, each in a place of its own.
LEMMA CommittedFits ==
    ASSUME GameTyped, Game!Valid, y >= 0, Len(data) = Width * Height
    PROVE  /\ ~Game!Committed.thrown
           /\ Len(Game!Committed.data) = Width * Height
           /\ Ones(Game!Committed.data) = Ones(data) + Len(Game!Cells)
<1> DEFINE N == Len(Game!Cells)
           M == Width * Height
<1>0. N \in Nat /\ M \in Nat /\ DOMAIN Game!Cells = 1 .. N
  BY CellFacts, GameConstants
<1>1. \A j \in 1 .. N : Place(j) \in 1 .. M /\ data[Place(j)] = 0
  <2> SUFFICES ASSUME NEW j \in 1 .. N
               PROVE  Place(j) \in 1 .. M /\ data[Place(j)] = 0
    OBVIOUS
  <2>1. Game!Free(Game!Cells[j][1] + x, Game!Cells[j][2] + y)
    BY <1>0, ValidFits
  <2> QED
    BY <2>1, IndexFacts DEF Game!Free, Place
<1>2. \A i, j \in 1 .. N : Place(i) = Place(j) => i = j
  <2> SUFFICES ASSUME NEW i \in 1 .. N, NEW j \in 1 .. N, Place(i) = Place(j)
               PROVE  i = j
    OBVIOUS
  <2>1. /\ Game!Free(Game!Cells[i][1] + x, Game!Cells[i][2] + y)
        /\ Game!Free(Game!Cells[j][1] + x, Game!Cells[j][2] + y)
    BY <1>0, ValidFits
  <2> DEFINE cx == Game!Cells[i][1]
             cy == Game!Cells[i][2]
             dx == Game!Cells[j][1]
             dy == Game!Cells[j][2]
  <2>4. /\ cx \in Nat /\ cy \in Nat /\ dx \in Nat /\ dy \in Nat
        /\ x \in Int /\ y \in Int
    BY <1>0, CellFacts DEF GameTyped
  <2>5. /\ cx + x \in 0 .. Width - 1 /\ cy + y \in 0 .. Height - 1
        /\ dx + x \in 0 .. Width - 1 /\ dy + y \in 0 .. Height - 1
        /\ Game!Index(cx + x, cy + y) = Game!Index(dx + x, dy + y)
    BY <2>1 DEF Game!Free, Place
  <2> HIDE DEF cx, cy, dx, dy
  <2>2. cx + x = dx + x /\ cy + y = dy + y
    <3>1. cy + y \in Nat /\ dy + y \in Nat
      BY <2>5, GameConstants
    <3> QED
      BY <2>5, <3>1, IndexDiffers
  <2>6. cx = dx /\ cy = dy
    BY <2>2, <2>4
  <2>3. /\ Game!Cells[i][1] = Game!Cells[j][1]
        /\ Game!Cells[i][2] = Game!Cells[j][2]
    BY <2>6 DEF cx, cy, dx, dy
  <2> QED
    BY <1>0, <2>3, CellFacts
<1>3. PICK f : /\ f[0] = [data |-> data, thrown |-> FALSE]
               /\ \A j \in 1 .. N : f[j] = Game!Lay(f[j - 1], Place(j))
               /\ \A j \in 0 .. N : f[j] \in Layouts
               /\ Game!Committed = f[N]
  BY CommittedFolds
<1> DEFINE Laid(j) == /\ ~f[j].thrown
                      /\ Len(f[j].data) = M
                      /\ \A i \in 1 .. M : f[j].data[i] = 1 =>
                             data[i] = 1 \/ \E k \in 1 .. j : Place(k) = i
                      /\ Ones(f[j].data) = Ones(data) + j
           S == {j \in Nat : j <= N => Laid(j)}
<1>4. Ones(data) \in Nat
  <2>1. IsFiniteSet(1 .. M) /\ DOMAIN data = 1 .. M
    BY <1>0, FS_Interval, LenProperties DEF GameTyped
  <2> QED
    BY <2>1, FS_Subset, FS_CardinalityType DEF Ones
<1>5. 0 \in S
  <2>1. Laid(0)
    BY <1>3, <1>4
  <2> QED
    BY <2>1
<1>6. ASSUME NEW j \in Nat, j \in S PROVE j + 1 \in S
  <2> SUFFICES ASSUME j + 1 <= N PROVE Laid(j + 1)
    OBVIOUS
  <2> DEFINE p == Place(j + 1)
             d == f[j].data
             e == f[j + 1].data
  <2>1. /\ j + 1 \in 1 .. N /\ (j + 1) - 1 = j /\ j \in 0 .. N
        /\ Laid(j) /\ f[j] \in Layouts
    BY <1>0, <1>3, <1>6
  <2>2. p \in 1 .. M /\ data[p] = 0 /\ p \in Int
    BY <1>0, <1>1, <2>1
  <2>3. d \in Seq({0, 1}) /\ Len(d) = M /\ DOMAIN d = 1 .. M
    BY <2>1, LenProperties DEF Layouts
  <2>4. f[j + 1] = Game!Lay(f[j], p)
    BY <1>3, <2>1
  <2>5. ~f[j + 1].thrown /\ e = [d EXCEPT ![p] = 1]
    BY <2>1, <2>2, <2>4, LayFacts
  <2>6. e \in Seq({0, 1}) /\ Len(e) = M /\ DOMAIN e = 1 .. M
    <3>1. f[j + 1] \in Layouts
      BY <1>3, <2>1
    <3>2. DOMAIN e = 1 .. M
      BY <2>3, <2>5
    <3>3. e \in Seq({0, 1}) /\ DOMAIN e = 1 .. Len(e) /\ Len(e) \in Nat
      BY <3>1, LenProperties DEF Layouts
    <3> QED
      BY <1>0, <3>2, <3>3
  <2>7. d[p] # 1
    <3> SUFFICES ASSUME d[p] = 1 PROVE FALSE
      OBVIOUS
    <3>1. PICK k \in 1 .. j : Place(k) = p
      BY <2>1, <2>2
    <3>2. k \in 1 .. N /\ k # j + 1
      BY <1>0, <2>1
    <3> QED
      BY <1>2, <2>1, <3>1, <3>2
  <2>8. \A i \in 1 .. M : e[i] = 1 => data[i] = 1 \/ \E k \in 1 .. j + 1 : Place(k) = i
    <3> SUFFICES ASSUME NEW i \in 1 .. M, e[i] = 1, i # p
                 PROVE  data[i] = 1 \/ \E k \in 1 .. j + 1 : Place(k) = i
      BY <2>1
    <3>1. d[i] = 1
      BY <2>3, <2>5
    <3>2. 1 .. j \subseteq 1 .. j + 1
      OBVIOUS
    <3> QED
      BY <2>1, <3>1, <3>2
  <2>9. Ones(e) = Ones(d) + 1
    <3> DEFINE A == {i \in DOMAIN d : d[i] = 1}
               B == {i \in DOMAIN e : e[i] = 1}
    <3>1. B = A \cup {p} /\ p \notin A
      <4> HIDE DEF d, e, p
      <4>1. p \in B
        BY <2>2, <2>3, <2>5, <2>6
      <4>2. \A i \in 1 .. M : i # p => e[i] = d[i]
        BY <2>3, <2>5
      <4>3. /\ \A i : i \in A <=> i \in 1 .. M /\ d[i] = 1
            /\ \A i : i \in B <=> i \in 1 .. M /\ e[i] = 1
        BY <2>3, <2>6
      <4> HIDE DEF A, B, M
      <4>4. \A i : i \in B <=> i \in A \/ i = p
        BY <2>2, <4>1, <4>2, <4>3
      <4>5. p \notin A
        BY <2>7, <4>3
      <4> QED
        BY <4>4, <4>5
    <3>2. IsFiniteSet(A)
      <4>1. A \subseteq 1 .. M /\ IsFiniteSet(1 .. M)
        BY <1>0, <2>3, FS_Interval
      <4> HIDE DEF A
      <4> QED
        BY <4>1, FS_Subset
    <3>3. Cardinality(A \cup {p}) = Cardinality(A) + 1
      BY <3>1, <3>2, FS_AddElement
    <3>4. Ones(e) = Cardinality(B) /\ Ones(d) = Cardinality(A)
      BY DEF Ones
    <3> HIDE DEF A, B, d, e
    <3> QED
      BY <3>1, <3>3, <3>4
  <2>10. Ones(e) = Ones(data) + (j + 1)
    <3>1. Ones(d) = Ones(data) + j
      BY <2>1
    <3> HIDE DEF d, e
    <3> QED
      BY <1>4, <2>9, <3>1
  <2> HIDE DEF p, d
  <2> QED
    BY <2>5, <2>6, <2>8, <2>10
<1> HIDE DEF S, Laid
<1>7. \A j \in Nat : j \in S
  BY <1>5, <1>6, SetInduction
<1>8. Laid(N)
  BY <1>0, <1>7 DEF S
<1> QED
  BY <1>3, <1>8 DEF Laid

(***************************************************************************)
(* Tetris: clear-lines.                                                    *)
(***************************************************************************)

\* The cells that are set among the first n.
Count(f, n) == Cardinality({i \in 1 .. n : f[i] = 1})

LEMMA CountFacts ==
    ASSUME NEW f, NEW n \in Nat
    PROVE  /\ Count(f, n) \in Nat /\ Count(f, 0) = 0
           /\ Count(f, n + 1) = Count(f, n) + (IF f[n + 1] = 1 THEN 1 ELSE 0)
<1> DEFINE A(m) == {i \in 1 .. m : f[i] = 1}
<1>1. \A m \in Nat : IsFiniteSet(A(m))
  <2> SUFFICES ASSUME NEW m \in Nat PROVE IsFiniteSet(A(m))
    OBVIOUS
  <2>1. A(m) \subseteq 1 .. m /\ IsFiniteSet(1 .. m)
    BY FS_Interval
  <2> HIDE DEF A
  <2> QED
    BY <2>1, FS_Subset
<1>2. A(0) = {}
  OBVIOUS
<1>3. f[n + 1] = 1 => A(n + 1) = A(n) \cup {n + 1} /\ n + 1 \notin A(n)
  OBVIOUS
<1>4. f[n + 1] # 1 => A(n + 1) = A(n)
  OBVIOUS
<1>5. \A m : Count(f, m) = Cardinality(A(m))
  BY DEF Count
<1> HIDE DEF A
<1>6. Cardinality(A(n)) \in Nat /\ Cardinality(A(0)) = 0
  BY <1>1, <1>2, FS_CardinalityType, FS_EmptySet
<1>7. f[n + 1] = 1 => Cardinality(A(n + 1)) = Cardinality(A(n)) + 1
  BY <1>1, <1>3, FS_AddElement
<1> QED
  BY <1>4, <1>5, <1>6, <1>7

LEMMA OnesCount ==
    ASSUME NEW f \in Seq({0, 1})
    PROVE  Ones(f) = Count(f, Len(f))
BY LenProperties DEF Ones, Count

\* The same cells at other places.
LEMMA CountShifted ==
    ASSUME NEW f, NEW g, NEW a \in Nat, NEW n \in Nat,
           \A i \in 1 .. n : f[a + i] = g[i]
    PROVE  Count(f, a + n) = Count(f, a) + Count(g, n)
<1> DEFINE S == {m \in Nat : m <= n => Count(f, a + m) = Count(f, a) + Count(g, m)}
<1>1. 0 \in S
  BY CountFacts
<1>2. ASSUME NEW m \in Nat, m \in S PROVE m + 1 \in S
  <2> SUFFICES ASSUME m + 1 <= n
               PROVE  Count(f, a + (m + 1)) = Count(f, a) + Count(g, m + 1)
    OBVIOUS
  <2>1. /\ Count(f, a + m) = Count(f, a) + Count(g, m)
        /\ f[a + (m + 1)] = g[m + 1]
        /\ a + m \in Nat /\ a + (m + 1) = (a + m) + 1
    BY <1>2
  <2>2. /\ Count(f, a) \in Nat /\ Count(g, m) \in Nat
        /\ Count(f, (a + m) + 1) = Count(f, a + m)
                                     + (IF f[(a + m) + 1] = 1 THEN 1 ELSE 0)
        /\ Count(g, m + 1) = Count(g, m) + (IF g[m + 1] = 1 THEN 1 ELSE 0)
    BY <2>1, CountFacts
  <2> QED
    BY <2>1, <2>2
<1> HIDE DEF S
<1>3. n \in S
  BY <1>1, <1>2, SetInduction
<1> QED
  BY <1>3 DEF S

LEMMA CountSame ==
    ASSUME NEW f, NEW g, NEW n \in Nat, \A i \in 1 .. n : f[i] = g[i]
    PROVE  Count(f, n) = Count(g, n)
<1>1. {i \in 1 .. n : f[i] = 1} = {i \in 1 .. n : g[i] = 1}
  OBVIOUS
<1> QED
  BY <1>1 DEF Count

\* Two vectors, one behind the other.
LEMMA ConcatParts ==
    ASSUME NEW f \in Seq({0, 1}), NEW g \in Seq({0, 1})
    PROVE  /\ f \o g \in Seq({0, 1}) /\ Len(f \o g) = Len(f) + Len(g)
           /\ Len(f) \in Nat /\ Len(g) \in Nat
           /\ \A i \in 1 .. Len(f) : (f \o g)[i] = f[i]
           /\ \A i \in 1 .. Len(g) : (f \o g)[Len(f) + i] = g[i]
<1>1. /\ f \o g \in Seq({0, 1}) /\ Len(f \o g) = Len(f) + Len(g)
      /\ Len(f) \in Nat /\ Len(g) \in Nat
      /\ \A i \in 1 .. Len(f) + Len(g) :
            (f \o g)[i] = IF i <= Len(f) THEN f[i] ELSE g[i - Len(f)]
  BY ConcatProperties, LenProperties
<1>2. ASSUME NEW i \in 1 .. Len(g) PROVE (f \o g)[Len(f) + i] = g[i]
  <2>1. /\ Len(f) + i \in 1 .. Len(f) + Len(g) /\ ~(Len(f) + i <= Len(f))
        /\ Len(f) + i - Len(f) = i
    BY <1>1
  <2> QED
    BY <1>1, <2>1
<1> QED
  BY <1>1, <1>2

LEMMA OnesConcat ==
    ASSUME NEW f \in Seq({0, 1}), NEW g \in Seq({0, 1})
    PROVE  Ones(f \o g) = Ones(f) + Ones(g)
<1>1. /\ f \o g \in Seq({0, 1}) /\ Len(f \o g) = Len(f) + Len(g)
      /\ Len(f) \in Nat /\ Len(g) \in Nat
      /\ \A i \in 1 .. Len(f) : (f \o g)[i] = f[i]
      /\ \A i \in 1 .. Len(g) : (f \o g)[Len(f) + i] = g[i]
  BY ConcatParts
<1> DEFINE h == f \o g
<1> HIDE DEF h
<1>4. /\ \A i \in 1 .. Len(f) : h[i] = f[i]
      /\ \A i \in 1 .. Len(g) : h[Len(f) + i] = g[i]
  BY <1>1 DEF h
<1>2. Count(h, Len(f) + Len(g)) = Count(h, Len(f)) + Count(g, Len(g))
  BY <1>1, <1>4, CountShifted
<1>3. Count(h, Len(f)) = Count(f, Len(f))
  BY <1>1, <1>4, CountSame
<1> QED
  BY <1>1, <1>2, <1>3, OnesCount DEF h

\* All cells set, or none.
LEMMA CountAll ==
    ASSUME NEW f, NEW n \in Nat, NEW c, \A i \in 1 .. n : f[i] = c
    PROVE  /\ c = 1 => Count(f, n) = n
           /\ c # 1 => Count(f, n) = 0
<1>1. ASSUME c = 1 PROVE Count(f, n) = n
  <2>1. {i \in 1 .. n : f[i] = 1} = 1 .. n
    BY <1>1
  <2>2. Cardinality(1 .. n) = n
    BY FS_Interval
  <2> QED
    BY <2>1, <2>2 DEF Count
<1>2. ASSUME c # 1 PROVE Count(f, n) = 0
  <2>1. {i \in 1 .. n : f[i] = 1} = {}
    BY <1>2
  <2> QED
    BY <2>1, FS_EmptySet DEF Count
<1> QED
  BY <1>1, <1>2

\* The rows of the vector.
LEMMA RowFacts ==
    ASSUME GameTyped
    PROVE  /\ Game!Rows \in Nat /\ Width * Game!Rows \in Nat
           /\ Width * Game!Rows <= Len(data)
           /\ Len(data) = Width * Height => Game!Rows = Height
<1> DEFINE L == Len(data)
<1>1. L \in Nat
  BY LenProperties DEF GameTyped
<1>2. Game!Rows = L \div Width
  BY DEF Game!Rows
<1> HIDE DEF L
<1>3. /\ L % Width \in 0 .. Width - 1 /\ L \div Width \in Nat
      /\ L = Width * (L \div Width) + (L % Width)
  BY <1>1, Division, GameConstants
<1> DEFINE q == L \div Width
           r == L % Width
<1> HIDE DEF q, r
<1>4. q \in Nat /\ r \in 0 .. Width - 1 /\ L = Width * q + r /\ Width * q \in Nat
  <2>1. q \in Nat
    BY <1>3 DEF q
  <2>2. Width * q \in Nat
    BY <2>1, GameConstants
  <2> QED
    BY <1>3, <2>1, <2>2 DEF q, r
<1>5. ASSUME L = Width * Height PROVE q = Height
  <2>1. Width * Height = Width * q + r
    BY <1>4, <1>5
  <2>2. Width * Height + 0 = Width * q + r
    BY <2>1, GameConstants
  <2>3. r = 0
    BY <1>4, <2>2, QuotientUnique, GameConstants
  <2>4. Width * Height = Width * q
    BY <1>4, <2>1, <2>3
  <2> DEFINE d == IF Height < q THEN q - Height - 1 ELSE Height - q - 1
  <2>5. ASSUME NEW a \in Nat, NEW b \in Nat, a < b PROVE Width * a # Width * b
    <3>1. b - a - 1 \in Nat /\ b = a + 1 + (b - a - 1)
      BY <2>5
    <3> DEFINE e == b - a - 1
    <3> HIDE DEF e
    <3>2. e \in Nat /\ b = a + 1 + e
      BY <3>1 DEF e
    <3>3. /\ Width * (a + 1 + e) = Width * a + Width + Width * e
          /\ Width * e \in Nat /\ Width * a \in Nat
      BY <3>2, GameConstants
    <3> QED
      BY <3>2, <3>3, GameConstants
  <2> QED
    BY <1>4, <2>4, <2>5, GameConstants
<1> QED
  BY <1>2, <1>4, <1>5 DEF q, L

LEMMA RowTyped ==
    ASSUME GameTyped, NEW r \in 1 .. Game!Rows
    PROVE  /\ Width * (r - 1) \in Nat /\ Width * r = Width * (r - 1) + Width
           /\ \A i \in 1 .. Width : Width * (r - 1) + i \in 1 .. Len(data)
           /\ Game!Row(r) \in Seq({0, 1}) /\ Len(Game!Row(r)) = Width
           /\ \A i \in 1 .. Width : Game!Row(r)[i] = data[Width * (r - 1) + i]
<1>1. Width \in Nat \ {0} /\ Game!Rows \in Nat /\ Width * Game!Rows <= Len(data)
  BY GameConstants, RowFacts
<1> DEFINE k == r - 1
           e == Game!Rows - r
<1>2. k \in Nat /\ e \in Nat /\ r = k + 1 /\ Game!Rows = k + 1 + e
  BY <1>1
<1> HIDE DEF k, e
<1>3. /\ Width * k \in Nat /\ Width * e \in Nat
      /\ Width * (k + 1) = Width * k + Width
      /\ Width * (k + 1 + e) = Width * k + Width + Width * e
  BY <1>1, <1>2
<1>4. Len(data) \in Nat /\ \A i \in 1 .. Len(data) : data[i] \in {0, 1}
  BY LenProperties, ElementOfSeq DEF GameTyped
<1>5. \A i \in 1 .. Width : Width * k + i \in 1 .. Len(data)
  BY <1>1, <1>2, <1>3, <1>4
<1>6. Game!Row(r) = [i \in 1 .. Width |-> data[Width * k + i]]
  BY DEF Game!Row, k
<1>7. \A i \in 1 .. Width : data[Width * k + i] \in {0, 1}
  BY <1>4, <1>5
<1>8. Game!Row(r) \in [1 .. Width -> {0, 1}]
  BY <1>6, <1>7
<1>9. Game!Row(r) \in Seq({0, 1}) /\ Len(Game!Row(r)) = Width
  BY <1>1, <1>8
<1> QED
  BY <1>2, <1>3, <1>5, <1>6, <1>9 DEF k

\* clear-lines goes through the rows one by one.
LEMMA RemainingFolds ==
    ASSUME GameTyped
    PROVE  \E f : /\ f[0] = << >>
                  /\ \A r \in 1 .. Game!Rows :
                        f[r] = IF r \in Game!FullRows THEN f[r - 1]
                                                      ELSE f[r - 1] \o Game!Row(r)
                  /\ \A r \in 0 .. Game!Rows : f[r] \in Seq({0, 1})
                  /\ Game!Remaining = f[Game!Rows]
<1> DEFINE N == Game!Rows
           Keep(s, r) == IF r \in Game!FullRows THEN s ELSE s \o Game!Row(r)
           step == [r \in 1 .. N |-> [s \in Seq({0, 1}) |-> Keep(s, r)]]
           next(f, r) == IF r = 0 THEN << >> ELSE Keep(f[r - 1], r)
           IsKept(f) == f = [r \in 0 .. N |-> next(f, r)]
<1>0. N \in Nat
  BY RowFacts
<1>1. ASSUME NEW r \in 1 .. N, NEW s \in Seq({0, 1}) PROVE Keep(s, r) \in Seq({0, 1})
  BY RowTyped, ConcatProperties
<1>2. Game!Remaining = (CHOOSE f : IsKept(f))[N]
  BY DEF Game!Remaining
<1> HIDE DEF N, Keep
<1>3. \A s \in Seq({0, 1}), r \in 1 .. N : step[r][s] = Keep(s, r)
  OBVIOUS
<1> HIDE DEF step
<1>4. PICK f : Folds(f, << >>, step, N)
  BY <1>0, FoldsExist
<1>5. f[0] = << >> /\ \A r \in 1 .. N : f[r] = step[r][f[r - 1]]
  BY <1>0, <1>4, FoldsAt
<1>6. \A r \in 0 .. N : f[r] \in Seq({0, 1})
  <2> DEFINE S == {r \in Nat : r <= N => f[r] \in Seq({0, 1})}
  <2>1. 0 \in S
    BY <1>5, EmptySeq
  <2>2. ASSUME NEW r \in Nat, r \in S PROVE r + 1 \in S
    <3> SUFFICES ASSUME r + 1 <= N PROVE f[r + 1] \in Seq({0, 1})
      OBVIOUS
    <3>1. r + 1 \in 1 .. N /\ (r + 1) - 1 = r /\ f[r] \in Seq({0, 1})
      BY <1>0, <2>2
    <3>2. f[r + 1] = Keep(f[r], r + 1)
      BY <1>3, <1>5, <3>1
    <3> QED
      BY <1>1, <3>1, <3>2
  <2> HIDE DEF S
  <2>3. \A r \in Nat : r \in S
    BY <2>1, <2>2, SetInduction
  <2> QED
    BY <1>0, <2>3 DEF S
<1>7. IsKept(f)
  <2>1. f = [r \in 0 .. N |-> IF r = 0 THEN << >> ELSE step[r][f[r - 1]]]
    BY <1>4 DEF Folds
  <2>2. \A r \in 0 .. N : (IF r = 0 THEN << >> ELSE step[r][f[r - 1]]) = next(f, r)
    <3> SUFFICES ASSUME NEW r \in 1 .. N
                 PROVE  step[r][f[r - 1]] = Keep(f[r - 1], r)
      BY <1>0
    <3>1. r - 1 \in 0 .. N
      BY <1>0
    <3> QED
      BY <1>3, <1>6, <3>1
  <2> HIDE DEF next
  <2> QED
    BY <2>1, <2>2
<1> DEFINE g == CHOOSE h : IsKept(h)
<1>8. IsKept(g)
  <2> HIDE DEF IsKept
  <2> QED
    BY <1>7
<1>9. Game!Remaining = g[N]
  BY <1>2
<1> HIDE DEF g
<1>10. g[0] = << >> /\ \A r \in 1 .. N : g[r] = Keep(g[r - 1], r)
  <2> HIDE DEF next
  <2>1. \A r \in 0 .. N : g[r] = next(g, r)
    BY <1>8
  <2> QED
    BY <1>0, <2>1 DEF next
<1>11. \A r \in 0 .. N : g[r] \in Seq({0, 1})
  <2> DEFINE S == {r \in Nat : r <= N => g[r] \in Seq({0, 1})}
  <2>1. 0 \in S
    BY <1>10, EmptySeq
  <2>2. ASSUME NEW r \in Nat, r \in S PROVE r + 1 \in S
    <3> SUFFICES ASSUME r + 1 <= N PROVE g[r + 1] \in Seq({0, 1})
      OBVIOUS
    <3>1. r + 1 \in 1 .. N /\ (r + 1) - 1 = r /\ g[r] \in Seq({0, 1})
      BY <1>0, <2>2
    <3>2. g[r + 1] = Keep(g[r], r + 1)
      BY <1>10, <3>1
    <3> QED
      BY <1>1, <3>1, <3>2
  <2> HIDE DEF S
  <2>3. \A r \in Nat : r \in S
    BY <2>1, <2>2, SetInduction
  <2> QED
    BY <1>0, <2>3 DEF S
<1> QED
  BY <1>9, <1>10, <1>11 DEF N, Keep

\* Cells of m rows none of which is full.
NoFull(f, m) == \A q \in 1 .. m : \E i \in 1 .. Width : f[Width * (q - 1) + i] # 1

LEMMA RowIndex ==
    ASSUME NEW m \in Nat, NEW q \in 1 .. m, NEW i \in 1 .. Width
    PROVE  /\ Width * m \in Nat /\ Width * (q - 1) \in Nat
           /\ Width * (q - 1) + i \in 1 .. Width * m
<1> DEFINE k == q - 1
           e == m - q
<1>1. k \in Nat /\ e \in Nat /\ m = k + 1 + e
  OBVIOUS
<1> HIDE DEF k, e
<1>2. /\ Width * k \in Nat /\ Width * e \in Nat
      /\ Width * (k + 1 + e) = Width * k + Width + Width * e
      /\ Width \in Nat
  BY <1>1, GameConstants
<1>3. Width * m \in Nat /\ Width * k + i \in 1 .. Width * m
  BY <1>1, <1>2
<1> QED
  BY <1>2, <1>3 DEF k

LEMMA NoFullConcat ==
    ASSUME NEW f \in Seq({0, 1}), NEW m \in Nat, Len(f) = Width * m, NoFull(f, m),
           NEW g \in Seq({0, 1}), NEW n \in Nat, Len(g) = Width * n, NoFull(g, n)
    PROVE  NoFull(f \o g, m + n) /\ Len(f \o g) = Width * (m + n)
<1> DEFINE h == f \o g
<1>1. /\ Len(h) = Len(f) + Len(g)
      /\ \A i \in 1 .. Len(f) : h[i] = f[i]
      /\ \A i \in 1 .. Len(g) : h[Len(f) + i] = g[i]
  BY ConcatParts
<1> HIDE DEF h
<1>2. Width * m \in Nat /\ Width * n \in Nat /\ Width * (m + n) = Width * m + Width * n
  BY GameConstants
<1>3. ASSUME NEW q \in 1 .. m + n
      PROVE  \E i \in 1 .. Width : h[Width * (q - 1) + i] # 1
  <2>1. CASE q <= m
    <3>1. q \in 1 .. m
      BY <2>1
    <3>2. PICK i \in 1 .. Width : f[Width * (q - 1) + i] # 1
      BY <3>1 DEF NoFull
    <3>3. h[Width * (q - 1) + i] = f[Width * (q - 1) + i]
      BY <1>1, <3>1, RowIndex
    <3> QED
      BY <3>2, <3>3
  <2>2. CASE q > m
    <3> DEFINE p == q - m
    <3>1. p \in 1 .. n /\ q - 1 = m + (p - 1) /\ p - 1 \in Nat
      BY <2>2
    <3> HIDE DEF p
    <3>2. PICK i \in 1 .. Width : g[Width * (p - 1) + i] # 1
      BY <3>1 DEF NoFull
    <3>3. h[Len(f) + (Width * (p - 1) + i)] = g[Width * (p - 1) + i]
      BY <1>1, <3>1, RowIndex
    <3>4. Width * (m + (p - 1)) = Width * m + Width * (p - 1)
          /\ Width * (p - 1) \in Nat
      BY <3>1, GameConstants
    <3>5. Len(f) + (Width * (p - 1) + i) = Width * (q - 1) + i
      BY <1>2, <3>1, <3>4
    <3> QED
      BY <3>2, <3>3, <3>5
  <2> QED
    BY <2>1, <2>2
<1>4. Len(h) = Width * (m + n)
  BY <1>1, <1>2
<1> QED
  BY <1>3, <1>4 DEF NoFull, h

\* What is kept are the rows that are not full, and all cells but the full rows'.
Full(r) == {q \in Game!FullRows : q <= r}

LEMMA FullFacts ==
    ASSUME GameTyped, NEW r \in Nat
    PROVE  /\ Cardinality(Full(r)) \in Nat /\ Full(0) = {}
           /\ r + 1 \in Game!FullRows =>
                 Cardinality(Full(r + 1)) = Cardinality(Full(r)) + 1
           /\ r + 1 \notin Game!FullRows => Full(r + 1) = Full(r)
           /\ Full(Game!Rows) = Game!FullRows
<1> DEFINE N == Game!Rows
           F == Game!FullRows
<1>1. N \in Nat /\ \A q \in F : q \in 1 .. N
  BY RowFacts DEF Game!FullRows
<1>2. \A m : Full(m) = {q \in F : q <= m}
  BY DEF Full
<1> HIDE DEF N, F
<1>3. IsFiniteSet(Full(r))
  <2>1. Full(r) \subseteq 1 .. N
    BY <1>1, <1>2
  <2>2. IsFiniteSet(1 .. N)
    BY <1>1, FS_Interval
  <2> QED
    BY <2>1, <2>2, FS_Subset
<1>4. ASSUME r + 1 \in F
      PROVE  Full(r + 1) = Full(r) \cup {r + 1} /\ r + 1 \notin Full(r)
  <2>1. \A q \in F : q \in Int
    BY <1>1
  <2>2. \A q : q \in Full(r + 1) <=> q \in Full(r) \/ q = r + 1
    BY <1>2, <1>4, <2>1
  <2> QED
    BY <1>2, <2>2
<1>5. ASSUME r + 1 \notin F PROVE Full(r + 1) = Full(r)
  <2>1. \A q \in F : q \in Int
    BY <1>1
  <2>2. \A q : q \in Full(r + 1) <=> q \in Full(r)
    BY <1>2, <1>5, <2>1
  <2>3. /\ Full(r + 1) = {q \in F : q <= r + 1}
        /\ Full(r) = {q \in F : q <= r}
    BY <1>2
  <2> QED
    BY <2>2, <2>3
<1>6. Full(0) = {} /\ Full(N) = F
  BY <1>1, <1>2
<1>7. Cardinality(Full(r)) \in Nat
  BY <1>3, FS_CardinalityType
<1>8. r + 1 \in F => Cardinality(Full(r + 1)) = Cardinality(Full(r)) + 1
  BY <1>3, <1>4, FS_AddElement
<1> QED
  BY <1>5, <1>6, <1>7, <1>8 DEF N, F

\* The cells that are set in a row, and before the next.
LEMMA RowCount ==
    ASSUME GameTyped, NEW r \in 1 .. Game!Rows
    PROVE  /\ Count(data, Width * r)
                = Count(data, Width * (r - 1)) + Ones(Game!Row(r))
           /\ r \in Game!FullRows => Ones(Game!Row(r)) = Width
           /\ r \notin Game!FullRows => NoFull(Game!Row(r), 1)
<1> DEFINE k == Width * (r - 1)
           row == Game!Row(r)
<1>1. /\ k \in Nat /\ Width * r = k + Width
      /\ row \in Seq({0, 1}) /\ Len(row) = Width
      /\ \A i \in 1 .. Width : row[i] = data[k + i]
      /\ Width \in Nat
  BY RowTyped, GameConstants
<1>2. r \in Game!FullRows <=> \A i \in 1 .. Width : data[k + i] = 1
  BY DEF Game!FullRows
<1> HIDE DEF k, row
<1>3. Ones(row) = Count(row, Width)
  BY <1>1, OnesCount
<1>4. Count(data, k + Width) = Count(data, k) + Count(row, Width)
  <2>1. \A i \in 1 .. Width : data[k + i] = row[i]
    BY <1>1
  <2>2. k \in Nat /\ Width \in Nat
    BY <1>1
  <2> DEFINE n == Width
             f == data
  <2>3. n \in Nat /\ k \in Nat /\ \A i \in 1 .. n : f[k + i] = row[i]
    BY <2>1, <2>2
  <2> HIDE DEF n, f
  <2>4. Count(f, k + n) = Count(f, k) + Count(row, n)
    BY <2>3, CountShifted
  <2> QED
    BY <2>4 DEF n, f
<1>5. r \in Game!FullRows => Count(row, Width) = Width
  <2> SUFFICES ASSUME r \in Game!FullRows PROVE Count(row, Width) = Width
    OBVIOUS
  <2>1. \A i \in 1 .. Width : row[i] = 1
    BY <1>1, <1>2
  <2> QED
    BY <1>1, <2>1, CountAll
<1>6. r \notin Game!FullRows => NoFull(row, 1)
  <2> SUFFICES ASSUME r \notin Game!FullRows PROVE NoFull(row, 1)
    OBVIOUS
  <2>1. PICK i \in 1 .. Width : row[i] # 1
    BY <1>1, <1>2
  <2>2. Width * (1 - 1) + i = i
    BY <1>1
  <2>3. \A q \in 1 .. 1 : q = 1
    OBVIOUS
  <2> QED
    BY <2>1, <2>2, <2>3 DEF NoFull
<1> QED
  BY <1>1, <1>3, <1>4, <1>5, <1>6 DEF k, row

LEMMA RemainingFacts ==
    ASSUME GameTyped
    PROVE  /\ Game!Cleared \in Nat /\ Game!Remaining \in Seq({0, 1})
           /\ \E m \in Nat : /\ m + Game!Cleared = Game!Rows
                             /\ Len(Game!Remaining) = Width * m
                             /\ NoFull(Game!Remaining, m)
           /\ Ones(Game!Remaining) + Width * Game!Cleared
                = Count(data, Width * Game!Rows)
<1> DEFINE N == Game!Rows
<1>1. N \in Nat
  BY RowFacts
<1>2. PICK f : /\ f[0] = << >>
               /\ \A r \in 1 .. N :
                     f[r] = IF r \in Game!FullRows THEN f[r - 1]
                                                   ELSE f[r - 1] \o Game!Row(r)
               /\ \A r \in 0 .. N : f[r] \in Seq({0, 1})
               /\ Game!Remaining = f[N]
  BY RemainingFolds
<1> DEFINE c(r) == Cardinality(Full(r))
           Kept(r) == /\ \E m \in Nat : /\ m + c(r) = r
                                        /\ Len(f[r]) = Width * m
                                        /\ NoFull(f[r], m)
                      /\ Ones(f[r]) + Width * c(r) = Count(data, Width * r)
           S == {r \in Nat : r <= N => Kept(r)}
<1>3. ASSUME NEW r \in Nat
      PROVE  /\ c(r) \in Nat
             /\ r + 1 \in Game!FullRows => c(r + 1) = c(r) + 1
             /\ r + 1 \notin Game!FullRows => c(r + 1) = c(r)
  <2>1. r + 1 \notin Game!FullRows => Full(r + 1) = Full(r)
    BY FullFacts
  <2>2. /\ c(r) \in Nat
        /\ r + 1 \in Game!FullRows => c(r + 1) = c(r) + 1
    BY FullFacts
  <2> QED
    BY <2>1, <2>2
<1>4. c(0) = 0 /\ c(N) = Game!Cleared
  <2>1. Full(0) = {} /\ Full(N) = Game!FullRows
    BY <1>1, FullFacts
  <2>2. Cardinality({}) = 0
    BY FS_EmptySet
  <2>3. c(0) = 0
    BY <2>1, <2>2
  <2>4. Game!Cleared = Cardinality(Game!FullRows)
    BY DEF Game!Cleared, Game!Cardinality, Cardinality
  <2> QED
    BY <2>1, <2>3, <2>4
<1> HIDE DEF c, N
<1>5. 0 \in S
  <2>1. f[0] \in Seq({0, 1}) /\ Len(f[0]) = 0
    BY <1>1, <1>2, EmptySeq
  <2>2. Width * 0 = 0 /\ Ones(f[0]) = 0 /\ Count(data, 0) = 0
    <3>1. Count(f[0], 0) = 0 /\ Count(data, 0) = 0
      BY CountFacts, 0 \in Nat
    <3>2. Ones(f[0]) = Count(f[0], 0)
      BY <2>1, OnesCount
    <3> QED
      BY <3>1, <3>2, GameConstants
  <2>3. NoFull(f[0], 0)
    BY DEF NoFull
  <2>4. 0 \in Nat /\ 0 + c(0) = 0
    BY <1>4
  <2> QED
    BY <1>4, <2>1, <2>2, <2>3, <2>4
<1>6. ASSUME NEW r \in Nat, r \in S PROVE r + 1 \in S
  <2> SUFFICES ASSUME r + 1 <= N PROVE Kept(r + 1)
    OBVIOUS
  <2>1. r + 1 \in 1 .. N /\ (r + 1) - 1 = r /\ r \in 0 .. N /\ r + 1 \in 0 .. N
    BY <1>1
  <2>2. PICK m \in Nat : m + c(r) = r /\ Len(f[r]) = Width * m /\ NoFull(f[r], m)
    BY <1>1, <1>6
  <2>3. Ones(f[r]) + Width * c(r) = Count(data, Width * r)
    BY <1>1, <1>6
  <2>4. /\ Width * (r + 1) = Width * r + Width /\ Width * r \in Nat
        /\ Game!Row(r + 1) \in Seq({0, 1}) /\ Len(Game!Row(r + 1)) = Width
        /\ Count(data, Width * (r + 1))
             = Count(data, Width * r) + Ones(Game!Row(r + 1))
        /\ r + 1 \in Game!FullRows => Ones(Game!Row(r + 1)) = Width
        /\ r + 1 \notin Game!FullRows => NoFull(Game!Row(r + 1), 1)
    BY <2>1, RowTyped, RowCount DEF N
  <2>5. /\ f[r] \in Seq({0, 1}) /\ f[r + 1] \in Seq({0, 1})
        /\ c(r) \in Nat /\ Width * c(r) \in Nat
        /\ Width * (c(r) + 1) = Width * c(r) + Width
    <3>1. f[r] \in Seq({0, 1}) /\ f[r + 1] \in Seq({0, 1})
      BY <1>2, <2>1
    <3>2. c(r) \in Nat
      BY <1>3
    <3>3. Width * c(r) \in Nat /\ Width * (c(r) + 1) = Width * c(r) + Width
      BY <3>2, GameConstants
    <3> QED
      BY <3>1, <3>2, <3>3
  <2>6. Ones(f[r]) \in Nat /\ Width \in Nat
    <3>1. Len(f[r]) \in Nat /\ Ones(f[r]) = Count(f[r], Len(f[r]))
      BY <2>5, OnesCount, LenProperties
    <3> QED
      BY <3>1, CountFacts, GameConstants
  <2>7. CASE r + 1 \in Game!FullRows
    <3>1. f[r + 1] = f[r] /\ c(r + 1) = c(r) + 1
      BY <1>2, <1>3, <2>1, <2>7
    <3>2. m + c(r + 1) = r + 1
      BY <2>2, <2>5, <3>1
    <3>3. Ones(f[r + 1]) + Width * c(r + 1) = Count(data, Width * (r + 1))
      BY <2>3, <2>4, <2>5, <2>6, <2>7, <3>1
    <3> QED
      BY <2>2, <3>1, <3>2, <3>3
  <2>8. CASE r + 1 \notin Game!FullRows
    <3>1. f[r + 1] = f[r] \o Game!Row(r + 1) /\ c(r + 1) = c(r)
      BY <1>2, <1>3, <2>1, <2>8
    <3>2. (m + 1) + c(r + 1) = r + 1 /\ m + 1 \in Nat
      <4>1. m + c(r) = r /\ c(r) \in Nat /\ c(r + 1) = c(r)
        BY <2>2, <2>5, <3>1
      <4> QED
        BY <4>1
    <3>3. Width * 1 = Width
      BY <2>6
    <3>4. NoFull(f[r + 1], m + 1) /\ Len(f[r + 1]) = Width * (m + 1)
      <4> DEFINE a == f[r]
                 b == Game!Row(r + 1)
      <4>1. /\ a \in Seq({0, 1}) /\ Len(a) = Width * m /\ NoFull(a, m)
            /\ b \in Seq({0, 1}) /\ Len(b) = Width * 1 /\ NoFull(b, 1)
            /\ 1 \in Nat
        BY <2>2, <2>4, <2>5, <2>8, <3>3
      <4> HIDE DEF a, b
      <4>2. NoFull(a \o b, m + 1) /\ Len(a \o b) = Width * (m + 1)
        BY <4>1, NoFullConcat
      <4> QED
        BY <3>1, <4>2 DEF a, b
    <3>5. Ones(f[r + 1]) = Ones(f[r]) + Ones(Game!Row(r + 1))
      BY <2>4, <2>5, <3>1, OnesConcat
    <3>6. Ones(Game!Row(r + 1)) \in Nat
      BY <2>4, <2>6, OnesCount, CountFacts
    <3>7. Ones(f[r + 1]) + Width * c(r + 1) = Count(data, Width * (r + 1))
      BY <2>3, <2>4, <2>5, <2>6, <3>1, <3>5, <3>6
    <3> QED
      BY <3>2, <3>4, <3>7
  <2> QED
    BY <2>7, <2>8
<1> HIDE DEF S, Kept
<1>7. \A r \in Nat : r \in S
  BY <1>5, <1>6, SetInduction
<1>8. Kept(N)
  BY <1>1, <1>7 DEF S
<1>9. Game!Remaining \in Seq({0, 1})
  BY <1>1, <1>2
<1> QED
  BY <1>1, <1>2, <1>3, <1>4, <1>8, <1>9 DEF Kept, N

\* The field after clear-lines.
ClearedField == [i \in 1 .. Width * Game!Cleared |-> 0] \o Game!Remaining

LEMMA FreeCells ==
    ASSUME NEW n \in Nat
    PROVE  /\ [i \in 1 .. n |-> 0] \in Seq({0, 1})
           /\ Len([i \in 1 .. n |-> 0]) = n
           /\ Ones([i \in 1 .. n |-> 0]) = 0
           /\ \A i \in 1 .. n : [j \in 1 .. n |-> 0][i] = 0
<1> DEFINE f == [i \in 1 .. n |-> 0]
<1>1. f \in Seq({0, 1}) /\ Len(f) = n /\ \A i \in 1 .. n : f[i] = 0
  OBVIOUS
<1> HIDE DEF f
<1>2. Ones(f) = 0
  <2> DEFINE c == 0
  <2>0. c # 1 /\ \A i \in 1 .. n : f[i] = c
    BY <1>1
  <2> HIDE DEF c
  <2>1. Count(f, n) = 0
    BY <2>0, CountAll
  <2>2. Ones(f) = Count(f, Len(f))
    BY <1>1, OnesCount
  <2> QED
    BY <1>1, <2>1, <2>2
<1> QED
  BY <1>1, <1>2 DEF f

LEMMA FreeRows ==
    ASSUME NEW m \in Nat
    PROVE  NoFull([i \in 1 .. Width * m |-> 0], m)
<1> DEFINE f == [i \in 1 .. Width * m |-> 0]
<1>1. \A i \in 1 .. Width * m : f[i] = 0
  OBVIOUS
<1> HIDE DEF f
<1>2. ASSUME NEW q \in 1 .. m
      PROVE  \E i \in 1 .. Width : f[Width * (q - 1) + i] # 1
  <2>1. 1 \in 1 .. Width
    BY GameConstants
  <2>2. Width * (q - 1) + 1 \in 1 .. Width * m
    BY <2>1, RowIndex
  <2>3. f[Width * (q - 1) + 1] # 1
    BY <1>1, <2>2
  <2> QED
    BY <2>1, <2>3
<1> QED
  BY <1>2 DEF NoFull, f

LEMMA ClearedTyped ==
    ASSUME GameTyped
    PROVE  /\ Game!Cleared \in Nat /\ Width * Game!Cleared \in Nat
           /\ ClearedField \in Seq({0, 1})
<1>1. Game!Cleared \in Nat /\ Game!Remaining \in Seq({0, 1})
  BY RemainingFacts
<1>2. Width * Game!Cleared \in Nat
  BY <1>1, GameConstants
<1> DEFINE n == Width * Game!Cleared
           f == [i \in 1 .. n |-> 0]
<1>3. f \in Seq({0, 1})
  <2> HIDE DEF n
  <2> QED
    BY <1>2, FreeCells DEF n
<1> HIDE DEF f
<1>4. f \o Game!Remaining \in Seq({0, 1})
  BY <1>1, <1>3, ConcatParts
<1> QED
  BY <1>1, <1>2, <1>4 DEF ClearedField, f

\* clear-lines removes the full rows, and no cell of another row.
LEMMA ClearedFacts ==
    ASSUME GameTyped, Len(data) = Width * Height
    PROVE  /\ Len(ClearedField) = Width * Height
           /\ NoFull(ClearedField, Height)
           /\ Ones(ClearedField) = Ones(data) - Width * Game!Cleared
<1> DEFINE c == Game!Cleared
           n == Width * c
           f == [i \in 1 .. n |-> 0]
           g == Game!Remaining
<1>1. /\ c \in Nat /\ g \in Seq({0, 1})
      /\ \E m \in Nat : m + c = Height /\ Len(g) = Width * m /\ NoFull(g, m)
      /\ Ones(g) + n = Count(data, Width * Height)
  BY RemainingFacts, RowFacts
<1>2. n \in Nat /\ ClearedField = f \o g /\ f = [i \in 1 .. Width * c |-> 0]
  BY <1>1, GameConstants DEF ClearedField
<1>3. Ones(data) = Count(data, Width * Height)
  BY OnesCount DEF GameTyped
<1> HIDE DEF g, c
<1>4. f \in Seq({0, 1}) /\ Len(f) = n /\ Ones(f) = 0
  <2> HIDE DEF n
  <2> QED
    BY <1>2, FreeCells DEF n
<1>5. NoFull(f, c)
  BY <1>1, FreeRows
<1>6. n = Width * c
  OBVIOUS
<1> HIDE DEF f, n
<1>7. PICK m \in Nat : m + c = Height /\ Len(g) = Width * m /\ NoFull(g, m)
  BY <1>1
<1>8. NoFull(f \o g, c + m) /\ Len(f \o g) = Width * (c + m)
  <2>1. Len(f) = Width * c
    BY <1>4, <1>6
  <2> QED
    BY <1>1, <1>4, <1>5, <1>7, <2>1, NoFullConcat
<1>9. c + m = Height
  BY <1>1, <1>7
<1>10. Ones(f \o g) = Ones(g)
  <2>1. Ones(f \o g) = Ones(f) + Ones(g)
    BY <1>1, <1>4, OnesConcat
  <2>2. Ones(g) \in Nat
    BY <1>1, OnesCount, CountFacts, LenProperties
  <2> QED
    BY <1>4, <2>1, <2>2
<1>11. Ones(g) = Ones(data) - n
  <2>1. Ones(g) \in Nat
    BY <1>1, OnesCount, CountFacts, LenProperties
  <2> QED
    BY <1>1, <1>2, <1>3, <2>1
<1> QED
  BY <1>2, <1>8, <1>9, <1>10, <1>11 DEF n, c

\* Whether a row is full.
LEMMA FullRowsNone ==
    ASSUME GameTyped, Len(data) = Width * Height
    PROVE  /\ Game!FullRows = {} <=> NoFull(data, Height)
           /\ Game!Cleared = 0 => NoFull(data, Height)
<1>1. Game!Rows = Height
  BY RowFacts
<1>2. Game!FullRows = {} <=> NoFull(data, Height)
  BY <1>1 DEF Game!FullRows, NoFull
<1>3. IsFiniteSet(Game!FullRows)
  <2> DEFINE F == Game!FullRows
  <2>1. F \subseteq 1 .. Height
    BY <1>1 DEF Game!FullRows
  <2> HIDE DEF F
  <2>2. IsFiniteSet(1 .. Height)
    BY FS_Interval, GameConstants
  <2>3. IsFiniteSet(F)
    BY <2>1, <2>2, FS_Subset
  <2> QED
    BY <2>3 DEF F
<1>4. Game!Cleared = Cardinality(Game!FullRows)
  BY DEF Game!Cleared, Game!Cardinality, Cardinality
<1>5. Game!Cleared = 0 => Game!FullRows = {}
  BY <1>3, <1>4, FS_EmptySet
<1> QED
  BY <1>2, <1>5

(***************************************************************************)
(* Tetris: an empty field.                                                 *)
(***************************************************************************)

LEMMA EmptyFieldFacts ==
    /\ Game!EmptyField \in Seq({0, 1})
    /\ Len(Game!EmptyField) = Width * Height
    /\ Ones(Game!EmptyField) = 0
    /\ NoFull(Game!EmptyField, Height)
    /\ \A k \in DOMAIN Grids :
          Fits(Game!EmptyField, k, 0, Game!Centre(k, 0), 0)
<1> DEFINE n == Width * Height
           f == [i \in 1 .. n |-> 0]
<1>1. n \in Nat /\ Game!EmptyField = f
  BY GameConstants DEF Game!EmptyField
<1>2. NoFull(f, Height)
  BY GameConstants, FreeRows
<1>3. /\ f \in Seq({0, 1}) /\ Len(f) = n /\ Ones(f) = 0
      /\ \A i \in 1 .. n : f[i] = 0
  <2> HIDE DEF n
  <2> QED
    BY <1>1, FreeCells
<1> HIDE DEF f
<1>4. ASSUME NEW k \in DOMAIN Grids PROVE Fits(f, k, 0, Game!Centre(k, 0), 0)
  <2> DEFINE cells == Game!Grid(k, 0).cells
             w == Game!Grid(k, 0).width
             c == Game!Centre(k, 0)
  <2>1. /\ cells \in Seq(Nat \X Nat) /\ w \in Nat /\ w <= Width
        /\ \A j \in DOMAIN cells : cells[j][1] < w /\ cells[j][2] < Height
    BY GridFacts, FirstGrid DEF Game!HasRoom
  <2>2. c \in Nat /\ c + w <= Width
    BY <2>1, CentreFacts
  <2> SUFFICES ASSUME NEW j \in DOMAIN cells
               PROVE  FreeIn(f, cells[j][1] + c, cells[j][2] + 0)
    BY DEF Fits
  <2>3. cells[j] \in Nat \X Nat
    BY <2>1, LenProperties, ElementOfSeq
  <2>4. cells[j][1] \in Nat /\ cells[j][2] \in Nat
    BY <2>3
  <2> DEFINE a == cells[j][1]
             b == cells[j][2]
  <2>5. a \in Nat /\ b \in Nat /\ a < w /\ b < Height
    BY <2>1, <2>4
  <2> HIDE DEF a, b, cells, w, c
  <2>6. a + c \in 0 .. Width - 1 /\ b + 0 \in 0 .. Height - 1
    BY <2>1, <2>2, <2>5, GameConstants
  <2>7. f[Game!Index(a + c, b + 0)] = 0
    BY <1>3, <2>6, IndexFacts
  <2> QED
    BY <2>6, <2>7 DEF FreeIn, a, b
<1> QED
  BY <1>1, <1>2, <1>3, <1>4

(***************************************************************************)
(* Tetris: the invariant holds at first and is preserved.                  *)
(***************************************************************************)

LEMMA ValidIs ==
    /\ Game!Valid <=> Fits(data, type, rotation, x, y)
    /\ Game!Valid' <=> Fits(data', type', rotation', x', y')
BY DEF Game!Valid, Game!Taken, Game!Free, Game!Cells, Fits, FreeIn

LEMMA RestTyped ==
    ASSUME NEW a \in Int
    PROVE  a % Turns \in 0 .. Turns - 1
BY GameConstants

LEMMA GameInit == Game!Init => GameInv
<1> SUFFICES ASSUME NEW kind \in Game!Kinds, Game!InitFor(kind) PROVE GameInv
  BY DEF Game!Init
<1>1. /\ data = Game!EmptyField /\ type = kind /\ rotation = 0
      /\ x = Game!Centre(type, 0) /\ y = 0 /\ is_game_over = FALSE
      /\ timer = CHOOSE t \in Timers : TRUE
      /\ status = [t \in Timers |-> IF t = timer THEN "live" ELSE "cancelled"]
      /\ tasks = [t \in Timers |-> IF t = timer THEN 1 ELSE 0]
      /\ steps = [t \in GameThreads |-> Game!Idle]
      /\ overlaps = 0 /\ balance = 0
  BY DEF Game!InitFor, GameThreads
<1>2. kind \in DOMAIN Grids /\ timer \in Timers
  BY <1>1, GameConstants DEF Game!Kinds
<1>3. AllIdle
  BY <1>1 DEF AllIdle, Game!Idle
<1>4. GameTyped
  <2>1. x \in Int
    BY <1>1, <1>2, CentreFacts
  <2>2. Game!Idle \in [op : Operations, at : Places]
        /\ Game!Idle.op = "none" /\ Game!Idle.at = "idle"
    BY DEF Game!Idle, Operations, Places
  <2>3. data \in Seq({0, 1})
    BY <1>1, EmptyFieldFacts
  <2>4. /\ type \in DOMAIN Grids /\ rotation \in 0 .. Turns - 1 /\ y \in Int
        /\ is_game_over \in BOOLEAN /\ overlaps \in 0 .. MaxOverlaps
        /\ balance \in Int
    <3>1. is_game_over \in BOOLEAN /\ type \in DOMAIN Grids
      BY <1>1, <1>2
    <3>2. rotation \in 0 .. Turns - 1 /\ y \in Int
      BY <1>1, GameConstants
    <3>3. overlaps \in 0 .. MaxOverlaps /\ balance \in Int
      BY <1>1, GameConstants
    <3> QED
      BY <3>1, <3>2, <3>3
  <2>5. /\ status \in [Timers -> {"live", "cancelled", "dead"}]
        /\ tasks \in [Timers -> Nat]
    BY <1>1
  <2>6. /\ steps \in [GameThreads -> [op : Operations, at : Places]]
        /\ \A t \in GameThreads : steps[t].at = "idle" <=> steps[t].op = "none"
    BY <1>1, <2>2
  <2> QED
    BY <1>2, <2>1, <2>3, <2>4, <2>5, <2>6 DEF GameTyped
<1>5. status[timer] = "live" /\ tasks[timer] = 1
      /\ \A u \in Timers \ {timer} : status[u] # "live"
  BY <1>1, <1>2
<1>6. TimerIsKept
  BY <1>5 DEF TimerIsKept
<1>7. OneTask
  BY <1>3, <1>5 DEF OneTask, AllIdle
<1>8. Game!Valid
  BY <1>1, <1>2, ValidIs, EmptyFieldFacts
<1>9. BlockSound
  BY <1>1, <1>3, <1>8 DEF BlockSound, AllIdle
<1>10. FieldSound
  <2>1. Len(data) = Width * Height /\ Ones(data) = balance /\ NoFull(data, Height)
    BY <1>1, EmptyFieldFacts
  <2> QED
    BY <1>4, <2>1, FullRowsNone DEF FieldSound
<1>11. Alone /\ EndedIdle
  BY <1>1, <1>3 DEF Alone, EndedIdle, AllIdle
<1> QED
  BY <1>4, <1>6, <1>7, <1>9, <1>10, <1>11 DEF GameInv

\* What a step does to the place of its thread and of the others.
Goes(t, place) == /\ steps' \in [GameThreads -> [op : Operations, at : Places]]
                  /\ steps'[t].at = place
                  /\ steps'[t].op = IF place = "idle" THEN "none" ELSE steps[t].op
                  /\ \A u \in GameThreads \ {t} : steps'[u] = steps[u]

LEMMA GotoGoes ==
    ASSUME GameTyped, NEW t \in GameThreads, NEW place \in Places,
           Game!Goto(t, place)
    PROVE  Goes(t, place)
<1>1. steps \in [GameThreads -> [op : Operations, at : Places]]
  BY DEF GameTyped
<1>2. steps[t] \in [op : Operations, at : Places]
  BY <1>1
<1>3. CASE place = "idle"
  <2>1. steps' = [steps EXCEPT ![t] = Game!Idle]
    BY <1>3 DEF Game!Goto
  <2>2. /\ Game!Idle \in [op : Operations, at : Places]
        /\ Game!Idle.op = "none" /\ Game!Idle.at = "idle"
    BY DEF Game!Idle, Operations, Places
  <2> QED
    BY <1>1, <1>3, <2>1, <2>2 DEF Goes
<1>4. CASE place # "idle"
  <2> DEFINE s == [op |-> steps[t].op, at |-> place]
  <2>1. steps' = [steps EXCEPT ![t] = [@ EXCEPT !.at = place]]
    BY <1>4 DEF Game!Goto
  <2>2. [steps[t] EXCEPT !.at = place] = s
    BY <1>2
  <2>3. s \in [op : Operations, at : Places] /\ s.op = steps[t].op /\ s.at = place
    BY <1>2
  <2>4. steps' = [steps EXCEPT ![t] = s]
    BY <1>1, <2>1, <2>2
  <2> HIDE DEF s
  <2> QED
    BY <1>1, <1>4, <2>3, <2>4 DEF Goes
<1> QED
  BY <1>3, <1>4

\* The type invariant by parts.
FieldTyped   == data \in Seq({0, 1}) /\ balance \in Int
BlockTyped   == /\ type \in DOMAIN Grids /\ rotation \in 0 .. Turns - 1
                /\ x \in Int /\ y \in Int
ClockTyped   == /\ timer \in Timers
                /\ status \in [Timers -> {"live", "cancelled", "dead"}]
                /\ tasks \in [Timers -> Nat]
ThreadsTyped ==
    /\ steps \in [GameThreads -> [op : Operations, at : Places]]
    /\ \A t \in GameThreads : steps[t].at = "idle" <=> steps[t].op = "none"
CountTyped   == is_game_over \in BOOLEAN /\ overlaps \in 0 .. MaxOverlaps

LEMMA TypedParts ==
    /\ GameTyped <=> /\ FieldTyped /\ BlockTyped /\ ClockTyped
                     /\ ThreadsTyped /\ CountTyped
    /\ GameTyped' <=> /\ FieldTyped' /\ BlockTyped' /\ ClockTyped'
                      /\ ThreadsTyped' /\ CountTyped'
BY DEF GameTyped, FieldTyped, BlockTyped, ClockTyped, ThreadsTyped, CountTyped

LEMMA PartsKept ==
    ASSUME GameTyped
    PROVE  /\ UNCHANGED Game!field => FieldTyped'
           /\ UNCHANGED Game!block => BlockTyped'
           /\ UNCHANGED Game!clock => ClockTyped'
           /\ UNCHANGED <<is_game_over, overlaps>> => CountTyped'
           /\ UNCHANGED steps => ThreadsTyped'
BY DEF GameTyped, FieldTyped, BlockTyped, ClockTyped, ThreadsTyped, CountTyped,
       Game!field, Game!block, Game!clock

LEMMA GoesTyped ==
    ASSUME GameTyped, NEW t \in GameThreads, NEW place \in Places,
           Goes(t, place), place = "idle" \/ steps[t].at # "idle"
    PROVE  ThreadsTyped'
<1>1. steps'[t].at = "idle" <=> steps'[t].op = "none"
  BY DEF GameTyped, Goes
<1>2. \A u \in GameThreads \ {t} : steps'[u].at = "idle" <=> steps'[u].op = "none"
  BY DEF GameTyped, Goes
<1> QED
  BY <1>1, <1>2 DEF ThreadsTyped, Goes

LEMMA MoveTyped ==
    ASSUME GameTyped, NEW op, NEW d \in {-1, 1}, Game!MoveBlock(op, d)
    PROVE  BlockTyped'
<1>1. x' \in Int /\ y' \in Int /\ type' \in DOMAIN Grids
  BY DEF GameTyped, Game!MoveBlock
<1>2. rotation' \in 0 .. Turns - 1
  <2>1. rotation' = (rotation + d) % Turns \/ rotation' = rotation
    BY DEF Game!MoveBlock
  <2>2. rotation + d \in Int
    BY GameConstants DEF GameTyped
  <2>3. (rotation + d) % Turns \in 0 .. Turns - 1
    BY <2>2, RestTyped
  <2> QED
    BY <2>1, <2>3 DEF GameTyped
<1> QED
  BY <1>1, <1>2 DEF BlockTyped

\* Begin().
LEMMA BeginGoes ==
    ASSUME GameTyped, NEW t \in GameThreads, NEW key \in Game!Keys, Game!Begin(t, key)
    PROVE  /\ ThreadsTyped'
           /\ steps'[t].op = key
           /\ steps'[t].at = IF key = "drop" THEN "test" ELSE "change"
           /\ \A u \in GameThreads \ {t} : steps'[u] = steps[u]
<1> DEFINE s == [op |-> key, at |-> IF key = "drop" THEN "test" ELSE "change"]
<1>1. steps' = [steps EXCEPT ![t] = s]
  BY DEF Game!Begin
<1>2. /\ s \in [op : Operations, at : Places] /\ s.op = key
      /\ s.at = IF key = "drop" THEN "test" ELSE "change"
      /\ s.at # "idle" /\ key # "none"
  BY DEF Operations, Places, Game!Keys
<1> HIDE DEF s
<1>3. steps \in [GameThreads -> [op : Operations, at : Places]]
      /\ \A u \in GameThreads : steps[u].at = "idle" <=> steps[u].op = "none"
  BY DEF GameTyped
<1>4. /\ steps' \in [GameThreads -> [op : Operations, at : Places]]
      /\ steps'[t] = s /\ \A u \in GameThreads \ {t} : steps'[u] = steps[u]
  BY <1>1, <1>2, <1>3
<1>5. \A u \in GameThreads : steps'[u].at = "idle" <=> steps'[u].op = "none"
  BY <1>2, <1>3, <1>4
<1> QED
  BY <1>2, <1>4, <1>5 DEF ThreadsTyped

\* Every step is one of these.
LEMMA GameSteps ==
    ASSUME Game!Next
    PROVE  \/ \E t \in GameThreads, key \in Game!Keys : Game!Begin(t, key)
           \/ Game!PressEnter
           \/ \E t \in GameThreads : Game!Step(t)
<1>1. Game!PressKey => \E t \in GameThreads, key \in Game!Keys : Game!Begin(t, key)
  BY DEF Game!PressKey, GameThreads, Game!Threads
<1>2. (\E t \in Timers : Game!Fire(t)) =>
          \E t \in GameThreads, key \in Game!Keys : Game!Begin(t, key)
  BY DEF Game!Fire, Game!Keys, GameThreads, Game!Threads
<1>3. (\E t \in Game!Threads : Game!Step(t)) => \E t \in GameThreads : Game!Step(t)
  BY DEF GameThreads
<1> QED
  BY <1>1, <1>2, <1>3 DEF Game!Next

\* Where a step of a thread leads, with an exception or without.
LEMMA StepGoes ==
    ASSUME GameTyped, NEW t \in GameThreads, Game!Step(t)
    PROVE  /\ steps[t].at # "idle"
           /\ \E place \in Places : Goes(t, place)
<1>1. Game!Step(t) => /\ steps[t].at # "idle"
                      /\ \E place \in Places : Game!Goto(t, place)
  BY DEF Game!Step, Game!Change, Game!Test, Game!TestThrows, Game!Undo,
         Game!Commit, Game!ClearLines, Game!CancelTimer, Game!NewTimer,
         Game!ScheduleTask, Game!Deal, Game!Verify, Game!EndGame, Game!At,
         Game!Throw, Places
<1> QED
  BY <1>1, GotoGoes

LEMMA AfterThrowTyped ==
    ASSUME GameTyped, NEW t, status' = Game!AfterThrow(t), UNCHANGED <<timer, tasks>>
    PROVE  ClockTyped'
BY DEF GameTyped, ClockTyped, Game!AfterThrow

LEMMA StepTyped ==
    ASSUME GameTyped, NEW t \in GameThreads, Game!Step(t)
    PROVE  GameTyped'
<1>1. ThreadsTyped'
  BY StepGoes, GoesTyped
<1>2. CASE Game!Change(t) \/ Game!Undo(t)
  <2>1. Game!MoveBlock(steps[t].op, 1) \/ Game!MoveBlock(steps[t].op, -1)
    BY <1>2 DEF Game!Change, Game!Undo
  <2>2. BlockTyped'
    BY <2>1, MoveTyped
  <2>3. UNCHANGED <<Game!field, is_game_over, Game!clock, overlaps>>
    BY <1>2 DEF Game!Change, Game!Undo
  <2> QED
    BY <1>1, <2>2, <2>3, PartsKept, TypedParts
<1>3. CASE Game!Test(t) \/ Game!Verify(t)
  <2>1. UNCHANGED <<Game!field, Game!block, is_game_over, Game!clock, overlaps>>
    BY <1>3 DEF Game!Test, Game!Verify
  <2> QED
    BY <1>1, <2>1, PartsKept, TypedParts
<1>4. CASE Game!TestThrows(t)
  <2>1. /\ UNCHANGED <<Game!field, Game!block, is_game_over, timer, tasks, overlaps>>
        /\ status' = Game!AfterThrow(t)
    BY <1>4 DEF Game!TestThrows, Game!Throw
  <2> QED
    BY <1>1, <2>1, AfterThrowTyped, PartsKept, TypedParts
<1>5. CASE Game!Commit(t)
  <2>1. /\ UNCHANGED <<Game!block, is_game_over, timer, tasks, overlaps>>
        /\ status' = Game!AfterThrow(t) \/ status' = status
        /\ data' = Game!Committed.data
        /\ balance' = 0 \/ balance' = balance + Len(Game!Cells)
    BY <1>5 DEF Game!Commit, Game!Throw
  <2>2. FieldTyped'
    <3>1. Len(Game!Cells) \in Nat /\ balance \in Int
      BY CellFacts DEF GameTyped
    <3>2. balance' \in Int
      BY <2>1, <3>1
    <3> QED
      BY <2>1, <3>2, CommittedTyped DEF FieldTyped
  <2>3. ClockTyped'
    BY <2>1, AfterThrowTyped, PartsKept DEF Game!clock
  <2> QED
    BY <1>1, <2>1, <2>2, <2>3, PartsKept, TypedParts
<1>6. CASE Game!ClearLines(t)
  <2>1. /\ UNCHANGED <<Game!block, is_game_over, Game!clock, overlaps>>
        /\ data' = data \/ data' = ClearedField
        /\ balance' = 0 \/ balance' = balance - Width * Game!Cleared
    BY <1>6 DEF Game!ClearLines, ClearedField
  <2>2. FieldTyped'
    <3>1. Width * Game!Cleared \in Nat /\ balance \in Int
      BY ClearedTyped DEF GameTyped
    <3>2. balance' \in Int
      BY <2>1, <3>1
    <3>3. data' \in Seq({0, 1})
      BY <2>1, ClearedTyped DEF GameTyped
    <3> QED
      BY <3>2, <3>3 DEF FieldTyped
  <2> QED
    BY <1>1, <2>1, <2>2, PartsKept, TypedParts
<1>7. CASE Game!CancelTimer(t)
  <2>1. /\ UNCHANGED <<Game!field, Game!block, is_game_over, timer, tasks, overlaps>>
        /\ status' = [status EXCEPT ![timer] = "cancelled"]
    BY <1>7 DEF Game!CancelTimer
  <2>2. ClockTyped'
    BY <2>1 DEF GameTyped, ClockTyped
  <2> QED
    BY <1>1, <2>1, <2>2, PartsKept, TypedParts
<1>8. CASE Game!NewTimer(t)
  <2>1. /\ UNCHANGED <<Game!field, Game!block, is_game_over, overlaps>>
        /\ timer' \in Game!Garbage
        /\ status' = [status EXCEPT ![timer'] = "live"]
        /\ tasks' = [tasks EXCEPT ![timer'] = 0]
    BY <1>8 DEF Game!NewTimer
  <2>2. timer' \in Timers
    BY <2>1 DEF Game!Garbage
  <2>3. ClockTyped'
    BY <2>1, <2>2 DEF GameTyped, ClockTyped
  <2> QED
    BY <1>1, <2>1, <2>3, PartsKept, TypedParts
<1>9. CASE Game!ScheduleTask(t)
  <2>1. /\ UNCHANGED <<Game!field, Game!block, is_game_over, timer, overlaps>>
        /\ \/ tasks' = [tasks EXCEPT ![timer] = @ + 1] /\ status' = status
           \/ status' = Game!AfterThrow(t) /\ tasks' = tasks
    BY <1>9 DEF Game!ScheduleTask, Game!Throw
  <2>2. ClockTyped'
    <3>1. CASE tasks' = [tasks EXCEPT ![timer] = @ + 1] /\ status' = status
      BY <2>1, <3>1 DEF GameTyped, ClockTyped
    <3>2. CASE status' = Game!AfterThrow(t) /\ tasks' = tasks
      BY <2>1, <3>2, AfterThrowTyped
    <3> QED
      BY <2>1, <3>1, <3>2
  <2> QED
    BY <1>1, <2>1, <2>2, PartsKept, TypedParts
<1>10. CASE Game!Deal(t)
  <2>1. /\ UNCHANGED <<Game!field, is_game_over, Game!clock, overlaps>>
        /\ type' \in DOMAIN Grids /\ rotation' = 0 /\ y' = 0
        /\ x' = Game!Centre(type', 0)
    BY <1>10 DEF Game!Deal, Game!Kinds
  <2>2. BlockTyped'
    BY <2>1, CentreFacts, GameConstants DEF BlockTyped
  <2> QED
    BY <1>1, <2>1, <2>2, PartsKept, TypedParts
<1>11. CASE Game!EndGame(t)
  <2>1. /\ UNCHANGED <<Game!clock, overlaps, rotation, y>>
        /\ is_game_over' = TRUE
        /\ \/ UNCHANGED <<Game!field, Game!block>>
           \/ /\ data' = Game!EmptyField /\ balance' = 0
              /\ type' \in DOMAIN Grids /\ x' = Game!Centre(type', rotation)
    BY <1>11 DEF Game!EndGame, Game!Kinds, Game!block
  <2>2. CountTyped'
    BY <2>1 DEF GameTyped, CountTyped
  <2>3. CASE UNCHANGED <<Game!field, Game!block>>
    BY <1>1, <2>1, <2>2, <2>3, PartsKept, TypedParts
  <2>4. CASE /\ data' = Game!EmptyField /\ balance' = 0
             /\ type' \in DOMAIN Grids /\ x' = Game!Centre(type', rotation)
    <3>1. FieldTyped'
      BY <2>4, EmptyFieldFacts DEF FieldTyped
    <3>2. rotation \in Nat /\ rotation' = rotation /\ y' = y
      BY <2>1, GameConstants DEF GameTyped
    <3>3. BlockTyped'
      BY <2>4, <3>2, CentreFacts DEF BlockTyped, GameTyped
    <3> QED
      BY <1>1, <2>1, <2>2, <3>1, <3>3, PartsKept, TypedParts
  <2> QED
    BY <2>1, <2>3, <2>4
<1> QED
  BY <1>2, <1>3, <1>4, <1>5, <1>6, <1>7, <1>8, <1>9, <1>10, <1>11 DEF Game!Step

LEMMA GameTypedStep == GameTyped /\ [Game!Next]_(Game!vars) => GameTyped'
<1> SUFFICES ASSUME GameTyped, [Game!Next]_(Game!vars) PROVE GameTyped'
  OBVIOUS
<1>1. ASSUME NEW t \in GameThreads, NEW key \in Game!Keys, Game!Begin(t, key)
      PROVE  GameTyped'
  <2>1. /\ UNCHANGED <<Game!field, Game!block, is_game_over, Game!clock>>
        /\ overlaps' = overlaps \/ (overlaps < MaxOverlaps /\ overlaps' = overlaps + 1)
    BY <1>1 DEF Game!Begin
  <2>2. CountTyped'
    BY <2>1, GameConstants DEF GameTyped, CountTyped
  <2>3. ThreadsTyped'
    BY <1>1, BeginGoes
  <2> QED
    BY <2>1, <2>2, <2>3, PartsKept, TypedParts
<1>2. CASE Game!PressEnter
  <2>1. /\ UNCHANGED <<Game!field, Game!block, Game!clock, steps>>
        /\ is_game_over' = FALSE /\ overlaps' = overlaps
    BY <1>2 DEF Game!PressEnter
  <2>2. CountTyped'
    BY <2>1 DEF GameTyped, CountTyped
  <2> QED
    BY <2>1, <2>2, PartsKept, TypedParts
<1>3. CASE UNCHANGED Game!vars
  BY <1>3, PartsKept, TypedParts DEF Game!vars
<1> QED
  BY <1>1, <1>2, <1>3, GameSteps, StepTyped

(***************************************************************************)
(* Tetris: the timer.  This part holds however operations overlap.         *)
(***************************************************************************)

\* A thread elsewhere that is about to renew the timer, or to schedule its task,
\* stays there.
LEMMA TimerWaits ==
    ASSUME TimerIsKept, NEW t \in GameThreads,
           steps[t].at \notin {"renew", "schedule"},
           \A u \in GameThreads \ {t} : steps'[u] = steps[u],
           timer' = timer,
           status'[timer] = status[timer] \/ status'[timer] = "dead",
           tasks'[timer] = tasks[timer]
    PROVE  TimerIsKept'
<1>1. ASSUME status'[timer'] = "cancelled"
      PROVE  \E u \in GameThreads : steps'[u].at = "renew"
  <2>1. PICK u \in GameThreads : steps[u].at = "renew"
    BY <1>1 DEF TimerIsKept
  <2>2. u # t
    BY <2>1
  <2> QED
    BY <2>1, <2>2
<1>2. ASSUME status'[timer'] = "live", tasks'[timer'] = 0
      PROVE  \E u \in GameThreads : steps'[u].at = "schedule"
  <2>1. PICK u \in GameThreads : steps[u].at = "schedule"
    BY <1>2 DEF TimerIsKept
  <2>2. u # t
    BY <2>1
  <2> QED
    BY <2>1, <2>2
<1> QED
  BY <1>1, <1>2 DEF TimerIsKept

\* An exception leaves the timer in the atom as it is, or ends it.
LEMMA ThrowKeepsTimer ==
    ASSUME GameTyped, NEW t
    PROVE  \/ Game!AfterThrow(t)[timer] = status[timer]
           \/ Game!AfterThrow(t)[timer] = "dead"
BY DEF GameTyped, Game!AfterThrow

LEMMA TimerStep ==
    ASSUME GameTyped, TimerIsKept, NEW t \in GameThreads, Game!Step(t)
    PROVE  TimerIsKept'
<1>1. \A u \in GameThreads \ {t} : steps'[u] = steps[u]
  BY StepGoes DEF Goes
<1>2. CASE \/ Game!Change(t) \/ Game!Undo(t) \/ Game!Test(t) \/ Game!Verify(t)
           \/ Game!ClearLines(t) \/ Game!Deal(t) \/ Game!EndGame(t)
  <2>1. UNCHANGED Game!clock /\ steps[t].at \notin {"renew", "schedule"}
    BY <1>2 DEF Game!Change, Game!Undo, Game!Test, Game!Verify, Game!ClearLines,
       Game!Deal, Game!EndGame, Game!At
  <2> QED
    BY <1>1, <2>1, TimerWaits DEF Game!clock
<1>3. CASE Game!TestThrows(t) \/ Game!Commit(t)
  <2>1. /\ steps[t].at \notin {"renew", "schedule"}
        /\ timer' = timer /\ tasks' = tasks
        /\ status' = status \/ status' = Game!AfterThrow(t)
    BY <1>3 DEF Game!TestThrows, Game!Commit, Game!Throw, Game!At
  <2>2. status'[timer] = status[timer] \/ status'[timer] = "dead"
    BY <2>1, ThrowKeepsTimer
  <2> QED
    BY <1>1, <2>1, <2>2, TimerWaits
<1>4. CASE Game!CancelTimer(t)
  <2>1. /\ timer' = timer
        /\ status' = [status EXCEPT ![timer] = "cancelled"]
        /\ Game!Goto(t, "renew")
    BY <1>4 DEF Game!CancelTimer
  <2>2. Goes(t, "renew")
    BY <2>1, GotoGoes DEF Places
  <2>3. status'[timer'] = "cancelled"
    BY <2>1 DEF GameTyped
  <2> QED
    BY <2>2, <2>3 DEF TimerIsKept, Goes
<1>5. CASE Game!NewTimer(t)
  <2>1. /\ timer' \in Game!Garbage
        /\ status' = [status EXCEPT ![timer'] = "live"]
        /\ Game!Goto(t, "schedule")
    BY <1>5 DEF Game!NewTimer
  <2>2. Goes(t, "schedule")
    BY <2>1, GotoGoes DEF Places
  <2>3. timer' \in Timers
    BY <2>1 DEF Game!Garbage
  <2>4. status'[timer'] = "live"
    BY <2>1, <2>3 DEF GameTyped
  <2> QED
    BY <2>2, <2>4 DEF TimerIsKept, Goes
<1>6. CASE Game!ScheduleTask(t) /\ status[timer] = "live"
  <2>1. /\ timer' = timer /\ status' = status
        /\ tasks' = [tasks EXCEPT ![timer] = @ + 1]
    BY <1>6 DEF Game!ScheduleTask
  <2>2. status'[timer'] = "live" /\ tasks'[timer'] = tasks[timer] + 1
        /\ tasks[timer] \in Nat
    BY <1>6, <2>1 DEF GameTyped
  <2>3. tasks'[timer'] # 0
    BY <2>2
  <2> QED
    BY <2>2, <2>3 DEF TimerIsKept
<1>7. CASE Game!ScheduleTask(t) /\ status[timer] # "live"
  <2>1. /\ timer' = timer /\ status' = Game!AfterThrow(t)
        /\ steps[t].at = "schedule"
    BY <1>7 DEF Game!ScheduleTask, Game!Throw, Game!At
  <2>2. status'[timer] = status[timer] \/ status'[timer] = "dead"
    BY <2>1, ThrowKeepsTimer
  <2>3. ASSUME status'[timer'] = "cancelled"
        PROVE  \E u \in GameThreads : steps'[u].at = "renew"
    <3>1. PICK u \in GameThreads : steps[u].at = "renew"
      BY <2>1, <2>2, <2>3 DEF TimerIsKept
    <3>2. u # t
      BY <2>1, <3>1
    <3> QED
      BY <1>1, <3>1, <3>2
  <2>4. status'[timer'] # "live"
    BY <1>7, <2>1, <2>2
  <2> QED
    BY <2>3, <2>4 DEF TimerIsKept
<1> QED
  BY <1>2, <1>3, <1>4, <1>5, <1>6, <1>7 DEF Game!Step

LEMMA TimerIsKeptStep ==
    GameTyped /\ TimerIsKept /\ [Game!Next]_(Game!vars) => TimerIsKept'
<1> SUFFICES ASSUME GameTyped, TimerIsKept, [Game!Next]_(Game!vars)
             PROVE  TimerIsKept'
  OBVIOUS
<1>1. ASSUME NEW t \in GameThreads, NEW key \in Game!Keys, Game!Begin(t, key)
      PROVE  TimerIsKept'
  <2>1. /\ UNCHANGED Game!clock /\ steps[t].at = "idle"
        /\ \A u \in GameThreads \ {t} : steps'[u] = steps[u]
    BY <1>1, BeginGoes DEF Game!Begin, Game!At
  <2> QED
    BY <2>1, TimerWaits DEF Game!clock
<1>2. CASE Game!PressEnter \/ UNCHANGED Game!vars
  <2>1. UNCHANGED <<timer, status, tasks, steps>>
    BY <1>2 DEF Game!PressEnter, Game!vars, Game!clock
  <2> QED
    BY <2>1 DEF TimerIsKept
<1> QED
  BY <1>1, <1>2, GameSteps, TimerStep

(***************************************************************************)
(* Tetris: operations that do not overlap.                                 *)
(***************************************************************************)

LEMMA AloneStep ==
    ASSUME GameTyped, Alone, NEW t \in GameThreads, Game!Step(t)
    PROVE  /\ Alone'
           /\ \A u \in GameThreads : u # t => /\ steps[u].at = "idle"
                                              /\ steps'[u] = steps[u]
           /\ ~AllIdle
           /\ AllIdle' <=> steps'[t].at = "idle"
<1>1. steps[t].at # "idle" /\ \A u \in GameThreads \ {t} : steps'[u] = steps[u]
  BY StepGoes DEF Goes
<1>2. \A u \in GameThreads : u # t => steps[u].at = "idle" /\ steps'[u] = steps[u]
  BY <1>1 DEF Alone
<1> QED
  BY <1>1, <1>2 DEF Alone, AllIdle

\* No other thread has anything under way after a step.
LEMMA FieldKept ==
    ASSUME FieldSound, NEW t \in GameThreads,
           \A u \in GameThreads : u # t => steps[u].at = "idle",
           steps[t].at # "clear", UNCHANGED Game!field
    PROVE  FieldSound'
<1>1. Game!FullRows' = Game!FullRows /\ data' = data /\ balance' = balance
  BY DEF Game!field, Game!FullRows, Game!Rows
<1>2. \A u \in GameThreads : steps[u].at # "clear"
  OBVIOUS
<1> QED
  BY <1>1, <1>2 DEF FieldSound

LEMMA NoFullNow ==
    GameTyped /\ Len(data) = Width * Height /\ NoFull(data, Height)
        => Game!FullRows = {}
BY FullRowsNone

LEMMA NoFullAfter ==
    GameTyped' /\ Len(data') = Width * Height /\ NoFull(data', Height)
        => Game!FullRows' = {}
<1>1. (GameTyped /\ Len(data) = Width * Height /\ NoFull(data, Height)
        => Game!FullRows = {})'
  BY NoFullNow, PTL
<1> QED
  BY <1>1

LEMMA BlockAfter ==
    ASSUME NEW t \in GameThreads,
           \A u \in GameThreads : u # t => steps'[u].at = "idle",
           y' >= 0,
           steps'[t].at \in {"idle", "change", "commit"} => Game!Valid',
           steps'[t].at = "test" =>
               \/ steps'[t].op = "drop" /\ Game!Valid'
               \/ FitsBack(steps'[t].op, data', type', rotation', x', y'),
           steps'[t].at = "undo" =>
               FitsBack(steps'[t].op, data', type', rotation', x', y'),
           steps'[t].at \in {"verify", "end"} => rotation' = 0 /\ y' = 0
    PROVE  BlockSound'
BY DEF BlockSound, AllIdle

LEMMA RotateBack ==
    ASSUME NEW r \in 0 .. Turns - 1
    PROVE  (((r + 1) % Turns) - 1) % Turns = r
<1>1. Turns \in Nat \ {0} /\ r \in Nat
  BY GameConstants
<1>2. CASE r + 1 < Turns
  <2>1. (r + 1) % Turns = r + 1 /\ r % Turns = r
    <3> DEFINE s == r + 1
    <3>1. s \in Nat /\ s < Turns /\ r < Turns
      BY <1>1, <1>2
    <3> HIDE DEF s
    <3>2. s % Turns = s /\ r % Turns = r
      BY <1>1, <3>1, RestsAgree
    <3> QED
      BY <3>2 DEF s
  <2>2. (r + 1) - 1 = r
    BY <1>1
  <2> QED
    BY <2>1, <2>2
<1>3. CASE r + 1 = Turns
  <2>1. (0 + Turns) % Turns = 0 % Turns /\ 0 % Turns = 0
    BY <1>1, RestsAgree
  <2>2. (r + 1) % Turns = 0
    BY <1>1, <1>3, <2>1
  <2>3. (0 - 1) % Turns = Turns - 1
    <3> DEFINE m == (0 - 1) % Turns
               q == (0 - 1) \div Turns
    <3>1. m \in 0 .. Turns - 1 /\ q \in Int /\ 0 - 1 = Turns * q + m
      BY <1>1
    <3> HIDE DEF m, q
    <3>2. CASE q >= 0
      <4>1. Turns * q >= 0
        BY <1>1, <3>1, <3>2
      <4> QED
        BY <1>1, <3>1, <4>1
    <3>3. CASE q = -1
      <4>1. Turns * q = -Turns
        BY <1>1, <3>3
      <4>2. m = Turns - 1
        BY <1>1, <3>1, <4>1
      <4> QED
        BY <4>2 DEF m
    <3>4. CASE q <= -2
      <4> DEFINE e == -2 - q
      <4>1. e \in Nat /\ q = -2 - e
        BY <3>1, <3>4
      <4> HIDE DEF e
      <4>2. Turns * (-2 - e) = -2 * Turns - Turns * e /\ Turns * e \in Nat
        BY <1>1, <4>1
      <4> QED
        BY <1>1, <3>1, <4>1, <4>2
    <3> QED
      BY <3>1, <3>2, <3>3, <3>4
  <2> QED
    BY <1>1, <1>3, <2>2, <2>3
<1> QED
  BY <1>1, <1>2, <1>3

\* A move can be taken back.
LEMMA MoveFits ==
    ASSUME GameTyped, NEW op, Game!MoveBlock(op, 1), y >= 0,
           Fits(data, type, rotation, x, y)
    PROVE  y' >= 0 /\ FitsBack(op, data, type', rotation', x', y')
<1>1. type' = type /\ x \in Int /\ y \in Int /\ rotation \in 0 .. Turns - 1
  BY DEF Game!MoveBlock, GameTyped
<1>2. BackX(op, x') = x
  BY <1>1 DEF Game!MoveBlock, BackX
<1>3. BackY(op, y') = y /\ y' >= 0
  BY <1>1 DEF Game!MoveBlock, BackY
<1>4. BackRotation(op, rotation') = rotation
  BY <1>1, RotateBack DEF Game!MoveBlock, BackRotation
<1> QED
  BY <1>1, <1>2, <1>3, <1>4 DEF FitsBack

LEMMA UndoFits ==
    ASSUME GameTyped, NEW op, Game!MoveBlock(op, -1),
           FitsBack(op, data, type, rotation, x, y)
    PROVE  y' >= 0 /\ Fits(data, type', rotation', x', y')
<1>1. type' = type /\ x \in Int /\ y \in Int /\ rotation \in 0 .. Turns - 1
  BY DEF Game!MoveBlock, GameTyped
<1>2. x' = BackX(op, x)
  BY <1>1 DEF Game!MoveBlock, BackX
<1>3. y' = BackY(op, y)
  BY <1>1 DEF Game!MoveBlock, BackY
<1>4. rotation' = BackRotation(op, rotation)
  <2>1. rotation + -1 = rotation - 1
    BY <1>1, GameConstants
  <2> QED
    BY <2>1 DEF Game!MoveBlock, BackRotation
<1> QED
  BY <1>1, <1>2, <1>3, <1>4 DEF FitsBack

\* One operation under way.
Single(t) == /\ GameTyped /\ Alone /\ FieldSound /\ BlockSound /\ OneTask
             /\ EndedIdle /\ overlaps = 0
             /\ t \in GameThreads /\ Game!Step(t)

LEMMA SingleFacts ==
    ASSUME NEW t, Single(t)
    PROVE  /\ t \in GameThreads /\ GameTyped /\ GameTyped' /\ Alone'
           /\ \A u \in GameThreads : u # t => /\ steps[u].at = "idle"
                                              /\ steps'[u] = steps[u]
                                              /\ steps'[u].at = "idle"
           /\ y >= 0 /\ ~Game!Throws /\ is_game_over = FALSE
<1>1. t \in GameThreads /\ GameTyped /\ GameTyped' /\ Alone'
  BY StepTyped, AloneStep DEF Single
<1>2. /\ \A u \in GameThreads : u # t => steps[u].at = "idle" /\ steps'[u] = steps[u]
      /\ ~AllIdle
  BY AloneStep DEF Single
<1>3. y >= 0 /\ is_game_over = FALSE
  BY <1>2 DEF Single, BlockSound, EndedIdle, GameTyped
<1> QED
  BY <1>1, <1>2, <1>3, NoThrow

\* The field.
LEMMA FieldStep ==
    ASSUME NEW t, Single(t)
    PROVE  FieldSound'
<1>1. /\ t \in GameThreads /\ GameTyped /\ GameTyped'
      /\ \A u \in GameThreads : u # t => steps[u].at = "idle"
      /\ ~Game!Throws /\ y >= 0 /\ is_game_over = FALSE
      /\ overlaps = 0 /\ FieldSound /\ BlockSound
  BY SingleFacts DEF Single
<1>2. CASE \/ Game!Change(t) \/ Game!Test(t) \/ Game!Undo(t) \/ Game!CancelTimer(t)
           \/ Game!NewTimer(t) \/ Game!ScheduleTask(t) \/ Game!Deal(t)
           \/ Game!Verify(t)
  <2>1. UNCHANGED Game!field /\ steps[t].at # "clear"
    BY <1>2 DEF Game!Change, Game!Test, Game!Undo, Game!CancelTimer, Game!NewTimer,
       Game!ScheduleTask, Game!Deal, Game!Verify, Game!At
  <2> QED
    BY <1>1, <2>1, FieldKept
<1>3. CASE Game!TestThrows(t)
  BY <1>1, <1>3 DEF Game!TestThrows
<1>4. CASE Game!Commit(t)
  <2>1. /\ data' = Game!Committed.data /\ balance' = balance + Len(Game!Cells)
        /\ Game!Committed.thrown \/ Game!Goto(t, "clear")
        /\ steps[t].at = "commit"
    BY <1>1, <1>4 DEF Game!Commit, Game!At
  <2>2. Game!Valid /\ Len(data) = Width * Height /\ Ones(data) = balance
    BY <1>1, <2>1 DEF BlockSound, FieldSound
  <2>3. /\ ~Game!Committed.thrown
        /\ Len(data') = Width * Height
        /\ Ones(data') = Ones(data) + Len(Game!Cells)
    BY <1>1, <2>1, <2>2, CommittedFits
  <2>4. steps'[t].at = "clear"
    BY <1>1, <2>1, <2>3, GotoGoes DEF Goes, Places
  <2> QED
    BY <1>1, <2>1, <2>2, <2>3, <2>4 DEF FieldSound, Ones
<1>5. CASE Game!ClearLines(t)
  <2>1. /\ data' = IF Game!Cleared = 0 THEN data ELSE ClearedField
        /\ balance' = balance - Width * Game!Cleared
    BY <1>1, <1>5 DEF Game!ClearLines, ClearedField
  <2>2. Len(data) = Width * Height /\ Ones(data) = balance
    BY <1>1 DEF FieldSound
  <2>3. CASE Game!Cleared = 0
    <3>1. data' = data /\ balance' = balance
      BY <1>1, <2>1, <2>3, GameConstants DEF GameTyped
    <3>2. NoFull(data', Height)
      BY <1>1, <2>2, <2>3, <3>1, FullRowsNone
    <3>3. Game!FullRows' = {}
      BY <1>1, <2>2, <3>1, <3>2, NoFullAfter
    <3> QED
      BY <2>2, <3>1, <3>3 DEF FieldSound, Ones
  <2>4. CASE Game!Cleared # 0
    <3>1. data' = ClearedField
      BY <2>1, <2>4
    <3>2. /\ Len(data') = Width * Height /\ NoFull(data', Height)
          /\ Ones(data') = Ones(data) - Width * Game!Cleared
      BY <1>1, <2>2, <3>1, ClearedFacts
    <3>3. Game!FullRows' = {}
      BY <1>1, <3>2, NoFullAfter
    <3> QED
      BY <2>1, <2>2, <3>2, <3>3 DEF FieldSound, Ones
  <2> QED
    BY <2>3, <2>4
<1>6. CASE Game!EndGame(t)
  <2>1. data' = Game!EmptyField /\ balance' = 0
    BY <1>1, <1>6 DEF Game!EndGame
  <2>2. Len(data') = Width * Height /\ Ones(data') = 0 /\ NoFull(data', Height)
    BY <2>1, EmptyFieldFacts
  <2>3. Game!FullRows' = {}
    BY <1>1, <2>2, NoFullAfter
  <2> QED
    BY <2>1, <2>2, <2>3 DEF FieldSound, Ones
<1>7. Game!Step(t)
  BY DEF Single
<1> QED
  BY <1>2, <1>3, <1>4, <1>5, <1>6, <1>7 DEF Game!Step

\* The block.
LEMMA BlockStep ==
    ASSUME NEW t, Single(t)
    PROVE  BlockSound'
<1>1. /\ t \in GameThreads /\ GameTyped /\ GameTyped'
      /\ \A u \in GameThreads : u # t => steps'[u].at = "idle"
      /\ ~Game!Throws /\ y >= 0 /\ is_game_over = FALSE
      /\ FieldSound /\ BlockSound
  BY SingleFacts DEF Single
<1>2. CASE Game!Change(t)
  <2>1. /\ Game!MoveBlock(steps[t].op, 1) /\ Game!Goto(t, "test")
        /\ steps[t].at = "change" /\ data' = data
    BY <1>2 DEF Game!Change, Game!At, Game!field
  <2>2. steps'[t].at = "test" /\ steps'[t].op = steps[t].op
    BY <1>1, <2>1, GotoGoes DEF Goes, Places
  <2>3. Fits(data, type, rotation, x, y)
    BY <1>1, <2>1, ValidIs DEF BlockSound
  <2>4. y' >= 0 /\ FitsBack(steps[t].op, data, type', rotation', x', y')
    BY <1>1, <2>1, <2>3, MoveFits
  <2> QED
    BY <1>1, <2>1, <2>2, <2>4, BlockAfter
<1>3. CASE Game!Test(t)
  <2>1. /\ Game!Goto(t, CASE ~Game!Valid                         -> "undo"
                          [] Game!Valid /\ steps[t].op = "drop" -> "change"
                          [] OTHER                              -> "idle")
        /\ steps[t].at = "test" /\ data' = data
        /\ type' = type /\ rotation' = rotation /\ x' = x /\ y' = y
    BY <1>3 DEF Game!Test, Game!At, Game!field, Game!block
  <2>2. Game!Valid' <=> Game!Valid
    BY <2>1, ValidIs
  <2>3. CASE ~Game!Valid
    <3>3. Game!Goto(t, "undo")
      BY <2>1, <2>3
    <3>1. steps'[t].at = "undo" /\ steps'[t].op = steps[t].op
      BY <1>1, <3>3, GotoGoes DEF Goes, Places
    <3>2. FitsBack(steps[t].op, data, type, rotation, x, y)
      BY <1>1, <2>1, <2>3 DEF BlockSound
    <3> QED
      BY <1>1, <2>1, <3>1, <3>2, BlockAfter
  <2>4. CASE Game!Valid
    <3>1. steps'[t].at \in {"change", "idle"}
      <4>1. Game!Goto(t, "change") \/ Game!Goto(t, "idle")
        BY <2>1, <2>4
      <4> QED
        BY <1>1, <4>1, GotoGoes DEF Goes, Places
    <3> QED
      BY <1>1, <2>1, <2>2, <2>4, <3>1, BlockAfter
  <2> QED
    BY <2>3, <2>4
<1>4. CASE Game!TestThrows(t)
  BY <1>1, <1>4 DEF Game!TestThrows
<1>5. CASE Game!Undo(t)
  <2>1. /\ Game!MoveBlock(steps[t].op, -1) /\ data' = data /\ steps[t].at = "undo"
        /\ Game!Goto(t, "commit") \/ Game!Goto(t, "idle")
    BY <1>5 DEF Game!Undo, Game!At, Game!field
  <2>2. steps'[t].at \in {"commit", "idle"}
    BY <1>1, <2>1, GotoGoes DEF Goes, Places
  <2>3. FitsBack(steps[t].op, data, type, rotation, x, y)
    BY <1>1, <2>1 DEF BlockSound
  <2>4. y' >= 0 /\ Fits(data, type', rotation', x', y')
    BY <1>1, <2>1, <2>3, UndoFits
  <2>5. Game!Valid'
    BY <2>1, <2>4, ValidIs
  <2> QED
    BY <1>1, <2>2, <2>4, <2>5, BlockAfter
<1>6. CASE Game!Commit(t)
  <2>1. /\ Game!Committed.thrown \/ Game!Goto(t, "clear")
        /\ steps[t].at = "commit" /\ y' = y
    BY <1>6 DEF Game!Commit, Game!At, Game!block
  <2>2. ~Game!Committed.thrown
    BY <1>1, <2>1, CommittedFits DEF BlockSound, FieldSound
  <2>3. steps'[t].at = "clear"
    BY <1>1, <2>1, <2>2, GotoGoes DEF Goes, Places
  <2> QED
    BY <1>1, <2>1, <2>3, BlockAfter
<1>7. CASE \/ Game!ClearLines(t) \/ Game!CancelTimer(t) \/ Game!NewTimer(t)
  <2>1. /\ y' = y
        /\ \E place \in {"cancel", "deal", "renew", "schedule"} : Game!Goto(t, place)
    BY <1>7 DEF Game!ClearLines, Game!CancelTimer, Game!NewTimer, Game!block
  <2>2. steps'[t].at \in {"cancel", "deal", "renew", "schedule"}
    BY <1>1, <2>1, GotoGoes DEF Goes, Places
  <2> QED
    BY <1>1, <2>1, <2>2, BlockAfter
<1>8. CASE Game!ScheduleTask(t)
  <2>1. y' = y /\ steps[t].at = "schedule"
    BY <1>8 DEF Game!ScheduleTask, Game!block, Game!At
  <2>2. status[timer] = "live"
    BY <1>1, <2>1 DEF Single, OneTask
  <2>3. Game!Goto(t, "deal")
    BY <1>8, <2>2 DEF Game!ScheduleTask
  <2>4. steps'[t].at = "deal"
    BY <1>1, <2>3, GotoGoes DEF Goes, Places
  <2> QED
    BY <1>1, <2>1, <2>4, BlockAfter
<1>9. CASE Game!Deal(t)
  <2>1. rotation' = 0 /\ y' = 0 /\ Game!Goto(t, "verify")
    BY <1>9 DEF Game!Deal
  <2>2. steps'[t].at = "verify"
    BY <1>1, <2>1, GotoGoes DEF Goes, Places
  <2> QED
    BY <1>1, <2>1, <2>2, BlockAfter
<1>10. CASE Game!Verify(t)
  <2>1. /\ Game!Goto(t, IF Game!Valid \/ is_game_over THEN "idle" ELSE "end")
        /\ steps[t].at = "verify" /\ data' = data
        /\ type' = type /\ rotation' = rotation /\ x' = x /\ y' = y
    BY <1>10 DEF Game!Verify, Game!At, Game!field, Game!block
  <2>2. Game!Valid' <=> Game!Valid
    BY <2>1, ValidIs
  <2>3. rotation = 0 /\ y = 0
    BY <1>1, <2>1 DEF BlockSound
  <2>4. CASE Game!Valid
    <3>1. steps'[t].at = "idle"
      BY <1>1, <2>1, <2>4, GotoGoes DEF Goes, Places
    <3> QED
      BY <1>1, <2>1, <2>2, <2>4, <3>1, BlockAfter
  <2>5. CASE ~Game!Valid
    <3>1. steps'[t].at = "end"
      BY <1>1, <2>1, <2>5, GotoGoes DEF Goes, Places
    <3> QED
      BY <1>1, <2>1, <2>3, <3>1, BlockAfter
  <2> QED
    BY <2>4, <2>5
<1>11. CASE Game!EndGame(t)
  <2>1. /\ data' = Game!EmptyField /\ type' \in DOMAIN Grids
        /\ x' = Game!Centre(type', rotation) /\ rotation' = rotation /\ y' = y
        /\ Game!Goto(t, "idle") /\ steps[t].at = "end"
    BY <1>1, <1>11 DEF Game!EndGame, Game!Kinds, Game!At
  <2>2. rotation = 0 /\ y = 0
    BY <1>1, <2>1 DEF BlockSound
  <2>3. Game!Valid'
    BY <2>1, <2>2, ValidIs, EmptyFieldFacts
  <2>4. steps'[t].at = "idle"
    BY <1>1, <2>1, GotoGoes DEF Goes, Places
  <2> QED
    BY <1>1, <2>1, <2>3, <2>4, BlockAfter
<1>12. Game!Step(t)
  BY DEF Single
<1> QED
  BY <1>2, <1>3, <1>4, <1>5, <1>6, <1>7, <1>8, <1>9, <1>10, <1>11, <1>12
     DEF Game!Step

\* The timer's task.
LEMMA TaskStep ==
    ASSUME NEW t, Single(t)
    PROVE  OneTask'
<1>1. /\ t \in GameThreads /\ GameTyped /\ OneTask
      /\ \A u \in GameThreads : u # t => /\ steps[u].at = "idle"
                                         /\ steps'[u] = steps[u]
      /\ ~Game!Throws
  <2>1. t \in GameThreads /\ GameTyped /\ OneTask
    BY DEF Single
  <2>2. /\ \A u \in GameThreads : u # t => /\ steps[u].at = "idle"
                                           /\ steps'[u] = steps[u]
                                           /\ steps'[u].at = "idle"
        /\ ~Game!Throws
    BY SingleFacts
  <2> QED
    BY <2>1, <2>2
<1>2. /\ timer \in Timers /\ status \in [Timers -> {"live", "cancelled", "dead"}]
      /\ tasks \in [Timers -> Nat]
  BY <1>1 DEF GameTyped
<1>3. ASSUME UNCHANGED Game!clock, steps[t].at \notin {"renew", "schedule"},
             steps'[t].at \notin {"renew", "schedule"}
      PROVE  OneTask'
  <2>1. \A u \in GameThreads : /\ steps[u].at \notin {"renew", "schedule"}
                               /\ steps'[u].at \notin {"renew", "schedule"}
    BY <1>1, <1>3
  <2> QED
    BY <1>1, <1>3, <2>1 DEF OneTask, Game!clock
<1>4. CASE \/ Game!Change(t) \/ Game!Test(t) \/ Game!Undo(t) \/ Game!ClearLines(t)
           \/ Game!Deal(t) \/ Game!Verify(t) \/ Game!EndGame(t)
  <2>1. /\ UNCHANGED Game!clock /\ steps[t].at \notin {"renew", "schedule"}
        /\ \E place \in Places \ {"renew", "schedule"} : Game!Goto(t, place)
    BY <1>4 DEF Game!Change, Game!Test, Game!Undo, Game!ClearLines, Game!Deal,
       Game!Verify, Game!EndGame, Game!At, Places
  <2>2. steps'[t].at \notin {"renew", "schedule"}
    BY <1>1, <2>1, GotoGoes DEF Goes
  <2> QED
    BY <1>3, <2>1, <2>2
<1>5. CASE Game!TestThrows(t)
  BY <1>1, <1>5 DEF Game!TestThrows
<1>6. CASE Game!Commit(t)
  <2>1. /\ Game!Committed.thrown \/ (Game!Goto(t, "clear") /\ status' = status)
        /\ steps[t].at = "commit" /\ timer' = timer /\ tasks' = tasks
    BY <1>6 DEF Game!Commit, Game!At
  <2>2. ~Game!Committed.thrown
    BY <1>1, <2>1, SingleFacts, CommittedFits DEF Single, BlockSound, FieldSound
  <2>3. steps'[t].at = "clear"
    BY <1>1, <2>1, <2>2, GotoGoes DEF Goes, Places
  <2> QED
    BY <1>3, <2>1, <2>2, <2>3 DEF Game!clock
<1>7. CASE Game!CancelTimer(t)
  <2>1. /\ timer' = timer /\ tasks' = tasks
        /\ status' = [status EXCEPT ![timer] = "cancelled"]
        /\ Game!Goto(t, "renew")
    BY <1>7 DEF Game!CancelTimer
  <2>2. steps'[t].at = "renew"
    BY <1>1, <2>1, GotoGoes DEF Goes, Places
  <2>3. status'[timer'] = "cancelled"
        /\ \A u \in Timers \ {timer'} : status'[u] # "live" \/ tasks'[u] = 0
    BY <1>1, <1>2, <2>1 DEF OneTask
  <2>4. \A u \in GameThreads : steps'[u].at # "schedule"
    BY <1>1, <2>2
  <2> QED
    BY <1>1, <2>2, <2>3, <2>4 DEF OneTask
<1>8. CASE Game!NewTimer(t)
  <2>1. /\ timer' \in Timers /\ timer' # timer
        /\ status' = [status EXCEPT ![timer'] = "live"]
        /\ tasks' = [tasks EXCEPT ![timer'] = 0]
        /\ Game!Goto(t, "schedule") /\ steps[t].at = "renew"
    BY <1>8 DEF Game!NewTimer, Game!Garbage, Game!At
  <2>2. steps'[t].at = "schedule"
    BY <1>1, <2>1, GotoGoes DEF Goes, Places
  <2>3. status'[timer'] = "live" /\ tasks'[timer'] = 0
    BY <1>2, <2>1
  <2>4. status[timer] = "cancelled"
    BY <1>1, <2>1 DEF OneTask
  <2>5. ASSUME NEW u \in Timers \ {timer'}
        PROVE  status'[u] # "live" \/ tasks'[u] = 0
    <3>1. status'[u] = status[u] /\ tasks'[u] = tasks[u]
      BY <1>2, <2>1, <2>5
    <3> QED
      BY <1>1, <2>4, <3>1 DEF OneTask
  <2>6. \A u \in GameThreads : steps'[u].at # "renew"
    BY <1>1, <2>2
  <2> QED
    BY <1>1, <2>2, <2>3, <2>5, <2>6 DEF OneTask
<1>9. CASE Game!ScheduleTask(t)
  <2>1. steps[t].at = "schedule" /\ status[timer] = "live" /\ tasks[timer] = 0
    BY <1>1, <1>9 DEF Game!ScheduleTask, Game!At, OneTask
  <2>2. /\ tasks' = [tasks EXCEPT ![timer] = @ + 1] /\ status' = status
        /\ timer' = timer /\ Game!Goto(t, "deal")
    BY <1>9, <2>1 DEF Game!ScheduleTask
  <2>3. steps'[t].at = "deal"
    BY <1>1, <2>2, GotoGoes DEF Goes, Places
  <2>4. status'[timer'] = "live" /\ tasks'[timer'] = 1
        /\ \A u \in Timers \ {timer'} : status'[u] # "live" \/ tasks'[u] = 0
    BY <1>1, <1>2, <2>1, <2>2 DEF OneTask
  <2>5. \A u \in GameThreads : steps'[u].at \notin {"renew", "schedule"}
    BY <1>1, <2>3
  <2> QED
    BY <2>4, <2>5 DEF OneTask
<1>10. Game!Step(t)
  BY DEF Single
<1> QED
  BY <1>4, <1>5, <1>6, <1>7, <1>8, <1>9, <1>10 DEF Game!Step

LEMMA EndedStep ==
    ASSUME NEW t, Single(t)
    PROVE  EndedIdle'
<1>1. /\ t \in GameThreads /\ GameTyped /\ is_game_over = FALSE
      /\ \A u \in GameThreads : u # t => steps'[u].at = "idle"
      /\ Game!Step(t)
  BY SingleFacts DEF Single
<1>2. CASE Game!EndGame(t)
  <2>1. Game!Goto(t, "idle")
    BY <1>2 DEF Game!EndGame
  <2>2. steps'[t].at = "idle"
    BY <1>1, <2>1, GotoGoes DEF Goes, Places
  <2> QED
    BY <1>1, <2>2 DEF EndedIdle, AllIdle
<1>3. CASE ~Game!EndGame(t)
  <2>1. is_game_over' = is_game_over
    BY <1>1, <1>3 DEF Game!Step, Game!Change, Game!Test, Game!TestThrows,
       Game!Undo, Game!Commit, Game!ClearLines, Game!CancelTimer, Game!NewTimer,
       Game!ScheduleTask, Game!Deal, Game!Verify
  <2> QED
    BY <1>1, <2>1 DEF EndedIdle
<1> QED
  BY <1>2, <1>3

\* An operation begins when no other is under way.
LEMMA BeginSound ==
    ASSUME GameInv, GameTyped', NEW t \in GameThreads, NEW key \in Game!Keys,
           Game!Begin(t, key), overlaps' = 0
    PROVE  /\ Alone' /\ FieldSound' /\ BlockSound' /\ OneTask' /\ EndedIdle'
<1>1. /\ \A u \in GameThreads : steps[u].at = "idle"
      /\ overlaps = 0 /\ ~is_game_over
      /\ UNCHANGED <<Game!field, Game!block, is_game_over, Game!clock>>
  <2>1. /\ overlaps \in Nat
        /\ (\E u \in GameThreads : steps[u].at # "idle") => overlaps' = overlaps + 1
        /\ ~(\E u \in GameThreads : steps[u].at # "idle") => overlaps' = overlaps
        /\ ~is_game_over
        /\ UNCHANGED <<Game!field, Game!block, is_game_over, Game!clock>>
    BY GameConstants DEF GameInv, GameTyped, Game!Begin, Game!At, GameThreads
  <2> QED
    BY <2>1
<1>2. GameTyped /\ Alone /\ FieldSound /\ BlockSound /\ OneTask /\ AllIdle
  BY <1>1 DEF GameInv, AllIdle
<1>3. /\ steps'[t].op = key
      /\ steps'[t].at = IF key = "drop" THEN "test" ELSE "change"
      /\ \A u \in GameThreads : u # t => steps'[u].at = "idle"
  BY <1>1, <1>2, BeginGoes
<1>4. Alone' /\ EndedIdle'
  BY <1>1, <1>3 DEF Alone, EndedIdle
<1>5. FieldSound'
  BY <1>1, <1>2, FieldKept
<1>6. OneTask'
  <2>1. \A u \in GameThreads : /\ steps[u].at \notin {"renew", "schedule"}
                               /\ steps'[u].at \notin {"renew", "schedule"}
    BY <1>1, <1>3
  <2> QED
    BY <1>1, <1>2, <2>1 DEF OneTask, Game!clock
<1>7. BlockSound'
  <2>1. Game!Valid /\ y >= 0
    BY <1>2 DEF BlockSound
  <2>2. data' = data /\ type' = type /\ rotation' = rotation /\ x' = x /\ y' = y
    BY <1>1 DEF Game!field, Game!block
  <2>3. Game!Valid' /\ y' >= 0
    BY <2>1, <2>2, ValidIs
  <2> QED
    BY <1>3, <2>3, BlockAfter
<1> QED
  BY <1>4, <1>5, <1>6, <1>7

LEMMA GameInvStep == GameInv /\ [Game!Next]_(Game!vars) => GameInv'
<1> SUFFICES ASSUME GameInv, [Game!Next]_(Game!vars) PROVE GameInv'
  OBVIOUS
<1>1. GameTyped /\ GameTyped' /\ TimerIsKept'
  BY GameTypedStep, TimerIsKeptStep DEF GameInv
<1> SUFFICES ASSUME overlaps' = 0
             PROVE  Alone' /\ FieldSound' /\ BlockSound' /\ OneTask' /\ EndedIdle'
  BY <1>1 DEF GameInv
<1>2. ASSUME NEW t \in GameThreads, NEW key \in Game!Keys, Game!Begin(t, key)
      PROVE  Alone' /\ FieldSound' /\ BlockSound' /\ OneTask' /\ EndedIdle'
  BY <1>1, <1>2, BeginSound
<1>3. ASSUME NEW t \in GameThreads, Game!Step(t)
      PROVE  Alone' /\ FieldSound' /\ BlockSound' /\ OneTask' /\ EndedIdle'
  <2>1. overlaps' = overlaps
    BY <1>3 DEF Game!Step, Game!Change, Game!Test, Game!TestThrows,
       Game!Undo, Game!Commit, Game!ClearLines, Game!CancelTimer, Game!NewTimer,
       Game!ScheduleTask, Game!Deal, Game!Verify, Game!EndGame
  <2>2. Single(t)
    BY <1>1, <1>3, <2>1 DEF Single, GameInv
  <2> QED
    BY <2>2, SingleFacts, FieldStep, BlockStep, TaskStep, EndedStep
<1>4. CASE Game!PressEnter \/ UNCHANGED Game!vars
  <2>1. /\ UNCHANGED <<Game!field, Game!block, Game!clock, steps, overlaps>>
        /\ is_game_over' = FALSE \/ is_game_over' = is_game_over
    BY <1>4 DEF Game!PressEnter, Game!vars
  <2>2. UNCHANGED <<data, balance, type, rotation, x, y, timer, status, tasks, steps>>
    BY <2>1 DEF Game!field, Game!block, Game!clock
  <2>3. Alone /\ FieldSound /\ BlockSound /\ OneTask /\ EndedIdle
    BY <2>1 DEF GameInv
  <2>4. Game!Valid' = Game!Valid /\ Game!FullRows' = Game!FullRows
    BY <2>2 DEF Game!Valid, Game!Taken, Game!Free, Game!Cells, Game!FullRows, Game!Rows
  <2>5. Alone' /\ OneTask' /\ EndedIdle'
    BY <2>1, <2>2, <2>3 DEF Alone, OneTask, EndedIdle, AllIdle
  <2>6. FieldSound'
    BY <2>2, <2>3, <2>4 DEF FieldSound, Ones
  <2>7. BlockSound'
    BY <2>2, <2>3, <2>4 DEF BlockSound, AllIdle
  <2> QED
    BY <2>5, <2>6, <2>7
<1> QED
  BY <1>2, <1>3, <1>4, GameSteps

\* One task of the timer in the atom is one task in all.
LEMMA OneFalling ==
    ASSUME GameTyped, OneTask, AllIdle
    PROVE  Game!Falling = 1
<1> DEFINE Live == {u \in Timers : status[u] = "live"}
           All == UNION {{t} \X (1 .. tasks[t]) : t \in Live}
<1>1. status[timer] = "live" /\ tasks[timer] = 1 /\ timer \in Live
  BY DEF OneTask, AllIdle, GameTyped
<1>2. \A u \in Live : u = timer \/ tasks[u] = 0
  BY DEF OneTask
<1>3. All = {<<timer, 1>>}
  <2>1. <<timer, 1>> \in {timer} \X (1 .. tasks[timer])
    BY <1>1
  <2>2. ASSUME NEW p \in All PROVE p = <<timer, 1>>
    <3>1. PICK t \in Live : p \in {t} \X (1 .. tasks[t])
      OBVIOUS
    <3>2. t = timer
      <4>1. CASE tasks[t] = 0
        BY <3>1, <4>1
      <4> QED
        BY <1>2, <4>1
    <3>3. p \in {timer} \X (1 .. 1)
      BY <1>1, <3>1, <3>2
    <3> QED
      BY <3>3
  <2>3. <<timer, 1>> \in All
    BY <1>1, <2>1
  <2> HIDE DEF All
  <2> QED
    BY <2>2, <2>3
<1>4. Game!Falling = Cardinality(All)
  BY DEF Game!Falling, Game!Cardinality, Cardinality
<1> HIDE DEF All
<1> QED
  BY <1>3, <1>4, FS_Singleton

LEMMA GameInvSound == GameInv => GameSound
<1> SUFFICES ASSUME GameInv PROVE GameSound
  OBVIOUS
<1>1. GameTyped /\ TimerIsKept
  BY DEF GameInv
<1>2. Game!TypeOK
  <2>1. ASSUME NEW t \in GameThreads
        PROVE  steps[t].op \in Game!Keys \/ steps[t] = Game!Idle
    <3>1. steps[t] \in [op : Operations, at : Places]
          /\ (steps[t].at = "idle" <=> steps[t].op = "none")
      BY <1>1 DEF GameTyped
    <3>2. steps[t] = [op |-> steps[t].op, at |-> steps[t].at]
      BY <3>1
    <3> QED
      BY <3>1, <3>2 DEF Operations, Game!Idle
  <2> QED
    BY <1>1, <2>1 DEF Game!TypeOK, GameTyped, GameThreads, Game!Kinds
<1>3. Game!SoundUnlessOverlapped
  <2> SUFFICES ASSUME overlaps = 0, AllIdle
               PROVE  /\ Game!Valid /\ Game!FullRows = {}
                      /\ Len(data) = Width * Height
                      /\ Ones(data) = balance
                      /\ Game!Falling = 1
    BY DEF Game!SoundUnlessOverlapped, AllIdle, GameThreads, Game!At, Ones,
       Game!Cardinality, Cardinality
  <2>1. FieldSound /\ BlockSound /\ OneTask
    BY DEF GameInv
  <2>2. Game!FullRows = {} /\ Len(data) = Width * Height /\ Ones(data) = balance
    BY <2>1 DEF FieldSound, AllIdle
  <2>3. Game!Valid
    BY <2>1 DEF BlockSound
  <2> QED
    BY <1>1, <2>1, <2>2, <2>3, OneFalling
<1>4. Game!FallingGoesOn
  <2> SUFFICES ASSUME \A t \in GameThreads : /\ steps[t].at # "renew"
                                             /\ steps[t].at # "schedule"
               PROVE  \/ status[timer] = "live" /\ tasks[timer] > 0
                      \/ status[timer] = "dead"
    BY DEF Game!FallingGoesOn, GameThreads, Game!At
  <2>1. status[timer] \in {"live", "cancelled", "dead"} /\ tasks[timer] \in Nat
    BY <1>1 DEF GameTyped
  <2> QED
    BY <1>1, <2>1 DEF TimerIsKept
<1> QED
  BY <1>2, <1>3, <1>4 DEF GameSound

\* Between operations, as long as no two have overlapped, the block lies where
\* nothing else does, no full row is left, cells are neither lost nor laid on each
\* other, and one task moves the block; and however operations overlap, when
\* set-game-speed is not under way the timer in the atom has a task or has died
\* of an exception.
THEOREM GameIsSound == Game!Spec => []GameSound
BY GameInit, GameInvStep, GameInvSound, PTL DEF Game!Spec

(***************************************************************************)
(* The three programs of MCTimed.                                          *)
(***************************************************************************)

LEMMA TimedStarts == TimedInit => Init /\ Streams!Init /\ Game!Init
<1>1. FrameCounts # {} /\ FrameIntervals # {} /\ DOMAIN Grids # {}
  BY TimedParameters, GameConstants
<1>2. SomeStream => Streams!Init
  <2> DEFINE n == CHOOSE number \in FrameCounts : TRUE
             i == CHOOSE interval \in FrameIntervals : TRUE
  <2>1. n \in FrameCounts /\ i \in FrameIntervals
    BY <1>1
  <2>2. SomeStream => Streams!InitFor(n, i)
    BY DEF SomeStream
  <2> HIDE DEF n, i
  <2> QED
    BY <2>1, <2>2 DEF Streams!Init
<1>3. SomeGame => Game!Init
  <2> DEFINE k == CHOOSE kind \in DOMAIN Grids : TRUE
  <2>1. k \in Game!Kinds
    BY <1>1 DEF Game!Kinds
  <2>2. SomeGame => Game!InitFor(k)
    BY DEF SomeGame
  <2> HIDE DEF k
  <2> QED
    BY <2>1, <2>2 DEF Game!Init
<1> QED
  BY <1>2, <1>3 DEF TimedInit

LEMMA TimedSteps ==
    [TimedNext]_timed => /\ [Next]_vars
                         /\ [Streams!Next]_(Streams!svars)
                         /\ [Game!Next]_(Game!vars)
<1>1. UNCHANGED stream => UNCHANGED Streams!svars
  BY DEF stream, Streams!svars, Streams!config, Streams!frames
<1>2. UNCHANGED game => UNCHANGED Game!vars
  BY DEF game, Game!vars, Game!field, Game!block, Game!clock
<1>3. [TimedNext]_timed => /\ Next \/ UNCHANGED vars
                           /\ Streams!Next \/ UNCHANGED stream
                           /\ Game!Next \/ UNCHANGED game
  BY Zenon DEF TimedNext, StreamStep, GameStep, timed
<1> QED
  BY <1>1, <1>2, <1>3, Zenon

\* In the composition that is model-checked all invariants hold together,
\* whatever the values of its constants.
THEOREM AllTimedSound ==
    TimedSpec => [](/\ RateLimited /\ FlowsShareFairly /\ StatsConsistent
                    /\ SendsOnTime /\ GameSound)
<1>1. TimedSpec => Spec
  BY TimedStarts, TimedSteps, PTL DEF TimedSpec, Spec
<1>2. TimedSpec => []StreamInv
  BY TimedStarts, TimedSteps, StreamInit, StreamStepInv, PTL DEF TimedSpec
<1>3. TimedSpec => []GameInv
  BY TimedStarts, TimedSteps, GameInit, GameInvStep, PTL DEF TimedSpec
<1>4. StreamInv => SendsOnTime
  BY DEF StreamInv, SendsOnTime
<1> QED
  BY <1>1, <1>2, <1>3, <1>4, GameInvSound, AlwaysRateLimited, AlwaysFair,
     ReportsComplete, PTL
=============================================================================
