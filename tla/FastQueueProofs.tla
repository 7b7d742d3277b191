-------------------------- MODULE FastQueueProofs --------------------------
(* What FastQueue promises, proved for any finite set of producers, any     *)
(* packet sizes, any number of packets and any counter width.               *)
EXTENDS FastQueue, RunningTotals, SequenceTheorems, FiniteSetTheorems, TLAPS

(***************************************************************************)
(* The inductive invariant.                                                *)
(***************************************************************************)

\* A consumer that waits, or has just been woken, and finds mItems1 empty
\* still has its mWaiting announcement standing.
WaitAnnounced ==
    consumer \in {"asleep", "woken"} /\ mItems1 = << >> => mWaiting

\* mQuit, the stopping thread and the consumer agree.
StopConsistent ==
    /\ owner # "using" <=> mQuit
    /\ consumer = "returned" => mQuit
    /\ owner \in {"stopped", "destroyed"} => consumer = "returned"

\* mItems2 is only occupied while the consumer works on it.
BatchPrivate == consumer # "process" => mItems2 = << >> /\ position = 0

\* A consumer that is about to announce a wait has a signal to spare.
SignalBudget ==
    /\ signals + Cardinality(Notifiers) + (IF mWaiting THEN 1 ELSE 0)
           <= batches + 1
    /\ consumer \in {"lock", "process"} /\ mItems1 = << >> /\ ~mWaiting =>
           signals + Cardinality(Notifiers) <= batches

\* A signal that is not yet counted is that of a producer that will count it
\* on top of what it finds, or has found, in mNotifies.
Counting == {p \in Producers : pc[p] \in {"load", "store"}}

CountBudget ==
    /\ mNotifies + Cardinality(Counting) <= signals
    /\ \A p \in Producers : seen[p] + Cardinality(Counting) <= signals

Budget == SignalBudget /\ CountBudget

Typed     == TypeOK /\ BatchPrivate
Handshake == NoLostWakeup /\ WaitAnnounced /\ StopConsistent

(***************************************************************************)
(* Types.  FastQueueAssumption makes the counters' % well defined; that    *)
(* position stays within mItems2 at a swap needs BatchPrivate.             *)
(***************************************************************************)

\* A counter that is added to modulo CounterRange stays in its range.
LEMMA CounterInRange ==
    \A a, b \in Nat : (a + b) % CounterRange \in 0 .. CounterRange - 1
<1>1. CounterRange \in Nat \ {0}
  BY FastQueueAssumption
<1> QED
  BY <1>1

\* Wrapping around makes a counter smaller.
LEMMA WrappedIsLess == \A a \in Nat : a % CounterRange <= a
<1> SUFFICES ASSUME NEW a \in Nat
             PROVE  a % CounterRange <= a
  OBVIOUS
<1> DEFINE r == a % CounterRange
           k == CounterRange * (a \div CounterRange)
<1>1. r \in 0 .. CounterRange - 1 /\ a \div CounterRange \in Nat /\ a = k + r
  BY FastQueueAssumption, Division
<1>2. r \in Nat /\ k \in Nat
  BY <1>1, FastQueueAssumption
<1> HIDE DEF k, r
<1>3. r <= a
  BY <1>1, <1>2
<1> QED
  BY <1>3 DEF r

\* Every variable of FastQueue starts in its type.
LEMMA TypedInit == Init => Typed
<1> SUFFICES ASSUME Init
             PROVE  Typed
  OBVIOUS
<1>1. 0 \in 0 .. CounterRange - 1
  BY FastQueueAssumption
<1>2. << >> \in Seq(Packet) /\ Len(<< >>) = 0
  BY EmptySeq
<1>3. /\ mItems1 \in Seq(Packet) /\ mItems2 \in Seq(Packet)
      /\ sent \in Seq(Packet) /\ delivered \in Seq(Packet)
      /\ position \in 0 .. Len(mItems2)
  BY <1>2 DEF Init
<1>4. mRxReceived \in 0 .. CounterRange - 1
      /\ mRxProcessed \in 0 .. CounterRange - 1
  BY <1>1 DEF Init
<1>5. /\ pc \in [Producers -> {"idle", "notify", "load", "store"}]
      /\ seen \in [Producers -> 0 .. CounterRange - 1]
  BY <1>1 DEF Init
<1>6. mNotifies \in 0 .. CounterRange - 1 /\ mSwaps \in 0 .. CounterRange - 1
  BY <1>1 DEF Init
<1> QED
  BY <1>3, <1>4, <1>5, <1>6 DEF Init, Typed, TypeOK, BatchPrivate

\* No step takes a variable out of its type.
LEMMA TypedStep == Typed /\ [Next]_vars => Typed'
<1> USE FastQueueAssumption DEF Typed, TypeOK, BatchPrivate
<1> SUFFICES ASSUME Typed, [Next]_vars
             PROVE  Typed'
  OBVIOUS
<1>1. ASSUME NEW p \in Producers, NEW size \in Sizes,
             Push(p, [mSize |-> size])
      PROVE  Typed'
  <2> DEFINE packet == [mSize |-> size]
  <2>1. packet \in Packet /\ packet.mSize \in Nat
    BY DEF Packet
  <2>2. /\ mItems1' \in Seq(Packet)
        /\ sent' \in Seq(Packet)
    BY <1>1, <2>1 DEF Push
  <2>3. mRxReceived' \in 0 .. CounterRange - 1
    <3>1. mRxReceived \in Nat /\ mRxReceived' = (mRxReceived + packet.mSize) % CounterRange
      BY <1>1 DEF Push
    <3> QED
      BY <2>1, <3>1, CounterInRange
  <2>4. pc' \in [Producers -> {"idle", "notify", "load", "store"}]
    BY <1>1 DEF Push
  <2> QED
    BY <1>1, <2>2, <2>3, <2>4 DEF Push
<1>2. ASSUME NEW p \in Producers, FinishPush(p)
      PROVE  Typed'
  <2>1. CASE NotifyOne(p)
    BY <2>1 DEF NotifyOne, WakeConsumer, counters, items
  <2>2. CASE LoadNotifies(p)
    BY <2>2 DEF LoadNotifies, counters, items
  <2>3. CASE StoreNotifies(p)
    <3>1. (seen[p] + 1) % CounterRange \in 0 .. CounterRange - 1
      <4>1. seen[p] \in Nat
        OBVIOUS
      <4> QED
        BY <4>1, CounterInRange
    <3> QED
      BY <2>3, <3>1 DEF StoreNotifies, counters, items
  <2> QED
    BY <1>2, <2>1, <2>2, <2>3 DEF FinishPush
<1>3. CASE SeeQuit \/ StartWait \/ WaitAgain \/ SpuriousWakeup
  BY <1>3 DEF SeeQuit, StartWait, WaitAgain, SpuriousWakeup, counters, items
<1>4. CASE TakeBatch \/ EndWait
  <2>1. (mSwaps + 1) % CounterRange \in 0 .. CounterRange - 1
    BY CounterInRange
  <2>2. mSwaps' \in 0 .. CounterRange - 1 /\ batches' \in Nat
    BY <1>4, <2>1 DEF TakeBatch, EndWait, SwapItems
  <2>3. /\ mItems1' = mItems2 /\ mItems2' = mItems1
        /\ position = 0 /\ position' = 0 /\ consumer' = "process"
        /\ UNCHANGED <<mQuit, mWaiting, mNotifies, signals, mRxReceived,
                       mRxProcessed, pc, seen, owner, sent, delivered>>
    BY <1>4 DEF TakeBatch, EndWait, SwapItems
  <2> QED
    BY <2>2, <2>3, LenProperties
<1>5. CASE ProcessPacket
  <2>1. mItems2[position + 1] \in Packet
    BY <1>5, ElementOfSeq DEF ProcessPacket
  <2>2. mItems2[position + 1].mSize \in Nat
    BY <2>1 DEF Packet
  <2>3. delivered' \in Seq(Packet)
    BY <1>5, <2>1 DEF ProcessPacket
  <2>4. mRxProcessed' \in 0 .. CounterRange - 1
    <3>1. /\ mRxProcessed \in Nat
          /\ mRxProcessed' =
                 (mRxProcessed + mItems2[position + 1].mSize) % CounterRange
      BY <1>5 DEF ProcessPacket
    <3> QED
      BY <2>2, <3>1, CounterInRange
  <2> QED
    BY <1>5, <2>3, <2>4 DEF ProcessPacket
<1>6. CASE ClearBatch
  BY <1>6, EmptySeq DEF ClearBatch, counters
<1>7. CASE Stop \/ Join \/ Destroy \/ Over
  BY <1>7 DEF Stop, WakeConsumer, Join, Destroy, Over, counters, items, vars
<1>8. CASE UNCHANGED vars
  BY <1>8 DEF vars
<1> QED
  BY <1>1, <1>2, <1>3, <1>4, <1>5, <1>6, <1>7, <1>8
  DEF Next, Produce, Run

\* Every variable of the queue always has its type.
THEOREM TypeCorrect == SafeSpec => []TypeOK
<1>1. Typed => TypeOK
  BY DEF Typed
<1> QED
  BY TypedInit, TypedStep, <1>1, PTL DEF SafeSpec

(***************************************************************************)
(* The handshake between push(), run() and stop().                         *)
(***************************************************************************)

\* Nobody waits, and nobody has stopped the queue, at the start.
LEMMA HandshakeInit == Init => Handshake
BY DEF Init, Handshake, NoLostWakeup, WaitAnnounced, StopConsistent

\* After a push there is something to do.
LEMMA PushFills ==
    ASSUME Typed, NEW p \in Producers, NEW size \in Sizes,
           Push(p, [mSize |-> size])
    PROVE  mItems1' # << >>
<1> DEFINE packet == [mSize |-> size]
<1>1. packet \in Packet /\ mItems1 \in Seq(Packet)
  BY DEF Packet, Typed, TypeOK
<1>2. mItems1' = Append(mItems1, packet)
  BY DEF Push
<1> HIDE DEF packet
<1> QED
  BY <1>1, <1>2, AppendProperties

\* Every step of a producer, of run() and of stop() keeps the handshake.
LEMMA HandshakeStep ==
    Typed /\ Handshake /\ [Next]_vars => Handshake'
<1> USE DEF Typed, TypeOK, Handshake, NoLostWakeup, Notifiers,
            WaitAnnounced, StopConsistent
<1> SUFFICES ASSUME Typed, Handshake, [Next]_vars
             PROVE  Handshake'
  OBVIOUS
<1>1. ASSUME NEW p \in Producers, NEW size \in Sizes,
             Push(p, [mSize |-> size])
      PROVE  Handshake'
  \* Either mWaiting was set, and p itself becomes the notifier, or mItems1
  \* was not empty before, and whoever owed a notification still does.
  <2>1. mItems1' # << >>
    BY <1>1, PushFills
  <2>2. CASE mWaiting
    <3>1. p \in Notifiers'
      BY <1>1, <2>2 DEF Push
    <3> QED
      BY <1>1, <2>1, <3>1 DEF Push
  <2>3. CASE ~mWaiting
    <3>1. pc' = pc
      BY <1>1, <2>3 DEF Push
    <3> QED
      BY <1>1, <2>1, <2>3, <3>1 DEF Push
  <2> QED
    BY <2>2, <2>3
<1>2. ASSUME NEW p \in Producers, NotifyOne(p)
      PROVE  Handshake'
  BY <1>2 DEF NotifyOne, WakeConsumer, counters, items
<1>3. ASSUME NEW p \in Producers, LoadNotifies(p) \/ StoreNotifies(p)
      PROVE  Handshake'
  <2>1. Notifiers' = Notifiers
    BY <1>3 DEF LoadNotifies, StoreNotifies
  <2> QED
    BY <1>3, <2>1 DEF LoadNotifies, StoreNotifies, counters, items
<1>4. CASE SeeQuit \/ StartWait \/ WaitAgain \/ SpuriousWakeup
  BY <1>4 DEF SeeQuit, StartWait, WaitAgain, WaitPredicate, SpuriousWakeup,
              counters, items
<1>5. CASE TakeBatch \/ EndWait
  BY <1>5 DEF TakeBatch, EndWait, SwapItems
<1>6. CASE ProcessPacket \/ ClearBatch
  BY <1>6 DEF ProcessPacket, ClearBatch, counters
<1>7. CASE Stop
  BY <1>7 DEF Stop, WakeConsumer, counters, items
<1>8. CASE Join \/ Destroy \/ Over
  BY <1>8 DEF Join, Destroy, Over, counters, items, vars
<1>9. CASE UNCHANGED vars
  BY <1>9 DEF vars
<1> QED
  BY <1>1, <1>2, <1>3, <1>4, <1>5, <1>6, <1>7, <1>8, <1>9
  DEF Next, Produce, FinishPush, Run

\* The handshake holds in every state the queue can reach.
LEMMA HandshakeInvariant == SafeSpec => [](Typed /\ Handshake)
BY TypedInit, TypedStep, HandshakeInit, HandshakeStep, PTL DEF SafeSpec

\* The consumer never sleeps on work, or on a stopped queue, that nobody is
\* about to wake it for.
THEOREM NoWakeupIsLost == SafeSpec => []NoLostWakeup
<1>1. Typed /\ Handshake => NoLostWakeup
  BY DEF Handshake
<1> QED
  BY HandshakeInvariant, <1>1, PTL

(***************************************************************************)
(* Exactly once and in order.                                              *)
(***************************************************************************)

\* The whole, or nothing, of a batch.
LEMMA RestOfBatch ==
    ASSUME NEW S, NEW batch \in Seq(S)
    PROVE  /\ SubSeq(batch, 1, Len(batch)) = batch
           /\ SubSeq(batch, Len(batch) + 1, Len(batch)) = << >>
BY SubSeqFull, SubSeqEmpty, LenProperties

\* Processing the next packet of a batch moves it from the front of the rest
\* to the end of what is done.
LEMMA MoveOne ==
    ASSUME NEW done \in Seq(Packet), NEW batch \in Seq(Packet),
           NEW rest \in Seq(Packet), NEW k \in 1 .. Len(batch)
    PROVE  done \o (SubSeq(batch, k, Len(batch)) \o rest) =
           Append(done, batch[k]) \o
               (SubSeq(batch, k + 1, Len(batch)) \o rest)
<1> DEFINE tail == SubSeq(batch, k + 1, Len(batch))
           one  == << batch[k] >>
<1> HIDE DEF tail, one
<1>1. Len(batch) \in Nat /\ \A i \in 1 .. Len(batch) : batch[i] \in Packet
  BY LenProperties, ElementOfSeq
<1>2. tail \in Seq(Packet) /\ one \in Seq(Packet)
  BY <1>1, SubSeqProperties DEF tail, one
<1>3. SubSeq(batch, k, Len(batch)) = one \o tail
  BY <1>1, SubSeqRecursiveFirst DEF tail, one
<1>4. Append(done, batch[k]) = done \o one
  BY <1>1, AppendIsConcat DEF one
<1>5. tail \o rest \in Seq(Packet)
  BY <1>2, ConcatProperties
<1>6. (one \o tail) \o rest = one \o (tail \o rest)
  BY <1>2
<1>7. done \o (one \o (tail \o rest)) = (done \o one) \o (tail \o rest)
  <2> DEFINE others == tail \o rest
  <2>1. others \in Seq(Packet)
    BY <1>5
  <2> HIDE DEF others
  <2>2. done \o (one \o others) = (done \o one) \o others
    BY <1>2, <2>1
  <2> QED
    BY <2>2 DEF others
<1> QED
  BY <1>3, <1>4, <1>6, <1>7 DEF tail

\* Appending to the innermost of three parts appends to the whole.
LEMMA AppendToRest ==
    ASSUME NEW done \in Seq(Packet), NEW rest \in Seq(Packet),
           NEW queue \in Seq(Packet), NEW e \in Packet
    PROVE  done \o (rest \o Append(queue, e)) =
           Append(done \o (rest \o queue), e)
<1> DEFINE one == << e >>
<1>1. one \in Seq(Packet)
  OBVIOUS
<1>2. rest \o queue \in Seq(Packet) /\ done \o (rest \o queue) \in Seq(Packet)
  BY ConcatProperties
<1>3. /\ Append(queue, e) = queue \o one
      /\ Append(done \o (rest \o queue), e) = (done \o (rest \o queue)) \o one
  BY <1>2, AppendIsConcat
<1> HIDE DEF one
<1>4. rest \o (queue \o one) = (rest \o queue) \o one
  BY <1>1
<1>5. done \o ((rest \o queue) \o one) = (done \o (rest \o queue)) \o one
  BY <1>1, <1>2
<1> QED
  BY <1>3, <1>4, <1>5

\* Nothing has been pushed and nothing is to be done.
LEMMA OrderInit == Init => ExactlyOnceInOrder
BY EmptySeq, RestOfBatch, ConcatEmptySeq, SubSeqEmpty
DEF Init, ExactlyOnceInOrder, ToDo

\* Every step keeps what is processed, in the batch and in mItems1 in line
\* with what was pushed.
LEMMA OrderStep ==
    Typed /\ ExactlyOnceInOrder /\ [Next]_vars => ExactlyOnceInOrder'
<1> SUFFICES ASSUME Typed, ExactlyOnceInOrder, [Next]_vars
             PROVE  ExactlyOnceInOrder'
  OBVIOUS
<1> DEFINE rest == SubSeq(mItems2, position + 1, Len(mItems2))
<1>a. /\ mItems1 \in Seq(Packet) /\ mItems2 \in Seq(Packet)
      /\ delivered \in Seq(Packet)
      /\ position \in 0 .. Len(mItems2) /\ Len(mItems2) \in Nat
      /\ \A i \in 1 .. Len(mItems2) : mItems2[i] \in Packet
  BY LenProperties, ElementOfSeq DEF Typed, TypeOK
<1>b. rest \in Seq(Packet) /\ rest \o mItems1 \in Seq(Packet)
  BY <1>a, SubSeqProperties, ConcatProperties
<1>1. ASSUME NEW p \in Producers, NEW size \in Sizes,
             Push(p, [mSize |-> size])
      PROVE  ExactlyOnceInOrder'
  <2>1. [mSize |-> size] \in Packet
    BY DEF Packet
  <2>2. /\ sent' = Append(sent, [mSize |-> size])
        /\ mItems1' = Append(mItems1, [mSize |-> size])
        /\ UNCHANGED <<delivered, mItems2, position>>
    BY <1>1 DEF Push
  <2>3. delivered \o (rest \o mItems1') =
            Append(delivered \o (rest \o mItems1), [mSize |-> size])
    <3> HIDE DEF rest
    <3>1. \A queue \in Seq(Packet) : \A e \in Packet :
             delivered \o (rest \o Append(queue, e)) =
             Append(delivered \o (rest \o queue), e)
      BY <1>a, <1>b, AppendToRest
    <3> QED
      BY <1>a, <2>1, <2>2, <3>1
  <2> QED
    BY <2>2, <2>3 DEF ExactlyOnceInOrder, ToDo
<1>2. CASE TakeBatch \/ EndWait
  \* The private batch was empty: the swap moves mItems1 into its place.
  <2>1. /\ mItems2 = << >> /\ position = 0 /\ position' = 0
        /\ mItems1' = << >> /\ mItems2' = mItems1
        /\ UNCHANGED <<sent, delivered>>
    BY <1>2 DEF TakeBatch, EndWait, SwapItems, Typed, BatchPrivate
  <2>2. ToDo = mItems1
    BY <1>a, <2>1, SubSeqEmpty, ConcatEmptySeq DEF ToDo
  <2>3. ToDo' = mItems1
    BY <1>a, <2>1, RestOfBatch, ConcatEmptySeq DEF ToDo
  <2> QED
    BY <2>1, <2>2, <2>3 DEF ExactlyOnceInOrder
<1>3. CASE ProcessPacket
  <2>1. /\ position + 1 \in 1 .. Len(mItems2)
        /\ position' = position + 1
        /\ delivered' = Append(delivered, mItems2[position + 1])
        /\ UNCHANGED <<mItems1, mItems2, sent>>
    BY <1>3, <1>a DEF ProcessPacket
  <2>2. delivered \o ToDo = delivered' \o ToDo'
    <3> DEFINE k == position + 1
    <3>1. k \in 1 .. Len(mItems2) /\ k = position + 1
      BY <2>1
    <3> HIDE DEF k
    <3>2. delivered \o (SubSeq(mItems2, k, Len(mItems2)) \o mItems1) =
              Append(delivered, mItems2[k]) \o
                  (SubSeq(mItems2, k + 1, Len(mItems2)) \o mItems1)
      BY <1>a, <3>1, MoveOne
    <3> QED
      BY <2>1, <3>1, <3>2 DEF ToDo
  <2> QED
    BY <2>1, <2>2 DEF ExactlyOnceInOrder
<1>4. CASE ClearBatch
  <2>1. /\ position = Len(mItems2) /\ position' = 0 /\ mItems2' = << >>
        /\ UNCHANGED <<mItems1, sent, delivered>>
    BY <1>4 DEF ClearBatch, counters
  <2>2. ToDo = mItems1
    BY <1>a, <2>1, RestOfBatch, ConcatEmptySeq DEF ToDo
  <2>3. ToDo' = mItems1
    BY <1>a, <2>1, EmptySeq, SubSeqEmpty, ConcatEmptySeq DEF ToDo
  <2> QED
    BY <2>1, <2>2, <2>3 DEF ExactlyOnceInOrder
<1>5. ASSUME UNCHANGED <<mItems1, mItems2, position, sent, delivered>>
      PROVE  ExactlyOnceInOrder'
  BY <1>5 DEF ExactlyOnceInOrder, ToDo
<1>6. ASSUME NEW p \in Producers, FinishPush(p)
      PROVE  ExactlyOnceInOrder'
  BY <1>6, <1>5 DEF FinishPush, NotifyOne, LoadNotifies, StoreNotifies, items
<1>7. CASE SeeQuit \/ StartWait \/ WaitAgain \/ SpuriousWakeup
  BY <1>7, <1>5 DEF SeeQuit, StartWait, WaitAgain, SpuriousWakeup, items
<1>8. CASE Stop \/ Join \/ Destroy \/ Over \/ UNCHANGED vars
  BY <1>8, <1>5 DEF Stop, Join, Destroy, Over, items, vars
<1> QED
  BY <1>1, <1>2, <1>3, <1>4, <1>6, <1>7, <1>8 DEF Next, Produce, Run

\* The order holds in every state the queue can reach.
LEMMA OrderInvariant == SafeSpec => [](Typed /\ ExactlyOnceInOrder)
BY TypedInit, TypedStep, OrderInit, OrderStep, PTL DEF SafeSpec

\* No packet is lost, duplicated or overtaken on its way through the queue.
THEOREM PacketsExactlyOnceInOrder == SafeSpec => []ExactlyOnceInOrder
BY OrderInvariant, PTL

\* run() finishes every batch that it has taken out, and stop() and the
\* destructor wait for that.
THEOREM BatchesCompleted == SafeSpec => []BatchCompleted
<1>1. ASSUME Typed, Handshake, ExactlyOnceInOrder
      PROVE  BatchCompleted
  <2>1. ASSUME consumer = "returned"
        PROVE  mItems2 = << >> /\ sent = delivered \o mItems1
    <3>1. /\ mItems2 = << >> /\ position = 0
          /\ mItems1 \in Seq(Packet) /\ mItems2 \in Seq(Packet)
      BY <1>1, <2>1 DEF Typed, TypeOK, BatchPrivate
    <3>2. ToDo = mItems1
      BY <3>1, SubSeqEmpty, ConcatEmptySeq DEF ToDo
    <3> QED
      BY <1>1, <3>1, <3>2 DEF ExactlyOnceInOrder
  <2> QED
    BY <1>1, <2>1 DEF BatchCompleted, Handshake, StopConsistent
<1> QED
  BY HandshakeInvariant, OrderInvariant, <1>1, PTL

(***************************************************************************)
(* The queue implements a FIFO channel.                                    *)
(***************************************************************************)

\* A new queue is an open and empty channel.
LEMMA ChannelInit == Init => Channel!Init
BY DEF Init, Channel!Init, Phase

\* Push sends, ProcessPacket delivers, Stop closes, SeeQuit finishes; all
\* other steps leave the channel as it is.
LEMMA ChannelStep ==
    Typed /\ StopConsistent /\ ExactlyOnceInOrder /\ [Next]_vars =>
        [Channel!Next]_Channel!vars
<1> SUFFICES ASSUME Typed, StopConsistent, ExactlyOnceInOrder, [Next]_vars
             PROVE  [Channel!Next]_Channel!vars
  OBVIOUS
<1> USE DEF Channel!Next, Channel!vars, Phase
<1>1. ASSUME NEW p \in Producers, NEW size \in Sizes,
             Push(p, [mSize |-> size])
      PROVE  Channel!Send([mSize |-> size]) /\ [mSize |-> size] \in Packet
  BY <1>1 DEF Push, Channel!Send, Packet
<1>2. CASE ProcessPacket
  <2> DEFINE rest == SubSeq(mItems2, position + 1, Len(mItems2))
  <2>1. /\ mItems1 \in Seq(Packet) /\ mItems2 \in Seq(Packet)
        /\ delivered \in Seq(Packet)
        /\ position \in Nat /\ Len(mItems2) \in Nat
        /\ position + 1 \in 1 .. Len(mItems2)
    BY <1>2, LenProperties DEF Typed, TypeOK, ProcessPacket
  <2>2. /\ rest \in Seq(Packet) /\ Len(rest) > 0
        /\ rest[1] = mItems2[position + 1]
    BY <2>1, SubSeqProperties, ElementOfSeq
  <2>3. /\ Len(ToDo) > 0 /\ ToDo \in Seq(Packet)
        /\ ToDo[1] = mItems2[position + 1]
    <3> HIDE DEF rest
    <3>1. ToDo = rest \o mItems1
      BY DEF ToDo, rest
    <3> QED
      BY <2>1, <2>2, <3>1, ConcatProperties, LenProperties
  <2>4. /\ Len(delivered) < Len(sent)
        /\ sent[Len(delivered) + 1] = mItems2[position + 1]
    BY <2>1, <2>3, ConcatProperties, LenProperties DEF ExactlyOnceInOrder
  <2>5. Channel!Deliver
    BY <1>2, <2>4 DEF ProcessPacket, Channel!Deliver
  <2> QED
    BY <2>5
<1>3. CASE Stop
  BY <1>3 DEF Stop, WakeConsumer, StopConsistent, Channel!Close
<1>4. CASE SeeQuit
  BY <1>4 DEF SeeQuit, Channel!Finish
<1>5. ASSUME NEW p \in Producers, FinishPush(p)
      PROVE  UNCHANGED Channel!vars
  BY <1>5 DEF FinishPush, NotifyOne, WakeConsumer, LoadNotifies,
              StoreNotifies
<1>6. CASE StartWait \/ TakeBatch \/ WaitAgain \/ EndWait \/ SpuriousWakeup
  BY <1>6 DEF StartWait, TakeBatch, WaitAgain, EndWait, SwapItems,
              SpuriousWakeup
<1>7. CASE ClearBatch \/ Join \/ Destroy \/ Over \/ UNCHANGED vars
  BY <1>7 DEF ClearBatch, Join, Destroy, Over, vars
<1> QED
  BY <1>1, <1>2, <1>3, <1>4, <1>5, <1>6, <1>7 DEF Next, Produce, Run

\* Seen through sent, delivered and Phase, FastQueue is a FIFO channel.
THEOREM QueueIsAChannel == SafeSpec => Channel!SafeSpec
<1>1. Handshake => StopConsistent
  BY DEF Handshake
<1> QED
  BY HandshakeInvariant, OrderInvariant, ChannelInit, ChannelStep, <1>1, PTL
  DEF SafeSpec, Channel!SafeSpec

(***************************************************************************)
(* The number of signals.                                                  *)
(***************************************************************************)

\* There are finitely many producers, so those in a place can be counted.
LEMMA ProducersFinite ==
    /\ IsFiniteSet(Notifiers) /\ Cardinality(Notifiers) \in Nat
    /\ IsFiniteSet(Counting) /\ Cardinality(Counting) \in Nat
BY FastQueueAssumption, FS_Subset, FS_CardinalityType DEF Notifiers, Counting

\* The initial mWaiting = TRUE is the one signal allowed before any swap.
LEMMA BudgetInit == Init => Budget
<1> SUFFICES ASSUME Init
             PROVE  Budget
  OBVIOUS
<1>1. Notifiers = {} /\ Counting = {}
  BY DEF Init, Notifiers, Counting
<1>2. Cardinality(Notifiers) = 0 /\ Cardinality(Counting) = 0
  BY <1>1, FS_EmptySet
<1> QED
  BY <1>2 DEF Init, Budget, SignalBudget, CountBudget

\* Every step keeps the budget: only a swap earns a new signal, and a producer
\* counts no more signals than were made.
LEMMA BudgetStep == Typed /\ Budget /\ [Next]_vars => Budget'
<1> SUFFICES ASSUME Typed, Budget, [Next]_vars
             PROVE  Budget'
  OBVIOUS
<1> DEFINE N == Cardinality(Notifiers)
           C == Cardinality(Counting)
<1>a. /\ IsFiniteSet(Notifiers) /\ N \in Nat
      /\ IsFiniteSet(Counting) /\ C \in Nat
      /\ mNotifies \in Nat /\ signals \in Nat /\ batches \in Nat
      /\ mWaiting \in BOOLEAN
      /\ \A p \in Producers : seen[p] \in Nat
  <2>1. seen \in [Producers -> 0 .. CounterRange - 1]
    BY DEF Typed, TypeOK
  <2> QED
    BY <2>1, ProducersFinite DEF Typed, TypeOK
<1>b. /\ signals + N + (IF mWaiting THEN 1 ELSE 0) <= batches + 1
      /\ consumer \in {"lock", "process"} /\ mItems1 = << >> /\ ~mWaiting =>
             signals + N <= batches
      /\ mNotifies + C <= signals
      /\ \A p \in Producers : seen[p] + C <= signals
  BY DEF Budget, SignalBudget, CountBudget
<1> USE DEF Budget, SignalBudget, CountBudget
<1>1. ASSUME NEW p \in Producers, NEW size \in Sizes,
             Push(p, [mSize |-> size])
      PROVE  Budget'
  <2>0. /\ mItems1' # << >> /\ mWaiting' = FALSE
        /\ UNCHANGED <<mNotifies, signals, batches, seen>>
    BY <1>1, PushFills DEF Push
  <2>1. Counting' = Counting
    BY <1>1 DEF Push, Counting, Typed, TypeOK
  <2>2. CASE mWaiting
    <3>1. Notifiers' = Notifiers \cup {p} /\ p \notin Notifiers
      BY <1>1, <2>2 DEF Push, Notifiers, Typed, TypeOK
    <3>2. N' = N + 1
      BY <1>a, <3>1, FS_AddElement
    <3> QED
      BY <1>a, <1>b, <2>0, <2>1, <2>2, <3>2
  <2>3. CASE ~mWaiting
    <3>1. Notifiers' = Notifiers
      BY <1>1, <2>3 DEF Push, Notifiers, Typed, TypeOK
    <3> QED
      BY <1>a, <1>b, <2>0, <2>1, <2>3, <3>1
  <2> QED
    BY <2>2, <2>3, <1>a
<1>2. ASSUME NEW p \in Producers, NotifyOne(p)
      PROVE  Budget'
  <2>1. /\ Notifiers' = Notifiers \ {p} /\ p \in Notifiers
        /\ Counting' = Counting \cup {p} /\ p \notin Counting
    BY <1>2 DEF NotifyOne, Notifiers, Counting, Typed, TypeOK
  <2>2. N' = N - 1 /\ C' = C + 1
    BY <1>a, <2>1, FS_AddElement, FS_RemoveElement
  <2>3. /\ UNCHANGED <<mNotifies, mWaiting, mItems1, batches, seen>>
        /\ signals' = signals + 1
        /\ consumer' \in {"lock", "process"} => consumer' = consumer
    BY <1>2 DEF NotifyOne, WakeConsumer, counters, items
  <2> QED
    BY <1>a, <1>b, <2>2, <2>3
<1>3. ASSUME NEW p \in Producers, LoadNotifies(p)
      PROVE  Budget'
  <2>1. Notifiers' = Notifiers /\ Counting' = Counting
    BY <1>3 DEF LoadNotifies, Notifiers, Counting, Typed, TypeOK
  <2>2. /\ UNCHANGED <<mNotifies, mWaiting, mItems1, signals, batches, consumer>>
        /\ \A q \in Producers : seen'[q] \in {seen[q], mNotifies}
    BY <1>3 DEF LoadNotifies, counters, items, Typed, TypeOK
  <2> QED
    BY <1>a, <1>b, <2>1, <2>2
<1>4. ASSUME NEW p \in Producers, StoreNotifies(p)
      PROVE  Budget'
  <2>1. /\ Notifiers' = Notifiers
        /\ Counting' = Counting \ {p} /\ p \in Counting
    BY <1>4 DEF StoreNotifies, Notifiers, Counting, Typed, TypeOK
  <2>2. C' = C - 1
    BY <1>a, <2>1, FS_RemoveElement
  <2>3. /\ UNCHANGED <<mWaiting, mItems1, signals, batches, seen, consumer>>
        /\ mNotifies' = (seen[p] + 1) % CounterRange
    BY <1>4 DEF StoreNotifies, counters, items
  <2>4. mNotifies' <= seen[p] + 1 /\ mNotifies' \in Nat
    <3> DEFINE n == seen[p] + 1
    <3>1. n \in Nat /\ seen[p] \in Nat
      BY <1>a
    <3>2. n % CounterRange \in 0 .. CounterRange - 1
      BY <3>1, CounterInRange
    <3>3. n % CounterRange <= n
      <4> HIDE DEF n
      <4> QED
        BY <3>1, WrappedIsLess
    <3> QED
      BY <2>3, <3>1, <3>2, <3>3
  <2>5. seen[p] + C <= signals
    BY <1>b
  <2>6. mNotifies' + C' <= signals'
    BY <1>a, <2>2, <2>3, <2>4, <2>5
  <2>7. \A q \in Producers : seen'[q] + C' <= signals'
    BY <1>a, <1>b, <2>2, <2>3
  <2> QED
    BY <1>a, <1>b, <2>1, <2>3, <2>6, <2>7
<1>5. ASSUME UNCHANGED <<pc, mNotifies, seen, signals>>
      PROVE  N' = N /\ C' = C /\ UNCHANGED <<mNotifies, seen, signals>>
  BY <1>5 DEF Notifiers, Counting
<1>6. CASE StartWait
  BY <1>6, <1>5, <1>a, <1>b DEF StartWait, counters, items
<1>7. CASE TakeBatch \/ EndWait
  BY <1>7, <1>5, <1>a, <1>b DEF TakeBatch, EndWait, SwapItems
<1>8. CASE SeeQuit \/ WaitAgain \/ SpuriousWakeup
  BY <1>8, <1>5, <1>a, <1>b
  DEF SeeQuit, WaitAgain, SpuriousWakeup, counters, items
<1>9. CASE ProcessPacket \/ ClearBatch
  BY <1>9, <1>5, <1>a, <1>b DEF ProcessPacket, ClearBatch, counters
<1>10. CASE Stop \/ Join \/ Destroy \/ Over \/ UNCHANGED vars
  BY <1>10, <1>5, <1>a, <1>b
  DEF Stop, WakeConsumer, Join, Destroy, Over, counters, items, vars
<1> QED
  BY <1>1, <1>2, <1>3, <1>4, <1>6, <1>7, <1>8, <1>9, <1>10
  DEF Next, Produce, FinishPush, Run

\* At most one signal per batch, however many producers push concurrently, and
\* mNotifies never claims more than were made.
THEOREM SignalsAlwaysBounded == SafeSpec => []SignalsBounded
<1>1. Typed /\ Budget => SignalsBounded
  <2> SUFFICES ASSUME Typed, Budget
               PROVE  SignalsBounded
    OBVIOUS
  <2>1. Cardinality(Counting) \in Nat /\ mNotifies \in Int /\ signals \in Int
    BY ProducersFinite DEF Typed, TypeOK
  <2>2. mNotifies <= signals
    BY <2>1 DEF Budget, CountBudget
  <2> QED
    BY <2>2 DEF Budget, SignalBudget, SignalsBounded
<1> QED
  BY TypedInit, TypedStep, BudgetInit, BudgetStep, <1>1, PTL DEF SafeSpec

(***************************************************************************)
(* The byte counters.                                                      *)
(***************************************************************************)

\* Each counter is the size, modulo its range, of what it has counted.
CountersCount ==
    /\ mRxReceived = TotalSize(sent) % CounterRange
    /\ mRxProcessed = TotalSize(delivered) % CounterRange

\* TotalSize() is the last of the running totals of the packets' sizes.
LEMMA TotalSizeIsTotal ==
    ASSUME NEW packets \in Seq(Packet)
    PROVE  \E s : /\ Totals(s, [n \in 1 .. Len(packets) |-> packets[n].mSize],
                            Len(packets))
                  /\ TotalSize(packets) = s[Len(packets)]
<1> DEFINE N == Len(packets)
           g == [n \in 1 .. N |-> packets[n].mSize]
           IsSum(s) == s = [n \in 0 .. N |->
                              IF n = 0 THEN 0 ELSE s[n - 1] + packets[n].mSize]
<1>0. N \in Nat
  BY LenProperties
<1>1. \A s : IsSum(s) <=> Totals(s, g, N)
  <2> SUFFICES ASSUME NEW s
               PROVE  [n \in 0 .. N |->
                          IF n = 0 THEN 0 ELSE s[n - 1] + packets[n].mSize]
                        = [n \in 0 .. N |-> IF n = 0 THEN 0 ELSE s[n - 1] + g[n]]
    BY DEF Totals
  <2>1. \A n \in 0 .. N : n # 0 => g[n] = packets[n].mSize
    BY <1>0
  <2> QED
    BY <2>1
<1>2. \E s : IsSum(s)
  BY <1>0, <1>1, TotalsExist
<1>3. TotalSize(packets) = (CHOOSE s : IsSum(s))[N]
  BY DEF TotalSize
<1> HIDE DEF IsSum
<1>4. IsSum(CHOOSE s : IsSum(s))
  BY <1>2
<1> QED
  BY <1>1, <1>3, <1>4

\* One packet more adds its size.
LEMMA TotalSizeFacts ==
    /\ TotalSize(<< >>) = 0
    /\ \A packets \in Seq(Packet) : TotalSize(packets) \in Nat
    /\ \A packets \in Seq(Packet), e \in Packet :
         /\ e.mSize \in Nat
         /\ TotalSize(Append(packets, e)) = TotalSize(packets) + e.mSize
<1>1. TotalSize(<< >>) = 0
  <2>1. << >> \in Seq(Packet) /\ Len(<< >>) = 0
    BY EmptySeq
  <2>2. PICK s : /\ Totals(s, [n \in 1 .. 0 |-> << >>[n].mSize], 0)
                 /\ TotalSize(<< >>) = s[0]
    BY <2>1, TotalSizeIsTotal
  <2> QED
    BY <2>2, TotalsAt
<1>2. \A e \in Packet : e.mSize \in Nat
  BY FastQueueAssumption DEF Packet
<1>3. ASSUME NEW packets \in Seq(Packet)
      PROVE  TotalSize(packets) \in Nat
  <2> DEFINE N == Len(packets)
             g == [n \in 1 .. N |-> packets[n].mSize]
  <2>1. N \in Nat /\ \A n \in 1 .. N : packets[n] \in Packet
    BY LenProperties, ElementOfSeq
  <2>2. PICK s : Totals(s, g, N) /\ TotalSize(packets) = s[N]
    BY TotalSizeIsTotal
  <2>3. \A n \in 1 .. N : g[n] \in Nat
    BY <2>1, <1>2
  <2> HIDE DEF N, g
  <2>4. N \in 0 .. N /\ s[N] \in Nat
    BY <2>1, <2>2, <2>3, TotalsNat
  <2> QED
    BY <2>2, <2>4
<1>4. ASSUME NEW packets \in Seq(Packet), NEW e \in Packet
      PROVE  TotalSize(Append(packets, e)) = TotalSize(packets) + e.mSize
  <2> DEFINE N == Len(packets)
             longer == Append(packets, e)
             g == [n \in 1 .. N |-> packets[n].mSize]
             h == [n \in 1 .. N + 1 |-> longer[n].mSize]
  <2>1. /\ N \in Nat /\ longer \in Seq(Packet) /\ Len(longer) = N + 1
        /\ longer[N + 1] = e /\ \A n \in 1 .. N : longer[n] = packets[n]
    BY LenProperties, AppendProperties
  <2>2. PICK s : Totals(s, g, N) /\ TotalSize(packets) = s[N]
    BY TotalSizeIsTotal
  <2>3. PICK t : Totals(t, h, N + 1) /\ TotalSize(longer) = t[N + 1]
    BY <2>1, TotalSizeIsTotal
  <2>4. \A n \in 1 .. N : g[n] \in Nat /\ h[n] = g[n]
    <3>1. \A n \in 1 .. N : packets[n] \in Packet
      BY ElementOfSeq
    <3> QED
      BY <2>1, <3>1, <1>2
  <2>5. h[N + 1] = e.mSize /\ e.mSize \in Nat
    BY <2>1, <1>2
  <2>6. /\ N + 1 \in Nat /\ N <= N + 1 /\ N <= N /\ 0 \in Nat /\ 0 \in Int
        /\ N + 1 \in 1 .. N + 1 /\ (N + 1) - 1 = N /\ N \in 0 .. N
        /\ 0 \notin 1 .. N
    BY <2>1
  <2> HIDE DEF N, g, h, longer
  <2>7. s[N] \in Nat
    BY <2>1, <2>2, <2>4, <2>6, TotalsNat
  <2>8. t[N] = s[N]
    <3>1. MoreAt(h, g, 0, 0, N)
      BY <2>1, <2>4 DEF MoreAt
    <3>2. \A n \in 1 .. N : g[n] \in Nat
      BY <2>4
    <3> QED
      BY <2>1, <2>2, <2>3, <2>6, <2>7, <3>1, <3>2, TotalsDiffer
  <2>9. t[N + 1] = t[N] + h[N + 1]
    BY <2>3, <2>6, TotalsAt
  <2> QED
    BY <2>2, <2>3, <2>5, <2>7, <2>8, <2>9 DEF N, longer
<1> QED
  BY <1>1, <1>2, <1>3, <1>4

\* The size of two sequences, one after the other, by induction over the
\* length of the second.
LEMMA TotalSizeConcat ==
    ASSUME NEW a \in Seq(Packet), NEW b \in Seq(Packet)
    PROVE  TotalSize(a \o b) = TotalSize(a) + TotalSize(b)
<1> DEFINE Adds(c) == TotalSize(a \o c) = TotalSize(a) + TotalSize(c)
           S == {n \in Nat : \A c \in Seq(Packet) : Len(c) = n => Adds(c)}
<1>1. 0 \in S
  <2> SUFFICES ASSUME NEW c \in Seq(Packet), Len(c) = 0 PROVE Adds(c)
    OBVIOUS
  <2>1. c = << >>
    BY EmptySeq
  <2> QED
    BY <2>1, ConcatEmptySeq, TotalSizeFacts
<1>2. ASSUME NEW n \in Nat, n \in S PROVE n + 1 \in S
  <2> SUFFICES ASSUME NEW c \in Seq(Packet), Len(c) = n + 1 PROVE Adds(c)
    OBVIOUS
  <2>1. c # << >>
    BY EmptySeq
  <2>2. PICK front \in Seq(Packet), e \in Packet : c = Append(front, e)
    BY <2>1, SequenceEmptyOrAppend
  <2>3. Len(front) = n
    BY <2>2, AppendProperties, LenProperties
  <2>4. Adds(front)
    BY <1>2, <2>3
  <2>5. /\ a \o front \in Seq(Packet)
        /\ a \o Append(front, e) = Append(a \o front, e)
    <3>1. a \o front \in Seq(Packet) /\ << e >> \in Seq(Packet)
      BY ConcatProperties
    <3>2. (a \o front) \o << e >> = a \o (front \o << e >>)
      BY <3>1, ConcatAssociative
    <3> QED
      BY <3>1, <3>2, AppendIsConcat
  <2>6. /\ TotalSize(Append(a \o front, e)) = TotalSize(a \o front) + e.mSize
        /\ TotalSize(c) = TotalSize(front) + e.mSize
        /\ TotalSize(a) \in Nat /\ TotalSize(front) \in Nat /\ e.mSize \in Nat
    BY <2>2, <2>5, TotalSizeFacts
  <2>7. TotalSize(a \o c) = TotalSize(a \o front) + e.mSize
    BY <2>2, <2>5, <2>6
  <2> QED
    BY <2>4, <2>6, <2>7
<1> HIDE DEF S
<1>3. \A n \in Nat : n \in S
  BY <1>1, <1>2, SetInduction
<1>4. Len(b) \in Nat
  BY LenProperties
<1> QED
  BY <1>3, <1>4 DEF S

\* Nothing is counted yet.
LEMMA CountersInit == Init => CountersCount
<1>1. 0 % CounterRange = 0
  BY FastQueueAssumption
<1> QED
  BY <1>1, TotalSizeFacts DEF Init, CountersCount

\* push() and run() count every packet they append, and nothing else.
LEMMA CountersStep ==
    Typed /\ CountersCount /\ [Next]_vars => CountersCount'
<1> SUFFICES ASSUME Typed, CountersCount, [Next]_vars
             PROVE  CountersCount'
  OBVIOUS
<1>a. sent \in Seq(Packet) /\ delivered \in Seq(Packet)
  BY DEF Typed, TypeOK
<1>b. \A packets \in Seq(Packet), e \in Packet :
         ((TotalSize(packets) % CounterRange) + e.mSize) % CounterRange
             = TotalSize(Append(packets, e)) % CounterRange
  <2> SUFFICES ASSUME NEW packets \in Seq(Packet), NEW e \in Packet
               PROVE  ((TotalSize(packets) % CounterRange) + e.mSize) % CounterRange
                        = TotalSize(Append(packets, e)) % CounterRange
    OBVIOUS
  <2>1. /\ TotalSize(packets) \in Nat /\ e.mSize \in Nat
        /\ CounterRange \in Nat \ {0}
        /\ TotalSize(Append(packets, e)) = TotalSize(packets) + e.mSize
    BY FastQueueAssumption, TotalSizeFacts
  <2> QED
    BY <2>1, AddMod
<1>1. ASSUME NEW p \in Producers, NEW size \in Sizes,
             Push(p, [mSize |-> size])
      PROVE  CountersCount'
  <2> DEFINE e == [mSize |-> size]
  <2>1. e \in Packet
    BY DEF Packet
  <2>2. /\ mRxReceived' = (mRxReceived + e.mSize) % CounterRange
        /\ sent' = Append(sent, e)
        /\ UNCHANGED <<mRxProcessed, delivered>>
    BY <1>1 DEF Push
  <2> HIDE DEF e
  <2> QED
    BY <1>a, <1>b, <2>1, <2>2 DEF CountersCount
<1>2. CASE ProcessPacket
  <2> DEFINE e == mItems2[position + 1]
  <2>1. e \in Packet
    BY <1>2, ElementOfSeq DEF ProcessPacket, Typed, TypeOK
  <2>2. /\ mRxProcessed' = (mRxProcessed + e.mSize) % CounterRange
        /\ delivered' = Append(delivered, e)
        /\ UNCHANGED <<mRxReceived, sent>>
    BY <1>2 DEF ProcessPacket
  <2> HIDE DEF e
  <2> QED
    BY <1>a, <1>b, <2>1, <2>2 DEF CountersCount
<1>3. ASSUME UNCHANGED <<mRxReceived, mRxProcessed, sent, delivered>>
      PROVE  CountersCount'
  BY <1>3 DEF CountersCount
<1>4. ASSUME NEW p \in Producers, FinishPush(p)
      PROVE  CountersCount'
  BY <1>3, <1>4 DEF FinishPush, NotifyOne, LoadNotifies, StoreNotifies, counters
<1>5. CASE SeeQuit \/ StartWait \/ WaitAgain \/ SpuriousWakeup
  BY <1>3, <1>5 DEF SeeQuit, StartWait, WaitAgain, SpuriousWakeup, counters
<1>6. CASE TakeBatch \/ EndWait \/ ClearBatch
  BY <1>3, <1>6 DEF TakeBatch, EndWait, ClearBatch, counters
<1>7. CASE Stop \/ Join \/ Destroy \/ Over \/ UNCHANGED vars
  BY <1>3, <1>7 DEF Stop, Join, Destroy, Over, counters, vars
<1> QED
  BY <1>1, <1>2, <1>4, <1>5, <1>6, <1>7 DEF Next, Produce, Run

\* However often the counters wrap around, the bytes received are those
\* processed and those still to do.
THEOREM CountersAlwaysBalance == SafeSpec => []CountersBalance
<1>1. Typed /\ ExactlyOnceInOrder /\ CountersCount => CountersBalance
  <2> SUFFICES ASSUME Typed, ExactlyOnceInOrder, CountersCount
               PROVE  CountersBalance
    OBVIOUS
  <2>1. /\ mItems1 \in Seq(Packet) /\ mItems2 \in Seq(Packet)
        /\ delivered \in Seq(Packet)
        /\ position \in 0 .. Len(mItems2) /\ Len(mItems2) \in Nat
    BY LenProperties DEF Typed, TypeOK
  <2>2. ToDo \in Seq(Packet)
    BY <2>1, SubSeqProperties, ConcatProperties DEF ToDo
  <2>3. TotalSize(sent) = TotalSize(delivered) + TotalSize(ToDo)
    BY <2>1, <2>2, TotalSizeConcat DEF ExactlyOnceInOrder
  <2>4. TotalSize(delivered) \in Nat /\ TotalSize(ToDo) \in Nat
    BY <2>1, <2>2, TotalSizeFacts
  <2>5. ((TotalSize(delivered) % CounterRange) + TotalSize(ToDo)) % CounterRange
            = (TotalSize(delivered) + TotalSize(ToDo)) % CounterRange
    BY <2>4, FastQueueAssumption, AddMod
  <2> QED
    BY <2>3, <2>5 DEF CountersCount, CountersBalance
<1> QED
  BY TypedInit, TypedStep, OrderInvariant, CountersInit, CountersStep, <1>1, PTL
  DEF SafeSpec
=============================================================================
