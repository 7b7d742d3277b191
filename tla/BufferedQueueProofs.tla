------------------------ MODULE BufferedQueueProofs ------------------------
(* What BufferedQueue promises, proved for any sets of consumers, any batch *)
(* size and any number of items.                                            *)
EXTENDS BufferedQueue, SequenceTheorems, TLAPS

(***************************************************************************)
(* The inductive invariant, about the parts that the properties put        *)
(* together: popped, mQueue and mBuffer.                                   *)
(***************************************************************************)

Items(batches) == UNION {ToSet(batches[i]) : i \in 1 .. Len(batches)}

Disjoint(batches) ==
    \A i, j \in 1 .. Len(batches) :
        i # j => ToSet(batches[i]) \cap ToSet(batches[j]) = {}

\* Every item pushed is in one of the three, and in one batch of it.
Placed ==
    /\ Items(popped) \cup Items(mQueue) \cup ToSet(mBuffer) = 1 .. pushed
    /\ Items(popped) \cap Items(mQueue) = {}
    /\ Items(popped) \cap ToSet(mBuffer) = {}
    /\ Items(mQueue) \cap ToSet(mBuffer) = {}
    /\ Disjoint(popped) /\ Disjoint(mQueue)

\* The batches of the list, and behind them the buffer, are sorted.
Sorted ==
    /\ \A i \in 1 .. Len(mQueue) :
         /\ Ascending(mQueue[i]) /\ Before(mQueue[i], mBuffer)
         /\ Len(mQueue[i]) = Capacity
    /\ \A i, j \in 1 .. Len(mQueue) : i < j => Before(mQueue[i], mQueue[j])
    /\ Ascending(mBuffer)
    /\ Len(mBuffer) < Capacity

\* The buffer never keeps memory other than what was reserved.
Sized == capacity = Capacity

Inv == TypeOK /\ Placed /\ Sorted /\ Sized

(***************************************************************************)
(* The steps, as far as the items go: one is pushed, the first batch or    *)
(* the buffer is taken out, or they stay where they are.                   *)
(***************************************************************************)

Filled == Append(mBuffer, pushed + 1)

Pushes ==
    /\ pushed < MaxItems
    /\ pushed' = pushed + 1
    /\ popped' = popped
    /\ \/ /\ Len(Filled) = Capacity
          /\ mQueue' = Append(mQueue, Filled) /\ mBuffer' = << >>
       \/ /\ Len(Filled) # Capacity
          /\ mBuffer' = Filled /\ mQueue' = mQueue

TakesFront ==
    /\ mQueue # << >>
    /\ popped' = IF Head(mQueue) = << >> THEN popped
                                         ELSE Append(popped, Head(mQueue))
    /\ mQueue' = Tail(mQueue)
    /\ UNCHANGED <<mBuffer, pushed>>

TakesBuffer ==
    /\ popped' = Append(popped, mBuffer)
    /\ mBuffer' = << >>
    /\ UNCHANGED <<mQueue, pushed>>

Stays == UNCHANGED <<popped, mQueue, mBuffer, pushed>>

\* Every step is of one of these kinds.
LEMMA StepEffects ==
    Inv /\ [Next]_vars => Pushes \/ TakesFront \/ TakesBuffer \/ Stays
<1> SUFFICES ASSUME Inv, [Next]_vars
             PROVE  Pushes \/ TakesFront \/ TakesBuffer \/ Stays
  OBVIOUS
<1>1. CASE Push
  <2>1. Room = Capacity
    BY DEF Inv, Sorted, Sized, Room
  <2> QED
    BY <1>1, <2>1 DEF Push, Pushes, Filled
<1>2. CASE Stop \/ Over \/ UNCHANGED vars
  BY <1>2 DEF Stop, Over, Stays, vars
<1>3. ASSUME NEW c \in Consumers,
             StartPop(c) \/ WakeEarly(c) \/ Expire(c) \/ WakeLate(c)
             \/ QueueEmpty(c) \/ CheckClock(c) \/ UseResult(c)
      PROVE  Stays
  BY <1>3 DEF StartPop, WakeEarly, Expire, WakeLate, QueueEmpty, CheckClock,
              UseResult, Stays, queue
<1>4. ASSUME NEW c \in Consumers, TakeFront(c)
      PROVE  TakesFront
  BY <1>4 DEF TakeFront, Return, TakesFront
<1>5. ASSUME NEW c \in Consumers, FallBack(c) \/ NothingQueued(c)
      PROVE  TakesBuffer \/ Stays
  BY <1>5 DEF FallBack, NothingQueued, TakeBuffer, ReturnNothing, Return,
              TakesBuffer, Stays, queue
<1>6. \A c \in TimedConsumers : c \in Consumers
  BY DEF Consumers
<1> QED
  BY <1>1, <1>2, <1>3, <1>4, <1>5, <1>6
  DEF Next, Loop, TimedPop, PlainPop

(***************************************************************************)
(* Sequences of batches.                                                   *)
(***************************************************************************)

LEMMA ToSetAppend ==
    ASSUME NEW b \in Batch, NEW x \in 1 .. MaxItems
    PROVE  ToSet(Append(b, x)) = ToSet(b) \cup {x}
<1>1. /\ Len(b) \in Nat /\ DOMAIN b = 1 .. Len(b)
      /\ DOMAIN Append(b, x) = 1 .. Len(b) + 1
      /\ \A i \in 1 .. Len(b) : Append(b, x)[i] = b[i]
      /\ Append(b, x)[Len(b) + 1] = x
  BY AppendProperties, LenProperties DEF Batch
<1> QED
  BY <1>1 DEF ToSet

LEMMA ToSetEmpty == ToSet(<< >>) = {}
BY EmptySeq DEF ToSet

\* A batch behind the others.
LEMMA AppendBatch ==
    ASSUME NEW s \in Seq(Batch), NEW b \in Batch
    PROVE  /\ Items(Append(s, b)) = Items(s) \cup ToSet(b)
           /\ Disjoint(s) /\ Items(s) \cap ToSet(b) = {}
                => Disjoint(Append(s, b))
<1> DEFINE t == Append(s, b)
<1>1. /\ Len(s) \in Nat /\ Len(t) = Len(s) + 1
      /\ \A i \in 1 .. Len(s) : t[i] = s[i]
      /\ t[Len(s) + 1] = b
  BY AppendProperties, LenProperties
<1> HIDE DEF t
<1>2. \A i \in 1 .. Len(t) : i \in 1 .. Len(s) \/ i = Len(s) + 1
  BY <1>1
<1>3. \A i \in 1 .. Len(s) : i \in 1 .. Len(t) /\ i # Len(s) + 1
  BY <1>1
<1>4. Len(s) + 1 \in 1 .. Len(t)
  BY <1>1
<1>5. Items(t) = Items(s) \cup ToSet(b)
  BY <1>1, <1>2, <1>3, <1>4, Zenon DEF Items
<1>6. ASSUME Disjoint(s), Items(s) \cap ToSet(b) = {}
      PROVE  Disjoint(t)
  <2>1. \A i \in 1 .. Len(s) : ToSet(s[i]) \cap ToSet(b) = {}
    BY <1>6, Zenon DEF Items
  <2>2. ASSUME NEW i \in 1 .. Len(t), NEW j \in 1 .. Len(t), i # j
        PROVE  ToSet(t[i]) \cap ToSet(t[j]) = {}
    <3>1. CASE i \in 1 .. Len(s) /\ j \in 1 .. Len(s)
      BY <1>1, <1>6, <2>2, <3>1 DEF Disjoint
    <3>2. CASE i \in 1 .. Len(s) /\ j = Len(s) + 1
      BY <1>1, <2>1, <3>2
    <3>3. CASE i = Len(s) + 1 /\ j \in 1 .. Len(s)
      BY <1>1, <2>1, <3>3
    <3> QED
      BY <1>2, <2>2, <3>1, <3>2, <3>3
  <2> QED
    BY <2>2 DEF Disjoint
<1> QED
  BY <1>5, <1>6 DEF t

\* The first batch and the others.
LEMMA FirstBatch ==
    ASSUME NEW s \in Seq(Batch), s # << >>
    PROVE  /\ Head(s) \in Batch /\ Tail(s) \in Seq(Batch)
           /\ Len(s) \in Nat \ {0} /\ Len(Tail(s)) = Len(s) - 1
           /\ Head(s) = s[1]
           /\ \A i \in 1 .. Len(Tail(s)) : Tail(s)[i] = s[i + 1]
           /\ Items(s) = ToSet(Head(s)) \cup Items(Tail(s))
           /\ Disjoint(s) => /\ Disjoint(Tail(s))
                             /\ Items(Tail(s)) \cap ToSet(Head(s)) = {}
<1> DEFINE t == Tail(s)
<1>t. t = Tail(s)
  OBVIOUS
<1>1. /\ Head(s) \in Batch /\ t \in Seq(Batch)
      /\ Len(s) \in Nat \ {0} /\ Len(t) = Len(s) - 1
      /\ Head(s) = s[1]
      /\ \A i \in 1 .. Len(t) : t[i] = s[i + 1]
  BY HeadTailProperties, EmptySeq, LenProperties
<1> HIDE DEF t
<1>2. \A i \in 1 .. Len(t) : i + 1 \in 1 .. Len(s) /\ i + 1 # 1
  BY <1>1
<1>3. ASSUME NEW i \in 1 .. Len(s), i # 1
      PROVE  i - 1 \in 1 .. Len(t) /\ t[i - 1] = s[i]
  BY <1>1, <1>3
<1>4. 1 \in 1 .. Len(s)
  BY <1>1
<1>5. Items(s) \subseteq ToSet(Head(s)) \cup Items(t)
  <2>1. ASSUME NEW i \in 1 .. Len(s)
        PROVE  ToSet(s[i]) \subseteq ToSet(Head(s)) \cup Items(t)
    <3>1. CASE i = 1
      BY <1>1, <3>1
    <3>2. CASE i # 1
      <4> DEFINE j == i - 1
      <4>1. j \in 1 .. Len(t) /\ t[j] = s[i]
        BY <1>3, <3>2
      <4> HIDE DEF j
      <4> QED
        BY <4>1, Zenon DEF Items
    <3> QED
      BY <3>1, <3>2
  <2> QED
    BY <2>1, Zenon DEF Items
<1>6. ToSet(Head(s)) \cup Items(t) \subseteq Items(s)
  <2>1. ASSUME NEW i \in 1 .. Len(t)
        PROVE  ToSet(t[i]) \subseteq Items(s)
    <3> DEFINE j == i + 1
    <3>1. j \in 1 .. Len(s) /\ t[i] = s[j]
      BY <1>1, <1>2
    <3> HIDE DEF j
    <3> QED
      BY <3>1, Zenon DEF Items
  <2>2. ToSet(Head(s)) \subseteq Items(s)
    BY <1>1, <1>4, Zenon DEF Items
  <2> QED
    BY <2>1, <2>2, Zenon DEF Items
<1>7. ASSUME Disjoint(s)
      PROVE  Disjoint(t) /\ Items(t) \cap ToSet(Head(s)) = {}
  <2>1. \A i \in 1 .. Len(t) : ToSet(t[i]) \cap ToSet(s[1]) = {}
    BY <1>1, <1>2, <1>4, <1>7 DEF Disjoint
  <2>2. Items(t) \cap ToSet(Head(s)) = {}
    <3>1. \A x \in Items(t) : \E i \in 1 .. Len(t) : x \in ToSet(t[i])
      BY Zenon DEF Items
    <3> QED
      BY <1>1, <2>1, <3>1
  <2>3. \A i, j \in 1 .. Len(t) : i # j => i + 1 # j + 1
    OBVIOUS
  <2>4. ASSUME NEW i \in 1 .. Len(t), NEW j \in 1 .. Len(t), i # j
        PROVE  ToSet(t[i]) \cap ToSet(t[j]) = {}
    BY <1>1, <1>2, <1>7, <2>3, <2>4 DEF Disjoint
  <2> QED
    BY <2>2, <2>4 DEF Disjoint
<1>8. Items(s) = ToSet(Head(s)) \cup Items(t)
  BY <1>5, <1>6
<1> QED
  BY <1>t, <1>1, <1>7, <1>8, Zenon

\* Two lists of batches in a row.
LEMMA ConcatBatches ==
    ASSUME NEW a \in Seq(Batch), NEW b \in Seq(Batch)
    PROVE  /\ a \o b \in Seq(Batch)
           /\ Items(a \o b) = Items(a) \cup Items(b)
           /\ Disjoint(a) /\ Disjoint(b) /\ Items(a) \cap Items(b) = {}
                => Disjoint(a \o b)
<1> DEFINE t == a \o b
<1>t. t = a \o b
  OBVIOUS
<1>1. /\ t \in Seq(Batch)
      /\ Len(a) \in Nat /\ Len(b) \in Nat /\ Len(t) = Len(a) + Len(b)
      /\ \A i \in 1 .. Len(a) : t[i] = a[i]
      /\ \A i \in 1 .. Len(b) : t[Len(a) + i] = b[i]
  <2>1. /\ t \in Seq(Batch)
        /\ Len(a) \in Nat /\ Len(b) \in Nat /\ Len(t) = Len(a) + Len(b)
        /\ \A i \in 1 .. Len(a) + Len(b) :
             t[i] = IF i <= Len(a) THEN a[i] ELSE b[i - Len(a)]
    BY ConcatProperties, LenProperties
  <2> HIDE DEF t
  <2>2. \A i \in 1 .. Len(b) : /\ Len(a) + i \in 1 .. Len(a) + Len(b)
                              /\ ~(Len(a) + i <= Len(a))
                              /\ (Len(a) + i) - Len(a) = i
    BY <2>1
  <2> QED
    BY <2>1, <2>2
<1> HIDE DEF t
<1>2. /\ \A i \in 1 .. Len(a) : i \in 1 .. Len(t)
      /\ \A i \in 1 .. Len(b) : Len(a) + i \in 1 .. Len(t)
  BY <1>1
<1>3. \A i \in 1 .. Len(t) :
         \/ i \in 1 .. Len(a)
         \/ \E j \in 1 .. Len(b) : i = Len(a) + j
  <2>1. ASSUME NEW i \in 1 .. Len(t), i \notin 1 .. Len(a)
        PROVE  i - Len(a) \in 1 .. Len(b) /\ i = Len(a) + (i - Len(a))
    BY <1>1, <2>1
  <2> QED
    BY <2>1
<1>4. Items(t) \subseteq Items(a) \cup Items(b)
  <2>1. ASSUME NEW i \in 1 .. Len(t)
        PROVE  ToSet(t[i]) \subseteq Items(a) \cup Items(b)
    <3>1. CASE i \in 1 .. Len(a)
      BY <1>1, <3>1, Zenon DEF Items
    <3>2. ASSUME NEW j \in 1 .. Len(b), i = Len(a) + j
          PROVE  ToSet(t[i]) \subseteq Items(a) \cup Items(b)
      BY <1>1, <3>2, Zenon DEF Items
    <3> QED
      BY <1>3, <3>1, <3>2
  <2> QED
    BY <2>1, Zenon DEF Items
<1>5. Items(a) \cup Items(b) \subseteq Items(t)
  <2>1. \A i \in 1 .. Len(a) : ToSet(a[i]) \subseteq Items(t)
    BY <1>1, <1>2, Zenon DEF Items
  <2>2. ASSUME NEW i \in 1 .. Len(b)
        PROVE  ToSet(b[i]) \subseteq Items(t)
    <3> DEFINE k == Len(a) + i
    <3>1. k \in 1 .. Len(t) /\ b[i] = t[k]
      BY <1>1, <1>2
    <3> HIDE DEF k
    <3> QED
      BY <3>1, Zenon DEF Items
  <2> QED
    BY <2>1, <2>2, Zenon DEF Items
<1>6. ASSUME Disjoint(a), Disjoint(b), Items(a) \cap Items(b) = {}
      PROVE  Disjoint(t)
  <2>0. \A i \in 1 .. Len(a), j \in 1 .. Len(b) :
           ToSet(a[i]) \cap ToSet(b[j]) = {}
    BY <1>6, Zenon DEF Items
  <2>1. ASSUME NEW i \in 1 .. Len(t), NEW j \in 1 .. Len(t), i # j
        PROVE  ToSet(t[i]) \cap ToSet(t[j]) = {}
    <3>1. CASE i \in 1 .. Len(a) /\ j \in 1 .. Len(a)
      BY <1>1, <1>6, <2>1, <3>1 DEF Disjoint
    <3>2. ASSUME i \in 1 .. Len(a), NEW l \in 1 .. Len(b), j = Len(a) + l
          PROVE  ToSet(t[i]) \cap ToSet(t[j]) = {}
      BY <1>1, <2>0, <3>2
    <3>3. ASSUME NEW k \in 1 .. Len(b), i = Len(a) + k, j \in 1 .. Len(a)
          PROVE  ToSet(t[i]) \cap ToSet(t[j]) = {}
      BY <1>1, <2>0, <3>3
    <3>4. ASSUME NEW k \in 1 .. Len(b), i = Len(a) + k,
                 NEW l \in 1 .. Len(b), j = Len(a) + l
          PROVE  ToSet(t[i]) \cap ToSet(t[j]) = {}
      BY <1>1, <1>6, <2>1, <3>4 DEF Disjoint
    <3> QED
      BY <1>3, <3>1, <3>2, <3>3, <3>4
  <2> QED
    BY <2>1 DEF Disjoint
<1>7. Items(t) = Items(a) \cup Items(b)
  BY <1>4, <1>5
<1> QED
  BY <1>t, <1>1, <1>6, <1>7, Zenon

(***************************************************************************)
(* Types.                                                                  *)
(***************************************************************************)

LEMMA InvInit == Init => Inv
<1> SUFFICES ASSUME Init
             PROVE  Inv
  OBVIOUS
<1>1. << >> \in Batch /\ << >> \in Seq(Batch) /\ Len(<< >>) = 0
      /\ DOMAIN << >> = {}
  BY EmptySeq DEF Batch
<1>2. TypeOK
  <2>1. /\ mBuffer \in Batch /\ mQueue \in Seq(Batch) /\ popped \in Seq(Batch)
        /\ result \in [Consumers -> Batch]
    BY <1>1 DEF Init
  <2>2. pushed \in 0 .. MaxItems
    BY BufferedQueueAssumption DEF Init
  <2> QED
    BY <2>1, <2>2, BufferedQueueAssumption DEF Init, TypeOK, Reserved
<1>3. Items(<< >>) = {} /\ Disjoint(<< >>)
  BY <1>1 DEF Items, Disjoint
<1>4. Placed
  BY <1>3, ToSetEmpty DEF Init, Placed
<1>5. Sorted
  BY <1>1, BufferedQueueAssumption DEF Init, Sorted, Ascending
<1>6. Sized
  BY BufferedQueueAssumption DEF Init, Reserved, Sized
<1> QED
  BY <1>2, <1>4, <1>5, <1>6 DEF Inv

\* No step takes a variable out of its type.
LEMMA TypeStep == TypeOK /\ [Next]_vars => TypeOK'
<1> SUFFICES ASSUME TypeOK, [Next]_vars
             PROVE  TypeOK'
  OBVIOUS
<1> USE BufferedQueueAssumption DEF TypeOK
<1> DEFINE Labels == {"loop", "waiting", "woken", "early?", "late",
                      "returned", "done"}
<1>0. << >> \in Batch /\ mQueue \in Seq(Batch)
  BY EmptySeq DEF Batch
<1>g. ASSUME NEW c \in Consumers, NEW label \in Labels, Goto(c, label)
      PROVE  pc' \in [Consumers -> Labels]
  BY <1>g DEF Goto
<1>n. ASSUME NotifyAll
      PROVE  pc' \in [Consumers -> Labels]
  BY <1>n DEF NotifyAll
<1>r. ASSUME NEW c \in Consumers, NEW batch \in Batch, Return(c, batch)
      PROVE  /\ pc' \in [Consumers -> Labels]
             /\ result' \in [Consumers -> Batch]
             /\ popped' \in Seq(Batch)
             /\ UNCHANGED <<mQuit, pushed, expired, count>>
  BY <1>r, AppendProperties DEF Return, Goto
<1>1. CASE Push
  <2>1. pushed + 1 \in 1 .. MaxItems
    BY <1>1 DEF Push
  <2>2. Filled \in Batch
    BY <2>1, AppendProperties DEF Filled, Batch
  <2>3. Append(mQueue, Filled) \in Seq(Batch)
    BY <1>0, <2>2, AppendProperties
  <2>4. mQueue' \in Seq(Batch) /\ mBuffer' \in Batch
        /\ pc' \in [Consumers -> Labels]
    BY <1>0, <1>1, <1>n, <2>2, <2>3 DEF Push, Filled
  <2>5. capacity' \in Nat
    BY <1>1 DEF Push, Room, Grown, Reserved
  <2> QED
    BY <1>1, <2>1, <2>4, <2>5 DEF Push
<1>2. CASE Stop
  BY <1>2, <1>n DEF Stop
<1>3. ASSUME NEW c \in Consumers,
             StartPop(c) \/ WakeEarly(c) \/ Expire(c) \/ WakeLate(c)
             \/ QueueEmpty(c) \/ CheckClock(c)
      PROVE  TypeOK'
  BY <1>3 DEF StartPop, WakeEarly, Expire, WakeLate, QueueEmpty, CheckClock,
              queue, Goto
<1>4. ASSUME NEW c \in Consumers, TakeFront(c)
      PROVE  TypeOK'
  <2>1. Head(mQueue) \in Batch /\ Tail(mQueue) \in Seq(Batch)
    BY <1>0, <1>4, HeadTailProperties DEF TakeFront
  <2> QED
    BY <1>4, <1>r, <2>1 DEF TakeFront
<1>5. ASSUME NEW c \in Consumers, TakeBuffer(c) \/ ReturnNothing(c)
      PROVE  TypeOK'
  BY <1>0, <1>5, <1>r DEF TakeBuffer, ReturnNothing, Reserved
<1>6. ASSUME NEW c \in Consumers, FallBack(c) \/ NothingQueued(c)
      PROVE  TypeOK'
  <2>1. CASE TakeBuffer(c) \/ ReturnNothing(c)
    BY <1>5, <2>1
  <2>2. CASE Goto(c, "waiting") /\ UNCHANGED <<queue, expired, result, count, popped>>
    BY <2>2, <1>g DEF queue
  <2> QED
    BY <1>6, <2>1, <2>2 DEF FallBack, NothingQueued
<1>7. ASSUME NEW c \in Consumers, UseResult(c)
      PROVE  TypeOK'
  <2>1. result[c] \in Batch /\ Len(result[c]) \in Nat
    BY LenProperties DEF Batch
  <2>2. count' \in [Consumers -> Nat] /\ result' \in [Consumers -> Batch]
    BY <1>0, <1>7, <2>1 DEF UseResult
  <2>3. pc' \in [Consumers -> Labels]
    BY <1>7 DEF UseResult, Goto
  <2> QED
    BY <1>7, <2>2, <2>3 DEF UseResult, queue
<1>8. CASE Over \/ UNCHANGED vars
  BY <1>8 DEF Over, vars
<1>9. \A c \in TimedConsumers : c \in Consumers
  BY DEF Consumers
<1> QED
  BY <1>1, <1>2, <1>3, <1>4, <1>6, <1>7, <1>8, <1>9
  DEF Next, Loop, TimedPop, PlainPop

(***************************************************************************)
(* The steps keep the invariant.                                           *)
(***************************************************************************)

\* What push() adds to the buffer is new, and behind everything else.
LEMMA FilledIsNew ==
    ASSUME TypeOK, Placed, pushed < MaxItems
    PROVE  /\ Filled \in Batch /\ ToSet(Filled) = ToSet(mBuffer) \cup {pushed + 1}
           /\ \A n \in Items(popped) \cup Items(mQueue) \cup ToSet(mBuffer) :
                n \in 1 .. pushed
           /\ Len(mBuffer) \in Nat /\ Len(Filled) = Len(mBuffer) + 1
           /\ \A k \in 1 .. Len(mBuffer) :
                Filled[k] = mBuffer[k] /\ mBuffer[k] \in 1 .. pushed
           /\ Filled[Len(mBuffer) + 1] = pushed + 1
<1>1. mBuffer \in Seq(1 .. MaxItems) /\ pushed + 1 \in 1 .. MaxItems
  BY BufferedQueueAssumption DEF TypeOK, Batch
<1>2. /\ Filled \in Batch /\ Len(mBuffer) \in Nat
      /\ DOMAIN mBuffer = 1 .. Len(mBuffer)
      /\ Len(Filled) = Len(mBuffer) + 1
      /\ \A k \in 1 .. Len(mBuffer) : Filled[k] = mBuffer[k]
      /\ Filled[Len(mBuffer) + 1] = pushed + 1
  BY <1>1, AppendProperties, LenProperties DEF Filled, Batch
<1>3. ToSet(Filled) = ToSet(mBuffer) \cup {pushed + 1}
  BY <1>1, ToSetAppend DEF Filled, Batch
<1>4. \A n \in Items(popped) \cup Items(mQueue) \cup ToSet(mBuffer) :
         n \in 1 .. pushed
  BY DEF Placed
<1>5. \A k \in 1 .. Len(mBuffer) : mBuffer[k] \in ToSet(mBuffer)
  BY <1>2 DEF ToSet
<1> QED
  BY <1>2, <1>3, <1>4, <1>5

\* A pushed item comes into one place, the others change places together with
\* their batch.
LEMMA PlacedStep == Inv /\ [Next]_vars => Placed'
<1> SUFFICES ASSUME Inv, TypeOK, Placed, [Next]_vars
             PROVE  Placed'
  BY DEF Inv
<1>0. /\ popped \in Seq(Batch) /\ mQueue \in Seq(Batch) /\ mBuffer \in Batch
      /\ pushed \in Nat
  BY BufferedQueueAssumption DEF TypeOK
<1>p. /\ Items(popped) \cup Items(mQueue) \cup ToSet(mBuffer) = 1 .. pushed
      /\ Items(popped) \cap Items(mQueue) = {}
      /\ Items(popped) \cap ToSet(mBuffer) = {}
      /\ Items(mQueue) \cap ToSet(mBuffer) = {}
      /\ Disjoint(popped) /\ Disjoint(mQueue)
  BY DEF Placed
<1>1. CASE Pushes
  <2>1. /\ Filled \in Batch /\ ToSet(Filled) = ToSet(mBuffer) \cup {pushed + 1}
        /\ pushed' = pushed + 1 /\ popped' = popped
    BY <1>1, FilledIsNew DEF Pushes
  <2>2. 1 .. pushed' = (1 .. pushed) \cup {pushed + 1} /\ pushed + 1 \notin 1 .. pushed
    BY <1>0, <2>1
  <2>3. CASE mQueue' = Append(mQueue, Filled) /\ mBuffer' = << >>
    <3>1. Items(mQueue) \cap ToSet(Filled) = {}
      BY <1>p, <2>1, <2>2
    <3>2. /\ Items(mQueue') = Items(mQueue) \cup ToSet(Filled)
          /\ Disjoint(mQueue') /\ ToSet(mBuffer') = {}
      BY <1>0, <1>p, <2>1, <2>3, <3>1, AppendBatch, ToSetEmpty
    <3>3. Items(popped') = Items(popped) /\ Disjoint(popped')
      BY <1>p, <2>1
    <3> QED
      BY <1>p, <2>1, <2>2, <3>2, <3>3 DEF Placed
  <2>4. CASE mBuffer' = Filled /\ mQueue' = mQueue
    BY <1>p, <2>1, <2>2, <2>4 DEF Placed
  <2> QED
    BY <1>1, <2>3, <2>4 DEF Pushes
<1>2. CASE TakesFront
  <2>1. /\ mQueue # << >> /\ mQueue' = Tail(mQueue)
        /\ UNCHANGED <<mBuffer, pushed>>
    BY <1>2 DEF TakesFront
  <2>2. /\ Head(mQueue) \in Batch
        /\ Items(mQueue) = ToSet(Head(mQueue)) \cup Items(mQueue')
        /\ Disjoint(mQueue') /\ Items(mQueue') \cap ToSet(Head(mQueue)) = {}
    BY <1>0, <1>p, <2>1, FirstBatch
  <2>3. /\ Items(popped') = Items(popped) \cup ToSet(Head(mQueue))
        /\ Disjoint(popped')
    <3>1. CASE Head(mQueue) = << >>
      <4>1. popped' = popped /\ ToSet(Head(mQueue)) = {}
        BY <1>2, <3>1, ToSetEmpty DEF TakesFront
      <4> QED
        BY <1>p, <4>1
    <3>2. CASE Head(mQueue) # << >>
      <4>1. popped' = Append(popped, Head(mQueue))
        BY <1>2, <3>2 DEF TakesFront
      <4>2. Items(popped) \cap ToSet(Head(mQueue)) = {}
        BY <1>p, <2>2
      <4> QED
        BY <1>0, <1>p, <2>2, <4>1, <4>2, AppendBatch
    <3> QED
      BY <3>1, <3>2
  <2>4. ToSet(mBuffer') = ToSet(mBuffer) /\ pushed' = pushed
    BY <2>1
  <2> QED
    BY <1>p, <2>2, <2>3, <2>4 DEF Placed
<1>3. CASE TakesBuffer
  <2>1. /\ popped' = Append(popped, mBuffer) /\ mBuffer' = << >>
        /\ UNCHANGED <<mQueue, pushed>>
    BY <1>3 DEF TakesBuffer
  <2>2. /\ Items(popped') = Items(popped) \cup ToSet(mBuffer)
        /\ Disjoint(popped') /\ ToSet(mBuffer') = {}
    BY <1>0, <1>p, <2>1, AppendBatch, ToSetEmpty
  <2>3. Items(mQueue') = Items(mQueue) /\ Disjoint(mQueue') /\ pushed' = pushed
    BY <1>p, <2>1
  <2> QED
    BY <1>p, <2>2, <2>3 DEF Placed
<1>4. CASE Stays
  BY <1>p, <1>4 DEF Stays, Placed
<1> QED
  BY <1>1, <1>2, <1>3, <1>4, StepEffects

\* Batches leave at the front of the list and come in behind, filled.
LEMMA SortedStep == Inv /\ [Next]_vars => Sorted'
<1> SUFFICES ASSUME Inv, TypeOK, Placed, Sorted, [Next]_vars
             PROVE  Sorted'
  BY DEF Inv
<1>0. /\ mQueue \in Seq(Batch) /\ mBuffer \in Batch /\ pushed \in Nat
      /\ Len(mQueue) \in Nat /\ Capacity \in Nat \ {0}
      /\ Len(mBuffer) \in Nat /\ DOMAIN mBuffer = 1 .. Len(mBuffer)
  BY BufferedQueueAssumption, LenProperties DEF TypeOK, Batch
<1>s. /\ \A i \in 1 .. Len(mQueue) :
           /\ Ascending(mQueue[i]) /\ Before(mQueue[i], mBuffer)
           /\ Len(mQueue[i]) = Capacity
      /\ \A i, j \in 1 .. Len(mQueue) : i < j => Before(mQueue[i], mQueue[j])
      /\ Ascending(mBuffer) /\ Len(mBuffer) < Capacity
  BY DEF Sorted
<1>e. /\ Ascending(<< >>) /\ Len(<< >>) = 0
      /\ \A b : Before(b, << >>)
  BY EmptySeq, ToSetEmpty DEF Ascending, Before
<1>1. CASE Pushes
  <2>1. pushed < MaxItems
    BY <1>1 DEF Pushes
  <2>2. /\ Filled \in Batch /\ Len(Filled) = Len(mBuffer) + 1
        /\ DOMAIN Filled = 1 .. Len(Filled)
    BY <2>1, FilledIsNew, LenProperties DEF Batch
  <2>3. Ascending(Filled)
    <3>1. ASSUME NEW k \in 1 .. Len(mBuffer) + 1, NEW l \in 1 .. Len(mBuffer) + 1,
                 k < l
          PROVE  Filled[k] < Filled[l]
      <4>1. k \in 1 .. Len(mBuffer) /\ Filled[k] = mBuffer[k]
            /\ mBuffer[k] \in 1 .. pushed
        BY <1>0, <2>1, <3>1, FilledIsNew
      <4>2. CASE l = Len(mBuffer) + 1
        BY <1>0, <2>1, <4>1, <4>2, FilledIsNew
      <4>3. CASE l # Len(mBuffer) + 1
        <5>1. l \in 1 .. Len(mBuffer) /\ Filled[l] = mBuffer[l]
          BY <1>0, <2>1, <4>3, FilledIsNew
        <5> QED
          BY <1>0, <1>s, <3>1, <4>1, <5>1 DEF Ascending
      <4> QED
        BY <4>2, <4>3
    <3> QED
      BY <2>2, <3>1 DEF Ascending
  <2>4. ASSUME NEW i \in 1 .. Len(mQueue)
        PROVE  Before(mQueue[i], Filled)
    <3>1. ASSUME NEW x \in ToSet(mQueue[i])
          PROVE  x \in 1 .. pushed
      <4>1. x \in Items(mQueue)
        BY Zenon DEF Items
      <4> QED
        BY <2>1, <4>1, FilledIsNew
    <3>2. ToSet(Filled) = ToSet(mBuffer) \cup {pushed + 1}
      BY <2>1, FilledIsNew
    <3>3. \A x \in ToSet(mQueue[i]) : \A y \in ToSet(mBuffer) : x < y
      BY <1>s DEF Before
    <3> QED
      BY <1>0, <3>1, <3>2, <3>3 DEF Before
  <2>5. CASE Len(Filled) # Capacity /\ mBuffer' = Filled /\ mQueue' = mQueue
    BY <1>0, <1>s, <2>2, <2>3, <2>4, <2>5 DEF Sorted
  <2>6. CASE Len(Filled) = Capacity /\ mQueue' = Append(mQueue, Filled)
             /\ mBuffer' = << >>
    <3>1. /\ Len(mQueue') = Len(mQueue) + 1
          /\ \A i \in 1 .. Len(mQueue) : mQueue'[i] = mQueue[i]
          /\ mQueue'[Len(mQueue) + 1] = Filled
      BY <1>0, <2>2, <2>6, AppendProperties
    <3>2. \A i \in 1 .. Len(mQueue') : i \in 1 .. Len(mQueue)
                                         \/ i = Len(mQueue) + 1
      BY <1>0, <3>1
    <3>3. \A i \in 1 .. Len(mQueue') :
             /\ Ascending(mQueue'[i]) /\ Before(mQueue'[i], mBuffer')
             /\ Len(mQueue'[i]) = Capacity
      BY <1>e, <1>s, <2>3, <2>6, <3>1, <3>2
    <3>4. ASSUME NEW i \in 1 .. Len(mQueue'), NEW j \in 1 .. Len(mQueue'), i < j
          PROVE  Before(mQueue'[i], mQueue'[j])
      <4>1. i \in 1 .. Len(mQueue)
        BY <1>0, <3>1, <3>4
      <4> QED
        BY <1>s, <2>4, <3>1, <3>2, <3>4, <4>1
    <3> QED
      BY <1>0, <1>e, <2>6, <3>3, <3>4 DEF Sorted
  <2> QED
    BY <1>1, <2>5, <2>6 DEF Pushes
<1>2. CASE TakesFront
  <2>1. /\ mBuffer' = mBuffer /\ Len(mQueue') \in Nat
        /\ Len(mQueue') = Len(mQueue) - 1
        /\ \A i \in 1 .. Len(mQueue') : mQueue'[i] = mQueue[i + 1]
    BY <1>0, <1>2, FirstBatch DEF TakesFront
  <2>2. \A i \in 1 .. Len(mQueue') : i + 1 \in 1 .. Len(mQueue)
    BY <1>0, <2>1
  <2>3. \A i, j \in 1 .. Len(mQueue') : i < j => i + 1 < j + 1
    OBVIOUS
  <2> QED
    BY <1>s, <2>1, <2>2, <2>3 DEF Sorted
<1>3. CASE TakesBuffer
  BY <1>0, <1>e, <1>s, <1>3 DEF TakesBuffer, Sorted
<1>4. CASE Stays
  BY <1>s, <1>4 DEF Stays, Sorted, Before, Ascending
<1> QED
  BY <1>1, <1>2, <1>3, <1>4, StepEffects

\* A full buffer is moved away and a new one reserved; an unfinished one is
\* swapped for one that was reserved.
LEMMA SizedStep == Inv /\ [Next]_vars => Sized'
<1> SUFFICES ASSUME Inv, [Next]_vars
             PROVE  Sized'
  OBVIOUS
<1> USE DEF Sized
<1>0. capacity = Capacity /\ Len(mBuffer) < Capacity /\ Reserved(0) = Capacity
  BY BufferedQueueAssumption DEF Inv, Sorted, Reserved
<1>1. CASE Push
  BY <1>0, <1>1 DEF Push, Room
<1>2. CASE Stop \/ Over \/ UNCHANGED vars
  BY <1>0, <1>2 DEF Stop, Over, vars
<1>3. ASSUME NEW c \in Consumers,
             StartPop(c) \/ WakeEarly(c) \/ Expire(c) \/ WakeLate(c)
             \/ QueueEmpty(c) \/ CheckClock(c) \/ UseResult(c)
      PROVE  Sized'
  BY <1>0, <1>3 DEF StartPop, WakeEarly, Expire, WakeLate, QueueEmpty,
                    CheckClock, UseResult, queue
<1>4. ASSUME NEW c \in Consumers,
             TakeFront(c) \/ FallBack(c) \/ NothingQueued(c)
      PROVE  Sized'
  BY <1>0, <1>4 DEF TakeFront, FallBack, NothingQueued, TakeBuffer,
                    ReturnNothing, queue
<1>5. \A c \in TimedConsumers : c \in Consumers
  BY DEF Consumers
<1> QED
  BY <1>1, <1>2, <1>3, <1>4, <1>5 DEF Next, Loop, TimedPop, PlainPop

LEMMA Invariant == SafeSpec => []Inv
<1>1. Inv /\ [Next]_vars => Inv'
  BY TypeStep, PlacedStep, SortedStep, SizedStep DEF Inv
<1> QED
  BY InvInit, <1>1, PTL DEF SafeSpec

(***************************************************************************)
(* The theorems.                                                           *)
(***************************************************************************)

\* Every variable of the queue and its users always has its type.
THEOREM TypeCorrect == SafeSpec => []TypeOK
<1>1. Inv => TypeOK
  BY DEF Inv
<1> QED
  BY Invariant, <1>1, PTL

\* Every item pushed is in one batch: one that has been returned, one of the
\* list, or the buffer.
THEOREM NothingLostOrDuplicated == SafeSpec => []NoItemLostOrDuplicated
<1>1. ASSUME Inv
      PROVE  NoItemLostOrDuplicated
  <2> DEFINE handed == popped \o mQueue
  <2>1. /\ popped \in Seq(Batch) /\ mQueue \in Seq(Batch) /\ mBuffer \in Batch
        /\ Items(popped) \cup Items(mQueue) \cup ToSet(mBuffer) = 1 .. pushed
        /\ Items(popped) \cap Items(mQueue) = {}
        /\ Items(popped) \cap ToSet(mBuffer) = {}
        /\ Items(mQueue) \cap ToSet(mBuffer) = {}
        /\ Disjoint(popped) /\ Disjoint(mQueue)
    BY <1>1 DEF Inv, TypeOK, Placed
  <2>2. /\ handed \in Seq(Batch) /\ Disjoint(handed)
        /\ Items(handed) = Items(popped) \cup Items(mQueue)
    BY <2>1, ConcatBatches
  <2>3. AllBatches = Append(handed, mBuffer)
    BY <2>1, <2>2, AppendIsConcat DEF AllBatches
  <2> HIDE DEF handed
  <2>4. /\ AllBatches \in Seq(Batch) /\ DOMAIN AllBatches = 1 .. Len(AllBatches)
        /\ Items(AllBatches) = 1 .. pushed /\ Disjoint(AllBatches)
    BY <2>1, <2>2, <2>3, AppendBatch, AppendProperties, LenProperties
  <2> QED
    BY <2>4, Zenon DEF NoItemLostOrDuplicated, Items, Disjoint
<1> QED
  BY Invariant, <1>1, PTL

\* From the head of the list to the end of the buffer the items are in push
\* order; the batches of the list are full and the buffer is not.
THEOREM AlwaysInOrder == SafeSpec => []QueueInOrder
<1>1. ASSUME Inv
      PROVE  QueueInOrder
  <2>1. /\ mQueue \in Seq(Batch) /\ mBuffer \in Batch /\ Len(mQueue) \in Nat
        /\ DOMAIN mQueue = 1 .. Len(mQueue)
    BY <1>1, LenProperties DEF Inv, TypeOK
  <2>2. /\ DOMAIN Line = 1 .. Len(mQueue) + 1
        /\ \A i \in 1 .. Len(mQueue) : Line[i] = mQueue[i]
        /\ Line[Len(mQueue) + 1] = mBuffer
    BY <2>1, AppendProperties, LenProperties DEF Line
  <2>3. \A i \in DOMAIN Line : i \in 1 .. Len(mQueue) \/ i = Len(mQueue) + 1
    BY <2>1, <2>2
  <2>4. \A i \in DOMAIN Line : Ascending(Line[i])
    BY <1>1, <2>2, <2>3 DEF Inv, Sorted
  <2>5. ASSUME NEW i \in DOMAIN Line, NEW j \in DOMAIN Line, i < j
        PROVE  Before(Line[i], Line[j])
    <3>1. i \in 1 .. Len(mQueue)
      BY <2>1, <2>2, <2>5
    <3> QED
      BY <1>1, <2>2, <2>3, <2>5, <3>1 DEF Inv, Sorted
  <2> QED
    BY <1>1, <2>1, <2>4, <2>5 DEF QueueInOrder, Inv, Sorted
<1> QED
  BY Invariant, <1>1, PTL

\* A batch taken out before an older one is the unfinished buffer, and only
\* pop(timeout) does that, after its timeout.
THEOREM OvertakingIsConfined == SafeSpec => OnlyTheBufferOvertakes
<1>1. ASSUME Inv, [Next]_vars, NEW c \in Consumers,
             popped' # popped, pc[c] # "returned", pc'[c] = "returned",
             NEW i \in DOMAIN mQueue', mQueue'[i][1] < result'[c][1]
      PROVE  pc[c] = "late" /\ result'[c] = mBuffer
  <2>0. /\ pc \in [Consumers -> {"loop", "waiting", "woken", "early?", "late",
                                 "returned", "done"}]
        /\ result \in [Consumers -> Batch] /\ mQueue \in Seq(Batch)
        /\ DOMAIN << >> = {}
    BY <1>1, EmptySeq DEF Inv, TypeOK
  <2>r. ASSUME NEW d \in Consumers, NEW batch, Return(d, batch)
        PROVE  d = c /\ pc[c] = pc[d] /\ result'[c] = batch
    BY <1>1, <2>0, <2>r DEF Return, Goto
  <2>1. ASSUME NEW d \in Consumers, TakeFront(d)
        PROVE  FALSE
    <3>1. /\ mQueue # << >> /\ mQueue' = Tail(mQueue)
          /\ result'[c] = Head(mQueue)
      BY <2>1, <2>r DEF TakeFront
    <3>2. /\ Head(mQueue) = mQueue[1] /\ Len(mQueue) \in Nat
          /\ mQueue' \in Seq(Batch) /\ Len(mQueue') = Len(mQueue) - 1
          /\ \A k \in 1 .. Len(mQueue') : mQueue'[k] = mQueue[k + 1]
      BY <2>0, <3>1, FirstBatch
    <3>3. i \in 1 .. Len(mQueue')
      BY <1>1, <3>2, LenProperties
    <3>4. /\ 1 \in 1 .. Len(mQueue) /\ i + 1 \in 1 .. Len(mQueue) /\ 1 < i + 1
      BY <3>2, <3>3
    <3>5. ASSUME NEW k \in 1 .. Len(mQueue)
          PROVE  mQueue[k][1] \in ToSet(mQueue[k]) /\ mQueue[k][1] \in Int
      <4>1. mQueue[k] \in Seq(1 .. MaxItems) /\ Len(mQueue[k]) = Capacity
        BY <1>1, <2>0, ElementOfSeq DEF Inv, Sorted, Batch
      <4>2. 1 \in DOMAIN mQueue[k]
        BY <4>1, LenProperties, BufferedQueueAssumption
      <4>3. 1 \in 1 .. Len(mQueue[k])
        BY <4>1, BufferedQueueAssumption
      <4>4. mQueue[k][1] \in 1 .. MaxItems
        BY <4>1, <4>3, ElementOfSeq
      <4>5. mQueue[k][1] \in ToSet(mQueue[k])
        BY <4>2, Zenon DEF ToSet
      <4> QED
        BY <4>4, <4>5
    <3>6. mQueue[1][1] < mQueue[i + 1][1]
      BY <1>1, <3>4, <3>5 DEF Inv, Sorted, Before
    <3> QED
      BY <1>1, <3>1, <3>2, <3>3, <3>4, <3>5, <3>6
  <2>2. ASSUME NEW d \in Consumers, NothingQueued(d)
        PROVE  FALSE
    <3>1. mQueue' = << >>
      BY <2>2 DEF NothingQueued, TakeBuffer, ReturnNothing, queue
    <3> QED
      BY <1>1, <2>0, <3>1
  <2>3. ASSUME NEW d \in Consumers, FallBack(d)
        PROVE  pc[c] = "late" /\ result'[c] = mBuffer
    <3>1. TakeBuffer(d) /\ pc[d] = "late"
      BY <1>1, <2>3 DEF FallBack, ReturnNothing, Return
    <3> QED
      BY <2>r, <3>1 DEF TakeBuffer
  <2>4. \A d \in TimedConsumers : d \in Consumers
    BY DEF Consumers
  <2>5. \E d \in Consumers : TakeFront(d) \/ NothingQueued(d) \/ FallBack(d)
    BY <1>1, <2>4
    DEF Next, Push, Stop, Over, vars, queue, Loop, TimedPop, PlainPop, StartPop,
        WakeEarly, Expire, WakeLate, QueueEmpty, CheckClock, UseResult
  <2> QED
    BY <2>1, <2>2, <2>3, <2>5
<1>2. Inv /\ [Next]_vars =>
        [\A c \in Consumers :
            /\ popped' # popped
            /\ pc[c] # "returned" /\ pc'[c] = "returned"
            /\ \E i \in DOMAIN mQueue' : mQueue'[i][1] < result'[c][1]
            => pc[c] = "late" /\ result'[c] = mBuffer]_vars
  BY <1>1
<1> QED
  BY Invariant, <1>2, PTL DEF SafeSpec, OnlyTheBufferOvertakes
=============================================================================
