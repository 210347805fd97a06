-------------------------- MODULE AudioRing_proofs ---------------------------
(***************************************************************************)
(* Proofs about AudioRing: whatever two threads without a lock do to       *)
(* count_, it stays within the ring, and it is exact until one store has   *)
(* undone another.  Any capacity, any block, any number of ticks.          *)
(***************************************************************************)
EXTENDS AudioRing, Integers, TLAPS

\* The audio thread's stores lower count_ and the timer thread's raise it,
\* so that what either has loaded is a bound as long as the other is stale.
AudioInv ==
    /\ apc = "pop" => /\ aseen <= count
                      /\ areg <= aseen
                      /\ aleft <= areg
                      /\ areg = aseen => aleft > 0
    /\ apc = "load" => aleft > 0 /\ aleft <= count

TimerInv ==
    /\ tpc = "push" => /\ count <= tseen
                       /\ tseen <= treg
                       /\ treg + tleft <= Size
                       /\ treg = tseen => tleft > 0
    /\ tpc = "load" => tleft > 0 /\ count + tleft <= Size

\* What each thread has done to the ring and not stored.
popping == IF apc = "pop" THEN aseen - areg ELSE 0
pushing == IF tpc = "push" THEN treg - tseen ELSE 0

\* Without a race, count_ lacks what is not stored and nothing else.
CountInv == ~raced => count + pushing + Len(out) = pushed + popping

RingInv == TypeOK /\ AudioInv /\ TimerInv /\ CountInv

\* The ring has room.
LEMMA SizeNat == Size \in Nat /\ Size > 0 /\ Half \in 0..(Size - 1)
  BY HalfAssumption DEF Size

\* Indices go round.
LEMMA Around == ASSUME NEW i \in 0..(Size - 1) PROVE (i + 1) % Size \in 0..(Size - 1)
  BY SizeNat

\* The ring is empty and nobody uses it.
LEMMA InitRing == Init => RingInv
<1> SUFFICES ASSUME Init PROVE RingInv
  OBVIOUS
<1>1. TypeOK
  <2>1. /\ buffer \in [0..(Size - 1) -> Nat]
        /\ head \in 0..(Size - 1) /\ tail \in 0..(Size - 1) /\ count \in 0..Size
    BY SizeNat DEF Init
  <2>2. /\ ticks \in 0..MaxTicks /\ inFlight \in 0..ticks
        /\ areg \in 0..Size /\ aseen \in 0..Size /\ aleft \in 0..Block
        /\ treg \in 0..Size /\ tseen \in 0..Size /\ tleft \in 0..Block
    BY SizeNat, MaxTicksAssumption, BlockAssumption DEF Init
  <2>3. pushed \in Nat /\ out \in Seq(Nat)
    BY DEF Init
  <2> QED BY <2>1, <2>2, <2>3, Zenon DEF Init, TypeOK
<1>2. AudioInv /\ TimerInv
  BY DEF Init, AudioInv, TimerInv
<1>3. CountInv
  BY DEF Init, CountInv, popping, pushing
<1> QED BY <1>1, <1>2, <1>3 DEF RingInv

\* perform sends a block and looks how much it may pop.
LEMMA PerformStep == ASSUME RingInv, Perform PROVE RingInv'
<1>1. TypeOK'
  BY BlockAssumption, MaxTicksAssumption, SizeNat DEF RingInv, TypeOK, Perform, MinOf, ring, timerVars
<1>2. AudioInv'
  BY BlockAssumption, SizeNat DEF RingInv, TypeOK, Perform, MinOf, AudioInv, ring
<1>3. TimerInv'
  BY DEF RingInv, TimerInv, Perform, ring, timerVars
<1>4. CountInv'
  BY SizeNat DEF RingInv, TypeOK, Perform, CountInv, popping, pushing, ring, timerVars
<1> QED BY <1>1, <1>2, <1>3, <1>4 DEF RingInv

\* A sample is popped; nobody else sees it yet.
LEMMA PopItemStep == ASSUME RingInv, PopItem PROVE RingInv'
<1>1. TypeOK'
  <2>1. tail' \in 0..(Size - 1) /\ buffer[tail] \in Nat
    BY Around DEF RingInv, TypeOK, PopItem
  <2>2. out' \in Seq(Nat)
    BY <2>1 DEF RingInv, TypeOK, PopItem
  <2>3. areg' \in 0..Size /\ aleft' \in 0..Block
    BY SizeNat, BlockAssumption DEF RingInv, TypeOK, AudioInv, PopItem
  <2> QED BY <2>1, <2>2, <2>3 DEF RingInv, TypeOK, PopItem, timerVars
<1>2. AudioInv' /\ TimerInv'
  BY SizeNat, BlockAssumption DEF RingInv, TypeOK, AudioInv, TimerInv, PopItem, timerVars
<1>3. CountInv'
  <2>1. Len(out') = Len(out) + 1
    BY DEF RingInv, TypeOK, PopItem
  <2>2. popping' = popping + 1 /\ pushing' = pushing
    BY SizeNat DEF RingInv, TypeOK, PopItem, popping, pushing, timerVars
  <2>3. popping \in Int /\ pushing \in Int /\ Len(out) \in Int /\ count \in Int /\ pushed \in Int
    BY SizeNat DEF RingInv, TypeOK, popping, pushing
  <2> QED BY <2>1, <2>2, <2>3 DEF RingInv, CountInv, PopItem
<1> QED BY <1>1, <1>2, <1>3 DEF RingInv

\* count_ is lowered.
LEMMA PopStoreStep == ASSUME RingInv, PopStore PROVE RingInv'
<1>1. TypeOK'
  BY DEF RingInv, TypeOK, PopStore, timerVars
<1>2. AudioInv' /\ TimerInv'
  BY SizeNat, BlockAssumption DEF RingInv, TypeOK, AudioInv, TimerInv, PopStore, timerVars
<1>3. CountInv'
  <2> SUFFICES ASSUME ~raced' PROVE count' + pushing' + Len(out) = pushed + popping'
    BY DEF PopStore, CountInv
  <2>1. ~raced /\ count = aseen /\ count' = areg /\ UNCHANGED <<out, pushed>>
    BY DEF PopStore, RingInv, TypeOK
  <2>2. popping = aseen - areg /\ popping' = 0 /\ pushing' = pushing
    BY DEF PopStore, popping, pushing, timerVars
  <2>3. popping \in Int /\ pushing \in Int /\ Len(out) \in Int /\ pushed \in Int
        /\ aseen \in Int /\ areg \in Int
    BY SizeNat DEF RingInv, TypeOK, popping, pushing
  <2> QED BY <2>1, <2>2, <2>3 DEF RingInv, CountInv
<1> QED BY <1>1, <1>2, <1>3 DEF RingInv

\* count_ is loaded again: what is left to pop is still there.
LEMMA PopLoadStep == ASSUME RingInv, PopLoad PROVE RingInv'
<1>1. TypeOK'
  BY DEF RingInv, TypeOK, PopLoad, ring, timerVars
<1>2. AudioInv' /\ TimerInv'
  BY SizeNat, BlockAssumption DEF RingInv, TypeOK, AudioInv, TimerInv, PopLoad, ring, timerVars
<1>3. CountInv'
  BY SizeNat DEF RingInv, TypeOK, CountInv, popping, pushing, PopLoad, ring, timerVars
<1> QED BY <1>1, <1>2, <1>3 DEF RingInv

\* A block is dropped, or there is room for it.
LEMMA ReceiveStep == ASSUME RingInv, Receive PROVE RingInv'
<1>1. TypeOK'
  BY SizeNat, BlockAssumption, MaxTicksAssumption DEF RingInv, TypeOK, Receive, ring, audioVars, timerVars
<1>2. AudioInv' /\ TimerInv'
  BY SizeNat, BlockAssumption DEF RingInv, TypeOK, AudioInv, TimerInv, Receive, ring, audioVars, timerVars
<1>3. CountInv'
  BY SizeNat DEF RingInv, TypeOK, CountInv, popping, pushing, Receive, ring, audioVars, timerVars
<1> QED BY <1>1, <1>2, <1>3 DEF RingInv

\* A sample is pushed; nobody else sees it yet.
LEMMA PushItemStep == ASSUME RingInv, PushItem PROVE RingInv'
<1>1. TypeOK'
  <2>1. head' \in 0..(Size - 1)
    BY Around DEF RingInv, TypeOK, PushItem
  <2>2. buffer' \in [0..(Size - 1) -> Nat] /\ pushed' \in Nat
    BY DEF RingInv, TypeOK, PushItem
  <2>3. treg' \in 0..Size /\ tleft' \in 0..Block
    BY SizeNat, BlockAssumption DEF RingInv, TypeOK, TimerInv, PushItem
  <2>4. overHalf' \in BOOLEAN
    BY DEF RingInv, TypeOK, PushItem
  <2> QED BY <2>1, <2>2, <2>3, <2>4 DEF RingInv, TypeOK, PushItem, audioVars
<1>2. AudioInv' /\ TimerInv'
  BY SizeNat, BlockAssumption DEF RingInv, TypeOK, AudioInv, TimerInv, PushItem, audioVars
<1>3. CountInv'
  <2>1. pushing' = pushing + 1 /\ popping' = popping
    BY SizeNat DEF RingInv, TypeOK, PushItem, popping, pushing, audioVars
  <2>2. popping \in Int /\ pushing \in Int /\ Len(out) \in Int /\ count \in Int /\ pushed \in Int
    BY SizeNat DEF RingInv, TypeOK, popping, pushing
  <2> QED BY <2>1, <2>2 DEF RingInv, CountInv, PushItem
<1> QED BY <1>1, <1>2, <1>3 DEF RingInv

\* count_ is raised.
LEMMA PushStoreStep == ASSUME RingInv, PushStore PROVE RingInv'
<1>1. TypeOK'
  BY DEF RingInv, TypeOK, PushStore, audioVars
<1>2. AudioInv' /\ TimerInv'
  BY SizeNat, BlockAssumption DEF RingInv, TypeOK, AudioInv, TimerInv, PushStore, audioVars
<1>3. CountInv'
  <2> SUFFICES ASSUME ~raced' PROVE count' + pushing' + Len(out) = pushed + popping'
    BY DEF PushStore, CountInv
  <2>1. ~raced /\ count = tseen /\ count' = treg /\ UNCHANGED <<out, pushed>>
    BY DEF PushStore, RingInv, TypeOK
  <2>2. pushing = treg - tseen /\ pushing' = 0 /\ popping' = popping
    BY DEF PushStore, popping, pushing, audioVars
  <2>3. popping \in Int /\ pushing \in Int /\ Len(out) \in Int /\ pushed \in Int
        /\ tseen \in Int /\ treg \in Int
    BY SizeNat DEF RingInv, TypeOK, popping, pushing
  <2> QED BY <2>1, <2>2, <2>3 DEF RingInv, CountInv
<1> QED BY <1>1, <1>2, <1>3 DEF RingInv

\* count_ is loaded again: there is still room for what is left to push.
LEMMA PushLoadStep == ASSUME RingInv, PushLoad PROVE RingInv'
<1>1. TypeOK'
  BY DEF RingInv, TypeOK, PushLoad, ring, audioVars
<1>2. AudioInv' /\ TimerInv'
  BY SizeNat, BlockAssumption DEF RingInv, TypeOK, AudioInv, TimerInv, PushLoad, ring, audioVars
<1>3. CountInv'
  BY SizeNat DEF RingInv, TypeOK, CountInv, popping, pushing, PushLoad, ring, audioVars
<1> QED BY <1>1, <1>2, <1>3 DEF RingInv

\* The invariant holds in every state.
LEMMA RingInvariant == Spec => []RingInv
<1>1. RingInv /\ [Next]_vars => RingInv'
  <2> SUFFICES ASSUME RingInv, [Next]_vars PROVE RingInv'
    OBVIOUS
  <2>1. CASE UNCHANGED vars
    BY <2>1 DEF vars, ring, audioVars, timerVars, RingInv, TypeOK, AudioInv, TimerInv,
                CountInv, popping, pushing
  <2> QED BY <2>1, PerformStep, PopItemStep, PopStoreStep, PopLoadStep, ReceiveStep,
             PushItemStep, PushStoreStep, PushLoadStep DEF Next, Audio, Timer
<1> QED BY <1>1, InitRing, PTL DEF Spec

-----------------------------------------------------------------------------
(* The delay line *)

Wrap(i) == IF i < Size THEN i ELSE i - Size

\* The k-th sample to come out.
Delayed(k) == IF k > Half THEN k - Half ELSE 0

inUse == pushed - Len(out)

\* From the reader's place round to the writer's the ring holds, in order, the
\* half ring of samples behind the reader's and those in use.
DelayInv ==
    ~raced /\ ~overHalf =>
        /\ inUse \in 0..Half
        /\ head = Wrap(tail + Half + inUse)
        /\ \A j \in 0..(Half + inUse - 1) : buffer[Wrap(tail + j)] = Delayed(Len(out) + 1 + j)
        /\ \A k \in 1..Len(out) : out[k] = Delayed(k)

\* The step of an index is one round the ring.
LEMMA StepIsWrap == ASSUME NEW i \in 0..(Size - 1) PROVE (i + 1) % Size = Wrap(i + 1)
  BY SizeNat DEF Wrap

\* The reader starts half a ring behind the writer, on silence.
LEMMA InitDelay == Init => DelayInv
<1> SUFFICES ASSUME Init PROVE DelayInv
  OBVIOUS
<1>1. inUse = 0 /\ Len(out) = 0
  <2>1. pushed = 0 /\ out = <<>>
    BY DEF Init
  <2>2. Len(out) = 0
    BY <2>1
  <2>3. pushed - Len(out) = 0 - 0
    BY <2>1, <2>2, Zenon
  <2> QED BY <2>2, <2>3 DEF inUse
<1>2. Half \in Nat /\ Half > 0 /\ Size = Half + Half
  BY HalfAssumption DEF Size
<1>3. head = Wrap(tail + Half + inUse)
  BY <1>1, <1>2 DEF Init, Wrap
<1>4. ASSUME NEW j \in 0..(Half + inUse - 1)
      PROVE  buffer[Wrap(tail + j)] = Delayed(Len(out) + 1 + j)
  <2>1. Wrap(tail + j) \in 0..(Size - 1)
    BY <1>1, <1>2 DEF Init, Wrap
  <2> QED BY <1>1, <1>2, <2>1 DEF Init, Delayed
<1> QED BY <1>1, <1>2, <1>3, <1>4 DEF DelayInv, Init

\* The next sample comes out.
LEMMA PopDelay == ASSUME RingInv, DelayInv, PopItem PROVE DelayInv'
<1> SUFFICES ASSUME ~raced, ~overHalf PROVE DelayInv'
  BY DEF PopItem, DelayInv
<1>1. /\ head \in 0..(Size - 1) /\ tail \in 0..(Size - 1) /\ pushed \in Nat
      /\ Half \in Nat /\ Half > 0 /\ Size = Half + Half /\ out \in Seq(Nat) /\ Len(out) \in Nat
  <2>1. out \in Seq(Nat)
    BY DEF RingInv, TypeOK
  <2>2. Len(out) \in Nat
    BY <2>1
  <2> QED BY <2>1, <2>2, HalfAssumption DEF RingInv, TypeOK, Size
<1>2. /\ inUse \in 0..Half /\ head = Wrap(tail + Half + inUse)
      /\ \A j \in 0..(Half + inUse - 1) : buffer[Wrap(tail + j)] = Delayed(Len(out) + 1 + j)
      /\ \A k \in 1..Len(out) : out[k] = Delayed(k)
  BY DEF DelayInv
<1>3. /\ out' = Append(out, buffer[tail]) /\ tail' = Wrap(tail + 1)
      /\ UNCHANGED <<buffer, head, pushed>> /\ buffer[tail] \in Nat
  BY <1>1, StepIsWrap DEF PopItem, RingInv, TypeOK
<1>4. Len(out') = Len(out) + 1 /\ out'[Len(out) + 1] = buffer[tail] /\ \A k \in 1..Len(out) : out'[k] = out[k]
  BY <1>1, <1>3
<1>5. inUse' = inUse - 1
  BY <1>1, <1>3, <1>4 DEF inUse
<1>6. inUse' >= 0
  <2>1. /\ count \in Nat /\ aseen \in Nat /\ areg \in Nat /\ treg \in Nat /\ tseen \in Nat
        /\ aleft \in Nat /\ apc = "pop" /\ aleft > 0
    BY SizeNat, BlockAssumption DEF RingInv, TypeOK, PopItem
  <2>2. pushing \in Nat
    BY <2>1 DEF RingInv, TimerInv, pushing
  <2>3. popping \in Int /\ popping < count
    BY <2>1 DEF RingInv, AudioInv, popping
  <2>4. count + pushing + Len(out) = pushed + popping
    BY DEF RingInv, CountInv
  <2>5. inUse = count + pushing - popping
    BY <1>1, <2>1, <2>2, <2>3, <2>4 DEF inUse
  <2> QED BY <1>5, <2>1, <2>2, <2>3, <2>5
<1>7. head' = Wrap(tail' + Half + inUse')
  BY <1>1, <1>2, <1>3, <1>5, <1>6 DEF Wrap
<1>8. ASSUME NEW j \in 0..(Half + inUse' - 1)
      PROVE  buffer[Wrap(tail' + j)] = Delayed(Len(out') + 1 + j)
  <2>1. j + 1 \in 0..(Half + inUse - 1) /\ Wrap(tail' + j) = Wrap(tail + (j + 1))
    BY <1>1, <1>2, <1>3, <1>5, <1>6 DEF Wrap
  <2>2. Len(out) + 1 + (j + 1) = Len(out') + 1 + j
    BY <1>1, <1>4
  <2> QED BY <1>2, <2>1, <2>2
<1>9. out'[Len(out) + 1] = Delayed(Len(out) + 1)
  <2>1. 0 \in 0..(Half + inUse - 1) /\ Wrap(tail + 0) = tail /\ Len(out) + 1 + 0 = Len(out) + 1
    BY <1>1, <1>2 DEF Wrap
  <2> QED BY <1>2, <1>4, <2>1
<1>10. \A k \in 1..Len(out') : out'[k] = Delayed(k)
  <2>1. \A k \in 1..Len(out') : k \in 1..Len(out) \/ k = Len(out) + 1
    BY <1>1, <1>4
  <2> QED BY <1>2, <1>4, <1>9, <2>1
<1>11. inUse' \in 0..Half
  BY <1>1, <1>2, <1>5, <1>6
<1> QED BY <1>3, <1>7, <1>8, <1>10, <1>11 DEF DelayInv, Wrap, Delayed

\* A sample goes to the place behind the last one, which holds nothing that is
\* still to come out.
LEMMA PushDelay == ASSUME RingInv, DelayInv, PushItem PROVE DelayInv'
<1> SUFFICES ASSUME ~raced, ~overHalf, ~(pushed + 1 - Len(out) > Half) PROVE DelayInv'
  BY DEF PushItem, DelayInv
<1>1. /\ head \in 0..(Size - 1) /\ tail \in 0..(Size - 1) /\ pushed \in Nat
      /\ Half \in Nat /\ Half > 0 /\ Size = Half + Half /\ Len(out) \in Nat
      /\ buffer \in [0..(Size - 1) -> Nat]
  BY HalfAssumption DEF RingInv, TypeOK, Size
<1>2. /\ inUse \in 0..Half /\ head = Wrap(tail + Half + inUse)
      /\ \A j \in 0..(Half + inUse - 1) : buffer[Wrap(tail + j)] = Delayed(Len(out) + 1 + j)
      /\ \A k \in 1..Len(out) : out[k] = Delayed(k)
  BY DEF DelayInv
<1>3. /\ buffer' = [buffer EXCEPT ![head] = pushed + 1] /\ head' = Wrap(head + 1)
      /\ pushed' = pushed + 1 /\ UNCHANGED <<tail, out>>
  BY <1>1, StepIsWrap DEF PushItem
<1>4. inUse' = inUse + 1 /\ inUse' \in 0..Half
  BY <1>1, <1>2, <1>3 DEF inUse
<1>5. head' = Wrap(tail + Half + inUse')
  BY <1>1, <1>2, <1>3, <1>4 DEF Wrap
<1>6. ASSUME NEW j \in 0..(Half + inUse' - 1)
      PROVE  buffer'[Wrap(tail + j)] = Delayed(Len(out) + 1 + j)
  <2>1. CASE j = Half + inUse
    <3>1. Wrap(tail + j) = head
      BY <1>1, <1>2, <2>1 DEF Wrap
    <3>2. Delayed(Len(out) + 1 + j) = pushed + 1
      BY <1>1, <1>2, <2>1 DEF Delayed, inUse
    <3> QED BY <1>1, <1>3, <3>1, <3>2
  <2>2. CASE j \in 0..(Half + inUse - 1)
    <3>1. Wrap(tail + j) # head /\ Wrap(tail + j) \in 0..(Size - 1)
      BY <1>1, <1>2, <1>4, <2>2 DEF Wrap
    <3> QED BY <1>1, <1>2, <1>3, <2>2, <3>1
  <2> QED BY <1>1, <1>2, <1>4, <2>1, <2>2
<1> QED BY <1>2, <1>3, <1>4, <1>5, <1>6 DEF DelayInv, Wrap, Delayed

\* The other steps leave the samples alone.
LEMMA DelayInvariant == Spec => []DelayInv
<1>1. RingInv /\ DelayInv /\ [Next]_vars => DelayInv'
  <2> SUFFICES ASSUME RingInv, DelayInv, [Next]_vars PROVE DelayInv'
    OBVIOUS
  <2>1. CASE UNCHANGED <<buffer, head, tail, pushed, out, overHalf>> /\ (raced => raced')
    BY <2>1 DEF DelayInv, inUse, Wrap, Delayed
  <2>2. \/ PopItem \/ PushItem
        \/ UNCHANGED <<buffer, head, tail, pushed, out, overHalf>> /\ (raced => raced')
    BY DEF Next, Audio, Timer, Perform, PopStore, PopLoad, Receive, PushStore, PushLoad, vars, ring
  <2> QED BY <2>1, <2>2, PopDelay, PushDelay
<1> QED BY <1>1, InitDelay, RingInvariant, PTL DEF Spec

-----------------------------------------------------------------------------
\* Whatever the two threads do to each other's stores, count_ and the indices
\* stay within the ring (RingBuffer::push and pop).
THEOREM WithinRing == Spec => []TypeOK
<1>1. RingInv => TypeOK
  BY DEF RingInv
<1> QED BY <1>1, RingInvariant, PTL

\* Between calls count_ is what was pushed and not yet popped, unless a store of
\* one thread has undone one of the other.
THEOREM ExactCount == Spec => []CountIsExact
<1>1. ASSUME RingInv PROVE CountIsExact
  <2>1. count \in Int /\ pushed \in Int /\ Len(out) \in Int
    BY <1>1, SizeNat DEF RingInv, TypeOK
  <2> QED BY <1>1, <2>1 DEF RingInv, CountInv, CountIsExact, popping, pushing
<1> QED BY <1>1, RingInvariant, PTL
\* What comes out of the ring is what went in, in order, without a gap and half
\* a ring later, until stores race or more than half of it is in use.
THEOREM HalfRingLater == Spec => []DelayLine
<1>1. DelayInv => DelayLine
  BY DEF DelayInv, DelayLine, Delayed
<1> QED BY <1>1, DelayInvariant, PTL
=============================================================================
