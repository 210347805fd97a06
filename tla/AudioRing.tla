------------------------------ MODULE AudioRing -----------------------------
(***************************************************************************)
(* The way of one outlet's audio through the host.  On every tick Pd's     *)
(* audio thread sends a block to the runner and pops a block from the      *)
(* outlet's RingBuffer (ofxOfeliaSignal::perform); on every block that     *)
(* comes back the timer thread pushes it (receiveAudioSamples).  No lock   *)
(* and no atomic is used.  A compiler may keep count_ in a register        *)
(* through the loops of push and pop, or store and load it in every turn:  *)
(* both are behaviours of this model.                                      *)
(*                                                                         *)
(* The n-th sample that is pushed has the value n.                         *)
(***************************************************************************)
EXTENDS Naturals, Sequences

CONSTANTS
    Half,        \* half the capacity of the ring, 2048 in the code
    Block,       \* samples in a block
    MaxTicks     \* bound: how often perform is called

ASSUME HalfAssumption == Half \in Nat \ {0}
ASSUME BlockAssumption == Block \in Nat \ {0}
ASSUME MaxTicksAssumption == MaxTicks \in Nat

Size == 2 * Half

VARIABLES
    buffer, head, tail, count,   \* the members of RingBuffer
    ticks,                       \* calls of perform so far
    inFlight,                    \* blocks sent to the runner and not yet back
    apc, areg, aseen, aleft,     \* the audio thread in pop: its copy of count_,
                                 \* count_ when it was loaded, the items left
    tpc, treg, tseen, tleft,     \* the timer thread in push
    pushed,                      \* history: samples pushed
    out,                         \* history: samples popped
    raced,                       \* history: a store of count_ undid another one
    overHalf                     \* history: more than half the ring was in use

ring == <<buffer, head, tail, count>>
audioVars == <<apc, areg, aseen, aleft>>
timerVars == <<tpc, treg, tseen, tleft>>
vars == <<ring, ticks, inFlight, audioVars, timerVars, pushed, out, raced, overHalf>>

MinOf(a, b) == IF a < b THEN a ELSE b

Init ==
    /\ buffer = [i \in 0..(Size - 1) |-> 0]
    /\ head = 0
    /\ tail = Half
    /\ count = 0
    /\ ticks = 0
    /\ inFlight = 0
    /\ apc = "idle" /\ areg = 0 /\ aseen = 0 /\ aleft = 0
    /\ tpc = "idle" /\ treg = 0 /\ tseen = 0 /\ tleft = 0
    /\ pushed = 0
    /\ out = <<>>
    /\ raced = FALSE
    /\ overHalf = FALSE

-----------------------------------------------------------------------------
(* The audio thread: perform, pop *)

\* A tick: a block goes to the runner, and pop takes what there is of one.
Perform ==
    /\ apc = "idle"
    /\ ticks < MaxTicks
    /\ ticks' = ticks + 1
    /\ inFlight' = inFlight + 1
    /\ aleft' = MinOf(Block, count)
    /\ apc' = IF aleft' = 0 THEN "idle" ELSE "pop"
    /\ areg' = count
    /\ aseen' = count
    /\ UNCHANGED <<ring, timerVars, pushed, out, raced, overHalf>>

PopItem ==
    /\ apc = "pop"
    /\ aleft > 0
    /\ out' = Append(out, buffer[tail])
    /\ tail' = (tail + 1) % Size
    /\ areg' = areg - 1
    /\ aleft' = aleft - 1
    /\ UNCHANGED <<buffer, head, count, ticks, inFlight, apc, aseen, timerVars, pushed, raced, overHalf>>

\* count_ is stored, at the end of the loop or between two turns.
PopStore ==
    /\ apc = "pop"
    /\ areg # aseen
    /\ count' = areg
    /\ raced' = (raced \/ count # aseen)
    /\ apc' = IF aleft = 0 THEN "idle" ELSE "load"
    /\ UNCHANGED <<buffer, head, tail, ticks, inFlight, areg, aseen, aleft, timerVars, pushed, out, overHalf>>

PopLoad ==
    /\ apc = "load"
    /\ areg' = count
    /\ aseen' = count
    /\ apc' = "pop"
    /\ UNCHANGED <<ring, ticks, inFlight, aleft, timerVars, pushed, out, raced, overHalf>>

-----------------------------------------------------------------------------
(* The timer thread: receiveAudioSamples, push *)

\* Mutant: push does not look whether the block fits.
ReceiveUnchecked ==
    /\ tpc = "idle"
    /\ inFlight > 0
    /\ inFlight' = inFlight - 1
    /\ tleft' = Block
    /\ tpc' = "push"
    /\ treg' = count
    /\ tseen' = count
    /\ UNCHANGED <<ring, ticks, audioVars, pushed, out, raced, overHalf>>

\* A block comes back.  One that does not fit is dropped as a whole.
Receive ==
    /\ tpc = "idle"
    /\ inFlight > 0
    /\ inFlight' = inFlight - 1
    /\ IF Block > Size - count
       THEN UNCHANGED timerVars
       ELSE /\ tleft' = Block
            /\ tpc' = "push"
            /\ treg' = count
            /\ tseen' = count
    /\ UNCHANGED <<ring, ticks, audioVars, pushed, out, raced, overHalf>>

\* Mutant: the next sample goes to the same place.
PushInPlace ==
    /\ tpc = "push"
    /\ tleft > 0
    /\ buffer' = [buffer EXCEPT ![head] = pushed + 1]
    /\ pushed' = pushed + 1
    /\ treg' = treg + 1
    /\ tleft' = tleft - 1
    /\ overHalf' = (overHalf \/ pushed + 1 - Len(out) > Half)
    /\ UNCHANGED <<head, tail, count, ticks, inFlight, audioVars, tpc, tseen, out, raced>>

PushItem ==
    /\ tpc = "push"
    /\ tleft > 0
    /\ buffer' = [buffer EXCEPT ![head] = pushed + 1]
    /\ pushed' = pushed + 1
    /\ head' = (head + 1) % Size
    /\ treg' = treg + 1
    /\ tleft' = tleft - 1
    /\ overHalf' = (overHalf \/ pushed + 1 - Len(out) > Half)
    /\ UNCHANGED <<tail, count, ticks, inFlight, audioVars, tpc, tseen, out, raced>>

\* Mutant: the count of the last block is not stored.
PushStoreNothing ==
    /\ tpc = "push"
    /\ treg # tseen
    /\ tpc' = IF tleft = 0 THEN "idle" ELSE "load"
    /\ UNCHANGED <<ring, ticks, inFlight, audioVars, treg, tseen, tleft, pushed, out, raced, overHalf>>

PushStore ==
    /\ tpc = "push"
    /\ treg # tseen
    /\ count' = treg
    /\ raced' = (raced \/ count # tseen)
    /\ tpc' = IF tleft = 0 THEN "idle" ELSE "load"
    /\ UNCHANGED <<buffer, head, tail, ticks, inFlight, audioVars, treg, tseen, tleft, pushed, out, overHalf>>

PushLoad ==
    /\ tpc = "load"
    /\ treg' = count
    /\ tseen' = count
    /\ tpc' = "push"
    /\ UNCHANGED <<ring, ticks, inFlight, audioVars, tleft, pushed, out, raced, overHalf>>

-----------------------------------------------------------------------------
Audio == Perform \/ PopItem \/ PopStore \/ PopLoad
Timer == Receive \/ PushItem \/ PushStore \/ PushLoad

Next == Audio \/ Timer

Spec == Init /\ [][Next]_vars

-----------------------------------------------------------------------------
(* Properties *)

\* Every variable keeps to its type.  Whatever the two threads do to each
\* other's stores, count_ stays within the ring, so that the unsigned number
\* never wraps around (RingBuffer::push and pop).
TypeOK ==
    /\ buffer \in [0..(Size - 1) -> Nat]
    /\ head \in 0..(Size - 1)
    /\ tail \in 0..(Size - 1)
    /\ count \in 0..Size
    /\ ticks \in 0..MaxTicks
    /\ inFlight \in 0..ticks
    /\ apc \in {"idle", "pop", "load"}
    /\ areg \in 0..Size /\ aseen \in 0..Size /\ aleft \in 0..Block
    /\ tpc \in {"idle", "push", "load"}
    /\ treg \in 0..Size /\ tseen \in 0..Size /\ tleft \in 0..Block
    /\ pushed \in Nat
    /\ out \in Seq(Nat)
    /\ raced \in BOOLEAN
    /\ overHalf \in BOOLEAN

\* Between calls count_ is what was pushed and not yet popped, unless a store
\* of one thread has undone one of the other.
CountIsExact ==
    apc = "idle" /\ tpc = "idle" /\ ~raced => count = pushed - Len(out)

\* The ring is a delay line: the reader starts half a ring away from the
\* writer, so that what comes out is what went in, in order and without a gap,
\* half a ring later.  That ends with the first race on count_ and as soon as
\* more than half of the ring is in use, when the reader is overtaken.
DelayLine ==
    ~raced /\ ~overHalf =>
        \A k \in 1..Len(out) : out[k] = IF k > Half THEN k - Half ELSE 0
=============================================================================
