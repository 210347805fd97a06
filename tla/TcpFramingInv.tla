---------------------------- MODULE TcpFramingInv ----------------------------
(***************************************************************************)
(* The inductive invariant behind FramingHolds: how the byte stream, the   *)
(* writers and the reader line up as long as nothing has damaged the       *)
(* framing.                                                                *)
(***************************************************************************)
EXTENDS TcpFraming

N == Len(frames)

\* Frames follow each other without a gap.
FramesInv ==
    /\ \A m \in 1..N : frames[m].start = End(m - 1) /\ frames[m].len > 0
    /\ \A m, n \in 0..N : m <= n => End(m) <= End(n)

\* At most one thread is inside a frame, it is the last one, and the stream
\* ends where that thread has got to.
WritersInv ==
    /\ Len(stream) <= End(N)
    /\ N > 0 => frames[N].start + HeaderLen <= Len(stream)
    /\ \A s, t \in Senders : pc[s] = "body" /\ pc[t] = "body" => s = t
    /\ \A s \in Senders : pc[s] = "header" => length[s] > 0
    /\ \A s \in Senders : pc[s] = "body" =>
         /\ frame[s] = N
         /\ N > 0
         /\ length[s] = frames[N].len
         /\ written[s] >= HeaderLen
         /\ written[s] < HeaderLen + length[s]
         /\ Len(stream) = frames[N].start + written[s]
    /\ open /\ (\A s \in Senders : pc[s] # "body") => Len(stream) = End(N)

\* Every byte is where its frame puts it.
StreamInv ==
    \A m \in 1..N : \A o \in 0..(HeaderLen + frames[m].len - 1) :
        frames[m].start + o < Len(stream) => stream[frames[m].start + o + 1] = <<m, o>>

\* Between messages the reader stands at the end of the last one received
\* (or at the end of a dead connection); inside one it has its first bytes.
ReaderInv ==
    /\ rpc = "header" =>
         \/ read = End(Len(received))
         \/ ~open /\ read = Len(stream)
    /\ rpc = "body" =>
         LET m == Len(received) + 1
         IN  /\ m <= N
             /\ messageLength = frames[m].len
             /\ Len(buffer) < messageLength
             /\ read = frames[m].start + HeaderLen + Len(buffer)
             /\ \A i \in 1..Len(buffer) : buffer[i] = <<m, HeaderLen + i - 1>>

\* While the framing is intact.
IntactInv == FramesInv /\ WritersInv /\ StreamInv /\ ReaderInv /\ InOrder

FramingInv == TypeOK /\ (faults = {} => IntactInv)

\* One thread writes, messages fit the reader's buffer, and the kernel hands
\* over a header in one piece.
OneWriter ==
    /\ \A s, t \in Senders : s = t
    /\ \A n \in Lengths : n < BufSize
    /\ Kernel \subseteq {"close"}

\* Nothing damages the framing then.
CalmInv ==
    /\ FramingInv
    /\ faults = {}
    /\ \A s \in Senders : pc[s] = "header" => length[s] \in Lengths
    /\ \A m \in 1..N : frames[m].len \in Lengths
=============================================================================
