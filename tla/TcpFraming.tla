----------------------------- MODULE TcpFraming -----------------------------
(***************************************************************************)
(* One direction of one TCP connection of an ofxOfeliaStream: the threads  *)
(* that call TcpSocket::sendData on it, the kernel's byte stream, and the  *)
(* one thread of the other process that calls TcpSocket::receiveData.      *)
(*                                                                         *)
(* sendData writes a frame, a header that holds the payload's length and   *)
(* then the payload, by separate send() calls and under no lock.           *)
(* receiveData reads a header by a single recv(), rejects it or reads that *)
(* many payload bytes.  A byte of the stream is a token <<m, o>>: the byte *)
(* at offset o of frame m, a header byte when o < HeaderLen.               *)
(***************************************************************************)
EXTENDS Naturals, Sequences

CONSTANTS
    Senders,         \* the threads that write to this direction
    Lengths,         \* the payload sizes they pass to sendData
    HeaderLen,       \* sizeof(messageLength): 4 in the code
    BufSize,         \* buffer.size(): 65500 in the code
    SocketBuffer,    \* how many unread bytes the kernel holds before send() blocks
    MaxFrames,       \* bound: how many frames are begun
    Kernel           \* the rarer outcomes of send() and recv() that may happen

Outcomes == {"short_send", "short_read", "close"}

ASSUME LengthsAssumption == Lengths \subseteq Nat
ASSUME HeaderLenAssumption == HeaderLen \in Nat \ {0}
ASSUME BufSizeAssumption == BufSize \in Nat
ASSUME SocketBufferAssumption == SocketBuffer \in Nat /\ SocketBuffer >= HeaderLen
ASSUME MaxFramesAssumption == MaxFrames \in Nat
ASSUME KernelAssumption == Kernel \subseteq Outcomes

VARIABLES
    open,        \* the connection has not been shut down
    stream,      \* every byte written to it, oldest first
    read,        \* how many of these bytes recv() has returned
    frames,      \* history: frame m starts after frames[m].start bytes and
                 \* announces a payload of frames[m].len bytes
    pc,          \* where each sender is in sendData
    length,      \* its argument len
    frame,       \* the frame it is writing
    written,     \* how many bytes of that frame it has written
    rpc,         \* where the receiver is in receiveData
    messageLength,
    buffer,      \* the payload bytes it has read: buffer[0 .. totalBytesReceived)
    received,    \* history: the payloads receive() has returned
    faults       \* history: which of Faults have happened

senderVars == <<pc, length, frame, written>>
receiverVars == <<rpc, messageLength, buffer, received>>
vars == <<open, stream, read, frames, senderVars, receiverVars, faults>>

(***************************************************************************)
(* The four things that can damage the framing.                            *)
(***************************************************************************)
Faults == {"interleaved",    \* a header written between the bytes of another frame
           "short_send",     \* a send() of a header that wrote a part of it
           "short_read",     \* a recv() of a header that returned a part of it
           "oversize"}       \* a header rejected for its length, its payload left

MinOf(a, b) == IF a < b THEN a ELSE b

Frame == [start : Nat, len : Nat]
Byte == Nat \X Nat

\* k bytes of frame m from offset o on.
Bytes(m, o, k) == [i \in 1..k |-> <<m, o + i - 1>>]

\* What the receiver returns when frame m arrives undamaged.
Payload(m) == Bytes(m, HeaderLen, frames[m].len)

End(m) == IF m = 0 THEN 0 ELSE frames[m].start + HeaderLen + frames[m].len

Unread == Len(stream) - read
Room == SocketBuffer - Unread

Init ==
    /\ open = TRUE
    /\ stream = <<>>
    /\ read = 0
    /\ frames = <<>>
    /\ pc = [s \in Senders |-> "idle"]
    /\ length = [s \in Senders |-> 0]
    /\ frame = [s \in Senders |-> 0]
    /\ written = [s \in Senders |-> 0]
    /\ rpc = "header"
    /\ messageLength = 0
    /\ buffer = <<>>
    /\ received = <<>>
    /\ faults = {}

-----------------------------------------------------------------------------
(* TcpSocket::sendData *)

\* sendData(buf, n): an empty message returns true and writes nothing.
SendCall(s) ==
    /\ pc[s] = "idle"
    /\ \E n \in Lengths :
        /\ n > 0
        /\ pc' = [pc EXCEPT ![s] = "header"]
        /\ length' = [length EXCEPT ![s] = n]
    /\ UNCHANGED <<open, stream, read, frames, frame, written, receiverVars, faults>>

MidFrame(s) == \E t \in Senders \ {s} : pc[t] = "body"

WriteHeader(s, k) ==
    /\ pc[s] = "header"
    /\ open
    /\ k <= Room
    /\ Len(frames) < MaxFrames
    /\ frames' = Append(frames, [start |-> Len(stream), len |-> length[s]])
    /\ stream' = stream \o Bytes(Len(frames) + 1, 0, k)

\* send() of the header wrote all of it.
SendHeader(s) ==
    /\ WriteHeader(s, HeaderLen)
    /\ pc' = [pc EXCEPT ![s] = "body"]
    /\ frame' = [frame EXCEPT ![s] = Len(frames) + 1]
    /\ written' = [written EXCEPT ![s] = HeaderLen]
    /\ faults' = IF MidFrame(s) THEN faults \cup {"interleaved"} ELSE faults
    /\ UNCHANGED <<open, read, length, receiverVars>>

\* bytesSent != sizeof(messageLength): sendData returns false, and the part
\* of the header that was written stays in the stream.
SendHeaderShort(s) ==
    /\ "short_send" \in Kernel
    /\ \E k \in 1..(HeaderLen - 1) : WriteHeader(s, k)
    /\ pc' = [pc EXCEPT ![s] = "idle"]
    /\ faults' = faults \cup {"short_send"}
    /\ UNCHANGED <<open, read, length, frame, written, receiverVars>>

\* Mutant: every turn sends the payload from its beginning.
SendBodyFromStart(s) ==
    /\ pc[s] = "body"
    /\ open
    /\ LET left == HeaderLen + length[s] - written[s]
       IN  \E k \in 1..MinOf(left, Room) :
             /\ stream' = stream \o Bytes(frame[s], HeaderLen, k)
             /\ written' = [written EXCEPT ![s] = @ + k]
             /\ pc' = [pc EXCEPT ![s] = IF k = left THEN "idle" ELSE "body"]
    /\ UNCHANGED <<open, read, frames, length, frame, receiverVars, faults>>

\* Mutant: one send() instead of a loop.
SendBodyOnce(s) ==
    /\ pc[s] = "body"
    /\ open
    /\ \E k \in 1..MinOf(HeaderLen + length[s] - written[s], Room) :
         /\ stream' = stream \o Bytes(frame[s], written[s], k)
         /\ written' = [written EXCEPT ![s] = @ + k]
    /\ pc' = [pc EXCEPT ![s] = "idle"]
    /\ UNCHANGED <<open, read, frames, length, frame, receiverVars, faults>>

\* One turn of the loop over the payload: send() takes any part that fits.
SendBody(s) ==
    /\ pc[s] = "body"
    /\ open
    /\ LET left == HeaderLen + length[s] - written[s]
       IN  \E k \in 1..MinOf(left, Room) :
             /\ stream' = stream \o Bytes(frame[s], written[s], k)
             /\ written' = [written EXCEPT ![s] = @ + k]
             /\ pc' = [pc EXCEPT ![s] = IF k = left THEN "idle" ELSE "body"]
    /\ UNCHANGED <<open, read, frames, length, frame, receiverVars, faults>>

\* send() on a connection that is down: sendData returns false.
SendFails(s) ==
    /\ pc[s] \in {"header", "body"}
    /\ ~open
    /\ pc' = [pc EXCEPT ![s] = "idle"]
    /\ UNCHANGED <<open, stream, read, frames, length, frame, written, receiverVars, faults>>

-----------------------------------------------------------------------------
(* TcpSocket::receiveData, called again and again by ofxOfeliaStream::receive *)

\* The next k bytes are the header of frame m.
IsHeader(m, k) == k = HeaderLen /\ SubSeq(stream, read + 1, read + k) = Bytes(m, 0, k)

\* The values messageLength may take: the length a header holds, or, for
\* other bytes read as a header, anything (0 and BufSize stand for all that
\* are rejected).
HeaderValues(k) ==
    LET own == {m \in 1..Len(frames) : IsHeader(m, k)}
    IN  IF own # {} THEN {frames[m].len : m \in own} ELSE 0..BufSize

\* recv() returns what has arrived, of all the bytes asked for or, on a
\* slow path, of fewer.
HeaderReads ==
    LET most == MinOf(HeaderLen, Unread)
    IN  IF "short_read" \in Kernel THEN 1..most ELSE {most} \ {0}

\* The test on lines 140 to 146, negated.
Accepts(k, n) == k = HeaderLen /\ n > 0 /\ n < BufSize

HeaderFaults(k) ==
    IF k < HeaderLen THEN {"short_read"} ELSE {"oversize"}

\* A header that passes the test: go on to the payload.
ReceiveHeader ==
    /\ rpc = "header"
    /\ \E k \in HeaderReads : \E n \in HeaderValues(k) :
        /\ Accepts(k, n)
        /\ read' = read + k
        /\ messageLength' = n
    /\ rpc' = "body"
    /\ buffer' = <<>>
    /\ UNCHANGED <<open, stream, frames, senderVars, received, faults>>

\* Mutant: a rejected header counts as a whole one.
RejectWholeHeader ==
    /\ rpc = "header"
    /\ \E k \in HeaderReads : \E n \in HeaderValues(k) :
        /\ ~Accepts(k, n)
        /\ read' = read + HeaderLen
        /\ faults' = faults \cup HeaderFaults(k)
    /\ UNCHANGED <<open, stream, frames, senderVars, receiverVars>>

\* A header that does not: receiveData returns 0.  The bytes it took for a
\* header are gone and the payload behind them stays in the stream.
RejectHeader ==
    /\ rpc = "header"
    /\ \E k \in HeaderReads : \E n \in HeaderValues(k) :
        /\ ~Accepts(k, n)
        /\ read' = read + k
        /\ faults' = faults \cup HeaderFaults(k)
    /\ UNCHANGED <<open, stream, frames, senderVars, receiverVars>>

\* Mutant: one recv() instead of a loop.
ReceiveBodyOnce ==
    /\ rpc = "body"
    /\ \E k \in 1..MinOf(messageLength - Len(buffer), Unread) :
        /\ read' = read + k
        /\ received' = Append(received, SubSeq(stream, read + 1, read + k))
    /\ rpc' = "header"
    /\ UNCHANGED <<open, stream, frames, senderVars, messageLength, buffer, faults>>

\* One turn of the loop over the payload, the last one returns the message.
ReceiveBody ==
    /\ rpc = "body"
    /\ \E k \in 1..MinOf(messageLength - Len(buffer), Unread) :
        LET bytes == buffer \o SubSeq(stream, read + 1, read + k)
        IN  /\ read' = read + k
            /\ IF Len(bytes) = messageLength
               THEN /\ rpc' = "header"
                    /\ buffer' = <<>>
                    /\ received' = Append(received, bytes)
               ELSE /\ buffer' = bytes
                    /\ UNCHANGED <<rpc, received>>
    /\ UNCHANGED <<open, stream, frames, senderVars, messageLength, faults>>

\* recv() finds the connection down: a message cut short is dropped.
ReceiveFails ==
    /\ rpc = "body"
    /\ ~open
    /\ Unread = 0
    /\ rpc' = "header"
    /\ buffer' = <<>>
    /\ UNCHANGED <<open, stream, read, frames, senderVars, messageLength, received, faults>>

\* A process ends; what it has written can still be read.
Close ==
    /\ "close" \in Kernel
    /\ open
    /\ open' = FALSE
    /\ UNCHANGED <<stream, read, frames, senderVars, receiverVars, faults>>

-----------------------------------------------------------------------------
Send(s) == SendCall(s) \/ SendHeader(s) \/ SendHeaderShort(s) \/ SendBody(s) \/ SendFails(s)

Receive == ReceiveHeader \/ RejectHeader \/ ReceiveBody \/ ReceiveFails

Next == (\E s \in Senders : Send(s)) \/ Receive \/ Close

Spec == Init /\ [][Next]_vars

\* A thread inside sendData or receiveData goes on; calling sendData is the
\* program's choice.  Both loops run on threads of their own.
Fairness ==
    /\ \A s \in Senders : WF_vars(SendHeader(s)) /\ WF_vars(SendBody(s))
    /\ WF_vars(Receive)

FairSpec == Spec /\ Fairness

-----------------------------------------------------------------------------
(* Properties *)

\* Every variable keeps to its type, and the reader never runs ahead of the
\* writers.
TypeOK ==
    /\ open \in BOOLEAN
    /\ stream \in Seq(Byte)
    /\ read \in 0..Len(stream)
    /\ frames \in Seq(Frame)
    /\ pc \in [Senders -> {"idle", "header", "body"}]
    /\ length \in [Senders -> Nat]
    /\ frame \in [Senders -> Nat]
    /\ written \in [Senders -> Nat]
    /\ rpc \in {"header", "body"}
    /\ messageLength \in Nat
    /\ buffer \in Seq(Byte)
    /\ received \in Seq(Seq(Byte))
    /\ faults \subseteq Faults

\* What receive() returned is what sendData was given: the k-th message out
\* is the k-th message in, whole.
InOrder ==
    /\ Len(received) <= Len(frames)
    /\ \A m \in 1..Len(received) : received[m] = Payload(m)

\* As long as no two sendData calls overlapped, no message was as large as
\* the receiver's buffer and no header was split by the kernel, messages
\* arrive whole and in order, also when a process goes down in the middle of
\* one (TcpSocket::sendData and receiveData).
FramingHolds == faults = {} => InOrder

\* A message whose header is on the wire is received, unless the connection
\* goes down or the framing was damaged.
Delivery ==
    \A m \in 1..MaxFrames :
        Len(frames) >= m ~> (Len(received) >= m \/ ~open \/ faults # {})

\* The order of receive() results, as the abstract channel sees it.
Channel == INSTANCE FifoChannel WITH
    accepted <- Len(frames),
    delivered <- [i \in 1..Len(received) |-> received[i][1][1]]

ChannelSpec == Channel!Spec
=============================================================================
