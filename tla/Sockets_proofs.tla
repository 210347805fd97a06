---------------------------- MODULE Sockets_proofs ---------------------------
(***************************************************************************)
(* Proofs about the sockets.  Startup: get() returns the manager, and not  *)
(* before bind() is through, for any number of getters, of trials, and any *)
(* taken ports.  TcpFraming: for any number of writers, any payload sizes, *)
(* any header and buffer size and any number of messages.                  *)
(***************************************************************************)
EXTENDS Startup, TcpFramingInv, SequenceTheorems, TLAPS

-----------------------------------------------------------------------------
(* Startup *)

\* Both set-ups are at a socket while they are busy with one.
SocketsInv ==
    /\ hostPc \in {"off", "made", "listen", "accept"} => hostAt \in 1..4
    /\ runnerPc \in {"off", "connect"} => runnerAt \in 1..4

\* The latch is open exactly when bind() is through, and nobody gets past it
\* before that.
LatchInv ==
    /\ isLocked <=> hostPc # "up"
    /\ hostPc # "off" => instance = "manager"
    /\ \A g \in Getters :
          /\ gpc[g] \in {"read", "done"} => hostPc = "up"
          /\ gpc[g] = "done" => got[g] = "manager"

StartupInv == StartupTypeOK /\ SocketsInv /\ LatchInv

\* Nothing has been set up.
LEMMA InitStartup == StartupInit => StartupInv
<1> SUFFICES ASSUME StartupInit PROVE StartupInv
  OBVIOUS
<1>1. StartupTypeOK
  <2>1. /\ taken \subseteq Sockets
        /\ hostAt \in 1..(Len(HostOrder) + 1) /\ runnerAt \in 1..(Len(RunnerOrder) + 1)
        /\ trials \in 0..(MaxTrials - 1)
    BY MaxTrialsAssumption DEF StartupInit, HostOrder, RunnerOrder
  <2>2. /\ gpc \in [Getters -> {"idle", "acquire", "asleep", "read", "done"}]
        /\ got \in [Getters -> {"nothing", "null", "manager"}]
    BY DEF StartupInit
  <2>3. isLocked \in BOOLEAN /\ lost \in BOOLEAN
    BY DEF StartupInit
  <2> QED BY <2>1, <2>2, <2>3 DEF StartupInit, StartupTypeOK
<1>2. SocketsInv /\ LatchInv
  BY DEF StartupInit, SocketsInv, LatchInv
<1> QED BY <1>1, <1>2 DEF StartupInv

\* The host's set-up leaves the getters alone until it opens the latch.
LEMMA HostStep == ASSUME StartupInv, Host PROVE StartupInv'
<1> USE DEF StartupInv
<1>1. CASE Initialise \/ Bind
  BY <1>1 DEF Initialise, Bind, runnerVars, StartupTypeOK, SocketsInv, LatchInv
<1>2. CASE Listen \/ Accept
  <2>1. /\ HostSocket \in Sockets
        /\ hostPc \in {"listen", "accept"} /\ hostPc' \in {"listen", "accept", "release"}
        /\ UNCHANGED <<taken, runnerVars, isLocked, gpc, instance, got, lost>>
    BY <1>2 DEF Listen, Accept, NextSocket, HostSocket, HostOrder, Sockets, SocketsInv
  <2>2. /\ hostAt' \in 1..5
        /\ hostPc' \in {"listen", "accept"} => hostAt' \in 1..4
    BY <1>2 DEF Listen, Accept, NextSocket, HostOrder, SocketsInv
  <2>3. listening' \subseteq Sockets /\ accepted' \subseteq Sockets
    BY <1>2, <2>1 DEF Listen, Accept, StartupTypeOK
  <2>4. StartupTypeOK'
    BY <2>1, <2>2, <2>3 DEF StartupTypeOK, runnerVars, HostOrder
  <2>5. SocketsInv' /\ LatchInv'
    BY <2>1, <2>2 DEF SocketsInv, LatchInv, runnerVars
  <2> QED BY <2>4, <2>5
<1>3. CASE Release
  <2>1. /\ hostPc' = "up" /\ isLocked' = FALSE
        /\ UNCHANGED <<taken, hostAt, listening, accepted, runnerVars, instance, got>>
        /\ lost' \in BOOLEAN
    BY <1>3 DEF Release
  <2>2. gpc' \in [Getters -> {"idle", "acquire", "asleep", "read", "done"}]
    BY <1>3 DEF Release, StartupTypeOK
  <2>3. \A g \in Getters : gpc'[g] = "done" => gpc[g] = "done"
    BY <1>3 DEF Release, StartupTypeOK
  <2>4. StartupTypeOK'
    BY <2>1, <2>2 DEF StartupTypeOK, runnerVars
  <2>5. SocketsInv' /\ LatchInv'
    BY <1>3, <2>1, <2>3 DEF Release, SocketsInv, LatchInv, runnerVars
  <2> QED BY <2>4, <2>5
<1> QED BY <1>1, <1>2, <1>3 DEF Host

\* The runner's set-up does not touch the latch.
LEMMA RunnerStep == ASSUME StartupInv, Runner PROVE StartupInv'
<1>1. UNCHANGED <<taken, hostVars, isLocked, gpc, instance, got, lost>>
  BY DEF Runner, Launch, Connect, Refused
<1>2. RunnerSocket \in Sockets \/ runnerPc = "off"
  BY DEF StartupInv, Runner, Launch, Connect, Refused, RunnerSocket, RunnerOrder, Sockets, SocketsInv
<1>3. /\ runnerPc' \in {"connect", "up"}
      /\ runnerAt' \in 1..5 /\ (runnerPc' = "connect" => runnerAt' \in 1..4)
      /\ trials' \in 0..(MaxTrials - 1)
  BY MaxTrialsAssumption
     DEF StartupInv, Runner, Launch, Connect, Refused, NextClient, RunnerOrder, SocketsInv, StartupTypeOK
<1>4. connected' \subseteq Sockets /\ gaveUp' \subseteq Sockets
  BY <1>2 DEF StartupInv, Runner, Launch, Connect, Refused, StartupTypeOK
<1>5. StartupTypeOK'
  BY <1>1, <1>3, <1>4 DEF StartupInv, StartupTypeOK, hostVars, HostOrder, RunnerOrder
<1>6. SocketsInv' /\ LatchInv'
  BY <1>1, <1>3 DEF StartupInv, SocketsInv, LatchInv, hostVars
<1> QED BY <1>5, <1>6 DEF StartupInv

\* A getter passes the open latch and reads the map.
LEMMA GetterStep ==
    ASSUME StartupInv, NEW g \in Getters, Get(g) \/ Acquire(g) \/ WakeUp(g) \/ Read(g)
    PROVE  StartupInv'
<1>1. UNCHANGED <<taken, hostVars, runnerVars, isLocked, instance, lost>>
  BY DEF Get, Acquire, WakeUp, Read
<1>2. /\ gpc' \in [Getters -> {"idle", "acquire", "asleep", "read", "done"}]
      /\ got' \in [Getters -> {"nothing", "null", "manager"}]
  BY DEF StartupInv, StartupTypeOK, Get, Acquire, WakeUp, Read
<1>3. StartupTypeOK'
  BY <1>1, <1>2 DEF StartupInv, StartupTypeOK, hostVars, runnerVars
<1>4. SocketsInv'
  BY <1>1 DEF StartupInv, SocketsInv, hostVars, runnerVars
<1>5. LatchInv'
  BY <1>1 DEF StartupInv, StartupTypeOK, LatchInv, hostVars, Get, Acquire, WakeUp, Read
<1> QED BY <1>3, <1>4, <1>5 DEF StartupInv

\* The invariant holds in every state.
LEMMA StartupInvariant == StartupSpec => []StartupInv
<1>1. StartupInv /\ [StartupNext]_startupVars => StartupInv'
  <2> SUFFICES ASSUME StartupInv, [StartupNext]_startupVars PROVE StartupInv'
    OBVIOUS
  <2>1. CASE UNCHANGED startupVars
    BY <2>1 DEF startupVars, hostVars, runnerVars, StartupInv, StartupTypeOK, SocketsInv, LatchInv
  <2> QED BY <2>1, HostStep, RunnerStep, GetterStep DEF StartupNext
<1> QED BY <1>1, InitStartup, PTL DEF StartupSpec

-----------------------------------------------------------------------------
\* Every variable keeps to its type.
THEOREM StartupTypes == StartupSpec => []StartupTypeOK
<1>1. StartupInv => StartupTypeOK
  BY DEF StartupInv
<1> QED BY <1>1, StartupInvariant, PTL

\* get() never returns before bind() is through with all four sockets, and
\* then it returns the manager (Semaphore, get and bind).
THEOREM NobodyEarly == StartupSpec => []GetAfterBind
<1>1. StartupInv => GetAfterBind
  BY DEF StartupInv, LatchInv, GetAfterBind
<1> QED BY <1>1, StartupInvariant, PTL

-----------------------------------------------------------------------------
(* TcpFraming *)

USE LengthsAssumption, HeaderLenAssumption, BufSizeAssumption,
    SocketBufferAssumption, MaxFramesAssumption

-----------------------------------------------------------------------------
(* Facts about the operators. *)

\* k bytes of a frame are a sequence of k tokens.
LEMMA BytesFacts ==
    ASSUME NEW m \in Nat, NEW o \in Nat, NEW k \in Nat
    PROVE  /\ Bytes(m, o, k) \in Seq(Byte)
           /\ Len(Bytes(m, o, k)) = k
           /\ \A i \in 1..k : Bytes(m, o, k)[i] = <<m, o + i - 1>>
<1>1. \A i \in 1..k : <<m, o + i - 1>> \in Byte
  BY DEF Byte
<1>2. Bytes(m, o, k) \in [1..k -> Byte]
  BY <1>1 DEF Bytes
<1> QED BY <1>2 DEF Bytes

\* What appending bytes to a sequence of tokens gives.
LEMMA ConcatFacts ==
    ASSUME NEW a \in Seq(Byte), NEW b \in Seq(Byte)
    PROVE  /\ a \o b \in Seq(Byte)
           /\ Len(a \o b) = Len(a) + Len(b)
           /\ \A i \in 1..Len(a) : (a \o b)[i] = a[i]
           /\ \A i \in 1..Len(b) : (a \o b)[Len(a) + i] = b[i]
OBVIOUS

\* The sequence c is a followed by k bytes of frame m from offset o on.
Extended(c, a, m, o, k) ==
    /\ c \in Seq(Byte)
    /\ Len(c) = Len(a) + k
    /\ \A i \in 1..Len(a) : c[i] = a[i]
    /\ \A i \in 1..k : c[Len(a) + i] = <<m, o + i - 1>>

\* What writing k bytes of a frame does to the stream.
LEMMA AppendBytes ==
    ASSUME NEW a \in Seq(Byte), NEW m \in Nat, NEW o \in Nat, NEW k \in Nat
    PROVE  Extended(a \o Bytes(m, o, k), a, m, o, k)
<1> DEFINE b == Bytes(m, o, k)
<1>1. b \in Seq(Byte) /\ Len(b) = k
  BY BytesFacts
<1>2. ASSUME NEW i \in 1..k PROVE b[i] = <<m, o + i - 1>>
  BY DEF Bytes
<1> HIDE DEF b
<1>3. a \o b \in Seq(Byte) /\ Len(a \o b) = Len(a) + k
  BY <1>1, ConcatProperties
<1>4. ASSUME NEW i \in 1..Len(a) PROVE (a \o b)[i] = a[i]
  BY <1>1, ConcatProperties
<1>5. ASSUME NEW i \in 1..k PROVE (a \o b)[Len(a) + i] = <<m, o + i - 1>>
  BY <1>1, <1>2, ConcatProperties
<1> QED BY <1>3, <1>4, <1>5 DEF b, Extended

\* An offset inside a frame is a place before the frame's end.
LEMMA InsideFrame ==
    ASSUME NEW a \in Nat, NEW l \in Nat, NEW e \in Nat, a + HeaderLen + l <= e,
           NEW o \in 0..(HeaderLen + l - 1)
    PROVE  a + o \in Nat /\ a + o < e
OBVIOUS

\* A part of the unread bytes is a sequence of tokens.
LEMMA SubSeqFacts ==
    ASSUME NEW a \in Seq(Byte), NEW r \in Nat, NEW k \in Nat, r + k <= Len(a)
    PROVE  /\ SubSeq(a, r + 1, r + k) \in Seq(Byte)
           /\ Len(SubSeq(a, r + 1, r + k)) = k
           /\ \A i \in 1..k : SubSeq(a, r + 1, r + k)[i] = a[r + i]
OBVIOUS

-----------------------------------------------------------------------------
(* Type correctness. *)

\* A header that is accepted or rejected lies in the unread bytes, and
\* messageLength is a number.
LEMMA HeaderTypes ==
    ASSUME TypeOK, NEW k \in HeaderReads, NEW n \in HeaderValues(k)
    PROVE  k \in Nat /\ read + k \in 0..Len(stream) /\ n \in Nat /\ k > 0
<1>1. Unread \in Nat
  BY DEF TypeOK, Unread
<1>2. k \in 1..MinOf(HeaderLen, Unread)
  BY <1>1 DEF HeaderReads, MinOf
<1>3. k \in Nat /\ k > 0 /\ k <= Unread
  BY <1>1, <1>2 DEF MinOf
<1>4. read + k \in 0..Len(stream)
  BY <1>3 DEF TypeOK, Unread
<1>5. n \in Nat
  <2> DEFINE own == {m \in 1..Len(frames) : IsHeader(m, k)}
  <2>1. CASE own = {}
    BY <2>1 DEF HeaderValues
  <2>2. CASE own # {}
    <3>1. PICK m \in own : n = frames[m].len
      BY <2>2 DEF HeaderValues
    <3>2. m \in 1..Len(frames)
      OBVIOUS
    <3>3. frames[m] \in Frame
      BY <3>2 DEF TypeOK
    <3> QED BY <3>1, <3>3 DEF Frame
  <2> QED BY <2>1, <2>2
<1> QED BY <1>3, <1>4, <1>5

\* Writing a header keeps the types of the stream and the frames.
LEMMA WriteHeaderTypes ==
    ASSUME TypeOK, NEW s \in Senders, NEW k \in Nat, WriteHeader(s, k)
    PROVE  /\ stream' \in Seq(Byte)
           /\ Len(stream') = Len(stream) + k
           /\ frames' \in Seq(Frame)
           /\ Len(frames') = Len(frames) + 1
<1>1. Bytes(Len(frames) + 1, 0, k) \in Seq(Byte) /\ Len(Bytes(Len(frames) + 1, 0, k)) = k
  <2>1. Len(frames) + 1 \in Nat
    BY DEF TypeOK
  <2> QED BY <2>1, BytesFacts
<1>2. stream' = stream \o Bytes(Len(frames) + 1, 0, k) /\ stream \in Seq(Byte)
  BY DEF WriteHeader, TypeOK
<1>3. [start |-> Len(stream), len |-> length[s]] \in Frame
  BY DEF TypeOK, Frame
<1>4. frames' = Append(frames, [start |-> Len(stream), len |-> length[s]]) /\ frames \in Seq(Frame)
  BY DEF WriteHeader, TypeOK
<1>5. stream' \in Seq(Byte) /\ Len(stream') = Len(stream) + k
  BY <1>1, <1>2, ConcatFacts
<1>6. frames' \in Seq(Frame) /\ Len(frames') = Len(frames) + 1
  BY <1>3, <1>4
<1> QED BY <1>5, <1>6

\* Type correctness is inductive.
LEMMA TypeStep == TypeOK /\ [Next]_vars => TypeOK'
<1> SUFFICES ASSUME TypeOK, [Next]_vars PROVE TypeOK'
  OBVIOUS
<1>1. ASSUME NEW s \in Senders, SendCall(s) PROVE TypeOK'
  BY <1>1 DEF TypeOK, SendCall, receiverVars
<1>2. ASSUME NEW s \in Senders, SendHeader(s) PROVE TypeOK'
  <2>1. WriteHeader(s, HeaderLen)
    BY <1>2 DEF SendHeader
  <2>2. /\ stream' \in Seq(Byte) /\ Len(stream') = Len(stream) + HeaderLen
        /\ frames' \in Seq(Frame)
    BY <2>1, WriteHeaderTypes
  <2>3. read' \in 0..Len(stream')
    BY <1>2, <2>2 DEF SendHeader, TypeOK
  <2>4. frame' \in [Senders -> Nat] /\ written' \in [Senders -> Nat]
    BY <1>2 DEF SendHeader, TypeOK
  <2>5. faults' \subseteq Faults
    BY <1>2 DEF SendHeader, TypeOK, Faults
  <2> QED BY <1>2, <2>2, <2>3, <2>4, <2>5 DEF TypeOK, SendHeader, receiverVars
<1>3. ASSUME NEW s \in Senders, SendHeaderShort(s) PROVE TypeOK'
  <2>1. PICK k \in 1..(HeaderLen - 1) : WriteHeader(s, k)
    BY <1>3 DEF SendHeaderShort
  <2>2. /\ stream' \in Seq(Byte) /\ Len(stream') = Len(stream) + k
        /\ frames' \in Seq(Frame)
    BY <2>1, WriteHeaderTypes
  <2>3. read' \in 0..Len(stream')
    BY <1>3, <2>2 DEF SendHeaderShort, TypeOK
  <2>4. faults' \subseteq Faults
    BY <1>3 DEF SendHeaderShort, TypeOK, Faults
  <2> QED BY <1>3, <2>2, <2>3, <2>4 DEF TypeOK, SendHeaderShort, receiverVars
<1>4. ASSUME NEW s \in Senders, SendBody(s) PROVE TypeOK'
  <2>1. PICK k \in 1..MinOf(HeaderLen + length[s] - written[s], Room) :
          /\ stream' = stream \o Bytes(frame[s], written[s], k)
          /\ written' = [written EXCEPT ![s] = @ + k]
          /\ pc' = [pc EXCEPT ![s] = IF k = HeaderLen + length[s] - written[s]
                                     THEN "idle" ELSE "body"]
    BY <1>4 DEF SendBody
  <2>2. k \in Nat /\ frame[s] \in Nat /\ written[s] \in Nat /\ stream \in Seq(Byte)
    BY <2>1 DEF TypeOK, MinOf, Room, Unread
  <2>3. stream' \in Seq(Byte) /\ Len(stream') = Len(stream) + k
    <3>1. /\ Bytes(frame[s], written[s], k) \in Seq(Byte)
          /\ Len(Bytes(frame[s], written[s], k)) = k
      BY <2>2, BytesFacts
    <3> QED BY <2>1, <2>2, <3>1, ConcatFacts
  <2>4. read' \in 0..Len(stream')
    BY <1>4, <2>2, <2>3 DEF SendBody, TypeOK
  <2>5. pc' \in [Senders -> {"idle", "header", "body"}]
    BY <2>1 DEF TypeOK
  <2>6. written' \in [Senders -> Nat]
    BY <2>1, <2>2 DEF TypeOK
  <2> QED BY <1>4, <2>3, <2>4, <2>5, <2>6 DEF TypeOK, SendBody, receiverVars
<1>5. ASSUME NEW s \in Senders, SendFails(s) PROVE TypeOK'
  BY <1>5 DEF TypeOK, SendFails, receiverVars
<1>6. CASE ReceiveHeader
  <2>1. PICK k \in HeaderReads : \E n \in HeaderValues(k) :
          Accepts(k, n) /\ read' = read + k /\ messageLength' = n
    BY <1>6 DEF ReceiveHeader
  <2>2. read' \in 0..Len(stream) /\ messageLength' \in Nat
    BY <2>1, HeaderTypes
  <2> QED BY <1>6, <2>2 DEF TypeOK, ReceiveHeader, senderVars
<1>7. CASE RejectHeader
  <2>1. PICK k \in HeaderReads : \E n \in HeaderValues(k) :
          read' = read + k /\ faults' = faults \cup HeaderFaults(k)
    BY <1>7 DEF RejectHeader
  <2>2. read' \in 0..Len(stream)
    BY <2>1, HeaderTypes
  <2>3. faults' \subseteq Faults
    BY <2>1 DEF TypeOK, Faults, HeaderFaults
  <2> QED BY <1>7, <2>2, <2>3 DEF TypeOK, RejectHeader, senderVars, receiverVars
<1>8. CASE ReceiveBody
  <2>1. PICK k \in 1..MinOf(messageLength - Len(buffer), Unread) :
          LET bytes == buffer \o SubSeq(stream, read + 1, read + k)
          IN  /\ read' = read + k
              /\ IF Len(bytes) = messageLength
                 THEN /\ rpc' = "header"
                      /\ buffer' = <<>>
                      /\ received' = Append(received, bytes)
                 ELSE /\ buffer' = bytes
                      /\ UNCHANGED <<rpc, received>>
    BY <1>8 DEF ReceiveBody
  <2> DEFINE bytes == buffer \o SubSeq(stream, read + 1, read + k)
  <2>2. k \in Nat /\ read + k <= Len(stream) /\ read \in Nat /\ stream \in Seq(Byte)
    BY <2>1 DEF TypeOK, MinOf, Unread
  <2>3. bytes \in Seq(Byte)
    BY <2>2, SubSeqFacts, ConcatFacts DEF TypeOK
  <2>4. read' \in 0..Len(stream)
    BY <2>1, <2>2
  <2>5. rpc' \in {"header", "body"} /\ buffer' \in Seq(Byte) /\ received' \in Seq(Seq(Byte))
    <3>1. IF Len(bytes) = messageLength
          THEN rpc' = "header" /\ buffer' = <<>> /\ received' = Append(received, bytes)
          ELSE buffer' = bytes /\ UNCHANGED <<rpc, received>>
      BY <2>1
    <3> HIDE DEF bytes
    <3>2. CASE Len(bytes) = messageLength
      <4>1. rpc' = "header" /\ buffer' = <<>> /\ received' = Append(received, bytes)
        BY <3>1, <3>2
      <4>2. received \in Seq(Seq(Byte))
        BY DEF TypeOK
      <4>3. Append(received, bytes) \in Seq(Seq(Byte))
        BY <2>3, <4>2, AppendProperties
      <4> QED BY <4>1, <4>3
    <3>3. CASE Len(bytes) # messageLength
      BY <2>3, <3>1, <3>3 DEF TypeOK
    <3> QED BY <3>2, <3>3
  <2> QED BY <1>8, <2>4, <2>5 DEF TypeOK, ReceiveBody, senderVars
<1>9. CASE ReceiveFails
  BY <1>9 DEF TypeOK, ReceiveFails, senderVars
<1>10. CASE Close
  BY <1>10 DEF TypeOK, Close, senderVars, receiverVars
<1>11. CASE UNCHANGED vars
  BY <1>11 DEF TypeOK, vars, senderVars, receiverVars
<1> QED BY <1>1, <1>2, <1>3, <1>4, <1>5, <1>6, <1>7, <1>8, <1>9, <1>10, <1>11
        DEF Next, Send, Receive

\* Type correctness: every variable of a connection keeps to its type and
\* the reader never gets ahead of what was written.
THEOREM TypeCorrect == Spec => []TypeOK
<1>1. Init => TypeOK
  BY DEF Init, TypeOK
<1> QED BY <1>1, TypeStep, PTL DEF Spec

-----------------------------------------------------------------------------
(* The framing invariant. *)

\* The ends of frames are numbers.
LEMMA EndFacts ==
    ASSUME TypeOK
    PROVE  /\ N \in Nat
           /\ \A m \in 1..N : /\ frames[m].start \in Nat /\ frames[m].len \in Nat
                              /\ End(m) = frames[m].start + HeaderLen + frames[m].len
           /\ \A m \in 0..N : End(m) \in Nat
           /\ End(0) = 0
<1>1. N \in Nat
  BY DEF TypeOK, N
<1>2. ASSUME NEW m \in 1..N
      PROVE  /\ frames[m].start \in Nat /\ frames[m].len \in Nat
             /\ End(m) = frames[m].start + HeaderLen + frames[m].len
             /\ End(m) \in Nat
  <2>1. frames[m] \in Frame
    BY DEF TypeOK, N
  <2>2. frames[m].start \in Nat /\ frames[m].len \in Nat
    BY <2>1 DEF Frame
  <2>3. End(m) = frames[m].start + HeaderLen + frames[m].len
    BY <1>1 DEF End
  <2> QED BY <2>2, <2>3
<1>3. End(0) = 0
  BY DEF End
<1> QED BY <1>1, <1>2, <1>3

\* Where frames do not change, nor do their ends and payloads.
LEMMA SameFrames ==
    ASSUME UNCHANGED frames
    PROVE  N' = N /\ \A m : End(m)' = End(m) /\ Payload(m)' = Payload(m)
BY DEF N, End, Payload

\* A whole header, written while no other thread is inside a frame.
LEMMA SendHeaderStep ==
    ASSUME TypeOK, IntactInv, NEW s \in Senders, SendHeader(s), ~MidFrame(s)
    PROVE  IntactInv'
<1> PICK n \in Nat : n = N + 1
  BY EndFacts
<1>1. WriteHeader(s, HeaderLen) /\ open /\ pc[s] = "header" /\ length[s] \in Nat
  BY DEF SendHeader, WriteHeader, TypeOK
<1>2. \A t \in Senders : pc[t] # "body"
  BY <1>1 DEF MidFrame
<1>3. Len(stream) = End(N) /\ length[s] > 0
  BY <1>1, <1>2 DEF IntactInv, WritersInv
<1>4. /\ N' = n
      /\ frames'[n] = [start |-> Len(stream), len |-> length[s]]
      /\ \A m \in 1..N : frames'[m] = frames[m]
  BY <1>1 DEF WriteHeader, TypeOK, N
<1>5. /\ End(n)' = Len(stream) + HeaderLen + length[s]
      /\ \A m \in 0..N : End(m)' = End(m)
      /\ \A m \in 1..N : Payload(m)' = Payload(m)
  <2>1. n \in Nat /\ n # 0 /\ Len(stream) \in Nat
    BY EndFacts DEF TypeOK
  <2>2. End(n)' = Len(stream) + HeaderLen + length[s]
    BY <1>4, <2>1 DEF End
  <2>3. ASSUME NEW m \in 0..N PROVE End(m)' = End(m)
    BY <1>4, EndFacts DEF End
  <2>4. ASSUME NEW m \in 1..N PROVE Payload(m)' = Payload(m)
    BY <1>4 DEF Payload
  <2> QED BY <2>2, <2>3, <2>4
<1>6. FramesInv'
  <2>1. ASSUME NEW m \in 1..n
        PROVE  frames'[m].start = End(m - 1)' /\ frames'[m].len > 0
    <3>1. CASE m = n
      <4>1. End(m - 1)' = Len(stream)
        BY <1>3, <1>5, <3>1, EndFacts
      <4> QED BY <1>3, <1>4, <3>1, <4>1
    <3>2. CASE m # n
      <4>1. m \in 1..N /\ m - 1 \in 0..N
        BY <3>2, EndFacts
      <4> QED BY <1>4, <1>5, <4>1 DEF IntactInv, FramesInv
    <3> QED BY <3>1, <3>2
  <2>2. ASSUME NEW i \in 0..n, NEW j \in 0..n, i <= j PROVE End(i)' <= End(j)'
    <3>1. CASE j # n
      <4>1. i \in 0..N /\ j \in 0..N
        BY <2>2, <3>1, EndFacts
      <4> QED BY <1>5, <2>2, <4>1 DEF IntactInv, FramesInv
    <3>2. CASE j = n /\ i = n
      BY <1>1, <1>5, <3>2 DEF TypeOK
    <3>3. CASE j = n /\ i # n
      <4>1. i \in 0..N /\ N \in 0..N /\ i <= N
        BY <3>3, EndFacts
      <4>2. End(i) <= End(N) /\ End(i) \in Nat /\ End(N) \in Nat
        BY <4>1, EndFacts DEF IntactInv, FramesInv
      <4> QED BY <1>1, <1>3, <1>5, <3>3, <4>1, <4>2
    <3> QED BY <3>1, <3>2, <3>3
  <2> QED BY <1>4, <2>1, <2>2 DEF FramesInv
<1>7. /\ Len(stream') = Len(stream) + HeaderLen
      /\ \A i \in 1..Len(stream) : stream'[i] = stream[i]
      /\ \A i \in 1..HeaderLen : stream'[Len(stream) + i] = <<n, 0 + i - 1>>
  <2>1. stream' = stream \o Bytes(n, 0, HeaderLen) /\ stream \in Seq(Byte)
    BY <1>1 DEF WriteHeader, TypeOK, N
  <2>2. n \in Nat
    BY EndFacts
  <2>3. Extended(stream', stream, n, 0, HeaderLen)
    BY <2>1, <2>2, AppendBytes
  <2> QED BY <2>3 DEF Extended
<1>8. WritersInv'
  <2>1. Len(stream') <= End(n)'
    BY <1>1, <1>5, <1>7, EndFacts DEF TypeOK
  <2>2. frames'[n].start + HeaderLen <= Len(stream')
    BY <1>4, <1>7 DEF TypeOK
  <2>3. pc' = [pc EXCEPT ![s] = "body"] /\ UNCHANGED length
        /\ frame' = [frame EXCEPT ![s] = n] /\ written' = [written EXCEPT ![s] = HeaderLen]
    BY DEF SendHeader, N
  <2>4. \A t \in Senders : pc'[t] = "body" <=> t = s
    BY <1>2, <2>3 DEF TypeOK
  <2>5. \A t \in Senders : pc'[t] = "header" => length'[t] > 0
    BY <2>3 DEF TypeOK, IntactInv, WritersInv
  <2>6. /\ frame'[s] = n
        /\ n > 0
        /\ length'[s] = frames'[n].len
        /\ written'[s] = HeaderLen
        /\ Len(stream') = frames'[n].start + written'[s]
    BY <1>4, <1>7, <2>3, EndFacts DEF TypeOK
  <2>7. HeaderLen < HeaderLen + length'[s]
    BY <1>1, <1>3, <2>3
  <2>8. \A t, u \in Senders : pc'[t] = "body" /\ pc'[u] = "body" => t = u
    BY <2>4
  <2>9. ~ \A t \in Senders : pc'[t] # "body"
    BY <2>4
  <2>10. ASSUME NEW t \in Senders, pc'[t] = "body"
         PROVE  /\ frame'[t] = n
                /\ n > 0
                /\ length'[t] = frames'[n].len
                /\ written'[t] >= HeaderLen
                /\ written'[t] < HeaderLen + length'[t]
                /\ Len(stream') = frames'[n].start + written'[t]
    BY <2>4, <2>6, <2>7, <2>10
  <2> QED BY <1>4, <2>1, <2>2, <2>5, <2>8, <2>9, <2>10 DEF WritersInv
<1>9. StreamInv'
  <2> SUFFICES ASSUME NEW m \in 1..n,
                      NEW o \in 0..(HeaderLen + frames'[m].len - 1),
                      frames'[m].start + o < Len(stream')
               PROVE  stream'[frames'[m].start + o + 1] = <<m, o>>
    BY <1>4 DEF StreamInv
  <2>1. CASE m = n
    <3>1. frames'[m].start = Len(stream) /\ Len(stream) \in Nat
      BY <1>4, <2>1 DEF TypeOK
    <3>2. o + 1 \in 1..HeaderLen
      BY <1>7, <3>1
    <3>3. stream'[Len(stream) + (o + 1)] = <<n, 0 + (o + 1) - 1>>
      BY <1>7, <3>2
    <3>4. 0 + (o + 1) - 1 = o /\ Len(stream) + (o + 1) = frames'[m].start + o + 1
      BY <3>1, <3>2
    <3> QED BY <2>1, <3>3, <3>4
  <2>2. CASE m # n
    <3>1. m \in 1..N /\ frames'[m] = frames[m]
      BY <1>4, <2>2, EndFacts
    <3>2. End(m) <= End(N)
      BY <3>1, EndFacts DEF IntactInv, FramesInv
    <3>3. frames[m].start + o < Len(stream) /\ frames[m].start + o \in Nat
      <4>1. /\ frames[m].start \in Nat /\ frames[m].len \in Nat
            /\ End(m) = frames[m].start + HeaderLen + frames[m].len
            /\ End(N) \in Nat
        BY <3>1, EndFacts
      <4>2. o \in 0..(HeaderLen + frames[m].len - 1)
        BY <3>1
      <4> QED BY <1>3, <3>2, <4>1, <4>2, InsideFrame
    <3>4. stream[frames[m].start + o + 1] = <<m, o>>
      BY <3>1, <3>3 DEF IntactInv, StreamInv
    <3> QED BY <1>7, <3>1, <3>3, <3>4
  <2> QED BY <2>1, <2>2
<1>10. UNCHANGED <<rpc, read, messageLength, buffer, received, open>>
  BY DEF SendHeader, receiverVars
<1>11. Len(received) \in 0..N
  BY EndFacts DEF TypeOK, IntactInv, InOrder, N
<1>12. ReaderInv'
  <2>1. CASE rpc = "header"
    BY <1>1, <1>5, <1>10, <1>11, <2>1 DEF IntactInv, ReaderInv
  <2>2. CASE rpc = "body"
    <3>1. Len(received) + 1 \in 1..N
      BY <1>11, <2>2, EndFacts DEF IntactInv, ReaderInv
    <3>2. frames'[Len(received) + 1] = frames[Len(received) + 1] /\ Len(received) + 1 <= N'
      BY <1>4, <3>1, EndFacts
    <3> QED BY <1>10, <2>2, <3>2 DEF IntactInv, ReaderInv
  <2> QED BY <2>1, <2>2 DEF TypeOK
<1>13. InOrder'
  BY <1>4, <1>5, <1>10, <1>11, EndFacts DEF IntactInv, InOrder, N
<1> QED BY <1>6, <1>8, <1>9, <1>12, <1>13 DEF IntactInv

\* A part of a payload.
LEMMA SendBodyStep ==
    ASSUME TypeOK, IntactInv, NEW s \in Senders, SendBody(s)
    PROVE  IntactInv'
<1>1. PICK k \in 1..MinOf(HeaderLen + length[s] - written[s], Room) :
        /\ stream' = stream \o Bytes(frame[s], written[s], k)
        /\ written' = [written EXCEPT ![s] = @ + k]
        /\ pc' = [pc EXCEPT ![s] = IF k = HeaderLen + length[s] - written[s]
                                   THEN "idle" ELSE "body"]
  BY DEF SendBody
<1>2. /\ pc[s] = "body" /\ open
      /\ UNCHANGED <<open, read, frames, length, frame, rpc, messageLength, buffer, received>>
  BY DEF SendBody, receiverVars
<1>3. /\ frame[s] = N /\ N > 0 /\ length[s] = frames[N].len
      /\ written[s] >= HeaderLen /\ written[s] < HeaderLen + length[s]
      /\ Len(stream) = frames[N].start + written[s]
  BY <1>2 DEF IntactInv, WritersInv
<1>4. N \in 1..N /\ N \in Nat
  BY <1>3, EndFacts
\* Names for the numbers: the frame's start, its payload's length, what is
\* written of it and the stream's length.
<1>5. PICK a \in Nat, l \in Nat, w \in Nat, c \in Nat, h \in Nat :
        /\ a = frames[N].start /\ l = frames[N].len /\ w = written[s]
        /\ c = Len(stream) /\ h = HeaderLen
  <2>1. frames[N].start \in Nat /\ frames[N].len \in Nat
    BY <1>4, EndFacts
  <2>2. written[s] \in Nat /\ Len(stream) \in Nat /\ HeaderLen \in Nat
    BY DEF TypeOK
  <2> QED BY <2>1, <2>2
<1>6. /\ c = a + w /\ h <= w /\ w < h + l /\ h > 0 /\ End(N) = a + h + l
      /\ length[s] = l
  BY <1>3, <1>4, <1>5, EndFacts
<1>7. k \in Nat /\ k > 0 /\ k <= h + l - w
  <2>1. Room \in Int
    BY DEF Room, Unread, TypeOK
  <2> QED BY <1>5, <1>6, <2>1 DEF MinOf
<1>8. N' = N /\ (\A m : End(m)' = End(m) /\ Payload(m)' = Payload(m))
  BY <1>2, SameFrames
<1>9. FramesInv'
  BY <1>2, <1>8 DEF IntactInv, FramesInv
<1>10. /\ Len(stream') = c + k
       /\ \A i \in 1..c : stream'[i] = stream[i]
       /\ \A i \in 1..k : stream'[c + i] = <<N, w + i - 1>>
  <2>1. stream' = stream \o Bytes(N, w, k) /\ stream \in Seq(Byte)
    BY <1>1, <1>3, <1>5 DEF TypeOK
  <2>2. Extended(stream', stream, N, w, k)
    BY <1>4, <1>7, <2>1, AppendBytes
  <2> QED BY <1>5, <2>2 DEF Extended
<1>11. WritersInv'
  <2>1. Len(stream') <= End(N) /\ frames[N].start + HeaderLen <= Len(stream')
    <3>1. c + k <= a + h + l /\ a + h <= c + k
      BY <1>6, <1>7
    <3> QED BY <1>5, <1>6, <1>10, <3>1
  <2>2. \A t \in Senders : pc[t] = "body" => t = s
    BY <1>2 DEF IntactInv, WritersInv
  <2>3. \A t \in Senders : pc'[t] = "body" => t = s
    BY <1>1, <2>2 DEF TypeOK
  <2>4. \A t \in Senders : pc'[t] = "header" => length[t] > 0
    BY <1>1 DEF IntactInv, WritersInv, TypeOK
  <2>5. written'[s] = w + k
    BY <1>1, <1>5 DEF TypeOK
  <2>6. CASE k = h + l - w
    <3>1. pc'[s] = "idle"
      BY <1>1, <1>5, <1>6, <2>6 DEF TypeOK
    <3>2. \A t \in Senders : pc'[t] # "body"
      BY <2>3, <3>1
    <3>3. Len(stream') = End(N)
      BY <1>6, <1>10, <2>6
    <3> QED BY <1>2, <1>8, <2>1, <2>3, <2>4, <3>2, <3>3 DEF WritersInv
  <2>7. CASE k # h + l - w
    <3>1. pc'[s] = "body"
      BY <1>1, <1>5, <1>6, <2>7 DEF TypeOK
    <3>2. w + k >= h /\ w + k < h + l /\ c + k = a + (w + k)
      BY <1>6, <1>7, <2>7
    <3>3. /\ written'[s] >= HeaderLen /\ written'[s] < HeaderLen + length[s]
          /\ Len(stream') = frames[N].start + written'[s]
      BY <1>5, <1>6, <1>10, <2>5, <3>2
    <3>4. ASSUME NEW t \in Senders, pc'[t] = "body"
          PROVE  /\ frame[t] = N /\ N > 0 /\ length[t] = frames[N].len
                 /\ written'[t] >= HeaderLen /\ written'[t] < HeaderLen + length[t]
                 /\ Len(stream') = frames[N].start + written'[t]
      BY <1>3, <2>3, <3>3, <3>4
    <3> QED BY <1>2, <1>8, <2>1, <2>3, <2>4, <3>1, <3>4 DEF WritersInv
  <2> QED BY <2>6, <2>7
<1>12. StreamInv'
  <2> SUFFICES ASSUME NEW m \in 1..N,
                      NEW o \in 0..(HeaderLen + frames[m].len - 1),
                      frames[m].start + o < Len(stream')
               PROVE  stream'[frames[m].start + o + 1] = <<m, o>>
    BY <1>2, <1>8 DEF StreamInv
  <2>1. PICK b \in Nat, n \in Nat : b = frames[m].start /\ n = frames[m].len
    BY EndFacts
  <2>2. End(m) = b + h + n /\ o \in 0..(h + n - 1) /\ o \in Nat
    BY <1>5, <2>1, EndFacts
  <2>3. CASE b + o < c
    <3>1. stream[b + o + 1] = <<m, o>>
      BY <1>5, <2>1, <2>3 DEF IntactInv, StreamInv
    <3>2. b + o + 1 \in 1..c
      BY <2>2, <2>3
    <3> QED BY <1>10, <2>1, <3>1, <3>2
  <2>4. CASE ~(b + o < c)
    <3>1. m = N
      <4> SUFFICES ASSUME m # N PROVE FALSE
        OBVIOUS
      <4>1. m \in 0..N /\ N - 1 \in 0..N /\ m <= N - 1
        BY <1>4
      <4>2. End(m) <= End(N - 1) /\ a = End(N - 1)
        BY <1>4, <1>5, <4>1 DEF IntactInv, FramesInv
      <4>3. b + h + n <= a
        BY <2>2, <4>2
      <4> QED BY <1>6, <2>2, <2>4, <4>3
    <3>2. b = a /\ n = l
      BY <1>5, <2>1, <3>1
    <3>3. PICK i \in 1..k : i = o - w + 1
      <4>1. b + o < c + k
        BY <1>5, <1>10, <2>1
      <4> QED BY <1>6, <1>7, <2>2, <2>4, <3>2, <4>1
    <3>4. stream'[c + i] = <<N, w + i - 1>>
      BY <1>10
    <3>5. w + i - 1 = o /\ c + i = b + o + 1
      BY <1>6, <2>2, <3>2, <3>3
    <3> QED BY <2>1, <3>1, <3>4, <3>5
  <2> QED BY <2>3, <2>4
<1>13. ReaderInv'
  BY <1>2, <1>8 DEF IntactInv, ReaderInv
<1>14. InOrder'
  BY <1>2, <1>8 DEF IntactInv, InOrder
<1> QED BY <1>9, <1>11, <1>12, <1>13, <1>14 DEF IntactInv

\* Calling sendData, giving up in it, and the connection going down.
LEMMA OtherSendSteps ==
    ASSUME TypeOK, IntactInv,
           Close \/ \E s \in Senders : SendCall(s) \/ SendFails(s)
    PROVE  IntactInv'
<1>1. UNCHANGED <<stream, read, frames, receiverVars>>
  BY DEF Close, SendCall, SendFails
<1>2. N' = N /\ (\A m : End(m)' = End(m) /\ Payload(m)' = Payload(m))
  BY <1>1, SameFrames
<1>3. FramesInv' /\ StreamInv' /\ InOrder'
  BY <1>1, <1>2 DEF IntactInv, FramesInv, StreamInv, InOrder, receiverVars
<1>4. open' => open
  BY DEF Close, SendCall, SendFails
<1>5. ReaderInv'
  BY <1>1, <1>2, <1>4 DEF IntactInv, ReaderInv, receiverVars
<1>6. WritersInv'
  <2>1. CASE Close
    BY <1>1, <1>2, <2>1 DEF IntactInv, WritersInv, Close, senderVars
  <2>2. ASSUME NEW s \in Senders, SendCall(s) PROVE WritersInv'
    <3>1. PICK n \in Lengths : /\ n > 0
                               /\ pc' = [pc EXCEPT ![s] = "header"]
                               /\ length' = [length EXCEPT ![s] = n]
      BY <2>2 DEF SendCall
    <3>2. pc[s] = "idle" /\ UNCHANGED <<open, frame, written>>
      BY <2>2 DEF SendCall
    <3>3. ASSUME NEW t \in Senders
          PROVE  /\ pc'[t] = "body" <=> pc[t] = "body"
                 /\ pc'[t] = "body" => length'[t] = length[t]
      BY <3>1, <3>2 DEF TypeOK
    <3>4. \A t \in Senders : pc'[t] = "header" => length'[t] > 0
      BY <3>1 DEF IntactInv, WritersInv, TypeOK
    <3> QED BY <1>1, <1>2, <3>2, <3>3, <3>4 DEF IntactInv, WritersInv
  <2>3. ASSUME NEW s \in Senders, SendFails(s) PROVE WritersInv'
    <3>1. ~open' /\ pc' = [pc EXCEPT ![s] = "idle"] /\ UNCHANGED <<length, frame, written>>
      BY <2>3 DEF SendFails
    <3>2. \A t \in Senders : /\ pc'[t] = "body" => pc[t] = "body"
                             /\ pc'[t] = "header" => pc[t] = "header"
      BY <3>1 DEF TypeOK
    <3> QED BY <1>1, <1>2, <3>1, <3>2 DEF IntactInv, WritersInv
  <2> QED BY <2>1, <2>2, <2>3
<1> QED BY <1>3, <1>5, <1>6 DEF IntactInv

\* Token by token, b is l bytes of frame m from offset o on.
Consecutive(b, m, o, l) ==
    b \in Seq(Byte) /\ Len(b) = l /\ \A i \in 1..l : b[i] = <<m, o + i - 1>>

\* A sequence of a frame's bytes, in their order, is that part of the frame.
LEMMA ConsecutiveBytes ==
    ASSUME NEW m, NEW o, NEW l, NEW b, Consecutive(b, m, o, l)
    PROVE  b = Bytes(m, o, l)
<1>1. b = [i \in 1..l |-> b[i]]
  BY DEF Consecutive
<1> QED BY <1>1 DEF Bytes, Consecutive

\* Where a reader that stands at the end of the messages received finds
\* more bytes, these begin the next frame.
LEMMA NextHeader ==
    ASSUME TypeOK, IntactInv, rpc = "header",
           NEW k \in HeaderReads, k = HeaderLen
    PROVE  LET m == Len(received) + 1
           IN  /\ m \in 1..N
               /\ frames[m].start = read
               /\ HeaderValues(k) = {frames[m].len}
<1> PICK m \in Nat : m = Len(received) + 1
  BY DEF TypeOK
<1>1. k \in Nat /\ k > 0 /\ k <= Len(stream) - read /\ read \in Nat /\ Len(stream) \in Nat
  <2>1. Unread \in Nat
    BY DEF TypeOK, Unread
  <2>2. k \in 1..MinOf(HeaderLen, Unread)
    BY <2>1 DEF HeaderReads, MinOf
  <2> QED BY <2>1, <2>2 DEF MinOf, Unread, TypeOK
<1>2. read = End(m - 1)
  <2>1. read # Len(stream) /\ m - 1 = Len(received)
    BY <1>1
  <2> QED BY <2>1 DEF IntactInv, ReaderInv
<1>3. m \in 1..N
  <2>1. m - 1 \in 0..N
    BY EndFacts DEF IntactInv, InOrder, N, TypeOK
  <2>2. m - 1 # N
    <3> SUFFICES ASSUME m - 1 = N PROVE FALSE
      OBVIOUS
    <3>1. Len(stream) <= read
      BY <1>2 DEF IntactInv, WritersInv
    <3> QED BY <1>1, <3>1
  <2> QED BY <2>1, <2>2, EndFacts
<1>4. PICK a \in Nat, l \in Nat : /\ a = frames[m].start /\ l = frames[m].len
                                 /\ a = read /\ l > 0
  <2>1. frames[m].start = read /\ frames[m].len > 0
    BY <1>2, <1>3 DEF IntactInv, FramesInv
  <2> QED BY <1>3, <2>1, EndFacts
<1>5. ASSUME NEW i \in 1..k PROVE stream[a + i] = <<m, 0 + i - 1>>
  <2>1. i - 1 \in 0..(HeaderLen + l - 1) /\ a + (i - 1) < Len(stream)
    BY <1>1, <1>4
  <2>2. stream[a + (i - 1) + 1] = <<m, i - 1>>
    BY <1>3, <1>4, <2>1 DEF IntactInv, StreamInv
  <2>3. a + (i - 1) + 1 = a + i /\ 0 + i - 1 = i - 1
    OBVIOUS
  <2> QED BY <2>2, <2>3
<1>6. SubSeq(stream, read + 1, read + k) = Bytes(m, 0, k)
  <2> DEFINE b == SubSeq(stream, a + 1, a + k)
  <2>1. a + k <= Len(stream) /\ stream \in Seq(Byte)
    BY <1>1, <1>4 DEF TypeOK
  <2>2. b \in Seq(Byte) /\ Len(b) = k /\ \A i \in 1..k : b[i] = stream[a + i]
    BY <1>1, <2>1, SubSeqFacts
  <2> HIDE DEF b
  <2>3. \A i \in 1..k : b[i] = <<m, 0 + i - 1>>
    BY <1>5, <2>2
  <2> PICK z \in Nat : z = 0
    OBVIOUS
  <2>4. b = Bytes(m, z, k)
    <3>1. \A i \in 1..k : b[i] = <<m, z + i - 1>>
      BY <2>3
    <3>2. Consecutive(b, m, z, k)
      BY <1>1, <2>2, <3>1 DEF Consecutive
    <3> QED BY <3>2, ConsecutiveBytes
  <2> QED BY <1>4, <2>4 DEF b
<1>7. ASSUME NEW x \in 1..N, IsHeader(x, k) PROVE x = m
  <2>1. Bytes(x, 0, k)[1] = <<x, 0 + 1 - 1>> /\ Bytes(m, 0, k)[1] = <<m, 0 + 1 - 1>>
    BY <1>1 DEF Bytes
  <2>2. Bytes(x, 0, k) = Bytes(m, 0, k)
    BY <1>6, <1>7 DEF IsHeader
  <2> QED BY <2>1, <2>2
<1>8. {x \in 1..Len(frames) : IsHeader(x, k)} = {m}
  BY <1>3, <1>6, <1>7 DEF IsHeader, N
<1>9. HeaderValues(k) = {frames[m].len}
  BY <1>8 DEF HeaderValues
<1> QED BY <1>3, <1>4, <1>9

\* An accepted header is that of the next message.
LEMMA ReceiveHeaderStep ==
    ASSUME TypeOK, IntactInv, ReceiveHeader
    PROVE  IntactInv'
<1>1. PICK k \in HeaderReads : \E n \in HeaderValues(k) :
        Accepts(k, n) /\ read' = read + k /\ messageLength' = n
  BY DEF ReceiveHeader
<1>2. /\ rpc = "header" /\ rpc' = "body" /\ buffer' = <<>>
      /\ UNCHANGED <<open, stream, frames, senderVars, received>>
  BY DEF ReceiveHeader
<1>3. N' = N /\ (\A m : End(m)' = End(m) /\ Payload(m)' = Payload(m))
  BY <1>2, SameFrames
<1>4. FramesInv' /\ WritersInv' /\ StreamInv' /\ InOrder'
  BY <1>2, <1>3 DEF IntactInv, FramesInv, WritersInv, StreamInv, InOrder, senderVars
<1>5. ReaderInv'
  <2>1. k = HeaderLen
    BY <1>1 DEF Accepts
  <2> PICK m \in Nat : m = Len(received) + 1
    BY DEF TypeOK
  <2>2. m \in 1..N /\ frames[m].start = read /\ HeaderValues(k) = {frames[m].len}
    BY <1>2, <2>1, NextHeader
  <2>3. messageLength' = frames[m].len /\ messageLength' > 0
    BY <1>1, <2>2 DEF Accepts
  <2>4. read' = frames[m].start + HeaderLen + 0
    BY <1>1, <2>1, <2>2 DEF TypeOK
  <2>5. Len(buffer') = 0
    BY <1>2
  <2>6. rpc' # "header" /\ m <= N' /\ Len(received') + 1 = m
    BY <1>2, <1>3, <2>2, EndFacts
  <2>7. frames'[m] = frames[m]
    BY <1>2
  <2> QED BY <1>3, <2>3, <2>4, <2>5, <2>6, <2>7 DEF ReaderInv
<1> QED BY <1>4, <1>5 DEF IntactInv

\* A part of a payload arrives, or the rest of it.
LEMMA ReceiveBodyStep ==
    ASSUME TypeOK, IntactInv, ReceiveBody
    PROVE  IntactInv'
<1>1. PICK k \in 1..MinOf(messageLength - Len(buffer), Unread) :
        LET all == buffer \o SubSeq(stream, read + 1, read + k)
        IN  /\ read' = read + k
            /\ IF Len(all) = messageLength
               THEN /\ rpc' = "header"
                    /\ buffer' = <<>>
                    /\ received' = Append(received, all)
               ELSE /\ buffer' = all
                    /\ UNCHANGED <<rpc, received>>
  BY DEF ReceiveBody
<1>2. /\ rpc = "body"
      /\ UNCHANGED <<open, stream, frames, senderVars, messageLength>>
  BY DEF ReceiveBody
<1>3. N' = N /\ (\A m : End(m)' = End(m) /\ Payload(m)' = Payload(m))
  BY <1>2, SameFrames
<1>4. FramesInv' /\ WritersInv' /\ StreamInv'
  BY <1>2, <1>3 DEF IntactInv, FramesInv, WritersInv, StreamInv, senderVars
<1> PICK m \in Nat : m = Len(received) + 1
  BY DEF TypeOK
<1>5. /\ m <= N /\ messageLength = frames[m].len /\ Len(buffer) < messageLength
      /\ read = frames[m].start + HeaderLen + Len(buffer)
      /\ \A i \in 1..Len(buffer) : buffer[i] = <<m, HeaderLen + i - 1>>
  BY <1>2 DEF IntactInv, ReaderInv
<1>6. m \in 1..N
  BY <1>5, EndFacts DEF TypeOK
<1>7. PICK a \in Nat, l \in Nat, c \in Nat, h \in Nat, r \in Nat :
        /\ a = frames[m].start /\ l = frames[m].len /\ c = Len(buffer)
        /\ h = HeaderLen /\ r = read
  <2>1. frames[m].start \in Nat /\ frames[m].len \in Nat
    BY <1>6, EndFacts
  <2>2. Len(buffer) \in Nat /\ read \in Nat /\ HeaderLen \in Nat
    BY DEF TypeOK
  <2> QED BY <2>1, <2>2
<1>8. messageLength = l /\ c < l /\ r = a + h + c
  BY <1>5, <1>7
<1>9. k \in Nat /\ k > 0 /\ k <= l - c /\ r + k <= Len(stream) /\ Len(stream) \in Nat
  <2>1. messageLength - Len(buffer) = l - c /\ l - c \in Nat
    BY <1>7, <1>8
  <2>2. Unread \in Nat /\ Unread = Len(stream) - r /\ Len(stream) \in Nat
    BY <1>7 DEF Unread, TypeOK
  <2>3. k \in 1..MinOf(l - c, Unread)
    BY <2>1
  <2> QED BY <2>1, <2>2, <2>3 DEF MinOf
<1> PICK all : all = buffer \o SubSeq(stream, r + 1, r + k)
  OBVIOUS
<1>10. /\ read' = r + k
       /\ IF Len(all) = l
          THEN rpc' = "header" /\ buffer' = <<>> /\ received' = Append(received, all)
          ELSE buffer' = all /\ UNCHANGED <<rpc, received>>
  BY <1>1, <1>7, <1>8
<1>11. /\ all \in Seq(Byte)
       /\ Len(all) = c + k
       /\ \A i \in 1..(c + k) : all[i] = <<m, h + i - 1>>
  <2> DEFINE part == SubSeq(stream, r + 1, r + k)
  <2>1. /\ part \in Seq(Byte) /\ Len(part) = k
        /\ \A i \in 1..k : part[i] = stream[r + i]
    BY <1>9, SubSeqFacts DEF TypeOK
  <2>2. buffer \in Seq(Byte) /\ all = buffer \o part
    BY DEF TypeOK
  <2> HIDE DEF part
  <2>3. all \in Seq(Byte) /\ Len(all) = c + k
    BY <1>7, <2>1, <2>2, ConcatProperties
  <2>4. ASSUME NEW i \in 1..(c + k) PROVE all[i] = <<m, h + i - 1>>
    <3>1. CASE i <= c
      <4>1. i \in 1..c
        BY <3>1
      <4>2. all[i] = buffer[i]
        BY <1>7, <2>1, <2>2, <4>1, ConcatProperties
      <4> QED BY <1>5, <1>7, <4>1, <4>2
    <3>2. CASE i > c
      <4>1. i - c \in 1..k
        BY <3>2
      <4>2. all[i] = part[i - c]
        BY <1>7, <2>1, <2>2, <3>2, ConcatProperties
      <4>3. all[i] = stream[r + (i - c)]
        BY <2>1, <4>1, <4>2
      <4>4. r + (i - c) = a + (h + i - 1) + 1
        BY <1>8
      <4>5. h + i - 1 \in 0..(h + l - 1) /\ a + (h + i - 1) < Len(stream)
        BY <1>8, <1>9, <3>2
      <4>6. stream[a + (h + i - 1) + 1] = <<m, h + i - 1>>
        BY <1>6, <1>7, <4>5 DEF IntactInv, StreamInv
      <4> QED BY <4>3, <4>4, <4>6
    <3>3. i <= c \/ i > c
      OBVIOUS
    <3> QED BY <3>1, <3>2, <3>3
  <2> QED BY <2>3, <2>4
<1>12. CASE Len(all) = l
  <2>1. c + k = l
    BY <1>11, <1>12
  <2>2. all = Payload(m)
    <3>1. all = Bytes(m, h, l)
      <4>1. all \in Seq(Byte) /\ Len(all) = l /\ \A i \in 1..l : all[i] = <<m, h + i - 1>>
        BY <1>11, <2>1
      <4>2. Consecutive(all, m, h, l)
        BY <4>1 DEF Consecutive
      <4> QED BY <4>2, ConsecutiveBytes
    <3> QED BY <1>7, <3>1 DEF Payload
  <2>3. /\ received' = Append(received, all) /\ received \in Seq(Seq(Byte))
        /\ rpc' = "header"
    BY <1>10, <1>12 DEF TypeOK
  <2>4. /\ Len(received') = m
        /\ received'[m] = all
        /\ \A i \in 1..(m - 1) : received'[i] = received[i]
    BY <1>11, <2>3, AppendProperties
  <2>5. InOrder'
    <3>1. ASSUME NEW i \in 1..m PROVE received'[i] = Payload(i)
      <4>1. CASE i = m
        BY <2>2, <2>4, <4>1
      <4>2. CASE i # m
        <5>1. i \in 1..(m - 1) /\ i \in 1..Len(received)
          BY <4>2
        <5> QED BY <2>4, <5>1 DEF IntactInv, InOrder
      <4> QED BY <4>1, <4>2
    <3> QED BY <1>3, <1>5, <2>4, <3>1 DEF InOrder, N
  <2>6. End(m) = a + h + l
    BY <1>6, <1>7, EndFacts
  <2>7. read' = End(Len(received))'
    <3>1. r + k = a + h + l
      BY <1>8, <1>9, <2>1
    <3>2. read' = End(m)'
      BY <1>3, <1>10, <2>6, <3>1
    <3> QED BY <2>4, <3>2
  <2>8. ReaderInv'
    BY <2>3, <2>7 DEF ReaderInv
  <2> QED BY <1>4, <2>5, <2>8 DEF IntactInv
<1>13. CASE Len(all) # l
  <2>1. UNCHANGED <<rpc, received>> /\ buffer' = all
    BY <1>10, <1>13
  <2>2. InOrder'
    BY <1>2, <1>3, <2>1 DEF IntactInv, InOrder
  <2>3. c + k < l /\ r + k = a + h + (c + k)
    <3>1. c + k # l
      BY <1>11, <1>13
    <3> QED BY <1>8, <1>9, <3>1
  <2>4. ReaderInv'
    <3>1. rpc' # "header" /\ Len(received') + 1 = m
      BY <1>2, <2>1
    <3>2. /\ m <= N' /\ messageLength' = frames'[m].len
          /\ Len(buffer') < messageLength'
          /\ read' = frames'[m].start + HeaderLen + Len(buffer')
      BY <1>2, <1>3, <1>5, <1>7, <1>8, <1>10, <1>11, <2>1, <2>3
    <3>3. \A i \in 1..Len(buffer') : buffer'[i] = <<m, HeaderLen + i - 1>>
      BY <1>7, <1>11, <2>1
    <3> QED BY <3>1, <3>2, <3>3 DEF ReaderInv
  <2> QED BY <1>4, <2>2, <2>4 DEF IntactInv
<1> QED BY <1>12, <1>13

\* A connection found down in the middle of a message.
LEMMA ReceiveFailsStep ==
    ASSUME TypeOK, IntactInv, ReceiveFails
    PROVE  IntactInv'
<1>1. /\ ~open /\ Unread = 0 /\ rpc' = "header" /\ Len(stream) = read
      /\ UNCHANGED <<open, stream, read, frames, senderVars, messageLength, received>>
  BY DEF ReceiveFails, Unread, TypeOK
<1>2. N' = N /\ (\A m : End(m)' = End(m) /\ Payload(m)' = Payload(m))
  BY <1>1, SameFrames
<1>3. FramesInv' /\ WritersInv' /\ StreamInv' /\ InOrder'
  BY <1>1, <1>2 DEF IntactInv, FramesInv, WritersInv, StreamInv, InOrder, senderVars
<1>4. ReaderInv'
  BY <1>1 DEF ReaderInv
<1> QED BY <1>3, <1>4 DEF IntactInv

\* Every step that leaves the framing intact keeps the invariant.
LEMMA FramingStep == FramingInv /\ [Next]_vars => FramingInv'
<1> SUFFICES ASSUME FramingInv, [Next]_vars PROVE FramingInv'
  OBVIOUS
<1>1. TypeOK /\ TypeOK'
  BY TypeStep DEF FramingInv
<1> SUFFICES ASSUME faults' = {} PROVE IntactInv'
  BY <1>1 DEF FramingInv
<1>2. CASE \E s \in Senders : SendHeader(s)
  <2>1. PICK s \in Senders : SendHeader(s)
    BY <1>2
  <2>2. ~MidFrame(s) /\ faults = {}
    BY <2>1 DEF SendHeader
  <2> QED BY <1>1, <2>1, <2>2, SendHeaderStep DEF FramingInv
<1>3. CASE \E s \in Senders : SendHeaderShort(s)
  BY <1>3 DEF SendHeaderShort
<1>4. CASE \E s \in Senders : SendBody(s)
  <2>1. faults = {}
    BY <1>4 DEF SendBody
  <2> QED BY <1>1, <1>4, <2>1, SendBodyStep DEF FramingInv
<1>5. CASE Close \/ \E s \in Senders : SendCall(s) \/ SendFails(s)
  <2>1. faults = {}
    BY <1>5 DEF Close, SendCall, SendFails
  <2> QED BY <1>1, <1>5, <2>1, OtherSendSteps DEF FramingInv
<1>6. CASE ReceiveHeader
  <2>1. faults = {}
    BY <1>6 DEF ReceiveHeader
  <2> QED BY <1>1, <1>6, <2>1, ReceiveHeaderStep DEF FramingInv
<1>7. CASE RejectHeader
  BY <1>7 DEF RejectHeader, HeaderFaults
<1>8. CASE ReceiveBody
  <2>1. faults = {}
    BY <1>8 DEF ReceiveBody
  <2> QED BY <1>1, <1>8, <2>1, ReceiveBodyStep DEF FramingInv
<1>9. CASE ReceiveFails
  <2>1. faults = {}
    BY <1>9 DEF ReceiveFails
  <2> QED BY <1>1, <1>9, <2>1, ReceiveFailsStep DEF FramingInv
<1>10. CASE UNCHANGED vars
  <2>1. N' = N /\ (\A m : End(m)' = End(m) /\ Payload(m)' = Payload(m)) /\ faults = {}
    BY <1>10, SameFrames DEF vars
  <2>2. IntactInv
    BY <2>1 DEF FramingInv
  <2> QED BY <1>10, <2>1, <2>2 DEF vars, senderVars, receiverVars, IntactInv, FramesInv,
             WritersInv, StreamInv, ReaderInv, InOrder
<1> QED BY <1>2, <1>3, <1>4, <1>5, <1>6, <1>7, <1>8, <1>9, <1>10
        DEF Next, Send, Receive

\* The invariant holds from the start.
LEMMA FramingInit == Init => FramingInv
<1> SUFFICES ASSUME Init PROVE FramingInv
  OBVIOUS
<1>1. TypeOK
  BY DEF Init, TypeOK
<1>2. N = 0 /\ End(0) = 0
  BY DEF Init, N, End
<1>3. FramesInv /\ StreamInv
  BY <1>2 DEF FramesInv, StreamInv
<1>4. WritersInv
  BY <1>2 DEF Init, WritersInv
<1>5. ReaderInv /\ InOrder
  BY <1>2 DEF Init, ReaderInv, InOrder
<1> QED BY <1>1, <1>3, <1>4, <1>5 DEF FramingInv, IntactInv

\* Framing integrity: however many threads write to a connection and however
\* the kernel cuts and delays their bytes, as long as no two sendData calls
\* overlapped, no header was split and no message was too large for the
\* reader, receive() returns the messages whole and in the order of their
\* headers.
THEOREM FramingIntegrity == Spec => []FramingHolds
<1>1. FramingInv => FramingHolds
  BY DEF FramingInv, IntactInv, FramingHolds
<1> QED BY <1>1, FramingInit, FramingStep, PTL DEF Spec

-----------------------------------------------------------------------------
(* With one writer the connection is a FIFO channel. *)

\* The reader rejects no header.
LEMMA NoReject ==
    ASSUME OneWriter, CalmInv, RejectHeader
    PROVE  FALSE
<1>1. TypeOK /\ IntactInv /\ rpc = "header"
  BY DEF CalmInv, FramingInv, RejectHeader
<1>2. PICK k \in HeaderReads : \E n \in HeaderValues(k) : ~Accepts(k, n)
  BY DEF RejectHeader
<1>3. k = MinOf(HeaderLen, Unread) /\ k > 0 /\ Unread \in Nat /\ Unread = Len(stream) - read
  <2>1. Unread \in Nat
    BY <1>1 DEF TypeOK, Unread
  <2>2. k \in {MinOf(HeaderLen, Unread)} \ {0}
    BY DEF OneWriter, HeaderReads
  <2> QED BY <2>1, <2>2 DEF MinOf, Unread
<1>4. k = HeaderLen
  <2>1. read # Len(stream) /\ read < Len(stream) /\ read \in Nat /\ Len(stream) \in Nat
    BY <1>1, <1>3 DEF MinOf, TypeOK
  <2> PICK r \in Nat : r = Len(received)
    BY <1>1 DEF TypeOK
  <2>2. read = End(r) /\ r \in 0..N /\ N \in Nat
    BY <1>1, <2>1, EndFacts DEF IntactInv, ReaderInv, InOrder, N
  <2>3. Len(stream) <= End(N) /\ (N > 0 => frames[N].start + HeaderLen <= Len(stream))
    BY <1>1 DEF IntactInv, WritersInv
  <2>4. r # N
    BY <2>1, <2>2, <2>3
  <2>5. N > 0 /\ N - 1 \in 0..N /\ r <= N - 1 /\ N \in 1..N
    BY <2>2, <2>4
  <2>6. End(r) <= End(N - 1) /\ frames[N].start = End(N - 1)
    BY <1>1, <2>2, <2>5 DEF IntactInv, FramesInv
  <2>7. End(r) \in Nat /\ End(N - 1) \in Nat
    BY <1>1, <2>2, <2>5, EndFacts
  <2>8. read + HeaderLen <= Len(stream)
    BY <2>1, <2>2, <2>3, <2>5, <2>6, <2>7
  <2> QED BY <1>3, <2>1, <2>8 DEF MinOf
<1> PICK m \in Nat : m = Len(received) + 1
  BY <1>1 DEF TypeOK
<1>5. m \in 1..N /\ HeaderValues(k) = {frames[m].len}
  BY <1>1, <1>4, NextHeader
<1>6. frames[m].len > 0 /\ frames[m].len < BufSize
  BY <1>1, <1>5 DEF CalmInv, OneWriter, IntactInv, FramesInv
<1> QED BY <1>2, <1>4, <1>5, <1>6 DEF Accepts

\* With one writer no step damages the framing.
LEMMA CalmStep ==
    ASSUME OneWriter, CalmInv, [Next]_vars
    PROVE  CalmInv'
<1>1. FramingInv' /\ TypeOK
  BY FramingStep DEF CalmInv, FramingInv
<1>2. ASSUME NEW s \in Senders, SendHeader(s) PROVE CalmInv'
  <2>1. faults' = {}
    BY <1>2 DEF SendHeader, MidFrame, OneWriter, CalmInv
  <2>2. frames' = Append(frames, [start |-> Len(stream), len |-> length[s]])
        /\ frames \in Seq(Frame) /\ length[s] \in Lengths
    BY <1>1, <1>2 DEF SendHeader, WriteHeader, TypeOK, CalmInv
  <2>3. [start |-> Len(stream), len |-> length[s]] \in Frame
    BY <1>1, <2>2 DEF Frame, TypeOK
  <2>4. Len(frames') = N + 1 /\ frames'[N + 1].len = length[s]
        /\ \A m \in 1..N : frames'[m] = frames[m]
    BY <2>2, <2>3 DEF N
  <2>5. ASSUME NEW m \in 1..N' PROVE frames'[m].len \in Lengths
    <3>1. m = N + 1 \/ m \in 1..N
      BY <1>1, <2>4, EndFacts DEF N
    <3> QED BY <2>2, <2>4, <3>1 DEF CalmInv
  <2>6. \A t \in Senders : pc'[t] = "header" => length'[t] \in Lengths
    BY <1>1, <1>2 DEF SendHeader, TypeOK, CalmInv
  <2> QED BY <1>1, <2>1, <2>5, <2>6 DEF CalmInv
<1>3. ASSUME NEW s \in Senders, SendHeaderShort(s) PROVE CalmInv'
  BY <1>3 DEF SendHeaderShort, OneWriter
<1>4. ASSUME NEW s \in Senders, SendCall(s) PROVE CalmInv'
  <2>1. faults' = {} /\ frames' = frames
    BY <1>4 DEF SendCall, CalmInv
  <2>2. \A t \in Senders : pc'[t] = "header" => length'[t] \in Lengths
    BY <1>1, <1>4 DEF SendCall, TypeOK, CalmInv
  <2> QED BY <1>1, <2>1, <2>2 DEF CalmInv, N
<1>5. ASSUME NEW s \in Senders, SendBody(s) \/ SendFails(s) PROVE CalmInv'
  <2>1. faults' = {} /\ frames' = frames /\ length' = length
    BY <1>5 DEF SendBody, SendFails, CalmInv
  <2>2. \A t \in Senders : pc'[t] = "header" => pc[t] = "header"
    BY <1>1, <1>5 DEF SendBody, SendFails, TypeOK
  <2> QED BY <1>1, <2>1, <2>2 DEF CalmInv, N
<1>6. CASE ReceiveHeader \/ ReceiveBody \/ ReceiveFails \/ Close \/ UNCHANGED vars
  BY <1>1, <1>6 DEF ReceiveHeader, ReceiveBody, ReceiveFails, Close, vars, senderVars,
     CalmInv, N
<1>7. CASE RejectHeader
  BY <1>7, NoReject
<1> QED BY <1>2, <1>3, <1>4, <1>5, <1>6, <1>7 DEF Next, Send, Receive

\* The abstract channel's view of what has been received: 1, 2, 3, ...
Delivered == [i \in 1..Len(received) |-> received[i][1][1]]

NamedInOrder ==
    /\ Delivered \in Seq(Nat) /\ Len(Delivered) = Len(received)
    /\ \A i \in 1..Len(received) : Delivered[i] = i

\* What has been received is named in order.
LEMMA DeliveredNames == CalmInv => NamedInOrder
<1> SUFFICES ASSUME CalmInv PROVE NamedInOrder
  OBVIOUS
<1>1. ASSUME NEW i \in 1..Len(received) PROVE received[i][1][1] = i
  <2>1. TypeOK /\ received[i] = Payload(i) /\ i \in 1..N
    BY DEF CalmInv, FramingInv, IntactInv, InOrder, N, TypeOK
  <2>2. frames[i].len \in Nat /\ frames[i].len > 0
    BY <2>1, EndFacts DEF CalmInv, FramingInv, IntactInv, FramesInv
  <2>3. Payload(i)[1] = <<i, HeaderLen + 1 - 1>>
    BY <2>2 DEF Payload, Bytes
  <2> QED BY <2>1, <2>3
<1>2. Delivered = [i \in 1..Len(received) |-> i] /\ Len(received) \in Nat
  BY <1>1 DEF Delivered, CalmInv, FramingInv, TypeOK
<1> QED BY <1>2 DEF NamedInOrder

\* Refinement: with one writer and messages that fit, a connection of an
\* ofxOfeliaStream implements the abstract channel: what sendData puts on the
\* wire comes out of receive() once each, whole and in order.
THEOREM ImplementsChannel == ASSUME OneWriter PROVE Spec => ChannelSpec
<1>1. Init => CalmInv /\ Channel!Init
  <2> SUFFICES ASSUME Init PROVE CalmInv /\ Channel!Init
    OBVIOUS
  <2>1. CalmInv
    BY FramingInit DEF Init, CalmInv, N
  <2>2. Len(frames) = 0 /\ Len(received) = 0
    BY DEF Init
  <2>3. [i \in 1..Len(received) |-> received[i][1][1]] = <<>>
    BY <2>2
  <2> QED BY <2>1, <2>2, <2>3 DEF Channel!Init
<1>2. ASSUME CalmInv, [Next]_vars PROVE CalmInv'
  BY <1>2, CalmStep
<1>3. ASSUME CalmInv, CalmInv', [Next]_vars PROVE [Channel!Next]_(Channel!channel)
  <2>1. CASE \E s \in Senders : SendHeader(s)
    <3>1. Len(frames') = Len(frames) + 1 /\ received' = received
      <4>1. PICK s \in Senders : SendHeader(s)
        BY <2>1
      <4> QED BY <1>3, <4>1, WriteHeaderTypes
              DEF SendHeader, receiverVars, CalmInv, FramingInv
    <3>2. Channel!Send
      BY <3>1 DEF Channel!Send
    <3> QED BY <3>2 DEF Channel!Next
  <2>2. CASE ReceiveBody /\ received' # received
    <3>1. PICK b : received' = Append(received, b) /\ frames' = frames
      BY <2>2 DEF ReceiveBody
    <3>2. TypeOK /\ TypeOK' /\ received \in Seq(Seq(Byte)) /\ received' \in Seq(Seq(Byte))
      BY <1>3 DEF CalmInv, FramingInv, TypeOK
    <3>3. Len(received') = Len(received) + 1
      BY <3>1, <3>2
    <3>4. Len(received') <= Len(frames')
      BY <1>3 DEF CalmInv, FramingInv, IntactInv, InOrder
    <3>5. Delivered' = Append(Delivered, Len(Delivered) + 1)
      <4>1. /\ Delivered' \in Seq(Nat) /\ Len(Delivered') = Len(received')
            /\ \A i \in 1..Len(received') : Delivered'[i] = i
        <5>1. NamedInOrder'
          BY <1>3, DeliveredNames, PTL
        <5> QED BY <5>1 DEF NamedInOrder
      <4>2. /\ Delivered \in Seq(Nat) /\ Len(Delivered) = Len(received)
            /\ \A i \in 1..Len(received) : Delivered[i] = i
        BY <1>3, DeliveredNames DEF NamedInOrder
      <4> QED BY <3>3, <4>1, <4>2
    <3>6. Len(Delivered) = Len(received) /\ Len(received) < Len(frames)
      <4>1. Len(received) \in Nat /\ Len(frames) \in Nat
        BY <3>2 DEF TypeOK
      <4> QED BY <1>3, <3>1, <3>3, <3>4, <4>1, DeliveredNames DEF NamedInOrder
    <3>7. Channel!Deliver
      BY <3>1, <3>5, <3>6 DEF Channel!Deliver, Delivered
    <3> QED BY <3>7 DEF Channel!Next
  <2>3. CASE UNCHANGED <<frames, received>>
    BY <2>3 DEF Channel!channel
  <2>4. \/ \E s \in Senders : SendHeader(s)
        \/ ReceiveBody /\ received' # received
        \/ UNCHANGED <<frames, received>>
    <3>1. ~RejectHeader
      BY <1>3, NoReject
    <3>2. \A s \in Senders : ~SendHeaderShort(s)
      BY DEF SendHeaderShort, OneWriter
    <3>3. ReceiveBody => frames' = frames
      BY DEF ReceiveBody
    <3> QED BY <1>3, <3>1, <3>2, <3>3 DEF Next, Send, Receive, SendCall, SendBody, SendFails,
               ReceiveHeader, ReceiveFails, Close, vars, receiverVars
  <2> QED BY <2>1, <2>2, <2>3, <2>4
<1> QED BY <1>1, <1>2, <1>3, PTL DEF Spec, ChannelSpec, Channel!Spec
=============================================================================
