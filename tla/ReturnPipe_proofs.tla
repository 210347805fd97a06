-------------------------- MODULE ReturnPipe_proofs --------------------------
(***************************************************************************)
(* Proofs about ReturnPipe: a call returns the answer to its own request   *)
(* as long as nothing has put requests and replies out of step; and, then  *)
(* too, what is on its way in the two pipes is of its type.  Any threads,  *)
(* objects and bindings, any number of requests.                           *)
(***************************************************************************)
EXTENDS ReturnPipe, Integers, SequenceTheorems, FiniteSetTheorems, TLAPS

Waits(r) == Binding[r.op].waits

ReplyTypes ==
    /\ pipe \in Seq(Request)
    /\ call \in [Threads -> Nat]
    /\ sent \in Nat
    /\ at \in [Threads -> {"header", "payload", "copy"}]
    /\ own \in [Threads -> BOOLEAN]
    /\ hostUp

\* One thread waits at a time.  Its request is the last one on its way, or
\* its reply is the only one, and nobody else's is behind it.
StepInv ==
    /\ \A t, u \in Threads : call[t] # 0 /\ call[u] # 0 => t = u
    /\ \A i \in 1..Len(pipe) : Waits(pipe[i]) =>
          /\ i = Len(pipe)
          /\ returnPipe = <<>>
          /\ \E t \in Threads : call[t] = pipe[i].id
          /\ \A t \in Threads : at[t] # "copy"
    /\ \A t \in Threads :
          /\ call[t] = 0 => at[t] = "header"
          /\ at[t] = "payload" => returnPipe # <<>>
          /\ at[t] = "copy" => returnPipe = <<>> /\ buffer = call[t]
    /\ \/ returnPipe = <<>>
       \/ \E t \in Threads : \E v :
             call[t] # 0 /\ returnPipe = <<[id |-> call[t], value |-> v]>>

\* Once something has slipped, nothing is claimed.
ReplyInv == slips = {} => ReplyTypes /\ StepInv /\ \A t \in Threads : own[t]

\* Nothing has been sent.
LEMMA InitReply == Init => ReplyInv
  BY DEF Init, ReplyInv, ReplyTypes, StepInv

\* A binding sends when nobody waits, so that both pipes hold nothing that
\* anybody waits for.
LEMMA CallStep == ASSUME ReplyInv, NEW t \in Threads, Call(t) PROVE ReplyInv'
<1> SUFFICES ASSUME slips' = {} PROVE ReplyInv'
  BY DEF ReplyInv
<1>1. /\ slips = {} /\ Waiting = {} /\ sent < MaxRequests /\ sent' = sent + 1
      /\ UNCHANGED <<returnPipe, at, buffer, hostUp, own>>
  BY DEF Call, hostVars
<1>2. ReplyTypes /\ StepInv /\ \A u \in Threads : own[u]
  BY <1>1 DEF ReplyInv
<1>3. \A u \in Threads : call[u] = 0
  BY <1>1 DEF Waiting
<1>a. PICK op \in Ops : \E o \in Addressees(op) :
          /\ pipe' = Append(pipe, [id |-> sent + 1, op |-> op, object |-> o])
          /\ call' = [call EXCEPT ![t] = IF Binding[op].waits THEN sent + 1 ELSE 0]
  BY DEF Call
<1>4. PICK o \in Addressees(op) :
          /\ pipe' = Append(pipe, [id |-> sent + 1, op |-> op, object |-> o])
          /\ call' = [call EXCEPT ![t] = IF Binding[op].waits THEN sent + 1 ELSE 0]
  BY <1>a
<1> DEFINE r == [id |-> sent + 1, op |-> op, object |-> o]
<1>5. r \in Request
  BY <1>1, <1>2, <1>4, MaxRequestsAssumption DEF MaxRequestsAssumption, ReplyTypes, Request, Addressees
<1>6. /\ pipe' \in Seq(Request) /\ Len(pipe') = Len(pipe) + 1 /\ Len(pipe) \in Nat
      /\ \A i \in 1..Len(pipe) : pipe'[i] = pipe[i] /\ pipe[i] \in Request
      /\ pipe'[Len(pipe) + 1] = r
  BY <1>2, <1>4, <1>5, AppendProperties, LenProperties, ElementOfSeq DEF ReplyTypes
<1>7. returnPipe = <<>> /\ \A i \in 1..Len(pipe) : ~Waits(pipe[i])
  BY <1>2, <1>3, <1>6 DEF StepInv, Request
<1>8. ReplyTypes'
  BY <1>1, <1>2, <1>4, <1>6 DEF ReplyTypes
<1>9. ASSUME NEW i \in 1..Len(pipe'), Waits(pipe'[i])
      PROVE  i = Len(pipe') /\ \E u \in Threads : call'[u] = pipe'[i].id
  <2>1. i = Len(pipe) + 1
    BY <1>6, <1>7, <1>9
  <2>2. pipe'[i] = r /\ Binding[op].waits
    BY <1>6, <1>9, <2>1 DEF Waits
  <2>3. call'[t] = r.id
    BY <1>2, <1>4, <2>2 DEF ReplyTypes
  <2> QED BY <1>6, <2>1, <2>2, <2>3
<1>10. \A u, v \in Threads : call'[u] # 0 /\ call'[v] # 0 => u = v
  BY <1>2, <1>3, <1>4 DEF ReplyTypes
<1>b. \A u \in Threads : at'[u] = "header"
  BY <1>1, <1>2, <1>3 DEF StepInv
<1>11. StepInv'
  BY <1>1, <1>7, <1>9, <1>10, <1>b DEF StepInv, Waits
<1> QED BY <1>1, <1>2, <1>8, <1>11 DEF ReplyInv

\* Nobody takes bytes that another thread needs.
LEMMA InStep == ASSUME ReplyInv, slips = {}, NEW t \in Threads, call[t] # 0 PROVE ~OutOfStep(t)
<1>1. /\ \A u \in Threads : call[u] = 0 => at[u] = "header"
      /\ \A u \in Threads : call[u] # 0 => t = u
  BY DEF ReplyInv, StepInv
<1> QED BY <1>1 DEF OutOfStep, Inside

\* The reply there is belongs to the one thread that waits, and so does the
\* buffer once it is there.
LEMMA ReceiveStep ==
    ASSUME ReplyInv, NEW t \in Threads, ReceiveHeader(t) \/ ReceivePayload(t)
    PROVE  ReplyInv'
<1> SUFFICES ASSUME slips' = {} PROVE ReplyInv'
  BY DEF ReplyInv
<1>1. /\ slips = {} /\ returnPipe # <<>>
      /\ UNCHANGED <<pipe, call, sent, hostUp, own>>
  BY DEF ReceiveHeader, ReceivePayload, hostVars
<1>2. ReplyTypes /\ StepInv /\ \A u \in Threads : own[u]
  BY <1>1 DEF ReplyInv
<1>3. call[t] # 0
  BY <1>2 DEF ReceiveHeader, ReceivePayload, StepInv
<1>4. PICK v : returnPipe = <<[id |-> call[t], value |-> v]>>
  BY <1>1, <1>2, <1>3 DEF StepInv
<1>5. \A i \in 1..Len(pipe) : ~Waits(pipe[i])
  BY <1>1, <1>2 DEF StepInv
<1>6. \A u \in Threads : u # t => call[u] = 0 /\ at[u] = "header" /\ at'[u] = at[u]
  BY <1>2, <1>3 DEF StepInv, ReceiveHeader, ReceivePayload, ReplyTypes
<1>7. CASE ReceiveHeader(t)
  <2>1. returnPipe' = returnPipe /\ at'[t] = "payload" /\ UNCHANGED buffer
    BY <1>2, <1>7 DEF ReceiveHeader, ReplyTypes
  <2>2. ReplyTypes'
    BY <1>1, <1>2, <1>7 DEF ReceiveHeader, ReplyTypes
  <2>3. StepInv'
    BY <1>1, <1>2, <1>3, <1>5, <1>6, <2>1 DEF StepInv, Waits
  <2> QED BY <1>1, <1>2, <2>2, <2>3 DEF ReplyInv
<1>8. CASE ReceivePayload(t)
  <2>1. returnPipe' = <<>> /\ at'[t] = "copy" /\ buffer' = call[t]
    BY <1>2, <1>4, <1>8 DEF ReceivePayload, ReplyTypes
  <2>2. ReplyTypes'
    BY <1>1, <1>2, <1>8 DEF ReceivePayload, ReplyTypes
  <2>3. StepInv'
    BY <1>1, <1>2, <1>3, <1>5, <1>6, <2>1 DEF StepInv, Waits
  <2> QED BY <1>1, <1>2, <2>2, <2>3 DEF ReplyInv
<1> QED BY <1>7, <1>8

LEMMA ReturnStep == ASSUME ReplyInv, NEW t \in Threads, Return(t) PROVE ReplyInv'
<1> SUFFICES ASSUME slips' = {} PROVE ReplyInv'
  BY DEF ReplyInv
<1>1. /\ slips = {} /\ at[t] = "copy"
      /\ call' = [call EXCEPT ![t] = 0] /\ at' = [at EXCEPT ![t] = "header"]
      /\ own' = [own EXCEPT ![t] = (buffer = call[t])]
      /\ UNCHANGED <<pipe, returnPipe, buffer, sent, hostUp>>
  BY DEF Return, Returns, hostVars
<1>2. ReplyTypes /\ StepInv /\ \A u \in Threads : own[u]
  BY <1>1 DEF ReplyInv
<1>3. returnPipe = <<>> /\ buffer = call[t] /\ call[t] # 0
  BY <1>1, <1>2 DEF StepInv
<1>4. own' \in [Threads -> BOOLEAN] /\ \A u \in Threads : own'[u]
  BY <1>1, <1>2, <1>3 DEF ReplyTypes
<1>5. \A u \in Threads : /\ call'[u] = (IF u = t THEN 0 ELSE call[u])
                          /\ at'[u] = (IF u = t THEN "header" ELSE at[u])
  BY <1>1, <1>2 DEF ReplyTypes
<1>6. \A i \in 1..Len(pipe) : ~Waits(pipe[i])
  BY <1>1, <1>2 DEF StepInv
<1>7. ReplyTypes'
  BY <1>1, <1>2, <1>4 DEF ReplyTypes
<1>8. StepInv'
  BY <1>1, <1>2, <1>3, <1>5, <1>6 DEF StepInv, Waits
<1> QED BY <1>4, <1>7, <1>8 DEF ReplyInv

\* The request goes; if its sender waits, nothing is left behind it and its
\* one reply is the only one.
LEMMA DispatchStep == ASSUME ReplyInv, Dispatch PROVE ReplyInv'
<1> SUFFICES ASSUME slips' = {} PROVE ReplyInv'
  BY DEF ReplyInv
<1> DEFINE r == Head(pipe)
           values == Values(r)
           replies == [i \in 1..Len(values) |-> [id |-> r.id, value |-> values[i]]]
<1>1. /\ slips = {} /\ SlipsOf(r) = {} /\ pipe # <<>> /\ pipe' = Tail(pipe)
      /\ returnPipe' = returnPipe \o replies /\ UNCHANGED <<call, at, buffer, sent, hostUp, own>>
  BY DEF Dispatch, receiveVars, hostVars
<1>2. ReplyTypes /\ StepInv /\ \A u \in Threads : own[u]
  BY <1>1 DEF ReplyInv
<1>3. Len(values) = Expected(r)
  BY <1>1, Zenon DEF SlipsOf
<1>4. /\ r = pipe[1] /\ r \in Request /\ Len(pipe) \in Nat /\ Len(pipe) >= 1
      /\ pipe' \in Seq(Request) /\ Len(pipe') = Len(pipe) - 1
      /\ \A i \in 1..Len(pipe') : pipe'[i] = pipe[i + 1]
  BY <1>1, <1>2, HeadTailProperties, LenProperties, EmptySeq DEF ReplyTypes
<1>5. ReplyTypes'
  BY <1>1, <1>2, <1>4 DEF ReplyTypes
<1>8. r.id # 0
  BY <1>4, MaxRequestsAssumption DEF MaxRequestsAssumption, Request
<1> HIDE DEF r, values
<1>6. CASE Waits(r)
  <2>1. /\ Len(pipe) = 1 /\ returnPipe = <<>>
        /\ \E t \in Threads : call[t] = r.id
        /\ \A t \in Threads : at[t] = "header"
    BY <1>2, <1>4, <1>6 DEF StepInv, ReplyTypes
  <2>2. replies = <<[id |-> r.id, value |-> values[1]]>>
    BY <1>3, <1>6 DEF Expected, Waits
  <2>3. returnPipe' = <<[id |-> r.id, value |-> values[1]]>>
    BY <1>1, <2>1, <2>2
  <2>4. PICK t \in Threads : call[t] = r.id
    BY <2>1
  <2>5. call'[t] # 0 /\ returnPipe' = <<[id |-> call'[t], value |-> values[1]]>>
    BY <1>1, <1>8, <2>3, <2>4
  <2>6. \E u \in Threads : \E v :
            call'[u] # 0 /\ returnPipe' = <<[id |-> call'[u], value |-> v]>>
    BY <2>5, Zenon
  <2>7. StepInv'
    <3>1. \A i \in 1..Len(pipe') : FALSE
      BY <1>4, <2>1
    <3>2. \A t1, u \in Threads : call'[t1] # 0 /\ call'[u] # 0 => t1 = u
      BY <1>1, <1>2 DEF StepInv
    <3>3. \A u \in Threads : at'[u] = "header"
      BY <1>1, <2>1
    <3>4. \A u \in Threads : at'[u] # "payload" /\ at'[u] # "copy"
      BY <3>3
    <3> QED BY <2>6, <3>1, <3>2, <3>3, <3>4, Zenon DEF StepInv
  <2> QED BY <1>1, <1>2, <1>5, <2>7 DEF ReplyInv
<1>7. CASE ~Waits(r)
  <2>1. replies = <<>>
    BY <1>3, <1>7 DEF Expected, Waits
  <2>2. returnPipe' = returnPipe
    BY <1>1, <1>2, <2>1 DEF StepInv
  <2>3. \A i \in 1..Len(pipe') : Waits(pipe'[i]) =>
            /\ i = Len(pipe') /\ returnPipe = <<>> /\ \E t \in Threads : call[t] = pipe'[i].id
            /\ \A t \in Threads : at[t] # "copy"
    BY <1>2, <1>4 DEF StepInv
  <2>4. StepInv'
    <3>1. pipe' = Tail(pipe) /\ call' = call /\ at' = at /\ buffer' = buffer
      BY <1>1
    <3>2. \A t, u \in Threads : call'[t] # 0 /\ call'[u] # 0 => t = u
      BY <1>2, <3>1 DEF StepInv
    <3>3. \A i \in 1..Len(pipe') : Waits(pipe'[i]) =>
            /\ i = Len(pipe') /\ returnPipe' = <<>>
            /\ \E t \in Threads : call'[t] = pipe'[i].id
            /\ \A t \in Threads : at'[t] # "copy"
      BY <2>2, <2>3, <3>1
    <3>4. \A t \in Threads :
            /\ call'[t] = 0 => at'[t] = "header"
            /\ at'[t] = "payload" => returnPipe' # <<>>
            /\ at'[t] = "copy" => returnPipe' = <<>> /\ buffer' = call'[t]
      BY <1>2, <2>2, <3>1 DEF StepInv
    <3>5. \/ returnPipe' = <<>>
          \/ \E t \in Threads : \E v :
                call'[t] # 0 /\ returnPipe' = <<[id |-> call'[t], value |-> v]>>
      BY <1>2, <2>2, <3>1 DEF StepInv
    <3> QED BY <3>2, <3>3, <3>4, <3>5, Zenon DEF StepInv, Waits
  <2> QED BY <1>1, <1>2, <1>5, <2>4 DEF ReplyInv
<1> QED BY <1>6, <1>7

\* The invariant holds in every state.
LEMMA ReplyInvariant == Spec => []ReplyInv
<1>1. ReplyInv /\ [Next]_vars => ReplyInv'
  <2> SUFFICES ASSUME ReplyInv, [Next]_vars PROVE ReplyInv'
    OBVIOUS
  <2>1. CASE ArrayGetCrash
    BY <2>1 DEF ArrayGetCrash, ReplyInv
  <2>2. CASE \E t \in Threads : ReturnNothing(t)
    BY <2>2 DEF ReturnNothing, ReplyInv, ReplyTypes
  <2>4. CASE \E t \in Threads : ReceiveSplit(t)
    BY <2>4, InStep DEF ReceiveSplit, ReplyInv
  <2>3. CASE Embrace \/ EditArray \/ (\E o \in Objects : EditObject(o)) \/ UNCHANGED vars
    BY <2>3 DEF Embrace, EditArray, EditObject, vars, receiveVars, hostVars, ReplyInv, ReplyTypes, StepInv, Waits
  <2> QED BY <2>1, <2>2, <2>3, <2>4, CallStep, ReceiveStep, ReturnStep, DispatchStep DEF Next, Receive
<1> QED BY <1>1, InitReply, PTL DEF Spec

-----------------------------------------------------------------------------
\* Each call returned the answer to its own request, as long as every request
\* got as many replies as its binding takes, one thread waited at a time and
\* the host was up (waitForReturnValue, receiveMessage).
THEOREM AnswersMatch == Spec => []OwnAnswer
<1>1. ReplyInv => OwnAnswer
  BY DEF ReplyInv, OwnAnswer
<1> QED BY <1>1, ReplyInvariant, PTL

-----------------------------------------------------------------------------
(* Types *)

\* All replies are values.
LEMMA ValuesType ==
    ASSUME TypeOK, NEW r \in Request
    PROVE  Values(r) \in Seq(Nat)
<1> DEFINE message == Binding[r.op].sends
<1>0. <<>> \in Seq(Nat) /\ <<0>> \in Seq(Nat) /\ <<0, 0>> \in Seq(Nat)
  OBVIOUS
<1>1. array \in Nat
  BY SizesAssumption DEF TypeOK, NoArray
<1>2. <<array>> \in Seq(Nat)
  BY <1>1
<1>3. ManagerReplies(message) \in Seq(Nat)
  <2> HIDE DEF message
  <2> QED BY <1>0, <1>2, Zenon DEF ManagerReplies
<1>4. ASSUME NEW o \in Objects PROVE ObjectReplies(message, o) \in Seq(Nat)
  <2> HIDE DEF message
  <2>1. (IF canvas[o] = "none" THEN <<0>> ELSE <<0, 0>>) \in Seq(Nat)
    BY <1>0
  <2>2. (IF canvas[o] = "top" THEN <<>> ELSE <<0>>) \in Seq(Nat)
    BY <1>0
  <2> QED BY <1>0, <2>1, <2>2, Zenon DEF ObjectReplies
<1>5. [i \in 1..Cardinality(listeners) |-> 0] \in Seq(Nat)
  <2>1. IsFiniteSet(listeners)
    BY ObjectsAssumption, FS_Subset DEF TypeOK
  <2>2. Cardinality(listeners) \in Nat
    BY <2>1, FS_CardinalityType
  <2> QED BY <2>2, SeqDef
<1>6. (IF r.object \in listeners THEN ObjectReplies(message, r.object) ELSE <<>>) \in Seq(Nat)
  <2>1. r.object \in listeners => r.object \in Objects
    BY DEF TypeOK
  <2> QED BY <1>0, <1>4, <2>1
<1> HIDE DEF message
<1>7. Values(r) = CASE message = "pd_get_sys_info" -> [i \in 1..Cardinality(listeners) |-> 0]
                    [] message \in OnCanvas ->
                         IF r.object \in listeners THEN ObjectReplies(message, r.object) ELSE <<>>
                    [] OTHER -> ManagerReplies(message)
  BY Zenon DEF Values, message
<1> QED BY <1>3, <1>5, <1>6, <1>7, Zenon

LEMMA CallTypes ==
    ASSUME TypeOK, NEW t \in Threads, Call(t)
    PROVE  TypeOK'
<1>1. /\ sent < MaxRequests /\ sent' = sent + 1
      /\ slips' = IF Waiting # {} THEN slips \cup {"race"} ELSE slips
      /\ UNCHANGED <<returnPipe, at, buffer, listeners, canvas, array, hostUp, embraced, own>>
  BY DEF Call, hostVars
<1>2. PICK op \in Ops : \E o \in Addressees(op) :
         /\ pipe' = Append(pipe, [id |-> sent + 1, op |-> op, object |-> o])
         /\ call' = [call EXCEPT ![t] = IF Binding[op].waits THEN sent + 1 ELSE 0]
  BY DEF Call
<1>3. PICK o \in Addressees(op) :
         /\ pipe' = Append(pipe, [id |-> sent + 1, op |-> op, object |-> o])
         /\ call' = [call EXCEPT ![t] = IF Binding[op].waits THEN sent + 1 ELSE 0]
  BY <1>2
<1>4. sent + 1 \in 1..MaxRequests
  BY <1>1, MaxRequestsAssumption DEF TypeOK
<1>5. o \in Objects \cup {NoObject}
  BY DEF Addressees
<1>6. [id |-> sent + 1, op |-> op, object |-> o] \in Request
  BY <1>4, <1>5 DEF Request
<1>7. pipe' \in Seq(Request)
  BY <1>3, <1>6, AppendProperties DEF TypeOK
<1>8. call' \in [Threads -> 0..MaxRequests]
  BY <1>3, <1>4, MaxRequestsAssumption DEF TypeOK
<1>9. slips' \subseteq Slips
  BY <1>1 DEF TypeOK, Slips
<1>10. sent' \in 0..MaxRequests
  BY <1>1, <1>4, MaxRequestsAssumption
<1> QED BY <1>1, <1>7, <1>8, <1>9, <1>10 DEF TypeOK

LEMMA ReceiveTypes ==
    ASSUME TypeOK, NEW t \in Threads, Receive(t)
    PROVE  TypeOK'
<1>1. UNCHANGED <<pipe, sent, listeners, canvas, array, hostUp, embraced>>
  BY DEF Receive, ReceiveHeader, ReceivePayload, ReceiveSplit, Return, ReturnNothing, hostVars
<1>2. /\ call' \in [Threads -> 0..MaxRequests]
      /\ own' \in [Threads -> BOOLEAN]
      /\ at' \in [Threads -> {"header", "payload", "copy"}]
  <2>1. 0 \in 0..MaxRequests
    BY MaxRequestsAssumption
  <2>2. ASSUME NEW id, Returns(t, id)
        PROVE  /\ call' \in [Threads -> 0..MaxRequests]
               /\ own' \in [Threads -> BOOLEAN]
               /\ at' \in [Threads -> {"header", "payload", "copy"}]
    BY <2>1, <2>2 DEF TypeOK, Returns
  <2>3. CASE Return(t) \/ ReturnNothing(t)
    BY <2>2, <2>3 DEF Return, ReturnNothing
  <2>4. CASE ReceiveHeader(t) \/ ReceivePayload(t)
    BY <2>4 DEF ReceiveHeader, ReceivePayload, TypeOK
  <2>5. CASE ReceiveSplit(t)
    BY <2>2, <2>5 DEF ReceiveSplit, TypeOK
  <2> QED BY <2>3, <2>4, <2>5 DEF Receive
<1>3. returnPipe' \in Seq(Reply) /\ buffer' \in 0..MaxRequests
  <2>1. CASE Return(t) \/ ReturnNothing(t) \/ ReceiveHeader(t)
    BY <2>1 DEF TypeOK, ReceiveHeader, Return, ReturnNothing
  <2>2. ASSUME returnPipe # <<>>
        PROVE  /\ Head(returnPipe).id \in 0..MaxRequests
               /\ Tail(returnPipe) \in Seq(Reply)
    <3>1. Head(returnPipe) \in Reply /\ Tail(returnPipe) \in Seq(Reply)
      BY <2>2, HeadTailProperties DEF TypeOK
    <3> QED BY <3>1, MaxRequestsAssumption DEF Reply
  <2>3. CASE ReceivePayload(t)
    BY <2>2, <2>3 DEF ReceivePayload
  <2>4. CASE ReceiveSplit(t)
    <3>1. 0 \in 0..MaxRequests
      BY MaxRequestsAssumption
    <3> QED BY <2>2, <2>4, <3>1 DEF ReceiveSplit, TypeOK
  <2> QED BY <2>1, <2>3, <2>4 DEF Receive
<1>4. slips' \subseteq Slips
  BY DEF TypeOK, Slips, Receive, ReceiveHeader, ReceivePayload, ReceiveSplit, Return, ReturnNothing
<1> QED BY <1>1, <1>2, <1>3, <1>4 DEF TypeOK

LEMMA DispatchTypes ==
    ASSUME TypeOK, Dispatch
    PROVE  TypeOK'
<1> DEFINE r == Head(pipe)
           values == Values(r)
           replies == [i \in 1..Len(values) |-> [id |-> r.id, value |-> values[i]]]
<1>1. /\ pipe # <<>> /\ pipe' = Tail(pipe)
      /\ returnPipe' = returnPipe \o replies
      /\ slips' = slips \cup SlipsOf(r)
      /\ UNCHANGED <<receiveVars, sent, listeners, canvas, array, hostUp, embraced, own>>
  BY DEF Dispatch, receiveVars, hostVars
<1>2. r \in Request /\ pipe' \in Seq(Request)
  BY <1>1, HeadTailProperties DEF TypeOK
<1>3. values \in Seq(Nat)
  BY <1>2, ValuesType
<1>4. SlipsOf(r) \subseteq Slips
  <2>1. SlipsOf(r) \in {{}, {"surplus"}, {"missing"}}
    BY Zenon DEF SlipsOf
  <2> QED BY <2>1 DEF Slips
<1> HIDE DEF r, values
<1>5. Len(values) \in Nat /\ \A i \in 1..Len(values) : values[i] \in Nat
  BY <1>3, LenProperties, ElementOfSeq
<1>6. replies \in Seq(Reply)
  <2>1. \A i \in 1..Len(values) : [id |-> r.id, value |-> values[i]] \in Reply
    BY <1>2, <1>5 DEF Request, Reply
  <2>2. replies \in [1..Len(values) -> Reply]
    BY <2>1
  <2> QED BY <1>5, <2>2, SeqDef
<1> HIDE DEF replies
<1>7. returnPipe' \in Seq(Reply)
  BY <1>1, <1>6, ConcatProperties DEF TypeOK
<1> QED BY <1>1, <1>2, <1>4, <1>7 DEF TypeOK, receiveVars

\* Requests and replies carry the numbers of requests that were sent, and
\* values that the host has; a request names an object that a patch may hold,
\* or nobody (the formats of ofxOfeliaMessageManager::sendMessage and
\* sendReturnValue).
THEOREM PipeTypes == Spec => []TypeOK
<1>1. Init => TypeOK
  <2> SUFFICES ASSUME Init PROVE TypeOK
    OBVIOUS
  <2>1. <<>> \in Seq(Request) /\ <<>> \in Seq(Reply)
    BY EmptySeq
  <2>2. 0 \in 0..MaxRequests
    BY MaxRequestsAssumption
  <2> QED BY <2>1, <2>2 DEF Init, TypeOK
<1>2. TypeOK /\ [Next]_vars => TypeOK'
  <2> SUFFICES ASSUME TypeOK, [Next]_vars PROVE TypeOK'
    OBVIOUS
  <2>1. CASE ArrayGetCrash \/ Embrace
    BY <2>1 DEF ArrayGetCrash, Embrace, receiveVars, TypeOK, Slips
  <2>2. CASE \E o \in Objects : EditObject(o)
    <3>1. PICK o \in Objects : EditObject(o)
      BY <2>2
    <3>2. listeners' \subseteq Objects
      BY <3>1 DEF EditObject, TypeOK
    <3> QED BY <3>1, <3>2 DEF EditObject, receiveVars, TypeOK
  <2>3. CASE EditArray
    BY <2>3 DEF EditArray, receiveVars, TypeOK
  <2>4. CASE UNCHANGED vars
    BY <2>4 DEF vars, receiveVars, hostVars, TypeOK
  <2> QED BY <2>1, <2>2, <2>3, <2>4, CallTypes, ReceiveTypes, DispatchTypes DEF Next
<1> QED BY <1>1, <1>2, PTL DEF Spec

=============================================================================
