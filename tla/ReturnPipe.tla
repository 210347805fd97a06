----------------------------- MODULE ReturnPipe -----------------------------
(***************************************************************************)
(* Lua calls that need a value from Pd.  A binding of the runner           *)
(* (ofxOfeliaPdBindings.h) sends a request over the pipe and, if it wants  *)
(* a value, takes the next message of the return pipe for its answer.  On  *)
(* the host the timer thread hands the request to every listener: the      *)
(* message manager first, then the ofelia objects, each of which may reply *)
(* any number of times.  Nothing in a reply says which request it answers. *)
(*                                                                         *)
(* The pipe of the requests is the FIFO channel that TcpFraming            *)
(* implements, and so is the return pipe for the host.  At its other end   *)
(* any thread that wants a value is in receive(), without a lock: it takes *)
(* the length of a reply, then its bytes into a buffer that all threads    *)
(* share, and then copies them.  What a handler does to the patch beyond   *)
(* replying is left out.                                                   *)
(***************************************************************************)
EXTENDS Naturals, Sequences, FiniteSets

CONSTANTS
    Threads,         \* the runner's threads that run Lua: main, clocks
    Objects,         \* the ofelia objects a patch may hold
    Ops,             \* the bindings that Lua code calls
    Sizes,           \* sizes of the array that requests name
    MaxRequests,     \* bound: how many requests are sent
    Edits            \* whether Pd may free objects and the array meanwhile

NoArray == 0
NoObject == "manager"

ASSUME ObjectsAssumption == IsFiniteSet(Objects)
ASSUME SizesAssumption == Sizes \subseteq Nat \ {NoArray}
ASSUME MaxRequestsAssumption == MaxRequests \in Nat
ASSUME EditsAssumption == Edits \in BOOLEAN

(***************************************************************************)
(* The bindings: the message each one sends and whether it then waits.     *)
(* getDollarZero and makeFileName ask for the directory, and setSize asks  *)
(* for the size.                                                           *)
(***************************************************************************)
Binding == [
    value         |-> [sends |-> "pd_value_get",         waits |-> TRUE],
    setValue      |-> [sends |-> "pd_value_set",         waits |-> FALSE],
    get           |-> [sends |-> "pd_array_get",         waits |-> TRUE],
    getSize       |-> [sends |-> "pd_array_get_size",    waits |-> TRUE],
    setSize       |-> [sends |-> "pd_array_get_size",    waits |-> FALSE],
    getDollarZero |-> [sends |-> "canvas_get_dir",       waits |-> TRUE],
    getName       |-> [sends |-> "canvas_get_name",      waits |-> TRUE],
    getIndex      |-> [sends |-> "canvas_get_index",     waits |-> TRUE],
    getArgs       |-> [sends |-> "canvas_get_args",      waits |-> TRUE],
    setArgs       |-> [sends |-> "canvas_set_args",      waits |-> FALSE],
    getPosition   |-> [sends |-> "canvas_get_position",  waits |-> TRUE],
    getDir        |-> [sends |-> "canvas_get_dir",       waits |-> TRUE],
    makeFileName  |-> [sends |-> "canvas_get_dir",       waits |-> TRUE],
    sysInfo       |-> [sends |-> "pd_get_sys_info",      waits |-> TRUE],
    realizeDollar |-> [sends |-> "canvas_realise_dollar", waits |-> TRUE]]

ASSUME OpsAssumption == Ops \subseteq DOMAIN Binding

OnCanvas == {"canvas_get_dir", "canvas_get_name", "canvas_get_index", "canvas_get_args",
             "canvas_set_args", "canvas_get_position"}

VARIABLES
    pipe,        \* requests on their way to the host
    returnPipe,  \* replies on their way to the runner
    call,        \* the request each thread waits for an answer to, 0 if none
    at,          \* what it does next in receive(): take a header, take a
                 \* payload, or copy the buffer
    buffer,      \* the buffer of the return pipe: the request whose answer is
                 \* in it, 0 for bytes that are no answer
    sent,        \* how many requests have been sent
    listeners,   \* the ofelia objects registered with the message manager
    canvas,      \* where each object sits: nowhere, in a top-level patch, in a subpatch
    array,       \* the size of the array, NoArray if there is none
    hostUp,      \* the host process has not crashed
    embraced,    \* the timer thread and Pd wait for each other's locks
    own,         \* history: the last value that each thread got answered its
                 \* own request
    slips        \* history: which of Slips have happened

hostVars == <<listeners, canvas, array, hostUp, embraced>>
receiveVars == <<call, at, buffer>>
vars == <<pipe, returnPipe, receiveVars, sent, hostVars, own, slips>>

(***************************************************************************)
(* What can put requests and replies out of step.                          *)
(***************************************************************************)
Slips == {"surplus",    \* a request got more replies than its sender takes
          "missing",    \* ... or fewer
          "race",       \* a request sent while another thread waits
          "split",      \* two threads each took a part of a reply
          "crash"}      \* the host went down

Request == [id : 1..MaxRequests, op : Ops, object : Objects \cup {NoObject}]
Reply == [id : 1..MaxRequests, value : Nat]

Waiting == {t \in Threads : call[t] # 0}

Init ==
    /\ pipe = <<>>
    /\ returnPipe = <<>>
    /\ call = [t \in Threads |-> 0]
    /\ at = [t \in Threads |-> "header"]
    /\ buffer = 0
    /\ sent = 0
    /\ listeners = Objects
    /\ canvas \in [Objects -> {"none", "top", "sub"}]
    /\ array \in Sizes \cup {NoArray}
    /\ hostUp = TRUE
    /\ embraced = FALSE
    /\ own = [t \in Threads |-> TRUE]
    /\ slips = {}

-----------------------------------------------------------------------------
(* The runner *)

\* The objects a request may name: canvas requests carry an object's id.
Addressees(op) == IF Binding[op].sends \in OnCanvas THEN Objects ELSE {NoObject}

\* A binding sends its message, waitForReturnValue follows if it wants a value.
Call(t) ==
    /\ call[t] = 0
    /\ sent < MaxRequests
    /\ sent' = sent + 1
    /\ \E op \in Ops : \E o \in Addressees(op) :
        /\ pipe' = Append(pipe, [id |-> sent + 1, op |-> op, object |-> o])
        /\ call' = [call EXCEPT ![t] = IF Binding[op].waits THEN sent + 1 ELSE 0]
    /\ slips' = IF Waiting # {} THEN slips \cup {"race"} ELSE slips
    /\ UNCHANGED <<returnPipe, at, buffer, hostVars, own>>

\* Threads that have the header of the reply whose payload comes next.
Inside == {t \in Threads : at[t] = "payload"}

\* Bytes may be taken for what they are not.
OutOfStep(t) == Inside \ {t} # {} \/ "split" \in slips

\* receive() returns; id is the request that the bytes it returns answer.
Returns(t, id) ==
    /\ call' = [call EXCEPT ![t] = 0]
    /\ at' = [at EXCEPT ![t] = "header"]
    /\ own' = [own EXCEPT ![t] = (id = call[t])]

\* receiveData: the first recv().
ReceiveHeader(t) ==
    /\ call[t] # 0
    /\ at[t] = "header"
    /\ returnPipe # <<>>
    /\ ~OutOfStep(t)
    /\ at' = [at EXCEPT ![t] = "payload"]
    /\ UNCHANGED <<pipe, returnPipe, call, buffer, sent, hostVars, own, slips>>

\* Mutant: all there is is taken for the payload.
ReceivePayloadFlush(t) ==
    /\ at[t] = "payload"
    /\ returnPipe # <<>>
    /\ ~OutOfStep(t)
    /\ buffer' = Head(returnPipe).id
    /\ returnPipe' = <<>>
    /\ at' = [at EXCEPT ![t] = "copy"]
    /\ UNCHANGED <<pipe, call, sent, hostVars, own, slips>>

\* The loop over the payload.
ReceivePayload(t) ==
    /\ at[t] = "payload"
    /\ returnPipe # <<>>
    /\ ~OutOfStep(t)
    /\ buffer' = Head(returnPipe).id
    /\ returnPipe' = Tail(returnPipe)
    /\ at' = [at EXCEPT ![t] = "copy"]
    /\ UNCHANGED <<pipe, call, sent, hostVars, own, slips>>

\* A thread takes bytes while another one is inside a reply, or after that has
\* happened: what it takes for a length is some number, and what it takes for
\* a payload some part of the bytes that are there.
ReceiveSplit(t) ==
    /\ call[t] # 0
    /\ at[t] # "copy"
    /\ returnPipe # <<>>
    /\ OutOfStep(t)
    /\ slips' = slips \cup {"split"}
    /\ returnPipe' \in {returnPipe, Tail(returnPipe)}
    /\ \/ /\ at' = [at EXCEPT ![t] = "payload"]
          /\ UNCHANGED <<call, buffer, own>>
       \/ /\ at[t] = "payload"
          /\ at' = [at EXCEPT ![t] = "copy"]
          /\ buffer' = 0
          /\ UNCHANGED <<call, own>>
       \/ /\ at[t] = "header"
          /\ Returns(t, 0)
          /\ UNCHANGED buffer
    /\ UNCHANGED <<pipe, sent, hostVars>>

\* std::string(buffer.data(), receivedLength); a thread that is late finds what
\* another one has received since.
Return(t) ==
    /\ at[t] = "copy"
    /\ Returns(t, buffer)
    /\ UNCHANGED <<pipe, returnPipe, buffer, sent, hostVars, slips>>

\* Mutant: the receive timeout of TcpSocket's constructor takes effect.
ReturnTimeout(t) ==
    /\ call[t] # 0
    /\ at[t] # "copy"
    /\ returnPipe = <<>>
    /\ Returns(t, 0)
    /\ UNCHANGED <<pipe, returnPipe, buffer, sent, hostVars, slips>>

\* With the host gone receive() returns an empty string, which is parsed all
\* the same.
ReturnNothing(t) ==
    /\ call[t] # 0
    /\ at[t] # "copy"
    /\ returnPipe = <<>>
    /\ ~hostUp
    /\ Returns(t, 0)
    /\ UNCHANGED <<pipe, returnPipe, buffer, sent, hostVars, slips>>

Receive(t) ==
    \/ ReceiveHeader(t) \/ ReceivePayload(t) \/ ReceiveSplit(t)
    \/ Return(t) \/ ReturnNothing(t)

-----------------------------------------------------------------------------
(* The host *)

\* Mutant: the size of an array there is not is -1.
ManagerRepliesMinusOne(message) ==
    CASE message \in {"pd_value_get", "pd_array_get"} -> <<0>>
      [] message = "pd_array_get_size" -> IF array # NoArray THEN <<array>> ELSE <<0 - 1>>
      [] OTHER -> <<>>

\* ofxOfeliaMessageManager::receiveMessage: the values it replies with.
ManagerReplies(message) ==
    CASE message = "pd_value_get" -> <<0>>
      [] message = "pd_array_get" -> <<0>>
      [] message = "pd_array_get_size" /\ array # NoArray -> <<array>>
      [] OTHER -> <<>>

\* ofxOfeliaLua::receiveMessage of the object o, for a request that names it.
\* canvas_get_index runs on into canvas_get_position, which replies again, and
\* canvas_get_args of a patch without a binbuf returns at once.
ObjectReplies(message, o) ==
    CASE message \in {"canvas_get_dir", "canvas_get_name", "canvas_get_position"} -> <<0>>
      [] message = "canvas_get_index" -> IF canvas[o] = "none" THEN <<0>> ELSE <<0, 0>>
      [] message = "canvas_get_args" -> IF canvas[o] = "top" THEN <<>> ELSE <<0>>
      [] OTHER -> <<>>

\* All replies to a request.  pd_get_sys_info names no object, so that every
\* listener replies to it.
Values(r) ==
    LET message == Binding[r.op].sends
        listens == r.object \in listeners
    IN  CASE message = "pd_get_sys_info" -> [i \in 1..Cardinality(listeners) |-> 0]
          [] message \in OnCanvas -> IF listens THEN ObjectReplies(message, r.object) ELSE <<>>
          [] OTHER -> ManagerReplies(message)

Expected(r) == IF Binding[r.op].waits THEN 1 ELSE 0

SlipsOf(r) ==
    LET n == Len(Values(r))
    IN  CASE n = Expected(r) -> {}
          [] n > Expected(r) -> {"surplus"}
          [] OTHER -> {"missing"}

\* The messages that the manager handles under Pd's lock.
UnderPdLock == {"pd_value_get", "pd_value_set", "pd_array_get", "pd_array_get_size"}

\* Pd makes or frees an ofelia object: it holds its lock and waits for
\* listenerLock, which the timer thread holds while it waits for Pd's lock.
Embrace ==
    /\ Edits
    /\ hostUp
    /\ ~embraced
    /\ pipe # <<>>
    /\ Binding[Head(pipe).op].sends \in UnderPdLock
    /\ embraced' = TRUE
    /\ UNCHANGED <<pipe, returnPipe, receiveVars, sent, listeners, canvas, array, hostUp, own, slips>>

\* One turn of timerCallback's loop: the request goes to all listeners
\* under listenerLock.
Dispatch ==
    /\ hostUp
    /\ ~embraced
    /\ pipe # <<>>
    /\ LET r == Head(pipe)
           values == Values(r)
       IN  /\ returnPipe' = returnPipe \o
                [i \in 1..Len(values) |-> [id |-> r.id, value |-> values[i]]]
           /\ slips' = slips \cup SlipsOf(r)
    /\ pipe' = Tail(pipe)
    /\ UNCHANGED <<receiveVars, sent, hostVars, own>>

\* pd_array_get of an array that exists assigns to the elements of an empty
\* vector.
ArrayGetCrash ==
    /\ hostUp
    /\ ~embraced
    /\ pipe # <<>>
    /\ Binding[Head(pipe).op].sends = "pd_array_get"
    /\ array # NoArray
    /\ hostUp' = FALSE
    /\ slips' = slips \cup {"crash"}
    /\ UNCHANGED <<pipe, returnPipe, receiveVars, sent, listeners, canvas, array, embraced, own>>

\* Pd frees an ofelia object (removeListener) or makes one (addListener).
EditObject(o) ==
    /\ Edits
    /\ hostUp
    /\ ~embraced
    /\ listeners' = IF o \in listeners THEN listeners \ {o} ELSE listeners \cup {o}
    /\ UNCHANGED <<pipe, returnPipe, receiveVars, sent, canvas, array, hostUp, embraced, own, slips>>

\* Pd makes, resizes or deletes the array.
EditArray ==
    /\ Edits
    /\ hostUp
    /\ ~embraced
    /\ array' \in (Sizes \cup {NoArray}) \ {array}
    /\ UNCHANGED <<pipe, returnPipe, receiveVars, sent, listeners, canvas, hostUp, embraced, own, slips>>

-----------------------------------------------------------------------------
Next ==
    \/ \E t \in Threads : Call(t) \/ Receive(t)
    \/ Dispatch
    \/ ArrayGetCrash
    \/ Embrace
    \/ \E o \in Objects : EditObject(o)
    \/ EditArray

Spec == Init /\ [][Next]_vars

\* The timer thread keeps polling and a thread in receive() goes on.
Fairness == WF_vars(Dispatch) /\ \A t \in Threads : WF_vars(Receive(t))

FairSpec == Spec /\ Fairness

-----------------------------------------------------------------------------
(* Properties *)

\* Every variable keeps to its type.
TypeOK ==
    /\ pipe \in Seq(Request)
    /\ returnPipe \in Seq(Reply)
    /\ call \in [Threads -> 0..MaxRequests]
    /\ at \in [Threads -> {"header", "payload", "copy"}]
    /\ buffer \in 0..MaxRequests
    /\ sent \in 0..MaxRequests
    /\ listeners \subseteq Objects
    /\ canvas \in [Objects -> {"none", "top", "sub"}]
    /\ array \in Sizes \cup {NoArray}
    /\ hostUp \in BOOLEAN
    /\ embraced \in BOOLEAN
    /\ own \in [Threads -> BOOLEAN]
    /\ slips \subseteq Slips

\* As long as every request was answered by as many replies as its binding
\* takes, and no two threads waited at a time, each call returned the answer
\* to its own request (waitForReturnValue has nothing else to go by).
OwnAnswer == slips = {} => \A t \in Threads : own[t]

\* A call returns, unless some request has gone unanswered, two threads have
\* each taken a part of a reply, or the host's two threads wait for each other.
CallsReturn ==
    \A t \in Threads :
        call[t] # 0 ~>
            (call[t] = 0 \/ slips \cap {"missing", "crash", "split"} # {} \/ embraced)
=============================================================================
