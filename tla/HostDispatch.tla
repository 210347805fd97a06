---------------------------- MODULE HostDispatch ----------------------------
(***************************************************************************)
(* The two threads of the host that meet at the list of listeners.  The    *)
(* timer thread takes a message and, under listenerLock, calls every       *)
(* listener: the message manager, which takes Pd's lock for the messages   *)
(* it sends into the patch, and the ofelia objects, which take no lock.    *)
(* Pd makes and frees ofelia objects under its lock, and both enter or     *)
(* leave the list under listenerLock.                                      *)
(*                                                                         *)
(* An object is known to the runner by its address (getUniqueSym), which a *)
(* later object may get again; generations tell them apart here.           *)
(***************************************************************************)
EXTENDS Naturals, Sequences, SequencesExt

CONSTANTS
    Addresses,       \* where Pd puts ofelia objects
    Kinds,           \* the messages from the runner: {"send", "outlet"}
    Edits,           \* whether Pd makes and frees objects
    Reentry,         \* whether Pd does so in answer to a message as well
    MaxMessages,     \* bound: messages from the runner
    MaxGeneration    \* bound: objects made at an address

ASSUME AddressesAssumption == IsFiniteSet(Addresses)
ASSUME KindsAssumption == Kinds \subseteq {"send", "outlet"}
ASSUME EditsAssumption == Edits \in BOOLEAN /\ Reentry \in BOOLEAN
ASSUME BoundsAssumption == MaxMessages \in Nat /\ MaxGeneration \in Nat \ {0}

VARIABLES
    sysLock,         \* who holds Pd's lock
    listenerLock,    \* who holds listenerLock
    listeners,       \* the objects in the list, behind the manager
    object,          \* what is at each address
    generation,      \* how many objects there have been
    ppc,             \* where Pd's thread is
    here,            \* the address it is at
    tpc,             \* where the timer thread is
    message,         \* the message it is handing on
    next,            \* the listener that is called next, 0 for the manager
    hits,            \* how many objects have taken it for theirs
    toRunner,        \* objects whose script is on its way to the runner
    loaded,          \* the generation whose script the runner has run
    inbox,           \* messages from the runner
    sent,            \* how many there have been
    fate,            \* "fine", or "iterator" once the list was changed while
                     \* the timer thread goes through it
    called           \* history: the last object that took a message

locks == <<sysLock, listenerLock>>
objectVars == <<listeners, object, generation>>
pdVars == <<ppc, here>>
timerVars == <<tpc, message, next, hits>>
runnerVars == <<loaded, sent>>
vars == <<locks, objectVars, pdVars, timerVars, toRunner, runnerVars, inbox, fate, called>>

Conditions == {"none", "registered", "alive", "dismantled"}
Message == [kind : {"send", "outlet"}, address : Addresses, generation : 0..MaxGeneration]
NoCall == [condition |-> "alive", generation |-> 0, meant |-> 0]

Init ==
    /\ sysLock = "free"
    /\ listenerLock = "free"
    /\ listeners \in {SetToSeq(A) : A \in SUBSET Addresses}
    /\ object = [a \in Addresses |-> IF a \in Range(listeners) THEN "alive" ELSE "none"]
    /\ generation = [a \in Addresses |-> IF a \in Range(listeners) THEN 1 ELSE 0]
    /\ ppc = "out"
    /\ here \in Addresses
    /\ tpc = "receive"
    /\ message = [kind |-> "send", address |-> here, generation |-> 0]
    /\ next = 0
    /\ hits = 0
    /\ toRunner = <<>>
    /\ loaded = generation
    /\ inbox = <<>>
    /\ sent = 0
    /\ fate = "fine"
    /\ called = NoCall

-----------------------------------------------------------------------------
(* Pd's thread *)

Enter ==
    /\ Edits
    /\ ppc = "out"
    /\ sysLock = "free"
    /\ sysLock' = "pd"
    /\ ppc' = "in"
    /\ UNCHANGED <<listenerLock, objectVars, here, timerVars, toRunner, runnerVars, inbox, fate, called>>

Leave ==
    /\ ppc = "in"
    /\ sysLock' = "free"
    /\ ppc' = "out"
    /\ UNCHANGED <<listenerLock, objectVars, here, timerVars, toRunner, runnerVars, inbox, fate, called>>

\* Mutant: the script is sent before the object is complete.
NewLoadsFirst(a) ==
    /\ ppc = "in"
    /\ object[a] = "none"
    /\ generation[a] < MaxGeneration
    /\ generation' = [generation EXCEPT ![a] = @ + 1]
    /\ toRunner' = Append(toRunner, [address |-> a, generation |-> generation[a] + 1])
    /\ here' = a
    /\ ppc' = "add"
    /\ UNCHANGED <<locks, listeners, object, timerVars, runnerVars, inbox, fate, called>>

\* newWrapper, up to the call of addListener in ofxOfeliaLua's constructor.
New(a) ==
    /\ ppc = "in"
    /\ object[a] = "none"
    /\ generation[a] < MaxGeneration
    /\ generation' = [generation EXCEPT ![a] = @ + 1]
    /\ here' = a
    /\ ppc' = "add"
    /\ UNCHANGED <<locks, listeners, object, timerVars, toRunner, runnerVars, inbox, fate, called>>

AddListener ==
    /\ ppc = "add"
    /\ listenerLock = "free"
    /\ listeners' = Append(listeners, here)
    /\ object' = [object EXCEPT ![here] = "registered"]
    /\ ppc' = "construct"
    /\ UNCHANGED <<locks, generation, here, timerVars, toRunner, runnerVars, inbox, fate, called>>

\* The rest of ofxOfeliaData's constructor, argParse, and the script that is
\* sent by doText or doArgs.
Construct ==
    /\ ppc = "construct"
    /\ object' = [object EXCEPT ![here] = "alive"]
    /\ toRunner' = Append(toRunner, [address |-> here, generation |-> generation[here]])
    /\ ppc' = "in"
    /\ UNCHANGED <<locks, listeners, generation, here, timerVars, runnerVars, inbox, fate, called>>

\* freeWrapper: freeMethod frees inlets and outlets.
Free(a) ==
    /\ ppc = "in"
    /\ object[a] = "alive"
    /\ object' = [object EXCEPT ![a] = "dismantled"]
    /\ here' = a
    /\ ppc' = "remove"
    /\ UNCHANGED <<locks, listeners, generation, timerVars, toRunner, runnerVars, inbox, fate, called>>

\* std::remove and erase, on a list that holds each object once.
Removed(l) == RemoveAt(l, CHOOSE i \in DOMAIN l : l[i] = here)

\* Mutant: removeListener without the lock.
RemoveListenerUnlocked ==
    /\ ppc = "remove"
    /\ listeners' = Removed(listeners)
    /\ object' = [object EXCEPT ![here] = "none"]
    /\ ppc' = "in"
    /\ UNCHANGED <<locks, generation, here, timerVars, toRunner, runnerVars, inbox, fate, called>>

\* Mutant: the object goes and stays in the list.
RemoveNothing ==
    /\ ppc = "remove"
    /\ listenerLock = "free"
    /\ object' = [object EXCEPT ![here] = "none"]
    /\ ppc' = "in"
    /\ UNCHANGED <<locks, listeners, generation, here, timerVars, toRunner, runnerVars, inbox, fate, called>>

\* The destructor, under listenerLock, calls removeListener.
RemoveListener ==
    /\ ppc = "remove"
    /\ listenerLock = "free"
    /\ listeners' = Removed(listeners)
    /\ object' = [object EXCEPT ![here] = "none"]
    /\ ppc' = "in"
    /\ UNCHANGED <<locks, generation, here, timerVars, toRunner, runnerVars, inbox, fate, called>>

PdStep == Leave \/ AddListener \/ Construct \/ RemoveListener

-----------------------------------------------------------------------------
(* The timer thread: timerCallback *)

\* receive() returns a message; listenerLock is taken and the loop begins.
Receive ==
    /\ fate = "fine"
    /\ tpc = "receive"
    /\ inbox # <<>>
    /\ listenerLock = "free"
    /\ listenerLock' = "timer"
    /\ message' = Head(inbox)
    /\ inbox' = Tail(inbox)
    /\ next' = 0
    /\ hits' = 0
    /\ tpc' = "loop"
    /\ UNCHANGED <<sysLock, objectVars, pdVars, toRunner, runnerVars, fate, called>>

\* What Pd may do when a message reaches the patch: nothing to the list, or
\* make or free an ofelia object in the middle of the loop over it.
Patch == fate' \in {"fine"} \cup (IF Reentry THEN {"iterator"} ELSE {})

\* The manager's receiveMessage.  A message into the patch is sent between
\* sys_lock and sys_unlock.
CallManager ==
    /\ fate = "fine"
    /\ tpc = "loop"
    /\ next = 0
    /\ IF message.kind = "send"
       THEN sysLock = "free" /\ Patch
       ELSE UNCHANGED fate
    /\ next' = 1
    /\ UNCHANGED <<locks, objectVars, pdVars, tpc, message, hits, toRunner, runnerVars, inbox, called>>

\* Mutant: no look at the identifier.
TakesAny(a) == message.kind = "outlet"

\* identifier != uid()
Takes(a) == message.kind = "outlet" /\ message.address = a

\* An object's receiveMessage: the messages to its outlets, which go into
\* the patch without Pd's lock.
CallObject ==
    /\ fate = "fine"
    /\ tpc = "loop"
    /\ next \in 1..Len(listeners)
    /\ LET a == listeners[next]
       IN  IF Takes(a)
           THEN /\ called' = [condition |-> object[a], generation |-> generation[a],
                              meant |-> message.generation]
                /\ hits' = hits + 1
                /\ Patch
           ELSE UNCHANGED <<called, hits, fate>>
    /\ next' = next + 1
    /\ UNCHANGED <<locks, objectVars, pdVars, tpc, message, toRunner, runnerVars, inbox>>

\* Mutant: the lock is not given back.
UnlockForgotten ==
    /\ fate = "fine"
    /\ tpc = "loop"
    /\ next > Len(listeners)
    /\ tpc' = "receive"
    /\ UNCHANGED <<locks, objectVars, pdVars, message, next, hits, toRunner, runnerVars, inbox, fate, called>>

Unlock ==
    /\ fate = "fine"
    /\ tpc = "loop"
    /\ next > Len(listeners)
    /\ listenerLock' = "free"
    /\ tpc' = "receive"
    /\ UNCHANGED <<sysLock, objectVars, pdVars, message, next, hits, toRunner, runnerVars, inbox, fate, called>>

Timer == Receive \/ CallManager \/ CallObject \/ Unlock

-----------------------------------------------------------------------------
(* The runner *)

\* It makes the instance and runs the script of a new object.
Load ==
    /\ toRunner # <<>>
    /\ loaded' = [loaded EXCEPT ![Head(toRunner).address] = Head(toRunner).generation]
    /\ toRunner' = Tail(toRunner)
    /\ UNCHANGED <<locks, objectVars, pdVars, timerVars, sent, inbox, fate, called>>

\* A script sends into the patch, or to the outlets of its object, which it
\* is never told the end of.
Send ==
    /\ sent < MaxMessages
    /\ sent' = sent + 1
    /\ \E k \in Kinds, a \in Addresses :
        /\ k = "outlet" => loaded[a] > 0
        /\ inbox' = Append(inbox, [kind |-> k, address |-> a, generation |-> loaded[a]])
    /\ UNCHANGED <<locks, objectVars, pdVars, timerVars, toRunner, loaded, fate, called>>

-----------------------------------------------------------------------------
Next ==
    \/ Enter
    \/ PdStep
    \/ \E a \in Addresses : New(a) \/ Free(a)
    \/ Timer
    \/ Load
    \/ Send

Spec == Init /\ [][Next]_vars

\* Threads that can go on do; Pd's thread leaves Pd's lock again and again,
\* and the timer thread gets it then.
Fairness == WF_vars(PdStep) /\ SF_vars(Timer)

FairSpec == Spec /\ Fairness

-----------------------------------------------------------------------------
(* Properties *)

\* Every variable keeps to its type.
TypeOK ==
    /\ sysLock \in {"free", "pd"}
    /\ listenerLock \in {"free", "timer"}
    /\ listeners \in Seq(Addresses)
    /\ object \in [Addresses -> Conditions]
    /\ generation \in [Addresses -> 0..MaxGeneration]
    /\ ppc \in {"out", "in", "add", "construct", "remove"}
    /\ here \in Addresses
    /\ tpc \in {"receive", "loop"}
    /\ message \in Message
    /\ next \in Nat
    /\ hits \in 0..1
    /\ toRunner \in Seq([address : Addresses, generation : 1..MaxGeneration])
    /\ loaded \in [Addresses -> 0..MaxGeneration]
    /\ inbox \in Seq(Message)
    /\ sent \in 0..MaxMessages
    /\ fate \in {"fine", "iterator"}
    /\ called \in [condition : Conditions, generation : 0..MaxGeneration,
                   meant : 0..MaxGeneration]

\* No message is handed to an object whose destructor has run, although the
\* runner goes on sending to it (removeListener and timerCallback's loop).
NoDeadObject == called.condition # "none"

\* An object that is called before its members are constructed is called with
\* a message for the one that had its address before: its own script has not
\* run yet (the constructor of ofxOfeliaLua, getUniqueSym).
HalfBuiltOnlyByReuse ==
    called.condition = "registered" => called.meant < called.generation

\* A message to an object that is in the list reaches it once, and to one
\* that is not reaches nobody, however the list has changed before.
ExactlyOnce ==
    [][tpc = "loop" /\ tpc' = "receive" /\ message.kind = "outlet" =>
        hits = IF message.address \in Range(listeners) THEN 1 ELSE 0]_vars

Handed == sent - Len(inbox) - (IF tpc = "loop" THEN 1 ELSE 0)

\* Each thread waits for the lock that the other one holds.
Embrace ==
    /\ tpc = "loop" /\ next = 0 /\ message.kind = "send"
    /\ ppc \in {"add", "remove"}

\* Every message is handed to all listeners, unless the two threads have come
\* to wait for each other's lock (listenerLock in timerCallback, sys_lock in
\* the manager's receiveMessage, listenerLock under Pd's lock in addListener
\* and removeListener) or the list was changed in the middle of the loop.
HandedOn ==
    \A n \in 1..MaxMessages : sent >= n ~> (Handed >= n \/ Embrace \/ fate = "iterator")
=============================================================================
