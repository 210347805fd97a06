----------------------------- MODULE TimerThread ----------------------------
(***************************************************************************)
(* The timer thread of the host's message manager, from startTimer (called *)
(* by bind) to the manager's destruction.  The thread runs timerCallback   *)
(* under callbackLock, and timerCallback receives and dispatches messages  *)
(* until receive() returns nothing.  A message is dispatched under         *)
(* listenerLock, and most handlers of the manager take Pd's lock there.    *)
(* The destructor of the derived class sends ofx_quit; the streams and the *)
(* list of listeners are destroyed; only then does the destructor of the   *)
(* base class stop the thread.                                             *)
(***************************************************************************)
EXTENDS Naturals

CONSTANT
    MaxMessages      \* bound: how many messages the runner sends

ASSUME MaxMessagesAssumption == MaxMessages \in Nat

VARIABLES
    tpc,             \* where the timer thread is
    running,         \* TimerThread::running
    callbackLock,    \* who holds it
    sysLock,         \* who holds the lock of Pd; "pd_waits" if it is Pd, which
                     \* waits for listenerLock
    dpc,             \* where the thread that binds and destroys is
    members,         \* the manager's streams and listeners exist
    blocked,         \* the streams went while the thread was inside recv()
    peer,            \* the runner: up, told to quit, or its connection closed
    sent,            \* messages the runner has sent
    dispatched,      \* messages handed to the listeners
    fate,            \* "fine", or how the host process came to its end
    caught           \* history: stop() took callbackLock from a thread about
                     \* to take it

vars == <<tpc, running, callbackLock, sysLock, dpc, members, blocked, peer, sent, dispatched, fate, caught>>

Init ==
    /\ tpc = "none"
    /\ running = FALSE
    /\ callbackLock = "free"
    /\ sysLock = "free"
    /\ dpc = "made"
    /\ members = TRUE
    /\ blocked = FALSE
    /\ peer = "up"
    /\ sent = 0
    /\ dispatched = 0
    /\ fate = "fine"
    /\ caught = FALSE

-----------------------------------------------------------------------------
(* The timer thread: the lambda in startTimer, and timerCallback *)

\* while (running)
Check ==
    /\ fate = "fine"
    /\ tpc = "check"
    /\ tpc' = IF running THEN "lock" ELSE "exited"
    /\ UNCHANGED <<running, callbackLock, sysLock, dpc, members, blocked, peer, sent, dispatched, fate, caught>>

Lock ==
    /\ fate = "fine"
    /\ tpc = "lock"
    /\ callbackLock = "free"
    /\ callbackLock' = "timer"
    /\ tpc' = "receive"
    /\ UNCHANGED <<running, sysLock, dpc, members, blocked, peer, sent, dispatched, fate, caught>>

\* The thread holds listenerLock while it hands a message on.
inDispatch == {"dispatch", "sys_lock"}

\* Mutant: the last message is received again.
ReceiveAgain ==
    /\ fate = "fine"
    /\ tpc = "receive"
    /\ members
    /\ sent > 0
    /\ tpc' \in inDispatch
    /\ UNCHANGED <<running, callbackLock, sysLock, dpc, members, blocked, peer, sent, dispatched, fate, caught>>

\* pipe.receive() returns a message, and the thread takes listenerLock.  The
\* manager's handler goes on to sys_lock() for every message into the patch and
\* every request; the objects' handlers and pd_log do without.
Receive ==
    /\ fate = "fine"
    /\ tpc = "receive"
    /\ members
    /\ dispatched < sent
    /\ tpc' \in inDispatch
    /\ UNCHANGED <<running, callbackLock, sysLock, dpc, members, blocked, peer, sent, dispatched, fate, caught>>

\* Mutant: timerCallback returns after one message, past the unlock.
DispatchAndLeave ==
    /\ fate = "fine"
    /\ tpc = "dispatch" \/ (tpc = "sys_lock" /\ sysLock = "free")
    /\ dispatched' = dispatched + 1
    /\ tpc' = "check"
    /\ UNCHANGED <<running, callbackLock, sysLock, dpc, members, blocked, peer, sent, fate, caught>>

\* The message has gone to every listener, as soon as Pd's lock is free if a
\* handler needs it.  The list may be destroyed under the loop.
Dispatch ==
    /\ fate = "fine"
    /\ tpc = "dispatch" \/ (tpc = "sys_lock" /\ sysLock = "free")
    /\ dispatched' = dispatched + 1
    /\ tpc' = "receive"
    /\ fate' \in {"fine"} \cup (IF members THEN {} ELSE {"used_destroyed"})
    /\ UNCHANGED <<running, callbackLock, sysLock, dpc, members, blocked, peer, sent, caught>>

\* Mutant: the lock is kept when there is nothing to do.
ReceiveNothingKeepLock ==
    /\ fate = "fine"
    /\ tpc = "receive"
    /\ members
    /\ dispatched = sent
    /\ peer = "closed"
    /\ tpc' = "check"
    /\ UNCHANGED <<running, callbackLock, sysLock, dpc, members, blocked, peer, sent, dispatched, fate, caught>>

\* pipe.receive() returns nothing once the runner's side is closed, and the
\* thread unlocks and sleeps.
ReceiveNothing ==
    /\ fate = "fine"
    /\ tpc = "receive"
    /\ members
    /\ dispatched = sent
    /\ peer = "closed"
    /\ callbackLock' = "free"
    /\ tpc' = "check"
    /\ UNCHANGED <<running, sysLock, dpc, members, blocked, peer, sent, dispatched, fate, caught>>

\* The streams are gone: receive() fails on a closed descriptor, or the
\* memory has been put to another use.  A recv() that was under way when the
\* descriptor was closed may still wait for the runner.
ReceiveFromNothing ==
    /\ fate = "fine"
    /\ tpc = "receive"
    /\ ~members
    /\ blocked => dispatched < sent \/ peer = "closed"
    /\ \/ /\ callbackLock' = "free"
          /\ tpc' = "check"
          /\ UNCHANGED fate
       \/ /\ fate' = "used_destroyed"
          /\ UNCHANGED <<callbackLock, tpc>>
    /\ UNCHANGED <<running, sysLock, dpc, members, blocked, peer, sent, dispatched, caught>>

Timer == Check \/ Lock \/ Receive \/ Dispatch \/ ReceiveNothing \/ ReceiveFromNothing

-----------------------------------------------------------------------------
(* Pd's threads *)

pdKeeps == <<tpc, running, callbackLock, dpc, members, blocked, peer, sent, dispatched, fate, caught>>

PdEnter ==
    /\ fate = "fine"
    /\ sysLock = "free"
    /\ sysLock' = "pd"
    /\ UNCHANGED pdKeeps

PdLeave ==
    /\ fate = "fine"
    /\ sysLock = "pd"
    /\ sysLock' = "free"
    /\ UNCHANGED pdKeeps

\* The patch makes or frees an ofelia object: addListener or freeMethod takes
\* listenerLock.
PdEdits ==
    /\ fate = "fine"
    /\ sysLock = "pd"
    /\ members
    /\ sysLock' = "pd_waits"
    /\ UNCHANGED pdKeeps

PdGoesOn ==
    /\ fate = "fine"
    /\ sysLock = "pd_waits"
    /\ tpc \notin inDispatch
    /\ sysLock' = "pd"
    /\ UNCHANGED pdKeeps

Pd == PdEnter \/ PdLeave \/ PdEdits \/ PdGoesOn

-----------------------------------------------------------------------------
(* bind's startTimer and the destructors *)

StartTimer ==
    /\ fate = "fine"
    /\ dpc = "made"
    /\ ~running
    /\ running' = TRUE
    /\ tpc' = "check"
    /\ dpc' = "bound"
    /\ UNCHANGED <<callbackLock, sysLock, members, blocked, peer, sent, dispatched, fate, caught>>

\* ~ofxOfeliaMessageManager sends ofx_quit to the runner of a bound manager.
TellRunner ==
    /\ dpc = "bound"
    /\ dpc' = "members"
    /\ peer' = IF peer = "up" THEN "told" ELSE peer
    /\ UNCHANGED fate

\* The streams of a manager that was never bound have no sockets: a null
\* pointer is dereferenced.  And send() to a runner that has ended raises a
\* signal, which ends the process unless somebody has turned it off.
FailToTell ==
    /\ fate' = IF dpc = "made" THEN "null_pointer" ELSE "broken_pipe"
    /\ dpc = "bound" => peer = "closed"
    /\ UNCHANGED <<dpc, peer>>

\* Who destroys the manager may hold Pd's lock meanwhile.
Quit ==
    /\ fate = "fine"
    /\ dpc \in {"made", "bound"}
    /\ TellRunner \/ FailToTell
    /\ sysLock' \in {sysLock} \cup (IF sysLock = "free" THEN {"destroyer"} ELSE {})
    /\ UNCHANGED <<tpc, running, callbackLock, members, blocked, sent, dispatched, caught>>

\* close() does not wake a thread that is inside recv() everywhere.
DestroyMembers ==
    /\ fate = "fine"
    /\ dpc = "members"
    /\ members' = FALSE
    /\ dpc' = "stop"
    /\ blocked' \in {FALSE, tpc = "receive" /\ dispatched = sent /\ peer # "closed"}
    /\ UNCHANGED <<tpc, running, callbackLock, sysLock, peer, sent, dispatched, fate, caught>>

\* Mutant: stop() leaves running as it is.
LeaveRunning ==
    /\ fate = "fine"
    /\ dpc = "stop"
    /\ dpc' = "stop_lock"
    /\ UNCHANGED <<tpc, running, callbackLock, sysLock, members, blocked, peer, sent, dispatched, fate, caught>>

\* ~TimerThread calls stop: running = false.
ClearRunning ==
    /\ fate = "fine"
    /\ dpc = "stop"
    /\ running' = FALSE
    /\ dpc' = "stop_lock"
    /\ UNCHANGED <<tpc, callbackLock, sysLock, members, blocked, peer, sent, dispatched, fate, caught>>

\* Mutant: stop() joins without taking the lock.
StopWithoutLock ==
    /\ fate = "fine"
    /\ dpc = "stop_lock"
    /\ dpc' = "join"
    /\ UNCHANGED <<tpc, running, callbackLock, sysLock, members, blocked, peer, sent, dispatched, fate, caught>>

\* callbackLock.lock() in stop: the callback that runs is waited for.
StopLock ==
    /\ fate = "fine"
    /\ dpc = "stop_lock"
    /\ callbackLock = "free"
    /\ callbackLock' = "stop"
    /\ dpc' = "join"
    /\ caught' = (tpc = "lock")
    /\ UNCHANGED <<tpc, running, sysLock, members, blocked, peer, sent, dispatched, fate>>

\* timerThread.join() returns, and the locks are given back.
Join ==
    /\ fate = "fine"
    /\ dpc = "join"
    /\ tpc = "exited"
    /\ callbackLock' = "free"
    /\ sysLock' = IF sysLock = "destroyer" THEN "free" ELSE sysLock
    /\ dpc' = "gone"
    /\ UNCHANGED <<tpc, running, members, blocked, peer, sent, dispatched, fate, caught>>

Destroy == DestroyMembers \/ ClearRunning \/ StopLock \/ Join

-----------------------------------------------------------------------------
(* The runner *)

RunnerSends ==
    /\ peer \in {"up", "told"}
    /\ sent < MaxMessages
    /\ sent' = sent + 1
    /\ UNCHANGED <<tpc, running, callbackLock, sysLock, dpc, members, blocked, peer, dispatched, fate, caught>>

\* It ends when told, or for a reason of its own.
RunnerEnds ==
    /\ peer \in {"up", "told"}
    /\ peer' = "closed"
    /\ UNCHANGED <<tpc, running, callbackLock, sysLock, dpc, members, blocked, sent, dispatched, fate, caught>>

-----------------------------------------------------------------------------
Next == Timer \/ Pd \/ StartTimer \/ Quit \/ Destroy \/ RunnerSends \/ RunnerEnds

Spec == Init /\ [][Next]_vars

\* Threads that can go on do, a lock that is free again and again is got, and Pd
\* leaves its lock; a runner that was told to quit ends.
Fairness ==
    /\ SF_vars(Timer)
    /\ SF_vars(PdLeave)
    /\ WF_vars(PdGoesOn)
    /\ WF_vars(Destroy)
    /\ WF_vars(peer = "told" /\ RunnerEnds)

FairSpec == Spec /\ Fairness

-----------------------------------------------------------------------------
(* Properties *)

\* Every variable keeps to its type.
TypeOK ==
    /\ tpc \in {"none", "check", "lock", "receive", "exited"} \cup inDispatch
    /\ running \in BOOLEAN
    /\ callbackLock \in {"free", "timer", "stop"}
    /\ sysLock \in {"free", "pd", "pd_waits", "destroyer"}
    /\ dpc \in {"made", "bound", "members", "stop", "stop_lock", "join", "gone"}
    /\ members \in BOOLEAN
    /\ blocked \in BOOLEAN
    /\ peer \in {"up", "told", "closed"}
    /\ sent \in 0..MaxMessages
    /\ dispatched \in 0..sent
    /\ fate \in {"fine", "used_destroyed", "null_pointer", "broken_pipe"}
    /\ caught \in BOOLEAN

\* Once stop() waits for the thread no callback is running, and none begins
\* (callbackLock in startTimer's lambda and in stop).
NoCallbackAfterStop == dpc \in {"join", "gone"} => tpc \notin {"receive"} \cup inDispatch

\* stop() and the thread wait for each other only if stop() took the lock
\* between the thread's look at running and its lock().
DeadlockOnlyIfCaught == dpc = "join" /\ tpc = "lock" => caught

\* The thread waits for Pd's lock with listenerLock, and Pd the other way round.
Embrace == tpc = "sys_lock" /\ sysLock = "pd_waits"

\* The thread waits for Pd's lock, and who holds it waits for the thread.
HeldByDestroyer == tpc = "sys_lock" /\ sysLock = "destroyer"

\* The destruction of a bound manager comes to an end, unless stop() took the
\* lock in that window, the process crashed, or the callback that stop() waits
\* for waits for Pd's lock, which Pd or the destroying thread does not leave.
StopReturns ==
    dpc = "members" ~> (dpc = "gone" \/ caught \/ fate # "fine" \/ Embrace \/ HeldByDestroyer)

\* The thread hands on every message until the manager is destroyed, unless it
\* and Pd wait for each other's locks.
Polls ==
    \A n \in 1..MaxMessages :
        (tpc # "none" /\ sent >= n)
            ~> (dispatched >= n \/ dpc \notin {"made", "bound"} \/ fate # "fine" \/ Embrace)
=============================================================================
