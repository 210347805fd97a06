------------------------------ MODULE Startup -------------------------------
(***************************************************************************)
(* How the two processes come together.  The host makes its message        *)
(* manager (initialise) and binds it: four server sockets, accepted one    *)
(* after the other, and then the latch is released on which get(), called  *)
(* by every new ofelia object, waits.  The runner opens four client        *)
(* sockets, trying each a number of times.                                 *)
(*                                                                         *)
(* A socket is named by its offset from the port on the command line.  Who *)
(* calls initialise, bind and get, and who launches the runner, is outside *)
(* this repository and free.                                               *)
(***************************************************************************)
EXTENDS Naturals, Sequences, FiniteSets

CONSTANTS
    Getters,      \* threads of the host that call get()
    MaxTrials,    \* how often openConnection tries to connect: 10 in the code
    Trouble       \* whether ports may be taken and accept() may fail

ASSUME MaxTrialsAssumption == MaxTrials \in Nat \ {0}
ASSUME TroubleAssumption == Trouble \in BOOLEAN

Sockets == 0..3

\* pipe first, then returnPipe, and of each what initialise() calls the
\* send socket first.
HostOrder == <<0, 1, 2, 3>>

\* pipe first, then returnPipe, and of each the receive socket first.
RunnerOrder == <<0, 1, 2, 3>>

VARIABLES
    taken,       \* ports that another program has bound
    hostPc,      \* where the host's set-up is
    hostAt,      \* which socket of HostOrder it is at
    listening,   \* sockets that accept connections
    accepted,    \* sockets accept() has returned a connection for
    runnerPc,    \* where the runner's set-up is
    runnerAt,    \* which socket of RunnerOrder it is at
    trials,      \* failed trials at this socket
    connected,   \* sockets connect() has succeeded on
    gaveUp,      \* sockets openConnection has given up on
    isLocked,    \* the latch: Semaphore::isLocked_
    gpc,         \* where each getter is in get()
    instance,    \* the manager in the map instances: "null" or "manager"
    got,         \* what get() returned to each getter
    lost         \* history: a getter slept on when the latch was released

hostVars == <<hostPc, hostAt, listening, accepted>>
runnerVars == <<runnerPc, runnerAt, trials, connected, gaveUp>>
startupVars == <<taken, hostVars, runnerVars, isLocked, gpc, instance, got, lost>>

Sleepers == {g \in Getters : gpc[g] = "asleep"}

StartupInit ==
    /\ taken \in IF Trouble THEN SUBSET Sockets ELSE {{}}
    /\ hostPc = "off"
    /\ hostAt = 1
    /\ listening = {}
    /\ accepted = {}
    /\ runnerPc = "off"
    /\ runnerAt = 1
    /\ trials = 0
    /\ connected = {}
    /\ gaveUp = {}
    /\ isLocked = TRUE
    /\ gpc = [g \in Getters |-> "idle"]
    /\ instance = "null"
    /\ got = [g \in Getters |-> "nothing"]
    /\ lost = FALSE

-----------------------------------------------------------------------------
(* The host: ofxOfeliaMessageManager::initialise and bind *)

HostSocket == HostOrder[hostAt]

\* The constructor and the entry in the map instances.
Initialise ==
    /\ hostPc = "off"
    /\ hostPc' = "made"
    /\ instance' = "manager"
    /\ UNCHANGED <<taken, hostAt, listening, accepted, runnerVars, isLocked, gpc, got, lost>>

\* bind(port) makes the sockets and goes on to the first acceptConnection.
Bind ==
    /\ hostPc = "made"
    /\ hostPc' = "listen"
    /\ UNCHANGED <<taken, hostAt, listening, accepted, runnerVars, isLocked, gpc, instance, got, lost>>

NextSocket ==
    /\ hostAt' = hostAt + 1
    /\ hostPc' = IF hostAt = Len(HostOrder) THEN "release" ELSE "listen"

\* listen(), or its failure on a socket that could not be bound.
Listen ==
    /\ hostPc = "listen"
    /\ IF HostSocket \in taken
       THEN NextSocket /\ UNCHANGED listening
       ELSE /\ listening' = listening \cup {HostSocket}
            /\ hostPc' = "accept"
            /\ UNCHANGED hostAt
    /\ UNCHANGED <<taken, accepted, runnerVars, isLocked, gpc, instance, got, lost>>

\* accept() returns a connection, or fails.
Accept ==
    /\ hostPc = "accept"
    /\ HostSocket \in connected
    /\ \/ accepted' = accepted \cup {HostSocket}
       \/ Trouble /\ UNCHANGED accepted
    /\ NextSocket
    /\ UNCHANGED <<taken, listening, runnerVars, isLocked, gpc, instance, got, lost>>

\* Mutant: nobody is notified.
ReleaseSilently ==
    /\ hostPc = "release"
    /\ hostPc' = "up"
    /\ isLocked' = FALSE
    /\ UNCHANGED <<taken, hostAt, listening, accepted, runnerVars, gpc, instance, got, lost>>

\* Semaphore::release: notify_one wakes one of the sleepers.  Both bind()
\* results are true whatever accept() has returned.
Release ==
    /\ hostPc = "release"
    /\ hostPc' = "up"
    /\ isLocked' = FALSE
    /\ IF Sleepers = {}
       THEN UNCHANGED gpc
       ELSE \E g \in Sleepers : gpc' = [gpc EXCEPT ![g] = "acquire"]
    /\ lost' = (Cardinality(Sleepers) > 1)
    /\ UNCHANGED <<taken, hostAt, listening, accepted, runnerVars, instance, got>>

Host == Initialise \/ Bind \/ Listen \/ Accept \/ Release

-----------------------------------------------------------------------------
(* The runner: main and the constructor of its ofxOfeliaMessageManager *)

RunnerSocket == RunnerOrder[runnerAt]

Launch ==
    /\ runnerPc = "off"
    /\ runnerPc' = "connect"
    /\ UNCHANGED <<taken, hostVars, runnerAt, trials, connected, gaveUp, isLocked, gpc, instance, got, lost>>

NextClient ==
    /\ runnerAt' = runnerAt + 1
    /\ trials' = 0
    /\ runnerPc' = IF runnerAt = Len(RunnerOrder) THEN "up" ELSE "connect"

\* connect() to a listening socket succeeds before accept() is called.  On a
\* taken port it is somebody else who answers.
Connect ==
    /\ runnerPc = "connect"
    /\ RunnerSocket \in listening \cup taken
    /\ connected' = connected \cup {RunnerSocket}
    /\ NextClient
    /\ UNCHANGED <<taken, hostVars, gaveUp, isLocked, gpc, instance, got, lost>>

\* The host is on its way to the next accept().  It gets there in less time
\* than the runner sleeps between its trials, 2.75 seconds in all.
HostMoves == hostPc = "listen" \/ (hostPc = "accept" /\ HostSocket \in connected)

\* Mutant: one trial too many.
RefusedOnceMore ==
    /\ runnerPc = "connect"
    /\ RunnerSocket \notin listening
    /\ IF trials < MaxTrials
       THEN trials' = trials + 1 /\ UNCHANGED <<runnerPc, runnerAt, gaveUp>>
       ELSE /\ ~HostMoves
            /\ gaveUp' = gaveUp \cup {RunnerSocket}
            /\ NextClient
    /\ UNCHANGED <<taken, hostVars, connected, isLocked, gpc, instance, got, lost>>

\* connect() is refused: sleep and try again, or give up.
Refused ==
    /\ runnerPc = "connect"
    /\ RunnerSocket \notin listening
    /\ IF trials + 1 < MaxTrials
       THEN trials' = trials + 1 /\ UNCHANGED <<runnerPc, runnerAt, gaveUp>>
       ELSE /\ ~HostMoves
            /\ gaveUp' = gaveUp \cup {RunnerSocket}
            /\ NextClient
    /\ UNCHANGED <<taken, hostVars, connected, isLocked, gpc, instance, got, lost>>

Runner == Launch \/ Connect \/ Refused

-----------------------------------------------------------------------------
(* ofxOfeliaMessageManager::get *)

\* The first section under instancesLock finds or makes the latch.
Get(g) ==
    /\ gpc[g] = "idle"
    /\ gpc' = [gpc EXCEPT ![g] = "acquire"]
    /\ UNCHANGED <<taken, hostVars, runnerVars, isLocked, instance, got, lost>>

\* Mutant: acquire() does not wait.
AcquireAtOnce(g) ==
    /\ gpc[g] = "acquire"
    /\ gpc' = [gpc EXCEPT ![g] = "read"]
    /\ UNCHANGED <<taken, hostVars, runnerVars, isLocked, instance, got, lost>>

\* Semaphore::acquire: one look at isLocked_.
Acquire(g) ==
    /\ gpc[g] = "acquire"
    /\ gpc' = [gpc EXCEPT ![g] = IF isLocked THEN "asleep" ELSE "read"]
    /\ UNCHANGED <<taken, hostVars, runnerVars, isLocked, instance, got, lost>>

\* A condition variable may wake up for no reason.
WakeUp(g) ==
    /\ gpc[g] = "asleep"
    /\ gpc' = [gpc EXCEPT ![g] = "acquire"]
    /\ UNCHANGED <<taken, hostVars, runnerVars, isLocked, instance, got, lost>>

\* The second section under instancesLock.
Read(g) ==
    /\ gpc[g] = "read"
    /\ gpc' = [gpc EXCEPT ![g] = "done"]
    /\ got' = [got EXCEPT ![g] = instance]
    /\ UNCHANGED <<taken, hostVars, runnerVars, isLocked, instance, lost>>

-----------------------------------------------------------------------------
StartupNext ==
    \/ Host
    \/ Runner
    \/ \E g \in Getters : Get(g) \/ Acquire(g) \/ WakeUp(g) \/ Read(g)

StartupSpec == StartupInit /\ [][StartupNext]_startupVars

\* A thread that can go on does, initialise and bind are called, and the
\* runner is launched.
StartupFairness ==
    /\ WF_startupVars(Host)
    /\ WF_startupVars(Runner)
    /\ \A g \in Getters : WF_startupVars(Acquire(g)) /\ WF_startupVars(Read(g))

FairStartup == StartupSpec /\ StartupFairness

-----------------------------------------------------------------------------
(* Properties *)

\* Every variable keeps to its type.
StartupTypeOK ==
    /\ taken \subseteq Sockets
    /\ hostPc \in {"off", "made", "listen", "accept", "release", "up"}
    /\ hostAt \in 1..(Len(HostOrder) + 1)
    /\ listening \subseteq Sockets
    /\ accepted \subseteq Sockets
    /\ runnerPc \in {"off", "connect", "up"}
    /\ runnerAt \in 1..(Len(RunnerOrder) + 1)
    /\ trials \in 0..(MaxTrials - 1)
    /\ connected \subseteq Sockets
    /\ gaveUp \subseteq Sockets
    /\ isLocked \in BOOLEAN
    /\ gpc \in [Getters -> {"idle", "acquire", "asleep", "read", "done"}]
    /\ instance \in {"null", "manager"}
    /\ got \in [Getters -> {"nothing", "null", "manager"}]
    /\ lost \in BOOLEAN

\* get() never returns before bind() is through with all four sockets, and
\* then it returns the manager (Semaphore, get and bind).
GetAfterBind ==
    \A g \in Getters : gpc[g] = "done" => hostPc = "up" /\ got[g] = "manager"

\* Every get() returns, unless the runner had given up on a socket or more
\* than one thread slept on the latch when it was released.
GetReturns ==
    \A g \in Getters : gpc[g] = "acquire" ~> (gpc[g] = "done" \/ gaveUp # {} \/ lost)
=============================================================================
