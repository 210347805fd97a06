--------------------------- MODULE Shutdown_proofs ---------------------------
(***************************************************************************)
(* Proofs about TimerThread and Shutdown: what callbackLock is for, that   *)
(* the composition keeps what TimerThread promises without assuming        *)
(* anything of the runner, and that the runner ends with all its work      *)
(* done.  No bound on the number of messages is used.                      *)
(***************************************************************************)
EXTENDS Shutdown, TLAPS

-----------------------------------------------------------------------------
(* The timer thread alone: type correctness, and callbackLock *)

\* Who holds callbackLock is where the two threads are.
LockInv ==
    /\ tpc \in {"receive"} \cup inDispatch <=> callbackLock = "timer"
    /\ dpc = "join" <=> callbackLock = "stop"

\* A cleared flag stays cleared, and a thread that was not caught sees it.
StopInv ==
    /\ dpc \in {"stop_lock", "join", "gone"} => ~running
    /\ dpc = "join" /\ tpc = "lock" => caught
    /\ dpc = "gone" => tpc = "exited"
    /\ dpc = "made" => tpc = "none"

\* A message that is being handed on is one that was sent.
MessageInv == tpc \in inDispatch => dispatched < sent

TimerInv == TypeOK /\ LockInv /\ StopInv /\ MessageInv

\* The initial state has no thread and no holder of the lock.
LEMMA InitInv == Init => TimerInv
<1> SUFFICES ASSUME Init PROVE TimerInv
  OBVIOUS
<1>1. TypeOK
  <2>1. sent \in 0..MaxMessages /\ dispatched \in 0..sent
    BY MaxMessagesAssumption DEF Init
  <2> QED BY <2>1, Zenon DEF Init, TypeOK
<1>2. LockInv
  BY DEF Init, LockInv, inDispatch
<1>3. StopInv
  BY DEF Init, StopInv
<1>4. MessageInv
  BY DEF Init, MessageInv, inDispatch
<1> QED BY <1>1, <1>2, <1>3, <1>4 DEF TimerInv

\* Every step of the timer thread, of the destroying thread and of the
\* runner keeps the types.
LEMMA StepType == TypeOK /\ MessageInv /\ [Next]_vars => TypeOK'
<1> SUFFICES ASSUME TypeOK, MessageInv, [Next]_vars PROVE TypeOK'
  OBVIOUS
<1> USE MaxMessagesAssumption DEF TypeOK, inDispatch
<1>1. CASE Timer
  <2>1. CASE Check \/ Lock \/ Receive \/ ReceiveNothing
    BY <2>1 DEF Check, Lock, Receive, ReceiveNothing
  <2>2. CASE Dispatch
    BY <2>2 DEF Dispatch, MessageInv
  <2>3. CASE ReceiveFromNothing
    BY <2>3 DEF ReceiveFromNothing
  <2> QED BY <1>1, <2>1, <2>2, <2>3 DEF Timer
<1>2. CASE StartTimer
  BY <1>2 DEF StartTimer
<1>3. CASE Quit
  BY <1>3 DEF Quit, TellRunner, FailToTell
<1>4. CASE Destroy
  BY <1>4 DEF Destroy, DestroyMembers, ClearRunning, StopLock, Join
<1>5. CASE RunnerSends
  BY <1>5 DEF RunnerSends
<1>6. CASE RunnerEnds
  BY <1>6 DEF RunnerEnds
<1>7. CASE Pd
  BY <1>7 DEF Pd, PdEnter, PdLeave, PdEdits, PdGoesOn, pdKeeps
<1>8. CASE UNCHANGED vars
  BY <1>8 DEF vars
<1> QED BY <1>1, <1>2, <1>3, <1>4, <1>5, <1>6, <1>7, <1>8 DEF Next

\* Every step keeps the invariant.
LEMMA StepInv == TimerInv /\ [Next]_vars => TimerInv'
<1> SUFFICES ASSUME TimerInv, [Next]_vars PROVE TimerInv'
  OBVIOUS
<1>1. TypeOK'
  BY StepType DEF TimerInv
<1>2. LockInv'
  <2> USE DEF TimerInv, TypeOK, LockInv, StopInv, inDispatch
  <2>1. CASE Timer
    BY <2>1 DEF Timer, Check, Lock, Receive, Dispatch, ReceiveNothing, ReceiveFromNothing
  <2>2. CASE StartTimer
    BY <2>2 DEF StartTimer
  <2>3. CASE Quit
    BY <2>3 DEF Quit, TellRunner, FailToTell
  <2>4. CASE Destroy
    BY <2>4 DEF Destroy, DestroyMembers, ClearRunning, StopLock, Join
  <2>5. CASE RunnerSends \/ RunnerEnds \/ Pd \/ UNCHANGED vars
    BY <2>5 DEF RunnerSends, RunnerEnds, Pd, PdEnter, PdLeave, PdEdits, PdGoesOn, pdKeeps, vars
  <2> QED BY <2>1, <2>2, <2>3, <2>4, <2>5 DEF Next
<1>3. StopInv'
  <2> USE DEF TimerInv, TypeOK, LockInv, StopInv, inDispatch
  <2>1. CASE Timer
    BY <2>1 DEF Timer, Check, Lock, Receive, Dispatch, ReceiveNothing, ReceiveFromNothing
  <2>2. CASE StartTimer
    BY <2>2 DEF StartTimer
  <2>3. CASE Quit
    BY <2>3 DEF Quit, TellRunner, FailToTell
  <2>4. CASE Destroy
    <3>1. CASE StopLock
      <4>1. ~running /\ running' = running /\ tpc' = tpc /\ dpc' = "join" /\ caught' = (tpc = "lock")
        BY <3>1 DEF StopLock
      <4>2. tpc' = "lock" => caught'
        BY <4>1, Zenon
      <4> QED BY <4>1, <4>2
    <3>2. CASE DestroyMembers
      <4>1. dpc' = "stop" /\ UNCHANGED <<tpc, running, caught>>
        BY <3>2 DEF DestroyMembers
      <4> QED BY <4>1
    <3>3. CASE ClearRunning \/ Join
      BY <3>3 DEF ClearRunning, Join
    <3> QED BY <2>4, <3>1, <3>2, <3>3 DEF Destroy
  <2>5. CASE RunnerSends \/ RunnerEnds \/ Pd \/ UNCHANGED vars
    BY <2>5 DEF RunnerSends, RunnerEnds, Pd, PdEnter, PdLeave, PdEdits, PdGoesOn, pdKeeps, vars
  <2> QED BY <2>1, <2>2, <2>3, <2>4, <2>5 DEF Next
<1>4. MessageInv'
  <2> USE DEF TimerInv, TypeOK, MessageInv, inDispatch
  <2>1. CASE Timer
    BY <2>1 DEF Timer, Check, Lock, Receive, Dispatch, ReceiveNothing, ReceiveFromNothing
  <2>2. CASE Destroy
    BY <2>2 DEF Destroy, DestroyMembers, ClearRunning, StopLock, Join
  <2>3. CASE RunnerSends
    BY <2>3 DEF RunnerSends
  <2>4. CASE StartTimer \/ Quit
    BY <2>4 DEF StartTimer, Quit
  <2>5. CASE RunnerEnds \/ Pd \/ UNCHANGED vars
    BY <2>5 DEF RunnerEnds, Pd, PdEnter, PdLeave, PdEdits, PdGoesOn, pdKeeps, vars
  <2> QED BY <2>1, <2>2, <2>3, <2>4, <2>5 DEF Next
<1> QED BY <1>1, <1>2, <1>3, <1>4 DEF TimerInv

\* The invariant holds in every reachable state.
LEMMA Invariant == Spec => []TimerInv
  BY InitInv, StepInv, PTL DEF Spec

\* Every variable keeps to its type.
THEOREM TypeCorrect == Spec => []TypeOK
<1>1. TimerInv => TypeOK
  BY DEF TimerInv
<1> QED BY <1>1, Invariant, PTL

\* stop() has waited for the callback that ran, and no other begins: the
\* promise of callbackLock in startTimer and stop.
THEOREM CallbacksEnd == Spec => []NoCallbackAfterStop
<1>1. TimerInv => NoCallbackAfterStop
  BY DEF TimerInv, LockInv, StopInv, NoCallbackAfterStop, inDispatch
<1> QED BY <1>1, Invariant, PTL

\* The deadlock of stop() and the thread has one cause only: stop() took
\* callbackLock between the thread's look at running and its lock().
THEOREM OneDeadlock == Spec => []DeadlockOnlyIfCaught
<1>1. TimerInv => DeadlockOnlyIfCaught
  BY DEF TimerInv, StopInv, DeadlockOnlyIfCaught
<1> QED BY <1>1, Invariant, PTL

-----------------------------------------------------------------------------
(* The composition *)

\* Every step of the composition is one of TimerThread, or leaves it alone.
LEMMA StepMaps == [SNext]_svars => [Next]_vars
<1> SUFFICES ASSUME [SNext]_svars PROVE [Next]_vars
  OBVIOUS
<1>1. CASE HostStep
  BY <1>1 DEF HostStep, Next
<1>2. CASE HostPosts \/ ReceiverStep \/ MainStep \/ Answered
  BY <1>2 DEF HostPosts, ReceiverStep, MainStep, Answered
<1>3. CASE HostQuits
  BY <1>3 DEF HostQuits, Next
<1>4. CASE LuaSends \/ LuaAsks
  BY <1>4 DEF LuaSends, LuaAsks, Next
<1>5. CASE RunnerExits \/ RunnerDies
  BY <1>5 DEF RunnerExits, RunnerDies, Next
<1>6. CASE UNCHANGED svars
  BY <1>6 DEF svars
<1> QED BY <1>1, <1>2, <1>3, <1>4, <1>5, <1>6 DEF SNext

\* The composition implements TimerThread, but for its fairness.
THEOREM ImplementsTimerThread == ShutdownSpec => Spec
<1>1. SInit => Init
  BY DEF SInit
<1> QED BY <1>1, StepMaps, PTL DEF ShutdownSpec, Spec

\* Whatever the runner does, no callback runs once stop() waits for the thread,
\* or begins later (callbackLock in startTimer and stop).
THEOREM CallbacksEndHere == ShutdownSpec => []NoCallbackAfterStop
  BY ImplementsTimerThread, CallbacksEnd, PTL

\* Whatever the runner does, stop() and the thread wait for each other only if
\* stop() took the lock between the thread's look at running and its lock().
THEOREM OneDeadlockHere == ShutdownSpec => []DeadlockOnlyIfCaught
  BY ImplementsTimerThread, OneDeadlock, PTL

-----------------------------------------------------------------------------
(* The runner *)

RunnerTypes ==
    /\ toRunner \in Seq(Nat)
    /\ messageQueue \in Seq(Nat)
    /\ posted \in Seq(Nat)
    /\ ran \in Seq(Nat)
    /\ held \in Nat
    /\ rpc \in {"test", "receive", "enqueue", "exited"}
    /\ shouldQuit \in BOOLEAN
    /\ exiting \in BOOLEAN
    /\ closed \in BOOLEAN

\* The message the receiving thread has taken off the pipe and not queued.
inHand == IF rpc = "enqueue" THEN 1 ELSE 0

\* Until the runner ends, what was posted is what has run, then what is queued,
\* then what the receiving thread holds, then what is on the pipe.
FlowInv ==
    LET queued == Len(ran)
        taken == queued + Len(messageQueue)
    IN  /\ Len(posted) = taken + inHand + Len(toRunner)
        /\ \A i \in 1..Len(ran) : posted[i] = ran[i]
        /\ \A i \in 1..Len(messageQueue) : posted[queued + i] = messageQueue[i]
        /\ rpc = "enqueue" => posted[taken + 1] = held
        /\ \A i \in 1..Len(toRunner) : posted[taken + inHand + i] = toRunner[i]

\* ofx_quit is the last message that is posted.
LastInv ==
    /\ dpc \in {"made", "bound"} => \A i \in 1..Len(posted) : posted[i] # 0
    /\ \A i \in 1..Len(posted) : posted[i] = 0 => i = Len(posted)

\* shouldQuit is set by the receiving thread with ofx_quit in its hands, and the
\* thread does not go back into receive().
QuitInv ==
    shouldQuit =>
        /\ rpc \in {"test", "enqueue", "exited"}
        /\ mpc # "ended" =>
              /\ Len(posted) > 0 /\ posted[Len(posted)] = 0
              /\ Len(toRunner) = 0
              /\ rpc = "enqueue" => held = 0

AllRun ==
    \A i \in 1..Len(posted) : posted[i] # 0 => i \in 1..Len(ran) /\ ran[i] = posted[i]

\* A loop that nobody closed ends because of shouldQuit, with nothing queued.
MainInv ==
    /\ exiting /\ ~closed => shouldQuit
    /\ mpc \in {"main", "join"} /\ ~closed => shouldQuit /\ AllRun
    /\ mpc = "join" => shouldQuit

ShutdownInv ==
    /\ RunnerTypes
    /\ mpc # "ended" => FlowInv
    /\ LastInv
    /\ QuitInv
    /\ MainInv

\* Nothing is posted and nothing is under way.
LEMMA InitShutdown == SInit => ShutdownInv
<1> SUFFICES ASSUME SInit PROVE ShutdownInv
  OBVIOUS
<1>1. Runner!Init
  BY DEF SInit
<1> USE <1>1 DEF Runner!Init, Runner!ofx_quit
<1>2. RunnerTypes
  <2>1. toRunner \in Seq(Nat) /\ messageQueue \in Seq(Nat) /\ posted \in Seq(Nat) /\ ran \in Seq(Nat)
    OBVIOUS
  <2>2. held \in Nat
    OBVIOUS
  <2> QED BY <2>1, <2>2, Zenon DEF RunnerTypes
<1>3. FlowInv /\ LastInv /\ QuitInv
  BY DEF FlowInv, inHand, LastInv, QuitInv
<1>4. MainInv
  BY DEF MainInv
<1> QED BY <1>2, <1>3, <1>4 DEF ShutdownInv

\* The sequences have lengths.
LEMMA Lengths ==
    ASSUME ShutdownInv
    PROVE  /\ Len(ran) \in Nat /\ Len(messageQueue) \in Nat
           /\ Len(toRunner) \in Nat /\ Len(posted) \in Nat
           /\ inHand \in 0..1
BY DEF ShutdownInv, RunnerTypes, inHand

\* The host posts a message; ofx_quit is the last one, because the destructor
\* that sends it is no longer in a state to post another.
LEMMA PostStep ==
    ASSUME ShutdownInv, NEW m \in Nat, Runner!Post(m),
           dpc \in {"made", "bound"},
           m = 0 \/ dpc' \in {"made", "bound"},
           m = 0 => dpc' \notin {"made", "bound"}
    PROVE  ShutdownInv'
<1>1. UNCHANGED <<rpc, held, shouldQuit, messageQueue, mpc, exiting, closed, ran>>
  BY DEF Runner!Post
<1>2. /\ posted' \in Seq(Nat)
      /\ Len(posted') = Len(posted) + 1
      /\ posted'[Len(posted) + 1] = m
      /\ \A i \in 1..Len(posted) : posted'[i] = posted[i]
  BY DEF Runner!Post, ShutdownInv, RunnerTypes
<1>3. /\ toRunner' \in Seq(Nat)
      /\ Len(toRunner') = Len(toRunner) + 1
      /\ toRunner'[Len(toRunner) + 1] = m
      /\ \A i \in 1..Len(toRunner) : toRunner'[i] = toRunner[i]
  BY DEF Runner!Post, ShutdownInv, RunnerTypes
<1>4. RunnerTypes'
  BY <1>1, <1>2, <1>3 DEF ShutdownInv, RunnerTypes
<1>5. \A i \in 1..Len(posted) : posted[i] # 0
  BY DEF ShutdownInv, LastInv
<1>6. mpc # "ended" => ~shouldQuit
  BY <1>5 DEF ShutdownInv, QuitInv, RunnerTypes
<1>7. ASSUME mpc' # "ended" PROVE FlowInv'
  <2>1. FlowInv /\ inHand' = inHand
    BY <1>1, <1>7 DEF ShutdownInv, inHand
  <2> DEFINE taken == Len(ran) + Len(messageQueue)
  <2>2. Len(posted) = taken + inHand + Len(toRunner)
    BY <2>1 DEF FlowInv
  <2>3. \A i \in 1..Len(ran) : posted'[i] = ran[i]
    BY <1>2, <2>1, <2>2, Lengths DEF FlowInv
  <2>4. ASSUME NEW i \in 1..Len(messageQueue) PROVE posted'[Len(ran) + i] = messageQueue[i]
    <3>1. Len(ran) + i \in 1..Len(posted)
      BY <2>2, Lengths
    <3>2. posted[Len(ran) + i] = messageQueue[i]
      BY <2>1 DEF FlowInv
    <3> QED BY <1>2, <3>1, <3>2
  <2>5. rpc = "enqueue" => posted'[taken + 1] = held
    BY <1>2, <2>1, <2>2, Lengths DEF FlowInv, inHand
  <2>6. \A i \in 1..Len(toRunner') : posted'[taken + inHand + i] = toRunner'[i]
    <3>1. ASSUME NEW i \in 1..Len(toRunner) PROVE posted'[taken + inHand + i] = toRunner'[i]
      <4>1. taken + inHand + i \in 1..Len(posted)
        BY <2>2, Lengths
      <4>2. posted[taken + inHand + i] = toRunner[i]
        BY <2>1 DEF FlowInv
      <4> QED BY <1>2, <1>3, <4>1, <4>2
    <3>2. posted'[taken + inHand + (Len(toRunner) + 1)] = toRunner'[Len(toRunner) + 1]
      <4>1. taken + inHand + (Len(toRunner) + 1) = Len(posted) + 1
        BY <2>2, Lengths
      <4> QED BY <1>2, <1>3, <4>1
    <3>3. \A i \in 1..Len(toRunner') : i \in 1..Len(toRunner) \/ i = Len(toRunner) + 1
      BY <1>3, Lengths
    <3> SUFFICES ASSUME NEW j \in 1..Len(toRunner') PROVE posted'[taken + inHand + j] = toRunner'[j]
      OBVIOUS
    <3>4. CASE j \in 1..Len(toRunner)
      BY <3>1, <3>4, Zenon
    <3>5. CASE j = Len(toRunner) + 1
      BY <3>2, <3>5, Zenon
    <3> QED BY <3>3, <3>4, <3>5
  <2>7. Len(posted') = taken + inHand + Len(toRunner')
    <3>1. taken + inHand \in Nat /\ Len(toRunner) \in Nat
      BY Lengths
    <3>2. Len(posted') = Len(posted) + 1 /\ Len(toRunner') = Len(toRunner) + 1
      BY <1>2, <1>3
    <3> QED BY <2>2, <3>1, <3>2
  <2>8. /\ ran' = ran /\ messageQueue' = messageQueue /\ rpc' = rpc /\ held' = held
        /\ inHand' = inHand
    BY <1>1, <2>1
  <2> QED BY <2>3, <2>4, <2>5, <2>6, <2>7, <2>8 DEF FlowInv
<1>8. LastInv'
  <2>1. \A i \in 1..Len(posted') : posted'[i] = 0 => i = Len(posted) + 1
    BY <1>2, <1>5, Lengths
  <2>2. m # 0 => \A i \in 1..Len(posted') : posted'[i] # 0
    BY <1>2, <2>1
  <2> QED BY <1>2, <2>1, <2>2 DEF LastInv
<1>9. QuitInv' /\ MainInv'
  BY <1>1, <1>6 DEF ShutdownInv, QuitInv, MainInv
<1> QED BY <1>4, <1>7, <1>8, <1>9 DEF ShutdownInv

\* Steps of the host that the runner does not see.
LEMMA HostKeeps ==
    ASSUME ShutdownInv, UNCHANGED runnerVars,
           dpc' \in {"made", "bound"} => dpc \in {"made", "bound"}
    PROVE  ShutdownInv'
<1> USE DEF runnerVars
<1>1. RunnerTypes' /\ (mpc' # "ended" => FlowInv')
  BY DEF ShutdownInv, RunnerTypes, FlowInv, inHand
<1>2. LastInv' /\ QuitInv' /\ MainInv'
  BY DEF ShutdownInv, LastInv, QuitInv, MainInv, AllRun
<1> QED BY <1>1, <1>2 DEF ShutdownInv

\* receive() takes the next message; if it is ofx_quit there is none behind it.
LEMMA ReceiveStep == ASSUME ShutdownInv, Runner!Receive, UNCHANGED dpc PROVE ShutdownInv'
<1>1. /\ rpc = "receive" /\ rpc' = "enqueue"
      /\ UNCHANGED <<messageQueue, mpc, exiting, closed, posted, ran>>
      /\ shouldQuit' = (shouldQuit \/ toRunner[1] = 0)
  BY DEF Runner!Receive, Runner!ofx_quit, ShutdownInv, RunnerTypes
<1>2. /\ Len(toRunner) > 0
      /\ toRunner' \in Seq(Nat)
      /\ held' \in Nat
      /\ held' = toRunner[1]
      /\ Len(toRunner') = Len(toRunner) - 1
      /\ \A i \in 1..Len(toRunner') : toRunner'[i] = toRunner[i + 1]
  BY DEF Runner!Receive, ShutdownInv, RunnerTypes
<1>3. ~shouldQuit
  BY <1>1 DEF ShutdownInv, QuitInv
<1>4. RunnerTypes'
  <2>1. shouldQuit' \in BOOLEAN
    BY <1>1
  <2> QED BY <1>1, <1>2, <2>1 DEF ShutdownInv, RunnerTypes
<1>5. ASSUME mpc # "ended"
      PROVE  /\ Len(posted) = Len(ran) + Len(messageQueue) + Len(toRunner)
             /\ \A i \in 1..Len(toRunner) :
                   posted[Len(ran) + Len(messageQueue) + i] = toRunner[i]
  BY <1>1, <1>5 DEF ShutdownInv, FlowInv, inHand, RunnerTypes
<1>6. ASSUME mpc # "ended" PROVE FlowInv'
  <2>1. FlowInv /\ inHand = 0 /\ inHand' = 1
    BY <1>1, <1>6 DEF ShutdownInv, inHand
  <2> DEFINE taken == Len(ran) + Len(messageQueue)
  <2>2. posted[taken + 1] = held'
    BY <1>2, <1>5, <1>6, Lengths
  <2>3. \A i \in 1..Len(toRunner') : posted[taken + 1 + i] = toRunner'[i]
    <3> SUFFICES ASSUME NEW i \in 1..Len(toRunner') PROVE posted[taken + 1 + i] = toRunner'[i]
      OBVIOUS
    <3>1. i + 1 \in 1..Len(toRunner) /\ taken + 1 + i = taken + (i + 1)
      BY <1>2, Lengths
    <3> QED BY <1>2, <1>5, <1>6, <3>1
  <2> QED BY <1>1, <1>2, <1>5, <1>6, <2>1, <2>2, <2>3, Lengths DEF FlowInv
<1>7. LastInv'
  BY <1>1 DEF ShutdownInv, LastInv
<1>8. QuitInv'
  <2> SUFFICES ASSUME shouldQuit', mpc # "ended"
               PROVE  Len(posted) > 0 /\ posted[Len(posted)] = 0 /\ Len(toRunner') = 0 /\ held' = 0
    BY <1>1 DEF QuitInv
  <2> DEFINE next == Len(ran) + Len(messageQueue) + 1
  <2>1. held' = 0
    BY <1>1, <1>2, <1>3
  <2>2. next \in 1..Len(posted) /\ posted[next] = 0
    <3>1. 1 \in 1..Len(toRunner) /\ toRunner[1] = 0
      BY <1>2, <2>1, Lengths
    <3>2. posted[next] = toRunner[1]
      BY <1>5, <3>1
    <3> QED BY <1>5, <3>1, <3>2, Lengths
  <2>3. next = Len(posted)
    BY <2>2 DEF ShutdownInv, LastInv
  <2>4. Len(posted) > 0 /\ Len(toRunner') = 0
    BY <1>2, <1>5, <2>2, <2>3, Lengths
  <2> QED BY <2>1, <2>2, <2>3, <2>4
<1>9. MainInv'
  BY <1>1, <1>3 DEF ShutdownInv, MainInv
<1> QED BY <1>1, <1>4, <1>6, <1>7, <1>8, <1>9 DEF ShutdownInv

\* The other steps of the receiving thread.
LEMMA ReceiverKeeps == ASSUME ShutdownInv, Runner!Receiver, UNCHANGED dpc PROVE ShutdownInv'
<1>1. CASE Runner!Receive
  BY <1>1, ReceiveStep
<1>2. CASE Runner!TestQuit \/ Runner!ReceiveNothing
  <2> USE <1>2 DEF ShutdownInv, Runner!TestQuit, Runner!ReceiveNothing
  <2>1. RunnerTypes'
    BY DEF RunnerTypes
  <2>2. mpc' # "ended" => FlowInv'
    BY DEF FlowInv, inHand
  <2>3. LastInv' /\ QuitInv' /\ MainInv'
    BY DEF LastInv, QuitInv, MainInv, AllRun
  <2> QED BY <2>1, <2>2, <2>3
<1>3. CASE Runner!Enqueue
  <2> USE <1>3 DEF ShutdownInv, Runner!Enqueue
  <2>1. /\ Len(messageQueue') = Len(messageQueue) + 1
        /\ messageQueue'[Len(messageQueue')] = held
        /\ \A i \in 1..Len(messageQueue) : messageQueue'[i] = messageQueue[i]
        /\ messageQueue' \in Seq(Nat)
    BY DEF RunnerTypes
  <2>2. RunnerTypes'
    BY <2>1 DEF RunnerTypes
  <2>3. ASSUME mpc # "ended" PROVE FlowInv'
    BY <2>1, <2>3 DEF FlowInv, inHand, RunnerTypes
  <2>4. LastInv' /\ QuitInv' /\ MainInv'
    BY DEF LastInv, QuitInv, MainInv, AllRun
  <2> QED BY <2>2, <2>3, <2>4
<1> QED BY <1>1, <1>2, <1>3 DEF Runner!Receiver

\* dequeueMessages takes the oldest message off the queue.
LEMMA DequeueStep == ASSUME ShutdownInv, Runner!Dequeue, UNCHANGED dpc PROVE ShutdownInv'
<1>1. /\ mpc = "draw" /\ mpc' \in {"draw", "lua"}
      /\ UNCHANGED <<toRunner, rpc, held, shouldQuit, exiting, closed, posted>>
  BY DEF Runner!Dequeue
<1>2. /\ Len(messageQueue) > 0
      /\ messageQueue' \in Seq(Nat)
      /\ Len(messageQueue') = Len(messageQueue) - 1
      /\ \A i \in 1..Len(messageQueue') : messageQueue'[i] = messageQueue[i + 1]
  BY DEF Runner!Dequeue, ShutdownInv, RunnerTypes
<1>3. /\ ran' \in Seq(Nat)
      /\ Len(ran') = Len(ran) + 1
      /\ ran'[Len(ran) + 1] = messageQueue[1]
      /\ \A i \in 1..Len(ran) : ran'[i] = ran[i]
  BY DEF Runner!Dequeue, ShutdownInv, RunnerTypes
<1>4. RunnerTypes'
  BY <1>1, <1>2, <1>3 DEF ShutdownInv, RunnerTypes
<1>5. FlowInv'
  <2>1. FlowInv /\ inHand' = inHand
    BY <1>1 DEF ShutdownInv, inHand
  <2>2. Len(ran') + Len(messageQueue') = Len(ran) + Len(messageQueue)
    BY <1>2, <1>3, Lengths
  <2>3. ASSUME NEW i \in 1..Len(ran') PROVE posted[i] = ran'[i]
    <3>1. CASE i \in 1..Len(ran)
      BY <1>3, <2>1, <3>1 DEF FlowInv
    <3>2. CASE i = Len(ran) + 1
      <4>1. 1 \in 1..Len(messageQueue)
        BY <1>2, Lengths
      <4>2. posted[Len(ran) + 1] = messageQueue[1]
        BY <2>1, <4>1 DEF FlowInv
      <4> QED BY <1>3, <3>2, <4>2
    <3> QED BY <1>3, <3>1, <3>2, Lengths
  <2>4. ASSUME NEW i \in 1..Len(messageQueue')
        PROVE  posted[Len(ran') + i] = messageQueue'[i]
    <3>1. i + 1 \in 1..Len(messageQueue) /\ Len(ran') + i = Len(ran) + (i + 1)
      BY <1>2, <1>3, Lengths
    <3>2. posted[Len(ran) + (i + 1)] = messageQueue[i + 1]
      BY <2>1, <3>1 DEF FlowInv
    <3> QED BY <1>2, <3>1, <3>2
  <2> QED BY <1>1, <2>1, <2>2, <2>3, <2>4 DEF FlowInv
<1>6. LastInv' /\ QuitInv'
  BY <1>1 DEF ShutdownInv, LastInv, QuitInv
<1>7. MainInv'
  BY <1>1 DEF ShutdownInv, MainInv
<1> QED BY <1>4, <1>5, <1>6, <1>7 DEF ShutdownInv

\* The loop that ends because of shouldQuit has run all but ofx_quit: the queue
\* is empty, and only ofx_quit can be in the hands of the receiving thread.
LEMMA EndFrameStep == ASSUME ShutdownInv, Runner!EndFrame, UNCHANGED dpc PROVE ShutdownInv'
<1>1. /\ mpc = "draw" /\ messageQueue = <<>>
      /\ mpc' = IF exiting THEN "main" ELSE "update"
      /\ UNCHANGED <<toRunner, rpc, held, shouldQuit, messageQueue, exiting, closed, posted, ran>>
  BY DEF Runner!EndFrame
<1>2. RunnerTypes' /\ FlowInv' /\ LastInv' /\ QuitInv'
  BY <1>1 DEF ShutdownInv, RunnerTypes, FlowInv, inHand, LastInv, QuitInv
<1>3. ASSUME shouldQuit PROVE AllRun
  <2>1. /\ Len(posted) > 0 /\ posted[Len(posted)] = 0
        /\ Len(posted) = Len(ran) + inHand
        /\ \A i \in 1..Len(ran) : posted[i] = ran[i]
    BY <1>1, <1>3, Lengths DEF ShutdownInv, QuitInv, FlowInv
  <2> QED BY <2>1, Lengths DEF AllRun
<1>4. MainInv'
  BY <1>1, <1>3 DEF ShutdownInv, MainInv, AllRun
<1> QED BY <1>2, <1>4 DEF ShutdownInv

\* The other steps of the main thread, which leave what is under way alone.
LEMMA MainKeeps ==
    ASSUME ShutdownInv, UNCHANGED dpc,
           \/ Runner!RunApp \/ Runner!LeaveMain \/ Runner!CloseWindow \/ Runner!Update
           \/ Runner!LuaReturns \/ Runner!Ask \/ Runner!GoOn
    PROVE  ShutdownInv'
<1> USE DEF Runner!RunApp, Runner!LeaveMain, Runner!CloseWindow, Runner!Update,
            Runner!LuaReturns, Runner!Ask, Runner!GoOn
<1>1. /\ UNCHANGED <<toRunner, rpc, held, shouldQuit, messageQueue, posted, ran>>
      /\ mpc # "ended"
  OBVIOUS
<1>2. exiting' \in BOOLEAN /\ closed' \in BOOLEAN
  BY DEF ShutdownInv, RunnerTypes
<1>3. RunnerTypes' /\ FlowInv' /\ LastInv' /\ QuitInv'
  BY <1>1, <1>2 DEF ShutdownInv, RunnerTypes, FlowInv, inHand, LastInv, QuitInv
<1>4. MainInv'
  BY DEF ShutdownInv, MainInv, AllRun
<1> QED BY <1>3, <1>4 DEF ShutdownInv

\* The runner's process ends.
LEMMA EndStep ==
    ASSUME ShutdownInv, UNCHANGED dpc, Runner!Exit \/ Runner!Die PROVE ShutdownInv'
<1>1. /\ UNCHANGED <<toRunner, held, shouldQuit, messageQueue, exiting, closed, posted, ran>>
      /\ mpc' = "ended" /\ rpc' = "exited"
  BY DEF Runner!Exit, Runner!Die
<1> QED BY <1>1 DEF ShutdownInv, RunnerTypes, LastInv, QuitInv, MainInv

\* The runner is told to quit by the destructor only.
ToldInv == dpc \in {"made", "bound"} => peer # "told"

\* Every step keeps that.
LEMMA ToldInvariant == Spec => []ToldInv
<1>1. Init => ToldInv
  BY DEF Init, ToldInv
<1>2. ToldInv /\ [Next]_vars => ToldInv'
  BY DEF ToldInv, Next, vars, Timer, Check, Lock, Receive, Dispatch, ReceiveNothing, ReceiveFromNothing,
         StartTimer, Quit, TellRunner, FailToTell, Destroy, DestroyMembers, ClearRunning,
         StopLock, Join, RunnerSends, RunnerEnds, Pd, PdEnter, PdLeave, PdEdits, PdGoesOn, pdKeeps
<1> QED BY <1>1, <1>2, PTL DEF Spec

\* Every step keeps the invariant.
LEMMA StepShutdown == ShutdownInv /\ ToldInv /\ [SNext]_svars => ShutdownInv'
<1> SUFFICES ASSUME ShutdownInv, ToldInv, [SNext]_svars PROVE ShutdownInv'
  OBVIOUS
<1>1. CASE HostStep
  <2>1. dpc' \in {"made", "bound"} => dpc \in {"made", "bound"}
    BY <1>1 DEF HostStep, Timer, Check, Lock, Receive, Dispatch, ReceiveNothing, ReceiveFromNothing,
                StartTimer, Destroy, DestroyMembers, ClearRunning, StopLock, Join,
                Pd, PdEnter, PdLeave, PdEdits, PdGoesOn, pdKeeps
  <2> QED BY <1>1, <2>1, HostKeeps DEF HostStep
<1>2. CASE HostPosts
  <2>1. Len(posted) + 1 \in Nat /\ Len(posted) + 1 # 0
    BY Lengths
  <2>2. dpc = "bound" /\ dpc' = dpc /\ Runner!Post(Len(posted) + 1)
    BY <1>2 DEF HostPosts, vars
  <2> QED BY <2>1, <2>2, PostStep
<1>3. CASE HostQuits
  <2>1. dpc \in {"made", "bound"}
    BY <1>3 DEF HostQuits, Quit
  <2>2. CASE peer' = "told"
    <3>1. dpc' \notin {"made", "bound"}
      BY <1>3, <2>1, <2>2 DEF HostQuits, Quit, TellRunner, FailToTell, ToldInv
    <3>2. Runner!Post(0) /\ 0 \in Nat
      BY <1>3, <2>2 DEF HostQuits, Runner!ofx_quit
    <3> QED BY <2>1, <3>1, <3>2, PostStep
  <2>3. CASE peer' # "told"
    BY <1>3, <2>1, <2>3, HostKeeps DEF HostQuits
  <2> QED BY <2>2, <2>3
<1>4. CASE ReceiverStep
  BY <1>4, ReceiverKeeps DEF ReceiverStep, vars
<1>5. CASE MainStep \/ LuaAsks \/ Answered
  <2>1. dpc' = dpc
    BY <1>5 DEF MainStep, LuaAsks, Answered, RunnerSends, vars
  <2> QED BY <1>5, <2>1, DequeueStep, EndFrameStep, MainKeeps
          DEF MainStep, LuaAsks, Answered, Runner!Main, Runner!AnswerNothing
<1>6. CASE LuaSends
  BY <1>6, HostKeeps DEF LuaSends, RunnerSends
<1>7. CASE RunnerExits \/ RunnerDies
  BY <1>7, EndStep DEF RunnerExits, RunnerDies, RunnerEnds
<1>8. CASE UNCHANGED svars
  BY <1>8, HostKeeps DEF svars, vars
<1> QED BY <1>1, <1>2, <1>3, <1>4, <1>5, <1>6, <1>7, <1>8 DEF SNext

\* The invariant holds in every state.
LEMMA ShutdownInvariant == ShutdownSpec => []ShutdownInv
  BY InitShutdown, StepShutdown, ImplementsTimerThread, ToldInvariant, PTL DEF ShutdownSpec

-----------------------------------------------------------------------------
\* A runner that leaves main has run every message the host sent before ofx_quit
\* (run() and dequeueMessages), unless its window was closed just then.
THEOREM NothingLeftBehind == ShutdownSpec => []AllRunBeforeQuit
<1>1. ASSUME ShutdownInv PROVE AllRunBeforeQuit
  <2>1. DOMAIN posted = 1..Len(posted) /\ DOMAIN ran = 1..Len(ran)
    BY <1>1 DEF ShutdownInv, RunnerTypes
  <2>2. mpc = "join" /\ ~closed => AllRun
    BY <1>1 DEF ShutdownInv, MainInv
  <2> QED BY <2>1, <2>2 DEF AllRun, AllRunBeforeQuit, Runner!ofx_quit
<1> QED BY <1>1, ShutdownInvariant, PTL

\* The destructor of the runner's message manager never waits for a thread that
\* is in receive().
THEOREM NobodyToWake == ShutdownSpec => []NothingToWake
<1>1. ShutdownInv => NothingToWake
  BY DEF ShutdownInv, QuitInv, MainInv, NothingToWake
<1> QED BY <1>1, ShutdownInvariant, PTL
=============================================================================
