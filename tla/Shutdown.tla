------------------------------ MODULE Shutdown ------------------------------
(***************************************************************************)
(* The end of both processes: the host's message manager with its timer    *)
(* thread (TimerThread) composed with the runner's threads (RunnerLoop).   *)
(* A step of one that the other sees is one step of both: the host posts a *)
(* message or ofx_quit, the runner's Lua code sends, the runner's process  *)
(* ends.  TimerThread assumes that a runner which was told to quit ends;   *)
(* here the runner's code has to show it, while its Lua code may wait for  *)
(* an answer from the very host that is being destroyed.                   *)
(***************************************************************************)
EXTENDS TimerThread, Sequences

CONSTANT MaxCommands \* bound: how many messages the host sends before it quits

ASSUME MaxCommandsAssumption == MaxCommands \in Nat

VARIABLES toRunner, rpc, held, shouldQuit, messageQueue, mpc, exiting, closed, posted, ran

\* Both ends of a connection are the host's as long as it lives and has not
\* destroyed its streams.
hostUp == fate = "fine" /\ members

Runner == INSTANCE RunnerLoop

runnerVars == <<toRunner, rpc, held, shouldQuit, messageQueue, mpc, exiting, closed, posted, ran>>

SInit == Init /\ Runner!Init

-----------------------------------------------------------------------------
(* Steps of the host *)

HostStep == (Timer \/ Pd \/ StartTimer \/ Destroy) /\ UNCHANGED runnerVars

\* An object sends its next message.
HostPosts ==
    /\ fate = "fine"
    /\ dpc = "bound"
    /\ peer = "up"
    /\ Len(posted) < MaxCommands
    /\ Runner!Post(Len(posted) + 1)
    /\ UNCHANGED vars

\* The destructor of the manager sends ofx_quit.
HostQuits ==
    /\ Quit
    /\ IF peer' = "told" THEN Runner!Post(Runner!ofx_quit) ELSE UNCHANGED runnerVars

-----------------------------------------------------------------------------
(* Steps of the runner *)

ReceiverStep == Runner!Receiver /\ UNCHANGED vars

MainStep == Runner!Main /\ UNCHANGED vars

\* Lua code sends to the host without a question.
LuaSends == mpc = "lua" /\ RunnerSends /\ UNCHANGED runnerVars

LuaAsks == Runner!Ask /\ RunnerSends

\* The host has handed on the question, and one of its listeners answers.
Answered ==
    /\ hostUp
    /\ dispatched = sent
    /\ Runner!GoOn
    /\ UNCHANGED vars

RunnerExits == Runner!Exit /\ RunnerEnds

RunnerDies == Runner!Die /\ RunnerEnds

-----------------------------------------------------------------------------
SNext ==
    \/ HostStep \/ HostPosts \/ HostQuits
    \/ ReceiverStep \/ MainStep \/ LuaSends \/ LuaAsks \/ Answered
    \/ RunnerExits \/ RunnerDies

svars == <<vars, runnerVars>>

\* Every thread that can go on does: those of the host, the receiving thread and
\* the main thread; Pd leaves its lock.  Lua code returns, but an answer need not
\* come.
SFairness ==
    /\ SF_svars(Timer /\ UNCHANGED runnerVars)
    /\ SF_svars(PdLeave /\ UNCHANGED runnerVars)
    /\ WF_svars(PdGoesOn /\ UNCHANGED runnerVars)
    /\ WF_svars(Destroy /\ UNCHANGED runnerVars)
    /\ WF_svars(ReceiverStep)
    /\ WF_svars(MainStep)
    /\ WF_svars(RunnerExits)

ShutdownSpec == SInit /\ [][SNext]_svars /\ SFairness

-----------------------------------------------------------------------------
(* Properties.  Those of TimerThread are checked again, here without its   *)
(* assumption about the runner; FairSpec, the specification of TimerThread *)
(* with that assumption, is the abstract one that the composition keeps.   *)

\* A runner that leaves main has run every message the host sent before
\* ofx_quit, in order, unless there was no window yet, or the user or Lua
\* code closed it just then (run() sets shouldQuit only when all of them are queued,
\* and the frame that sees it goes on to draw).
AllRunBeforeQuit ==
    mpc = "join" /\ ~closed =>
        \A i \in DOMAIN posted : posted[i] # Runner!ofx_quit =>
            i \in DOMAIN ran /\ ran[i] = posted[i]

\* The runner's destructor never joins a thread that is in receive(), which
\* its own pipe.quit() could not wake.
NothingToWake == mpc = "join" => rpc # "receive"
=============================================================================
