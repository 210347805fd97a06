----------------------------- MODULE RunnerLoop ------------------------------
(***************************************************************************)
(* The runner's two threads from the end of its message manager's          *)
(* constructor to the end of the process: run() takes messages off the     *)
(* pipe and queues them, main() runs the window's loop, which takes them   *)
(* off the queue and runs their Lua code.  Messages are numbers; ofx_quit  *)
(* is one of them.  The host is the parameter hostUp, and what Lua code    *)
(* sends is joined to these steps where the module is used.                *)
(***************************************************************************)
EXTENDS Naturals, Sequences

VARIABLES
    hostUp,          \* the host's ends of the connections are open
    toRunner,        \* the pipe, from the host to the receiving thread
    rpc,             \* where the receiving thread is
    held,            \* the message in its hands
    shouldQuit,
    messageQueue,
    mpc,             \* where the main thread is
    exiting,         \* the window's loop has been told to end
    closed,          \* history: no window yet, or the user or Lua code closed it
    posted,          \* history: everything the host has sent
    ran              \* history: everything that was taken off the queue

\* The type of message that ends the runner.
ofx_quit == 0

vars == <<toRunner, rpc, held, shouldQuit, messageQueue, mpc, exiting, closed, posted, ran>>

Init ==
    /\ toRunner = <<>>
    /\ rpc = "test"
    /\ held = ofx_quit
    /\ shouldQuit = FALSE
    /\ messageQueue = <<>>
    /\ mpc = "main"
    /\ exiting = FALSE
    /\ closed = TRUE
    /\ posted = <<>>
    /\ ran = <<>>

\* The host writes to the pipe.
Post(m) ==
    /\ toRunner' = Append(toRunner, m)
    /\ posted' = Append(posted, m)
    /\ UNCHANGED <<rpc, held, shouldQuit, messageQueue, mpc, exiting, closed, ran>>

-----------------------------------------------------------------------------
(* The receiving thread: run() *)

\* while (!shouldQuit)
TestQuit ==
    /\ rpc = "test"
    /\ rpc' = IF shouldQuit THEN "exited" ELSE "receive"
    /\ UNCHANGED <<toRunner, held, shouldQuit, messageQueue, mpc, exiting, closed, posted, ran>>

\* Mutant: ofx_quit is queued like any other message.
ReceiveQuitLikeOthers ==
    /\ rpc = "receive"
    /\ toRunner # <<>>
    /\ held' = Head(toRunner)
    /\ toRunner' = Tail(toRunner)
    /\ rpc' = "enqueue"
    /\ UNCHANGED <<shouldQuit, messageQueue, mpc, exiting, closed, posted, ran>>

\* receive() returns a message; ofx_quit is acted upon before it is queued.
Receive ==
    /\ rpc = "receive"
    /\ toRunner # <<>>
    /\ held' = Head(toRunner)
    /\ toRunner' = Tail(toRunner)
    /\ shouldQuit' = (shouldQuit \/ Head(toRunner) = ofx_quit)
    /\ rpc' = "enqueue"
    /\ UNCHANGED <<messageQueue, mpc, exiting, closed, posted, ran>>

\* The host has gone and left nothing: empty, and round again.
ReceiveNothing ==
    /\ rpc = "receive"
    /\ toRunner = <<>>
    /\ ~hostUp
    /\ rpc' = "test"
    /\ UNCHANGED <<toRunner, held, shouldQuit, messageQueue, mpc, exiting, closed, posted, ran>>

Enqueue ==
    /\ rpc = "enqueue"
    /\ messageQueue' = Append(messageQueue, held)
    /\ rpc' = "test"
    /\ UNCHANGED <<toRunner, held, shouldQuit, mpc, exiting, closed, posted, ran>>

Receiver == TestQuit \/ Receive \/ ReceiveNothing \/ Enqueue

-----------------------------------------------------------------------------
(* The main thread: main(), ofApp *)

\* while(!messageManager.shouldQuit): a new app and window, and its loop
RunApp ==
    /\ mpc = "main"
    /\ ~shouldQuit
    /\ exiting' = FALSE
    /\ closed' = FALSE
    /\ mpc' = "update"
    /\ UNCHANGED <<toRunner, rpc, held, shouldQuit, messageQueue, posted, ran>>

\* Mutant: main() runs the app once.
LeaveAtOnce ==
    /\ mpc = "main"
    /\ shouldQuit \/ exiting \/ closed
    /\ shouldQuit' = TRUE
    /\ mpc' = "join"
    /\ UNCHANGED <<toRunner, rpc, held, messageQueue, exiting, closed, posted, ran>>

\* main() returns and destroys the manager, whose pipe.quit() reaches nobody.
LeaveMain ==
    /\ mpc = "main"
    /\ shouldQuit
    /\ mpc' = "join"
    /\ UNCHANGED <<toRunner, rpc, held, shouldQuit, messageQueue, exiting, closed, posted, ran>>

\* The user closes the window, which ends its loop before the next frame.
CloseWindow ==
    /\ mpc = "update"
    /\ closed' = TRUE
    /\ mpc' = "main"
    /\ UNCHANGED <<toRunner, rpc, held, shouldQuit, messageQueue, exiting, posted, ran>>

\* Mutant: update leaves the loop itself.
UpdateAndLeave ==
    /\ mpc = "update"
    /\ exiting' = shouldQuit
    /\ mpc' \in IF shouldQuit THEN {"main"} ELSE {"draw", "lua"}
    /\ UNCHANGED <<toRunner, rpc, held, shouldQuit, messageQueue, closed, posted, ran>>

\* ofApp::update asks the loop to end after this frame, and listeners to the
\* event may run Lua code.
Update ==
    /\ mpc = "update"
    /\ exiting' = shouldQuit
    /\ mpc' \in {"draw", "lua"}
    /\ UNCHANGED <<toRunner, rpc, held, shouldQuit, messageQueue, closed, posted, ran>>

\* dequeueMessages: all types but ofx_quit run Lua code.
Dequeue ==
    /\ mpc = "draw"
    /\ messageQueue # <<>>
    /\ messageQueue' = Tail(messageQueue)
    /\ ran' = Append(ran, Head(messageQueue))
    /\ mpc' = IF Head(messageQueue) = ofx_quit THEN "draw" ELSE "lua"
    /\ UNCHANGED <<toRunner, rpc, held, shouldQuit, exiting, closed, posted>>

\* The queue is empty, and the loop ends or goes on.
EndFrame ==
    /\ mpc = "draw"
    /\ messageQueue = <<>>
    /\ mpc' = IF exiting THEN "main" ELSE "update"
    /\ UNCHANGED <<toRunner, rpc, held, shouldQuit, messageQueue, exiting, closed, posted, ran>>

\* Lua code is done; it may have called the binding of ofExit.
LuaReturns ==
    /\ mpc = "lua"
    /\ mpc' = "draw"
    /\ \/ UNCHANGED <<exiting, closed>>
       \/ exiting' = TRUE /\ closed' = TRUE
    /\ UNCHANGED <<toRunner, rpc, held, shouldQuit, messageQueue, posted, ran>>

\* A binding asks the host a question.
Ask ==
    /\ mpc = "lua"
    /\ mpc' = "wait"
    /\ UNCHANGED <<toRunner, rpc, held, shouldQuit, messageQueue, exiting, closed, posted, ran>>

\* waitForReturnValue returns.
GoOn ==
    /\ mpc = "wait"
    /\ mpc' = "lua"
    /\ UNCHANGED <<toRunner, rpc, held, shouldQuit, messageQueue, exiting, closed, posted, ran>>

\* returnPipe.receive() returns nothing once the host's end is closed.
AnswerNothing == ~hostUp /\ GoOn

Main ==
    \/ RunApp \/ LeaveMain \/ CloseWindow \/ Update \/ Dequeue \/ EndFrame
    \/ LuaReturns \/ AnswerNothing

\* The destructor has joined the receiving thread, and the process is over.
Exit ==
    /\ mpc = "join"
    /\ rpc = "exited"
    /\ mpc' = "ended"
    /\ UNCHANGED <<toRunner, rpc, held, shouldQuit, messageQueue, exiting, closed, posted, ran>>

\* The process is over for a reason of its own.
Die ==
    /\ mpc # "ended"
    /\ mpc' = "ended"
    /\ rpc' = "exited"
    /\ UNCHANGED <<toRunner, held, shouldQuit, messageQueue, exiting, closed, posted, ran>>
=============================================================================
