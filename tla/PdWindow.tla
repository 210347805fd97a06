------------------------------ MODULE PdWindow -------------------------------
(***************************************************************************)
(* pdWindow, the Lua class ofWindow: any number of its objects share the   *)
(* one window that main() makes for each run of the app.  An object that   *)
(* creates the window registers its callbacks with it and owns it.  It     *)
(* leaves the window in exit(), which first calls the exit listeners: Lua  *)
(* code that may call destroy() and create() before exit() goes on.  The   *)
(* window, its loop and its events are openFrameworks'; they are modelled  *)
(* from how pdWindow and main() use them.                                  *)
(***************************************************************************)
EXTENDS Naturals, Sequences

CONSTANTS
    Windows,         \* objects of the class
    MaxWindow        \* bound: windows that main() makes

VARIABLES
    live,            \* objects that have not been collected
    owner,           \* pdWindow::owner
    exists,          \* pdWindow::exists, which all objects share
    attached,        \* the window an object's callbacks are registered with
    window,          \* the window of the app that runs
    shouldClose,     \* it goes before its next frame
    leaving,         \* objects whose exit() runs, the innermost last
    closing,         \* the first of them was called by the window's loop
    asked,           \* history: objects that created a window that nobody closed
    abandoned,       \* history: an owner was collected
    hurried,         \* history: a window was created that was about to close
    reentered        \* history: a window was created from inside exit()

\* attached[w] when the callbacks of w are registered nowhere.
Nowhere == 0

Init ==
    /\ live = Windows
    /\ owner = [w \in Windows |-> FALSE]
    /\ exists = FALSE
    /\ attached = [w \in Windows |-> Nowhere]
    /\ window = 1
    /\ shouldClose = FALSE
    /\ leaving = <<>>
    /\ closing = FALSE
    /\ asked = {}
    /\ abandoned = FALSE
    /\ hurried = FALSE
    /\ reentered = FALSE

\* Mutant: only the object itself is asked whether there is a window.
CreateAnyway(w) ==
    /\ w \in live
    /\ ~owner[w]
    /\ owner' = [owner EXCEPT ![w] = TRUE]
    /\ exists' = TRUE
    /\ attached' = [attached EXCEPT ![w] = window]
    /\ asked' = asked \union {w}
    /\ hurried' = (hurried \/ shouldClose)
    /\ reentered' = (reentered \/ leaving # <<>>)
    /\ UNCHANGED <<live, window, shouldClose, leaving, closing, abandoned>>

Create(w) ==
    /\ w \in live
    /\ ~(owner[w] \/ exists)
    /\ owner' = [owner EXCEPT ![w] = TRUE]
    /\ exists' = TRUE
    /\ attached' = [attached EXCEPT ![w] = window]
    /\ asked' = asked \union {w}
    /\ hurried' = (hurried \/ shouldClose)
    /\ reentered' = (reentered \/ leaving # <<>>)
    /\ UNCHANGED <<live, window, shouldClose, leaving, closing, abandoned>>

\* Mutant: exit() forgets that there is no window any more.
LeaveWindowThatExists(w) ==
    /\ attached' = [attached EXCEPT ![w] = Nowhere]
    /\ owner' = [owner EXCEPT ![w] = FALSE]
    /\ UNCHANGED exists

\* The end of exit(): removeWindowListeners, owner and exists.
LeaveWindow(w) ==
    /\ attached' = [attached EXCEPT ![w] = Nowhere]
    /\ owner' = [owner EXCEPT ![w] = FALSE]
    /\ exists' = FALSE

\* destroy() calls exit(), and that the exit listeners.
Destroy(w) ==
    /\ w \in live
    /\ owner[w] /\ exists
    /\ leaving' = Append(leaving, w)
    /\ UNCHANGED <<live, owner, exists, attached, window, shouldClose, closing, asked, abandoned, hurried, reentered>>

\* Lua collects the object: the window goes, but its callbacks are removed
\* before it can call exit(), and exists stays.
Collect(w) ==
    /\ w \in live
    /\ \A i \in 1..Len(leaving) : leaving[i] = w => i = 1 /\ closing
    /\ live' = live \ {w}
    /\ asked' = asked \ {w}
    /\ IF owner[w] /\ exists
       THEN /\ attached' = [attached EXCEPT ![w] = Nowhere]
            /\ shouldClose' = TRUE
            /\ abandoned' = TRUE
       ELSE UNCHANGED <<attached, shouldClose, abandoned>>
    /\ UNCHANGED <<owner, exists, window, leaving, closing, hurried, reentered>>

\* The user closes the window.
UserCloses ==
    /\ ~shouldClose
    /\ shouldClose' = TRUE
    /\ asked' = {}
    /\ UNCHANGED <<live, owner, exists, attached, window, leaving, closing, abandoned, hurried, reentered>>

\* The window's loop closes it, which calls exit() of the callbacks that are
\* registered.
CloseBegins ==
    /\ shouldClose
    /\ ~closing
    /\ window < MaxWindow
    /\ \E w \in Windows : attached[w] = window /\ leaving' = Append(leaving, w)
    /\ closing' = TRUE
    /\ UNCHANGED <<live, owner, exists, attached, window, shouldClose, asked, abandoned, hurried, reentered>>

\* main() makes a new app and a new window.
NextApp ==
    /\ window' = window + 1
    /\ shouldClose' = FALSE

\* A window goes that nobody hears.
NewWindow ==
    /\ shouldClose
    /\ ~closing
    /\ window < MaxWindow
    /\ \A w \in Windows : attached[w] # window
    /\ NextApp
    /\ UNCHANGED <<live, owner, exists, attached, leaving, closing, asked, abandoned, hurried, reentered>>

\* The exit listeners have returned.  After destroy() the window is about to
\* close; after the loop's exit() it goes.
ExitEnds ==
    /\ leaving # <<>>
    /\ LET w == leaving[Len(leaving)]
       IN  /\ LeaveWindow(w)
           /\ IF closing /\ Len(leaving) = 1
              THEN NextApp /\ closing' = FALSE /\ UNCHANGED asked
              ELSE /\ shouldClose' = (shouldClose \/ attached[w] = window)
                   /\ asked' = asked \ {w}
                   /\ UNCHANGED <<window, closing>>
    /\ leaving' = SubSeq(leaving, 1, Len(leaving) - 1)
    /\ UNCHANGED <<live, abandoned, hurried, reentered>>

\* The window's events reach the callbacks of the object that owns it.
Delivers == \E w \in Windows : attached[w] = window

-----------------------------------------------------------------------------
(* Properties *)

\* As long as no owner has been collected, and no exit listener has created a
\* window, exists says that exactly one object owns the window of the app that
\* runs and hears its events.
ExistsHasOwner ==
    ~abandoned /\ ~reentered =>
        /\ exists <=> \E w \in live : owner[w]
        /\ \A w, v \in Windows : owner[w] /\ owner[v] => w = v
        /\ \A w \in Windows : attached[w] = IF owner[w] THEN window ELSE Nowhere

\* A window that Lua code has created stays its own until it destroys it or
\* the user closes it, unless it was created while the one before it had
\* still to close or its exit() still ran, or an owner had been collected.
KeepsWindow == ~hurried /\ ~abandoned /\ ~reentered => \A w \in asked : owner[w] /\ exists
=============================================================================
