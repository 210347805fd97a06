------------------------------- MODULE PdClock -------------------------------
(***************************************************************************)
(* pdClock, the Lua class ofClock: a thread that sleeps, calls a function  *)
(* of an object and ends.  Starting and stopping the thread is             *)
(* openFrameworks': startThread does nothing while the thread has not      *)
(* ended, and stopThread clears a flag which threadedFunction does not     *)
(* look at.                                                                *)
(***************************************************************************)
VARIABLES
    thread,          \* "none", "asleep", "calling" the function, or "ending"
    unset            \* history: the call that comes has been cancelled

clockVars == <<thread, unset>>

Init == thread = "none" /\ unset = FALSE

Delay ==
    /\ thread' = IF thread = "none" THEN "asleep" ELSE thread
    /\ unset' = FALSE

Unset ==
    /\ thread # "none"
    /\ unset' = TRUE
    /\ UNCHANGED thread

\* The sleep is over, and the event calls delayedFunction.
Wake ==
    /\ thread = "asleep"
    /\ thread' = "calling"
    /\ UNCHANGED unset

FunctionReturns ==
    /\ thread = "calling"
    /\ thread' = "ending"
    /\ UNCHANGED unset

ThreadEnds ==
    /\ thread = "ending"
    /\ thread' = "none"
    /\ UNCHANGED unset

-----------------------------------------------------------------------------
(* Properties *)

\* unset() cancels the scheduled call (ofelia/examples/pd/metro/main.pd:16,
\* "Cancel the scheduled function call.").
NoCallAfterUnset == [][Wake => ~unset]_clockVars
=============================================================================
