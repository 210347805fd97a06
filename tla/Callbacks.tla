------------------------------ MODULE Callbacks ------------------------------
(***************************************************************************)
(* Everything that runs Lua functions other than messages do: the events   *)
(* of the window (PdWindow) that are handed to listeners (EventListeners), *)
(* and a clock (PdClock), whose thread uses the same Lua state and the     *)
(* same listeners without a lock.  Whatever Lua code runs may add and      *)
(* remove listeners, create and destroy windows, set and unset the clock.  *)
(***************************************************************************)
EXTENDS EventListeners

CONSTANTS
    Windows, MaxWindow,
    MaxLuaSteps      \* bound: what Lua code does to these components

ASSUME CallbacksAssumption == MaxLuaSteps \in Nat /\ MaxWindow \in Nat

VARIABLES
    live, owner, exists, attached, window, shouldClose, leaving, closing,
    asked, abandoned, hurried, reentered,
    thread, unset,
    target,          \* the instance the clock was made for
    luaSteps,        \* how much Lua code has done
    forgotten        \* history: instances replaced with a listener or clock left

Window == INSTANCE PdWindow
Clock == INSTANCE PdClock

windowVars ==
    <<live, owner, exists, attached, window, shouldClose, leaving, closing, asked, abandoned, hurried, reentered>>
clockVars == <<thread, unset>>
othersVars == <<target, forgotten>>
vars == <<listenerVars, windowVars, clockVars, othersVars, luaSteps>>

CInit ==
    /\ Init
    /\ Window!Init
    /\ Clock!Init
    /\ target = <<>>
    /\ forgotten = {}
    /\ luaSteps = 0

\* Some thread is inside Lua code, whose effects on the other components
\* these are.
InLua == lua # "none" \/ closing \/ thread = "calling"

\* The clock's thread and the main thread use Lua, or the vector, at a time.
Race == thread = "calling" /\ (lua # "none" \/ closing \/ at # 0)

\* The main thread is inside exit().
MainLeaves == closing \/ (lua # "none" /\ leaving # <<>>)

-----------------------------------------------------------------------------
(* Lua code *)

LuaUsesListeners ==
    /\ LuaCode
    /\ UNCHANGED <<windowVars, clockVars, othersVars>>

LuaUsesWindow ==
    /\ \E w \in Windows : Window!Create(w) \/ Window!Destroy(w) \/ Window!Collect(w)
    /\ UNCHANGED <<listenerVars, clockVars, othersVars>>

\* A script makes its clock; a clock that is not running is collected.
NewClock(o) ==
    /\ made[o] > 0
    /\ thread = "none"
    /\ target' = getByName(o)
    /\ UNCHANGED <<listenerVars, windowVars, clockVars, forgotten>>

LuaUsesClock ==
    /\ target # <<>>
    /\ Clock!Delay \/ Clock!Unset
    /\ UNCHANGED <<listenerVars, windowVars, othersVars>>

LuaStep ==
    /\ fate = "fine"
    /\ InLua
    /\ luaSteps < MaxLuaSteps
    /\ luaSteps' = luaSteps + 1
    /\ LuaUsesListeners \/ LuaUsesWindow \/ LuaUsesClock \/ \E o \in Objects : NewClock(o)

-----------------------------------------------------------------------------
(* The two threads, and the user *)

\* Replacing an instance leaves pointers to it in the vector and the clock.
Forgets(o) ==
    LET x == Alive(o)
    IN  made[o] > 0 /\ (findDataPair(x) # 0 \/ target = x)

MainStep ==
    /\ ~MainLeaves
    /\ MainThread
    /\ forgotten' = forgotten \union
           {Alive(o) : o \in {p \in Objects : made'[p] # made[p] /\ Forgets(p)}}
    /\ UNCHANGED <<windowVars, clockVars, target>>

\* A frame of the window: its events reach the listeners if somebody owns it.
Frame ==
    /\ Window!Delivers
    /\ ~shouldClose
    /\ BeginEvent
    /\ UNCHANGED <<windowVars, clockVars, othersVars>>

\* The loop closes the window between frames.
CloseWindow ==
    /\ fate = "fine"
    /\ at = 0
    /\ lua = "none"
    /\ Window!CloseBegins \/ Window!NewWindow
    /\ UNCHANGED <<listenerVars, clockVars, othersVars>>

\* exit() goes on when its listeners have returned, on the thread that called
\* it.
LeaveWindow ==
    /\ fate = "fine"
    /\ Window!ExitEnds
    /\ UNCHANGED <<listenerVars, clockVars, othersVars>>

User ==
    /\ fate = "fine"
    /\ Window!UserCloses
    /\ UNCHANGED <<listenerVars, clockVars, othersVars>>

\* The clock's thread; the function of an instance that is gone is garbage.
ClockCalls ==
    /\ fate = "fine"
    /\ Clock!Wake
    /\ fate' = IF target = Alive(target[1]) THEN "fine" ELSE "dangling"
    /\ UNCHANGED <<made, slots, size, at, end, moved, lua, wanted, expected, called, disturbed>>
    /\ UNCHANGED <<windowVars, othersVars>>

ClockEnds ==
    /\ fate = "fine"
    /\ (leaving = <<>> /\ Clock!FunctionReturns) \/ Clock!ThreadEnds
    /\ UNCHANGED <<listenerVars, windowVars, othersVars>>

\* Two threads in one Lua state: whatever happens is not modelled.
Collide ==
    /\ fate = "fine"
    /\ Race
    /\ fate' = "raced"
    /\ UNCHANGED <<made, slots, size, at, end, moved, lua, wanted, expected, called, disturbed>>
    /\ UNCHANGED <<windowVars, clockVars, othersVars>>

CNext ==
    \/ ~Race /\ LuaStep
    \/ /\ ~Race
       /\ MainStep \/ Frame \/ CloseWindow \/ LeaveWindow \/ User \/ ClockCalls \/ ClockEnds
       /\ UNCHANGED luaSteps
    \/ Collide /\ UNCHANGED luaSteps

\* A clock's thread goes on by itself, so that a call which was not to come is
\* no accident of a system that stops.
ClockFairness == WF_vars(~Race /\ (ClockCalls \/ ClockEnds) /\ UNCHANGED luaSteps)

CallbacksSpec == CInit /\ [][CNext]_vars /\ ClockFairness

-----------------------------------------------------------------------------
(* Properties *)

\* An event or a clock meets a destroyed instance only if the object at that
\* address was replaced while it had a listener or a clock.
NoDanglingCall == fate = "dangling" => forgotten # {}

ExistsHasOwner == Window!ExistsHasOwner
KeepsWindow == Window!KeepsWindow
NoCallAfterUnset == Clock!NoCallAfterUnset
=============================================================================
