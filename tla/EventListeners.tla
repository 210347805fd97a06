--------------------------- MODULE EventListeners ----------------------------
(***************************************************************************)
(* ofxOfeliaEvents: the vector of listeners to one kind of window event.   *)
(* Lua code adds and removes listeners, also from inside a listener, while *)
(* callEventListeners goes through the vector with iterators taken before  *)
(* its first call.  The vector's memory is modelled: erase() moves the     *)
(* elements down and leaves the last one where it was, push_back() moves   *)
(* everything to new memory when the capacity is used up.                  *)
(* Listeners are pointers to instances; an instance is <<address, count>>, *)
(* the count-th one made for an object at that address.                    *)
(***************************************************************************)
EXTENDS Integers, FiniteSets, Functions, SequencesExt

CONSTANTS
    Objects,         \* addresses of objects of the host
    Priorities,      \* the order given to addListener: of the floats of the
                     \* code, integers stand for those that < puts in order
    MaxInstances     \* bound: how often an address is used

ASSUME PrioritiesAssumption == Priorities \subseteq Int
ASSUME MaxInstancesAssumption == MaxInstances \in Nat

VARIABLES
    made,            \* instances made for each address; the last one is alive
    slots,           \* the vector's memory, used or not
    size,            \* how much of it is used
    at,              \* the iterator; 0 when no event is under way
    end,             \* the end of the vector when the event began
    moved,           \* the memory that is gone through has been given back
    lua,             \* what the main thread runs Lua code for
    fate,            \* "fine", or how the runner came to its end
    wanted,          \* history: the listeners, and the priority they asked for
    expected,        \* history: wanted when the event began
    called,          \* history: the listeners called in this event
    disturbed        \* history: what Lua code did to the vector meanwhile

listenerVars == <<made, slots, size, at, end, moved, lua, fate, wanted, expected, called, disturbed>>

Instances == Objects \X (1..MaxInstances)

\* The instance that ofxLuaInstances holds for the address.
Alive(o) == <<o, made[o]>>

\* Mutant: a replaced instance is found first.
FirstByName(o) == <<o, 1>>

\* getByName, for the name of the object at that address.
getByName(o) == Alive(o)

Pairs == [data : Instances, order : Priorities]

vec == SubSeq(slots, 1, size)

NoListeners == [x \in {} |-> 0]

Init ==
    /\ made = [o \in Objects |-> 0]
    /\ slots = <<>>
    /\ size = 0
    /\ at = 0
    /\ end = 0
    /\ moved = FALSE
    /\ lua = "none"
    /\ fate = "fine"
    /\ wanted = NoListeners
    /\ expected = NoListeners
    /\ called = <<>>
    /\ disturbed = {}

-----------------------------------------------------------------------------
(* The operations on the vector *)

\* findDataPair: where the instance is in the vector; 0 stands for end().
findDataPair(x) ==
    IF \E i \in 1..size : slots[i].data = x
    THEN CHOOSE i \in 1..size : slots[i].data = x
    ELSE 0

\* addDataPair on an instance that listens: its priority changes in place.
ChangeOrder(x, f) ==
    /\ findDataPair(x) # 0
    /\ slots' = [slots EXCEPT ![findDataPair(x)].order = f]
    /\ UNCHANGED <<size, moved>>

\* push_back: into unused memory, or into new memory, twice as much (with
\* other standard libraries 1.5 times).
PushBack(x, f) ==
    LET pair == [data |-> x, order |-> f]
    IN  /\ findDataPair(x) = 0
        /\ size' = size + 1
        /\ IF size < Len(slots)
           THEN slots' = [slots EXCEPT ![size + 1] = pair] /\ UNCHANGED moved
           ELSE /\ slots' = Append(vec, pair) \o [i \in 1..(size - 1) |-> pair]
                /\ moved' = (moved \/ at # 0)

\* erase: the elements above move down.
Erase(x) ==
    LET k == findDataPair(x)
    IN  /\ k # 0
        /\ slots' = [i \in 1..Len(slots) |->
                        IF i \in k..(size - 1) THEN slots[i + 1] ELSE slots[i]]
        /\ size' = size - 1
        /\ UNCHANGED moved

\* sortDataPairVec: the one order of the elements that is by priority, with
\* those of one priority as they were.
Sorted ==
    LET before(i, j) ==
            \/ slots[i].order < slots[j].order
            \/ slots[i].order = slots[j].order /\ i <= j
        place(i) == Cardinality({j \in 1..size : before(j, i)})
    IN  [n \in 1..size |-> slots[CHOOSE i \in 1..size : place(i) = n]]

\* Mutant: the vector is gone through as it is.
KeepOrder == UNCHANGED slots

Resort == slots' = Sorted \o SubSeq(slots, size + 1, Len(slots))

-----------------------------------------------------------------------------
(* What Lua code does *)

\* pdWindow.addListener, for an instance that getByName finds.
AddListener(o, f) ==
    /\ made[o] > 0
    /\ ChangeOrder(getByName(o), f) \/ PushBack(getByName(o), f)
    /\ wanted' = [x \in DOMAIN wanted \union {getByName(o)} |->
                      IF x = getByName(o) THEN f ELSE wanted[x]]
    /\ UNCHANGED <<made, at, end, lua, fate, expected, called, disturbed>>

\* pdWindow.removeListener
RemoveListener(o) ==
    /\ made[o] > 0
    /\ Erase(getByName(o))
    /\ wanted' = [x \in DOMAIN wanted \ {getByName(o)} |-> wanted[x]]
    /\ disturbed' = IF at = 0 THEN disturbed ELSE disturbed \union {"removed"}
    /\ UNCHANGED <<made, at, end, lua, fate, expected, called>>

\* pdWindow.getListenerData sorts the vector to copy it.
GetListenerData ==
    /\ Resort
    /\ disturbed' = IF at = 0 \/ slots' = slots THEN disturbed ELSE disturbed \union {"sorted"}
    /\ UNCHANGED <<made, size, at, end, moved, lua, fate, wanted, expected, called>>

LuaCode ==
    \/ \E o \in Objects, f \in Priorities : AddListener(o, f)
    \/ \E o \in Objects : RemoveListener(o)
    \/ GetListenerData

-----------------------------------------------------------------------------
(* The main thread *)

\* createInstance, for a new object or one whose address was used before:
\* the instance that was there is destroyed, the vector is not looked at.
CreateInstance(o) ==
    /\ fate = "fine"
    /\ at = 0
    /\ lua = "none"
    /\ made[o] < MaxInstances
    /\ made' = [made EXCEPT ![o] = @ + 1]
    /\ UNCHANGED <<slots, size, at, end, moved, lua, fate, wanted, expected, called, disturbed>>

\* A message makes an object's Lua code run, and it returns.
RunMessage ==
    /\ fate = "fine"
    /\ at = 0
    /\ lua' = CASE lua = "none" -> "message" [] lua = "message" -> "none"
    /\ UNCHANGED <<made, slots, size, at, end, moved, fate, wanted, expected, called, disturbed>>

\* callEventListeners sorts the vector and takes its iterators.
BeginEvent ==
    /\ fate = "fine"
    /\ at = 0
    /\ lua = "none"
    /\ Resort
    /\ at' = 1
    /\ end' = size
    /\ expected' = wanted
    /\ UNCHANGED <<made, size, moved, lua, fate, wanted, called, disturbed>>

\* callEventListener on an instance that is alive runs its function.
Call ==
    /\ slots[at].data = Alive(slots[at].data[1])
    /\ lua' = "listener"
    /\ called' = Append(called, slots[at].data)
    /\ UNCHANGED fate

\* The memory or the instance has been given back.
CallGarbage ==
    /\ moved \/ slots[at].data # Alive(slots[at].data[1])
    /\ fate' = IF moved THEN "moved" ELSE "dangling"
    /\ UNCHANGED <<lua, called>>

CallListener ==
    /\ fate = "fine"
    /\ at \in 1..end
    /\ lua = "none"
    /\ (~moved /\ Call) \/ CallGarbage
    /\ UNCHANGED <<made, slots, size, at, end, moved, wanted, expected, disturbed>>

\* Mutant: the iterator moves twice.
SkipListener ==
    /\ fate = "fine"
    /\ lua = "listener"
    /\ lua' = "none"
    /\ at' = at + 2
    /\ UNCHANGED <<made, slots, size, end, moved, fate, wanted, expected, called, disturbed>>

\* The function returns, and ++i.
ListenerReturns ==
    /\ fate = "fine"
    /\ lua = "listener"
    /\ lua' = "none"
    /\ at' = at + 1
    /\ UNCHANGED <<made, slots, size, end, moved, fate, wanted, expected, called, disturbed>>

EndEvent ==
    /\ fate = "fine"
    /\ at > end
    /\ at' = 0
    /\ end' = 0
    /\ moved' = FALSE
    /\ expected' = NoListeners
    /\ called' = <<>>
    /\ disturbed' = {}
    /\ UNCHANGED <<made, slots, size, lua, fate, wanted>>

MainThread ==
    \/ \E o \in Objects : CreateInstance(o)
    \/ RunMessage \/ CallListener \/ ListenerReturns \/ EndEvent

-----------------------------------------------------------------------------
(* Properties *)

\* The vector and the loop over it keep to their types.
TypeOK ==
    /\ made \in [Objects -> 0..MaxInstances]
    /\ slots \in Seq(Pairs)
    /\ size \in 0..Len(slots)
    /\ at \in 0..(end + 1)
    /\ end \in Nat
    /\ lua \in {"none", "message", "listener"}
    /\ disturbed \subseteq {"removed", "sorted"}

\* An event calls each instance that listened when it began once, in the
\* order of the priorities asked for last, whatever is added meanwhile; only
\* removing a listener, or sorting, from inside a listener breaks that.
EachOnce ==
    at > end /\ disturbed = {} =>
        /\ ToSet(called) = DOMAIN expected
        /\ IsInjective(called)
        /\ \A i, j \in 1..Len(called) : i < j => expected[called[i]] <= expected[called[j]]
=============================================================================
