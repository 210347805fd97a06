-------------------------- MODULE Callbacks_proofs ---------------------------
(***************************************************************************)
(* Proofs about Callbacks.  Who owns the window: objects share it without  *)
(* a lock or a list, and that there is one owner rests on `exists`.  What  *)
(* an event calls: the vector is gone through with iterators while Lua     *)
(* code changes it.  Who is called when objects are replaced.  No bound on *)
(* objects, windows or Lua's steps is used.                                *)
(***************************************************************************)
EXTENDS Callbacks, SequenceTheorems, FiniteSetTheorems, FunctionTheorems, TLAPS

-----------------------------------------------------------------------------
(* The owner of the window *)

WindowTypes ==
    /\ live \subseteq Windows
    /\ owner \in [Windows -> BOOLEAN]
    /\ exists \in BOOLEAN
    /\ attached \in [Windows -> Nat]
    /\ window \in Nat \ {0}
    /\ shouldClose \in BOOLEAN
    /\ leaving \in Seq(Windows)
    /\ closing \in BOOLEAN
    /\ asked \subseteq Windows
    /\ abandoned \in BOOLEAN
    /\ hurried \in BOOLEAN
    /\ reentered \in BOOLEAN

\* Who owns the window has not been collected, is the only one, and hears it.
OwnerInv ==
    /\ \A w \in Windows : owner[w] => w \in live /\ exists
    /\ exists => \E w \in live : owner[w]
    /\ \A w, v \in Windows : owner[w] /\ owner[v] => w = v
    /\ \A w \in Windows : attached[w] = IF owner[w] THEN window ELSE 0

\* Nobody else owns the window whose owner is inside exit().
LeavingInv ==
    \A i \in 1..Len(leaving) : \A w \in Windows : owner[w] => w = leaving[i]

\* Who has created a window and not lost it owns it, and a window that is about
\* to close is nobody's.
AskedInv ==
    /\ \A w \in asked : owner[w]
    /\ shouldClose => asked = {}

\* The loop goes on with the window it closes.
ClosingInv == closing => shouldClose

\* The events that the properties name have not happened.
Orderly == ~abandoned /\ ~reentered

WindowInv ==
    /\ WindowTypes
    /\ ClosingInv
    /\ Orderly => OwnerInv /\ LeavingInv
    /\ Orderly /\ ~hurried => AskedInv

\* The app starts with a window that nobody owns.
LEMMA InitWindow == CInit => WindowInv
<1> SUFFICES ASSUME CInit PROVE WindowInv
  OBVIOUS
<1>1. Window!Init
  BY DEF CInit
<1>2. WindowTypes
  <2>1. attached \in [Windows -> Nat] /\ window \in Nat \ {0}
    BY <1>1, SMT DEF Window!Init, Window!Nowhere
  <2>2. leaving \in Seq(Windows)
    BY <1>1, SMT DEF Window!Init
  <2> QED BY <1>1, <2>1, <2>2, Zenon DEF Window!Init, WindowTypes
<1>3. OwnerInv /\ LeavingInv /\ ClosingInv
  BY <1>1 DEF Window!Init, Window!Nowhere, OwnerInv, LeavingInv, ClosingInv
<1>4. AskedInv
  BY <1>1 DEF Window!Init, AskedInv
<1> QED BY <1>2, <1>3, <1>4 DEF WindowInv

\* create(): nobody owned the window, so that the new owner is the only one.
LEMMA CreateStep ==
    ASSUME WindowInv, NEW w \in Windows, Window!Create(w) PROVE WindowInv'
<1> USE DEF Window!Create
<1>1. WindowTypes' /\ ClosingInv'
  BY DEF WindowInv, WindowTypes, ClosingInv
<1>2. ASSUME Orderly' PROVE Orderly /\ leaving = <<>>
  BY <1>2 DEF WindowInv, WindowTypes, Orderly
<1>3. ASSUME Orderly' PROVE OwnerInv'
  BY <1>2, <1>3 DEF WindowInv, WindowTypes, OwnerInv
<1>4. ASSUME Orderly' PROVE LeavingInv'
  BY <1>2, <1>4 DEF LeavingInv
<1>5. ASSUME Orderly', ~hurried' PROVE AskedInv'
  BY <1>2, <1>5 DEF WindowInv, WindowTypes, OwnerInv, AskedInv
<1> QED BY <1>1, <1>3, <1>4, <1>5 DEF WindowInv

\* exit() begins for an object that owns the window.
LEMMA LeavingGrows ==
    ASSUME LeavingInv, OwnerInv, leaving \in Seq(Windows),
           NEW w \in Windows, owner[w], leaving' = Append(leaving, w), owner' = owner
    PROVE  LeavingInv'
<1> SUFFICES ASSUME NEW i \in 1..Len(leaving'), NEW v \in Windows, owner[v]
             PROVE  v = leaving'[i]
  BY DEF LeavingInv
<1>1. v = w
  BY DEF OwnerInv
<1>2. CASE i \in 1..Len(leaving)
  BY <1>2 DEF LeavingInv
<1>3. CASE i \notin 1..Len(leaving)
  BY <1>1, <1>3
<1> QED BY <1>2, <1>3

\* destroy() begins.
LEMMA DestroyStep ==
    ASSUME WindowInv, NEW w \in Windows, Window!Destroy(w) PROVE WindowInv'
<1> USE DEF Window!Destroy
<1>1. WindowTypes' /\ ClosingInv'
  BY DEF WindowInv, WindowTypes, ClosingInv
<1>2. ASSUME Orderly' PROVE OwnerInv' /\ LeavingInv'
  <2>1. OwnerInv /\ LeavingInv
    BY <1>2 DEF WindowInv, Orderly
  <2>2. LeavingInv'
    BY <2>1, LeavingGrows DEF WindowInv, WindowTypes
  <2> QED BY <2>1, <2>2 DEF OwnerInv
<1>3. ASSUME Orderly', ~hurried' PROVE AskedInv'
  BY <1>3 DEF WindowInv, Orderly, AskedInv
<1> QED BY <1>1, <1>2, <1>3 DEF WindowInv

\* The loop begins to close the window that its owner hears.
LEMMA CloseStep ==
    ASSUME WindowInv, Window!CloseBegins PROVE WindowInv'
<1> USE DEF Window!CloseBegins
<1>0. PICK w \in Windows : attached[w] = window /\ leaving' = Append(leaving, w)
  OBVIOUS
<1>1. WindowTypes' /\ ClosingInv'
  BY <1>0 DEF WindowInv, WindowTypes, ClosingInv
<1>2. ASSUME Orderly' PROVE OwnerInv' /\ LeavingInv'
  <2>1. OwnerInv /\ LeavingInv
    BY <1>2 DEF WindowInv, Orderly
  <2>2. owner[w]
    BY <1>0, <2>1 DEF OwnerInv, WindowInv, WindowTypes
  <2>3. LeavingInv'
    BY <1>0, <2>1, <2>2, LeavingGrows DEF WindowInv, WindowTypes
  <2> QED BY <2>1, <2>3 DEF OwnerInv
<1>3. ASSUME Orderly', ~hurried' PROVE AskedInv'
  BY <1>3 DEF WindowInv, Orderly, AskedInv
<1> QED BY <1>1, <1>2, <1>3 DEF WindowInv

\* Collection of an object that is not the owner changes nothing of the window.
LEMMA CollectStep ==
    ASSUME WindowInv, NEW w \in Windows, Window!Collect(w) PROVE WindowInv'
<1> USE DEF Window!Collect, Window!Nowhere
<1>1. WindowTypes' /\ ClosingInv'
  <2>1. attached' \in [Windows -> Nat]
    <3>1. attached' = [attached EXCEPT ![w] = 0] \/ attached' = attached
      OBVIOUS
    <3> QED BY <3>1, SMT DEF WindowInv, WindowTypes
  <2>2. shouldClose' \in BOOLEAN /\ abandoned' \in BOOLEAN
    BY Zenon DEF WindowInv, WindowTypes
  <2> QED BY <2>1, <2>2, Zenon DEF WindowInv, WindowTypes, ClosingInv
<1>2. ASSUME Orderly' PROVE ~owner[w] /\ UNCHANGED <<attached, shouldClose>> /\ Orderly
  BY <1>2 DEF WindowInv, WindowTypes, OwnerInv, Orderly
<1>3. ASSUME Orderly' PROVE OwnerInv' /\ LeavingInv'
  BY <1>2, <1>3 DEF WindowInv, WindowTypes, OwnerInv, LeavingInv
<1>4. ASSUME Orderly', ~hurried' PROVE AskedInv'
  BY <1>2, <1>4 DEF WindowInv, WindowTypes, AskedInv
<1> QED BY <1>1, <1>3, <1>4 DEF WindowInv

\* The user closes the window.
LEMMA UserClosesStep ==
    ASSUME WindowInv, Window!UserCloses PROVE WindowInv'
<1> USE DEF Window!UserCloses
<1>1. WindowTypes' /\ ClosingInv'
  BY DEF WindowInv, WindowTypes, ClosingInv
<1>2. Orderly' => OwnerInv' /\ LeavingInv'
  BY DEF WindowInv, Orderly, OwnerInv, LeavingInv
<1>3. AskedInv'
  BY DEF AskedInv
<1> QED BY <1>1, <1>2, <1>3 DEF WindowInv

\* The next window is nobody's, since nobody owned the last one.
LEMMA NewWindowStep ==
    ASSUME WindowInv, Window!NewWindow PROVE WindowInv'
<1> USE DEF Window!NewWindow, Window!NextApp
<1>1. WindowTypes' /\ ClosingInv'
  <2>1. window' \in Nat \ {0}
    BY DEF WindowInv, WindowTypes
  <2>2. shouldClose' \in BOOLEAN
    OBVIOUS
  <2> QED BY <2>1, <2>2 DEF WindowInv, WindowTypes, ClosingInv
<1>2. ASSUME Orderly' PROVE OwnerInv' /\ LeavingInv'
  BY <1>2 DEF WindowInv, WindowTypes, Orderly, OwnerInv, LeavingInv
<1>3. ASSUME Orderly', ~hurried' PROVE AskedInv'
  BY <1>3 DEF WindowInv, Orderly, AskedInv
<1> QED BY <1>1, <1>2, <1>3 DEF WindowInv

\* exit() has ended for the innermost object, which was the only one to own the
\* window.
LEMMA ExitStep ==
    ASSUME WindowInv, Window!ExitEnds PROVE WindowInv'
<1> DEFINE w == leaving[Len(leaving)]
<1>0. /\ leaving \in Seq(Windows) /\ leaving # <<>>
      /\ Len(leaving) \in 1..Len(leaving)
      /\ w \in Windows
  BY DEF WindowInv, WindowTypes, Window!ExitEnds
<1>1. /\ Window!LeaveWindow(w)
      /\ UNCHANGED <<live, abandoned, hurried, reentered>>
      /\ leaving' = SubSeq(leaving, 1, Len(leaving) - 1)
      /\ \/ /\ closing
            /\ window' = window + 1
            /\ shouldClose' = FALSE
            /\ closing' = FALSE
            /\ asked' = asked
         \/ /\ shouldClose' = (shouldClose \/ attached[w] = window)
            /\ asked' = asked \ {w}
            /\ UNCHANGED <<window, closing>>
  BY DEF Window!ExitEnds, Window!NextApp
<1>2. /\ attached' = [attached EXCEPT ![w] = 0]
      /\ owner' = [owner EXCEPT ![w] = FALSE]
      /\ exists' = FALSE
  BY <1>1 DEF Window!LeaveWindow, Window!Nowhere
<1>3. /\ leaving' \in Seq(Windows)
      /\ Len(leaving') = Len(leaving) - 1
  <2>1. Len(leaving) \in Nat /\ Len(leaving) >= 1
    BY <1>0
  <2>2. \A i \in 1..(Len(leaving) - 1) : leaving[i] \in Windows
    BY <1>0, <2>1
  <2> DEFINE n == Len(leaving) - 1
  <2>3. n \in Nat /\ n \in Int /\ 1 \in Int /\ n - 1 + 1 = n /\ 1..n \subseteq 1..Len(leaving)
    BY <2>1
  <2>4. leaving' = SubSeq(leaving, 1, n)
    BY <1>1
  <2>5. n = Len(leaving) - 1
    OBVIOUS
  <2> HIDE DEF n
  <2>6. /\ leaving' \in Seq(Windows)
        /\ Len(leaving') = IF 1 <= n THEN n - 1 + 1 ELSE 0
        /\ \A i \in 1..(n - 1 + 1) : leaving'[i] = leaving[1 + i - 1]
    BY <2>2, <2>3, <2>4, <2>5, SubSeqProperties
  <2>7. Len(leaving') = n
    BY <2>3, <2>6
  <2>8. \A i \in 1..n : leaving'[i] = leaving[i]
    BY <2>3, <2>6
  <2> QED BY <2>3, <2>5, <2>6, <2>7, <2>8
<1>4. ASSUME Orderly' PROVE OwnerInv /\ LeavingInv
  BY <1>1, <1>4 DEF WindowInv, Orderly
<1>5. ASSUME Orderly', NEW v \in Windows, owner[v] PROVE v = w
  BY <1>0, <1>4, <1>5 DEF LeavingInv
<1> HIDE DEF w
<1>6. WindowTypes' /\ ClosingInv'
  <2>1. attached' \in [Windows -> Nat] /\ owner' \in [Windows -> BOOLEAN] /\ exists' \in BOOLEAN
    BY <1>0, <1>2 DEF WindowInv, WindowTypes
  <2>2. window' \in Nat \ {0} /\ asked' \subseteq Windows
    BY <1>1 DEF WindowInv, WindowTypes
  <2>3. shouldClose' \in BOOLEAN /\ closing' \in BOOLEAN
    BY <1>1, Zenon DEF WindowInv, WindowTypes
  <2>4. ClosingInv'
    BY <1>1 DEF WindowInv, ClosingInv
  <2> QED BY <1>1, <1>3, <2>1, <2>2, <2>3, <2>4 DEF WindowInv, WindowTypes
<1>7. ASSUME Orderly' PROVE \A v \in Windows : ~owner'[v] /\ attached'[v] = 0
  <2> SUFFICES ASSUME NEW v \in Windows PROVE ~owner'[v] /\ attached'[v] = 0
    OBVIOUS
  <2>1. CASE v = w
    BY <1>0, <1>2, <2>1 DEF WindowInv, WindowTypes
  <2>2. CASE v # w
    <3>1. ~owner[v]
      BY <1>5, <1>7, <2>2
    <3>2. attached[v] = 0
      BY <1>4, <1>7, <3>1 DEF OwnerInv
    <3> QED BY <1>2, <2>2, <3>1, <3>2 DEF WindowInv, WindowTypes
  <2> QED BY <2>1, <2>2
<1>8. ASSUME Orderly' PROVE OwnerInv' /\ LeavingInv'
  BY <1>2, <1>7, <1>8 DEF OwnerInv, LeavingInv
<1>9. ASSUME Orderly', ~hurried' PROVE AskedInv'
  <2>1. AskedInv
    BY <1>1, <1>9 DEF WindowInv, Orderly
  <2>2. \A v \in asked : v = w
    BY <1>5, <1>9, <2>1 DEF AskedInv, WindowInv, WindowTypes
  <2>3. asked' = {}
    <3>1. CASE asked' = asked \ {w}
      BY <2>2, <3>1
    <3>2. CASE closing /\ asked' = asked
      BY <2>1, <3>2 DEF WindowInv, ClosingInv, AskedInv
    <3> QED BY <1>1, <3>1, <3>2
  <2> QED BY <2>3 DEF AskedInv
<1> QED BY <1>6, <1>8, <1>9 DEF WindowInv

\* Steps of listeners and of clocks leave the window alone.
LEMMA OtherSteps ==
    ASSUME WindowInv, UNCHANGED windowVars PROVE WindowInv'
BY DEF windowVars, WindowInv, WindowTypes, ClosingInv, Orderly, OwnerInv, LeavingInv, AskedInv

\* Every step keeps the invariant.
LEMMA StepWindow == WindowInv /\ [CNext]_vars => WindowInv'
<1> SUFFICES ASSUME WindowInv, [CNext]_vars PROVE WindowInv'
  OBVIOUS
<1>1. CASE LuaStep
  <2>1. CASE LuaUsesListeners \/ LuaUsesClock \/ \E o \in Objects : NewClock(o)
    BY <2>1, OtherSteps DEF LuaUsesListeners, LuaUsesClock, NewClock
  <2>2. CASE LuaUsesWindow
    BY <2>2, CreateStep, DestroyStep, CollectStep DEF LuaUsesWindow
  <2> QED BY <1>1, <2>1, <2>2 DEF LuaStep
<1>2. CASE CloseWindow
  BY <1>2, CloseStep, NewWindowStep DEF CloseWindow
<1>3. CASE User
  BY <1>3, UserClosesStep DEF User
<1>4. CASE MainStep \/ Frame \/ ClockCalls \/ ClockEnds \/ Collide
  BY <1>4, OtherSteps DEF MainStep, Frame, ClockCalls, ClockEnds, Collide
<1>5. CASE UNCHANGED vars
  BY <1>5, OtherSteps DEF vars
<1>6. CASE LeaveWindow
  BY <1>6, ExitStep DEF LeaveWindow
<1> QED BY <1>1, <1>2, <1>3, <1>4, <1>5, <1>6 DEF CNext

\* The invariant holds in every state.
LEMMA WindowInvariant == CallbacksSpec => []WindowInv
<1> QED BY InitWindow, StepWindow, PTL DEF CallbacksSpec

-----------------------------------------------------------------------------
\* As long as no owner has been collected and no exit listener has created a
\* window, exists says that exactly one object owns the window of the app that
\* runs and hears its events (pdWindow::exists and pdWindow::owner).
THEOREM OneOwner == CallbacksSpec => []ExistsHasOwner
<1>1. WindowInv => ExistsHasOwner
  BY DEF WindowInv, WindowTypes, Orderly, OwnerInv, ExistsHasOwner, Window!ExistsHasOwner, Window!Nowhere
<1> QED BY <1>1, WindowInvariant, PTL

\* A window that Lua code has created stays its own until it destroys it or the
\* user closes it, but for the three named cases.
THEOREM OwnersKeep == CallbacksSpec => []KeepsWindow
<1>1. WindowInv => KeepsWindow
  BY DEF WindowInv, WindowTypes, Orderly, OwnerInv, AskedInv, KeepsWindow, Window!KeepsWindow
<1> QED BY <1>1, WindowInvariant, PTL

-----------------------------------------------------------------------------
(* Sorting the vector *)

Before(i, j) ==
    \/ slots[i].order < slots[j].order
    \/ slots[i].order = slots[j].order /\ i <= j

NotAfter(i) == {j \in 1..size : Before(j, i)}

Place(i) == Cardinality(NotAfter(i))

VecTypes == slots \in Seq(Pairs) /\ size \in 0..Len(slots)

\* The element that sorting puts at n.
From(n) == CHOOSE i \in 1..size : Place(i) = n

\* The pairs of the vector are of their type.
LEMMA PairTypes ==
    ASSUME VecTypes
    PROVE  /\ size \in Nat
           /\ Len(slots) \in Nat
           /\ \A i \in 1..Len(slots) : /\ slots[i] \in Pairs
                                       /\ slots[i].data \in Instances
                                       /\ slots[i].order \in Int
           /\ \A i \in 1..size : i \in 1..Len(slots)
<1>1. Len(slots) \in Nat
  BY LenProperties DEF VecTypes
<1>2. \A i \in 1..Len(slots) : slots[i] \in Pairs
  BY ElementOfSeq DEF VecTypes
<1>3. \A p \in Pairs : p.data \in Instances /\ p.order \in Int
  BY PrioritiesAssumption DEF Pairs
<1> QED BY <1>1, <1>2, <1>3 DEF VecTypes

\* An element that comes before another has fewer before it.
LEMMA PlaceGrows ==
    ASSUME VecTypes, NEW i \in 1..size, NEW j \in 1..size, i # j, Before(i, j)
    PROVE  Place(i) < Place(j)
<1>0. \A k \in 1..size : slots[k].order \in Int /\ k \in Int
  BY PairTypes
<1>1. IsFiniteSet(NotAfter(j))
  <2>1. size \in Int
    BY PairTypes
  <2>2. IsFiniteSet(1..size)
    BY <2>1, FS_Interval
  <2>3. NotAfter(j) \in SUBSET (1..size)
    BY DEF NotAfter
  <2> QED BY <2>2, <2>3, FS_Subset
<1>2. \A k \in 1..size : Before(k, i) => Before(k, j)
  BY <1>0 DEF Before
<1>3. NotAfter(i) \in SUBSET NotAfter(j)
  BY <1>2 DEF NotAfter
<1>4. j \in NotAfter(j) /\ j \notin NotAfter(i)
  <2>1. Before(j, j) /\ ~Before(j, i)
    BY <1>0 DEF Before
  <2> QED BY <2>1 DEF NotAfter
<1>5. /\ IsFiniteSet(NotAfter(i))
      /\ Cardinality(NotAfter(i)) <= Cardinality(NotAfter(j))
      /\ Cardinality(NotAfter(i)) # Cardinality(NotAfter(j))
  BY <1>1, <1>3, <1>4, FS_Subset
<1>6. Cardinality(NotAfter(i)) \in Nat /\ Cardinality(NotAfter(j)) \in Nat
  BY <1>1, <1>5, FS_CardinalityType
<1> QED BY <1>5, <1>6 DEF Place

\* Places are those of the vector.
LEMMA PlaceType ==
    ASSUME VecTypes, NEW i \in 1..size
    PROVE  Place(i) \in 1..size
<1>1. size \in Nat /\ size \in Int /\ slots[i].order \in Int /\ i \in Int
  BY PairTypes
<1>2. IsFiniteSet(1..size) /\ Cardinality(1..size) = size
  BY <1>1, FS_Interval
<1>3. NotAfter(i) \in SUBSET (1..size)
  BY DEF NotAfter
<1>4. IsFiniteSet(NotAfter(i)) /\ Place(i) <= size
  BY <1>2, <1>3, FS_Subset DEF Place
<1>5. Place(i) \in Nat
  BY <1>4, FS_CardinalityType DEF Place
<1>6. i \in NotAfter(i)
  BY <1>1 DEF NotAfter, Before
<1>7. Place(i) # 0
  BY <1>4, <1>6, FS_EmptySet DEF Place
<1> QED BY <1>1, <1>4, <1>5, <1>7

\* Each place is that of one element.
LEMMA FromPlace ==
    ASSUME VecTypes
    PROVE  /\ \A n \in 1..size : From(n) \in 1..size /\ Place(From(n)) = n
           /\ \A i \in 1..size : Place(i) \in 1..size /\ From(Place(i)) = i
<1> DEFINE place == [i \in 1..size |-> Place(i)]
<1>1. place \in [1..size -> 1..size]
  BY PlaceType
<1>2. \A i, j \in 1..size : Place(i) = Place(j) => i = j
  <2> SUFFICES ASSUME NEW i \in 1..size, NEW j \in 1..size, i # j
               PROVE  Place(i) # Place(j)
    OBVIOUS
  <2>1. Before(i, j) \/ Before(j, i)
    BY PairTypes DEF Before
  <2>2. Place(i) < Place(j) \/ Place(j) < Place(i)
    BY <2>1, PlaceGrows
  <2>3. Place(i) \in 1..size /\ Place(j) \in 1..size
    BY PlaceType
  <2> QED BY <2>2, <2>3
<1>3. place \in Injection(1..size, 1..size)
  BY <1>1, <1>2, Fun_IsInj
<1>4. IsFiniteSet(1..size)
  BY PairTypes, FS_Interval
<1>5. place \in Surjection(1..size, 1..size)
  BY <1>3, <1>4, FS_Injection
<1>6. \A n \in 1..size : \E i \in 1..size : Place(i) = n
  BY <1>5 DEF Surjection
<1>7. \A n \in 1..size : From(n) \in 1..size /\ Place(From(n)) = n
  BY <1>6 DEF From
<1>8. \A i \in 1..size : Place(i) \in 1..size
  BY PlaceType
<1> QED BY <1>2, <1>7, <1>8

LEMMA SortedIs == Sorted = [n \in 1..size |-> slots[From(n)]]
  BY DEF Sorted, From, Place, NotAfter, Before

\* Sorting moves the elements of the vector and leaves the memory behind it.
LEMMA ResortMoves ==
    ASSUME VecTypes, Resort
    PROVE  /\ slots' \in Seq(Pairs)
           /\ Len(slots') = Len(slots)
           /\ \A n \in 1..size : slots'[n] = slots[From(n)]
           /\ \A i \in 1..Len(slots) : i \notin 1..size => slots'[i] = slots[i]
<1> DEFINE rest == SubSeq(slots, size + 1, Len(slots))
<1>0. size \in Nat /\ Len(slots) \in Nat /\ size <= Len(slots)
  BY PairTypes DEF VecTypes
<1>1. Sorted \in [1..size -> Pairs]
  BY SortedIs, FromPlace, PairTypes
<1>2. Sorted \in Seq(Pairs) /\ Len(Sorted) = size
  <2>1. Sorted \in Seq(Pairs)
    BY <1>0, <1>1, SeqDef
  <2> QED BY <1>0, <1>1, <2>1, LenProperties
<1>3. /\ rest \in Seq(Pairs)
      /\ Len(rest) = Len(slots) - size
      /\ \A i \in 1..Len(rest) : rest[i] = slots[size + i]
  <2>1. \A i \in (size + 1)..Len(slots) : slots[i] \in Pairs
    BY <1>0, PairTypes
  <2>2. /\ rest \in Seq(Pairs)
        /\ Len(rest) = IF size + 1 <= Len(slots) THEN Len(slots) - (size + 1) + 1 ELSE 0
        /\ \A i \in 1..(Len(slots) - (size + 1) + 1) : rest[i] = slots[size + 1 + i - 1]
    BY <1>0, <2>1, SubSeqProperties
  <2> HIDE DEF rest
  <2> QED BY <1>0, <2>2
<1>4. slots' = Sorted \o rest
  BY DEF Resort
<1> HIDE DEF rest
<1>5. /\ slots' \in Seq(Pairs)
      /\ Len(slots') = Len(slots)
      /\ \A i \in 1..Len(slots) : slots'[i] = IF i <= size THEN Sorted[i] ELSE rest[i - size]
  BY <1>0, <1>2, <1>3, <1>4, ConcatProperties
<1>6. \A n \in 1..size : slots'[n] = slots[From(n)]
  BY <1>0, <1>5, SortedIs
<1>7. ASSUME NEW i \in 1..Len(slots), i \notin 1..size PROVE slots'[i] = slots[i]
  <2>1. i - size \in 1..Len(rest) /\ ~(i <= size) /\ size + (i - size) = i
    BY <1>0, <1>3, <1>7
  <2>2. rest[i - size] = slots[size + (i - size)]
    BY <1>3, <2>1
  <2> QED BY <1>5, <2>1, <2>2
<1> QED BY <1>5, <1>6, <1>7

\* The vector is in the order of the priorities after it.
LEMMA ResortOrders ==
    ASSUME VecTypes, Resort
    PROVE  \A n, m \in 1..size : n < m => slots'[n].order <= slots'[m].order
<1> SUFFICES ASSUME NEW n \in 1..size, NEW m \in 1..size, n < m
             PROVE  slots[From(n)].order <= slots[From(m)].order
  BY ResortMoves
<1>1. /\ From(n) \in 1..size /\ From(m) \in 1..size
      /\ Place(From(n)) = n /\ Place(From(m)) = m
  BY FromPlace
<1>2. ~ (Place(From(m)) < Place(From(n)))
  BY <1>1, PairTypes
<1>3. From(n) # From(m)
  BY <1>1
<1>4. ~Before(From(m), From(n))
  BY <1>1, <1>2, <1>3, PlaceGrows
<1> QED BY <1>1, <1>4, PairTypes DEF Before

-----------------------------------------------------------------------------
(* The other operations on the vector *)

LEMMA FindIs ==
    ASSUME VecTypes, NEW x
    PROVE  /\ findDataPair(x) # 0 => /\ findDataPair(x) \in 1..size
                                     /\ slots[findDataPair(x)].data = x
           /\ findDataPair(x) = 0 => \A i \in 1..size : slots[i].data # x
<1>1. CASE \E i \in 1..size : slots[i].data = x
  <2>1. findDataPair(x) = CHOOSE i \in 1..size : slots[i].data = x
    BY <1>1 DEF findDataPair
  <2>2. findDataPair(x) \in 1..size /\ slots[findDataPair(x)].data = x
    BY <1>1, <2>1
  <2> QED BY <2>2, PairTypes
<1>2. CASE ~ \E i \in 1..size : slots[i].data = x
  BY <1>2 DEF findDataPair
<1> QED BY <1>1, <1>2

\* push_back leaves the elements where they are, seen from the beginning; what
\* is behind them is as it was, or a copy.
LEMMA PushBackMoves ==
    ASSUME VecTypes, NEW x \in Instances, NEW f \in Priorities, PushBack(x, f)
    PROVE  /\ slots' \in Seq(Pairs)
           /\ size' = size + 1
           /\ size' <= Len(slots')
           /\ Len(slots) <= Len(slots')
           /\ \A i \in 1..size : slots'[i] = slots[i]
           /\ slots'[size + 1] = [data |-> x, order |-> f]
           /\ \A i \in 1..Len(slots') :
                 \/ slots'[i] = [data |-> x, order |-> f]
                 \/ i \in 1..Len(slots) /\ slots'[i] = slots[i]
<1> DEFINE pair == [data |-> x, order |-> f]
<1>0. size \in Nat /\ Len(slots) \in Nat /\ size <= Len(slots)
  BY PairTypes DEF VecTypes
<1>1. pair \in Pairs /\ slots \in Seq(Pairs)
  BY DEF Pairs, VecTypes
<1>2. size' = size + 1
  BY DEF PushBack
<1>3. CASE size < Len(slots)
  <2>1. slots' = [slots EXCEPT ![size + 1] = pair]
    BY <1>3 DEF PushBack
  <2>2. size + 1 \in 1..Len(slots)
    BY <1>0, <1>3
  <2>3. /\ slots' \in Seq(Pairs)
        /\ Len(slots') = Len(slots)
        /\ \A i \in 1..Len(slots) : slots'[i] = IF i = size + 1 THEN pair ELSE slots[i]
    BY <1>1, <2>1, <2>2, ExceptSeq
  <2> HIDE DEF pair
  <2>4. \A i \in 1..size : slots'[i] = slots[i]
    BY <1>0, <2>3
  <2>5. size' <= Len(slots') /\ Len(slots) <= Len(slots')
    BY <1>0, <1>2, <2>2, <2>3
  <2>6. slots'[size + 1] = pair
    BY <2>2, <2>3
  <2> QED BY <1>2, <2>3, <2>4, <2>5, <2>6 DEF pair
<1>4. CASE ~(size < Len(slots))
  <2> DEFINE filler == [i \in 1..(size - 1) |-> pair]
  <2>1. size = Len(slots)
    BY <1>0, <1>4
  <2>2. slots' = Append(vec, pair) \o filler
    BY <1>4 DEF PushBack
  <2>3. vec = slots
    <3>1. vec = SubSeq(slots, 1, Len(slots))
      BY <2>1 DEF vec
    <3> QED BY <1>1, <3>1, SubSeqFull
  <2> HIDE DEF pair
  <2>4. /\ Append(slots, pair) \in Seq(Pairs)
        /\ Len(Append(slots, pair)) = size + 1
        /\ \A i \in 1..size : Append(slots, pair)[i] = slots[i]
        /\ Append(slots, pair)[size + 1] = pair
    BY <1>1, <2>1, AppendProperties
  <2>5. /\ filler \in Seq(Pairs)
        /\ Len(filler) \in Nat
        /\ \A i \in 1..Len(filler) : filler[i] = pair
    <3> DEFINE n == IF size = 0 THEN 0 ELSE size - 1
    <3>1. n \in Nat /\ 1..(size - 1) = 1..n
      BY <1>0
    <3> HIDE DEF n
    <3>2. filler \in [1..n -> Pairs] /\ \A i \in 1..n : filler[i] = pair
      BY <1>1, <3>1
    <3> HIDE DEF filler
    <3>3. filler \in Seq(Pairs)
      BY <3>1, <3>2, SeqDef
    <3>4. Len(filler) = n
      BY <3>1, <3>2, <3>3, LenProperties
    <3> QED BY <3>1, <3>2, <3>3, <3>4
  <2> HIDE DEF filler
  <2>6. /\ slots' \in Seq(Pairs)
        /\ Len(slots') = size + 1 + Len(filler)
        /\ \A i \in 1..(size + 1 + Len(filler)) : slots'[i] =
              IF i <= size + 1 THEN Append(slots, pair)[i] ELSE filler[i - (size + 1)]
    <3> DEFINE front == Append(slots, pair)
    <3>1. slots' = front \o filler
      BY <2>2, <2>3
    <3>2. front \in Seq(Pairs) /\ Len(front) = size + 1
      BY <2>4
    <3> HIDE DEF front
    <3>3. /\ slots' \in Seq(Pairs)
          /\ Len(slots') = Len(front) + Len(filler)
          /\ \A i \in 1..(Len(front) + Len(filler)) : slots'[i] =
                IF i <= Len(front) THEN front[i] ELSE filler[i - Len(front)]
      BY <2>5, <3>1, <3>2, ConcatProperties
    <3> QED BY <3>2, <3>3 DEF front
  <2>7. ASSUME NEW i \in 1..size PROVE slots'[i] = slots[i]
    BY <1>0, <2>4, <2>5, <2>6
  <2>8. slots'[size + 1] = pair
    BY <1>0, <2>4, <2>5, <2>6
  <2>9. ASSUME NEW i \in 1..Len(slots'), i \notin 1..size PROVE slots'[i] = pair
    <3>1. CASE i = size + 1
      BY <2>8, <3>1
    <3>2. CASE i # size + 1
      <4>1. i - (size + 1) \in 1..Len(filler) /\ ~(i <= size + 1)
        BY <1>0, <2>5, <2>6, <2>9, <3>2
      <4> QED BY <2>5, <2>6, <4>1
    <3> QED BY <3>1, <3>2
  <2>10. size' <= Len(slots') /\ Len(slots) <= Len(slots')
    BY <1>0, <1>2, <2>1, <2>5, <2>6
  <2> QED BY <1>2, <2>1, <2>6, <2>7, <2>8, <2>9, <2>10 DEF pair
<1> QED BY <1>3, <1>4

\* erase moves down what is above the element, and leaves the rest.
LEMMA EraseMoves ==
    ASSUME VecTypes, NEW x, Erase(x)
    PROVE  \E k \in 1..size :
              /\ slots[k].data = x
              /\ size' = size - 1
              /\ slots' \in Seq(Pairs)
              /\ Len(slots') = Len(slots)
              /\ \A i \in 1..Len(slots) :
                    slots'[i] = IF k <= i /\ i < size THEN slots[i + 1] ELSE slots[i]
<1> DEFINE k == findDataPair(x)
<1>0. size \in Nat /\ Len(slots) \in Nat /\ size <= Len(slots)
  BY PairTypes DEF VecTypes
<1>1. k \in 1..size /\ slots[k].data = x
  BY FindIs DEF Erase
<1>2. slots' = [i \in 1..Len(slots) |-> IF i \in k..(size - 1) THEN slots[i + 1] ELSE slots[i]]
  BY DEF Erase
<1> HIDE DEF k
<1>3. ASSUME NEW i \in 1..Len(slots)
      PROVE  slots'[i] = IF k <= i /\ i < size THEN slots[i + 1] ELSE slots[i]
  <2>1. i \in k..(size - 1) <=> k <= i /\ i < size
    BY <1>0, <1>1
  <2> QED BY <1>2, <2>1
<1>4. slots' \in [1..Len(slots) -> Pairs]
  <2>1. ASSUME NEW i \in 1..Len(slots)
        PROVE  (IF i \in k..(size - 1) THEN slots[i + 1] ELSE slots[i]) \in Pairs
    <3>1. i \in k..(size - 1) => i + 1 \in 1..Len(slots)
      BY <1>0, <1>1
    <3> QED BY <3>1, PairTypes
  <2> QED BY <1>2, <2>1
<1>5. slots' \in Seq(Pairs) /\ Len(slots') = Len(slots)
  <2>1. slots' \in Seq(Pairs)
    BY <1>0, <1>4, SeqDef
  <2> QED BY <1>0, <1>4, <2>1, LenProperties
<1>6. size' = size - 1
  BY DEF Erase
<1> QED BY <1>1, <1>3, <1>5, <1>6

-----------------------------------------------------------------------------
(* What an event calls *)

\* The iterator stays inside memory that was the vector's, and a listener runs
\* for an element only.
LoopInv ==
    /\ end <= Len(slots)
    /\ called \in Seq(Instances)
    /\ at = 0 => end = 0 /\ called = <<>> /\ lua # "listener"
    /\ lua = "listener" => at \in 1..end

\* The vector holds each listener once, with the priority it asked for last.
VecInv ==
    /\ \A i, j \in 1..size : slots[i].data = slots[j].data => i = j
    /\ DOMAIN wanted = {slots[i].data : i \in 1..size}
    /\ \A i \in 1..size : wanted[slots[i].data] = slots[i].order

\* While nobody disturbs an event, its elements stay where they are, and those
\* up to the iterator have been called.
EventInv ==
    at # 0 /\ disturbed = {} =>
        /\ end <= size
        /\ Len(called) = IF lua = "listener" THEN at ELSE at - 1
        /\ \A i \in 1..Len(called) : called[i] = slots[i].data
        /\ DOMAIN expected = {slots[i].data : i \in 1..end}
        /\ \A i, j \in 1..end : i < j => expected[slots[i].data] <= expected[slots[j].data]

ListenersInv == TypeOK /\ LoopInv /\ VecInv /\ EventInv

\* What the types say of the numbers.
LEMMA Numbers ==
    ASSUME TypeOK, LoopInv
    PROVE  /\ VecTypes
           /\ size \in Nat /\ end \in Nat /\ at \in Nat
           /\ Len(slots) \in Nat /\ Len(called) \in Nat
           /\ at <= end + 1
           /\ end <= Len(slots)
           /\ size <= Len(slots)
<1>1. VecTypes
  BY DEF TypeOK, VecTypes
<1>2. end \in Nat /\ at \in 0..(end + 1)
  BY DEF TypeOK
<1>3. Len(called) \in Nat
  BY LenProperties DEF LoopInv
<1>4. size \in 0..Len(slots)
  BY DEF TypeOK
<1> QED BY <1>1, <1>2, <1>3, <1>4, PairTypes DEF LoopInv

\* A step that leaves the elements of the event where they are leaves EventInv.
LEMMA EventKept ==
    ASSUME TypeOK, LoopInv, EventInv,
           UNCHANGED <<at, end, lua, called, expected>>,
           at # 0 /\ disturbed' = {} =>
               /\ disturbed = {}
               /\ end <= size'
               /\ \A i \in 1..end : slots'[i].data = slots[i].data
    PROVE  EventInv'
<1> SUFFICES ASSUME at # 0, disturbed' = {}
             PROVE  /\ end <= size'
                    /\ Len(called) = IF lua = "listener" THEN at ELSE at - 1
                    /\ \A i \in 1..Len(called) : called[i] = slots'[i].data
                    /\ DOMAIN expected = {slots'[i].data : i \in 1..end}
                    /\ \A i, j \in 1..end : i < j =>
                          expected[slots'[i].data] <= expected[slots'[j].data]
  BY Zenon DEF EventInv
<1>1. /\ disturbed = {} /\ end <= size'
      /\ \A i \in 1..end : slots'[i].data = slots[i].data
  OBVIOUS
<1>2. /\ Len(called) = IF lua = "listener" THEN at ELSE at - 1
      /\ \A i \in 1..Len(called) : called[i] = slots[i].data
      /\ DOMAIN expected = {slots[i].data : i \in 1..end}
      /\ \A i, j \in 1..end : i < j => expected[slots[i].data] <= expected[slots[j].data]
  BY <1>1 DEF EventInv
<1>3. Len(called) <= end
  BY <1>2, Numbers DEF LoopInv
<1>4. \A i \in 1..Len(called) : called[i] = slots'[i].data
  <2> SUFFICES ASSUME NEW i \in 1..Len(called) PROVE called[i] = slots'[i].data
    OBVIOUS
  <2>1. i \in 1..end
    BY <1>3, Numbers
  <2> QED BY <1>1, <1>2, <2>1
<1>5. {slots'[i].data : i \in 1..end} = {slots[i].data : i \in 1..end}
  BY <1>1
<1> QED BY <1>1, <1>2, <1>4, <1>5

\* An instance that getByName finds.
LEMMA Found ==
    ASSUME TypeOK, NEW o \in Objects, made[o] > 0
    PROVE  getByName(o) \in Instances
<1>1. made[o] \in 1..MaxInstances
  BY MaxInstancesAssumption DEF TypeOK
<1> QED BY <1>1 DEF getByName, Alive, Instances

\* addListener keeps one element for each listener.
LEMMA AddStep ==
    ASSUME ListenersInv, NEW o \in Objects, NEW f \in Priorities, AddListener(o, f)
    PROVE  ListenersInv'
<1> DEFINE x == getByName(o)
<1>0. TypeOK /\ LoopInv /\ VecInv /\ EventInv
  BY DEF ListenersInv
<1>1. x \in Instances
  BY <1>0, Found DEF AddListener
<1>2. VecTypes /\ size \in Nat /\ end \in Nat /\ Len(slots) \in Nat /\ size <= Len(slots) /\ end <= Len(slots)
  BY <1>0, Numbers
<1>3. /\ UNCHANGED <<made, at, end, lua, fate, expected, called, disturbed>>
      /\ wanted' = [y \in DOMAIN wanted \union {x} |-> IF y = x THEN f ELSE wanted[y]]
      /\ ChangeOrder(x, f) \/ PushBack(x, f)
  BY DEF AddListener
<1> HIDE DEF x
<1>4. /\ DOMAIN wanted' = DOMAIN wanted \union {x}
      /\ wanted'[x] = f
      /\ \A y \in DOMAIN wanted : y # x => wanted'[y] = wanted[y]
  BY <1>3
<1>5. CASE ChangeOrder(x, f)
  <2> DEFINE k == findDataPair(x)
  <2>1. k \in 1..size /\ slots[k].data = x
    BY <1>2, <1>5, FindIs DEF ChangeOrder
  <2>2. slots' = [slots EXCEPT ![k].order = f] /\ size' = size
    BY <1>5 DEF ChangeOrder
  <2> HIDE DEF k
  <2>3. [slots[k] EXCEPT !.order = f] = [data |-> x, order |-> f]
    <3>1. slots[k] \in Pairs
      BY <1>2, <2>1, PairTypes
    <3> QED BY <2>1, <3>1 DEF Pairs
  <2>4. slots' = [slots EXCEPT ![k] = [data |-> x, order |-> f]]
    BY <2>2, <2>3
  <2>5. /\ slots' \in Seq(Pairs)
        /\ Len(slots') = Len(slots)
        /\ \A i \in 1..Len(slots) : slots'[i] = IF i = k THEN [data |-> x, order |-> f] ELSE slots[i]
    <3>1. [data |-> x, order |-> f] \in Pairs
      BY <1>1 DEF Pairs
    <3>2. slots \in Seq(Pairs) /\ k \in 1..Len(slots)
      BY <1>2, <2>1 DEF VecTypes
    <3> QED BY <2>4, <3>1, <3>2, ExceptSeq
  <2>6. \A i \in 1..Len(slots) : slots'[i].data = slots[i].data
    BY <2>1, <2>5
  <2>7. \A i \in 1..size : slots'[i].data = slots[i].data
    BY <1>2, <2>6
  <2>8. TypeOK'
    BY <1>0, <1>3, <2>2, <2>5 DEF TypeOK
  <2>9. LoopInv'
    BY <1>0, <1>3, <2>5 DEF LoopInv
  <2>10. VecInv'
    <3>1. \A i, j \in 1..size' : slots'[i].data = slots'[j].data => i = j
      BY <1>0, <2>2, <2>7 DEF VecInv
    <3>2. {slots'[i].data : i \in 1..size'} = {slots[i].data : i \in 1..size}
      BY <2>2, <2>7
    <3>3. x \in {slots[i].data : i \in 1..size}
      BY <2>1
    <3>4. DOMAIN wanted' = {slots'[i].data : i \in 1..size'}
      BY <1>0, <1>4, <3>2, <3>3 DEF VecInv
    <3>5. ASSUME NEW i \in 1..size' PROVE wanted'[slots'[i].data] = slots'[i].order
      <4>1. CASE i = k
        BY <1>2, <1>4, <2>1, <2>5, <4>1
      <4>2. CASE i # k
        <5>1. slots'[i] = slots[i] /\ slots[i].data # x /\ slots[i].data \in DOMAIN wanted
          BY <1>0, <1>2, <2>1, <2>2, <2>5, <4>2 DEF VecInv
        <5> QED BY <1>0, <1>4, <2>2, <5>1 DEF VecInv
      <4> QED BY <4>1, <4>2
    <3> QED BY <3>1, <3>4, <3>5 DEF VecInv
  <2>11. EventInv'
    <3>1. at # 0 /\ disturbed' = {} =>
              /\ disturbed = {}
              /\ end <= size'
              /\ \A i \in 1..end : slots'[i].data = slots[i].data
      BY <1>0, <1>2, <1>3, <2>2, <2>6 DEF EventInv
    <3> QED BY <1>0, <1>3, <3>1, EventKept
  <2> QED BY <2>8, <2>9, <2>10, <2>11 DEF ListenersInv
<1>6. CASE PushBack(x, f)
  <2>1. /\ slots' \in Seq(Pairs)
        /\ size' = size + 1
        /\ size' <= Len(slots')
        /\ Len(slots) <= Len(slots')
        /\ \A i \in 1..size : slots'[i] = slots[i]
        /\ slots'[size + 1] = [data |-> x, order |-> f]
    BY <1>1, <1>2, <1>6, PushBackMoves
  <2>2. Len(slots') \in Nat
    BY <2>1, LenProperties
  <2>3. TypeOK'
    BY <1>0, <1>2, <1>3, <2>1, <2>2 DEF TypeOK
  <2>4. LoopInv'
    BY <1>0, <1>2, <1>3, <2>1, <2>2 DEF LoopInv
  <2>5. VecInv'
    <3>1. \A i \in 1..size : slots[i].data # x
      BY <1>2, <1>6, FindIs DEF PushBack
    <3>2. /\ slots'[size + 1].data = x
          /\ slots'[size + 1].order = f
          /\ \A i \in 1..size' : i # size + 1 => i \in 1..size /\ slots'[i] = slots[i]
      BY <1>2, <2>1
    <3>3. \A i, j \in 1..size' : slots'[i].data = slots'[j].data => i = j
      BY <1>0, <3>1, <3>2 DEF VecInv
    <3>4. {slots'[i].data : i \in 1..size'} = {slots[i].data : i \in 1..size} \union {x}
      <4>1. 1..size' = 1..size \union {size + 1}
        BY <1>2, <2>1
      <4> QED BY <2>1, <3>2, <4>1
    <3>5. DOMAIN wanted' = {slots'[i].data : i \in 1..size'}
      BY <1>0, <1>4, <3>4 DEF VecInv
    <3>6. ASSUME NEW i \in 1..size' PROVE wanted'[slots'[i].data] = slots'[i].order
      <4>1. CASE i = size + 1
        BY <1>4, <3>2, <4>1
      <4>2. CASE i # size + 1
        <5>1. i \in 1..size /\ slots'[i] = slots[i] /\ slots[i].data # x /\ slots[i].data \in DOMAIN wanted
          BY <1>0, <3>1, <3>2, <4>2 DEF VecInv
        <5> QED BY <1>0, <1>4, <5>1 DEF VecInv
      <4> QED BY <4>1, <4>2
    <3> QED BY <3>3, <3>5, <3>6 DEF VecInv
  <2>6. EventInv'
    <3>1. at # 0 /\ disturbed' = {} =>
              /\ disturbed = {}
              /\ end <= size'
              /\ \A i \in 1..end : slots'[i].data = slots[i].data
      BY <1>0, <1>2, <1>3, <2>1 DEF EventInv
    <3> QED BY <1>0, <1>3, <3>1, EventKept
  <2> QED BY <2>3, <2>4, <2>5, <2>6 DEF ListenersInv
<1> QED BY <1>3, <1>5, <1>6

\* removeListener leaves the others; an event under way is disturbed by it.
LEMMA RemoveStep ==
    ASSUME ListenersInv, NEW o \in Objects, RemoveListener(o)
    PROVE  ListenersInv'
<1> DEFINE x == getByName(o)
<1>0. TypeOK /\ LoopInv /\ VecInv /\ EventInv
  BY DEF ListenersInv
<1>1. VecTypes /\ size \in Nat /\ end \in Nat /\ Len(slots) \in Nat /\ size <= Len(slots) /\ end <= Len(slots)
  BY <1>0, Numbers
<1>2. /\ UNCHANGED <<made, at, end, lua, fate, expected, called>>
      /\ wanted' = [y \in DOMAIN wanted \ {x} |-> wanted[y]]
      /\ disturbed' = IF at = 0 THEN disturbed ELSE disturbed \union {"removed"}
      /\ Erase(x)
  BY DEF RemoveListener
<1>3. UNCHANGED moved
  BY <1>2 DEF Erase
<1> HIDE DEF x
<1>4. PICK k \in 1..size :
         /\ slots[k].data = x
         /\ size' = size - 1
         /\ slots' \in Seq(Pairs)
         /\ Len(slots') = Len(slots)
         /\ \A i \in 1..Len(slots) :
               slots'[i] = IF k <= i /\ i < size THEN slots[i + 1] ELSE slots[i]
  BY <1>1, <1>2, EraseMoves
<1>5. TypeOK'
  <2>1. disturbed' \subseteq {"removed", "sorted"}
    BY <1>0, <1>2 DEF TypeOK
  <2>2. size' \in 0..Len(slots')
    BY <1>1, <1>4
  <2> QED BY <1>0, <1>2, <1>4, <2>1, <2>2 DEF TypeOK
<1>6. LoopInv'
  BY <1>0, <1>2, <1>4 DEF LoopInv
<1>7. VecInv'
  <2> DEFINE old(i) == IF i < k THEN i ELSE i + 1
  <2>1. ASSUME NEW i \in 1..size'
        PROVE  old(i) \in 1..size /\ old(i) # k /\ slots'[i] = slots[old(i)]
    BY <1>1, <1>4
  <2>2. ASSUME NEW i \in 1..size, i # k
        PROVE  \E j \in 1..size' : old(j) = i
    <3>1. CASE i < k
      BY <1>1, <1>4, <3>1
    <3>2. CASE i > k
      <4>1. i - 1 \in 1..size' /\ old(i - 1) = i
        BY <1>1, <1>4, <3>2
      <4> QED BY <4>1
    <3> QED BY <2>2, <3>1, <3>2, <1>1
  <2>3. ASSUME NEW i \in 1..size', NEW j \in 1..size', old(i) = old(j) PROVE i = j
    BY <1>1, <1>4, <2>3
  <2> HIDE DEF old
  <2>4. \A i, j \in 1..size' : slots'[i].data = slots'[j].data => i = j
    BY <1>0, <2>1, <2>3 DEF VecInv
  <2>5. \A i \in 1..size : i # k => slots[i].data # x
    BY <1>0, <1>4 DEF VecInv
  <2>6. DOMAIN wanted' = {slots[i].data : i \in 1..size} \ {x}
    BY <1>0, <1>2 DEF VecInv
  <2>7. {slots[i].data : i \in 1..size} \ {x} = {slots'[i].data : i \in 1..size'}
    <3>1. ASSUME NEW i \in 1..size, slots[i].data # x
          PROVE  slots[i].data \in {slots'[j].data : j \in 1..size'}
      <4>1. PICK j \in 1..size' : old(j) = i
        BY <1>4, <2>2, <3>1
      <4> QED BY <2>1, <4>1
    <3>2. ASSUME NEW j \in 1..size'
          PROVE  slots'[j].data \in {slots[i].data : i \in 1..size} /\ slots'[j].data # x
      BY <2>1, <2>5
    <3> QED BY <3>1, <3>2
  <2>8. ASSUME NEW i \in 1..size' PROVE wanted'[slots'[i].data] = slots'[i].order
    <3>1. slots[old(i)].data # x /\ wanted[slots[old(i)].data] = slots[old(i)].order
      BY <1>0, <2>1, <2>5 DEF VecInv
    <3>2. slots[old(i)].data \in DOMAIN wanted \ {x}
      BY <1>0, <2>1, <3>1 DEF VecInv
    <3> QED BY <1>2, <2>1, <3>1, <3>2
  <2> QED BY <2>4, <2>6, <2>7, <2>8 DEF VecInv
<1>8. EventInv'
  BY <1>2 DEF EventInv
<1> QED BY <1>5, <1>6, <1>7, <1>8 DEF ListenersInv

\* Sorting keeps the set of listeners and what they asked for.
LEMMA ResortKeeps ==
    ASSUME VecTypes, VecInv, Resort, UNCHANGED <<size, wanted>>
    PROVE  VecInv' /\ {slots'[i].data : i \in 1..size} = {slots[i].data : i \in 1..size}
<1>1. \A n \in 1..size : From(n) \in 1..size /\ Place(From(n)) = n /\ slots'[n] = slots[From(n)]
  BY FromPlace, ResortMoves
<1>2. \A i \in 1..size : Place(i) \in 1..size /\ From(Place(i)) = i
  BY FromPlace
<1>3. ASSUME NEW n \in 1..size, NEW m \in 1..size, slots'[n].data = slots'[m].data
      PROVE  n = m
  <2>1. From(n) = From(m)
    BY <1>1, <1>3 DEF VecInv
  <2> QED BY <1>1, <2>1
<1>4. {slots'[i].data : i \in 1..size} = {slots[i].data : i \in 1..size}
  <2>1. ASSUME NEW i \in 1..size PROVE slots[i].data \in {slots'[n].data : n \in 1..size}
    <3>1. slots'[Place(i)] = slots[i] /\ Place(i) \in 1..size
      BY <1>1, <1>2
    <3> QED BY <3>1
  <2>2. ASSUME NEW n \in 1..size PROVE slots'[n].data \in {slots[i].data : i \in 1..size}
    BY <1>1
  <2> QED BY <2>1, <2>2
<1>5. ASSUME NEW n \in 1..size PROVE wanted[slots'[n].data] = slots'[n].order
  BY <1>1 DEF VecInv
<1>6. DOMAIN wanted = {slots'[i].data : i \in 1..size}
  BY <1>4 DEF VecInv
<1>7. size' = size /\ wanted' = wanted
  OBVIOUS
<1> QED BY <1>3, <1>4, <1>5, <1>6, <1>7 DEF VecInv

\* getListenerData disturbs an event if an element of it moves.
LEMMA DataStep ==
    ASSUME ListenersInv, GetListenerData
    PROVE  ListenersInv'
<1>0. TypeOK /\ LoopInv /\ VecInv /\ EventInv
  BY DEF ListenersInv
<1>1. VecTypes /\ end <= Len(slots)
  BY <1>0, Numbers
<1>2. /\ Resort
      /\ disturbed' = IF at = 0 \/ slots' = slots THEN disturbed ELSE disturbed \union {"sorted"}
      /\ UNCHANGED <<made, size, at, end, moved, lua, fate, wanted, expected, called>>
  BY DEF GetListenerData
<1>3. slots' \in Seq(Pairs) /\ Len(slots') = Len(slots)
  BY <1>1, <1>2, ResortMoves
<1>4. TypeOK'
  <2>1. disturbed' \subseteq {"removed", "sorted"}
    BY <1>0, <1>2 DEF TypeOK
  <2> QED BY <1>0, <1>2, <1>3, <2>1 DEF TypeOK
<1>5. LoopInv'
  BY <1>0, <1>2, <1>3 DEF LoopInv
<1>6. VecInv'
  BY <1>0, <1>1, <1>2, ResortKeeps
<1>7. EventInv'
  <2>1. at # 0 /\ disturbed' = {} =>
            /\ disturbed = {}
            /\ end <= size'
            /\ \A i \in 1..end : slots'[i].data = slots[i].data
    BY <1>0, <1>2 DEF EventInv
  <2> QED BY <1>0, <1>2, <2>1, EventKept
<1> QED BY <1>4, <1>5, <1>6, <1>7 DEF ListenersInv

\* An event begins with all listeners, sorted.
LEMMA BeginStep ==
    ASSUME ListenersInv, BeginEvent
    PROVE  ListenersInv'
<1>0. TypeOK /\ LoopInv /\ VecInv /\ EventInv
  BY DEF ListenersInv
<1>1. VecTypes /\ size \in Nat /\ size <= Len(slots)
  BY <1>0, Numbers
<1>2. /\ Resort
      /\ at = 0 /\ at' = 1 /\ lua = "none"
      /\ end' = size
      /\ expected' = wanted
      /\ UNCHANGED <<made, size, moved, lua, fate, wanted, called, disturbed>>
  BY DEF BeginEvent
<1>3. slots' \in Seq(Pairs) /\ Len(slots') = Len(slots)
  BY <1>1, <1>2, ResortMoves
<1>4. TypeOK'
  BY <1>0, <1>1, <1>2, <1>3 DEF TypeOK
<1>5. LoopInv'
  BY <1>0, <1>1, <1>2, <1>3 DEF LoopInv
<1>6. VecInv'
  BY <1>0, <1>1, <1>2, ResortKeeps
<1>7. EventInv'
  <2>1. called' = <<>>
    BY <1>0, <1>2 DEF LoopInv
  <2>2. DOMAIN expected' = {slots'[i].data : i \in 1..end'}
    BY <1>2, <1>6 DEF VecInv
  <2>3. ASSUME NEW i \in 1..end', NEW j \in 1..end', i < j
        PROVE  expected'[slots'[i].data] <= expected'[slots'[j].data]
    <3>1. slots'[i].order <= slots'[j].order
      BY <1>1, <1>2, <2>3, ResortOrders
    <3> QED BY <1>2, <1>6, <3>1 DEF VecInv
  <2>4. Len(called') = 0
    BY <2>1
  <2>5. end' <= size'
    BY <1>1, <1>2
  <2>6. Len(called') = IF lua' = "listener" THEN at' ELSE at' - 1
    BY <1>2, <2>4
  <2>7. \A i \in 1..Len(called') : called'[i] = slots'[i].data
    BY <2>4
  <2> QED BY <2>2, <2>3, <2>5, <2>6, <2>7 DEF EventInv
<1> QED BY <1>4, <1>5, <1>6, <1>7 DEF ListenersInv

\* Steps that leave the vector and the loop alone keep what is said of them.
LEMMA LoopKept ==
    ASSUME ListenersInv, made' \in [Objects -> 0..MaxInstances],
           UNCHANGED <<slots, size, at, end, lua, wanted, expected, called, disturbed>>
    PROVE  ListenersInv'
<1>1. TypeOK /\ LoopInv /\ VecInv /\ EventInv
  BY DEF ListenersInv
<1>2. TypeOK'
  BY <1>1 DEF TypeOK
<1>3. LoopInv' /\ VecInv' /\ EventInv'
  BY <1>1 DEF LoopInv, VecInv, EventInv
<1> QED BY <1>2, <1>3 DEF ListenersInv

LEMMA LuaCodeStep == ListenersInv /\ LuaCode => ListenersInv'
BY AddStep, RemoveStep, DataStep DEF LuaCode

LEMMA CreateInstanceStep ==
    ASSUME ListenersInv, NEW o \in Objects, CreateInstance(o)
    PROVE  ListenersInv'
<1>1. made' \in [Objects -> 0..MaxInstances]
  BY MaxInstancesAssumption DEF ListenersInv, TypeOK, CreateInstance
<1> QED BY <1>1, LoopKept DEF CreateInstance

LEMMA RunMessageStep ==
    ASSUME ListenersInv, RunMessage
    PROVE  ListenersInv'
<1>1. TypeOK /\ LoopInv /\ VecInv /\ EventInv
  BY DEF ListenersInv
<1>2. /\ at = 0
      /\ UNCHANGED <<made, slots, size, at, end, moved, fate, wanted, expected, called, disturbed>>
  BY DEF RunMessage
<1>3. lua \in {"none", "message"}
  BY <1>1, <1>2 DEF TypeOK, LoopInv
<1>4. lua' \in {"none", "message"}
  <2>1. CASE lua = "none"
    BY <2>1 DEF RunMessage
  <2>2. CASE lua = "message"
    BY <2>2 DEF RunMessage
  <2> QED BY <1>3, <2>1, <2>2
<1>5. TypeOK'
  BY <1>1, <1>2, <1>4 DEF TypeOK
<1>6. LoopInv'
  BY <1>1, <1>2, <1>4 DEF LoopInv
<1>7. VecInv' /\ EventInv'
  BY <1>1, <1>2 DEF VecInv, EventInv
<1> QED BY <1>5, <1>6, <1>7 DEF ListenersInv

\* A call: the element at the iterator is that listener.
LEMMA CallStep ==
    ASSUME ListenersInv, CallListener
    PROVE  ListenersInv'
<1>0. TypeOK /\ LoopInv /\ VecInv /\ EventInv
  BY DEF ListenersInv
<1>1. /\ at \in 1..end /\ lua = "none"
      /\ Call \/ CallGarbage
      /\ UNCHANGED <<made, slots, size, at, end, moved, wanted, expected, disturbed>>
  BY DEF CallListener
<1>2. /\ VecTypes /\ end \in Nat /\ end <= Len(slots) /\ Len(called) \in Nat
      /\ Len(slots) \in Nat
  BY <1>0, Numbers
<1>3. CASE Call
  <2> DEFINE x == slots[at].data
  <2>1. lua' = "listener" /\ called' = Append(called, x)
    BY <1>3 DEF Call
  <2>2. x \in Instances
    BY <1>1, <1>2, PairTypes
  <2> HIDE DEF x
  <2>3. /\ called' \in Seq(Instances)
        /\ Len(called') = Len(called) + 1
        /\ \A i \in 1..Len(called) : called'[i] = called[i]
        /\ called'[Len(called) + 1] = x
    BY <1>0, <2>1, <2>2, AppendProperties DEF LoopInv
  <2>4. TypeOK'
    BY <1>0, <1>1, <2>1 DEF TypeOK
  <2>5. LoopInv'
    BY <1>0, <1>1, <2>1, <2>3 DEF LoopInv
  <2>6. VecInv'
    BY <1>0, <1>1 DEF VecInv
  <2>7. EventInv'
    <3> SUFFICES ASSUME disturbed = {}
                 PROVE  EventInv'
      BY <1>1 DEF EventInv
    <3>1. /\ end <= size
          /\ Len(called) = at - 1
          /\ \A i \in 1..Len(called) : called[i] = slots[i].data
          /\ DOMAIN expected = {slots[i].data : i \in 1..end}
          /\ \A i, j \in 1..end : i < j => expected[slots[i].data] <= expected[slots[j].data]
      BY <1>0, <1>1 DEF EventInv
    <3>2. Len(called') = at
      BY <1>1, <1>2, <2>3, <3>1
    <3>3. ASSUME NEW i \in 1..Len(called') PROVE called'[i] = slots[i].data
      <4>1. CASE i = at
        BY <1>2, <2>3, <3>1, <3>2, <4>1 DEF x
      <4>2. CASE i # at
        <5>1. i \in 1..Len(called)
          BY <1>1, <1>2, <3>1, <3>2, <4>2
        <5> QED BY <2>3, <3>1, <5>1
      <4> QED BY <4>1, <4>2
    <3> QED BY <1>1, <2>1, <3>1, <3>2, <3>3 DEF EventInv
  <2> QED BY <2>4, <2>5, <2>6, <2>7 DEF ListenersInv
<1>4. CASE CallGarbage
  <2>1. UNCHANGED <<lua, called>> /\ made' \in [Objects -> 0..MaxInstances]
    BY <1>0, <1>1, <1>4 DEF CallGarbage, TypeOK
  <2> QED BY <1>1, <2>1, LoopKept
<1> QED BY <1>1, <1>3, <1>4

LEMMA ReturnStep ==
    ASSUME ListenersInv, ListenerReturns
    PROVE  ListenersInv'
<1>0. TypeOK /\ LoopInv /\ VecInv /\ EventInv
  BY DEF ListenersInv
<1>1. /\ lua = "listener" /\ lua' = "none" /\ at' = at + 1
      /\ UNCHANGED <<made, slots, size, end, moved, fate, wanted, expected, called, disturbed>>
  BY DEF ListenerReturns
<1>2. at \in 1..end /\ end \in Nat /\ Len(called) \in Nat
  BY <1>0, <1>1, Numbers DEF LoopInv
<1>3. TypeOK'
  BY <1>0, <1>1, <1>2 DEF TypeOK
<1>4. LoopInv'
  BY <1>0, <1>1, <1>2 DEF LoopInv
<1>5. VecInv'
  BY <1>0, <1>1 DEF VecInv
<1>6. EventInv'
  <2> SUFFICES ASSUME disturbed = {}
               PROVE  EventInv'
    BY <1>1 DEF EventInv
  <2>1. /\ end <= size
        /\ Len(called) = at
        /\ \A i \in 1..Len(called) : called[i] = slots[i].data
        /\ DOMAIN expected = {slots[i].data : i \in 1..end}
        /\ \A i, j \in 1..end : i < j => expected[slots[i].data] <= expected[slots[j].data]
    BY <1>0, <1>1, <1>2 DEF EventInv
  <2>2. Len(called) = at' - 1
    BY <1>1, <1>2, <2>1
  <2> QED BY <1>1, <2>1, <2>2 DEF EventInv
<1> QED BY <1>3, <1>4, <1>5, <1>6 DEF ListenersInv

LEMMA EndStep ==
    ASSUME ListenersInv, EndEvent
    PROVE  ListenersInv'
<1>0. TypeOK /\ LoopInv /\ VecInv /\ EventInv
  BY DEF ListenersInv
<1>1. /\ at > end /\ at' = 0 /\ end' = 0
      /\ called' = <<>> /\ disturbed' = {}
      /\ UNCHANGED <<made, slots, size, lua, wanted>>
  BY DEF EndEvent
<1>2. lua # "listener"
  BY <1>0, <1>1, Numbers DEF LoopInv
<1>3. TypeOK'
  BY <1>0, <1>1 DEF TypeOK
<1>4. LoopInv'
  <2>1. Len(slots) \in Nat
    BY <1>0, Numbers
  <2>2. <<>> \in Seq(Instances)
    BY EmptySeq
  <2> QED BY <1>1, <1>2, <2>1, <2>2 DEF LoopInv
<1>5. VecInv' /\ EventInv'
  BY <1>0, <1>1 DEF VecInv, EventInv
<1> QED BY <1>3, <1>4, <1>5 DEF ListenersInv

\* Every step keeps the invariant.
LEMMA StepListeners == ListenersInv /\ [CNext]_vars => ListenersInv'
<1> SUFFICES ASSUME ListenersInv, [CNext]_vars PROVE ListenersInv'
  OBVIOUS
<1>0. made \in [Objects -> 0..MaxInstances]
  BY DEF ListenersInv, TypeOK
<1>1. ASSUME UNCHANGED <<made, slots, size, at, end, lua, wanted, expected, called, disturbed>>
      PROVE  ListenersInv'
  BY <1>0, <1>1, LoopKept
<1>2. CASE LuaStep
  <2>1. CASE LuaUsesListeners
    BY <2>1, LuaCodeStep DEF LuaUsesListeners
  <2>2. CASE LuaUsesWindow \/ LuaUsesClock \/ \E o \in Objects : NewClock(o)
    BY <1>1, <2>2 DEF LuaUsesWindow, LuaUsesClock, NewClock, listenerVars
  <2> QED BY <1>2, <2>1, <2>2 DEF LuaStep
<1>3. CASE MainStep
  BY <1>3, CreateInstanceStep, RunMessageStep, CallStep, ReturnStep, EndStep
     DEF MainStep, MainThread
<1>4. CASE Frame
  BY <1>4, BeginStep DEF Frame
<1>5. CASE CloseWindow \/ LeaveWindow \/ User \/ ClockCalls \/ ClockEnds \/ Collide
  BY <1>1, <1>5 DEF CloseWindow, LeaveWindow, User, ClockCalls, ClockEnds, Collide, listenerVars
<1>6. CASE UNCHANGED vars
  BY <1>1, <1>6 DEF vars, listenerVars
<1> QED BY <1>2, <1>3, <1>4, <1>5, <1>6 DEF CNext

LEMMA InitListeners == CInit => ListenersInv
<1> SUFFICES ASSUME Init PROVE ListenersInv
  BY DEF CInit
<1>1. Len(<<>>) = 0 /\ <<>> \in Seq(Pairs) /\ <<>> \in Seq(Instances)
  BY EmptySeq
<1>2. TypeOK
  <2>1. made \in [Objects -> 0..MaxInstances]
    BY MaxInstancesAssumption DEF Init
  <2> QED BY <1>1, <2>1 DEF Init, TypeOK
<1>3. LoopInv
  BY <1>1 DEF Init, LoopInv
<1>4. VecInv
  BY DEF Init, VecInv, NoListeners
<1>5. EventInv
  BY DEF Init, EventInv
<1> QED BY <1>2, <1>3, <1>4, <1>5 DEF ListenersInv

LEMMA ListenersInvariant == CallbacksSpec => []ListenersInv
<1> QED BY InitListeners, StepListeners, PTL DEF CallbacksSpec

\* The vector's memory holds listeners and priorities, what is used of it is
\* not more than there is, and the iterator of a loop stays inside of what the
\* vector was when the event began (ofxOfeliaEvents::callEventListeners).
THEOREM LoopTypes == CallbacksSpec => []TypeOK
<1>1. ListenersInv => TypeOK
  BY DEF ListenersInv
<1> QED BY <1>1, ListenersInvariant, PTL

\* An event that nobody disturbs calls each instance that listened when it
\* began, once, in the order of the priorities asked for last, although Lua
\* code adds listeners and changes priorities from inside the calls
\* (callEventListeners and sortDataPairVec of ofxOfeliaEvents).
THEOREM EventsCallEachOnce == CallbacksSpec => []EachOnce
<1>1. ListenersInv => EachOnce
  <2> SUFFICES ASSUME ListenersInv, at > end, disturbed = {}
               PROVE  /\ ToSet(called) = DOMAIN expected
                      /\ IsInjective(called)
                      /\ \A i, j \in 1..Len(called) :
                            i < j => expected[called[i]] <= expected[called[j]]
    BY DEF EachOnce
  <2>0. TypeOK /\ LoopInv /\ VecInv /\ EventInv
    BY DEF ListenersInv
  <2>1. at # 0 /\ at = end + 1 /\ end \in Nat /\ size \in Nat /\ lua # "listener"
    BY <2>0, Numbers DEF LoopInv
  <2>2. /\ end <= size
        /\ Len(called) = at - 1
        /\ \A i \in 1..Len(called) : called[i] = slots[i].data
        /\ DOMAIN expected = {slots[i].data : i \in 1..end}
        /\ \A i, j \in 1..end : i < j => expected[slots[i].data] <= expected[slots[j].data]
    BY <2>0, <2>1 DEF EventInv
  <2>3. Len(called) = end /\ DOMAIN called = 1..end
    <3>1. Len(called) = end
      BY <2>1, <2>2
    <3>2. DOMAIN called = 1..Len(called)
      BY <2>0, LenProperties DEF LoopInv
    <3> QED BY <3>1, <3>2
  <2>4. \A i \in 1..end : called[i] = slots[i].data
    BY <2>2, <2>3
  <2>5. ToSet(called) = DOMAIN expected
    BY <2>2, <2>3, <2>4 DEF ToSet
  <2>6. IsInjective(called)
    <3>1. ASSUME NEW i \in 1..end, NEW j \in 1..end, called[i] = called[j]
          PROVE  i = j
      <4>1. i \in 1..size /\ j \in 1..size
        BY <2>1, <2>2
      <4> QED BY <2>0, <2>4, <3>1, <4>1 DEF VecInv
    <3> QED BY <2>3, <3>1 DEF IsInjective
  <2>7. ASSUME NEW i \in 1..Len(called), NEW j \in 1..Len(called), i < j
        PROVE  expected[called[i]] <= expected[called[j]]
    BY <2>2, <2>3, <2>4, <2>7
  <2> QED BY <2>5, <2>6, <2>7
<1> QED BY <1>1, ListenersInvariant, PTL

-----------------------------------------------------------------------------
(* Who is called when objects are replaced *)

\* It is the instance that is at its address now.
IsAlive(x) == x = Alive(x[1])

ClockInv ==
    /\ target = <<>> \/ target \in Instances
    /\ thread # "none" => target # <<>>

\* As long as none was replaced with a listener or a clock left, what an event
\* or the clock may come to is alive: the elements of the vector, and those of
\* the event, which after a removal may be behind them.
ForgetInv ==
    forgotten = {} =>
        /\ fate # "dangling"
        /\ \A i \in 1..size : IsAlive(slots[i].data)
        /\ \A i \in 1..end : IsAlive(slots[i].data)
        /\ target # <<>> => IsAlive(target)

CallInv == ListenersInv /\ ClockInv /\ ForgetInv

LEMMA AliveIsAlive == ASSUME NEW o \in Objects PROVE IsAlive(Alive(o))
BY DEF IsAlive, Alive

\* Steps that end well and replace no instance: they keep ForgetInv if each
\* element is that of a living instance, or was an element before.
LEMMA ForgetKept ==
    ASSUME ForgetInv, UNCHANGED <<made, target>>,
           forgotten' = {} => forgotten = {},
           forgotten' = {} => fate' # "dangling",
           \A i \in 1..size' :
              \/ IsAlive(slots'[i].data)
              \/ \E j \in 1..size \union 1..end : slots'[i].data = slots[j].data,
           \A i \in 1..end' :
              \/ IsAlive(slots'[i].data)
              \/ \E j \in 1..size \union 1..end : slots'[i].data = slots[j].data
    PROVE  ForgetInv'
<1> SUFFICES ASSUME forgotten' = {}
             PROVE  /\ fate' # "dangling"
                    /\ \A i \in 1..size' : IsAlive(slots'[i].data)
                    /\ \A i \in 1..end' : IsAlive(slots'[i].data)
                    /\ target # <<>> => IsAlive(target)
  BY DEF ForgetInv, IsAlive, Alive
<1>1. /\ \A j \in 1..size \union 1..end : IsAlive(slots[j].data)
      /\ target # <<>> => IsAlive(target)
  BY DEF ForgetInv
<1> QED BY <1>1

LEMMA ForgetSame ==
    ASSUME ForgetInv, UNCHANGED <<made, target, slots, size, forgotten>>,
           end' = end \/ end' = 0,
           forgotten = {} => fate' # "dangling"
    PROVE  ForgetInv'
<1>1. \A i \in 1..end' : i \in 1..size \union 1..end
  OBVIOUS
<1> QED BY <1>1, ForgetKept

\* What Lua code adds to the vector is alive.
LEMMA ForgetLuaCode ==
    ASSUME CallInv, LuaCode, fate = "fine", UNCHANGED <<target, forgotten>>
    PROVE  ForgetInv'
<1>0. TypeOK /\ LoopInv /\ ForgetInv
  BY DEF CallInv, ListenersInv
<1>1. /\ VecTypes /\ size \in Nat /\ end \in Nat /\ Len(slots) \in Nat
      /\ size <= Len(slots) /\ end <= Len(slots)
  BY <1>0, Numbers
<1>2. ASSUME NEW o \in Objects, NEW f \in Priorities, AddListener(o, f) PROVE ForgetInv'
  <2> DEFINE x == getByName(o)
  <2>1. UNCHANGED <<made, end, fate>> /\ (ChangeOrder(x, f) \/ PushBack(x, f)) /\ x \in Instances
    BY <1>0, <1>2, Found DEF AddListener
  <2>2. IsAlive(x)
    BY AliveIsAlive DEF getByName
  <2> HIDE DEF x
  <2>3. CASE ChangeOrder(x, f)
    <3> DEFINE k == findDataPair(x)
    <3>1. slots' = [slots EXCEPT ![k].order = f] /\ size' = size
      BY <2>3 DEF ChangeOrder
    <3>2. k \in 1..size /\ k \in 1..Len(slots)
      BY <1>1, <2>3, FindIs, PairTypes DEF ChangeOrder
    <3> HIDE DEF k
    <3>3. ASSUME NEW i \in 1..Len(slots) PROVE slots'[i].data = slots[i].data
      <4>1. slots[i] \in Pairs
        BY <1>1, PairTypes
      <4>2. DOMAIN slots = 1..Len(slots)
        BY <1>1, LenProperties DEF VecTypes
      <4> QED BY <3>1, <4>1, <4>2 DEF Pairs
    <3>4. \A i \in 1..size : i \in 1..Len(slots)
      BY <1>1
    <3>5. \A i \in 1..end : i \in 1..Len(slots)
      BY <1>1
    <3> QED BY <1>0, <2>1, <3>1, <3>3, <3>4, <3>5, ForgetKept
  <2>4. CASE PushBack(x, f)
    <3>1. /\ size' = size + 1
          /\ size' <= Len(slots')
          /\ Len(slots) <= Len(slots')
          /\ slots' \in Seq(Pairs)
          /\ \A i \in 1..size : slots'[i] = slots[i]
          /\ slots'[size + 1] = [data |-> x, order |-> f]
          /\ \A i \in 1..Len(slots') :
                \/ slots'[i] = [data |-> x, order |-> f]
                \/ i \in 1..Len(slots) /\ slots'[i] = slots[i]
      BY <1>1, <2>1, <2>4, PushBackMoves
    <3>2. Len(slots') \in Nat
      BY <3>1, LenProperties
    <3>3. ASSUME NEW i \in 1..size'
          PROVE  \/ IsAlive(slots'[i].data)
                 \/ \E j \in 1..size \union 1..end : slots'[i].data = slots[j].data
      <4>1. i \in 1..size \/ i = size + 1
        BY <1>1, <3>1
      <4> QED BY <2>2, <3>1, <4>1
    <3>4. ASSUME NEW i \in 1..end
          PROVE  \/ IsAlive(slots'[i].data)
                 \/ \E j \in 1..size \union 1..end : slots'[i].data = slots[j].data
      <4>1. i \in 1..Len(slots')
        BY <1>1, <3>1, <3>2
      <4> QED BY <2>2, <3>1, <4>1
    <3> QED BY <1>0, <2>1, <3>3, <3>4, ForgetKept
  <2> QED BY <2>1, <2>3, <2>4
<1>3. ASSUME NEW o \in Objects, RemoveListener(o) PROVE ForgetInv'
  <2>1. UNCHANGED <<made, end, fate>> /\ Erase(getByName(o))
    BY <1>3 DEF RemoveListener
  <2>2. PICK k \in 1..size :
           /\ size' = size - 1
           /\ \A i \in 1..Len(slots) :
                 slots'[i] = IF k <= i /\ i < size THEN slots[i + 1] ELSE slots[i]
    BY <1>1, <2>1, EraseMoves
  <2>3. ASSUME NEW i \in 1..Len(slots), i \in 1..size \union 1..end
        PROVE  \E j \in 1..size \union 1..end : slots'[i].data = slots[j].data
    <3>1. CASE k <= i /\ i < size
      <4>1. i + 1 \in 1..size
        BY <1>1, <3>1
      <4> QED BY <2>2, <3>1, <4>1
    <3>2. CASE ~(k <= i /\ i < size)
      BY <2>2, <2>3, <3>2
    <3> QED BY <3>1, <3>2
  <2>4. \A i \in 1..size' : i \in 1..Len(slots) /\ i \in 1..size \union 1..end
    BY <1>1, <2>2
  <2>5. \A i \in 1..end : i \in 1..Len(slots) /\ i \in 1..size \union 1..end
    BY <1>1
  <2> QED BY <1>0, <2>1, <2>3, <2>4, <2>5, ForgetKept
<1>4. CASE GetListenerData
  <2>1. UNCHANGED <<made, size, end, fate>> /\ Resort
    BY <1>4 DEF GetListenerData
  <2>2. /\ \A n \in 1..size : slots'[n] = slots[From(n)] /\ From(n) \in 1..size
        /\ \A i \in 1..Len(slots) : i \notin 1..size => slots'[i] = slots[i]
    BY <1>1, <2>1, ResortMoves, FromPlace
  <2>3. ASSUME NEW i \in 1..end
        PROVE  \E j \in 1..size \union 1..end : slots'[i].data = slots[j].data
    <3>1. i \in 1..Len(slots)
      BY <1>1
    <3> QED BY <2>2, <3>1
  <2>4. \A i \in 1..size' : \E j \in 1..size \union 1..end : slots'[i].data = slots[j].data
    BY <2>1, <2>2
  <2> QED BY <1>0, <2>1, <2>3, <2>4, ForgetKept
<1> QED BY <1>2, <1>3, <1>4 DEF LuaCode

\* A new instance at an address: if that is not forgotten, nothing in the
\* vector and not the clock's function was of the one that was there.
LEMMA ForgetCreate ==
    ASSUME CallInv, MainStep, NEW o \in Objects, CreateInstance(o)
    PROVE  ForgetInv'
<1> SUFFICES ASSUME forgotten' = {} PROVE ForgetInv'
  BY DEF ForgetInv
<1>0. TypeOK /\ LoopInv /\ ForgetInv /\ ClockInv
  BY DEF CallInv, ListenersInv
<1>1. /\ at = 0
      /\ made' = [made EXCEPT ![o] = @ + 1]
      /\ UNCHANGED <<slots, size, end, fate, target>>
  BY DEF MainStep, CreateInstance
<1>2. /\ VecTypes /\ end = 0 /\ made \in [Objects -> 0..MaxInstances]
  BY <1>0, <1>1, Numbers DEF LoopInv, TypeOK
<1>3. made'[o] # made[o]
  <2>1. made[o] \in Nat
    BY <1>2, MaxInstancesAssumption
  <2> QED BY <1>1, <1>2, <2>1
<1>4. forgotten = {} /\ ~Forgets(o)
  BY <1>3 DEF MainStep
<1>5. /\ fate # "dangling"
      /\ \A i \in 1..size : IsAlive(slots[i].data)
      /\ target # <<>> => IsAlive(target)
  BY <1>0, <1>4 DEF ForgetInv
<1>6. ASSUME NEW x \in Instances, IsAlive(x), x[1] = o PROVE made[o] > 0 /\ x = Alive(o)
  <2>1. x = <<o, made[o]>> /\ x[2] \in 1..MaxInstances
    BY <1>6 DEF IsAlive, Alive, Instances
  <2> QED BY <2>1, MaxInstancesAssumption DEF Alive
<1>7. ASSUME NEW x \in Instances, IsAlive(x), x[1] # o PROVE IsAlive(x)'
  <2>1. made'[x[1]] = made[x[1]]
    BY <1>1, <1>2, <1>7 DEF Instances
  <2> QED BY <1>7, <2>1 DEF IsAlive, Alive
<1>8. ASSUME NEW i \in 1..size PROVE IsAlive(slots[i].data)'
  <2>1. slots[i].data \in Instances /\ IsAlive(slots[i].data)
    BY <1>2, <1>5, PairTypes
  <2>2. slots[i].data[1] # o
    BY <1>2, <1>4, <1>6, <2>1, FindIs DEF Forgets
  <2>3. slots'[i].data = slots[i].data
    BY <1>1
  <2> QED BY <1>7, <2>1, <2>2, <2>3 DEF IsAlive, Alive
<1>9. target # <<>> => IsAlive(target)'
  <2> SUFFICES ASSUME target # <<>> PROVE IsAlive(target)'
    OBVIOUS
  <2>1. target \in Instances /\ IsAlive(target)
    BY <1>0, <1>5 DEF ClockInv
  <2>2. target[1] # o
    BY <1>4, <1>6, <2>1 DEF Forgets
  <2> QED BY <1>1, <1>7, <2>1, <2>2 DEF IsAlive, Alive
<1>10. 1..end' = {}
  BY <1>1, <1>2
<1> QED BY <1>1, <1>5, <1>8, <1>9, <1>10 DEF ForgetInv

\* Steps of the main thread: the element that is called is alive.
LEMMA ForgetMain ==
    ASSUME CallInv, MainStep
    PROVE  ForgetInv'
<1>0. TypeOK /\ LoopInv /\ ForgetInv
  BY DEF CallInv, ListenersInv
<1>1. UNCHANGED target /\ (forgotten' = {} => forgotten = {})
  BY DEF MainStep
<1>2. ASSUME UNCHANGED <<made, slots, size, end, fate>> PROVE ForgetInv'
  BY <1>0, <1>1, <1>2, ForgetKept DEF ForgetInv
<1>3. CASE CallListener
  <2>1. at \in 1..end /\ UNCHANGED <<made, slots, size, end>> /\ fate = "fine"
    BY <1>3 DEF CallListener
  <2>2. CASE Call
    BY <1>2, <2>1, <2>2 DEF Call
  <2>3. CASE CallGarbage
    <3>1. forgotten = {} => IsAlive(slots[at].data)
      BY <1>0, <2>1 DEF ForgetInv
    <3>2. forgotten' = {} => fate' # "dangling"
      BY <1>1, <2>3, <3>1 DEF CallGarbage, IsAlive
    <3> QED BY <1>0, <1>1, <2>1, <3>2, ForgetKept
  <2> QED BY <1>3, <2>2, <2>3 DEF CallListener
<1>4. CASE EndEvent
  <2>1. UNCHANGED <<made, slots, size, fate>> /\ 1..end' = {} /\ fate = "fine"
    BY <1>4 DEF EndEvent
  <2> QED BY <1>0, <1>1, <2>1, ForgetKept
<1> QED BY <1>2, <1>3, <1>4, ForgetCreate
        DEF MainStep, MainThread, RunMessage, ListenerReturns

\* An event takes the elements of the vector, sorted.
LEMMA ForgetFrame ==
    ASSUME CallInv, Frame
    PROVE  ForgetInv'
<1>0. TypeOK /\ LoopInv /\ ForgetInv
  BY DEF CallInv, ListenersInv
<1>1. /\ Resort /\ fate = "fine" /\ end' = size
      /\ UNCHANGED <<made, size, fate, target, forgotten>>
  BY DEF Frame, BeginEvent, othersVars
<1>2. VecTypes
  BY <1>0, Numbers
<1>3. \A n \in 1..size : slots'[n] = slots[From(n)] /\ From(n) \in 1..size
  BY <1>1, <1>2, ResortMoves, FromPlace
<1>4. \A i \in 1..size : \E j \in 1..size \union 1..end : slots'[i].data = slots[j].data
  BY <1>3
<1> QED BY <1>0, <1>1, <1>4, ForgetKept

\* Every step keeps the invariant.
LEMMA StepCalls == CallInv /\ [CNext]_vars => CallInv'
<1> SUFFICES ASSUME CallInv, [CNext]_vars PROVE CallInv'
  OBVIOUS
<1>0. ListenersInv /\ ClockInv /\ ForgetInv /\ TypeOK
  BY DEF CallInv, ListenersInv
<1>1. ListenersInv'
  BY <1>0, StepListeners
<1>2. ASSUME UNCHANGED <<made, slots, size, end, target, forgotten>>,
             forgotten = {} => fate' # "dangling"
      PROVE  ForgetInv'
  BY <1>0, <1>2, ForgetSame
<1>3. ASSUME UNCHANGED <<made, slots, size, end, target, forgotten, fate>>
      PROVE  ForgetInv'
  BY <1>0, <1>2, <1>3 DEF ForgetInv
<1>4. ASSUME UNCHANGED <<target, thread>> PROVE ClockInv'
  BY <1>0, <1>4 DEF ClockInv
<1>5. CASE LuaStep
  <2>1. CASE LuaUsesListeners
    <3>1. ForgetInv'
      BY <1>5, <2>1, ForgetLuaCode DEF LuaStep, LuaUsesListeners, othersVars
    <3>2. ClockInv'
      BY <1>4, <2>1 DEF LuaUsesListeners, othersVars, clockVars
    <3> QED BY <1>1, <3>1, <3>2 DEF CallInv
  <2>2. CASE LuaUsesWindow
    BY <1>1, <1>3, <1>4, <2>2 DEF CallInv, LuaUsesWindow, listenerVars, clockVars, othersVars
  <2>3. CASE LuaUsesClock
    <3>1. ForgetInv'
      BY <1>3, <2>3 DEF LuaUsesClock, listenerVars, othersVars
    <3>2. ClockInv'
      BY <1>0, <2>3 DEF ClockInv, LuaUsesClock, othersVars, Clock!Delay, Clock!Unset
    <3> QED BY <1>1, <3>1, <3>2 DEF CallInv
  <2>4. ASSUME NEW o \in Objects, NewClock(o) PROVE CallInv'
    <3>1. /\ target' = Alive(o) /\ thread' = "none" /\ Alive(o) \in Instances
          /\ UNCHANGED <<made, slots, size, end, fate, forgotten>>
      BY <1>0, <2>4, Found DEF NewClock, getByName, listenerVars, clockVars
    <3>2. ClockInv'
      BY <3>1 DEF ClockInv
    <3>3. ForgetInv'
      BY <1>0, <3>1, AliveIsAlive DEF ForgetInv, IsAlive, Alive
    <3> QED BY <1>1, <3>2, <3>3 DEF CallInv
  <2> QED BY <1>5, <2>1, <2>2, <2>3, <2>4 DEF LuaStep
<1>6. CASE MainStep
  <2>1. ForgetInv'
    BY <1>6, ForgetMain
  <2>2. ClockInv'
    BY <1>4, <1>6 DEF MainStep, clockVars
  <2> QED BY <1>1, <2>1, <2>2 DEF CallInv
<1>7. CASE Frame
  <2>1. ForgetInv'
    BY <1>7, ForgetFrame
  <2>2. ClockInv'
    BY <1>4, <1>7 DEF Frame, clockVars, othersVars
  <2> QED BY <1>1, <2>1, <2>2 DEF CallInv
<1>8. CASE CloseWindow \/ LeaveWindow \/ User
  BY <1>1, <1>3, <1>4, <1>8 DEF CallInv, CloseWindow, LeaveWindow, User, listenerVars, clockVars, othersVars
<1>9. CASE ClockCalls
  <2>1. ForgetInv'
    <3>1. target # <<>>
      BY <1>0, <1>9 DEF ClockCalls, Clock!Wake, ClockInv
    <3>2. forgotten = {} => fate' # "dangling"
      BY <1>0, <1>9, <3>1 DEF ClockCalls, ForgetInv, IsAlive
    <3> QED BY <1>2, <1>9, <3>2 DEF ClockCalls, othersVars
  <2>2. ClockInv'
    BY <1>0, <1>9 DEF ClockCalls, Clock!Wake, ClockInv, othersVars
  <2> QED BY <1>1, <2>1, <2>2 DEF CallInv
<1>10. CASE ClockEnds
  <2>1. ForgetInv'
    BY <1>3, <1>10 DEF ClockEnds, listenerVars, othersVars
  <2>2. ClockInv'
    BY <1>0, <1>10 DEF ClockEnds, Clock!FunctionReturns, Clock!ThreadEnds, ClockInv, othersVars
  <2> QED BY <1>1, <2>1, <2>2 DEF CallInv
<1>11. CASE Collide
  BY <1>1, <1>2, <1>4, <1>11 DEF CallInv, Collide, clockVars, othersVars
<1>12. CASE UNCHANGED vars
  BY <1>1, <1>3, <1>4, <1>12 DEF CallInv, vars, listenerVars, clockVars, othersVars
<1> QED BY <1>5, <1>6, <1>7, <1>8, <1>9, <1>10, <1>11, <1>12 DEF CNext

LEMMA InitCalls == CInit => CallInv
<1> SUFFICES ASSUME CInit PROVE CallInv
  OBVIOUS
<1>1. ListenersInv
  BY InitListeners
<1>2. ClockInv
  BY DEF CInit, Clock!Init, ClockInv
<1>3. ForgetInv
  BY DEF CInit, Init, ForgetInv
<1> QED BY <1>1, <1>2, <1>3 DEF CallInv

\* An event or a clock comes to a destroyed instance only if the object at
\* that address was replaced while it had a listener or a clock
\* (ofxLuaInstances::createInstance, ofxOfeliaEvents and pdClock keep pointers).
THEOREM NoCallOfTheDead == CallbacksSpec => []NoDanglingCall
<1>1. CallInv => NoDanglingCall
  BY DEF CallInv, ForgetInv, NoDanglingCall
<1>2. CallbacksSpec => []CallInv
  BY InitCalls, StepCalls, PTL DEF CallbacksSpec
<1> QED BY <1>1, <1>2, PTL

=============================================================================
