------------------------- MODULE HostDispatch_proofs -------------------------
(***************************************************************************)
(* Proofs about HostDispatch: whom the timer thread hands a message to,    *)
(* whatever Pd makes and frees meanwhile.  Any finite set of addresses,    *)
(* any number of messages and of objects at an address.                    *)
(***************************************************************************)
EXTENDS HostDispatch, Integers, FiniteSetTheorems, SequenceTheorems, TLAPS

IsListed(a) == \E i \in 1..Len(listeners) : listeners[i] = a

\* The list holds each object once, and holds those that have entered it and
\* whose destructor has not run.
ListInv ==
    /\ \A i, j \in 1..Len(listeners) : listeners[i] = listeners[j] => i = j
    /\ \A a \in Addresses : object[a] # "none" <=> IsListed(a)

\* Where Pd's thread is tells what is at the address it is at; an object that
\* waits for its members is one that Pd's thread is about to construct.
PdInv ==
    /\ ppc = "add" => object[here] = "none"
    /\ ppc = "construct" => object[here] = "registered"
    /\ ppc = "remove" => object[here] = "dismantled"
    /\ \A a \in Addresses : object[a] = "registered" => ppc = "construct" /\ here = a

\* Generation g at the address is one whose script the runner may know of:
\* not that of an object that Pd's thread is making.
Announced(a, g) ==
    /\ g <= generation[a]
    /\ ppc \in {"add", "construct"} /\ here = a => g < generation[a]

\* What is on the way to the runner, in it, and on the way back.
GenInv ==
    /\ \A i \in 1..Len(toRunner) : Announced(toRunner[i].address, toRunner[i].generation)
    /\ \A a \in Addresses : Announced(a, loaded[a])
    /\ \A i \in 1..Len(inbox) : Announced(inbox[i].address, inbox[i].generation)
    /\ Announced(message.address, message.generation)

\* A listener that was called already has the address of the message.
WasReached == \E i \in 1..Len(listeners) : i < next /\ listeners[i] = message.address

\* The timer thread holds the lock through the loop, and has counted the
\* objects that took the message.
LoopInv ==
    /\ listenerLock = "timer" <=> tpc = "loop"
    /\ tpc = "loop" => /\ next <= Len(listeners) + 1
                       /\ hits = IF message.kind = "outlet" /\ WasReached THEN 1 ELSE 0

CalledInv == NoDeadObject /\ HalfBuiltOnlyByReuse

DispatchInv == TypeOK /\ ListInv /\ PdInv /\ GenInv /\ LoopInv /\ CalledInv

-----------------------------------------------------------------------------
(* Sequences *)

\* A finite set as a sequence: each element once.
LEMMA SetToSeqFacts ==
    ASSUME NEW A \in SUBSET Addresses
    PROVE  /\ SetToSeq(A) \in Seq(A)
           /\ \A i, j \in 1..Len(SetToSeq(A)) : SetToSeq(A)[i] = SetToSeq(A)[j] => i = j
           /\ \A a \in A : \E i \in 1..Len(SetToSeq(A)) : SetToSeq(A)[i] = a
<1> DEFINE n == Cardinality(A)
           f == SetToSeq(A)
<1>1. IsFiniteSet(A)
  BY FS_Subset, AddressesAssumption DEF AddressesAssumption
<1>2. n \in Nat /\ ExistsBijection(1..n, A)
  BY <1>1, FS_CardinalityType
<1>3. \E g \in [1..n -> A] : IsInjective(g)
  BY <1>2 DEF ExistsBijection, Bijection, Injection
<1>4. f \in [1..n -> A] /\ IsInjective(f)
  BY <1>3 DEF SetToSeq
<1>5. Cardinality(1..n) = n
  BY <1>2, FS_Interval
<1>6. f \in Injection(1..n, A)
  BY <1>4 DEF Injection
<1>7. f \in Surjection(1..n, A)
  BY <1>1, <1>5, <1>6, FS_Injection
<1> HIDE DEF n, f
<1>8. f \in Seq(A) /\ Len(f) = n
  BY <1>2, <1>4
<1> QED BY <1>2, <1>4, <1>7, <1>8 DEF f, n, IsInjective, Surjection

\* A sequence without its k-th element.
LEMMA RemoveAtFacts ==
    ASSUME NEW S, NEW l \in Seq(S), NEW k \in 1..Len(l)
    PROVE  /\ RemoveAt(l, k) \in Seq(S)
           /\ Len(RemoveAt(l, k)) = Len(l) - 1
           /\ \A i \in 1..(Len(l) - 1) : RemoveAt(l, k)[i] = IF i < k THEN l[i] ELSE l[i + 1]
<1> DEFINE p == SubSeq(l, 1, k - 1)
           q == SubSeq(l, k + 1, Len(l))
<1>0. Len(l) \in Nat /\ k \in Nat /\ 1 <= k /\ k <= Len(l) /\ \A i \in 1..Len(l) : l[i] \in S
  BY LenProperties, ElementOfSeq
<1>1. p \in Seq(S) /\ Len(p) = k - 1 /\ \A i \in 1..(k - 1) : p[i] = l[i]
  <2>1. \A i \in 1..(k - 1) : l[i] \in S
    BY <1>0
  <2>2. /\ SubSeq(l, 1, k - 1) \in Seq(S)
        /\ Len(SubSeq(l, 1, k - 1)) = IF 1 <= k - 1 THEN k - 1 - 1 + 1 ELSE 0
        /\ \A i \in 1..(k - 1 - 1 + 1) : SubSeq(l, 1, k - 1)[i] = l[1 + i - 1]
    BY <1>0, <2>1, SubSeqProperties, SMT
  <2> QED BY <1>0, <2>2
<1>2. q \in Seq(S) /\ Len(q) = Len(l) - k /\ \A i \in 1..(Len(l) - k) : q[i] = l[k + i]
  <2>1. \A i \in (k + 1)..Len(l) : l[i] \in S
    BY <1>0
  <2>2. /\ SubSeq(l, k + 1, Len(l)) \in Seq(S)
        /\ Len(SubSeq(l, k + 1, Len(l))) = IF k + 1 <= Len(l) THEN Len(l) - (k + 1) + 1 ELSE 0
        /\ \A i \in 1..(Len(l) - (k + 1) + 1) : SubSeq(l, k + 1, Len(l))[i] = l[k + 1 + i - 1]
    BY <1>0, <2>1, SubSeqProperties, SMT
  <2> QED BY <1>0, <2>2
<1> HIDE DEF p, q
<1>3. /\ p \o q \in Seq(S)
      /\ Len(p \o q) = Len(p) + Len(q)
      /\ \A i \in 1..(Len(p) + Len(q)) : (p \o q)[i] = IF i <= Len(p) THEN p[i] ELSE q[i - Len(p)]
  BY <1>1, <1>2, ConcatProperties
<1>4. RemoveAt(l, k) = p \o q
  BY DEF RemoveAt, p, q
<1>5. ASSUME NEW i \in 1..(Len(l) - 1)
      PROVE  (p \o q)[i] = IF i < k THEN l[i] ELSE l[i + 1]
  <2>1. i \in 1..(Len(p) + Len(q)) /\ i \in Int
    BY <1>0, <1>1, <1>2
  <2>2. CASE i < k
    BY <2>1, <2>2, <1>0, <1>1, <1>3
  <2>3. CASE ~(i < k)
    <3>1. (p \o q)[i] = q[i - (k - 1)]
      BY <2>1, <2>3, <1>0, <1>1, <1>3
    <3>2. i - (k - 1) \in 1..(Len(l) - k) /\ k + (i - (k - 1)) = i + 1
      BY <2>1, <2>3, <1>0
    <3> QED BY <3>1, <3>2, <2>3, <1>2
  <2> QED BY <2>2, <2>3
<1>6. Len(p \o q) = Len(l) - 1
  BY <1>0, <1>1, <1>2, <1>3
<1> QED BY <1>3, <1>4, <1>5, <1>6

-----------------------------------------------------------------------------
(* The steps *)

\* The objects there are, if any, are alive and in the list.
LEMMA InitDispatch == Init => DispatchInv
<1> SUFFICES ASSUME Init PROVE DispatchInv
  OBVIOUS
<1>1. PICK A \in SUBSET Addresses : listeners = SetToSeq(A)
  BY DEF Init
<1>2. /\ listeners \in Seq(A)
      /\ \A i, j \in 1..Len(listeners) : listeners[i] = listeners[j] => i = j
      /\ \A a \in A : IsListed(a)
  BY <1>1, SetToSeqFacts DEF IsListed
<1>3. Len(listeners) \in Nat /\ DOMAIN listeners = 1..Len(listeners)
      /\ \A i \in 1..Len(listeners) : listeners[i] \in A
  BY <1>2, LenProperties, ElementOfSeq
<1>4. \A a \in Addresses : IsListed(a) <=> a \in A
  BY <1>2, <1>3 DEF IsListed
<1>5. Range(listeners) = A
  BY <1>1, <1>3, <1>4 DEF Range, IsListed
<1>6. /\ object = [a \in Addresses |-> IF a \in A THEN "alive" ELSE "none"]
      /\ generation = [a \in Addresses |-> IF a \in A THEN 1 ELSE 0]
  BY <1>5 DEF Init
<1>7. TypeOK
  <2>1. listeners \in Seq(Addresses)
    BY <1>2, SeqMonotonic
  <2>2. object \in [Addresses -> Conditions] /\ generation \in [Addresses -> 0..MaxGeneration]
    BY <1>6, BoundsAssumption DEF BoundsAssumption, Conditions
  <2>3. message \in Message
    BY BoundsAssumption DEF BoundsAssumption, Init, Message
  <2>4. /\ toRunner \in Seq([address : Addresses, generation : 1..MaxGeneration])
        /\ inbox \in Seq(Message)
    BY DEF Init
  <2>5. called \in [condition : Conditions, generation : 0..MaxGeneration, meant : 0..MaxGeneration]
    BY BoundsAssumption DEF BoundsAssumption, Init, NoCall, Conditions
  <2>6. sent \in 0..MaxMessages /\ next \in Nat /\ hits \in 0..1
    BY BoundsAssumption DEF BoundsAssumption, Init
  <2> QED BY <2>1, <2>2, <2>3, <2>4, <2>5, <2>6 DEF Init, TypeOK
<1>8. ListInv /\ PdInv
  BY <1>2, <1>4, <1>6 DEF Init, ListInv, PdInv
<1>9. GenInv
  <2>1. \A a \in Addresses : generation[a] \in {0, 1} /\ loaded[a] = generation[a]
    BY <1>6 DEF Init
  <2>2. message.address \in Addresses /\ message.generation = 0
    BY DEF Init
  <2> QED BY <2>1, <2>2 DEF Init, GenInv, Announced
<1>10. LoopInv /\ CalledInv
  BY DEF Init, LoopInv, CalledInv, NoDeadObject, HalfBuiltOnlyByReuse, NoCall
<1> QED BY <1>7, <1>8, <1>9, <1>10 DEF DispatchInv

\* What is announced stays so: an address gets a new generation in the step
\* that puts Pd's thread there.
LEMMA AnnouncedStays ==
    ASSUME DispatchInv, [Next]_vars, NEW a \in Addresses, NEW g \in Nat, Announced(a, g)
    PROVE  Announced(a, g)'
<1>1. generation[a] \in Nat /\ generation \in [Addresses -> 0..MaxGeneration]
  BY BoundsAssumption DEF BoundsAssumption, DispatchInv, TypeOK
<1>2. CASE \E b \in Addresses : New(b)
  <2>1. PICK b \in Addresses : New(b)
    BY <1>2
  <2>2. /\ ppc' = "add" /\ here' = b
        /\ generation'[a] = IF a = b THEN generation[a] + 1 ELSE generation[a]
    BY <1>1, <2>1 DEF New
  <2> QED BY <1>1, <2>2 DEF Announced
<1>3. CASE AddListener
  BY <1>3 DEF AddListener, Announced
<1>4. CASE UNCHANGED generation /\ ppc' \notin {"add", "construct"}
  BY <1>4 DEF Announced
<1>5. CASE UNCHANGED <<generation, ppc, here>>
  BY <1>5 DEF Announced
<1>6. \/ \E b \in Addresses : New(b)
      \/ AddListener
      \/ UNCHANGED generation /\ ppc' \notin {"add", "construct"}
      \/ UNCHANGED <<generation, ppc, here>>
  BY DEF Next, vars, Enter, PdStep, Leave, Construct, RemoveListener, Free, Timer, Receive, CallManager,
         CallObject, Unlock, Load, Send, objectVars, pdVars
<1> QED BY <1>2, <1>3, <1>4, <1>5, <1>6

\* What is on the way, or loaded, is there already or is announced in time.
LEMMA GenStep == ASSUME DispatchInv, [Next]_vars PROVE GenInv'
<1> DEFINE Known(a, g) == a \in Addresses /\ g \in Nat /\ Announced(a, g)
<1>1. /\ toRunner \in Seq([address : Addresses, generation : 1..MaxGeneration])
      /\ inbox \in Seq(Message) /\ message \in Message
      /\ loaded \in [Addresses -> 0..MaxGeneration] /\ generation \in [Addresses -> 0..MaxGeneration]
      /\ here \in Addresses /\ MaxGeneration \in Nat
  BY BoundsAssumption DEF BoundsAssumption, DispatchInv, TypeOK
<1>2. \A i \in 1..Len(toRunner) : Known(toRunner[i].address, toRunner[i].generation)
  <2> TAKE i \in 1..Len(toRunner)
  <2>1. toRunner[i] \in [address : Addresses, generation : 1..MaxGeneration]
    BY <1>1, ElementOfSeq
  <2> QED BY <1>1, <2>1 DEF DispatchInv, GenInv
<1>3. \A i \in 1..Len(inbox) : Known(inbox[i].address, inbox[i].generation)
  <2> TAKE i \in 1..Len(inbox)
  <2>1. inbox[i] \in Message
    BY <1>1, ElementOfSeq
  <2> QED BY <1>1, <2>1 DEF DispatchInv, GenInv, Message
<1>4. /\ Known(message.address, message.generation)
      /\ \A a \in Addresses : Known(a, loaded[a])
  BY <1>1 DEF DispatchInv, GenInv, Message
<1>5. ASSUME NEW a, NEW g, Known(a, g) PROVE Announced(a, g)'
  BY <1>5, AnnouncedStays
<1> HIDE DEF Known
<1>6. ASSUME NEW i \in 1..Len(toRunner')
      PROVE  Announced(toRunner[i].address, toRunner[i].generation)'
  <2>1. CASE UNCHANGED toRunner
    BY <1>2, <1>5, <2>1 DEF Announced
  <2>2. CASE Load
    <3>1. toRunner # <<>> /\ toRunner' = Tail(toRunner)
      BY <2>2 DEF Load
    <3>2. i + 1 \in 1..Len(toRunner) /\ toRunner'[i] = toRunner[i + 1]
      BY <1>1, <3>1, HeadTailProperties, LenProperties
    <3>3. Known(toRunner[i + 1].address, toRunner[i + 1].generation)
      BY <1>2, <3>2
    <3> QED BY <1>5, <3>2, <3>3 DEF Announced
  <2>3. CASE Construct
    <3> DEFINE r == [address |-> here, generation |-> generation[here]]
    <3>1. Len(toRunner) \in Nat /\ toRunner' = Append(toRunner, r) /\ ppc' = "in" /\ UNCHANGED <<generation, here>>
      BY <1>1, <2>3, LenProperties DEF Construct
    <3>2. CASE i \in 1..Len(toRunner)
      <4>1. toRunner'[i] = toRunner[i]
        BY <1>1, <3>1, <3>2
      <4> QED BY <1>2, <1>5, <3>2, <4>1 DEF Announced
    <3>3. CASE i = Len(toRunner) + 1
      <4>1. toRunner'[i] = r
        BY <1>1, <3>1, <3>3
      <4> QED BY <1>1, <3>1, <4>1 DEF Announced
    <3>4. Len(toRunner') = Len(toRunner) + 1
      BY <1>1, <3>1
    <3> QED BY <3>1, <3>2, <3>3, <3>4
  <2> QED BY <2>1, <2>2, <2>3 DEF Next, vars, Enter, PdStep, Leave, AddListener, RemoveListener, New, Free,
             Timer, Receive, CallManager, CallObject, Unlock, Send
<1>7. ASSUME NEW i \in 1..Len(inbox')
      PROVE  Announced(inbox[i].address, inbox[i].generation)'
  <2>1. CASE UNCHANGED inbox
    BY <1>3, <1>5, <2>1 DEF Announced
  <2>2. CASE Receive
    <3>1. inbox # <<>> /\ inbox' = Tail(inbox)
      BY <2>2 DEF Receive
    <3>2. i + 1 \in 1..Len(inbox) /\ inbox'[i] = inbox[i + 1]
      BY <1>1, <3>1, HeadTailProperties, LenProperties
    <3>3. Known(inbox[i + 1].address, inbox[i + 1].generation)
      BY <1>3, <3>2
    <3> QED BY <1>5, <3>2, <3>3 DEF Announced
  <2>3. CASE Send
    <3>1. PICK k \in Kinds, a \in Addresses :
              inbox' = Append(inbox, [kind |-> k, address |-> a, generation |-> loaded[a]])
      BY <2>3 DEF Send
    <3> DEFINE r == [kind |-> k, address |-> a, generation |-> loaded[a]]
    <3>2. CASE i \in 1..Len(inbox)
      <4>1. inbox'[i] = inbox[i]
        BY <1>1, <3>1, <3>2
      <4> QED BY <1>3, <1>5, <3>2, <4>1 DEF Announced
    <3>3. CASE i = Len(inbox) + 1
      <4>1. inbox'[i] = r
        BY <1>1, <3>1, <3>3
      <4> QED BY <1>4, <1>5, <4>1 DEF Announced
    <3>4. Len(inbox') = Len(inbox) + 1 /\ Len(inbox) \in Nat
      BY <1>1, <3>1, LenProperties
    <3> QED BY <3>2, <3>3, <3>4
  <2> QED BY <2>1, <2>2, <2>3 DEF Next, vars, Enter, PdStep, Leave, AddListener, Construct, RemoveListener, New,
             Free, Timer, CallManager, CallObject, Unlock, Load
<1>8. Announced(message.address, message.generation)'
  <2>1. CASE UNCHANGED message
    BY <1>4, <1>5, <2>1 DEF Announced
  <2>2. CASE Receive
    <3>1. 1 \in 1..Len(inbox) /\ message' = inbox[1]
      BY <1>1, <2>2, LenProperties, EmptySeq DEF Receive
    <3> QED BY <1>3, <1>5, <3>1 DEF Announced
  <2> QED BY <2>1, <2>2 DEF Next, vars, timerVars, Enter, PdStep, Leave, AddListener, Construct, RemoveListener,
             New, Free, Timer, CallManager, CallObject, Unlock, Load, Send
<1>9. ASSUME NEW a \in Addresses PROVE Announced(a, loaded[a])'
  <2>1. CASE UNCHANGED loaded
    BY <1>4, <1>5, <2>1 DEF Announced
  <2>2. CASE Load
    <3>1. /\ 1 \in 1..Len(toRunner)
          /\ loaded' = [loaded EXCEPT ![toRunner[1].address] = toRunner[1].generation]
      <4>1. toRunner # <<>> /\ Head(toRunner) = toRunner[1] /\ 1 \in 1..Len(toRunner)
        BY <1>1, <2>2, LenProperties, EmptySeq DEF Load
      <4> QED BY <2>2, <4>1 DEF Load
    <3>2. CASE a = toRunner[1].address
      <4>1. loaded'[a] = toRunner[1].generation
        BY <1>1, <3>1, <3>2
      <4> QED BY <1>2, <1>5, <3>1, <3>2, <4>1 DEF Announced
    <3>3. CASE a # toRunner[1].address
      <4>1. loaded'[a] = loaded[a]
        BY <1>1, <3>1, <3>3
      <4> QED BY <1>4, <1>5, <4>1 DEF Announced
    <3> QED BY <3>2, <3>3
  <2> QED BY <2>1, <2>2 DEF Next, vars, runnerVars, Enter, PdStep, Leave, AddListener, Construct, RemoveListener,
             New, Free, Timer, Receive, CallManager, CallObject, Unlock, Send
<1> QED BY <1>6, <1>7, <1>8, <1>9 DEF GenInv

\* The list and what is at the addresses change together.
LEMMA ListStep ==
    ASSUME DispatchInv, [Next]_vars
    PROVE  /\ ListInv' /\ PdInv'
           /\ listeners' \in Seq(Addresses) /\ object' \in [Addresses -> Conditions] /\ here' \in Addresses
<1>1. /\ listeners \in Seq(Addresses) /\ Len(listeners) \in Nat
      /\ \A i \in 1..Len(listeners) : listeners[i] \in Addresses
      /\ object \in [Addresses -> Conditions] /\ here \in Addresses
  BY LenProperties, ElementOfSeq DEF DispatchInv, TypeOK
<1>2. ListInv /\ PdInv
  BY DEF DispatchInv
<1>3. CASE UNCHANGED <<listeners, object, ppc, here>>
  BY <1>1, <1>2, <1>3 DEF ListInv, IsListed, PdInv
<1>4. CASE Enter \/ Leave \/ \E a \in Addresses : New(a)
  <2>1. /\ UNCHANGED <<listeners, object>> /\ here' \in Addresses
        /\ ppc \in {"in", "out"} /\ ppc' \in {"in", "out", "add"} /\ (ppc' = "add" => object[here'] = "none")
    BY <1>1, <1>4 DEF Enter, Leave, New, objectVars
  <2> QED BY <1>1, <1>2, <2>1 DEF ListInv, IsListed, PdInv
<1>5. CASE Construct \/ \E a \in Addresses : Free(a)
  <2>1. PICK a \in Addresses : /\ object[a] \in {"alive", "registered"} /\ here' = a
                               /\ \/ /\ ppc = "in" /\ ppc' = "remove"
                                     /\ object' = [object EXCEPT ![a] = "dismantled"]
                                  \/ /\ ppc = "construct" /\ ppc' = "in" /\ a = here
                                     /\ object' = [object EXCEPT ![a] = "alive"]
    BY <1>1, <1>2, <1>5 DEF Construct, Free, PdInv
  <2>2. UNCHANGED listeners
    BY <1>5 DEF Construct, Free
  <2>3. object' \in [Addresses -> Conditions]
    BY <1>1, <2>1 DEF Conditions
  <2>4. \A b \in Addresses : object'[b] # "none" <=> object[b] # "none"
    BY <1>1, <2>1
  <2>5. ListInv'
    BY <1>2, <2>2, <2>4 DEF ListInv, IsListed
  <2>6. PdInv'
    BY <1>1, <1>2, <2>1 DEF PdInv
  <2> QED BY <1>1, <2>1, <2>2, <2>3, <2>5, <2>6
<1>6. CASE AddListener
  <2>1. /\ ppc = "add" /\ object[here] = "none" /\ ~IsListed(here)
        /\ listeners' = Append(listeners, here)
        /\ object' = [object EXCEPT ![here] = "registered"] /\ ppc' = "construct" /\ here' = here
    BY <1>1, <1>2, <1>6 DEF AddListener, ListInv, PdInv
  <2>2. /\ listeners' \in Seq(Addresses) /\ Len(listeners') = Len(listeners) + 1
        /\ \A i \in 1..Len(listeners) : listeners'[i] = listeners[i]
        /\ listeners'[Len(listeners) + 1] = here
    BY <1>1, <2>1, AppendProperties
  <2>3. \A i, j \in 1..Len(listeners') : listeners'[i] = listeners'[j] => i = j
    BY <1>1, <1>2, <2>1, <2>2 DEF ListInv, IsListed
  <2>4. \A a \in Addresses : IsListed(a)' <=> IsListed(a) \/ a = here
    BY <1>1, <2>2 DEF IsListed
  <2>5. object' \in [Addresses -> Conditions] /\ \A a \in Addresses : object'[a] # "none" <=> object[a] # "none" \/ a = here
    BY <1>1, <2>1 DEF Conditions
  <2>6. ListInv'
    BY <1>2, <2>3, <2>4, <2>5 DEF ListInv
  <2>7. PdInv'
    BY <1>1, <1>2, <2>1 DEF PdInv
  <2> QED BY <1>1, <2>1, <2>2, <2>5, <2>6, <2>7
<1>7. CASE RemoveListener
  <2>1. /\ ppc = "remove" /\ object[here] = "dismantled" /\ IsListed(here)
        /\ listeners' = Removed(listeners)
        /\ object' = [object EXCEPT ![here] = "none"] /\ ppc' = "in" /\ here' = here
    BY <1>1, <1>2, <1>7 DEF RemoveListener, ListInv, PdInv
  <2>2. DOMAIN listeners = 1..Len(listeners)
    BY <1>1, LenProperties
  <2>3. PICK k \in 1..Len(listeners) : listeners[k] = here /\ listeners' = RemoveAt(listeners, k)
    <3>1. \E k \in DOMAIN listeners : listeners[k] = here
      BY <2>1, <2>2 DEF IsListed
    <3> QED BY <2>1, <2>2, <3>1 DEF Removed
  <2>4. /\ listeners' \in Seq(Addresses) /\ Len(listeners') = Len(listeners) - 1
        /\ \A i \in 1..(Len(listeners) - 1) :
              listeners'[i] = IF i < k THEN listeners[i] ELSE listeners[i + 1]
    BY <1>1, <2>3, RemoveAtFacts
  <2>5. \A i, j \in 1..Len(listeners') : listeners'[i] = listeners'[j] => i = j
    <3>1. \A i, j \in 1..Len(listeners) : listeners[i] = listeners[j] => i = j
      BY <1>2 DEF ListInv
    <3> QED BY <1>1, <2>4, <3>1
  <2>6. \A a \in Addresses : IsListed(a)' <=> IsListed(a) /\ a # here
    <3> TAKE a \in Addresses
    <3>1. ASSUME NEW i \in 1..Len(listeners), listeners[i] = a, a # here PROVE IsListed(a)'
      <4>1. i \in 1..(k - 1) \/ i \in (k + 1)..Len(listeners)
        BY <1>1, <2>3, <3>1
      <4>2. CASE i \in 1..(k - 1)
        BY <1>1, <2>4, <3>1, <4>2 DEF IsListed
      <4>3. CASE i \in (k + 1)..Len(listeners)
        <5>1. i - 1 \in 1..Len(listeners') /\ listeners'[i - 1] = a
          BY <1>1, <2>4, <3>1, <4>3
        <5> QED BY <5>1 DEF IsListed
      <4> QED BY <4>1, <4>2, <4>3
    <3>2. ASSUME NEW i \in 1..Len(listeners'), listeners'[i] = a PROVE IsListed(a) /\ a # here
      <4>1. CASE i < k
        BY <1>1, <1>2, <2>3, <2>4, <3>2, <4>1 DEF IsListed, ListInv
      <4>2. CASE ~(i < k)
        <5>1. i + 1 \in 1..Len(listeners) /\ i + 1 # k /\ listeners[i + 1] = a
          BY <1>1, <2>4, <3>2, <4>2
        <5> QED BY <1>1, <1>2, <2>3, <5>1 DEF IsListed, ListInv
      <4> QED BY <4>1, <4>2
    <3> QED BY <3>1, <3>2 DEF IsListed
  <2>7. object' \in [Addresses -> Conditions] /\ \A a \in Addresses : object'[a] # "none" <=> object[a] # "none" /\ a # here
    BY <1>1, <2>1 DEF Conditions
  <2>8. ListInv'
    BY <1>2, <2>5, <2>6, <2>7 DEF ListInv
  <2>9. PdInv'
    BY <1>1, <1>2, <2>1 DEF PdInv
  <2> QED BY <1>1, <2>1, <2>4, <2>7, <2>8, <2>9
<1>8. \/ UNCHANGED <<listeners, object, ppc, here>>
      \/ Enter \/ Leave \/ (\E a \in Addresses : New(a))
      \/ Construct \/ (\E a \in Addresses : Free(a))
      \/ AddListener \/ RemoveListener
  BY DEF Next, PdStep, vars, objectVars, pdVars, Timer, Receive, CallManager, CallObject, Unlock, Load, Send
<1> QED BY <1>3, <1>4, <1>5, <1>6, <1>7, <1>8

\* Nobody changes the list while the timer thread goes through it, and an
\* object that takes the message is the only one at its address.
LEMMA LoopStep ==
    ASSUME DispatchInv, [Next]_vars
    PROVE  LoopInv' /\ next' \in Nat /\ hits' \in 0..1 /\ listenerLock' \in {"free", "timer"}
<1>1. /\ Len(listeners) \in Nat /\ next \in Nat /\ hits \in 0..1
      /\ tpc \in {"receive", "loop"} /\ listenerLock \in {"free", "timer"}
  BY LenProperties DEF DispatchInv, TypeOK
<1>2. LoopInv /\ ListInv
  BY DEF DispatchInv
<1>3. CASE UNCHANGED <<listenerLock, listeners, timerVars>>
  BY <1>1, <1>2, <1>3 DEF LoopInv, WasReached, timerVars
<1>4. CASE AddListener \/ RemoveListener
  <2>1. tpc = "receive" /\ UNCHANGED <<listenerLock, timerVars>>
    BY <1>1, <1>2, <1>4 DEF AddListener, RemoveListener, locks, LoopInv
  <2> QED BY <1>1, <1>2, <2>1 DEF LoopInv, timerVars
<1>5. CASE Receive
  <2>1. tpc' = "loop" /\ listenerLock' = "timer" /\ next' = 0 /\ hits' = 0 /\ UNCHANGED listeners
    BY <1>5 DEF Receive, objectVars
  <2>2. ~WasReached' /\ next' <= Len(listeners') + 1
    BY <1>1, <2>1 DEF WasReached
  <2> QED BY <1>1, <2>1, <2>2 DEF LoopInv
<1>6. CASE CallManager
  <2>1. /\ tpc = "loop" /\ next = 0 /\ next' = 1 /\ UNCHANGED <<listenerLock, listeners, tpc, hits>>
    BY <1>6 DEF CallManager, locks, objectVars
  <2>2. ~WasReached /\ ~WasReached'
    BY <1>1, <2>1 DEF WasReached
  <2> QED BY <1>1, <1>2, <2>1, <2>2 DEF LoopInv
<1>7. CASE CallObject
  <2>1. /\ tpc = "loop" /\ next \in 1..Len(listeners) /\ next' = next + 1
        /\ UNCHANGED <<listenerLock, listeners, tpc, message>>
    BY <1>7 DEF CallObject, locks, objectVars
  <2>2. WasReached' <=> WasReached \/ listeners[next] = message.address
    BY <1>1, <2>1 DEF WasReached
  <2>3. CASE Takes(listeners[next])
    <3>1. message.kind = "outlet" /\ message.address = listeners[next] /\ hits' = hits + 1
      BY <1>7, <2>3 DEF CallObject, Takes
    <3>2. ~WasReached
      BY <1>1, <1>2, <2>1, <3>1 DEF WasReached, ListInv
    <3>3. hits = 0
      BY <1>2, <2>1, <3>2 DEF LoopInv
    <3> QED BY <1>1, <1>2, <2>1, <2>2, <3>1, <3>3 DEF LoopInv
  <2>4. CASE ~Takes(listeners[next])
    <3>1. UNCHANGED hits /\ (message.kind = "outlet" => message.address # listeners[next])
      BY <1>7, <2>4 DEF CallObject, Takes
    <3>2. message.kind = "outlet" => (WasReached' <=> WasReached)
      BY <2>2, <3>1
    <3> QED BY <1>1, <1>2, <2>1, <3>1, <3>2 DEF LoopInv
  <2> QED BY <2>3, <2>4
<1>8. CASE Unlock
  BY <1>1, <1>8 DEF Unlock, LoopInv
<1> QED BY <1>3, <1>4, <1>5, <1>6, <1>7, <1>8
        DEF Next, vars, locks, objectVars, Enter, PdStep, Leave, New, Construct, Free, Timer, Load, Send

\* An object that is called is in the list, so its destructor has not run,
\* and if it waits for its members the message is not from its own script.
LEMMA CalledStep ==
    ASSUME DispatchInv, [Next]_vars
    PROVE  /\ CalledInv'
           /\ called' \in [condition : Conditions, generation : 0..MaxGeneration, meant : 0..MaxGeneration]
<1>1. /\ listeners \in Seq(Addresses) /\ object \in [Addresses -> Conditions]
      /\ generation \in [Addresses -> 0..MaxGeneration] /\ message \in Message
      /\ called \in [condition : Conditions, generation : 0..MaxGeneration, meant : 0..MaxGeneration]
  BY DEF DispatchInv, TypeOK
<1>2. CalledInv /\ ListInv /\ PdInv /\ GenInv
  BY DEF DispatchInv
<1>3. CASE UNCHANGED called
  BY <1>1, <1>2, <1>3 DEF CalledInv, NoDeadObject, HalfBuiltOnlyByReuse
<1>4. CASE CallObject /\ Takes(listeners[next])
  <2> DEFINE a == listeners[next]
  <2>1. /\ next \in 1..Len(listeners)
        /\ called' = [condition |-> object[a], generation |-> generation[a], meant |-> message.generation]
        /\ message.address = a
    BY <1>4 DEF CallObject, Takes
  <2>2. a \in Addresses /\ IsListed(a)
    BY <1>1, <2>1, ElementOfSeq DEF IsListed
  <2>3. object[a] # "none"
    BY <1>2, <2>2 DEF ListInv
  <2>4. object[a] = "registered" => message.generation < generation[a]
    BY <1>2, <2>1, <2>2 DEF PdInv, GenInv, Announced
  <2> HIDE DEF a
  <2>5. called' \in [condition : Conditions, generation : 0..MaxGeneration, meant : 0..MaxGeneration]
    BY <1>1, <2>1, <2>2 DEF Message
  <2> QED BY <2>1, <2>3, <2>4, <2>5 DEF CalledInv, NoDeadObject, HalfBuiltOnlyByReuse
<1> QED BY <1>3, <1>4
        DEF Next, vars, Enter, PdStep, Leave, New, AddListener, Construct, Free, RemoveListener, Timer, Receive,
            CallManager, CallObject, Unlock, Load, Send

\* The variables that no other lemma is about keep to their types.
LEMMA TypeStep == ASSUME DispatchInv, [Next]_vars PROVE TypeOK'
<1> DEFINE Script == [address : Addresses, generation : 1..MaxGeneration]
<1>1. TypeOK /\ GenInv /\ MaxGeneration \in Nat /\ MaxMessages \in Nat
  BY BoundsAssumption DEF BoundsAssumption, DispatchInv
<1>2. /\ listeners' \in Seq(Addresses) /\ object' \in [Addresses -> Conditions] /\ here' \in Addresses
      /\ next' \in Nat /\ hits' \in 0..1 /\ listenerLock' \in {"free", "timer"}
      /\ called' \in [condition : Conditions, generation : 0..MaxGeneration, meant : 0..MaxGeneration]
  BY ListStep, LoopStep, CalledStep
<1>3. generation' \in [Addresses -> 0..MaxGeneration]
  <2>1. CASE \E a \in Addresses : New(a)
    BY <1>1, <2>1 DEF New, TypeOK
  <2>2. CASE UNCHANGED generation
    BY <1>1, <2>2 DEF TypeOK
  <2> QED BY <2>1, <2>2 DEF Next, vars, objectVars, Enter, PdStep, Leave, AddListener, Construct, RemoveListener,
             Free, Timer, Receive, CallManager, CallObject, Unlock, Load, Send
<1>4. /\ sysLock' \in {"free", "pd"} /\ ppc' \in {"out", "in", "add", "construct", "remove"}
      /\ tpc' \in {"receive", "loop"} /\ fate' \in {"fine", "iterator"} /\ sent' \in 0..MaxMessages
  <2>1. sent' \in 0..MaxMessages
    <3>1. CASE Send
      BY <1>1, <3>1 DEF Send, TypeOK
    <3>2. CASE UNCHANGED sent
      BY <1>1, <3>2 DEF TypeOK
    <3> QED BY <3>1, <3>2 DEF Next, vars, runnerVars, Enter, PdStep, Leave, New, AddListener, Construct,
               RemoveListener, Free, Timer, Receive, CallManager, CallObject, Unlock, Load
  <2>2. fate' \in {"fine", "iterator"}
    <3>1. CASE CallManager \/ CallObject
      BY <1>1, <3>1 DEF CallManager, CallObject, Patch, TypeOK
    <3>2. CASE UNCHANGED fate
      BY <1>1, <3>2 DEF TypeOK
    <3> QED BY <3>1, <3>2 DEF Next, vars, Enter, PdStep, Leave, New, AddListener, Construct, RemoveListener,
               Free, Timer, Receive, Unlock, Load, Send
  <2>3. CASE Timer \/ Load \/ Send \/ UNCHANGED vars
    <3>1. UNCHANGED <<sysLock, ppc>> /\ tpc' \in {tpc, "loop", "receive"}
      BY <2>3 DEF vars, locks, pdVars, timerVars, Timer, Receive, CallManager, CallObject, Unlock, Load, Send
    <3> QED BY <1>1, <2>1, <2>2, <3>1 DEF TypeOK
  <2>4. CASE Enter \/ PdStep \/ \E a \in Addresses : New(a) \/ Free(a)
    <3>1. /\ sysLock' \in {sysLock, "free", "pd"} /\ UNCHANGED tpc
          /\ ppc' \in {"out", "in", "add", "construct", "remove"}
      BY <2>4 DEF locks, timerVars, Enter, PdStep, Leave, New, AddListener, Construct, RemoveListener, Free
    <3> QED BY <1>1, <2>1, <2>2, <3>1 DEF TypeOK
  <2> QED BY <2>3, <2>4 DEF Next
<1>5. message' \in Message
  <2>1. CASE Receive
    BY <1>1, <2>1, HeadTailProperties DEF Receive, TypeOK
  <2>2. CASE UNCHANGED message
    BY <1>1, <2>2 DEF TypeOK
  <2> QED BY <2>1, <2>2 DEF Next, vars, timerVars, Enter, PdStep, Leave, AddListener, Construct, RemoveListener,
             New, Free, Timer, CallManager, CallObject, Unlock, Load, Send
<1>6. inbox' \in Seq(Message)
  <2>1. CASE Receive
    BY <1>1, <2>1, HeadTailProperties DEF Receive, TypeOK
  <2>2. CASE Send
    <3>1. PICK k \in Kinds, a \in Addresses :
              inbox' = Append(inbox, [kind |-> k, address |-> a, generation |-> loaded[a]])
      BY <2>2 DEF Send
    <3>2. [kind |-> k, address |-> a, generation |-> loaded[a]] \in Message
      BY <1>1, KindsAssumption DEF KindsAssumption, TypeOK, Message
    <3> QED BY <1>1, <3>1, <3>2, AppendProperties DEF TypeOK
  <2>3. CASE UNCHANGED inbox
    BY <1>1, <2>3 DEF TypeOK
  <2> QED BY <2>1, <2>2, <2>3 DEF Next, vars, Enter, PdStep, Leave, AddListener, Construct, RemoveListener, New,
             Free, Timer, CallManager, CallObject, Unlock, Load
<1>7. toRunner' \in Seq(Script)
  <2>1. CASE Load
    BY <1>1, <2>1, HeadTailProperties DEF Load, TypeOK
  <2>2. CASE Construct
    <3>1. loaded[here] \in Nat /\ loaded[here] < generation[here] /\ generation[here] \in 0..MaxGeneration
      BY <1>1, <2>2 DEF Construct, TypeOK, GenInv, Announced
    <3>2. [address |-> here, generation |-> generation[here]] \in Script
      BY <1>1, <3>1 DEF TypeOK
    <3> QED BY <1>1, <2>2, <3>2, AppendProperties DEF Construct, TypeOK
  <2>3. CASE UNCHANGED toRunner
    BY <1>1, <2>3 DEF TypeOK
  <2> QED BY <2>1, <2>2, <2>3 DEF Next, vars, Enter, PdStep, Leave, AddListener, RemoveListener, New, Free,
             Timer, Receive, CallManager, CallObject, Unlock, Send
<1>8. loaded' \in [Addresses -> 0..MaxGeneration]
  <2>1. CASE Load
    <3>1. Head(toRunner) \in Script
      BY <1>1, <2>1, HeadTailProperties DEF Load, TypeOK
    <3> QED BY <1>1, <2>1, <3>1 DEF Load, TypeOK
  <2>2. CASE UNCHANGED loaded
    BY <1>1, <2>2 DEF TypeOK
  <2> QED BY <2>1, <2>2 DEF Next, vars, runnerVars, Enter, PdStep, Leave, AddListener, Construct, RemoveListener,
             New, Free, Timer, Receive, CallManager, CallObject, Unlock, Send
<1> QED BY <1>2, <1>3, <1>4, <1>5, <1>6, <1>7, <1>8 DEF TypeOK

\* The invariant holds in every state.
LEMMA DispatchInvariant == Spec => []DispatchInv
<1>1. DispatchInv /\ [Next]_vars => DispatchInv'
  BY TypeStep, ListStep, GenStep, LoopStep, CalledStep DEF DispatchInv
<1> QED BY <1>1, InitDispatch, PTL DEF Spec

-----------------------------------------------------------------------------
\* Every variable keeps to its type.
THEOREM TypeCorrect == Spec => []TypeOK
<1>1. DispatchInv => TypeOK
  BY DEF DispatchInv
<1> QED BY <1>1, DispatchInvariant, PTL

\* No message is handed to an object whose destructor has run, however many
\* messages for it are under way (removeListener, timerCallback).
THEOREM DeadAreLeftAlone == Spec => []NoDeadObject
<1>1. DispatchInv => NoDeadObject
  BY DEF DispatchInv, CalledInv
<1> QED BY <1>1, DispatchInvariant, PTL

\* The timer thread calls an object before its constructor is through only
\* with a message for its predecessor at the address (ofxOfeliaLua's
\* constructor, getUniqueSym).
THEOREM HalfBuiltIsReused == Spec => []HalfBuiltOnlyByReuse
<1>1. DispatchInv => HalfBuiltOnlyByReuse
  BY DEF DispatchInv, CalledInv
<1> QED BY <1>1, DispatchInvariant, PTL

\* When the timer thread leaves the loop, the message has reached the object
\* at its address once if there is one in the list, and nobody otherwise
\* (timerCallback, receiveMessage).
THEOREM HandedOutOnce == Spec => ExactlyOnce
<1> DEFINE Left == tpc = "loop" /\ tpc' = "receive" /\ message.kind = "outlet" =>
                       hits = IF message.address \in Range(listeners) THEN 1 ELSE 0
<1>1. DispatchInv /\ [Next]_vars => [Left]_vars
  <2> SUFFICES ASSUME DispatchInv, [Next]_vars, tpc = "loop", tpc' = "receive", message.kind = "outlet"
               PROVE  hits = IF message.address \in Range(listeners) THEN 1 ELSE 0
    OBVIOUS
  <2>1. Unlock
    BY DEF Next, vars, timerVars, Enter, PdStep, Leave, AddListener, Construct, RemoveListener, New, Free,
           Timer, Receive, CallManager, CallObject, Load, Send
  <2>2. next > Len(listeners) /\ Len(listeners) \in Nat /\ next \in Nat /\ DOMAIN listeners = 1..Len(listeners)
    BY <2>1, LenProperties DEF Unlock, DispatchInv, TypeOK
  <2>3. WasReached <=> message.address \in Range(listeners)
    BY <2>2 DEF WasReached, Range
  <2> QED BY <2>3 DEF DispatchInv, LoopInv
<1> QED BY <1>1, DispatchInvariant, PTL DEF Spec, ExactlyOnce

=============================================================================
