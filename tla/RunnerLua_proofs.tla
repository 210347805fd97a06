-------------------------- MODULE RunnerLua_proofs ---------------------------
(***************************************************************************)
(* Proofs about RunnerLua: a call of a define object runs that object's    *)
(* script.  The runner lags behind the host by the messages on the pipe,   *)
(* so that its state at any moment says little about the host's.  What is  *)
(* invariant is that the runner will agree with the host once it has taken *)
(* every message that is on its way, and that each of these messages then  *)
(* finds the state it was meant for.  The states on the way are a plan: a  *)
(* function that gives the state before each message and after the last.   *)
(***************************************************************************)
EXTENDS RunnerLua, SequenceTheorems, WellFoundedInduction, TLAPS

Messages == [type : {"init", "init_sym", "do_string", "free", "call"}, at : Addresses,
             id : 0..MaxObjects, name : AllNames \cup {NoName},
             outcome : {"good", "syntax", "error"}, script : 0..MaxScripts,
             by : Kinds \cup {"nobody"}]

Instances == [Addresses -> [id : 0..MaxObjects, name : AllNames \cup {NoName},
                            isChunkRun : BOOLEAN]]
Preloads == [AllNames -> [script : 0..MaxScripts, outcome : {"good", "syntax", "error"}]]
Loads == [AllNames -> [script : 0..MaxScripts, outlet : Addresses \cup {0},
                       outletId : 0..MaxObjects, namesake : BOOLEAN]]

\* The states of the runner.  The name of an instance is never missing.
Runners == {r \in [instance : Instances, preload : Preloads, loaded : Loads] :
                \A u \in Addresses : r.instance[u].id # 0 => r.instance[u].name # NoName}

Now == [instance |-> instance, preload |-> preload, loaded |-> loaded]

-----------------------------------------------------------------------------
(* What a message does to a state of the runner *)

CalledIn(r, n) == {u \in Addresses : r.instance[u].id # 0 /\ r.instance[u].name = n}
FirstIn(r, n) == CHOOSE u \in CalledIn(r, n) : \A v \in CalledIn(r, n) : u <= v
ModuleIn(r, script, n) ==
    [script |-> script, outlet |-> FirstIn(r, n), outletId |-> r.instance[FirstIn(r, n)].id,
     namesake |-> \E v, w \in CalledIn(r, n) : v # w]

Created(r, m) ==
    [r EXCEPT !.instance = [@ EXCEPT ![m.at] = [id |-> m.id, name |-> m.at, isChunkRun |-> FALSE]]]

Named(r, m) == [r EXCEPT !.instance = [@ EXCEPT ![m.at].name = m.name]]

Starts(i, u) == [i EXCEPT ![u].isChunkRun = TRUE]
Stops(i, u) == [i EXCEPT ![u].isChunkRun = FALSE]

\* A chunk that runs, and one that fails.  The runner's name of the instance
\* is that of the message here: Fits says so.
Ran(r, m) ==
    [instance |-> Starts(r.instance, m.at),
     preload |-> [r.preload EXCEPT ![m.name] = [script |-> m.script, outcome |-> m.outcome]],
     loaded |-> [r.loaded EXCEPT ![m.name] = ModuleIn(r, m.script, m.name)]]

Failed(r, m) ==
    [instance |-> Stops(r.instance, m.at),
     preload |-> [r.preload EXCEPT ![m.name] = [script |-> m.script, outcome |-> m.outcome]],
     loaded |-> [r.loaded EXCEPT ![m.name] = NoModule]]

Freed(r, m) ==
    [instance |-> Stops(r.instance, m.at), preload |-> r.preload, loaded |-> r.loaded]

DoneString(r, m) ==
    CASE m.outcome = "good" -> Ran(r, m)
      [] m.outcome = "error" -> Failed(r, m)
      [] OTHER -> r

After(r, m) ==
    CASE m.type = "init" -> Created(r, m)
      [] m.type = "init_sym" -> Named(r, m)
      [] m.type = "do_string" -> DoneString(r, m)
      [] m.type = "free" -> Freed(r, m)
      [] OTHER -> r

RequireIn(r, u) ==
    IF r.instance[u].isChunkRun THEN r.loaded[r.instance[u].name].script ELSE 0

\* The state a message is meant for.
Fits(r, m) ==
    /\ m.type = "init" => m.id # 0
    /\ m.type = "init_sym" => m.name # NoName /\ ~r.instance[m.at].isChunkRun
    /\ m.type = "do_string" =>
          /\ m.script # 0
          /\ r.instance[m.at].id # 0
          /\ r.instance[m.at].name = m.name
          /\ \A u \in Addresses : r.instance[u].isChunkRun /\ r.instance[u].name = m.name
                                     => u = m.at
    /\ m.type = "call" /\ m.by = "define" => RequireIn(r, m.at) = m.script

\* What SoleOwner and OwnOutlet say of a state.
SoleOwnerIn(r) ==
    \A u, v \in Addresses :
        /\ r.instance[u].isChunkRun
        /\ r.instance[v].isChunkRun
        /\ r.instance[u].name = r.instance[v].name
        => u = v

OwnOutletIn(r) ==
    \A u \in Addresses :
        LET module == r.loaded[r.instance[u].name]
        IN  r.instance[u].isChunkRun /\ ~module.namesake
                => module.outlet = u /\ module.outletId = r.instance[u].id

\* An instance that runs a script is there.
RunsThere(r) == \A u \in Addresses : r.instance[u].isChunkRun => r.instance[u].id # 0

Good(r) == SoleOwnerIn(r) /\ OwnOutletIn(r) /\ RunsThere(r)

-----------------------------------------------------------------------------
(* The invariant *)

HostTypes ==
    /\ object \in [Addresses -> [kind : Kinds \cup {"none"}, id : 0..MaxObjects,
                                 sym : AllNames \cup {NoName}, script : 0..MaxScripts]]
    /\ bound \subseteq (AllNames \cup {NoName}) \X Addresses
    /\ made \in 0..MaxObjects
    /\ scripts \in 0..MaxScripts
    /\ pipe \in Seq(Messages)
    /\ last \in [by : Kinds \cup {"nobody"}, expected : 0..MaxScripts, ran : 0..MaxScripts]

\* initSym gives no two define objects the same name.
HostNames ==
    /\ \A u \in Addresses : object[u].kind # "none" =>
          /\ <<object[u].sym, u>> \in bound
          /\ object[u].id # 0
    /\ \A u \in Addresses : object[u].kind = "define" =>
          /\ object[u].sym # NoName
          /\ object[u].sym \in Addresses => object[u].sym = u
    /\ \A u, v \in Addresses :
          /\ object[u].kind = "define"
          /\ object[v].kind = "define"
          /\ object[u].sym = object[v].sym
          => u = v

\* The runner as the host, with the objects o, believes it to be.
Agrees(o, r) ==
    \A u \in Addresses :
        /\ r.instance[u].isChunkRun <=> o[u].kind = "define" /\ o[u].script # 0
        /\ r.instance[u].isChunkRun => r.loaded[o[u].sym].script = o[u].script
        /\ o[u].kind # "none" =>
              /\ r.instance[u].id = o[u].id
              /\ r.instance[u].name = IF o[u].sym = NoName THEN u ELSE o[u].sym

\* The plan leads from r to s by the messages p.
Leads(plan, p, r, s) ==
    /\ plan \in [1..Len(p) + 1 -> Runners]
    /\ plan[1] = r
    /\ plan[Len(p) + 1] = s
    /\ \A i \in 1..Len(p) : Fits(plan[i], p[i]) /\ plan[i + 1] = After(plan[i], p[i])

Planned(p, r, s) == \E plan \in [1..Len(p) + 1 -> Runners] : Leads(plan, p, r, s)

LuaInv ==
    /\ HostTypes
    /\ HostNames
    /\ OwnScript
    /\ Good(Now)
    /\ \E s \in Runners : Agrees(object, s) /\ Planned(pipe, Now, s)

-----------------------------------------------------------------------------
(* Lemmas about the states of the runner *)

\* Addresses are compared as numbers: of some there is a first.
LEMMA FirstOf ==
    ASSUME NEW S \in SUBSET Addresses, S # {}
    PROVE  \E u \in S : \A v \in S : u <= v
<1>1. S \subseteq Nat
  BY AddressesAssumption
<1>2. PICK u \in S : \A v \in S : ~ (<<v, u>> \in OpToRel(<, Nat))
  BY <1>1, NatLessThanWellFounded, WFMin
<1>3. ASSUME NEW v \in S PROVE u <= v
  <2>1. u \in Nat /\ v \in Nat
    BY <1>1
  <2>2. ~ (v < u)
    BY <1>2, <2>1 DEF OpToRel
  <2> QED BY <2>1, <2>2
<1> QED BY <1>3

\* The first instance that has a name is one that has it.
LEMMA FirstThere ==
    ASSUME NEW r, NEW n, CalledIn(r, n) # {}
    PROVE  FirstIn(r, n) \in CalledIn(r, n)
<1>1. CalledIn(r, n) \in SUBSET Addresses
  BY DEF CalledIn
<1>2. \E u \in CalledIn(r, n) : \A v \in CalledIn(r, n) : u <= v
  BY <1>1, FirstOf
<1> QED BY <1>2, Zenon DEF FirstIn

\* The fields of a state of the runner.
LEMMA RunnerFields ==
    ASSUME NEW r \in Runners
    PROVE  /\ r = [instance |-> r.instance, preload |-> r.preload, loaded |-> r.loaded]
           /\ r.instance \in Instances
           /\ r.preload \in Preloads
           /\ r.loaded \in Loads
           /\ \A u \in Addresses : r.instance[u].id # 0 => r.instance[u].name # NoName
  BY DEF Runners

LEMMA IsRunner ==
    ASSUME NEW i \in Instances, NEW p \in Preloads, NEW l \in Loads,
           \A u \in Addresses : i[u].id # 0 => i[u].name # NoName
    PROVE  [instance |-> i, preload |-> p, loaded |-> l] \in Runners
  BY DEF Runners

\* Addresses are names, and 0 is neither.
LEMMA NamesDiffer ==
    /\ Addresses \subseteq AllNames
    /\ NoName \notin AllNames
    /\ Names \cap Addresses = {}
  BY AddressesAssumption, NamesAssumption DEF AllNames, NoName

\* The module of a script is of its type.
LEMMA ModuleType ==
    ASSUME NEW r \in Runners, NEW script \in 0..MaxScripts, NEW n, CalledIn(r, n) # {}
    PROVE  /\ ModuleIn(r, script, n) \in [script : 0..MaxScripts, outlet : Addresses \cup {0},
                                          outletId : 0..MaxObjects, namesake : BOOLEAN]
           /\ ModuleIn(r, script, n).script = script
<1>1. FirstIn(r, n) \in Addresses
  BY FirstThere DEF CalledIn
<1>2. r.instance[FirstIn(r, n)].id \in 0..MaxObjects
  BY <1>1, RunnerFields DEF Instances
<1>3. (\E v, w \in CalledIn(r, n) : v # w) \in BOOLEAN
  OBVIOUS
<1> QED BY <1>1, <1>2, <1>3, Zenon DEF ModuleIn

\* The flag isChunkRun of an instance is set or cleared, and nothing else of it.
LEMMA StartsSet ==
    ASSUME NEW i \in Instances, NEW at \in Addresses
    PROVE  /\ Starts(i, at) \in Instances
           /\ Starts(i, at)[at].isChunkRun
           /\ \A u \in Addresses \ {at} : Starts(i, at)[u] = i[u]
           /\ \A u \in Addresses : /\ Starts(i, at)[u].id = i[u].id
                                   /\ Starts(i, at)[u].name = i[u].name
<1>1. Starts(i, at) \in Instances
  BY DEF Instances, Starts
<1>2. \A u \in Addresses \ {at} : Starts(i, at)[u] = i[u]
  BY DEF Instances, Starts
<1>3. Starts(i, at)[at].id = i[at].id /\ Starts(i, at)[at].name = i[at].name
  BY DEF Instances, Starts
<1>4. Starts(i, at)[at].isChunkRun
  BY DEF Instances, Starts
<1> QED BY <1>1, <1>2, <1>3, <1>4

LEMMA StartsRunner ==
    ASSUME NEW r \in Runners, NEW at \in Addresses, NEW p \in Preloads, NEW l \in Loads
    PROVE  [instance |-> Starts(r.instance, at), preload |-> p, loaded |-> l] \in Runners
<1>1. r.instance \in Instances
  BY RunnerFields
<1>2. \A u \in Addresses : Starts(r.instance, at)[u].id # 0 => Starts(r.instance, at)[u].name # NoName
  BY <1>1, RunnerFields, StartsSet
<1>3. Starts(r.instance, at) \in Instances
  BY <1>1, StartsSet
<1> QED BY <1>2, <1>3, IsRunner

LEMMA StopsSet ==
    ASSUME NEW i \in Instances, NEW at \in Addresses
    PROVE  /\ Stops(i, at) \in Instances
           /\ ~Stops(i, at)[at].isChunkRun
           /\ \A u \in Addresses \ {at} : Stops(i, at)[u] = i[u]
           /\ \A u \in Addresses : /\ Stops(i, at)[u].id = i[u].id
                                   /\ Stops(i, at)[u].name = i[u].name
<1>1. Stops(i, at) \in Instances
  BY DEF Instances, Stops
<1>2. \A u \in Addresses \ {at} : Stops(i, at)[u] = i[u]
  BY DEF Instances, Stops
<1>3. Stops(i, at)[at].id = i[at].id /\ Stops(i, at)[at].name = i[at].name
  BY DEF Instances, Stops
<1>4. ~Stops(i, at)[at].isChunkRun
  BY DEF Instances, Stops
<1> QED BY <1>1, <1>2, <1>3, <1>4

LEMMA StopsRunner ==
    ASSUME NEW r \in Runners, NEW at \in Addresses, NEW p \in Preloads, NEW l \in Loads
    PROVE  [instance |-> Stops(r.instance, at), preload |-> p, loaded |-> l] \in Runners
<1>1. r.instance \in Instances
  BY RunnerFields
<1>2. \A u \in Addresses : Stops(r.instance, at)[u].id # 0 => Stops(r.instance, at)[u].name # NoName
  BY <1>1, RunnerFields, StopsSet
<1>3. Stops(r.instance, at) \in Instances
  BY <1>1, StopsSet
<1> QED BY <1>2, <1>3, IsRunner

\* A message takes a state it fits to a state.
LEMMA AfterType ==
    ASSUME NEW r \in Runners, NEW m \in Messages, Fits(r, m)
    PROVE  After(r, m) \in Runners
<1>0. /\ m.at \in Addresses
      /\ m.id \in 0..MaxObjects
      /\ m.name \in AllNames \cup {NoName}
      /\ m.script \in 0..MaxScripts
      /\ m.outcome \in {"good", "syntax", "error"}
  BY DEF Messages
<1>1. CASE m.type = "init"
  <2> DEFINE i == [r.instance EXCEPT ![m.at] = [id |-> m.id, name |-> m.at, isChunkRun |-> FALSE]]
  <2>1. After(r, m) = [instance |-> i, preload |-> r.preload, loaded |-> r.loaded]
    BY <1>1, RunnerFields DEF After, Created
  <2>2. i \in Instances
    BY <1>0, RunnerFields, NamesDiffer DEF Instances
  <2>3. \A u \in Addresses : i[u].id # 0 => i[u].name # NoName
    BY <1>0, RunnerFields, NamesDiffer DEF Instances
  <2> HIDE DEF i
  <2> QED BY <2>1, <2>2, <2>3, RunnerFields, IsRunner
<1>2. CASE m.type = "init_sym"
  <2> DEFINE i == [r.instance EXCEPT ![m.at].name = m.name]
  <2>1. After(r, m) = [instance |-> i, preload |-> r.preload, loaded |-> r.loaded]
    BY <1>2, RunnerFields DEF After, Named
  <2>2. i \in Instances
    BY <1>0, RunnerFields DEF Instances
  <2>3. \A u \in Addresses : i[u].id # 0 => i[u].name # NoName
    BY <1>0, <1>2, RunnerFields DEF Instances, Fits
  <2> HIDE DEF i
  <2> QED BY <2>1, <2>2, <2>3, RunnerFields, IsRunner
<1>3. CASE m.type = "do_string"
  <2> DEFINE p == [r.preload EXCEPT ![m.name] = [script |-> m.script, outcome |-> m.outcome]]
  <2>1. m.name \in AllNames
    BY <1>0, <1>3, RunnerFields DEF Fits
  <2>2. p \in Preloads
    BY <1>0, RunnerFields DEF Preloads
  <2>3. r.loaded \in Loads
    BY RunnerFields
  <2>4. CASE m.outcome = "good"
    <3> DEFINE l == [r.loaded EXCEPT ![m.name] = ModuleIn(r, m.script, m.name)]
    <3>1. m.at \in CalledIn(r, m.name)
      BY <1>0, <1>3 DEF Fits, CalledIn
    <3>2. ModuleIn(r, m.script, m.name)
             \in [script : 0..MaxScripts, outlet : Addresses \cup {0},
                  outletId : 0..MaxObjects, namesake : BOOLEAN]
      BY <1>0, <3>1, ModuleType
    <3>3. l \in Loads
      BY <3>2, <2>3, Zenon DEF Loads
    <3>4. After(r, m) = [instance |-> Starts(r.instance, m.at), preload |-> p, loaded |-> l]
      BY <1>3, <2>4 DEF After, DoneString, Ran
    <3> HIDE DEF p, l
    <3> QED BY <1>0, <2>2, <3>3, <3>4, StartsRunner
  <2>5. CASE m.outcome = "error"
    <3> DEFINE l == [r.loaded EXCEPT ![m.name] = NoModule]
    <3>1. NoModule \in [script : 0..MaxScripts, outlet : Addresses \cup {0},
                        outletId : 0..MaxObjects, namesake : BOOLEAN]
      BY BoundsAssumption DEF NoModule
    <3>2. l \in Loads
      BY <3>1, <2>3, Zenon DEF Loads
    <3>3. After(r, m) = [instance |-> Stops(r.instance, m.at), preload |-> p, loaded |-> l]
      BY <1>3, <2>5 DEF After, DoneString, Failed
    <3> HIDE DEF p, l
    <3> QED BY <1>0, <2>2, <3>2, <3>3, StopsRunner
  <2>6. CASE m.outcome = "syntax"
    <3>1. DoneString(r, m) = r
      BY <2>6 DEF DoneString
    <3> QED BY <1>3, <3>1 DEF After
  <2> QED BY <1>0, <2>4, <2>5, <2>6
<1>4. CASE m.type = "free"
  <2>1. After(r, m) = [instance |-> Stops(r.instance, m.at), preload |-> r.preload,
                       loaded |-> r.loaded]
    BY <1>4 DEF After, Freed
  <2> QED BY <1>0, <2>1, RunnerFields, StopsRunner
<1>5. CASE m.type = "call"
  BY <1>5 DEF After
<1> QED BY <1>1, <1>2, <1>3, <1>4, <1>5 DEF Messages

\* An instance that stops, or that is replaced by one that does not run, takes
\* nothing from the others.
LEMMA FewerGood ==
    ASSUME NEW r, NEW s, NEW at \in Addresses, Good(r), s.loaded = r.loaded,
           ~s.instance[at].isChunkRun,
           \A u \in Addresses \ {at} : s.instance[u] = r.instance[u]
    PROVE  Good(s)
<1>1. \A u \in Addresses : s.instance[u].isChunkRun
                              => r.instance[u].isChunkRun /\ s.instance[u] = r.instance[u]
  OBVIOUS
<1>2. SoleOwnerIn(s)
  BY <1>1 DEF Good, SoleOwnerIn
<1>3. OwnOutletIn(s)
  BY <1>1 DEF Good, OwnOutletIn
<1>4. RunsThere(s)
  BY <1>1 DEF Good, RunsThere
<1> QED BY <1>2, <1>3, <1>4 DEF Good

\* No message makes a second owner of a script, or gives one a wrong outlet.
LEMMA AfterGood ==
    ASSUME NEW r \in Runners, NEW m \in Messages, Fits(r, m), Good(r)
    PROVE  Good(After(r, m))
<1>0. /\ m.at \in Addresses
      /\ m.id \in 0..MaxObjects
      /\ m.name \in AllNames \cup {NoName}
      /\ m.outcome \in {"good", "syntax", "error"}
      /\ m.script \in 0..MaxScripts
  BY DEF Messages
<1>f. r.instance \in Instances /\ r.loaded \in Loads
  BY RunnerFields
<1>r. \A u \in Addresses : r.instance[u].isChunkRun => r.instance[u].name \in AllNames
  <2>1. \A u \in Addresses : r.instance[u].name \in AllNames \cup {NoName}
    BY <1>f DEF Instances
  <2> QED BY <2>1, RunnerFields DEF Good, RunsThere
<1>1. CASE m.type = "init"
  <2> DEFINE s == After(r, m)
  <2>1. /\ s.loaded = r.loaded
        /\ ~s.instance[m.at].isChunkRun
        /\ \A u \in Addresses \ {m.at} : s.instance[u] = r.instance[u]
    BY <1>0, <1>1, <1>f, RunnerFields DEF After, Created, Instances
  <2> HIDE DEF s
  <2>9. Good(s)
    BY <1>0, <2>1, FewerGood
  <2> QED BY <2>9 DEF s
<1>2. CASE m.type = "init_sym"
  <2> DEFINE s == After(r, m)
  <2>1. /\ s.loaded = r.loaded
        /\ \A u \in Addresses \ {m.at} : s.instance[u] = r.instance[u]
    BY <1>0, <1>2, <1>f, RunnerFields DEF After, Named, Instances
  <2>2. ~s.instance[m.at].isChunkRun
    BY <1>0, <1>2, <1>f, RunnerFields DEF After, Named, Instances, Fits
  <2> HIDE DEF s
  <2>9. Good(s)
    BY <1>0, <2>1, <2>2, FewerGood
  <2> QED BY <2>9 DEF s
<1>3. CASE m.type = "do_string" /\ m.outcome = "good"
  <2> DEFINE s == After(r, m)
  <2>0. /\ s.instance = Starts(r.instance, m.at)
        /\ s.loaded = [r.loaded EXCEPT ![m.name] = ModuleIn(r, m.script, m.name)]
    BY <1>3 DEF After, DoneString, Ran
  <2>1. /\ s.instance[m.at].isChunkRun
        /\ \A u \in Addresses \ {m.at} : s.instance[u] = r.instance[u]
        /\ \A u \in Addresses : /\ s.instance[u].id = r.instance[u].id
                                /\ s.instance[u].name = r.instance[u].name
    BY <1>0, <1>f, <2>0, StartsSet
  <2>2. /\ r.instance[m.at].name = m.name
        /\ r.instance[m.at].id # 0
        /\ \A u \in Addresses : r.instance[u].isChunkRun /\ r.instance[u].name = m.name
                                   => u = m.at
    BY <1>3 DEF Fits
  <2>3. m.name \in AllNames
    BY <1>0, <2>2, RunnerFields
  <2>4. s.loaded[m.name] = ModuleIn(r, m.script, m.name)
    BY <1>f, <2>0, <2>3 DEF Loads
  <2>5. \A n \in AllNames \ {m.name} : s.loaded[n] = r.loaded[n]
    BY <1>f, <2>0 DEF Loads
  <2>6. SoleOwnerIn(s)
    BY <2>1, <2>2 DEF SoleOwnerIn, Good
  <2>7. RunsThere(s)
    BY <2>1, <2>2 DEF RunsThere, Good
  <2>8. OwnOutletIn(s)
    <3> SUFFICES ASSUME NEW u \in Addresses, s.instance[u].isChunkRun,
                        ~s.loaded[s.instance[u].name].namesake
                 PROVE  /\ s.loaded[s.instance[u].name].outlet = u
                        /\ s.loaded[s.instance[u].name].outletId = s.instance[u].id
      BY Zenon DEF OwnOutletIn
    <3>1. CASE u = m.at
      <4>1. u \in CalledIn(r, m.name)
        BY <1>0, <2>2, <3>1 DEF CalledIn
      <4>2. s.loaded[s.instance[u].name] = ModuleIn(r, m.script, m.name)
        BY <2>1, <2>2, <2>4, <3>1
      <4>3. ~ \E v, w \in CalledIn(r, m.name) : v # w
        BY <4>2 DEF ModuleIn
      <4>4. u = FirstIn(r, m.name)
        BY <4>1, <4>3, FirstThere
      <4>5. ModuleIn(r, m.script, m.name).outlet = u
        BY <4>4 DEF ModuleIn
      <4>6. ModuleIn(r, m.script, m.name).outletId = r.instance[u].id
        BY <4>4 DEF ModuleIn
      <4> QED BY <2>1, <4>2, <4>5, <4>6
    <3>2. CASE u # m.at
      <4>1. r.instance[u].isChunkRun /\ s.instance[u] = r.instance[u]
        BY <2>1, <3>2
      <4>2. r.instance[u].name # m.name
        BY <2>2, <3>2, <4>1
      <4>3. s.loaded[r.instance[u].name] = r.loaded[r.instance[u].name]
        BY <1>r, <2>5, <4>1, <4>2
      <4> QED BY <4>1, <4>3 DEF Good, OwnOutletIn
    <3> QED BY <3>1, <3>2
  <2> HIDE DEF s
  <2> QED BY <2>6, <2>7, <2>8 DEF Good, s
<1>4. CASE m.type = "do_string" /\ m.outcome = "error"
  <2> DEFINE s == After(r, m)
  <2>0. /\ s.instance = Stops(r.instance, m.at)
        /\ s.loaded = [r.loaded EXCEPT ![m.name] = NoModule]
    BY <1>4 DEF After, DoneString, Failed
  <2>1. /\ ~s.instance[m.at].isChunkRun
        /\ \A u \in Addresses \ {m.at} : s.instance[u] = r.instance[u]
    BY <1>0, <1>f, <2>0, StopsSet
  <2>2. \A n \in AllNames \ {m.name} : s.loaded[n] = r.loaded[n]
    BY <1>f, <2>0 DEF Loads
  <2>3. \A u \in Addresses \ {m.at} : r.instance[u].isChunkRun => r.instance[u].name # m.name
    BY <1>4 DEF Fits
  <2>4. SoleOwnerIn(s)
    BY <2>1 DEF SoleOwnerIn, Good
  <2>5. RunsThere(s)
    BY <2>1 DEF RunsThere, Good
  <2>6. OwnOutletIn(s)
    <3> SUFFICES ASSUME NEW u \in Addresses, s.instance[u].isChunkRun,
                        ~s.loaded[s.instance[u].name].namesake
                 PROVE  /\ s.loaded[s.instance[u].name].outlet = u
                        /\ s.loaded[s.instance[u].name].outletId = s.instance[u].id
      BY Zenon DEF OwnOutletIn
    <3>1. u # m.at
      BY <2>1
    <3>2. r.instance[u].isChunkRun /\ s.instance[u] = r.instance[u]
      BY <2>1, <3>1
    <3>3. s.loaded[r.instance[u].name] = r.loaded[r.instance[u].name]
      BY <1>r, <2>2, <2>3, <3>1, <3>2
    <3> QED BY <3>2, <3>3 DEF Good, OwnOutletIn
  <2> HIDE DEF s
  <2> QED BY <2>4, <2>5, <2>6 DEF Good, s
<1>5. CASE m.type = "do_string" /\ m.outcome = "syntax"
  <2>1. DoneString(r, m) = r
    BY <1>5 DEF DoneString
  <2> QED BY <1>5, <2>1 DEF After
<1>6. CASE m.type = "free"
  <2> DEFINE s == After(r, m)
  <2>0. s.instance = Stops(r.instance, m.at) /\ s.loaded = r.loaded
    BY <1>6 DEF After, Freed
  <2>1. /\ ~s.instance[m.at].isChunkRun
        /\ \A u \in Addresses \ {m.at} : s.instance[u] = r.instance[u]
    BY <1>0, <1>f, <2>0, StopsSet
  <2> HIDE DEF s
  <2>9. Good(s)
    BY <1>0, <2>0, <2>1, FewerGood
  <2> QED BY <2>9 DEF s
<1>7. CASE m.type = "call"
  BY <1>7 DEF After
<1> QED BY <1>0, <1>1, <1>2, <1>3, <1>4, <1>5, <1>6, <1>7 DEF Messages

-----------------------------------------------------------------------------
(* Lemmas about plans *)

\* Nothing is on its way: the runner stays where it is.
LEMMA PlanEmpty ==
    ASSUME NEW r \in Runners
    PROVE  Planned(<<>>, r, r)
<1> DEFINE plan == [i \in 1..1 |-> r]
<1>1. Len(<<>>) = 0
  OBVIOUS
<1>2. Leads(plan, <<>>, r, r)
  BY <1>1 DEF Leads
<1> QED BY <1>1, <1>2 DEF Planned

\* A message that fits the last state of the plan prolongs it.
LEMMA PlanAppend ==
    ASSUME NEW p \in Seq(Messages), NEW r, NEW s \in Runners, NEW m \in Messages,
           Planned(p, r, s), Fits(s, m)
    PROVE  Planned(Append(p, m), r, After(s, m))
<1>1. PICK plan \in [1..Len(p) + 1 -> Runners] : Leads(plan, p, r, s)
  BY DEF Planned
<1> DEFINE t == After(s, m)
           q == Append(p, m)
           new == [i \in 1..Len(p) + 2 |-> IF i = Len(p) + 2 THEN t ELSE plan[i]]
<1>2. Len(p) \in Nat
  BY LenProperties
<1>3. /\ Len(q) = Len(p) + 1
      /\ \A i \in 1..Len(p) : q[i] = p[i]
      /\ q[Len(p) + 1] = m
  BY AppendProperties
<1>4. t \in Runners
  BY AfterType
<1> HIDE DEF t, q
<1>5. new \in [1..Len(q) + 1 -> Runners]
  BY <1>1, <1>2, <1>3, <1>4
<1>6. new[1] = r /\ new[Len(q) + 1] = t
  BY <1>1, <1>2, <1>3 DEF Leads
<1>7. ASSUME NEW i \in 1..Len(q)
      PROVE  Fits(new[i], q[i]) /\ new[i + 1] = After(new[i], q[i])
  <2>1. CASE i \in 1..Len(p)
    <3>1. new[i] = plan[i] /\ new[i + 1] = plan[i + 1] /\ q[i] = p[i]
      BY <1>2, <1>3, <2>1
    <3> QED BY <1>1, <2>1, <3>1 DEF Leads
  <2>2. CASE i = Len(p) + 1
    <3>1. new[i] = s /\ new[i + 1] = t /\ q[i] = m
      BY <1>1, <1>2, <1>3, <2>2 DEF Leads
    <3> QED BY <3>1 DEF t
  <2> QED BY <1>2, <1>3, <2>1, <2>2
<1>8. Leads(new, q, r, t)
  BY <1>5, <1>6, <1>7 DEF Leads
<1> QED BY <1>5, <1>8 DEF Planned, t, q

\* The first message fits the state the runner is in, and takes it one state
\* along the plan.
LEMMA PlanTail ==
    ASSUME NEW p \in Seq(Messages), p # <<>>, NEW r, NEW s, Planned(p, r, s)
    PROVE  /\ Head(p) \in Messages
           /\ Fits(r, Head(p))
           /\ Planned(Tail(p), After(r, Head(p)), s)
<1>1. PICK plan \in [1..Len(p) + 1 -> Runners] : Leads(plan, p, r, s)
  BY DEF Planned
<1> DEFINE new == [i \in 1..Len(p) |-> plan[i + 1]]
           q == Tail(p)
<1>2. Len(p) \in Nat /\ Len(p) # 0
  BY LenProperties, EmptySeq
<1>3. /\ Len(q) = Len(p) - 1
      /\ \A i \in 1..Len(q) : q[i] = p[i + 1]
      /\ Head(p) = p[1]
      /\ Head(p) \in Messages
  BY <1>2, HeadTailProperties
<1> HIDE DEF q
<1>4. Fits(r, Head(p)) /\ plan[2] = After(r, Head(p))
  BY <1>1, <1>2, <1>3 DEF Leads
<1>5. new \in [1..Len(q) + 1 -> Runners]
  BY <1>1, <1>2, <1>3
<1>6. new[1] = After(r, Head(p)) /\ new[Len(q) + 1] = s
  BY <1>1, <1>2, <1>3, <1>4 DEF Leads
<1>7. ASSUME NEW i \in 1..Len(q)
      PROVE  Fits(new[i], q[i]) /\ new[i + 1] = After(new[i], q[i])
  <2>1. new[i] = plan[i + 1] /\ new[i + 1] = plan[i + 1 + 1] /\ q[i] = p[i + 1]
    BY <1>2, <1>3
  <2>2. i + 1 \in 1..Len(p)
    BY <1>2, <1>3
  <2> QED BY <1>1, <2>1, <2>2 DEF Leads
<1>8. Leads(new, q, After(r, Head(p)), s)
  BY <1>5, <1>6, <1>7 DEF Leads
<1> QED BY <1>3, <1>4, <1>5, <1>8 DEF Planned, q

\* A plan begins and ends with states of the runner.
LEMMA PlanEnds ==
    ASSUME NEW p \in Seq(Messages), NEW r, NEW s, Planned(p, r, s)
    PROVE  r \in Runners /\ s \in Runners
<1>1. PICK plan \in [1..Len(p) + 1 -> Runners] : Leads(plan, p, r, s)
  BY DEF Planned
<1>2. Len(p) \in Nat
  BY LenProperties
<1> QED BY <1>1, <1>2 DEF Leads

-----------------------------------------------------------------------------
(* The host *)

\* Two and three messages are sent one by one.
LEMMA SendTwo ==
    ASSUME NEW S, NEW p \in Seq(S), NEW a \in S, NEW b \in S
    PROVE  p \o (<<a>> \o <<b>>) = Append(Append(p, a), b)
<1>1. <<a>> \in Seq(S) /\ <<b>> \in Seq(S)
  OBVIOUS
<1>2. p \o (<<a>> \o <<b>>) = (p \o <<a>>) \o <<b>>
  BY <1>1, ConcatAssociative
<1>3. p \o <<a>> = Append(p, a) /\ Append(p, a) \in Seq(S)
  BY AppendIsConcat, AppendProperties
<1> QED BY <1>2, <1>3, AppendIsConcat

LEMMA SendThree ==
    ASSUME NEW S, NEW p \in Seq(S), NEW a \in S, NEW b \in S, NEW c \in S
    PROVE  p \o (<<a>> \o (<<b>> \o <<c>>)) = Append(Append(Append(p, a), b), c)
<1>1. <<a>> \in Seq(S) /\ <<b>> \in Seq(S) /\ <<c>> \in Seq(S)
  OBVIOUS
<1>2. <<b>> \o <<c>> \in Seq(S)
  BY <1>1, ConcatProperties
<1>3. p \o (<<a>> \o (<<b>> \o <<c>>)) = (p \o <<a>>) \o (<<b>> \o <<c>>)
  BY <1>1, <1>2, ConcatAssociative
<1>4. p \o <<a>> = Append(p, a) /\ Append(p, a) \in Seq(S)
  BY AppendIsConcat, AppendProperties
<1>5. Append(p, a) \o (<<b>> \o <<c>>) = Append(Append(Append(p, a), b), c)
  BY <1>4, SendTwo
<1> QED BY <1>3, <1>4, <1>5

\* What the messages init and init_sym do to an instance.
LEMMA CreatedState ==
    ASSUME NEW s \in Runners, NEW m \in Messages, m.type = "init"
    PROVE  /\ After(s, m).loaded = s.loaded
           /\ After(s, m).instance[m.at].id = m.id
           /\ After(s, m).instance[m.at].name = m.at
           /\ ~After(s, m).instance[m.at].isChunkRun
           /\ \A u \in Addresses \ {m.at} : After(s, m).instance[u] = s.instance[u]
<1>1. m.at \in Addresses
  BY DEF Messages
<1> QED BY <1>1, RunnerFields DEF After, Created, Instances

LEMMA NamedState ==
    ASSUME NEW s \in Runners, NEW m \in Messages, m.type = "init_sym",
           ~s.instance[m.at].isChunkRun
    PROVE  /\ After(s, m).loaded = s.loaded
           /\ After(s, m).instance[m.at].id = s.instance[m.at].id
           /\ After(s, m).instance[m.at].name = m.name
           /\ ~After(s, m).instance[m.at].isChunkRun
           /\ \A u \in Addresses \ {m.at} : After(s, m).instance[u] = s.instance[u]
<1>1. m.at \in Addresses
  BY DEF Messages
<1> QED BY <1>1, RunnerFields DEF After, Named, Instances

\* The messages are of their type.
LEMMA MessageTypes ==
    ASSUME HostTypes, NEW u \in Addresses, NEW n \in AllNames \cup {NoName}
    PROVE  /\ made < MaxObjects => LuaInit(u) \in Messages
           /\ InitSym(u, n) \in Messages
           /\ Message("free", u) \in Messages
<1>1. made \in 0..MaxObjects /\ 0 \in 0..MaxObjects /\ 0 \in 0..MaxScripts
  BY BoundsAssumption DEF HostTypes
<1>2. Message("free", u) \in Messages
  BY <1>1 DEF Message, Messages
<1>3. InitSym(u, n) = [type |-> "init_sym", at |-> u, id |-> 0, name |-> n, outcome |-> "good",
                       script |-> 0, by |-> "nobody"]
  BY DEF InitSym, Message
<1>4. InitSym(u, n) \in Messages
  BY <1>1, <1>3 DEF Messages
<1>5. LuaInit(u) = [type |-> "init", at |-> u, id |-> made + 1, name |-> NoName,
                    outcome |-> "good", script |-> 0, by |-> "nobody"]
  BY DEF LuaInit, Message
<1>6. made < MaxObjects => made + 1 \in 0..MaxObjects
  BY <1>1, BoundsAssumption
<1>7. made < MaxObjects => LuaInit(u) \in Messages
  BY <1>1, <1>5, <1>6 DEF Messages
<1> QED BY <1>2, <1>4, <1>7

\* initSym gives a define object a name of its own.
LEMMA NewNames ==
    ASSUME HostTypes, HostNames, NEW u \in Addresses, NEW kind \in Kinds,
           NEW c \in Names \cup {NoName}, New(u, kind, c)
    PROVE  HostNames'
<1> DEFINE sym == Sym(u, kind, c)
<1>1. /\ object' = [object EXCEPT ![u] = [kind |-> kind, id |-> made + 1, sym |-> sym, script |-> 0]]
      /\ bound' = bound \cup {<<sym, u>>}
      /\ object[u].kind = "none"
      /\ made \in Nat
  BY DEF New, BindSym, HostTypes
<1>2. /\ object'[u] = [kind |-> kind, id |-> made + 1, sym |-> sym, script |-> 0]
      /\ \A v \in Addresses \ {u} : object'[v] = object[v]
  BY <1>1 DEF HostTypes
<1>3. kind = "define" =>
         \/ sym = u
         \/ /\ sym = c
            /\ c \in Names
            /\ \A v \in Addresses : object[v].kind = "define" => <<c, v>> \notin bound
  BY DEF Sym, FallsBack, FindDefine
<1> HIDE DEF sym
<1>4. ASSUME NEW v \in Addresses, object'[v].kind # "none"
      PROVE  <<object'[v].sym, v>> \in bound' /\ object'[v].id # 0
  <2>1. CASE v = u
    BY <1>1, <1>2, <2>1
  <2>2. CASE v # u
    BY <1>1, <1>2, <1>4, <2>2 DEF HostNames
  <2> QED BY <2>1, <2>2
<1>5. ASSUME NEW v \in Addresses, object'[v].kind = "define"
      PROVE  /\ object'[v].sym # NoName
             /\ object'[v].sym \in Addresses => object'[v].sym = v
  <2>1. CASE v = u
    BY <1>2, <1>3, <1>5, <2>1, NamesDiffer DEF AllNames
  <2>2. CASE v # u
    BY <1>2, <1>5, <2>2 DEF HostNames
  <2> QED BY <2>1, <2>2
<1>6. ASSUME NEW v \in Addresses, object[v].kind = "define", kind = "define"
      PROVE  object[v].sym # sym
  <2>1. /\ <<object[v].sym, v>> \in bound
        /\ object[v].sym \in Addresses => object[v].sym = v
        /\ v # u
    BY <1>1, <1>6 DEF HostNames
  <2> QED BY <1>3, <1>6, <2>1
<1>7. ASSUME NEW v \in Addresses, NEW w \in Addresses,
             object'[v].kind = "define", object'[w].kind = "define",
             object'[v].sym = object'[w].sym
      PROVE  v = w
  <2>1. CASE v = u /\ w # u
    BY <1>2, <1>6, <1>7, <2>1
  <2>2. CASE v # u /\ w = u
    BY <1>2, <1>6, <1>7, <2>2
  <2>3. CASE v # u /\ w # u
    BY <1>2, <1>7, <2>3 DEF HostNames
  <2> QED BY <2>1, <2>2, <2>3
<1> QED BY <1>4, <1>5, <1>7, Zenon DEF HostNames

\* Init and init_sym leave the new object's instance with the name that the
\* host has settled on.
LEMMA NewInv ==
    ASSUME LuaInv, NEW u \in Addresses, NEW kind \in Kinds, NEW c \in Names \cup {NoName},
           New(u, kind, c)
    PROVE  LuaInv'
<1>0. HostTypes /\ HostNames
  BY DEF LuaInv
<1>1. PICK s \in Runners : Agrees(object, s) /\ Planned(pipe, Now, s)
  BY DEF LuaInv
<1> DEFINE sym == Sym(u, kind, c)
           a == LuaInit(u)
           b == InitSym(u, c)
           d == InitSym(u, u)
<1>2. /\ object' = [object EXCEPT ![u] = [kind |-> kind, id |-> made + 1, sym |-> sym, script |-> 0]]
      /\ made' = made + 1
      /\ made < MaxObjects
      /\ bound' = bound \cup {<<sym, u>>}
      /\ UNCHANGED <<scripts, last>>
      /\ Now' = Now
  BY DEF New, BindSym, runnerVars, Now
<1>3. /\ object'[u] = [kind |-> kind, id |-> made + 1, sym |-> sym, script |-> 0]
      /\ \A v \in Addresses \ {u} : object'[v] = object[v]
  BY <1>0, <1>2 DEF HostTypes
<1>4. c \in AllNames \cup {NoName} /\ u \in AllNames \cup {NoName} /\ u # NoName
  BY AddressesAssumption DEF AllNames, NoName
<1>5. a \in Messages /\ b \in Messages /\ d \in Messages
  BY <1>0, <1>2, <1>4, MessageTypes
<1>6. /\ a.type = "init" /\ a.at = u /\ a.id = made + 1
      /\ b.type = "init_sym" /\ b.at = u /\ b.name = c
      /\ d.type = "init_sym" /\ d.at = u /\ d.name = u
  BY DEF LuaInit, InitSym, Message
<1>7. made + 1 # 0
  BY <1>0 DEF HostTypes
<1>8. pipe \in Seq(Messages)
  BY <1>0 DEF HostTypes
\* The states on the way have one shape.
<1> DEFINE Shape(t, n) ==
        /\ t \in Runners
        /\ t.loaded = s.loaded
        /\ t.instance[u].id = made + 1
        /\ t.instance[u].name = n
        /\ ~t.instance[u].isChunkRun
        /\ \A v \in Addresses \ {u} : t.instance[v] = s.instance[v]
<1> HIDE DEF a, b, d
<1>a. Shape(After(s, a), u) /\ Planned(Append(pipe, a), Now, After(s, a))
  <2>1. Fits(s, a)
    BY <1>6, <1>7 DEF Fits
  <2>2. After(s, a) \in Runners
    BY <1>5, <2>1, AfterType
  <2>3. Shape(After(s, a), u)
    BY <1>5, <1>6, <2>2, CreatedState
  <2> QED BY <1>1, <1>5, <1>8, <2>1, <2>3, PlanAppend
<1>b. ASSUME NEW p \in Seq(Messages), NEW t, NEW n, Shape(t, n), Planned(p, Now, t),
             NEW m \in Messages, m.type = "init_sym", m.at = u, m.name # NoName
      PROVE  Shape(After(t, m), m.name) /\ Planned(Append(p, m), Now, After(t, m))
  <2>1. Fits(t, m)
    BY <1>b DEF Fits
  <2>2. After(t, m) \in Runners
    BY <1>b, <2>1, AfterType
  <2>3. Shape(After(t, m), m.name)
    BY <1>b, <2>2, NamedState
  <2> QED BY <1>b, <2>1, <2>3, PlanAppend
<1>c. ASSUME NEW t, NEW n, Shape(t, n), n = IF sym = NoName THEN u ELSE sym
      PROVE  Agrees(object', t)
  <2> SUFFICES ASSUME NEW v \in Addresses
               PROVE  /\ t.instance[v].isChunkRun <=> object'[v].kind = "define" /\ object'[v].script # 0
                      /\ t.instance[v].isChunkRun => t.loaded[object'[v].sym].script = object'[v].script
                      /\ object'[v].kind # "none" =>
                            /\ t.instance[v].id = object'[v].id
                            /\ t.instance[v].name = IF object'[v].sym = NoName THEN v ELSE object'[v].sym
    BY Zenon DEF Agrees
  <2>1. CASE v = u
    BY <1>3, <1>c, <2>1
  <2>2. CASE v # u
    BY <1>1, <1>3, <1>c, <2>2 DEF Agrees
  <2> QED BY <2>1, <2>2
<1>d. ASSUME NEW t, NEW n, Shape(t, n), n = IF sym = NoName THEN u ELSE sym,
             pipe' \in Seq(Messages), Planned(pipe', Now, t)
      PROVE  LuaInv'
  <2>1. HostTypes'
    <3>1. sym \in AllNames \cup {NoName}
      BY <1>4 DEF Sym
    <3>2. made + 1 \in 0..MaxObjects
      <4>1. made \in 0..MaxObjects
        BY <1>0 DEF HostTypes
      <4> QED BY <1>2, <4>1, BoundsAssumption
    <3>3. [kind |-> kind, id |-> made + 1, sym |-> sym, script |-> 0]
             \in [kind : Kinds \cup {"none"}, id : 0..MaxObjects,
                  sym : AllNames \cup {NoName}, script : 0..MaxScripts]
      BY <3>1, <3>2, BoundsAssumption
    <3> HIDE DEF sym
    <3> QED BY <1>0, <1>2, <1>d, <3>1, <3>2, <3>3 DEF HostTypes
  <2>2. HostNames'
    BY <1>0, NewNames
  <2>3. OwnScript'
    BY <1>2 DEF LuaInv, OwnScript
  <2>4. Good(Now)'
    BY <1>2 DEF LuaInv, Good, SoleOwnerIn, OwnOutletIn, RunsThere
  <2>5. Agrees(object', t)
    BY <1>c, <1>d
  <2>6. Planned(pipe', Now', t)
    BY <1>2, <1>d
  <2> QED BY <1>d, <2>1, <2>2, <2>3, <2>4, <2>5, <2>6, Zenon DEF LuaInv
<1>9. pipe' = pipe \o (<<a>> \o NamesSent(u, kind, c))
  BY DEF New, Send, a
<1>10. Append(pipe, a) \in Seq(Messages)
  BY <1>5, <1>8, AppendProperties
<1>11. sym = IF FallsBack(u, kind, c) THEN u ELSE c
  BY DEF Sym
<1>12. NamesSent(u, kind, c) = (IF c # NoName THEN <<b>> ELSE <<>>) \o
                               (IF FallsBack(u, kind, c) THEN <<d>> ELSE <<>>)
  BY DEF NamesSent, b, d
<1> HIDE DEF sym
<1>13. CASE c = NoName /\ ~FallsBack(u, kind, c)
  <2>1. <<a>> \o NamesSent(u, kind, c) = <<a>>
    BY <1>12, <1>13
  <2>2. pipe' = Append(pipe, a)
    BY <1>5, <1>8, <1>9, <2>1, AppendIsConcat
  <2>3. u = IF sym = NoName THEN u ELSE sym
    BY <1>11, <1>13
  <2> HIDE DEF Shape
  <2> QED BY <1>a, <1>d, <1>10, <2>2, <2>3
<1>14. ASSUME NEW m \in {b, d}, NamesSent(u, kind, c) = <<m>>, m.name # NoName, m.name = sym
       PROVE  LuaInv'
  <2>2. m \in Messages /\ m.type = "init_sym" /\ m.at = u
    BY <1>5, <1>6
  <2>3. pipe' = Append(Append(pipe, a), m)
    BY <1>5, <1>8, <1>9, <1>14, <2>2, SendTwo
  <2>4. Append(Append(pipe, a), m) \in Seq(Messages)
    BY <1>10, <2>2, AppendProperties
  <2> HIDE DEF Shape
  <2>5. /\ Shape(After(After(s, a), m), m.name)
        /\ Planned(Append(Append(pipe, a), m), Now, After(After(s, a), m))
    BY <1>a, <1>b, <1>10, <1>14, <2>2
  <2>6. m.name = IF sym = NoName THEN u ELSE sym
    BY <1>14
  <2> QED BY <1>d, <2>3, <2>4, <2>5, <2>6
<1>15. CASE c # NoName /\ ~FallsBack(u, kind, c)
  <2>1. NamesSent(u, kind, c) = <<b>>
    BY <1>12, <1>15
  <2> QED BY <1>6, <1>11, <1>14, <1>15, <2>1
<1>16. CASE c = NoName /\ FallsBack(u, kind, c)
  <2>1. NamesSent(u, kind, c) = <<d>>
    BY <1>12, <1>16
  <2> QED BY <1>4, <1>6, <1>11, <1>14, <1>16, <2>1
<1>17. CASE c # NoName /\ FallsBack(u, kind, c)
  <2>1. NamesSent(u, kind, c) = <<b>> \o <<d>>
    BY <1>12, <1>17
  <2>2. pipe' = Append(Append(Append(pipe, a), b), d)
    <3>1. pipe' = pipe \o (<<a>> \o (<<b>> \o <<d>>))
      BY <1>9, <2>1, Zenon
    <3>2. pipe \o (<<a>> \o (<<b>> \o <<d>>)) = Append(Append(Append(pipe, a), b), d)
      BY <1>5, <1>8, SendThree
    <3> QED BY <3>1, <3>2
  <2>3. /\ Append(Append(pipe, a), b) \in Seq(Messages)
        /\ Append(Append(Append(pipe, a), b), d) \in Seq(Messages)
    BY <1>5, <1>10, AppendProperties
  <2> HIDE DEF Shape
  <2>4. /\ Shape(After(After(s, a), b), c)
        /\ Planned(Append(Append(pipe, a), b), Now, After(After(s, a), b))
    BY <1>a, <1>b, <1>5, <1>6, <1>10, <1>17
  <2>5. /\ Shape(After(After(After(s, a), b), d), u)
        /\ Planned(Append(Append(Append(pipe, a), b), d), Now, After(After(After(s, a), b), d))
    BY <1>b, <1>4, <1>5, <1>6, <2>3, <2>4
  <2>6. u = IF sym = NoName THEN u ELSE sym
    BY <1>11, <1>17
  <2> QED BY <1>d, <2>2, <2>3, <2>5, <2>6
<1> QED BY <1>13, <1>15, <1>16, <1>17

\* The other actions of the host send one message at most, and leave the names
\* of the objects that stay.
LEMMA OneMessage ==
    ASSUME LuaInv, NEW s \in Runners, Agrees(object, s), Planned(pipe, Now, s),
           NEW m \in Messages, Fits(s, m), pipe' = Append(pipe, m),
           Agrees(object', After(s, m)), Now' = Now, last' = last, HostTypes', HostNames'
    PROVE  LuaInv'
<1>1. pipe \in Seq(Messages)
  BY DEF LuaInv, HostTypes
<1>2. Planned(pipe', Now', After(s, m))
  BY <1>1, PlanAppend
<1>3. After(s, m) \in Runners
  BY AfterType
<1>4. OwnScript' /\ Good(Now)'
  <2>1. OwnScript'
    BY DEF LuaInv, OwnScript
  <2>2. Good(Now)'
    BY DEF LuaInv, Good, SoleOwnerIn, OwnOutletIn, RunsThere
  <2> QED BY <2>1, <2>2
<1> QED BY <1>2, <1>3, <1>4, Zenon DEF LuaInv

\* The runner agrees after the host changes an object and the runner its instance.
LEMMA ObjectAgrees ==
    ASSUME NEW s, NEW t, Agrees(object, s), HostTypes, HostNames, NEW u \in Addresses,
           object[u].kind = "define",
           object'[u].kind \in {"define", "none"},
           object'[u].id = object[u].id,
           object'[u].sym = object[u].sym,
           \A v \in Addresses \ {u} : object'[v] = object[v],
           \A v \in Addresses \ {u} : t.instance[v] = s.instance[v],
           t.instance[u].id = s.instance[u].id,
           t.instance[u].name = s.instance[u].name,
           \A k \in AllNames \ {object[u].sym} : t.loaded[k] = s.loaded[k],
           t.instance[u].isChunkRun <=> object'[u].kind = "define" /\ object'[u].script # 0,
           t.instance[u].isChunkRun => t.loaded[object[u].sym].script = object'[u].script
    PROVE  Agrees(object', t)
<1> SUFFICES ASSUME NEW v \in Addresses
             PROVE  /\ t.instance[v].isChunkRun <=> object'[v].kind = "define" /\ object'[v].script # 0
                    /\ t.instance[v].isChunkRun => t.loaded[object'[v].sym].script = object'[v].script
                    /\ object'[v].kind # "none" =>
                          /\ t.instance[v].id = object'[v].id
                          /\ t.instance[v].name = IF object'[v].sym = NoName THEN v ELSE object'[v].sym
  BY Zenon DEF Agrees
<1>1. CASE v = u
  BY <1>1 DEF Agrees
<1>2. CASE v # u
  <2>1. /\ s.instance[v].isChunkRun <=> object[v].kind = "define" /\ object[v].script # 0
        /\ s.instance[v].isChunkRun => s.loaded[object[v].sym].script = object[v].script
        /\ object[v].kind # "none" =>
              /\ s.instance[v].id = object[v].id
              /\ s.instance[v].name = IF object[v].sym = NoName THEN v ELSE object[v].sym
    BY DEF Agrees
  <2>2. object[v].kind = "define" =>
            object[v].sym \in AllNames \ {object[u].sym}
    <3>1. object[v].sym \in AllNames \cup {NoName}
      BY DEF HostTypes
    <3> QED BY <1>2, <3>1 DEF HostNames
  <2> QED BY <1>2, <2>1, <2>2
<1> QED BY <1>1, <1>2

\* The script of a running object, and no other, is what changes.
LEMMA SetScriptInv ==
    ASSUME LuaInv, NEW u \in Addresses, NEW outcome \in Scripts, SetScript(u, outcome)
    PROVE  LuaInv'
<1>0. HostTypes /\ HostNames
  BY DEF LuaInv
<1>1. PICK s \in Runners : Agrees(object, s) /\ Planned(pipe, Now, s)
  BY DEF LuaInv
<1> DEFINE m == [Message("do_string", u) EXCEPT !.name = object[u].sym, !.outcome = outcome,
                                                !.script = scripts + 1]
           n == object[u].sym
<1>2. m = [type |-> "do_string", at |-> u, id |-> 0, name |-> n, outcome |-> outcome,
           script |-> scripts + 1, by |-> "nobody"]
  <2> DEFINE x(c, o, i) == [type |-> "do_string", at |-> u, id |-> 0, name |-> c,
                            outcome |-> o, script |-> i, by |-> "nobody"]
  <2>1. Message("do_string", u) = x(NoName, "good", 0)
    BY DEF Message
  <2>2. m = [[[Message("do_string", u) EXCEPT !.name = n] EXCEPT !.outcome = outcome]
                EXCEPT !.script = scripts + 1]
    OBVIOUS
  <2>3. [x(NoName, "good", 0) EXCEPT !.name = n] = x(n, "good", 0)
    OBVIOUS
  <2>4. [x(n, "good", 0) EXCEPT !.outcome = outcome] = x(n, outcome, 0)
    OBVIOUS
  <2>5. [x(n, outcome, 0) EXCEPT !.script = scripts + 1] = x(n, outcome, scripts + 1)
    OBVIOUS
  <2> HIDE DEF x, m
  <2>6. m = x(n, outcome, scripts + 1)
    BY <2>1, <2>2, <2>3, <2>4, <2>5
  <2> QED BY <2>6 DEF x
<1>3. /\ object[u].kind = "define"
      /\ scripts' = scripts + 1
      /\ scripts < MaxScripts
      /\ UNCHANGED <<bound, made, last>>
      /\ Now' = Now
      /\ pipe' = pipe \o <<m>>
  BY DEF SetScript, Send, runnerVars, Now
<1>4. object[u] \in [kind : Kinds \cup {"none"}, id : 0..MaxObjects,
                     sym : AllNames \cup {NoName}, script : 0..MaxScripts]
  BY <1>0 DEF HostTypes
<1>5. scripts + 1 \in 0..MaxScripts /\ scripts + 1 # 0
  <2>1. scripts \in 0..MaxScripts
    BY <1>0 DEF HostTypes
  <2> QED BY <1>3, <2>1, BoundsAssumption
<1>6. outcome \in {"good", "syntax", "error"}
  BY ScriptsAssumption
<1>7. m \in Messages
  <2>1. n \in AllNames \cup {NoName} /\ 0 \in 0..MaxObjects
    BY <1>4, BoundsAssumption
  <2> HIDE DEF m, n
  <2> QED BY <1>2, <1>5, <1>6, <2>1 DEF Messages
<1>8. /\ m.type = "do_string" /\ m.at = u /\ m.name = n /\ m.outcome = outcome
      /\ m.script = scripts + 1
  BY <1>2
<1> HIDE DEF m
<1>9. pipe' = Append(pipe, m) /\ pipe' \in Seq(Messages)
  <2>1. pipe \in Seq(Messages)
    BY <1>0 DEF HostTypes
  <2> QED BY <1>3, <1>7, <2>1, AppendIsConcat, AppendProperties
<1>10. /\ n \in AllNames
       /\ s.instance[u].id # 0
       /\ s.instance[u].name = n
       /\ \A v \in Addresses : s.instance[v].isChunkRun /\ s.instance[v].name = n => v = u
  <2>1. n # NoName /\ n \in AllNames \cup {NoName}
    BY <1>0, <1>3, <1>4 DEF HostNames
  <2>2. s.instance[u].id # 0 /\ s.instance[u].name = n
    BY <1>0, <1>1, <1>3, <2>1 DEF Agrees, HostNames
  <2>3. ASSUME NEW v \in Addresses, s.instance[v].isChunkRun, s.instance[v].name = n
        PROVE  v = u
    <3>1. object[v].kind = "define"
      BY <1>1, <2>3 DEF Agrees
    <3>2. object[v].sym # NoName /\ s.instance[v].name = object[v].sym
      BY <1>0, <1>1, <3>1 DEF Agrees, HostNames
    <3> QED BY <1>0, <1>3, <2>3, <3>1, <3>2 DEF HostNames
  <2> QED BY <2>1, <2>2, <2>3
<1>11. Fits(s, m)
  BY <1>5, <1>8, <1>10 DEF Fits
<1> DEFINE new == CASE outcome = "good" -> scripts + 1
                    [] outcome = "error" -> 0
                    [] outcome = "syntax" -> object[u].script
<1>12. object' = [object EXCEPT ![u].script = new]
  BY Zenon DEF SetScript
<1>13. /\ outcome = "good" => new = scripts + 1
       /\ outcome = "error" => new = 0
       /\ outcome = "syntax" => new = object[u].script
       /\ new \in 0..MaxScripts
  <2>1. CASE outcome = "good"
    BY <1>5, <2>1
  <2>2. CASE outcome = "error"
    BY <2>2, BoundsAssumption
  <2>3. CASE outcome = "syntax"
    BY <1>4, <2>3
  <2> QED BY <1>6, <2>1, <2>2, <2>3
<1> HIDE DEF new
<1>14. /\ object'[u].kind = object[u].kind /\ object'[u].id = object[u].id
       /\ object'[u].sym = object[u].sym /\ object'[u].script = new
       /\ \A v \in Addresses \ {u} : object'[v] = object[v]
  BY <1>0, <1>12 DEF HostTypes
<1>15. HostTypes'
  <2>1. object' \in [Addresses -> [kind : Kinds \cup {"none"}, id : 0..MaxObjects,
                                   sym : AllNames \cup {NoName}, script : 0..MaxScripts]]
    BY <1>0, <1>12, <1>13 DEF HostTypes
  <2> QED BY <1>0, <1>3, <1>5, <1>9, <2>1 DEF HostTypes
<1>16. HostNames'
  BY <1>0, <1>3, <1>14 DEF HostNames
<1>17. Agrees(object', After(s, m))
  <2> DEFINE t == After(s, m)
  <2>0. s.instance \in Instances /\ s.loaded \in Loads
    BY RunnerFields
  <2>1. CASE outcome = "syntax"
    <3>1. DoneString(s, m) = s
      BY <1>8, <2>1 DEF DoneString
    <3>2. t = s
      BY <1>8, <3>1 DEF After
    <3> HIDE DEF t
    <3>3. Agrees(object', s)
      BY <1>0, <1>1, <1>3, <1>13, <1>14, <2>1, ObjectAgrees DEF Agrees
    <3> QED BY <3>2, <3>3 DEF t
  <2>2. CASE outcome = "good"
    <3>1. /\ t.instance = Starts(s.instance, u)
          /\ t.loaded = [s.loaded EXCEPT ![n] = ModuleIn(s, scripts + 1, n)]
      BY <1>8, <2>2 DEF After, DoneString, Ran
    <3> HIDE DEF t
    <3>2. /\ t.instance[u].isChunkRun
          /\ \A v \in Addresses \ {u} : t.instance[v] = s.instance[v]
          /\ t.instance[u].id = s.instance[u].id
          /\ t.instance[u].name = s.instance[u].name
      BY <2>0, <3>1, StartsSet
    <3>3. /\ t.loaded[n].script = scripts + 1
          /\ \A k \in AllNames \ {n} : t.loaded[k] = s.loaded[k]
      BY <1>10, <2>0, <3>1 DEF Loads, ModuleIn
    <3>4. Agrees(object', t)
      BY <1>0, <1>1, <1>3, <1>5, <1>10, <1>13, <1>14, <2>2, <3>2, <3>3, ObjectAgrees
    <3> QED BY <3>4 DEF t
  <2>3. CASE outcome = "error"
    <3>1. /\ t.instance = Stops(s.instance, u)
          /\ t.loaded = [s.loaded EXCEPT ![n] = NoModule]
      BY <1>8, <2>3 DEF After, DoneString, Failed
    <3> HIDE DEF t
    <3>2. /\ ~t.instance[u].isChunkRun
          /\ \A v \in Addresses \ {u} : t.instance[v] = s.instance[v]
          /\ t.instance[u].id = s.instance[u].id
          /\ t.instance[u].name = s.instance[u].name
      BY <2>0, <3>1, StopsSet
    <3>3. \A k \in AllNames \ {n} : t.loaded[k] = s.loaded[k]
      BY <2>0, <3>1 DEF Loads
    <3>4. Agrees(object', t)
      BY <1>0, <1>1, <1>3, <1>5, <1>10, <1>13, <1>14, <2>3, <3>2, <3>3, ObjectAgrees
    <3> QED BY <3>4 DEF t
  <2> QED BY <1>6, <2>1, <2>2, <2>3
<1> QED BY <1>1, <1>3, <1>7, <1>9, <1>11, <1>15, <1>16, <1>17, OneMessage

\* An object goes, or stops, and its instance stops.
LEMMA StoppedAgrees ==
    ASSUME NEW o, NEW q, NEW s, NEW t, Agrees(o, s), NEW u \in Addresses,
           o[u].kind # "none",
           \/ q[u].kind = o[u].kind /\ q[u].script = 0 /\ q[u].sym = o[u].sym /\ q[u].id = o[u].id
           \/ q[u].kind = "none",
           \A v \in Addresses \ {u} : q[v] = o[v],
           t.loaded = s.loaded,
           ~t.instance[u].isChunkRun,
           \A v \in Addresses \ {u} : t.instance[v] = s.instance[v],
           t.instance[u].id = s.instance[u].id,
           t.instance[u].name = s.instance[u].name
    PROVE  Agrees(q, t)
<1> SUFFICES ASSUME NEW v \in Addresses
             PROVE  /\ t.instance[v].isChunkRun <=> q[v].kind = "define" /\ q[v].script # 0
                    /\ t.instance[v].isChunkRun => t.loaded[q[v].sym].script = q[v].script
                    /\ q[v].kind # "none" =>
                          /\ t.instance[v].id = q[v].id
                          /\ t.instance[v].name = IF q[v].sym = NoName THEN v ELSE q[v].sym
  BY Zenon DEF Agrees
<1>1. CASE v = u
  BY <1>1 DEF Agrees
<1>2. CASE v # u
  BY <1>2 DEF Agrees
<1> QED BY <1>1, <1>2

\* __clear and the destruction of a define object stop its script.
LEMMA FreedInv ==
    ASSUME LuaInv, NEW u \in Addresses, object[u].kind = "define",
           Send(<<Message("free", u)>>),
           \/ object' = [object EXCEPT ![u].script = 0] /\ bound' = bound
           \/ /\ object' = [object EXCEPT ![u] = NoObject]
              /\ bound' = bound \ {<<object[u].sym, u>>},
           UNCHANGED <<made, scripts, runnerVars, last>>
    PROVE  LuaInv'
<1>0. HostTypes /\ HostNames
  BY DEF LuaInv
<1>1. PICK s \in Runners : Agrees(object, s) /\ Planned(pipe, Now, s)
  BY DEF LuaInv
<1> DEFINE m == Message("free", u)
<1>2. m \in Messages /\ m.type = "free" /\ m.at = u
  <2>1. NoName \in AllNames \cup {NoName}
    OBVIOUS
  <2> QED BY <1>0, <2>1, MessageTypes DEF Message
<1>3. UNCHANGED <<made, scripts, last>> /\ Now' = Now
  BY DEF runnerVars, Now
<1>4. pipe' = Append(pipe, m) /\ pipe' \in Seq(Messages)
  <2>1. pipe \in Seq(Messages)
    BY <1>0 DEF HostTypes
  <2> QED BY <1>2, <2>1, AppendIsConcat, AppendProperties DEF Send
<1> HIDE DEF m
<1>5. Fits(s, m)
  BY <1>2 DEF Fits
<1>6. object[u] \in [kind : Kinds \cup {"none"}, id : 0..MaxObjects,
                     sym : AllNames \cup {NoName}, script : 0..MaxScripts]
  BY <1>0 DEF HostTypes
<1>7. object' \in [Addresses -> [kind : Kinds \cup {"none"}, id : 0..MaxObjects,
                                 sym : AllNames \cup {NoName}, script : 0..MaxScripts]]
  <2>1. 0 \in 0..MaxObjects /\ 0 \in 0..MaxScripts
    BY BoundsAssumption
  <2>2. NoObject \in [kind : Kinds \cup {"none"}, id : 0..MaxObjects,
                      sym : AllNames \cup {NoName}, script : 0..MaxScripts]
    BY <2>1 DEF NoObject
  <2>3. CASE object' = [object EXCEPT ![u] = NoObject]
    BY <1>0, <2>2, <2>3 DEF HostTypes
  <2>4. CASE object' = [object EXCEPT ![u].script = 0]
    BY <1>0, <2>1, <2>4 DEF HostTypes
  <2> QED BY <2>3, <2>4
<1>8. \A v \in Addresses \ {u} : object'[v] = object[v]
  BY <1>0 DEF HostTypes
<1>9. \/ /\ object'[u].kind = "define" /\ object'[u].script = 0
         /\ object'[u].sym = object[u].sym /\ object'[u].id = object[u].id
         /\ bound' = bound
      \/ object'[u].kind = "none" /\ bound' = bound \ {<<object[u].sym, u>>}
  BY <1>0 DEF HostTypes, NoObject
<1>10. bound' \subseteq bound
  BY <1>9
<1>11. HostTypes'
  BY <1>0, <1>3, <1>4, <1>7, <1>10 DEF HostTypes
<1>12. HostNames'
  <2>1. ASSUME NEW v \in Addresses, object'[v].kind # "none"
        PROVE  <<object'[v].sym, v>> \in bound' /\ object'[v].id # 0
    <3>1. CASE v = u
      BY <1>0, <1>9, <2>1, <3>1 DEF HostNames
    <3>2. CASE v # u
      BY <1>0, <1>8, <1>9, <2>1, <3>2 DEF HostNames
    <3> QED BY <3>1, <3>2
  <2>2. \A v \in Addresses : object'[v].kind = "define" =>
            object[v].kind = "define" /\ object'[v].sym = object[v].sym
    BY <1>8, <1>9
  <2>3. \A v \in Addresses : object'[v].kind = "define" =>
            /\ object'[v].sym # NoName
            /\ object'[v].sym \in Addresses => object'[v].sym = v
    BY <1>0, <2>2 DEF HostNames
  <2>4. \A v, w \in Addresses :
            object'[v].kind = "define" /\ object'[w].kind = "define"
                /\ object'[v].sym = object'[w].sym => v = w
    BY <1>0, <2>2 DEF HostNames
  <2> QED BY <2>1, <2>3, <2>4, Zenon DEF HostNames
<1>13. Agrees(object', After(s, m))
  <2> DEFINE t == After(s, m)
  <2>1. t.instance = Stops(s.instance, u) /\ t.loaded = s.loaded
    BY <1>2 DEF After, Freed
  <2> HIDE DEF t
  <2>2. /\ ~t.instance[u].isChunkRun
        /\ \A v \in Addresses \ {u} : t.instance[v] = s.instance[v]
        /\ t.instance[u].id = s.instance[u].id
        /\ t.instance[u].name = s.instance[u].name
    BY <2>1, RunnerFields, StopsSet
  <2>3. Agrees(object', t)
    BY <1>1, <1>8, <1>9, <2>1, <2>2, StoppedAgrees
  <2> QED BY <2>3 DEF t
<1> QED BY <1>1, <1>2, <1>3, <1>4, <1>5, <1>11, <1>12, <1>13, OneMessage

LEMMA ClearInv ==
    ASSUME LuaInv, NEW u \in Addresses, Clear(u)
    PROVE  LuaInv'
  BY FreedInv DEF Clear

\* A client goes without a word to the runner, which runs nothing for it.
LEMMA FreeInv ==
    ASSUME LuaInv, NEW u \in Addresses, Free(u)
    PROVE  LuaInv'
<1>1. CASE object[u].kind = "define"
  BY <1>1, FreedInv DEF Free
<1>2. CASE object[u].kind # "define"
  <2>0. HostTypes /\ HostNames
    BY DEF LuaInv
  <2>1. PICK s \in Runners : Agrees(object, s) /\ Planned(pipe, Now, s)
    BY DEF LuaInv
  <2>2. /\ object' = [object EXCEPT ![u] = NoObject]
        /\ UNCHANGED <<made, scripts, pipe, bound, last>>
        /\ Now' = Now
    BY <1>2 DEF Free, runnerVars, Now
  <2>3. /\ object'[u] = NoObject
        /\ \A v \in Addresses \ {u} : object'[v] = object[v]
    BY <2>0, <2>2 DEF HostTypes
  <2>4. HostTypes'
    <3>1. NoObject \in [kind : Kinds \cup {"none"}, id : 0..MaxObjects,
                        sym : AllNames \cup {NoName}, script : 0..MaxScripts]
      BY BoundsAssumption DEF NoObject
    <3>2. object' \in [Addresses -> [kind : Kinds \cup {"none"}, id : 0..MaxObjects,
                                     sym : AllNames \cup {NoName}, script : 0..MaxScripts]]
      BY <2>0, <2>2, <3>1 DEF HostTypes
    <3> QED BY <2>0, <2>2, <3>2 DEF HostTypes
  <2>5. HostNames'
    <3>1. \A v \in Addresses : object'[v].kind # "none" => v # u /\ object'[v] = object[v]
      BY <2>3 DEF NoObject
    <3>2. bound' = bound
      BY <2>2
    <3> QED BY <2>0, <3>1, <3>2 DEF HostNames
  <2>6. Agrees(object', s)
    <3> SUFFICES ASSUME NEW v \in Addresses
                 PROVE  /\ s.instance[v].isChunkRun <=> object'[v].kind = "define" /\ object'[v].script # 0
                        /\ s.instance[v].isChunkRun => s.loaded[object'[v].sym].script = object'[v].script
                        /\ object'[v].kind # "none" =>
                              /\ s.instance[v].id = object'[v].id
                              /\ s.instance[v].name = IF object'[v].sym = NoName THEN v ELSE object'[v].sym
      BY Zenon DEF Agrees
    <3>1. CASE v = u
      BY <1>2, <2>1, <2>3, <3>1 DEF Agrees, NoObject
    <3>2. CASE v # u
      BY <2>1, <2>3, <3>2 DEF Agrees
    <3> QED BY <3>1, <3>2
  <2>7. OwnScript' /\ Good(Now)' /\ Planned(pipe', Now', s)
    <3>1. OwnScript'
      BY <2>2 DEF LuaInv, OwnScript
    <3>2. Good(Now)'
      BY <2>2 DEF LuaInv, Good, SoleOwnerIn, OwnOutletIn, RunsThere
    <3> QED BY <2>1, <2>2, <3>1, <3>2
  <2> QED BY <2>4, <2>5, <2>6, <2>7, Zenon DEF LuaInv
<1> QED BY <1>1, <1>2

\* A call is sent with the script that the runner will find.
LEMMA CallInv ==
    ASSUME LuaInv, NEW u \in Addresses, Call(u)
    PROVE  LuaInv'
<1>0. HostTypes /\ HostNames
  BY DEF LuaInv
<1>1. PICK s \in Runners : Agrees(object, s) /\ Planned(pipe, Now, s)
  BY DEF LuaInv
<1> DEFINE m == [Message("call", u) EXCEPT !.script = InForce(u), !.by = object[u].kind]
<1>2. /\ object[u].kind # "none"
      /\ pipe' = pipe \o <<m>>
      /\ UNCHANGED <<object, bound, made, scripts, last>>
      /\ Now' = Now
  BY DEF Call, Send, hostVars, runnerVars, Now
<1>3. m = [type |-> "call", at |-> u, id |-> 0, name |-> NoName, outcome |-> "good",
           script |-> InForce(u), by |-> object[u].kind]
  <2> DEFINE x(i, k) == [type |-> "call", at |-> u, id |-> 0, name |-> NoName,
                         outcome |-> "good", script |-> i, by |-> k]
  <2>1. Message("call", u) = x(0, "nobody")
    BY DEF Message
  <2>2. m = [[Message("call", u) EXCEPT !.script = InForce(u)] EXCEPT !.by = object[u].kind]
    OBVIOUS
  <2>3. [x(0, "nobody") EXCEPT !.script = InForce(u)] = x(InForce(u), "nobody")
    OBVIOUS
  <2>4. [x(InForce(u), "nobody") EXCEPT !.by = object[u].kind] = x(InForce(u), object[u].kind)
    OBVIOUS
  <2> HIDE DEF x, m
  <2>5. m = x(InForce(u), object[u].kind)
    BY <2>1, <2>2, <2>3, <2>4
  <2> QED BY <2>5 DEF x
<1> HIDE DEF m
<1>4. \A v \in Addresses : object[v].kind \in Kinds \cup {"none"} /\ object[v].script \in 0..MaxScripts
  BY <1>0 DEF HostTypes
<1>5. InForce(u) \in 0..MaxScripts /\ (object[u].kind = "define" => InForce(u) = object[u].script)
  <2> DEFINE owners == IF object[u].kind = "define" THEN {u}
                       ELSE {v \in Addresses : object[v].kind = "define" /\ object[v].sym = object[u].sym}
  <2>1. InForce(u) = IF owners = {} THEN 0 ELSE object[CHOOSE v \in owners : TRUE].script
    BY DEF InForce
  <2>2. owners \subseteq Addresses /\ (object[u].kind = "define" => owners = {u})
    OBVIOUS
  <2> HIDE DEF owners
  <2>3. owners # {} => (CHOOSE v \in owners : TRUE) \in owners
    OBVIOUS
  <2> QED BY <1>4, <2>1, <2>2, <2>3, BoundsAssumption
<1>6. m \in Messages /\ m.type = "call" /\ m.at = u /\ m.script = InForce(u) /\ m.by = object[u].kind
  <2>1. object[u].kind \in Kinds
    BY <1>2, <1>4
  <2> QED BY <1>3, <1>5, <2>1, BoundsAssumption DEF Messages
<1>7. pipe' = Append(pipe, m) /\ pipe' \in Seq(Messages)
  <2>1. pipe \in Seq(Messages)
    BY <1>0 DEF HostTypes
  <2> QED BY <1>2, <1>6, <2>1, AppendIsConcat, AppendProperties
<1>8. Fits(s, m)
  <2>1. ASSUME object[u].kind = "define" PROVE RequireIn(s, u) = object[u].script
    <3>1. object[u].sym # NoName
      BY <1>0, <2>1 DEF HostNames
    <3> QED BY <1>1, <2>1, <3>1 DEF Agrees, RequireIn
  <2> QED BY <1>5, <1>6, <2>1 DEF Fits
<1>9. After(s, m) = s
  BY <1>6 DEF After
<1>10. HostTypes' /\ HostNames'
  <2>1. HostTypes'
    BY <1>0, <1>2, <1>7 DEF HostTypes
  <2>2. HostNames'
    BY <1>0, <1>2 DEF HostNames
  <2> QED BY <2>1, <2>2
<1>11. Agrees(object', After(s, m))
  BY <1>1, <1>2, <1>9
<1> QED BY <1>1, <1>2, <1>6, <1>7, <1>8, <1>10, <1>11, OneMessage

-----------------------------------------------------------------------------
(* The runner *)

\* What the runner does with a message that fits its state is what the plan
\* says; for doString and require, the name is the one in the chunk.
LEMMA ModuleNow == \A script, n : Module(script, n) = ModuleIn(Now, script, n)
<1>1. \A n : Called(n) = CalledIn(Now, n)
  BY DEF Called, CalledIn, Now
<1>2. \A n : GetByName(n) = FirstIn(Now, n)
  BY <1>1 DEF GetByName, FirstIn
<1> QED BY <1>1, <1>2 DEF Module, ModuleIn, Now

LEMMA DoStringAfter ==
    ASSUME Now \in Runners, Head(pipe) \in Messages, Fits(Now, Head(pipe)), DoString
    PROVE  Now' = After(Now, Head(pipe))
<1> DEFINE m == Head(pipe)
           n == instance[m.at].name
           preloaded == [preload EXCEPT ![m.name] = [script |-> m.script, outcome |-> m.outcome]]
           reset == Unload(m.name)
<1>1. m.type = "do_string"
  BY DEF DoString, Take
<1>2. /\ m.at \in Addresses
      /\ m.outcome \in {"good", "syntax", "error"}
      /\ m.name \in AllNames \cup {NoName}
  BY DEF Messages
<1>3. n = m.name /\ m.script # 0 /\ instance[m.at].id # 0
  BY <1>1 DEF Fits, Now
<1>4. instance \in Instances /\ preload \in Preloads /\ loaded \in Loads
  BY RunnerFields DEF Now
<1>5. n \in AllNames
  BY <1>2, <1>3, RunnerFields DEF Now
<1>6. CASE m.outcome = "syntax"
  <2>1. UNCHANGED runnerVars
    BY <1>6, Zenon DEF DoString
  <2>2. Now' = Now
    BY <2>1 DEF Now, runnerVars
  <2>3. DoneString(Now, m) = Now
    BY <1>6 DEF DoneString
  <2> QED BY <1>1, <2>2, <2>3 DEF After
<1>7. preloaded[n].outcome = m.outcome /\ preloaded[n].script = m.script
  BY <1>3, <1>4, <1>5 DEF Preloads
<1>8. reset[n].script = 0 /\ reset[n] = NoModule
  BY <1>3, <1>4, <1>5 DEF Unload, Loads, NoModule
<1>9. ASSUME m.outcome # "syntax"
      PROVE  /\ preload' = preloaded
             /\ loaded' = IF reset[n].script = 0 /\ preloaded[n].outcome = "good"
                          THEN [reset EXCEPT ![n] = Module(preloaded[n].script, n)]
                          ELSE reset
             /\ instance' = [instance EXCEPT ![m.at].isChunkRun = (loaded'[n].script # 0)]
  BY <1>9, Zenon DEF DoString
<1>10. CASE m.outcome = "good"
  <2> DEFINE module == ModuleIn(Now, m.script, n)
  <2>1. loaded' = [reset EXCEPT ![n] = module]
    BY <1>7, <1>8, <1>9, <1>10, ModuleNow
  <2>2. module.script = m.script
    BY DEF ModuleIn
  <2> HIDE DEF module
  <2>3. loaded' = [loaded EXCEPT ![n] = module]
    BY <1>3, <1>4, <1>5, <2>1 DEF Unload, Loads
  <2>4. loaded'[n].script # 0
    BY <1>3, <1>4, <1>5, <2>2, <2>3 DEF Loads
  <2>5. (loaded'[n].script # 0) = TRUE
    BY <2>4
  <2>6. instance' = Starts(instance, m.at)
    BY <1>9, <1>10, <2>5 DEF Starts
  <2>7. Ran(Now, m) = [instance |-> Starts(instance, m.at), preload |-> preloaded,
                       loaded |-> [loaded EXCEPT ![n] = module]]
    BY <1>3 DEF Ran, Now, module
  <2>8. Now' = Ran(Now, m)
    BY <1>9, <1>10, <2>3, <2>6, <2>7 DEF Now
  <2> QED BY <1>1, <1>10, <2>8 DEF After, DoneString
<1>11. CASE m.outcome = "error"
  <2>1. loaded' = reset
    BY <1>7, <1>9, <1>11
  <2>2. (loaded'[n].script # 0) = FALSE
    BY <1>8, <2>1
  <2>3. instance' = Stops(instance, m.at)
    BY <1>9, <1>11, <2>2 DEF Stops
  <2>4. Failed(Now, m) = [instance |-> Stops(instance, m.at), preload |-> preloaded, loaded |-> reset]
    BY DEF Failed, Now, Unload
  <2>5. Now' = Failed(Now, m)
    BY <1>9, <1>11, <2>1, <2>3, <2>4 DEF Now
  <2> QED BY <1>1, <1>11, <2>5 DEF After, DoneString
<1> QED BY <1>2, <1>6, <1>10, <1>11

LEMMA RunnerAfter ==
    ASSUME Now \in Runners, Head(pipe) \in Messages, Fits(Now, Head(pipe)), Runner
    PROVE  Now' = After(Now, Head(pipe))
<1>0. Head(pipe).at \in Addresses
  BY DEF Messages
<1>1. CASE CreateInstance
  <2>1. Created(Now, Head(pipe)) = [instance |-> instance', preload |-> preload, loaded |-> loaded]
    BY <1>1 DEF CreateInstance, Created, Now
  <2> QED BY <1>1, <2>1 DEF CreateInstance, Take, After, Now
<1>2. CASE SetName
  <2>1. Named(Now, Head(pipe)) = [instance |-> instance', preload |-> preload, loaded |-> loaded]
    BY <1>2 DEF SetName, Named, Now
  <2> QED BY <1>2, <2>1 DEF SetName, Take, After, Now
<1>3. CASE DoString
  BY <1>3, DoStringAfter
<1>4. CASE DoFreeFunction
  <2>1. Freed(Now, Head(pipe)) = [instance |-> instance', preload |-> preload, loaded |-> loaded]
    BY <1>4 DEF DoFreeFunction, Freed, Now, Stops
  <2> QED BY <1>4, <2>1 DEF DoFreeFunction, Take, After, Now
<1>5. CASE DoFunction
  BY <1>5 DEF DoFunction, Take, After, Now, runnerVars
<1> QED BY <1>1, <1>2, <1>3, <1>4, <1>5 DEF Runner

\* The runner takes the first message, and is one state further along.
LEMMA RunnerInv ==
    ASSUME LuaInv, Runner
    PROVE  LuaInv'
<1>0. HostTypes /\ HostNames /\ OwnScript /\ Good(Now)
  BY DEF LuaInv
<1>1. PICK s \in Runners : Agrees(object, s) /\ Planned(pipe, Now, s)
  BY DEF LuaInv
<1>2. pipe \in Seq(Messages) /\ pipe # <<>> /\ pipe' = Tail(pipe)
  BY <1>0 DEF HostTypes, Runner, CreateInstance, SetName, DoString, DoFreeFunction, DoFunction, Take
<1>3. Now \in Runners
  BY <1>1, <1>2, PlanEnds
<1>4. /\ Head(pipe) \in Messages
      /\ Fits(Now, Head(pipe))
      /\ Planned(Tail(pipe), After(Now, Head(pipe)), s)
  BY <1>1, <1>2, PlanTail
<1>5. Now' = After(Now, Head(pipe))
  BY <1>3, <1>4, RunnerAfter
<1>6. Good(Now')
  BY <1>0, <1>3, <1>4, <1>5, AfterGood
<1>7. pipe' \in Seq(Messages)
  BY <1>2, HeadTailProperties
<1>8. UNCHANGED hostVars
  BY DEF Runner, CreateInstance, SetName, DoString, DoFreeFunction, DoFunction
<1>9. OwnScript' /\ last' \in [by : Kinds \cup {"nobody"}, expected : 0..MaxScripts, ran : 0..MaxScripts]
  <2>1. CASE DoFunction
    <3> DEFINE m == Head(pipe)
    <3>1. last' = [by |-> m.by, expected |-> m.script, ran |-> RequireIn(Now, m.at)]
      BY <2>1 DEF DoFunction, Require, RequireIn, Now
    <3>2. m.type = "call"
      BY <2>1 DEF DoFunction, Take
    <3>3. m.by \in Kinds \cup {"nobody"} /\ m.script \in 0..MaxScripts /\ m.at \in Addresses
      BY <1>4 DEF Messages
    <3>4. RequireIn(Now, m.at) \in 0..MaxScripts
      <4>1. CASE ~Now.instance[m.at].isChunkRun
        BY <4>1, BoundsAssumption DEF RequireIn
      <4>2. CASE Now.instance[m.at].isChunkRun
        <5>1. Now.instance[m.at].id # 0
          BY <1>0, <3>3, <4>2 DEF Good, RunsThere
        <5>2. Now.instance \in Instances /\ Now.instance[m.at].name # NoName
          BY <1>3, <3>3, <5>1, RunnerFields
        <5>3. Now.instance[m.at].name \in AllNames
          BY <3>3, <5>2 DEF Instances
        <5>4. Now.loaded[Now.instance[m.at].name].script \in 0..MaxScripts
          BY <1>3, <5>3, RunnerFields DEF Loads
        <5> QED BY <4>2, <5>4 DEF RequireIn
      <4> QED BY <4>1, <4>2
    <3>5. m.by = "define" => RequireIn(Now, m.at) = m.script
      BY <1>4, <3>2 DEF Fits
    <3> HIDE DEF m
    <3> QED BY <3>1, <3>3, <3>4, <3>5 DEF OwnScript
  <2>2. CASE CreateInstance \/ SetName \/ DoString \/ DoFreeFunction
    <3>1. last' = last
      BY <2>2 DEF CreateInstance, SetName, DoString, DoFreeFunction
    <3> QED BY <1>0, <3>1 DEF OwnScript, HostTypes
  <2> QED BY <2>1, <2>2 DEF Runner
<1>10. HostTypes' /\ HostNames'
  <2>1. HostTypes'
    BY <1>0, <1>7, <1>8, <1>9 DEF HostTypes, hostVars
  <2>2. HostNames'
    BY <1>0, <1>8 DEF HostNames, hostVars
  <2> QED BY <2>1, <2>2
<1>11. Good(Now)'
  BY <1>6 DEF Good, SoleOwnerIn, OwnOutletIn, RunsThere
<1>12. Agrees(object', s) /\ Planned(pipe', Now', s)
  BY <1>1, <1>2, <1>4, <1>5, <1>8 DEF hostVars
<1> QED BY <1>9, <1>10, <1>11, <1>12, Zenon DEF LuaInv

-----------------------------------------------------------------------------
(* The theorems *)

LEMMA InitInv == Init => LuaInv
<1> SUFFICES ASSUME Init PROVE LuaInv
  OBVIOUS
<1>0. 0 \in 0..MaxObjects /\ 0 \in 0..MaxScripts /\ pipe = <<>>
  BY BoundsAssumption DEF Init
<1>1. HostTypes
  <2>1. object \in [Addresses -> [kind : Kinds \cup {"none"}, id : 0..MaxObjects,
                                  sym : AllNames \cup {NoName}, script : 0..MaxScripts]]
    BY <1>0 DEF Init, NoObject
  <2>2. pipe \in Seq(Messages)
    BY <1>0
  <2> QED BY <1>0, <2>1, <2>2 DEF Init, HostTypes
<1>2. HostNames
  BY DEF Init, HostNames, NoObject
<1>3. OwnScript
  BY DEF Init, OwnScript
<1>4. Now \in Runners
  <2>1. instance \in Instances /\ \A u \in Addresses : instance[u].id = 0 /\ ~instance[u].isChunkRun
    BY <1>0 DEF Init, Instances, NoInstance
  <2>2. preload \in Preloads
    BY <1>0 DEF Init, Preloads, NoScript
  <2>3. loaded \in Loads
    BY <1>0 DEF Init, Loads, NoModule
  <2> QED BY <2>1, <2>2, <2>3, IsRunner DEF Now
<1>5. \A u \in Addresses : ~Now.instance[u].isChunkRun
  BY DEF Init, Now, NoInstance
<1>6. Good(Now)
  BY <1>5 DEF Good, SoleOwnerIn, OwnOutletIn, RunsThere
<1>7. Agrees(object, Now)
  BY <1>5 DEF Agrees, Init, NoObject
<1>8. Planned(pipe, Now, Now)
  BY <1>0, <1>4, PlanEmpty
<1> QED BY <1>1, <1>2, <1>3, <1>4, <1>6, <1>7, <1>8 DEF LuaInv

LEMMA StepInv == LuaInv /\ [Next]_vars => LuaInv'
<1> SUFFICES ASSUME LuaInv, [Next]_vars PROVE LuaInv'
  OBVIOUS
<1>1. CASE Host
  <2>1. PICK u \in Addresses :
            \/ \E kind \in Kinds, c \in Names \cup {NoName} : New(u, kind, c)
            \/ \E outcome \in Scripts : SetScript(u, outcome)
            \/ Clear(u)
            \/ Free(u)
            \/ Call(u)
    BY <1>1 DEF Host
  <2> QED BY <2>1, NewInv, SetScriptInv, ClearInv, FreeInv, CallInv
<1>2. CASE Runner
  BY <1>2, RunnerInv
<1>3. CASE UNCHANGED vars
  <2>1. UNCHANGED <<object, bound, made, scripts, pipe, last>> /\ Now' = Now
    BY <1>3 DEF vars, hostVars, runnerVars, Now
  <2>2. HostTypes' /\ HostNames' /\ OwnScript'
    BY <2>1 DEF LuaInv, HostTypes, HostNames, OwnScript
  <2>3. Good(Now)'
    BY <2>1 DEF LuaInv, Good, SoleOwnerIn, OwnOutletIn, RunsThere
  <2>4. \E s \in Runners : Agrees(object', s) /\ Planned(pipe', Now', s)
    BY <2>1 DEF LuaInv
  <2> QED BY <2>2, <2>3, <2>4 DEF LuaInv
<1> QED BY <1>1, <1>2, <1>3 DEF Next

\* In every state the messages on their way lead to what the host believes.
THEOREM Agreement == Spec => []LuaInv
  BY InitInv, StepInv, PTL DEF Spec

\* Every variable keeps to its type, and objects to their names.
THEOREM LuaTypes == Spec => []TypeOK
<1>1. LuaInv => TypeOK
  <2> SUFFICES ASSUME LuaInv PROVE TypeOK
    OBVIOUS
  <2>1. HostTypes /\ HostNames
    BY DEF LuaInv
  <2>2. Now \in Runners
    BY <2>1, PlanEnds DEF LuaInv, HostTypes
  <2>3. instance \in Instances /\ preload \in Preloads /\ loaded \in Loads
    BY <2>2, RunnerFields DEF Now
  <2>4. \A u \in Addresses : object[u].kind # "none" => <<object[u].sym, u>> \in bound
    BY <2>1 DEF HostNames
  <2> QED BY <2>1, <2>3, <2>4 DEF HostTypes, TypeOK, Messages, Instances, Preloads, Loads
<1> QED BY <1>1, Agreement, PTL

\* A call of a define object runs the script that was in force at that object
\* when the call was made (initSym, doString, createInstance, require).
THEOREM ScriptsAreOwn == Spec => []OwnScript
<1>1. LuaInv => OwnScript
  BY DEF LuaInv
<1> QED BY <1>1, Agreement, PTL

\* No two instances run the module of one name (initSym, bindSym, freeMethod).
THEOREM OwnersAreSole == Spec => []SoleOwner
<1>1. LuaInv => SoleOwner
  BY DEF LuaInv, Good, SoleOwnerIn, SoleOwner, Now
<1> QED BY <1>1, Agreement, PTL

\* The outlet of a running script points to the instance of its object, unless
\* another had the same name when the script was loaded (getByName).
THEOREM OutletsAreOwn == Spec => []OwnOutlet
<1>1. LuaInv => OwnOutlet
  BY DEF LuaInv, Good, OwnOutletIn, OwnOutlet, Now
<1> QED BY <1>1, Agreement, PTL
=============================================================================
