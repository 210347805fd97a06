----------------------------- MODULE RunnerLua ------------------------------
(***************************************************************************)
(* Which script a call reaches.  On the host an ofelia object is an        *)
(* address with a name of its own choice, if no other "define" object has  *)
(* that name (initSym).  The runner has an instance per address, which it  *)
(* never erases, and one Lua state, whose package.preload and              *)
(* package.loaded hold the scripts by name.  Objects make, edit, clear and *)
(* free scripts and call functions by messages on the pipe, the FIFO       *)
(* channel that TcpFraming implements; the runner takes one at a time.     *)
(*                                                                         *)
(* A script is a number, in the order in which scripts are sent.  Every    *)
(* script makes an outlet, local o = ofOutlet(this), when its chunk runs.  *)
(* Of "ofelia get" and "ofelia set" objects, clients, both are alike here. *)
(***************************************************************************)
EXTENDS Naturals, Sequences

CONSTANTS
    Addresses,       \* where Pd puts ofelia objects, in the order of the map
                     \* ofxLuaInstances
    Names,           \* the names patches give them
    Scripts,         \* the outcomes of scripts: {"good", "syntax", "error"}
    MaxObjects,      \* bound: objects made
    MaxScripts,      \* bound: scripts sent
    MaxPipe          \* bound: messages on their way

NoName == 0

ASSUME AddressesAssumption == Addresses \subseteq Nat \ {0}
ASSUME NamesAssumption == Names \cap Nat = {}
ASSUME ScriptsAssumption == Scripts \subseteq {"good", "syntax", "error"}
ASSUME BoundsAssumption == MaxObjects \in Nat /\ MaxScripts \in Nat /\ MaxPipe \in Nat

\* The name of an object that has no other is made of its address.
AllNames == Names \cup Addresses

VARIABLES
    object,      \* host: what is at each address
    bound,       \* host: the pairs of a name and an address that pd_bind has joined
    made,        \* how many objects there have been
    scripts,     \* how many scripts have been sent
    pipe,        \* messages on their way to the runner
    instance,    \* runner: ofxLuaInstances, "id" 0 for none
    preload,     \* runner: package.preload
    loaded,      \* runner: package.loaded
    last         \* history: who made the last call, the script that was in
                 \* force when it was made, the script that ran

hostVars == <<object, bound, made, scripts>>
runnerVars == <<instance, preload, loaded>>
vars == <<hostVars, pipe, runnerVars, last>>

Kinds == {"define", "client"}
NoObject == [kind |-> "none", id |-> 0, sym |-> NoName, script |-> 0]
NoInstance == [id |-> 0, name |-> NoName, isChunkRun |-> FALSE]
NoScript == [script |-> 0, outcome |-> "error"]
NoModule == [script |-> 0, outlet |-> 0, outletId |-> 0, namesake |-> FALSE]

Init ==
    /\ object = [u \in Addresses |-> NoObject]
    /\ bound = {}
    /\ made = 0
    /\ scripts = 0
    /\ pipe = <<>>
    /\ instance = [u \in Addresses |-> NoInstance]
    /\ preload = [n \in AllNames |-> NoScript]
    /\ loaded = [n \in AllNames |-> NoModule]
    /\ last = [by |-> "nobody", expected |-> 0, ran |-> 0]

-----------------------------------------------------------------------------
(* The host.  Pd's lock is held throughout each action. *)

Send(messages) ==
    /\ Len(pipe) + Len(messages) <= MaxPipe
    /\ pipe' = pipe \o messages

Message(type, u) == [type |-> type, at |-> u, id |-> 0, name |-> NoName, outcome |-> "good",
                     script |-> 0, by |-> "nobody"]

LuaInit(u) == [Message("init", u) EXCEPT !.id = made + 1]
InitSym(u, n) == [Message("init_sym", u) EXCEPT !.name = n]

\* pd_findbyclass: is an object of class "ofelia define" bound to the name?
\* A client that is freed stays bound, so that the one found may be another
\* object at its address.
FindDefine(n) == \E u \in Addresses : <<n, u>> \in bound /\ object[u].kind = "define"

\* initSym: a "define" object falls back on the name made of its address.  It
\* finds itself if a client that is gone has left its address bound to the
\* name: pd_new has set the class by then.
FallsBack(u, kind, c) ==
    kind = "define" /\ (c = NoName \/ FindDefine(c) \/ <<c, u>> \in bound)
Sym(u, kind, c) == IF FallsBack(u, kind, c) THEN u ELSE c

\* Mutant: the runner is not told of the name an object falls back on.
NamesFirstOnly(u, kind, c) == IF c # NoName THEN <<InitSym(u, c)>> ELSE <<>>

\* What argParse and initSym tell the runner of the name.
NamesSent(u, kind, c) ==
    (IF c # NoName THEN <<InitSym(u, c)>> ELSE <<>>) \o
    (IF FallsBack(u, kind, c) THEN <<InitSym(u, u)>> ELSE <<>>)

\* Mutant: bound before initSym has settled the name.
BoundName(u, kind, c) == c

\* The name that bindSym binds.
BindSym(u, kind, c) == Sym(u, kind, c)

\* newWrapper: the constructor of ofxOfeliaLua and argParse, with the name c.
New(u, kind, c) ==
    /\ object[u].kind = "none"
    /\ made < MaxObjects
    /\ made' = made + 1
    /\ object' = [object EXCEPT ![u] = [kind |-> kind, id |-> made + 1,
                                       sym |-> Sym(u, kind, c), script |-> 0]]
    /\ bound' = bound \cup {<<BindSym(u, kind, c), u>>}
    /\ Send(<<LuaInit(u)>> \o NamesSent(u, kind, c))
    /\ UNCHANGED <<scripts, runnerVars, last>>

\* doString, by the editor, a saved patch, or the arguments of the object: a
\* chunk that puts the script in package.preload under the object's name.
\* From now on this script is in force, unless it fails; one that does not
\* compile leaves the one before it in force.
SetScript(u, outcome) ==
    /\ object[u].kind = "define"
    /\ scripts < MaxScripts
    /\ scripts' = scripts + 1
    /\ object' = [object EXCEPT ![u].script =
                    CASE outcome = "good" -> scripts + 1
                      [] outcome = "error" -> 0
                      [] outcome = "syntax" -> @]
    /\ Send(<<[Message("do_string", u) EXCEPT !.name = object[u].sym, !.outcome = outcome,
                                              !.script = scripts + 1]>>)
    /\ UNCHANGED <<bound, made, runnerVars, last>>

\* doFreeFunction, by __clear.
Clear(u) ==
    /\ object[u].kind = "define"
    /\ object' = [object EXCEPT ![u].script = 0]
    /\ Send(<<Message("free", u)>>)
    /\ UNCHANGED <<bound, made, scripts, runnerVars, last>>

\* Mutant: the runner is not told that the object goes.
FreeSilently(u) ==
    /\ object[u].kind # "none"
    /\ bound' = IF object[u].kind = "define" THEN bound \ {<<object[u].sym, u>>} ELSE bound
    /\ object' = [object EXCEPT ![u] = NoObject]
    /\ UNCHANGED <<made, scripts, pipe, runnerVars, last>>

\* freeWrapper.  Only a "define" object tells the runner and is unbound.
Free(u) ==
    /\ object[u].kind # "none"
    /\ IF object[u].kind = "define"
       THEN /\ Send(<<Message("free", u)>>)
            /\ bound' = bound \ {<<object[u].sym, u>>}
       ELSE UNCHANGED <<pipe, bound>>
    /\ object' = [object EXCEPT ![u] = NoObject]
    /\ UNCHANGED <<made, scripts, runnerVars, last>>

\* The script in force at the object that u is or, if u is a client, names.
InForce(u) ==
    LET owners == IF object[u].kind = "define" THEN {u}
                  ELSE {v \in Addresses : object[v].kind = "define" /\ object[v].sym = object[u].sym}
    IN  IF owners = {} THEN 0 ELSE object[CHOOSE v \in owners : TRUE].script

\* Any message that calls a function of the script, gets or sets a variable,
\* or has it process audio.  A client looks first whether its name is in use
\* (isDataValid).
Call(u) ==
    /\ object[u].kind # "none"
    /\ object[u].kind = "client" => object[u].sym # NoName /\ FindDefine(object[u].sym)
    /\ Send(<<[Message("call", u) EXCEPT !.script = InForce(u), !.by = object[u].kind]>>)
    /\ UNCHANGED <<hostVars, runnerVars, last>>

Host ==
    \E u \in Addresses :
        \/ \E kind \in Kinds, c \in Names \cup {NoName} : New(u, kind, c)
        \/ \E outcome \in Scripts : SetScript(u, outcome)
        \/ Clear(u)
        \/ Free(u)
        \/ Call(u)

-----------------------------------------------------------------------------
(* The runner: one turn of dequeueMessages *)

Take(type) ==
    /\ pipe # <<>>
    /\ Head(pipe).type = type
    /\ pipe' = Tail(pipe)

\* createInstance replaces the instance of the address.
CreateInstance ==
    /\ Take("init")
    /\ LET m == Head(pipe)
       IN  instance' = [instance EXCEPT ![m.at] =
                            [id |-> m.id, name |-> m.at, isChunkRun |-> FALSE]]
    /\ UNCHANGED <<hostVars, preload, loaded, last>>

SetName ==
    /\ Take("init_sym")
    /\ instance' = [instance EXCEPT ![Head(pipe).at].name = Head(pipe).name]
    /\ UNCHANGED <<hostVars, preload, loaded, last>>

Called(n) == {u \in Addresses : instance[u].id # 0 /\ instance[u].name = n}

\* Mutant: the name is not compared.
GetAny(n) == CHOOSE u \in Addresses :
    instance[u].id # 0 /\ \A v \in Addresses : instance[v].id # 0 => u <= v

\* The first instance of the map that has the name.
GetByName(n) == CHOOSE u \in Called(n) : \A v \in Called(n) : u <= v

\* The module a script becomes when its chunk runs under the name n.
Module(script, n) ==
    LET u == GetByName(n)
    IN  [script |-> script, outlet |-> u, outletId |-> instance[u].id,
         namesake |-> \E v, w \in Called(n) : v # w]

\* Mutant: the script before this one stays loaded.
StayLoaded(n) == loaded

\* package.loaded[n] = nil, at the head of every chunk.
Unload(n) == [loaded EXCEPT ![n] = NoModule]

\* doString and doNewFunction.  A chunk that does not compile changes
\* nothing; otherwise preload and loaded are reset under the name that the
\* host has put into the chunk, and require is called with the name of the
\* instance.  A chunk that fails clears isChunkRun.
DoString ==
    /\ Take("do_string")
    /\ LET m == Head(pipe)
           n == instance[m.at].name
           preloaded == [preload EXCEPT ![m.name] = [script |-> m.script, outcome |-> m.outcome]]
           reset == Unload(m.name)
           runs == reset[n].script = 0 /\ preloaded[n].outcome = "good"
       IN  IF m.outcome = "syntax"
           THEN UNCHANGED runnerVars
           ELSE /\ preload' = preloaded
                /\ loaded' = IF runs THEN [reset EXCEPT ![n] = Module(preloaded[n].script, n)]
                                     ELSE reset
                /\ instance' = [instance EXCEPT ![m.at].isChunkRun = (loaded'[n].script # 0)]
    /\ UNCHANGED <<hostVars, last>>

\* doFreeFunction: the module stays loaded.
DoFreeFunction ==
    /\ Take("free")
    /\ instance' = [instance EXCEPT ![Head(pipe).at].isChunkRun = FALSE]
    /\ UNCHANGED <<hostVars, preload, loaded, last>>

\* require: the module of the instance's name, if isChunkRun is set.
Require(i) == IF i.isChunkRun THEN loaded[i.name].script ELSE 0

\* doFunction, getVariableByArgs, setVariableByArgs and perform begin with
\* require and do nothing if it fails.
DoFunction ==
    /\ Take("call")
    /\ LET m == Head(pipe)
       IN  last' = [by |-> m.by, expected |-> m.script, ran |-> Require(instance[m.at])]
    /\ UNCHANGED <<hostVars, runnerVars>>

Runner == CreateInstance \/ SetName \/ DoString \/ DoFreeFunction \/ DoFunction

-----------------------------------------------------------------------------
Next == Host \/ Runner

Spec == Init /\ [][Next]_vars

-----------------------------------------------------------------------------
(* Properties *)

\* Every variable keeps to its type, and every object of the host is bound to
\* its name, so that others find it there (initSym, bindSym).
TypeOK ==
    /\ object \in [Addresses -> [kind : Kinds \cup {"none"}, id : 0..MaxObjects,
                                 sym : AllNames \cup {NoName}, script : 0..MaxScripts]]
    /\ bound \subseteq (AllNames \cup {NoName}) \X Addresses
    /\ \A u \in Addresses : object[u].kind # "none" => <<object[u].sym, u>> \in bound
    /\ made \in 0..MaxObjects
    /\ scripts \in 0..MaxScripts
    /\ pipe \in Seq([type : {"init", "init_sym", "do_string", "free", "call"}, at : Addresses,
                     id : 0..MaxObjects, name : AllNames \cup {NoName},
                     outcome : {"good", "syntax", "error"}, script : 0..MaxScripts,
                     by : Kinds \cup {"nobody"}])
    /\ instance \in [Addresses -> [id : 0..MaxObjects, name : AllNames \cup {NoName},
                                   isChunkRun : BOOLEAN]]
    /\ preload \in [AllNames -> [script : 0..MaxScripts, outcome : {"good", "syntax", "error"}]]
    /\ loaded \in [AllNames -> [script : 0..MaxScripts, outlet : Addresses \cup {0},
                                outletId : 0..MaxObjects, namesake : BOOLEAN]]
    /\ last \in [by : Kinds \cup {"nobody"}, expected : 0..MaxScripts, ran : 0..MaxScripts]

\* A call of a "define" object runs the script that was in force at that
\* object when it was made, or none if none was, although scripts are kept
\* by name, names and addresses are used again, and the runner lags behind
\* (initSym, doString, createInstance, require).
OwnScript == last.by = "define" => last.ran = last.expected

\* At most one instance runs the module of a name: objects do not share one
\* (initSym, bindSym and freeMethod on the host, isChunkRun in the runner).
SoleOwner ==
    \A u, v \in Addresses :
        /\ instance[u].isChunkRun
        /\ instance[v].isChunkRun
        /\ instance[u].name = instance[v].name
        => u = v

\* The outlet of a running script points to the instance of its object, which
\* is still there, unless another instance had the same name when the script
\* was loaded: a client's, or that of an object that is gone (getByName).
OwnOutlet ==
    \A u \in Addresses :
        LET module == loaded[instance[u].name]
        IN  instance[u].isChunkRun /\ ~module.namesake
                => module.outlet = u /\ module.outletId = instance[u].id

\* A call of an "ofelia get" or "ofelia set" object runs the script of the
\* define object of that name: what the help patch says of both.
ClientsCall == last.by = "client" => last.ran = last.expected
=============================================================================
