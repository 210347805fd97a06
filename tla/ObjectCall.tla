----------------------------- MODULE ObjectCall -----------------------------
(***************************************************************************)
(* One define object from end to end: a message at its inlets becomes a    *)
(* call of a Lua function in the runner, and what that function returns or *)
(* sends by itself becomes calls of the object's outlets or a message to a *)
(* receiver of Pd.  Both directions go through MessageCodec.               *)
(*                                                                         *)
(* The host's methods and its handlers, each under Pd's lock or on the     *)
(* timer thread, are one action each; so is the runner's handling of a     *)
(* message, which is one turn of dequeueMessages.  The Lua stack is its    *)
(* depth.  A message carries, as history, what it was meant to bring about.*)
(***************************************************************************)
EXTENDS MessageCodec, FiniteSetsExt, SequencesExt

CONSTANTS
    IOs,          \* the settings of the flags -c and -s
    Rings,        \* the audio rings of an object: 8 in the code
    Lists,        \* the lists and tables that are sent
    MaxMessages,  \* bound: the messages in each direction
    MaxLeft       \* bound: the slots left on the Lua stack

ASSUME IOsAssumption == IOs \subseteq [ins : Nat \ {0}, outs : Nat, signal : BOOLEAN]
ASSUME ListsAssumption == <<>> \in Lists /\ Lists \subseteq Seq(Atoms)
ASSUME BoundsAssumption == {Rings, MaxMessages, MaxLeft} \subseteq Nat

VARIABLES
    io,        \* numInlets, numOutlets, isSignalObject
    types,     \* the types addControlIO made the cords of the passive inlets for
    passive,   \* io.av, the values of the passive inlets
    given,     \* history: the values that cords and ofInlet gave them
    toRunner,  \* the messages on the way to the runner
    toHost,    \* the messages on the way to the host
    chunk,     \* isChunkRun
    depth,     \* lua_gettop between two messages
    left,      \* history: the slots known to be left there since the last script
    call,      \* history: the call of Lua of the last step, if it made one
    delivery,  \* history: what the last step brought into the patch, if anything
    fate       \* "undefined" once a process has run into undefined behaviour

vars == <<io, types, passive, given, toRunner, toHost, chunk, depth, left, call, delivery, fate>>

\* A pointer that is no reference to a userdata: one of Pd's own, or one that
\* outletPointer dropped as soon as it was sent.
Foreign == Pointer(Empty)

PassiveAtoms == {a \in Atoms : a.t # "pointer"}

\* A float read where none was written.
Stray == Float(Garbage.v)

\* The type of an atom, be its symbol cut or not.
AtomSelector(a) == IF a.t = "cut" THEN "symbol" ELSE a.t

\* doesPassiveInletExist and the tests of the outlet handlers.
HasMultiControlInlets == ~io.signal /\ io.ins > 1
HasControlOutlet == ~io.signal /\ io.outs > 0
NumPassive == IF io.signal THEN 0 ELSE io.ins - 1

Nothing == [meant |-> <<>>, got |-> <<>>, by |-> "nobody"]

Fine == fate = "fine" /\ fate' = "fine"
Breaks == fate = "fine" /\ fate' = "undefined"
Quiet == call' = Nothing /\ delivery' = Nothing

Init ==
    /\ io \in IOs
    /\ passive \in [1 .. NumPassive -> PassiveAtoms]
    /\ types = [i \in DOMAIN passive |-> passive[i].t]
    /\ given = passive
    /\ toRunner = <<>>
    /\ toHost = <<>>
    /\ chunk = FALSE
    /\ depth = 0
    /\ left = 0
    /\ call = Nothing
    /\ delivery = Nothing
    /\ fate = "fine"

-----------------------------------------------------------------------------
(* The host's methods. *)

\* writeToStream and the pipe; the message is not sent when an assertion fails.
ToRunner(type, fields, meant) ==
    /\ Len(toRunner) < MaxMessages
    /\ IF Writable(fields)
       THEN /\ toRunner' = Append(toRunner, [type |-> type, fields |-> fields, meant |-> meant])
            /\ Fine
       ELSE UNCHANGED toRunner /\ Breaks
    /\ Quiet
    /\ UNCHANGED <<io, types, passive, given, toHost, chunk, depth, left>>

\* Mutant: the passive values are taken to begin one place further to the left.
DoListFromFirst(args) ==
    LET argc == io.ins - 1 + Len(args)
        first == argc - io.ins
    IN  [i \in 1 .. argc |->
            IF i > first /\ i - first <= Len(passive) THEN passive[i - first]
            ELSE IF i <= Len(args) THEN args[i] ELSE Garbage]

\* io.doList on a new array of numInlets - 1 atoms more than the arguments that
\* were copied to its beginning: the passive values fill it from `first` on.
DoList(args) ==
    LET argc == io.ins - 1 + Len(args)
        first == argc - io.ins + 1
    IN  [i \in 1 .. argc |-> IF i > first THEN passive[i - first]
                             ELSE IF i <= Len(args) THEN args[i] ELSE Garbage]

\* lua->doFunction, by the type of the arguments.
DoFunction(name, args, meant) ==
    CASE name = "list" ->
           ToRunner("ofx_lua_do_function_sa", <<Of("string", name), Of("atoms", args)>>, meant)
      [] name = "bang" -> ToRunner("ofx_lua_do_function_s", <<Of("string", name)>>, meant)
      [] name = "float" ->
           ToRunner("ofx_lua_do_function_sf", <<Of("string", name), Of("float", args[1])>>, meant)
      [] name = "symbol" ->
           ToRunner("ofx_lua_do_function_ss", <<Of("string", name), Of("string", args[1])>>, meant)
      [] OTHER ->
           ToRunner("ofx_lua_do_function_sp", <<Of("string", name), Of("intptr_t", args[1])>>, meant)

Selector(args) ==
    IF args = <<>> THEN "bang" ELSE IF Len(args) = 1 THEN args[1].t ELSE "list"

\* What a message is to bring about, whatever the code does: an object with
\* passive inlets calls "list" with the arguments and then the passive values;
\* another calls the function of the message's type.
Meant(args) ==
    IF HasMultiControlInlets THEN <<"list", args \o given>> ELSE <<Selector(args), args>>

\* bangMethod, floatMethod, symbolMethod, pointerMethod, and listMethod, which
\* hands a list of none or one on to these.
ListMethod(args) ==
    IF HasMultiControlInlets THEN DoFunction("list", DoList(args), Meant(args))
                             ELSE DoFunction(Selector(args), args, Meant(args))

\* anythingMethod: the message names a variable of the module.
AnythingMethod(args) ==
    ToRunner("ofx_lua_set_var_by_args", <<Of("string", "variable"), Of("atoms", args)>>,
             <<"variable", args>>)

\* doText or doArgs, and doFreeFunction by the methods clear and free.
SendScript == ToRunner("ofx_lua_do_string", <<Of("string", "script")>>, <<"script", <<>>>>)
SendFree == ToRunner("ofx_lua_do_free_function", <<>>, <<"free", <<>>>>)

\* A floatinlet or symbolinlet of Pd stores what comes through a cord.
CordSetsInlet ==
    \E i \in DOMAIN passive, a \in PassiveAtoms :
        /\ ~io.signal
        /\ a.t = AtomSelector(passive[i])
        /\ passive' = [passive EXCEPT ![i] = a]
        /\ given' = [given EXCEPT ![i] = a]
        /\ Fine
        /\ Quiet
        /\ UNCHANGED <<io, types, toRunner, toHost, chunk, depth, left>>

\* perform of the host: the inlets' samples go out, and one block of each ring
\* comes in, of nine outlets too.
Perform ==
    /\ io.signal
    /\ \/ ToRunner("ofx_lua_audio_block", <<Of("blocks", io.ins), Of("int", io.outs)>>,
                   <<"perform", <<>>>>)
       \/ /\ io.outs > Rings
          /\ Breaks
          /\ Quiet
          /\ UNCHANGED <<io, types, passive, given, toRunner, toHost, chunk, depth, left>>

-----------------------------------------------------------------------------
(* The runner. *)

\* The results that tell the outlets of a function apart.  Booleans, and strings
\* that read as a number, go out as the number lua_isnumber finds in them.
Keyed(u) == [t |-> "keyed", v |-> u]
Table(atoms) == [t |-> "table", v |-> atoms]
Nil == [t |-> "nil", v |-> Empty]
Function == [t |-> "function", v |-> Empty]
Results == Atoms \cup {Nil, Function} \cup {Keyed(u) : u \in Userdata}
                 \cup {Table(as) : as \in Lists}
                 \cup {Table(<<Function>>)}

Post(type, fields, meant, by) ==
    [type |-> type, fields |-> fields, meant |-> meant, by |-> by]

\* A call of an outlet of Pd.
Out(outlet, selector, args) == [outlet |-> outlet, selector |-> selector, args |-> args]

\* What a list is to do that goes out of outlet 0 and may be spread over the
\* outlets: the rightmost first, atoms without an outlet are dropped.
Spread(atoms) ==
    Reverse([i \in 1 .. Min({io.outs, Len(atoms)}) |-> Out(i - 1, atoms[i].t, <<atoms[i]>>)])

\* What outlet calls are meant: nothing from an object that lacks the outlet.
MeantOut(outlet, selector, args) ==
    IF HasControlOutlet /\ outlet < io.outs THEN <<Out(outlet, selector, args)>> ELSE <<>>
MeantResult(r) ==
    CASE r.t = "nil" -> MeantOut(0, "bang", <<>>)
      [] r.t \in {"float", "symbol", "pointer"} -> MeantOut(0, r.t, <<r>>)
      [] r.t = "keyed" -> MeantOut(0, "pointer", <<Pointer(r.v)>>)
      [] r.t = "table" -> IF HasControlOutlet /\ io.outs > 1 THEN Spread(r.v)
                          ELSE MeantOut(0, "list", r.v)
      [] OTHER -> <<>>

\* outletRet's messages; outletUserData for a userdata and for a table with a
\* string key, outletTable for another table.
RetMessages(r) ==
    LET to == Of("int", 0)
        m == MeantResult(r)
    IN  CASE r.t = "nil" -> <<Post("pd_outlet_bang", <<to>>, m, "ret")>>
          [] r.t = "float" -> <<Post("pd_outlet_float", <<to, Of("float", r)>>, m, "ret")>>
          [] r.t = "symbol" -> <<Post("pd_outlet_symbol", <<to, Of("string", r)>>, m, "ret")>>
          [] r.t = "pointer" -> <<Post("pd_outlet_pointer", <<to, Of("int", r)>>, m, "ret")>>
          [] r.t = "keyed" ->
               <<Post("pd_outlet_pointer", <<to, Of("int", Pointer(r.v))>>, m, "ret")>>
          [] r.t = "table" ->
               <<Post("pd_outlet_list", <<to, Of("atoms", r.v), Of("bool", TRUE)>>, m, "table")>>
          [] OTHER -> <<>>

\* The depth after outletRet, with nret results above top.  luaL_ref pops a
\* userdata, and outletRet returns without popping the results below it.
OutletRet(top, nret, r) ==
    IF nret > 0 /\ r.t = "pointer" THEN top + nret - 1 ELSE top

\* setFunction on a stack with module and function on top, the module at `top`:
\* callFunction pops the function and an error, if there was one.
SetFunction(top, outcome, nret, r) ==
    IF outcome = "error" THEN top - 1 ELSE OutletRet(top, nret, r) - 1

\* A value lua_next does not find popped is taken for the table's next key.
Derails(r) == r = Table(<<Function>>)
Sendable(posts) == \A i \in DOMAIN posts : Writable(posts[i].fields)

\* The slots outletRet is known to leave.
LeftByRet(nret, r) == IF nret > 1 /\ r.t = "pointer" THEN nret - 1 ELSE 0

\* The call of a function that the stack holds above its module, which is at
\* `top`: every outcome of the Lua code, and what goes out for it.
CallFunction(top, base, sent, got) ==
    /\ call' = [meant |-> sent, got |-> got, by |-> "host"]
    /\ delivery' = Nothing
    /\ \/ /\ depth' = SetFunction(top, "error", 0, Nil)
          /\ left' = base
          /\ UNCHANGED toHost
          /\ Fine
       \/ \E nret \in 0 .. 2 : \E r \in IF nret = 0 THEN {Nil} ELSE Results :
            LET posts == IF nret = 0 THEN <<>> ELSE RetMessages(r)
            IN  /\ Len(toHost) + Len(posts) <= MaxMessages
                /\ IF nret > 0 /\ (Derails(r) \/ ~Sendable(posts))
                   THEN Breaks /\ UNCHANGED <<depth, left, toHost>>
                   ELSE /\ depth' = SetFunction(top, "good", nret, r)
                        /\ left' = base + LeftByRet(nret, r)
                        /\ toHost' = toHost \o posts
                        /\ Fine

NoCall == UNCHANGED <<depth, left, toHost>> /\ Quiet /\ Fine

Kinds == [ofx_lua_do_function_s |-> <<"string">>,
          ofx_lua_do_function_sp |-> <<"string", "int">>,
          ofx_lua_do_function_ss |-> <<"string", "string">>,
          ofx_lua_do_function_sf |-> <<"string", "float">>,
          ofx_lua_do_function_sa |-> <<"string", "atoms">>,
          ofx_lua_set_var_by_args |-> <<"string", "atoms">>]

\* pushUserData, for a pointer on its own.
PushUserData(p) == IF p = Foreign THEN Garbage ELSE p

Arguments(type, values) ==
    CASE type = "ofx_lua_do_function_s" -> <<values[1], <<>>>>
      [] type = "ofx_lua_do_function_sa" -> values
      [] OTHER -> <<values[1], <<PushUserData(values[2])>>>>

\* doFunction: require pushes the module and getType the field; isFunction pops
\* both when the field is no function, require its error.
DoLuaFunction(m) ==
    /\ UNCHANGED chunk
    /\ \/ /\ chunk
          /\ CallFunction(depth + 1, left, m.meant,
                          Arguments(m.type, Parse(Kinds[m.type], m.fields)))
       \/ NoCall

\* Is a variable of this type set by these arguments?
Fits(type, args) ==
    \/ type \in {"nil", "table"}
    \/ args = <<>>
    \/ /\ type \in {"boolean", "number"}
       /\ args[1].t = "float"
    \/ /\ type = "string"
       /\ args[1].t = "symbol"
    \/ /\ type = "userdata"
       /\ args[1].t = "pointer"

\* setVariable pops module and old value.  Where the types do not fit, and for a
\* type that is not among the cases, both are left.
SetVariable(top, type, args) == IF Fits(type, args) THEN top - 1 ELSE top + 1

SetVariableByArgs(m) ==
    LET values == Parse(Kinds[m.type], m.fields)
    IN  /\ UNCHANGED chunk
        /\ \/ ~chunk /\ NoCall
           \/ chunk /\ CallFunction(depth + 1, left, m.meant, values)
           \/ \E type \in {"nil", "boolean", "number", "string", "userdata", "table", "thread"} :
                /\ chunk
                /\ depth' = SetVariable(depth + 1, type, values[2])
                /\ left' = left + (IF Fits(type, values[2]) THEN 0 ELSE 2)
                /\ UNCHANGED toHost
                /\ Quiet
                /\ Fine

\* doString: the stack is emptied.  A chunk that fails leaves isChunkRun alone;
\* after another, doNewFunction runs the module, which may fail and clear it,
\* and calls "new", if there is one.
DoString(m) ==
    \/ /\ depth' = 0
       /\ left' = 0
       /\ chunk' \in {chunk, TRUE, FALSE}
       /\ UNCHANGED toHost
       /\ Quiet
       /\ Fine
    \/ /\ chunk' = TRUE
       /\ CallFunction(1, 0, m.meant, m.meant)

DoFreeFunction(m) ==
    /\ chunk' = FALSE
    /\ \/ chunk /\ CallFunction(depth + 1, left, m.meant, m.meant)
       \/ NoCall

\* Mutant: the module stays on the stack when perform has failed.
PerformPopsOne(top, outcome) == IF outcome = "error" THEN top ELSE top - 1

\* perform, with the module at `top`: an error is popped with the module, the
\* last result that is no table with all results and the module.
PerformPops(top, outcome) == top - 1

\* The runner's perform.  Only the last result is looked at before all of them
\* are indexed; indexing another that is no table raises an error outside pcall.
RunnerPerform(m) ==
    LET numOutlets == Parse(<<"blocks", "int">>, m.fields)[2]
        answer == Post("pd_audio_block", <<Of("blocks", numOutlets)>>,
                       [i \in 1 .. io.outs |-> Out(i - 1, "signal", <<>>)], "perform")
    IN  /\ UNCHANGED <<chunk, left>>
        /\ Quiet
        /\ Len(toHost) < MaxMessages
        /\ \/ /\ depth' = depth
              /\ toHost' = Append(toHost, answer)
              /\ Fine
           \/ \E outcome \in {"error", "noTable", "tables"} :
                /\ chunk
                /\ depth' = PerformPops(depth + 1, outcome)
                /\ toHost' = Append(toHost, answer)
                /\ Fine
           \/ /\ chunk
              /\ io.outs > 1
              /\ UNCHANGED <<depth, toHost>>
              /\ Breaks

\* One turn of dequeueMessages.
Handle ==
    /\ toRunner # <<>>
    /\ left < MaxLeft \/ Head(toRunner).type = "ofx_lua_do_string"
    /\ toRunner' = Tail(toRunner)
    /\ UNCHANGED <<io, types, passive, given>>
    /\ LET m == Head(toRunner)
       IN  CASE m.type = "ofx_lua_do_string" -> DoString(m)
             [] m.type = "ofx_lua_do_free_function" -> DoFreeFunction(m)
             [] m.type = "ofx_lua_set_var_by_args" -> SetVariableByArgs(m)
             [] m.type = "ofx_lua_audio_block" -> RunnerPerform(m)
             [] OTHER -> DoLuaFunction(m)

\* Lua code that uses ofOutlet, ofSend or ofInlet.
Sends(type, fields, meant, by) ==
    /\ Len(toHost) < MaxMessages
    /\ IF Writable(fields)
       THEN toHost' = Append(toHost, Post(type, fields, meant, by)) /\ Fine
       ELSE UNCHANGED toHost /\ Breaks
    /\ Quiet
    /\ UNCHANGED <<io, types, passive, given, toRunner, chunk, depth, left>>

\* pdOutlet.  outletSymbol sends a message of the type of a float; the table of
\* outletList and outletAnything is not empty, and one that begins with a number
\* is a list.
OwnOutlet ==
    \E index \in 0 .. 1 :
        LET to == Of("int", index)
        IN  \/ Sends("pd_outlet_bang", <<to>>, MeantOut(index, "bang", <<>>), "outletBang")
            \/ \E x \in Floats :
                 Sends("pd_outlet_float", <<to, Of("float", Float(x))>>,
                       MeantOut(index, "float", <<Float(x)>>), "outletFloat")
            \/ \E s \in Symbols :
                 Sends("pd_outlet_float", <<to, Of("string", Symbol(s))>>,
                       MeantOut(index, "symbol", <<Symbol(s)>>), "outletSymbol")
            \/ \E u \in Userdata :
                 Sends("pd_outlet_pointer", <<to, Of("int", Pointer(u))>>,
                       MeantOut(index, "pointer", <<Pointer(u)>>), "outletPointer")
            \/ \E list \in Lists \ {<<>>} :
                 \/ Sends("pd_outlet_list", <<to, Of("atoms", list), Of("bool", FALSE)>>,
                          MeantOut(index, "list", list), "outletList")
                 \/ /\ list[1].t = "symbol"
                    /\ Sends("pd_outlet_anything",
                             <<to, Of("string", list[1]), Of("atoms", Tail(list))>>,
                             MeantOut(index, "anything", list), "outletAnything")

\* pdSend: the message is for a receiver of Pd, named first.
ToReceiver(selector, args) == <<Out("receiver", selector, args)>>
OwnSend ==
    LET to == Of("string", "receiver")
    IN  \/ Sends("pd_send_bang", <<to>>, ToReceiver("bang", <<>>), "sendBang")
        \/ \E x \in Floats : Sends("pd_send_float", <<to, Of("float", Float(x))>>,
                                   ToReceiver("float", <<Float(x)>>), "sendFloat")
        \/ \E s \in Symbols : Sends("pd_send_symbol", <<to, Of("string", Symbol(s))>>,
                                    ToReceiver("symbol", <<Symbol(s)>>), "sendSymbol")
        \/ \E u \in Userdata : Sends("pd_send_pointer", <<to, Of("int", Pointer(u))>>,
                                     ToReceiver("pointer", <<Pointer(u)>>), "sendPointer")
        \/ \E list \in Lists \ {<<>>} :
             \/ Sends("pd_send_list", <<to, Of("atoms", list)>>,
                      ToReceiver("list", list), "sendList")
             \/ /\ list[1].t = "symbol"
                /\ Sends("pd_send_anything",
                         <<to, Of("string", list[1]), Of("atoms", Tail(list))>>,
                         ToReceiver("anything", list), "sendAnything")
             \/ /\ list[1].t = "float"
                /\ Sends("pd_send_anything", <<to, Of("atoms", list), Of("bool", FALSE)>>,
                         ToReceiver("list", list), "sendAnything")

\* pdInlet.
OwnInlet ==
    \/ \E index \in 0 .. 2, x \in Floats :
         Sends("pd_inlet_set_float", <<Of("int", index), Of("float", Float(x))>>,
               <<>>, "setFloatInlet")
    \/ \E index \in 0 .. 2, s \in Symbols :
         Sends("pd_inlet_set_symbol", <<Of("int", index), Of("string", Symbol(s))>>,
               <<>>, "setSymbolInlet")
    \/ \E list \in Lists \ {<<>>} :
         Sends("pd_inlet_set_inlets", <<Of("atoms", list)>>, <<>>, "setInlets")

\* pdCanvas, of a patch at that level above the object's; the answers go through
\* the return pipe.
OwnCanvas ==
    \E parent \in 0 .. 1 :
        LET level == Of("int", parent)
            position == Of("int", Garbage)
        IN  \/ Sends("canvas_get_index", <<level>>, <<>>, "getIndex")
            \/ Sends("canvas_get_position", <<level>>, <<>>, "getPosition")
            \/ Sends("canvas_set_position", <<level, position, position>>, <<>>, "setPosition")

-----------------------------------------------------------------------------
(* The host's handlers. *)

HostKinds == [pd_outlet_bang |-> <<"int">>,
              pd_outlet_float |-> <<"int", "float">>,
              pd_outlet_symbol |-> <<"int", "string">>,
              pd_outlet_pointer |-> <<"int", "intptr_t">>,
              pd_outlet_list |-> <<"int", "atoms", "bool">>,
              pd_outlet_anything |-> <<"int", "string", "atoms">>,
              pd_audio_block |-> <<"blocks">>,
              pd_send_bang |-> <<"string">>,
              pd_send_float |-> <<"string", "float">>,
              pd_send_symbol |-> <<"string", "string">>,
              pd_send_pointer |-> <<"string", "string", "intptr_t">>,
              pd_send_list |-> <<"string", "string", "atoms">>,
              pd_send_anything |-> <<"string", "string", "string", "atoms">>,
              canvas_get_index |-> <<"int">>,
              canvas_get_position |-> <<"int">>,
              canvas_set_position |-> <<"int", "int", "int">>,
              pd_inlet_set_float |-> <<"int", "float">>,
              pd_inlet_set_symbol |-> <<"int", "string">>,
              pd_inlet_set_inlets |-> <<"atoms">>]

Delivers(m, got) ==
    /\ delivery' = [meant |-> m.meant, got |-> got, by |-> m.by]
    /\ UNCHANGED <<passive, given>>

\* The test of the outlet handlers.
Outlet(index, selector, args) ==
    IF HasControlOutlet /\ io.outs > index THEN <<Out(index, selector, args)>> ELSE <<>>

HandleOutlet(m, v) ==
    /\ \/ /\ m.type = "pd_outlet_bang"
          /\ Delivers(m, Outlet(v[1], "bang", <<>>))
       \/ /\ m.type = "pd_outlet_float"
          /\ Delivers(m, Outlet(v[1], "float", <<v[2]>>))
       \/ /\ m.type = "pd_outlet_symbol"
          /\ Delivers(m, Outlet(v[1], "symbol", <<v[2]>>))
       \/ /\ m.type = "pd_outlet_pointer"
          /\ Delivers(m, Outlet(v[1], "pointer", <<v[2]>>))
       \/ /\ m.type = "pd_outlet_anything"
          /\ Delivers(m, Outlet(v[1], "anything", <<v[2]>> \o HostAtoms(v[3])))
    /\ Fine

\* Mutant: the outlets are gone through from the left.
DistributeForward(atoms) ==
    LET last == (IF io.outs >= Len(atoms) THEN Len(atoms) ELSE io.outs) - 1
    IN  [k \in 1 .. last + 1 |-> Out(k - 1, AtomSelector(atoms[k]), <<atoms[k]>>)]

\* The loop over the outlets, from last down to 0.
Distribute(atoms) ==
    LET last == (IF io.outs >= Len(atoms) THEN Len(atoms) ELSE io.outs) - 1
    IN  [k \in 1 .. last + 1 |->
            LET i == last - k + 1
            IN  Out(i, AtomSelector(atoms[i + 1]), <<atoms[i + 1]>>)]

\* pd_outlet_list asks for neither hasControlOutlet nor the number of outlets.
HandleList(m, v) ==
    LET atoms == HostAtoms(v[2])
    IN  /\ m.type = "pd_outlet_list"
        /\ IF io.outs > 1 /\ v[3] THEN Delivers(m, Distribute(atoms)) /\ Fine
           ELSE IF v[1] < io.outs THEN Delivers(m, <<Out(v[1], "list", atoms)>>) /\ Fine
           ELSE Breaks /\ UNCHANGED <<delivery, passive, given>>

\* receiveAudioSamples pushes into one ring for each block.
HandleAudio(m, v) ==
    /\ m.type = "pd_audio_block"
    /\ IF v[1] <= Rings THEN Delivers(m, [i \in 1 .. v[1] |-> Out(i - 1, "signal", <<>>)]) /\ Fine
       ELSE Breaks /\ UNCHANGED <<delivery, passive, given>>

\* pd_send_pointer, pd_send_list and pd_send_anything begin with a string that
\* nobody sends.  What is read as the receiver is the selector or none that
\* exists, and what is read as a length may be more than can be allocated.
HandleSend(m, v) ==
    \/ /\ m.type = "pd_send_bang"
       /\ Delivers(m, ToReceiver("bang", <<>>)) /\ Fine
    \/ /\ m.type = "pd_send_float"
       /\ Delivers(m, ToReceiver("float", <<v[2]>>)) /\ Fine
    \/ /\ m.type = "pd_send_symbol"
       /\ Delivers(m, ToReceiver("symbol", <<v[2]>>)) /\ Fine
    \/ /\ m.type \in {"pd_send_pointer", "pd_send_list", "pd_send_anything"}
       /\ Delivers(m, <<>>) /\ Fine
    \/ /\ m.type = "pd_send_anything"
       /\ v[2] # Garbage
       /\ Delivers(m, <<Out("another receiver", "garbage", <<>>)>>) /\ Fine
    \/ /\ m.type \in {"pd_send_list", "pd_send_anything"}
       /\ Breaks
       /\ UNCHANGED <<delivery, passive, given>>

Clamp(n) == Max({0, Min({n, io.ins - 2})})

\* Mutant: the type of the value is not compared with the inlet's.
SetInletAnyway(inlets, n, a) == [inlets EXCEPT ![Clamp(n) + 1] = a]
SetInlet(inlets, n, a) ==
    LET i == Clamp(n) + 1
    IN  IF AtomSelector(inlets[i]) = a.t THEN [inlets EXCEPT ![i] = a] ELSE inlets

\* The loop stops at the first value of another type than its inlet's.
SetInlets(inlets, atoms) ==
    [i \in DOMAIN inlets |->
        IF i <= Len(atoms) /\ \A j \in 1 .. i : AtomSelector(atoms[j]) = AtomSelector(inlets[j])
        THEN atoms[i] ELSE inlets[i]]

HandleInlet(m, v) ==
    LET set(inlets) ==
            IF ~HasMultiControlInlets THEN inlets
            ELSE IF m.type = "pd_inlet_set_inlets" THEN SetInlets(inlets, HostAtoms(v[1]))
            ELSE SetInlet(inlets, v[1], v[2])
    IN  /\ m.type \in {"pd_inlet_set_float", "pd_inlet_set_symbol", "pd_inlet_set_inlets"}
        /\ passive' = set(passive)
        /\ given' = set(given)
        /\ delivery' = Nothing
        /\ Fine

\* The cases of the canvas's position end without a break.  When the patch was
\* elsewhere - canvas_get_position "sets" it to what it reads past its own end -
\* pd_inlet_set_float takes the message for its own: the level of the parent for
\* the number of the inlet, and the position, or nothing, for its value.
HandlePosition(m, v) ==
    /\ m.type \in {"canvas_get_index", "canvas_get_position", "canvas_set_position"}
    /\ \/ UNCHANGED passive
       \/ /\ HasMultiControlInlets
          /\ passive' = SetInlet(passive, v[1], Stray)
    /\ delivery' = Nothing
    /\ UNCHANGED given
    /\ Fine

\* The byte before the buffer of an empty symbol is overwritten.
Underflow(m, v) ==
    /\ m.type \in {"pd_outlet_list", "pd_outlet_anything", "pd_inlet_set_inlets"}
    /\ \E i \in DOMAIN v : m.fields[i].kind = "atoms" /\ HostUnderflows(v[i])
    /\ Breaks
    /\ UNCHANGED <<delivery, passive, given>>

\* receiveMessage of the object and of the message manager.
Receive ==
    /\ toHost # <<>>
    /\ toHost' = Tail(toHost)
    /\ call' = Nothing
    /\ UNCHANGED <<io, types, toRunner, chunk, depth, left>>
    /\ LET m == Head(toHost)
           v == Parse(HostKinds[m.type], m.fields)
       IN  \/ HandleOutlet(m, v)
           \/ HandleList(m, v)
           \/ HandleAudio(m, v)
           \/ HandleSend(m, v)
           \/ HandleInlet(m, v)
           \/ HandlePosition(m, v)
           \/ Underflow(m, v)

Methods ==
    \/ \E args \in Lists \cup {<<Foreign>>} : ListMethod(args)
    \/ \E args \in Lists : AnythingMethod(args)
    \/ SendScript
    \/ SendFree
    \/ CordSetsInlet
    \/ Perform

Next == Methods \/ Handle \/ OwnOutlet \/ OwnSend \/ OwnInlet \/ OwnCanvas \/ Receive

Spec == Init /\ [][Next]_vars

-----------------------------------------------------------------------------
(* Properties. *)

\* The passive inlets keep the types their cords were made for (addControlIO
\* gave Pd a pointer to the float or to the symbol), whatever Lua sets them to.
TypeOK ==
    /\ io \in IOs
    /\ passive \in Seq([t : {"float", "symbol", "cut"}, v : Floats \cup Symbols])
    /\ Len(passive) = NumPassive
    /\ \A i \in DOMAIN passive : AtomSelector(passive[i]) = types[i]
    /\ {Len(toRunner), Len(toHost)} \subseteq 0 .. MaxMessages
    /\ chunk \in BOOLEAN
    /\ depth \in Nat
    /\ fate \in {"fine", "undefined"}

\* A function of the script gets what came in at the inlets, followed by the
\* values the passive inlets were given last at that moment where there are any,
\* each in its place and of its type, whatever happens to the inlets before the
\* runner gets to it.  Only a pointer that is no reference of Lua's is taken for
\* some other value, and an inlet that a message about the canvas's position was
\* taken for a value of has that value.
ArgumentsArrive ==
    LET got == call.got
        meant == call.meant
    IN  \/ got = meant
        \/ meant = <<"pointer", <<Foreign>>>>
        \/ /\ HasMultiControlInlets
           /\ <<got[1], Len(got[2])>> = <<meant[1], Len(meant[2])>>
           /\ \A i \in DOMAIN got[2] : got[2][i] \in {meant[2][i], Stray}

\* The Lua stack is as it was after each message, on every path through errors,
\* results and variables; what stays is two slots for a value that does not fit
\* the variable it is for, and the results below a userdata, until the next script.
StackBalanced == depth = left

Broken == {"outletSymbol", "sendPointer", "sendList", "sendAnything"}

\* What is left of a call when the symbols of lists lose their last character.
Blunt(by, out) ==
    CASE by \in {"table", "outletList"} -> [out EXCEPT !.args = HostAtoms(@)]
      [] by = "outletAnything" -> [out EXCEPT !.args = <<Head(@)>> \o HostAtoms(Tail(@))]
      [] OTHER -> out

\* What Lua code returns or sends comes out of the outlet, or at the receiver, it
\* is for, as the same message and with the same values, tables spread from right
\* to left.  It does not for the four calls whose fields are not those that the
\* host reads, and for a list out of an object without control outlets; symbols
\* in lists have lost their last character.
OutletsAsMeant ==
    \/ delivery.by \in Broken
    \/ io.signal /\ delivery.by \in {"table", "outletList"} /\ delivery.meant = <<>>
    \/ delivery.got = [k \in DOMAIN delivery.meant |-> Blunt(delivery.by, delivery.meant[k])]
=============================================================================
