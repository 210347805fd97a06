-------------------------- MODULE ObjectCall_proofs --------------------------
(***************************************************************************)
(* Proofs about ObjectCall: what a message at the inlets or a result of    *)
(* Lua has become at the other end, the depth of the Lua stack, and the    *)
(* types of the passive inlets.  Any flags, values, lists, rings, and any  *)
(* number of messages.  A queue is reasoned about message by message: each *)
(* carries what it was meant to bring about, and the invariant says that   *)
(* the handler at the other end will bring about just that.                *)
(***************************************************************************)
EXTENDS ObjectCall, SequenceTheorems, TLAPS

-----------------------------------------------------------------------------
(* MessageCodec *)

\* Fields that are read as what they were written as have their values.
LEMMA ParseOne ==
    ASSUME NEW k, NEW f, Agree(k, f)
    PROVE  Parse(<<k>>, <<f>>) = <<f.value>>
BY DEF Parse

\* Two fields.
LEMMA ParseTwo ==
    ASSUME NEW k, NEW l, NEW f, NEW g, Agree(k, f), Agree(l, g)
    PROVE  Parse(<<k, l>>, <<f, g>>) = <<f.value, g.value>>
BY DEF Parse

\* Three fields.
LEMMA ParseThree ==
    ASSUME NEW k, NEW l, NEW n, NEW f, NEW g, NEW h, Agree(k, f), Agree(l, g), Agree(n, h)
    PROVE  Parse(<<k, l, n>>, <<f, g, h>>) = <<f.value, g.value, h.value>>
BY DEF Parse

\* An atom, and what the host makes of it.
LEMMA AtomTypes ==
    ASSUME NEW a \in Atoms
    PROVE  /\ a.t \in {"float", "symbol", "pointer"}
           /\ a.t # "pointer" => a \in [t : {"float", "symbol", "cut"}, v : Floats \cup Symbols]
           /\ a.t = "symbol" => a.v \in Symbols /\ a = Symbol(a.v)
BY DEF Atoms, Float, Symbol, Pointer

-----------------------------------------------------------------------------
(* The invariant *)

\* What a passive inlet may hold.
InletValues == [t : {"float", "symbol", "cut"}, v : Floats \cup Symbols]

\* The given values are of the types of the inlets, and a passive inlet has the
\* value it was given, but for a stray one.
InletsInv ==
    /\ given \in Seq(InletValues)
    /\ Len(given) = NumPassive
    /\ \A i \in 1..NumPassive : /\ AtomSelector(given[i]) = types[i]
                                /\ passive[i] \in {given[i], Stray}

\* ArgumentsArrive, of what was meant and what is got.
Right(meant, got) ==
    \/ got = meant
    \/ meant = <<"pointer", <<Foreign>>>>
    \/ /\ HasMultiControlInlets
       /\ <<got[1], Len(got[2])>> = <<meant[1], Len(meant[2])>>
       /\ \A i \in DOMAIN got[2] : got[2][i] \in {meant[2][i], Stray}

\* The messages of doFunction.
CallTypes == {"ofx_lua_do_function_s", "ofx_lua_do_function_sp", "ofx_lua_do_function_ss",
              "ofx_lua_do_function_sf", "ofx_lua_do_function_sa"}

\* What the runner will call for a message is what was meant.
RunnerRight(m) ==
    /\ m.type \in CallTypes \cup {"ofx_lua_do_string", "ofx_lua_do_free_function",
                                  "ofx_lua_set_var_by_args", "ofx_lua_audio_block"}
    /\ m.type \in CallTypes =>
          Right(m.meant, Arguments(m.type, Parse(Kinds[m.type], m.fields)))
    /\ m.type = "ofx_lua_set_var_by_args" => Right(m.meant, Parse(Kinds[m.type], m.fields))
    /\ m.type = "ofx_lua_audio_block" => Parse(<<"blocks", "int">>, m.fields)[2] = io.outs

\* Every message on the way to the runner is right.
RunnerQueue == \E S : toRunner \in Seq(S) /\ \A m \in S : RunnerRight(m)

\* OutletsAsMeant, of a message and what it brings about.
Arrives(m, got) ==
    \/ m.by \in Broken
    \/ io.signal /\ m.by \in {"table", "outletList"} /\ m.meant = <<>>
    \/ got = [k \in DOMAIN m.meant |-> Blunt(m.by, m.meant[k])]

\* One block for each of n rings.
Signals(n) == [i \in 1 .. n |-> Out(i - 1, "signal", <<>>)]

\* What the host's handlers will do with a message with these values.
OutletRight(m, v) ==
    /\ m.type = "pd_outlet_bang" => Arrives(m, Outlet(v[1], "bang", <<>>))
    /\ m.type = "pd_outlet_float" => Arrives(m, Outlet(v[1], "float", <<v[2]>>))
    /\ m.type = "pd_outlet_symbol" => Arrives(m, Outlet(v[1], "symbol", <<v[2]>>))
    /\ m.type = "pd_outlet_pointer" => Arrives(m, Outlet(v[1], "pointer", <<v[2]>>))
    /\ m.type = "pd_outlet_anything" =>
          Arrives(m, Outlet(v[1], "anything", <<v[2]>> \o HostAtoms(v[3])))

\* pd_outlet_list, spread over the outlets or not.
ListRight(m, v) ==
    m.type = "pd_outlet_list" =>
        /\ io.outs > 1 /\ v[3] => Arrives(m, Distribute(HostAtoms(v[2])))
        /\ ~(io.outs > 1 /\ v[3]) /\ v[1] < io.outs =>
              Arrives(m, <<Out(v[1], "list", HostAtoms(v[2]))>>)

\* The messages for receivers and for the audio rings.
SendRight(m, v) ==
    /\ m.type = "pd_audio_block" => Arrives(m, Signals(v[1]))
    /\ m.type = "pd_send_bang" => Arrives(m, ToReceiver("bang", <<>>))
    /\ m.type = "pd_send_float" => Arrives(m, ToReceiver("float", <<v[2]>>))
    /\ m.type = "pd_send_symbol" => Arrives(m, ToReceiver("symbol", <<v[2]>>))
    /\ m.type \in {"pd_send_pointer", "pd_send_list", "pd_send_anything"} => m.by \in Broken

\* The messages that set inlets or ask the canvas have an index and values to set.
InletRight(m, v) ==
    /\ m.type \in {"pd_inlet_set_float", "pd_inlet_set_symbol"} =>
          v[1] \in Int /\ v[2] \in Atoms
    /\ m.type = "pd_inlet_set_inlets" => v[1] \in Seq(Atoms)
    /\ m.type \in {"canvas_get_index", "canvas_get_position", "canvas_set_position"} =>
          v[1] \in Int

\* All of it, of a message as the host reads it.
HostRight(m) ==
    LET v == Parse(HostKinds[m.type], m.fields)
    IN  OutletRight(m, v) /\ ListRight(m, v) /\ SendRight(m, v) /\ InletRight(m, v)

\* Every message on the way to the host is right.
HostQueue == \E S : toHost \in Seq(S) /\ \A m \in S : HostRight(m)

\* The inductive invariant.
ObjectInv ==
    TypeOK /\ InletsInv /\ RunnerQueue /\ HostQueue
    /\ StackBalanced /\ ArgumentsArrive /\ OutletsAsMeant

-----------------------------------------------------------------------------
(* Queues *)

\* What is said of a message depends on nothing but the flags.
LEMMA RightStays ==
    ASSUME NEW m, UNCHANGED io, RunnerRight(m)
    PROVE  RunnerRight(m)'
BY DEF RunnerRight, Right, HasMultiControlInlets

\* The same in the other direction.
LEMMA HostRightStays ==
    ASSUME NEW m, UNCHANGED io, HostRight(m)
    PROVE  HostRight(m)'
<1> DEFINE v == Parse(HostKinds[m.type], m.fields)
<1>1. OutletRight(m, v) /\ ListRight(m, v) /\ SendRight(m, v) /\ InletRight(m, v)
  BY DEF HostRight
<1> HIDE DEF v
<1>2. ASSUME NEW got PROVE Arrives(m, got)' <=> Arrives(m, got)
  BY DEF Arrives
<1>3. OutletRight(m, v)'
  BY <1>1, <1>2 DEF OutletRight, Outlet, HasControlOutlet
<1>4. ListRight(m, v)'
  BY <1>1, <1>2 DEF ListRight, Distribute
<1>5. SendRight(m, v)' /\ InletRight(m, v)'
  BY <1>1, <1>2 DEF SendRight, InletRight
<1> QED BY <1>3, <1>4, <1>5 DEF HostRight, v

\* A step that leaves the queue to the runner alone.
LEMMA RunnerQueueStays ==
    ASSUME RunnerQueue, UNCHANGED <<io, toRunner>>
    PROVE  RunnerQueue'
<1>1. PICK S : toRunner \in Seq(S) /\ \A m \in S : RunnerRight(m)
  BY DEF RunnerQueue
<1>2. toRunner' \in Seq(S) /\ \A m \in S : RunnerRight(m)'
  BY <1>1, RightStays
<1> QED BY <1>2 DEF RunnerQueue

\* A step that leaves the queue to the host alone.
LEMMA HostQueueStays ==
    ASSUME HostQueue, UNCHANGED <<io, toHost>>
    PROVE  HostQueue'
<1>1. PICK S : toHost \in Seq(S) /\ \A m \in S : HostRight(m)
  BY DEF HostQueue
<1>2. toHost' \in Seq(S) /\ \A m \in S : HostRight(m)'
  BY <1>1, HostRightStays
<1> QED BY <1>2 DEF HostQueue

\* A sequence over a set is one over a larger set.
LEMMA SeqGrows ==
    ASSUME NEW S, NEW T, S \subseteq T, NEW q \in Seq(S)
    PROVE  q \in Seq(T)
<1>1. Len(q) \in Nat /\ DOMAIN q = 1..Len(q) /\ q \in [1..Len(q) -> S]
  BY LenProperties
<1>2. q \in [1..Len(q) -> T]
  BY <1>1
<1> QED BY <1>1, <1>2, SeqDef

\* More messages on the way to the host.
LEMMA HostQueueGrows ==
    ASSUME HostQueue, UNCHANGED io, NEW P, NEW posts \in Seq(P),
           \A m \in P : HostRight(m), toHost' = toHost \o posts
    PROVE  HostQueue' /\ Len(toHost') = Len(toHost) + Len(posts)
<1>1. PICK S : toHost \in Seq(S) /\ \A m \in S : HostRight(m)
  BY DEF HostQueue
<1> DEFINE T == S \cup P
<1>2. toHost \in Seq(T) /\ posts \in Seq(T)
  BY <1>1, SeqGrows
<1>3. \A m \in T : HostRight(m)'
  BY <1>1, HostRightStays
<1> HIDE DEF T
<1>4. toHost' \in Seq(T) /\ Len(toHost') = Len(toHost) + Len(posts)
  BY <1>2, ConcatProperties
<1> QED BY <1>3, <1>4 DEF HostQueue

\* One more message on the way to the host.
LEMMA HostQueueAppends ==
    ASSUME HostQueue, UNCHANGED io, NEW m, HostRight(m), toHost' = Append(toHost, m)
    PROVE  HostQueue' /\ Len(toHost') = Len(toHost) + 1
<1>1. PICK S : toHost \in Seq(S) /\ \A n \in S : HostRight(n)
  BY DEF HostQueue
<1> DEFINE T == S \cup {m}
<1>2. toHost \in Seq(T) /\ m \in T
  BY <1>1, SeqGrows
<1>3. \A n \in T : HostRight(n)'
  BY <1>1, HostRightStays
<1> HIDE DEF T
<1>4. toHost' \in Seq(T) /\ Len(toHost') = Len(toHost) + 1
  BY <1>2, AppendProperties
<1> QED BY <1>3, <1>4 DEF HostQueue

\* One more message on the way to the runner.
LEMMA RunnerQueueAppends ==
    ASSUME RunnerQueue, UNCHANGED io, NEW m, RunnerRight(m), toRunner' = Append(toRunner, m)
    PROVE  RunnerQueue' /\ Len(toRunner') = Len(toRunner) + 1
<1>1. PICK S : toRunner \in Seq(S) /\ \A n \in S : RunnerRight(n)
  BY DEF RunnerQueue
<1> DEFINE T == S \cup {m}
<1>2. toRunner \in Seq(T) /\ m \in T
  BY <1>1, SeqGrows
<1>3. \A n \in T : RunnerRight(n)'
  BY <1>1, RightStays
<1> HIDE DEF T
<1>4. toRunner' \in Seq(T) /\ Len(toRunner') = Len(toRunner) + 1
  BY <1>2, AppendProperties
<1> QED BY <1>3, <1>4 DEF RunnerQueue

\* The first message, and the queue without it.
LEMMA RunnerQueueTail ==
    ASSUME RunnerQueue, UNCHANGED io, toRunner # <<>>, toRunner' = Tail(toRunner)
    PROVE  /\ RunnerRight(Head(toRunner))
           /\ RunnerQueue'
           /\ Len(toRunner') = Len(toRunner) - 1
           /\ Len(toRunner) \in Nat /\ Len(toRunner) > 0
<1>1. PICK S : toRunner \in Seq(S) /\ \A n \in S : RunnerRight(n)
  BY DEF RunnerQueue
<1>2. Head(toRunner) \in S /\ toRunner' \in Seq(S) /\ Len(toRunner') = Len(toRunner) - 1
  BY <1>1, HeadTailProperties
<1>3. Len(toRunner) \in Nat /\ Len(toRunner) > 0
  BY <1>1, LenProperties, EmptySeq
<1>4. \A n \in S : RunnerRight(n)'
  BY <1>1, RightStays
<1> QED BY <1>1, <1>2, <1>3, <1>4 DEF RunnerQueue

\* The same in the other direction.
LEMMA HostQueueTail ==
    ASSUME HostQueue, UNCHANGED io, toHost # <<>>, toHost' = Tail(toHost)
    PROVE  /\ HostRight(Head(toHost))
           /\ HostQueue'
           /\ Len(toHost') = Len(toHost) - 1
           /\ Len(toHost) \in Nat /\ Len(toHost) > 0
<1>1. PICK S : toHost \in Seq(S) /\ \A n \in S : HostRight(n)
  BY DEF HostQueue
<1>2. Head(toHost) \in S /\ toHost' \in Seq(S) /\ Len(toHost') = Len(toHost) - 1
  BY <1>1, HeadTailProperties
<1>3. Len(toHost) \in Nat /\ Len(toHost) > 0
  BY <1>1, LenProperties, EmptySeq
<1>4. \A n \in S : HostRight(n)'
  BY <1>1, HostRightStays
<1> QED BY <1>1, <1>2, <1>3, <1>4 DEF HostQueue

-----------------------------------------------------------------------------
(* Messages to the runner *)

\* A step that neither calls nor delivers anything.
LEMMA QuietIsRight ==
    ASSUME Quiet
    PROVE  ArgumentsArrive' /\ OutletsAsMeant'
<1>1. call'.got = call'.meant
  BY DEF Quiet, Nothing
<1>2. delivery'.got = <<>> /\ delivery'.meant = <<>>
  BY DEF Quiet, Nothing
<1>3. <<>> = [k \in DOMAIN <<>> |-> Blunt(delivery'.by, <<>>[k])]
  OBVIOUS
<1> QED BY <1>1, <1>2, <1>3 DEF ArgumentsArrive, OutletsAsMeant

\* A step that leaves the inlets alone.
LEMMA InletsStay ==
    ASSUME InletsInv, UNCHANGED <<io, types, passive, given>>
    PROVE  InletsInv'
BY DEF InletsInv, NumPassive

\* The flags give the number of passive inlets.
LEMMA PassiveNumber ==
    ASSUME io \in IOs
    PROVE  /\ io.ins \in Nat \ {0} /\ io.outs \in Nat /\ io.signal \in BOOLEAN
           /\ NumPassive \in Nat
           /\ ~io.signal => NumPassive = io.ins - 1
<1>1. io \in [ins : Nat \ {0}, outs : Nat, signal : BOOLEAN]
  BY IOsAssumption
<1> QED BY <1>1 DEF NumPassive

\* A message to the runner, of which the right thing will come.
LEMMA ToRunnerStep ==
    ASSUME ObjectInv, NEW type, NEW fields, NEW meant, ToRunner(type, fields, meant),
           RunnerRight([type |-> type, fields |-> fields, meant |-> meant])
    PROVE  ObjectInv'
<1> DEFINE m == [type |-> type, fields |-> fields, meant |-> meant]
<1>0. /\ TypeOK /\ InletsInv /\ RunnerQueue /\ HostQueue /\ StackBalanced
  BY DEF ObjectInv
<1>1. /\ Len(toRunner) < MaxMessages
      /\ UNCHANGED <<io, types, passive, given, toHost, chunk, depth, left>>
      /\ Quiet
  BY DEF ToRunner
<1>2. /\ toRunner' = Append(toRunner, m) \/ toRunner' = toRunner
      /\ fate' \in {"fine", "undefined"}
  <2>1. CASE Writable(fields)
    BY <2>1 DEF ToRunner, Fine
  <2>2. CASE ~Writable(fields)
    BY <2>2 DEF ToRunner, Breaks
  <2> QED BY <2>1, <2>2
<1> HIDE DEF m
<1>3. RunnerQueue' /\ Len(toRunner') \in 0..MaxMessages
  <2>1. Len(toRunner) \in 0..MaxMessages /\ MaxMessages \in Nat
    BY <1>0, BoundsAssumption DEF TypeOK
  <2>2. CASE toRunner' = Append(toRunner, m)
    <3>1. RunnerRight(m)
      BY DEF m
    <3>2. RunnerQueue' /\ Len(toRunner') = Len(toRunner) + 1
      BY <1>0, <1>1, <2>2, <3>1, RunnerQueueAppends
    <3> QED BY <1>1, <2>1, <3>2
  <2>3. CASE toRunner' = toRunner
    BY <1>0, <1>1, <2>1, <2>3, RunnerQueueStays
  <2> QED BY <1>2, <2>2, <2>3
<1>4. TypeOK'
  BY <1>0, <1>1, <1>2, <1>3 DEF TypeOK, NumPassive
<1>5. InletsInv' /\ HostQueue' /\ StackBalanced'
  BY <1>0, <1>1, InletsStay, HostQueueStays DEF StackBalanced
<1>6. ArgumentsArrive' /\ OutletsAsMeant'
  BY <1>1, QuietIsRight
<1> QED BY <1>3, <1>4, <1>5, <1>6 DEF ObjectInv

\* The messages of doFunction.
LEMMA ListMessage ==
    ASSUME NEW name, NEW args, NEW meant, Right(meant, <<name, args>>)
    PROVE  RunnerRight([type |-> "ofx_lua_do_function_sa",
                        fields |-> <<Of("string", name), Of("atoms", args)>>,
                        meant |-> meant])
<1>1. Parse(<<"string", "atoms">>, <<Of("string", name), Of("atoms", args)>>) = <<name, args>>
  BY ParseTwo DEF Of, Agree
<1>2. Kinds["ofx_lua_do_function_sa"] = <<"string", "atoms">>
  BY DEF Kinds
<1>3. Arguments("ofx_lua_do_function_sa", <<name, args>>) = <<name, args>>
  BY DEF Arguments
<1> QED BY <1>1, <1>2, <1>3 DEF RunnerRight, CallTypes

\* A call without arguments.
LEMMA BangMessage ==
    ASSUME NEW name, NEW meant, Right(meant, <<name, <<>>>>)
    PROVE  RunnerRight([type |-> "ofx_lua_do_function_s",
                        fields |-> <<Of("string", name)>>, meant |-> meant])
<1>1. Parse(<<"string">>, <<Of("string", name)>>) = <<name>>
  BY ParseOne DEF Of, Agree
<1>2. Kinds["ofx_lua_do_function_s"] = <<"string">>
  BY DEF Kinds
<1>3. Arguments("ofx_lua_do_function_s", <<name>>) = <<name, <<>>>>
  BY DEF Arguments
<1> QED BY <1>1, <1>2, <1>3 DEF RunnerRight, CallTypes

\* A call with one argument, of each type.
LEMMA AtomMessages ==
    ASSUME NEW name, NEW a, NEW meant, Right(meant, <<name, <<PushUserData(a)>>>>)
    PROVE  /\ RunnerRight([type |-> "ofx_lua_do_function_sf",
                           fields |-> <<Of("string", name), Of("float", a)>>,
                           meant |-> meant])
           /\ RunnerRight([type |-> "ofx_lua_do_function_ss",
                           fields |-> <<Of("string", name), Of("string", a)>>,
                           meant |-> meant])
           /\ RunnerRight([type |-> "ofx_lua_do_function_sp",
                           fields |-> <<Of("string", name), Of("intptr_t", a)>>,
                           meant |-> meant])
<1>1. /\ Parse(<<"string", "float">>, <<Of("string", name), Of("float", a)>>) = <<name, a>>
      /\ Parse(<<"string", "string">>, <<Of("string", name), Of("string", a)>>) = <<name, a>>
      /\ Parse(<<"string", "int">>, <<Of("string", name), Of("intptr_t", a)>>) = <<name, a>>
  BY ParseTwo DEF Of, Agree
<1>2. /\ Kinds["ofx_lua_do_function_sf"] = <<"string", "float">>
      /\ Kinds["ofx_lua_do_function_ss"] = <<"string", "string">>
      /\ Kinds["ofx_lua_do_function_sp"] = <<"string", "int">>
  BY DEF Kinds
<1>3. \A type \in {"ofx_lua_do_function_sf", "ofx_lua_do_function_ss", "ofx_lua_do_function_sp"} :
          Arguments(type, <<name, a>>) = <<name, <<PushUserData(a)>>>>
  BY DEF Arguments
<1> QED BY <1>1, <1>2, <1>3 DEF RunnerRight, CallTypes

\* The passive values follow the arguments, each in its place.
LEMMA DoListIsRight ==
    ASSUME io \in IOs, InletsInv, HasMultiControlInlets,
           NEW X, NEW args \in Seq(X)
    PROVE  Right(<<"list", args \o given>>, <<"list", DoList(args)>>)
<1> DEFINE n == NumPassive
           got == DoList(args)
           meant == args \o given
<1>1. n \in Nat /\ n = io.ins - 1 /\ Len(args) \in Nat /\ io.ins \in Nat
  BY PassiveNumber, LenProperties DEF HasMultiControlInlets
<1>2. /\ DOMAIN got = 1..(n + Len(args))
      /\ \A i \in 1..(n + Len(args)) :
            got[i] = IF i > Len(args) THEN passive[i - Len(args)] ELSE args[i]
  <2> DEFINE argc == io.ins - 1 + Len(args)
             first == argc - io.ins + 1
  <2>1. got = [i \in 1 .. argc |-> IF i > first THEN passive[i - first]
                                   ELSE IF i <= Len(args) THEN args[i] ELSE Garbage]
    BY DEF DoList
  <2>2. argc = n + Len(args) /\ first = Len(args)
    BY <1>1
  <2> HIDE DEF got, n, argc, first
  <2> QED BY <1>1, <2>1, <2>2
<1>3. /\ Len(meant) = Len(args) + n
      /\ \A i \in 1..(Len(args) + n) :
            meant[i] = IF i <= Len(args) THEN args[i] ELSE given[i - Len(args)]
  <2> DEFINE T == X \cup InletValues
  <2>1. args \in Seq(T) /\ given \in Seq(T) /\ Len(given) = n
    BY SeqGrows DEF InletsInv
  <2> HIDE DEF T
  <2> QED BY <2>1, ConcatProperties
<1>4. Len(got) = n + Len(args)
  <2> DEFINE k == n + Len(args)
             T == {got[i] : i \in 1..k}
  <2>1. k \in Nat /\ DOMAIN got = 1..k
    BY <1>1, <1>2
  <2>2. got = [i \in 1..k |-> got[i]]
    <3> HIDE DEF k, T
    <3> QED BY <2>1 DEF DoList
  <2> HIDE DEF got, k
  <2>3. got \in [1..k -> T]
    BY <2>2
  <2> HIDE DEF T
  <2>4. got \in Seq(T)
    BY <2>1, <2>3, SeqDef
  <2> QED BY <2>1, <2>4, LenProperties DEF k
<1>5. ASSUME NEW i \in 1..(n + Len(args)) PROVE got[i] \in {meant[i], Stray}
  <2>1. CASE i <= Len(args)
    BY <1>1, <1>2, <1>3, <2>1
  <2>2. CASE ~(i <= Len(args))
    <3>1. i - Len(args) \in 1..NumPassive /\ i > Len(args)
      BY <1>1, <2>2
    <3>2. passive[i - Len(args)] \in {given[i - Len(args)], Stray}
      BY <3>1 DEF InletsInv
    <3> QED BY <1>1, <1>2, <1>3, <2>2, <3>1, <3>2
  <2> QED BY <2>1, <2>2
<1> HIDE DEF got, meant, n
<1>6. Len(got) = Len(meant)
  BY <1>1, <1>3, <1>4
<1> QED BY <1>4, <1>5, <1>6 DEF Right, got, meant

\* What comes in at the inlets is a list of atoms, or a pointer of Pd's own.
LEMMA ListTypes ==
    ASSUME NEW args \in Lists \cup {<<Foreign>>}
    PROVE  /\ args \in Seq(Atoms \cup {Foreign})
           /\ Len(args) \in Nat
           /\ \A i \in 1..Len(args) : args[i] \in Atoms \cup {Foreign}
<1>1. args \in Seq(Atoms \cup {Foreign})
  <2>1. CASE args \in Lists
    BY <2>1, ListsAssumption, SeqGrows
  <2>2. CASE args = <<Foreign>>
    BY <2>2
  <2> QED BY <2>1, <2>2
<1> QED BY <1>1, LenProperties, ElementOfSeq

\* The methods for bang, float, symbol, pointer and list.
LEMMA ListMethodStep ==
    ASSUME ObjectInv, NEW args \in Lists \cup {<<Foreign>>}, ListMethod(args)
    PROVE  ObjectInv'
<1>0. InletsInv /\ io \in IOs
  BY DEF ObjectInv, TypeOK
<1>1. CASE HasMultiControlInlets
  <2>1. ToRunner("ofx_lua_do_function_sa", <<Of("string", "list"), Of("atoms", DoList(args))>>,
                 <<"list", args \o given>>)
    BY <1>1 DEF ListMethod, DoFunction, Meant
  <2>2. Right(<<"list", args \o given>>, <<"list", DoList(args)>>)
    BY <1>0, <1>1, ListTypes, DoListIsRight
  <2> QED BY <2>1, <2>2, ListMessage, ToRunnerStep
<1>2. CASE ~HasMultiControlInlets
  <2> DEFINE name == Selector(args)
             meant == <<name, args>>
  <2>1. DoFunction(name, args, meant)
    BY <1>2 DEF ListMethod, Meant
  <2>2. Len(args) \in Nat /\ \A i \in 1..Len(args) : args[i] \in Atoms \cup {Foreign}
    BY ListTypes
  <2>3. CASE args = <<>>
    <3>1. name = "bang"
      BY <2>3 DEF Selector
    <3>2. ToRunner("ofx_lua_do_function_s", <<Of("string", name)>>, meant)
      BY <2>1, <2>3, <3>1 DEF DoFunction
    <3>3. Right(meant, <<name, <<>>>>)
      BY <2>3 DEF Right
    <3> QED BY <3>2, <3>3, BangMessage, ToRunnerStep
  <2>4. CASE Len(args) = 1
    <3>1. name = args[1].t /\ args # <<>>
      BY <2>4, <2>2, EmptySeq DEF Selector
    <3>2. name \in {"float", "symbol", "pointer"} /\ (name # "pointer" => args[1] # Foreign)
      BY <2>2, <2>4, <3>1, AtomTypes DEF Foreign, Pointer
    <3>3. args = <<args[1]>>
      BY <2>4, ListTypes
    <3>4. Right(meant, <<name, <<PushUserData(args[1])>>>>)
      <4>1. CASE args[1] = Foreign
        <5>1. meant = <<"pointer", <<Foreign>>>>
          BY <3>1, <3>2, <3>3, <4>1
        <5> QED BY <5>1 DEF Right
      <4>2. CASE args[1] # Foreign
        BY <3>3, <4>2 DEF Right, PushUserData
      <4> QED BY <4>1, <4>2
    <3> HIDE DEF name, meant
    <3>5. CASE name = "float"
      <4>1. ToRunner("ofx_lua_do_function_sf", <<Of("string", name), Of("float", args[1])>>, meant)
        BY <2>1, <3>1, <3>5 DEF DoFunction
      <4> QED BY <3>4, <4>1, AtomMessages, ToRunnerStep
    <3>6. CASE name = "symbol"
      <4>1. ToRunner("ofx_lua_do_function_ss", <<Of("string", name), Of("string", args[1])>>, meant)
        BY <2>1, <3>1, <3>6 DEF DoFunction
      <4> QED BY <3>4, <4>1, AtomMessages, ToRunnerStep
    <3>7. CASE name = "pointer"
      <4>1. ToRunner("ofx_lua_do_function_sp", <<Of("string", name), Of("intptr_t", args[1])>>, meant)
        BY <2>1, <3>1, <3>7 DEF DoFunction
      <4> QED BY <3>4, <4>1, AtomMessages, ToRunnerStep
    <3> QED BY <3>2, <3>5, <3>6, <3>7
  <2>5. CASE args # <<>> /\ Len(args) # 1
    <3>1. name = "list"
      BY <2>5 DEF Selector
    <3> HIDE DEF name
    <3>2. ToRunner("ofx_lua_do_function_sa", <<Of("string", name), Of("atoms", args)>>, meant)
      BY <2>1, <3>1 DEF DoFunction
    <3>3. Right(meant, <<name, args>>)
      BY DEF Right
    <3> QED BY <3>2, <3>3, ListMessage, ToRunnerStep
  <2> QED BY <2>3, <2>4, <2>5
<1> QED BY <1>1, <1>2

\* anythingMethod: the arguments are the values of the variable.
LEMMA AnythingMethodStep ==
    ASSUME ObjectInv, NEW args, AnythingMethod(args)
    PROVE  ObjectInv'
<1> DEFINE fields == <<Of("string", "variable"), Of("atoms", args)>>
           meant == <<"variable", args>>
<1>1. ToRunner("ofx_lua_set_var_by_args", fields, meant)
  BY DEF AnythingMethod
<1>2. Parse(<<"string", "atoms">>, fields) = meant
  BY ParseTwo DEF Of, Agree
<1>3. Kinds["ofx_lua_set_var_by_args"] = <<"string", "atoms">>
  BY DEF Kinds
<1>4. RunnerRight([type |-> "ofx_lua_set_var_by_args", fields |-> fields, meant |-> meant])
  BY <1>2, <1>3 DEF RunnerRight, Right, CallTypes
<1> QED BY <1>1, <1>4, ToRunnerStep

\* Scripts, and the call of "free".
LEMMA ScriptStep ==
    ASSUME ObjectInv, SendScript \/ SendFree
    PROVE  ObjectInv'
<1>1. CASE SendScript
  <2>1. RunnerRight([type |-> "ofx_lua_do_string", fields |-> <<Of("string", "script")>>,
                     meant |-> <<"script", <<>>>>])
    BY DEF RunnerRight, CallTypes
  <2> QED BY <1>1, <2>1, ToRunnerStep DEF SendScript
<1>2. CASE SendFree
  <2>1. RunnerRight([type |-> "ofx_lua_do_free_function", fields |-> <<>>,
                     meant |-> <<"free", <<>>>>])
    BY DEF RunnerRight, CallTypes
  <2> QED BY <1>2, <2>1, ToRunnerStep DEF SendFree
<1> QED BY <1>1, <1>2

\* A block of samples; of more outlets than rings, the host breaks.
LEMMA PerformStep ==
    ASSUME ObjectInv, Perform
    PROVE  ObjectInv'
<1> DEFINE fields == <<Of("blocks", io.ins), Of("int", io.outs)>>
<1>1. CASE ToRunner("ofx_lua_audio_block", fields, <<"perform", <<>>>>)
  <2>1. Parse(<<"blocks", "int">>, fields)[2] = io.outs
    BY ParseTwo DEF Of, Agree
  <2>2. RunnerRight([type |-> "ofx_lua_audio_block", fields |-> fields,
                     meant |-> <<"perform", <<>>>>])
    BY <2>1 DEF RunnerRight, CallTypes
  <2> QED BY <1>1, <2>2, ToRunnerStep
<1>2. CASE /\ Breaks /\ Quiet
           /\ UNCHANGED <<io, types, passive, given, toRunner, toHost, chunk, depth, left>>
  <2>0. /\ TypeOK /\ InletsInv /\ RunnerQueue /\ HostQueue /\ StackBalanced
    BY DEF ObjectInv
  <2>1. TypeOK'
    BY <1>2, <2>0 DEF TypeOK, NumPassive, Breaks
  <2>2. InletsInv' /\ RunnerQueue' /\ HostQueue' /\ StackBalanced'
    BY <1>2, <2>0, InletsStay, RunnerQueueStays, HostQueueStays DEF StackBalanced
  <2> QED BY <1>2, <2>1, <2>2, QuietIsRight DEF ObjectInv
<1> QED BY <1>1, <1>2 DEF Perform

\* A value of the inlet's type, for the inlet and as what it was given.
LEMMA CordStep ==
    ASSUME ObjectInv, CordSetsInlet
    PROVE  ObjectInv'
<1>0. /\ TypeOK /\ InletsInv /\ RunnerQueue /\ HostQueue /\ StackBalanced
  BY DEF ObjectInv
<1>1. PICK i \in DOMAIN passive, a \in PassiveAtoms :
          /\ a.t = AtomSelector(passive[i])
          /\ passive' = [passive EXCEPT ![i] = a]
          /\ given' = [given EXCEPT ![i] = a]
          /\ Fine
          /\ Quiet
          /\ UNCHANGED <<io, types, toRunner, toHost, chunk, depth, left>>
  BY DEF CordSetsInlet
<1>2. a \in InletValues /\ AtomSelector(a) = a.t
  <2>1. a \in Atoms /\ a.t # "pointer"
    BY DEF PassiveAtoms
  <2> QED BY <2>1, AtomTypes DEF InletValues, AtomSelector
<1>3. /\ passive \in Seq(InletValues) /\ Len(passive) = NumPassive
      /\ \A j \in DOMAIN passive : AtomSelector(passive[j]) = types[j]
      /\ given \in Seq(InletValues) /\ Len(given) = NumPassive
      /\ DOMAIN passive = 1..NumPassive
  BY <1>0, LenProperties DEF TypeOK, InletsInv, InletValues
<1>4. /\ passive' \in Seq(InletValues) /\ Len(passive') = NumPassive
      /\ given' \in Seq(InletValues) /\ Len(given') = NumPassive
      /\ \A j \in 1..NumPassive : /\ passive'[j] = IF j = i THEN a ELSE passive[j]
                                  /\ given'[j] = IF j = i THEN a ELSE given[j]
  BY <1>1, <1>2, <1>3, ExceptSeq
<1>5. DOMAIN passive' = 1..NumPassive /\ NumPassive' = NumPassive
  <2>1. NumPassive' = NumPassive
    BY <1>1 DEF NumPassive
  <2> QED BY <1>4, <2>1, LenProperties
<1>6. \A j \in 1..NumPassive : /\ AtomSelector(passive'[j]) = types[j]
                               /\ AtomSelector(given'[j]) = types[j]
                               /\ passive'[j] \in {given'[j], Stray}
  BY <1>0, <1>1, <1>2, <1>3, <1>4 DEF InletsInv
<1>7. TypeOK'
  BY <1>0, <1>1, <1>4, <1>5, <1>6 DEF TypeOK, Fine, InletValues
<1>8. InletsInv'
  BY <1>1, <1>4, <1>5, <1>6 DEF InletsInv
<1>9. RunnerQueue' /\ HostQueue' /\ StackBalanced'
  BY <1>0, <1>1, RunnerQueueStays, HostQueueStays DEF StackBalanced
<1> QED BY <1>1, <1>7, <1>8, <1>9, QuietIsRight DEF ObjectInv

\* The host's methods.
LEMMA MethodsStep == ObjectInv /\ Methods => ObjectInv'
BY ListMethodStep, AnythingMethodStep, ScriptStep, CordStep, PerformStep DEF Methods

-----------------------------------------------------------------------------
(* Messages to the host *)

\* Two intervals from 1 are equal only if they end at the same number.
LEMMA SameLength ==
    ASSUME NEW m \in Nat, NEW n \in Nat, 1..m = 1..n
    PROVE  m = n
<1>1. \A x : x \in 1..m <=> x \in 1..n
  OBVIOUS
<1>2. m \in 1..m <=> m \in 1..n
  BY <1>1
<1>3. n \in 1..m <=> n \in 1..n
  BY <1>1
<1> QED BY <1>2, <1>3

\* What is left of a symbol is of the types of the inlets.
LEMMA CutTypes ==
    ASSUME NEW s \in Symbols
    PROVE  Cut(s) \in InletValues /\ AtomSelector(Cut(s)) = "symbol"
<1>1. CASE s = Empty
  BY <1>1, EmptyAssumption DEF Cut, Symbol, AtomSelector, InletValues
<1>2. CASE s # Empty
  BY <1>2 DEF Cut, AtomSelector, InletValues
<1> QED BY <1>1, <1>2

\* One atom of the host's.
LEMMA HostAtom ==
    ASSUME NEW a \in Atoms, NEW h, h = IF a.t = "symbol" THEN Cut(a.v) ELSE a
    PROVE  /\ AtomSelector(h) = a.t
           /\ a.t # "pointer" => h \in InletValues
           /\ h \in Atoms \cup InletValues
<1>1. CASE a.t = "symbol"
  BY <1>1, AtomTypes, CutTypes
<1>2. CASE a.t # "symbol"
  BY <1>2, AtomTypes DEF AtomSelector, InletValues
<1> QED BY <1>1, <1>2

\* The host's atoms, one for each, of the same type.
LEMMA HostAtomsTypes ==
    ASSUME NEW atoms \in Seq(Atoms)
    PROVE  /\ HostAtoms(atoms) \in Seq(Atoms \cup InletValues)
           /\ Len(HostAtoms(atoms)) = Len(atoms)
           /\ DOMAIN HostAtoms(atoms) = 1..Len(atoms)
           /\ \A i \in 1..Len(atoms) :
                 /\ HostAtoms(atoms)[i] = IF atoms[i].t = "symbol" THEN Cut(atoms[i].v) ELSE atoms[i]
                 /\ AtomSelector(HostAtoms(atoms)[i]) = atoms[i].t
                 /\ atoms[i].t # "pointer" => HostAtoms(atoms)[i] \in InletValues
<1> DEFINE h == HostAtoms(atoms)
<1>1. Len(atoms) \in Nat /\ DOMAIN atoms = 1..Len(atoms) /\ \A i \in 1..Len(atoms) : atoms[i] \in Atoms
  BY LenProperties, ElementOfSeq
<1>2. h = [i \in 1..Len(atoms) |-> IF atoms[i].t = "symbol" THEN Cut(atoms[i].v) ELSE atoms[i]]
  BY <1>1 DEF HostAtoms
<1> HIDE DEF h
<1>3. ASSUME NEW i \in 1..Len(atoms)
      PROVE  /\ h[i] = IF atoms[i].t = "symbol" THEN Cut(atoms[i].v) ELSE atoms[i]
             /\ AtomSelector(h[i]) = atoms[i].t
             /\ atoms[i].t # "pointer" => h[i] \in InletValues
             /\ h[i] \in Atoms \cup InletValues
  <2>1. h[i] = IF atoms[i].t = "symbol" THEN Cut(atoms[i].v) ELSE atoms[i]
    BY <1>2
  <2>2. atoms[i] \in Atoms
    BY <1>1
  <2> QED BY <2>1, <2>2, HostAtom
<1>4. DOMAIN h = 1..Len(atoms)
  BY <1>2
<1> DEFINE S == Atoms \cup InletValues
<1>5. \A i \in 1..Len(atoms) : h[i] \in S
  BY <1>3
<1> HIDE DEF S
<1>6. h \in [1..Len(atoms) -> S]
  BY <1>2, <1>4, <1>5
<1>7. h \in Seq(S) /\ Len(h) = Len(atoms)
  <2>1. h \in Seq(S)
    BY <1>1, <1>6, SeqDef
  <2>2. Len(h) \in Nat /\ DOMAIN h = 1..Len(h)
    BY <2>1, LenProperties
  <2>3. 1..Len(h) = 1..Len(atoms)
    BY <1>4, <2>2
  <2>4. Len(h) = Len(atoms)
    BY <1>1, <2>2, <2>3, SameLength
  <2> QED BY <2>1, <2>4
<1> QED BY <1>3, <1>4, <1>7 DEF h, S

\* What is left of a call with a list.
LEMMA BluntList ==
    ASSUME NEW by, by = "table" \/ by = "outletList", NEW outlet, NEW selector, NEW args
    PROVE  Blunt(by, Out(outlet, selector, args)) = Out(outlet, selector, HostAtoms(args))
<1> DEFINE r == Out(outlet, selector, args)
<1>1. r.args = args
  BY DEF Out
<1>2. Blunt(by, r) = [r EXCEPT !.args = HostAtoms(r.args)]
  <2> HIDE DEF r
  <2> QED BY Zenon DEF Blunt
<1>3. [r EXCEPT !.args = HostAtoms(args)] = Out(outlet, selector, HostAtoms(args))
  BY DEF Out
<1> QED BY <1>1, <1>2, <1>3

\* An outletAnything's values, of which the selector is whole.
LEMMA BluntAnything ==
    ASSUME NEW outlet, NEW selector, NEW args
    PROVE  Blunt("outletAnything", Out(outlet, selector, args)) =
              Out(outlet, selector, <<Head(args)>> \o HostAtoms(Tail(args)))
<1> DEFINE r == Out(outlet, selector, args)
<1>1. r.args = args
  BY DEF Out
<1>2. Blunt("outletAnything", r) = [r EXCEPT !.args = <<Head(r.args)>> \o HostAtoms(Tail(r.args))]
  <2> HIDE DEF r
  <2> QED BY Zenon DEF Blunt
<1> DEFINE blunt == <<Head(args)>> \o HostAtoms(Tail(args))
<1>3. [r EXCEPT !.args = blunt] = Out(outlet, selector, blunt)
  <2> HIDE DEF blunt
  <2> QED BY DEF Out
<1> QED BY <1>1, <1>2, <1>3

\* Other calls lose nothing.
LEMMA BluntOther ==
    ASSUME NEW by, by \notin {"table", "outletList", "outletAnything"}, NEW out
    PROVE  Blunt(by, out) = out
BY Zenon DEF Blunt

\* A sequence given by a function has its length.
LEMMA FunctionLen ==
    ASSUME NEW n \in Nat, NEW s, DOMAIN s = 1..n, s = [i \in 1..n |-> s[i]]
    PROVE  Len(s) = n
<1> DEFINE T == {s[i] : i \in 1..n}
<1>1. s \in [1..n -> T]
  BY Zenon
<1> HIDE DEF T
<1>2. s \in Seq(T)
  BY <1>1, SeqDef
<1>3. Len(s) \in Nat /\ DOMAIN s = 1..Len(s)
  BY <1>2, LenProperties
<1> QED BY <1>3, SameLength

\* How many outlets a list is spread over.
Wide(atoms) == IF io.outs >= Len(atoms) THEN Len(atoms) ELSE io.outs

\* The lesser of two numbers is their Min.
LEMMA LesserIsMin ==
    ASSUME NEW a \in Nat, NEW b \in Nat
    PROVE  LET n == IF a >= b THEN b ELSE a
           IN  n \in Nat /\ n <= b /\ Min({a, b}) = n
<1> DEFINE n == IF a >= b THEN b ELSE a
<1>1. n \in Nat /\ n <= b /\ n <= a /\ n \in {a, b}
  OBVIOUS
<1> HIDE DEF n
<1>2. \A x \in {a, b} : (\A y \in {a, b} : x <= y) => x = n
  BY <1>1
<1>3. \A y \in {a, b} : n <= y
  BY <1>1
<1>4. Min({a, b}) = n
  BY <1>1, <1>2, <1>3 DEF Min
<1> QED BY <1>1, <1>4 DEF n

\* Places counted from the right are places in the list.
LEMMA Places ==
    ASSUME NEW n \in Nat, NEW l \in Nat, n <= l, NEW k \in 1..n
    PROVE  /\ (n - 1) - k + 1 = n - k /\ ((n - 1) - k + 1) + 1 = n - k + 1
           /\ n - k + 1 \in 1..l
OBVIOUS

\* One of the host's atoms, taken out of its list.
LEMMA HostAtomAlone ==
    ASSUME NEW a
    PROVE  HostAtoms(<<a>>) = <<IF a.t = "symbol" THEN Cut(a.v) ELSE a>>
<1> DEFINE h == IF a.t = "symbol" THEN Cut(a.v) ELSE a
<1>1. HostAtoms(<<a>>) = [i \in {1} |-> h]
  BY DEF HostAtoms
<1> HIDE DEF h
<1>2. [i \in {1} |-> h] = <<h>>
  OBVIOUS
<1> QED BY <1>1, <1>2 DEF h

\* How many outlets a list is spread over, in the words of Spread.
LEMMA WideIsMin ==
    ASSUME io.outs \in Nat, NEW atoms, Len(atoms) \in Nat
    PROVE  /\ Wide(atoms) \in Nat /\ Wide(atoms) <= Len(atoms)
           /\ Min({io.outs, Len(atoms)}) = Wide(atoms)
BY LesserIsMin DEF Wide

\* Spread, place by place.
LEMMA SpreadIs ==
    ASSUME io.outs \in Nat, NEW atoms, Len(atoms) \in Nat
    PROVE  Spread(atoms) = [k \in 1..Wide(atoms) |-> Out(Wide(atoms) - k, atoms[Wide(atoms) - k + 1].t,
                                                   <<atoms[Wide(atoms) - k + 1]>>)]
<1> DEFINE n == Wide(atoms)
           s == [i \in 1..n |-> Out(i - 1, atoms[i].t, <<atoms[i]>>)]
<1>1. n \in Nat
  BY WideIsMin
<1>2. Spread(atoms) = Reverse(s)
  BY WideIsMin, Zenon DEF Spread
<1> HIDE DEF n
<1>3. DOMAIN s = 1..n /\ \A i \in 1..n : s[i] = Out(i - 1, atoms[i].t, <<atoms[i]>>)
  OBVIOUS
<1>4. Len(s) = n
  BY <1>1, FunctionLen
<1> HIDE DEF s
<1>5. Reverse(s) = [k \in 1..n |-> s[(n - k) + 1]]
  BY <1>4 DEF Reverse
<1>6. ASSUME NEW k \in 1..n
      PROVE  s[(n - k) + 1] = Out(n - k, atoms[n - k + 1].t, <<atoms[n - k + 1]>>)
  <2> DEFINE j == (n - k) + 1
  <2>1. j \in 1..n /\ j - 1 = n - k
    BY <1>1
  <2> HIDE DEF j
  <2>2. s[j] = Out(j - 1, atoms[j].t, <<atoms[j]>>)
    BY <1>3, <2>1
  <2>3. s[j] = Out(n - k, atoms[j].t, <<atoms[j]>>)
    BY <2>1, <2>2
  <2> QED BY <2>3 DEF j
<1>7. [k \in 1..n |-> s[(n - k) + 1]] =
         [k \in 1..n |-> Out(n - k, atoms[n - k + 1].t, <<atoms[n - k + 1]>>)]
  BY <1>6
<1> QED BY <1>2, <1>5, <1>7, Zenon DEF n

\* Spreading a list over the outlets is what is meant by it, but for what the
\* host does to symbols.
LEMMA DistributeIsRight ==
    ASSUME io.outs \in Nat, NEW atoms \in Seq(Atoms)
    PROVE  Distribute(HostAtoms(atoms)) = [k \in DOMAIN Spread(atoms) |-> Blunt("table", Spread(atoms)[k])]
<1> DEFINE n == Wide(atoms)
           h == HostAtoms(atoms)
           j(k) == n - k + 1
<1>1. /\ Len(atoms) \in Nat /\ Len(h) = Len(atoms)
      /\ \A i \in 1..Len(atoms) : /\ h[i] = IF atoms[i].t = "symbol" THEN Cut(atoms[i].v) ELSE atoms[i]
                               /\ AtomSelector(h[i]) = atoms[i].t
  BY HostAtomsTypes, LenProperties
<1>2. n \in Nat /\ n <= Len(atoms)
  BY <1>1, WideIsMin
<1>3. Spread(atoms) = [k \in 1..n |-> Out(n - k, atoms[n - k + 1].t, <<atoms[n - k + 1]>>)]
  BY <1>1, SpreadIs
<1> HIDE DEF h
<1>4. Distribute(h) = [k \in 1 .. (n - 1) + 1 |->
                          Out((n - 1) - k + 1, AtomSelector(h[((n - 1) - k + 1) + 1]),
                              <<h[((n - 1) - k + 1) + 1]>>)]
  BY <1>1, Zenon DEF Distribute, Wide
<1> HIDE DEF n
<1>5. 1 .. (n - 1) + 1 = 1..n
  BY <1>2
<1>6. ASSUME NEW k \in 1..n
      PROVE  Out((n - 1) - k + 1, AtomSelector(h[((n - 1) - k + 1) + 1]),
                 <<h[((n - 1) - k + 1) + 1]>>)
                = Blunt("table", Out(n - k, atoms[n - k + 1].t, <<atoms[n - k + 1]>>))
  <2>1. /\ (n - 1) - k + 1 = n - k /\ ((n - 1) - k + 1) + 1 = n - k + 1
        /\ n - k + 1 \in 1..Len(atoms)
    BY <1>1, <1>2, Places
  <2> DEFINE i == n - k + 1
  <2> HIDE DEF i
  <2>2. i \in 1..Len(atoms)
    BY <2>1 DEF i
  <2>3. HostAtoms(<<atoms[i]>>) = <<h[i]>>
    BY <1>1, <2>2, HostAtomAlone
  <2>4. atoms[i].t = AtomSelector(h[i])
    BY <1>1, <2>2
  <2>5. Blunt("table", Out(n - k, atoms[i].t, <<atoms[i]>>)) = Out(n - k, atoms[i].t, <<h[i]>>)
    <3>2. Blunt("table", Out(n - k, atoms[i].t, <<atoms[i]>>))
             = Out(n - k, atoms[i].t, HostAtoms(<<atoms[i]>>))
      BY BluntList
    <3> QED BY <2>3, <3>2
  <2> QED BY <2>1, <2>4, <2>5 DEF i
<1>7. Distribute(h) = [k \in 1..n |-> Blunt("table", Out(n - k, atoms[n - k + 1].t,
                                                         <<atoms[n - k + 1]>>))]
  BY <1>4, <1>5, <1>6
<1> QED BY <1>3, <1>7 DEF h

-----------------------------------------------------------------------------
(* What each message of the object is to bring about *)

\* A message of one type does what its handler does.
LEMMA RightIfHandled ==
    ASSUME NEW m, NEW v, v = Parse(HostKinds[m.type], m.fields)
    PROVE  /\ m.type = "pd_outlet_bang" /\ Arrives(m, Outlet(v[1], "bang", <<>>)) => HostRight(m)
           /\ m.type = "pd_outlet_float" /\ Arrives(m, Outlet(v[1], "float", <<v[2]>>)) => HostRight(m)
           /\ m.type = "pd_outlet_symbol" /\ Arrives(m, Outlet(v[1], "symbol", <<v[2]>>)) => HostRight(m)
           /\ m.type = "pd_outlet_pointer" /\ Arrives(m, Outlet(v[1], "pointer", <<v[2]>>)) => HostRight(m)
           /\ m.type = "pd_outlet_anything"
                 /\ Arrives(m, Outlet(v[1], "anything", <<v[2]>> \o HostAtoms(v[3]))) => HostRight(m)
           /\ m.type = "pd_outlet_list" /\ ListRight(m, v) => HostRight(m)
           /\ m.type = "pd_audio_block" /\ Arrives(m, Signals(v[1])) => HostRight(m)
           /\ m.type = "pd_send_bang" /\ Arrives(m, ToReceiver("bang", <<>>)) => HostRight(m)
           /\ m.type = "pd_send_float" /\ Arrives(m, ToReceiver("float", <<v[2]>>)) => HostRight(m)
           /\ m.type = "pd_send_symbol" /\ Arrives(m, ToReceiver("symbol", <<v[2]>>)) => HostRight(m)
           /\ m.type \in {"pd_send_pointer", "pd_send_list", "pd_send_anything"}
                 /\ m.by \in Broken => HostRight(m)
           /\ m.type \in {"pd_inlet_set_float", "pd_inlet_set_symbol"}
                 /\ v[1] \in Int /\ v[2] \in Atoms => HostRight(m)
           /\ m.type = "pd_inlet_set_inlets" /\ v[1] \in Seq(Atoms) => HostRight(m)
           /\ m.type \in {"canvas_get_index", "canvas_get_position", "canvas_set_position"}
                 /\ v[1] \in Int => HostRight(m)
<1>1. HostRight(m) <=> OutletRight(m, v) /\ ListRight(m, v) /\ SendRight(m, v) /\ InletRight(m, v)
  BY DEF HostRight
<1>2. m.type \notin {"pd_outlet_bang", "pd_outlet_float", "pd_outlet_symbol", "pd_outlet_pointer",
                     "pd_outlet_anything"} => OutletRight(m, v)
  BY DEF OutletRight
<1>3. m.type # "pd_outlet_list" => ListRight(m, v)
  BY DEF ListRight
<1>4. m.type \notin {"pd_audio_block", "pd_send_bang", "pd_send_float", "pd_send_symbol",
                     "pd_send_pointer", "pd_send_list", "pd_send_anything"} => SendRight(m, v)
  BY DEF SendRight
<1>5. m.type \notin {"pd_inlet_set_float", "pd_inlet_set_symbol", "pd_inlet_set_inlets",
                     "canvas_get_index", "canvas_get_position", "canvas_set_position"}
         => InletRight(m, v)
  BY DEF InletRight
<1>6. /\ m.type = "pd_outlet_bang" /\ Arrives(m, Outlet(v[1], "bang", <<>>)) => OutletRight(m, v)
      /\ m.type = "pd_outlet_float" /\ Arrives(m, Outlet(v[1], "float", <<v[2]>>)) => OutletRight(m, v)
      /\ m.type = "pd_outlet_symbol" /\ Arrives(m, Outlet(v[1], "symbol", <<v[2]>>)) => OutletRight(m, v)
      /\ m.type = "pd_outlet_pointer" /\ Arrives(m, Outlet(v[1], "pointer", <<v[2]>>)) => OutletRight(m, v)
      /\ m.type = "pd_outlet_anything"
                 /\ Arrives(m, Outlet(v[1], "anything", <<v[2]>> \o HostAtoms(v[3]))) => OutletRight(m, v)
  BY DEF OutletRight
<1>7. /\ m.type = "pd_audio_block" /\ Arrives(m, Signals(v[1])) => SendRight(m, v)
      /\ m.type = "pd_send_bang" /\ Arrives(m, ToReceiver("bang", <<>>)) => SendRight(m, v)
      /\ m.type = "pd_send_float" /\ Arrives(m, ToReceiver("float", <<v[2]>>)) => SendRight(m, v)
      /\ m.type = "pd_send_symbol" /\ Arrives(m, ToReceiver("symbol", <<v[2]>>)) => SendRight(m, v)
      /\ m.type \in {"pd_send_pointer", "pd_send_list", "pd_send_anything"}
                 /\ m.by \in Broken => SendRight(m, v)
  BY DEF SendRight
<1>8. /\ m.type \in {"pd_inlet_set_float", "pd_inlet_set_symbol"}
                 /\ v[1] \in Int /\ v[2] \in Atoms => InletRight(m, v)
      /\ m.type = "pd_inlet_set_inlets" /\ v[1] \in Seq(Atoms) => InletRight(m, v)
      /\ m.type \in {"canvas_get_index", "canvas_get_position", "canvas_set_position"}
                 /\ v[1] \in Int => InletRight(m, v)
  BY DEF InletRight
<1> QED BY <1>1, <1>2, <1>3, <1>4, <1>5, <1>6, <1>7, <1>8

\* Sequences given by their elements.
LEMMA SameAgain ==
    ASSUME NEW a
    PROVE  /\ <<a>> = [k \in DOMAIN <<a>> |-> <<a>>[k]]
           /\ <<>> = [k \in DOMAIN <<>> |-> <<>>[k]]
OBVIOUS

\* A message that is to do what it is read as.
LEMMA PlainArrives ==
    ASSUME NEW m, m.by \notin {"table", "outletList", "outletAnything"},
           m.meant = [k \in DOMAIN m.meant |-> m.meant[k]]
    PROVE  Arrives(m, m.meant)
<1>1. m.meant = [k \in DOMAIN m.meant |-> Blunt(m.by, m.meant[k])]
  BY BluntOther
<1> QED BY <1>1 DEF Arrives

\* Where there is a control outlet, the handlers call what is meant.
LEMMA MeantOutlet ==
    ASSUME io.outs \in Nat, NEW index \in Nat, NEW selector, NEW args
    PROVE  /\ Outlet(index, selector, args) = MeantOut(index, selector, args)
           /\ MeantOut(index, selector, args) =
                 [k \in DOMAIN MeantOut(index, selector, args) |-> MeantOut(index, selector, args)[k]]
<1>1. Outlet(index, selector, args) = MeantOut(index, selector, args)
  BY DEF Outlet, MeantOut
<1>2. MeantOut(index, selector, args) \in {<<>>, <<Out(index, selector, args)>>}
  BY DEF MeantOut
<1> QED BY <1>1, <1>2, SameAgain

\* Who sends no list.
Plain(by) == by \notin {"table", "outletList", "outletAnything"}

\* The fields of a message.
LEMMA PostFields ==
    ASSUME NEW type, NEW fields, NEW meant, NEW by
    PROVE  LET m == Post(type, fields, meant, by)
           IN  m.type = type /\ m.fields = fields /\ m.meant = meant /\ m.by = by
BY DEF Post

\* What plain calls of outlets and sends are to do, they do.
LEMMA OutletArrives ==
    ASSUME io.outs \in Nat, NEW m, Plain(m.by), NEW index \in Nat, NEW selector, NEW args,
           m.meant = MeantOut(index, selector, args)
    PROVE  Arrives(m, Outlet(index, selector, args))
<1>1. m.meant = [k \in DOMAIN m.meant |-> m.meant[k]]
  BY MeantOutlet
<1>2. Arrives(m, m.meant)
  BY <1>1, PlainArrives DEF Plain
<1> QED BY <1>2, MeantOutlet

\* A message for a receiver, sent by a binding that sends no list.
LEMMA SendArrives ==
    ASSUME NEW m, Plain(m.by), NEW selector, NEW args, m.meant = ToReceiver(selector, args)
    PROVE  Arrives(m, ToReceiver(selector, args))
<1>1. m.meant = [k \in DOMAIN m.meant |-> m.meant[k]]
  BY SameAgain DEF ToReceiver
<1> QED BY <1>1, PlainArrives DEF Plain

\* The calls of outlets with one value or none.
LEMMA OutletBang ==
    ASSUME io.outs \in Nat, NEW index \in Nat, NEW by, Plain(by)
    PROVE  HostRight(Post("pd_outlet_bang", <<Of("int", index)>>,
                          MeantOut(index, "bang", <<>>), by))
<1> DEFINE m == Post("pd_outlet_bang", <<Of("int", index)>>, MeantOut(index, "bang", <<>>), by)
           v == Parse(HostKinds[m.type], m.fields)
<1>1. /\ m.type = "pd_outlet_bang" /\ m.fields = <<Of("int", index)>>
      /\ m.meant = MeantOut(index, "bang", <<>>) /\ m.by = by
  BY PostFields
<1> HIDE DEF m
<1>2. v = <<index>>
  BY <1>1, ParseOne DEF HostKinds, Of, Agree
<1> HIDE DEF v
<1>3. Arrives(m, Outlet(v[1], "bang", <<>>))
  BY <1>1, <1>2, OutletArrives
<1>4. HostRight(m)
  BY <1>1, <1>3, RightIfHandled DEF v
<1> QED BY <1>4 DEF m

\* A float for an outlet.
LEMMA OutletFloat ==
    ASSUME io.outs \in Nat, NEW index \in Nat, NEW by, Plain(by), NEW a
    PROVE  HostRight(Post("pd_outlet_float", <<Of("int", index), Of("float", a)>>,
                          MeantOut(index, "float", <<a>>), by))
<1> DEFINE m == Post("pd_outlet_float", <<Of("int", index), Of("float", a)>>, MeantOut(index, "float", <<a>>), by)
           v == Parse(HostKinds[m.type], m.fields)
<1>1. /\ m.type = "pd_outlet_float" /\ m.fields = <<Of("int", index), Of("float", a)>>
      /\ m.meant = MeantOut(index, "float", <<a>>) /\ m.by = by
  BY PostFields
<1> HIDE DEF m
<1>2. v = <<index, a>>
  BY <1>1, ParseTwo DEF HostKinds, Of, Agree
<1> HIDE DEF v
<1>3. Arrives(m, Outlet(v[1], "float", <<v[2]>>))
  BY <1>1, <1>2, OutletArrives
<1>4. HostRight(m)
  BY <1>1, <1>3, RightIfHandled DEF v
<1> QED BY <1>4 DEF m

\* A symbol for an outlet.
LEMMA OutletSymbol ==
    ASSUME io.outs \in Nat, NEW index \in Nat, NEW by, Plain(by), NEW a
    PROVE  HostRight(Post("pd_outlet_symbol", <<Of("int", index), Of("string", a)>>,
                          MeantOut(index, "symbol", <<a>>), by))
<1> DEFINE m == Post("pd_outlet_symbol", <<Of("int", index), Of("string", a)>>, MeantOut(index, "symbol", <<a>>), by)
           v == Parse(HostKinds[m.type], m.fields)
<1>1. /\ m.type = "pd_outlet_symbol" /\ m.fields = <<Of("int", index), Of("string", a)>>
      /\ m.meant = MeantOut(index, "symbol", <<a>>) /\ m.by = by
  BY PostFields
<1> HIDE DEF m
<1>2. v = <<index, a>>
  BY <1>1, ParseTwo DEF HostKinds, Of, Agree
<1> HIDE DEF v
<1>3. Arrives(m, Outlet(v[1], "symbol", <<v[2]>>))
  BY <1>1, <1>2, OutletArrives
<1>4. HostRight(m)
  BY <1>1, <1>3, RightIfHandled DEF v
<1> QED BY <1>4 DEF m

\* A pointer for an outlet: written as an int and read as an intptr_t.
LEMMA OutletPointer ==
    ASSUME io.outs \in Nat, NEW index \in Nat, NEW by, Plain(by), NEW a
    PROVE  HostRight(Post("pd_outlet_pointer", <<Of("int", index), Of("int", a)>>,
                          MeantOut(index, "pointer", <<a>>), by))
<1> DEFINE m == Post("pd_outlet_pointer", <<Of("int", index), Of("int", a)>>, MeantOut(index, "pointer", <<a>>), by)
           v == Parse(HostKinds[m.type], m.fields)
<1>1. /\ m.type = "pd_outlet_pointer" /\ m.fields = <<Of("int", index), Of("int", a)>>
      /\ m.meant = MeantOut(index, "pointer", <<a>>) /\ m.by = by
  BY PostFields
<1> HIDE DEF m
<1>2. v = <<index, a>>
  BY <1>1, ParseTwo DEF HostKinds, Of, Agree
<1> HIDE DEF v
<1>3. Arrives(m, Outlet(v[1], "pointer", <<v[2]>>))
  BY <1>1, <1>2, OutletArrives
<1>4. HostRight(m)
  BY <1>1, <1>3, RightIfHandled DEF v
<1> QED BY <1>4 DEF m

\* Messages to receivers.
LEMMA SendBang ==
    ASSUME NEW by, Plain(by)
    PROVE  HostRight(Post("pd_send_bang", <<Of("string", "receiver")>>,
                          ToReceiver("bang", <<>>), by))
<1> DEFINE m == Post("pd_send_bang", <<Of("string", "receiver")>>, ToReceiver("bang", <<>>), by)
           v == Parse(HostKinds[m.type], m.fields)
<1>1. /\ m.type = "pd_send_bang" /\ m.fields = <<Of("string", "receiver")>>
      /\ m.meant = ToReceiver("bang", <<>>) /\ m.by = by
  BY PostFields
<1> HIDE DEF m
<1>2. v = <<"receiver">>
  BY <1>1, ParseOne DEF HostKinds, Of, Agree
<1> HIDE DEF v
<1>3. Arrives(m, ToReceiver("bang", <<>>))
  BY <1>1, <1>2, SendArrives
<1>4. HostRight(m)
  BY <1>1, <1>3, RightIfHandled DEF v
<1> QED BY <1>4 DEF m

\* A float for a receiver.
LEMMA SendFloat ==
    ASSUME NEW by, Plain(by), NEW a
    PROVE  HostRight(Post("pd_send_float", <<Of("string", "receiver"), Of("float", a)>>,
                          ToReceiver("float", <<a>>), by))
<1> DEFINE m == Post("pd_send_float", <<Of("string", "receiver"), Of("float", a)>>, ToReceiver("float", <<a>>), by)
           v == Parse(HostKinds[m.type], m.fields)
<1>1. /\ m.type = "pd_send_float" /\ m.fields = <<Of("string", "receiver"), Of("float", a)>>
      /\ m.meant = ToReceiver("float", <<a>>) /\ m.by = by
  BY PostFields
<1> HIDE DEF m
<1>2. v = <<"receiver", a>>
  BY <1>1, ParseTwo DEF HostKinds, Of, Agree
<1> HIDE DEF v
<1>3. Arrives(m, ToReceiver("float", <<v[2]>>))
  BY <1>1, <1>2, SendArrives
<1>4. HostRight(m)
  BY <1>1, <1>3, RightIfHandled DEF v
<1> QED BY <1>4 DEF m

\* A symbol for a receiver.
LEMMA SendSymbol ==
    ASSUME NEW by, Plain(by), NEW a
    PROVE  HostRight(Post("pd_send_symbol", <<Of("string", "receiver"), Of("string", a)>>,
                          ToReceiver("symbol", <<a>>), by))
<1> DEFINE m == Post("pd_send_symbol", <<Of("string", "receiver"), Of("string", a)>>, ToReceiver("symbol", <<a>>), by)
           v == Parse(HostKinds[m.type], m.fields)
<1>1. /\ m.type = "pd_send_symbol" /\ m.fields = <<Of("string", "receiver"), Of("string", a)>>
      /\ m.meant = ToReceiver("symbol", <<a>>) /\ m.by = by
  BY PostFields
<1> HIDE DEF m
<1>2. v = <<"receiver", a>>
  BY <1>1, ParseTwo DEF HostKinds, Of, Agree
<1> HIDE DEF v
<1>3. Arrives(m, ToReceiver("symbol", <<v[2]>>))
  BY <1>1, <1>2, SendArrives
<1>4. HostRight(m)
  BY <1>1, <1>3, RightIfHandled DEF v
<1> QED BY <1>4 DEF m

\* A list out of an outlet.
LEMMA OneListIsRight ==
    ASSUME io.outs \in Nat, io.signal \in BOOLEAN, NEW index \in Nat, index < io.outs, NEW atoms,
           NEW m, m.by \in {"table", "outletList"}, m.meant = MeantOut(index, "list", atoms)
    PROVE  Arrives(m, <<Out(index, "list", HostAtoms(atoms))>>)
<1>1. CASE io.signal
  <2>1. m.meant = <<>>
    BY <1>1 DEF MeantOut, HasControlOutlet
  <2> QED BY <1>1, <2>1 DEF Arrives
<1>2. CASE ~io.signal
  <2>1. HasControlOutlet
    BY <1>2 DEF HasControlOutlet
  <2>2. m.meant = <<Out(index, "list", atoms)>>
    BY <2>1 DEF MeantOut
  <2>3. Blunt(m.by, Out(index, "list", atoms)) = Out(index, "list", HostAtoms(atoms))
    BY BluntList
  <2> DEFINE out == Out(index, "list", atoms)
  <2>4. [k \in DOMAIN <<out>> |-> Blunt(m.by, <<out>>[k])] = <<Blunt(m.by, out)>>
    <3> HIDE DEF out
    <3> QED OBVIOUS
  <2> QED BY <2>2, <2>3, <2>4 DEF Arrives
<1> QED BY <1>1, <1>2

\* The list messages, and what the host reads.
LEMMA ReadThree ==
    ASSUME NEW k, NEW l, NEW n, NEW x, NEW y, NEW z
    PROVE  Parse(<<k, l, n>>, <<Of(k, x), Of(l, y), Of(n, z)>>) = <<x, y, z>>
<1>1. /\ Agree(k, Of(k, x)) /\ Agree(l, Of(l, y)) /\ Agree(n, Of(n, z))
      /\ Of(k, x).value = x /\ Of(l, y).value = y /\ Of(n, z).value = z
  BY DEF Agree, Of
<1> DEFINE f == Of(k, x) 
           g == Of(l, y) 
           h == Of(n, z)
<1> HIDE DEF f, g, h
<1>2. Parse(<<k, l, n>>, <<f, g, h>>) = <<f.value, g.value, h.value>>
  BY <1>1, ParseThree DEF f, g, h
<1> QED BY <1>1, <1>2 DEF f, g, h

\* pd_outlet_list as the host reads it.
LEMMA ReadsList ==
    ASSUME NEW m, NEW index, NEW atoms, NEW spread \in BOOLEAN, m.type = "pd_outlet_list",
           m.fields = <<Of("int", index), Of("atoms", atoms), Of("bool", spread)>>
    PROVE  LET v == Parse(HostKinds[m.type], m.fields)
           IN  v[1] = index /\ v[2] = atoms /\ v[3] = spread
<1>1. HostKinds["pd_outlet_list"] = <<"int", "atoms", "bool">>
  BY DEF HostKinds
<1>2. Parse(<<"int", "atoms", "bool">>, <<Of("int", index), Of("atoms", atoms), Of("bool", spread)>>) = <<index, atoms, spread>>
  BY ReadThree
<1> DEFINE v == Parse(HostKinds[m.type], m.fields)
<1>3. v = <<index, atoms, spread>>
  BY <1>1, <1>2, Zenon
<1> HIDE DEF v
<1>4. v[1] = index /\ v[2] = atoms /\ v[3] = spread
  BY <1>3
<1> QED BY <1>4, Zenon DEF v

\* pd_outlet_anything as the host reads it.
LEMMA ReadsAnything ==
    ASSUME NEW m, NEW index, NEW a, NEW atoms, m.type = "pd_outlet_anything",
           m.fields = <<Of("int", index), Of("string", a), Of("atoms", atoms)>>
    PROVE  LET v == Parse(HostKinds[m.type], m.fields)
           IN  v[1] = index /\ v[2] = a /\ v[3] = atoms
<1>1. HostKinds["pd_outlet_anything"] = <<"int", "string", "atoms">>
  BY DEF HostKinds
<1>2. Parse(<<"int", "string", "atoms">>, <<Of("int", index), Of("string", a), Of("atoms", atoms)>>) = <<index, a, atoms>>
  BY ReadThree
<1> DEFINE v == Parse(HostKinds[m.type], m.fields)
<1>3. v = <<index, a, atoms>>
  BY <1>1, <1>2, Zenon
<1> HIDE DEF v
<1>4. v[1] = index /\ v[2] = a /\ v[3] = atoms
  BY <1>3
<1> QED BY <1>4, Zenon DEF v

\* Lua's list for an outlet.
LEMMA OutletList ==
    ASSUME io.outs \in Nat, io.signal \in BOOLEAN, NEW index \in Nat, NEW atoms, NEW m,
           m.type = "pd_outlet_list",
           m.fields = <<Of("int", index), Of("atoms", atoms), Of("bool", FALSE)>>,
           m.meant = MeantOut(index, "list", atoms), m.by = "outletList"
    PROVE  HostRight(m)
<1> DEFINE v == Parse(HostKinds[m.type], m.fields)
<1>1. v[1] = index /\ v[2] = atoms /\ v[3] = FALSE
  BY ReadsList
<1> HIDE DEF v
<1>2. index < io.outs => Arrives(m, <<Out(index, "list", HostAtoms(atoms))>>)
  <2> SUFFICES ASSUME index < io.outs
               PROVE  Arrives(m, <<Out(index, "list", HostAtoms(atoms))>>)
    OBVIOUS
  <2>1. m.by \in {"table", "outletList"}
    OBVIOUS
  <2> QED BY <2>1, OneListIsRight
<1>3. ListRight(m, v)
  BY <1>1, <1>2 DEF ListRight
<1> QED BY <1>3, RightIfHandled DEF v

\* A table that Lua returns: a list, or spread over the outlets.
LEMMA ReturnedTable ==
    ASSUME io.outs \in Nat, io.signal \in BOOLEAN, NEW atoms \in Seq(Atoms), NEW m,
           m.type = "pd_outlet_list",
           m.fields = <<Of("int", 0), Of("atoms", atoms), Of("bool", TRUE)>>,
           m.meant = IF HasControlOutlet /\ io.outs > 1 THEN Spread(atoms) ELSE MeantOut(0, "list", atoms),
           m.by = "table"
    PROVE  HostRight(m)
<1> DEFINE v == Parse(HostKinds[m.type], m.fields)
<1>1. v[1] = 0 /\ v[2] = atoms /\ v[3] = TRUE
  BY ReadsList
<1> HIDE DEF v
<1>2. io.outs > 1 => Arrives(m, Distribute(HostAtoms(atoms)))
  <2> SUFFICES ASSUME io.outs > 1 PROVE Arrives(m, Distribute(HostAtoms(atoms)))
    OBVIOUS
  <2>1. CASE io.signal
    <3>1. ~HasControlOutlet
      BY <2>1 DEF HasControlOutlet
    <3>2. m.meant = <<>>
      BY <3>1 DEF MeantOut
    <3> QED BY <2>1, <3>2 DEF Arrives
  <2>2. CASE ~io.signal
    <3>1. HasControlOutlet
      BY <2>2 DEF HasControlOutlet
    <3>2. m.meant = Spread(atoms)
      BY <3>1
    <3>3. Distribute(HostAtoms(atoms)) = [k \in DOMAIN m.meant |-> Blunt(m.by, m.meant[k])]
      BY <3>2, DistributeIsRight
    <3> QED BY <3>3 DEF Arrives
  <2> QED BY <2>1, <2>2
<1>3. ~(io.outs > 1) /\ 0 < io.outs => Arrives(m, <<Out(0, "list", HostAtoms(atoms))>>)
  <2> SUFFICES ASSUME ~(io.outs > 1), 0 < io.outs
               PROVE  Arrives(m, <<Out(0, "list", HostAtoms(atoms))>>)
    OBVIOUS
  <2>1. m.meant = MeantOut(0, "list", atoms) /\ 0 \in Nat /\ m.by \in {"table", "outletList"}
    OBVIOUS
  <2> QED BY <2>1, OneListIsRight
<1>4. ListRight(m, v)
  BY <1>1, <1>2, <1>3 DEF ListRight
<1> QED BY <1>4, RightIfHandled DEF v

\* Lua's message with a selector for an outlet.
LEMMA OutletAnything ==
    ASSUME io.outs \in Nat, NEW index \in Nat, NEW atoms \in Seq(Atoms), atoms # <<>>, NEW m,
           m.type = "pd_outlet_anything",
           m.fields = <<Of("int", index), Of("string", atoms[1]), Of("atoms", Tail(atoms))>>,
           m.meant = MeantOut(index, "anything", atoms), m.by = "outletAnything"
    PROVE  HostRight(m)
<1> DEFINE v == Parse(HostKinds[m.type], m.fields)
           args == <<atoms[1]>> \o HostAtoms(Tail(atoms))
           out == Out(index, "anything", atoms)
<1>2. v[1] = index /\ v[2] = atoms[1] /\ v[3] = Tail(atoms)
  BY ReadsAnything
<1> HIDE DEF v
<1>3. Blunt("outletAnything", out) = Out(index, "anything", args)
  <2>1. Head(atoms) = atoms[1]
    BY HeadTailProperties
  <2> QED BY <2>1, BluntAnything
<1>4. <<v[2]>> \o HostAtoms(v[3]) = args
  BY <1>2
<1> HIDE DEF args, out
<1>5. Arrives(m, Outlet(index, "anything", args))
  <2>1. CASE HasControlOutlet /\ io.outs > index
    <3>1. m.meant = <<out>> /\ Outlet(index, "anything", args) = <<Out(index, "anything", args)>>
      BY <2>1 DEF MeantOut, Outlet, out
    <3>2. [k \in DOMAIN <<out>> |-> Blunt("outletAnything", <<out>>[k])] = <<Blunt("outletAnything", out)>>
      OBVIOUS
    <3> QED BY <1>3, <3>1, <3>2 DEF Arrives
  <2>2. CASE ~(HasControlOutlet /\ io.outs > index)
    <3>1. m.meant = <<>> /\ Outlet(index, "anything", args) = <<>>
      BY <2>2 DEF MeantOut, Outlet
    <3>2. <<>> = [k \in DOMAIN <<>> |-> Blunt(m.by, <<>>[k])]
      OBVIOUS
    <3> QED BY <3>1, <3>2 DEF Arrives
  <2> QED BY <2>1, <2>2
<1> QED BY <1>2, <1>4, <1>5, RightIfHandled DEF v

\* The four calls whose fields are not those that the host reads.
LEMMA BrokenRight ==
    ASSUME NEW fields, NEW meant
    PROVE  /\ HostRight(Post("pd_outlet_float", fields, meant, "outletSymbol"))
           /\ HostRight(Post("pd_send_pointer", fields, meant, "sendPointer"))
           /\ HostRight(Post("pd_send_list", fields, meant, "sendList"))
           /\ HostRight(Post("pd_send_anything", fields, meant, "sendAnything"))
<1>1. ASSUME NEW m, m.by \in Broken,
             m.type \in {"pd_outlet_float", "pd_send_pointer", "pd_send_list", "pd_send_anything"}
      PROVE  HostRight(m)
  <2> DEFINE v == Parse(HostKinds[m.type], m.fields)
  <2>1. Arrives(m, Outlet(v[1], "float", <<v[2]>>))
    BY <1>1 DEF Arrives
  <2> QED BY <1>1, <2>1, RightIfHandled
<1>2. \A type, by : LET m == Post(type, fields, meant, by) IN m.type = type /\ m.by = by
  BY PostFields
<1> QED BY <1>1, <1>2 DEF Broken

\* Messages that set inlets or ask the canvas.
LEMMA ReadTwo ==
    ASSUME NEW k, NEW l, NEW x, NEW y
    PROVE  Parse(<<k, l>>, <<Of(k, x), Of(l, y)>>) = <<x, y>>
BY ParseTwo DEF Of, Agree

\* One field, read as what it was written as.
LEMMA ReadOne ==
    ASSUME NEW k, NEW x
    PROVE  Parse(<<k>>, <<Of(k, x)>>) = <<x>>
BY ParseOne DEF Of, Agree

\* A float for an inlet.
LEMMA InletFloat ==
    ASSUME NEW index \in Int, NEW a \in Atoms
    PROVE  HostRight(Post("pd_inlet_set_float", <<Of("int", index), Of("float", a)>>,
                          <<>>, "setFloatInlet"))
<1> DEFINE m == Post("pd_inlet_set_float", <<Of("int", index), Of("float", a)>>, <<>>, "setFloatInlet")
           v == Parse(HostKinds[m.type], m.fields)
<1>1. m.type = "pd_inlet_set_float" /\ m.fields = <<Of("int", index), Of("float", a)>>
  BY PostFields
<1> HIDE DEF m
<1>2. HostKinds["pd_inlet_set_float"] = <<"int", "float">>
  BY DEF HostKinds
<1>3. v = <<index, a>>
  BY <1>1, <1>2, ReadTwo
<1>4. v[1] \in Int /\ v[2] \in Atoms
  BY <1>3
<1>5. HostRight(m)
  BY <1>1, <1>4, RightIfHandled
<1> QED BY <1>5 DEF m

\* A symbol for an inlet.
LEMMA InletSymbol ==
    ASSUME NEW index \in Int, NEW a \in Atoms
    PROVE  HostRight(Post("pd_inlet_set_symbol", <<Of("int", index), Of("string", a)>>,
                          <<>>, "setSymbolInlet"))
<1> DEFINE m == Post("pd_inlet_set_symbol", <<Of("int", index), Of("string", a)>>, <<>>, "setSymbolInlet")
           v == Parse(HostKinds[m.type], m.fields)
<1>1. m.type = "pd_inlet_set_symbol" /\ m.fields = <<Of("int", index), Of("string", a)>>
  BY PostFields
<1> HIDE DEF m
<1>2. HostKinds["pd_inlet_set_symbol"] = <<"int", "string">>
  BY DEF HostKinds
<1>3. v = <<index, a>>
  BY <1>1, <1>2, ReadTwo
<1>4. v[1] \in Int /\ v[2] \in Atoms
  BY <1>3
<1>5. HostRight(m)
  BY <1>1, <1>4, RightIfHandled
<1> QED BY <1>5 DEF m

\* A list for the inlets.
LEMMA InletList ==
    ASSUME NEW atoms \in Seq(Atoms)
    PROVE  HostRight(Post("pd_inlet_set_inlets", <<Of("atoms", atoms)>>, <<>>, "setInlets"))
<1> DEFINE m == Post("pd_inlet_set_inlets", <<Of("atoms", atoms)>>, <<>>, "setInlets")
           v == Parse(HostKinds[m.type], m.fields)
<1>1. m.type = "pd_inlet_set_inlets" /\ m.fields = <<Of("atoms", atoms)>>
  BY PostFields
<1> HIDE DEF m
<1>2. HostKinds["pd_inlet_set_inlets"] = <<"atoms">>
  BY DEF HostKinds
<1>3. v = <<atoms>>
  BY <1>1, <1>2, ReadOne
<1>4. v[1] \in Seq(Atoms)
  BY <1>3
<1>5. HostRight(m)
  BY <1>1, <1>4, RightIfHandled
<1> QED BY <1>5 DEF m

\* Questions to the canvas carry its level.
LEMMA CanvasAsks ==
    ASSUME NEW parent \in Int
    PROVE  /\ HostRight(Post("canvas_get_index", <<Of("int", parent)>>, <<>>, "getIndex"))
           /\ HostRight(Post("canvas_get_position", <<Of("int", parent)>>, <<>>, "getPosition"))
<1>1. ASSUME NEW m, m.type \in {"canvas_get_index", "canvas_get_position"},
             m.fields = <<Of("int", parent)>>
      PROVE  HostRight(m)
  <2> DEFINE v == Parse(HostKinds[m.type], m.fields)
  <2>1. HostKinds[m.type] = <<"int">>
    BY <1>1 DEF HostKinds
  <2>2. v = <<parent>>
    BY <1>1, <2>1, ReadOne
  <2>3. v[1] \in Int
    BY <2>2
  <2> QED BY <1>1, <2>3, RightIfHandled
<1>2. \A type, by : LET m == Post(type, <<Of("int", parent)>>, <<>>, by)
                    IN m.type = type /\ m.fields = <<Of("int", parent)>>
  BY PostFields
<1> QED BY <1>1, <1>2

\* The message that moves the canvas carries its level too.
LEMMA CanvasMoves ==
    ASSUME NEW parent \in Int, NEW a
    PROVE  HostRight(Post("canvas_set_position", <<Of("int", parent), Of("int", a), Of("int", a)>>,
                          <<>>, "setPosition"))
<1> DEFINE m == Post("canvas_set_position", <<Of("int", parent), Of("int", a), Of("int", a)>>,
                     <<>>, "setPosition")
           v == Parse(HostKinds[m.type], m.fields)
<1>1. m.type = "canvas_set_position" /\ m.fields = <<Of("int", parent), Of("int", a), Of("int", a)>>
  BY PostFields
<1> HIDE DEF m
<1>2. HostKinds["canvas_set_position"] = <<"int", "int", "int">>
  BY DEF HostKinds
<1>3. Parse(<<"int", "int", "int">>, <<Of("int", parent), Of("int", a), Of("int", a)>>) = <<parent, a, a>>
  BY ReadThree
<1>4. v = <<parent, a, a>>
  BY <1>1, <1>2, <1>3, Zenon
<1> HIDE DEF v
<1>5. v[1] \in Int
  BY <1>4
<1>6. HostRight(m)
  BY <1>1, <1>5, RightIfHandled DEF v
<1> QED BY <1>6 DEF m

\* A block for each outlet.
LEMMA AudioBlock ==
    ASSUME NEW n, n = io.outs
    PROVE  HostRight(Post("pd_audio_block", <<Of("blocks", n)>>,
                          [i \in 1 .. io.outs |-> Out(i - 1, "signal", <<>>)], "perform"))
<1> DEFINE meant == [i \in 1 .. io.outs |-> Out(i - 1, "signal", <<>>)]
           m == Post("pd_audio_block", <<Of("blocks", n)>>, meant, "perform")
           v == Parse(HostKinds[m.type], m.fields)
<1>0. meant = Signals(io.outs) /\ meant = [k \in DOMAIN meant |-> meant[k]]
  BY DEF Signals
<1> HIDE DEF meant
<1>1. /\ m.type = "pd_audio_block" /\ m.fields = <<Of("blocks", n)>>
      /\ m.meant = meant /\ m.by = "perform"
  BY PostFields
<1> HIDE DEF m
<1>2. HostKinds["pd_audio_block"] = <<"blocks">>
  BY DEF HostKinds
<1>3. v = <<n>>
  BY <1>1, <1>2, ReadOne
<1>4. Arrives(m, Signals(v[1]))
  <2>1. Arrives(m, m.meant)
    BY <1>0, <1>1, PlainArrives
  <2> QED BY <1>0, <1>1, <1>3, <2>1
<1>5. HostRight(m)
  BY <1>1, <1>4, RightIfHandled
<1> QED BY <1>5 DEF m, meant

-----------------------------------------------------------------------------
(* Lua code that uses ofOutlet, ofSend, ofInlet or ofCanvas *)

\* A message to the host that will do what it is to.
LEMMA SendsStep ==
    ASSUME ObjectInv, NEW type, NEW fields, NEW meant, NEW by, Sends(type, fields, meant, by),
           HostRight(Post(type, fields, meant, by))
    PROVE  ObjectInv'
<1> DEFINE m == Post(type, fields, meant, by)
<1>0. /\ TypeOK /\ InletsInv /\ RunnerQueue /\ HostQueue /\ StackBalanced
  BY DEF ObjectInv
<1>1. /\ Len(toHost) < MaxMessages
      /\ UNCHANGED <<io, types, passive, given, toRunner, chunk, depth, left>>
      /\ Quiet
  BY DEF Sends
<1>2. /\ toHost' = Append(toHost, m) \/ toHost' = toHost
      /\ fate' \in {"fine", "undefined"}
  <2>1. CASE Writable(fields)
    BY <2>1 DEF Sends, Fine
  <2>2. CASE ~Writable(fields)
    BY <2>2 DEF Sends, Breaks
  <2> QED BY <2>1, <2>2
<1> HIDE DEF m
<1>3. HostQueue' /\ Len(toHost') \in 0..MaxMessages
  <2>1. Len(toHost) \in 0..MaxMessages /\ MaxMessages \in Nat
    BY <1>0, BoundsAssumption DEF TypeOK
  <2>2. CASE toHost' = Append(toHost, m)
    <3>1. HostRight(m)
      BY DEF m
    <3>2. HostQueue' /\ Len(toHost') = Len(toHost) + 1
      BY <1>0, <1>1, <2>2, <3>1, HostQueueAppends
    <3> QED BY <1>1, <2>1, <3>2
  <2>3. CASE toHost' = toHost
    BY <1>0, <1>1, <2>1, <2>3, HostQueueStays
  <2> QED BY <1>2, <2>2, <2>3
<1>4. TypeOK'
  BY <1>0, <1>1, <1>2, <1>3 DEF TypeOK, NumPassive
<1>5. InletsInv' /\ RunnerQueue' /\ StackBalanced'
  BY <1>0, <1>1, InletsStay, RunnerQueueStays DEF StackBalanced
<1>6. ArgumentsArrive' /\ OutletsAsMeant'
  BY <1>1, QuietIsRight
<1> QED BY <1>3, <1>4, <1>5, <1>6 DEF ObjectInv

\* What is sent are atoms.
LEMMA Values ==
    /\ \A x \in Floats : Float(x) \in Atoms
    /\ \A s \in Symbols : Symbol(s) \in Atoms
    /\ \A list \in Lists : list \in Seq(Atoms)
BY ListsAssumption DEF Atoms

\* Lua code uses ofOutlet.
LEMMA OwnOutletStep ==
    ASSUME ObjectInv, OwnOutlet
    PROVE  ObjectInv'
<1>0. io.outs \in Nat /\ io.signal \in BOOLEAN
  BY PassiveNumber DEF ObjectInv, TypeOK
<1> PICK index \in 0 .. 1 :
      LET to == Of("int", index)
      IN  \/ Sends("pd_outlet_bang", <<to>>, MeantOut(index, "bang", <<>>), "outletBang")
          \/ \E x \in Floats :
               Sends("pd_outlet_float", <<to, Of("float", Float(x))>>,
                     MeantOut(index, "float", <<Float(x)>>), "outletFloat")
          \/ \E s \in Symbols :
               Sends("pd_outlet_float", <<to, Of("string", Symbol(s))>>,
                     MeantOut(index, "symbol", <<Symbol(s)>>), "outletSymbol")
          \/ \E u \in Userdata :
               Sends("pd_outlet_pointer", <<to, Of("int", Pointer(u))>>,
                     MeantOut(index, "pointer", <<Pointer(u)>>), "outletPointer")
          \/ \E list \in Lists \ {<<>>} :
               \/ Sends("pd_outlet_list", <<to, Of("atoms", list), Of("bool", FALSE)>>,
                        MeantOut(index, "list", list), "outletList")
               \/ /\ list[1].t = "symbol"
                  /\ Sends("pd_outlet_anything",
                           <<to, Of("string", list[1]), Of("atoms", Tail(list))>>,
                           MeantOut(index, "anything", list), "outletAnything")
  BY DEF OwnOutlet
<1> DEFINE to == Of("int", index)
<1>n. index \in Nat
  OBVIOUS
<1>p. Plain("outletBang") /\ Plain("outletFloat") /\ Plain("outletPointer")
  BY DEF Plain
<1>1. CASE Sends("pd_outlet_bang", <<to>>, MeantOut(index, "bang", <<>>), "outletBang")
  BY <1>0, <1>n, <1>p, <1>1, OutletBang, SendsStep
<1>2. ASSUME NEW x \in Floats,
             Sends("pd_outlet_float", <<to, Of("float", Float(x))>>,
                   MeantOut(index, "float", <<Float(x)>>), "outletFloat")
      PROVE  ObjectInv'
  BY <1>0, <1>n, <1>p, <1>2, OutletFloat, SendsStep
<1>3. ASSUME NEW s \in Symbols,
             Sends("pd_outlet_float", <<to, Of("string", Symbol(s))>>,
                   MeantOut(index, "symbol", <<Symbol(s)>>), "outletSymbol")
      PROVE  ObjectInv'
  BY <1>3, BrokenRight, SendsStep
<1>4. ASSUME NEW u \in Userdata,
             Sends("pd_outlet_pointer", <<to, Of("int", Pointer(u))>>,
                   MeantOut(index, "pointer", <<Pointer(u)>>), "outletPointer")
      PROVE  ObjectInv'
  BY <1>0, <1>n, <1>p, <1>4, OutletPointer, SendsStep
<1>5. ASSUME NEW list \in Lists \ {<<>>},
             Sends("pd_outlet_list", <<to, Of("atoms", list), Of("bool", FALSE)>>,
                   MeantOut(index, "list", list), "outletList")
      PROVE  ObjectInv'
  <2> DEFINE fields == <<to, Of("atoms", list), Of("bool", FALSE)>>
             m == Post("pd_outlet_list", fields, MeantOut(index, "list", list), "outletList")
  <2>1. HostRight(m)
    <3> HIDE DEF fields
    <3>1. /\ m.type = "pd_outlet_list" /\ m.fields = fields
          /\ m.meant = MeantOut(index, "list", list) /\ m.by = "outletList"
      BY PostFields
    <3> HIDE DEF m
    <3> QED BY <1>0, <1>n, <3>1, OutletList DEF fields
  <2> HIDE DEF fields
  <2>2. Sends("pd_outlet_list", fields, MeantOut(index, "list", list), "outletList")
    BY <1>5 DEF fields
  <2> QED BY <2>1, <2>2, SendsStep
<1>6. ASSUME NEW list \in Lists \ {<<>>},
             Sends("pd_outlet_anything", <<to, Of("string", list[1]), Of("atoms", Tail(list))>>,
                   MeantOut(index, "anything", list), "outletAnything")
      PROVE  ObjectInv'
  <2> DEFINE fields == <<to, Of("string", list[1]), Of("atoms", Tail(list))>>
             m == Post("pd_outlet_anything", fields, MeantOut(index, "anything", list), "outletAnything")
  <2>1. HostRight(m)
    <3> HIDE DEF fields
    <3>1. /\ m.type = "pd_outlet_anything" /\ m.fields = fields
          /\ m.meant = MeantOut(index, "anything", list) /\ m.by = "outletAnything"
      BY PostFields
    <3> HIDE DEF m
    <3>2. list \in Seq(Atoms) /\ list # <<>>
      BY Values
    <3> QED BY <1>0, <1>n, <3>1, <3>2, OutletAnything DEF fields
  <2> HIDE DEF fields
  <2>2. Sends("pd_outlet_anything", fields, MeantOut(index, "anything", list), "outletAnything")
    BY <1>6 DEF fields
  <2> QED BY <2>1, <2>2, SendsStep
<1> QED BY <1>1, <1>2, <1>3, <1>4, <1>5, <1>6

\* Lua code uses ofSend.
LEMMA OwnSendStep ==
    ASSUME ObjectInv, OwnSend
    PROVE  ObjectInv'
<1> DEFINE to == Of("string", "receiver")
<1>p. Plain("sendBang") /\ Plain("sendFloat") /\ Plain("sendSymbol")
  BY DEF Plain
<1>1. CASE Sends("pd_send_bang", <<to>>, ToReceiver("bang", <<>>), "sendBang")
  BY <1>p, <1>1, SendBang, SendsStep
<1>2. ASSUME NEW x \in Floats,
             Sends("pd_send_float", <<to, Of("float", Float(x))>>,
                   ToReceiver("float", <<Float(x)>>), "sendFloat")
      PROVE  ObjectInv'
  BY <1>p, <1>2, SendFloat, SendsStep
<1>3. ASSUME NEW s \in Symbols,
             Sends("pd_send_symbol", <<to, Of("string", Symbol(s))>>,
                   ToReceiver("symbol", <<Symbol(s)>>), "sendSymbol")
      PROVE  ObjectInv'
  BY <1>p, <1>3, SendSymbol, SendsStep
<1>4. ASSUME NEW fields, NEW meant,
             \/ Sends("pd_send_pointer", fields, meant, "sendPointer")
             \/ Sends("pd_send_list", fields, meant, "sendList")
             \/ Sends("pd_send_anything", fields, meant, "sendAnything")
      PROVE  ObjectInv'
  BY <1>4, BrokenRight, SendsStep
<1> QED BY <1>1, <1>2, <1>3, <1>4 DEF OwnSend

\* Lua code uses ofInlet.
LEMMA OwnInletStep ==
    ASSUME ObjectInv, OwnInlet
    PROVE  ObjectInv'
<1>1. ASSUME NEW index \in 0 .. 2, NEW x \in Floats,
             Sends("pd_inlet_set_float", <<Of("int", index), Of("float", Float(x))>>,
                   <<>>, "setFloatInlet")
      PROVE  ObjectInv'
  <2>1. index \in Int /\ Float(x) \in Atoms
    BY Values
  <2> QED BY <1>1, <2>1, InletFloat, SendsStep
<1>2. ASSUME NEW index \in 0 .. 2, NEW s \in Symbols,
             Sends("pd_inlet_set_symbol", <<Of("int", index), Of("string", Symbol(s))>>,
                   <<>>, "setSymbolInlet")
      PROVE  ObjectInv'
  <2>1. index \in Int /\ Symbol(s) \in Atoms
    BY Values
  <2> QED BY <1>2, <2>1, InletSymbol, SendsStep
<1>3. ASSUME NEW list \in Lists \ {<<>>},
             Sends("pd_inlet_set_inlets", <<Of("atoms", list)>>, <<>>, "setInlets")
      PROVE  ObjectInv'
  <2>1. list \in Seq(Atoms)
    BY Values
  <2> QED BY <1>3, <2>1, InletList, SendsStep
<1> QED BY <1>1, <1>2, <1>3 DEF OwnInlet

\* Lua code uses ofCanvas.
LEMMA OwnCanvasStep ==
    ASSUME ObjectInv, OwnCanvas
    PROVE  ObjectInv'
<1>1. ASSUME NEW parent \in 0 .. 1,
             \/ Sends("canvas_get_index", <<Of("int", parent)>>, <<>>, "getIndex")
             \/ Sends("canvas_get_position", <<Of("int", parent)>>, <<>>, "getPosition")
      PROVE  ObjectInv'
  <2>1. parent \in Int
    OBVIOUS
  <2> QED BY <1>1, <2>1, CanvasAsks, SendsStep
<1>2. ASSUME NEW parent \in 0 .. 1,
             Sends("canvas_set_position",
                   <<Of("int", parent), Of("int", Garbage), Of("int", Garbage)>>, <<>>, "setPosition")
      PROVE  ObjectInv'
  <2>1. parent \in Int
    OBVIOUS
  <2> DEFINE fields == <<Of("int", parent), Of("int", Garbage), Of("int", Garbage)>>
  <2>2. HostRight(Post("canvas_set_position", fields, <<>>, "setPosition"))
    BY <2>1, CanvasMoves
  <2> HIDE DEF fields
  <2>3. Sends("canvas_set_position", fields, <<>>, "setPosition")
    BY <1>2 DEF fields
  <2> QED BY <2>2, <2>3, SendsStep
<1> QED BY <1>1, <1>2 DEF OwnCanvas

-----------------------------------------------------------------------------
(* The runner *)

\* What a result is to bring about.
LEMMA MeantResults ==
    ASSUME NEW r
    PROVE  /\ r.t = "nil" => MeantResult(r) = MeantOut(0, "bang", <<>>)
           /\ r.t \in {"float", "symbol", "pointer"} => MeantResult(r) = MeantOut(0, r.t, <<r>>)
           /\ r.t = "keyed" => MeantResult(r) = MeantOut(0, "pointer", <<Pointer(r.v)>>)
           /\ r.t = "table" =>
                 MeantResult(r) = IF HasControlOutlet /\ io.outs > 1 THEN Spread(r.v)
                                  ELSE MeantOut(0, "list", r.v)
<1>1. CASE r.t = "nil"
  BY <1>1 DEF MeantResult
<1>2. CASE r.t \in {"float", "symbol", "pointer"}
  BY <1>2 DEF MeantResult
<1>3. CASE r.t = "keyed"
  BY <1>3 DEF MeantResult
<1>4. CASE r.t = "table"
  BY <1>4 DEF MeantResult
<1> QED BY <1>1, <1>2, <1>3, <1>4

\* The message of a result: its type, its fields and who sent it.
Returned(r) ==
    CASE r.t = "nil" -> Post("pd_outlet_bang", <<Of("int", 0)>>, MeantResult(r), "ret")
      [] r.t = "float" -> Post("pd_outlet_float", <<Of("int", 0), Of("float", r)>>, MeantResult(r), "ret")
      [] r.t = "symbol" -> Post("pd_outlet_symbol", <<Of("int", 0), Of("string", r)>>, MeantResult(r), "ret")
      [] r.t = "pointer" -> Post("pd_outlet_pointer", <<Of("int", 0), Of("int", r)>>, MeantResult(r), "ret")
      [] r.t = "keyed" ->
           Post("pd_outlet_pointer", <<Of("int", 0), Of("int", Pointer(r.v))>>, MeantResult(r), "ret")
      [] OTHER ->
           Post("pd_outlet_list", <<Of("int", 0), Of("atoms", r.v), Of("bool", TRUE)>>,
                MeantResult(r), "table")

\* outletRet sends one message for each of these results.
LEMMA OneReturned ==
    ASSUME NEW r, r.t \in {"nil", "float", "symbol", "pointer", "keyed", "table"}
    PROVE  RetMessages(r) = <<Returned(r)>>
<1>1. CASE r.t = "nil"
  BY <1>1, Zenon DEF RetMessages, Returned
<1>2. CASE r.t = "float"
  BY <1>2, Zenon DEF RetMessages, Returned
<1>3. CASE r.t = "symbol"
  BY <1>3, Zenon DEF RetMessages, Returned
<1>4. CASE r.t = "pointer"
  BY <1>4, Zenon DEF RetMessages, Returned
<1>5. CASE r.t = "keyed"
  BY <1>5, Zenon DEF RetMessages, Returned
<1>6. CASE r.t = "table"
  BY <1>6, Zenon DEF RetMessages, Returned
<1> QED BY <1>1, <1>2, <1>3, <1>4, <1>5, <1>6

\* What kinds of results there are.
LEMMA ResultKinds ==
    ASSUME NEW r \in Results, ~Derails(r)
    PROVE  \/ r.t \in {"nil", "float", "symbol", "pointer", "keyed"}
           \/ r.t = "table" /\ r.v \in Seq(Atoms)
           \/ r.t = "function" /\ RetMessages(r) = <<>>
<1>1. CASE r \in Atoms
  BY <1>1, AtomTypes
<1>2. CASE r = Nil
  BY <1>2 DEF Nil
<1>3. CASE r = Function
  <2>1. r.t = "function"
    BY <1>3 DEF Function
  <2> QED BY <2>1, Zenon DEF RetMessages
<1>4. CASE r \in {Keyed(u) : u \in Userdata}
  BY <1>4 DEF Keyed
<1>5. CASE r \in {Table(atoms) : atoms \in Lists}
  BY <1>5, Values DEF Table
<1>6. CASE r \in {Table(<<Function>>)}
  BY <1>6 DEF Derails
<1> QED BY <1>1, <1>2, <1>3, <1>4, <1>5, <1>6 DEF Results

\* That message does what it is to.
LEMMA ReturnedRight ==
    ASSUME io.outs \in Nat, io.signal \in BOOLEAN, NEW r,
           \/ r.t \in {"nil", "float", "symbol", "pointer", "keyed"}
           \/ r.t = "table" /\ r.v \in Seq(Atoms)
    PROVE  HostRight(Returned(r))
<1>p. Plain("ret") /\ 0 \in Nat
  BY DEF Plain
<1>1. CASE r.t = "nil"
  <2>1. Returned(r) = Post("pd_outlet_bang", <<Of("int", 0)>>, MeantOut(0, "bang", <<>>), "ret")
    BY <1>1, MeantResults, Zenon DEF Returned
  <2> QED BY <1>p, <2>1, OutletBang
<1>2. CASE r.t = "float"
  <2>1. Returned(r) = Post("pd_outlet_float", <<Of("int", 0), Of("float", r)>>,
                           MeantOut(0, "float", <<r>>), "ret")
    BY <1>2, MeantResults DEF Returned
  <2> QED BY <1>p, <2>1, OutletFloat
<1>3. CASE r.t = "symbol"
  <2>1. Returned(r) = Post("pd_outlet_symbol", <<Of("int", 0), Of("string", r)>>,
                           MeantOut(0, "symbol", <<r>>), "ret")
    BY <1>3, MeantResults DEF Returned
  <2> QED BY <1>p, <2>1, OutletSymbol
<1>4. CASE r.t = "pointer"
  <2>1. Returned(r) = Post("pd_outlet_pointer", <<Of("int", 0), Of("int", r)>>,
                           MeantOut(0, "pointer", <<r>>), "ret")
    BY <1>4, MeantResults DEF Returned
  <2> QED BY <1>p, <2>1, OutletPointer
<1>5. CASE r.t = "keyed"
  <2>1. Returned(r) = Post("pd_outlet_pointer", <<Of("int", 0), Of("int", Pointer(r.v))>>,
                           MeantOut(0, "pointer", <<Pointer(r.v)>>), "ret")
    BY <1>5, MeantResults DEF Returned
  <2> QED BY <1>p, <2>1, OutletPointer
<1>6. CASE r.t = "table" /\ r.v \in Seq(Atoms)
  <2> DEFINE fields == <<Of("int", 0), Of("atoms", r.v), Of("bool", TRUE)>>
  <2> HIDE DEF fields
  <2>1. Returned(r) = Post("pd_outlet_list", fields, MeantResult(r), "table")
    BY <1>6, Zenon DEF Returned, fields
  <2> DEFINE m == Returned(r)
  <2>2. m.type = "pd_outlet_list" /\ m.fields = fields /\ m.meant = MeantResult(r) /\ m.by = "table"
    BY <2>1, PostFields
  <2> HIDE DEF m
  <2>3. m.meant = IF HasControlOutlet /\ io.outs > 1 THEN Spread(r.v) ELSE MeantOut(0, "list", r.v)
    BY <1>6, <2>2, MeantResults
  <2>4. HostRight(m)
    BY <1>6, <2>2, <2>3, ReturnedTable DEF fields
  <2> QED BY <2>4 DEF m
<1> QED BY <1>1, <1>2, <1>3, <1>4, <1>5, <1>6

\* The messages of a result do what they are to.
LEMMA RetRight ==
    ASSUME io.outs \in Nat, io.signal \in BOOLEAN, NEW r \in Results, ~Derails(r)
    PROVE  \E P : RetMessages(r) \in Seq(P) /\ \A m \in P : HostRight(m)
<1>1. ASSUME \/ r.t \in {"nil", "float", "symbol", "pointer", "keyed"}
             \/ r.t = "table" /\ r.v \in Seq(Atoms)
      PROVE  \E P : RetMessages(r) \in Seq(P) /\ \A m \in P : HostRight(m)
  <2>1. RetMessages(r) = <<Returned(r)>> /\ HostRight(Returned(r))
    BY <1>1, OneReturned, ReturnedRight
  <2> DEFINE P == {Returned(r)}
  <2>2. RetMessages(r) \in Seq(P) /\ \A m \in P : HostRight(m)
    BY <2>1
  <2> HIDE DEF P
  <2> QED BY <2>2
<1>2. CASE RetMessages(r) = <<>>
  <2> DEFINE P == {}
  <2>1. RetMessages(r) \in Seq(P) /\ \A m \in P : HostRight(m)
    BY <1>2
  <2> HIDE DEF P
  <2> QED BY <2>1
<1>3. \/ r.t \in {"nil", "float", "symbol", "pointer", "keyed"}
      \/ r.t = "table" /\ r.v \in Seq(Atoms)
      \/ RetMessages(r) = <<>>
  BY ResultKinds
<1> QED BY <1>1, <1>2, <1>3

\* What the runner's handlers have in common: they take a message, and leave
\* the inlets alone.
Takes ==
    /\ RunnerQueue'
    /\ Len(toRunner') \in 0..MaxMessages
    /\ UNCHANGED <<io, types, passive, given>>

\* A handler that calls nothing.
LEMMA NoCallStep ==
    ASSUME ObjectInv, Takes, Quiet, UNCHANGED toHost, chunk' \in BOOLEAN,
           depth' \in Nat, left' = depth', fate' \in {"fine", "undefined"}
    PROVE  ObjectInv'
<1>0. TypeOK /\ InletsInv /\ HostQueue
  BY DEF ObjectInv
<1>1. TypeOK'
  BY <1>0 DEF TypeOK, NumPassive, Takes
<1>2. InletsInv' /\ HostQueue' /\ RunnerQueue' /\ StackBalanced'
  BY <1>0, InletsStay, HostQueueStays DEF Takes, StackBalanced
<1> QED BY <1>1, <1>2, QuietIsRight DEF ObjectInv

\* After a call the stack is as deep as before, but for what outletRet leaves.
LEMMA StackAfter ==
    ASSUME NEW base \in Nat, NEW nret \in 0 .. 2, NEW r
    PROVE  /\ SetFunction(base + 1, "error", 0, Nil) = base
           /\ SetFunction(base + 1, "good", nret, r) = base + LeftByRet(nret, r)
           /\ base + LeftByRet(nret, r) \in Nat
<1>1. CASE nret > 0 /\ r.t = "pointer"
  BY <1>1 DEF SetFunction, OutletRet, LeftByRet
<1>2. CASE ~(nret > 0 /\ r.t = "pointer")
  BY <1>2 DEF SetFunction, OutletRet, LeftByRet
<1> QED BY <1>1, <1>2

\* A call of Lua with what was meant, and the messages of its results.
LEMMA CallFunctionStep ==
    ASSUME ObjectInv, Takes, chunk' \in BOOLEAN, NEW base \in Nat, NEW sent, NEW got,
           Right(sent, got), CallFunction(base + 1, base, sent, got)
    PROVE  ObjectInv'
<1>0. TypeOK /\ InletsInv /\ HostQueue
  BY DEF ObjectInv
<1>1. call' = [meant |-> sent, got |-> got, by |-> "host"] /\ delivery' = Nothing
  BY DEF CallFunction
<1>2. ArgumentsArrive'
  BY <1>1 DEF ArgumentsArrive, Right, HasMultiControlInlets, Takes
<1>3. OutletsAsMeant'
  <2>1. delivery'.got = <<>> /\ delivery'.meant = <<>>
    BY <1>1 DEF Nothing
  <2>2. <<>> = [k \in DOMAIN <<>> |-> Blunt(delivery'.by, <<>>[k])]
    OBVIOUS
  <2> QED BY <2>1, <2>2 DEF OutletsAsMeant
<1>4. InletsInv'
  BY <1>0, InletsStay DEF Takes
<1>5. \/ /\ depth' = SetFunction(base + 1, "error", 0, Nil)
         /\ left' = base
         /\ UNCHANGED toHost
         /\ Fine
      \/ \E nret \in 0 .. 2 : \E r \in IF nret = 0 THEN {Nil} ELSE Results :
            LET posts == IF nret = 0 THEN <<>> ELSE RetMessages(r)
            IN  /\ Len(toHost) + Len(posts) <= MaxMessages
                /\ IF nret > 0 /\ (Derails(r) \/ ~Sendable(posts))
                   THEN Breaks /\ UNCHANGED <<depth, left, toHost>>
                   ELSE /\ depth' = SetFunction(base + 1, "good", nret, r)
                        /\ left' = base + LeftByRet(nret, r)
                        /\ toHost' = toHost \o posts
                        /\ Fine
  BY DEF CallFunction
<1>6. ASSUME HostQueue', Len(toHost') \in 0..MaxMessages, depth' \in Nat, left' = depth',
             fate' \in {"fine", "undefined"}
      PROVE  ObjectInv'
  <2>1. TypeOK'
    BY <1>0, <1>6 DEF TypeOK, NumPassive, Takes
  <2> QED BY <1>2, <1>3, <1>4, <1>6, <2>1 DEF ObjectInv, StackBalanced, Takes
<1>7. Len(toHost) \in 0..MaxMessages /\ MaxMessages \in Nat /\ depth \in Nat /\ left = depth
  BY <1>0, BoundsAssumption DEF TypeOK, ObjectInv, StackBalanced
<1>8. ASSUME UNCHANGED toHost PROVE HostQueue' /\ Len(toHost') \in 0..MaxMessages
  BY <1>0, <1>7, <1>8, HostQueueStays DEF Takes
<1>9. CASE /\ depth' = SetFunction(base + 1, "error", 0, Nil)
           /\ left' = base
           /\ UNCHANGED toHost
           /\ Fine
  <2>1. depth' = base
    BY <1>9, StackAfter
  <2> QED BY <1>6, <1>8, <1>9, <2>1 DEF Fine
<1>10. ASSUME NEW nret \in 0 .. 2, NEW r \in IF nret = 0 THEN {Nil} ELSE Results, NEW posts,
              posts = IF nret = 0 THEN <<>> ELSE RetMessages(r),
              Len(toHost) + Len(posts) <= MaxMessages,
              IF nret > 0 /\ (Derails(r) \/ ~Sendable(posts))
              THEN Breaks /\ UNCHANGED <<depth, left, toHost>>
              ELSE /\ depth' = SetFunction(base + 1, "good", nret, r)
                   /\ left' = base + LeftByRet(nret, r)
                   /\ toHost' = toHost \o posts
                   /\ Fine
       PROVE  ObjectInv'
  <2>1. CASE nret > 0 /\ (Derails(r) \/ ~Sendable(posts))
    BY <1>6, <1>7, <1>8, <1>10, <2>1 DEF Breaks
  <2>2. CASE ~(nret > 0 /\ (Derails(r) \/ ~Sendable(posts)))
    <3>1. /\ depth' = SetFunction(base + 1, "good", nret, r)
          /\ left' = base + LeftByRet(nret, r)
          /\ toHost' = toHost \o posts
          /\ Fine
      BY <1>10, <2>2
    <3>2. depth' \in Nat /\ left' = depth'
      BY <3>1, StackAfter
    <3>3. PICK P : posts \in Seq(P) /\ \A m \in P : HostRight(m)
      <4>1. CASE nret = 0
        <5> DEFINE P == {}
        <5>1. posts \in Seq(P) /\ \A m \in P : HostRight(m)
          BY <1>10, <4>1
        <5> HIDE DEF P
        <5> QED BY <5>1
      <4>2. CASE nret # 0
        <5>1. r \in Results /\ posts = RetMessages(r) /\ ~Derails(r)
          BY <1>10, <2>2, <4>2
        <5>2. io.outs \in Nat /\ io.signal \in BOOLEAN
          BY <1>0, PassiveNumber DEF TypeOK
        <5> QED BY <5>1, <5>2, RetRight
      <4> QED BY <4>1, <4>2
    <3>4. HostQueue' /\ Len(toHost') = Len(toHost) + Len(posts)
      BY <1>0, <3>1, <3>3, HostQueueGrows DEF Takes
    <3>5. Len(posts) \in Nat
      BY <3>3, LenProperties
    <3>6. Len(toHost') \in 0..MaxMessages
      BY <1>7, <1>10, <3>4, <3>5
    <3> QED BY <1>6, <3>1, <3>2, <3>4, <3>6 DEF Fine
  <2> QED BY <2>1, <2>2
<1> QED BY <1>5, <1>9, <1>10

\* A message taken off the queue.
LEMMA TakesHead ==
    ASSUME ObjectInv, Handle
    PROVE  /\ Takes
           /\ RunnerRight(Head(toRunner))
<1>1. /\ toRunner # <<>> /\ toRunner' = Tail(toRunner)
      /\ UNCHANGED <<io, types, passive, given>>
  BY DEF Handle
<1>2. RunnerQueue /\ Len(toRunner) \in 0..MaxMessages /\ MaxMessages \in Nat
  BY BoundsAssumption DEF ObjectInv, TypeOK
<1>3. /\ RunnerRight(Head(toRunner))
      /\ RunnerQueue'
      /\ Len(toRunner') = Len(toRunner) - 1
      /\ Len(toRunner) > 0
  BY <1>1, <1>2, RunnerQueueTail
<1>4. Len(toRunner') \in 0..MaxMessages
  BY <1>2, <1>3
<1> QED BY <1>1, <1>3, <1>4 DEF Takes

\* The state the handlers begin in.
LEMMA StackBefore ==
    ASSUME ObjectInv
    PROVE  depth \in Nat /\ left = depth /\ chunk \in BOOLEAN
BY DEF ObjectInv, TypeOK, StackBalanced

\* A handler that finds nothing to call.
LEMMA NothingCalled ==
    ASSUME ObjectInv, Takes, chunk' \in BOOLEAN, NoCall
    PROVE  ObjectInv'
<1>1. depth' \in Nat /\ left' = depth'
  BY StackBefore DEF NoCall
<1>2. Quiet /\ UNCHANGED toHost /\ fate' \in {"fine", "undefined"}
  BY DEF NoCall, Fine
<1> QED BY <1>1, <1>2, NoCallStep

\* The runner calls a function for a message at the inlets.
LEMMA DoLuaFunctionStep ==
    ASSUME ObjectInv, Takes, NEW m, m.type \in CallTypes, RunnerRight(m), DoLuaFunction(m)
    PROVE  ObjectInv'
<1> DEFINE got == Arguments(m.type, Parse(Kinds[m.type], m.fields))
<1>1. Right(m.meant, got)
  BY DEF RunnerRight
<1>2. chunk' \in BOOLEAN
  BY StackBefore DEF DoLuaFunction
<1>3. CASE CallFunction(depth + 1, left, m.meant, got)
  <2> HIDE DEF got
  <2>1. depth \in Nat /\ CallFunction(depth + 1, depth, m.meant, got)
    BY <1>3, StackBefore
  <2> QED BY <1>1, <1>2, <2>1, CallFunctionStep
<1>4. CASE NoCall
  BY <1>2, <1>4, NothingCalled
<1> QED BY <1>3, <1>4 DEF DoLuaFunction

\* The runner sets a variable, or calls a function of that name.
LEMMA SetVariableByArgsStep ==
    ASSUME ObjectInv, Takes, NEW m, m.type = "ofx_lua_set_var_by_args", RunnerRight(m),
           SetVariableByArgs(m)
    PROVE  ObjectInv'
<1> DEFINE values == Parse(Kinds[m.type], m.fields)
<1>1. Right(m.meant, values)
  BY DEF RunnerRight
<1> HIDE DEF values
<1>2. chunk' \in BOOLEAN
  BY StackBefore DEF SetVariableByArgs
<1>3. CASE CallFunction(depth + 1, left, m.meant, values)
  <2>1. depth \in Nat /\ CallFunction(depth + 1, depth, m.meant, values)
    BY <1>3, StackBefore
  <2> QED BY <1>1, <1>2, <2>1, CallFunctionStep
<1>4. CASE NoCall
  BY <1>2, <1>4, NothingCalled
<1>5. ASSUME NEW type,
             /\ depth' = SetVariable(depth + 1, type, values[2])
             /\ left' = left + (IF Fits(type, values[2]) THEN 0 ELSE 2)
             /\ UNCHANGED toHost
             /\ Quiet
             /\ Fine
      PROVE  ObjectInv'
  <2>1. depth \in Nat /\ left = depth
    BY StackBefore
  <2>2. CASE Fits(type, values[2])
    <3>1. depth' \in Nat /\ left' = depth'
      BY <1>5, <2>1, <2>2 DEF SetVariable
    <3> QED BY <1>2, <1>5, <3>1, NoCallStep DEF Fine
  <2>3. CASE ~Fits(type, values[2])
    <3>1. depth' \in Nat /\ left' = depth'
      BY <1>5, <2>1, <2>3 DEF SetVariable
    <3> QED BY <1>2, <1>5, <3>1, NoCallStep DEF Fine
  <2> QED BY <2>2, <2>3
<1> QED BY <1>3, <1>4, <1>5 DEF SetVariableByArgs, values

\* The runner runs a script, and its "new".
LEMMA DoStringStep ==
    ASSUME ObjectInv, Takes, NEW m, DoString(m)
    PROVE  ObjectInv'
<1>1. CASE /\ depth' = 0
           /\ left' = 0
           /\ chunk' \in {chunk, TRUE, FALSE}
           /\ UNCHANGED toHost
           /\ Quiet
           /\ Fine
  <2>1. depth' \in Nat /\ left' = depth' /\ chunk' \in BOOLEAN
    BY <1>1, StackBefore
  <2> QED BY <1>1, <2>1, NoCallStep DEF Fine
<1>2. CASE chunk' = TRUE /\ CallFunction(1, 0, m.meant, m.meant)
  <2>1. CallFunction(0 + 1, 0, m.meant, m.meant) /\ 0 \in Nat /\ chunk' \in BOOLEAN
    BY <1>2
  <2>2. Right(m.meant, m.meant)
    BY DEF Right
  <2> QED BY <2>1, <2>2, CallFunctionStep
<1> QED BY <1>1, <1>2 DEF DoString

\* The runner calls "free".
LEMMA DoFreeFunctionStep ==
    ASSUME ObjectInv, Takes, NEW m, DoFreeFunction(m)
    PROVE  ObjectInv'
<1>1. chunk' \in BOOLEAN
  BY DEF DoFreeFunction
<1>2. CASE CallFunction(depth + 1, left, m.meant, m.meant)
  <2>1. depth \in Nat /\ CallFunction(depth + 1, depth, m.meant, m.meant)
    BY <1>2, StackBefore
  <2>2. Right(m.meant, m.meant)
    BY DEF Right
  <2> QED BY <1>1, <2>1, <2>2, CallFunctionStep
<1>3. CASE NoCall
  BY <1>1, <1>3, NothingCalled
<1> QED BY <1>2, <1>3 DEF DoFreeFunction

\* The runner calls "perform" and answers with one block for each outlet.
LEMMA RunnerPerformStep ==
    ASSUME ObjectInv, Takes, NEW m, m.type = "ofx_lua_audio_block", RunnerRight(m),
           RunnerPerform(m)
    PROVE  ObjectInv'
<1> DEFINE numOutlets == Parse(<<"blocks", "int">>, m.fields)[2]
           answer == Post("pd_audio_block", <<Of("blocks", numOutlets)>>,
                          [i \in 1 .. io.outs |-> Out(i - 1, "signal", <<>>)], "perform")
<1>1. HostRight(answer)
  <2>1. numOutlets = io.outs
    BY DEF RunnerRight
  <2> HIDE DEF numOutlets
  <2> QED BY <2>1, AudioBlock
<1> HIDE DEF answer, numOutlets
<1>2. /\ UNCHANGED <<chunk, left>>
      /\ Quiet
      /\ Len(toHost) < MaxMessages
      /\ \/ depth' = depth /\ toHost' = Append(toHost, answer) /\ Fine
         \/ \E outcome \in {"error", "noTable", "tables"} :
               /\ depth' = PerformPops(depth + 1, outcome)
               /\ toHost' = Append(toHost, answer)
               /\ Fine
         \/ UNCHANGED <<depth, toHost>> /\ Breaks
  BY DEF RunnerPerform, answer, numOutlets
<1>3. depth \in Nat /\ left = depth /\ chunk \in BOOLEAN
  BY StackBefore
<1>4. /\ depth' = depth
      /\ toHost' = Append(toHost, answer) \/ UNCHANGED toHost
      /\ fate' \in {"fine", "undefined"}
  <2>1. ASSUME NEW outcome, depth' = PerformPops(depth + 1, outcome) PROVE depth' = depth
    BY <1>3, <2>1 DEF PerformPops
  <2> QED BY <1>2, <2>1 DEF Fine, Breaks
<1>5. TypeOK /\ InletsInv /\ HostQueue /\ MaxMessages \in Nat /\ UNCHANGED io
  BY BoundsAssumption DEF ObjectInv, Takes
<1>6. HostQueue' /\ Len(toHost') \in 0..MaxMessages
  <2>1. Len(toHost) \in 0..MaxMessages
    BY <1>5 DEF TypeOK
  <2>2. CASE toHost' = Append(toHost, answer)
    <3>1. HostQueue' /\ Len(toHost') = Len(toHost) + 1
      BY <1>1, <1>5, <2>2, HostQueueAppends
    <3> QED BY <1>2, <1>5, <2>1, <3>1
  <2>3. CASE UNCHANGED toHost
    BY <1>5, <2>1, <2>3, HostQueueStays
  <2> QED BY <1>4, <2>2, <2>3
<1>7. TypeOK'
  BY <1>2, <1>3, <1>4, <1>5, <1>6 DEF TypeOK, NumPassive, Takes
<1>8. InletsInv' /\ StackBalanced' /\ RunnerQueue'
  BY <1>2, <1>3, <1>4, <1>5, InletsStay DEF Takes, StackBalanced
<1> QED BY <1>2, <1>6, <1>7, <1>8, QuietIsRight DEF ObjectInv

\* Every message to the runner.
LEMMA HandleStep ==
    ASSUME ObjectInv, Handle
    PROVE  ObjectInv'
<1> DEFINE m == Head(toRunner)
<1>1. Takes /\ RunnerRight(m)
  BY TakesHead
<1>2. (CASE m.type = "ofx_lua_do_string" -> DoString(m)
        [] m.type = "ofx_lua_do_free_function" -> DoFreeFunction(m)
        [] m.type = "ofx_lua_set_var_by_args" -> SetVariableByArgs(m)
        [] m.type = "ofx_lua_audio_block" -> RunnerPerform(m)
        [] OTHER -> DoLuaFunction(m))
  BY Zenon DEF Handle
<1> HIDE DEF m
<1>3. CASE m.type = "ofx_lua_do_string"
  BY <1>1, <1>2, <1>3, DoStringStep
<1>4. CASE m.type = "ofx_lua_do_free_function"
  BY <1>1, <1>2, <1>4, DoFreeFunctionStep
<1>5. CASE m.type = "ofx_lua_set_var_by_args"
  BY <1>1, <1>2, <1>5, SetVariableByArgsStep
<1>6. CASE m.type = "ofx_lua_audio_block"
  BY <1>1, <1>2, <1>6, RunnerPerformStep
<1>7. CASE m.type \in CallTypes
  <2>1. DoLuaFunction(m)
    BY <1>2, <1>7 DEF CallTypes
  <2> QED BY <1>1, <1>7, <2>1, DoLuaFunctionStep
<1> QED BY <1>1, <1>3, <1>4, <1>5, <1>6, <1>7 DEF RunnerRight

-----------------------------------------------------------------------------
(* The host's handlers *)

\* What they have in common: they take a message, and call nothing.
Receives ==
    /\ HostQueue'
    /\ Len(toHost') \in 0..MaxMessages
    /\ call' = Nothing
    /\ UNCHANGED <<io, types, toRunner, chunk, depth, left>>

\* A message taken off the queue.
LEMMA ReceivesHead ==
    ASSUME ObjectInv, Receive
    PROVE  /\ Receives
           /\ HostRight(Head(toHost))
<1>1. /\ toHost # <<>> /\ toHost' = Tail(toHost)
      /\ call' = Nothing
      /\ UNCHANGED <<io, types, toRunner, chunk, depth, left>>
  BY DEF Receive
<1>2. HostQueue /\ Len(toHost) \in 0..MaxMessages /\ MaxMessages \in Nat
  BY BoundsAssumption DEF ObjectInv, TypeOK
<1>3. /\ HostRight(Head(toHost))
      /\ HostQueue'
      /\ Len(toHost') = Len(toHost) - 1
      /\ Len(toHost) > 0
  BY <1>1, <1>2, HostQueueTail
<1>4. Len(toHost') \in 0..MaxMessages
  BY <1>2, <1>3
<1> QED BY <1>1, <1>3, <1>4 DEF Receives

\* Values of the passive inlets, each of its inlet's type.
Fitting(inlets) ==
    /\ inlets \in Seq(InletValues)
    /\ Len(inlets) = NumPassive
    /\ \A i \in 1..NumPassive : AtomSelector(inlets[i]) = types[i]

\* The inlets and what they were given fit.
LEMMA InletsFit ==
    ASSUME ObjectInv
    PROVE  Fitting(passive) /\ Fitting(given)
<1>1. Fitting(given)
  BY DEF ObjectInv, InletsInv, Fitting
<1>2. passive \in Seq(InletValues) /\ Len(passive) = NumPassive
  BY DEF ObjectInv, TypeOK, InletValues
<1>3. DOMAIN passive = 1..NumPassive
  BY <1>2, LenProperties
<1> QED BY <1>1, <1>2, <1>3 DEF ObjectInv, TypeOK, Fitting

\* A handler that leaves fitting values in the inlets.
LEMMA ReceiveFrame ==
    ASSUME ObjectInv, Receives, Fitting(passive'), Fitting(given'),
           \A i \in 1..NumPassive : passive'[i] \in {given'[i], Stray},
           OutletsAsMeant', fate' \in {"fine", "undefined"}
    PROVE  ObjectInv'
<1>0. TypeOK /\ RunnerQueue /\ StackBalanced
  BY DEF ObjectInv
<1>1. NumPassive' = NumPassive
  BY DEF Receives, NumPassive
<1>2. DOMAIN passive' = 1..NumPassive
  BY LenProperties DEF Fitting
<1>3. TypeOK'
  BY <1>0, <1>1, <1>2 DEF TypeOK, Receives, Fitting, InletValues
<1>4. InletsInv'
  BY <1>1 DEF InletsInv, Receives, Fitting
<1>5. RunnerQueue' /\ StackBalanced'
  BY <1>0, RunnerQueueStays DEF Receives, StackBalanced
<1>6. ArgumentsArrive'
  <2>1. call'.got = call'.meant
    BY DEF Receives, Nothing
  <2> QED BY <2>1 DEF ArgumentsArrive
<1> QED BY <1>3, <1>4, <1>5, <1>6 DEF ObjectInv, Receives

\* A handler that leaves the inlets alone.
LEMMA InletsAlone ==
    ASSUME ObjectInv, Receives, UNCHANGED <<passive, given>>,
           OutletsAsMeant', fate' \in {"fine", "undefined"}
    PROVE  ObjectInv'
<1>1. Fitting(passive') /\ Fitting(given')
  BY InletsFit
<1>2. \A i \in 1..NumPassive : passive'[i] \in {given'[i], Stray}
  BY DEF ObjectInv, InletsInv
<1> QED BY <1>1, <1>2, ReceiveFrame

\* A handler that brings about what was meant.
LEMMA DeliversStep ==
    ASSUME ObjectInv, Receives, NEW m, NEW got, Delivers(m, got), Arrives(m, got), Fine
    PROVE  ObjectInv'
<1>1. delivery'.meant = m.meant /\ delivery'.got = got /\ delivery'.by = m.by
  BY DEF Delivers
<1>2. OutletsAsMeant'
  BY <1>1 DEF OutletsAsMeant, Arrives, Receives
<1> QED BY <1>2, InletsAlone DEF Delivers, Fine

\* A handler that runs into undefined behaviour.
LEMMA BreaksStep ==
    ASSUME ObjectInv, Receives, Breaks, UNCHANGED <<delivery, passive, given>>
    PROVE  ObjectInv'
<1>1. OutletsAsMeant'
  BY DEF OutletsAsMeant, ObjectInv, Receives
<1> QED BY <1>1, InletsAlone DEF Breaks

\* Outlets.
LEMMA HandleOutletStep ==
    ASSUME ObjectInv, Receives, NEW m, NEW v, OutletRight(m, v), HandleOutlet(m, v)
    PROVE  ObjectInv'
BY DeliversStep DEF HandleOutlet, OutletRight

\* Lists for outlets.
LEMMA HandleListStep ==
    ASSUME ObjectInv, Receives, NEW m, NEW v, ListRight(m, v), HandleList(m, v)
    PROVE  ObjectInv'
BY DeliversStep, BreaksStep DEF HandleList, ListRight

\* Blocks for the audio rings.
LEMMA HandleAudioStep ==
    ASSUME ObjectInv, Receives, NEW m, NEW v, SendRight(m, v), HandleAudio(m, v)
    PROVE  ObjectInv'
BY DeliversStep, BreaksStep DEF HandleAudio, SendRight, Signals

\* Receivers.
LEMMA HandleSendStep ==
    ASSUME ObjectInv, Receives, NEW m, NEW v, SendRight(m, v), HandleSend(m, v)
    PROVE  ObjectInv'
<1>1. CASE m.type \in {"pd_send_pointer", "pd_send_list", "pd_send_anything"}
  <2>1. ASSUME NEW got PROVE Arrives(m, got)
    BY <1>1 DEF SendRight, Arrives
  <2>2. ASSUME NEW got, Delivers(m, got), Fine PROVE ObjectInv'
    BY <2>1, <2>2, DeliversStep
  <2>3. \/ \E got : Delivers(m, got) /\ Fine
        \/ Breaks /\ UNCHANGED <<delivery, passive, given>>
    <3>1. \/ Delivers(m, <<>>) /\ Fine
          \/ Delivers(m, <<Out("another receiver", "garbage", <<>>)>>) /\ Fine
          \/ Breaks /\ UNCHANGED <<delivery, passive, given>>
      BY <1>1 DEF HandleSend
    <3> QED BY <3>1, Zenon
  <2> QED BY <2>2, <2>3, BreaksStep
<1>2. CASE m.type = "pd_send_bang"
  <2>1. Delivers(m, ToReceiver("bang", <<>>)) /\ Fine
    BY <1>2 DEF HandleSend
  <2>2. Arrives(m, ToReceiver("bang", <<>>))
    BY <1>2 DEF SendRight
  <2> QED BY <2>1, <2>2, DeliversStep
<1>3. CASE m.type = "pd_send_float"
  <2>1. Delivers(m, ToReceiver("float", <<v[2]>>)) /\ Fine
    BY <1>3 DEF HandleSend
  <2>2. Arrives(m, ToReceiver("float", <<v[2]>>))
    BY <1>3 DEF SendRight
  <2> QED BY <2>1, <2>2, DeliversStep
<1>4. CASE m.type = "pd_send_symbol"
  <2>1. Delivers(m, ToReceiver("symbol", <<v[2]>>)) /\ Fine
    BY <1>4 DEF HandleSend
  <2>2. Arrives(m, ToReceiver("symbol", <<v[2]>>))
    BY <1>4 DEF SendRight
  <2> QED BY <2>1, <2>2, DeliversStep
<1> QED BY <1>1, <1>2, <1>3, <1>4 DEF HandleSend

\* The empty symbol in a list.
LEMMA UnderflowStep ==
    ASSUME ObjectInv, Receives, NEW m, NEW v, Underflow(m, v)
    PROVE  ObjectInv'
BY BreaksStep DEF Underflow

\* The inlet that is set for a number, be it out of range, is one of them.
LEMMA ClampIsAnInlet ==
    ASSUME NEW n \in Int, io.ins \in Nat, io.ins > 1
    PROVE  Clamp(n) + 1 \in 1..(io.ins - 1)
<1> DEFINE last == io.ins - 2
           lesser == IF n <= last THEN n ELSE last
           inlet == IF lesser >= 0 THEN lesser ELSE 0
<1>1. last \in Nat /\ lesser \in Int /\ lesser \in {n, last} /\ lesser <= n /\ lesser <= last
  OBVIOUS
<1>2. Min({n, last}) = lesser
  <2> HIDE DEF last, lesser
  <2>1. \A x \in {n, last} : (\A y \in {n, last} : x <= y) => x = lesser
    BY <1>1
  <2>2. \A y \in {n, last} : lesser <= y
    BY <1>1
  <2> QED BY <1>1, <2>1, <2>2 DEF Min
<1> HIDE DEF lesser
<1>3. inlet \in Nat /\ inlet <= last /\ inlet \in {0, lesser} /\ inlet >= lesser
  BY <1>1
<1>4. Max({0, lesser}) = inlet
  <2> HIDE DEF last, inlet
  <2>1. \A x \in {0, lesser} : (\A y \in {0, lesser} : x >= y) => x = inlet
    BY <1>1, <1>3
  <2>2. \A y \in {0, lesser} : inlet >= y
    BY <1>3
  <2> QED BY <1>3, <2>1, <2>2 DEF Max
<1> HIDE DEF inlet
<1>5. Clamp(n) = inlet
  BY <1>2, <1>4 DEF Clamp
<1> QED BY <1>3, <1>5

\* What SetInlet does to one inlet, and to the others.
SetOne(inlets, i, a) == IF AtomSelector(inlets[i]) = a.t THEN [inlets EXCEPT ![i] = a] ELSE inlets

\* A value of an inlet is a float or a symbol, be it cut.
LEMMA InletTypes ==
    ASSUME NEW a \in InletValues
    PROVE  AtomSelector(a) \in {"float", "symbol"} /\ (a.t # "cut" => AtomSelector(a) = a.t)
BY DEF InletValues, AtomSelector

\* Only a value of the type of the inlet gets in.
LEMMA SetOneFits ==
    ASSUME NEW inlets, Fitting(inlets), NumPassive \in Nat, NEW i \in 1..NumPassive, NEW a,
           a.t \in {"float", "symbol"} => a \in InletValues
    PROVE  /\ Fitting(SetOne(inlets, i, a))
           /\ \A j \in 1..NumPassive :
                 SetOne(inlets, i, a)[j] = IF j = i /\ types[i] = a.t THEN a ELSE inlets[j]
<1>1. /\ inlets \in Seq(InletValues) /\ Len(inlets) = NumPassive
      /\ \A j \in 1..NumPassive : AtomSelector(inlets[j]) = types[j]
  BY DEF Fitting
<1>2. inlets \in [1..NumPassive -> InletValues]
  BY <1>1, LenProperties
<1>3. CASE types[i] = a.t
  <2> DEFINE r == [inlets EXCEPT ![i] = a]
  <2>1. SetOne(inlets, i, a) = r
    BY <1>1, <1>3 DEF SetOne
  <2>2. inlets[i] \in InletValues
    BY <1>2
  <2>3. a.t \in {"float", "symbol"}
    BY <1>1, <1>3, <2>2, InletTypes
  <2>4. a \in InletValues /\ AtomSelector(a) = a.t
    BY <2>3, InletTypes
  <2>5. r \in [1..NumPassive -> InletValues] /\ \A j \in 1..NumPassive : r[j] = IF j = i THEN a ELSE inlets[j]
    BY <1>2, <2>4
  <2> HIDE DEF r
  <2>6. r \in Seq(InletValues) /\ Len(r) = NumPassive
    BY <2>5, SeqDef, FunctionLen
  <2>7. \A j \in 1..NumPassive : AtomSelector(r[j]) = types[j]
    BY <1>1, <1>3, <2>4, <2>5
  <2>8. Fitting(r)
    BY <2>6, <2>7 DEF Fitting
  <2> QED BY <1>3, <2>1, <2>5, <2>8
<1>4. CASE types[i] # a.t
  <2>1. SetOne(inlets, i, a) = inlets
    BY <1>1, <1>4 DEF SetOne
  <2> QED BY <1>4, <2>1
<1> QED BY <1>3, <1>4

\* The numbers of an object with passive inlets.
LEMMA PassiveInlets ==
    ASSUME ObjectInv
    PROVE  /\ NumPassive \in Nat
           /\ HasMultiControlInlets => NumPassive = io.ins - 1 /\ io.ins > 1 /\ io.ins \in Nat
BY PassiveNumber DEF ObjectInv, TypeOK, HasMultiControlInlets

\* SetInlet sets one of the inlets.
LEMMA SetInletIs ==
    ASSUME ObjectInv, HasMultiControlInlets, NEW n \in Int
    PROVE  /\ Clamp(n) + 1 \in 1..NumPassive
           /\ \A inlets, a : SetInlet(inlets, n, a) = SetOne(inlets, Clamp(n) + 1, a)
BY PassiveInlets, ClampIsAnInlet DEF SetInlet, SetOne

\* What SetInlets does.
LEMMA SetInletsFits ==
    ASSUME NEW inlets, Fitting(inlets), NumPassive \in Nat, NEW atoms \in Seq(Atoms)
    PROVE  /\ Fitting(SetInlets(inlets, HostAtoms(atoms)))
           /\ \A i \in 1..NumPassive :
                 SetInlets(inlets, HostAtoms(atoms))[i] =
                    IF i <= Len(atoms) /\ \A j \in 1..i : AtomSelector(HostAtoms(atoms)[j]) = types[j]
                    THEN HostAtoms(atoms)[i] ELSE inlets[i]
<1> DEFINE h == HostAtoms(atoms)
           r == SetInlets(inlets, h)
           sets(i) == i <= Len(atoms) /\ \A j \in 1..i : AtomSelector(h[j]) = types[j]
<1>1. /\ inlets \in Seq(InletValues) /\ Len(inlets) = NumPassive
      /\ \A j \in 1..NumPassive : AtomSelector(inlets[j]) = types[j]
  BY DEF Fitting
<1>2. inlets \in [1..NumPassive -> InletValues] /\ DOMAIN inlets = 1..NumPassive
  BY <1>1, LenProperties
<1>3. /\ Len(h) = Len(atoms) /\ Len(atoms) \in Nat
      /\ \A i \in 1..Len(atoms) : /\ AtomSelector(h[i]) = atoms[i].t
                                  /\ atoms[i].t # "pointer" => h[i] \in InletValues
  BY HostAtomsTypes, LenProperties
<1> HIDE DEF h
<1>4. r = [i \in 1..NumPassive |->
              IF i <= Len(h) /\ \A j \in 1..i : AtomSelector(h[j]) = AtomSelector(inlets[j])
              THEN h[i] ELSE inlets[i]]
  BY <1>2 DEF SetInlets
<1> HIDE DEF r
<1>5. ASSUME NEW i \in 1..NumPassive
      PROVE  /\ r[i] = IF sets(i) THEN h[i] ELSE inlets[i]
             /\ r[i] \in InletValues
             /\ AtomSelector(r[i]) = types[i]
  <2>1. (\A j \in 1..i : AtomSelector(h[j]) = AtomSelector(inlets[j]))
          <=> (\A j \in 1..i : AtomSelector(h[j]) = types[j])
    <3>1. \A j \in 1..i : AtomSelector(inlets[j]) = types[j]
      BY <1>1
    <3> QED BY <3>1
  <2>2. r[i] = IF i <= Len(h) /\ (\A j \in 1..i : AtomSelector(h[j]) = AtomSelector(inlets[j]))
               THEN h[i] ELSE inlets[i]
    BY <1>4
  <2>3. r[i] = IF sets(i) THEN h[i] ELSE inlets[i]
    BY <1>3, <2>1, <2>2
  <2>4. inlets[i] \in InletValues /\ AtomSelector(inlets[i]) = types[i]
    BY <1>1, <1>2
  <2>5. CASE sets(i)
    <3>1. i \in 1..Len(atoms) /\ AtomSelector(h[i]) = types[i]
      BY <1>3, <2>5
    <3>2. atoms[i].t # "pointer"
      BY <1>3, <2>4, <3>1, InletTypes
    <3> QED BY <1>3, <2>3, <2>5, <3>1, <3>2
  <2>6. CASE ~sets(i)
    BY <2>3, <2>4, <2>6
  <2> QED BY <2>3, <2>5, <2>6
<1>6. r \in [1..NumPassive -> InletValues]
  BY <1>4, <1>5
<1>7. r \in Seq(InletValues) /\ Len(r) = NumPassive
  BY <1>6, SeqDef, FunctionLen
<1>8. Fitting(r)
  BY <1>5, <1>7 DEF Fitting
<1> QED BY <1>5, <1>8 DEF r, h

\* A handler that sets the inlets and the history of what they were given.
LEMMA InletsStep ==
    ASSUME ObjectInv, Receives, Fitting(passive'), Fitting(given'),
           \A i \in 1..NumPassive : passive'[i] \in {given'[i], Stray},
           delivery' = Nothing, Fine
    PROVE  ObjectInv'
<1>1. OutletsAsMeant'
  <2>1. delivery'.got = <<>> /\ delivery'.meant = <<>>
    BY DEF Nothing
  <2>2. <<>> = [k \in DOMAIN <<>> |-> Blunt(delivery'.by, <<>>[k])]
    OBVIOUS
  <2> QED BY <2>1, <2>2 DEF OutletsAsMeant
<1> QED BY <1>1, ReceiveFrame DEF Fine

\* Inlets that are set by Lua code, each to what the history says.
LEMMA HandleInletStep ==
    ASSUME ObjectInv, Receives, NEW m, NEW v, InletRight(m, v), HandleInlet(m, v)
    PROVE  ObjectInv'
<1>1. m.type \in {"pd_inlet_set_float", "pd_inlet_set_symbol", "pd_inlet_set_inlets"}
  BY DEF HandleInlet
<1>2. delivery' = Nothing /\ Fine
  BY DEF HandleInlet
<1>3. /\ Fitting(passive) /\ Fitting(given) /\ NumPassive \in Nat
      /\ \A i \in 1..NumPassive : passive[i] \in {given[i], Stray}
  BY InletsFit, PassiveInlets DEF ObjectInv, InletsInv
<1>4. CASE ~HasMultiControlInlets
  <2>1. passive' = passive /\ given' = given
    BY <1>4 DEF HandleInlet
  <2> QED BY <1>2, <1>3, <2>1, InletsStep
<1>5. CASE HasMultiControlInlets /\ m.type = "pd_inlet_set_inlets"
  <2> DEFINE h == HostAtoms(v[1])
  <2>1. v[1] \in Seq(Atoms)
    BY <1>5 DEF InletRight
  <2>2. passive' = SetInlets(passive, h) /\ given' = SetInlets(given, h)
    BY <1>5 DEF HandleInlet
  <2>3. Fitting(passive') /\ Fitting(given')
    BY <1>3, <2>1, <2>2, SetInletsFits
  <2>4. ASSUME NEW i \in 1..NumPassive
        PROVE  passive'[i] \in {given'[i], Stray}
    <3> DEFINE sets == i <= Len(v[1]) /\ \A j \in 1..i : AtomSelector(h[j]) = types[j]
    <3>1. /\ passive'[i] = IF sets THEN h[i] ELSE passive[i]
          /\ given'[i] = IF sets THEN h[i] ELSE given[i]
      BY <1>3, <2>1, <2>2, SetInletsFits
    <3> HIDE DEF sets, h
    <3> QED BY <1>3, <3>1
  <2> QED BY <1>2, <2>3, <2>4, InletsStep
<1>6. CASE HasMultiControlInlets /\ m.type # "pd_inlet_set_inlets"
  <2>1. v[1] \in Int /\ v[2] \in Atoms
    BY <1>1, <1>6 DEF InletRight
  <2> DEFINE k == Clamp(v[1]) + 1
  <2>2. passive' = SetInlet(passive, v[1], v[2]) /\ given' = SetInlet(given, v[1], v[2])
    BY <1>6 DEF HandleInlet
  <2>3. k \in 1..NumPassive /\ passive' = SetOne(passive, k, v[2]) /\ given' = SetOne(given, k, v[2])
    BY <1>6, <2>1, <2>2, SetInletIs
  <2>4. v[2].t \in {"float", "symbol"} => v[2] \in InletValues
    BY <2>1, AtomTypes DEF InletValues
  <2> HIDE DEF k
  <2>5. Fitting(passive') /\ Fitting(given')
    BY <1>3, <2>3, <2>4, SetOneFits
  <2>6. \A i \in 1..NumPassive :
           /\ passive'[i] = IF i = k /\ types[k] = v[2].t THEN v[2] ELSE passive[i]
           /\ given'[i] = IF i = k /\ types[k] = v[2].t THEN v[2] ELSE given[i]
    BY <1>3, <2>3, <2>4, SetOneFits
  <2>7. \A i \in 1..NumPassive : passive'[i] \in {given'[i], Stray}
    BY <1>3, <2>6
  <2> QED BY <1>2, <2>5, <2>7, InletsStep
<1> QED BY <1>4, <1>5, <1>6

\* A message about the canvas's position leaves an inlet with the stray value.
LEMMA HandlePositionStep ==
    ASSUME ObjectInv, Receives, NEW m, NEW v, InletRight(m, v), HandlePosition(m, v)
    PROVE  ObjectInv'
<1>1. delivery' = Nothing /\ Fine /\ given' = given
  BY DEF HandlePosition
<1>2. v[1] \in Int
  BY DEF HandlePosition, InletRight
<1>3. /\ Fitting(passive) /\ Fitting(given) /\ NumPassive \in Nat
      /\ \A i \in 1..NumPassive : passive[i] \in {given[i], Stray}
  BY InletsFit, PassiveInlets DEF ObjectInv, InletsInv
<1>4. CASE passive' = passive
  BY <1>1, <1>3, <1>4, InletsStep
<1>5. CASE HasMultiControlInlets /\ passive' = SetInlet(passive, v[1], Stray)
  <2> DEFINE k == Clamp(v[1]) + 1
  <2>1. k \in 1..NumPassive /\ passive' = SetOne(passive, k, Stray)
    BY <1>2, <1>5, SetInletIs
  <2>2. Stray \in InletValues
    BY EmptyAssumption DEF Stray, Garbage, Float, InletValues
  <2> HIDE DEF k
  <2>3. /\ Fitting(passive')
        /\ \A i \in 1..NumPassive :
              passive'[i] = IF i = k /\ types[k] = Stray.t THEN Stray ELSE passive[i]
    BY <1>3, <2>1, <2>2, SetOneFits
  <2>4. \A i \in 1..NumPassive : passive'[i] \in {given'[i], Stray}
    BY <1>1, <1>3, <2>3
  <2> QED BY <1>1, <1>3, <2>3, <2>4, InletsStep
<1> QED BY <1>4, <1>5 DEF HandlePosition

\* Every message to the host.
LEMMA ReceiveStep ==
    ASSUME ObjectInv, Receive
    PROVE  ObjectInv'
<1> DEFINE m == Head(toHost)
           v == Parse(HostKinds[m.type], m.fields)
<1>1. Receives /\ HostRight(m)
  BY ReceivesHead
<1>2. OutletRight(m, v) /\ ListRight(m, v) /\ SendRight(m, v) /\ InletRight(m, v)
  BY <1>1 DEF HostRight
<1>3. \/ HandleOutlet(m, v)
      \/ HandleList(m, v)
      \/ HandleAudio(m, v)
      \/ HandleSend(m, v)
      \/ HandleInlet(m, v)
      \/ HandlePosition(m, v)
      \/ Underflow(m, v)
  BY Zenon DEF Receive
<1> HIDE DEF m, v
<1> QED BY <1>1, <1>2, <1>3, HandleOutletStep, HandleListStep, HandleAudioStep, HandleSendStep,
           HandleInletStep, HandlePositionStep, UnderflowStep

-----------------------------------------------------------------------------
(* The theorems *)

\* Nothing is on its way.
LEMMA ObjectInit ==
    ASSUME Init
    PROVE  ObjectInv
<1>1. io \in IOs /\ NumPassive \in Nat
  BY PassiveNumber DEF Init
<1>2. passive \in [1 .. NumPassive -> PassiveAtoms] /\ given = passive /\ types = [i \in DOMAIN passive |-> passive[i].t]
  BY DEF Init
<1>3. ASSUME NEW a \in PassiveAtoms
      PROVE  a \in InletValues /\ AtomSelector(a) = a.t
  <2>1. a \in Atoms /\ a.t # "pointer"
    BY DEF PassiveAtoms
  <2>2. a.t \in {"float", "symbol"} /\ a \in InletValues
    BY <2>1, AtomTypes DEF InletValues
  <2> QED BY <2>2, InletTypes
<1>4. passive \in [1 .. NumPassive -> InletValues] /\ DOMAIN passive = 1..NumPassive
  BY <1>2, <1>3
<1>5. passive \in Seq(InletValues) /\ Len(passive) = NumPassive
  BY <1>1, <1>4, SeqDef, FunctionLen
<1>6. \A i \in 1..NumPassive : AtomSelector(passive[i]) = types[i]
  BY <1>2, <1>3, <1>4
<1>7. InletsInv
  BY <1>2, <1>5, <1>6 DEF InletsInv
<1>8. Len(toRunner) \in 0..MaxMessages /\ Len(toHost) \in 0..MaxMessages
  BY BoundsAssumption DEF Init
<1>9. TypeOK
  BY <1>1, <1>4, <1>5, <1>6, <1>8 DEF Init, TypeOK, InletValues
<1>10. RunnerQueue /\ HostQueue
  <2> DEFINE S == {}
  <2>1. toRunner \in Seq(S) /\ toHost \in Seq(S)
    BY DEF Init
  <2>2. (\A m \in S : RunnerRight(m)) /\ (\A m \in S : HostRight(m))
    OBVIOUS
  <2> HIDE DEF S
  <2> QED BY <2>1, <2>2 DEF RunnerQueue, HostQueue
<1>11. StackBalanced /\ ArgumentsArrive
  BY DEF Init, StackBalanced, ArgumentsArrive, Nothing
<1>12. OutletsAsMeant
  <2>1. delivery.got = <<>> /\ delivery.meant = <<>>
    BY DEF Init, Nothing
  <2>2. <<>> = [k \in DOMAIN <<>> |-> Blunt(delivery.by, <<>>[k])]
    OBVIOUS
  <2> QED BY <2>1, <2>2 DEF OutletsAsMeant
<1> QED BY <1>7, <1>9, <1>10, <1>11, <1>12 DEF ObjectInv

\* A step that changes nothing.
LEMMA ObjectStutters ==
    ASSUME ObjectInv, UNCHANGED vars
    PROVE  ObjectInv'
<1>1. UNCHANGED <<io, types, passive, given, toRunner, toHost, chunk, depth, left, call, delivery, fate>>
  BY DEF vars
<1>2. TypeOK' /\ StackBalanced'
  BY <1>1 DEF ObjectInv, TypeOK, NumPassive, StackBalanced
<1>3. InletsInv' /\ RunnerQueue' /\ HostQueue'
  BY <1>1, InletsStay, RunnerQueueStays, HostQueueStays DEF ObjectInv
<1>4. ArgumentsArrive'
  BY <1>1 DEF ObjectInv, ArgumentsArrive, HasMultiControlInlets
<1>5. OutletsAsMeant'
  BY <1>1 DEF ObjectInv, OutletsAsMeant
<1> QED BY <1>2, <1>3, <1>4, <1>5 DEF ObjectInv

\* The invariant holds: whatever the flags, the values, the lists and the
\* lengths of the queues, each message on its way will bring about what it was
\* meant to.
THEOREM ObjectInvariant == Spec => []ObjectInv
<1>1. ObjectInv /\ [Next]_vars => ObjectInv'
  BY MethodsStep, HandleStep, OwnOutletStep, OwnSendStep, OwnInletStep, OwnCanvasStep,
     ReceiveStep, ObjectStutters DEF Next
<1> QED BY ObjectInit, <1>1, PTL DEF Spec

\* The passive inlets keep their number and types, the queues their bounds and
\* the Lua stack its bottom.
THEOREM ObjectTypes == Spec => []TypeOK
BY ObjectInvariant, PTL DEF ObjectInv

\* Lua's functions get what came in at the inlets: what the queue, the fields of
\* the message and its handler in the runner do to it included.
THEOREM InletsReachLua == Spec => []ArgumentsArrive
BY ObjectInvariant, PTL DEF ObjectInv

\* No handler of the runner leaves anything on the Lua stack but what setVariable
\* and outletRet are known to leave.
THEOREM StackIsBalanced == Spec => []StackBalanced
BY ObjectInvariant, PTL DEF ObjectInv

\* What Lua returns or sends reaches the outlets, the receivers and the audio
\* rings of the patch as it was meant.
THEOREM ResultsReachOutlets == Spec => []OutletsAsMeant
BY ObjectInvariant, PTL DEF ObjectInv
=============================================================================
