---------------------------- MODULE MessageCodec ----------------------------
(***************************************************************************)
(* The templates parse and writeToStream of ofxOfeliaStream: a message is  *)
(* a sequence of fields with neither names nor types on the wire.  The     *)
(* reader asks for the types it expects; when they are not those that were *)
(* written it reads other bytes than meant, here and in all later fields.  *)
(*                                                                         *)
(* An atom is a record of its type t and its value v.  A pointer is the    *)
(* userdata v that its reference stands for in the registry of Lua.        *)
(***************************************************************************)
EXTENDS Integers, Sequences

CONSTANTS Floats, Symbols, Empty, Userdata

ASSUME EmptyAssumption == Empty \in Symbols

Float(x) == [t |-> "float", v |-> x]
Symbol(s) == [t |-> "symbol", v |-> s]
Pointer(u) == [t |-> "pointer", v |-> u]

Atoms == {Float(x) : x \in Floats} \cup {Symbol(s) : s \in Symbols}
            \cup {Pointer(u) : u \in Userdata}

\* What is read where something else was written, and a symbol without its
\* last character.
Garbage == [t |-> "garbage", v |-> Empty]
Cut(s) == IF s = Empty THEN Symbol(Empty) ELSE [t |-> "cut", v |-> s]

Of(kind, value) == [kind |-> kind, value |-> value]

HasPointer(atoms) == \E i \in DOMAIN atoms : atoms[i].t = "pointer"

\* The assertions of writeToStream: there is no code for an atom that is a
\* pointer.  A build without assertions sends its type and no value.
Writable(fields) ==
    \A i \in DOMAIN fields : fields[i].kind = "atoms" => ~HasPointer(fields[i].value)

\* An int read as an intptr_t or the other way round: their low half is shared.
\* The code does so in last fields only.
Agree(kind, field) == kind = field.kind \/ {kind, field.kind} = {"int", "intptr_t"}

Parse(kinds, fields) ==
    LET agree(i) == \A j \in 1 .. i : j <= Len(fields) /\ Agree(kinds[j], fields[j])
    IN  [i \in DOMAIN kinds |-> IF agree(i) THEN fields[i].value ELSE Garbage]

\* In the host, parse overwrites the last character of a symbol by '\0'.
HostAtoms(atoms) ==
    [i \in DOMAIN atoms |-> IF atoms[i].t = "symbol" THEN Cut(atoms[i].v) ELSE atoms[i]]

\* The index of that character is -1 when there is none.
HostUnderflows(atoms) == \E i \in DOMAIN atoms : atoms[i] = Symbol(Empty)
=============================================================================
