---------------------------- MODULE MCObjectCall ----------------------------
(* Instances of ObjectCall for TLC. *)
EXTENDS ObjectCall

IO(ins, outs, signal) == [ins |-> ins, outs |-> outs, signal |-> signal]

\* -c11, -c10, -c12 (a table spread), -c32 (passive inlets), -s11 and, with one
\* ring less than outlets, -s12.
AllIOs == {IO(1, 1, FALSE), IO(1, 0, FALSE), IO(1, 2, FALSE), IO(3, 2, FALSE),
           IO(1, 1, TRUE), IO(1, 2, TRUE)}

\* Of no atom, of one of each type, and of two and three: as many as the outlets
\* of AllIOs and one more.
AllLists == {<<>>} \cup {<<a>> : a \in Atoms}
    \cup {<<Float(x), Symbol(s)>> : x \in Floats, s \in Symbols}
    \cup {<<Symbol(s), Float(x), Symbol(s)>> : x \in Floats, s \in Symbols \ {Empty}}
=============================================================================
