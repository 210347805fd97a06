---------------------------- MODULE FifoChannel ----------------------------
(***************************************************************************)
(* What the two processes of ofelia take a TCP connection of an            *)
(* ofxOfeliaStream to be: messages come out once each, whole, in the order *)
(* in which they went in.  The k-th message to go in is named k.           *)
(***************************************************************************)
EXTENDS Naturals, Sequences

VARIABLES
    accepted,    \* how many messages sendData has put on the wire
    delivered    \* the names of the messages receive() has returned, in order

channel == <<accepted, delivered>>

Init == accepted = 0 /\ delivered = <<>>

Send == accepted' = accepted + 1 /\ UNCHANGED delivered

\* The reader gets the next message in line.
Deliver ==
    /\ Len(delivered) < accepted
    /\ delivered' = Append(delivered, Len(delivered) + 1)
    /\ UNCHANGED accepted

Next == Send \/ Deliver

Spec == Init /\ [][Next]_channel
=============================================================================
