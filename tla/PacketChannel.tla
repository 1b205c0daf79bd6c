---------------------------- MODULE PacketChannel ----------------------------
(* What a packet socket promises the two ends of a connection, without the   *)
(* bytes: whole packets arrive in the order in which they were written, none *)
(* twice and none made up, and an end of file means that nothing is missing  *)
(* unless the connection broke or the other end closed it unread.            *)
EXTENDS Naturals, Sequences

CONSTANTS
    Way,        \* the directions of the connections
    Packets

VARIABLES
    written,    \* written[w]: the packets written whole
    taken,      \* taken[w]: the packets the reader has got
    state       \* "flows"; "ended": the reader was told of the end; "failed":
                \* it was told of an error

vars == <<written, taken, state>>

Init ==
    /\ written = [w \in Way |-> <<>>]
    /\ taken = [w \in Way |-> <<>>]
    /\ state = [w \in Way |-> "flows"]

Write(w, p) ==
    /\ written' = [written EXCEPT ![w] = Append(@, p)]
    /\ UNCHANGED <<taken, state>>

Take(w) ==
    /\ state[w] = "flows"
    /\ Len(taken[w]) < Len(written[w])
    /\ taken' = [taken EXCEPT ![w] = Append(@, written[w][Len(@) + 1])]
    /\ UNCHANGED <<written, state>>

End(w) ==
    /\ state[w] = "flows"
    /\ taken[w] = written[w]
    /\ state' = [state EXCEPT ![w] = "ended"]
    /\ UNCHANGED <<written, taken>>

Fail(w) ==
    /\ state[w] = "flows"
    /\ state' = [state EXCEPT ![w] = "failed"]
    /\ UNCHANGED <<written, taken>>

Next == \E w \in Way : Take(w) \/ End(w) \/ Fail(w) \/ \E p \in Packets : Write(w, p)

Spec == Init /\ [][Next]_vars
=============================================================================
