---------------------------- MODULE ConnService ----------------------------
(* What ServerRun() and ServerRunOnce() promise, without the thread, list    *)
(* and interrupt machinery that keeps the promise: connections are served,   *)
(* at most MaxConn at once and each client once; after a termination request *)
(* at most one more connection begins; the call returns only when nothing is *)
(* being served, unless it fails.                                            *)
EXTENDS Naturals, FiniteSets

CONSTANTS
    Chan,       \* the clients, one channel each
    MaxConn     \* the most connections served at once

VARIABLES
    phase,      \* "closed": no call running; "open"; "closing": termination
                \* has been requested; "failed": the call gave up
    serving,    \* channels being served
    served,     \* channels whose service is over
    grace       \* one connection may still begin although phase = "closing"

vars == <<phase, serving, served, grace>>

Init ==
    /\ phase = "closed"
    /\ serving = {}
    /\ served = {}
    /\ grace = FALSE

\* Serve connections, possibly with the termination request already made.
Start ==
    /\ phase = "closed"
    /\ \/ phase' = "open" /\ grace' = FALSE
       \/ phase' = "closing" /\ grace' \in BOOLEAN
    /\ UNCHANGED <<serving, served>>

Terminate ==
    /\ phase = "open"
    /\ phase' = "closing"
    /\ grace' \in BOOLEAN
    /\ UNCHANGED <<serving, served>>

Begin(c) ==
    /\ phase = "open" \/ grace
    /\ c \notin serving \cup served
    /\ Cardinality(serving) < MaxConn
    /\ serving' = serving \cup {c}
    /\ grace' = FALSE
    /\ UNCHANGED <<phase, served>>

\* The last chance to begin a connection passes unused.
GiveUp ==
    /\ grace
    /\ grace' = FALSE
    /\ UNCHANGED <<phase, serving, served>>

End(c) ==
    /\ c \in serving
    /\ serving' = serving \ {c}
    /\ served' = served \cup {c}
    /\ UNCHANGED <<phase, grace>>

Stop ==
    /\ phase \in {"open", "closing"}
    /\ serving = {}
    /\ phase' = "closed"
    /\ grace' = FALSE
    /\ UNCHANGED <<serving, served>>

Fail ==
    /\ phase \in {"open", "closing"}
    /\ phase' = "failed"
    /\ grace' = FALSE
    /\ UNCHANGED <<serving, served>>

Next ==
    \/ Start \/ Terminate \/ GiveUp \/ Stop \/ Fail
    \/ \E c \in Chan : Begin(c) \/ End(c)

Spec == Init /\ [][Next]_vars
=============================================================================
