--------------------------- MODULE MCPstreamServer ---------------------------
EXTENDS PstreamServer, TLC

EmptyCall == <<>>

\* A call and a response whose bytes look like control words once escaped.
OddCall == <<ESC, "E">>
OddCalls == {OddCall, EmptyCall}
OddAnswer == (OddCall :> <<"D">>) @@ (EmptyCall :> <<ESC>>)
OddPackets == OddCalls \cup {<<"D">>, <<ESC>>}

\* Short ones, for the runs with more clients.
ShortCall == <<"E">>
ShortCalls == {ShortCall, EmptyCall}
ShortAnswer == (ShortCall :> <<>>) @@ (EmptyCall :> <<"D">>)
ShortPackets == ShortCalls \cup {<<"D">>}

\* One client pipelines its calls; all wait for each response.
Pipelining == [c \in Conn |-> 2]
Synchronous == [c \in Conn |-> 1]
=============================================================================
