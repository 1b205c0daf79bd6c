---------------------------- MODULE PstreamServer ----------------------------
(* The packet stream server and its clients: serverPstream::runSerial(),     *)
(* which serves one connection after the other through serverPstreamConn, a  *)
(* program that does the same with serverPstreamConn itself, and the callers *)
(* of clientXmlTransport_pstream, all over PacketSocket.  A client with a    *)
(* window of 1 is clientXmlTransport_pstream, which waits for each response; *)
(* one with a larger window is a program that uses a packet socket itself.   *)
EXTENDS PacketSocket

CONSTANTS
    Calls,          \* packets that are calls ...
    ShutdownCall,   \* ... among them that of method system.shutdown
    Answer,         \* what the registry makes of a call
    Window,         \* Window[c]: calls client c may have outstanding
    MaxCalls,       \* bound: calls of a client
    MaxBreaks,      \* bound: connections that break
    MaxInterrupts,  \* bound: signals that interrupt the server
    Programs        \* what runs the server: "runSerial", "own"

ASSUME CallsAssumption ==
    /\ Calls \subseteq Packets /\ ShutdownCall \in Calls
    /\ Answer \in [Calls -> Packets]
    /\ Window \in [Conn -> Nat \ {0}]
    /\ {MaxCalls, MaxBreaks, MaxInterrupts} \subseteq Nat
    /\ Programs \subseteq {"runSerial", "own"}

VARIABLES
    program,        \* the program that runs the server
    pc,             \* where it is
    current,        \* the connection it serves: {} or one client
    backlog,        \* connections not accepted yet
    termRequested,
    interrupts,     \* times it has been interrupted
    client,         \* client[c]: "new", "ready", "failed", "gone"
    asked           \* asked[c]: the calls c has made

serverVars == <<program, pc, current, backlog, termRequested, interrupts>>
clientVars == <<client, asked>>
vars == <<socketVars, serverVars, clientVars>>

ClientEnd(c) == <<c, "client">>
ServerEnd(c) == <<c, "server">>
Serving == CHOOSE c \in current : TRUE

\* The type invariant.
TypeOK ==
    /\ SocketTypeOK
    /\ program \in Programs
    /\ pc \in {"loop", "accept", "serve", "reading", "writing", "ended", "threw"}
    /\ current \in {{}} \cup {{c} : c \in Conn}
    /\ backlog \in Seq(Conn)
    /\ termRequested \in BOOLEAN
    /\ interrupts \in 0 .. MaxInterrupts
    /\ client \in [Conn -> {"new", "ready", "failed", "gone"}]
    /\ asked \in [Conn -> Seq(Calls)]

Init ==
    /\ SocketInit
    /\ program \in Programs
    /\ pc = "loop" /\ current = {} /\ backlog = <<>>
    /\ termRequested = FALSE /\ interrupts = 0
    /\ client = [c \in Conn |-> "new"]
    /\ asked = [c \in Conn |-> <<>>]

\* The caller of an operation takes note of its outcome; a step that starts no
\* other operation leaves the end idle.
TakesNote(e) == io' = [io EXCEPT ![e] = Idle]
SocketUnchanged == UNCHANGED socketVars
SocketExceptIo == UNCHANGED <<wire, open, broken, sock, interrupt, sent, got, heard>>
-----------------------------------------------------------------------------
(* Clients. *)

Connect(c) ==
    /\ client[c] = "new"
    /\ client' = [client EXCEPT ![c] = "ready"]
    /\ backlog' = Append(backlog, c)
    /\ UNCHANGED <<socketVars, program, pc, current, termRequested, interrupts, asked>>

ClientIdle(c) == client[c] = "ready" /\ io[ClientEnd(c)] = Idle
Outstanding(c) == Len(asked[c]) - Len(got[ClientEnd(c)])

\* sendCall()
SendCall(c) ==
    /\ ClientIdle(c) /\ open[ClientEnd(c)] = "open"
    /\ Outstanding(c) < Window[c] /\ Len(asked[c]) < MaxCalls
    /\ \E p \in Calls :
          /\ asked' = [asked EXCEPT ![c] = Append(@, p)]
          /\ StartWrite(ClientEnd(c), p)
    /\ SocketExceptIo
    /\ UNCHANGED <<serverVars, client>>

\* recvResp()
RecvResp(c) ==
    /\ ClientIdle(c) /\ Outstanding(c) > 0
    /\ StartRead(ClientEnd(c), TRUE)
    /\ SocketExceptIo
    /\ UNCHANGED <<serverVars, clientVars>>

\* The call has been sent, or its response has arrived, or the call throws.
ClientReturns(c) ==
    /\ client[c] = "ready"
    /\ io[ClientEnd(c)].result # "none"
    /\ client' = [client EXCEPT
          ![c] = IF io[ClientEnd(c)].result \in {"written", "packet"} THEN @ ELSE "failed"]
    /\ TakesNote(ClientEnd(c))
    /\ SocketExceptIo
    /\ UNCHANGED <<serverVars, asked>>

\* No more calls from this client, which still hears the responses.
ShutDown(c) ==
    /\ client[c] = "ready" /\ Shut(ClientEnd(c))
    /\ UNCHANGED <<serverVars, clientVars>>

\* The client goes, possibly in the middle of a call.
Hangup(c) ==
    /\ client[c] \in {"ready", "failed"}
    /\ Close(ClientEnd(c))
    /\ client' = [client EXCEPT ![c] = "gone"]
    /\ UNCHANGED <<serverVars, asked>>
-----------------------------------------------------------------------------
(* The server. *)

Set(newPc) == pc' = newPc /\ UNCHANGED <<program, backlog, termRequested, interrupts>>

\* The condition of runSerial()'s loop; the program's own loop has the same.
Loop_Mutant ==
    /\ pc = "loop"
    /\ Set(IF interrupt THEN "ended" ELSE "accept")
    /\ UNCHANGED <<socketVars, current, clientVars>>
Loop ==
    /\ pc = "loop"
    /\ Set(IF termRequested \/ interrupt THEN "ended" ELSE "accept")
    /\ UNCHANGED <<socketVars, current, clientVars>>

\* accept() returns a connection, which runSerial() forgets if it has been
\* interrupted.
Accept ==
    /\ pc = "accept" /\ backlog # <<>>
    /\ backlog' = Tail(backlog)
    /\ IF interrupt THEN pc' = "loop" /\ current' = {}
                    ELSE pc' = "serve" /\ current' = {Head(backlog)}
    /\ SocketUnchanged
    /\ UNCHANGED <<program, termRequested, interrupts, clientVars>>

\* A connection is over: its packet socket closes its own duplicate of the
\* descriptor.  runSerial() never closes the one accept() gave it.
Leave(newPc) ==
    /\ Set(newPc)
    /\ current' = {}
    /\ open' = IF program = "own" THEN [open EXCEPT ![ServerEnd(Serving)] = "closed"] ELSE open
    /\ TakesNote(ServerEnd(Serving))
    /\ UNCHANGED <<wire, broken, sock, interrupt, sent, got, heard, clientVars>>

\* The loop of serverPstreamConn::run(): read a call, waiting for it or, in
\* the program's own loop, not waiting (runOnce() and runOnceNoWait()).
RunOnce ==
    /\ pc = "serve" /\ ~interrupt
    /\ Set("reading")
    /\ \E wait \in (IF program = "own" THEN BOOLEAN ELSE {TRUE}) :
          StartRead(ServerEnd(Serving), wait)
    /\ SocketExceptIo
    /\ UNCHANGED <<current, clientVars>>

RunInterrupted == pc = "serve" /\ interrupt /\ program = "runSerial" /\ Leave("loop")

Outcome(result) == io[ServerEnd(Serving)].result = result

\* processCall(), whose system.shutdown requests termination, and the start of
\* writing the response.
ProcessCall_Mutant ==
    LET p == io[ServerEnd(Serving)].packet
    IN  /\ pc = "reading" /\ Outcome("packet")
        /\ termRequested' = (termRequested \/ p = ShutdownCall)
        /\ pc' = "writing"
        /\ StartWrite(ServerEnd(Serving), Answer[got[ServerEnd(Serving)][1]])
        /\ SocketExceptIo
        /\ UNCHANGED <<program, current, backlog, interrupts, clientVars>>
ProcessCall ==
    LET p == io[ServerEnd(Serving)].packet
    IN  /\ pc = "reading" /\ Outcome("packet")
        /\ termRequested' = (termRequested \/ p = ShutdownCall)
        /\ pc' = "writing"
        /\ StartWrite(ServerEnd(Serving), Answer[p])
        /\ SocketExceptIo
        /\ UNCHANGED <<program, current, backlog, interrupts, clientVars>>

\* Nothing read, or the response written: around run()'s loop again.
ServeOn ==
    /\ \/ pc = "reading" /\ (Outcome("nothing") \/ Outcome("interrupted"))
       \/ pc = "writing" /\ Outcome("written")
    /\ Set("serve")
    /\ TakesNote(ServerEnd(Serving))
    /\ SocketExceptIo
    /\ UNCHANGED <<current, clientVars>>

ClientDisconnected == pc = "reading" /\ Outcome("eof") /\ Leave("loop")

\* The packet socket threw, or the client went before its response was
\* written: the exception leaves runSerial(); the program's own loop catches it.
ServeThrows ==
    /\ pc \in {"reading", "writing"} /\ (Outcome("threw") \/ Outcome("hungup"))
    /\ Leave(IF program = "own" THEN "loop" ELSE "threw")

ServerStep ==
    \/ Loop \/ Accept \/ RunOnce \/ RunInterrupted \/ ProcessCall \/ ServeOn
    \/ ClientDisconnected \/ ServeThrows

\* The program's signal handler; accept() returns with EINTR if it waits.
Interrupt ==
    /\ interrupts < MaxInterrupts /\ ~interrupt
    /\ SetInterrupt
    /\ interrupts' = interrupts + 1
    /\ pc' = IF pc = "accept" THEN "loop" ELSE pc
    /\ UNCHANGED <<program, current, backlog, termRequested, clientVars>>

\* The program clears the flag and goes on: it calls runSerial() again, or
\* run() on the connection it was serving.
Resume ==
    /\ interrupt
    /\ pc = "ended" \/ (program = "own" /\ pc = "serve")
    /\ interrupt' = FALSE
    /\ pc' = IF pc = "ended" THEN "loop" ELSE pc
    /\ UNCHANGED <<wire, open, broken, sock, io, sent, got, heard>>
    /\ UNCHANGED <<program, current, backlog, termRequested, interrupts, clientVars>>

\* serverPstream::terminate(), called by another thread.
Terminate ==
    /\ program = "runSerial" /\ ~termRequested
    /\ termRequested' = TRUE
    /\ SocketUnchanged
    /\ UNCHANGED <<program, pc, current, backlog, interrupts, clientVars>>

ConnectionBreaks(c) ==
    /\ Cardinality(broken) < MaxBreaks
    /\ Break(c)
    /\ UNCHANGED <<serverVars, clientVars>>

SocketStep(e) == Progress(e) /\ UNCHANGED <<serverVars, clientVars>>

ClientStep(c) ==
    \/ Connect(c) \/ SendCall(c) \/ RecvResp(c) \/ ClientReturns(c)
    \/ ShutDown(c) \/ Hangup(c)

Next ==
    \/ ServerStep \/ Interrupt \/ Resume \/ Terminate
    \/ \E c \in Conn : ClientStep(c) \/ ConnectionBreaks(c)
    \/ \E e \in End : SocketStep(e)

\* The server and the operations in progress go on; a client takes note of
\* outcomes and waits for its responses.  A client goes when it has failed or
\* has no more to ask, and one that pipelines goes in any case: it may have to.
Done(c) == client[c] = "failed" \/ (ClientIdle(c) /\ Outstanding(c) = 0) \/ Window[c] > 1
Fairness ==
    /\ WF_vars(ServerStep)
    /\ \A e \in End : WF_vars(SocketStep(e))
    /\ \A c \in Conn :
          /\ WF_vars(RecvResp(c)) /\ WF_vars(ClientReturns(c))
          /\ WF_vars(Done(c) /\ Hangup(c))

Spec == Init /\ [][Next]_vars /\ Fairness
-----------------------------------------------------------------------------
(* Properties. *)

Channel == INSTANCE PacketChannel WITH
    Way <- End, written <- sent,
    taken <- [w \in End |-> got[Peer(w)]],
    state <- [w \in End |-> heard[Peer(w)]]

\* However the kernel cuts the stream, wherever a read is interrupted or comes
\* back empty, and whatever bytes the packets hold, each direction of each
\* connection is a channel of whole packets.
ImplementsPacketChannel == Channel!Spec

\* The responses a client gets are those to its own calls, in order; none is
\* an answer to the call of another client served before it, and none is given
\* twice after an interrupted read.
ResponsesMatchCalls ==
    \A c \in Conn :
        /\ Len(got[ClientEnd(c)]) <= Len(asked[c])
        /\ \A i \in DOMAIN got[ClientEnd(c)] : got[ClientEnd(c)][i] = Answer[asked[c][i]]

\* An exception ends the server only when a client went away in the middle of
\* a call or its connection broke: orderly clients, whether they shut down or
\* close, never make packetSocket throw.
OnlyRudeClientsEndServer ==
    pc = "threw" => \E c \in Conn : c \in broken \/ (client[c] = "gone" /\ Outstanding(c) > 0)

\* A call returns, with its response or by an exception, as long as the server
\* runs and has not been interrupted: runSerial() drops the connection it
\* serves then, without closing it.
CallReturns ==
    \A c \in Conn :
        (Window[c] = 1 /\ Outstanding(c) > 0)
            ~> (\/ Outstanding(c) = 0 \/ client[c] \in {"failed", "gone"}
                \/ pc \in {"ended", "threw"} \/ interrupts > 0)

\* Termination requested by system.shutdown, or by terminate() while the
\* server is not in accept(), ends runSerial() once the client it serves goes.
TerminationEndsServer ==
    (program = "runSerial" /\ termRequested /\ pc # "accept") ~> (pc \in {"ended", "threw"})
=============================================================================
