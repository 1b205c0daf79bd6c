---------------------------- MODULE PacketSocket ----------------------------
(* The packet sockets of packetsocket.cpp at the two ends of some stream     *)
(* connections: packets framed by control words on a stream that the kernel  *)
(* carries in pieces, a reader that takes the pieces apart again, and the    *)
(* waits, interruptions and ends of it.  A byte is the escape character or a *)
(* letter; an operation of an end is in progress while op is not "none" and  *)
(* leaves its outcome for the caller in result.                              *)
EXTENDS Naturals, Sequences, FiniteSets

CONSTANTS
    Conn,           \* the connections
    Packets,        \* the packets that are sent, sequences of bytes
    KernelSize,     \* bytes the kernel holds on their way to one end
    RecvSize,       \* bytes readFromFile() asks the kernel for at once
    Pieces          \* bytes the kernel may take at once: pieces of one byte
                    \* make every larger one, with the reader looking on

ESC == "ESC"
Byte == {ESC, "P", "K", "T", "E", "N", "D", "S", "C", "O"}
PKT == <<"P", "K", "T">>
END == <<"E", "N", "D">>
NOP == <<"N", "O", "P">>
ESCAPED == <<"E", "S", "C">>

ASSUME PacketsAssumption == Packets \subseteq Seq(Byte)
ASSUME SizeAssumption == KernelSize \in Nat \ {0} /\ RecvSize \in Nat \ {0} /\ Pieces \subseteq Nat \ {0}

\* An end of a connection: a connection and a side of it.
End == Conn \X {"client", "server"}
Peer(e) == <<e[1], IF e[2] = "client" THEN "server" ELSE "client">>

VARIABLES
    wire,           \* wire[e]: bytes end e has sent and its peer not received
    open,           \* "open", "shut" (for sending) or "closed"
    broken,         \* connections that the network has lost
    sock,           \* sock[e]: the packetSocket_impl of the end
    io,             \* io[e]: the operation in progress on it
    interrupt,      \* *interruptP of the server's reads
    sent,           \* sent[e]: packets end e has written whole
    got,            \* got[e]: packets end e has read
    heard           \* how the reads of end e ended: see PacketChannel

socketVars == <<wire, open, broken, sock, io, interrupt, sent, got, heard>>

Ops == {"none", "write", "test", "poll", "recv"}
Results == {"none", "written", "hungup", "packet", "nothing", "eof", "interrupted", "threw"}
SockType ==
    [readBuffer : Seq(Seq(Byte)), accum : Seq(Byte), inPacket : BOOLEAN,
     inEscapeSeq : BOOLEAN, escAccum : Seq(Byte), eof : BOOLEAN]
IoType ==
    [op : Ops, wait : BOOLEAN, packet : Seq(Byte), pending : Seq(Byte), result : Results]

NewSocket ==
    [readBuffer |-> <<>>, accum |-> <<>>, inPacket |-> FALSE,
     inEscapeSeq |-> FALSE, escAccum |-> <<>>, eof |-> FALSE]
Idle == [op |-> "none", wait |-> FALSE, packet |-> <<>>, pending |-> <<>>, result |-> "none"]
Returns(result) == [Idle EXCEPT !.result = result]

SocketTypeOK ==
    /\ wire \in [End -> Seq(Byte)] /\ \A e \in End : Len(wire[e]) <= KernelSize
    /\ open \in [End -> {"open", "shut", "closed"}]
    /\ broken \subseteq Conn
    /\ sock \in [End -> SockType]
    /\ \A e \in End : /\ Len(sock[e].escAccum) <= 3
                      /\ sock[e].escAccum # <<>> => sock[e].inEscapeSeq
    /\ io \in [End -> IoType]
    /\ interrupt \in BOOLEAN
    /\ sent \in [End -> Seq(Packets)] /\ got \in [End -> Seq(Seq(Byte))]
    /\ heard \in [End -> {"flows", "ended", "failed"}]

SocketInit ==
    /\ wire = [e \in End |-> <<>>]
    /\ open = [e \in End |-> "open"]
    /\ broken = {}
    /\ sock = [e \in End |-> NewSocket]
    /\ io = [e \in End |-> Idle]
    /\ interrupt = FALSE
    /\ sent = [e \in End |-> <<>>]
    /\ got = [e \in End |-> <<>>]
    /\ heard = [e \in End |-> "flows"]
-----------------------------------------------------------------------------
(* Framing. *)

\* What packetSocket_impl::writeWait() sends for a packet.
EscapeByte_Mutant(b) == <<b>>
EscapeByte(b) == IF b = ESC THEN <<ESC>> \o ESCAPED ELSE <<b>>
Escaped(p) ==
    LET escaped[i \in 0 .. Len(p)] == IF i = 0 THEN <<>> ELSE escaped[i - 1] \o EscapeByte(p[i])
    IN  escaped[Len(p)]
Frame(p) == <<ESC>> \o PKT \o Escaped(p) \o <<ESC>> \o END

\* A step of the reader keeps what it makes of the stream and whether it threw.
Continue(s) == [s |-> s, threw |-> FALSE]
Throw(s) == [s |-> s, threw |-> TRUE]

\* takeSomeEscapeSeq() when it has the whole control word.  Where it throws,
\* it leaves escAccum full.
ControlWord_KeepsData(s, w) ==
    LET t == [s EXCEPT !.inEscapeSeq = FALSE, !.escAccum = <<>>]
    IN  CASE w = NOP -> Continue(t)
          [] w = PKT -> Continue([t EXCEPT !.inPacket = TRUE])
          [] w = END /\ s.inPacket ->
                Continue([t EXCEPT !.readBuffer = Append(@, s.accum), !.inPacket = FALSE])
          [] w = ESCAPED /\ s.inPacket -> Continue([t EXCEPT !.accum = Append(@, ESC)])
          [] OTHER -> Throw([s EXCEPT !.escAccum = w])
ControlWord_KeepsWord(s, w) ==
    LET t == [s EXCEPT !.inEscapeSeq = FALSE]
    IN  CASE w = NOP -> Continue(t)
          [] w = PKT -> Continue([t EXCEPT !.accum = <<>>, !.inPacket = TRUE])
          [] w = END /\ s.inPacket ->
                Continue([t EXCEPT !.readBuffer = Append(@, s.accum), !.accum = <<>>,
                                   !.inPacket = FALSE])
          [] w = ESCAPED /\ s.inPacket -> Continue([t EXCEPT !.accum = Append(@, ESC)])
          [] OTHER -> Throw([s EXCEPT !.escAccum = w])
ControlWord(s, w) ==
    LET t == [s EXCEPT !.inEscapeSeq = FALSE, !.escAccum = <<>>]
    IN  CASE w = NOP -> Continue(t)
          [] w = PKT -> Continue([t EXCEPT !.accum = <<>>, !.inPacket = TRUE])
          [] w = END /\ s.inPacket ->
                Continue([t EXCEPT !.readBuffer = Append(@, s.accum), !.accum = <<>>,
                                   !.inPacket = FALSE])
          [] w = ESCAPED /\ s.inPacket -> Continue([t EXCEPT !.accum = Append(@, ESC)])
          [] OTHER -> Throw([s EXCEPT !.escAccum = w])

\* takeSomeEscapeSeq() and takeSomePacket(), byte by byte.
TakeByte(s, b) ==
    IF s.inEscapeSeq
    THEN CASE Len(s.escAccum) = 3 -> ControlWord(s, s.escAccum)
           [] Len(s.escAccum) = 2 -> ControlWord(s, Append(s.escAccum, b))
           [] OTHER -> Continue([s EXCEPT !.escAccum = Append(@, b)])
    ELSE CASE b = ESC -> Continue([s EXCEPT !.inEscapeSeq = TRUE])
           [] b # ESC /\ s.inPacket -> Continue([s EXCEPT !.accum = Append(@, b)])
           [] OTHER -> Throw(s)

\* processBytesRead(): what follows the byte at which it throws is lost.
TakeNext(r, b) == IF r.threw THEN r ELSE TakeByte(r.s, b)
ProcessBytesRead(s, bytes) ==
    LET after[i \in 0 .. Len(bytes)] ==
            IF i = 0 THEN Continue(s) ELSE TakeNext(after[i - 1], bytes[i])
    IN  after[Len(bytes)]

\* verifyNothingAccumulated() does not throw.
NothingAccumulated(s) == ~s.inEscapeSeq /\ ~s.inPacket
-----------------------------------------------------------------------------
(* Writing: writeWait() waits while the kernel has no room. *)

Room(e) == KernelSize - Len(wire[e])
\* The next byte meets no one: send() fails.
CannotSend(e) == e[1] \in broken \/ open[Peer(e)] = "closed"

StartWrite(e, p) ==
    io' = [io EXCEPT ![e] = [Idle EXCEPT !.op = "write", !.packet = p, !.pending = Frame(p)]]

WriteSome(e) ==
    /\ io[e].op = "write" /\ e[1] \notin broken
    /\ \E n \in {k \in Pieces : k <= Room(e) /\ k <= Len(io[e].pending)} :
          LET rest == SubSeq(io[e].pending, n + 1, Len(io[e].pending))
          IN  /\ wire' = [wire EXCEPT ![e] = @ \o SubSeq(io[e].pending, 1, n)]
              /\ io' = [io EXCEPT ![e] = IF rest = <<>> THEN Returns("written")
                                         ELSE [@ EXCEPT !.pending = rest]]
              /\ sent' = IF rest = <<>> THEN [sent EXCEPT ![e] = Append(@, io[e].packet)] ELSE sent
    /\ UNCHANGED <<open, broken, sock, interrupt, got, heard>>

\* BrokenConnectionEx
WriteFails(e) ==
    /\ io[e].op = "write" /\ CannotSend(e)
    /\ io' = [io EXCEPT ![e] = Returns("hungup")]
    /\ UNCHANGED <<wire, open, broken, sock, interrupt, sent, got, heard>>
-----------------------------------------------------------------------------
(* Reading.  read() does not wait; readWait() tests the interrupt flag, waits *)
(* for the stream socket to be readable, reads, and starts again.  The client *)
(* passes no interrupt flag.                                                  *)

StartRead(e, wait) ==
    io' = [io EXCEPT ![e] = [Idle EXCEPT !.op = IF wait THEN "test" ELSE "recv", !.wait = wait]]

Interrupted(e) == e[2] = "server" /\ interrupt

TestInterrupt(e) ==
    /\ io[e].op = "test"
    /\ io' = [io EXCEPT ![e] = IF Interrupted(e) THEN Returns("interrupted")
                               ELSE [@ EXCEPT !.op = "poll"]]
    /\ UNCHANGED <<wire, open, broken, sock, interrupt, sent, got, heard>>

\* waitForReadable(): there is data, an end of file or an error.
Readable_Mutant(e) == wire[Peer(e)] # <<>> \/ e[1] \in broken
Readable(e) == wire[Peer(e)] # <<>> \/ open[Peer(e)] # "open" \/ e[1] \in broken

Poll(e) ==
    /\ io[e].op = "poll" /\ Readable(e)
    /\ io' = [io EXCEPT ![e].op = "recv"]
    /\ UNCHANGED <<wire, open, broken, sock, interrupt, sent, got, heard>>

\* What read() returns when readFromFile() has left the socket as s.
ReadReturns(e, s) ==
    IF s.readBuffer = <<>>
    THEN /\ sock' = [sock EXCEPT ![e] = s]
         /\ io' = [io EXCEPT ![e] = IF s.eof THEN Returns("eof")
                                    ELSE IF io[e].wait THEN [@ EXCEPT !.op = "test"]
                                    ELSE Returns("nothing")]
         /\ heard' = [heard EXCEPT ![e] = IF s.eof /\ @ = "flows" THEN "ended" ELSE @]
         /\ UNCHANGED got
    ELSE /\ sock' = [sock EXCEPT ![e] = [s EXCEPT !.readBuffer = Tail(@)]]
         /\ io' = [io EXCEPT ![e] = [Returns("packet") EXCEPT !.packet = Head(s.readBuffer)]]
         /\ got' = [got EXCEPT ![e] = Append(@, Head(s.readBuffer))]
         /\ UNCHANGED heard

ReadThrows(e, s) ==
    /\ sock' = [sock EXCEPT ![e] = s]
    /\ io' = [io EXCEPT ![e] = Returns("threw")]
    /\ heard' = [heard EXCEPT ![e] = IF @ = "flows" THEN "failed" ELSE @]
    /\ UNCHANGED got

MustReceive(e) == sock[e].readBuffer = <<>> /\ ~sock[e].eof

\* readFromFile() finds a packet, or the end of file, it knew of already.
ReadKnown(e) ==
    /\ io[e].op = "recv" /\ ~MustReceive(e)
    /\ ReadReturns(e, sock[e])
    /\ UNCHANGED <<wire, open, broken, interrupt, sent>>

ReceiveBytes(e) ==
    /\ io[e].op = "recv" /\ MustReceive(e) /\ e[1] \notin broken
    /\ wire[Peer(e)] # <<>>
    /\ LET n == IF RecvSize < Len(wire[Peer(e)]) THEN RecvSize ELSE Len(wire[Peer(e)])
           r == ProcessBytesRead(sock[e], SubSeq(wire[Peer(e)], 1, n))
       IN  /\ wire' = [wire EXCEPT ![Peer(e)] = SubSeq(@, n + 1, Len(@))]
           /\ CASE r.threw -> ReadThrows(e, r.s)
                [] ~r.threw /\ r.s.readBuffer # <<>> -> ReadReturns(e, r.s)
                [] OTHER -> sock' = [sock EXCEPT ![e] = r.s] /\ UNCHANGED <<io, got, heard>>
    /\ UNCHANGED <<open, broken, interrupt, sent>>

ReceiveNothing(e) ==
    /\ io[e].op = "recv" /\ MustReceive(e) /\ e[1] \notin broken
    /\ wire[Peer(e)] = <<>> /\ open[Peer(e)] = "open"
    /\ ReadReturns(e, sock[e])
    /\ UNCHANGED <<wire, open, broken, interrupt, sent>>

ReceiveEof(e) ==
    /\ io[e].op = "recv" /\ MustReceive(e) /\ e[1] \notin broken
    /\ wire[Peer(e)] = <<>> /\ open[Peer(e)] # "open"
    /\ LET s == [sock[e] EXCEPT !.eof = TRUE]
       IN  IF NothingAccumulated(s) THEN ReadReturns(e, s) ELSE ReadThrows(e, s)
    /\ UNCHANGED <<wire, open, broken, interrupt, sent>>

\* BrokenConnectionEx, which the caller sees as an end of file: the network is
\* gone, or the peer closed without reading what this end had sent it.
Reset(e) == e[1] \in broken \/ (open[Peer(e)] = "closed" /\ wire[e] # <<>>)
ReceiveBroken(e) ==
    /\ io[e].op = "recv" /\ MustReceive(e) /\ Reset(e)
    /\ io' = [io EXCEPT ![e] = Returns("eof")]
    /\ heard' = [heard EXCEPT ![e] = IF @ = "flows" THEN "failed" ELSE @]
    /\ wire' = [wire EXCEPT ![Peer(e)] = <<>>]
    /\ UNCHANGED <<open, broken, sock, interrupt, sent, got>>

\* What goes on once an operation is started, as far as it depends on nobody
\* else.
Progress(e) ==
    \/ WriteSome(e) \/ WriteFails(e)
    \/ TestInterrupt(e) \/ Poll(e) \/ ReadKnown(e)
    \/ ReceiveBytes(e) \/ ReceiveNothing(e) \/ ReceiveEof(e) \/ ReceiveBroken(e)
-----------------------------------------------------------------------------
(* The world around. *)

\* A handled signal whose handler sets *interruptP; it ends a poll() that
\* waits, and it is too early for one that is about to.
SetInterrupt ==
    /\ interrupt' = TRUE
    /\ io' = [e \in End |-> IF e[2] = "server" /\ io[e].op = "poll"
                            THEN [io[e] EXCEPT !.op = "recv"] ELSE io[e]]
    /\ UNCHANGED <<wire, open, broken, sock, sent, got, heard>>

\* The end's program shuts it down for sending, or closes it whatever it was
\* doing.
Shut(e) ==
    /\ open[e] = "open" /\ io[e].op # "write"
    /\ open' = [open EXCEPT ![e] = "shut"]
    /\ UNCHANGED <<wire, broken, sock, io, interrupt, sent, got, heard>>

Close(e) ==
    /\ open[e] # "closed"
    /\ open' = [open EXCEPT ![e] = "closed"]
    /\ io' = [io EXCEPT ![e] = Idle]
    /\ UNCHANGED <<wire, broken, sock, interrupt, sent, got, heard>>

Break(c) ==
    /\ c \notin broken
    /\ broken' = broken \cup {c}
    /\ wire' = [e \in End |-> IF e[1] = c THEN <<>> ELSE wire[e]]
    /\ UNCHANGED <<open, sock, io, interrupt, sent, got, heard>>
=============================================================================
