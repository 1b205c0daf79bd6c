-------------------------- MODULE PstreamInvariant ---------------------------
(* The inductive invariant of PstreamServer, for every set of connections    *)
(* and of packets and every way the kernel cuts the stream, and what the     *)
(* packet sockets' operations do to its part about the streams.              *)
EXTENDS PstreamServer, PacketFramingProofs

-----------------------------------------------------------------------------
(* The inductive invariant.  The streams first: what reader e would make of  *)
(* all that is on its way.                                                   *)

Intact(e) == e[1] \notin broken /\ heard[e] # "failed" /\ open[e] # "closed"

\* It hands over exactly what has been written, and what the writer has still
\* to send completes its packet.
FlowOK(e) ==
    Intact(e) => Carries(sock[e], wire[Peer(e)], got[e], sent[Peer(e)], io[Peer(e)], open[Peer(e)])

\* Whatever happens to the connection, what the reader holds was written.
OrderOK(e) == Prefix(got[e] \o sock[e].readBuffer, sent[Peer(e)])

EofOK(e) == heard[e] = "flows" => ~sock[e].eof

MidPacket(e) == ~NothingAccumulated(ProcessBytesRead(sock[e], wire[Peer(e)]).s)

ReadOps == {"test", "poll", "recv"}

IoOK(e) ==
    /\ io[e].op # "none" => io[e].result = "none"
    /\ io[e].op = "write" => open[e] = "open" /\ io[e].packet \in Packets
    /\ io[e].op \in ReadOps => heard[e] = "flows" /\ open[e] # "closed"

StreamsOK == \A e \in End : FlowOK(e) /\ OrderOK(e) /\ EofOK(e) /\ IoOK(e)

\* The server: it answers what it has read, one call after the other.
Rude(c) == c \in broken \/ (client[c] = "gone" /\ Outstanding(c) > 0)

Waits(c) == \E i \in DOMAIN backlog : backlog[i] = c

Fresh(c) == client[c] = "new" \/ Waits(c)

Answered(c) ==
    /\ Len(sent[ServerEnd(c)]) <= Len(got[ServerEnd(c)])
    /\ \A i \in 1 .. Len(sent[ServerEnd(c)]) : sent[ServerEnd(c)][i] = Answer[got[ServerEnd(c)][i]]

\* A call that has been read and not answered.
Owes(c) == Len(got[ServerEnd(c)]) = Len(sent[ServerEnd(c)]) + 1
Even(c) == Len(got[ServerEnd(c)]) = Len(sent[ServerEnd(c)])
LastCall(c) == got[ServerEnd(c)][Len(got[ServerEnd(c)])]

ServeOK(c) == io[ServerEnd(c)] = Idle /\ Even(c) /\ heard[ServerEnd(c)] = "flows"

ReadingOK(c) ==
    LET o == io[ServerEnd(c)]
    IN  /\ o.op # "write" /\ o.result \notin {"written", "hungup"}
        /\ o.result # "packet" => Even(c)
        /\ o.result = "packet" => Owes(c) /\ o.packet = LastCall(c)
        /\ o.result \notin {"eof", "threw"} => heard[ServerEnd(c)] = "flows"

WritingOK(c) ==
    LET o == io[ServerEnd(c)]
    IN  /\ o.op \in {"none", "write"} /\ heard[ServerEnd(c)] = "flows"
        /\ o.result # "written" => Owes(c)
        /\ o.op = "write" => o.packet = Answer[LastCall(c)]
        /\ o.result = "written" => Even(c)

ServingOK(c) ==
    /\ open[ServerEnd(c)] = "open"
    /\ pc \in {"serve", "reading", "writing"}
    /\ pc = "serve" => ServeOK(c)
    /\ pc = "reading" => ReadingOK(c)
    /\ pc = "writing" => WritingOK(c)
    /\ io[ServerEnd(c)].result \in {"threw", "hungup"} => Rude(c)

FreshOK(c) ==
    /\ c \notin current
    /\ got[ServerEnd(c)] = <<>> /\ sent[ServerEnd(c)] = <<>>
    /\ open[ServerEnd(c)] = "open" /\ heard[ServerEnd(c)] = "flows"

ServerOK(c) ==
    /\ Fresh(c) => FreshOK(c)
    /\ c \notin current => io[ServerEnd(c)] = Idle
    /\ c \in current => ServingOK(c)
    /\ Answered(c)

PcOK ==
    /\ pc \in {"serve", "reading", "writing"} => current # {}
    /\ pc = "threw" => \E c \in Conn : Rude(c)

BacklogOK ==
    /\ \A i \in DOMAIN backlog : client[backlog[i]] # "new"
    /\ \A i, j \in DOMAIN backlog : backlog[i] = backlog[j] => i = j

\* A client: what it asked is what it sent, but for the call it is sending.
ReadyOK(c) ==
    LET o == io[ClientEnd(c)]
    IN  /\ o.op = "write" => asked[c] = Append(sent[ClientEnd(c)], o.packet)
        /\ o.op # "write" /\ o.result # "hungup" => asked[c] = sent[ClientEnd(c)]
        /\ o.result \notin {"eof", "threw"} => heard[ClientEnd(c)] = "flows"

NewOK(c) == asked[c] = <<>> /\ open[ClientEnd(c)] = "open" /\ heard[ClientEnd(c)] = "flows"

\* One that closed in the middle of a packet leaves a call unanswered.
CutOK(c) ==
    open[ClientEnd(c)] = "closed" /\ Intact(ServerEnd(c)) /\ MidPacket(ServerEnd(c))
        => Len(sent[ClientEnd(c)]) < Len(asked[c])

ClientOK(c) ==
    /\ client[c] # "ready" => io[ClientEnd(c)] = Idle
    /\ client[c] = "new" => NewOK(c)
    /\ client[c] = "ready" => ReadyOK(c)
    /\ (open[ClientEnd(c)] = "closed") <=> (client[c] = "gone")
    /\ Prefix(sent[ClientEnd(c)], asked[c])
    /\ CutOK(c)

CallersOK == (\A c \in Conn : ServerOK(c) /\ ClientOK(c)) /\ PcOK /\ BacklogOK

IInv == TypeOK /\ StreamsOK /\ CallersOK
-----------------------------------------------------------------------------
(* Ends and sequences. *)

LEMMA Ends ==
    ASSUME NEW c \in Conn
    PROVE  /\ ClientEnd(c) \in End /\ ServerEnd(c) \in End
           /\ Peer(ClientEnd(c)) = ServerEnd(c) /\ Peer(ServerEnd(c)) = ClientEnd(c)
           /\ ClientEnd(c)[1] = c /\ ServerEnd(c)[1] = c
           /\ ClientEnd(c)[2] = "client" /\ ServerEnd(c)[2] = "server"
  BY DEF ClientEnd, ServerEnd, End, Peer

LEMMA Peers ==
    ASSUME NEW e \in End
    PROVE  /\ Peer(e) \in End /\ Peer(Peer(e)) = e /\ Peer(e) # e
           /\ Peer(e)[1] = e[1] /\ e[1] \in Conn
  BY DEF End, Peer

LEMMA EndIs ==
    ASSUME NEW e \in End
    PROVE  \E c \in Conn : e = ClientEnd(c) \/ e = ServerEnd(c)
  BY DEF End, ClientEnd, ServerEnd

LEMMA EndsDiffer ==
    ASSUME NEW c \in Conn, NEW d \in Conn
    PROVE  /\ ClientEnd(c) # ServerEnd(d)
           /\ c # d => ClientEnd(c) # ClientEnd(d) /\ ServerEnd(c) # ServerEnd(d)
  BY DEF ClientEnd, ServerEnd

LEMMA SameSequence ==
    ASSUME NEW A, NEW u \in Seq(A), NEW v \in Seq(A), Len(u) = Len(v),
           \A i \in 1 .. Len(u) : u[i] = v[i]
    PROVE  u = v
  OBVIOUS

LEMMA ConcatAt ==
    ASSUME NEW A, NEW u \in Seq(A), NEW v \in Seq(A), NEW i \in 1 .. Len(u) + Len(v)
    PROVE  (u \o v)[i] = IF i <= Len(u) THEN u[i] ELSE v[i - Len(u)]
  OBVIOUS

LEMMA SplitAt ==
    ASSUME NEW q \in Seq(Byte), NEW n \in Nat, n <= Len(q)
    PROVE  LET a == SubSeq(q, 1, n)
               b == SubSeq(q, n + 1, Len(q))
           IN  /\ a \in Seq(Byte) /\ b \in Seq(Byte) /\ q = a \o b
               /\ Len(a) = n /\ Len(b) = Len(q) - n
<1>. DEFINE a == SubSeq(q, 1, n)
            b == SubSeq(q, n + 1, Len(q))
<1>1. a \in Seq(Byte) /\ Len(a) = n /\ \A i \in 1 .. n : a[i] = q[i]
  OBVIOUS
<1>2. b \in Seq(Byte)
  OBVIOUS
<1>3. Len(b) = Len(q) - n
  OBVIOUS
<1>4. \A i \in 1 .. Len(q) - n : b[i] = q[n + i]
  OBVIOUS
<1>. HIDE DEF a, b
<1>5. a \o b \in Seq(Byte) /\ Len(a \o b) = Len(q)
  BY <1>1, <1>2, <1>3
<1>6. \A i \in 1 .. Len(q) : (a \o b)[i] = q[i]
  <2>1. SUFFICES ASSUME NEW i \in 1 .. Len(q) PROVE (a \o b)[i] = q[i]
    OBVIOUS
  <2>2. (a \o b)[i] = IF i <= Len(a) THEN a[i] ELSE b[i - Len(a)]
    <3>1. i \in 1 .. Len(a) + Len(b)
      BY <1>1, <1>3
    <3>. QED
      BY <1>1, <1>2, <3>1, ConcatAt
  <2>3. CASE i <= n
    BY <1>1, <2>2, <2>3
  <2>4. CASE ~(i <= n)
    <3>1. i - n \in 1 .. Len(q) - n /\ n + (i - n) = i
      BY <2>4
    <3>2. b[i - n] = q[n + (i - n)]
      BY <1>4, <3>1
    <3>. QED
      BY <1>1, <2>2, <2>4, <3>1, <3>2
  <2>. QED
    BY <2>3, <2>4
<1>7. q = a \o b
  BY <1>5, <1>6, SameSequence
<1>. QED
  BY <1>1, <1>2, <1>3, <1>7 DEF a, b

LEMMA FrontSplit ==
    ASSUME NEW q \in Seq(Byte), NEW n \in Nat, n <= Len(q)
    PROVE  \E a, b \in Seq(Byte) :
              /\ a = SubSeq(q, 1, n) /\ b = SubSeq(q, n + 1, Len(q))
              /\ q = a \o b /\ Len(a) = n /\ Len(b) = Len(q) - n
  BY SplitAt
-----------------------------------------------------------------------------
(* Types. *)

LEMMA SocketTypes ==
    ASSUME TypeOK, NEW e \in End
    PROVE  /\ sock[e] \in Readers /\ wire[e] \in Seq(Byte) /\ Len(wire[e]) <= KernelSize
           /\ got[e] \in Seq(Seq(Byte)) /\ sent[e] \in Seq(Packets)
           /\ io[e] \in IoType /\ io[e].op \in Ops /\ io[e].result \in Results
           /\ io[e].packet \in Seq(Byte) /\ io[e].pending \in Seq(Byte) /\ io[e].wait \in BOOLEAN
           /\ open[e] \in {"open", "shut", "closed"} /\ heard[e] \in {"flows", "ended", "failed"}
<1>1. SocketTypeOK
  BY DEF TypeOK
<1>2. io[e] \in IoType
  BY <1>1 DEF SocketTypeOK
<1>3. /\ io[e].op \in Ops /\ io[e].result \in Results
      /\ io[e].packet \in Seq(Byte) /\ io[e].pending \in Seq(Byte) /\ io[e].wait \in BOOLEAN
  BY <1>2 DEF IoType
<1>4. sock[e] \in Readers
  <2>1. sock \in [End -> SockType]
    BY <1>1 DEF SocketTypeOK
  <2>2. Len(sock[e].escAccum) <= 3
    BY <1>1, Zenon DEF SocketTypeOK
  <2>3. sock[e].escAccum # <<>> => sock[e].inEscapeSeq
    BY <1>1, Zenon DEF SocketTypeOK
  <2>4. sock[e] \in SockType
    BY <2>1
  <2>. QED
    BY <2>2, <2>3, <2>4, Zenon DEF Readers, ReaderOK
<1>5. /\ wire[e] \in Seq(Byte) /\ Len(wire[e]) <= KernelSize
      /\ got[e] \in Seq(Seq(Byte)) /\ sent[e] \in Seq(Packets)
      /\ open[e] \in {"open", "shut", "closed"} /\ heard[e] \in {"flows", "ended", "failed"}
  BY <1>1 DEF SocketTypeOK
<1>. QED
  BY <1>2, <1>3, <1>4, <1>5

LEMMA Sizes == KernelSize \in Nat /\ RecvSize \in Nat /\ RecvSize > 0 /\ \A k \in Pieces : k \in Nat /\ k > 0
  BY SizeAssumption

LEMMA PacketType == \A p \in Packets : p \in Seq(Byte)
  BY PacketsAssumption

LEMMA FrameType ==
    ASSUME NEW p \in Seq(Byte)
    PROVE  Frame(p) \in Seq(Byte)
<1>1. NewSocket \in Readers /\ NothingAccumulated(NewSocket)
  <2>1. <<>> \in Seq(Byte) /\ <<>> \in Seq(Seq(Byte))
    OBVIOUS
  <2>2. NewSocket = Plain(<<>>, <<>>, FALSE, FALSE)
    BY DEF NewSocket, Plain, Socket
  <2>3. \A i \in BOOLEAN : Plain(<<>>, <<>>, i, i) \in Readers
    BY <2>1, PlainIs
  <2>4. NewSocket \in Readers
    BY <2>2, <2>3, FALSE \in BOOLEAN, Zenon
  <2>. QED
    BY <2>4 DEF NewSocket, NothingAccumulated
<1>. QED
  BY <1>1, FrameCompletes

\* The records of operations.
LEMMA IdleType == Idle \in IoType /\ Idle.op = "none" /\ Idle.result = "none"
<1>1. <<>> \in Seq(Byte)
  OBVIOUS
<1>. QED
  BY <1>1 DEF Idle, IoType, Ops, Results

LEMMA WithResult ==
    ASSUME NEW o \in IoType, NEW r \in Results
    PROVE  [o EXCEPT !.result = r] \in IoType /\ [o EXCEPT !.result = r].op = o.op
           /\ [o EXCEPT !.result = r].result = r
  BY DEF IoType

LEMMA WithPacket ==
    ASSUME NEW o \in IoType, NEW p \in Seq(Byte)
    PROVE  [o EXCEPT !.packet = p] \in IoType /\ [o EXCEPT !.packet = p].op = o.op
           /\ [o EXCEPT !.packet = p].result = o.result /\ [o EXCEPT !.packet = p].packet = p
  BY DEF IoType

LEMMA WithPending ==
    ASSUME NEW o \in IoType, NEW p \in Seq(Byte)
    PROVE  [o EXCEPT !.pending = p] \in IoType /\ [o EXCEPT !.pending = p].op = o.op
           /\ [o EXCEPT !.pending = p].result = o.result /\ [o EXCEPT !.pending = p].packet = o.packet
           /\ [o EXCEPT !.pending = p].pending = p
  BY DEF IoType

LEMMA WithOp ==
    ASSUME NEW o \in IoType, NEW p \in Ops
    PROVE  [o EXCEPT !.op = p] \in IoType /\ [o EXCEPT !.op = p].op = p
           /\ [o EXCEPT !.op = p].result = o.result
  BY DEF IoType

LEMMA WriteStarts ==
    ASSUME NEW p \in Seq(Byte), NEW q \in Seq(Byte)
    PROVE  LET n == [Idle EXCEPT !.op = "write", !.packet = p, !.pending = q]
           IN  n \in IoType /\ n.op = "write" /\ n.result = "none" /\ n.packet = p /\ n.pending = q
  BY IdleType DEF IoType, Ops

LEMMA ReadStarts ==
    ASSUME NEW wait \in BOOLEAN
    PROVE  LET n == [Idle EXCEPT !.op = IF wait THEN "test" ELSE "recv", !.wait = wait]
           IN  n \in IoType /\ n.op \in ReadOps /\ n.result = "none"
  BY IdleType DEF IoType, Ops, ReadOps

LEMMA ReturnsType ==
    ASSUME NEW r \in Results
    PROVE  Returns(r) \in IoType /\ Returns(r).op = "none" /\ Returns(r).result = r
  BY IdleType, WithResult DEF Returns

LEMMA PacketReturned ==
    ASSUME NEW p \in Seq(Byte)
    PROVE  LET n == [Returns("packet") EXCEPT !.packet = p]
           IN  n \in IoType /\ n.op = "none" /\ n.result = "packet" /\ n.packet = p
<1>1. "packet" \in Results
  BY DEF Results
<1>. QED
  BY <1>1, ReturnsType, WithPacket
-----------------------------------------------------------------------------
(* What a step of a read does: it leaves reader e with socket s, operation x, *)
(* packets g and end h, and w on the wire to it.                             *)

Alive(e, h) == e[1] \notin broken /\ h # "failed" /\ open[e] # "closed"

StreamIs(e, s, w, g, h) ==
    /\ Alive(e, h) => Carries(s, w, g, sent[Peer(e)], io[Peer(e)], open[Peer(e)])
    /\ Prefix(g \o s.readBuffer, sent[Peer(e)])
    /\ h = "flows" => ~s.eof

MidIs(e, s, w, h) ==
    Alive(e, h) /\ ~NothingAccumulated(ProcessBytesRead(s, w).s) => Intact(e) /\ MidPacket(e)

ReadTyped(e, s, w, g, h, x) ==
    /\ s \in Readers /\ w \in Seq(Byte) /\ Len(w) <= Len(wire[Peer(e)])
    /\ g \in Seq(Seq(Byte)) /\ h \in {"flows", "ended", "failed"} /\ x \in IoType

\* The operation goes on or returns.
ReadOutcome(e, g, h, x) ==
    \/ x.op \in ReadOps /\ x.result = "none" /\ g = got[e] /\ h = heard[e]
    \/ x.op = "none" /\ x.result \in {"nothing", "interrupted"} /\ g = got[e] /\ h = heard[e]
    \/ x.op = "none" /\ x.result = "packet" /\ g = Append(got[e], x.packet) /\ h = heard[e]
    \/ /\ x.op = "none" /\ x.result = "eof" /\ g = got[e]
       /\ h = "failed" \/ (h = "ended" /\ got[e] = sent[Peer(e)])
    \/ /\ x.op = "none" /\ x.result = "threw" /\ g = got[e] /\ h = "failed"
       /\ Intact(e) /\ MidPacket(e) /\ open[Peer(e)] = "closed"

ReadMakes(e, s, w, g, h, x) ==
    /\ sock' = [sock EXCEPT ![e] = s] /\ wire' = [wire EXCEPT ![Peer(e)] = w]
    /\ got' = [got EXCEPT ![e] = g] /\ heard' = [heard EXCEPT ![e] = h]
    /\ io' = [io EXCEPT ![e] = x]
    /\ UNCHANGED <<open, broken, interrupt, sent>>

ReadIs(e, s, w, g, h, x) ==
    /\ ReadTyped(e, s, w, g, h, x) /\ StreamIs(e, s, w, g, h) /\ MidIs(e, s, w, h)
    /\ ReadOutcome(e, g, h, x) /\ ReadMakes(e, s, w, g, h, x)

ReadStep(e) == io[e].op \in ReadOps /\ \E s, w, g, h, x : ReadIs(e, s, w, g, h, x)

StreamOK(e) == FlowOK(e) /\ OrderOK(e) /\ EofOK(e)

LEMMA StreamNow ==
    ASSUME TypeOK, NEW e \in End, StreamOK(e), IoOK(e), io[e].op \in ReadOps
    PROVE  /\ StreamIs(e, sock[e], wire[Peer(e)], got[e], "flows") /\ ~sock[e].eof
           /\ heard[e] = "flows" /\ open[e] # "closed"
           /\ e[1] \notin broken
                => Carries(sock[e], wire[Peer(e)], got[e], sent[Peer(e)], io[Peer(e)], open[Peer(e)])
           /\ Intact(e) <=> e[1] \notin broken
<1>1. heard[e] = "flows" /\ open[e] # "closed"
  BY DEF IoOK
<1>2. ~sock[e].eof
  BY <1>1 DEF StreamOK, EofOK
<1>3. Intact(e) <=> e[1] \notin broken
  BY <1>1 DEF Intact
<1>4. e[1] \notin broken
         => Carries(sock[e], wire[Peer(e)], got[e], sent[Peer(e)], io[Peer(e)], open[Peer(e)])
  BY <1>3 DEF StreamOK, FlowOK
<1>5. Prefix(got[e] \o sock[e].readBuffer, sent[Peer(e)])
  BY DEF StreamOK, OrderOK
<1>. QED
  BY <1>1, <1>2, <1>3, <1>4, <1>5, Zenon DEF StreamIs, Alive

\* A step that leaves the stream alone.
LEMMA Stays ==
    ASSUME TypeOK, NEW e \in End, UNCHANGED <<wire, open, broken, sock, interrupt, sent, got, heard>>,
           NEW x, io' = [io EXCEPT ![e] = x]
    PROVE  ReadMakes(e, sock[e], wire[Peer(e)], got[e], heard[e], x)
<1>1. /\ sock \in [End -> SockType] /\ wire \in [End -> Seq(Byte)] /\ got \in [End -> Seq(Seq(Byte))]
      /\ heard \in [End -> {"flows", "ended", "failed"}] /\ Peer(e) \in End
  BY Peers DEF TypeOK, SocketTypeOK
<1>2. sock' = [sock EXCEPT ![e] = sock[e]]
  BY <1>1
<1>3. wire' = [wire EXCEPT ![Peer(e)] = wire[Peer(e)]]
  BY <1>1
<1>4. got' = [got EXCEPT ![e] = got[e]] /\ heard' = [heard EXCEPT ![e] = heard[e]]
  BY <1>1
<1>. QED
  BY <1>2, <1>3, <1>4, Zenon DEF ReadMakes

LEMMA StaysTyped ==
    ASSUME TypeOK, NEW e \in End, NEW x \in IoType
    PROVE  ReadTyped(e, sock[e], wire[Peer(e)], got[e], heard[e], x)
<1>1. Peer(e) \in End
  BY Peers
<1>2. Len(wire[Peer(e)]) \in Nat
  BY <1>1, SocketTypes
<1>3. Len(wire[Peer(e)]) <= Len(wire[Peer(e)])
  BY <1>2
<1>4. sock[e] \in Readers /\ got[e] \in Seq(Seq(Byte)) /\ heard[e] \in {"flows", "ended", "failed"}
  BY SocketTypes
<1>5. wire[Peer(e)] \in Seq(Byte)
  BY <1>1, SocketTypes
<1>. QED
  BY <1>3, <1>4, <1>5, Zenon DEF ReadTyped

LEMMA StaysMid ==
    ASSUME NEW e \in End
    PROVE  MidIs(e, sock[e], wire[Peer(e)], heard[e])
  BY DEF MidIs, MidPacket, Alive, Intact

\* Waiting for the stream socket, and coming back from it.
LEMMA WaitStep ==
    ASSUME TypeOK, NEW e \in End, StreamOK(e), IoOK(e), TestInterrupt(e) \/ Poll(e)
    PROVE  ReadStep(e)
<1>1. UNCHANGED <<wire, open, broken, sock, interrupt, sent, got, heard>> /\ io[e].op \in ReadOps
  BY DEF TestInterrupt, Poll, ReadOps
<1>2. \E x \in IoType :
         /\ io' = [io EXCEPT ![e] = x]
         /\ \/ x.op \in ReadOps /\ x.result = "none"
            \/ x.op = "none" /\ x.result \in {"nothing", "interrupted"}
  <2>1. io[e] \in IoType /\ io[e].result = "none"
    BY <1>1, SocketTypes DEF IoOK, ReadOps
  <2>2. "interrupted" \in Results /\ "poll" \in Ops /\ "recv" \in Ops
    BY DEF Results, Ops
  <2>3. /\ Returns("interrupted") \in IoType /\ Returns("interrupted").op = "none"
        /\ Returns("interrupted").result = "interrupted"
    BY <2>2, ReturnsType
  <2>4. /\ [io[e] EXCEPT !.op = "poll"] \in IoType /\ [io[e] EXCEPT !.op = "poll"].op = "poll"
        /\ [io[e] EXCEPT !.op = "poll"].result = "none"
    BY <2>1, <2>2, WithOp
  <2>5. /\ [io[e] EXCEPT !.op = "recv"] \in IoType /\ [io[e] EXCEPT !.op = "recv"].op = "recv"
        /\ [io[e] EXCEPT !.op = "recv"].result = "none"
    BY <2>1, <2>2, WithOp
  <2>6. CASE TestInterrupt(e) /\ Interrupted(e)
    <3>1. io' = [io EXCEPT ![e] = Returns("interrupted")]
      BY <2>6 DEF TestInterrupt
    <3>. QED
      BY <2>3, <3>1
  <2>7. CASE TestInterrupt(e) /\ ~Interrupted(e)
    <3>1. io' = [io EXCEPT ![e] = [io[e] EXCEPT !.op = "poll"]]
      BY <2>7 DEF TestInterrupt
    <3>. QED
      BY <2>4, <3>1 DEF ReadOps
  <2>8. CASE Poll(e)
    <3>1. io' = [io EXCEPT ![e] = [io[e] EXCEPT !.op = "recv"]]
      BY <2>8 DEF Poll
    <3>. QED
      BY <2>5, <3>1 DEF ReadOps
  <2>. QED
    BY <2>6, <2>7, <2>8
<1>3. PICK x \in IoType :
         /\ io' = [io EXCEPT ![e] = x]
         /\ \/ x.op \in ReadOps /\ x.result = "none"
            \/ x.op = "none" /\ x.result \in {"nothing", "interrupted"}
  BY <1>2
<1>4. ReadOutcome(e, got[e], heard[e], x)
  BY <1>3 DEF ReadOutcome
<1>5. ReadMakes(e, sock[e], wire[Peer(e)], got[e], heard[e], x)
  BY <1>1, <1>3, Stays
<1>6. StreamIs(e, sock[e], wire[Peer(e)], got[e], heard[e])
  BY <1>1, StreamNow
<1>7. ReadTyped(e, sock[e], wire[Peer(e)], got[e], heard[e], x)
  BY StaysTyped
<1>8. MidIs(e, sock[e], wire[Peer(e)], heard[e])
  BY StaysMid
<1>9. ReadIs(e, sock[e], wire[Peer(e)], got[e], heard[e], x)
  BY <1>4, <1>5, <1>6, <1>7, <1>8, Zenon DEF ReadIs
<1>. QED
  BY <1>1, <1>9, Zenon DEF ReadStep
-----------------------------------------------------------------------------
(* Reads that receive. *)

\* An operation that returns r, or goes on as x.
LEMMA NoneFound ==
    ASSUME TypeOK, NEW e \in End, StreamOK(e), IoOK(e), io[e].op = "recv",
           NEW s \in Readers, NEW w, Len(w) <= Len(wire[Peer(e)]), w \in Seq(Byte),
           StreamIs(e, s, w, got[e], heard[e]), MidIs(e, s, w, heard[e]), ~s.eof, s.readBuffer = <<>>,
           ReadReturns(e, s), wire' = [wire EXCEPT ![Peer(e)] = w],
           UNCHANGED <<open, broken, interrupt, sent>>
    PROVE  ReadStep(e)
<1>1. /\ sock \in [End -> SockType] /\ got \in [End -> Seq(Seq(Byte))]
      /\ heard \in [End -> {"flows", "ended", "failed"}]
  BY DEF TypeOK, SocketTypeOK
<1>2. io[e] \in IoType /\ io[e].result = "none" /\ got[e] \in Seq(Seq(Byte))
      /\ heard[e] \in {"flows", "ended", "failed"}
  BY SocketTypes DEF IoOK
<1>. DEFINE x == IF io[e].wait THEN [io[e] EXCEPT !.op = "test"] ELSE Returns("nothing")
<1>3. /\ sock' = [sock EXCEPT ![e] = s] /\ UNCHANGED got
      /\ heard' = [heard EXCEPT ![e] = heard[e]] /\ io' = [io EXCEPT ![e] = x]
  BY Zenon DEF ReadReturns
<1>4. got' = [got EXCEPT ![e] = got[e]]
  BY <1>1, <1>3
<1>5. "nothing" \in Results /\ "test" \in Ops
  BY DEF Results, Ops
<1>6. /\ Returns("nothing") \in IoType /\ Returns("nothing").op = "none"
      /\ Returns("nothing").result = "nothing"
  BY <1>5, ReturnsType
<1>7. /\ [io[e] EXCEPT !.op = "test"] \in IoType /\ [io[e] EXCEPT !.op = "test"].op = "test"
      /\ [io[e] EXCEPT !.op = "test"].result = "none"
  BY <1>2, <1>5, WithOp
<1>8. x \in IoType /\ \/ x.op = "test" /\ x.result = "none"
                      \/ x.op = "none" /\ x.result = "nothing"
  BY <1>6, <1>7
<1>. HIDE DEF x
<1>9. ReadOutcome(e, got[e], heard[e], x)
  BY <1>8 DEF ReadOutcome, ReadOps
<1>10. ReadTyped(e, s, w, got[e], heard[e], x)
  BY <1>2, <1>8, Zenon DEF ReadTyped
<1>11. ReadMakes(e, s, w, got[e], heard[e], x)
  BY <1>3, <1>4, Zenon DEF ReadMakes
<1>12. ReadIs(e, s, w, got[e], heard[e], x)
  BY <1>9, <1>10, <1>11, Zenon DEF ReadIs
<1>13. io[e].op \in ReadOps
  BY DEF ReadOps
<1>. QED
  BY <1>12, <1>13, Zenon DEF ReadStep

\* A packet is handed over.
LEMMA PacketFound ==
    ASSUME TypeOK, NEW e \in End, StreamOK(e), IoOK(e), IoOK(Peer(e)), io[e].op = "recv",
           NEW s \in Readers, NEW w, Len(w) <= Len(wire[Peer(e)]), w \in Seq(Byte),
           StreamIs(e, s, w, got[e], heard[e]), MidIs(e, s, w, heard[e]), ~s.eof, s.readBuffer # <<>>,
           ReadReturns(e, s), wire' = [wire EXCEPT ![Peer(e)] = w],
           UNCHANGED <<open, broken, interrupt, sent>>
    PROVE  ReadStep(e)
<1>1. heard \in [End -> {"flows", "ended", "failed"}]
  BY DEF TypeOK, SocketTypeOK
<1>2. got[e] \in Seq(Seq(Byte)) /\ heard[e] \in {"flows", "ended", "failed"}
  BY SocketTypes
<1>. DEFINE p == Head(s.readBuffer)
            t == [s EXCEPT !.readBuffer = Tail(@)]
            g == Append(got[e], p)
            x == [Returns("packet") EXCEPT !.packet = p]
<1>3. t = WithBuffer(s, Tail(s.readBuffer)) /\ t \in Readers /\ p \in Seq(Byte)
      /\ <<p>> \o t.readBuffer = s.readBuffer
  BY TakenIs
<1>4. x \in IoType /\ x.op = "none" /\ x.result = "packet" /\ x.packet = p
  BY <1>3, PacketReturned
<1>5. g \in Seq(Seq(Byte))
  BY <1>2, <1>3
<1>6. /\ sock' = [sock EXCEPT ![e] = t] /\ io' = [io EXCEPT ![e] = x]
      /\ got' = [got EXCEPT ![e] = g] /\ UNCHANGED heard
  BY Zenon DEF ReadReturns
<1>7. heard' = [heard EXCEPT ![e] = heard[e]]
  BY <1>1, <1>6
<1>8. g \o t.readBuffer = got[e] \o s.readBuffer
  <2>1. t.readBuffer \in Seq(Seq(Byte))
    BY <1>3, ReaderTypes
  <2>. HIDE DEF p, t
  <2>2. \A u, v \in Seq(Seq(Byte)), y \in Seq(Byte) : Append(u, y) \o v = u \o (<<y>> \o v)
    BY AppendConcat
  <2>3. Append(got[e], p) \o t.readBuffer = got[e] \o (<<p>> \o t.readBuffer)
    BY <1>2, <1>3, <2>1, <2>2, Zenon
  <2>. QED
    BY <1>3, <2>3, Zenon DEF g
<1>9. Peer(e) \in End /\ io[Peer(e)].packet \in Seq(Byte) /\ io[Peer(e)].pending \in Seq(Byte)
  BY Peers, SocketTypes
<1>10. StreamIs(e, t, w, g, heard[e])
  <2>1. Alive(e, heard[e]) => Carries(t, w, g, sent[Peer(e)], io[Peer(e)], open[Peer(e)])
    <3>1. SUFFICES ASSUME Alive(e, heard[e])
                   PROVE  Carries(t, w, g, sent[Peer(e)], io[Peer(e)], open[Peer(e)])
      OBVIOUS
    <3>2. Carries(s, w, got[e], sent[Peer(e)], io[Peer(e)], open[Peer(e)])
      BY <3>1, Zenon DEF StreamIs
    <3>. QED
      BY <1>2, <1>9, <3>2, CarriesTake
  <2>2. t.eof = s.eof
    <3>1. s.readBuffer \in Seq(Seq(Byte))
      BY ReaderTypes
    <3>2. Tail(s.readBuffer) \in Seq(Seq(Byte))
      BY <3>1
    <3>. QED
      BY <1>3, <3>2, WithBufferIs
  <2>. QED
    BY <1>8, <2>1, <2>2, Zenon DEF StreamIs
<1>11. MidIs(e, t, w, heard[e])
  <2>1. ASSUME Alive(e, heard[e]), ~NothingAccumulated(ProcessBytesRead(t, w).s)
        PROVE  Intact(e) /\ MidPacket(e)
    <3>1. Carries(s, w, got[e], sent[Peer(e)], io[Peer(e)], open[Peer(e)])
      BY <2>1, Zenon DEF StreamIs
    <3>2. ~NothingAccumulated(ProcessBytesRead(s, w).s)
      BY <1>2, <1>9, <2>1, <3>1, CarriesTake
    <3>. QED
      BY <2>1, <3>2, Zenon DEF MidIs
  <2>. QED
    BY <2>1, Zenon DEF MidIs
<1>. HIDE DEF p, t, g, x
<1>12. g = Append(got[e], x.packet)
  BY <1>4 DEF g
<1>13. ReadOutcome(e, g, heard[e], x)
  BY <1>4, <1>12 DEF ReadOutcome
<1>14. ReadTyped(e, t, w, g, heard[e], x)
  BY <1>2, <1>3, <1>4, <1>5, Zenon DEF ReadTyped
<1>15. ReadMakes(e, t, w, g, heard[e], x)
  BY <1>6, <1>7, Zenon DEF ReadMakes
<1>16. ReadIs(e, t, w, g, heard[e], x)
  BY <1>10, <1>11, <1>13, <1>14, <1>15, Zenon DEF ReadIs
<1>17. io[e].op \in ReadOps
  BY DEF ReadOps
<1>. QED
  BY <1>16, <1>17, Zenon DEF ReadStep

LEMMA KnownStep ==
    ASSUME TypeOK, NEW e \in End, StreamOK(e), IoOK(e), IoOK(Peer(e)), ReadKnown(e)
    PROVE  ReadStep(e)
<1>1. /\ io[e].op = "recv" /\ ~MustReceive(e) /\ ReadReturns(e, sock[e])
      /\ UNCHANGED <<wire, open, broken, interrupt, sent>>
  BY DEF ReadKnown
<1>2. io[e].op \in ReadOps
  BY <1>1 DEF ReadOps
<1>3. /\ StreamIs(e, sock[e], wire[Peer(e)], got[e], heard[e]) /\ ~sock[e].eof
  BY <1>2, StreamNow
<1>4. sock[e].readBuffer # <<>>
  BY <1>1, <1>3 DEF MustReceive
<1>5. /\ sock[e] \in Readers /\ wire[Peer(e)] \in Seq(Byte) /\ Peer(e) \in End
      /\ Len(wire[Peer(e)]) <= Len(wire[Peer(e)])
  <2>1. Peer(e) \in End
    BY Peers
  <2>2. wire[Peer(e)] \in Seq(Byte) /\ sock[e] \in Readers
    BY <2>1, SocketTypes
  <2>3. Len(wire[Peer(e)]) \in Nat
    BY <2>2
  <2>. QED
    BY <2>1, <2>2, <2>3
<1>6. wire' = [wire EXCEPT ![Peer(e)] = wire[Peer(e)]]
  <2>1. wire \in [End -> Seq(Byte)]
    BY DEF TypeOK, SocketTypeOK
  <2>. QED
    BY <1>1, <1>5, <2>1
<1>7. MidIs(e, sock[e], wire[Peer(e)], heard[e])
  BY StaysMid
<1>. QED
  BY <1>1, <1>3, <1>4, <1>5, <1>6, <1>7, PacketFound, Zenon

\* What is received is the front of what was on the wire.
LEMMA Received ==
    ASSUME TypeOK, NEW e \in End, ReceiveBytes(e)
    PROVE  \E a, b \in Seq(Byte) :
              /\ wire[Peer(e)] = a \o b /\ Len(b) <= Len(wire[Peer(e)])
              /\ wire' = [wire EXCEPT ![Peer(e)] = b]
              /\ LET r == ProcessBytesRead(sock[e], a)
                 IN  CASE r.threw -> ReadThrows(e, r.s)
                       [] ~r.threw /\ r.s.readBuffer # <<>> -> ReadReturns(e, r.s)
                       [] OTHER -> sock' = [sock EXCEPT ![e] = r.s] /\ UNCHANGED <<io, got, heard>>
<1>. DEFINE v == wire[Peer(e)]
            n == IF RecvSize < Len(v) THEN RecvSize ELSE Len(v)
            a == SubSeq(v, 1, n)
            b == SubSeq(v, n + 1, Len(v))
<1>1. v \in Seq(Byte) /\ Peer(e) \in End
  BY Peers, SocketTypes
<1>2. n \in Nat /\ n <= Len(v)
  BY <1>1, Sizes
<1>3. a \in Seq(Byte) /\ b \in Seq(Byte) /\ v = a \o b /\ Len(b) = Len(v) - n
  <2>. HIDE DEF v, n
  <2>. QED
    BY <1>1, <1>2, SplitAt
<1>4. Len(b) <= Len(v)
  <2>. HIDE DEF v, n, b
  <2>1. Len(v) \in Nat
    BY <1>1
  <2>. QED
    BY <1>2, <1>3, <2>1
<1>5. wire' = [wire EXCEPT ![Peer(e)] = b]
  BY Zenon DEF ReceiveBytes
<1>6. LET r == ProcessBytesRead(sock[e], a)
      IN  CASE r.threw -> ReadThrows(e, r.s)
            [] ~r.threw /\ r.s.readBuffer # <<>> -> ReadReturns(e, r.s)
            [] OTHER -> sock' = [sock EXCEPT ![e] = r.s] /\ UNCHANGED <<io, got, heard>>
  BY Zenon DEF ReceiveBytes
<1>. HIDE DEF v, a, b, n
<1>7. v = wire[Peer(e)]
  BY DEF v
<1>. QED
  BY <1>3, <1>4, <1>5, <1>6, <1>7, Zenon

LEMMA ReceiveStep ==
    ASSUME TypeOK, NEW e \in End, StreamOK(e), IoOK(e), IoOK(Peer(e)), ReceiveBytes(e)
    PROVE  ReadStep(e)
<1>1. PICK a \in Seq(Byte), b \in Seq(Byte) :
         /\ wire[Peer(e)] = a \o b /\ Len(b) <= Len(wire[Peer(e)])
         /\ wire' = [wire EXCEPT ![Peer(e)] = b]
         /\ LET r == ProcessBytesRead(sock[e], a)
            IN  CASE r.threw -> ReadThrows(e, r.s)
                  [] ~r.threw /\ r.s.readBuffer # <<>> -> ReadReturns(e, r.s)
                  [] OTHER -> sock' = [sock EXCEPT ![e] = r.s] /\ UNCHANGED <<io, got, heard>>
  BY Received, Zenon
<1>2. /\ io[e].op = "recv" /\ e[1] \notin broken
      /\ UNCHANGED <<open, broken, interrupt, sent>>
  BY DEF ReceiveBytes
<1>3. io[e].op \in ReadOps
  BY <1>2 DEF ReadOps
<1>. DEFINE r == ProcessBytesRead(sock[e], a)
<1>4. sock[e] \in Readers /\ got[e] \in Seq(Seq(Byte)) /\ io[e] \in IoType
  BY SocketTypes
<1>5. /\ Carries(sock[e], a \o b, got[e], sent[Peer(e)], io[Peer(e)], open[Peer(e)])
      /\ heard[e] = "flows" /\ ~sock[e].eof /\ Intact(e)
  BY <1>1, <1>2, <1>3, StreamNow
<1>6. /\ ~r.threw /\ Carries(r.s, b, got[e], sent[Peer(e)], io[Peer(e)], open[Peer(e)])
      /\ ProcessBytesRead(r.s, b) = ProcessBytesRead(sock[e], a \o b)
      /\ Prefix(got[e] \o r.s.readBuffer, sent[Peer(e)])
  BY <1>4, <1>5, CarriesRead
<1>7. r.s \in Readers /\ ~r.s.eof
  BY <1>4, <1>5, ReadTypes, ReadEof
<1>. HIDE DEF r
<1>8. StreamIs(e, r.s, b, got[e], heard[e])
  BY <1>6, <1>7, Zenon DEF StreamIs
<1>9. MidIs(e, r.s, b, heard[e])
  BY <1>1, <1>5, <1>6, Zenon DEF MidIs, MidPacket
<1>10. CASE r.s.readBuffer # <<>>
  <2>1. ReadReturns(e, r.s)
    BY <1>1, <1>6, <1>10, Zenon DEF r
  <2>. QED
    BY <1>1, <1>2, <1>7, <1>8, <1>9, <1>10, <2>1, PacketFound, Zenon
<1>11. CASE r.s.readBuffer = <<>>
  <2>1. sock' = [sock EXCEPT ![e] = r.s] /\ UNCHANGED <<io, got, heard>>
    BY <1>1, <1>6, <1>11, Zenon DEF r
  <2>2. /\ io \in [End -> IoType] /\ got \in [End -> Seq(Seq(Byte))]
        /\ heard \in [End -> {"flows", "ended", "failed"}]
    BY DEF TypeOK, SocketTypeOK
  <2>3. io' = [io EXCEPT ![e] = io[e]]
    BY <2>1, <2>2
  <2>4. got' = [got EXCEPT ![e] = got[e]]
    BY <2>1, <2>2
  <2>5. heard' = [heard EXCEPT ![e] = heard[e]]
    BY <2>1, <2>2
  <2>6. ReadMakes(e, r.s, b, got[e], heard[e], io[e])
    BY <1>1, <1>2, <2>1, <2>3, <2>4, <2>5, Zenon DEF ReadMakes
  <2>7. ReadTyped(e, r.s, b, got[e], heard[e], io[e])
    <3>1. heard[e] \in {"flows", "ended", "failed"}
      BY SocketTypes
    <3>. QED
      BY <1>1, <1>4, <1>7, <3>1, Zenon DEF ReadTyped
  <2>8. ReadOutcome(e, got[e], heard[e], io[e])
    BY <1>3 DEF ReadOutcome, IoOK, ReadOps
  <2>9. ReadIs(e, r.s, b, got[e], heard[e], io[e])
    BY <1>8, <1>9, <2>6, <2>7, <2>8, Zenon DEF ReadIs
  <2>. QED
    BY <1>3, <2>9, Zenon DEF ReadStep
<1>. QED
  BY <1>10, <1>11

LEMMA NothingStep ==
    ASSUME TypeOK, NEW e \in End, StreamOK(e), IoOK(e), ReceiveNothing(e)
    PROVE  ReadStep(e)
<1>1. /\ io[e].op = "recv" /\ MustReceive(e) /\ ReadReturns(e, sock[e])
      /\ UNCHANGED <<wire, open, broken, interrupt, sent>>
  BY DEF ReceiveNothing
<1>2. io[e].op \in ReadOps /\ sock[e].readBuffer = <<>>
  BY <1>1 DEF ReadOps, MustReceive
<1>3. /\ StreamIs(e, sock[e], wire[Peer(e)], got[e], heard[e]) /\ ~sock[e].eof
  BY <1>2, StreamNow
<1>5. /\ sock[e] \in Readers /\ wire[Peer(e)] \in Seq(Byte) /\ Peer(e) \in End
      /\ Len(wire[Peer(e)]) <= Len(wire[Peer(e)])
  <2>1. Peer(e) \in End
    BY Peers
  <2>2. wire[Peer(e)] \in Seq(Byte) /\ sock[e] \in Readers
    BY <2>1, SocketTypes
  <2>3. Len(wire[Peer(e)]) \in Nat
    BY <2>2
  <2>. QED
    BY <2>1, <2>2, <2>3
<1>6. wire' = [wire EXCEPT ![Peer(e)] = wire[Peer(e)]]
  <2>1. wire \in [End -> Seq(Byte)]
    BY DEF TypeOK, SocketTypeOK
  <2>. QED
    BY <1>1, <1>5, <2>1
<1>7. MidIs(e, sock[e], wire[Peer(e)], heard[e])
  BY StaysMid
<1>. QED
  BY <1>1, <1>2, <1>3, <1>5, <1>6, <1>7, NoneFound, Zenon

\* The end of the stream: nothing is missing, unless the peer closed in the
\* middle of a packet.
LEMMA EndStep ==
    ASSUME TypeOK, NEW e \in End, StreamOK(e), IoOK(e), IoOK(Peer(e)), ReceiveEof(e)
    PROVE  ReadStep(e)
<1>. DEFINE t == [sock[e] EXCEPT !.eof = TRUE]
<1>1. /\ io[e].op = "recv" /\ MustReceive(e) /\ e[1] \notin broken
      /\ wire[Peer(e)] = <<>> /\ open[Peer(e)] # "open"
      /\ UNCHANGED <<wire, open, broken, interrupt, sent>>
      /\ IF NothingAccumulated(t) THEN ReadReturns(e, t) ELSE ReadThrows(e, t)
  BY Zenon DEF ReceiveEof
<1>2. io[e].op \in ReadOps /\ sock[e].readBuffer = <<>>
  BY <1>1 DEF ReadOps, MustReceive
<1>3. /\ Carries(sock[e], <<>>, got[e], sent[Peer(e)], io[Peer(e)], open[Peer(e)])
      /\ heard[e] = "flows" /\ Intact(e)
      /\ Prefix(got[e] \o sock[e].readBuffer, sent[Peer(e)])
  <2>1. StreamIs(e, sock[e], wire[Peer(e)], got[e], "flows") /\ heard[e] = "flows" /\ open[e] # "closed"
    BY <1>2, StreamNow
  <2>. QED
    BY <1>1, <2>1, Zenon DEF StreamIs, Alive, Intact
<1>4. io[Peer(e)].op # "write"
  BY <1>1 DEF IoOK
<1>5. sock[e] \in Readers /\ got[e] \in Seq(Seq(Byte))
  BY SocketTypes
<1>6. /\ t \in Readers /\ Carries(t, <<>>, got[e], sent[Peer(e)], io[Peer(e)], open[Peer(e)])
      /\ t.readBuffer = sock[e].readBuffer
      /\ NothingAccumulated(t) <=> NothingAccumulated(sock[e])
      /\ ProcessBytesRead(t, <<>>).s = t
  BY <1>3, <1>4, <1>5, CarriesEof
<1>7. ProcessBytesRead(sock[e], <<>>).s = sock[e]
  BY <1>5, ReadNone, ContinueIs
<1>8. sock[e] \in SockType /\ t.eof
  <2>1. sock[e] \in SockType
    BY <1>5, ReaderTypes
  <2>. QED
    BY <2>1 DEF SockType
<1>9. /\ heard \in [End -> {"flows", "ended", "failed"}] /\ got \in [End -> Seq(Seq(Byte))]
      /\ wire \in [End -> Seq(Byte)] /\ Peer(e) \in End
  BY Peers DEF TypeOK, SocketTypeOK
<1>10. wire' = [wire EXCEPT ![Peer(e)] = <<>>]
  BY <1>1, <1>9
<1>11. "eof" \in Results /\ "threw" \in Results
  BY DEF Results
<1>. HIDE DEF t
<1>12. <<>> \in Seq(Byte) /\ Len(<<>>) <= Len(wire[Peer(e)])
  BY <1>1
<1>13. CASE NothingAccumulated(t)
  <2>1. ReadReturns(e, t)
    BY <1>1, <1>13
  <2>2. /\ sock' = [sock EXCEPT ![e] = t] /\ UNCHANGED got
        /\ io' = [io EXCEPT ![e] = Returns("eof")]
        /\ heard' = [heard EXCEPT ![e] = "ended"]
    BY <1>2, <1>3, <1>6, <1>8, <2>1, Zenon DEF ReadReturns
  <2>3. got' = [got EXCEPT ![e] = got[e]]
    BY <1>9, <2>2
  <2>4. got[e] = sent[Peer(e)]
    <3>1. got[e] \o ProcessBytesRead(sock[e], <<>>).s.readBuffer = sent[Peer(e)]
      BY <1>3, Zenon DEF Carries
    <3>2. got[e] \o <<>> = got[e]
      BY <1>5
    <3>. QED
      BY <1>2, <1>7, <3>1, <3>2
  <2>5. StreamIs(e, t, <<>>, got[e], "ended")
    BY <1>3, <1>6, "ended" # "flows", Zenon DEF StreamIs
  <2>6. MidIs(e, t, <<>>, "ended")
    BY <1>6, <1>13, Zenon DEF MidIs
  <2>7. /\ Returns("eof") \in IoType /\ Returns("eof").op = "none" /\ Returns("eof").result = "eof"
    BY <1>11, ReturnsType
  <2>8. ReadOutcome(e, got[e], "ended", Returns("eof"))
    BY <2>4, <2>7, Zenon DEF ReadOutcome
  <2>9. ReadMakes(e, t, <<>>, got[e], "ended", Returns("eof"))
    BY <1>1, <1>10, <2>2, <2>3, Zenon DEF ReadMakes
  <2>10. ReadTyped(e, t, <<>>, got[e], "ended", Returns("eof"))
    <3>1. "ended" \in {"flows", "ended", "failed"}
      OBVIOUS
    <3>. QED
      BY <1>5, <1>6, <1>12, <2>7, <3>1, Zenon DEF ReadTyped
  <2>11. ReadIs(e, t, <<>>, got[e], "ended", Returns("eof"))
    BY <2>5, <2>6, <2>8, <2>9, <2>10, Zenon DEF ReadIs
  <2>. QED
    BY <1>2, <2>11, Zenon DEF ReadStep
<1>14. CASE ~NothingAccumulated(t)
  <2>1. ReadThrows(e, t)
    BY <1>1, <1>14
  <2>2. /\ sock' = [sock EXCEPT ![e] = t] /\ UNCHANGED got
        /\ io' = [io EXCEPT ![e] = Returns("threw")]
        /\ heard' = [heard EXCEPT ![e] = "failed"]
    BY <1>3, <2>1, Zenon DEF ReadThrows
  <2>3. got' = [got EXCEPT ![e] = got[e]]
    BY <1>9, <2>2
  <2>4. MidPacket(e)
    BY <1>1, <1>6, <1>7, <1>14, Zenon DEF MidPacket
  <2>5. open[Peer(e)] = "closed"
    BY <1>3, <1>4, <1>6, <1>7, <1>14, Zenon DEF Carries
  <2>6. StreamIs(e, t, <<>>, got[e], "failed")
    BY <1>3, <1>6, "failed" # "flows", Zenon DEF StreamIs, Alive
  <2>7. MidIs(e, t, <<>>, "failed")
    BY Zenon DEF MidIs, Alive
  <2>8. /\ Returns("threw") \in IoType /\ Returns("threw").op = "none" /\ Returns("threw").result = "threw"
    BY <1>11, ReturnsType
  <2>9. ReadOutcome(e, got[e], "failed", Returns("threw"))
    BY <1>3, <2>4, <2>5, <2>8, Zenon DEF ReadOutcome
  <2>10. ReadMakes(e, t, <<>>, got[e], "failed", Returns("threw"))
    BY <1>1, <1>10, <2>2, <2>3, Zenon DEF ReadMakes
  <2>11. ReadTyped(e, t, <<>>, got[e], "failed", Returns("threw"))
    <3>1. "failed" \in {"flows", "ended", "failed"}
      OBVIOUS
    <3>. QED
      BY <1>5, <1>6, <1>12, <2>8, <3>1, Zenon DEF ReadTyped
  <2>12. ReadIs(e, t, <<>>, got[e], "failed", Returns("threw"))
    BY <2>6, <2>7, <2>9, <2>10, <2>11, Zenon DEF ReadIs
  <2>. QED
    BY <1>2, <2>12, Zenon DEF ReadStep
<1>. QED
  BY <1>13, <1>14

LEMMA ResetStep ==
    ASSUME TypeOK, NEW e \in End, StreamOK(e), IoOK(e), ReceiveBroken(e)
    PROVE  ReadStep(e)
<1>1. /\ io[e].op = "recv" /\ io' = [io EXCEPT ![e] = Returns("eof")]
      /\ heard' = [heard EXCEPT ![e] = IF @ = "flows" THEN "failed" ELSE @]
      /\ wire' = [wire EXCEPT ![Peer(e)] = <<>>]
      /\ UNCHANGED <<open, broken, sock, interrupt, sent, got>>
  BY DEF ReceiveBroken
<1>2. io[e].op \in ReadOps
  BY <1>1 DEF ReadOps
<1>3. heard[e] = "flows" /\ Prefix(got[e] \o sock[e].readBuffer, sent[Peer(e)])
  BY <1>2, StreamNow, Zenon DEF StreamIs
<1>4. heard' = [heard EXCEPT ![e] = "failed"]
  BY <1>1, <1>3, Zenon
<1>5. /\ sock \in [End -> SockType] /\ got \in [End -> Seq(Seq(Byte))] /\ Peer(e) \in End
  BY Peers DEF TypeOK, SocketTypeOK
<1>6. sock' = [sock EXCEPT ![e] = sock[e]]
  BY <1>1, <1>5
<1>7. got' = [got EXCEPT ![e] = got[e]]
  BY <1>1, <1>5
<1>8. StreamIs(e, sock[e], <<>>, got[e], "failed")
  BY <1>3, "failed" # "flows", Zenon DEF StreamIs, Alive
<1>9. MidIs(e, sock[e], <<>>, "failed")
  BY Zenon DEF MidIs, Alive
<1>10. "eof" \in Results
  BY DEF Results
<1>11. /\ Returns("eof") \in IoType /\ Returns("eof").op = "none" /\ Returns("eof").result = "eof"
  BY <1>10, ReturnsType
<1>12. ReadOutcome(e, got[e], "failed", Returns("eof"))
  BY <1>11, Zenon DEF ReadOutcome
<1>13. ReadMakes(e, sock[e], <<>>, got[e], "failed", Returns("eof"))
  BY <1>1, <1>4, <1>6, <1>7, Zenon DEF ReadMakes
<1>14. ReadTyped(e, sock[e], <<>>, got[e], "failed", Returns("eof"))
  <2>1. "failed" \in {"flows", "ended", "failed"}
    OBVIOUS
  <2>2. sock[e] \in Readers /\ got[e] \in Seq(Seq(Byte)) /\ wire[Peer(e)] \in Seq(Byte)
    BY <1>5, SocketTypes
  <2>3. <<>> \in Seq(Byte) /\ Len(<<>>) <= Len(wire[Peer(e)])
    BY <2>2
  <2>. QED
    BY <1>11, <2>1, <2>2, <2>3, Zenon DEF ReadTyped
<1>15. ReadIs(e, sock[e], <<>>, got[e], "failed", Returns("eof"))
  BY <1>8, <1>9, <1>12, <1>13, <1>14, Zenon DEF ReadIs
<1>. QED
  BY <1>2, <1>15, Zenon DEF ReadStep

LEMMA Reading ==
    ASSUME TypeOK, NEW e \in End, StreamOK(e), IoOK(e), IoOK(Peer(e)),
           \/ TestInterrupt(e) \/ Poll(e) \/ ReadKnown(e)
           \/ ReceiveBytes(e) \/ ReceiveNothing(e) \/ ReceiveEof(e) \/ ReceiveBroken(e)
    PROVE  ReadStep(e)
  BY WaitStep, KnownStep, ReceiveStep, NothingStep, EndStep, ResetStep, Zenon
-----------------------------------------------------------------------------
(* What a step of a write does: it leaves w on the wire from writer e, t as   *)
(* its packets and x as its operation.                                       *)

WriteTyped(w, t, x) ==
    w \in Seq(Byte) /\ Len(w) <= KernelSize /\ t \in Seq(Packets) /\ x \in IoType

WriteOutcome(e, t, x) ==
    \/ x.op = "write" /\ x.result = "none" /\ x.packet = io[e].packet /\ t = sent[e]
    \/ x.op = "none" /\ x.result = "written" /\ t = Append(sent[e], io[e].packet)
    \/ x.op = "none" /\ x.result = "hungup" /\ t = sent[e] /\ CannotSend(e)

\* The stream to reader d.
WriteStream(d, w, t, x) ==
    /\ Intact(d) => Carries(sock[d], w, got[d], t, x, open[Peer(d)])
    /\ Prefix(got[d] \o sock[d].readBuffer, t)

WriteMakes(e, w, t, x) ==
    /\ wire' = [wire EXCEPT ![e] = w] /\ sent' = [sent EXCEPT ![e] = t]
    /\ io' = [io EXCEPT ![e] = x]
    /\ UNCHANGED <<open, broken, sock, interrupt, got, heard>>

WriteIs(e, w, t, x) ==
    /\ WriteTyped(w, t, x) /\ WriteOutcome(e, t, x) /\ WriteStream(Peer(e), w, t, x)
    /\ WriteMakes(e, w, t, x)

WriteStep(e) == io[e].op = "write" /\ \E w, t, x : WriteIs(e, w, t, x)

\* What the kernel takes is the front of what is pending.
LEMMA Pieced ==
    ASSUME TypeOK, NEW e \in End, WriteSome(e)
    PROVE  \E a, b \in Seq(Byte) :
              /\ io[e].pending = a \o b /\ Len(wire[e] \o a) <= KernelSize
              /\ wire' = [wire EXCEPT ![e] = wire[e] \o a]
              /\ io' = [io EXCEPT ![e] = IF b = <<>> THEN Returns("written")
                                         ELSE [io[e] EXCEPT !.pending = b]]
              /\ sent' = IF b = <<>> THEN [sent EXCEPT ![e] = Append(sent[e], io[e].packet)] ELSE sent
<1>. DEFINE v == io[e].pending
            a(n) == SubSeq(v, 1, n)
            b(n) == SubSeq(v, n + 1, Len(v))
<1>1. PICK n \in {k \in Pieces : k <= Room(e) /\ k <= Len(v)} :
         /\ wire' = [wire EXCEPT ![e] = wire[e] \o a(n)]
         /\ io' = [io EXCEPT ![e] = IF b(n) = <<>> THEN Returns("written")
                                    ELSE [io[e] EXCEPT !.pending = b(n)]]
         /\ sent' = IF b(n) = <<>> THEN [sent EXCEPT ![e] = Append(sent[e], io[e].packet)] ELSE sent
  BY Zenon DEF WriteSome
<1>2. v \in Seq(Byte) /\ wire[e] \in Seq(Byte) /\ Len(wire[e]) <= KernelSize
  BY SocketTypes
<1>3. n \in Nat /\ n <= Len(v) /\ n <= KernelSize - Len(wire[e])
  BY <1>1, Sizes DEF Room
<1>. HIDE DEF v
<1>4. a(n) \in Seq(Byte) /\ b(n) \in Seq(Byte) /\ v = a(n) \o b(n) /\ Len(a(n)) = n
  BY <1>2, <1>3, SplitAt
<1>5. Len(wire[e] \o a(n)) <= KernelSize
  <2>. HIDE DEF a
  <2>0. \A x, y \in Seq(Byte) : Len(x \o y) = Len(x) + Len(y) /\ Len(x) \in Nat
    OBVIOUS
  <2>1. Len(wire[e] \o a(n)) = Len(wire[e]) + Len(a(n)) /\ Len(wire[e]) \in Nat
    BY <1>2, <1>4, <2>0, Zenon
  <2>. QED
    BY <1>3, <1>4, <2>1, Sizes
<1>. HIDE DEF a, b
<1>6. io[e].pending = a(n) \o b(n)
  BY <1>4 DEF v
<1>. QED
  BY <1>1, <1>4, <1>5, <1>6, Zenon

\* What WriteSome has to keep.
LEMMA WriteNow ==
    ASSUME TypeOK, NEW e \in End, StreamOK(Peer(e)), IoOK(e), io[e].op = "write"
    PROVE  /\ Intact(Peer(e))
                => Carries(sock[Peer(e)], wire[e], got[Peer(e)], sent[e], io[e], open[e])
           /\ Prefix(got[Peer(e)] \o sock[Peer(e)].readBuffer, sent[e])
           /\ io[e].result = "none" /\ open[e] = "open" /\ io[e].packet \in Packets
           /\ Peer(e) \in End /\ Peer(Peer(e)) = e
           /\ io[e].packet \in Seq(Byte) /\ io[e].pending \in Seq(Byte) /\ io[e] \in IoType
           /\ wire[e] \in Seq(Byte) /\ sent[e] \in Seq(Packets) /\ Len(wire[e]) <= KernelSize
           /\ sock[Peer(e)] \in Readers /\ got[Peer(e)] \in Seq(Seq(Byte))
<1>1. Peer(e) \in End /\ Peer(Peer(e)) = e
  BY Peers
<1>2. /\ io[e].packet \in Seq(Byte) /\ io[e].pending \in Seq(Byte) /\ io[e] \in IoType
      /\ wire[e] \in Seq(Byte) /\ sent[e] \in Seq(Packets) /\ Len(wire[e]) <= KernelSize
      /\ sock[Peer(e)] \in Readers /\ got[Peer(e)] \in Seq(Seq(Byte))
  BY <1>1, SocketTypes
<1>3. io[e].result = "none" /\ open[e] = "open" /\ io[e].packet \in Packets
  BY DEF IoOK
<1>4. /\ Intact(Peer(e))
           => Carries(sock[Peer(e)], wire[e], got[Peer(e)], sent[e], io[e], open[e])
      /\ Prefix(got[Peer(e)] \o sock[Peer(e)].readBuffer, sent[e])
  BY <1>1, Zenon DEF StreamOK, FlowOK, OrderOK
<1>. QED
  BY <1>1, <1>2, <1>3, <1>4

LEMMA PrefixAppend ==
    ASSUME NEW A, NEW B, NEW u \in Seq(A), NEW v \in Seq(B), NEW x, Prefix(u, v)
    PROVE  Prefix(u, Append(v, x))
<1>1. Len(v) \in Nat /\ Len(u) \in Nat /\ Len(Append(v, x)) = Len(v) + 1
  OBVIOUS
<1>2. \A i \in 1 .. Len(v) : Append(v, x)[i] = v[i]
  OBVIOUS
<1>. QED
  BY <1>1, <1>2 DEF Prefix

LEMMA SomeStep ==
    ASSUME TypeOK, NEW e \in End, StreamOK(Peer(e)), IoOK(e), WriteSome(e)
    PROVE  WriteStep(e)
<1>1. io[e].op = "write" /\ UNCHANGED <<open, broken, sock, interrupt, got, heard>>
  BY DEF WriteSome
<1>2. PICK a \in Seq(Byte), b \in Seq(Byte) :
         /\ io[e].pending = a \o b /\ Len(wire[e] \o a) <= KernelSize
         /\ wire' = [wire EXCEPT ![e] = wire[e] \o a]
         /\ io' = [io EXCEPT ![e] = IF b = <<>> THEN Returns("written")
                                    ELSE [io[e] EXCEPT !.pending = b]]
         /\ sent' = IF b = <<>> THEN [sent EXCEPT ![e] = Append(sent[e], io[e].packet)] ELSE sent
  BY Pieced
<1>. DEFINE d == Peer(e)
            w == wire[e] \o a
<1>3. /\ Intact(d) => Carries(sock[d], wire[e], got[d], sent[e], io[e], open[e])
      /\ Prefix(got[d] \o sock[d].readBuffer, sent[e])
      /\ io[e].result = "none" /\ io[e].packet \in Packets
      /\ Peer(d) = e
      /\ io[e].packet \in Seq(Byte) /\ io[e].pending \in Seq(Byte) /\ io[e] \in IoType
      /\ wire[e] \in Seq(Byte) /\ sent[e] \in Seq(Packets)
      /\ sock[d] \in Readers /\ got[d] \in Seq(Seq(Byte))
  BY <1>1, WriteNow
<1>4. w \in Seq(Byte)
  BY <1>3
<1>5. CASE b = <<>>
  <2>. DEFINE x == Returns("written")
              t == Append(sent[e], io[e].packet)
  <2>1. "written" \in Results /\ "none" # "write"
    BY DEF Results
  <2>2. x \in IoType /\ x.op = "none" /\ x.result = "written"
    BY <2>1, ReturnsType
  <2>3. t \in Seq(Packets)
    BY <1>3
  <2>4. io[e].pending = a
    BY <1>2, <1>5
  <2>. HIDE DEF x
  <2>5. Intact(d) => Carries(sock[d], w, got[d], t, x, open[e])
    <3>1. SUFFICES ASSUME Intact(d) PROVE Carries(sock[d], w, got[d], t, x, open[e])
      OBVIOUS
    <3>2. Carries(sock[d], wire[e], got[d], sent[e], io[e], open[e]) /\ x.op # "write"
      BY <1>3, <2>1, <2>2, <3>1
    <3>3. Carries(sock[d], wire[e] \o io[e].pending, got[d], t, x, open[e])
      BY <1>1, <1>3, <3>2, CarriesLast
    <3>. QED
      BY <2>4, <3>3
  <2>6. Prefix(got[d] \o sock[d].readBuffer, t)
    <3>1. got[d] \o sock[d].readBuffer \in Seq(Seq(Byte))
      BY <1>3, ReaderTypes
    <3>. QED
      BY <1>3, <3>1, PrefixAppend
  <2>7. WriteStream(d, w, t, x)
    BY <1>3, <2>5, <2>6, Zenon DEF WriteStream
  <2>8. WriteOutcome(e, t, x)
    BY <2>2, Zenon DEF WriteOutcome
  <2>9. WriteMakes(e, w, t, x)
    BY <1>1, <1>2, <1>5, Zenon DEF WriteMakes, x
  <2>10. WriteTyped(w, t, x)
    BY <1>2, <1>4, <2>2, <2>3, Zenon DEF WriteTyped
  <2>11. WriteIs(e, w, t, x)
    BY <2>7, <2>8, <2>9, <2>10, Zenon DEF WriteIs
  <2>. QED
    BY <1>1, <2>11, Zenon DEF WriteStep
<1>6. CASE b # <<>>
  <2>. DEFINE x == [io[e] EXCEPT !.pending = b]
              t == sent[e]
  <2>1. /\ x \in IoType /\ x.op = "write" /\ x.result = "none"
        /\ x.packet = io[e].packet /\ x.pending = b
    BY <1>1, <1>3, WithPending
  <2>2. io' = [io EXCEPT ![e] = x] /\ UNCHANGED sent
    BY <1>2, <1>6, Zenon
  <2>3. sent' = [sent EXCEPT ![e] = t]
    <3>1. sent \in [End -> Seq(Packets)]
      BY DEF TypeOK, SocketTypeOK
    <3>. QED
      BY <2>2, <3>1
  <2>. HIDE DEF x
  <2>4. Intact(d) => Carries(sock[d], w, got[d], t, x, open[e])
    <3>1. SUFFICES ASSUME Intact(d) PROVE Carries(sock[d], w, got[d], t, x, open[e])
      OBVIOUS
    <3>2. Carries(sock[d], wire[e], got[d], sent[e], io[e], open[e])
      BY <1>3, <3>1
    <3>. QED
      BY <1>1, <1>2, <1>3, <1>6, <2>1, <3>2, CarriesMore
  <2>5. WriteStream(d, w, t, x)
    BY <1>3, <2>4, Zenon DEF WriteStream
  <2>6. WriteOutcome(e, t, x)
    BY <2>1, Zenon DEF WriteOutcome
  <2>7. WriteMakes(e, w, t, x)
    BY <1>1, <1>2, <2>2, <2>3, Zenon DEF WriteMakes
  <2>8. WriteTyped(w, t, x)
    BY <1>2, <1>3, <1>4, <2>1, Zenon DEF WriteTyped
  <2>9. WriteIs(e, w, t, x)
    BY <2>5, <2>6, <2>7, <2>8, Zenon DEF WriteIs
  <2>. QED
    BY <1>1, <2>9, Zenon DEF WriteStep
<1>. QED
  BY <1>5, <1>6

LEMMA FailsStep ==
    ASSUME TypeOK, NEW e \in End, StreamOK(Peer(e)), IoOK(e), WriteFails(e)
    PROVE  WriteStep(e)
<1>. DEFINE x == Returns("hungup")
            d == Peer(e)
<1>1. /\ io[e].op = "write" /\ CannotSend(e) /\ io' = [io EXCEPT ![e] = x]
      /\ UNCHANGED <<wire, open, broken, sock, interrupt, sent, got, heard>>
  BY DEF WriteFails
<1>2. /\ Prefix(got[d] \o sock[d].readBuffer, sent[e]) /\ Peer(d) = e /\ d \in End
      /\ wire[e] \in Seq(Byte) /\ sent[e] \in Seq(Packets) /\ Len(wire[e]) <= KernelSize
  BY <1>1, WriteNow
<1>3. "hungup" \in Results
  BY DEF Results
<1>4. x \in IoType /\ x.op = "none" /\ x.result = "hungup"
  BY <1>3, ReturnsType
<1>5. ~Intact(d)
  BY <1>1, Peers DEF Intact, CannotSend
<1>6. wire \in [End -> Seq(Byte)] /\ sent \in [End -> Seq(Packets)]
  BY DEF TypeOK, SocketTypeOK
<1>7. wire' = [wire EXCEPT ![e] = wire[e]]
  BY <1>1, <1>6
<1>8. sent' = [sent EXCEPT ![e] = sent[e]]
  BY <1>1, <1>6
<1>. HIDE DEF x
<1>9. WriteStream(d, wire[e], sent[e], x)
  BY <1>2, <1>5, Zenon DEF WriteStream
<1>10. WriteOutcome(e, sent[e], x)
  BY <1>1, <1>4, Zenon DEF WriteOutcome
<1>11. WriteMakes(e, wire[e], sent[e], x)
  BY <1>1, <1>7, <1>8, Zenon DEF WriteMakes
<1>12. WriteTyped(wire[e], sent[e], x)
  BY <1>2, <1>4, Zenon DEF WriteTyped
<1>13. WriteIs(e, wire[e], sent[e], x)
  BY <1>9, <1>10, <1>11, <1>12, Zenon DEF WriteIs
<1>. QED
  BY <1>1, <1>13, Zenon DEF WriteStep

LEMMA SocketSteps ==
    ASSUME TypeOK, StreamsOK, NEW e \in End, Progress(e)
    PROVE  ReadStep(e) \/ WriteStep(e)
<1>1. StreamOK(e) /\ StreamOK(Peer(e)) /\ IoOK(e) /\ IoOK(Peer(e))
  BY Peers DEF StreamsOK, StreamOK
<1>2. \/ WriteSome(e) \/ WriteFails(e)
      \/ \/ TestInterrupt(e) \/ Poll(e) \/ ReadKnown(e)
         \/ ReceiveBytes(e) \/ ReceiveNothing(e) \/ ReceiveEof(e) \/ ReceiveBroken(e)
  BY Zenon DEF Progress
<1>. QED
  BY <1>1, <1>2, Reading, SomeStep, FailsStep, Zenon
-----------------------------------------------------------------------------
(* What these steps mean for the streams and the types.                      *)

\* A stream that a step leaves alone, and one on which a write starts.
LEMMA StreamKept ==
    ASSUME NEW e \in End, StreamOK(e),
           sock'[e] = sock[e], got'[e] = got[e], heard'[e] = heard[e], sent'[Peer(e)] = sent[Peer(e)],
           Intact(e)' => Intact(e) /\ wire'[Peer(e)] = wire[Peer(e)],
           Intact(e)' /\ io'[Peer(e)].op = "write"
               => /\ io[Peer(e)].op = "write" /\ io'[Peer(e)].pending = io[Peer(e)].pending
                  /\ io'[Peer(e)].packet = io[Peer(e)].packet,
           Intact(e)' /\ io'[Peer(e)].op # "write" /\ open'[Peer(e)] # "closed"
               => io[Peer(e)].op # "write" /\ open[Peer(e)] # "closed"
    PROVE  StreamOK(e)'
<1>1. ASSUME Intact(e)'
      PROVE  Carries(sock'[e], wire'[Peer(e)], got'[e], sent'[Peer(e)], io'[Peer(e)], open'[Peer(e)])
  <2>1. Carries(sock[e], wire[Peer(e)], got[e], sent[Peer(e)], io[Peer(e)], open[Peer(e)])
    BY <1>1 DEF StreamOK, FlowOK
  <2>2. Carries(sock[e], wire[Peer(e)], got[e], sent[Peer(e)], io'[Peer(e)], open'[Peer(e)])
    BY <1>1, <2>1, CarriesSame
  <2>. QED
    BY <1>1, <2>2
<1>2. OrderOK(e)'
  BY DEF StreamOK, OrderOK
<1>3. EofOK(e)'
  BY DEF StreamOK, EofOK
<1>4. FlowOK(e)'
  BY <1>1, Zenon DEF FlowOK
<1>. QED
  BY <1>2, <1>3, <1>4 DEF StreamOK

LEMMA StreamStarts ==
    ASSUME TypeOK, NEW e \in End, StreamOK(e),
           sock'[e] = sock[e], got'[e] = got[e], heard'[e] = heard[e], sent'[Peer(e)] = sent[Peer(e)],
           Intact(e)' => Intact(e), wire'[Peer(e)] = wire[Peer(e)],
           io[Peer(e)].op # "write", open[Peer(e)] # "closed",
           NEW p \in Seq(Byte), io'[Peer(e)].op = "write", io'[Peer(e)].pending = Frame(p),
           io'[Peer(e)].packet = p
    PROVE  StreamOK(e)'
<1>0. sock[e] \in Readers /\ wire[Peer(e)] \in Seq(Byte)
  BY Peers, SocketTypes
<1>1. ASSUME Intact(e)'
      PROVE  Carries(sock'[e], wire'[Peer(e)], got'[e], sent'[Peer(e)], io'[Peer(e)], open'[Peer(e)])
  <2>1. Carries(sock[e], wire[Peer(e)], got[e], sent[Peer(e)], io[Peer(e)], open[Peer(e)])
    BY <1>1 DEF StreamOK, FlowOK
  <2>2. Carries(sock[e], wire[Peer(e)], got[e], sent[Peer(e)], io'[Peer(e)], open'[Peer(e)])
    BY <1>0, <2>1, CarriesStart
  <2>. QED
    BY <2>2
<1>2. OrderOK(e)'
  BY DEF StreamOK, OrderOK
<1>3. EofOK(e)'
  BY DEF StreamOK, EofOK
<1>4. FlowOK(e)'
  BY <1>1, Zenon DEF FlowOK
<1>. QED
  BY <1>2, <1>3, <1>4 DEF StreamOK

LEMMA ReadFrame ==
    ASSUME TypeOK, NEW e \in End, NEW s, NEW w, NEW g, NEW h, NEW x, ReadMakes(e, s, w, g, h, x)
    PROVE  /\ sock'[e] = s /\ got'[e] = g /\ heard'[e] = h /\ io'[e] = x /\ wire'[Peer(e)] = w
           /\ \A d \in End : d # e => /\ sock'[d] = sock[d] /\ got'[d] = got[d]
                                      /\ heard'[d] = heard[d] /\ io'[d] = io[d]
           /\ \A d \in End : d # Peer(e) => wire'[d] = wire[d]
           /\ open' = open /\ broken' = broken /\ sent' = sent /\ interrupt' = interrupt
<1>1. /\ sock \in [End -> SockType] /\ got \in [End -> Seq(Seq(Byte))] /\ Peer(e) \in End
      /\ heard \in [End -> {"flows", "ended", "failed"}] /\ io \in [End -> IoType]
      /\ wire \in [End -> Seq(Byte)]
  BY Peers DEF TypeOK, SocketTypeOK
<1>. QED
  BY <1>1 DEF ReadMakes

LEMMA ReadTypesKept ==
    ASSUME TypeOK, NEW e \in End, ReadStep(e)
    PROVE  SocketTypeOK'
<1>1. PICK s, w, g, h, x : ReadIs(e, s, w, g, h, x)
  BY Zenon DEF ReadStep
<1>2. ReadTyped(e, s, w, g, h, x) /\ ReadMakes(e, s, w, g, h, x)
  BY <1>1, Zenon DEF ReadIs
<1>3. SocketTypeOK
  BY DEF TypeOK
<1>4. Peer(e) \in End /\ s \in SockType /\ Len(s.escAccum) <= 3 /\ (s.escAccum # <<>> => s.inEscapeSeq)
  BY <1>2, Peers, ReaderTypes DEF ReadTyped
<1>5. /\ sock' \in [End -> SockType] /\ io' \in [End -> IoType] /\ got' \in [End -> Seq(Seq(Byte))]
      /\ heard' \in [End -> {"flows", "ended", "failed"}] /\ wire' \in [End -> Seq(Byte)]
  BY <1>2, <1>3, <1>4 DEF ReadTyped, ReadMakes, SocketTypeOK
<1>6. /\ sent' \in [End -> Seq(Packets)] /\ open' \in [End -> {"open", "shut", "closed"}]
      /\ broken' \subseteq Conn /\ interrupt' \in BOOLEAN
  BY <1>2, <1>3 DEF ReadMakes, SocketTypeOK
<1>7. /\ sock'[e] = s /\ wire'[Peer(e)] = w
      /\ \A d \in End : d # e => sock'[d] = sock[d]
      /\ \A d \in End : d # Peer(e) => wire'[d] = wire[d]
  BY <1>2, ReadFrame
<1>8. ASSUME NEW d \in End
      PROVE  Len(wire'[d]) <= KernelSize
  <2>1. CASE d = Peer(e)
    <3>1. /\ Len(w) <= Len(wire[Peer(e)]) /\ Len(wire[Peer(e)]) <= KernelSize
          /\ w \in Seq(Byte) /\ wire[Peer(e)] \in Seq(Byte)
      BY <1>2, <1>4, SocketTypes DEF ReadTyped
    <3>2. Len(w) \in Nat /\ Len(wire[Peer(e)]) \in Nat
      BY <3>1
    <3>3. Len(w) <= KernelSize
      BY <3>1, <3>2, Sizes
    <3>. QED
      BY <1>7, <2>1, <3>3
  <2>2. CASE d # Peer(e)
    BY <1>7, <2>2, SocketTypes
  <2>. QED
    BY <2>1, <2>2
<1>9. ASSUME NEW d \in End
      PROVE  /\ Len(sock'[d].escAccum) <= 3
             /\ sock'[d].escAccum # <<>> => sock'[d].inEscapeSeq
  <2>1. CASE d = e
    BY <1>4, <1>7, <2>1
  <2>2. CASE d # e
    <3>1. sock'[d] = sock[d]
      BY <1>7, <2>2
    <3>2. Len(sock[d].escAccum) <= 3 /\ (sock[d].escAccum # <<>> => sock[d].inEscapeSeq)
      BY SocketTypes, ReaderTypes
    <3>. QED
      BY <3>1, <3>2
  <2>. QED
    BY <2>1, <2>2
<1>. QED
  BY <1>5, <1>6, <1>8, <1>9, Zenon DEF SocketTypeOK

LEMMA ReadStreams ==
    ASSUME TypeOK, StreamsOK, NEW e \in End, ReadStep(e)
    PROVE  /\ StreamsOK'
           /\ \A d \in End : Intact(d)' /\ MidPacket(d)' => Intact(d) /\ MidPacket(d)
<1>1. PICK s, w, g, h, x : ReadIs(e, s, w, g, h, x)
  BY Zenon DEF ReadStep
<1>2. /\ ReadMakes(e, s, w, g, h, x) /\ StreamIs(e, s, w, g, h) /\ MidIs(e, s, w, h)
      /\ ReadOutcome(e, g, h, x) /\ io[e].op \in ReadOps
  BY <1>1, Zenon DEF ReadIs, ReadStep
<1>3. /\ sock'[e] = s /\ got'[e] = g /\ heard'[e] = h /\ io'[e] = x /\ wire'[Peer(e)] = w
      /\ \A d \in End : d # e => /\ sock'[d] = sock[d] /\ got'[d] = got[d]
                                 /\ heard'[d] = heard[d] /\ io'[d] = io[d]
      /\ \A d \in End : d # Peer(e) => wire'[d] = wire[d]
      /\ open' = open /\ broken' = broken /\ sent' = sent
  BY <1>2, ReadFrame
<1>4. Peer(e) \in End /\ Peer(e) # e /\ Peer(Peer(e)) = e
  BY Peers
<1>5. IoOK(e) /\ open[e] # "closed" /\ io[e].op # "write" /\ x.op # "write" /\ heard[e] = "flows"
  BY <1>2 DEF StreamsOK, IoOK, ReadOutcome, ReadOps
<1>6. Intact(e)' <=> Alive(e, h)
  BY <1>3 DEF Intact, Alive
<1>7. StreamOK(e)' /\ (Intact(e)' /\ MidPacket(e)' => Intact(e) /\ MidPacket(e))
  <2>1. io'[Peer(e)] = io[Peer(e)]
    BY <1>3, <1>4
  <2>2. FlowOK(e)'
    <3>1. ASSUME Intact(e)'
          PROVE  Carries(sock'[e], wire'[Peer(e)], got'[e], sent'[Peer(e)], io'[Peer(e)], open'[Peer(e)])
      BY <1>2, <1>3, <1>6, <2>1, <3>1, Zenon DEF StreamIs
    <3>. QED
      BY <3>1, Zenon DEF FlowOK
  <2>3. OrderOK(e)'
    BY <1>2, <1>3, Zenon DEF OrderOK, StreamIs
  <2>4. EofOK(e)'
    BY <1>2, <1>3, Zenon DEF EofOK, StreamIs
  <2>5. Intact(e)' /\ MidPacket(e)' => Intact(e) /\ MidPacket(e)
    <3>1. MidPacket(e)' => ~NothingAccumulated(ProcessBytesRead(s, w).s)
      BY <1>3, Zenon DEF MidPacket
    <3>. QED
      BY <1>2, <1>6, <3>1, Zenon DEF MidIs
  <2>. QED
    BY <2>2, <2>3, <2>4, <2>5 DEF StreamOK
<1>8. ASSUME NEW d \in End, d # e
      PROVE  StreamOK(d)' /\ (Intact(d)' /\ MidPacket(d)' => Intact(d) /\ MidPacket(d))
  <2>1. Peer(d) \in End /\ Peer(d) # Peer(e) /\ Peer(Peer(d)) = d
    BY <1>4, <1>8, Peers
  <2>2. /\ sock'[d] = sock[d] /\ got'[d] = got[d] /\ heard'[d] = heard[d]
        /\ wire'[Peer(d)] = wire[Peer(d)] /\ sent'[Peer(d)] = sent[Peer(d)]
    BY <1>3, <1>8, <2>1
  <2>3. StreamOK(d)
    BY DEF StreamsOK, StreamOK
  <2>4. Intact(d)' <=> Intact(d)
    BY <1>3, <2>2 DEF Intact
  <2>5. /\ io'[Peer(d)].op = "write"
             => /\ io[Peer(d)].op = "write" /\ io'[Peer(d)].pending = io[Peer(d)].pending
                /\ io'[Peer(d)].packet = io[Peer(d)].packet
        /\ io'[Peer(d)].op # "write" /\ open'[Peer(d)] # "closed"
             => io[Peer(d)].op # "write" /\ open[Peer(d)] # "closed"
    <3>1. CASE Peer(d) = e
      BY <1>3, <1>5, <3>1
    <3>2. CASE Peer(d) # e
      BY <1>3, <2>1, <3>2
    <3>. QED
      BY <3>1, <3>2
  <2>6. StreamOK(d)'
    BY <2>2, <2>3, <2>4, <2>5, StreamKept
  <2>7. MidPacket(d)' <=> MidPacket(d)
    BY <2>2, Zenon DEF MidPacket
  <2>. QED
    BY <2>4, <2>6, <2>7
<1>9. ASSUME NEW d \in End
      PROVE  IoOK(d)'
  <2>1. IoOK(d)
    BY DEF StreamsOK
  <2>2. CASE d # e
    BY <1>3, <2>1, <2>2 DEF IoOK
  <2>3. CASE d = e
    <3>1. /\ x.op # "none" => x.result = "none" /\ h = heard[e]
      BY <1>2 DEF ReadOutcome, ReadOps
    <3>. QED
      BY <1>3, <1>5, <2>3, <3>1 DEF IoOK, ReadOps
  <2>. QED
    BY <2>2, <2>3
<1>10. \A d \in End : StreamOK(d)' /\ (Intact(d)' /\ MidPacket(d)' => Intact(d) /\ MidPacket(d))
  BY <1>7, <1>8
<1>. QED
  BY <1>9, <1>10, Zenon DEF StreamsOK, StreamOK

LEMMA WriteFrame ==
    ASSUME TypeOK, NEW e \in End, NEW w, NEW t, NEW x, WriteMakes(e, w, t, x)
    PROVE  /\ wire'[e] = w /\ sent'[e] = t /\ io'[e] = x
           /\ \A d \in End : d # e => wire'[d] = wire[d] /\ sent'[d] = sent[d] /\ io'[d] = io[d]
           /\ open' = open /\ broken' = broken /\ sock' = sock /\ got' = got /\ heard' = heard
           /\ interrupt' = interrupt
<1>1. /\ sent \in [End -> Seq(Packets)] /\ io \in [End -> IoType] /\ wire \in [End -> Seq(Byte)]
  BY DEF TypeOK, SocketTypeOK
<1>. QED
  BY <1>1 DEF WriteMakes

LEMMA WriteTypesKept ==
    ASSUME TypeOK, NEW e \in End, WriteStep(e)
    PROVE  SocketTypeOK'
<1>1. PICK w, t, x : WriteIs(e, w, t, x)
  BY Zenon DEF WriteStep
<1>2. WriteTyped(w, t, x) /\ WriteMakes(e, w, t, x)
  BY <1>1, Zenon DEF WriteIs
<1>3. SocketTypeOK
  BY DEF TypeOK
<1>4. /\ wire' \in [End -> Seq(Byte)] /\ sent' \in [End -> Seq(Packets)] /\ io' \in [End -> IoType]
  BY <1>2, <1>3 DEF WriteTyped, WriteMakes, SocketTypeOK
<1>5. /\ sock' = sock /\ got' = got /\ heard' = heard /\ open' = open /\ broken' = broken
      /\ interrupt' = interrupt /\ wire'[e] = w /\ \A d \in End : d # e => wire'[d] = wire[d]
  BY <1>2, WriteFrame
<1>6. ASSUME NEW d \in End
      PROVE  Len(wire'[d]) <= KernelSize
  <2>1. Len(w) <= KernelSize /\ Len(wire[d]) <= KernelSize
    BY <1>2, SocketTypes DEF WriteTyped
  <2>. QED
    BY <1>5, <2>1
<1>. QED
  BY <1>3, <1>4, <1>5, <1>6, Zenon DEF SocketTypeOK

LEMMA WriteStreams ==
    ASSUME TypeOK, StreamsOK, NEW e \in End, WriteStep(e)
    PROVE  /\ StreamsOK'
           /\ \A d \in End : d # Peer(e) /\ Intact(d)' /\ MidPacket(d)' => Intact(d) /\ MidPacket(d)
<1>1. PICK w, t, x : WriteIs(e, w, t, x)
  BY Zenon DEF WriteStep
<1>2. /\ WriteMakes(e, w, t, x) /\ WriteStream(Peer(e), w, t, x) /\ WriteOutcome(e, t, x)
      /\ io[e].op = "write"
  BY <1>1, Zenon DEF WriteIs, WriteStep
<1>3. /\ wire'[e] = w /\ sent'[e] = t /\ io'[e] = x
      /\ \A d \in End : d # e => wire'[d] = wire[d] /\ sent'[d] = sent[d] /\ io'[d] = io[d]
      /\ open' = open /\ broken' = broken /\ sock' = sock /\ got' = got /\ heard' = heard
  BY <1>2, WriteFrame
<1>4. Peer(e) \in End /\ Peer(e) # e /\ Peer(Peer(e)) = e
  BY Peers
<1>5. \A d \in End : Intact(d)' <=> Intact(d)
  BY <1>3 DEF Intact
<1>6. StreamOK(Peer(e))'
  <2>1. FlowOK(Peer(e))'
    <3>1. ASSUME Intact(Peer(e))'
          PROVE  Carries(sock'[Peer(e)], wire'[e], got'[Peer(e)], sent'[e], io'[e], open'[e])
      BY <1>2, <1>3, <1>4, <1>5, <3>1, Zenon DEF WriteStream
    <3>. QED
      BY <1>4, <3>1, Zenon DEF FlowOK
  <2>2. OrderOK(Peer(e))'
    BY <1>2, <1>3, <1>4, Zenon DEF OrderOK, WriteStream
  <2>3. EofOK(Peer(e))'
    BY <1>3, <1>4, Zenon DEF EofOK, StreamsOK
  <2>. QED
    BY <2>1, <2>2, <2>3 DEF StreamOK
<1>7. ASSUME NEW d \in End, d # Peer(e)
      PROVE  StreamOK(d)' /\ (Intact(d)' /\ MidPacket(d)' => Intact(d) /\ MidPacket(d))
  <2>1. Peer(d) \in End /\ Peer(d) # e
    BY <1>4, <1>7, Peers
  <2>2. /\ sock'[d] = sock[d] /\ got'[d] = got[d] /\ heard'[d] = heard[d]
        /\ wire'[Peer(d)] = wire[Peer(d)] /\ sent'[Peer(d)] = sent[Peer(d)]
        /\ io'[Peer(d)] = io[Peer(d)] /\ open'[Peer(d)] = open[Peer(d)]
    BY <1>3, <2>1
  <2>3. StreamOK(d)
    BY DEF StreamsOK, StreamOK
  <2>4. StreamOK(d)'
    BY <1>5, <2>2, <2>3, StreamKept
  <2>5. MidPacket(d)' <=> MidPacket(d)
    BY <2>2, Zenon DEF MidPacket
  <2>. QED
    BY <1>5, <2>4, <2>5
<1>8. ASSUME NEW d \in End
      PROVE  IoOK(d)'
  <2>1. IoOK(d)
    BY DEF StreamsOK
  <2>2. CASE d # e
    BY <1>3, <2>1, <2>2 DEF IoOK
  <2>3. CASE d = e
    <3>1. /\ x.op # "none" => x.op = "write" /\ x.result = "none" /\ x.packet = io[e].packet
      BY <1>2 DEF WriteOutcome
    <3>2. open[e] = "open" /\ io[e].packet \in Packets
      BY <1>2, <2>1, <2>3 DEF IoOK
    <3>. QED
      BY <1>3, <2>3, <3>1, <3>2 DEF IoOK, ReadOps
  <2>. QED
    BY <2>2, <2>3
<1>9. \A d \in End : StreamOK(d)'
  BY <1>6, <1>7
<1>. QED
  BY <1>7, <1>8, <1>9, Zenon DEF StreamsOK, StreamOK
-----------------------------------------------------------------------------
(* The steps that leave the streams alone and change operations only.        *)

SocketsKept ==
    /\ SocketTypeOK' /\ StreamsOK'
    /\ \A d \in End : Intact(d)' /\ MidPacket(d)' => Intact(d) /\ MidPacket(d)

\* How the operation of end p may change: a write goes on, starts with the
\* whole frame of its packet, or is none and was none, unless the end closes.
IoMoves(p) ==
    \/ /\ io'[p].op = "write" /\ io[p].op = "write"
       /\ io'[p].pending = io[p].pending /\ io'[p].packet = io[p].packet
    \/ /\ io'[p].op = "write" /\ io[p].op # "write" /\ open[p] = "open"
       /\ io'[p].pending = Frame(io'[p].packet) /\ io'[p].packet \in Seq(Byte)
    \/ io'[p].op # "write" /\ (io[p].op # "write" \/ open'[p] = "closed")

LEMMA QuietStreams ==
    ASSUME TypeOK, StreamsOK, UNCHANGED <<wire, sock, sent, got, heard>>, broken' = broken,
           \A p \in End : (open'[p] # "closed" => open[p] # "closed") /\ IoMoves(p)
    PROVE  \A d \in End : /\ StreamOK(d)'
                          /\ Intact(d)' /\ MidPacket(d)' => Intact(d) /\ MidPacket(d)
<1>1. SUFFICES ASSUME NEW d \in End
               PROVE  StreamOK(d)' /\ (Intact(d)' /\ MidPacket(d)' => Intact(d) /\ MidPacket(d))
  BY Zenon
<1>2. /\ wire' = wire /\ sock' = sock /\ sent' = sent /\ got' = got /\ heard' = heard
      /\ Peer(d) \in End /\ StreamOK(d)
  BY Peers DEF StreamsOK, StreamOK
<1>3. Intact(d)' => Intact(d)
  BY <1>2 DEF Intact
<1>4. MidPacket(d)' <=> MidPacket(d)
  BY <1>2, Zenon DEF MidPacket
<1>5. /\ sock'[d] = sock[d] /\ got'[d] = got[d] /\ heard'[d] = heard[d]
      /\ sent'[Peer(d)] = sent[Peer(d)] /\ wire'[Peer(d)] = wire[Peer(d)]
  BY <1>2
<1>6. CASE /\ io'[Peer(d)].op = "write" /\ io[Peer(d)].op = "write"
           /\ io'[Peer(d)].pending = io[Peer(d)].pending /\ io'[Peer(d)].packet = io[Peer(d)].packet
  BY <1>2, <1>3, <1>4, <1>5, <1>6, StreamKept
<1>7. CASE /\ io'[Peer(d)].op = "write" /\ io[Peer(d)].op # "write" /\ open[Peer(d)] = "open"
           /\ io'[Peer(d)].pending = Frame(io'[Peer(d)].packet) /\ io'[Peer(d)].packet \in Seq(Byte)
  <2>1. open[Peer(d)] # "closed"
    BY <1>7
  <2>2. StreamOK(d)'
    BY <1>2, <1>3, <1>5, <1>7, <2>1, StreamStarts
  <2>. QED
    BY <1>3, <1>4, <2>2
<1>8. CASE /\ io'[Peer(d)].op # "write"
           /\ io[Peer(d)].op # "write" \/ open'[Peer(d)] = "closed"
  <2>1. open'[Peer(d)] # "closed" => open[Peer(d)] # "closed"
    BY <1>2
  <2>2. StreamOK(d)'
    BY <1>2, <1>3, <1>5, <1>8, <2>1, StreamKept
  <2>. QED
    BY <1>3, <1>4, <2>2
<1>. QED
  BY <1>2, <1>6, <1>7, <1>8 DEF IoMoves

\* An end becomes idle, and closes if it was writing.
LEMMA IdleKept ==
    ASSUME TypeOK, StreamsOK, NEW e \in End, io' = [io EXCEPT ![e] = Idle],
           UNCHANGED <<wire, broken, sock, interrupt, sent, got, heard>>,
           open' = open \/ open' = [open EXCEPT ![e] = "closed"],
           io[e].op # "write" \/ open'[e] = "closed"
    PROVE  SocketsKept
<1>1. SocketTypeOK
  BY DEF TypeOK
<1>2. Idle \in IoType /\ Idle.op = "none" /\ Idle.result = "none"
  BY IdleType
<1>3. io' \in [End -> IoType] /\ open' \in [End -> {"open", "shut", "closed"}]
  BY <1>1, <1>2 DEF SocketTypeOK
<1>4. SocketTypeOK'
  BY <1>1, <1>3, Zenon DEF SocketTypeOK
<1>5. /\ io'[e] = Idle /\ \A d \in End : d # e => io'[d] = io[d] /\ open'[d] = open[d]
      /\ \A d \in End : open'[d] # "closed" => open[d] = open'[d]
  BY <1>1 DEF SocketTypeOK
<1>6. \A p \in End : (open'[p] # "closed" => open[p] # "closed") /\ IoMoves(p)
  <2>1. ASSUME NEW p \in End
        PROVE  (open'[p] # "closed" => open[p] # "closed") /\ IoMoves(p)
    <3>1. CASE p = e
      BY <1>2, <1>5, <3>1, "none" # "write" DEF IoMoves
    <3>2. CASE p # e
      BY <1>5, <3>2 DEF IoMoves
    <3>. QED
      BY <3>1, <3>2
  <2>. QED
    BY <2>1
<1>7. \A d \in End : StreamOK(d)' /\ (Intact(d)' /\ MidPacket(d)' => Intact(d) /\ MidPacket(d))
  BY <1>6, QuietStreams
<1>8. ASSUME NEW d \in End
      PROVE  IoOK(d)'
  <2>1. IoOK(d)
    BY DEF StreamsOK
  <2>2. CASE d # e
    BY <1>5, <2>1, <2>2 DEF IoOK
  <2>3. CASE d = e
    BY <1>2, <1>5, <2>3 DEF IoOK, ReadOps
  <2>. QED
    BY <2>2, <2>3
<1>. QED
  BY <1>4, <1>7, <1>8, Zenon DEF SocketsKept, StreamsOK, StreamOK

LEMMA StartWriteKept ==
    ASSUME TypeOK, StreamsOK, NEW e \in End, NEW p \in Packets, StartWrite(e, p),
           SocketExceptIo, io[e].op # "write", open[e] = "open"
    PROVE  /\ SocketsKept
           /\ io'[e].op = "write" /\ io'[e].packet = p /\ io'[e].result = "none"
           /\ \A d \in End : d # e => io'[d] = io[d]
<1>1. SocketTypeOK
  BY DEF TypeOK
<1>2. Idle \in IoType /\ Idle.op = "none" /\ Idle.result = "none" /\ "write" \in Ops
  BY IdleType DEF Ops
<1>3. p \in Seq(Byte) /\ Frame(p) \in Seq(Byte)
  BY PacketType, FrameType
<1>. DEFINE x == [Idle EXCEPT !.op = "write", !.packet = p, !.pending = Frame(p)]
<1>4. /\ x \in IoType /\ x.op = "write" /\ x.result = "none" /\ x.packet = p
      /\ x.pending = Frame(p)
  <2>1. \A q \in Seq(Byte) :
           LET n == [Idle EXCEPT !.op = "write", !.packet = p, !.pending = q]
           IN  n \in IoType /\ n.op = "write" /\ n.result = "none" /\ n.packet = p /\ n.pending = q
    BY <1>3, WriteStarts
  <2>. QED
    BY <1>3, <2>1, Zenon
<1>5. io' = [io EXCEPT ![e] = x]
  BY Zenon DEF StartWrite
<1>. HIDE DEF x
<1>6. UNCHANGED <<wire, open, broken, sock, interrupt, sent, got, heard>>
  BY DEF SocketExceptIo
<1>7. io' \in [End -> IoType]
  BY <1>1, <1>4, <1>5 DEF SocketTypeOK
<1>8. SocketTypeOK'
  BY <1>1, <1>6, <1>7, Zenon DEF SocketTypeOK
<1>9. io'[e] = x /\ \A d \in End : d # e => io'[d] = io[d]
  BY <1>1, <1>5 DEF SocketTypeOK
<1>10. \A q \in End : (open'[q] # "closed" => open[q] # "closed") /\ IoMoves(q)
  <2>1. ASSUME NEW q \in End
        PROVE  (open'[q] # "closed" => open[q] # "closed") /\ IoMoves(q)
    <3>1. CASE q = e
      BY <1>3, <1>4, <1>6, <1>9, <3>1, Zenon DEF IoMoves
    <3>2. CASE q # e
      BY <1>6, <1>9, <3>2 DEF IoMoves
    <3>. QED
      BY <3>1, <3>2
  <2>. QED
    BY <2>1
<1>11. \A d \in End : StreamOK(d)' /\ (Intact(d)' /\ MidPacket(d)' => Intact(d) /\ MidPacket(d))
  BY <1>6, <1>10, QuietStreams
<1>12. ASSUME NEW d \in End
       PROVE  IoOK(d)'
  <2>1. IoOK(d)
    BY DEF StreamsOK
  <2>2. CASE d # e
    BY <1>6, <1>9, <2>1, <2>2 DEF IoOK
  <2>3. CASE d = e
    BY <1>4, <1>6, <1>9, <2>3 DEF IoOK, ReadOps
  <2>. QED
    BY <2>2, <2>3
<1>. QED
  BY <1>4, <1>8, <1>9, <1>11, <1>12, Zenon DEF SocketsKept, StreamsOK, StreamOK

LEMMA StartReadKept ==
    ASSUME TypeOK, StreamsOK, NEW e \in End, NEW wait \in BOOLEAN, StartRead(e, wait),
           SocketExceptIo, io[e].op # "write", open[e] # "closed", heard[e] = "flows"
    PROVE  /\ SocketsKept
           /\ io'[e].op \in ReadOps /\ io'[e].result = "none"
           /\ \A d \in End : d # e => io'[d] = io[d]
<1>1. SocketTypeOK
  BY DEF TypeOK
<1>. DEFINE x == [Idle EXCEPT !.op = IF wait THEN "test" ELSE "recv", !.wait = wait]
<1>4. io' = [io EXCEPT ![e] = x]
  BY Zenon DEF StartRead
<1>5. x \in IoType /\ x.op \in ReadOps /\ x.result = "none"
  BY ReadStarts
<1>. HIDE DEF x
<1>6. UNCHANGED <<wire, open, broken, sock, interrupt, sent, got, heard>>
  BY DEF SocketExceptIo
<1>7. io' \in [End -> IoType]
  BY <1>1, <1>4, <1>5 DEF SocketTypeOK
<1>8. SocketTypeOK'
  BY <1>1, <1>6, <1>7, Zenon DEF SocketTypeOK
<1>9. io'[e] = x /\ \A d \in End : d # e => io'[d] = io[d]
  BY <1>1, <1>4 DEF SocketTypeOK
<1>10. \A q \in End : (open'[q] # "closed" => open[q] # "closed") /\ IoMoves(q)
  <2>1. ASSUME NEW q \in End
        PROVE  (open'[q] # "closed" => open[q] # "closed") /\ IoMoves(q)
    <3>1. CASE q = e
      BY <1>5, <1>6, <1>9, <3>1 DEF IoMoves, ReadOps
    <3>2. CASE q # e
      BY <1>6, <1>9, <3>2 DEF IoMoves
    <3>. QED
      BY <3>1, <3>2
  <2>. QED
    BY <2>1
<1>11. \A d \in End : StreamOK(d)' /\ (Intact(d)' /\ MidPacket(d)' => Intact(d) /\ MidPacket(d))
  BY <1>6, <1>10, QuietStreams
<1>12. ASSUME NEW d \in End
       PROVE  IoOK(d)'
  <2>1. IoOK(d)
    BY DEF StreamsOK
  <2>2. CASE d # e
    BY <1>6, <1>9, <2>1, <2>2 DEF IoOK
  <2>3. CASE d = e
    BY <1>5, <1>6, <1>9, <2>3 DEF IoOK, ReadOps
  <2>. QED
    BY <2>2, <2>3
<1>. QED
  BY <1>5, <1>8, <1>9, <1>11, <1>12, Zenon DEF SocketsKept, StreamsOK, StreamOK

\* Nothing happens to the sockets.
LEMMA SocketsStay ==
    ASSUME TypeOK, StreamsOK, UNCHANGED <<wire, open, broken, sock, io, sent, got, heard>>,
           interrupt' \in BOOLEAN
    PROVE  SocketsKept
<1>1. SocketTypeOK
  BY DEF TypeOK
<1>2. SocketTypeOK'
  BY <1>1, Zenon DEF SocketTypeOK
<1>3. \A q \in End : (open'[q] # "closed" => open[q] # "closed") /\ IoMoves(q)
  BY DEF IoMoves
<1>4. \A d \in End : StreamOK(d)' /\ (Intact(d)' /\ MidPacket(d)' => Intact(d) /\ MidPacket(d))
  BY <1>3, QuietStreams
<1>5. \A d \in End : IoOK(d)'
  BY DEF StreamsOK, IoOK
<1>. QED
  BY <1>2, <1>4, <1>5, Zenon DEF SocketsKept, StreamsOK, StreamOK

LEMMA InterruptKept ==
    ASSUME TypeOK, StreamsOK, SetInterrupt
    PROVE  /\ SocketsKept
           /\ \A d \in End : /\ io'[d].result = io[d].result /\ io'[d].packet = io[d].packet
                             /\ \/ io'[d].op = io[d].op
                                \/ io[d].op = "poll" /\ io'[d].op = "recv"
                             /\ d[2] # "server" \/ io[d].op # "poll" => io'[d] = io[d]
<1>1. SocketTypeOK
  BY DEF TypeOK
<1>2. /\ UNCHANGED <<wire, open, broken, sock, sent, got, heard>> /\ interrupt' \in BOOLEAN
      /\ io' = [e \in End |-> IF e[2] = "server" /\ io[e].op = "poll"
                              THEN [io[e] EXCEPT !.op = "recv"] ELSE io[e]]
  BY DEF SetInterrupt
<1>3. "recv" \in Ops
  BY DEF Ops
<1>4. ASSUME NEW d \in End
      PROVE  /\ io'[d] \in IoType /\ io'[d].result = io[d].result /\ io'[d].packet = io[d].packet
             /\ io'[d].pending = io[d].pending
             /\ \/ io'[d] = io[d]
                \/ d[2] = "server" /\ io[d].op = "poll" /\ io'[d].op = "recv"
  <2>1. io[d] \in IoType
    BY SocketTypes
  <2>2. CASE d[2] = "server" /\ io[d].op = "poll"
    <3>1. io'[d] = [io[d] EXCEPT !.op = "recv"]
      BY <1>2, <2>2
    <3>. QED
      BY <1>3, <2>1, <2>2, <3>1 DEF IoType
  <2>3. CASE ~(d[2] = "server" /\ io[d].op = "poll")
    <3>1. io'[d] = io[d]
      BY <1>2, <2>3
    <3>. QED
      BY <2>1, <3>1
  <2>. QED
    BY <2>2, <2>3
<1>5. io' \in [End -> IoType]
  BY <1>2, <1>4
<1>6. SocketTypeOK'
  BY <1>1, <1>2, <1>5, Zenon DEF SocketTypeOK
<1>7. \A q \in End : (open'[q] # "closed" => open[q] # "closed") /\ IoMoves(q)
  BY <1>2, <1>4 DEF IoMoves
<1>8. \A d \in End : StreamOK(d)' /\ (Intact(d)' /\ MidPacket(d)' => Intact(d) /\ MidPacket(d))
  BY <1>2, <1>7, QuietStreams
<1>9. \A d \in End : IoOK(d)'
  BY <1>2, <1>4 DEF StreamsOK, IoOK, ReadOps
<1>10. SocketsKept
  BY <1>6, <1>8, <1>9, Zenon DEF SocketsKept, StreamsOK, StreamOK
<1>. QED
  BY <1>4, <1>10

LEMMA ShutKept ==
    ASSUME TypeOK, StreamsOK, NEW e \in End, Shut(e)
    PROVE  SocketsKept
<1>1. SocketTypeOK
  BY DEF TypeOK
<1>2. /\ open[e] = "open" /\ io[e].op # "write" /\ open' = [open EXCEPT ![e] = "shut"]
      /\ UNCHANGED <<wire, broken, sock, io, interrupt, sent, got, heard>>
  BY DEF Shut
<1>3. open' \in [End -> {"open", "shut", "closed"}]
  BY <1>1, <1>2 DEF SocketTypeOK
<1>4. SocketTypeOK'
  BY <1>1, <1>2, <1>3, Zenon DEF SocketTypeOK
<1>5. open'[e] = "shut" /\ \A d \in End : d # e => open'[d] = open[d]
  BY <1>1, <1>2 DEF SocketTypeOK
<1>6. \A q \in End : (open'[q] # "closed" => open[q] # "closed") /\ IoMoves(q)
  BY <1>2, <1>5 DEF IoMoves
<1>7. \A d \in End : StreamOK(d)' /\ (Intact(d)' /\ MidPacket(d)' => Intact(d) /\ MidPacket(d))
  BY <1>2, <1>6, QuietStreams
<1>8. ASSUME NEW d \in End
      PROVE  IoOK(d)'
  <2>1. IoOK(d)
    BY DEF StreamsOK
  <2>2. CASE d # e
    BY <1>2, <1>5, <2>1, <2>2 DEF IoOK
  <2>3. CASE d = e
    BY <1>2, <1>5, <2>1, <2>3 DEF IoOK, ReadOps
  <2>. QED
    BY <2>2, <2>3
<1>. QED
  BY <1>4, <1>7, <1>8, Zenon DEF SocketsKept, StreamsOK, StreamOK

LEMMA BreakKept ==
    ASSUME TypeOK, StreamsOK, NEW c \in Conn, Break(c)
    PROVE  SocketsKept
<1>1. SocketTypeOK
  BY DEF TypeOK
<1>2. /\ broken' = broken \cup {c}
      /\ wire' = [e \in End |-> IF e[1] = c THEN <<>> ELSE wire[e]]
      /\ UNCHANGED <<open, sock, io, interrupt, sent, got, heard>>
  BY DEF Break
<1>3. <<>> \in Seq(Byte) /\ Len(<<>>) <= KernelSize
  BY Sizes
<1>4. wire' \in [End -> Seq(Byte)]
  BY <1>1, <1>2, <1>3 DEF SocketTypeOK
<1>5. \A d \in End : Len(wire'[d]) <= KernelSize
  BY <1>2, <1>3, SocketTypes
<1>6. broken' \subseteq Conn
  BY <1>1, <1>2 DEF SocketTypeOK
<1>7. SocketTypeOK'
  BY <1>1, <1>2, <1>4, <1>5, <1>6, Zenon DEF SocketTypeOK
<1>8. ASSUME NEW d \in End
      PROVE  StreamOK(d)' /\ (Intact(d)' /\ MidPacket(d)' => Intact(d) /\ MidPacket(d))
  <2>1. Peer(d) \in End /\ Peer(d)[1] = d[1] /\ StreamOK(d)
    BY Peers DEF StreamsOK, StreamOK
  <2>2. Intact(d)' => Intact(d) /\ wire'[Peer(d)] = wire[Peer(d)]
    BY <1>2, <2>1 DEF Intact
  <2>3. sock' = sock /\ got' = got /\ heard' = heard /\ sent' = sent /\ io' = io /\ open' = open
    BY <1>2
  <2>4. StreamOK(d)'
    BY <2>1, <2>2, <2>3, StreamKept
  <2>5. Intact(d)' /\ MidPacket(d)' => MidPacket(d)
    BY <2>2, <2>3, Zenon DEF MidPacket
  <2>. QED
    BY <2>2, <2>4, <2>5
<1>9. \A d \in End : IoOK(d)'
  BY <1>2 DEF StreamsOK, IoOK
<1>. QED
  BY <1>7, <1>8, <1>9, Zenon DEF SocketsKept, StreamsOK, StreamOK
==============================================================================
