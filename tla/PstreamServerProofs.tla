------------------------- MODULE PstreamServerProofs -------------------------
(* Every step of PstreamServer keeps its inductive invariant; its type       *)
(* invariant, ResponsesMatchCalls, OnlyRudeClientsEndServer and its          *)
(* refinement of PacketChannel follow.                                       *)
EXTENDS PstreamInvariant

-----------------------------------------------------------------------------
(* The server and its callers.                                               *)

\* What one step leaves as it was at a server's, and at a client's, end.
ServerSame(c) ==
    /\ io'[ServerEnd(c)] = io[ServerEnd(c)] /\ got'[ServerEnd(c)] = got[ServerEnd(c)]
    /\ sent'[ServerEnd(c)] = sent[ServerEnd(c)] /\ open'[ServerEnd(c)] = open[ServerEnd(c)]
    /\ heard'[ServerEnd(c)] = heard[ServerEnd(c)]

ClientSame(c) ==
    /\ io'[ClientEnd(c)] = io[ClientEnd(c)] /\ sent'[ClientEnd(c)] = sent[ClientEnd(c)]
    /\ open'[ClientEnd(c)] = open[ClientEnd(c)] /\ heard'[ClientEnd(c)] = heard[ClientEnd(c)]
    /\ client'[c] = client[c] /\ asked'[c] = asked[c]

RudeStays(c) == Rude(c) => Rude(c)'

CutKept(c) ==
    Intact(ServerEnd(c))' /\ MidPacket(ServerEnd(c))' => Intact(ServerEnd(c)) /\ MidPacket(ServerEnd(c))

LEMMA ServerKept ==
    ASSUME NEW c \in Conn, ServerOK(c), ServerSame(c), RudeStays(c),
           c \in current' <=> c \in current, c \in current => pc' = pc,
           Fresh(c)' => Fresh(c)
    PROVE  ServerOK(c)'
<1>1. Fresh(c)' => FreshOK(c)'
  BY DEF ServerOK, ServerSame, FreshOK
<1>2. c \notin current' => io'[ServerEnd(c)] = Idle
  BY DEF ServerOK, ServerSame
<1>3. Answered(c)'
  BY DEF ServerOK, ServerSame, Answered
<1>4. ASSUME c \in current' PROVE ServingOK(c)'
  <2>1. ServingOK(c) /\ pc' = pc
    BY <1>4 DEF ServerOK
  <2>2. ServeOK(c) => ServeOK(c)'
    BY DEF ServerSame, ServeOK, Even
  <2>3. ReadingOK(c) => ReadingOK(c)'
    BY Zenon DEF ServerSame, ReadingOK, Even, Owes, LastCall
  <2>4. WritingOK(c) => WritingOK(c)'
    BY Zenon DEF ServerSame, WritingOK, Even, Owes, LastCall
  <2>. QED
    BY <2>1, <2>2, <2>3, <2>4, Zenon DEF ServingOK, ServerSame, RudeStays
<1>. QED
  BY <1>1, <1>2, <1>3, <1>4, Zenon DEF ServerOK

LEMMA ClientKept ==
    ASSUME NEW c \in Conn, ClientOK(c), ClientSame(c), CutKept(c)
    PROVE  ClientOK(c)'
<1>1. NewOK(c) => NewOK(c)'
  BY DEF NewOK, ClientSame
<1>2. ReadyOK(c) => ReadyOK(c)'
  BY Zenon DEF ReadyOK, ClientSame
<1>3. CutOK(c) => CutOK(c)'
  BY Zenon DEF CutOK, ClientSame, CutKept
<1>. QED
  BY <1>1, <1>2, <1>3, Zenon DEF ClientOK, ClientSame

LEMMA RudeKept ==
    ASSUME NEW c \in Conn, broken \subseteq broken',
           client[c] = "gone" => /\ client'[c] = "gone" /\ asked'[c] = asked[c]
                                 /\ got'[ClientEnd(c)] = got[ClientEnd(c)]
    PROVE  RudeStays(c)
  BY DEF RudeStays, Rude, Outstanding

LEMMA PcKept ==
    ASSUME PcOK, pc' = pc, current' = current, \A c \in Conn : RudeStays(c)
    PROVE  PcOK'
  BY Zenon DEF PcOK, RudeStays

LEMMA BacklogKept ==
    ASSUME TypeOK, BacklogOK, backlog' = backlog,
           \A c \in Conn : client'[c] = "new" => client[c] = "new"
    PROVE  BacklogOK'
<1>1. \A i \in DOMAIN backlog : backlog[i] \in Conn
  BY DEF TypeOK
<1>. QED
  BY <1>1 DEF BacklogOK

LEMMA FreshKept ==
    ASSUME NEW c \in Conn, backlog' = backlog, client'[c] = "new" => client[c] = "new"
    PROVE  Fresh(c)' => Fresh(c)
  BY DEF Fresh, Waits

\* What has been asked has been sent, read, answered and heard in this order.
LEMMA Lengths ==
    ASSUME TypeOK, StreamsOK, NEW c \in Conn, Answered(c), Prefix(sent[ClientEnd(c)], asked[c])
    PROVE  /\ Len(got[ClientEnd(c)]) \in Nat /\ Len(sent[ServerEnd(c)]) \in Nat
           /\ Len(got[ServerEnd(c)]) \in Nat /\ Len(sent[ClientEnd(c)]) \in Nat /\ Len(asked[c]) \in Nat
           /\ Len(got[ClientEnd(c)]) <= Len(sent[ServerEnd(c)])
           /\ Len(sent[ServerEnd(c)]) <= Len(got[ServerEnd(c)])
           /\ Len(got[ServerEnd(c)]) <= Len(sent[ClientEnd(c)])
           /\ Len(sent[ClientEnd(c)]) <= Len(asked[c])
           /\ Prefix(got[ClientEnd(c)], sent[ServerEnd(c)])
           /\ Prefix(got[ServerEnd(c)], sent[ClientEnd(c)])
<1>1. ASSUME NEW e \in End
      PROVE  /\ Len(got[e]) \in Nat /\ Len(sent[e]) \in Nat /\ Len(got[e]) <= Len(sent[Peer(e)])
             /\ Prefix(got[e], sent[Peer(e)])
  <2>1. got[e] \in Seq(Seq(Byte)) /\ sent[e] \in Seq(Packets) /\ sock[e].readBuffer \in Seq(Seq(Byte))
    BY SocketTypes, ReaderTypes
  <2>2. Prefix(got[e] \o sock[e].readBuffer, sent[Peer(e)])
    BY DEF StreamsOK, OrderOK
  <2>3. sent[Peer(e)] \in Seq(Packets)
    BY Peers, SocketTypes
  <2>4. \A u, v \in Seq(Seq(Byte)) : /\ Len(u \o v) = Len(u) + Len(v) /\ Len(u) \in Nat /\ Len(v) \in Nat
                                     /\ \A i \in 1 .. Len(u) : (u \o v)[i] = u[i]
    OBVIOUS
  <2>. DEFINE u == got[e]
              v == sock[e].readBuffer
              t == sent[Peer(e)]
  <2>5. /\ Len(u \o v) = Len(u) + Len(v) /\ Len(u) \in Nat /\ Len(v) \in Nat
        /\ \A i \in 1 .. Len(u) : (u \o v)[i] = u[i]
    BY <2>1, <2>4, Zenon
  <2>6. Prefix(u \o v, t) /\ Len(t) \in Nat
    BY <2>2, <2>3
  <2>. HIDE DEF u, v, t
  <2>7. Prefix(u, t)
    BY <2>5, <2>6 DEF Prefix
  <2>8. Len(u) <= Len(t)
    BY <2>7 DEF Prefix
  <2>9. Len(sent[e]) \in Nat
    BY <2>1
  <2>. QED
    BY <2>5, <2>7, <2>8, <2>9 DEF u, t
<1>2. Len(asked[c]) \in Nat
  BY DEF TypeOK
<1>3. Len(sent[ServerEnd(c)]) <= Len(got[ServerEnd(c)])
  BY DEF Answered
<1>4. Len(sent[ClientEnd(c)]) <= Len(asked[c])
  BY DEF Prefix
<1>5. /\ ClientEnd(c) \in End /\ ServerEnd(c) \in End
      /\ Peer(ClientEnd(c)) = ServerEnd(c) /\ Peer(ServerEnd(c)) = ClientEnd(c)
  BY Ends
<1>6. /\ Len(got[ClientEnd(c)]) \in Nat /\ Len(sent[ClientEnd(c)]) \in Nat
      /\ Len(got[ClientEnd(c)]) <= Len(sent[ServerEnd(c)])
      /\ Prefix(got[ClientEnd(c)], sent[ServerEnd(c)])
  BY <1>1, <1>5, Zenon
<1>7. /\ Len(got[ServerEnd(c)]) \in Nat /\ Len(sent[ServerEnd(c)]) \in Nat
      /\ Len(got[ServerEnd(c)]) <= Len(sent[ClientEnd(c)])
      /\ Prefix(got[ServerEnd(c)], sent[ClientEnd(c)])
  BY <1>1, <1>5, Zenon
<1>. QED
  BY <1>2, <1>3, <1>4, <1>6, <1>7

LEMMA CallerNow ==
    ASSUME CallersOK, NEW c \in Conn
    PROVE  /\ ServerOK(c) /\ ClientOK(c) /\ Answered(c) /\ Prefix(sent[ClientEnd(c)], asked[c])
           /\ PcOK /\ BacklogOK
  BY DEF CallersOK, ServerOK, ClientOK

\* A client that went before it got a response to all it had asked for.
LEMMA RudeIs ==
    ASSUME TypeOK, CallersOK, NEW c \in Conn,
           c \in broken \/ (open[ClientEnd(c)] = "closed" /\ Len(got[ClientEnd(c)]) < Len(asked[c]))
    PROVE  Rude(c)
<1>1. Len(got[ClientEnd(c)]) \in Nat /\ Len(asked[c]) \in Nat
  BY Ends, SocketTypes DEF TypeOK
<1>2. open[ClientEnd(c)] = "closed" => client[c] = "gone"
  BY CallerNow DEF ClientOK
<1>3. Len(got[ClientEnd(c)]) < Len(asked[c]) => Outstanding(c) > 0
  <2>1. \A m, n \in Nat : m < n => n - m > 0
    OBVIOUS
  <2>. QED
    BY <1>1, <2>1, Zenon DEF Outstanding
<1>. QED
  BY <1>2, <1>3, Zenon DEF Rude

\* The connection that is served, and where the server is with it.
LEMMA ServingIs ==
    ASSUME TypeOK, current # {}
    PROVE  \E c \in Conn : current = {c} /\ Serving = c
  BY DEF TypeOK, Serving

LEMMA Served ==
    ASSUME TypeOK, CallersOK, NEW c \in Conn, io[ServerEnd(c)] # Idle
    PROVE  c \in current /\ ServingOK(c) /\ pc \in {"reading", "writing"} /\ ~Fresh(c)
<1>1. ServerOK(c)
  BY CallerNow
<1>2. c \in current /\ ServingOK(c)
  BY <1>1 DEF ServerOK
<1>3. pc # "serve"
  BY <1>2 DEF ServingOK, ServeOK
<1>. QED
  BY <1>1, <1>2, <1>3 DEF ServerOK, ServingOK, FreshOK

LEMMA NobodyServed ==
    ASSUME CallersOK, pc \notin {"serve", "reading", "writing"}
    PROVE  \A c \in Conn : c \notin current
  BY CallerNow DEF ServerOK, ServingOK
-----------------------------------------------------------------------------
(* The steps of reads and writes, seen by the server and its callers.        *)

\* Reads of one end: nothing but it changes.
LEMMA ReadEnds ==
    ASSUME TypeOK, NEW e \in End, ReadStep(e)
    PROVE  /\ io[e].op \in ReadOps /\ ReadOutcome(e, got'[e], heard'[e], io'[e])
           /\ \A d \in End : d # e => io'[d] = io[d] /\ got'[d] = got[d] /\ heard'[d] = heard[d]
           /\ open' = open /\ broken' = broken /\ sent' = sent
<1>1. PICK s, w, g, h, x : ReadIs(e, s, w, g, h, x)
  BY Zenon DEF ReadStep
<1>2. ReadMakes(e, s, w, g, h, x) /\ ReadOutcome(e, g, h, x) /\ io[e].op \in ReadOps
  BY <1>1, Zenon DEF ReadIs, ReadStep
<1>3. /\ got'[e] = g /\ heard'[e] = h /\ io'[e] = x
      /\ \A d \in End : d # e => /\ got'[d] = got[d] /\ heard'[d] = heard[d] /\ io'[d] = io[d]
      /\ open' = open /\ broken' = broken /\ sent' = sent
  BY <1>2, ReadFrame
<1>. QED
  BY <1>2, <1>3

LEMMA WriteEnds ==
    ASSUME TypeOK, NEW e \in End, WriteStep(e)
    PROVE  /\ io[e].op = "write" /\ WriteOutcome(e, sent'[e], io'[e])
           /\ \A d \in End : d # e => io'[d] = io[d] /\ sent'[d] = sent[d]
           /\ open' = open /\ broken' = broken /\ got' = got /\ heard' = heard
<1>1. PICK w, t, x : WriteIs(e, w, t, x)
  BY Zenon DEF WriteStep
<1>2. WriteMakes(e, w, t, x) /\ WriteOutcome(e, t, x) /\ io[e].op = "write"
  BY <1>1, Zenon DEF WriteIs, WriteStep
<1>3. /\ sent'[e] = t /\ io'[e] = x
      /\ \A d \in End : d # e => sent'[d] = sent[d] /\ io'[d] = io[d]
      /\ open' = open /\ broken' = broken /\ got' = got /\ heard' = heard
  BY <1>2, WriteFrame
<1>. QED
  BY <1>2, <1>3

\* The server's read.
LEMMA ServerReads ==
    ASSUME TypeOK, StreamsOK, CallersOK, NEW c \in Conn, ReadStep(ServerEnd(c)),
           UNCHANGED <<serverVars, clientVars>>
    PROVE  ServerOK(c)'
<1>. DEFINE e == ServerEnd(c)
<1>1. /\ io[e].op \in ReadOps /\ ReadOutcome(e, got'[e], heard'[e], io'[e])
      /\ open' = open /\ broken' = broken /\ sent' = sent
      /\ \A d \in End : d # e => io'[d] = io[d] /\ got'[d] = got[d]
  BY Ends, ReadEnds
<1>2. /\ pc' = pc /\ current' = current /\ backlog' = backlog /\ client' = client /\ asked' = asked
  BY DEF serverVars, clientVars
<1>3. io[e] # Idle
  BY <1>1, IdleType DEF ReadOps
<1>4. c \in current /\ ServingOK(c) /\ ~Fresh(c) /\ Answered(c) /\ pc \in {"reading", "writing"}
  BY <1>3, Served, CallerNow
<1>5. pc = "reading" /\ ReadingOK(c)
  BY <1>1, <1>4 DEF ServingOK, WritingOK, ReadOps
<1>6. io[e].result = "none" /\ Even(c) /\ heard[e] = "flows"
  <2>1. IoOK(e)
    BY Ends DEF StreamsOK
  <2>2. io[e].result = "none"
    BY <1>1, <2>1 DEF IoOK, ReadOps
  <2>. QED
    BY <1>5, <2>2 DEF ReadingOK
<1>7. ~Fresh(c)'
  BY <1>2, <1>4 DEF Fresh, Waits
<1>8. RudeStays(c)
  <2>1. got'[ClientEnd(c)] = got[ClientEnd(c)]
    BY <1>1, Ends, EndsDiffer
  <2>. QED
    BY <1>1, <1>2, <2>1, RudeKept
<1>9. got[e] \in Seq(Seq(Byte)) /\ sent[e] \in Seq(Packets) /\ e \in End
  BY Ends, SocketTypes
<1>10. got'[e] = got[e] \/ got'[e] = Append(got[e], io'[e].packet)
  BY <1>1 DEF ReadOutcome
<1>11. /\ Len(got[e]) \in Nat /\ Len(got[e]) <= Len(got'[e])
       /\ \A i \in 1 .. Len(got[e]) : got'[e][i] = got[e][i]
  BY <1>9, <1>10
<1>12. Answered(c)'
  <2>1. sent'[e] = sent[e] /\ Len(sent[e]) \in Nat /\ Len(sent[e]) = Len(got[e])
    BY <1>1, <1>6, <1>9 DEF Even
  <2>. HIDE DEF e
  <2>2. /\ Len(sent[e]) <= Len(got[e])
        /\ \A i \in 1 .. Len(sent[e]) : sent[e][i] = Answer[got[e][i]]
    BY <1>4 DEF Answered, e
  <2>3. Len(sent[e]) <= Len(got'[e])
    BY <1>11, <2>1
  <2>4. \A i \in 1 .. Len(sent[e]) : sent[e][i] = Answer[got'[e][i]]
    BY <1>11, <2>1, <2>2
  <2>. QED
    BY <2>1, <2>3, <2>4, Zenon DEF Answered, e
<1>. HIDE DEF e
<1>13. ASSUME got'[e] = got[e], io'[e].result \notin {"written", "hungup", "packet"}, io'[e].op # "write",
              io'[e].result \notin {"eof", "threw"} => heard'[e] = "flows"
       PROVE  ReadingOK(c)'
  <2>1. Even(c)'
    BY <1>1, <1>6, <1>13 DEF Even, e
  <2>. QED
    BY <1>13, <2>1, Zenon DEF ReadingOK, e
<1>14. ReadingOK(c)'
  <2>1. CASE \/ io'[e].op \in ReadOps /\ io'[e].result = "none" /\ got'[e] = got[e] /\ heard'[e] = heard[e]
             \/ /\ io'[e].op = "none" /\ io'[e].result \in {"nothing", "interrupted"}
                /\ got'[e] = got[e] /\ heard'[e] = heard[e]
    BY <1>6, <1>13, <2>1 DEF ReadOps
  <2>2. CASE io'[e].op = "none" /\ io'[e].result \in {"eof", "threw"} /\ got'[e] = got[e]
    BY <1>13, <2>2
  <2>3. CASE /\ io'[e].op = "none" /\ io'[e].result = "packet"
             /\ got'[e] = Append(got[e], io'[e].packet) /\ heard'[e] = heard[e]
    <3>1. Len(got'[e]) = Len(got[e]) + 1 /\ got'[e][Len(got'[e])] = io'[e].packet
      BY <1>9, <2>3
    <3>2. Owes(c)' /\ io'[e].packet = LastCall(c)'
      BY <1>1, <1>6, <3>1 DEF Owes, Even, LastCall, e
    <3>. QED
      BY <1>6, <2>3, <3>2 DEF ReadingOK, e
  <2>. QED
    BY <1>1, <2>1, <2>2, <2>3 DEF ReadOutcome
<1>15. io'[e].result = "threw" => Rude(c)
  <2>1. SUFFICES ASSUME io'[e].result = "threw" PROVE Rude(c)
    OBVIOUS
  <2>2. Intact(e) /\ MidPacket(e) /\ open[Peer(e)] = "closed"
    BY <1>1, <2>1 DEF ReadOutcome
  <2>3. Peer(e) = ClientEnd(c)
    BY Ends DEF e
  <2>4. Len(sent[ClientEnd(c)]) < Len(asked[c])
    <3>1. CutOK(c)
      BY CallerNow DEF ClientOK
    <3>. QED
      BY <2>2, <2>3, <3>1, Zenon DEF CutOK, e
  <2>5. Len(got[ClientEnd(c)]) < Len(asked[c])
    <3>1. Prefix(sent[ClientEnd(c)], asked[c])
      BY CallerNow
    <3>. QED
      BY <1>4, <2>4, <3>1, Lengths, SMTT(30)
  <2>. QED
    BY <2>2, <2>3, <2>5, RudeIs
<1>16. ServingOK(c)'
  <2>1. io'[e].result # "hungup"
    BY <1>1 DEF ReadOutcome
  <2>2. open'[e] = "open"
    BY <1>1, <1>4 DEF ServingOK, e
  <2>. QED
    BY <1>2, <1>5, <1>8, <1>14, <1>15, <2>1, <2>2 DEF ServingOK, RudeStays, e
<1>. QED
  BY <1>2, <1>4, <1>7, <1>12, <1>16 DEF ServerOK

\* The client's read.
LEMMA ClientReads ==
    ASSUME TypeOK, StreamsOK, CallersOK, NEW c \in Conn, ReadStep(ClientEnd(c)), CutKept(c),
           UNCHANGED <<serverVars, clientVars>>
    PROVE  ClientOK(c)' /\ client[c] = "ready"
<1>. DEFINE e == ClientEnd(c)
<1>1. /\ io[e].op \in ReadOps /\ ReadOutcome(e, got'[e], heard'[e], io'[e])
      /\ open' = open /\ broken' = broken /\ sent' = sent
  BY Ends, ReadEnds
<1>2. client' = client /\ asked' = asked
  BY DEF clientVars
<1>3. ClientOK(c) /\ IoOK(e)
  BY CallerNow, Ends DEF StreamsOK
<1>4. client[c] = "ready" /\ ReadyOK(c)
  BY <1>1, <1>3, IdleType DEF ClientOK, ReadOps
<1>5. asked[c] = sent[e] /\ heard[e] = "flows"
  BY <1>1, <1>3, <1>4 DEF IoOK, ReadyOK, ReadOps
<1>6. io'[e].op # "write" /\ (io'[e].result \notin {"eof", "threw"} => heard'[e] = heard[e])
  BY <1>1 DEF ReadOutcome, ReadOps
<1>. HIDE DEF e
<1>7. ReadyOK(c)'
  BY <1>1, <1>2, <1>5, <1>6 DEF ReadyOK, e
<1>8. CutOK(c)'
  BY <1>1, <1>2, <1>3, Zenon DEF ClientOK, CutOK, CutKept
<1>. QED
  BY <1>1, <1>2, <1>3, <1>4, <1>7, <1>8, Zenon DEF ClientOK

LEMMA ServerWrites ==
    ASSUME TypeOK, StreamsOK, CallersOK, NEW c \in Conn, WriteStep(ServerEnd(c)),
           UNCHANGED <<serverVars, clientVars>>
    PROVE  ServerOK(c)'
<1>. DEFINE e == ServerEnd(c)
<1>1. /\ io[e].op = "write" /\ WriteOutcome(e, sent'[e], io'[e])
      /\ open' = open /\ broken' = broken /\ got' = got /\ heard' = heard
  BY Ends, WriteEnds
<1>2. /\ pc' = pc /\ current' = current /\ backlog' = backlog /\ client' = client /\ asked' = asked
  BY DEF serverVars, clientVars
<1>3. io[e] # Idle
  BY <1>1, IdleType
<1>4. c \in current /\ ServingOK(c) /\ ~Fresh(c) /\ Answered(c) /\ pc \in {"reading", "writing"}
  BY <1>3, Served, CallerNow
<1>5. pc = "writing" /\ WritingOK(c)
  BY <1>1, <1>4 DEF ServingOK, ReadingOK
<1>6. io[e].result = "none" /\ Owes(c) /\ heard[e] = "flows" /\ io[e].packet = Answer[LastCall(c)]
  <2>1. IoOK(e)
    BY Ends DEF StreamsOK
  <2>2. io[e].result = "none"
    BY <1>1, <2>1 DEF IoOK
  <2>. QED
    BY <1>1, <1>5, <2>2 DEF WritingOK
<1>7. ~Fresh(c)'
  BY <1>2, <1>4 DEF Fresh, Waits
<1>8. RudeStays(c)
  BY <1>1, <1>2, RudeKept
<1>9. got[e] \in Seq(Seq(Byte)) /\ sent[e] \in Seq(Packets) /\ e \in End
  BY Ends, SocketTypes
<1>. HIDE DEF e
<1>10. Len(got[e]) = Len(sent[e]) + 1 /\ Len(sent[e]) \in Nat
  BY <1>6, <1>9 DEF Owes, e
<1>11. CASE sent'[e] = sent[e]
  <2>1. Answered(c)' /\ Owes(c)'
    BY <1>1, <1>4, <1>6, <1>11, Zenon DEF Answered, Owes, e
  <2>2. io'[e].op \in {"none", "write"} /\ io'[e].result # "written"
    BY <1>1, <1>9, <1>11 DEF WriteOutcome
  <2>3. io'[e].op = "write" => io'[e].packet = io[e].packet
    BY <1>1 DEF WriteOutcome
  <2>4. LastCall(c)' = LastCall(c)
    BY <1>1 DEF LastCall
  <2>5. WritingOK(c)'
    BY <1>1, <1>6, <2>1, <2>2, <2>3, <2>4 DEF WritingOK, e
  <2>6. io'[e].result # "threw" /\ (io'[e].result = "hungup" => Rude(c))
    <3>1. io'[e].result # "threw"
      BY <1>1 DEF WriteOutcome
    <3>2. ASSUME io'[e].result = "hungup" PROVE Rude(c)
      <4>1. CannotSend(e)
        BY <1>1, <3>2 DEF WriteOutcome
      <4>2. c \in broken \/ open[ClientEnd(c)] = "closed"
        BY <4>1, Ends DEF CannotSend, e
      <4>3. Prefix(sent[ClientEnd(c)], asked[c])
        BY CallerNow
      <4>4. Len(got[ClientEnd(c)]) < Len(asked[c])
        BY <1>4, <1>10, <4>3, Lengths DEF e
      <4>. QED
        BY <4>2, <4>4, RudeIs
    <3>. QED
      BY <3>1, <3>2
  <2>7. ServingOK(c)'
    BY <1>1, <1>2, <1>4, <1>5, <1>8, <2>5, <2>6 DEF ServingOK, RudeStays, e
  <2>. QED
    BY <1>2, <1>4, <1>7, <2>1, <2>7 DEF ServerOK
<1>12. CASE sent'[e] # sent[e]
  <2>1. /\ io'[e].op = "none" /\ io'[e].result = "written"
        /\ sent'[e] = Append(sent[e], io[e].packet)
    BY <1>1, <1>12 DEF WriteOutcome
  <2>2. /\ Len(sent'[e]) = Len(sent[e]) + 1 /\ sent'[e][Len(sent[e]) + 1] = io[e].packet
        /\ \A i \in 1 .. Len(sent[e]) : sent'[e][i] = sent[e][i]
    BY <1>9, <2>1
  <2>3. Even(c)'
    BY <1>1, <1>10, <2>2 DEF Even, e
  <2>4. Answered(c)'
    <3>1. Len(sent'[e]) <= Len(got'[e])
      BY <1>1, <1>10, <2>2
    <3>2. \A i \in 1 .. Len(sent[e]) : sent'[e][i] = Answer[got[e][i]]
      BY <1>4, <2>2 DEF Answered, e
    <3>3. sent'[e][Len(sent[e]) + 1] = Answer[got[e][Len(sent[e]) + 1]]
      BY <1>6, <1>10, <2>2 DEF LastCall, e
    <3>4. \A i \in 1 .. Len(sent'[e]) : sent'[e][i] = Answer[got[e][i]]
      BY <1>10, <2>2, <3>2, <3>3
    <3>. QED
      BY <1>1, <3>1, <3>4, Zenon DEF Answered, e
  <2>5. WritingOK(c)'
    BY <1>1, <1>6, <2>1, <2>3 DEF WritingOK, e
  <2>6. ServingOK(c)'
    BY <1>1, <1>2, <1>4, <1>5, <2>1, <2>5 DEF ServingOK, e
  <2>. QED
    BY <1>2, <1>4, <1>7, <2>4, <2>6 DEF ServerOK
<1>. QED
  BY <1>11, <1>12

LEMMA ClientWrites ==
    ASSUME TypeOK, StreamsOK, CallersOK, NEW c \in Conn, WriteStep(ClientEnd(c)),
           UNCHANGED <<serverVars, clientVars>>
    PROVE  ClientOK(c)'
<1>. DEFINE e == ClientEnd(c)
<1>1. /\ io[e].op = "write" /\ WriteOutcome(e, sent'[e], io'[e])
      /\ open' = open /\ broken' = broken /\ got' = got /\ heard' = heard
  BY Ends, WriteEnds
<1>2. client' = client /\ asked' = asked
  BY DEF clientVars
<1>3. ClientOK(c) /\ IoOK(e)
  BY CallerNow, Ends DEF StreamsOK
<1>4. client[c] = "ready" /\ ReadyOK(c)
  BY <1>1, <1>3, IdleType DEF ClientOK
<1>5. asked[c] = Append(sent[e], io[e].packet) /\ heard[e] = "flows" /\ open[e] = "open"
  BY <1>1, <1>3, <1>4 DEF IoOK, ReadyOK
<1>. HIDE DEF e
<1>6. ReadyOK(c)'
  BY <1>1, <1>2, <1>5 DEF WriteOutcome, ReadyOK, e
<1>7. Prefix(sent'[e], asked'[c])
  <2>1. CASE sent'[e] = sent[e]
    BY <1>2, <1>3, <2>1, Zenon DEF ClientOK, e
  <2>2. CASE sent'[e] # sent[e]
    <3>1. sent'[e] = asked[c]
      BY <1>1, <1>5, <2>2 DEF WriteOutcome
    <3>2. Len(asked[c]) \in Nat
      BY DEF TypeOK
    <3>3. Prefix(asked[c], asked[c])
      BY <3>2 DEF Prefix
    <3>. QED
      BY <1>2, <3>1, <3>3
  <2>. QED
    BY <2>1, <2>2
<1>8. CutOK(c)'
  BY <1>1, <1>5 DEF CutOK, e
<1>. QED
  BY <1>1, <1>2, <1>3, <1>4, <1>6, <1>7, <1>8 DEF ClientOK, e
-----------------------------------------------------------------------------
(* The inductive step, one action after the other.                           *)

\* The types that are no part of the sockets.
ControlTyped ==
    /\ program' \in Programs
    /\ pc' \in {"loop", "accept", "serve", "reading", "writing", "ended", "threw"}
    /\ current' \in {{}} \cup {{c} : c \in Conn}
    /\ backlog' \in Seq(Conn)
    /\ termRequested' \in BOOLEAN
    /\ interrupts' \in 0 .. MaxInterrupts
    /\ client' \in [Conn -> {"new", "ready", "failed", "gone"}]
    /\ asked' \in [Conn -> Seq(Calls)]

LEMMA InvariantNext ==
    ASSUME SocketsKept, ControlTyped, CallersOK'
    PROVE  IInv'
<1>1. TypeOK'
  BY Zenon DEF SocketsKept, ControlTyped, TypeOK
<1>2. StreamsOK'
  BY DEF SocketsKept
<1>. QED
  BY <1>1, <1>2 DEF IInv

LEMMA ControlStays ==
    ASSUME TypeOK, UNCHANGED <<serverVars, clientVars>>
    PROVE  /\ ControlTyped
           /\ program' = program /\ pc' = pc /\ current' = current /\ backlog' = backlog
           /\ client' = client /\ asked' = asked
<1>1. /\ program' = program /\ pc' = pc /\ current' = current /\ backlog' = backlog
      /\ termRequested' = termRequested /\ interrupts' = interrupts
      /\ client' = client /\ asked' = asked
  BY DEF serverVars, clientVars
<1>. QED
  BY <1>1 DEF TypeOK, ControlTyped

LEMMA CutStays ==
    ASSUME SocketsKept
    PROVE  \A c \in Conn : CutKept(c)
  BY Ends, Zenon DEF SocketsKept, CutKept

\* Neither a client nor the server takes a step.
LEMMA OthersKept ==
    ASSUME TypeOK, CallersOK, UNCHANGED <<serverVars, clientVars>>,
           \A c \in Conn : RudeStays(c)
    PROVE  /\ PcOK' /\ BacklogOK'
           /\ \A c \in Conn : ServerSame(c) => ServerOK(c)'
           /\ \A c \in Conn : ClientSame(c) /\ CutKept(c) => ClientOK(c)'
<1>1. /\ pc' = pc /\ current' = current /\ backlog' = backlog /\ client' = client
  BY ControlStays
<1>2. PcOK /\ BacklogOK
  BY DEF CallersOK
<1>3. PcOK'
  BY <1>1, <1>2, PcKept
<1>4. BacklogOK'
  BY <1>1, <1>2, BacklogKept
<1>5. ASSUME NEW c \in Conn, ServerSame(c) PROVE ServerOK(c)'
  <2>1. Fresh(c)' => Fresh(c)
    BY <1>1, FreshKept
  <2>2. ServerOK(c)
    BY CallerNow
  <2>. QED
    BY <1>1, <1>5, <2>1, <2>2, ServerKept
<1>6. ASSUME NEW c \in Conn, ClientSame(c), CutKept(c) PROVE ClientOK(c)'
  BY <1>6, CallerNow, ClientKept
<1>. QED
  BY <1>3, <1>4, <1>5, <1>6, Zenon

LEMMA SocketStepKeeps ==
    ASSUME IInv, NEW e \in End, SocketStep(e)
    PROVE  IInv'
<1>1. /\ TypeOK /\ StreamsOK /\ CallersOK
      /\ Progress(e) /\ UNCHANGED <<serverVars, clientVars>>
  BY DEF IInv, SocketStep
<1>2. ControlTyped /\ client' = client /\ asked' = asked
  BY <1>1, ControlStays
<1>3. PICK c \in Conn : e = ClientEnd(c) \/ e = ServerEnd(c)
  BY EndIs
<1>4. /\ ClientEnd(c) \in End /\ ServerEnd(c) \in End /\ ClientEnd(c) # ServerEnd(c)
      /\ Peer(ClientEnd(c)) = ServerEnd(c) /\ Peer(ServerEnd(c)) = ClientEnd(c)
  BY Ends, EndsDiffer
<1>5. \A b \in Conn : b # c => /\ ClientEnd(b) \in End /\ ServerEnd(b) \in End
                              /\ ClientEnd(b) # e /\ ServerEnd(b) # e
                              /\ ServerEnd(b) # Peer(e)
  BY <1>3, <1>4, Ends, EndsDiffer
<1>6. CASE ReadStep(e)
  <2>1. SocketsKept
    BY <1>1, <1>6, ReadTypesKept, ReadStreams DEF SocketsKept
  <2>2. \A b \in Conn : CutKept(b)
    BY <2>1, CutStays
  <2>3. /\ \A d \in End : d # e => io'[d] = io[d] /\ got'[d] = got[d] /\ heard'[d] = heard[d]
        /\ open' = open /\ broken' = broken /\ sent' = sent
    BY <1>1, <1>6, ReadEnds
  <2>4. e = ClientEnd(c) => client[c] = "ready"
    BY <1>1, <1>6, <2>2, ClientReads
  <2>5. \A b \in Conn : RudeStays(b)
    <3>1. ASSUME NEW b \in Conn PROVE RudeStays(b)
      <4>1. client[b] = "gone" => got'[ClientEnd(b)] = got[ClientEnd(b)]
        <5>1. CASE b # c
          BY <1>5, <2>3, <5>1
        <5>2. CASE b = c /\ e = ServerEnd(c)
          BY <1>4, <2>3, <5>2
        <5>3. CASE b = c /\ e = ClientEnd(c)
          BY <2>4, <5>3
        <5>. QED
          BY <1>3, <5>1, <5>2, <5>3
      <4>. QED
        BY <1>2, <2>3, <4>1, RudeKept
    <3>. QED
      BY <3>1
  <2>6. /\ PcOK' /\ BacklogOK'
        /\ \A b \in Conn : ServerSame(b) => ServerOK(b)'
        /\ \A b \in Conn : ClientSame(b) /\ CutKept(b) => ClientOK(b)'
    BY <1>1, <2>5, OthersKept
  <2>7. \A b \in Conn : b # c => ServerOK(b)' /\ ClientOK(b)'
    BY <1>2, <1>5, <2>2, <2>3, <2>6 DEF ServerSame, ClientSame
  <2>8. ServerOK(c)' /\ ClientOK(c)'
    <3>1. CASE e = ServerEnd(c)
      <4>1. ServerOK(c)'
        BY <1>1, <1>6, <3>1, ServerReads
      <4>2. ClientSame(c)
        BY <1>2, <1>4, <2>3, <3>1 DEF ClientSame
      <4>. QED
        BY <2>2, <2>6, <4>1, <4>2
    <3>2. CASE e = ClientEnd(c)
      <4>1. ClientOK(c)'
        BY <1>1, <1>6, <2>2, <3>2, ClientReads
      <4>2. ServerSame(c)
        BY <1>4, <2>3, <3>2 DEF ServerSame
      <4>. QED
        BY <2>6, <4>1, <4>2
    <3>. QED
      BY <1>3, <3>1, <3>2
  <2>9. CallersOK'
    BY <2>6, <2>7, <2>8, Zenon DEF CallersOK
  <2>. QED
    BY <1>2, <2>1, <2>9, InvariantNext
<1>7. CASE WriteStep(e)
  <2>1. SocketTypeOK' /\ StreamsOK'
        /\ \A d \in End : d # Peer(e) /\ Intact(d)' /\ MidPacket(d)' => Intact(d) /\ MidPacket(d)
    BY <1>1, <1>7, WriteTypesKept, WriteStreams
  <2>2. \A b \in Conn : ServerEnd(b) # Peer(e) => CutKept(b)
    BY <2>1, Ends, Zenon DEF CutKept
  <2>3. /\ \A d \in End : d # e => io'[d] = io[d] /\ sent'[d] = sent[d]
        /\ open' = open /\ broken' = broken /\ got' = got /\ heard' = heard
    BY <1>1, <1>7, WriteEnds
  <2>4. \A b \in Conn : RudeStays(b)
    BY <1>2, <2>3, RudeKept
  <2>5. /\ PcOK' /\ BacklogOK'
        /\ \A b \in Conn : ServerSame(b) => ServerOK(b)'
        /\ \A b \in Conn : ClientSame(b) /\ CutKept(b) => ClientOK(b)'
    BY <1>1, <2>4, OthersKept
  <2>6. \A b \in Conn : b # c => ServerOK(b)' /\ ClientOK(b)'
    BY <1>2, <1>5, <2>2, <2>3, <2>5 DEF ServerSame, ClientSame
  <2>7. ServerOK(c)' /\ ClientOK(c)'
    <3>1. CASE e = ServerEnd(c)
      <4>1. ServerOK(c)'
        BY <1>1, <1>7, <3>1, ServerWrites
      <4>2. ClientSame(c) /\ CutKept(c)
        BY <1>2, <1>4, <2>2, <2>3, <3>1 DEF ClientSame
      <4>. QED
        BY <2>5, <4>1, <4>2
    <3>2. CASE e = ClientEnd(c)
      <4>1. ClientOK(c)'
        BY <1>1, <1>7, <3>2, ClientWrites
      <4>2. ServerSame(c)
        BY <1>4, <2>3, <3>2 DEF ServerSame
      <4>. QED
        BY <2>5, <4>1, <4>2
    <3>. QED
      BY <1>3, <3>1, <3>2
  <2>8. CallersOK'
    BY <2>5, <2>6, <2>7, Zenon DEF CallersOK
  <2>. QED
    BY <1>2, <2>1, <2>8, Zenon DEF IInv, TypeOK, ControlTyped
<1>. QED
  BY <1>1, <1>6, <1>7, SocketSteps
-----------------------------------------------------------------------------
(* The clients.                                                              *)

\* Client c takes a step, and all else stays as it was.
LEMMA OneClient ==
    ASSUME TypeOK, CallersOK, SocketsKept, NEW c \in Conn, pc' = pc, current' = current,
           \A d \in End : d # ClientEnd(c) => io'[d] = io[d] /\ open'[d] = open[d],
           sent' = sent, got' = got, heard' = heard, broken' = broken, client[c] # "gone",
           \A b \in Conn : b # c => client'[b] = client[b] /\ asked'[b] = asked[b],
           \A b \in Conn : Fresh(b)' => Fresh(b),
           ClientOK(c)', BacklogOK'
    PROVE  CallersOK'
<1>1. \A b \in Conn : RudeStays(b)
  <2>1. ASSUME NEW b \in Conn PROVE RudeStays(b)
    <3>1. client[b] = "gone" => b # c
      OBVIOUS
    <3>. QED
      BY <3>1, RudeKept
  <2>. QED
    BY <2>1
<1>2. PcOK'
  BY <1>1, PcKept DEF CallersOK
<1>3. ASSUME NEW b \in Conn PROVE ServerOK(b)'
  <2>1. ServerEnd(b) \in End /\ ServerEnd(b) # ClientEnd(c)
    BY Ends, EndsDiffer
  <2>2. ServerSame(b)
    BY <2>1 DEF ServerSame
  <2>3. ServerOK(b)
    BY CallerNow
  <2>. QED
    BY <1>1, <2>2, <2>3, ServerKept
<1>4. ASSUME NEW b \in Conn, b # c PROVE ClientOK(b)'
  <2>1. ClientEnd(b) \in End /\ ClientEnd(b) # ClientEnd(c)
    BY <1>4, Ends, EndsDiffer
  <2>2. ClientSame(b)
    BY <1>4, <2>1 DEF ClientSame
  <2>3. ClientOK(b) /\ CutKept(b)
    BY CallerNow, CutStays
  <2>. QED
    BY <2>2, <2>3, ClientKept
<1>. QED
  BY <1>2, <1>3, <1>4, Zenon DEF CallersOK

LEMMA ClientNow ==
    ASSUME IInv, NEW c \in Conn
    PROVE  /\ TypeOK /\ StreamsOK /\ CallersOK /\ ClientOK(c) /\ IoOK(ClientEnd(c))
           /\ ClientEnd(c) \in End /\ io[ClientEnd(c)] \in IoType
           /\ open[ClientEnd(c)] \in {"open", "shut", "closed"}
           /\ client \in [Conn -> {"new", "ready", "failed", "gone"}]
           /\ asked \in [Conn -> Seq(Calls)] /\ sent[ClientEnd(c)] \in Seq(Packets)
<1>1. TypeOK /\ StreamsOK /\ CallersOK
  BY DEF IInv
<1>2. ClientEnd(c) \in End
  BY Ends
<1>3. ClientOK(c) /\ IoOK(ClientEnd(c))
  BY <1>1, <1>2, CallerNow DEF StreamsOK
<1>4. /\ io[ClientEnd(c)] \in IoType /\ open[ClientEnd(c)] \in {"open", "shut", "closed"}
      /\ sent[ClientEnd(c)] \in Seq(Packets)
  BY <1>1, <1>2, SocketTypes
<1>5. client \in [Conn -> {"new", "ready", "failed", "gone"}] /\ asked \in [Conn -> Seq(Calls)]
  BY <1>1 DEF TypeOK
<1>. QED
  BY <1>1, <1>2, <1>3, <1>4, <1>5

LEMMA ConnectKeeps ==
    ASSUME IInv, NEW c \in Conn, Connect(c)
    PROVE  IInv'
<1>1. /\ TypeOK /\ StreamsOK /\ CallersOK /\ ClientOK(c) /\ IoOK(ClientEnd(c))
      /\ client \in [Conn -> {"new", "ready", "failed", "gone"}]
      /\ asked \in [Conn -> Seq(Calls)] /\ sent[ClientEnd(c)] \in Seq(Packets)
  BY ClientNow
<1>2. /\ client[c] = "new" /\ client' = [client EXCEPT ![c] = "ready"] /\ backlog' = Append(backlog, c)
      /\ UNCHANGED <<socketVars, program, pc, current, termRequested, interrupts, asked>>
  BY DEF Connect
<1>3. UNCHANGED <<wire, open, broken, sock, io, interrupt, sent, got, heard>>
  BY <1>2 DEF socketVars
<1>4. SocketsKept
  <2>1. interrupt' \in BOOLEAN
    BY <1>1, <1>3 DEF TypeOK, SocketTypeOK
  <2>. QED
    BY <1>1, <1>3, <2>1, SocketsStay
<1>5. backlog \in Seq(Conn)
  BY <1>1 DEF TypeOK
<1>6. /\ Len(backlog) \in Nat /\ backlog' \in Seq(Conn) /\ DOMAIN backlog = 1 .. Len(backlog)
      /\ DOMAIN backlog' = 1 .. Len(backlog) + 1
      /\ backlog'[Len(backlog) + 1] = c /\ \A i \in 1 .. Len(backlog) : backlog'[i] = backlog[i]
  BY <1>2, <1>5
<1>7. client'[c] = "ready" /\ \A b \in Conn : b # c => client'[b] = client[b]
  BY <1>1, <1>2
<1>8. ControlTyped
  <2>1. client' \in [Conn -> {"new", "ready", "failed", "gone"}]
    BY <1>1, <1>2
  <2>. QED
    BY <1>1, <1>2, <1>6, <2>1 DEF TypeOK, ControlTyped
<1>9. BacklogOK
  BY <1>1 DEF CallersOK
<1>10. \A i \in 1 .. Len(backlog) : backlog[i] \in Conn /\ backlog[i] # c
  BY <1>2, <1>5, <1>6, <1>9 DEF BacklogOK
<1>11. BacklogOK'
  <2>1. ASSUME NEW i \in 1 .. Len(backlog) + 1 PROVE client'[backlog'[i]] # "new"
    <3>1. CASE i = Len(backlog) + 1
      BY <1>6, <1>7, <3>1
    <3>2. CASE i # Len(backlog) + 1
      <4>1. i \in 1 .. Len(backlog)
        BY <1>6, <3>2
      <4>2. client[backlog[i]] # "new" /\ backlog'[i] = backlog[i]
        BY <1>6, <1>9, <4>1 DEF BacklogOK
      <4>3. client'[backlog[i]] = client[backlog[i]]
        BY <1>7, <1>10, <4>1
      <4>. QED
        BY <4>2, <4>3
    <3>. QED
      BY <3>1, <3>2
  <2>2. ASSUME NEW i \in 1 .. Len(backlog) + 1, NEW j \in 1 .. Len(backlog) + 1,
               backlog'[i] = backlog'[j]
        PROVE  i = j
    <3>1. CASE i \in 1 .. Len(backlog) /\ j \in 1 .. Len(backlog)
      BY <1>6, <1>9, <2>2, <3>1 DEF BacklogOK
    <3>2. CASE ~(i \in 1 .. Len(backlog)) /\ ~(j \in 1 .. Len(backlog))
      BY <1>6, <3>2
    <3>3. CASE i \in 1 .. Len(backlog) /\ ~(j \in 1 .. Len(backlog))
      <4>1. j = Len(backlog) + 1
        BY <1>6, <3>3
      <4>. QED
        BY <1>6, <1>10, <2>2, <3>3, <4>1
    <3>4. CASE ~(i \in 1 .. Len(backlog)) /\ j \in 1 .. Len(backlog)
      <4>1. i = Len(backlog) + 1
        BY <1>6, <3>4
      <4>. QED
        BY <1>6, <1>10, <2>2, <3>4, <4>1
    <3>. QED
      BY <3>1, <3>2, <3>3, <3>4
  <2>. QED
    BY <1>6, <2>1, <2>2, Zenon DEF BacklogOK
<1>12. ASSUME NEW b \in Conn, Fresh(b)' PROVE Fresh(b)
  <2>1. CASE b = c
    BY <1>2, <2>1 DEF Fresh
  <2>2. CASE b # c
    <3>1. client'[b] = client[b]
      BY <1>7, <2>2
    <3>2. Waits(b)' => Waits(b)
      <4>1. ASSUME NEW i \in 1 .. Len(backlog) + 1, backlog'[i] = b PROVE Waits(b)
        <5>1. i # Len(backlog) + 1
          BY <1>6, <2>2, <4>1
        <5>2. i \in 1 .. Len(backlog)
          BY <1>6, <5>1
        <5>. QED
          BY <1>6, <4>1, <5>2 DEF Waits
      <4>. QED
        BY <1>6, <4>1 DEF Waits
    <3>. QED
      BY <1>12, <3>1, <3>2 DEF Fresh
  <2>. QED
    BY <2>1, <2>2
<1>13. ClientOK(c)'
  <2>1. /\ io[ClientEnd(c)] = Idle /\ asked[c] = <<>> /\ open[ClientEnd(c)] = "open"
        /\ heard[ClientEnd(c)] = "flows" /\ Prefix(sent[ClientEnd(c)], asked[c])
    BY <1>1, <1>2 DEF ClientOK, NewOK
  <2>2. sent[ClientEnd(c)] = <<>>
    <3>1. Len(sent[ClientEnd(c)]) <= Len(asked[c])
      BY <2>1 DEF Prefix
    <3>2. Len(sent[ClientEnd(c)]) <= 0
      BY <2>1, <3>1
    <3>. QED
      BY <1>1, <3>2
  <2>3. ReadyOK(c)'
    BY <1>2, <1>3, <2>1, <2>2, IdleType DEF ReadyOK
  <2>4. CutOK(c)'
    BY <1>3, <2>1 DEF CutOK
  <2>5. /\ io'[ClientEnd(c)] = Idle /\ open'[ClientEnd(c)] = "open"
        /\ Prefix(sent'[ClientEnd(c)], asked'[c])
    BY <1>2, <1>3, <2>1
  <2>. QED
    BY <1>7, <2>3, <2>4, <2>5 DEF ClientOK
<1>14. \A d \in End : io'[d] = io[d] /\ open'[d] = open[d]
  BY <1>3
<1>15. client[c] # "gone" /\ \A b \in Conn : b # c => client'[b] = client[b] /\ asked'[b] = asked[b]
  BY <1>2, <1>7
<1>16. CallersOK'
  BY <1>1, <1>2, <1>3, <1>4, <1>11, <1>12, <1>13, <1>14, <1>15, OneClient
<1>. QED
  BY <1>4, <1>8, <1>16, InvariantNext

\* A client's step that leaves the server alone.
LEMMA ClientAlone ==
    ASSUME IInv, SocketsKept, NEW c \in Conn, UNCHANGED serverVars,
           \A d \in End : d # ClientEnd(c) => io'[d] = io[d] /\ open'[d] = open[d],
           sent' = sent, got' = got, heard' = heard, broken' = broken, client[c] \notin {"gone", "new"},
           client' = client \/ (\E s \in {"failed", "gone"} : client' = [client EXCEPT ![c] = s]),
           asked' = asked \/ (\E p \in Calls : asked' = [asked EXCEPT ![c] = Append(asked[c], p)]),
           ClientOK(c)'
    PROVE  IInv'
<1>1. TypeOK /\ CallersOK
  BY DEF IInv
<1>2. /\ client \in [Conn -> {"new", "ready", "failed", "gone"}] /\ asked \in [Conn -> Seq(Calls)]
  BY <1>1 DEF TypeOK
<1>3. /\ program' = program /\ pc' = pc /\ current' = current /\ backlog' = backlog
      /\ termRequested' = termRequested /\ interrupts' = interrupts
  BY DEF serverVars
<1>4. client' \in [Conn -> {"new", "ready", "failed", "gone"}]
  BY <1>2
<1>5. asked' \in [Conn -> Seq(Calls)]
  <2>1. ASSUME NEW p \in Calls PROVE [asked EXCEPT ![c] = Append(asked[c], p)] \in [Conn -> Seq(Calls)]
    <3>1. Append(asked[c], p) \in Seq(Calls)
      BY <1>2
    <3>. QED
      BY <1>2, <3>1
  <2>. QED
    BY <1>2, <2>1
<1>6. \A b \in Conn : b # c => client'[b] = client[b] /\ asked'[b] = asked[b]
  BY <1>2
<1>7. \A b \in Conn : client'[b] = "new" => client[b] = "new"
  BY <1>2
<1>8. ControlTyped
  BY <1>1, <1>3, <1>4, <1>5 DEF TypeOK, ControlTyped
<1>9. BacklogOK'
  BY <1>1, <1>3, <1>7, BacklogKept DEF CallersOK
<1>10. \A b \in Conn : Fresh(b)' => Fresh(b)
  BY <1>3, <1>7, FreshKept
<1>11. CallersOK'
  BY <1>1, <1>3, <1>6, <1>9, <1>10, OneClient
<1>. QED
  BY <1>8, <1>11, InvariantNext

\* What a client that is ready knows.
LEMMA ReadyNow ==
    ASSUME IInv, NEW c \in Conn, client[c] = "ready"
    PROVE  /\ ReadyOK(c) /\ open[ClientEnd(c)] # "closed" /\ Prefix(sent[ClientEnd(c)], asked[c])
  BY ClientNow DEF ClientOK

LEMMA SendCallKeeps ==
    ASSUME IInv, NEW c \in Conn, SendCall(c)
    PROVE  IInv'
<1>. DEFINE e == ClientEnd(c)
<1>1. /\ TypeOK /\ StreamsOK /\ CallersOK /\ ClientOK(c) /\ IoOK(e) /\ e \in End
      /\ asked \in [Conn -> Seq(Calls)] /\ sent[e] \in Seq(Packets)
  BY ClientNow
<1>2. /\ client[c] = "ready" /\ io[e] = Idle /\ open[e] = "open"
      /\ SocketExceptIo /\ UNCHANGED <<serverVars, client>>
  BY DEF SendCall, ClientIdle
<1>3. PICK p \in Calls : asked' = [asked EXCEPT ![c] = Append(@, p)] /\ StartWrite(e, p)
  BY DEF SendCall
<1>. HIDE DEF e
<1>4. p \in Packets
  BY CallsAssumption
<1>5. io[e].op # "write"
  BY <1>2, IdleType
<1>6. /\ SocketsKept
      /\ io'[e].op = "write" /\ io'[e].packet = p /\ io'[e].result = "none"
      /\ \A d \in End : d # e => io'[d] = io[d]
  BY <1>1, <1>2, <1>3, <1>4, <1>5, StartWriteKept
<1>7. UNCHANGED <<wire, open, broken, sock, interrupt, sent, got, heard>> /\ UNCHANGED serverVars
      /\ client' = client
  BY <1>2 DEF SocketExceptIo
<1>8. asked[c] = sent[e] /\ heard[e] = "flows" /\ Prefix(sent[e], asked[c])
  BY <1>2, IdleType, ReadyNow DEF ReadyOK, e
<1>9. asked'[c] = Append(asked[c], p) /\ asked' = [asked EXCEPT ![c] = Append(asked[c], p)]
  BY <1>1, <1>3
<1>10. ClientOK(c)'
  <2>1. ReadyOK(c)'
    BY <1>6, <1>7, <1>8, <1>9 DEF ReadyOK, e
  <2>2. Prefix(sent'[e], asked'[c])
    <3>1. asked[c] \in Seq(Calls)
      BY <1>1
    <3>2. Prefix(sent[e], Append(asked[c], p))
      BY <1>1, <1>8, <3>1, PrefixAppend
    <3>. QED
      BY <1>7, <1>9, <3>2
  <2>3. CutOK(c)'
    BY <1>2, <1>7 DEF CutOK, e
  <2>4. open'[e] = "open" /\ client'[c] = "ready"
    BY <1>2, <1>7
  <2>. QED
    BY <2>1, <2>2, <2>3, <2>4 DEF ClientOK, e
<1>11. \A d \in End : d # ClientEnd(c) => io'[d] = io[d] /\ open'[d] = open[d]
  BY <1>6, <1>7 DEF e
<1>12. sent' = sent /\ got' = got /\ heard' = heard /\ broken' = broken /\ client[c] \notin {"gone", "new"}
  BY <1>2, <1>7
<1>. QED
  BY <1>6, <1>7, <1>9, <1>10, <1>11, <1>12, ClientAlone

LEMMA RecvRespKeeps ==
    ASSUME IInv, NEW c \in Conn, RecvResp(c)
    PROVE  IInv'
<1>. DEFINE e == ClientEnd(c)
<1>1. /\ TypeOK /\ StreamsOK /\ CallersOK /\ ClientOK(c) /\ IoOK(e) /\ e \in End
  BY ClientNow
<1>2. /\ client[c] = "ready" /\ io[e] = Idle /\ StartRead(e, TRUE)
      /\ SocketExceptIo /\ UNCHANGED <<serverVars, clientVars>>
  BY DEF RecvResp, ClientIdle
<1>. HIDE DEF e
<1>3. io[e].op # "write"
  BY <1>2, IdleType
<1>4. asked[c] = sent[e] /\ heard[e] = "flows" /\ Prefix(sent[e], asked[c]) /\ open[e] # "closed"
  BY <1>2, IdleType, ReadyNow DEF ReadyOK, e
<1>5. /\ SocketsKept
      /\ io'[e].op \in ReadOps /\ io'[e].result = "none"
      /\ \A d \in End : d # e => io'[d] = io[d]
  BY <1>1, <1>2, <1>3, <1>4, TRUE \in BOOLEAN, StartReadKept, Zenon
<1>6. UNCHANGED <<wire, open, broken, sock, interrupt, sent, got, heard>> /\ UNCHANGED serverVars
      /\ client' = client /\ asked' = asked
  BY <1>2 DEF SocketExceptIo, clientVars
<1>7. ClientOK(c)'
  <2>1. ReadyOK(c)'
    BY <1>4, <1>5, <1>6 DEF ReadyOK, ReadOps, e
  <2>2. CutOK(c)'
    BY <1>4, <1>6 DEF CutOK, e
  <2>3. open'[e] # "closed" /\ client'[c] = "ready" /\ Prefix(sent'[e], asked'[c])
    BY <1>2, <1>4, <1>6
  <2>. QED
    BY <2>1, <2>2, <2>3 DEF ClientOK, e
<1>8. \A d \in End : d # ClientEnd(c) => io'[d] = io[d] /\ open'[d] = open[d]
  BY <1>5, <1>6 DEF e
<1>9. sent' = sent /\ got' = got /\ heard' = heard /\ broken' = broken /\ client[c] \notin {"gone", "new"}
  BY <1>2, <1>6
<1>. QED
  BY <1>5, <1>6, <1>7, <1>8, <1>9, ClientAlone

LEMMA ClientReturnsKeeps ==
    ASSUME IInv, NEW c \in Conn, ClientReturns(c)
    PROVE  IInv'
<1>. DEFINE e == ClientEnd(c)
<1>1. /\ TypeOK /\ StreamsOK /\ CallersOK /\ ClientOK(c) /\ IoOK(e) /\ e \in End
      /\ client \in [Conn -> {"new", "ready", "failed", "gone"}]
  BY ClientNow
<1>2. /\ client[c] = "ready" /\ io[e].result # "none"
      /\ client' = [client EXCEPT ![c] = IF io[e].result \in {"written", "packet"} THEN @ ELSE "failed"]
      /\ io' = [io EXCEPT ![e] = Idle]
      /\ SocketExceptIo /\ UNCHANGED <<serverVars, asked>>
  BY DEF ClientReturns, TakesNote
<1>. HIDE DEF e
<1>3. io[e].op = "none"
  BY <1>1, <1>2 DEF IoOK
<1>4. ReadyOK(c) /\ Prefix(sent[e], asked[c]) /\ open[e] # "closed"
  BY <1>2, ReadyNow DEF e
<1>5. UNCHANGED <<wire, open, broken, sock, interrupt, sent, got, heard>> /\ UNCHANGED serverVars
      /\ asked' = asked
  BY <1>2 DEF SocketExceptIo
<1>6. SocketsKept
  <2>1. io[e].op # "write"
    BY <1>3
  <2>. QED
    BY <1>1, <1>2, <1>5, <2>1, IdleKept
<1>7. io'[e] = Idle /\ \A d \in End : d # e => io'[d] = io[d]
  BY <1>1, <1>2 DEF TypeOK, SocketTypeOK
<1>8. \/ client' = client /\ io[e].result \in {"written", "packet"}
      \/ client' = [client EXCEPT ![c] = "failed"]
  BY <1>1, <1>2
<1>9. ClientOK(c)'
  <2>1. CutOK(c)'
    BY <1>4, <1>5 DEF CutOK, e
  <2>2. CASE client' = client /\ io[e].result \in {"written", "packet"}
    <3>1. asked[c] = sent[e] /\ heard[e] = "flows"
      BY <1>3, <1>4, <2>2 DEF ReadyOK, e
    <3>2. ReadyOK(c)'
      BY <1>5, <1>7, <3>1, IdleType DEF ReadyOK, e
    <3>. QED
      BY <1>2, <1>4, <1>5, <2>1, <2>2, <3>2 DEF ClientOK, e
  <2>3. CASE client' = [client EXCEPT ![c] = "failed"]
    <3>1. client'[c] = "failed"
      BY <1>1, <2>3
    <3>. QED
      BY <1>4, <1>5, <1>7, <2>1, <3>1 DEF ClientOK, e
  <2>. QED
    BY <1>8, <2>2, <2>3
<1>10. \A d \in End : d # ClientEnd(c) => io'[d] = io[d] /\ open'[d] = open[d]
  BY <1>5, <1>7 DEF e
<1>11. sent' = sent /\ got' = got /\ heard' = heard /\ broken' = broken /\ client[c] \notin {"gone", "new"}
  BY <1>2, <1>5
<1>12. client' = client \/ \E s \in {"failed", "gone"} : client' = [client EXCEPT ![c] = s]
  BY <1>8
<1>. QED
  BY <1>5, <1>6, <1>9, <1>10, <1>11, <1>12, ClientAlone

LEMMA ShutDownKeeps ==
    ASSUME IInv, NEW c \in Conn, ShutDown(c)
    PROVE  IInv'
<1>. DEFINE e == ClientEnd(c)
<1>1. /\ TypeOK /\ StreamsOK /\ CallersOK /\ ClientOK(c) /\ IoOK(e) /\ e \in End
  BY ClientNow
<1>2. client[c] = "ready" /\ Shut(e) /\ UNCHANGED <<serverVars, clientVars>>
  BY DEF ShutDown
<1>. HIDE DEF e
<1>3. /\ open[e] = "open" /\ open' = [open EXCEPT ![e] = "shut"]
      /\ UNCHANGED <<wire, broken, sock, io, interrupt, sent, got, heard>>
      /\ UNCHANGED serverVars /\ client' = client /\ asked' = asked
  BY <1>2 DEF Shut, clientVars
<1>4. SocketsKept
  BY <1>1, <1>2, ShutKept
<1>5. open'[e] = "shut" /\ \A d \in End : d # e => open'[d] = open[d]
  BY <1>1, <1>3 DEF TypeOK, SocketTypeOK
<1>6. ReadyOK(c) /\ Prefix(sent[e], asked[c])
  BY <1>2, ReadyNow DEF e
<1>7. ClientOK(c)'
  <2>1. ReadyOK(c)'
    BY <1>3, <1>6, Zenon DEF ReadyOK, e
  <2>2. CutOK(c)'
    BY <1>5 DEF CutOK, e
  <2>. QED
    BY <1>2, <1>3, <1>5, <1>6, <2>1, <2>2 DEF ClientOK, e
<1>8. \A d \in End : d # ClientEnd(c) => io'[d] = io[d] /\ open'[d] = open[d]
  BY <1>3, <1>5 DEF e
<1>9. sent' = sent /\ got' = got /\ heard' = heard /\ broken' = broken /\ client[c] \notin {"gone", "new"}
  BY <1>2, <1>3
<1>. QED
  BY <1>3, <1>4, <1>7, <1>8, <1>9, ClientAlone

\* A client that goes in the middle of a call leaves it unanswered; one that
\* goes between two leaves no packet cut.
LEMMA HangupKeeps ==
    ASSUME IInv, NEW c \in Conn, Hangup(c)
    PROVE  IInv'
<1>. DEFINE e == ClientEnd(c)
<1>1. /\ TypeOK /\ StreamsOK /\ CallersOK /\ ClientOK(c) /\ IoOK(e) /\ e \in End
      /\ client \in [Conn -> {"new", "ready", "failed", "gone"}]
      /\ asked \in [Conn -> Seq(Calls)] /\ sent[e] \in Seq(Packets)
  BY ClientNow
<1>2. /\ client[c] \in {"ready", "failed"} /\ Close(e)
      /\ client' = [client EXCEPT ![c] = "gone"] /\ UNCHANGED <<serverVars, asked>>
  BY DEF Hangup
<1>. HIDE DEF e
<1>3. /\ open[e] # "closed" /\ open' = [open EXCEPT ![e] = "closed"] /\ io' = [io EXCEPT ![e] = Idle]
      /\ UNCHANGED <<wire, broken, sock, interrupt, sent, got, heard>>
      /\ UNCHANGED serverVars /\ asked' = asked
  BY <1>2 DEF Close
<1>4. /\ open'[e] = "closed" /\ io'[e] = Idle /\ client'[c] = "gone"
      /\ \A d \in End : d # e => open'[d] = open[d] /\ io'[d] = io[d]
  BY <1>1, <1>2, <1>3 DEF TypeOK, SocketTypeOK
<1>5. SocketsKept
  BY <1>1, <1>3, <1>4, IdleKept
<1>6. /\ ServerEnd(c) \in End /\ Peer(ServerEnd(c)) = e /\ Prefix(sent[e], asked[c])
  BY <1>1, Ends DEF ClientOK, e
<1>7. CutOK(c)'
  <2>1. SUFFICES ASSUME Intact(ServerEnd(c))', MidPacket(ServerEnd(c))'
                 PROVE  Len(sent'[e]) < Len(asked'[c])
    BY DEF CutOK, e
  <2>2. Intact(ServerEnd(c)) /\ MidPacket(ServerEnd(c))
    BY <1>5, <1>6, <2>1 DEF SocketsKept
  <2>3. Carries(sock[ServerEnd(c)], wire[e], got[ServerEnd(c)], sent[e], io[e], open[e])
    <3>1. FlowOK(ServerEnd(c))
      BY <1>1, <1>6 DEF StreamsOK
    <3>. QED
      BY <1>6, <2>2, <3>1 DEF FlowOK
  <2>4. io[e].op = "write"
    BY <1>3, <1>6, <2>2, <2>3, Zenon DEF Carries, MidPacket
  <2>5. client[c] = "ready"
    BY <1>1, <1>2, <2>4, IdleType DEF ClientOK, e
  <2>6. asked[c] = Append(sent[e], io[e].packet)
    BY <2>4, <2>5, ReadyNow DEF ReadyOK, e
  <2>7. Len(sent[e]) < Len(asked[c])
    BY <1>1, <2>6
  <2>. QED
    BY <1>3, <2>7
<1>8. ClientOK(c)'
  BY <1>3, <1>4, <1>6, <1>7 DEF ClientOK, e
<1>9. \A d \in End : d # ClientEnd(c) => io'[d] = io[d] /\ open'[d] = open[d]
  BY <1>4 DEF e
<1>10. sent' = sent /\ got' = got /\ heard' = heard /\ broken' = broken /\ client[c] \notin {"gone", "new"}
  BY <1>2, <1>3
<1>11. client' = client \/ \E s \in {"failed", "gone"} : client' = [client EXCEPT ![c] = s]
  BY <1>2
<1>. QED
  BY <1>3, <1>5, <1>8, <1>9, <1>10, <1>11, ClientAlone

LEMMA BreaksKeeps ==
    ASSUME IInv, NEW c \in Conn, ConnectionBreaks(c)
    PROVE  IInv'
<1>1. /\ TypeOK /\ StreamsOK /\ CallersOK
  BY DEF IInv
<1>2. Break(c) /\ UNCHANGED <<serverVars, clientVars>>
  BY DEF ConnectionBreaks
<1>3. /\ broken' = broken \cup {c} /\ UNCHANGED <<open, sock, io, interrupt, sent, got, heard>>
  BY <1>2 DEF Break
<1>4. SocketsKept
  BY <1>1, <1>2, BreakKept
<1>5. ControlTyped /\ client' = client /\ asked' = asked
  BY <1>1, <1>2, ControlStays
<1>6. \A b \in Conn : RudeStays(b)
  BY <1>3, <1>5, RudeKept
<1>7. /\ PcOK' /\ BacklogOK'
      /\ \A b \in Conn : ServerSame(b) => ServerOK(b)'
      /\ \A b \in Conn : ClientSame(b) /\ CutKept(b) => ClientOK(b)'
  BY <1>1, <1>2, <1>6, OthersKept
<1>8. \A b \in Conn : ServerSame(b) /\ ClientSame(b) /\ CutKept(b)
  BY <1>3, <1>4, <1>5, CutStays DEF ServerSame, ClientSame
<1>9. CallersOK'
  BY <1>7, <1>8, Zenon DEF CallersOK
<1>. QED
  BY <1>4, <1>5, <1>9, InvariantNext
-----------------------------------------------------------------------------
(* The server.                                                               *)

\* The server takes a step with connection c, and all else stays as it was.
LEMMA OneServed ==
    ASSUME TypeOK, CallersOK, SocketsKept, NEW c \in Conn,
           \A d \in End : d # ServerEnd(c) => io'[d] = io[d] /\ open'[d] = open[d],
           sent' = sent, got' = got, heard' = heard, broken' = broken,
           client' = client, asked' = asked, backlog' = backlog,
           \A b \in Conn : b # c => b \notin current /\ b \notin current',
           RudeStays(c) => ServerOK(c)', (\A b \in Conn : RudeStays(b)) => PcOK'
    PROVE  CallersOK'
<1>1. \A b \in Conn : RudeStays(b)
  BY RudeKept
<1>2. PcOK'
  BY <1>1
<1>3. BacklogOK'
  BY BacklogKept DEF CallersOK
<1>4. ASSUME NEW b \in Conn, b # c PROVE ServerOK(b)'
  <2>1. ServerEnd(b) \in End /\ ServerEnd(b) # ServerEnd(c)
    BY <1>4, Ends, EndsDiffer
  <2>2. ServerSame(b)
    BY <2>1 DEF ServerSame
  <2>3. ServerOK(b) /\ (Fresh(b)' => Fresh(b))
    BY CallerNow, FreshKept
  <2>4. (b \in current' <=> b \in current) /\ (b \in current => pc' = pc)
    BY <1>4
  <2>. QED
    BY <1>1, <2>2, <2>3, <2>4, ServerKept
<1>5. ASSUME NEW b \in Conn PROVE ClientOK(b)'
  <2>1. ClientEnd(b) \in End /\ ClientEnd(b) # ServerEnd(c)
    BY Ends, EndsDiffer
  <2>2. ClientSame(b)
    BY <2>1 DEF ClientSame
  <2>3. ClientOK(b) /\ CutKept(b)
    BY CallerNow, CutStays
  <2>. QED
    BY <2>2, <2>3, ClientKept
<1>6. ServerOK(c)'
  BY <1>1
<1>. QED
  BY <1>2, <1>3, <1>4, <1>5, <1>6, Zenon DEF CallersOK

\* What is known of the connection that is served.
LEMMA ServedNow ==
    ASSUME IInv, pc \in {"serve", "reading", "writing"}
    PROVE  \E c \in Conn :
              /\ current = {c} /\ Serving = c /\ ServingOK(c) /\ Answered(c) /\ ~Fresh(c)
              /\ IoOK(ServerEnd(c)) /\ ServerEnd(c) \in End
<1>1. TypeOK /\ CallersOK /\ StreamsOK
  BY DEF IInv
<1>2. current # {}
  BY <1>1 DEF CallersOK, PcOK
<1>3. PICK c \in Conn : current = {c} /\ Serving = c
  BY <1>1, <1>2, ServingIs
<1>4. ServingOK(c) /\ Answered(c) /\ ~Fresh(c)
  BY <1>1, <1>3, CallerNow DEF ServerOK, FreshOK
<1>5. ServerEnd(c) \in End
  BY Ends
<1>. QED
  BY <1>1, <1>3, <1>4, <1>5 DEF StreamsOK

\* Nothing happens to a connection, whichever state of its own loop the server
\* is in.
LEMMA QuietKeeps ==
    ASSUME IInv, UNCHANGED <<wire, open, broken, sock, io, sent, got, heard>>, interrupt' \in BOOLEAN,
           ControlTyped, current' = current, backlog' = backlog, client' = client, asked' = asked,
           pc' = pc \/ (pc \in {"loop", "accept", "ended"} /\ pc' \in {"loop", "accept", "ended"})
    PROVE  IInv'
<1>1. TypeOK /\ CallersOK /\ StreamsOK
  BY DEF IInv
<1>2. SocketsKept
  BY <1>1, SocketsStay
<1>3. \A b \in Conn : RudeStays(b)
  BY RudeKept
<1>4. ASSUME NEW b \in Conn PROVE ServerOK(b)' /\ ClientOK(b)'
  <2>1. ServerSame(b) /\ ClientSame(b)
    BY DEF ServerSame, ClientSame
  <2>2. ServerOK(b) /\ ClientOK(b) /\ CutKept(b) /\ (Fresh(b)' => Fresh(b))
    BY <1>1, <1>2, CallerNow, CutStays, FreshKept
  <2>3. b \in current => pc' = pc
    BY <2>2 DEF ServerOK, ServingOK
  <2>. QED
    BY <1>3, <2>1, <2>2, <2>3, ServerKept, ClientKept
<1>5. PcOK'
  <2>1. PcOK
    BY <1>1 DEF CallersOK
  <2>2. CASE pc' = pc
    BY <1>3, <2>1, <2>2, PcKept
  <2>3. CASE pc' \in {"loop", "accept", "ended"}
    BY <2>3 DEF PcOK
  <2>. QED
    BY <2>2, <2>3
<1>6. BacklogOK'
  BY <1>1, BacklogKept DEF CallersOK
<1>7. CallersOK'
  BY <1>4, <1>5, <1>6, Zenon DEF CallersOK
<1>. QED
  BY <1>2, <1>7, InvariantNext

LEMMA LoopKeeps ==
    ASSUME IInv, Loop
    PROVE  IInv'
<1>1. TypeOK
  BY DEF IInv
<1>2. /\ pc = "loop" /\ pc' \in {"ended", "accept"} /\ UNCHANGED <<socketVars, current, clientVars>>
      /\ UNCHANGED <<program, backlog, termRequested, interrupts>>
  BY DEF Loop, Set
<1>3. /\ UNCHANGED <<wire, open, broken, sock, io, sent, got, heard>> /\ interrupt' = interrupt
      /\ client' = client /\ asked' = asked
  BY <1>2 DEF socketVars, clientVars
<1>4. ControlTyped /\ interrupt' \in BOOLEAN
  BY <1>1, <1>2, <1>3 DEF TypeOK, SocketTypeOK, ControlTyped
<1>. QED
  BY <1>2, <1>3, <1>4, QuietKeeps

LEMMA AcceptKeeps ==
    ASSUME IInv, Accept
    PROVE  IInv'
<1>1. TypeOK /\ CallersOK /\ StreamsOK
  BY DEF IInv
<1>2. /\ pc = "accept" /\ backlog # <<>> /\ backlog' = Tail(backlog)
      /\ \/ pc' = "loop" /\ current' = {}
         \/ pc' = "serve" /\ current' = {Head(backlog)}
      /\ UNCHANGED <<program, termRequested, interrupts>>
  BY DEF Accept
<1>3. /\ UNCHANGED <<wire, open, broken, sock, io, interrupt, sent, got, heard>>
      /\ client' = client /\ asked' = asked
  BY DEF Accept, SocketUnchanged, socketVars, clientVars
<1>4. SocketsKept
  <2>1. interrupt' \in BOOLEAN
    BY <1>1, <1>3 DEF TypeOK, SocketTypeOK
  <2>. QED
    BY <1>1, <1>3, <2>1, SocketsStay
<1>5. backlog \in Seq(Conn)
  BY <1>1 DEF TypeOK
<1>6. /\ backlog' \in Seq(Conn) /\ Len(backlog) \in Nat /\ Len(backlog) > 0
      /\ DOMAIN backlog = 1 .. Len(backlog) /\ DOMAIN backlog' = 1 .. Len(backlog) - 1
      /\ \A i \in 1 .. Len(backlog) - 1 : backlog'[i] = backlog[i + 1]
      /\ Head(backlog) = backlog[1] /\ Head(backlog) \in Conn
  BY <1>2, <1>5
<1>7. ControlTyped
  BY <1>1, <1>2, <1>3, <1>6 DEF TypeOK, ControlTyped
<1>8. \A b \in Conn : b \notin current /\ RudeStays(b)
  BY <1>1, <1>2, <1>3, NobodyServed, RudeKept
<1>9. BacklogOK
  BY <1>1 DEF CallersOK
<1>10. BacklogOK'
  <2>1. \A i \in 1 .. Len(backlog) - 1 : i + 1 \in 1 .. Len(backlog)
    BY <1>6
  <2>2. \A i \in 1 .. Len(backlog) - 1 : client[backlog'[i]] # "new"
    BY <1>6, <1>9, <2>1 DEF BacklogOK
  <2>3. \A i, j \in 1 .. Len(backlog) - 1 : backlog'[i] = backlog'[j] => i = j
    <3>1. \A i, j \in 1 .. Len(backlog) - 1 : backlog'[i] = backlog'[j] => i + 1 = j + 1
      BY <1>6, <1>9, <2>1 DEF BacklogOK
    <3>. QED
      BY <1>6, <3>1
  <2>. QED
    BY <1>3, <1>6, <2>2, <2>3 DEF BacklogOK
<1>11. ASSUME NEW b \in Conn, Fresh(b)' PROVE Fresh(b) /\ b # Head(backlog)
  <2>1. CASE client'[b] = "new"
    <3>1. client[b] = "new"
      BY <1>3, <2>1
    <3>2. client[Head(backlog)] # "new"
      <4>1. 1 \in DOMAIN backlog
        BY <1>6
      <4>. QED
        BY <1>6, <1>9, <4>1 DEF BacklogOK
    <3>. QED
      BY <3>1, <3>2 DEF Fresh
  <2>2. CASE Waits(b)'
    <3>1. PICK i \in 1 .. Len(backlog) - 1 : backlog'[i] = b
      BY <1>6, <2>2 DEF Waits
    <3>2. i + 1 \in 1 .. Len(backlog) /\ 1 \in 1 .. Len(backlog) /\ i + 1 # 1 /\ backlog[i + 1] = b
      BY <1>6, <3>1
    <3>3. backlog[i + 1] # backlog[1]
      BY <1>6, <1>9, <3>2 DEF BacklogOK
    <3>. QED
      BY <1>6, <3>2, <3>3 DEF Fresh, Waits
  <2>. QED
    BY <1>11, <2>1, <2>2 DEF Fresh
<1>12. ASSUME NEW b \in Conn PROVE ClientOK(b)' /\ (b \notin current' => ServerOK(b)')
  <2>1. ServerSame(b) /\ ClientSame(b)
    BY <1>3 DEF ServerSame, ClientSame
  <2>2. ServerOK(b) /\ ClientOK(b) /\ CutKept(b)
    BY <1>1, <1>4, CallerNow, CutStays
  <2>. QED
    BY <1>8, <1>11, <2>1, <2>2, ServerKept, ClientKept
<1>13. ASSUME NEW b \in Conn, b \in current' PROVE ServerOK(b)'
  <2>1. b = Head(backlog) /\ pc' = "serve"
    BY <1>2, <1>13
  <2>2. Fresh(b)
    BY <1>6, <2>1 DEF Fresh, Waits
  <2>3. FreshOK(b) /\ io[ServerEnd(b)] = Idle /\ Answered(b)
    BY <1>1, <1>8, <2>2, CallerNow DEF ServerOK
  <2>4. ServeOK(b)'
    BY <1>3, <2>3 DEF FreshOK, ServeOK, Even
  <2>5. ServingOK(b)'
    BY <1>3, <2>1, <2>3, <2>4, IdleType DEF ServingOK, FreshOK
  <2>6. Answered(b)'
    BY <1>3, <2>3 DEF Answered
  <2>7. ~Fresh(b)'
    BY <1>11, <2>1
  <2>. QED
    BY <1>13, <2>5, <2>6, <2>7 DEF ServerOK
<1>14. PcOK'
  BY <1>2 DEF PcOK
<1>15. CallersOK'
  BY <1>10, <1>12, <1>13, <1>14, Zenon DEF CallersOK
<1>. QED
  BY <1>4, <1>7, <1>15, InvariantNext

LEMMA RunOnceKeeps ==
    ASSUME IInv, RunOnce
    PROVE  IInv'
<1>1. TypeOK /\ CallersOK /\ StreamsOK
  BY DEF IInv
<1>2. /\ pc = "serve" /\ pc' = "reading" /\ UNCHANGED <<program, backlog, termRequested, interrupts>>
      /\ SocketExceptIo /\ UNCHANGED <<current, clientVars>>
  BY DEF RunOnce, Set
<1>3. PICK c \in Conn :
         /\ current = {c} /\ Serving = c /\ ServingOK(c) /\ Answered(c) /\ ~Fresh(c)
         /\ IoOK(ServerEnd(c)) /\ ServerEnd(c) \in End
  BY <1>2, ServedNow
<1>. DEFINE e == ServerEnd(c)
<1>4. PICK wait \in BOOLEAN : StartRead(e, wait)
  BY <1>3 DEF RunOnce
<1>5. io[e] = Idle /\ Even(c) /\ heard[e] = "flows" /\ open[e] = "open"
  BY <1>2, <1>3 DEF ServingOK, ServeOK
<1>. HIDE DEF e
<1>6. /\ SocketsKept
      /\ io'[e].op \in ReadOps /\ io'[e].result = "none"
      /\ \A d \in End : d # e => io'[d] = io[d]
  <2>1. io[e].op # "write" /\ open[e] # "closed"
    BY <1>5, IdleType
  <2>2. e \in End
    BY <1>3 DEF e
  <2>. QED
    BY <1>1, <1>2, <1>4, <1>5, <2>1, <2>2, StartReadKept
<1>7. UNCHANGED <<wire, open, broken, sock, interrupt, sent, got, heard>> /\ current' = current
      /\ client' = client /\ asked' = asked /\ backlog' = backlog
  BY <1>2 DEF SocketExceptIo, clientVars
<1>8. ControlTyped
  BY <1>1, <1>2, <1>7 DEF TypeOK, ControlTyped
<1>9. ServerOK(c)'
  <2>1. Even(c)' /\ Answered(c)'
    BY <1>3, <1>5, <1>7 DEF Even, Answered
  <2>2. ReadingOK(c)'
    BY <1>5, <1>6, <1>7, <2>1 DEF ReadingOK, ReadOps, e
  <2>3. ServingOK(c)'
    BY <1>2, <1>5, <1>6, <1>7, <2>2 DEF ServingOK, e
  <2>4. ~Fresh(c)'
    BY <1>3, <1>7, FreshKept
  <2>. QED
    BY <1>3, <1>7, <2>1, <2>3, <2>4 DEF ServerOK
<1>10. PcOK'
  BY <1>2, <1>3, <1>7 DEF PcOK
<1>11. \A d \in End : d # ServerEnd(c) => io'[d] = io[d] /\ open'[d] = open[d]
  BY <1>6, <1>7 DEF e
<1>12. \A b \in Conn : b # c => b \notin current /\ b \notin current'
  BY <1>3, <1>7
<1>13. sent' = sent /\ got' = got /\ heard' = heard /\ broken' = broken
  BY <1>7
<1>14. CallersOK'
  BY <1>1, <1>6, <1>7, <1>9, <1>10, <1>11, <1>12, <1>13, OneServed
<1>. QED
  BY <1>6, <1>8, <1>14, InvariantNext

\* The end of serving a connection.
LEMMA LeaveKeeps ==
    ASSUME IInv, pc \in {"serve", "reading", "writing"}, NEW newPc \in {"loop", "threw"}, Leave(newPc),
           io[ServerEnd(Serving)].op # "write",
           newPc = "threw" => io[ServerEnd(Serving)].result \in {"threw", "hungup"}
    PROVE  IInv'
<1>1. TypeOK /\ CallersOK /\ StreamsOK
  BY DEF IInv
<1>2. PICK c \in Conn :
         /\ current = {c} /\ Serving = c /\ ServingOK(c) /\ Answered(c) /\ ~Fresh(c)
         /\ IoOK(ServerEnd(c)) /\ ServerEnd(c) \in End
  BY ServedNow
<1>. DEFINE e == ServerEnd(c)
<1>3. /\ pc' = newPc /\ UNCHANGED <<program, backlog, termRequested, interrupts>> /\ current' = {}
      /\ open' = open \/ open' = [open EXCEPT ![e] = "closed"]
      /\ io' = [io EXCEPT ![e] = Idle]
      /\ UNCHANGED <<wire, broken, sock, interrupt, sent, got, heard, clientVars>>
  BY <1>2 DEF Leave, Set, TakesNote
<1>4. client' = client /\ asked' = asked
  BY <1>3 DEF clientVars
<1>5. SocketsKept
  BY <1>1, <1>2, <1>3, IdleKept
<1>6. io'[e] = Idle /\ \A d \in End : d # e => io'[d] = io[d] /\ open'[d] = open[d]
  BY <1>1, <1>2, <1>3 DEF TypeOK, SocketTypeOK
<1>7. ControlTyped
  BY <1>1, <1>3, <1>4 DEF TypeOK, ControlTyped
<1>8. ServerOK(c)'
  <2>1. Answered(c)'
    BY <1>2, <1>3 DEF Answered
  <2>2. ~Fresh(c)'
    BY <1>2, <1>3, <1>4, FreshKept
  <2>. QED
    BY <1>3, <1>6, <2>1, <2>2 DEF ServerOK
<1>9. (\A b \in Conn : RudeStays(b)) => PcOK'
  <2>1. SUFFICES ASSUME \A b \in Conn : RudeStays(b), newPc = "threw"
                 PROVE  \E b \in Conn : Rude(b)'
    BY <1>3 DEF PcOK
  <2>2. Rude(c)
    BY <1>2, <2>1 DEF ServingOK
  <2>. QED
    BY <2>1, <2>2 DEF RudeStays
<1>10. \A b \in Conn : b # c => b \notin current /\ b \notin current'
  BY <1>2, <1>3
<1>11. CallersOK'
  BY <1>1, <1>3, <1>4, <1>5, <1>6, <1>8, <1>9, <1>10, OneServed
<1>. QED
  BY <1>5, <1>7, <1>11, InvariantNext

\* An operation that has returned is over.
LEMMA Returned ==
    ASSUME IInv, pc \in {"serve", "reading", "writing"}, io[ServerEnd(Serving)].result # "none"
    PROVE  io[ServerEnd(Serving)].op = "none"
  BY ServedNow DEF IoOK

LEMMA LeavingKeeps ==
    ASSUME IInv, RunInterrupted \/ ClientDisconnected \/ ServeThrows
    PROVE  IInv'
<1>1. CASE RunInterrupted
  <2>1. pc = "serve" /\ Leave("loop")
    BY <1>1 DEF RunInterrupted
  <2>2. io[ServerEnd(Serving)].op # "write"
    BY <2>1, ServedNow, IdleType DEF ServingOK, ServeOK
  <2>. QED
    BY <2>1, <2>2, LeaveKeeps
<1>2. CASE ClientDisconnected
  <2>1. pc = "reading" /\ io[ServerEnd(Serving)].result = "eof" /\ Leave("loop")
    BY <1>2 DEF ClientDisconnected, Outcome
  <2>2. io[ServerEnd(Serving)].op # "write"
    BY <2>1, Returned
  <2>. QED
    BY <2>1, <2>2, LeaveKeeps
<1>3. CASE ServeThrows
  <2>1. /\ pc \in {"reading", "writing"} /\ io[ServerEnd(Serving)].result \in {"threw", "hungup"}
        /\ Leave(IF program = "own" THEN "loop" ELSE "threw")
    BY <1>3 DEF ServeThrows, Outcome
  <2>2. io[ServerEnd(Serving)].op # "write"
    BY <2>1, Returned
  <2>. QED
    BY <2>1, <2>2, LeaveKeeps
<1>. QED
  BY <1>1, <1>2, <1>3

LEMMA ProcessCallKeeps ==
    ASSUME IInv, ProcessCall
    PROVE  IInv'
<1>1. TypeOK /\ CallersOK /\ StreamsOK
  BY DEF IInv
<1>2. /\ pc = "reading" /\ pc' = "writing" /\ io[ServerEnd(Serving)].result = "packet"
      /\ StartWrite(ServerEnd(Serving), Answer[io[ServerEnd(Serving)].packet])
      /\ termRequested' = (termRequested \/ io[ServerEnd(Serving)].packet = ShutdownCall)
      /\ SocketExceptIo /\ UNCHANGED <<program, current, backlog, interrupts, clientVars>>
  BY DEF ProcessCall, Outcome
<1>3. PICK c \in Conn :
         /\ current = {c} /\ Serving = c /\ ServingOK(c) /\ Answered(c) /\ ~Fresh(c)
         /\ IoOK(ServerEnd(c)) /\ ServerEnd(c) \in End
  BY <1>2, ServedNow
<1>. DEFINE e == ServerEnd(c)
            p == io[e].packet
<1>4. /\ Owes(c) /\ p = LastCall(c) /\ heard[e] = "flows" /\ open[e] = "open" /\ io[e].op # "write"
  BY <1>2, <1>3 DEF ServingOK, ReadingOK
<1>5. p \in Calls
  <2>1. Prefix(sent[ClientEnd(c)], asked[c])
    BY <1>1, CallerNow
  <2>2. /\ Len(got[e]) \in Nat /\ Len(sent[e]) \in Nat /\ Len(sent[ClientEnd(c)]) \in Nat
        /\ Len(asked[c]) \in Nat /\ Len(sent[ClientEnd(c)]) <= Len(asked[c])
        /\ Len(got[e]) <= Len(sent[ClientEnd(c)])
        /\ Prefix(got[e], sent[ClientEnd(c)])
    BY <1>1, <1>3, <2>1, Lengths
  <2>. DEFINE n == Len(got[e])
  <2>3. n \in Nat /\ n > 0 /\ n <= Len(sent[ClientEnd(c)])
    BY <1>4, <2>2 DEF Owes
  <2>4. n \in 1 .. Len(got[e]) /\ n \in 1 .. Len(sent[ClientEnd(c)]) /\ n \in 1 .. Len(asked[c])
    BY <2>2, <2>3
  <2>5. got[e][n] = sent[ClientEnd(c)][n] /\ sent[ClientEnd(c)][n] = asked[c][n]
    BY <2>1, <2>2, <2>4 DEF Prefix
  <2>6. asked[c] \in Seq(Calls)
    BY <1>1 DEF TypeOK
  <2>7. asked[c][n] \in Calls
    BY <2>4, <2>6
  <2>. QED
    BY <1>4, <2>5, <2>7 DEF LastCall
<1>6. Answer[p] \in Packets
  BY <1>5, CallsAssumption
<1>. HIDE DEF e, p
<1>7. e \in End /\ StartWrite(e, Answer[p])
  BY <1>2, <1>3 DEF e, p
<1>8. /\ SocketsKept
      /\ io'[e].op = "write" /\ io'[e].packet = Answer[p] /\ io'[e].result = "none"
      /\ \A d \in End : d # e => io'[d] = io[d]
  BY <1>1, <1>2, <1>4, <1>6, <1>7, StartWriteKept
<1>9. UNCHANGED <<wire, open, broken, sock, interrupt, sent, got, heard>> /\ current' = current
      /\ client' = client /\ asked' = asked /\ backlog' = backlog
  BY <1>2 DEF SocketExceptIo, clientVars
<1>10. ControlTyped
  <2>1. termRequested' \in BOOLEAN
    BY <1>2
  <2>. QED
    BY <1>1, <1>2, <1>9, <2>1, Zenon DEF TypeOK, ControlTyped
<1>11. ServerOK(c)'
  <2>1. Owes(c)' /\ Answered(c)' /\ LastCall(c)' = LastCall(c)
    BY <1>3, <1>4, <1>9 DEF Owes, Answered, LastCall
  <2>2. WritingOK(c)'
    BY <1>4, <1>8, <1>9, <2>1 DEF WritingOK, e
  <2>3. ServingOK(c)'
    BY <1>2, <1>4, <1>8, <1>9, <2>2 DEF ServingOK, e
  <2>4. ~Fresh(c)'
    BY <1>3, <1>9, FreshKept
  <2>. QED
    BY <1>3, <1>9, <2>1, <2>3, <2>4 DEF ServerOK
<1>12. PcOK'
  BY <1>2, <1>3, <1>9 DEF PcOK
<1>13. \A d \in End : d # ServerEnd(c) => io'[d] = io[d] /\ open'[d] = open[d]
  BY <1>8, <1>9 DEF e
<1>14. \A b \in Conn : b # c => b \notin current /\ b \notin current'
  BY <1>3, <1>9
<1>15. sent' = sent /\ got' = got /\ heard' = heard /\ broken' = broken
  BY <1>9
<1>16. CallersOK'
  BY <1>1, <1>8, <1>9, <1>11, <1>12, <1>13, <1>14, <1>15, OneServed
<1>. QED
  BY <1>8, <1>10, <1>16, InvariantNext

LEMMA ServeOnKeeps ==
    ASSUME IInv, ServeOn
    PROVE  IInv'
<1>1. TypeOK /\ CallersOK /\ StreamsOK
  BY DEF IInv
<1>2. /\ \/ pc = "reading" /\ io[ServerEnd(Serving)].result \in {"nothing", "interrupted"}
         \/ pc = "writing" /\ io[ServerEnd(Serving)].result = "written"
      /\ pc' = "serve" /\ UNCHANGED <<program, backlog, termRequested, interrupts>>
      /\ io' = [io EXCEPT ![ServerEnd(Serving)] = Idle]
      /\ SocketExceptIo /\ UNCHANGED <<current, clientVars>>
  BY DEF ServeOn, Set, Outcome, TakesNote
<1>3. PICK c \in Conn :
         /\ current = {c} /\ Serving = c /\ ServingOK(c) /\ Answered(c) /\ ~Fresh(c)
         /\ IoOK(ServerEnd(c)) /\ ServerEnd(c) \in End
  BY <1>2, ServedNow
<1>. DEFINE e == ServerEnd(c)
<1>4. /\ io' = [io EXCEPT ![e] = Idle] /\ e \in End
      /\ \/ pc = "reading" /\ io[e].result \in {"nothing", "interrupted"}
         \/ pc = "writing" /\ io[e].result = "written"
  BY <1>2, <1>3
<1>5. Even(c) /\ heard[e] = "flows" /\ open[e] = "open" /\ io[e].op = "none"
  BY <1>3, <1>4 DEF ServingOK, ReadingOK, WritingOK, IoOK
<1>. HIDE DEF e
<1>6. UNCHANGED <<wire, open, broken, sock, interrupt, sent, got, heard>> /\ current' = current
      /\ client' = client /\ asked' = asked /\ backlog' = backlog
  BY <1>2 DEF SocketExceptIo, clientVars
<1>7. SocketsKept
  <2>1. io[e].op # "write"
    BY <1>5
  <2>. QED
    BY <1>1, <1>4, <1>6, <2>1, IdleKept
<1>8. io'[e] = Idle /\ \A d \in End : d # e => io'[d] = io[d]
  BY <1>1, <1>4 DEF TypeOK, SocketTypeOK
<1>9. ControlTyped
  BY <1>1, <1>2, <1>6 DEF TypeOK, ControlTyped
<1>10. ServerOK(c)'
  <2>1. Even(c)' /\ Answered(c)'
    BY <1>3, <1>5, <1>6 DEF Even, Answered
  <2>2. ServeOK(c)'
    BY <1>5, <1>6, <1>8, <2>1 DEF ServeOK, e
  <2>3. ServingOK(c)'
    BY <1>2, <1>5, <1>6, <1>8, <2>2, IdleType DEF ServingOK, e
  <2>4. ~Fresh(c)'
    BY <1>3, <1>6, FreshKept
  <2>. QED
    BY <1>3, <1>6, <2>1, <2>3, <2>4 DEF ServerOK
<1>11. PcOK'
  BY <1>2, <1>3, <1>6 DEF PcOK
<1>12. \A d \in End : d # ServerEnd(c) => io'[d] = io[d] /\ open'[d] = open[d]
  BY <1>6, <1>8 DEF e
<1>13. \A b \in Conn : b # c => b \notin current /\ b \notin current'
  BY <1>3, <1>6
<1>14. sent' = sent /\ got' = got /\ heard' = heard /\ broken' = broken
  BY <1>6
<1>15. CallersOK'
  BY <1>1, <1>6, <1>7, <1>10, <1>11, <1>12, <1>13, <1>14, OneServed
<1>. QED
  BY <1>7, <1>9, <1>15, InvariantNext

LEMMA InterruptKeeps ==
    ASSUME IInv, Interrupt
    PROVE  IInv'
<1>1. TypeOK /\ CallersOK /\ StreamsOK
  BY DEF IInv
<1>2. /\ interrupts < MaxInterrupts /\ SetInterrupt /\ interrupts' = interrupts + 1
      /\ pc' = IF pc = "accept" THEN "loop" ELSE pc
      /\ UNCHANGED <<program, current, backlog, termRequested, clientVars>>
      /\ client' = client /\ asked' = asked
  BY DEF Interrupt, clientVars
<1>3. UNCHANGED <<wire, open, broken, sock, sent, got, heard>>
  BY <1>2 DEF SetInterrupt
<1>4. /\ SocketsKept
      /\ \A d \in End : /\ io'[d].result = io[d].result /\ io'[d].packet = io[d].packet
                        /\ \/ io'[d].op = io[d].op
                           \/ io[d].op = "poll" /\ io'[d].op = "recv"
                        /\ d[2] # "server" \/ io[d].op # "poll" => io'[d] = io[d]
  BY <1>1, <1>2, InterruptKept
<1>5. ControlTyped
  <2>1. MaxInterrupts \in Nat
    BY CallsAssumption
  <2>2. interrupts' \in 0 .. MaxInterrupts
    BY <1>1, <1>2, <2>1 DEF TypeOK
  <2>3. pc' \in {"loop", "accept", "serve", "reading", "writing", "ended", "threw"}
    BY <1>1, <1>2 DEF TypeOK
  <2>. QED
    BY <1>1, <1>2, <2>2, <2>3, Zenon DEF TypeOK, ControlTyped
<1>6. \A b \in Conn : RudeStays(b)
  BY <1>2, <1>3, RudeKept
<1>7. ASSUME NEW b \in Conn PROVE ClientOK(b)'
  <2>1. ClientEnd(b) \in End /\ ClientEnd(b)[2] = "client"
    BY Ends
  <2>2. io'[ClientEnd(b)] = io[ClientEnd(b)]
    BY <1>4, <2>1
  <2>3. ClientSame(b)
    BY <1>2, <1>3, <2>2 DEF ClientSame
  <2>. QED
    BY <1>1, <1>4, <2>3, CallerNow, CutStays, ClientKept
<1>8. ASSUME NEW b \in Conn PROVE ServerOK(b)'
  <2>1. ServerEnd(b) \in End /\ ServerOK(b) /\ (Fresh(b)' => Fresh(b))
    BY <1>1, <1>2, Ends, CallerNow, FreshKept
  <2>2. CASE io'[ServerEnd(b)] = io[ServerEnd(b)]
    <3>1. ServerSame(b)
      BY <1>3, <2>2 DEF ServerSame
    <3>2. b \in current => pc' = pc
      BY <1>2, <2>1 DEF ServerOK, ServingOK
    <3>3. b \in current' <=> b \in current
      BY <1>2
    <3>. QED
      BY <1>6, <2>1, <3>1, <3>2, <3>3, ServerKept
  <2>3. CASE io'[ServerEnd(b)] # io[ServerEnd(b)]
    <3>1. io[ServerEnd(b)].op = "poll"
      BY <1>4, <2>1, <2>3
    <3>2. b \in current /\ ServingOK(b) /\ pc \in {"reading", "writing"} /\ ~Fresh(b)
      BY <1>1, <3>1, IdleType, Served
    <3>3. pc = "reading" /\ ReadingOK(b) /\ open[ServerEnd(b)] = "open"
      BY <3>1, <3>2 DEF ServingOK, WritingOK
    <3>4. io'[ServerEnd(b)].op # "write"
      BY <1>4, <2>1, <3>1
    <3>5. /\ io'[ServerEnd(b)].result = io[ServerEnd(b)].result
          /\ io'[ServerEnd(b)].packet = io[ServerEnd(b)].packet
      BY <1>4, <2>1
    <3>6. ReadingOK(b)'
      BY <1>3, <3>3, <3>4, <3>5 DEF ReadingOK, Even, Owes, LastCall
    <3>7. ServingOK(b)'
      BY <1>2, <1>3, <1>6, <3>2, <3>3, <3>5, <3>6 DEF ServingOK, RudeStays
    <3>8. Answered(b)'
      BY <1>3, <2>1 DEF ServerOK, Answered
    <3>. QED
      BY <1>2, <2>1, <3>2, <3>7, <3>8 DEF ServerOK
  <2>. QED
    BY <2>2, <2>3
<1>9. PcOK'
  <2>1. PcOK
    BY <1>1 DEF CallersOK
  <2>2. CASE pc' = pc
    BY <1>2, <1>6, <2>1, <2>2, PcKept
  <2>3. CASE pc' = "loop"
    BY <2>3 DEF PcOK
  <2>. QED
    BY <1>2, <2>2, <2>3
<1>10. BacklogOK'
  BY <1>1, <1>2, BacklogKept DEF CallersOK
<1>11. CallersOK'
  BY <1>7, <1>8, <1>9, <1>10, Zenon DEF CallersOK
<1>. QED
  BY <1>4, <1>5, <1>11, InvariantNext

LEMMA ResumeKeeps ==
    ASSUME IInv, Resume
    PROVE  IInv'
<1>1. TypeOK
  BY DEF IInv
<1>2. /\ UNCHANGED <<wire, open, broken, sock, io, sent, got, heard>> /\ interrupt' \in BOOLEAN
      /\ UNCHANGED <<program, current, backlog, termRequested, interrupts>>
      /\ client' = client /\ asked' = asked
      /\ pc' = IF pc = "ended" THEN "loop" ELSE pc
  BY DEF Resume, clientVars
<1>3. ControlTyped
  BY <1>1, <1>2 DEF TypeOK, ControlTyped
<1>. QED
  BY <1>2, <1>3, QuietKeeps

LEMMA TerminateKeeps ==
    ASSUME IInv, Terminate
    PROVE  IInv'
<1>1. TypeOK
  BY DEF IInv
<1>2. /\ UNCHANGED <<wire, open, broken, sock, io, sent, got, heard>> /\ interrupt' = interrupt
      /\ UNCHANGED <<program, pc, current, backlog, interrupts>>
      /\ client' = client /\ asked' = asked /\ termRequested' = TRUE
  BY DEF Terminate, SocketUnchanged, socketVars, clientVars
<1>3. ControlTyped /\ interrupt' \in BOOLEAN
  BY <1>1, <1>2 DEF TypeOK, SocketTypeOK, ControlTyped
<1>. QED
  BY <1>2, <1>3, QuietKeeps

LEMMA StutterKeeps ==
    ASSUME IInv, UNCHANGED vars
    PROVE  IInv'
<1>1. TypeOK
  BY DEF IInv
<1>2. /\ UNCHANGED <<wire, open, broken, sock, io, sent, got, heard>> /\ interrupt' = interrupt
      /\ UNCHANGED <<program, pc, current, backlog, termRequested, interrupts>>
      /\ client' = client /\ asked' = asked
  BY DEF vars, socketVars, serverVars, clientVars
<1>3. ControlTyped /\ interrupt' \in BOOLEAN
  BY <1>1, <1>2 DEF TypeOK, SocketTypeOK, ControlTyped
<1>. QED
  BY <1>2, <1>3, QuietKeeps
-----------------------------------------------------------------------------
(* The theorems. *)

LEMMA NewReader ==
    NewSocket \in Readers /\ NewSocket.readBuffer = <<>> /\ ~NewSocket.eof /\ NothingAccumulated(NewSocket)
<1>1. <<>> \in Seq(Byte) /\ <<>> \in Seq(Seq(Byte))
  OBVIOUS
<1>2. NewSocket = Socket(<<>>, <<>>, FALSE, FALSE, <<>>, FALSE)
  BY DEF NewSocket, Socket
<1>3. Socket(<<>>, <<>>, FALSE, FALSE, <<>>, FALSE) \in Readers
  BY <1>1, SocketReader
<1>4. NewSocket.readBuffer = <<>> /\ ~NewSocket.eof /\ NothingAccumulated(NewSocket)
  BY DEF NewSocket, NothingAccumulated
<1>. QED
  BY <1>2, <1>3, <1>4

LEMMA NewStream ==
    ASSUME Init, NEW e \in End
    PROVE  StreamOK(e) /\ IoOK(e) /\ ~MidPacket(e)
<1>1. /\ Peer(e) \in End /\ wire[Peer(e)] = <<>> /\ sock[e] = NewSocket /\ io[Peer(e)] = Idle
      /\ io[e] = Idle /\ sent[Peer(e)] = <<>> /\ got[e] = <<>>
  BY Peers DEF Init, SocketInit
<1>2. <<>> \in Seq(Byte) /\ <<>> \in Seq(Seq(Byte)) /\ <<>> \o <<>> = <<>> /\ Len(<<>>) = 0
  OBVIOUS
<1>3. NewSocket \in Readers /\ NewSocket.readBuffer = <<>> /\ ~NewSocket.eof /\ NothingAccumulated(NewSocket)
  BY NewReader
<1>4. ProcessBytesRead(NewSocket, <<>>) = Continue(NewSocket)
  BY <1>3, ReadNone
<1>5. Continue(NewSocket).s = NewSocket /\ ~Continue(NewSocket).threw
  BY DEF Continue
<1>6. Carries(sock[e], wire[Peer(e)], got[e], sent[Peer(e)], io[Peer(e)], open[Peer(e)])
  BY <1>1, <1>2, <1>3, <1>4, <1>5, IdleType DEF Carries
<1>7. Prefix(got[e] \o sock[e].readBuffer, sent[Peer(e)])
  BY <1>1, <1>2, <1>3 DEF Prefix
<1>8. ~MidPacket(e)
  BY <1>1, <1>3, <1>4, <1>5 DEF MidPacket
<1>. QED
  BY <1>1, <1>3, <1>6, <1>7, <1>8, IdleType DEF StreamOK, FlowOK, OrderOK, EofOK, IoOK, ReadOps

\* The initial states are typed, their streams are empty and nobody calls.
LEMMA InitInvariant == Init => IInv
<1>. SUFFICES ASSUME Init PROVE IInv
  OBVIOUS
<1>1. <<>> \in Seq(Byte) /\ <<>> \in Seq(Seq(Byte)) /\ <<>> \in Seq(Packets) /\ Len(<<>>) = 0
      /\ <<>> \in Seq(Conn) /\ <<>> \in Seq(Calls)
  OBVIOUS
<1>2. /\ Idle \in IoType /\ NewSocket \in SockType
      /\ Len(NewSocket.escAccum) <= 3 /\ (NewSocket.escAccum # <<>> => NewSocket.inEscapeSeq)
  BY NewReader, IdleType DEF Readers, ReaderOK
<1>3. SocketTypeOK
  <2>1. SocketInit
    BY DEF Init
  <2>2. Len(<<>>) <= KernelSize
    BY <1>1, Sizes
  <2>. QED
    BY <1>1, <1>2, <2>1, <2>2 DEF SocketInit, SocketTypeOK
<1>4. TypeOK
  <2>1. 0 \in 0 .. MaxInterrupts
    BY CallsAssumption
  <2>. QED
    BY <1>1, <1>3, <2>1 DEF Init, TypeOK
<1>5. StreamsOK
  BY NewStream, Zenon DEF StreamsOK, StreamOK
<1>6. ASSUME NEW c \in Conn PROVE ServerOK(c) /\ ClientOK(c)
  <2>1. /\ ClientEnd(c) \in End /\ ServerEnd(c) \in End
        /\ client[c] = "new" /\ asked[c] = <<>> /\ current = {}
        /\ \A e \in End : /\ io[e] = Idle /\ got[e] = <<>> /\ sent[e] = <<>>
                          /\ open[e] = "open" /\ heard[e] = "flows"
    BY Ends DEF Init, SocketInit
  <2>2. Answered(c)
    BY <1>1, <2>1 DEF Answered
  <2>3. ServerOK(c)
    BY <2>1, <2>2 DEF ServerOK, FreshOK
  <2>4. Prefix(sent[ClientEnd(c)], asked[c])
    BY <2>1 DEF Prefix
  <2>5. ClientOK(c)
    BY <2>1, <2>4 DEF ClientOK, NewOK, CutOK
  <2>. QED
    BY <2>3, <2>5
<1>7. PcOK /\ BacklogOK
  BY DEF Init, PcOK, BacklogOK
<1>. QED
  BY <1>4, <1>5, <1>6, <1>7, Zenon DEF IInv, CallersOK

\* Every step keeps the invariant.
LEMMA NextInvariant == IInv /\ [Next]_vars => IInv'
<1>. SUFFICES ASSUME IInv, [Next]_vars PROVE IInv'
  OBVIOUS
<1>1. ASSUME ServerStep PROVE IInv'
  BY <1>1, LoopKeeps, AcceptKeeps, RunOnceKeeps, LeavingKeeps, ProcessCallKeeps, ServeOnKeeps
     DEF ServerStep
<1>2. ASSUME NEW c \in Conn, ClientStep(c) PROVE IInv'
  BY <1>2, ConnectKeeps, SendCallKeeps, RecvRespKeeps, ClientReturnsKeeps, ShutDownKeeps, HangupKeeps
     DEF ClientStep
<1>3. ASSUME NEW c \in Conn, ConnectionBreaks(c) PROVE IInv'
  BY <1>3, BreaksKeeps
<1>4. ASSUME NEW e \in End, SocketStep(e) PROVE IInv'
  BY <1>4, SocketStepKeeps
<1>. QED
  BY <1>1, <1>2, <1>3, <1>4, InterruptKeeps, ResumeKeeps, TerminateKeeps, StutterKeeps DEF Next

\* The inductive invariant holds in every reachable state, for any connections,
\* packets, windows and bounds, and any size of the kernel's and the reader's
\* buffers.
THEOREM PstreamInvariance == Spec => []IInv
  BY InitInvariant, NextInvariant, PTL DEF Spec

\* TypeOK: in every reachable state each variable of the server, of its clients
\* and of the packet sockets has its type, the kernel holds no more than it can,
\* the server serves at most one connection, and a reader outside an escape
\* sequence has no part of a control word (packetSocket_impl, runSerial()).
THEOREM PstreamTypeCorrect == Spec => []TypeOK
<1>1. IInv => TypeOK
  BY DEF IInv
<1>. QED
  BY <1>1, PstreamInvariance, PTL

\* Responses are a prefix of the answers sent, these are answers to a prefix of
\* the calls read, and the calls read are a prefix of the calls made.
LEMMA InvariantMatches == IInv => ResponsesMatchCalls
<1>. SUFFICES ASSUME IInv, NEW c \in Conn
              PROVE  /\ Len(got[ClientEnd(c)]) <= Len(asked[c])
                     /\ \A i \in DOMAIN got[ClientEnd(c)] : got[ClientEnd(c)][i] = Answer[asked[c][i]]
  BY DEF ResponsesMatchCalls
<1>1. TypeOK /\ StreamsOK /\ CallersOK
  BY DEF IInv
<1>2. Answered(c) /\ Prefix(sent[ClientEnd(c)], asked[c])
  BY <1>1, CallerNow
<1>. DEFINE r == got[ClientEnd(c)]
            t == sent[ServerEnd(c)]
            g == got[ServerEnd(c)]
            a == sent[ClientEnd(c)]
            q == asked[c]
<1>3. /\ Len(r) \in Nat /\ Len(t) \in Nat /\ Len(g) \in Nat /\ Len(a) \in Nat /\ Len(q) \in Nat
      /\ Len(r) <= Len(t) /\ Len(t) <= Len(g) /\ Len(g) <= Len(a) /\ Len(a) <= Len(q)
      /\ Prefix(r, t) /\ Prefix(g, a)
  BY <1>1, <1>2, Lengths
<1>4. DOMAIN r = 1 .. Len(r)
  BY <1>1, Ends, SocketTypes
<1>5. Prefix(a, q) /\ \A i \in 1 .. Len(t) : t[i] = Answer[g[i]]
  BY <1>2 DEF Answered
<1>. HIDE DEF r, t, g, a, q
<1>6. \A i \in 1 .. Len(r) : /\ i \in 1 .. Len(t) /\ i \in 1 .. Len(g) /\ i \in 1 .. Len(a)
  BY <1>3
<1>7. \A i \in 1 .. Len(r) : r[i] = t[i] /\ t[i] = Answer[g[i]] /\ g[i] = a[i] /\ a[i] = q[i]
  BY <1>3, <1>5, <1>6 DEF Prefix
<1>8. Len(r) <= Len(q) /\ \A i \in DOMAIN r : r[i] = Answer[q[i]]
  BY <1>3, <1>4, <1>7
<1>. QED
  BY <1>8 DEF r, q

\* ResponsesMatchCalls: what a client reads are the answers to its own calls, in
\* their order, one for each (serverPstreamConn's processCall() and run(), over
\* packetSocket_impl's writeWait() and read()): neither interrupted reads, reads
\* that do not wait, pipelined calls nor clients served before mix them up.
THEOREM ResponsesAreThoseOfTheCalls == Spec => []ResponsesMatchCalls
  BY PstreamInvariance, InvariantMatches, PTL

\* OnlyRudeClientsEndServer: the exception that leaves runSerial() is due to a
\* broken connection or to a client that closed with a call outstanding, never
\* to one that shut down or closed when it had all its responses
\* (verifyNothingAccumulated() and the send() of writeWait()).
THEOREM OrderlyClientsAreSafe == Spec => []OnlyRudeClientsEndServer
<1>1. IInv => OnlyRudeClientsEndServer
  BY DEF IInv, CallersOK, PcOK, Rude, OnlyRudeClientsEndServer
<1>. QED
  BY <1>1, PstreamInvariance, PTL
-----------------------------------------------------------------------------
(* The refinement: what the sockets do with each direction of a connection.  *)

Unseen == UNCHANGED <<sent, got, heard>>

\* The packet a reader gets is the next one of those written.
LEMMA TakenNext ==
    ASSUME NEW g \in Seq(Seq(Byte)), NEW p \in Seq(Byte), NEW b \in Seq(Seq(Byte)), NEW t,
           Prefix(Append(g, p) \o b, t), Len(t) \in Nat
    PROVE  Len(g) < Len(t) /\ p = t[Len(g) + 1]
<1>. DEFINE u == Append(g, p) \o b
<1>1. Len(g) \in Nat /\ Len(u) \in Nat /\ Len(g) + 1 <= Len(u) /\ u[Len(g) + 1] = p
  OBVIOUS
<1>. HIDE DEF u
<1>2. Prefix(u, t)
  BY DEF u
<1>3. Len(g) + 1 \in 1 .. Len(u)
  BY <1>1
<1>4. Len(u) <= Len(t) /\ \A i \in 1 .. Len(u) : u[i] = t[i]
  BY <1>2 DEF Prefix
<1>5. u[Len(g) + 1] = t[Len(g) + 1]
  BY <1>3, <1>4, Zenon
<1>6. Len(g) < Len(t)
  BY <1>1, <1>4
<1>. QED
  BY <1>1, <1>5, <1>6, Zenon

LEMMA ReadImplements ==
    ASSUME IInv, NEW e \in End, ReadStep(e)
    PROVE  Channel!Next \/ Unseen
<1>1. TypeOK /\ StreamsOK
  BY DEF IInv
<1>2. PICK s, w, g, h, x : ReadIs(e, s, w, g, h, x)
  BY DEF ReadStep
<1>3. /\ ReadTyped(e, s, w, g, h, x) /\ StreamIs(e, s, w, g, h) /\ ReadOutcome(e, g, h, x)
      /\ ReadMakes(e, s, w, g, h, x)
  BY <1>2, Zenon DEF ReadIs
<1>4. io[e].op \in ReadOps /\ heard[e] = "flows"
  BY <1>1 DEF ReadStep, StreamsOK, IoOK
<1>5. /\ got' = [got EXCEPT ![e] = g] /\ heard' = [heard EXCEPT ![e] = h] /\ sent' = sent
  BY <1>3 DEF ReadMakes
<1>6. /\ got \in [End -> Seq(Seq(Byte))] /\ heard \in [End -> {"flows", "ended", "failed"}]
      /\ sent \in [End -> Seq(Packets)]
  BY <1>1 DEF TypeOK, SocketTypeOK
<1>7. /\ Peer(e) \in End /\ Peer(Peer(e)) = e /\ \A d \in End : Peer(d) \in End /\ Peer(Peer(d)) = d
  BY Peers
<1>. DEFINE w0 == Peer(e)
            taken == [d \in End |-> got[Peer(d)]]
            state == [d \in End |-> heard[Peer(d)]]
            taken1 == [d \in End |-> got'[Peer(d)]]
            state1 == [d \in End |-> heard'[Peer(d)]]
<1>8. /\ taken1 = [taken EXCEPT ![w0] = g] /\ state1 = [state EXCEPT ![w0] = h]
      /\ taken[w0] = got[e] /\ state[w0] = heard[e]
  BY <1>5, <1>6, <1>7
<1>9. CASE g = got[e] /\ h = heard[e]
  BY <1>5, <1>6, <1>9 DEF Unseen
<1>10. CASE g = Append(got[e], x.packet) /\ h = heard[e] /\ x \in IoType
  <2>1. Prefix(g \o s.readBuffer, sent[w0]) /\ s.readBuffer \in Seq(Seq(Byte))
    BY <1>3, ReaderTypes DEF StreamIs, ReadTyped
  <2>2. got[e] \in Seq(Seq(Byte)) /\ x.packet \in Seq(Byte)
    BY <1>6, <1>10 DEF IoType
  <2>3. Len(got[e]) < Len(sent[w0]) /\ x.packet = sent[w0][Len(got[e]) + 1]
    <3>1. Len(sent[w0]) \in Nat
      BY <1>6, <1>7
    <3>. QED
      BY <1>10, <2>1, <2>2, <3>1, TakenNext
  <2>4. state1 = state
    BY <1>7, <1>8, <1>10
  <2>. HIDE DEF taken, state, taken1, state1, w0
  <2>5. /\ state[w0] = "flows" /\ Len(taken[w0]) < Len(sent[w0])
        /\ taken1 = [taken EXCEPT ![w0] = Append(@, sent[w0][Len(@) + 1])]
        /\ sent' = sent /\ state1 = state
    <3>1. g = Append(taken[w0], sent[w0][Len(taken[w0]) + 1])
      BY <1>8, <1>10, <2>3
    <3>. QED
      BY <1>4, <1>5, <1>8, <2>3, <2>4, <3>1
  <2>6. Channel!Take(w0)
    BY <2>5, Zenon DEF Channel!Take, taken, state, taken1, state1
  <2>. QED
    BY <1>7, <2>6 DEF Channel!Next, w0
<1>11. CASE g = got[e] /\ h = "failed"
  <2>1. taken1 = taken
    BY <1>6, <1>7, <1>8, <1>11
  <2>. HIDE DEF taken, state, taken1, state1
  <2>2. state[w0] = "flows" /\ state1 = [state EXCEPT ![w0] = "failed"] /\ sent' = sent
    BY <1>4, <1>5, <1>8, <1>11
  <2>3. Channel!Fail(w0)
    BY <2>1, <2>2, Zenon DEF Channel!Fail, taken, state, taken1, state1
  <2>. QED
    BY <1>7, <2>3 DEF Channel!Next
<1>12. CASE g = got[e] /\ h = "ended" /\ got[e] = sent[Peer(e)]
  <2>1. taken1 = taken
    BY <1>6, <1>7, <1>8, <1>12
  <2>. HIDE DEF taken, state, taken1, state1
  <2>2. /\ state[w0] = "flows" /\ taken[w0] = sent[w0]
        /\ state1 = [state EXCEPT ![w0] = "ended"] /\ sent' = sent
    BY <1>4, <1>5, <1>8, <1>12
  <2>3. Channel!End(w0)
    BY <2>1, <2>2, Zenon DEF Channel!End, taken, state, taken1, state1
  <2>. QED
    BY <1>7, <2>3 DEF Channel!Next
<1>13. x \in IoType
  BY <1>3 DEF ReadTyped
<1>. QED
  BY <1>3, <1>9, <1>10, <1>11, <1>12, <1>13 DEF ReadOutcome

LEMMA WriteImplements ==
    ASSUME IInv, NEW e \in End, WriteStep(e)
    PROVE  Channel!Next \/ Unseen
<1>1. TypeOK /\ StreamsOK
  BY DEF IInv
<1>2. PICK w, t, x : WriteIs(e, w, t, x)
  BY DEF WriteStep
<1>3. WriteOutcome(e, t, x) /\ WriteMakes(e, w, t, x)
  BY <1>2, Zenon DEF WriteIs
<1>4. sent' = [sent EXCEPT ![e] = t] /\ got' = got /\ heard' = heard
  BY <1>3 DEF WriteMakes
<1>5. sent \in [End -> Seq(Packets)] /\ io[e].packet \in Packets
  BY <1>1 DEF TypeOK, SocketTypeOK, StreamsOK, IoOK, WriteStep
<1>6. CASE t = sent[e]
  BY <1>4, <1>5, <1>6 DEF Unseen
<1>7. CASE t = Append(sent[e], io[e].packet)
  <2>1. sent' = [sent EXCEPT ![e] = Append(@, io[e].packet)]
    BY <1>4, <1>5, <1>7
  <2>2. Channel!Write(e, io[e].packet)
    BY <1>4, <2>1, Zenon DEF Channel!Write
  <2>. QED
    BY <1>5, <2>2 DEF Channel!Next
<1>. QED
  BY <1>3, <1>6, <1>7 DEF WriteOutcome

\* No other step is seen in a channel.
LEMMA OthersUnseen ==
    ASSUME [Next]_vars, ~\E e \in End : SocketStep(e)
    PROVE  Unseen
<1>1. CASE ServerStep
  BY <1>1 DEF ServerStep, Loop, Accept, RunOnce, RunInterrupted, ProcessCall, ServeOn,
     ClientDisconnected, ServeThrows, Leave, SocketUnchanged, SocketExceptIo, socketVars, Unseen
<1>2. CASE Interrupt \/ Resume \/ Terminate
  BY <1>2 DEF Interrupt, Resume, Terminate, SetInterrupt, SocketUnchanged, socketVars, Unseen
<1>3. CASE \E c \in Conn : ClientStep(c) \/ ConnectionBreaks(c)
  BY <1>3 DEF ClientStep, Connect, SendCall, RecvResp, ClientReturns, ShutDown, Hangup, Shut, Close,
     ConnectionBreaks, Break, SocketExceptIo, socketVars, Unseen
<1>4. CASE UNCHANGED vars
  BY <1>4 DEF vars, socketVars, Unseen
<1>. QED
  BY <1>1, <1>2, <1>3, <1>4 DEF Next

LEMMA InitImplements == Init => Channel!Init
<1>. SUFFICES ASSUME Init PROVE Channel!Init
  OBVIOUS
<1>1. /\ sent = [e \in End |-> <<>>] /\ got = [e \in End |-> <<>>] /\ heard = [e \in End |-> "flows"]
  BY DEF Init, SocketInit
<1>2. \A w \in End : Peer(w) \in End
  BY Peers
<1>3. /\ [w \in End |-> got[Peer(w)]] = [w \in End |-> <<>>]
      /\ [w \in End |-> heard[Peer(w)]] = [w \in End |-> "flows"]
  BY <1>1, <1>2
<1>. QED
  BY <1>1, <1>3, Zenon DEF Channel!Init

LEMMA StepImplements == IInv /\ [Next]_vars => [Channel!Next]_Channel!vars
<1>. SUFFICES ASSUME IInv, [Next]_vars PROVE [Channel!Next]_Channel!vars
  OBVIOUS
<1>1. Channel!Next \/ Unseen
  <2>1. CASE \E e \in End : SocketStep(e)
    <3>1. PICK e \in End : SocketStep(e)
      BY <2>1
    <3>2. TypeOK /\ StreamsOK /\ Progress(e)
      BY <3>1 DEF IInv, SocketStep
    <3>3. ReadStep(e) \/ WriteStep(e)
      BY <3>2, SocketSteps
    <3>. QED
      BY <3>3, ReadImplements, WriteImplements
  <2>2. CASE ~\E e \in End : SocketStep(e)
    BY <2>2, OthersUnseen
  <2>. QED
    BY <2>1, <2>2
<1>2. Unseen => UNCHANGED Channel!vars
  BY DEF Unseen, Channel!vars
<1>. QED
  BY <1>1, <1>2, Zenon

\* ImplementsPacketChannel: each direction of each connection, with its bytes,
\* pieces, interruptions and waits, is a PacketChannel: every step of the program
\* is a step of one channel (a packet written whole, the next packet taken, the
\* end of file when nothing is missing, an error) or is not seen in any.
THEOREM SocketsAreChannels == Spec => ImplementsPacketChannel
<1>1. Spec => []IInv
  BY PstreamInvariance
<1>. QED
  BY <1>1, InitImplements, StepImplements, PTL DEF Spec, ImplementsPacketChannel, Channel!Spec
==============================================================================
