--------------------------- MODULE MCAbyssSession ---------------------------
(* Clients for AbyssSession: their streams, built from what they mean. *)
EXTENDS AbyssSession

LOCAL INSTANCE SequencesExt

W(k, v) == <<[k |-> k, v |-> v]>>
CrLf == W("CR", 0) \o W("LF", 0)
Fold == CrLf \o W("SP", 0)
Lf == W("LF", 0)

RequestLine11(method, uri) == W(method, 0) \o W(uri, 0) \o W("version", 11) \o CrLf
RequestLineOf(method, uri, v) == W(method, 0) \o W(uri, 0) \o W("version", v) \o CrLf
Field(name, v) == W(name, 0) \o W("value", v) \o CrLf
EmptyField(name) == W(name, 0) \o CrLf
FoldedField(name, v) == W(name, 0) \o Fold \o W("value", v) \o CrLf
Data(n) == [i \in 1 .. n |-> [k |-> "data", v |-> i]]
\* A body whose bytes look like line ends.
OddData == W("data", 1) \o CrLf
Chunk(data) == [line |-> W("size", Len(data)) \o CrLf, data |-> data]
ExtendedChunk(data) == [line |-> W("size", Len(data)) \o W("extension", 0) \o CrLf, data |-> data]
LastChunk == Chunk(<<>>)
\* A chunk header without a size.
Sizeless(header) == [line |-> header, data |-> <<>>]
InChunks(cs) == FlattenSeq([k \in DOMAIN cs |-> cs[k].line \o cs[k].data \o CrLf])

\* A request: empty lines before it, its header without the final empty line,
\* its body as it is and as it is sent, plain or in the chunks cs.
Req(lead, head, data, wire) ==
    [lead |-> lead, head |-> head, body |-> data, wire |-> wire, expects |-> FALSE, cs |-> <<>>]
ReqInChunks(head, cs) ==
    [Req(<<>>, head, FlattenSeq([k \in DOMAIN cs |-> cs[k].data]), InChunks(cs)) EXCEPT !.cs = cs]
NoBody(head) == Req(<<>>, head, <<>>, <<>>)
Expecting(r) == [r EXCEPT !.expects = TRUE]

Encoded(r) == r.lead \o r.head \o CrLf \o r.wire
StreamOf(rs) == FlattenSeq([i \in DOMAIN rs |-> Encoded(rs[i])])
Meaning(rs, i) ==
    LET before == Len(StreamOf(SubSeq(rs, 1, i - 1)))
        to == before + Len(Encoded(rs[i]))
        head == to - Len(rs[i].wire)
        at(k) == head + Len(InChunks(SubSeq(rs[i].cs, 1, k - 1)))
    IN  [from |-> before + Len(rs[i].lead), head |-> head, to |-> to,
         body |-> rs[i].body, expects |-> rs[i].expects,
         chunks |-> [k \in DOMAIN rs[i].cs |->
             [at |-> at(k), data |-> at(k) + Len(rs[i].cs[k].line),
              before |-> Len(FlattenSeq([h \in 1 .. k - 1 |-> rs[i].cs[h].data]))]]]
Client(rs, pipelines) ==
    [stream |-> StreamOf(rs), pipelines |-> pipelines, oneLine |-> FALSE,
     requests |-> [i \in DOMAIN rs |-> Meaning(rs, i)]]

Call(n) == Req(<<>>, RequestLine11("POST", "/RPC2") \o Field("content-length", n), Data(n), Data(n))
FoldedCall == Req(CrLf, RequestLine11("POST", "/RPC2") \o FoldedField("content-length", 3), OddData, OddData)
Options == NoBody(RequestLine11("OPTIONS", "/RPC2"))
Chunked(head) ==
    ReqInChunks(RequestLine11("POST", "/cpp") \o head,
                <<Chunk(OddData), ExtendedChunk(Data(2)), LastChunk>>)
Upload(n) == Req(<<>>, RequestLine11("PUT", "/cpp") \o Field("content-length", n), Data(n), Data(n))

GoodClients ==
    {Client(<<Call(2), Call(1), Options>>, TRUE),
     Client(<<FoldedCall, Call(1)>>, FALSE),
     Client(<<Chunked(Field("transfer-encoding", 1)), Options>>, FALSE),
     Client(<<Expecting(Chunked(FoldedField("transfer-encoding", 1) \o Field("expect", 1)))>>, FALSE),
     Client(<<Expecting(Req(<<>>, RequestLine11("POST", "/RPC2") \o Field("content-length", 2) \o Field("expect", 1), Data(2), Data(2))), Options>>, FALSE),
     Client(<<Upload(3), NoBody(RequestLine11("GET", "/cpp"))>>, FALSE),
     Client(<<NoBody(RequestLineOf("OPTIONS", "/RPC2", 10) \o Field("connection", 1)), NoBody(RequestLine11("OPTIONS", "/RPC2") \o Field("connection", 0) \o Field("user-agent", 1))>>, TRUE)}

ASSUME GoodClientsAreProper == \A c \in GoodClients : Proper(c)

\* Requests that are refused, each for another reason, and fields without value.
RefusedClients ==
    {Client(<<NoBody(h)>>, FALSE) : h \in
        {RequestLineOf("POST", "/RPC2", 20), RequestLine11("GET", "/RPC2"),
         RequestLine11("POST", "/RPC2"), RequestLine11("POST", "/elsewhere"),
         RequestLine11("POST", "/RPC2") \o Field("content-length", 0),
         RequestLine11("POST", "/RPC2") \o EmptyField("content-length"),
         RequestLine11("POST", "/cpp") \o EmptyField("content-length"),
         RequestLine11("POST", "/cpp") \o EmptyField("transfer-encoding"),
         RequestLine11("OPTIONS", "/RPC2") \o EmptyField("connection") \o EmptyField("user-agent"),
         RequestLine11("POST", "/cpp") \o Field("transfer-encoding", 2),
         RequestLine11("POST", "/cpp") \o W("word", 0) \o CrLf,
         W("word", 0) \o CrLf, W("SP", 0) \o W("word", 0) \o CrLf}}
    \cup
    {Client(<<Req(<<>>, RequestLine11("POST", "/cpp") \o Field("transfer-encoding", 1), Data(1), w)>>, FALSE) : w \in
        {W("word", 0) \o CrLf, CrLf, W("size", 1) \o W("word", 0) \o CrLf,
         W("size", 1) \o CrLf \o W("data", 1) \o W("data", 2) \o CrLf,
         [i \in 1 .. 20 |-> [k |-> "extension", v |-> 0]]}}
    \cup {Client(<<Call(9), Options>>, TRUE)}

\* Clients whose last chunk has no size, in an otherwise empty line, in a line
\* of an extension alone: what they have sent by then is what they mean.
ChunksEndedBy(header) ==
    ReqInChunks(RequestLine11("POST", "/cpp") \o Field("transfer-encoding", 1),
                <<Chunk(Data(2)), Sizeless(header)>>)
SizelessClients ==
    {Client(<<ChunksEndedBy(header), Options>>, FALSE) :
        header \in {Lf, W("extension", 0) \o CrLf}}

OneLineClients ==
    {[Client(<<NoBody(W("OPTIONS", 0) \o W("/RPC2", 0))>>, FALSE) EXCEPT !.oneLine = TRUE]}

AllClients == GoodClients \cup RefusedClients \cup OneLineClients \cup SizelessClients

\* A call that names its user agent and has a body longer than the header.
AgentClients ==
    {Client(<<Req(<<>>, RequestLine11("POST", "/RPC2") \o Field("user-agent", 1) \o Field("content-length", 8), Data(8), Data(8))>>, FALSE)}
=============================================================================
