---------------------------- MODULE AbyssSession ----------------------------
(* What one thread of the Abyss server does with the bytes of its            *)
(* connection: serverFunc() waits for a request, SessionReadRequest() takes  *)
(* the header out of the connection buffer line by line, a handler takes the *)
(* body out of it, plain or chunked, refilling it as it goes, and what is    *)
(* left in the buffer is the beginning of the next request.                  *)
(*                                                                           *)
(* A client's bytes are abstracted to tokens: line ends, a leading blank,    *)
(* words (a method, a field's name, a field's value, a chunk's size) and     *)
(* body bytes, each of which takes one place in the buffer.  A position is   *)
(* the number of tokens of the client's stream before it, so the buffer      *)
(* holds the tokens base+1..bufferend and the code's index into it is the    *)
(* position less base.  How the stream is cut into pieces is the client's    *)
(* and the network's choice.  Which thread runs this, and termination, are   *)
(* in AbyssServer.                                                           *)
EXTENDS Naturals, Sequences, FiniteSets, RequestGrammar

CONSTANTS
    Clients,        \* what a client may send, see ClientType
    BufferSize,     \* BUFFER_SIZE
    KeepaliveMax,   \* srvP->keepalivemaxconn
    MaxRead,        \* 'max' of readSomeRequestBody(), the handler's choice
    XmlSizeLimit    \* xmlrpc_limit_get(XMLRPC_XML_SIZE_LIMIT_ID)

\* The words the code tells apart; "word" is any other.
Methods == {"OPTIONS", "GET", "PUT", "POST"}
Uris == {"/RPC2", "/cpp", "/elsewhere"}
FieldNames == {"connection", "content-length", "expect", "transfer-encoding", "user-agent"}
Kinds == Methods \cup Uris \cup FieldNames
    \cup {"CR", "LF", "SP", "version", "value", "word", "size", "extension", "data"}
Token == [k : Kinds, v : Nat]

\* The stream a client sends and, for the properties alone, what it means by
\* it: where each request's request line begins, where its header and the
\* request end, its body, whether the body waits for "100 continue", and if it
\* is chunked, where its chunks and their data begin, after how many bytes.  A
\* client that pipelines does not wait for one answer before the next request.
\* As HTTP demands, no request has both a chunked body and a content-length.
ClientType ==
    [stream : Seq(Token), pipelines : BOOLEAN, oneLine : BOOLEAN,
     requests : Seq([from : Nat, head : Nat, to : Nat, body : Seq(Token),
                     expects : BOOLEAN,
                     chunks : Seq([at : Nat, data : Nat, before : Nat])])]

ASSUME ClientsAssumption ==
    \A c \in Clients :
        /\ c \in ClientType
        /\ \A i \in DOMAIN c.requests :
              c.requests[i].head <= Len(c.stream) /\ c.requests[i].to <= Len(c.stream)
ASSUME BufferAssumption == BufferSize \in Nat /\ BufferSize >= 2
ASSUME LimitAssumption == KeepaliveMax \in Nat \ {0} /\ MaxRead \in Nat \ {0}
                          /\ XmlSizeLimit \in Nat

VARIABLES
    client,         \* the client at the other end
    sent,           \* tokens it has sent so far
    closed,         \* it has closed the connection
    continued,      \* the requests it has been told to continue with
    base,           \* position of the buffer's first place
    bufferpos,      \* connectionP->bufferpos
    bufferend,      \* connectionP->buffersize
    pc,             \* where the connection's thread is
    line,           \* start of the line the header reader looks at
    session,        \* the TSession
    body,           \* the body the handler has got so far
    log             \* the requests done: where each began, its body as the
                    \* handler got it, its status

netVars == <<client, sent, closed>>
bufferVars == <<base, bufferpos, bufferend>>
vars == <<netVars, continued, bufferVars, pc, line, session, body, log>>

HeadPhase == {"skip", "field", "rest"}
BodyPhase == {"take", "refill", "wait"}
Positions == {"ATHEADER", "INCHUNK", "AFTERCHUNK", "EOF"}

SessionType ==
    [from : Nat, version : Nat, uri : Kinds, gotLine : BOOLEAN,
     method : Kinds, keepalive : BOOLEAN, serverDeniesKeepalive : BOOLEAN,
     continueRequired : BOOLEAN, requestIsChunked : BOOLEAN,
     hasLength : BOOLEAN, contentLength : Nat,
     lengthIsEmpty : BOOLEAN,   \* content-length has no value, taken for 0
     useragent : Nat,       \* place in the buffer requestInfo.useragent
                            \* points to, 0 for NULL
     intact : BOOLEAN,      \* that place has not been written over
     position : Positions, bytesLeftCt : Nat]

\* SessionInit(), with the deny of processRequestFromClient().
NewSession ==
    [from |-> bufferpos, version |-> 0, uri |-> "word", gotLine |-> FALSE,
     method |-> "word", keepalive |-> FALSE,
     serverDeniesKeepalive |-> Len(log) + 1 >= KeepaliveMax,
     continueRequired |-> FALSE, requestIsChunked |-> FALSE,
     hasLength |-> FALSE, contentLength |-> 0, lengthIsEmpty |-> FALSE,
     useragent |-> 0, intact |-> TRUE, position |-> "ATHEADER", bytesLeftCt |-> 0]

Stream == client.stream
Smaller(a, b) == IF a <= b THEN a ELSE b
Unread == bufferend - bufferpos         \* bytes in the buffer
Available == sent - bufferend           \* bytes on their way
\* ConnBufferSpace(): the last place is kept for a NUL.
Space_Mutant == BufferSize - (bufferend - base)
Space == BufferSize - 1 - (bufferend - base)

Init ==
    /\ client \in Clients
    /\ sent = 0 /\ closed = FALSE /\ continued = {}
    /\ base = 0 /\ bufferpos = 0 /\ bufferend = 0
    /\ pc = "await" /\ line = 0
    /\ body = <<>> /\ log = <<>>
    /\ session = NewSession
-----------------------------------------------------------------------------
(* The client. *)

\* How far the client goes before it hears from the server.
SendLimit ==
    LET i == Len(log) + 1
        r == client.requests[i]
    IN  IF i > Len(client.requests) THEN Len(Stream)
        ELSE IF r.expects /\ i \notin continued THEN r.head
        ELSE IF client.pipelines THEN Len(Stream) ELSE r.to

Send ==
    /\ ~closed
    /\ \E n \in sent + 1 .. SendLimit : sent' = n
    /\ UNCHANGED <<client, closed, continued, bufferVars, pc, line, session, body, log>>

Close ==
    /\ ~closed
    /\ closed' = TRUE
    /\ UNCHANGED <<client, sent, continued, bufferVars, pc, line, session, body, log>>
-----------------------------------------------------------------------------
(* The connection buffer. *)

\* ConnRead() gets what has arrived, as far as there is room for it ...
CanRead == Available > 0 /\ Space > 0
ReadFromChannel == bufferend' = bufferend + Smaller(Available, Space)

\* ... and otherwise its wait times out, is interrupted or sees the client
\* gone, or it finds the buffer full.
CannotRead_Mutant == closed /\ Available = 0
CannotRead == ~CanRead

\* ConnReadInit()
ReadInit == base' = bufferpos

\* The answer is complete: processRequestFromClient() ends and serverFunc()
\* goes on or not, by HTTPKeepalive().
Keepalive(status) ==
    session.keepalive /\ ~session.serverDeniesKeepalive /\ status < 400

Respond(status) ==
    /\ log' = Append(log, [from |-> session.from, body |-> body, status |-> status])
    /\ pc' = IF Keepalive(status) THEN "await" ELSE "closed"
    /\ ReadInit
    /\ UNCHANGED <<netVars, continued, bufferpos, bufferend, line, session, body>>
-----------------------------------------------------------------------------
(* serverFunc() *)

AwaitRequest ==
    /\ pc = "await" /\ CanRead
    /\ ReadFromChannel
    /\ pc' = "skip"
    /\ line' = bufferpos
    /\ session' = NewSession
    /\ body' = <<>>
    /\ UNCHANGED <<netVars, continued, base, bufferpos, log>>

AwaitEnds ==
    /\ pc = "await" /\ CannotRead
    /\ pc' = "closed"
    /\ UNCHANGED <<netVars, continued, bufferVars, line, session, body, log>>
-----------------------------------------------------------------------------
(* SessionReadRequest() *)

IsLf(j) == Stream[j].k = "LF"
HasLine(i) == \E j \in i + 1 .. bufferend : IsLf(j)
LineEnd(i) ==
    CHOOSE j \in i + 1 .. bufferend : IsLf(j) /\ \A h \in i + 1 .. j - 1 : ~IsLf(h)
IsContinuationLine(i) == Stream[i + 1].k = "SP"
IsEmptyLine(i) == IsLf(i + 1) \/ (Stream[i + 1].k = "CR" /\ IsLf(i + 2))

\* getLineInBuffer() wants more.
GetLineReads ==
    /\ pc \in HeadPhase /\ ~HasLine(line) /\ CanRead
    /\ ReadFromChannel
    /\ UNCHANGED <<netVars, continued, base, bufferpos, pc, line, session, body, log>>

\* The deadline for the whole header passes, whatever has arrived by then.
HeadTimesOut == pc \in HeadPhase /\ Respond(408)

HeadFails ==
    /\ pc \in HeadPhase /\ ~HasLine(line)
    /\ Space = 0 \/ (closed /\ Available = 0)
    /\ Respond(500)

\* skipToNonemptyLine()
SkipEmptyLine ==
    /\ pc = "skip" /\ HasLine(line) /\ IsEmptyLine(line)
    /\ line' = LineEnd(line)
    /\ UNCHANGED <<netVars, continued, bufferVars, pc, session, body, log>>

FoundRequestLine ==
    /\ pc = "skip" /\ HasLine(line) /\ ~IsEmptyLine(line)
    /\ bufferpos' = line
    /\ session' = [session EXCEPT !.from = line]
    /\ pc' = "field"
    /\ UNCHANGED <<netVars, continued, base, bufferend, line, body, log>>

\* readField(): the first line of a field, or the end of the header.
FirstLineOfField ==
    /\ pc = "field" /\ HasLine(bufferpos)
    /\ ~IsContinuationLine(bufferpos) /\ ~IsEmptyLine(bufferpos)
    /\ line' = LineEnd(bufferpos)
    /\ pc' = "rest"
    /\ UNCHANGED <<netVars, continued, bufferVars, session, body, log>>

UnexpectedContinuation ==
    /\ pc = "field" /\ HasLine(bufferpos) /\ IsContinuationLine(bufferpos)
    /\ Respond(500)

EndOfHeader ==
    /\ pc = "field" /\ HasLine(bufferpos) /\ IsEmptyLine(bufferpos)
    /\ bufferpos' = LineEnd(bufferpos)
    /\ pc' = "handle"
    /\ UNCHANGED <<netVars, continued, base, bufferend, line, session, body, log>>

\* getRestOfField(): the line after a field's line continues it or not.
ContinuationLine ==
    /\ pc = "rest" /\ HasLine(line) /\ IsContinuationLine(line)
    /\ line' = LineEnd(line)
    /\ UNCHANGED <<netVars, continued, bufferVars, pc, session, body, log>>

GotWholeField == pc = "rest" /\ HasLine(line) /\ ~IsContinuationLine(line)

\* The words of the field in the buffer.
WordPlaces == WordsIn(Stream, bufferpos, line)
WordPlace(n) == Nth(WordPlaces, n)
Word(n) == Stream[WordPlace(n)]
Words == Cardinality(WordPlaces)

\* parseRequestLine() and initRequestInfo().  A request line without a version
\* is all there is of its request; the version then is what the session's
\* memory happens to hold.
StaleVersions == {0, 11, 20}

RequestLine ==
    /\ GotWholeField /\ ~session.gotLine /\ Words >= 2
    /\ \E version \in IF Words >= 3 THEN {Word(3).v} ELSE StaleVersions :
          session' = [session EXCEPT !.gotLine = TRUE, !.method = Word(1).k,
                          !.uri = Word(2).k, !.version = version,
                          !.keepalive = version >= 11]
    /\ pc' = IF Words >= 3 THEN "field" ELSE "handle"
    /\ bufferpos' = line
    /\ UNCHANGED <<netVars, continued, base, bufferend, line, body, log>>

\* A field's value is what is left of it after its name, perhaps nothing.
FieldIsEmpty == Words < 2
FieldValue == IF FieldIsEmpty THEN 0 ELSE Word(2).v
ValuePlace == IF FieldIsEmpty THEN WordPlace(1) ELSE WordPlace(2) - 1

\* getFieldNameToken(): a field's name ends with a colon.
HasFieldName == Words >= 2 \/ (Words = 1 /\ Word(1).k \in FieldNames)

\* processField()
ProcessField(name, value, place, empty) ==
    [session EXCEPT
        !.keepalive = IF name = "connection" THEN value = 1 ELSE @,
        !.continueRequired = @ \/ (name = "expect" /\ value = 1),
        !.requestIsChunked = @ \/ (name = "transfer-encoding" /\ value = 1),
        !.hasLength = @ \/ name = "content-length",
        !.contentLength = IF name = "content-length" /\ ~session.hasLength
                          THEN value ELSE @,
        !.lengthIsEmpty = IF name = "content-length" /\ ~session.hasLength
                          THEN empty ELSE @,
        !.useragent = IF name = "user-agent" THEN place ELSE @]

UnknownEncoding == Word(1).k = "transfer-encoding" /\ (FieldIsEmpty \/ FieldValue > 1)

HeaderField ==
    /\ GotWholeField /\ session.gotLine /\ HasFieldName /\ ~UnknownEncoding
    /\ session' = ProcessField(Word(1).k, FieldValue, ValuePlace - base, FieldIsEmpty)
    /\ bufferpos' = line
    /\ pc' = "field"
    /\ UNCHANGED <<netVars, continued, base, bufferend, line, body, log>>

BadField ==
    /\ GotWholeField
    /\ \/ ~session.gotLine /\ Words < 2 /\ Respond(400)
       \/ session.gotLine /\ ~HasFieldName /\ Respond(400)
       \/ session.gotLine /\ HasFieldName /\ UnknownEncoding /\ Respond(501)
-----------------------------------------------------------------------------
(* processRequestFromClient() and the handlers *)

HasBody == session.hasLength \/ session.requestIsChunked

\* Answers that need no body: a version of HTTP that is too new, OPTIONS, the
\* wrong method, no content-length for the XML-RPC handler, or one that is
\* empty, zero or above the limit, an empty one for the C++ method, which
\* throws when it tests for the end of the body, and the default handler's.
AnswerAtOnce ==
    /\ pc = "handle"
    /\ \/ session.version >= 20 /\ Respond(505)
       \/ /\ session.version < 20 /\ session.uri = "/RPC2"
          /\ \/ session.method = "OPTIONS" /\ Respond(200)
             \/ session.method \notin {"POST", "OPTIONS"} /\ Respond(405)
             \/ session.method = "POST" /\ ~session.hasLength /\ Respond(411)
             \/ /\ session.method = "POST" /\ session.hasLength
                /\ session.contentLength = 0 /\ Respond(400)
             \/ /\ session.method = "POST" /\ session.hasLength
                /\ session.contentLength > XmlSizeLimit /\ Respond(500)
       \/ session.version < 20 /\ session.uri = "/cpp" /\ ~HasBody /\ Respond(200)
       \/ session.version < 20 /\ session.uri = "/cpp" /\ session.lengthIsEmpty /\ Respond(404)
       \/ session.version < 20 /\ session.uri \notin {"/RPC2", "/cpp"} /\ Respond(404)

StartBody ==
    /\ pc = "handle" /\ session.version < 20
    /\ \/ /\ session.uri = "/RPC2" /\ session.method = "POST"
          /\ session.hasLength /\ session.contentLength \in 1 .. XmlSizeLimit
       \/ session.uri = "/cpp" /\ HasBody /\ ~session.lengthIsEmpty
    /\ pc' = "take"
    /\ UNCHANGED <<netVars, continued, bufferVars, line, session, body, log>>

\* A body that cannot be had: the XML-RPC handler says so, the exception of
\* the C++ method makes Abyss take the request for one nobody handles.
BodyFailure == Respond(IF session.uri = "/RPC2" THEN 408 ELSE 404)

\* The handler has the whole body, as getBody() or readSomeRequestBody() see it.
BodyComplete ==
    \/ session.hasLength /\ session.contentLength <= Len(body)
    \/ session.requestIsChunked /\ session.position = "EOF"

AnswerBody == pc = "take" /\ BodyComplete /\ Respond(200)

\* 'max' of SessionGetReadData() and SessionGetBody().
MaxBytes_Mutant == IF session.uri = "/RPC2" THEN session.contentLength ELSE MaxRead
MaxBytes == IF session.uri = "/RPC2" THEN session.contentLength - Len(body) ELSE MaxRead

Deliver(n) ==
    /\ n > 0
    /\ body' = body \o SubSeq(Stream, bufferpos + 1, bufferpos + n)
    /\ bufferpos' = bufferpos + n

Taking == pc = "take" /\ ~BodyComplete

\* getSomeUnchunkedRequestBody()
TakePlain ==
    /\ Taking /\ ~session.requestIsChunked
    /\ Deliver(Smaller(MaxBytes, Unread))
    /\ UNCHANGED <<netVars, continued, base, bufferend, pc, line, session, log>>

\* getChunkData()
ChunkBytes_Mutant == Smaller(Unread, MaxBytes)
ChunkBytes == Smaller(Smaller(session.bytesLeftCt, Unread), MaxBytes)

TakeChunkData ==
    /\ Taking /\ session.requestIsChunked /\ session.position = "INCHUNK"
    /\ Deliver(ChunkBytes)
    /\ session' = [session EXCEPT
           !.bytesLeftCt = @ - ChunkBytes,
           !.position = IF session.bytesLeftCt = ChunkBytes THEN "AFTERCHUNK" ELSE @]
    /\ UNCHANGED <<netVars, continued, base, bufferend, pc, line, log>>

\* processChunkDelimIfThere().  Only the second byte decides: the error it
\* finds in the first is overwritten by what it finds in the second.
AtDelimiter == Taking /\ session.requestIsChunked /\ session.position = "AFTERCHUNK"

ChunkDelimiter ==
    /\ AtDelimiter /\ Unread >= 2 /\ IsLf(bufferpos + 2)
    /\ bufferpos' = bufferpos + 2
    /\ session' = [session EXCEPT !.position = "ATHEADER"]
    /\ UNCHANGED <<netVars, continued, base, bufferend, pc, line, body, log>>

\* getChunkHeader() and parseChunkHeader().  The line is the digits of a size and
\* perhaps an extension.  No digits make a size of zero: in a build without
\* assertions, as is the default, a line of nothing, or of an extension alone,
\* is the last chunk; a lone CR is not cut off and is no digit.
AtChunkHeader == Taking /\ session.requestIsChunked /\ session.position = "ATHEADER"
DigitsEnd(i) ==
    \/ Stream[i + 1].k \in {"extension", "LF"}
    \/ i > bufferpos /\ Stream[i + 1].k = "CR" /\ IsLf(i + 2)
HasDigits == Stream[bufferpos + 1].k = "size"
ChunkSizeIsValid == DigitsEnd(bufferpos) \/ (HasDigits /\ DigitsEnd(bufferpos + 1))
ChunkLineSize == IF HasDigits THEN Stream[bufferpos + 1].v ELSE 0

ChunkHeader ==
    /\ AtChunkHeader /\ HasLine(bufferpos) /\ ChunkSizeIsValid
    /\ LET size == ChunkLineSize
       IN  session' = [session EXCEPT
               !.position = IF size = 0 THEN "EOF" ELSE "INCHUNK",
               !.bytesLeftCt = IF size = 0 THEN @ ELSE size]
    /\ bufferpos' = LineEnd(bufferpos)
    /\ UNCHANGED <<netVars, continued, base, bufferend, pc, line, body, log>>

LineDoesNotFit == ~HasLine(bufferpos) /\ Unread + 1 >= BufferSize

ChunkError ==
    /\ \/ AtDelimiter /\ Unread >= 2 /\ ~IsLf(bufferpos + 2)
       \/ AtChunkHeader /\ HasLine(bufferpos) /\ ~ChunkSizeIsValid
       \/ AtChunkHeader /\ LineDoesNotFit
    /\ BodyFailure

\* There is nothing in the buffer to go on with.
NeedsMore ==
    \/ ~session.requestIsChunked /\ Unread = 0
    \/ session.requestIsChunked /\ session.position = "INCHUNK" /\ Unread = 0
    \/ AtDelimiter /\ Unread < 2
    \/ AtChunkHeader /\ ~HasLine(bufferpos) /\ ~LineDoesNotFit

AskForMore ==
    /\ Taking /\ NeedsMore
    /\ pc' = "refill"
    /\ UNCHANGED <<netVars, continued, bufferVars, line, session, body, log>>

\* refillBuffer(): what is unread moves to the front of the buffer, with a NUL
\* after it, and the client is told to continue if it waits for that.
ToldToContinue_Mutant == continued
ToldToContinue ==
    IF session.continueRequired THEN continued \cup {Len(log) + 1} ELSE continued

Survives(place, used) == session.intact /\ (place = 0 \/ place > used)

Refill ==
    /\ pc = "refill"
    /\ ReadInit
    /\ continued' = ToldToContinue
    /\ session' = [session EXCEPT !.continueRequired = FALSE,
                       !.intact = Survives(session.useragent, Unread)]
    /\ pc' = "wait"
    /\ UNCHANGED <<netVars, bufferpos, bufferend, line, body, log>>

CannotSayContinue ==
    /\ pc = "refill" /\ session.continueRequired /\ closed
    /\ BodyFailure

RefillReads ==
    /\ pc = "wait" /\ CanRead
    /\ ReadFromChannel
    /\ session' = [session EXCEPT
           !.intact = Survives(session.useragent, bufferend' - base)]
    /\ pc' = "take"
    /\ UNCHANGED <<netVars, continued, base, bufferpos, line, body, log>>

RefillFails == pc = "wait" /\ CannotRead /\ BodyFailure
-----------------------------------------------------------------------------
ReadHead ==
    \/ GetLineReads \/ HeadTimesOut \/ HeadFails
    \/ SkipEmptyLine \/ FoundRequestLine
    \/ FirstLineOfField \/ UnexpectedContinuation \/ EndOfHeader
    \/ ContinuationLine \/ RequestLine \/ HeaderField \/ BadField

ReadBody ==
    \/ StartBody \/ TakePlain \/ TakeChunkData \/ ChunkDelimiter \/ ChunkHeader
    \/ ChunkError \/ AskForMore \/ Refill \/ CannotSayContinue
    \/ RefillReads \/ RefillFails

Server == AwaitRequest \/ AwaitEnds \/ ReadHead \/ AnswerAtOnce \/ ReadBody \/ AnswerBody

Next == Server \/ Send \/ Close

\* The thread runs; the client owes nothing.
Spec == Init /\ [][Next]_vars /\ WF_vars(Server)
-----------------------------------------------------------------------------
(* Properties *)

\* Every variable has its type.
TypeOK ==
    /\ client \in Clients
    /\ sent \in 0 .. Len(Stream) /\ closed \in BOOLEAN
    /\ continued \subseteq Nat
    /\ base \in Nat /\ bufferpos \in Nat /\ bufferend \in Nat
    /\ pc \in {"await", "handle", "closed"} \cup HeadPhase \cup BodyPhase
    /\ line \in Nat
    /\ session \in SessionType
    /\ body \in Seq(Token)
    /\ log \in Seq([from : Nat, body : Seq(Token), status : Nat])

\* What the assertions at conn.c:195 and :402, session.c:462 and :469 and
\* sessionReadRequest.c:111 say of the buffer: whatever way the header
\* reader, the body readers and the refills have moved in it, the read
\* position is inside it, it never holds more than it has room for beside the
\* NUL, and nothing has been read that was not sent; and a chunk the reader is
\* inside always has bytes left, or it would wait where the delimiter is.  The
\* assertion at session.c:161 is not among them: it fails where a chunk's header
\* is a bare line feed, which the model takes as a build without assertions does.
BufferBounds ==
    /\ base <= bufferpos /\ bufferpos <= bufferend /\ bufferend <= sent
    /\ bufferend - base <= BufferSize - 1
    /\ pc \in HeadPhase => line \in bufferpos .. bufferend
    /\ session.position = "INCHUNK" => session.bytesLeftCt > 0

\* Well-formed clients whose bodies the server takes: OPTIONS is answered without
\* its body, which would be read as the next request; and the C++ method takes
\* all there is in the buffer of a plain body and what follows it.
BodyIsTaken(c, r) ==
    \A q \in FieldPlaces(c.stream, r) : FieldFrom(c.stream, r, r.from, q) =>
       /\ Target(c.stream, r.from, q) = "/RPC2" /\ Name(c.stream, r.from, q) = "OPTIONS" =>
             r.to = r.head
       /\ Target(c.stream, r.from, q) = "/cpp" /\ GivesLength(c.stream, r) =>
             ~c.pipelines \/ r.to = Len(c.stream)

Proper(c) == WellFormed(c) /\ \A i \in DOMAIN c.requests : BodyIsTaken(c, c.requests[i])

IsPartOf(part, whole) == Len(part) <= Len(whole) /\ part = SubSeq(whole, 1, Len(part))

\* However the stream is cut into pieces, whatever is folded, chunked or
\* pipelined, and however many requests came before on the connection: a
\* request that is answered begins where the client began it and its handler
\* got exactly the body the client sent, and never along the way anything else.
BodiesExact ==
    /\ \A i \in DOMAIN log : log[i].status = 200 =>
          /\ i \in DOMAIN client.requests
          /\ log[i].from = client.requests[i].from
          /\ log[i].body = client.requests[i].body
    /\ pc \in BodyPhase =>
          /\ Len(log) + 1 \in DOMAIN client.requests
          /\ IsPartOf(body, client.requests[Len(log) + 1].body)

\* When the thread waits for more of a header or a body, the client has more
\* to send without hearing from the server first, or has sent it, or is gone:
\* a wrong idea of where the body ends, or a missing "100 continue", would
\* have both wait for each other until the timeout.  A one-line request is
\* the exception: readField() waits for a line after it.
WaitsForMore ==
    \/ pc = "wait"
    \/ pc \in {"field", "rest"} /\ ~HasLine(line) /\ ~client.oneLine

NeverWaitsInVain ==
    WaitsForMore => closed \/ Available > 0 \/ sent < SendLimit

\* Once the first bytes of a request have come, the thread gets back to
\* waiting for the next request or ends the connection: no loop over lines,
\* chunks and refills goes on for ever, whatever the client sends or leaves out.
SessionEnds == pc \in HeadPhase \cup BodyPhase ~> pc \in {"await", "closed"}

\* session.h says of the strings in requestInfo that they live as long as the
\* session: while a handler reads the body, the user agent is still there.
HeaderStringsSurvive == pc \in BodyPhase => session.intact
=============================================================================
