------------------------- MODULE AbyssSessionProofs -------------------------
(* Proofs about AbyssSession for any clients, buffer size and limits: the    *)
(* reader's positions stay within the buffer, and the buffer within its size *)
(* and within what was sent, whatever the clients send; and for a client     *)
(* that sends what HTTP allows, the session's framing of its requests is the *)
(* client's: handlers get the bodies it sent, and nobody waits in vain.      *)
EXTENDS AbyssSession, FiniteSetTheorems, SequenceTheorems, WellFoundedInduction, TLAPS

IInv == TypeOK /\ BufferBounds

-----------------------------------------------------------------------------
(* Lemmas *)

\* A set of naturals that has an element has a smallest one.
LEMMA HasSmallest ==
    ASSUME NEW W \in SUBSET Nat, W # {}
    PROVE  \E j \in W : \A h \in W : j <= h
<1> DEFINE R == {ss \in Nat \X Nat : ss[1] < ss[2]}
<1>1. IsWellFoundedOn(R, Nat)
  BY NatLessThanWellFounded, Zenon DEF OpToRel
<1>2. PICK j \in W : \A h \in W : ~(<<h, j>> \in R)
  <2> HIDE DEF R
  <2> QED BY <1>1, WFMin
<1>3. ASSUME NEW h \in W PROVE j <= h
  <2>1. h \in Nat /\ j \in Nat
    OBVIOUS
  <2>2. <<h, j>> \in Nat \X Nat /\ <<h, j>>[1] = h /\ <<h, j>>[2] = j
    BY <2>1
  <2>3. ~(h < j)
    BY <1>2, <2>2
  <2> QED BY <2>1, <2>3
<1> QED BY <1>3

\* A finite set of naturals that has at least n elements has an n-th one, for
\* the three words of a request line.
LEMMA HasNth ==
    ASSUME NEW W \in SUBSET Nat, IsFiniteSet(W), NEW n \in 1 .. 3,
           Cardinality(W) >= n
    PROVE  \E j \in W : Cardinality({h \in W : h < j}) = n - 1
<1>1. Cardinality(W) \in Nat /\ W # {}
  BY FS_CardinalityType, FS_EmptySet
<1>2. PICK a \in W : \A h \in W : a <= h
  BY <1>1, HasSmallest
<1>3. {h \in W : h < a} = {}
  <2> \A h \in W : ~(h < a)
    BY <1>2
  <2> QED OBVIOUS
<1>4. CASE n = 1
  BY <1>2, <1>3, <1>4, FS_EmptySet
<1>5. ASSUME n >= 2
      PROVE  \E b \in W \ {a} : \A h \in W \ {a} : b <= h
  <2>1. Cardinality(W \ {a}) = Cardinality(W) - 1 /\ IsFiniteSet(W \ {a})
    BY FS_RemoveElement
  <2>2. W \ {a} # {}
    BY <1>1, <1>5, <2>1, FS_EmptySet
  <2> QED BY <2>2, HasSmallest
<1>6. CASE n = 2
  <2>1. PICK b \in W \ {a} : \A h \in W \ {a} : b <= h
    BY <1>5, <1>6
  <2>2. {h \in W : h < b} = {a}
    <3>1. \A h \in W : h < b <=> h = a
      BY <1>2, <2>1
    <3> QED BY <1>2, <3>1
  <2>3. Cardinality({h \in W : h < b}) = 1
    BY <2>2, FS_Singleton
  <2> QED BY <1>6, <2>1, <2>3
<1>7. CASE n = 3
  <2>1. PICK b \in W \ {a} : \A h \in W \ {a} : b <= h
    BY <1>5, <1>7
  <2> DEFINE V == (W \ {a}) \ {b}
  <2>2. Cardinality(V) = Cardinality(W) - 2
    <3>1. Cardinality(W \ {a}) = Cardinality(W) - 1 /\ IsFiniteSet(W \ {a})
      BY FS_RemoveElement
    <3>2. Cardinality(V) = Cardinality(W \ {a}) - 1
      BY <2>1, <3>1, FS_RemoveElement
    <3> QED BY <1>1, <3>1, <3>2
  <2>3. V # {}
    BY <1>1, <1>7, <2>2, FS_EmptySet
  <2>4. PICK c \in V : \A h \in V : c <= h
    BY <2>3, HasSmallest
  <2>5. {h \in W : h < c} = {a, b}
    <3>1. \A h \in W : h < c <=> h = a \/ h = b
      BY <1>2, <2>1, <2>4
    <3> QED BY <1>2, <2>1, <3>1
  <2>6. Cardinality({a, b}) = 2
    <3>1. IsFiniteSet({a}) /\ Cardinality({a}) = 1
      BY FS_Singleton
    <3>2. Cardinality({a} \cup {b}) = Cardinality({a}) + 1
      BY <2>1, <3>1, FS_AddElement
    <3>3. {a} \cup {b} = {a, b}
      OBVIOUS
    <3> QED BY <3>1, <3>2, <3>3
  <2> QED BY <1>7, <2>4, <2>5, <2>6
<1> QED BY <1>4, <1>6, <1>7

\* A line that is there ends within the buffer.
LEMMA LineEndInBuffer ==
    ASSUME TypeOK, NEW i \in Nat, HasLine(i)
    PROVE  LineEnd(i) \in i + 1 .. bufferend
<1> DEFINE W == {j \in i + 1 .. bufferend : IsLf(j)}
<1>1. W \in SUBSET Nat /\ W # {}
  <2>1. bufferend \in Nat
    BY DEF TypeOK
  <2>2. i + 1 .. bufferend \subseteq Nat
    BY <2>1
  <2>3. W # {}
    BY DEF HasLine
  <2> QED BY <2>2, <2>3
<1>2. PICK j \in W : \A h \in W : j <= h
  BY <1>1, HasSmallest
<1>3. \A h \in i + 1 .. j - 1 : ~IsLf(h)
  BY <1>1, <1>2 DEF TypeOK
<1> QED BY <1>2, <1>3 DEF LineEnd

\* The first three words of a field are where the field is.
LEMMA WordInField ==
    ASSUME TypeOK, BufferBounds, GotWholeField, NEW n \in 1 .. 3, Words >= n
    PROVE  /\ WordPlace(n) \in bufferpos + 1 .. line
           /\ Word(n) \in Token
<1>1. bufferpos \in Nat /\ line \in Nat /\ line \in bufferpos .. bufferend
  BY DEF TypeOK, BufferBounds, GotWholeField, HeadPhase
<1>2. WordPlaces \in SUBSET Nat /\ WordPlaces \subseteq bufferpos + 1 .. line
  BY <1>1 DEF WordPlaces, WordsIn
<1>3. IsFiniteSet(WordPlaces)
  <2>1. bufferpos + 1 \in Int /\ line \in Int
    BY <1>1
  <2>2. IsFiniteSet(bufferpos + 1 .. line)
    BY <2>1, FS_Interval
  <2> QED BY <1>2, <2>2, FS_Subset
<1>4. \E j \in WordPlaces : Cardinality({h \in WordPlaces : h < j}) = n - 1
  BY <1>2, <1>3, HasNth DEF Words
<1>5. WordPlace(n) \in WordPlaces
  BY <1>4 DEF WordPlace, Nth
<1>6. line <= Len(Stream) /\ Stream \in Seq(Token)
  BY <1>1, ClientsAssumption DEF TypeOK, BufferBounds, Stream, ClientType
<1>7. Stream[WordPlace(n)] \in Token
  <2>1. WordPlace(n) \in bufferpos + 1 .. line
    BY <1>2, <1>5
  <2>2. Len(Stream) \in Nat
    BY <1>6
  <2>3. WordPlace(n) \in 1 .. Len(Stream)
    BY <1>1, <1>6, <2>1, <2>2
  <2> QED BY <1>6, <2>3
<1> QED BY <1>2, <1>5, <1>7 DEF Word

\* Where the connection stands in its client's stream.
LEMMA StreamFacts ==
    ASSUME IInv
    PROVE  /\ client \in ClientType /\ Stream \in Seq(Token) /\ Len(Stream) \in Nat
           /\ base \in Nat /\ bufferpos \in Nat /\ bufferend \in Nat /\ sent \in Nat
           /\ base <= bufferpos /\ bufferpos <= bufferend
           /\ bufferend <= sent /\ sent <= Len(Stream)
           /\ bufferend - base <= BufferSize - 1
           /\ \A j \in 1 .. bufferend : Stream[j] \in Token
<1>1. client \in ClientType
  BY ClientsAssumption DEF IInv, TypeOK
<1>2. Stream \in Seq(Token) /\ Len(Stream) \in Nat
  BY <1>1 DEF ClientType, Stream
<1>3. /\ base \in Nat /\ bufferpos \in Nat /\ bufferend \in Nat
      /\ sent \in 0 .. Len(Stream)
  BY DEF IInv, TypeOK
<1>4. /\ base <= bufferpos /\ bufferpos <= bufferend /\ bufferend <= sent
      /\ bufferend - base <= BufferSize - 1
  BY DEF IInv, BufferBounds
<1>5. ASSUME NEW j \in 1 .. bufferend PROVE Stream[j] \in Token
  <2>1. j \in 1 .. Len(Stream)
    BY <1>2, <1>3, <1>4
  <2> QED BY <1>2, <2>1
<1> QED BY <1>1, <1>2, <1>3, <1>4, <1>5

\* ConnRead() puts no more into the buffer than was sent and than it has room
\* for.
LEMMA ReadFits ==
    ASSUME IInv, CanRead, ReadFromChannel
    PROVE  /\ bufferend' \in Nat /\ bufferend <= bufferend' /\ bufferend' <= sent
           /\ bufferend' - base <= BufferSize - 1
BY StreamFacts, BufferAssumption
   DEF CanRead, ReadFromChannel, Smaller, Available, Space

\* SessionInit() makes a session of the type, whose reader is at a header.
LEMMA NewSessionType ==
    ASSUME IInv
    PROVE  NewSession \in SessionType /\ NewSession.position = "ATHEADER"
<1> DEFINE denies == Len(log) + 1 >= KeepaliveMax
<1>1. denies \in BOOLEAN
  BY LimitAssumption DEF IInv, TypeOK
<1>2. bufferpos \in Nat
  BY StreamFacts
<1> HIDE DEF denies
<1>3. NewSession =
        [from |-> bufferpos, version |-> 0, uri |-> "word", gotLine |-> FALSE,
         method |-> "word", keepalive |-> FALSE, serverDeniesKeepalive |-> denies,
         continueRequired |-> FALSE, requestIsChunked |-> FALSE,
         hasLength |-> FALSE, contentLength |-> 0, lengthIsEmpty |-> FALSE,
         useragent |-> 0, intact |-> TRUE, position |-> "ATHEADER", bytesLeftCt |-> 0]
  BY DEF NewSession, denies
<1>4. "ATHEADER" \in Positions
  BY DEF Positions
<1>5. "word" \in Kinds
  BY DEF Kinds
<1>6. NewSession \in SessionType
  BY <1>1, <1>2, <1>3, <1>4, <1>5 DEF SessionType
<1> QED BY <1>3, <1>6

\* The client sending.
LEMMA SendKeeps ==
    ASSUME IInv, Send
    PROVE  IInv'
<1>1. Len(log) + 1 \in Nat
  BY DEF IInv, TypeOK
<1> DEFINE i == Len(log) + 1
           r == client.requests[i]
           Request == [from : Nat, head : Nat, to : Nat, body : Seq(Token),
                       expects : BOOLEAN,
                       chunks : Seq([at : Nat, data : Nat, before : Nat])]
<1>2. client.requests \in Seq(Request)
  BY StreamFacts DEF ClientType
<1>3. SendLimit \in Nat /\ SendLimit <= Len(Stream)
  <2>1. CASE i > Len(client.requests)
    BY <2>1, StreamFacts DEF SendLimit
  <2>2. CASE ~(i > Len(client.requests))
    <3>1. i \in DOMAIN client.requests
      BY <1>1, <1>2, <2>2
    <3>2. r.head \in Nat /\ r.to \in Nat
      <4>1. r \in Request
        <5> HIDE DEF Request
        <5> QED BY <1>2, <3>1, ElementOfSeq
      <4> QED BY <4>1
    <3>3. r.head <= Len(Stream) /\ r.to <= Len(Stream)
      BY <3>1, ClientsAssumption DEF IInv, TypeOK, Stream
    <3> QED BY <2>2, <3>2, <3>3, StreamFacts DEF SendLimit
  <2> QED BY <2>1, <2>2
<1>4. PICK n \in sent + 1 .. SendLimit : sent' = n
  BY DEF Send
<1>5. sent' \in 0 .. Len(Stream) /\ sent <= sent'
  BY <1>3, <1>4, StreamFacts
<1>6. UNCHANGED <<client, closed, continued, bufferVars, pc, line, session, body, log>>
  BY DEF Send
<1>7. TypeOK'
  BY <1>5, <1>6 DEF IInv, TypeOK, bufferVars, Stream
<1>8. BufferBounds'
  BY <1>5, <1>6, StreamFacts DEF IInv, BufferBounds, bufferVars
<1> QED BY <1>7, <1>8 DEF IInv

\* The end of a request, whatever its status, keeps the invariant: ConnReadInit()
\* moves the buffer's front to the first byte nobody took.
LEMMA RespondKeeps ==
    ASSUME IInv, NEW status \in Nat, Respond(status)
    PROVE  IInv'
<1>1. UNCHANGED <<netVars, continued, bufferpos, bufferend, line, session, body>>
  BY DEF Respond
<1>2. base' = bufferpos /\ pc' \in {"await", "closed"}
  BY DEF Respond, ReadInit
<1>3. log' \in Seq([from : Nat, body : Seq(Token), status : Nat])
  <2>1. [from |-> session.from, body |-> body, status |-> status]
          \in [from : Nat, body : Seq(Token), status : Nat]
    BY DEF IInv, TypeOK, SessionType
  <2> QED BY <2>1 DEF Respond, IInv, TypeOK
<1>4. TypeOK'
  BY <1>1, <1>2, <1>3 DEF IInv, TypeOK, netVars, Stream
<1>5. BufferBounds'
  BY <1>1, <1>2, StreamFacts, BufferAssumption DEF IInv, BufferBounds, netVars, HeadPhase
<1> QED BY <1>4, <1>5 DEF IInv

-----------------------------------------------------------------------------
(* Each action of the thread keeps the invariant. *)

\* serverFunc() waiting for a request.
LEMMA AwaitKeeps ==
    ASSUME IInv, AwaitRequest \/ AwaitEnds
    PROVE  IInv'
<1>1. CASE AwaitRequest
  <2>1. /\ CanRead /\ ReadFromChannel /\ pc' = "skip" /\ line' = bufferpos
        /\ session' = NewSession /\ body' = <<>>
        /\ UNCHANGED <<netVars, continued, base, bufferpos, log>>
    BY <1>1 DEF AwaitRequest
  <2>2. /\ bufferend' \in Nat /\ bufferend <= bufferend' /\ bufferend' <= sent
        /\ bufferend' - base <= BufferSize - 1
    BY <2>1, ReadFits
  <2>3. TypeOK'
    BY <2>1, <2>2, StreamFacts, NewSessionType
       DEF IInv, TypeOK, netVars, Stream, HeadPhase
  <2>4. BufferBounds'
    BY <2>1, <2>2, StreamFacts, NewSessionType DEF IInv, BufferBounds, netVars
  <2> QED BY <2>3, <2>4 DEF IInv
<1>2. CASE AwaitEnds
  <2>1. TypeOK'
    BY <1>2 DEF AwaitEnds, IInv, TypeOK, netVars, bufferVars, Stream
  <2>2. BufferBounds'
    BY <1>2 DEF AwaitEnds, IInv, BufferBounds, netVars, bufferVars, HeadPhase
  <2> QED BY <2>1, <2>2 DEF IInv
<1> QED BY <1>1, <1>2

\* getLineInBuffer() and skipToNonemptyLine().
LEMMA LineReadingKeeps ==
    ASSUME IInv, \/ GetLineReads \/ HeadTimesOut \/ HeadFails
                 \/ SkipEmptyLine \/ FoundRequestLine
    PROVE  IInv'
<1>1. CASE GetLineReads
  <2>1. /\ pc \in HeadPhase /\ CanRead /\ ReadFromChannel
        /\ UNCHANGED <<netVars, continued, base, bufferpos, pc, line, session, body, log>>
    BY <1>1 DEF GetLineReads
  <2>2. /\ bufferend' \in Nat /\ bufferend <= bufferend' /\ bufferend' <= sent
        /\ bufferend' - base <= BufferSize - 1
    BY <2>1, ReadFits
  <2>3. TypeOK'
    BY <2>1, <2>2 DEF IInv, TypeOK, netVars, Stream
  <2>4. BufferBounds'
    BY <2>1, <2>2, StreamFacts DEF IInv, BufferBounds, netVars, TypeOK
  <2> QED BY <2>3, <2>4 DEF IInv
<1>2. CASE HeadTimesOut \/ HeadFails
  BY <1>2, RespondKeeps DEF HeadTimesOut, HeadFails
<1>3. CASE SkipEmptyLine
  <2>1. LineEnd(line) \in line + 1 .. bufferend
    BY <1>3, LineEndInBuffer DEF SkipEmptyLine, IInv, TypeOK
  <2>2. TypeOK'
    BY <1>3, <2>1, StreamFacts
       DEF SkipEmptyLine, IInv, TypeOK, netVars, bufferVars, Stream
  <2>3. BufferBounds'
    BY <1>3, <2>1, StreamFacts
       DEF SkipEmptyLine, IInv, TypeOK, BufferBounds, netVars, bufferVars, HeadPhase
  <2> QED BY <2>2, <2>3 DEF IInv
<1>4. CASE FoundRequestLine
  <2>1. /\ line \in bufferpos .. bufferend /\ bufferpos' = line /\ pc' = "field"
        /\ UNCHANGED <<netVars, continued, base, bufferend, line, body, log>>
    BY <1>4 DEF FoundRequestLine, IInv, BufferBounds, HeadPhase
  <2>2. session' = [session EXCEPT !.from = line]
    BY <1>4 DEF FoundRequestLine
  <2>3. session' \in SessionType
    BY <2>2 DEF IInv, TypeOK, SessionType
  <2>4. session'.position = session.position /\ session'.bytesLeftCt = session.bytesLeftCt
    BY <2>2 DEF IInv, TypeOK, SessionType
  <2>5. TypeOK'
    BY <2>1, <2>3, StreamFacts DEF IInv, TypeOK, netVars, Stream, HeadPhase
  <2>6. BufferBounds'
    BY <2>1, <2>4, StreamFacts DEF IInv, BufferBounds, netVars
  <2> QED BY <2>5, <2>6 DEF IInv
<1> QED BY <1>1, <1>2, <1>3, <1>4

\* readField() and getRestOfField().
LEMMA FieldReadingKeeps ==
    ASSUME IInv, \/ FirstLineOfField \/ UnexpectedContinuation \/ EndOfHeader
                 \/ ContinuationLine
    PROVE  IInv'
<1>1. CASE FirstLineOfField
  <2>1. LineEnd(bufferpos) \in bufferpos + 1 .. bufferend
    BY <1>1, LineEndInBuffer, StreamFacts DEF FirstLineOfField, IInv
  <2>2. TypeOK'
    BY <1>1, <2>1, StreamFacts
       DEF FirstLineOfField, IInv, TypeOK, netVars, bufferVars, Stream, HeadPhase
  <2>3. BufferBounds'
    BY <1>1, <2>1, StreamFacts
       DEF FirstLineOfField, IInv, BufferBounds, netVars, bufferVars, HeadPhase
  <2> QED BY <2>2, <2>3 DEF IInv
<1>2. CASE UnexpectedContinuation
  BY <1>2, RespondKeeps DEF UnexpectedContinuation
<1>3. CASE EndOfHeader
  <2>1. LineEnd(bufferpos) \in bufferpos + 1 .. bufferend
    BY <1>3, LineEndInBuffer, StreamFacts DEF EndOfHeader, IInv
  <2>2. TypeOK'
    BY <1>3, <2>1, StreamFacts DEF EndOfHeader, IInv, TypeOK, netVars, Stream
  <2>3. BufferBounds'
    BY <1>3, <2>1, StreamFacts DEF EndOfHeader, IInv, BufferBounds, netVars, HeadPhase
  <2> QED BY <2>2, <2>3 DEF IInv
<1>4. CASE ContinuationLine
  <2>1. LineEnd(line) \in line + 1 .. bufferend
    BY <1>4, LineEndInBuffer DEF ContinuationLine, IInv, TypeOK
  <2>2. TypeOK'
    BY <1>4, <2>1, StreamFacts
       DEF ContinuationLine, IInv, TypeOK, netVars, bufferVars, Stream
  <2>3. BufferBounds'
    BY <1>4, <2>1, StreamFacts
       DEF ContinuationLine, IInv, TypeOK, BufferBounds, netVars, bufferVars, HeadPhase
  <2> QED BY <2>2, <2>3 DEF IInv
<1> QED BY <1>1, <1>2, <1>3, <1>4

\* A header field changes what it is about and keeps the types.
LEMMA ProcessFieldType ==
    ASSUME session \in SessionType, NEW name, NEW value \in Nat, NEW place \in Nat,
           NEW empty \in BOOLEAN
    PROVE  LET s == ProcessField(name, value, place, empty)
           IN  /\ s \in SessionType
               /\ s.position = session.position
               /\ s.bytesLeftCt = session.bytesLeftCt
<1> DEFINE alive == IF name = "connection" THEN value = 1 ELSE session.keepalive
           waits == session.continueRequired \/ (name = "expect" /\ value = 1)
           chunked == session.requestIsChunked \/ (name = "transfer-encoding" /\ value = 1)
           known == session.hasLength \/ name = "content-length"
           length == IF name = "content-length" /\ ~session.hasLength
                     THEN value ELSE session.contentLength
           blank == IF name = "content-length" /\ ~session.hasLength
                    THEN empty ELSE session.lengthIsEmpty
           agent == IF name = "user-agent" THEN place ELSE session.useragent
<1>1. /\ alive \in BOOLEAN /\ waits \in BOOLEAN /\ chunked \in BOOLEAN
      /\ known \in BOOLEAN /\ blank \in BOOLEAN
  BY DEF SessionType
<1>2. length \in Nat /\ agent \in Nat
  BY DEF SessionType
<1>3. ProcessField(name, value, place, empty) =
        [session EXCEPT !.keepalive = alive, !.continueRequired = waits,
             !.requestIsChunked = chunked, !.hasLength = known,
             !.contentLength = length, !.lengthIsEmpty = blank, !.useragent = agent]
  BY DEF ProcessField
<1> HIDE DEF alive, waits, chunked, known, length, blank, agent
<1> DEFINE s == [session EXCEPT !.keepalive = alive, !.continueRequired = waits,
                     !.requestIsChunked = chunked, !.hasLength = known,
                     !.contentLength = length, !.lengthIsEmpty = blank, !.useragent = agent]
<1>4. s \in SessionType
  BY ONLY <1>1, <1>2, session \in SessionType DEF SessionType
<1>5. s.position = session.position /\ s.bytesLeftCt = session.bytesLeftCt
  BY ONLY session \in SessionType DEF SessionType
<1> HIDE DEF s
<1>6. ProcessField(name, value, place, empty) = s
  BY ONLY <1>3 DEF s
<1> QED BY ONLY <1>4, <1>5, <1>6

\* parseRequestLine() and processField().
LEMMA HeaderKeeps ==
    ASSUME IInv, RequestLine \/ HeaderField \/ BadField
    PROVE  IInv'
<1>1. GotWholeField
  BY DEF RequestLine, HeaderField, BadField
<1>2. line \in bufferpos .. bufferend /\ line \in Nat
  BY <1>1 DEF GotWholeField, IInv, TypeOK, BufferBounds, HeadPhase
<1>3. ASSUME NEW n \in 1 .. 3, Words >= n
      PROVE  /\ WordPlace(n) \in bufferpos + 1 .. line
             /\ Word(n).k \in Kinds /\ Word(n).v \in Nat
  BY <1>1, <1>3, WordInField DEF IInv, Token
<1>4. Words \in Nat
  <2>1. WordPlaces \subseteq bufferpos + 1 .. line
    BY DEF WordPlaces, WordsIn
  <2>2. IsFiniteSet(bufferpos + 1 .. line)
    BY <1>2, StreamFacts, FS_Interval
  <2> QED BY <2>1, <2>2, FS_Subset, FS_CardinalityType DEF Words
<1>5. ASSUME session' \in SessionType, session'.position = session.position,
             session'.bytesLeftCt = session.bytesLeftCt,
             bufferpos' = line, pc' \in {"field", "handle"},
             UNCHANGED <<netVars, continued, base, bufferend, line, body, log>>
      PROVE  IInv'
  <2>1. TypeOK'
    BY <1>2, <1>5, StreamFacts DEF IInv, TypeOK, netVars, Stream, HeadPhase
  <2>2. BufferBounds'
    BY <1>2, <1>5, StreamFacts DEF IInv, BufferBounds, netVars
  <2> QED BY <2>1, <2>2 DEF IInv
<1>6. CASE RequestLine
  <2>1. Words >= 2
    BY <1>6 DEF RequestLine
  <2>2. PICK version \in IF Words >= 3 THEN {Word(3).v} ELSE StaleVersions :
          session' = [session EXCEPT !.gotLine = TRUE, !.method = Word(1).k,
                          !.uri = Word(2).k, !.version = version,
                          !.keepalive = version >= 11]
    BY <1>6 DEF RequestLine
  <2>3. version \in Nat
    <3>1. CASE Words >= 3
      BY <1>3, <2>2, <3>1
    <3>2. CASE ~(Words >= 3)
      BY <2>2, <3>2 DEF StaleVersions
    <3> QED BY <3>1, <3>2
  <2>4. Word(1).k \in Kinds /\ Word(2).k \in Kinds
    BY <1>3, <1>4, <2>1
  <2>5. (version >= 11) \in BOOLEAN
    BY <2>3
  <2>6. session' \in SessionType
    BY <2>2, <2>3, <2>4, <2>5 DEF IInv, TypeOK, SessionType
  <2>7. session'.position = session.position /\ session'.bytesLeftCt = session.bytesLeftCt
    BY <2>2 DEF IInv, TypeOK, SessionType
  <2> QED BY <1>5, <1>6, <2>6, <2>7 DEF RequestLine
<1>7. CASE HeaderField
  <2>1. Words >= 1 /\ bufferpos' = line /\ pc' = "field"
    BY <1>4, <1>7 DEF HeaderField, HasFieldName
  <2>2. Word(1).k \in Kinds /\ FieldValue \in Nat /\ FieldIsEmpty \in BOOLEAN
    <3>1. Word(1).k \in Kinds
      BY <1>3, <1>4, <2>1
    <3>2. CASE Words < 2
      BY <3>1, <3>2 DEF FieldValue, FieldIsEmpty
    <3>3. CASE Words >= 2
      BY <1>3, <1>4, <3>1, <3>3 DEF FieldValue, FieldIsEmpty
    <3> QED BY <1>4, <3>2, <3>3
  <2>3. ValuePlace - base \in Nat
    <3>1. CASE Words < 2
      <4>1. WordPlace(1) \in bufferpos + 1 .. line
        BY <1>3, <1>4, <2>1
      <4> QED BY <1>2, <3>1, <4>1, StreamFacts DEF ValuePlace, FieldIsEmpty
    <3>2. CASE Words >= 2
      <4>1. WordPlace(2) \in bufferpos + 1 .. line
        BY <1>3, <1>4, <3>2
      <4>2. ~FieldIsEmpty
        BY <1>4, <3>2 DEF FieldIsEmpty
      <4> QED BY <1>2, <4>1, <4>2, StreamFacts DEF ValuePlace
    <3> QED BY <1>4, <3>1, <3>2
  <2>4. session' = ProcessField(Word(1).k, FieldValue, ValuePlace - base, FieldIsEmpty)
    BY <1>7 DEF HeaderField
  <2>5. /\ session' \in SessionType /\ session'.position = session.position
        /\ session'.bytesLeftCt = session.bytesLeftCt
    BY <2>2, <2>3, <2>4, ProcessFieldType DEF IInv, TypeOK
  <2> QED BY <1>5, <1>7, <2>5 DEF HeaderField
<1>8. CASE BadField
  BY <1>8, RespondKeeps DEF BadField
<1> QED BY <1>6, <1>7, <1>8

\* The answers of the handlers and of a failed body.
LEMMA BodyRespondsKeep ==
    ASSUME IInv, \/ AnswerAtOnce \/ AnswerBody \/ ChunkError
                 \/ CannotSayContinue \/ RefillFails
    PROVE  IInv'
<1>1. ASSUME BodyFailure PROVE IInv'
  BY <1>1, RespondKeeps DEF BodyFailure
<1>2. CASE AnswerAtOnce
  BY <1>2, RespondKeeps DEF AnswerAtOnce
<1>3. CASE AnswerBody
  BY <1>3, RespondKeeps DEF AnswerBody
<1>4. CASE ChunkError \/ CannotSayContinue \/ RefillFails
  BY <1>1, <1>4 DEF ChunkError, CannotSayContinue, RefillFails
<1> QED BY <1>2, <1>3, <1>4

\* What a body reader takes out of the buffer was in it.
LEMMA DeliverTakesWhatIsThere ==
    ASSUME IInv, NEW n \in Nat, n <= Unread, Deliver(n)
    PROVE  /\ bufferpos' \in Nat /\ bufferpos <= bufferpos' /\ bufferpos' <= bufferend
           /\ body' \in Seq(Token)
<1>1. bufferpos' = bufferpos + n
  BY DEF Deliver
<1>2. body' = body \o SubSeq(Stream, bufferpos + 1, bufferpos + n)
  BY DEF Deliver
<1>3. bufferpos' \in Nat /\ bufferpos <= bufferpos' /\ bufferpos' <= bufferend
  BY <1>1, StreamFacts DEF Unread
<1>4. SubSeq(Stream, bufferpos + 1, bufferpos + n) \in Seq(Token)
  BY <1>1, <1>3, StreamFacts, SubSeqProperties
<1> QED BY <1>2, <1>3, <1>4 DEF IInv, TypeOK

\* getSomeUnchunkedRequestBody().
LEMMA TakePlainKeeps ==
    ASSUME IInv, TakePlain
    PROVE  IInv'
<1> DEFINE n == Smaller(MaxBytes, Unread)
<1>1. /\ Taking /\ Deliver(n)
      /\ UNCHANGED <<netVars, continued, base, bufferend, pc, line, session, log>>
  BY DEF TakePlain
<1>2. MaxBytes \in Int /\ Unread \in Nat
  BY LimitAssumption, StreamFacts DEF MaxBytes, Unread, IInv, TypeOK, SessionType
<1>3. n \in Nat /\ n <= Unread
  BY <1>1, <1>2 DEF Smaller, Deliver
<1>4. /\ bufferpos' \in Nat /\ bufferpos <= bufferpos' /\ bufferpos' <= bufferend
      /\ body' \in Seq(Token)
  BY <1>1, <1>3, DeliverTakesWhatIsThere
<1>5. TypeOK'
  BY <1>1, <1>4 DEF IInv, TypeOK, netVars, Stream
<1>6. BufferBounds'
  BY <1>1, <1>4, StreamFacts DEF IInv, BufferBounds, netVars, Taking, HeadPhase
<1> QED BY <1>5, <1>6 DEF IInv

\* getChunkData(): the chunk is left exactly when it has no bytes left.
LEMMA TakeChunkKeeps ==
    ASSUME IInv, TakeChunkData
    PROVE  IInv'
<1> DEFINE n == ChunkBytes
           left == session.bytesLeftCt
<1>1. /\ Taking /\ Deliver(n) /\ session.position = "INCHUNK"
      /\ UNCHANGED <<netVars, continued, base, bufferend, pc, line, log>>
  BY DEF TakeChunkData
<1>2. MaxBytes \in Int /\ Unread \in Nat /\ left \in Nat
  BY LimitAssumption, StreamFacts DEF MaxBytes, Unread, IInv, TypeOK, SessionType
<1>3. n \in Nat /\ n <= Unread /\ n <= left
  BY <1>1, <1>2 DEF ChunkBytes, Smaller, Deliver
<1>4. /\ bufferpos' \in Nat /\ bufferpos <= bufferpos' /\ bufferpos' <= bufferend
      /\ body' \in Seq(Token)
  BY <1>1, <1>3, DeliverTakesWhatIsThere
<1>5. session' = [session EXCEPT !.bytesLeftCt = left - n,
                      !.position = IF left = n THEN "AFTERCHUNK" ELSE "INCHUNK"]
  BY <1>1 DEF TakeChunkData
<1>6. left - n \in Nat /\ (left # n => left - n > 0)
  BY <1>2, <1>3
<1> HIDE DEF n, left
<1>7. /\ session' \in SessionType
      /\ session'.position = "INCHUNK" => session'.bytesLeftCt > 0
  BY <1>5, <1>6 DEF IInv, TypeOK, SessionType, Positions
<1>8. TypeOK'
  BY <1>1, <1>4, <1>7 DEF IInv, TypeOK, netVars, Stream
<1>9. BufferBounds'
  BY <1>1, <1>4, <1>7, StreamFacts DEF IInv, BufferBounds, netVars, Taking, HeadPhase
<1> QED BY <1>8, <1>9 DEF IInv

\* processChunkDelimIfThere() and processChunkHeaderIfThere().
LEMMA ChunkFramingKeeps ==
    ASSUME IInv, ChunkDelimiter \/ ChunkHeader
    PROVE  IInv'
<1>1. ASSUME session' \in SessionType,
             session'.position = "INCHUNK" => session'.bytesLeftCt > 0,
             bufferpos' \in bufferpos .. bufferend, pc = "take",
             UNCHANGED <<netVars, continued, base, bufferend, pc, line, body, log>>
      PROVE  IInv'
  <2>1. TypeOK'
    BY <1>1, StreamFacts DEF IInv, TypeOK, netVars, Stream
  <2>2. BufferBounds'
    BY <1>1, StreamFacts DEF IInv, BufferBounds, netVars, HeadPhase
  <2> QED BY <2>1, <2>2 DEF IInv
<1>2. CASE ChunkDelimiter
  <2>1. bufferpos' \in bufferpos .. bufferend
    BY <1>2, StreamFacts DEF ChunkDelimiter, Unread
  <2>2. session' = [session EXCEPT !.position = "ATHEADER"]
    BY <1>2 DEF ChunkDelimiter
  <2>3. session' \in SessionType /\ session'.position = "ATHEADER"
    BY <2>2 DEF IInv, TypeOK, SessionType, Positions
  <2> QED BY <1>1, <1>2, <2>1, <2>3 DEF ChunkDelimiter, AtDelimiter, Taking
<1>3. CASE ChunkHeader
  <2> DEFINE size == ChunkLineSize
  <2>1. LineEnd(bufferpos) \in bufferpos + 1 .. bufferend
    BY <1>3, LineEndInBuffer, StreamFacts DEF ChunkHeader, IInv
  <2>2. bufferpos' \in bufferpos .. bufferend
    BY <1>3, <2>1, StreamFacts DEF ChunkHeader
  <2>3. size \in Nat
    <3>1. bufferpos + 1 \in 1 .. bufferend
      BY <2>1, StreamFacts
    <3> QED BY <3>1, StreamFacts DEF Token, ChunkLineSize
  <2>4. session' = [session EXCEPT
                      !.position = IF size = 0 THEN "EOF" ELSE "INCHUNK",
                      !.bytesLeftCt = IF size = 0 THEN session.bytesLeftCt ELSE size]
    BY <1>3 DEF ChunkHeader
  <2> HIDE DEF size
  <2>5. session \in SessionType /\ {"EOF", "INCHUNK"} \subseteq Positions
    BY DEF IInv, TypeOK, Positions
  <2>6. /\ session' \in SessionType
        /\ session'.position = "INCHUNK" => session'.bytesLeftCt > 0
    <3>1. CASE size = 0
      <4>1. session' = [session EXCEPT !.position = "EOF",
                            !.bytesLeftCt = session.bytesLeftCt]
        BY <2>4, <3>1
      <4> QED BY <2>5, <4>1 DEF SessionType
    <3>2. CASE size # 0
      <4>1. session' = [session EXCEPT !.position = "INCHUNK", !.bytesLeftCt = size]
        BY <2>4, <3>2
      <4>2. session' \in SessionType
        BY <2>3, <2>5, <4>1 DEF SessionType
      <4>3. session'.bytesLeftCt = size
        BY <2>5, <4>1 DEF SessionType
      <4> QED BY <2>3, <3>2, <4>2, <4>3
    <3> QED BY <3>1, <3>2
  <2> QED BY <1>1, <1>3, <2>2, <2>6 DEF ChunkHeader, AtChunkHeader, Taking
<1> QED BY <1>2, <1>3

\* The start of a body and refillBuffer().
LEMMA RefillKeeps ==
    ASSUME IInv, StartBody \/ AskForMore \/ Refill \/ RefillReads
    PROVE  IInv'
<1> DEFINE survives(used) == Survives(session.useragent, used)
<1>1. ASSUME NEW used PROVE survives(used) \in BOOLEAN
  BY DEF Survives, IInv, TypeOK, SessionType
<1>2. CASE StartBody \/ AskForMore
  <2>1. /\ pc' \in {"take", "refill"}
        /\ UNCHANGED <<netVars, continued, bufferVars, line, session, body, log>>
    BY <1>2 DEF StartBody, AskForMore
  <2>2. TypeOK'
    BY <2>1 DEF IInv, TypeOK, netVars, bufferVars, Stream, BodyPhase
  <2>3. BufferBounds'
    BY <2>1 DEF IInv, BufferBounds, netVars, bufferVars, HeadPhase
  <2> QED BY <2>2, <2>3 DEF IInv
<1>3. CASE Refill
  <2> DEFINE intact == survives(Unread)
  <2>1. /\ base' = bufferpos /\ pc' = "wait"
        /\ continued' = ToldToContinue
        /\ UNCHANGED <<netVars, bufferpos, bufferend, line, body, log>>
    BY <1>3 DEF Refill, ReadInit
  <2>2. session' = [session EXCEPT !.continueRequired = FALSE, !.intact = intact]
    BY <1>3 DEF Refill
  <2>3. intact \in BOOLEAN
    BY <1>1
  <2> HIDE DEF intact
  <2>4. /\ session' \in SessionType /\ session'.position = session.position
        /\ session'.bytesLeftCt = session.bytesLeftCt
    BY <2>2, <2>3 DEF IInv, TypeOK, SessionType
  <2>5. continued' \subseteq Nat
    <3>1. Len(log) + 1 \in Nat /\ continued \subseteq Nat
      BY DEF IInv, TypeOK
    <3> QED BY <2>1, <3>1 DEF ToldToContinue
  <2>6. TypeOK'
    BY <2>1, <2>4, <2>5, StreamFacts DEF IInv, TypeOK, netVars, Stream, BodyPhase
  <2>7. /\ base' <= bufferpos' /\ bufferpos' <= bufferend' /\ bufferend' <= sent'
        /\ bufferend' - base' <= BufferSize - 1
    BY <2>1, StreamFacts, BufferAssumption DEF netVars
  <2>8. session'.position = "INCHUNK" => session'.bytesLeftCt > 0
    BY <2>4 DEF IInv, BufferBounds
  <2>9. BufferBounds'
    BY <2>1, <2>7, <2>8 DEF BufferBounds, HeadPhase
  <2> QED BY <2>6, <2>9 DEF IInv
<1>4. CASE RefillReads
  <2> DEFINE intact == survives(bufferend' - base)
  <2>1. /\ CanRead /\ ReadFromChannel /\ pc' = "take"
        /\ UNCHANGED <<netVars, continued, base, bufferpos, line, body, log>>
    BY <1>4 DEF RefillReads
  <2>2. session' = [session EXCEPT !.intact = intact]
    BY <1>4 DEF RefillReads
  <2>3. intact \in BOOLEAN
    BY <1>1
  <2> HIDE DEF intact
  <2>4. /\ session' \in SessionType /\ session'.position = session.position
        /\ session'.bytesLeftCt = session.bytesLeftCt
    BY <2>2, <2>3 DEF IInv, TypeOK, SessionType
  <2>5. /\ bufferend' \in Nat /\ bufferend <= bufferend' /\ bufferend' <= sent
        /\ bufferend' - base <= BufferSize - 1
    BY <2>1, ReadFits
  <2>6. TypeOK'
    BY <2>1, <2>4, <2>5, StreamFacts DEF IInv, TypeOK, netVars, Stream, BodyPhase
  <2>7. BufferBounds'
    BY <2>1, <2>4, <2>5, StreamFacts DEF IInv, BufferBounds, netVars, HeadPhase
  <2> QED BY <2>6, <2>7 DEF IInv
<1> QED BY <1>2, <1>3, <1>4

\* The client closing the connection.
LEMMA CloseKeeps ==
    ASSUME IInv, Close
    PROVE  IInv'
<1>1. TypeOK'
  BY DEF Close, IInv, TypeOK, bufferVars, Stream
<1>2. BufferBounds'
  BY DEF Close, IInv, BufferBounds, bufferVars
<1> QED BY <1>1, <1>2 DEF IInv

-----------------------------------------------------------------------------
(* Theorems *)

\* The invariant holds when the thread starts ...
THEOREM SessionInit == Init => IInv
<1> SUFFICES ASSUME Init PROVE IInv
  OBVIOUS
<1>1. /\ client \in Clients /\ client \in ClientType
      /\ sent = 0 /\ closed = FALSE /\ continued = {} /\ base = 0
      /\ bufferpos = 0 /\ bufferend = 0 /\ pc = "await" /\ line = 0
      /\ body = <<>> /\ log = <<>> /\ session = NewSession
  BY ClientsAssumption DEF Init
<1> DEFINE denies == Len(log) + 1 >= KeepaliveMax
<1>2. denies \in BOOLEAN
  BY <1>1, LimitAssumption
<1>3. session =
        [from |-> 0, version |-> 0, uri |-> "word", gotLine |-> FALSE,
         method |-> "word", keepalive |-> FALSE, serverDeniesKeepalive |-> denies,
         continueRequired |-> FALSE, requestIsChunked |-> FALSE,
         hasLength |-> FALSE, contentLength |-> 0, lengthIsEmpty |-> FALSE,
         useragent |-> 0, intact |-> TRUE, position |-> "ATHEADER", bytesLeftCt |-> 0]
  BY <1>1 DEF NewSession
<1>4. "word" \in Kinds /\ "ATHEADER" \in Positions
  BY DEF Kinds, Positions
<1> HIDE DEF denies
<1>5. session \in SessionType /\ session.position = "ATHEADER"
  BY <1>2, <1>3, <1>4 DEF SessionType
<1>6. Len(Stream) \in Nat
  BY <1>1 DEF ClientType, Stream
<1>7. TypeOK
  <2>1. <<>> \in Seq(Token)
    BY EmptySeq
  <2>2. <<>> \in Seq([from : Nat, body : Seq(Token), status : Nat])
    BY EmptySeq
  <2>3. sent \in 0 .. Len(Stream) /\ base \in Nat /\ bufferpos \in Nat
        /\ bufferend \in Nat /\ line \in Nat
    BY <1>1, <1>6
  <2>4. closed \in BOOLEAN /\ continued \subseteq Nat
    BY <1>1
  <2> QED BY <1>1, <1>5, <2>1, <2>2, <2>3, <2>4 DEF TypeOK
<1>8. BufferBounds
  BY <1>1, <1>5, BufferAssumption DEF BufferBounds, HeadPhase
<1> QED BY <1>7, <1>8 DEF IInv

\* ... and every step of the thread and of the client keeps it.
THEOREM SessionStep == IInv /\ [Next]_vars => IInv'
<1> SUFFICES ASSUME IInv, [Next]_vars PROVE IInv'
  OBVIOUS
<1>1. CASE Send
  BY <1>1, SendKeeps
<1>2. CASE Close
  BY <1>2, CloseKeeps
<1>3. CASE AwaitRequest \/ AwaitEnds
  BY <1>3, AwaitKeeps
<1>4. CASE ReadHead
  BY <1>4, LineReadingKeeps, FieldReadingKeeps, HeaderKeeps DEF ReadHead
<1>5. CASE ReadBody
  BY <1>5, TakePlainKeeps, TakeChunkKeeps, ChunkFramingKeeps, RefillKeeps,
     BodyRespondsKeep DEF ReadBody
<1>6. CASE AnswerAtOnce \/ AnswerBody
  BY <1>6, BodyRespondsKeep
<1>7. CASE UNCHANGED vars
  <2>1. TypeOK'
    BY <1>7 DEF vars, netVars, bufferVars, IInv, TypeOK, Stream
  <2>2. BufferBounds'
    BY <1>7 DEF vars, netVars, bufferVars, IInv, BufferBounds
  <2> QED BY <2>1, <2>2 DEF IInv
<1> QED BY <1>1, <1>2, <1>3, <1>4, <1>5, <1>6, <1>7 DEF Next, Server

\* The types and the bounds hold together in every state of the connection.
THEOREM SessionInvariant == Spec => []IInv
<1> QED BY SessionInit, SessionStep, PTL DEF Spec

\* The type invariant, for any clients and limits.
THEOREM SessionTypeCorrect == Spec => []TypeOK
<1>1. IInv => TypeOK
  BY DEF IInv
<1> QED BY <1>1, SessionInvariant, PTL

\* Whatever clients send and however it is cut up, the header reader, the body
\* readers and the refills stay within the buffer, the buffer keeps its last
\* place for the NUL, and a reader inside a chunk has bytes of it left.
THEOREM BufferSound == Spec => []BufferBounds
<1>1. IInv => BufferBounds
  BY DEF IInv
<1> QED BY <1>1, SessionInvariant, PTL

-----------------------------------------------------------------------------
(* The framing of requests: what the session knows of the request it reads, *)
(* and where in the client's stream it is, by RequestGrammar.                *)

\* The request at hand.
Current == Len(log) + 1
Request == client.requests[Current]

\* The requests answered with success are the client's, with their bodies.
Served ==
    \A i \in DOMAIN log : log[i].status = 200 =>
       /\ i \in DOMAIN client.requests
       /\ log[i].from = client.requests[i].from
       /\ log[i].body = client.requests[i].body

\* A client that does not pipeline has sent nothing of the next request.
InTurn == (Current \in DOMAIN client.requests /\ ~client.pipelines) => sent <= Request.to

\* Nothing but blank lines up to the request to come.
BeforeRequest(p) ==
    /\ Current \in 1 .. Len(client.requests) + 1
    /\ OnlyBlankLines(Stream, p, NextFrom(client, Current))

Unheard(ses) ==
    /\ ~ses.gotLine /\ ~ses.hasLength /\ ~ses.requestIsChunked /\ ~ses.continueRequired
    /\ ses.position = "ATHEADER"

\* What the session has of the fields of a header that end by the place u.
HeardLine(s, r, ses, u) ==
    /\ ses.gotLine <=> u > r.from
    /\ ses.gotLine => \E q \in FieldPlaces(s, r) :
          FieldFrom(s, r, r.from, q) /\ ses.method = Name(s, r.from, q)
          /\ ses.uri = Target(s, r.from, q)
HeardFraming(s, r, ses, u) ==
    /\ ses.hasLength <=> SaysBy(s, r, u, "content-length", Nat)
    /\ ses.hasLength => SaysBy(s, r, u, "content-length", {ses.contentLength})
    /\ ses.requestIsChunked <=> SaysBy(s, r, u, "transfer-encoding", {1})
Heard(s, r, ses, u) ==
    /\ HeardLine(s, r, ses, u) /\ HeardFraming(s, r, ses, u)
    /\ ses.continueRequired <=> SaysBy(s, r, u, "expect", {1})

InRequest == Current \in DOMAIN client.requests /\ session.from = Request.from

\* The header reader is at the field that begins at bufferpos; what it has heard
\* is what the fields before it say.
InHeader ==
    /\ InRequest /\ body = <<>> /\ session.position = "ATHEADER"
    /\ bufferpos \in FieldPlaces(Stream, Request)
    /\ Heard(Stream, Request, session, bufferpos)

\* It has looked at the field's lines up to line.
WithinField(s, r, p, l) ==
    /\ p < l /\ ~BlankAt(s, p) /\ l \in LinesIn(s, r.from, r.head)
    /\ \A o \in FieldPlaces(s, r) : ~(p < o /\ o < l)

\* The handler is to be told to continue, or has been.
Continues == Request.expects => session.continueRequired \/ Current \in continued

HeaderRead ==
    /\ InRequest
    /\ HeardLine(Stream, Request, session, Request.head)
    /\ HeardFraming(Stream, Request, session, Request.head)
    /\ Continues

\* The body so far, and where its next byte is to come from.
InPlainBody(s, r, ses, p, n) == ~ses.requestIsChunked /\ p = r.head + n

InChunk(s, c, ses, p, n) ==
    \/ ses.position = "ATHEADER" /\ p = c.at /\ n = c.before
    \/ /\ ses.position = "INCHUNK" /\ n >= c.before
       /\ p = c.data + (n - c.before)
       /\ p + ses.bytesLeftCt = c.data + ChunkSize(s, c)
    \/ /\ ses.position = "AFTERCHUNK" /\ p = c.data + ChunkSize(s, c)
       /\ n = c.before + ChunkSize(s, c)
    \/ ses.position = "EOF" /\ p = c.data /\ n = c.before

InChunkedBody(s, r, ses, p, n) ==
    /\ ses.requestIsChunked
    /\ \E k \in DOMAIN r.chunks :
          /\ InChunk(s, r.chunks[k], ses, p, n)
          /\ ses.position \in {"INCHUNK", "AFTERCHUNK"} => k < Len(r.chunks)
          /\ ses.position = "EOF" => k = Len(r.chunks)

InBody ==
    /\ HeaderRead
    /\ session.hasLength \/ session.requestIsChunked
    /\ session.uri = "/cpp" \/ (session.uri = "/RPC2" /\ session.hasLength)
    /\ IsPartOf(body, Request.body)
    /\ \/ InPlainBody(Stream, Request, session, bufferpos, Len(body))
       \/ InChunkedBody(Stream, Request, session, bufferpos, Len(body))

Framed ==
    /\ Served
    /\ InTurn
    /\ pc = "await" => BeforeRequest(bufferpos)
    /\ pc = "skip" => BeforeRequest(line) /\ body = <<>> /\ Unheard(session)
    /\ pc \in {"field", "rest"} => InHeader
    /\ pc = "field" => line = bufferpos
    /\ pc = "rest" => WithinField(Stream, Request, bufferpos, line)
    /\ pc = "handle" =>
          /\ HeaderRead /\ body = <<>> /\ session.position = "ATHEADER"
          /\ bufferpos = Request.head
    /\ pc \in BodyPhase => InBody
    /\ pc \in {"refill", "wait"} => bufferend < Request.to
    /\ pc = "wait" => (Request.expects => Current \in continued)

-----------------------------------------------------------------------------
(* What the grammar says of lines and fields. *)

\* getLineInBuffer() finds a line of the stream.
LEMMA LineEndEnds ==
    ASSUME IInv, NEW p \in Nat, HasLine(p)
    PROVE  LineEnd(p) \in p + 1 .. bufferend /\ LineFrom(Stream, p, LineEnd(p))
<1> DEFINE W == {j \in p + 1 .. bufferend : IsLf(j)}
<1>1. bufferend \in Nat /\ bufferend <= Len(Stream) /\ Len(Stream) \in Nat
  BY StreamFacts
<1>2. W \in SUBSET Nat /\ W # {}
  BY <1>1 DEF HasLine
<1>3. PICK j \in W : \A h \in W : j <= h
  BY <1>2, HasSmallest
<1>4. \A h \in p + 1 .. j - 1 : ~IsLf(h)
  BY <1>1, <1>2, <1>3
<1>5. LineEnd(p) \in p + 1 .. bufferend /\ IsLf(LineEnd(p))
      /\ \A h \in p + 1 .. LineEnd(p) - 1 : ~IsLf(h)
  BY <1>3, <1>4 DEF LineEnd
<1> QED BY <1>1, <1>5 DEF LineFrom, LfAt, IsLf

\* A line has one end.
LEMMA OneLineEnd ==
    ASSUME NEW s, NEW p \in Nat, NEW q \in Nat, NEW e \in Nat,
           LineFrom(s, p, q), LineFrom(s, p, e)
    PROVE  q = e
BY DEF LineFrom

\* Behind a blank line there are only blank lines, ...
LEMMA BlankStep ==
    ASSUME NEW s, Len(s) \in Nat, NEW p \in Nat, NEW q \in Nat, NEW e \in Nat,
           OnlyBlankLines(s, p, q), p < q, LineFrom(s, p, e)
    PROVE  OnlyBlankLines(s, e, q)
<1>1. q <= Len(s) /\ LfAt(s, q) /\ \A l \in LinesIn(s, p, q) : BlankAt(s, l)
  BY DEF OnlyBlankLines
<1>2. p < e /\ LfAt(s, e) /\ \A j \in p + 1 .. e - 1 : ~LfAt(s, j)
  BY DEF LineFrom
<1>3. e <= q
  BY <1>1, <1>2
<1>4. LinesIn(s, e, q) \subseteq LinesIn(s, p, q)
  BY <1>2, <1>3 DEF LinesIn
<1> QED BY <1>1, <1>3, <1>4 DEF OnlyBlankLines

\* ... and blank lines may follow blank lines.
LEMMA BlankJoin ==
    ASSUME NEW s, Len(s) \in Nat, NEW p \in Nat, NEW q \in Nat, NEW e \in Nat,
           OnlyBlankLines(s, p, q), OnlyBlankLines(s, q, e)
    PROVE  OnlyBlankLines(s, p, e)
<1>1. /\ p <= q /\ (p < q => LfAt(s, q)) /\ \A l \in LinesIn(s, p, q) : BlankAt(s, l)
      /\ q <= e /\ e <= Len(s) /\ (q < e => LfAt(s, e))
      /\ \A l \in LinesIn(s, q, e) : BlankAt(s, l)
  BY DEF OnlyBlankLines
<1>2. \A l \in LinesIn(s, p, e) : l \in LinesIn(s, p, q) \/ l \in LinesIn(s, q, e)
  BY <1>1 DEF LinesIn
<1>3. p < e => LfAt(s, e)
  BY <1>1
<1> QED BY <1>1, <1>2, <1>3 DEF OnlyBlankLines

\* A place of the request and one of its header, as numbers.
HeaderPlaces(s, r) ==
    Len(s) \in Nat /\ r.from \in Nat /\ r.head \in Nat /\ HeaderOK(s, r)

\* Where a line of a header may begin.
LEMMA FieldPlaceFacts ==
    ASSUME NEW s, NEW r, HeaderPlaces(s, r), NEW p \in LinesIn(s, r.from, r.head)
    PROVE  p \in Nat /\ r.from <= p /\ p < r.head /\ (p # r.from => LfAt(s, p))
BY DEF HeaderPlaces, LinesIn

\* After a line of the header that is not blank comes another one.
LEMMA NextLineOfHeader ==
    ASSUME NEW s, NEW r, HeaderPlaces(s, r), NEW l \in LinesIn(s, r.from, r.head),
           ~BlankAt(s, l), NEW e \in Nat, LineFrom(s, l, e)
    PROVE  e \in LinesIn(s, r.from, r.head)
<1>1. l \in Nat /\ r.from <= l /\ l < r.head
  BY FieldPlaceFacts
<1>2. /\ r.from \in Nat /\ r.head \in Nat /\ LfAt(s, r.head) /\ ~LineFrom(s, l, r.head)
  BY DEF HeaderPlaces, HeaderOK
<1>3. l < e /\ LfAt(s, e) /\ \A j \in l + 1 .. e - 1 : ~LfAt(s, j)
  BY DEF LineFrom
<1>4. e <= r.head
  BY <1>1, <1>2, <1>3
<1>5. e # r.head
  BY <1>2
<1> QED BY <1>1, <1>2, <1>3, <1>4, <1>5 DEF LinesIn

\* readField() has looked at the first line of a field.
LEMMA WithinFirst ==
    ASSUME NEW s, NEW r, HeaderPlaces(s, r), NEW p \in FieldPlaces(s, r),
           ~BlankAt(s, p), NEW e \in Nat, LineFrom(s, p, e)
    PROVE  WithinField(s, r, p, e)
<1>1. p \in LinesIn(s, r.from, r.head)
  BY DEF FieldPlaces
<1>2. p \in Nat /\ r.from <= p
  BY <1>1, FieldPlaceFacts
<1>3. p < e /\ \A j \in p + 1 .. e - 1 : ~LfAt(s, j)
  BY DEF LineFrom
<1>4. e \in LinesIn(s, r.from, r.head)
  BY <1>1, NextLineOfHeader
<1>5. ASSUME NEW o \in FieldPlaces(s, r), p < o, o < e
      PROVE  FALSE
  <2>1. o \in LinesIn(s, r.from, r.head)
    BY DEF FieldPlaces
  <2>2. o \in Nat /\ (o # r.from => LfAt(s, o))
    BY <2>1, FieldPlaceFacts
  <2>3. r.from \in Nat
    BY DEF HeaderPlaces
  <2> QED BY <1>2, <1>3, <1>5, <2>2, <2>3
<1> QED BY <1>3, <1>4, <1>5 DEF WithinField

\* getRestOfField() has looked at a line that continues it.
LEMMA WithinNext ==
    ASSUME NEW s, NEW r, HeaderPlaces(s, r), NEW p \in FieldPlaces(s, r),
           NEW l, WithinField(s, r, p, l), FoldAt(s, l), NEW e \in Nat, LineFrom(s, l, e)
    PROVE  WithinField(s, r, p, e)
<1>1. /\ p < l /\ ~BlankAt(s, p) /\ l \in LinesIn(s, r.from, r.head)
      /\ \A o \in FieldPlaces(s, r) : ~(p < o /\ o < l)
  BY DEF WithinField
<1>2. p \in Nat /\ r.from <= p /\ l \in Nat
  BY <1>1, FieldPlaceFacts DEF FieldPlaces
<1>3. l < e /\ \A j \in l + 1 .. e - 1 : ~LfAt(s, j)
  BY DEF LineFrom
<1>4. ~BlankAt(s, l) /\ l \notin FieldPlaces(s, r)
  BY DEF BlankAt, FoldAt, LfAt, FieldPlaces
<1>5. e \in LinesIn(s, r.from, r.head)
  BY <1>1, <1>4, NextLineOfHeader
<1>6. ASSUME NEW o \in FieldPlaces(s, r), p < o, o < e
      PROVE  FALSE
  <2>1. o \in LinesIn(s, r.from, r.head)
    BY DEF FieldPlaces
  <2>2. o \in Nat /\ (o # r.from => LfAt(s, o))
    BY <2>1, FieldPlaceFacts
  <2>3. r.from \in Nat
    BY DEF HeaderPlaces
  <2>4. l < o
    BY <1>1, <1>2, <1>4, <1>6, <2>2
  <2> QED BY <1>2, <1>3, <1>6, <2>2, <2>3, <2>4
<1> QED BY <1>1, <1>2, <1>3, <1>5, <1>6 DEF WithinField

\* A line that does not continue the field ends it.
LEMMA WithinEnds ==
    ASSUME NEW s, NEW r, NEW p \in FieldPlaces(s, r), NEW l, WithinField(s, r, p, l),
           ~FoldAt(s, l)
    PROVE  l \in FieldPlaces(s, r) /\ FieldFrom(s, r, p, l)
BY DEF WithinField, FieldFrom, FieldPlaces

\* One more field has been heard.
LEMMA SaysMore ==
    ASSUME NEW s, NEW r, HeaderPlaces(s, r), NEW p, NEW l, FieldFrom(s, r, p, l),
           NEW name, NEW V
    PROVE  SaysBy(s, r, l, name, V)
             <=> \/ SaysBy(s, r, p, name, V)
                 \/ r.from < p /\ Name(s, p, l) = name /\ Value(s, p, l) \in V
<1>1. /\ p \in FieldPlaces(s, r) /\ l \in FieldPlaces(s, r) /\ p < l
      /\ \A o \in FieldPlaces(s, r) : ~(p < o /\ o < l)
  BY DEF FieldFrom
<1>2. \A o \in FieldPlaces(s, r) : o \in Nat
  BY FieldPlaceFacts DEF FieldPlaces
<1>3. ASSUME NEW a \in FieldPlaces(s, r), NEW b \in FieldPlaces(s, r),
             FieldFrom(s, r, a, b), b <= l
      PROVE  b <= p \/ (a = p /\ b = l)
  <2>1. a < b /\ ~(a < p /\ p < b)
    BY <1>1, <1>3 DEF FieldFrom
  <2> QED BY <1>1, <1>2, <1>3, <2>1
<1>4. p \in Nat /\ l \in Nat
  BY <1>1, <1>2
<1>5. SaysBy(s, r, l, name, V) =>
         \/ SaysBy(s, r, p, name, V)
         \/ r.from < p /\ Name(s, p, l) = name /\ Value(s, p, l) \in V
  <2> SUFFICES ASSUME SaysBy(s, r, l, name, V)
               PROVE  \/ SaysBy(s, r, p, name, V)
                      \/ r.from < p /\ Name(s, p, l) = name /\ Value(s, p, l) \in V
    OBVIOUS
  <2>1. PICK a, b \in FieldPlaces(s, r) :
           /\ FieldFrom(s, r, a, b) /\ r.from < a /\ b <= l
           /\ Name(s, a, b) = name /\ Value(s, a, b) \in V
    BY DEF SaysBy
  <2>2. b <= p \/ (a = p /\ b = l)
    BY ONLY <2>1, <1>3
  <2> QED BY <2>1, <2>2 DEF SaysBy
<1>6. SaysBy(s, r, p, name, V) => SaysBy(s, r, l, name, V)
  <2> SUFFICES ASSUME SaysBy(s, r, p, name, V) PROVE SaysBy(s, r, l, name, V)
    OBVIOUS
  <2>1. PICK a, b \in FieldPlaces(s, r) :
           /\ FieldFrom(s, r, a, b) /\ r.from < a /\ b <= p
           /\ Name(s, a, b) = name /\ Value(s, a, b) \in V
    BY DEF SaysBy
  <2>2. b <= l
    BY <1>1, <1>2, <1>4, <2>1
  <2> QED BY <2>1, <2>2 DEF SaysBy
<1>7. r.from < p /\ Name(s, p, l) = name /\ Value(s, p, l) \in V => SaysBy(s, r, l, name, V)
  BY <1>1, <1>4 DEF SaysBy
<1> QED BY <1>5, <1>6, <1>7

\* At the request line no field has been heard.
LEMMA SaysNothing ==
    ASSUME NEW s, NEW r, HeaderPlaces(s, r), NEW name, NEW V
    PROVE  ~SaysBy(s, r, r.from, name, V)
<1>1. \A o \in FieldPlaces(s, r) : o \in Nat
  BY FieldPlaceFacts DEF FieldPlaces
<1>2. \A a, b \in FieldPlaces(s, r) : FieldFrom(s, r, a, b) => a < b
  BY DEF FieldFrom
<1>3. r.from \in Nat
  BY DEF HeaderPlaces
<1> QED BY <1>1, <1>2, <1>3 DEF SaysBy

\* At the blank line every field has been heard.
LEMMA SaysAll ==
    ASSUME NEW s, NEW r, HeaderPlaces(s, r), NEW p \in FieldPlaces(s, r), BlankAt(s, p),
           NEW name, NEW V
    PROVE  SaysBy(s, r, p, name, V) <=> Says(s, r, name, V)
<1>1. \A o \in FieldPlaces(s, r) :
         o \in Nat /\ o < r.head /\ (o # r.from => LfAt(s, o)) /\ r.from <= o
  BY FieldPlaceFacts DEF FieldPlaces
<1>2. LineFrom(s, p, r.head)
  BY DEF HeaderPlaces, HeaderOK, FieldPlaces
<1>3. r.from \in Nat /\ r.head \in Nat /\ \A j \in p + 1 .. r.head - 1 : ~LfAt(s, j)
  BY <1>2 DEF HeaderPlaces, LineFrom
<1>4. \A o \in FieldPlaces(s, r) : o <= p
  BY <1>1, <1>3
<1>5. \A o \in FieldPlaces(s, r) : o <= p /\ o <= r.head
  BY <1>1, <1>3, <1>4
<1> QED BY <1>5 DEF SaysBy, Says

-----------------------------------------------------------------------------
(* The request at hand, and answers. *)

\* What there is to know of a client's request.
RequestFacts(c, r) ==
    /\ r.from \in Nat /\ r.head \in Nat /\ r.to \in Nat /\ r.body \in Seq(Token)
    /\ r.chunks \in Seq([at : Nat, data : Nat, before : Nat])
    /\ HeaderPlaces(c.stream, r) /\ BodyOK(c.stream, r) /\ BodyIsTaken(c, r)

\* The requests of a proper client have them.
LEMMA RequestIs ==
    ASSUME IInv, Proper(client), NEW i \in DOMAIN client.requests
    PROVE  RequestFacts(client, client.requests[i])
<1> DEFINE RequestType == [from : Nat, head : Nat, to : Nat, body : Seq(Token),
                           expects : BOOLEAN,
                           chunks : Seq([at : Nat, data : Nat, before : Nat])]
<1>1. client.requests \in Seq(RequestType)
  BY StreamFacts DEF ClientType
<1>2. client.requests[i] \in RequestType
  <2> HIDE DEF RequestType
  <2> QED BY <1>1, ElementOfSeq
<1>3. Len(client.stream) \in Nat
  BY StreamFacts DEF Stream
<1> QED BY <1>2, <1>3 DEF Proper, WellFormed, RequestFacts, HeaderPlaces

\* The numbers of a client's requests, and of the one at hand.
LEMMA CurrentIs ==
    ASSUME IInv
    PROVE  /\ Current \in Nat /\ Current >= 1 /\ Len(log) = Current - 1
           /\ Len(client.requests) \in Nat
           /\ DOMAIN client.requests = 1 .. Len(client.requests)
           /\ DOMAIN log = 1 .. Current - 1
           /\ log \in Seq([from : Nat, body : Seq(Token), status : Nat])
<1>1. log \in Seq([from : Nat, body : Seq(Token), status : Nat])
  BY DEF IInv, TypeOK
<1>2. Len(log) \in Nat /\ DOMAIN log = 1 .. Len(log)
  BY <1>1
<1>3. Len(client.requests) \in Nat /\ DOMAIN client.requests = 1 .. Len(client.requests)
  BY StreamFacts DEF ClientType
<1> QED BY <1>1, <1>2, <1>3 DEF Current

\* One request after the other.
LEMMA InOrder ==
    ASSUME IInv, Proper(client), NEW i \in DOMAIN client.requests
    PROVE  /\ OnlyBlankLines(client.stream, client.requests[i].to, NextFrom(client, i + 1))
           /\ i + 1 \in DOMAIN client.requests => client.requests[i].to <= client.requests[i + 1].to
<1>1. Len(client.requests) \in Nat /\ DOMAIN client.requests = 1 .. Len(client.requests)
  BY CurrentIs
<1>2. i + 1 \in 1 .. Len(client.requests) + 1 /\ i + 1 # 1 /\ (i + 1) - 1 = i
  BY <1>1
<1>3. OnlyBlankLines(client.stream, EndBefore(client, i + 1), NextFrom(client, i + 1))
  BY <1>2 DEF Proper, WellFormed
<1>4. EndBefore(client, i + 1) = client.requests[i].to
  BY <1>2 DEF EndBefore
<1>5. ASSUME i + 1 \in DOMAIN client.requests
      PROVE  client.requests[i].to <= client.requests[i + 1].to
  <2> DEFINE r == client.requests[i + 1]
  <2>1. RequestFacts(client, r) /\ RequestFacts(client, client.requests[i])
    BY <1>5, RequestIs
  <2>2. r.from \in Nat /\ r.head \in Nat /\ r.to \in Nat /\ client.requests[i].to \in Nat
        /\ r.from < r.head /\ r.head <= r.to
    BY <2>1 DEF RequestFacts, HeaderPlaces, HeaderOK, BodyOK
  <2>3. client.requests[i].to <= r.from
    BY <1>3, <1>4, <1>5 DEF OnlyBlankLines, NextFrom
  <2> QED BY <2>2, <2>3
<1> QED BY <1>3, <1>4, <1>5

\* The next request's turn comes after this one's.
LEMMA TurnPasses ==
    ASSUME IInv, Proper(client), InTurn, Current \in DOMAIN client.requests,
           client' = client, sent' = sent, Current' = Current + 1
    PROVE  InTurn'
<1> SUFFICES ASSUME Current + 1 \in DOMAIN client.requests, ~client.pipelines
             PROVE  sent <= client.requests[Current + 1].to
  BY DEF InTurn, Request
<1>1. sent <= client.requests[Current].to
  BY DEF InTurn, Request
<1>2. client.requests[Current].to <= client.requests[Current + 1].to
  BY InOrder
<1>3. client.requests[Current].to \in Nat /\ client.requests[Current + 1].to \in Nat
  <2>1. RequestFacts(client, client.requests[Current])
    BY RequestIs
  <2>2. RequestFacts(client, client.requests[Current + 1])
    BY RequestIs
  <2> QED BY ONLY <2>1, <2>2 DEF RequestFacts
<1>4. sent \in Nat
  BY StreamFacts
<1> QED BY ONLY <1>1, <1>2, <1>3, <1>4

\* Every request but those answered with success ends the connection.
LEMMA RefusalFramed ==
    ASSUME IInv, Proper(client), Framed, NEW status \in Nat, status >= 400, Respond(status)
    PROVE  Framed'
<1> DEFINE e == [from |-> session.from, body |-> body, status |-> status]
<1>1. /\ client' = client /\ sent' = sent /\ log' = Append(log, e) /\ pc' = "closed"
      /\ e.status # 200
  BY DEF Respond, netVars, Keepalive
<1> HIDE DEF e
<1>2. /\ Len(log') = Len(log) + 1 /\ DOMAIN log' = DOMAIN log \cup {Len(log) + 1}
      /\ log'[Len(log) + 1] = e /\ \A i \in DOMAIN log : log'[i] = log[i]
  BY <1>1, CurrentIs
<1>3. Served'
  BY <1>1, <1>2 DEF Framed, Served
<1>4. InTurn'
  <2>1. Current' = Current + 1
    BY <1>2 DEF Current
  <2>2. CASE Current \in DOMAIN client.requests
    BY <1>1, <2>1, <2>2, TurnPasses DEF Framed
  <2>3. CASE Current \notin DOMAIN client.requests
    BY <1>1, <2>1, <2>3, CurrentIs DEF InTurn
  <2> QED BY <2>2, <2>3
<1> QED BY <1>1, <1>3, <1>4 DEF Framed, BodyPhase

\* A request whose body was taken is answered, and its end is where the next
\* one's beginning is looked for.
LEMMA AnswerFramed ==
    ASSUME IInv, Proper(client), Framed, Respond(200), InRequest, body = Request.body,
           OnlyBlankLines(Stream, bufferpos, NextFrom(client, Current + 1))
    PROVE  Framed'
<1> DEFINE e == [from |-> session.from, body |-> body, status |-> 200]
<1>1. /\ client' = client /\ sent' = sent /\ log' = Append(log, e)
      /\ pc' \in {"await", "closed"} /\ bufferpos' = bufferpos
      /\ e.from = Request.from /\ e.body = Request.body
  BY DEF Respond, netVars, InRequest
<1> HIDE DEF e
<1>2. /\ Len(log') = Len(log) + 1 /\ DOMAIN log' = DOMAIN log \cup {Len(log) + 1}
      /\ log'[Len(log) + 1] = e /\ \A i \in DOMAIN log : log'[i] = log[i]
  BY <1>1, CurrentIs
<1>3. Current \in DOMAIN client.requests
  BY DEF InRequest
<1>4. Served'
  BY <1>1, <1>2, <1>3 DEF Framed, Served, Current, Request
<1>5. Current' = Current + 1
  BY <1>2 DEF Current
<1>6. InTurn'
  BY <1>1, <1>3, <1>5, TurnPasses DEF Framed
<1>7. BeforeRequest(bufferpos)'
  <2>1. Current + 1 \in 1 .. Len(client.requests) + 1
    BY <1>3, CurrentIs
  <2>2. Stream' = Stream /\ NextFrom(client', Current') = NextFrom(client, Current + 1)
    BY <1>1, <1>5 DEF Stream
  <2> QED BY <1>1, <1>5, <2>1, <2>2 DEF BeforeRequest
<1> QED BY <1>1, <1>4, <1>6, <1>7 DEF Framed, BodyPhase

\* While the same request is at hand, what is said of it is said of the same.
LEMMA SameRequest ==
    ASSUME UNCHANGED <<client, log>>
    PROVE  /\ Stream' = Stream /\ Current' = Current /\ Request' = Request
           /\ NextFrom(client', Current') = NextFrom(client, Current)
           /\ Served => Served'
           /\ \A p : BeforeRequest(p) => BeforeRequest(p)'
           /\ sent' = sent => (InTurn => InTurn')
<1>1. Stream' = Stream /\ Current' = Current /\ Request' = Request
  BY DEF Stream, Current, Request
<1>2. NextFrom(client', Current') = NextFrom(client, Current)
  BY <1>1
<1>3. Served => Served'
  BY DEF Served
<1>4. ASSUME NEW p, BeforeRequest(p) PROVE BeforeRequest(p)'
  BY <1>1, <1>2, <1>4 DEF BeforeRequest
<1>5. ASSUME sent' = sent, InTurn PROVE InTurn'
  BY <1>1, <1>5 DEF InTurn
<1> QED BY <1>1, <1>2, <1>3, <1>4, <1>5

-----------------------------------------------------------------------------
(* Every action keeps the framing. *)

\* The client sends, to the end of the request at hand if it does not pipeline.
LEMMA SendFramed ==
    ASSUME IInv, Proper(client), Framed, Send
    PROVE  Framed'
<1>1. UNCHANGED <<client, closed, continued, bufferVars, pc, line, session, body, log>>
  BY DEF Send
<1>2. /\ Stream' = Stream /\ Current' = Current /\ Request' = Request
      /\ NextFrom(client', Current') = NextFrom(client, Current)
      /\ Served => Served' /\ \A p : BeforeRequest(p) => BeforeRequest(p)'
  BY <1>1, SameRequest
<1>3. InTurn'
  <2> SUFFICES ASSUME Current \in DOMAIN client.requests, ~client.pipelines
               PROVE  sent' <= Request.to
    BY <1>1, <1>2 DEF InTurn
  <2>1. RequestFacts(client, Request)
    BY RequestIs DEF Request
  <2>2. Request.head \in Nat /\ Request.to \in Nat /\ Request.head <= Request.to
    BY <2>1 DEF RequestFacts, BodyOK
  <2>3. SendLimit <= Request.to /\ SendLimit \in Nat
    BY <2>2, CurrentIs DEF SendLimit, Current, Request
  <2>4. sent' \in sent + 1 .. SendLimit /\ sent \in Nat
    BY StreamFacts DEF Send
  <2> QED BY <2>2, <2>3, <2>4
<1>4. InHeader => InHeader'
  BY <1>1, <1>2 DEF InHeader, InRequest, bufferVars
<1>5. HeaderRead => HeaderRead'
  BY <1>1, <1>2 DEF HeaderRead, InRequest, Continues
<1>6. InBody => InBody'
  BY <1>1, <1>2, <1>5 DEF InBody, bufferVars
<1> QED BY <1>1, <1>2, <1>3, <1>4, <1>5, <1>6 DEF Framed, bufferVars

\* Steps that only read from the channel, or nothing of what is said here.
LEMMA QuietFramed ==
    ASSUME IInv, Proper(client), Framed,
           UNCHANGED <<client, sent, continued, bufferpos, line, session, body, log, pc>>,
           pc \in {"refill", "wait"} => bufferend' = bufferend
    PROVE  Framed'
<1>2. /\ Stream' = Stream /\ Current' = Current /\ Request' = Request
      /\ NextFrom(client', Current') = NextFrom(client, Current)
      /\ Served => Served' /\ \A p : BeforeRequest(p) => BeforeRequest(p)'
      /\ InTurn => InTurn'
  BY SameRequest
<1>4. InHeader => InHeader'
  BY <1>2 DEF InHeader, InRequest
<1>5. HeaderRead => HeaderRead'
  BY <1>2 DEF HeaderRead, InRequest, Continues
<1>6. InBody => InBody'
  BY <1>2, <1>5 DEF InBody
<1> QED BY <1>2, <1>4, <1>5, <1>6 DEF Framed

\* serverFunc() waiting for a request.
LEMMA AwaitFramed ==
    ASSUME IInv, Proper(client), Framed, AwaitRequest \/ AwaitEnds
    PROVE  Framed'
<1>1. UNCHANGED <<client, sent, log>> /\ pc = "await" /\ BeforeRequest(bufferpos)
  BY DEF AwaitRequest, AwaitEnds, netVars, Framed
<1>2. /\ Stream' = Stream /\ Current' = Current /\ Request' = Request
      /\ NextFrom(client', Current') = NextFrom(client, Current)
      /\ Served' /\ InTurn' /\ \A p : BeforeRequest(p) => BeforeRequest(p)'
  BY <1>1, SameRequest DEF Framed
<1>3. CASE AwaitEnds
  <2>1. pc' = "closed"
    BY <1>3 DEF AwaitEnds
  <2> QED BY <1>2, <2>1 DEF Framed, BodyPhase
<1>4. CASE AwaitRequest
  <2>1. pc' = "skip" /\ line' = bufferpos /\ session' = NewSession /\ body' = <<>>
    BY <1>4 DEF AwaitRequest
  <2>2. Unheard(session')
    BY <2>1 DEF Unheard, NewSession
  <2>3. BeforeRequest(bufferpos)'
    <3>1. BeforeRequest(bufferpos)
      BY <1>1
    <3>2. bufferpos' = bufferpos
      BY <1>4 DEF AwaitRequest
    <3> QED BY <1>2, <3>1, <3>2 DEF BeforeRequest
  <2>4. BeforeRequest(line)'
    <3>1. line' = bufferpos'
      BY <1>4 DEF AwaitRequest
    <3> QED BY <2>3, <3>1 DEF BeforeRequest
  <2> QED BY <1>2, <2>1, <2>2, <2>4 DEF Framed, BodyPhase
<1> QED BY <1>3, <1>4

\* skipToNonemptyLine()
LEMMA SkipFramed ==
    ASSUME IInv, Proper(client), Framed, SkipEmptyLine
    PROVE  Framed'
<1>1. /\ UNCHANGED <<client, sent, log, pc, session, body>> /\ pc = "skip"
      /\ HasLine(line) /\ IsEmptyLine(line) /\ line' = LineEnd(line)
  BY DEF SkipEmptyLine, netVars
<1>2. /\ Stream' = Stream /\ Current' = Current
      /\ NextFrom(client', Current') = NextFrom(client, Current)
      /\ Served' /\ InTurn'
  BY <1>1, SameRequest DEF Framed
<1>3. BeforeRequest(line) /\ body = <<>> /\ Unheard(session)
  BY <1>1 DEF Framed
<1>4. line \in Nat /\ Len(Stream) \in Nat /\ bufferend \in Nat
  BY StreamFacts DEF IInv, TypeOK
<1>5. LineEnd(line) \in line + 1 .. bufferend /\ LineFrom(Stream, line, LineEnd(line))
  BY <1>1, <1>4, LineEndEnds
<1>6. NextFrom(client, Current) \in Nat /\ line < NextFrom(client, Current)
  <2>1. CASE Current \in DOMAIN client.requests
    <3>1. RequestFacts(client, client.requests[Current])
      BY <2>1, RequestIs
    <3>2. ~BlankAt(Stream, client.requests[Current].from)
      BY <3>1 DEF RequestFacts, HeaderPlaces, HeaderOK, Stream
    <3>3. line # client.requests[Current].from
      BY <1>1, <3>2 DEF IsEmptyLine, BlankAt, LfAt, IsLf
    <3> QED BY <1>3, <1>4, <2>1, <3>1, <3>3
            DEF BeforeRequest, OnlyBlankLines, NextFrom, RequestFacts
  <2>2. CASE Current \notin DOMAIN client.requests
    <3>1. NextFrom(client, Current) = Len(Stream)
      BY <2>2 DEF NextFrom, Stream
    <3>2. bufferend <= Len(Stream)
      BY StreamFacts
    <3> QED BY <1>4, <1>5, <3>1, <3>2
  <2> QED BY <2>1, <2>2
<1>7. OnlyBlankLines(Stream, LineEnd(line), NextFrom(client, Current))
  <2>1. LineEnd(line) \in Nat
    BY <1>4, <1>5
  <2>2. OnlyBlankLines(Stream, line, NextFrom(client, Current))
    BY <1>3 DEF BeforeRequest
  <2> QED BY ONLY <1>4, <1>5, <1>6, <2>1, <2>2, BlankStep
<1>8. BeforeRequest(line)'
  BY <1>1, <1>2, <1>3, <1>7 DEF BeforeRequest
<1> QED BY <1>1, <1>2, <1>3, <1>8 DEF Framed, BodyPhase

\* The first line that is not blank is the request line of the request to come.
LEMMA FoundFramed ==
    ASSUME IInv, Proper(client), Framed, FoundRequestLine
    PROVE  Framed'
<1>1. /\ UNCHANGED <<client, sent, continued, log, line, body>> /\ pc = "skip" /\ pc' = "field"
      /\ HasLine(line) /\ ~IsEmptyLine(line) /\ bufferpos' = line
      /\ session' = [session EXCEPT !.from = line]
  BY DEF FoundRequestLine, netVars
<1>2. /\ Stream' = Stream /\ Current' = Current /\ Request' = Request
      /\ Served' /\ InTurn'
  BY <1>1, SameRequest DEF Framed
<1>3. BeforeRequest(line) /\ body = <<>> /\ Unheard(session)
  BY <1>1 DEF Framed
<1>4. line \in Nat /\ Len(Stream) \in Nat /\ bufferend \in Nat /\ bufferend <= Len(Stream)
  BY StreamFacts DEF IInv, TypeOK
<1>5. LineEnd(line) \in line + 1 .. bufferend /\ LineFrom(Stream, line, LineEnd(line))
  BY <1>1, <1>4, LineEndEnds
<1>6. ~BlankAt(Stream, line)
  BY <1>1 DEF IsEmptyLine, BlankAt, LfAt, IsLf
<1>7. Current \in DOMAIN client.requests /\ line = Request.from
  <2>1. line <= NextFrom(client, Current)
        /\ \A l \in LinesIn(Stream, line, NextFrom(client, Current)) : BlankAt(Stream, l)
    BY <1>3 DEF BeforeRequest, OnlyBlankLines
  <2>2. NextFrom(client, Current) \in Nat
    <3>1. CASE Current \in DOMAIN client.requests
      <4>1. RequestFacts(client, client.requests[Current])
        BY <3>1, RequestIs
      <4> QED BY <3>1, <4>1 DEF RequestFacts, NextFrom
    <3>2. CASE Current \notin DOMAIN client.requests
      BY <1>4, <3>2 DEF NextFrom, Stream
    <3> QED BY <3>1, <3>2
  <2>3. line = NextFrom(client, Current)
    <3>1. SUFFICES ASSUME line < NextFrom(client, Current) PROVE FALSE
      BY <1>4, <2>1, <2>2
    <3>2. line \in LinesIn(Stream, line, NextFrom(client, Current))
      BY <1>4, <2>2, <3>1 DEF LinesIn
    <3> QED BY <1>6, <2>1, <3>2
  <2>4. CASE Current \notin DOMAIN client.requests
    <3>1. NextFrom(client, Current) = Len(Stream)
      BY <2>4 DEF NextFrom, Stream
    <3> QED BY <1>4, <1>5, <2>3, <3>1
  <2> QED BY <2>3, <2>4 DEF NextFrom, Request
<1> DEFINE r == Request
<1>8. RequestFacts(client, r) /\ HeaderPlaces(Stream, r)
  BY <1>7, RequestIs DEF Request, RequestFacts, Stream
<1>9. r.from \in FieldPlaces(Stream, r) /\ r.from \in Nat
  BY <1>8 DEF HeaderPlaces, HeaderOK
<1>10. session' \in [from : Nat, version : Nat, uri : Kinds, gotLine : BOOLEAN,
     method : Kinds, keepalive : BOOLEAN, serverDeniesKeepalive : BOOLEAN,
     continueRequired : BOOLEAN, requestIsChunked : BOOLEAN,
     hasLength : BOOLEAN, contentLength : Nat, lengthIsEmpty : BOOLEAN,
     useragent : Nat, intact : BOOLEAN, position : Positions, bytesLeftCt : Nat]
       /\ session'.from = line /\ Unheard(session')
  BY <1>1, <1>3, <1>4 DEF IInv, TypeOK, SessionType, Unheard
<1>11. Heard(Stream, r, session', r.from)
  <2>1. \A name, V : ~SaysBy(Stream, r, r.from, name, V)
    BY <1>8, SaysNothing
  <2>2. ~(r.from > r.from)
    BY <1>9
  <2> QED BY <1>10, <2>1, <2>2 DEF Heard, HeardLine, HeardFraming, Unheard
<1>12. InHeader'
  BY <1>1, <1>2, <1>3, <1>7, <1>9, <1>10, <1>11 DEF InHeader, InRequest, Unheard
<1> QED BY <1>1, <1>2, <1>12 DEF Framed, BodyPhase

-----------------------------------------------------------------------------
(* Fields. *)

\* Where the header reader is, in the words of the grammar.
LEMMA HeaderFacts ==
    ASSUME IInv, Proper(client), Framed, pc \in {"field", "rest"}
    PROVE  /\ InRequest /\ body = <<>> /\ session.position = "ATHEADER"
           /\ Heard(Stream, Request, session, bufferpos)
           /\ bufferpos \in FieldPlaces(Stream, Request)
           /\ bufferpos \in Nat /\ line \in Nat
           /\ RequestFacts(client, Request) /\ HeaderPlaces(Stream, Request)
           /\ Request.from \in Nat /\ Request.head \in Nat /\ Request.from <= bufferpos
<1>1. InHeader
  BY DEF Framed
<1>2. RequestFacts(client, Request) /\ HeaderPlaces(Stream, Request)
  BY <1>1, RequestIs DEF InHeader, InRequest, Request, RequestFacts, Stream
<1>3. bufferpos \in LinesIn(Stream, Request.from, Request.head)
  BY <1>1 DEF InHeader, FieldPlaces
<1>4. bufferpos \in Nat /\ Request.from <= bufferpos
  BY <1>2, <1>3, FieldPlaceFacts
<1>5. line \in Nat
  BY DEF IInv, TypeOK
<1> QED BY <1>1, <1>2, <1>4, <1>5 DEF InHeader, RequestFacts

\* readField() and getRestOfField() looking at lines.
LEMMA LinesFramed ==
    ASSUME IInv, Proper(client), Framed, FirstLineOfField \/ ContinuationLine
    PROVE  Framed'
<1>1. /\ UNCHANGED <<client, sent, continued, log, bufferpos, session, body>>
      /\ pc \in {"field", "rest"} /\ pc' = "rest"
  BY DEF FirstLineOfField, ContinuationLine, netVars, bufferVars
<1>2. /\ Stream' = Stream /\ Current' = Current /\ Request' = Request
      /\ Served' /\ InTurn'
  BY <1>1, SameRequest DEF Framed
<1>3. /\ InHeader /\ bufferpos \in FieldPlaces(Stream, Request) /\ bufferpos \in Nat
      /\ line \in Nat /\ HeaderPlaces(Stream, Request)
  BY <1>1, HeaderFacts DEF Framed
<1>4. InHeader'
  BY <1>1, <1>2, <1>3 DEF InHeader, InRequest
<1>5. WithinField(Stream, Request, bufferpos, line')
  <2>1. CASE FirstLineOfField
    <3>1. HasLine(bufferpos) /\ ~IsEmptyLine(bufferpos) /\ line' = LineEnd(bufferpos)
      BY <2>1 DEF FirstLineOfField
    <3>2. ~BlankAt(Stream, bufferpos)
      BY <3>1 DEF IsEmptyLine, BlankAt, LfAt, IsLf
    <3>3. LineEnd(bufferpos) \in Nat /\ LineFrom(Stream, bufferpos, LineEnd(bufferpos))
      BY <1>3, <3>1, LineEndEnds, StreamFacts
    <3> QED BY ONLY <1>3, <3>1, <3>2, <3>3, WithinFirst
  <2>2. CASE ContinuationLine
    <3>1. HasLine(line) /\ IsContinuationLine(line) /\ line' = LineEnd(line) /\ pc = "rest"
      BY <2>2 DEF ContinuationLine
    <3>2. FoldAt(Stream, line)
      BY <3>1 DEF IsContinuationLine, FoldAt
    <3>3. LineEnd(line) \in Nat /\ LineFrom(Stream, line, LineEnd(line))
      BY <1>3, <3>1, LineEndEnds, StreamFacts
    <3>4. WithinField(Stream, Request, bufferpos, line)
      BY <3>1 DEF Framed
    <3> QED BY ONLY <1>3, <3>1, <3>2, <3>3, <3>4, WithinNext
  <2> QED BY <2>1, <2>2
<1>6. WithinField(Stream, Request, bufferpos, line)'
  BY ONLY <1>1, <1>2, <1>5 DEF WithinField
<1> QED BY <1>1, <1>2, <1>4, <1>6 DEF Framed, BodyPhase

\* The blank line: all of the header has been heard.
LEMMA HeadEndFramed ==
    ASSUME IInv, Proper(client), Framed, EndOfHeader
    PROVE  Framed'
<1>1. /\ UNCHANGED <<client, sent, continued, log, line, session, body>>
      /\ pc = "field" /\ pc' = "handle" /\ HasLine(bufferpos) /\ IsEmptyLine(bufferpos)
      /\ bufferpos' = LineEnd(bufferpos)
  BY DEF EndOfHeader, netVars
<1>2. /\ Stream' = Stream /\ Current' = Current /\ Request' = Request
      /\ Served' /\ InTurn'
  BY <1>1, SameRequest DEF Framed
<1> DEFINE r == Request
           p == bufferpos
<1>3. /\ InRequest /\ body = <<>> /\ session.position = "ATHEADER"
      /\ Heard(Stream, r, session, p) /\ p \in FieldPlaces(Stream, r)
      /\ p \in Nat /\ HeaderPlaces(Stream, r) /\ r.from \in Nat /\ r.head \in Nat
      /\ r.from <= p
  BY <1>1, HeaderFacts
<1>4. BlankAt(Stream, p)
  BY <1>1 DEF IsEmptyLine, BlankAt, LfAt, IsLf
<1>5. bufferpos' = r.head
  <2>1. LineEnd(p) \in Nat /\ LineFrom(Stream, p, LineEnd(p))
    BY <1>1, <1>3, LineEndEnds, StreamFacts
  <2>2. LineFrom(Stream, p, r.head)
    BY <1>3, <1>4 DEF HeaderPlaces, HeaderOK, FieldPlaces
  <2>3. LineEnd(p) = r.head
    BY ONLY <1>3, <2>1, <2>2, OneLineEnd
  <2> QED BY <1>1, <2>3
<1>6. \A name, V : SaysBy(Stream, r, p, name, V) <=> SaysBy(Stream, r, r.head, name, V)
  BY <1>3, <1>4, SaysAll DEF Says
<1>7. p > r.from /\ r.head > r.from
  <2>1. ~BlankAt(Stream, r.from) /\ r.from < r.head
    BY <1>3 DEF HeaderPlaces, HeaderOK
  <2> QED BY <1>3, <1>4, <2>1
<1>8. Heard(Stream, r, session, r.head)
  BY <1>3, <1>6, <1>7 DEF Heard, HeardLine, HeardFraming
<1>9. r.expects => session.continueRequired
  BY <1>3, <1>8 DEF HeaderPlaces, HeaderOK, Heard, Says
<1>10. HeaderRead'
  BY <1>1, <1>2, <1>3, <1>8, <1>9 DEF HeaderRead, InRequest, Heard, Continues
<1> QED BY <1>1, <1>2, <1>3, <1>5, <1>10 DEF Framed, BodyPhase

\* The field that the reader has is one of the header's.
LEMMA WholeField ==
    ASSUME IInv, Proper(client), Framed, GotWholeField
    PROVE  /\ line \in FieldPlaces(Stream, Request)
           /\ FieldFrom(Stream, Request, bufferpos, line) /\ bufferpos < line
           /\ Words >= 2 /\ (bufferpos = Request.from => Words >= 3)
           /\ Word(1).k = Name(Stream, bufferpos, line)
           /\ Word(2).k = Target(Stream, bufferpos, line)
           /\ FieldValue = Value(Stream, bufferpos, line)
           /\ FieldValue \in Nat
<1>1. pc = "rest" /\ ~FoldAt(Stream, line)
  BY DEF GotWholeField, IsContinuationLine, FoldAt
<1>2. /\ bufferpos \in FieldPlaces(Stream, Request) /\ HeaderPlaces(Stream, Request)
      /\ WithinField(Stream, Request, bufferpos, line)
  BY <1>1, HeaderFacts DEF Framed
<1>3. line \in FieldPlaces(Stream, Request) /\ FieldFrom(Stream, Request, bufferpos, line)
  BY ONLY <1>1, <1>2, WithinEnds
<1>4. Cardinality(WordsIn(Stream, bufferpos, line)) >= (IF bufferpos = Request.from THEN 3 ELSE 2)
  BY <1>2, <1>3 DEF HeaderPlaces, HeaderOK
<1>5. Words = Cardinality(WordsIn(Stream, bufferpos, line))
  BY DEF Words, WordPlaces
<1>6. Words \in Nat /\ Words >= 2 /\ (bufferpos = Request.from => Words >= 3)
  <2>1. Words \in Nat
    <3>1. bufferpos \in Nat /\ line \in Nat
      BY DEF IInv, TypeOK
    <3>2. WordPlaces \subseteq bufferpos + 1 .. line
      BY DEF WordPlaces, WordsIn
    <3>3. IsFiniteSet(bufferpos + 1 .. line)
      BY <3>1, FS_Interval
    <3> QED BY <3>2, <3>3, FS_Subset, FS_CardinalityType DEF Words
  <2> QED BY <1>4, <1>5, <2>1
<1>7. /\ Word(1).k = Name(Stream, bufferpos, line)
      /\ Word(2).k = Target(Stream, bufferpos, line)
      /\ Word(2).v = Value(Stream, bufferpos, line)
  BY DEF Word, WordPlace, WordPlaces, Name, Target, Value
<1>8. Word(2) \in Token
  BY <1>6, WordInField DEF IInv
<1>9. Word(2).v \in Nat
  BY <1>8 DEF Token
<1>10. bufferpos < line
  BY <1>2 DEF WithinField
<1>11. FieldValue = Word(2).v
  <2>1. Words \in Nat
    BY <1>6
  <2> QED BY <1>6, <2>1 DEF FieldValue, FieldIsEmpty
<1> QED BY <1>3, <1>6, <1>7, <1>9, <1>10, <1>11

\* parseRequestLine()
LEMMA RequestLineFramed ==
    ASSUME IInv, Proper(client), Framed, RequestLine
    PROVE  Framed'
<1> DEFINE r == Request
           p == bufferpos
<1>1. /\ UNCHANGED <<client, sent, continued, log, line, body>> /\ pc = "rest"
      /\ GotWholeField /\ ~session.gotLine /\ bufferpos' = line
  BY DEF RequestLine, netVars, GotWholeField
<1>2. /\ Stream' = Stream /\ Current' = Current /\ Request' = Request
      /\ Served' /\ InTurn'
  BY <1>1, SameRequest DEF Framed
<1>3. /\ InRequest /\ body = <<>> /\ session.position = "ATHEADER"
      /\ Heard(Stream, r, session, p) /\ p \in FieldPlaces(Stream, r)
      /\ p \in Nat /\ line \in Nat /\ HeaderPlaces(Stream, r) /\ r.from \in Nat
      /\ r.from <= p
  BY <1>1, HeaderFacts
<1>4. /\ line \in FieldPlaces(Stream, r) /\ FieldFrom(Stream, r, p, line) /\ p < line
      /\ (p = r.from => Words >= 3)
      /\ Word(1).k = Name(Stream, p, line) /\ Word(2).k = Target(Stream, p, line)
  BY <1>1, WholeField
<1>5. p = r.from
  BY <1>1, <1>3 DEF Heard, HeardLine
<1>6. pc' = "field"
  BY <1>4, <1>5 DEF RequestLine
<1>7. PICK version : session' = [session EXCEPT !.gotLine = TRUE, !.method = Word(1).k,
                                   !.uri = Word(2).k, !.version = version,
                                   !.keepalive = version >= 11]
  BY DEF RequestLine
<1>8. /\ session'.gotLine /\ session'.method = Name(Stream, r.from, line)
      /\ session'.uri = Target(Stream, r.from, line)
      /\ session'.from = session.from /\ session'.position = "ATHEADER"
      /\ session'.hasLength = session.hasLength
      /\ session'.contentLength = session.contentLength
      /\ session'.requestIsChunked = session.requestIsChunked
      /\ session'.continueRequired = session.continueRequired
  BY <1>3, <1>4, <1>5, <1>7 DEF IInv, TypeOK, SessionType
<1>9. \A name, V : SaysBy(Stream, r, line, name, V) <=> SaysBy(Stream, r, p, name, V)
  <2> SUFFICES ASSUME NEW name, NEW V
               PROVE  SaysBy(Stream, r, line, name, V) <=> SaysBy(Stream, r, p, name, V)
    OBVIOUS
  <2>1. ~(r.from < p)
    BY <1>3, <1>5
  <2> QED BY ONLY <1>3, <1>4, <2>1, SaysMore
<1>10. line > r.from
  BY <1>3, <1>4, <1>5
<1>11. Heard(Stream, r, session', line)
  BY <1>3, <1>4, <1>5, <1>8, <1>9, <1>10 DEF Heard, HeardLine, HeardFraming
<1>12. InHeader'
  BY <1>1, <1>2, <1>3, <1>4, <1>8, <1>11 DEF InHeader, InRequest
<1> QED BY <1>1, <1>2, <1>6, <1>12 DEF Framed, BodyPhase

\* processField()
LEMMA FieldFramed ==
    ASSUME IInv, Proper(client), Framed, HeaderField
    PROVE  Framed'
<1> DEFINE r == Request
           p == bufferpos
           name == Word(1).k
           value == FieldValue
<1>1. /\ UNCHANGED <<client, sent, continued, log, line, body>> /\ pc = "rest" /\ pc' = "field"
      /\ GotWholeField /\ session.gotLine /\ bufferpos' = line
      /\ session' = ProcessField(name, value, ValuePlace - base, FieldIsEmpty)
  BY DEF HeaderField, netVars, GotWholeField
<1>2. /\ Stream' = Stream /\ Current' = Current /\ Request' = Request
      /\ Served' /\ InTurn'
  BY <1>1, SameRequest DEF Framed
<1>3. /\ InRequest /\ body = <<>> /\ session.position = "ATHEADER"
      /\ Heard(Stream, r, session, p) /\ p \in FieldPlaces(Stream, r)
      /\ p \in Nat /\ line \in Nat /\ HeaderPlaces(Stream, r) /\ r.from \in Nat
      /\ r.from <= p
  BY <1>1, HeaderFacts
<1>4. /\ line \in FieldPlaces(Stream, r) /\ FieldFrom(Stream, r, p, line) /\ p < line
      /\ name = Name(Stream, p, line) /\ value = Value(Stream, p, line) /\ value \in Nat
  BY <1>1, WholeField
<1>5. r.from < p /\ line > r.from /\ session.gotLine
  BY <1>1, <1>3, <1>4 DEF Heard, HeardLine
<1> HIDE DEF name, value
<1>6. /\ session'.gotLine = session.gotLine /\ session'.method = session.method
      /\ session'.uri = session.uri
      /\ session'.from = session.from /\ session'.position = "ATHEADER"
      /\ session'.hasLength = (session.hasLength \/ name = "content-length")
      /\ session'.contentLength = IF name = "content-length" /\ ~session.hasLength
                                  THEN value ELSE session.contentLength
      /\ session'.requestIsChunked = (session.requestIsChunked
                                      \/ (name = "transfer-encoding" /\ value = 1))
      /\ session'.continueRequired = (session.continueRequired
                                      \/ (name = "expect" /\ value = 1))
  BY <1>1, <1>3 DEF ProcessField, IInv, TypeOK, SessionType
<1>7. ASSUME NEW n, NEW V
      PROVE  SaysBy(Stream, r, line, n, V)
               <=> SaysBy(Stream, r, p, n, V) \/ (name = n /\ value \in V)
  BY ONLY <1>3, <1>4, <1>5, <1>7, SaysMore
<1>8. session'.hasLength <=> SaysBy(Stream, r, line, "content-length", Nat)
  BY <1>3, <1>4, <1>6, <1>7 DEF Heard, HeardFraming
<1>9. session'.hasLength =>
         SaysBy(Stream, r, line, "content-length", {session'.contentLength})
  <2> SUFFICES ASSUME session'.hasLength
               PROVE  SaysBy(Stream, r, line, "content-length", {session'.contentLength})
    OBVIOUS
  <2>1. CASE session.hasLength
    <3>1. SaysBy(Stream, r, p, "content-length", {session.contentLength})
      BY <1>3, <2>1 DEF Heard, HeardFraming
    <3>2. session'.contentLength = session.contentLength
      BY <1>6, <2>1
    <3> QED BY <1>7, <3>1, <3>2
  <2>2. CASE ~session.hasLength
    <3>1. name = "content-length" /\ value = session'.contentLength
      BY <1>6, <2>2
    <3> QED BY <1>7, <3>1
  <2> QED BY <2>1, <2>2
<1>10. session'.requestIsChunked <=> SaysBy(Stream, r, line, "transfer-encoding", {1})
  BY <1>3, <1>6, <1>7 DEF Heard, HeardFraming
<1>11. session'.continueRequired <=> SaysBy(Stream, r, line, "expect", {1})
  BY <1>3, <1>6, <1>7 DEF Heard
<1>12. HeardLine(Stream, r, session', line)
  BY <1>3, <1>5, <1>6 DEF Heard, HeardLine
<1>13. Heard(Stream, r, session', line)
  BY ONLY <1>8, <1>9, <1>10, <1>11, <1>12 DEF Heard, HeardFraming
<1>14. InHeader'
  BY <1>1, <1>2, <1>3, <1>4, <1>6, <1>13 DEF InHeader, InRequest
<1> QED BY <1>1, <1>2, <1>14 DEF Framed, BodyPhase

-----------------------------------------------------------------------------
(* Bodies. *)

\* A part of a sequence has its elements, ...
LEMMA PartIs ==
    ASSUME NEW part \in Seq(Token), NEW whole \in Seq(Token)
    PROVE  IsPartOf(part, whole)
             <=> /\ Len(part) <= Len(whole)
                 /\ \A j \in 1 .. Len(part) : part[j] = whole[j]
<1>1. ASSUME Len(part) <= Len(whole), \A j \in 1 .. Len(part) : part[j] = whole[j]
      PROVE  part = SubSeq(whole, 1, Len(part))
  <2> DEFINE q == SubSeq(whole, 1, Len(part))
  <2>1. q \in Seq(Token) /\ Len(q) = Len(part) /\ \A j \in 1 .. Len(part) : q[j] = whole[j]
    BY <1>1
  <2> HIDE DEF q
  <2>2. \A j \in 1 .. Len(part) : part[j] = q[j]
    BY <1>1, <2>1
  <2> QED BY <2>1, <2>2, SeqEqual DEF q
<1>2. ASSUME Len(part) <= Len(whole), part = SubSeq(whole, 1, Len(part))
      PROVE  \A j \in 1 .. Len(part) : part[j] = whole[j]
  <2> DEFINE q == SubSeq(whole, 1, Len(part))
  <2>1. \A j \in 1 .. Len(part) : q[j] = whole[j]
    BY <1>2
  <2>2. part = q
    BY <1>2
  <2> QED BY <2>1, <2>2
<1> QED BY <1>1, <1>2 DEF IsPartOf

\* ... and is still a part when what comes next is added.
LEMMA PartGrows ==
    ASSUME NEW part \in Seq(Token), NEW whole \in Seq(Token), NEW s \in Seq(Token),
           NEW p \in Nat, NEW n \in Nat, IsPartOf(part, whole), p + n <= Len(s),
           Len(part) + n <= Len(whole),
           \A j \in 1 .. n : s[p + j] = whole[Len(part) + j]
    PROVE  LET more == part \o SubSeq(s, p + 1, p + n)
           IN  /\ more \in Seq(Token) /\ Len(more) = Len(part) + n
               /\ IsPartOf(more, whole)
<1> DEFINE t == SubSeq(s, p + 1, p + n)
           more == part \o t
<1>1. t \in Seq(Token) /\ Len(t) = n /\ \A j \in 1 .. n : t[j] = s[p + j]
  <2>1. p + 1 \in Nat /\ p + n \in Nat /\ Len(s) \in Nat
    OBVIOUS
  <2>2. t \in Seq(Token)
    BY <2>1
  <2>3. Len(t) = n
    BY <2>1
  <2>4. \A j \in 1 .. n : t[j] = s[p + j]
    <3> SUFFICES ASSUME NEW j \in 1 .. n PROVE t[j] = s[p + j]
      OBVIOUS
    <3>1. t[j] = s[p + 1 + j - 1]
      BY <2>1
    <3>2. p + 1 + j - 1 = p + j
      OBVIOUS
    <3> QED BY <3>1, <3>2
  <2> QED BY <2>2, <2>3, <2>4
<1> HIDE DEF t
<1>2. /\ more \in Seq(Token) /\ Len(more) = Len(part) + n
      /\ \A j \in 1 .. Len(part) + n :
            more[j] = IF j <= Len(part) THEN part[j] ELSE t[j - Len(part)]
  <2>1. t \in Seq(Token) /\ part \in Seq(Token) /\ Len(t) = n
    BY <1>1
  <2> QED BY ONLY <2>1, ConcatProperties
<1> HIDE DEF more
<1>3. ASSUME NEW j \in 1 .. Len(part) + n
      PROVE  more[j] = whole[j]
  <2>1. Len(part) \in Nat
    OBVIOUS
  <2>2. CASE j <= Len(part)
    <3>1. more[j] = part[j]
      BY <1>2, <2>2
    <3>2. IsPartOf(part, whole) /\ part \in Seq(Token) /\ whole \in Seq(Token)
      OBVIOUS
    <3>3. \A i \in 1 .. Len(part) : part[i] = whole[i]
      BY ONLY <3>2, PartIs
    <3>4. j \in 1 .. Len(part)
      BY <2>1, <2>2
    <3> QED BY ONLY <3>1, <3>3, <3>4
  <2>3. CASE j > Len(part)
    <3> DEFINE i == j - Len(part)
    <3>1. i \in 1 .. n /\ Len(part) + i = j
      BY <2>1, <2>3
    <3>2. more[j] = t[i]
      BY <1>2, <2>1, <2>3
    <3> HIDE DEF i
    <3>3. \A h \in 1 .. n : s[p + h] = whole[Len(part) + h]
      OBVIOUS
    <3>4. t[i] = s[p + i]
      BY ONLY <1>1, <3>1
    <3>5. s[p + i] = whole[Len(part) + i]
      BY ONLY <3>1, <3>3
    <3> QED BY ONLY <3>1, <3>2, <3>4, <3>5
  <2> QED BY <2>1, <2>2, <2>3
<1>4. IsPartOf(more, whole)
  <2>1. Len(more) <= Len(whole) /\ more \in Seq(Token) /\ whole \in Seq(Token)
    BY <1>2
  <2>2. \A j \in 1 .. Len(more) : more[j] = whole[j]
    BY <1>2, <1>3
  <2> QED BY ONLY <2>1, <2>2, PartIs
<1> QED BY <1>2, <1>4 DEF more, t

\* A request that takes no more place than its header has no body.
LEMMA NoBodyNoPlace ==
    ASSUME NEW c, NEW r, RequestFacts(c, r), r.to = r.head
    PROVE  r.body = <<>>
<1>1. r.head \in Nat /\ r.to \in Nat /\ r.body \in Seq(Token) /\ Len(r.body) \in Nat
  BY DEF RequestFacts
<1>2. CASE GivesLength(c.stream, r)
  <2>1. r.to = r.head + Len(r.body)
    BY <1>2 DEF RequestFacts, BodyOK, PlainOK
  <2>2. Len(r.body) = 0
    BY <1>1, <2>1
  <2> QED BY <1>1, <2>2, EmptySeq
<1>3. CASE IsChunked(c.stream, r)
  <2> DEFINE ChunkType == [at : Nat, data : Nat, before : Nat]
             d == r.chunks[1]
  <2>1. ChunksOK(c.stream, r) /\ r.chunks \in Seq(ChunkType)
    BY <1>3 DEF RequestFacts, BodyOK
  <2>2. /\ 1 \in DOMAIN r.chunks /\ 1 \in 1 .. Len(r.chunks) /\ d.at = r.head
        /\ DOMAIN r.chunks = 1 .. Len(r.chunks)
    <3>1. DOMAIN r.chunks = 1 .. Len(r.chunks) /\ Len(r.chunks) \in Nat
      BY ONLY <2>1, LenProperties
    <3> QED BY <2>1, <3>1 DEF ChunksOK
  <2>3. d \in ChunkType
    <3> HIDE DEF ChunkType
    <3> QED BY ONLY <2>1, <2>2, ElementOfSeq
  <2>4. LineFrom(c.stream, d.at, d.data) /\ d.data < r.to
    BY <2>1, <2>2 DEF ChunksOK, ChunkLine
  <2>5. d.at < d.data
    BY <2>4 DEF LineFrom
  <2> QED BY <1>1, <2>2, <2>3, <2>4, <2>5
<1>4. CASE ~GivesLength(c.stream, r) /\ ~IsChunked(c.stream, r)
  BY <1>4 DEF RequestFacts, BodyOK
<1> QED BY <1>2, <1>3, <1>4

\* A chunk of the request's body.
LEMMA ChunkIs ==
    ASSUME NEW c, NEW r, RequestFacts(c, r), ChunksOK(c.stream, r), c.stream \in Seq(Token),
           NEW k \in DOMAIN r.chunks
    PROVE  /\ r.chunks[k].at \in Nat /\ r.chunks[k].data \in Nat /\ r.chunks[k].before \in Nat
           /\ ChunkSize(c.stream, r.chunks[k]) \in Nat
           /\ Len(r.chunks) \in Nat /\ k \in 1 .. Len(r.chunks)
           /\ r.to \in Nat /\ Len(r.body) \in Nat
<1> DEFINE ChunkType == [at : Nat, data : Nat, before : Nat]
<1>0. r.chunks \in Seq(ChunkType) /\ r.to \in Nat /\ r.body \in Seq(Token)
  BY DEF RequestFacts
<1>a. DOMAIN r.chunks = 1 .. Len(r.chunks) /\ Len(r.chunks) \in Nat /\ Len(r.body) \in Nat
  BY ONLY <1>0, LenProperties
<1>1. r.chunks[k] \in ChunkType
  <2> HIDE DEF ChunkType
  <2>1. k \in 1 .. Len(r.chunks)
    BY <1>a
  <2> QED BY ONLY <1>0, <2>1, ElementOfSeq
<1>2. /\ r.chunks[k].at < r.chunks[k].data /\ r.chunks[k].data <= Len(c.stream)
      /\ Len(c.stream) \in Nat
  BY DEF ChunksOK, ChunkLine, LineFrom
<1>3. r.chunks[k].at + 1 \in 1 .. Len(c.stream)
  BY <1>1, <1>2
<1>4. c.stream[r.chunks[k].at + 1] \in Token
  BY <1>3, ElementOfSeq
<1>5. ChunkSize(c.stream, r.chunks[k]) \in Nat
  BY <1>4 DEF ChunkSize, Token
<1> QED BY <1>0, <1>a, <1>1, <1>5

\* The session's idea of the body's framing is the client's.
Framing(s, r, ses) ==
    /\ ses.hasLength <=> GivesLength(s, r)
    /\ ses.requestIsChunked <=> IsChunked(s, r)
    /\ ~(ses.hasLength /\ ses.requestIsChunked)
    /\ ses.hasLength => ses.contentLength = Len(r.body) /\ PlainOK(s, r)
    /\ ses.requestIsChunked => ChunksOK(s, r)

\* What the session knows of the request when its header has been read.
LEMMA HeaderIsRead ==
    ASSUME IInv, Proper(client), HeaderRead
    PROVE  /\ RequestFacts(client, Request) /\ Current \in DOMAIN client.requests
           /\ Stream = client.stream /\ Stream \in Seq(Token) /\ Request.body \in Seq(Token)
           /\ Request.head \in Nat /\ Request.to \in Nat /\ Request.to <= Len(Stream)
           /\ Framing(Stream, Request, session)
           /\ session.uri = "/RPC2" /\ session.method = "OPTIONS" => Request.to = Request.head
           /\ session.uri = "/cpp" /\ session.hasLength =>
                 ~client.pipelines \/ Request.to = Len(Stream)
<1> DEFINE r == Request
<1>1. Current \in DOMAIN client.requests /\ RequestFacts(client, r)
  BY RequestIs DEF HeaderRead, InRequest, Request
<1>2. Stream = client.stream /\ Stream \in Seq(Token)
  BY StreamFacts DEF Stream
<1>3. /\ HeardLine(Stream, r, session, r.head) /\ HeardFraming(Stream, r, session, r.head)
      /\ HeaderOK(Stream, r) /\ BodyOK(Stream, r) /\ BodyIsTaken(client, r)
      /\ r.from \in Nat /\ r.head \in Nat /\ r.to \in Nat /\ r.body \in Seq(Token)
  BY <1>1, <1>2 DEF HeaderRead, RequestFacts, HeaderPlaces
<1>4. /\ session.hasLength <=> GivesLength(Stream, r)
      /\ session.requestIsChunked <=> IsChunked(Stream, r)
      /\ session.hasLength => Says(Stream, r, "content-length", {session.contentLength})
  BY <1>3 DEF HeardFraming, GivesLength, IsChunked, Says
<1>5. ASSUME session.hasLength
      PROVE  session.contentLength = Len(r.body) /\ PlainOK(Stream, r)
  <2>1. PlainOK(Stream, r)
    BY <1>3, <1>4, <1>5 DEF BodyOK
  <2>2. Says(Stream, r, "content-length", {session.contentLength})
    BY <1>4, <1>5
  <2>3. ~Says(Stream, r, "content-length", Nat \ {Len(r.body)})
    BY <2>1 DEF PlainOK
  <2>4. session.contentLength \in Nat
    BY DEF IInv, TypeOK, SessionType
  <2>5. ASSUME session.contentLength # Len(r.body)
        PROVE  Says(Stream, r, "content-length", Nat \ {Len(r.body)})
    <3>1. \A x : x \in {session.contentLength} => x \in Nat \ {Len(r.body)}
      BY <2>4, <2>5
    <3> QED BY <2>2, <3>1 DEF Says, SaysBy
  <2> QED BY <2>1, <2>3, <2>5
<1>6. PICK q \in FieldPlaces(Stream, r) :
         /\ FieldFrom(Stream, r, r.from, q) /\ session.method = Name(Stream, r.from, q)
         /\ session.uri = Target(Stream, r.from, q)
  <2>1. r.head > r.from
    BY <1>3 DEF HeaderOK
  <2> QED BY <1>3, <2>1 DEF HeardLine
<1>7. /\ session.uri = "/RPC2" /\ session.method = "OPTIONS" => r.to = r.head
      /\ session.uri = "/cpp" /\ session.hasLength => ~client.pipelines \/ r.to = Len(Stream)
  BY <1>2, <1>3, <1>4, <1>6 DEF BodyIsTaken
<1>8. /\ ~(session.hasLength /\ session.requestIsChunked) /\ r.to <= Len(Stream)
      /\ session.requestIsChunked => ChunksOK(Stream, r)
  BY <1>3, <1>4 DEF BodyOK
<1>9. Framing(Stream, r, session)
  BY <1>4, <1>5, <1>8 DEF Framing
<1> QED BY <1>1, <1>2, <1>3, <1>7, <1>8, <1>9

-----------------------------------------------------------------------------
(* The handler. *)

\* What comes after the request at hand.
LEMMA AfterRequest ==
    ASSUME IInv, Proper(client), Current \in DOMAIN client.requests
    PROVE  OnlyBlankLines(Stream, Request.to, NextFrom(client, Current + 1))
BY InOrder DEF Request, Stream

\* Answers that need no body.
LEMMA AtOnceFramed ==
    ASSUME IInv, Proper(client), Framed, AnswerAtOnce
    PROVE  Framed'
<1>1. HeaderRead /\ body = <<>> /\ bufferpos = Request.head
  BY DEF AnswerAtOnce, Framed
<1>2. /\ RequestFacts(client, Request) /\ Current \in DOMAIN client.requests
      /\ Stream = client.stream /\ Framing(Stream, Request, session)
      /\ session.uri = "/RPC2" /\ session.method = "OPTIONS" => Request.to = Request.head
  BY <1>1, HeaderIsRead
<1>3. ASSUME Respond(200), Request.to = Request.head
      PROVE  Framed'
  <2>1. body = Request.body
    BY <1>1, <1>2, <1>3, NoBodyNoPlace
  <2>2. OnlyBlankLines(Stream, bufferpos, NextFrom(client, Current + 1))
    BY <1>1, <1>2, <1>3, AfterRequest
  <2> QED BY <1>1, <1>3, <2>1, <2>2, AnswerFramed DEF HeaderRead
<1>4. ASSUME \/ Respond(505) \/ Respond(405) \/ Respond(411) \/ Respond(400)
             \/ Respond(500) \/ Respond(404)
      PROVE  Framed'
  BY <1>4, RefusalFramed
<1>5. CASE session.uri = "/RPC2" /\ session.method = "OPTIONS" /\ Respond(200)
  BY <1>2, <1>3, <1>5
<1>6. CASE session.uri = "/cpp" /\ ~HasBody /\ Respond(200)
  <2>1. ~GivesLength(Stream, Request) /\ ~IsChunked(Stream, Request)
    BY <1>2, <1>6 DEF HasBody, Framing
  <2>2. Request.to = Request.head
    BY <1>2, <2>1 DEF RequestFacts, BodyOK
  <2> QED BY <1>3, <1>6, <2>2
<1> QED BY <1>4, <1>5, <1>6 DEF AnswerAtOnce

\* A handler begins with its body.
LEMMA StartFramed ==
    ASSUME IInv, Proper(client), Framed, StartBody
    PROVE  Framed'
<1>1. /\ UNCHANGED <<client, sent, continued, bufferpos, log, line, session, body>>
      /\ pc' = "take"
      /\ session.hasLength \/ session.requestIsChunked
      /\ session.uri = "/cpp" \/ (session.uri = "/RPC2" /\ session.hasLength)
  BY DEF StartBody, netVars, bufferVars, HasBody
<1>2. HeaderRead /\ body = <<>> /\ bufferpos = Request.head /\ session.position = "ATHEADER"
  BY DEF StartBody, Framed
<1>3. /\ RequestFacts(client, Request) /\ Stream = client.stream
      /\ Framing(Stream, Request, session)
  BY <1>2, HeaderIsRead
<1>4. /\ Stream' = Stream /\ Current' = Current /\ Request' = Request /\ Served' /\ InTurn'
  BY <1>1, SameRequest DEF Framed
<1>5. IsPartOf(<<>>, Request.body)
  <2>1. <<>> \in Seq(Token) /\ Len(<<>>) = 0
    OBVIOUS
  <2>2. Request.body \in Seq(Token) /\ 0 <= Len(Request.body)
    BY <1>3 DEF RequestFacts
  <2>3. SubSeq(Request.body, 1, 0) = <<>>
    BY SubSeqEmpty
  <2> QED BY <2>1, <2>2, <2>3 DEF IsPartOf
<1>7. InPlainBody(Stream, Request, session, bufferpos, 0)
      \/ InChunkedBody(Stream, Request, session, bufferpos, 0)
  <2>1. CASE ~session.requestIsChunked
    <3>1. Request.head \in Nat
      BY <1>3 DEF RequestFacts
    <3> QED BY <1>2, <2>1, <3>1 DEF InPlainBody
  <2>2. CASE session.requestIsChunked
    <3>1. ChunksOK(Stream, Request)
      BY <1>3, <2>2 DEF Framing
    <3>2. 1 \in DOMAIN Request.chunks
      <4> DEFINE ChunkType == [at : Nat, data : Nat, before : Nat]
      <4>1. Request.chunks \in Seq(ChunkType)
        BY <1>3 DEF RequestFacts
      <4> HIDE DEF ChunkType
      <4>2. DOMAIN Request.chunks = 1 .. Len(Request.chunks) /\ Len(Request.chunks) \in Nat
        BY ONLY <4>1, LenProperties
      <4> QED BY <3>1, <4>2 DEF ChunksOK
    <3>3. InChunk(Stream, Request.chunks[1], session, bufferpos, 0)
      BY <1>2, <3>1 DEF ChunksOK, InChunk
    <3> QED BY <1>2, <2>2, <3>2, <3>3 DEF InChunkedBody
  <2> QED BY <2>1, <2>2
<1>8. InBody'
  <2>1. HeaderRead'
    BY <1>1, <1>2, <1>4 DEF HeaderRead, InRequest, Continues
  <2>2. Len(body) = 0
    BY <1>2
  <2> QED BY <1>1, <1>2, <1>4, <1>5, <1>7, <2>1, <2>2 DEF InBody
<1> QED BY <1>1, <1>4, <1>8 DEF Framed

-----------------------------------------------------------------------------
(* The body. *)

\* A handler that is taking a body: what is known of it.
LEMMA BodyFacts ==
    ASSUME IInv, Proper(client), Framed, pc \in BodyPhase
    PROVE  /\ RequestFacts(client, Request) /\ Current \in DOMAIN client.requests
           /\ HeaderRead /\ Framing(Stream, Request, session)
           /\ Stream = client.stream /\ Stream \in Seq(Token) /\ Len(Stream) \in Nat
           /\ Request.body \in Seq(Token) /\ Len(Request.body) \in Nat
           /\ Request.head \in Nat /\ Request.to \in Nat /\ Request.to <= Len(Stream)
           /\ session \in SessionType /\ session.bytesLeftCt \in Nat
           /\ body \in Seq(Token) /\ Len(body) \in Nat
           /\ IsPartOf(body, Request.body) /\ Len(body) <= Len(Request.body)
<1>1. InBody
  BY DEF Framed
<1>2. HeaderRead /\ IsPartOf(body, Request.body)
  BY <1>1 DEF InBody
<1>3. /\ RequestFacts(client, Request) /\ Current \in DOMAIN client.requests
      /\ Framing(Stream, Request, session)
      /\ Stream = client.stream /\ Stream \in Seq(Token) /\ Request.body \in Seq(Token)
      /\ Request.head \in Nat /\ Request.to \in Nat /\ Request.to <= Len(Stream)
  BY <1>2, HeaderIsRead
<1>4. body \in Seq(Token) /\ session \in SessionType
  BY DEF IInv, TypeOK
<1>5. Len(body) \in Nat /\ Len(Request.body) \in Nat /\ Len(Stream) \in Nat
  BY <1>3, <1>4
<1>6. session.bytesLeftCt \in Nat
  BY <1>4 DEF SessionType
<1> QED BY <1>2, <1>3, <1>4, <1>5, <1>6 DEF IsPartOf

\* A plain body is taken from where the header ends.
LEMMA PlainFacts ==
    ASSUME IInv, Proper(client), Framed, pc \in BodyPhase, ~session.requestIsChunked
    PROVE  /\ session.hasLength /\ session.contentLength = Len(Request.body)
           /\ Request.to = Request.head + Len(Request.body)
           /\ Carries(Stream, Request, Request.head, 0, Len(Request.body))
           /\ bufferpos = Request.head + Len(body)
<1>1. InBody
  BY DEF Framed
<1>2. session.hasLength /\ bufferpos = Request.head + Len(body)
  BY <1>1 DEF InBody, InPlainBody, InChunkedBody
<1>3. PlainOK(Stream, Request) /\ session.contentLength = Len(Request.body)
  BY <1>2, BodyFacts DEF Framing
<1> QED BY <1>2, <1>3 DEF PlainOK

\* A chunked one from a chunk.
ChunkAtHand(k) ==
    /\ InChunk(Stream, Request.chunks[k], session, bufferpos, Len(body))
    /\ session.position \in {"INCHUNK", "AFTERCHUNK"} => k < Len(Request.chunks)
    /\ session.position = "EOF" => k = Len(Request.chunks)

\* ... and which it is.
LEMMA ChunkFacts ==
    ASSUME IInv, Proper(client), Framed, pc \in BodyPhase, session.requestIsChunked
    PROVE  /\ ChunksOK(Stream, Request)
           /\ \E k \in DOMAIN Request.chunks : ChunkAtHand(k)
<1>1. InBody
  BY DEF Framed
<1>2. InChunkedBody(Stream, Request, session, bufferpos, Len(body))
  BY <1>1 DEF InBody, InPlainBody
<1>3. ChunksOK(Stream, Request)
  BY BodyFacts DEF Framing
<1> QED BY <1>2, <1>3 DEF InChunkedBody, ChunkAtHand

\* What a chunk of the request is, where it is not the last, and where it is.
LEMMA AChunk ==
    ASSUME IInv, Proper(client), Framed, pc \in BodyPhase, session.requestIsChunked,
           NEW k \in DOMAIN Request.chunks
    PROVE  LET c == Request.chunks[k]
               n == ChunkSize(Stream, c)
           IN  /\ c.at \in Nat /\ c.data \in Nat /\ c.before \in Nat /\ n \in Nat
               /\ Len(Request.chunks) \in Nat /\ k \in 1 .. Len(Request.chunks)
               /\ LineFrom(Stream, c.at, c.data) /\ Stream[c.at + 1].k = "size"
               /\ c.data < Request.to
               /\ k < Len(Request.chunks) =>
                     /\ n > 0 /\ c.data + n + 2 < Request.to
                     /\ Carries(Stream, Request, c.data, c.before, n)
                     /\ LfAt(Stream, c.data + n + 2)
                     /\ k + 1 \in DOMAIN Request.chunks
                     /\ Request.chunks[k + 1].at = c.data + n + 2
                     /\ Request.chunks[k + 1].before = c.before + n
               /\ k = Len(Request.chunks) =>
                     /\ n = 0 /\ c.before = Len(Request.body)
                     /\ OnlyBlankLines(Stream, c.data, Request.to)
<1>1. ChunksOK(Stream, Request) /\ RequestFacts(client, Request) /\ Stream = client.stream
      /\ Stream \in Seq(Token)
  BY ChunkFacts, BodyFacts
<1>2. /\ Request.chunks[k].at \in Nat /\ Request.chunks[k].data \in Nat
      /\ Request.chunks[k].before \in Nat
      /\ ChunkSize(Stream, Request.chunks[k]) \in Nat
      /\ Len(Request.chunks) \in Nat /\ k \in 1 .. Len(Request.chunks)
  BY <1>1, ChunkIs
<1>3. DOMAIN Request.chunks = 1 .. Len(Request.chunks)
  <2> DEFINE ChunkType == [at : Nat, data : Nat, before : Nat]
  <2>1. Request.chunks \in Seq(ChunkType)
    BY <1>1 DEF RequestFacts
  <2> HIDE DEF ChunkType
  <2> QED BY ONLY <2>1, LenProperties
<1>4. k < Len(Request.chunks) => k + 1 \in DOMAIN Request.chunks
  BY <1>2, <1>3
<1> QED BY <1>1, <1>2, <1>4 DEF ChunksOK, ChunkLine

\* A step of the handler that stays with its request's body.
LEMMA BodyGoesOn ==
    ASSUME IInv, Proper(client), Framed, pc \in BodyPhase, pc' \in BodyPhase,
           UNCHANGED <<client, sent, log>>,
           continued \subseteq continued', session'.from = session.from,
           session'.gotLine = session.gotLine, session'.method = session.method,
           session'.uri = session.uri, session'.hasLength = session.hasLength,
           session'.contentLength = session.contentLength,
           session'.requestIsChunked = session.requestIsChunked,
           session.continueRequired => session'.continueRequired \/ Current \in continued',
           IsPartOf(body', Request.body),
           \/ InPlainBody(Stream, Request, session', bufferpos', Len(body'))
           \/ InChunkedBody(Stream, Request, session', bufferpos', Len(body')),
           pc' \in {"refill", "wait"} => bufferend' < Request.to,
           pc' = "wait" => (Request.expects => Current \in continued')
    PROVE  Framed'
<1>1. /\ Stream' = Stream /\ Current' = Current /\ Request' = Request /\ Served' /\ InTurn'
  BY SameRequest DEF Framed
<1>2. InBody
  BY DEF Framed
<1>3. HeaderRead'
  <2>1. HeaderRead
    BY <1>2 DEF InBody
  <2>2. InRequest'
    BY <1>1, <2>1 DEF HeaderRead, InRequest
  <2>3. /\ HeardLine(Stream, Request, session', Request.head)
        /\ HeardFraming(Stream, Request, session', Request.head)
    BY <2>1 DEF HeaderRead, HeardLine, HeardFraming
  <2>4. Continues'
    BY <1>1, <2>1 DEF HeaderRead, Continues
  <2> QED BY <1>1, <2>2, <2>3, <2>4 DEF HeaderRead
<1>4. InBody'
  BY <1>1, <1>2, <1>3 DEF InBody
<1> QED BY <1>1, <1>4 DEF Framed, BodyPhase

\* The n bytes after the place p are taken, which come next in r's body.
Takes(r, part, s, p, n, more) ==
    /\ r.body \in Seq(Token) /\ part \in Seq(Token) /\ s \in Seq(Token) /\ p \in Nat /\ n \in Nat
    /\ IsPartOf(part, r.body) /\ p + n <= Len(s) /\ Carries(s, r, p, Len(part), n)
    /\ more = part \o SubSeq(s, p + 1, p + n)

\* With them, what the handler has is still a part of the body.
LEMMA TakenIsPart ==
    ASSUME NEW r, NEW part, NEW s, NEW p, NEW n, NEW more, Takes(r, part, s, p, n, more)
    PROVE  more \in Seq(Token) /\ Len(more) = Len(part) + n /\ IsPartOf(more, r.body)
<1> DEFINE whole == r.body
<1>1. /\ whole \in Seq(Token) /\ part \in Seq(Token) /\ s \in Seq(Token) /\ p \in Nat /\ n \in Nat
      /\ IsPartOf(part, whole) /\ p + n <= Len(s) /\ Len(part) + n <= Len(whole)
      /\ \A j \in 1 .. n : s[p + j] = whole[Len(part) + j]
  BY DEF Takes, Carries
<1> HIDE DEF whole
<1>2. LET m == part \o SubSeq(s, p + 1, p + n)
      IN  m \in Seq(Token) /\ Len(m) = Len(part) + n /\ IsPartOf(m, whole)
  BY ONLY <1>1, PartGrows
<1> QED BY <1>2 DEF whole, Takes

\* The reader has len bytes of the body, before of them from earlier chunks, and
\* n of the left bytes of its chunk are there.
WithinChunk(p, data, before, size, left, n, len) ==
    /\ p = data + (len - before) /\ len >= before /\ p + left = data + size /\ n <= left

PlacesInChunk(p, data, before, size, left, n, len) ==
    /\ \A j \in 1 .. n :
          /\ len - before + j \in 1 .. size
          /\ p + j = data + (len - before + j)
          /\ len + j = before + (len - before + j)
    /\ len + n <= before + size /\ len + n >= before
    /\ p + n = data + ((len + n) - before)
    /\ (p + n) + (left - n) = data + size
    /\ left = n => p + n = data + size /\ len + n = before + size

\* Then those n bytes are the body's, at the places the chunk has them.
LEMMA ChunkSums ==
    ASSUME NEW p \in Nat, NEW data \in Nat, NEW before \in Nat, NEW size \in Nat,
           NEW left \in Nat, NEW n \in Nat, NEW len \in Nat,
           WithinChunk(p, data, before, size, left, n, len)
    PROVE  PlacesInChunk(p, data, before, size, left, n, len)
BY DEF WithinChunk, PlacesInChunk

\* The reader has len of the whole bytes of a plain body, and takes n more of
\* those up to end, of a stream of last tokens.
WithinPlain(p, head, whole, n, len, end, last) ==
    p = head + len /\ n <= whole - len /\ p + n <= end /\ end <= last

PlacesInPlain(p, head, whole, n, len, last) ==
    /\ \A j \in 1 .. n :
          len + j \in 1 .. whole /\ p + j = head + (len + j) /\ 0 + (len + j) = len + j
    /\ p + n <= last /\ len + n <= whole /\ p + n = head + (len + n)

\* Then those n bytes are the body's, at the places after the header.
LEMMA PlainSums ==
    ASSUME NEW p \in Nat, NEW head \in Nat, NEW whole \in Nat, NEW n \in Nat,
           NEW len \in Nat, NEW end \in Nat, NEW last \in Nat,
           WithinPlain(p, head, whole, n, len, end, last)
    PROVE  PlacesInPlain(p, head, whole, n, len, last)
BY DEF WithinPlain, PlacesInPlain

\* A reader whose buffer ends within the body takes no more than the body.
UpTo(p, head, whole, n, len, end) == n <= end - p /\ p = head + len /\ end <= head + whole

LEMMA PlainRoom ==
    ASSUME NEW p \in Nat, NEW head \in Nat, NEW whole \in Nat, NEW n \in Nat,
           NEW len \in Nat, NEW end \in Nat, UpTo(p, head, whole, n, len, end)
    PROVE  n <= whole - len
BY DEF UpTo

\* The handler takes from a plain body.
LEMMA PlainFramed ==
    ASSUME IInv, Proper(client), Framed, TakePlain
    PROVE  Framed'
<1> DEFINE n == Smaller(MaxBytes, Unread)
<1>1. /\ UNCHANGED <<client, sent, continued, bufferend, log, session>>
      /\ pc = "take" /\ pc' = "take" /\ ~BodyComplete /\ ~session.requestIsChunked
      /\ n > 0 /\ bufferpos' = bufferpos + n
      /\ body' = body \o SubSeq(Stream, bufferpos + 1, bufferpos + n)
  BY DEF TakePlain, Taking, Deliver, netVars
<1>2. pc \in BodyPhase /\ pc' \in BodyPhase
  BY <1>1 DEF BodyPhase
<1>3. /\ Request.body \in Seq(Token) /\ Len(Request.body) \in Nat /\ Stream \in Seq(Token)
      /\ Request.head \in Nat /\ body \in Seq(Token) /\ Len(body) \in Nat
      /\ IsPartOf(body, Request.body) /\ Len(body) <= Len(Request.body)
      /\ Request.to \in Nat /\ Current \in DOMAIN client.requests
  BY <1>2, BodyFacts
<1>4. /\ session.hasLength /\ session.contentLength = Len(Request.body)
      /\ Request.to = Request.head + Len(Request.body)
      /\ Carries(Stream, Request, Request.head, 0, Len(Request.body))
      /\ bufferpos = Request.head + Len(body)
  BY <1>1, <1>2, PlainFacts
<1>5. Len(body) < Len(Request.body)
  BY <1>1, <1>3, <1>4 DEF BodyComplete
<1>6. /\ bufferpos \in Nat /\ bufferend \in Nat /\ bufferpos <= bufferend
      /\ bufferend <= sent /\ sent \in Nat /\ sent <= Len(Stream) /\ Len(Stream) \in Nat
  BY StreamFacts
<1>7. MaxRead \in Nat /\ MaxBytes \in Int
  BY <1>3, <1>4, LimitAssumption DEF MaxBytes
<1>8. n \in Nat /\ n <= Unread /\ n <= MaxBytes /\ Unread = bufferend - bufferpos
  BY <1>1, <1>6, <1>7 DEF Smaller, Unread
<1>9. n <= Len(Request.body) - Len(body)
  <2>1. session.uri = "/cpp" \/ session.uri = "/RPC2"
    BY <1>2 DEF Framed, InBody
  <2>2. CASE session.uri = "/RPC2"
    BY <1>3, <1>4, <1>8, <2>2 DEF MaxBytes
  <2>3. CASE session.uri = "/cpp"
    <3>1. ~client.pipelines \/ Request.to = Len(Stream)
      BY <1>2, <1>4, <2>3, BodyFacts, HeaderIsRead
    <3>2. ~client.pipelines => sent <= Request.to
      BY <1>3 DEF Framed, InTurn
    <3>3. bufferend <= Request.to
      BY <1>3, <1>6, <3>1, <3>2
    <3> HIDE DEF n
    <3>4. UpTo(bufferpos, Request.head, Len(Request.body), n, Len(body), bufferend)
      BY ONLY <1>4, <1>8, <3>3 DEF UpTo
    <3>5. /\ bufferpos \in Nat /\ Request.head \in Nat /\ Len(Request.body) \in Nat
          /\ n \in Nat /\ Len(body) \in Nat /\ bufferend \in Nat
      BY ONLY <1>3, <1>6, <1>8
    <3> QED BY ONLY <3>4, <3>5, PlainRoom
  <2> QED BY <2>1, <2>2, <2>3
<1> HIDE DEF n
<1>a. /\ bufferpos \in Nat /\ Request.head \in Nat /\ Len(Request.body) \in Nat
      /\ n \in Nat /\ Len(body) \in Nat /\ bufferend \in Nat /\ Len(Stream) \in Nat
  BY ONLY <1>3, <1>6, <1>8
<1>b. PlacesInPlain(bufferpos, Request.head, Len(Request.body), n, Len(body), Len(Stream))
  <2>1. bufferend <= Len(Stream)
    BY ONLY <1>6
  <2>2. bufferpos + n <= bufferend
    BY ONLY <1>6, <1>8
  <2>3. WithinPlain(bufferpos, Request.head, Len(Request.body), n, Len(body), bufferend,
                    Len(Stream))
    BY ONLY <1>4, <1>9, <2>1, <2>2 DEF WithinPlain
  <2> QED BY ONLY <1>a, <2>3, PlainSums
<1>10. \A j \in 1 .. n : Stream[bufferpos + j] = Request.body[Len(body) + j]
  <2> SUFFICES ASSUME NEW j \in 1 .. n
               PROVE  Stream[bufferpos + j] = Request.body[Len(body) + j]
    OBVIOUS
  <2> DEFINE h == Len(body) + j
  <2>1. h \in 1 .. Len(Request.body) /\ bufferpos + j = Request.head + h /\ 0 + h = h
    BY ONLY <1>b, j \in 1 .. n DEF PlacesInPlain
  <2> HIDE DEF h
  <2>2. Stream[Request.head + h] = Request.body[0 + h]
    BY ONLY <1>4, <2>1 DEF Carries
  <2>3. Len(body) + j = h
    BY DEF h
  <2> QED BY ONLY <2>1, <2>2, <2>3
<1>11. bufferpos + n <= Len(Stream) /\ Len(body) + n <= Len(Request.body)
  BY ONLY <1>b DEF PlacesInPlain
<1>12. body' \in Seq(Token) /\ Len(body') = Len(body) + n /\ IsPartOf(body', Request.body)
  <2>1. /\ body \in Seq(Token) /\ Request.body \in Seq(Token) /\ Stream \in Seq(Token)
        /\ bufferpos \in Nat /\ n \in Nat /\ IsPartOf(body, Request.body)
    BY <1>3, <1>a
  <2>2. body' = body \o SubSeq(Stream, bufferpos + 1, bufferpos + n)
    BY <1>1
  <2>3. bufferpos + n <= Len(Stream) /\ Carries(Stream, Request, bufferpos, Len(body), n)
    BY <1>10, <1>11 DEF Carries
  <2>4. Takes(Request, body, Stream, bufferpos, n, body')
    BY ONLY <2>1, <2>2, <2>3 DEF Takes
  <2> QED BY ONLY <2>4, TakenIsPart
<1>13. InPlainBody(Stream, Request, session', bufferpos', Len(body'))
  <2>1. bufferpos' = Request.head + Len(body')
    <3>1. bufferpos' = bufferpos + n
      BY <1>1
    <3>2. bufferpos + n = Request.head + (Len(body) + n)
      BY ONLY <1>b DEF PlacesInPlain
    <3> QED BY ONLY <1>12, <3>1, <3>2
  <2> QED BY <1>1, <2>1 DEF InPlainBody
<1> QED BY <1>1, <1>2, <1>12, <1>13, BodyGoesOn

\* The handler takes from a chunk.
LEMMA ChunkDataFramed ==
    ASSUME IInv, Proper(client), Framed, TakeChunkData
    PROVE  Framed'
<1> DEFINE n == ChunkBytes
           left == session.bytesLeftCt
<1>1. /\ UNCHANGED <<client, sent, continued, bufferend, log>>
      /\ pc = "take" /\ pc' = "take" /\ ~BodyComplete
      /\ session.requestIsChunked /\ session.position = "INCHUNK"
      /\ n > 0 /\ bufferpos' = bufferpos + n
      /\ body' = body \o SubSeq(Stream, bufferpos + 1, bufferpos + n)
      /\ session' = [session EXCEPT !.bytesLeftCt = @ - n,
                        !.position = IF left = n THEN "AFTERCHUNK" ELSE @]
  BY DEF TakeChunkData, Taking, Deliver, netVars
<1>2. pc \in BodyPhase /\ pc' \in BodyPhase
  BY <1>1 DEF BodyPhase
<1>3. /\ Request.body \in Seq(Token) /\ Len(Request.body) \in Nat /\ Stream \in Seq(Token)
      /\ body \in Seq(Token) /\ Len(body) \in Nat /\ session \in SessionType
      /\ IsPartOf(body, Request.body) /\ Len(body) <= Len(Request.body) /\ left \in Nat
      /\ Framing(Stream, Request, session)
  BY <1>2, BodyFacts
<1>4. PICK k \in DOMAIN Request.chunks : ChunkAtHand(k)
  BY <1>1, <1>2, ChunkFacts
<1> DEFINE c == Request.chunks[k]
           size == ChunkSize(Stream, c)
<1>5. /\ k < Len(Request.chunks) /\ Len(body) >= c.before
      /\ bufferpos = c.data + (Len(body) - c.before)
      /\ bufferpos + left = c.data + size
  BY <1>1, <1>4 DEF ChunkAtHand, InChunk
<1>6. /\ c.data \in Nat /\ c.before \in Nat /\ size \in Nat
      /\ Carries(Stream, Request, c.data, c.before, size)
  BY <1>1, <1>2, <1>5, AChunk
<1> HIDE DEF c, size
<1>7. /\ bufferpos \in Nat /\ bufferend \in Nat /\ bufferpos <= bufferend
      /\ bufferend <= sent /\ sent \in Nat /\ sent <= Len(Stream) /\ Len(Stream) \in Nat
  BY StreamFacts
<1>8. MaxRead \in Nat /\ MaxBytes \in Int
  <2>1. session.contentLength \in Nat
    BY <1>3 DEF SessionType
  <2> QED BY <1>3, <2>1, LimitAssumption DEF MaxBytes
<1>9. n \in Nat /\ n <= left /\ bufferpos + n <= bufferend
  <2>1. n > 0 /\ left \in Nat
    BY <1>1, <1>3
  <2> QED BY ONLY <1>7, <1>8, <2>1 DEF ChunkBytes, Smaller, Unread
<1> HIDE DEF n
<1>a. /\ c.data \in Nat /\ c.before \in Nat /\ size \in Nat /\ left \in Nat /\ n \in Nat
      /\ Len(body) \in Nat /\ bufferpos \in Nat /\ n <= left /\ Len(body) >= c.before
      /\ bufferpos = c.data + (Len(body) - c.before)
      /\ bufferpos + left = c.data + size
  BY <1>3, <1>5, <1>6, <1>7, <1>9
<1>c. bufferpos + n <= Len(Stream)
  BY ONLY <1>7, <1>9
<1>d. c.before + size <= Len(Request.body)
  BY ONLY <1>6 DEF Carries
<1>10. /\ session'.from = session.from /\ session'.gotLine = session.gotLine
       /\ session'.method = session.method /\ session'.uri = session.uri
       /\ session'.hasLength = session.hasLength
       /\ session'.contentLength = session.contentLength
       /\ session'.requestIsChunked = session.requestIsChunked
       /\ session'.continueRequired = session.continueRequired
       /\ session'.bytesLeftCt = left - n
       /\ session'.position = IF left = n THEN "AFTERCHUNK" ELSE "INCHUNK"
  BY <1>1, <1>3 DEF SessionType
<1> HIDE DEF left
<1>b. PlacesInChunk(bufferpos, c.data, c.before, size, left, n, Len(body))
  <2>1. WithinChunk(bufferpos, c.data, c.before, size, left, n, Len(body))
    BY ONLY <1>a DEF WithinChunk
  <2>2. /\ c.data \in Nat /\ c.before \in Nat /\ size \in Nat /\ left \in Nat /\ n \in Nat
        /\ Len(body) \in Nat /\ bufferpos \in Nat
    BY ONLY <1>a
  <2> QED BY ONLY <2>1, <2>2, ChunkSums
<1>11. \A j \in 1 .. n : Stream[bufferpos + j] = Request.body[Len(body) + j]
  <2> SUFFICES ASSUME NEW j \in 1 .. n
               PROVE  Stream[bufferpos + j] = Request.body[Len(body) + j]
    OBVIOUS
  <2> DEFINE h == Len(body) - c.before + j
  <2>1. h \in 1 .. size /\ bufferpos + j = c.data + h /\ Len(body) + j = c.before + h
    BY ONLY <1>b, j \in 1 .. n DEF PlacesInChunk
  <2> HIDE DEF h
  <2>2. Stream[c.data + h] = Request.body[c.before + h]
    BY ONLY <1>6, <2>1 DEF Carries
  <2> QED BY ONLY <2>1, <2>2
<1>12. bufferpos + n <= Len(Stream) /\ Len(body) + n <= Len(Request.body)
  <2>1. Len(body) + n \in Nat /\ c.before + size \in Nat
    <3>1. Len(body) \in Nat /\ n \in Nat /\ c.before \in Nat /\ size \in Nat
      BY ONLY <1>a
    <3>2. \A x, y \in Nat : x + y \in Nat
      OBVIOUS
    <3> QED BY ONLY <3>1, <3>2, Zenon
  <2>2. Len(body) + n <= c.before + size
    BY ONLY <1>b DEF PlacesInChunk
  <2>3. Len(Request.body) \in Nat
    BY <1>3
  <2> QED BY ONLY <1>c, <1>d, <2>1, <2>2, <2>3
<1>13. body' \in Seq(Token) /\ Len(body') = Len(body) + n /\ IsPartOf(body', Request.body)
  <2>1. /\ body \in Seq(Token) /\ Request.body \in Seq(Token) /\ Stream \in Seq(Token)
        /\ bufferpos \in Nat /\ n \in Nat /\ IsPartOf(body, Request.body)
    BY <1>3, <1>7, <1>9
  <2>2. body' = body \o SubSeq(Stream, bufferpos + 1, bufferpos + n)
    BY <1>1
  <2>3. bufferpos + n <= Len(Stream) /\ Carries(Stream, Request, bufferpos, Len(body), n)
    BY <1>11, <1>12 DEF Carries
  <2>4. Takes(Request, body, Stream, bufferpos, n, body')
    BY ONLY <2>1, <2>2, <2>3 DEF Takes
  <2> QED BY ONLY <2>4, TakenIsPart
<1>14. InChunk(Stream, c, session', bufferpos', Len(body'))
  <2>1. bufferpos' = bufferpos + n /\ Len(body') = Len(body) + n
    BY <1>1, <1>13
  <2>2. /\ bufferpos' = c.data + (Len(body') - c.before) /\ Len(body') >= c.before
        /\ bufferpos' + (left - n) = c.data + size
        /\ left = n => bufferpos' = c.data + size /\ Len(body') = c.before + size
    BY ONLY <1>b, <2>1 DEF PlacesInChunk
  <2> QED BY ONLY <1>10, <2>2 DEF InChunk, size
<1>15. InChunkedBody(Stream, Request, session', bufferpos', Len(body'))
  <2>1. session'.requestIsChunked /\ session'.position # "EOF" /\ k < Len(Request.chunks)
    BY <1>1, <1>5, <1>10
  <2>2. InChunk(Stream, Request.chunks[k], session', bufferpos', Len(body'))
    BY <1>14 DEF c
  <2> QED BY ONLY <2>1, <2>2, k \in DOMAIN Request.chunks DEF InChunkedBody
<1> QED BY <1>1, <1>2, <1>10, <1>13, <1>15, BodyGoesOn

\* The two places after a chunk's bytes: the next chunk begins behind them.
LEMMA DelimiterFramed ==
    ASSUME IInv, Proper(client), Framed, ChunkDelimiter
    PROVE  Framed'
<1>1. /\ UNCHANGED <<client, sent, continued, bufferend, log, body>>
      /\ pc = "take" /\ pc' = "take" /\ session.requestIsChunked
      /\ session.position = "AFTERCHUNK" /\ bufferpos' = bufferpos + 2
      /\ session' = [session EXCEPT !.position = "ATHEADER"]
  BY DEF ChunkDelimiter, AtDelimiter, Taking, netVars
<1>2. pc \in BodyPhase /\ pc' \in BodyPhase
  BY <1>1 DEF BodyPhase
<1>3. session \in SessionType /\ IsPartOf(body, Request.body)
  BY <1>2, BodyFacts
<1>4. PICK k \in DOMAIN Request.chunks : ChunkAtHand(k)
  BY <1>1, <1>2, ChunkFacts
<1> DEFINE c == Request.chunks[k]
           size == ChunkSize(Stream, c)
<1>5. k < Len(Request.chunks) /\ bufferpos = c.data + size /\ Len(body) = c.before + size
  BY <1>1, <1>4 DEF ChunkAtHand, InChunk
<1>6. /\ c.data \in Nat /\ size \in Nat /\ k + 1 \in DOMAIN Request.chunks
      /\ Request.chunks[k + 1].at = c.data + size + 2
      /\ Request.chunks[k + 1].before = c.before + size
  BY <1>1, <1>2, <1>5, AChunk
<1> HIDE DEF c, size
<1>7. /\ session'.from = session.from /\ session'.gotLine = session.gotLine
      /\ session'.method = session.method /\ session'.uri = session.uri
      /\ session'.hasLength = session.hasLength
      /\ session'.contentLength = session.contentLength
      /\ session'.requestIsChunked = session.requestIsChunked
      /\ session'.continueRequired = session.continueRequired
      /\ session'.position = "ATHEADER"
  BY <1>1, <1>3 DEF SessionType
<1>8. InChunk(Stream, Request.chunks[k + 1], session', bufferpos', Len(body'))
  <2>1. bufferpos' = c.data + size + 2
    BY <1>1, <1>5, <1>6
  <2>2. bufferpos' = Request.chunks[k + 1].at
    BY ONLY <1>6, <2>1
  <2>3. Len(body') = Request.chunks[k + 1].before
    BY <1>1, <1>5, <1>6
  <2> QED BY ONLY <1>7, <2>2, <2>3 DEF InChunk
<1>9. InChunkedBody(Stream, Request, session', bufferpos', Len(body'))
  <2>1. session'.requestIsChunked
    BY <1>1, <1>7
  <2> QED BY ONLY <1>6, <1>7, <1>8, <2>1 DEF InChunkedBody
<1> QED BY <1>1, <1>2, <1>3, <1>7, <1>9, BodyGoesOn

\* A chunk's header: its bytes follow, or those of the body are all there.
LEMMA ChunkHeaderFramed ==
    ASSUME IInv, Proper(client), Framed, ChunkHeader
    PROVE  Framed'
<1> DEFINE n == ChunkLineSize
<1>1. /\ UNCHANGED <<client, sent, continued, bufferend, log, body>>
      /\ pc = "take" /\ pc' = "take" /\ session.requestIsChunked
      /\ session.position = "ATHEADER" /\ HasLine(bufferpos) /\ bufferpos' = LineEnd(bufferpos)
      /\ session' = [session EXCEPT !.position = IF n = 0 THEN "EOF" ELSE "INCHUNK",
                                    !.bytesLeftCt = IF n = 0 THEN @ ELSE n]
  BY DEF ChunkHeader, AtChunkHeader, Taking, netVars
<1>2. pc \in BodyPhase /\ pc' \in BodyPhase
  BY <1>1 DEF BodyPhase
<1>3. session \in SessionType /\ IsPartOf(body, Request.body) /\ Len(body) \in Nat
  BY <1>2, BodyFacts
<1>4. PICK k \in DOMAIN Request.chunks : ChunkAtHand(k)
  BY <1>1, <1>2, ChunkFacts
<1> DEFINE c == Request.chunks[k]
<1>5. bufferpos = c.at /\ Len(body) = c.before
  BY <1>1, <1>4 DEF ChunkAtHand, InChunk
<1>6. /\ c.at \in Nat /\ c.data \in Nat /\ ChunkSize(Stream, c) \in Nat
      /\ LineFrom(Stream, c.at, c.data) /\ Stream[c.at + 1].k = "size"
      /\ k < Len(Request.chunks) => ChunkSize(Stream, c) > 0
      /\ k = Len(Request.chunks) => ChunkSize(Stream, c) = 0
      /\ k \in 1 .. Len(Request.chunks) /\ Len(Request.chunks) \in Nat
  BY <1>1, <1>2, AChunk
<1> HIDE DEF c
<1>7. n = ChunkSize(Stream, c) /\ n \in Nat
  BY <1>5, <1>6 DEF ChunkSize, ChunkLineSize, HasDigits
<1>8. bufferpos' = c.data
  <2>1. LineEnd(bufferpos) \in bufferpos + 1 .. bufferend
        /\ LineFrom(Stream, bufferpos, LineEnd(bufferpos)) /\ bufferpos \in Nat
    BY <1>1, LineEndEnds, StreamFacts
  <2>2. LineEnd(bufferpos) \in Nat
    BY ONLY <2>1
  <2>3. LineEnd(bufferpos) = c.data
    BY ONLY <1>5, <1>6, <2>1, <2>2, OneLineEnd
  <2> QED BY <1>1, <2>3
<1> HIDE DEF n
<1>9. /\ session'.from = session.from /\ session'.gotLine = session.gotLine
      /\ session'.method = session.method /\ session'.uri = session.uri
      /\ session'.hasLength = session.hasLength
      /\ session'.contentLength = session.contentLength
      /\ session'.requestIsChunked = session.requestIsChunked
      /\ session'.continueRequired = session.continueRequired
      /\ session'.position = (IF n = 0 THEN "EOF" ELSE "INCHUNK")
      /\ n # 0 => session'.bytesLeftCt = n
  BY <1>1, <1>3 DEF SessionType
<1>10. body' = body
  BY <1>1
<1>11. InChunk(Stream, c, session', bufferpos', Len(body'))
  <2>1. CASE n = 0
    BY ONLY <1>5, <1>8, <1>9, <1>10, <2>1 DEF InChunk
  <2>2. CASE n # 0
    <3>1. Len(body') >= c.before /\ bufferpos' = c.data + (Len(body') - c.before)
      BY ONLY <1>3, <1>5, <1>6, <1>8, <1>10
    <3>2. bufferpos' + session'.bytesLeftCt = c.data + ChunkSize(Stream, c)
      BY ONLY <1>7, <1>8, <1>9, <2>2
    <3>3. session'.position = "INCHUNK"
      BY ONLY <1>9, <2>2
    <3> QED BY ONLY <3>1, <3>2, <3>3 DEF InChunk
  <2> QED BY <2>1, <2>2
<1>12. InChunkedBody(Stream, Request, session', bufferpos', Len(body'))
  <2>1. session'.requestIsChunked
    BY <1>1, <1>9
  <2>2. InChunk(Stream, Request.chunks[k], session', bufferpos', Len(body'))
    BY <1>11 DEF c
  <2>3. n # 0 => k < Len(Request.chunks)
    BY ONLY <1>6, <1>7
  <2>4. n = 0 => k = Len(Request.chunks)
    BY ONLY <1>6, <1>7
  <2> QED BY ONLY <1>9, <2>1, <2>2, <2>3, <2>4, k \in DOMAIN Request.chunks DEF InChunkedBody
<1> QED BY <1>1, <1>2, <1>3, <1>9, <1>10, <1>12, BodyGoesOn

\* The handler waits only for what is still to come of its request.
LEMMA AskFramed ==
    ASSUME IInv, Proper(client), Framed, AskForMore
    PROVE  Framed'
<1>1. /\ UNCHANGED <<client, sent, continued, bufferpos, bufferend, log, line, session, body>>
      /\ pc = "take" /\ pc' = "refill" /\ ~BodyComplete /\ NeedsMore
  BY DEF AskForMore, Taking, netVars, bufferVars
<1>2. pc \in BodyPhase /\ pc' \in BodyPhase
  BY <1>1 DEF BodyPhase
<1>3. /\ IsPartOf(body, Request.body) /\ Len(body) \in Nat /\ Len(Request.body) \in Nat
      /\ Len(body) <= Len(Request.body) /\ Request.head \in Nat /\ Request.to \in Nat
      /\ session.bytesLeftCt \in Nat /\ session \in SessionType
  BY <1>2, BodyFacts
<1>4. bufferpos \in Nat /\ bufferend \in Nat /\ bufferpos <= bufferend
  BY StreamFacts
<1>5. bufferend < Request.to
  <2>1. CASE ~session.requestIsChunked
    <3>1. /\ session.hasLength /\ session.contentLength = Len(Request.body)
          /\ Request.to = Request.head + Len(Request.body)
          /\ bufferpos = Request.head + Len(body)
      BY <1>2, <2>1, PlainFacts
    <3>2. Len(body) < Len(Request.body)
      BY <1>1, <1>3, <3>1 DEF BodyComplete
    <3>3. bufferend = bufferpos
      BY <1>1, <1>4, <2>1 DEF NeedsMore, Unread, AtDelimiter, AtChunkHeader
    <3> QED BY <1>3, <1>4, <3>1, <3>2, <3>3
  <2>2. CASE session.requestIsChunked
    <3>1. PICK k \in DOMAIN Request.chunks : ChunkAtHand(k)
      BY <1>2, <2>2, ChunkFacts
    <3> DEFINE c == Request.chunks[k]
               size == ChunkSize(Stream, c)
    <3>2. /\ c.at \in Nat /\ c.data \in Nat /\ size \in Nat
          /\ LineFrom(Stream, c.at, c.data) /\ c.data < Request.to
          /\ k < Len(Request.chunks) => c.data + size + 2 < Request.to
      BY <1>2, <2>2, AChunk
    <3>3. CASE session.position = "INCHUNK" /\ Unread = 0
      <4>1. /\ bufferpos + session.bytesLeftCt = c.data + size
            /\ c.data + size + 2 < Request.to
        BY <3>1, <3>2, <3>3 DEF ChunkAtHand, InChunk
      <4>2. bufferend = bufferpos
        BY <1>4, <3>3 DEF Unread
      <4> HIDE DEF c, size
      <4> QED BY <1>3, <1>4, <3>2, <4>1, <4>2
    <3>4. CASE session.position = "AFTERCHUNK" /\ Unread < 2
      <4>1. bufferpos = c.data + size /\ c.data + size + 2 < Request.to
        BY <3>1, <3>2, <3>4 DEF ChunkAtHand, InChunk
      <4>2. bufferend < bufferpos + 2
        BY <1>4, <3>4 DEF Unread
      <4> HIDE DEF c, size
      <4> QED BY <1>3, <1>4, <3>2, <4>1, <4>2
    <3>5. CASE session.position = "ATHEADER" /\ ~HasLine(bufferpos)
      <4>1. bufferpos = c.at
        BY <3>1, <3>5 DEF ChunkAtHand, InChunk
      <4>2. c.at < c.data /\ LfAt(Stream, c.data)
        BY <3>2 DEF LineFrom
      <4> HIDE DEF c, size
      <4>3. ~(c.data \in bufferpos + 1 .. bufferend)
        BY <3>5, <4>2 DEF HasLine, LfAt, IsLf
      <4>4. bufferend < c.data
        BY <1>4, <3>2, <4>1, <4>2, <4>3
      <4> QED BY <1>3, <1>4, <3>2, <4>4
    <3> QED BY <1>1, <2>2, <3>3, <3>4, <3>5 DEF NeedsMore, AtDelimiter, AtChunkHeader
  <2> QED BY <2>1, <2>2
<1>6. \/ InPlainBody(Stream, Request, session, bufferpos, Len(body))
      \/ InChunkedBody(Stream, Request, session, bufferpos, Len(body))
  BY <1>2 DEF Framed, InBody
<1> QED BY <1>1, <1>2, <1>3, <1>5, <1>6, BodyGoesOn

\* refillBuffer(): the client is told to continue, if it waits for that, and
\* what it sends is read.
LEMMA RefillFramed ==
    ASSUME IInv, Proper(client), Framed, Refill \/ RefillReads
    PROVE  Framed'
<1>1. pc \in BodyPhase /\ pc' \in BodyPhase
  BY DEF Refill, RefillReads, BodyPhase
<1>2. session \in SessionType /\ IsPartOf(body, Request.body)
  BY <1>1, BodyFacts
<1>3. /\ UNCHANGED <<client, sent, bufferpos, body, log>>
      /\ session'.from = session.from /\ session'.gotLine = session.gotLine
      /\ session'.method = session.method /\ session'.uri = session.uri
      /\ session'.hasLength = session.hasLength
      /\ session'.contentLength = session.contentLength
      /\ session'.requestIsChunked = session.requestIsChunked
      /\ session'.position = session.position
      /\ session'.bytesLeftCt = session.bytesLeftCt
  BY <1>2 DEF Refill, RefillReads, SessionType, netVars
<1>4. \/ InPlainBody(Stream, Request, session, bufferpos, Len(body))
      \/ InChunkedBody(Stream, Request, session, bufferpos, Len(body))
  BY <1>1 DEF Framed, InBody
<1>5. \/ InPlainBody(Stream, Request, session', bufferpos', Len(body'))
      \/ InChunkedBody(Stream, Request, session', bufferpos', Len(body'))
  BY ONLY <1>3, <1>4 DEF InPlainBody, InChunkedBody, InChunk
<1>6. CASE Refill
  <2>1. /\ bufferend' = bufferend /\ bufferend < Request.to
        /\ continued' = IF session.continueRequired THEN continued \cup {Len(log) + 1}
                        ELSE continued
    BY <1>6 DEF Refill, ToldToContinue, Framed
  <2>2. continued \subseteq continued' /\ (session.continueRequired => Current \in continued')
    BY <2>1 DEF Current
  <2>3. Request.expects => Current \in continued'
    <3>1. Continues
      BY <1>1 DEF Framed, InBody, HeaderRead
    <3> QED BY <2>2, <3>1 DEF Continues
  <2> QED BY <1>1, <1>2, <1>3, <1>5, <2>1, <2>2, <2>3, BodyGoesOn
<1>7. CASE RefillReads
  <2>1. /\ pc' = "take" /\ continued' = continued
        /\ session'.continueRequired = session.continueRequired
    BY <1>2, <1>7 DEF RefillReads, SessionType
  <2> QED BY <1>1, <1>2, <1>3, <1>5, <2>1, BodyGoesOn
<1> QED BY <1>6, <1>7

\* The handler has the body, and answers.
LEMMA AnswerBodyFramed ==
    ASSUME IInv, Proper(client), Framed, AnswerBody
    PROVE  Framed'
<1>1. pc = "take" /\ BodyComplete /\ Respond(200) /\ pc \in BodyPhase
  BY DEF AnswerBody, BodyPhase
<1>2. /\ IsPartOf(body, Request.body) /\ Len(body) \in Nat /\ Len(Request.body) \in Nat
      /\ Len(body) <= Len(Request.body) /\ Request.head \in Nat /\ Request.to \in Nat
      /\ body \in Seq(Token) /\ Request.body \in Seq(Token) /\ Len(Stream) \in Nat
      /\ HeaderRead /\ Current \in DOMAIN client.requests
      /\ Framing(Stream, Request, session)
  BY <1>1, BodyFacts
<1>3. OnlyBlankLines(Stream, Request.to, NextFrom(client, Current + 1))
  BY <1>2, AfterRequest
<1>4. Len(body) = Len(Request.body)
      /\ OnlyBlankLines(Stream, bufferpos, NextFrom(client, Current + 1))
  <2>1. CASE ~session.requestIsChunked
    <3>1. /\ session.hasLength /\ session.contentLength = Len(Request.body)
          /\ Request.to = Request.head + Len(Request.body)
          /\ bufferpos = Request.head + Len(body)
      BY <1>1, <2>1, PlainFacts
    <3>2. Len(body) = Len(Request.body)
      BY <1>1, <1>2, <2>1, <3>1 DEF BodyComplete
    <3>3. bufferpos = Request.to
      BY <3>1, <3>2
    <3> QED BY <1>3, <3>2, <3>3
  <2>2. CASE session.requestIsChunked
    <3>1. PICK k \in DOMAIN Request.chunks : ChunkAtHand(k)
      BY <1>1, <2>2, ChunkFacts
    <3>2. session.position = "EOF"
      BY <1>1, <1>2, <2>2 DEF BodyComplete, Framing
    <3> DEFINE c == Request.chunks[k]
    <3>3. k = Len(Request.chunks) /\ bufferpos = c.data /\ Len(body) = c.before
      BY <3>1, <3>2 DEF ChunkAtHand, InChunk
    <3>4. c.before = Len(Request.body) /\ OnlyBlankLines(Stream, c.data, Request.to)
      BY <1>1, <2>2, <3>3, AChunk
    <3>5. bufferpos \in Nat /\ NextFrom(client, Current + 1) \in Nat
      <4>1. CASE Current + 1 \in DOMAIN client.requests
        <5>1. RequestFacts(client, client.requests[Current + 1])
          BY <4>1, RequestIs
        <5> QED BY <4>1, <5>1, StreamFacts DEF NextFrom, RequestFacts
      <4>2. CASE Current + 1 \notin DOMAIN client.requests
        BY <4>2, StreamFacts DEF NextFrom, Stream
      <4> QED BY <4>1, <4>2
    <3>6. OnlyBlankLines(Stream, bufferpos, Request.to)
      BY <3>3, <3>4
    <3>7. OnlyBlankLines(Stream, bufferpos, NextFrom(client, Current + 1))
      BY ONLY <1>2, <1>3, <3>5, <3>6, BlankJoin
    <3> QED BY <3>3, <3>4, <3>7
  <2> QED BY <2>1, <2>2
<1>5. body = Request.body
  <2>1. \A j \in 1 .. Len(body) : body[j] = Request.body[j]
    BY ONLY <1>2, PartIs
  <2> QED BY ONLY <1>2, <1>4, <2>1, SeqEqual
<1>6. InRequest
  BY <1>2 DEF HeaderRead
<1> QED BY <1>1, <1>4, <1>5, <1>6, AnswerFramed

\* Requests that the server gives up.
LEMMA RefusedFramed ==
    ASSUME IInv, Proper(client), Framed,
           \/ HeadTimesOut \/ HeadFails \/ UnexpectedContinuation \/ BadField
           \/ ChunkError \/ CannotSayContinue \/ RefillFails
    PROVE  Framed'
<1>1. Respond(408) \/ Respond(500) \/ Respond(400) \/ Respond(501) \/ Respond(404)
  BY DEF HeadTimesOut, HeadFails, UnexpectedContinuation, BadField, ChunkError,
         CannotSayContinue, RefillFails, BodyFailure
<1> QED BY <1>1, RefusalFramed

\* A connection begins before its first request.
LEMMA InitFramed ==
    ASSUME Init, IInv, Proper(client)
    PROVE  Framed
<1>1. /\ log = <<>> /\ sent = 0 /\ pc = "await" /\ bufferpos = 0
  BY DEF Init
<1>2. Len(log) = 0 /\ DOMAIN log = {} /\ Current = 1
  BY <1>1 DEF Current
<1>3. Served
  BY <1>2 DEF Served
<1>4. Len(client.requests) \in Nat /\ DOMAIN client.requests = 1 .. Len(client.requests)
  BY CurrentIs
<1>5. InTurn
  <2> SUFFICES ASSUME Current \in DOMAIN client.requests PROVE sent <= Request.to
    BY DEF InTurn
  <2>1. Request.to \in Nat
    BY RequestIs DEF Request, RequestFacts
  <2> QED BY <1>1, <2>1
<1>6. BeforeRequest(bufferpos)
  <2>1. 1 \in 1 .. Len(client.requests) + 1
    BY <1>4
  <2>2. OnlyBlankLines(client.stream, EndBefore(client, 1), NextFrom(client, 1))
    BY <2>1 DEF Proper, WellFormed
  <2> QED BY <1>1, <1>2, <2>1, <2>2 DEF BeforeRequest, EndBefore, Stream
<1> QED BY <1>1, <1>3, <1>5, <1>6 DEF Framed, BodyPhase

\* Every step keeps the framing of a proper client's requests.
LEMMA NextFramed ==
    ASSUME IInv, Proper(client), Framed, [Next]_vars
    PROVE  Framed'
<1>1. CASE Send
  BY <1>1, SendFramed
<1>2. CASE Close \/ GetLineReads \/ UNCHANGED vars
  <2>1. /\ UNCHANGED <<client, sent, continued, bufferpos, line, session, body, log, pc>>
        /\ pc \in {"refill", "wait"} => bufferend' = bufferend
    BY <1>2 DEF Close, GetLineReads, vars, netVars, bufferVars, HeadPhase
  <2> QED BY <2>1, QuietFramed
<1>3. CASE AwaitRequest \/ AwaitEnds
  BY <1>3, AwaitFramed
<1>4. CASE SkipEmptyLine
  BY <1>4, SkipFramed
<1>5. CASE FoundRequestLine
  BY <1>5, FoundFramed
<1>6. CASE FirstLineOfField \/ ContinuationLine
  BY <1>6, LinesFramed
<1>7. CASE EndOfHeader
  BY <1>7, HeadEndFramed
<1>8. CASE RequestLine
  BY <1>8, RequestLineFramed
<1>9. CASE HeaderField
  BY <1>9, FieldFramed
<1>10. CASE AnswerAtOnce
  BY <1>10, AtOnceFramed
<1>11. CASE StartBody
  BY <1>11, StartFramed
<1>12. CASE TakePlain
  BY <1>12, PlainFramed
<1>13. CASE TakeChunkData
  BY <1>13, ChunkDataFramed
<1>14. CASE ChunkDelimiter
  BY <1>14, DelimiterFramed
<1>15. CASE ChunkHeader
  BY <1>15, ChunkHeaderFramed
<1>16. CASE AskForMore
  BY <1>16, AskFramed
<1>17. CASE Refill \/ RefillReads
  BY <1>17, RefillFramed
<1>18. CASE AnswerBody
  BY <1>18, AnswerBodyFramed
<1>19. CASE \/ HeadTimesOut \/ HeadFails \/ UnexpectedContinuation \/ BadField
            \/ ChunkError \/ CannotSayContinue \/ RefillFails
  BY <1>19, RefusedFramed
<1> QED BY <1>1, <1>2, <1>3, <1>4, <1>5, <1>6, <1>7, <1>8, <1>9, <1>10, <1>11, <1>12,
           <1>13, <1>14, <1>15, <1>16, <1>17, <1>18, <1>19
        DEF Next, Server, ReadHead, ReadBody

-----------------------------------------------------------------------------
(* The theorems. *)

\* A connection has one client.
LEMMA ClientStays == [Next]_vars => client' = client
<1> SUFFICES ASSUME [Next]_vars PROVE client' = client
  OBVIOUS
<1>1. CASE Send \/ Close
  BY ONLY <1>1 DEF Send, Close
<1>2. CASE AwaitRequest \/ AwaitEnds
  BY ONLY <1>2 DEF AwaitRequest, AwaitEnds, netVars
<1>3. CASE ReadHead
  <2>1. \A status : Respond(status) => client' = client
    BY ONLY DEF Respond, netVars
  <2>2. CASE GetLineReads \/ HeadTimesOut \/ HeadFails \/ SkipEmptyLine \/ FoundRequestLine
    BY ONLY <2>1, <2>2 DEF GetLineReads, HeadTimesOut, HeadFails, SkipEmptyLine,
                           FoundRequestLine, netVars
  <2>3. CASE FirstLineOfField \/ UnexpectedContinuation \/ EndOfHeader \/ ContinuationLine
    BY ONLY <2>1, <2>3 DEF FirstLineOfField, UnexpectedContinuation, EndOfHeader,
                           ContinuationLine, netVars
  <2>4. CASE RequestLine \/ HeaderField \/ BadField
    BY ONLY <2>1, <2>4 DEF RequestLine, HeaderField, BadField, netVars
  <2> QED BY ONLY <1>3, <2>2, <2>3, <2>4 DEF ReadHead
<1>4. CASE AnswerAtOnce \/ AnswerBody
  BY ONLY <1>4 DEF AnswerAtOnce, AnswerBody, BodyFailure, Respond, netVars
<1>5. CASE ReadBody
  <2>1. \A status : Respond(status) => client' = client
    BY ONLY DEF Respond, netVars
  <2>2. CASE StartBody \/ TakePlain \/ TakeChunkData \/ ChunkDelimiter
    BY ONLY <2>1, <2>2 DEF StartBody, TakePlain, TakeChunkData, ChunkDelimiter, netVars
  <2>3. CASE ChunkHeader \/ ChunkError \/ AskForMore \/ Refill
    BY ONLY <2>1, <2>3 DEF ChunkHeader, ChunkError, AskForMore, Refill, BodyFailure, netVars
  <2>4. CASE CannotSayContinue \/ RefillReads \/ RefillFails
    BY ONLY <2>1, <2>4 DEF CannotSayContinue, RefillReads, RefillFails, BodyFailure, netVars
  <2> QED BY ONLY <1>5, <2>2, <2>3, <2>4 DEF ReadBody
<1>6. CASE UNCHANGED vars
  BY ONLY <1>6 DEF vars, netVars
<1> QED BY <1>1, <1>2, <1>3, <1>4, <1>5, <1>6 DEF Next, Server

\* A connection's framing is its client's, for a client that sends what HTTP
\* allows and handlers that take the bodies: in every state the reader is where
\* the client's stream has the line, the field, the chunk or the bytes of the
\* body it takes them for.
THEOREM SessionFramed == Spec => [](Proper(client) => Framed)
<1> DEFINE I == IInv /\ (Proper(client) => Framed)
<1>1. Init => I
  BY SessionInit, InitFramed
<1>2. I /\ [Next]_vars => I'
  <2> SUFFICES ASSUME IInv, Proper(client) => Framed, [Next]_vars PROVE I'
    OBVIOUS
  <2>1. IInv'
    BY SessionStep
  <2>2. client' = client
    BY ClientStays
  <2>3. Proper(client') => Proper(client)
    BY <2>2
  <2>4. ASSUME Proper(client)' PROVE Framed'
    <3>1. Proper(client)
      BY <2>2, <2>4
    <3> QED BY <3>1, NextFramed
  <2> QED BY <2>1, <2>4
<1>3. I => (Proper(client) => Framed)
  OBVIOUS
<1> HIDE DEF I
<1> QED BY <1>1, <1>2, <1>3, PTL DEF Spec

\* Every request of a proper client that is answered with success began where the
\* client began it, and its handler got the body that the client sent, however it
\* was folded, chunked, pipelined and cut into pieces, and whatever its size and
\* the buffer's are; and no handler ever has bytes that are not its request's.
THEOREM ProperBodiesExact == Spec => [](Proper(client) => BodiesExact)
<1>1. Framed => BodiesExact
  <2> SUFFICES ASSUME Framed PROVE BodiesExact
    OBVIOUS
  <2>1. Served
    BY DEF Framed
  <2>2. pc \in BodyPhase => /\ Current \in DOMAIN client.requests
                            /\ IsPartOf(body, client.requests[Current].body)
    BY DEF Framed, InBody, HeaderRead, InRequest, Request
  <2> QED BY <2>1, <2>2 DEF BodiesExact, Served, Current
<1>2. (Proper(client) => Framed) => (Proper(client) => BodiesExact)
  BY <1>1
<1> QED BY <1>2, SessionFramed, PTL

\* The thread and a proper client never wait for each other: while the thread
\* waits for more of a header or a body, the client has sent more, or may send
\* more without hearing from the server, or is gone.
THEOREM ProperNeverWaitsInVain == Spec => [](Proper(client) => NeverWaitsInVain)
<1>1. IInv /\ (Proper(client) => Framed) => (Proper(client) => NeverWaitsInVain)
  <2> SUFFICES ASSUME IInv, Proper(client), Framed, WaitsForMore, ~(Available > 0)
               PROVE  sent < SendLimit
    BY DEF NeverWaitsInVain
  <2>1. /\ bufferend \in Nat /\ sent \in Nat /\ bufferend <= sent /\ Len(Stream) \in Nat
    BY StreamFacts
  <2>2. sent = bufferend
    BY <2>1 DEF Available
  <2>3. CASE pc = "wait"
    <3>1. /\ bufferend < Request.to /\ (Request.expects => Current \in continued)
          /\ pc \in BodyPhase
      BY <2>3 DEF Framed, BodyPhase
    <3>2. /\ Current \in DOMAIN client.requests /\ Request.to \in Nat
          /\ Request.to <= Len(Stream)
      BY <3>1, BodyFacts
    <3>3. ~(Current > Len(client.requests))
      BY <3>2, CurrentIs
    <3>4. SendLimit = Len(Stream) \/ SendLimit = Request.to
      BY <3>1, <3>3 DEF SendLimit, Current, Request
    <3> QED BY <2>1, <2>2, <3>1, <3>2, <3>4
  <2>4. CASE pc \in {"field", "rest"} /\ ~HasLine(line)
    <3>1. /\ InRequest /\ bufferpos \in FieldPlaces(Stream, Request)
          /\ RequestFacts(client, Request) /\ HeaderPlaces(Stream, Request)
          /\ Request.head \in Nat /\ Request.from \in Nat /\ line \in Nat
      BY <2>4, HeaderFacts
    <3>2. line \in LinesIn(Stream, Request.from, Request.head)
      BY <2>4, <3>1 DEF Framed, WithinField, FieldPlaces
    <3>3. line < Request.head
      BY <3>1, <3>2, FieldPlaceFacts
    <3>4. LfAt(Stream, Request.head)
      BY <3>1 DEF HeaderPlaces, HeaderOK
    <3>5. bufferend < Request.head
      <4>1. ~(Request.head \in line + 1 .. bufferend)
        BY <2>4, <3>4 DEF HasLine, LfAt, IsLf
      <4> QED BY <2>1, <3>1, <3>3, <4>1
    <3>6. Request.to \in Nat /\ Request.head <= Request.to /\ Request.to <= Len(Stream)
      BY <3>1 DEF RequestFacts, BodyOK, Stream
    <3>7. ~(Current > Len(client.requests))
      BY <3>1, CurrentIs DEF InRequest
    <3>8. SendLimit = Len(Stream) \/ SendLimit = Request.to \/ SendLimit = Request.head
      BY <3>7 DEF SendLimit, Current, Request
    <3> QED BY <2>1, <2>2, <3>1, <3>5, <3>6, <3>8
  <2> QED BY <2>3, <2>4 DEF WaitsForMore
<1> QED BY <1>1, SessionInvariant, SessionFramed, PTL
=============================================================================
