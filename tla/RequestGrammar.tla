--------------------------- MODULE RequestGrammar ---------------------------
(* What HTTP makes of a stream of tokens, as far as the session goes by it:  *)
(* lines, the fields of a header with their continuation lines, bodies plain *)
(* and chunked.  It speaks of places in the stream and of nothing that the   *)
(* reader does, and it says which streams mean the requests they are said    *)
(* to.  A place is the number of tokens before it.                           *)
EXTENDS Naturals, Sequences, FiniteSets

LfAt(s, j) == s[j].k = "LF"

\* The line that begins at p is blank, or continues the one before.
BlankAt(s, p) == LfAt(s, p + 1) \/ (s[p + 1].k = "CR" /\ LfAt(s, p + 2))
FoldAt(s, p) == s[p + 1].k = "SP"

\* There is a line from p to q.
LineFrom(s, p, q) ==
    /\ p < q /\ q <= Len(s)
    /\ LfAt(s, q) /\ \A j \in p + 1 .. q - 1 : ~LfAt(s, j)

\* Where lines begin, from the place p, where one does, to q.
LinesIn(s, p, q) == {l \in p .. q - 1 : l = p \/ LfAt(s, l)}

OnlyBlankLines(s, p, q) ==
    /\ p <= q /\ q <= Len(s) /\ (p < q => LfAt(s, q))
    /\ \A l \in LinesIn(s, p, q) : BlankAt(s, l)

WordsIn(s, p, q) == {j \in p + 1 .. q : s[j].k \notin {"CR", "LF", "SP"}}
Nth(W, n) == CHOOSE j \in W : Cardinality({h \in W : h < j}) = n - 1

-----------------------------------------------------------------------------
(* Headers. *)

\* Where the fields of r's header begin: the first is the request line, the
\* last the blank line.  The field at p ends where the next one, at q, begins.
FieldPlaces(s, r) == {p \in LinesIn(s, r.from, r.head) : ~FoldAt(s, p)}
FieldFrom(s, r, p, q) ==
    /\ p \in FieldPlaces(s, r) /\ q \in FieldPlaces(s, r) /\ p < q
    /\ \A o \in FieldPlaces(s, r) : ~(p < o /\ o < q)

Name(s, p, q) == s[Nth(WordsIn(s, p, q), 1)].k
Value(s, p, q) == s[Nth(WordsIn(s, p, q), 2)].v
Target(s, p, q) == s[Nth(WordsIn(s, p, q), 2)].k

\* Of the fields that end by the place u, one has this name and a value in V.
SaysBy(s, r, u, name, V) ==
    \E p, q \in FieldPlaces(s, r) :
       /\ FieldFrom(s, r, p, q) /\ r.from < p /\ q <= u
       /\ Name(s, p, q) = name /\ Value(s, p, q) \in V

Says(s, r, name, V) == SaysBy(s, r, r.head, name, V)
GivesLength(s, r) == Says(s, r, "content-length", Nat)
IsChunked(s, r) == Says(s, r, "transfer-encoding", {1})

HeaderOK(s, r) ==
    /\ r.from < r.head /\ r.head <= Len(s) /\ LfAt(s, r.head)
    /\ r.from \in FieldPlaces(s, r) /\ ~BlankAt(s, r.from)
    /\ \A p \in LinesIn(s, r.from, r.head) : BlankAt(s, p) <=> LineFrom(s, p, r.head)
    /\ \A p, q \in FieldPlaces(s, r) : FieldFrom(s, r, p, q) =>
          Cardinality(WordsIn(s, p, q)) >= (IF p = r.from THEN 3 ELSE 2)
    /\ r.expects => Says(s, r, "expect", {1})

-----------------------------------------------------------------------------
(* Bodies. *)

\* The bytes of the body after the first b are the n after the place p.
Carries(s, r, p, b, n) ==
    /\ b + n <= Len(r.body)
    /\ \A j \in 1 .. n : s[p + j] = r.body[b + j]

PlainOK(s, r) ==
    /\ r.to = r.head + Len(r.body)
    /\ Carries(s, r, r.head, 0, Len(r.body))
    /\ ~Says(s, r, "content-length", Nat \ {Len(r.body)})

\* A chunk is a line with its size and perhaps an extension, its bytes, and two
\* more places.
ChunkSize(s, c) == s[c.at + 1].v
ChunkLine(s, c) ==
    /\ LineFrom(s, c.at, c.data)
    /\ s[c.at + 1].k = "size"
    /\ \/ s[c.at + 2].k \in {"extension", "LF"}
       \/ s[c.at + 2].k = "CR" /\ LfAt(s, c.at + 3)

ChunksOK(s, r) ==
    /\ Len(r.chunks) > 0 /\ r.chunks[1].at = r.head /\ r.chunks[1].before = 0
    /\ \A k \in DOMAIN r.chunks :
          LET c == r.chunks[k]
              n == ChunkSize(s, c)
          IN  /\ ChunkLine(s, c) /\ c.data < r.to
              /\ k < Len(r.chunks) =>
                    /\ n > 0 /\ c.data + n + 2 < r.to
                    /\ Carries(s, r, c.data, c.before, n)
                    /\ LfAt(s, c.data + n + 2)
                    /\ r.chunks[k + 1].at = c.data + n + 2
                    /\ r.chunks[k + 1].before = c.before + n
              /\ k = Len(r.chunks) =>
                    /\ n = 0 /\ c.before = Len(r.body)
                    /\ OnlyBlankLines(s, c.data, r.to)

BodyOK(s, r) ==
    /\ r.head <= r.to /\ r.to <= Len(s)
    /\ ~(GivesLength(s, r) /\ IsChunked(s, r))
    /\ GivesLength(s, r) => PlainOK(s, r)
    /\ IsChunked(s, r) => ChunksOK(s, r)
    /\ ~GivesLength(s, r) /\ ~IsChunked(s, r) => r.to = r.head /\ r.body = <<>>

-----------------------------------------------------------------------------
(* Clients. *)

\* Between the requests of a client, before them and after them stands nothing
\* but blank lines.
EndBefore(c, i) == IF i = 1 THEN 0 ELSE c.requests[i - 1].to
NextFrom(c, i) == IF i \in DOMAIN c.requests THEN c.requests[i].from ELSE Len(c.stream)

WellFormed(c) ==
    /\ \A i \in DOMAIN c.requests :
          HeaderOK(c.stream, c.requests[i]) /\ BodyOK(c.stream, c.requests[i])
    /\ \A i \in 1 .. Len(c.requests) + 1 :
          OnlyBlankLines(c.stream, EndBefore(c, i), NextFrom(c, i))
=============================================================================
