-------------------------------- MODULE Codec --------------------------------
(*****************************************************************************)
(* A value on its way: it is made a document of XML or JSON, the document    *)
(* may be another one by the time it arrives, and the parser makes values of *)
(* that one, with memory that may run out.  A format string goes the same    *)
(* way: a programmer writes it for a value, perhaps wrongly, and the value   *)
(* is built by it or taken apart by it.                                      *)
(*****************************************************************************)
EXTENDS FormatGrammar

CONSTANTS
    Messages,       \* what is sent: records [kind, name, v]
    Dialects,       \* "i8", "apache"
    EditNames,      \* element names,
    EditTexts,      \* texts,
    EditTokens,     \* tokens and
    EditSpecs,      \* characters of formats that an altered document may have
    MaxEdits,       \* bound: alterations of a document
    Memories        \* bound: allocations until memory runs out

VARIABLES
    message,    \* what is sent
    document,   \* its document: an element, or a sequence of tokens or of a
                \* format's characters
    edits,      \* how often the document has been altered
    stage,      \* "made", "sent", "unsent" or "parsed"
    outcome     \* what the parser returns, and what it has left allocated

vars == <<message, document, edits, stage, outcome>>

Json == message.kind = "json"
\* xmlrpc_build_value(), xmlrpc_decompose_value() and xmlrpc_parse_value().
Formats == {"build", "decompose", "old"}
OfFormat == message.kind \in Formats

Init ==
    /\ message \in Messages
    /\ document = <<>>
    /\ edits = 0
    /\ stage = "made"
    /\ outcome = Outcome("error", NoText, Refuse(Start(0)))

\* The format of a value, with what ends its arrays and its structs.
RECURSIVE FormatOf(_, _, _)
FormatOfMember(key, v, arrayEnd, structEnd) ==
    <<FormatChar("s", StringValue(key)), Char(":")>>
    \o FormatOf(v, arrayEnd, structEnd) \o <<Char(",")>>
FormatOf(v, arrayEnd, structEnd) ==
    CASE v.type = "array" ->
           <<Char("(")>>
           \o FlattenSeq([i \in DOMAIN v.items |-> FormatOf(v.items[i], arrayEnd, structEnd)])
           \o arrayEnd \o <<Char(")")>>
      [] v.type = "struct" ->
           <<Char("{")>>
           \o FlattenSeq([i \in DOMAIN v.keys |->
                  FormatOfMember(v.keys[i], v.items[i], arrayEnd, structEnd)])
           \o structEnd \o <<Char("}")>>
      [] v.type = "string"   -> <<FormatChar("s", v)>>
      [] v.type = "datetime" -> <<FormatChar("8", StringValue(Date(v.n)))>>
      [] OTHER -> <<FormatChar(CHOOSE char \in DOMAIN NumberType : NumberType[char] = v.type, v)>>

Document(m, dialect, arrayEnd) ==
    CASE m.kind = "call"   -> SerializeCall(m.name, m.v, dialect)
      [] m.kind = "result" -> SerializeResponse(m.v, dialect)
      [] m.kind = "fault"  -> SerializeFault(m.v)
      [] m.kind = "value"  -> SerializeValue(m.v, dialect)
      [] m.kind = "json"   -> SerializeJson(m.v)
      [] m.kind = "build"  -> FormatOf(m.v, <<>>, <<>>)
      [] OTHER             -> FormatOf(m.v, arrayEnd, <<Char("*")>>)

\* A format that takes an array apart may allow for more items.
Send(dialect, arrayEnd) ==
    /\ stage = "made"
    /\ IF ~OfFormat /\ HasCPtr(message.v)
       THEN stage' = "unsent" /\ UNCHANGED document
       ELSE stage' = "sent" /\ document' = Document(message, dialect, arrayEnd)
    /\ UNCHANGED <<message, edits, outcome>>

\* Sequences that differ from s in one place: an entry too many, too few,
\* before another.
Rearranged(s) ==
    {RemoveAt(s, i) : i \in DOMAIN s} \cup {InsertAt(s, i, s[i]) : i \in DOMAIN s}

\* Elements that differ from e in one place: a name, a text, or its children.
AlteredHere(e) ==
    {[e EXCEPT !.name = name] : name \in EditNames \ {e.name}}
    \cup {[e EXCEPT !.text = text] : text \in {t \in EditTexts : e.kids = <<>> /\ t # e.text}}
    \cup {[e EXCEPT !.kids = kids] : kids \in Rearranged(e.kids) \cup {Reverse(e.kids)}}
RECURSIVE AlteredElement(_)
AlteredElement(e) ==
    AlteredHere(e) \cup
    UNION {{[e EXCEPT !.kids[i] = kid] : kid \in AlteredElement(e.kids[i])} : i \in DOMAIN e.kids}
AlteredTokens(s, tokens) ==
    Rearranged(s) \cup {[s EXCEPT ![i] = token] : i \in DOMAIN s, token \in tokens}
Altered(s) ==
    CASE Json     -> AlteredTokens(s, EditTokens)
      [] OfFormat -> AlteredTokens(s, EditSpecs)
      [] OTHER    -> AlteredElement(s)

Alter ==
    /\ stage = "sent" /\ edits < MaxEdits
    /\ document' \in Altered(document)
    /\ edits' = edits + 1
    /\ UNCHANGED <<message, stage, outcome>>

Parse(kind, s) ==
    CASE kind = "call"  -> ParseCall2(s, document)
      [] kind = "value" -> ParseValueXml2(s, document)
      [] kind = "json"  -> Outcome(kind, NoText, ParseJson(s, document))
      [] kind = "build" -> Outcome(kind, NoText, BuildValue(s, document))
      [] kind \in {"decompose", "old"} ->
           Outcome(kind, NoText, DecomposeValue(s, message.v, kind = "old", document))
      [] OTHER          -> ParseResponse3(s, document)

Receive(memory) ==
    /\ stage = "sent"
    /\ stage' = "parsed"
    /\ outcome' = Parse(message.kind, Start(memory))
    /\ UNCHANGED <<message, document, edits>>

Next ==
    \/ \E dialect \in Dialects, arrayEnd \in {<<>>, <<Char("*")>>} : Send(dialect, arrayEnd)
    \/ Alter
    \/ \E memory \in Memories : Receive(memory)

Spec == Init /\ [][Next]_vars

-----------------------------------------------------------------------------
(* What is left *)

\* What must be left allocated of an outcome: a call has its method's name, a
\* fault its string.
Owned ==
    CASE outcome.kind = "error" -> 0
      [] outcome.kind = "fault" -> 1
      [] outcome.kind = "call"  -> 1 + ValueCount(outcome.v)
      [] outcome.kind = "decompose" -> KeptOfAll(outcome.v)
      [] outcome.kind = "old"   -> 0
      [] OTHER                  -> ValueCount(outcome.v)

\* Wherever parsing ends, in a fault at any depth or in any allocation that
\* fails, exactly the values that the caller gets are left: nothing else is
\* leaked and nothing is released twice (parse_value.c, xmlrpc_parse.c, json.c,
\* xmlrpc_build.c, xmlrpc_decompose.c), but for the three places where the
\* behaviour is undefined.
NothingLeaked == outcome.s.broken \/ outcome.s.live = Owned

-----------------------------------------------------------------------------
(* The grammar of XML-RPC, and what a document of it means *)

MeaningOfText(e) == StringValue(Lines(Cdata(e)))
ScalarElement(e) ==
    /\ e.kids = <<>>
    /\ \/ e.name \in IntNames /\ IsInt32(Cdata(e))
       \/ e.name = "boolean" /\ Cdata(e) \in {Number(0), Number(1)}
       \/ e.name = "double" /\ IsDouble(Cdata(e))
       \/ e.name = "dateTime.iso8601" /\ IsDatetime(Cdata(e))
       \/ e.name \in {"i8", "ex:i8"} /\ Cdata(e).form = "number"
       \/ e.name \in {"string", "nil", "ex:nil"}
MeaningOfScalar(e) ==
    CASE e.name = "string" -> MeaningOfText(e)
      [] e.name \in {"nil", "ex:nil"} -> Nothing
      [] e.name \in {"boolean", "double"} -> NumberValue(e.name, Cdata(e).n)
      [] e.name = "dateTime.iso8601" -> NumberValue("datetime", Cdata(e).n)
      [] e.name \in {"i8", "ex:i8"} -> NumberValue("i8", Cdata(e).n)
      [] OTHER -> NumberValue("int", Cdata(e).n)

RECURSIVE WellFormed(_, _), Meaning(_)
WellFormedMember(e, depth) ==
    /\ e.name = "member" /\ Len(e.kids) = 2
    /\ \E p \in {<<1, 2>>, <<2, 1>>} :
         /\ e.kids[p[1]].name = "name" /\ e.kids[p[1]].kids = <<>>
         /\ WellFormed(e.kids[p[2]], depth)
WellFormed(e, depth) ==
    /\ depth > 0 /\ e.name = "value" /\ Len(e.kids) <= 1
    /\ \A i \in DOMAIN e.kids :
         LET child == e.kids[i]
         IN  \/ ScalarElement(child)
             \/ /\ child.name = "array"
                /\ Len(child.kids) = 1 /\ child.kids[1].name = "data"
                /\ \A j \in DOMAIN child.kids[1].kids :
                     WellFormed(child.kids[1].kids[j], depth - 1)
             \/ /\ child.name = "struct"
                /\ \A j \in DOMAIN child.kids : WellFormedMember(child.kids[j], depth - 1)
Meanings(es) == [i \in DOMAIN es |-> Meaning(es[i])]
Meaning(e) ==
    IF e.kids = <<>> THEN MeaningOfText(e)
    ELSE LET kids == e.kids[1].kids
         IN  CASE e.kids[1].name = "array" -> ArrayValue(Meanings(kids[1].kids))
               [] e.kids[1].name = "struct" ->
                    StructOf([i \in DOMAIN kids |-> MeaningOfText(ChildByName(kids[i], "name")).text],
                             [i \in DOMAIN kids |-> Meaning(ChildByName(kids[i], "value"))])
               [] OTHER -> MeaningOfScalar(e.kids[1])

WellFormedParams(e) ==
    /\ e.name = "params"
    /\ \A i \in DOMAIN e.kids :
         /\ e.kids[i].name = "param" /\ Len(e.kids[i].kids) = 1
         /\ WellFormed(e.kids[i].kids[1], NestingLimit)
MeaningOfParams(e) == ArrayValue([i \in DOMAIN e.kids |-> Meaning(e.kids[i].kids[1])])
WellFormedCall(e) ==
    /\ e.name = "methodCall"
    /\ \E i, j \in DOMAIN e.kids :
         /\ {i, j} = DOMAIN e.kids
         /\ e.kids[i].name = "methodName" /\ e.kids[i].kids = <<>>
         /\ i # j => WellFormedParams(e.kids[j])
WellFormedResult(e) ==
    /\ e.name = "methodResponse" /\ Len(e.kids) = 1
    /\ WellFormedParams(e.kids[1]) /\ Len(e.kids[1].kids) = 1
WellFormedFault(e) ==
    /\ e.name = "methodResponse" /\ Len(e.kids) = 1
    /\ e.kids[1].name = "fault" /\ Len(e.kids[1].kids) = 1
    /\ WellFormed(e.kids[1].kids[1], NestingLimit)
    /\ LET v == Meaning(e.kids[1].kids[1])
       IN  v.type = "struct" /\ HasMember(v, "faultCode", "int") /\ HasMember(v, "faultString", "string")

-----------------------------------------------------------------------------
(* The grammar of JSON, and what a document of it means *)

\* Words are judged by their texts, whatever the tokenizer calls them.  Besides
\* the keywords of JSON there is "undefined", and the first letters of any of
\* them stand for it.
JsonWord(token) ==
    token.type # "String" /\ token.text.form \in {"number", "real", "exponent", "keyword"}
MeaningOfKeyword ==
    [null |-> Nothing, undefined |-> Nothing,
     true |-> NumberValue("boolean", 1), false |-> NumberValue("boolean", 0)]
MeaningOfWord(text) ==
    CASE text.form = "number"  -> NumberValue("i8", text.n)
      [] text.form = "keyword" -> MeaningOfKeyword[text.words]
      [] OTHER                 -> NumberValue("double", text.n)

\* The parts of a sequence of tokens between the commas that are in no bracket;
\* there may be a comma after the last one.
Depth(tokens, i) ==
    Cardinality({j \in 1 .. i - 1 : tokens[j].type \in {"OpenBracket", "OpenBrace"}})
    - Cardinality({j \in 1 .. i - 1 : tokens[j].type \in {"CloseBracket", "CloseBrace"}})
Parts(tokens) ==
    LET commas == {i \in DOMAIN tokens : tokens[i].type = "Comma" /\ Depth(tokens, i) = 0}
        cuts == SetToSortSeq(commas \cup {0, Len(tokens) + 1}, <)
        parts == [k \in 1 .. Len(cuts) - 1 |-> SubSeq(tokens, cuts[k] + 1, cuts[k + 1] - 1)]
    IN  IF Last(parts) = <<>> THEN Front(parts) ELSE parts
Enclosed(tokens, open, close) ==
    Len(tokens) >= 2 /\ Head(tokens).type = open /\ Last(tokens).type = close
Inside(tokens) == Parts(SubSeq(tokens, 2, Len(tokens) - 1))

RECURSIVE JsonWellFormed(_), JsonMeaning(_)
JsonWellFormed(tokens) ==
    \/ Len(tokens) = 1 /\ (tokens[1].type = "String" \/ JsonWord(tokens[1]))
    \/ /\ Enclosed(tokens, "OpenBracket", "CloseBracket")
       /\ \A k \in DOMAIN Inside(tokens) : JsonWellFormed(Inside(tokens)[k])
    \/ /\ Enclosed(tokens, "OpenBrace", "CloseBrace")
       /\ \A k \in DOMAIN Inside(tokens) :
            LET part == Inside(tokens)[k]
            IN  /\ Len(part) > 2 /\ part[1].type = "String" /\ part[2].type = "Colon"
                /\ JsonWellFormed(SubSeq(part, 3, Len(part)))
JsonMeaning(tokens) ==
    LET token == Head(tokens)
        parts == Inside(tokens)
    IN  CASE token.type = "String" -> StringValue(UnescapeString(token.text))
          [] token.type = "OpenBracket" ->
               ArrayValue([k \in DOMAIN parts |-> JsonMeaning(parts[k])])
          [] token.type = "OpenBrace" ->
               StructOf([k \in DOMAIN parts |-> UnescapeString(parts[k][1].text)],
                        [k \in DOMAIN parts |-> JsonMeaning(SubSeq(parts[k], 3, Len(parts[k])))])
          [] OTHER -> MeaningOfWord(token.text)

\* A list that is the whole document may lack its end after the bracket or a
\* comma.
Completed(tokens) ==
    IF /\ tokens # <<>> /\ Head(tokens).type = "OpenBracket"
       /\ Last(tokens).type \in {"OpenBracket", "Comma"}
    THEN Append(tokens, Sign("CloseBracket")) ELSE tokens

-----------------------------------------------------------------------------
(* What the parsers promise *)

WellFormedXml ==
    /\ ValidXml(document)
    /\ message.kind # "value" => ~TooLarge(document)
    /\ CASE message.kind = "call"  -> WellFormedCall(document)
         [] message.kind = "value" -> WellFormed(document, NestingLimit)
         [] OTHER                  -> WellFormedResult(document) \/ WellFormedFault(document)
WellFormedDocument ==
    CASE Json -> JsonWellFormed(Completed(document))
      [] message.kind = "build" -> Builds(document)
      [] message.kind \in {"decompose", "old"} ->
           Decomposes(document) /\ Suits(document, message.v)
      [] OTHER -> WellFormedXml

\* A document means an outcome of one kind, with a name and a value.
DocumentMeans(kind, name, v) ==
    CASE Json -> kind = "json" /\ v = JsonMeaning(Completed(document))
      [] message.kind = "build" -> kind = "build" /\ v = MeaningOfFormat(document)
      [] message.kind \in {"decompose", "old"} ->
           kind = message.kind /\ v = Takes(document, message.v)
      [] message.kind = "value" -> kind = "value" /\ v = Meaning(document)
      [] message.kind = "call" ->
           /\ kind = "call"
           /\ name = Cdata(ChildByName(document, "methodName"))
           /\ v = IF Has(document, "params") THEN MeaningOfParams(ChildByName(document, "params"))
                  ELSE ArrayValue(<<>>)
      [] kind = "result" ->
           WellFormedResult(document) /\ ArrayValue(<<v>>) = MeaningOfParams(document.kids[1])
      [] kind = "fault" ->
           LET struct == Meaning(document.kids[1].kids[1])
           IN  /\ WellFormedFault(document)
               /\ v = FaultValue(Member(struct, "faultCode"), Member(struct, "faultString"))

HasExponent == Json /\ \E i \in DOMAIN document : document[i].text.form = "exponent"

\* Whatever becomes of a document on its way: a parser accepts it exactly if it
\* is in the grammar of XML-RPC or JSON (with the liberties the code takes) and
\* within the limits, unless memory runs out, and what it returns is what the
\* document means: the last value of a key that comes twice, and either a
\* result or a fault of a response.  JSON with an exponent in it never means
\* anything else: that isFloat() refuses it contradicts its own comment
\* (json.c:270-275), and the property takes neither side.  A format is accepted
\* exactly if it is in its grammar and suits its arguments or its value, and all
\* of what it asks for is stored or nothing (xmlrpc_parse.c, parse_value.c,
\* json.c, xmlrpc_build.c, xmlrpc_decompose.c).
AcceptsWhatItMeans ==
    stage = "parsed" /\ ~outcome.s.broken =>
        IF outcome.s.starved \/ ~WellFormedDocument
        THEN outcome.kind = "error"
        ELSE \/ DocumentMeans(outcome.kind, outcome.name, outcome.v)
             \/ HasExponent /\ outcome.kind = "error"

\* What a document can carry: in XML a value no deeper than the limit, with
\* dates of four digits and without control characters, in JSON any; a format
\* builds dates of four digits, and takes apart dates that are a time in Unix
\* and as many items as a node has room for.
RECURSIVE FitsXml(_, _), Buildable(_), Decomposable(_)
FitsXml(v, depth) ==
    /\ depth > 0
    /\ v.type = "datetime" => v.n >= 1000
    /\ \A text \in {v.text} \cup ToSet(v.keys) : text.words # "control"
    /\ \A i \in DOMAIN v.items : FitsXml(v.items[i], depth - 1)
Buildable(v) ==
    /\ v.type = "datetime" => v.n >= 1000
    /\ \A i \in DOMAIN v.items : Buildable(v.items[i])
Decomposable(v) ==
    /\ v.type = "datetime" => v.n >= 1970
    /\ Len(v.items) <= MaxBranches
    /\ \A i \in DOMAIN v.items : Decomposable(v.items[i])
FitsMessage ==
    /\ CASE Json -> TRUE
         [] message.kind = "build" -> Buildable(message.v)
         [] message.kind \in {"decompose", "old"} -> Decomposable(message.v)
         [] message.kind = "call" ->
              \A i \in DOMAIN message.v.items : FitsXml(message.v.items[i], NestingLimit)
         [] OTHER -> FitsXml(message.v, NestingLimit)
    /\ message.kind \in {"value", "json"} \cup Formats \/ ~TooLarge(document)

\* What is left of a value: XML makes carriage returns line feeds, JSON makes
\* an int an i8 and a date a string.
RECURSIVE AfterXml(_), AfterJson(_)
AfterXml(v) ==
    Value(v.type, v.n, Lines(v.text), [i \in DOMAIN v.items |-> AfterXml(v.items[i])],
          [i \in DOMAIN v.keys |-> Lines(v.keys[i])])
AfterJson(v) ==
    CASE v.type = "int"      -> NumberValue("i8", v.n)
      [] v.type = "datetime" -> StringValue(Date(v.n))
      [] OTHER -> [v EXCEPT !.items = [i \in DOMAIN @ |-> AfterJson(@[i])]]

\* The parts of a value that are stored when it is taken apart.
RECURSIVE PartsOf(_)
PartsOf(v) ==
    CASE v.type \in {"array", "struct"} -> FlattenSeq([i \in DOMAIN v.items |-> PartsOf(v.items[i])])
      [] v.type = "nil"      -> <<>>
      [] v.type = "datetime" -> <<StringValue(Date(v.n))>>
      [] OTHER               -> <<v>>
Received(kind, v) ==
    CASE kind = "json" -> AfterJson(v)
      [] kind \in {"decompose", "old"} -> PartsOf(v)
      [] OTHER -> AfterXml(v)
Arrived ==
    IF message.kind \in {"decompose", "old"}
    THEN [i \in DOMAIN outcome.v |-> outcome.v[i].v] ELSE outcome.v

ArrivedAsSent ==
    /\ outcome.kind = message.kind
    /\ outcome.name = message.name
    /\ Arrived = Received(message.kind, message.v)

=============================================================================
