------------------------------ MODULE XmlCodec ------------------------------
(*****************************************************************************)
(* XML-RPC's XML.  xmlrpc_serialize.c makes a document of a value, a call, a *)
(* response or a fault; xmlrpc_parse.c and parse_value.c make values of one, *)
(* within the limits on nesting and size.  Documents are trees of elements;  *)
(* characters are left to the XML parser, which is external, but what        *)
(* escaping, line ends and number formats do to a text is kept.              *)
(*****************************************************************************)
EXTENDS Values

CONSTANTS
    NestingLimit,   \* XMLRPC_NESTING_LIMIT_ID
    XmlSizeLimit,   \* XMLRPC_XML_SIZE_LIMIT_ID, in elements
    IntMax          \* bound: stands for 2^31 - 1

Element(name, text, kids) == [name |-> name, text |-> text, kids |-> kids]
Leaf(name, text) == Element(name, text, <<>>)
Branch(name, kids) == Element(name, NoText, kids)

-----------------------------------------------------------------------------
(* Serialising *)

EscapeForXml(text) ==
    IF text.form = "words" /\ text.words \in {"markup", "cr"}
    THEN [text EXCEPT !.form = "escaped"] ELSE text

\* An element of the apache dialect has a namespace.
Extension(name, dialect) ==
    IF dialect = "apache" THEN "ex:" \o name ELSE name

RECURSIVE SerializeValue(_, _)
SerializeMember(key, v, dialect) ==
    Branch("member", <<Leaf("name", EscapeForXml(key)), SerializeValue(v, dialect)>>)
SerializeStruct(v, dialect) ==
    Branch("struct", [i \in DOMAIN v.keys |-> SerializeMember(v.keys[i], v.items[i], dialect)])
SerializeArray(v, dialect) ==
    Branch("array", <<Branch("data", [i \in DOMAIN v.items |-> SerializeValue(v.items[i], dialect)])>>)
FormatValueContent(v, dialect) ==
    CASE v.type = "int"      -> Leaf("i4", Number(v.n))
      [] v.type = "i8"       -> Leaf(Extension("i8", dialect), Number(v.n))
      [] v.type = "boolean"  -> Leaf("boolean", Number(v.n))
      [] v.type = "double"   -> Leaf("double", Real(v.n))
      [] v.type = "datetime" -> Leaf("dateTime.iso8601", Date(v.n))
      [] v.type = "string"   -> Leaf("string", EscapeForXml(v.text))
      [] v.type = "nil"      -> Leaf(Extension("nil", dialect), NoText)
      [] v.type = "array"    -> SerializeArray(v, dialect)
      [] v.type = "struct"   -> SerializeStruct(v, dialect)
SerializeValue(v, dialect) == Branch("value", <<FormatValueContent(v, dialect)>>)

SerializeParams(v, dialect) ==
    Branch("params", [i \in DOMAIN v.items |->
                         Branch("param", <<SerializeValue(v.items[i], dialect)>>)])

SerializeCall(name, params, dialect) ==
    Branch("methodCall", <<Leaf("methodName", EscapeForXml(name)),
                           SerializeParams(params, dialect)>>)
SerializeResponse(v, dialect) ==
    Branch("methodResponse", <<SerializeParams(ArrayValue(<<v>>), dialect)>>)
\* A fault always goes out in the first dialect.
SerializeFault(v) ==
    Branch("methodResponse", <<Branch("fault", <<SerializeValue(v, "i8")>>)>>)

-----------------------------------------------------------------------------
(* The XML parser *)

\* Words with raw markup or control characters make no XML document.
RECURSIVE ValidXml(_)
ValidXml(e) ==
    /\ e.text.form = "words" => e.text.words \notin {"markup", "control"}
    /\ \A i \in DOMAIN e.kids : ValidXml(e.kids[i])

\* References are replaced; a raw carriage return is a line end.
Cdata(e) ==
    CASE e.text.form = "escaped"     -> [e.text EXCEPT !.form = "words"]
      [] e.text = Words("cr")        -> Words("lf")
      [] OTHER                       -> e.text

RECURSIVE ElementCount(_)
ElementCount(e) ==
    1 + FoldLeft(LAMBDA n, kid : n + ElementCount(kid), 0, e.kids)

-----------------------------------------------------------------------------
(* Parsing values *)

\* xmlrpc_string_new_lp() takes a carriage return for a line end.
Lines(text) == IF text = Words("cr") THEN Words("lf") ELSE text
StringNewLp(s, text) == New(s, StringValue(Lines(text)))

IntNames == {"int", "i4", "i1", "i2", "ex:i1", "ex:i2"}
IsInt32(text) == text.form = "number" /\ text.n \in -IntMax - 1 .. IntMax
IsDouble(text) == text.form \in {"number", "real", "exponent"}
IsDatetime(text) == text.form = "date" /\ text.n \in 1000 .. 9999

\* Numbers of 64 bits have no bound here.  When an i8 is no number, the fault's
\* text has one argument too few (parse_value.c:592).
ParseSimpleValueCdata(s, name, text) ==
    CASE name \in IntNames /\ IsInt32(text) -> New(s, NumberValue("int", text.n))
      [] name = "boolean" /\ text \in {Number(0), Number(1)} ->
           New(s, NumberValue("boolean", text.n))
      [] name = "double" /\ IsDouble(text) -> New(s, NumberValue("double", text.n))
      [] name = "dateTime.iso8601" /\ IsDatetime(text) ->
           New(s, NumberValue("datetime", text.n))
      [] name = "string" -> StringNewLp(s, text)
      [] name \in {"nil", "ex:nil"} -> New(s, Nothing)
      [] name \in {"i8", "ex:i8"} /\ text.form = "number" ->
           New(s, NumberValue("i8", text.n))
      [] name \in {"i8", "ex:i8"} /\ text # NoText -> Return(Break(s), Nothing)
      [] OTHER -> Refuse(s)

ParseSimpleValue(s, e) ==
    IF e.kids # <<>> THEN Refuse(s) ELSE ParseSimpleValueCdata(s, e.name, Cdata(e))

Has(e, name) == \E i \in DOMAIN e.kids : e.kids[i].name = name
ChildByName(e, name) == e.kids[SelectInSeq(e.kids, LAMBDA kid : kid.name = name)]

RECURSIVE ParseValue(_, _, _)

ParseArrayDataChild(r, kid, maxRecursion) ==
    IF r.s.fault THEN r ELSE AppendParsed(r.v, ParseValue(r.s, kid, maxRecursion - 1))
ParseArrayData(new, e, maxRecursion) ==
    IF Len(e.kids) # 1 \/ ~Has(e, "data") THEN Return(Fault(new.s), new.v)
    ELSE FoldLeft(LAMBDA r, kid : ParseArrayDataChild(r, kid, maxRecursion),
                  new, e.kids[1].kids)
ParseArray(s, e, maxRecursion) ==
    Then(New(s, ArrayValue(<<>>)),
         LAMBDA new : Filled(ParseArrayData(new, e, maxRecursion)))

\* A member is one name and one value, in either order; it returns both as a
\* struct of one member.
ParseName(s, e) ==
    IF e.kids # <<>> THEN Refuse(s) ELSE StringNewLp(s, Cdata(e))
MemberOf_KeepsKey(key, v) ==
    IF v.s.fault THEN Return(v.s, Nothing) ELSE Return(v.s, StructValue(<<key.text>>, <<v.v>>))
MemberOf(key, v) ==
    IF v.s.fault THEN Return(Decref(v.s, key), Nothing)
    ELSE Return(v.s, StructValue(<<key.text>>, <<v.v>>))
ParseMemberValue(s, e, maxRecursion) ==
    IF Has(e, "value") THEN ParseValue(s, ChildByName(e, "value"), maxRecursion - 1)
    ELSE Refuse(s)
ParseMember(s, e, maxRecursion) ==
    IF e.name # "member" \/ Len(e.kids) # 2 \/ ~Has(e, "name") THEN Refuse(s)
    ELSE Then(ParseName(s, ChildByName(e, "name")),
              LAMBDA key : MemberOf(key.v, ParseMemberValue(key.s, e, maxRecursion)))

SetParsed(struct, m) ==
    IF m.s.fault THEN Return(m.s, struct)
    ELSE StructSetValue(m.s, struct, m.v.keys[1], m.v.items[1])
ParseStructMember(r, kid, maxRecursion) ==
    IF r.s.fault THEN r ELSE SetParsed(r.v, ParseMember(r.s, kid, maxRecursion))
ParseStruct(s, e, maxRecursion) ==
    Then(New(s, StructValue(<<>>, <<>>)),
         LAMBDA new : Filled(
             FoldLeft(LAMBDA r, kid : ParseStructMember(r, kid, maxRecursion), new, e.kids)))

ParseValue(s, e, maxRecursion) ==
    IF maxRecursion < 1 \/ e.name # "value" \/ Len(e.kids) > 1 THEN Refuse(s)
    ELSE IF e.kids = <<>> THEN StringNewLp(s, Cdata(e))
    ELSE LET child == e.kids[1]
         IN  CASE child.name = "struct" -> ParseStruct(s, child, maxRecursion)
               [] child.name = "array"  -> ParseArray(s, child, maxRecursion)
               [] OTHER                 -> ParseSimpleValue(s, child)

-----------------------------------------------------------------------------
(* Parsing calls and responses *)

ConvertParam(r, param) ==
    IF r.s.fault THEN r
    ELSE IF param.name # "param" \/ Len(param.kids) # 1 THEN Return(Fault(r.s), r.v)
    ELSE AppendParsed(r.v, ParseValue(r.s, param.kids[1], NestingLimit))
ConvertParams(s, e) ==
    Then(New(s, ArrayValue(<<>>)), LAMBDA new : Filled(FoldLeft(ConvertParam, new, e.kids)))

\* What a parser gives its caller: nothing but the fault when there is one.
Outcome(kind, name, r) ==
    IF r.s.fault
    THEN [kind |-> "error", name |-> NoText, v |-> Nothing, s |-> r.s]
    ELSE [kind |-> kind, name |-> name, v |-> r.v, s |-> r.s]

\* The name is allocated like a value.  Too many children are noticed last.
ParseMethodNameElement(s, e) ==
    IF e.kids # <<>> THEN Refuse(s) ELSE New(s, StringValue(Cdata(e)))
ParseCallParams(s, e) ==
    IF Len(e.kids) = 1 THEN New(s, ArrayValue(<<>>))
    ELSE IF ~Has(e, "params") THEN Refuse(s)
    ELSE Then(ConvertParams(s, ChildByName(e, "params")),
              LAMBDA r : IF Len(e.kids) > 2 THEN Refuse(Decref(r.s, r.v)) ELSE r)
CallOf(name, params) ==
    IF params.s.fault
    THEN Outcome("call", NoText, Refuse(Decref(params.s, name.v)))
    ELSE Outcome("call", name.v.text, params)
NamedCall(name, e) ==
    IF name.s.fault THEN Outcome("call", NoText, name)
    ELSE CallOf(name, ParseCallParams(name.s, e))
ParseCallChildren(s, e) ==
    NamedCall(IF Has(e, "methodName")
              THEN ParseMethodNameElement(s, ChildByName(e, "methodName"))
              ELSE Refuse(s), e)

\* The one parameter is read before the array goes.
ParseParamsElement(s, e) ==
    Then(ConvertParams(s, e),
         LAMBDA r : IF Len(r.v.items) # 1 THEN Refuse(Decref(r.s, r.v))
                    ELSE Return([r.s EXCEPT !.live = @ - 1], r.v.items[1]))

\* A fault is a struct with a code and a string, and possibly more; the string
\* is copied.
Member(v, key) == v.items[CHOOSE i \in DOMAIN v.keys : v.keys[i] = Words(key)]
HasMember(v, key, type) ==
    \E i \in DOMAIN v.keys : v.keys[i] = Words(key) /\ v.items[i].type = type
FaultValue(code, string) ==
    StructValue(<<Words("faultCode"), Words("faultString")>>, <<code, string>>)
InterpretFaultValue(s, v) ==
    IF ~(v.type = "struct" /\ HasMember(v, "faultCode", "int")
                           /\ HasMember(v, "faultString", "string"))
    THEN Refuse(s)
    ELSE New(s, FaultValue(Member(v, "faultCode"), Member(v, "faultString")))
Released(r, v) == Return(Decref(r.s, v), r.v)
ParseFaultElement(s, e) ==
    IF Len(e.kids) # 1 THEN Refuse(s)
    ELSE Then(ParseValue(s, e.kids[1], NestingLimit),
              LAMBDA r : Released(InterpretFaultValue(r.s, r.v), r.v))

ParseMethodResponseElt(s, e) ==
    IF Len(e.kids) # 1 THEN Outcome("error", NoText, Refuse(s))
    ELSE CASE e.kids[1].name = "params" ->
                Outcome("result", NoText, ParseParamsElement(s, e.kids[1]))
           [] e.kids[1].name = "fault" ->
                Outcome("fault", NoText, ParseFaultElement(s, e.kids[1]))
           [] OTHER -> Outcome("error", NoText, Refuse(s))

TooLarge(e) == ElementCount(e) > XmlSizeLimit
ParseCall2(s, e) ==
    IF TooLarge(e) \/ ~ValidXml(e) \/ e.name # "methodCall"
    THEN Outcome("error", NoText, Refuse(s)) ELSE ParseCallChildren(s, e)
ParseResponse3(s, e) ==
    IF TooLarge(e) \/ ~ValidXml(e) \/ e.name # "methodResponse"
    THEN Outcome("error", NoText, Refuse(s)) ELSE ParseMethodResponseElt(s, e)
\* A value alone may be as large as it likes.
ParseValueXml2(s, e) ==
    IF ~ValidXml(e) THEN Outcome("error", NoText, Refuse(s))
    ELSE Outcome("value", NoText, ParseValue(s, e, NestingLimit))
=============================================================================
