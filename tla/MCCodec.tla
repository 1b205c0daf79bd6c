------------------------------- MODULE MCCodec -------------------------------
(* Messages for Codec. *)
EXTENDS Codec

IntValue(n) == NumberValue("int", n)
Str(words) == StringValue(Words(words))
Dict(keys, items) == StructValue([i \in DOMAIN keys |-> Words(keys[i])], items)

Scalars ==
    {IntValue(-4), NumberValue("i8", 9), NumberValue("boolean", 1), NumberValue("boolean", 0), Nothing,
     NumberValue("double", 5), NumberValue("double", -4),
     NumberValue("datetime", 999), NumberValue("datetime", 1000),
     NumberValue("cptr", 0), StringValue(Number(1))}
    \cup {Str(words) : words \in {"a", "markup", "cr", "lf", "control"}}

Nested == ArrayValue(<<Dict(<<"b">>, <<Str("a")>>)>>)
Containers ==
    {ArrayValue(<<>>), StructValue(<<>>, <<>>), Nested, ArrayValue(<<Nested>>),
     ArrayValue(<<IntValue(1), NumberValue("cptr", 0)>>),
     ArrayValue(<<IntValue(2), Str("markup")>>),
     Dict(<<"a", "b">>, <<IntValue(1), ArrayValue(<<Nothing>>)>>),
     Dict(<<"cr">>, <<NumberValue("i8", 9)>>),
     Dict(<<"control">>, <<IntValue(1)>>)}

FormatValues ==
    {NumberValue("datetime", 1969), NumberValue("datetime", 1970), NumberValue("cptr", 0),
     Nothing, IntValue(4), ArrayValue(<<IntValue(4), IntValue(4), IntValue(4)>>), StructValue(<<>>, <<>>), ArrayValue(<<Nested>>),
     ArrayValue(<<Str("a"), ArrayValue(<<Str("a"), IntValue(1)>>)>>),
     Dict(<<"a", "b">>, <<Str("a"), ArrayValue(<<NumberValue("datetime", 1970)>>)>>)}

Message(kind, name, v) == [kind |-> kind, name |-> name, v |-> v]
MCMessages ==
    {Message(kind, NoText, v) : kind \in {"value", "result", "json"}, v \in Scalars \cup Containers}
    \cup {Message("call", Words(m), ArrayValue(ps)) :
            m \in {"a", "markup"},
            ps \in {<<>>} \cup {<<v>> : v \in Scalars} \cup {<<Nested, IntValue(1)>>}}
    \cup {Message(kind, NoText, v) :
            kind \in {"build", "decompose", "old"},
            v \in FormatValues}
    \cup {Message("build", NoText, NumberValue("datetime", 999))}
    \cup {Message("fault", NoText, FaultValue(IntValue(code), Str(words))) :
            code \in {-4, 3}, words \in {"a", "cr", "control"}}

MCEditTexts ==
    {Words("a"), Words("b"), Words("faultCode"), Words("control"), Number(1), Number(4), NoText}
MCEditTokens ==
    {Sign(type) : type \in {"OpenBracket", "CloseBracket", "CloseBrace", "Comma", "Colon"}}
    \cup {Word(Number(1)), Word(Real(2)), Word(Exponent(3)), Word(Keyword("true", 3)),
          Word(Keyword("undefined", 9)), String(Words("a")), String(Words("markup"))}

MCEditSpecs ==
    {Char(char) : char \in {"-", "(", ")", "{", "}", ":", ",", "*", "#", "i"}}
    \cup {FormatChar("s", Str("a")), FormatChar("s", Str("b")), FormatChar("A", ArrayValue(<<Str("a")>>)),
          FormatChar("S", IntValue(2)), FormatChar("V", Str("a"))}
=============================================================================
