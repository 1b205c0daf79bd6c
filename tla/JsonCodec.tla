----------------------------- MODULE JsonCodec -----------------------------
(*****************************************************************************)
(* XML-RPC values in JSON (json.c).  A document is a sequence of tokens, as  *)
(* getToken() finds them; white space and comments are left out.             *)
(*****************************************************************************)
EXTENDS Values

Token(type, text) == [type |-> type, text |-> text]
Sign(type) == Token(type, NoText)

\* isFloat() asks of an exponent with its "e" that it be an integer, which it
\* never is, and a plus sign ends the word: no number with an exponent is one.
IsInteger(text) == text.form = "number"
IsFloat(text) == text.form = "real"

\* Of a keyword as many letters are compared as the word has, so that its first
\* letters will do.
Letters == [null |-> 4, undefined |-> 9, false |-> 5, true |-> 4]
IsKeyword(text) == text.form = "keyword" /\ text.n \in 1 .. Letters[text.words]
KeywordType == [null |-> "Null", undefined |-> "Undefined", false |-> "False", true |-> "True"]

\* A word is a number or a keyword, or else the tokenizer stops.
Word(text) ==
    Token(CASE IsInteger(text) -> "Integer"
            [] IsFloat(text)   -> "Float"
            [] IsKeyword(text) -> KeywordType[text.words]
            [] OTHER           -> "Bad",
          text)
Whole(word) == Word(Keyword(word, Letters[word]))

\* A string with a bare quotation mark in it ends too early.
String(text) == Token(IF text = Words("markup") THEN "Bad" ELSE "String", text)

\* Bare control characters and line ends are left to the reader of the string.
EscapeForJson(text) ==
    IF text.form = "words" /\ text.words \in {"markup", "cr", "lf", "control"}
    THEN [text EXCEPT !.form = "escaped"] ELSE text
UnescapeString(text) ==
    IF text.form = "escaped" THEN [text EXCEPT !.form = "words"] ELSE text

-----------------------------------------------------------------------------
(* Serialising *)

Separated(parts) ==
    FlattenSeq([i \in DOMAIN parts |->
                   IF i = 1 THEN parts[i] ELSE <<Sign("Comma")>> \o parts[i]])

\* JSON has one kind of integer and no dates.
RECURSIVE SerializeJson(_)
SerializeList(items) ==
    <<Sign("OpenBracket")>>
    \o Separated([i \in DOMAIN items |-> SerializeJson(items[i])])
    \o <<Sign("CloseBracket")>>
SerializeObjectMember(key, v) ==
    SerializeJson(StringValue(key)) \o <<Sign("Colon")>> \o SerializeJson(v)
SerializeObject(keys, items) ==
    <<Sign("OpenBrace")>>
    \o Separated([i \in DOMAIN keys |-> SerializeObjectMember(keys[i], items[i])])
    \o <<Sign("CloseBrace")>>
SerializeJson(v) ==
    CASE v.type \in {"int", "i8"} -> <<Word(Number(v.n))>>
      [] v.type = "boolean"  -> <<Whole(IF v.n = 1 THEN "true" ELSE "false")>>
      [] v.type = "double"   -> <<Word(Exponent(v.n))>>
      [] v.type = "datetime" -> <<String(Date(v.n))>>
      [] v.type = "string"   -> <<String(EscapeForJson(v.text))>>
      [] v.type = "nil"      -> <<Whole("null")>>
      [] v.type = "array"    -> SerializeList(v.items)
      [] v.type = "struct"   -> SerializeObject(v.keys, v.items)

-----------------------------------------------------------------------------
(* Parsing.  A function that is given the tokens from the current one on     *)
(* returns, besides its value, those after the last that it has read.        *)

Parsed(s, v, rest) == [s |-> s, v |-> v, rest |-> rest]
With(r, rest) == Parsed(r.s, r.v, rest)
TypeOf(tokens) == IF tokens = <<>> THEN "Eof" ELSE Head(tokens).type

\* The value is released with its text when there is no memory for the text:
\* that frees what is not there, or what has just been freed.
MakeUtf8String(s, text) ==
    Then(New(s, StringValue(UnescapeString(text))),
         LAMBDA new : LET t == Grow(new.s)
                      IN  IF t.fault THEN Return(Break(t), Nothing) ELSE Return(t, new.v))

RECURSIVE ParseJsonValue(_, _), ParseList(_, _, _), ParseObject(_, _, _)

\* The items of a list after its bracket or a comma.  The end of the document
\* ends it too.
ParsedItem(array, item) == With(AppendParsed(array, item), item.rest)
ContinueList(r) ==
    CASE TypeOf(r.rest) = "Comma" -> ParseList(r.s, r.v, Tail(r.rest))
      [] TypeOf(r.rest) = "CloseBracket" -> With(r, Tail(r.rest))
      [] OTHER -> Parsed(Fault(r.s), r.v, r.rest)
ParseListElement(s, array, tokens) ==
    Then(ParsedItem(array, ParseJsonValue(s, tokens)), ContinueList)
ParseList(s, array, tokens) ==
    CASE TypeOf(tokens) = "Eof" -> Parsed(s, array, tokens)
      [] TypeOf(tokens) = "CloseBracket" -> Parsed(s, array, Tail(tokens))
      [] TypeOf(tokens) = "Bad" -> Parsed(Fault(s), array, tokens)
      [] OTHER -> ParseListElement(s, array, tokens)

\* The members of an object after its brace or a comma.
ParsedMember(struct, key, item) ==
    With(IF item.s.fault THEN Return(Decref(item.s, key), struct)
         ELSE StructSetValue(item.s, struct, key.text, item.v), item.rest)
ParseMemberAfterKey(struct, key, tokens) ==
    CASE key.s.fault -> Parsed(key.s, struct, tokens)
      [] ~key.s.fault /\ TypeOf(tokens) # "Colon" ->
           Parsed(Fault(Decref(key.s, key.v)), struct, tokens)
      [] OTHER -> ParsedMember(struct, key.v, ParseJsonValue(key.s, Tail(tokens)))
ParseObjectMember(s, struct, tokens) ==
    ParseMemberAfterKey(struct, MakeUtf8String(s, Head(tokens).text), Tail(tokens))
ContinueObject(r) ==
    CASE TypeOf(r.rest) = "Comma" -> ParseObject(r.s, r.v, Tail(r.rest))
      [] TypeOf(r.rest) = "CloseBrace" -> With(r, Tail(r.rest))
      [] OTHER -> Parsed(Fault(r.s), r.v, r.rest)
ParseObject(s, struct, tokens) ==
    CASE TypeOf(tokens) = "CloseBrace" -> Parsed(s, struct, Tail(tokens))
      [] TypeOf(tokens) = "String" ->
           Then(ParseObjectMember(s, struct, tokens), ContinueObject)
      [] OTHER -> Parsed(Fault(s), struct, tokens)

\* Numbers of 64 bits have no bound here.
ScalarTokenValue(s, token) ==
    CASE token.type \in {"Null", "Undefined"} -> New(s, Nothing)
      [] token.type = "True"    -> New(s, NumberValue("boolean", 1))
      [] token.type = "False"   -> New(s, NumberValue("boolean", 0))
      [] token.type = "Integer" -> New(s, NumberValue("i8", token.text.n))
      [] token.type = "Float"   -> New(s, NumberValue("double", token.text.n))
      [] token.type = "String"  -> MakeUtf8String(s, token.text)
      [] OTHER                  -> Refuse(s)
ParseJsonValue(s, tokens) ==
    CASE TypeOf(tokens) = "Eof" -> With(Refuse(s), tokens)
      [] TypeOf(tokens) = "OpenBracket" ->
           Then(With(New(s, ArrayValue(<<>>)), Tail(tokens)),
                LAMBDA new : Filled(ParseList(new.s, new.v, new.rest)))
      [] TypeOf(tokens) = "OpenBrace" ->
           Then(With(New(s, StructValue(<<>>, <<>>)), Tail(tokens)),
                LAMBDA new : Filled(ParseObject(new.s, new.v, new.rest)))
      [] OTHER -> With(ScalarTokenValue(s, Head(tokens)), Tail(tokens))

\* Nothing may come after the value.
ParseJson(s, tokens) ==
    Then(ParseJsonValue(s, tokens),
         LAMBDA r : IF r.rest # <<>> THEN Refuse(Decref(r.s, r.v)) ELSE r)
=============================================================================
