------------------------------- MODULE Values -------------------------------
(*****************************************************************************)
(* XML-RPC values as the parsers make them: their texts, and the counts of   *)
(* what is allocated while a tree of them is built, with memory that may run *)
(* out at any allocation (xmlrpc_data.c, xmlrpc_array.c, xmlrpc_struct.c).   *)
(*****************************************************************************)
EXTENDS Integers, Sequences, FiniteSets, SequencesExt

\* A number in decimal, with a point or with an exponent, the first letters of a
\* keyword, a date with its year, or words: plain ones, ones with markup
\* characters and quotation marks, with a carriage return, with a line feed, or
\* with a control character that XML does not have; "escaped" are words with
\* references or backslash sequences in place of characters.  The n of a double
\* tells it from others and is negative for one below 1: an exponent has a minus
\* sign then, and a plus sign otherwise.
Text(form, n, words) == [form |-> form, n |-> n, words |-> words]
NoText == Text("none", 0, "")
Words(words) == Text("words", 0, words)
Number(n) == Text("number", n, "")
Real(n) == Text("real", n, "")
Exponent(n) == Text("exponent", n, "")
Keyword(word, letters) == Text("keyword", letters, word)
Date(year) == Text("date", year, "")

Value(type, n, text, items, keys) ==
    [type |-> type, n |-> n, text |-> text, items |-> items, keys |-> keys]
NumberValue(type, n) == Value(type, n, NoText, <<>>, <<>>)
StringValue(text) == Value("string", 0, text, <<>>, <<>>)
ArrayValue(items) == Value("array", 0, NoText, items, <<>>)
StructValue(keys, items) == Value("struct", 0, NoText, items, keys)
Nothing == NumberValue("nil", 0)

\* A C pointer cannot be sent.
RECURSIVE HasCPtr(_)
HasCPtr(v) == v.type = "cptr" \/ \E i \in DOMAIN v.items : HasCPtr(v.items[i])

-----------------------------------------------------------------------------
(* What a function has done is s: whether envP has a fault, whether memory   *)
(* was the reason, whether it has done something C does not define, the      *)
(* allocations left and the values that are allocated.  It returns s with a  *)
(* value.                                                                    *)

Start(memory) ==
    [fault |-> FALSE, starved |-> FALSE, broken |-> FALSE, left |-> memory, live |-> 0]
Return(s, v) == [s |-> s, v |-> v]
Fault(s) == [s EXCEPT !.fault = TRUE]
Refuse(s) == Return(Fault(s), Nothing)
Starve(s) == [Fault(s) EXCEPT !.starved = TRUE]
Break(s) == [Fault(s) EXCEPT !.broken = TRUE]

\* The values of a tree, the keys of structs among them.
RECURSIVE ValueCount(_)
ValueCount(v) ==
    1 + Len(v.keys) + FoldLeft(LAMBDA n, item : n + ValueCount(item), 0, v.items)

\* The last reference to v goes.
Decref(s, v) == [s EXCEPT !.live = @ - ValueCount(v)]

\* Room for a text, or in an array or a struct that may have to grow.
Grow(s) == IF s.left = 0 THEN Starve(s) ELSE [s EXCEPT !.left = @ - 1]
New(s, v) ==
    IF s.left = 0 THEN Return(Starve(s), Nothing)
    ELSE Return([s EXCEPT !.left = @ - 1, !.live = @ + 1], v)

\* The item is the array's, or goes when there is no room for it.
ArrayAppendItem(s, array, item) ==
    LET t == Grow(s)
    IN  IF t.fault THEN Return(Decref(t, item), array)
        ELSE Return(t, [array EXCEPT !.items = Append(@, item)])

\* What follows r unless it is a fault.
Then(r, Step(_)) == IF r.s.fault THEN r ELSE Step(r)

\* The array gets the item that a parser has made, or keeps what it had.
AppendParsed(array, item) ==
    IF item.s.fault THEN Return(item.s, array) ELSE ArrayAppendItem(item.s, array, item.v)

\* A key that is there keeps its place and gets the new value.  The struct has
\* references of its own to the key and the value: those of the caller are
\* released here too.
ChangeMemberValue(s, struct, i, v) ==
    Return(Decref(s, struct.items[i]), [struct EXCEPT !.items[i] = v])
AddNewMember(s, struct, key, v) ==
    LET t == Grow(s)
    IN  IF t.fault THEN Return(Decref(Decref(t, v), StringValue(key)), struct)
        ELSE Return(t, [struct EXCEPT !.items = Append(@, v), !.keys = Append(@, key)])
StructSetValue_Appends(s, struct, key, v) == AddNewMember(s, struct, key, v)
StructSetValue(s, struct, key, v) ==
    LET at == {i \in DOMAIN struct.keys : struct.keys[i] = key}
    IN  IF at = {} THEN AddNewMember(s, struct, key, v)
        ELSE LET r == ChangeMemberValue(s, struct, CHOOSE i \in at : TRUE, v)
             IN  Return(Decref(r.s, StringValue(key)), r.v)

\* A container that could not be filled goes, and what is in it.
Filled(r) == IF r.s.fault THEN [r EXCEPT !.s = Decref(@, r.v), !.v = Nothing] ELSE r

\* What a struct's members mean: every key once, in the order of their first
\* members, with the last one's value.
StructOf(keys, items) ==
    LET firsts == SetToSortSeq({i \in DOMAIN keys : \A j \in 1 .. i - 1 : keys[j] # keys[i]}, <)
    IN  StructValue([k \in DOMAIN firsts |-> keys[firsts[k]]],
                    [k \in DOMAIN firsts |->
                        items[Max({j \in DOMAIN keys : keys[j] = keys[firsts[k]]})]])
=============================================================================
