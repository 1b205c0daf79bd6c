------------------------------- MODULE Format -------------------------------
(*****************************************************************************)
(* Format strings.  xmlrpc_build_value() makes a value of one and its        *)
(* arguments (xmlrpc_build.c); xmlrpc_decompose_value() and its predecessor  *)
(* xmlrpc_parse_value() store the parts of a value in variables of the       *)
(* caller, and give back what they have stored when they fail on the way     *)
(* (xmlrpc_decompose.c).                                                     *)
(*****************************************************************************)
EXTENDS XmlCodec, JsonCodec

CONSTANT MaxBranches    \* items or members of a decomposition tree's node, 16

\* A character of a format with the argument that belongs to it.  The
\* characters "t", "w" and "6" go the way of "8" and "s" and are left out.
FormatChar(char, arg) == [char |-> char, arg |-> arg]
Char(char) == FormatChar(char, Nothing)
CharOf(specs) == IF specs = <<>> THEN "" ELSE Head(specs).char

NumberType ==
    [char \in {"i", "I", "b", "d", "p", "n"} |->
        CASE char = "i" -> "int"
          [] char = "I" -> "i8"
          [] char = "b" -> "boolean"
          [] char = "d" -> "double"
          [] char = "p" -> "cptr"
          [] char = "n" -> "nil"]

\* A size may stand after a string.
AfterSize(specs) == IF CharOf(specs) = "#" THEN Tail(specs) ELSE specs

\* One more reference to v, counted as the values that it keeps.
Incref(s, v) == [s EXCEPT !.live = @ + ValueCount(v)]

-----------------------------------------------------------------------------
(* Building *)

GivenValue(s, v, types) == IF v.type \in types THEN Return(Incref(s, v), v) ELSE Refuse(s)

GetScalar(s, spec) ==
    CASE spec.char \in DOMAIN NumberType ->
           New(s, NumberValue(NumberType[spec.char], spec.arg.n))
      [] spec.char = "s" -> StringNewLp(s, spec.arg.text)
      [] spec.char = "8" /\ IsDatetime(spec.arg.text) ->
           New(s, NumberValue("datetime", spec.arg.text.n))
      [] spec.char = "A" -> GivenValue(s, spec.arg, {"array"})
      [] spec.char = "S" -> GivenValue(s, spec.arg, {"struct"})
      [] spec.char = "V" -> GivenValue(s, spec.arg, {spec.arg.type})
      [] OTHER -> Refuse(s)

RECURSIVE GetValue(_, _), GetItems(_, _, _), GetMembers(_, _, _)

\* When there is no memory for the array, what is not there is released.
Vital(r) == IF r.s.fault THEN [r EXCEPT !.s = Break(@)] ELSE r
GetItems(s, array, specs) ==
    CASE CharOf(specs) = ")" -> Parsed(s, array, Tail(specs))
      [] CharOf(specs) = ""  -> Parsed(Fault(s), array, specs)
      [] OTHER -> Then(ParsedItem(array, GetValue(s, specs)),
                       LAMBDA r : GetItems(r.s, r.v, r.rest))

\* Any value may stand for a key until it is used as one.
SetBuiltMember(struct, key, item) ==
    CASE item.s.fault -> Parsed(Decref(item.s, key), struct, item.rest)
      [] ~item.s.fault /\ (CharOf(item.rest) \notin {",", "}"} \/ key.type # "string") ->
           Parsed(Fault(Decref(Decref(item.s, key), item.v)), struct, item.rest)
      [] OTHER -> With(StructSetValue(item.s, struct, key.text, item.v),
                       IF CharOf(item.rest) = "," THEN Tail(item.rest) ELSE item.rest)
GetStructMember(struct, key) ==
    CASE key.s.fault -> Parsed(key.s, struct, key.rest)
      [] ~key.s.fault /\ CharOf(key.rest) # ":" ->
           Parsed(Fault(Decref(key.s, key.v)), struct, key.rest)
      [] OTHER -> SetBuiltMember(struct, key.v, GetValue(key.s, Tail(key.rest)))
GetMembers(s, struct, specs) ==
    IF CharOf(specs) = "}" THEN Parsed(s, struct, Tail(specs))
    ELSE Then(GetStructMember(struct, GetValue(s, specs)),
              LAMBDA r : GetMembers(r.s, r.v, r.rest))

GetValue(s, specs) ==
    CASE CharOf(specs) = "" -> With(Refuse(s), specs)
      [] CharOf(specs) = "(" ->
           Then(With(Vital(New(s, ArrayValue(<<>>))), Tail(specs)),
                LAMBDA new : Filled(GetItems(new.s, new.v, new.rest)))
      [] CharOf(specs) = "{" ->
           Then(With(New(s, StructValue(<<>>, <<>>)), Tail(specs)),
                LAMBDA new : Filled(GetMembers(new.s, new.v, new.rest)))
      [] CharOf(specs) = "s" ->
           With(GetScalar(s, Head(specs)), AfterSize(Tail(specs)))
      [] OTHER -> With(GetScalar(s, Head(specs)), Tail(specs))

\* Nothing may come after the value.
BuildValue(s, specs) ==
    Then(GetValue(s, specs),
         LAMBDA r : IF r.rest # <<>> THEN Refuse(Decref(r.s, r.v)) ELSE r)

-----------------------------------------------------------------------------
(* The decomposition tree *)

Node(char) == [char |-> char, keys |-> <<>>, kids |-> <<>>, ignoreExcess |-> FALSE]
RECURSIVE NodeCount(_)
NodeCount(node) == 1 + FoldLeft(LAMBDA n, kid : n + NodeCount(kid), 0, node.kids)
DestroyDecompTree(s, node) == [s EXCEPT !.live = @ - NodeCount(node)]

\* A node that could not be completed goes, and those below it.
FinishedNode(r) == IF r.s.fault THEN [r EXCEPT !.s = DestroyDecompTree(@, r.v)] ELSE r

RECURSIVE CreateDecompTreeNext(_, _), BuildArrayDecompBranch(_), BuildStructDecompBranch(_)

Stuck(r) == Parsed(Fault(r.s), r.v, r.rest)
AddKid(r, kid) ==
    IF kid.s.fault THEN Parsed(kid.s, r.v, kid.rest)
    ELSE Parsed(kid.s, [r.v EXCEPT !.kids = Append(@, kid.v)], kid.rest)

\* The end of a node's format is its delimiter, after an asterisk if more may
\* follow in the value.
AsteriskEnds(specs, delim) == CharOf(specs) = "*" /\ CharOf(Tail(specs)) = delim
ProcessArraySpecTail(r) ==
    CASE CharOf(r.rest) = ")" -> With(r, Tail(r.rest))
      [] AsteriskEnds(r.rest, ")") ->
           Parsed(r.s, [r.v EXCEPT !.ignoreExcess = TRUE], Tail(Tail(r.rest)))
      [] OTHER -> Stuck(r)
BuildArrayDecompBranch(r) ==
    CASE CharOf(r.rest) \in {"", ")", "*"} -> ProcessArraySpecTail(r)
      [] CharOf(r.rest) \notin {"", ")", "*"} /\ Len(r.v.kids) >= MaxBranches -> Stuck(r)
      [] OTHER -> Then(AddKid(r, CreateDecompTreeNext(r.s, r.rest)), BuildArrayDecompBranch)

SkipComma(r) ==
    CASE CharOf(r.rest) = ","        -> With(r, Tail(r.rest))
      [] CharOf(r.rest) \in {"", "}"} -> r
      [] OTHER                       -> Stuck(r)
DoStructValue(r) ==
    Then(AddKid([r EXCEPT !.v.keys = Append(@, Head(r.rest).arg.text)],
                CreateDecompTreeNext(r.s, Tail(Tail(r.rest)))), SkipComma)
BuildStructDecompBranch(r) ==
    CASE AsteriskEnds(r.rest, "}") -> With(r, Tail(Tail(r.rest)))
      [] /\ Len(r.v.kids) < MaxBranches
         /\ CharOf(r.rest) = "s" /\ CharOf(Tail(r.rest)) = ":" ->
           Then(DoStructValue(r), BuildStructDecompBranch)
      [] OTHER -> Stuck(r)

FillNode(new) ==
    CASE new.v.char \in DOMAIN NumberType \cup {"-", "8", "A", "S", "V"} -> new
      [] new.v.char = "s" -> With(new, AfterSize(new.rest))
      [] new.v.char = "(" -> BuildArrayDecompBranch(new)
      [] new.v.char = "{" -> BuildStructDecompBranch(new)
      [] OTHER -> Stuck(new)
CreateDecompTreeNext(s, specs) ==
    Then(With(New(s, Node(CharOf(specs))), IF specs = <<>> THEN specs ELSE Tail(specs)),
         LAMBDA new : FinishedNode(FillNode(new)))
CreateDecompTree(s, specs) ==
    Then(CreateDecompTreeNext(s, specs),
         LAMBDA r : IF r.rest # <<>> THEN Refuse(DestroyDecompTree(r.s, r.v)) ELSE r)

-----------------------------------------------------------------------------
(* Decomposing *)

\* What is stored in the variables of the caller, each with its character, and
\* the values that it keeps allocated: a string is copied, a value is shared.
Stored(char, v) == [char |-> char, v |-> v]
Kept(stored) ==
    CASE stored.char \in {"s", "8"}      -> 1
      [] stored.char \in {"A", "S", "V"} -> ValueCount(stored.v)
      [] OTHER                           -> 0
KeptOfAll(stores) == FoldLeft(LAMBDA n, stored : n + Kept(stored), 0, stores)

NothingStored(s) == Return(s, <<>>)
Store(s, char, v) == Return(s, <<Stored(char, v)>>)
\* The old function stores pointers into the value; the text of a date is made
\* when it is first asked for and stays in the value.
NoCopy(char, old) == old /\ char # "8"
Copy(s, char, v, old) ==
    CASE NoCopy(char, old) -> Store(s, char, v)
      [] ~NoCopy(char, old) /\ s.left = 0 -> NothingStored(Starve(s))
      [] OTHER -> Store(IF old THEN [s EXCEPT !.left = @ - 1] ELSE New(s, v).s, char, v)
Share(s, char, v, old) == Store(IF old THEN s ELSE Incref(s, v), char, v)

ReadScalar(s, v, old, char) ==
    CASE char = "-" -> NothingStored(s)
      [] char \in DOMAIN NumberType /\ v.type = NumberType[char] ->
           IF char = "n" THEN NothingStored(s) ELSE Store(s, char, v)
      [] char = "s" /\ v.type = "string" -> Copy(s, char, v, old)
      [] char = "8" /\ v.type = "datetime" /\ v.n >= 1970 ->
           Copy(s, char, StringValue(Date(v.n)), old)
      [] \/ char = "V"
         \/ char = "A" /\ v.type = "array"
         \/ char = "S" /\ v.type = "struct" -> Share(s, char, v, old)
      [] OTHER -> Return(Fault(s), <<>>)

RECURSIVE DecomposeValueWithTree(_, _, _, _)

\* What has been stored goes when a part fails; nothing does of what the old
\* function has stored.
ReleaseDone(r, old) ==
    CASE r.s.fault /\ old  -> Return(r.s, <<>>)
      [] r.s.fault /\ ~old -> Return([r.s EXCEPT !.live = @ - KeptOfAll(r.v)], <<>>)
      [] OTHER             -> r
Joined(stores, r, part) == Return(Decref(r.s, part), stores \o r.v)
DecomposePart(r, part, old, node) ==
    IF r.s.fault THEN r
    ELSE Joined(r.v, DecomposeValueWithTree(Incref(r.s, part), part, old, node), part)

ArrayFits(v, node) ==
    \/ Len(node.kids) = Len(v.items)
    \/ Len(node.kids) < Len(v.items) /\ node.ignoreExcess
ParseArrayWithTree(s, v, old, node) ==
    IF ~ArrayFits(v, node) THEN Return(Fault(s), <<>>)
    ELSE ReleaseDone(
           FoldLeftDomain(LAMBDA r, i : DecomposePart(r, v.items[i], old, node.kids[i]),
                          NothingStored(s), node.kids), old)
ReadMember(r, v, old, key, kid) ==
    IF \E i \in DOMAIN v.keys : v.keys[i] = key
    THEN DecomposePart(r, v.items[CHOOSE i \in DOMAIN v.keys : v.keys[i] = key], old, kid)
    ELSE Return(Fault(r.s), r.v)
ParseStructWithTree(s, v, old, node) ==
    ReleaseDone(
        FoldLeftDomain(LAMBDA r, i : ReadMember(r, v, old, node.keys[i], node.kids[i]),
                       NothingStored(s), node.kids), old)

DecomposeValueWithTree(s, v, old, node) ==
    CASE node.char = "(" /\ v.type = "array"  -> ParseArrayWithTree(s, v, old, node)
      [] node.char = "{" /\ v.type = "struct" -> ParseStructWithTree(s, v, old, node)
      [] OTHER                                -> ReadScalar(s, v, old, node.char)

DecomposeValue(s, v, old, specs) ==
    Then(CreateDecompTree(s, specs),
         LAMBDA tree : LET r == DecomposeValueWithTree(tree.s, v, old, tree.v)
                       IN  Return(DestroyDecompTree(r.s, tree.v), r.v))
=============================================================================
