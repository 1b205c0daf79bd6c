---------------------------- MODULE FormatGrammar ----------------------------
(*****************************************************************************)
(* The grammars of the formats that build values and of those that take them *)
(* apart, and what a format means, to compare with Format.                   *)
(*****************************************************************************)
EXTENDS Format

\* Where characters stand in a format that are in none of its brackets.
SpecDepth(specs, i) ==
    Cardinality({j \in 1 .. i - 1 : specs[j].char \in {"(", "{"}})
    - Cardinality({j \in 1 .. i : specs[j].char \in {")", "}"}})
Outermost(specs) == {i \in DOMAIN specs : SpecDepth(specs, i) = 0}

\* The parts of a format that start at the places given and at the first.
PartsFrom(specs, starts) ==
    LET cuts == SetToSortSeq(starts \cup {1, Len(specs) + 1}, <)
    IN  [k \in 1 .. Len(cuts) - 1 |-> SubSeq(specs, cuts[k], cuts[k + 1] - 1)]
ItemFormats(specs) ==
    PartsFrom(specs, {i \in Outermost(specs) : specs[i].char \notin {"#", ")", "}"}})
\* A comma may stand after the last member.
MemberFormats(specs) ==
    LET listed == <<Char(",")>> \o specs
        parts == PartsFrom(listed, {i \in Outermost(listed) : listed[i].char = ","})
        members == [k \in DOMAIN parts |-> Tail(parts[k])]
    IN  IF Last(members) = <<>> THEN Front(members) ELSE members
\* A member's key and value are before and after its first colon.
Colon(member) == CHOOSE i \in DOMAIN member :
                    member[i].char = ":" /\ \A j \in 1 .. i - 1 : member[j].char # ":"
KeyFormat(member) == SubSeq(member, 1, Colon(member) - 1)
ValueFormat(member) == SubSeq(member, Colon(member) + 1, Len(member))
HasColon(member) == \E i \in DOMAIN member : member[i].char = ":"

Bracketed(specs, open, close) ==
    Len(specs) >= 2 /\ Head(specs).char = open /\ Last(specs).char = close
InBrackets(specs) == SubSeq(specs, 2, Len(specs) - 1)
IsString(specs) == specs # <<>> /\ Head(specs).char = "s" /\ AfterSize(Tail(specs)) = <<>>

-----------------------------------------------------------------------------
(* Formats that build *)

RECURSIVE Builds(_), MeaningOfFormat(_)
Builds(specs) ==
    \/ IsString(specs)
    \/ /\ Len(specs) = 1
       /\ \/ specs[1].char \in DOMAIN NumberType \cup {"V"}
          \/ specs[1].char = "8" /\ IsDatetime(specs[1].arg.text)
          \/ specs[1].char = "A" /\ specs[1].arg.type = "array"
          \/ specs[1].char = "S" /\ specs[1].arg.type = "struct"
    \/ /\ Bracketed(specs, "(", ")")
       /\ \A item \in ToSet(ItemFormats(InBrackets(specs))) : Builds(item)
    \/ /\ Bracketed(specs, "{", "}")
       /\ \A member \in ToSet(MemberFormats(InBrackets(specs))) :
            /\ HasColon(member)
            /\ Builds(KeyFormat(member)) /\ MeaningOfFormat(KeyFormat(member)).type = "string"
            /\ Builds(ValueFormat(member))
MeaningOfFormat(specs) ==
    LET items == ItemFormats(InBrackets(specs))
        members == MemberFormats(InBrackets(specs))
        arg == Head(specs).arg
    IN  CASE Head(specs).char \in {"A", "S", "V"} -> arg
          [] Head(specs).char = "s" -> StringValue(Lines(arg.text))
          [] Head(specs).char = "8" -> NumberValue("datetime", arg.text.n)
          [] Head(specs).char = "(" ->
               ArrayValue([k \in DOMAIN items |-> MeaningOfFormat(items[k])])
          [] Head(specs).char = "{" ->
               StructOf([k \in DOMAIN members |-> MeaningOfFormat(KeyFormat(members[k])).text],
                        [k \in DOMAIN members |-> MeaningOfFormat(ValueFormat(members[k]))])
          [] OTHER -> NumberValue(NumberType[Head(specs).char], arg.n)

-----------------------------------------------------------------------------
(* Formats that take a value apart *)

\* An asterisk ends what is taken of an array if it need not be all, and always
\* what is taken of a struct.
HasAsterisk(specs) == InBrackets(specs) # <<>> /\ Last(InBrackets(specs)).char = "*"
TakenItems(specs) ==
    ItemFormats(IF HasAsterisk(specs) THEN Front(InBrackets(specs)) ELSE InBrackets(specs))
TakenMembers(specs) == MemberFormats(Front(InBrackets(specs)))

RECURSIVE Decomposes(_)
Decomposes(specs) ==
    \/ IsString(specs)
    \/ Len(specs) = 1 /\ specs[1].char \in DOMAIN NumberType \cup {"-", "8", "A", "S", "V"}
    \/ /\ Bracketed(specs, "(", ")")
       /\ Len(TakenItems(specs)) <= MaxBranches
       /\ \A item \in ToSet(TakenItems(specs)) : Decomposes(item)
    \/ /\ Bracketed(specs, "{", "}") /\ HasAsterisk(specs)
       /\ Front(InBrackets(specs)) # <<>> => Last(Front(InBrackets(specs))).char = ","
       /\ Len(TakenMembers(specs)) <= MaxBranches
       /\ \A member \in ToSet(TakenMembers(specs)) :
            /\ HasColon(member)
            /\ Len(KeyFormat(member)) = 1 /\ IsString(KeyFormat(member))
            /\ Decomposes(ValueFormat(member))

\* What of v a format takes: a sequence of what it stores, none if it does not
\* suit v.
MemberOfKey(v, key) == v.items[CHOOSE i \in DOMAIN v.keys : v.keys[i] = key]
RECURSIVE Suits(_, _), Takes(_, _)
Suits(specs, v) ==
    LET char == Head(specs).char
        items == TakenItems(specs)
    IN  \/ char \in {"-", "V"}
        \/ char = "s" /\ v.type = "string"
        \/ char = "8" /\ v.type = "datetime" /\ v.n >= 1970
        \/ char = "A" /\ v.type = "array"
        \/ char = "S" /\ v.type = "struct"
        \/ char \in DOMAIN NumberType /\ v.type = NumberType[char]
        \/ /\ char = "(" /\ v.type = "array"
           /\ IF HasAsterisk(specs) THEN Len(items) <= Len(v.items)
                                    ELSE Len(items) = Len(v.items)
           /\ \A i \in DOMAIN items : Suits(items[i], v.items[i])
        \/ /\ char = "{" /\ v.type = "struct"
           /\ \A member \in ToSet(TakenMembers(specs)) :
                /\ Head(member).arg.text \in ToSet(v.keys)
                /\ Suits(ValueFormat(member), MemberOfKey(v, Head(member).arg.text))
Takes(specs, v) ==
    LET char == Head(specs).char
        items == TakenItems(specs)
        members == TakenMembers(specs)
    IN  CASE char \in {"-", "n"} -> <<>>
          [] char = "8" -> <<Stored(char, StringValue(Date(v.n)))>>
          [] char = "(" -> FlattenSeq([i \in DOMAIN items |-> Takes(items[i], v.items[i])])
          [] char = "{" ->
               FlattenSeq([i \in DOMAIN members |->
                   Takes(ValueFormat(members[i]), MemberOfKey(v, Head(members[i]).arg.text))])
          [] OTHER -> <<Stored(char, v)>>
=============================================================================
