--------------------------- MODULE MCParserSession ---------------------------
(***************************************************************************)
(* Texts of bounded length, and what a parser is to make of them: the JSON *)
(* documents of that length with their tokens, nesting, decoded value and  *)
(* the walk jso_schema_validate_instance makes of it.                      *)
(***************************************************************************)
EXTENDS ParserSession

RECURSIVE Documents(_), Lists(_), MemberLists(_)

\* The documents of n tokens, repeated names included.
Documents(n) ==
  (IF n = 1 THEN {Scalar(t) : t \in Names \cup {"SCALAR"}} ELSE {}) \cup
  (IF n = 2 THEN [type : {"ARRAY", "OBJECT"}, items : {<<>>}] ELSE {}) \cup
  (IF n > 2 THEN [type : {"ARRAY"}, items : Lists(n - 2)] ELSE {}) \cup
  (IF n > 4 THEN [type : {"OBJECT"}, items : MemberLists(n - 2)] ELSE {})

Lists(n) ==
  {<<v>> : v \in Documents(n)} \cup
  UNION {{<<v>> \o l : v \in Documents(k), l \in Lists(n - k - 1)} : k \in 1 .. n - 2}

MembersOf(n) == IF n < 3 THEN {} ELSE Names \X Documents(n - 2)

MemberLists(n) ==
  {<<m>> : m \in MembersOf(n)} \cup
  UNION {{<<m>> \o l : m \in MembersOf(k), l \in MemberLists(n - k - 1)} : k \in 3 .. n - 4}

AllDocuments == UNION {Documents(n) : n \in 1 .. MaxTokens}

Join(seqs) == FoldLeft(LAMBDA a, b : IF a = <<>> THEN b ELSE a \o <<",">> \o b, <<>>, seqs)

RECURSIVE TokensOf(_), NestingOf(_), DecodedOf(_), WalkOf(_), UniqueNames(_)

Parts(v) == [i \in DOMAIN v.items |-> IF v.type = "ARRAY" THEN v.items[i] ELSE v.items[i][2]]

TokensOf(v) ==
  CASE v.type = "ARRAY"  -> <<"[">> \o Join([i \in DOMAIN v.items |-> TokensOf(v.items[i])]) \o <<"]">>
    [] v.type = "OBJECT" -> <<"{">> \o Join([i \in DOMAIN v.items |->
                               <<v.items[i][1], ":">> \o TokensOf(v.items[i][2])]) \o <<"}">>
    [] OTHER             -> <<v.type>>

NestingOf(v) ==
  IF v.type \in {"ARRAY", "OBJECT"}
  THEN 1 + FoldLeft(LAMBDA a, b : IF a > b THEN a ELSE b, 0,
                    [i \in DOMAIN v.items |-> NestingOf(Parts(v)[i])])
  ELSE 0

\* A name repeated keeps its place and takes the last value.
Kept(members) ==
  LET first(i) == \A j \in 1 .. i - 1 : members[j][1] # members[i][1]
      last(i) == CHOOSE j \in DOMAIN members :
                   /\ members[j][1] = members[i][1]
                   /\ \A k \in j + 1 .. Len(members) : members[k][1] # members[i][1]
      firsts == SelectSeq([i \in DOMAIN members |-> i], first)
  IN  [i \in DOMAIN firsts |-> members[last(firsts[i])]]

DecodedOf(v) ==
  CASE v.type = "ARRAY"  -> [v EXCEPT !.items = [i \in DOMAIN v.items |-> DecodedOf(v.items[i])]]
    [] v.type = "OBJECT" -> [v EXCEPT !.items = Kept([i \in DOMAIN v.items |->
                               <<v.items[i][1], DecodedOf(v.items[i][2])>>])]
    [] OTHER             -> v

UniqueNames(v) ==
  /\ v.type = "OBJECT" => Len(Kept(v.items)) = Len(v.items)
  /\ \A i \in DOMAIN v.items : UniqueNames(Parts(v)[i])

\* jso_schema_validate_instance.
WalkOf(v) ==
  (CASE v.type = "ARRAY" ->
          <<"array_start">> \o
          FlattenSeq([i \in DOMAIN v.items |-> WalkOf(v.items[i]) \o <<"array_append">>]) \o
          <<"array_end">>
     [] v.type = "OBJECT" ->
          <<"object_start">> \o
          FlattenSeq([i \in DOMAIN v.items |->
            <<"object_key">> \o WalkOf(v.items[i][2]) \o <<"object_update">>]) \o
          <<"object_end">>
     [] OTHER -> <<>>) \o <<"value">>

TheDocuments == [text \in {TokensOf(v) \o <<"EOI">> : v \in AllDocuments} |->
                   CHOOSE v \in AllDocuments : TokensOf(v) \o <<"EOI">> = text]

IsDocument == input \in DOMAIN TheDocuments
Document == TheDocuments[input]

\* The text is a document within the depth.
Fits == IsDocument /\ (options.max_depth > 0 => NestingOf(Document) <= options.max_depth)

\* The brackets of the text that are open at its end.
OpenBrackets ==
  Len(SelectSeq(input, LAMBDA t : t \in {"[", "{"})) -
  Len(SelectSeq(input, LAMBDA t : t \in {"]", "}"}))

\* The answer is what it must be: a text is accepted exactly when it is a
\* document nested no deeper than max_depth, or there is a schema that reports an
\* error; an error about depth is about the bracket that is too deep.
VerdictExact ==
  phase = "returned" /\ heap.failures = 0 =>
    /\ answer.rc = "SUCCESS" => Fits /\ answer.value.kind = "DATA"
    /\ answer.rc = "FAILURE" => answer.value.kind \in ErrorTypes
    /\ Fits => answer.rc = "SUCCESS" \/ answer.value.kind = "SCHEMA"
    /\ answer.value.kind = "DEPTH" =>
         OpenBrackets = options.max_depth + 1 /\ Last(input) \in {"[", "{"}

\* What is decoded is the document: elements in order, members in the order of
\* their first names with the last values.
DecodedExact ==
  phase = "returned" /\ answer.rc = "SUCCESS" /\ ~ Validates =>
    answer.value.tree = DecodedOf(Document)

\* A text that is validated while it is parsed is validated by the calls that
\* jso_schema_validate makes for its decoded value, in the same order, unless an
\* object repeats a name.
CallsAreTheWalk ==
  phase = "returned" /\ answer.rc = "SUCCESS" /\ HasSchema /\ UniqueNames(Document) =>
    calls = WalkOf(DecodedOf(Document))
=============================================================================
