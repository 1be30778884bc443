--------------------------- MODULE MCSchemaLife ---------------------------
(* Small schema documents with every kind of keyword, right and wrong, and    *)
(* the pointers their references are made of.                                 *)
EXTENDS SchemaLife

\* A document as a term [t, text, items], and the sequence of its nodes.
RECURSIVE Size(_), Nodes(_, _)
Size(t) == 1 + FoldLeft(LAMBDA sum, item : sum + Size(item[2]), 0, t.items)
Start(items, i, n) ==
    n + 1 + FoldLeft(LAMBDA sum, item : sum + Size(item[2]), 0, SubSeq(items, 1, i - 1))
Nodes(t, n) ==
    <<[t EXCEPT !.items = [i \in DOMAIN t.items |-> <<t.items[i][1], Start(t.items, i, n)>>]]>>
    \o FlattenSeq([i \in DOMAIN t.items |-> Nodes(t.items[i][2], Start(t.items, i, n))])

Term(t, text, items) == [t |-> t, text |-> text, items |-> items]
Str(text) == Term("string", text, <<>>)
Name(word) == Str(<<word>>)
Whole == Term("int", <<>>, <<>>)
Truth == Term("bool", <<>>, <<>>)
Arr(terms) == Term("array", <<>>, [i \in DOMAIN terms |-> <<<<>>, terms[i]>>])
Obj(members) == Term("object", <<>>, members)
Has(word, term) == <<<<word>>, term>>

Typed(word) == Obj(<<Has("type", Name(word))>>)
Site == <<"http", ":", "/", "/", "h", "/", "p">>
ToA == <<"#", "/", "definitions", "/", "a">>
ToXY == <<"#", "/", "definitions", "/", "x", "~", "1", "y">>
ToFirst == <<"#", "/", "allOf", "/", "0">>
BeforeFirst == <<"#", "/", "allOf", "/", "-", "1">>
ThroughTitle == <<"#", "/", "title", "/", "a">>
Ref(text) == Obj(<<Has("$ref", Str(text))>>)

Text == Obj(<<Has("type", Name("string")), Has("minLength", Whole), Has("pattern", Name("ok"))>>)
Definitions == Has("definitions", Obj(<<Has("a", Text),
                                        <<<<"x", "/", "y">>, Typed("null")>>>>))
Shared(idKey) ==
    Obj(<<Has(idKey, Str(Site)), Has("type", Name("object")), Definitions,
          Has("properties", Obj(<<Has("p", Ref(ToA)), Has("q", Ref(ToA)),
                                  Has("r", Ref(Site \o ToXY))>>))>>)
Fragmented ==
    Obj(<<Has("$id", Str(Site)), Has("type", Name("object")), Definitions,
          Has("not", Obj(<<Has("$id", Str(<<"#", "f">>)), Has("type", Name("null")),
                           Has("$ref", Str(ToA))>>))>>)
Mixed == Obj(<<Has("title", Name("t")), Has("enum", Arr(<<Whole, Name("e")>>)),
               Has("allOf", Arr(<<Typed("null"), Ref(ToFirst)>>)), Has("minLength", Whole)>>)
Listed == Obj(<<Has("type", Arr(<<Name("array"), Name("null")>>)),
                Has("items", Arr(<<Typed("null"), Typed("string")>>)), Has("default", Arr(<<Whole>>))>>)
Patterns == Obj(<<Has("$schema", Name("draft4")), Has("items", Typed("null")),
                  Has("patternProperties", Obj(<<Has("ok", Typed("null"))>>)),
                  Has("dependencies", Obj(<<Has("k", Arr(<<Name("s")>>)),
                                            Has("l", Typed("null"))>>))>>)
Truths == Obj(<<Has("not", Truth), Has("type", Name("array")), Has("items", Arr(<<Truth>>))>>)

\* A default in the target of a reference, and one below the target.
Defaulted == Obj(<<Has("type", Name("object")),
                   Has("definitions", Obj(<<Has("a", Obj(<<Has("type", Name("null")),
                                                           Has("default", Arr(<<>>))>>))>>)),
                   Has("not", Ref(ToA))>>)
BelowDefaulted ==
    Obj(<<Has("type", Name("object")),
          Has("allOf", Arr(<<Obj(<<Has("type", Name("array")),
                                   Has("items", Arr(<<Obj(<<Has("type", Name("null")),
                                                            Has("default", Whole)>>)>>))>>),
                             Ref(ToFirst)>>))>>)

\* Valid in both versions, in draft 4 or in draft 6.
WithDefault == {Nodes(Defaulted, 1), Nodes(BelowDefaulted, 1)}
Valid == {Nodes(Mixed, 1), Nodes(Listed, 1)} \cup WithDefault
Valid4 == {Nodes(Shared("id"), 1), Nodes(Patterns, 1)}
Valid6 == {Nodes(Shared("$id"), 1), Nodes(Fragmented, 1), Nodes(Truths, 1)}

With(word, term) == Obj(<<Has("type", Name("object")), Has(word, term)>>)
WithRef(text) == Obj(<<Has("title", Name("t")), Definitions, Has("not", Ref(text))>>)
Invalid == {Nodes(t, 1) : t \in
    {Arr(<<>>), Typed("other"), Obj(<<Has("type", Arr(<<Name("null"), Name("other")>>))>>),
     Obj(<<Has("type", Arr(<<Name("null"), Name("null")>>))>>), Obj(<<Has("type", Whole)>>),
     With("$schema", Name("draft9")), With("$schema", Whole),
     With("title", Whole), With("enum", Arr(<<Whole, Whole>>)), With("allOf", Arr(<<>>)),
     With("allOf", Arr(<<Typed("null"), Whole>>)), With("definitions", Obj(<<Has("a", Whole)>>)),
     With("properties", Obj(<<Has("a", With("not", Whole)), Has("b", Typed("null"))>>)),
     With("patternProperties", Obj(<<Has("ok", Typed("null")), Has("bad", Typed("null"))>>)),
     With("dependencies", Obj(<<Has("k", Arr(<<Whole>>))>>)),
     Obj(<<Has("type", Name("string")), Has("pattern", Name("bad"))>>),
     WithRef(<<"#", "/", "definitions", "/", "b">>), WithRef(<<"#", "/", "t", "~", "2">>),
     WithRef(<<"#", "a">>), WithRef(<<"#">>), WithRef(<<"/", "q">>), WithRef(ThroughTitle),
     WithRef(Site \o ToA),
     Obj(<<Has("allOf", Arr(<<Typed("null")>>)), Has("not", Ref(BeforeFirst))>>)}}

\* The parser does not end with an answer: a boolean schema with a pattern, a reference to
\* what is no schema and one to itself.
Stopping == {Nodes(t, 1) : t \in
    {With("patternProperties", Obj(<<Has("ok", Truth)>>)),
     WithRef(<<"#", "/", "title">>),
     Obj(<<Has("definitions", Obj(<<Has("a", Ref(ToA))>>))>>)}}

MCDocuments == Valid \cup Valid4 \cup Valid6 \cup Invalid \cup Stopping

Relative == {Nodes(Obj(<<Has("$id", Str(Site)), Has("type", Name("object")),
                         Has("not", Ref(<<"q">>))>>), 1)}

-----------------------------------------------------------------------------
\* What the reference of that text means: keys and indices from the root.
Path(text) ==
    CASE text = ToA                -> <<<<"definitions">>, <<"a">>>>
      [] text \in {ToXY, Site \o ToXY} -> <<<<"definitions">>, <<"x", "/", "y">>>>
      [] text = ToFirst            -> <<<<"allOf">>, <<"0">>>>
      [] OTHER                     -> <<<<"none">>>>
RECURSIVE Follow(_, _)
Follow(n, path) ==
    IF path = <<>> THEN n
    ELSE LET items == doc[n].items
             is(i) == IF doc[n].t = "array" THEN i = 1 /\ path[1] = <<"0">>
                      ELSE items[i][1] = path[1]
             next == {i \in DOMAIN items : is(i)}
         IN  IF next = {} THEN 0 ELSE Follow(items[CHOOSE i \in next : TRUE][2], Tail(path))

(* Without a failure in the allocator, and where no number sign happens to lie *)
(* behind the string of a URI, the schemas that are parsed are the valid ones, *)
(* the parser gives an answer to all but the ones it cannot stand, and every   *)
(* reference in a parsed schema leads to the value made of the node it means.  *)
VerdictExact ==
    failures = 0 /\ behind = "NUL" =>
        /\ phase = "refused" => ~(doc \in Valid /\ version # 0)
                                /\ ~(doc \in Valid4 /\ version = 4)
                                /\ ~(doc \in Valid6 /\ version = 6)
        /\ phase \in {"crashed", "hung"} => doc \in Stopping
        /\ phase = "parsed" =>
             /\ doc \notin Invalid
             /\ \A v \in DOMAIN heap.b :
                  LET value == heap.b[v]
                  IN  value.kind = "value" /\ "$ref" \in DOMAIN value.kws =>
                        /\ value.ref # 0 /\ heap.b[value.ref].result # 0
                        /\ heap.b[heap.b[value.ref].result].node
                             = Follow(1, Path(doc[value.kws["$ref"].n].text))

(* The combination of a relative reference with the base URI ends.            *)
RelativeEnds == phase # "hung"
=============================================================================
