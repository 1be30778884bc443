---------------------------- MODULE SchemaMemory ----------------------------
(* Who frees what: the schema values and what hangs on them                   *)
(* (jso_schema_value_freer.c, jso_schema_keyword_freer.c, jso_schema_array.c, *)
(* jso_schema_reference.c), together with the document they were parsed from, *)
(* whose strings and arrays keywords share. The memory is a record: b, the    *)
(* blocks in the order they were made, the nodes of the document first; and   *)
(* stale, which is TRUE once a block was used that is gone. A block counts    *)
(* the references there are besides the first one, like the C structures do.  *)
(* A hold [n, in] is a pointer to block n, NULL when n is 0; when in is not 0 *)
(* it is a pointer to the jso_value inside block in that refers to block n.   *)
EXTENDS Integers, Sequences, SequencesExt

Hold(n) == [n |-> n, in |-> 0]
HoldIn(n, in) == [n |-> n, in |-> in]

\* kind: "object", "array", "string", "int" and "bool" for the nodes of the document;
\* "text", "re", "ref", "schemas" (jso_schema_array), "members" (jso_object) and "truth"
\* (a boolean schema) own what is in own; a "value" owns what its fields say.
Block(kind, own) == [kind |-> kind, refs |-> 0, own |-> own]
Gone == Block("gone", <<>>)
Live(h, n) == h.b[n].kind # "gone"

\* The blocks of a document.
DocumentBlocks(doc) ==
    [n \in DOMAIN doc |->
        Block(doc[n].t, [i \in DOMAIN doc[n].items |-> Hold(doc[n].items[i][2])])]

Allocated(h, block) == [h EXCEPT !.b = Append(@, block)]
Newest(h) == Len(h.b)

\* jso_string_copy, jso_array_copy, jso_object_copy and jso_value_copy.
Copied(h, n) ==
    IF n = 0 \/ h.b[n].kind \in {"int", "bool"} THEN h
    ELSE IF ~Live(h, n) THEN [h EXCEPT !.stale = TRUE]
    ELSE [h EXCEPT !.b[n].refs = @ + 1]

\* The keywords of a value that are set, in that order.
Held(value, order) ==
    LET set == SelectSeq(order, LAMBDA key : key \in DOMAIN value.kws)
    IN  [i \in DOMAIN set |-> value.kws[set[i]]]

\* Mutant: definitions is forgotten.
CommonWithoutDefinitions(value) ==
    <<Hold(value.re)>> \o Held(value,
        <<"$id", "id", "$ref", "default", "title", "type_any", "type_list", "allOf", "not", "enum">>)

\* jso_schema_value_free_common.
CommonHolds(value) ==
    <<Hold(value.re)>> \o Held(value,
        <<"$id", "id", "$ref", "default", "title", "type_any", "type_list", "allOf", "not", "enum",
          "definitions">>)

\* jso_schema_value_free_string, _array and _object.
TypedHolds(value) ==
    CASE value.as = "string" -> Held(value, <<"minLength", "pattern">>)
      [] value.as = "array"  -> Held(value, <<"items">>)
      [] value.as = "object" -> Held(value, <<"properties", "patternProperties", "dependencies">>)
      [] OTHER               -> <<>>

\* Mutant: the value a reference resolved to is freed with the reference.
ReferenceAndResult(block) == Append(block.own, Hold(block.result))

\* jso_schema_reference_free and jso_schema_uri_clear.
ReferenceHolds(block) == block.own

\* What goes when a block goes (jso_schema_value_clear for a value).
Owned(block) ==
    CASE block.kind = "value" ->
            <<Hold(block.ref), Hold(block.str)>> \o CommonHolds(block) \o TypedHolds(block)
      [] block.kind = "ref" -> ReferenceHolds(block)
      [] OTHER              -> block.own

\* jso_schema_value_free, jso_schema_keyword_free, jso_schema_array_free, jso_string_free,
\* jso_array_free, jso_object_free, jso_re_code_free and jso_value_free.
RECURSIVE Free(_, _), FreeAll(_, _)
Free(h, hold) ==
    IF hold.n = 0 THEN h
    ELSE IF (hold.in # 0 /\ ~Live(h, hold.in)) \/ ~Live(h, hold.n) THEN [h EXCEPT !.stale = TRUE]
    ELSE IF hold.in # 0 /\ h.b[hold.n].kind \in {"int", "bool"} THEN h
    ELSE IF h.b[hold.n].refs > 0 THEN [h EXCEPT !.b[hold.n].refs = @ - 1]
    ELSE FreeAll([h EXCEPT !.b[hold.n] = Gone], Owned(h.b[hold.n]))
FreeAll(h, holds) ==
    IF holds = <<>> THEN h ELSE FreeAll(Free(h, Head(holds)), Tail(holds))
=============================================================================
