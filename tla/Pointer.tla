------------------------------ MODULE Pointer ------------------------------
(* JSON pointers (pointer/jso_pointer.c) into a document: a sequence of nodes *)
(* [t, text, items], the root first; items are pairs of a key (a text, of an  *)
(* array's items <<>>) and the number of a node, which is larger.             *)
EXTENDS Integers, Sequences, SequencesExt

\* The node of that key, or 0 (jso_object_get).
Member(doc, n, key) ==
    LET items == doc[n].items
        same == {i \in DOMAIN items : items[i][1] = key}
    IN  IF doc[n].t # "object" \/ same = {} THEN 0 ELSE items[CHOOSE i \in same : TRUE][2]

\* jso_string_to_int with jso_array_index: the empty token is the index 0, a negative
\* index sets the error and is looked up all the same, as a very large one.
Index(token) == CASE token \in {<<>>, <<"0">>} -> 0
                  [] token = <<"1">>           -> 1
                  [] token = <<"-", "1">>      -> 1000
                  [] OTHER                     -> -1
Element(doc, n, token) ==
    IF Index(token) \in 0..(Len(doc[n].items) - 1) THEN doc[n].items[Index(token) + 1][2] ELSE 0

\* Mutant: a scalar in the way is taken for the value.
StopsAtScalar(doc, n, token) ==
    CASE doc[n].t = "object" -> Member(doc, n, token)
      [] doc[n].t = "array"  -> Element(doc, n, token)
      [] OTHER               -> n

\* One level of jso_pointer_search.
Step(doc, n, token) ==
    CASE doc[n].t = "object" -> Member(doc, n, token)
      [] doc[n].t = "array"  -> Element(doc, n, token)
      [] OTHER               -> 0

\* jso_pointer_search: the node, or 0.
Search(doc, tokens) ==
    LET at[k \in 0..Len(tokens)] ==
            IF k = 0 THEN 1
            ELSE IF at[k - 1] = 0 THEN 0
            ELSE Step(doc, at[k - 1], tokens[k])
    IN  at[Len(tokens)]

\* jso_pointer_create_token: an escape is followed by 0 or 1.
Escaped(part) == {i \in DOMAIN part : part[i] = "~"}
IsToken(part) == \A i \in Escaped(part) : i < Len(part) /\ part[i + 1] \in {"0", "1"}
Token(part) ==
    LET character(i) ==
            IF i \in Escaped(part) THEN IF part[i + 1] = "0" THEN <<"~">> ELSE <<"/">>
            ELSE IF i - 1 \in Escaped(part) THEN <<>> ELSE <<part[i]>>
    IN  FlattenSeq([i \in DOMAIN part |-> character(i)])

\* The parts between the slashes.
Parts(text) ==
    LET slashes == SetToSortSeq({i \in DOMAIN text : text[i] = "/"}, <)
        last(k) == IF k = Len(slashes) THEN Len(text) ELSE slashes[k + 1] - 1
    IN  [k \in DOMAIN slashes |-> SubSeq(text, slashes[k] + 1, last(k))]

\* A token with an escape is put together in a string nobody asks for being there; a first
\* escape in error is met before anything is written.
IsUnescaped(part) ==
    \E i \in Escaped(part) : /\ i < Len(part) /\ part[i + 1] \in {"0", "1"}
                             /\ \A j \in Escaped(part) : i <= j

\* jso_pointer_compile: [tokens, ok, unescaped]. The tokens before the one in error stay;
\* unescaped are the places of those that are written to.
Compiled(text) ==
    IF text = <<>> \/ text[1] # "/" THEN [tokens |-> <<>>, ok |-> FALSE, unescaped |-> {}]
    ELSE LET parts == Parts(text)
             bad == {k \in DOMAIN parts : ~IsToken(parts[k])}
             count == IF bad = {} THEN Len(parts)
                      ELSE (CHOOSE k \in bad : \A j \in bad : k <= j) - 1
         IN  [tokens |-> [k \in 1..count |-> Token(parts[k])], ok |-> bad = {},
             unescaped |-> {k \in DOMAIN parts : k <= count + 1 /\ IsUnescaped(parts[k])}]
=============================================================================
