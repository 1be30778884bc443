----------------------------- MODULE SchemaLife -----------------------------
(* The life of a schema: jso_schema_parse_ex builds schema values from a      *)
(* document, and jso_schema_clear frees them. The recursion of the parser is  *)
(* a stack of calls. Of each kind of keyword there are one or two; integers   *)
(* and numbers, whose keywords hold no memory, are left out with their types, *)
(* and so are the keys of objects. An allocation may fail, also that of the   *)
(* message in jso_schema_error_set, and then the error stays unset.           *)
EXTENDS Uri, Pointer, SchemaMemory

CONSTANTS Documents,   \* the documents, sequences of nodes (see Pointer)
          Defaults,    \* the default versions in the options: 0 (none), 4 and 6
          MaxFailures, \* bound: the allocations that fail
          MaxDepth     \* bound: the calls the C stack has room for

ASSUME SchemaLifeAssumption ==
    Defaults \subseteq {0, 4, 6} /\ MaxFailures \in Nat /\ MaxDepth \in Nat

VARIABLES doc, version,
          heap,      \* see SchemaMemory
          schema,    \* [root, doc, cache]: blocks, 0 for NULL; the cache is a sequence of
                     \* [text, key, val]
          error,     \* TRUE when the slot holds an error
          frames,    \* the calls that are open, the innermost first
          ret,       \* what the innermost call returned, 0 for NULL, or NoRet
          phase,     \* "new", "parsing", "parsed", "refused", "cleared", "crashed", "hung"
          owner,     \* TRUE while the client holds the document
          failures,  \* counts the failed allocations
          lost       \* TRUE once the code dropped the last pointer to a block

vars == <<behind, doc, version, heap, schema, error, frames, ret, phase, owner, failures, lost>>

NoRet == -1
NoSchema == [root |-> 0, doc |-> 0, cache |-> <<>>]

Init == /\ behind \in {"NUL", "#"} /\ doc \in Documents /\ version \in Defaults
        /\ heap = [b |-> DocumentBlocks(doc), stale |-> FALSE]
        /\ schema = NoSchema /\ error = FALSE /\ frames = <<>> /\ ret = NoRet
        /\ phase = "new" /\ owner = TRUE /\ failures = 0 /\ lost = FALSE

\* fn: "parse" (the mixed value and its typed ones), "make" (jso_schema_value_init and the
\* keywords of a type) or "fill" (a container of schemas). n is the node, p the parent
\* value, v what is made, arr a second thing held, todo what is to be done from i on.
Frame(fn, pc, n, p, as, todo) == [fn |-> fn, pc |-> pc, n |-> n, p |-> p, as |-> as,
                                  todo |-> todo, i |-> 1, v |-> 0, arr |-> 0, tokens |-> <<>>]
ParseCall(n, p) == Frame("parse", "enter", n, p, "", <<>>)

Top == Head(frames)
Runs(fn, pc) == /\ phase = "parsing" /\ frames # <<>> /\ Len(frames) <= MaxDepth
                /\ Top.fn = fn /\ Top.pc = pc
Steady == UNCHANGED <<behind, doc, version, phase, owner>>
Goto(frame) == frames' = <<frame>> \o Tail(frames) /\ ret' = NoRet
Calls(frame, callee) == frames' = <<callee, frame>> \o Tail(frames) /\ ret' = NoRet
Returns(v) == frames' = Tail(frames) /\ ret' = v
Stops(how) == phase' = how /\ UNCHANGED <<behind, doc, version, heap, schema, error, frames,
                                          ret, owner, lost>>

\* The allocations of a step that came out well, or not.
Outcome == IF failures < MaxFailures THEN BOOLEAN ELSE {TRUE}
Counted(outcomes) ==
    LET failed == Cardinality({i \in DOMAIN outcomes : ~outcomes[i]})
    IN  failures + failed <= MaxFailures /\ failures' = failures + failed

\* jso_schema_error_set: told is FALSE when there is no memory for the message.
Told == IF error THEN {TRUE} ELSE Outcome

\* An error, and the innermost call returns NULL.
Refuses(h, told) == heap' = h /\ error' = (error \/ told) /\ Returns(0)
-----------------------------------------------------------------------------
(* jso_schema_value_parse. *)

Get(n, name) == Member(doc, n, <<name>>)
IsSchema(n) == doc[n].t = "object" \/ (version >= 6 /\ doc[n].t = "bool")
Elements(n) == [i \in DOMAIN doc[n].items |-> doc[n].items[i][2]]
Texts(n) == {<<doc[m].t, doc[m].text>> : m \in Range(Elements(n))}
IsUnique(n) == Cardinality(Texts(n)) = Len(doc[n].items)
IsListOfStrings(n) == IsUnique(n) /\ \A m \in Range(Elements(n)) : doc[m].t = "string"

AllTypes == <<"null", "string", "array", "object">>
TypeName(n) == IF doc[n].text # <<>> /\ doc[n].text[1] \in Range(AllTypes)
               THEN doc[n].text[1] ELSE "none"

\* The keywords in the order they are set; those of jso_schema_value_init first.
IdKey == IF version = 4 THEN "id" ELSE "$id"
Keywords(as, full) ==
    (IF full THEN <<"default", "title", IdKey, "$ref", "enum", "allOf", "not", "definitions">>
     ELSE <<>>) \o
    CASE as = "string" -> <<"minLength", "pattern">>
      [] as = "array"  -> <<"items">>
      [] as = "object" -> <<"properties", "patternProperties", "dependencies">>
      [] OTHER         -> <<>>
MakeCall(n, p, as, full) == Frame("make", "alloc", n, p, as, Keywords(as, full))

\* jso_schema_value_parse_object_boolean.
ParseBoolean ==
    /\ Runs("parse", "enter") /\ doc[Top.n].t # "object" /\ IsSchema(Top.n)
    /\ Steady /\ UNCHANGED <<schema, lost>>
    /\ \E ok \in Outcome, told \in Told :
         /\ ok => told
         /\ Counted(<<ok, told>>)
         /\ IF ok THEN /\ heap' = Allocated(heap, Block("truth", <<>>)) /\ error' = error
                       /\ Returns(Newest(heap) + 1)
            ELSE Refuses(heap, told)

\* Whatever is no schema fails an assertion.
ParseOther == /\ Runs("parse", "enter") /\ ~IsSchema(Top.n)
              /\ Stops("crashed") /\ UNCHANGED failures

\* The array for the typed values is written to also when it could not be allocated.
ParseTypes(types, name) ==
    /\ Steady /\ UNCHANGED <<schema, lost, error, failures>>
    /\ heap' = Allocated(heap, Block("schemas", <<>>))
    /\ Calls([Top EXCEPT !.pc = "mixed", !.arr = Newest(heap) + 1, !.as = name, !.todo = types],
             MakeCall(Top.n, Top.p, "mixed", TRUE))
NoArray == Counted(<<FALSE>>) /\ Stops("crashed")

ParseAnyType == /\ Runs("parse", "enter") /\ doc[Top.n].t = "object" /\ Get(Top.n, "type") = 0
                /\ ParseTypes(AllTypes, "type_any") \/ NoArray

ParseType ==
    /\ Runs("parse", "enter") /\ doc[Top.n].t = "object" /\ Get(Top.n, "type") # 0
    /\ LET type == Get(Top.n, "type")
       IN  IF doc[type].t = "string" /\ TypeName(type) # "none"
           THEN /\ Steady /\ UNCHANGED <<schema, lost, error, failures, heap>>
                /\ Goto(MakeCall(Top.n, Top.p, TypeName(type), TRUE))
           ELSE IF doc[type].t = "array" /\ IsListOfStrings(type)
           THEN \/ ParseTypes([i \in DOMAIN doc[type].items |-> TypeName(Elements(type)[i])],
                              "type_list")
                \/ NoArray
           ELSE /\ Steady /\ UNCHANGED <<schema, lost>>
                /\ \E told \in Told : Counted(<<told>>) /\ Refuses(heap, told)

\* Frees the mixed value with the array, once either has gone wrong.
Abandoned(f) == Free(Free(heap, Hold(f.arr)), Hold(f.v))

\* The mixed value is there.
MixedMade ==
    /\ Runs("parse", "mixed") /\ ret # NoRet
    /\ Steady /\ UNCHANGED <<schema, lost, error, failures>>
    /\ IF ret = 0 THEN heap' = Abandoned(Top) /\ Returns(0)
       ELSE heap' = heap /\ Goto([Top EXCEPT !.pc = "typed", !.v = ret])

\* The next typed value, without the common keywords.
MakeTyped ==
    /\ Runs("parse", "typed") /\ ret = NoRet /\ Top.i <= Len(Top.todo)
    /\ Steady /\ UNCHANGED <<schema, lost>>
    /\ IF Top.todo[Top.i] = "none"
       THEN \E told \in Told : Counted(<<told>>) /\ Refuses(Abandoned(Top), told)
       ELSE /\ UNCHANGED <<heap, error, failures>>
            /\ Calls(Top, MakeCall(Top.n, Top.v, Top.todo[Top.i], FALSE))

TypedMade ==
    /\ Runs("parse", "typed") /\ ret # NoRet
    /\ Steady /\ UNCHANGED <<schema, lost, error, failures>>
    /\ IF ret = 0 THEN heap' = Abandoned(Top) /\ Returns(0)
       ELSE /\ heap' = IF Top.as = "type_list" \/ heap.b[ret].notEmpty
                       THEN [heap EXCEPT !.b[Top.arr].own = Append(@, Hold(ret))]
                       ELSE Free(heap, Hold(ret))
            /\ Goto([Top EXCEPT !.i = @ + 1])

\* The keyword the typed values are kept in.
WithKeyword(h, v, key, hold) == [h EXCEPT !.b[v].kws = (key :> hold) @@ @]
ParseEnds ==
    /\ Runs("parse", "typed") /\ ret = NoRet /\ Top.i > Len(Top.todo)
    /\ Steady /\ UNCHANGED <<schema, lost, error, failures>>
    /\ heap' = WithKeyword(heap, Top.v, Top.as, Hold(Top.arr)) /\ Returns(Top.v)
-----------------------------------------------------------------------------
(* jso_schema_value_init and the keywords of the types. *)

NewValue(f) == [kind |-> "value", refs |-> 0, node |-> f.n, as |-> f.as, kws |-> <<>>,
                notEmpty |-> FALSE, uri |-> NoUri, str |-> 0, ref |-> 0, re |-> 0]

\* When there is no memory for the data the value is freed, which reads the data.
Alloc ==
    /\ Runs("make", "alloc")
    /\ \/ /\ Steady /\ UNCHANGED <<schema, lost>>
          /\ \E ok \in Outcome, told \in Told :
               /\ ok => told
               /\ Counted(<<ok, told>>)
               /\ IF ok THEN /\ heap' = Allocated(heap, NewValue(Top)) /\ error' = error
                             /\ Goto([Top EXCEPT !.pc = "keys", !.v = Newest(heap) + 1])
                  ELSE Refuses(heap, told)
       \/ Counted(<<FALSE>>) /\ Stops("crashed")

\* The step after a keyword, which $id and $ref have more to do in.
After(f, set) ==
    [f EXCEPT !.i = @ + 1,
              !.pc = IF f.todo[f.i] = IdKey THEN "base"
                     ELSE IF f.todo[f.i] = "$ref" /\ set THEN "create" ELSE "keys"]

\* jso_schema_keyword_check and JSO_SCHEMA_KW_SET_WRAP: a keyword that is not there is an
\* error when there is one, of this keyword or an earlier one.
Sets(h, hold) ==
    /\ error' = error
    /\ heap' = [WithKeyword(h, Top.v, Top.todo[Top.i], hold) EXCEPT !.b[Top.v].notEmpty = TRUE]
    /\ Goto(After(Top, TRUE))
SetsNot(h, told) ==
    IF error \/ told THEN Refuses(Free(h, Hold(Top.v)), told)
    ELSE heap' = h /\ error' = error /\ Goto(After(Top, FALSE))

AtKeyword(keys) == /\ Runs("make", "keys") /\ ret = NoRet /\ Top.i <= Len(Top.todo)
                   /\ Top.todo[Top.i] \in keys
Item == Get(Top.n, Top.todo[Top.i])

\* What the content must be, for the keyword to be taken.
Fits(key, m) ==
    CASE key \in {"title", IdKey, "$ref", "pattern"} -> doc[m].t = "string"
      [] key = "enum"      -> doc[m].t = "array" /\ IsUnique(m)
      [] key = "minLength" -> doc[m].t = "int"
      [] key = "allOf"     -> doc[m].t = "array" /\ doc[m].items # <<>>
      [] key = "not"       -> IsSchema(m)
      [] key = "items"     -> IsSchema(m) \/ doc[m].t = "array"
      [] OTHER             -> doc[m].t = "object"

AllKeys == {"default", "title", IdKey, "$ref", "enum", "allOf", "not", "definitions", "minLength",
            "pattern", "items", "properties", "patternProperties", "dependencies"}
AbsentKeyword == /\ AtKeyword(AllKeys) /\ Item = 0
                 /\ Steady /\ UNCHANGED <<schema, lost, failures>>
                 /\ SetsNot(heap, FALSE)
WrongKeyword == /\ AtKeyword(AllKeys \ {"default"}) /\ Item # 0 /\ ~Fits(Top.todo[Top.i], Item)
                /\ Steady /\ UNCHANGED <<schema, lost>>
                /\ \E told \in Told : Counted(<<told>>) /\ SetsNot(heap, told)

\* default keeps a pointer to the value inside the document.
AnyKeyword == /\ AtKeyword({"default"}) /\ Item # 0
              /\ Steady /\ UNCHANGED <<schema, lost, failures>>
              /\ Sets(Copied(heap, Item), HoldIn(Item, Top.n))

SharedKeyword == /\ AtKeyword({"title", IdKey, "$ref", "enum"}) /\ Item # 0
                 /\ Fits(Top.todo[Top.i], Item)
                 /\ Steady /\ UNCHANGED <<schema, lost, failures>>
                 /\ Sets(Copied(heap, Item), Hold(Item))

NumberKeyword == /\ AtKeyword({"minLength"}) /\ Item # 0 /\ Fits("minLength", Item)
                 /\ Steady /\ UNCHANGED <<schema, lost, failures>>
                 /\ Sets(heap, Hold(0))

\* jso_schema_keyword_get_regexp_code: the code keeps the string it was compiled from; the
\* text bad is no regular expression.
Compiles(m) == doc[m].text # <<"bad">>
PatternKeyword ==
    /\ AtKeyword({"pattern"}) /\ Item # 0 /\ Fits("pattern", Item)
    /\ Steady /\ UNCHANGED <<schema, lost>>
    /\ \E ok \in Outcome, told \in Told :
         /\ ok /\ Compiles(Item) => told
         /\ Counted(<<ok, told>>)
         /\ IF ok /\ Compiles(Item)
            THEN Sets(Copied(Allocated(heap, Block("re", <<Hold(Item)>>)), Item),
                      Hold(Newest(heap) + 1))
            ELSE SetsNot(heap, told)

\* jso_schema_keyword_get_schema_object, or the first type of a union.
SchemaKeyword == /\ AtKeyword({"not", "items"}) /\ Item # 0 /\ IsSchema(Item)
                 /\ Steady /\ UNCHANGED <<schema, lost, error, failures, heap>>
                 /\ Calls([Top EXCEPT !.pc = "wait"], ParseCall(Item, Top.v))

\* jso_schema_keyword_get_array_of_schema_objects and jso_schema_keyword_get_custom_object:
\* an array that could not be allocated is written to, an object is not.
Containers == {"allOf", "items", "definitions", "properties", "patternProperties",
               "dependencies"}
Container == IF doc[Item].t = "array" THEN "schemas" ELSE "members"
ContainerKeyword ==
    /\ AtKeyword(Containers) /\ Item # 0 /\ Fits(Top.todo[Top.i], Item)
    /\ Top.todo[Top.i] = "items" => ~IsSchema(Item)
    /\ \/ /\ Steady /\ UNCHANGED <<schema, lost, error, failures>>
          /\ heap' = Allocated(heap, Block(Container, <<>>))
          /\ Calls([Top EXCEPT !.pc = "wait"],
                   [Frame("fill", "items", Item, Top.v, Top.todo[Top.i], Elements(Item))
                      EXCEPT !.v = Newest(heap) + 1])
       \/ Container = "schemas" /\ NoArray
       \/ /\ Container = "members" /\ failures < MaxFailures
          /\ Steady /\ UNCHANGED <<schema, lost>>
          /\ \E told \in Told : Counted(<<FALSE, told>>) /\ SetsNot(heap, told)

KeywordMade ==
    /\ Runs("make", "wait") /\ ret # NoRet
    /\ Steady /\ UNCHANGED <<schema, lost, failures>>
    /\ IF ret = 0 THEN SetsNot(heap, FALSE) ELSE Sets(heap, Hold(ret))

MakeEnds == /\ Runs("make", "keys") /\ ret = NoRet /\ Top.i > Len(Top.todo)
            /\ Steady /\ UNCHANGED <<schema, lost, error, failures, heap>>
            /\ Returns(Top.v)
-----------------------------------------------------------------------------
(* The base URI and the reference of a value. *)

\* jso_schema_uri_set: the outcomes [how, uri, heap, str], where str is the block of the text
\* of the URI; how is "none" when there was no memory to merge. The string that is merged
\* stays as it was, for the copy of it is freed.
UriSet(n, base) ==
    LET uri == ParsedUri(doc[n].text)
        way == IF base.none THEN Keep ELSE Combination(uri, base.uri)
        outcome(how, u, h, s) == [how |-> how, uri |-> u, heap |-> h, str |-> s]
    IN  CASE way.how = "keep"  -> {outcome("ok", uri, Copied(heap, n), n)}
          [] way.how = "merge" ->
               {outcome("ok", Merged(uri, base.uri, way.n),
                        Allocated(heap, Block("text", <<>>)), Newest(heap) + 1)}
               \cup {outcome("none", uri, Copied(heap, n), n) : x \in 1..(MaxFailures - failures)}
          [] OTHER -> {outcome(way.how, uri, heap, 0)}
NoBase == [none |-> TRUE, uri |-> NoUri]
Base(v) == [none |-> FALSE, uri |-> heap.b[v].uri]

\* A value is lost that is not freed when its URI or its reference has gone wrong.
Drops(h, told) == lost' = TRUE /\ Refuses(h, told)

SetBase ==
    /\ Runs("make", "base") /\ IdKey \in DOMAIN heap.b[Top.v].kws
    /\ \E set \in UriSet(heap.b[Top.v].kws[IdKey].n,
                         IF Top.p = 0 THEN NoBase ELSE Base(Top.p)), told \in Told :
         IF set.how \in {"crashed", "hung"} THEN told /\ Stops(set.how) /\ UNCHANGED failures
         ELSE /\ Steady /\ UNCHANGED schema
              /\ set.how = "ok" => told
              /\ Counted(<<set.how = "ok", told>>)
              /\ IF set.how = "ok"
                 THEN /\ heap' = [set.heap EXCEPT !.b[Top.v].uri = set.uri,
                                                  !.b[Top.v].str = set.str]
                      /\ error' = error /\ lost' = lost /\ Goto([Top EXCEPT !.pc = "keys"])
                 ELSE Drops(set.heap, told)

\* jso_schema_uri_inherit.
InheritBase ==
    /\ Runs("make", "base") /\ IdKey \notin DOMAIN heap.b[Top.v].kws
    /\ Steady /\ UNCHANGED <<schema, lost, error, failures>>
    /\ heap' = IF Top.p = 0 THEN heap
               ELSE [Copied(heap, heap.b[Top.p].str) EXCEPT
                       !.b[Top.v].uri = Inherited(heap.b[Top.p].uri),
                       !.b[Top.v].str = heap.b[Top.p].str]
    /\ Goto([Top EXCEPT !.pc = "keys"])

\* jso_schema_reference_create.
CreateReference ==
    /\ Runs("make", "create")
    /\ \/ \E set \in UriSet(heap.b[Top.v].kws["$ref"].n, Base(Top.v)), told \in Told :
            IF set.how \in {"crashed", "hung"} THEN told /\ Stops(set.how) /\ UNCHANGED failures
            ELSE /\ Steady /\ UNCHANGED schema
                 /\ set.how = "ok" => told
                 /\ Counted(<<set.how = "ok", told>>)
                 /\ IF set.how = "ok"
                    THEN /\ heap' = Allocated(set.heap,
                                [kind |-> "ref", refs |-> 0, own |-> <<Hold(set.str)>>,
                                 str |-> set.str, uri |-> set.uri, result |-> 0])
                         /\ error' = error /\ lost' = lost
                         /\ Goto([Top EXCEPT !.pc = "resolve", !.arr = Newest(set.heap) + 1])
                    ELSE Drops(set.heap, told)
       \/ /\ Steady /\ UNCHANGED schema
          /\ \E told \in Told : Counted(<<FALSE, told>>) /\ Drops(heap, told)

TheUri == heap.b[Top.arr].uri
Cached == SelectSeq(schema.cache, LAMBDA entry : entry.text = TheUri.text)

\* The value has its reference; when that is its only keyword it has no other.
Resolved(h, result) ==
    /\ heap' = [h EXCEPT !.b[Top.arr].result = result, !.b[Top.v].ref = Top.arr]
    /\ Goto([Top EXCEPT !.pc = "keys",
                        !.i = IF Len(doc[Top.n].items) = 1 THEN Len(Top.todo) + 1 ELSE @])
Unresolved(told) == Drops(Free(heap, Hold(Top.arr)), told)

\* jso_schema_reference_resolve.
ResolveCached == /\ Runs("make", "resolve") /\ Cached # <<>>
                 /\ Steady /\ UNCHANGED <<schema, lost, error, failures>>
                 /\ Resolved(heap, Head(Cached).val)

ResolveNot ==
    /\ Runs("make", "resolve") /\ Cached = <<>>
    /\ ~BaseEqual(heap.b[Top.v].uri, TheUri) \/ ~HasFragment(TheUri)
    /\ Steady /\ UNCHANGED schema
    /\ \E told \in Told : Counted(<<told>>) /\ Unresolved(told)

AtPointer == /\ Runs("make", "resolve") /\ Cached = <<>>
             /\ BaseEqual(heap.b[Top.v].uri, TheUri) /\ HasFragment(TheUri)

\* There is no memory for a token with an escape, and it is written to.
ResolveUnescaped == /\ AtPointer /\ Compiled(Fragment(TheUri)).unescaped # {}
                    /\ Counted(<<FALSE>>) /\ Stops("crashed")

\* A pointer in error is resolved all the same, with the tokens it has.
ResolvePointer ==
    /\ AtPointer
    /\ Steady /\ UNCHANGED schema
    /\ LET jp == Compiled(Fragment(TheUri))
           go(tokens) == /\ UNCHANGED <<heap, lost>>
                         /\ Goto([Top EXCEPT !.pc = "search", !.tokens = tokens])
       IN  \/ \E told \in Told :          \* it is compiled, well or not
                /\ jp.ok => told
                /\ Counted(<<told>>) /\ go(jp.tokens)
                /\ error' = (error \/ (told /\ ~jp.ok))
           \/ \E told \in Told :          \* there is no memory for it
                Counted(<<FALSE, told>>) /\ Unresolved(told)
           \/ \E told \in Told :          \* there is none for the array of tokens
                Counted(<<FALSE, told>>) /\ go(<<>>) /\ error' = (error \/ told)
           \/ \E k \in 0..(Len(jp.tokens) - 1) :   \* there is none for a token: no error is set
                k + 1 \notin jp.unescaped /\ Counted(<<FALSE>>) /\ go(SubSeq(jp.tokens, 1, k)) /\ error' = error
           \/ /\ ~jp.ok                   \* there is none for the message of its error
              /\ Counted(<<FALSE>>) /\ go(jp.tokens) /\ error' = error

ResolveTarget ==
    /\ Runs("make", "search")
    /\ Steady /\ UNCHANGED schema
    /\ LET target == Search(doc, Top.tokens)
       IN  IF target = 0
           THEN \E told \in Told : Counted(<<told>>) /\ Unresolved(told)
           ELSE /\ UNCHANGED <<heap, lost, error, failures>>
                /\ Calls([Top EXCEPT !.pc = "parsed"], ParseCall(target, Top.v))

\* The target is entered into the cache, whose table grows with the first and the second one.
ResolveParsed ==
    /\ Runs("make", "parsed") /\ ret # NoRet
    /\ Steady
    /\ IF ret = 0 THEN UNCHANGED <<schema, failures>> /\ Unresolved(FALSE)
       ELSE \E ok \in (IF Len(schema.cache) < 2 THEN Outcome ELSE {TRUE}), told \in Told :
              /\ ok => told
              /\ Counted(<<ok, told>>)
              /\ IF ok
                 THEN /\ schema' = [schema EXCEPT !.cache =
                              Append(@, [text |-> TheUri.text, key |-> heap.b[Top.arr].str,
                                         val |-> ret])]
                      /\ Resolved(Copied(heap, heap.b[Top.arr].str), ret)
                      /\ error' = error /\ lost' = lost
                 ELSE schema' = schema /\ Unresolved(told)
-----------------------------------------------------------------------------
(* The schemas of an array or of the members of an object. *)

Filled(h, own) == [h EXCEPT !.b[Top.v].own = @ \o own]
TheItem == Top.todo[Top.i]
IsDependencyList == Top.as = "dependencies" /\ doc[TheItem].t = "array"
NextItem == Runs("fill", "items") /\ ret = NoRet /\ Top.i <= Len(Top.todo)

\* A list of strings that is none loses the container.
FillStrings ==
    /\ NextItem /\ IsDependencyList
    /\ Steady /\ UNCHANGED schema
    /\ IF /\ \A m \in Range(Elements(TheItem)) : doc[m].t = "string"
          /\ version = 4 => Elements(TheItem) # <<>>
       THEN /\ heap' = Filled(Copied(heap, TheItem), <<Hold(TheItem)>>)
            /\ UNCHANGED <<error, lost, failures>> /\ Goto([Top EXCEPT !.i = @ + 1])
       ELSE \E told \in Told : Counted(<<told>>) /\ Drops(heap, told)

FillNone ==
    /\ NextItem /\ ~IsDependencyList /\ ~IsSchema(TheItem)
    /\ Steady /\ UNCHANGED <<schema, lost>>
    /\ \E told \in Told : Counted(<<told>>) /\ Refuses(Free(heap, Hold(Top.v)), told)

FillSchema ==
    /\ NextItem /\ ~IsDependencyList /\ IsSchema(TheItem)
    /\ Steady /\ UNCHANGED <<schema, lost, error, failures, heap>>
    /\ Calls(Top, ParseCall(TheItem, Top.p))

\* The key of a pattern is compiled once its schema is there; a boolean schema has no data to
\* keep the code in. The key bad is no regular expression.
KeyCompiles == doc[Top.n].items[Top.i][1] # <<"bad">>
FillParsed ==
    /\ Runs("fill", "items") /\ ret # NoRet /\ ret # 0
    /\ IF Top.as # "patternProperties"
       THEN /\ Steady /\ UNCHANGED <<schema, lost, error, failures>>
            /\ heap' = Filled(heap, <<Hold(ret)>>) /\ Goto([Top EXCEPT !.i = @ + 1])
       ELSE \E ok \in Outcome, told \in Told :
              /\ ok /\ KeyCompiles => told
              /\ IF ok /\ KeyCompiles /\ heap.b[ret].kind = "truth"
                 THEN Stops("crashed") /\ Counted(<<ok, told>>)
                 ELSE /\ Steady /\ UNCHANGED <<schema, lost>>
                      /\ Counted(<<ok, told>>)
                      /\ IF ok /\ KeyCompiles
                         THEN /\ heap' = LET h == Allocated(Filled(heap, <<Hold(ret)>>),
                                                            Block("re", <<>>))
                                         IN  [h EXCEPT !.b[ret].re = Newest(h)]
                              /\ error' = error /\ Goto([Top EXCEPT !.i = @ + 1])
                         ELSE Refuses(Free(Free(heap, Hold(ret)), Hold(Top.v)), told)

FillFails == /\ Runs("fill", "items") /\ ret = 0
             /\ Steady /\ UNCHANGED <<schema, lost, error, failures>>
             /\ heap' = Free(heap, Hold(Top.v)) /\ Returns(0)

FillEnds == /\ Runs("fill", "items") /\ ret = NoRet /\ Top.i > Len(Top.todo)
            /\ Steady /\ UNCHANGED <<schema, lost, error, failures, heap>>
            /\ Returns(Top.v)
-----------------------------------------------------------------------------
(* The client. *)

\* jso_schema_version_set: [version, bad]; an error it has set it reports as a success.
TheVersion ==
    LET m == Get(1, "$schema")
        known == m # 0 /\ doc[m].t = "string" /\ doc[m].text \in {<<"draft4">>, <<"draft6">>}
    IN  IF known THEN [version |-> IF doc[m].text = <<"draft4">> THEN 4 ELSE 6, bad |-> FALSE]
        ELSE IF m # 0 /\ doc[m].t = "string" THEN [version |-> 0, bad |-> TRUE]
        ELSE [version |-> version, bad |-> version = 0 \/ m # 0]

\* jso_schema_parse_ex.
ParseEx ==
    /\ phase = "new"
    /\ UNCHANGED <<behind, doc, owner, lost, ret>>
    /\ \E told \in Told :
         /\ TheVersion.bad \/ doc[1].t # "object" \/ told
         /\ Counted(<<told>>)
         /\ error' = (told /\ (TheVersion.bad \/ doc[1].t # "object"))
         /\ IF doc[1].t # "object" \/ (TheVersion.version = 0 /\ ~told)
            THEN phase' = "refused" /\ UNCHANGED <<version, heap, schema, frames>>
            ELSE /\ phase' = "parsing" /\ version' = TheVersion.version
                 /\ schema' = [schema EXCEPT !.doc = 1] /\ heap' = Copied(heap, 1)
                 /\ frames' = <<ParseCall(1, 0)>>

ParseExEnds ==
    /\ phase = "parsing" /\ frames = <<>>
    /\ schema' = [schema EXCEPT !.root = ret] /\ ret' = NoRet
    /\ phase' = IF ret = 0 THEN "refused" ELSE "parsed"
    /\ UNCHANGED <<behind, doc, version, heap, error, frames, owner, failures, lost>>

\* A reference to itself is parsed until the stack has no room.
Overflow == /\ phase = "parsing" /\ Len(frames) > MaxDepth
            /\ Stops("crashed") /\ UNCHANGED failures

\* jso_schema_clear.
Clear ==
    /\ phase \in {"parsed", "refused"}
    /\ phase' = "cleared" /\ schema' = NoSchema /\ error' = FALSE
    /\ LET entries == FlattenSeq([i \in DOMAIN schema.cache |->
                            <<Hold(schema.cache[i].key), Hold(schema.cache[i].val)>>])
       IN  heap' = FreeAll(heap, <<Hold(schema.root), Hold(schema.doc)>> \o entries)
    /\ UNCHANGED <<behind, doc, version, frames, ret, owner, failures, lost>>

\* The client is done with its document, before or after the schema.
DropDocument ==
    /\ owner /\ phase \in {"parsed", "refused", "cleared"}
    /\ owner' = FALSE /\ heap' = Free(heap, Hold(1))
    /\ UNCHANGED <<behind, doc, version, schema, error, frames, ret, phase, failures, lost>>

Done == /\ phase \in {"crashed", "hung"} \/ (phase = "cleared" /\ ~owner)
        /\ UNCHANGED vars

Next == \/ ParseBoolean \/ ParseOther \/ ParseAnyType \/ ParseType
        \/ MixedMade \/ MakeTyped \/ TypedMade \/ ParseEnds
        \/ Alloc \/ AbsentKeyword \/ WrongKeyword \/ AnyKeyword \/ SharedKeyword \/ NumberKeyword
        \/ PatternKeyword \/ SchemaKeyword \/ ContainerKeyword \/ KeywordMade \/ MakeEnds
        \/ SetBase \/ InheritBase \/ CreateReference
        \/ ResolveCached \/ ResolveNot \/ ResolveUnescaped \/ ResolvePointer \/ ResolveTarget \/ ResolveParsed
        \/ FillStrings \/ FillNone \/ FillSchema \/ FillParsed \/ FillFails \/ FillEnds
        \/ ParseEx \/ ParseExEnds \/ Overflow \/ Clear \/ DropDocument \/ Done

Spec == Init /\ [][Next]_vars
-----------------------------------------------------------------------------
\* The value of block n keeps a default, or one below it does.
RECURSIVE KeepsDefault(_)
KeepsDefault(n) ==
    LET block == heap.b[n]
        below == {hold.n : hold \in Range(Owned(block))} \ {0}
    IN  \/ block.kind = "value" /\ "default" \in DOMAIN block.kws
        \/ \E m \in below : heap.b[m].kind \in {"value", "schemas", "members"} /\ KeepsDefault(m)

\* A value of the cache keeps a default, and the client has no document any more.
DefaultOutlives == ~owner /\ \E i \in DOMAIN schema.cache : KeepsDefault(schema.cache[i].val)

(* No keyword, array, reference or value is used after it was freed, whichever *)
(* step of parsing fails, and whether the client frees its document before the *)
(* schema or after it, with one exception: clearing a schema with a default in *)
(* the target of a reference, for the document is released before the cache.   *)
NoStaleUse ==
    [][heap'.stale # heap.stale <=> phase # "cleared" /\ phase' = "cleared" /\ DefaultOutlives]_vars

(* When the schema is cleared and the document freed, nothing of either is     *)
(* left, unless a failed URI, reference or dependency has dropped a value or   *)
(* something was used after it was freed.                                      *)
NothingLeft ==
    phase = "cleared" /\ ~owner /\ ~lost /\ ~heap.stale =>
        \A n \in DOMAIN heap.b : heap.b[n].kind = "gone"
=============================================================================
