----------------------------- MODULE SchemaParse -----------------------------
(***************************************************************************)
(* From a JSON schema document to the schema values of SchemaOps: what     *)
(* jso_schema_value_parse and the keyword setters make of a schema.        *)
(*                                                                         *)
(* A document is a function from the keywords it has to their contents;    *)
(* [boolean |-> b] is a schema that is just true or false.  Where a keyword*)
(* takes two forms the second one has a name of its own: types for a list  *)
(* of types, itemsList for a list of schemas.  patternProperties maps sets *)
(* of keys to documents, and $ref holds the document it resolves to (the   *)
(* parser resolves a reference before it goes on, and only to acyclic ones:*)
(* the cache is filled after the target was parsed).                       *)
(*                                                                         *)
(* A schema value is identified by [raw, as]: the document and the virtual *)
(* typed subschema it stands for, "schema" for the document as a whole.    *)
(***************************************************************************)
EXTENDS SchemaOps

Has(raw, keyword) == keyword \in DOMAIN raw

SchemaId(raw) == [raw |-> raw, as |-> "schema"]
TypedId(raw, type) == [raw |-> raw, as |-> type]

\* The content of a keyword when it is there.
Get(raw, keyword, default) == IF Has(raw, keyword) THEN raw[keyword] ELSE default
Optional(raw, keyword) == IF Has(raw, keyword) THEN <<raw[keyword]>> ELSE <<>>

IdsOf(raws) == [i \in DOMAIN raws |-> SchemaId(raws[i])]
IdOf(raw, keyword) == IF Has(raw, keyword) THEN <<SchemaId(raw[keyword])>> ELSE <<>>

(***************************************************************************)
(* The keywords of each type, in the order of value_parse_funcs.           *)
(***************************************************************************)
Types == <<"NULL", "BOOLEAN", "INTEGER", "NUMBER", "STRING", "ARRAY", "OBJECT">>

KeywordsOf(type) ==
  CASE type \in {"INTEGER", "NUMBER"} -> {"minimum", "maximum", "multipleOf",
                                          "exclusiveMinimum", "exclusiveMaximum"}
    [] type = "STRING" -> {"minLength", "maxLength", "pattern"}
    [] type = "ARRAY"  -> {"items", "itemsList", "additionalItems", "minItems",
                           "maxItems", "uniqueItems", "contains"}
    [] type = "OBJECT" -> {"minProperties", "maxProperties", "required",
                           "properties", "patternProperties",
                           "additionalProperties", "propertyNames",
                           "dependencies"}
    [] OTHER -> {}

\* additionalProperties and additionalItems: booleans are kept as booleans,
\* true is the same as no keyword.
Additional(raw, keyword) ==
  IF Has(raw, keyword) /\ ~ Has(raw[keyword], "boolean")
  THEN <<SchemaId(raw[keyword])>> ELSE <<>>
Closed(raw, keyword) ==
  Has(raw, keyword) /\ Has(raw[keyword], "boolean") /\ ~ raw[keyword].boolean

\* Pairs of a key, or a set of keys, and a document.
ParseMembers(members) ==
  [i \in DOMAIN members |-> [members[i] EXCEPT !.value = SchemaId(@)]]

ParseDependencies(deps) ==
  [i \in DOMAIN deps |->
     [keys |-> Get(deps[i], "keys", {}), schema |-> IdOf(deps[i], "schema")]]

(***************************************************************************)
(* The parsers of the types; s is what value_init left.                    *)
(***************************************************************************)
ParseNumber(s, raw) ==
  [s EXCEPT
     !.lower       = Get(raw, "minimum", @),
     !.upper       = Get(raw, "maximum", @),
     !.above       = Get(raw, "exclusiveMinimum", @),
     !.below       = Get(raw, "exclusiveMaximum", @),
     !.multiple_of = Optional(raw, "multipleOf")]

ParseString(s, raw) ==
  [s EXCEPT
     !.lower   = Get(raw, "minLength", @),
     !.upper   = Get(raw, "maxLength", @),
     !.pattern = Optional(raw, "pattern")]

ParseArray(s, raw) ==
  [s EXCEPT
     !.items        = IdOf(raw, "items"),
     !.items_list   = IF Has(raw, "itemsList") THEN <<IdsOf(raw.itemsList)>> ELSE @,
     !.additional   = Additional(raw, "additionalItems"),
     !.closed       = Closed(raw, "additionalItems"),
     !.min_items    = Get(raw, "minItems", @),
     !.max_items    = Get(raw, "maxItems", @),
     !.unique_items = Get(raw, "uniqueItems", @),
     !.contains     = IdOf(raw, "contains")]

ParseObject(s, raw) ==
  [s EXCEPT
     !.min_properties = Get(raw, "minProperties", @),
     !.max_properties = Get(raw, "maxProperties", @),
     !.required       = Get(raw, "required", @),
     !.properties     = ParseMembers(Get(raw, "properties", <<>>)),
     !.patterns       = ParseMembers(Get(raw, "patternProperties", <<>>)),
     !.additional     = Additional(raw, "additionalProperties"),
     !.closed         = Closed(raw, "additionalProperties"),
     !.property_names = IdOf(raw, "propertyNames"),
     !.dependencies   = ParseDependencies(Get(raw, "dependencies", <<>>))]

ParseTyped(s, raw, type) ==
  LET typed == [s EXCEPT !.type = type]
  IN  CASE type = "ARRAY"  -> ParseArray(typed, raw)
        [] type = "OBJECT" -> ParseObject(typed, raw)
        [] type \in {"NULL", "BOOLEAN"} -> typed
        [] type = "STRING" -> ParseString(typed, raw)
        [] OTHER -> ParseNumber(typed, raw)

\* value_init with the common keywords.  A $ref that is not the only keyword
\* leaves the others in place.
ParseCommon(raw) ==
  [PlainSchema EXCEPT
     !.ref    = IdOf(raw, "ref"),
     !.enum   = Optional(raw, "enum"),
     !.all_of = IdsOf(Get(raw, "allOf", <<>>)),
     !.any_of = IdsOf(Get(raw, "anyOf", <<>>)),
     !.one_of = IdsOf(Get(raw, "oneOf", <<>>)),
     !.not    = IdOf(raw, "not")]

\* Without "type" there is a typed subschema for every type the document has
\* a keyword of.
PresentTypes(raw) ==
  SelectSeq(Types, LAMBDA t : KeywordsOf(t) \cap DOMAIN raw # {})

TypedIds(raw, types) == [i \in DOMAIN types |-> TypedId(raw, types[i])]

\* jso_schema_value_parse.
Parse(raw) ==
  LET common == ParseCommon(raw)
  IN  IF Has(raw, "boolean")
      THEN [PlainSchema EXCEPT !.type = "OBJECT_BOOLEAN", !.truth = raw.boolean]
      ELSE IF Has(raw, "type")
      THEN ParseTyped(common, raw, raw.type)
      ELSE IF Has(raw, "types")
      THEN [common EXCEPT !.type_list = TypedIds(raw, raw.types)]
      ELSE [common EXCEPT !.type_any = TypedIds(raw, PresentTypes(raw))]

SchemaValue(id) ==
  IF id.as = "schema" THEN Parse(id.raw)
  ELSE ParseTyped(PlainSchema, id.raw, id.as)
=============================================================================
