------------------------------ MODULE SchemaOps ------------------------------
(***************************************************************************)
(* Parsed schema values and JSON instances as data, and what one position  *)
(* of the validation stack makes of them: composition, the checks of a     *)
(* value, and the propagation of a result to the parent position.          *)
(*                                                                         *)
(* A schema value is the parsed form jso_schema_value_parse builds, named  *)
(* by an identifier, and SchemaOf gives its record.  A schema without      *)
(* "type" is MIXED and lists its typed parts in type_any; with a list of   *)
(* types it is MIXED and lists them in type_list.  A keyword that holds one*)
(* schema, or one list, is a sequence of at most one element.              *)
(*                                                                         *)
(* An instance is [t, v, kids]: its JSON type, the value of a scalar, and  *)
(* the members [key, val] of an object or, keys unused, of an array.       *)
(* Strings, keys too, are represented by their length.  v of a DOUBLE      *)
(* counts halves, so whole numbers are the even ones.                      *)
(***************************************************************************)
EXTENDS StackOps, Functions

CONSTANTS
  Schemas,       \* the identifiers of the schema values
  SchemaOf(_)    \* the schema value an identifier names

\* The value of a count keyword that is not set.
Unlimited == 1000

\* The schema with no keyword at all; concrete schemas override fields.
\* enum is a sequence of at most one set of instances (enum and const), pattern
\* one of the strings that match.  lower and upper bound the number or the
\* length of the string; above and below are the exclusive limits of a number
\* (in draft 4 the flags that turn minimum and maximum into such).  patterns
\* pairs the set of keys a patternProperties expression matches with its
\* schema; closed is "additionalProperties": false or "additionalItems": false.
PlainSchema ==
  [type |-> "MIXED", truth |-> TRUE, ref |-> <<>>,
   type_any |-> <<>>, type_list |-> <<>>, all_of |-> <<>>, any_of |-> <<>>,
   one_of |-> <<>>, not |-> <<>>, enum |-> <<>>,
   lower |-> -Unlimited, upper |-> Unlimited, above |-> -Unlimited,
   below |-> Unlimited, multiple_of |-> <<>>, pattern |-> <<>>,
   max_properties |-> Unlimited, min_properties |-> 0, required |-> {},
   properties |-> <<>>, patterns |-> <<>>, additional |-> <<>>,
   closed |-> FALSE, property_names |-> <<>>, dependencies |-> <<>>,
   items |-> <<>>, items_list |-> <<>>, min_items |-> 0,
   max_items |-> Unlimited, unique_items |-> FALSE, contains |-> <<>>]

\* Every keyword that holds schemas holds lists of schema values in V.
IsSchema(s, V) ==
  /\ \A ids \in {s.ref, s.type_any, s.type_list, s.all_of, s.any_of, s.one_of,
                 s.not, s.additional, s.property_names, s.items, s.contains} :
       ids \in Seq(V)
  /\ s.items_list \in Seq(Seq(V))
  /\ \A list \in {s.properties, s.patterns, s.dependencies} :
       list \in Seq(Range(list))
  /\ \A member \in Range(s.properties) \cup Range(s.patterns) :
       member.value \in V
  /\ \A dep \in Range(s.dependencies) : dep.schema \in Seq(V)

\* The schema values in V refer to no others.
SelfContained(V) == \A id \in V : IsSchema(SchemaOf(id), V)

ASSUME SchemasAssumption == SelfContained(Schemas)

Scalar(t, v) == [t |-> t, v |-> v, kids |-> <<>>]
Member(k, x) == [key |-> k, val |-> x]
Object(ms)   == [t |-> "OBJECT", v |-> 0, kids |-> ms]
Array(xs)    == [t |-> "ARRAY", v |-> 0,
                 kids |-> [i \in DOMAIN xs |-> Member(0, xs[i])]]

Keys(inst) == {inst.kids[i].key : i \in DOMAIN inst.kids}

(***************************************************************************)
(* The machine the operators below transform: the stack and the error type *)
(* stored in the schema object.                                            *)
(***************************************************************************)
Pos(m, p) == m.stack.positions[p]
SchemaAt(m, p) == SchemaOf(Pos(m, p).value)
Out(m, p) == Pos(m, p).out
IsValid(m, p) == Out(m, p).result = "VALID"

WithOut(m, p, out) == [m EXCEPT !.stack.positions[p].out = out]

SetResult(m, p, r) == WithOut(m, p, [Out(m, p) EXCEPT !.result = r])

SetFinal(m, p, r) ==
  WithOut(m, p, [Out(m, p) EXCEPT !.result = r, !.final = TRUE])

ResetError(m) == [m EXCEPT !.error = "NONE"]

\* Mutant: the result is not stored.
FailUnrecorded(m, p, f) ==
  [WithOut(m, p, [Out(m, p) EXCEPT !.reason = f.reason]) EXCEPT !.error = f.error]

\* The error functions set the schema's error and the reason of the position;
\* their callers store the INVALID they return.
Fail(m, p, f) ==
  [WithOut(m, p, [Out(m, p) EXCEPT !.reason = f.reason, !.result = "INVALID"])
     EXCEPT !.error = f.error]

FailFinal(m, p, f) == SetFinal(Fail(m, p, f), p, "INVALID")

TypeFailure        == [error |-> "TYPE", reason |-> "TYPE"]
FalseFailure       == [error |-> "FALSE", reason |-> "VALUE"]
CompositionFailure == [error |-> "COMPOSITION", reason |-> "COMPOSITION"]
KeywordFailure     == [error |-> "KEYWORD", reason |-> "KEYWORD"]
StringFailure      == [error |-> "KEYWORD", reason |-> "NONE"]
NoFailure          == [error |-> "NONE", reason |-> "NONE"]

(***************************************************************************)
(* Composition: one position per subschema, for the whole instance.        *)
(***************************************************************************)
Tagged(ids, comp) == [i \in DOMAIN ids |-> [value |-> ids[i], comp |-> comp]]

\* A reference hides its siblings: the flag test of the code,
\* flags | REF_ONLY, is true whatever the flags.
Subschemas(s) ==
  IF s.ref # <<>>
  THEN Tagged(s.ref, "REF")
  ELSE Tagged(s.type_any, "TYPE_ANY") \o Tagged(s.type_list, "TYPE_LIST")
       \o Tagged(s.all_of, "ALL") \o Tagged(s.any_of, "ANY")
       \o Tagged(s.one_of, "ONE") \o Tagged(s.not, "NOT")

\* Pushing a position moves neither the last separator nor the depth, so the
\* positions of a list are all made from the stack as it was before the first.
CompositionPush(m, p) ==
  LET subs == Subschemas(SchemaAt(m, p))
  IN  [m EXCEPT !.stack.positions =
         @ \o [i \in DOMAIN subs |->
                 Position(m.stack, "COMPOSED", subs[i].comp, subs[i].value, p)]]

CompositionCheck(m, p) == SetResult(CompositionPush(m, p), p, "VALID")

PushBasics(m, ids, parent) ==
  [m EXCEPT !.stack.positions =
     @ \o [i \in DOMAIN ids |->
             Position(m.stack, "BASIC", "NONE", ids[i], parent)]]

(***************************************************************************)
(* The check of one value against one position.                            *)
(***************************************************************************)
CommonFailure(s, out, inst) ==
  IF s.any_of # <<>> /\ ~ out.any_of_valid THEN CompositionFailure
  ELSE IF s.one_of # <<>> /\ ~ out.one_of_valid THEN CompositionFailure
  ELSE IF s.type_list # <<>> /\ ~ out.type_valid THEN TypeFailure
  ELSE IF \E set \in Range(s.enum) : inst \notin set THEN KeywordFailure
  ELSE NoFailure

\* Mutant: only a satisfied anyOf clears the error.
ClearsErrorAfterAnyOf(s) == s.any_of # <<>>

\* A satisfied anyOf, oneOf or type list clears the schema's error, whoever
\* set it.
ClearsError(s) == s.any_of # <<>> \/ s.one_of # <<>> \/ s.type_list # <<>>

TypeAccepts(type, inst) ==
  CASE type = "NULL"    -> inst.t = "NULL"
    [] type = "BOOLEAN" -> inst.t = "BOOL"
    [] type = "INTEGER" -> inst.t = "INT" \/ (inst.t = "DOUBLE" /\ inst.v % 2 = 0)
    [] type = "NUMBER"  -> inst.t \in {"INT", "DOUBLE"}
    [] OTHER            -> inst.t = type

ObjectKeywordsFail(s, inst) ==
  \/ \E i \in DOMAIN s.dependencies : ~ s.dependencies[i].keys \subseteq Keys(inst)
  \/ Len(inst.kids) < s.min_properties
  \/ ~ s.required \subseteq Keys(inst)

HasDuplicates(inst) ==
  \E i, j \in DOMAIN inst.kids : i # j /\ inst.kids[i].val = inst.kids[j].val

ArrayKeywordsFail(s, inst) ==
  \/ Len(inst.kids) < s.min_items
  \/ s.unique_items /\ HasDuplicates(inst)

\* A number in halves, so that the fractions the model has are integers too.
Halves(inst) == IF inst.t = "INT" THEN 2 * inst.v ELSE inst.v

NumberOutOfLimits(s, n) ==
  \/ n < 2 * s.lower \/ n <= 2 * s.above
  \/ n > 2 * s.upper \/ n >= 2 * s.below
  \/ \E d \in Range(s.multiple_of) : n % (2 * d) # 0

StringOutOfLimits(s, str) ==
  \/ str \notin s.lower .. s.upper
  \/ \E matching \in Range(s.pattern) : str \notin matching

OutOfLimits(s, inst) ==
  CASE inst.t = "STRING" -> StringOutOfLimits(s, inst.v)
    [] inst.t \in {"INT", "DOUBLE"} -> NumberOutOfLimits(s, Halves(inst))
    [] OTHER -> FALSE

TypedFailure(s, inst) ==
  IF s.type = "MIXED" THEN NoFailure
  ELSE IF ~ TypeAccepts(s.type, inst) THEN TypeFailure
  ELSE CASE s.type = "OBJECT" -> IF ObjectKeywordsFail(s, inst)
                                 THEN KeywordFailure ELSE NoFailure
         [] s.type = "ARRAY"  -> IF ArrayKeywordsFail(s, inst)
                                 THEN KeywordFailure ELSE NoFailure
         [] s.type = "STRING" -> IF OutOfLimits(s, inst)
                                 THEN StringFailure ELSE NoFailure
         [] OTHER             -> IF OutOfLimits(s, inst)
                                 THEN KeywordFailure ELSE NoFailure

ValueFailure(s, out, inst) ==
  IF s.type = "OBJECT_BOOLEAN"
  THEN IF s.truth THEN NoFailure ELSE FalseFailure
  ELSE IF CommonFailure(s, out, inst) # NoFailure
       THEN CommonFailure(s, out, inst)
       ELSE TypedFailure(s, inst)

\* jso_schema_validation_value without the contains loop of an array, which
\* is a loop of its own in ValidationStream.
ValidateValue(m, p, inst) ==
  LET s == SchemaAt(m, p)
      f == ValueFailure(s, Out(m, p), inst)
  IN  IF f # NoFailure THEN Fail(m, p, f)
      ELSE IF ClearsError(s) THEN ResetError(m)
      ELSE m

\* string_value_str, the check of a property name: no common keywords.
ValidateName(m, p, name) ==
  IF StringOutOfLimits(SchemaAt(m, p), name)
  THEN Fail(m, p, StringFailure)
  ELSE m

\* The condition under which the reverse loops check a position.
Judgeable(m, p) ==
  LET pos == Pos(m, p)
  IN  /\ ~ pos.out.final
      /\ pos.out.result = "VALID"
      /\ pos.composition_type = "ANY" => ~ Out(m, pos.parent).any_of_valid

(***************************************************************************)
(* Propagation of a position's result to its parent.                       *)
(***************************************************************************)
PropagateTo(m, p, q) ==
  LET pos   == Pos(m, p)
      r     == pos.out.result
      valid == r = "VALID"
      comp  == pos.composition_type
      NotApplicable == pos.out.reason = "TYPE"
      Refuted ==
        LET n == SetFinal(m, q, "INVALID")
        IN  [WithOut(n, p, [Out(n, p) EXCEPT !.reason = "COMPOSITION"])
               EXCEPT !.error = "COMPOSITION"]
  IN  CASE comp \in {"NONE", "ALL"} -> IF valid THEN m ELSE SetFinal(m, q, r)
        [] comp = "REF" -> SetFinal(m, q, r)
        [] comp = "TYPE_ANY" ->
             IF valid THEN m
             ELSE IF NotApplicable THEN ResetError(m) ELSE SetFinal(m, q, r)
        [] comp = "TYPE_LIST" ->
             IF valid THEN WithOut(m, q, [Out(m, q) EXCEPT !.type_valid = TRUE])
             ELSE IF NotApplicable THEN ResetError(m) ELSE SetFinal(m, q, r)
        [] comp = "ANY" ->
             IF valid THEN WithOut(m, q, [Out(m, q) EXCEPT !.any_of_valid = TRUE])
             ELSE m
        [] comp = "ONE" ->
             IF ~ valid THEN m
             ELSE IF Out(m, q).one_of_valid THEN Refuted
             ELSE WithOut(m, q, [Out(m, q) EXCEPT !.one_of_valid = TRUE])
        [] comp = "NOT" -> IF valid THEN Refuted ELSE ResetError(m)

\* Mutant: a position that is final is taken for one already propagated.
PropagateUnlessFinal(m, p) ==
  LET q == Pos(m, p).parent
  IN  IF q = NoPos \/ Out(m, p).final THEN m
      ELSE IF Out(m, q).final THEN m
      ELSE PropagateTo(m, p, q)

\* Mutant: the parent takes over whatever its last child says.
PropagateLast(m, p) ==
  LET q == Pos(m, p).parent
  IN  IF q = NoPos THEN m ELSE SetFinal(m, q, Out(m, p).result)

Propagate(m, p) ==
  LET q == Pos(m, p).parent
  IN  IF q = NoPos THEN m
      ELSE IF Out(m, q).final THEN m
      ELSE PropagateTo(m, p, q)

(***************************************************************************)
(* The schemas for the value of a member, by key or by index.              *)
(***************************************************************************)

\* The elements of a list at some of its indices, in the order of the list.
Increasing(indices) ==
  CHOOSE f \in [1 .. Cardinality(indices) -> indices] :
    \A i, j \in DOMAIN f : i < j => f[i] < f[j]

Picked(list, indices) ==
  [k \in 1 .. Cardinality(indices) |-> list[Increasing(indices)[k]]]

WithKey(list, key) == Picked(list, {i \in DOMAIN list : list[i].key = key})
Matching(list, key) == Picked(list, {i \in DOMAIN list : key \in list[i].keys})

\* Mutant: patternProperties is skipped for a key properties has.
MatchingSchemasFirst(s, key) ==
  LET props == WithKey(s.properties, key)
      pats  == Matching(s.patterns, key)
      chosen == IF props # <<>> THEN props ELSE pats
  IN  [i \in DOMAIN chosen |-> chosen[i].value]

\* properties and patternProperties, in the order they are pushed; s.properties
\* lists pairs [key, value].
MatchingSchemas(s, key) ==
  LET props == WithKey(s.properties, key)
      pats  == Matching(s.patterns, key)
      Id(e) == e.value
  IN  [i \in DOMAIN props |-> Id(props[i])] \o [i \in DOMAIN pats |-> Id(pats[i])]

\* items is one schema for every item or a list with a schema per index.
ItemSchemas(s, index) ==
  IF s.items_list = <<>> THEN s.items
  ELSE LET list == s.items_list[1]
       IN  IF index < Len(list) THEN <<list[index + 1]>> ELSE s.additional

\* "additionalItems": false and the item just added has no schema.
AdditionalItemRefused(s, count) ==
  s.closed /\ \E list \in Range(s.items_list) : count > Len(list)
=============================================================================
