--------------------------- MODULE SchemaSemantics ---------------------------
(***************************************************************************)
(* The reference definition: which instances a JSON schema document        *)
(* accepts, keyword by keyword and independent of schema values, stacks    *)
(* and the order in which a stream of events reaches the validator.  The   *)
(* documents are those of SchemaParse, the instances those of SchemaOps.   *)
(***************************************************************************)
EXTENDS SchemaParse

TypeName(inst) ==
  IF inst.t = "BOOL" THEN "BOOLEAN" ELSE inst.t

IsOfType(inst, type) ==
  CASE type = "INTEGER" -> \/ inst.t = "INT"
                           \/ inst.t = "DOUBLE" /\ inst.v % 2 = 0
    [] type = "NUMBER"  -> inst.t \in {"INT", "DOUBLE"}
    [] OTHER            -> TypeName(inst) = type

\* Keywords about numbers and strings hold for everything else.
WithinLimits(raw, inst) ==
  CASE inst.t = "STRING" ->
         /\ inst.v >= Get(raw, "minLength", 0)
         /\ inst.v <= Get(raw, "maxLength", inst.v)
         /\ Has(raw, "pattern") => inst.v \in raw.pattern
    [] inst.t \in {"INT", "DOUBLE"} ->
         LET halves == IF inst.t = "INT" THEN 2 * inst.v ELSE inst.v
         IN  /\ Has(raw, "minimum") => halves >= 2 * raw.minimum
             /\ Has(raw, "maximum") => halves <= 2 * raw.maximum
             /\ Has(raw, "exclusiveMinimum") => halves > 2 * raw.exclusiveMinimum
             /\ Has(raw, "exclusiveMaximum") => halves < 2 * raw.exclusiveMaximum
             /\ Has(raw, "multipleOf") =>
                  \E n \in 0..halves : halves = n * 2 * raw.multipleOf
    [] OTHER -> TRUE

RECURSIVE Accepts(_, _)

Accepting(raws, inst) == {i \in DOMAIN raws : Accepts(raws[i], inst)}

AcceptsMember(raw, m) ==
  LET props == {e.value : e \in {f \in Range(Get(raw, "properties", <<>>)) :
                                   f.key = m.key}}
      pats  == {e.value : e \in {f \in Range(Get(raw, "patternProperties", <<>>)) :
                                   m.key \in f.keys}}
      rest  == IF Has(raw, "additionalProperties")
               THEN {raw.additionalProperties} ELSE {}
  IN  /\ \A sub \in IF props \cup pats # {} THEN props \cup pats ELSE rest :
           Accepts(sub, m.val)
      /\ Has(raw, "propertyNames") =>
           Accepts(raw.propertyNames, Scalar("STRING", m.key))

AcceptsObject(raw, inst) ==
  /\ Len(inst.kids) >= Get(raw, "minProperties", 0)
  /\ Len(inst.kids) <= Get(raw, "maxProperties", Len(inst.kids))
  /\ Get(raw, "required", {}) \subseteq Keys(inst)
  /\ \A m \in Range(inst.kids) : AcceptsMember(raw, m)
  /\ \A d \in Range(Get(raw, "dependencies", <<>>)) :
       d.key \in Keys(inst) =>
         /\ Has(d, "keys") => d.keys \subseteq Keys(inst)
         /\ Has(d, "schema") => Accepts(d.schema, inst)

AcceptsItem(raw, inst, i) ==
  /\ Has(raw, "items") => Accepts(raw.items, inst.kids[i].val)
  /\ Has(raw, "itemsList") =>
       IF i <= Len(raw.itemsList)
       THEN Accepts(raw.itemsList[i], inst.kids[i].val)
       ELSE Has(raw, "additionalItems") =>
              Accepts(raw.additionalItems, inst.kids[i].val)

AcceptsArray(raw, inst) ==
  /\ Len(inst.kids) >= Get(raw, "minItems", 0)
  /\ Len(inst.kids) <= Get(raw, "maxItems", Len(inst.kids))
  /\ Get(raw, "uniqueItems", FALSE) => ~ HasDuplicates(inst)
  /\ \A i \in DOMAIN inst.kids : AcceptsItem(raw, inst, i)
  /\ Has(raw, "contains") =>
       \E i \in DOMAIN inst.kids : Accepts(raw.contains, inst.kids[i].val)

Accepts(raw, inst) ==
  IF Has(raw, "boolean") THEN raw.boolean
  ELSE IF Has(raw, "ref") THEN Accepts(raw.ref, inst)
  ELSE
    /\ Has(raw, "type") => IsOfType(inst, raw.type)
    /\ Has(raw, "types") => \E t \in Range(raw.types) : IsOfType(inst, t)
    /\ Has(raw, "enum") => inst \in raw.enum
    /\ Has(raw, "allOf") => Accepting(raw.allOf, inst) = DOMAIN raw.allOf
    /\ Has(raw, "anyOf") => Accepting(raw.anyOf, inst) # {}
    /\ Has(raw, "oneOf") => Cardinality(Accepting(raw.oneOf, inst)) = 1
    /\ Has(raw, "not") => ~ Accepts(raw.not, inst)
    /\ WithinLimits(raw, inst)
    /\ inst.t = "OBJECT" => AcceptsObject(raw, inst)
    /\ inst.t = "ARRAY" => AcceptsArray(raw, inst)
=============================================================================
