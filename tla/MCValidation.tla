----------------------------- MODULE MCValidation -----------------------------
(***************************************************************************)
(* Families of schema documents and instances for ValidationVerdict.  A    *)
(* string is its length: x stands for "x", xx for "xx", and both are also  *)
(* the keys of object members.                                             *)
(***************************************************************************)
EXTENDS ValidationVerdict

x == 1
xx == 2

Ids(raws) == {SchemaId(raw) : raw \in raws}

Validations(roots, documents) == [root : roots, doc : documents]

Null == Scalar("NULL", 0)
Whole(n) == Scalar("INT", n)
Half(n) == Scalar("DOUBLE", n)
Str(s) == Scalar("STRING", s)

(***************************************************************************)
(* Leaves.                                                                 *)
(***************************************************************************)
AString == [type |-> "STRING"]
AnInteger == [type |-> "INTEGER"]
AnArray == [type |-> "ARRAY"]
Short == [maxLength |-> 1]
ShortString == [type |-> "STRING", maxLength |-> 1]
Never == [boolean |-> FALSE]
OneOrXX == [enum |-> {Whole(1), Str(xx)}]
StringOrNull == [types |-> <<"STRING", "NULL">>, maxLength |-> 1]
AtLeastTwo == [minimum |-> 2]

Pairs(S, T) == {<<s, t>> : s \in S, t \in T}

\* allOf, anyOf and oneOf of two documents, and not of one.
Composed(pairs) ==
  UNION {{[allOf |-> p], [anyOf |-> p], [oneOf |-> p]} : p \in pairs}
Negated(S) == {[not |-> s] : s \in S}

(***************************************************************************)
(* Composition: two levels of it, on scalars and on objects.               *)
(***************************************************************************)
Leaves == {AString, Short, AtLeastTwo, OneOrXX, StringOrNull, Never}

FirstLevel == Composed(Pairs(Leaves, Leaves)) \cup Negated(Leaves)

SecondLevel ==
  Composed(Pairs(Composed(Pairs({AString, AtLeastTwo}, {Short, OneOrXX}))
                   \cup Negated({Short}),
                 {Short, Never, AtLeastTwo}))
  \cup Negated(Composed(Pairs({AString, AtLeastTwo}, {Short, OneOrXX})))

Beside ==
  {[type |-> "STRING", anyOf |-> <<Short, OneOrXX>>],
   [type |-> "INTEGER", oneOf |-> <<AtLeastTwo, OneOrXX>>, not |-> [enum |-> {Whole(3)}]],
   [type |-> "NUMBER", exclusiveMinimum |-> 1, multipleOf |-> 2],
   [not |-> [exclusiveMaximum |-> 2, minimum |-> 1]],
   [oneOf |-> <<[pattern |-> {xx}], [minLength |-> 2, exclusiveMinimum |-> 2]>>],
   [ref |-> [anyOf |-> <<AString, AtLeastTwo>>]],
   [allOf |-> <<[ref |-> Short], [ref |-> AString]>>, anyOf |-> <<AString, Never>>]}

CompositionRoots == Ids(FirstLevel \cup SecondLevel \cup Beside)
ScalarDocuments == {Null, Whole(1), Half(4), Half(5), Str(x), Str(xx)}

(***************************************************************************)
(* Objects: what applies to a member and what applies to the object, alone *)
(* and as branches of compositions.                                        *)
(***************************************************************************)
Property(k, s) == [key |-> k, value |-> s]

ObjectLeaves ==
  {[properties |-> <<Property(x, AString)>>],
   [properties |-> <<Property(x, AnInteger), Property(xx, Short)>>,
    additionalProperties |-> Never],
   [patternProperties |-> <<[keys |-> {x, xx}, value |-> AString],
                            [keys |-> {xx}, value |-> Short]>>],
   [properties |-> <<Property(x, Short)>>, additionalProperties |-> AnInteger],
   [properties |-> <<Property(x, AString)>>,
    patternProperties |-> <<[keys |-> {x}, value |-> Short]>>],
   [type |-> "OBJECT", required |-> {x}],
   [minProperties |-> 1, maxProperties |-> 1],
   [propertyNames |-> Short],
   [propertyNames |-> [not |-> ShortString], additionalProperties |-> AString],
   [propertyNames |-> [allOf |-> <<ShortString>>],
    properties |-> <<Property(x, AString)>>]}

Structural == {l \in ObjectLeaves : ~ Has(l, "propertyNames")}

ObjectRoots ==
  Ids(ObjectLeaves
      \cup Composed(Pairs(Structural, {[properties |-> <<Property(x, AString)>>],
                                       [type |-> "OBJECT", required |-> {x}], AString}))
      \cup Negated(Structural)
      \cup {[properties |-> <<Property(x, s)>>] : s \in Structural}
      \cup {[properties |-> <<Property(x, [ref |-> s])>>,
             anyOf |-> <<s, [required |-> {xx}]>>] : s \in Structural})

Flat == {Object(<<>>)}
        \cup {Object(<<Member(k, v)>>) : k \in {x, xx}, v \in {Whole(1), Str(x), Str(xx)}}
        \cup {Object(<<Member(x, v), Member(xx, w)>>) :
                v \in {Whole(1), Str(x)}, w \in {Str(x), Str(xx)}}

ObjectDocuments ==
  Flat \cup {Object(<<Member(x, o)>>) :
               o \in {Object(<<Member(x, Whole(1))>>),
                      Object(<<Member(xx, Str(xx)), Member(x, Str(x))>>)}}

(***************************************************************************)
(* Arrays, where nothing above them depends on the first, early propagation*)
(* of array_start: no anyOf, oneOf, not or $ref of an array.               *)
(***************************************************************************)
ArrayLeaves ==
  {[items |-> AString],
   [items |-> [anyOf |-> <<Short, AnInteger>>]],
   [items |-> [oneOf |-> <<AString, Short>>], maxItems |-> 1],
   [itemsList |-> <<AString>>, additionalItems |-> AnInteger],
   [itemsList |-> <<Short, AnInteger>>, additionalItems |-> Never],
   [types |-> <<"ARRAY", "STRING">>, minItems |-> 1, maxItems |-> 1],
   [uniqueItems |-> TRUE, minItems |-> 1],
   [type |-> "ARRAY", items |-> [not |-> AString]]}

Containing ==
  {[contains |-> AnInteger],
   [type |-> "ARRAY", contains |-> AString],
   [contains |-> Short, items |-> AString],
   [contains |-> [anyOf |-> <<AnInteger, [enum |-> {Str(xx)}]>>], maxItems |-> 1],
   [contains |-> [oneOf |-> <<AString, ShortString>>]],
   [contains |-> [allOf |-> <<AString, ShortString>>, not |-> [enum |-> {Str(x)}]]],
   [contains |-> [allOf |-> <<AString, ShortString>>], items |-> AString]}

NestedArrays ==
  {[items |-> a] : a \in ArrayLeaves}
  \cup {[properties |-> <<Property(x, a)>>] : a \in ArrayLeaves}

ArrayRoots ==
  Ids(ArrayLeaves \cup NestedArrays
      \cup {[allOf |-> p] : p \in Pairs(ArrayLeaves, {[items |-> AString], AnArray})})

ContainsRoots ==
  Ids(Containing \cup {[items |-> c] : c \in Containing}
      \cup {[allOf |-> <<c, a>>] : c \in Containing, a \in {AnArray, [maxItems |-> 1]}}
      \cup {[contains |-> [contains |-> AnInteger]]})

Items == {Whole(1), Str(x), Str(xx)}
FlatArrays == {Array(<<>>)} \cup {Array(<<a>>) : a \in Items}
              \cup {Array(<<a, b>>) : a \in Items, b \in Items}

ArrayDocuments ==
  FlatArrays \cup {Array(<<Array(<<Str(xx)>>), a>>) : a \in FlatArrays}
  \cup {Object(<<Member(x, a)>>) : a \in FlatArrays} \cup {Str(x)}

ContainsDocuments ==
  FlatArrays \cup {Array(<<Array(<<Str(x)>>), a>>) : a \in FlatArrays}

(***************************************************************************)
(* Documents and instances outside those families, where the program does  *)
(* not keep what it promises.                                              *)
(***************************************************************************)

\* anyOf and oneOf of schemas for arrays.
ArrayBranches == {[type |-> "ARRAY", maxItems |-> 1], [type |-> "ARRAY", items |-> AString]}
ArrayFlagRoots == Ids(UNION {{[anyOf |-> p], [oneOf |-> p]} : p \in Pairs(ArrayBranches, ArrayBranches)})

(***************************************************************************)
(* The schema values of documents: those of the documents themselves and   *)
(* all that their keywords lead to, six keywords deep.                     *)
(***************************************************************************)
Mentioned(s) ==
  UNION {Range(ids) :
           ids \in {s.ref, s.type_any, s.type_list, s.all_of, s.any_of, s.one_of,
                   s.not, s.additional, s.property_names, s.items, s.contains}
                  \cup Range(s.items_list)}
  \cup {member.value : member \in Range(s.properties) \cup Range(s.patterns)}
  \cup UNION {Range(dep.schema) : dep \in Range(s.dependencies)}

Reached(ids) == ids \cup UNION {Mentioned(SchemaValue(id)) : id \in ids}

SchemasOf(roots) == Reached(Reached(Reached(Reached(Reached(Reached(roots))))))

WalkSchemas == SchemasOf(CompositionRoots \cup ObjectRoots \cup ArrayRoots)
ContainsSchemas == SchemasOf(ContainsRoots)
ArrayFlagSchemas == SchemasOf(ArrayFlagRoots)

(***************************************************************************)
(* The validations of each run.                                            *)
(***************************************************************************)
WalkJobs ==
  Validations(CompositionRoots, ScalarDocuments)
  \cup Validations(ObjectRoots, ObjectDocuments)
  \cup Validations(ArrayRoots, ArrayDocuments)

ContainsJobs == Validations(ContainsRoots, ContainsDocuments)

ArrayFlagJobs == Validations(ArrayFlagRoots, FlatArrays)
=============================================================================
