------------------------ MODULE ValidationStream_proofs ------------------------
(***************************************************************************)
(* The layers of the validation stack stay in step with the nesting of the *)
(* instance, and every handler works in the layer of its own value.  First *)
(* the lemmas about the operators ValidationStream is built from: the      *)
(* schemas a keyword names, the machine [stack, error] the checks          *)
(* transform, the layer a position is in, the layer iterators, and the     *)
(* list of the loops inside a validation.  In the second half, what the    *)
(* same steps do to the results.                                           *)
(***************************************************************************)
EXTENDS ValidationStream, StackLemmas, WellFoundedInduction

-----------------------------------------------------------------------------
(***************************************************************************)
(* The elements of a list at some of its indices.                          *)
(***************************************************************************)
Lower == {p \in Nat \X Nat : p[1] < p[2]}

\* A set of naturals that is not empty has a least element.
LEMMA LeastElement ==
  ASSUME NEW T \in SUBSET Nat, T # {}
  PROVE  \E n \in T : \A k \in T : n <= k
  <1>1. IsWellFoundedOn(Lower, Nat)
    BY NatLessThanWellFounded DEF OpToRel, Lower
  <1>2. PICK n \in T : \A k \in T : ~ (<<k, n>> \in Lower)
    BY <1>1, WFMin
  <1>3. \A j, k \in Nat : ~ (<<k, j>> \in Lower) => j <= k
    BY DEF Lower
  <1>4. T \subseteq Nat
    OBVIOUS
  <1> QED
    BY <1>2, <1>3, <1>4

IsEnumeration(f, indices) ==
  /\ f \in [1 .. Cardinality(indices) -> indices]
  /\ \A i, j \in 1 .. Cardinality(indices) : i < j => f[i] < f[j]

\* One index more, above all others, is enumerated last.
LEMMA EnumerationGrows ==
  ASSUME NEW n \in Nat, n > 0, NEW S \in SUBSET (1 .. n), n \in S,
         NEW g, IsEnumeration(g, S \ {n})
  PROVE  \E f : IsEnumeration(f, S)
  <1> DEFINE c == Cardinality(S)
             f == [i \in 1 .. c |-> IF i = c THEN n ELSE g[i]]
  <1>1. IsFiniteSet(S)
    <2>1. IsFiniteSet(1 .. n)
      BY FS_Interval
    <2> QED
      BY <2>1, FS_Subset
  <1>2. c \in Nat /\ Cardinality(S \ {n}) = c - 1
    BY <1>1, FS_CardinalityType, FS_RemoveElement
  <1>3. Cardinality(S \ {n}) \in Nat
    BY <1>1, FS_RemoveElement, FS_CardinalityType
  <1>4. /\ g \in [1 .. c - 1 -> S \ {n}]
        /\ \A i, j \in 1 .. c - 1 : i < j => g[i] < g[j]
    BY <1>2 DEF IsEnumeration
  <1> HIDE DEF c
  <1>5. \A i \in 1 .. c - 1 : g[i] \in S /\ g[i] < n
    <2>1. \A k \in S \ {n} : k \in S /\ k < n
      OBVIOUS
    <2>2. \A i \in 1 .. c - 1 : g[i] \in S \ {n}
      BY <1>4
    <2> QED
      BY <2>1, <2>2
  <1>6. \A i \in 1 .. c : i = c \/ i \in 1 .. c - 1
    BY <1>2
  <1>7. f \in [1 .. c -> S]
    BY <1>5, <1>6
  <1>8. \A i, j \in 1 .. c : i < j => f[i] < f[j]
    BY <1>2, <1>4, <1>5, <1>6
  <1> QED
    BY <1>7, <1>8 DEF IsEnumeration, c

\* The indices of a list can be enumerated in increasing order.
LEMMA EnumerationExists ==
  ASSUME NEW n \in Nat, NEW S \in SUBSET (1 .. n)
  PROVE  \E f : IsEnumeration(f, S)
  <1> DEFINE Bad == {m \in Nat : \E R \in SUBSET (1 .. m) :
                                   ~ \E f : IsEnumeration(f, R)}
  <1>1. SUFFICES Bad = {}
    BY <1>1
  <1>2. SUFFICES ASSUME NEW m \in Bad, \A k \in Bad : m <= k PROVE FALSE
    BY <1>2, LeastElement
  <1>3. PICK R \in SUBSET (1 .. m) : ~ \E f : IsEnumeration(f, R)
    BY <1>2
  <1>4. m \in Nat
    BY <1>2
  <1>5. CASE m = 0
    <2>1. R = {} /\ Cardinality(R) = 0
      <3>1. 1 .. m = {}
        BY <1>5
      <3>2. R = {}
        BY <3>1
      <3> QED
        BY <3>2, FS_EmptySet
    <2>2. IsEnumeration([i \in 1 .. 0 |-> i], R)
      BY <2>1 DEF IsEnumeration
    <2> QED
      BY <2>2, <1>3
  <1>6. CASE m > 0
    <2>1. m - 1 \in Nat /\ m - 1 < m
      BY <1>4, <1>6
    <2>2. m - 1 \notin Bad
      BY <2>1, <1>2, <1>4
    <2>3. \A Q \in SUBSET (1 .. m - 1) : \E f : IsEnumeration(f, Q)
      BY <2>1, <2>2
    <2>4. CASE m \in R
      <3>1. R \ {m} \in SUBSET (1 .. m - 1)
        BY <1>4, <1>6
      <3>2. PICK g : IsEnumeration(g, R \ {m})
        BY <3>1, <2>3
      <3> QED
        BY <3>2, <2>4, <1>3, <1>4, <1>6, EnumerationGrows
    <2>5. CASE m \notin R
      <3>1. R \in SUBSET (1 .. m - 1)
        BY <2>5, <1>4, <1>6
      <3> QED
        BY <3>1, <2>3, <1>3
    <2> QED
      BY <2>4, <2>5
  <1> QED
    BY <1>4, <1>5, <1>6

\* What is picked from a list is a list of elements of it.
LEMMA PickedElements ==
  ASSUME NEW S, NEW list \in Seq(S), NEW indices \in SUBSET DOMAIN list
  PROVE  /\ Picked(list, indices) \in Seq(S)
         /\ \A k \in DOMAIN Picked(list, indices) :
              \E i \in indices : Picked(list, indices)[k] = list[i]
  <1> DEFINE c == Cardinality(indices)
             f == Increasing(indices)
  <1>1. Len(list) \in Nat /\ DOMAIN list = 1 .. Len(list)
    BY LenProperties
  <1>2. \E g : IsEnumeration(g, indices)
    BY <1>1, EnumerationExists
  <1>3. f \in [1 .. c -> indices]
    <2>1. \E g \in [1 .. c -> indices] : \A i, j \in DOMAIN g : i < j => g[i] < g[j]
      BY <1>2 DEF IsEnumeration
    <2> QED
      BY <2>1 DEF Increasing
  <1>4. c \in Nat
    <2>1. IsFiniteSet(1 .. Len(list)) /\ indices \in SUBSET (1 .. Len(list))
      BY <1>1, FS_Interval
    <2>2. IsFiniteSet(indices)
      BY <2>1, FS_Subset
    <2> QED
      BY <2>2, FS_CardinalityType
  <1>5. Picked(list, indices) = [k \in 1 .. c |-> list[f[k]]]
    BY DEF Picked
  <1> HIDE DEF c, f
  <1>6. \A k \in 1 .. c : f[k] \in indices /\ list[f[k]] \in S
    BY <1>1, <1>3, ElementOfSeq
  <1>7. Picked(list, indices) \in [1 .. c -> S]
    BY <1>5, <1>6
  <1> QED
    BY <1>4, <1>5, <1>6, <1>7
-----------------------------------------------------------------------------
(***************************************************************************)
(* The lists of schema values a schema value holds.                        *)
(***************************************************************************)
Subschema == [value : Schemas, comp : CompositionTypes]

\* Mapping the elements of a list gives a list.
LEMMA Mapped ==
  ASSUME NEW T, NEW S, NEW list \in Seq(T), NEW new,
         new = [i \in DOMAIN list |-> new[i]],
         \A i \in DOMAIN list : new[i] \in S
  PROVE  new \in Seq(S)
  <1>1. Len(list) \in Nat /\ DOMAIN list = 1 .. Len(list)
    BY LenProperties
  <1>2. new \in [1 .. Len(list) -> S]
    BY <1>1
  <1> QED
    BY <1>1, <1>2

\* What SchemasAssumption says of the keywords of one schema value.
LEMMA SchemaLists ==
  ASSUME NEW id \in Schemas, NEW s, s = SchemaOf(id)
  PROVE  /\ s.ref \in Seq(Schemas) /\ s.type_any \in Seq(Schemas)
         /\ s.type_list \in Seq(Schemas) /\ s.all_of \in Seq(Schemas)
         /\ s.any_of \in Seq(Schemas) /\ s.one_of \in Seq(Schemas)
         /\ s.not \in Seq(Schemas) /\ s.additional \in Seq(Schemas)
         /\ s.property_names \in Seq(Schemas) /\ s.items \in Seq(Schemas)
         /\ s.contains \in Seq(Schemas) /\ s.items_list \in Seq(Seq(Schemas))
         /\ s.properties \in Seq(Range(s.properties))
         /\ s.patterns \in Seq(Range(s.patterns))
         /\ s.dependencies \in Seq(Range(s.dependencies))
         /\ \A member \in Range(s.properties) : member.value \in Schemas
         /\ \A member \in Range(s.patterns) : member.value \in Schemas
         /\ \A dep \in Range(s.dependencies) : dep.schema \in Seq(Schemas)
  BY SchemasAssumption DEF SelfContained, IsSchema

\* A keyword contributes subschemas with its composition type.
LEMMA TaggedSubschemas ==
  ASSUME NEW ids \in Seq(Schemas), NEW comp \in CompositionTypes
  PROVE  Tagged(ids, comp) \in Seq(Subschema)
  <1> DEFINE new == Tagged(ids, comp)
  <1>1. new = [i \in DOMAIN ids |-> new[i]]
    BY DEF Tagged
  <1>2. \A i \in DOMAIN ids : ids[i] \in Schemas
    BY LenProperties, ElementOfSeq
  <1>3. \A i \in DOMAIN ids : new[i] \in Subschema
    BY <1>2 DEF Tagged, Subschema
  <1> HIDE DEF new
  <1>4. new \in Seq(Subschema)
    BY <1>1, <1>3, Mapped
  <1> QED
    BY <1>4 DEF new

\* The positions composition pushes are those of schema values of the document.
LEMMA SubschemasOfSchema ==
  ASSUME NEW id \in Schemas
  PROVE  Subschemas(SchemaOf(id)) \in Seq(Subschema)
  <1> PICK s : s = SchemaOf(id)
    OBVIOUS
  <1>1. /\ Tagged(s.ref, "REF") \in Seq(Subschema)
        /\ Tagged(s.type_any, "TYPE_ANY") \in Seq(Subschema)
        /\ Tagged(s.type_list, "TYPE_LIST") \in Seq(Subschema)
        /\ Tagged(s.all_of, "ALL") \in Seq(Subschema)
        /\ Tagged(s.any_of, "ANY") \in Seq(Subschema)
        /\ Tagged(s.one_of, "ONE") \in Seq(Subschema)
        /\ Tagged(s.not, "NOT") \in Seq(Subschema)
    BY SchemaLists, TaggedSubschemas DEF CompositionTypes
  <1> QED
    BY <1>1, ConcatProperties DEF Subschemas

\* The schemas of a member are those of the matching properties and patterns.
LEMMA MatchingSchemasOfSchema ==
  ASSUME NEW id \in Schemas, NEW key
  PROVE  MatchingSchemas(SchemaOf(id), key) \in Seq(Schemas)
  <1> PICK s : s = SchemaOf(id)
    OBVIOUS
  <1> DEFINE props == WithKey(s.properties, key)
             pats  == Matching(s.patterns, key)
             fromProps == [i \in DOMAIN props |-> props[i].value]
             fromPats  == [i \in DOMAIN pats |-> pats[i].value]
  <1>1. props \in Seq(Range(s.properties)) /\ pats \in Seq(Range(s.patterns))
    BY SchemaLists, PickedElements DEF WithKey, Matching
  <1>2. /\ \A member \in Range(s.properties) : member.value \in Schemas
        /\ \A member \in Range(s.patterns) : member.value \in Schemas
    BY SchemaLists
  <1>3. MatchingSchemas(s, key) = fromProps \o fromPats
    BY DEF MatchingSchemas
  <1> HIDE DEF props, pats
  <1>4. /\ \A i \in DOMAIN props : props[i] \in Range(s.properties)
        /\ \A i \in DOMAIN pats : pats[i] \in Range(s.patterns)
    BY <1>1, LenProperties, ElementOfSeq
  <1>5. /\ \A i \in DOMAIN props : fromProps[i] \in Schemas
        /\ \A i \in DOMAIN pats : fromPats[i] \in Schemas
    BY <1>2, <1>4
  <1>6. /\ fromProps = [i \in DOMAIN props |-> fromProps[i]]
        /\ fromPats = [i \in DOMAIN pats |-> fromPats[i]]
    OBVIOUS
  <1> HIDE DEF fromProps, fromPats
  <1>7. fromProps \in Seq(Schemas) /\ fromPats \in Seq(Schemas)
    BY <1>1, <1>5, <1>6, Mapped
  <1> QED
    BY <1>3, <1>7, ConcatProperties

\* The schemas of an item, by index, are schemas of the set.
LEMMA ItemSchemasOfSchema ==
  ASSUME NEW id \in Schemas, NEW index \in Nat
  PROVE  ItemSchemas(SchemaOf(id), index) \in Seq(Schemas)
  <1> PICK s : s = SchemaOf(id)
    OBVIOUS
  <1>1. /\ s.items \in Seq(Schemas) /\ s.additional \in Seq(Schemas)
        /\ s.items_list \in Seq(Seq(Schemas))
    BY SchemaLists
  <1>2. CASE s.items_list = <<>>
    BY <1>1, <1>2 DEF ItemSchemas
  <1>3. CASE s.items_list # <<>>
    <2>1. PICK list : list = s.items_list[1]
      OBVIOUS
    <2>2. 1 \in 1 .. Len(s.items_list)
      BY <1>1, <1>3, EmptySeq
    <2>3. list \in Seq(Schemas)
      BY <1>1, <2>1, <2>2, ElementOfSeq
    <2>4. CASE index < Len(list)
      <3>1. index + 1 \in 1 .. Len(list)
        BY <2>3, <2>4, LenProperties
      <3>2. list[index + 1] \in Schemas
        BY <2>3, <3>1, ElementOfSeq
      <3> QED
        BY <1>3, <2>1, <2>4, <3>2 DEF ItemSchemas
    <2>5. CASE ~ index < Len(list)
      BY <1>1, <1>3, <2>1, <2>5 DEF ItemSchemas
    <2> QED
      BY <2>4, <2>5
  <1> QED
    BY <1>2, <1>3

\* The schemas object_pre_value pushes.
LEMMA DependencySchemas ==
  ASSUME NEW id \in Schemas, NEW s, s = SchemaOf(id), NEW deps,
         deps = Picked(s.dependencies,
                       {i \in DOMAIN s.dependencies : s.dependencies[i].schema # <<>>})
  PROVE  [i \in DOMAIN deps |-> deps[i].schema[1]] \in Seq(Schemas)
  <1> DEFINE new == [i \in DOMAIN deps |-> deps[i].schema[1]]
  <1>1. /\ s.dependencies \in Seq(Range(s.dependencies))
        /\ \A dep \in Range(s.dependencies) : dep.schema \in Seq(Schemas)
    BY SchemaLists
  <1>2. /\ deps \in Seq(Range(s.dependencies))
        /\ \A k \in DOMAIN deps : deps[k].schema # <<>>
    BY <1>1, PickedElements
  <1>3. \A k \in DOMAIN deps : deps[k] \in Range(s.dependencies)
    BY <1>2, LenProperties, ElementOfSeq
  <1>4. ASSUME NEW k \in DOMAIN deps PROVE new[k] \in Schemas
    <2>1. PICK list : list = deps[k].schema
      OBVIOUS
    <2>2. list \in Seq(Schemas) /\ list # <<>>
      BY <1>1, <1>2, <1>3, <2>1
    <2>3. 1 \in 1 .. Len(list)
      BY <2>2, EmptySeq
    <2> QED
      BY <2>1, <2>2, <2>3, ElementOfSeq
  <1>5. new = [i \in DOMAIN deps |-> new[i]]
    OBVIOUS
  <1> HIDE DEF new
  <1>6. new \in Seq(Schemas)
    BY <1>2, <1>4, <1>5, Mapped
  <1> QED
    BY <1>6 DEF new
-----------------------------------------------------------------------------
(***************************************************************************)
(* Steps of the machine [stack, error] that leave the layers alone: they   *)
(* write outcomes and push positions of the top layer.                     *)
(***************************************************************************)
LiveIn(s, p) == p \in 1 .. Size(s) /\ ~ IsSentinel(s.positions[p])

StackOK(s) ==
  /\ s \in StackType(Schemas)
  /\ WellFormed(s)
  /\ \A p \in 1 .. Size(s) : LiveIn(s, p) => s.positions[p].value \in Schemas

Grown(s, t) ==
  /\ StackOK(t)
  /\ Size(s) <= Size(t)
  /\ KeptTo(s, t, Size(s))
  /\ t.last_separator = s.last_separator
  /\ t.depth = s.depth

IsMachine(m) ==
  /\ m = [stack |-> m.stack, error |-> m.error]
  /\ StackOK(m.stack)

Advanced(m, n) == IsMachine(n) /\ Grown(m.stack, n.stack)

\* The fields of a stack that is in order, with their types.
LEMMA StackFields ==
  ASSUME NEW s, StackOK(s)
  PROVE  /\ s = [positions |-> s.positions, last_separator |-> s.last_separator,
                 depth |-> s.depth]
         /\ s.positions \in Seq(PositionType(Schemas))
         /\ DOMAIN s.positions = 1 .. Size(s)
         /\ Size(s) \in Nat
         /\ s.last_separator \in 0 .. Size(s)
         /\ s.depth \in Nat
         /\ s.depth = Cardinality(SeparatorsTo(s, Size(s)))
         /\ IsLastSeparator(s, s.last_separator, Size(s))
  BY LenProperties
  DEF StackOK, StackType, Size, WellFormed, ChainExact, DepthsExact,
      IsLastSeparator, NoPos

\* A stack grows when nothing happens to it.
LEMMA GrownReflexive ==
  ASSUME NEW s, StackOK(s)
  PROVE  Grown(s, s)
  BY StackFields DEF Grown, KeptTo, Kept, SameShape

\* Two growing steps are one.
LEMMA GrownTransitive ==
  ASSUME NEW s, NEW t, NEW u, StackOK(s), Grown(s, t), Grown(t, u)
  PROVE  Grown(s, u)
  <1>1. /\ Size(s) \in Nat /\ Size(t) \in Nat /\ Size(u) \in Nat
        /\ Size(s) <= Size(t) /\ Size(t) <= Size(u)
    BY StackFields DEF Grown
  <1>2. KeptTo(s, u, Size(s))
    BY <1>1 DEF Grown, KeptTo, Kept, SameShape
  <1> QED
    BY <1>1, <1>2 DEF Grown

\* A live position stays live while the stack grows.
LEMMA GrownKeepsLive ==
  ASSUME NEW s, NEW t, StackOK(s), Grown(s, t), NEW p, LiveIn(s, p)
  PROVE  LiveIn(t, p)
  <1>1. Size(s) \in Nat /\ Size(t) \in Nat /\ Size(s) <= Size(t)
    BY StackFields DEF Grown
  <1> QED
    BY <1>1 DEF Grown, LiveIn, KeptTo, Kept, SameShape, IsSentinel

\* A machine advances when nothing happens to it.
LEMMA AdvancedReflexive ==
  ASSUME NEW m, IsMachine(m)
  PROVE  Advanced(m, m)
  BY GrownReflexive DEF IsMachine, Advanced

\* Two advancing steps are one.
LEMMA AdvancedTransitive ==
  ASSUME NEW m, NEW n, NEW o, IsMachine(m), Advanced(m, n), Advanced(n, o)
  PROVE  Advanced(m, o)
  BY GrownTransitive DEF IsMachine, Advanced

\* A live position stays live while the machine advances.
LEMMA AdvancedKeepsLive ==
  ASSUME NEW m, NEW n, IsMachine(m), Advanced(m, n), NEW p, LiveIn(m.stack, p)
  PROVE  LiveIn(n.stack, p)
  BY GrownKeepsLive DEF IsMachine, Advanced

\* A live position: its schema value, its parent, its outcome.
LEMMA LivePosition ==
  ASSUME NEW s, StackOK(s), NEW p, LiveIn(s, p)
  PROVE  /\ s.positions[p] \in PositionType(Schemas)
         /\ s.positions[p].value \in Schemas
         /\ s.positions[p].out \in OutcomeType
         /\ s.positions[p].composition_type \in CompositionTypes
         /\ s.positions[p].parent # NoPos => LiveIn(s, s.positions[p].parent)
  <1>1. p \in 1 .. Size(s) /\ Size(s) \in Nat
    BY StackFields DEF LiveIn
  <1>2. s.positions[p] \in PositionType(Schemas)
    BY <1>1, StackFields, ElementOfSeq DEF Size
  <1>3. s.positions[p].value \in Schemas
    BY <1>1 DEF StackOK
  <1>4. /\ s.positions[p].parent < p
        /\ s.positions[p].parent # NoPos =>
             ~ IsSentinel(s.positions[s.positions[p].parent])
    BY <1>1 DEF StackOK, WellFormed, ParentsBelow, LiveIn
  <1>5. s.positions[p].parent \in Nat
    BY <1>2 DEF PositionType
  <1>6. s.positions[p].parent # NoPos => LiveIn(s, s.positions[p].parent)
    BY <1>1, <1>4, <1>5 DEF LiveIn, NoPos
  <1> QED
    BY <1>2, <1>3, <1>6 DEF PositionType

Rewritten(s, p, out) == [s EXCEPT !.positions[p].out = out]

\* Writing the outcome of a position.
LEMMA OutcomeGrown ==
  ASSUME NEW s, StackOK(s), NEW p, LiveIn(s, p), NEW out \in OutcomeType,
         NEW t, t = Rewritten(s, p, out)
  PROVE  Grown(s, t) /\ t.positions[p].out = out
  <1> DEFINE new == [s.positions[p] EXCEPT !.out = out]
             ps == [s.positions EXCEPT ![p] = new]
  <1>1. p \in 1 .. Size(s) /\ Size(s) \in Nat
    BY StackFields DEF LiveIn
  <1>2. s.positions[p] \in PositionType(Schemas)
    BY LivePosition
  <1>3. new \in PositionType(Schemas) /\ Kept(s.positions[p], new) /\ new.out = out
    BY <1>2 DEF PositionType, Kept, SameShape
  <1>4. t = [positions |-> ps, last_separator |-> s.last_separator,
             depth |-> s.depth]
    BY ReplacePositions DEF StackOK, Rewritten
  <1> HIDE DEF new
  <1>5. /\ ps \in Seq(PositionType(Schemas))
        /\ Len(ps) = Size(s)
        /\ \A i \in 1 .. Size(s) : ps[i] = IF i = p THEN new ELSE s.positions[i]
    BY <1>1, <1>3, StackFields, ExceptSeq DEF Size
  <1> HIDE DEF ps
  <1>6. t \in StackType(Schemas) /\ Size(t) = Size(s)
    BY <1>4, <1>5, StackFields DEF StackType, Size
  <1>7. KeptTo(s, t, Size(s))
    BY <1>3, <1>4, <1>5 DEF KeptTo, Kept, SameShape
  <1>8. SameTo(s, t, Size(s))
    BY <1>7 DEF KeptTo, Kept, SameTo
  <1>9. WellFormed(t)
    BY <1>4, <1>6, <1>8, SameShapeWellFormed DEF StackOK
  <1>10. \A i \in 1 .. Size(t) : LiveIn(t, i) => t.positions[i].value \in Schemas
    BY <1>6, <1>7
    DEF StackOK, LiveIn, KeptTo, Kept, SameShape, IsSentinel
  <1>11. t.positions[p] = new
    BY <1>1, <1>4, <1>5
  <1>12. t.last_separator = s.last_separator /\ t.depth = s.depth
    BY <1>4
  <1>13. Size(s) <= Size(t)
    BY <1>1, <1>6
  <1> QED
    BY <1>3, <1>6, <1>7, <1>9, <1>10, <1>11, <1>12, <1>13 DEF Grown, StackOK

\* Writing an outcome to a live position advances the machine.
LEMMA WithOutAdvances ==
  ASSUME NEW m, IsMachine(m), NEW p, LiveIn(m.stack, p), NEW out \in OutcomeType
  PROVE  /\ Advanced(m, WithOut(m, p, out))
         /\ Out(WithOut(m, p, out), p) = out
         /\ WithOut(m, p, out).error = m.error
  <1> PICK t : t = Rewritten(m.stack, p, out)
    OBVIOUS
  <1>1. WithOut(m, p, out) = [stack |-> t, error |-> m.error]
    BY DEF WithOut, IsMachine, Rewritten
  <1>2. StackOK(m.stack)
    BY DEF IsMachine
  <1>3. Grown(m.stack, t) /\ t.positions[p].out = out
    BY <1>2, OutcomeGrown
  <1> PICK n : n = WithOut(m, p, out)
    OBVIOUS
  <1>4. n = [stack |-> n.stack, error |-> n.error] /\ n.stack = t
        /\ n.error = m.error
    BY <1>1
  <1>5. Advanced(m, n)
    BY <1>3, <1>4 DEF Advanced, IsMachine, Grown
  <1> QED
    BY <1>3, <1>4, <1>5 DEF Out, Pos

\* Setting the error only.
LEMMA ErrorAdvances ==
  ASSUME NEW m, IsMachine(m), NEW e, NEW n, n = [m EXCEPT !.error = e]
  PROVE  Advanced(m, n)
  <1>1. n = [stack |-> m.stack, error |-> e]
    BY DEF IsMachine
  <1> QED
    BY <1>1, GrownReflexive DEF Advanced, IsMachine

\* Positions pushed one after another: each goes to the top layer and has a
\* parent that was there before the first.
PushedOn(s, pos) ==
  /\ pos \in PositionType(Schemas)
  /\ ~ IsSentinel(pos)
  /\ pos.value \in Schemas
  /\ pos.layer_start = s.last_separator + 1
  /\ pos.depth = s.depth
  /\ pos.parent = NoPos \/ LiveIn(s, pos.parent)

Extended(s, list) == [s EXCEPT !.positions = @ \o list]

\* Positions pushed on the top layer, however many, let the stack grow.
LEMMA ExtendedGrown ==
  ASSUME NEW s, StackOK(s), NEW list \in Seq(PositionType(Schemas)),
         \A i \in 1 .. Len(list) : PushedOn(s, list[i]),
         NEW t, t = Extended(s, list)
  PROVE  Grown(s, t)
  <1> DEFINE n == Size(s)
             l == s.last_separator
  <1>1. /\ n \in Nat /\ Len(list) \in Nat /\ n = Len(s.positions)
        /\ s.positions \in Seq(PositionType(Schemas))
        /\ l \in 0 .. n
    BY StackFields, LenProperties DEF Size
  <1> DEFINE ps == s.positions \o list
  <1>2. /\ ps \in Seq(PositionType(Schemas))
        /\ Len(ps) = n + Len(list)
        /\ \A i \in 1 .. n + Len(list) :
             ps[i] = IF i <= n THEN s.positions[i] ELSE list[i - n]
    BY <1>1, ConcatProperties
  <1>3. t = [positions |-> ps, last_separator |-> l, depth |-> s.depth]
    BY ReplacePositions DEF StackOK, Extended
  <1> HIDE DEF ps
  <1>4. /\ t \in StackType(Schemas)
        /\ Size(t) = n + Len(list)
        /\ t.last_separator = l
        /\ t.depth = s.depth
    BY <1>1, <1>2, <1>3, StackFields DEF StackType, Size
  <1>5. \A i \in 1 .. n : t.positions[i] = s.positions[i]
    BY <1>1, <1>2, <1>3
  <1>6. \A i \in n + 1 .. Size(t) : PushedOn(s, t.positions[i])
    <2> SUFFICES ASSUME NEW i \in n + 1 .. Size(t) PROVE PushedOn(s, t.positions[i])
      OBVIOUS
    <2>1. i - n \in 1 .. Len(list) /\ i \in 1 .. n + Len(list) /\ ~ i <= n
      BY <1>1, <1>4
    <2>2. t.positions[i] = list[i - n]
      BY <2>1, <1>2, <1>3
    <2> QED
      BY <2>1, <2>2
  <1>7. \A i \in 1 .. Size(t) : i \in 1 .. n \/ i \in n + 1 .. Size(t)
    BY <1>1, <1>4
  <1> HIDE DEF n, l
  <1>8. \A i \in 0 .. n : SameTo(s, t, i)
    BY <1>1, <1>5 DEF SameTo, SameShape
  <1>9. /\ \A i \in 0 .. n : SeparatorsTo(s, i) = SeparatorsTo(t, i)
        /\ \A i \in 0 .. n, k \in Nat :
             IsLastSeparator(s, k, i) <=> IsLastSeparator(t, k, i)
    BY <1>1, <1>8, SameSeparators
  <1>10. \A i \in n .. Size(t) : SeparatorsTo(t, i) = SeparatorsTo(s, n)
    <2>1. \A k \in n + 1 .. Size(t) : ~ IsSentinel(t.positions[k])
      BY <1>6 DEF PushedOn
    <2>2. \A i \in n .. Size(t) : SeparatorsTo(t, i) = SeparatorsTo(t, n)
      BY <2>1, <1>1, <1>4 DEF SeparatorsTo
    <2> QED
      BY <2>2, <1>1, <1>9
  <1>11. IsLastSeparator(t, l, n)
    BY <1>1, <1>9, StackFields DEF l, n
  <1>12. \A i \in n .. Size(t) : IsLastSeparator(t, l, i)
    <2>1. \A k \in n + 1 .. Size(t) : ~ IsSentinel(t.positions[k])
      BY <1>6 DEF PushedOn
    <2> QED
      BY <2>1, <1>1, <1>4, <1>11 DEF IsLastSeparator
  <1>13. \A i \in 1 .. n : /\ s.positions[i].parent \in Nat
                           /\ s.positions[i].layer_start \in Nat \ {0}
    BY PositionFields DEF StackOK, n
  <1>14. ChainExact(t)
    <2>1. IsLastSeparator(t, t.last_separator, Size(t))
      BY <1>1, <1>4, <1>12
    <2>2. ASSUME NEW i \in 1 .. Size(t), IsSentinel(t.positions[i])
          PROVE  IsLastSeparator(t, t.positions[i].parent, i - 1)
      <3>1. i \in 1 .. n
        BY <2>2, <1>6, <1>7 DEF PushedOn
      <3>2. IsLastSeparator(s, s.positions[i].parent, i - 1)
        BY <2>2, <3>1, <1>5 DEF StackOK, WellFormed, ChainExact, n
      <3> QED
        BY <3>1, <3>2, <1>1, <1>5, <1>9, <1>13
    <2> QED
      BY <2>1, <2>2 DEF ChainExact
  <1>15. LayerStartsExact(t)
    <2> SUFFICES ASSUME NEW i \in 1 .. Size(t)
                 PROVE  IF IsSentinel(t.positions[i])
                        THEN t.positions[i].layer_start = i
                        ELSE IsLastSeparator(t, t.positions[i].layer_start - 1, i)
      BY DEF LayerStartsExact
    <2>1. CASE i \in 1 .. n
      BY <2>1, <1>1, <1>5, <1>9, <1>13
      DEF StackOK, WellFormed, LayerStartsExact, n
    <2>2. CASE i \in n + 1 .. Size(t)
      <3>1. t.positions[i].layer_start - 1 = l /\ ~ IsSentinel(t.positions[i])
        BY <2>2, <1>1, <1>6 DEF PushedOn, l
      <3> QED
        BY <2>2, <3>1, <1>1, <1>4, <1>12
    <2> QED
      BY <2>1, <2>2, <1>7
  <1>16. ParentsBelow(t)
    <2> SUFFICES ASSUME NEW i \in 1 .. Size(t), ~ IsSentinel(t.positions[i])
                 PROVE  /\ t.positions[i].parent < i
                        /\ t.positions[i].parent # NoPos =>
                             ~ IsSentinel(t.positions[t.positions[i].parent])
      BY DEF ParentsBelow
    <2>1. CASE i \in 1 .. n
      <3>1. /\ s.positions[i].parent < i
            /\ s.positions[i].parent # NoPos =>
                 ~ IsSentinel(s.positions[s.positions[i].parent])
        BY <2>1, <1>5 DEF StackOK, WellFormed, ParentsBelow, n
      <3>2. s.positions[i].parent # NoPos => s.positions[i].parent \in 1 .. n
        BY <2>1, <3>1, <1>1, <1>13 DEF NoPos
      <3> QED
        BY <2>1, <3>1, <3>2, <1>5
    <2>2. CASE i \in n + 1 .. Size(t)
      <3>1. t.positions[i].parent = NoPos \/ LiveIn(s, t.positions[i].parent)
        BY <2>2, <1>6 DEF PushedOn
      <3> QED
        BY <2>2, <3>1, <1>1, <1>4, <1>5 DEF LiveIn, NoPos, n
    <2> QED
      BY <2>1, <2>2, <1>7
  <1>17. DepthsExact(t)
    <2>1. t.depth = Cardinality(SeparatorsTo(t, Size(t)))
      <3>1. Size(t) \in n .. Size(t)
        BY <1>1, <1>4
      <3>2. SeparatorsTo(t, Size(t)) = SeparatorsTo(s, n)
        BY <3>1, <1>10
      <3>3. s.depth = Cardinality(SeparatorsTo(s, n))
        BY StackFields DEF n
      <3> QED
        BY <3>2, <3>3, <1>4
    <2>2. ASSUME NEW i \in 1 .. Size(t), ~ IsSentinel(t.positions[i])
          PROVE  t.positions[i].depth = Cardinality(SeparatorsTo(t, i))
      <3>1. CASE i \in 1 .. n
        <4>1. s.positions[i].depth = Cardinality(SeparatorsTo(s, i))
          BY <2>2, <3>1, <1>5 DEF StackOK, WellFormed, DepthsExact, n
        <4>2. i \in 0 .. n
          BY <3>1, <1>1
        <4> QED
          BY <3>1, <4>1, <4>2, <1>5, <1>9
      <3>2. CASE i \in n + 1 .. Size(t)
        <4>1. t.positions[i].depth = s.depth /\ i \in n .. Size(t)
          BY <3>2, <1>1, <1>4, <1>6 DEF PushedOn
        <4> QED
          BY <4>1, <1>10, StackFields DEF n
      <3> QED
        BY <3>1, <3>2, <1>7
    <2> QED
      BY <2>1, <2>2 DEF DepthsExact
  <1>18. \A i \in 1 .. Size(t) : LiveIn(t, i) => t.positions[i].value \in Schemas
    <2> SUFFICES ASSUME NEW i \in 1 .. Size(t), LiveIn(t, i)
                 PROVE  t.positions[i].value \in Schemas
      OBVIOUS
    <2>1. CASE i \in 1 .. n
      BY <2>1, <1>5 DEF StackOK, LiveIn, n
    <2>2. CASE i \in n + 1 .. Size(t)
      BY <2>2, <1>6 DEF PushedOn
    <2> QED
      BY <2>1, <2>2, <1>7
  <1>19. KeptTo(s, t, Size(s)) /\ Size(s) <= Size(t)
    BY <1>1, <1>4, <1>5 DEF KeptTo, Kept, SameShape, n
  <1> QED
    BY <1>4, <1>14, <1>15, <1>16, <1>17, <1>18, <1>19
    DEF Grown, StackOK, WellFormed, l

\* Pushing the positions of a list onto the stack of the machine.
LEMMA ExtendedAdvances ==
  ASSUME NEW m, IsMachine(m), NEW list \in Seq(PositionType(Schemas)),
         \A i \in 1 .. Len(list) : PushedOn(m.stack, list[i]),
         NEW n, n = [stack |-> Extended(m.stack, list), error |-> m.error]
  PROVE  Advanced(m, n)
  <1> PICK t : t = Extended(m.stack, list)
    OBVIOUS
  <1>1. StackOK(m.stack)
    BY DEF IsMachine
  <1>2. Grown(m.stack, t)
    BY <1>1, ExtendedGrown
  <1>3. n = [stack |-> n.stack, error |-> n.error] /\ n.stack = t
    OBVIOUS
  <1> QED
    BY <1>2, <1>3 DEF Advanced, IsMachine, Grown

\* A position made by push_basic or push_composed.
LEMMA MadePosition ==
  ASSUME NEW s, StackOK(s), NEW p, p = NoPos \/ LiveIn(s, p),
         NEW type \in {"BASIC", "COMPOSED"}, NEW comp \in CompositionTypes,
         NEW v \in Schemas
  PROVE  PushedOn(s, Position(s, type, comp, v, p))
  <1>1. FreshOutcome \in OutcomeType
    BY DEF FreshOutcome, OutcomeType, Results, InvalidReasons
  <1>2. s.last_separator \in Nat /\ s.depth \in Nat /\ p \in Nat
    BY StackFields DEF LiveIn, NoPos
  <1>3. s.last_separator + 1 \in Nat \ {0}
    BY <1>2
  <1>4. type \in PositionTypes /\ type # "SENTINEL"
    BY DEF PositionTypes
  <1> PICK pos : pos = Position(s, type, comp, v, p)
    OBVIOUS
  <1>5. /\ pos = [position_type |-> type, composition_type |-> comp, value |-> v,
                  parent |-> p, layer_start |-> s.last_separator + 1,
                  depth |-> s.depth, out |-> FreshOutcome]
    BY DEF Position
  <1>6. pos \in PositionType(Schemas)
    BY <1>1, <1>2, <1>3, <1>4, <1>5 DEF PositionType
  <1> QED
    BY <1>4, <1>5, <1>6 DEF PushedOn, IsSentinel

\* Pushing one position per schema of a list advances the machine.
LEMMA PushBasicsAdvances ==
  ASSUME NEW m, IsMachine(m), NEW ids \in Seq(Schemas),
         NEW p, p = NoPos \/ LiveIn(m.stack, p)
  PROVE  Advanced(m, PushBasics(m, ids, p))
  <1> DEFINE list == [i \in DOMAIN ids |->
                        Position(m.stack, "BASIC", "NONE", ids[i], p)]
  <1>1. StackOK(m.stack)
    BY DEF IsMachine
  <1>2. \A i \in DOMAIN ids : ids[i] \in Schemas
    BY LenProperties, ElementOfSeq
  <1>3. \A i \in DOMAIN ids : PushedOn(m.stack, list[i])
    BY <1>1, <1>2, MadePosition DEF CompositionTypes
  <1>4. list = [i \in DOMAIN ids |-> list[i]]
    OBVIOUS
  <1>5. PushBasics(m, ids, p) = [stack |-> Extended(m.stack, list), error |-> m.error]
    <2>1. m = [stack |-> m.stack, error |-> m.error]
      BY DEF IsMachine
    <2>2. PICK ps : ps = m.stack.positions \o list
      OBVIOUS
    <2>3. PushBasics(m, ids, p) = [m EXCEPT !.stack.positions = ps]
      BY <2>2 DEF PushBasics
    <2>4. Extended(m.stack, list) = [m.stack EXCEPT !.positions = ps]
      BY <2>2 DEF Extended
    <2> HIDE DEF list
    <2>5. [m EXCEPT !.stack.positions = ps]
            = [stack |-> [m.stack EXCEPT !.positions = ps], error |-> m.error]
      BY <2>1
    <2> QED
      BY <2>3, <2>4, <2>5
  <1>6. DOMAIN list = DOMAIN ids
    OBVIOUS
  <1> HIDE DEF list
  <1>7. list \in Seq(PositionType(Schemas))
    BY <1>3, <1>4, Mapped DEF PushedOn
  <1>8. \A i \in 1 .. Len(list) : PushedOn(m.stack, list[i])
    BY <1>3, <1>6, <1>7, LenProperties
  <1> QED
    BY <1>5, <1>7, <1>8, ExtendedAdvances

\* So does pushing the subschemas of a position.
LEMMA CompositionPushAdvances ==
  ASSUME NEW m, IsMachine(m), NEW p, LiveIn(m.stack, p)
  PROVE  Advanced(m, CompositionPush(m, p))
  <1> PICK subs : subs = Subschemas(SchemaAt(m, p))
    OBVIOUS
  <1> DEFINE list == [i \in DOMAIN subs |->
                        Position(m.stack, "COMPOSED", subs[i].comp, subs[i].value, p)]
  <1>1. StackOK(m.stack)
    BY DEF IsMachine
  <1>2. subs \in Seq(Subschema)
    BY <1>1, LivePosition, SubschemasOfSchema DEF SchemaAt, Pos
  <1>3. \A i \in DOMAIN subs : subs[i].comp \in CompositionTypes
                               /\ subs[i].value \in Schemas
    <2>1. \A i \in DOMAIN subs : subs[i] \in Subschema
      BY <1>2, LenProperties, ElementOfSeq
    <2> QED
      BY <2>1 DEF Subschema
  <1>4. \A i \in DOMAIN subs : PushedOn(m.stack, list[i])
    BY <1>1, <1>3, MadePosition
  <1>5. list = [i \in DOMAIN subs |-> list[i]]
    OBVIOUS
  <1>6. CompositionPush(m, p) = [stack |-> Extended(m.stack, list), error |-> m.error]
    BY DEF CompositionPush, Extended, IsMachine
  <1>7. DOMAIN list = DOMAIN subs
    OBVIOUS
  <1> HIDE DEF list
  <1>8. list \in Seq(PositionType(Schemas))
    BY <1>2, <1>4, <1>5, Mapped DEF PushedOn
  <1>9. \A i \in 1 .. Len(list) : PushedOn(m.stack, list[i])
    BY <1>4, <1>7, <1>8, LenProperties
  <1> QED
    BY <1>6, <1>8, <1>9, ExtendedAdvances

-----------------------------------------------------------------------------
(***************************************************************************)
(* What the handlers do to a position.                                     *)
(***************************************************************************)
Failures == {TypeFailure, FalseFailure, CompositionFailure, KeywordFailure,
             StringFailure, NoFailure}

\* What a machine knows of a live position.
LEMMA OutcomeAt ==
  ASSUME NEW m, IsMachine(m), NEW p, LiveIn(m.stack, p)
  PROVE  /\ Out(m, p) \in OutcomeType
         /\ Pos(m, p).composition_type \in CompositionTypes
         /\ Pos(m, p).value \in Schemas
         /\ Pos(m, p).parent # NoPos => LiveIn(m.stack, Pos(m, p).parent)
  BY LivePosition DEF IsMachine, Out, Pos

\* Storing a result advances the machine.
LEMMA SetResultAdvances ==
  ASSUME NEW m, IsMachine(m), NEW p, LiveIn(m.stack, p), NEW r \in Results
  PROVE  Advanced(m, SetResult(m, p, r))
  <1>1. PICK out : out = [Out(m, p) EXCEPT !.result = r]
    OBVIOUS
  <1>2. out \in OutcomeType
    BY <1>1, OutcomeAt DEF OutcomeType
  <1> QED
    BY <1>1, <1>2, WithOutAdvances DEF SetResult

\* Storing a final result advances the machine.
LEMMA SetFinalAdvances ==
  ASSUME NEW m, IsMachine(m), NEW p, LiveIn(m.stack, p), NEW r \in Results
  PROVE  Advanced(m, SetFinal(m, p, r))
  <1>1. PICK out : out = [Out(m, p) EXCEPT !.result = r, !.final = TRUE]
    OBVIOUS
  <1>2. out \in OutcomeType
    <2>1. Out(m, p) \in OutcomeType
      BY OutcomeAt
    <2> QED
      BY <1>1, <2>1 DEF OutcomeType
  <1> QED
    BY <1>1, <1>2, WithOutAdvances DEF SetFinal

\* Reporting a failure advances the machine.
LEMMA FailAdvances ==
  ASSUME NEW m, IsMachine(m), NEW p, LiveIn(m.stack, p), NEW f \in Failures
  PROVE  Advanced(m, Fail(m, p, f))
  <1>1. PICK out : out = [Out(m, p) EXCEPT !.reason = f.reason, !.result = "INVALID"]
    OBVIOUS
  <1>2. f.reason \in InvalidReasons
    BY DEF Failures, TypeFailure, FalseFailure, CompositionFailure,
           KeywordFailure, StringFailure, NoFailure, InvalidReasons
  <1>3. out \in OutcomeType
    <2>1. Out(m, p) \in OutcomeType
      BY OutcomeAt
    <2> QED
      BY <1>1, <1>2, <2>1 DEF OutcomeType, Results
  <1>4. PICK n : n = WithOut(m, p, out)
    OBVIOUS
  <1>5. Advanced(m, n)
    BY <1>3, <1>4, WithOutAdvances
  <1>6. PICK o : o = [n EXCEPT !.error = f.error]
    OBVIOUS
  <1>7. Advanced(n, o)
    BY <1>5, <1>6, ErrorAdvances DEF Advanced
  <1>8. Fail(m, p, f) = o
    BY <1>1, <1>4, <1>6 DEF Fail
  <1> QED
    BY <1>5, <1>7, <1>8, AdvancedTransitive

\* Reporting a final failure advances the machine.
LEMMA FailFinalAdvances ==
  ASSUME NEW m, IsMachine(m), NEW p, LiveIn(m.stack, p), NEW f \in Failures
  PROVE  Advanced(m, FailFinal(m, p, f))
  <1>1. PICK n : n = Fail(m, p, f)
    OBVIOUS
  <1>2. Advanced(m, n) /\ LiveIn(n.stack, p)
    BY <1>1, FailAdvances, AdvancedKeepsLive
  <1>3. Advanced(n, SetFinal(n, p, "INVALID"))
    BY <1>2, SetFinalAdvances DEF Advanced, Results
  <1> QED
    BY <1>1, <1>2, <1>3, AdvancedTransitive DEF FailFinal

\* Counting a member or an item advances the machine.
LEMMA CountedAdvances ==
  ASSUME NEW m, IsMachine(m), NEW p, LiveIn(m.stack, p)
  PROVE  Advanced(m, Counted(m, p))
  <1>1. PICK out : out = [Out(m, p) EXCEPT !.count = @ + 1]
    OBVIOUS
  <1>2. out \in OutcomeType
    BY <1>1, OutcomeAt DEF OutcomeType
  <1> QED
    BY <1>1, <1>2, WithOutAdvances DEF Counted

\* Checking the composition of a position advances the machine.
LEMMA CompositionCheckAdvances ==
  ASSUME NEW m, IsMachine(m), NEW p, LiveIn(m.stack, p)
  PROVE  Advanced(m, CompositionCheck(m, p))
  <1>1. PICK n : n = CompositionPush(m, p)
    OBVIOUS
  <1>2. Advanced(m, n) /\ LiveIn(n.stack, p)
    BY <1>1, CompositionPushAdvances, AdvancedKeepsLive
  <1>3. Advanced(n, SetResult(n, p, "VALID"))
    BY <1>2, SetResultAdvances DEF Advanced, Results
  <1> QED
    BY <1>1, <1>2, <1>3, AdvancedTransitive DEF CompositionCheck

\* The check of a value ends in one of the failures of the code, or in none.
LEMMA ValueFailureKnown ==
  ASSUME NEW s, NEW out, NEW inst
  PROVE  ValueFailure(s, out, inst) \in Failures
  <1>1. CommonFailure(s, out, inst) \in Failures
    BY Zenon DEF CommonFailure, Failures
  <1>2. TypedFailure(s, inst) \in Failures
    BY DEF TypedFailure, Failures
  <1>3. FalseFailure \in Failures /\ NoFailure \in Failures
    BY DEF Failures
  <1> QED
    BY <1>1, <1>2, <1>3, Zenon DEF ValueFailure

\* Checking a value advances the machine.
LEMMA ValidateValueAdvances ==
  ASSUME NEW m, IsMachine(m), NEW p, LiveIn(m.stack, p), NEW inst
  PROVE  Advanced(m, ValidateValue(m, p, inst))
  <1>1. PICK f : f = ValueFailure(SchemaAt(m, p), Out(m, p), inst)
    OBVIOUS
  <1>2. Advanced(m, Fail(m, p, f))
    BY <1>1, ValueFailureKnown, FailAdvances
  <1>3. Advanced(m, ResetError(m))
    BY ErrorAdvances DEF ResetError
  <1>4. Advanced(m, m)
    BY AdvancedReflexive
  <1> QED
    BY <1>1, <1>2, <1>3, <1>4, Zenon DEF ValidateValue

\* Checking a property name advances the machine.
LEMMA ValidateNameAdvances ==
  ASSUME NEW m, IsMachine(m), NEW p, LiveIn(m.stack, p), NEW name
  PROVE  Advanced(m, ValidateName(m, p, name))
  BY FailAdvances, AdvancedReflexive DEF ValidateName, Failures

\* Propagation writes to the position, to its parent and to the error.
LEMMA PropagateAdvances ==
  ASSUME NEW m, IsMachine(m), NEW p, LiveIn(m.stack, p)
  PROVE  Advanced(m, Propagate(m, p))
  <1>1. PICK q : q = Pos(m, p).parent
    OBVIOUS
  <1>2. Advanced(m, m)
    BY AdvancedReflexive
  <1>3. CASE q = NoPos
    BY <1>1, <1>2, <1>3 DEF Propagate
  <1>4. CASE q # NoPos
    <2>1. LiveIn(m.stack, q)
      BY <1>1, <1>4, OutcomeAt
    <2>2. PICK r : r = Out(m, p).result
      OBVIOUS
    <2>3. r \in Results
      BY <2>2, OutcomeAt DEF OutcomeType
    <2>4. Advanced(m, SetFinal(m, q, r))
      BY <2>1, <2>3, SetFinalAdvances
    <2>5. Advanced(m, ResetError(m))
      BY ErrorAdvances DEF ResetError
    <2>6. ASSUME NEW out, \/ out = [Out(m, q) EXCEPT !.type_valid = TRUE]
                          \/ out = [Out(m, q) EXCEPT !.any_of_valid = TRUE]
                          \/ out = [Out(m, q) EXCEPT !.one_of_valid = TRUE]
          PROVE  Advanced(m, WithOut(m, q, out))
      <3>1. out \in OutcomeType
        <4>1. Out(m, q) \in OutcomeType
          BY <2>1, OutcomeAt
        <4> QED
          BY <2>6, <4>1 DEF OutcomeType
      <3> QED
        BY <2>1, <3>1, WithOutAdvances
    <2>7. PICK n : n = SetFinal(m, q, "INVALID")
      OBVIOUS
    <2>8. Advanced(m, n) /\ LiveIn(n.stack, p)
      BY <2>1, <2>7, SetFinalAdvances, AdvancedKeepsLive DEF Results
    <2>9. PICK out : out = [Out(n, p) EXCEPT !.reason = "COMPOSITION"]
      OBVIOUS
    <2>10. out \in OutcomeType
      BY <2>8, <2>9, OutcomeAt DEF Advanced, OutcomeType, InvalidReasons
    <2>11. PICK u : u = WithOut(n, p, out)
      OBVIOUS
    <2>12. Advanced(n, u)
      BY <2>8, <2>10, <2>11, WithOutAdvances DEF Advanced
    <2>13. PICK v : v = [u EXCEPT !.error = "COMPOSITION"]
      OBVIOUS
    <2>14. Advanced(u, v)
      BY <2>12, <2>13, ErrorAdvances DEF Advanced
    <2>15. Advanced(m, v)
      BY <2>8, <2>12, <2>14, AdvancedTransitive DEF Advanced
    <2>16. PropagateTo(m, p, q) \in
             {m, v, SetFinal(m, q, r), ResetError(m),
              WithOut(m, q, [Out(m, q) EXCEPT !.type_valid = TRUE]),
              WithOut(m, q, [Out(m, q) EXCEPT !.any_of_valid = TRUE]),
              WithOut(m, q, [Out(m, q) EXCEPT !.one_of_valid = TRUE])}
      <3>1. Pos(m, p).composition_type \in CompositionTypes
        BY OutcomeAt
      <3>2. r = Pos(m, p).out.result
        BY <2>2 DEF Out
      <3> QED
        BY <2>7, <2>9, <2>11, <2>13, <3>1, <3>2
        DEF PropagateTo, CompositionTypes
    <2>17. Advanced(m, PropagateTo(m, p, q))
      BY <1>2, <2>4, <2>5, <2>6, <2>15, <2>16
    <2> QED
      BY <1>1, <1>2, <1>4, <2>17 DEF Propagate
  <1> QED
    BY <1>3, <1>4

\* The first pass of object_start and array_start advances the machine.
LEMMA CheckStartAdvances ==
  ASSUME NEW m, IsMachine(m), NEW p, LiveIn(m.stack, p), NEW type
  PROVE  Advanced(m, CheckStart(m, p, type))
  BY CompositionCheckAdvances, FailAdvances DEF CheckStart, Failures

\* Pushing the schemas of a member's value advances the machine.
LEMMA PushMemberAdvances ==
  ASSUME NEW m, IsMachine(m), NEW p, LiveIn(m.stack, p)
  PROVE  Advanced(m, PushMember(m, p))
  <1>1. PICK id : id = Pos(m, p).value
    OBVIOUS
  <1>2. id \in Schemas /\ SchemaAt(m, p) = SchemaOf(id)
    BY <1>1, OutcomeAt DEF SchemaAt
  <1>3. MatchingSchemas(SchemaAt(m, p), Key) \in Seq(Schemas)
    BY <1>2, MatchingSchemasOfSchema
  <1>4. SchemaAt(m, p).additional \in Seq(Schemas)
    BY <1>2, SchemaLists
  <1>5. KeywordFailure \in Failures
    BY DEF Failures
  <1>6. /\ Advanced(m, PushBasics(m, MatchingSchemas(SchemaAt(m, p), Key), p))
        /\ Advanced(m, PushBasics(m, SchemaAt(m, p).additional, p))
    BY <1>3, <1>4, PushBasicsAdvances
  <1>7. Advanced(m, FailFinal(m, p, KeywordFailure))
    BY <1>5, FailFinalAdvances
  <1> QED
    BY <1>6, <1>7, Zenon DEF PushMember

\* The validation of a property name advances the machine.
LEMMA JudgeNameAdvances ==
  ASSUME NEW m, IsMachine(m), NEW p, LiveIn(m.stack, p)
  PROVE  Advanced(m, JudgeName(m, p))
  <1>1. PICK n : n = IF SchemaAt(m, p).type = "STRING"
                     THEN ValidateName(m, p, Key) ELSE m
    OBVIOUS
  <1>2. Advanced(m, m)
    BY AdvancedReflexive
  <1>3. Advanced(m, n) /\ LiveIn(n.stack, p)
    BY <1>1, <1>2, ValidateNameAdvances, AdvancedKeepsLive
  <1>4. Advanced(n, Propagate(n, p))
    BY <1>3, PropagateAdvances DEF Advanced
  <1>5. Advanced(m, Propagate(n, p))
    BY <1>3, <1>4, AdvancedTransitive
  <1> QED
    BY <1>1, <1>2, <1>5, Zenon DEF JudgeName

\* Pushing the schemas of an item advances the machine.
LEMMA PushItemAdvances ==
  ASSUME NEW m, IsMachine(m), NEW p, LiveIn(m.stack, p)
  PROVE  Advanced(m, PushItem(m, p))
  <1>1. PICK id : id = Pos(m, p).value
    OBVIOUS
  <1>2. id \in Schemas /\ SchemaAt(m, p) = SchemaOf(id)
    BY <1>1, OutcomeAt DEF SchemaAt
  <1>3. Out(m, p).count \in Nat
    BY OutcomeAt DEF OutcomeType
  <1>4. ItemSchemas(SchemaAt(m, p), Out(m, p).count) \in Seq(Schemas)
    BY <1>2, <1>3, ItemSchemasOfSchema
  <1>5. Advanced(m, PushBasics(m, ItemSchemas(SchemaAt(m, p), Out(m, p).count), p))
    BY <1>4, PushBasicsAdvances
  <1> QED
    BY <1>5, AdvancedReflexive DEF PushItem

\* The part of array_append for one position advances the machine.
LEMMA AppendItemAdvances ==
  ASSUME NEW m, IsMachine(m), NEW p, LiveIn(m.stack, p)
  PROVE  Advanced(m, AppendItem(m, p))
  <1>1. PICK n : n = FailFinal(m, p, KeywordFailure)
    OBVIOUS
  <1>2. Advanced(m, n) /\ LiveIn(n.stack, p)
    BY <1>1, FailFinalAdvances, AdvancedKeepsLive DEF Failures
  <1>3. Advanced(n, Propagate(n, p))
    BY <1>2, PropagateAdvances DEF Advanced
  <1>4. Advanced(m, Propagate(n, p))
    BY <1>2, <1>3, AdvancedTransitive
  <1>5. Advanced(m, PushItem(m, p)) /\ Advanced(m, m)
    BY PushItemAdvances, AdvancedReflexive
  <1> QED
    BY <1>1, <1>4, <1>5, Zenon DEF AppendItem

\* Pushing the schemas of the dependencies advances the machine.
LEMMA PreValueAdvances ==
  ASSUME NEW m, IsMachine(m), NEW p, LiveIn(m.stack, p)
  PROVE  Advanced(m, PreValue(m, p))
  <1>1. PICK id : id = Pos(m, p).value
    OBVIOUS
  <1>2. PICK s : s = SchemaAt(m, p)
    OBVIOUS
  <1>3. id \in Schemas /\ s = SchemaOf(id)
    BY <1>1, <1>2, OutcomeAt DEF SchemaAt
  <1>4. PICK deps : deps = Picked(s.dependencies,
                     {i \in DOMAIN s.dependencies : s.dependencies[i].schema # <<>>})
    OBVIOUS
  <1>5. [i \in DOMAIN deps |-> deps[i].schema[1]] \in Seq(Schemas)
    BY <1>3, <1>4, DependencySchemas
  <1>6. Advanced(m, PushBasics(m, [i \in DOMAIN deps |-> deps[i].schema[1]], p))
    BY <1>5, PushBasicsAdvances
  <1>7. PreValue(m, p) = IF s.type # "OBJECT" THEN m
                         ELSE PushBasics(m, [i \in DOMAIN deps |-> deps[i].schema[1]], p)
    BY <1>2, <1>4 DEF PreValue
  <1> QED
    BY <1>6, <1>7, AdvancedReflexive
-----------------------------------------------------------------------------
(***************************************************************************)
(* Levels: how many separators lie at or below a position.  The positions  *)
(* of one layer, the separator that opens it included, have one level.     *)
(***************************************************************************)
Level(s, i) == Cardinality(SeparatorsTo(s, i))

\* A live position's depth is the number of separators below it.
LEMMA LiveLevel ==
  ASSUME NEW s, StackOK(s), NEW p, LiveIn(s, p)
  PROVE  s.positions[p].depth = Level(s, p)
  BY DEF StackOK, WellFormed, DepthsExact, LiveIn, Level

\* From the last separator on the level is the depth of the stack.
LEMMA TopLevel ==
  ASSUME NEW s, StackOK(s), NEW i \in 1 .. Size(s), s.last_separator <= i
  PROVE  Level(s, i) = s.depth
  <1>1. /\ Size(s) \in Nat /\ s.last_separator \in 0 .. Size(s)
        /\ s.depth = Cardinality(SeparatorsTo(s, Size(s)))
        /\ IsLastSeparator(s, s.last_separator, Size(s))
    BY StackFields
  <1>2. \A k \in i + 1 .. Size(s) : ~ IsSentinel(s.positions[k])
    BY <1>1 DEF IsLastSeparator
  <1>3. SeparatorsTo(s, i) = SeparatorsTo(s, Size(s))
    BY <1>1, <1>2 DEF SeparatorsTo
  <1> QED
    BY <1>1, <1>3 DEF Level

\* The separator of the top layer and the end of the layer below it.
LEMMA LastSeparator ==
  ASSUME NEW s, StackOK(s), s.last_separator # NoPos, NEW below,
         below = s.positions[s.last_separator].parent
  PROVE  /\ s.last_separator \in 1 .. Size(s)
         /\ IsSentinel(s.positions[s.last_separator])
         /\ below \in 0 .. s.last_separator - 1
         /\ IsLastSeparator(s, below, s.last_separator - 1)
  <1>1. /\ Size(s) \in Nat /\ s.last_separator \in 0 .. Size(s)
        /\ IsLastSeparator(s, s.last_separator, Size(s))
    BY StackFields
  <1>2. s.last_separator \in 1 .. Size(s) /\ IsSentinel(s.positions[s.last_separator])
    BY <1>1 DEF IsLastSeparator, NoPos
  <1>3. IsLastSeparator(s, below, s.last_separator - 1)
    BY <1>2 DEF StackOK, WellFormed, ChainExact
  <1>4. below \in 0 .. s.last_separator - 1
    BY <1>1, <1>2, <1>3 DEF IsLastSeparator, NoPos
  <1> QED
    BY <1>2, <1>3, <1>4

\* The positions between the last two separators are one level down.
LEMMA BelowLevel ==
  ASSUME NEW s, StackOK(s), s.last_separator # NoPos,
         NEW i \in 1 .. s.last_separator - 1,
         s.positions[s.last_separator].parent <= i
  PROVE  Level(s, i) = s.depth - 1
  <1>1. PICK l : l = s.last_separator
    OBVIOUS
  <1>2. PICK below : below = s.positions[l].parent
    OBVIOUS
  <1>3. /\ l \in 1 .. Size(s) /\ IsSentinel(s.positions[l])
        /\ below \in 0 .. l - 1 /\ IsLastSeparator(s, below, l - 1)
    BY <1>1, <1>2, LastSeparator
  <1>4. Size(s) \in Nat /\ l - 1 \in Nat /\ (l - 1) + 1 = l /\ i \in Nat
    BY <1>1, <1>3, StackFields
  <1>5. Level(s, l) = s.depth
    BY <1>1, <1>3, <1>4, TopLevel
  <1>6. \A k \in i + 1 .. l - 1 : ~ IsSentinel(s.positions[k])
    BY <1>1, <1>2, <1>3, <1>4 DEF IsLastSeparator
  <1>7. SeparatorsTo(s, i) = SeparatorsTo(s, l - 1)
    BY <1>1, <1>4, <1>6 DEF SeparatorsTo
  <1>8. Cardinality(SeparatorsTo(s, l - 1)) \in Nat
    BY <1>4, SeparatorsFinite
  <1>9. Cardinality(SeparatorsTo(s, (l - 1) + 1))
          = Cardinality(SeparatorsTo(s, l - 1)) + 1
    <2>1. IsSentinel(s.positions[(l - 1) + 1])
      BY <1>3, <1>4
    <2> QED
      BY <2>1, <1>4, SeparatorsStep
  <1> QED
    BY <1>4, <1>5, <1>7, <1>8, <1>9 DEF Level

\* Below a position that is no separator the level is the same.
LEMMA LevelBelow ==
  ASSUME NEW s, NEW i \in Nat, i > 0, ~ IsSentinel(s.positions[i])
  PROVE  Level(s, i - 1) = Level(s, i)
  <1>1. i - 1 \in Nat /\ (i - 1) + 1 = i
    OBVIOUS
  <1>2. ~ IsSentinel(s.positions[(i - 1) + 1])
    BY <1>1
  <1>3. SeparatorsTo(s, (i - 1) + 1) = SeparatorsTo(s, i - 1)
    BY <1>1, <1>2, SeparatorsStep
  <1> QED
    BY <1>1, <1>3 DEF Level

\* No position is above the depth of the stack.
LEMMA LevelBounded ==
  ASSUME NEW s, StackOK(s), NEW i \in 0 .. Size(s)
  PROVE  Level(s, i) \in 0 .. s.depth
  <1>1. Size(s) \in Nat /\ s.depth = Cardinality(SeparatorsTo(s, Size(s)))
    BY StackFields
  <1>2. SeparatorsTo(s, i) \in SUBSET SeparatorsTo(s, Size(s))
    BY <1>1 DEF SeparatorsTo
  <1>3. IsFiniteSet(SeparatorsTo(s, Size(s)))
    BY <1>1, SeparatorsFinite
  <1>4. Cardinality(SeparatorsTo(s, i)) <= Cardinality(SeparatorsTo(s, Size(s)))
    BY <1>2, <1>3, FS_Subset
  <1>5. Cardinality(SeparatorsTo(s, i)) \in Nat
    BY <1>1, SeparatorsFinite
  <1> QED
    BY <1>1, <1>4, <1>5 DEF Level
-----------------------------------------------------------------------------
(***************************************************************************)
(* What a step of the stack leaves in place: the positions up to a level.  *)
(***************************************************************************)
LevelsKept(s, t, d) ==
  \A i \in 1 .. Size(s) :
    Level(s, i) <= d =>
      /\ i \in 1 .. Size(t)
      /\ Level(t, i) = Level(s, i)
      /\ IsSentinel(t.positions[i]) <=> IsSentinel(s.positions[i])

\* A stack that only grows on top keeps the levels it has.
LEMMA SameToKeepsLevels ==
  ASSUME NEW s, NEW t, StackOK(s), Size(t) \in Nat, Size(s) <= Size(t),
         SameTo(s, t, Size(s)), NEW d
  PROVE  LevelsKept(s, t, d)
  <1>1. Size(s) \in Nat
    BY StackFields
  <1> SUFFICES ASSUME NEW i \in 1 .. Size(s)
               PROVE  /\ i \in 1 .. Size(t)
                      /\ Level(t, i) = Level(s, i)
                      /\ IsSentinel(t.positions[i]) <=> IsSentinel(s.positions[i])
    BY DEF LevelsKept
  <1>2. i \in Nat /\ SameTo(s, t, i)
    BY <1>1 DEF SameTo
  <1>3. SeparatorsTo(s, i) = SeparatorsTo(t, i)
    BY <1>2, SameSeparators
  <1>4. IsSentinel(t.positions[i]) <=> IsSentinel(s.positions[i])
    BY DEF SameTo, SameShape, IsSentinel
  <1> QED
    BY <1>1, <1>3, <1>4 DEF Level

\* So does one that advances.
LEMMA GrownKeepsLevels ==
  ASSUME NEW s, NEW t, StackOK(s), Grown(s, t), NEW d
  PROVE  LevelsKept(s, t, d)
  <1>1. Size(t) \in Nat /\ Size(s) <= Size(t)
    BY StackFields DEF Grown
  <1>2. SameTo(s, t, Size(s))
    BY DEF Grown, KeptTo, Kept, SameTo
  <1> QED
    BY <1>1, <1>2, SameToKeepsLevels

\* layer_reset_positions.
LEMMA ResetGrown ==
  ASSUME NEW s, StackOK(s), NEW t, t = LayerResetPositions(s)
  PROVE  Grown(s, t)
  <1>1. /\ t \in StackType(Schemas) /\ WellFormed(t) /\ Size(t) = Size(s)
        /\ KeptTo(s, t, Size(s)) /\ t.last_separator = s.last_separator
        /\ t.depth = s.depth
    BY LayerResetKeeps DEF StackOK
  <1>2. \A p \in 1 .. Size(t) : LiveIn(t, p) => t.positions[p].value \in Schemas
    BY <1>1 DEF StackOK, LiveIn, KeptTo, Kept, SameShape, IsSentinel
  <1>3. Size(s) <= Size(t)
    BY <1>1, StackFields
  <1> QED
    BY <1>1, <1>2, <1>3 DEF Grown, StackOK

\* push_separator.
LEMMA OpenedLayer ==
  ASSUME NEW s, StackOK(s), NEW t, t = PushSeparator(s), NEW d
  PROVE  /\ StackOK(t)
         /\ LevelsKept(s, t, d)
         /\ t.depth = s.depth + 1
         /\ Size(t) = Size(s) + 1
         /\ t.last_separator = Size(s) + 1
         /\ t.positions[t.last_separator].parent = s.last_separator
  <1>1. Size(s) \in Nat
    BY StackFields
  <1>2. /\ t \in StackType(Schemas) /\ WellFormed(t)
        /\ Pushed(s, t, Separator(s))
        /\ t.last_separator = Size(s) + 1 /\ t.depth = s.depth + 1
    BY PushSeparatorKeeps DEF StackOK
  <1>3. /\ Size(t) = Size(s) + 1
        /\ \A i \in 1 .. Size(s) : t.positions[i] = s.positions[i]
        /\ t.positions[Size(s) + 1] = Separator(s)
    BY <1>2 DEF Pushed, AgreeTo
  <1>4. IsSentinel(Separator(s)) /\ Separator(s).parent = s.last_separator
    BY DEF IsSentinel, Separator
  <1>5. SameTo(s, t, Size(s))
    BY <1>3 DEF SameTo, SameShape
  <1>6. LevelsKept(s, t, d)
    BY <1>1, <1>3, <1>5, SameToKeepsLevels
  <1>7. ASSUME NEW p \in 1 .. Size(t), LiveIn(t, p)
        PROVE  t.positions[p].value \in Schemas
    <2>1. p # Size(s) + 1
      BY <1>3, <1>4, <1>7 DEF LiveIn
    <2>2. p \in 1 .. Size(s)
      BY <2>1, <1>1, <1>3
    <2> QED
      BY <2>2, <1>3, <1>7 DEF StackOK, LiveIn
  <1> QED
    BY <1>2, <1>3, <1>4, <1>6, <1>7 DEF StackOK

\* layer_remove while a layer is open.
LEMMA RemovedLayer ==
  ASSUME NEW s, StackOK(s), s.depth > 0, NEW t, t = LayerRemove(s)
  PROVE  /\ StackOK(t)
         /\ LevelsKept(s, t, s.depth - 1)
         /\ t.depth = s.depth - 1
         /\ s.last_separator # NoPos
         /\ Size(t) = s.last_separator - 1
         /\ t.last_separator = s.positions[s.last_separator].parent
  <1>1. /\ Size(s) \in Nat /\ s.last_separator \in 0 .. Size(s) /\ s.depth \in Nat
        /\ s.depth = Cardinality(SeparatorsTo(s, Size(s)))
        /\ IsLastSeparator(s, s.last_separator, Size(s))
    BY StackFields
  <1>2. s.last_separator # NoPos
    <2> SUFFICES ASSUME s.last_separator = NoPos PROVE FALSE
      OBVIOUS
    <2>1. SeparatorsTo(s, Size(s)) = {}
      BY <1>1 DEF IsLastSeparator, NoPos, SeparatorsTo
    <2>2. Cardinality({}) = 0
      BY FS_EmptySet
    <2> QED
      BY <2>1, <2>2, <1>1
  <1>3. /\ t \in StackType(Schemas) /\ WellFormed(t)
        /\ s.last_separator \in 1 .. Size(s)
        /\ Size(t) = s.last_separator - 1
        /\ AgreeTo(s, t, Size(t))
        /\ t.depth = s.depth - 1
    BY <1>2, LayerRemoveKeeps DEF StackOK
  <1>4. t.last_separator = s.positions[s.last_separator].parent
    BY <1>2 DEF LayerRemove
  <1>5. \A i \in 1 .. Size(t) : t.positions[i] = s.positions[i]
    BY <1>3 DEF AgreeTo
  <1>6. ASSUME NEW i \in 1 .. Size(s), Level(s, i) <= s.depth - 1
        PROVE  /\ i \in 1 .. Size(t)
               /\ Level(t, i) = Level(s, i)
               /\ IsSentinel(t.positions[i]) <=> IsSentinel(s.positions[i])
    <2>1. ~ s.last_separator <= i
      BY <1>1, <1>6, TopLevel
    <2>2. i \in 1 .. Size(t) /\ i \in Nat
      BY <2>1, <1>1, <1>3
    <2>3. \A k \in 1 .. i : k \in 1 .. Size(t)
      BY <2>2, <1>3
    <2>4. SameTo(s, t, i)
      BY <2>3, <1>5 DEF SameTo, SameShape
    <2>5. SeparatorsTo(s, i) = SeparatorsTo(t, i)
      BY <2>2, <2>4, SameSeparators
    <2> QED
      BY <2>2, <2>5, <1>5 DEF Level
  <1>7. ASSUME NEW p \in 1 .. Size(t), LiveIn(t, p)
        PROVE  t.positions[p].value \in Schemas
    <2>1. p \in 1 .. Size(s)
      BY <1>1, <1>3
    <2> QED
      BY <2>1, <1>5, <1>7 DEF StackOK, LiveIn
  <1> QED
    BY <1>2, <1>3, <1>4, <1>6, <1>7 DEF StackOK, LevelsKept

\* layer_remove when none is.
LEMMA RemovedBottom ==
  ASSUME NEW s, StackOK(s), s.depth = 0, NEW t, t = LayerRemove(s)
  PROVE  t = EmptyStack
  <1>1. /\ Size(s) \in Nat /\ s.last_separator \in 0 .. Size(s)
        /\ s.depth = Cardinality(SeparatorsTo(s, Size(s)))
        /\ IsLastSeparator(s, s.last_separator, Size(s))
    BY StackFields
  <1>2. s.last_separator = NoPos
    <2> SUFFICES ASSUME s.last_separator # NoPos PROVE FALSE
      OBVIOUS
    <2>1. s.last_separator \in SeparatorsTo(s, Size(s))
      BY <1>1 DEF IsLastSeparator, SeparatorsTo
    <2>2. IsFiniteSet(SeparatorsTo(s, Size(s)))
      BY <1>1, SeparatorsFinite
    <2> QED
      BY <2>1, <2>2, <1>1, FS_EmptySet
  <1> QED
    BY <1>2, LayerRemoveKeeps DEF StackOK

-----------------------------------------------------------------------------
(***************************************************************************)
(* The layer iterators.                                                    *)
(***************************************************************************)

\* A forward iteration of the top layer starts in it, or at its separator when
\* the layer is empty.
LEMMA ForwardStarts ==
  ASSUME NEW s, StackOK(s), Size(s) > 0, NEW at, at = ForwardStart(s)
  PROVE  /\ at = [index |-> at.index, finished |-> at.finished]
         /\ at.index \in 1 .. Size(s)
         /\ s.last_separator <= at.index
  <1>1. /\ Size(s) \in Nat /\ s.last_separator \in 0 .. Size(s)
        /\ IsLastSeparator(s, s.last_separator, Size(s))
    BY StackFields
  <1>2. PICK top : top = Size(s)
    OBVIOUS
  <1>3. PICK a : a = s.positions[top].layer_start
    OBVIOUS
  <1>4. top \in 1 .. Size(s)
    BY <1>1, <1>2
  <1>5. a \in Nat \ {0}
    BY <1>3, <1>4, PositionFields DEF StackOK
  <1>6. at.index = a /\ at = [index |-> at.index, finished |-> at.finished]
    BY <1>2, <1>3 DEF ForwardStart
  <1>7. CASE IsSentinel(s.positions[top])
    <2>1. a = top
      BY <1>3, <1>4, <1>7 DEF StackOK, WellFormed, LayerStartsExact
    <2> QED
      BY <2>1, <1>1, <1>2, <1>4, <1>6
  <1>8. CASE ~ IsSentinel(s.positions[top])
    <2>1. IsLastSeparator(s, a - 1, top)
      BY <1>3, <1>4, <1>8 DEF StackOK, WellFormed, LayerStartsExact
    <2>2. a - 1 = s.last_separator
      BY <2>1, <1>1, <1>2, <1>5 DEF IsLastSeparator, NoPos
    <2>3. s.last_separator # top
      BY <1>1, <1>2, <1>4, <1>8 DEF IsLastSeparator, NoPos
    <2> QED
      BY <2>2, <2>3, <1>1, <1>2, <1>5, <1>6
  <1> QED
    BY <1>7, <1>8

\* The position a forward iterator returns is live.
LEMMA ForwardReturns ==
  ASSUME NEW s, StackOK(s), NEW at, at.index \in Nat, at.index > 0,
         NEW p, p = ForwardNext(s, at), p # NoPos
  PROVE  p = at.index /\ LiveIn(s, p)
  BY StackFields DEF ForwardNext, LiveIn

\* A reverse iterator that has not finished is one above a position of its
\* level.
Reversing(s, at, level) ==
  \/ at.finished
  \/ /\ at.index \in Nat
     /\ at.index - 1 \in 1 .. Size(s)
     /\ Level(s, at.index - 1) = level

\* A reverse iteration starts at the level of the top layer.
LEMMA ReverseStarts ==
  ASSUME NEW s, StackOK(s), Size(s) > 0, NEW at, at = ReverseStart(s)
  PROVE  /\ at = [index |-> at.index, finished |-> at.finished]
         /\ Reversing(s, at, s.depth)
  <1>1. Size(s) \in Nat /\ s.last_separator \in 0 .. Size(s)
    BY StackFields
  <1>2. at = [index |-> Size(s) + 1, finished |-> FALSE]
    BY DEF ReverseStart
  <1>3. (Size(s) + 1) - 1 = Size(s) /\ Size(s) \in 1 .. Size(s)
    BY <1>1
  <1>4. Level(s, Size(s)) = s.depth
    BY <1>1, <1>3, TopLevel
  <1> QED
    BY <1>1, <1>2, <1>3, <1>4 DEF Reversing

\* The position a reverse iterator returns is live and of its level.
LEMMA ReverseReturns ==
  ASSUME NEW s, StackOK(s), NEW level, NEW at, Reversing(s, at, level),
         NEW p, p = ReverseNext(s, at), p # NoPos
  PROVE  /\ LiveIn(s, p)
         /\ Level(s, p) = level
         /\ p = at.index - 1 /\ at.index \in Nat /\ ~ at.finished
  BY DEF ReverseNext, LiveIn, Reversing

\* A reverse iterator stays at its level, or has finished.
LEMMA ReverseSteps ==
  ASSUME NEW s, StackOK(s), NEW level, NEW at, Reversing(s, at, level),
         ReverseNext(s, at) # NoPos, NEW new, new = ReverseStep(s, at)
  PROVE  /\ new = [index |-> new.index, finished |-> new.finished]
         /\ Reversing(s, new, level)
  <1>1. PICK p : p = ReverseNext(s, at)
    OBVIOUS
  <1>2. /\ LiveIn(s, p) /\ Level(s, p) = level
        /\ p = at.index - 1 /\ at.index \in Nat
    BY <1>1, ReverseReturns
  <1>3. new = [index |-> p, finished |-> (IsSentinel(s.positions[p]) \/ at.index = 2)]
    BY <1>2 DEF ReverseStep
  <1>4. CASE at.index = 2
    <2>1. new.finished = (IsSentinel(s.positions[p]) \/ at.index = 2)
      BY <1>3
    <2>2. new.finished
      BY <2>1, <1>4, Zenon
    <2>3. new = [index |-> new.index, finished |-> new.finished]
      BY <1>3
    <2> QED
      BY <2>2, <2>3 DEF Reversing
  <1>5. CASE at.index # 2
    <2>1. p \in Nat /\ p > 0 /\ p - 1 \in 1 .. Size(s)
      BY <1>2, <1>5, StackFields DEF LiveIn
    <2>2. Level(s, p - 1) = level
      BY <2>1, <1>2, LevelBelow DEF LiveIn
    <2> QED
      BY <2>1, <2>2, <1>3 DEF Reversing
  <1> QED
    BY <1>4, <1>5

\* A reverse iterator survives what happens above its level.
LEMMA ReversingKept ==
  ASSUME NEW s, NEW t, NEW d \in Int, LevelsKept(s, t, d),
         NEW level \in Int, level <= d, NEW at, Reversing(s, at, level)
  PROVE  Reversing(t, at, level)
  BY DEF Reversing, LevelsKept

\* A live position survives what happens above its level.
LEMMA LiveKept ==
  ASSUME NEW s, NEW t, NEW d \in Int, LevelsKept(s, t, d),
         NEW p, LiveIn(s, p), NEW level \in Int, Level(s, p) = level, level <= d
  PROVE  LiveIn(t, p) /\ Level(t, p) = level
  BY DEF LiveIn, LevelsKept
-----------------------------------------------------------------------------
(***************************************************************************)
(* The recursion of validate_instance and the loops inside a validation.   *)
(***************************************************************************)
IsList(f) == f \in Seq(Range(f))

\* The length and the domain of a list.
LEMMA ListLength ==
  ASSUME NEW f, IsList(f)
  PROVE  Len(f) \in Nat /\ DOMAIN f = 1 .. Len(f)
  BY LenProperties DEF IsList

\* A sequence of elements of any set is a list.
LEMMA ListOf ==
  ASSUME NEW S, NEW f \in Seq(S)
  PROVE  IsList(f)
  <1>1. Len(f) \in Nat /\ DOMAIN f = 1 .. Len(f) /\ f \in [1 .. Len(f) -> S]
    BY LenProperties
  <1>2. f \in [1 .. Len(f) -> Range(f)]
    BY <1>1 DEF Range
  <1> QED
    BY <1>1, <1>2 DEF IsList

Added(f, e) == Append(f, e)

\* One element more.
LEMMA ListAppend ==
  ASSUME NEW f, IsList(f), NEW e
  PROVE  /\ IsList(Append(f, e))
         /\ Len(Append(f, e)) = Len(f) + 1
         /\ \A i \in 1 .. Len(f) : Append(f, e)[i] = f[i]
         /\ Append(f, e)[Len(f) + 1] = e
  <1> DEFINE S == Range(f) \cup {e}
  <1>1. f \in Seq(S)
    BY SeqMonotonic DEF IsList
  <1>2. e \in S
    OBVIOUS
  <1> HIDE DEF S
  <1>3. /\ Append(f, e) \in Seq(S) /\ Len(Append(f, e)) = Len(f) + 1
        /\ \A i \in 1 .. Len(f) : Append(f, e)[i] = f[i]
        /\ Append(f, e)[Len(f) + 1] = e
    BY <1>1, <1>2, AppendProperties
  <1> QED
    BY <1>3, ListOf

Replaced(f, n, e) == [f EXCEPT ![n] = e]

\* One element replaced.
LEMMA ListReplaced ==
  ASSUME NEW f, IsList(f), NEW n \in 1 .. Len(f), NEW e,
         NEW g, g = Replaced(f, n, e)
  PROVE  /\ IsList(g)
         /\ Len(g) = Len(f)
         /\ \A i \in 1 .. Len(f) : g[i] = IF i = n THEN e ELSE f[i]
  <1> DEFINE S == Range(f) \cup {e}
  <1>1. f \in Seq(S)
    BY SeqMonotonic DEF IsList
  <1>2. e \in S
    OBVIOUS
  <1> HIDE DEF S
  <1>3. /\ [f EXCEPT ![n] = e] \in Seq(S) /\ Len([f EXCEPT ![n] = e]) = Len(f)
        /\ \A i \in 1 .. Len(f) :
             [f EXCEPT ![n] = e][i] = IF i = n THEN e ELSE f[i]
    BY <1>1, <1>2, ExceptSeq
  <1>4. g = [f EXCEPT ![n] = e]
    BY DEF Replaced
  <1>5. IsList([f EXCEPT ![n] = e])
    BY <1>3, ListOf
  <1> QED
    BY <1>3, <1>4, <1>5

Cut(f) == SubSeq(f, 1, Len(f) - 1)

\* The last element cut off.
LEMMA ListCut ==
  ASSUME NEW f, IsList(f), Len(f) > 0, NEW g, g = Cut(f)
  PROVE  /\ IsList(g)
         /\ Len(g) = Len(f) - 1
         /\ \A i \in 1 .. Len(f) - 1 : g[i] = f[i]
  <1>1. Len(f) \in Nat /\ DOMAIN f = 1 .. Len(f)
    BY ListLength
  <1>2. \A i \in 1 .. Len(f) - 1 : f[i] \in Range(f)
    BY <1>1 DEF Range
  <1>3. PICK n : n = Len(f) - 1
    OBVIOUS
  <1>4. n \in Nat /\ 1 \in Int
    BY <1>1, <1>3
  <1>5. /\ SubSeq(f, 1, n) \in Seq(Range(f))
        /\ Len(SubSeq(f, 1, n)) = IF 1 <= n THEN n - 1 + 1 ELSE 0
        /\ \A i \in 1 .. n - 1 + 1 : SubSeq(f, 1, n)[i] = f[1 + i - 1]
    BY <1>2, <1>3, <1>4, SubSeqProperties
  <1>6. g \in Seq(Range(f)) /\ Len(g) = n
    BY <1>3, <1>4, <1>5 DEF Cut
  <1>7. \A i \in 1 .. n : 1 + i - 1 = i /\ i \in 1 .. n - 1 + 1
    BY <1>4
  <1>8. \A i \in 1 .. n : g[i] = f[i]
    BY <1>3, <1>5, <1>7 DEF Cut
  <1> QED
    BY <1>3, <1>6, <1>8, ListOf

IsCall(c) ==
  /\ c = [pos |-> c.pos, top |-> c.top, item |-> c.item, inst |-> c.inst,
          valid |-> c.valid, at |-> c.at]
  /\ c.at = [index |-> c.at.index, finished |-> c.at.finished]

\* Loop k was called for a live position at the level of the value that is
\* walked (k = 1) or of the layer of the loop around it, and that loop goes on
\* with the position below.
CallsOK(s, cs, around) ==
  /\ IsList(cs)
  /\ \A k \in 1 .. Len(cs) :
       /\ IsCall(cs[k])
       /\ LiveIn(s, cs[k].pos)
       /\ Level(s, cs[k].pos) = around - 1 + k
       /\ k < Len(cs) => Reversing(s, cs[k].at, around + k)

\* No loop is inside a validation.
LEMMA NoCalls ==
  ASSUME NEW s, NEW around
  PROVE  CallsOK(s, <<>>, around)
  <1>1. <<>> \in Seq({}) /\ Len(<<>>) = 0
    BY EmptySeq
  <1>2. IsList(<<>>)
    BY <1>1, ListOf
  <1> QED
    BY <1>1, <1>2 DEF CallsOK

\* The loops survive what happens above the positions they were called for.
LEMMA CallsKept ==
  ASSUME NEW s, NEW t, NEW cs, NEW around \in Int, CallsOK(s, cs, around),
         NEW d \in Int, around + Len(cs) - 1 <= d, LevelsKept(s, t, d)
  PROVE  CallsOK(t, cs, around)
  <1>1. Len(cs) \in Nat
    BY ListLength DEF CallsOK
  <1>2. ASSUME NEW k \in 1 .. Len(cs)
        PROVE  /\ IsCall(cs[k])
               /\ LiveIn(t, cs[k].pos)
               /\ Level(t, cs[k].pos) = around - 1 + k
               /\ k < Len(cs) => Reversing(t, cs[k].at, around + k)
    <2>1. around - 1 + k \in Int /\ around - 1 + k <= d
      BY <1>1
    <2>2. k < Len(cs) => around + k \in Int /\ around + k <= d
      BY <1>1
    <2>3. LiveIn(t, cs[k].pos) /\ Level(t, cs[k].pos) = around - 1 + k
      BY <2>1, LiveKept DEF CallsOK
    <2>4. k < Len(cs) => Reversing(t, cs[k].at, around + k)
      BY <2>2, ReversingKept DEF CallsOK
    <2> QED
      BY <2>3, <2>4 DEF CallsOK
  <1> QED
    BY <1>2 DEF CallsOK

\* The innermost loop goes on.
LEMMA CallReplaced ==
  ASSUME NEW s, NEW cs, NEW around, CallsOK(s, cs, around), Len(cs) > 0,
         NEW c, IsCall(c), c.pos = cs[Len(cs)].pos,
         NEW new, new = Replaced(cs, Len(cs), c)
  PROVE  /\ CallsOK(s, new, around)
         /\ Len(new) = Len(cs) /\ new[Len(new)] = c
  <1>1. Len(cs) \in Nat /\ Len(cs) \in 1 .. Len(cs) /\ IsList(cs)
    BY ListLength DEF CallsOK
  <1>2. /\ IsList(new) /\ Len(new) = Len(cs)
        /\ \A i \in 1 .. Len(cs) : new[i] = IF i = Len(cs) THEN c ELSE cs[i]
    BY <1>1, ListReplaced
  <1>3. \A k \in 1 .. Len(cs) : new[k].pos = cs[k].pos /\ IsCall(new[k])
    BY <1>1, <1>2 DEF CallsOK
  <1>4. \A k \in 1 .. Len(cs) : k < Len(cs) => new[k] = cs[k]
    <2>1. \A k \in 1 .. Len(cs) : k < Len(cs) => k # Len(cs)
      BY <1>1
    <2> QED
      BY <2>1, <1>2
  <1> QED
    BY <1>1, <1>2, <1>3, <1>4 DEF CallsOK

\* A loop is called for a position of the level the innermost one iterates.
LEMMA CallPushed ==
  ASSUME NEW s, NEW cs, NEW around \in Int, CallsOK(s, cs, around),
         Len(cs) > 0 => Reversing(s, cs[Len(cs)].at, around + Len(cs)),
         NEW c, IsCall(c), LiveIn(s, c.pos), Level(s, c.pos) = around + Len(cs),
         NEW new, new = Added(cs, c)
  PROVE  /\ CallsOK(s, new, around)
         /\ Len(new) = Len(cs) + 1 /\ new[Len(new)] = c
  <1>1. Len(cs) \in Nat /\ IsList(cs)
    BY ListLength DEF CallsOK
  <1>2. /\ IsList(new) /\ Len(new) = Len(cs) + 1
        /\ \A i \in 1 .. Len(cs) : new[i] = cs[i]
        /\ new[Len(cs) + 1] = c
    <2>1. IsList(cs) /\ new = Append(cs, c)
      BY <1>1 DEF Added
    <2> HIDE DEF IsList
    <2> QED
      BY <2>1, ListAppend
  <1>3. ASSUME NEW k \in 1 .. Len(new)
        PROVE  /\ IsCall(new[k])
               /\ LiveIn(s, new[k].pos)
               /\ Level(s, new[k].pos) = around - 1 + k
               /\ k < Len(new) => Reversing(s, new[k].at, around + k)
    <2>1. CASE k = Len(cs) + 1
      <3>1. new[k] = c /\ around - 1 + k = around + Len(cs) /\ ~ k < Len(new)
        BY <2>1, <1>1, <1>2
      <3> QED
        BY <3>1
    <2>2. CASE k \in 1 .. Len(cs) - 1
      <3>1. k \in 1 .. Len(cs) /\ new[k] = cs[k] /\ k < Len(cs)
        BY <2>2, <1>1, <1>2
      <3> QED
        BY <3>1 DEF CallsOK
    <2>3. CASE k = Len(cs)
      <3>1. k \in 1 .. Len(cs) /\ new[k] = cs[k] /\ Len(cs) > 0
        BY <2>3, <1>1, <1>2
      <3>2. Reversing(s, new[k].at, around + k)
        BY <2>3, <3>1
      <3> QED
        BY <3>1, <3>2 DEF CallsOK
    <2> QED
      BY <2>1, <2>2, <2>3, <1>1, <1>2
  <1> QED
    BY <1>2, <1>3 DEF CallsOK

\* The innermost loop returns, and the one around it goes on.
LEMMA CallPopped ==
  ASSUME NEW s, NEW cs, NEW around \in Int, CallsOK(s, cs, around), Len(cs) > 0,
         NEW new, new = Cut(cs)
  PROVE  /\ CallsOK(s, new, around)
         /\ Len(new) = Len(cs) - 1
         /\ Len(new) > 0 =>
              Reversing(s, new[Len(new)].at, around + Len(new))
  <1>1. Len(cs) \in Nat /\ IsList(cs)
    BY ListLength DEF CallsOK
  <1>2. /\ IsList(new) /\ Len(new) = Len(cs) - 1
        /\ \A i \in 1 .. Len(cs) - 1 : new[i] = cs[i]
    BY <1>1, ListCut
  <1>3. \A k \in 1 .. Len(new) : k \in 1 .. Len(cs) /\ new[k] = cs[k] /\ k < Len(cs)
    BY <1>1, <1>2
  <1>4. CallsOK(s, new, around)
    BY <1>2, <1>3 DEF CallsOK
  <1>5. Len(new) > 0 => Len(new) \in 1 .. Len(new)
    BY <1>1, <1>2
  <1>6. Len(new) > 0 => Reversing(s, new[Len(new)].at, around + Len(new))
    BY <1>3, <1>5 DEF CallsOK
  <1> QED
    BY <1>2, <1>4, <1>6

-----------------------------------------------------------------------------
(***************************************************************************)
(* The inductive invariant, over the values the walk is made of.           *)
(***************************************************************************)
ValuePhases == {"enter", "object_start", "array_start", "array_propagate",
                "append", "value_check", "value", "value_validate",
                "names_reopen"}
NamesPhases == {"names_check", "names_validate", "names_reopen", "names_result"}
ContainsPhases == {"contains_push", "contains_check", "contains_item",
                   "contains_validate", "contains_remove", "contains_return"}
ArrayPhases == {"array_start", "array_propagate", "array_items", "append",
                "array_append"}
CallPhases == NamesPhases \cup ContainsPhases
EndPhases == {"init", "done"}

\* A forward iteration over the top layer, and one over the layer that was on
\* top before the handler opened a new one.
OnTop == {"object_start", "array_start", "value_check", "names_reopen"}
UnderLayer == {"object_key", "names_check", "names_validate", "names_result",
               "array_items", "array_append"}
InReverse == {"array_propagate", "value_validate"} \cup ContainsPhases

Phases == EndPhases \cup ValuePhases \cup UnderLayer \cup ContainsPhases
            \cup {"member"}

Top(fs) == fs[Len(fs)]

FramesOK(fs, ph) ==
  /\ IsList(fs)
  /\ ph # "done" => Len(fs) > 0
  /\ ph = "init" => Len(fs) = 1
  /\ ph \in ArrayPhases => Top(fs).inst.t = "ARRAY"
  /\ ph = "object_start" => Top(fs).inst.t # "ARRAY"

\* ExpectedDepth, for around values around the one that is walked and n loops
\* inside a validation.
DepthOK(d, ph, around, n, array) ==
  /\ ph \in EndPhases => d = 0
  /\ ph = "member" => d = IF array THEN around + 1 ELSE around
  /\ ph \in ValuePhases => d = around
  /\ ph \in UnderLayer => d = around + 1
  /\ ph \in ContainsPhases =>
       d = IF ph = "contains_return" THEN around + n - 1 ELSE around + n

RootOK(s, ph) ==
  IF ph \in EndPhases THEN s = EmptyStack ELSE LiveIn(s, 1)

ForwardOnTop(s, i) ==
  i.index \in 1 .. Size(s) + 1 /\ s.last_separator <= i.index

ForwardBelow(s, i) ==
  /\ s.last_separator # NoPos
  /\ i.index \in 1 .. s.last_separator
  /\ s.positions[s.last_separator].parent <= i.index

IsIterator(i) == i = [index |-> i.index, finished |-> i.finished]

IteratorOK(s, ph, i, around) ==
  /\ IsIterator(i)
  /\ ph \in OnTop => ForwardOnTop(s, i)
  /\ ph \in UnderLayer => ForwardBelow(s, i)
  /\ ph \in InReverse => Reversing(s, i, around)

\* The loop a phase of propertyNames or contains is in.
InnerOK(s, ph, cs, around) ==
  /\ ph \in Phases \ CallPhases => cs = <<>>
  /\ ph \in NamesPhases => Len(cs) = 1
  /\ ph \in ContainsPhases => Len(cs) > 0
  /\ ph \in {"names_check", "contains_check"} =>
       cs[Len(cs)].at.index \in Nat \ {0}
  /\ ph \in {"names_validate", "contains_validate"} =>
       Reversing(s, cs[Len(cs)].at, around + Len(cs))

Consistent(s, fs, ph, i, cs) ==
  LET around == Len(fs) - 1
  IN  /\ ph \in Phases
      /\ StackOK(s)
      /\ RootOK(s, ph)
      /\ FramesOK(fs, ph)
      /\ DepthOK(s.depth, ph, around, Len(cs), Top(fs).inst.t = "ARRAY")
      /\ IteratorOK(s, ph, i, around)
      /\ CallsOK(s, cs, around)
      /\ InnerOK(s, ph, cs, around)

IndInv == Consistent(stack, frames, phase, it, calls)

-----------------------------------------------------------------------------
(***************************************************************************)
(* How the parts of the invariant are kept.                                *)
(***************************************************************************)

\* The root position is in the bottom layer.
LEMMA RootLevel ==
  ASSUME NEW s, StackOK(s), LiveIn(s, 1)
  PROVE  Level(s, 1) = 0
  <1>1. Level(s, 1 - 1) = Level(s, 1)
    BY LevelBelow DEF LiveIn
  <1>2. SeparatorsTo(s, 0) = {}
    BY DEF SeparatorsTo
  <1>3. Cardinality({}) = 0
    BY FS_EmptySet
  <1> QED
    BY <1>1, <1>2, <1>3 DEF Level

\* The root position survives the removal of any layer but its own.
LEMMA RootKept ==
  ASSUME NEW s, StackOK(s), LiveIn(s, 1), NEW t,
         NEW d \in Int, 0 <= d, LevelsKept(s, t, d)
  PROVE  LiveIn(t, 1)
  <1>1. 0 \in Int /\ Level(s, 1) = 0
    BY RootLevel
  <1> QED
    BY <1>1, LiveKept

\* The numbers the invariant is about.
LEMMA Sizes ==
  ASSUME NEW s, NEW fs, NEW ph, NEW i, NEW cs, Consistent(s, fs, ph, i, cs)
  PROVE  /\ Len(fs) \in Nat /\ Len(fs) - 1 \in Int
         /\ ph # "done" => Len(fs) > 0
         /\ Len(cs) \in Nat
         /\ s.depth \in Nat
         /\ ph \notin EndPhases => Size(s) > 0
  BY ListLength, StackFields DEF Consistent, FramesOK, CallsOK, RootOK, LiveIn

\* Writing outcomes and pushing positions of the top layer disturbs nothing.
LEMMA GrownConsistent ==
  ASSUME NEW s, NEW fs, NEW ph, NEW i, NEW cs, Consistent(s, fs, ph, i, cs),
         ph \notin EndPhases, NEW t, Grown(s, t)
  PROVE  Consistent(t, fs, ph, i, cs)
  <1> DEFINE around == Len(fs) - 1
  <1>1. /\ around \in Int /\ Len(cs) \in Nat /\ StackOK(s) /\ StackOK(t)
        /\ around + Len(cs) \in Int /\ around + Len(cs) - 1 \in Int
        /\ t.depth = s.depth /\ t.last_separator = s.last_separator
        /\ Size(s) \in Nat /\ Size(t) \in Nat /\ Size(s) <= Size(t)
        /\ KeptTo(s, t, Size(s))
    BY Sizes, StackFields DEF Consistent, Grown
  <1>2. \A d : LevelsKept(s, t, d)
    BY <1>1, GrownKeepsLevels
  <1>3. RootOK(t, ph)
    <2>1. LiveIn(s, 1)
      BY DEF Consistent, RootOK
    <2>2. LiveIn(t, 1)
      BY <1>1, <2>1, GrownKeepsLive
    <2> QED
      BY <2>2 DEF RootOK
  <1>4. ASSUME NEW level \in Int, NEW at, Reversing(s, at, level)
        PROVE  Reversing(t, at, level)
    <2>1. LevelsKept(s, t, level) /\ level <= level
      BY <1>2, <1>4
    <2> QED
      BY <1>4, <2>1, ReversingKept
  <1>5. IteratorOK(t, ph, i, around)
    <2>1. IteratorOK(s, ph, i, around)
      BY DEF Consistent
    <2>2. ph \in OnTop => ForwardOnTop(t, i)
      BY <1>1, <2>1 DEF IteratorOK, ForwardOnTop
    <2>3. ASSUME ForwardBelow(s, i)
          PROVE  ForwardBelow(t, i)
      <3>1. s.last_separator \in 1 .. Size(s)
        BY <1>1, <2>3, LastSeparator DEF ForwardBelow
      <3>2. t.positions[s.last_separator].parent = s.positions[s.last_separator].parent
        BY <1>1, <3>1 DEF KeptTo, Kept, SameShape
      <3> QED
        BY <1>1, <2>3, <3>2 DEF ForwardBelow
    <2> QED
      BY <1>1, <1>4, <2>1, <2>2, <2>3 DEF IteratorOK
  <1>6. CallsOK(t, cs, around)
    BY <1>1, <1>2, CallsKept DEF Consistent
  <1>7. InnerOK(t, ph, cs, around)
    BY <1>1, <1>4 DEF Consistent, InnerOK
  <1> QED
    BY <1>1, <1>3, <1>5, <1>6, <1>7 DEF Consistent

\* The iterator goes on with a position it may be at.
LEMMA IteratorConsistent ==
  ASSUME NEW s, NEW fs, NEW ph, NEW i, NEW cs, Consistent(s, fs, ph, i, cs),
         NEW j, IteratorOK(s, ph, j, Len(fs) - 1)
  PROVE  Consistent(s, fs, ph, j, cs)
  BY DEF Consistent

\* A forward loop over the top layer returns a position of the walked value.
LEMMA TopStep ==
  ASSUME NEW s, NEW fs, NEW ph, NEW i, NEW cs, Consistent(s, fs, ph, i, cs),
         ph \in OnTop, NEW p, p = ForwardNext(s, i), p # NoPos,
         NEW j, j = ForwardStep(i)
  PROVE  /\ LiveIn(s, p) /\ Level(s, p) = Len(fs) - 1
         /\ Consistent(s, fs, ph, j, cs)
  <1>1. /\ StackOK(s) /\ IsIterator(i) /\ ForwardOnTop(s, i)
        /\ Size(s) \in Nat /\ s.last_separator \in 0 .. Size(s)
    BY StackFields DEF Consistent, IteratorOK
  <1>2. i.index \in Nat /\ i.index > 0
    BY <1>1 DEF ForwardOnTop
  <1>3. p = i.index /\ LiveIn(s, p)
    BY <1>1, <1>2, ForwardReturns
  <1>4. p \in 1 .. Size(s) /\ s.last_separator <= p
    BY <1>1, <1>3 DEF LiveIn, ForwardOnTop
  <1>5. Level(s, p) = s.depth
    BY <1>1, <1>4, TopLevel
  <1>6. s.depth = Len(fs) - 1
    BY DEF Consistent, DepthOK, OnTop, ValuePhases
  <1>7. j = [index |-> i.index + 1, finished |-> i.finished]
    BY <1>1 DEF ForwardStep, IsIterator
  <1>8. IsIterator(j) /\ j.index = i.index + 1
    BY <1>7 DEF IsIterator
  <1>9. ForwardOnTop(s, j)
    BY <1>1, <1>3, <1>4, <1>8 DEF ForwardOnTop
  <1>10. IteratorOK(s, ph, j, Len(fs) - 1)
    BY <1>8, <1>9 DEF IteratorOK, OnTop, UnderLayer, InReverse, ContainsPhases
  <1> QED
    BY <1>3, <1>5, <1>6, <1>10, IteratorConsistent

\* So does one over the layer under the one that is filled.
LEMMA BelowStep ==
  ASSUME NEW s, NEW fs, NEW ph, NEW i, NEW cs, Consistent(s, fs, ph, i, cs),
         ph \in UnderLayer, NEW p, p = ForwardNext(s, i), p # NoPos,
         NEW j, j = ForwardStep(i)
  PROVE  /\ LiveIn(s, p) /\ Level(s, p) = Len(fs) - 1
         /\ Consistent(s, fs, ph, j, cs)
  <1>1. /\ StackOK(s) /\ IsIterator(i) /\ ForwardBelow(s, i)
        /\ Size(s) \in Nat /\ s.last_separator \in 0 .. Size(s)
        /\ s.last_separator # NoPos /\ s.depth \in Nat
    BY StackFields DEF Consistent, IteratorOK, ForwardBelow
  <1>2. i.index \in Nat /\ i.index > 0
    BY <1>1 DEF ForwardBelow
  <1>3. p = i.index /\ LiveIn(s, p)
    BY <1>1, <1>2, ForwardReturns
  <1>4. IsSentinel(s.positions[s.last_separator])
    BY <1>1, LastSeparator
  <1>5. p # s.last_separator
    BY <1>3, <1>4 DEF LiveIn
  <1>6. /\ p \in 1 .. s.last_separator - 1
        /\ s.positions[s.last_separator].parent <= p
    BY <1>1, <1>3, <1>5 DEF ForwardBelow
  <1>7. Level(s, p) = s.depth - 1
    BY <1>1, <1>6, BelowLevel
  <1>8. Len(fs) \in Nat /\ s.depth = Len(fs) - 1 + 1
    BY Sizes DEF Consistent, DepthOK
  <1>9. j = [index |-> i.index + 1, finished |-> i.finished]
    BY <1>1 DEF ForwardStep, IsIterator
  <1>10. IsIterator(j) /\ j.index = i.index + 1
    BY <1>9 DEF IsIterator
  <1>11. s.positions[s.last_separator].parent \in Nat
    BY <1>1, LastSeparator
  <1>12. ForwardBelow(s, j)
    BY <1>1, <1>3, <1>6, <1>10, <1>11 DEF ForwardBelow
  <1>13. IteratorOK(s, ph, j, Len(fs) - 1)
    BY <1>10, <1>12 DEF IteratorOK, OnTop, UnderLayer, InReverse, ContainsPhases
  <1> QED
    BY <1>1, <1>3, <1>7, <1>8, <1>13, IteratorConsistent

\* A reverse loop over the top layer returns a position of the walked value.
LEMMA ReverseStepConsistent ==
  ASSUME NEW s, NEW fs, NEW ph, NEW i, NEW cs, Consistent(s, fs, ph, i, cs),
         ph \in InReverse, NEW p, p = ReverseNext(s, i), p # NoPos,
         NEW j, j = ReverseStep(s, i)
  PROVE  /\ LiveIn(s, p) /\ Level(s, p) = Len(fs) - 1
         /\ Consistent(s, fs, ph, j, cs)
  <1>1. StackOK(s) /\ Reversing(s, i, Len(fs) - 1)
    BY DEF Consistent, IteratorOK
  <1>2. LiveIn(s, p) /\ Level(s, p) = Len(fs) - 1
    BY <1>1, ReverseReturns
  <1>3. /\ j = [index |-> j.index, finished |-> j.finished]
        /\ Reversing(s, j, Len(fs) - 1)
    BY <1>1, ReverseSteps
  <1>4. IteratorOK(s, ph, j, Len(fs) - 1)
    BY <1>3 DEF IteratorOK, IsIterator, OnTop, UnderLayer, InReverse, ContainsPhases
  <1> QED
    BY <1>2, <1>4, IteratorConsistent

\* The loop that runs was called for a live position.
LEMMA InnermostCall ==
  ASSUME NEW s, NEW fs, NEW ph, NEW i, NEW cs, Consistent(s, fs, ph, i, cs),
         ph \in CallPhases
  PROVE  /\ Len(cs) \in Nat /\ Len(cs) > 0
         /\ IsCall(cs[Len(cs)])
         /\ LiveIn(s, cs[Len(cs)].pos)
         /\ Level(s, cs[Len(cs)].pos) = Len(fs) - 2 + Len(cs)
  <1>1. Len(cs) \in Nat /\ Len(fs) \in Nat
    BY Sizes
  <1>2. Len(cs) > 0
    BY <1>1 DEF Consistent, InnerOK, CallPhases
  <1>3. Len(cs) \in 1 .. Len(cs)
    BY <1>1, <1>2
  <1>4. CallsOK(s, cs, Len(fs) - 1)
    BY DEF Consistent
  <1>5. /\ IsCall(cs[Len(cs)]) /\ LiveIn(s, cs[Len(cs)].pos)
        /\ Level(s, cs[Len(cs)].pos) = (Len(fs) - 1) - 1 + Len(cs)
    BY <1>3, <1>4 DEF CallsOK
  <1> QED
    BY <1>1, <1>2, <1>5

\* The phases of a loop while its layer is open.
NamesLoop == {"names_check", "names_validate", "names_result"}
ContainsLoop == ContainsPhases \ {"contains_return"}

\* A loop inside a validation goes on with what it knows changed.
LEMMA CallChanged ==
  ASSUME NEW s, NEW fs, NEW ph, NEW i, NEW cs, Consistent(s, fs, ph, i, cs),
         NEW qh, \/ ph \in NamesLoop /\ qh \in NamesLoop
                 \/ ph \in ContainsLoop /\ qh \in ContainsLoop,
         NEW c, IsCall(c), c.pos = cs[Len(cs)].pos,
         qh \in {"names_check", "contains_check"} => c.at.index \in Nat \ {0},
         qh \in {"names_validate", "contains_validate"} =>
           Reversing(s, c.at, Len(fs) - 1 + Len(cs)),
         NEW new, new = Replaced(cs, Len(cs), c)
  PROVE  Consistent(s, fs, qh, i, new)
  <1> DEFINE around == Len(fs) - 1
  <1>1. ph \in CallPhases
    BY DEF NamesLoop, ContainsLoop, CallPhases, NamesPhases
  <1>2. Len(cs) \in Nat /\ Len(cs) > 0 /\ CallsOK(s, cs, around)
    BY <1>1, InnermostCall DEF Consistent
  <1>3. CallsOK(s, new, around) /\ Len(new) = Len(cs) /\ new[Len(new)] = c
    BY <1>2, CallReplaced
  <1>4. CASE ph \in NamesLoop /\ qh \in NamesLoop
    <2>1. IteratorOK(s, qh, i, around)
      BY <1>4 DEF Consistent, IteratorOK, NamesLoop, OnTop, UnderLayer, InReverse,
         ContainsPhases
    <2>2. InnerOK(s, qh, new, around)
      BY <1>3, <1>4 DEF Consistent, InnerOK, NamesLoop, CallPhases, NamesPhases,
         ContainsPhases
    <2>3. FramesOK(fs, qh) /\ RootOK(s, qh)
      BY <1>4 DEF Consistent, FramesOK, RootOK, NamesLoop, ArrayPhases, EndPhases
    <2>4. DepthOK(s.depth, qh, around, Len(new), Top(fs).inst.t = "ARRAY")
      BY <1>3, <1>4 DEF Consistent, DepthOK, NamesLoop, EndPhases, ValuePhases,
         UnderLayer, ContainsPhases
    <2>5. qh \in Phases
      BY <1>4 DEF NamesLoop, Phases, UnderLayer
    <2> QED
      BY <1>3, <2>1, <2>2, <2>3, <2>4, <2>5 DEF Consistent
  <1>5. CASE ph \in ContainsLoop /\ qh \in ContainsLoop
    <2>1. IteratorOK(s, qh, i, around)
      BY <1>5 DEF Consistent, IteratorOK, ContainsLoop, OnTop, UnderLayer,
         InReverse, ContainsPhases
    <2>2. InnerOK(s, qh, new, around)
      BY <1>2, <1>3, <1>5 DEF Consistent, InnerOK, ContainsLoop, CallPhases,
         NamesPhases, ContainsPhases
    <2>3. FramesOK(fs, qh) /\ RootOK(s, qh)
      BY <1>5 DEF Consistent, FramesOK, RootOK, ContainsLoop, ContainsPhases,
         ArrayPhases, EndPhases
    <2>4. DepthOK(s.depth, qh, around, Len(new), Top(fs).inst.t = "ARRAY")
      BY <1>3, <1>5 DEF Consistent, DepthOK, ContainsLoop, EndPhases, ValuePhases,
         UnderLayer, ContainsPhases
    <2>5. qh \in Phases
      BY <1>5 DEF ContainsLoop, Phases
    <2> QED
      BY <1>3, <2>1, <2>2, <2>3, <2>4, <2>5 DEF Consistent
  <1> QED
    BY <1>4, <1>5

\* A handler opens the layer for the next member and walks its own one below.
LEMMA LayerOpened ==
  ASSUME NEW s, NEW fs, NEW ph, NEW i, NEW cs, Consistent(s, fs, ph, i, cs),
         s.depth = Len(fs) - 1,
         NEW qh, \/ /\ qh \in {"object_key", "array_items", "array_append"}
                    /\ ph \notin EndPhases \cup CallPhases
                 \/ qh = "names_result" /\ ph = "names_reopen",
         qh \in ArrayPhases => Top(fs).inst.t = "ARRAY",
         NEW j, IsIterator(j), ForwardOnTop(s, j),
         NEW t, t = PushSeparator(s)
  PROVE  Consistent(t, fs, qh, j, cs)
  <1> DEFINE around == Len(fs) - 1
  <1>1. /\ StackOK(s) /\ Len(cs) \in Nat /\ around \in Int /\ ph \in Phases
        /\ around + Len(cs) - 1 \in Int /\ Len(fs) \in Nat
        /\ ph \notin EndPhases /\ Size(s) \in Nat /\ LiveIn(s, 1)
    BY Sizes, StackFields DEF Consistent, RootOK, EndPhases
  <1>2. /\ StackOK(t) /\ t.depth = s.depth + 1
        /\ Size(t) = Size(s) + 1 /\ t.last_separator = Size(s) + 1
        /\ t.positions[t.last_separator].parent = s.last_separator
        /\ \A d : LevelsKept(s, t, d)
    BY <1>1, OpenedLayer
  <1>3. RootOK(t, qh)
    <2>1. LevelsKept(s, t, 0)
      BY <1>2
    <2> QED
      BY <1>1, <2>1, RootKept DEF RootOK, EndPhases
  <1>4. FramesOK(fs, qh)
    BY <1>1 DEF Consistent, FramesOK, EndPhases
  <1>5. DepthOK(t.depth, qh, around, Len(cs), Top(fs).inst.t = "ARRAY")
    BY <1>2 DEF DepthOK, EndPhases, ValuePhases, UnderLayer, ContainsPhases
  <1>6. ForwardBelow(t, j)
    BY <1>1, <1>2 DEF ForwardBelow, ForwardOnTop, NoPos
  <1>7. IteratorOK(t, qh, j, around)
    BY <1>6 DEF IteratorOK, OnTop, UnderLayer, InReverse, ContainsPhases
  <1>8. CallsOK(t, cs, around)
    BY <1>1, <1>2, CallsKept DEF Consistent
  <1>9. InnerOK(t, qh, cs, around)
    BY <1>1 DEF Consistent, InnerOK, CallPhases, NamesPhases, ContainsPhases
  <1>10. qh \in Phases
    BY DEF Phases, UnderLayer
  <1> QED
    BY <1>2, <1>3, <1>4, <1>5, <1>7, <1>8, <1>9, <1>10 DEF Consistent

\* The contains loop opens the layer of its schema.
LEMMA ContainsOpened ==
  ASSUME NEW s, NEW fs, NEW ph, NEW i, NEW cs, Consistent(s, fs, ph, i, cs),
         ph \in {"value_validate", "contains_validate"},
         NEW c, IsCall(c), LiveIn(s, c.pos), Level(s, c.pos) = s.depth,
         NEW new, new = Append(cs, c),
         NEW t, t = PushSeparator(s)
  PROVE  Consistent(t, fs, "contains_push", i, new)
  <1> DEFINE around == Len(fs) - 1
  <1>1. /\ StackOK(s) /\ Len(cs) \in Nat /\ around \in Int /\ ph \in Phases
        /\ around + Len(cs) \in Int /\ Len(fs) \in Nat
        /\ Size(s) \in Nat /\ LiveIn(s, 1) /\ CallsOK(s, cs, around)
    BY Sizes, StackFields DEF Consistent, RootOK, EndPhases
  <1>2. /\ StackOK(t) /\ t.depth = s.depth + 1
        /\ \A d : LevelsKept(s, t, d)
    BY <1>1, OpenedLayer
  <1>3. ph = "value_validate" => cs = <<>>
    BY DEF Consistent, InnerOK, CallPhases, NamesPhases, ContainsPhases, Phases,
       ValuePhases
  <1>4. ph = "value_validate" => Len(cs) = 0
    BY <1>3
  <1>5. s.depth = around + Len(cs)
    BY <1>1, <1>4 DEF Consistent, DepthOK, ValuePhases, ContainsPhases
  <1>6. Len(cs) > 0 => Reversing(s, cs[Len(cs)].at, around + Len(cs))
    BY <1>4 DEF Consistent, InnerOK
  <1>7. CallsOK(s, new, around) /\ Len(new) = Len(cs) + 1 /\ new[Len(new)] = c
    <2>1. Level(s, c.pos) = around + Len(cs)
      BY <1>5
    <2>2. around \in Int /\ CallsOK(s, cs, around)
      BY <1>1
    <2> HIDE DEF around
    <2>3. new = Added(cs, c)
      BY DEF Added
    <2> QED
      BY <1>6, <2>1, <2>2, <2>3, CallPushed
  <1>8. RootOK(t, "contains_push")
    <2>1. LevelsKept(s, t, 0)
      BY <1>2
    <2> QED
      BY <1>1, <2>1, RootKept DEF RootOK, EndPhases
  <1>9. FramesOK(fs, "contains_push")
    BY DEF Consistent, FramesOK, ArrayPhases
  <1>10. DepthOK(t.depth, "contains_push", around, Len(new), Top(fs).inst.t = "ARRAY")
    BY <1>1, <1>2, <1>5, <1>7
       DEF DepthOK, EndPhases, ValuePhases, UnderLayer, ContainsPhases
  <1>11. IteratorOK(t, "contains_push", i, around)
    <2>1. IsIterator(i) /\ Reversing(s, i, around)
      BY DEF Consistent, IteratorOK, InReverse, ContainsPhases
    <2>2. LevelsKept(s, t, around) /\ around <= around
      BY <1>1, <1>2
    <2>3. Reversing(t, i, around)
      BY <1>1, <2>1, <2>2, ReversingKept
    <2> QED
      BY <2>1, <2>3 DEF IteratorOK, OnTop, UnderLayer
  <1>12. CallsOK(t, new, around)
    BY <1>1, <1>2, <1>7, CallsKept
  <1>13. InnerOK(t, "contains_push", new, around)
    BY <1>1, <1>7 DEF InnerOK, CallPhases, NamesPhases, ContainsPhases
  <1>14. "contains_push" \in Phases
    BY DEF Phases, ContainsPhases
  <1> QED
    BY <1>2, <1>8, <1>9, <1>10, <1>11, <1>12, <1>13, <1>14 DEF Consistent

\* The layer of the property name is removed; the member's schemas go on below.
LEMMA NamesRemoved ==
  ASSUME NEW s, NEW fs, NEW i, NEW cs, Consistent(s, fs, "names_validate", i, cs),
         NEW c, IsCall(c), c.pos = cs[Len(cs)].pos,
         NEW new, new = Replaced(cs, Len(cs), c),
         NEW t, t = LayerRemove(s)
  PROVE  Consistent(t, fs, "names_reopen", i, new)
  <1> DEFINE around == Len(fs) - 1
  <1>1. Consistent(s, fs, "names_result", i, new)
    BY CallChanged DEF NamesLoop
  <1>2. /\ StackOK(s) /\ around \in Int /\ LiveIn(s, 1) /\ Len(fs) \in Nat
        /\ CallsOK(s, new, around) /\ Len(new) = 1 /\ ForwardBelow(s, i)
        /\ Len(fs) > 0 /\ Size(s) \in Nat /\ IsIterator(i)
    BY <1>1, Sizes, StackFields
       DEF Consistent, RootOK, EndPhases, InnerOK, NamesPhases, IteratorOK,
           UnderLayer, ForwardBelow
  <1>3. s.depth = around + 1 /\ s.depth > 0
    BY <1>1, <1>2 DEF Consistent, DepthOK, UnderLayer
  <1>4. /\ StackOK(t) /\ t.depth = s.depth - 1
        /\ Size(t) = s.last_separator - 1
        /\ t.last_separator = s.positions[s.last_separator].parent
        /\ LevelsKept(s, t, s.depth - 1)
        /\ s.last_separator \in 1 .. Size(s)
    BY <1>2, <1>3, RemovedLayer, StackFields DEF NoPos
  <1>5. LevelsKept(s, t, around) /\ t.depth = around
    BY <1>2, <1>3, <1>4
  <1>6. RootOK(t, "names_reopen")
    BY <1>2, <1>5, RootKept DEF RootOK, EndPhases
  <1>7. ForwardOnTop(t, i)
    BY <1>2, <1>4 DEF ForwardOnTop, ForwardBelow
  <1>8. IteratorOK(t, "names_reopen", i, around)
    BY <1>2, <1>7 DEF IteratorOK, OnTop, UnderLayer, InReverse, ContainsPhases
  <1>9. CallsOK(t, new, around)
    <2>1. around + Len(new) - 1 <= around
      BY <1>2
    <2> HIDE DEF around
    <2> QED
      BY <1>2, <1>5, <2>1, CallsKept
  <1>10. InnerOK(t, "names_reopen", new, around)
    BY <1>2 DEF InnerOK, CallPhases, NamesPhases, ContainsPhases
  <1>11. FramesOK(fs, "names_reopen")
    BY DEF Consistent, FramesOK, ArrayPhases
  <1>12. DepthOK(t.depth, "names_reopen", around, Len(new), Top(fs).inst.t = "ARRAY")
    BY <1>5 DEF DepthOK, EndPhases, ValuePhases, UnderLayer, ContainsPhases
  <1> QED
    BY <1>4, <1>6, <1>8, <1>9, <1>10, <1>11, <1>12
       DEF Consistent, Phases, ValuePhases

\* The loop over a property name returns to the one over the positions.
LEMMA NamesReturned ==
  ASSUME NEW s, NEW fs, NEW i, NEW cs, Consistent(s, fs, "names_result", i, cs)
  PROVE  Consistent(s, fs, "object_key", i, <<>>)
  <1>1. CallsOK(s, <<>>, Len(fs) - 1)
    BY NoCalls
  <1>2. InnerOK(s, "object_key", <<>>, Len(fs) - 1)
    BY DEF InnerOK, CallPhases, NamesPhases, ContainsPhases
  <1>3. IteratorOK(s, "object_key", i, Len(fs) - 1)
    BY DEF Consistent, IteratorOK, OnTop, UnderLayer, InReverse, ContainsPhases
  <1>4. FramesOK(fs, "object_key") /\ RootOK(s, "object_key")
    BY DEF Consistent, FramesOK, RootOK, ArrayPhases, EndPhases
  <1>5. DepthOK(s.depth, "object_key", Len(fs) - 1, Len(<<>>),
                Top(fs).inst.t = "ARRAY")
    BY DEF Consistent, DepthOK, EndPhases, ValuePhases, UnderLayer, ContainsPhases
  <1> QED
    BY <1>1, <1>2, <1>3, <1>4, <1>5 DEF Consistent, Phases, UnderLayer

\* The loop over a property name is called for a position of the walked value.
LEMMA NamesCalled ==
  ASSUME NEW s, NEW fs, NEW i, NEW cs, Consistent(s, fs, "object_key", i, cs),
         NEW c, IsCall(c), LiveIn(s, c.pos), Level(s, c.pos) = Len(fs) - 1,
         c.at.index \in Nat \ {0}
  PROVE  Consistent(s, fs, "names_check", i, <<c>>)
  <1> DEFINE around == Len(fs) - 1
  <1>1. Len(fs) \in Nat /\ around \in Int
    BY Sizes
  <1>2. CallsOK(s, <<>>, around) /\ Len(<<>>) = 0
    BY NoCalls
  <1>3. <<c>> = Added(<<>>, c)
    BY DEF Added
  <1>4. /\ CallsOK(s, <<c>>, around)
        /\ Len(<<c>>) = 1 /\ <<c>>[1] = c
    <2>1. Level(s, c.pos) = around + Len(<<>>)
      BY <1>1, <1>2
    <2> HIDE DEF around
    <2>2. PICK none, one : none = <<>> /\ one = <<c>>
      OBVIOUS
    <2>3. /\ CallsOK(s, none, around) /\ Len(none) = 0
          /\ one = Added(none, c) /\ Level(s, c.pos) = around + Len(none)
      BY <1>2, <1>3, <2>1, <2>2
    <2>4. CallsOK(s, one, around)
      BY <1>1, <2>3, CallPushed
    <2> QED
      BY <2>2, <2>4
  <1>5. InnerOK(s, "names_check", <<c>>, around)
    BY <1>4 DEF InnerOK, CallPhases, NamesPhases, ContainsPhases
  <1>6. IteratorOK(s, "names_check", i, around)
    BY DEF Consistent, IteratorOK, OnTop, UnderLayer, InReverse, ContainsPhases
  <1>7. FramesOK(fs, "names_check") /\ RootOK(s, "names_check")
    BY DEF Consistent, FramesOK, RootOK, ArrayPhases, EndPhases
  <1>8. DepthOK(s.depth, "names_check", around, Len(<<c>>), Top(fs).inst.t = "ARRAY")
    BY DEF Consistent, DepthOK, EndPhases, ValuePhases, UnderLayer, ContainsPhases
  <1> QED
    BY <1>4, <1>5, <1>6, <1>7, <1>8 DEF Consistent, Phases, UnderLayer

\* The layer of the contains schema is removed.
LEMMA ContainsRemoved ==
  ASSUME NEW s, NEW fs, NEW ph, NEW i, NEW cs, Consistent(s, fs, ph, i, cs),
         ph \in {"contains_remove", "contains_item"},
         NEW t, t = LayerRemove(s)
  PROVE  Consistent(t, fs, "contains_return", i, cs)
  <1> DEFINE around == Len(fs) - 1
  <1>1. /\ StackOK(s) /\ around \in Int /\ LiveIn(s, 1) /\ Len(fs) \in Nat
        /\ CallsOK(s, cs, around) /\ Len(cs) > 0 /\ Len(cs) \in Nat
        /\ Len(fs) > 0 /\ Size(s) \in Nat /\ IsIterator(i)
        /\ Reversing(s, i, around)
    BY Sizes, StackFields
       DEF Consistent, RootOK, EndPhases, InnerOK, ContainsPhases, IteratorOK,
           InReverse
  <1>2. s.depth = around + Len(cs) /\ s.depth > 0
    BY <1>1 DEF Consistent, DepthOK, ContainsPhases
  <1>3. /\ StackOK(t) /\ t.depth = s.depth - 1
        /\ LevelsKept(s, t, s.depth - 1)
    BY <1>1, <1>2, RemovedLayer
  <1>4. /\ s.depth - 1 \in Int /\ 0 <= s.depth - 1 /\ around <= s.depth - 1
        /\ around + Len(cs) - 1 <= s.depth - 1
    BY <1>1, <1>2
  <1>5. RootOK(t, "contains_return")
    BY <1>1, <1>3, <1>4, RootKept DEF RootOK, EndPhases
  <1>6. Reversing(t, i, around)
    BY <1>1, <1>3, <1>4, ReversingKept
  <1>7. CallsOK(t, cs, around)
    BY <1>1, <1>3, <1>4, CallsKept
  <1>8. IteratorOK(t, "contains_return", i, around)
    BY <1>1, <1>6 DEF IteratorOK, OnTop, UnderLayer
  <1>9. InnerOK(t, "contains_return", cs, around)
    BY <1>1 DEF InnerOK, CallPhases, NamesPhases, ContainsPhases
  <1>10. FramesOK(fs, "contains_return")
    BY DEF Consistent, FramesOK, ArrayPhases
  <1>11. DepthOK(t.depth, "contains_return", around, Len(cs), Top(fs).inst.t = "ARRAY")
    BY <1>2, <1>3 DEF DepthOK, EndPhases, ValuePhases, UnderLayer, ContainsPhases
  <1> QED
    BY <1>3, <1>5, <1>7, <1>8, <1>9, <1>10, <1>11
       DEF Consistent, Phases, ContainsPhases

\* The loop that called for contains goes on, or stream_value's does.
LEMMA ContainsReturned ==
  ASSUME NEW s, NEW fs, NEW i, NEW cs, Consistent(s, fs, "contains_return", i, cs),
         NEW qh, qh = IF Len(cs) = 1 THEN "value_validate" ELSE "contains_validate",
         NEW new, new = Cut(cs)
  PROVE  Consistent(s, fs, qh, i, new)
  <1> DEFINE around == Len(fs) - 1
  <1>1. /\ StackOK(s) /\ around \in Int /\ Len(fs) \in Nat
        /\ CallsOK(s, cs, around) /\ Len(cs) > 0 /\ Len(cs) \in Nat
        /\ IsIterator(i) /\ Reversing(s, i, around)
    BY Sizes DEF Consistent, InnerOK, ContainsPhases, IteratorOK, InReverse
  <1>2. /\ CallsOK(s, new, around) /\ Len(new) = Len(cs) - 1
        /\ Len(new) > 0 => Reversing(s, new[Len(new)].at, around + Len(new))
    <2> HIDE DEF around
    <2> QED
      BY <1>1, CallPopped
  <1>3. Len(new) = 0 => new = <<>>
    <2>1. IsList(new)
      BY <1>2 DEF CallsOK
    <2> QED
      BY <2>1, EmptySeq DEF IsList
  <1>4. InnerOK(s, qh, new, around)
    BY <1>1, <1>2, <1>3 DEF InnerOK, CallPhases, NamesPhases, ContainsPhases
  <1>5. IteratorOK(s, qh, i, around)
    BY <1>1 DEF IteratorOK, OnTop, UnderLayer
  <1>6. FramesOK(fs, qh) /\ RootOK(s, qh)
    BY DEF Consistent, FramesOK, RootOK, ArrayPhases, EndPhases
  <1>7. s.depth = around + Len(cs) - 1
    BY DEF Consistent, DepthOK, ContainsPhases
  <1>8. DepthOK(s.depth, qh, around, Len(new), Top(fs).inst.t = "ARRAY")
    <2> HIDE DEF around
    <2>1. CASE Len(cs) = 1
      <3>1. qh = "value_validate" /\ s.depth = around
        BY <1>1, <1>7, <2>1
      <3> QED
        BY <3>1 DEF DepthOK, EndPhases, ValuePhases, UnderLayer, ContainsPhases
    <2>2. CASE Len(cs) # 1
      <3>1. qh = "contains_validate" /\ s.depth = around + Len(new)
        BY <1>1, <1>2, <1>7, <2>2
      <3> QED
        BY <3>1 DEF DepthOK, EndPhases, ValuePhases, UnderLayer, ContainsPhases
    <2> QED
      BY <2>1, <2>2
  <1> QED
    BY <1>1, <1>2, <1>4, <1>5, <1>6, <1>8
       DEF Consistent, Phases, ContainsPhases, ValuePhases

\* array_end: the layer the last append opened is removed.
LEMMA ArrayRemoved ==
  ASSUME NEW s, NEW fs, NEW i, NEW cs, Consistent(s, fs, "member", i, cs),
         Top(fs).inst.t = "ARRAY", NEW t, t = LayerRemove(s)
  PROVE  Consistent(t, fs, "value", i, cs)
  <1> DEFINE around == Len(fs) - 1
  <1>1. /\ StackOK(s) /\ around \in Int /\ LiveIn(s, 1) /\ Len(fs) \in Nat
        /\ CallsOK(s, cs, around) /\ cs = <<>> /\ Len(fs) > 0 /\ IsIterator(i)
    BY Sizes DEF Consistent, RootOK, EndPhases, InnerOK, CallPhases, NamesPhases,
       ContainsPhases, IteratorOK
  <1>2. s.depth = around + 1 /\ s.depth > 0 /\ 0 <= s.depth - 1
    BY <1>1 DEF Consistent, DepthOK
  <1>3. /\ StackOK(t) /\ t.depth = s.depth - 1
        /\ LevelsKept(s, t, s.depth - 1)
    BY <1>1, <1>2, RemovedLayer
  <1>4. s.depth - 1 \in Int /\ s.depth - 1 = around
    BY <1>1, <1>2
  <1>5. RootOK(t, "value")
    BY <1>1, <1>2, <1>3, <1>4, RootKept DEF RootOK, EndPhases
  <1>6. CallsOK(t, cs, around) /\ InnerOK(t, "value", cs, around)
    BY <1>1, NoCalls DEF InnerOK, CallPhases, NamesPhases, ContainsPhases
  <1>7. IteratorOK(t, "value", i, around)
    BY <1>1 DEF IteratorOK, OnTop, UnderLayer, InReverse, ContainsPhases
  <1>8. FramesOK(fs, "value")
    BY DEF Consistent, FramesOK, ArrayPhases
  <1>9. DepthOK(t.depth, "value", around, Len(cs), Top(fs).inst.t = "ARRAY")
    BY <1>3, <1>4 DEF DepthOK, EndPhases, ValuePhases, UnderLayer, ContainsPhases
  <1> QED
    BY <1>3, <1>5, <1>6, <1>7, <1>8, <1>9 DEF Consistent, Phases, ValuePhases

\* The end of stream_value: the layer of the value is removed, and with the
\* outermost value the stack is empty.
LEMMA ValueRemoved ==
  ASSUME NEW s, NEW fs, NEW i, NEW cs, Consistent(s, fs, "value_validate", i, cs),
         NEW gs, gs = Cut(fs),
         NEW qh, qh = IF Len(fs) = 1 THEN "done"
                      ELSE IF Top(gs).inst.t = "ARRAY" THEN "append" ELSE "member",
         NEW t, t = LayerRemove(s)
  PROVE  Consistent(t, gs, qh, i, cs)
  <1> DEFINE around == Len(fs) - 1
  <1>1. /\ StackOK(s) /\ around \in Int /\ LiveIn(s, 1) /\ Len(fs) \in Nat
        /\ cs = <<>> /\ Len(fs) > 0 /\ IsIterator(i) /\ IsList(fs)
    BY Sizes DEF Consistent, RootOK, EndPhases, InnerOK, CallPhases, NamesPhases,
       ContainsPhases, IteratorOK, FramesOK, Phases, ValuePhases
  <1>2. s.depth = around
    BY <1>1 DEF Consistent, DepthOK, ValuePhases
  <1>3. IsList(gs) /\ Len(gs) = around
    BY <1>1, ListCut
  <1>4. \A ph \in {"done", "append", "member"} :
          /\ CallsOK(t, cs, Len(gs) - 1) /\ InnerOK(t, ph, cs, Len(gs) - 1)
          /\ IteratorOK(t, ph, i, Len(gs) - 1)
          /\ ph \in Phases
    BY <1>1, NoCalls
       DEF InnerOK, CallPhases, NamesPhases, ContainsPhases, IteratorOK, OnTop,
           UnderLayer, InReverse, Phases, EndPhases, ValuePhases
  <1>5. CASE Len(fs) = 1
    <2>1. qh = "done" /\ s.depth = 0
      BY <1>1, <1>2, <1>5
    <2>2. t = EmptyStack
      BY <1>1, <2>1, RemovedBottom
    <2>3. StackOK(t) /\ t.depth = 0
      BY <2>2, EmptyStackWellFormed DEF StackOK, EmptyStack, Size
    <2>4. RootOK(t, "done") /\ FramesOK(gs, "done")
      BY <1>3, <2>2 DEF RootOK, EndPhases, FramesOK, ArrayPhases
    <2>5. DepthOK(t.depth, "done", Len(gs) - 1, Len(cs), Top(gs).inst.t = "ARRAY")
      BY <2>3 DEF DepthOK, ValuePhases, UnderLayer, ContainsPhases
    <2> QED
      BY <1>4, <2>1, <2>3, <2>4, <2>5 DEF Consistent
  <1>6. CASE Len(fs) # 1
    <2>1. /\ s.depth > 0 /\ s.depth - 1 = Len(gs) - 1 /\ s.depth - 1 \in Int
          /\ 0 <= s.depth - 1 /\ Len(gs) > 0
      BY <1>1, <1>2, <1>3, <1>6
    <2>2. /\ StackOK(t) /\ t.depth = Len(gs) - 1
          /\ LevelsKept(s, t, s.depth - 1)
      BY <1>1, <2>1, RemovedLayer
    <2>3. LiveIn(t, 1)
      BY <1>1, <2>1, <2>2, RootKept
    <2>4. qh = IF Top(gs).inst.t = "ARRAY" THEN "append" ELSE "member"
      BY <1>6
    <2>5. RootOK(t, qh) /\ FramesOK(gs, qh)
      BY <1>3, <2>1, <2>3, <2>4 DEF RootOK, EndPhases, FramesOK, ArrayPhases
    <2>6. DepthOK(t.depth, qh, Len(gs) - 1, Len(cs), Top(gs).inst.t = "ARRAY")
      BY <2>2, <2>4 DEF DepthOK, EndPhases, ValuePhases, UnderLayer, ContainsPhases
    <2> QED
      BY <1>4, <2>2, <2>4, <2>5, <2>6 DEF Consistent
  <1> QED
    BY <1>5, <1>6

\* A handler that begins a pass over the layer of the value.
LEMMA PassStarted ==
  ASSUME NEW s, NEW fs, NEW ph, NEW i, NEW cs, Consistent(s, fs, ph, i, cs),
         s.depth = Len(fs) - 1,
         ph \in {"enter", "member", "array_start", "value"},
         NEW qh, NEW j, IsIterator(j),
         \/ qh \in {"object_start", "array_start", "value_check"} /\ j = ForwardStart(s)
         \/ qh \in {"array_propagate", "value_validate"} /\ j = ReverseStart(s),
         qh \in ArrayPhases => Top(fs).inst.t = "ARRAY",
         qh = "object_start" => Top(fs).inst.t # "ARRAY"
  PROVE  Consistent(s, fs, qh, j, cs)
  <1>1. /\ StackOK(s) /\ Size(s) \in Nat /\ Size(s) > 0
        /\ cs = <<>>
    BY Sizes, StackFields DEF Consistent, EndPhases, InnerOK, CallPhases,
       NamesPhases, ContainsPhases
  <1>2. qh \in OnTop => ForwardOnTop(s, j)
    <2>1. ASSUME j = ForwardStart(s)
          PROVE  ForwardOnTop(s, j)
      BY <1>1, <2>1, ForwardStarts DEF ForwardOnTop
    <2> QED
      BY <2>1 DEF OnTop
  <1>3. qh \in InReverse => Reversing(s, j, Len(fs) - 1)
    <2>1. ASSUME j = ReverseStart(s)
          PROVE  Reversing(s, j, Len(fs) - 1)
      BY <1>1, <2>1, ReverseStarts
    <2> QED
      BY <2>1 DEF InReverse, ContainsPhases
  <1>4. IteratorOK(s, qh, j, Len(fs) - 1)
    BY <1>2, <1>3 DEF IteratorOK, UnderLayer
  <1>5. CallsOK(s, cs, Len(fs) - 1) /\ InnerOK(s, qh, cs, Len(fs) - 1)
    BY <1>1, NoCalls DEF InnerOK, CallPhases, NamesPhases, ContainsPhases
  <1>6. RootOK(s, qh) /\ FramesOK(fs, qh)
    BY DEF Consistent, RootOK, EndPhases, FramesOK
  <1>7. DepthOK(s.depth, qh, Len(fs) - 1, Len(cs), Top(fs).inst.t = "ARRAY")
    BY DEF DepthOK, EndPhases, ValuePhases, UnderLayer, ContainsPhases
  <1>8. qh \in Phases
    BY DEF Phases, ValuePhases
  <1> QED
    BY <1>1, <1>4, <1>5, <1>6, <1>7, <1>8 DEF Consistent

\* The end of a pass: the members come next, or the validation of the value.
LEMMA PassEnded ==
  ASSUME NEW s, NEW fs, NEW ph, NEW i, NEW cs, Consistent(s, fs, ph, i, cs),
         NEW qh, \/ ph \in {"object_start", "array_items", "array_append"} /\ qh = "member"
                 \/ ph = "value_check" /\ qh = "value"
  PROVE  Consistent(s, fs, qh, i, cs)
  <1>1. cs = <<>> /\ IsIterator(i)
    BY DEF Consistent, InnerOK, CallPhases, NamesPhases, ContainsPhases, IteratorOK
  <1>2. IteratorOK(s, qh, i, Len(fs) - 1)
    BY <1>1 DEF IteratorOK, OnTop, UnderLayer, InReverse, ContainsPhases
  <1>3. CallsOK(s, cs, Len(fs) - 1) /\ InnerOK(s, qh, cs, Len(fs) - 1)
    BY <1>1, NoCalls DEF InnerOK, CallPhases, NamesPhases, ContainsPhases
  <1>4. RootOK(s, qh) /\ FramesOK(fs, qh)
    BY DEF Consistent, RootOK, EndPhases, FramesOK, ArrayPhases
  <1>5. DepthOK(s.depth, qh, Len(fs) - 1, Len(cs), Top(fs).inst.t = "ARRAY")
    <2>1. ph \in {"array_items", "array_append"} => Top(fs).inst.t = "ARRAY"
      BY DEF Consistent, FramesOK, ArrayPhases
    <2>2. ph = "object_start" => Top(fs).inst.t # "ARRAY"
      BY DEF Consistent, FramesOK
    <2> QED
      BY <2>1, <2>2 DEF Consistent, DepthOK, EndPhases, ValuePhases, UnderLayer,
         ContainsPhases
  <1>6. qh \in Phases
    BY DEF Phases, ValuePhases
  <1> QED
    BY <1>2, <1>3, <1>4, <1>5, <1>6 DEF Consistent

\* validate_instance calls itself for a member.
LEMMA Descended ==
  ASSUME NEW s, NEW fs, NEW ph, NEW i, NEW cs, Consistent(s, fs, ph, i, cs),
         ph = "object_key" \/ (ph = "member" /\ Top(fs).inst.t = "ARRAY"),
         NEW gs, IsList(gs), Len(gs) = Len(fs) + 1
  PROVE  Consistent(s, gs, "enter", i, cs)
  <1>1. /\ cs = <<>> /\ IsIterator(i) /\ Len(fs) \in Nat
        /\ s.depth = Len(fs) - 1 + 1
    BY Sizes DEF Consistent, InnerOK, CallPhases, NamesPhases, ContainsPhases,
       IteratorOK, DepthOK, UnderLayer
  <1>2. IteratorOK(s, "enter", i, Len(gs) - 1)
    BY <1>1 DEF IteratorOK, OnTop, UnderLayer, InReverse, ContainsPhases
  <1>3. CallsOK(s, cs, Len(gs) - 1) /\ InnerOK(s, "enter", cs, Len(gs) - 1)
    BY <1>1, NoCalls DEF InnerOK, CallPhases, NamesPhases, ContainsPhases
  <1>4. RootOK(s, "enter") /\ FramesOK(gs, "enter")
    BY <1>1 DEF Consistent, RootOK, EndPhases, FramesOK, ArrayPhases
  <1>5. s.depth = Len(gs) - 1
    BY <1>1
  <1>6. DepthOK(s.depth, "enter", Len(gs) - 1, Len(cs), Top(gs).inst.t = "ARRAY")
    BY <1>5 DEF DepthOK, EndPhases, UnderLayer, ContainsPhases
  <1> QED
    BY <1>2, <1>3, <1>4, <1>6 DEF Consistent, Phases, ValuePhases

\* stream_init: the position of the root schema is the stack.
LEMMA RootPushed ==
  ASSUME NEW s, NEW fs, NEW i, NEW cs, Consistent(s, fs, "init", i, cs),
         NEW v \in Schemas, NEW t, t = PushBasic(s, v, NoPos)
  PROVE  Consistent(t, fs, "enter", i, cs)
  <1>1. /\ cs = <<>> /\ IsIterator(i) /\ Len(fs) = 1 /\ s = EmptyStack
        /\ s \in StackType(Schemas) /\ WellFormed(s) /\ s.depth = 0
    BY DEF Consistent, InnerOK, CallPhases, NamesPhases, ContainsPhases,
       IteratorOK, RootOK, EndPhases, FramesOK, StackOK, EmptyStack
  <1>2. NoPos \in Nat /\ (NoPos = NoPos \/ FALSE)
    BY DEF NoPos
  <1>3. PICK pos : pos = Position(s, "BASIC", "NONE", v, NoPos)
    OBVIOUS
  <1>4. t = [s EXCEPT !.positions = Append(@, pos)]
    BY <1>3 DEF PushBasic
  <1>5. "BASIC" \in {"BASIC", "COMPOSED"} /\ "NONE" \in CompositionTypes
    BY DEF CompositionTypes
  <1>6. /\ t \in StackType(Schemas) /\ WellFormed(t) /\ Pushed(s, t, pos)
        /\ ~ IsSentinel(pos) /\ t.depth = s.depth
    BY <1>1, <1>2, <1>3, <1>4, <1>5, PushKeeps
  <1>7. Size(s) = 0
    BY <1>1 DEF EmptyStack, Size
  <1>8. Size(t) = 1 /\ t.positions[1] = pos
    BY <1>6, <1>7 DEF Pushed
  <1>9. LiveIn(t, 1)
    BY <1>6, <1>8 DEF LiveIn
  <1>10. pos.value = v
    BY <1>3 DEF Position
  <1>11. \A p \in 1 .. Size(t) : t.positions[p].value \in Schemas
    BY <1>8, <1>10
  <1>12. StackOK(t)
    BY <1>6, <1>11 DEF StackOK
  <1>13. IteratorOK(t, "enter", i, Len(fs) - 1)
    BY <1>1 DEF IteratorOK, OnTop, UnderLayer, InReverse, ContainsPhases
  <1>14. CallsOK(t, cs, Len(fs) - 1) /\ InnerOK(t, "enter", cs, Len(fs) - 1)
    BY <1>1, NoCalls DEF InnerOK, CallPhases, NamesPhases, ContainsPhases
  <1>15. RootOK(t, "enter") /\ FramesOK(fs, "enter")
    BY <1>9 DEF Consistent, RootOK, EndPhases, FramesOK, ArrayPhases
  <1>16. DepthOK(t.depth, "enter", Len(fs) - 1, Len(cs), Top(fs).inst.t = "ARRAY")
    BY <1>1, <1>6 DEF DepthOK, EndPhases, UnderLayer, ContainsPhases
  <1> QED
    BY <1>12, <1>13, <1>14, <1>15, <1>16 DEF Consistent, Phases, ValuePhases

-----------------------------------------------------------------------------
(***************************************************************************)
(* The steps.                                                              *)
(***************************************************************************)
LEMMA MachineNow ==
  ASSUME IndInv
  PROVE  IsMachine(M) /\ M.stack = stack
  BY DEF IndInv, Consistent, IsMachine, M

\* A step that writes outcomes and pushes positions, and moves an iterator.
LEMMA LoopStep ==
  ASSUME IndInv, phase \notin EndPhases,
         NEW j, NEW cs, Consistent(stack, frames, phase, j, cs),
         NEW n, Advanced(M, n), Becomes(n),
         it' = j, calls' = cs, UNCHANGED <<frames, phase>>
  PROVE  IndInv'
  <1>1. stack' = n.stack /\ Grown(stack, n.stack)
    BY MachineNow DEF Becomes, Advanced
  <1>2. Consistent(n.stack, frames, phase, j, cs)
    BY <1>1, GrownConsistent
  <1> QED
    BY <1>1, <1>2 DEF IndInv

\* The invariant holds before the first step.
LEMMA InitKeeps ==
  ASSUME Init
  PROVE  IndInv
  <1>1. StackOK(stack) /\ stack.depth = 0 /\ stack = EmptyStack
    BY EmptyStackWellFormed DEF Init, StackOK, EmptyStack, Size
  <1>2. IsList(frames) /\ Len(frames) = 1
    <2>1. frames \in Seq({[inst |-> job.doc, next |-> 1]}) /\ Len(frames) = 1
      BY DEF Init
    <2> QED
      BY <2>1, ListOf
  <1>3. phase = "init" /\ calls = <<>> /\ IsIterator(it)
    BY DEF Init, NoIterator, IsIterator
  <1>4. FramesOK(frames, phase) /\ RootOK(stack, phase)
    BY <1>1, <1>2, <1>3 DEF FramesOK, ArrayPhases, RootOK, EndPhases
  <1>5. DepthOK(stack.depth, phase, Len(frames) - 1, Len(calls),
                Top(frames).inst.t = "ARRAY")
    BY <1>1, <1>3 DEF DepthOK, ValuePhases, UnderLayer, ContainsPhases
  <1>6. IteratorOK(stack, phase, it, Len(frames) - 1)
    BY <1>3 DEF IteratorOK, OnTop, UnderLayer, InReverse, ContainsPhases
  <1>7. /\ CallsOK(stack, calls, Len(frames) - 1)
        /\ InnerOK(stack, phase, calls, Len(frames) - 1)
    BY <1>3, NoCalls DEF InnerOK, CallPhases, NamesPhases, ContainsPhases
  <1> QED
    BY <1>1, <1>3, <1>4, <1>5, <1>6, <1>7 DEF IndInv, Consistent, Phases, EndPhases

\* stream_init keeps the invariant.
LEMMA StreamInitKeeps ==
  ASSUME IndInv, StreamInit, job.root \in Schemas
  PROVE  IndInv'
  <1>1. Consistent(stack, frames, "init", it, calls)
    BY DEF IndInv, StreamInit
  <1>2. Consistent(PushBasic(stack, job.root, NoPos), frames, "enter", it, calls)
    BY <1>1, RootPushed
  <1> QED
    BY <1>2 DEF IndInv, StreamInit

\* Where the pass over the layer of a value starts.
LEMMA ForwardIterator ==
  ASSUME IndInv, phase \notin EndPhases, NEW j, j = ForwardStart(stack)
  PROVE  IsIterator(j) /\ ForwardOnTop(stack, j)
  <1>1. StackOK(stack) /\ Size(stack) \in Nat /\ Size(stack) > 0
    BY Sizes, StackFields DEF IndInv, Consistent
  <1>2. /\ j = [index |-> j.index, finished |-> j.finished]
        /\ j.index \in 1 .. Size(stack)
        /\ stack.last_separator <= j.index
    BY <1>1, ForwardStarts
  <1> QED
    BY <1>1, <1>2 DEF IsIterator, ForwardOnTop

\* And where a reverse pass starts.
LEMMA ReverseIterator ==
  ASSUME IndInv, phase \notin EndPhases, NEW j, j = ReverseStart(stack)
  PROVE  IsIterator(j) /\ Reversing(stack, j, stack.depth)
  <1>1. StackOK(stack) /\ Size(stack) > 0
    BY Sizes DEF IndInv, Consistent
  <1> QED
    BY <1>1, ReverseStarts DEF IsIterator

\* validate_instance enters a value.
LEMMA EnterKeeps ==
  ASSUME IndInv, Enter
  PROVE  IndInv'
  <1>1. PICK qh, j : /\ qh = CASE Inst.t = "OBJECT" -> "object_start"
                               [] Inst.t = "ARRAY" -> "array_start"
                               [] OTHER -> "value_check"
                     /\ j = ForwardStart(stack)
    OBVIOUS
  <1>2. /\ phase = "enter" /\ phase' = qh /\ it' = j
        /\ UNCHANGED <<stack, frames, calls>>
    BY <1>1 DEF Enter, StartForward
  <1>3. phase \notin EndPhases /\ IsIterator(j)
    BY <1>1, <1>2, ForwardIterator DEF EndPhases
  <1>4. Inst = Top(frames).inst
    BY DEF Inst, Frame, Top
  <1>5. /\ qh \in {"object_start", "array_start", "value_check"}
        /\ qh \in ArrayPhases => Top(frames).inst.t = "ARRAY"
        /\ qh = "object_start" => Top(frames).inst.t # "ARRAY"
    BY <1>1, <1>4 DEF ArrayPhases
  <1>6. stack.depth = Len(frames) - 1
    BY <1>2 DEF IndInv, Consistent, DepthOK, ValuePhases
  <1>7. Consistent(stack, frames, qh, j, calls)
    BY <1>1, <1>2, <1>3, <1>5, <1>6, PassStarted DEF IndInv
  <1> QED
    BY <1>2, <1>7 DEF IndInv

\* A pass over the layer of the value: the step for one position.
LEMMA TopLoopKeeps ==
  ASSUME IndInv, phase \in OnTop, NEW p, p = ForwardAt, p # NoPos,
         NEW n, LiveIn(stack, p) => Advanced(M, n), Becomes(n),
         it' = ForwardStep(it), UNCHANGED <<frames, phase, calls>>
  PROVE  IndInv'
  <1>1. PICK j : j = ForwardStep(it)
    OBVIOUS
  <1>2. LiveIn(stack, p) /\ Consistent(stack, frames, phase, j, calls)
    BY <1>1, TopStep DEF IndInv, ForwardAt
  <1>3. phase \notin EndPhases
    BY DEF OnTop, EndPhases
  <1> QED
    BY <1>1, <1>2, <1>3, LoopStep

\* A pass over the layer under the new one: the step for one position.
LEMMA BelowLoopKeeps ==
  ASSUME IndInv, phase \in UnderLayer, NEW p, p = ForwardAt, p # NoPos,
         NEW n, LiveIn(stack, p) => Advanced(M, n), Becomes(n),
         it' = ForwardStep(it), UNCHANGED <<frames, phase, calls>>
  PROVE  IndInv'
  <1>1. PICK j : j = ForwardStep(it)
    OBVIOUS
  <1>2. LiveIn(stack, p) /\ Consistent(stack, frames, phase, j, calls)
    BY <1>1, BelowStep DEF IndInv, ForwardAt
  <1>3. phase \notin EndPhases
    BY DEF UnderLayer, EndPhases
  <1> QED
    BY <1>1, <1>2, <1>3, LoopStep

\* A reverse pass over the layer of the value: the step for one position.
LEMMA ReverseLoopKeeps ==
  ASSUME IndInv, phase \in {"array_propagate", "value_validate"},
         NEW p, p = ReverseAt, p # NoPos,
         NEW n, LiveIn(stack, p) => Advanced(M, n), Becomes(n),
         it' = ReverseStep(stack, it), UNCHANGED <<frames, phase, calls>>
  PROVE  IndInv'
  <1>1. PICK j : j = ReverseStep(stack, it)
    OBVIOUS
  <1>2. phase \in InReverse /\ phase \notin EndPhases
    BY DEF InReverse, EndPhases
  <1>3. LiveIn(stack, p) /\ Consistent(stack, frames, phase, j, calls)
    BY <1>1, <1>2, ReverseStepConsistent DEF IndInv, ReverseAt
  <1> QED
    BY <1>1, <1>2, <1>3, LoopStep

\* The end of a pass.
LEMMA PassEndKeeps ==
  ASSUME IndInv, NEW qh, phase' = qh, UNCHANGED <<stack, it, frames, calls>>,
         \/ phase \in {"object_start", "array_items", "array_append"} /\ qh = "member"
         \/ phase = "value_check" /\ qh = "value"
  PROVE  IndInv'
  <1>1. Consistent(stack, frames, qh, it, calls)
    BY PassEnded DEF IndInv
  <1> QED
    BY <1>1 DEF IndInv

\* object_start.
LEMMA ObjectStartKeeps ==
  ASSUME IndInv, ObjectStart
  PROVE  IndInv'
  <1>1. CASE ForwardLoop("object_start")
    <2>1. PICK p, n : p = ForwardAt /\ n = CheckStart(M, p, "OBJECT")
      OBVIOUS
    <2>2. /\ phase = "object_start" /\ p # NoPos /\ Becomes(n)
          /\ it' = ForwardStep(it) /\ UNCHANGED <<frames, phase, calls>>
      BY <1>1, <2>1 DEF ObjectStart, ForwardLoop, ForwardEnd, ForwardAt
    <2>3. LiveIn(stack, p) => Advanced(M, n)
      BY <2>1, MachineNow, CheckStartAdvances
    <2>4. phase \in OnTop
      BY <2>2 DEF OnTop
    <2> QED
      BY <2>1, <2>2, <2>3, <2>4, TopLoopKeeps
  <1>2. CASE ForwardEnd("object_start")
    <2>1. /\ phase = "object_start" /\ phase' = "member"
          /\ UNCHANGED <<stack, it, frames, calls>>
      BY <1>2 DEF ObjectStart, ForwardLoop, ForwardEnd
    <2> QED
      BY <2>1, PassEndKeeps
  <1> QED
    BY <1>1, <1>2 DEF ObjectStart

\* A handler opens a layer over the one it walks.
LEMMA StartAboveKeeps ==
  ASSUME IndInv, NEW qh, qh \in {"object_key", "array_items", "array_append"},
         StartAboveLayer(qh), UNCHANGED <<frames, calls>>,
         phase \notin EndPhases \cup CallPhases, stack.depth = Len(frames) - 1,
         qh \in ArrayPhases => Top(frames).inst.t = "ARRAY"
  PROVE  IndInv'
  <1>1. PICK j, t : j = ForwardStart(stack) /\ t = PushSeparator(stack)
    OBVIOUS
  <1>2. phase' = qh /\ it' = j /\ stack' = t
    BY <1>1 DEF StartAboveLayer, StartForward
  <1>3. IsIterator(j) /\ ForwardOnTop(stack, j)
    BY <1>1, ForwardIterator
  <1>4. Consistent(t, frames, qh, j, calls)
    BY <1>1, <1>3, LayerOpened DEF IndInv
  <1> QED
    BY <1>2, <1>4 DEF IndInv

\* object_key opens the layer of a member.
LEMMA ObjectKeyKeeps ==
  ASSUME IndInv, ObjectKey
  PROVE  IndInv'
  <1>1. /\ phase = "member" /\ Top(frames).inst.t = "OBJECT"
        /\ StartAboveLayer("object_key") /\ UNCHANGED <<frames, calls>>
    BY DEF ObjectKey, Inst, Frame, Top
  <1>2. stack.depth = Len(frames) - 1
    BY <1>1 DEF IndInv, Consistent, DepthOK
  <1>3. phase \notin EndPhases \cup CallPhases
    BY <1>1 DEF EndPhases, CallPhases, NamesPhases, ContainsPhases
  <1>4. "object_key" \notin ArrayPhases
    BY DEF ArrayPhases
  <1> QED
    BY <1>1, <1>2, <1>3, <1>4, StartAboveKeeps

\* object_key, for one position: the name is checked or the schemas pushed.
LEMMA ObjectKeyPositionKeeps ==
  ASSUME IndInv, ObjectKeyPosition
  PROVE  IndInv'
  <1>1. PICK p, m : p = ForwardAt /\ m = Counted(M, p)
    OBVIOUS
  <1>2. PICK s, tooMany, named :
          /\ s = SchemaAt(m, p)
          /\ tooMany = (Out(m, p).count > s.max_properties)
          /\ named = PushBasics(m, s.property_names, p)
    OBVIOUS
  <1>3. /\ phase = "object_key" /\ p # NoPos /\ it' = ForwardStep(it)
        /\ UNCHANGED frames
    BY <1>1 DEF ObjectKeyPosition, ForwardLoop, ForwardAt
  <1>4. PICK j : j = ForwardStep(it)
    OBVIOUS
  <1>5. phase \in UnderLayer /\ phase \notin EndPhases
    BY <1>3 DEF UnderLayer, EndPhases
  <1>6. /\ LiveIn(stack, p) /\ Level(stack, p) = Len(frames) - 1
        /\ Consistent(stack, frames, "object_key", j, calls)
    BY <1>1, <1>3, <1>4, <1>5, BelowStep DEF IndInv, ForwardAt
  <1>7. IsMachine(M) /\ M.stack = stack
    BY MachineNow
  <1>8. Advanced(M, m) /\ IsMachine(m) /\ LiveIn(m.stack, p)
    BY <1>1, <1>6, <1>7, CountedAdvances, AdvancedKeepsLive DEF Advanced
  <1>9. CASE TakesKey(m, p) /\ ~ tooMany /\ s.property_names # <<>>
    <2>1. PICK c : c = [pos |-> p, top |-> Size(named.stack), item |-> 0,
                        inst |-> Inst, valid |-> FALSE,
                        at |-> ForwardStart(named.stack)]
      OBVIOUS
    <2>2. Becomes(named) /\ calls' = <<c>> /\ phase' = "names_check"
      BY <1>1, <1>2, <1>9, <2>1 DEF ObjectKeyPosition
    <2>3. s.property_names \in Seq(Schemas)
      BY <1>2, <1>8, LivePosition, SchemaLists DEF SchemaAt, Pos, IsMachine
    <2>4. Advanced(m, named)
      BY <1>2, <1>8, <2>3, PushBasicsAdvances
    <2>5. Advanced(M, named)
      BY <1>7, <1>8, <2>4, AdvancedTransitive
    <2>6. stack' = named.stack /\ Grown(stack, named.stack) /\ StackOK(stack)
      BY <1>6, <1>7, <2>2, <2>5 DEF Becomes, Advanced, Consistent
    <2>7. Consistent(named.stack, frames, "object_key", j, calls)
      BY <1>3, <1>5, <1>6, <2>6, GrownConsistent
    <2>8. LiveIn(named.stack, p) /\ Level(named.stack, p) = Len(frames) - 1
      <3>1. LevelsKept(stack, named.stack, Len(frames) - 1)
        BY <2>6, GrownKeepsLevels
      <3>2. Len(frames) - 1 \in Int /\ Len(frames) - 1 <= Len(frames) - 1
        BY Sizes DEF IndInv
      <3> QED
        BY <1>6, <3>1, <3>2, LiveKept
    <2>9. StackOK(named.stack) /\ Size(named.stack) > 0 /\ Size(named.stack) \in Nat
      BY <1>3, <1>5, <2>7, Sizes, StackFields DEF Consistent
    <2>10. PICK at : at = ForwardStart(named.stack)
      OBVIOUS
    <2>11. /\ at = [index |-> at.index, finished |-> at.finished]
           /\ at.index \in Nat \ {0}
      BY <2>9, <2>10, ForwardStarts
    <2>12. IsCall(c) /\ c.pos = p /\ c.at = at
      BY <2>1, <2>10, <2>11 DEF IsCall
    <2>13. Consistent(named.stack, frames, "names_check", j, <<c>>)
      BY <2>7, <2>8, <2>11, <2>12, NamesCalled
    <2> QED
      BY <1>3, <1>4, <2>2, <2>6, <2>13 DEF IndInv
  <1>10. CASE ~ (TakesKey(m, p) /\ ~ tooMany /\ s.property_names # <<>>)
    <2>1. PICK n : n = IF ~ TakesKey(m, p) THEN m
                       ELSE IF tooMany THEN FailFinal(m, p, KeywordFailure)
                       ELSE PushMember(m, p)
      OBVIOUS
    <2>2. Becomes(n) /\ UNCHANGED <<calls, phase>>
      BY <1>1, <1>2, <1>10, <2>1 DEF ObjectKeyPosition
    <2>3. Advanced(m, n)
      <3>1. KeywordFailure \in Failures
        BY DEF Failures
      <3> QED
        BY <1>8, <2>1, <3>1, AdvancedReflexive, FailFinalAdvances, PushMemberAdvances
    <2>4. Advanced(M, n)
      BY <1>7, <1>8, <2>3, AdvancedTransitive
    <2> QED
      BY <1>1, <1>3, <1>5, <2>2, <2>4, BelowLoopKeeps
  <1> QED
    BY <1>9, <1>10

\* validate_instance calls itself for the next member.
LEMMA DescendKeeps ==
  ASSUME IndInv,
         phase = "object_key" \/ (phase = "member" /\ Top(frames).inst.t = "ARRAY"),
         NEW x, frames' = Append([frames EXCEPT ![Len(frames)].next = @ + 1], x),
         phase' = "enter", UNCHANGED <<stack, it, calls>>
  PROVE  IndInv'
  <1>1. IsList(frames) /\ Len(frames) \in Nat /\ Len(frames) > 0
    BY Sizes DEF IndInv, Consistent, FramesOK
  <1>2. PICK f : f = [frames[Len(frames)] EXCEPT !.next = @ + 1]
    OBVIOUS
  <1>3. PICK fs : fs = Replaced(frames, Len(frames), f)
    OBVIOUS
  <1>4. [frames EXCEPT ![Len(frames)].next = @ + 1] = fs
    BY <1>2, <1>3 DEF Replaced
  <1>5. IsList(fs) /\ Len(fs) = Len(frames)
    BY <1>1, <1>3, ListReplaced
  <1>6. frames' = Append(fs, x)
    BY <1>4
  <1>7. IsList(Append(fs, x)) /\ Len(Append(fs, x)) = Len(fs) + 1
    BY <1>5, ListAppend
  <1>8. PICK gs : gs = Append(fs, x)
    OBVIOUS
  <1>9. Consistent(stack, gs, "enter", it, calls)
    BY <1>5, <1>7, <1>8, Descended DEF IndInv
  <1> QED
    BY <1>6, <1>8, <1>9 DEF IndInv

\* The member's value is walked.
LEMMA ObjectKeyEndKeeps ==
  ASSUME IndInv, ObjectKeyEnd
  PROVE  IndInv'
  <1>1. /\ phase = "object_key" /\ phase' = "enter"
        /\ frames' = Append([frames EXCEPT ![Len(frames)].next = @ + 1],
                            [inst |-> Inst.kids[Frame.next].val, next |-> 1])
        /\ UNCHANGED <<stack, it, calls>>
    BY DEF ObjectKeyEnd, ForwardEnd
  <1> QED
    BY <1>1, DescendKeeps

\* The next item is walked.
LEMMA ArrayItemKeeps ==
  ASSUME IndInv, ArrayItem
  PROVE  IndInv'
  <1>1. /\ phase = "member" /\ phase' = "enter" /\ Top(frames).inst.t = "ARRAY"
        /\ frames' = Append([frames EXCEPT ![Len(frames)].next = @ + 1],
                            [inst |-> Inst.kids[Frame.next].val, next |-> 1])
        /\ UNCHANGED <<stack, it, calls>>
    BY DEF ArrayItem, Inst, Frame, Top
  <1> QED
    BY <1>1, DescendKeeps

\* array_start, its first loop.
LEMMA ArrayStartKeeps ==
  ASSUME IndInv, ArrayStart
  PROVE  IndInv'
  <1>1. CASE ForwardLoop("array_start")
    <2>1. PICK p, n : p = ForwardAt /\ n = CheckStart(M, p, "ARRAY")
      OBVIOUS
    <2>2. /\ phase = "array_start" /\ p # NoPos /\ Becomes(n)
          /\ it' = ForwardStep(it) /\ UNCHANGED <<frames, phase, calls>>
      BY <1>1, <2>1 DEF ArrayStart, ForwardLoop, ForwardEnd, ForwardAt
    <2>3. LiveIn(stack, p) => Advanced(M, n)
      BY <2>1, MachineNow, CheckStartAdvances
    <2>4. phase \in OnTop
      BY <2>2 DEF OnTop
    <2> QED
      BY <2>1, <2>2, <2>3, <2>4, TopLoopKeeps
  <1>2. CASE ForwardEnd("array_start")
    <2>1. PICK j : j = ReverseStart(stack)
      OBVIOUS
    <2>2. /\ phase = "array_start" /\ phase' = "array_propagate" /\ it' = j
          /\ UNCHANGED <<stack, frames, calls>>
      BY <1>2, <2>1 DEF ArrayStart, ForwardLoop, ForwardEnd, StartReverse
    <2>3. phase \notin EndPhases /\ IsIterator(j)
      BY <2>1, <2>2, ReverseIterator DEF EndPhases
    <2>4. /\ Top(frames).inst.t = "ARRAY" /\ stack.depth = Len(frames) - 1
      BY <2>2 DEF IndInv, Consistent, FramesOK, ArrayPhases, DepthOK, ValuePhases
    <2>5. Consistent(stack, frames, "array_propagate", j, calls)
      BY <2>1, <2>2, <2>3, <2>4, PassStarted DEF IndInv
    <2> QED
      BY <2>2, <2>5 DEF IndInv
  <1> QED
    BY <1>1, <1>2 DEF ArrayStart

\* array_start, its second loop.
LEMMA ArrayPropagateKeeps ==
  ASSUME IndInv, ArrayPropagate
  PROVE  IndInv'
  <1>1. CASE ReverseLoop("array_propagate")
    <2>1. PICK p, n : p = ReverseAt /\ n = Propagate(M, p)
      OBVIOUS
    <2>2. /\ phase = "array_propagate" /\ p # NoPos /\ Becomes(n)
          /\ it' = ReverseStep(stack, it) /\ UNCHANGED <<frames, phase, calls>>
      BY <1>1, <2>1 DEF ArrayPropagate, ReverseLoop, ReverseEnd, ReverseAt
    <2>3. LiveIn(stack, p) => Advanced(M, n)
      BY <2>1, MachineNow, PropagateAdvances
    <2> QED
      BY <2>1, <2>2, <2>3, ReverseLoopKeeps
  <1>2. CASE ReverseEnd("array_propagate")
    <2>1. /\ phase = "array_propagate" /\ StartAboveLayer("array_items")
          /\ UNCHANGED <<frames, calls>>
      BY <1>2 DEF ArrayPropagate, ReverseLoop, ReverseEnd
    <2>2. Top(frames).inst.t = "ARRAY" /\ stack.depth = Len(frames) - 1
      BY <2>1 DEF IndInv, Consistent, FramesOK, ArrayPhases, DepthOK, ValuePhases
    <2>3. phase \notin EndPhases \cup CallPhases
      BY <2>1 DEF EndPhases, CallPhases, NamesPhases, ContainsPhases
    <2> QED
      BY <2>1, <2>2, <2>3, StartAboveKeeps
  <1> QED
    BY <1>1, <1>2 DEF ArrayPropagate

\* array_start, its last loop.
LEMMA ArrayItemsKeeps ==
  ASSUME IndInv, ArrayItems
  PROVE  IndInv'
  <1>1. CASE ForwardLoop("array_items")
    <2>1. PICK p, n : /\ p = ForwardAt
                      /\ n = IF IsValid(M, p) /\ SchemaAt(M, p).type = "ARRAY"
                             THEN PushItem(M, p) ELSE M
      OBVIOUS
    <2>2. /\ phase = "array_items" /\ p # NoPos /\ Becomes(n)
          /\ it' = ForwardStep(it) /\ UNCHANGED <<frames, phase, calls>>
      BY <1>1, <2>1 DEF ArrayItems, ForwardLoop, ForwardEnd, ForwardAt
    <2>3. LiveIn(stack, p) => Advanced(M, n)
      BY <2>1, MachineNow, PushItemAdvances, AdvancedReflexive
    <2>4. phase \in UnderLayer
      BY <2>2 DEF UnderLayer
    <2> QED
      BY <2>1, <2>2, <2>3, <2>4, BelowLoopKeeps
  <1>2. CASE ForwardEnd("array_items")
    <2>1. /\ phase = "array_items" /\ phase' = "member"
          /\ UNCHANGED <<stack, it, frames, calls>>
      BY <1>2 DEF ArrayItems, ForwardLoop, ForwardEnd
    <2> QED
      BY <2>1, PassEndKeeps
  <1> QED
    BY <1>1, <1>2 DEF ArrayItems

\* array_append opens the layer of the next item.
LEMMA ArrayAppendKeeps ==
  ASSUME IndInv, ArrayAppend
  PROVE  IndInv'
  <1>1. /\ phase = "append" /\ StartAboveLayer("array_append")
        /\ UNCHANGED <<frames, calls>>
    BY DEF ArrayAppend
  <1>2. Top(frames).inst.t = "ARRAY" /\ stack.depth = Len(frames) - 1
    BY <1>1 DEF IndInv, Consistent, FramesOK, ArrayPhases, DepthOK, ValuePhases
  <1>3. phase \notin EndPhases \cup CallPhases
    BY <1>1 DEF EndPhases, CallPhases, NamesPhases, ContainsPhases
  <1> QED
    BY <1>1, <1>2, <1>3, StartAboveKeeps

\* array_append, for one position.
LEMMA ArrayAppendPositionKeeps ==
  ASSUME IndInv, ArrayAppendPosition
  PROVE  IndInv'
  <1>1. CASE ForwardLoop("array_append")
    <2>1. PICK p, m, n : /\ p = ForwardAt
                         /\ m = Counted(M, p)
                         /\ n = IF SchemaAt(m, p).type = "ARRAY"
                                THEN AppendItem(m, p) ELSE m
      OBVIOUS
    <2>2. /\ phase = "array_append" /\ p # NoPos /\ Becomes(n)
          /\ it' = ForwardStep(it) /\ UNCHANGED <<frames, phase, calls>>
      BY <1>1, <2>1 DEF ArrayAppendPosition, ForwardLoop, ForwardEnd, ForwardAt
    <2>3. ASSUME LiveIn(stack, p)
          PROVE  Advanced(M, n)
      <3>1. Advanced(M, m) /\ IsMachine(m) /\ LiveIn(m.stack, p) /\ IsMachine(M)
        BY <2>1, <2>3, MachineNow, CountedAdvances, AdvancedKeepsLive DEF Advanced
      <3>2. Advanced(m, n)
        BY <2>1, <3>1, AppendItemAdvances, AdvancedReflexive
      <3> QED
        BY <3>1, <3>2, AdvancedTransitive
    <2>4. phase \in UnderLayer
      BY <2>2 DEF UnderLayer
    <2> QED
      BY <2>1, <2>2, <2>3, <2>4, BelowLoopKeeps
  <1>2. CASE ForwardEnd("array_append")
    <2>1. /\ phase = "array_append" /\ phase' = "member"
          /\ UNCHANGED <<stack, it, frames, calls>>
      BY <1>2 DEF ArrayAppendPosition, ForwardLoop, ForwardEnd
    <2> QED
      BY <2>1, PassEndKeeps
  <1> QED
    BY <1>1, <1>2 DEF ArrayAppendPosition

\* array_end removes the layer nothing was validated in.
LEMMA ArrayEndKeeps ==
  ASSUME IndInv, ArrayEnd
  PROVE  IndInv'
  <1>1. /\ phase = "member" /\ phase' = "value" /\ Top(frames).inst.t = "ARRAY"
        /\ stack' = LayerRemove(stack) /\ UNCHANGED <<frames, it, calls>>
    BY DEF ArrayEnd, Inst, Frame, Top
  <1>2. Consistent(LayerRemove(stack), frames, "value", it, calls)
    BY <1>1, ArrayRemoved DEF IndInv
  <1> QED
    BY <1>1, <1>2 DEF IndInv

\* stream_value starts for an object.
LEMMA ObjectEndKeeps ==
  ASSUME IndInv, ObjectEnd
  PROVE  IndInv'
  <1>1. PICK j : j = ForwardStart(stack)
    OBVIOUS
  <1>2. /\ phase = "member" /\ phase' = "value_check" /\ it' = j
        /\ Top(frames).inst.t = "OBJECT" /\ UNCHANGED <<stack, frames, calls>>
    BY <1>1 DEF ObjectEnd, StartForward, Inst, Frame, Top
  <1>3. phase \notin EndPhases /\ IsIterator(j)
    BY <1>1, <1>2, ForwardIterator DEF EndPhases
  <1>4. stack.depth = Len(frames) - 1
    BY <1>2 DEF IndInv, Consistent, DepthOK
  <1>5. "value_check" \notin ArrayPhases
    BY DEF ArrayPhases
  <1>6. Consistent(stack, frames, "value_check", j, calls)
    BY <1>1, <1>2, <1>3, <1>4, <1>5, PassStarted DEF IndInv
  <1> QED
    BY <1>2, <1>6 DEF IndInv

\* The first loop of stream_value.
LEMMA ValueCheckKeeps ==
  ASSUME IndInv, ValueCheck
  PROVE  IndInv'
  <1>1. CASE ForwardLoop("value_check")
    <2>1. PICK p, n : /\ p = ForwardAt
                      /\ n = IF ~ IsValid(M, p) THEN M
                             ELSE IF Inst.t = "OBJECT" THEN PreValue(M, p)
                             ELSE CompositionCheck(M, p)
      OBVIOUS
    <2>2. /\ phase = "value_check" /\ p # NoPos /\ Becomes(n)
          /\ it' = ForwardStep(it) /\ UNCHANGED <<frames, phase, calls>>
      BY <1>1, <2>1 DEF ValueCheck, ForwardLoop, ForwardEnd, ForwardAt
    <2>3. LiveIn(stack, p) => Advanced(M, n)
      BY <2>1, MachineNow, PreValueAdvances, CompositionCheckAdvances,
         AdvancedReflexive
    <2>4. phase \in OnTop
      BY <2>2 DEF OnTop
    <2> QED
      BY <2>1, <2>2, <2>3, <2>4, TopLoopKeeps
  <1>2. CASE ForwardEnd("value_check")
    <2>1. /\ phase = "value_check" /\ phase' = "value"
          /\ UNCHANGED <<stack, it, frames, calls>>
      BY <1>2 DEF ValueCheck, ForwardLoop, ForwardEnd
    <2> QED
      BY <2>1, PassEndKeeps
  <1> QED
    BY <1>1, <1>2 DEF ValueCheck

\* The second loop of stream_value starts.
LEMMA StartValidateKeeps ==
  ASSUME IndInv, StartValidate
  PROVE  IndInv'
  <1>1. PICK j : j = ReverseStart(stack)
    OBVIOUS
  <1>2. /\ phase = "value" /\ phase' = "value_validate" /\ it' = j
        /\ UNCHANGED <<stack, frames, calls>>
    BY <1>1 DEF StartValidate, StartReverse
  <1>3. phase \notin EndPhases /\ IsIterator(j)
    BY <1>1, <1>2, ReverseIterator DEF EndPhases
  <1>4. stack.depth = Len(frames) - 1 /\ "value_validate" \notin ArrayPhases
    BY <1>2 DEF IndInv, Consistent, DepthOK, ValuePhases, ArrayPhases
  <1>5. Consistent(stack, frames, "value_validate", j, calls)
    BY <1>1, <1>2, <1>3, <1>4, PassStarted DEF IndInv
  <1> QED
    BY <1>2, <1>5 DEF IndInv

\* The records a step of a loop inside a validation writes.
LEMMA CallFields ==
  ASSUME NEW c, IsCall(c), NEW at, at = [index |-> at.index, finished |-> at.finished]
  PROVE  /\ IsCall([c EXCEPT !.at = at]) /\ [c EXCEPT !.at = at].pos = c.pos
         /\ [c EXCEPT !.at = at].at = at
         /\ \A v : /\ IsCall([c EXCEPT !.valid = v])
                   /\ [c EXCEPT !.valid = v].pos = c.pos
         /\ \A k : /\ IsCall([c EXCEPT !.item = k])
                   /\ [c EXCEPT !.item = k].pos = c.pos
  <1>1. PICK d : d = [c EXCEPT !.at = at]
    OBVIOUS
  <1>2. d = [pos |-> c.pos, top |-> c.top, item |-> c.item, inst |-> c.inst,
             valid |-> c.valid, at |-> at]
    BY <1>1 DEF IsCall
  <1>3. IsCall(d) /\ d.pos = c.pos /\ d.at = at
    BY <1>2 DEF IsCall
  <1>4. ASSUME NEW v
        PROVE  IsCall([c EXCEPT !.valid = v]) /\ [c EXCEPT !.valid = v].pos = c.pos
    <2>1. PICK e : e = [c EXCEPT !.valid = v]
      OBVIOUS
    <2>2. e = [pos |-> c.pos, top |-> c.top, item |-> c.item, inst |-> c.inst,
               valid |-> v, at |-> c.at]
      BY <2>1 DEF IsCall
    <2>3. IsCall(e) /\ e.pos = c.pos
      BY <2>2 DEF IsCall
    <2> QED
      BY <2>1, <2>3
  <1>5. ASSUME NEW k
        PROVE  IsCall([c EXCEPT !.item = k]) /\ [c EXCEPT !.item = k].pos = c.pos
    <2>1. PICK e : e = [c EXCEPT !.item = k]
      OBVIOUS
    <2>2. e = [pos |-> c.pos, top |-> c.top, item |-> k, inst |-> c.inst,
               valid |-> c.valid, at |-> c.at]
      BY <2>1 DEF IsCall
    <2>3. IsCall(e) /\ e.pos = c.pos
      BY <2>2 DEF IsCall
    <2> QED
      BY <2>1, <2>3
  <1> QED
    BY <1>1, <1>3, <1>4, <1>5

\* A step of a loop inside a validation.
LEMMA CallStep ==
  ASSUME IndInv,
         NEW qh, \/ phase \in NamesLoop /\ qh \in NamesLoop
                 \/ phase \in ContainsLoop /\ qh \in ContainsLoop,
         NEW c, IsCall(c), c.pos = Call.pos, WithCall(c), phase' = qh,
         NEW t, Grown(stack, t), stack' = t, UNCHANGED <<frames, it>>,
         qh \in {"names_check", "contains_check"} => c.at.index \in Nat \ {0},
         qh \in {"names_validate", "contains_validate"} =>
           Reversing(stack, c.at, Len(frames) - 1 + Len(calls))
  PROVE  IndInv'
  <1>1. PICK cs : cs = Replaced(calls, Len(calls), c)
    OBVIOUS
  <1>2. calls' = cs
    BY <1>1 DEF WithCall, Replaced
  <1>3. Consistent(stack, frames, qh, it, cs)
    BY <1>1, CallChanged DEF IndInv, Call
  <1>4. qh \notin EndPhases
    BY DEF NamesLoop, ContainsLoop, ContainsPhases, EndPhases
  <1>5. Consistent(t, frames, qh, it, cs)
    BY <1>3, <1>4, GrownConsistent
  <1> QED
    BY <1>2, <1>5 DEF IndInv

\* The composition pass at the start of a loop inside a validation.
LEMMA CallCheckKeeps ==
  ASSUME IndInv, NEW check, NEW next, CallCheck(check, next),
         \/ check = "names_check" /\ next = "names_validate"
         \/ check = "contains_check" /\ next = "contains_item",
         UNCHANGED <<frames, it>>
  PROVE  IndInv'
  <1>1. /\ phase = check /\ phase \in CallPhases /\ phase \notin EndPhases
        /\ \/ check \in NamesLoop /\ next \in NamesLoop
           \/ check \in ContainsLoop /\ next \in ContainsLoop
    BY DEF CallCheck, CallPhases, NamesPhases, ContainsPhases, EndPhases, NamesLoop,
       ContainsLoop
  <1>2. /\ IsCall(Call) /\ Call.at.index \in Nat \ {0} /\ StackOK(stack)
        /\ Len(calls) \in Nat
    BY <1>1, InnermostCall DEF IndInv, Call, Consistent, InnerOK
  <1>3. CASE CallForward # NoPos
    <2>1. PICK p, n, at : /\ p = CallForward /\ n = CompositionCheck(M, p)
                          /\ at = ForwardStep(Call.at)
      OBVIOUS
    <2>2. Becomes(n) /\ WithCall([Call EXCEPT !.at = at]) /\ phase' = check
      BY <1>1, <1>3, <2>1 DEF CallCheck
    <2>3. LiveIn(stack, p)
      BY <1>2, <1>3, <2>1, ForwardReturns DEF CallForward
    <2>4. Advanced(M, n)
      BY <2>1, <2>3, MachineNow, CompositionCheckAdvances
    <2>5. stack' = n.stack /\ Grown(stack, n.stack)
      BY <2>2, <2>4, MachineNow DEF Becomes, Advanced
    <2>6. at = [index |-> Call.at.index + 1, finished |-> Call.at.finished]
      BY <1>2, <2>1 DEF IsCall, ForwardStep
    <2>7. /\ at = [index |-> at.index, finished |-> at.finished]
          /\ at.index \in Nat \ {0}
      BY <1>2, <2>6
    <2>8. PICK c : c = [Call EXCEPT !.at = at]
      OBVIOUS
    <2>9. IsCall(c) /\ c.pos = Call.pos /\ c.at = at
      BY <1>2, <2>7, <2>8, CallFields
    <2>10. check \notin {"names_validate", "contains_validate"}
      OBVIOUS
    <2> QED
      BY <1>1, <2>2, <2>5, <2>7, <2>8, <2>9, <2>10, CallStep
  <1>4. CASE CallForward = NoPos
    <2>1. PICK at : at = ReverseStart(stack)
      OBVIOUS
    <2>2. /\ WithCall([Call EXCEPT !.at = at]) /\ phase' = next
          /\ stack' = stack
      BY <1>4, <2>1 DEF CallCheck
    <2>3. /\ at = [index |-> at.index, finished |-> at.finished]
          /\ Reversing(stack, at, stack.depth)
      BY <1>1, <2>1, ReverseIterator DEF IsIterator
    <2>4. check = "names_check" => stack.depth = Len(frames) - 1 + Len(calls)
      BY <1>1 DEF IndInv, Consistent, DepthOK, UnderLayer, InnerOK, NamesPhases
    <2>5. PICK c : c = [Call EXCEPT !.at = at]
      OBVIOUS
    <2>6. IsCall(c) /\ c.pos = Call.pos /\ c.at = at
      BY <1>2, <2>3, <2>5, CallFields
    <2>7. next \in {"names_validate", "contains_validate"} =>
            Reversing(stack, c.at, Len(frames) - 1 + Len(calls))
      BY <2>3, <2>4, <2>6
    <2>8. next \notin {"names_check", "contains_check"}
      OBVIOUS
    <2>9. Grown(stack, stack)
      BY <1>2, GrownReflexive
    <2> QED
      BY <1>1, <2>2, <2>5, <2>6, <2>7, <2>8, <2>9, CallStep
  <1> QED
    BY <1>3, <1>4

\* The composition of the name's layer.
LEMMA NamesCheckKeeps ==
  ASSUME IndInv, NamesCheck
  PROVE  IndInv'
  BY CallCheckKeeps DEF NamesCheck

\* The composition of the layer of contains.
LEMMA ContainsCheckKeeps ==
  ASSUME IndInv, ContainsCheck
  PROVE  IndInv'
  BY CallCheckKeeps DEF ContainsCheck

\* A step of the reverse loop inside a validation.
LEMMA CallReverseKeeps ==
  ASSUME IndInv, phase \in {"names_validate", "contains_validate"},
         NEW p, p = CallReverse, p # NoPos,
         NEW n, LiveIn(stack, p) => Advanced(M, n), Becomes(n),
         WithCall([Call EXCEPT !.at = ReverseStep(stack, @)]),
         UNCHANGED <<frames, phase, it>>
  PROVE  IndInv'
  <1>1. /\ phase \in CallPhases
        /\ \/ phase \in NamesLoop
           \/ phase \in ContainsLoop
        /\ phase \notin {"names_check", "contains_check"}
    BY DEF CallPhases, NamesPhases, ContainsPhases, NamesLoop, ContainsLoop
  <1>2. /\ IsCall(Call) /\ StackOK(stack)
        /\ Reversing(stack, Call.at, Len(frames) - 1 + Len(calls))
    BY <1>1, InnermostCall DEF IndInv, Call, Consistent, InnerOK
  <1>3. PICK level, at : /\ level = Len(frames) - 1 + Len(calls)
                         /\ at = ReverseStep(stack, Call.at)
    OBVIOUS
  <1>4. /\ LiveIn(stack, p)
        /\ at = [index |-> at.index, finished |-> at.finished]
        /\ Reversing(stack, at, level)
    BY <1>2, <1>3, ReverseReturns, ReverseSteps DEF CallReverse
  <1>5. stack' = n.stack /\ Grown(stack, n.stack)
    BY <1>4, MachineNow DEF Becomes, Advanced
  <1>6. PICK c : c = [Call EXCEPT !.at = at]
    OBVIOUS
  <1>7. IsCall(c) /\ c.pos = Call.pos /\ c.at = at
    BY <1>2, <1>4, <1>6, CallFields
  <1>8. WithCall(c)
    BY <1>3, <1>6
  <1>9. phase' = phase
    OBVIOUS
  <1> QED
    BY <1>1, <1>3, <1>4, <1>5, <1>7, <1>8, <1>9, CallStep

\* The name is validated, one position a step.
LEMMA NamesValidateKeeps ==
  ASSUME IndInv, NamesValidate
  PROVE  IndInv'
  <1>1. PICK p, n : p = CallReverse /\ n = JudgeName(M, p)
    OBVIOUS
  <1>2. /\ phase = "names_validate" /\ p # NoPos /\ Becomes(n)
        /\ WithCall([Call EXCEPT !.at = ReverseStep(stack, @)])
        /\ UNCHANGED <<frames, phase, it>>
    BY <1>1 DEF NamesValidate
  <1>3. LiveIn(stack, p) => Advanced(M, n)
    BY <1>1, MachineNow, JudgeNameAdvances
  <1> QED
    BY <1>1, <1>2, <1>3, CallReverseKeeps

\* The layer of the name is removed.
LEMMA NamesEndKeeps ==
  ASSUME IndInv, NamesEnd
  PROVE  IndInv'
  <1>1. PICK v, t : v = IsValid(M, Call.top) /\ t = LayerRemove(stack)
    OBVIOUS
  <1>2. PICK c : c = [Call EXCEPT !.valid = v]
    OBVIOUS
  <1>3. PICK cs : cs = Replaced(calls, Len(calls), c)
    OBVIOUS
  <1>4. /\ phase = "names_validate" /\ phase' = "names_reopen"
        /\ stack' = t /\ calls' = cs /\ UNCHANGED <<frames, it>>
    BY <1>1, <1>2, <1>3 DEF NamesEnd, WithCall, Replaced
  <1>5. phase \in CallPhases
    BY <1>4 DEF CallPhases, NamesPhases
  <1>6. IsCall(Call)
    BY <1>5, InnermostCall DEF IndInv, Call
  <1>7. IsCall(c) /\ c.pos = Call.pos
    <2>1. PICK at : at = Call.at
      OBVIOUS
    <2>2. at = [index |-> at.index, finished |-> at.finished]
      BY <1>6, <2>1 DEF IsCall
    <2> QED
      BY <1>2, <1>6, <2>2, CallFields
  <1>8. Consistent(t, frames, "names_reopen", it, cs)
    BY <1>1, <1>3, <1>4, <1>7, NamesRemoved DEF IndInv, Call
  <1> QED
    BY <1>4, <1>8 DEF IndInv

\* The layer of the member is opened again.
LEMMA NamesReopenKeeps ==
  ASSUME IndInv, NamesReopen
  PROVE  IndInv'
  <1>1. PICK t : t = PushSeparator(stack)
    OBVIOUS
  <1>2. /\ phase = "names_reopen" /\ phase' = "names_result"
        /\ stack' = t /\ UNCHANGED <<frames, it, calls>>
    BY <1>1 DEF NamesReopen
  <1>3. stack.depth = Len(frames) - 1 /\ IsIterator(it) /\ ForwardOnTop(stack, it)
    BY <1>2 DEF IndInv, Consistent, DepthOK, ValuePhases, IteratorOK, OnTop
  <1>4. "names_result" \notin ArrayPhases
    BY DEF ArrayPhases
  <1>5. Consistent(t, frames, "names_result", it, calls)
    BY <1>1, <1>2, <1>3, <1>4, LayerOpened DEF IndInv
  <1> QED
    BY <1>2, <1>5 DEF IndInv

\* The result of the name is used at the position it was checked for.
LEMMA NamesResultKeeps ==
  ASSUME IndInv, NamesResult
  PROVE  IndInv'
  <1>1. PICK p, n : /\ p = Call.pos
                    /\ n = IF Call.valid THEN PushMember(M, p)
                           ELSE FailFinal(M, p, KeywordFailure)
    OBVIOUS
  <1>2. /\ phase = "names_result" /\ phase' = "object_key" /\ Becomes(n)
        /\ calls' = <<>> /\ UNCHANGED <<frames, it>>
    BY <1>1 DEF NamesResult
  <1>3. phase \in CallPhases /\ phase \notin EndPhases
    BY <1>2 DEF CallPhases, NamesPhases, EndPhases
  <1>4. LiveIn(stack, p)
    BY <1>1, <1>3, InnermostCall DEF IndInv, Call
  <1>5. Advanced(M, n)
    <2>1. KeywordFailure \in Failures
      BY DEF Failures
    <2> QED
      BY <1>1, <1>4, <2>1, MachineNow, PushMemberAdvances, FailFinalAdvances
  <1>6. stack' = n.stack /\ Grown(stack, n.stack)
    BY <1>2, <1>5, MachineNow DEF Becomes, Advanced
  <1>7. Consistent(n.stack, frames, "names_result", it, calls)
    BY <1>2, <1>3, <1>6, GrownConsistent DEF IndInv
  <1>8. Consistent(n.stack, frames, "object_key", it, <<>>)
    BY <1>7, NamesReturned
  <1> QED
    BY <1>2, <1>6, <1>8 DEF IndInv

\* The contains schema of a position gets a layer and a loop of its own.
LEMMA ContainsStartKeeps ==
  ASSUME IndInv, NEW p, LiveIn(stack, p), Level(stack, p) = stack.depth,
         NEW i, NEW cs, Consistent(stack, frames, phase, i, cs),
         phase \in {"value_validate", "contains_validate"},
         NEW inst, ContainsStart(p, inst, cs), it' = i, UNCHANGED frames
  PROVE  IndInv'
  <1>1. PICK n : n = ValidateValue(M, p, inst)
    OBVIOUS
  <1>2. PICK t : t = PushSeparator(n.stack)
    OBVIOUS
  <1>3. PICK c : c = [pos |-> p, top |-> Size(stack) + 2, item |-> 1,
                      inst |-> inst, valid |-> FALSE, at |-> NoIterator]
    OBVIOUS
  <1>4. PICK new : new = Added(cs, c)
    OBVIOUS
  <1>5. /\ Advanced(M, n) /\ IsMachine(M) /\ M.stack = stack
        /\ n = [stack |-> n.stack, error |-> n.error] /\ Grown(stack, n.stack)
    BY <1>1, MachineNow, ValidateValueAdvances DEF Advanced, IsMachine
  <1>6. [n EXCEPT !.stack = PushSeparator(@)].stack = t
    BY <1>2, <1>5
  <1>7. stack' = t /\ calls' = new /\ phase' = "contains_push"
    BY <1>1, <1>3, <1>4, <1>6 DEF ContainsStart, Becomes, Added
  <1>8. phase \notin EndPhases
    BY DEF EndPhases
  <1>9. Consistent(n.stack, frames, phase, i, cs)
    BY <1>5, <1>8, GrownConsistent
  <1>10. IsCall(c) /\ c.pos = p
    <2>1. PICK at : at = NoIterator
      OBVIOUS
    <2>2. at = [index |-> at.index, finished |-> at.finished]
      BY <2>1 DEF NoIterator
    <2> QED
      BY <1>3, <2>1, <2>2 DEF IsCall
  <1>11. LiveIn(n.stack, p) /\ Level(n.stack, p) = n.stack.depth
    <2>1. stack.depth \in Int /\ stack.depth <= stack.depth /\ StackOK(stack)
      BY Sizes DEF IndInv, Consistent
    <2>2. LevelsKept(stack, n.stack, stack.depth) /\ n.stack.depth = stack.depth
      BY <1>5, <2>1, GrownKeepsLevels DEF Grown
    <2> QED
      BY <2>1, <2>2, LiveKept
  <1>12. Consistent(t, frames, "contains_push", i, new)
    BY <1>2, <1>4, <1>9, <1>10, <1>11, ContainsOpened DEF Added
  <1> QED
    BY <1>7, <1>12 DEF IndInv

\* The second loop of stream_value, for one position.
LEMMA ValueValidateKeeps ==
  ASSUME IndInv, ValueValidate
  PROVE  IndInv'
  <1>1. PICK p, j : p = ReverseAt /\ j = ReverseStep(stack, it)
    OBVIOUS
  <1>2. /\ phase = "value_validate" /\ p # NoPos /\ it' = j /\ UNCHANGED frames
    BY <1>1 DEF ValueValidate, ReverseLoop, ReverseAt
  <1>3. /\ LiveIn(stack, p) /\ Level(stack, p) = Len(frames) - 1
        /\ Consistent(stack, frames, phase, j, calls)
    <2>1. phase \in InReverse
      BY <1>2 DEF InReverse
    <2> QED
      BY <1>1, <1>2, <2>1, ReverseStepConsistent DEF IndInv, ReverseAt
  <1>4. CASE Judgeable(M, p) /\ ReachesContains(M, p, Inst)
    <2>1. ContainsStart(p, Inst, calls)
      BY <1>1, <1>4 DEF ValueValidate
    <2>2. Level(stack, p) = stack.depth
      BY <1>2, <1>3 DEF IndInv, Consistent, DepthOK, ValuePhases
    <2> QED
      BY <1>2, <1>3, <2>1, <2>2, ContainsStartKeeps
  <1>5. CASE ~ (Judgeable(M, p) /\ ReachesContains(M, p, Inst))
    <2>1. PICK m, n : /\ m = IF Judgeable(M, p) THEN ValidateValue(M, p, Inst) ELSE M
                      /\ n = Propagate(m, p)
      OBVIOUS
    <2>2. Becomes(n) /\ UNCHANGED <<phase, calls>>
      BY <1>1, <1>5, <2>1 DEF ValueValidate
    <2>3. IsMachine(M) /\ LiveIn(M.stack, p)
      BY <1>3, MachineNow
    <2>4. Advanced(M, m)
      BY <2>1, <2>3, ValidateValueAdvances, AdvancedReflexive
    <2>5. IsMachine(m) /\ LiveIn(m.stack, p)
      BY <2>3, <2>4, AdvancedKeepsLive DEF Advanced
    <2>6. Advanced(M, n)
      BY <2>1, <2>3, <2>4, <2>5, PropagateAdvances, AdvancedTransitive
    <2> QED
      BY <1>1, <1>2, <2>2, <2>6, ReverseLoopKeeps
  <1> QED
    BY <1>4, <1>5

\* The layer of the value is removed and validate_instance returns.
LEMMA ValueEndKeeps ==
  ASSUME IndInv, ValueEnd
  PROVE  IndInv'
  <1>1. PICK gs, t : gs = Cut(frames) /\ t = LayerRemove(stack)
    OBVIOUS
  <1>2. PICK qh : qh = IF Len(frames) = 1 THEN "done"
                       ELSE IF Top(gs).inst.t = "ARRAY" THEN "append" ELSE "member"
    OBVIOUS
  <1>3. /\ phase = "value_validate" /\ stack' = t /\ frames' = gs
        /\ UNCHANGED <<it, calls>>
    BY <1>1 DEF ValueEnd, ReverseEnd, Cut
  <1>4. phase' = qh
    <2>1. CASE Len(frames) = 1
      BY <1>2, <2>1 DEF ValueEnd
    <2>2. CASE Len(frames) # 1
      <3>1. IsList(frames) /\ Len(frames) \in Nat /\ Len(frames) > 0
        BY <1>3, Sizes DEF IndInv, Consistent, FramesOK
      <3>2. /\ Len(gs) = Len(frames) - 1
            /\ \A k \in 1 .. Len(frames) - 1 : gs[k] = frames[k]
        BY <1>1, <3>1, ListCut
      <3>3. Top(gs) = frames[Len(frames) - 1]
        BY <2>2, <3>1, <3>2 DEF Top
      <3>4. phase' = IF frames[Len(frames) - 1].inst.t = "ARRAY"
                     THEN "append" ELSE "member"
        BY <2>2 DEF ValueEnd
      <3> QED
        BY <1>2, <2>2, <3>3, <3>4
    <2> QED
      BY <2>1, <2>2
  <1>5. Consistent(t, gs, qh, it, calls)
    BY <1>1, <1>2, <1>3, ValueRemoved DEF IndInv
  <1> QED
    BY <1>3, <1>4, <1>5 DEF IndInv

\* The contains schema is pushed on its layer.
LEMMA ContainsPushKeeps ==
  ASSUME IndInv, ContainsPush
  PROVE  IndInv'
  <1>1. PICK m : m = PushBasics(M, SchemaAt(M, Call.pos).contains, Call.pos)
    OBVIOUS
  <1>2. PICK at : at = ForwardStart(m.stack)
    OBVIOUS
  <1>3. PICK c : c = [Call EXCEPT !.at = at]
    OBVIOUS
  <1>4. /\ phase = "contains_push" /\ phase' = "contains_check" /\ Becomes(m)
        /\ WithCall(c) /\ UNCHANGED <<frames, it>>
    BY <1>1, <1>2, <1>3 DEF ContainsPush
  <1>5. /\ phase \in CallPhases /\ phase \in ContainsLoop
        /\ "contains_check" \in ContainsLoop /\ phase \notin EndPhases
    BY <1>4 DEF CallPhases, ContainsLoop, ContainsPhases, EndPhases
  <1>6. IsCall(Call) /\ LiveIn(stack, Call.pos)
    BY <1>5, InnermostCall DEF IndInv, Call
  <1>7. IsMachine(M) /\ M.stack = stack
    BY MachineNow
  <1>8. PICK s : s = SchemaAt(M, Call.pos)
    OBVIOUS
  <1>9. s.contains \in Seq(Schemas)
    BY <1>6, <1>7, <1>8, LivePosition, SchemaLists DEF SchemaAt, Pos, IsMachine
  <1>10. Advanced(M, m)
    BY <1>1, <1>6, <1>7, <1>8, <1>9, PushBasicsAdvances
  <1>11. stack' = m.stack /\ Grown(stack, m.stack)
    BY <1>4, <1>7, <1>10 DEF Becomes, Advanced
  <1>12. StackOK(m.stack) /\ Size(m.stack) > 0
    <2>1. Consistent(m.stack, frames, phase, it, calls)
      BY <1>5, <1>11, GrownConsistent DEF IndInv
    <2> QED
      BY <1>5, <2>1, Sizes DEF Consistent
  <1>13. /\ at = [index |-> at.index, finished |-> at.finished]
         /\ at.index \in Nat \ {0}
    BY <1>2, <1>12, ForwardStarts, StackFields
  <1>14. IsCall(c) /\ c.pos = Call.pos /\ c.at = at
    BY <1>3, <1>6, <1>13, CallFields
  <1> QED
    BY <1>4, <1>5, <1>11, <1>13, <1>14, CallStep

\* A pass over the layer of contains starts, its outcomes reset.
LEMMA ContainsItemKeeps ==
  ASSUME IndInv, ContainsItem
  PROVE  IndInv'
  <1>1. PICK at : at = ReverseStart(stack)
    OBVIOUS
  <1>2. PICK c : c = [Call EXCEPT !.at = at]
    OBVIOUS
  <1>3. PICK t : t = IF Call.item = 1 THEN stack ELSE LayerResetPositions(stack)
    OBVIOUS
  <1>4. /\ phase = "contains_item" /\ phase' = "contains_validate" /\ stack' = t
        /\ WithCall(c) /\ UNCHANGED <<frames, it>>
    BY <1>1, <1>2, <1>3 DEF ContainsItem
  <1>5. /\ phase \in CallPhases /\ phase \in ContainsLoop
        /\ "contains_validate" \in ContainsLoop /\ phase \notin EndPhases
    BY <1>4 DEF CallPhases, ContainsLoop, ContainsPhases, EndPhases
  <1>6. IsCall(Call) /\ StackOK(stack)
    BY <1>5, InnermostCall DEF IndInv, Call, Consistent
  <1>7. Grown(stack, t)
    BY <1>3, <1>6, GrownReflexive, ResetGrown
  <1>8. /\ at = [index |-> at.index, finished |-> at.finished]
        /\ Reversing(stack, at, stack.depth)
    BY <1>1, <1>5, ReverseIterator DEF IsIterator
  <1>9. stack.depth = Len(frames) - 1 + Len(calls)
    BY <1>4 DEF IndInv, Consistent, DepthOK, ContainsPhases
  <1>10. IsCall(c) /\ c.pos = Call.pos /\ c.at = at
    BY <1>2, <1>6, <1>8, CallFields
  <1> QED
    BY <1>4, <1>5, <1>7, <1>8, <1>9, <1>10, CallStep

\* The pass over the layer of contains, for one position.
LEMMA ContainsValidateKeeps ==
  ASSUME IndInv, ContainsValidate
  PROVE  IndInv'
  <1>1. PICK p, item, at : /\ p = CallReverse
                           /\ item = Call.inst.kids[Call.item].val
                           /\ at = ReverseStep(stack, Call.at)
    OBVIOUS
  <1>2. PICK c : c = [Call EXCEPT !.at = at]
    OBVIOUS
  <1>3. /\ phase = "contains_validate" /\ p # NoPos /\ UNCHANGED <<frames, it>>
    BY <1>1 DEF ContainsValidate
  <1>4. /\ phase \in CallPhases /\ phase \in ContainsLoop
    BY <1>3 DEF CallPhases, ContainsLoop, ContainsPhases
  <1>5. PICK level : level = Len(frames) - 1 + Len(calls)
    OBVIOUS
  <1>6. /\ IsCall(Call) /\ StackOK(stack) /\ stack.depth = level
        /\ Reversing(stack, Call.at, level)
    BY <1>3, <1>4, <1>5, InnermostCall
       DEF IndInv, Call, Consistent, InnerOK, DepthOK, ContainsPhases
  <1>7. /\ LiveIn(stack, p) /\ Level(stack, p) = level
        /\ at = [index |-> at.index, finished |-> at.finished]
        /\ Reversing(stack, at, level)
    BY <1>1, <1>3, <1>6, ReverseReturns, ReverseSteps DEF CallReverse
  <1>8. IsCall(c) /\ c.pos = Call.pos /\ c.at = at
    BY <1>2, <1>6, <1>7, CallFields
  <1>9. CASE Judgeable(M, p) /\ ReachesContains(M, p, item)
    <2>1. PICK cs : cs = Replaced(calls, Len(calls), c)
      OBVIOUS
    <2>2. [calls EXCEPT ![Len(calls)] = c] = cs
      BY <2>1 DEF Replaced
    <2>3. ContainsStart(p, item, cs)
      BY <1>1, <1>2, <1>9, <2>2 DEF ContainsValidate
    <2>4. "contains_validate" \notin {"names_check", "contains_check"}
      OBVIOUS
    <2>5. Consistent(stack, frames, phase, it, cs)
      BY <1>3, <1>4, <1>5, <1>7, <1>8, <2>1, <2>4, CallChanged DEF IndInv, Call
    <2> QED
      BY <1>3, <1>6, <1>7, <2>3, <2>5, ContainsStartKeeps
  <1>10. CASE ~ (Judgeable(M, p) /\ ReachesContains(M, p, item))
    <2>1. PICK m, n : /\ m = ValidateValue(M, p, item)
                      /\ n = IF Judgeable(M, p) THEN Propagate(m, p) ELSE M
      OBVIOUS
    <2>2. /\ Becomes(n) /\ WithCall([Call EXCEPT !.at = ReverseStep(stack, @)])
          /\ UNCHANGED <<frames, phase, it>>
      BY <1>1, <1>3, <1>10, <2>1 DEF ContainsValidate
    <2>3. IsMachine(M) /\ LiveIn(M.stack, p)
      BY <1>7, MachineNow
    <2>4. Advanced(M, m)
      BY <2>1, <2>3, ValidateValueAdvances
    <2>5. IsMachine(m) /\ LiveIn(m.stack, p)
      BY <2>3, <2>4, AdvancedKeepsLive DEF Advanced
    <2>6. Advanced(M, n)
      BY <2>1, <2>3, <2>4, <2>5, PropagateAdvances, AdvancedTransitive,
         AdvancedReflexive
    <2> QED
      BY <1>1, <1>3, <2>2, <2>6, CallReverseKeeps
  <1> QED
    BY <1>9, <1>10

\* The pass over an item ends.
LEMMA ContainsNextKeeps ==
  ASSUME IndInv, ContainsNext
  PROVE  IndInv'
  <1>1. phase = "contains_validate" /\ UNCHANGED <<stack, frames, it>>
    BY DEF ContainsNext
  <1>2. /\ phase \in CallPhases /\ phase \in ContainsLoop
        /\ "contains_remove" \in ContainsLoop /\ "contains_item" \in ContainsLoop
    BY <1>1 DEF CallPhases, ContainsLoop, ContainsPhases
  <1>3. IsCall(Call) /\ Grown(stack, stack)
    BY <1>2, InnermostCall, GrownReflexive DEF IndInv, Call, Consistent
  <1>4. PICK at : at = Call.at
    OBVIOUS
  <1>5. at = [index |-> at.index, finished |-> at.finished]
    BY <1>3, <1>4 DEF IsCall
  <1>6. PICK c, d : /\ c = [Call EXCEPT !.valid = TRUE]
                    /\ d = [Call EXCEPT !.item = @ + 1]
    OBVIOUS
  <1>7. IsCall(c) /\ c.pos = Call.pos /\ IsCall(d) /\ d.pos = Call.pos
    BY <1>3, <1>5, <1>6, CallFields
  <1>8. \/ phase' = "contains_remove" /\ WithCall(c)
        \/ phase' = "contains_item" /\ WithCall(d)
    BY <1>6 DEF ContainsNext
  <1>9. CASE phase' = "contains_remove" /\ WithCall(c)
    BY <1>1, <1>2, <1>3, <1>7, <1>9, CallStep
  <1>10. CASE phase' = "contains_item" /\ WithCall(d)
    BY <1>1, <1>2, <1>3, <1>7, <1>10, CallStep
  <1> QED
    BY <1>8, <1>9, <1>10

\* The layer of contains is removed.
LEMMA ContainsRemoveKeeps ==
  ASSUME IndInv, ContainsRemove
  PROVE  IndInv'
  <1>1. /\ phase \in {"contains_remove", "contains_item"}
        /\ phase' = "contains_return" /\ stack' = LayerRemove(stack)
        /\ UNCHANGED <<frames, it, calls>>
    BY DEF ContainsRemove
  <1>2. Consistent(LayerRemove(stack), frames, "contains_return", it, calls)
    BY <1>1, ContainsRemoved DEF IndInv
  <1> QED
    BY <1>1, <1>2 DEF IndInv

\* array_value returns to the loop that called it.
LEMMA ContainsReturnKeeps ==
  ASSUME IndInv, ContainsReturn
  PROVE  IndInv'
  <1>1. PICK p, m, n : /\ p = Call.pos
                       /\ m = IF Call.valid THEN SetResult(M, p, "VALID")
                              ELSE FailFinal(M, p, KeywordFailure)
                       /\ n = Propagate(m, p)
    OBVIOUS
  <1>2. PICK cs, qh : /\ cs = Cut(calls)
                      /\ qh = IF Len(calls) = 1 THEN "value_validate"
                              ELSE "contains_validate"
    OBVIOUS
  <1>3. /\ phase = "contains_return" /\ phase' = qh /\ Becomes(n) /\ calls' = cs
        /\ UNCHANGED <<frames, it>>
    BY <1>1, <1>2 DEF ContainsReturn, Cut
  <1>4. phase \in CallPhases /\ phase \notin EndPhases
    BY <1>3 DEF CallPhases, ContainsPhases, EndPhases
  <1>5. LiveIn(stack, p)
    BY <1>1, <1>4, InnermostCall DEF IndInv, Call
  <1>6. IsMachine(M) /\ LiveIn(M.stack, p) /\ M.stack = stack
    BY <1>5, MachineNow
  <1>7. Advanced(M, m)
    <2>1. KeywordFailure \in Failures /\ "VALID" \in Results
      BY DEF Failures, Results
    <2> QED
      BY <1>1, <1>6, <2>1, SetResultAdvances, FailFinalAdvances
  <1>8. IsMachine(m) /\ LiveIn(m.stack, p)
    BY <1>6, <1>7, AdvancedKeepsLive DEF Advanced
  <1>9. Advanced(M, n)
    BY <1>1, <1>6, <1>7, <1>8, PropagateAdvances, AdvancedTransitive
  <1>10. stack' = n.stack /\ Grown(stack, n.stack)
    BY <1>3, <1>6, <1>9 DEF Becomes, Advanced
  <1>11. Consistent(n.stack, frames, "contains_return", it, calls)
    BY <1>3, <1>4, <1>10, GrownConsistent DEF IndInv
  <1>12. Consistent(n.stack, frames, qh, it, cs)
    BY <1>2, <1>11, ContainsReturned
  <1> QED
    BY <1>3, <1>10, <1>12 DEF IndInv

-----------------------------------------------------------------------------
(***************************************************************************)
(* The theorems.                                                           *)
(***************************************************************************)
WalkInv == job \in Jobs /\ IndInv

\* The root schema of a validation is one of the schemas.
LEMMA RootKnown ==
  ASSUME job \in Jobs
  PROVE  job.root \in Schemas
  BY JobsAssumption

\* The initial states satisfy the invariant.
LEMMA InitInvariant ==
  ASSUME Init
  PROVE  WalkInv
  BY InitKeeps DEF WalkInv, Init

\* Every step keeps the invariant.
LEMMA NextInvariant ==
  ASSUME WalkInv, [Next]_vars
  PROVE  WalkInv'
  <1>1. IndInv /\ job \in Jobs /\ job.root \in Schemas
    BY RootKnown DEF WalkInv
  <1>2. CASE UNCHANGED vars
    BY <1>1, <1>2 DEF WalkInv, IndInv, vars
  <1>3. CASE Next
    <2>1. job' = job
      BY <1>3 DEF Next, StreamInit, Enter, ObjectStart, ObjectKey,
         ObjectKeyPosition, ObjectKeyEnd, NamesCheck, NamesValidate, NamesEnd,
         NamesReopen, NamesResult, ArrayStart, ArrayPropagate, ArrayItems,
         ArrayItem, ArrayAppend, ArrayAppendPosition, ArrayEnd, ObjectEnd,
         ValueCheck, StartValidate, ValueValidate, ValueEnd, ContainsPush,
         ContainsCheck, ContainsItem, ContainsValidate, ContainsNext,
         ContainsRemove, ContainsReturn, Done, vars
    <2>2. IndInv'
      <3>1. CASE StreamInit
        BY <1>1, <3>1, StreamInitKeeps
      <3>2. CASE Enter
        BY <1>1, <3>2, EnterKeeps
      <3>3. CASE ObjectStart
        BY <1>1, <3>3, ObjectStartKeeps
      <3>4. CASE ObjectKey
        BY <1>1, <3>4, ObjectKeyKeeps
      <3>5. CASE ObjectKeyPosition
        BY <1>1, <3>5, ObjectKeyPositionKeeps
      <3>6. CASE ObjectKeyEnd
        BY <1>1, <3>6, ObjectKeyEndKeeps
      <3>7. CASE NamesCheck
        BY <1>1, <3>7, NamesCheckKeeps
      <3>8. CASE NamesValidate
        BY <1>1, <3>8, NamesValidateKeeps
      <3>9. CASE NamesEnd
        BY <1>1, <3>9, NamesEndKeeps
      <3>10. CASE NamesReopen
        BY <1>1, <3>10, NamesReopenKeeps
      <3>11. CASE NamesResult
        BY <1>1, <3>11, NamesResultKeeps
      <3>12. CASE ArrayStart
        BY <1>1, <3>12, ArrayStartKeeps
      <3>13. CASE ArrayPropagate
        BY <1>1, <3>13, ArrayPropagateKeeps
      <3>14. CASE ArrayItems
        BY <1>1, <3>14, ArrayItemsKeeps
      <3>15. CASE ArrayItem
        BY <1>1, <3>15, ArrayItemKeeps
      <3>16. CASE ArrayAppend
        BY <1>1, <3>16, ArrayAppendKeeps
      <3>17. CASE ArrayAppendPosition
        BY <1>1, <3>17, ArrayAppendPositionKeeps
      <3>18. CASE ArrayEnd
        BY <1>1, <3>18, ArrayEndKeeps
      <3>19. CASE ObjectEnd
        BY <1>1, <3>19, ObjectEndKeeps
      <3>20. CASE ValueCheck
        BY <1>1, <3>20, ValueCheckKeeps
      <3>21. CASE StartValidate
        BY <1>1, <3>21, StartValidateKeeps
      <3>22. CASE ValueValidate
        BY <1>1, <3>22, ValueValidateKeeps
      <3>23. CASE ValueEnd
        BY <1>1, <3>23, ValueEndKeeps
      <3>24. CASE ContainsPush
        BY <1>1, <3>24, ContainsPushKeeps
      <3>25. CASE ContainsCheck
        BY <1>1, <3>25, ContainsCheckKeeps
      <3>26. CASE ContainsItem
        BY <1>1, <3>26, ContainsItemKeeps
      <3>27. CASE ContainsValidate
        BY <1>1, <3>27, ContainsValidateKeeps
      <3>28. CASE ContainsNext
        BY <1>1, <3>28, ContainsNextKeeps
      <3>29. CASE ContainsRemove
        BY <1>1, <3>29, ContainsRemoveKeeps
      <3>30. CASE ContainsReturn
        BY <1>1, <3>30, ContainsReturnKeeps
      <3>31. CASE Done
        BY <1>1, <3>31 DEF Done, IndInv, vars
      <3> QED
        BY <1>3, <3>1, <3>2, <3>3, <3>4, <3>5, <3>6, <3>7, <3>8, <3>9, <3>10,
           <3>11, <3>12, <3>13, <3>14, <3>15, <3>16, <3>17, <3>18, <3>19, <3>20,
           <3>21, <3>22, <3>23, <3>24, <3>25, <3>26, <3>27, <3>28, <3>29, <3>30,
           <3>31 DEF Next
    <2> QED
      BY <1>1, <2>1, <2>2 DEF WalkInv
  <1> QED
    BY <1>2, <1>3

\* Whatever the schemas and the instance, the stack, the recursion of
\* validate_instance, the iterator of the running handler and the loops inside
\* the validation of a position agree in every state.
THEOREM Invariance == Spec => []WalkInv
  <1>1. Init => WalkInv
    BY InitInvariant
  <1>2. WalkInv /\ [Next]_vars => WalkInv'
    BY NextInvariant
  <1> QED
    BY <1>1, <1>2, PTL DEF Spec

\* The depth of the stack is the one the phase calls for.
LEMMA DepthExpected ==
  ASSUME IndInv
  PROVE  stack.depth = ExpectedDepth
  <1> DEFINE around == Len(frames) - 1
  <1>1. /\ phase \in Phases
        /\ DepthOK(stack.depth, phase, around, Len(calls), Inst.t = "ARRAY")
    BY DEF IndInv, Consistent, Inst, Frame, Top
  <1>2. CASE phase \in EndPhases
    BY <1>1, <1>2 DEF DepthOK, EndPhases, ExpectedDepth
  <1>3. CASE phase = "member"
    BY <1>1, <1>3 DEF DepthOK, ExpectedDepth
  <1>4. CASE phase \in UnderLayer
    BY <1>1, <1>4 DEF DepthOK, UnderLayer, ExpectedDepth
  <1>5. CASE phase \in ContainsPhases
    BY <1>1, <1>5 DEF DepthOK, ContainsPhases, ExpectedDepth
  <1>6. CASE phase \in ValuePhases
    BY <1>1, <1>6 DEF DepthOK, ValuePhases, ExpectedDepth
  <1> QED
    BY <1>1, <1>2, <1>3, <1>4, <1>5, <1>6 DEF Phases

\* The invariant implies LayersBalanced.
LEMMA Balanced ==
  ASSUME IndInv
  PROVE  LayersBalanced
  <1>1. WellFormed(stack) /\ RootOK(stack, phase)
    BY DEF IndInv, Consistent, StackOK
  <1>2. phase = "done" => Size(stack) = 0
    BY <1>1 DEF RootOK, EndPhases, EmptyStack, Size
  <1> QED
    BY <1>1, <1>2, DepthExpected DEF LayersBalanced, WellFormed

\* The handlers open and remove layers in step with the nesting of the
\* instance, for every schema and every instance, and leave no position behind.
THEOREM LayersAlwaysBalanced == Spec => []LayersBalanced
  <1>1. WalkInv => LayersBalanced
    BY Balanced DEF WalkInv
  <1> QED
    BY <1>1, Invariance, PTL

\* The invariant implies HandlerInLayer.
LEMMA InLayer ==
  ASSUME IndInv
  PROVE  HandlerInLayer
  <1>1. StackOK(stack)
    BY DEF IndInv, Consistent
  <1>2. ASSUME NEW p, LiveIn(stack, p), Level(stack, p) = Len(frames) - 1
        PROVE  OfWalkedValue(p)
    BY <1>1, <1>2, LiveLevel DEF OfWalkedValue, LiveIn
  <1>3. ASSUME phase \in ForwardPhases, ForwardAt # NoPos
        PROVE  OfWalkedValue(ForwardAt)
    <2>1. PICK p, j : p = ForwardAt /\ j = ForwardStep(it)
      OBVIOUS
    <2>2. phase \in OnTop \/ phase \in UnderLayer
      BY <1>3 DEF ForwardPhases, OnTop, UnderLayer
    <2>3. LiveIn(stack, p) /\ Level(stack, p) = Len(frames) - 1
      BY <1>3, <2>1, <2>2, TopStep, BelowStep DEF IndInv, ForwardAt
    <2> QED
      BY <1>2, <2>1, <2>3
  <1>4. ASSUME phase \in ReversePhases, ReverseAt # NoPos
        PROVE  OfWalkedValue(ReverseAt)
    <2>1. PICK p, j : p = ReverseAt /\ j = ReverseStep(stack, it)
      OBVIOUS
    <2>2. phase \in InReverse
      BY <1>4 DEF ReversePhases, InReverse
    <2>3. LiveIn(stack, p) /\ Level(stack, p) = Len(frames) - 1
      BY <1>4, <2>1, <2>2, ReverseStepConsistent DEF IndInv, ReverseAt
    <2> QED
      BY <1>2, <2>1, <2>3
  <1>5. ASSUME NEW k \in DOMAIN calls
        PROVE  /\ calls[k].pos \in 1 .. Size(stack)
               /\ stack.positions[calls[k].pos].depth = Len(frames) - 2 + k
    <2>1. CallsOK(stack, calls, Len(frames) - 1) /\ Len(frames) \in Nat
      BY Sizes DEF IndInv, Consistent
    <2>2. k \in 1 .. Len(calls) /\ k \in Int
      BY <2>1, ListLength DEF CallsOK
    <2>3. /\ LiveIn(stack, calls[k].pos)
          /\ Level(stack, calls[k].pos) = (Len(frames) - 1) - 1 + k
      BY <2>1, <2>2 DEF CallsOK
    <2> QED
      BY <1>1, <2>1, <2>2, <2>3, LiveLevel DEF LiveIn
  <1> QED
    BY <1>3, <1>4, <1>5 DEF HandlerInLayer

\* A handler's iteration only returns positions of the layer of the value that
\* is walked, and a loop inside a validation goes back to a live position of
\* the layer it was called from, however deep contains nests.
THEOREM HandlerAlwaysInLayer == Spec => []HandlerInLayer
  <1>1. WalkInv => HandlerInLayer
    BY InLayer DEF WalkInv
  <1> QED
    BY <1>1, Invariance, PTL

-----------------------------------------------------------------------------
(***************************************************************************)
(* The results in the positions of the stack while an instance is walked:  *)
(* a result that is final stays, and a failure reaches the position it     *)
(* counts for.  First what a handler may do to the results.                *)
(***************************************************************************)
References == \E id \in Schemas : SchemaOf(id).ref # <<>>

OutAt(s, p) == s.positions[p].out
FinalValid(s, p) == OutAt(s, p).final /\ OutAt(s, p).result = "VALID"

\* A result is VALID or INVALID, a composed position is in the layer of its
\* parent, and only a schema with $ref has a REF child.
TidyAt(s, p) ==
  LET pos == s.positions[p]
  IN  /\ pos.out.result \in {"VALID", "INVALID"}
      /\ pos.composition_type # "NONE" =>
           pos.parent \in 1 .. p - 1 /\ s.positions[pos.parent].depth = pos.depth
      /\ pos.composition_type = "REF" => References

Tidy(s) == \A p \in 1 .. Size(s) : TidyAt(s, p)

\* m becomes n by writing to positions in W and by pushing positions with a parent
\* in W.  A final result stays, and only a reference makes VALID final, in the top layer.
Worked(m, n, W) ==
  /\ Advanced(m, n)
  /\ Tidy(n.stack)
  /\ \A x \in 1 .. Size(m.stack) :
       /\ x \notin W => OutAt(n.stack, x) = OutAt(m.stack, x)
       /\ OutAt(m.stack, x).final =>
            OutAt(n.stack, x).final /\ OutAt(n.stack, x).result = OutAt(m.stack, x).result
       /\ FinalValid(n.stack, x) =>
            \/ FinalValid(m.stack, x)
            \/ References /\ m.stack.positions[x].depth = m.stack.depth
  /\ \A x \in Size(m.stack) + 1 .. Size(n.stack) :
       OutAt(n.stack, x) = FreshOutcome /\ n.stack.positions[x].parent \in W

IsTidy(m) == IsMachine(m) /\ Tidy(m.stack)

\* Doing nothing is allowed.
LEMMA WorkedReflexive ==
  ASSUME NEW m, IsTidy(m), NEW W
  PROVE  Worked(m, m, W)
  <1>1. Size(m.stack) \in Nat
    BY StackFields DEF IsTidy, IsMachine
  <1> QED
    BY <1>1, AdvancedReflexive DEF Worked, IsTidy

\* What has worked is a tidy machine.
LEMMA WorkedTidy ==
  ASSUME NEW m, NEW n, NEW W, Worked(m, n, W)
  PROVE  IsTidy(n)
  BY DEF Worked, IsTidy, Advanced

\* Two pieces of work are one.
LEMMA WorkedTransitive ==
  ASSUME NEW m, IsTidy(m), NEW n, NEW o, NEW V, NEW W, NEW X,
         Worked(m, n, V), Worked(n, o, W), V \subseteq X, W \subseteq X,
         X \subseteq 1 .. Size(m.stack)
  PROVE  Worked(m, o, X)
  <1>1. Advanced(m, o) /\ Tidy(o.stack)
    BY AdvancedTransitive DEF Worked, IsTidy
  <1>2. /\ Size(m.stack) \in Nat /\ Size(n.stack) \in Nat /\ Size(o.stack) \in Nat
        /\ Size(m.stack) <= Size(n.stack) /\ Size(n.stack) <= Size(o.stack)
        /\ n.stack.depth = m.stack.depth
        /\ KeptTo(m.stack, n.stack, Size(m.stack))
        /\ KeptTo(n.stack, o.stack, Size(n.stack))
    BY StackFields DEF Worked, Advanced, Grown, IsMachine, IsTidy
  <1>3. ASSUME NEW x \in 1 .. Size(m.stack)
        PROVE  /\ x \notin X => OutAt(o.stack, x) = OutAt(m.stack, x)
               /\ OutAt(m.stack, x).final =>
                    /\ OutAt(o.stack, x).final
                    /\ OutAt(o.stack, x).result = OutAt(m.stack, x).result
               /\ FinalValid(o.stack, x) =>
                    \/ FinalValid(m.stack, x)
                    \/ References /\ m.stack.positions[x].depth = m.stack.depth
    <2>1. x \in 1 .. Size(n.stack)
      BY <1>2
    <2>2. n.stack.positions[x].depth = m.stack.positions[x].depth
      BY <1>2 DEF KeptTo, Kept, SameShape
    <2> QED
      BY <1>2, <2>1, <2>2 DEF Worked
  <1>4. ASSUME NEW x \in Size(m.stack) + 1 .. Size(o.stack)
        PROVE  OutAt(o.stack, x) = FreshOutcome /\ o.stack.positions[x].parent \in X
    <2>1. CASE x \in 1 .. Size(n.stack)
      <3>1. x \in Size(m.stack) + 1 .. Size(n.stack) /\ x \notin W
        BY <1>2, <1>4, <2>1
      <3>2. o.stack.positions[x].parent = n.stack.positions[x].parent
        BY <1>2, <2>1 DEF KeptTo, Kept, SameShape
      <3> QED
        BY <2>1, <3>1, <3>2 DEF Worked
    <2>2. CASE x \notin 1 .. Size(n.stack)
      <3>1. x \in Size(n.stack) + 1 .. Size(o.stack)
        BY <1>2, <1>4, <2>2
      <3> QED
        BY <3>1 DEF Worked
    <2> QED
      BY <2>1, <2>2
  <1> QED
    BY <1>1, <1>3, <1>4 DEF Worked

\* An outcome with a result of the code is written to one live position.
LEMMA WriteTidy ==
  ASSUME NEW m, IsTidy(m), NEW p, LiveIn(m.stack, p), NEW out \in OutcomeType,
         out.result \in {"VALID", "INVALID"}, NEW n, n = WithOut(m, p, out)
  PROVE  /\ Advanced(m, n) /\ IsTidy(n)
         /\ Size(n.stack) = Size(m.stack)
         /\ OutAt(n.stack, p) = out /\ Out(n, p) = out
         /\ \A x \in 1 .. Size(m.stack) :
              x # p => OutAt(n.stack, x) = OutAt(m.stack, x)
  <1>1. Advanced(m, n) /\ Out(n, p) = out
    BY WithOutAdvances DEF IsTidy
  <1>2. PICK s : s = m.stack
    OBVIOUS
  <1>3. /\ StackOK(s) /\ Size(s) \in Nat /\ p \in 1 .. Size(s)
        /\ DOMAIN s.positions = 1 .. Size(s)
    BY <1>2, StackFields DEF IsTidy, IsMachine, LiveIn
  <1>4. n.stack = Rewritten(s, p, out)
    BY <1>2 DEF WithOut, Rewritten, IsTidy, IsMachine
  <1>5. /\ \A x \in 1 .. Size(s) :
             n.stack.positions[x] = IF x = p THEN [s.positions[p] EXCEPT !.out = out]
                                    ELSE s.positions[x]
        /\ Size(n.stack) = Size(s)
    <2>1. s = [positions |-> s.positions, last_separator |-> s.last_separator,
               depth |-> s.depth]
      BY <1>3, StackFields
    <2>2. n.stack.positions = [s.positions EXCEPT ![p] = [@ EXCEPT !.out = out]]
      BY <1>4, <2>1 DEF Rewritten
    <2>3. s.positions \in Seq(PositionType(Schemas))
      BY <1>3, StackFields
    <2>4. Size(n.stack) = Size(s)
      <3> DEFINE new == [s.positions[p] EXCEPT !.out = out]
      <3>1. new \in PositionType(Schemas)
        BY <1>3, LivePosition, <1>2 DEF PositionType
      <3>2. n.stack.positions = [s.positions EXCEPT ![p] = new]
        BY <2>2
      <3> HIDE DEF new
      <3> QED
        BY <2>3, <3>1, <3>2, <1>3, ExceptSeq DEF Size
    <2> QED
      BY <2>2, <2>4, <1>3
  <1>6. out = OutAt(n.stack, p)
    BY <1>1 DEF Out, Pos, OutAt
  <1>7. \A x \in 1 .. Size(s) : x # p => OutAt(n.stack, x) = OutAt(s, x)
    BY <1>5 DEF OutAt
  <1>8. KeptTo(s, n.stack, Size(s))
    BY <1>1, <1>2 DEF Advanced, Grown
  <1>9. Tidy(n.stack)
    <2> SUFFICES ASSUME NEW x \in 1 .. Size(s) PROVE TidyAt(n.stack, x)
      BY <1>5 DEF Tidy
    <2>1. TidyAt(s, x) /\ Kept(s.positions[x], n.stack.positions[x])
      BY <1>2, <1>8 DEF IsTidy, Tidy, KeptTo
    <2>2. n.stack.positions[x].out.result \in {"VALID", "INVALID"}
      BY <1>6, <1>7, <2>1 DEF TidyAt, OutAt
    <2>3. ASSUME s.positions[x].composition_type # "NONE"
          PROVE  /\ s.positions[x].parent \in 1 .. Size(s)
                 /\ s.positions[x].parent \in 1 .. x - 1
                 /\ s.positions[s.positions[x].parent].depth = s.positions[x].depth
      BY <1>3, <2>1, <2>3 DEF TidyAt
    <2>4. ASSUME s.positions[x].composition_type # "NONE"
          PROVE  n.stack.positions[s.positions[x].parent].depth
                   = s.positions[s.positions[x].parent].depth
      BY <1>8, <2>3, <2>4 DEF KeptTo, Kept, SameShape
    <2> QED
      BY <2>1, <2>2, <2>3, <2>4 DEF TidyAt, Kept, SameShape
  <1> QED
    BY <1>1, <1>2, <1>5, <1>6, <1>7, <1>9 DEF IsTidy, Advanced

\* An outcome that keeps a final result is written to one live position.
LEMMA WriteWorks ==
  ASSUME NEW m, IsTidy(m), NEW p, LiveIn(m.stack, p), NEW out \in OutcomeType,
         out.result \in {"VALID", "INVALID"},
         Out(m, p).final => out.final /\ out.result = Out(m, p).result,
         out.final /\ out.result = "VALID" =>
           \/ FinalValid(m.stack, p)
           \/ References /\ Pos(m, p).depth = m.stack.depth,
         NEW n, n = WithOut(m, p, out)
  PROVE  /\ Worked(m, n, {p}) /\ Out(n, p) = out
         /\ Size(n.stack) = Size(m.stack)
  <1>1. /\ Advanced(m, n) /\ IsTidy(n) /\ Size(n.stack) = Size(m.stack)
        /\ OutAt(n.stack, p) = out /\ Out(n, p) = out
        /\ \A x \in 1 .. Size(m.stack) :
             x # p => OutAt(n.stack, x) = OutAt(m.stack, x)
    BY WriteTidy
  <1>2. Size(m.stack) \in Nat /\ Out(m, p) = OutAt(m.stack, p) /\ p \in 1 .. Size(m.stack)
    BY StackFields DEF Out, Pos, OutAt, LiveIn, IsTidy, IsMachine
  <1>3. ASSUME NEW x \in 1 .. Size(m.stack)
        PROVE  /\ x \notin {p} => OutAt(n.stack, x) = OutAt(m.stack, x)
               /\ OutAt(m.stack, x).final =>
                    /\ OutAt(n.stack, x).final
                    /\ OutAt(n.stack, x).result = OutAt(m.stack, x).result
               /\ FinalValid(n.stack, x) =>
                    \/ FinalValid(m.stack, x)
                    \/ References /\ m.stack.positions[x].depth = m.stack.depth
    <2>1. CASE x = p
      BY <1>1, <1>2, <2>1 DEF FinalValid, Pos
    <2>2. CASE x # p
      BY <1>1, <2>2 DEF FinalValid
    <2> QED
      BY <2>1, <2>2
  <1>4. \A x \in Size(m.stack) + 1 .. Size(n.stack) : FALSE
    BY <1>1, <1>2
  <1> QED
    BY <1>1, <1>3, <1>4 DEF Worked, IsTidy

\* Only the error is written.
LEMMA ErrorWorks ==
  ASSUME NEW m, IsTidy(m), NEW e, NEW n, n = [m EXCEPT !.error = e], NEW W
  PROVE  Worked(m, n, W) /\ n.stack = m.stack
  <1>1. Advanced(m, n)
    BY ErrorAdvances DEF IsTidy
  <1>2. n.stack = m.stack
    BY DEF IsTidy, IsMachine
  <1>3. Size(m.stack) \in Nat
    BY StackFields DEF IsTidy, IsMachine
  <1> QED
    BY <1>1, <1>2, <1>3 DEF Worked, IsTidy

\* The outcome of a live position of a tidy stack.
LEMMA TidyOutcome ==
  ASSUME NEW m, IsTidy(m), NEW p, LiveIn(m.stack, p)
  PROVE  /\ Out(m, p) \in OutcomeType /\ Out(m, p).result \in {"VALID", "INVALID"}
         /\ Out(m, p) = OutAt(m.stack, p)
         /\ Out(m, p).final \in BOOLEAN
         /\ p \in 1 .. Size(m.stack)
  <1>1. Out(m, p) \in OutcomeType
    BY OutcomeAt DEF IsTidy
  <1>2. TidyAt(m.stack, p) /\ p \in 1 .. Size(m.stack)
    BY DEF IsTidy, Tidy, LiveIn
  <1> QED
    BY <1>1, <1>2 DEF TidyAt, Out, Pos, OutAt, OutcomeType

\* Setting a result that is final keeps one that was.
LEMMA SetFinalWorks ==
  ASSUME NEW m, IsTidy(m), NEW p, LiveIn(m.stack, p), NEW r \in {"VALID", "INVALID"},
         Out(m, p).final => r = Out(m, p).result,
         r = "VALID" => References /\ Pos(m, p).depth = m.stack.depth,
         NEW n, n = SetFinal(m, p, r)
  PROVE  /\ Worked(m, n, {p}) /\ Size(n.stack) = Size(m.stack)
         /\ Out(n, p).final /\ Out(n, p).result = r
         /\ Out(n, p).reason = Out(m, p).reason
  <1>1. PICK out : out = [Out(m, p) EXCEPT !.result = r, !.final = TRUE]
    OBVIOUS
  <1>2. Out(m, p) \in OutcomeType
    BY TidyOutcome
  <1>3. /\ out \in OutcomeType /\ out.result = r /\ out.final
        /\ out.reason = Out(m, p).reason
    BY <1>1, <1>2 DEF OutcomeType, Results
  <1>4. n = WithOut(m, p, out)
    BY <1>1 DEF SetFinal
  <1> QED
    BY <1>3, <1>4, WriteWorks

\* A failure is stored where the result is not VALID for good.
LEMMA FailWorks ==
  ASSUME NEW m, IsTidy(m), NEW p, LiveIn(m.stack, p), NEW f \in Failures,
         ~ FinalValid(m.stack, p), NEW n, n = Fail(m, p, f)
  PROVE  /\ Worked(m, n, {p}) /\ Size(n.stack) = Size(m.stack)
         /\ Out(n, p).result = "INVALID" /\ Out(n, p).final = Out(m, p).final
  <1>1. PICK out : out = [Out(m, p) EXCEPT !.reason = f.reason, !.result = "INVALID"]
    OBVIOUS
  <1>2. f.reason \in InvalidReasons
    BY DEF Failures, TypeFailure, FalseFailure, CompositionFailure,
           KeywordFailure, StringFailure, NoFailure, InvalidReasons
  <1>3. /\ Out(m, p) \in OutcomeType /\ Out(m, p).result \in {"VALID", "INVALID"}
        /\ Out(m, p) = OutAt(m.stack, p)
    BY TidyOutcome
  <1>4. /\ out \in OutcomeType /\ out.result = "INVALID" /\ out.final = Out(m, p).final
    BY <1>1, <1>2, <1>3 DEF OutcomeType, Results
  <1>5. Out(m, p).final => Out(m, p).result = "INVALID"
    BY <1>3 DEF FinalValid
  <1>6. PICK u : u = WithOut(m, p, out)
    OBVIOUS
  <1>7. Worked(m, u, {p}) /\ Out(u, p) = out /\ Size(u.stack) = Size(m.stack)
    BY <1>4, <1>5, <1>6, WriteWorks
  <1>8. n = [u EXCEPT !.error = f.error]
    BY <1>1, <1>6 DEF Fail
  <1>9. IsTidy(u)
    BY <1>7, WorkedTidy
  <1>10. Worked(u, n, {p}) /\ n.stack = u.stack
    BY <1>8, <1>9, ErrorWorks
  <1>11. {p} \subseteq 1 .. Size(m.stack)
    BY DEF LiveIn
  <1>12. Worked(m, n, {p})
    BY <1>7, <1>10, <1>11, WorkedTransitive
  <1> QED
    BY <1>4, <1>7, <1>10, <1>12 DEF Out, Pos

\* A final failure.
LEMMA FailFinalWorks ==
  ASSUME NEW m, IsTidy(m), NEW p, LiveIn(m.stack, p), NEW f \in Failures,
         ~ FinalValid(m.stack, p), NEW n, n = FailFinal(m, p, f)
  PROVE  /\ Worked(m, n, {p}) /\ Size(n.stack) = Size(m.stack)
         /\ Out(n, p).final /\ Out(n, p).result = "INVALID"
  <1>1. PICK u : u = Fail(m, p, f)
    OBVIOUS
  <1>2. /\ Worked(m, u, {p}) /\ Size(u.stack) = Size(m.stack)
        /\ Out(u, p).result = "INVALID"
    BY <1>1, FailWorks
  <1>3. IsTidy(u) /\ LiveIn(u.stack, p)
    BY <1>2, WorkedTidy, AdvancedKeepsLive DEF IsTidy, Worked
  <1>4. n = SetFinal(u, p, "INVALID")
    BY <1>1 DEF FailFinal
  <1>5. /\ Worked(u, n, {p}) /\ Size(n.stack) = Size(u.stack)
        /\ Out(n, p).final /\ Out(n, p).result = "INVALID"
    BY <1>2, <1>3, <1>4, SetFinalWorks
  <1>6. {p} \subseteq 1 .. Size(m.stack)
    BY DEF LiveIn
  <1> QED
    BY <1>2, <1>5, <1>6, WorkedTransitive

\* Counting a member or an item leaves the result alone.
LEMMA CountedWorks ==
  ASSUME NEW m, IsTidy(m), NEW p, LiveIn(m.stack, p), NEW n, n = Counted(m, p)
  PROVE  /\ Worked(m, n, {p}) /\ Size(n.stack) = Size(m.stack)
         /\ Out(n, p).final = Out(m, p).final /\ Out(n, p).result = Out(m, p).result
  <1>1. PICK out : out = [Out(m, p) EXCEPT !.count = @ + 1]
    OBVIOUS
  <1>2. /\ Out(m, p) \in OutcomeType /\ Out(m, p).result \in {"VALID", "INVALID"}
        /\ Out(m, p) = OutAt(m.stack, p)
    BY TidyOutcome
  <1>3. /\ out \in OutcomeType /\ out.result = Out(m, p).result
        /\ out.final = Out(m, p).final
    BY <1>1, <1>2 DEF OutcomeType
  <1>4. n = WithOut(m, p, out)
    BY <1>1 DEF Counted
  <1>5. out.final /\ out.result = "VALID" => FinalValid(m.stack, p)
    BY <1>2, <1>3 DEF FinalValid
  <1> QED
    BY <1>2, <1>3, <1>4, <1>5, WriteWorks

\* A live position stays what it is.
LEMMA AdvancedPosition ==
  ASSUME NEW m, NEW n, Advanced(m, n), NEW p, LiveIn(m.stack, p)
  PROVE  /\ Pos(n, p).parent = Pos(m, p).parent
         /\ Pos(n, p).depth = Pos(m, p).depth
         /\ Pos(n, p).composition_type = Pos(m, p).composition_type
         /\ n.stack.depth = m.stack.depth
  <1>1. KeptTo(m.stack, n.stack, Size(m.stack)) /\ n.stack.depth = m.stack.depth
    BY DEF Advanced, Grown
  <1>2. Kept(m.stack.positions[p], n.stack.positions[p])
    BY <1>1 DEF KeptTo, LiveIn
  <1> QED
    BY <1>1, <1>2 DEF Kept, SameShape, Pos

\* A position that was counted in is still there.
LEMMA CountedStays ==
  ASSUME NEW m, IsTidy(m), NEW p, LiveIn(m.stack, p), NEW n, n = Counted(m, p)
  PROVE  /\ Worked(m, n, {p}) /\ IsTidy(n) /\ LiveIn(n.stack, p)
         /\ Pos(n, p).parent = Pos(m, p).parent
  <1>1. Worked(m, n, {p}) /\ Advanced(m, n) /\ IsMachine(m)
    BY CountedWorks DEF Worked, IsTidy
  <1>2. IsTidy(n)
    BY <1>1, WorkedTidy
  <1> QED
    BY <1>1, <1>2, AdvancedKeepsLive, AdvancedPosition

\* The check of a value stores a failure or nothing.
LEMMA ValidateValueWorks ==
  ASSUME NEW m, IsTidy(m), NEW p, LiveIn(m.stack, p), NEW inst,
         ~ FinalValid(m.stack, p), NEW n, n = ValidateValue(m, p, inst)
  PROVE  /\ Worked(m, n, {p}) /\ Size(n.stack) = Size(m.stack)
         /\ Out(n, p).final = Out(m, p).final
         /\ ValueFailure(SchemaAt(m, p), Out(m, p), inst) = NoFailure =>
              n.stack = m.stack
  <1>1. PICK f : f = ValueFailure(SchemaAt(m, p), Out(m, p), inst)
    OBVIOUS
  <1>2. f \in Failures
    BY <1>1, ValueFailureKnown
  <1>3. CASE f # NoFailure
    <2>1. n = Fail(m, p, f)
      BY <1>1, <1>3 DEF ValidateValue
    <2> QED
      BY <1>1, <1>2, <1>3, <2>1, FailWorks
  <1>4. CASE f = NoFailure /\ ClearsError(SchemaAt(m, p))
    <2>1. n = [m EXCEPT !.error = "NONE"]
      BY <1>1, <1>4 DEF ValidateValue, ResetError
    <2>2. Worked(m, n, {p}) /\ n.stack = m.stack
      BY <2>1, ErrorWorks
    <2> QED
      BY <2>2 DEF Out, Pos
  <1>5. CASE f = NoFailure /\ ~ ClearsError(SchemaAt(m, p))
    <2>1. n = m
      BY <1>1, <1>5 DEF ValidateValue
    <2> QED
      BY <2>1, WorkedReflexive
  <1> QED
    BY <1>3, <1>4, <1>5

\* The check of a property name stores a failure or nothing.
LEMMA ValidateNameWorks ==
  ASSUME NEW m, IsTidy(m), NEW p, LiveIn(m.stack, p), NEW name,
         ~ FinalValid(m.stack, p), NEW n, n = ValidateName(m, p, name)
  PROVE  /\ Worked(m, n, {p}) /\ Size(n.stack) = Size(m.stack)
         /\ Out(n, p).final = Out(m, p).final
  <1>1. Worked(m, m, {p})
    BY WorkedReflexive
  <1>2. StringFailure \in Failures
    BY DEF Failures
  <1>3. CASE StringOutOfLimits(SchemaAt(m, p), name)
    BY <1>2, <1>3, FailWorks DEF ValidateName
  <1>4. CASE ~ StringOutOfLimits(SchemaAt(m, p), name)
    BY <1>1, <1>4 DEF ValidateName
  <1> QED
    BY <1>3, <1>4

-----------------------------------------------------------------------------
(***************************************************************************)
(* Pushing positions.                                                      *)
(***************************************************************************)

\* A pushed position has no result yet, and composition pushes it beside its parent.
PushedTidy(s, pos, p) ==
  /\ PushedOn(s, pos)
  /\ pos.out = FreshOutcome
  /\ pos.parent = p
  /\ pos.composition_type # "NONE" => s.positions[p].depth = s.depth
  /\ pos.composition_type = "REF" => References

\* Outcomes stay where positions are pushed.
SameOuts(s, t) == \A x \in 1 .. Size(s) : OutAt(t, x) = OutAt(s, x)

\* Positions are pushed for a live one.
LEMMA PushedWorks ==
  ASSUME NEW m, IsTidy(m), NEW p, LiveIn(m.stack, p),
         NEW list \in Seq(PositionType(Schemas)),
         \A i \in 1 .. Len(list) : PushedTidy(m.stack, list[i], p),
         NEW n, n = [stack |-> Extended(m.stack, list), error |-> m.error]
  PROVE  /\ Worked(m, n, {p})
         /\ SameOuts(m.stack, n.stack)
  <1>1. Advanced(m, n)
    BY ExtendedAdvances DEF PushedTidy, IsTidy
  <1>2. PICK s : s = m.stack
    OBVIOUS
  <1>3. /\ StackOK(s) /\ Size(s) \in Nat /\ p \in 1 .. Size(s)
        /\ s.positions \in Seq(PositionType(Schemas))
        /\ Size(s) = Len(s.positions) /\ Len(list) \in Nat
        /\ s = [positions |-> s.positions, last_separator |-> s.last_separator,
                depth |-> s.depth]
    BY <1>2, StackFields, LenProperties DEF IsTidy, IsMachine, LiveIn, Size
  <1> DEFINE ps == s.positions \o list
  <1>4. n.stack = [positions |-> ps, last_separator |-> s.last_separator,
                   depth |-> s.depth]
    BY <1>2, <1>3 DEF Extended
  <1>5. /\ Len(ps) = Size(s) + Len(list)
        /\ \A i \in 1 .. Size(s) + Len(list) :
             ps[i] = IF i <= Size(s) THEN s.positions[i] ELSE list[i - Size(s)]
    BY <1>3, ConcatProperties
  <1> HIDE DEF ps
  <1>6. Size(n.stack) = Size(s) + Len(list)
    <2>1. n.stack.positions = ps
      BY <1>4
    <2>2. Size(n.stack) = Len(ps)
      BY <2>1 DEF Size
    <2> QED
      BY <2>2, <1>5
  <1>7. \A x \in 1 .. Size(s) : n.stack.positions[x] = s.positions[x]
    BY <1>3, <1>4, <1>5
  <1>8. \A x \in Size(s) + 1 .. Size(n.stack) : PushedTidy(s, n.stack.positions[x], p)
    <2> SUFFICES ASSUME NEW x \in Size(s) + 1 .. Size(n.stack)
                 PROVE  PushedTidy(s, n.stack.positions[x], p)
      OBVIOUS
    <2>1. /\ x - Size(s) \in 1 .. Len(list) /\ x \in 1 .. Size(s) + Len(list)
          /\ ~ x <= Size(s)
      BY <1>3, <1>6
    <2>2. n.stack.positions[x] = list[x - Size(s)]
      BY <1>4, <1>5, <2>1
    <2> QED
      BY <1>2, <2>1, <2>2
  <1>9. Tidy(n.stack)
    <2> SUFFICES ASSUME NEW x \in 1 .. Size(n.stack) PROVE TidyAt(n.stack, x)
      BY DEF Tidy
    <2>1. CASE x \in 1 .. Size(s)
      <3>1. TidyAt(s, x) /\ n.stack.positions[x] = s.positions[x]
        BY <1>2, <1>7, <2>1 DEF IsTidy, Tidy
      <3>2. ASSUME s.positions[x].composition_type # "NONE"
            PROVE  n.stack.positions[s.positions[x].parent]
                     = s.positions[s.positions[x].parent]
        <4>1. s.positions[x].parent \in 1 .. x - 1
          BY <3>1, <3>2 DEF TidyAt
        <4>2. s.positions[x].parent \in 1 .. Size(s)
          BY <4>1, <2>1, <1>3
        <4> QED
          BY <4>2, <1>7
      <3> QED
        BY <3>1, <3>2 DEF TidyAt
    <2>2. CASE x \notin 1 .. Size(s)
      <3>1. x \in Size(s) + 1 .. Size(n.stack) /\ p \in 1 .. x - 1
        BY <1>3, <1>6, <2>2
      <3>2. PushedTidy(s, n.stack.positions[x], p)
        BY <1>8, <3>1
      <3>3. n.stack.positions[p] = s.positions[p]
        BY <1>3, <1>7
      <3>4. FreshOutcome.result = "VALID"
        BY DEF FreshOutcome
      <3> QED
        BY <3>1, <3>2, <3>3, <3>4 DEF PushedTidy, PushedOn, TidyAt
    <2> QED
      BY <2>1, <2>2
  <1>10. SameOuts(s, n.stack)
    BY <1>7 DEF SameOuts, OutAt
  <1>11. \A x \in Size(s) + 1 .. Size(n.stack) :
           OutAt(n.stack, x) = FreshOutcome /\ n.stack.positions[x].parent \in {p}
    BY <1>8 DEF PushedTidy, OutAt
  <1>12. Worked(m, n, {p})
    BY <1>1, <1>2, <1>9, <1>10, <1>11 DEF Worked, SameOuts, FinalValid
  <1> QED
    BY <1>2, <1>10, <1>12

\* One position per schema of a list is pushed.
LEMMA PushBasicsWorks ==
  ASSUME NEW m, IsTidy(m), NEW p, LiveIn(m.stack, p), NEW ids \in Seq(Schemas),
         NEW n, n = PushBasics(m, ids, p)
  PROVE  Worked(m, n, {p}) /\ SameOuts(m.stack, n.stack)
  <1> DEFINE list == [i \in DOMAIN ids |->
                        Position(m.stack, "BASIC", "NONE", ids[i], p)]
  <1>1. StackOK(m.stack)
    BY DEF IsTidy, IsMachine
  <1>2. \A i \in DOMAIN ids : ids[i] \in Schemas
    BY LenProperties, ElementOfSeq
  <1>3. \A i \in DOMAIN ids : PushedOn(m.stack, list[i])
    BY <1>1, <1>2, MadePosition DEF CompositionTypes
  <1>4. \A i \in DOMAIN ids : PushedTidy(m.stack, list[i], p)
    BY <1>3 DEF PushedTidy, Position
  <1>5. list = [i \in DOMAIN ids |-> list[i]] /\ DOMAIN list = DOMAIN ids
    OBVIOUS
  <1>6. n = [stack |-> Extended(m.stack, list), error |-> m.error]
    <2>1. m = [stack |-> m.stack, error |-> m.error]
      BY DEF IsTidy, IsMachine
    <2>2. PICK ps : ps = m.stack.positions \o list
      OBVIOUS
    <2>3. n = [m EXCEPT !.stack.positions = ps]
      BY <2>2 DEF PushBasics
    <2>4. Extended(m.stack, list) = [m.stack EXCEPT !.positions = ps]
      BY <2>2 DEF Extended
    <2> HIDE DEF list
    <2>5. [m EXCEPT !.stack.positions = ps]
            = [stack |-> [m.stack EXCEPT !.positions = ps], error |-> m.error]
      BY <2>1
    <2> QED
      BY <2>3, <2>4, <2>5
  <1> HIDE DEF list
  <1>7. list \in Seq(PositionType(Schemas))
    BY <1>3, <1>5, Mapped DEF PushedOn
  <1>8. \A i \in 1 .. Len(list) : PushedTidy(m.stack, list[i], p)
    BY <1>4, <1>5, <1>7, LenProperties
  <1> QED
    BY <1>6, <1>7, <1>8, PushedWorks

\* Only a schema with $ref has a subschema with the composition type of references.
LEMMA ReferenceSubschemas ==
  ASSUME NEW id \in Schemas, NEW i \in DOMAIN Subschemas(SchemaOf(id)),
         Subschemas(SchemaOf(id))[i].comp = "REF"
  PROVE  References
  <1>1. PICK s : s = SchemaOf(id)
    OBVIOUS
  <1>2. CASE s.ref # <<>>
    BY <1>1, <1>2 DEF References
  <1>3. CASE s.ref = <<>>
    <2> DEFINE Others == {x \in Subschema : x.comp # "REF"}
    <2>1. ASSUME NEW ids \in Seq(Schemas), NEW comp \in CompositionTypes \ {"REF"}
          PROVE  Tagged(ids, comp) \in Seq(Others)
      <3>1. PICK new : new = Tagged(ids, comp)
        OBVIOUS
      <3>2. \A k \in DOMAIN ids : ids[k] \in Schemas
        BY LenProperties, ElementOfSeq
      <3>3. /\ new = [k \in DOMAIN ids |-> new[k]]
            /\ \A k \in DOMAIN ids : new[k] = [value |-> ids[k], comp |-> comp]
        BY <3>1 DEF Tagged
      <3>4. \A k \in DOMAIN ids : new[k] \in Others
        BY <3>2, <3>3 DEF Subschema
      <3> HIDE DEF Others
      <3>5. new \in Seq(Others)
        BY <3>3, <3>4, Mapped
      <3> QED
        BY <3>1, <3>5
    <2> HIDE DEF Others
    <2>2. PICK a \in Seq(Others), b \in Seq(Others), c \in Seq(Others),
               d \in Seq(Others), e \in Seq(Others), f \in Seq(Others) :
            Subschemas(s) = a \o b \o c \o d \o e \o f
      <3>1. /\ s.type_any \in Seq(Schemas) /\ s.type_list \in Seq(Schemas)
            /\ s.all_of \in Seq(Schemas) /\ s.any_of \in Seq(Schemas)
            /\ s.one_of \in Seq(Schemas) /\ s.not \in Seq(Schemas)
        BY <1>1, SchemaLists
      <3>2. /\ Tagged(s.type_any, "TYPE_ANY") \in Seq(Others)
            /\ Tagged(s.type_list, "TYPE_LIST") \in Seq(Others)
            /\ Tagged(s.all_of, "ALL") \in Seq(Others)
            /\ Tagged(s.any_of, "ANY") \in Seq(Others)
            /\ Tagged(s.one_of, "ONE") \in Seq(Others)
            /\ Tagged(s.not, "NOT") \in Seq(Others)
        BY <2>1, <3>1 DEF CompositionTypes
      <3> QED
        BY <1>3, <3>2, Zenon DEF Subschemas
    <2>3. Subschemas(s) \in Seq(Others)
      BY <2>2, ConcatProperties
    <2>4. i \in DOMAIN Subschemas(s)
      BY <1>1
    <2>5. Subschemas(s)[i] \in Others
      BY <2>3, <2>4, LenProperties, ElementOfSeq
    <2> QED
      BY <1>1, <2>5 DEF Others
  <1> QED
    BY <1>2, <1>3

\* The subschemas of a position of the top layer are pushed.
LEMMA CompositionPushWorks ==
  ASSUME NEW m, IsTidy(m), NEW p, LiveIn(m.stack, p), Pos(m, p).depth = m.stack.depth,
         NEW n, n = CompositionPush(m, p)
  PROVE  Worked(m, n, {p}) /\ SameOuts(m.stack, n.stack)
  <1> PICK subs : subs = Subschemas(SchemaAt(m, p))
    OBVIOUS
  <1> DEFINE list == [i \in DOMAIN subs |->
                        Position(m.stack, "COMPOSED", subs[i].comp, subs[i].value, p)]
  <1>1. StackOK(m.stack)
    BY DEF IsTidy, IsMachine
  <1>2. PICK id \in Schemas : subs = Subschemas(SchemaOf(id))
    BY <1>1, LivePosition DEF SchemaAt, Pos
  <1>3. subs \in Seq(Subschema)
    BY <1>2, SubschemasOfSchema
  <1>4. \A i \in DOMAIN subs : subs[i].comp \in CompositionTypes
                               /\ subs[i].value \in Schemas
    <2>1. \A i \in DOMAIN subs : subs[i] \in Subschema
      BY <1>3, LenProperties, ElementOfSeq
    <2> QED
      BY <2>1 DEF Subschema
  <1>5. \A i \in DOMAIN subs : subs[i].comp = "REF" => References
    BY <1>2, ReferenceSubschemas
  <1>6. \A i \in DOMAIN subs : PushedOn(m.stack, list[i])
    BY <1>1, <1>4, MadePosition
  <1>7. \A i \in DOMAIN subs : PushedTidy(m.stack, list[i], p)
    BY <1>5, <1>6 DEF PushedTidy, Position, Pos
  <1>8. list = [i \in DOMAIN subs |-> list[i]] /\ DOMAIN list = DOMAIN subs
    OBVIOUS
  <1>9. n = [stack |-> Extended(m.stack, list), error |-> m.error]
    BY DEF CompositionPush, Extended, IsTidy, IsMachine
  <1> HIDE DEF list
  <1>10. list \in Seq(PositionType(Schemas))
    BY <1>3, <1>6, <1>8, Mapped DEF PushedOn
  <1>11. \A i \in 1 .. Len(list) : PushedTidy(m.stack, list[i], p)
    BY <1>7, <1>8, <1>10, LenProperties
  <1> QED
    BY <1>9, <1>10, <1>11, PushedWorks

\* Composition stores VALID where nothing is final but VALID.
LEMMA CompositionCheckWorks ==
  ASSUME NEW m, IsTidy(m), NEW p, LiveIn(m.stack, p), Pos(m, p).depth = m.stack.depth,
         Out(m, p).final => Out(m, p).result = "VALID",
         NEW n, n = CompositionCheck(m, p)
  PROVE  Worked(m, n, {p}) /\ Out(n, p).final = Out(m, p).final
  <1>1. PICK u : u = CompositionPush(m, p)
    OBVIOUS
  <1>2. Worked(m, u, {p}) /\ SameOuts(m.stack, u.stack)
    BY <1>1, CompositionPushWorks
  <1>3. IsTidy(u) /\ LiveIn(u.stack, p)
    BY <1>2, WorkedTidy, AdvancedKeepsLive DEF IsTidy, Worked
  <1>4. Out(u, p) = Out(m, p)
    BY <1>2 DEF SameOuts, OutAt, Out, Pos, LiveIn
  <1>5. PICK out : out = [Out(u, p) EXCEPT !.result = "VALID"]
    OBVIOUS
  <1>6. Out(u, p) \in OutcomeType /\ Out(u, p) = OutAt(u.stack, p)
    BY <1>3, TidyOutcome
  <1>7. out \in OutcomeType /\ out.result = "VALID" /\ out.final = Out(u, p).final
    BY <1>5, <1>6 DEF OutcomeType, Results
  <1>8. n = WithOut(u, p, out)
    BY <1>1, <1>5 DEF CompositionCheck, SetResult
  <1>9. out.final => FinalValid(u.stack, p)
    BY <1>4, <1>6, <1>7 DEF FinalValid
  <1>10. Worked(u, n, {p}) /\ Out(n, p) = out
    BY <1>3, <1>4, <1>7, <1>8, <1>9, WriteWorks
  <1>11. {p} \subseteq 1 .. Size(m.stack)
    BY DEF LiveIn
  <1>12. Worked(m, n, {p})
    BY <1>2, <1>10, <1>11, WorkedTransitive
  <1> QED
    BY <1>4, <1>7, <1>10, <1>12

-----------------------------------------------------------------------------
(***************************************************************************)
(* Propagation and the handlers.                                           *)
(***************************************************************************)

\* A propagated result never replaces a final one.  What every instance must
\* satisfy makes the parent final and INVALID.
LEMMA PropagateWorks ==
  ASSUME NEW m, IsTidy(m), NEW p, LiveIn(m.stack, p),
         IsValid(m, p) => Pos(m, p).depth = m.stack.depth,
         NEW n, n = Propagate(m, p), NEW q, q = Pos(m, p).parent
  PROVE  /\ Worked(m, n, {p, q} \ {NoPos}) /\ Size(n.stack) = Size(m.stack)
         /\ Out(n, p).final = Out(m, p).final /\ Out(n, p).result = Out(m, p).result
         /\ /\ q # NoPos
            /\ Pos(m, p).composition_type \in {"NONE", "ALL"}
            /\ ~ IsValid(m, p)
            /\ ~ FinalValid(m.stack, q)
            => OutAt(n.stack, q).final /\ OutAt(n.stack, q).result = "INVALID"
  <1> DEFINE W == {p, q} \ {NoPos}
  <1>1. Worked(m, m, W)
    BY WorkedReflexive
  <1>2. CASE q = NoPos
    BY <1>1, <1>2 DEF Propagate
  <1>3. CASE q # NoPos /\ Out(m, q).final
    <2>1. LiveIn(m.stack, q)
      BY <1>3, OutcomeAt DEF IsTidy
    <2>2. Out(m, q).result \in {"VALID", "INVALID"} /\ Out(m, q) = OutAt(m.stack, q)
      BY <2>1, TidyOutcome
    <2>3. n = m
      BY <1>3 DEF Propagate
    <2> QED
      BY <1>1, <1>3, <2>2, <2>3 DEF FinalValid
  <1>4. CASE q # NoPos /\ ~ Out(m, q).final
    <2>1. LiveIn(m.stack, q) /\ q \in W /\ p \in W /\ p # q
          /\ W \subseteq 1 .. Size(m.stack)
      <3>1. LiveIn(m.stack, q)
        BY <1>4, OutcomeAt DEF IsTidy
      <3>2. /\ ParentsBelow(m.stack) /\ p \in 1 .. Size(m.stack)
            /\ ~ IsSentinel(m.stack.positions[p])
        BY DEF IsTidy, IsMachine, StackOK, WellFormed, LiveIn
      <3>3. Pos(m, p).parent < p
        BY <3>2 DEF ParentsBelow, Pos
      <3>4. p # q /\ p # NoPos
        BY <3>1, <3>2, <3>3, StackFields DEF NoPos, LiveIn, IsTidy, IsMachine
      <3> QED
        BY <3>1, <3>2, <3>4, <1>4 DEF LiveIn
    <2>2. PICK r : r = Out(m, p).result
      OBVIOUS
    <2>3. /\ Out(m, p) \in OutcomeType /\ r \in {"VALID", "INVALID"}
          /\ Out(m, q) \in OutcomeType /\ Out(m, q).result \in {"VALID", "INVALID"}
          /\ Pos(m, p).composition_type \in CompositionTypes
      BY <2>1, <2>2, TidyOutcome, OutcomeAt DEF IsTidy
    <2>4. ASSUME NEW o, Worked(m, o, {q}), Size(o.stack) = Size(m.stack)
          PROVE  /\ Worked(m, o, W) /\ Size(o.stack) = Size(m.stack)
                 /\ Out(o, p) = Out(m, p)
      <3>1. Worked(o, o, W)
        BY <2>4, WorkedTidy, WorkedReflexive
      <3>2. Worked(m, o, W)
        BY <2>1, <2>4, <3>1, WorkedTransitive
      <3> QED
        BY <2>1, <2>4, <3>2 DEF Worked, LiveIn, OutAt, Out, Pos
    <2>5. ASSUME r = "VALID" => References /\ Pos(m, q).depth = m.stack.depth
          PROVE  /\ Worked(m, SetFinal(m, q, r), {q})
                 /\ Size(SetFinal(m, q, r).stack) = Size(m.stack)
                 /\ Out(SetFinal(m, q, r), q).final /\ Out(SetFinal(m, q, r), q).result = r
      BY <1>4, <2>1, <2>3, <2>5, SetFinalWorks
    <2>6. ASSUME NEW out, \/ out = [Out(m, q) EXCEPT !.type_valid = TRUE]
                          \/ out = [Out(m, q) EXCEPT !.any_of_valid = TRUE]
                          \/ out = [Out(m, q) EXCEPT !.one_of_valid = TRUE]
          PROVE  /\ Worked(m, WithOut(m, q, out), {q})
                 /\ Size(WithOut(m, q, out).stack) = Size(m.stack)
      <3>1. /\ out \in OutcomeType /\ out.result = Out(m, q).result
            /\ ~ out.final
        BY <1>4, <2>3, <2>6 DEF OutcomeType
      <3> QED
        BY <1>4, <2>1, <2>3, <3>1, WriteWorks
    <2>7. ASSUME NEW o, Worked(m, o, W), Size(o.stack) = Size(m.stack),
                 Out(o, p).final = Out(m, p).final, Out(o, p).result = r,
                 n = o, Pos(m, p).composition_type \notin {"NONE", "ALL"} \/ r = "VALID"
          PROVE  /\ Worked(m, n, W) /\ Size(n.stack) = Size(m.stack)
                 /\ Out(n, p).final = Out(m, p).final
                 /\ Out(n, p).result = Out(m, p).result
                 /\ Pos(m, p).composition_type \in {"NONE", "ALL"} => IsValid(m, p)
      BY <2>2, <2>7 DEF IsValid
    <2>8. n = PropagateTo(m, p, q) /\ r = Pos(m, p).out.result
      BY <1>4, <2>2 DEF Propagate, Out
    <2>9. CASE n = SetFinal(m, q, r) /\ r = "INVALID"
      <3>1. /\ Worked(m, n, {q}) /\ Size(n.stack) = Size(m.stack)
            /\ Out(n, q).final /\ Out(n, q).result = r
        BY <2>5, <2>9
      <3> QED
        BY <2>4, <2>9, <3>1 DEF Out, Pos, OutAt
    <2>10. CASE n = m /\ (Pos(m, p).composition_type \notin {"NONE", "ALL"} \/ r = "VALID")
      BY <1>1, <2>2, <2>7, <2>10
    <2>11. CASE n = ResetError(m) /\ Pos(m, p).composition_type \notin {"NONE", "ALL"}
      <3>1. n = [m EXCEPT !.error = "NONE"]
        BY <2>11 DEF ResetError
      <3>2. Worked(m, n, W) /\ n.stack = m.stack
        BY <3>1, ErrorWorks
      <3> QED
        BY <2>2, <2>7, <2>11, <3>2 DEF Out, Pos
    <2>12. CASE \E out : /\ n = WithOut(m, q, out)
                         /\ \/ out = [Out(m, q) EXCEPT !.type_valid = TRUE]
                            \/ out = [Out(m, q) EXCEPT !.any_of_valid = TRUE]
                            \/ out = [Out(m, q) EXCEPT !.one_of_valid = TRUE]
                         /\ Pos(m, p).composition_type \notin {"NONE", "ALL"}
      <3>1. Worked(m, n, {q}) /\ Size(n.stack) = Size(m.stack)
        BY <2>6, <2>12
      <3> QED
        BY <2>2, <2>4, <2>7, <2>12, <3>1
    <2>13. CASE n = SetFinal(m, q, r) /\ Pos(m, p).composition_type = "REF"
      <3>1. TidyAt(m.stack, p) /\ m.stack.positions[p].composition_type = "REF"
        BY <2>13 DEF IsTidy, Tidy, LiveIn, Pos
      <3>2. References /\ Pos(m, q).depth = Pos(m, p).depth
        BY <3>1 DEF TidyAt, Pos
      <3>3. r = "VALID" => Pos(m, q).depth = m.stack.depth
        BY <2>2, <3>2 DEF IsValid
      <3>4. Worked(m, n, {q}) /\ Size(n.stack) = Size(m.stack)
        BY <2>5, <2>13, <3>2, <3>3
      <3> QED
        BY <2>2, <2>4, <2>7, <2>13, <3>4
    <2>14. CASE /\ Pos(m, p).composition_type \notin {"NONE", "ALL"}
                /\ n = [WithOut(SetFinal(m, q, "INVALID"), p,
                                [Out(SetFinal(m, q, "INVALID"), p)
                                   EXCEPT !.reason = "COMPOSITION"])
                          EXCEPT !.error = "COMPOSITION"]
      <3>1. PICK u : u = SetFinal(m, q, "INVALID")
        OBVIOUS
      <3>2. Worked(m, u, {q}) /\ Size(u.stack) = Size(m.stack)
        BY <1>4, <2>1, <3>1, SetFinalWorks
      <3>3. /\ Worked(m, u, W) /\ Out(u, p) = Out(m, p)
        BY <2>4, <3>2
      <3>4. IsTidy(u) /\ LiveIn(u.stack, p)
        BY <3>2, WorkedTidy, AdvancedKeepsLive DEF IsTidy, Worked
      <3>5. PICK out : out = [Out(u, p) EXCEPT !.reason = "COMPOSITION"]
        OBVIOUS
      <3>6. /\ out \in OutcomeType /\ out.final = Out(m, p).final
            /\ out.result = r
        BY <2>2, <2>3, <3>3, <3>5 DEF OutcomeType, InvalidReasons
      <3>7. out.final /\ out.result = "VALID" => FinalValid(u.stack, p)
        BY <2>2, <3>3, <3>6, <3>4, TidyOutcome DEF FinalValid
      <3>8. PICK v : v = WithOut(u, p, out)
        OBVIOUS
      <3>9. /\ Worked(u, v, {p}) /\ Out(v, p) = out /\ Size(v.stack) = Size(u.stack)
        BY <2>2, <2>3, <3>3, <3>4, <3>6, <3>7, <3>8, WriteWorks
      <3>10. n = [v EXCEPT !.error = "COMPOSITION"]
        BY <2>14, <3>1, <3>5, <3>8
      <3>11. Worked(v, n, {p}) /\ n.stack = v.stack
        BY <3>9, <3>10, WorkedTidy, ErrorWorks
      <3>12. Worked(m, v, W)
        BY <2>1, <3>3, <3>9, WorkedTransitive
      <3>13. Worked(m, n, W)
        BY <2>1, <3>11, <3>12, WorkedTransitive
      <3>14. Out(n, p) = out /\ Size(n.stack) = Size(m.stack)
        BY <3>2, <3>9, <3>11 DEF Out, Pos
      <3> QED
        BY <2>7, <2>14, <3>6, <3>13, <3>14
    <2> HIDE DEF W
    <2>15. \/ n = SetFinal(m, q, r) /\ r = "INVALID"
           \/ n = m /\ (Pos(m, p).composition_type \notin {"NONE", "ALL"} \/ r = "VALID")
           \/ n = ResetError(m) /\ Pos(m, p).composition_type \notin {"NONE", "ALL"}
           \/ \E out : /\ n = WithOut(m, q, out)
                       /\ \/ out = [Out(m, q) EXCEPT !.type_valid = TRUE]
                          \/ out = [Out(m, q) EXCEPT !.any_of_valid = TRUE]
                          \/ out = [Out(m, q) EXCEPT !.one_of_valid = TRUE]
                       /\ Pos(m, p).composition_type \notin {"NONE", "ALL"}
           \/ n = SetFinal(m, q, r) /\ Pos(m, p).composition_type = "REF"
           \/ /\ Pos(m, p).composition_type \notin {"NONE", "ALL"}
              /\ n = [WithOut(SetFinal(m, q, "INVALID"), p,
                              [Out(SetFinal(m, q, "INVALID"), p)
                                 EXCEPT !.reason = "COMPOSITION"])
                        EXCEPT !.error = "COMPOSITION"]
      <3>1. Pos(m, p).composition_type \in CompositionTypes
        BY <2>3
      <3> QED
        BY <2>3, <2>8, <3>1 DEF PropagateTo, CompositionTypes
    <2> QED
      BY <2>9, <2>10, <2>11, <2>12, <2>13, <2>14, <2>15
  <1> QED
    BY <1>2, <1>3, <1>4

\* The first pass of object_start and array_start, over positions that are open.
LEMMA CheckStartWorks ==
  ASSUME NEW m, IsTidy(m), NEW p, LiveIn(m.stack, p), Pos(m, p).depth = m.stack.depth,
         ~ Out(m, p).final, NEW type, NEW n, n = CheckStart(m, p, type)
  PROVE  Worked(m, n, {p}) /\ ~ Out(n, p).final
  <1>1. TypeFailure \in Failures /\ ~ FinalValid(m.stack, p)
    BY TidyOutcome DEF Failures, FinalValid
  <1> QED
    BY <1>1, FailWorks, CompositionCheckWorks DEF CheckStart

\* The schemas of a member's value are pushed, or the member is refused.
LEMMA PushMemberWorks ==
  ASSUME NEW m, IsTidy(m), NEW p, LiveIn(m.stack, p), ~ FinalValid(m.stack, p),
         NEW n, n = PushMember(m, p)
  PROVE  Worked(m, n, {p})
  <1>1. PICK id : id = Pos(m, p).value
    OBVIOUS
  <1>2. id \in Schemas /\ SchemaAt(m, p) = SchemaOf(id)
    BY <1>1, OutcomeAt DEF SchemaAt, IsTidy
  <1>3. MatchingSchemas(SchemaAt(m, p), Key) \in Seq(Schemas)
    BY <1>2, MatchingSchemasOfSchema
  <1>4. SchemaAt(m, p).additional \in Seq(Schemas)
    BY <1>2, SchemaLists
  <1>5. KeywordFailure \in Failures
    BY DEF Failures
  <1>6. /\ Worked(m, PushBasics(m, MatchingSchemas(SchemaAt(m, p), Key), p), {p})
        /\ Worked(m, PushBasics(m, SchemaAt(m, p).additional, p), {p})
    BY <1>3, <1>4, PushBasicsWorks
  <1>7. Worked(m, FailFinal(m, p, KeywordFailure), {p})
    BY <1>5, FailFinalWorks
  <1> QED
    BY <1>6, <1>7, Zenon DEF PushMember

\* A position that is judged has no final result.
LEMMA JudgedOpen ==
  ASSUME NEW m, NEW p, Judgeable(m, p)
  PROVE  ~ FinalValid(m.stack, p) /\ ~ Out(m, p).final
  BY DEF Judgeable, FinalValid, OutAt, Out, Pos

\* The validation of a property name.
LEMMA JudgeNameWorks ==
  ASSUME NEW m, IsTidy(m), NEW p, LiveIn(m.stack, p), Pos(m, p).depth = m.stack.depth,
         NEW n, n = JudgeName(m, p)
  PROVE  Worked(m, n, {p, Pos(m, p).parent} \ {NoPos})
  <1>1. PICK q : q = Pos(m, p).parent
    OBVIOUS
  <1>2. /\ {p, q} \ {NoPos} \subseteq 1 .. Size(m.stack)
        /\ {p} \subseteq {p, q} \ {NoPos}
    BY <1>1, OutcomeAt, StackFields DEF IsTidy, IsMachine, LiveIn, NoPos
  <1>3. CASE ~ Judgeable(m, p)
    BY <1>1, <1>3, WorkedReflexive DEF JudgeName
  <1>4. CASE Judgeable(m, p)
    <2>1. PICK u : u = IF SchemaAt(m, p).type = "STRING"
                       THEN ValidateName(m, p, Key) ELSE m
      OBVIOUS
    <2>2. Worked(m, u, {p})
      BY <1>4, <2>1, JudgedOpen, ValidateNameWorks, WorkedReflexive
    <2>3. /\ IsTidy(u) /\ LiveIn(u.stack, p)
      BY <2>2, WorkedTidy, AdvancedKeepsLive DEF IsTidy, Worked
    <2>4. /\ Pos(u, p).parent = q /\ Pos(u, p).depth = u.stack.depth
      BY <1>1, <2>2 DEF Worked, Advanced, Grown, KeptTo, Kept, SameShape, Pos, LiveIn
    <2>5. n = Propagate(u, p)
      BY <1>4, <2>1 DEF JudgeName
    <2>6. Worked(u, n, {p, q} \ {NoPos})
      BY <2>3, <2>4, <2>5, PropagateWorks
    <2> QED
      BY <1>1, <1>2, <2>2, <2>6, WorkedTransitive
  <1> QED
    BY <1>3, <1>4

\* The validation of a value.
LEMMA JudgeWorks ==
  ASSUME NEW m, IsTidy(m), NEW p, LiveIn(m.stack, p), Pos(m, p).depth = m.stack.depth,
         NEW inst, NEW u,
         u = IF Judgeable(m, p) THEN ValidateValue(m, p, inst) ELSE m,
         NEW n, n = Propagate(u, p), NEW q, q = Pos(m, p).parent
  PROVE  /\ Worked(m, n, {p, q} \ {NoPos}) /\ Size(n.stack) = Size(m.stack)
         /\ Out(n, p).final = Out(m, p).final
         /\ /\ q # NoPos
            /\ Pos(m, p).composition_type \in {"NONE", "ALL"}
            /\ ~ IsValid(n, p)
            /\ ~ FinalValid(m.stack, q)
            => OutAt(n.stack, q).final /\ OutAt(n.stack, q).result = "INVALID"
  <1>1. /\ {p, q} \ {NoPos} \subseteq 1 .. Size(m.stack)
        /\ {p} \subseteq {p, q} \ {NoPos}
        /\ q # NoPos => LiveIn(m.stack, q) /\ q # p
    <2>1. q # NoPos => LiveIn(m.stack, q)
      BY OutcomeAt DEF IsTidy
    <2>2. /\ ParentsBelow(m.stack) /\ p \in 1 .. Size(m.stack)
          /\ ~ IsSentinel(m.stack.positions[p]) /\ Size(m.stack) \in Nat
      BY StackFields DEF IsTidy, IsMachine, StackOK, WellFormed, LiveIn
    <2>3. q < p
      BY <2>2 DEF ParentsBelow, Pos
    <2> QED
      BY <2>1, <2>2, <2>3 DEF LiveIn, NoPos
  <1>2. /\ Worked(m, u, {p}) /\ Size(u.stack) = Size(m.stack)
        /\ Out(u, p).final = Out(m, p).final
    <2>1. CASE Judgeable(m, p)
      BY <2>1, JudgedOpen, ValidateValueWorks
    <2>2. CASE ~ Judgeable(m, p)
      BY <2>2, WorkedReflexive
    <2> QED
      BY <2>1, <2>2
  <1>3. IsTidy(u) /\ LiveIn(u.stack, p)
    BY <1>2, WorkedTidy, AdvancedKeepsLive DEF IsTidy, Worked
  <1>4. /\ Pos(u, p).parent = q /\ Pos(u, p).depth = u.stack.depth
        /\ Pos(u, p).composition_type = Pos(m, p).composition_type
    BY <1>2 DEF Worked, Advanced, Grown, KeptTo, Kept, SameShape, Pos, LiveIn
  <1>5. /\ Worked(u, n, {p, q} \ {NoPos}) /\ Size(n.stack) = Size(u.stack)
        /\ Out(n, p).final = Out(u, p).final /\ Out(n, p).result = Out(u, p).result
        /\ /\ q # NoPos
           /\ Pos(u, p).composition_type \in {"NONE", "ALL"}
           /\ ~ IsValid(u, p)
           /\ ~ FinalValid(u.stack, q)
           => OutAt(n.stack, q).final /\ OutAt(n.stack, q).result = "INVALID"
    BY <1>3, <1>4, PropagateWorks
  <1>6. Worked(m, n, {p, q} \ {NoPos})
    BY <1>1, <1>2, <1>5, WorkedTransitive
  <1>7. q # NoPos /\ ~ FinalValid(m.stack, q) => ~ FinalValid(u.stack, q)
    BY <1>1, <1>2 DEF Worked, LiveIn, FinalValid
  <1> QED
    BY <1>2, <1>4, <1>5, <1>6, <1>7 DEF IsValid

\* The schemas of an item are pushed.
LEMMA PushItemWorks ==
  ASSUME NEW m, IsTidy(m), NEW p, LiveIn(m.stack, p), NEW n, n = PushItem(m, p)
  PROVE  Worked(m, n, {p})
  <1>1. PICK id : id = Pos(m, p).value
    OBVIOUS
  <1>2. id \in Schemas /\ SchemaAt(m, p) = SchemaOf(id)
    BY <1>1, OutcomeAt DEF SchemaAt, IsTidy
  <1>3. Out(m, p).count \in Nat
    BY OutcomeAt DEF OutcomeType, IsTidy
  <1>4. ItemSchemas(SchemaAt(m, p), Out(m, p).count) \in Seq(Schemas)
    BY <1>2, <1>3, ItemSchemasOfSchema
  <1>5. Worked(m, PushBasics(m, ItemSchemas(SchemaAt(m, p), Out(m, p).count), p), {p})
    BY <1>4, PushBasicsWorks
  <1> QED
    BY <1>5, WorkedReflexive DEF PushItem

\* The part of array_append for one position.
LEMMA AppendItemWorks ==
  ASSUME NEW m, IsTidy(m), NEW p, LiveIn(m.stack, p), NEW n, n = AppendItem(m, p)
  PROVE  Worked(m, n, {p, Pos(m, p).parent} \ {NoPos})
  <1>1. PICK q : q = Pos(m, p).parent
    OBVIOUS
  <1>2. /\ {p, q} \ {NoPos} \subseteq 1 .. Size(m.stack)
        /\ {p} \subseteq {p, q} \ {NoPos}
    BY <1>1, OutcomeAt, StackFields DEF IsTidy, IsMachine, LiveIn, NoPos
  <1>3. Worked(m, m, {p, q} \ {NoPos})
    BY WorkedReflexive
  <1>4. Worked(m, PushItem(m, p), {p, q} \ {NoPos})
    <2>1. PICK o : o = PushItem(m, p)
      OBVIOUS
    <2>2. Worked(m, o, {p})
      BY <2>1, PushItemWorks
    <2>3. Worked(o, o, {p})
      BY <2>2, WorkedTidy, WorkedReflexive
    <2> QED
      BY <1>2, <2>1, <2>2, <2>3, WorkedTransitive
  <1>5. ASSUME ~ Out(m, p).final
        PROVE  Worked(m, Propagate(FailFinal(m, p, KeywordFailure), p), {p, q} \ {NoPos})
    <2>1. PICK u : u = FailFinal(m, p, KeywordFailure)
      OBVIOUS
    <2>2. KeywordFailure \in Failures /\ ~ FinalValid(m.stack, p)
      BY <1>5, TidyOutcome DEF Failures, FinalValid
    <2>3. Worked(m, u, {p}) /\ Out(u, p).result = "INVALID"
      BY <2>1, <2>2, FailFinalWorks
    <2>4. IsTidy(u) /\ LiveIn(u.stack, p)
      BY <2>3, WorkedTidy, AdvancedKeepsLive DEF IsTidy, Worked
    <2>5. Pos(u, p).parent = q
      BY <1>1, <2>3 DEF Worked, Advanced, Grown, KeptTo, Kept, SameShape, Pos, LiveIn
    <2>6. PICK o : o = Propagate(u, p)
      OBVIOUS
    <2>7. Worked(u, o, {p, q} \ {NoPos})
      BY <2>3, <2>4, <2>5, <2>6, PropagateWorks DEF IsValid
    <2> QED
      BY <1>2, <2>1, <2>3, <2>6, <2>7, WorkedTransitive
  <1> QED
    BY <1>1, <1>3, <1>4, <1>5, Zenon DEF AppendItem

\* The schemas of the dependencies are pushed.
LEMMA PreValueWorks ==
  ASSUME NEW m, IsTidy(m), NEW p, LiveIn(m.stack, p), NEW n, n = PreValue(m, p)
  PROVE  Worked(m, n, {p})
  <1>1. PICK id : id = Pos(m, p).value
    OBVIOUS
  <1>2. PICK s : s = SchemaAt(m, p)
    OBVIOUS
  <1>3. id \in Schemas /\ s = SchemaOf(id)
    BY <1>1, <1>2, OutcomeAt DEF SchemaAt, IsTidy
  <1>4. PICK deps : deps = Picked(s.dependencies,
                     {i \in DOMAIN s.dependencies : s.dependencies[i].schema # <<>>})
    OBVIOUS
  <1>5. PICK ids : ids = [i \in DOMAIN deps |-> deps[i].schema[1]]
    OBVIOUS
  <1>6. ids \in Seq(Schemas)
    BY <1>3, <1>4, <1>5, DependencySchemas
  <1>7. Worked(m, PushBasics(m, ids, p), {p})
    BY <1>6, PushBasicsWorks
  <1>8. n = IF s.type # "OBJECT" THEN m ELSE PushBasics(m, ids, p)
    BY <1>2, <1>4, <1>5 DEF PreValue
  <1> QED
    BY <1>7, <1>8, WorkedReflexive
-----------------------------------------------------------------------------
(***************************************************************************)
(* Final results in the states of the walk.                                *)
(***************************************************************************)

\* No result of the top layer is final.
TopOpen(s) == \A x \in s.last_separator + 1 .. Size(s) : ~ OutAt(s, x).final

\* What a step does to the results of the positions that it leaves.
Later(s, t, X) ==
  \A x \in 1 .. Size(t) :
    /\ x <= Size(s) /\ x \notin X /\ OutAt(s, x).final /\ OutAt(t, x).final =>
         OutAt(t, x).result = OutAt(s, x).result
    /\ FinalValid(t, x) =>
         References \/ (x <= Size(s) /\ FinalValid(s, x)) \/ x \in X

\* The phases in which nothing was judged in the top layer yet.
Opening == {"enter", "object_start", "array_start", "object_key", "names_check",
            "names_result", "array_items", "array_append", "contains_push",
            "contains_check"}

ResultOK(s, ph, cs, array) ==
  /\ Tidy(s)
  /\ ph \in Opening \/ (ph = "member" /\ array) => TopOpen(s)
  /\ ph \in NamesPhases => ~ FinalValid(s, cs[Len(cs)].pos)
  /\ ph \in {"names_check", "contains_check"} =>
       s.last_separator <= cs[Len(cs)].at.index

ResultInv == ResultOK(stack, phase, calls, Top(frames).inst.t = "ARRAY")

\* The position the result of contains is stored in, over a final one too.
Excused == IF phase = "contains_return" THEN {Call.pos} ELSE {}

ResultStep == ResultInv' /\ Later(stack, stack', Excused)

\* Levels grow with the positions.
LEMMA LevelMonotone ==
  ASSUME NEW s, StackOK(s), NEW j \in 0 .. Size(s), NEW i \in 0 .. j
  PROVE  Level(s, i) \in Nat /\ Level(s, j) \in Nat /\ Level(s, i) <= Level(s, j)
  <1>1. Size(s) \in Nat
    BY StackFields
  <1>2. SeparatorsTo(s, i) \in SUBSET SeparatorsTo(s, j)
    BY <1>1 DEF SeparatorsTo
  <1>3. /\ IsFiniteSet(SeparatorsTo(s, j)) /\ Cardinality(SeparatorsTo(s, j)) \in Nat
        /\ Cardinality(SeparatorsTo(s, i)) \in Nat
    BY <1>1, SeparatorsFinite
  <1>4. Cardinality(SeparatorsTo(s, i)) <= Cardinality(SeparatorsTo(s, j))
    BY <1>2, <1>3, FS_Subset
  <1> QED
    BY <1>3, <1>4 DEF Level

\* A live position of the top level lies above the last separator.
LEMMA TopAbove ==
  ASSUME NEW s, StackOK(s), NEW p, LiveIn(s, p), Level(s, p) = s.depth
  PROVE  s.last_separator < p
  <1>1. /\ Size(s) \in Nat /\ p \in 1 .. Size(s) /\ s.last_separator \in 0 .. Size(s)
        /\ s.depth \in Nat
    BY StackFields DEF LiveIn
  <1> SUFFICES ASSUME p <= s.last_separator PROVE FALSE
    BY <1>1
  <1>2. PICK l : l = s.last_separator
    OBVIOUS
  <1>3. /\ l \in 1 .. Size(s) /\ IsSentinel(s.positions[l])
        /\ Level(s, l) = s.depth
    BY <1>1, <1>2, LastSeparator, TopLevel DEF NoPos
  <1>4. p # l
    BY <1>3 DEF LiveIn
  <1>5. l - 1 \in Nat /\ (l - 1) + 1 = l /\ l - 1 \in 0 .. Size(s) /\ p \in 0 .. l - 1
    BY <1>1, <1>2, <1>3, <1>4
  <1>6. IsSentinel(s.positions[(l - 1) + 1])
    BY <1>3, <1>5
  <1>7. Level(s, (l - 1) + 1) = Level(s, l - 1) + 1
    BY <1>5, <1>6, SeparatorsStep DEF Level
  <1>8. Level(s, p) \in Nat /\ Level(s, l - 1) \in Nat /\ Level(s, p) <= Level(s, l - 1)
    BY <1>5, LevelMonotone
  <1> QED
    BY <1>3, <1>5, <1>7, <1>8

\* A position of a lower level lies below it.
LEMMA BelowTop ==
  ASSUME NEW s, StackOK(s), NEW p \in 1 .. Size(s), Level(s, p) < s.depth
  PROVE  p < s.last_separator
  <1>1. Size(s) \in Nat /\ s.last_separator \in 0 .. Size(s) /\ s.depth \in Nat
    BY StackFields
  <1>2. ~ s.last_separator <= p
    BY <1>1, TopLevel
  <1> QED
    BY <1>1, <1>2

\* A tidy machine in the states of the walk.
LEMMA TidyNow ==
  ASSUME IndInv, ResultInv
  PROVE  /\ IsTidy(M) /\ M.stack = stack /\ StackOK(stack) /\ Tidy(stack)
         /\ Size(stack) \in Nat /\ stack.last_separator \in 0 .. Size(stack)
         /\ stack.depth \in Nat
  <1>1. IsMachine(M) /\ M.stack = stack
    BY MachineNow
  <1>2. Tidy(stack) /\ StackOK(stack)
    BY <1>1 DEF ResultInv, ResultOK, IsMachine
  <1> QED
    BY <1>1, <1>2, StackFields DEF IsTidy

\* What a step that works does to the results.
LEMMA WorkLater ==
  ASSUME NEW m, IsTidy(m), NEW n, NEW W, Worked(m, n, W), NEW X
  PROVE  Later(m.stack, n.stack, X)
  <1>1. /\ Size(m.stack) \in Nat /\ Size(n.stack) \in Nat
    BY StackFields DEF IsTidy, IsMachine, Worked, Advanced, Grown
  <1> SUFFICES ASSUME NEW x \in 1 .. Size(n.stack)
               PROVE  /\ /\ x <= Size(m.stack) /\ x \notin X /\ OutAt(m.stack, x).final
                         /\ OutAt(n.stack, x).final
                         => OutAt(n.stack, x).result = OutAt(m.stack, x).result
                      /\ FinalValid(n.stack, x) =>
                           \/ References
                           \/ x <= Size(m.stack) /\ FinalValid(m.stack, x)
                           \/ x \in X
    BY DEF Later
  <1>2. CASE x \in 1 .. Size(m.stack)
    BY <1>1, <1>2 DEF Worked
  <1>3. CASE x \notin 1 .. Size(m.stack)
    <2>1. x \in Size(m.stack) + 1 .. Size(n.stack) /\ ~ x <= Size(m.stack)
      BY <1>1, <1>3
    <2>2. ~ OutAt(n.stack, x).final
      BY <2>1 DEF Worked, FreshOutcome
    <2> QED
      BY <2>1, <2>2 DEF FinalValid
  <1> QED
    BY <1>2, <1>3

\* The top layer stays open when no result is made final in it.
LEMMA WorkOpen ==
  ASSUME NEW m, IsTidy(m), NEW n, NEW W, Worked(m, n, W), TopOpen(m.stack),
         \A x \in W : x > m.stack.last_separator => ~ OutAt(n.stack, x).final
  PROVE  TopOpen(n.stack)
  <1>1. /\ Size(m.stack) \in Nat /\ Size(n.stack) \in Nat
        /\ m.stack.last_separator \in Nat
        /\ n.stack.last_separator = m.stack.last_separator
    BY StackFields DEF IsTidy, IsMachine, Worked, Advanced, Grown
  <1> SUFFICES ASSUME NEW x \in n.stack.last_separator + 1 .. Size(n.stack)
               PROVE  ~ OutAt(n.stack, x).final
    BY DEF TopOpen
  <1>2. CASE x \in 1 .. Size(m.stack)
    <2>1. x \in m.stack.last_separator + 1 .. Size(m.stack) /\ x > m.stack.last_separator
      BY <1>1, <1>2
    <2>2. ~ OutAt(m.stack, x).final
      BY <2>1 DEF TopOpen
    <2> QED
      BY <1>2, <2>1, <2>2 DEF Worked
  <1>3. CASE x \notin 1 .. Size(m.stack)
    <2>1. x \in Size(m.stack) + 1 .. Size(n.stack)
      BY <1>1, <1>3
    <2> QED
      BY <2>1 DEF Worked, FreshOutcome
  <1> QED
    BY <1>2, <1>3

\* Opening a layer.
LEMMA OpenedResults ==
  ASSUME NEW s, StackOK(s), Tidy(s), NEW t, t = PushSeparator(s), NEW X
  PROVE  /\ Tidy(t) /\ TopOpen(t) /\ Later(s, t, X)
         /\ \A x \in 1 .. Size(s) : OutAt(t, x) = OutAt(s, x)
  <1>1. Size(s) \in Nat
    BY StackFields
  <1>2. /\ Pushed(s, t, Separator(s)) /\ t.last_separator = Size(s) + 1
    BY PushSeparatorKeeps DEF StackOK
  <1>3. /\ Size(t) = Size(s) + 1
        /\ \A i \in 1 .. Size(s) : t.positions[i] = s.positions[i]
        /\ t.positions[Size(s) + 1] = Separator(s)
    BY <1>2 DEF Pushed, AgreeTo
  <1>4. /\ OutAt(t, Size(s) + 1) = FreshOutcome
        /\ t.positions[Size(s) + 1].composition_type = "NONE"
    BY <1>3 DEF OutAt, Separator
  <1>5. \A x \in 1 .. Size(s) : OutAt(t, x) = OutAt(s, x)
    BY <1>3 DEF OutAt
  <1>6. TopOpen(t)
    BY <1>1, <1>2, <1>3 DEF TopOpen
  <1>7. ASSUME NEW x \in 1 .. Size(t) PROVE TidyAt(t, x)
    <2>1. CASE x \in 1 .. Size(s)
      <3>1. TidyAt(s, x) /\ t.positions[x] = s.positions[x]
        BY <1>3, <2>1 DEF Tidy
      <3>2. ASSUME s.positions[x].composition_type # "NONE"
            PROVE  t.positions[s.positions[x].parent] = s.positions[s.positions[x].parent]
        <4>1. s.positions[x].parent \in 1 .. x - 1
          BY <3>1, <3>2 DEF TidyAt
        <4>2. s.positions[x].parent \in 1 .. Size(s)
          BY <4>1, <2>1, <1>1
        <4> QED
          BY <4>2, <1>3
      <3> QED
        BY <3>1, <3>2 DEF TidyAt
    <2>2. CASE x \notin 1 .. Size(s)
      <3>1. x = Size(s) + 1
        BY <1>1, <1>3, <2>2
      <3> QED
        BY <1>4, <3>1 DEF TidyAt, OutAt, FreshOutcome
    <2> QED
      BY <2>1, <2>2
  <1>8. ASSUME NEW x \in 1 .. Size(t)
        PROVE  /\ /\ x <= Size(s) /\ x \notin X /\ OutAt(s, x).final /\ OutAt(t, x).final
                  => OutAt(t, x).result = OutAt(s, x).result
               /\ FinalValid(t, x) =>
                    References \/ (x <= Size(s) /\ FinalValid(s, x)) \/ x \in X
    <2>1. CASE x \in 1 .. Size(s)
      BY <1>1, <1>5, <2>1 DEF FinalValid
    <2>2. CASE x \notin 1 .. Size(s)
      <3>1. x = Size(s) + 1 /\ ~ x <= Size(s)
        BY <1>1, <1>3, <2>2
      <3> QED
        BY <1>4, <3>1 DEF FinalValid, FreshOutcome
    <2> QED
      BY <2>1, <2>2
  <1> QED
    BY <1>5, <1>6, <1>7, <1>8 DEF Tidy, Later

\* Removing a layer.
LEMMA RemovedResults ==
  ASSUME NEW s, StackOK(s), Tidy(s), NEW t, t = LayerRemove(s), NEW X
  PROVE  /\ Tidy(t) /\ Later(s, t, X)
         /\ \A x \in 1 .. Size(t) : x \in 1 .. Size(s) /\ OutAt(t, x) = OutAt(s, x)
  <1>1. Size(s) \in Nat /\ s.depth \in Nat
    BY StackFields
  <1>2. /\ Size(t) \in Nat
        /\ \A x \in 1 .. Size(t) :
             x \in 1 .. Size(s) /\ t.positions[x] = s.positions[x]
    <2>1. CASE s.last_separator = NoPos
      <3>1. t = EmptyStack
        BY <2>1, LayerRemoveKeeps DEF StackOK
      <3>2. Size(t) = 0
        BY <3>1 DEF EmptyStack, Size
      <3> QED
        BY <3>2
    <2>2. CASE s.last_separator # NoPos
      <3>1. /\ s.last_separator \in 1 .. Size(s) /\ Size(t) = s.last_separator - 1
            /\ AgreeTo(s, t, Size(t))
        BY <2>2, LayerRemoveKeeps DEF StackOK
      <3> QED
        BY <1>1, <3>1 DEF AgreeTo
    <2> QED
      BY <2>1, <2>2
  <1>3. \A x \in 1 .. Size(t) : x \in 1 .. Size(s) /\ OutAt(t, x) = OutAt(s, x)
    BY <1>2 DEF OutAt
  <1>4. ASSUME NEW x \in 1 .. Size(t) PROVE TidyAt(t, x)
    <2>1. x \in 1 .. Size(s) /\ TidyAt(s, x) /\ t.positions[x] = s.positions[x]
      BY <1>2 DEF Tidy
    <2>2. ASSUME s.positions[x].composition_type # "NONE"
          PROVE  t.positions[s.positions[x].parent] = s.positions[s.positions[x].parent]
      <3>1. s.positions[x].parent \in 1 .. x - 1
        BY <2>1, <2>2 DEF TidyAt
      <3>2. PICK k, q : k = Size(t) /\ q = s.positions[x].parent
        OBVIOUS
      <3>3. x \in 1 .. k /\ q \in 1 .. x - 1
        BY <3>1, <3>2
      <3>4. k \in Nat
        BY <1>2, <3>2
      <3>5. q \in 1 .. k
        BY <3>3, <3>4
      <3> QED
        BY <1>2, <3>2, <3>5
    <2> QED
      BY <2>1, <2>2 DEF TidyAt
  <1>5. Later(s, t, X)
    BY <1>1, <1>3 DEF Later, FinalValid
  <1> QED
    BY <1>3, <1>4, <1>5 DEF Tidy

\* Resetting the top layer.
LEMMA ResetResults ==
  ASSUME NEW s, StackOK(s), Tidy(s), NEW t, t = LayerResetPositions(s), NEW X
  PROVE  Tidy(t) /\ Later(s, t, X) /\ Size(t) = Size(s)
  <1>1. /\ Size(s) \in Nat
        /\ s = [positions |-> s.positions, last_separator |-> s.last_separator,
                depth |-> s.depth]
        /\ DOMAIN s.positions = 1 .. Size(s)
    BY StackFields
  <1>2. Size(t) = Size(s) /\ KeptTo(s, t, Size(s))
    BY LayerResetKeeps DEF StackOK
  <1>3. \A x \in 1 .. Size(s) :
          OutAt(t, x) = OutAt(s, x) \/ OutAt(t, x) = FreshOutcome
    <2>1. PICK at : at = LayerPositions(s)
      OBVIOUS
    <2>2. t.positions = [i \in DOMAIN s.positions |->
                           IF i \in at THEN [s.positions[i] EXCEPT !.out = FreshOutcome]
                           ELSE s.positions[i]]
      BY <1>1, <2>1 DEF LayerResetPositions
    <2> SUFFICES ASSUME NEW x \in 1 .. Size(s)
                 PROVE  OutAt(t, x) = OutAt(s, x) \/ OutAt(t, x) = FreshOutcome
      OBVIOUS
    <2>3. t.positions[x] = IF x \in at THEN [s.positions[x] EXCEPT !.out = FreshOutcome]
                           ELSE s.positions[x]
      BY <1>1, <2>2
    <2>4. s.positions[x] \in PositionType(Schemas)
      BY PositionFields, StackFields, ElementOfSeq DEF Size
    <2>5. [s.positions[x] EXCEPT !.out = FreshOutcome].out = FreshOutcome
      BY <2>4 DEF PositionType
    <2> QED
      BY <2>3, <2>5 DEF OutAt
  <1>4. ASSUME NEW x \in 1 .. Size(t) PROVE TidyAt(t, x)
    <2>1. TidyAt(s, x) /\ Kept(s.positions[x], t.positions[x]) /\ x \in 1 .. Size(s)
      BY <1>2 DEF Tidy, KeptTo
    <2>2. t.positions[x].out.result \in {"VALID", "INVALID"}
      BY <1>3, <2>1 DEF OutAt, TidyAt, FreshOutcome
    <2>3. ASSUME s.positions[x].composition_type # "NONE"
          PROVE  t.positions[s.positions[x].parent].depth
                   = s.positions[s.positions[x].parent].depth
      <3>1. s.positions[x].parent \in 1 .. x - 1
        BY <2>1, <2>3 DEF TidyAt
      <3>2. s.positions[x].parent \in 1 .. Size(s)
        BY <3>1, <2>1, <1>1
      <3> QED
        BY <3>2, <1>2 DEF KeptTo, Kept, SameShape
    <2> QED
      BY <2>1, <2>2, <2>3 DEF TidyAt, Kept, SameShape
  <1>5. Later(s, t, X)
    BY <1>1, <1>2, <1>3 DEF Later, FinalValid, FreshOutcome
  <1> QED
    BY <1>2, <1>4, <1>5 DEF Tidy

-----------------------------------------------------------------------------
(***************************************************************************)
(* The steps.                                                              *)
(***************************************************************************)

\* A step that works on the machine.
LEMMA WorkedStep ==
  ASSUME IndInv, ResultInv, NEW n, NEW W, Worked(M, n, W), Becomes(n)
  PROVE  /\ stack' = n.stack /\ Tidy(stack')
         /\ stack'.last_separator = stack.last_separator
         /\ \A X : Later(stack, stack', X)
         /\ /\ TopOpen(stack)
            /\ \A x \in W : x > stack.last_separator => ~ OutAt(n.stack, x).final
            => TopOpen(stack')
  <1>1. stack' = n.stack /\ IsTidy(M) /\ M.stack = stack
    BY TidyNow DEF Becomes
  <1>2. Tidy(n.stack) /\ n.stack.last_separator = stack.last_separator
    BY <1>1 DEF Worked, Advanced, Grown
  <1>3. \A X : Later(M.stack, n.stack, X)
    BY <1>1, WorkLater
  <1>4. /\ TopOpen(M.stack)
        /\ \A x \in W : x > M.stack.last_separator => ~ OutAt(n.stack, x).final
        => TopOpen(n.stack)
    BY <1>1, WorkOpen
  <1> QED
    BY <1>1, <1>2, <1>3, <1>4

\* The step of a loop of a handler.
LEMMA LoopResults ==
  ASSUME IndInv, ResultInv, phase \notin CallPhases \cup {"member"},
         NEW n, NEW W, Worked(M, n, W), Becomes(n), UNCHANGED <<phase, frames>>,
         phase \in Opening =>
           \A x \in W : x > stack.last_separator => ~ OutAt(n.stack, x).final
  PROVE  ResultStep
  <1>1. /\ Tidy(stack') /\ Later(stack, stack', Excused)
        /\ phase \in Opening => TopOpen(stack) /\ TopOpen(stack')
    BY WorkedStep DEF ResultInv, ResultOK
  <1> QED
    BY <1>1 DEF ResultStep, ResultInv, ResultOK, CallPhases, NamesPhases, ContainsPhases

\* A step that leaves the stack alone.
LEMMA QuietResults ==
  ASSUME IndInv, ResultInv, NEW qh, phase' = qh, stack' = stack, qh \notin CallPhases,
         (qh \in Opening \/ (qh = "member" /\ Top(frames').inst.t = "ARRAY")) =>
           TopOpen(stack)
  PROVE  ResultStep
  <1>1. Later(stack, stack, Excused) /\ Tidy(stack)
    BY TidyNow DEF Later
  <1> QED
    BY <1>1 DEF ResultStep, ResultInv, ResultOK, CallPhases, NamesPhases, ContainsPhases

\* A step that opens a layer.
LEMMA OpenResults ==
  ASSUME IndInv, ResultInv, NEW qh, phase' = qh, stack' = PushSeparator(stack),
         \/ qh \notin CallPhases
         \/ qh = "names_result" /\ phase = "names_reopen" /\ calls' = calls
  PROVE  ResultStep
  <1>1. PICK t : t = PushSeparator(stack)
    OBVIOUS
  <1>2. /\ Tidy(t) /\ TopOpen(t) /\ Later(stack, t, Excused)
        /\ \A x \in 1 .. Size(stack) : OutAt(t, x) = OutAt(stack, x)
    BY <1>1, TidyNow, OpenedResults
  <1>3. ASSUME qh = "names_result" /\ phase = "names_reopen" /\ calls' = calls
        PROVE  ~ FinalValid(t, calls[Len(calls)].pos)
    <2>1. phase \in CallPhases /\ phase \in NamesPhases
      BY <1>3 DEF CallPhases, NamesPhases
    <2>2. LiveIn(stack, calls[Len(calls)].pos)
      BY <2>1, InnermostCall DEF IndInv
    <2>3. ~ FinalValid(stack, calls[Len(calls)].pos)
      BY <2>1 DEF ResultInv, ResultOK
    <2> QED
      BY <1>2, <2>2, <2>3 DEF LiveIn, FinalValid
  <1> QED
    BY <1>1, <1>2, <1>3
    DEF ResultStep, ResultInv, ResultOK, CallPhases, NamesPhases, ContainsPhases

\* A step that removes a layer.
LEMMA RemoveResults ==
  ASSUME IndInv, ResultInv, NEW qh, phase' = qh, stack' = LayerRemove(stack),
         qh \in {"value", "append", "member", "done", "contains_return"},
         qh = "member" => Top(frames').inst.t # "ARRAY"
  PROVE  ResultStep
  <1>1. PICK t : t = LayerRemove(stack)
    OBVIOUS
  <1>2. Tidy(t) /\ Later(stack, t, Excused)
    BY <1>1, TidyNow, RemovedResults
  <1> QED
    BY <1>1, <1>2 DEF ResultStep, ResultInv, ResultOK, NamesPhases, Opening

\* The initial states.
LEMMA InitResults ==
  ASSUME Init
  PROVE  ResultInv
  BY DEF Init, ResultInv, ResultOK, Tidy, EmptyStack, Size, Opening, NamesPhases

\* stream_init.
LEMMA StreamInitResults ==
  ASSUME IndInv, ResultInv, StreamInit, job.root \in Schemas
  PROVE  ResultStep
  <1>1. PICK t, pos : /\ t = PushBasic(stack, job.root, NoPos)
                      /\ pos = Position(stack, "BASIC", "NONE", job.root, NoPos)
    OBVIOUS
  <1>2. /\ phase = "init" /\ phase' = "enter" /\ stack' = t /\ stack = EmptyStack
    BY <1>1 DEF StreamInit, IndInv, Consistent, RootOK, EndPhases
  <1>3. stack.positions = <<>> /\ Size(stack) = 0
    BY <1>2 DEF EmptyStack, Size
  <1>4. t.positions = Append(stack.positions, pos)
    BY <1>1, <1>2 DEF PushBasic, EmptyStack
  <1>5. Size(t) = 1 /\ t.positions[1] = pos
    BY <1>3, <1>4 DEF Size
  <1>6. pos.out = FreshOutcome /\ pos.composition_type = "NONE"
    BY <1>1 DEF Position
  <1>7. t.last_separator = 0
    BY <1>1, <1>2 DEF PushBasic, EmptyStack, NoPos
  <1>8. Tidy(t)
    BY <1>5, <1>6 DEF Tidy, TidyAt, FreshOutcome
  <1>9. TopOpen(t)
    BY <1>5, <1>6, <1>7 DEF TopOpen, OutAt, FreshOutcome
  <1>10. Later(stack, t, Excused)
    BY <1>3, <1>5, <1>6 DEF Later, FinalValid, OutAt, FreshOutcome
  <1> QED
    BY <1>2, <1>8, <1>9, <1>10 DEF ResultStep, ResultInv, ResultOK, NamesPhases

\* validate_instance enters a value.
LEMMA EnterResults ==
  ASSUME IndInv, ResultInv, Enter
  PROVE  ResultStep
  <1>1. PICK qh : /\ phase = "enter" /\ phase' = qh /\ stack' = stack
                  /\ qh \in {"object_start", "array_start", "value_check"}
    BY DEF Enter, StartForward
  <1>2. TopOpen(stack)
    BY <1>1 DEF ResultInv, ResultOK, Opening
  <1> QED
    BY <1>1, <1>2, QuietResults DEF CallPhases, NamesPhases, ContainsPhases

\* The first pass over the layer of an object or an array.
LEMMA StartResults ==
  ASSUME IndInv, ResultInv, phase \in {"object_start", "array_start"},
         NEW p, p = ForwardAt, p # NoPos, NEW type,
         Becomes(CheckStart(M, p, type)), UNCHANGED <<phase, frames>>
  PROVE  ResultStep
  <1>1. PICK n, j : n = CheckStart(M, p, type) /\ j = ForwardStep(it)
    OBVIOUS
  <1>2. /\ IsTidy(M) /\ M.stack = stack /\ StackOK(stack) /\ TopOpen(stack)
        /\ Size(stack) \in Nat /\ stack.last_separator \in 0 .. Size(stack)
    BY TidyNow DEF ResultInv, ResultOK, Opening
  <1>3. phase \in OnTop
    BY DEF OnTop
  <1>4. LiveIn(stack, p) /\ Level(stack, p) = Len(frames) - 1
    BY <1>1, <1>3, TopStep DEF IndInv, ForwardAt
  <1>5. stack.depth = Len(frames) - 1
    BY <1>3 DEF IndInv, Consistent, DepthOK, OnTop, ValuePhases
  <1>6. Pos(M, p).depth = M.stack.depth /\ stack.last_separator < p
    BY <1>2, <1>4, <1>5, LiveLevel, TopAbove DEF Pos
  <1>7. ~ Out(M, p).final
    BY <1>2, <1>4, <1>6 DEF TopOpen, Out, Pos, OutAt, LiveIn
  <1>8. Worked(M, n, {p}) /\ ~ OutAt(n.stack, p).final
    <2>1. Worked(M, n, {p}) /\ ~ Out(n, p).final
      BY <1>1, <1>2, <1>4, <1>6, <1>7, CheckStartWorks
    <2> QED
      BY <2>1 DEF Out, Pos, OutAt
  <1>9. phase \notin CallPhases \cup {"member"}
    BY DEF CallPhases, NamesPhases, ContainsPhases
  <1> QED
    BY <1>1, <1>8, <1>9, LoopResults

\* object_start.
LEMMA ObjectStartResults ==
  ASSUME IndInv, ResultInv, ObjectStart
  PROVE  ResultStep
  <1>1. CASE ForwardLoop("object_start")
    <2>1. /\ phase = "object_start" /\ ForwardAt # NoPos
          /\ Becomes(CheckStart(M, ForwardAt, "OBJECT")) /\ UNCHANGED <<phase, frames>>
      BY <1>1 DEF ObjectStart, ForwardLoop, ForwardEnd, ForwardAt
    <2> QED
      BY <2>1, StartResults
  <1>2. CASE ForwardEnd("object_start")
    <2>1. /\ phase = "object_start" /\ phase' = "member"
          /\ UNCHANGED <<stack, frames>>
      BY <1>2 DEF ObjectStart, ForwardLoop, ForwardEnd
    <2>2. Top(frames').inst.t # "ARRAY"
      BY <2>1 DEF IndInv, Consistent, FramesOK, Top
    <2> QED
      BY <2>1, <2>2, QuietResults DEF CallPhases, NamesPhases, ContainsPhases, Opening
  <1> QED
    BY <1>1, <1>2 DEF ObjectStart

\* object_key opens a layer.
LEMMA ObjectKeyResults ==
  ASSUME IndInv, ResultInv, ObjectKey
  PROVE  ResultStep
  BY OpenResults DEF ObjectKey, StartAboveLayer, StartForward, CallPhases, NamesPhases,
     ContainsPhases

\* The member's value is walked.
LEMMA ObjectKeyEndResults ==
  ASSUME IndInv, ResultInv, ObjectKeyEnd
  PROVE  ResultStep
  <1>1. phase = "object_key" /\ phase' = "enter" /\ stack' = stack
    BY DEF ObjectKeyEnd, ForwardEnd
  <1> QED
    BY <1>1, QuietResults DEF ResultInv, ResultOK, Opening, CallPhases, NamesPhases,
       ContainsPhases

\* The next item is walked.
LEMMA ArrayItemResults ==
  ASSUME IndInv, ResultInv, ArrayItem
  PROVE  ResultStep
  <1>1. /\ phase = "member" /\ phase' = "enter" /\ stack' = stack
        /\ Top(frames).inst.t = "ARRAY"
    BY DEF ArrayItem, Inst, Frame, Top
  <1> QED
    BY <1>1, QuietResults DEF ResultInv, ResultOK, CallPhases, NamesPhases,
       ContainsPhases

\* array_start, its first loop.
LEMMA ArrayStartResults ==
  ASSUME IndInv, ResultInv, ArrayStart
  PROVE  ResultStep
  <1>1. CASE ForwardLoop("array_start")
    <2>1. /\ phase = "array_start" /\ ForwardAt # NoPos
          /\ Becomes(CheckStart(M, ForwardAt, "ARRAY")) /\ UNCHANGED <<phase, frames>>
      BY <1>1 DEF ArrayStart, ForwardLoop, ForwardEnd, ForwardAt
    <2> QED
      BY <2>1, StartResults
  <1>2. CASE ForwardEnd("array_start")
    <2>1. phase' = "array_propagate" /\ stack' = stack
      BY <1>2 DEF ArrayStart, ForwardLoop, ForwardEnd, StartReverse
    <2> QED
      BY <2>1, QuietResults DEF CallPhases, NamesPhases, ContainsPhases, Opening
  <1> QED
    BY <1>1, <1>2 DEF ArrayStart

\* array_start, its second loop.
LEMMA ArrayPropagateResults ==
  ASSUME IndInv, ResultInv, ArrayPropagate
  PROVE  ResultStep
  <1>1. CASE ReverseLoop("array_propagate")
    <2>1. PICK p, n, j : /\ p = ReverseAt /\ n = Propagate(M, p)
                         /\ j = ReverseStep(stack, it)
      OBVIOUS
    <2>2. /\ phase = "array_propagate" /\ p # NoPos /\ Becomes(n)
          /\ UNCHANGED <<frames, phase>>
      BY <1>1, <2>1 DEF ArrayPropagate, ReverseLoop, ReverseEnd, ReverseAt
    <2>3. phase \in InReverse
      BY <2>2 DEF InReverse
    <2>4. LiveIn(stack, p) /\ Level(stack, p) = Len(frames) - 1
      BY <2>1, <2>2, <2>3, ReverseStepConsistent DEF IndInv, ReverseAt
    <2>5. stack.depth = Len(frames) - 1
      BY <2>2 DEF IndInv, Consistent, DepthOK, ValuePhases
    <2>6. IsTidy(M) /\ M.stack = stack /\ Pos(M, p).depth = M.stack.depth
      BY <2>4, <2>5, TidyNow, LiveLevel DEF Pos
    <2>7. PICK W : Worked(M, n, W)
      BY <2>1, <2>4, <2>6, PropagateWorks
    <2>8. phase \notin CallPhases \cup {"member"} /\ phase \notin Opening
      BY <2>2 DEF CallPhases, NamesPhases, ContainsPhases, Opening
    <2> QED
      BY <2>2, <2>7, <2>8, LoopResults
  <1>2. CASE ReverseEnd("array_propagate")
    <2>1. phase' = "array_items" /\ stack' = PushSeparator(stack)
      BY <1>2 DEF ArrayPropagate, ReverseLoop, ReverseEnd, StartAboveLayer, StartForward
    <2> QED
      BY <2>1, OpenResults DEF CallPhases, NamesPhases, ContainsPhases
  <1> QED
    BY <1>1, <1>2 DEF ArrayPropagate

\* A loop over the layer under the new one writes below that.
LEMMA BelowLoop ==
  ASSUME IndInv, ResultInv, phase \in UnderLayer, NEW p, p = ForwardAt, p # NoPos
  PROVE  /\ IsTidy(M) /\ M.stack = stack /\ LiveIn(stack, p) /\ p \in Nat
         /\ p < stack.last_separator /\ stack.last_separator \in Nat
         /\ Pos(M, p).parent < stack.last_separator /\ Pos(M, p).parent \in Nat
         /\ \A x \in {p, Pos(M, p).parent} : ~ x > stack.last_separator
  <1>1. PICK j : j = ForwardStep(it)
    OBVIOUS
  <1>2. LiveIn(stack, p) /\ Level(stack, p) = Len(frames) - 1
    BY <1>1, BelowStep DEF IndInv, ForwardAt
  <1>3. stack.depth = Len(frames) - 1 + 1 /\ Len(frames) \in Nat
    BY Sizes DEF IndInv, Consistent, DepthOK
  <1>4. /\ IsTidy(M) /\ M.stack = stack /\ StackOK(stack)
        /\ stack.last_separator \in Nat /\ Size(stack) \in Nat /\ p \in 1 .. Size(stack)
    BY <1>2, TidyNow DEF LiveIn
  <1>5. Level(stack, p) < stack.depth
    BY <1>2, <1>3
  <1>6. p < stack.last_separator
    BY <1>4, <1>5, BelowTop
  <1>7. Pos(M, p).parent < p /\ Pos(M, p).parent \in Nat
    <2>1. stack.positions[p].parent < p
      BY <1>2, <1>4 DEF StackOK, WellFormed, ParentsBelow, LiveIn
    <2>2. stack.positions[p] \in PositionType(Schemas)
      BY <1>2, <1>4, LivePosition
    <2> QED
      BY <1>4, <2>1, <2>2 DEF Pos, PositionType
  <1> QED
    BY <1>2, <1>4, <1>6, <1>7

\* array_start, its last loop.
LEMMA ArrayItemsResults ==
  ASSUME IndInv, ResultInv, ArrayItems
  PROVE  ResultStep
  <1>1. CASE ForwardLoop("array_items")
    <2>1. PICK p, n : /\ p = ForwardAt
                      /\ n = IF IsValid(M, p) /\ SchemaAt(M, p).type = "ARRAY"
                             THEN PushItem(M, p) ELSE M
      OBVIOUS
    <2>2. /\ phase = "array_items" /\ p # NoPos /\ Becomes(n)
          /\ UNCHANGED <<frames, phase>>
      BY <1>1, <2>1 DEF ArrayItems, ForwardLoop, ForwardEnd, ForwardAt
    <2>3. phase \in UnderLayer
      BY <2>2 DEF UnderLayer
    <2>4. /\ IsTidy(M) /\ M.stack = stack /\ LiveIn(stack, p)
          /\ \A x \in {p} : ~ x > stack.last_separator
      BY <2>1, <2>2, <2>3, BelowLoop
    <2>5. Worked(M, n, {p})
      BY <2>1, <2>4, PushItemWorks, WorkedReflexive
    <2>6. phase \notin CallPhases \cup {"member"}
      BY <2>2 DEF CallPhases, NamesPhases, ContainsPhases
    <2> QED
      BY <2>2, <2>4, <2>5, <2>6, LoopResults
  <1>2. CASE ForwardEnd("array_items")
    <2>1. phase = "array_items" /\ phase' = "member" /\ stack' = stack
      BY <1>2 DEF ArrayItems, ForwardLoop, ForwardEnd
    <2> QED
      BY <2>1, QuietResults DEF ResultInv, ResultOK, Opening, CallPhases, NamesPhases,
         ContainsPhases
  <1> QED
    BY <1>1, <1>2 DEF ArrayItems

\* array_append opens a layer.
LEMMA ArrayAppendResults ==
  ASSUME IndInv, ResultInv, ArrayAppend
  PROVE  ResultStep
  BY OpenResults DEF ArrayAppend, StartAboveLayer, StartForward, CallPhases, NamesPhases,
     ContainsPhases

\* array_append, for one position.
LEMMA ArrayAppendPositionResults ==
  ASSUME IndInv, ResultInv, ArrayAppendPosition
  PROVE  ResultStep
  <1>1. CASE ForwardLoop("array_append")
    <2>1. PICK p, m, n : /\ p = ForwardAt
                         /\ m = Counted(M, p)
                         /\ n = IF SchemaAt(m, p).type = "ARRAY"
                                THEN AppendItem(m, p) ELSE m
      OBVIOUS
    <2>2. /\ phase = "array_append" /\ p # NoPos /\ Becomes(n)
          /\ UNCHANGED <<frames, phase>>
      BY <1>1, <2>1 DEF ArrayAppendPosition, ForwardLoop, ForwardEnd, ForwardAt
    <2>3. phase \in UnderLayer
      BY <2>2 DEF UnderLayer
    <2>4. PICK q : q = Pos(M, p).parent
      OBVIOUS
    <2>5. /\ IsTidy(M) /\ M.stack = stack /\ LiveIn(stack, p)
          /\ \A x \in {p, q} : ~ x > stack.last_separator
      BY <2>1, <2>2, <2>3, <2>4, BelowLoop
    <2>6. PICK W : W = {p, q} \ {NoPos}
      OBVIOUS
    <2>7. {p} \subseteq W /\ W \subseteq 1 .. Size(M.stack)
      <3>1. LiveIn(M.stack, p) /\ IsMachine(M) /\ StackOK(M.stack)
        BY <2>5 DEF IsTidy, IsMachine
      <3>2. p \in 1 .. Size(M.stack) /\ Size(M.stack) \in Nat
        BY <3>1, StackFields DEF LiveIn
      <3>3. q # NoPos => q \in 1 .. Size(M.stack)
        BY <2>4, <3>1, OutcomeAt DEF LiveIn
      <3> QED
        BY <2>2, <2>6, <3>2, <3>3
    <2>8. Worked(M, m, {p}) /\ IsTidy(m) /\ LiveIn(m.stack, p) /\ Pos(m, p).parent = q
      <3>1. IsTidy(M) /\ LiveIn(M.stack, p)
        BY <2>5
      <3> QED
        BY <2>1, <2>4, <3>1, CountedStays
    <2>9. Worked(m, n, W)
      BY <2>1, <2>6, <2>8, AppendItemWorks, WorkedReflexive
    <2>10. Worked(M, n, W)
      <3>1. PICK V : V = {p}
        OBVIOUS
      <3>2. Worked(M, m, V) /\ V \subseteq W /\ W \subseteq W /\ IsTidy(M)
        BY <2>5, <2>7, <2>8, <3>1
      <3> QED
        BY <2>7, <2>9, <3>2, WorkedTransitive
    <2>11. phase \notin CallPhases \cup {"member"}
      BY <2>2 DEF CallPhases, NamesPhases, ContainsPhases
    <2> QED
      BY <2>2, <2>5, <2>6, <2>10, <2>11, LoopResults
  <1>2. CASE ForwardEnd("array_append")
    <2>1. phase = "array_append" /\ phase' = "member" /\ stack' = stack
      BY <1>2 DEF ArrayAppendPosition, ForwardLoop, ForwardEnd
    <2> QED
      BY <2>1, QuietResults DEF ResultInv, ResultOK, Opening, CallPhases, NamesPhases,
         ContainsPhases
  <1> QED
    BY <1>1, <1>2 DEF ArrayAppendPosition

\* array_end removes the layer nothing was validated in.
LEMMA ArrayEndResults ==
  ASSUME IndInv, ResultInv, ArrayEnd
  PROVE  ResultStep
  BY RemoveResults DEF ArrayEnd

\* stream_value starts for an object.
LEMMA ObjectEndResults ==
  ASSUME IndInv, ResultInv, ObjectEnd
  PROVE  ResultStep
  BY QuietResults DEF ObjectEnd, StartForward, Opening, CallPhases, NamesPhases,
     ContainsPhases

\* The first loop of stream_value.
LEMMA ValueCheckResults ==
  ASSUME IndInv, ResultInv, ValueCheck
  PROVE  ResultStep
  <1>1. CASE ForwardLoop("value_check")
    <2>1. PICK p, n, j : /\ p = ForwardAt /\ j = ForwardStep(it)
                         /\ n = IF ~ IsValid(M, p) THEN M
                                ELSE IF Inst.t = "OBJECT" THEN PreValue(M, p)
                                ELSE CompositionCheck(M, p)
      OBVIOUS
    <2>2. /\ phase = "value_check" /\ p # NoPos /\ Becomes(n)
          /\ UNCHANGED <<frames, phase>>
      BY <1>1, <2>1 DEF ValueCheck, ForwardLoop, ForwardEnd, ForwardAt
    <2>3. phase \in OnTop
      BY <2>2 DEF OnTop
    <2>4. LiveIn(stack, p) /\ Level(stack, p) = Len(frames) - 1
      BY <2>1, <2>2, <2>3, TopStep DEF IndInv, ForwardAt
    <2>5. stack.depth = Len(frames) - 1
      BY <2>2 DEF IndInv, Consistent, DepthOK, ValuePhases
    <2>6. IsTidy(M) /\ M.stack = stack /\ Pos(M, p).depth = M.stack.depth
      BY <2>4, <2>5, TidyNow, LiveLevel DEF Pos
    <2>7. IsValid(M, p) => Worked(M, CompositionCheck(M, p), {p})
      BY <2>4, <2>6, CompositionCheckWorks DEF IsValid
    <2>8. Worked(M, n, {p})
      BY <2>1, <2>4, <2>6, <2>7, PreValueWorks, WorkedReflexive
    <2>9. phase \notin CallPhases \cup {"member"} /\ phase \notin Opening
      BY <2>2 DEF CallPhases, NamesPhases, ContainsPhases, Opening
    <2> QED
      BY <2>2, <2>8, <2>9, LoopResults
  <1>2. CASE ForwardEnd("value_check")
    <2>1. phase' = "value" /\ stack' = stack
      BY <1>2 DEF ValueCheck, ForwardLoop, ForwardEnd
    <2> QED
      BY <2>1, QuietResults DEF Opening, CallPhases, NamesPhases, ContainsPhases
  <1> QED
    BY <1>1, <1>2 DEF ValueCheck

\* The second loop of stream_value starts.
LEMMA StartValidateResults ==
  ASSUME IndInv, ResultInv, StartValidate
  PROVE  ResultStep
  BY QuietResults DEF StartValidate, StartReverse, Opening, CallPhases, NamesPhases,
     ContainsPhases

\* The layer of the value is removed and validate_instance returns.
LEMMA ValueEndResults ==
  ASSUME IndInv, ResultInv, ValueEnd
  PROVE  ResultStep
  <1>1. PICK gs : gs = Cut(frames)
    OBVIOUS
  <1>2. stack' = LayerRemove(stack) /\ frames' = gs /\ phase = "value_validate"
    BY <1>1 DEF ValueEnd, ReverseEnd, Cut
  <1>3. IsList(frames) /\ Len(frames) \in Nat /\ Len(frames) > 0
    BY <1>2, Sizes DEF IndInv, Consistent, FramesOK
  <1>4. CASE Len(frames) = 1
    BY <1>2, <1>4, RemoveResults DEF ValueEnd
  <1>5. CASE Len(frames) # 1
    <2>1. /\ Len(gs) = Len(frames) - 1
          /\ \A k \in 1 .. Len(frames) - 1 : gs[k] = frames[k]
      BY <1>1, <1>3, ListCut
    <2>2. Top(gs) = frames[Len(frames) - 1]
      BY <1>3, <1>5, <2>1 DEF Top
    <2>3. phase' = IF Top(gs).inst.t = "ARRAY" THEN "append" ELSE "member"
      BY <1>5, <2>2 DEF ValueEnd
    <2> QED
      BY <1>2, <2>3, RemoveResults
  <1> QED
    BY <1>4, <1>5

\* What a loop inside a validation knows is replaced.
LEMMA CallWritten ==
  ASSUME IndInv, phase \in CallPhases, NEW c, WithCall(c)
  PROVE  Len(calls') = Len(calls) /\ calls'[Len(calls')] = c
  <1>1. Len(calls) \in Nat /\ Len(calls) > 0 /\ IsList(calls)
    BY InnermostCall DEF IndInv, Consistent, CallsOK
  <1>2. PICK cs : cs = Replaced(calls, Len(calls), c)
    OBVIOUS
  <1>3. calls' = cs
    BY <1>2 DEF WithCall, Replaced
  <1>4. Len(calls) \in 1 .. Len(calls)
    BY <1>1
  <1>5. /\ Len(cs) = Len(calls)
        /\ \A i \in 1 .. Len(calls) : cs[i] = IF i = Len(calls) THEN c ELSE calls[i]
    BY <1>1, <1>2, <1>4, ListReplaced
  <1> QED
    BY <1>3, <1>4, <1>5

\* The position a loop inside a validation was called for lies under its layer.
LEMMA CallBelow ==
  ASSUME IndInv, ResultInv, phase \in NamesLoop \cup ContainsLoop
  PROVE  /\ LiveIn(stack, Call.pos) /\ IsCall(Call)
         /\ Call.pos \in 1 .. stack.last_separator - 1
         /\ stack.last_separator \in 1 .. Size(stack)
         /\ stack.positions[Call.pos].depth < stack.depth
         /\ stack.depth > 0
  <1>1. phase \in CallPhases
    BY DEF NamesLoop, ContainsLoop, CallPhases, NamesPhases
  <1>2. /\ LiveIn(stack, Call.pos) /\ Len(calls) \in Nat /\ Len(frames) \in Nat
        /\ Level(stack, Call.pos) = Len(frames) - 2 + Len(calls) /\ IsCall(Call)
    BY <1>1, InnermostCall, Sizes DEF IndInv, Call
  <1>3. stack.depth = Len(frames) - 1 + Len(calls)
    <2>1. CASE phase \in NamesLoop
      <3>1. Len(calls) = 1
        BY <2>1 DEF IndInv, Consistent, InnerOK, NamesLoop, NamesPhases
      <3>2. stack.depth = Len(frames) - 1 + 1
        BY <2>1 DEF IndInv, Consistent, DepthOK, NamesLoop, UnderLayer
      <3> QED
        BY <3>1, <3>2
    <2>2. CASE phase \in ContainsLoop
      BY <2>2 DEF IndInv, Consistent, DepthOK, ContainsLoop
    <2> QED
      BY <2>1, <2>2
  <1>4. /\ StackOK(stack) /\ Size(stack) \in Nat
        /\ stack.last_separator \in 0 .. Size(stack) /\ stack.depth \in Nat
    BY TidyNow
  <1>5. Level(stack, Call.pos) < stack.depth /\ Call.pos \in 1 .. Size(stack)
    BY <1>2, <1>3 DEF LiveIn
  <1>6. Call.pos < stack.last_separator
    BY <1>4, <1>5, BelowTop
  <1>7. stack.positions[Call.pos].depth = Level(stack, Call.pos)
    BY <1>2, <1>4, LiveLevel
  <1>8. Level(stack, Call.pos) \in 0 .. stack.depth
    <2>1. Call.pos \in 0 .. Size(stack)
      BY <1>4, <1>5
    <2> QED
      BY <2>1, <1>4, LevelBounded
  <1> QED
    BY <1>2, <1>4, <1>5, <1>6, <1>7, <1>8

\* object_key, for one position.
LEMMA ObjectKeyPositionResults ==
  ASSUME IndInv, ResultInv, ObjectKeyPosition
  PROVE  ResultStep
  <1>1. PICK p, m : p = ForwardAt /\ m = Counted(M, p)
    OBVIOUS
  <1>2. PICK s, tooMany, named :
          /\ s = SchemaAt(m, p)
          /\ tooMany = (Out(m, p).count > s.max_properties)
          /\ named = PushBasics(m, s.property_names, p)
    OBVIOUS
  <1>3. /\ phase = "object_key" /\ p # NoPos /\ UNCHANGED frames
    BY <1>1 DEF ObjectKeyPosition, ForwardLoop, ForwardAt
  <1>4. phase \in UnderLayer
    BY <1>3 DEF UnderLayer
  <1>5. /\ IsTidy(M) /\ M.stack = stack /\ LiveIn(stack, p)
        /\ \A x \in {p} : ~ x > stack.last_separator
    BY <1>1, <1>3, <1>4, BelowLoop
  <1>6. Worked(M, m, {p}) /\ IsTidy(m) /\ LiveIn(m.stack, p)
    <2>1. IsTidy(M) /\ LiveIn(M.stack, p)
      BY <1>5
    <2> QED
      BY <1>1, <2>1, CountedStays
  <1>7. {p} \subseteq 1 .. Size(M.stack)
    BY <1>5 DEF LiveIn
  <1>8. TakesKey(m, p) => ~ OutAt(m.stack, p).final
    BY DEF TakesKey, Out, Pos, OutAt
  <1>9. TopOpen(stack)
    BY <1>3 DEF ResultInv, ResultOK, Opening
  <1>10. CASE TakesKey(m, p) /\ ~ tooMany /\ s.property_names # <<>>
    <2>1. PICK c : c = [pos |-> p, top |-> Size(named.stack), item |-> 0,
                        inst |-> Inst, valid |-> FALSE,
                        at |-> ForwardStart(named.stack)]
      OBVIOUS
    <2>2. Becomes(named) /\ calls' = <<c>> /\ phase' = "names_check"
      BY <1>1, <1>2, <1>10, <2>1 DEF ObjectKeyPosition
    <2>3. s.property_names \in Seq(Schemas)
      BY <1>2, <1>6, OutcomeAt, SchemaLists DEF SchemaAt, Pos, IsTidy
    <2>4. Worked(m, named, {p}) /\ SameOuts(m.stack, named.stack)
      BY <1>2, <1>6, <2>3, PushBasicsWorks
    <2>5. Worked(M, named, {p})
      BY <1>5, <1>6, <1>7, <2>4, WorkedTransitive
    <2>6. /\ stack' = named.stack /\ Tidy(stack') /\ Later(stack, stack', Excused)
          /\ TopOpen(stack')
      BY <1>5, <1>9, <2>2, <2>5, WorkedStep
    <2>7. ~ FinalValid(named.stack, p)
      BY <1>6, <1>8, <1>10, <2>4 DEF SameOuts, LiveIn, FinalValid
    <2>8. StackOK(named.stack) /\ Size(named.stack) > 0
      <3>1. StackOK(named.stack) /\ LiveIn(named.stack, p)
        BY <1>6, <2>4, AdvancedKeepsLive DEF IsTidy, Worked, Advanced, IsMachine
      <3> QED
        BY <3>1, StackFields DEF LiveIn
    <2>9. PICK at : at = ForwardStart(named.stack)
      OBVIOUS
    <2>10. named.stack.last_separator <= at.index
      BY <2>8, <2>9, ForwardStarts
    <2>11. c.pos = p /\ c.at = at
      BY <2>1, <2>9
    <2>12. calls'[Len(calls')] = c
      BY <2>2
    <2>13. ResultInv'
      BY <2>2, <2>6, <2>7, <2>10, <2>11, <2>12 DEF ResultInv, ResultOK
    <2> QED
      BY <2>6, <2>13 DEF ResultStep
  <1>11. CASE ~ (TakesKey(m, p) /\ ~ tooMany /\ s.property_names # <<>>)
    <2>1. PICK n : n = IF ~ TakesKey(m, p) THEN m
                       ELSE IF tooMany THEN FailFinal(m, p, KeywordFailure)
                       ELSE PushMember(m, p)
      OBVIOUS
    <2>2. Becomes(n) /\ UNCHANGED phase
      BY <1>1, <1>2, <1>11, <2>1 DEF ObjectKeyPosition
    <2>3. TakesKey(m, p) => ~ FinalValid(m.stack, p)
      BY <1>8 DEF FinalValid
    <2>4. Worked(m, n, {p})
      <3>1. KeywordFailure \in Failures
        BY DEF Failures
      <3> QED
        BY <1>6, <2>1, <2>3, <3>1, WorkedReflexive, FailFinalWorks, PushMemberWorks
    <2>5. Worked(M, n, {p})
      BY <1>5, <1>6, <1>7, <2>4, WorkedTransitive
    <2>6. phase \notin CallPhases \cup {"member"}
      BY <1>3 DEF CallPhases, NamesPhases, ContainsPhases
    <2> QED
      BY <1>3, <1>5, <2>2, <2>5, <2>6, LoopResults
  <1> QED
    BY <1>10, <1>11

\* The composition check of a position in the loops inside a position's validation.
LEMMA CallCheckWorks ==
  ASSUME IndInv, ResultInv, phase \in {"names_check", "contains_check"},
         NEW p, p = CallForward, p # NoPos, NEW n, n = CompositionCheck(M, p)
  PROVE  /\ LiveIn(stack, p) /\ p = Call.at.index
         /\ p > stack.last_separator /\ p \in 1 .. Size(stack) /\ p # Call.pos
         /\ Level(stack, p) = stack.depth
         /\ Worked(M, n, {p}) /\ ~ OutAt(n.stack, p).final
  <1>1. phase \in CallPhases /\ phase \in NamesLoop \cup ContainsLoop
    BY DEF CallPhases, NamesPhases, ContainsPhases, NamesLoop, ContainsLoop
  <1>2. /\ LiveIn(stack, Call.pos) /\ IsCall(Call)
        /\ Call.pos \in 1 .. stack.last_separator - 1
        /\ stack.last_separator \in 1 .. Size(stack)
    BY <1>1, CallBelow
  <1>3. /\ IsTidy(M) /\ M.stack = stack /\ StackOK(stack) /\ Size(stack) \in Nat
    BY TidyNow
  <1>4. /\ Call.at.index \in Nat \ {0} /\ TopOpen(stack)
        /\ stack.last_separator <= Call.at.index
    BY <1>1 DEF IndInv, Consistent, InnerOK, ResultInv, ResultOK, Opening, Call
  <1>5. LiveIn(stack, p) /\ p = Call.at.index
    BY <1>3, <1>4, ForwardReturns DEF CallForward
  <1>6. p > stack.last_separator /\ p \in 1 .. Size(stack) /\ p # Call.pos
    <2>1. IsSentinel(stack.positions[stack.last_separator])
      BY <1>2, <1>3, LastSeparator DEF NoPos
    <2>2. p # stack.last_separator
      BY <1>5, <2>1 DEF LiveIn
    <2> QED
      BY <1>2, <1>3, <1>4, <1>5, <2>2 DEF LiveIn
  <1>7. Level(stack, p) = stack.depth
    BY <1>2, <1>3, <1>6, TopLevel
  <1>8. Pos(M, p).depth = M.stack.depth /\ ~ Out(M, p).final
    <2>1. ~ OutAt(stack, p).final
      BY <1>2, <1>3, <1>4, <1>6 DEF TopOpen
    <2> QED
      BY <1>3, <1>5, <1>7, <2>1, LiveLevel DEF Pos, Out, OutAt
  <1>9. Worked(M, n, {p}) /\ ~ OutAt(n.stack, p).final
    <2>1. Worked(M, n, {p}) /\ ~ Out(n, p).final
      BY <1>3, <1>5, <1>8, CompositionCheckWorks
    <2> QED
      BY <2>1 DEF Out, Pos, OutAt
  <1> QED
    BY <1>5, <1>6, <1>7, <1>9

\* The composition pass at the start of a loop inside a validation.
LEMMA CallCheckResults ==
  ASSUME IndInv, ResultInv, NEW check, NEW next, CallCheck(check, next),
         \/ check = "names_check" /\ next = "names_validate"
         \/ check = "contains_check" /\ next = "contains_item",
         UNCHANGED frames
  PROVE  ResultStep
  <1>1. /\ phase = check /\ phase \in CallPhases
        /\ phase \in NamesLoop \cup ContainsLoop /\ check # "contains_return"
    BY DEF CallCheck, CallPhases, NamesPhases, ContainsPhases, NamesLoop, ContainsLoop
  <1>2. /\ LiveIn(stack, Call.pos) /\ IsCall(Call)
        /\ Call.pos \in 1 .. stack.last_separator - 1
        /\ stack.last_separator \in 1 .. Size(stack)
    BY <1>1, CallBelow
  <1>3. /\ IsTidy(M) /\ M.stack = stack /\ StackOK(stack) /\ Size(stack) \in Nat
    BY TidyNow
  <1>4. /\ Call.at.index \in Nat \ {0} /\ TopOpen(stack)
        /\ stack.last_separator <= Call.at.index
        /\ check = "names_check" => ~ FinalValid(stack, Call.pos)
    BY <1>1 DEF IndInv, Consistent, InnerOK, ResultInv, ResultOK, Opening, Call, NamesPhases
  <1>5. CASE CallForward # NoPos
    <2>1. PICK p, n, at : /\ p = CallForward /\ n = CompositionCheck(M, p)
                          /\ at = ForwardStep(Call.at)
      OBVIOUS
    <2>2. PICK c : c = [Call EXCEPT !.at = at]
      OBVIOUS
    <2>3. Becomes(n) /\ WithCall(c) /\ phase' = check
      BY <1>1, <1>5, <2>1, <2>2 DEF CallCheck
    <2>4. phase \in {"names_check", "contains_check"}
      BY <1>1
    <2>5. p = CallForward /\ p # NoPos /\ n = CompositionCheck(M, p)
      BY <1>5, <2>1
    <2>6. /\ LiveIn(stack, p) /\ p = Call.at.index
          /\ p > stack.last_separator /\ p \in 1 .. Size(stack) /\ p # Call.pos
          /\ Worked(M, n, {p}) /\ ~ OutAt(n.stack, p).final
      BY <2>4, <2>5, CallCheckWorks
    <2>7. Worked(M, n, {p}) /\ ~ OutAt(n.stack, p).final
      BY <2>6
    <2>8. /\ stack' = n.stack /\ Tidy(stack') /\ Later(stack, stack', Excused)
          /\ TopOpen(stack') /\ stack'.last_separator = stack.last_separator
      BY <1>4, <2>3, <2>7, WorkedStep
    <2>9. OutAt(n.stack, Call.pos) = OutAt(stack, Call.pos)
      BY <1>2, <1>3, <2>6, <2>7 DEF Worked, LiveIn
    <2>10. /\ at = [index |-> Call.at.index + 1, finished |-> Call.at.finished]
      BY <1>2, <2>1 DEF IsCall, ForwardStep
    <2>11. /\ at = [index |-> at.index, finished |-> at.finished]
           /\ at.index = Call.at.index + 1
      BY <2>10
    <2>12. c.pos = Call.pos /\ c.at = at
      BY <1>2, <2>2, <2>11, CallFields
    <2>13. calls'[Len(calls')] = c
      BY <1>1, <2>3, CallWritten
    <2>14. stack'.last_separator <= at.index
      BY <1>2, <1>3, <1>4, <2>6, <2>8, <2>11
    <2>15. check = "names_check" => ~ FinalValid(stack', c.pos)
      BY <1>4, <2>8, <2>9, <2>12 DEF FinalValid
    <2>16. ResultInv'
      BY <2>3, <2>8, <2>12, <2>13, <2>14, <2>15
      DEF ResultInv, ResultOK, NamesPhases
    <2> QED
      BY <2>8, <2>16 DEF ResultStep
  <1>6. CASE CallForward = NoPos
    <2>1. PICK at, c : at = ReverseStart(stack) /\ c = [Call EXCEPT !.at = at]
      OBVIOUS
    <2>2. WithCall(c) /\ phase' = next /\ stack' = stack
      BY <1>6, <2>1 DEF CallCheck
    <2>3. at = [index |-> at.index, finished |-> at.finished]
      BY <2>1 DEF ReverseStart
    <2>4. c.pos = Call.pos
      BY <1>2, <2>1, <2>3, CallFields
    <2>5. calls'[Len(calls')] = c
      BY <1>1, <2>2, CallWritten
    <2>6. Later(stack, stack', Excused) /\ Tidy(stack')
      BY <2>2, TidyNow DEF Later
    <2>7. next = "names_validate" => ~ FinalValid(stack', c.pos)
      BY <1>4, <2>2, <2>4
    <2>8. ResultInv'
      BY <2>2, <2>5, <2>6, <2>7 DEF ResultInv, ResultOK, NamesPhases, Opening
    <2> QED
      BY <2>6, <2>8 DEF ResultStep
  <1> QED
    BY <1>5, <1>6

\* The composition of the name's layer.
LEMMA NamesCheckResults ==
  ASSUME IndInv, ResultInv, NamesCheck
  PROVE  ResultStep
  BY CallCheckResults DEF NamesCheck

\* The composition of the layer of contains.
LEMMA ContainsCheckResults ==
  ASSUME IndInv, ResultInv, ContainsCheck
  PROVE  ResultStep
  BY CallCheckResults DEF ContainsCheck

\* The name is validated, one position a step.
LEMMA NamesValidateResults ==
  ASSUME IndInv, ResultInv, NamesValidate
  PROVE  ResultStep
  <1>1. PICK p, n : p = CallReverse /\ n = JudgeName(M, p)
    OBVIOUS
  <1>2. PICK c : c = [Call EXCEPT !.at = ReverseStep(stack, @)]
    OBVIOUS
  <1>3. /\ phase = "names_validate" /\ p # NoPos /\ Becomes(n) /\ WithCall(c)
        /\ UNCHANGED <<frames, phase>>
    BY <1>1, <1>2 DEF NamesValidate
  <1>4. phase \in CallPhases /\ phase \in NamesLoop \cup ContainsLoop
    BY <1>3 DEF CallPhases, NamesPhases, NamesLoop
  <1>5. /\ LiveIn(stack, Call.pos) /\ IsCall(Call)
        /\ stack.positions[Call.pos].depth < stack.depth
    BY <1>4, CallBelow
  <1>6. /\ IsTidy(M) /\ M.stack = stack /\ StackOK(stack) /\ stack.depth \in Nat
    BY TidyNow
  <1>7. /\ Reversing(stack, Call.at, Len(frames) - 1 + Len(calls))
        /\ stack.depth = Len(frames) - 1 + Len(calls)
        /\ ~ FinalValid(stack, Call.pos)
    BY <1>3 DEF IndInv, Consistent, InnerOK, DepthOK, UnderLayer, NamesPhases, Call,
       ResultInv, ResultOK
  <1>8. LiveIn(stack, p) /\ Level(stack, p) = stack.depth
    BY <1>1, <1>3, <1>6, <1>7, ReverseReturns DEF CallReverse
  <1>9. Pos(M, p).depth = M.stack.depth
    BY <1>6, <1>8, LiveLevel DEF Pos
  <1>10. PICK W : Worked(M, n, W)
    BY <1>1, <1>6, <1>8, <1>9, JudgeNameWorks
  <1>11. /\ stack' = n.stack /\ Tidy(stack') /\ Later(stack, stack', Excused)
    BY <1>3, <1>10, WorkedStep
  <1>12. c.pos = Call.pos
    <2>1. PICK at : at = ReverseStep(stack, Call.at)
      OBVIOUS
    <2>2. at = [index |-> at.index, finished |-> at.finished]
      BY <2>1 DEF ReverseStep
    <2> QED
      BY <1>2, <1>5, <2>1, <2>2, CallFields
  <1>13. calls'[Len(calls')] = c
    BY <1>3, <1>4, CallWritten
  <1>14. ~ FinalValid(stack', c.pos)
    <2>1. stack.positions[Call.pos].depth # stack.depth
      <3>1. stack.positions[Call.pos].depth = Level(stack, Call.pos)
        BY <1>5, <1>6, LiveLevel
      <3>2. Level(stack, Call.pos) < stack.depth /\ Level(stack, Call.pos) \in Nat
        <4>1. Call.pos \in 0 .. Size(stack) /\ Size(stack) \in Nat
          BY <1>5, <1>6, StackFields DEF LiveIn
        <4>2. Level(stack, Call.pos) \in 0 .. stack.depth
          BY <1>6, <4>1, LevelBounded
        <4> QED
          BY <1>5, <1>6, <3>1, <4>2
      <3> QED
        BY <1>6, <3>1, <3>2
    <2> QED
      BY <1>5, <1>6, <1>7, <1>10, <1>11, <1>12, <2>1 DEF Worked, LiveIn
  <1>15. ResultInv'
    BY <1>3, <1>11, <1>13, <1>14 DEF ResultInv, ResultOK, NamesPhases, Opening
  <1> QED
    BY <1>11, <1>15 DEF ResultStep

\* The layer of the name is removed.
LEMMA NamesEndResults ==
  ASSUME IndInv, ResultInv, NamesEnd
  PROVE  ResultStep
  <1>1. PICK v, t : v = IsValid(M, Call.top) /\ t = LayerRemove(stack)
    OBVIOUS
  <1>2. PICK c : c = [Call EXCEPT !.valid = v]
    OBVIOUS
  <1>3. /\ phase = "names_validate" /\ phase' = "names_reopen"
        /\ stack' = t /\ WithCall(c)
    BY <1>1, <1>2 DEF NamesEnd
  <1>4. phase \in CallPhases /\ phase \in NamesLoop \cup ContainsLoop
    BY <1>3 DEF CallPhases, NamesPhases, NamesLoop
  <1>5. /\ IsCall(Call) /\ stack.depth > 0
        /\ Call.pos \in 1 .. stack.last_separator - 1
    BY <1>4, CallBelow
  <1>6. StackOK(stack) /\ Tidy(stack)
    BY TidyNow
  <1>7. /\ Tidy(t) /\ Later(stack, t, Excused)
        /\ \A x \in 1 .. Size(t) : x \in 1 .. Size(stack) /\ OutAt(t, x) = OutAt(stack, x)
    BY <1>1, <1>6, RemovedResults
  <1>8. Size(t) = stack.last_separator - 1
    BY <1>1, <1>5, <1>6, RemovedLayer
  <1>9. c.pos = Call.pos
    <2>1. PICK at : at = Call.at
      OBVIOUS
    <2>2. at = [index |-> at.index, finished |-> at.finished]
      BY <1>5, <2>1 DEF IsCall
    <2> QED
      BY <1>2, <1>5, <2>2, CallFields
  <1>10. calls'[Len(calls')] = c
    BY <1>3, <1>4, CallWritten
  <1>11. ~ FinalValid(t, c.pos)
    <2>1. ~ FinalValid(stack, Call.pos)
      BY <1>3 DEF ResultInv, ResultOK, NamesPhases, Call
    <2> QED
      BY <1>5, <1>7, <1>8, <1>9, <2>1 DEF FinalValid
  <1>12. ResultInv'
    BY <1>3, <1>7, <1>10, <1>11 DEF ResultInv, ResultOK, NamesPhases, Opening
  <1> QED
    BY <1>3, <1>7, <1>12 DEF ResultStep

\* The layer of the member is opened again.
LEMMA NamesReopenResults ==
  ASSUME IndInv, ResultInv, NamesReopen
  PROVE  ResultStep
  BY OpenResults DEF NamesReopen

\* The result of the name is used at the position it was checked for.
LEMMA NamesResultResults ==
  ASSUME IndInv, ResultInv, NamesResult
  PROVE  ResultStep
  <1>1. PICK p, n : /\ p = Call.pos
                    /\ n = IF Call.valid THEN PushMember(M, p)
                           ELSE FailFinal(M, p, KeywordFailure)
    OBVIOUS
  <1>2. phase = "names_result" /\ phase' = "object_key" /\ Becomes(n)
    BY <1>1 DEF NamesResult
  <1>3. phase \in NamesLoop \cup ContainsLoop
    BY <1>2 DEF NamesLoop
  <1>4. LiveIn(stack, p) /\ p \in 1 .. stack.last_separator - 1
    BY <1>1, <1>3, CallBelow
  <1>5. IsTidy(M) /\ M.stack = stack /\ Size(stack) \in Nat
        /\ stack.last_separator \in 0 .. Size(stack)
    BY TidyNow
  <1>6. ~ FinalValid(stack, p) /\ TopOpen(stack)
    BY <1>1, <1>2 DEF ResultInv, ResultOK, NamesPhases, Opening, Call
  <1>7. Worked(M, n, {p})
    <2>1. KeywordFailure \in Failures
      BY DEF Failures
    <2> QED
      BY <1>1, <1>4, <1>5, <1>6, <2>1, PushMemberWorks, FailFinalWorks
  <1>8. \A x \in {p} : ~ x > stack.last_separator
    BY <1>4, <1>5
  <1>9. Tidy(stack') /\ Later(stack, stack', Excused) /\ TopOpen(stack')
    BY <1>2, <1>6, <1>7, <1>8, WorkedStep
  <1>10. ResultInv'
    BY <1>2, <1>9 DEF ResultInv, ResultOK, NamesPhases
  <1> QED
    BY <1>9, <1>10 DEF ResultStep

\* The contains schema of a position gets a layer and a loop of its own.
LEMMA ContainsOpens ==
  ASSUME IndInv, ResultInv, NEW p, LiveIn(stack, p), NEW inst,
         Judgeable(M, p), ReachesContains(M, p, inst), NEW cs, ContainsStart(p, inst, cs)
  PROVE  stack' = PushSeparator(stack) /\ phase' = "contains_push"
  <1>1. PICK n : n = ValidateValue(M, p, inst)
    OBVIOUS
  <1>2. PICK t : t = PushSeparator(n.stack)
    OBVIOUS
  <1>3. IsTidy(M) /\ M.stack = stack
    BY TidyNow
  <1>4. n.stack = stack /\ n = [stack |-> n.stack, error |-> n.error]
    <2>1. ~ FinalValid(M.stack, p)
      BY JudgedOpen
    <2>2. ValueFailure(SchemaAt(M, p), Out(M, p), inst) = NoFailure
      BY DEF ReachesContains
    <2>3. Worked(M, n, {p}) /\ n.stack = M.stack
      BY <1>1, <1>3, <2>1, <2>2, ValidateValueWorks
    <2> QED
      BY <1>3, <2>3 DEF Worked, Advanced, IsMachine
  <1>5. [n EXCEPT !.stack = PushSeparator(@)].stack = t
    BY <1>2, <1>4
  <1> QED
    BY <1>1, <1>2, <1>4, <1>5 DEF ContainsStart, Becomes

LEMMA ContainsStartResults ==
  ASSUME IndInv, ResultInv, phase # "contains_return", NEW p, LiveIn(stack, p), NEW inst,
         Judgeable(M, p), ReachesContains(M, p, inst), NEW cs, ContainsStart(p, inst, cs)
  PROVE  ResultStep
  <1>1. PICK t : t = PushSeparator(stack)
    OBVIOUS
  <1>2. StackOK(stack) /\ Tidy(stack)
    BY TidyNow
  <1>3. stack' = t /\ phase' = "contains_push"
    BY <1>1, ContainsOpens
  <1>4. Tidy(t) /\ TopOpen(t) /\ Later(stack, t, Excused)
    BY <1>1, <1>2, OpenedResults
  <1>5. ResultInv'
    BY <1>3, <1>4 DEF ResultInv, ResultOK, NamesPhases
  <1> QED
    BY <1>3, <1>4, <1>5 DEF ResultStep

\* The second loop of stream_value, for one position.
LEMMA ValueValidateResults ==
  ASSUME IndInv, ResultInv, ValueValidate
  PROVE  ResultStep
  <1>1. PICK p, j : p = ReverseAt /\ j = ReverseStep(stack, it)
    OBVIOUS
  <1>2. /\ phase = "value_validate" /\ p # NoPos /\ UNCHANGED frames
    BY <1>1 DEF ValueValidate, ReverseLoop, ReverseAt
  <1>3. LiveIn(stack, p) /\ Level(stack, p) = Len(frames) - 1
    <2>1. phase \in InReverse
      BY <1>2 DEF InReverse
    <2> QED
      BY <1>1, <1>2, <2>1, ReverseStepConsistent DEF IndInv, ReverseAt
  <1>4. CASE Judgeable(M, p) /\ ReachesContains(M, p, Inst)
    <2>1. ContainsStart(p, Inst, calls)
      BY <1>1, <1>4 DEF ValueValidate
    <2> QED
      BY <1>2, <1>3, <1>4, <2>1, ContainsStartResults
  <1>5. CASE ~ (Judgeable(M, p) /\ ReachesContains(M, p, Inst))
    <2>1. PICK m, n : /\ m = IF Judgeable(M, p) THEN ValidateValue(M, p, Inst) ELSE M
                      /\ n = Propagate(m, p)
      OBVIOUS
    <2>2. Becomes(n) /\ UNCHANGED phase
      BY <1>1, <1>5, <2>1 DEF ValueValidate
    <2>3. stack.depth = Len(frames) - 1
      BY <1>2 DEF IndInv, Consistent, DepthOK, ValuePhases
    <2>4. IsTidy(M) /\ M.stack = stack /\ Pos(M, p).depth = M.stack.depth
      BY <1>3, <2>3, TidyNow, LiveLevel DEF Pos
    <2>5. PICK q : q = Pos(M, p).parent
      OBVIOUS
    <2>6. Worked(M, n, {p, q} \ {NoPos})
      BY <1>3, <2>1, <2>4, <2>5, JudgeWorks
    <2>7. phase \notin CallPhases \cup {"member"} /\ phase \notin Opening
      BY <1>2 DEF CallPhases, NamesPhases, ContainsPhases, Opening
    <2> QED
      BY <1>2, <2>2, <2>6, <2>7, LoopResults
  <1> QED
    BY <1>4, <1>5

\* The contains schema is pushed on its layer.
LEMMA ContainsPushWorks ==
  ASSUME IndInv, ResultInv, phase = "contains_push",
         NEW p, p = Call.pos, NEW m, m = PushBasics(M, SchemaAt(M, p).contains, p)
  PROVE  Worked(M, m, {p})
  <1>1. phase \in CallPhases
    BY DEF CallPhases, ContainsPhases
  <1>2. LiveIn(stack, p)
    BY <1>1, InnermostCall DEF IndInv, Call
  <1>3. IsTidy(M) /\ M.stack = stack
    BY TidyNow
  <1>4. PICK s : s = SchemaAt(M, p)
    OBVIOUS
  <1>5. s.contains \in Seq(Schemas)
    BY <1>2, <1>3, <1>4, OutcomeAt, SchemaLists DEF SchemaAt, Pos, IsTidy
  <1> QED
    BY <1>2, <1>3, <1>4, <1>5, PushBasicsWorks

LEMMA ContainsPushResults ==
  ASSUME IndInv, ResultInv, ContainsPush
  PROVE  ResultStep
  <1>1. PICK p, m : p = Call.pos /\ m = PushBasics(M, SchemaAt(M, p).contains, p)
    OBVIOUS
  <1>2. PICK at : at = ForwardStart(m.stack)
    OBVIOUS
  <1>3. PICK c : c = [Call EXCEPT !.at = at]
    OBVIOUS
  <1>4. /\ phase = "contains_push" /\ phase' = "contains_check" /\ Becomes(m)
        /\ WithCall(c)
    BY <1>1, <1>2, <1>3 DEF ContainsPush
  <1>5. phase \in CallPhases /\ phase \in NamesLoop \cup ContainsLoop
    BY <1>4 DEF CallPhases, ContainsLoop, ContainsPhases
  <1>6. LiveIn(stack, p) /\ IsCall(Call) /\ p \in 1 .. stack.last_separator - 1
    BY <1>1, <1>5, CallBelow
  <1>7. /\ IsTidy(M) /\ M.stack = stack /\ Size(stack) \in Nat
        /\ stack.last_separator \in 0 .. Size(stack)
    BY TidyNow
  <1>10. Worked(M, m, {p})
    BY <1>1, <1>4, ContainsPushWorks
  <1>11. TopOpen(stack)
    BY <1>4 DEF ResultInv, ResultOK, Opening
  <1>12. \A x \in {p} : ~ x > stack.last_separator
    BY <1>6, <1>7
  <1>13. /\ stack' = m.stack /\ Tidy(stack') /\ Later(stack, stack', Excused)
         /\ TopOpen(stack')
    BY <1>4, <1>10, <1>11, <1>12, WorkedStep
  <1>14. StackOK(m.stack) /\ Size(m.stack) > 0
    <2>1. StackOK(m.stack) /\ LiveIn(m.stack, p)
      BY <1>6, <1>7, <1>10, AdvancedKeepsLive DEF IsTidy, Worked, Advanced, IsMachine
    <2> QED
      BY <2>1, StackFields DEF LiveIn
  <1>15. /\ at = [index |-> at.index, finished |-> at.finished]
         /\ m.stack.last_separator <= at.index
    BY <1>2, <1>14, ForwardStarts
  <1>16. c.at = at
    BY <1>3, <1>6, <1>15, CallFields
  <1>17. calls'[Len(calls')] = c
    BY <1>4, <1>5, CallWritten
  <1>18. ResultInv'
    BY <1>4, <1>13, <1>15, <1>16, <1>17 DEF ResultInv, ResultOK, NamesPhases
  <1> QED
    BY <1>13, <1>18 DEF ResultStep

\* The next item is tried on a layer without results.
LEMMA ContainsItemResults ==
  ASSUME IndInv, ResultInv, ContainsItem
  PROVE  ResultStep
  <1>1. /\ phase = "contains_item" /\ phase' = "contains_validate"
        /\ stack' = IF Call.item = 1 THEN stack ELSE LayerResetPositions(stack)
    BY DEF ContainsItem
  <1>2. Tidy(stack') /\ Later(stack, stack', Excused)
    <2>1. StackOK(stack) /\ Tidy(stack)
      BY TidyNow
    <2>2. Later(stack, stack, Excused)
      BY DEF Later
    <2> QED
      BY <1>1, <2>1, <2>2, ResetResults
  <1>3. ResultInv'
    BY <1>1, <1>2 DEF ResultInv, ResultOK, NamesPhases, Opening
  <1> QED
    BY <1>2, <1>3 DEF ResultStep

\* The pass over the layer of contains, for one position.
LEMMA ContainsValidateResults ==
  ASSUME IndInv, ResultInv, ContainsValidate
  PROVE  ResultStep
  <1>1. PICK p, item : p = CallReverse /\ item = Call.inst.kids[Call.item].val
    OBVIOUS
  <1>2. phase = "contains_validate" /\ p # NoPos
    BY <1>1 DEF ContainsValidate
  <1>3. /\ IsTidy(M) /\ M.stack = stack /\ StackOK(stack)
        /\ Reversing(stack, Call.at, Len(frames) - 1 + Len(calls))
        /\ stack.depth = Len(frames) - 1 + Len(calls)
    BY <1>2, TidyNow DEF IndInv, Consistent, InnerOK, DepthOK, ContainsPhases, Call
  <1>4. LiveIn(stack, p) /\ Level(stack, p) = stack.depth
    BY <1>1, <1>2, <1>3, ReverseReturns DEF CallReverse
  <1>5. CASE Judgeable(M, p) /\ ReachesContains(M, p, item)
    <2>1. PICK cs : ContainsStart(p, item, cs)
      BY <1>1, <1>5 DEF ContainsValidate
    <2> QED
      BY <1>2, <1>4, <1>5, <2>1, ContainsStartResults
  <1>6. CASE ~ (Judgeable(M, p) /\ ReachesContains(M, p, item))
    <2>1. PICK m, n : /\ m = IF Judgeable(M, p) THEN ValidateValue(M, p, item) ELSE M
                      /\ n = IF Judgeable(M, p) THEN Propagate(m, p) ELSE M
      OBVIOUS
    <2>2. Becomes(n) /\ phase' = phase
      BY <1>1, <1>6, <2>1 DEF ContainsValidate
    <2>3. Pos(M, p).depth = M.stack.depth
      BY <1>3, <1>4, LiveLevel DEF Pos
    <2>4. PICK W : Worked(M, n, W)
      <3>1. PICK q : q = Pos(M, p).parent
        OBVIOUS
      <3>2. CASE Judgeable(M, p)
        BY <1>3, <1>4, <2>1, <2>3, <3>1, <3>2, JudgeWorks
      <3>3. CASE ~ Judgeable(M, p)
        BY <1>3, <2>1, <3>3, WorkedReflexive
      <3> QED
        BY <3>2, <3>3
    <2>5. Tidy(stack') /\ Later(stack, stack', Excused)
      BY <2>2, <2>4, WorkedStep
    <2>6. ResultInv'
      BY <1>2, <2>2, <2>5 DEF ResultInv, ResultOK, NamesPhases, Opening
    <2> QED
      BY <2>5, <2>6 DEF ResultStep
  <1> QED
    BY <1>5, <1>6

\* The pass over an item ends.
LEMMA ContainsNextResults ==
  ASSUME IndInv, ResultInv, ContainsNext
  PROVE  ResultStep
  <1>1. stack' = stack /\ phase' \in {"contains_remove", "contains_item"}
    BY DEF ContainsNext
  <1>2. Tidy(stack') /\ Later(stack, stack', Excused)
    BY <1>1, TidyNow DEF Later
  <1>3. ResultInv'
    BY <1>1, <1>2 DEF ResultInv, ResultOK, NamesPhases, Opening
  <1> QED
    BY <1>2, <1>3 DEF ResultStep

\* The layer of contains is removed.
LEMMA ContainsRemoveResults ==
  ASSUME IndInv, ResultInv, ContainsRemove
  PROVE  ResultStep
  BY RemoveResults DEF ContainsRemove

\* The result of contains replaces whatever the position had.
LEMMA ContainsResult ==
  ASSUME NEW m, IsTidy(m), NEW p, LiveIn(m.stack, p), NEW n,
         \/ n = SetResult(m, p, "VALID")
         \/ n = FailFinal(m, p, KeywordFailure)
  PROVE  /\ Advanced(m, n) /\ IsTidy(n) /\ Size(n.stack) = Size(m.stack)
         /\ \A x \in 1 .. Size(m.stack) : x # p => OutAt(n.stack, x) = OutAt(m.stack, x)
  <1>1. Out(m, p) \in OutcomeType
    BY TidyOutcome
  <1>2. CASE n = SetResult(m, p, "VALID")
    <2>1. PICK out : out = [Out(m, p) EXCEPT !.result = "VALID"]
      OBVIOUS
    <2>2. out \in OutcomeType /\ out.result = "VALID" /\ n = WithOut(m, p, out)
      BY <1>1, <1>2, <2>1 DEF OutcomeType, Results, SetResult
    <2> QED
      BY <2>2, WriteTidy
  <1>3. CASE n = FailFinal(m, p, KeywordFailure)
    <2>1. PICK a, u, v : /\ a = [Out(m, p) EXCEPT !.reason = KeywordFailure.reason,
                                                  !.result = "INVALID"]
                         /\ u = WithOut(m, p, a)
                         /\ v = [u EXCEPT !.error = KeywordFailure.error]
      OBVIOUS
    <2>2. a \in OutcomeType /\ a.result = "INVALID"
      BY <1>1, <2>1 DEF OutcomeType, Results, KeywordFailure, InvalidReasons
    <2>3. /\ Advanced(m, u) /\ IsTidy(u) /\ Size(u.stack) = Size(m.stack) /\ Out(u, p) = a
          /\ \A x \in 1 .. Size(m.stack) : x # p => OutAt(u.stack, x) = OutAt(m.stack, x)
      <3>1. u = WithOut(m, p, a)
        BY <2>1
      <3> QED
        BY <2>2, <3>1, WriteTidy
    <2>4. PICK e : e = KeywordFailure.error
      OBVIOUS
    <2>5. v = [u EXCEPT !.error = e]
      BY <2>1, <2>4
    <2>6. Worked(u, v, {p}) /\ v.stack = u.stack
      BY <2>3, <2>5, ErrorWorks
    <2>7. Advanced(u, v) /\ IsTidy(v) /\ Out(v, p) = a
      BY <2>3, <2>6, WorkedTidy DEF Worked, Out, Pos
    <2>8. LiveIn(v.stack, p)
      BY <2>3, <2>6, AdvancedKeepsLive DEF IsTidy
    <2>9. PICK b : b = [Out(v, p) EXCEPT !.result = "INVALID", !.final = TRUE]
      OBVIOUS
    <2>10. b \in OutcomeType /\ b.result = "INVALID"
      BY <2>2, <2>7, <2>9 DEF OutcomeType, Results
    <2>11. n = WithOut(v, p, b)
      BY <1>3, <2>1, <2>9 DEF FailFinal, Fail, SetFinal
    <2>12. /\ Advanced(v, n) /\ IsTidy(n) /\ Size(n.stack) = Size(v.stack)
           /\ \A x \in 1 .. Size(v.stack) : x # p => OutAt(n.stack, x) = OutAt(v.stack, x)
      BY <2>7, <2>8, <2>10, <2>11, WriteTidy
    <2>13. Advanced(m, n)
      BY <2>3, <2>7, <2>12, AdvancedTransitive DEF IsTidy
    <2> QED
      BY <2>3, <2>6, <2>12, <2>13
  <1> QED
    BY <1>2, <1>3

\* array_value returns to the loop that called it.
LEMMA ContainsReturnResults ==
  ASSUME IndInv, ResultInv, ContainsReturn
  PROVE  ResultStep
  <1>1. PICK p, m, n : /\ p = Call.pos
                       /\ m = IF Call.valid THEN SetResult(M, p, "VALID")
                              ELSE FailFinal(M, p, KeywordFailure)
                       /\ n = Propagate(m, p)
    OBVIOUS
  <1>2. /\ phase = "contains_return" /\ Becomes(n)
        /\ phase' \in {"value_validate", "contains_validate"}
    BY <1>1 DEF ContainsReturn
  <1>3. phase \in CallPhases
    BY <1>2 DEF CallPhases, ContainsPhases
  <1>4. /\ LiveIn(stack, p) /\ Level(stack, p) = Len(frames) - 2 + Len(calls)
        /\ Len(calls) \in Nat /\ Len(frames) \in Nat
    BY <1>1, <1>3, InnermostCall, Sizes DEF IndInv, Call
  <1>5. stack.depth = Len(frames) - 1 + Len(calls) - 1
    BY <1>2 DEF IndInv, Consistent, DepthOK, ContainsPhases
  <1>6. IsTidy(M) /\ M.stack = stack /\ StackOK(stack) /\ Size(stack) \in Nat
    BY TidyNow
  <1>7. /\ Advanced(M, m) /\ IsTidy(m) /\ Size(m.stack) = Size(stack)
        /\ \A x \in 1 .. Size(stack) : x # p => OutAt(m.stack, x) = OutAt(stack, x)
    BY <1>1, <1>4, <1>6, ContainsResult
  <1>8. LiveIn(m.stack, p)
    BY <1>4, <1>6, <1>7, AdvancedKeepsLive DEF IsTidy
  <1>9. Pos(m, p).depth = m.stack.depth
    <2>1. stack.positions[p].depth = stack.depth
      BY <1>4, <1>5, <1>6, LiveLevel
    <2>2. LiveIn(M.stack, p) /\ Pos(M, p) = stack.positions[p]
      BY <1>4, <1>6 DEF Pos
    <2> QED
      BY <1>6, <1>7, <2>1, <2>2, AdvancedPosition
  <1>10. PICK W : Worked(m, n, W) /\ Size(n.stack) = Size(m.stack)
    <2>1. PICK q : q = Pos(m, p).parent
      OBVIOUS
    <2>2. n = Propagate(m, p) /\ IsTidy(m)
      BY <1>1, <1>7
    <2>3. Worked(m, n, {p, q} \ {NoPos}) /\ Size(n.stack) = Size(m.stack)
      BY <1>8, <1>9, <2>1, <2>2, PropagateWorks
    <2> QED
      BY <2>3
  <1>11. stack' = n.stack /\ Tidy(stack')
    BY <1>2, <1>10 DEF Becomes, Worked
  <1>12. Excused = {p}
    BY <1>1, <1>2 DEF Excused
  <1>13. Later(m.stack, n.stack, {p})
    BY <1>7, <1>10, WorkLater
  <1>14. Later(stack, n.stack, {p})
    BY <1>6, <1>7, <1>10, <1>13 DEF Later, FinalValid
  <1>15. ResultInv'
    BY <1>2, <1>11 DEF ResultInv, ResultOK, NamesPhases, Opening
  <1> QED
    BY <1>11, <1>12, <1>14, <1>15 DEF ResultStep
-----------------------------------------------------------------------------
(***************************************************************************)
(* The theorem.                                                            *)
(***************************************************************************)

\* A stuttering step.
LEMMA IdleResults ==
  ASSUME IndInv, ResultInv, UNCHANGED vars
  PROVE  ResultStep
  <1>1. /\ stack' = stack /\ phase' = phase /\ calls' = calls /\ frames' = frames
    BY DEF vars
  <1>2. Tidy(stack) /\ Size(stack) \in Nat
    BY TidyNow
  <1>3. ResultInv'
    BY <1>1 DEF ResultInv
  <1>4. Later(stack, stack', Excused)
    BY <1>1, <1>2 DEF Later
  <1> QED
    BY <1>3, <1>4 DEF ResultStep

\* Every step keeps the invariant, and keeps the final results but the one
\* contains is stored in.
LEMMA NextResults ==
  ASSUME WalkInv, ResultInv, [Next]_vars
  PROVE  ResultStep
  <1>1. IndInv /\ job \in Jobs /\ job.root \in Schemas
    BY RootKnown DEF WalkInv
  <1>2. CASE UNCHANGED vars
    BY <1>1, <1>2, IdleResults
  <1>3. CASE StreamInit
    BY <1>1, <1>3, StreamInitResults
  <1>4. CASE Enter
    BY <1>1, <1>4, EnterResults
  <1>5. CASE ObjectStart
    BY <1>1, <1>5, ObjectStartResults
  <1>6. CASE ObjectKey
    BY <1>1, <1>6, ObjectKeyResults
  <1>7. CASE ObjectKeyPosition
    BY <1>1, <1>7, ObjectKeyPositionResults
  <1>8. CASE ObjectKeyEnd
    BY <1>1, <1>8, ObjectKeyEndResults
  <1>9. CASE NamesCheck
    BY <1>1, <1>9, NamesCheckResults
  <1>10. CASE NamesValidate
    BY <1>1, <1>10, NamesValidateResults
  <1>11. CASE NamesEnd
    BY <1>1, <1>11, NamesEndResults
  <1>12. CASE NamesReopen
    BY <1>1, <1>12, NamesReopenResults
  <1>13. CASE NamesResult
    BY <1>1, <1>13, NamesResultResults
  <1>14. CASE ArrayStart
    BY <1>1, <1>14, ArrayStartResults
  <1>15. CASE ArrayPropagate
    BY <1>1, <1>15, ArrayPropagateResults
  <1>16. CASE ArrayItems
    BY <1>1, <1>16, ArrayItemsResults
  <1>17. CASE ArrayItem
    BY <1>1, <1>17, ArrayItemResults
  <1>18. CASE ArrayAppend
    BY <1>1, <1>18, ArrayAppendResults
  <1>19. CASE ArrayAppendPosition
    BY <1>1, <1>19, ArrayAppendPositionResults
  <1>20. CASE ArrayEnd
    BY <1>1, <1>20, ArrayEndResults
  <1>21. CASE ObjectEnd
    BY <1>1, <1>21, ObjectEndResults
  <1>22. CASE ValueCheck
    BY <1>1, <1>22, ValueCheckResults
  <1>23. CASE StartValidate
    BY <1>1, <1>23, StartValidateResults
  <1>24. CASE ValueValidate
    BY <1>1, <1>24, ValueValidateResults
  <1>25. CASE ValueEnd
    BY <1>1, <1>25, ValueEndResults
  <1>26. CASE ContainsPush
    BY <1>1, <1>26, ContainsPushResults
  <1>27. CASE ContainsCheck
    BY <1>1, <1>27, ContainsCheckResults
  <1>28. CASE ContainsItem
    BY <1>1, <1>28, ContainsItemResults
  <1>29. CASE ContainsValidate
    BY <1>1, <1>29, ContainsValidateResults
  <1>30. CASE ContainsNext
    BY <1>1, <1>30, ContainsNextResults
  <1>31. CASE ContainsRemove
    BY <1>1, <1>31, ContainsRemoveResults
  <1>32. CASE ContainsReturn
    BY <1>1, <1>32, ContainsReturnResults
  <1>33. CASE Done
    BY <1>1, <1>33, IdleResults DEF Done
  <1> QED
    BY <1>2, <1>3, <1>4, <1>5, <1>6, <1>7, <1>8, <1>9, <1>10, <1>11,
       <1>12, <1>13, <1>14, <1>15, <1>16, <1>17, <1>18, <1>19, <1>20,
       <1>21, <1>22, <1>23, <1>24, <1>25, <1>26, <1>27, <1>28, <1>29,
       <1>30, <1>31, <1>32, <1>33 DEF Next

\* The results of the positions are tidy in every state: in a layer in which
\* nothing was judged yet no result is final, and the position the name of a
\* property is judged for is never final and valid.
THEOREM ResultsAlwaysTidy == Spec => []ResultInv
  <1>1. Init => ResultInv
    BY InitResults
  <1>2. WalkInv /\ ResultInv /\ [Next]_vars => ResultInv'
    BY NextResults DEF ResultStep
  <1> QED
    BY <1>1, <1>2, Invariance, PTL DEF Spec

\* A final validation result is final, for every schema and every instance:
\* no step changes it while its position lives, but the one that stores the
\* result of contains.
THEOREM FinalAlwaysStable == Spec => FinalStable
  <1> DEFINE Stable ==
        \A p \in 1 .. Size(stack) :
          /\ phase = "contains_return" => p # Call.pos
          /\ stack.positions[p].out.final
          /\ p <= Size(stack')
          /\ stack'.positions[p].out.final
          => stack'.positions[p].out.result = stack.positions[p].out.result
  <1>1. ASSUME WalkInv, ResultInv, [Next]_vars PROVE Stable
    <2>1. ResultInv' /\ Later(stack, stack', Excused)
      BY <1>1, NextResults DEF ResultStep
    <2>2. Size(stack) \in Nat /\ Size(stack') \in Nat
      <3>1. StackOK(stack) /\ StackOK(stack')
        BY <1>1, NextInvariant DEF WalkInv, IndInv, Consistent
      <3> QED
        BY <3>1, StackFields
    <2>3. ASSUME NEW p \in 1 .. Size(stack),
                 phase = "contains_return" => p # Call.pos,
                 stack.positions[p].out.final, p <= Size(stack'),
                 stack'.positions[p].out.final
          PROVE  stack'.positions[p].out.result = stack.positions[p].out.result
      <3>1. p \in 1 .. Size(stack') /\ p <= Size(stack)
        BY <2>2, <2>3
      <3>2. p \notin Excused
        BY <2>3 DEF Excused
      <3> QED
        BY <2>1, <2>3, <3>1, <3>2 DEF Later, OutAt
    <2> QED
      BY <2>3
  <1>2. WalkInv /\ ResultInv /\ [Next]_vars => [Stable]_vars
    BY <1>1
  <1> QED
    BY <1>2, Invariance, ResultsAlwaysTidy, PTL DEF Spec, FinalStable
-----------------------------------------------------------------------------
(***************************************************************************)
(* No failure is lost, where no schema has a $ref.                         *)
(***************************************************************************)
MustHold == {"NONE", "ALL"}
Judging == {"value_validate"} \cup ContainsPhases

Refused(s, x) == OutAt(s, x).result = "INVALID"
Refuted(s, x) == OutAt(s, x).final /\ Refused(s, x)

\* The refused positions of level a from k on have told their parents, but
\* for the one whose contains runs.
Told(s, a, k, cs) ==
  \A x \in 1 .. Size(s) :
    /\ k <= x /\ LiveIn(s, x) /\ Level(s, x) = a
    /\ cs # <<>> => x # cs[1].pos
    /\ s.positions[x].composition_type \in MustHold
    /\ Refused(s, x)
    /\ s.positions[x].parent # NoPos
    => Refuted(s, s.positions[x].parent)

\* While contains runs for position c of level a no child of c in the level
\* is refused, and above the level only c is a parent in it.
HeldChild(s, a, c, x) ==
  /\ c < x /\ LiveIn(s, x) /\ Level(s, x) = a /\ s.positions[x].parent = c
  /\ s.positions[x].composition_type \in MustHold
  => ~ Refused(s, x)

HeldAbove(s, a, c, x) ==
  LiveIn(s, x) /\ a < Level(s, x) =>
    \/ s.positions[x].parent \in {NoPos, c}
    \/ a < Level(s, s.positions[x].parent)

Held(s, a, c) == \A x \in 1 .. Size(s) : HeldChild(s, a, c, x) /\ HeldAbove(s, a, c, x)

LossOK(s, a, ph, i, cs) ==
  /\ \A x \in 1 .. Size(s) :
       FinalValid(s, x) => ph \in Judging /\ i.index <= x /\ a <= Level(s, x)
  /\ ph \in Judging => i.index \in Nat /\ (i.finished => i.index = 1)
  /\ ph \in Judging => Told(s, a, i.index, cs)
  /\ ph \in ContainsPhases => i.index = cs[1].pos /\ Held(s, a, cs[1].pos)

LossInv == LossOK(stack, Len(frames) - 1, phase, it, calls)

\* Positions that stay keep their shape.
Carried(s, t) ==
  \A x \in 1 .. Size(t) : x <= Size(s) => Kept(s.positions[x], t.positions[x])

\* They keep their level too.
LEMMA CarriedLevel ==
  ASSUME NEW s, NEW t, StackOK(s), StackOK(t), Carried(s, t),
         NEW x \in 1 .. Size(t), x <= Size(s)
  PROVE  /\ x \in 1 .. Size(s)
         /\ Level(t, x) = Level(s, x) /\ Level(s, x) \in Nat
         /\ LiveIn(t, x) <=> LiveIn(s, x)
         /\ t.positions[x].parent = s.positions[x].parent
         /\ t.positions[x].composition_type = s.positions[x].composition_type
  <1>1. Size(s) \in Nat /\ Size(t) \in Nat
    BY StackFields
  <1>2. \A k \in 1 .. x : IsSentinel(t.positions[k]) <=> IsSentinel(s.positions[k])
    BY <1>1 DEF Carried, Kept, SameShape, IsSentinel
  <1>3. SeparatorsTo(t, x) = SeparatorsTo(s, x)
    BY <1>2 DEF SeparatorsTo
  <1>4. x \in 1 .. Size(s) /\ x \in 1 .. x /\ x \in 0 .. Size(s)
    BY <1>1
  <1>5. Level(s, x) \in Nat
    <2>1. 0 \in 0 .. x
      BY <1>4
    <2> QED
      BY <1>4, <2>1, LevelMonotone
  <1>6. Kept(s.positions[x], t.positions[x])
    BY DEF Carried
  <1> QED
    BY <1>2, <1>3, <1>4, <1>5, <1>6 DEF Level, LiveIn, Kept, SameShape

\* A step above level a, while contains runs for position c.
DeepStep(s, t, a, c) ==
  /\ Carried(s, t)
  /\ \A x \in 1 .. Size(t) :
       /\ x <= Size(s) /\ LiveIn(s, x) /\ Level(s, x) <= a /\ x # c =>
            OutAt(t, x) = OutAt(s, x)
       /\ Size(s) < x /\ LiveIn(t, x) =>
            /\ a < Level(t, x)
            /\ \/ t.positions[x].parent \in {NoPos, c}
               \/ LiveIn(s, t.positions[x].parent) /\ a < Level(s, t.positions[x].parent)

\* The parent of a position is below it, in its level or a lower one.
LEMMA ParentLevel ==
  ASSUME NEW s, StackOK(s), NEW x, LiveIn(s, x),
         NEW q, q = s.positions[x].parent, q # NoPos
  PROVE  /\ LiveIn(s, q) /\ q < x
         /\ Level(s, q) \in Nat /\ Level(s, x) \in Nat /\ Level(s, q) <= Level(s, x)
  <1>1. Size(s) \in Nat /\ x \in 1 .. Size(s)
    BY StackFields DEF LiveIn
  <1>2. LiveIn(s, q)
    BY LivePosition
  <1>3. q < x
    BY DEF StackOK, WellFormed, ParentsBelow, LiveIn
  <1>4. x \in 0 .. Size(s) /\ q \in 0 .. x
    BY <1>1, <1>2, <1>3 DEF LiveIn
  <1> QED
    BY <1>2, <1>3, <1>4, LevelMonotone

\* A step above the level loses nothing.
LEMMA DeepTold ==
  ASSUME NEW s, StackOK(s), NEW a \in Int, NEW k, NEW cs, cs # <<>>, NEW c, c = cs[1].pos,
         c <= k, Told(s, a, k, cs), Held(s, a, c), NEW t, StackOK(t), DeepStep(s, t, a, c),
         NEW ds, ds # <<>>, ds[1].pos = c, k \in Nat, c \in Nat
  PROVE  Told(t, a, k, ds)
  <1>1. Size(s) \in Nat /\ Size(t) \in Nat
    BY StackFields
  <1> SUFFICES ASSUME NEW x \in 1 .. Size(t), k <= x, LiveIn(t, x), Level(t, x) = a, x # c,
                      t.positions[x].composition_type \in MustHold, Refused(t, x),
                      t.positions[x].parent # NoPos
               PROVE  Refuted(t, t.positions[x].parent)
    BY DEF Told
  <1>2. ~ Size(s) < x
    BY DEF DeepStep
  <1>3. x <= Size(s) /\ x \in 1 .. Size(s)
    BY <1>1, <1>2
  <1>4. /\ Level(s, x) = a /\ LiveIn(s, x)
        /\ t.positions[x].parent = s.positions[x].parent
        /\ t.positions[x].composition_type = s.positions[x].composition_type
    BY <1>3, CarriedLevel DEF DeepStep
  <1>5. Refused(s, x)
    BY <1>3, <1>4 DEF DeepStep, Refused
  <1>6. PICK q : q = s.positions[x].parent
    OBVIOUS
  <1>7. Refuted(s, q)
    BY <1>3, <1>4, <1>5, <1>6 DEF Told
  <1>8. q # c
    <2>1. HeldChild(s, a, c, x)
      BY <1>3 DEF Held
    <2>2. c < x
      BY <1>3
    <2> QED
      BY <1>4, <1>5, <1>6, <2>1, <2>2 DEF HeldChild
  <1>9. LiveIn(s, q) /\ Level(s, q) <= a /\ q \in 1 .. Size(t) /\ q <= Size(s)
    <2>1. LiveIn(s, q) /\ q < x /\ Level(s, q) <= Level(s, x)
      BY <1>4, <1>6, ParentLevel
    <2>2. q \in 1 .. Size(s)
      BY <2>1 DEF LiveIn
    <2> QED
      BY <1>1, <1>3, <1>4, <2>1, <2>2
  <1>10. OutAt(t, q) = OutAt(s, q)
    BY <1>8, <1>9 DEF DeepStep
  <1> QED
    BY <1>4, <1>6, <1>7, <1>10 DEF Refuted, Refused

LEMMA DeepHeld ==
  ASSUME NEW s, StackOK(s), NEW a \in Int, NEW c \in Nat, Held(s, a, c),
         NEW t, StackOK(t), DeepStep(s, t, a, c)
  PROVE  Held(t, a, c)
  <1>1. Size(s) \in Nat /\ Size(t) \in Nat
    BY StackFields
  <1>2. ASSUME NEW x \in 1 .. Size(t), ~ Size(s) < x
        PROVE  HeldChild(t, a, c, x) /\ HeldAbove(t, a, c, x)
    <2>1. x <= Size(s) /\ x \in 1 .. Size(s)
      BY <1>1, <1>2
    <2>2. HeldChild(s, a, c, x) /\ HeldAbove(s, a, c, x)
      BY <2>1 DEF Held
    <2>3. /\ Level(t, x) = Level(s, x) /\ Level(s, x) \in Nat
          /\ LiveIn(t, x) <=> LiveIn(s, x)
          /\ t.positions[x].parent = s.positions[x].parent
          /\ t.positions[x].composition_type = s.positions[x].composition_type
      BY <2>1, CarriedLevel DEF DeepStep
    <2>4. HeldChild(t, a, c, x)
      <3> SUFFICES ASSUME c < x, LiveIn(t, x), Level(t, x) = a
                   PROVE  OutAt(t, x) = OutAt(s, x)
        BY <2>2, <2>3 DEF HeldChild, Refused
      <3> QED
        BY <2>1, <2>3 DEF DeepStep
    <2>5. HeldAbove(t, a, c, x)
      <3> SUFFICES ASSUME LiveIn(t, x), a < Level(t, x), t.positions[x].parent \notin {NoPos, c}
                   PROVE  a < Level(t, t.positions[x].parent)
        BY DEF HeldAbove
      <3>1. PICK q : q = s.positions[x].parent
        OBVIOUS
      <3>2. LiveIn(s, q) /\ q < x
        BY <2>3, <3>1, ParentLevel
      <3>3. q \in 1 .. Size(t) /\ q <= Size(s)
        BY <1>1, <2>1, <3>2 DEF LiveIn
      <3>4. Level(t, q) = Level(s, q)
        BY <3>3, CarriedLevel DEF DeepStep
      <3> QED
        BY <2>2, <2>3, <3>1, <3>4 DEF HeldAbove
    <2> QED
      BY <2>4, <2>5
  <1>3. ASSUME NEW x \in 1 .. Size(t), Size(s) < x
        PROVE  HeldChild(t, a, c, x) /\ HeldAbove(t, a, c, x)
    <2>1. CASE ~ LiveIn(t, x)
      BY <2>1 DEF HeldChild, HeldAbove
    <2>2. CASE LiveIn(t, x)
      <3>1. /\ a < Level(t, x)
            /\ \/ t.positions[x].parent \in {NoPos, c}
               \/ LiveIn(s, t.positions[x].parent) /\ a < Level(s, t.positions[x].parent)
        BY <1>3, <2>2 DEF DeepStep
      <3>2. HeldChild(t, a, c, x)
        <4>1. Level(t, x) \in Nat
          <5>1. x \in 0 .. Size(t) /\ 0 \in 0 .. x
            BY <1>1
          <5> QED
            BY <5>1, LevelMonotone
        <4>2. Level(t, x) # a
          BY <3>1, <4>1
        <4> QED
          BY <4>2 DEF HeldChild
      <3>3. HeldAbove(t, a, c, x)
        <4>1. PICK q : q = t.positions[x].parent
          OBVIOUS
        <4>2. CASE LiveIn(s, q) /\ a < Level(s, q)
          <5>1. q \in 1 .. Size(t) /\ q <= Size(s)
            BY <1>1, <1>3, <4>2 DEF LiveIn
          <5>2. Level(t, q) = Level(s, q)
            BY <5>1, CarriedLevel DEF DeepStep
          <5> QED
            BY <4>1, <4>2, <5>2 DEF HeldAbove
        <4> QED
          BY <3>1, <4>1, <4>2 DEF HeldAbove
      <3> QED
        BY <3>2, <3>3
    <2> QED
      BY <2>1, <2>2
  <1> QED
    BY <1>2, <1>3 DEF Held

\* Where no result is final and VALID, and where one may become so.
LEMMA LaterFinal ==
  ASSUME NEW s, StackOK(s), NEW t, StackOK(t), Carried(s, t), ~ References,
         NEW X, Later(s, t, X), NEW a \in Int, NEW k \in Nat,
         \A x \in 1 .. Size(s) : FinalValid(s, x) => k <= x /\ a <= Level(s, x),
         \A x \in X : x \in 1 .. Size(s) /\ k <= x /\ a <= Level(s, x)
  PROVE  \A x \in 1 .. Size(t) : FinalValid(t, x) => k <= x /\ a <= Level(t, x)
  <1>1. Size(s) \in Nat /\ Size(t) \in Nat
    BY StackFields
  <1> SUFFICES ASSUME NEW x \in 1 .. Size(t), FinalValid(t, x)
               PROVE  k <= x /\ a <= Level(t, x)
    OBVIOUS
  <1>2. (x <= Size(s) /\ FinalValid(s, x)) \/ x \in X
    BY DEF Later
  <1>3. x \in 1 .. Size(s) /\ k <= x /\ a <= Level(s, x)
    BY <1>1, <1>2
  <1>4. x <= Size(s)
    BY <1>1, <1>3
  <1>5. Level(t, x) = Level(s, x)
    BY <1>3, <1>4, CarriedLevel
  <1> QED
    BY <1>3, <1>5

\* The steps inside the loops of contains.
LEMMA DeepLoss ==
  ASSUME NEW s, StackOK(s), ~ References, NEW a \in Int, NEW ph \in ContainsPhases, NEW i,
         NEW cs, LossOK(s, a, ph, i, cs), cs # <<>>, NEW c, c = cs[1].pos,
         NEW t, StackOK(t), DeepStep(s, t, a, c), NEW X, Later(s, t, X),
         \A x \in X : x \in 1 .. Size(s) /\ c <= x /\ a <= Level(s, x),
         NEW qh \in ContainsPhases, NEW ds, ds # <<>>, ds[1].pos = c
  PROVE  LossOK(t, a, qh, i, ds)
  <1>1. /\ ph \in Judging /\ qh \in Judging
    BY DEF Judging
  <1>2. /\ i.index \in Nat /\ i.index = c /\ (i.finished => i.index = 1)
        /\ Told(s, a, i.index, cs) /\ Held(s, a, c)
        /\ \A x \in 1 .. Size(s) : FinalValid(s, x) => i.index <= x /\ a <= Level(s, x)
    BY <1>1 DEF LossOK
  <1>3. Told(t, a, i.index, ds)
    BY <1>2, DeepTold
  <1>4. Held(t, a, c)
    BY <1>2, DeepHeld
  <1>5. \A x \in 1 .. Size(t) : FinalValid(t, x) => i.index <= x /\ a <= Level(t, x)
    <2>1. \A x \in X : x \in 1 .. Size(s) /\ i.index <= x /\ a <= Level(s, x)
      BY <1>2
    <2> QED
      BY <1>2, <2>1, LaterFinal DEF DeepStep
  <1> QED
    BY <1>1, <1>2, <1>3, <1>4, <1>5 DEF LossOK

\* Work above the level.
LEMMA DeepWorked ==
  ASSUME NEW m, IsTidy(m), NEW n, NEW W, Worked(m, n, W), NEW a \in Int, NEW c,
         a < m.stack.depth,
         \A x \in W : LiveIn(m.stack, x) /\ (x = c \/ a < Level(m.stack, x))
  PROVE  DeepStep(m.stack, n.stack, a, c) /\ StackOK(n.stack)
  <1>1. PICK s, t : s = m.stack /\ t = n.stack
    OBVIOUS
  <1>2. /\ StackOK(s) /\ StackOK(t) /\ Size(s) <= Size(t) /\ KeptTo(s, t, Size(s))
        /\ t.last_separator = s.last_separator /\ t.depth = s.depth
    BY <1>1 DEF Worked, Advanced, Grown, IsTidy, IsMachine
  <1>3. /\ Size(s) \in Nat /\ Size(t) \in Nat /\ s.depth \in Nat
        /\ s.last_separator \in 0 .. Size(s)
    BY <1>2, StackFields
  <1>4. Carried(s, t)
    BY <1>2, <1>3 DEF Carried, KeptTo
  <1>5. ASSUME NEW x \in 1 .. Size(t), x <= Size(s), LiveIn(s, x), Level(s, x) <= a, x # c
        PROVE  OutAt(t, x) = OutAt(s, x)
    <2>1. x \in 1 .. Size(s)
      BY <1>5 DEF LiveIn
    <2>2. Level(s, x) \in Nat
      BY <1>2, <1>4, <1>5, CarriedLevel
    <2>3. x \notin W
      BY <1>1, <1>5, <2>2
    <2> QED
      BY <1>1, <2>1, <2>3 DEF Worked
  <1>6. ASSUME NEW x \in 1 .. Size(t), Size(s) < x
        PROVE  /\ a < Level(t, x)
               /\ \/ t.positions[x].parent \in {NoPos, c}
                  \/ /\ LiveIn(s, t.positions[x].parent)
                     /\ a < Level(s, t.positions[x].parent)
    <2>1. x \in Size(s) + 1 .. Size(t)
      BY <1>3, <1>6
    <2>2. t.positions[x].parent \in W
      BY <1>1, <2>1 DEF Worked
    <2>3. t.last_separator <= x
      BY <1>2, <1>3, <1>6
    <2>4. Level(t, x) = t.depth
      BY <1>2, <2>3, TopLevel
    <2> QED
      BY <1>1, <1>2, <2>2, <2>4
  <1> QED
    BY <1>1, <1>2, <1>4, <1>5, <1>6 DEF DeepStep

\* Positions that go, and positions that stay as they are.
LEMMA DeepCut ==
  ASSUME NEW s, StackOK(s), NEW t, StackOK(t), NEW a, NEW c, Size(t) <= Size(s),
         \A x \in 1 .. Size(t) : t.positions[x] = s.positions[x]
  PROVE  DeepStep(s, t, a, c)
  <1>1. Size(s) \in Nat /\ Size(t) \in Nat
    BY StackFields
  <1> QED
    BY <1>1 DEF DeepStep, Carried, Kept, SameShape, OutAt

\* A layer opens.
LEMMA DeepOpened ==
  ASSUME NEW s, StackOK(s), NEW t, t = PushSeparator(s), NEW a, NEW c
  PROVE  DeepStep(s, t, a, c)
  <1>1. Size(s) \in Nat
    BY StackFields
  <1>2. Pushed(s, t, Separator(s))
    BY PushSeparatorKeeps DEF StackOK
  <1>3. /\ Size(t) = Size(s) + 1
        /\ \A i \in 1 .. Size(s) : t.positions[i] = s.positions[i]
        /\ IsSentinel(t.positions[Size(s) + 1])
    BY <1>2 DEF Pushed, AgreeTo, Separator, IsSentinel
  <1>4. ASSUME NEW x \in 1 .. Size(t), x <= Size(s) PROVE t.positions[x] = s.positions[x]
    BY <1>1, <1>3, <1>4
  <1>5. ASSUME NEW x \in 1 .. Size(t), Size(s) < x PROVE ~ LiveIn(t, x)
    <2>1. x = Size(s) + 1
      BY <1>1, <1>3, <1>5
    <2> QED
      BY <1>3, <2>1 DEF LiveIn
  <1> QED
    BY <1>4, <1>5 DEF DeepStep, Carried, Kept, SameShape, OutAt

\* The top layer is reset.
LEMMA DeepReset ==
  ASSUME NEW s, StackOK(s), NEW t, t = LayerResetPositions(s), NEW a \in Int, NEW c,
         a < s.depth
  PROVE  DeepStep(s, t, a, c) /\ StackOK(t)
  <1>1. /\ Size(s) \in Nat /\ s.depth \in Nat
    BY StackFields
  <1>2. /\ t \in StackType(Schemas) /\ WellFormed(t) /\ Size(t) = Size(s)
        /\ KeptTo(s, t, Size(s))
        /\ \A i \in (1 .. Size(s)) \ LayerPositions(s) : t.positions[i] = s.positions[i]
    BY LayerResetKeeps DEF StackOK
  <1>3. StackOK(t)
    BY <1>2 DEF StackOK, KeptTo, Kept, SameShape, LiveIn, IsSentinel
  <1>4. Carried(s, t)
    BY <1>2 DEF Carried, KeptTo
  <1>5. ASSUME NEW x \in 1 .. Size(t), Level(s, x) <= a
        PROVE  OutAt(t, x) = OutAt(s, x)
    <2>1. PICK at : at = ForwardStart(s)
      OBVIOUS
    <2>2. Size(s) > 0 /\ x \in 1 .. Size(s)
      BY <1>1, <1>2
    <2>3. s.last_separator <= at.index /\ at.index \in 1 .. Size(s)
      BY <2>1, <2>2, ForwardStarts
    <2>4. x \notin LayerPositions(s)
      <3> SUFFICES ASSUME x \in LayerPositions(s) PROVE FALSE
        OBVIOUS
      <3>1. x \in at.index .. Size(s)
        BY <2>1 DEF LayerPositions
      <3>2. s.last_separator <= x
        BY <1>1, <2>3, <3>1, StackFields
      <3>3. Level(s, x) = s.depth
        BY <2>2, <3>2, TopLevel
      <3> QED
        BY <1>1, <1>5, <3>3
    <2> QED
      BY <1>2, <2>2, <2>4 DEF OutAt
  <1> QED
    BY <1>1, <1>2, <1>3, <1>4, <1>5 DEF DeepStep

-----------------------------------------------------------------------------
(***************************************************************************)
(* The loops of contains in the states of the walk.                        *)
(***************************************************************************)

\* What is known while contains runs for a position of the value's layer.
LEMMA ContainsNow ==
  ASSUME IndInv, phase \in ContainsPhases, NEW a, a = Len(frames) - 1, NEW c, c = calls[1].pos
  PROVE  /\ a \in Int /\ Len(calls) \in Nat /\ Len(calls) > 0 /\ calls # <<>>
         /\ IsList(calls) /\ IsCall(Call)
         /\ LiveIn(stack, c) /\ Level(stack, c) = a /\ c \in Nat
         /\ LiveIn(stack, Call.pos) /\ Level(stack, Call.pos) = a - 1 + Len(calls)
         /\ Call.pos = c \/ a < Level(stack, Call.pos)
         /\ Len(calls) = 1 => Call.pos = c
         /\ c <= Call.pos /\ a <= Level(stack, Call.pos)
         /\ stack.depth = IF phase = "contains_return" THEN a + Len(calls) - 1
                          ELSE a + Len(calls)
         /\ LiveIn(M.stack, Call.pos) /\ M.stack = stack
  <1>1. /\ Len(calls) \in Nat /\ Len(calls) > 0 /\ IsList(calls) /\ CallsOK(stack, calls, a)
        /\ StackOK(stack)
    BY ListLength DEF IndInv, Consistent, CallsOK, InnerOK
  <1>2. a \in Int /\ M.stack = stack
    BY Sizes, MachineNow DEF IndInv
  <1>3. calls # <<>>
    BY <1>1
  <1>4. Size(stack) \in Nat
    BY <1>1, StackFields
  <1>5. 1 \in 1 .. Len(calls) /\ Len(calls) \in 1 .. Len(calls)
    BY <1>1
  <1>6. LiveIn(stack, c) /\ Level(stack, c) = a
    <2>1. Level(stack, calls[1].pos) = a - 1 + 1 /\ LiveIn(stack, calls[1].pos)
      BY <1>1, <1>5 DEF CallsOK
    <2> QED
      BY <1>2, <2>1
  <1>7. /\ LiveIn(stack, Call.pos) /\ Level(stack, Call.pos) = a - 1 + Len(calls)
        /\ IsCall(Call)
    BY <1>1, <1>5 DEF CallsOK, Call
  <1>8. CASE Len(calls) = 1
    <2>1. Call.pos = c
      BY <1>8 DEF Call
    <2> QED
      BY <1>1, <1>2, <1>3, <1>4, <1>6, <1>7, <1>8, <2>1
      DEF IndInv, Consistent, DepthOK, LiveIn
  <1>9. CASE Len(calls) # 1
    <2>1. a < Level(stack, Call.pos)
      <3>1. PICK k : k = Len(calls)
        OBVIOUS
      <3>2. k \in Nat /\ k > 1
        BY <1>1, <1>9, <3>1
      <3>3. a < a - 1 + k
        BY <1>2, <3>2
      <3> QED
        BY <1>7, <3>1, <3>3
    <2>2. Call.pos \in 1 .. Size(stack) /\ c \in 1 .. Size(stack)
      BY <1>6, <1>7 DEF LiveIn
    <2>3. c <= Call.pos
      <3> SUFFICES ASSUME ~ c <= Call.pos PROVE FALSE
        OBVIOUS
      <3>1. Call.pos \in 0 .. c /\ c \in 0 .. Size(stack)
        BY <1>4, <2>2
      <3>2. Level(stack, Call.pos) <= Level(stack, c)
        BY <1>1, <3>1, LevelMonotone
      <3> QED
        BY <1>1, <1>2, <1>6, <1>7, <2>1, <3>2
    <2> QED
      BY <1>1, <1>2, <1>3, <1>4, <1>6, <1>7, <1>9, <2>1, <2>2, <2>3
      DEF IndInv, Consistent, DepthOK
  <1> QED
    BY <1>8, <1>9

\* The outermost loop keeps its position when the innermost goes on,
LEMMA RootReplaced ==
  ASSUME NEW cs, IsList(cs), Len(cs) > 0, NEW c, c.pos = cs[Len(cs)].pos,
         NEW new, new = Replaced(cs, Len(cs), c)
  PROVE  IsList(new) /\ Len(new) = Len(cs) /\ new # <<>> /\ new[1].pos = cs[1].pos
  <1>1. Len(cs) \in Nat /\ Len(cs) \in 1 .. Len(cs) /\ 1 \in 1 .. Len(cs)
    BY ListLength
  <1>2. /\ IsList(new) /\ Len(new) = Len(cs)
        /\ \A i \in 1 .. Len(cs) : new[i] = IF i = Len(cs) THEN c ELSE cs[i]
    BY <1>1, ListReplaced
  <1> QED
    BY <1>1, <1>2

LEMMA RootWritten ==
  ASSUME IndInv, phase \in ContainsPhases, NEW c, c.pos = Call.pos, WithCall(c)
  PROVE  calls' # <<>> /\ calls'[1].pos = calls[1].pos
  <1>1. Len(calls) > 0 /\ IsList(calls)
    BY ContainsNow
  <1>2. calls' = Replaced(calls, Len(calls), c)
    BY DEF WithCall, Replaced
  <1> QED
    BY <1>1, <1>2, RootReplaced DEF Call

\* and when another opens or the innermost returns.
LEMMA RootAdded ==
  ASSUME NEW cs, IsList(cs), Len(cs) > 0, NEW c, NEW new, new = Added(cs, c)
  PROVE  new # <<>> /\ new[1] = cs[1]
  <1>1. Len(cs) \in Nat
    BY ListLength
  <1>2. /\ Len(new) = Len(cs) + 1
        /\ \A i \in 1 .. Len(cs) : new[i] = cs[i]
    <2>1. new = Append(cs, c)
      BY DEF Added
    <2> HIDE DEF IsList
    <2> QED
      BY <2>1, ListAppend
  <1> QED
    BY <1>1, <1>2

LEMMA RootCut ==
  ASSUME NEW cs, IsList(cs), Len(cs) > 1, NEW new, new = Cut(cs)
  PROVE  new # <<>> /\ new[1] = cs[1]
  <1>1. Len(cs) \in Nat
    BY ListLength
  <1>2. /\ Len(new) = Len(cs) - 1
        /\ \A i \in 1 .. Len(cs) - 1 : new[i] = cs[i]
    BY <1>1, ListCut
  <1>3. 1 \in 1 .. Len(cs) - 1 /\ Len(new) > 0
    BY <1>1, <1>2
  <1> QED
    BY <1>2, <1>3

\* A step inside the loops of contains.
LEMMA ContainsLoss ==
  ASSUME IndInv, IndInv', ResultStep, LossInv, ~ References,
         phase \in ContainsPhases, phase' \in ContainsPhases, UNCHANGED <<frames, it>>,
         calls' # <<>>, calls'[1].pos = calls[1].pos,
         DeepStep(stack, stack', Len(frames) - 1, calls[1].pos)
  PROVE  LossInv'
  <1>1. PICK s, t, a, c, ph, qh, cs, ds, X :
          /\ s = stack /\ t = stack' /\ a = Len(frames) - 1 /\ c = calls[1].pos
          /\ ph = phase /\ qh = phase' /\ cs = calls /\ ds = calls' /\ X = Excused
    OBVIOUS
  <1>2. /\ a \in Int /\ cs # <<>> /\ LiveIn(s, Call.pos)
        /\ c <= Call.pos /\ a <= Level(s, Call.pos)
    BY <1>1, ContainsNow
  <1>3. \A x \in X : x \in 1 .. Size(s) /\ c <= x /\ a <= Level(s, x)
    BY <1>1, <1>2 DEF Excused, LiveIn
  <1>4. StackOK(s) /\ StackOK(t)
    BY <1>1 DEF IndInv, Consistent
  <1>5. /\ LossOK(s, a, ph, it, cs) /\ DeepStep(s, t, a, c) /\ Later(s, t, X)
        /\ ph \in ContainsPhases /\ qh \in ContainsPhases
        /\ ds # <<>> /\ ds[1].pos = c /\ c = cs[1].pos
    BY <1>1 DEF LossInv, ResultStep
  <1>6. LossOK(t, a, qh, it, ds)
    BY <1>2, <1>3, <1>4, <1>5, DeepLoss
  <1> QED
    BY <1>1, <1>6 DEF LossInv

\* Such a step that works on the positions above the level, and on c.
LEMMA ContainsWorked ==
  ASSUME IndInv, ResultInv, phase \in ContainsPhases \ {"contains_return"},
         NEW a, a = Len(frames) - 1, NEW c, c = calls[1].pos,
         NEW n, NEW W, Worked(M, n, W), Becomes(n),
         \A x \in W : LiveIn(stack, x) /\ (x = c \/ a < Level(stack, x))
  PROVE  DeepStep(stack, stack', a, c)
  <1>1. /\ a \in Int /\ Len(calls) \in Nat /\ Len(calls) > 0 /\ stack.depth = a + Len(calls)
        /\ phase \in ContainsPhases
    BY ContainsNow
  <1>2. IsTidy(M) /\ M.stack = stack /\ stack' = n.stack
    BY TidyNow DEF Becomes
  <1>3. a < M.stack.depth
    BY <1>1, <1>2
  <1> QED
    BY <1>1, <1>2, <1>3, DeepWorked

\* The contains schema is pushed.
LEMMA ContainsPushLoss ==
  ASSUME IndInv, IndInv', ResultInv, ResultStep, LossInv, ~ References, ContainsPush
  PROVE  LossInv'
  <1>1. PICK p, m : p = Call.pos /\ m = PushBasics(M, SchemaAt(M, p).contains, p)
    OBVIOUS
  <1>2. PICK at, c : at = ForwardStart(m.stack) /\ c = [Call EXCEPT !.at = at]
    OBVIOUS
  <1>3. /\ phase = "contains_push" /\ phase' = "contains_check" /\ Becomes(m)
        /\ WithCall(c) /\ UNCHANGED <<frames, it>>
    BY <1>1, <1>2 DEF ContainsPush
  <1>4. /\ phase \in ContainsPhases \ {"contains_return"} /\ phase' \in ContainsPhases
        /\ phase \in ContainsPhases
    BY <1>3 DEF ContainsPhases
  <1>5. /\ LiveIn(stack, p) /\ IsCall(Call)
        /\ p = calls[1].pos \/ Len(frames) - 1 < Level(stack, p)
    BY <1>1, <1>4, ContainsNow
  <1>6. Worked(M, m, {p})
    BY <1>1, <1>3, ContainsPushWorks
  <1>7. DeepStep(stack, stack', Len(frames) - 1, calls[1].pos)
    BY <1>3, <1>4, <1>5, <1>6, ContainsWorked
  <1>8. at = [index |-> at.index, finished |-> at.finished]
    BY <1>2 DEF ForwardStart
  <1>9. c.pos = Call.pos
    BY <1>2, <1>5, <1>8, CallFields
  <1>10. calls' # <<>> /\ calls'[1].pos = calls[1].pos
    BY <1>3, <1>4, <1>9, RootWritten
  <1> QED
    BY <1>3, <1>4, <1>7, <1>10, ContainsLoss

\* The composition of the layer of contains.
LEMMA ContainsCheckLoss ==
  ASSUME IndInv, IndInv', ResultInv, ResultStep, LossInv, ~ References, ContainsCheck
  PROVE  LossInv'
  <1>1. /\ phase = "contains_check" /\ phase' \in {"contains_check", "contains_item"}
        /\ UNCHANGED <<frames, it>> /\ CallCheck("contains_check", "contains_item")
    BY DEF ContainsCheck, CallCheck
  <1>2. /\ phase \in ContainsPhases \ {"contains_return"} /\ phase' \in ContainsPhases
        /\ phase \in ContainsPhases
    BY <1>1 DEF ContainsPhases
  <1>3. PICK a, r : a = Len(frames) - 1 /\ r = calls[1].pos
    OBVIOUS
  <1>4. /\ IsCall(Call) /\ stack.depth = a + Len(calls) /\ a \in Int
        /\ Len(calls) \in Nat /\ Len(calls) > 0
    BY <1>1, <1>2, <1>3, ContainsNow
  <1>5. CASE CallForward # NoPos
    <2>1. PICK p, n, at : /\ p = CallForward /\ n = CompositionCheck(M, p)
                          /\ at = ForwardStep(Call.at)
      OBVIOUS
    <2>2. PICK c : c = [Call EXCEPT !.at = at]
      OBVIOUS
    <2>3. Becomes(n) /\ WithCall(c)
      BY <1>1, <1>5, <2>1, <2>2 DEF CallCheck
    <2>4. LiveIn(stack, p) /\ Level(stack, p) = stack.depth /\ Worked(M, n, {p})
      BY <1>1, <1>5, <2>1, CallCheckWorks
    <2>5. a < Level(stack, p)
      BY <1>4, <2>4
    <2>6. DeepStep(stack, stack', a, r)
      BY <1>2, <1>3, <2>3, <2>4, <2>5, ContainsWorked
    <2>7. at = [index |-> Call.at.index + 1, finished |-> Call.at.finished]
      BY <1>4, <2>1 DEF IsCall, ForwardStep
    <2>8. at = [index |-> at.index, finished |-> at.finished]
      BY <2>7
    <2>9. c.pos = Call.pos
      BY <1>4, <2>2, <2>8, CallFields
    <2>10. calls' # <<>> /\ calls'[1].pos = r
      BY <1>2, <1>3, <2>3, <2>9, RootWritten
    <2> QED
      BY <1>1, <1>2, <1>3, <2>6, <2>10, ContainsLoss
  <1>6. CASE CallForward = NoPos
    <2>1. PICK at, c : at = ReverseStart(stack) /\ c = [Call EXCEPT !.at = at]
      OBVIOUS
    <2>2. WithCall(c) /\ stack' = stack
      BY <1>1, <1>6, <2>1 DEF CallCheck
    <2>3. at = [index |-> at.index, finished |-> at.finished]
      BY <2>1 DEF ReverseStart
    <2>4. c.pos = Call.pos
      BY <1>4, <2>1, <2>3, CallFields
    <2>5. calls' # <<>> /\ calls'[1].pos = r
      BY <1>2, <1>3, <2>2, <2>4, RootWritten
    <2>6. DeepStep(stack, stack', a, r)
      BY <2>2, TidyNow, DeepCut
    <2> QED
      BY <1>1, <1>2, <1>3, <2>5, <2>6, ContainsLoss
  <1> QED
    BY <1>5, <1>6

\* The next item is tried.
LEMMA ContainsItemLoss ==
  ASSUME IndInv, IndInv', ResultInv, ResultStep, LossInv, ~ References, ContainsItem
  PROVE  LossInv'
  <1>1. PICK at, c : at = ReverseStart(stack) /\ c = [Call EXCEPT !.at = at]
    OBVIOUS
  <1>2. /\ phase = "contains_item" /\ phase' = "contains_validate" /\ WithCall(c)
        /\ stack' = IF Call.item = 1 THEN stack ELSE LayerResetPositions(stack)
        /\ UNCHANGED <<frames, it>>
    BY <1>1 DEF ContainsItem
  <1>3. phase \in ContainsPhases /\ phase' \in ContainsPhases
    BY <1>2 DEF ContainsPhases
  <1>4. PICK a, r : a = Len(frames) - 1 /\ r = calls[1].pos
    OBVIOUS
  <1>5. /\ IsCall(Call) /\ stack.depth = a + Len(calls) /\ a \in Int
        /\ Len(calls) \in Nat /\ Len(calls) > 0 /\ a < stack.depth
    BY <1>2, <1>3, <1>4, ContainsNow
  <1>6. DeepStep(stack, stack', a, r)
    <2>1. StackOK(stack) /\ Size(stack) \in Nat
      BY TidyNow
    <2>2. CASE Call.item = 1
      BY <1>2, <2>1, <2>2, DeepCut
    <2>3. CASE Call.item # 1
      BY <1>2, <1>5, <2>1, <2>3, DeepReset
    <2> QED
      BY <2>2, <2>3
  <1>7. at = [index |-> at.index, finished |-> at.finished]
    BY <1>1 DEF ReverseStart
  <1>8. c.pos = Call.pos
    BY <1>1, <1>5, <1>7, CallFields
  <1>9. calls' # <<>> /\ calls'[1].pos = r
    BY <1>2, <1>3, <1>4, <1>8, RootWritten
  <1> QED
    BY <1>2, <1>3, <1>4, <1>6, <1>9, ContainsLoss

\* The pass over an item ends.
LEMMA ContainsNextLoss ==
  ASSUME IndInv, IndInv', ResultInv, ResultStep, LossInv, ~ References, ContainsNext
  PROVE  LossInv'
  <1>1. PICK k : k = Call.item + 1
    OBVIOUS
  <1>2. /\ phase = "contains_validate" /\ phase' \in {"contains_remove", "contains_item"}
        /\ stack' = stack /\ UNCHANGED <<frames, it>>
        /\ WithCall([Call EXCEPT !.valid = TRUE]) \/ WithCall([Call EXCEPT !.item = k])
    BY <1>1 DEF ContainsNext
  <1>3. phase \in ContainsPhases /\ phase' \in ContainsPhases
    BY <1>2 DEF ContainsPhases
  <1>4. IsCall(Call)
    BY <1>3, ContainsNow
  <1>5. PICK c : c.pos = Call.pos /\ WithCall(c)
    <2>1. PICK e : e = Call.at
      OBVIOUS
    <2>2. e = [index |-> e.index, finished |-> e.finished]
      BY <1>4, <2>1 DEF IsCall
    <2>3. [Call EXCEPT !.valid = TRUE].pos = Call.pos /\ [Call EXCEPT !.item = k].pos = Call.pos
      BY <1>4, <2>2, CallFields
    <2> QED
      BY <1>2, <2>3
  <1>6. calls' # <<>> /\ calls'[1].pos = calls[1].pos
    BY <1>3, <1>5, RootWritten
  <1>7. DeepStep(stack, stack', Len(frames) - 1, calls[1].pos)
    BY <1>2, TidyNow, DeepCut
  <1> QED
    BY <1>2, <1>3, <1>6, <1>7, ContainsLoss

\* The layer of contains is removed.
LEMMA ContainsRemoveLoss ==
  ASSUME IndInv, IndInv', ResultInv, ResultStep, LossInv, ~ References, ContainsRemove
  PROVE  LossInv'
  <1>1. /\ phase \in {"contains_remove", "contains_item"} /\ phase' = "contains_return"
        /\ stack' = LayerRemove(stack) /\ UNCHANGED <<frames, it, calls>>
    BY DEF ContainsRemove
  <1>2. phase \in ContainsPhases /\ phase' \in ContainsPhases
    BY <1>1 DEF ContainsPhases
  <1>3. calls # <<>>
    BY <1>2, ContainsNow
  <1>4. PICK t : t = LayerRemove(stack)
    OBVIOUS
  <1>5. StackOK(stack) /\ StackOK(t) /\ Size(stack) \in Nat
    BY <1>1, <1>4, TidyNow DEF IndInv, Consistent
  <1>6. Size(t) <= Size(stack) /\ \A x \in 1 .. Size(t) : t.positions[x] = stack.positions[x]
    <2>1. CASE stack.last_separator = NoPos
      <3>1. t = EmptyStack
        BY <1>4, <1>5, <2>1, LayerRemoveKeeps DEF StackOK
      <3>2. Size(t) = 0
        BY <3>1 DEF EmptyStack, Size
      <3> QED
        BY <1>5, <3>2
    <2>2. CASE stack.last_separator # NoPos
      <3>1. /\ stack.last_separator \in 1 .. Size(stack) /\ Size(t) = stack.last_separator - 1
            /\ AgreeTo(stack, t, Size(t))
        BY <1>4, <1>5, <2>2, LayerRemoveKeeps DEF StackOK
      <3> QED
        BY <1>5, <3>1 DEF AgreeTo
    <2> QED
      BY <2>1, <2>2
  <1>7. DeepStep(stack, t, Len(frames) - 1, calls[1].pos)
    BY <1>5, <1>6, DeepCut
  <1> QED
    BY <1>1, <1>2, <1>3, <1>4, <1>7, ContainsLoss

\* A position above the level has its parent there too, or it is c.
LEMMA ParentAbove ==
  ASSUME NEW s, StackOK(s), NEW a \in Int, NEW c, Held(s, a, c),
         NEW p, LiveIn(s, p), a < Level(s, p), NEW q, q = s.positions[p].parent
  PROVE  \A x \in {p, q} \ {NoPos} : LiveIn(s, x) /\ (x = c \/ a < Level(s, x))
  <1>1. HeldAbove(s, a, c, p)
    BY DEF Held, LiveIn
  <1>2. q # NoPos => LiveIn(s, q)
    BY LivePosition
  <1> QED
    BY <1>1, <1>2 DEF HeldAbove

\* The pass over the layer of contains, for one position.
LEMMA ContainsValidateLoss ==
  ASSUME IndInv, IndInv', ResultInv, ResultStep, LossInv, ~ References, ContainsValidate
  PROVE  LossInv'
  <1>1. PICK p, item, e : /\ p = CallReverse /\ item = Call.inst.kids[Call.item].val
                          /\ e = ReverseStep(stack, Call.at)
    OBVIOUS
  <1>2. PICK c : c = [Call EXCEPT !.at = e]
    OBVIOUS
  <1>3. phase = "contains_validate" /\ p # NoPos /\ UNCHANGED <<frames, it>>
    BY <1>1 DEF ContainsValidate
  <1>4. phase \in ContainsPhases \ {"contains_return"} /\ phase \in ContainsPhases
    BY <1>3 DEF ContainsPhases
  <1>5. PICK a, r : a = Len(frames) - 1 /\ r = calls[1].pos
    OBVIOUS
  <1>6. /\ IsCall(Call) /\ stack.depth = a + Len(calls) /\ a \in Int /\ IsList(calls)
        /\ Len(calls) \in Nat /\ Len(calls) > 0
    BY <1>3, <1>4, <1>5, ContainsNow
  <1>7. IsTidy(M) /\ M.stack = stack /\ StackOK(stack)
    BY TidyNow
  <1>8. LiveIn(stack, p) /\ Level(stack, p) = stack.depth
    <2>1. Reversing(stack, Call.at, stack.depth)
      BY <1>3, <1>5, <1>6 DEF IndInv, Consistent, InnerOK, Call
    <2> QED
      BY <1>1, <1>3, <1>7, <2>1, ReverseReturns DEF CallReverse
  <1>9. c.pos = Call.pos
    <2>1. e = [index |-> e.index, finished |-> e.finished]
      BY <1>1 DEF ReverseStep
    <2> QED
      BY <1>2, <1>6, <2>1, CallFields
  <1>10. CASE Judgeable(M, p) /\ ReachesContains(M, p, item)
    <2>1. PICK cs : cs = Replaced(calls, Len(calls), c)
      OBVIOUS
    <2>2. ContainsStart(p, item, cs)
      BY <1>1, <1>2, <1>10, <2>1 DEF ContainsValidate, Replaced
    <2>3. stack' = PushSeparator(stack) /\ phase' = "contains_push"
      BY <1>8, <1>10, <2>2, ContainsOpens
    <2>4. PICK new : calls' = Added(cs, new)
      BY <2>2 DEF ContainsStart, Added
    <2>5. IsList(cs) /\ Len(cs) > 0 /\ cs[1].pos = r
      BY <1>5, <1>6, <1>9, <2>1, RootReplaced DEF Call
    <2>6. calls' # <<>> /\ calls'[1].pos = r
      BY <2>4, <2>5, RootAdded
    <2>7. DeepStep(stack, stack', a, r)
      BY <1>7, <2>3, DeepOpened
    <2>8. phase' \in ContainsPhases
      BY <2>3 DEF ContainsPhases
    <2> QED
      BY <1>3, <1>4, <1>5, <2>6, <2>7, <2>8, ContainsLoss
  <1>11. CASE ~ (Judgeable(M, p) /\ ReachesContains(M, p, item))
    <2>1. PICK m, n : /\ m = IF Judgeable(M, p) THEN ValidateValue(M, p, item) ELSE M
                      /\ n = IF Judgeable(M, p) THEN Propagate(m, p) ELSE M
      OBVIOUS
    <2>2. Becomes(n) /\ phase' = phase /\ WithCall(c)
      BY <1>1, <1>2, <1>11, <2>1 DEF ContainsValidate
    <2>3. PICK q : q = Pos(M, p).parent
      OBVIOUS
    <2>4. Pos(M, p).depth = M.stack.depth /\ q = stack.positions[p].parent
      BY <1>7, <1>8, <2>3, LiveLevel DEF Pos
    <2>5. PICK W : Worked(M, n, W) /\ W \subseteq {p, q} \ {NoPos}
      <3>1. CASE Judgeable(M, p)
        BY <1>7, <1>8, <2>1, <2>3, <2>4, <3>1, JudgeWorks
      <3>2. CASE ~ Judgeable(M, p)
        <4>1. Worked(M, n, {})
          BY <1>7, <2>1, <3>2, WorkedReflexive
        <4> QED
          BY <4>1
      <3> QED
        BY <3>1, <3>2
    <2>6. Held(stack, a, r)
      BY <1>4, <1>5 DEF LossInv, LossOK
    <2>7. a < Level(stack, p)
      BY <1>6, <1>8
    <2>8. \A x \in {p, q} \ {NoPos} : LiveIn(stack, x) /\ (x = r \/ a < Level(stack, x))
      BY <1>6, <1>7, <1>8, <2>4, <2>6, <2>7, ParentAbove
    <2>9. \A x \in W : LiveIn(stack, x) /\ (x = r \/ a < Level(stack, x))
      BY <2>5, <2>8
    <2>10. DeepStep(stack, stack', a, r)
      BY <1>4, <1>5, <2>2, <2>5, <2>9, ContainsWorked
    <2>11. calls' # <<>> /\ calls'[1].pos = r
      BY <1>4, <1>5, <1>9, <2>2, RootWritten
    <2> QED
      BY <1>3, <1>4, <1>5, <2>2, <2>10, <2>11, ContainsLoss
  <1> QED
    BY <1>10, <1>11

\* What the loop that called array_value does with the result of contains.
LEMMA ReturnWorks ==
  ASSUME IndInv, ResultInv, phase = "contains_return", NEW p, p = Call.pos,
         NEW m, m = IF Call.valid THEN SetResult(M, p, "VALID")
                    ELSE FailFinal(M, p, KeywordFailure),
         NEW n, n = Propagate(m, p)
  PROVE  LET q == stack.positions[p].parent
         IN  /\ StackOK(n.stack) /\ Size(n.stack) = Size(stack) /\ Carried(stack, n.stack)
             /\ \A x \in 1 .. Size(stack) :
                  /\ x \notin {p, q} => OutAt(n.stack, x) = OutAt(stack, x)
                  /\ x # p /\ Refuted(stack, x) => Refuted(n.stack, x)
             /\ /\ q # NoPos
                /\ stack.positions[p].composition_type \in MustHold
                /\ Refused(n.stack, p)
                /\ ~ FinalValid(stack, q)
                => Refuted(n.stack, q)
  <1>1. phase \in ContainsPhases
    BY DEF ContainsPhases
  <1>2. PICK a : a = Len(frames) - 1
    OBVIOUS
  <1>3. /\ LiveIn(stack, p) /\ Level(stack, p) = a - 1 + Len(calls) /\ a \in Int
        /\ Len(calls) \in Nat /\ stack.depth = a + Len(calls) - 1
    BY <1>1, <1>2, ContainsNow
  <1>4. IsTidy(M) /\ M.stack = stack /\ StackOK(stack) /\ Size(stack) \in Nat
    BY TidyNow
  <1>5. /\ Advanced(M, m) /\ IsTidy(m) /\ Size(m.stack) = Size(stack)
        /\ \A x \in 1 .. Size(stack) : x # p => OutAt(m.stack, x) = OutAt(stack, x)
    BY <1>3, <1>4, ContainsResult
  <1>6. LiveIn(m.stack, p)
    BY <1>3, <1>4, <1>5, AdvancedKeepsLive DEF IsTidy
  <1>7. PICK u, v : u = Pos(m, p) /\ v = stack.positions[p]
    OBVIOUS
  <1>8. KeptTo(stack, m.stack, Size(stack))
    BY <1>4, <1>5 DEF Advanced, Grown
  <1>9. Kept(v, u) /\ m.stack.depth = stack.depth
    BY <1>3, <1>4, <1>5, <1>7, <1>8 DEF Advanced, Grown, KeptTo, LiveIn, Pos
  <1>10. u.depth = m.stack.depth
    <2>1. stack.positions[p].depth = stack.depth
      BY <1>3, <1>4, LiveLevel
    <2> QED
      BY <1>7, <1>9, <2>1 DEF Kept, SameShape
  <1>11. PICK q : q = v.parent
    OBVIOUS
  <1>12. /\ u.parent = q /\ u.composition_type = v.composition_type
    BY <1>9, <1>11 DEF Kept, SameShape
  <1>13. /\ Worked(m, n, {p, q} \ {NoPos}) /\ Size(n.stack) = Size(m.stack)
         /\ Out(n, p).final = Out(m, p).final /\ Out(n, p).result = Out(m, p).result
         /\ /\ q # NoPos
            /\ u.composition_type \in {"NONE", "ALL"}
            /\ ~ IsValid(m, p)
            /\ ~ FinalValid(m.stack, q)
            => OutAt(n.stack, q).final /\ OutAt(n.stack, q).result = "INVALID"
    BY <1>5, <1>6, <1>7, <1>10, <1>12, PropagateWorks
  <1>14. StackOK(n.stack) /\ KeptTo(m.stack, n.stack, Size(stack))
    BY <1>5, <1>13 DEF Worked, Advanced, Grown
  <1>15. Carried(stack, n.stack)
    <2>1. ASSUME NEW x \in 1 .. Size(stack)
          PROVE  Kept(stack.positions[x], n.stack.positions[x])
      <3>1. Kept(stack.positions[x], m.stack.positions[x])
        BY <1>8 DEF KeptTo
      <3>2. Kept(m.stack.positions[x], n.stack.positions[x])
        BY <1>14 DEF KeptTo
      <3> QED
        BY <3>1, <3>2 DEF Kept, SameShape
    <2> QED
      BY <1>5, <1>13, <2>1 DEF Carried
  <1>16. ASSUME NEW x \in 1 .. Size(stack)
         PROVE  /\ x \notin {p, q} => OutAt(n.stack, x) = OutAt(stack, x)
                /\ x # p /\ Refuted(stack, x) => Refuted(n.stack, x)
    BY <1>5, <1>13 DEF Worked, Refuted, Refused
  <1>17. ASSUME q # NoPos, v.composition_type \in MustHold, Refused(n.stack, p),
                ~ FinalValid(stack, q)
         PROVE  Refuted(n.stack, q)
    <2>1. LiveIn(stack, q) /\ q < p
      BY <1>3, <1>4, <1>7, <1>11, <1>17, ParentLevel
    <2>2. q \in 1 .. Size(stack) /\ q # p
      BY <1>3, <1>4, <2>1 DEF LiveIn
    <2>3. ~ FinalValid(m.stack, q)
      BY <1>5, <1>17, <2>2 DEF FinalValid
    <2>4. ~ IsValid(m, p)
      BY <1>13, <1>17 DEF IsValid, Refused, Out, Pos, OutAt
    <2> QED
      BY <1>12, <1>13, <1>17, <2>3, <2>4 DEF MustHold, Refuted, Refused
  <1> QED
    BY <1>5, <1>7, <1>11, <1>13, <1>14, <1>15, <1>16, <1>17

\* A position that is written above the level, and one that is written to c.
LEMMA DeepWritten ==
  ASSUME NEW s, StackOK(s), NEW t, StackOK(t), Carried(s, t), Size(t) = Size(s),
         NEW a \in Int, NEW c, NEW W,
         \A x \in 1 .. Size(s) : x \notin W => OutAt(t, x) = OutAt(s, x),
         \A x \in W \ {NoPos} : LiveIn(s, x) /\ (x = c \/ a < Level(s, x))
  PROVE  DeepStep(s, t, a, c)
  <1>1. Size(s) \in Nat /\ Size(t) \in Nat
    BY StackFields
  <1>2. ASSUME NEW x \in 1 .. Size(t), LiveIn(s, x), Level(s, x) <= a, x # c
        PROVE  OutAt(t, x) = OutAt(s, x)
    <2>1. x \in 1 .. Size(s) /\ x # NoPos
      BY <1>1, <1>2 DEF NoPos
    <2>2. Level(s, x) \in Nat
      BY <1>2, <2>1, CarriedLevel
    <2>3. x \notin W
      BY <1>2, <2>1, <2>2
    <2> QED
      BY <2>1, <2>3
  <1> QED
    BY <1>1, <1>2 DEF DeepStep

\* array_value returns to the loop of another contains,
LEMMA ContainsReturnDeep ==
  ASSUME IndInv, IndInv', ResultInv, ResultStep, LossInv, ~ References, ContainsReturn,
         Len(calls) # 1
  PROVE  LossInv'
  <1>1. PICK p, m, n : /\ p = Call.pos
                       /\ m = IF Call.valid THEN SetResult(M, p, "VALID")
                              ELSE FailFinal(M, p, KeywordFailure)
                       /\ n = Propagate(m, p)
    OBVIOUS
  <1>2. /\ phase = "contains_return" /\ phase' = "contains_validate" /\ stack' = n.stack
        /\ calls' = Cut(calls) /\ UNCHANGED <<frames, it>>
    BY <1>1 DEF ContainsReturn, Becomes, Cut
  <1>3. phase \in ContainsPhases /\ phase' \in ContainsPhases
    BY <1>2 DEF ContainsPhases
  <1>4. PICK a, r, q : /\ a = Len(frames) - 1 /\ r = calls[1].pos
                       /\ q = stack.positions[p].parent
    OBVIOUS
  <1>5. /\ a \in Int /\ Len(calls) \in Nat /\ Len(calls) > 1 /\ IsList(calls)
        /\ LiveIn(stack, p) /\ a < Level(stack, p)
    <2>1. PICK k : k = Len(calls)
      OBVIOUS
    <2>2. /\ a \in Int /\ k \in Nat /\ k > 0 /\ IsList(calls)
          /\ LiveIn(stack, p) /\ Level(stack, p) = a - 1 + k
      BY <1>1, <1>3, <1>4, <2>1, ContainsNow
    <2>3. k > 1
      BY <2>1, <2>2
    <2>4. a < a - 1 + k
      BY <2>2, <2>3
    <2> QED
      BY <2>1, <2>2, <2>3, <2>4
  <1>6. calls' # <<>> /\ calls'[1].pos = r
    BY <1>2, <1>4, <1>5, RootCut
  <1>7. /\ StackOK(n.stack) /\ Size(n.stack) = Size(stack) /\ Carried(stack, n.stack)
        /\ \A x \in 1 .. Size(stack) : x \notin {p, q} => OutAt(n.stack, x) = OutAt(stack, x)
    BY <1>1, <1>2, <1>4, ReturnWorks
  <1>8. StackOK(stack) /\ Held(stack, a, r)
    BY <1>3, <1>4, TidyNow DEF LossInv, LossOK
  <1>9. \A x \in {p, q} \ {NoPos} : LiveIn(stack, x) /\ (x = r \/ a < Level(stack, x))
    <2>1. q = stack.positions[p].parent
      BY <1>4
    <2>2. a \in Int /\ LiveIn(stack, p) /\ a < Level(stack, p)
      BY <1>5
    <2> QED
      BY <1>8, <2>1, <2>2, ParentAbove
  <1>10. DeepStep(stack, n.stack, a, r)
    BY <1>5, <1>7, <1>8, <1>9, DeepWritten
  <1> QED
    BY <1>2, <1>3, <1>4, <1>6, <1>10, ContainsLoss

\* or to the loop of the value's layer.
LEMMA ContainsReturnOut ==
  ASSUME IndInv, IndInv', ResultInv, ResultStep, LossInv, ~ References, ContainsReturn,
         Len(calls) = 1
  PROVE  LossInv'
  <1>1. PICK p, m, n : /\ p = Call.pos
                       /\ m = IF Call.valid THEN SetResult(M, p, "VALID")
                              ELSE FailFinal(M, p, KeywordFailure)
                       /\ n = Propagate(m, p)
    OBVIOUS
  <1>2. /\ phase = "contains_return" /\ phase' = "value_validate" /\ stack' = n.stack
        /\ UNCHANGED <<frames, it>>
    BY <1>1 DEF ContainsReturn, Becomes
  <1>3. phase \in ContainsPhases /\ phase' \in Judging /\ phase \in Judging
        /\ phase' \notin ContainsPhases
    BY <1>2 DEF ContainsPhases, Judging
  <1>4. PICK a, q, s, t, i, cs : /\ a = Len(frames) - 1 /\ q = stack.positions[p].parent
                              /\ s = stack /\ t = n.stack /\ i = it /\ cs = calls'
    OBVIOUS
  <1>5. /\ a \in Int /\ p = calls[1].pos /\ LiveIn(s, p) /\ Level(s, p) = a /\ p \in Nat
    BY <1>1, <1>3, <1>4, ContainsNow
  <1>6. /\ i.index = p /\ (i.finished => i.index = 1) /\ Told(s, a, p, calls) /\ Held(s, a, p)
        /\ \A x \in 1 .. Size(s) : FinalValid(s, x) => p <= x /\ a <= Level(s, x)
    BY <1>3, <1>4, <1>5 DEF LossInv, LossOK
  <1>7. /\ StackOK(t) /\ Size(t) = Size(s) /\ Carried(s, t)
        /\ \A x \in 1 .. Size(s) :
             /\ x \notin {p, q} => OutAt(t, x) = OutAt(s, x)
             /\ x # p /\ Refuted(s, x) => Refuted(t, x)
        /\ /\ q # NoPos
           /\ s.positions[p].composition_type \in MustHold
           /\ Refused(t, p)
           /\ ~ FinalValid(s, q)
           => Refuted(t, q)
    BY <1>1, <1>2, <1>4, ReturnWorks
  <1>8. StackOK(s) /\ Size(s) \in Nat
    BY <1>4, TidyNow
  <1>9. q # NoPos => LiveIn(s, q) /\ q < p /\ q \in 1 .. Size(s)
    BY <1>4, <1>5, <1>8, ParentLevel DEF LiveIn
  <1>10. \A x \in 1 .. Size(t) : FinalValid(t, x) => p <= x /\ a <= Level(t, x)
    <2>1. PICK X : X = Excused
      OBVIOUS
    <2>2. X = {p} /\ Later(s, t, X)
      BY <1>1, <1>2, <1>4, <2>1 DEF Excused, ResultStep
    <2>3. \A x \in X : x \in 1 .. Size(s) /\ p <= x /\ a <= Level(s, x)
      BY <1>5, <2>2 DEF LiveIn
    <2> QED
      BY <1>5, <1>6, <1>7, <1>8, <2>2, <2>3, LaterFinal
  <1>11. Told(t, a, p, cs)
    <2> SUFFICES ASSUME NEW x \in 1 .. Size(t), p <= x, LiveIn(t, x), Level(t, x) = a,
                        t.positions[x].composition_type \in MustHold, Refused(t, x),
                        NEW r, r = t.positions[x].parent, r # NoPos
                 PROVE  Refuted(t, r)
      BY DEF Told
    <2>1. x \in 1 .. Size(s) /\ x <= Size(s)
      BY <1>7, <1>8
    <2>2. /\ Level(s, x) = a /\ LiveIn(s, x) /\ r = s.positions[x].parent
          /\ t.positions[x].composition_type = s.positions[x].composition_type
      BY <1>7, <1>8, <2>1, CarriedLevel
    <2>3. LiveIn(s, r) /\ r < x /\ r \in 1 .. Size(s)
      BY <1>8, <2>2, ParentLevel DEF LiveIn
    <2>4. CASE x = p
      <3>1. r = q
        BY <1>4, <2>2, <2>4
      <3>2. ~ FinalValid(s, q)
        BY <1>6, <1>8, <2>3, <2>4, <3>1
      <3> QED
        BY <1>7, <2>2, <2>4, <3>1, <3>2
    <2>5. CASE x # p
      <3>1. p < x
        BY <1>5, <2>1, <2>5
      <3>2. x # q
        BY <1>5, <1>8, <1>9, <2>1, <3>1 DEF NoPos
      <3>3. Refused(s, x)
        BY <1>7, <2>1, <2>5, <3>2 DEF Refused
      <3>4. Refuted(s, r)
        BY <1>5, <2>1, <2>2, <2>5, <1>6, <3>3 DEF Told
      <3>5. r # p
        <4>1. HeldChild(s, a, p, x)
          BY <1>6, <2>1 DEF Held
        <4> QED
          BY <2>2, <3>1, <3>3, <4>1 DEF HeldChild
      <3> QED
        BY <1>7, <2>3, <3>4, <3>5
    <2> QED
      BY <2>4, <2>5
  <1>12. i.index \in Nat
    BY <1>5, <1>6
  <1>13. LossOK(t, a, "value_validate", i, cs)
    BY <1>2, <1>3, <1>6, <1>10, <1>11, <1>12 DEF LossOK
  <1> QED
    BY <1>2, <1>4, <1>13 DEF LossInv

\* The second loop of stream_value starts.
LEMMA StartValidateLoss ==
  ASSUME IndInv, IndInv', ResultInv, ResultStep, LossInv, ~ References, StartValidate
  PROVE  LossInv'
  <1>1. /\ phase = "value" /\ phase' = "value_validate" /\ it' = ReverseStart(stack)
        /\ UNCHANGED <<stack, frames, calls>>
    BY DEF StartValidate, StartReverse
  <1>2. /\ phase \notin Judging /\ phase' \in Judging /\ phase' \notin ContainsPhases
    BY <1>1 DEF Judging, ContainsPhases
  <1>3. PICK k : k = Size(stack) + 1
    OBVIOUS
  <1>4. it'.index = k /\ it'.finished = FALSE /\ k \in Nat /\ Size(stack) \in Nat
    BY <1>1, <1>3, TidyNow DEF ReverseStart
  <1>5. \A x \in 1 .. Size(stack) : ~ FinalValid(stack, x)
    BY <1>2 DEF LossInv, LossOK
  <1>6. Told(stack, Len(frames) - 1, k, calls)
    BY <1>3, <1>4 DEF Told
  <1> QED
    BY <1>1, <1>2, <1>4, <1>5, <1>6 DEF LossInv, LossOK

\* No step outside of the loops that judge makes VALID final.
LEMMA OutsideLoss ==
  ASSUME IndInv, ResultStep, LossInv, ~ References, phase \notin Judging, phase' \notin Judging
  PROVE  LossInv'
  <1>1. phase # "contains_return" /\ phase' \notin ContainsPhases
    BY DEF Judging, ContainsPhases
  <1>2. Later(stack, stack', {})
    BY <1>1 DEF ResultStep, Excused
  <1>3. \A x \in 1 .. Size(stack) : ~ FinalValid(stack, x)
    BY DEF LossInv, LossOK
  <1>4. ASSUME NEW x \in 1 .. Size(stack'), FinalValid(stack', x) PROVE FALSE
    <2>1. x <= Size(stack) /\ FinalValid(stack, x)
      BY <1>2, <1>4 DEF Later
    <2>2. Size(stack) \in Nat
      BY StackFields DEF IndInv, Consistent
    <2>3. x \in 1 .. Size(stack)
      BY <2>1, <2>2
    <2> QED
      BY <1>3, <2>1, <2>3
  <1> QED
    BY <1>1, <1>4 DEF LossInv, LossOK

\* stream_value judges a position: it tells its parent what it is.
LEMMA ValueJudgeLoss ==
  ASSUME IndInv, IndInv', ResultInv, ResultStep, LossInv, ~ References, ValueValidate,
         ~ (Judgeable(M, ReverseAt) /\ ReachesContains(M, ReverseAt, Inst))
  PROVE  LossInv'
  <1>1. PICK p, j, u, n : /\ p = ReverseAt /\ j = ReverseStep(stack, it)
                          /\ u = IF Judgeable(M, p) THEN ValidateValue(M, p, Inst) ELSE M
                          /\ n = Propagate(u, p)
    OBVIOUS
  <1>2. /\ phase = "value_validate" /\ p # NoPos /\ it' = j /\ Becomes(n)
        /\ UNCHANGED <<phase, calls, frames>>
    BY <1>1 DEF ValueValidate, ReverseLoop, ReverseAt
  <1>3. /\ phase \in Judging /\ phase \notin ContainsPhases /\ phase \in Phases \ CallPhases
        /\ phase \in InReverse
    BY <1>2 DEF Judging, ContainsPhases, CallPhases, NamesPhases, Phases, ValuePhases, InReverse
  <1>4. PICK a, s, t, k : a = Len(frames) - 1 /\ s = stack /\ t = n.stack /\ k = it.index
    OBVIOUS
  <1>5. /\ IsTidy(M) /\ M.stack = s /\ StackOK(s) /\ Size(s) \in Nat /\ s.depth = a
        /\ calls = <<>> /\ Reversing(s, it, a) /\ a \in Int
    BY <1>2, <1>3, <1>4, TidyNow, Sizes
    DEF IndInv, Consistent, DepthOK, ValuePhases, InnerOK, IteratorOK
  <1>6. LiveIn(s, p) /\ Level(s, p) = a /\ p = k - 1 /\ k \in Nat
    BY <1>1, <1>2, <1>4, <1>5, ReverseReturns DEF ReverseAt
  <1>7. /\ Told(s, a, k, <<>>)
        /\ \A x \in 1 .. Size(s) : FinalValid(s, x) => k <= x /\ a <= Level(s, x)
    BY <1>3, <1>4, <1>5 DEF LossInv, LossOK
  <1>8. PICK v, q : v = Pos(M, p) /\ q = v.parent
    OBVIOUS
  <1>9. v = s.positions[p] /\ v.depth = M.stack.depth
    BY <1>5, <1>6, <1>8, LiveLevel DEF Pos
  <1>10. /\ Worked(M, n, {p, q} \ {NoPos}) /\ Size(n.stack) = Size(M.stack)
         /\ /\ q # NoPos
            /\ v.composition_type \in {"NONE", "ALL"}
            /\ ~ IsValid(n, p)
            /\ ~ FinalValid(M.stack, q)
            => OutAt(n.stack, q).final /\ OutAt(n.stack, q).result = "INVALID"
    <2>1. /\ u = IF Judgeable(M, p) THEN ValidateValue(M, p, Inst) ELSE M
          /\ n = Propagate(u, p) /\ q = Pos(M, p).parent
      BY <1>1, <1>8
    <2>2. IsTidy(M) /\ LiveIn(M.stack, p) /\ Pos(M, p).depth = M.stack.depth
      BY <1>5, <1>6, <1>8, <1>9
    <2>3. Worked(M, n, {p, q} \ {NoPos}) /\ Size(n.stack) = Size(M.stack)
      BY <2>1, <2>2, JudgeWorks
    <2>4. ASSUME q # NoPos, Pos(M, p).composition_type \in {"NONE", "ALL"},
                 ~ IsValid(n, p), ~ FinalValid(M.stack, q)
          PROVE  OutAt(n.stack, q).final /\ OutAt(n.stack, q).result = "INVALID"
      BY <2>1, <2>2, <2>4, JudgeWorks
    <2> QED
      BY <1>8, <2>3, <2>4
  <1>11. StackOK(t) /\ Size(t) = Size(s) /\ stack' = t /\ KeptTo(s, t, Size(s))
    BY <1>2, <1>4, <1>5, <1>10 DEF Worked, Advanced, Grown, Becomes
  <1>12. Carried(s, t)
    BY <1>5, <1>11 DEF Carried, KeptTo
  <1>13. q # NoPos => LiveIn(s, q) /\ q < p /\ q \in 1 .. Size(s)
    BY <1>5, <1>6, <1>8, <1>9, ParentLevel DEF LiveIn
  <1>14. j.index = p /\ p \in Nat /\ (j.finished => j.index = 1)
    <2>1. j = [index |-> it.index - 1,
               finished |-> IsSentinel(stack.positions[it.index - 1]) \/ it.index = 2]
      BY <1>1 DEF ReverseStep
    <2>2. j.index = p /\ (j.finished => IsSentinel(s.positions[p]) \/ k = 2)
      BY <1>4, <1>6, <2>1
    <2> QED
      BY <1>6, <2>2 DEF LiveIn
  <1>15. \A x \in 1 .. Size(t) : FinalValid(t, x) => p <= x /\ a <= Level(t, x)
    <2>1. PICK X : X = {}
      OBVIOUS
    <2>2. Later(s, t, X)
      BY <1>2, <1>4, <1>11, <2>1 DEF ResultStep, Excused
    <2>3. \A x \in X : x \in 1 .. Size(s) /\ k <= x /\ a <= Level(s, x)
      BY <2>1
    <2>4. \A x \in 1 .. Size(t) : FinalValid(t, x) => k <= x /\ a <= Level(t, x)
      BY <1>5, <1>6, <1>7, <1>11, <1>12, <2>2, <2>3, LaterFinal
    <2> QED
      BY <1>6, <1>11, <1>5, <2>4
  <1>16. Told(t, a, p, <<>>)
    <2> SUFFICES ASSUME NEW x \in 1 .. Size(t), p <= x, LiveIn(t, x), Level(t, x) = a,
                        t.positions[x].composition_type \in MustHold, Refused(t, x),
                        NEW r, r = t.positions[x].parent, r # NoPos
                 PROVE  Refuted(t, r)
      BY DEF Told
    <2>1. x \in 1 .. Size(s) /\ x <= Size(s)
      BY <1>5, <1>11
    <2>2. /\ Level(s, x) = a /\ LiveIn(s, x) /\ r = s.positions[x].parent
          /\ t.positions[x].composition_type = s.positions[x].composition_type
      BY <1>5, <1>11, <1>12, <2>1, CarriedLevel
    <2>3. LiveIn(s, r) /\ r < x /\ r \in 1 .. Size(s)
      BY <1>5, <2>2, ParentLevel DEF LiveIn
    <2>4. CASE x = p
      <3>1. r = q
        BY <1>8, <1>9, <2>2, <2>4
      <3>2. ~ FinalValid(M.stack, q)
        BY <1>5, <1>6, <1>7, <2>3, <2>4, <3>1
      <3>3. ~ IsValid(n, p)
        BY <1>4, <2>4 DEF IsValid, Refused, Out, Pos, OutAt
      <3> QED
        BY <1>4, <1>9, <1>10, <2>2, <2>4, <3>1, <3>2, <3>3 DEF MustHold, Refuted, Refused
    <2>5. CASE x # p
      <3>1. k <= x
        BY <1>6, <2>1, <2>5
      <3>2. x # q
        BY <1>5, <1>6, <1>13, <2>1, <3>1 DEF NoPos
      <3>3. Refused(s, x)
        BY <1>4, <1>5, <1>10, <2>1, <2>5, <3>2 DEF Worked, Refused
      <3>4. Refuted(s, r)
        BY <1>7, <2>1, <2>2, <3>1, <3>3 DEF Told
      <3> QED
        BY <1>4, <1>5, <1>10, <2>3, <3>4 DEF Worked, Refuted, Refused
    <2> QED
      BY <2>4, <2>5
  <1>17. LossOK(t, a, phase, j, <<>>)
    BY <1>3, <1>14, <1>15, <1>16 DEF LossOK
  <1> QED
    BY <1>2, <1>4, <1>5, <1>11, <1>17 DEF LossInv

\* stream_value meets a position whose contains is to run.
LEMMA ValueContainsLoss ==
  ASSUME IndInv, IndInv', ResultInv, ResultStep, LossInv, ~ References, ValueValidate,
         Judgeable(M, ReverseAt), ReachesContains(M, ReverseAt, Inst)
  PROVE  LossInv'
  <1>1. PICK p, j : p = ReverseAt /\ j = ReverseStep(stack, it)
    OBVIOUS
  <1>2. /\ phase = "value_validate" /\ p # NoPos /\ it' = j
        /\ ContainsStart(p, Inst, calls) /\ UNCHANGED frames
    BY <1>1 DEF ValueValidate, ReverseLoop, ReverseAt
  <1>3. /\ phase \in Judging /\ phase \notin ContainsPhases /\ phase \in Phases \ CallPhases
    BY <1>2 DEF Judging, ContainsPhases, CallPhases, NamesPhases, Phases, ValuePhases
  <1>4. PICK a, s, t, k, new :
          /\ a = Len(frames) - 1 /\ s = stack /\ t = stack' /\ k = it.index
          /\ new = [pos |-> p, top |-> Size(stack) + 2, item |-> 1,
                    inst |-> Inst, valid |-> FALSE, at |-> NoIterator]
    OBVIOUS
  <1>5. /\ M.stack = s /\ StackOK(s) /\ Size(s) \in Nat /\ s.depth = a
        /\ calls = <<>> /\ Reversing(s, it, a) /\ a \in Int
    BY <1>2, <1>3, <1>4, TidyNow, Sizes
    DEF IndInv, Consistent, DepthOK, ValuePhases, InnerOK, IteratorOK, InReverse
  <1>6. LiveIn(s, p) /\ Level(s, p) = a /\ p = k - 1 /\ k \in Nat
    BY <1>1, <1>2, <1>4, <1>5, ReverseReturns DEF ReverseAt
  <1>7. /\ Told(s, a, k, <<>>)
        /\ \A x \in 1 .. Size(s) : FinalValid(s, x) => k <= x /\ a <= Level(s, x)
    BY <1>3, <1>4, <1>5 DEF LossInv, LossOK
  <1>8. /\ phase' = "contains_push" /\ t = PushSeparator(s)
    BY <1>1, <1>2, <1>4, <1>6, ContainsOpens
  <1>9. calls' = Append(<<>>, new)
    BY <1>2, <1>4, <1>5 DEF ContainsStart
  <1>10. calls' # <<>> /\ calls'[1].pos = p
    BY <1>4, <1>9
  <1>11. /\ Size(t) = Size(s) + 1
         /\ \A x \in 1 .. Size(s) : t.positions[x] = s.positions[x]
         /\ ~ LiveIn(t, Size(s) + 1)
         /\ OutAt(t, Size(s) + 1) = FreshOutcome
    <2>1. Pushed(s, t, Separator(s))
      BY <1>5, <1>8, PushSeparatorKeeps DEF StackOK
    <2> QED
      BY <2>1 DEF Pushed, AgreeTo, Separator, LiveIn, IsSentinel, OutAt
  <1>12. StackOK(t)
    BY <1>4 DEF IndInv, Consistent
  <1>13. ASSUME NEW x \in 1 .. Size(t)
         PROVE  \/ ~ LiveIn(t, x) /\ ~ FinalValid(t, x)
                \/ /\ x \in 1 .. Size(s) /\ t.positions[x] = s.positions[x]
                   /\ Level(t, x) = Level(s, x) /\ Level(s, x) \in Nat /\ Level(s, x) <= a
                   /\ LiveIn(t, x) <=> LiveIn(s, x)
    <2>1. CASE x = Size(s) + 1
      BY <1>11, <2>1 DEF FinalValid, FreshOutcome
    <2>2. CASE x # Size(s) + 1
      <3>1. x \in 1 .. Size(s) /\ x <= Size(s)
        BY <1>5, <1>11, <2>2
      <3>2. Carried(s, t)
        BY <1>5, <1>11 DEF Carried, Kept, SameShape
      <3>3. x \in 0 .. Size(s)
        BY <3>1
      <3>4. Level(s, x) \in 0 .. s.depth
        BY <1>5, <3>3, LevelBounded
      <3> QED
        BY <1>5, <1>11, <1>12, <3>1, <3>2, <3>4, CarriedLevel
    <2> QED
      BY <2>1, <2>2
  <1>14. j.index = p /\ p \in Nat /\ (j.finished => j.index = 1)
    <2>1. j = [index |-> it.index - 1,
               finished |-> IsSentinel(stack.positions[it.index - 1]) \/ it.index = 2]
      BY <1>1 DEF ReverseStep
    <2>2. j.index = p /\ (j.finished => IsSentinel(s.positions[p]) \/ k = 2)
      BY <1>4, <1>6, <2>1
    <2> QED
      BY <1>6, <2>2 DEF LiveIn
  <1>15. \A x \in 1 .. Size(t) : FinalValid(t, x) => p <= x /\ a <= Level(t, x)
    BY <1>5, <1>6, <1>7, <1>13 DEF FinalValid, OutAt
  <1>16. Told(t, a, p, calls')
    <2> SUFFICES ASSUME NEW x \in 1 .. Size(t), p <= x, LiveIn(t, x), Level(t, x) = a, x # p,
                        t.positions[x].composition_type \in MustHold, Refused(t, x),
                        NEW r, r = t.positions[x].parent, r # NoPos
                 PROVE  Refuted(t, r)
      BY <1>10 DEF Told
    <2>1. /\ x \in 1 .. Size(s) /\ t.positions[x] = s.positions[x] /\ LiveIn(s, x)
          /\ Level(s, x) = a
      BY <1>13
    <2>2. k <= x
      BY <1>6, <2>1
    <2>3. Refuted(s, r)
      BY <1>7, <2>1, <2>2 DEF Told, Refused, OutAt
    <2>4. r \in 1 .. Size(s)
      BY <1>5, <2>1, ParentLevel DEF LiveIn
    <2> QED
      BY <1>11, <2>3, <2>4 DEF Refuted, Refused, OutAt
  <1>17. Held(t, a, p)
    <2>1. ASSUME NEW x \in 1 .. Size(t) PROVE HeldAbove(t, a, p, x)
      BY <1>5, <1>13 DEF HeldAbove
    <2>2. ASSUME NEW x \in 1 .. Size(t), p < x, LiveIn(t, x), Level(t, x) = a,
                 t.positions[x].parent = p, t.positions[x].composition_type \in MustHold,
                 Refused(t, x)
          PROVE  FALSE
      <3>1. /\ x \in 1 .. Size(s) /\ t.positions[x] = s.positions[x] /\ LiveIn(s, x)
            /\ Level(s, x) = a
        BY <1>13, <2>2
      <3>2. k <= x /\ p # NoPos
        BY <1>2, <1>6, <2>2, <3>1
      <3>3. Refuted(s, p)
        BY <1>7, <2>2, <3>1, <3>2 DEF Told, Refused, OutAt
      <3>4. ~ Out(M, p).final
        BY <1>1, JudgedOpen
      <3> QED
        BY <1>5, <3>3, <3>4 DEF Refuted, OutAt, Out, Pos
    <2> QED
      BY <2>1, <2>2 DEF Held, HeldChild
  <1>18. phase' \in Judging
    BY <1>8 DEF Judging, ContainsPhases
  <1>19. LossOK(t, a, phase', j, calls')
    BY <1>10, <1>14, <1>15, <1>16, <1>17, <1>18 DEF LossOK
  <1> QED
    BY <1>2, <1>4, <1>19 DEF LossInv

\* The levels below the top layer are lower.
LEMMA BelowSeparator ==
  ASSUME NEW s, StackOK(s), s.last_separator # NoPos, NEW x \in 1 .. s.last_separator - 1
  PROVE  Level(s, x) < s.depth
  <1>1. PICK l : l = s.last_separator
    OBVIOUS
  <1>2. /\ l \in 1 .. Size(s) /\ IsSentinel(s.positions[l]) /\ Size(s) \in Nat
        /\ s.depth \in Nat /\ Level(s, l) = s.depth
    BY <1>1, LastSeparator, TopLevel, StackFields
  <1>3. l - 1 \in Nat /\ (l - 1) + 1 = l /\ l - 1 \in 0 .. Size(s) /\ x \in 0 .. l - 1
    BY <1>1, <1>2
  <1>4. Level(s, (l - 1) + 1) = Level(s, l - 1) + 1
    <2>1. IsSentinel(s.positions[(l - 1) + 1])
      BY <1>2, <1>3
    <2> QED
      BY <1>3, <2>1, SeparatorsStep DEF Level
  <1>5. Level(s, x) \in Nat /\ Level(s, l - 1) \in Nat /\ Level(s, x) <= Level(s, l - 1)
    BY <1>3, LevelMonotone
  <1> QED
    BY <1>2, <1>3, <1>4, <1>5

\* The layer goes, and with it every result that is final and VALID.
LEMMA ValueEndLoss ==
  ASSUME IndInv, IndInv', ResultInv, ResultStep, LossInv, ~ References, ValueEnd
  PROVE  LossInv'
  <1>1. /\ phase = "value_validate" /\ stack' = LayerRemove(stack)
        /\ phase' \in {"append", "member", "done"}
    BY DEF ValueEnd, ReverseEnd
  <1>2. /\ phase' \notin Judging /\ phase' \notin ContainsPhases
        /\ phase \notin ContainsPhases /\ phase # "contains_return"
    BY <1>1 DEF Judging, ContainsPhases
  <1>3. PICK a, s, t : a = Len(frames) - 1 /\ s = stack /\ t = stack'
    OBVIOUS
  <1>4. /\ StackOK(s) /\ Size(s) \in Nat /\ s.depth = a /\ a \in Int
        /\ s.last_separator \in 0 .. Size(s)
    BY <1>1, <1>3, TidyNow, Sizes DEF IndInv, Consistent, DepthOK, ValuePhases
  <1>5. ASSUME NEW x \in 1 .. Size(t), FinalValid(t, x) PROVE FALSE
    <2>1. Later(s, t, {})
      BY <1>2, <1>3 DEF ResultStep, Excused
    <2>2. x <= Size(s) /\ FinalValid(s, x)
      BY <1>5, <2>1 DEF Later
    <2>3. x \in 1 .. Size(s)
      BY <1>4, <2>2
    <2>4. a <= Level(s, x)
      BY <1>3, <2>2, <2>3 DEF LossInv, LossOK
    <2>5. CASE s.last_separator = NoPos
      <3>1. t = EmptyStack
        BY <1>1, <1>3, <1>4, <2>5, LayerRemoveKeeps DEF StackOK
      <3>2. Size(t) = 0
        BY <3>1 DEF EmptyStack, Size
      <3> QED
        BY <1>5, <3>2
    <2>6. CASE s.last_separator # NoPos
      <3>1. Size(t) = s.last_separator - 1
        BY <1>1, <1>3, <1>4, <2>6, LayerRemoveKeeps DEF StackOK
      <3>2. Level(s, x) < s.depth
        BY <1>4, <1>5, <2>6, <3>1, BelowSeparator
      <3>3. Level(s, x) \in Nat
        <4>1. x \in 0 .. Size(s) /\ 0 \in 0 .. x
          BY <2>3
        <4> QED
          BY <1>4, <4>1, LevelMonotone
      <3> QED
        BY <1>4, <2>4, <3>2, <3>3
    <2> QED
      BY <2>5, <2>6
  <1> QED
    BY <1>2, <1>3, <1>5 DEF LossInv, LossOK

\* Every step keeps it.
LEMMA NextLoss ==
  ASSUME WalkInv, WalkInv', ResultInv, ResultStep, LossInv, ~ References, [Next]_vars
  PROVE  LossInv'
  <1>1. IndInv /\ IndInv'
    BY DEF WalkInv
  <1>2. CASE UNCHANGED vars
    BY <1>2 DEF vars, LossInv
  <1>3. CASE ValueValidate
    BY <1>1, <1>3, ValueJudgeLoss, ValueContainsLoss
  <1>4. CASE ContainsReturn
    BY <1>1, <1>4, ContainsReturnDeep, ContainsReturnOut
  <1>5. CASE \/ ContainsPush \/ ContainsCheck \/ ContainsItem \/ ContainsValidate
             \/ ContainsNext \/ ContainsRemove
    BY <1>1, <1>5, ContainsPushLoss, ContainsCheckLoss, ContainsItemLoss,
       ContainsValidateLoss, ContainsNextLoss, ContainsRemoveLoss
  <1>6. CASE StartValidate \/ ValueEnd
    BY <1>1, <1>6, StartValidateLoss, ValueEndLoss
  <1>7. CASE \/ StreamInit \/ Enter \/ ObjectStart \/ ObjectKey \/ ObjectKeyPosition
             \/ ObjectKeyEnd \/ ArrayStart \/ ArrayPropagate \/ ArrayItems \/ ArrayItem
             \/ ArrayAppend \/ ArrayAppendPosition \/ ArrayEnd \/ ObjectEnd \/ ValueCheck
    <2>1. phase \notin Judging /\ phase' \notin Judging
      BY <1>7
      DEF StreamInit, Enter, ObjectStart, ObjectKey, ObjectKeyPosition, ObjectKeyEnd,
          ArrayStart, ArrayPropagate, ArrayItems, ArrayItem, ArrayAppend,
          ArrayAppendPosition, ArrayEnd, ObjectEnd, ValueCheck, ForwardLoop, ForwardEnd,
          ReverseLoop, ReverseEnd, StartForward, StartReverse, StartAboveLayer, Judging,
          ContainsPhases
    <2> QED
      BY <1>1, <2>1, OutsideLoss
  <1>8. CASE NamesCheck \/ NamesValidate \/ NamesEnd \/ NamesReopen \/ NamesResult
    <2>1. phase \notin Judging /\ phase' \notin Judging
      BY <1>8
      DEF NamesCheck, NamesValidate, NamesEnd, NamesReopen, NamesResult, CallCheck,
          Judging, ContainsPhases
    <2> QED
      BY <1>1, <2>1, OutsideLoss
  <1>9. CASE Done
    BY <1>9 DEF Done, vars, LossInv
  <1> QED
    BY <1>2, <1>3, <1>4, <1>5, <1>6, <1>7, <1>8, <1>9 DEF Next

\* The initial states.
LEMMA InitLoss ==
  ASSUME Init
  PROVE  LossInv
  BY DEF Init, LossInv, LossOK, EmptyStack, Size, Judging, ContainsPhases

\* Without $ref the results in the layers stay as LossInv says.
LEMMA LossAlways ==
  ASSUME ~ References
  PROVE  Spec => []LossInv
  <1>1. Init => LossInv
    BY InitLoss
  <1>2. WalkInv /\ WalkInv' /\ ResultInv /\ LossInv /\ [Next]_vars => LossInv'
    BY NextResults, NextLoss
  <1> QED
    BY <1>1, <1>2, Invariance, ResultsAlwaysTidy, PTL DEF Spec

\* The loop that judges a layer ends at the layer's first position: every
\* position of the layer has been judged.
LEMMA WholeLayer ==
  ASSUME IndInv, LossInv, ReverseEnd("value_validate"), NEW p \in LayerPositions(stack)
  PROVE  LiveIn(stack, p) /\ Level(stack, p) = Len(frames) - 1 /\ it.index <= p
  <1>1. PICK a, s, k : a = Len(frames) - 1 /\ s = stack /\ k = it.index
    OBVIOUS
  <1>2. phase = "value_validate" /\ ReverseNext(s, it) = NoPos /\ phase \in Judging
    BY <1>1 DEF ReverseEnd, Judging
  <1>3. /\ StackOK(s) /\ Size(s) \in Nat /\ s.depth = a /\ Reversing(s, it, a)
        /\ s.last_separator \in 0 .. Size(s) /\ IsLastSeparator(s, s.last_separator, Size(s))
    BY <1>1, <1>2, StackFields
    DEF IndInv, Consistent, DepthOK, ValuePhases, IteratorOK, InReverse
  <1>4. k \in Nat /\ (it.finished => k = 1)
    BY <1>1, <1>2 DEF LossInv, LossOK
  <1>5. LiveIn(s, p) /\ p \in 1 .. Size(s) /\ s.last_separator <= p
    <2>1. PICK at : at = ForwardStart(s)
      OBVIOUS
    <2>2. p \in at.index .. Size(s) /\ \A e \in at.index .. p : ~ IsSentinel(s.positions[e])
      BY <1>1, <2>1 DEF LayerPositions
    <2>3. Size(s) > 0
      <3>1. 1 \in 1 .. Size(s)
        BY <1>2, <1>1 DEF IndInv, Consistent, RootOK, EndPhases, LiveIn
      <3> QED
        BY <1>3, <3>1
    <2>4. s.last_separator <= at.index /\ at.index \in 1 .. Size(s)
      BY <1>3, <2>1, <2>3, ForwardStarts
    <2>5. p \in 1 .. Size(s) /\ p \in at.index .. p /\ s.last_separator <= p
      BY <1>3, <2>2, <2>4
    <2> QED
      BY <2>2, <2>5 DEF LiveIn
  <1>6. Level(s, p) = a
    BY <1>3, <1>5, TopLevel
  <1>7. k <= p
    <2>1. CASE it.finished
      BY <1>3, <1>4, <1>5, <2>1
    <2>2. CASE ~ it.finished
      <3>1. k - 1 \in 1 .. Size(s)
        BY <1>1, <1>3, <2>2 DEF Reversing
      <3>2. IsSentinel(s.positions[k - 1])
        BY <1>1, <1>2, <2>2, <3>1 DEF ReverseNext, NoPos
      <3>3. k - 1 <= s.last_separator
        <4> SUFFICES ASSUME ~ k - 1 <= s.last_separator PROVE FALSE
          OBVIOUS
        <4>1. k - 1 \in s.last_separator + 1 .. Size(s)
          BY <1>3, <1>4, <3>1
        <4> QED
          BY <1>3, <3>2, <4>1 DEF IsLastSeparator
      <3>4. s.last_separator < p
        BY <1>3, <1>5, <1>6, TopAbove
      <3> QED
        BY <1>3, <1>4, <1>5, <3>3, <3>4
    <2> QED
      BY <2>1, <2>2
  <1> QED
    BY <1>1, <1>5, <1>6, <1>7

\* The walk of a value ends only with its layer.
LEMMA OnlyValueEnds ==
  ASSUME IndInv, [Next]_vars, phase = "value_validate", Len(frames') < Len(frames)
  PROVE  ValueEnd
  <1>1. frames' # frames
    BY Sizes DEF IndInv
  <1>2. ~ UNCHANGED vars
    BY <1>1 DEF vars
  <1>3. CASE ValueValidate
    BY <1>1, <1>3 DEF ValueValidate
  <1>4. CASE NamesCheck \/ ContainsCheck
    BY <1>4 DEF NamesCheck, ContainsCheck, CallCheck
  <1>5. CASE Done
    BY <1>5 DEF Done
  <1> QED
    BY <1>2, <1>3, <1>4, <1>5
    DEF Next, StreamInit, Enter, ObjectStart, ObjectKey, ObjectKeyPosition, ObjectKeyEnd,
        NamesValidate, NamesEnd, NamesReopen, NamesResult, ArrayStart,
        ArrayPropagate, ArrayItems, ArrayItem, ArrayAppend, ArrayAppendPosition, ArrayEnd,
        ObjectEnd, ValueCheck, StartValidate, ContainsPush, ContainsItem, ContainsValidate,
        ContainsNext, ContainsRemove, ContainsReturn, ForwardLoop, ForwardEnd, ReverseLoop,
        ReverseEnd

\* No failure is forgotten when the layer of a value is removed, for every
\* schema without $ref and every instance.  With $ref it may be: array_start
\* propagates VALID along a reference before the schema it names was asked, which
\* makes the position final, and what the schema says later is not written over that.
THEOREM NoFailureEverLost ==
  ASSUME ~ References
  PROVE  Spec => NoFailureLost
  <1> DEFINE NotForgotten ==
        phase = "value_validate" /\ Len(frames') < Len(frames) =>
          \A p \in LayerPositions(stack) :
            LET pos == stack.positions[p]
            IN  /\ pos.out.result = "INVALID"
                /\ pos.composition_type \in {"NONE", "ALL", "REF"}
                /\ pos.parent # NoPos
                => stack.positions[pos.parent].out.result = "INVALID"
  <1>1. ASSUME WalkInv, ResultInv, LossInv, [Next]_vars PROVE NotForgotten
    <2> SUFFICES ASSUME phase = "value_validate", Len(frames') < Len(frames),
                        NEW p \in LayerPositions(stack), NEW pos, pos = stack.positions[p],
                        pos.out.result = "INVALID",
                        pos.composition_type \in {"NONE", "ALL", "REF"},
                        pos.parent # NoPos
                 PROVE  stack.positions[pos.parent].out.result = "INVALID"
      OBVIOUS
    <2>1. IndInv /\ ReverseEnd("value_validate")
      BY <1>1, OnlyValueEnds DEF WalkInv, ValueEnd
    <2>2. /\ LiveIn(stack, p) /\ Level(stack, p) = Len(frames) - 1 /\ it.index <= p
          /\ p \in 1 .. Size(stack)
      BY <1>1, <2>1, WholeLayer DEF LiveIn
    <2>3. pos.composition_type \in MustHold
      <3>1. TidyAt(stack, p)
        BY <1>1, <2>2 DEF ResultInv, ResultOK, Tidy
      <3> QED
        BY <3>1 DEF TidyAt, MustHold
    <2>4. calls = <<>>
      BY <2>1 DEF IndInv, Consistent, InnerOK, CallPhases, NamesPhases, ContainsPhases
    <2>5. Told(stack, Len(frames) - 1, it.index, calls)
      BY <1>1 DEF LossInv, LossOK, Judging
    <2> QED
      BY <2>2, <2>3, <2>4, <2>5 DEF Told, Refused, Refuted, OutAt
  <1>2. WalkInv /\ ResultInv /\ LossInv /\ [Next]_vars => [NotForgotten]_vars
    BY <1>1
  <1> QED
    BY <1>2, Invariance, ResultsAlwaysTidy, LossAlways, PTL DEF Spec, NoFailureLost
=============================================================================
