---------------------------- MODULE StackLemmas ----------------------------
(***************************************************************************)
(* What the operations of StackOps do to a stack and why they keep its     *)
(* bookkeeping exact.  The lemmas are about stack values, so every module  *)
(* that keeps a stack can cite them for its own variable.                  *)
(***************************************************************************)
EXTENDS StackOps, FiniteSetTheorems, SequenceTheorems, TLAPS

WellFormed(stk) ==
  /\ ChainExact(stk)
  /\ LayerStartsExact(stk)
  /\ ParentsBelow(stk)
  /\ DepthsExact(stk)

\* What the bookkeeping of a stack reads of a position.
SameShape(p, q) ==
  /\ p.position_type = q.position_type
  /\ p.parent = q.parent
  /\ p.layer_start = q.layer_start
  /\ p.depth = q.depth

SameTo(s, t, n) ==
  \A i \in 1 .. n : SameShape(s.positions[i], t.positions[i])

\* Everything of a position that is fixed when it is pushed.
Kept(p, q) ==
  /\ SameShape(p, q)
  /\ p.composition_type = q.composition_type
  /\ p.value = q.value

KeptTo(s, t, n) == \A i \in 1 .. n : Kept(s.positions[i], t.positions[i])

AgreeTo(s, t, n) == \A i \in 1 .. n : t.positions[i] = s.positions[i]

\* new is stk with one more position, pos, on top.
Pushed(stk, new, pos) ==
  /\ Size(new) = Size(stk) + 1
  /\ AgreeTo(stk, new, Size(stk))
  /\ new.positions[Size(stk) + 1] = pos

-----------------------------------------------------------------------------
(***************************************************************************)
(* Separators.                                                             *)
(***************************************************************************)

\* Stacks of the same shape have the same separators.
LEMMA SameSeparators ==
  ASSUME NEW s, NEW t, NEW n \in Nat, SameTo(s, t, n)
  PROVE  /\ SeparatorsTo(s, n) = SeparatorsTo(t, n)
         /\ \A i \in Nat : IsLastSeparator(s, i, n) <=> IsLastSeparator(t, i, n)
  BY DEF SameTo, SameShape, SeparatorsTo, IsLastSeparator, IsSentinel, NoPos

\* The separators of a stack are finitely many.
LEMMA SeparatorsFinite ==
  ASSUME NEW s, NEW n \in Nat
  PROVE  /\ IsFiniteSet(SeparatorsTo(s, n))
         /\ Cardinality(SeparatorsTo(s, n)) \in Nat
  <1>1. IsFiniteSet(1 .. n)
    BY FS_Interval
  <1>2. SeparatorsTo(s, n) \in SUBSET (1 .. n)
    BY DEF SeparatorsTo
  <1>3. IsFiniteSet(SeparatorsTo(s, n))
    BY <1>1, <1>2, FS_Subset
  <1> QED
    BY <1>3, FS_CardinalityType

\* A position that is no separator adds none; a separator adds itself.
LEMMA SeparatorsStep ==
  ASSUME NEW s, NEW n \in Nat
  PROVE  /\ ~ IsSentinel(s.positions[n + 1]) =>
              SeparatorsTo(s, n + 1) = SeparatorsTo(s, n)
         /\ IsSentinel(s.positions[n + 1]) =>
              Cardinality(SeparatorsTo(s, n + 1))
                = Cardinality(SeparatorsTo(s, n)) + 1
  <1>1. ASSUME ~ IsSentinel(s.positions[n + 1])
        PROVE  SeparatorsTo(s, n + 1) = SeparatorsTo(s, n)
    BY <1>1 DEF SeparatorsTo
  <1>2. ASSUME IsSentinel(s.positions[n + 1])
        PROVE  Cardinality(SeparatorsTo(s, n + 1))
                 = Cardinality(SeparatorsTo(s, n)) + 1
    <2>1. SeparatorsTo(s, n + 1) = SeparatorsTo(s, n) \cup {n + 1}
      BY <1>2 DEF SeparatorsTo
    <2>2. n + 1 \notin SeparatorsTo(s, n)
      BY DEF SeparatorsTo
    <2>3. IsFiniteSet(SeparatorsTo(s, n))
      BY SeparatorsFinite
    <2> QED
      BY <2>1, <2>2, <2>3, FS_AddElement
  <1> QED
    BY <1>1, <1>2

\* Above the last separator there is none, so none is counted.
LEMMA SeparatorsAbove ==
  ASSUME NEW s, NEW i \in Nat, NEW n \in Nat, IsLastSeparator(s, i, n), i <= n
  PROVE  SeparatorsTo(s, n) = SeparatorsTo(s, i)
  BY DEF IsLastSeparator, SeparatorsTo
\* The links of a position are numbers.
LEMMA PositionFields ==
  ASSUME NEW V, NEW s \in StackType(V), NEW i \in 1 .. Size(s)
  PROVE  /\ s.positions[i] \in PositionType(V)
         /\ s.positions[i].parent \in Nat
         /\ s.positions[i].layer_start \in Nat \ {0}
  <1>1. s.positions \in Seq(PositionType(V))
    BY DEF StackType
  <1>2. i \in 1 .. Len(s.positions)
    BY DEF Size
  <1>3. s.positions[i] \in PositionType(V)
    BY <1>1, <1>2, ElementOfSeq
  <1> QED
    BY <1>3 DEF PositionType

-----------------------------------------------------------------------------
(***************************************************************************)
(* The operations, step by step.                                           *)
(***************************************************************************)

\* The stack of a schema validation starts well-formed.
LEMMA EmptyStackWellFormed ==
  ASSUME NEW V
  PROVE  EmptyStack \in StackType(V) /\ WellFormed(EmptyStack)
  <1>1. EmptyStack \in StackType(V)
    BY EmptySeq DEF EmptyStack, StackType, NoPos
  <1>2. Size(EmptyStack) = 0
    BY DEF EmptyStack, Size
  <1>3. SeparatorsTo(EmptyStack, 0) = {}
    BY DEF SeparatorsTo
  <1>4. Cardinality({}) = 0
    BY FS_EmptySet
  <1>5. EmptyStack.last_separator = NoPos /\ EmptyStack.depth = 0
    BY DEF EmptyStack
  <1>6. IsLastSeparator(EmptyStack, NoPos, 0)
    BY DEF IsLastSeparator, NoPos
  <1>7. WellFormed(EmptyStack)
    BY <1>2, <1>3, <1>4, <1>5, <1>6
    DEF WellFormed, ChainExact, LayerStartsExact, ParentsBelow, DepthsExact
  <1> QED
    BY <1>1, <1>7

\* A stack that changes in the outcomes of its positions only stays
\* well-formed: this is what judging and resetting positions does.
LEMMA SameShapeWellFormed ==
  ASSUME NEW V, NEW s \in StackType(V), NEW t,
         WellFormed(s), Size(t) = Size(s), SameTo(s, t, Size(s)),
         t.last_separator = s.last_separator, t.depth = s.depth
  PROVE  WellFormed(t)
  <1> DEFINE n == Size(s)
  <1>1. n \in Nat
    BY DEF Size, StackType
  <1>2. \A m \in 0 .. n : SameTo(s, t, m)
    BY <1>1 DEF SameTo
  <1>3. \A m \in 0 .. n : SeparatorsTo(s, m) = SeparatorsTo(t, m)
    BY <1>1, <1>2, SameSeparators
  <1>4. \A m \in 0 .. n, i \in Nat :
          IsLastSeparator(s, i, m) <=> IsLastSeparator(t, i, m)
    BY <1>1, <1>2, SameSeparators
  <1>5. \A i \in 1 .. n : SameShape(s.positions[i], t.positions[i])
    BY DEF SameTo
  <1>6. \A i \in 1 .. n : /\ s.positions[i].parent \in Nat
                          /\ s.positions[i].layer_start \in Nat \ {0}
    BY PositionFields
  <1>7. ChainExact(t)
    BY <1>1, <1>4, <1>5, <1>6
    DEF WellFormed, ChainExact, SameShape, IsSentinel, StackType
  <1>8. LayerStartsExact(t)
    BY <1>1, <1>4, <1>5, <1>6
    DEF WellFormed, LayerStartsExact, SameShape, IsSentinel
  <1>9. ParentsBelow(t)
    BY <1>1, <1>5, <1>6
    DEF WellFormed, ParentsBelow, SameShape, IsSentinel, NoPos
  <1>10. DepthsExact(t)
    BY <1>1, <1>3, <1>5 DEF WellFormed, DepthsExact, SameShape, IsSentinel
  <1> QED
    BY <1>7, <1>8, <1>9, <1>10 DEF WellFormed

\* What pushing a position does to the bookkeeping below it: nothing.
LEMMA PushedBelow ==
  ASSUME NEW V, NEW s \in StackType(V), NEW t, NEW pos, Pushed(s, t, pos)
  PROVE  /\ \A m \in 0 .. Size(s) : SeparatorsTo(s, m) = SeparatorsTo(t, m)
         /\ \A m \in 0 .. Size(s), i \in Nat :
              IsLastSeparator(s, i, m) <=> IsLastSeparator(t, i, m)
         /\ \A i \in 1 .. Size(s) : SameShape(s.positions[i], t.positions[i])
  <1>1. Size(s) \in Nat
    BY DEF Size, StackType
  <1>2. \A m \in 0 .. Size(s) : SameTo(s, t, m)
    BY <1>1 DEF Pushed, AgreeTo, SameTo, SameShape
  <1>3. \A m \in 0 .. Size(s) : SeparatorsTo(s, m) = SeparatorsTo(t, m)
    BY <1>1, <1>2, SameSeparators
  <1>4. \A m \in 0 .. Size(s), i \in Nat :
          IsLastSeparator(s, i, m) <=> IsLastSeparator(t, i, m)
    BY <1>1, <1>2, SameSeparators
  <1> QED
    BY <1>3, <1>4 DEF Pushed, AgreeTo, SameShape

\* push_basic and push_composed keep the stack well-formed, given a parent
\* that is NULL or a position of the stack that is no separator.
LEMMA PushWellFormed ==
  ASSUME NEW V, NEW s \in StackType(V), NEW t, NEW pos,
         WellFormed(s), Pushed(s, t, pos),
         t.last_separator = s.last_separator, t.depth = s.depth,
         ~ IsSentinel(pos), pos.layer_start = s.last_separator + 1,
         pos.depth = s.depth,
         \/ pos.parent = NoPos
         \/ /\ pos.parent \in 1 .. Size(s)
            /\ ~ IsSentinel(s.positions[pos.parent])
  PROVE  WellFormed(t)
  <1> DEFINE n == Size(s)
  <1>1. n \in Nat /\ s.last_separator \in Nat
    BY DEF Size, StackType
  <1>2. /\ \A m \in 0 .. n : SeparatorsTo(s, m) = SeparatorsTo(t, m)
        /\ \A m \in 0 .. n, i \in Nat :
             IsLastSeparator(s, i, m) <=> IsLastSeparator(t, i, m)
        /\ \A i \in 1 .. n : SameShape(s.positions[i], t.positions[i])
    BY PushedBelow
  <1>3. \A i \in 1 .. n : /\ s.positions[i].parent \in Nat
                          /\ s.positions[i].layer_start \in Nat \ {0}
    BY PositionFields
  <1>4. Size(t) = n + 1 /\ t.positions[n + 1] = pos
    BY DEF Pushed
  <1>5. IsLastSeparator(t, s.last_separator, n)
    BY <1>1, <1>2 DEF WellFormed, ChainExact
  <1>6. IsLastSeparator(t, s.last_separator, n + 1)
    BY <1>1, <1>4, <1>5 DEF IsLastSeparator
  <1>7. ChainExact(t)
    BY <1>1, <1>2, <1>3, <1>4, <1>6
    DEF WellFormed, ChainExact, SameShape, IsSentinel
  <1>8. LayerStartsExact(t)
    <2> SUFFICES ASSUME NEW i \in 1 .. n + 1
                 PROVE  IF IsSentinel(t.positions[i])
                        THEN t.positions[i].layer_start = i
                        ELSE IsLastSeparator(t, t.positions[i].layer_start - 1, i)
      BY <1>4 DEF LayerStartsExact
    <2>1. CASE i = n + 1
      BY <2>1, <1>1, <1>4, <1>6
    <2>2. CASE i \in 1 .. n
      BY <2>2, <1>1, <1>2, <1>3
      DEF WellFormed, LayerStartsExact, SameShape, IsSentinel
    <2> QED
      BY <1>1, <2>1, <2>2
  <1>9. ParentsBelow(t)
    BY <1>1, <1>2, <1>3, <1>4
    DEF WellFormed, ParentsBelow, SameShape, IsSentinel, NoPos
  <1>10. DepthsExact(t)
    <2>1. SeparatorsTo(t, n + 1) = SeparatorsTo(s, n)
      BY <1>1, <1>2, <1>4, SeparatorsStep
    <2>2. s.depth = Cardinality(SeparatorsTo(s, n))
      BY DEF WellFormed, DepthsExact
    <2>3. ASSUME NEW i \in 1 .. n + 1, ~ IsSentinel(t.positions[i])
          PROVE  t.positions[i].depth = Cardinality(SeparatorsTo(t, i))
      <3>1. CASE i = n + 1
        BY <3>1, <2>1, <2>2, <1>4
      <3>2. CASE i \in 1 .. n
        BY <3>2, <2>3, <1>1, <1>2
        DEF WellFormed, DepthsExact, SameShape, IsSentinel
      <3> QED
        BY <1>1, <3>1, <3>2
    <2> QED
      BY <2>1, <2>2, <2>3, <1>4 DEF DepthsExact
  <1> QED
    BY <1>7, <1>8, <1>9, <1>10 DEF WellFormed

\* push_separator keeps the stack well-formed: the new separator is linked to
\* the one below it and becomes the last one.
LEMMA SeparatorWellFormed ==
  ASSUME NEW V, NEW s \in StackType(V), NEW t,
         WellFormed(s), Pushed(s, t, Separator(s)),
         t.last_separator = Size(s) + 1, t.depth = s.depth + 1
  PROVE  WellFormed(t)
  <1> DEFINE n == Size(s)
  <1>1. n \in Nat /\ s.last_separator \in Nat
    BY DEF Size, StackType
  <1>2. /\ \A m \in 0 .. n : SeparatorsTo(s, m) = SeparatorsTo(t, m)
        /\ \A m \in 0 .. n, i \in Nat :
             IsLastSeparator(s, i, m) <=> IsLastSeparator(t, i, m)
        /\ \A i \in 1 .. n : SameShape(s.positions[i], t.positions[i])
    BY PushedBelow
  <1>3. \A i \in 1 .. n : /\ s.positions[i].parent \in Nat
                          /\ s.positions[i].layer_start \in Nat \ {0}
    BY PositionFields
  <1>4. /\ Size(t) = n + 1
        /\ IsSentinel(t.positions[n + 1])
        /\ t.positions[n + 1].parent = s.last_separator
        /\ t.positions[n + 1].layer_start = n + 1
    BY DEF Pushed, Separator, IsSentinel, Size
  <1>5. IsLastSeparator(t, s.last_separator, n)
    BY <1>1, <1>2 DEF WellFormed, ChainExact
  <1>6. IsLastSeparator(t, n + 1, n + 1)
    BY <1>1, <1>4 DEF IsLastSeparator
  <1>7. ChainExact(t)
    <2> SUFFICES ASSUME NEW i \in 1 .. n + 1, IsSentinel(t.positions[i])
                 PROVE  IsLastSeparator(t, t.positions[i].parent, i - 1)
      BY <1>4, <1>6 DEF ChainExact
    <2>1. CASE i = n + 1
      BY <2>1, <1>1, <1>4, <1>5
    <2>2. CASE i \in 1 .. n
      BY <2>2, <1>1, <1>2, <1>3
      DEF WellFormed, ChainExact, SameShape, IsSentinel
    <2> QED
      BY <1>1, <2>1, <2>2
  <1>8. LayerStartsExact(t)
    BY <1>1, <1>2, <1>3, <1>4
    DEF WellFormed, LayerStartsExact, SameShape, IsSentinel
  <1>9. ParentsBelow(t)
    BY <1>1, <1>2, <1>3, <1>4
    DEF WellFormed, ParentsBelow, SameShape, IsSentinel, NoPos
  <1>10. DepthsExact(t)
    <2>1. Cardinality(SeparatorsTo(t, n + 1)) = s.depth + 1
      BY <1>1, <1>2, <1>4, SeparatorsStep DEF WellFormed, DepthsExact
    <2> QED
      BY <2>1, <1>1, <1>2, <1>4
      DEF WellFormed, DepthsExact, SameShape, IsSentinel
  <1> QED
    BY <1>7, <1>8, <1>9, <1>10 DEF WellFormed

\* Cutting a well-formed stack below its last separator, as layer_remove does,
\* leaves a well-formed stack: the separator's parent is the last separator of
\* the rest, and one layer less is open.
LEMMA RemoveWellFormed ==
  ASSUME NEW V, NEW s \in StackType(V), NEW t,
         WellFormed(s), s.last_separator # NoPos,
         Size(t) = s.last_separator - 1, SameTo(s, t, Size(t)),
         t.last_separator = s.positions[s.last_separator].parent,
         t.depth = s.depth - 1
  PROVE  WellFormed(t)
  <1> DEFINE n == Size(s)
             l == s.last_separator
  <1>1. /\ n \in Nat
        /\ l \in 1 .. n
        /\ IsSentinel(s.positions[l])
        /\ IsLastSeparator(s, l, n)
    BY DEF Size, StackType, WellFormed, ChainExact, IsLastSeparator, NoPos
  <1>2. Size(t) = l - 1 /\ l - 1 \in Nat
    BY <1>1
  <1>3. \A m \in 0 .. l - 1 : SameTo(s, t, m)
    BY <1>1, <1>2 DEF SameTo
  <1>4. \A m \in 0 .. l - 1 : SeparatorsTo(s, m) = SeparatorsTo(t, m)
    BY <1>1, <1>3, SameSeparators
  <1>5. \A m \in 0 .. l - 1, i \in Nat :
          IsLastSeparator(s, i, m) <=> IsLastSeparator(t, i, m)
    BY <1>1, <1>3, SameSeparators
  <1>6. \A i \in 1 .. l - 1 : SameShape(s.positions[i], t.positions[i])
    BY <1>2 DEF SameTo
  <1>7. \A i \in 1 .. n : /\ s.positions[i].parent \in Nat
                          /\ s.positions[i].layer_start \in Nat \ {0}
    BY PositionFields
  <1>8. ChainExact(t)
    <2>1. IsLastSeparator(s, s.positions[l].parent, l - 1)
      BY <1>1 DEF WellFormed, ChainExact
    <2>2. IsLastSeparator(t, t.last_separator, l - 1)
      BY <2>1, <1>1, <1>2, <1>5, <1>7
    <2>3. ASSUME NEW i \in 1 .. l - 1, IsSentinel(t.positions[i])
          PROVE  IsLastSeparator(t, t.positions[i].parent, i - 1)
      BY <2>3, <1>1, <1>5, <1>6, <1>7
      DEF WellFormed, ChainExact, SameShape, IsSentinel
    <2> QED
      BY <2>2, <2>3, <1>2 DEF ChainExact
  <1>9. LayerStartsExact(t)
    BY <1>1, <1>2, <1>5, <1>6, <1>7
    DEF WellFormed, LayerStartsExact, SameShape, IsSentinel
  <1>10. ParentsBelow(t)
    BY <1>1, <1>2, <1>6, <1>7
    DEF WellFormed, ParentsBelow, SameShape, IsSentinel, NoPos
  <1>11. DepthsExact(t)
    <2>1. SeparatorsTo(s, n) = SeparatorsTo(s, l)
      BY <1>1, SeparatorsAbove
    <2>2. Cardinality(SeparatorsTo(s, l)) = Cardinality(SeparatorsTo(s, l - 1)) + 1
      BY <1>1, <1>2, SeparatorsStep
    <2>3. Cardinality(SeparatorsTo(s, l - 1)) \in Nat
      BY <1>2, SeparatorsFinite
    <2>4. t.depth = Cardinality(SeparatorsTo(t, l - 1))
      BY <2>1, <2>2, <2>3, <1>2, <1>4 DEF WellFormed, DepthsExact
    <2> QED
      BY <2>4, <1>1, <1>2, <1>4, <1>6
      DEF WellFormed, DepthsExact, SameShape, IsSentinel
  <1> QED
    BY <1>8, <1>9, <1>10, <1>11 DEF WellFormed
-----------------------------------------------------------------------------
(***************************************************************************)
(* The operators of StackOps: their results are stacks again, and they are *)
(* the steps above.                                                        *)
(***************************************************************************)

\* Replacing the array.
LEMMA ReplacePositions ==
  ASSUME NEW V, NEW s \in StackType(V), NEW ps
  PROVE  [s EXCEPT !.positions = ps]
           = [positions |-> ps, last_separator |-> s.last_separator,
              depth |-> s.depth]
  BY DEF StackType

\* Appending a position to the array.
LEMMA AppendPosition ==
  ASSUME NEW V, NEW s \in StackType(V), NEW pos \in PositionType(V),
         NEW t, t = [s EXCEPT !.positions = Append(@, pos)]
  PROVE  /\ t \in StackType(V)
         /\ Pushed(s, t, pos)
         /\ t.last_separator = s.last_separator
         /\ t.depth = s.depth
  <1>1. s.positions \in Seq(PositionType(V))
    BY DEF StackType
  <1>2. t = [positions |-> Append(s.positions, pos),
             last_separator |-> s.last_separator, depth |-> s.depth]
    BY ReplacePositions
  <1>3. /\ Append(s.positions, pos) \in Seq(PositionType(V))
        /\ Len(Append(s.positions, pos)) = Len(s.positions) + 1
        /\ \A i \in 1 .. Len(s.positions) :
             Append(s.positions, pos)[i] = s.positions[i]
        /\ Append(s.positions, pos)[Len(s.positions) + 1] = pos
    BY <1>1, AppendProperties
  <1>4. t \in StackType(V)
    BY <1>1, <1>2, <1>3 DEF StackType
  <1>5. Pushed(s, t, pos)
    BY <1>2, <1>3 DEF Pushed, Size, AgreeTo
  <1> QED
    BY <1>2, <1>4, <1>5

\* What the push functions of one layer share.
LEMMA PushKeeps ==
  ASSUME NEW V, NEW s \in StackType(V), WellFormed(s),
         NEW v \in V, NEW type \in {"BASIC", "COMPOSED"},
         NEW comp \in CompositionTypes, NEW p \in Nat,
         p = NoPos \/ (p \in 1 .. Size(s) /\ ~ IsSentinel(s.positions[p])),
         NEW pos, pos = Position(s, type, comp, v, p),
         NEW t, t = [s EXCEPT !.positions = Append(@, pos)]
  PROVE  /\ t \in StackType(V)
         /\ WellFormed(t)
         /\ Pushed(s, t, pos)
         /\ ~ IsSentinel(pos)
         /\ pos.depth = s.depth
         /\ t.last_separator = s.last_separator
         /\ t.depth = s.depth
  <1>1. FreshOutcome \in OutcomeType
    BY DEF FreshOutcome, OutcomeType, Results, InvalidReasons
  <1>2. s.last_separator \in Nat /\ s.depth \in Nat
    BY DEF StackType
  <1>3. pos \in PositionType(V)
    BY <1>1, <1>2 DEF Position, PositionType, PositionTypes
  <1>4. /\ t \in StackType(V)
        /\ Pushed(s, t, pos)
        /\ t.last_separator = s.last_separator
        /\ t.depth = s.depth
    BY <1>3, AppendPosition
  <1>5. /\ ~ IsSentinel(pos)
        /\ pos.layer_start = s.last_separator + 1
        /\ pos.depth = s.depth
        /\ pos.parent = p
    BY DEF Position, IsSentinel
  <1>6. \/ pos.parent = NoPos
        \/ pos.parent \in 1 .. Size(s) /\ ~ IsSentinel(s.positions[pos.parent])
    BY <1>5
  <1>7. WellFormed(t)
    BY <1>4, <1>5, <1>6, PushWellFormed
  <1> QED
    BY <1>4, <1>5, <1>7

\* push_basic keeps a stack a stack and its bookkeeping exact, for a parent
\* that is NULL or a position of the stack that is no separator.
LEMMA PushBasicKeeps ==
  ASSUME NEW V, NEW s \in StackType(V), WellFormed(s), NEW v \in V, NEW p \in Nat,
         p = NoPos \/ (p \in 1 .. Size(s) /\ ~ IsSentinel(s.positions[p])),
         NEW t, t = PushBasic(s, v, p)
  PROVE  /\ t \in StackType(V)
         /\ WellFormed(t)
         /\ \E pos : Pushed(s, t, pos) /\ ~ IsSentinel(pos) /\ pos.depth = s.depth
         /\ t.last_separator = s.last_separator
         /\ t.depth = s.depth
  <1>1. "NONE" \in CompositionTypes
    BY DEF CompositionTypes
  <1>2. PICK pos : pos = Position(s, "BASIC", "NONE", v, p)
    OBVIOUS
  <1>3. t = [s EXCEPT !.positions = Append(@, pos)]
    BY <1>2 DEF PushBasic
  <1>4. "BASIC" \in {"BASIC", "COMPOSED"}
    OBVIOUS
  <1>5. /\ t \in StackType(V)
        /\ WellFormed(t)
        /\ Pushed(s, t, pos) /\ ~ IsSentinel(pos) /\ pos.depth = s.depth
        /\ t.last_separator = s.last_separator
        /\ t.depth = s.depth
    BY <1>1, <1>2, <1>3, <1>4, PushKeeps
  <1> QED
    BY <1>5

\* The same for push_composed and every composition type but NONE.
LEMMA PushComposedKeeps ==
  ASSUME NEW V, NEW s \in StackType(V), WellFormed(s), NEW v \in V, NEW p \in Nat,
         NEW comp \in CompositionTypes,
         p = NoPos \/ (p \in 1 .. Size(s) /\ ~ IsSentinel(s.positions[p])),
         NEW t, t = PushComposed(s, v, p, comp)
  PROVE  /\ t \in StackType(V)
         /\ WellFormed(t)
         /\ \E pos : Pushed(s, t, pos) /\ ~ IsSentinel(pos) /\ pos.depth = s.depth
         /\ t.last_separator = s.last_separator
         /\ t.depth = s.depth
  <1>1. "COMPOSED" \in {"BASIC", "COMPOSED"}
    OBVIOUS
  <1>2. PICK pos : pos = Position(s, "COMPOSED", comp, v, p)
    OBVIOUS
  <1>3. t = [s EXCEPT !.positions = Append(@, pos)]
    BY <1>2 DEF PushComposed
  <1> QED
    BY <1>1, <1>2, <1>3, PushKeeps

\* push_separator keeps the bookkeeping exact: it links the new separator to
\* the one below it and counts the layer it opens.
LEMMA PushSeparatorKeeps ==
  ASSUME NEW V, NEW s \in StackType(V), WellFormed(s),
         NEW t, t = PushSeparator(s)
  PROVE  /\ t \in StackType(V)
         /\ WellFormed(t)
         /\ Pushed(s, t, Separator(s))
         /\ t.last_separator = Size(s) + 1
         /\ t.depth = s.depth + 1
  <1> DEFINE pos == Separator(s)
  <1>1. FreshOutcome \in OutcomeType
    BY DEF FreshOutcome, OutcomeType, Results, InvalidReasons
  <1>2. s.last_separator \in Nat /\ s.depth \in Nat /\ Len(s.positions) \in Nat
    BY DEF StackType
  <1>3. pos \in PositionType(V)
    BY <1>1, <1>2 DEF Separator, PositionType, PositionTypes, CompositionTypes
  <1>4. s.positions \in Seq(PositionType(V))
    BY DEF StackType
  <1>5. /\ Append(s.positions, pos) \in Seq(PositionType(V))
        /\ Len(Append(s.positions, pos)) = Len(s.positions) + 1
        /\ \A i \in 1 .. Len(s.positions) :
             Append(s.positions, pos)[i] = s.positions[i]
        /\ Append(s.positions, pos)[Len(s.positions) + 1] = pos
    BY <1>3, <1>4, AppendProperties
  <1>6. /\ t.positions = Append(s.positions, pos)
        /\ t.last_separator = Size(s) + 1
        /\ t.depth = s.depth + 1
    BY DEF PushSeparator
  <1>7. t \in StackType(V)
    BY <1>2, <1>5 DEF PushSeparator, StackType, Size
  <1>8. Pushed(s, t, pos)
    BY <1>5, <1>6 DEF Pushed, Size, AgreeTo
  <1>9. WellFormed(t)
    BY <1>6, <1>8, SeparatorWellFormed
  <1> QED
    BY <1>6, <1>7, <1>8, <1>9

\* layer_remove keeps the bookkeeping exact: what stays is the stack as it
\* was before the removed layer was opened.
LEMMA LayerRemoveKeeps ==
  ASSUME NEW V, NEW s \in StackType(V), WellFormed(s),
         NEW t, t = LayerRemove(s)
  PROVE  /\ t \in StackType(V)
         /\ WellFormed(t)
         /\ s.last_separator # NoPos =>
              /\ s.last_separator \in 1 .. Size(s)
              /\ Size(t) = s.last_separator - 1
              /\ AgreeTo(s, t, Size(t))
              /\ t.depth = s.depth - 1
         /\ s.last_separator = NoPos => t = EmptyStack
  <1> DEFINE l == s.last_separator
  <1>1. s.positions \in Seq(PositionType(V)) /\ l \in Nat /\ s.depth \in Nat
    BY DEF StackType
  <1>2. CASE l # NoPos
    <2>1. l \in 1 .. Size(s) /\ IsSentinel(s.positions[l])
      BY <1>2, <1>1 DEF WellFormed, ChainExact, IsLastSeparator, NoPos
    <2>2. l - 1 \in Int /\ \A i \in 1 .. l - 1 : s.positions[i] \in PositionType(V)
      BY <1>1, <2>1, ElementOfSeq DEF Size
    <2>3. /\ SubSeq(s.positions, 1, l - 1) \in Seq(PositionType(V))
          /\ Len(SubSeq(s.positions, 1, l - 1)) = l - 1
          /\ \A i \in 1 .. l - 1 :
               SubSeq(s.positions, 1, l - 1)[i] = s.positions[i]
      BY <1>1, <2>1, <2>2, SubSeqProperties
    <2>4. s.positions[l].parent \in Nat
      BY <2>1, PositionFields
    <2>5. s.depth # 0
      <3>1. l \in SeparatorsTo(s, Size(s))
        BY <2>1 DEF SeparatorsTo
      <3>2. IsFiniteSet(SeparatorsTo(s, Size(s)))
        BY <1>1, SeparatorsFinite DEF Size
      <3> QED
        BY <3>1, <3>2, FS_EmptySet DEF WellFormed, DepthsExact
    <2>6. t = [positions |-> SubSeq(s.positions, 1, l - 1),
               last_separator |-> s.positions[l].parent, depth |-> s.depth - 1]
      BY <1>2 DEF LayerRemove
    <2>7. t \in StackType(V)
      BY <1>1, <2>3, <2>4, <2>5, <2>6 DEF StackType
    <2>8. Size(t) = l - 1 /\ AgreeTo(s, t, Size(t))
      BY <2>3, <2>6 DEF Size, AgreeTo
    <2>9. WellFormed(t)
      <3>1. t.last_separator = s.positions[l].parent /\ t.depth = s.depth - 1
        BY <2>6
      <3>2. SameTo(s, t, Size(t))
        BY <2>8 DEF AgreeTo, SameTo, SameShape
      <3> QED
        BY <1>2, <2>8, <3>1, <3>2, RemoveWellFormed
    <2>10. t.depth = s.depth - 1
      BY <2>6
    <2> QED
      BY <1>2, <2>1, <2>7, <2>8, <2>9, <2>10
  <1>3. CASE l = NoPos
    <2>1. t = EmptyStack
      BY <1>1, <1>3 DEF LayerRemove, EmptyStack, StackType
    <2> QED
      BY <2>1, <1>3, EmptyStackWellFormed
  <1> QED
    BY <1>2, <1>3

\* layer_reset_positions keeps the bookkeeping exact: it clears outcomes only.
LEMMA LayerResetKeeps ==
  ASSUME NEW V, NEW s \in StackType(V), WellFormed(s),
         NEW t, t = LayerResetPositions(s)
  PROVE  /\ t \in StackType(V)
         /\ WellFormed(t)
         /\ Size(t) = Size(s)
         /\ KeptTo(s, t, Size(s))
         /\ \A i \in (1 .. Size(s)) \ LayerPositions(s) :
              t.positions[i] = s.positions[i]
         /\ t.last_separator = s.last_separator
         /\ t.depth = s.depth
  <1> DEFINE Cleared(i) == IF i \in LayerPositions(s)
                           THEN [s.positions[i] EXCEPT !.out = FreshOutcome]
                           ELSE s.positions[i]
  <1>1. /\ s.positions \in Seq(PositionType(V))
        /\ Size(s) \in Nat
        /\ DOMAIN s.positions = 1 .. Size(s)
    BY LenProperties DEF StackType, Size
  <1>2. FreshOutcome \in OutcomeType
    BY DEF FreshOutcome, OutcomeType, Results, InvalidReasons
  <1>3. t = [positions |-> [i \in 1 .. Size(s) |-> Cleared(i)],
             last_separator |-> s.last_separator, depth |-> s.depth]
    BY <1>1 DEF LayerResetPositions, StackType
  <1>4. ASSUME NEW i \in 1 .. Size(s)
        PROVE  Cleared(i) \in PositionType(V) /\ Kept(s.positions[i], Cleared(i))
    <2>1. s.positions[i] \in PositionType(V)
      BY PositionFields
    <2> QED
      BY <2>1, <1>2 DEF PositionType, Kept, SameShape
  <1>5. t.positions \in [1 .. Size(s) -> PositionType(V)]
    BY <1>3, <1>4
  <1>6. t.positions \in Seq(PositionType(V)) /\ Len(t.positions) = Size(s)
    BY <1>1, <1>5
  <1>7. t \in StackType(V)
    BY <1>1, <1>3, <1>6 DEF StackType
  <1>8. Size(t) = Size(s) /\ KeptTo(s, t, Size(s))
    BY <1>3, <1>4, <1>6 DEF Size, KeptTo
  <1>9. WellFormed(t)
    <2>1. SameTo(s, t, Size(s))
      BY <1>8 DEF KeptTo, Kept, SameTo
    <2> QED
      BY <1>3, <1>8, <2>1, SameShapeWellFormed
  <1>10. \A i \in (1 .. Size(s)) \ LayerPositions(s) :
           t.positions[i] = s.positions[i]
    BY <1>3
  <1> QED
    BY <1>3, <1>7, <1>8, <1>9, <1>10
-----------------------------------------------------------------------------
(***************************************************************************)
(* The layers of a stack.                                                  *)
(***************************************************************************)

\* Positions of the same depth have the same separators below them, so their
\* layer starts at the same place.
LEMMA SameDepthSameStart ==
  ASSUME NEW V, NEW s \in StackType(V), WellFormed(s), NEW d,
         NEW i \in PositionsAt(s, d), NEW j \in PositionsAt(s, d), i <= j
  PROVE  /\ SeparatorsTo(s, i) = SeparatorsTo(s, j)
         /\ s.positions[i].layer_start = s.positions[j].layer_start
  <1> DEFINE below == s.positions[j].layer_start - 1
  <1>1. /\ Size(s) \in Nat
        /\ i \in 1 .. Size(s)
        /\ j \in 1 .. Size(s)
        /\ ~ IsSentinel(s.positions[i])
        /\ ~ IsSentinel(s.positions[j])
    BY DEF PositionsAt, Size, StackType
  <1>2. SeparatorsTo(s, i) = SeparatorsTo(s, j)
    <2>1. Cardinality(SeparatorsTo(s, i)) = Cardinality(SeparatorsTo(s, j))
      BY <1>1 DEF WellFormed, DepthsExact, PositionsAt
    <2>2. IsFiniteSet(SeparatorsTo(s, j))
      BY <1>1, SeparatorsFinite
    <2>3. SeparatorsTo(s, i) \in SUBSET SeparatorsTo(s, j)
      BY <1>1 DEF SeparatorsTo
    <2> QED
      BY <2>1, <2>2, <2>3, FS_Subset
  <1>3. /\ s.positions[i].layer_start - 1 \in Nat
        /\ below \in Nat
    BY <1>1, PositionFields
  <1>4. /\ IsLastSeparator(s, s.positions[i].layer_start - 1, i)
        /\ IsLastSeparator(s, below, j)
    BY <1>1 DEF WellFormed, LayerStartsExact
  <1>5. below = NoPos \/ below \in SeparatorsTo(s, i)
    BY <1>2, <1>4 DEF IsLastSeparator, SeparatorsTo
  <1>6. IsLastSeparator(s, below, i)
    BY <1>1, <1>3, <1>4, <1>5 DEF IsLastSeparator, SeparatorsTo
  <1>7. s.positions[i].layer_start - 1 = below
    BY <1>1, <1>3, <1>4, <1>6 DEF IsLastSeparator, NoPos
  <1>8. /\ s.positions[i].layer_start \in Nat
        /\ s.positions[j].layer_start \in Nat
    BY <1>1, PositionFields
  <1> QED
    BY <1>2, <1>7, <1>8

\* A layer that is not empty begins at the layer start of its positions.
LEMMA LayerBegins ==
  ASSUME NEW V, NEW s \in StackType(V), WellFormed(s), NEW d,
         NEW i \in PositionsAt(s, d)
  PROVE  /\ s.positions[i].layer_start \in PositionsAt(s, d)
         /\ s.positions[i].layer_start <= i
         /\ s.positions[i].layer_start .. i \subseteq PositionsAt(s, d)
  <1> DEFINE start == s.positions[i].layer_start
  <1>1. /\ Size(s) \in Nat
        /\ i \in 1 .. Size(s)
        /\ ~ IsSentinel(s.positions[i])
        /\ s.positions[i].depth = d
    BY DEF PositionsAt, Size, StackType
  <1>2. start \in Nat \ {0}
    BY <1>1, PositionFields
  <1>3. IsLastSeparator(s, start - 1, i)
    BY <1>1 DEF WellFormed, LayerStartsExact
  <1>4. start <= i
    BY <1>1, <1>2, <1>3 DEF IsLastSeparator, NoPos
  <1>5. ASSUME NEW k \in start .. i
        PROVE  k \in PositionsAt(s, d)
    <2>1. k \in 1 .. Size(s) /\ k <= i
      BY <1>1, <1>2, <1>5
    <2>2. ~ IsSentinel(s.positions[k])
      BY <1>2, <1>3, <1>5 DEF IsLastSeparator
    <2>3. SeparatorsTo(s, k) = SeparatorsTo(s, i)
      BY <1>1, <1>2, <1>3, <1>5, <2>1 DEF IsLastSeparator, SeparatorsTo
    <2>4. s.positions[k].depth = s.positions[i].depth
      BY <1>1, <2>1, <2>2, <2>3 DEF WellFormed, DepthsExact
    <2> QED
      BY <1>1, <2>1, <2>2, <2>4 DEF PositionsAt
  <1> QED
    BY <1>1, <1>2, <1>4, <1>5

\* The entries of a layer are read from positions of the stack.
LEMMA EntriesAreLive ==
  ASSUME NEW V, NEW s \in StackType(V), WellFormed(s), NEW d
  PROVE  LET at == PositionsAt(s, d)
         IN  /\ IsFiniteSet(at)
             /\ Cardinality(at) \in Nat
             /\ at # {} => Lowest(at) \in at /\ \A j \in at : Lowest(at) <= j
             /\ \A k \in 1 .. Cardinality(at) : Lowest(at) + k - 1 \in 1 .. Size(s)
  <1> DEFINE at == PositionsAt(s, d)
             n == Size(s)
  <1>1. n \in Nat
    BY DEF Size, StackType
  <1>2. IsFiniteSet(1 .. n) /\ at \in SUBSET (1 .. n)
    BY <1>1, FS_Interval DEF PositionsAt
  <1>3. IsFiniteSet(at) /\ Cardinality(at) \in Nat
    BY <1>2, FS_Subset, FS_CardinalityType
  <1>4. ASSUME at # {}
        PROVE  Lowest(at) \in at /\ \A j \in at : Lowest(at) <= j
    <2>1. PICK i \in at : TRUE
      BY <1>4
    <2> DEFINE start == s.positions[i].layer_start
    <2>2. start \in at
      BY LayerBegins
    <2>3. ASSUME NEW j \in at
          PROVE  start <= j
      <3>1. s.positions[j].layer_start <= j
        BY LayerBegins
      <3>2. i <= j \/ j <= i
        BY <1>1 DEF PositionsAt
      <3>3. s.positions[j].layer_start = start
        BY <3>2, SameDepthSameStart
      <3> QED
        BY <3>1, <3>3
    <2> HIDE DEF at
    <2> QED
      BY <2>2, <2>3 DEF Lowest
  <1>5. ASSUME NEW k \in 1 .. Cardinality(at)
        PROVE  Lowest(at) + k - 1 \in 1 .. n
    <2>1. at # {}
      BY <1>5, FS_EmptySet
    <2>2. Lowest(at) \in 1 .. n /\ \A j \in at : Lowest(at) <= j
      BY <2>1, <1>2, <1>4
    <2>3. at \in SUBSET (Lowest(at) .. n)
      BY <1>1, <1>2, <2>2
    <2>4. /\ IsFiniteSet(Lowest(at) .. n)
          /\ Cardinality(Lowest(at) .. n) = n - Lowest(at) + 1
      BY <1>1, <2>2, FS_Interval
    <2>5. Cardinality(at) <= n - Lowest(at) + 1
      BY <2>3, <2>4, FS_Subset
    <2> HIDE DEF at, n
    <2> QED
      BY <1>1, <1>3, <1>5, <2>2, <2>5
  <1> QED
    BY <1>3, <1>4, <1>5
-----------------------------------------------------------------------------
(***************************************************************************)
(* What the operations do to the layers.                                   *)
(***************************************************************************)

\* The length of a function on an initial segment of the naturals.
LEMMA FunctionLength ==
  ASSUME NEW n \in Nat, NEW f, f = [k \in 1 .. n |-> f[k]]
  PROVE  Len(f) = n
  <1>1. f \in [1 .. n -> {f[k] : k \in 1 .. n}]
    OBVIOUS
  <1>2. f \in Seq({f[k] : k \in 1 .. n}) /\ DOMAIN f = 1 .. n
    BY <1>1
  <1> QED
    BY <1>2, LenProperties

\* A stack has one layer more than separators, and the entries of a layer are
\* those of its positions.
LEMMA LayersRead ==
  ASSUME NEW V, NEW s \in StackType(V), WellFormed(s)
  PROVE  /\ Len(LayersOf(s)) = s.depth + 1
         /\ \A d \in 1 .. s.depth + 1 : LayersOf(s)[d] = EntriesAt(s, d - 1)
         /\ \A d : /\ Len(EntriesAt(s, d)) = Cardinality(PositionsAt(s, d))
                   /\ \A k \in 1 .. Cardinality(PositionsAt(s, d)) :
                        EntriesAt(s, d)[k]
                          = Entry(s.positions[Lowest(PositionsAt(s, d)) + k - 1])
  <1>1. s.depth \in Nat
    BY DEF StackType
  <1>2. Len(LayersOf(s)) = s.depth + 1
    <2>1. LayersOf(s) = [d \in 1 .. s.depth + 1 |-> LayersOf(s)[d]]
      BY DEF LayersOf
    <2> QED
      BY <1>1, <2>1, FunctionLength
  <1>3. ASSUME NEW d
        PROVE  Len(EntriesAt(s, d)) = Cardinality(PositionsAt(s, d))
    <2>1. Cardinality(PositionsAt(s, d)) \in Nat
      BY EntriesAreLive
    <2>2. EntriesAt(s, d) = [k \in 1 .. Cardinality(PositionsAt(s, d)) |->
                               EntriesAt(s, d)[k]]
      BY DEF EntriesAt
    <2> QED
      BY <2>1, <2>2, FunctionLength
  <1>4. \A d \in 1 .. s.depth + 1 : LayersOf(s)[d] = EntriesAt(s, d - 1)
    BY DEF LayersOf
  <1>5. \A d : \A k \in 1 .. Cardinality(PositionsAt(s, d)) :
          EntriesAt(s, d)[k]
            = Entry(s.positions[Lowest(PositionsAt(s, d)) + k - 1])
    BY DEF EntriesAt
  <1> QED
    BY <1>2, <1>3, <1>4, <1>5

\* A layer with the same positions in both stacks has the same entries, if the
\* positions are the same.
LEMMA SameLayer ==
  ASSUME NEW V, NEW s \in StackType(V), WellFormed(s),
         NEW t \in StackType(V), WellFormed(t), NEW d,
         PositionsAt(s, d) = PositionsAt(t, d),
         \/ AgreeTo(s, t, Size(s))
         \/ AgreeTo(s, t, Size(t))
  PROVE  EntriesAt(t, d) = EntriesAt(s, d)
  <1> DEFINE at == PositionsAt(s, d)
  <1>1. \A k \in 1 .. Cardinality(at) : /\ Lowest(at) + k - 1 \in 1 .. Size(s)
                                        /\ Lowest(at) + k - 1 \in 1 .. Size(t)
    BY EntriesAreLive
  <1>2. \A k \in 1 .. Cardinality(at) :
          t.positions[Lowest(at) + k - 1] = s.positions[Lowest(at) + k - 1]
    BY <1>1 DEF AgreeTo
  <1> QED
    BY <1>2 DEF EntriesAt

\* A push adds one entry at the end of the top layer and changes no other.
LEMMA PushLayers ==
  ASSUME NEW V, NEW s \in StackType(V), WellFormed(s),
         NEW t \in StackType(V), WellFormed(t),
         Size(t) = Size(s) + 1, AgreeTo(s, t, Size(s)),
         ~ IsSentinel(t.positions[Size(s) + 1]),
         t.positions[Size(s) + 1].depth = s.depth, t.depth = s.depth
  PROVE  LET a == LayersOf(s)
             b == LayersOf(t)
             n == Len(LayersOf(s))
         IN  /\ Len(b) = n
             /\ \A d \in 1 .. n - 1 : b[d] = a[d]
             /\ Len(b[n]) = Len(a[n]) + 1
             /\ \A k \in 1 .. Len(a[n]) : b[n][k] = a[n][k]
  <1> DEFINE top == PositionsAt(s, s.depth)
             new == PositionsAt(t, s.depth)
  <1>1. Size(s) \in Nat /\ s.depth \in Nat
    BY DEF Size, StackType
  <1>2. Len(LayersOf(s)) = s.depth + 1 /\ Len(LayersOf(t)) = s.depth + 1
    BY LayersRead
  <1>3. ASSUME NEW d \in 1 .. s.depth
        PROVE  LayersOf(t)[d] = LayersOf(s)[d]
    <2>1. d - 1 # s.depth /\ d \in 1 .. s.depth + 1
      BY <1>1
    <2>2. PositionsAt(s, d - 1) = PositionsAt(t, d - 1)
      BY <1>1, <2>1 DEF PositionsAt, AgreeTo
    <2>3. EntriesAt(t, d - 1) = EntriesAt(s, d - 1)
      BY <2>2, SameLayer
    <2> QED
      BY <2>1, <2>3, LayersRead
  <1>4. new = top \cup {Size(s) + 1}
    BY <1>1 DEF PositionsAt, AgreeTo
  <1>5. Size(s) + 1 \notin top
    BY <1>1 DEF PositionsAt
  <1>6. IsFiniteSet(top) /\ Cardinality(top) \in Nat
    BY EntriesAreLive
  <1>7. Cardinality(new) = Cardinality(top) + 1
    BY <1>4, <1>5, <1>6, FS_AddElement
  <1>8. ASSUME NEW k \in 1 .. Cardinality(top)
        PROVE  EntriesAt(t, s.depth)[k] = EntriesAt(s, s.depth)[k]
    <2>1. /\ Lowest(top) \in top
          /\ \A j \in top : Lowest(top) <= j
          /\ Lowest(top) + k - 1 \in 1 .. Size(s)
      <3>1. top # {}
        BY <1>8, FS_EmptySet
      <3> QED
        BY <3>1, EntriesAreLive
    <2>2. /\ Lowest(new) \in new
          /\ \A j \in new : Lowest(new) <= j
      <3>1. new # {}
        BY <1>4
      <3> QED
        BY <3>1, EntriesAreLive
    <2>3. Lowest(top) = Lowest(new)
      <3>1. Lowest(new) <= Lowest(top) /\ Lowest(top) \in 1 .. Size(s)
        BY <1>4, <2>1, <2>2 DEF PositionsAt
      <3>2. Lowest(new) \in top
        BY <1>1, <1>4, <2>2, <3>1
      <3>3. Lowest(top) <= Lowest(new) /\ Lowest(new) \in 1 .. Size(s)
        BY <2>1, <3>2 DEF PositionsAt
      <3> HIDE DEF top, new
      <3> QED
        BY <1>1, <3>1, <3>3
    <2>4. k \in 1 .. Cardinality(new)
      BY <1>6, <1>7
    <2>5. t.positions[Lowest(top) + k - 1] = s.positions[Lowest(top) + k - 1]
      BY <2>1 DEF AgreeTo
    <2>6. /\ EntriesAt(t, s.depth)[k] = Entry(t.positions[Lowest(new) + k - 1])
          /\ EntriesAt(s, s.depth)[k] = Entry(s.positions[Lowest(top) + k - 1])
      BY <2>4, LayersRead
    <2> QED
      BY <2>3, <2>5, <2>6
  <1>9. /\ LayersOf(s)[s.depth + 1] = EntriesAt(s, s.depth)
        /\ LayersOf(t)[s.depth + 1] = EntriesAt(t, s.depth)
    <2>1. s.depth + 1 \in 1 .. s.depth + 1 /\ (s.depth + 1) - 1 = s.depth
      BY <1>1
    <2>2. /\ LayersOf(s)[s.depth + 1] = EntriesAt(s, (s.depth + 1) - 1)
          /\ LayersOf(t)[s.depth + 1] = EntriesAt(t, (s.depth + 1) - 1)
      BY <2>1, LayersRead
    <2> QED
      BY <2>1, <2>2
  <1>10. /\ Len(EntriesAt(s, s.depth)) = Cardinality(top)
         /\ Len(EntriesAt(t, s.depth)) = Cardinality(new)
    BY LayersRead
  <1> HIDE DEF top, new
  <1> QED
    BY <1>1, <1>2, <1>3, <1>7, <1>8, <1>9, <1>10

\* A separator opens an empty layer above the others.
LEMMA SeparatorLayers ==
  ASSUME NEW V, NEW s \in StackType(V), WellFormed(s),
         NEW t \in StackType(V), WellFormed(t),
         Size(t) = Size(s) + 1, AgreeTo(s, t, Size(s)),
         IsSentinel(t.positions[Size(s) + 1]), t.depth = s.depth + 1
  PROVE  /\ Len(LayersOf(t)) = Len(LayersOf(s)) + 1
         /\ \A d \in 1 .. Len(LayersOf(s)) : LayersOf(t)[d] = LayersOf(s)[d]
         /\ LayersOf(t)[Len(LayersOf(s)) + 1] = <<>>
  <1>1. Size(s) \in Nat /\ s.depth \in Nat
    BY DEF Size, StackType
  <1>2. Len(LayersOf(s)) = s.depth + 1 /\ Len(LayersOf(t)) = s.depth + 2
    <2>1. s.depth + 1 + 1 = s.depth + 2
      BY <1>1
    <2> QED
      BY <2>1, LayersRead
  <1>3. \A d : PositionsAt(t, d) = PositionsAt(s, d)
    BY <1>1 DEF PositionsAt, AgreeTo
  <1>4. ASSUME NEW d \in 1 .. s.depth + 1
        PROVE  LayersOf(t)[d] = LayersOf(s)[d]
    <2>1. EntriesAt(t, d - 1) = EntriesAt(s, d - 1)
      BY <1>3, SameLayer
    <2>2. d \in 1 .. t.depth + 1
      BY <1>1
    <2> QED
      BY <2>1, <2>2, LayersRead
  <1>5. LayersOf(t)[s.depth + 2] = <<>>
    <2>1. PositionsAt(s, s.depth + 1) = {}
      <3> SUFFICES ASSUME NEW i \in PositionsAt(s, s.depth + 1)
                   PROVE  FALSE
        OBVIOUS
      <3>1. /\ i \in 1 .. Size(s)
            /\ Cardinality(SeparatorsTo(s, i)) = s.depth + 1
        BY DEF PositionsAt, WellFormed, DepthsExact
      <3>2. SeparatorsTo(s, i) \in SUBSET SeparatorsTo(s, Size(s))
        BY <1>1, <3>1 DEF SeparatorsTo
      <3>3. IsFiniteSet(SeparatorsTo(s, Size(s)))
        BY <1>1, SeparatorsFinite
      <3>4. Cardinality(SeparatorsTo(s, i)) <= s.depth
        BY <3>2, <3>3, FS_Subset DEF WellFormed, DepthsExact
      <3> QED
        BY <1>1, <3>1, <3>4
    <2>2. Cardinality(PositionsAt(t, s.depth + 1)) = 0
      BY <2>1, <1>3, FS_EmptySet
    <2>3. EntriesAt(t, s.depth + 1) = <<>>
      BY <2>2 DEF EntriesAt
    <2>4. s.depth + 2 \in 1 .. t.depth + 1 /\ (s.depth + 2) - 1 = s.depth + 1
      BY <1>1
    <2>5. LayersOf(t)[s.depth + 2] = EntriesAt(t, (s.depth + 2) - 1)
      BY <2>4, LayersRead
    <2> QED
      BY <2>3, <2>4, <2>5
  <1> QED
    BY <1>1, <1>2, <1>4, <1>5

\* Cutting the stack below its last separator takes the top layer away.
LEMMA RemoveLayers ==
  ASSUME NEW V, NEW s \in StackType(V), WellFormed(s),
         NEW t \in StackType(V), WellFormed(t),
         s.last_separator # NoPos, Size(t) = s.last_separator - 1,
         AgreeTo(s, t, Size(t)), t.depth = s.depth - 1
  PROVE  /\ Len(LayersOf(s)) > 1
         /\ Len(LayersOf(t)) = Len(LayersOf(s)) - 1
         /\ \A d \in 1 .. Len(LayersOf(s)) - 1 : LayersOf(t)[d] = LayersOf(s)[d]
  <1> DEFINE l == s.last_separator
  <1>1. /\ Size(s) \in Nat
        /\ s.depth \in Nat
        /\ t.depth \in Nat
        /\ l \in 1 .. Size(s)
        /\ IsSentinel(s.positions[l])
        /\ IsLastSeparator(s, l, Size(s))
    BY DEF Size, StackType, WellFormed, ChainExact, IsLastSeparator, NoPos
  <1>2. Len(LayersOf(s)) = s.depth + 1 /\ Len(LayersOf(t)) = s.depth
    <2>1. s.depth - 1 + 1 = s.depth
      BY <1>1
    <2> QED
      BY <2>1, LayersRead
  <1>3. ASSUME NEW d \in 1 .. s.depth
        PROVE  LayersOf(t)[d] = LayersOf(s)[d]
    <2>1. ASSUME NEW i \in PositionsAt(s, d - 1)
          PROVE  i < l
      <3>1. /\ i \in 1 .. Size(s)
            /\ ~ IsSentinel(s.positions[i])
            /\ Cardinality(SeparatorsTo(s, i)) = d - 1
        BY DEF PositionsAt, WellFormed, DepthsExact
      <3>2. CASE i > l
        <4>1. SeparatorsTo(s, i) = SeparatorsTo(s, Size(s))
          BY <1>1, <3>1, <3>2 DEF SeparatorsTo, IsLastSeparator
        <4> QED
          BY <4>1, <3>1, <1>1 DEF WellFormed, DepthsExact
      <3> QED
        BY <1>1, <3>1, <3>2
    <2>2. PositionsAt(s, d - 1) = PositionsAt(t, d - 1)
      BY <1>1, <2>1 DEF PositionsAt, AgreeTo
    <2>3. EntriesAt(t, d - 1) = EntriesAt(s, d - 1)
      BY <2>2, SameLayer
    <2>4. d \in 1 .. s.depth + 1 /\ d \in 1 .. t.depth + 1
      BY <1>1
    <2> QED
      BY <2>3, <2>4, LayersRead
  <1> QED
    BY <1>1, <1>2, <1>3

\* A stack without positions has one empty layer.
LEMMA EmptyLayers == LayersOf(EmptyStack) = << <<>> >>
  <1>1. PositionsAt(EmptyStack, 0) = {}
    BY DEF PositionsAt, EmptyStack, Size
  <1>2. EntriesAt(EmptyStack, 0) = <<>>
    <2>1. Cardinality(PositionsAt(EmptyStack, 0)) = 0
      BY <1>1, FS_EmptySet
    <2> QED
      BY <2>1 DEF EntriesAt
  <1>3. EmptyStack.depth = 0
    BY DEF EmptyStack
  <1>4. LayersOf(EmptyStack) = [d \in 1 .. 1 |-> EntriesAt(EmptyStack, d - 1)]
    BY <1>3 DEF LayersOf
  <1>5. \A d \in 1 .. 1 : d - 1 = 0
    OBVIOUS
  <1> QED
    BY <1>2, <1>4, <1>5

\* Writing outcomes changes no entry but for its outcome.
LEMMA JudgeLayers ==
  ASSUME NEW V, NEW s \in StackType(V), WellFormed(s),
         NEW t \in StackType(V), WellFormed(t),
         Size(t) = Size(s), KeptTo(s, t, Size(s)), t.depth = s.depth
  PROVE  /\ Len(LayersOf(t)) = Len(LayersOf(s))
         /\ \A d \in 1 .. Len(LayersOf(s)) :
              /\ Len(LayersOf(t)[d]) = Len(LayersOf(s)[d])
              /\ \A k \in 1 .. Len(LayersOf(s)[d]) :
                   \E i \in 1 .. Size(s) :
                     /\ LayersOf(s)[d][k] = Entry(s.positions[i])
                     /\ LayersOf(t)[d][k] = Entry(t.positions[i])
  <1>1. Len(LayersOf(s)) = s.depth + 1 /\ Len(LayersOf(t)) = s.depth + 1
    BY LayersRead
  <1>2. \A d : PositionsAt(t, d) = PositionsAt(s, d)
    BY DEF PositionsAt, KeptTo, Kept, SameShape, IsSentinel
  <1>3. ASSUME NEW d \in 1 .. s.depth + 1
        PROVE  /\ Len(LayersOf(t)[d]) = Len(LayersOf(s)[d])
               /\ \A k \in 1 .. Len(LayersOf(s)[d]) :
                    \E i \in 1 .. Size(s) :
                      /\ LayersOf(s)[d][k] = Entry(s.positions[i])
                      /\ LayersOf(t)[d][k] = Entry(t.positions[i])
    <2> DEFINE at == PositionsAt(s, d - 1)
    <2>1. /\ LayersOf(s)[d] = EntriesAt(s, d - 1)
          /\ LayersOf(t)[d] = EntriesAt(t, d - 1)
      BY LayersRead
    <2>2. /\ Len(EntriesAt(s, d - 1)) = Cardinality(at)
          /\ Len(EntriesAt(t, d - 1)) = Cardinality(at)
      BY <1>2, LayersRead
    <2>3. ASSUME NEW k \in 1 .. Cardinality(at)
          PROVE  \E i \in 1 .. Size(s) :
                   /\ EntriesAt(s, d - 1)[k] = Entry(s.positions[i])
                   /\ EntriesAt(t, d - 1)[k] = Entry(t.positions[i])
      <3>1. Lowest(at) + k - 1 \in 1 .. Size(s)
        BY EntriesAreLive
      <3>2. /\ EntriesAt(s, d - 1)[k] = Entry(s.positions[Lowest(at) + k - 1])
            /\ EntriesAt(t, d - 1)[k] = Entry(t.positions[Lowest(at) + k - 1])
        BY <1>2, LayersRead
      <3> QED
        BY <3>1, <3>2
    <2> QED
      BY <2>1, <2>2, <2>3
  <1> QED
    BY <1>1, <1>3
=============================================================================
