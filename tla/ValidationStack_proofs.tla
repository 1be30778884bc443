------------------------ MODULE ValidationStack_proofs ------------------------
(***************************************************************************)
(* The theorems about the validation stack and its iterators, for stacks   *)
(* of any size and any schema values.                                      *)
(*                                                                         *)
(* IndInv is inductive.  The bookkeeping of the stack (StackInv) is        *)
(* inductive together with its type; that an iterator stays in its layer   *)
(* needs it: a layer is removed at the last separator, which lies above    *)
(* the iterator's because the separators are chained exactly.  The         *)
(* refinement of LayerStack rests on the lemmas about the layers of a      *)
(* stack value: exact depths make the positions of a layer lie together.   *)
(***************************************************************************)
EXTENDS ValidationStack, StackLemmas

IndInv == TypeOK /\ StackInv /\ IteratorInLayer

\* The four invariants of the stack are what the lemmas call well-formed.
LEMMA StackInvIsWellFormed == StackInv <=> WellFormed(stack)
  BY DEF StackInv, SeparatorChain, LayerStartExact, ParentsLive, DepthExact,
         WellFormed

\* How the operations that grow a layer move the stack.
Grown(s, t) ==
  /\ \E pos : Pushed(s, t, pos) /\ ~ IsSentinel(pos) /\ pos.depth = s.depth
  /\ t.last_separator = s.last_separator
  /\ t.depth = s.depth

-----------------------------------------------------------------------------
(***************************************************************************)
(* Steps of the stack: type and bookkeeping.                               *)
(***************************************************************************)

\* Pushing a basic position keeps the stack exact.
LEMMA PushBasicPositionStack ==
  ASSUME TypeOK, StackInv, PushBasicPosition
  PROVE  stack' \in StackType(Values) /\ WellFormed(stack') /\ Grown(stack, stack')
  <1>1. PICK v \in Values, p \in Parents : stack' = PushBasic(stack, v, p)
    BY DEF PushBasicPosition
  <1>2. stack \in StackType(Values) /\ WellFormed(stack)
    BY StackInvIsWellFormed DEF TypeOK
  <1>3. /\ p \in Nat
        /\ p = NoPos \/ (p \in 1 .. Size(stack) /\ ~ IsSentinel(stack.positions[p]))
    BY DEF Parents, NoPos
  <1> QED
    BY <1>1, <1>2, <1>3, PushBasicKeeps DEF Grown

\* Pushing a composed position keeps the stack exact.
LEMMA PushComposedPositionStack ==
  ASSUME TypeOK, StackInv, PushComposedPosition
  PROVE  stack' \in StackType(Values) /\ WellFormed(stack') /\ Grown(stack, stack')
  <1>1. PICK v \in Values, p \in Parents \ {NoPos}, c \in Comps :
          stack' = PushComposed(stack, v, p, c)
    BY DEF PushComposedPosition
  <1>2. stack \in StackType(Values) /\ WellFormed(stack)
    BY StackInvIsWellFormed DEF TypeOK
  <1>3. /\ p \in Nat
        /\ p = NoPos \/ (p \in 1 .. Size(stack) /\ ~ IsSentinel(stack.positions[p]))
        /\ c \in CompositionTypes
    BY CompsAssumption DEF Parents, NoPos
  <1> QED
    BY <1>1, <1>2, <1>3, PushComposedKeeps DEF Grown

\* Opening a layer keeps the stack exact.
LEMMA OpenLayerStack ==
  ASSUME TypeOK, StackInv, OpenLayer
  PROVE  /\ stack' \in StackType(Values)
         /\ WellFormed(stack')
         /\ Pushed(stack, stack', Separator(stack))
         /\ stack'.last_separator = Size(stack) + 1
         /\ stack'.depth = stack.depth + 1
  BY StackInvIsWellFormed, PushSeparatorKeeps DEF TypeOK, OpenLayer

\* Removing a layer, the bottom one too, keeps the stack exact.
LEMMA RemoveLayerStack ==
  ASSUME TypeOK, StackInv, RemoveLayer
  PROVE  /\ stack' \in StackType(Values)
         /\ WellFormed(stack')
         /\ stack.last_separator # NoPos =>
              /\ stack.last_separator \in 1 .. Size(stack)
              /\ Size(stack') = stack.last_separator - 1
              /\ AgreeTo(stack, stack', Size(stack'))
              /\ stack'.depth = stack.depth - 1
         /\ stack.last_separator = NoPos => stack' = EmptyStack
  BY StackInvIsWellFormed, LayerRemoveKeeps DEF TypeOK, RemoveLayer

\* Judging and resetting change outcomes only.
Rejudged(s, t) ==
  /\ Size(t) = Size(s)
  /\ KeptTo(s, t, Size(s))
  /\ t.last_separator = s.last_separator
  /\ t.depth = s.depth

\* Resetting the outcomes of a layer keeps the stack exact.
LEMMA ResetLayerStack ==
  ASSUME TypeOK, StackInv, ResetLayer
  PROVE  /\ stack' \in StackType(Values)
         /\ WellFormed(stack')
         /\ Rejudged(stack, stack')
         /\ \A i \in (1 .. Size(stack)) \ LayerPositions(stack) :
              stack'.positions[i] = stack.positions[i]
  BY StackInvIsWellFormed, LayerResetKeeps DEF TypeOK, ResetLayer, Rejudged

\* Writing a verdict to a position keeps the stack exact.
LEMMA JudgePositionStack ==
  ASSUME TypeOK, StackInv, JudgePosition
  PROVE  /\ stack' \in StackType(Values)
         /\ WellFormed(stack')
         /\ Rejudged(stack, stack')
         /\ \A i \in 1 .. Size(stack) :
              \/ stack'.positions[i] = stack.positions[i]
              \/ stack'.positions[i].out.result = "INVALID"
  <1>1. PICK i \in Parents \ {NoPos} :
          stack' = [stack EXCEPT !.positions[i].out =
                      [@ EXCEPT !.result = "INVALID", !.final = TRUE]]
    BY DEF JudgePosition
  <1>2. i \in 1 .. Size(stack)
    BY DEF Parents, NoPos
  <1>3. stack \in StackType(Values) /\ WellFormed(stack)
    BY StackInvIsWellFormed DEF TypeOK
  <1>4. /\ stack.positions \in Seq(PositionType(Values))
        /\ Size(stack) = Len(stack.positions)
        /\ stack.positions[i] \in PositionType(Values)
    BY <1>2, <1>3, PositionFields DEF StackType, Size
  <1> DEFINE judged == [stack.positions[i] EXCEPT !.out =
                          [@ EXCEPT !.result = "INVALID", !.final = TRUE]]
             ps == [stack.positions EXCEPT ![i] = judged]
  <1>5. /\ judged \in PositionType(Values)
        /\ Kept(stack.positions[i], judged)
        /\ judged.out.result = "INVALID"
    BY <1>4 DEF PositionType, OutcomeType, Results, Kept, SameShape
  <1>6. /\ ps \in Seq(PositionType(Values))
        /\ Len(ps) = Len(stack.positions)
        /\ \A j \in 1 .. Len(stack.positions) :
             ps[j] = IF j = i THEN judged ELSE stack.positions[j]
    <2> HIDE DEF judged
    <2> QED
      BY <1>2, <1>4, <1>5, ExceptSeq
  <1>7. stack' = [stack EXCEPT !.positions = ps]
    BY <1>1
  <1> HIDE DEF ps, judged
  <1>8. stack' = [positions |-> ps, last_separator |-> stack.last_separator,
                  depth |-> stack.depth]
    BY <1>3, <1>7, ReplacePositions
  <1>9. Rejudged(stack, stack')
    BY <1>4, <1>5, <1>6, <1>8 DEF Rejudged, Size, KeptTo, Kept, SameShape
  <1>10. stack' \in StackType(Values) /\ stack'.depth = stack.depth
    BY <1>3, <1>6, <1>8 DEF StackType
  <1>11. WellFormed(stack')
    <2>1. SameTo(stack, stack', Size(stack))
      BY <1>9 DEF Rejudged, KeptTo, Kept, SameTo
    <2> QED
      BY <1>3, <1>9, <1>10, <2>1, SameShapeWellFormed DEF Rejudged
  <1>12. \A j \in 1 .. Size(stack) :
           \/ stack'.positions[j] = stack.positions[j]
           \/ stack'.positions[j].out.result = "INVALID"
    BY <1>4, <1>5, <1>6, <1>8
  <1> QED
    BY <1>9, <1>10, <1>11, <1>12

\* The actions of the iterators leave the stack alone.
IteratorStep == StartForward \/ NextForward \/ StartReverse \/ NextReverse

\* Every step of the client keeps the stack exact.
LEMMA StackStep ==
  ASSUME TypeOK, StackInv, [Next]_vars
  PROVE  stack' \in StackType(Values) /\ StackInv'
  <1>1. StackInv' <=> WellFormed(stack')
    BY DEF StackInv, SeparatorChain, LayerStartExact, ParentsLive, DepthExact,
           WellFormed
  <1>2. CASE UNCHANGED stack
    BY <1>1, <1>2, StackInvIsWellFormed DEF TypeOK
  <1>3. CASE PushBasicPosition
    BY <1>1, <1>3, PushBasicPositionStack
  <1>4. CASE PushComposedPosition
    BY <1>1, <1>4, PushComposedPositionStack
  <1>5. CASE OpenLayer
    BY <1>1, <1>5, OpenLayerStack
  <1>6. CASE RemoveLayer
    BY <1>1, <1>6, RemoveLayerStack
  <1>7. CASE JudgePosition
    BY <1>1, <1>7, JudgePositionStack
  <1>8. CASE ResetLayer
    BY <1>1, <1>8, ResetLayerStack
  <1>9. CASE IteratorStep
    BY <1>2, <1>9
    DEF IteratorStep, StartForward, NextForward, StartReverse, NextReverse
  <1> QED
    BY <1>2, <1>3, <1>4, <1>5, <1>6, <1>7, <1>8, <1>9
    DEF Next, vars, IteratorStep
-----------------------------------------------------------------------------
(***************************************************************************)
(* The iterator while the stack changes.                                   *)
(***************************************************************************)

Sentinel(s, k) == IsSentinel(s.positions[k])

\* The stacks agree up to n, and the layer above base ends at or below n in
\* both of them.
SameLayerAbove(base, n) ==
  /\ n \in 0 .. Size(stack)
  /\ n \in 0 .. Size(stack')
  /\ base \in 0 .. n
  /\ \A k \in 1 .. n : Sentinel(stack', k) <=> Sentinel(stack, k)
  /\ \/ \E k \in base + 1 .. n : Sentinel(stack, k)
     \/ /\ n = Size(stack) \/ Sentinel(stack, n + 1)
        /\ n = Size(stack') \/ Sentinel(stack', n + 1)

\* The size of a stack and its last separator are numbers.
LEMMA SizesAreNumbers ==
  ASSUME NEW s \in StackType(Values)
  PROVE  Size(s) \in Nat /\ s.last_separator \in Nat
  BY DEF Size, StackType

\* An iterator is not disturbed by what happens outside its layer.
LEMMA IteratorUndisturbed ==
  ASSUME TypeOK, stack' \in StackType(Values), IteratorInLayer,
         iter' = iter, iter.mode # "idle",
         NEW n, SameLayerAbove(iter.base, n)
  PROVE  IteratorInLayer'
  <1> DEFINE base == iter.base
             i == iter.at.index
  <1>1. /\ Size(stack) \in Nat
        /\ Size(stack') \in Nat
        /\ base \in Nat
        /\ i \in Nat
        /\ n \in Nat
    BY SizesAreNumbers DEF TypeOK, IterType, SameLayerAbove
  <1>2. \/ base = NoPos
        \/ base \in 1 .. Size(stack') /\ Sentinel(stack', base)
    BY <1>1 DEF IteratorInLayer, SameLayerAbove, Sentinel, NoPos
  <1>3. LayerAbove(base) = LayerAbove(base)'
    <2>1. LayerAbove(base) = {k \in base + 1 .. n :
                                \A j \in base + 1 .. k : ~ Sentinel(stack, j)}
      BY <1>1 DEF LayerAbove, SameLayerAbove, Sentinel
    <2>2. LayerAbove(base)' = {k \in base + 1 .. n :
                                 \A j \in base + 1 .. k : ~ Sentinel(stack', j)}
      BY <1>1 DEF LayerAbove, SameLayerAbove, Sentinel
    <2>3. \A k \in base + 1 .. n, j \in base + 1 .. n :
            Sentinel(stack', j) <=> Sentinel(stack, j)
      BY <1>1 DEF SameLayerAbove
    <2> QED
      BY <2>1, <2>2, <2>3, <1>1
  <1>4. ASSUME OneLayer(base + 1, i - 1), i - 1 <= Size(stack)
        PROVE  i - 1 <= n /\ OneLayer(base + 1, i - 1)'
    <2>1. i - 1 <= n
      BY <1>1, <1>4 DEF OneLayer, SameLayerAbove, Sentinel
    <2> QED
      BY <2>1, <1>1, <1>4 DEF OneLayer, SameLayerAbove, Sentinel
  <1>5. ASSUME iter.mode = "forward"
        PROVE  ForwardExact'
    <2>1. ForwardExact
      BY <1>5 DEF IteratorInLayer
    <2>2. CASE i = base /\ base # NoPos /\ iter.seen = {}
               /\ (Size(stack) > i => Sentinel(stack, i + 1))
      <3>1. Size(stack') > i => Sentinel(stack', i + 1)
        BY <2>2, <1>1 DEF SameLayerAbove
      <3> QED
        BY <2>2, <3>1 DEF ForwardExact, Sentinel
    <2>3. CASE i \in base + 1 .. Size(stack) + 1
               /\ iter.seen = base + 1 .. i - 1
               /\ OneLayer(base + 1, i - 1)
      <3>1. i - 1 <= n /\ OneLayer(base + 1, i - 1)'
        BY <2>3, <1>1, <1>4
      <3>2. i \in base + 1 .. Size(stack') + 1
        BY <2>3, <3>1, <1>1 DEF SameLayerAbove
      <3> QED
        BY <2>3, <3>1, <3>2 DEF ForwardExact
    <2> QED
      BY <2>1, <2>2, <2>3 DEF ForwardExact, Sentinel
  <1>6. ASSUME iter.mode = "reverse"
        PROVE  ReverseExact'
    <2>1. ReverseExact
      BY <1>6 DEF IteratorInLayer
    <2>2. i - 1 <= n /\ OneLayer(base + 1, i - 1)'
      BY <2>1, <1>1, <1>4 DEF ReverseExact
    <2>3. i \in base + 1 .. Size(stack') + 1
      BY <2>1, <2>2, <1>1 DEF ReverseExact, SameLayerAbove
    <2> QED
      BY <2>1, <2>2, <2>3, <1>3 DEF ReverseExact
  <1> QED
    BY <1>2, <1>5, <1>6 DEF IteratorInLayer, Sentinel

\* The last separator is the only one of its kind.
LEMMA LastSeparatorUnique ==
  ASSUME NEW s, NEW n \in Nat, NEW i \in Nat, NEW j \in Nat,
         IsLastSeparator(s, i, n), IsLastSeparator(s, j, n)
  PROVE  i = j
  BY DEF IsLastSeparator, NoPos

\* The separator of the iterated layer is the last one or lies below it.
LEMMA BaseBelowLast ==
  ASSUME TypeOK, StackInv, IteratorInLayer, iter.mode # "idle",
         stack.last_separator # iter.base
  PROVE  /\ stack.last_separator \in iter.base + 1 .. Size(stack)
         /\ Sentinel(stack, stack.last_separator)
  <1>1. Size(stack) \in Nat /\ stack.last_separator \in Nat /\ iter.base \in Nat
    BY SizesAreNumbers DEF TypeOK, IterType
  <1>2. IsLastSeparator(stack, stack.last_separator, Size(stack))
    BY DEF StackInv, SeparatorChain, ChainExact
  <1> QED
    BY <1>1, <1>2 DEF IteratorInLayer, IsLastSeparator, NoPos, Sentinel

\* A position pushed on behalf of the iteration, or above its layer, leaves
\* the iterator in its layer.
LEMMA GrownKeepsIterator ==
  ASSUME TypeOK, StackInv, IteratorInLayer, MayPush,
         stack' \in StackType(Values), Grown(stack, stack'), UNCHANGED iter
  PROVE  IteratorInLayer'
  <1>1. CASE iter.mode = "idle"
    BY <1>1 DEF IteratorInLayer
  <1>2. PICK pos : Pushed(stack, stack', pos) /\ ~ IsSentinel(pos)
    BY DEF Grown
  <1>3. Size(stack) \in Nat /\ iter.base \in Nat /\ iter.at.index \in Nat
    BY SizesAreNumbers DEF TypeOK, IterType
  <1>4. /\ Size(stack') = Size(stack) + 1
        /\ \A k \in 1 .. Size(stack) : Sentinel(stack', k) <=> Sentinel(stack, k)
        /\ ~ Sentinel(stack', Size(stack) + 1)
    BY <1>2 DEF Pushed, AgreeTo, Sentinel
  <1>5. CASE iter.mode # "idle" /\ stack.last_separator # iter.base
    <2>1. SameLayerAbove(iter.base, Size(stack))
      BY <1>3, <1>4, <1>5, BaseBelowLast DEF SameLayerAbove
    <2> QED
      BY <2>1, <1>5, IteratorUndisturbed
  <1>6. CASE iter.mode # "idle" /\ stack.last_separator = iter.base
    <2>1. iter.mode = "forward" /\ iter.seen # {} /\ ForwardExact
      BY <1>6 DEF MayPush, IteratorInLayer
    <2>2. /\ iter.at.index \in iter.base + 1 .. Size(stack) + 1
          /\ iter.seen = iter.base + 1 .. iter.at.index - 1
          /\ OneLayer(iter.base + 1, iter.at.index - 1)
      BY <2>1 DEF ForwardExact
    <2>3. ForwardExact'
      BY <2>2, <1>3, <1>4 DEF ForwardExact, OneLayer, Sentinel
    <2>4. \/ iter.base = NoPos
          \/ iter.base \in 1 .. Size(stack') /\ Sentinel(stack', iter.base)
      BY <1>3, <1>4, <1>6 DEF IteratorInLayer, Sentinel, NoPos
    <2> QED
      BY <2>1, <2>3, <2>4 DEF IteratorInLayer, Sentinel
  <1> QED
    BY <1>1, <1>5, <1>6

\* A layer opened while an iteration runs leaves the iterator in its layer.
LEMMA OpenLayerKeepsIterator ==
  ASSUME TypeOK, StackInv, IteratorInLayer, OpenLayer
  PROVE  IteratorInLayer'
  <1>1. CASE iter.mode = "idle"
    BY <1>1 DEF IteratorInLayer, OpenLayer
  <1>2. CASE iter.mode # "idle"
    <2>1. /\ Pushed(stack, stack', Separator(stack))
          /\ stack' \in StackType(Values)
      BY OpenLayerStack
    <2>2. Size(stack) \in Nat /\ iter.base \in Nat
      BY SizesAreNumbers DEF TypeOK, IterType
    <2>3. /\ Size(stack') = Size(stack) + 1
          /\ \A k \in 1 .. Size(stack) : Sentinel(stack', k) <=> Sentinel(stack, k)
          /\ Sentinel(stack', Size(stack) + 1)
      BY <2>1 DEF Pushed, AgreeTo, Sentinel, IsSentinel, Separator
    <2>4. SameLayerAbove(iter.base, Size(stack))
      BY <1>2, <2>2, <2>3 DEF SameLayerAbove, IteratorInLayer, NoPos
    <2> QED
      BY <1>2, <2>1, <2>4, IteratorUndisturbed DEF OpenLayer
  <1> QED
    BY <1>1, <1>2

\* Removing a layer above the iterated one leaves the iterator in its layer.
LEMMA RemoveLayerKeepsIterator ==
  ASSUME TypeOK, StackInv, IteratorInLayer, RemoveLayer
  PROVE  IteratorInLayer'
  <1>1. CASE iter.mode = "idle"
    BY <1>1 DEF IteratorInLayer, RemoveLayer
  <1>2. CASE iter.mode # "idle"
    <2> DEFINE l == stack.last_separator
    <2>1. l \in iter.base + 1 .. Size(stack) /\ Sentinel(stack, l)
      BY <1>2, BaseBelowLast DEF RemoveLayer
    <2>2. Size(stack) \in Nat /\ iter.base \in Nat
      BY SizesAreNumbers DEF TypeOK, IterType
    <2>3. /\ stack' \in StackType(Values)
          /\ Size(stack') = l - 1
          /\ AgreeTo(stack, stack', Size(stack'))
      BY <2>1, <2>2, RemoveLayerStack DEF NoPos
    <2>4. SameLayerAbove(iter.base, l - 1)
      BY <2>1, <2>2, <2>3
      DEF SameLayerAbove, AgreeTo, Sentinel
    <2> QED
      BY <1>2, <2>3, <2>4, IteratorUndisturbed DEF RemoveLayer
  <1> QED
    BY <1>1, <1>2

\* Writing and resetting outcomes leaves the iterator in its layer.
LEMMA RejudgedKeepsIterator ==
  ASSUME TypeOK, IteratorInLayer, stack' \in StackType(Values),
         Rejudged(stack, stack'), UNCHANGED iter
  PROVE  IteratorInLayer'
  <1>1. CASE iter.mode = "idle"
    BY <1>1 DEF IteratorInLayer
  <1>2. CASE iter.mode # "idle"
    <2>1. Size(stack) \in Nat /\ iter.base \in Nat
      BY SizesAreNumbers DEF TypeOK, IterType
    <2>2. SameLayerAbove(iter.base, Size(stack))
      BY <1>2, <2>1
      DEF SameLayerAbove, Rejudged, IteratorInLayer, NoPos, KeptTo, Kept,
          SameShape, Sentinel, IsSentinel
    <2> QED
      BY <1>2, <2>2, IteratorUndisturbed
  <1> QED
    BY <1>1, <1>2
-----------------------------------------------------------------------------
(***************************************************************************)
(* The steps of the iterators.                                             *)
(***************************************************************************)

IterInv == iter \in IterType /\ IteratorInLayer

\* The last separator, as a separator to iterate above.
LEMMA LastSeparatorAsBase ==
  ASSUME TypeOK, StackInv
  PROVE  LET l == stack.last_separator
         IN  /\ l \in 0 .. Size(stack)
             /\ l = NoPos \/ (l \in 1 .. Size(stack) /\ Sentinel(stack, l))
             /\ OneLayer(l + 1, Size(stack))
  BY SizesAreNumbers
  DEF TypeOK, StackInv, SeparatorChain, ChainExact, IsLastSeparator, NoPos,
      OneLayer, Sentinel

\* A forward iteration starts where the layer of the top position begins.
LEMMA StartForwardStep ==
  ASSUME TypeOK, StackInv, StartForward
  PROVE  IterInv'
  <1> DEFINE n == Size(stack)
             l == stack.last_separator
             start == stack.positions[n].layer_start
  <1>1. /\ n \in Nat \ {0}
        /\ l \in 0 .. n
        /\ l = NoPos \/ (l \in 1 .. n /\ Sentinel(stack, l))
        /\ OneLayer(l + 1, n)
    BY LastSeparatorAsBase, SizesAreNumbers DEF TypeOK, StartForward
  <1>2. start \in Nat \ {0}
    BY <1>1, PositionFields DEF TypeOK
  <1>3. /\ iter' = [mode |-> "forward", at |-> [index |-> start, finished |-> FALSE],
                    base |-> l, seen |-> {}]
        /\ UNCHANGED stack
    BY DEF StartForward, ForwardStart
  <1>4. iter' \in IterType
    BY <1>1, <1>2, <1>3 DEF IterType
  <1>5. IF Sentinel(stack, n)
        THEN start = n
        ELSE IsLastSeparator(stack, start - 1, n)
    BY <1>1 DEF StackInv, LayerStartExact, LayerStartsExact, Sentinel
  <1>6. CASE Sentinel(stack, n)
    <2>1. l = n /\ start = n
      BY <1>1, <1>5, <1>6 DEF OneLayer, Sentinel
    <2>2. ForwardExact'
      BY <2>1, <1>1, <1>3 DEF ForwardExact, NoPos
    <2> QED
      BY <2>2, <1>1, <1>3, <1>4 DEF IterInv, IteratorInLayer, Sentinel
  <1>7. CASE ~ Sentinel(stack, n)
    <2>1. IsLastSeparator(stack, l, n)
      BY DEF StackInv, SeparatorChain, ChainExact
    <2>2. start = l + 1
      BY <2>1, <1>1, <1>2, <1>5, <1>7, LastSeparatorUnique
    <2>3. ForwardExact'
      BY <2>2, <1>1, <1>3 DEF ForwardExact, OneLayer
    <2> QED
      BY <2>3, <1>1, <1>3, <1>4 DEF IterInv, IteratorInLayer, Sentinel
  <1> QED
    BY <1>6, <1>7

\* A reverse iteration starts above the top position of the layer.
LEMMA StartReverseStep ==
  ASSUME TypeOK, StackInv, StartReverse
  PROVE  IterInv'
  <1> DEFINE n == Size(stack)
             l == stack.last_separator
  <1>1. /\ n \in Nat \ {0}
        /\ l \in 0 .. n
        /\ l = NoPos \/ (l \in 1 .. n /\ Sentinel(stack, l))
        /\ OneLayer(l + 1, n)
    BY LastSeparatorAsBase, SizesAreNumbers DEF TypeOK, StartReverse
  <1>2. /\ iter' = [mode |-> "reverse", at |-> [index |-> n + 1, finished |-> FALSE],
                    base |-> l, seen |-> {}]
        /\ UNCHANGED stack
    BY DEF StartReverse, ReverseStart
  <1>3. iter' \in IterType
    BY <1>1, <1>2 DEF IterType
  <1>4. {k \in LayerAbove(l) : k >= n + 1} = {}
    BY <1>1 DEF LayerAbove
  <1>5. ReverseExact'
    BY <1>1, <1>2, <1>4 DEF ReverseExact, OneLayer, LayerAbove
  <1> QED
    BY <1>1, <1>2, <1>3, <1>5 DEF IterInv, IteratorInLayer, Sentinel

\* Without an iteration there is nothing to show.
LEMMA IdleIsIterInv == iter' = Idle => IterInv'
  BY DEF Idle, IterInv, IterType, IteratorInLayer, NoPos

\* A forward iterator that returns a position returns the next one of its
\* layer; one that returns NULL has returned the whole layer.
LEMMA NextForwardStep ==
  ASSUME TypeOK, StackInv, IteratorInLayer, NextForward
  PROVE  IterInv' /\ (iter'.mode = "idle" => iter.seen = LayerAbove(iter.base))
  <1> DEFINE i == iter.at.index
             base == iter.base
             pos == ForwardNext(stack, iter.at)
  <1>1. /\ Size(stack) \in Nat
        /\ base \in Nat
        /\ i \in Nat
        /\ iter.mode = "forward"
        /\ UNCHANGED stack
    BY SizesAreNumbers DEF TypeOK, IterType, NextForward
  <1>2. ForwardExact
    BY <1>1 DEF IteratorInLayer
  <1>3. CASE pos = NoPos
    <2>1. iter' = Idle
      BY <1>3 DEF NextForward
    <2>2. i > Size(stack) \/ Sentinel(stack, i) \/ i = 0
      BY <1>3 DEF ForwardNext, NoPos, Sentinel
    <2>3. iter.seen = LayerAbove(base)
      <3>1. CASE i = base /\ base # NoPos /\ iter.seen = {}
                 /\ (Size(stack) > i => Sentinel(stack, i + 1))
        <4>1. LayerAbove(base) = {}
          BY <3>1, <1>1 DEF LayerAbove, Sentinel
        <4> QED
          BY <3>1, <4>1
      <3>2. CASE i \in base + 1 .. Size(stack) + 1
                 /\ iter.seen = base + 1 .. i - 1
                 /\ OneLayer(base + 1, i - 1)
        BY <3>2, <2>2, <1>1 DEF LayerAbove, OneLayer, Sentinel
      <3> QED
        BY <1>2, <3>1, <3>2 DEF ForwardExact, Sentinel
    <2> QED
      BY <2>1, <2>3, IdleIsIterInv
  <1>4. CASE pos # NoPos
    <2>1. /\ pos = i
          /\ i <= Size(stack)
          /\ ~ Sentinel(stack, i)
      BY <1>1, <1>4 DEF ForwardNext, Sentinel
    <2>2. iter' = [mode |-> "forward",
                   at |-> [index |-> i + 1, finished |-> iter.at.finished],
                   base |-> base, seen |-> iter.seen \cup {i}]
      <3>1. iter \in IterType
        BY DEF TypeOK
      <3>2. ForwardStep(iter.at)
              = [index |-> i + 1, finished |-> iter.at.finished]
        BY <3>1 DEF IterType, ForwardStep
      <3>3. iter' = [iter EXCEPT !.at = ForwardStep(iter.at), !.seen = @ \cup {i}]
        BY <1>4, <2>1 DEF NextForward
      <3> QED
        BY <1>1, <3>1, <3>2, <3>3 DEF IterType
    <2>3. /\ iter'.mode = "forward"
          /\ iter'.at.index = i + 1
          /\ iter'.base = base
          /\ iter'.seen = iter.seen \cup {i}
          /\ iter' \in IterType
      BY <1>1, <2>2 DEF TypeOK, IterType
    <2>4. /\ i \in base + 1 .. Size(stack) + 1
          /\ iter.seen = base + 1 .. i - 1
          /\ OneLayer(base + 1, i - 1)
      <3>1. ~ (i = base /\ base # NoPos)
        BY <2>1, <1>1 DEF IteratorInLayer, Sentinel
      <3> QED
        BY <3>1, <1>2 DEF ForwardExact
    <2>5. ForwardExact'
      BY <1>1, <2>1, <2>3, <2>4 DEF ForwardExact, OneLayer, Sentinel
    <2> QED
      BY <1>1, <2>3, <2>5 DEF IterInv, IteratorInLayer
  <1> QED
    BY <1>3, <1>4

\* The same for the reverse iterator.
LEMMA NextReverseStep ==
  ASSUME TypeOK, StackInv, IteratorInLayer, NextReverse
  PROVE  IterInv' /\ (iter'.mode = "idle" => iter.seen = LayerAbove(iter.base))
  <1> DEFINE i == iter.at.index
             base == iter.base
             pos == ReverseNext(stack, iter.at)
             finished == Sentinel(stack, i - 1) \/ i = 2
  <1>1. /\ Size(stack) \in Nat
        /\ base \in Nat
        /\ i \in Nat
        /\ iter.mode = "reverse"
        /\ UNCHANGED stack
    BY SizesAreNumbers DEF TypeOK, IterType, NextReverse
  <1>2. /\ i \in base + 1 .. Size(stack) + 1
        /\ iter.seen = {k \in LayerAbove(base) : k >= i}
        /\ OneLayer(base + 1, i - 1)
        /\ IF iter.at.finished THEN i = base + 1 ELSE i >= 2
    BY <1>1 DEF IteratorInLayer, ReverseExact
  <1>3. CASE pos = NoPos
    <2>1. iter' = Idle
      BY <1>3 DEF NextReverse
    <2>2. iter.at.finished \/ Sentinel(stack, i - 1) \/ i = 1
      BY <1>1, <1>3 DEF ReverseNext, NoPos, Sentinel
    <2>3. i = base + 1
      BY <1>1, <1>2, <2>2 DEF OneLayer, Sentinel
    <2>4. iter.seen = LayerAbove(base)
      BY <1>1, <1>2, <2>3 DEF LayerAbove
    <2> QED
      BY <2>1, <2>4, IdleIsIterInv
  <1>4. CASE pos # NoPos
    <2>1. /\ ~ iter.at.finished
          /\ ~ Sentinel(stack, i - 1)
          /\ pos = i - 1
      BY <1>4 DEF ReverseNext, Sentinel
    <2>2. i >= 2 /\ i - 1 \in base + 1 .. Size(stack)
      <3>1. i - 1 # base
        BY <1>1, <1>2, <2>1 DEF IteratorInLayer, Sentinel, NoPos
      <3> QED
        BY <3>1, <1>1, <1>2, <2>1
    <2>3. iter' = [mode |-> "reverse",
                   at |-> [index |-> i - 1, finished |-> finished],
                   base |-> base, seen |-> iter.seen \cup {i - 1}]
      <3>1. iter \in IterType
        BY DEF TypeOK
      <3>2. ReverseStep(stack, iter.at) = [index |-> i - 1, finished |-> finished]
        BY DEF ReverseStep, Sentinel
      <3>3. iter' = [iter EXCEPT !.at = ReverseStep(stack, iter.at),
                                 !.seen = @ \cup {i - 1}]
        BY <1>4, <2>1 DEF NextReverse
      <3> HIDE DEF finished
      <3> QED
        BY <1>1, <3>1, <3>2, <3>3 DEF IterType
    <2>4. /\ iter'.mode = "reverse"
          /\ iter'.at = [index |-> i - 1, finished |-> finished]
          /\ iter'.base = base
          /\ iter'.seen = iter.seen \cup {i - 1}
      BY <2>3
    <2>5. iter' \in IterType
      <3>1. finished \in BOOLEAN
        BY DEF Sentinel, IsSentinel
      <3>2. i - 1 \in Nat
        BY <1>1, <2>2
      <3>3. iter.seen \cup {i - 1} \in SUBSET Nat
        BY <3>2 DEF TypeOK, IterType
      <3> HIDE DEF finished
      <3> QED
        BY <1>1, <2>3, <3>1, <3>2, <3>3 DEF IterType
    <2>6. i - 1 \in LayerAbove(base)
      BY <1>1, <1>2, <2>2 DEF LayerAbove, OneLayer
    <2>7. iter'.seen = {k \in LayerAbove(base) : k >= i - 1}
      BY <1>1, <1>2, <2>4, <2>6 DEF LayerAbove
    <2>8. finished => i - 1 = base + 1
      BY <1>1, <2>1, <2>2
    <2>9. ~ finished => i - 1 >= 2
      BY <1>1, <2>2
    <2>10. ReverseExact'
      <3>1. /\ iter'.base = base
            /\ iter'.at.index = i - 1
            /\ iter'.at.finished = finished
        BY <2>4
      <3>2. LayerAbove(iter.base)' = LayerAbove(base)
        BY <1>1, <3>1 DEF LayerAbove
      <3>3. OneLayer(iter.base + 1, iter.at.index - 1)'
        BY <1>1, <1>2, <3>1 DEF OneLayer
      <3>4. iter'.at.index \in iter'.base + 1 .. Size(stack') + 1
        BY <1>1, <2>2, <3>1
      <3>5. IF iter'.at.finished THEN iter'.at.index = iter'.base + 1
            ELSE iter'.at.index >= 2
        BY <2>8, <2>9, <3>1
      <3>6. iter'.seen = {k \in LayerAbove(iter.base)' : k >= iter'.at.index}
        BY <2>7, <3>1, <3>2
      <3> QED
        BY <3>3, <3>4, <3>5, <3>6 DEF ReverseExact
    <2> QED
      BY <1>1, <2>4, <2>5, <2>10 DEF IterInv, IteratorInLayer
  <1> QED
    BY <1>3, <1>4

-----------------------------------------------------------------------------
(***************************************************************************)
(* The theorems.                                                           *)
(***************************************************************************)

\* The inductive invariant holds of a new stack without iteration.
LEMMA InitIndInv == Init => IndInv
  <1> SUFFICES ASSUME Init PROVE IndInv
    OBVIOUS
  <1>1. stack \in StackType(Values) /\ WellFormed(stack)
    BY EmptyStackWellFormed DEF Init
  <1>2. iter \in IterType /\ IteratorInLayer
    BY DEF Init, Idle, IterType, IteratorInLayer, NoPos
  <1> QED
    BY <1>1, <1>2, StackInvIsWellFormed DEF IndInv, TypeOK

\* The inductive invariant is kept by every step.
LEMMA NextIndInv ==
  ASSUME IndInv, [Next]_vars
  PROVE  IndInv'
  <1>1. TypeOK /\ StackInv /\ IteratorInLayer
    BY DEF IndInv
  <1>2. stack' \in StackType(Values) /\ StackInv'
    BY <1>1, StackStep
  <1>3. IterInv'
    <2>1. CASE UNCHANGED vars
      BY <2>1, <1>1
      DEF vars, TypeOK, IterInv, IteratorInLayer, ForwardExact, ReverseExact,
          OneLayer, LayerAbove
    <2>2. CASE PushBasicPosition
      BY <2>2, <1>1, PushBasicPositionStack, GrownKeepsIterator
      DEF PushBasicPosition, TypeOK, IterInv
    <2>3. CASE PushComposedPosition
      BY <2>3, <1>1, PushComposedPositionStack, GrownKeepsIterator
      DEF PushComposedPosition, TypeOK, IterInv
    <2>4. CASE OpenLayer
      BY <2>4, <1>1, OpenLayerKeepsIterator DEF OpenLayer, TypeOK, IterInv
    <2>5. CASE RemoveLayer
      BY <2>5, <1>1, RemoveLayerKeepsIterator DEF RemoveLayer, TypeOK, IterInv
    <2>6. CASE JudgePosition
      BY <2>6, <1>1, JudgePositionStack, RejudgedKeepsIterator
      DEF JudgePosition, TypeOK, IterInv
    <2>7. CASE ResetLayer
      BY <2>7, <1>1, ResetLayerStack, RejudgedKeepsIterator
      DEF ResetLayer, TypeOK, IterInv
    <2>8. CASE StartForward
      BY <2>8, <1>1, StartForwardStep
    <2>9. CASE NextForward
      BY <2>9, <1>1, NextForwardStep
    <2>10. CASE StartReverse
      BY <2>10, <1>1, StartReverseStep
    <2>11. CASE NextReverse
      BY <2>11, <1>1, NextReverseStep
    <2> QED
      BY <2>1, <2>2, <2>3, <2>4, <2>5, <2>6, <2>7, <2>8, <2>9, <2>10, <2>11
      DEF Next
  <1> QED
    BY <1>2, <1>3 DEF IndInv, TypeOK, IterInv

\* The inductive invariant holds throughout: the types, the exactness of the
\* stack and the place of the iterator.
THEOREM Invariance == Spec => []IndInv
  BY InitIndInv, NextIndInv, PTL DEF Spec

\* The fields of the stack and of every position keep their types.
THEOREM TypeCorrect == Spec => []TypeOK
  <1>1. IndInv => TypeOK
    BY DEF IndInv
  <1> QED
    BY Invariance, <1>1, PTL

\* jso_schema_validation_stack.c keeps its bookkeeping exact: the separators
\* are chained, every layer_start is where its layer begins, parents are live
\* positions below their children, and depths count the open layers.
THEOREM StackExactness == Spec => []StackInv
  <1>1. IndInv => StackInv
    BY DEF IndInv
  <1> QED
    BY Invariance, <1>1, PTL

\* An iterator only ever reads live positions of the layer it was started on.
THEOREM IteratorStaysInLayer == Spec => []IteratorInLayer
  <1>1. IndInv => IteratorInLayer
    BY DEF IndInv
  <1> QED
    BY Invariance, <1>1, PTL

\* Whatever is pushed, opened and removed while it runs, an iteration that
\* ends has returned every position of its layer and no other.
THEOREM IterationsExact == Spec => IterationExact
  <1>1. ASSUME IndInv, [Next]_vars
        PROVE  [iter.mode # "idle" /\ iter'.mode = "idle" =>
                  iter.seen = LayerAbove(iter.base)]_vars
    <2>1. TypeOK /\ StackInv /\ IteratorInLayer
      BY <1>1 DEF IndInv
    <2>2. CASE NextForward
      BY <2>1, <2>2, NextForwardStep
    <2>3. CASE NextReverse
      BY <2>1, <2>3, NextReverseStep
    <2>4. CASE StartForward \/ StartReverse
      BY <2>4 DEF StartForward, StartReverse
    <2>5. CASE UNCHANGED iter
      BY <2>5
    <2> QED
      BY <1>1, <2>2, <2>3, <2>4, <2>5
      DEF Next, vars, PushBasicPosition, PushComposedPosition, OpenLayer,
          RemoveLayer, JudgePosition, ResetLayer
  <1> QED
    BY Invariance, <1>1, PTL DEF Spec, IterationExact
-----------------------------------------------------------------------------
(***************************************************************************)
(* What every step leaves alone, and what it does to the layers.           *)
(***************************************************************************)

\* The layers below the top one as LowerLayersStable sees them.
LowerKept(s, t) ==
  \A i \in 1 .. s.last_separator - 1 :
    /\ i <= Size(t)
    /\ \/ t.positions[i] = s.positions[i]
       \/ t.positions[i].out.result = "INVALID"

\* Every operation of the stack acts on the top layer, except for verdicts.
LEMMA LowerKeptStep ==
  ASSUME TypeOK, StackInv, [Next]_vars
  PROVE  LowerKept(stack, stack')
  <1> DEFINE l == stack.last_separator
             n == Size(stack)
  <1>1. n \in Nat /\ l \in 0 .. n
    BY SizesAreNumbers, LastSeparatorAsBase DEF TypeOK
  <1>2. CASE UNCHANGED stack
    BY <1>1, <1>2 DEF LowerKept
  <1>3. CASE PushBasicPosition
    BY <1>1, <1>3, PushBasicPositionStack DEF LowerKept, Grown, Pushed, AgreeTo
  <1>4. CASE PushComposedPosition
    BY <1>1, <1>4, PushComposedPositionStack DEF LowerKept, Grown, Pushed, AgreeTo
  <1>5. CASE OpenLayer
    BY <1>1, <1>5, OpenLayerStack DEF LowerKept, Pushed, AgreeTo
  <1>6. CASE RemoveLayer
    BY <1>1, <1>6, RemoveLayerStack DEF LowerKept, AgreeTo, NoPos
  <1>7. CASE JudgePosition
    BY <1>1, <1>7, JudgePositionStack DEF LowerKept, Rejudged
  <1>8. CASE ResetLayer
    <2>1. n \in 1 .. n /\ Size(stack) # 0
      BY <1>1, <1>8 DEF ResetLayer
    <2> DEFINE start == stack.positions[n].layer_start
    <2>2. start \in Nat \ {0}
      BY <2>1, PositionFields DEF TypeOK
    <2>3. IF Sentinel(stack, n)
          THEN start = n
          ELSE IsLastSeparator(stack, start - 1, n)
      BY <2>1 DEF StackInv, LayerStartExact, LayerStartsExact, Sentinel
    <2>4. IsLastSeparator(stack, l, n)
      BY DEF StackInv, SeparatorChain, ChainExact
    <2>5. start >= l
      BY <1>1, <2>1, <2>2, <2>3, <2>4, LastSeparatorUnique
    <2>6. \A i \in LayerPositions(stack) : i >= l
      BY <1>1, <2>2, <2>5 DEF LayerPositions, ForwardStart
    <2>7. /\ Size(stack') = n
          /\ \A i \in (1 .. n) \ LayerPositions(stack) :
               stack'.positions[i] = stack.positions[i]
      BY <1>8, ResetLayerStack DEF Rejudged
    <2>8. ASSUME NEW i \in 1 .. l - 1
          PROVE  i <= n /\ i \in (1 .. n) \ LayerPositions(stack)
      BY <1>1, <2>6
    <2> QED
      BY <2>7, <2>8 DEF LowerKept
  <1>9. CASE IteratorStep
    BY <1>2, <1>9
    DEF IteratorStep, StartForward, NextForward, StartReverse, NextReverse
  <1> QED
    BY <1>2, <1>3, <1>4, <1>5, <1>6, <1>7, <1>8, <1>9
    DEF Next, vars, IteratorStep

\* A push adds an entry to the top layer.
LEMMA GrownIsAdd ==
  ASSUME stack \in StackType(Values), WellFormed(stack),
         stack' \in StackType(Values), WellFormed(stack'), Grown(stack, stack')
  PROVE  Layers!Add
  <1>1. PICK pos :
          Pushed(stack, stack', pos) /\ ~ IsSentinel(pos) /\ pos.depth = stack.depth
    BY DEF Grown
  <1> DEFINE a == AbstractLayers
             b == AbstractLayers'
             n == Len(a)
  <1>2. /\ Len(b) = n
        /\ \A d \in 1 .. n - 1 : b[d] = a[d]
        /\ Len(b[n]) = Len(a[n]) + 1
        /\ \A k \in 1 .. Len(a[n]) : b[n][k] = a[n][k]
    BY <1>1, PushLayers DEF Pushed, Grown, AbstractLayers
  <1>3. Len(a[n]) \in Nat
    <2>1. stack.depth \in Nat /\ n = stack.depth + 1
      BY LayersRead DEF AbstractLayers, StackType
    <2>2. n \in 1 .. stack.depth + 1
      BY <2>1
    <2>3. a[n] = EntriesAt(stack, n - 1)
      BY <2>2, LayersRead DEF AbstractLayers
    <2>4. Len(EntriesAt(stack, n - 1)) \in Nat
      BY LayersRead, EntriesAreLive
    <2> QED
      BY <2>3, <2>4
  <1> HIDE DEF a, b
  <1> QED
    BY <1>2, <1>3 DEF Layers!Add, Layers!Top, Layers!SameEntries, a, b

\* Verdicts and resets change outcomes of entries only.
LEMMA RejudgedIsJudge ==
  ASSUME stack \in StackType(Values), WellFormed(stack),
         stack' \in StackType(Values), WellFormed(stack'), Rejudged(stack, stack')
  PROVE  Layers!Judge
  <1> DEFINE a == AbstractLayers
             b == AbstractLayers'
  <1>1. /\ Len(b) = Len(a)
        /\ \A d \in 1 .. Len(a) :
             /\ Len(b[d]) = Len(a[d])
             /\ \A k \in 1 .. Len(a[d]) :
                  \E i \in 1 .. Size(stack) : /\ a[d][k] = Entry(stack.positions[i])
                                              /\ b[d][k] = Entry(stack'.positions[i])
    BY JudgeLayers DEF Rejudged, AbstractLayers
  <1>2. ASSUME NEW i \in 1 .. Size(stack)
        PROVE  Layers!Identity(Entry(stack.positions[i]))
                 = Layers!Identity(Entry(stack'.positions[i]))
    BY DEF Rejudged, KeptTo, Kept, SameShape, Layers!Identity, Entry
  <1>3. \A d \in 1 .. Len(a) : \A k \in 1 .. Len(a[d]) :
          Layers!Identity(a[d][k]) = Layers!Identity(b[d][k])
    BY <1>1, <1>2
  <1> HIDE DEF a, b
  <1> QED
    BY <1>1, <1>3 DEF Layers!Judge, Layers!SameEntries, a, b

\* Opening a layer.
LEMMA OpenLayerIsOpen ==
  ASSUME TypeOK, StackInv, OpenLayer
  PROVE  Layers!Open
  <1>1. stack \in StackType(Values) /\ WellFormed(stack)
    BY StackInvIsWellFormed DEF TypeOK
  <1>2. /\ stack' \in StackType(Values)
        /\ WellFormed(stack')
        /\ Size(stack') = Size(stack) + 1
        /\ AgreeTo(stack, stack', Size(stack))
        /\ IsSentinel(stack'.positions[Size(stack) + 1])
        /\ stack'.depth = stack.depth + 1
    BY OpenLayerStack DEF Pushed, Separator, IsSentinel
  <1> QED
    BY <1>1, <1>2, SeparatorLayers DEF Layers!Open, Layers!Below, AbstractLayers

\* Removing a layer: the top one, or what is in the only one.
LEMMA RemoveLayerIsClose ==
  ASSUME TypeOK, StackInv, RemoveLayer
  PROVE  Layers!Close
  <1>1. stack \in StackType(Values) /\ WellFormed(stack)
    BY StackInvIsWellFormed DEF TypeOK
  <1>2. CASE stack.last_separator # NoPos
    <2>1. /\ stack' \in StackType(Values)
          /\ WellFormed(stack')
          /\ Size(stack') = stack.last_separator - 1
          /\ AgreeTo(stack, stack', Size(stack'))
          /\ stack'.depth = stack.depth - 1
      BY <1>2, RemoveLayerStack
    <2> QED
      BY <1>1, <1>2, <2>1, RemoveLayers
      DEF Layers!Close, Layers!Below, AbstractLayers
  <1>3. CASE stack.last_separator = NoPos
    <2>1. stack' = EmptyStack
      BY <1>3, RemoveLayerStack
    <2>2. AbstractLayers' = << <<>> >>
      BY <2>1, EmptyLayers DEF AbstractLayers
    <2>3. stack.depth = 0
      <3>1. IsLastSeparator(stack, 0, Size(stack)) /\ Size(stack) \in Nat
        BY <1>3, SizesAreNumbers
        DEF StackInv, SeparatorChain, ChainExact, TypeOK, NoPos
      <3>2. SeparatorsTo(stack, Size(stack)) = {}
        BY <3>1 DEF IsLastSeparator, SeparatorsTo
      <3> QED
        BY <3>2, FS_EmptySet DEF StackInv, DepthExact, DepthsExact
    <2>4. Len(AbstractLayers) = 1
      <3>1. Len(AbstractLayers) = stack.depth + 1
        BY <1>1, LayersRead DEF AbstractLayers
      <3> QED
        BY <2>3, <3>1
    <2> QED
      BY <2>2, <2>4 DEF Layers!Close
  <1> QED
    BY <1>2, <1>3

\* Every step of the stack is a step of the abstract stack of layers or
\* leaves it alone.
LEMMA LayersStep ==
  ASSUME TypeOK, StackInv, [Next]_vars
  PROVE  [Layers!Next]_AbstractLayers
  <1>1. stack \in StackType(Values) /\ WellFormed(stack)
    BY StackInvIsWellFormed DEF TypeOK
  <1>2. CASE UNCHANGED stack
    BY <1>2 DEF AbstractLayers
  <1>3. CASE PushBasicPosition
    BY <1>1, <1>3, PushBasicPositionStack, GrownIsAdd DEF Layers!Next
  <1>4. CASE PushComposedPosition
    BY <1>1, <1>4, PushComposedPositionStack, GrownIsAdd DEF Layers!Next
  <1>5. CASE OpenLayer
    BY <1>5, OpenLayerIsOpen DEF Layers!Next
  <1>6. CASE RemoveLayer
    BY <1>6, RemoveLayerIsClose DEF Layers!Next
  <1>7. CASE JudgePosition
    BY <1>1, <1>7, JudgePositionStack, RejudgedIsJudge DEF Layers!Next
  <1>8. CASE ResetLayer
    BY <1>1, <1>8, ResetLayerStack, RejudgedIsJudge DEF Layers!Next
  <1>9. CASE IteratorStep
    BY <1>2, <1>9
    DEF IteratorStep, StartForward, NextForward, StartReverse, NextReverse
  <1> QED
    BY <1>2, <1>3, <1>4, <1>5, <1>6, <1>7, <1>8, <1>9
    DEF Next, vars, IteratorStep

\* The layers below the top one, and the outcomes in them, change by verdicts
\* only: the push functions, layer_reset_positions and layer_remove of
\* jso_schema_validation_stack.c act on the top layer.
THEOREM LowerLayersAlwaysStable == Spec => LowerLayersStable
  <1>1. ASSUME IndInv, [Next]_vars
        PROVE  [\A i \in 1 .. stack.last_separator - 1 :
                  /\ i <= Size(stack')
                  /\ \/ stack'.positions[i] = stack.positions[i]
                     \/ stack'.positions[i].out.result = "INVALID"]_vars
    BY <1>1, LowerKeptStep DEF IndInv, LowerKept
  <1> QED
    BY Invariance, <1>1, PTL DEF Spec, LowerLayersStable

\* The array with its separators, layer starts and depths implements the
\* abstract stack of layers of LayerStack: entries join the top layer only,
\* and a layer that is removed gives back exactly the layers below it.
THEOREM StackImplementsLayers == Spec => ImplementsLayerStack
  <1>1. Init => Layers!Init
    BY EmptyLayers DEF Init, Layers!Init, AbstractLayers
  <1>2. ASSUME IndInv, [Next]_vars
        PROVE  [Layers!Next]_AbstractLayers
    BY <1>2, LayersStep DEF IndInv
  <1> QED
    BY Invariance, <1>1, <1>2, PTL DEF Spec, ImplementsLayerStack, Layers!Spec
=============================================================================
