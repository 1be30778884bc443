------------------------------ MODULE StackOps ------------------------------
(***************************************************************************)
(* The validation stack of src/schema/jso_schema_validation_stack.c as a   *)
(* value and the operators of its API on that value.  The modules that     *)
(* keep a stack (ValidationStack, ValidationStream) apply them to their    *)
(* own variable.                                                           *)
(*                                                                         *)
(* The C array positions[0 .. size-1] is the sequence stk.positions, so    *)
(* size is Len(stk.positions) and a pointer to a position is its index     *)
(* counted from 1; NULL is NoPos = 0.  With that numbering the layer_start *)
(* the code computes, last_separator - positions + 1, is last_separator + 1*)
(* whether last_separator is NULL or not.                                  *)
(***************************************************************************)
EXTENDS Integers, Sequences, FiniteSets

NoPos == 0

PositionTypes == {"BASIC", "COMPOSED", "SENTINEL"}

CompositionTypes ==
  {"NONE", "TYPE_ANY", "TYPE_LIST", "ALL", "ANY", "ONE", "NOT", "REF"}

Results == {"VALID", "INVALID", "ERROR"}

InvalidReasons == {"NONE", "TYPE", "VALUE", "COMPOSITION", "KEYWORD"}

CONSTANT NoValue   \* the schema value of a sentinel, which memset leaves NULL

\* The mutable outcome of a position: everything validation writes to a
\* position after it was pushed (jso_schema.h names each field).
FreshOutcome ==
  [result |-> "VALID", reason |-> "NONE", final |-> FALSE, count |-> 0,
   one_of_valid |-> FALSE, any_of_valid |-> FALSE, type_valid |-> FALSE]

\* The types of the C structures, for positions of schema values in V.
OutcomeType ==
  [result : Results, reason : InvalidReasons, final : BOOLEAN, count : Nat,
   one_of_valid : BOOLEAN, any_of_valid : BOOLEAN, type_valid : BOOLEAN]

PositionType(V) ==
  [position_type : PositionTypes, composition_type : CompositionTypes,
   value : V \cup {NoValue}, parent : Nat, layer_start : Nat \ {0},
   depth : Nat, out : OutcomeType]

StackType(V) ==
  [positions : Seq(PositionType(V)), last_separator : Nat, depth : Nat]

(***************************************************************************)
(* Positions as the push functions leave them.                             *)
(***************************************************************************)

\* push_basic and push_composed: one layer with everything after the last
\* separator.
Position(stk, type, comp, value, parent) ==
  [position_type |-> type, composition_type |-> comp, value |-> value,
   parent |-> parent, layer_start |-> stk.last_separator + 1,
   depth |-> stk.depth, out |-> FreshOutcome]

\* Mutant: the separators are not linked.
SeparatorUnlinked(stk) ==
  [position_type |-> "SENTINEL", composition_type |-> "NONE",
   value |-> NoValue, parent |-> NoPos,
   layer_start |-> Len(stk.positions) + 1, depth |-> 0, out |-> FreshOutcome]

\* push_separator: the parent links the separators, the layer starts at the
\* separator itself, and the depth stays 0 as memset left it.
Separator(stk) ==
  [position_type |-> "SENTINEL", composition_type |-> "NONE",
   value |-> NoValue, parent |-> stk.last_separator,
   layer_start |-> Len(stk.positions) + 1, depth |-> 0, out |-> FreshOutcome]

IsSentinel(pos) == pos.position_type = "SENTINEL"

(***************************************************************************)
(* The stack operations.                                                   *)
(***************************************************************************)

EmptyStack == [positions |-> <<>>, last_separator |-> NoPos, depth |-> 0]

Size(stk) == Len(stk.positions)

PushBasic(stk, value, parent) ==
  [stk EXCEPT !.positions =
     Append(@, Position(stk, "BASIC", "NONE", value, parent))]

PushComposed(stk, value, parent, comp) ==
  [stk EXCEPT !.positions =
     Append(@, Position(stk, "COMPOSED", comp, value, parent))]

PushSeparator(stk) ==
  [positions |-> Append(stk.positions, Separator(stk)),
   last_separator |-> Size(stk) + 1,
   depth |-> stk.depth + 1]

\* Mutant: an off-by-one takes a position of the layer below too.
LayerRemoveTooMuch(stk) ==
  IF stk.last_separator # NoPos
  THEN [positions |-> SubSeq(stk.positions, 1, stk.last_separator - 2),
        last_separator |-> stk.positions[stk.last_separator].parent,
        depth |-> stk.depth - 1]
  ELSE [stk EXCEPT !.positions = <<>>, !.depth = 0]

LayerRemove(stk) ==
  IF stk.last_separator # NoPos
  THEN [positions |-> SubSeq(stk.positions, 1, stk.last_separator - 1),
        last_separator |-> stk.positions[stk.last_separator].parent,
        depth |-> stk.depth - 1]
  ELSE [stk EXCEPT !.positions = <<>>, !.depth = 0]

(***************************************************************************)
(* The layer iterators: [index, finished].  A forward iterator names the   *)
(* position it returns next, a reverse iterator the one it returned last.  *)
(***************************************************************************)

\* Mutant: begins at the bottom of the stack.
ForwardStartAtBottom(stk) == [index |-> 1, finished |-> FALSE]

\* layer_iterator_start: begins where the layer of the top position begins.
ForwardStart(stk) ==
  [index |-> stk.positions[Size(stk)].layer_start, finished |-> FALSE]

\* Mutant: stops one position early.
ForwardNextShort(stk, it) ==
  IF it.index >= Size(stk) \/ IsSentinel(stk.positions[it.index])
  THEN NoPos
  ELSE it.index

\* layer_iterator_next: the position it returns, NoPos for NULL.
ForwardNext(stk, it) ==
  IF it.index > Size(stk) \/ IsSentinel(stk.positions[it.index])
  THEN NoPos
  ELSE it.index

ForwardStep(it) == [it EXCEPT !.index = @ + 1]

\* layer_reverse_iterator_start: begins one above the top position.
ReverseStart(stk) == [index |-> Size(stk) + 1, finished |-> FALSE]

\* layer_reverse_iterator_next: the position it returns, NoPos for NULL.
ReverseNext(stk, it) ==
  IF it.finished \/ IsSentinel(stk.positions[it.index - 1])
  THEN NoPos
  ELSE it.index - 1

\* Mutant: does not stop at the bottom of the stack.
ReverseStepUnbounded(stk, it) ==
  [index |-> it.index - 1,
   finished |-> IsSentinel(stk.positions[it.index - 1])]

\* The call that meets the sentinel or the bottom of the stack is the last
\* one to look at a position.
ReverseStep(stk, it) ==
  [index |-> it.index - 1,
   finished |-> IsSentinel(stk.positions[it.index - 1]) \/ it.index = 2]

\* Mutant: every layer is reset.
AllPositions(stk) ==
  {i \in 1 .. Size(stk) : ~ IsSentinel(stk.positions[i])}

\* layer_reset_positions: a forward pass over the layer of the top position.
LayerPositions(stk) ==
  LET start == ForwardStart(stk).index
  IN  {i \in start .. Size(stk) :
         \A k \in start .. i : ~ IsSentinel(stk.positions[k])}

LayerResetPositions(stk) ==
  [stk EXCEPT !.positions =
     [i \in DOMAIN @ |->
        IF i \in LayerPositions(stk)
        THEN [@[i] EXCEPT !.out = FreshOutcome]
        ELSE @[i]]]

(***************************************************************************)
(* The bookkeeping of a stack, in terms of its separators.                 *)
(***************************************************************************)
SeparatorsTo(stk, n) == {k \in 1 .. n : IsSentinel(stk.positions[k])}

\* i is the last separator at or below position n (NoPos: there is none).
IsLastSeparator(stk, i, n) ==
  /\ i = NoPos \/ (i \in 1 .. n /\ IsSentinel(stk.positions[i]))
  /\ \A k \in i + 1 .. n : ~ IsSentinel(stk.positions[k])

ChainExact(stk) ==
  /\ IsLastSeparator(stk, stk.last_separator, Size(stk))
  /\ \A i \in 1 .. Size(stk) :
       IsSentinel(stk.positions[i]) =>
         IsLastSeparator(stk, stk.positions[i].parent, i - 1)

LayerStartsExact(stk) ==
  \A i \in 1 .. Size(stk) :
    IF IsSentinel(stk.positions[i])
    THEN stk.positions[i].layer_start = i
    ELSE IsLastSeparator(stk, stk.positions[i].layer_start - 1, i)

ParentsBelow(stk) ==
  \A i \in 1 .. Size(stk) :
    ~ IsSentinel(stk.positions[i]) =>
      /\ stk.positions[i].parent < i
      /\ stk.positions[i].parent # NoPos =>
           ~ IsSentinel(stk.positions[stk.positions[i].parent])

DepthsExact(stk) ==
  /\ stk.depth = Cardinality(SeparatorsTo(stk, Size(stk)))
  /\ \A i \in 1 .. Size(stk) :
       ~ IsSentinel(stk.positions[i]) =>
         stk.positions[i].depth = Cardinality(SeparatorsTo(stk, i))

(***************************************************************************)
(* The layers of a stack: the depth field alone decides to which layer a   *)
(* position belongs.  LayerStack specifies how layers may change.          *)
(***************************************************************************)
Entry(pos) ==
  [type |-> pos.position_type, comp |-> pos.composition_type,
   value |-> pos.value, out |-> pos.out]

\* The positions of the layer at depth d: they lie one after another.
PositionsAt(stk, d) ==
  {i \in 1 .. Size(stk) :
     ~ IsSentinel(stk.positions[i]) /\ stk.positions[i].depth = d}

Lowest(indices) == CHOOSE i \in indices : \A j \in indices : i <= j

EntriesAt(stk, d) ==
  LET at == PositionsAt(stk, d)
  IN  [k \in 1 .. Cardinality(at) |-> Entry(stk.positions[Lowest(at) + k - 1])]

LayersOf(stk) == [d \in 1 .. stk.depth + 1 |-> EntriesAt(stk, d - 1)]
=============================================================================
