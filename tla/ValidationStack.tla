--------------------------- MODULE ValidationStack ---------------------------
(***************************************************************************)
(* The validation stack as a state machine: a stack and one iteration over *)
(* its top layer, driven by a client that keeps to the way the stream      *)
(* validator uses the API.  While an iteration runs, the client may grow   *)
(* the iterated layer (a forward iteration then also visits what was       *)
(* added), open layers above it, fill them and remove them again; it does  *)
(* not remove the iterated layer.                                          *)
(*                                                                         *)
(* stack_pop and stack_reset have no caller in the program and are not     *)
(* modelled; mark is written once and read only by stack_reset.            *)
(***************************************************************************)
EXTENDS StackOps

CONSTANTS
  Values,     \* schema values positions are pushed for
  Comps,      \* composition types in use
  MaxSize     \* bound on the size of the stack

ASSUME ValuesAssumption == NoValue \notin Values
ASSUME CompsAssumption == Comps \subseteq CompositionTypes \ {"NONE"}
ASSUME MaxSizeAssumption == MaxSize \in Nat \ {0}

VARIABLES
  stack,      \* the stack, a value of StackOps
  iter        \* the iteration in progress

vars == <<stack, iter>>

(***************************************************************************)
(* iter.at is the C iterator.  iter.base and iter.seen are history: the    *)
(* separator below the iterated layer and the positions returned so far.   *)
(***************************************************************************)
Idle == [mode |-> "idle", at |-> [index |-> 0, finished |-> FALSE],
         base |-> NoPos, seen |-> {}]

Init ==
  /\ stack = EmptyStack
  /\ iter = Idle

\* A position's parent is a position pushed before it, never a separator.
Parents ==
  {NoPos} \cup {i \in 1 .. Size(stack) : ~ IsSentinel(stack.positions[i])}

\* Positions join the iterated layer only on behalf of a position a forward
\* iterator has returned.  (Started on an empty layer, a forward iterator
\* stays on the separator: it would miss what is pushed above it.)
MayPush ==
  /\ Size(stack) < MaxSize
  /\ iter.mode # "idle" /\ stack.last_separator = iter.base =>
       iter.mode = "forward" /\ iter.seen # {}

PushBasicPosition ==
  /\ MayPush
  /\ \E v \in Values, p \in Parents : stack' = PushBasic(stack, v, p)
  /\ UNCHANGED iter

PushComposedPosition ==
  /\ MayPush
  /\ \E v \in Values, p \in Parents \ {NoPos}, c \in Comps :
       stack' = PushComposed(stack, v, p, c)
  /\ UNCHANGED iter

OpenLayer ==
  /\ Size(stack) < MaxSize
  /\ stack' = PushSeparator(stack)
  /\ UNCHANGED iter

RemoveLayer ==
  /\ Size(stack) > 0
  /\ iter.mode # "idle" => stack.last_separator # iter.base
  /\ stack' = LayerRemove(stack)
  /\ UNCHANGED iter

\* Validation writes an outcome to some position.
JudgePosition ==
  /\ \E i \in Parents \ {NoPos} :
       stack' = [stack EXCEPT !.positions[i].out =
                   [@ EXCEPT !.result = "INVALID", !.final = TRUE]]
  /\ UNCHANGED iter

ResetLayer ==
  /\ Size(stack) > 0
  /\ stack' = LayerResetPositions(stack)
  /\ UNCHANGED iter

StartForward ==
  /\ iter.mode = "idle"
  /\ Size(stack) > 0
  /\ iter' = [mode |-> "forward", at |-> ForwardStart(stack),
              base |-> stack.last_separator, seen |-> {}]
  /\ UNCHANGED stack

NextForward ==
  /\ iter.mode = "forward"
  /\ LET pos == ForwardNext(stack, iter.at) IN
       iter' = IF pos = NoPos
               THEN Idle
               ELSE [iter EXCEPT !.at = ForwardStep(@), !.seen = @ \cup {pos}]
  /\ UNCHANGED stack

StartReverse ==
  /\ iter.mode = "idle"
  /\ Size(stack) > 0
  /\ iter' = [mode |-> "reverse", at |-> ReverseStart(stack),
              base |-> stack.last_separator, seen |-> {}]
  /\ UNCHANGED stack

NextReverse ==
  /\ iter.mode = "reverse"
  /\ LET pos == ReverseNext(stack, iter.at) IN
       iter' = IF pos = NoPos
               THEN Idle
               ELSE [iter EXCEPT !.at = ReverseStep(stack, @),
                                 !.seen = @ \cup {pos}]
  /\ UNCHANGED stack

Next ==
  \/ PushBasicPosition
  \/ PushComposedPosition
  \/ OpenLayer
  \/ RemoveLayer
  \/ JudgePosition
  \/ ResetLayer
  \/ StartForward
  \/ NextForward
  \/ StartReverse
  \/ NextReverse

Spec == Init /\ [][Next]_vars

-----------------------------------------------------------------------------
IterType ==
  [mode : {"idle", "forward", "reverse"},
   at : [index : Nat, finished : BOOLEAN], base : Nat, seen : SUBSET Nat]

\* Every variable keeps its type: the fields of the C structures hold values
\* of their declared types.
TypeOK == stack \in StackType(Values) /\ iter \in IterType

(***************************************************************************)
(* The invariants of the stack.                                            *)
(***************************************************************************)

\* last_separator is the topmost separator of the stack and each separator's
\* parent is the one below it, so layer_remove always finds its way down.
SeparatorChain == ChainExact(stack)

\* layer_start of a position is where its layer begins: one above the
\* separator below it.  A forward iteration relies on the top position's.
LayerStartExact == LayerStartsExact(stack)

\* A position's parent pointer leads to a live position pushed before it and
\* never to a separator: result propagation follows it without a check.
ParentsLive == ParentsBelow(stack)

\* The stack's depth counts its open layers, and each position carries the
\* depth of the layer it was pushed into.
DepthExact == DepthsExact(stack)

\* What jso_schema_validation_stack.c keeps in its positions besides the values -
\* the links of the separators, the layer starts, the parents and the depths -
\* describes the same layers after every operation.
StackInv == SeparatorChain /\ LayerStartExact /\ ParentsLive /\ DepthExact

(***************************************************************************)
(* Iterations.                                                             *)
(***************************************************************************)

\* The positions of the layer that begins above separator base.
LayerAbove(base) ==
  {i \in base + 1 .. Size(stack) :
     \A k \in base + 1 .. i : ~ IsSentinel(stack.positions[k])}

OneLayer(from, to) == \A k \in from .. to : ~ IsSentinel(stack.positions[k])

\* A forward iteration started on an empty layer stays on its separator; any
\* other has returned what lies between the separator and its index.
ForwardExact ==
  LET i == iter.at.index
  IN  \/ /\ i = iter.base
         /\ iter.base # NoPos
         /\ iter.seen = {}
         /\ Size(stack) > i => IsSentinel(stack.positions[i + 1])
      \/ /\ i \in iter.base + 1 .. Size(stack) + 1
         /\ iter.seen = iter.base + 1 .. i - 1
         /\ OneLayer(iter.base + 1, i - 1)

ReverseExact ==
  LET i == iter.at.index
  IN  /\ i \in iter.base + 1 .. Size(stack) + 1
      /\ iter.seen = {k \in LayerAbove(iter.base) : k >= i}
      /\ OneLayer(iter.base + 1, i - 1)
      /\ IF iter.at.finished THEN i = iter.base + 1 ELSE i >= 2

\* While an iteration runs, the separator below its layer stays in place and
\* the iterator points into that layer, next to what it has returned: it
\* reads no position that was removed and none of another layer.
IteratorInLayer ==
  iter.mode # "idle" =>
    /\ \/ iter.base = NoPos
       \/ /\ iter.base \in 1 .. Size(stack)
          /\ IsSentinel(stack.positions[iter.base])
    /\ iter.mode = "forward" => ForwardExact
    /\ iter.mode = "reverse" => ReverseExact

\* An iteration that ends has returned every position of the layer it was
\* started on and no other, whatever the client pushed, opened and removed
\* in between.
IterationExact ==
  [][iter.mode # "idle" /\ iter'.mode = "idle" =>
       iter.seen = LayerAbove(iter.base)]_vars

\* The layers below the top one, and the outcomes in them, never change
\* except by a verdict written to one of their positions: what is pushed,
\* reset or removed is always the top layer.
LowerLayersStable ==
  [][\A i \in 1 .. stack.last_separator - 1 :
       /\ i <= Size(stack')
       /\ \/ stack'.positions[i] = stack.positions[i]
          \/ stack'.positions[i].out.result = "INVALID"]_vars

(***************************************************************************)
(* The stack implements the abstract stack of layers.                      *)
(***************************************************************************)
AbstractLayers == LayersOf(stack)

Layers == INSTANCE LayerStack WITH layers <- AbstractLayers

\* Every operation of the array-based stack is one of the abstract stack of
\* layers, or leaves it alone.
ImplementsLayerStack == Layers!Spec
=============================================================================
