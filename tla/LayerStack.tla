----------------------------- MODULE LayerStack -----------------------------
(***************************************************************************)
(* What the validation stack promises its users, without separators,       *)
(* indices or depths: a stack of layers, each a sequence of entries.       *)
(* Entries are added to the top layer only; a layer is opened empty, and   *)
(* closing it gives back exactly the layers below it.  An entry is what    *)
(* the user put there (kind, composition, schema value) and the outcome    *)
(* validation wrote to it since.                                           *)
(*                                                                         *)
(* The module is the target of the refinement of ValidationStack, so its   *)
(* actions are predicates on layers and layers'.                           *)
(***************************************************************************)
EXTENDS Integers, Sequences

VARIABLE layers

Top(ls) == ls[Len(ls)]

\* Everything but the outcome of an entry is fixed when it is added.
Identity(e) == [type |-> e.type, comp |-> e.comp, value |-> e.value]

SameEntries(l1, l2) ==
  /\ Len(l1) = Len(l2)
  /\ \A i \in 1 .. Len(l1) : Identity(l1[i]) = Identity(l2[i])

Init == layers = << <<>> >>

Below(n) == \A d \in 1 .. n : layers'[d] = layers[d]

\* The top layer grows at its end by one or more entries.  The outcomes of
\* the entries on whose behalf this happens may change with it.
Add ==
  LET n == Len(layers)
      old == Top(layers)
  IN  /\ Len(layers') = n
      /\ \A d \in 1 .. n - 1 : SameEntries(layers[d], layers'[d])
      /\ Len(layers'[n]) > Len(old)
      /\ \A i \in 1 .. Len(old) : Identity(layers'[n][i]) = Identity(old[i])

Open ==
  /\ Len(layers') = Len(layers) + 1
  /\ Below(Len(layers))
  /\ layers'[Len(layers) + 1] = <<>>

\* The bottom layer cannot be closed, only emptied.
Close ==
  \/ /\ Len(layers) > 1
     /\ Len(layers') = Len(layers) - 1
     /\ Below(Len(layers) - 1)
  \/ /\ Len(layers) = 1
     /\ layers' = << <<>> >>

\* The outcomes of entries change, the entries stay.
Judge ==
  /\ Len(layers') = Len(layers)
  /\ \A d \in 1 .. Len(layers) : SameEntries(layers[d], layers'[d])

Next == Add \/ Open \/ Close \/ Judge

Spec == Init /\ [][Next]_layers
=============================================================================
