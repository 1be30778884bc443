------------------------------ MODULE Builder ------------------------------
(* The builder (jso_builder.c) on the memory of values, and a client that     *)
(* calls it in any order, also after a call failed. The levels are kept in    *)
(* nodes[1], nodes[2], ... (the list from first); current is the place of the *)
(* open one, 0 for NULL. Any allocation of a call may fail; the actions with  *)
(* NoString and NoKey in their names are calls whose strings are not made.    *)
EXTENDS Values

CONSTANTS Scalars,   \* values without a cell: null, bool, int and double
          Texts,     \* the texts of strings; keys have them too
          MaxLossy,  \* bound: the cells after a call that lost some, see lossy
          MaxNodes,  \* bound: the nesting
          MaxItems,  \* bound: the items of a container
          MaxHeld    \* bound: what the client owns at a time

ASSUME BuilderAssumption == /\ MaxLossy \in 0..MaxCells /\ {MaxNodes, MaxItems, MaxHeld} \subseteq Nat
                            /\ \A v \in Scalars : v.t \notin Counted

VARIABLES heap,
          nodes,    \* the values of the levels
          current,
          held,     \* the values the client owns
          failed,   \* TRUE since a call ran out of memory, until the builder is cleared
          lossy     \* TRUE since a call ran out of memory, replaced a value or began a
                    \* new root

vars == <<heap, nodes, current, held, failed, lossy>>

Init == /\ heap = EmptyHeap
        /\ nodes = <<>> /\ current = 0
        /\ held = <<>> /\ failed = FALSE /\ lossy = FALSE

Kinds == {"array", "object"}
IsOpen(kind) == current # 0 /\ nodes[current].t = kind
TheCell == nodes[current].n
HasRoom == TheCell \notin Live(heap) \/ Len(heap.cells[TheCell].items) < MaxItems

\* Bound: room for n more cells.
Room(n) == Cardinality(Live(heap)) + n <= IF lossy THEN MaxLossy ELSE MaxCells

\* Bound: one call runs out of memory (also two of its allocations), none after a loss.
Outcomes == IF lossy THEN {TRUE} ELSE BOOLEAN

\* A call that is refused changes nothing.
Refused == UNCHANGED vars

Noted(ranOut, lost) == failed' = (failed \/ ranOut) /\ lossy' = (lossy \/ ranOut \/ lost)

\* jso_builder_set_array and _object, on the node at k.
SetContainer(h, list, k, kind, ok) ==
    LET a == Allocate(h, kind, "", ok)
    IN  [h |-> a.h, nodes |-> IF a.cell = 0 THEN list ELSE [list EXCEPT ![k] = Value(kind, a.cell)],
         rc |-> a.cell # 0]

\* jso_builder_array_start and _object_start. What the first node held is overwritten.
Start ==
    /\ Room(1)
    /\ \E kind \in Kinds, nodeOk \in Outcomes, ok \in Outcomes :
        LET list == IF nodes = <<>> THEN <<Zeroed>> ELSE nodes
            s == SetContainer(heap, list, 1, kind, ok)
        IN  IF current # 0 THEN Refused
            ELSE IF nodes = <<>> /\ ~nodeOk THEN UNCHANGED <<heap, nodes, current>> /\ Noted(TRUE, FALSE)
            ELSE /\ heap' = s.h /\ nodes' = s.nodes /\ current' = 1
                 /\ Noted(~ok, list[1] # Zeroed)
    /\ UNCHANGED held

\* jso_builder_array_add_null, _bool, _int and _double.
ArrayAddScalar ==
    /\ IsOpen("array") => HasRoom
    /\ \E v \in Scalars, ok \in Outcomes :
        LET a == ArrayAppend(heap, TheCell, v, ok)
        IN  IF ~IsOpen("array") THEN Refused
            ELSE heap' = a.h /\ Noted(~a.rc, FALSE) /\ UNCHANGED <<nodes, current>>
    /\ UNCHANGED held

\* jso_builder_array_add_cstr: the new string is lost when it cannot be appended (for one
\* that is not allocated: ArrayAddNoString).
ArrayAddCstr ==
    /\ IsOpen("array") => HasRoom
    /\ Room(1)
    /\ \E text \in Texts, ok \in Outcomes :
        LET s == Allocate(heap, "string", text, TRUE)
            a == ArrayAppend(s.h, TheCell, Value("string", s.cell), ok)
        IN  IF ~IsOpen("array") THEN Refused
            ELSE heap' = a.h /\ Noted(~a.rc, FALSE) /\ UNCHANGED <<nodes, current>>
    /\ UNCHANGED held

Without(s, i) == SubSeq(s, 1, i - 1) \o SubSeq(s, i + 1, Len(s))

\* jso_builder_array_add_string: the client's reference goes to the array on success.
ArrayAddString ==
    /\ IsOpen("array") => HasRoom
    /\ \E i \in {j \in DOMAIN held : held[j].t = "string"}, ok \in Outcomes :
        LET a == ArrayAppend(heap, TheCell, held[i], ok)
        IN  IF ~IsOpen("array") THEN Refused
            ELSE /\ heap' = a.h /\ Noted(~a.rc, FALSE)
                 /\ held' = IF a.rc THEN Without(held, i) ELSE held
                 /\ UNCHANGED <<nodes, current>>

\* A key replaces one that is there, and the value of that one is lost.
Replaces(h, key) == Place(h, TheCell, h.cells[key].text) # 0

\* jso_builder_object_add_null, _bool, _int and _double: the key is lost when the entry
\* cannot be added (for a key that is not allocated: ObjectAddNoKey).
ObjectAddScalar ==
    /\ IsOpen("object") => HasRoom
    /\ Room(1)
    /\ \E text \in Texts, v \in Scalars, ok \in Outcomes :
        LET k == Allocate(heap, "string", text, TRUE)
            a == ObjectAdd(k.h, TheCell, k.cell, v, ok)
        IN  IF ~IsOpen("object") THEN Refused
            ELSE /\ heap' = a.h /\ Noted(~a.rc, Replaces(k.h, k.cell))
                 /\ UNCHANGED <<nodes, current>>
    /\ UNCHANGED held

\* jso_builder_object_add_cstr.
ObjectAddCstr ==
    /\ IsOpen("object") => HasRoom
    /\ Room(2)
    /\ \E text \in Texts, value \in Texts, ok \in Outcomes :
        LET k == Allocate(heap, "string", text, TRUE)
            s == Allocate(k.h, "string", value, TRUE)
            a == ObjectAdd(s.h, TheCell, k.cell, Value("string", s.cell), ok)
        IN  IF ~IsOpen("object") THEN Refused
            ELSE /\ heap' = a.h /\ Noted(~a.rc, Replaces(s.h, k.cell))
                 /\ UNCHANGED <<nodes, current>>
    /\ UNCHANGED held

\* jso_builder_object_add_string.
ObjectAddString ==
    /\ IsOpen("object") => HasRoom
    /\ Room(1)
    /\ \E i \in {j \in DOMAIN held : held[j].t = "string"}, text \in Texts, ok \in Outcomes :
        LET k == Allocate(heap, "string", text, TRUE)
            a == ObjectAdd(k.h, TheCell, k.cell, held[i], ok)
        IN  IF ~IsOpen("object") THEN Refused
            ELSE /\ heap' = a.h /\ Noted(~a.rc, Replaces(k.h, k.cell))
                 /\ held' = IF a.rc THEN Without(held, i) ELSE held
                 /\ UNCHANGED <<nodes, current>>

\* jso_builder_move_next: a node that is there already is taken with the value it has.
MoveNext(ok) ==
    IF current < Len(nodes) THEN [nodes |-> nodes, rc |-> TRUE]
    ELSE IF ok THEN [nodes |-> Append(nodes, Zeroed), rc |-> TRUE]
    ELSE [nodes |-> nodes, rc |-> FALSE]

\* jso_builder_array_add_array_start and _object_start. current moves before the container
\* is made and appended, and stays where it is when that fails.
ArrayAddStart ==
    /\ IsOpen("array") => HasRoom /\ current < MaxNodes
    /\ Room(1)
    /\ \E kind \in Kinds, nodeOk \in Outcomes, setOk \in Outcomes, ok \in Outcomes :
        LET m == MoveNext(nodeOk)
            s == SetContainer(heap, m.nodes, current + 1, kind, setOk)
            a == ArrayAppend(s.h, TheCell, s.nodes[current + 1], ok)
        IN  IF ~IsOpen("array") THEN Refused
            ELSE IF ~m.rc THEN Noted(TRUE, FALSE) /\ UNCHANGED <<heap, nodes, current>>
            ELSE /\ current' = current + 1 /\ nodes' = s.nodes
                 /\ heap' = IF s.rc THEN a.h ELSE s.h
                 /\ Noted(~s.rc \/ ~a.rc, FALSE)
    /\ UNCHANGED held

\* jso_builder_object_add_array_start and _object_start.
ObjectAddStart ==
    /\ IsOpen("object") => HasRoom /\ current < MaxNodes
    /\ Room(2)
    /\ \E text \in Texts, kind \in Kinds, nodeOk \in Outcomes, setOk \in Outcomes, ok \in Outcomes :
        LET m == MoveNext(nodeOk)
            s == SetContainer(heap, m.nodes, current + 1, kind, setOk)
            k == Allocate(s.h, "string", text, TRUE)
            a == ObjectAdd(k.h, TheCell, k.cell, s.nodes[current + 1], ok)
        IN  IF ~IsOpen("object") THEN Refused
            ELSE IF ~m.rc THEN Noted(TRUE, FALSE) /\ UNCHANGED <<heap, nodes, current>>
            ELSE /\ current' = current + 1 /\ nodes' = s.nodes
                 /\ heap' = IF s.rc THEN a.h ELSE s.h
                 /\ Noted(~s.rc \/ ~a.rc, Replaces(k.h, k.cell))
    /\ UNCHANGED held

\* A string that was not allocated: the calls do not look, and store a value with NULL.
NoString == Value("string", 0)

\* Bound: a call is without its string while none was lost and there is room for two cells.
MayFail == FALSE \in Outcomes /\ Room(2)

\* jso_builder_array_add_cstr without its string, which is a success all the same.
ArrayAddNoString ==
    /\ MayFail /\ IsOpen("array") /\ HasRoom
    /\ \E ok \in Outcomes : heap' = ArrayAppend(heap, TheCell, NoString, ok).h
    /\ Noted(TRUE, FALSE) /\ UNCHANGED <<nodes, current, held>>

\* jso_builder_object_add_cstr without its value, likewise.
ObjectAddNoString ==
    /\ MayFail /\ IsOpen("object") /\ HasRoom
    /\ \E text \in Texts, ok \in Outcomes :
        LET k == Allocate(heap, "string", text, TRUE)
        IN  heap' = ObjectAdd(k.h, TheCell, k.cell, NoString, ok).h
    /\ Noted(TRUE, FALSE) /\ UNCHANGED <<nodes, current, held>>

\* Every jso_builder_object_add_ call without its key: jso_ht_set refuses when the table must
\* grow and cannot, and the new string value of _cstr is lost. In every other case it looks
\* at the key and the process ends, which is no step.
ObjectAddNoKey ==
    /\ MayFail /\ IsOpen("object")
    /\ \E made \in BOOLEAN, text \in Texts : heap' = Allocate(heap, "string", text, made).h
    /\ Noted(TRUE, FALSE) /\ UNCHANGED <<nodes, current, held>>

\* jso_builder_object_add_array_start and _object_start without the key, likewise.
ObjectAddStartNoKey ==
    /\ MayFail /\ IsOpen("object") /\ current < MaxNodes
    /\ \E kind \in Kinds :
        LET s == SetContainer(heap, MoveNext(TRUE).nodes, current + 1, kind, TRUE)
        IN  heap' = s.h /\ nodes' = s.nodes
    /\ current' = current + 1
    /\ Noted(TRUE, FALSE) /\ UNCHANGED held

\* jso_builder_array_end and _object_end.
End ==
    /\ \E kind \in Kinds :
        IF IsOpen(kind) THEN current' = current - 1 ELSE UNCHANGED current
    /\ UNCHANGED <<heap, nodes, held, failed, lossy>>

\* jso_builder_clear by a client that took the value (jso_builder_get_value) before.
TakeAndClear ==
    /\ nodes # <<>> /\ Len(held) < MaxHeld
    /\ held' = IF nodes[1].t \in Counted THEN Append(held, nodes[1]) ELSE held
    /\ nodes' = <<>> /\ current' = 0 /\ failed' = FALSE
    /\ UNCHANGED <<heap, lossy>>

\* jso_builder_clear_all. On a builder that built nothing it is not called: the value
\* jso_builder_get_value returns is NULL then, and jso_value_free reads its type.
ClearAll ==
    /\ nodes # <<>>
    /\ heap' = FreeValue(heap, nodes[1])
    /\ nodes' = <<>> /\ current' = 0 /\ failed' = FALSE
    /\ UNCHANGED <<held, lossy>>

\* The client makes a string, copies the root or a value it has, and frees what it has.
NewString ==
    /\ Len(held) < MaxHeld /\ Room(1)
    /\ \E text \in Texts :
        LET s == Allocate(heap, "string", text, TRUE)
        IN  heap' = s.h /\ held' = Append(held, Value("string", s.cell))
    /\ UNCHANGED <<nodes, current, failed, lossy>>

CopyRoot ==
    /\ nodes # <<>> /\ nodes[1].t \in Counted /\ Len(held) < MaxHeld
    /\ heap' = CopyValue(heap, nodes[1])
    /\ held' = Append(held, nodes[1])
    /\ UNCHANGED <<nodes, current, failed, lossy>>

FreeHeld ==
    /\ \E i \in DOMAIN held : heap' = FreeValue(heap, held[i]) /\ held' = Without(held, i)
    /\ UNCHANGED <<nodes, current, failed, lossy>>

Next == \/ Start \/ ArrayAddScalar \/ ArrayAddCstr \/ ArrayAddString
        \/ ObjectAddScalar \/ ObjectAddCstr \/ ObjectAddString
        \/ ArrayAddStart \/ ObjectAddStart \/ End
        \/ ArrayAddNoString \/ ObjectAddNoString \/ ObjectAddNoKey \/ ObjectAddStartNoKey
        \/ TakeAndClear \/ ClearAll \/ NewString \/ CopyRoot \/ FreeHeld

Spec == Init /\ [][Next]_vars
-----------------------------------------------------------------------------
\* How often a cell is referred to: by the items of the live containers, by the root and by
\* the client. The inner levels repeat a reference of their parent's item.
HeldUses(id) == {i \in DOMAIN held : CellOf(held[i]) = id}
RootUses(id) == IF nodes # <<>> /\ CellOf(nodes[1]) = id THEN 1 ELSE 0
References(id) == Uses(heap, Live(heap), id) + Cardinality(HeldUses(id)) + RootUses(id)

\* No call, in whatever order and whichever of its allocations fails (up to a key's that is
\* looked at), uses a string, array or object that is gone, and every level down to the open
\* one is a container that is still there.
NoDangling ==
    /\ ~heap.bad
    /\ \A k \in 1..current : nodes[k].t \in Kinds => nodes[k].n \in Live(heap)

\* A cell never counts fewer references than it has; and as long as no call failed, no
\* member was replaced and no second root begun, it counts exactly those: what nobody
\* refers to is freed.
CountsExact ==
    \A id \in Live(heap) :
        /\ References(id) <= heap.cells[id].refcount + 1
        /\ ~lossy => References(id) = heap.cells[id].refcount + 1
=============================================================================
