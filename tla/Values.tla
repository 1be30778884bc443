------------------------------- MODULE Values -------------------------------
(* The memory of values (jso_value.c, jso_array.c, jso_object.c, jso_string.h *)
(* and what jso_ht.c does to the entries): strings, arrays and objects are    *)
(* cells that count the references to them. A value is a record [t, n]: n is  *)
(* the cell of a string, an array or an object (0: the allocation failed and  *)
(* the value holds NULL), else a number. A heap is a record: the cells, and   *)
(* bad, which is TRUE once a cell was used that is not there. ok is the       *)
(* outcome of an allocation. The count starts at 0 for one reference.         *)
EXTENDS Integers, Sequences, FiniteSets

CONSTANTS MaxCells,  \* bound: the cells there may be at a time
          RefWidth   \* bound: jso_uint16 has RefWidth values

ASSUME ValuesAssumption == MaxCells \in Nat /\ RefWidth \in Nat \ {0}

Cell(kind, text) == [kind |-> kind, refcount |-> 0, text |-> text, items |-> <<>>]
NoCell == Cell("free", "")
EmptyHeap == [cells |-> [i \in 1..MaxCells |-> NoCell], bad |-> FALSE]

Counted == {"string", "array", "object"}
Live(h) == {i \in 1..MaxCells : h.cells[i].kind # "free"}
Value(t, n) == [t |-> t, n |-> n]
\* A zeroed jso_value is an error without an error.
Zeroed == Value("error", 0)
Misused(h) == [h EXCEPT !.bad = TRUE]

\* jso_string_create_from_cstr, jso_array_alloc and jso_object_alloc: [heap, cell].
Allocate(h, kind, text, ok) ==
    LET id == CHOOSE i \in 1..MaxCells : h.cells[i].kind = "free"
    IN  IF ok THEN [h |-> [h EXCEPT !.cells[id] = Cell(kind, text)], cell |-> id]
        ELSE [h |-> h, cell |-> 0]

\* jso_string_copy, jso_array_copy and jso_object_copy count one more and return the same.
CopyValue(h, v) ==
    IF v.t \notin Counted \/ v.n = 0 THEN h
    ELSE IF v.n \notin Live(h) THEN Misused(h)
    ELSE [h EXCEPT !.cells[v.n].refcount = (@ + 1) % RefWidth]

\* The cell a value refers to, or 0.
CellOf(v) == IF v.t \in Counted THEN v.n ELSE 0

\* How often the items of the cells in S refer to a cell, by their keys (an array's are 0) and
\* by their values.
ItemsOf(h, S) == UNION {{c} \X DOMAIN h.cells[c].items : c \in S}
KeyUses(h, S, id) == {p \in ItemsOf(h, S) : h.cells[p[1]].items[p[2]].key = id}
ValueUses(h, S, id) == {p \in ItemsOf(h, S) : CellOf(h.cells[p[1]].items[p[2]].val) = id}
Uses(h, S, id) == Cardinality(KeyUses(h, S, id)) + Cardinality(ValueUses(h, S, id))

\* Mutant: jso_array_clear instead, which keeps the values of the elements.
DroppedShallow(h, v, S, id) == IF CellOf(v) = id THEN 1 ELSE 0

\* The references to a cell that are freed with a value when the cells in S go with it:
\* jso_array_free and jso_ht_clear free the key and the value of every item.
Dropped(h, v, S, id) == Uses(h, S, id) + IF CellOf(v) = id THEN 1 ELSE 0

\* Mutant: the count of a cell is not looked at.
ClosedAtOnce(h, v, S) == \A id \in Live(h) : Dropped(h, v, S, id) > 0 => id \in S

\* A cell goes with the reference that finds its count at 0.
Closed(h, v, S) == \A id \in Live(h) : Dropped(h, v, S, id) > h.cells[id].refcount => id \in S
Going(h, v) == {id \in Live(h) : \A S \in SUBSET Live(h) : Closed(h, v, S) => id \in S}

\* The references a cell has been given, and takes back before it is misused.
Holders(h, id) == IF id \in Live(h) THEN h.cells[id].refcount + 1 ELSE 0

\* jso_value_free: the cascade of jso_string_free, jso_array_free and jso_object_free, each of
\* which counts down or frees what it has. What goes is the least set that is closed, in
\* whatever order; a cell is misused when it is freed more often than it was given away.
FreeValue(h, v) ==
    LET going == Going(h, v)
    IN  [cells |-> [id \in 1..MaxCells |->
                       IF id \in Live(h) \ going
                       THEN [h.cells[id] EXCEPT !.refcount = @ - Dropped(h, v, going, id)]
                       ELSE NoCell],
         bad |-> h.bad \/ \E id \in 1..MaxCells : Dropped(h, v, going, id) > Holders(h, id)]

Item(key, val) == [key |-> key, val |-> val]

\* jso_array_append: [heap, success].
ArrayAppend(h, id, v, ok) ==
    IF id \notin Live(h) THEN [h |-> Misused(h), rc |-> FALSE]
    ELSE IF ~ok THEN [h |-> h, rc |-> FALSE]
    ELSE [h |-> [h EXCEPT !.cells[id].items = Append(@, Item(0, v))], rc |-> TRUE]

\* The place of the entry with an equal key, or 0.
Place(h, id, text) ==
    LET same == {i \in DOMAIN h.cells[id].items :
                    h.cells[h.cells[id].items[i].key].text = text}
    IN  IF same = {} THEN 0 ELSE CHOOSE i \in same : TRUE

\* Mutant: an equal key is not looked for.
AddsTwice(h, id, key, v, ok) ==
    IF id \notin Live(h) THEN [h |-> Misused(h), rc |-> FALSE]
    ELSE IF ~ok THEN [h |-> h, rc |-> FALSE]
    ELSE [h |-> [h EXCEPT !.cells[id].items = Append(@, Item(key, v))], rc |-> TRUE]

\* jso_object_add (jso_ht_set, which frees the key it replaces and overwrites the value).
ObjectAdd(h, id, key, v, ok) ==
    IF id \notin Live(h) THEN [h |-> Misused(h), rc |-> FALSE]
    ELSE IF ~ok THEN [h |-> h, rc |-> FALSE]
    ELSE LET at == Place(h, id, h.cells[key].text)
         IN  IF at = 0
             THEN [h |-> [h EXCEPT !.cells[id].items = Append(@, Item(key, v))], rc |-> TRUE]
             ELSE [h |-> [FreeValue(h, Value("string", h.cells[id].items[at].key)) EXCEPT
                            !.cells[id].items[at] = Item(key, v)], rc |-> TRUE]
=============================================================================
