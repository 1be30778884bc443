----------------------------- MODULE MCBuilder -----------------------------
(* The builder on a few cells, and the document it builds: the memory read    *)
(* back from the root implements Document, until a call runs out of memory.   *)
EXTENDS Builder

MCScalars == {Value("int", 0)}

RECURSIVE Tree(_)
Tree(v) ==
    IF v.t \notin Counted THEN [kind |-> v.t, items |-> <<>>]
    ELSE IF v.t = "string" THEN [kind |-> heap.cells[v.n].text, items |-> <<>>]
    ELSE [kind |-> v.t, items |-> [i \in DOMAIN heap.cells[v.n].items |->
            LET item == heap.cells[v.n].items[i]
            IN  <<IF item.key = 0 THEN "" ELSE heap.cells[item.key].text, Tree(item.val)>>]]

Root == IF failed \/ nodes = <<>> THEN [kind |-> "nothing", items |-> <<>>] ELSE Tree(nodes[1])
PlaceIn(k) == CHOOSE i \in DOMAIN heap.cells[nodes[k].n].items :
                heap.cells[nodes[k].n].items[i].val = nodes[k + 1]
Way == IF failed \/ current = 0 THEN <<>> ELSE [k \in 1..(current - 1) |-> PlaceIn(k)]
State == IF failed THEN "broken" ELSE IF nodes = <<>> THEN "empty"
         ELSE IF current = 0 THEN "closed" ELSE "open"

Document == INSTANCE Document WITH
    doc <- Root, path <- Way, state <- State, Names <- Texts,
    Scalars <- {[kind |-> k, items |-> <<>>] : k \in Texts \cup {v.t : v \in Scalars}}

\* As long as no call runs out of memory, the calls that are not refused build the document
\* they say, an item at a time at the innermost open container: a member of the same name
\* is replaced in its place, and what is behind the open levels never changes.
BuildsDocument == Document!Spec
=============================================================================
