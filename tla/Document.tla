------------------------------ MODULE Document ------------------------------
(* What a builder promises: a document that grows at the innermost of its     *)
(* open containers. path is the way to that container, one place per level.   *)
EXTENDS Integers, Sequences

CONSTANTS Scalars,  \* what is added besides containers
          Names     \* the names of members

VARIABLES doc,   \* the document: [kind, items], an item being <<name, item>>
          path,  \* the places of the open containers, the outermost first
          state  \* "empty", "open" (path is open), "closed" or "broken"

vars == <<doc, path, state>>

Nothing == [kind |-> "nothing", items |-> <<>>]
NoName == ""
Container(kind) == [kind |-> kind, items |-> <<>>]

RECURSIVE Inner(_, _), Replaced(_, _, _)
Inner(d, p) == IF p = <<>> THEN d ELSE Inner(d.items[p[1]][2], Tail(p))
Replaced(d, p, x) ==
    IF p = <<>> THEN x
    ELSE [d EXCEPT !.items[p[1]] = <<@[1], Replaced(@[2], Tail(p), x)>>]

\* Where an item with that name goes: a member of that name is replaced.
PlaceOf(c, name) ==
    IF c.kind = "object" /\ \E i \in DOMAIN c.items : c.items[i][1] = name
    THEN CHOOSE i \in DOMAIN c.items : c.items[i][1] = name
    ELSE Len(c.items) + 1

With(c, name, x) ==
    LET at == PlaceOf(c, name)
    IN  [c EXCEPT !.items = IF at \in DOMAIN @ THEN [@ EXCEPT ![at] = <<name, x>>]
                            ELSE Append(@, <<name, x>>)]

Init == doc = Nothing /\ path = <<>> /\ state = "empty"

Begin(kind) ==
    /\ state \in {"empty", "closed"}
    /\ doc' = Container(kind) /\ path' = <<>> /\ state' = "open"

Named(name) == IF Inner(doc, path).kind = "object" THEN name \in Names ELSE name = NoName

Add(name, x) ==
    /\ state = "open" /\ Named(name)
    /\ doc' = Replaced(doc, path, With(Inner(doc, path), name, x))
    /\ UNCHANGED <<path, state>>

AddOpen(name, kind) ==
    /\ state = "open" /\ Named(name)
    /\ LET c == Inner(doc, path)
       IN  /\ doc' = Replaced(doc, path, With(c, name, Container(kind)))
           /\ path' = Append(path, PlaceOf(c, name))
    /\ UNCHANGED state

End == /\ state = "open"
       /\ IF path = <<>> THEN state' = "closed" /\ UNCHANGED path
          ELSE path' = SubSeq(path, 1, Len(path) - 1) /\ UNCHANGED state
       /\ UNCHANGED doc

Drop == doc' = Nothing /\ path' = <<>> /\ state' = "empty"

\* A step that ran out of memory half way: nothing is promised until the next Drop.
Break == doc' = Nothing /\ path' = <<>> /\ state' = "broken"

Next == \/ \E kind \in {"array", "object"} : Begin(kind)
        \/ \E name \in Names \cup {NoName}, x \in Scalars : Add(name, x)
        \/ \E name \in Names \cup {NoName}, kind \in {"array", "object"} : AddOpen(name, kind)
        \/ End \/ Drop \/ Break

Spec == Init /\ [][Next]_vars
=============================================================================
