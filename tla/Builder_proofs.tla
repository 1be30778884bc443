-------------------------- MODULE Builder_proofs --------------------------
(* The memory of values under the builder: what each operation on the heap    *)
(* does to the references there are, and the invariant of the builder.        *)
EXTENDS Builder, FiniteSetTheorems, SequenceTheorems, TLAPS

Ids == 1..MaxCells
ValueSet == Scalars \cup [t : Counted, n : Ids] \cup {NoString}
ItemSet == [key : 0..MaxCells, val : ValueSet]
CellSet == [kind : Counted \cup {"free"}, refcount : Nat, text : Texts \cup {""},
            items : Seq(ItemSet)]
HeapSet == [cells : [Ids -> CellSet], bad : BOOLEAN]

Tallies == [Ids -> Nat]

KindOf(h, id) == h.cells[id].kind

\* A heap as the operations keep it.
HeapInv(h) ==
    /\ h \in HeapSet
    /\ \A id \in Ids : KindOf(h, id) = "free" => h.cells[id] = NoCell
    /\ \A id \in Ids : KindOf(h, id) = "string" =>
          h.cells[id].items = <<>> /\ h.cells[id].refcount = 0
    /\ \A id \in Ids : Len(h.cells[id].items) <= MaxItems
    /\ \A id \in Ids : \A i \in DOMAIN h.cells[id].items :
          h.cells[id].items[i].key # 0 => KindOf(h, h.cells[id].items[i].key) = "string"

\* e tells how many references there are to a cell besides those of the items.
Fits(h, e) == \A id \in Ids : Uses(h, Live(h), id) + e[id] <= Holders(h, id)
Exact(h, e) == \A id \in Ids : Uses(h, Live(h), id) + e[id] = Holders(h, id)

\* The containers in A stay when all that refers to them from outside of A is freed.
Guards(h, A, e) ==
    /\ A \subseteq Ids
    /\ \A id \in A : /\ KindOf(h, id) \in Kinds
                     /\ Uses(h, Live(h) \ A, id) + e[id] <= h.cells[id].refcount

\* One reference more.
Given(e, v) == [id \in Ids |-> e[id] + IF CellOf(v) = id THEN 1 ELSE 0]
Key(id) == Value("string", id)
-----------------------------------------------------------------------------
LEMMA Bounds == MaxCells \in Nat /\ MaxItems \in Nat /\ MaxHeld \in Nat /\ MaxNodes \in Nat
                /\ RefWidth \in Nat \ {0}
BY ValuesAssumption, BuilderAssumption

LEMMA CellIds == ASSUME NEW k \in 0..MaxCells, k # 0 PROVE k \in Ids
BY Bounds DEF Ids

LEMMA IdRange == \A id \in Ids : id \in 0..MaxCells /\ id # 0
BY Bounds DEF Ids

LEMMA NatsAbove == \A n \in Nat : 0 <= n
OBVIOUS

LEMMA NoCellEmpty == NoCell.kind = "free" /\ NoCell.refcount = 0 /\ NoCell.items = <<>>
BY DEF NoCell, Cell

LEMMA CellOfType == ASSUME NEW v \in ValueSet PROVE CellOf(v) \in 0..MaxCells
<1> USE Bounds
<1>1. CASE v \in Scalars
  BY <1>1, BuilderAssumption DEF CellOf
<1>2. CASE v \in [t : Counted, n : Ids]
  BY <1>2 DEF CellOf, Ids
<1>3. CASE v = NoString
  BY <1>3 DEF CellOf, NoString, Value
<1> QED BY <1>1, <1>2, <1>3 DEF ValueSet

LEMMA GivenType == ASSUME NEW e \in Tallies, NEW v PROVE Given(e, v) \in Tallies
BY DEF Given, Tallies

LEMMA ItemsOfMember ==
    ASSUME NEW h, NEW S, NEW p
    PROVE  p \in ItemsOf(h, S) <=> \E c \in S : \E i \in DOMAIN h.cells[c].items : p = <<c, i>>
BY DEF ItemsOf

\* The places of the items are finitely many.
LEMMA ItemsFinite ==
    ASSUME NEW h, HeapInv(h), NEW S \in SUBSET Ids
    PROVE  IsFiniteSet(ItemsOf(h, S))
<1> DEFINE Places == Ids \X (1..MaxItems)
<1> USE Bounds
<1>1. IsFiniteSet(Ids) /\ IsFiniteSet(1..MaxItems)
  BY FS_Interval DEF Ids
<1>2. IsFiniteSet(Places)
  BY <1>1, FS_Product
<1>3. ItemsOf(h, S) \subseteq Places
  <2> SUFFICES ASSUME NEW c \in S, NEW i \in DOMAIN h.cells[c].items
               PROVE  <<c, i>> \in Places
    BY ItemsOfMember
  <2>1. h.cells[c].items \in Seq(ItemSet) /\ Len(h.cells[c].items) <= MaxItems
    BY DEF HeapInv, HeapSet, CellSet
  <2> QED BY <2>1
<1> QED BY <1>2, <1>3, FS_Subset

LEMMA UsesFinite ==
    ASSUME NEW h, HeapInv(h), NEW S \in SUBSET Ids, NEW id
    PROVE  /\ IsFiniteSet(KeyUses(h, S, id)) /\ IsFiniteSet(ValueUses(h, S, id))
           /\ Cardinality(KeyUses(h, S, id)) \in Nat /\ Cardinality(ValueUses(h, S, id)) \in Nat
           /\ Uses(h, S, id) \in Nat
<1>1. KeyUses(h, S, id) \subseteq ItemsOf(h, S) /\ ValueUses(h, S, id) \subseteq ItemsOf(h, S)
  BY DEF KeyUses, ValueUses
<1>2. IsFiniteSet(KeyUses(h, S, id)) /\ IsFiniteSet(ValueUses(h, S, id))
  BY <1>1, ItemsFinite, FS_Subset
<1>3. Cardinality(KeyUses(h, S, id)) \in Nat /\ Cardinality(ValueUses(h, S, id)) \in Nat
  BY <1>2, FS_CardinalityType
<1> QED BY <1>2, <1>3 DEF Uses

LEMMA DisjointUnion ==
    ASSUME NEW P, NEW Q, IsFiniteSet(P), IsFiniteSet(Q), P \cap Q = {}
    PROVE  Cardinality(P \cup Q) = Cardinality(P) + Cardinality(Q)
<1>1. Cardinality(P \cup Q) = Cardinality(P) + Cardinality(Q) - Cardinality(P \cap Q)
  BY FS_Union
<1>2. Cardinality(P \cap Q) = 0
  BY FS_EmptySet
<1>3. Cardinality(P) \in Nat /\ Cardinality(Q) \in Nat
  BY FS_CardinalityType
<1> QED BY <1>1, <1>2, <1>3

\* References are counted by the cells they are in.
LEMMA UsesSplit ==
    ASSUME NEW h, HeapInv(h), NEW S \in SUBSET Ids, NEW T \in SUBSET Ids, S \cap T = {}, NEW id
    PROVE  Uses(h, S \cup T, id) = Uses(h, S, id) + Uses(h, T, id)
<1>1. /\ KeyUses(h, S \cup T, id) = KeyUses(h, S, id) \cup KeyUses(h, T, id)
      /\ ValueUses(h, S \cup T, id) = ValueUses(h, S, id) \cup ValueUses(h, T, id)
  BY Zenon DEF KeyUses, ValueUses, ItemsOf
<1>2. ItemsOf(h, S) \cap ItemsOf(h, T) = {}
  BY ItemsOfMember
<1>3. KeyUses(h, S, id) \cap KeyUses(h, T, id) = {} /\ ValueUses(h, S, id) \cap ValueUses(h, T, id) = {}
  BY <1>2 DEF KeyUses, ValueUses
<1>4. Cardinality(KeyUses(h, S \cup T, id)) = Cardinality(KeyUses(h, S, id)) + Cardinality(KeyUses(h, T, id))
  BY <1>1, <1>3, UsesFinite, DisjointUnion
<1>5. Cardinality(ValueUses(h, S \cup T, id)) = Cardinality(ValueUses(h, S, id)) + Cardinality(ValueUses(h, T, id))
  BY <1>1, <1>3, UsesFinite, DisjointUnion
<1> QED BY <1>4, <1>5, UsesFinite DEF Uses

LEMMA UsesPart ==
    ASSUME NEW h, HeapInv(h), NEW S \in SUBSET Ids, NEW T \in SUBSET S, NEW id
    PROVE  Uses(h, S, id) = Uses(h, T, id) + Uses(h, S \ T, id)
<1>1. S = T \cup (S \ T) /\ T \cap (S \ T) = {} /\ T \in SUBSET Ids /\ S \ T \in SUBSET Ids
  OBVIOUS
<1> QED BY <1>1, UsesSplit

LEMMA UsesSame ==
    ASSUME NEW h, NEW g, NEW S, \A c \in S : g.cells[c].items = h.cells[c].items, NEW id
    PROVE  Uses(g, S, id) = Uses(h, S, id)
<1>1. ItemsOf(g, S) = ItemsOf(h, S)
  BY Zenon DEF ItemsOf
<1>2. \A p \in ItemsOf(h, S) : g.cells[p[1]].items = h.cells[p[1]].items
  BY ItemsOfMember
<1>3. KeyUses(g, S, id) = KeyUses(h, S, id) /\ ValueUses(g, S, id) = ValueUses(h, S, id)
  BY <1>1, <1>2 DEF KeyUses, ValueUses
<1> QED BY <1>3 DEF Uses

LEMMA UsesNone ==
    ASSUME NEW h, NEW S, \A c \in S : h.cells[c].items = <<>>, NEW id
    PROVE  Uses(h, S, id) = 0
<1>1. ItemsOf(h, S) = {}
  BY ItemsOfMember
<1>2. KeyUses(h, S, id) = {} /\ ValueUses(h, S, id) = {}
  BY <1>1 DEF KeyUses, ValueUses
<1> QED BY <1>2, FS_EmptySet DEF Uses

\* An item that refers to a cell is counted.
LEMMA UsesSome ==
    ASSUME NEW h, HeapInv(h), NEW S \in SUBSET Ids, NEW c \in S, NEW i \in DOMAIN h.cells[c].items,
           NEW id, h.cells[c].items[i].key = id \/ CellOf(h.cells[c].items[i].val) = id
    PROVE  Uses(h, S, id) >= 1
<1>1. <<c, i>> \in ItemsOf(h, S)
  BY ItemsOfMember
<1>2. <<c, i>> \in KeyUses(h, S, id) \/ <<c, i>> \in ValueUses(h, S, id)
  BY <1>1 DEF KeyUses, ValueUses
<1>3. Cardinality(KeyUses(h, S, id)) # 0 \/ Cardinality(ValueUses(h, S, id)) # 0
  BY <1>2, UsesFinite, FS_EmptySet
<1> QED BY <1>3, UsesFinite DEF Uses

\* The items of c, with one more at the end, and with another one at a place.
Appends(h, g, c, key, v) == g.cells[c].items = Append(h.cells[c].items, Item(key, v))
Replaced(h, g, c, at, key, v) == g.cells[c].items = [h.cells[c].items EXCEPT ![at] = Item(key, v)]
KeysAreStrings(h, items) == \A i \in DOMAIN items : items[i].key # 0 => KindOf(h, items[i].key) = "string"

\* An item more at the end.
LEMMA UsesAppend ==
    ASSUME NEW h, HeapInv(h), NEW g, NEW c \in Ids, NEW key, NEW v,
           Appends(h, g, c, key, v), NEW id
    PROVE  Uses(g, {c}, id) = Uses(h, {c}, id) + (IF key = id THEN 1 ELSE 0)
                                               + (IF CellOf(v) = id THEN 1 ELSE 0)
<1> DEFINE n == Len(h.cells[c].items)
           p == <<c, n + 1>>
           I == ItemsOf(h, {c})
           K == KeyUses(h, {c}, id)
           V == ValueUses(h, {c}, id)
<1> USE DEF Appends
<1>1. h.cells[c].items \in Seq(ItemSet) /\ n \in Nat
  <2>1. h.cells[c].items \in Seq(ItemSet)
    BY DEF HeapInv, HeapSet, CellSet
  <2> QED BY <2>1
<1>2. DOMAIN g.cells[c].items = DOMAIN h.cells[c].items \cup {n + 1} /\ n + 1 \notin DOMAIN h.cells[c].items
  BY <1>1
<1>3. ItemsOf(g, {c}) = I \cup {p} /\ p \notin I
  <2>1. \A q : q \in I <=> \E i \in DOMAIN h.cells[c].items : q = <<c, i>>
    BY ItemsOfMember
  <2>2. \A q : q \in ItemsOf(g, {c}) <=> \E i \in DOMAIN g.cells[c].items : q = <<c, i>>
    BY ItemsOfMember
  <2> HIDE DEF n, I
  <2>3. p \notin I
    BY <1>2, <2>1
  <2>4. \A q : q \in ItemsOf(g, {c}) <=> q \in I \/ q = p
    BY <1>2, <2>1, <2>2
  <2> QED BY <2>3, <2>4
<1>4. g.cells[p[1]].items[p[2]] = Item(key, v)
  BY <1>1
<1>5. \A q \in I : g.cells[q[1]].items[q[2]] = h.cells[q[1]].items[q[2]]
  <2> TAKE q \in I
  <2>1. PICK i \in DOMAIN h.cells[c].items : q = <<c, i>>
    BY ItemsOfMember
  <2>2. g.cells[c].items[i] = h.cells[c].items[i]
    BY <1>1
  <2> QED BY <2>1, <2>2
<1>6. /\ IsFiniteSet(K) /\ IsFiniteSet(V) /\ Cardinality(K) \in Nat /\ Cardinality(V) \in Nat
      /\ Uses(h, {c}, id) = Cardinality(K) + Cardinality(V)
  BY UsesFinite DEF Uses
<1>7. K = {q \in I : h.cells[q[1]].items[q[2]].key = id}
      /\ V = {q \in I : CellOf(h.cells[q[1]].items[q[2]].val) = id}
  BY DEF KeyUses, ValueUses
<1> HIDE DEF n, p, I, K, V
<1>8. KeyUses(g, {c}, id) = {q \in I \cup {p} : g.cells[q[1]].items[q[2]].key = id}
      /\ ValueUses(g, {c}, id) = {q \in I \cup {p} : CellOf(g.cells[q[1]].items[q[2]].val) = id}
  BY <1>3 DEF KeyUses, ValueUses
<1>9. g.cells[p[1]].items[p[2]].key = key /\ g.cells[p[1]].items[p[2]].val = v
  BY <1>4 DEF Item
<1>10. KeyUses(g, {c}, id) = (IF key = id THEN K \cup {p} ELSE K) /\ p \notin K
  BY <1>3, <1>5, <1>7, <1>8, <1>9
<1>11. ValueUses(g, {c}, id) = (IF CellOf(v) = id THEN V \cup {p} ELSE V) /\ p \notin V
  BY <1>3, <1>5, <1>7, <1>8, <1>9
<1>12. Cardinality(K \cup {p}) = Cardinality(K) + 1 /\ Cardinality(V \cup {p}) = Cardinality(V) + 1
  BY <1>6, <1>10, <1>11, FS_AddElement
<1>13. Cardinality(KeyUses(g, {c}, id)) = Cardinality(K) + IF key = id THEN 1 ELSE 0
  BY <1>6, <1>10, <1>12
<1>14. Cardinality(ValueUses(g, {c}, id)) = Cardinality(V) + IF CellOf(v) = id THEN 1 ELSE 0
  BY <1>6, <1>11, <1>12
<1> QED BY <1>6, <1>13, <1>14 DEF Uses

\* An item in place of another one.
LEMMA UsesReplace ==
    ASSUME NEW h, HeapInv(h), NEW g, NEW c \in Ids, NEW at \in DOMAIN h.cells[c].items, NEW key, NEW v,
           Replaced(h, g, c, at, key, v), NEW id
    PROVE  /\ Uses(g, {c}, id) \in Nat
           /\ Uses(g, {c}, id) + (IF h.cells[c].items[at].key = id THEN 1 ELSE 0)
                <= Uses(h, {c}, id) + (IF key = id THEN 1 ELSE 0) + (IF CellOf(v) = id THEN 1 ELSE 0)
<1> DEFINE p == <<c, at>>
           I == ItemsOf(h, {c})
           K == KeyUses(h, {c}, id)
           V == ValueUses(h, {c}, id)
<1> USE DEF Replaced
<1>1. h.cells[c].items \in Seq(ItemSet)
  BY DEF HeapInv, HeapSet, CellSet
<1>2. ItemsOf(g, {c}) = I /\ p \in I
  <2>1. DOMAIN g.cells[c].items = DOMAIN h.cells[c].items
    BY <1>1
  <2>2. \A q : q \in I <=> \E i \in DOMAIN h.cells[c].items : q = <<c, i>>
    BY ItemsOfMember
  <2>3. \A q : q \in ItemsOf(g, {c}) <=> \E i \in DOMAIN g.cells[c].items : q = <<c, i>>
    BY ItemsOfMember
  <2> HIDE DEF I
  <2> QED BY <2>1, <2>2, <2>3
<1>3. g.cells[p[1]].items[p[2]] = Item(key, v) /\ h.cells[p[1]].items[p[2]] = h.cells[c].items[at]
  BY <1>1
<1>4. \A q \in I \ {p} : g.cells[q[1]].items[q[2]] = h.cells[q[1]].items[q[2]]
  <2> SUFFICES ASSUME NEW i \in DOMAIN h.cells[c].items, i # at
               PROVE  g.cells[c].items[i] = h.cells[c].items[i]
    BY ItemsOfMember
  <2> QED BY <1>1
<1>5. /\ IsFiniteSet(K) /\ IsFiniteSet(V) /\ Cardinality(K) \in Nat /\ Cardinality(V) \in Nat
      /\ Uses(h, {c}, id) = Cardinality(K) + Cardinality(V)
  BY UsesFinite DEF Uses
<1>6. K = {q \in I : h.cells[q[1]].items[q[2]].key = id}
      /\ V = {q \in I : CellOf(h.cells[q[1]].items[q[2]].val) = id}
  BY DEF KeyUses, ValueUses
<1> HIDE DEF K, V, p, I
<1>7. KeyUses(g, {c}, id) = {q \in I : g.cells[q[1]].items[q[2]].key = id}
      /\ ValueUses(g, {c}, id) = {q \in I : CellOf(g.cells[q[1]].items[q[2]].val) = id}
  BY <1>2 DEF KeyUses, ValueUses
<1>8. g.cells[p[1]].items[p[2]].key = key /\ g.cells[p[1]].items[p[2]].val = v
  BY <1>3 DEF Item
<1>9. KeyUses(g, {c}, id) = (IF key = id THEN (K \ {p}) \cup {p} ELSE K \ {p})
  <2>1. \A q : q \in KeyUses(g, {c}, id) <=> IF q = p THEN key = id ELSE q \in K
    BY <1>2, <1>4, <1>6, <1>7, <1>8
  <2>2. CASE key = id
    BY <2>1, <2>2
  <2>3. CASE key # id
    BY <2>1, <2>3
  <2> QED BY <2>2, <2>3
<1>10. ValueUses(g, {c}, id) = (IF CellOf(v) = id THEN (V \ {p}) \cup {p} ELSE V \ {p})
  <2>1. \A q : q \in ValueUses(g, {c}, id) <=> IF q = p THEN CellOf(v) = id ELSE q \in V
    BY <1>2, <1>4, <1>6, <1>7, <1>8
  <2>2. CASE CellOf(v) = id
    BY <2>1, <2>2
  <2>3. CASE CellOf(v) # id
    BY <2>1, <2>3
  <2> QED BY <2>2, <2>3
<1>11. p \in K <=> h.cells[c].items[at].key = id
  BY <1>2, <1>3, <1>6
<1>12. /\ IsFiniteSet(K \ {p})
       /\ Cardinality(K \ {p}) = IF p \in K THEN Cardinality(K) - 1 ELSE Cardinality(K)
  BY <1>5, FS_RemoveElement
<1>13. /\ IsFiniteSet(V \ {p})
       /\ Cardinality(V \ {p}) = IF p \in V THEN Cardinality(V) - 1 ELSE Cardinality(V)
  BY <1>5, FS_RemoveElement
<1>14. Cardinality(K \ {p}) \in Nat /\ Cardinality(V \ {p}) \in Nat
  BY <1>12, <1>13, FS_CardinalityType
<1>15. /\ Cardinality((K \ {p}) \cup {p}) = Cardinality(K \ {p}) + 1
       /\ Cardinality((V \ {p}) \cup {p}) = Cardinality(V \ {p}) + 1
  BY <1>12, <1>13, FS_AddElement
<1>16. Cardinality(KeyUses(g, {c}, id)) = Cardinality(K \ {p}) + IF key = id THEN 1 ELSE 0
  BY <1>9, <1>14, <1>15
<1>17. Cardinality(ValueUses(g, {c}, id)) = Cardinality(V \ {p}) + IF CellOf(v) = id THEN 1 ELSE 0
  BY <1>10, <1>14, <1>15
<1>18. Uses(g, {c}, id) = Cardinality(K \ {p}) + Cardinality(V \ {p})
         + (IF key = id THEN 1 ELSE 0) + (IF CellOf(v) = id THEN 1 ELSE 0)
  BY <1>14, <1>16, <1>17 DEF Uses
<1> QED BY <1>5, <1>11, <1>12, <1>13, <1>14, <1>18
-----------------------------------------------------------------------------
(* What each operation does to a heap. *)

LEMMA LiveIds == ASSUME NEW h PROVE Live(h) = {id \in Ids : KindOf(h, id) # "free"} /\ Live(h) \in SUBSET Ids
BY DEF Live, Ids, KindOf
LEMMA CellType == ASSUME NEW h, HeapInv(h), NEW id \in Ids
                  PROVE  h.cells[id] \in CellSet /\ h.cells[id].refcount \in Nat /\ h.cells[id].items \in Seq(ItemSet)
<1>1. h.cells[id] \in CellSet
  BY DEF HeapInv, HeapSet
<1> QED BY <1>1 DEF CellSet

LEMMA ItemType ==
    ASSUME NEW h, HeapInv(h), NEW id \in Ids, NEW i \in DOMAIN h.cells[id].items
    PROVE  h.cells[id].items[i].key \in 0..MaxCells /\ h.cells[id].items[i].val \in ValueSet
<1> DEFINE s == h.cells[id].items
<1>1. s \in Seq(ItemSet)
  BY CellType
<1> HIDE DEF s
<1>2. ASSUME NEW j \in DOMAIN s PROVE s[j] \in ItemSet
  BY <1>1
<1>3. s[i] \in ItemSet
  BY <1>2 DEF s
<1> QED BY <1>3 DEF s, ItemSet

LEMMA HoldersType == ASSUME NEW h, HeapInv(h), NEW id \in Ids PROVE Holders(h, id) \in Nat
<1>1. h.cells[id].refcount \in Nat
  BY CellType
<1> QED BY <1>1 DEF Holders

\* A cell nothing counts is referred to by nothing.
LEMMA FreeUnused ==
    ASSUME NEW h, HeapInv(h), NEW e \in Tallies, Fits(h, e), NEW id \in Ids \ Live(h)
    PROVE  Uses(h, Live(h), id) = 0 /\ e[id] = 0
<1>1. Uses(h, Live(h), id) + e[id] <= 0
  BY DEF Fits, Holders
<1>2. Uses(h, Live(h), id) \in Nat
  BY LiveIds, UsesFinite
<1> QED BY <1>1, <1>2 DEF Tallies

LEMMA KindNames == Kinds \subseteq Counted /\ "string" \in Counted /\ "string" \notin Kinds /\ "free" \notin Counted
                   /\ "error" \notin Counted /\ "free" \notin Kinds
BY DEF Kinds, Counted

\* g is h with a new cell.
IsNew(h, g, new, kind) ==
    /\ HeapInv(h) /\ HeapInv(g) /\ g.bad = h.bad /\ new \in Ids /\ new \notin Live(h)
    /\ \A id \in Ids \ {new} : g.cells[id] = h.cells[id]
    /\ h.cells[new] = NoCell /\ g.cells[new].items = <<>> /\ g.cells[new].refcount = 0
    /\ KindOf(g, new) = kind /\ kind \in Counted

LEMMA AllocateNew ==
    ASSUME NEW h, NEW kind, NEW text, NEW g, NEW new,
           HeapInv(h), Ids \ Live(h) # {}, kind \in Counted, text \in Texts \cup {""},
           g = Allocate(h, kind, text, TRUE).h, new = Allocate(h, kind, text, TRUE).cell
    PROVE  IsNew(h, g, new, kind)
<1> DEFINE at == CHOOSE i \in 1..MaxCells : h.cells[i].kind = "free"
           c == Cell(kind, text)
<1>1. at \in Ids /\ KindOf(h, at) = "free"
  BY LiveIds DEF Ids, KindOf
<1>2. g = [h EXCEPT !.cells[at] = c] /\ new = at
  BY DEF Allocate
<1>3. c.kind = kind /\ c.refcount = 0 /\ c.items = <<>>
  BY DEF Cell
<1>4. c \in CellSet
  <2>1. <<>> \in Seq(ItemSet)
    BY EmptySeq
  <2> QED BY <2>1 DEF Cell, CellSet
<1> HIDE DEF at, c
<1>5. g = [h EXCEPT !.cells[at] = c] /\ new = at
  BY <1>2
<1>6. h \in HeapSet
  BY DEF HeapInv
<1>7. g \in HeapSet /\ g.bad = h.bad
  BY <1>1, <1>4, <1>5, <1>6 DEF HeapSet
<1>8. g.cells[at] = c /\ \A i \in Ids \ {at} : g.cells[i] = h.cells[i]
  BY <1>1, <1>4, <1>5, <1>6 DEF HeapSet
<1>9. h.cells[at] = NoCell /\ at \notin Live(h)
  BY <1>1, LiveIds DEF HeapInv
<1>10. NoCell.items = <<>>
  BY DEF NoCell, Cell
<1>11. \A id \in Ids : g.cells[id].items = h.cells[id].items
  BY <1>3, <1>8, <1>9, <1>10
<1>12. HeapInv(g)
  <2>1. ASSUME NEW id \in Ids PROVE KindOf(g, id) = "free" => g.cells[id] = NoCell
    BY <1>3, <1>8, KindNames DEF HeapInv, KindOf
  <2>2. ASSUME NEW id \in Ids, KindOf(g, id) = "string"
        PROVE  g.cells[id].items = <<>> /\ g.cells[id].refcount = 0
    BY <1>3, <1>8, <2>2 DEF HeapInv, KindOf
  <2>3. ASSUME NEW id \in Ids PROVE Len(g.cells[id].items) <= MaxItems
    BY <1>11 DEF HeapInv
  <2>4. ASSUME NEW id \in Ids, NEW i \in DOMAIN g.cells[id].items, g.cells[id].items[i].key # 0
        PROVE  KindOf(g, g.cells[id].items[i].key) = "string"
    <3>1. h.cells[id].items \in Seq(ItemSet) /\ g.cells[id].items = h.cells[id].items
      BY <1>11, CellType
    <3>2. i \in DOMAIN h.cells[id].items /\ h.cells[id].items[i].key # 0
      BY <2>4, <3>1
    <3>3. h.cells[id].items[i].key \in Ids
      <4>1. h.cells[id].items[i].key \in 0..MaxCells
        BY <3>2, ItemType
      <4> QED BY <4>1, <3>2, CellIds
    <3>4. KindOf(h, h.cells[id].items[i].key) = "string"
      BY <2>4, <3>1 DEF HeapInv
    <3>5. h.cells[id].items[i].key # at
      BY <1>1, <3>4
    <3> QED BY <1>8, <3>1, <3>3, <3>4, <3>5 DEF KindOf
  <2> QED BY <1>7, <2>1, <2>2, <2>3, <2>4 DEF HeapInv
<1> QED BY <1>1, <1>3, <1>5, <1>7, <1>8, <1>9, <1>12 DEF IsNew, KindOf

LEMMA NewUses ==
    ASSUME NEW h, NEW g, NEW new, NEW kind, IsNew(h, g, new, kind)
    PROVE  /\ Live(g) = Live(h) \cup {new}
           /\ \A S \in SUBSET Ids, id \in Ids : Uses(g, S, id) = Uses(h, S, id)
           /\ \A S \in SUBSET Live(h), id \in Ids : Uses(g, S \cup {new}, id) = Uses(h, S, id)
<1>1. Live(g) = Live(h) \cup {new}
  BY LiveIds, KindNames DEF IsNew, KindOf
<1>2. NoCell.items = <<>>
  BY DEF NoCell, Cell
<1>3. \A id \in Ids : g.cells[id].items = h.cells[id].items
  BY <1>2 DEF IsNew
<1>4. ASSUME NEW S \in SUBSET Ids, NEW id \in Ids PROVE Uses(g, S, id) = Uses(h, S, id)
  BY <1>3, UsesSame
<1>5. ASSUME NEW S \in SUBSET Live(h), NEW id \in Ids PROVE Uses(g, S \cup {new}, id) = Uses(h, S, id)
  <2>1. S \in SUBSET Ids /\ {new} \in SUBSET Ids /\ S \cap {new} = {} /\ HeapInv(h)
    BY LiveIds DEF IsNew
  <2>2. Uses(g, S \cup {new}, id) = Uses(h, S \cup {new}, id)
    BY <1>4, <2>1
  <2>3. Uses(h, S \cup {new}, id) = Uses(h, S, id) + Uses(h, {new}, id)
    BY <2>1, UsesSplit
  <2>4. Uses(h, {new}, id) = 0
    <3>1. \A c \in {new} : h.cells[c].items = <<>>
      BY <1>2 DEF IsNew
    <3> QED BY <3>1, UsesNone
  <2>5. Uses(h, S, id) \in Nat
    BY <2>1, UsesFinite
  <2> QED BY <2>2, <2>3, <2>4, <2>5
<1> QED BY <1>1, <1>4, <1>5

LEMMA NewCounts ==
    ASSUME NEW h, NEW g, NEW new, NEW kind, NEW e, NEW v,
           IsNew(h, g, new, kind), e \in Tallies, Fits(h, e), CellOf(v) = new
    PROVE  Fits(g, e) /\ Fits(g, Given(e, v)) /\ (Exact(h, e) => Exact(g, Given(e, v)))
<1>1. HeapInv(h) /\ new \in Ids \ Live(h) /\ g.cells[new].refcount = 0
      /\ \A id \in Ids \ {new} : g.cells[id] = h.cells[id]
  BY DEF IsNew
<1>2. Live(g) = Live(h) \cup {new} /\ \A id \in Ids : Uses(g, Live(g), id) = Uses(h, Live(h), id)
  BY NewUses
<1>3. Holders(g, new) = 1 /\ Holders(h, new) = 0
  BY <1>1, <1>2 DEF Holders
<1>4. \A id \in Ids \ {new} : Holders(g, id) = Holders(h, id)
  BY <1>1, <1>2 DEF Holders
<1>5. Uses(h, Live(h), new) = 0 /\ e[new] = 0
  BY <1>1, FreeUnused
<1>6. \A id \in Ids : Uses(h, Live(h), id) \in Nat
  BY <1>1, LiveIds, UsesFinite
<1>7. Given(e, v)[new] = 1 /\ \A id \in Ids \ {new} : Given(e, v)[id] = e[id]
  BY <1>1, <1>5 DEF Given, Tallies
<1>8. Uses(g, Live(g), new) = 0
  BY <1>1, <1>2, <1>5
<1>9. Fits(g, e)
  <2>1. ASSUME NEW id \in Ids PROVE Uses(g, Live(g), id) + e[id] <= Holders(g, id)
    <3>1. CASE id = new
      BY <1>8, <1>3, <1>5, <3>1
    <3>2. CASE id # new
      BY <1>2, <1>4, <3>2 DEF Fits
    <3> QED BY <3>1, <3>2
  <2> QED BY <2>1 DEF Fits
<1>10. Fits(g, Given(e, v))
  <2>1. ASSUME NEW id \in Ids PROVE Uses(g, Live(g), id) + Given(e, v)[id] <= Holders(g, id)
    <3>1. CASE id = new
      BY <1>8, <1>3, <1>7, <3>1
    <3>2. CASE id # new
      BY <1>2, <1>4, <1>7, <3>2 DEF Fits
    <3> QED BY <3>1, <3>2
  <2> QED BY <2>1 DEF Fits
<1>11. Exact(h, e) => Exact(g, Given(e, v))
  <2> SUFFICES ASSUME Exact(h, e), NEW id \in Ids
               PROVE  Uses(g, Live(g), id) + Given(e, v)[id] = Holders(g, id)
    BY DEF Exact
  <2>1. CASE id = new
    BY <1>8, <1>3, <1>7, <2>1
  <2>2. CASE id # new
    BY <1>2, <1>4, <1>7, <2>2 DEF Exact
  <2> QED BY <2>1, <2>2
<1> QED BY <1>9, <1>10, <1>11

LEMMA GuardsLive ==
    ASSUME NEW h, NEW A, NEW e, Guards(h, A, e)
    PROVE  A \subseteq Live(h)
BY LiveIds, KindNames DEF Guards

LEMMA NewGuards ==
    ASSUME NEW h, NEW g, NEW new, NEW kind, NEW e, NEW f, NEW A, NEW v,
           IsNew(h, g, new, kind), e \in Tallies, Fits(h, e), f \in Tallies, Guards(h, A, f),
           CellOf(v) = new
    PROVE  /\ Guards(g, A, f) /\ Guards(g, A, Given(f, v))
           /\ kind \in Kinds /\ f[new] = 0 => Guards(g, A \cup {new}, f)
<1>1. HeapInv(h) /\ new \in Ids \ Live(h) /\ g.cells[new].refcount = 0 /\ KindOf(g, new) = kind
      /\ \A id \in Ids \ {new} : g.cells[id] = h.cells[id]
  BY DEF IsNew
<1>2. A \subseteq Live(h) /\ A \subseteq Ids /\ new \notin A /\ Live(h) \subseteq Ids
  BY <1>1, GuardsLive, LiveIds
<1>3. Live(g) \ A = (Live(h) \ A) \cup {new} /\ Live(g) \ (A \cup {new}) = Live(h) \ A
  BY <1>1, <1>2, NewUses
<1>4. \A id \in Ids : /\ Uses(g, Live(g) \ A, id) = Uses(h, Live(h) \ A, id)
                      /\ Uses(g, Live(g) \ (A \cup {new}), id) = Uses(h, Live(h) \ A, id)
  <2>1. Live(h) \ A \in SUBSET Live(h) /\ Live(h) \ A \in SUBSET Ids
    BY <1>2
  <2> QED BY <1>3, <2>1, NewUses
<1>5. Uses(h, Live(h) \ A, new) = 0
  <2>1. Uses(h, Live(h), new) = 0
    BY <1>1, FreeUnused
  <2>2. Uses(h, Live(h), new) = Uses(h, A, new) + Uses(h, Live(h) \ A, new)
    BY <1>1, <1>2, UsesPart
  <2>3. Uses(h, A, new) \in Nat /\ Uses(h, Live(h) \ A, new) \in Nat
    <3>1. Live(h) \ A \in SUBSET Ids
      BY <1>2
    <3> QED BY <1>1, <1>2, <3>1, UsesFinite
  <2> QED BY <2>1, <2>2, <2>3
<1>7. \A id \in A : g.cells[id] = h.cells[id] /\ id \in Ids
  BY <1>1, <1>2
<1>8. Guards(g, A, f)
  BY <1>2, <1>4, <1>7 DEF Guards, KindOf
<1>9. Guards(g, A, Given(f, v))
  <2>1. \A id \in A : Given(f, v)[id] = f[id]
    BY <1>2, <1>7 DEF Given, Tallies
  <2> QED BY <1>8, <2>1 DEF Guards
<1>10. ASSUME kind \in Kinds, f[new] = 0 PROVE Guards(g, A \cup {new}, f)
  <2>1. Uses(g, Live(g) \ (A \cup {new}), new) + f[new] <= g.cells[new].refcount
    BY <1>1, <1>4, <1>5, <1>10
  <2> QED BY <1>1, <1>2, <1>4, <1>7, <1>10, <2>1 DEF Guards, KindOf
<1> QED BY <1>8, <1>9, <1>10

\* g is h with other items in cell c.
IsChanged(h, g, c) ==
    /\ HeapInv(h) /\ HeapInv(g) /\ g.bad = h.bad /\ c \in Live(h)
    /\ \A id \in Ids \ {c} : g.cells[id] = h.cells[id]
    /\ KindOf(g, c) = KindOf(h, c) /\ g.cells[c].refcount = h.cells[c].refcount

LEMMA ChangedUses ==
    ASSUME NEW h, NEW g, NEW c, IsChanged(h, g, c)
    PROVE  /\ Live(g) = Live(h)
           /\ \A id \in Ids : Holders(g, id) = Holders(h, id) /\ KindOf(g, id) = KindOf(h, id)
                              /\ g.cells[id].refcount = h.cells[id].refcount
           /\ \A S \in SUBSET (Ids \ {c}), id \in Ids : Uses(g, S, id) = Uses(h, S, id)
           /\ \A id \in Ids : Uses(g, Live(g), id) = Uses(g, {c}, id) + Uses(h, Live(h) \ {c}, id)
           /\ \A id \in Ids : Uses(h, Live(h), id) = Uses(h, {c}, id) + Uses(h, Live(h) \ {c}, id)
<1>1. HeapInv(h) /\ HeapInv(g) /\ c \in Live(h) /\ Live(h) \subseteq Ids
  BY LiveIds DEF IsChanged
<1>2. \A id \in Ids : KindOf(g, id) = KindOf(h, id) /\ g.cells[id].refcount = h.cells[id].refcount
  BY DEF IsChanged, KindOf
<1>3. Live(g) = Live(h)
  BY <1>2, LiveIds
<1>4. \A id \in Ids : Holders(g, id) = Holders(h, id)
  BY <1>2, <1>3 DEF Holders
<1>5. ASSUME NEW S \in SUBSET (Ids \ {c}), NEW id \in Ids PROVE Uses(g, S, id) = Uses(h, S, id)
  <2>1. \A x \in S : g.cells[x].items = h.cells[x].items
    BY DEF IsChanged
  <2> QED BY <2>1, UsesSame
<1>6. {c} \in SUBSET Live(h) /\ Live(h) \in SUBSET Ids /\ Live(h) \ {c} \in SUBSET (Ids \ {c})
  BY <1>1
<1>7. \A id \in Ids : Uses(h, Live(h), id) = Uses(h, {c}, id) + Uses(h, Live(h) \ {c}, id)
  BY <1>1, <1>6, UsesPart
<1>8. \A id \in Ids : Uses(g, Live(h), id) = Uses(g, {c}, id) + Uses(g, Live(h) \ {c}, id)
  BY <1>1, <1>6, UsesPart
<1> QED BY <1>2, <1>3, <1>4, <1>5, <1>6, <1>7, <1>8

\* The references of the items of c and the others: no more than before, and as many.
NoMore(h, g, c, e, f) == \A id \in Ids : Uses(g, {c}, id) + f[id] <= Uses(h, {c}, id) + e[id]
AsMany(h, g, c, e, f) == \A id \in Ids : Uses(g, {c}, id) + f[id] = Uses(h, {c}, id) + e[id]

LEMMA ChangedCounts ==
    ASSUME NEW h, NEW g, NEW c, IsChanged(h, g, c), NEW e \in Tallies, NEW f \in Tallies
    PROVE  /\ NoMore(h, g, c, e, f) /\ Fits(h, e) => Fits(g, f)
           /\ AsMany(h, g, c, e, f) /\ Exact(h, e) => Exact(g, f)
<1>1. \A id \in Ids : /\ Uses(g, Live(g), id) = Uses(g, {c}, id) + Uses(h, Live(h) \ {c}, id)
                      /\ Uses(h, Live(h), id) = Uses(h, {c}, id) + Uses(h, Live(h) \ {c}, id)
                      /\ Holders(g, id) = Holders(h, id)
  <2> TAKE id \in Ids
  <2>1. Uses(g, Live(g), id) = Uses(g, {c}, id) + Uses(h, Live(h) \ {c}, id)
    BY ChangedUses
  <2>2. Uses(h, Live(h), id) = Uses(h, {c}, id) + Uses(h, Live(h) \ {c}, id)
    <3>1. {c} \in SUBSET Live(h) /\ Live(h) \in SUBSET Ids /\ HeapInv(h)
      BY LiveIds DEF IsChanged
    <3> QED BY <3>1, UsesPart
  <2>3. Holders(g, id) = Holders(h, id)
    BY ChangedUses
  <2> QED BY <2>1, <2>2, <2>3
<1>2. \A id \in Ids : /\ Uses(g, {c}, id) \in Nat /\ Uses(h, {c}, id) \in Nat
                      /\ Uses(h, Live(h) \ {c}, id) \in Nat /\ Holders(h, id) \in Nat
                      /\ e[id] \in Nat /\ f[id] \in Nat
  <2>1. HeapInv(h) /\ HeapInv(g) /\ {c} \in SUBSET Ids /\ Live(h) \ {c} \in SUBSET Ids
    BY LiveIds DEF IsChanged
  <2> QED BY <2>1, UsesFinite, HoldersType DEF Tallies
<1>3. ASSUME NoMore(h, g, c, e, f), Fits(h, e) PROVE Fits(g, f)
  <2>1. ASSUME NEW id \in Ids PROVE Uses(g, Live(g), id) + f[id] <= Holders(g, id)
    <3>1. Uses(g, {c}, id) + f[id] <= Uses(h, {c}, id) + e[id]
      BY <1>3 DEF NoMore
    <3>2. Uses(h, Live(h), id) + e[id] <= Holders(h, id)
      BY <1>3 DEF Fits
    <3>3. /\ Uses(g, {c}, id) \in Nat /\ Uses(h, {c}, id) \in Nat
          /\ Uses(h, Live(h) \ {c}, id) \in Nat /\ Holders(h, id) \in Nat
          /\ e[id] \in Nat /\ f[id] \in Nat
      BY <1>2
    <3> QED BY <1>1, <3>1, <3>2, <3>3
  <2> QED BY <2>1 DEF Fits
<1>4. ASSUME AsMany(h, g, c, e, f), Exact(h, e) PROVE Exact(g, f)
  <2>1. ASSUME NEW id \in Ids PROVE Uses(g, Live(g), id) + f[id] = Holders(g, id)
    <3>1. Uses(g, {c}, id) + f[id] = Uses(h, {c}, id) + e[id]
      BY <1>4 DEF AsMany
    <3>2. Uses(h, Live(h), id) + e[id] = Holders(h, id)
      BY <1>4 DEF Exact
    <3> QED BY <1>1, <1>2, <3>1, <3>2
  <2> QED BY <2>1 DEF Exact
<1> QED BY <1>3, <1>4

LEMMA ChangedGuards ==
    ASSUME NEW h, NEW g, NEW c, IsChanged(h, g, c), NEW e, NEW A, Guards(h, A, e), c \in A
    PROVE  Guards(g, A, e)
<1>1. Live(g) \ A = Live(h) \ A /\ Live(h) \ A \in SUBSET (Ids \ {c}) /\ A \subseteq Ids
  BY ChangedUses, LiveIds DEF Guards
<1>2. \A id \in Ids : Uses(g, Live(h) \ A, id) = Uses(h, Live(h) \ A, id)
  <2>1. \A x \in Live(h) \ A : g.cells[x].items = h.cells[x].items
    BY <1>1 DEF IsChanged
  <2> QED BY <2>1, UsesSame
<1>3. \A id \in Ids : KindOf(g, id) = KindOf(h, id) /\ g.cells[id].refcount = h.cells[id].refcount
  BY ChangedUses
<1> QED BY <1>1, <1>2, <1>3 DEF Guards

WithItems(h, c, items) == [h EXCEPT !.cells[c].items = items]

\* The items of a heap may change as long as keys are strings.
LEMMA ChangedHeap ==
    ASSUME NEW h, HeapInv(h), NEW c \in Live(h), KindOf(h, c) # "string", NEW items \in Seq(ItemSet),
           Len(items) <= MaxItems,
           KeysAreStrings(h, items),
           NEW g, g = WithItems(h, c, items)
    PROVE  IsChanged(h, g, c) /\ g.cells[c].items = items
<1>1. h \in HeapSet /\ c \in Ids
  BY LiveIds DEF HeapInv
<1>2. h.cells[c] \in CellSet
  BY CellType, <1>1
<1> DEFINE new == [h.cells[c] EXCEPT !.items = items]
<1>3. new \in CellSet /\ new.items = items /\ new.kind = h.cells[c].kind /\ new.refcount = h.cells[c].refcount
  BY <1>2 DEF CellSet
<1>4. g = [h EXCEPT !.cells[c] = new]
  BY DEF WithItems
<1> HIDE DEF new
<1>5. g \in HeapSet /\ g.bad = h.bad /\ g.cells[c] = new /\ \A id \in Ids \ {c} : g.cells[id] = h.cells[id]
  <2>1. g \in HeapSet /\ g.bad = h.bad
    BY <1>1, <1>3, <1>4 DEF HeapSet
  <2>2. g.cells[c] = new /\ \A id \in Ids \ {c} : g.cells[id] = h.cells[id]
    BY <1>1, <1>3, <1>4 DEF HeapSet
  <2> QED BY <2>1, <2>2
<1>6. \A id \in Ids : KindOf(g, id) = KindOf(h, id)
  BY <1>3, <1>5 DEF KindOf
<1>7. HeapInv(g)
  <2>1. ASSUME NEW id \in Ids PROVE KindOf(g, id) = "free" => g.cells[id] = NoCell
    BY <1>1, <1>5, <1>6, LiveIds DEF HeapInv
  <2>2. ASSUME NEW id \in Ids, KindOf(g, id) = "string"
        PROVE  g.cells[id].items = <<>> /\ g.cells[id].refcount = 0
    BY <1>5, <1>6, <2>2 DEF HeapInv
  <2>3. ASSUME NEW id \in Ids PROVE Len(g.cells[id].items) <= MaxItems
    BY <1>3, <1>5 DEF HeapInv
  <2>4. ASSUME NEW id \in Ids, NEW i \in DOMAIN g.cells[id].items, g.cells[id].items[i].key # 0
        PROVE  KindOf(g, g.cells[id].items[i].key) = "string"
    <3>1. KindOf(h, g.cells[id].items[i].key) = "string"
      <4>1. CASE id = c
        BY <1>3, <1>5, <2>4, <4>1 DEF KeysAreStrings
      <4>2. CASE id # c
        BY <1>5, <2>4, <4>2 DEF HeapInv
      <4> QED BY <4>1, <4>2
    <3>2. g.cells[id].items[i].key \in 0..MaxCells
      <4>1. CASE id = c
        <5>1. \A j \in DOMAIN items : items[j] \in ItemSet
          OBVIOUS
        <5> QED BY <1>3, <1>5, <2>4, <4>1, <5>1 DEF ItemSet
      <4>2. CASE id # c
        BY <1>5, <2>4, <4>2, ItemType
      <4> QED BY <4>1, <4>2
    <3>3. g.cells[id].items[i].key \in Ids
      BY <2>4, <3>2, CellIds
    <3> QED BY <3>1, <3>3, <1>6
  <2> QED BY <1>5, <2>1, <2>2, <2>3, <2>4 DEF HeapInv
<1> QED BY <1>1, <1>3, <1>5, <1>6, <1>7 DEF IsChanged

\* An item more in cell c.
LEMMA PutHeap ==
    ASSUME NEW h, HeapInv(h), NEW c \in Live(h), KindOf(h, c) # "string", Len(h.cells[c].items) < MaxItems,
           NEW key \in 0..MaxCells, key # 0 => KindOf(h, key) = "string", NEW v \in ValueSet,
           NEW g, g = WithItems(h, c, Append(h.cells[c].items, Item(key, v)))
    PROVE  IsChanged(h, g, c) /\ Appends(h, g, c, key, v)
<1> DEFINE s == h.cells[c].items
           items == Append(s, Item(key, v))
<1>1. c \in Ids /\ s \in Seq(ItemSet) /\ Item(key, v) \in ItemSet
  BY LiveIds, CellType DEF Item, ItemSet
<1>2. h \in HeapSet /\ MaxItems \in Nat
  BY Bounds DEF HeapInv
<1>3. items \in Seq(ItemSet) /\ Len(items) <= MaxItems
  BY <1>1, <1>2
<1>4. ASSUME NEW i \in DOMAIN items, items[i].key # 0 PROVE KindOf(h, items[i].key) = "string"
  <2>1. CASE i \in DOMAIN s
    <3>1. items[i] = s[i]
      BY <1>1, <2>1
    <3> QED BY <1>1, <1>4, <2>1, <3>1 DEF HeapInv
  <2>2. CASE i \notin DOMAIN s
    <3>1. items[i] = Item(key, v)
      BY <1>1, <2>2
    <3> QED BY <1>4, <3>1 DEF Item
  <2> QED BY <2>1, <2>2
<1>7. KeysAreStrings(h, items)
  BY <1>4 DEF KeysAreStrings
<1>5. g = WithItems(h, c, items)
  OBVIOUS
<1> HIDE DEF items
<1> HIDE DEF s
<1>6. IsChanged(h, g, c) /\ g.cells[c].items = items
  BY <1>3, <1>5, <1>7, ChangedHeap
<1> QED BY <1>6 DEF items, s, Appends

LEMMA GivenTwice ==
    ASSUME NEW e \in Tallies, NEW key, NEW v, NEW id \in Ids
    PROVE  Given(Given(e, Key(key)), v)[id]
             = e[id] + (IF key = id THEN 1 ELSE 0) + (IF CellOf(v) = id THEN 1 ELSE 0)
<1>1. CellOf(Key(key)) = key
  BY KindNames DEF CellOf, Key, Value
<1> QED BY <1>1 DEF Given

\* The key and the value of an item are references the cell takes over.
LEMMA PutCounts ==
    ASSUME NEW h, NEW g, NEW c \in Ids, IsChanged(h, g, c), NEW key \in 0..MaxCells, NEW v \in ValueSet,
           Appends(h, g, c, key, v), NEW e \in Tallies
    PROVE  /\ Fits(h, Given(Given(e, Key(key)), v)) => Fits(g, e)
           /\ Exact(h, Given(Given(e, Key(key)), v)) => Exact(g, e)
<1> DEFINE d == Given(Given(e, Key(key)), v)
<1>1. d \in Tallies
  BY GivenType
<1>2. ASSUME NEW id \in Ids PROVE Uses(g, {c}, id) + e[id] = Uses(h, {c}, id) + d[id]
  <2>1. HeapInv(h)
    BY DEF IsChanged
  <2>2. Uses(g, {c}, id) = Uses(h, {c}, id) + (IF key = id THEN 1 ELSE 0) + (IF CellOf(v) = id THEN 1 ELSE 0)
    BY <2>1, UsesAppend
  <2>3. Uses(h, {c}, id) \in Nat /\ e[id] \in Nat
    BY <2>1, UsesFinite DEF Tallies
  <2>4. d[id] = e[id] + (IF key = id THEN 1 ELSE 0) + (IF CellOf(v) = id THEN 1 ELSE 0)
    BY GivenTwice
  <2> HIDE DEF d
  <2> QED BY <2>2, <2>3, <2>4
<1>3. ASSUME NEW id \in Ids PROVE Uses(g, {c}, id) + e[id] <= Uses(h, {c}, id) + d[id]
  <2>1. Uses(h, {c}, id) \in Nat /\ d[id] \in Nat
    <3>1. HeapInv(h) /\ {c} \in SUBSET Ids
      BY DEF IsChanged
    <3> HIDE DEF d
    <3> QED BY <1>1, <3>1, UsesFinite DEF Tallies
  <2> HIDE DEF d
  <2>2. Uses(g, {c}, id) + e[id] = Uses(h, {c}, id) + d[id]
    BY <1>2
  <2> QED BY <2>1, <2>2
<1> HIDE DEF d
<1>4. NoMore(h, g, c, d, e) /\ AsMany(h, g, c, d, e)
  BY <1>2, <1>3 DEF NoMore, AsMany
<1>5. (Fits(h, d) => Fits(g, e)) /\ (Exact(h, d) => Exact(g, e))
  BY <1>1, <1>4, ChangedCounts
<1> QED BY <1>4, <1>5 DEF d

\* The item at a place is replaced: its key is given back, its value is not.
LEMMA ReplaceHeap ==
    ASSUME NEW h, HeapInv(h), NEW c \in Live(h), KindOf(h, c) # "string", NEW at \in DOMAIN h.cells[c].items,
           NEW key \in 0..MaxCells, key # 0 => KindOf(h, key) = "string", NEW v \in ValueSet,
           NEW g, g = WithItems(h, c, [h.cells[c].items EXCEPT ![at] = Item(key, v)])
    PROVE  IsChanged(h, g, c) /\ Replaced(h, g, c, at, key, v)
<1> DEFINE s == h.cells[c].items
           items == [s EXCEPT ![at] = Item(key, v)]
<1>1. c \in Ids /\ s \in Seq(ItemSet) /\ Item(key, v) \in ItemSet /\ Len(s) <= MaxItems
  BY LiveIds, CellType DEF Item, ItemSet, HeapInv
<1>2. items \in Seq(ItemSet) /\ Len(items) <= MaxItems
  BY <1>1
<1>3. ASSUME NEW i \in DOMAIN items, items[i].key # 0 PROVE KindOf(h, items[i].key) = "string"
  <2>1. CASE i # at
    <3>1. items[i] = s[i] /\ i \in DOMAIN s
      BY <1>1, <2>1
    <3> QED BY <1>1, <1>3, <3>1 DEF HeapInv
  <2>2. CASE i = at
    <3>1. items[i] = Item(key, v)
      BY <1>1, <2>2
    <3> QED BY <1>3, <3>1 DEF Item
  <2> QED BY <2>1, <2>2
<1>6. KeysAreStrings(h, items)
  BY <1>3 DEF KeysAreStrings
<1>4. g = WithItems(h, c, items)
  OBVIOUS
<1> HIDE DEF items
<1> HIDE DEF s
<1>5. IsChanged(h, g, c) /\ g.cells[c].items = items
  BY <1>2, <1>4, <1>6, ChangedHeap
<1> QED BY <1>5 DEF items, s, Replaced

LEMMA ReplaceCounts ==
    ASSUME NEW h, NEW g, NEW c \in Ids, IsChanged(h, g, c), NEW key \in 0..MaxCells, NEW v \in ValueSet,
           NEW at \in DOMAIN h.cells[c].items, NEW old, old = h.cells[c].items[at].key,
           Replaced(h, g, c, at, key, v), NEW e \in Tallies,
           Fits(h, Given(Given(e, Key(key)), v))
    PROVE  Fits(g, Given(e, Key(old)))
<1> DEFINE d == Given(Given(e, Key(key)), v)
           f == Given(e, Key(old))
<1>1. d \in Tallies /\ f \in Tallies
  BY GivenType
<1>2. ASSUME NEW id \in Ids PROVE Uses(g, {c}, id) + f[id] <= Uses(h, {c}, id) + d[id]
  <2>1. HeapInv(h)
    BY DEF IsChanged
  <2>2. /\ Uses(g, {c}, id) \in Nat
        /\ Uses(g, {c}, id) + (IF old = id THEN 1 ELSE 0)
             <= Uses(h, {c}, id) + (IF key = id THEN 1 ELSE 0) + (IF CellOf(v) = id THEN 1 ELSE 0)
    BY <2>1, UsesReplace
  <2>3. Uses(h, {c}, id) \in Nat /\ e[id] \in Nat
    BY <2>1, UsesFinite DEF Tallies
  <2>4. d[id] = e[id] + (IF key = id THEN 1 ELSE 0) + (IF CellOf(v) = id THEN 1 ELSE 0)
    BY GivenTwice
  <2>5. f[id] = e[id] + IF old = id THEN 1 ELSE 0
    BY KindNames DEF Given, CellOf, Key, Value
  <2> HIDE DEF d, f
  <2> QED BY <2>2, <2>3, <2>4, <2>5
<1> HIDE DEF d, f
<1>3. NoMore(h, g, c, d, f)
  BY <1>2 DEF NoMore
<1>4. Fits(h, d) => Fits(g, f)
  BY <1>1, <1>3, ChangedCounts
<1> QED BY <1>4 DEF d, f

(* The key that is replaced: a string with one reference. *)

Gone(h, old) == [h EXCEPT !.cells[old] = NoCell]

LEMMA DroppedType ==
    ASSUME NEW h, HeapInv(h), NEW v, NEW S \in SUBSET Ids, NEW id
    PROVE  Dropped(h, v, S, id) \in Nat
<1>1. Uses(h, S, id) \in Nat
  BY UsesFinite
<1> QED BY <1>1 DEF Dropped

LEMMA GoneHeap ==
    ASSUME NEW h, HeapInv(h), NEW old \in Ids, NEW g, g = Gone(h, old)
    PROVE  /\ g \in HeapSet /\ g.bad = h.bad
           /\ g.cells[old] = NoCell
           /\ \A id \in Ids \ {old} : g.cells[id] = h.cells[id]
<1>1. h \in HeapSet
  BY DEF HeapInv
<1>2. NoCell \in CellSet
  <2>1. <<>> \in Seq(ItemSet)
    BY EmptySeq
  <2> QED BY <2>1 DEF NoCell, Cell, CellSet
<1>3. g \in HeapSet /\ g.bad = h.bad
  BY <1>1, <1>2 DEF HeapSet, Gone
<1>4. g.cells[old] = NoCell /\ \A id \in Ids \ {old} : g.cells[id] = h.cells[id]
  BY <1>1, <1>2 DEF HeapSet, Gone
<1> QED BY <1>3, <1>4

LEMMA LoneGoing ==
    ASSUME NEW h, HeapInv(h), NEW old \in Ids, KindOf(h, old) = "string"
    PROVE  /\ Going(h, Key(old)) = {old}
           /\ \A id \in Ids : Dropped(h, Key(old), {old}, id) = IF id = old THEN 1 ELSE 0
           /\ old \in Live(h) /\ Holders(h, old) = 1
<1> DEFINE v == Key(old)
<1>1. CellOf(v) = old
  BY KindNames DEF CellOf, Key, Value
<1>2. h.cells[old].items = <<>> /\ h.cells[old].refcount = 0
  BY DEF HeapInv
<1>3. old \in Live(h) /\ Live(h) \subseteq Ids
  BY LiveIds, KindNames
<1>4. Holders(h, old) = 1
  BY <1>2, <1>3 DEF Holders
<1> HIDE DEF v
<1>5. ASSUME NEW id \in Ids PROVE Dropped(h, v, {old}, id) = IF id = old THEN 1 ELSE 0
  <2>1. Uses(h, {old}, id) = 0
    BY <1>2, UsesNone
  <2> QED BY <1>1, <2>1 DEF Dropped
<1>6. Closed(h, v, {old})
  <2>1. ASSUME NEW id \in Live(h), Dropped(h, v, {old}, id) > h.cells[id].refcount PROVE id = old
    <3>1. id \in Ids /\ h.cells[id].refcount \in Nat
      BY <1>3, CellType
    <3> QED BY <1>5, <2>1, <3>1
  <2> QED BY <2>1 DEF Closed
<1>7. ASSUME NEW S \in SUBSET Live(h), Closed(h, v, S) PROVE old \in S
  <2>1. Uses(h, S, old) \in Nat
    BY <1>3, UsesFinite
  <2>2. Dropped(h, v, S, old) > h.cells[old].refcount
    BY <1>1, <1>2, <2>1 DEF Dropped
  <2> QED BY <1>3, <1>7, <2>2 DEF Closed
<1>8. {old} \in SUBSET Live(h)
  BY <1>3
<1>9. Going(h, v) = {old}
  BY <1>3, <1>6, <1>7, <1>8 DEF Going
<1> QED BY <1>3, <1>4, <1>5, <1>9 DEF v

LEMMA LoneFree ==
    ASSUME NEW h, HeapInv(h), NEW old \in Ids, KindOf(h, old) = "string"
    PROVE  FreeValue(h, Key(old)) = Gone(h, old)
<1> DEFINE v == Key(old)
           g == FreeValue(h, v)
           CellAt(id) == IF id \in Live(h) \ {old}
                         THEN [h.cells[id] EXCEPT !.refcount = @ - Dropped(h, v, {old}, id)]
                         ELSE NoCell
<1>1. /\ Going(h, v) = {old}
      /\ \A id \in Ids : Dropped(h, v, {old}, id) = IF id = old THEN 1 ELSE 0
      /\ old \in Live(h) /\ Holders(h, old) = 1
  BY LoneGoing
<1> HIDE DEF v
<1>2. ASSUME NEW id \in Ids PROVE CellAt(id) = Gone(h, old).cells[id]
  <2>1. Gone(h, old).cells[id] = IF id = old THEN NoCell ELSE h.cells[id]
    BY GoneHeap
  <2>2. CASE id \in Live(h) \ {old}
    <3>1. h.cells[id] \in CellSet
      BY CellType
    <3>2. Dropped(h, v, {old}, id) = 0
      BY <1>1, <2>2
    <3>3. [h.cells[id] EXCEPT !.refcount = @ - 0] = h.cells[id]
      <4>1. h.cells[id].refcount - 0 = h.cells[id].refcount
        BY CellType
      <4>2. [h.cells[id] EXCEPT !.refcount = h.cells[id].refcount] = h.cells[id]
        BY <3>1 DEF CellSet
      <4> QED BY <4>1, <4>2
    <3> QED BY <2>1, <2>2, <3>2, <3>3
  <2>3. CASE id \notin Live(h)
    <3>1. h.cells[id] = NoCell
      BY <2>3, LiveIds DEF HeapInv
    <3> QED BY <2>1, <2>3, <3>1
  <2>4. CASE id = old
    BY <2>1, <2>4
  <2> QED BY <2>2, <2>3, <2>4
<1>3. \A id \in Ids : ~(Dropped(h, v, {old}, id) > Holders(h, id))
  <2> TAKE id \in Ids
  <2>1. Holders(h, id) \in Nat
    BY HoldersType
  <2> QED BY <1>1, <2>1
<1>4. g = [cells |-> [id \in Ids |-> CellAt(id)], bad |-> h.bad \/ \E id \in Ids : Dropped(h, v, {old}, id) > Holders(h, id)]
  BY <1>1 DEF FreeValue, Ids
<1> HIDE DEF CellAt, g
<1>5. h.bad \in BOOLEAN
  BY DEF HeapInv, HeapSet
<1>6. (h.bad \/ \E id \in Ids : Dropped(h, v, {old}, id) > Holders(h, id)) = h.bad
  BY <1>3, <1>5
<1>7. g = [cells |-> [id \in Ids |-> CellAt(id)], bad |-> h.bad]
  BY <1>4, <1>6
<1>8. Gone(h, old) \in HeapSet /\ Gone(h, old).bad = h.bad
  BY GoneHeap
<1>9. [id \in Ids |-> CellAt(id)] = Gone(h, old).cells
  BY <1>2, <1>8 DEF HeapSet
<1>10. g = Gone(h, old)
  BY <1>7, <1>8, <1>9 DEF HeapSet
<1> QED BY <1>10 DEF g, v

LEMMA GoneNew ==
    ASSUME NEW h, HeapInv(h), NEW old \in Ids, KindOf(h, old) = "string", Uses(h, Live(h), old) = 0,
           NEW g, g = Gone(h, old)
    PROVE  IsNew(g, h, old, "string")
<1>1. /\ g \in HeapSet /\ g.bad = h.bad
      /\ g.cells[old] = NoCell
      /\ \A id \in Ids \ {old} : g.cells[id] = h.cells[id]
  BY GoneHeap
<1>2. NoCell.items = <<>> /\ NoCell.kind = "free"
  BY DEF NoCell, Cell
<1>3. h.cells[old].items = <<>> /\ h.cells[old].refcount = 0
  BY DEF HeapInv
<1>4. \A id \in Ids : g.cells[id].items = h.cells[id].items
  BY <1>1, <1>2, <1>3
<1>5. old \notin Live(g)
  BY <1>1, <1>2 DEF Live
<1>6. HeapInv(g)
  <2>1. ASSUME NEW id \in Ids PROVE KindOf(g, id) = "free" => g.cells[id] = NoCell
    BY <1>1 DEF HeapInv, KindOf
  <2>2. ASSUME NEW id \in Ids, KindOf(g, id) = "string"
        PROVE  g.cells[id].items = <<>> /\ g.cells[id].refcount = 0
    BY <1>1, <1>2, <2>2 DEF HeapInv, KindOf
  <2>3. ASSUME NEW id \in Ids PROVE Len(g.cells[id].items) <= MaxItems
    BY <1>4 DEF HeapInv
  <2>4. ASSUME NEW id \in Ids, NEW i \in DOMAIN g.cells[id].items, g.cells[id].items[i].key # 0
        PROVE  KindOf(g, g.cells[id].items[i].key) = "string"
    <3>1. g.cells[id].items = h.cells[id].items
      BY <1>4
    <3>2. i \in DOMAIN h.cells[id].items /\ h.cells[id].items[i].key # 0
      BY <2>4, <3>1
    <3>3. h.cells[id].items[i].key \in Ids
      <4>1. h.cells[id].items[i].key \in 0..MaxCells
        BY <3>2, ItemType
      <4> QED BY <4>1, <3>2, CellIds
    <3>4. KindOf(h, h.cells[id].items[i].key) = "string"
      BY <3>2 DEF HeapInv
    <3>5. h.cells[id].items[i].key # old
      <4>1. ASSUME h.cells[id].items[i].key = old PROVE FALSE
        <5>1. id \in Live(h) /\ Live(h) \in SUBSET Ids
          <6>1. CASE KindOf(h, id) = "free"
            <7>1. h.cells[id].items = <<>>
              BY <1>2, <6>1 DEF HeapInv
            <7> QED BY <3>2, <7>1
          <6>2. CASE KindOf(h, id) # "free"
            BY <6>2, LiveIds
          <6> QED BY <6>1, <6>2
        <5>2. Uses(h, Live(h), old) >= 1
          BY <3>2, <4>1, <5>1, UsesSome
        <5> QED BY <5>2
      <4> QED BY <4>1
    <3> QED BY <1>1, <3>1, <3>3, <3>4, <3>5 DEF KindOf
  <2> QED BY <1>1, <2>1, <2>2, <2>3, <2>4 DEF HeapInv
<1> QED BY <1>1, <1>3, <1>5, <1>6, KindNames DEF IsNew

LEMMA GoneCounts ==
    ASSUME NEW h, HeapInv(h), NEW old \in Ids, KindOf(h, old) = "string", NEW e \in Tallies,
           Fits(h, Given(e, Key(old))), NEW g, g = Gone(h, old)
    PROVE  IsNew(g, h, old, "string") /\ Fits(g, e)
<1>1. Given(e, Key(old))[old] = e[old] + 1 /\ \A id \in Ids \ {old} : Given(e, Key(old))[id] = e[id]
  BY KindNames DEF Given, CellOf, Key, Value, Tallies
<1>2. h.cells[old].refcount = 0 /\ Live(h) \in SUBSET Ids
  BY LiveIds DEF HeapInv
<1>3. Uses(h, Live(h), old) + Given(e, Key(old))[old] <= Holders(h, old)
  BY DEF Fits
<1>4. Uses(h, Live(h), old) \in Nat /\ e[old] \in Nat
  BY <1>2, UsesFinite DEF Tallies
<1>5. Holders(h, old) <= 1
  BY <1>2 DEF Holders
<1>6. Uses(h, Live(h), old) = 0 /\ e[old] = 0
  BY <1>1, <1>3, <1>4, <1>5, <1>2 DEF Holders
<1>7. IsNew(g, h, old, "string")
  BY <1>6, GoneNew
<1>8. /\ Live(h) = Live(g) \cup {old}
      /\ \A S \in SUBSET Live(g), id \in Ids : Uses(h, S \cup {old}, id) = Uses(g, S, id)
  BY <1>7, NewUses
<1>9. \A id \in Ids : Uses(h, Live(h), id) = Uses(g, Live(g), id)
  BY <1>8
<1>10. ASSUME NEW id \in Ids PROVE Uses(g, Live(g), id) + e[id] <= Holders(g, id)
  <2>1. CASE id = old
    <3>1. HeapInv(g)
      BY <1>7 DEF IsNew
    <3>2. Holders(g, old) \in Nat
      BY <3>1, HoldersType
    <3> QED BY <1>6, <1>9, <2>1, <3>2
  <2>2. CASE id # old
    <3>1. Holders(g, id) = Holders(h, id)
      BY <1>7, <1>8, <2>2 DEF Holders, IsNew
    <3>2. Uses(h, Live(h), id) + e[id] <= Holders(h, id)
      BY <1>1, <2>2 DEF Fits
    <3> QED BY <1>9, <3>1, <3>2
  <2> QED BY <2>1, <2>2
<1> QED BY <1>7, <1>10 DEF Fits

LEMMA GoneGuards ==
    ASSUME NEW h, NEW g, NEW old, IsNew(g, h, old, "string"), NEW A, NEW e, Guards(h, A, e)
    PROVE  Guards(g, A, e)
<1>1. old \notin A /\ A \subseteq Live(h) /\ A \subseteq Ids
  <2>1. KindOf(h, old) \notin Kinds
    BY KindNames DEF IsNew
  <2> QED BY <2>1, GuardsLive DEF Guards
<1>2. Live(h) = Live(g) \cup {old} /\ old \notin Live(g)
  BY NewUses DEF IsNew
<1>3. Live(h) \ A = (Live(g) \ A) \cup {old} /\ Live(g) \ A \in SUBSET Live(g)
  BY <1>1, <1>2
<1>4. ASSUME NEW id \in Ids PROVE Uses(h, Live(h) \ A, id) = Uses(g, Live(g) \ A, id)
  BY <1>3, NewUses
<1>5. \A id \in A : g.cells[id] = h.cells[id]
  BY <1>1 DEF IsNew
<1> QED BY <1>1, <1>4, <1>5 DEF Guards, KindOf

(* What goes with a value: the least closed set. *)

LEMMA DroppedMore ==
    ASSUME NEW h, HeapInv(h), NEW v, NEW S \in SUBSET Ids, NEW T \in SUBSET S, NEW id
    PROVE  /\ Dropped(h, v, T, id) \in Nat /\ Dropped(h, v, S, id) \in Nat
           /\ Dropped(h, v, T, id) <= Dropped(h, v, S, id)
<1>1. Uses(h, S, id) = Uses(h, T, id) + Uses(h, S \ T, id)
  BY UsesPart
<1>2. Uses(h, S, id) \in Nat /\ Uses(h, T, id) \in Nat /\ Uses(h, S \ T, id) \in Nat
  <2>1. T \in SUBSET Ids /\ S \ T \in SUBSET Ids
    OBVIOUS
  <2> QED BY <2>1, UsesFinite
<1> QED BY <1>1, <1>2 DEF Dropped

LEMMA GoingLeast ==
    ASSUME NEW h, HeapInv(h), NEW v, NEW G, G = Going(h, v)
    PROVE  /\ G \in SUBSET Live(h) /\ G \in SUBSET Ids
           /\ \A S \in SUBSET Live(h) : Closed(h, v, S) => G \subseteq S
           /\ \A id \in Live(h) : id \in G <=> Dropped(h, v, G, id) > h.cells[id].refcount
<1>1. G \in SUBSET Live(h) /\ G \in SUBSET Ids /\ Live(h) \in SUBSET Ids
  BY LiveIds DEF Going
<1>2. \A S \in SUBSET Live(h) : Closed(h, v, S) => G \subseteq S
  BY DEF Going
<1>3. \A id \in Live(h) : h.cells[id].refcount \in Nat
  BY <1>1, CellType
<1>4. ASSUME NEW id \in Live(h), Dropped(h, v, G, id) > h.cells[id].refcount PROVE id \in G
  <2>1. ASSUME NEW S \in SUBSET Live(h), Closed(h, v, S) PROVE id \in S
    <3>1. S \in SUBSET Ids /\ G \in SUBSET S
      BY <1>1, <1>2, <2>1
    <3>2. /\ Dropped(h, v, G, id) \in Nat /\ Dropped(h, v, S, id) \in Nat
          /\ Dropped(h, v, G, id) <= Dropped(h, v, S, id)
      BY <3>1, DroppedMore
    <3>3. Dropped(h, v, S, id) > h.cells[id].refcount
      BY <1>3, <1>4, <3>2
    <3> QED BY <2>1, <3>3 DEF Closed
  <2> QED BY <2>1 DEF Going
<1>5. ASSUME NEW id \in G, ~(Dropped(h, v, G, id) > h.cells[id].refcount) PROVE FALSE
  <2> DEFINE S == G \ {id}
  <2>1. S \in SUBSET Live(h) /\ S \in SUBSET G
    BY <1>1
  <2>2. ASSUME NEW x \in Live(h), Dropped(h, v, S, x) > h.cells[x].refcount PROVE x \in S
    <3>1. /\ Dropped(h, v, S, x) \in Nat /\ Dropped(h, v, G, x) \in Nat
          /\ Dropped(h, v, S, x) <= Dropped(h, v, G, x)
      BY <1>1, <2>1, DroppedMore
    <3>2. Dropped(h, v, G, x) > h.cells[x].refcount
      BY <1>3, <2>2, <3>1
    <3>3. x \in G /\ x # id
      BY <1>4, <1>5, <3>2
    <3> QED BY <3>3
  <2>3. Closed(h, v, S)
    BY <2>2 DEF Closed
  <2>4. G \subseteq S
    BY <1>2, <2>1, <2>3
  <2> QED BY <2>4
<1> QED BY <1>1, <1>2, <1>4, <1>5

\* g is h after the reference v is freed, with which G goes.
IsFreed(h, g, v, G) ==
    /\ HeapInv(h) /\ g \in HeapSet /\ g.bad = h.bad /\ G = Going(h, v)
    /\ Live(g) = Live(h) \ G
    /\ \A id \in Ids \ Live(g) : g.cells[id] = NoCell
    /\ \A id \in Live(g) : /\ KindOf(g, id) = KindOf(h, id)
                           /\ g.cells[id].items = h.cells[id].items
                           /\ g.cells[id].refcount = h.cells[id].refcount - Dropped(h, v, G, id)
                           /\ g.cells[id].refcount \in Nat

\* A reference that is there can be freed: what goes has no other reference.
LEMMA FreeGoing ==
    ASSUME NEW h, HeapInv(h), NEW e \in Tallies, NEW v, Fits(h, Given(e, v)), NEW G, G = Going(h, v)
    PROVE  /\ \A id \in Ids : ~(Dropped(h, v, G, id) > Holders(h, id))
           /\ \A id \in G : Uses(h, Live(h) \ G, id) = 0 /\ e[id] = 0
           /\ \A id \in Ids : Uses(h, Live(h), id) = Uses(h, G, id) + Uses(h, Live(h) \ G, id)
<1>1. /\ G \in SUBSET Live(h) /\ G \in SUBSET Ids /\ Live(h) \in SUBSET Ids
      /\ \A id \in Live(h) : id \in G <=> Dropped(h, v, G, id) > h.cells[id].refcount
  BY GoingLeast, LiveIds
<1>2. ASSUME NEW id \in Ids
      PROVE  /\ Uses(h, Live(h), id) = Uses(h, G, id) + Uses(h, Live(h) \ G, id)
             /\ Uses(h, G, id) \in Nat /\ Uses(h, Live(h) \ G, id) \in Nat
             /\ e[id] \in Nat /\ Holders(h, id) \in Nat
             /\ Uses(h, G, id) + Uses(h, Live(h) \ G, id) + e[id] + (IF CellOf(v) = id THEN 1 ELSE 0)
                  <= Holders(h, id)
             /\ Dropped(h, v, G, id) = Uses(h, G, id) + (IF CellOf(v) = id THEN 1 ELSE 0)
  <2>1. Uses(h, Live(h), id) = Uses(h, G, id) + Uses(h, Live(h) \ G, id)
    BY <1>1, UsesPart
  <2>2. Uses(h, G, id) \in Nat /\ Uses(h, Live(h) \ G, id) \in Nat
    <3>1. Live(h) \ G \in SUBSET Ids
      BY <1>1
    <3> QED BY <1>1, <3>1, UsesFinite
  <2>3. Holders(h, id) \in Nat /\ e[id] \in Nat
    BY HoldersType DEF Tallies
  <2>4. Uses(h, Live(h), id) + (e[id] + IF CellOf(v) = id THEN 1 ELSE 0) <= Holders(h, id)
    BY DEF Fits, Given
  <2>5. Dropped(h, v, G, id) = Uses(h, G, id) + (IF CellOf(v) = id THEN 1 ELSE 0)
    BY DEF Dropped
  <2> QED BY <2>1, <2>2, <2>3, <2>4, <2>5
<1>3. ASSUME NEW id \in Ids PROVE ~(Dropped(h, v, G, id) > Holders(h, id))
  BY <1>2
<1>4. ASSUME NEW id \in G PROVE Uses(h, Live(h) \ G, id) = 0 /\ e[id] = 0
  <2>1. id \in Ids /\ id \in Live(h) /\ h.cells[id].refcount \in Nat
    BY <1>1, CellType
  <2>2. Holders(h, id) = h.cells[id].refcount + 1
    BY <2>1 DEF Holders
  <2>3. Dropped(h, v, G, id) > h.cells[id].refcount
    BY <1>1, <2>1
  <2>4. /\ Uses(h, G, id) \in Nat /\ Uses(h, Live(h) \ G, id) \in Nat
        /\ e[id] \in Nat
        /\ Uses(h, G, id) + Uses(h, Live(h) \ G, id) + e[id] + (IF CellOf(v) = id THEN 1 ELSE 0)
             <= Holders(h, id)
        /\ Dropped(h, v, G, id) = Uses(h, G, id) + (IF CellOf(v) = id THEN 1 ELSE 0)
    BY <1>2, <2>1
  <2> QED BY <2>1, <2>2, <2>3, <2>4
<1> QED BY <1>2, <1>3, <1>4

LEMMA FreeIsFreed ==
    ASSUME NEW h, HeapInv(h), NEW e \in Tallies, NEW v, Fits(h, Given(e, v)),
           NEW g, g = FreeValue(h, v), NEW G, G = Going(h, v)
    PROVE  IsFreed(h, g, v, G)
<1> DEFINE CellAt(id) == IF id \in Live(h) \ G
                         THEN [h.cells[id] EXCEPT !.refcount = @ - Dropped(h, v, G, id)]
                         ELSE NoCell
           cells == [id \in Ids |-> CellAt(id)]
<1>1. /\ G \in SUBSET Live(h) /\ G \in SUBSET Ids /\ Live(h) \in SUBSET Ids
      /\ \A id \in Live(h) : id \in G <=> Dropped(h, v, G, id) > h.cells[id].refcount
  BY GoingLeast, LiveIds
<1>2. \A id \in Ids : ~(Dropped(h, v, G, id) > Holders(h, id))
  BY FreeGoing
<1>3. g = [cells |-> cells, bad |-> h.bad \/ \E id \in Ids : Dropped(h, v, G, id) > Holders(h, id)]
  BY DEF FreeValue, Ids
<1>4. h.bad \in BOOLEAN
  BY DEF HeapInv, HeapSet
<1>5. ASSUME NEW id \in Live(h) \ G
      PROVE  /\ CellAt(id) \in CellSet /\ CellAt(id).kind = h.cells[id].kind
             /\ CellAt(id).items = h.cells[id].items
             /\ CellAt(id).refcount = h.cells[id].refcount - Dropped(h, v, G, id)
             /\ CellAt(id).refcount \in Nat
  <2> DEFINE n == h.cells[id].refcount - Dropped(h, v, G, id)
  <2>1. h.cells[id] \in CellSet /\ h.cells[id].refcount \in Nat
    BY <1>1, CellType
  <2>2. Dropped(h, v, G, id) \in Nat
    BY <1>1, DroppedType
  <2>3. n \in Nat
    BY <1>1, <1>5, <2>1, <2>2
  <2>4. CellAt(id) = [h.cells[id] EXCEPT !.refcount = n]
    OBVIOUS
  <2> HIDE DEF n, CellAt
  <2>5. CellAt(id) \in CellSet /\ CellAt(id).kind = h.cells[id].kind
        /\ CellAt(id).items = h.cells[id].items /\ CellAt(id).refcount = n
    BY <2>1, <2>3, <2>4 DEF CellSet
  <2> QED BY <2>3, <2>5 DEF n
<1>6. \A id \in Ids \ (Live(h) \ G) : CellAt(id) = NoCell
  OBVIOUS
<1>7. NoCell \in CellSet /\ NoCell.kind = "free"
  <2>1. <<>> \in Seq(ItemSet)
    BY EmptySeq
  <2> QED BY <2>1 DEF NoCell, Cell, CellSet
<1> HIDE DEF CellAt
<1>8. \A id \in Ids : CellAt(id) \in CellSet
  BY <1>5, <1>6, <1>7
<1>9. g.cells = cells /\ g.bad = h.bad /\ g \in HeapSet
  BY <1>2, <1>3, <1>4, <1>8 DEF HeapSet
<1>10. \A id \in Ids : g.cells[id] = CellAt(id)
  BY <1>9
<1>11. Live(g) = Live(h) \ G
  <2>1. \A id \in Ids : KindOf(g, id) # "free" <=> id \in Live(h) \ G
    BY <1>5, <1>6, <1>7, <1>10, LiveIds DEF KindOf
  <2> QED BY <1>1, <2>1, LiveIds
<1>12. \A id \in Ids \ Live(g) : g.cells[id] = NoCell
  BY <1>6, <1>10, <1>11
<1>13. ASSUME NEW id \in Live(g)
       PROVE  /\ KindOf(g, id) = KindOf(h, id)
              /\ g.cells[id].items = h.cells[id].items
              /\ g.cells[id].refcount = h.cells[id].refcount - Dropped(h, v, G, id)
              /\ g.cells[id].refcount \in Nat
  BY <1>1, <1>5, <1>10, <1>11 DEF KindOf
<1> QED BY <1>9, <1>11, <1>12, <1>13 DEF IsFreed

LEMMA FreedHeap ==
    ASSUME NEW h, NEW g, NEW v, NEW G, IsFreed(h, g, v, G), NEW e \in Tallies, Fits(h, Given(e, v))
    PROVE  /\ HeapInv(g)
           /\ \A S \in SUBSET Live(g), id \in Ids : Uses(g, S, id) = Uses(h, S, id)
           /\ \A id \in Ids : g.cells[id].refcount <= h.cells[id].refcount
           /\ \A id \in Live(g) : g.cells[id].refcount + (IF CellOf(v) = id THEN 1 ELSE 0)
                                    <= h.cells[id].refcount
<1>1. HeapInv(h) /\ Live(g) \in SUBSET Live(h) /\ Live(h) \in SUBSET Ids /\ G \in SUBSET Ids
      /\ Live(g) \in SUBSET Ids /\ Live(h) \ G = Live(g)
  BY GoingLeast, LiveIds DEF IsFreed
<1>2. NoCell.items = <<>> /\ NoCell.kind = "free" /\ NoCell.refcount = 0
  BY DEF NoCell, Cell
<1>3. \A id \in Ids : id \notin Live(g) => g.cells[id] = NoCell
  BY DEF IsFreed
<1>4. \A id \in G : Uses(h, Live(g), id) = 0
  BY <1>1, FreeGoing DEF IsFreed
<1>5. ASSUME NEW S \in SUBSET Live(g), NEW id \in Ids PROVE Uses(g, S, id) = Uses(h, S, id)
  <2>1. \A x \in S : g.cells[x].items = h.cells[x].items
    BY DEF IsFreed
  <2> QED BY <2>1, UsesSame
<1>6. ASSUME NEW id \in Live(g)
      PROVE  /\ g.cells[id].refcount + (IF CellOf(v) = id THEN 1 ELSE 0) <= h.cells[id].refcount
             /\ g.cells[id].refcount <= h.cells[id].refcount
  <2>1. g.cells[id].refcount = h.cells[id].refcount - Dropped(h, v, G, id)
    BY DEF IsFreed
  <2>2. Uses(h, G, id) \in Nat /\ h.cells[id].refcount \in Nat
    BY <1>1, UsesFinite, CellType
  <2> QED BY <2>1, <2>2 DEF Dropped
<1>7. ASSUME NEW id \in Ids PROVE g.cells[id].refcount <= h.cells[id].refcount
  <2>1. CASE id \in Live(g)
    BY <1>6, <2>1
  <2>2. CASE id \notin Live(g)
    <3>1. h.cells[id].refcount \in Nat
      BY <1>1, CellType
    <3> QED BY <1>2, <1>3, <2>2, <3>1
  <2> QED BY <2>1, <2>2
<1>8. HeapInv(g)
  <2>1. ASSUME NEW id \in Ids PROVE KindOf(g, id) = "free" => g.cells[id] = NoCell
    BY <1>3, LiveIds
  <2>2. ASSUME NEW id \in Ids, KindOf(g, id) = "string"
        PROVE  g.cells[id].items = <<>> /\ g.cells[id].refcount = 0
    <3>1. id \in Live(g)
      BY <2>2, LiveIds, KindNames
    <3>2. KindOf(h, id) = "string" /\ g.cells[id].items = h.cells[id].items /\ g.cells[id].refcount \in Nat
      BY <2>2, <3>1 DEF IsFreed
    <3>3. h.cells[id].items = <<>> /\ h.cells[id].refcount = 0
      BY <1>1, <3>2 DEF HeapInv
    <3>4. g.cells[id].refcount <= h.cells[id].refcount
      BY <1>7
    <3> QED BY <3>2, <3>3, <3>4
  <2>3. ASSUME NEW id \in Ids PROVE Len(g.cells[id].items) <= MaxItems
    <3>1. CASE id \in Live(g)
      BY <1>1, <3>1 DEF IsFreed, HeapInv
    <3>2. CASE id \notin Live(g)
      BY <1>2, <1>3, <3>2, Bounds
    <3> QED BY <3>1, <3>2
  <2>4. ASSUME NEW id \in Ids, NEW i \in DOMAIN g.cells[id].items, g.cells[id].items[i].key # 0
        PROVE  KindOf(g, g.cells[id].items[i].key) = "string"
    <3>1. id \in Live(g)
      <4>1. CASE id \notin Live(g)
        <5>1. g.cells[id].items = <<>>
          BY <1>2, <1>3, <4>1
        <5> QED BY <2>4, <5>1
      <4> QED BY <4>1
    <3>2. g.cells[id].items = h.cells[id].items
      BY <3>1 DEF IsFreed
    <3> DEFINE k == h.cells[id].items[i].key
    <3>3. i \in DOMAIN h.cells[id].items /\ k # 0 /\ k = g.cells[id].items[i].key
      BY <2>4, <3>2
    <3>4. k \in Ids
      <4>1. k \in 0..MaxCells
        BY <1>1, <3>3, ItemType
      <4> QED BY <4>1, <3>3, CellIds
    <3>5. KindOf(h, k) = "string"
      BY <1>1, <3>3 DEF HeapInv
    <3>6. Uses(h, Live(g), k) >= 1
      BY <1>1, <3>1, <3>3, UsesSome
    <3> HIDE DEF k
    <3>7. k \in Live(g)
      <4>1. k \in Live(h)
        BY <3>4, <3>5, LiveIds, KindNames
      <4>2. k \notin G
        BY <1>4, <3>6
      <4> QED BY <1>1, <4>1, <4>2
    <3>8. KindOf(g, k) = "string"
      BY <3>5, <3>7 DEF IsFreed
    <3> QED BY <3>3, <3>8
  <2>5. g \in HeapSet
    BY DEF IsFreed
  <2> QED BY <2>1, <2>2, <2>3, <2>4, <2>5 DEF HeapInv
<1> QED BY <1>5, <1>6, <1>7, <1>8

LEMMA FreedCounts ==
    ASSUME NEW h, NEW g, NEW v, NEW G, IsFreed(h, g, v, G), NEW e \in Tallies, Fits(h, Given(e, v))
    PROVE  Fits(g, e) /\ (Exact(h, Given(e, v)) => Exact(g, e))
<1>1. HeapInv(h) /\ Live(g) \in SUBSET Live(h) /\ Live(h) \in SUBSET Ids /\ G \in SUBSET Ids
      /\ Live(h) \ G = Live(g) /\ G \in SUBSET Live(h) /\ Live(g) \in SUBSET Live(g)
  BY GoingLeast, LiveIds DEF IsFreed
<1>2. \A id \in Ids : Uses(g, Live(g), id) = Uses(h, Live(g), id)
  BY <1>1, FreedHeap
<1>3. /\ \A id \in G : Uses(h, Live(g), id) = 0 /\ e[id] = 0
      /\ \A id \in Ids : Uses(h, Live(h), id) = Uses(h, G, id) + Uses(h, Live(g), id)
  BY <1>1, FreeGoing DEF IsFreed
<1>4. ASSUME NEW id \in Ids
      PROVE  /\ Uses(h, G, id) \in Nat /\ Uses(h, Live(g), id) \in Nat /\ e[id] \in Nat
             /\ Given(e, v)[id] = e[id] + IF CellOf(v) = id THEN 1 ELSE 0
  <2>1. Live(g) \in SUBSET Ids
    BY <1>1
  <2> QED BY <1>1, <2>1, UsesFinite DEF Given, Tallies
<1>5. ASSUME NEW id \in Ids, id \notin Live(g)
      PROVE  Uses(g, Live(g), id) = 0 /\ e[id] = 0 /\ Holders(g, id) = 0
  <2>1. CASE id \in G
    BY <1>2, <1>3, <1>5, <2>1 DEF Holders
  <2>2. CASE id \notin G
    <3>1. id \notin Live(h) /\ Holders(h, id) = 0 /\ Holders(g, id) = 0
      BY <1>1, <1>5, <2>2 DEF Holders
    <3>2. Uses(h, Live(h), id) + Given(e, v)[id] <= 0
      BY <3>1 DEF Fits
    <3>3. Uses(h, Live(h), id) = Uses(h, G, id) + Uses(h, Live(g), id)
      BY <1>3
    <3> QED BY <1>2, <1>4, <3>1, <3>2, <3>3
  <2> QED BY <2>1, <2>2
<1>6. ASSUME NEW id \in Live(g)
      PROVE  /\ id \in Ids
             /\ Holders(g, id) = Holders(h, id) - Uses(h, G, id) - IF CellOf(v) = id THEN 1 ELSE 0
             /\ Holders(h, id) \in Nat
  <2>1. id \in Ids /\ id \in Live(h) /\ h.cells[id].refcount \in Nat
    BY <1>1, CellType
  <2>2. g.cells[id].refcount = h.cells[id].refcount - Dropped(h, v, G, id)
    BY DEF IsFreed
  <2>3. Uses(h, G, id) \in Nat
    BY <1>4, <2>1
  <2>4. Holders(g, id) = g.cells[id].refcount + 1 /\ Holders(h, id) = h.cells[id].refcount + 1
    BY <2>1 DEF Holders
  <2> QED BY <2>1, <2>2, <2>3, <2>4 DEF Dropped
<1>7. ASSUME NEW id \in Ids PROVE Uses(g, Live(g), id) + e[id] <= Holders(g, id)
  <2>1. CASE id \in Live(g)
    <3>1. Uses(h, Live(h), id) + Given(e, v)[id] <= Holders(h, id)
      BY DEF Fits
    <3>2. Uses(h, Live(h), id) = Uses(h, G, id) + Uses(h, Live(g), id) /\ Uses(g, Live(g), id) = Uses(h, Live(g), id)
      BY <1>2, <1>3
    <3> QED BY <1>4, <1>6, <2>1, <3>1, <3>2
  <2>2. CASE id \notin Live(g)
    BY <1>5, <2>2
  <2> QED BY <2>1, <2>2
<1>8. ASSUME Exact(h, Given(e, v)), NEW id \in Ids PROVE Uses(g, Live(g), id) + e[id] = Holders(g, id)
  <2>1. CASE id \in Live(g)
    <3>1. Uses(h, Live(h), id) + Given(e, v)[id] = Holders(h, id)
      BY <1>8 DEF Exact
    <3>2. Uses(h, Live(h), id) = Uses(h, G, id) + Uses(h, Live(g), id) /\ Uses(g, Live(g), id) = Uses(h, Live(g), id)
      BY <1>2, <1>3
    <3> QED BY <1>4, <1>6, <2>1, <3>1, <3>2
  <2>2. CASE id \notin Live(g)
    BY <1>5, <2>2
  <2> QED BY <2>1, <2>2
<1> QED BY <1>7, <1>8 DEF Fits, Exact

LEMMA FreedGuards ==
    ASSUME NEW h, NEW g, NEW v, NEW G, IsFreed(h, g, v, G), NEW e \in Tallies, Fits(h, Given(e, v)),
           NEW f \in Tallies, NEW A, Guards(h, A, Given(f, v))
    PROVE  Guards(g, A, f)
<1>1. HeapInv(h) /\ Live(g) \in SUBSET Live(h) /\ Live(h) \in SUBSET Ids /\ G \in SUBSET Ids
      /\ Live(h) \ G = Live(g) /\ G \in SUBSET Live(h)
      /\ \A S \in SUBSET Live(h) : Closed(h, v, S) => G \subseteq S
  BY GoingLeast, LiveIds DEF IsFreed
<1>2. A \subseteq Live(h) /\ A \subseteq Ids
  BY GuardsLive DEF Guards
<1> DEFINE out == Live(h) \ A
<1>3. out \in SUBSET Live(h) /\ out \in SUBSET Ids
  BY <1>1
<1>4. ASSUME NEW id \in A
      PROVE  /\ KindOf(h, id) \in Kinds
             /\ Uses(h, out, id) + f[id] + (IF CellOf(v) = id THEN 1 ELSE 0) <= h.cells[id].refcount
             /\ id \in Ids /\ f[id] \in Nat /\ Uses(h, out, id) \in Nat /\ h.cells[id].refcount \in Nat
  <2>1. id \in Ids
    BY <1>2
  <2>2. Uses(h, out, id) \in Nat /\ h.cells[id].refcount \in Nat
    BY <1>1, <1>3, <2>1, UsesFinite, CellType
  <2>3. Uses(h, out, id) + (f[id] + IF CellOf(v) = id THEN 1 ELSE 0) <= h.cells[id].refcount
        /\ KindOf(h, id) \in Kinds
    BY <2>1 DEF Guards, Given
  <2>4. f[id] \in Nat
    BY <2>1 DEF Tallies
  <2> HIDE DEF out
  <2> QED BY <2>1, <2>2, <2>3, <2>4
<1>5. Closed(h, v, out)
  <2>1. ASSUME NEW id \in Live(h), id \notin out PROVE ~(Dropped(h, v, out, id) > h.cells[id].refcount)
    <3>1. id \in A
      BY <2>1
    <3> HIDE DEF out
    <3>2. /\ Uses(h, out, id) + f[id] + (IF CellOf(v) = id THEN 1 ELSE 0) <= h.cells[id].refcount
          /\ f[id] \in Nat /\ Uses(h, out, id) \in Nat /\ h.cells[id].refcount \in Nat
      BY <1>4, <3>1
    <3> QED BY <3>2 DEF Dropped
  <2> HIDE DEF out
  <2> QED BY <2>1 DEF Closed
<1>6. G \in SUBSET out
  BY <1>1, <1>3, <1>5
<1>7. A \subseteq Live(g) /\ Live(g) \ A = out \ G /\ Live(g) \ A \in SUBSET Live(g)
  BY <1>1, <1>2, <1>6
<1> HIDE DEF out
<1>8. ASSUME NEW id \in A
      PROVE  KindOf(g, id) \in Kinds /\ Uses(g, Live(g) \ A, id) + f[id] <= g.cells[id].refcount
  <2>1. id \in Ids /\ id \in Live(g)
    BY <1>2, <1>7
  <2>2. Uses(g, Live(g) \ A, id) = Uses(h, out \ G, id)
    <3>1. \A x \in Live(g) \ A : g.cells[x].items = h.cells[x].items
      BY <1>7 DEF IsFreed
    <3>2. Uses(g, Live(g) \ A, id) = Uses(h, Live(g) \ A, id)
      BY <3>1, UsesSame
    <3> QED BY <1>7, <3>2
  <2>3. Uses(h, out, id) = Uses(h, G, id) + Uses(h, out \ G, id)
    BY <1>1, <1>3, <1>6, UsesPart
  <2>4. Uses(h, G, id) \in Nat /\ Uses(h, out \ G, id) \in Nat
    <3>1. out \ G \in SUBSET Ids
      BY <1>3
    <3> QED BY <1>1, <3>1, UsesFinite
  <2>5. KindOf(g, id) = KindOf(h, id)
        /\ g.cells[id].refcount = h.cells[id].refcount - Dropped(h, v, G, id)
    BY <2>1 DEF IsFreed
  <2>6. /\ Uses(h, out, id) + f[id] + (IF CellOf(v) = id THEN 1 ELSE 0) <= h.cells[id].refcount
        /\ f[id] \in Nat /\ h.cells[id].refcount \in Nat /\ KindOf(h, id) \in Kinds
    BY <1>4
  <2> QED BY <2>2, <2>3, <2>4, <2>5, <2>6 DEF Dropped
<1> QED BY <1>2, <1>8 DEF Guards

(* One reference more to a container that is there; the count does not wrap around. *)
LEMMA CopyCell ==
    ASSUME NEW h, HeapInv(h), NEW v, v.t \in Counted, v.n \in Ids, KindOf(h, v.n) \in Kinds,
           h.cells[v.n].refcount + 1 < RefWidth, NEW g, g = CopyValue(h, v)
    PROVE  /\ HeapInv(g) /\ g.bad = h.bad /\ Live(g) = Live(h) /\ v.n \in Live(h)
           /\ \A id \in Ids : /\ KindOf(g, id) = KindOf(h, id) /\ g.cells[id].items = h.cells[id].items
                              /\ g.cells[id].refcount
                                   = h.cells[id].refcount + (IF CellOf(v) = id THEN 1 ELSE 0)
<1> DEFINE c == v.n
           n == (h.cells[c].refcount + 1) % RefWidth
           new == [h.cells[c] EXCEPT !.refcount = n]
<1>1. h \in HeapSet /\ h.cells[c] \in CellSet /\ h.cells[c].refcount \in Nat
  BY CellType DEF HeapInv
<1>2. n = h.cells[c].refcount + 1 /\ n \in Nat
  BY <1>1, Bounds
<1>3. c \in Live(h) /\ c \in Ids /\ c # 0
  BY LiveIds, KindNames DEF Ids
<1>4. g = [h EXCEPT !.cells[c] = new]
  BY <1>3 DEF CopyValue
<1>5. CellOf(v) = c
  BY DEF CellOf
<1>6. KindOf(h, c) \in Kinds
  OBVIOUS
<1> HIDE DEF n, c
<1>7. new \in CellSet /\ new.kind = h.cells[c].kind /\ new.items = h.cells[c].items /\ new.refcount = n
  BY <1>1, <1>2 DEF CellSet
<1> HIDE DEF new
<1>8. g \in HeapSet /\ g.bad = h.bad /\ g.cells[c] = new /\ \A id \in Ids \ {c} : g.cells[id] = h.cells[id]
  <2>1. g \in HeapSet /\ g.bad = h.bad
    BY <1>1, <1>3, <1>4, <1>7 DEF HeapSet
  <2>2. g.cells[c] = new /\ \A id \in Ids \ {c} : g.cells[id] = h.cells[id]
    BY <1>1, <1>3, <1>4, <1>7 DEF HeapSet
  <2> QED BY <2>1, <2>2
<1>9. ASSUME NEW id \in Ids
      PROVE  /\ KindOf(g, id) = KindOf(h, id) /\ g.cells[id].items = h.cells[id].items
             /\ g.cells[id].refcount = h.cells[id].refcount + (IF c = id THEN 1 ELSE 0)
  <2>1. CASE id = c
    BY <1>2, <1>7, <1>8, <2>1 DEF KindOf
  <2>2. CASE id # c
    <3>1. h.cells[id].refcount \in Nat
      BY CellType
    <3> QED BY <1>8, <2>2, <3>1 DEF KindOf
  <2> QED BY <2>1, <2>2
<1>10. Live(g) = Live(h)
  BY <1>9, LiveIds
<1>11. HeapInv(g)
  <2>1. ASSUME NEW id \in Ids, KindOf(g, id) = "free" PROVE g.cells[id] = NoCell
    <3>1. KindOf(h, id) = "free" /\ id # c
      BY <1>6, <1>9, <2>1, KindNames
    <3> QED BY <1>8, <3>1 DEF HeapInv
  <2>2. ASSUME NEW id \in Ids, KindOf(g, id) = "string"
        PROVE  g.cells[id].items = <<>> /\ g.cells[id].refcount = 0
    <3>1. KindOf(h, id) = "string" /\ id # c
      BY <1>6, <1>9, <2>2, KindNames
    <3> QED BY <1>8, <3>1 DEF HeapInv
  <2>3. ASSUME NEW id \in Ids PROVE Len(g.cells[id].items) <= MaxItems
    BY <1>9 DEF HeapInv
  <2>4. ASSUME NEW id \in Ids, NEW i \in DOMAIN g.cells[id].items, g.cells[id].items[i].key # 0
        PROVE  KindOf(g, g.cells[id].items[i].key) = "string"
    <3>1. g.cells[id].items = h.cells[id].items
      BY <1>9
    <3>2. i \in DOMAIN h.cells[id].items /\ h.cells[id].items[i].key # 0
      BY <2>4, <3>1
    <3>3. h.cells[id].items[i].key \in 0..MaxCells
      BY <3>2, ItemType
    <3>4. h.cells[id].items[i].key \in Ids
      BY <3>2, <3>3, CellIds
    <3>5. KindOf(h, h.cells[id].items[i].key) = "string"
      BY <3>2 DEF HeapInv
    <3> QED BY <1>9, <3>1, <3>4, <3>5
  <2> QED BY <1>8, <2>1, <2>2, <2>3, <2>4 DEF HeapInv
<1>12. ASSUME NEW id \in Ids
       PROVE  /\ KindOf(g, id) = KindOf(h, id) /\ g.cells[id].items = h.cells[id].items
              /\ g.cells[id].refcount = h.cells[id].refcount + (IF CellOf(v) = id THEN 1 ELSE 0)
  BY <1>5, <1>9
<1>13. v.n \in Live(h)
  BY <1>3 DEF c
<1> QED BY <1>8, <1>10, <1>11, <1>12, <1>13

LEMMA CopyCounts ==
    ASSUME NEW h, HeapInv(h), NEW v, v.t \in Counted, v.n \in Ids, KindOf(h, v.n) \in Kinds,
           h.cells[v.n].refcount + 1 < RefWidth, NEW g, g = CopyValue(h, v),
           NEW e \in Tallies, Fits(h, e), NEW f \in Tallies, NEW A, Guards(h, A, f)
    PROVE  /\ Fits(g, Given(e, v)) /\ (Exact(h, e) => Exact(g, Given(e, v)))
           /\ Guards(g, A, Given(f, v))
<1>1. HeapInv(g) /\ Live(g) = Live(h) /\ v.n \in Live(h) /\ Live(h) \in SUBSET Ids
  BY CopyCell, LiveIds
<1>2. \A id \in Ids : /\ KindOf(g, id) = KindOf(h, id) /\ g.cells[id].items = h.cells[id].items
                      /\ g.cells[id].refcount
                           = h.cells[id].refcount + (IF CellOf(v) = id THEN 1 ELSE 0)
  BY CopyCell
<1>3. ASSUME NEW S \in SUBSET Ids, NEW id PROVE Uses(g, S, id) = Uses(h, S, id) /\ Uses(h, S, id) \in Nat
  <2>1. \A x \in S : g.cells[x].items = h.cells[x].items
    BY <1>2
  <2> QED BY <2>1, UsesSame, UsesFinite
<1>4. CellOf(v) = v.n
  BY DEF CellOf
<1>5. ASSUME NEW id \in Ids
      PROVE  /\ Uses(g, Live(g), id) = Uses(h, Live(h), id) /\ Uses(h, Live(h), id) \in Nat
             /\ Given(e, v)[id] = e[id] + (IF CellOf(v) = id THEN 1 ELSE 0) /\ e[id] \in Nat
             /\ Holders(g, id) = Holders(h, id) + (IF CellOf(v) = id THEN 1 ELSE 0)
             /\ Holders(h, id) \in Nat
  <2>1. Uses(g, Live(g), id) = Uses(h, Live(h), id) /\ Uses(h, Live(h), id) \in Nat
    BY <1>1, <1>3
  <2>2. Holders(g, id) = Holders(h, id) + (IF CellOf(v) = id THEN 1 ELSE 0)
    <3>1. h.cells[id].refcount \in Nat
      BY CellType
    <3> QED BY <1>1, <1>2, <1>4, <3>1 DEF Holders
  <2>3. Holders(h, id) \in Nat
    BY HoldersType
  <2> QED BY <2>1, <2>2, <2>3 DEF Given, Tallies
<1>6. ASSUME NEW id \in Ids PROVE Uses(g, Live(g), id) + Given(e, v)[id] <= Holders(g, id)
  <2>1. Uses(h, Live(h), id) + e[id] <= Holders(h, id)
    BY DEF Fits
  <2> QED BY <1>5, <2>1
<1>7. ASSUME Exact(h, e), NEW id \in Ids PROVE Uses(g, Live(g), id) + Given(e, v)[id] = Holders(g, id)
  <2>1. Uses(h, Live(h), id) + e[id] = Holders(h, id)
    BY <1>7 DEF Exact
  <2> QED BY <1>5, <2>1
<1>8. A \subseteq Ids /\ Live(h) \ A \in SUBSET Ids
  BY <1>1 DEF Guards
<1>9. ASSUME NEW id \in A
      PROVE  KindOf(g, id) \in Kinds /\ Uses(g, Live(g) \ A, id) + Given(f, v)[id] <= g.cells[id].refcount
  <2>1. id \in Ids /\ h.cells[id].refcount \in Nat /\ f[id] \in Nat
    BY <1>8, CellType DEF Tallies
  <2>2. Uses(g, Live(g) \ A, id) = Uses(h, Live(h) \ A, id) /\ Uses(h, Live(h) \ A, id) \in Nat
    BY <1>1, <1>3, <1>8
  <2>3. KindOf(h, id) \in Kinds /\ Uses(h, Live(h) \ A, id) + f[id] <= h.cells[id].refcount
    BY DEF Guards
  <2>4. Given(f, v)[id] = f[id] + (IF CellOf(v) = id THEN 1 ELSE 0)
    BY <2>1 DEF Given
  <2>5. KindOf(g, id) = KindOf(h, id)
        /\ g.cells[id].refcount = h.cells[id].refcount + (IF CellOf(v) = id THEN 1 ELSE 0)
    BY <1>2, <2>1
  <2> QED BY <2>1, <2>2, <2>3, <2>4, <2>5
<1> QED BY <1>6, <1>7, <1>8, <1>9 DEF Fits, Exact, Guards

(* Room for a cell. *)
LEMMA FreeCell ==
    ASSUME NEW h, NEW n,
           n \in Nat \ {0}, Cardinality(Live(h)) + n <= MaxCells
    PROVE  Ids \ Live(h) # {}
<1>1. IsFiniteSet(Ids) /\ Cardinality(Ids) = MaxCells
  BY Bounds, FS_Interval DEF Ids
<1>2. Live(h) \subseteq Ids /\ Cardinality(Live(h)) \in Nat
  BY <1>1, LiveIds, FS_Subset, FS_CardinalityType
<1>3. ASSUME Live(h) = Ids PROVE FALSE
  BY <1>1, <1>2, <1>3, Bounds
<1> QED BY <1>2, <1>3

LEMMA NewRoom ==
    ASSUME NEW h, NEW g, NEW new, NEW kind,
           IsNew(h, g, new, kind)
    PROVE  Cardinality(Live(g)) = Cardinality(Live(h)) + 1 /\ Cardinality(Live(h)) \in Nat
<1>1. IsFiniteSet(Live(h))
  <2>1. IsFiniteSet(Ids)
    BY Bounds, FS_Interval DEF Ids
  <2> QED BY <2>1, LiveIds, FS_Subset
<1>2. new \notin Live(h) /\ Live(g) = Live(h) \cup {new}
  BY NewUses DEF IsNew
<1>3. Cardinality(Live(h) \cup {new}) = Cardinality(Live(h)) + 1 /\ Cardinality(Live(h)) \in Nat
  BY <1>1, <1>2, FS_AddElement, FS_CardinalityType
<1> QED BY <1>2, <1>3
-----------------------------------------------------------------------------
(* What every call keeps. *)

\* e are the references besides those of the items, f those of the client, A the containers
\* under the levels; x: nothing was lost.
Memory(h, e, f, A, x) ==
    /\ HeapInv(h) /\ h.bad = FALSE /\ e \in Tallies /\ f \in Tallies
    /\ Fits(h, e) /\ (x => Exact(h, e))
    /\ Guards(h, A, f)
    /\ \A id \in Ids : h.cells[id].refcount <= f[id]

\* A cell that is there before and after a call is of the same kind.
Kept(h, g) == \A id \in Live(h) \cap Live(g) : KindOf(g, id) = KindOf(h, id)

LEMMA GivenSwap ==
    ASSUME NEW e, NEW v, NEW w,
           e \in Tallies
    PROVE  Given(Given(e, v), w) = Given(Given(e, w), v)
<1>1. ASSUME NEW id \in Ids PROVE Given(Given(e, v), w)[id] = Given(Given(e, w), v)[id]
  BY DEF Given, Tallies
<1> QED BY <1>1, GivenType DEF Given

LEMMA GivenNothing ==
    ASSUME NEW e, NEW v,
           e \in Tallies, CellOf(v) = 0
    PROVE Given(e, v) = e
<1>1. ASSUME NEW id \in Ids PROVE Given(e, v)[id] = e[id]
  <2>1. id # 0
    BY Bounds DEF Ids
  <2> QED BY <2>1 DEF Given, Tallies
<1> QED BY <1>1, GivenType DEF Tallies

NotMore(f, e) == \A id \in Ids : f[id] <= e[id]

\* References may be lost.
LEMMA MemoryLose ==
    ASSUME NEW h, NEW e, NEW f, NEW A, NEW x, NEW v,
           e \in Tallies, Memory(h, Given(e, v), f, A, x)
    PROVE  Memory(h, e, f, A, FALSE)
<1>1. ASSUME NEW id \in Ids PROVE Uses(h, Live(h), id) + e[id] <= Holders(h, id)
  <2>1. HeapInv(h) /\ Live(h) \in SUBSET Ids
    BY LiveIds DEF Memory
  <2>2. Uses(h, Live(h), id) \in Nat /\ Holders(h, id) \in Nat /\ e[id] \in Nat
    BY <2>1, UsesFinite, HoldersType DEF Tallies
  <2>3. Uses(h, Live(h), id) + (e[id] + IF CellOf(v) = id THEN 1 ELSE 0) <= Holders(h, id)
    BY DEF Memory, Fits, Given
  <2> QED BY <2>2, <2>3
<1> QED BY <1>1 DEF Memory, Fits

LEMMA MemoryWeak ==
    ASSUME NEW h, NEW e, NEW f, NEW A, NEW x, NEW y,
           Memory(h, e, f, A, x), y => x
    PROVE  Memory(h, e, f, A, y)
BY DEF Memory

\* The client gives a string away.
LEMMA MemoryGive ==
    ASSUME NEW h, NEW e, NEW f, NEW A, NEW x, NEW v,
           f \in Tallies, Memory(h, e, Given(f, v), A, x), v.n \in Ids, KindOf(h, v.n) = "string",
           CellOf(v) = v.n
    PROVE  Memory(h, e, f, A, x)
<1>1. HeapInv(h) /\ A \subseteq Ids /\ Live(h) \ A \in SUBSET Ids
  BY LiveIds DEF Memory, Guards
<1>2. ASSUME NEW id \in Ids
      PROVE  /\ Given(f, v)[id] = f[id] + (IF CellOf(v) = id THEN 1 ELSE 0) /\ f[id] \in Nat
             /\ h.cells[id].refcount \in Nat
             /\ Uses(h, Live(h) \ A, id) \in Nat
  BY <1>1, CellType, UsesFinite DEF Given, Tallies
<1>3. ASSUME NEW id \in Ids PROVE h.cells[id].refcount <= f[id]
  <2>1. CASE id = v.n
    <3>1. h.cells[id].refcount = 0
      BY <1>1, <2>1 DEF HeapInv
    <3> QED BY <1>2, <3>1
  <2>2. CASE id # v.n
    <3>1. h.cells[id].refcount <= Given(f, v)[id]
      BY DEF Memory
    <3> QED BY <1>2, <2>2, <3>1
  <2> QED BY <2>1, <2>2
<1>4. ASSUME NEW id \in A PROVE Uses(h, Live(h) \ A, id) + f[id] <= h.cells[id].refcount /\ KindOf(h, id) \in Kinds
  <2>1. Uses(h, Live(h) \ A, id) + Given(f, v)[id] <= h.cells[id].refcount /\ KindOf(h, id) \in Kinds
    BY DEF Memory, Guards
  <2>2. id \in Ids
    BY <1>1
  <2>3. /\ Given(f, v)[id] = f[id] + (IF CellOf(v) = id THEN 1 ELSE 0) /\ f[id] \in Nat
        /\ h.cells[id].refcount \in Nat
        /\ Uses(h, Live(h) \ A, id) \in Nat
    BY <1>2, <2>2
  <2> QED BY <2>1, <2>3
<1> QED BY <1>1, <1>3, <1>4 DEF Memory, Guards

\* The client gets a reference when no level is left.
LEMMA MemoryTake ==
    ASSUME NEW h, NEW e, NEW f, NEW A, NEW x, NEW v,
           Memory(h, e, f, A, x)
    PROVE  Memory(h, e, f, {}, x) /\ Memory(h, e, Given(f, v), {}, x)
<1>1. HeapInv(h) /\ f \in Tallies /\ \A id \in Ids : h.cells[id].refcount <= f[id]
  BY DEF Memory
<1>2. ASSUME NEW id \in Ids PROVE h.cells[id].refcount <= Given(f, v)[id]
  <2>1. h.cells[id].refcount \in Nat /\ f[id] \in Nat
    BY <1>1, CellType DEF Tallies
  <2> QED BY <1>1, <2>1 DEF Given
<1>3. Given(f, v) \in Tallies
  BY <1>1, GivenType
<1>4. Guards(h, {}, f) /\ Guards(h, {}, Given(f, v))
  BY DEF Guards
<1> QED BY <1>1, <1>2, <1>3, <1>4 DEF Memory

LEMMA MemoryNew ==
    ASSUME NEW h, NEW e, NEW f, NEW A, NEW x, NEW g, NEW new, NEW kind, NEW v,
           Memory(h, e, f, A, x), IsNew(h, g, new, kind), CellOf(v) = new
    PROVE  /\ Memory(g, e, f, A, FALSE)
           /\ Memory(g, Given(e, v), f, A, x)
           /\ Memory(g, Given(e, v), Given(f, v), A, x)
           /\ kind \in Kinds /\ NotMore(f, e) => Memory(g, Given(e, v), f, A \cup {new}, x)
           /\ Kept(h, g) /\ new \in Ids /\ KindOf(g, new) = kind /\ new \notin Live(h)
           /\ \A id \in Live(h) : g.cells[id] = h.cells[id]
<1>1. HeapInv(h) /\ h.bad = FALSE /\ e \in Tallies /\ f \in Tallies
      /\ Fits(h, e) /\ (x => Exact(h, e)) /\ Guards(h, A, f)
      /\ \A id \in Ids : h.cells[id].refcount <= f[id]
  BY DEF Memory
<1>2. IsNew(h, g, new, kind)
  OBVIOUS
<1>3. Fits(g, e) /\ Fits(g, Given(e, v)) /\ (Exact(h, e) => Exact(g, Given(e, v)))
  BY <1>1, <1>2, NewCounts
<1>4. ASSUME NotMore(f, e) PROVE f[new] = 0
  <2>1. new \in Ids \ Live(h)
    BY <1>2 DEF IsNew
  <2>2. e[new] = 0
    BY <1>1, <2>1, FreeUnused
  <2>3. \A id \in Ids : f[id] \in Nat /\ e[id] \in Nat /\ f[id] <= e[id]
    BY <1>1, <1>4 DEF NotMore, Tallies
  <2>4. \A id \in Ids : e[id] = 0 => f[id] = 0
    BY <2>3
  <2> QED BY <2>1, <2>2, <2>4
<1>5. /\ HeapInv(g) /\ g.bad = FALSE /\ new \in Ids /\ new \notin Live(h) /\ g.cells[new].refcount = 0
      /\ KindOf(g, new) = kind
      /\ \A id \in Ids \ {new} : g.cells[id] = h.cells[id]
  BY <1>1, <1>2 DEF IsNew
<1>6. \A id \in Ids : g.cells[id].refcount <= f[id] /\ g.cells[id].refcount <= Given(f, v)[id]
  <2> TAKE id \in Ids
  <2> DEFINE r == g.cells[id].refcount
  <2>1. r \in Nat /\ f[id] \in Nat
    BY <1>1, <1>5, CellType DEF Tallies
  <2>2. r <= f[id]
    <3>1. CASE id = new
      <4>1. r = 0
        BY <1>5, <3>1
      <4> HIDE DEF r
      <4> QED BY <2>1, <4>1
    <3>2. CASE id # new
      <4>1. g.cells[id] = h.cells[id]
        BY <1>5, <3>2
      <4>2. h.cells[id].refcount <= f[id]
        BY <1>1
      <4> QED BY <4>1, <4>2
    <3> QED BY <3>1, <3>2
  <2>3. Given(f, v)[id] = f[id] + (IF CellOf(v) = id THEN 1 ELSE 0)
    BY DEF Given
  <2> HIDE DEF r
  <2>5. r <= Given(f, v)[id]
    <3>1. CASE CellOf(v) = id
      BY <2>1, <2>2, <2>3, <3>1
    <3>2. CASE CellOf(v) # id
      BY <2>1, <2>2, <2>3, <3>2
    <3> QED BY <3>1, <3>2
  <2> QED BY <2>2, <2>5 DEF r
<1>7. Given(e, v) \in Tallies /\ Given(f, v) \in Tallies
  BY <1>1, GivenType
<1>8. Guards(g, A, f) /\ Guards(g, A, Given(f, v)) /\ (kind \in Kinds /\ f[new] = 0 => Guards(g, A \cup {new}, f))
  BY <1>1, <1>2, NewGuards
<1>9. \A id \in Live(h) : g.cells[id] = h.cells[id]
  BY <1>5, LiveIds
<1>10. Kept(h, g)
  BY <1>9 DEF Kept, KindOf
<1> QED BY <1>1, <1>2, <1>3, <1>4, <1>5, <1>6, <1>7, <1>8, <1>9, <1>10 DEF Memory

\* The items of a container under a level change.
LEMMA MemoryChanged ==
    ASSUME NEW h, NEW d, NEW e \in Tallies, NEW f, NEW A, NEW x, Memory(h, d, f, A, x),
           NEW c \in A, NEW g, IsChanged(h, g, c), Fits(g, e)
    PROVE  Memory(g, e, f, A, FALSE) /\ Kept(h, g)
<1>1. Guards(h, A, f) /\ \A id \in Ids : h.cells[id].refcount <= f[id]
  BY DEF Memory
<1>2. Guards(g, A, f)
  BY <1>1, ChangedGuards
<1>3. \A id \in Ids : KindOf(g, id) = KindOf(h, id) /\ g.cells[id].refcount = h.cells[id].refcount
  BY ChangedUses
<1>4. Kept(h, g)
  BY <1>3, LiveIds DEF Kept
<1>5. \A id \in Ids : g.cells[id].refcount <= f[id]
  BY <1>1, <1>3
<1> QED BY <1>2, <1>4, <1>5 DEF Memory, IsChanged

LEMMA MemoryKept ==
    ASSUME NEW h, NEW d, NEW e \in Tallies, NEW f, NEW A, NEW x, Memory(h, d, f, A, x),
           NEW c \in A, NEW g, IsChanged(h, g, c), Fits(g, e), x => Exact(g, e)
    PROVE  Memory(g, e, f, A, x) /\ Kept(h, g)
<1>1. Memory(g, e, f, A, FALSE) /\ Kept(h, g)
  BY MemoryChanged
<1> QED BY <1>1 DEF Memory

LEMMA GuardedCell ==
    ASSUME NEW h, NEW e, NEW f, NEW A, NEW x, NEW c,
           Memory(h, e, f, A, x), c \in A
    PROVE  c \in Ids /\ c \in Live(h) /\ KindOf(h, c) \in Kinds /\ KindOf(h, c) # "string"
<1>1. Guards(h, A, f)
  BY DEF Memory
<1> QED BY <1>1, GuardsLive, KindNames DEF Guards

LEMMA MemoryPut ==
    ASSUME NEW h, NEW e, NEW f, NEW A, NEW x, NEW key, NEW v, NEW c, NEW g,
           e \in Tallies, key \in 0..MaxCells, v \in ValueSet,
           Memory(h, Given(Given(e, Key(key)), v), f, A, x), c \in A, Len(h.cells[c].items) < MaxItems,
           key # 0 => KindOf(h, key) = "string", g = WithItems(h, c, Append(h.cells[c].items, Item(key, v)))
    PROVE  Memory(g, e, f, A, x) /\ Kept(h, g)
<1>1. c \in Ids /\ c \in Live(h) /\ KindOf(h, c) # "string"
  BY GuardedCell
<1>2. HeapInv(h) /\ Fits(h, Given(Given(e, Key(key)), v)) /\ (x => Exact(h, Given(Given(e, Key(key)), v)))
  BY DEF Memory
<1>3. IsChanged(h, g, c) /\ Appends(h, g, c, key, v)
  BY <1>1, <1>2, PutHeap
<1>4. Fits(g, e) /\ (x => Exact(g, e))
  BY <1>1, <1>2, <1>3, PutCounts
<1> QED BY <1>3, <1>4, MemoryKept

\* jso_array_append.
LEMMA MemoryAppend ==
    ASSUME NEW h, NEW e, NEW f, NEW A, NEW x, NEW v, NEW c, NEW ok,
           e \in Tallies, v \in ValueSet, Memory(h, Given(e, v), f, A, x), c \in A,
           Len(h.cells[c].items) < MaxItems, ok \in BOOLEAN
    PROVE  /\ ArrayAppend(h, c, v, ok).rc = ok
           /\ ok => Memory(ArrayAppend(h, c, v, ok).h, e, f, A, x)
           /\ ~ok => ArrayAppend(h, c, v, ok).h = h
           /\ Kept(h, ArrayAppend(h, c, v, ok).h)
<1> DEFINE g == WithItems(h, c, Append(h.cells[c].items, Item(0, v)))
<1>1. c \in Live(h)
  BY GuardedCell
<1>2. ArrayAppend(h, c, v, ok) = [h |-> IF ok THEN g ELSE h, rc |-> ok]
  BY <1>1 DEF ArrayAppend, WithItems
<1>3. Given(Given(e, Key(0)), v) = Given(e, v)
  <2>1. CellOf(Key(0)) = 0
    BY KindNames DEF CellOf, Key, Value
  <2>2. Given(e, Key(0)) = e
    BY <2>1, GivenNothing
  <2> QED BY <2>2
<1> HIDE DEF g
<1>4. Memory(g, e, f, A, x) /\ Kept(h, g)
  <2>1. 0 \in 0..MaxCells
    BY Bounds
  <2> QED BY <1>3, <2>1, MemoryPut DEF g
<1>5. Kept(h, h)
  BY DEF Kept
<1> QED BY <1>2, <1>4, <1>5

LEMMA FreeNothing ==
    ASSUME NEW h, HeapInv(h), NEW v, CellOf(v) = 0
    PROVE  FreeValue(h, v) = h
<1> DEFINE CellAt(id) == IF id \in Live(h) \ {}
                         THEN [h.cells[id] EXCEPT !.refcount = @ - Dropped(h, v, {}, id)]
                         ELSE NoCell
<1>1. \A id \in Ids : Dropped(h, v, {}, id) = 0
  <2> TAKE id \in Ids
  <2>1. Uses(h, {}, id) = 0
    BY UsesNone
  <2>2. id # 0
    BY Bounds DEF Ids
  <2> QED BY <2>1, <2>2 DEF Dropped
<1>2. Closed(h, v, {})
  <2>1. ASSUME NEW id \in Live(h) PROVE ~(Dropped(h, v, {}, id) > h.cells[id].refcount)
    <3>1. id \in Ids /\ h.cells[id].refcount \in Nat
      BY LiveIds, CellType
    <3> QED BY <1>1, <3>1
  <2> QED BY <2>1 DEF Closed
<1>3. Going(h, v) = {}
  BY <1>2 DEF Going
<1>4. ASSUME NEW id \in Ids PROVE CellAt(id) = h.cells[id]
  <2>1. h.cells[id] \in CellSet /\ h.cells[id].refcount \in Nat
    BY CellType
  <2>2. CASE id \in Live(h)
    <3>1. CellAt(id) = [h.cells[id] EXCEPT !.refcount = @ - 0]
      BY <1>1, <2>2
    <3>2. h.cells[id].refcount - 0 = h.cells[id].refcount
      BY <2>1
    <3>3. [h.cells[id] EXCEPT !.refcount = h.cells[id].refcount] = h.cells[id]
      BY <2>1 DEF CellSet
    <3> QED BY <3>1, <3>2, <3>3
  <2>3. CASE id \notin Live(h)
    BY <2>3, LiveIds DEF HeapInv
  <2> QED BY <2>2, <2>3
<1>5. \A id \in Ids : ~(Dropped(h, v, {}, id) > Holders(h, id))
  <2> TAKE id \in Ids
  <2>1. Holders(h, id) \in Nat
    BY HoldersType
  <2> QED BY <1>1, <2>1
<1>6. FreeValue(h, v) = [cells |-> [id \in Ids |-> CellAt(id)],
                         bad |-> h.bad \/ \E id \in Ids : Dropped(h, v, {}, id) > Holders(h, id)]
  BY <1>3 DEF FreeValue, Ids
<1> HIDE DEF CellAt
<1>7. h \in HeapSet
  BY DEF HeapInv
<1>8. h.bad \in BOOLEAN
  BY <1>7 DEF HeapSet
<1>9. (h.bad \/ \E id \in Ids : Dropped(h, v, {}, id) > Holders(h, id)) = h.bad
  BY <1>5, <1>8
<1>10. [id \in Ids |-> CellAt(id)] = h.cells
  BY <1>4, <1>7 DEF HeapSet
<1>11. FreeValue(h, v) = [cells |-> h.cells, bad |-> h.bad]
  BY <1>6, <1>9, <1>10
<1> QED BY <1>7, <1>11 DEF HeapSet

LEMMA SwapCells ==
    ASSUME NEW D, NEW R, NEW m \in [D -> R], NEW a, NEW c, a # c, NEW x, NEW y
    PROVE  [[m EXCEPT ![a] = x] EXCEPT ![c] = y] = [[m EXCEPT ![c] = y] EXCEPT ![a] = x]
<1> DEFINE p == [[m EXCEPT ![a] = x] EXCEPT ![c] = y]
           q == [[m EXCEPT ![c] = y] EXCEPT ![a] = x]
<1>1. p = [i \in D |-> p[i]] /\ q = [i \in D |-> q[i]]
  OBVIOUS
<1>2. ASSUME NEW i \in D PROVE p[i] = q[i]
  OBVIOUS
<1> HIDE DEF p, q
<1>3. p = q
  BY <1>1, <1>2
<1> QED BY <1>3 DEF p, q

LEMMA SwapGone ==
    ASSUME NEW h \in HeapSet, NEW c \in Ids, NEW old \in Ids, c # old, NEW items \in Seq(ItemSet)
    PROVE  /\ WithItems(Gone(h, old), c, items) = Gone(WithItems(h, c, items), old)
           /\ Gone(h, old).cells[c] = h.cells[c]
<1> DEFINE new == [h.cells[c] EXCEPT !.items = items]
<1>1. Gone(h, old).cells[c] = h.cells[c]
  BY DEF HeapSet, Gone
<1>2. WithItems(Gone(h, old), c, items) = [Gone(h, old) EXCEPT !.cells[c] = new]
  BY <1>1 DEF WithItems
<1>3. WithItems(h, c, items) = [h EXCEPT !.cells[c] = new]
  BY DEF WithItems
<1> HIDE DEF new
<1>4. [[h EXCEPT !.cells[old] = NoCell] EXCEPT !.cells[c] = new]
        = [[h EXCEPT !.cells[c] = new] EXCEPT !.cells[old] = NoCell]
  <2> DEFINE m == h.cells
             m1 == [m EXCEPT ![old] = NoCell]
             m2 == [m EXCEPT ![c] = new]
             h1 == [h EXCEPT !.cells = m1]
             h2 == [h EXCEPT !.cells = m2]
  <2>1. m \in [Ids -> CellSet] /\ h1.cells = m1 /\ h2.cells = m2
    BY DEF HeapSet
  <2>2. [m1 EXCEPT ![c] = new] = [m2 EXCEPT ![old] = NoCell]
    BY <2>1, SwapCells
  <2>3. [h1 EXCEPT !.cells[c] = new] = [h EXCEPT !.cells = [m1 EXCEPT ![c] = new]]
    <3> HIDE DEF m1
    <3> QED BY <2>1 DEF HeapSet
  <2>4. [h2 EXCEPT !.cells[old] = NoCell] = [h EXCEPT !.cells = [m2 EXCEPT ![old] = NoCell]]
    <3> HIDE DEF m2
    <3> QED BY <2>1 DEF HeapSet
  <2> QED BY <2>2, <2>3, <2>4
<1> QED BY <1>1, <1>2, <1>3, <1>4 DEF Gone

\* The items of c with another one at a place, whose key was old.
IsReplaced(h, c, at, key, v, old, items) ==
    /\ at \in DOMAIN h.cells[c].items /\ old = h.cells[c].items[at].key
    /\ items = [h.cells[c].items EXCEPT ![at] = Item(key, v)]

SameItems(h, g, c) == g.cells[c].items = h.cells[c].items

LEMMA ReplacedItem ==
    ASSUME NEW h, NEW e \in Tallies, NEW f, NEW A, NEW x, NEW key \in Ids, NEW v \in ValueSet,
           Memory(h, Given(Given(e, Key(key)), v), f, A, x), NEW c \in A, KindOf(h, key) = "string",
           NEW at, NEW old, NEW items, IsReplaced(h, c, at, key, v, old, items),
           NEW k, k = WithItems(h, c, items)
    PROVE  /\ IsChanged(h, k, c) /\ Fits(k, Given(e, Key(old)))
           /\ old \in 0..MaxCells /\ (old # 0 => KindOf(h, old) = "string")
           /\ items \in Seq(ItemSet) /\ c \in Ids /\ KindOf(h, c) # "string" /\ h \in HeapSet
<1> USE DEF IsReplaced
<1>1. c \in Ids /\ c \in Live(h) /\ KindOf(h, c) # "string"
  BY GuardedCell
<1>2. HeapInv(h) /\ h \in HeapSet /\ Fits(h, Given(Given(e, Key(key)), v))
  BY DEF Memory, HeapInv
<1>3. key \in 0..MaxCells
  BY IdRange
<1>4. IsChanged(h, k, c) /\ Replaced(h, k, c, at, key, v)
  BY <1>1, <1>2, <1>3, ReplaceHeap
<1>5. Fits(k, Given(e, Key(old)))
  BY <1>1, <1>2, <1>3, <1>4, ReplaceCounts
<1>6. old \in 0..MaxCells /\ (old # 0 => KindOf(h, old) = "string")
  BY <1>1, <1>2, ItemType DEF HeapInv
<1>7. items \in Seq(ItemSet)
  <2>1. h.cells[c].items \in Seq(ItemSet)
    BY <1>1, <1>2, CellType
  <2>2. Item(key, v) \in ItemSet
    BY <1>3 DEF Item, ItemSet
  <2> QED BY <2>1, <2>2
<1> QED BY <1>1, <1>2, <1>4, <1>5, <1>6, <1>7

\* A member is replaced: the old key goes, and the old value is lost.
LEMMA MemoryReplace ==
    ASSUME NEW h, NEW e, NEW f, NEW A, NEW x, NEW key, NEW v, NEW c, NEW at, NEW old, NEW items, NEW h1, NEW g,
           e \in Tallies, key \in Ids, v \in ValueSet, Memory(h, Given(Given(e, Key(key)), v), f, A, x),
           c \in A, KindOf(h, key) = "string", IsReplaced(h, c, at, key, v, old, items),
           h1 = FreeValue(h, Key(old)), g = WithItems(h1, c, items)
    PROVE  Memory(g, e, f, A, FALSE) /\ Kept(h, g) /\ SameItems(h, h1, c)
<1>1. PICK k : k = WithItems(h, c, items)
  OBVIOUS
<1>2. /\ IsChanged(h, k, c) /\ Fits(k, Given(e, Key(old)))
      /\ old \in 0..MaxCells /\ (old # 0 => KindOf(h, old) = "string")
      /\ items \in Seq(ItemSet) /\ c \in Ids /\ KindOf(h, c) # "string" /\ h \in HeapSet
  BY <1>1, ReplacedItem
<1>3. HeapInv(h) /\ Guards(h, A, f) /\ h.bad = FALSE /\ f \in Tallies
      /\ \A id \in Ids : h.cells[id].refcount <= f[id]
  BY DEF Memory
<1>4. \A id \in Ids : KindOf(k, id) = KindOf(h, id) /\ k.cells[id].refcount = h.cells[id].refcount
  BY <1>2, ChangedUses
<1>5. CASE old = 0
  <2>1. CellOf(Key(old)) = 0
    BY <1>5, KindNames DEF CellOf, Key, Value
  <2>2. h1 = h
    BY <1>3, <2>1, FreeNothing
  <2>3. g = k
    BY <1>1, <2>2
  <2>4. Given(e, Key(old)) = e
    BY <2>1, GivenNothing
  <2>5. Fits(g, e) /\ IsChanged(h, g, c)
    BY <1>2, <2>3, <2>4
  <2>6. Memory(g, e, f, A, FALSE) /\ Kept(h, g)
    BY <2>5, MemoryChanged
  <2> QED BY <2>2, <2>6 DEF SameItems
<1>6. CASE old # 0
  <2>1. old \in Ids /\ KindOf(h, old) = "string"
    BY <1>2, <1>6, CellIds
  <2>2. c # old
    BY <1>2, <2>1
  <2>3. h1 = Gone(h, old)
    BY <1>3, <2>1, LoneFree
  <2>4. WithItems(Gone(h, old), c, items) = Gone(k, old) /\ Gone(h, old).cells[c] = h.cells[c]
    BY <1>1, <1>2, <2>1, <2>2, SwapGone
  <2>5. g = Gone(k, old)
    BY <2>3, <2>4
  <2>6. HeapInv(k) /\ KindOf(k, old) = "string" /\ k.bad = h.bad
    BY <1>2, <1>4, <2>1 DEF IsChanged
  <2>7. IsNew(g, k, old, "string") /\ Fits(g, e)
    BY <1>2, <2>1, <2>5, <2>6, GoneCounts
  <2>8. Guards(k, A, f)
    BY <1>2, <1>3, ChangedGuards
  <2>9. Guards(g, A, f)
    BY <2>7, <2>8, GoneGuards
  <2>10. HeapInv(g) /\ g.bad = k.bad /\ g.cells[old] = NoCell /\ \A id \in Ids \ {old} : g.cells[id] = k.cells[id]
    BY <2>7 DEF IsNew
  <2>11. Kept(h, g)
    <3>1. ASSUME NEW id \in Live(h) \cap Live(g) PROVE KindOf(g, id) = KindOf(h, id)
      <4>1. id \in Ids /\ id # old
        BY <2>7, LiveIds DEF IsNew
      <4> QED BY <1>4, <2>10, <4>1 DEF KindOf
    <3> QED BY <3>1 DEF Kept
  <2>12. ASSUME NEW id \in Ids PROVE g.cells[id].refcount <= f[id]
    <3>1. k.cells[id].refcount <= f[id]
      BY <1>3, <1>4
    <3>2. CASE id = old
      <4>1. g.cells[id].refcount = 0
        BY <2>10, <3>2, NoCellEmpty
      <4>2. f[id] \in Nat
        BY <1>3 DEF Tallies
      <4>3. 0 <= f[id]
        BY <4>2, NatsAbove, Zenon
      <4> QED BY <4>1, <4>3, Zenon
    <3>3. CASE id # old
      BY <2>10, <3>1, <3>3
    <3> QED BY <3>2, <3>3
  <2>13. SameItems(h, h1, c)
    BY <2>3, <2>4 DEF SameItems
  <2> QED BY <1>3, <2>6, <2>7, <2>9, <2>10, <2>11, <2>12, <2>13 DEF Memory
<1> QED BY <1>5, <1>6

LEMMA PlaceType ==
    ASSUME NEW h, HeapInv(h), NEW c \in Ids, NEW text
    PROVE  Place(h, c, text) = 0 \/ Place(h, c, text) \in DOMAIN h.cells[c].items
BY DEF Place

\* jso_object_add.
LEMMA MemoryAdd ==
    ASSUME NEW h, NEW e, NEW f, NEW A, NEW x, NEW key, NEW v, NEW c, NEW ok,
           e \in Tallies, key \in Ids, v \in ValueSet, Memory(h, Given(Given(e, Key(key)), v), f, A, x),
           c \in A, Len(h.cells[c].items) < MaxItems, KindOf(h, key) = "string", ok \in BOOLEAN
    PROVE  /\ ObjectAdd(h, c, key, v, ok).rc = ok
           /\ ok => Memory(ObjectAdd(h, c, key, v, ok).h, e, f, A, x /\ Place(h, c, h.cells[key].text) = 0)
           /\ ~ok => ObjectAdd(h, c, key, v, ok).h = h
           /\ Kept(h, ObjectAdd(h, c, key, v, ok).h)
<1> DEFINE at == Place(h, c, h.cells[key].text)
           put == WithItems(h, c, Append(h.cells[c].items, Item(key, v)))
           h1 == FreeValue(h, Key(h.cells[c].items[at].key))
           other == WithItems(h1, c, [h1.cells[c].items EXCEPT ![at] = Item(key, v)])
           items == [h.cells[c].items EXCEPT ![at] = Item(key, v)]
<1>1. c \in Ids /\ c \in Live(h) /\ HeapInv(h)
  BY GuardedCell DEF Memory
<1>2. at = 0 \/ at \in DOMAIN h.cells[c].items
  BY <1>1, PlaceType
<1>3. key \in 0..MaxCells
  BY Bounds DEF Ids
<1>4. Memory(put, e, f, A, x) /\ Kept(h, put)
  BY <1>3, MemoryPut
<1>5. ASSUME at # 0 PROVE Memory(other, e, f, A, FALSE) /\ Kept(h, other)
  <2>1. at \in DOMAIN h.cells[c].items
    BY <1>2, <1>5
  <2>2. PICK old, new, s : /\ old = h.cells[c].items[at].key /\ s = items
                           /\ new = WithItems(h1, c, items)
    OBVIOUS
  <2>3. h1 = FreeValue(h, Key(old))
    BY <2>2
  <2>4. IsReplaced(h, c, at, key, v, old, s) /\ new = WithItems(h1, c, s)
    BY <2>1, <2>2 DEF IsReplaced
  <2> HIDE DEF h1, at
  <2>5. Memory(new, e, f, A, FALSE) /\ Kept(h, new) /\ SameItems(h, h1, c)
    BY <2>3, <2>4, MemoryReplace
  <2>6. new = other
    BY <2>2, <2>5 DEF SameItems
  <2> QED BY <2>5, <2>6
<1>6. ObjectAdd(h, c, key, v, ok) = [h |-> IF ~ok THEN h ELSE IF at = 0 THEN put ELSE other, rc |-> ok]
  BY <1>1 DEF ObjectAdd, WithItems, Key
<1> HIDE DEF put, other
<1>7. Kept(h, h)
  BY DEF Kept
<1>8. CASE ~ok
  BY <1>6, <1>7, <1>8
<1>9. CASE ok /\ at = 0
  <2>1. Memory(put, e, f, A, x /\ at = 0)
    BY <1>4, MemoryWeak
  <2> QED BY <1>4, <1>6, <1>9, <2>1
<1>10. CASE ok /\ at # 0
  <2>1. Memory(other, e, f, A, x /\ at = 0)
    BY <1>5, <1>10, MemoryWeak
  <2> QED BY <1>5, <1>6, <1>10, <2>1
<1> QED BY <1>8, <1>9, <1>10

\* jso_value_free.
LEMMA MemoryFree ==
    ASSUME NEW h, NEW e, NEW f, NEW A, NEW x, NEW v, NEW g,
           e \in Tallies, f \in Tallies, Memory(h, Given(e, v), Given(f, v), A, x), g = FreeValue(h, v)
    PROVE  Memory(g, e, f, A, x) /\ Kept(h, g)
<1> DEFINE G == Going(h, v)
<1>1. HeapInv(h) /\ h.bad = FALSE /\ Fits(h, Given(e, v)) /\ (x => Exact(h, Given(e, v)))
      /\ Guards(h, A, Given(f, v))
      /\ \A id \in Ids : h.cells[id].refcount <= Given(f, v)[id]
  BY DEF Memory
<1>2. IsFreed(h, g, v, G)
  BY <1>1, FreeIsFreed
<1> HIDE DEF G
<1>3. /\ HeapInv(g)
      /\ \A id \in Live(g) : g.cells[id].refcount + (IF CellOf(v) = id THEN 1 ELSE 0) <= h.cells[id].refcount
  BY <1>1, <1>2, FreedHeap
<1>4. Fits(g, e) /\ (x => Exact(g, e))
  BY <1>1, <1>2, FreedCounts
<1>5. Guards(g, A, f)
  BY <1>1, <1>2, FreedGuards
<1>6. ASSUME NEW id \in Ids PROVE g.cells[id].refcount <= f[id]
  <2>1. f[id] \in Nat /\ g.cells[id].refcount \in Nat /\ h.cells[id].refcount \in Nat
    BY <1>1, <1>3, CellType DEF Tallies
  <2>2. CASE id \in Live(g)
    <3>1. g.cells[id].refcount + (IF CellOf(v) = id THEN 1 ELSE 0) <= h.cells[id].refcount
      BY <1>3, <2>2
    <3>2. h.cells[id].refcount <= f[id] + (IF CellOf(v) = id THEN 1 ELSE 0)
      BY <1>1 DEF Given
    <3> QED BY <2>1, <3>1, <3>2
  <2>3. CASE id \notin Live(g)
    <3>1. g.cells[id].refcount = 0
      BY <1>2, <2>3, NoCellEmpty DEF IsFreed
    <3> QED BY <2>1, <3>1
  <2> QED BY <2>2, <2>3
<1>7. Kept(h, g)
  BY <1>2 DEF Kept, IsFreed
<1>8. g.bad = FALSE
  BY <1>1, <1>2 DEF IsFreed
<1> QED BY <1>3, <1>4, <1>5, <1>6, <1>7, <1>8 DEF Memory

\* jso_value_copy.
LEMMA MemoryCopy ==
    ASSUME NEW h, NEW e, NEW f, NEW A, NEW x, NEW v, NEW g,
           Memory(h, e, f, A, x), v.t \in Counted, v.n \in A, f[v.n] + 1 < RefWidth, g = CopyValue(h, v)
    PROVE  Memory(g, Given(e, v), Given(f, v), A, x) /\ Kept(h, g)
<1>1. HeapInv(h) /\ h.bad = FALSE /\ e \in Tallies /\ f \in Tallies
      /\ Fits(h, e) /\ (x => Exact(h, e)) /\ Guards(h, A, f)
      /\ \A id \in Ids : h.cells[id].refcount <= f[id]
  BY DEF Memory
<1>2. v.n \in Ids /\ KindOf(h, v.n) \in Kinds
  BY <1>1 DEF Guards
<1>3. h.cells[v.n].refcount + 1 < RefWidth
  <2>1. h.cells[v.n].refcount \in Nat /\ h.cells[v.n].refcount <= f[v.n] /\ f[v.n] \in Nat
    BY <1>1, <1>2, CellType DEF Tallies
  <2> QED BY <2>1, Bounds
<1>4. /\ HeapInv(g) /\ g.bad = h.bad
      /\ \A id \in Ids : /\ KindOf(g, id) = KindOf(h, id)
                         /\ g.cells[id].refcount
                              = h.cells[id].refcount + (IF CellOf(v) = id THEN 1 ELSE 0)
  BY <1>1, <1>2, <1>3, CopyCell
<1>5. /\ Fits(g, Given(e, v)) /\ (x => Exact(g, Given(e, v)))
      /\ Guards(g, A, Given(f, v))
  BY <1>1, <1>2, <1>3, CopyCounts
<1>6. ASSUME NEW id \in Ids PROVE g.cells[id].refcount <= Given(f, v)[id]
  <2>1. h.cells[id].refcount \in Nat /\ f[id] \in Nat /\ h.cells[id].refcount <= f[id]
    BY <1>1, CellType DEF Tallies
  <2>2. g.cells[id].refcount = h.cells[id].refcount + (IF CellOf(v) = id THEN 1 ELSE 0)
    BY <1>4
  <2> QED BY <2>1, <2>2 DEF Given
<1>7. Kept(h, g)
  BY <1>4, LiveIds DEF Kept
<1>8. Given(e, v) \in Tallies /\ Given(f, v) \in Tallies
  BY <1>1, GivenType
<1> QED BY <1>1, <1>4, <1>5, <1>6, <1>7, <1>8 DEF Memory
-----------------------------------------------------------------------------
(* The references of the client and of the root. *)

HeldSet == [t : Counted, n : Ids]
At(s, id) == {i \in DOMAIN s : CellOf(s[i]) = id}
HeldRefs(s) == [id \in Ids |-> Cardinality(At(s, id))]

LEMMA AtFinite ==
    ASSUME NEW s, s \in Seq(HeldSet), NEW id
    PROVE  /\ IsFiniteSet(At(s, id)) /\ Cardinality(At(s, id)) \in Nat
           /\ Cardinality(At(s, id)) <= Len(s)
<1>1. At(s, id) \subseteq 1..Len(s) /\ Len(s) \in Nat
  BY DEF At
<1>2. IsFiniteSet(1..Len(s)) /\ Cardinality(1..Len(s)) = Len(s)
  <2>1. ASSUME NEW n \in Nat PROVE IsFiniteSet(1..n) /\ Cardinality(1..n) = n
    <3>1. IsFiniteSet(1..n) /\ Cardinality(1..n) = IF 1 > n THEN 0 ELSE n - 1 + 1
      BY FS_Interval
    <3> QED BY <3>1
  <2> QED BY <1>1, <2>1
<1>3. IsFiniteSet(At(s, id)) /\ Cardinality(At(s, id)) <= Cardinality(1..Len(s))
  BY <1>1, <1>2, FS_Subset
<1> QED BY <1>2, <1>3, FS_CardinalityType

LEMMA HeldType == ASSUME NEW s, s \in Seq(HeldSet)
                  PROVE  HeldRefs(s) \in Tallies /\ \A id \in Ids : HeldRefs(s)[id] <= Len(s)
BY AtFinite DEF HeldRefs, Tallies

LEMMA HeldAppend ==
    ASSUME NEW s, NEW v, s \in Seq(HeldSet), v \in HeldSet
    PROVE  /\ Append(s, v) \in Seq(HeldSet) /\ Len(Append(s, v)) = Len(s) + 1
           /\ HeldRefs(Append(s, v)) = Given(HeldRefs(s), v)
<1> DEFINE t == Append(s, v)
           n == Len(s)
<1>1. /\ t \in Seq(HeldSet) /\ Len(t) = n + 1 /\ n \in Nat
      /\ DOMAIN t = (DOMAIN s) \cup {n + 1} /\ n + 1 \notin DOMAIN s
      /\ t[n + 1] = v /\ \A i \in DOMAIN s : t[i] = s[i]
  OBVIOUS
<1> HIDE DEF t, n
<1>2. ASSUME NEW id \in Ids PROVE HeldRefs(t)[id] = Given(HeldRefs(s), v)[id]
  <2>1. HeldRefs(t)[id] = Cardinality(At(t, id)) /\ HeldRefs(s)[id] = Cardinality(At(s, id))
    BY DEF HeldRefs
  <2>2. Given(HeldRefs(s), v)[id] = Cardinality(At(s, id)) + (IF CellOf(v) = id THEN 1 ELSE 0)
    BY <2>1 DEF Given
  <2>3. IsFiniteSet(At(s, id)) /\ Cardinality(At(s, id)) \in Nat
    BY AtFinite
  <2>4. n + 1 \notin At(s, id)
    BY <1>1 DEF At
  <2>5. CASE CellOf(v) = id
    <3>1. At(t, id) = At(s, id) \cup {n + 1}
      BY <1>1, <2>5 DEF At
    <3>2. Cardinality(At(s, id) \cup {n + 1}) = Cardinality(At(s, id)) + 1
      BY <2>3, <2>4, FS_AddElement
    <3> QED BY <2>1, <2>2, <2>5, <3>1, <3>2
  <2>6. CASE CellOf(v) # id
    <3>1. At(t, id) = At(s, id)
      BY <1>1, <2>6 DEF At
    <3> QED BY <2>1, <2>2, <2>3, <2>6, <3>1
  <2> QED BY <2>5, <2>6
<1>3. HeldRefs(t) = Given(HeldRefs(s), v)
  BY <1>2 DEF HeldRefs, Given
<1> QED BY <1>1, <1>3 DEF t, n

\* A sequence without one of its places.
LEMMA WithoutShape ==
    ASSUME NEW s, NEW i, s \in Seq(HeldSet), i \in DOMAIN s
    PROVE  /\ Without(s, i) \in Seq(HeldSet) /\ Len(Without(s, i)) = Len(s) - 1
           /\ \A j \in 1..(Len(s) - 1) : Without(s, i)[j] = IF j < i THEN s[j] ELSE s[j + 1]
<1> DEFINE a == SubSeq(s, 1, i - 1)
           b == SubSeq(s, i + 1, Len(s))
<1>1. i \in 1..Len(s) /\ Len(s) \in Nat
  OBVIOUS
<1>2. a \in Seq(HeldSet) /\ Len(a) = i - 1 /\ \A j \in 1..(i - 1) : a[j] = s[j]
  BY <1>1
<1>3. b \in Seq(HeldSet) /\ Len(b) = Len(s) - i /\ \A j \in 1..(Len(s) - i) : b[j] = s[j + i]
  BY <1>1
<1>4. Without(s, i) = a \o b
  BY DEF Without
<1> HIDE DEF a, b
<1>5. a \o b \in Seq(HeldSet) /\ Len(a \o b) = Len(s) - 1
  BY <1>1, <1>2, <1>3
<1>6. ASSUME NEW j \in 1..(Len(s) - 1) PROVE (a \o b)[j] = IF j < i THEN s[j] ELSE s[j + 1]
  <2>1. CASE j < i
    BY <1>1, <1>2, <1>3, <2>1
  <2>2. CASE ~(j < i)
    <3>1. (a \o b)[j] = b[j - Len(a)]
      BY <1>1, <1>2, <1>3, <2>2
    <3>2. j - Len(a) \in 1..(Len(s) - i) /\ (j - Len(a)) + i = j + 1
      BY <1>1, <1>2, <2>2
    <3>3. b[j - Len(a)] = s[(j - Len(a)) + i]
      BY <1>3, <3>2
    <3> QED BY <2>2, <3>1, <3>2, <3>3
  <2> QED BY <2>1, <2>2
<1> QED BY <1>4, <1>5, <1>6

LEMMA HeldWithout ==
    ASSUME NEW s, NEW i, s \in Seq(HeldSet), i \in DOMAIN s
    PROVE  /\ HeldRefs(s) = Given(HeldRefs(Without(s, i)), s[i])
           /\ HeldRefs(Without(s, i)) \in Tallies
<1> DEFINE t == Without(s, i)
           n == Len(s)
<1>1. /\ t \in Seq(HeldSet) /\ Len(t) = n - 1 /\ n \in Nat /\ i \in 1..n /\ DOMAIN t = 1..(n - 1)
      /\ \A j \in 1..(n - 1) : t[j] = IF j < i THEN s[j] ELSE s[j + 1]
  BY WithoutShape
<1>2. DOMAIN s = 1..n
  OBVIOUS
<1> HIDE DEF t, n
<1>3. ASSUME NEW id \in Ids PROVE HeldRefs(s)[id] = Given(HeldRefs(t), s[i])[id]
  <2> DEFINE F == [j \in At(t, id) |-> IF j < i THEN j ELSE j + 1]
             T == At(s, id) \ {i}
  <2>1. At(t, id) \subseteq 1..(n - 1)
    BY <1>1 DEF At
  <2>2. ASSUME NEW j \in At(t, id) PROVE F[j] \in T
    <3>1. j \in 1..(n - 1) /\ CellOf(t[j]) = id
      BY <2>1 DEF At
    <3>2. F[j] \in 1..n /\ F[j] # i /\ t[j] = s[F[j]]
      BY <1>1, <3>1
    <3> QED BY <1>2, <3>1, <3>2 DEF At
  <2>3. F \in [At(t, id) -> T]
    BY <2>2
  <2>4. \A a, b \in At(t, id) : F[a] = F[b] => a = b
    BY <1>1, <2>1
  <2>5. ASSUME NEW k \in T PROVE \E j \in At(t, id) : F[j] = k
    <3>1. k \in 1..n /\ k # i /\ CellOf(s[k]) = id
      BY <1>2 DEF At
    <3> DEFINE j == IF k < i THEN k ELSE k - 1
    <3>2. j \in 1..(n - 1) /\ k = (IF j < i THEN j ELSE j + 1)
      BY <1>1, <3>1
    <3>3. t[j] = s[k]
      BY <1>1, <3>2
    <3>4. j \in At(t, id)
      BY <1>1, <3>1, <3>2, <3>3 DEF At
    <3> HIDE DEF j
    <3> QED BY <3>2, <3>4
  <2> HIDE DEF F, T
  <2>6. F \in Bijection(At(t, id), T)
    BY <2>3, <2>4, <2>5 DEF Bijection, Injection, Surjection, IsInjective
  <2>7. IsFiniteSet(At(t, id)) /\ IsFiniteSet(At(s, id)) /\ Cardinality(At(s, id)) \in Nat
        /\ Cardinality(At(t, id)) \in Nat
    BY <1>1, AtFinite
  <2>8. Cardinality(T) = Cardinality(At(t, id))
    BY <2>6, <2>7, FS_Bijection DEF ExistsBijection
  <2>9. Cardinality(T) = IF i \in At(s, id) THEN Cardinality(At(s, id)) - 1 ELSE Cardinality(At(s, id))
    BY <2>7, FS_RemoveElement DEF T
  <2>10. i \in At(s, id) <=> CellOf(s[i]) = id
    BY DEF At
  <2>11. HeldRefs(t)[id] = Cardinality(At(t, id)) /\ HeldRefs(s)[id] = Cardinality(At(s, id))
    BY DEF HeldRefs
  <2>12. Given(HeldRefs(t), s[i])[id] = Cardinality(At(t, id)) + (IF CellOf(s[i]) = id THEN 1 ELSE 0)
    BY <2>11 DEF Given
  <2>13. CASE CellOf(s[i]) = id
    <3>1. Cardinality(At(t, id)) = Cardinality(At(s, id)) - 1
      BY <2>8, <2>9, <2>10, <2>13
    <3> QED BY <2>7, <2>11, <2>12, <2>13, <3>1
  <2>14. CASE CellOf(s[i]) # id
    <3>1. Cardinality(At(t, id)) = Cardinality(At(s, id))
      BY <2>8, <2>9, <2>10, <2>14
    <3> QED BY <2>7, <2>11, <2>12, <2>14, <3>1
  <2> QED BY <2>13, <2>14
<1>4. HeldRefs(s) = Given(HeldRefs(t), s[i])
  BY <1>3 DEF HeldRefs, Given
<1>5. HeldRefs(t) \in Tallies
  BY <1>1, HeldType
<1> QED BY <1>4, <1>5 DEF t

\* The references besides those of the items: of the client and of the first level.
Refs(s, ns) == IF ns = <<>> THEN HeldRefs(s) ELSE Given(HeldRefs(s), ns[1])

LEMMA RefsCount ==
    ASSUME NEW id, id \in Ids, HeapInv(heap), held \in Seq(HeldSet)
    PROVE  References(id) = Uses(heap, Live(heap), id) + Refs(held, nodes)[id]
<1>1. HeldUses(id) = At(held, id) /\ Cardinality(At(held, id)) \in Nat
  BY AtFinite DEF HeldUses, At
<1>2. Uses(heap, Live(heap), id) \in Nat
  BY LiveIds, UsesFinite
<1>3. CASE nodes = <<>>
  <2>1. Refs(held, nodes)[id] = Cardinality(At(held, id)) /\ RootUses(id) = 0
    BY <1>3 DEF Refs, HeldRefs, RootUses
  <2> QED BY <1>1, <1>2, <2>1 DEF References
<1>4. CASE nodes # <<>>
  <2>1. HeldRefs(held)[id] = Cardinality(At(held, id))
    BY DEF HeldRefs
  <2>2. Refs(held, nodes)[id] = Cardinality(At(held, id)) + RootUses(id) /\ RootUses(id) \in Nat
    BY <1>4, <2>1 DEF Refs, Given, RootUses
  <2> QED BY <1>1, <1>2, <2>2 DEF References
<1> QED BY <1>3, <1>4
-----------------------------------------------------------------------------
(* The invariant. *)

NodeSet == {Zeroed} \cup [t : Kinds, n : Ids]
Covers(A, ns) == \A k \in DOMAIN ns : ns[k].t \in Kinds => ns[k].n \in A
StringsHeld(h, s) == \A i \in DOMAIN s : s[i].t = "string" => KindOf(h, s[i].n) = "string"

\* What the levels and the client have; the containers of the levels are in A.
Places(h, ns, cur, s, A) ==
    /\ ns \in Seq(NodeSet) /\ cur \in 0..Len(ns) /\ Covers(A, ns)
    /\ s \in Seq(HeldSet) /\ Len(s) <= MaxHeld /\ StringsHeld(h, s)

\* The memory counts all the references of the client and of the root, and the containers of
\* the levels are safe whatever the client frees: no count is more than what the client has.
State(h, ns, cur, s, lo) ==
    \E A : Places(h, ns, cur, s, A) /\ Memory(h, Refs(s, ns), HeldRefs(s), A, ~lo)

IInv == State(heap, nodes, current, held, lossy)

LEMMA StateOf ==
    ASSUME NEW h, NEW ns, NEW cur, NEW s, NEW lo, NEW A, NEW x,
           Places(h, ns, cur, s, A), Memory(h, Refs(s, ns), HeldRefs(s), A, x), ~lo => x
    PROVE  State(h, ns, cur, s, lo)
<1>1. Memory(h, Refs(s, ns), HeldRefs(s), A, ~lo)
  BY DEF Memory
<1> QED BY <1>1 DEF State

LEMMA StateLossy ==
    ASSUME NEW h, NEW ns, NEW cur, NEW s, NEW lo, NEW A,
           Places(h, ns, cur, s, A), Memory(h, Refs(s, ns), HeldRefs(s), A, FALSE), lo
    PROVE  State(h, ns, cur, s, lo)
<1>1. Memory(h, Refs(s, ns), HeldRefs(s), A, ~lo)
  BY DEF Memory
<1> QED BY <1>1 DEF State

LEMMA StateHas ==
    ASSUME NEW h, NEW ns, NEW cur, NEW s, NEW lo, State(h, ns, cur, s, lo)
    PROVE  \E A, x : /\ Places(h, ns, cur, s, A) /\ Memory(h, Refs(s, ns), HeldRefs(s), A, x)
                     /\ ~lo => x
<1>1. PICK A : Places(h, ns, cur, s, A) /\ Memory(h, Refs(s, ns), HeldRefs(s), A, ~lo)
  BY DEF State
<1> DEFINE x == ~lo
<1>2. Memory(h, Refs(s, ns), HeldRefs(s), A, x) /\ (~lo => x)
  BY <1>1
<1> HIDE DEF x
<1> QED BY <1>1, <1>2

\* A loss counted or not: losses only ever set lossy.
LEMMA StateMore ==
    ASSUME NEW h, NEW ns, NEW cur, NEW s, NEW lo, NEW more, State(h, ns, cur, s, lo), lo => more
    PROVE  State(h, ns, cur, s, more)
<1>1. PICK A, x : /\ Places(h, ns, cur, s, A) /\ Memory(h, Refs(s, ns), HeldRefs(s), A, x)
                  /\ ~lo => x
  BY StateHas
<1> QED BY <1>1, StateOf

LEMMA RefsType ==
    ASSUME NEW s, NEW ns, s \in Seq(HeldSet)
    PROVE  Refs(s, ns) \in Tallies /\ HeldRefs(s) \in Tallies /\ NotMore(HeldRefs(s), Refs(s, ns))
<1>1. HeldRefs(s) \in Tallies
  BY HeldType
<1>2. Refs(s, ns) \in Tallies
  BY <1>1, GivenType DEF Refs
<1>3. ASSUME NEW id \in Ids PROVE HeldRefs(s)[id] <= Refs(s, ns)[id]
  <2>1. HeldRefs(s)[id] \in Nat
    BY <1>1 DEF Tallies
  <2>2. Refs(s, ns)[id] = HeldRefs(s)[id] \/ Refs(s, ns)[id] = HeldRefs(s)[id] + 1
    BY <2>1 DEF Refs, Given
  <2> QED BY <2>1, <2>2
<1> QED BY <1>1, <1>2, <1>3 DEF NotMore

LEMMA GivenMore ==
    ASSUME NEW e, NEW f, NEW v, e \in Tallies, f \in Tallies, NotMore(f, e)
    PROVE  NotMore(f, Given(e, v))
<1>1. ASSUME NEW id \in Ids PROVE f[id] <= Given(e, v)[id]
  <2>1. f[id] \in Nat /\ e[id] \in Nat /\ f[id] <= e[id]
    BY DEF Tallies, NotMore
  <2>2. Given(e, v)[id] = e[id] \/ Given(e, v)[id] = e[id] + 1
    BY <2>1 DEF Given
  <2> QED BY <2>1, <2>2
<1> QED BY <1>1 DEF NotMore

\* What the client owns is there.
LEMMA HeldLive ==
    ASSUME NEW h, NEW e, NEW f, NEW A, NEW x, NEW s, NEW i,
           Memory(h, e, f, A, x), s \in Seq(HeldSet), NotMore(HeldRefs(s), e), i \in DOMAIN s
    PROVE  s[i].n \in Live(h) /\ s[i].n \in Ids
<1> DEFINE id == s[i].n
<1>1. id \in Ids /\ CellOf(s[i]) = id
  <2>1. s[i] \in HeldSet
    OBVIOUS
  <2> QED BY <2>1 DEF HeldSet, CellOf
<1>2. i \in At(s, id)
  BY <1>1 DEF At
<1> HIDE DEF id
<1>3. IsFiniteSet(At(s, id)) /\ Cardinality(At(s, id)) \in Nat
  BY AtFinite
<1>4. Cardinality(At(s, id)) # 0
  BY <1>2, <1>3, FS_EmptySet
<1>5. HeldRefs(s)[id] = Cardinality(At(s, id))
  BY <1>1 DEF HeldRefs
<1>6. e[id] \in Nat /\ HeldRefs(s)[id] <= e[id]
  BY <1>1 DEF Memory, Tallies, NotMore
<1>7. Uses(h, Live(h), id) \in Nat /\ Uses(h, Live(h), id) + e[id] <= Holders(h, id)
  BY <1>1, LiveIds, UsesFinite DEF Memory, Fits
<1>8. Holders(h, id) # 0
  <2>1. Holders(h, id) \in Nat
    BY <1>1, HoldersType DEF Memory
  <2> QED BY <1>3, <1>4, <1>5, <1>6, <1>7, <2>1
<1>9. id \in Live(h)
  BY <1>8 DEF Holders
<1> QED BY <1>1, <1>9 DEF id

LEMMA PlacesKept ==
    ASSUME NEW h, NEW ns, NEW cur, NEW s, NEW A, NEW g, NEW e, NEW f, NEW B, NEW x,
           NEW d, NEW f2, NEW C, NEW y,
           Places(h, ns, cur, s, A), Memory(h, e, f, B, x), Memory(g, d, f2, C, y),
           NotMore(HeldRefs(s), e), NotMore(HeldRefs(s), d), Kept(h, g)
    PROVE  Places(g, ns, cur, s, A)
<1>1. s \in Seq(HeldSet)
  BY DEF Places
<1>2. ASSUME NEW i \in DOMAIN s, s[i].t = "string" PROVE KindOf(g, s[i].n) = "string"
  <2>1. s[i].n \in Live(h)
    BY <1>1, HeldLive
  <2>2. s[i].n \in Live(g)
    BY <1>1, HeldLive
  <2>3. KindOf(h, s[i].n) = "string"
    BY <1>2 DEF Places, StringsHeld
  <2> QED BY <2>1, <2>2, <2>3 DEF Kept
<1> QED BY <1>2 DEF Places, StringsHeld

LEMMA NodeType ==
    ASSUME NEW h, NEW ns, NEW cur, NEW s, NEW A, NEW k,
           Places(h, ns, cur, s, A), k \in DOMAIN ns
    PROVE  /\ ns[k] \in NodeSet /\ (ns[k].t \in Kinds <=> ns[k] # Zeroed)
           /\ (ns[k].t \in Kinds <=> ns[k].t \in Counted)
           /\ ns[k].t \in Kinds => ns[k].n \in A /\ ns[k] \in ValueSet /\ CellOf(ns[k]) = ns[k].n
           /\ ns[k].t \notin Kinds => CellOf(ns[k]) = 0
<1>1. ns[k] \in NodeSet
  BY DEF Places
<1>2. CASE ns[k] = Zeroed
  BY <1>1, <1>2 DEF Zeroed, Value, Kinds, Counted, CellOf
<1>3. CASE ns[k] \in [t : Kinds, n : Ids]
  <2>1. ns[k].t \in Kinds /\ ns[k].n \in A /\ ns[k].t \in Counted
    BY <1>3, KindNames DEF Places, Covers
  <2>2. ns[k] \in ValueSet
    BY <1>3, KindNames DEF ValueSet
  <2>3. ns[k] # Zeroed
    BY <2>1 DEF Zeroed, Value, Kinds
  <2> QED BY <1>1, <2>1, <2>2, <2>3 DEF CellOf
<1> QED BY <1>1, <1>2, <1>3 DEF NodeSet
-----------------------------------------------------------------------------
(* The operations, each with what is lost when it fails. *)

LEMMA RoomFree ==
    ASSUME NEW n, n \in Nat \ {0}, Room(n), Cardinality(Live(heap)) \in Nat
    PROVE  Ids \ Live(heap) # {} /\ Cardinality(Live(heap)) + n <= MaxCells
<1>1. Cardinality(Live(heap)) + n <= MaxCells
  <2>1. MaxLossy \in 0..MaxCells
    BY BuilderAssumption
  <2>2. CASE lossy
    BY <2>1, <2>2, Bounds DEF Room
  <2>3. CASE ~lossy
    BY <2>3, Bounds DEF Room
  <2> QED BY <2>2, <2>3
<1> QED BY <1>1, FreeCell

LEMMA LiveCount == ASSUME NEW h PROVE Cardinality(Live(h)) \in Nat
<1>1. IsFiniteSet(Ids)
  BY FS_Interval, Bounds DEF Ids
<1> QED BY <1>1, LiveIds, FS_Subset, FS_CardinalityType

Untouched(h, g) == \A id \in Live(h) : g.cells[id] = h.cells[id]

\* A new string, to which there is one reference: the caller's, or the client's.
IsMade(h, e, f, A, x, g, new) ==
    /\ Memory(g, Given(e, Key(new)), f, A, x) /\ Memory(g, Given(e, Key(new)), Given(f, Key(new)), A, x)
    /\ Kept(h, g) /\ new \in Ids /\ KindOf(g, new) = "string" /\ new \notin Live(h) /\ Untouched(h, g)
    /\ Key(new) \in ValueSet /\ CellOf(Key(new)) = new /\ Key(new) \in HeldSet
    /\ Cardinality(Live(g)) = Cardinality(Live(h)) + 1

LEMMA StringNew ==
    ASSUME NEW h, NEW e, NEW f, NEW A, NEW x, NEW g, NEW new,
           Memory(h, e, f, A, x), IsNew(h, g, new, "string")
    PROVE  IsMade(h, e, f, A, x, g, new)
<1> DEFINE v == Key(new)
<1>3. CellOf(v) = new
  BY DEF CellOf, Key, Value, Counted
<1> HIDE DEF v
<1>4. /\ Memory(g, Given(e, v), f, A, x) /\ Memory(g, Given(e, v), Given(f, v), A, x)
      /\ Kept(h, g) /\ new \in Ids /\ KindOf(g, new) = "string" /\ new \notin Live(h)
  BY <1>3, MemoryNew
<1>5. Untouched(h, g)
  BY <1>4, LiveIds DEF IsNew, Untouched
<1>6. v \in HeldSet /\ v \in ValueSet
  BY <1>4 DEF v, Key, Value, HeldSet, ValueSet, Counted
<1>7. Cardinality(Live(g)) = Cardinality(Live(h)) + 1
  BY NewRoom
<1> QED BY <1>3, <1>4, <1>5, <1>6, <1>7 DEF v, IsMade

LEMMA MakeString ==
    ASSUME NEW h, NEW e, NEW f, NEW A, NEW x, NEW text, NEW g, NEW new,
           Memory(h, e, f, A, x), Ids \ Live(h) # {}, text \in Texts,
           g = Allocate(h, "string", text, TRUE).h, new = Allocate(h, "string", text, TRUE).cell
    PROVE  IsMade(h, e, f, A, x, g, new)
<1>1. HeapInv(h) /\ "string" \in Counted /\ text \in Texts \cup {""}
  BY DEF Memory, Counted
<1>2. IsNew(h, g, new, "string")
  BY <1>1, AllocateNew
<1> QED BY <1>2, StringNew

LEMMA AllocateFails == ASSUME NEW h, NEW kind, NEW text
                       PROVE  Allocate(h, kind, text, FALSE).h = h /\ Allocate(h, kind, text, FALSE).cell = 0
BY DEF Allocate

\* The list with another value at k.
IsSet(ns, k, v, list) == list = [ns EXCEPT ![k] = v]
Elsewhere(ns, k, list) == \A i \in DOMAIN ns : i # k => list[i] = ns[i]

\* jso_builder_set_array and _object.
LEMMA SetMade ==
    ASSUME NEW h, NEW list, NEW k, NEW kind, HeapInv(h), Ids \ Live(h) # {}, kind \in Kinds
    PROVE  \E new : /\ IsNew(h, SetContainer(h, list, k, kind, TRUE).h, new, kind)
                    /\ IsSet(list, k, Value(kind, new), SetContainer(h, list, k, kind, TRUE).nodes)
                    /\ SetContainer(h, list, k, kind, TRUE).rc = TRUE
<1> DEFINE a == Allocate(h, kind, "", TRUE)
           g == a.h
           new == a.cell
<1>1. IsNew(h, g, new, kind)
  BY KindNames, AllocateNew
<1>2. new \in Ids
  BY <1>1 DEF IsNew
<1>3. new # 0
  BY <1>2, IdRange
<1> HIDE DEF a
<1>4. /\ SetContainer(h, list, k, kind, TRUE).h = g
      /\ SetContainer(h, list, k, kind, TRUE).nodes = [list EXCEPT ![k] = Value(kind, new)]
      /\ SetContainer(h, list, k, kind, TRUE).rc = TRUE
  BY <1>3 DEF SetContainer, a
<1>5. IsSet(list, k, Value(kind, new), SetContainer(h, list, k, kind, TRUE).nodes)
  BY <1>4 DEF IsSet
<1> HIDE DEF g, new
<1> QED BY <1>1, <1>4, <1>5

Fails(ok) == ok = FALSE

LEMMA SetFails ==
    ASSUME NEW h, NEW list, NEW k, NEW kind, NEW ok, Fails(ok)
    PROVE  SetContainer(h, list, k, kind, ok).h = h /\ SetContainer(h, list, k, kind, ok).nodes = list
BY Zenon DEF SetContainer, Allocate, Fails

LEMMA SetRefused ==
    ASSUME NEW h, NEW list, NEW k, NEW kind, NEW ok, Fails(ok)
    PROVE  ~SetContainer(h, list, k, kind, ok).rc
BY Zenon DEF SetContainer, Allocate, Fails

\* The new container is what the level holds.
LEMMA SetPlaces ==
    ASSUME NEW h, NEW ns, NEW cur, NEW s, NEW A, NEW k, NEW kind, NEW new, NEW list,
           Places(h, ns, cur, s, A), k \in DOMAIN ns, kind \in Kinds, new \in Ids,
           IsSet(ns, k, Value(kind, new), list)
    PROVE  /\ Places(h, list, cur, s, A \cup {new}) /\ Len(list) = Len(ns)
           /\ list[k] = Value(kind, new) /\ Elsewhere(ns, k, list)
           /\ Value(kind, new) \in ValueSet /\ CellOf(Value(kind, new)) = new
<1>1. Value(kind, new) \in NodeSet /\ Value(kind, new) \in ValueSet /\ CellOf(Value(kind, new)) = new
  BY KindNames DEF NodeSet, Value, ValueSet, CellOf
<1>2. ns \in Seq(NodeSet) /\ Covers(A, ns)
  BY DEF Places
<1>3. list \in Seq(NodeSet) /\ Len(list) = Len(ns) /\ DOMAIN list = DOMAIN ns
  BY <1>1, <1>2 DEF IsSet
<1>4. list[k] = Value(kind, new) /\ \A i \in DOMAIN ns : i # k => list[i] = ns[i]
  BY <1>2 DEF IsSet
<1>5. ASSUME NEW i \in DOMAIN list, list[i].t \in Kinds PROVE list[i].n \in A \cup {new}
  <2>1. CASE i = k
    BY <1>4, <2>1 DEF Value
  <2>2. CASE i # k
    BY <1>2, <1>3, <1>4, <1>5, <2>2 DEF Covers
  <2> QED BY <2>1, <2>2
<1>6. Covers(A \cup {new}, list)
  BY <1>5 DEF Covers
<1> QED BY <1>1, <1>3, <1>4, <1>6 DEF Places, Elsewhere

\* A reference was given to an array, or lost because it could not be appended.
LEMMA AfterAppend ==
    ASSUME NEW h, NEW ns, NEW cur, NEW s, NEW lo, NEW A, NEW x, NEW v, NEW c, NEW ok, NEW g,
           Places(h, ns, cur, s, A), Memory(h, Given(Refs(s, ns), v), HeldRefs(s), A, x),
           v \in ValueSet, c \in A, Len(h.cells[c].items) < MaxItems, ok \in BOOLEAN,
           g = ArrayAppend(h, c, v, ok).h, ~lo => x /\ ok
    PROVE  State(g, ns, cur, s, lo)
<1>1. s \in Seq(HeldSet)
  BY DEF Places
<1>2. Refs(s, ns) \in Tallies /\ HeldRefs(s) \in Tallies /\ NotMore(HeldRefs(s), Refs(s, ns))
  BY <1>1, RefsType
<1>3. NotMore(HeldRefs(s), Given(Refs(s, ns), v))
  BY <1>2, GivenMore
<1>4. /\ ok => Memory(g, Refs(s, ns), HeldRefs(s), A, x)
      /\ ~ok => g = h
      /\ Kept(h, g)
  BY <1>2, MemoryAppend
<1>5. CASE ok
  <2>1. Places(g, ns, cur, s, A)
    BY <1>2, <1>3, <1>4, <1>5, PlacesKept
  <2> QED BY <1>4, <1>5, <2>1, StateOf
<1>6. CASE ~ok
  <2>1. Memory(h, Refs(s, ns), HeldRefs(s), A, FALSE)
    BY <1>2, MemoryLose
  <2> QED BY <1>4, <1>6, <2>1, StateLossy
<1> QED BY <1>5, <1>6

\* A key and a value were given to an object, or lost because they could not be added.
LEMMA AfterAdd ==
    ASSUME NEW h, NEW ns, NEW cur, NEW s, NEW lo, NEW A, NEW x, NEW key, NEW v, NEW c, NEW ok, NEW g,
           Places(h, ns, cur, s, A),
           Memory(h, Given(Given(Refs(s, ns), Key(key)), v), HeldRefs(s), A, x),
           key \in Ids, KindOf(h, key) = "string", v \in ValueSet, c \in A,
           Len(h.cells[c].items) < MaxItems, ok \in BOOLEAN,
           g = ObjectAdd(h, c, key, v, ok).h, ~lo => x /\ ok /\ Place(h, c, h.cells[key].text) = 0
    PROVE  State(g, ns, cur, s, lo)
<1> DEFINE e == Given(Refs(s, ns), Key(key))
           y == x /\ Place(h, c, h.cells[key].text) = 0
<1>1. s \in Seq(HeldSet)
  BY DEF Places
<1>2. Refs(s, ns) \in Tallies /\ HeldRefs(s) \in Tallies /\ NotMore(HeldRefs(s), Refs(s, ns))
  BY <1>1, RefsType
<1>3. e \in Tallies /\ NotMore(HeldRefs(s), e)
  BY <1>2, GivenMore, GivenType
<1>4. NotMore(HeldRefs(s), Given(e, v))
  BY <1>2, <1>3, GivenMore
<1>5. /\ ok => Memory(g, Refs(s, ns), HeldRefs(s), A, y)
      /\ ~ok => g = h
      /\ Kept(h, g)
  BY <1>2, MemoryAdd
<1>6. ~lo => y /\ ok
  OBVIOUS
<1> HIDE DEF e, y
<1>7. CASE ok
  <2>1. Places(g, ns, cur, s, A)
    BY <1>2, <1>4, <1>5, <1>7, PlacesKept DEF e
  <2> QED BY <1>5, <1>6, <1>7, <2>1, StateOf
<1>8. CASE ~ok
  <2>1. Memory(h, e, HeldRefs(s), A, FALSE)
    BY <1>3, MemoryLose DEF e
  <2>2. Memory(h, Refs(s, ns), HeldRefs(s), A, FALSE)
    BY <1>2, <2>1, MemoryLose DEF e
  <2> QED BY <1>5, <1>6, <1>8, <2>2, StateLossy
<1> QED BY <1>7, <1>8

\* What the open level is, and that it has room where its array or object is to get an item.
LEMMA OpenCell ==
    ASSUME NEW kind, NEW A, NEW e, NEW f, NEW x,
           Places(heap, nodes, current, held, A), Memory(heap, e, f, A, x),
           kind \in Kinds, IsOpen(kind), HasRoom
    PROVE  /\ TheCell \in A /\ TheCell \in Live(heap) /\ Len(heap.cells[TheCell].items) < MaxItems
           /\ current \in DOMAIN nodes /\ nodes # <<>> /\ current >= 1
<1>1. nodes \in Seq(NodeSet) /\ current \in 0..Len(nodes) /\ current # 0
  BY DEF Places, IsOpen
<1>2. current \in DOMAIN nodes /\ nodes # <<>> /\ current >= 1
  BY <1>1
<1>3. TheCell \in A
  BY <1>2, NodeType DEF IsOpen, TheCell
<1>4. TheCell \in Live(heap)
  BY <1>3, GuardedCell
<1> QED BY <1>2, <1>3, <1>4 DEF HasRoom

LEMMA AppendReturns ==
    ASSUME NEW h, NEW c, NEW v, NEW ok, c \in Live(h), ok \in BOOLEAN
    PROVE  ArrayAppend(h, c, v, ok).rc = ok /\ (~ok => ArrayAppend(h, c, v, ok).h = h)
<1>1. CASE ok
  BY <1>1 DEF ArrayAppend
<1>2. CASE ~ok
  BY <1>2 DEF ArrayAppend
<1> QED BY <1>1, <1>2

LEMMA AddReturns ==
    ASSUME NEW h, NEW c, NEW key, NEW v, NEW ok, c \in Live(h), ok \in BOOLEAN
    PROVE  ObjectAdd(h, c, key, v, ok).rc = ok /\ (~ok => ObjectAdd(h, c, key, v, ok).h = h)
<1>1. CASE ok
  BY <1>1 DEF ObjectAdd
<1>2. CASE ~ok
  BY <1>2 DEF ObjectAdd
<1> QED BY <1>1, <1>2

LEMMA MadePlaces ==
    ASSUME NEW h, NEW ns, NEW cur, NEW s, NEW A, NEW e, NEW x, NEW g, NEW new,
           Places(h, ns, cur, s, A), Memory(h, e, HeldRefs(s), A, x), NotMore(HeldRefs(s), e),
           IsMade(h, e, HeldRefs(s), A, x, g, new)
    PROVE  /\ Places(g, ns, cur, s, A)
           /\ Given(e, Key(new)) \in Tallies /\ NotMore(HeldRefs(s), Given(e, Key(new)))
<1>1. s \in Seq(HeldSet) /\ e \in Tallies /\ HeldRefs(s) \in Tallies
  BY DEF Places, Memory
<1>2. Given(e, Key(new)) \in Tallies /\ NotMore(HeldRefs(s), Given(e, Key(new)))
  BY <1>1, GivenType, GivenMore
<1>3. Memory(g, Given(e, Key(new)), HeldRefs(s), A, x) /\ Kept(h, g)
  BY DEF IsMade
<1>4. Places(g, ns, cur, s, A)
  BY <1>2, <1>3, PlacesKept
<1> QED BY <1>2, <1>4

\* The client's reference to s[i], taken from what it has.
LEMMA GiveHeld ==
    ASSUME NEW h, NEW ns, NEW cur, NEW s, NEW A, NEW x, NEW i, NEW t,
           Places(h, ns, cur, s, A), Memory(h, Refs(s, ns), HeldRefs(s), A, x), i \in DOMAIN s,
           t = Without(s, i)
    PROVE  /\ Places(h, ns, cur, t, A) /\ s[i] \in ValueSet
           /\ Memory(h, Given(Refs(t, ns), s[i]), Given(HeldRefs(t), s[i]), A, x)
           /\ s[i].t = "string" => Memory(h, Given(Refs(t, ns), s[i]), HeldRefs(t), A, x)
<1>1. s \in Seq(HeldSet)
  BY DEF Places
<1>2. /\ t \in Seq(HeldSet) /\ Len(t) = Len(s) - 1
      /\ \A j \in 1..(Len(s) - 1) : t[j] = IF j < i THEN s[j] ELSE s[j + 1]
  BY <1>1, WithoutShape
<1>3. StringsHeld(h, t) /\ Len(t) <= MaxHeld
  <2>1. Len(s) \in Nat /\ DOMAIN s = 1..Len(s) /\ DOMAIN t = 1..(Len(s) - 1) /\ Len(s) <= MaxHeld
    BY <1>1, <1>2 DEF Places
  <2>2. ASSUME NEW j \in DOMAIN t, t[j].t = "string" PROVE KindOf(h, t[j].n) = "string"
    <3>1. PICK k \in DOMAIN s : t[j] = s[k]
      <4>1. CASE j < i
        BY <1>2, <2>1, <4>1
      <4>2. CASE ~(j < i)
        <5>1. j + 1 \in DOMAIN s
          BY <2>1
        <5> QED BY <1>2, <2>1, <4>2, <5>1
      <4> QED BY <4>1, <4>2
    <3> QED BY <2>2, <3>1 DEF Places, StringsHeld
  <2> QED BY <1>2, <2>1, <2>2, Bounds DEF StringsHeld
<1>4. Places(h, ns, cur, t, A)
  BY <1>2, <1>3 DEF Places
<1>5. s[i] \in HeldSet
  BY <1>1
<1>6. s[i] \in ValueSet /\ CellOf(s[i]) = s[i].n /\ s[i].n \in Ids
  BY <1>5 DEF HeldSet, ValueSet, CellOf
<1> DEFINE v == s[i]
<1> HIDE DEF v
<1>7. HeldRefs(s) = Given(HeldRefs(t), v) /\ HeldRefs(t) \in Tallies
  BY <1>1, HeldWithout DEF v
<1>8. Refs(s, ns) = Given(Refs(t, ns), v)
  <2>1. CASE ns = <<>>
    BY <1>7, <2>1 DEF Refs
  <2>2. CASE ns # <<>>
    BY <1>7, <2>2, GivenSwap DEF Refs
  <2> QED BY <2>1, <2>2
<1>9. Memory(h, Given(Refs(t, ns), v), Given(HeldRefs(t), v), A, x)
  BY <1>7, <1>8
<1>10. ASSUME v.t = "string" PROVE Memory(h, Given(Refs(t, ns), v), HeldRefs(t), A, x)
  <2>1. KindOf(h, v.n) = "string"
    BY <1>10 DEF Places, StringsHeld, v
  <2>2. v.n \in Ids /\ CellOf(v) = v.n
    BY <1>6 DEF v
  <2> QED BY <1>7, <1>9, <2>1, <2>2, MemoryGive
<1> QED BY <1>4, <1>6, <1>9, <1>10 DEF v

LEMMA OutcomesType == Outcomes \subseteq BOOLEAN
BY DEF Outcomes

LEMMA ScalarRefs ==
    ASSUME NEW e, NEW v, e \in Tallies, v \in Scalars
    PROVE  Given(e, v) = e /\ v \in ValueSet
<1>1. CellOf(v) = 0
  BY BuilderAssumption DEF CellOf
<1> QED BY <1>1, GivenNothing DEF ValueSet

LEMMA NotedLoss == ASSUME NEW r, NEW l, Noted(r, l)
                   PROVE  ~lossy' => ~lossy /\ ~r /\ ~l
BY DEF Noted

LEMMA Stutter == ASSUME IInv, UNCHANGED vars PROVE IInv'
BY DEF IInv, vars

LEMMA ArrayAddScalarStep == ASSUME IInv, ArrayAddScalar PROVE IInv'
<1> DEFINE c == TheCell
<1>1. PICK v \in Scalars, ok \in Outcomes :
         IF ~IsOpen("array") THEN Refused
         ELSE /\ heap' = ArrayAppend(heap, c, v, ok).h
              /\ Noted(~ArrayAppend(heap, c, v, ok).rc, FALSE) /\ UNCHANGED <<nodes, current>>
  BY DEF ArrayAddScalar
<1>2. CASE ~IsOpen("array")
  BY <1>1, <1>2, Stutter DEF Refused
<1>3. CASE IsOpen("array")
  <2>1. PICK A, x : /\ Places(heap, nodes, current, held, A)
                    /\ Memory(heap, Refs(held, nodes), HeldRefs(held), A, x) /\ (~lossy => x)
    BY StateHas DEF IInv
  <2>2. ok \in BOOLEAN /\ held' = held /\ HasRoom /\ "array" \in Kinds
    BY <1>3, OutcomesType DEF ArrayAddScalar, Kinds
  <2>3. c \in A /\ c \in Live(heap) /\ Len(heap.cells[c].items) < MaxItems
    BY <1>3, <2>1, <2>2, OpenCell
  <2>4. Refs(held, nodes) \in Tallies
    BY <2>1 DEF Memory
  <2>5. Memory(heap, Given(Refs(held, nodes), v), HeldRefs(held), A, x) /\ v \in ValueSet
    BY <2>1, <2>4, ScalarRefs
  <2> HIDE DEF c
  <2>8. ArrayAppend(heap, c, v, ok).rc = ok
    BY <2>2, <2>3, AppendReturns
  <2>9. /\ heap' = ArrayAppend(heap, c, v, ok).h /\ nodes' = nodes /\ current' = current
        /\ Noted(~ArrayAppend(heap, c, v, ok).rc, FALSE)
    BY <1>1, <1>3
  <2>6. heap' = ArrayAppend(heap, c, v, ok).h /\ nodes' = nodes /\ current' = current
        /\ (~lossy' => ~lossy /\ ok)
    BY <2>8, <2>9, NotedLoss
  <2>7. State(heap', nodes, current, held, lossy')
    BY <2>1, <2>2, <2>3, <2>5, <2>6, AfterAppend
  <2> QED BY <2>2, <2>6, <2>7 DEF IInv
<1> QED BY <1>2, <1>3

LEMMA ArrayAddCstrStep == ASSUME IInv, ArrayAddCstr PROVE IInv'
<1> DEFINE c == TheCell
           g(text) == Allocate(heap, "string", text, TRUE).h
           new(text) == Allocate(heap, "string", text, TRUE).cell
<1>1. PICK text \in Texts, ok \in Outcomes :
         IF ~IsOpen("array") THEN Refused
         ELSE /\ heap' = ArrayAppend(g(text), c, Key(new(text)), ok).h
              /\ Noted(~ArrayAppend(g(text), c, Key(new(text)), ok).rc, FALSE)
              /\ UNCHANGED <<nodes, current>>
  BY DEF ArrayAddCstr, Key
<1>2. CASE ~IsOpen("array")
  BY <1>1, <1>2, Stutter DEF Refused
<1>3. CASE IsOpen("array")
  <2>1. PICK A, x : /\ Places(heap, nodes, current, held, A)
                    /\ Memory(heap, Refs(held, nodes), HeldRefs(held), A, x) /\ (~lossy => x)
    BY StateHas DEF IInv
  <2>2. ok \in BOOLEAN /\ held' = held /\ HasRoom /\ Room(1) /\ "array" \in Kinds
    BY <1>3, OutcomesType DEF ArrayAddCstr, Kinds
  <2>3. c \in A /\ c \in Live(heap) /\ Len(heap.cells[c].items) < MaxItems
    BY <1>3, <2>1, <2>2, OpenCell
  <2>4. NotMore(HeldRefs(held), Refs(held, nodes)) /\ Refs(held, nodes) \in Tallies
    BY <2>1, RefsType DEF Places
  <2>5. Ids \ Live(heap) # {}
    BY <2>2, LiveCount, RoomFree
  <2> DEFINE s == g(text)
             v == Key(new(text))
             k == new(text)
  <2>6. IsMade(heap, Refs(held, nodes), HeldRefs(held), A, x, s, k)
    BY <2>1, <2>5, MakeString
  <2> HIDE DEF c, g, new
  <2>7. Places(s, nodes, current, held, A)
    BY <2>1, <2>4, <2>6, MadePlaces
  <2>8. /\ Memory(s, Given(Refs(held, nodes), v), HeldRefs(held), A, x) /\ v \in ValueSet
        /\ s.cells[c] = heap.cells[c]
    BY <2>3, <2>6 DEF IsMade, Untouched
  <2>9. Memory(s, Given(Refs(held, nodes), v), HeldRefs(held), A, x) /\ c \in Live(s)
    BY <2>3, <2>8, GuardedCell
  <2>10. ArrayAppend(s, c, v, ok).rc = ok
    BY <2>2, <2>9, AppendReturns
  <2>11. /\ heap' = ArrayAppend(s, c, v, ok).h /\ nodes' = nodes /\ current' = current
         /\ Noted(~ArrayAppend(s, c, v, ok).rc, FALSE)
    BY <1>1, <1>3
  <2>12. ~lossy' => x /\ ok
    BY <2>1, <2>10, <2>11, NotedLoss
  <2> HIDE DEF s, v, k
  <2>13. Len(s.cells[c].items) < MaxItems
    BY <2>3, <2>8
  <2>14. State(heap', nodes, current, held, lossy')
    BY <2>2, <2>3, <2>7, <2>8, <2>11, <2>12, <2>13, AfterAppend
  <2> QED BY <2>2, <2>11, <2>14 DEF IInv
<1> QED BY <1>2, <1>3

LEMMA ArrayAddStringStep == ASSUME IInv, ArrayAddString PROVE IInv'
<1> DEFINE c == TheCell
<1>1. PICK i \in DOMAIN held, ok \in Outcomes :
         /\ held[i].t = "string"
         /\ IF ~IsOpen("array") THEN Refused
            ELSE /\ heap' = ArrayAppend(heap, c, held[i], ok).h
                 /\ Noted(~ArrayAppend(heap, c, held[i], ok).rc, FALSE)
                 /\ held' = IF ArrayAppend(heap, c, held[i], ok).rc THEN Without(held, i) ELSE held
                 /\ UNCHANGED <<nodes, current>>
  BY DEF ArrayAddString
<1>2. CASE ~IsOpen("array")
  BY <1>1, <1>2, Stutter DEF Refused
<1>3. CASE IsOpen("array")
  <2>1. PICK A, x : /\ Places(heap, nodes, current, held, A)
                    /\ Memory(heap, Refs(held, nodes), HeldRefs(held), A, x) /\ (~lossy => x)
    BY StateHas DEF IInv
  <2>2. ok \in BOOLEAN /\ HasRoom /\ "array" \in Kinds
    BY <1>3, OutcomesType DEF ArrayAddString, Kinds
  <2>3. c \in A /\ c \in Live(heap) /\ Len(heap.cells[c].items) < MaxItems
    BY <1>3, <2>1, <2>2, OpenCell
  <2> DEFINE v == held[i]
             t == Without(held, i)
  <2> HIDE DEF c
  <2>4. /\ Places(heap, nodes, current, t, A) /\ v \in ValueSet
        /\ Memory(heap, Given(Refs(t, nodes), v), HeldRefs(t), A, x)
    BY <1>1, <2>1, GiveHeld
  <2>5. ArrayAppend(heap, c, v, ok).rc = ok /\ (~ok => ArrayAppend(heap, c, v, ok).h = heap)
    BY <2>2, <2>3, AppendReturns
  <2>6. /\ heap' = ArrayAppend(heap, c, v, ok).h /\ nodes' = nodes /\ current' = current
        /\ Noted(~ArrayAppend(heap, c, v, ok).rc, FALSE)
        /\ held' = IF ArrayAppend(heap, c, v, ok).rc THEN t ELSE held
    BY <1>1, <1>3
  <2>7. ~lossy' => ~lossy /\ ok
    BY <2>5, <2>6, NotedLoss
  <2> HIDE DEF v, t
  <2>8. CASE ok
    <3>1. State(heap', nodes, current, t, lossy')
      BY <2>1, <2>2, <2>3, <2>4, <2>6, <2>7, AfterAppend
    <3>2. held' = t
      BY <2>5, <2>6, <2>8
    <3> QED BY <2>6, <3>1, <3>2 DEF IInv
  <2>9. CASE ~ok
    <3>1. heap' = heap /\ held' = held
      BY <2>5, <2>6, <2>9
    <3>2. State(heap, nodes, current, held, lossy')
      BY <2>1, <2>7, StateOf
    <3> QED BY <2>6, <3>1, <3>2 DEF IInv
  <2> QED BY <2>8, <2>9
<1> QED BY <1>2, <1>3

LEMMA ObjectAddScalarStep == ASSUME IInv, ObjectAddScalar PROVE IInv'
<1> DEFINE c == TheCell
           g(text) == Allocate(heap, "string", text, TRUE).h
           new(text) == Allocate(heap, "string", text, TRUE).cell
<1>1. PICK text \in Texts, v \in Scalars, ok \in Outcomes :
         IF ~IsOpen("object") THEN Refused
         ELSE /\ heap' = ObjectAdd(g(text), c, new(text), v, ok).h
              /\ Noted(~ObjectAdd(g(text), c, new(text), v, ok).rc, Replaces(g(text), new(text)))
              /\ UNCHANGED <<nodes, current>>
  BY DEF ObjectAddScalar
<1>2. CASE ~IsOpen("object")
  BY <1>1, <1>2, Stutter DEF Refused
<1>3. CASE IsOpen("object")
  <2>1. PICK A, x : /\ Places(heap, nodes, current, held, A)
                    /\ Memory(heap, Refs(held, nodes), HeldRefs(held), A, x) /\ (~lossy => x)
    BY StateHas DEF IInv
  <2>2. ok \in BOOLEAN /\ held' = held /\ HasRoom /\ Room(1) /\ "object" \in Kinds
    BY <1>3, OutcomesType DEF ObjectAddScalar, Kinds
  <2>3. c \in A /\ c \in Live(heap) /\ Len(heap.cells[c].items) < MaxItems
    BY <1>3, <2>1, <2>2, OpenCell
  <2>4. NotMore(HeldRefs(held), Refs(held, nodes)) /\ Refs(held, nodes) \in Tallies
    BY <2>1, RefsType DEF Places
  <2>5. Ids \ Live(heap) # {}
    BY <2>2, LiveCount, RoomFree
  <2> DEFINE s == g(text)
             k == new(text)
             e == Given(Refs(held, nodes), Key(k))
  <2>6. IsMade(heap, Refs(held, nodes), HeldRefs(held), A, x, s, k)
    BY <2>1, <2>5, MakeString
  <2>7. /\ heap' = ObjectAdd(s, c, k, v, ok).h /\ nodes' = nodes /\ current' = current
        /\ Noted(~ObjectAdd(s, c, k, v, ok).rc, Replaces(s, k))
    BY <1>1, <1>3
  <2>8. Replaces(s, k) <=> Place(s, c, s.cells[k].text) # 0
    BY DEF Replaces
  <2> HIDE DEF c, g, new, s, k
  <2>9. Places(s, nodes, current, held, A) /\ e \in Tallies
    BY <2>1, <2>4, <2>6, MadePlaces
  <2>10. /\ Memory(s, e, HeldRefs(held), A, x) /\ k \in Ids /\ KindOf(s, k) = "string"
         /\ s.cells[c] = heap.cells[c]
    BY <2>3, <2>6 DEF IsMade, Untouched
  <2>11. c \in Live(s) /\ Len(s.cells[c].items) < MaxItems
    BY <2>3, <2>10, GuardedCell
  <2>12. Memory(s, Given(e, v), HeldRefs(held), A, x) /\ v \in ValueSet
    BY <2>9, <2>10, ScalarRefs
  <2>13. ObjectAdd(s, c, k, v, ok).rc = ok
    BY <2>2, <2>11, AddReturns
  <2>14. ~lossy' => x /\ ok /\ Place(s, c, s.cells[k].text) = 0
    BY <2>1, <2>7, <2>8, <2>13, NotedLoss
  <2>15. State(heap', nodes, current, held, lossy')
    BY <2>2, <2>3, <2>7, <2>9, <2>10, <2>11, <2>12, <2>14, AfterAdd
  <2> QED BY <2>2, <2>7, <2>15 DEF IInv
<1> QED BY <1>2, <1>3

LEMMA ObjectAddCstrStep == ASSUME IInv, ObjectAddCstr PROVE IInv'
<1> DEFINE c == TheCell
           g(text) == Allocate(heap, "string", text, TRUE).h
           new(text) == Allocate(heap, "string", text, TRUE).cell
           g2(text, value) == Allocate(g(text), "string", value, TRUE).h
           new2(text, value) == Allocate(g(text), "string", value, TRUE).cell
<1>1. PICK text \in Texts, value \in Texts, ok \in Outcomes :
         IF ~IsOpen("object") THEN Refused
         ELSE /\ heap' = ObjectAdd(g2(text, value), c, new(text), Key(new2(text, value)), ok).h
              /\ Noted(~ObjectAdd(g2(text, value), c, new(text), Key(new2(text, value)), ok).rc,
                       Replaces(g2(text, value), new(text)))
              /\ UNCHANGED <<nodes, current>>
  BY DEF ObjectAddCstr, Key
<1>2. CASE ~IsOpen("object")
  BY <1>1, <1>2, Stutter DEF Refused
<1>3. CASE IsOpen("object")
  <2>1. PICK A, x : /\ Places(heap, nodes, current, held, A)
                    /\ Memory(heap, Refs(held, nodes), HeldRefs(held), A, x) /\ (~lossy => x)
    BY StateHas DEF IInv
  <2>2. ok \in BOOLEAN /\ held' = held /\ HasRoom /\ Room(2) /\ "object" \in Kinds
    BY <1>3, OutcomesType DEF ObjectAddCstr, Kinds
  <2>3. c \in A /\ c \in Live(heap) /\ Len(heap.cells[c].items) < MaxItems
    BY <1>3, <2>1, <2>2, OpenCell
  <2>4. NotMore(HeldRefs(held), Refs(held, nodes)) /\ Refs(held, nodes) \in Tallies
    BY <2>1, RefsType DEF Places
  <2>5. Ids \ Live(heap) # {} /\ Cardinality(Live(heap)) + 2 <= MaxCells /\ Cardinality(Live(heap)) \in Nat
    BY <2>2, LiveCount, RoomFree
  <2> DEFINE s == g(text)
             k == new(text)
             e == Given(Refs(held, nodes), Key(k))
             s2 == g2(text, value)
             k2 == new2(text, value)
             v == Key(k2)
  <2>6. IsMade(heap, Refs(held, nodes), HeldRefs(held), A, x, s, k)
    BY <2>1, <2>5, MakeString
  <2>7. /\ heap' = ObjectAdd(s2, c, k, v, ok).h /\ nodes' = nodes /\ current' = current
        /\ Noted(~ObjectAdd(s2, c, k, v, ok).rc, Replaces(s2, k))
    BY <1>1, <1>3
  <2>8. Replaces(s2, k) <=> Place(s2, c, s2.cells[k].text) # 0
    BY DEF Replaces
  <2>9. s2 = Allocate(s, "string", value, TRUE).h /\ k2 = Allocate(s, "string", value, TRUE).cell
    OBVIOUS
  <2> HIDE DEF c, g, new, g2, new2, s, k, s2, k2
  <2>10. Places(s, nodes, current, held, A) /\ e \in Tallies /\ NotMore(HeldRefs(held), e)
    BY <2>1, <2>4, <2>6, MadePlaces
  <2>11. /\ Memory(s, e, HeldRefs(held), A, x) /\ k \in Ids /\ KindOf(s, k) = "string"
         /\ s.cells[c] = heap.cells[c] /\ Cardinality(Live(s)) = Cardinality(Live(heap)) + 1
    BY <2>3, <2>6 DEF IsMade, Untouched
  <2>12. Ids \ Live(s) # {}
    <3>1. Cardinality(Live(s)) + 1 <= MaxCells
      BY <2>5, <2>11, Bounds
    <3> QED BY <3>1, FreeCell
  <2> HIDE DEF e
  <2>13. IsMade(s, e, HeldRefs(held), A, x, s2, k2)
    BY <2>9, <2>11, <2>12, MakeString
  <2>14. Places(s2, nodes, current, held, A)
    BY <2>10, <2>11, <2>13, MadePlaces
  <2>15. k \in Live(s) /\ c \in Live(s)
    BY <2>3, <2>11, LiveIds, GuardedCell
  <2>16. /\ Memory(s2, Given(e, v), HeldRefs(held), A, x) /\ v \in ValueSet
         /\ s2.cells[c] = s.cells[c] /\ s2.cells[k] = s.cells[k]
    BY <2>13, <2>15 DEF IsMade, Untouched
  <2>17. KindOf(s2, k) = "string"
    BY <2>11, <2>16 DEF KindOf
  <2>18. c \in Live(s2) /\ Len(s2.cells[c].items) < MaxItems
    BY <2>3, <2>11, <2>16, GuardedCell
  <2>19. ObjectAdd(s2, c, k, v, ok).rc = ok
    BY <2>2, <2>18, AddReturns
  <2>20. ~lossy' => x /\ ok /\ Place(s2, c, s2.cells[k].text) = 0
    BY <2>1, <2>7, <2>8, <2>19, NotedLoss
  <2> HIDE DEF v
  <2>21. Memory(s2, Given(Given(Refs(held, nodes), Key(k)), v), HeldRefs(held), A, x)
    BY <2>16 DEF e
  <2>22. State(heap', nodes, current, held, lossy')
    BY <2>2, <2>3, <2>7, <2>11, <2>14, <2>16, <2>17, <2>18, <2>20, <2>21, AfterAdd
  <2> QED BY <2>2, <2>7, <2>22 DEF IInv
<1> QED BY <1>2, <1>3

LEMMA ObjectAddStringStep == ASSUME IInv, ObjectAddString PROVE IInv'
<1> DEFINE c == TheCell
           g(text) == Allocate(heap, "string", text, TRUE).h
           new(text) == Allocate(heap, "string", text, TRUE).cell
<1>1. PICK i \in DOMAIN held, text \in Texts, ok \in Outcomes :
         /\ held[i].t = "string"
         /\ IF ~IsOpen("object") THEN Refused
            ELSE /\ heap' = ObjectAdd(g(text), c, new(text), held[i], ok).h
                 /\ Noted(~ObjectAdd(g(text), c, new(text), held[i], ok).rc, Replaces(g(text), new(text)))
                 /\ held' = IF ObjectAdd(g(text), c, new(text), held[i], ok).rc THEN Without(held, i) ELSE held
                 /\ UNCHANGED <<nodes, current>>
  BY DEF ObjectAddString
<1>2. CASE ~IsOpen("object")
  BY <1>1, <1>2, Stutter DEF Refused
<1>3. CASE IsOpen("object")
  <2>1. PICK A, x : /\ Places(heap, nodes, current, held, A)
                    /\ Memory(heap, Refs(held, nodes), HeldRefs(held), A, x) /\ (~lossy => x)
    BY StateHas DEF IInv
  <2>2. ok \in BOOLEAN /\ HasRoom /\ Room(1) /\ "object" \in Kinds
    BY <1>3, OutcomesType DEF ObjectAddString, Kinds
  <2>3. c \in A /\ c \in Live(heap) /\ Len(heap.cells[c].items) < MaxItems
    BY <1>3, <2>1, <2>2, OpenCell
  <2>4. NotMore(HeldRefs(held), Refs(held, nodes)) /\ Refs(held, nodes) \in Tallies
    BY <2>1, RefsType DEF Places
  <2>5. Ids \ Live(heap) # {}
    BY <2>2, LiveCount, RoomFree
  <2> DEFINE s == g(text)
             k == new(text)
             v == held[i]
             t == Without(held, i)
  <2>6. IsMade(heap, Refs(held, nodes), HeldRefs(held), A, x, s, k)
    BY <2>1, <2>5, MakeString
  <2>7. /\ heap' = ObjectAdd(s, c, k, v, ok).h /\ nodes' = nodes /\ current' = current
        /\ Noted(~ObjectAdd(s, c, k, v, ok).rc, Replaces(s, k))
        /\ held' = IF ObjectAdd(s, c, k, v, ok).rc THEN t ELSE held
    BY <1>1, <1>3
  <2>8. Replaces(s, k) <=> Place(s, c, s.cells[k].text) # 0
    BY DEF Replaces
  <2>9. /\ Places(heap, nodes, current, t, A) /\ v \in ValueSet
        /\ Memory(heap, Given(Refs(t, nodes), v), HeldRefs(t), A, x)
    BY <1>1, <2>1, GiveHeld
  <2>10. IsMade(heap, Given(Refs(t, nodes), v), HeldRefs(t), A, x, s, k)
    BY <2>5, <2>9, MakeString
  <2> HIDE DEF c, g, new, s, k, v, t
  <2>11. /\ Memory(s, Given(Refs(held, nodes), Key(k)), HeldRefs(held), A, x)
         /\ k \in Ids /\ KindOf(s, k) = "string" /\ s.cells[c] = heap.cells[c]
    BY <2>3, <2>6 DEF IsMade, Untouched
  <2>12. c \in Live(s) /\ Len(s.cells[c].items) < MaxItems
    BY <2>3, <2>11, GuardedCell
  <2>13. ObjectAdd(s, c, k, v, ok).rc = ok /\ (~ok => ObjectAdd(s, c, k, v, ok).h = s)
    BY <2>2, <2>12, AddReturns
  <2>14. ~lossy' => x /\ ok /\ Place(s, c, s.cells[k].text) = 0
    BY <2>1, <2>7, <2>8, <2>13, NotedLoss
  <2>15. CASE ok
    <3>1. t \in Seq(HeldSet)
      BY <2>9 DEF Places
    <3>2. Refs(t, nodes) \in Tallies /\ NotMore(HeldRefs(t), Refs(t, nodes)) /\ HeldRefs(t) \in Tallies
      BY <3>1, RefsType
    <3>3. NotMore(HeldRefs(t), Given(Refs(t, nodes), v))
      BY <3>2, GivenMore
    <3>4. Places(s, nodes, current, t, A)
      BY <2>9, <2>10, <3>3, MadePlaces
    <3>5. Memory(s, Given(Given(Refs(t, nodes), v), Key(k)), HeldRefs(t), A, x)
      BY <2>10 DEF IsMade
    <3>6. Given(Given(Refs(t, nodes), v), Key(k)) = Given(Given(Refs(t, nodes), Key(k)), v)
      BY <3>2, GivenSwap
    <3>7. Memory(s, Given(Given(Refs(t, nodes), Key(k)), v), HeldRefs(t), A, x)
      BY <3>5, <3>6
    <3>8. State(heap', nodes, current, t, lossy')
      BY <2>2, <2>3, <2>7, <2>9, <2>11, <2>12, <2>14, <3>4, <3>7, AfterAdd
    <3>9. held' = t
      BY <2>7, <2>13, <2>15
    <3> QED BY <2>7, <3>8, <3>9 DEF IInv
  <2>16. CASE ~ok
    <3>1. heap' = s /\ held' = held /\ lossy'
      BY <2>7, <2>13, <2>14, <2>16
    <3>2. Places(s, nodes, current, held, A)
      BY <2>1, <2>4, <2>6, MadePlaces
    <3>3. Memory(s, Refs(held, nodes), HeldRefs(held), A, FALSE)
      BY <2>4, <2>11, MemoryLose
    <3>4. State(s, nodes, current, held, lossy')
      BY <3>1, <3>2, <3>3, StateLossy
    <3> QED BY <2>7, <3>1, <3>4 DEF IInv
  <2> QED BY <2>15, <2>16
<1> QED BY <1>2, <1>3

LEMMA NoStringRefs ==
    ASSUME NEW e, e \in Tallies
    PROVE  Given(e, NoString) = e /\ NoString \in ValueSet
<1>1. CellOf(NoString) = 0
  BY DEF CellOf, NoString, Value
<1> QED BY <1>1, GivenNothing DEF ValueSet

\* A call that may fail has room for two cells and loses something.
LEMMA WhenFails ==
    ASSUME MayFail, Noted(TRUE, FALSE)
    PROVE  /\ Room(2) /\ lossy' /\ Outcomes \subseteq BOOLEAN
           /\ Ids \ Live(heap) # {}
<1>1. Room(2)
  BY DEF MayFail
<1>2. Ids \ Live(heap) # {}
  BY <1>1, LiveCount, RoomFree
<1>3. lossy'
  BY DEF Noted
<1> QED BY <1>1, <1>2, <1>3, OutcomesType

LEMMA ArrayAddNoStringStep == ASSUME IInv, ArrayAddNoString PROVE IInv'
<1> DEFINE c == TheCell
<1>1. PICK ok \in Outcomes : heap' = ArrayAppend(heap, c, NoString, ok).h
  BY DEF ArrayAddNoString
<1>2. /\ UNCHANGED <<nodes, current, held>> /\ lossy' /\ ok \in BOOLEAN
      /\ HasRoom /\ IsOpen("array") /\ "array" \in Kinds
  BY WhenFails, OutcomesType DEF ArrayAddNoString, Kinds
<1>3. PICK A, x : /\ Places(heap, nodes, current, held, A)
                  /\ Memory(heap, Refs(held, nodes), HeldRefs(held), A, x) /\ (~lossy => x)
  BY StateHas DEF IInv
<1>4. c \in A /\ Len(heap.cells[c].items) < MaxItems
  BY <1>2, <1>3, OpenCell
<1>5. Refs(held, nodes) \in Tallies
  BY <1>3 DEF Memory
<1>6. Memory(heap, Given(Refs(held, nodes), NoString), HeldRefs(held), A, x) /\ NoString \in ValueSet
  BY <1>3, <1>5, NoStringRefs
<1> HIDE DEF c
<1>7. State(heap', nodes, current, held, lossy')
  BY <1>1, <1>2, <1>3, <1>4, <1>6, AfterAppend
<1> QED BY <1>2, <1>7 DEF IInv

LEMMA ObjectAddNoStringStep == ASSUME IInv, ObjectAddNoString PROVE IInv'
<1> DEFINE c == TheCell
           g(text) == Allocate(heap, "string", text, TRUE).h
           new(text) == Allocate(heap, "string", text, TRUE).cell
<1>1. PICK text \in Texts, ok \in Outcomes :
         heap' = ObjectAdd(g(text), c, new(text), NoString, ok).h
  BY DEF ObjectAddNoString
<1>2. /\ UNCHANGED <<nodes, current, held>> /\ lossy' /\ ok \in BOOLEAN
      /\ HasRoom /\ IsOpen("object") /\ "object" \in Kinds /\ Ids \ Live(heap) # {}
  BY WhenFails, OutcomesType DEF ObjectAddNoString, Kinds
<1>3. PICK A, x : /\ Places(heap, nodes, current, held, A)
                  /\ Memory(heap, Refs(held, nodes), HeldRefs(held), A, x) /\ (~lossy => x)
  BY StateHas DEF IInv
<1>4. c \in A /\ c \in Live(heap) /\ Len(heap.cells[c].items) < MaxItems
  BY <1>2, <1>3, OpenCell
<1>5. NotMore(HeldRefs(held), Refs(held, nodes)) /\ Refs(held, nodes) \in Tallies
  BY <1>3, RefsType DEF Places
<1> DEFINE s == g(text)
           k == new(text)
           e == Given(Refs(held, nodes), Key(k))
<1>6. IsMade(heap, Refs(held, nodes), HeldRefs(held), A, x, s, k)
  BY <1>2, <1>3, MakeString
<1>7. heap' = ObjectAdd(s, c, k, NoString, ok).h
  BY <1>1
<1> HIDE DEF c, g, new, s, k
<1>8. Places(s, nodes, current, held, A) /\ e \in Tallies
  BY <1>3, <1>5, <1>6, MadePlaces
<1>9. /\ Memory(s, e, HeldRefs(held), A, x) /\ k \in Ids /\ KindOf(s, k) = "string"
      /\ s.cells[c] = heap.cells[c]
  BY <1>4, <1>6 DEF IsMade, Untouched
<1>10. Len(s.cells[c].items) < MaxItems
  BY <1>4, <1>9
<1>11. Memory(s, Given(e, NoString), HeldRefs(held), A, x) /\ NoString \in ValueSet
  BY <1>8, <1>9, NoStringRefs
<1>12. State(heap', nodes, current, held, lossy')
  BY <1>2, <1>4, <1>7, <1>8, <1>9, <1>10, <1>11, AfterAdd
<1> QED BY <1>2, <1>12 DEF IInv

LEMMA ObjectAddNoKeyStep == ASSUME IInv, ObjectAddNoKey PROVE IInv'
<1>1. PICK made \in BOOLEAN, text \in Texts : heap' = Allocate(heap, "string", text, made).h
  BY DEF ObjectAddNoKey
<1>2. UNCHANGED <<nodes, current, held>> /\ lossy' /\ Ids \ Live(heap) # {}
  BY WhenFails DEF ObjectAddNoKey
<1>3. PICK A, x : /\ Places(heap, nodes, current, held, A)
                  /\ Memory(heap, Refs(held, nodes), HeldRefs(held), A, x) /\ (~lossy => x)
  BY StateHas DEF IInv
<1>4. CASE ~made
  <2>1. heap' = heap
    BY <1>1, <1>4, AllocateFails
  <2>2. State(heap, nodes, current, held, lossy')
    BY <1>2, <1>3, StateOf
  <2> QED BY <1>2, <2>1, <2>2 DEF IInv
<1>5. CASE made
  <2> DEFINE s == Allocate(heap, "string", text, TRUE).h
             k == Allocate(heap, "string", text, TRUE).cell
  <2>1. heap' = s
    BY <1>1, <1>5
  <2>2. NotMore(HeldRefs(held), Refs(held, nodes)) /\ Refs(held, nodes) \in Tallies
    BY <1>3, RefsType DEF Places
  <2>3. IsMade(heap, Refs(held, nodes), HeldRefs(held), A, x, s, k)
    BY <1>2, <1>3, MakeString
  <2> HIDE DEF s, k
  <2>4. Places(s, nodes, current, held, A)
    BY <1>3, <2>2, <2>3, MadePlaces
  <2>5. Memory(s, Refs(held, nodes), HeldRefs(held), A, FALSE)
    BY <2>2, <2>3, MemoryLose DEF IsMade
  <2>6. State(s, nodes, current, held, lossy')
    BY <1>2, <2>4, <2>5, StateLossy
  <2> QED BY <1>2, <2>1, <2>6 DEF IInv
<1> QED BY <1>4, <1>5

LEMMA PlacesAt ==
    ASSUME NEW h, NEW ns, NEW cur, NEW s, NEW A, NEW k,
           Places(h, ns, cur, s, A), k \in 0..Len(ns)
    PROVE  Places(h, ns, k, s, A)
BY DEF Places

\* A level more, without a value.
IsMore(ns, list) == list = Append(ns, Zeroed)

LEMMA PlacesMore ==
    ASSUME NEW h, NEW ns, NEW cur, NEW s, NEW A, NEW list,
           Places(h, ns, cur, s, A), IsMore(ns, list)
    PROVE  /\ Places(h, list, cur, s, A) /\ Len(list) = Len(ns) + 1 /\ Len(ns) \in Nat
           /\ list \in Seq(NodeSet) /\ (ns # <<>> => list[1] = ns[1])
<1> USE DEF IsMore
<1>1. ns \in Seq(NodeSet) /\ Zeroed \in NodeSet /\ Covers(A, ns) /\ cur \in 0..Len(ns)
  BY DEF Places, NodeSet
<1>2. /\ list \in Seq(NodeSet) /\ Len(list) = Len(ns) + 1 /\ Len(ns) \in Nat
      /\ list[Len(ns) + 1] = Zeroed
  BY <1>1
<1>3. \A i \in 1..Len(ns) : list[i] = ns[i]
  BY <1>1
<1>4. ASSUME NEW k \in DOMAIN list, list[k].t \in Kinds PROVE list[k].n \in A
  <2>1. k \in 1..(Len(ns) + 1)
    BY <1>2
  <2>2. Zeroed.t \notin Kinds
    BY DEF Zeroed, Value, Kinds
  <2>3. k # Len(ns) + 1
    BY <1>2, <1>4, <2>2
  <2>4. k \in 1..Len(ns)
    BY <1>2, <2>1, <2>3
  <2>5. k \in DOMAIN ns /\ list[k] = ns[k]
    BY <1>1, <1>3, <2>4
  <2> QED BY <1>1, <1>4, <2>5 DEF Covers
<1>5. Covers(A, list) /\ cur \in 0..Len(list)
  BY <1>1, <1>2, <1>4 DEF Covers
<1>6. ns # <<>> => list[1] = ns[1]
  BY <1>1, <1>3
<1> QED BY <1>2, <1>5, <1>6 DEF Places

LEMMA SameRoot ==
    ASSUME NEW s, NEW ns, NEW list, ns # <<>>, list # <<>>, list[1] = ns[1]
    PROVE  Refs(s, list) = Refs(s, ns)
BY DEF Refs

\* The level at k holds a new container, to which there is one reference besides those of e.
IsLevel(h, ns, cur, s, e, x, k, g, list, B) ==
    /\ Places(g, list, cur, s, B) /\ Memory(g, Given(e, list[k]), HeldRefs(s), B, x)
    /\ Untouched(h, g) /\ Cardinality(Live(g)) = Cardinality(Live(h)) + 1
    /\ list[k] \in ValueSet /\ Len(list) = Len(ns) /\ Elsewhere(ns, k, list)

LEMMA LevelNew ==
    ASSUME NEW h, NEW ns, NEW cur, NEW s, NEW A, NEW e, NEW x, NEW k, NEW kind, NEW new, NEW g, NEW list,
           Places(h, ns, cur, s, A), Memory(h, e, HeldRefs(s), A, x), NotMore(HeldRefs(s), e),
           IsNew(h, g, new, kind), kind \in Kinds, k \in DOMAIN ns,
           IsSet(ns, k, Value(kind, new), list)
    PROVE  IsLevel(h, ns, cur, s, e, x, k, g, list, A \cup {new})
<1> DEFINE v == Value(kind, new)
           B == A \cup {new}
<1>1. new \in Ids
  BY DEF IsNew
<1>2. /\ Places(h, list, cur, s, B) /\ Len(list) = Len(ns) /\ list[k] = v
      /\ v \in ValueSet /\ CellOf(v) = new
  BY <1>1, SetPlaces
<1>3. Elsewhere(ns, k, list)
  BY <1>1, SetPlaces
<1> HIDE DEF v
<1>4. /\ Memory(g, Given(e, v), HeldRefs(s), B, x) /\ Kept(h, g) /\ new \notin Live(h)
  BY <1>2, MemoryNew
<1>5. Untouched(h, g) /\ Cardinality(Live(g)) = Cardinality(Live(h)) + 1
  BY <1>4, LiveIds, NewRoom DEF IsNew, Untouched
<1>6. e \in Tallies /\ HeldRefs(s) \in Tallies
  BY DEF Memory
<1>7. NotMore(HeldRefs(s), Given(e, v))
  BY <1>6, GivenMore
<1> HIDE DEF B
<1>9. Places(g, list, cur, s, B)
  BY <1>2, <1>4, <1>7, PlacesKept
<1> QED BY <1>2, <1>3, <1>4, <1>5, <1>9 DEF IsLevel, B

LEMMA LevelMade ==
    ASSUME NEW h, NEW ns, NEW cur, NEW s, NEW A, NEW e, NEW x, NEW k, NEW kind,
           Places(h, ns, cur, s, A), Memory(h, e, HeldRefs(s), A, x), NotMore(HeldRefs(s), e),
           Ids \ Live(h) # {}, kind \in Kinds, k \in DOMAIN ns
    PROVE  \E B : /\ A \subseteq B /\ SetContainer(h, ns, k, kind, TRUE).rc = TRUE
                  /\ IsLevel(h, ns, cur, s, e, x, k, SetContainer(h, ns, k, kind, TRUE).h,
                             SetContainer(h, ns, k, kind, TRUE).nodes, B)
<1> DEFINE c == SetContainer(h, ns, k, kind, TRUE)
<1>1. HeapInv(h)
  BY DEF Memory
<1>2. PICK new : IsNew(h, c.h, new, kind) /\ IsSet(ns, k, Value(kind, new), c.nodes) /\ c.rc = TRUE
  BY <1>1, SetMade
<1> HIDE DEF c
<1>3. IsLevel(h, ns, cur, s, e, x, k, c.h, c.nodes, A \cup {new})
  BY <1>2, LevelNew
<1> QED BY <1>2, <1>3 DEF c

LEMMA EmptyRoot ==
    ASSUME NEW s, s \in Seq(HeldSet)
    PROVE  Refs(s, <<Zeroed>>) = Refs(s, <<>>)
<1>1. HeldRefs(s) \in Tallies
  BY HeldType
<1>2. CellOf(Zeroed) = 0
  BY DEF CellOf, Zeroed, Value, Counted
<1>3. Given(HeldRefs(s), Zeroed) = HeldRefs(s)
  BY <1>1, <1>2, GivenNothing
<1>4. <<Zeroed>> # <<>> /\ <<Zeroed>>[1] = Zeroed
  OBVIOUS
<1> QED BY <1>3, <1>4 DEF Refs

LEMMA StartStep == ASSUME IInv, Start PROVE IInv'
<1> DEFINE list == IF nodes = <<>> THEN <<Zeroed>> ELSE nodes
           S(kind, ok) == SetContainer(heap, list, 1, kind, ok)
<1>1. PICK kind \in Kinds, nodeOk \in Outcomes, ok \in Outcomes :
         IF current # 0 THEN Refused
         ELSE IF nodes = <<>> /\ ~nodeOk THEN UNCHANGED <<heap, nodes, current>> /\ Noted(TRUE, FALSE)
         ELSE /\ heap' = S(kind, ok).h /\ nodes' = S(kind, ok).nodes /\ current' = 1
              /\ Noted(~ok, list[1] # Zeroed)
  BY DEF Start
<1>2. PICK A, x : /\ Places(heap, nodes, current, held, A)
                  /\ Memory(heap, Refs(held, nodes), HeldRefs(held), A, x) /\ (~lossy => x)
  BY StateHas DEF IInv
<1>3. held' = held /\ ok \in BOOLEAN /\ Room(1)
  BY OutcomesType DEF Start
<1>4. CASE current # 0
  BY <1>1, <1>4, Stutter DEF Refused
<1>5. CASE current = 0 /\ nodes = <<>> /\ ~nodeOk
  <2>1. UNCHANGED <<heap, nodes, current>> /\ (~lossy' => ~lossy)
    BY <1>1, <1>5, NotedLoss
  <2>2. State(heap, nodes, current, held, lossy')
    BY <1>2, <2>1, StateOf
  <2> QED BY <1>3, <2>1, <2>2 DEF IInv
<1>6. CASE current = 0 /\ ~(nodes = <<>> /\ ~nodeOk)
  <2>1. /\ heap' = S(kind, ok).h /\ nodes' = S(kind, ok).nodes /\ current' = 1
        /\ Noted(~ok, list[1] # Zeroed)
    BY <1>1, <1>6
  <2>2. ~lossy' => ~lossy /\ ok /\ list[1] = Zeroed
    BY <2>1, NotedLoss
  <2>3. held \in Seq(HeldSet) /\ nodes \in Seq(NodeSet)
    BY <1>2 DEF Places
  <2>4. Places(heap, list, 1, held, A) /\ 1 \in DOMAIN list /\ list # <<>> /\ list \in Seq(NodeSet)
    <3>1. CASE nodes = <<>>
      <4>1. IsMore(nodes, list)
        BY <3>1 DEF IsMore
      <4> HIDE DEF list
      <4>2. Places(heap, list, current, held, A) /\ Len(list) = Len(nodes) + 1 /\ list \in Seq(NodeSet)
        BY <1>2, <4>1, PlacesMore
      <4>3. Len(list) = 1
        BY <3>1, <4>2
      <4> QED BY <4>2, <4>3, PlacesAt
    <3>2. CASE nodes # <<>>
      <4>1. list = nodes
        BY <3>2
      <4>2. 1 \in 0..Len(nodes) /\ 1 \in DOMAIN nodes
        BY <2>3, <3>2
      <4> QED BY <1>2, <2>3, <3>2, <4>1, <4>2, PlacesAt
    <3> QED BY <3>1, <3>2
  <2>5. Refs(held, list) = Refs(held, nodes)
    BY <2>3, EmptyRoot
  <2>6. Memory(heap, Refs(held, list), HeldRefs(held), A, x)
    BY <1>2, <2>5
  <2>7. Ids \ Live(heap) # {}
    BY <1>3, LiveCount, RoomFree
  <2> DEFINE c == S(kind, ok)
  <2>8. c = SetContainer(heap, list, 1, kind, ok)
    OBVIOUS
  <2> HIDE DEF c, list
  <2>9. CASE ~ok
    <3>1. SetContainer(heap, list, 1, kind, ok).h = heap /\ SetContainer(heap, list, 1, kind, ok).nodes = list
      <4>1. Fails(ok)
        BY <1>3, <2>9 DEF Fails
      <4> QED BY <4>1, SetFails
    <3>2. c.h = heap /\ c.nodes = list
      BY <2>8, <3>1
    <3>3. State(heap, list, 1, held, lossy')
      BY <1>2, <2>2, <2>4, <2>6, StateOf
    <3> QED BY <1>3, <2>1, <3>2, <3>3 DEF IInv, c
  <2>10. CASE ok
    <3> DEFINE y == x /\ list[1] = Zeroed
    <3>1. HeldRefs(held) \in Tallies /\ NotMore(HeldRefs(held), HeldRefs(held))
      BY <2>3, HeldType DEF NotMore, Tallies
    <3>2. Refs(held, list) = Given(HeldRefs(held), list[1])
      BY <2>4 DEF Refs
    <3>3. Memory(heap, HeldRefs(held), HeldRefs(held), A, y)
      <4>1. CASE list[1] = Zeroed
        <5>1. CellOf(list[1]) = 0
          BY <4>1 DEF CellOf, Zeroed, Value, Counted
        <5>2. Refs(held, list) = HeldRefs(held)
          BY <3>1, <3>2, <5>1, GivenNothing
        <5>3. y => x
          OBVIOUS
        <5> HIDE DEF y
        <5> QED BY <2>6, <5>2, <5>3, MemoryWeak
      <4>2. CASE list[1] # Zeroed
        <5>1. Memory(heap, HeldRefs(held), HeldRefs(held), A, FALSE)
          BY <2>6, <3>1, <3>2, MemoryLose
        <5>2. y => FALSE
          BY <4>2
        <5> HIDE DEF y
        <5> QED BY <5>1, <5>2 DEF Memory
      <4> QED BY <4>1, <4>2
    <3>4. ~lossy' => y
      BY <1>2, <2>2
    <3>5. c = SetContainer(heap, list, 1, kind, TRUE)
      BY <1>3, <2>8, <2>10
    <3> HIDE DEF y
    <3>6. PICK B : IsLevel(heap, list, 1, held, HeldRefs(held), y, 1, c.h, c.nodes, B)
      BY <2>4, <2>7, <3>1, <3>3, <3>5, LevelMade
    <3>7. /\ Places(c.h, c.nodes, 1, held, B) /\ Len(c.nodes) = Len(list)
          /\ Memory(c.h, Given(HeldRefs(held), c.nodes[1]), HeldRefs(held), B, y)
      BY <3>6 DEF IsLevel
    <3>8. c.nodes # <<>>
      <4>1. Len(list) # 0
        BY <2>4
      <4> QED BY <3>7, <4>1
    <3>9. Memory(c.h, Refs(held, c.nodes), HeldRefs(held), B, y)
      BY <3>7, <3>8 DEF Refs
    <3>10. State(c.h, c.nodes, 1, held, lossy')
      BY <3>4, <3>7, <3>9, StateOf
    <3> QED BY <1>3, <2>1, <3>10 DEF IInv, c
  <2> QED BY <1>3, <2>9, <2>10
<1> QED BY <1>4, <1>5, <1>6

LEMMA SomeNode ==
    ASSUME NEW ns, NEW k, ns \in Seq(NodeSet), k \in DOMAIN ns
    PROVE  1 \in DOMAIN ns /\ ns # <<>>
<1>1. k \in 1..Len(ns) /\ Len(ns) \in Nat
  OBVIOUS
<1> QED BY <1>1

\* jso_builder_move_next: the level below, with the root as it was.
LEMMA NextLevel ==
    ASSUME NEW A, NEW ok, Places(heap, nodes, current, held, A), current # 0, MoveNext(ok).rc
    PROVE  /\ Places(heap, MoveNext(ok).nodes, current + 1, held, A)
           /\ current + 1 \in DOMAIN MoveNext(ok).nodes /\ current + 1 # 1
           /\ Refs(held, MoveNext(ok).nodes) = Refs(held, nodes)
<1>1. nodes \in Seq(NodeSet) /\ Len(nodes) \in Nat /\ current \in 1..Len(nodes)
  BY DEF Places
<1>2. CASE current < Len(nodes)
  <2>1. MoveNext(ok).nodes = nodes
    BY <1>2 DEF MoveNext
  <2>2. current + 1 \in 0..Len(nodes) /\ current + 1 \in DOMAIN nodes /\ current + 1 # 1
    BY <1>1, <1>2
  <2> QED BY <2>1, <2>2, PlacesAt
<1>3. CASE ~(current < Len(nodes))
  <2> DEFINE list == MoveNext(ok).nodes
  <2>1. IsMore(nodes, list)
    <3>1. CASE ok
      BY <1>3, <3>1 DEF MoveNext, IsMore
    <3>2. CASE ~ok
      BY <1>3, <3>2 DEF MoveNext
    <3> QED BY <3>1, <3>2
  <2> HIDE DEF list
  <2>2. nodes # <<>>
    BY <1>1
  <2>3. /\ Places(heap, list, current, held, A) /\ Len(list) = Len(nodes) + 1
        /\ list \in Seq(NodeSet) /\ list[1] = nodes[1]
    BY <2>1, <2>2, PlacesMore
  <2>4. current + 1 \in 0..Len(list) /\ current + 1 \in DOMAIN list /\ current + 1 # 1
    BY <1>1, <1>3, <2>3
  <2>5. Places(heap, list, current + 1, held, A)
    BY <2>3, <2>4, PlacesAt
  <2>6. list # <<>>
    BY <2>3, <2>4, SomeNode
  <2>7. Refs(held, list) = Refs(held, nodes)
    BY <2>2, <2>3, <2>6, SameRoot
  <2> QED BY <2>4, <2>5, <2>7 DEF list
<1> QED BY <1>2, <1>3

LEMMA LevelRefs ==
    ASSUME NEW h, NEW ns, NEW cur, NEW s, NEW e, NEW x, NEW k, NEW g, NEW list, NEW B,
           IsLevel(h, ns, cur, s, e, x, k, g, list, B), ns \in Seq(NodeSet), k \in DOMAIN ns, k # 1
    PROVE  Refs(s, list) = Refs(s, ns)
<1>1. list \in Seq(NodeSet) /\ Len(list) = Len(ns) /\ Elsewhere(ns, k, list)
  BY DEF IsLevel, Places
<1>2. 1 \in DOMAIN ns /\ ns # <<>>
  BY SomeNode
<1>3. k \in DOMAIN list
  BY <1>1
<1>4. list # <<>>
  BY <1>1, <1>3, SomeNode
<1>5. list[1] = ns[1]
  BY <1>1, <1>2 DEF Elsewhere
<1> QED BY <1>2, <1>4, <1>5, SameRoot

LEMMA ArrayAddStartStep == ASSUME IInv, ArrayAddStart PROVE IInv'
<1> DEFINE c == TheCell
           k == current + 1
           M(nodeOk) == MoveNext(nodeOk)
           S(nodeOk, kind, setOk) == SetContainer(heap, M(nodeOk).nodes, k, kind, setOk)
           Z(nodeOk, kind, setOk, ok) ==
             ArrayAppend(S(nodeOk, kind, setOk).h, c, S(nodeOk, kind, setOk).nodes[k], ok)
<1>1. PICK kind \in Kinds, nodeOk \in Outcomes, setOk \in Outcomes, ok \in Outcomes :
         IF ~IsOpen("array") THEN Refused
         ELSE IF ~M(nodeOk).rc THEN Noted(TRUE, FALSE) /\ UNCHANGED <<heap, nodes, current>>
         ELSE /\ current' = k /\ nodes' = S(nodeOk, kind, setOk).nodes
              /\ heap' = IF S(nodeOk, kind, setOk).rc THEN Z(nodeOk, kind, setOk, ok).h
                         ELSE S(nodeOk, kind, setOk).h
              /\ Noted(~S(nodeOk, kind, setOk).rc \/ ~Z(nodeOk, kind, setOk, ok).rc, FALSE)
  BY DEF ArrayAddStart
<1>2. PICK A, x : /\ Places(heap, nodes, current, held, A)
                  /\ Memory(heap, Refs(held, nodes), HeldRefs(held), A, x) /\ (~lossy => x)
  BY StateHas DEF IInv
<1>3. held' = held /\ ok \in BOOLEAN /\ setOk \in BOOLEAN /\ Room(1)
  BY OutcomesType DEF ArrayAddStart
<1>4. CASE ~IsOpen("array")
  BY <1>1, <1>4, Stutter DEF Refused
<1>5. CASE IsOpen("array") /\ ~M(nodeOk).rc
  <2>1. UNCHANGED <<heap, nodes, current>> /\ (~lossy' => ~lossy)
    BY <1>1, <1>5, NotedLoss
  <2>2. State(heap, nodes, current, held, lossy')
    BY <1>2, <2>1, StateOf
  <2> QED BY <1>3, <2>1, <2>2 DEF IInv
<1>6. CASE IsOpen("array") /\ M(nodeOk).rc
  <2> DEFINE list == M(nodeOk).nodes
             d == S(nodeOk, kind, setOk)
             a == Z(nodeOk, kind, setOk, ok)
  <2>1. /\ current' = k /\ nodes' = d.nodes /\ heap' = IF d.rc THEN a.h ELSE d.h
        /\ Noted(~d.rc \/ ~a.rc, FALSE)
    BY <1>1, <1>6
  <2>2. ~lossy' => ~lossy /\ d.rc /\ a.rc
    BY <2>1, NotedLoss
  <2>3. HasRoom /\ "array" \in Kinds
    BY <1>6 DEF ArrayAddStart, Kinds
  <2>4. c \in A /\ c \in Live(heap) /\ Len(heap.cells[c].items) < MaxItems /\ current # 0
    BY <1>2, <1>6, <2>3, OpenCell DEF IsOpen
  <2>5. /\ Places(heap, list, k, held, A) /\ k \in DOMAIN list /\ k # 1
        /\ Refs(held, list) = Refs(held, nodes)
    BY <1>2, <1>6, <2>4, NextLevel
  <2>6. d = SetContainer(heap, list, k, kind, setOk) /\ a = ArrayAppend(d.h, c, d.nodes[k], ok)
    OBVIOUS
  <2>7. Ids \ Live(heap) # {}
    BY <1>3, LiveCount, RoomFree
  <2> HIDE DEF c, k, list, d, a
  <2>8. Memory(heap, Refs(held, list), HeldRefs(held), A, x)
    BY <1>2, <2>5
  <2>9. held \in Seq(HeldSet) /\ list \in Seq(NodeSet)
    BY <2>5 DEF Places
  <2>10. Refs(held, list) \in Tallies /\ NotMore(HeldRefs(held), Refs(held, list))
    BY <2>9, RefsType
  <2>11. CASE ~setOk
    <3>1. Fails(setOk)
      BY <1>3, <2>11 DEF Fails
    <3>2. SetContainer(heap, list, k, kind, setOk).h = heap /\ SetContainer(heap, list, k, kind, setOk).nodes = list
      BY <3>1, SetFails
    <3>3. ~SetContainer(heap, list, k, kind, setOk).rc
      BY <3>1, SetRefused
    <3>4. heap' = heap /\ nodes' = list
      BY <2>1, <2>6, <3>2, <3>3
    <3>5. State(heap, list, k, held, lossy')
      BY <1>2, <2>2, <2>5, <2>8, StateOf
    <3> QED BY <1>3, <2>1, <3>4, <3>5 DEF IInv
  <2>12. CASE setOk
    <3>1. d = SetContainer(heap, list, k, kind, TRUE)
      BY <1>3, <2>6, <2>12
    <3>2. PICK B : /\ A \subseteq B /\ d.rc = TRUE
                   /\ IsLevel(heap, list, k, held, Refs(held, list), x, k, d.h, d.nodes, B)
      BY <2>5, <2>7, <2>8, <2>10, <3>1, LevelMade
    <3>3. Refs(held, d.nodes) = Refs(held, list)
      BY <2>5, <2>9, <3>2, LevelRefs
    <3>4. /\ Places(d.h, d.nodes, k, held, B) /\ d.nodes[k] \in ValueSet
          /\ Memory(d.h, Given(Refs(held, d.nodes), d.nodes[k]), HeldRefs(held), B, x)
          /\ d.h.cells[c] = heap.cells[c]
      BY <2>4, <3>2, <3>3 DEF IsLevel, Untouched
    <3>5. c \in B /\ c \in Live(d.h) /\ Len(d.h.cells[c].items) < MaxItems
      BY <2>4, <3>2, <3>4, GuardedCell
    <3>6. ArrayAppend(d.h, c, d.nodes[k], ok).rc = ok
      BY <1>3, <3>5, AppendReturns
    <3>7. ~lossy' => x /\ ok
      BY <1>2, <2>2, <2>6, <3>6
    <3>8. heap' = ArrayAppend(d.h, c, d.nodes[k], ok).h
      BY <2>1, <2>6, <3>2
    <3>9. State(heap', d.nodes, k, held, lossy')
      BY <1>3, <3>4, <3>5, <3>7, <3>8, AfterAppend
    <3> QED BY <1>3, <2>1, <3>9 DEF IInv
  <2> QED BY <1>3, <2>11, <2>12
<1> QED BY <1>4, <1>5, <1>6

LEMMA ObjectAddStartStep == ASSUME IInv, ObjectAddStart PROVE IInv'
<1> DEFINE c == TheCell
           k == current + 1
           M(nodeOk) == MoveNext(nodeOk)
           S(nodeOk, kind, setOk) == SetContainer(heap, M(nodeOk).nodes, k, kind, setOk)
           K(nodeOk, kind, setOk, text) == Allocate(S(nodeOk, kind, setOk).h, "string", text, TRUE)
           Z(nodeOk, kind, setOk, text, ok) ==
             ObjectAdd(K(nodeOk, kind, setOk, text).h, c, K(nodeOk, kind, setOk, text).cell,
                       S(nodeOk, kind, setOk).nodes[k], ok)
<1>1. PICK text \in Texts, kind \in Kinds, nodeOk \in Outcomes, setOk \in Outcomes, ok \in Outcomes :
         IF ~IsOpen("object") THEN Refused
         ELSE IF ~M(nodeOk).rc THEN Noted(TRUE, FALSE) /\ UNCHANGED <<heap, nodes, current>>
         ELSE /\ current' = k /\ nodes' = S(nodeOk, kind, setOk).nodes
              /\ heap' = IF S(nodeOk, kind, setOk).rc THEN Z(nodeOk, kind, setOk, text, ok).h
                         ELSE S(nodeOk, kind, setOk).h
              /\ Noted(~S(nodeOk, kind, setOk).rc \/ ~Z(nodeOk, kind, setOk, text, ok).rc,
                       Replaces(K(nodeOk, kind, setOk, text).h, K(nodeOk, kind, setOk, text).cell))
  BY DEF ObjectAddStart
<1>2. PICK A, x : /\ Places(heap, nodes, current, held, A)
                  /\ Memory(heap, Refs(held, nodes), HeldRefs(held), A, x) /\ (~lossy => x)
  BY StateHas DEF IInv
<1>3. held' = held /\ ok \in BOOLEAN /\ setOk \in BOOLEAN /\ Room(2)
  BY OutcomesType DEF ObjectAddStart
<1>4. CASE ~IsOpen("object")
  BY <1>1, <1>4, Stutter DEF Refused
<1>5. CASE IsOpen("object") /\ ~M(nodeOk).rc
  <2>1. UNCHANGED <<heap, nodes, current>> /\ (~lossy' => ~lossy)
    BY <1>1, <1>5, NotedLoss
  <2>2. State(heap, nodes, current, held, lossy')
    BY <1>2, <2>1, StateOf
  <2> QED BY <1>3, <2>1, <2>2 DEF IInv
<1>6. CASE IsOpen("object") /\ M(nodeOk).rc
  <2> DEFINE list == M(nodeOk).nodes
             d == S(nodeOk, kind, setOk)
             s == K(nodeOk, kind, setOk, text).h
             key == K(nodeOk, kind, setOk, text).cell
             v == d.nodes[k]
             a == Z(nodeOk, kind, setOk, text, ok)
  <2>1. /\ current' = k /\ nodes' = d.nodes /\ heap' = IF d.rc THEN a.h ELSE d.h
        /\ Noted(~d.rc \/ ~a.rc, Replaces(s, key))
    BY <1>1, <1>6
  <2>2. ~lossy' => ~lossy /\ d.rc /\ a.rc /\ ~Replaces(s, key)
    BY <2>1, NotedLoss
  <2>3. HasRoom /\ "object" \in Kinds
    BY <1>6 DEF ObjectAddStart, Kinds
  <2>4. c \in A /\ c \in Live(heap) /\ Len(heap.cells[c].items) < MaxItems /\ current # 0
    BY <1>2, <1>6, <2>3, OpenCell DEF IsOpen
  <2>5. /\ Places(heap, list, k, held, A) /\ k \in DOMAIN list /\ k # 1
        /\ Refs(held, list) = Refs(held, nodes)
    BY <1>2, <1>6, <2>4, NextLevel
  <2>6. /\ d = SetContainer(heap, list, k, kind, setOk) /\ a = ObjectAdd(s, c, key, v, ok)
        /\ s = Allocate(d.h, "string", text, TRUE).h /\ key = Allocate(d.h, "string", text, TRUE).cell
    OBVIOUS
  <2>7. Replaces(s, key) <=> Place(s, c, s.cells[key].text) # 0
    BY DEF Replaces
  <2>8. Ids \ Live(heap) # {} /\ Cardinality(Live(heap)) + 2 <= MaxCells /\ Cardinality(Live(heap)) \in Nat
    BY <1>3, LiveCount, RoomFree
  <2>9. v = d.nodes[k]
    OBVIOUS
  <2> HIDE DEF c, k, list, d, s, key, v, a
  <2>10. Memory(heap, Refs(held, list), HeldRefs(held), A, x)
    BY <1>2, <2>5
  <2>11. held \in Seq(HeldSet) /\ list \in Seq(NodeSet)
    BY <2>5 DEF Places
  <2>12. Refs(held, list) \in Tallies /\ NotMore(HeldRefs(held), Refs(held, list)) /\ HeldRefs(held) \in Tallies
    BY <2>11, RefsType
  <2>13. CASE ~setOk
    <3>1. Fails(setOk)
      BY <1>3, <2>13 DEF Fails
    <3>2. SetContainer(heap, list, k, kind, setOk).h = heap /\ SetContainer(heap, list, k, kind, setOk).nodes = list
      BY <3>1, SetFails
    <3>3. ~SetContainer(heap, list, k, kind, setOk).rc
      BY <3>1, SetRefused
    <3>4. heap' = heap /\ nodes' = list
      BY <2>1, <2>6, <3>2, <3>3
    <3>5. State(heap, list, k, held, lossy')
      BY <1>2, <2>2, <2>5, <2>10, StateOf
    <3> QED BY <1>3, <2>1, <3>4, <3>5 DEF IInv
  <2>14. CASE setOk
    <3>1. d = SetContainer(heap, list, k, kind, TRUE)
      BY <1>3, <2>6, <2>14
    <3>2. PICK B : /\ A \subseteq B /\ d.rc = TRUE
                   /\ IsLevel(heap, list, k, held, Refs(held, list), x, k, d.h, d.nodes, B)
      BY <2>5, <2>8, <2>10, <2>12, <3>1, LevelMade
    <3>3. Refs(held, d.nodes) = Refs(held, list)
      BY <2>5, <2>11, <3>2, LevelRefs
    <3> DEFINE e == Refs(held, d.nodes)
    <3>4. /\ Places(d.h, d.nodes, k, held, B) /\ v \in ValueSet
          /\ Memory(d.h, Given(e, v), HeldRefs(held), B, x)
          /\ d.h.cells[c] = heap.cells[c] /\ Cardinality(Live(d.h)) = Cardinality(Live(heap)) + 1
      BY <2>4, <2>9, <3>2, <3>3 DEF IsLevel, Untouched
    <3>5. c \in B /\ c \in Live(d.h) /\ Len(d.h.cells[c].items) < MaxItems
      BY <2>4, <3>2, <3>4, GuardedCell
    <3>6. Ids \ Live(d.h) # {}
      <4>1. Cardinality(Live(d.h)) + 1 <= MaxCells
        BY <2>8, <3>4, Bounds
      <4> QED BY <4>1, FreeCell
    <3>7. IsMade(d.h, Given(e, v), HeldRefs(held), B, x, s, key)
      BY <2>6, <3>4, <3>6, MakeString
    <3>8. e \in Tallies /\ NotMore(HeldRefs(held), Given(e, v))
      BY <2>12, <3>3, GivenMore
    <3>9. Places(s, d.nodes, k, held, B)
      BY <3>4, <3>7, <3>8, MadePlaces
    <3>10. /\ Memory(s, Given(Given(e, v), Key(key)), HeldRefs(held), B, x)
           /\ key \in Ids /\ KindOf(s, key) = "string" /\ s.cells[c] = d.h.cells[c]
      BY <3>5, <3>7 DEF IsMade, Untouched
    <3>11. Given(Given(e, v), Key(key)) = Given(Given(e, Key(key)), v)
      BY <3>8, GivenSwap
    <3>12. Memory(s, Given(Given(e, Key(key)), v), HeldRefs(held), B, x)
      BY <3>10, <3>11
    <3>13. c \in Live(s) /\ Len(s.cells[c].items) < MaxItems
      BY <3>5, <3>10, GuardedCell
    <3>14. ObjectAdd(s, c, key, v, ok).rc = ok
      BY <1>3, <3>13, AddReturns
    <3>15. ~lossy' => x /\ ok /\ Place(s, c, s.cells[key].text) = 0
      BY <1>2, <2>2, <2>6, <2>7, <3>14
    <3>16. heap' = ObjectAdd(s, c, key, v, ok).h
      BY <2>1, <2>6, <3>2
    <3>17. State(heap', d.nodes, k, held, lossy')
      BY <1>3, <3>4, <3>5, <3>9, <3>10, <3>12, <3>13, <3>15, <3>16, AfterAdd
    <3> QED BY <1>3, <2>1, <3>17 DEF IInv
  <2> QED BY <1>3, <2>13, <2>14
<1> QED BY <1>4, <1>5, <1>6

LEMMA ObjectAddStartNoKeyStep == ASSUME IInv, ObjectAddStartNoKey PROVE IInv'
<1> DEFINE k == current + 1
           list == MoveNext(TRUE).nodes
           S(kind) == SetContainer(heap, list, k, kind, TRUE)
<1>1. PICK kind \in Kinds : heap' = S(kind).h /\ nodes' = S(kind).nodes
  BY DEF ObjectAddStartNoKey
<1>2. /\ current' = k /\ held' = held /\ lossy' /\ current # 0 /\ Ids \ Live(heap) # {}
  BY WhenFails DEF ObjectAddStartNoKey, IsOpen
<1>3. PICK A, x : /\ Places(heap, nodes, current, held, A)
                  /\ Memory(heap, Refs(held, nodes), HeldRefs(held), A, x) /\ (~lossy => x)
  BY StateHas DEF IInv
<1>4. MoveNext(TRUE).rc
  BY DEF MoveNext
<1>5. /\ Places(heap, list, k, held, A) /\ k \in DOMAIN list /\ k # 1
      /\ Refs(held, list) = Refs(held, nodes)
  BY <1>2, <1>3, <1>4, NextLevel
<1> DEFINE d == S(kind)
<1>6. d = SetContainer(heap, list, k, kind, TRUE)
  OBVIOUS
<1>7. heap' = d.h /\ nodes' = d.nodes
  BY <1>1
<1> HIDE DEF k, list, S, d
<1>8. held \in Seq(HeldSet) /\ list \in Seq(NodeSet)
  BY <1>5 DEF Places
<1>9. Refs(held, list) \in Tallies /\ NotMore(HeldRefs(held), Refs(held, list))
  BY <1>8, RefsType
<1>10. Memory(heap, Refs(held, list), HeldRefs(held), A, x)
  BY <1>3, <1>5
<1>11. PICK B : IsLevel(heap, list, k, held, Refs(held, list), x, k, d.h, d.nodes, B)
  BY <1>2, <1>5, <1>6, <1>9, <1>10, LevelMade
<1>12. Refs(held, d.nodes) = Refs(held, list)
  BY <1>5, <1>8, <1>11, LevelRefs
<1>13. /\ Places(d.h, d.nodes, k, held, B)
       /\ Memory(d.h, Given(Refs(held, list), d.nodes[k]), HeldRefs(held), B, x)
  BY <1>11 DEF IsLevel
<1>14. Memory(d.h, Refs(held, d.nodes), HeldRefs(held), B, FALSE)
  BY <1>9, <1>12, <1>13, MemoryLose
<1>15. State(d.h, d.nodes, k, held, lossy')
  BY <1>2, <1>13, <1>14, StateLossy
<1> QED BY <1>2, <1>7, <1>15 DEF IInv

LEMMA EndStep == ASSUME IInv, End PROVE IInv'
<1>1. PICK kind \in Kinds : IF IsOpen(kind) THEN current' = current - 1 ELSE UNCHANGED current
  BY DEF End
<1>2. PICK A, x : /\ Places(heap, nodes, current, held, A)
                  /\ Memory(heap, Refs(held, nodes), HeldRefs(held), A, x) /\ (~lossy => x)
  BY StateHas DEF IInv
<1>3. current' \in 0..Len(nodes)
  <2>1. nodes \in Seq(NodeSet) /\ current \in 0..Len(nodes)
    BY <1>2 DEF Places
  <2>2. Len(nodes) \in Nat
    BY <2>1
  <2>3. CASE IsOpen(kind)
    BY <1>1, <2>1, <2>2, <2>3 DEF IsOpen
  <2>4. CASE ~IsOpen(kind)
    BY <1>1, <2>1, <2>4
  <2> QED BY <2>3, <2>4
<1>4. Places(heap, nodes, current', held, A)
  BY <1>2, <1>3, PlacesAt
<1>5. State(heap, nodes, current', held, lossy)
  BY <1>2, <1>4, StateOf
<1> QED BY <1>5 DEF End, IInv

\* No level.
LEMMA EmptyPlaces ==
    ASSUME NEW h, NEW s, NEW A, s \in Seq(HeldSet), Len(s) <= MaxHeld, StringsHeld(h, s)
    PROVE  Places(h, <<>>, 0, s, A) /\ Refs(s, <<>>) = HeldRefs(s)
<1>1. <<>> \in Seq(NodeSet) /\ 0 \in 0..Len(<<>>) /\ DOMAIN <<>> = {}
  OBVIOUS
<1>2. Covers(A, <<>>)
  BY <1>1 DEF Covers
<1>3. Refs(s, <<>>) = HeldRefs(s)
  BY DEF Refs
<1> QED BY <1>1, <1>2, <1>3 DEF Places

LEMMA HeldMore ==
    ASSUME NEW h, NEW s, NEW v, s \in Seq(HeldSet), v \in HeldSet, StringsHeld(h, s),
           v.t = "string" => KindOf(h, v.n) = "string"
    PROVE  StringsHeld(h, Append(s, v))
<1>1. ASSUME NEW i \in DOMAIN Append(s, v), Append(s, v)[i].t = "string"
      PROVE  KindOf(h, Append(s, v)[i].n) = "string"
  <2>1. CASE i \in DOMAIN s
    <3>1. Append(s, v)[i] = s[i]
      BY <2>1
    <3> QED BY <1>1, <2>1, <3>1 DEF StringsHeld
  <2>2. CASE i \notin DOMAIN s
    <3>1. Append(s, v)[i] = v
      BY <2>2
    <3> QED BY <1>1, <3>1
  <2> QED BY <2>1, <2>2
<1> QED BY <1>1 DEF StringsHeld

LEMMA RefsAppend ==
    ASSUME NEW s, NEW v, NEW ns, s \in Seq(HeldSet), v \in HeldSet
    PROVE  /\ HeldRefs(Append(s, v)) = Given(HeldRefs(s), v)
           /\ Refs(Append(s, v), ns) = Given(Refs(s, ns), v)
           /\ Append(s, v) \in Seq(HeldSet) /\ Len(Append(s, v)) = Len(s) + 1 /\ Len(s) \in Nat
<1> DEFINE t == Append(s, v)
<1>1. HeldRefs(t) = Given(HeldRefs(s), v) /\ t \in Seq(HeldSet) /\ Len(t) = Len(s) + 1 /\ Len(s) \in Nat
  BY HeldAppend
<1>2. HeldRefs(s) \in Tallies
  BY HeldType
<1> HIDE DEF t
<1>3. Refs(t, ns) = Given(Refs(s, ns), v)
  <2>1. CASE ns = <<>>
    BY <1>1, <2>1 DEF Refs
  <2>2. CASE ns # <<>>
    BY <1>1, <1>2, <2>2, GivenSwap DEF Refs
  <2> QED BY <2>1, <2>2
<1> QED BY <1>1, <1>3 DEF t

LEMMA RootNode ==
    ASSUME NEW A, Places(heap, nodes, current, held, A), nodes # <<>>
    PROVE  1 \in DOMAIN nodes
<1>1. nodes \in Seq(NodeSet)
  BY DEF Places
<1> QED BY <1>1

LEMMA RootHeld ==
    ASSUME NEW A, Places(heap, nodes, current, held, A), nodes # <<>>, nodes[1].t \in Counted
    PROVE  nodes[1] \in HeldSet /\ nodes[1].t \in Kinds /\ nodes[1].n \in A /\ nodes[1].t # "string"
<1>1. 1 \in DOMAIN nodes
  BY RootNode
<1>2. nodes[1] \in NodeSet /\ Covers(A, nodes)
  BY <1>1 DEF Places
<1>3. nodes[1] # Zeroed
  BY DEF Zeroed, Value, Counted
<1>4. nodes[1] \in [t : Kinds, n : Ids]
  BY <1>2, <1>3 DEF NodeSet
<1>5. nodes[1].t \in Kinds /\ nodes[1].n \in A
  BY <1>1, <1>2, <1>4 DEF Covers
<1> QED BY <1>4, <1>5, KindNames DEF HeldSet

LEMMA TakeAndClearStep == ASSUME IInv, TakeAndClear PROVE IInv'
<1>1. PICK A, x : /\ Places(heap, nodes, current, held, A)
                  /\ Memory(heap, Refs(held, nodes), HeldRefs(held), A, x) /\ (~lossy => x)
  BY StateHas DEF IInv
<1> DEFINE v == nodes[1]
<1>2. /\ nodes # <<>> /\ nodes' = <<>> /\ current' = 0 /\ heap' = heap /\ lossy' = lossy
      /\ Len(held) < MaxHeld /\ held' = IF v.t \in Counted THEN Append(held, v) ELSE held
  BY DEF TakeAndClear
<1>3. held \in Seq(HeldSet) /\ StringsHeld(heap, held) /\ Len(held) <= MaxHeld
  BY <1>1 DEF Places
<1>4. Refs(held, nodes) = Given(HeldRefs(held), v) /\ HeldRefs(held) \in Tallies
  BY <1>2, <1>3, RefsType DEF Refs
<1>5. CASE v.t \in Counted
  <2>1. v \in HeldSet /\ v.t # "string"
    BY <1>1, <1>2, <1>5, RootHeld
  <2> DEFINE s == Append(held, v)
  <2>2. /\ HeldRefs(s) = Given(HeldRefs(held), v) /\ s \in Seq(HeldSet)
        /\ Len(s) = Len(held) + 1 /\ Len(held) \in Nat
    BY <1>3, <2>1, RefsAppend
  <2>3. StringsHeld(heap, s)
    BY <1>3, <2>1, HeldMore
  <2>4. held' = s
    BY <1>2, <1>5
  <2> HIDE DEF s, v
  <2>5. Memory(heap, HeldRefs(s), HeldRefs(s), {}, x)
    BY <1>1, <1>4, <2>2, MemoryTake
  <2>6. Len(s) <= MaxHeld
    BY <1>2, <2>2, Bounds
  <2>7. Places(heap, <<>>, 0, s, {}) /\ Refs(s, <<>>) = HeldRefs(s)
    BY <2>2, <2>3, <2>6, EmptyPlaces
  <2>8. State(heap, <<>>, 0, s, lossy)
    BY <1>1, <2>5, <2>7, StateOf
  <2> QED BY <1>2, <2>4, <2>8 DEF IInv
<1>6. CASE v.t \notin Counted
  <2>1. CellOf(v) = 0
    BY <1>6 DEF CellOf
  <2>2. held' = held
    BY <1>2, <1>6
  <2> HIDE DEF v
  <2>3. Refs(held, nodes) = HeldRefs(held)
    BY <1>4, <2>1, GivenNothing
  <2>4. Memory(heap, HeldRefs(held), HeldRefs(held), {}, x)
    BY <1>1, <2>3, MemoryTake
  <2>5. Places(heap, <<>>, 0, held, {}) /\ Refs(held, <<>>) = HeldRefs(held)
    BY <1>3, EmptyPlaces
  <2>6. State(heap, <<>>, 0, held, lossy)
    BY <1>1, <2>4, <2>5, StateOf
  <2> QED BY <1>2, <2>2, <2>6 DEF IInv
<1> QED BY <1>5, <1>6

LEMMA ClearAllStep == ASSUME IInv, ClearAll PROVE IInv'
<1>1. PICK A, x : /\ Places(heap, nodes, current, held, A)
                  /\ Memory(heap, Refs(held, nodes), HeldRefs(held), A, x) /\ (~lossy => x)
  BY StateHas DEF IInv
<1> DEFINE v == nodes[1]
           g == FreeValue(heap, v)
           e == HeldRefs(held)
<1>2. nodes # <<>> /\ nodes' = <<>> /\ current' = 0 /\ heap' = g /\ lossy' = lossy /\ held' = held
  BY DEF ClearAll
<1>3. held \in Seq(HeldSet) /\ StringsHeld(heap, held) /\ Len(held) <= MaxHeld
  BY <1>1 DEF Places
<1>4. Refs(held, nodes) = Given(e, v) /\ e \in Tallies
  BY <1>2, <1>3, RefsType DEF Refs
<1>5. g = FreeValue(heap, v)
  OBVIOUS
<1>6. Places(heap, <<>>, 0, held, {}) /\ Refs(held, <<>>) = e
  BY <1>3, EmptyPlaces
<1>7. NotMore(e, e)
  BY <1>4 DEF NotMore, Tallies
<1>8. Memory(heap, Given(e, v), e, A, x)
  BY <1>1, <1>4
<1> HIDE DEF v, g
<1>9. Memory(heap, Given(e, v), Given(e, v), {}, x)
  BY <1>8, MemoryTake
<1>10. Memory(g, e, e, {}, x) /\ Kept(heap, g)
  BY <1>4, <1>5, <1>9, MemoryFree
<1>11. NotMore(e, Given(e, v))
  BY <1>4, <1>7, GivenMore
<1>12. Places(g, <<>>, 0, held, {})
  BY <1>6, <1>7, <1>8, <1>10, <1>11, PlacesKept
<1>13. State(g, <<>>, 0, held, lossy)
  BY <1>1, <1>6, <1>10, <1>12, StateOf
<1> QED BY <1>2, <1>13 DEF IInv

LEMMA NewStringStep == ASSUME IInv, NewString PROVE IInv'
<1>1. PICK A, x : /\ Places(heap, nodes, current, held, A)
                  /\ Memory(heap, Refs(held, nodes), HeldRefs(held), A, x) /\ (~lossy => x)
  BY StateHas DEF IInv
<1> DEFINE g(text) == Allocate(heap, "string", text, TRUE).h
           new(text) == Allocate(heap, "string", text, TRUE).cell
<1>2. PICK text \in Texts : heap' = g(text) /\ held' = Append(held, Key(new(text)))
  BY DEF NewString, Key
<1>3. Len(held) < MaxHeld /\ Room(1) /\ nodes' = nodes /\ current' = current /\ lossy' = lossy
  BY DEF NewString
<1>4. held \in Seq(HeldSet) /\ StringsHeld(heap, held) /\ Len(held) <= MaxHeld
  BY <1>1 DEF Places
<1>5. Ids \ Live(heap) # {}
  BY <1>3, LiveCount, RoomFree
<1> DEFINE s == g(text)
           k == new(text)
           t == Append(held, Key(k))
<1>6. IsMade(heap, Refs(held, nodes), HeldRefs(held), A, x, s, k)
  BY <1>1, <1>5, MakeString
<1>7. heap' = s /\ held' = t
  BY <1>2
<1> HIDE DEF g, new, s, k
<1>8. Refs(held, nodes) \in Tallies /\ NotMore(HeldRefs(held), Refs(held, nodes))
  BY <1>4, RefsType
<1>9. Places(s, nodes, current, held, A)
  BY <1>1, <1>6, <1>8, MadePlaces
<1>10. /\ Memory(s, Given(Refs(held, nodes), Key(k)), Given(HeldRefs(held), Key(k)), A, x)
       /\ Key(k) \in HeldSet /\ KindOf(s, k) = "string"
  BY <1>6 DEF IsMade
<1>11. /\ HeldRefs(t) = Given(HeldRefs(held), Key(k)) /\ Refs(t, nodes) = Given(Refs(held, nodes), Key(k))
       /\ t \in Seq(HeldSet) /\ Len(t) = Len(held) + 1 /\ Len(held) \in Nat
  BY <1>4, <1>10, RefsAppend
<1>12. StringsHeld(s, held) /\ Key(k).n = k
  BY <1>9 DEF Places, Key, Value
<1>13. StringsHeld(s, t)
  BY <1>4, <1>10, <1>12, HeldMore
<1> HIDE DEF t
<1>14. Len(t) <= MaxHeld
  BY <1>3, <1>11, Bounds
<1>15. Places(s, nodes, current, t, A)
  BY <1>9, <1>11, <1>13, <1>14 DEF Places
<1>16. Memory(s, Refs(t, nodes), HeldRefs(t), A, x)
  BY <1>10, <1>11
<1>17. State(s, nodes, current, t, lossy)
  BY <1>1, <1>15, <1>16, StateOf
<1> QED BY <1>3, <1>7, <1>17 DEF IInv

LEMMA CopyRootStep == ASSUME MaxHeld < RefWidth, IInv, CopyRoot PROVE IInv'
<1>1. PICK A, x : /\ Places(heap, nodes, current, held, A)
                  /\ Memory(heap, Refs(held, nodes), HeldRefs(held), A, x) /\ (~lossy => x)
  BY StateHas DEF IInv
<1> DEFINE v == nodes[1]
           g == CopyValue(heap, v)
           t == Append(held, v)
<1>2. /\ nodes # <<>> /\ v.t \in Counted /\ Len(held) < MaxHeld /\ heap' = g /\ held' = t
      /\ nodes' = nodes /\ current' = current /\ lossy' = lossy
  BY DEF CopyRoot
<1>3. held \in Seq(HeldSet) /\ StringsHeld(heap, held) /\ Len(held) <= MaxHeld
  BY <1>1 DEF Places
<1>4. v \in HeldSet /\ v.t \in Kinds /\ v.n \in A /\ v.t # "string"
  BY <1>1, <1>2, RootHeld
<1>5. v.n \in Ids
  BY <1>4 DEF HeldSet
<1>6. HeldRefs(held)[v.n] + 1 < RefWidth
  <2>1. HeldRefs(held)[v.n] \in Nat /\ HeldRefs(held)[v.n] <= Len(held) /\ Len(held) \in Nat
    BY <1>3, <1>5, HeldType DEF Tallies
  <2> QED BY <1>2, <2>1, Bounds
<1>7. g = CopyValue(heap, v)
  OBVIOUS
<1> HIDE DEF v, g
<1>8. Memory(g, Given(Refs(held, nodes), v), Given(HeldRefs(held), v), A, x) /\ Kept(heap, g)
  BY <1>1, <1>2, <1>4, <1>6, <1>7, MemoryCopy
<1>9. /\ HeldRefs(t) = Given(HeldRefs(held), v) /\ Refs(t, nodes) = Given(Refs(held, nodes), v)
      /\ t \in Seq(HeldSet) /\ Len(t) = Len(held) + 1 /\ Len(held) \in Nat
  BY <1>3, <1>4, RefsAppend
<1>10. /\ Refs(held, nodes) \in Tallies /\ HeldRefs(held) \in Tallies
       /\ NotMore(HeldRefs(held), Refs(held, nodes))
  BY <1>3, RefsType
<1>11. NotMore(HeldRefs(held), Given(Refs(held, nodes), v))
  BY <1>10, GivenMore
<1>12. Places(g, nodes, current, held, A)
  BY <1>1, <1>8, <1>10, <1>11, PlacesKept
<1>13. StringsHeld(g, held)
  BY <1>12 DEF Places
<1>14. StringsHeld(g, t)
  BY <1>3, <1>4, <1>13, HeldMore
<1> HIDE DEF t
<1>15. Len(t) <= MaxHeld
  BY <1>2, <1>9, Bounds
<1>16. Places(g, nodes, current, t, A)
  BY <1>9, <1>12, <1>14, <1>15 DEF Places
<1>17. State(g, nodes, current, t, lossy)
  BY <1>1, <1>8, <1>9, <1>16, StateOf
<1> QED BY <1>2, <1>17 DEF IInv

LEMMA FreeHeldStep == ASSUME IInv, FreeHeld PROVE IInv'
<1>1. PICK A, x : /\ Places(heap, nodes, current, held, A)
                  /\ Memory(heap, Refs(held, nodes), HeldRefs(held), A, x) /\ (~lossy => x)
  BY StateHas DEF IInv
<1>2. PICK i \in DOMAIN held : heap' = FreeValue(heap, held[i]) /\ held' = Without(held, i)
  BY DEF FreeHeld
<1>3. nodes' = nodes /\ current' = current /\ lossy' = lossy
  BY DEF FreeHeld
<1> DEFINE v == held[i]
           t == Without(held, i)
           g == FreeValue(heap, v)
<1>4. heap' = g /\ held' = t /\ g = FreeValue(heap, v)
  BY <1>2
<1>5. /\ Places(heap, nodes, current, t, A)
      /\ Memory(heap, Given(Refs(t, nodes), v), Given(HeldRefs(t), v), A, x)
  BY <1>1, GiveHeld
<1> HIDE DEF v, t, g
<1>6. t \in Seq(HeldSet)
  BY <1>5 DEF Places
<1>7. Refs(t, nodes) \in Tallies /\ HeldRefs(t) \in Tallies /\ NotMore(HeldRefs(t), Refs(t, nodes))
  BY <1>6, RefsType
<1>8. NotMore(HeldRefs(t), Given(Refs(t, nodes), v))
  BY <1>7, GivenMore
<1>9. Memory(g, Refs(t, nodes), HeldRefs(t), A, x) /\ Kept(heap, g)
  BY <1>4, <1>5, <1>7, MemoryFree
<1>10. Places(g, nodes, current, t, A)
  BY <1>5, <1>7, <1>8, <1>9, PlacesKept
<1>11. State(g, nodes, current, t, lossy)
  BY <1>1, <1>9, <1>10, StateOf
<1> QED BY <1>3, <1>4, <1>11 DEF IInv
-----------------------------------------------------------------------------
(* The theorems. *)

LEMMA EmptyMemory ==
    ASSUME NEW x
    PROVE  Memory(EmptyHeap, HeldRefs(<<>>), HeldRefs(<<>>), {}, x)
<1> DEFINE h == EmptyHeap
           e == HeldRefs(<<>>)
<1>1. \A id \in Ids : h.cells[id] = NoCell
  BY DEF EmptyHeap, Ids
<1>2. h.bad = FALSE
  BY DEF EmptyHeap
<1>3. <<>> \in Seq(HeldSet) /\ Len(<<>>) = 0
  OBVIOUS
<1>4. e \in Tallies
  BY <1>3, HeldType
<1>5. ASSUME NEW id \in Ids PROVE e[id] = 0
  <2>1. At(<<>>, id) = {}
    BY DEF At
  <2> QED BY <2>1, FS_EmptySet DEF HeldRefs
<1>6. h \in HeapSet
  <2>1. NoCell \in CellSet
    BY DEF NoCell, Cell, CellSet
  <2> QED BY <2>1 DEF EmptyHeap, HeapSet, Ids
<1> HIDE DEF h, e
<1>7. ASSUME NEW id \in Ids
      PROVE  /\ KindOf(h, id) = "free" /\ h.cells[id].items = <<>> /\ h.cells[id].refcount = 0
             /\ h.cells[id] = NoCell
  BY <1>1, NoCellEmpty DEF KindOf
<1>8. HeapInv(h)
  <2>1. ASSUME NEW id \in Ids PROVE Len(h.cells[id].items) <= MaxItems
    BY <1>3, <1>7, Bounds
  <2>2. ASSUME NEW id \in Ids, NEW i \in DOMAIN h.cells[id].items PROVE FALSE
    BY <1>7
  <2> QED BY <1>6, <1>7, <2>1, <2>2 DEF HeapInv
<1>9. Live(h) = {}
  BY <1>7, LiveIds
<1>10. ASSUME NEW id \in Ids PROVE Uses(h, Live(h), id) + e[id] = 0 /\ Holders(h, id) = 0
  <2>1. Uses(h, Live(h), id) = 0
    BY <1>9, UsesNone
  <2> QED BY <1>5, <1>9, <2>1 DEF Holders
<1>11. Fits(h, e) /\ Exact(h, e)
  BY <1>10 DEF Fits, Exact
<1>12. Guards(h, {}, e)
  BY DEF Guards
<1>13. \A id \in Ids : h.cells[id].refcount <= e[id]
  BY <1>5, <1>7
<1> QED BY <1>2, <1>4, <1>8, <1>11, <1>12, <1>13 DEF Memory, h, e

LEMMA InitInv == Init => IInv
<1> SUFFICES ASSUME Init PROVE IInv
  OBVIOUS
<1>1. <<>> \in Seq(HeldSet) /\ Len(<<>>) = 0 /\ DOMAIN <<>> = {}
  OBVIOUS
<1>2. StringsHeld(EmptyHeap, <<>>)
  BY <1>1 DEF StringsHeld
<1>3. Len(<<>>) <= MaxHeld
  BY <1>1, Bounds
<1>4. Places(EmptyHeap, <<>>, 0, <<>>, {}) /\ Refs(<<>>, <<>>) = HeldRefs(<<>>)
  BY <1>1, <1>2, <1>3, EmptyPlaces
<1>5. \A x : Memory(EmptyHeap, HeldRefs(<<>>), HeldRefs(<<>>), {}, x)
  BY EmptyMemory
<1> DEFINE lo == FALSE
<1>6. Memory(EmptyHeap, Refs(<<>>, <<>>), HeldRefs(<<>>), {}, TRUE)
  BY <1>4, <1>5
<1>7. ~lo => TRUE
  OBVIOUS
<1> HIDE DEF lo
<1>8. State(EmptyHeap, <<>>, 0, <<>>, lo)
  BY <1>4, <1>6, StateOf
<1> QED BY <1>8 DEF Init, IInv, lo

\* The invariant is inductive: every call of the builder and of the client keeps the
\* references counted and the levels safe, whichever allocation fails. The client owns fewer
\* references than jso_uint16 can count.
THEOREM Inductive == ASSUME MaxHeld < RefWidth PROVE IInv /\ [Next]_vars => IInv'
<1> SUFFICES ASSUME IInv, [Next]_vars PROVE IInv'
  OBVIOUS
<1>1. CASE UNCHANGED vars
  BY <1>1, Stutter
<1>2. CASE Start
  BY <1>2, StartStep
<1>3. CASE ArrayAddScalar
  BY <1>3, ArrayAddScalarStep
<1>4. CASE ArrayAddCstr
  BY <1>4, ArrayAddCstrStep
<1>5. CASE ArrayAddString
  BY <1>5, ArrayAddStringStep
<1>6. CASE ObjectAddScalar
  BY <1>6, ObjectAddScalarStep
<1>7. CASE ObjectAddCstr
  BY <1>7, ObjectAddCstrStep
<1>8. CASE ObjectAddString
  BY <1>8, ObjectAddStringStep
<1>9. CASE ArrayAddStart
  BY <1>9, ArrayAddStartStep
<1>10. CASE ObjectAddStart
  BY <1>10, ObjectAddStartStep
<1>11. CASE End
  BY <1>11, EndStep
<1>12. CASE TakeAndClear
  BY <1>12, TakeAndClearStep
<1>13. CASE ClearAll
  BY <1>13, ClearAllStep
<1>14. CASE NewString
  BY <1>14, NewStringStep
<1>15. CASE CopyRoot
  BY <1>15, CopyRootStep
<1>16. CASE FreeHeld
  BY <1>16, FreeHeldStep
<1>17. CASE ArrayAddNoString
  BY <1>17, ArrayAddNoStringStep
<1>18. CASE ObjectAddNoString
  BY <1>18, ObjectAddNoStringStep
<1>19. CASE ObjectAddNoKey
  BY <1>19, ObjectAddNoKeyStep
<1>20. CASE ObjectAddStartNoKey
  BY <1>20, ObjectAddStartNoKeyStep
<1> QED BY <1>1, <1>2, <1>3, <1>4, <1>5, <1>6, <1>7, <1>8, <1>9, <1>10, <1>11, <1>12, <1>13,
           <1>14, <1>15, <1>16, <1>17, <1>18, <1>19, <1>20 DEF Next

LEMMA InvNoDangling == IInv => NoDangling
<1> SUFFICES ASSUME IInv PROVE NoDangling
  OBVIOUS
<1>1. PICK A, x : /\ Places(heap, nodes, current, held, A)
                  /\ Memory(heap, Refs(held, nodes), HeldRefs(held), A, x) /\ (~lossy => x)
  BY StateHas DEF IInv
<1>2. heap.bad = FALSE
  BY <1>1 DEF Memory
<1>3. ASSUME NEW k \in 1..current, nodes[k].t \in Kinds PROVE nodes[k].n \in Live(heap)
  <2>1. nodes \in Seq(NodeSet) /\ current \in 0..Len(nodes) /\ Len(nodes) \in Nat
    BY <1>1 DEF Places
  <2>2. k \in DOMAIN nodes
    BY <2>1
  <2>3. nodes[k].n \in A
    BY <1>1, <1>3, <2>2 DEF Places, Covers
  <2> QED BY <1>1, <2>3, GuardedCell
<1> QED BY <1>2, <1>3 DEF NoDangling

LEMMA InvCountsExact == IInv => CountsExact
<1> SUFFICES ASSUME IInv PROVE CountsExact
  OBVIOUS
<1>1. PICK A, x : /\ Places(heap, nodes, current, held, A)
                  /\ Memory(heap, Refs(held, nodes), HeldRefs(held), A, x) /\ (~lossy => x)
  BY StateHas DEF IInv
<1>2. HeapInv(heap) /\ held \in Seq(HeldSet)
  BY <1>1 DEF Memory, Places
<1>3. ASSUME NEW id \in Live(heap)
      PROVE  /\ References(id) <= heap.cells[id].refcount + 1
             /\ ~lossy => References(id) = heap.cells[id].refcount + 1
  <2>1. id \in Ids
    BY LiveIds
  <2>2. References(id) = Uses(heap, Live(heap), id) + Refs(held, nodes)[id]
    BY <1>2, <2>1, RefsCount
  <2>3. Holders(heap, id) = heap.cells[id].refcount + 1
    BY DEF Holders
  <2>4. Uses(heap, Live(heap), id) + Refs(held, nodes)[id] <= Holders(heap, id)
    BY <1>1, <2>1 DEF Memory, Fits
  <2>5. ~lossy => Uses(heap, Live(heap), id) + Refs(held, nodes)[id] = Holders(heap, id)
    BY <1>1, <2>1 DEF Memory, Exact
  <2> QED BY <2>2, <2>3, <2>4, <2>5
<1> QED BY <1>3 DEF CountsExact

\* No call of the builder, in whatever order and whichever allocation fails, uses a string,
\* array or object that is gone, and the open levels stay: jso_builder.c, jso_value_free.
THEOREM NeverDangling == ASSUME MaxHeld < RefWidth PROVE Spec => []NoDangling
<1>1. Init => IInv
  BY InitInv
<1>2. IInv /\ [Next]_vars => IInv'
  BY Inductive
<1>3. IInv => NoDangling
  BY InvNoDangling
<1> QED BY <1>1, <1>2, <1>3, PTL DEF Spec

\* No cell counts fewer references than there are, and what nobody refers to is freed as long
\* as no call lost a reference: jso_value_copy, jso_value_free and the calls that give a
\* reference away.
THEOREM ExactlyCounted == ASSUME MaxHeld < RefWidth PROVE Spec => []CountsExact
<1>1. Init => IInv
  BY InitInv
<1>2. IInv /\ [Next]_vars => IInv'
  BY Inductive
<1>3. IInv => CountsExact
  BY InvCountsExact
<1> QED BY <1>1, <1>2, <1>3, PTL DEF Spec
=============================================================================
