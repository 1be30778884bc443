-------------------------- MODULE HashTable_proofs --------------------------
(***************************************************************************)
(* Proofs about HashTable, for every set of keys and values, every hash    *)
(* and every number of slots.                                              *)
(*                                                                         *)
(* The inductive invariant says of the table and of the block a growth     *)
(* fills that the list visits exactly the slots in use (IsList) and that   *)
(* every entry is where the probe for its key stops (Findable).  What makes*)
(* both inductive is that a probe stops at all, hence the load bound, and  *)
(* that a growth never meets a key it has moved before, hence MoveExact.   *)
(***************************************************************************)
EXTENDS HashTable, WellFoundedInduction, FiniteSetTheorems, SequenceTheorems, TLAPS

-----------------------------------------------------------------------------
(***************************************************************************)
(* Arithmetic of the probe.                                                *)
(***************************************************************************)

\* A remainder is a slot.
LEMMA ModBounds ==
  ASSUME NEW a \in Nat, NEW c \in Nat \ {0}
  PROVE  a % c \in 0 .. c - 1
  BY SMT

\* Division with remainder.
LEMMA DivMod ==
  ASSUME NEW a \in Nat, NEW c \in Nat \ {0}
  PROVE  a = c * (a \div c) + (a % c) /\ a \div c \in Int
  BY SMT

\* The remainder is unique.
LEMMA DivModUnique ==
  ASSUME NEW c \in Nat \ {0}, NEW q1 \in Int, NEW q2 \in Int,
         NEW r1 \in 0 .. c - 1, NEW r2 \in 0 .. c - 1,
         c * q1 + r1 = c * q2 + r2
  PROVE  r1 = r2
  BY SMT

\* Where a probe that starts at h meets slot f.
LEMMA Rearranged ==
  ASSUME NEW h \in Int, NEW c \in Int, NEW f \in Int, NEW q \in Int, NEW n \in Int,
         f + h * (c - 1) = c * q + n
  PROVE  h + n = c * (h - q) + f
  BY SMT

\* Products of natural numbers are natural.
LEMMA ProductIsNat ==
  ASSUME NEW x \in Nat, NEW y \in Nat
  PROVE  x * y \in Nat
  BY SMT

\* A probe over all slots comes by every slot.
LEMMA ProbeReaches ==
  ASSUME NEW h \in Nat, NEW c \in Nat \ {0}, NEW f \in 0 .. c - 1
  PROVE  \E n \in 0 .. c - 1 : (h + n) % c = f
<1>1. c - 1 \in Nat
  OBVIOUS
<1>2. f + h * (c - 1) \in Nat
  BY <1>1, ProductIsNat
<1>3. PICK n \in 0 .. c - 1, q \in Int : f + h * (c - 1) = c * q + n
  BY <1>2, ModBounds, DivMod
<1>4. h + n = c * (h - q) + f
  BY <1>3, Rearranged
<1>5. h + n \in Nat
  OBVIOUS
<1>6. PICK r \in 0 .. c - 1, p \in Int : h + n = c * p + r /\ r = (h + n) % c
  BY <1>5, ModBounds, DivMod
<1>7. h - q \in Int
  OBVIOUS
<1>8. r = f
  BY <1>4, <1>6, <1>7, DivModUnique
<1> QED BY <1>6, <1>8

\* A probe stays inside the block.
LEMMA ProbeIsSlot ==
  ASSUME NEW key \in Keys, NEW c \in Nat \ {0}, NEW n \in 0 .. c - 1
  PROVE  Probe(key, c, n) \in Slots(c)
  BY HashAssumption, ModBounds DEF Probe, Slots

\* A set of numbers that is not empty has a least element.
LEMMA LeastIsLeast ==
  ASSUME NEW S \in SUBSET Nat, S # {}
  PROVE  Least(S) \in S /\ \A k \in S : Least(S) <= k
<1>1. PICK m \in S : \A k \in S : <<k, m>> \notin OpToRel(<, Nat)
  BY WFMin, NatLessThanWellFounded
<1>2. \A k \in S : k < m => <<k, m>> \in OpToRel(<, Nat)
  BY DEF OpToRel
<1>3. \A k \in S : ~ (k < m)
  BY <1>1, <1>2
<1>4. \A k \in S : m <= k
  BY <1>3
<1> QED BY <1>1, <1>4 DEF Least

\* There is one least element.
LEMMA LeastUnique ==
  ASSUME NEW S \in SUBSET Nat, NEW n \in S, \A k \in S : n <= k
  PROVE  Least(S) = n
<1>1. Least(S) \in S /\ \A k \in S : Least(S) <= k
  BY LeastIsLeast
<1>2. Least(S) \in Nat /\ n \in Nat /\ Least(S) <= n /\ n <= Least(S)
  BY <1>1
<1> QED BY <1>2

-----------------------------------------------------------------------------
(***************************************************************************)
(* Finding the slot of a key in one block.                                 *)
(***************************************************************************)

\* The positions of a list of n entries.
LEMMA IntervalSize ==
  ASSUME NEW n \in Nat
  PROVE  IsFiniteSet(1 .. n) /\ Cardinality(1 .. n) = n
<1>1. 1 \in Int /\ n \in Int
  OBVIOUS
<1>2. /\ IsFiniteSet(1 .. n)
      /\ Cardinality(1 .. n) = IF 1 > n THEN 0 ELSE n - 1 + 1
  BY <1>1, FS_Interval
<1> QED BY <1>2

\* A block of c slots has c slots.
LEMMA SlotsSize ==
  ASSUME NEW c \in Nat
  PROVE  IsFiniteSet(Slots(c)) /\ Cardinality(Slots(c)) = c
<1>1. 0 \in Int /\ c - 1 \in Int
  OBVIOUS
<1>2. /\ IsFiniteSet(0 .. c - 1)
      /\ Cardinality(0 .. c - 1) = IF 0 > c - 1 THEN 0 ELSE c - 1 - 0 + 1
  BY <1>1, FS_Interval
<1> QED BY <1>2 DEF Slots

\* A list that is shorter than its block leaves a slot free.
LEMMA FreeSlot ==
  ASSUME NEW c \in Nat, NEW e \in BlockType(c), NEW order \in Seq(Slots(c)),
         {order[i] : i \in 1 .. Len(order)} = Occupied(e, c), Len(order) < c
  PROVE  \E i \in Slots(c) : e[i].key = NoKey
<1> DEFINE n == Len(order)
<1> SUFFICES ASSUME Occupied(e, c) = Slots(c) PROVE FALSE
  BY DEF Occupied
<1>0. n \in Nat
  OBVIOUS
<1>1. IsFiniteSet(1 .. n) /\ Cardinality(1 .. n) = n
  BY <1>0, IntervalSize
<1>2. IsFiniteSet(Slots(c)) /\ Cardinality(Slots(c)) = c
  BY SlotsSize
<1>3. order \in Surjection(1 .. n, Slots(c))
  BY DEF Surjection
<1>4. c <= n
  BY <1>1, <1>2, <1>3, FS_Surjection
<1> QED BY <1>0, <1>4

\* What is counted are the steps of a probe.
LEMMA StopsAreNumbers ==
  ASSUME NEW c \in Nat, NEW e, NEW key
  PROVE  Stops(e, c, key) \in SUBSET Nat
  BY DEF Stops

\* Where a slot is free, every probe ends.
LEMMA ProbeEnds ==
  ASSUME NEW c \in Nat, NEW e \in BlockType(c), NEW key \in Keys,
         NEW f \in Slots(c), e[f].key = NoKey
  PROVE  Stops(e, c, key) # {}
<1>1. c \in Nat \ {0} /\ f \in 0 .. c - 1
  BY DEF Slots
<1>2. Hash[key] \in Nat
  BY HashAssumption
<1>3. PICK n \in 0 .. c - 1 : (Hash[key] + n) % c = f
  BY <1>1, <1>2, ProbeReaches
<1>4. n \in Stops(e, c, key)
  BY <1>3 DEF Stops, Probe
<1> QED BY <1>4

\* What FindEntry returns.
LEMMA FindEntryFinds ==
  ASSUME NEW c \in Nat, NEW e \in BlockType(c), NEW key \in Keys,
         Stops(e, c, key) # {}
  PROVE  /\ FindEntry(e, c, key) \in Slots(c)
         /\ e[FindEntry(e, c, key)].key \in {NoKey, key}
         /\ FindEntry(e, c, key) = Probe(key, c, Least(Stops(e, c, key)))
         /\ Least(Stops(e, c, key)) \in Stops(e, c, key)
<1>1. Least(Stops(e, c, key)) \in Stops(e, c, key)
  BY StopsAreNumbers, LeastIsLeast
<1>2. FindEntry(e, c, key) = Probe(key, c, Least(Stops(e, c, key)))
  BY DEF FindEntry
<1>3. Least(Stops(e, c, key)) \in 0 .. c - 1 /\ c \in Nat \ {0}
  BY <1>1 DEF Stops
<1>4. Probe(key, c, Least(Stops(e, c, key))) \in Slots(c)
  BY <1>3, ProbeIsSlot
<1> QED BY <1>1, <1>2, <1>4 DEF Stops

\* The slot at the least n a probe stops at is the one that is found.
LEMMA FindEntryIs ==
  ASSUME NEW c \in Nat, NEW e, NEW key, NEW n \in Stops(e, c, key),
         \A k \in Stops(e, c, key) : n <= k
  PROVE  FindEntry(e, c, key) = Probe(key, c, n)
<1>1. Least(Stops(e, c, key)) = n
  BY StopsAreNumbers, LeastUnique
<1> QED BY <1>1 DEF FindEntry

\* Filling the slot that is found for a key, new or not, hides no entry.
LEMMA FillKeepsFindable ==
  ASSUME NEW c \in Nat, NEW e \in BlockType(c), NEW key \in Keys,
         Stops(e, c, key) # {}, Findable(e, c), NEW d \in BlockType(c),
         d[FindEntry(e, c, key)].key = key,
         \A i \in Slots(c) \ {FindEntry(e, c, key)} : d[i].key = e[i].key
  PROVE  /\ Findable(d, c)
         /\ Occupied(d, c) = Occupied(e, c) \cup {FindEntry(e, c, key)}
<1> DEFINE s == FindEntry(e, c, key)
<1>1. /\ s \in Slots(c) /\ e[s].key \in {NoKey, key}
      /\ s = Probe(key, c, Least(Stops(e, c, key)))
      /\ Least(Stops(e, c, key)) \in Stops(e, c, key)
  BY FindEntryFinds
<1>2. c \in Nat \ {0}
  BY <1>1 DEF Slots
<1>3. key # NoKey
  BY KeysAssumption
<1>4. Occupied(d, c) = Occupied(e, c) \cup {s}
  BY <1>1, <1>3 DEF Occupied
<1>5. \A k \in Keys : Stops(d, c, k) \subseteq Stops(e, c, k)
  <2> SUFFICES ASSUME NEW k \in Keys, NEW n \in Stops(d, c, k)
               PROVE  n \in Stops(e, c, k)
    OBVIOUS
  <2>1. n \in 0 .. c - 1 /\ Probe(k, c, n) \in Slots(c)
    BY <1>2, ProbeIsSlot DEF Stops
  <2>2. d[Probe(k, c, n)].key \in {NoKey, k}
    BY DEF Stops
  <2>3. e[Probe(k, c, n)].key \in {NoKey, k}
    <3>1. CASE Probe(k, c, n) = s
      BY <3>1, <2>2, <1>1, <1>3
    <3>2. CASE Probe(k, c, n) # s
      BY <3>2, <2>1, <2>2
    <3> QED BY <3>1, <3>2
  <2> QED BY <2>1, <2>3 DEF Stops
<1>6. \A k \in Keys : \A n \in Stops(e, c, k) :
        d[Probe(k, c, n)].key \in {NoKey, k} => n \in Stops(d, c, k)
  BY DEF Stops
<1>7. ASSUME NEW i \in Occupied(d, c)
      PROVE  FindEntry(d, c, d[i].key) = i
  <2> DEFINE k == d[i].key
             n == Least(Stops(e, c, k))
  <2>1. k \in Keys
    BY DEF Occupied, BlockType, Entry
  <2>2. FindEntry(e, c, k) = i
    <3>1. CASE i = s
      BY <3>1
    <3>2. CASE i # s
      <4>1. i \in Occupied(e, c) /\ e[i].key = k
        BY <3>2, <1>4 DEF Occupied
      <4> QED BY <4>1 DEF Findable
    <3> QED BY <3>1, <3>2
  <2>3. Stops(e, c, k) # {}
    <3>1. i \in Slots(c)
      BY DEF Occupied
    <3>2. i # NoSlot
      BY <3>1 DEF Slots, NoSlot
    <3> QED BY <2>2, <3>2 DEF FindEntry
  <2>4. n \in Stops(e, c, k) /\ i = Probe(k, c, n)
    BY <2>1, <2>2, <2>3, FindEntryFinds
  <2>5. \A m \in Stops(e, c, k) : n <= m
    BY StopsAreNumbers, <2>3, LeastIsLeast
  <2>6. n \in Stops(d, c, k)
    BY <2>1, <2>4, <1>6
  <2>7. \A m \in Stops(d, c, k) : n <= m
    BY <2>1, <2>5, <1>5
  <2>8. FindEntry(d, c, k) = Probe(k, c, n)
    <3> HIDE DEF n
    <3> QED BY <2>6, <2>7, FindEntryIs
  <2> QED BY <2>4, <2>8
<1> QED BY <1>4, <1>7 DEF Findable

-----------------------------------------------------------------------------
(***************************************************************************)
(* The list of one block.                                                  *)
(***************************************************************************)

\* What is known of a block and its list.
BlockInv(e, c, first, last, order) ==
  /\ c \in Nat /\ e \in BlockType(c) /\ order \in Seq(Slots(c))
  /\ IsList(e, c, first, last, order)
  /\ Findable(e, c)

\* The ends of a list are slots in use, or it is empty.
LEMMA EndsOfList ==
  ASSUME NEW c, NEW e, NEW first, NEW last, NEW order,
         BlockInv(e, c, first, last, order)
  PROVE  /\ first \in Link(c) /\ last \in Link(c)
         /\ last # NoSlot => last \in Occupied(e, c)
         /\ first = NoSlot <=> Len(order) = 0
         /\ last = NoSlot <=> Len(order) = 0
<1> USE DEF BlockInv
<1>1. Len(order) \in Nat /\ \A i \in 1 .. Len(order) : order[i] \in Slots(c)
  OBVIOUS
<1>2. NoSlot \notin Slots(c)
  BY DEF Slots, NoSlot
<1>3. CASE Len(order) = 0
  BY <1>3 DEF IsList, Link
<1>4. CASE Len(order) # 0
  <2>1. 1 \in 1 .. Len(order) /\ Len(order) \in 1 .. Len(order)
    BY <1>1, <1>4
  <2>2. first = order[1] /\ last = order[Len(order)]
    BY <1>4 DEF IsList
  <2>3. order[Len(order)] \in Occupied(e, c)
    BY <2>1 DEF IsList
  <2> QED BY <1>1, <1>2, <1>4, <2>1, <2>2, <2>3 DEF Link
<1> QED BY <1>3, <1>4

WithNext(entry, s) == [entry EXCEPT !.next = s]

\* Linking changes neither key nor value.
LEMMA WithNextFields ==
  ASSUME NEW c, NEW e \in BlockType(c), NEW i \in Slots(c), NEW s
  PROVE  WithNext(e[i], s).key = e[i].key /\ WithNext(e[i], s).value = e[i].value
<1>1. e[i] \in Entry
  BY DEF BlockType
<1> QED BY <1>1 DEF Entry, WithNext

\* Linking the free slot that was found for a new key behind the last entry
\* and filling it.
LEMMA AppendKeepsBlock ==
  ASSUME NEW c, NEW e, NEW first, NEW last, NEW order,
         BlockInv(e, c, first, last, order),
         NEW key \in Keys, Stops(e, c, key) # {},
         NEW s, s = FindEntry(e, c, key), e[s].key = NoKey,
         NEW d \in BlockType(c), d[s].key = key, d[s].next = NoSlot,
         \A i \in Slots(c) \ {s} :
           d[i] = IF i = last THEN WithNext(e[i], s) ELSE e[i]
  PROVE  BlockInv(d, c, IF last = NoSlot THEN s ELSE first, s, Append(order, s))
<1> DEFINE n == Len(order)
           o == Append(order, s)
<1>1. /\ c \in Nat /\ e \in BlockType(c) /\ order \in Seq(Slots(c)) /\ n \in Nat
      /\ IsList(e, c, first, last, order) /\ Findable(e, c)
  BY DEF BlockInv
<1>2. s \in Slots(c)
  BY <1>1, FindEntryFinds
<1>3. /\ o \in Seq(Slots(c)) /\ Len(o) = n + 1 /\ o[n + 1] = s
      /\ \A i \in 1 .. n : o[i] = order[i] /\ order[i] \in Slots(c)
  BY <1>1, <1>2
<1>4. \A i \in 1 .. n : order[i] \in Occupied(e, c) /\ order[i] # s
  BY <1>1 DEF IsList, Occupied
<1>5. \A i \in Slots(c) \ {s} :
        /\ d[i].key = e[i].key
        /\ d[i].next = IF i = last THEN s ELSE e[i].next
  BY <1>1 DEF BlockType, Entry, WithNext
<1>6. Findable(d, c) /\ Occupied(d, c) = Occupied(e, c) \cup {s}
  BY <1>1, <1>5, FillKeepsFindable
<1>7. s = IF n + 1 = 0 THEN NoSlot ELSE o[n + 1]
  BY <1>1, <1>3
<1>8. (IF last = NoSlot THEN s ELSE first) = IF n + 1 = 0 THEN NoSlot ELSE o[1]
  <2>1. CASE n = 0
    BY <2>1, <1>1, <1>3, EndsOfList
  <2>2. CASE n # 0
    <3>1. last # NoSlot
      BY <2>2, EndsOfList
    <3>2. first = order[1] /\ 1 \in 1 .. n
      BY <2>2, <1>1 DEF IsList
    <3> QED BY <3>1, <3>2, <1>1, <1>3
  <2> QED BY <2>1, <2>2
<1>9. ASSUME NEW i \in 1 .. n + 1
      PROVE  d[o[i]].next = IF i = n + 1 THEN NoSlot ELSE o[i + 1]
  <2>1. CASE i = n + 1
    BY <2>1, <1>3
  <2>2. CASE i # n + 1
    <3>1. i \in 1 .. n /\ n \in 1 .. n /\ n # 0
      BY <2>2, <1>1
    <3>2. o[i] = order[i] /\ order[i] \in Slots(c) \ {s}
      BY <3>1, <1>3, <1>4
    <3>3. d[order[i]].next = IF order[i] = last THEN s ELSE e[order[i]].next
      BY <3>2, <1>5
    <3>4. last = order[n]
      BY <3>1, <1>1 DEF IsList
    <3>5. order[i] = last <=> i = n
      BY <3>1, <3>4, <1>1 DEF IsList
    <3>6. CASE i = n
      BY <3>2, <3>3, <3>5, <3>6, <2>2, <1>3
    <3>7. CASE i # n
      <4>1. e[order[i]].next = order[i + 1]
        BY <3>1, <3>7, <1>1 DEF IsList
      <4>2. i + 1 \in 1 .. n
        BY <3>1, <3>7, <1>1
      <4> QED BY <3>2, <3>3, <3>5, <3>7, <4>1, <4>2, <2>2, <1>3
    <3> QED BY <3>6, <3>7
  <2> QED BY <2>1, <2>2
<1>10. {o[i] : i \in 1 .. n + 1} = Occupied(d, c)
  <2>1. {o[i] : i \in 1 .. n + 1} = {order[i] : i \in 1 .. n} \cup {s}
    <3>1. \A i \in 1 .. n + 1 : i = n + 1 \/ i \in 1 .. n
      BY <1>1
    <3>2. n + 1 \in 1 .. n + 1 /\ \A i \in 1 .. n : i \in 1 .. n + 1
      BY <1>1
    <3> QED BY <3>1, <3>2, <1>3
  <2>2. {order[i] : i \in 1 .. n} = Occupied(e, c)
    BY <1>1 DEF IsList
  <2> QED BY <2>1, <2>2, <1>6
<1>11. ASSUME NEW i \in 1 .. n + 1, NEW j \in 1 .. n + 1, o[i] = o[j]
       PROVE  i = j
  <2>1. CASE i \in 1 .. n /\ j \in 1 .. n
    BY <2>1, <1>1, <1>3, <1>11 DEF IsList
  <2>2. CASE i = n + 1 \/ j = n + 1
    <3>1. \A k \in 1 .. n : o[k] # s
      BY <1>3, <1>4
    <3> QED BY <2>2, <3>1, <1>1, <1>3, <1>11
  <2> QED BY <2>1, <2>2, <1>1
<1>12. ASSUME NEW i \in Slots(c) \ Occupied(d, c)
       PROVE  d[i] = Free
  <2>1. i \in Slots(c) \ Occupied(e, c) /\ i # s
    BY <1>6
  <2>2. e[i] = Free
    BY <2>1, <1>1 DEF IsList
  <2>3. i # last
    BY <2>1, EndsOfList DEF Slots, NoSlot
  <2> QED BY <2>1, <2>2, <2>3
<1>13. IsList(d, c, IF last = NoSlot THEN s ELSE first, s, o)
  <2> HIDE DEF o, n
  <2>1. Len(o) = n + 1
    BY <1>3
  <2> QED BY <2>1, <1>7, <1>8, <1>9, <1>10, <1>11, <1>12 DEF IsList
<1> QED BY <1>1, <1>3, <1>6, <1>13 DEF BlockInv

\* Setting the value of an entry that is there.
LEMMA UpdateKeepsBlock ==
  ASSUME NEW c, NEW e, NEW first, NEW last, NEW order,
         BlockInv(e, c, first, last, order),
         NEW key \in Keys, Stops(e, c, key) # {},
         NEW s, s = FindEntry(e, c, key), e[s].key = key,
         NEW d \in BlockType(c), d[s].key = key, d[s].next = e[s].next,
         \A i \in Slots(c) \ {s} : d[i] = e[i]
  PROVE  BlockInv(d, c, first, last, order)
<1>1. /\ c \in Nat /\ e \in BlockType(c) /\ order \in Seq(Slots(c))
      /\ IsList(e, c, first, last, order) /\ Findable(e, c)
  BY DEF BlockInv
<1>2. s \in Slots(c) /\ s \in Occupied(e, c)
  BY <1>1, FindEntryFinds, KeysAssumption DEF Occupied
<1>3. Findable(d, c) /\ Occupied(d, c) = Occupied(e, c)
  <2>1. \A i \in Slots(c) \ {s} : d[i].key = e[i].key
    OBVIOUS
  <2>2. Findable(d, c) /\ Occupied(d, c) = Occupied(e, c) \cup {s}
    BY <1>1, <2>1, FillKeepsFindable
  <2> QED BY <2>2, <1>2
<1>4. \A i \in Slots(c) : d[i].next = e[i].next
  BY <1>1
<1>5. \A i \in 1 .. Len(order) : order[i] \in Slots(c)
  BY <1>1
<1>6. \A i \in Slots(c) \ Occupied(d, c) : d[i] = Free
  BY <1>1, <1>2, <1>3 DEF IsList
<1>7. IsList(d, c, first, last, order)
  BY <1>1, <1>3, <1>4, <1>5, <1>6 DEF IsList
<1> QED BY <1>1, <1>3, <1>7 DEF BlockInv

Filled(e, s, key, value) == [e EXCEPT ![s].key = key, ![s].value = value]

\* Linking and filling a slot come to the same in either order.
LEMMA LinkedAndFilled ==
  ASSUME NEW c, NEW e \in BlockType(c), NEW s \in Slots(c), e[s].next = NoSlot,
         NEW last \in Link(c), last # s,
         NEW key \in Keys, NEW value \in Values \cup {NoValue},
         NEW d,
         d \in {Filled(Linked(e, last, s), s, key, value),
                Linked(Filled(e, s, key, value), last, s)}
  PROVE  /\ d \in BlockType(c)
         /\ d[s].key = key /\ d[s].value = value /\ d[s].next = NoSlot
         /\ \A i \in Slots(c) \ {s} :
              d[i] = IF i = last THEN WithNext(e[i], s) ELSE e[i]
<1>1. s \in Int /\ NoSlot \notin Slots(c)
  BY DEF Slots, NoSlot
<1>2. d = [i \in Slots(c) |->
             IF i = s THEN [key |-> key, value |-> value, next |-> NoSlot]
             ELSE IF i = last THEN WithNext(e[i], s) ELSE e[i]]
  <2>1. CASE last = NoSlot
    BY <2>1, <1>1 DEF Filled, Linked, BlockType, Entry, WithNext
  <2>2. CASE last # NoSlot
    BY <2>2, <1>1 DEF Filled, Linked, BlockType, Entry, WithNext, Link
  <2> QED BY <2>1, <2>2
<1>3. \A i \in Slots(c) : WithNext(e[i], s) \in Entry
  BY <1>1 DEF BlockType, Entry, WithNext
<1>4. [key |-> key, value |-> value, next |-> NoSlot] \in Entry
  BY DEF Entry, NoSlot
<1> QED BY <1>2, <1>3, <1>4 DEF BlockType

\* Setting a key that is there.
LEMMA FilledOnly ==
  ASSUME NEW c, NEW e \in BlockType(c), NEW s \in Slots(c),
         NEW key \in Keys, NEW value \in Values,
         NEW d, d = Filled(e, s, key, value)
  PROVE  /\ d \in BlockType(c)
         /\ d[s].key = key /\ d[s].value = value /\ d[s].next = e[s].next
         /\ \A i \in Slots(c) \ {s} : d[i] = e[i]
  BY DEF Filled, BlockType, Entry

-----------------------------------------------------------------------------
(***************************************************************************)
(* jso_ht_set with room, and one step of a growth.                         *)
(***************************************************************************)

\* What is known of the fields of a table.
TableInv(t) ==
  /\ t \in TableType(t.capacity)
  /\ BlockInv(t.entries, t.capacity, t.first, t.last, t.order)
  /\ t.count = Len(t.order)

\* In a list with room, the slot found for a key is free or has the key, and
\* is not the last one of the list when free.
LEMMA FoundSlot ==
  ASSUME NEW c, NEW e, NEW first, NEW last, NEW order,
         BlockInv(e, c, first, last, order), Len(order) < c, NEW key \in Keys
  PROVE  /\ Stops(e, c, key) # {}
         /\ FindEntry(e, c, key) \in Slots(c)
         /\ e[FindEntry(e, c, key)].key \in {NoKey, key}
         /\ e[FindEntry(e, c, key)].key = NoKey =>
              /\ e[FindEntry(e, c, key)].next = NoSlot
              /\ last # FindEntry(e, c, key)
<1> DEFINE s == FindEntry(e, c, key)
<1>1. /\ c \in Nat /\ e \in BlockType(c) /\ order \in Seq(Slots(c))
      /\ {order[i] : i \in 1 .. Len(order)} = Occupied(e, c)
      /\ \A i \in Slots(c) \ Occupied(e, c) : e[i] = Free
  BY DEF BlockInv, IsList
<1>2. \E i \in Slots(c) : e[i].key = NoKey
  BY <1>1, FreeSlot
<1>3. Stops(e, c, key) # {}
  BY <1>1, <1>2, ProbeEnds
<1>4. s \in Slots(c) /\ e[s].key \in {NoKey, key}
  BY <1>1, <1>3, FindEntryFinds
<1>5. ASSUME e[s].key = NoKey
      PROVE  e[s].next = NoSlot /\ last # s
  <2>1. s \notin Occupied(e, c)
    BY <1>5 DEF Occupied
  <2>2. e[s] = Free
    BY <2>1, <1>1, <1>4
  <2>3. last = NoSlot \/ last \in Occupied(e, c)
    BY EndsOfList
  <2>4. NoSlot \notin Slots(c)
    BY DEF Slots, NoSlot
  <2> HIDE DEF s
  <2> QED BY <2>1, <2>2, <2>3, <2>4, <1>4 DEF Free
<1> QED BY <1>3, <1>4, <1>5

\* What a set does to the fields: it links a new entry or changes one.
LEMMA InsertedFields ==
  ASSUME NEW t, TableInv(t), t.count < t.capacity,
         NEW key \in Keys, NEW value \in Values
  PROVE  LET c == t.capacity
             e == t.entries
             s == FindEntry(e, c, key)
             u == Inserted(t, key, value)
         IN  /\ Stops(e, c, key) # {} /\ s \in Slots(c)
             /\ u \in TableType(c) /\ u.capacity = c
             /\ u.entries[s].key = key /\ u.entries[s].value = value
             /\ \/ /\ e[s].key = NoKey
                   /\ u.entries[s].next = NoSlot
                   /\ \A i \in Slots(c) \ {s} :
                        u.entries[i] = IF i = t.last THEN WithNext(e[i], s) ELSE e[i]
                   /\ u.first = IF t.last = NoSlot THEN s ELSE t.first
                   /\ u.last = s
                   /\ u.order = Append(t.order, s)
                   /\ u.count = t.count + 1
                \/ /\ e[s].key = key
                   /\ u.entries[s].next = e[s].next
                   /\ \A i \in Slots(c) \ {s} : u.entries[i] = e[i]
                   /\ u.first = t.first /\ u.last = t.last
                   /\ u.order = t.order /\ u.count = t.count
<1> DEFINE c == t.capacity
           e == t.entries
           s == FindEntry(e, c, key)
           u == Inserted(t, key, value)
<1>1. BlockInv(e, c, t.first, t.last, t.order) /\ Len(t.order) < c
  BY DEF TableInv
<1>2. /\ Stops(e, c, key) # {} /\ s \in Slots(c) /\ e[s].key \in {NoKey, key}
      /\ e[s].key = NoKey => e[s].next = NoSlot /\ t.last # s
  BY <1>1, FoundSlot
<1>3. /\ c \in Nat /\ e \in BlockType(c) /\ t.order \in Seq(Slots(c))
      /\ t.first \in Link(c) /\ t.last \in Link(c) /\ t.count = Len(t.order)
  BY <1>1, EndsOfList DEF TableInv, BlockInv
<1>4. key # NoKey
  BY KeysAssumption
<1> HIDE DEF s, c, e
<1>5. CASE e[s].key = NoKey
  <2> DEFINE d == [Linked(e, t.last, s) EXCEPT ![s].key = key, ![s].value = value]
  <2>1. u = [entries |-> d, capacity |-> c, count |-> t.count + 1,
             first |-> IF t.last = NoSlot THEN s ELSE t.first,
             last |-> s, order |-> Append(t.order, s)]
    BY <1>5 DEF Inserted, c, e, s
  <2> HIDE DEF d, u
  <2>2. d \in {Filled(Linked(e, t.last, s), s, key, value),
              Linked(Filled(e, s, key, value), t.last, s)}
    BY DEF d, Filled
  <2>3. /\ e \in BlockType(c) /\ s \in Slots(c) /\ e[s].next = NoSlot
        /\ t.last \in Link(c) /\ t.last # s
    BY <1>2, <1>3, <1>5
  <2>4. /\ d \in BlockType(c)
        /\ d[s].key = key /\ d[s].value = value /\ d[s].next = NoSlot
        /\ \A i \in Slots(c) \ {s} :
             d[i] = IF i = t.last THEN WithNext(e[i], s) ELSE e[i]
    BY <2>2, <2>3, LinkedAndFilled
  <2>5. Append(t.order, s) \in Seq(Slots(c)) /\ t.count + 1 \in Nat
    BY <1>2, <1>3
  <2>6. u \in TableType(c)
    BY <2>1, <2>4, <2>5, <1>2, <1>3 DEF TableType, Link
  <2>7. /\ u.capacity = c /\ u.count = t.count + 1 /\ u.entries = d
        /\ u.first = (IF t.last = NoSlot THEN s ELSE t.first)
        /\ u.last = s /\ u.order = Append(t.order, s)
    BY <2>1
  <2> QED BY <1>2, <1>5, <2>4, <2>6, <2>7 DEF c, e, s, u
<1>6. CASE e[s].key = key
  <2> DEFINE d == [e EXCEPT ![s].key = key, ![s].value = value]
  <2>1. u = [entries |-> d, capacity |-> c, count |-> t.count,
             first |-> t.first, last |-> t.last, order |-> t.order]
    BY <1>4, <1>6 DEF Inserted, c, e, s
  <2> HIDE DEF d, u
  <2>2. d = Filled(e, s, key, value)
    BY DEF d, Filled
  <2>3. /\ d \in BlockType(c)
        /\ d[s].key = key /\ d[s].value = value /\ d[s].next = e[s].next
        /\ \A i \in Slots(c) \ {s} : d[i] = e[i]
    BY <1>2, <1>3, <2>2, FilledOnly
  <2>4. u \in TableType(c)
    BY <2>1, <2>3, <1>3 DEF TableType
  <2>5. /\ u.capacity = c /\ u.count = t.count /\ u.entries = d
        /\ u.first = t.first /\ u.last = t.last /\ u.order = t.order
    BY <2>1
  <2> QED BY <1>2, <1>6, <2>3, <2>4, <2>5 DEF c, e, s, u
<1> QED BY <1>2, <1>5, <1>6

\* A set keeps what is known of a table; it adds at most one entry.
LEMMA InsertedKeepsTable ==
  ASSUME NEW t, TableInv(t), t.count < t.capacity,
         NEW key \in Keys, NEW value \in Values
  PROVE  LET u == Inserted(t, key, value)
         IN  /\ TableInv(u)
             /\ u.capacity = t.capacity
             /\ u.count \in {t.count, t.count + 1}
<1> DEFINE c == t.capacity
           e == t.entries
           s == FindEntry(e, c, key)
           u == Inserted(t, key, value)
           d == u.entries
<1>1. /\ BlockInv(e, c, t.first, t.last, t.order) /\ t.count = Len(t.order)
      /\ t.order \in Seq(Slots(c))
  BY DEF TableInv, BlockInv
<1>2. /\ Stops(e, c, key) # {} /\ s \in Slots(c)
      /\ u \in TableType(c) /\ u.capacity = c /\ d[s].key = key
  BY InsertedFields
<1>3. d \in BlockType(c)
  BY <1>2 DEF TableType
<1>4. CASE /\ e[s].key = NoKey
           /\ d[s].next = NoSlot
           /\ \A i \in Slots(c) \ {s} :
                d[i] = IF i = t.last THEN WithNext(e[i], s) ELSE e[i]
           /\ u.first = IF t.last = NoSlot THEN s ELSE t.first
           /\ u.last = s
           /\ u.order = Append(t.order, s)
           /\ u.count = t.count + 1
  <2> HIDE DEF c, e, d, u
  <2>1. BlockInv(d, c, IF t.last = NoSlot THEN s ELSE t.first, s, Append(t.order, s))
    BY <1>1, <1>2, <1>3, <1>4, AppendKeepsBlock
  <2>2. Len(Append(t.order, s)) = t.count + 1
    BY <1>1, <1>2
  <2> QED BY <1>2, <1>4, <2>1, <2>2 DEF TableInv, c, d, u
<1>5. CASE /\ e[s].key = key
           /\ d[s].next = e[s].next
           /\ \A i \in Slots(c) \ {s} : d[i] = e[i]
           /\ u.first = t.first /\ u.last = t.last
           /\ u.order = t.order /\ u.count = t.count
  <2> HIDE DEF c, e, d, u
  <2>1. BlockInv(d, c, t.first, t.last, t.order)
    BY <1>1, <1>2, <1>3, <1>5, UpdateKeepsBlock
  <2> QED BY <1>1, <1>2, <1>5, <2>1 DEF TableInv, c, d, u
<1> QED BY <1>4, <1>5, InsertedFields

\* calloc gives an empty list.
LEMMA EmptyBlock ==
  ASSUME NEW c \in Nat
  PROVE  /\ BlockInv(Block(c), c, NoSlot, NoSlot, <<>>)
         /\ Block(c) \in BlockType(c)
<1>1. Block(c) \in BlockType(c)
  BY DEF Block, BlockType, Slots, Entry, Free, NoSlot
<1>2. Occupied(Block(c), c) = {} /\ \A i \in Slots(c) : Block(c)[i] = Free
  BY DEF Occupied, Block, Slots, Free
<1>3. <<>> \in Seq(Slots(c)) /\ Len(<<>>) = 0
  OBVIOUS
<1>4. IsList(Block(c), c, NoSlot, NoSlot, <<>>)
  BY <1>2, <1>3 DEF IsList
<1>5. Findable(Block(c), c)
  BY <1>2 DEF Findable
<1> QED BY <1>1, <1>3, <1>4, <1>5 DEF BlockInv

-----------------------------------------------------------------------------
(***************************************************************************)
(* The inductive invariant.                                                *)
(***************************************************************************)
IndInv == TypeOK /\ ListExact /\ EntriesFound /\ LoadBound /\ MoveExact

\* The invariant, said of the two blocks.
LEMMA BlocksOfIndInv ==
  ASSUME IndInv
  PROVE  /\ TableInv(table)
         /\ BlockInv(move.entries, move.capacity, move.first, move.last, move.order)
         /\ table.capacity \in Nat /\ move.capacity \in Nat /\ table.count \in Nat
<1>1. table \in TableType(table.capacity) /\ move \in MoveType(move.capacity)
  BY DEF IndInv, TypeOK
<1>2. /\ table.entries \in BlockType(table.capacity)
      /\ table.capacity \in Nat /\ table.count \in Nat
      /\ table.order \in Seq(Slots(table.capacity))
  BY <1>1 DEF TableType
<1>3. /\ move.entries \in BlockType(move.capacity) /\ move.capacity \in Nat
      /\ move.order \in Seq(Slots(move.capacity))
  BY <1>1 DEF MoveType
<1> QED
  BY <1>1, <1>2, <1>3 DEF IndInv, ListExact, EntriesFound, LoadBound, TableInv, BlockInv

\* No growth is under way, and the table is sound.
Resting ==
  /\ TableInv(table) /\ move = NotMoving
  /\ 4 * table.count <= 3 * table.capacity
  /\ \/ pending = NoEntry
     \/ /\ pending \in [key : Keys, value : Values]
        /\ 4 * (table.count + 1) <= 3 * table.capacity

\* This is enough for the invariant.
LEMMA RestingIndInv == Resting => IndInv
<1> SUFFICES ASSUME Resting PROVE IndInv
  OBVIOUS
<1> USE DEF Resting
<1>1. BlockInv(Block(0), 0, NoSlot, NoSlot, <<>>) /\ Block(0) \in BlockType(0)
  BY EmptyBlock
<1>2. move \in MoveType(move.capacity)
  BY <1>1 DEF NotMoving, MoveType, Link
<1>3. TypeOK
  BY <1>2 DEF TypeOK, TableInv
<1>4. ListExact /\ EntriesFound
  BY <1>1 DEF ListExact, EntriesFound, TableInv, BlockInv, NotMoving
<1>5. ~ move.active
  BY DEF NotMoving
<1>6. LoadBound
  BY <1>5 DEF LoadBound, TableInv
<1>7. MoveExact
  BY <1>5 DEF MoveExact
<1> QED BY <1>3, <1>4, <1>6, <1>7 DEF IndInv

\* The same of a next state.
LEMMA RestingIndInvNext == Resting' => IndInv'
  BY RestingIndInv, PTL

\* The invariant holds of the table that jso_ht_init makes.
LEMMA InitIndInv == Init => IndInv
<1> SUFFICES ASSUME Init PROVE IndInv
  OBVIOUS
<1>1. BlockInv(Block(0), 0, NoSlot, NoSlot, <<>>) /\ Block(0) \in BlockType(0)
  BY EmptyBlock
<1>2. TableInv(table)
  BY <1>1 DEF Init, EmptyTable, TableInv, TableType, Link
<1>3. table.count = 0 /\ table.capacity = 0
  BY DEF Init, EmptyTable
<1> QED BY <1>2, <1>3, RestingIndInv DEF Init, Resting

\* A growth to a block that has room for what the table holds and for the
\* entry that waits.
LEMMA StartKeepsIndInv ==
  ASSUME IndInv, Idle, NEW capacity \in Nat, StartMove(capacity),
         4 * table.count <= 3 * capacity, table.capacity < capacity,
         \/ pending' = NoEntry
         \/ /\ pending' \in [key : Keys, value : Values]
            /\ 4 * (table.count + 1) <= 3 * capacity
  PROVE  IndInv'
<1>1. /\ table' = table
      /\ move' = [active |-> TRUE, entries |-> Block(capacity),
                  capacity |-> capacity, src |-> table.first,
                  first |-> NoSlot, last |-> NoSlot, order |-> <<>>]
  BY DEF StartMove
<1>2. BlockInv(Block(capacity), capacity, NoSlot, NoSlot, <<>>)
      /\ Block(capacity) \in BlockType(capacity)
  BY EmptyBlock
<1>3. TableInv(table) /\ table.first \in Link(table.capacity)
  BY BlocksOfIndInv DEF TableInv, TableType
<1>4. TypeOK'
  BY <1>1, <1>2, <1>3 DEF TypeOK, TableInv, MoveType, Link
<1>5. ListExact' /\ EntriesFound'
  BY <1>1, <1>2, <1>3 DEF ListExact, EntriesFound, TableInv, BlockInv
<1>6. LoadBound'
  BY <1>1 DEF LoadBound, IndInv
<1>7. MoveExact'
  <2>1. Len(<<>>) = 0
    OBVIOUS
  <2>2. table.count = Len(table.order) /\ table.count \in Nat
    BY <1>3, BlocksOfIndInv DEF TableInv
  <2>3. table.first = IF table.count = 0 THEN NoSlot ELSE table.order[1]
    BY <1>3, <2>2 DEF TableInv, BlockInv, IsList
  <2> QED BY <1>1, <2>1, <2>2, <2>3 DEF MoveExact
<1> QED BY <1>4, <1>5, <1>6, <1>7 DEF IndInv

\* The key of the entry to be moved is not in the new block yet: it would be
\* that of an entry moved before, and the old block would have it twice.
LEMMA MovedKeyIsNew ==
  ASSUME IndInv, move.active, move.src # NoSlot
  PROVE  LET entry == table.entries[move.src]
         IN  /\ Len(move.order) < table.count
             /\ move.src = table.order[Len(move.order) + 1]
             /\ entry.key \in Keys /\ entry.value \in Values \cup {NoValue}
             /\ move.entries[FindEntry(move.entries, move.capacity, entry.key)].key = NoKey
<1> DEFINE n == Len(move.order)
           entry == table.entries[move.src]
           s == FindEntry(move.entries, move.capacity, entry.key)
<1>1. /\ BlockInv(move.entries, move.capacity, move.first, move.last, move.order)
      /\ BlockInv(table.entries, table.capacity, table.first, table.last, table.order)
      /\ table.count = Len(table.order) /\ table.count \in Nat
      /\ move.capacity \in Nat
  BY BlocksOfIndInv DEF TableInv
<1>2. n \in Nat /\ n <= table.count
  BY <1>1 DEF IndInv, MoveExact, BlockInv
<1>3. n < table.count /\ move.src = table.order[n + 1]
  BY <1>1, <1>2 DEF IndInv, MoveExact
<1>4. n + 1 \in 1 .. table.count
  BY <1>1, <1>2, <1>3
<1>5. \A i \in 1 .. table.count :
        /\ table.order[i] \in Occupied(table.entries, table.capacity)
        /\ FindEntry(table.entries, table.capacity,
                     table.entries[table.order[i]].key) = table.order[i]
  BY <1>1 DEF BlockInv, IsList, Findable
<1>6. move.src \in Occupied(table.entries, table.capacity)
  BY <1>3, <1>4, <1>5
<1>7. entry.key \in Keys /\ entry.value \in Values \cup {NoValue}
  BY <1>1, <1>6 DEF Occupied, BlockInv, BlockType, Entry
<1>8. n < move.capacity
  BY <1>1, <1>2, <1>3 DEF IndInv, LoadBound
<1>9. s \in Slots(move.capacity) /\ move.entries[s].key \in {NoKey, entry.key}
  BY <1>1, <1>7, <1>8, FoundSlot
<1>10. ASSUME move.entries[s].key = entry.key PROVE FALSE
  <2>1. s \in Occupied(move.entries, move.capacity)
    BY <1>7, <1>9, <1>10, KeysAssumption DEF Occupied
  <2>2. PICK i \in 1 .. n : move.order[i] = s
    BY <1>1, <2>1 DEF BlockInv, IsList
  <2>3. table.entries[table.order[i]].key = entry.key
    BY <1>10, <2>2 DEF IndInv, MoveExact
  <2>4. i \in 1 .. table.count /\ i # n + 1
    BY <1>1, <1>2, <2>2
  <2>5. table.order[i] = table.order[n + 1]
    BY <1>3, <1>4, <1>5, <2>3, <2>4
  <2> QED BY <1>1, <1>4, <2>4, <2>5 DEF BlockInv, IsList
<1> QED BY <1>3, <1>7, <1>9, <1>10

\* A growth takes one entry over.
LEMMA MoveEntryKeepsIndInv ==
  ASSUME IndInv, MoveEntry
  PROVE  IndInv'
<1> DEFINE n == Len(move.order)
           entry == table.entries[move.src]
           e == move.entries
           c == move.capacity
           s == FindEntry(e, c, entry.key)
           d == Linked([e EXCEPT ![s].key = entry.key, ![s].value = entry.value],
                       move.last, s)
<1>1. move.active /\ move.src # NoSlot /\ table' = table /\ pending' = pending
  BY DEF MoveEntry
<1>2. /\ n < table.count /\ move.src = table.order[n + 1]
      /\ entry.key \in Keys /\ entry.value \in Values \cup {NoValue}
      /\ e[s].key = NoKey
  BY <1>1, MovedKeyIsNew
<1>3. /\ BlockInv(e, c, move.first, move.last, move.order)
      /\ TableInv(table) /\ table.count \in Nat /\ c \in Nat
  BY BlocksOfIndInv
<1>4. n \in Nat
  BY <1>3 DEF BlockInv
<1>5. Stops(e, c, entry.key) # {} /\ s \in Slots(c)
      /\ e[s].next = NoSlot /\ move.last # s
  <2>1. 4 * table.count <= 3 * c
    BY <1>1 DEF IndInv, LoadBound
  <2>2. n < c
    <3> HIDE DEF n, c, entry, e
    <3> QED BY <1>2, <1>3, <1>4, <2>1
  <2> HIDE DEF entry, e, c
  <2> QED BY <1>2, <1>3, <2>2, FoundSlot DEF s
<1>6. /\ e \in BlockType(c) /\ move.order \in Seq(Slots(c))
      /\ move.last \in Link(c) /\ move.first \in Link(c)
  BY <1>3, EndsOfList DEF BlockInv
<1> HIDE DEF s
<1>7. d = Linked(Filled(e, s, entry.key, entry.value), move.last, s)
  BY DEF Filled
<1>8. move \in MoveType(c)
  BY DEF IndInv, TypeOK
<1>9. move' = [move EXCEPT !.entries = d, !.src = entry.next,
                           !.first = IF move.last = NoSlot THEN s ELSE move.first,
                           !.last = s, !.order = Append(move.order, s)]
  BY DEF MoveEntry, Moved, s
<1> HIDE DEF d
<1>10. move' = [active |-> TRUE, entries |-> d, capacity |-> c, src |-> entry.next,
                first |-> IF move.last = NoSlot THEN s ELSE move.first,
                last |-> s, order |-> Append(move.order, s)]
  BY <1>1, <1>8, <1>9 DEF MoveType
<1>11. /\ d \in BlockType(c)
       /\ d[s].key = entry.key /\ d[s].value = entry.value /\ d[s].next = NoSlot
       /\ \A i \in Slots(c) \ {s} :
            d[i] = IF i = move.last THEN WithNext(e[i], s) ELSE e[i]
  <2>1. d \in {Filled(Linked(e, move.last, s), s, entry.key, entry.value),
               Linked(Filled(e, s, entry.key, entry.value), move.last, s)}
    BY <1>7
  <2> HIDE DEF entry, e, c
  <2> QED BY <1>2, <1>5, <1>6, <2>1, LinkedAndFilled
<1>12. BlockInv(d, c, IF move.last = NoSlot THEN s ELSE move.first, s,
                Append(move.order, s))
  <2> HIDE DEF entry, e, c
  <2> QED BY <1>2, <1>3, <1>5, <1>11, AppendKeepsBlock DEF s
<1>13. n + 1 \in 1 .. table.count /\ table.count = Len(table.order)
  BY <1>2, <1>3, <1>4 DEF TableInv
<1>14. entry.next = IF n + 1 = table.count THEN NoSlot ELSE table.order[n + 2]
  BY <1>2, <1>3, <1>4, <1>13 DEF TableInv, BlockInv, IsList
<1>15. /\ Append(move.order, s) \in Seq(Slots(c))
       /\ Len(Append(move.order, s)) = n + 1
       /\ Append(move.order, s)[n + 1] = s
       /\ \A i \in 1 .. n : /\ Append(move.order, s)[i] = move.order[i]
                            /\ move.order[i] \in Slots(c) \ {s}
  <2>1. \A i \in 1 .. n : move.order[i] \in Occupied(e, c)
    BY <1>3 DEF BlockInv, IsList
  <2>2. s \notin Occupied(e, c)
    BY <1>2 DEF Occupied, s
  <2> QED BY <1>4, <1>5, <1>6, <2>1, <2>2
<1>16. TypeOK'
  <2>1. entry.next \in Link(table.capacity)
    <3>1. CASE n + 1 = table.count
      BY <3>1, <1>14 DEF Link
    <3>2. CASE n + 1 # table.count
      <4>1. n + 2 \in 1 .. Len(table.order)
        BY <3>2, <1>4, <1>13
      <4> QED BY <4>1, <3>2, <1>3, <1>14 DEF TableInv, BlockInv, Link
    <3> QED BY <3>1, <3>2
  <2>2. move' \in MoveType(c)
    BY <1>3, <1>5, <1>6, <1>10, <1>11, <1>15, <2>1 DEF MoveType, Link
  <2>3. move'.capacity = c /\ move'.active
    BY <1>10
  <2> QED BY <1>1, <2>2, <2>3 DEF IndInv, TypeOK, MoveType
<1>17. ListExact' /\ EntriesFound'
  BY <1>1, <1>10, <1>12 DEF IndInv, ListExact, EntriesFound, BlockInv
<1>18. LoadBound'
  <2>1. move'.active /\ move'.capacity = c
    BY <1>10
  <2> QED BY <1>1, <2>1 DEF IndInv, LoadBound
<1>19. MoveExact'
  <2>1. /\ move'.order = Append(move.order, s) /\ move'.src = entry.next
        /\ move'.entries = d
    BY <1>10
  <2>2. n + 1 <= table.count
    BY <1>13
  <2>3. \A i \in 1 .. n + 1 :
          /\ d[Append(move.order, s)[i]].key = table.entries[table.order[i]].key
          /\ d[Append(move.order, s)[i]].value = table.entries[table.order[i]].value
    <3> SUFFICES ASSUME NEW i \in 1 .. n + 1
                 PROVE  /\ d[Append(move.order, s)[i]].key = table.entries[table.order[i]].key
                        /\ d[Append(move.order, s)[i]].value = table.entries[table.order[i]].value
      OBVIOUS
    <3>1. CASE i = n + 1
      BY <3>1, <1>2, <1>11, <1>15
    <3>2. CASE i # n + 1
      <4>1. i \in 1 .. n
        BY <3>2, <1>4
      <4>2. /\ e[move.order[i]].key = table.entries[table.order[i]].key
            /\ e[move.order[i]].value = table.entries[table.order[i]].value
        BY <4>1, <1>1 DEF IndInv, MoveExact
      <4>3. /\ d[move.order[i]].key = e[move.order[i]].key
            /\ d[move.order[i]].value = e[move.order[i]].value
        <5> DEFINE j == move.order[i]
        <5>1. j \in Slots(c) \ {s}
          BY <4>1, <1>15
        <5> HIDE DEF e, c, j
        <5>2. WithNext(e[j], s).key = e[j].key /\ WithNext(e[j], s).value = e[j].value
          BY <1>6, <5>1, WithNextFields
        <5>3. d[j] = WithNext(e[j], s) \/ d[j] = e[j]
          BY <1>11, <5>1
        <5>4. d[j].key = e[j].key /\ d[j].value = e[j].value
          BY <5>2, <5>3
        <5> QED BY <5>4 DEF e, j
      <4> QED BY <4>1, <4>2, <4>3, <1>15
    <3> QED BY <3>1, <3>2
  <2>4. n + 2 = (n + 1) + 1
    BY <1>4
  <2> QED BY <1>1, <1>14, <1>15, <2>1, <2>2, <2>3, <2>4 DEF MoveExact
<1> QED BY <1>16, <1>17, <1>18, <1>19 DEF IndInv

\* When the growth comes to its end, all entries have been moved.
LEMMA MoveEndMovesAll ==
  ASSUME IndInv, MoveEnd
  PROVE  Len(move.order) = table.count
<1> DEFINE n == Len(move.order)
<1>1. /\ BlockInv(move.entries, move.capacity, move.first, move.last, move.order)
      /\ TableInv(table) /\ table.count \in Nat
  BY BlocksOfIndInv
<1>2. n \in Nat /\ n <= table.count
  BY <1>1 DEF IndInv, MoveExact, MoveEnd, BlockInv
<1>3. ASSUME n < table.count PROVE FALSE
  <2>1. NoSlot = table.order[n + 1]
    BY <1>3 DEF IndInv, MoveExact, MoveEnd
  <2>2. n + 1 \in 1 .. Len(table.order)
    BY <1>1, <1>2, <1>3 DEF TableInv
  <2>3. table.order[n + 1] \in Slots(table.capacity)
    BY <1>1, <2>2 DEF TableInv, BlockInv
  <2> QED BY <2>1, <2>3 DEF Slots, NoSlot
<1> QED BY <1>1, <1>2, <1>3

\* The new block replaces the old one.
LEMMA MoveEndKeepsIndInv ==
  ASSUME IndInv, MoveEnd
  PROVE  IndInv'
<1>1. /\ BlockInv(move.entries, move.capacity, move.first, move.last, move.order)
      /\ TableInv(table) /\ table.count \in Nat /\ table.capacity \in Nat
      /\ move.capacity \in Nat
  BY BlocksOfIndInv
<1>2. Len(move.order) = table.count
  BY MoveEndMovesAll
<1>3. table' = [entries |-> move.entries, capacity |-> move.capacity,
                count |-> table.count, first |-> move.first, last |-> move.last,
                order |-> move.order]
  BY <1>1 DEF MoveEnd, TableInv, TableType
<1>4. TableInv(table')
  <2>1. move.first \in Link(move.capacity) /\ move.last \in Link(move.capacity)
    BY <1>1, EndsOfList
  <2> QED BY <1>1, <1>2, <1>3, <2>1 DEF TableInv, TableType, BlockInv
<1>5. pending' = pending /\ move' = NotMoving
  BY DEF MoveEnd
<1>6. /\ 4 * table'.count <= 3 * table'.capacity
      /\ pending # NoEntry => 4 * (table'.count + 1) <= 3 * table'.capacity
  BY <1>3 DEF IndInv, LoadBound, MoveEnd
<1>7. pending = NoEntry \/ pending \in [key : Keys, value : Values]
  BY DEF IndInv, TypeOK
<1> QED BY <1>4, <1>5, <1>6, <1>7, RestingIndInvNext DEF Resting

\* A set, at once or after the growth it needed.
LEMMA InsertKeepsIndInv ==
  ASSUME IndInv, ~ move.active, NEW key \in Keys, NEW value \in Values,
         4 * (table.count + 1) <= 3 * table.capacity,
         table' = Inserted(table, key, value), move' = move, pending' = NoEntry
  PROVE  IndInv'
<1>1. TableInv(table) /\ table.count \in Nat /\ table.capacity \in Nat
  BY BlocksOfIndInv
<1>2. table.count < table.capacity
  BY <1>1
<1>3. /\ TableInv(table') /\ table'.capacity = table.capacity
      /\ table'.count \in {table.count, table.count + 1}
  BY <1>1, <1>2, InsertedKeepsTable
<1>4. 4 * table'.count <= 3 * table'.capacity
  BY <1>1, <1>3
<1>5. move' = NotMoving
  BY DEF IndInv, TypeOK
<1> QED BY <1>3, <1>4, <1>5, RestingIndInvNext DEF Resting

\* Every step keeps the invariant.
LEMMA NextIndInv == IndInv /\ [Next]_vars => IndInv'
<1> SUFFICES ASSUME IndInv, [Next]_vars PROVE IndInv'
  OBVIOUS
<1>0. /\ table.count \in Nat /\ table.capacity \in Nat
      /\ 4 * table.count <= 3 * table.capacity
  BY BlocksOfIndInv DEF IndInv, LoadBound
<1>1. ASSUME NEW key \in Keys, NEW value \in Values, SetWithRoom(key, value)
      PROVE  IndInv'
  <2>1. 4 * (table.count + 1) <= 3 * table.capacity
    BY <1>0, <1>1 DEF SetWithRoom, NeedsRoom
  <2> QED BY <1>1, <2>1, InsertKeepsIndInv DEF SetWithRoom, Idle
<1>2. ASSUME NEW key \in Keys, NEW value \in Values, SetGrowing(key, value)
      PROVE  IndInv'
  <2> DEFINE capacity == 2 * (table.capacity + 1)
  <2>1. /\ capacity \in Nat /\ 4 * table.count <= 3 * capacity
        /\ table.capacity < capacity
        /\ 4 * (table.count + 1) <= 3 * capacity
    BY <1>0
  <2>2. pending' \in [key : Keys, value : Values]
    BY <1>2 DEF SetGrowing
  <2>3. Idle /\ StartMove(capacity)
    BY <1>2 DEF SetGrowing
  <2> HIDE DEF capacity
  <2> QED BY <2>1, <2>2, <2>3, StartKeepsIndInv
<1>3. ASSUME NEW size \in Sizes, Resize(size)
      PROVE  IndInv'
  <2> DEFINE capacity == ResizedCapacity(size)
  <2>1. capacity \in Nat
    BY SizesAssumption DEF ResizedCapacity
  <2>2. capacity > table.capacity /\ Idle /\ StartMove(capacity) /\ pending' = NoEntry
    BY <1>3 DEF Resize, Idle
  <2> HIDE DEF capacity
  <2>3. 4 * table.count <= 3 * capacity
    BY <1>0, <2>1, <2>2
  <2> QED BY <2>1, <2>2, <2>3, StartKeepsIndInv
<1>4. CASE MoveEntry
  BY <1>4, MoveEntryKeepsIndInv
<1>5. CASE MoveEnd
  BY <1>5, MoveEndKeepsIndInv
<1>6. CASE SetGrown
  <2>1. /\ ~ move.active /\ pending # NoEntry /\ pending' = NoEntry /\ move' = move
        /\ table' = Inserted(table, pending.key, pending.value)
    BY <1>6 DEF SetGrown
  <2>2. pending.key \in Keys /\ pending.value \in Values
    BY <2>1 DEF IndInv, TypeOK
  <2>3. 4 * (table.count + 1) <= 3 * table.capacity
    BY <2>1 DEF IndInv, LoadBound
  <2> QED BY <2>1, <2>2, <2>3, InsertKeepsIndInv
<1>7. CASE Clear
  <2>1. table' = EmptyTable /\ move' = move /\ pending' = NoEntry /\ move = NotMoving
    BY <1>7 DEF Clear, Idle, IndInv, TypeOK
  <2>2. BlockInv(Block(0), 0, NoSlot, NoSlot, <<>>) /\ Block(0) \in BlockType(0)
    BY EmptyBlock
  <2>3. TableInv(table')
    BY <2>1, <2>2 DEF EmptyTable, TableInv, TableType, Link
  <2>4. table'.count = 0 /\ table'.capacity = 0
    BY <2>1 DEF EmptyTable
  <2> QED BY <2>1, <2>3, <2>4, RestingIndInvNext DEF Resting
<1>8. CASE UNCHANGED vars
  BY <1>8 DEF vars, IndInv, TypeOK, ListExact, EntriesFound, LoadBound, MoveExact,
              MoveType
<1> QED BY <1>1, <1>2, <1>3, <1>4, <1>5, <1>6, <1>7, <1>8 DEF Next

\* The inductive invariant holds in every reachable state.
THEOREM IndInvHolds == Spec => []IndInv
  BY InitIndInv, NextIndInv, PTL DEF Spec

-----------------------------------------------------------------------------
(***************************************************************************)
(* What follows.                                                           *)
(***************************************************************************)

\* Type correctness.
THEOREM TypeCorrect == Spec => []TypeOK
  BY IndInvHolds, PTL DEF IndInv

\* Iteration visits every entry once, in every state of a growth, for every
\* hash function and every sequence of calls.
THEOREM ListAlwaysExact == Spec => []ListExact
  BY IndInvHolds, PTL DEF IndInv

\* No collision, growth or overwriting ever hides an entry.
THEOREM EntriesAlwaysFound == Spec => []EntriesFound
  BY IndInvHolds, PTL DEF IndInv

\* The table and the block it grows into are at most 3/4 full.
THEOREM LoadBounded == Spec => []LoadBound
  BY IndInvHolds, PTL DEF IndInv

\* A growth moves a prefix of the list, in order.
THEOREM MovesExact == Spec => []MoveExact
  BY IndInvHolds, PTL DEF IndInv

\* A block whose list leaves room has a slot at which a probe stops.
LEMMA ProbesEndInv == IndInv => ProbesEnd
<1> SUFFICES ASSUME IndInv, NEW key \in Keys
             PROVE  /\ table.count > 0 \/ (pending # NoEntry /\ ~ move.active) =>
                         Stops(table.entries, table.capacity, key) # {}
                    /\ move.active => Stops(move.entries, move.capacity, key) # {}
  BY DEF ProbesEnd
<1>1. /\ BlockInv(move.entries, move.capacity, move.first, move.last, move.order)
      /\ BlockInv(table.entries, table.capacity, table.first, table.last, table.order)
      /\ table.count = Len(table.order) /\ table.count \in Nat
      /\ table.capacity \in Nat /\ move.capacity \in Nat
  BY BlocksOfIndInv DEF TableInv
<1>2. ASSUME table.count > 0 \/ (pending # NoEntry /\ ~ move.active)
      PROVE  Stops(table.entries, table.capacity, key) # {}
  <2>1. table.count < table.capacity
    BY <1>1, <1>2 DEF IndInv, LoadBound
  <2> QED BY <1>1, <2>1, FoundSlot
<1>3. ASSUME move.active
      PROVE  Stops(move.entries, move.capacity, key) # {}
  <2>1. Len(move.order) \in Nat /\ Len(move.order) <= table.count
    BY <1>1, <1>3 DEF IndInv, MoveExact, BlockInv
  <2>2. 4 * table.count <= 3 * move.capacity /\ move.capacity > 0
    BY <1>1, <1>3 DEF IndInv, LoadBound
  <2>3. Len(move.order) < move.capacity
    BY <1>1, <2>1, <2>2
  <2> QED BY <1>1, <2>3, FoundSlot
<1> QED BY <1>2, <1>3

\* jso_ht_find_entry always leaves its loop.
THEOREM ProbesAlwaysEnd == Spec => []ProbesEnd
  BY IndInvHolds, ProbesEndInv, PTL

\* A lookup answers with the value of the entry that has the key.
LEMMA LookupExactInv == IndInv => LookupExact
<1> SUFFICES ASSUME IndInv, NEW key \in Keys
             PROVE  LET found == {e \in {EntriesOf(table)[i] : i \in DOMAIN table.order} :
                                    e.key = key}
                    IN  {Lookup(table, key)} =
                          IF found = {} THEN {NoValue} ELSE {e.value : e \in found}
  BY DEF LookupExact
<1> DEFINE n == Len(table.order)
           E == table.entries
           c == table.capacity
           s == FindEntry(E, c, key)
           found == {e \in {EntriesOf(table)[i] : i \in DOMAIN table.order} : e.key = key}
<1>1. /\ BlockInv(E, c, table.first, table.last, table.order)
      /\ table.count = n /\ n \in Nat /\ c \in Nat
      /\ table.order \in Seq(Slots(c)) /\ DOMAIN table.order = 1 .. n
  BY BlocksOfIndInv DEF TableInv, BlockInv
<1>2. \A i \in 1 .. n :
        /\ EntriesOf(table)[i].key = E[table.order[i]].key
        /\ EntriesOf(table)[i].value = E[table.order[i]].value
  BY <1>1 DEF EntriesOf
<1>3. \A i \in 1 .. n : E[table.order[i]].key = key => table.order[i] = s
  <2>1. \A i \in 1 .. n : table.order[i] \in Occupied(E, c)
    BY <1>1 DEF BlockInv, IsList
  <2>2. \A i \in 1 .. n : FindEntry(E, c, E[table.order[i]].key) = table.order[i]
    BY <1>1, <2>1 DEF BlockInv, Findable
  <2> QED BY <2>2
<1>4. CASE n = 0
  <2>1. found = {}
    BY <1>1, <1>4
  <2> QED BY <1>1, <1>4, <2>1 DEF Lookup
<1>5. CASE n # 0
  <2>1. n < c
    BY <1>1, <1>5 DEF IndInv, LoadBound
  <2>2. /\ Stops(E, c, key) # {}
        /\ s \in Slots(c) /\ E[s].key \in {NoKey, key}
    BY <1>1, <2>1, FoundSlot
  <2>3. Lookup(table, key) = E[s].value
    BY <1>1, <1>5, <2>2 DEF Lookup, Slots, NoSlot
  <2>4. key # NoKey
    BY KeysAssumption
  <2>5. CASE E[s].key = NoKey
    <3>1. \A i \in 1 .. n : E[table.order[i]].key # key
      BY <1>3, <2>4, <2>5
    <3>2. found = {}
      BY <1>1, <1>2, <3>1
    <3>3. E[s] = Free
      BY <1>1, <2>2, <2>5 DEF BlockInv, IsList, Occupied
    <3> QED BY <2>3, <3>2, <3>3 DEF Free
  <2>6. CASE E[s].key = key
    <3>1. s \in Occupied(E, c)
      BY <2>2, <2>4, <2>6 DEF Occupied
    <3>2. PICK i \in 1 .. n : table.order[i] = s
      BY <1>1, <3>1 DEF BlockInv, IsList
    <3>3. EntriesOf(table)[i] \in found
      BY <1>1, <1>2, <2>6, <3>2
    <3>4. \A e \in found : e.value = E[s].value
      BY <1>1, <1>2, <1>3
    <3>5. EntriesOf(table)[i].value = E[s].value
      BY <1>2, <3>2
    <3> HIDE DEF found
    <3>6. {e.value : e \in found} = {E[s].value}
      BY <3>3, <3>4, <3>5
    <3> QED BY <2>3, <3>3, <3>6 DEF found
  <2> QED BY <2>2, <2>5, <2>6
<1> QED BY <1>4, <1>5

\* get, has and the deref functions are exact in every reachable state.
THEOREM LookupsExact == Spec => []LookupExact
  BY IndInvHolds, LookupExactInv, PTL

-----------------------------------------------------------------------------
(***************************************************************************)
(* The table implements OrderedMap.                                        *)
(***************************************************************************)

\* The entry of the i-th slot of the list.
EntryOf(t, i) == [key   |-> t.entries[t.order[i]].key,
                  value |-> t.entries[t.order[i]].value]

\* The map of a table has as many entries as its list.
LEMMA EntriesOfTable ==
  ASSUME NEW t, TableInv(t)
  PROVE  /\ DOMAIN EntriesOf(t) = 1 .. Len(t.order)
         /\ EntriesOf(t) \in Seq([key : Keys \cup {NoKey}, value : Values \cup {NoValue}])
         /\ Len(EntriesOf(t)) = Len(t.order)
         /\ \A i \in 1 .. Len(t.order) : EntriesOf(t)[i] = EntryOf(t, i)
<1> DEFINE n == Len(t.order)
           R == [key : Keys \cup {NoKey}, value : Values \cup {NoValue}]
<1>1. /\ t.order \in Seq(Slots(t.capacity)) /\ n \in Nat
      /\ t.entries \in BlockType(t.capacity)
  BY DEF TableInv, BlockInv
<1>2. \A i \in 1 .. n : t.entries[t.order[i]] \in Entry
  BY <1>1 DEF BlockType
<1>3. EntriesOf(t) = [i \in 1 .. n |-> EntryOf(t, i)]
  BY <1>1 DEF EntriesOf, EntryOf
<1>4. EntriesOf(t) \in [1 .. n -> R]
  BY <1>2, <1>3 DEF Entry, EntryOf
<1> HIDE DEF R
<1>5. EntriesOf(t) \in Seq(R)
  BY <1>1, <1>4, SeqDef
<1> QED BY <1>1, <1>3, <1>4, <1>5 DEF R

\* A set is a Put.
LEMMA InsertedIsPut ==
  ASSUME NEW key \in Keys, NEW value \in Values,
         TableInv(table), table.count < table.capacity,
         table' = Inserted(table, key, value)
  PROVE  Map!Put
<1> DEFINE c == table.capacity
           e == table.entries
           s == FindEntry(e, c, key)
           n == Len(table.order)
           m == EntriesOf(table)
           u == table'
           w == EntriesOf(u)
<1>1. /\ BlockInv(e, c, table.first, table.last, table.order)
      /\ table.order \in Seq(Slots(c)) /\ n \in Nat /\ e \in BlockType(c)
      /\ DOMAIN m = 1 .. n /\ Len(m) = n
      /\ \A i \in 1 .. n : m[i] = EntryOf(table, i)
  BY EntriesOfTable DEF TableInv, BlockInv
<1>2. /\ DOMAIN w = 1 .. Len(u.order) /\ Len(w) = Len(u.order)
      /\ \A i \in 1 .. Len(u.order) : w[i] = EntryOf(u, i)
  BY InsertedKeepsTable, EntriesOfTable
<1>3. s \in Slots(c) /\ u.entries[s].key = key /\ Stops(e, c, key) # {}
  BY InsertedFields
<1>4. key # NoKey
  BY KeysAssumption
<1>5. \A i \in 1 .. n : /\ table.order[i] \in Occupied(e, c)
                        /\ FindEntry(e, c, e[table.order[i]].key) = table.order[i]
  BY <1>1 DEF BlockInv, IsList, Findable
<1> HIDE DEF m, u, w
<1>8. /\ \A i \in 1 .. n : m[i].key = e[table.order[i]].key
      /\ \A i \in 1 .. Len(u.order) : w[i].key = u.entries[u.order[i]].key
  <2>1. /\ \A i \in 1 .. n : EntryOf(table, i).key = e[table.order[i]].key
        /\ \A i \in 1 .. Len(u.order) :
             EntryOf(u, i).key = u.entries[u.order[i]].key
    BY DEF EntryOf
  <2> QED BY <1>1, <1>2, <2>1
<1>6. CASE /\ e[s].key = NoKey
           /\ \A i \in Slots(c) \ {s} :
                u.entries[i] = IF i = table.last THEN WithNext(e[i], s) ELSE e[i]
           /\ u.order = Append(table.order, s)
  <2>1. /\ Len(u.order) = n + 1 /\ u.order[n + 1] = s
        /\ \A i \in 1 .. n : u.order[i] = table.order[i]
    BY <1>1, <1>3, <1>6
  <2>2. \A i \in 1 .. n : table.order[i] \in Slots(c) \ {s}
    BY <1>5, <1>6 DEF Occupied, c, e, s
  <2>3. \A i \in Slots(c) \ {s} : /\ u.entries[i].key = e[i].key
                                  /\ u.entries[i].value = e[i].value
    <3> SUFFICES ASSUME NEW i \in Slots(c) \ {s}
                 PROVE  u.entries[i].key = e[i].key /\ u.entries[i].value = e[i].value
      OBVIOUS
    <3> HIDE DEF e, c, s
    <3>1. e \in BlockType(c) /\ i \in Slots(c)
      BY <1>1
    <3>2. WithNext(e[i], s).key = e[i].key /\ WithNext(e[i], s).value = e[i].value
      BY <3>1, WithNextFields
    <3>3. u.entries[i] = WithNext(e[i], s) \/ u.entries[i] = e[i]
      BY <1>6
    <3> QED BY <3>2, <3>3
  <2>4. Len(w) = Len(m) + 1
    BY <1>1, <1>2, <2>1
  <2>5. \A i \in DOMAIN m : w[i] = m[i]
    <3>1. \A i \in 1 .. n : EntryOf(u, i) = EntryOf(table, i)
      BY <2>1, <2>2, <2>3 DEF EntryOf
    <3>2. \A i \in 1 .. n : i \in 1 .. n + 1
      BY <1>1
    <3> QED BY <1>1, <1>2, <2>1, <3>1, <3>2
  <2>6. w[Len(w)].key = key
    <3>1. n + 1 \in 1 .. n + 1
      BY <1>1
    <3> QED BY <1>2, <1>3, <1>8, <2>1, <3>1
  <2>7. \A i \in DOMAIN m : m[i].key # key
    BY <1>1, <1>5, <1>8, <2>2
  <2> QED BY <2>4, <2>5, <2>6, <2>7 DEF Map!Put, Map!MapKeys, m, w, u
<1>7. CASE /\ e[s].key = key
           /\ \A i \in Slots(c) \ {s} : u.entries[i] = e[i]
           /\ u.order = table.order
  <2>1. s \in Occupied(e, c)
    BY <1>3, <1>4, <1>7 DEF Occupied
  <2>2. PICK i \in 1 .. n : table.order[i] = s
    BY <1>1, <2>1 DEF BlockInv, IsList
  <2>3. \A k \in 1 .. n : k # i => table.order[k] \in Slots(c) \ {s}
    BY <1>1, <1>5, <2>2 DEF BlockInv, IsList, Occupied
  <2>4. DOMAIN w = DOMAIN m /\ i \in DOMAIN m
    BY <1>1, <1>2, <1>7
  <2>5. w[i].key = m[i].key
    BY <1>1, <1>3, <1>7, <1>8, <2>2
  <2>6. \A k \in DOMAIN m \ {i} : w[k] = m[k]
    <3>1. \A k \in 1 .. n : k # i => EntryOf(u, k) = EntryOf(table, k)
      BY <1>7, <2>3 DEF EntryOf
    <3> QED BY <1>1, <1>2, <1>7, <3>1
  <2> QED BY <2>4, <2>5, <2>6 DEF Map!Put, m, w, u
<1> QED BY <1>6, <1>7, InsertedFields DEF c, e, s, u

\* What replaces the old block at the end of a growth has the same entries.
LEMMA MoveEndKeepsMap ==
  ASSUME IndInv, MoveEnd
  PROVE  EntriesOf(table') = EntriesOf(table)
<1>1. Len(move.order) = table.count
  BY MoveEndMovesAll
<1>2. /\ TableInv(table) /\ move.order \in Seq(Slots(move.capacity))
  BY BlocksOfIndInv DEF BlockInv
<1>3. table'.entries = move.entries /\ table'.order = move.order
  BY <1>2 DEF MoveEnd, TableInv, TableType
<1>4. DOMAIN table.order = 1 .. table.count /\ DOMAIN move.order = 1 .. table.count
  BY <1>1, <1>2 DEF TableInv, BlockInv
<1>5. \A i \in 1 .. table.count :
        /\ move.entries[move.order[i]].key = table.entries[table.order[i]].key
        /\ move.entries[move.order[i]].value = table.entries[table.order[i]].value
  BY <1>1 DEF IndInv, MoveExact, MoveEnd
<1> QED BY <1>3, <1>4, <1>5 DEF EntriesOf

\* A step of the table is a step of the map or leaves it as it is.
LEMMA StepIsMapStep ==
  ASSUME IndInv, [Next]_vars
  PROVE  Map!Put \/ Map!Clear \/ EntriesOf(table') = EntriesOf(table)
<1>1. TableInv(table) /\ table.count \in Nat /\ table.capacity \in Nat
  BY BlocksOfIndInv
<1>2. ASSUME NEW key \in Keys, NEW value \in Values, SetWithRoom(key, value)
      PROVE  Map!Put
  <2>1. table.count < table.capacity /\ table' = Inserted(table, key, value)
    BY <1>1, <1>2 DEF SetWithRoom, NeedsRoom
  <2> QED BY <1>1, <2>1, InsertedIsPut
<1>3. CASE SetGrown
  <2>1. pending.key \in Keys /\ pending.value \in Values
    BY <1>3 DEF SetGrown, IndInv, TypeOK
  <2>2. table.count < table.capacity
    BY <1>1, <1>3 DEF SetGrown, IndInv, LoadBound
  <2>3. table' = Inserted(table, pending.key, pending.value)
    BY <1>3 DEF SetGrown
  <2> QED BY <1>1, <2>1, <2>2, <2>3, InsertedIsPut
<1>4. CASE Clear
  <2>1. EntriesOf(table') = <<>>
    BY <1>4 DEF Clear, EmptyTable, EntriesOf
  <2> QED BY <2>1 DEF Map!Clear
<1>5. CASE MoveEnd
  BY <1>5, MoveEndKeepsMap
<1>6. CASE \/ \E key \in Keys, value \in Values : SetGrowing(key, value)
           \/ \E size \in Sizes : Resize(size)
           \/ MoveEntry
           \/ UNCHANGED vars
  BY <1>6 DEF SetGrowing, Resize, StartMove, MoveEntry, vars
<1> QED BY <1>2, <1>3, <1>4, <1>5, <1>6 DEF Next

\* The table is a map that keeps the order of its keys, and growing is not
\* seen: every behaviour of the table is one of OrderedMap.
THEOREM TableImplementsMap == Spec => ImplementsOrderedMap
<1>1. Init => Map!Init
  BY DEF Init, EmptyTable, EntriesOf, Map!Init
<1>2. IndInv /\ [Next]_vars => [Map!Put \/ Map!Clear]_(EntriesOf(table))
  BY StepIsMapStep
<1> QED BY <1>1, <1>2, IndInvHolds, PTL DEF Spec, ImplementsOrderedMap, Map!Spec
=============================================================================
