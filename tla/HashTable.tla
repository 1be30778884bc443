------------------------------ MODULE HashTable ------------------------------
(***************************************************************************)
(* The hash table of src/jso_ht.c: open addressing with linear probing,    *)
(* the entries linked in insertion order, no removal of single entries.    *)
(* Slots are counted from 0 as in C; a pointer to an entry is its slot and *)
(* NULL is NoSlot.                                                         *)
(*                                                                         *)
(* Growing moves the entries one by one, a step each, from the list of the *)
(* old block into a new block; the table's fields change when all are      *)
(* moved.  The call that made the table grow goes on afterwards.  A growth *)
(* that finds no memory returns before anything has changed and is no      *)
(* step.                                                                   *)
(*                                                                         *)
(* The field order of both is history: the slots in the order they were    *)
(* linked.                                                                 *)
(***************************************************************************)
EXTENDS Integers, FiniteSets, Sequences

CONSTANTS
  Keys,      \* the strings used as keys, equal ones being one key
  Values,
  Hash,      \* the hash of each key
  NoKey,     \* the key of a free slot, NULL in the program
  NoValue,   \* the value of a free slot
  Sizes,     \* what jso_ht_resize is called with
  Room       \* bound on the number of slots

ASSUME KeysAssumption == NoKey \notin Keys /\ NoValue \notin Values
ASSUME HashAssumption == Hash \in [Keys -> Nat]
ASSUME SizesAssumption == Sizes \subseteq Nat
ASSUME RoomAssumption == Room \in Nat

VARIABLES
  table,     \* the fields of jso_ht
  move,      \* the locals of jso_ht_adjust_capacity, or NotMoving
  pending    \* the entry jso_ht_set makes room for, or NoEntry

vars == <<table, move, pending>>

NoSlot == -1

Entry == [key : Keys \cup {NoKey}, value : Values \cup {NoValue}, next : Int]
Free == [key |-> NoKey, value |-> NoValue, next |-> NoSlot]

\* calloc of a block.
Block(capacity) == [i \in 0 .. capacity - 1 |-> Free]

EmptyTable ==
  [entries |-> Block(0), capacity |-> 0, count |-> 0,
   first |-> NoSlot, last |-> NoSlot, order |-> <<>>]

NotMoving ==
  [active |-> FALSE, entries |-> Block(0), capacity |-> 0,
   src |-> NoSlot, first |-> NoSlot, last |-> NoSlot, order |-> <<>>]

NoEntry == [key |-> NoKey, value |-> NoValue]

Init ==
  /\ table = EmptyTable
  /\ move = NotMoving
  /\ pending = NoEntry

(***************************************************************************)
(* Probing.                                                                *)
(***************************************************************************)
Probe(key, capacity, n) == (Hash[key] + n) % capacity

\* Where the probe for a key stops.
Stops(entries, capacity, key) ==
  {n \in 0 .. capacity - 1 :
     entries[Probe(key, capacity, n)].key \in {NoKey, key}}

Least(S) == CHOOSE n \in S : \A k \in S : n <= k

\* The slot of a key, or the free one it would go to.  The loop has no other
\* end: without a slot to stop at there is no result, NoSlot.
FindEntry(entries, capacity, key) ==
  LET stops == Stops(entries, capacity, key)
  IN  IF stops = {} THEN NoSlot ELSE Probe(key, capacity, Least(stops))

\* get, has and get_by_cstr_key; NoValue stands for JSO_FAILURE.
Lookup(t, key) ==
  IF t.count = 0 THEN NoValue
  ELSE LET slot == FindEntry(t.entries, t.capacity, key)
       IN  IF slot = NoSlot THEN NoValue ELSE t.entries[slot].value

(***************************************************************************)
(* Setting a key where there is room.                                      *)
(***************************************************************************)

\* Links a slot behind the last one of a list.
Linked(entries, last, slot) ==
  IF last = NoSlot THEN entries ELSE [entries EXCEPT ![last].next = slot]

\* Mutant: a set links the entry also when its key is there already.
InsertedTwice(t, key, value) ==
  LET slot == FindEntry(t.entries, t.capacity, key)
      isNew == t.entries[slot].key = NoKey
      linked == Linked(t.entries, t.last, slot)
  IN  [entries  |-> [linked EXCEPT ![slot].key = key, ![slot].value = value],
       capacity |-> t.capacity,
       count    |-> IF isNew THEN t.count + 1 ELSE t.count,
       first    |-> IF t.last = NoSlot THEN slot ELSE t.first,
       last     |-> slot,
       order    |-> Append(t.order, slot)]

\* jso_ht_set after the table has grown.
Inserted(t, key, value) ==
  LET slot == FindEntry(t.entries, t.capacity, key)
      isNew == t.entries[slot].key = NoKey
      linked == IF isNew THEN Linked(t.entries, t.last, slot) ELSE t.entries
  IN  [entries  |-> [linked EXCEPT ![slot].key = key, ![slot].value = value],
       capacity |-> t.capacity,
       count    |-> IF isNew THEN t.count + 1 ELSE t.count,
       first    |-> IF isNew /\ t.last = NoSlot THEN slot ELSE t.first,
       last     |-> IF isNew THEN slot ELSE t.last,
       order    |-> IF isNew THEN Append(t.order, slot) ELSE t.order]

\* Mutant: the table grows only when it is full.
NeedsRoomWhenFull(t) == t.count + 1 > t.capacity

\* The load is at most 3/4 of the capacity.
NeedsRoom(t) == 4 * (t.count + 1) > 3 * t.capacity

Idle == ~ move.active /\ pending = NoEntry

SetWithRoom(key, value) ==
  /\ Idle
  /\ ~ NeedsRoom(table)
  /\ table' = Inserted(table, key, value)
  /\ UNCHANGED <<move, pending>>

(***************************************************************************)
(* Growing.                                                                *)
(***************************************************************************)
StartMove(capacity) ==
  /\ capacity <= Room
  /\ move' = [active |-> TRUE, entries |-> Block(capacity),
              capacity |-> capacity, src |-> table.first,
              first |-> NoSlot, last |-> NoSlot, order |-> <<>>]
  /\ UNCHANGED table

SetGrowing(key, value) ==
  /\ Idle
  /\ NeedsRoom(table)
  /\ StartMove(2 * (table.capacity + 1))
  /\ pending' = [key |-> key, value |-> value]

\* size * (1 / 0.75) + 1, cut to an integer.
ResizedCapacity(size) == (4 * size) \div 3 + 1

Resize(size) ==
  /\ Idle
  /\ ResizedCapacity(size) > table.capacity
  /\ StartMove(ResizedCapacity(size))
  /\ UNCHANGED pending

\* Mutant: the moved entries are not linked.
MovedUnlinked(m, entry) ==
  LET slot == FindEntry(m.entries, m.capacity, entry.key)
  IN  [m EXCEPT !.entries[slot].key = entry.key,
                !.entries[slot].value = entry.value,
                !.src = entry.next,
                !.first = IF m.last = NoSlot THEN slot ELSE @,
                !.last = slot,
                !.order = Append(@, slot)]

\* Mutant: the entries are packed, not hashed anew.
MovedPacked(m, entry) ==
  LET slot == Len(m.order)
      filled == [m.entries EXCEPT ![slot].key = entry.key,
                                  ![slot].value = entry.value]
  IN  [m EXCEPT !.entries = Linked(filled, m.last, slot),
                !.src = entry.next,
                !.first = IF m.last = NoSlot THEN slot ELSE @,
                !.last = slot,
                !.order = Append(@, slot)]

Moved(m, entry) ==
  LET slot == FindEntry(m.entries, m.capacity, entry.key)
      filled == [m.entries EXCEPT ![slot].key = entry.key,
                                  ![slot].value = entry.value]
  IN  [m EXCEPT !.entries = Linked(filled, m.last, slot),
                !.src = entry.next,
                !.first = IF m.last = NoSlot THEN slot ELSE @,
                !.last = slot,
                !.order = Append(@, slot)]

MoveEntry ==
  /\ move.active
  /\ move.src # NoSlot
  /\ move' = Moved(move, table.entries[move.src])
  /\ UNCHANGED <<table, pending>>

\* Mutant: the loop does not end.
MoveEndRepeated ==
  /\ move.active
  /\ move.src = NoSlot
  /\ table' = [table EXCEPT !.entries = move.entries,
                            !.capacity = move.capacity,
                            !.first = move.first,
                            !.last = move.last,
                            !.order = move.order]
  /\ UNCHANGED <<move, pending>>

\* The new block replaces the old one.
MoveEnd ==
  /\ move.active
  /\ move.src = NoSlot
  /\ table' = [table EXCEPT !.entries = move.entries,
                            !.capacity = move.capacity,
                            !.first = move.first,
                            !.last = move.last,
                            !.order = move.order]
  /\ move' = NotMoving
  /\ UNCHANGED pending

SetGrown ==
  /\ ~ move.active
  /\ pending # NoEntry
  /\ table' = Inserted(table, pending.key, pending.value)
  /\ pending' = NoEntry
  /\ UNCHANGED move

Clear ==
  /\ Idle
  /\ table' = EmptyTable
  /\ UNCHANGED <<move, pending>>

Next ==
  \/ \E key \in Keys, value \in Values :
       SetWithRoom(key, value) \/ SetGrowing(key, value)
  \/ \E size \in Sizes : Resize(size)
  \/ MoveEntry \/ MoveEnd \/ SetGrown
  \/ Clear

Spec == Init /\ [][Next]_vars

\* The calls are synchronous: a growth and the set behind it are carried on.
FairSpec == Spec /\ WF_vars(MoveEntry \/ MoveEnd \/ SetGrown)

-----------------------------------------------------------------------------
Slots(capacity) == 0 .. capacity - 1
Occupied(entries, capacity) ==
  {i \in Slots(capacity) : entries[i].key # NoKey}

BlockType(capacity) == [Slots(capacity) -> Entry]
Link(capacity) == Slots(capacity) \cup {NoSlot}

TableType(capacity) ==
  [entries : BlockType(capacity), capacity : Nat, count : Nat,
   first : Link(capacity), last : Link(capacity), order : Seq(Slots(capacity))]

MoveType(capacity) ==
  [active : BOOLEAN, entries : BlockType(capacity), capacity : Nat,
   src : Link(table.capacity), first : Link(capacity), last : Link(capacity),
   order : Seq(Slots(capacity))]

\* Every variable keeps its type.
TypeOK ==
  /\ table \in TableType(table.capacity)
  /\ move \in MoveType(move.capacity)
  /\ move.active \/ move = NotMoving
  /\ pending \in [key : Keys, value : Values] \cup {NoEntry}

\* The slots of order are linked from first to last in this order, they are
\* the slots in use, each once, and all others are as calloc left them.
IsList(entries, capacity, first, last, order) ==
  LET n == Len(order)
  IN  /\ first = IF n = 0 THEN NoSlot ELSE order[1]
      /\ last = IF n = 0 THEN NoSlot ELSE order[n]
      /\ \A i \in 1 .. n :
           entries[order[i]].next = IF i = n THEN NoSlot ELSE order[i + 1]
      /\ {order[i] : i \in 1 .. n} = Occupied(entries, capacity)
      /\ \A i, j \in 1 .. n : order[i] = order[j] => i = j
      /\ \A i \in Slots(capacity) \ Occupied(entries, capacity) : entries[i] = Free

\* In both blocks, the list that iteration follows visits every entry once.
ListExact ==
  /\ IsList(table.entries, table.capacity, table.first, table.last, table.order)
  /\ IsList(move.entries, move.capacity, move.first, move.last, move.order)

\* A probe for the key of an entry meets no free slot before that entry, and
\* no other entry has the key.
Findable(entries, capacity) ==
  \A i \in Occupied(entries, capacity) :
    FindEntry(entries, capacity, entries[i].key) = i

\* Every entry is found, however the hashes collide and wherever the table
\* has put it as it grew.
EntriesFound ==
  /\ Findable(table.entries, table.capacity)
  /\ Findable(move.entries, move.capacity)

\* The probe loop ends for every key, also one that is not in the table: the
\* lookups ask for count > 0, a set has room when it inserts, and the block a
\* growth fills has more room than there are entries.
ProbesEnd ==
  \A key \in Keys :
    /\ table.count > 0 \/ (pending # NoEntry /\ ~ move.active) =>
         Stops(table.entries, table.capacity, key) # {}
    /\ move.active => Stops(move.entries, move.capacity, key) # {}

\* count is the number of entries, and at most 3/4 of the slots are in use,
\* also in the block that is filled, which is the larger one, and with the
\* entry that is waiting.
LoadBound ==
  LET capacity == IF move.active THEN move.capacity ELSE table.capacity
  IN  /\ table.count = Len(table.order)
      /\ 4 * table.count <= 3 * table.capacity
      /\ 4 * table.count <= 3 * capacity
      /\ pending # NoEntry => 4 * (table.count + 1) <= 3 * capacity
      /\ move.active => table.capacity < move.capacity

\* A growth has moved the first entries of the list, in order.
MoveExact ==
  move.active =>
    LET n == Len(move.order)
    IN  /\ n <= table.count
        /\ move.src = IF n = table.count THEN NoSlot ELSE table.order[n + 1]
        /\ \A i \in 1 .. n :
             LET old == table.entries[table.order[i]]
                 new == move.entries[move.order[i]]
             IN  new.key = old.key /\ new.value = old.value

EntriesOf(t) ==
  [i \in DOMAIN t.order |-> [key   |-> t.entries[t.order[i]].key,
                             value |-> t.entries[t.order[i]].value]]

Map == INSTANCE OrderedMap WITH map <- EntriesOf(table)

\* Setting, growing and clearing are those of a map that keeps the order in
\* which its keys were first set; a growth is not seen at all.
ImplementsOrderedMap == Map!Spec

\* The lookups answer with what that map has.
LookupExact ==
  \A key \in Keys :
    LET found == {e \in {EntriesOf(table)[i] : i \in DOMAIN table.order} : e.key = key}
    IN  {Lookup(table, key)} =
          IF found = {} THEN {NoValue} ELSE {e.value : e \in found}

\* A growth ends, and the set behind it is carried out.
GrowthEnds == (~ Idle) ~> Idle
=============================================================================
