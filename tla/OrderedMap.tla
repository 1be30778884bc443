----------------------------- MODULE OrderedMap -----------------------------
(***************************************************************************)
(* What the hash table of src/jso_ht.c promises: a map that remembers the  *)
(* order in which its keys were first set.  Entries are [key, value].      *)
(***************************************************************************)
EXTENDS Integers, Sequences

VARIABLE map

MapKeys(m) == {m[i].key : i \in DOMAIN m}

Init == map = <<>>

\* A known key keeps its place and gets the new value, a new key goes last.
Put ==
  \/ /\ DOMAIN map' = DOMAIN map
     /\ \E i \in DOMAIN map :
          /\ map'[i].key = map[i].key
          /\ \A k \in DOMAIN map \ {i} : map'[k] = map[k]
  \/ /\ Len(map') = Len(map) + 1
     /\ \A i \in DOMAIN map : map'[i] = map[i]
     /\ map'[Len(map')].key \notin MapKeys(map)

Clear == map' = <<>>

Spec == Init /\ [][Put \/ Clear]_map
=============================================================================
