-------------------------- MODULE ParserSession_proofs --------------------------
(***************************************************************************)
(* Who owns the memory of the values while a text is parsed: for texts of  *)
(* any length and nesting, whatever allocations fail.                      *)
(*                                                                         *)
(* IndInv is inductive.  That no memory has two owners and none is lost    *)
(* is not: a reduction reads the symbols below the top of the stack, so    *)
(* the invariant also says what the grammar leaves there (Follows), what   *)
(* kinds of symbol own something (Contents), that the members of an object *)
(* being read own disjoint parts of its memory, and who may own something  *)
(* in which phase (PhaseExact).                                            *)
(***************************************************************************)
EXTENDS ParserSession, SequenceTheorems, TLAPS

(***************************************************************************)
(* The inductive invariant.                                                *)
(***************************************************************************)
IsSeq(s) == s \in Seq({s[i] : i \in DOMAIN s})

\* The memory of a symbol or a value: identifiers from 1 on.
Memory == SUBSET (Nat \ {0})

\* The symbols whose semantic value owns nothing.
OwnsNothing == Punctuation \cup {"[@", "{@"}

IsSymbol(x) ==
  /\ x = [sym |-> x.sym, ids |-> x.ids, key |-> x.key, name |-> x.name,
          tree |-> x.tree, items |-> x.items]
  /\ x.ids \in Memory
  /\ x.key \in Nat

ItemOwns(item) == item.ids \cup {item.key}

\* The members of an object that is read: each owns its key apart from its value,
\* two members own different memory and have different names, and what they own is
\* among what the object owns.
MembersApart(x) ==
  /\ IsSeq(x.items)
  /\ \A i \in DOMAIN x.items :
       /\ x.items[i].ids \in Memory
       /\ x.items[i].key \in Nat \ {0}
       /\ x.items[i].key \notin x.items[i].ids
       /\ ItemOwns(x.items[i]) \subseteq x.ids
  /\ \A i, j \in DOMAIN x.items :
       i # j => /\ x.items[i].name # x.items[j].name
                /\ ItemOwns(x.items[i]) \cap ItemOwns(x.items[j]) = {}

\* What a symbol owns by its kind.
Contents(x) ==
  /\ x.sym \in OwnsNothing => x.ids = {}
  /\ (x.key # NoKey) <=> (x.sym = "pair")
  /\ x.key \notin x.ids
  /\ x.sym \in {"STRING", "key"} => \E id \in x.ids : x.ids = {id}
  /\ x.sym = "member" => MembersApart(x)

\* What is below a symbol on the stack.
Follows(sym, below, second) ==
  /\ sym = ":" => below = "key"
  /\ sym = "," => below \in {"element", "member"}
  /\ sym \in {"]", "element", "elements"} => below = "[@"
  /\ sym \in {"}", "member", "members"} => below = "{@"
  /\ sym \in {"STRING", "key", "pair"} =>
       below = "{@" \/ (below = "," /\ second = "member")

SymAt(s, i) == IF i \in DOMAIN s THEN s[i].sym ELSE "$"

Owned(s) == UNION {SymbolIds(s[i]) : i \in DOMAIN s}

StackSound(s) ==
  /\ IsSeq(s)
  /\ \A i \in DOMAIN s : /\ IsSymbol(s[i])
                         /\ Contents(s[i])
                         /\ Follows(s[i].sym, SymAt(s, i - 1), SymAt(s, i - 2))
  /\ \A i, j \in DOMAIN s : i # j => SymbolIds(s[i]) \cap SymbolIds(s[j]) = {}

\* The memory is divided between the stack, the refused token, the result, the caller and
\* the allocator.
Divided ==
  /\ Owned(stack) \cap lookahead.ids = {}
  /\ Owned(stack) \cap result.ids = {}
  /\ Owned(stack) \cap answer.value.ids = {}
  /\ Owned(stack) \cap heap.freed = {}
  /\ lookahead.ids \cap result.ids = {}
  /\ lookahead.ids \cap answer.value.ids = {}
  /\ lookahead.ids \cap heap.freed = {}
  /\ result.ids \cap answer.value.ids = {}
  /\ result.ids \cap heap.freed = {}
  /\ answer.value.ids \cap heap.freed = {}

AllHeld ==
  Owned(stack) \cup lookahead.ids \cup result.ids \cup answer.value.ids \cup heap.freed

IsHeap(h) ==
  /\ h = [next |-> h.next, freed |-> h.freed, failures |-> h.failures]
  /\ h.next \in Nat \ {0}
  /\ h.failures \in Nat

\* Who may own something in which phase, and how far the result is decided.
PhaseExact ==
  /\ phase \in {"start", "parsing"} => lookahead.ids = {} /\ result.ids = {}
  /\ phase \in {"accepted", "rejected", "failing"} => lookahead.ids = {}
  /\ phase = "failing" => result.ids = {}
  /\ phase \notin {"returned", "crashed"} => answer.value.ids = {}
  /\ phase = "accepted" => result.kind = "DATA"
  /\ phase \in {"unwinding", "rejected"} => result.kind # "DATA"

IndInv ==
  /\ StackSound(stack)
  /\ IsHeap(heap)
  /\ Divided
  /\ AllHeld \subseteq Ids
  /\ NothingLost
  /\ PhaseExact
  /\ ErrorMoved

-----------------------------------------------------------------------------
(***************************************************************************)
(* Sequences.                                                              *)
(***************************************************************************)

\* A sequence of anything is a sequence of its own elements.
LEMMA SeqOfElements ==
  ASSUME NEW S, NEW s \in Seq(S)
  PROVE  IsSeq(s)
  <1>1. s \in [1 .. Len(s) -> S] /\ Len(s) \in Nat /\ DOMAIN s = 1 .. Len(s)
    BY LenProperties
  <1>2. s \in [1 .. Len(s) -> {s[i] : i \in DOMAIN s}]
    BY <1>1
  <1> QED
    BY <1>1, <1>2, SeqDef DEF IsSeq

\* The domain of a sequence.
LEMMA SeqFacts ==
  ASSUME NEW s, IsSeq(s)
  PROVE  Len(s) \in Nat /\ DOMAIN s = 1 .. Len(s)
  BY LenProperties DEF IsSeq

\* Cutting a sequence.
LEMMA CutSeq ==
  ASSUME NEW s, IsSeq(s), NEW n \in 0 .. Len(s)
  PROVE  /\ IsSeq(SubSeq(s, 1, n))
         /\ Len(SubSeq(s, 1, n)) = n
         /\ DOMAIN SubSeq(s, 1, n) = 1 .. n
         /\ \A i \in 1 .. n : SubSeq(s, 1, n)[i] = s[i]
  <1> DEFINE t == SubSeq(s, 1, n)
             S == {s[i] : i \in DOMAIN s}
  <1>1. Len(s) \in Nat /\ DOMAIN s = 1 .. Len(s) /\ n \in Nat
    BY SeqFacts
  <1>2. \A i \in 1 .. n : s[i] \in S
    BY <1>1
  <1>3. /\ t \in Seq(S)
        /\ Len(t) = IF 1 <= n THEN n - 1 + 1 ELSE 0
        /\ \A i \in 1 .. n - 1 + 1 : t[i] = s[1 + i - 1]
    <2> HIDE DEF S
    <2> QED
      BY <1>1, <1>2, SubSeqProperties
  <1>4. IsSeq(t)
    BY <1>3, SeqOfElements
  <1> QED
    BY <1>1, <1>3, <1>4, SeqFacts

\* Appending to a sequence.
LEMMA GrowSeq ==
  ASSUME NEW s, IsSeq(s), NEW x
  PROVE  /\ IsSeq(Append(s, x))
         /\ Len(Append(s, x)) = Len(s) + 1
         /\ DOMAIN Append(s, x) = 1 .. Len(s) + 1
         /\ \A i \in 1 .. Len(s) : Append(s, x)[i] = s[i]
         /\ Append(s, x)[Len(s) + 1] = x
  <1> DEFINE S == {s[i] : i \in DOMAIN s}
             T == S \cup {x}
  <1>1. s \in Seq(S)
    BY DEF IsSeq
  <1>2. s \in Seq(T) /\ x \in T
    <2> HIDE DEF S
    <2> QED
      BY <1>1, SeqMonotonic
  <1> HIDE DEF T
  <1>3. /\ Append(s, x) \in Seq(T)
        /\ Len(Append(s, x)) = Len(s) + 1
        /\ \A i \in 1 .. Len(s) : Append(s, x)[i] = s[i]
        /\ Append(s, x)[Len(s) + 1] = x
    BY <1>2, AppendProperties
  <1>4. IsSeq(Append(s, x))
    BY <1>3, SeqOfElements
  <1> QED
    BY <1>3, <1>4, SeqFacts
-----------------------------------------------------------------------------
(***************************************************************************)
(* The stack: what popping and pushing does to it.                         *)
(***************************************************************************)

\* What the upper n symbols own.
OwnedAbove(s, n) == UNION {SymbolIds(s[i]) : i \in Len(s) - n + 1 .. Len(s)}

\* t is s without its upper n symbols.
IsCut(s, t, n) ==
  /\ IsSeq(t)
  /\ Len(t) = Len(s) - n
  /\ DOMAIN t = 1 .. Len(s) - n
  /\ \A i \in 1 .. Len(s) - n : t[i] = s[i]

\* Popping leaves a sound stack, which owns nothing of what was popped.
LEMMA CutSound ==
  ASSUME NEW s, StackSound(s), NEW n \in Nat, n <= Len(s), NEW t, IsCut(s, t, n)
  PROVE  /\ StackSound(t)
         /\ Owned(s) = Owned(t) \cup OwnedAbove(s, n)
         /\ Owned(t) \cap OwnedAbove(s, n) = {}
  <1>1. /\ IsSeq(s)
        /\ \A i \in DOMAIN s : /\ IsSymbol(s[i])
                               /\ Contents(s[i])
                               /\ Follows(s[i].sym, SymAt(s, i - 1), SymAt(s, i - 2))
        /\ \A i, j \in DOMAIN s : i # j => SymbolIds(s[i]) \cap SymbolIds(s[j]) = {}
    BY DEF StackSound
  <1>2. Len(s) \in Nat /\ DOMAIN s = 1 .. Len(s) /\ Len(s) - n \in 0 .. Len(s)
    BY <1>1, SeqFacts
  <1>3. /\ IsSeq(t)
        /\ DOMAIN t = 1 .. Len(s) - n
        /\ \A i \in 1 .. Len(s) - n : t[i] = s[i]
    BY DEF IsCut
  <1>4. ASSUME NEW i \in DOMAIN t
        PROVE  SymAt(t, i - 1) = SymAt(s, i - 1) /\ SymAt(t, i - 2) = SymAt(s, i - 2)
    <2>1. \A k \in Int : k <= i => (k \in DOMAIN t <=> k \in DOMAIN s)
      BY <1>2, <1>3
    <2>2. \A k \in DOMAIN t : t[k] = s[k]
      BY <1>3
    <2>3. i - 1 \in Int /\ i - 2 \in Int /\ i - 1 <= i /\ i - 2 <= i
      BY <1>3, <1>2
    <2> QED
      BY <2>1, <2>2, <2>3 DEF SymAt
  <1>5. DOMAIN t \subseteq DOMAIN s /\ \A i \in DOMAIN t : t[i] = s[i]
    BY <1>2, <1>3
  <1>6. StackSound(t)
    BY <1>1, <1>3, <1>4, <1>5 DEF StackSound
  <1>7. /\ DOMAIN s = DOMAIN t \cup (Len(s) - n + 1 .. Len(s))
        /\ DOMAIN t \cap (Len(s) - n + 1 .. Len(s)) = {}
    BY <1>2, <1>3
  <1>8. Owned(s) = Owned(t) \cup OwnedAbove(s, n)
    BY <1>5, <1>7 DEF Owned, OwnedAbove
  <1>9. Owned(t) \cap OwnedAbove(s, n) = {}
    <2> SUFFICES ASSUME NEW id \in Owned(t), id \in OwnedAbove(s, n)
                 PROVE  FALSE
      OBVIOUS
    <2>1. PICK i \in DOMAIN t : id \in SymbolIds(t[i])
      BY DEF Owned
    <2>2. PICK j \in Len(s) - n + 1 .. Len(s) : id \in SymbolIds(s[j])
      BY DEF OwnedAbove
    <2> QED
      BY <1>1, <1>5, <1>7, <2>1, <2>2
  <1> QED
    BY <1>6, <1>8, <1>9

\* Leaving out the last n elements of a sequence is such a cut.
LEMMA CutIsCut ==
  ASSUME NEW s, IsSeq(s), NEW n \in Nat, n <= Len(s)
  PROVE  IsCut(s, SubSeq(s, 1, Len(s) - n), n)
  <1>1. Len(s) \in Nat /\ Len(s) - n \in 0 .. Len(s)
    BY SeqFacts
  <1> QED
    BY <1>1, CutSeq DEF IsCut

\* Pushing a symbol that follows the top one and owns nothing the stack owns.
LEMMA PushSound ==
  ASSUME NEW s, StackSound(s), NEW x, IsSymbol(x), Contents(x),
         Follows(x.sym, SymAt(s, Len(s)), SymAt(s, Len(s) - 1)),
         SymbolIds(x) \cap Owned(s) = {}
  PROVE  /\ StackSound(Append(s, x))
         /\ Owned(Append(s, x)) = Owned(s) \cup SymbolIds(x)
  <1> DEFINE t == Append(s, x)
  <1>1. /\ IsSeq(s)
        /\ \A i \in DOMAIN s : /\ IsSymbol(s[i])
                               /\ Contents(s[i])
                               /\ Follows(s[i].sym, SymAt(s, i - 1), SymAt(s, i - 2))
        /\ \A i, j \in DOMAIN s : i # j => SymbolIds(s[i]) \cap SymbolIds(s[j]) = {}
    BY DEF StackSound
  <1>2. Len(s) \in Nat /\ DOMAIN s = 1 .. Len(s)
    BY <1>1, SeqFacts
  <1>3. /\ IsSeq(t)
        /\ DOMAIN t = 1 .. Len(s) + 1
        /\ \A i \in 1 .. Len(s) : t[i] = s[i]
        /\ t[Len(s) + 1] = x
    BY <1>1, GrowSeq
  <1> HIDE DEF t
  <1>4. \A i \in DOMAIN t : SymAt(t, i - 1) = SymAt(s, i - 1) /\ SymAt(t, i - 2) = SymAt(s, i - 2)
    <2> SUFFICES ASSUME NEW i \in DOMAIN t, NEW k \in Int, k < i
                 PROVE  SymAt(t, k) = SymAt(s, k)
      BY <1>3
    <2>1. k \in DOMAIN t <=> k \in DOMAIN s
      BY <1>2, <1>3
    <2>2. k \in DOMAIN s => t[k] = s[k]
      BY <1>2, <1>3
    <2> QED
      BY <2>1, <2>2 DEF SymAt
  <1>5. \A i \in DOMAIN t : /\ IsSymbol(t[i])
                            /\ Contents(t[i])
                            /\ Follows(t[i].sym, SymAt(t, i - 1), SymAt(t, i - 2))
    <2> SUFFICES ASSUME NEW i \in DOMAIN t
                 PROVE  /\ IsSymbol(t[i])
                        /\ Contents(t[i])
                        /\ Follows(t[i].sym, SymAt(t, i - 1), SymAt(t, i - 2))
      OBVIOUS
    <2>1. CASE i \in DOMAIN s
      BY <1>1, <1>2, <1>3, <1>4, <2>1
    <2>2. CASE i = Len(s) + 1
      <3>1. i - 1 = Len(s) /\ i - 2 = Len(s) - 1
        BY <1>2, <2>2
      <3> QED
        BY <1>3, <1>4, <2>2, <3>1
    <2> QED
      BY <1>2, <1>3, <2>1, <2>2
  <1>6. \A i \in DOMAIN s : SymbolIds(s[i]) \subseteq Owned(s)
    BY DEF Owned
  <1>7. \A i, j \in DOMAIN t : i # j => SymbolIds(t[i]) \cap SymbolIds(t[j]) = {}
    <2> SUFFICES ASSUME NEW i \in DOMAIN t, NEW j \in DOMAIN t, i # j
                 PROVE  SymbolIds(t[i]) \cap SymbolIds(t[j]) = {}
      OBVIOUS
    <2>1. CASE i \in DOMAIN s /\ j \in DOMAIN s
      BY <1>1, <1>2, <1>3, <2>1
    <2>2. CASE i = Len(s) + 1 /\ j \in DOMAIN s
      BY <1>2, <1>3, <1>6, <2>2
    <2>3. CASE j = Len(s) + 1 /\ i \in DOMAIN s
      BY <1>2, <1>3, <1>6, <2>3
    <2> QED
      BY <1>2, <1>3, <2>1, <2>2, <2>3
  <1>8. Owned(t) = Owned(s) \cup SymbolIds(x)
    BY <1>2, <1>3 DEF Owned
  <1> QED
    BY <1>3, <1>5, <1>7, <1>8 DEF StackSound, t

-----------------------------------------------------------------------------
(***************************************************************************)
(* The holders of memory one by one and all together.                      *)
(***************************************************************************)

\* H lists what the symbols of s own, then a, b, c and d.
IsHolders(H, s, a, b, c, d) ==
  /\ Len(s) \in Nat /\ DOMAIN s = 1 .. Len(s)
  /\ DOMAIN H = 1 .. Len(s) + 4
  /\ \A i \in DOMAIN s : H[i] = SymbolIds(s[i])
  /\ H[Len(s) + 1] = a /\ H[Len(s) + 2] = b
  /\ H[Len(s) + 3] = c /\ H[Len(s) + 4] = d

\* The sequence of the holders, its places one by one.
LEMMA HoldersList ==
  ASSUME NEW s, IsSeq(s), NEW a, NEW b, NEW c, NEW d
  PROVE  IsHolders([i \in DOMAIN s |-> SymbolIds(s[i])] \o <<a, b, c, d>>, s, a, b, c, d)
  <1> DEFINE f == [i \in DOMAIN s |-> SymbolIds(s[i])]
             g == <<a, b, c, d>>
             S == {f[i] : i \in DOMAIN s} \cup {a, b, c, d}
             H == f \o g
  <1>1. Len(s) \in Nat /\ DOMAIN s = 1 .. Len(s)
    BY SeqFacts
  <1>2. f \in [1 .. Len(s) -> S]
    BY <1>1
  <1>3. f \in Seq(S)
    BY <1>1, <1>2, SeqDef
  <1>4. Len(f) = Len(s)
    BY <1>1, <1>2, <1>3, LenProperties
  <1>5. g \in Seq(S) /\ Len(g) = 4
    OBVIOUS
  <1>6. \A i \in DOMAIN s : f[i] = SymbolIds(s[i])
    OBVIOUS
  <1>7. g[1] = a /\ g[2] = b /\ g[3] = c /\ g[4] = d
    OBVIOUS
  <1> HIDE DEF f, g, S
  <1>9. /\ H \in Seq(S)
        /\ Len(H) = Len(s) + 4
        /\ \A i \in 1 .. Len(s) + 4 : H[i] = IF i <= Len(s) THEN f[i] ELSE g[i - Len(s)]
    <2>1. /\ H \in Seq(S)
          /\ Len(H) = Len(f) + Len(g)
          /\ \A i \in 1 .. Len(f) + Len(g) :
               H[i] = IF i <= Len(f) THEN f[i] ELSE g[i - Len(f)]
      BY <1>3, <1>5, ConcatProperties
    <2> QED
      BY <1>1, <1>4, <1>5, <2>1
  <1> HIDE DEF H
  <1>10. DOMAIN H = 1 .. Len(s) + 4
    BY <1>9, LenProperties
  <1>11. \A i \in DOMAIN s : H[i] = SymbolIds(s[i])
    BY <1>1, <1>6, <1>9
  <1>12. /\ H[Len(s) + 1] = g[1] /\ H[Len(s) + 2] = g[2]
         /\ H[Len(s) + 3] = g[3] /\ H[Len(s) + 4] = g[4]
    <2>1. \A k \in 1 .. 4 : H[Len(s) + k] = g[k]
      BY <1>1, <1>9
    <2> QED
      BY <2>1
  <1>13. IsHolders(H, s, a, b, c, d)
    BY <1>1, <1>7, <1>10, <1>11, <1>12 DEF IsHolders
  <1> QED
    BY <1>13 DEF H, f, g

\* What is held by someone.
LEMMA HoldersUnion ==
  ASSUME NEW s, NEW a, NEW b, NEW c, NEW d, NEW H, IsHolders(H, s, a, b, c, d)
  PROVE  UNION {H[i] : i \in DOMAIN H} = Owned(s) \cup a \cup b \cup c \cup d
  <1>1. /\ Len(s) \in Nat /\ DOMAIN s = 1 .. Len(s)
        /\ DOMAIN H = 1 .. Len(s) + 4
        /\ \A i \in DOMAIN s : H[i] = SymbolIds(s[i])
        /\ H[Len(s) + 1] = a /\ H[Len(s) + 2] = b
        /\ H[Len(s) + 3] = c /\ H[Len(s) + 4] = d
    BY DEF IsHolders
  <1> DEFINE All == UNION {H[i] : i \in DOMAIN H}
  <1>2. DOMAIN H = DOMAIN s \cup {Len(s) + 1, Len(s) + 2, Len(s) + 3, Len(s) + 4}
    BY <1>1
  <1>3. Owned(s) \subseteq All
    BY <1>1, <1>2 DEF Owned
  <1>4. a \subseteq All /\ b \subseteq All /\ c \subseteq All /\ d \subseteq All
    BY <1>1, <1>2
  <1>5. ASSUME NEW i \in DOMAIN H
        PROVE  H[i] \subseteq Owned(s) \cup a \cup b \cup c \cup d
    BY <1>1, <1>2 DEF Owned
  <1>6. All \subseteq Owned(s) \cup a \cup b \cup c \cup d
    BY <1>5
  <1> HIDE DEF All
  <1>7. All = Owned(s) \cup a \cup b \cup c \cup d
    BY <1>3, <1>4, <1>6
  <1> QED
    BY <1>7 DEF All

\* Together the holders hold what AllHeld says.
LEMMA HeldIsAllHeld ==
  ASSUME IsSeq(stack)
  PROVE  Held = AllHeld
  <1>1. IsHolders(Holders, stack, lookahead.ids, result.ids, answer.value.ids, heap.freed)
    BY HoldersList DEF Holders
  <1> QED
    BY <1>1, HoldersUnion DEF Held, AllHeld

\* The same after a step.
LEMMA HeldIsAllHeldNext ==
  ASSUME IsSeq(stack')
  PROVE  Held' = AllHeld'
  <1>1. IsHolders(Holders', stack', lookahead'.ids, result'.ids, answer'.value.ids,
                  heap'.freed)
    BY HoldersList DEF Holders
  <1> QED
    BY <1>1, HoldersUnion DEF Held, AllHeld

\* Divided memory of a sound stack is what OwnedOnce asks for.
LEMMA DividedOnce ==
  ASSUME StackSound(stack), Divided
  PROVE  OwnedOnce
  <1> DEFINE n == Len(stack)
  <1>1. IsSeq(stack)
    BY DEF StackSound
  <1>2. /\ n \in Nat /\ DOMAIN stack = 1 .. n
        /\ DOMAIN Holders = 1 .. n + 4
        /\ \A i \in DOMAIN stack : Holders[i] = SymbolIds(stack[i])
        /\ Holders[n + 1] = lookahead.ids /\ Holders[n + 2] = result.ids
        /\ Holders[n + 3] = answer.value.ids /\ Holders[n + 4] = heap.freed
    <2>1. IsHolders(Holders, stack, lookahead.ids, result.ids, answer.value.ids, heap.freed)
      BY <1>1, HoldersList DEF Holders
    <2> QED
      BY <2>1 DEF IsHolders
  <1>3. \A i \in DOMAIN stack : Holders[i] \subseteq Owned(stack)
    BY <1>2 DEF Owned
  <1>4. \A i, j \in DOMAIN stack : i # j => Holders[i] \cap Holders[j] = {}
    BY <1>2 DEF StackSound
  <1>5. ASSUME NEW i \in DOMAIN stack, NEW j \in n + 1 .. n + 4
        PROVE  Holders[i] \cap Holders[j] = {}
    BY <1>2, <1>3, <1>5 DEF Divided
  <1>6. \A i, j \in n + 1 .. n + 4 : i # j => Holders[i] \cap Holders[j] = {}
    BY <1>2 DEF Divided
  <1> QED
    BY <1>2, <1>4, <1>5, <1>6 DEF OwnedOnce
-----------------------------------------------------------------------------
(***************************************************************************)
(* The two kinds of step of the parser.                                    *)
(***************************************************************************)

\* A part of the stack's lower end is all of it.
LEMMA PoppedNone ==
  ASSUME StackSound(stack)
  PROVE  Popped(0) = stack
  <1>1. IsSeq(stack) /\ Len(stack) \in Nat
    BY SeqFacts DEF StackSound
  <1>2. SubSeq(stack, 1, Len(stack)) = stack
    BY <1>1, SubSeqFull DEF IsSeq
  <1> QED
    BY <1>1, <1>2 DEF Popped

\* Popping symbols leaves a sound stack that owns what the popped symbols did not.
LEMMA PoppedSound ==
  ASSUME StackSound(stack), NEW n \in Nat, n <= Len(stack)
  PROVE  /\ StackSound(Popped(n))
         /\ Len(Popped(n)) = Len(stack) - n
         /\ Owned(stack) = Owned(Popped(n)) \cup OwnedAbove(stack, n)
         /\ Owned(Popped(n)) \cap OwnedAbove(stack, n) = {}
         /\ SymAt(Popped(n), Len(Popped(n))) = At(n)
         /\ SymAt(Popped(n), Len(Popped(n)) - 1) = At(n + 1)
  <1>1. IsSeq(stack) /\ Len(stack) \in Nat
    BY SeqFacts DEF StackSound
  <1>2. IsCut(stack, Popped(n), n)
    BY <1>1, CutIsCut DEF Popped
  <1> HIDE DEF Popped
  <1>3. /\ StackSound(Popped(n))
        /\ Owned(stack) = Owned(Popped(n)) \cup OwnedAbove(stack, n)
        /\ Owned(Popped(n)) \cap OwnedAbove(stack, n) = {}
    BY <1>2, CutSound
  <1>4. SymAt(Popped(n), Len(Popped(n))) = At(n)
    BY <1>1, <1>2 DEF IsCut, SymAt, At
  <1>5. SymAt(Popped(n), Len(Popped(n)) - 1) = At(n + 1)
    BY <1>1, <1>2 DEF IsCut, SymAt, At
  <1> QED
    BY <1>2, <1>3, <1>4, <1>5 DEF IsCut

\* The fields of the invariant that only the phases disturb.
Fresh(h) == heap.next .. h.next - 1

\* h is a heap later than the one there is, in which F is freed.
Later(h, F) ==
  /\ IsHeap(h)
  /\ h.next >= heap.next
  /\ h.failures >= heap.failures
  /\ h.freed = heap.freed \cup F

\* The upper n symbols give what they own to the symbol that replaces them, free
\* it or, for the values of a repeated name, lose it.
LEMMA ContinueStep ==
  ASSUME IndInv, phase = "parsing", NEW n \in Nat, n <= Len(stack),
         NEW x, IsSymbol(x), Contents(x), Follows(x.sym, At(n), At(n + 1)),
         NEW h, NEW F, Later(h, F), Continues(h, Pushed(n, x)),
         F \subseteq OwnedAbove(stack, n),
         SymbolIds(x) \subseteq OwnedAbove(stack, n) \cup Fresh(h),
         SymbolIds(x) \cap F = {},
         replaced \subseteq replaced',
         replaced' \subseteq replaced \cup OwnedAbove(stack, n),
         ~ Validates => OwnedAbove(stack, n) \cup Fresh(h)
                          \subseteq SymbolIds(x) \cup F \cup replaced',
         UNCHANGED <<options, lookahead, answer>>
  PROVE  IndInv'
  <1>1. /\ stack' = Append(Popped(n), x)
        /\ heap' = h
        /\ result' = result /\ phase' = phase /\ options' = options
        /\ lookahead' = lookahead /\ answer' = answer
    BY DEF Continues, Pushed
  <1>2. /\ StackSound(stack) /\ IsHeap(heap) /\ Divided
        /\ AllHeld \subseteq Ids /\ NothingLost /\ PhaseExact /\ ErrorMoved
    BY DEF IndInv
  <1> DEFINE rest == Owned(Popped(n))
             top == OwnedAbove(stack, n)
  <1>3. /\ StackSound(Popped(n))
        /\ Owned(stack) = rest \cup top
        /\ rest \cap top = {}
        /\ Follows(x.sym, SymAt(Popped(n), Len(Popped(n))),
                   SymAt(Popped(n), Len(Popped(n)) - 1))
    BY <1>2, PoppedSound
  <1>4. /\ lookahead.ids = {} /\ result.ids = {} /\ answer.value.ids = {}
        /\ Owned(stack) \cap heap.freed = {}
        /\ Owned(stack) \subseteq Ids /\ heap.freed \subseteq Ids
    BY <1>2 DEF PhaseExact, Divided, AllHeld
  <1>5. /\ Ids \cap Fresh(h) = {}
        /\ Ids' = Ids \cup Fresh(h)
    BY <1>1, <1>2 DEF Ids, Fresh, Later, IsHeap
  <1>6. SymbolIds(x) \cap rest = {}
    BY <1>3, <1>4, <1>5
  <1>7. StackSound(stack') /\ Owned(stack') = rest \cup SymbolIds(x)
    BY <1>1, <1>3, <1>6, PushSound
  <1>8. heap'.freed = heap.freed \cup F /\ IsHeap(heap')
    BY <1>1 DEF Later
  <1> HIDE DEF rest, top
  <1>9. Divided' /\ AllHeld' \subseteq Ids'
    BY <1>1, <1>3, <1>4, <1>5, <1>7, <1>8 DEF Divided, AllHeld, top
  <1>10. NothingLost'
    <2> SUFFICES ASSUME heap'.failures = 0, ~ Validates', phase' # "crashed"
                 PROVE  Ids' = Held' \cup replaced'
      BY DEF NothingLost
    <2>1. heap.failures = 0 /\ ~ Validates /\ phase # "crashed"
      BY <1>1, <1>2 DEF Later, IsHeap, Validates
    <2>2. Ids = AllHeld \cup replaced
      BY <1>2, <2>1, HeldIsAllHeld DEF NothingLost, StackSound
    <2>3. AllHeld = rest \cup top \cup heap.freed
      BY <1>3, <1>4 DEF AllHeld
    <2>4. AllHeld' = rest \cup SymbolIds(x) \cup heap.freed \cup F
      BY <1>1, <1>4, <1>7, <1>8 DEF AllHeld
    <2>5. Held' = AllHeld'
      BY <1>7, HeldIsAllHeldNext DEF StackSound
    <2>6. top \cup Fresh(h) \subseteq SymbolIds(x) \cup F \cup replaced'
      BY <2>1 DEF top
    <2>7. SymbolIds(x) \cup F \cup replaced' \subseteq top \cup Fresh(h) \cup replaced
      BY DEF top
    <2> QED
      BY <1>5, <2>2, <2>3, <2>4, <2>5, <2>6, <2>7
  <1>11. PhaseExact' /\ ErrorMoved'
    BY <1>1, <1>2 DEF PhaseExact, ErrorMoved
  <1> QED
    BY <1>7, <1>8, <1>9, <1>10, <1>11 DEF IndInv

\* The upper n symbols go and the parser leaves the rules: what they and the steps to h
\* took becomes the result's or the refused token's, or is lost to a failed allocation.
LEMMA LeaveStep ==
  ASSUME IndInv, phase = "parsing", NEW n \in Nat, n <= Len(stack),
         NEW h, Later(h, {}), heap' = h, stack' = Popped(n),
         phase' \in {"unwinding", "accepted"},
         phase' = "accepted" => lookahead'.ids = {} /\ result'.kind = "DATA",
         phase' = "unwinding" => result'.kind # "DATA",
         result'.ids \cup lookahead'.ids \subseteq OwnedAbove(stack, n) \cup Fresh(h),
         result'.ids \cap lookahead'.ids = {},
         h.failures = 0 => OwnedAbove(stack, n) \cup Fresh(h)
                             \subseteq result'.ids \cup lookahead'.ids,
         UNCHANGED <<options, replaced, answer>>
  PROVE  IndInv'
  <1>2. /\ StackSound(stack) /\ IsHeap(heap) /\ Divided
        /\ AllHeld \subseteq Ids /\ NothingLost /\ PhaseExact /\ ErrorMoved
    BY DEF IndInv
  <1> DEFINE rest == Owned(Popped(n))
             top == OwnedAbove(stack, n)
  <1>3. /\ StackSound(stack') /\ Owned(stack') = rest
        /\ Owned(stack) = rest \cup top
        /\ rest \cap top = {}
    BY <1>2, PoppedSound
  <1>4. /\ lookahead.ids = {} /\ result.ids = {} /\ answer.value.ids = {}
        /\ Owned(stack) \cap heap.freed = {}
        /\ Owned(stack) \subseteq Ids /\ heap.freed \subseteq Ids
    BY <1>2 DEF PhaseExact, Divided, AllHeld
  <1>5. /\ Ids \cap Fresh(h) = {}
        /\ Ids' = Ids \cup Fresh(h)
    BY <1>2 DEF Ids, Fresh, Later, IsHeap
  <1>8. heap'.freed = heap.freed /\ IsHeap(heap') /\ answer'.value.ids = {}
    BY <1>4 DEF Later
  <1>9. /\ result'.ids \cup lookahead'.ids \subseteq top \cup Fresh(h)
        /\ h.failures = 0 => top \cup Fresh(h) \subseteq result'.ids \cup lookahead'.ids
    OBVIOUS
  <1> HIDE DEF rest, top
  <1>10. Divided' /\ AllHeld' \subseteq Ids'
    BY <1>3, <1>4, <1>5, <1>8, <1>9 DEF Divided, AllHeld
  <1>11. NothingLost'
    <2> SUFFICES ASSUME heap'.failures = 0, ~ Validates', phase' # "crashed"
                 PROVE  Ids' = Held' \cup replaced'
      BY DEF NothingLost
    <2>1. heap.failures = 0 /\ ~ Validates /\ phase # "crashed"
      BY <1>2 DEF Later, IsHeap, Validates
    <2>2. Ids = AllHeld \cup replaced
      BY <1>2, <2>1, HeldIsAllHeld DEF NothingLost, StackSound
    <2>3. AllHeld = rest \cup top \cup heap.freed
      BY <1>3, <1>4 DEF AllHeld
    <2>4. AllHeld' = rest \cup lookahead'.ids \cup result'.ids \cup heap.freed
      BY <1>3, <1>8 DEF AllHeld
    <2>5. Held' = AllHeld'
      BY <1>3, HeldIsAllHeldNext DEF StackSound
    <2> QED
      BY <1>5, <1>9, <2>2, <2>3, <2>4, <2>5
  <1>12. PhaseExact' /\ ErrorMoved'
    BY <1>8 DEF PhaseExact, ErrorMoved
  <1> QED
    BY <1>3, <1>8, <1>10, <1>11, <1>12 DEF IndInv

\* YYERROR: an error of its own or, without memory, none.
LEMMA RaiseStep ==
  ASSUME IndInv, phase = "parsing", NEW n \in Nat, n <= Len(stack),
         NEW h, Later(h, {}), NEW etype, etype # "DATA",
         Raises(h, etype, Popped(n)),
         lookahead'.ids \subseteq Fresh(h),
         h.failures = 0 => OwnedAbove(stack, n) \cup Fresh(h) \subseteq lookahead'.ids,
         UNCHANGED <<options, replaced, answer>>
  PROVE  IndInv'
  <1>1. PICK e \in NewErrors(h, etype) : heap' = e.heap /\ result' = e.value
    BY DEF Raises
  <1>2. stack' = Popped(n) /\ phase' = "unwinding"
    BY DEF Raises
  <1>3. /\ IsHeap(heap) /\ IsHeap(h) /\ h.next >= heap.next /\ h.failures >= heap.failures
        /\ h.freed = heap.freed
    BY DEF IndInv, Later
  <1>4. CASE heap' = Taken(h) /\ result' = Failure(etype, {h.next})
    <2>1. /\ Later(heap', {}) /\ heap'.failures = h.failures
          /\ Fresh(heap') = Fresh(h) \cup {h.next}
      BY <1>3, <1>4 DEF Later, IsHeap, Taken, Fresh
    <2>2. result'.kind = etype /\ result'.ids = {h.next} /\ h.next \notin Fresh(h)
      BY <1>3, <1>4 DEF Failure, Result, Fresh, IsHeap
    <2> HIDE DEF Popped
    <2> QED
      BY <1>2, <2>1, <2>2, LeaveStep
  <1>5. CASE heap' = Refused(h) /\ result' = Failure(etype, {})
    <2>1. Later(heap', {}) /\ heap'.failures # 0 /\ Fresh(heap') = Fresh(h)
      BY <1>3, <1>5 DEF Later, IsHeap, Refused, Fresh
    <2>2. result'.kind = etype /\ result'.ids = {}
      BY <1>5 DEF Failure, Result
    <2> HIDE DEF Popped
    <2> QED
      BY <1>2, <2>1, <2>2, LeaveStep
  <1> QED
    BY <1>1, <1>4, <1>5 DEF NewErrors

\* The same when an allocation failed before: who owned what was popped is gone.
LEMMA FailedStep ==
  ASSUME IndInv, phase = "parsing", NEW n \in Nat, n <= Len(stack),
         NEW h, Later(h, {}), NEW etype, etype # "DATA",
         Raises(Refused(h), etype, Popped(n)),
         UNCHANGED <<options, lookahead, replaced, answer>>
  PROVE  IndInv'
  <1>1. lookahead'.ids = {}
    BY DEF IndInv, PhaseExact
  <1>2. Later(Refused(h), {}) /\ Refused(h).failures # 0
    BY DEF Later, IsHeap, Refused, IndInv
  <1> HIDE DEF Refused, Raises, Popped
  <1> QED
    BY <1>1, <1>2, RaiseStep

\* A hook that asks the stream: the rule is taken or fails with the stream.
LEMMA ChecksStep ==
  ASSUME IndInv, phase = "parsing",
         NEW m \in Nat, m <= Len(stack), NEW n \in Nat, n <= Len(stack),
         NEW x, IsSymbol(x), Contents(x), Follows(x.sym, At(n), At(n + 1)),
         SymbolIds(x) = OwnedAbove(stack, n),
         NEW hook, Checks(heap, hook, Popped(m), Pushed(n, x)),
         UNCHANGED <<options, lookahead, replaced, answer>>
  PROVE  IndInv'
  <1>1. Later(heap, {}) /\ Fresh(heap) = {}
    BY DEF IndInv, Later, IsHeap, Fresh
  <1>2. CASE StreamFails(heap, hook, Popped(m))
    <2>1. Raises(Refused(heap), "SCHEMA", Popped(m))
      BY <1>2 DEF StreamFails
    <2> QED
      BY <1>1, <2>1, FailedStep
  <1>3. CASE Continues(heap, Pushed(n, x))
    BY <1>1, <1>3, ContinueStep
  <1> QED
    BY <1>2, <1>3 DEF Checks
-----------------------------------------------------------------------------
(***************************************************************************)
(* The symbols on top of the stack.                                        *)
(***************************************************************************)

\* Below the end of the stack there is nothing; what there is at a place is a symbol.
LEMMA SymbolAt ==
  ASSUME StackSound(stack), NEW k \in Nat, At(k) # "$"
  PROVE  /\ Len(stack) \in Nat /\ k < Len(stack)
         /\ stack[Len(stack) - k].sym = At(k)
         /\ IsSymbol(stack[Len(stack) - k])
         /\ Contents(stack[Len(stack) - k])
         /\ Follows(At(k), At(k + 1), At(k + 2))
         /\ SymbolIds(stack[Len(stack) - k]) \subseteq Owned(stack)
         /\ SymbolIds(stack[Len(stack) - k]) \cap OwnedAbove(stack, k) = {}
         /\ OwnedAbove(stack, k + 1) = OwnedAbove(stack, k) \cup SymbolIds(stack[Len(stack) - k])
  <1> DEFINE i == Len(stack) - k
  <1>1. IsSeq(stack) /\ Len(stack) \in Nat /\ DOMAIN stack = 1 .. Len(stack)
    BY SeqFacts DEF StackSound
  <1>2. k < Len(stack) /\ stack[i].sym = At(k)
    BY <1>1 DEF At
  <1>3. i \in DOMAIN stack
    BY <1>1, <1>2
  <1>4. /\ IsSymbol(stack[i]) /\ Contents(stack[i])
        /\ Follows(stack[i].sym, SymAt(stack, i - 1), SymAt(stack, i - 2))
        /\ \A j \in DOMAIN stack : i # j => SymbolIds(stack[i]) \cap SymbolIds(stack[j]) = {}
    BY <1>3 DEF StackSound
  <1>5. SymAt(stack, i - 1) = At(k + 1) /\ SymAt(stack, i - 2) = At(k + 2)
    BY <1>1 DEF SymAt, At
  <1>6. SymbolIds(stack[i]) \subseteq Owned(stack)
    BY <1>3 DEF Owned
  <1>7. /\ Len(stack) - (k + 1) + 1 .. Len(stack) = (Len(stack) - k + 1 .. Len(stack)) \cup {i}
        /\ i \notin Len(stack) - k + 1 .. Len(stack)
        /\ Len(stack) - k + 1 .. Len(stack) \subseteq DOMAIN stack
    BY <1>1, <1>2
  <1> HIDE DEF i
  <1>8. OwnedAbove(stack, k + 1) = OwnedAbove(stack, k) \cup SymbolIds(stack[i])
    BY <1>7 DEF OwnedAbove
  <1>9. SymbolIds(stack[i]) \cap OwnedAbove(stack, k) = {}
    <2> SUFFICES ASSUME NEW id \in OwnedAbove(stack, k)
                 PROVE  id \notin SymbolIds(stack[i])
      OBVIOUS
    <2>1. PICK j \in Len(stack) - k + 1 .. Len(stack) : id \in SymbolIds(stack[j])
      BY DEF OwnedAbove
    <2> QED
      BY <1>4, <1>7, <2>1
  <1> QED
    BY <1>1, <1>2, <1>4, <1>5, <1>6, <1>8, <1>9 DEF i

\* The uppermost symbol.
LEMMA TopFacts ==
  ASSUME StackSound(stack), At(0) # "$"
  PROVE  /\ Len(stack) \in Nat /\ 1 <= Len(stack)
         /\ Top = stack[Len(stack)] /\ Top.sym = At(0)
         /\ IsSymbol(Top) /\ Contents(Top)
         /\ Follows(At(0), At(1), At(2))
         /\ OwnedAbove(stack, 0) = {}
         /\ OwnedAbove(stack, 1) = SymbolIds(Top)
         /\ SymbolIds(Top) \subseteq Owned(stack)
  <1>1. /\ Len(stack) \in Nat /\ 0 < Len(stack)
        /\ stack[Len(stack) - 0].sym = At(0)
        /\ IsSymbol(stack[Len(stack) - 0]) /\ Contents(stack[Len(stack) - 0])
        /\ Follows(At(0), At(0 + 1), At(0 + 2))
        /\ OwnedAbove(stack, 0 + 1) = OwnedAbove(stack, 0) \cup SymbolIds(stack[Len(stack) - 0])
        /\ SymbolIds(stack[Len(stack) - 0]) \subseteq Owned(stack)
    BY SymbolAt, 0 \in Nat
  <1>2. OwnedAbove(stack, 0) = {}
    <2>1. Len(stack) - 0 + 1 .. Len(stack) = {}
      BY <1>1
    <2> QED
      BY <2>1 DEF OwnedAbove
  <1>3. Top = stack[Len(stack)]
    BY DEF Top, Last
  <1>4. Len(stack) - 0 = Len(stack) /\ 0 + 1 = 1 /\ 0 + 2 = 2 /\ 1 <= Len(stack)
    BY <1>1
  <1>5. OwnedAbove(stack, 1) = SymbolIds(Top)
    BY <1>1, <1>2, <1>3, <1>4
  <1> QED
    BY <1>1, <1>2, <1>3, <1>4, <1>5

\* No memory is owned by no symbols.
LEMMA AboveNone ==
  ASSUME StackSound(stack)
  PROVE  OwnedAbove(stack, 0) = {} /\ Len(stack) \in Nat
  <1>1. Len(stack) \in Nat
    BY SeqFacts DEF StackSound
  <1>2. Len(stack) - 0 + 1 .. Len(stack) = {}
    BY <1>1
  <1> QED
    BY <1>1, <1>2 DEF OwnedAbove

\* A symbol made of what it is to own.
LEMMA SymbolFacts ==
  ASSUME NEW sym, NEW ids \in Memory, NEW tree
  PROVE  /\ IsSymbol(Symbol(sym, ids, tree))
         /\ Symbol(sym, ids, tree).sym = sym
         /\ Symbol(sym, ids, tree).ids = ids
         /\ Symbol(sym, ids, tree).key = NoKey
         /\ Symbol(sym, ids, tree).items = <<>>
         /\ SymbolIds(Symbol(sym, ids, tree)) = ids
  BY DEF Symbol, IsSymbol, SymbolIds, NoKey, Memory

\* A token without a semantic value owns nothing.
LEMMA BareFacts ==
  ASSUME NEW sym
  PROVE  /\ IsSymbol(Bare(sym))
         /\ Bare(sym).sym = sym /\ Bare(sym).ids = {} /\ Bare(sym).key = NoKey
         /\ Bare(sym).items = <<>>
  BY DEF Bare, Symbol, IsSymbol, NoKey, Memory

\* Punctuation is nothing else.
LEMMA OwnsNothingFacts ==
  ASSUME NEW sym \in OwnsNothing
  PROVE  sym \notin {"STRING", "key", "pair", "values", "value", "elements", "element",
                      "members", "member", "error", "ENOMEM", "$"}
  BY Zenon DEF OwnsNothing, Punctuation

\* A symbol that owns one thing or nothing and is no pair.
LEMMA PlainSymbol ==
  ASSUME NEW x, IsSymbol(x), x.key = NoKey, x.sym # "pair",
         x.sym \in OwnsNothing => x.ids = {},
         x.sym \in {"STRING", "key"} => \E id \in x.ids : x.ids = {id},
         x.sym = "member" => x.items = <<>>
  PROVE  Contents(x) /\ SymbolIds(x) = x.ids
  <1>1. x.key \notin x.ids
    BY DEF IsSymbol, Memory, NoKey
  <1>2. x.items = <<>> => MembersApart(x)
    BY DEF MembersApart, IsSeq
  <1> QED
    BY <1>1, <1>2 DEF Contents, SymbolIds

\* A symbol under another name.
IsRenamed(x, t, sym) ==
  x \in {[t EXCEPT !.sym = sym], [t EXCEPT !.sym = sym, !.name = ""],
         [t EXCEPT !.sym = sym, !.items = <<>>]}

\* A symbol under another name owns the same memory.
LEMMA RenamedFacts ==
  ASSUME NEW t, IsSymbol(t), NEW sym, NEW x, IsRenamed(x, t, sym)
  PROVE  /\ IsSymbol(x)
         /\ x.sym = sym /\ x.ids = t.ids /\ x.key = t.key
         /\ SymbolIds(x) = SymbolIds(t)
  <1> DEFINE r == [sym |-> t.sym, ids |-> t.ids, key |-> t.key,
                   name |-> t.name, tree |-> t.tree, items |-> t.items]
  <1>1. t = r /\ t.ids \in Memory /\ t.key \in Nat
    BY DEF IsSymbol
  <1>2. /\ DOMAIN x = DOMAIN t
        /\ x.sym = sym /\ x.ids = t.ids /\ x.key = t.key
        /\ x.tree = t.tree
    BY <1>1 DEF IsRenamed
  <1>3. x = [sym |-> x.sym, ids |-> x.ids, key |-> x.key, name |-> x.name,
             tree |-> x.tree, items |-> x.items]
    BY <1>1 DEF IsRenamed
  <1> QED
    BY <1>1, <1>2, <1>3 DEF IsSymbol, SymbolIds

\* A pair of a key and a value.
PairOf(id, name, ids, tree) == [Symbol("pair", ids, tree) EXCEPT !.key = id, !.name = name]

\* A pair owns its key and the memory of its value.
LEMMA PairFacts ==
  ASSUME NEW id \in Nat \ {0}, NEW name, NEW ids \in Memory, NEW tree, id \notin ids
  PROVE  LET x == PairOf(id, name, ids, tree)
         IN  IsSymbol(x) /\ Contents(x) /\ x.sym = "pair" /\ SymbolIds(x) = ids \cup {id}
  <1> DEFINE x == PairOf(id, name, ids, tree)
             s == Symbol("pair", ids, tree)
  <1>1. s = [sym |-> "pair", ids |-> ids, key |-> NoKey, name |-> "", tree |-> tree,
             items |-> <<>>]
    BY DEF Symbol
  <1>2. x = [s EXCEPT !.key = id, !.name = name]
    BY DEF PairOf
  <1> HIDE DEF x, s
  <1>3. x = [sym |-> "pair", ids |-> ids, key |-> id, name |-> name, tree |-> tree,
             items |-> <<>>]
    BY <1>1, <1>2
  <1>4. IsSymbol(x) /\ x.sym = "pair" /\ x.ids = ids /\ x.key = id
    BY <1>3 DEF IsSymbol
  <1>5. Contents(x)
    BY <1>4, OwnsNothingFacts DEF Contents, NoKey
  <1>6. SymbolIds(x) = ids \cup {id}
    BY <1>4 DEF SymbolIds, NoKey
  <1> QED
    BY <1>4, <1>5, <1>6 DEF x

\* A name of an object that is read.
LEMMA KeyFacts ==
  ASSUME NEW ids \in Memory, \E id \in ids : ids = {id}, NEW name,
         NEW x, x = [Bare("key") EXCEPT !.ids = ids, !.name = name]
  PROVE  IsSymbol(x) /\ Contents(x) /\ x.sym = "key" /\ SymbolIds(x) = ids
  <1>1. x = [sym |-> "key", ids |-> ids, key |-> NoKey, name |-> name, tree |-> NoValue,
             items |-> <<>>]
    BY DEF Bare, Symbol
  <1>2. IsSymbol(x) /\ x.sym = "key" /\ x.ids = ids /\ x.key = NoKey
    <2>1. ids \in Memory
      OBVIOUS
    <2> QED
      BY ONLY <1>1, <2>1 DEF IsSymbol, NoKey
  <1> QED
    BY <1>2, PlainSymbol DEF OwnsNothing, Punctuation

\* An array takes over what its new item owns.
LEMMA AppendedFacts ==
  ASSUME NEW c, IsSymbol(c), NEW v, IsSymbol(v), ~ Validates
  PROVE  LET x == Appended(c, v)
         IN  /\ IsSymbol(x) /\ x.sym = c.sym /\ x.key = c.key
             /\ x.ids = c.ids \cup v.ids
  <1> DEFINE x == Appended(c, v)
  <1>1. /\ x = [c EXCEPT !.ids = @ \cup v.ids, !.tree.items = Append(@, v.tree)]
    BY DEF Appended
  <1>2. /\ c = [sym |-> c.sym, ids |-> c.ids, key |-> c.key, name |-> c.name,
                tree |-> c.tree, items |-> c.items]
        /\ c.ids \in Memory /\ c.key \in Nat /\ v.ids \in Memory
    BY DEF IsSymbol
  <1>3. /\ x = [sym |-> x.sym, ids |-> x.ids, key |-> x.key, name |-> x.name,
                tree |-> x.tree, items |-> x.items]
        /\ x.sym = c.sym /\ x.key = c.key /\ x.ids = c.ids \cup v.ids
    BY <1>1, <1>2
  <1> QED
    BY <1>2, <1>3 DEF IsSymbol, Memory

\* A bracket, a comma or a colon owns nothing.
LEMMA BareBelow ==
  ASSUME StackSound(stack), NEW k \in Nat, At(k) \in OwnsNothing
  PROVE  /\ Len(stack) \in Nat /\ k < Len(stack)
         /\ OwnedAbove(stack, k + 1) = OwnedAbove(stack, k)
  <1>1. At(k) # "$" /\ At(k) # "pair"
    BY OwnsNothingFacts
  <1>2. /\ Len(stack) \in Nat /\ k < Len(stack)
        /\ stack[Len(stack) - k].sym = At(k) /\ Contents(stack[Len(stack) - k])
        /\ OwnedAbove(stack, k + 1) = OwnedAbove(stack, k) \cup SymbolIds(stack[Len(stack) - k])
    BY <1>1, SymbolAt
  <1>3. SymbolIds(stack[Len(stack) - k]) = {}
    BY <1>1, <1>2 DEF Contents, SymbolIds
  <1> QED
    BY <1>2, <1>3

\* The open brackets that the containers and their parts stand on.
LEMMA FollowsFacts ==
  ASSUME NEW sym, NEW below, NEW second, Follows(sym, below, second)
  PROVE  /\ sym \in {"element", "elements", "members", "member"} => below \in OwnsNothing
         /\ sym \in {"STRING", "key", "pair"} => below \in OwnsNothing
  BY Zenon DEF Follows, OwnsNothing, Punctuation

\* A part of a container, a comma or a colon, and the next part.
LEMMA ThirdFacts ==
  ASSUME StackSound(stack), At(0) # "$", At(1) \in OwnsNothing, At(2) # "$",
         NEW third, third = stack[Len(stack) - 2]
  PROVE  /\ 3 \in Nat /\ 3 <= Len(stack)
         /\ IsSymbol(third) /\ Contents(third) /\ third.sym = At(2)
         /\ Follows(At(2), At(3), At(3 + 1))
         /\ OwnedAbove(stack, 3) = SymbolIds(Top) \cup SymbolIds(third)
         /\ SymbolIds(Top) \cap SymbolIds(third) = {}
  <1>1. OwnedAbove(stack, 1) = SymbolIds(Top)
    BY TopFacts
  <1>2. OwnedAbove(stack, 1 + 1) = OwnedAbove(stack, 1)
    BY BareBelow, 1 \in Nat
  <1>3. /\ Len(stack) \in Nat /\ 2 < Len(stack)
        /\ IsSymbol(third) /\ Contents(third) /\ third.sym = At(2)
        /\ Follows(At(2), At(2 + 1), At(2 + 2))
        /\ SymbolIds(third) \cap OwnedAbove(stack, 2) = {}
        /\ OwnedAbove(stack, 2 + 1) = OwnedAbove(stack, 2) \cup SymbolIds(third)
    BY SymbolAt, 2 \in Nat
  <1>4. 1 + 1 = 2 /\ 2 + 1 = 3 /\ 2 + 2 = 3 + 1 /\ 3 \in Nat
    OBVIOUS
  <1>5. 3 <= Len(stack)
    BY <1>3
  <1>6. OwnedAbove(stack, 2) = SymbolIds(Top)
    BY <1>1, <1>2, <1>4
  <1> QED
    BY <1>3, <1>4, <1>5, <1>6
-----------------------------------------------------------------------------
(***************************************************************************)
(* The actions of the parser.                                              *)
(***************************************************************************)

\* What the uppermost symbols are when a rule ends.
LEMMA ReduceFacts ==
  ASSUME IndInv, Reduces
  PROVE  /\ phase = "parsing" /\ StackSound(stack)
         /\ IsHeap(heap) /\ Later(heap, {}) /\ Fresh(heap) = {}
         /\ Popped(0) = stack
  BY PoppedNone DEF IndInv, Reduces, Later, IsHeap, Fresh

\* Opening an array or an object, in the mid-rule action of its rule.
LEMMA OpenStep ==
  ASSUME IndInv, NEW bracket \in OwnsNothing, NEW marked \in OwnsNothing,
         Follows(marked, At(1), At(2)), NEW hook, Open(bracket, marked, hook)
  PROVE  IndInv'
  <1>1. /\ phase = "parsing" /\ StackSound(stack)
        /\ Later(heap, {}) /\ Fresh(heap) = {} /\ Popped(0) = stack
    BY ReduceFacts DEF Open
  <1>2. /\ At(0) = bracket /\ At(0) # "$"
        /\ UNCHANGED <<options, lookahead, replaced, answer>>
    BY OwnsNothingFacts DEF Open
  <1>6. Len(stack) \in Nat /\ 1 <= Len(stack)
    BY <1>1, <1>2, TopFacts
  <1>3. /\ OwnedAbove(stack, 0) = {}
        /\ OwnedAbove(stack, 1) = SymbolIds(Top) /\ Top.sym = bracket /\ Contents(Top)
    BY <1>1, <1>2, TopFacts
  <1>4. CASE Raises(heap, "DEPTH", stack)
    <2>1. lookahead'.ids = {}
      BY <1>1, <1>2 DEF IndInv, PhaseExact
    <2>2. 0 \in Nat /\ 0 <= Len(stack)
      BY <1>6
    <2>3. Raises(heap, "DEPTH", Popped(0))
      BY <1>1, <1>4
    <2> QED
      BY <1>1, <1>2, <1>3, <2>1, <2>2, <2>3, RaiseStep
  <1>5. CASE Checks(heap, hook, stack, Pushed(1, Bare(marked)))
    <2> DEFINE x == Bare(marked)
    <2>1. IsSymbol(x) /\ x.sym = marked /\ x.ids = {} /\ x.key = NoKey
      BY BareFacts
    <2>2. Contents(x) /\ SymbolIds(x) = {}
      BY <2>1, PlainSymbol, OwnsNothingFacts
    <2>3. SymbolIds(Top) = {}
      BY <1>3, OwnsNothingFacts DEF Contents, SymbolIds
    <2>4. Follows(marked, At(1), At(1 + 1))
      BY 1 + 1 = 2
    <2> HIDE DEF x
    <2>5. Checks(heap, hook, Popped(0), Pushed(1, x))
      BY <1>1, <1>5 DEF x
    <2>6. 0 \in Nat /\ 0 <= Len(stack) /\ 1 \in Nat
      BY <1>6
    <2> QED
      BY <1>1, <1>2, <1>3, <1>6, <2>1, <2>2, <2>3, <2>4, <2>5, <2>6, ChecksStep
  <1> QED
    BY <1>4, <1>5 DEF Open

\* Closing an array or an object: the container becomes the value.
LEMMA CloseStep ==
  ASSUME IndInv, NEW rule \in {"elements", "members"}, NEW hook, Close(rule, hook)
  PROVE  IndInv'
  <1>1. phase = "parsing" /\ StackSound(stack)
    BY ReduceFacts DEF Close
  <1>2. /\ At(0) = rule /\ At(0) # "$"
        /\ UNCHANGED <<options, lookahead, replaced, answer>>
    BY DEF Close
  <1>3. /\ IsSymbol(Top) /\ Contents(Top) /\ Top.sym = rule /\ Follows(rule, At(1), At(2))
        /\ OwnedAbove(stack, 1) = SymbolIds(Top)
    BY <1>1, <1>2, TopFacts
  <1>4. At(1) \in OwnsNothing
    BY <1>3, FollowsFacts
  <1>5. Len(stack) \in Nat /\ 1 < Len(stack) /\ OwnedAbove(stack, 1 + 1) = OwnedAbove(stack, 1)
    BY <1>1, <1>4, BareBelow, 1 \in Nat
  <1>6. 2 \in Nat /\ 2 <= Len(stack) /\ OwnedAbove(stack, 2) = SymbolIds(Top)
    BY <1>3, <1>5, 1 + 1 = 2
  <1> DEFINE x == [Top EXCEPT !.sym = "values", !.items = <<>>]
  <1>7. Checks(heap, hook, Popped(2), Pushed(2, x))
    BY DEF Close
  <1>8. /\ IsSymbol(x) /\ x.sym = "values" /\ x.key = Top.key
        /\ SymbolIds(x) = SymbolIds(Top)
    <2>1. IsRenamed(x, Top, "values")
      BY DEF IsRenamed
    <2> HIDE DEF x
    <2> QED
      BY <1>3, <2>1, RenamedFacts
  <1> HIDE DEF x
  <1>9. Top.key = NoKey
    BY <1>3 DEF Contents
  <1>10. Contents(x)
    BY <1>8, <1>9, PlainSymbol, OwnsNothingFacts
  <1>11. Follows(x.sym, At(2), At(2 + 1))
    BY <1>8, Zenon DEF Follows
  <1> QED
    BY <1>1, <1>2, <1>6, <1>7, <1>8, <1>10, <1>11, ChecksStep

\* A complete value becomes a value of the container around it.
LEMMA ValueStep ==
  ASSUME IndInv, Value
  PROVE  IndInv'
  <1>1. phase = "parsing" /\ StackSound(stack)
    BY ReduceFacts DEF Value
  <1>2. /\ At(0) = "values" /\ At(0) # "$"
        /\ UNCHANGED <<options, lookahead, replaced, answer>>
    BY DEF Value
  <1>3. /\ IsSymbol(Top) /\ Contents(Top) /\ Top.sym = "values"
        /\ OwnedAbove(stack, 1) = SymbolIds(Top)
    BY <1>1, <1>2, TopFacts
  <1>4. 1 \in Nat /\ 1 <= Len(stack)
    BY <1>1, <1>2, TopFacts
  <1> DEFINE x == [Top EXCEPT !.sym = "value", !.name = ""]
  <1>7. Checks(heap, "value", Popped(1), Pushed(1, x))
    BY DEF Value
  <1>8. /\ IsSymbol(x) /\ x.sym = "value" /\ x.key = Top.key
        /\ SymbolIds(x) = SymbolIds(Top)
    <2>1. IsRenamed(x, Top, "value")
      BY DEF IsRenamed
    <2> HIDE DEF x
    <2> QED
      BY <1>3, <2>1, RenamedFacts
  <1> HIDE DEF x
  <1>9. Top.key = NoKey
    BY <1>3 DEF Contents
  <1>10. Contents(x)
    BY <1>8, <1>9, PlainSymbol, OwnsNothingFacts
  <1>11. Follows(x.sym, At(1), At(1 + 1))
    BY <1>8, Zenon DEF Follows
  <1> QED
    BY <1>1, <1>2, <1>3, <1>4, <1>7, <1>8, <1>10, <1>11, ChecksStep

\* A string read where a key is due becomes the key.
LEMMA KeyStep ==
  ASSUME IndInv, Key
  PROVE  IndInv'
  <1>1. phase = "parsing" /\ StackSound(stack)
    BY ReduceFacts DEF Key
  <1>2. /\ At(0) = "STRING" /\ At(0) # "$"
        /\ UNCHANGED <<options, lookahead, replaced, answer>>
    BY DEF Key
  <1>3. /\ IsSymbol(Top) /\ Contents(Top) /\ Top.sym = "STRING"
        /\ Follows("STRING", At(1), At(2))
        /\ OwnedAbove(stack, 1) = SymbolIds(Top)
    BY <1>1, <1>2, TopFacts
  <1>4. 1 \in Nat /\ 1 <= Len(stack)
    BY <1>1, <1>2, TopFacts
  <1> DEFINE x == [Bare("key") EXCEPT !.ids = Top.ids, !.name = Top.name]
  <1>5. Checks(heap, "object_key", Popped(1), Pushed(1, x))
    BY DEF Key
  <1>6. /\ Top.ids \in Memory /\ SymbolIds(Top) = Top.ids
        /\ \E id \in Top.ids : Top.ids = {id}
    BY <1>3 DEF Contents, IsSymbol, SymbolIds
  <1>7. IsSymbol(x) /\ Contents(x) /\ x.sym = "key" /\ SymbolIds(x) = Top.ids
    BY <1>6, KeyFacts
  <1> HIDE DEF x
  <1>8. Follows(x.sym, At(1), At(1 + 1))
    <2>1. Follows("key", At(1), At(2))
      BY <1>3, Zenon DEF Follows
    <2> QED
      BY <1>7, <2>1, 1 + 1 = 2
  <1> QED
    BY <1>1, <1>2, <1>3, <1>4, <1>5, <1>6, <1>7, <1>8, ChecksStep

\* The key of a pair leaves its name; the memory of key and value is the pair's.
LEMMA PairStep ==
  ASSUME IndInv, Pair
  PROVE  IndInv'
  <1> DEFINE key == stack[Len(stack) - 2]
             id == CHOOSE i \in key.ids : TRUE
             x == PairOf(id, key.name, Top.ids, Top.tree)
  <1>1. /\ phase = "parsing" /\ StackSound(stack) /\ Later(heap, {}) /\ Fresh(heap) = {}
    BY ReduceFacts DEF Pair
  <1>2. /\ At(0) = "value" /\ At(0) # "$" /\ At(1) = ":"
        /\ UNCHANGED <<options, lookahead, replaced, answer>>
        /\ stack' = Pushed(3, x) /\ heap' = heap /\ UNCHANGED <<result, phase>>
    BY DEF Pair, PairOf
  <1>3. /\ IsSymbol(Top) /\ Contents(Top) /\ Top.sym = "value"
    BY <1>1, <1>2, TopFacts
  <1>4. At(1) \in OwnsNothing /\ At(1) # "$"
    BY <1>2, Zenon DEF OwnsNothing, Punctuation
  <1>5. At(2) = "key"
    <2>1. Follows(At(1), At(1 + 1), At(1 + 2))
      BY <1>1, <1>4, SymbolAt, 1 \in Nat
    <2>2. Follows(":", At(2), At(1 + 2))
      BY <1>2, <2>1, 1 + 1 = 2
    <2> QED
      BY <2>2, Zenon DEF Follows
  <1>6. /\ 3 \in Nat /\ 3 <= Len(stack)
        /\ IsSymbol(key) /\ Contents(key) /\ key.sym = "key"
        /\ Follows("key", At(3), At(3 + 1))
        /\ OwnedAbove(stack, 3) = SymbolIds(Top) \cup SymbolIds(key)
        /\ SymbolIds(Top) \cap SymbolIds(key) = {}
    <2> HIDE DEF key
    <2> QED
      BY <1>1, <1>2, <1>4, <1>5, ThirdFacts DEF key
  <1>7. Continues(heap, Pushed(3, x))
    BY <1>2 DEF Continues
  <1> HIDE DEF key
  <1>8. SymbolIds(Top) = Top.ids /\ SymbolIds(key) = key.ids
    BY <1>3, <1>6 DEF Contents, SymbolIds
  <1>9. key.ids = {id}
    <2>1. \E i \in key.ids : key.ids = {i}
      BY <1>6 DEF Contents
    <2> QED
      BY <2>1
  <1>10. Top.ids \in Memory /\ key.ids \in Memory
    BY <1>3, <1>6 DEF IsSymbol
  <1>11. id \in Nat \ {0} /\ id \notin Top.ids
    BY <1>6, <1>8, <1>9, <1>10 DEF Memory
  <1> HIDE DEF id
  <1> HIDE DEF x
  <1>12. IsSymbol(x) /\ Contents(x) /\ x.sym = "pair" /\ SymbolIds(x) = Top.ids \cup {id}
    BY <1>10, <1>11, PairFacts DEF x
  <1>13. SymbolIds(x) = OwnedAbove(stack, 3)
    BY <1>6, <1>8, <1>9, <1>12
  <1>14. Follows(x.sym, At(3), At(3 + 1))
    <2>1. Follows("pair", At(3), At(3 + 1))
      BY <1>6, Zenon DEF Follows
    <2> QED
      BY <1>12, <2>1
  <1> QED
    BY <1>1, <1>2, <1>6, <1>7, <1>12, <1>13, <1>14, ContinueStep

\* array_create, object_create.
LEMMA CreatedFacts ==
  ASSUME IsHeap(heap), NEW sym, NEW type
  PROVE  /\ Later(Created, {})
         /\ IsSymbol(Container(sym, type))
         /\ Container(sym, type).sym = sym
         /\ Container(sym, type).key = NoKey
         /\ Container(sym, type).items = <<>>
         /\ Container(sym, type).ids = Fresh(Created)
  <1>1. CASE Validates
    <2>1. {} \in Memory
      BY DEF Memory
    <2> QED
      BY <1>1, <2>1, SymbolFacts DEF Created, Container, Later, IsHeap, Fresh
  <1>2. CASE ~ Validates
    <2>1. heap.next \in Nat \ {0} /\ {heap.next} \in Memory
      BY DEF IsHeap, Memory
    <2>2. Created = Taken(heap)
      BY <1>2 DEF Created
    <2>3. Later(Taken(heap), {}) /\ Fresh(Taken(heap)) = {heap.next}
      BY DEF Later, Taken, IsHeap, Fresh
    <2>4. Container(sym, type) = Symbol(sym, {heap.next}, [type |-> type, items |-> <<>>])
      BY <1>2 DEF Container
    <2> DEFINE x == Symbol(sym, {heap.next}, [type |-> type, items |-> <<>>])
    <2>5. IsSymbol(x) /\ x.sym = sym /\ x.key = NoKey /\ x.items = <<>> /\ x.ids = {heap.next}
      BY <2>1, SymbolFacts
    <2> HIDE DEF x
    <2> QED
      BY <2>2, <2>3, <2>4, <2>5 DEF x
  <1> QED
    BY <1>1, <1>2

\* A container that cannot be allocated: the parse fails, nothing is lost.
LEMMA CreateFailsStep ==
  ASSUME IndInv, Reduces, NEW n \in Nat, n <= Len(stack), CreateFails(Popped(n)),
         UNCHANGED <<options, lookahead, answer>>
  PROVE  IndInv'
  <1>1. Later(heap, {}) /\ phase = "parsing"
    BY ReduceFacts
  <1>2. Raises(Refused(heap), "ALLOC", Popped(n)) /\ UNCHANGED replaced
    BY DEF CreateFails
  <1> QED
    BY <1>1, <1>2, FailedStep

\* An empty container.
LEMMA EmptyStep ==
  ASSUME IndInv, Reduces, At(0) \in OwnsNothing,
         NEW sym \in {"elements", "members"}, Follows(sym, At(1), At(2)), NEW type,
         \/ CreateFails(Popped(1))
         \/ /\ Continues(Created, Pushed(1, Container(sym, type)))
            /\ UNCHANGED replaced,
         UNCHANGED <<options, lookahead, answer>>
  PROVE  IndInv'
  <1>1. phase = "parsing" /\ StackSound(stack) /\ IsHeap(heap)
    BY ReduceFacts
  <1>2. 1 \in Nat /\ 1 <= Len(stack)
    <2>1. At(0) # "$"
      BY OwnsNothingFacts
    <2> QED
      BY <1>1, <2>1, TopFacts
  <1>3. OwnedAbove(stack, 1) = {}
    BY <1>1, 0 \in Nat, 0 + 1 = 1, BareBelow, AboveNone
  <1>4. CASE CreateFails(Popped(1))
    BY <1>2, <1>4, CreateFailsStep
  <1>5. CASE Continues(Created, Pushed(1, Container(sym, type))) /\ UNCHANGED replaced
    <2> DEFINE x == Container(sym, type)
               h == Created
    <2>1. /\ Later(h, {}) /\ IsSymbol(x) /\ x.sym = sym /\ x.key = NoKey /\ x.ids = Fresh(h)
      BY <1>1, CreatedFacts
    <2>2. Continues(h, Pushed(1, x)) /\ UNCHANGED replaced
      BY <1>5
    <2> HIDE DEF x, h
    <2>3. Contents(x) /\ SymbolIds(x) = x.ids
      BY <2>1, PlainSymbol, OwnsNothingFacts
    <2>4. Follows(x.sym, At(1), At(1 + 1))
      BY <2>1, 1 + 1 = 2
    <2> QED
      BY <1>1, <1>2, <1>3, <2>1, <2>2, <2>3, <2>4, ContinueStep
  <1> QED
    BY <1>4, <1>5

\* The empty array.
LEMMA NoElementsStep ==
  ASSUME IndInv, NoElements
  PROVE  IndInv'
  <1>1. /\ Reduces /\ UNCHANGED <<options, lookahead, answer>>
        /\ \/ CreateFails(Popped(1))
           \/ /\ Continues(Created, Pushed(1, Container("elements", "ARRAY")))
              /\ UNCHANGED replaced
    BY DEF NoElements
  <1>2. At(0) = "]"
    BY DEF NoElements
  <1>3. At(0) \in OwnsNothing
    BY <1>2, Zenon DEF OwnsNothing, Punctuation
  <1>4. Follows("]", At(1), At(2))
    BY <1>1, <1>2, <1>3, ReduceFacts, TopFacts, OwnsNothingFacts
  <1>5. Follows("elements", At(1), At(2))
    BY <1>4, Zenon DEF Follows
  <1> QED
    BY <1>1, <1>3, <1>5, EmptyStep

\* The empty object.
LEMMA NoMembersStep ==
  ASSUME IndInv, NoMembers
  PROVE  IndInv'
  <1>1. /\ Reduces /\ UNCHANGED <<options, lookahead, answer>>
        /\ \/ CreateFails(Popped(1))
           \/ /\ Continues(Created, Pushed(1, Container("members", "OBJECT")))
              /\ UNCHANGED replaced
    BY DEF NoMembers
  <1>2. At(0) = "}"
    BY DEF NoMembers
  <1>3. At(0) \in OwnsNothing
    BY <1>2, Zenon DEF OwnsNothing, Punctuation
  <1>4. Follows("}", At(1), At(2))
    BY <1>1, <1>2, <1>3, ReduceFacts, TopFacts, OwnsNothingFacts
  <1>5. Follows("members", At(1), At(2))
    BY <1>4, Zenon DEF Follows
  <1> QED
    BY <1>1, <1>3, <1>5, EmptyStep

\* array_append: the item's memory becomes the array's, unless validation keeps neither.
LEMMA PutItemStep ==
  ASSUME IndInv, phase = "parsing", NEW n \in Nat, n <= Len(stack), NEW h, Later(h, {}),
         NEW c, IsSymbol(c), c.sym = "element", c.key = NoKey,
         IsSymbol(Top), c.ids \cup Top.ids = OwnedAbove(stack, n) \cup Fresh(h),
         Follows("element", At(n), At(n + 1)), PutItem(h, c, Top, n),
         UNCHANGED <<options, lookahead, answer>>
  PROVE  IndInv'
  <1>1. UNCHANGED replaced
    BY DEF PutItem
  <1>2. CASE StreamFails(h, "array_append", Popped(n))
    <2>1. Raises(Refused(h), "SCHEMA", Popped(n))
      BY <1>2 DEF StreamFails
    <2> QED
      BY <1>1, <2>1, FailedStep
  <1>3. CASE Raises(Refused(h), "ALLOC", Popped(n))
    BY <1>1, <1>3, FailedStep
  <1>4. CASE Continues(h, Pushed(n, Appended(c, Top)))
    <2> DEFINE x == Appended(c, Top)
    <2>1. /\ IsSymbol(x) /\ x.sym = "element" /\ x.key = NoKey
          /\ x.ids \subseteq c.ids \cup Top.ids
          /\ ~ Validates => x.ids = c.ids \cup Top.ids
      <3>1. CASE Validates
        BY <3>1 DEF Appended
      <3>2. CASE ~ Validates
        BY <3>2, AppendedFacts
      <3> QED
        BY <3>1, <3>2
    <2>2. Continues(h, Pushed(n, x))
      BY <1>4
    <2> HIDE DEF x
    <2>3. Contents(x) /\ SymbolIds(x) = x.ids
      BY <2>1, PlainSymbol, OwnsNothingFacts
    <2>4. Follows(x.sym, At(n), At(n + 1))
      BY <2>1
    <2>5. /\ SymbolIds(x) \subseteq OwnedAbove(stack, n) \cup Fresh(h)
          /\ ~ Validates => OwnedAbove(stack, n) \cup Fresh(h) \subseteq SymbolIds(x)
      BY <2>1, <2>3
    <2> QED
      BY <1>1, <2>1, <2>2, <2>3, <2>4, <2>5, ContinueStep
  <1> QED
    BY <1>2, <1>3, <1>4 DEF PutItem

\* The first element creates the array and is put into it.
LEMMA FirstElementStep ==
  ASSUME IndInv, FirstElement
  PROVE  IndInv'
  <1>1. /\ Reduces /\ UNCHANGED <<options, lookahead, answer>>
        /\ At(0) = "value" /\ At(1) = "[@"
        /\ \/ CreateFails(Popped(1))
           \/ PutItem(Created, Container("element", "ARRAY"), Top, 1)
    BY DEF FirstElement
  <1>2. phase = "parsing" /\ StackSound(stack) /\ IsHeap(heap)
    BY <1>1, ReduceFacts
  <1>3. /\ IsSymbol(Top) /\ Contents(Top) /\ Top.sym = "value"
        /\ OwnedAbove(stack, 1) = SymbolIds(Top)
    BY <1>1, <1>2, TopFacts
  <1>4. 1 \in Nat /\ 1 <= Len(stack)
    BY <1>1, <1>2, TopFacts
  <1>5. CASE CreateFails(Popped(1))
    BY <1>1, <1>4, <1>5, CreateFailsStep
  <1>6. CASE PutItem(Created, Container("element", "ARRAY"), Top, 1)
    <2> DEFINE c == Container("element", "ARRAY")
               h == Created
    <2>1. /\ Later(h, {}) /\ IsSymbol(c) /\ c.sym = "element" /\ c.key = NoKey
          /\ c.ids = Fresh(h)
      BY <1>2, CreatedFacts
    <2>2. PutItem(h, c, Top, 1)
      BY <1>6
    <2> HIDE DEF c, h
    <2>3. SymbolIds(Top) = Top.ids
      BY <1>3 DEF Contents, SymbolIds
    <2>4. Follows("element", At(1), At(1 + 1))
      BY <1>1, Zenon DEF Follows
    <2>5. c.ids \cup Top.ids = OwnedAbove(stack, 1) \cup Fresh(h)
      BY <1>3, <2>1, <2>3
    <2> QED
      BY <1>1, <1>2, <1>3, <1>4, <2>1, <2>2, <2>4, <2>5, PutItemStep
  <1> QED
    BY <1>1, <1>5, <1>6

\* Each further element is put into the array below it on the stack.
LEMMA NextElementStep ==
  ASSUME IndInv, NextElement
  PROVE  IndInv'
  <1> DEFINE c == stack[Len(stack) - 2]
  <1>1. /\ Reduces /\ UNCHANGED <<options, lookahead, answer>>
        /\ At(0) = "value" /\ At(1) = "," /\ At(2) = "element"
        /\ PutItem(heap, c, Top, 3)
    BY DEF NextElement
  <1>2. phase = "parsing" /\ StackSound(stack) /\ Later(heap, {}) /\ Fresh(heap) = {}
    BY <1>1, ReduceFacts
  <1>3. IsSymbol(Top) /\ Contents(Top) /\ Top.sym = "value"
    BY <1>1, <1>2, TopFacts
  <1>4. At(1) \in OwnsNothing
    BY <1>1, Zenon DEF OwnsNothing, Punctuation
  <1> HIDE DEF c
  <1>5. /\ 3 \in Nat /\ 3 <= Len(stack)
        /\ IsSymbol(c) /\ Contents(c) /\ c.sym = "element"
        /\ Follows("element", At(3), At(3 + 1))
        /\ OwnedAbove(stack, 3) = SymbolIds(Top) \cup SymbolIds(c)
    BY <1>1, <1>2, <1>4, ThirdFacts DEF c
  <1>6. SymbolIds(Top) = Top.ids /\ SymbolIds(c) = c.ids /\ c.key = NoKey
    BY <1>3, <1>5 DEF Contents, SymbolIds
  <1>7. c.ids \cup Top.ids = OwnedAbove(stack, 3) \cup Fresh(heap)
    BY <1>2, <1>5, <1>6
  <1> QED
    BY <1>1, <1>2, <1>3, <1>5, <1>6, <1>7, PutItemStep
-----------------------------------------------------------------------------
(***************************************************************************)
(* jso_object_add.                                                         *)
(***************************************************************************)

\* The members after: the new one is at some place, the others are where they were.
Replaces(items, new, old, m) ==
  /\ IsSeq(new)
  /\ \E k \in DOMAIN new :
       /\ new[k] = m
       /\ \A i \in DOMAIN new : i # k => i \in DOMAIN items \ old /\ new[i] = items[i]
       /\ \A i \in DOMAIN items \ old : i \in DOMAIN new /\ i # k

\* The members as an object has them: apart from each other, within what it owns.
NewItems(object, pair) ==
  LET old == OldMembers(object, pair)
  IN  IF old = {} THEN Append(object.items, Member(pair))
      ELSE [i \in DOMAIN object.items |->
              IF i \in old THEN Member(pair) ELSE object.items[i]]

\* There is one place for a name.
LEMMA NewItemsFacts ==
  ASSUME NEW object, MembersApart(object), NEW pair
  PROVE  Replaces(object.items, NewItems(object, pair), OldMembers(object, pair), Member(pair))
  <1> DEFINE items == object.items
             old == OldMembers(object, pair)
             m == Member(pair)
             new == NewItems(object, pair)
  <1>1. IsSeq(items) /\ Len(items) \in Nat /\ DOMAIN items = 1 .. Len(items)
    BY SeqFacts DEF MembersApart
  <1>2. /\ old = {i \in DOMAIN items : items[i].name = pair.name}
        /\ \A i, j \in DOMAIN items : i # j => items[i].name # items[j].name
    BY DEF OldMembers, MembersApart
  <1>3. new = IF old = {} THEN Append(items, m)
              ELSE [i \in DOMAIN items |-> IF i \in old THEN m ELSE items[i]]
    BY DEF NewItems
  <1> HIDE DEF items, m, old
  <1>4. CASE old = {}
    <2> HIDE DEF new
    <2>1. new = Append(items, m)
      BY <1>3, <1>4
    <2>2. /\ IsSeq(new) /\ DOMAIN new = 1 .. Len(items) + 1
          /\ \A i \in 1 .. Len(items) : new[i] = items[i]
          /\ new[Len(items) + 1] = m
      BY <1>1, <2>1, GrowSeq
    <2>3. /\ \A i \in DOMAIN new : i # Len(items) + 1 => i \in DOMAIN items \ old /\ new[i] = items[i]
          /\ \A i \in DOMAIN items \ old : i \in DOMAIN new /\ i # Len(items) + 1
          /\ Len(items) + 1 \in DOMAIN new
      BY <1>1, <1>4, <2>2
    <2> QED
      BY <2>2, <2>3 DEF Replaces, items, old, m, new
  <1>5. CASE old # {}
    <2> HIDE DEF new
    <2>1. new = [i \in DOMAIN items |-> IF i \in old THEN m ELSE items[i]]
      BY <1>3, <1>5
    <2>2. PICK k \in old : TRUE
      BY <1>5
    <2>3. k \in DOMAIN items /\ old = {k}
      BY <1>2, <2>2
    <2>4. DOMAIN new = DOMAIN items /\ new[k] = m
          /\ \A i \in DOMAIN items \ old : new[i] = items[i]
      BY <2>1, <2>3
    <2>5. IsSeq(new)
      <3> DEFINE S == {new[i] : i \in DOMAIN items}
      <3>1. new \in [1 .. Len(items) -> S]
        BY <1>1, <2>1
      <3> HIDE DEF S
      <3>2. new \in Seq(S)
        BY <1>1, <3>1, SeqDef
      <3> QED
        BY <3>2, SeqOfElements
    <2>6. /\ \A i \in DOMAIN new : i # k => i \in DOMAIN items \ old /\ new[i] = items[i]
          /\ \A i \in DOMAIN items \ old : i \in DOMAIN new /\ i # k
      BY <2>3, <2>4
    <2> QED
      BY <2>3, <2>4, <2>5, <2>6 DEF Replaces, items, old, m, new
  <1> QED
    BY <1>4, <1>5

\* What a member of a repeated name leaves: its key is freed, its value lost.
KeysOf(object, old) == {object.items[i].key : i \in old}
LostOf(object, old) == UNION {object.items[i].ids : i \in old}

\* The object owns what it and the pair owned, except what the replaced member owned.
LEMMA AddedFacts ==
  ASSUME NEW object, IsSymbol(object), Contents(object), object.sym = "member",
         NEW pair, IsSymbol(pair), Contents(pair), pair.sym = "pair",
         SymbolIds(object) \cap SymbolIds(pair) = {}, ~ Validates
  PROVE  LET x    == Added(object, pair)
             keys == KeysOf(object, OldMembers(object, pair))
             lost == LostOf(object, OldMembers(object, pair))
         IN  /\ IsSymbol(x) /\ Contents(x) /\ x.sym = "member"
             /\ SymbolIds(x) \subseteq SymbolIds(object) \cup SymbolIds(pair)
             /\ SymbolIds(x) \cap keys = {}
             /\ keys \subseteq SymbolIds(object) /\ lost \subseteq SymbolIds(object)
             /\ SymbolIds(object) \cup SymbolIds(pair) \subseteq SymbolIds(x) \cup keys \cup lost
  <1> DEFINE x     == Added(object, pair)
             old   == OldMembers(object, pair)
             keys  == KeysOf(object, old)
             lost  == LostOf(object, old)
             items == object.items
             new   == NewItems(object, pair)
             m     == Member(pair)
  <1>1. /\ MembersApart(object)
        /\ object.key = NoKey /\ SymbolIds(object) = object.ids /\ object.ids \in Memory
    BY DEF Contents, SymbolIds, IsSymbol
  <1>2. /\ pair.ids \in Memory /\ pair.key \in Nat \ {0} /\ pair.key \notin pair.ids
        /\ SymbolIds(pair) = pair.ids \cup {pair.key}
    BY DEF Contents, SymbolIds, IsSymbol, NoKey
  <1>3. /\ m.ids = pair.ids /\ m.key = pair.key /\ m.name = pair.name
        /\ ItemOwns(m) = SymbolIds(pair)
    BY <1>2 DEF Member, ItemOwns
  <1>4. /\ Replaces(items, new, old, m)
    BY <1>1, NewItemsFacts
  <1>5. /\ \A i \in DOMAIN items :
             /\ items[i].ids \in Memory /\ items[i].key \in Nat \ {0}
             /\ items[i].key \notin items[i].ids /\ ItemOwns(items[i]) \subseteq object.ids
        /\ \A i, j \in DOMAIN items :
             i # j => /\ items[i].name # items[j].name
                      /\ ItemOwns(items[i]) \cap ItemOwns(items[j]) = {}
    BY <1>1 DEF MembersApart
  <1>6. old \subseteq DOMAIN items /\ \A i \in DOMAIN items \ old : items[i].name # pair.name
    BY DEF OldMembers
  <1>7. /\ IsSymbol(x) /\ x.sym = "member" /\ x.key = NoKey /\ x.items = new
        /\ x.ids = (object.ids \ OwnedByMembers(items)) \cup OwnedByMembers(new)
    <2> DEFINE ids == (object.ids \ OwnedByMembers(items)) \cup OwnedByMembers(new)
               t   == [i \in DOMAIN new |-> <<new[i].name, new[i].tree>>]
    <2>1. x = [object EXCEPT !.ids = ids, !.items = new, !.tree.items = t]
      BY DEF Added, NewItems
    <2>2. object = [sym |-> object.sym, ids |-> object.ids, key |-> object.key,
                    name |-> object.name, tree |-> object.tree, items |-> object.items]
      BY DEF IsSymbol
    <2>3. OwnedByMembers(new) \subseteq Nat \ {0}
      <3>1. PICK k \in DOMAIN new :
              /\ new[k] = m
              /\ \A i \in DOMAIN new : i # k => i \in DOMAIN items \ old /\ new[i] = items[i]
        BY <1>4 DEF Replaces
      <3>2. \A i \in DOMAIN new : new[i].ids \cup {new[i].key} \subseteq Nat \ {0}
        BY <1>2, <1>3, <1>5, <3>1 DEF Memory
      <3> QED
        BY <3>2 DEF OwnedByMembers
    <2>4. ids \in Memory
      BY <1>1, <2>3 DEF Memory
    <2> HIDE DEF ids, t, new, x
    <2>5. /\ x = [sym |-> x.sym, ids |-> x.ids, key |-> x.key, name |-> x.name,
                  tree |-> x.tree, items |-> x.items]
          /\ x.sym = object.sym /\ x.key = object.key /\ x.items = new /\ x.ids = ids
      BY <2>1, <2>2
    <2> QED
      BY <1>1, <2>4, <2>5 DEF IsSymbol, NoKey, ids
  <1>8. PICK k \in DOMAIN new :
          /\ new[k] = m
          /\ \A i \in DOMAIN new : i # k => i \in DOMAIN items \ old /\ new[i] = items[i]
          /\ \A i \in DOMAIN items \ old : i \in DOMAIN new /\ i # k
    BY <1>4 DEF Replaces
  <1>9. IsSeq(new)
    BY <1>4 DEF Replaces
  <1>10. object.ids \cap SymbolIds(pair) = {}
    BY <1>1
  <1> HIDE DEF x, old, items, new, m
  <1>11. \A i \in DOMAIN new :
           /\ new[i].ids \in Memory /\ new[i].key \in Nat \ {0}
           /\ new[i].key \notin new[i].ids
           /\ ItemOwns(new[i]) \subseteq OwnedByMembers(new)
    BY <1>2, <1>3, <1>5, <1>8 DEF OwnedByMembers, ItemOwns
  <1>12. \A i, j \in DOMAIN new :
           i # j => /\ new[i].name # new[j].name
                    /\ ItemOwns(new[i]) \cap ItemOwns(new[j]) = {}
    <2> SUFFICES ASSUME NEW i \in DOMAIN new, NEW j \in DOMAIN new, i # j
                 PROVE  /\ new[i].name # new[j].name
                        /\ ItemOwns(new[i]) \cap ItemOwns(new[j]) = {}
      OBVIOUS
    <2>1. CASE i = k
      BY <1>3, <1>5, <1>6, <1>8, <1>10, <2>1
    <2>2. CASE j = k
      BY <1>3, <1>5, <1>6, <1>8, <1>10, <2>2
    <2>3. CASE i # k /\ j # k
      BY <1>5, <1>8, <2>3
    <2> QED
      BY <2>1, <2>2, <2>3
  <1>13. MembersApart(x)
    <2>1. \A i \in DOMAIN new : ItemOwns(new[i]) \subseteq x.ids
      BY <1>7, <1>11
    <2> QED
      BY <1>7, <1>9, <1>11, <1>12, <2>1 DEF MembersApart
  <1>14. Contents(x) /\ SymbolIds(x) = x.ids
    BY <1>7, <1>13, OwnsNothingFacts DEF Contents, SymbolIds, IsSymbol, Memory, NoKey
  <1>15. OwnedByMembers(items) \subseteq object.ids
    BY <1>5 DEF OwnedByMembers, ItemOwns
  <1>16. OwnedByMembers(new) \subseteq object.ids \cup SymbolIds(pair)
    BY <1>3, <1>5, <1>8 DEF OwnedByMembers, ItemOwns
  <1>17. /\ keys \subseteq OwnedByMembers(items)
         /\ lost \subseteq OwnedByMembers(items)
    BY <1>6 DEF OwnedByMembers, KeysOf, LostOf, items
  <1>18. OwnedByMembers(items) \subseteq OwnedByMembers(new) \cup keys \cup lost
    <2> SUFFICES ASSUME NEW i \in DOMAIN items
                 PROVE  items[i].ids \cup {items[i].key} \subseteq OwnedByMembers(new) \cup keys \cup lost
      BY DEF OwnedByMembers
    <2>1. CASE i \in old
      BY <2>1 DEF KeysOf, LostOf, items
    <2>2. CASE i \notin old
      BY <1>8, <2>2 DEF OwnedByMembers
    <2> QED
      BY <2>1, <2>2
  <1>19. SymbolIds(pair) \subseteq OwnedByMembers(new)
    BY <1>3, <1>8 DEF OwnedByMembers, ItemOwns
  <1>20. OwnedByMembers(new) \cap keys = {}
    <2> SUFFICES ASSUME NEW i \in DOMAIN new, NEW j \in old
                 PROVE  items[j].key \notin new[i].ids \cup {new[i].key}
      BY DEF OwnedByMembers, KeysOf, items
    <2>1. items[j].key \in ItemOwns(items[j]) /\ ItemOwns(items[j]) \subseteq object.ids
      BY <1>5, <1>6 DEF ItemOwns
    <2>2. ItemOwns(new[i]) = new[i].ids \cup {new[i].key}
      BY DEF ItemOwns
    <2>3. CASE i = k
      BY <1>3, <1>8, <1>10, <2>1, <2>2, <2>3
    <2>4. CASE i # k
      <3>1. i \in DOMAIN items /\ i # j /\ j \in DOMAIN items /\ new[i] = items[i]
        BY <1>6, <1>8, <2>4
      <3> QED
        BY <1>5, <2>1, <2>2, <3>1
    <2> QED
      BY <2>3, <2>4
  <1> HIDE DEF keys, lost
  <1>21. /\ x.ids \subseteq object.ids \cup SymbolIds(pair)
         /\ x.ids \cap keys = {}
         /\ keys \subseteq object.ids /\ lost \subseteq object.ids
         /\ object.ids \cup SymbolIds(pair) \subseteq x.ids \cup keys \cup lost
    BY <1>7, <1>15, <1>16, <1>17, <1>18, <1>19, <1>20
  <1> QED
    BY <1>1, <1>7, <1>14, <1>21 DEF x, keys, lost, old

\* Freeing what is owned.
LEMMA FreedFacts ==
  ASSUME NEW h, Later(h, {}), NEW F
  PROVE  Later(Freed(h, F), F) /\ Fresh(Freed(h, F)) = Fresh(h)
  <1>1. /\ h = [next |-> h.next, freed |-> h.freed, failures |-> h.failures]
        /\ h.freed = heap.freed
    BY DEF Later, IsHeap
  <1>2. Freed(h, F) = [next |-> h.next, freed |-> heap.freed \cup F, failures |-> h.failures]
    BY <1>1 DEF Freed
  <1> QED
    BY <1>2 DEF Later, IsHeap, Fresh

\* object_update: the pair's memory becomes the object's, unless validation keeps neither;
\* the key of a repeated name is freed and its value lost.
LEMMA PutMemberStep ==
  ASSUME IndInv, phase = "parsing", NEW n \in Nat, n <= Len(stack), NEW h, Later(h, {}),
         NEW c, IsSymbol(c), Contents(c), c.sym = "member",
         IsSymbol(Top), Contents(Top), Top.sym = "pair",
         SymbolIds(c) \cap SymbolIds(Top) = {},
         SymbolIds(c) \cup SymbolIds(Top) = OwnedAbove(stack, n) \cup Fresh(h),
         c.items = <<>> \/ SymbolIds(c) \subseteq OwnedAbove(stack, n),
         Follows("member", At(n), At(n + 1)), PutMember(h, c, Top, n),
         UNCHANGED <<options, lookahead, answer>>
  PROVE  IndInv'
  <1> DEFINE old  == OldMembers(c, Top)
             keys == KeysOf(c, old)
             lost == LostOf(c, old)
  <1>1. CASE Raises(Refused(h), "ALLOC", Popped(n)) /\ UNCHANGED replaced
    BY <1>1, FailedStep
  <1>2. CASE Validates /\ Continues(Freed(h, {}), Pushed(n, c)) /\ replaced' = replaced
    <2>1. Later(Freed(h, {}), {}) /\ Fresh(Freed(h, {})) = Fresh(h)
      BY FreedFacts
    <2>2. Follows(c.sym, At(n), At(n + 1))
      OBVIOUS
    <2>3. SymbolIds(c) \subseteq OwnedAbove(stack, n) \cup Fresh(h)
      OBVIOUS
    <2> HIDE DEF Freed
    <2> QED
      BY <1>2, <2>1, <2>2, <2>3, ContinueStep
  <1>3. CASE /\ ~ Validates
             /\ Continues(Freed(h, keys), Pushed(n, Added(c, Top)))
             /\ replaced' = replaced \cup lost
    <2> DEFINE x == Added(c, Top)
               g == Freed(h, keys)
    <2>1. /\ IsSymbol(x) /\ Contents(x) /\ x.sym = "member"
          /\ SymbolIds(x) \subseteq SymbolIds(c) \cup SymbolIds(Top)
          /\ SymbolIds(x) \cap keys = {}
          /\ keys \subseteq SymbolIds(c) /\ lost \subseteq SymbolIds(c)
          /\ SymbolIds(c) \cup SymbolIds(Top) \subseteq SymbolIds(x) \cup keys \cup lost
      BY <1>3, AddedFacts
    <2>2. c.items = <<>> => keys = {} /\ lost = {}
      <3>1. c.items = <<>> => old = {}
        BY DEF OldMembers
      <3> QED
        BY <3>1 DEF KeysOf, LostOf
    <2> HIDE DEF keys, lost, x, old
    <2>3. Later(g, keys) /\ Fresh(g) = Fresh(h)
      BY FreedFacts
    <2>4. Continues(g, Pushed(n, x))
      BY <1>3 DEF x
    <2> HIDE DEF g
    <2>5. keys \subseteq OwnedAbove(stack, n) /\ lost \subseteq OwnedAbove(stack, n)
      BY <2>1, <2>2
    <2>6. /\ SymbolIds(x) \subseteq OwnedAbove(stack, n) \cup Fresh(g)
          /\ OwnedAbove(stack, n) \cup Fresh(g) \subseteq SymbolIds(x) \cup keys \cup replaced'
          /\ replaced \subseteq replaced'
          /\ replaced' \subseteq replaced \cup OwnedAbove(stack, n)
      BY <1>3, <2>1, <2>3, <2>5
    <2>7. Follows(x.sym, At(n), At(n + 1))
      BY <2>1
    <2> QED
      BY <2>1, <2>3, <2>4, <2>5, <2>6, <2>7, ContinueStep
  <1>4. /\ Validates => Added(c, Top) = c
    BY DEF Added
  <1> QED
    BY <1>1, <1>2, <1>3, <1>4 DEF PutMember, KeysOf, LostOf

\* The first member creates the object and is put into it.
LEMMA FirstMemberStep ==
  ASSUME IndInv, FirstMember
  PROVE  IndInv'
  <1>1. /\ Reduces /\ UNCHANGED <<options, lookahead, answer>>
        /\ At(0) = "pair" /\ At(1) = "{@"
        /\ \/ CreateFails(Popped(1))
           \/ PutMember(Created, Container("member", "OBJECT"), Top, 1)
    BY DEF FirstMember
  <1>2. /\ phase = "parsing" /\ StackSound(stack) /\ IsHeap(heap)
        /\ Owned(stack) \subseteq Ids
    BY <1>1, ReduceFacts DEF IndInv, AllHeld
  <1>3. /\ IsSymbol(Top) /\ Contents(Top) /\ Top.sym = "pair"
        /\ OwnedAbove(stack, 1) = SymbolIds(Top) /\ SymbolIds(Top) \subseteq Owned(stack)
    BY <1>1, <1>2, TopFacts
  <1>4. 1 \in Nat /\ 1 <= Len(stack)
    BY <1>1, <1>2, TopFacts
  <1>5. CASE CreateFails(Popped(1))
    BY <1>1, <1>4, <1>5, CreateFailsStep
  <1>6. CASE PutMember(Created, Container("member", "OBJECT"), Top, 1)
    <2> DEFINE c == Container("member", "OBJECT")
               h == Created
    <2>1. /\ Later(h, {}) /\ IsSymbol(c) /\ c.sym = "member" /\ c.key = NoKey
          /\ c.ids = Fresh(h) /\ c.items = <<>>
      BY <1>2, CreatedFacts
    <2>2. PutMember(h, c, Top, 1)
      BY <1>6
    <2> HIDE DEF c, h
    <2>3. Contents(c) /\ SymbolIds(c) = Fresh(h)
      BY <2>1, PlainSymbol, OwnsNothingFacts
    <2>4. Follows("member", At(1), At(1 + 1))
      BY <1>1, Zenon DEF Follows
    <2>5. Ids \cap Fresh(h) = {}
      BY <1>2 DEF Ids, Fresh, IsHeap
    <2>6. /\ SymbolIds(c) \cup SymbolIds(Top) = OwnedAbove(stack, 1) \cup Fresh(h)
          /\ SymbolIds(c) \cap SymbolIds(Top) = {}
      BY <1>2, <1>3, <2>3, <2>5
    <2> QED
      BY <1>1, <1>2, <1>3, <1>4, <2>1, <2>2, <2>3, <2>4, <2>6, PutMemberStep
  <1> QED
    BY <1>1, <1>5, <1>6

\* Each further member is put into the object below it on the stack.
LEMMA NextMemberStep ==
  ASSUME IndInv, NextMember
  PROVE  IndInv'
  <1> DEFINE c == stack[Len(stack) - 2]
  <1>1. /\ Reduces /\ UNCHANGED <<options, lookahead, answer>>
        /\ At(0) = "pair" /\ At(1) = ","
        /\ PutMember(heap, c, Top, 3)
    BY DEF NextMember
  <1>2. phase = "parsing" /\ StackSound(stack) /\ Later(heap, {}) /\ Fresh(heap) = {}
    BY <1>1, ReduceFacts
  <1>3. IsSymbol(Top) /\ Contents(Top) /\ Top.sym = "pair" /\ Follows("pair", At(1), At(2))
    BY <1>1, <1>2, TopFacts
  <1>4. At(1) \in OwnsNothing
    BY <1>1, Zenon DEF OwnsNothing, Punctuation
  <1>5. At(2) = "member"
    BY <1>1, <1>3, Zenon DEF Follows
  <1> HIDE DEF c
  <1>6. /\ 3 \in Nat /\ 3 <= Len(stack)
        /\ IsSymbol(c) /\ Contents(c) /\ c.sym = "member"
        /\ Follows("member", At(3), At(3 + 1))
        /\ OwnedAbove(stack, 3) = SymbolIds(Top) \cup SymbolIds(c)
        /\ SymbolIds(Top) \cap SymbolIds(c) = {}
    BY <1>1, <1>2, <1>4, <1>5, ThirdFacts DEF c
  <1>7. /\ SymbolIds(c) \cup SymbolIds(Top) = OwnedAbove(stack, 3) \cup Fresh(heap)
        /\ SymbolIds(c) \subseteq OwnedAbove(stack, 3)
        /\ SymbolIds(c) \cap SymbolIds(Top) = {}
    BY <1>2, <1>6
  <1> QED
    BY <1>1, <1>2, <1>3, <1>6, <1>7, PutMemberStep
-----------------------------------------------------------------------------
(***************************************************************************)
(* The scanner and the shifts.                                             *)
(***************************************************************************)

\* What the scanner hands over owns what was taken for it.
LEMMA ScannedFacts ==
  ASSUME IsHeap(heap), NEW s \in Scanned(heap)
  PROVE  /\ Later(s.heap, {})
         /\ IsSymbol(s.symbol) /\ s.symbol.key = NoKey /\ s.symbol.items = <<>>
         /\ s.symbol.ids = Fresh(s.heap)
         /\ s.token \in Names => /\ s.symbol.sym = "values"
                                 /\ \E id \in s.symbol.ids : s.symbol.ids = {id}
         /\ s.token \notin Names =>
              \/ s.token = "SCALAR" /\ s.symbol.sym = "values"
              \/ s.token \in Punctuation /\ s.symbol.sym = s.token /\ s.symbol.ids = {}
              \/ s.token \in {"EOI", "ERROR", "ENOMEM"}
  <1>1. /\ Later(heap, {}) /\ Fresh(heap) = {}
        /\ Later(Taken(heap), {}) /\ Fresh(Taken(heap)) = {heap.next}
        /\ Later(Refused(heap), {}) /\ Fresh(Refused(heap)) = {} /\ Refused(heap).failures # 0
    BY DEF IsHeap, Later, Taken, Refused, Fresh
  <1>2. {} \in Memory /\ {heap.next} \in Memory
    BY DEF IsHeap, Memory
  <1>3. Names \cap {"SCALAR", "EOI", "ERROR", "ENOMEM"} = {} /\ Names \cap Punctuation = {}
    BY NamesAssumption
  <1>4. CASE s = [token |-> "SCALAR", heap |-> heap, symbol |-> Symbol("values", {}, Scalar("SCALAR"))]
    <2>1. s.token = "SCALAR" /\ s.heap = heap /\ s.symbol = Symbol("values", {}, Scalar("SCALAR"))
      BY <1>4
    <2> DEFINE x == Symbol("values", {}, Scalar("SCALAR"))
    <2>2. IsSymbol(x) /\ x.sym = "values" /\ x.key = NoKey /\ x.items = <<>> /\ x.ids = {}
      BY <1>2, SymbolFacts
    <2>3. s.symbol = x
      BY <2>1
    <2> HIDE DEF x
    <2> QED
      BY <1>1, <1>3, <2>1, <2>2, <2>3
  <1>5. ASSUME NEW t \in Punctuation \cup {"EOI"},
               s = [token |-> t, heap |-> heap, symbol |-> Bare(t)]
        PROVE  /\ s.token = t /\ s.heap = heap /\ s.symbol = Bare(t)
    BY <1>5
  <1>6. ASSUME NEW t \in Names,
               s = [token |-> t, heap |-> Taken(heap),
                    symbol |-> [Symbol("values", {heap.next}, Scalar(t)) EXCEPT !.name = t]]
        PROVE  /\ s.token = t /\ s.heap = Taken(heap)
               /\ IsSymbol(s.symbol) /\ s.symbol.key = NoKey /\ s.symbol.items = <<>>
               /\ s.symbol.ids = {heap.next} /\ s.symbol.sym = "values"
    <2> DEFINE x == Symbol("values", {heap.next}, Scalar(t))
    <2>1. x = [sym |-> "values", ids |-> {heap.next}, key |-> NoKey, name |-> "",
               tree |-> Scalar(t), items |-> <<>>]
      BY DEF Symbol
    <2>2. s.token = t /\ s.heap = Taken(heap) /\ s.symbol = [x EXCEPT !.name = t]
      BY <1>6
    <2> HIDE DEF x
    <2>3. s.symbol = [sym |-> "values", ids |-> {heap.next}, key |-> NoKey, name |-> t,
                      tree |-> Scalar(t), items |-> <<>>]
      BY <2>1, <2>2
    <2> DEFINE y == s.symbol
    <2> HIDE DEF y
    <2>4. y = [sym |-> "values", ids |-> {heap.next}, key |-> NoKey, name |-> t,
               tree |-> Scalar(t), items |-> <<>>]
      BY <2>3 DEF y
    <2>5. IsSymbol(y) /\ y.key = NoKey /\ y.items = <<>> /\ y.ids = {heap.next} /\ y.sym = "values"
      BY <1>2, <2>4 DEF IsSymbol, NoKey
    <2> QED
      BY <2>2, <2>5 DEF y
  <1>7. ASSUME NEW e \in NewErrors(heap, "TOKEN"),
               s = [token |-> "ERROR", heap |-> e.heap,
                    symbol |-> Symbol("error", e.value.ids, NoValue)]
        PROVE  /\ s.token = "ERROR" /\ s.heap = e.heap
               /\ s.symbol = Symbol("error", e.value.ids, NoValue)
               /\ \/ e.heap = Taken(heap) /\ e.value.ids = {heap.next}
                  \/ e.heap = Refused(heap) /\ e.value.ids = {}
    BY <1>7 DEF NewErrors, Failure, Result
  <1>8. CASE s = [token |-> "ENOMEM", heap |-> Refused(heap), symbol |-> Bare("ENOMEM")]
    <2>1. s.token = "ENOMEM" /\ s.heap = Refused(heap) /\ s.symbol = Bare("ENOMEM")
      BY <1>8
    <2> QED
      BY <1>1, <1>3, <2>1, BareFacts
  <1>9. CASE \E t \in Punctuation \cup {"EOI"} : s = [token |-> t, heap |-> heap, symbol |-> Bare(t)]
    <2>1. PICK t \in Punctuation \cup {"EOI"} :
            s.token = t /\ s.heap = heap /\ s.symbol = Bare(t)
      BY <1>5, <1>9
    <2> QED
      BY <1>1, <1>3, <2>1, BareFacts
  <1>10. CASE \E t \in Names :
           s = [token |-> t, heap |-> Taken(heap),
                symbol |-> [Symbol("values", {heap.next}, Scalar(t)) EXCEPT !.name = t]]
    BY <1>1, <1>6, <1>10
  <1>11. CASE \E e \in NewErrors(heap, "TOKEN") :
           s = [token |-> "ERROR", heap |-> e.heap,
                symbol |-> Symbol("error", e.value.ids, NoValue)]
    <2>1. PICK e \in NewErrors(heap, "TOKEN") :
               /\ s.token = "ERROR" /\ s.heap = e.heap
               /\ s.symbol = Symbol("error", e.value.ids, NoValue)
               /\ \/ e.heap = Taken(heap) /\ e.value.ids = {heap.next}
                  \/ e.heap = Refused(heap) /\ e.value.ids = {}
      BY <1>7, <1>11
    <2>2. e.value.ids \in Memory
      BY <1>2, <2>1
    <2> DEFINE x == Symbol("error", e.value.ids, NoValue)
    <2>3. IsSymbol(x) /\ x.key = NoKey /\ x.items = <<>> /\ x.ids = e.value.ids
      BY <2>2, SymbolFacts
    <2>4. s.symbol = x
      BY <2>1
    <2> HIDE DEF x
    <2> QED
      BY <1>1, <1>3, <2>1, <2>3, <2>4
  <1> QED
    BY <1>4, <1>8, <1>9, <1>10, <1>11 DEF Scanned

\* A token that a rule goes on with, by what it follows.
LEMMA AcceptableFacts ==
  ASSUME NEW token \in Acceptable
  PROVE  /\ token = "]" => At(0) \in {"[@", "element"}
         /\ token = "}" => At(0) \in {"{@", "member"}
         /\ token = "," => At(0) \in {"element", "member"}
         /\ token = ":" => At(0) = "key"
         /\ token = "EOI" => At(0) = "value"
         /\ token # "ENOMEM"
  BY NamesAssumption, Zenon DEF Acceptable, Punctuation

\* The end of a container, after its last part.
LEMMA EndStep ==
  ASSUME IndInv, phase = "parsing", NEW part \in {"element", "member"}, At(0) = part,
         NEW parts \in {"elements", "members"},
         \A below, second : Follows(part, below, second) => Follows(parts, below, second),
         NEW h, Later(h, {}), Fresh(h) = {},
         Continues(h, Pushed(1, [Top EXCEPT !.sym = parts])),
         UNCHANGED <<options, lookahead, replaced, answer>>
  PROVE  IndInv'
  <1> DEFINE x == [Top EXCEPT !.sym = parts]
  <1>1. StackSound(stack) /\ At(0) # "$"
    BY DEF IndInv
  <1>2. /\ IsSymbol(Top) /\ Contents(Top) /\ Top.sym = part
        /\ Follows(part, At(1), At(2))
        /\ OwnedAbove(stack, 1) = SymbolIds(Top)
    BY <1>1, TopFacts
  <1>3. 1 \in Nat /\ 1 <= Len(stack)
    BY <1>1, TopFacts
  <1>4. /\ IsSymbol(x) /\ x.sym = parts /\ x.key = Top.key /\ x.ids = Top.ids
        /\ SymbolIds(x) = SymbolIds(Top)
    <2>1. IsRenamed(x, Top, parts)
      BY DEF IsRenamed
    <2> HIDE DEF x
    <2> QED
      BY <1>2, <2>1, RenamedFacts
  <1>5. Continues(h, Pushed(1, x))
    OBVIOUS
  <1> HIDE DEF x
  <1>6. Top.key = NoKey
    BY <1>2 DEF Contents
  <1>7. Contents(x)
    BY <1>4, <1>6, PlainSymbol, OwnsNothingFacts
  <1>8. Follows(x.sym, At(1), At(1 + 1))
    BY <1>2, <1>4, 1 + 1 = 2
  <1> QED
    BY <1>2, <1>3, <1>4, <1>5, <1>7, <1>8, ContinueStep

\* A token that is accepted goes on the stack with the memory of its text.
LEMMA ShiftStep ==
  ASSUME IndInv, NEW s \in Scanned(heap), Shift(s)
  PROVE  IndInv'
  <1> DEFINE x == s.symbol
             h == s.heap
             key == [s.symbol EXCEPT !.sym = "STRING"]
  <1>1. /\ phase = "parsing" /\ s.token \in Acceptable /\ s.token \notin {"EOI", "ERROR"}
        /\ heap' = h /\ UNCHANGED <<options, lookahead, result, replaced, phase, answer>>
    BY DEF Shift, Read, Reads
  <1>2. /\ StackSound(stack) /\ IsHeap(heap)
        /\ OwnedAbove(stack, 0) = {} /\ Len(stack) \in Nat
    BY AboveNone DEF IndInv
  <1>3. /\ Later(h, {}) /\ IsSymbol(x) /\ x.key = NoKey /\ x.items = <<>> /\ x.ids = Fresh(h)
        /\ s.token \in Names => /\ x.sym = "values"
                                /\ \E id \in x.ids : x.ids = {id}
        /\ s.token \notin Names =>
             \/ s.token = "SCALAR" /\ x.sym = "values"
             \/ s.token \in Punctuation /\ x.sym = s.token /\ x.ids = {}
             \/ s.token \in {"EOI", "ERROR", "ENOMEM"}
    BY <1>2, ScannedFacts
  <1>4. /\ s.token = "]" => At(0) \in {"[@", "element"}
        /\ s.token = "}" => At(0) \in {"{@", "member"}
        /\ s.token = "," => At(0) \in {"element", "member"}
        /\ s.token = ":" => At(0) = "key"
        /\ s.token # "ENOMEM"
    BY <1>1, AcceptableFacts
  <1>5. \/ s.token = "]" /\ At(0) = "element" /\ stack' = Pushed(1, [Top EXCEPT !.sym = "elements"])
        \/ s.token = "}" /\ At(0) = "member" /\ stack' = Pushed(1, [Top EXCEPT !.sym = "members"])
        \/ s.token \in Names /\ ExpectsKey /\ stack' = Pushed(0, key)
        \/ /\ ~ (s.token = "]" /\ At(0) = "element") /\ ~ (s.token = "}" /\ At(0) = "member")
           /\ stack' = Pushed(0, x)
    <2> DEFINE EndsArray  == s.token = "]" /\ At(0) = "element"
               EndsObject == s.token = "}" /\ At(0) = "member"
               IsKey      == s.token \in Names /\ ExpectsKey
    <2>1. stack' = CASE EndsArray -> Pushed(1, [Top EXCEPT !.sym = "elements"])
                     [] EndsObject -> Pushed(1, [Top EXCEPT !.sym = "members"])
                     [] IsKey -> Pushed(0, key)
                     [] OTHER -> Pushed(0, x)
      BY DEF Shift
    <2>2. \/ EndsArray /\ stack' = Pushed(1, [Top EXCEPT !.sym = "elements"])
          \/ EndsObject /\ stack' = Pushed(1, [Top EXCEPT !.sym = "members"])
          \/ IsKey /\ stack' = Pushed(0, key)
          \/ ~ EndsArray /\ ~ EndsObject /\ stack' = Pushed(0, x)
      <3> HIDE DEF EndsArray, EndsObject, IsKey, key, x
      <3> QED
        BY <2>1
    <2> QED
      BY <2>2
  <1> HIDE DEF x, h, key
  <1>6. CASE s.token = "]" /\ At(0) = "element" /\ stack' = Pushed(1, [Top EXCEPT !.sym = "elements"])
    <2>1. s.token \notin Names /\ s.token \in Punctuation
      BY <1>6, NamesAssumption, Zenon DEF Punctuation
    <2>2. x.ids = {}
      BY <1>1, <1>3, <1>4, <1>6, <2>1, Zenon
    <2>3. Continues(h, Pushed(1, [Top EXCEPT !.sym = "elements"]))
      BY <1>1, <1>6 DEF Continues
    <2>4. \A below, second : Follows("element", below, second) => Follows("elements", below, second)
      BY Zenon DEF Follows
    <2> QED
      BY <1>1, <1>3, <1>6, <2>2, <2>3, <2>4, EndStep
  <1>7. CASE s.token = "}" /\ At(0) = "member" /\ stack' = Pushed(1, [Top EXCEPT !.sym = "members"])
    <2>1. s.token \notin Names /\ s.token \in Punctuation
      BY <1>7, NamesAssumption, Zenon DEF Punctuation
    <2>2. x.ids = {}
      BY <1>1, <1>3, <1>4, <1>7, <2>1, Zenon
    <2>3. Continues(h, Pushed(1, [Top EXCEPT !.sym = "members"]))
      BY <1>1, <1>7 DEF Continues
    <2>4. \A below, second : Follows("member", below, second) => Follows("members", below, second)
      BY Zenon DEF Follows
    <2> QED
      BY <1>1, <1>3, <1>7, <2>2, <2>3, <2>4, EndStep
  <1>8. CASE s.token \in Names /\ ExpectsKey /\ stack' = Pushed(0, key)
    <2>1. /\ IsSymbol(key) /\ key.sym = "STRING" /\ key.ids = x.ids /\ key.key = NoKey
      <3>1. IsRenamed(key, x, "STRING")
        BY DEF key, x, IsRenamed
      <3> QED
        BY <1>3, <3>1, RenamedFacts
    <2>2. Contents(key) /\ SymbolIds(key) = x.ids
      BY <1>3, <1>8, <2>1, PlainSymbol, OwnsNothingFacts
    <2>3. Follows("STRING", At(0), At(1))
      BY <1>8, Zenon DEF ExpectsKey, Follows
    <2>4. Follows(key.sym, At(0), At(0 + 1))
      BY <2>1, <2>3, 0 + 1 = 1
    <2>5. Continues(h, Pushed(0, key))
      BY <1>1, <1>8 DEF Continues
    <2> QED
      BY <1>1, <1>2, <1>3, <2>1, <2>2, <2>4, <2>5, ContinueStep
  <1>9. CASE /\ ~ (s.token = "]" /\ At(0) = "element") /\ ~ (s.token = "}" /\ At(0) = "member")
             /\ stack' = Pushed(0, x)
    <2>1. \/ x.sym = "values"
          \/ s.token \in Punctuation /\ x.sym = s.token /\ x.ids = {}
      BY <1>1, <1>3, <1>4
    <2>2. x.sym \in OwnsNothing => x.ids = {}
      BY <2>1, OwnsNothingFacts
    <2>3. x.sym \notin {"pair", "STRING", "key", "member"}
      BY <2>1, OwnsNothingFacts DEF OwnsNothing
    <2>4. Contents(x) /\ SymbolIds(x) = x.ids
      BY <1>3, <2>2, <2>3, PlainSymbol
    <2>5. Follows(x.sym, At(0), At(1))
      <3>1. CASE x.sym = "values"
        BY <3>1, Zenon DEF Follows
      <3>2. CASE x.sym \in Punctuation /\ x.sym = s.token
        <4>1. /\ x.sym = "]" => At(0) = "[@"
              /\ x.sym = "}" => At(0) = "{@"
              /\ x.sym = "," => At(0) \in {"element", "member"}
              /\ x.sym = ":" => At(0) = "key"
          BY <1>4, <1>9, <3>2, Zenon
        <4>2. x.sym \in {"[", "]", "{", "}", ",", ":"}
          BY <3>2 DEF Punctuation
        <4> QED
          BY <4>1, <4>2, Zenon DEF Follows
      <3> QED
        BY <2>1, <3>1, <3>2
    <2>6. Continues(h, Pushed(0, x))
      BY <1>1, <1>9 DEF Continues
    <2>7. Follows(x.sym, At(0), At(0 + 1))
      BY <2>5, 0 + 1 = 1
    <2> QED
      BY <1>1, <1>2, <1>3, <2>4, <2>6, <2>7, ContinueStep
  <1> QED
    BY <1>5, <1>6, <1>7, <1>8, <1>9

\* start: value JSO_T_EOI.  The value's memory is the result's.
LEMMA AcceptStep ==
  ASSUME IndInv, NEW s \in Scanned(heap), Accept(s)
  PROVE  IndInv'
  <1>1. /\ phase = "parsing" /\ s.token = "EOI" /\ s.token \in Acceptable
        /\ result' = Result("DATA", Top.ids, Top.tree) /\ stack' = Popped(1)
        /\ phase' = "accepted" /\ heap' = heap
        /\ UNCHANGED <<options, lookahead, replaced, answer>>
    BY DEF Accept, Read, Reads
  <1>2. /\ StackSound(stack) /\ Later(heap, {}) /\ Fresh(heap) = {} /\ lookahead'.ids = {}
    BY <1>1 DEF IndInv, Later, IsHeap, Fresh, PhaseExact
  <1>3. At(0) = "value" /\ At(0) # "$"
    BY <1>1, AcceptableFacts
  <1>4. /\ Contents(Top) /\ Top.sym = "value" /\ OwnedAbove(stack, 1) = SymbolIds(Top)
    BY <1>2, <1>3, TopFacts
  <1>5. 1 \in Nat /\ 1 <= Len(stack)
    BY <1>2, <1>3, TopFacts
  <1>6. SymbolIds(Top) = Top.ids
    BY <1>4 DEF Contents, SymbolIds
  <1>7. result'.ids = Top.ids /\ result'.kind = "DATA"
    BY <1>1 DEF Result
  <1>8. /\ result'.ids \cup lookahead'.ids = OwnedAbove(stack, 1) \cup Fresh(heap)
        /\ result'.ids \cap lookahead'.ids = {}
    BY <1>2, <1>4, <1>6, <1>7
  <1>9. phase' \in {"unwinding", "accepted"} /\ phase' # "unwinding"
    BY <1>1
  <1> QED
    BY <1>1, <1>2, <1>5, <1>7, <1>8, <1>9, LeaveStep

\* errlex.
LEMMA ErrLexStep ==
  ASSUME IndInv, NEW s \in Scanned(heap), ErrLex(s)
  PROVE  IndInv'
  <1>1. /\ phase = "parsing" /\ heap' = s.heap
        /\ result' = Failure("TOKEN", s.symbol.ids)
        /\ phase' = "unwinding" /\ stack' = stack
        /\ UNCHANGED <<options, lookahead, replaced, answer>>
    BY DEF ErrLex, Read, Reads
  <1>2. StackSound(stack) /\ IsHeap(heap) /\ lookahead'.ids = {}
    BY <1>1 DEF IndInv, PhaseExact
  <1>3. Later(s.heap, {}) /\ s.symbol.ids = Fresh(s.heap)
    BY <1>2, ScannedFacts
  <1>4. OwnedAbove(stack, 0) = {} /\ 0 \in Nat /\ 0 <= Len(stack)
    BY <1>2, AboveNone
  <1>5. stack' = Popped(0)
    BY <1>1, <1>2, PoppedNone
  <1>6. result'.ids = Fresh(s.heap) /\ result'.kind # "DATA"
    BY <1>1, <1>3 DEF Failure, Result
  <1>7. /\ result'.ids \cup lookahead'.ids = OwnedAbove(stack, 0) \cup Fresh(s.heap)
        /\ result'.ids \cap lookahead'.ids = {}
    BY <1>2, <1>4, <1>6
  <1>8. phase' \in {"unwinding", "accepted"} /\ phase' # "accepted"
    BY <1>1
  <1> QED
    BY <1>1, <1>3, <1>4, <1>5, <1>6, <1>7, <1>8, LeaveStep

\* The refused token keeps what was taken for it.
LEMMA SyntaxErrorStep ==
  ASSUME IndInv, NEW s \in Scanned(heap), SyntaxError(s)
  PROVE  IndInv'
  <1>1. /\ phase = "parsing" /\ Raises(s.heap, "SYNTAX", stack) /\ lookahead' = s.symbol
        /\ UNCHANGED <<options, replaced, answer>>
    BY DEF SyntaxError, Read, Reads
  <1>2. StackSound(stack) /\ IsHeap(heap)
    BY DEF IndInv
  <1>3. Later(s.heap, {}) /\ s.symbol.ids = Fresh(s.heap)
    BY <1>2, ScannedFacts
  <1>4. OwnedAbove(stack, 0) = {} /\ 0 \in Nat /\ 0 <= Len(stack)
    BY <1>2, AboveNone
  <1>5. Raises(s.heap, "SYNTAX", Popped(0))
    BY <1>1, <1>2, PoppedNone
  <1>6. lookahead'.ids = Fresh(s.heap)
    BY <1>1, <1>3
  <1>7. OwnedAbove(stack, 0) \cup Fresh(s.heap) \subseteq lookahead'.ids
    BY <1>4, <1>6
  <1> QED
    BY <1>1, <1>3, <1>4, <1>5, <1>6, <1>7, RaiseStep
-----------------------------------------------------------------------------
(***************************************************************************)
(* The start and the end of the call.                                      *)
(***************************************************************************)

\* An allocation, and one that fails.
LEMMA AllocFacts ==
  ASSUME NEW h, IsHeap(h)
  PROVE  /\ IsHeap(Taken(h)) /\ Taken(h).next = h.next + 1
         /\ Taken(h).freed = h.freed /\ Taken(h).failures = h.failures
         /\ IsHeap(Refused(h)) /\ Refused(h).next = h.next
         /\ Refused(h).freed = h.freed /\ Refused(h).failures > 0
         /\ Refused(h).failures # 0
  <1>1. /\ h = [next |-> h.next, freed |-> h.freed, failures |-> h.failures]
        /\ h.next \in Nat \ {0} /\ h.failures \in Nat
    BY DEF IsHeap
  <1>2. /\ Taken(h) = [next |-> h.next + 1, freed |-> h.freed, failures |-> h.failures]
        /\ Refused(h) = [next |-> h.next, freed |-> h.freed, failures |-> h.failures + 1]
    BY <1>1 DEF Taken, Refused
  <1>3. h.next + 1 \in Nat \ {0} /\ h.failures + 1 \in Nat \ {0} /\ h.failures + 1 > 0
    BY <1>1
  <1> QED
    BY <1>1, <1>2, <1>3 DEF IsHeap

\* The memory of everyone but the stack, as far as the parser has not used it.
LEMMA InvParts ==
  ASSUME IndInv
  PROVE  /\ StackSound(stack) /\ IsHeap(heap) /\ Divided /\ AllHeld \subseteq Ids
         /\ PhaseExact /\ ErrorMoved /\ Held = AllHeld
         /\ heap.failures = 0 /\ ~ Validates /\ phase # "crashed" => Ids = AllHeld \cup replaced
  <1>1. StackSound(stack) /\ NothingLost
    BY DEF IndInv
  <1>2. Held = AllHeld
    BY <1>1, HeldIsAllHeld DEF StackSound
  <1> QED
    BY <1>1, <1>2 DEF IndInv, NothingLost

\* The invariant from what a step leaves, without the list of the holders.
LEMMA InvFromParts ==
  ASSUME StackSound(stack)', IsHeap(heap'), Divided', (AllHeld \subseteq Ids)', PhaseExact',
         ErrorMoved',
         heap'.failures = 0 /\ ~ Validates' /\ phase' # "crashed" => Ids' = AllHeld' \cup replaced'
  PROVE  IndInv'
  <1>1. Held' = AllHeld'
    BY HeldIsAllHeldNext DEF StackSound
  <1> QED
    BY <1>1 DEF IndInv, NothingLost

\* The session begins, or its stream cannot be initialised.
LEMMA BeginStep ==
  ASSUME IndInv, Begin \/ StreamInitFails
  PROVE  IndInv'
  <1>1. /\ StackSound(stack) /\ IsHeap(heap) /\ Divided /\ AllHeld \subseteq Ids
        /\ PhaseExact /\ ErrorMoved
        /\ heap.failures = 0 /\ ~ Validates /\ phase # "crashed" => Ids = AllHeld \cup replaced
    BY InvParts
  <1>2. CASE Begin
    <2>1. /\ UNCHANGED <<options, stack, lookahead, result, slot, heap, replaced, answer>>
          /\ phase = "start" /\ phase' = "parsing"
      BY <1>2 DEF Begin
    <2>2. /\ StackSound(stack)' /\ IsHeap(heap') /\ Divided' /\ (AllHeld \subseteq Ids)'
          /\ Ids' = Ids /\ AllHeld' = AllHeld /\ (Validates' <=> Validates)
      BY <1>1, <2>1 DEF Divided, AllHeld, Ids, Validates
    <2>3. PhaseExact' /\ ErrorMoved'
      BY <1>1, <2>1 DEF PhaseExact, ErrorMoved
    <2> QED
      BY <1>1, <2>1, <2>2, <2>3, InvFromParts
  <1>3. CASE StreamInitFails
    <2>1. /\ UNCHANGED <<options, stack, lookahead, result, slot, replaced>>
          /\ phase = "start" /\ phase' = "returned"
          /\ heap' = Refused(heap) /\ answer' = [rc |-> "FAILURE", value |-> Unset]
      BY <1>3 DEF StreamInitFails
    <2>2. /\ IsHeap(heap') /\ heap'.failures # 0 /\ heap'.freed = heap.freed /\ Ids' = Ids
      BY <1>1, <2>1 DEF IsHeap, Refused, Ids
    <2>3. answer'.value.ids = {} /\ answer'.value.kind = "UNSET"
      BY <2>1 DEF Unset, Result
    <2>4. StackSound(stack)' /\ Divided' /\ (AllHeld \subseteq Ids)'
      BY <1>1, <2>1, <2>2, <2>3 DEF Divided, AllHeld
    <2>5. PhaseExact' /\ ErrorMoved'
      BY <2>1, <2>3 DEF PhaseExact, ErrorMoved
    <2> QED
      BY <2>2, <2>4, <2>5, InvFromParts
  <1> QED
    BY <1>2, <1>3

\* Everything on the stack and the refused token are freed.
LEMMA UnwindStep ==
  ASSUME IndInv, Unwind
  PROVE  IndInv'
  <1>1. /\ StackSound(stack) /\ IsHeap(heap) /\ Divided /\ AllHeld \subseteq Ids
        /\ PhaseExact
        /\ heap.failures = 0 /\ ~ Validates /\ phase # "crashed" => Ids = AllHeld \cup replaced
    BY InvParts
  <1>2. /\ phase = "unwinding" /\ phase' \in {"rejected", "crashed"}
        /\ heap' = Freed(heap, lookahead.ids \cup Owned(stack))
        /\ stack' = <<>> /\ lookahead' = NoSymbol
        /\ UNCHANGED <<options, result, replaced, answer>>
    BY DEF Unwind, Owned, Survives
  <1>3. /\ IsHeap(heap') /\ heap'.next = heap.next /\ heap'.failures = heap.failures
        /\ heap'.freed = heap.freed \cup lookahead.ids \cup Owned(stack)
    <2>1. heap = [next |-> heap.next, freed |-> heap.freed, failures |-> heap.failures]
          /\ heap.next \in Nat \ {0} /\ heap.failures \in Nat
      BY <1>1 DEF IsHeap
    <2>2. heap' = [next |-> heap.next,
                   freed |-> heap.freed \cup (lookahead.ids \cup Owned(stack)),
                   failures |-> heap.failures]
      BY <1>2, <2>1 DEF Freed
    <2> HIDE <1>2
    <2> QED
      BY <2>1, <2>2 DEF IsHeap
  <1>4. lookahead'.ids = {}
    BY <1>2, BareFacts DEF NoSymbol
  <1>5. StackSound(stack') /\ Owned(stack') = {}
    BY <1>2 DEF StackSound, Owned, IsSeq
  <1>6. answer.value.ids = {} /\ result.kind # "DATA"
    BY <1>1, <1>2 DEF PhaseExact
  <1>7. Ids' = Ids
    BY <1>3 DEF Ids
  <1>8. Divided' /\ AllHeld' = AllHeld
    BY <1>1, <1>2, <1>3, <1>4, <1>5, <1>6 DEF Divided, AllHeld
  <1>9. PhaseExact' /\ ErrorMoved'
    BY <1>2, <1>4, <1>6 DEF PhaseExact, ErrorMoved
  <1>10. Validates' <=> Validates
    BY <1>2 DEF Validates
  <1> QED
    BY <1>1, <1>2, <1>3, <1>5, <1>7, <1>8, <1>9, <1>10, InvFromParts

\* jso_parser returns: what the result owned, the caller owns.
LEMMA ReturnResultStep ==
  ASSUME IndInv, ReturnResult
  PROVE  IndInv'
  <1>1. /\ StackSound(stack) /\ IsHeap(heap) /\ Divided /\ AllHeld \subseteq Ids
        /\ PhaseExact
        /\ heap.failures = 0 /\ ~ Validates /\ phase # "crashed" => Ids = AllHeld \cup replaced
    BY InvParts
  <1>2. /\ phase \in {"accepted", "rejected"} /\ ~ (HasSchema /\ slot)
        /\ answer' = [rc |-> IF phase = "accepted" THEN "SUCCESS" ELSE "FAILURE",
                      value |-> result]
        /\ result' = Unset /\ phase' = "returned"
        /\ UNCHANGED <<options, stack, lookahead, slot, heap, replaced>>
    BY DEF ReturnResult, Parsed
  <1>3. /\ answer'.value = result /\ result'.ids = {}
        /\ (answer'.rc = "SUCCESS") = (phase = "accepted")
    BY <1>2 DEF Unset, Result
  <1>4. /\ answer.value.ids = {} /\ lookahead.ids = {}
        /\ (phase = "accepted") = (result.kind = "DATA")
    BY <1>1, <1>2 DEF PhaseExact
  <1>5. Divided' /\ AllHeld' = AllHeld
    BY <1>1, <1>2, <1>3, <1>4 DEF Divided, AllHeld
  <1>6. Ids' = Ids /\ (Validates' <=> Validates) /\ IsHeap(heap') /\ StackSound(stack')
    BY <1>1, <1>2 DEF Ids, Validates
  <1>7. PhaseExact'
    BY <1>2 DEF PhaseExact
  <1>8. ErrorMoved'
    BY <1>2, <1>3, <1>4 DEF ErrorMoved, HasSchema
  <1> QED
    BY <1>1, <1>2, <1>5, <1>6, <1>7, <1>8, InvFromParts

\* The value or the error of the parser is freed before the error of the schema is returned.
LEMMA ClearResultStep ==
  ASSUME IndInv, ClearResult
  PROVE  IndInv'
  <1>1. /\ StackSound(stack) /\ IsHeap(heap) /\ Divided /\ AllHeld \subseteq Ids
        /\ PhaseExact
        /\ heap.failures = 0 /\ ~ Validates /\ phase # "crashed" => Ids = AllHeld \cup replaced
    BY InvParts
  <1>2. /\ phase \in {"accepted", "rejected"} /\ phase' \in {"failing", "crashed"}
        /\ heap' = Freed(heap, result.ids)
        /\ result' = Unset
        /\ UNCHANGED <<options, stack, lookahead, slot, replaced, answer>>
    BY DEF ClearResult, Parsed, Survives
  <1>3. /\ IsHeap(heap') /\ heap'.next = heap.next /\ heap'.failures = heap.failures
        /\ heap'.freed = heap.freed \cup result.ids
    <2>1. heap = [next |-> heap.next, freed |-> heap.freed, failures |-> heap.failures]
          /\ heap.next \in Nat \ {0} /\ heap.failures \in Nat
      BY <1>1 DEF IsHeap
    <2>2. heap' = [next |-> heap.next, freed |-> heap.freed \cup result.ids,
                   failures |-> heap.failures]
      BY <1>2, <2>1 DEF Freed
    <2> HIDE <1>2
    <2> QED
      BY <2>1, <2>2 DEF IsHeap
  <1>4. result'.ids = {} /\ answer.value.ids = {} /\ lookahead.ids = {}
    BY <1>1, <1>2 DEF Unset, Result, PhaseExact
  <1>5. Divided' /\ AllHeld' = AllHeld
    BY <1>1, <1>2, <1>3, <1>4 DEF Divided, AllHeld
  <1>6. Ids' = Ids /\ (Validates' <=> Validates) /\ StackSound(stack')
    BY <1>1, <1>2, <1>3 DEF Ids, Validates
  <1>7. PhaseExact' /\ ErrorMoved'
    BY <1>2, <1>4 DEF PhaseExact, ErrorMoved
  <1> QED
    BY <1>1, <1>2, <1>3, <1>5, <1>6, <1>7, InvFromParts

\* The error of the schema is moved to a new one, left in the schema, or written to nowhere.
LEMMA ReturnSchemaErrorStep ==
  ASSUME IndInv, ReturnSchemaError
  PROVE  IndInv'
  <1>1. /\ StackSound(stack) /\ IsHeap(heap) /\ Divided /\ AllHeld \subseteq Ids
        /\ PhaseExact
        /\ heap.failures = 0 /\ ~ Validates /\ phase # "crashed" => Ids = AllHeld \cup replaced
    BY InvParts
  <1>2. /\ phase = "failing"
        /\ UNCHANGED <<options, stack, lookahead, result, replaced>>
    BY DEF ReturnSchemaError
  <1>3. /\ lookahead.ids = {} /\ result.ids = {} /\ answer.value.ids = {}
    BY <1>1, <1>2 DEF PhaseExact
  <1>4. heap.next \in Nat \ {0} /\ heap.failures \in Nat
    BY <1>1 DEF IsHeap
  <1>5. Validates' <=> Validates
    BY <1>2 DEF Validates
  <1>6. CASE /\ heap' = Taken(Taken(heap)) /\ slot' = FALSE /\ phase' = "returned"
             /\ answer' = [rc |-> "FAILURE",
                           value |-> Failure("SCHEMA", {heap.next, Taken(heap).next})]
    <2>1. /\ IsHeap(heap') /\ heap'.next = heap.next + 2 /\ heap'.freed = heap.freed
          /\ heap'.failures = heap.failures /\ Taken(heap).next = heap.next + 1
      <3>1. IsHeap(Taken(heap)) /\ Taken(heap).next = heap.next + 1
        BY <1>1, AllocFacts
      <3>2. IsHeap(Taken(Taken(heap))) /\ Taken(Taken(heap)).next = heap.next + 1 + 1
        BY <3>1, AllocFacts
      <3> QED
        BY <1>1, <1>4, <1>6, <3>1, <3>2, AllocFacts
    <2>2. /\ answer'.value.ids = {heap.next, heap.next + 1}
          /\ answer'.value.kind = "SCHEMA" /\ answer'.rc = "FAILURE"
      BY <1>6, <2>1 DEF Failure, Result
    <2>3. /\ Ids' = Ids \cup {heap.next, heap.next + 1}
          /\ Ids \cap {heap.next, heap.next + 1} = {}
      BY <1>4, <2>1 DEF Ids
    <2>4. Divided' /\ AllHeld' = AllHeld \cup {heap.next, heap.next + 1}
      BY <1>1, <1>2, <1>3, <2>1, <2>2, <2>3 DEF Divided, AllHeld
    <2>5. PhaseExact' /\ ErrorMoved'
      BY <1>6, <2>2 DEF PhaseExact, ErrorMoved
    <2> QED
      BY <1>1, <1>2, <1>5, <2>1, <2>3, <2>4, <2>5, InvFromParts
  <1>7. CASE /\ heap' = Refused(Taken(heap)) /\ phase' = "returned" /\ UNCHANGED slot
             /\ answer' = [rc |-> "FAILURE", value |-> Failure("SCHEMA", {heap.next})]
    <2>1. /\ IsHeap(heap') /\ heap'.next = heap.next + 1 /\ heap'.freed = heap.freed
          /\ heap'.failures > 0 /\ heap'.failures # 0
      <3>1. IsHeap(Taken(heap)) /\ Taken(heap).next = heap.next + 1
        BY <1>1, AllocFacts
      <3> QED
        BY <1>1, <1>4, <1>7, <3>1, AllocFacts
    <2>2. /\ answer'.value.ids = {heap.next}
          /\ answer'.value.kind = "SCHEMA" /\ answer'.rc = "FAILURE"
      BY <1>7 DEF Failure, Result
    <2>3. Ids' = Ids \cup {heap.next} /\ heap.next \notin Ids
      BY <1>4, <2>1 DEF Ids
    <2>4. Divided' /\ AllHeld' = AllHeld \cup {heap.next}
      BY <1>1, <1>2, <1>3, <2>1, <2>2, <2>3 DEF Divided, AllHeld
    <2>5. PhaseExact' /\ ErrorMoved'
      BY <1>7, <2>1, <2>2 DEF PhaseExact, ErrorMoved
    <2> QED
      BY <1>1, <1>2, <1>5, <2>1, <2>3, <2>4, <2>5, InvFromParts
  <1>8. CASE /\ heap' = Refused(heap) /\ phase' = "crashed" /\ UNCHANGED <<slot, answer>>
    <2>1. /\ IsHeap(heap') /\ heap'.freed = heap.freed /\ Ids' = Ids
      BY <1>1, <1>8 DEF Refused, IsHeap, Ids
    <2>2. Divided' /\ AllHeld' = AllHeld
      BY <1>1, <1>2, <1>8, <2>1 DEF Divided, AllHeld
    <2>3. PhaseExact' /\ ErrorMoved'
      BY <1>8 DEF PhaseExact, ErrorMoved
    <2> QED
      BY <1>1, <1>2, <1>8, <2>1, <2>2, <2>3, InvFromParts
  <1> QED
    BY <1>6, <1>7, <1>8 DEF ReturnSchemaError
-----------------------------------------------------------------------------
(***************************************************************************)
(* The invariant.                                                          *)
(***************************************************************************)

\* The inductive invariant holds before the session.
LEMMA InitIndInv ==
  ASSUME Init
  PROVE  IndInv
  <1>1. /\ stack = <<>> /\ lookahead = NoSymbol /\ result = Failure("NONE", {})
        /\ heap = [next |-> 1, freed |-> {}, failures |-> 0] /\ replaced = {}
        /\ phase = "start" /\ answer = [rc |-> "NONE", value |-> Unset]
    BY DEF Init
  <1>2. StackSound(stack) /\ Owned(stack) = {}
    BY <1>1 DEF StackSound, Owned, IsSeq
  <1>3. lookahead.ids = {}
    BY <1>1, BareFacts DEF NoSymbol
  <1>4. result.ids = {} /\ answer.value.ids = {}
    BY <1>1 DEF Failure, Result, Unset
  <1>5. IsHeap(heap) /\ heap.freed = {} /\ Ids = {}
    BY <1>1 DEF IsHeap, Ids
  <1>6. Divided /\ AllHeld = {}
    BY <1>2, <1>3, <1>4, <1>5 DEF Divided, AllHeld
  <1>7. NothingLost
    BY <1>1, <1>2, <1>5, <1>6, HeldIsAllHeld DEF NothingLost, StackSound
  <1>8. PhaseExact /\ ErrorMoved
    BY <1>1, <1>3, <1>4 DEF PhaseExact, ErrorMoved
  <1> QED
    BY <1>2, <1>5, <1>6, <1>7, <1>8 DEF IndInv

\* A stuttering step keeps the inductive invariant.
LEMMA SameIndInv ==
  ASSUME IndInv, UNCHANGED vars
  PROVE  IndInv'
  <1>1. UNCHANGED <<options, stack, lookahead, result, slot, heap, replaced, phase, answer>>
    BY DEF vars
  <1>2. /\ StackSound(stack) /\ IsHeap(heap) /\ Divided /\ AllHeld \subseteq Ids
        /\ PhaseExact /\ ErrorMoved
        /\ heap.failures = 0 /\ ~ Validates /\ phase # "crashed" => Ids = AllHeld \cup replaced
    BY InvParts
  <1>3. /\ StackSound(stack)' /\ IsHeap(heap') /\ Divided'
        /\ AllHeld' = AllHeld /\ Ids' = Ids /\ (Validates' <=> Validates)
    BY <1>1, <1>2 DEF Divided, AllHeld, Ids, Validates
  <1>4. PhaseExact' /\ ErrorMoved'
    BY <1>1, <1>2 DEF PhaseExact, ErrorMoved, HasSchema
  <1> QED
    BY <1>1, <1>2, <1>3, <1>4, InvFromParts

\* The opening bracket of an array.
LEMMA OpenArrayStep ==
  ASSUME IndInv, OpenArray
  PROVE  IndInv'
  <1>1. "[" \in OwnsNothing /\ "[@" \in OwnsNothing
    BY Zenon DEF OwnsNothing, Punctuation
  <1>2. Follows("[@", At(1), At(2))
    BY Zenon DEF Follows
  <1>3. Open("[", "[@", "array_start")
    BY DEF OpenArray
  <1> QED
    BY <1>1, <1>2, <1>3, OpenStep

\* The opening brace of an object.
LEMMA OpenObjectStep ==
  ASSUME IndInv, OpenObject
  PROVE  IndInv'
  <1>1. "{" \in OwnsNothing /\ "{@" \in OwnsNothing
    BY Zenon DEF OwnsNothing, Punctuation
  <1>2. Follows("{@", At(1), At(2))
    BY Zenon DEF Follows
  <1>3. Open("{", "{@", "object_start")
    BY DEF OpenObject
  <1> QED
    BY <1>1, <1>2, <1>3, OpenStep

\* Every step keeps the invariant.
LEMMA NextIndInv ==
  ASSUME IndInv, [Next]_vars
  PROVE  IndInv'
  <1>1. CASE Begin \/ StreamInitFails
    BY <1>1, BeginStep
  <1>2. ASSUME NEW s \in Scanned(heap), Shift(s) \/ Accept(s) \/ ErrLex(s) \/ SyntaxError(s)
        PROVE  IndInv'
    BY <1>2, ShiftStep, AcceptStep, ErrLexStep, SyntaxErrorStep
  <1>3. CASE OpenArray \/ OpenObject
    BY <1>3, OpenArrayStep, OpenObjectStep
  <1>4. CASE CloseArray \/ CloseObject
    BY <1>4, CloseStep DEF CloseArray, CloseObject
  <1>5. CASE Value \/ Key \/ Pair
    BY <1>5, ValueStep, KeyStep, PairStep
  <1>6. CASE NoElements \/ FirstElement \/ NextElement
    BY <1>6, NoElementsStep, FirstElementStep, NextElementStep
  <1>7. CASE NoMembers \/ FirstMember \/ NextMember
    BY <1>7, NoMembersStep, FirstMemberStep, NextMemberStep
  <1>8. CASE Unwind \/ ReturnResult \/ ClearResult \/ ReturnSchemaError
    BY <1>8, UnwindStep, ReturnResultStep, ClearResultStep, ReturnSchemaErrorStep
  <1>9. CASE Done \/ UNCHANGED vars
    BY <1>9, SameIndInv DEF Done
  <1> QED
    BY <1>1, <1>2, <1>3, <1>4, <1>5, <1>6, <1>7, <1>8, <1>9 DEF Next

\* The invariant of every session: the memory is divided between the stack, the refused
\* token, the result, the caller and the allocator, and what each symbol owns and stands on.
THEOREM Invariance == Spec => []IndInv
  <1>1. Init => IndInv
    BY InitIndInv
  <1>2. IndInv /\ [Next]_vars => IndInv'
    BY NextIndInv
  <1> QED
    BY <1>1, <1>2, PTL DEF Spec

\* Whatever the text, the mode and the failing allocations, no identifier has two owners
\* and none that was freed has one: the destructors of jso_parser.y, the hooks and
\* jso_parse_io never free twice and never hand on what they freed.
THEOREM OwnedAlwaysOnce == Spec => []OwnedOnce
  <1>1. IndInv => OwnedOnce
    BY DividedOnce DEF IndInv
  <1> QED
    BY <1>1, Invariance, PTL

\* Without a failed allocation decoding a text of any length, accepted or refused at any
\* token, leaves nothing allocated that is neither held nor freed, but the values that
\* repeated names replaced.
THEOREM NothingEverLost == Spec => []NothingLost
  <1>1. IndInv => NothingLost
    BY DEF IndInv
  <1> QED
    BY <1>1, Invariance, PTL

\* The error of the schema reaches the caller or stays in the schema, never both, and
\* success is returned with data only.
THEOREM ErrorAlwaysMoved == Spec => []ErrorMoved
  <1>1. IndInv => ErrorMoved
    BY DEF IndInv
  <1> QED
    BY <1>1, Invariance, PTL
===============================================================================
