------------------------------- MODULE Bigint -------------------------------
(* The multiple precision naturals of jso_dg_dtoa.c, limb by limb, with the   *)
(* blocks they live in. A number is a record: id names its block, k the size  *)
(* class (the block holds 2^k limbs), sign the flag diff sets, and x the      *)
(* limbs in use, the least significant first (wds is Len(x)). The heap h has  *)
(* the live block ids, the chain p5s of cached powers of five, and bad, which *)
(* becomes TRUE when a block that is not live is freed. An operation that     *)
(* allocates returns the new heap and its result, [h, b].                     *)
EXTENDS Integers, Sequences
LOCAL INSTANCE SequencesExt
LOCAL INSTANCE FiniteSetsExt

CONSTANT W              \* bits of a limb: 32 in the code (ULong)

\* multadd needs 625 in one limb (i2b(625)), and quorem estimates a digit from
\* the top W - 4 bits of the divisor, so a limb has at least 10 bits.
ASSUME LimbAssumption == W \in Nat /\ W >= 10

LimbBase == 2^W

EmptyHeap == [live |-> {}, p5 |-> <<>>, bad |-> FALSE]

\* The smallest id that is not live: a freed block is taken again before a new one.
FreshId(live) == Min(1..(Cardinality(live) + 1) \ live)

\* Balloc: a block of class k, its limbs given by the caller.
Balloc(h, k, limbs) ==
    LET id == FreshId(h.live)
    IN  [h |-> [h EXCEPT !.live = @ \cup {id}],
         b |-> [id |-> id, k |-> k, sign |-> FALSE, x |-> limbs]]

\* Bfree returns the block to the list of its class.
Bfree(h, b) ==
    [h EXCEPT !.live = @ \ {b.id}, !.bad = @ \/ b.id \notin h.live]

\* The result r was made in place of b, which is freed.
Instead(r, b) == [h |-> Bfree(r.h, b), b |-> r.b]

i2b(h, i) == Balloc(h, 1, <<i>>)

\* The carry loop of multadd and lshift: every limb times m, the carry passed up.
CarryLoop(x, m, a) ==
    FoldLeft(LAMBDA acc, w :
                LET y == w * m + acc.carry
                IN  [x |-> Append(acc.x, y % LimbBase), carry |-> y \div LimbBase],
             [x |-> <<>>, carry |-> a], x)

WithCarry(r) == IF r.carry = 0 THEN r.x ELSE Append(r.x, r.carry)

\* b * m + a, in b's block unless the last carry needs a limb it has not.
InBlock(h, b, r) ==
    IF r.carry # 0 /\ Len(b.x) >= 2^b.k
    THEN Instead([Balloc(h, b.k + 1, WithCarry(r)) EXCEPT !.b.sign = b.sign], b)
    ELSE [h |-> h, b |-> [b EXCEPT !.x = WithCarry(r)]]
multadd(h, b, m, a) == InBlock(h, b, CarryLoop(b.x, m, a))

\* Leading zero limbs removed, down to no fewer than least limbs.
Trim(x, least) ==
    SubSeq(x, 1, Max({least} \cup {i \in DOMAIN x : x[i] # 0}))

\* One row of the product: xa times the limb y added into c from limb j on.
MultRow(c, xa, y, j) ==
    LET row == FoldLeft(LAMBDA acc, i :
                   LET z == xa[i] * y + acc.x[j + i - 1] + acc.carry
                   IN  [x |-> [acc.x EXCEPT ![j + i - 1] = z % LimbBase],
                        carry |-> z \div LimbBase],
                   [x |-> c, carry |-> 0], [i \in DOMAIN xa |-> i])
    IN  [row.x EXCEPT ![j + Len(xa)] = row.carry]

mult(h, p, q) ==
    LET a  == IF Len(p.x) < Len(q.x) THEN q ELSE p
        b  == IF Len(p.x) < Len(q.x) THEN p ELSE q
        wc == Len(a.x) + Len(b.x)
        c  == FoldLeft(LAMBDA acc, j :
                  IF b.x[j] = 0 THEN acc ELSE MultRow(acc, a.x, b.x[j], j),
                  [i \in 1..wc |-> 0], [j \in DOMAIN b.x |-> j])
    IN  Balloc(h, IF wc > 2^a.k THEN a.k + 1 ELSE a.k, Trim(c, 0))

\* The cached power of five at place i of the chain, made when it is missing.
Cached(p) == [p.h EXCEPT !.p5 = Append(@, p.b)]
Pow5Cached(h, i) ==
    IF i <= Len(h.p5) THEN h
    ELSE Cached(IF i = 1 THEN i2b(h, 625) ELSE mult(h, h.p5[i - 1], h.p5[i - 1]))

\* Bits of n.
BitLength(n) == CHOOSE l \in 0..30 : n < 2^l /\ (l = 0 \/ n >= 2^(l - 1))

\* b * 5^k: by 5, 25 or 125, then by the cached powers for the bits of k >> 2.
pow5mult(h, b, k) ==
    LET used(i) == ((k \div 4) \div 2^(i - 1)) % 2 = 1
        times(heap, x, i) == IF used(i) THEN Instead(mult(heap, x, heap.p5[i]), x)
                             ELSE [h |-> heap, b |-> x]
    IN  FoldLeft(LAMBDA acc, i : times(Pow5Cached(acc.h, i), acc.b, i),
                 IF k % 4 = 0 THEN [h |-> h, b |-> b] ELSE multadd(h, b, 5^(k % 4), 0),
                 [i \in 1..BitLength(k \div 4) |-> i])

\* b * 2^k in a new block, of the first class above b's that holds it.
lshift(h, b, k) ==
    LET n  == k \div W
        n1 == n + Len(b.x) + 1
        k1 == CHOOSE c \in b.k..(b.k + n1) :
                 2^c >= n1 /\ \A e \in b.k..(c - 1) : 2^e < n1
        x  == [i \in 1..n |-> 0] \o WithCarry(CarryLoop(b.x, 2^(k % W), 0))
    IN  Instead(Balloc(h, k1, x), b)

\* Negative, zero or positive as a is below, equal to or above b.
cmp(a, b) ==
    LET differ == {i \in DOMAIN a.x : a.x[i] # b.x[i]}
    IN  IF Len(a.x) # Len(b.x) THEN Len(a.x) - Len(b.x)
        ELSE IF differ = {} THEN 0
        ELSE IF a.x[Max(differ)] < b.x[Max(differ)] THEN -1 ELSE 1

\* xa - m * xb over the limbs of xa, with the borrow and the carry of quorem.
SubMul(xa, m, xb) ==
    FoldLeft(LAMBDA acc, i :
                LET ys == (IF i <= Len(xb) THEN xb[i] * m ELSE 0) + acc.carry
                    y  == xa[i] - (ys % LimbBase) - acc.borrow
                IN  [x |-> Append(acc.x, y % LimbBase), carry |-> ys \div LimbBase,
                     borrow |-> IF y < 0 THEN 1 ELSE 0],
             [x |-> <<>>, carry |-> 0, borrow |-> 0], [i \in DOMAIN xa |-> i]).x

\* |a - b|, with sign set when a is below b.
diff(h, a, b) ==
    LET i     == cmp(a, b)
        big   == IF i < 0 THEN b ELSE a
        small == IF i < 0 THEN a ELSE b
        c     == Balloc(h, big.k, Trim(SubMul(big.x, 1, small.x), 1))
    IN  IF i = 0 THEN Balloc(h, 0, <<0>>)
        ELSE [c EXCEPT !.b.sign = i < 0]

\* Mutant: the estimate is not corrected by a last subtraction.
EstimateOnly(b, S) ==
    LET n == Len(S.x)
        q == b.x[n] \div (S.x[n] + 1)
    IN  IF Len(b.x) < n THEN [q |-> 0, b |-> b]
        ELSE [q |-> q, b |-> [b EXCEPT !.x = Trim(SubMul(b.x, q, S.x), 1)]]

\* One digit: the quotient of b by S, and the remainder left in b.
quorem(b, S) ==
    LET n    == Len(S.x)
        q    == b.x[n] \div (S.x[n] + 1)
        less == IF q = 0 THEN b.x ELSE Trim(SubMul(b.x, q, S.x), 1)
        over == cmp([b EXCEPT !.x = less], S) >= 0
    IN  IF Len(b.x) < n THEN [q |-> 0, b |-> b]
        ELSE [q |-> IF over THEN q + 1 ELSE q,
              b |-> [b EXCEPT !.x = IF over THEN Trim(SubMul(less, 1, S.x), 1) ELSE less]]

\* Leading zero bits of a limb.
hi0bits(x) == W - BitLength(x)

\* Trailing zero bits of a limb, and the limb without them (0 is left alone).
lo0bits(y) ==
    IF y = 0 THEN [k |-> W, y |-> 0]
    ELSE LET k == CHOOSE i \in 0..(W - 1) : y % 2^i = 0 /\ (y \div 2^i) % 2 = 1
         IN  [k |-> k, y |-> y \div 2^k]

\* The shift that, after p2 more, leaves the top limb of b four leading zero bits.
dshift(b, p2) == (hi0bits(b.x[Len(b.x)]) - 4 - (IF p2 > 0 THEN p2 ELSE 0)) % W
=============================================================================
