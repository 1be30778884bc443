-------------------------------- MODULE Dtoa --------------------------------
(* jso_number_string_from_double and the conversion it calls, jso_dg_dtoa in  *)
(* mode 0 (the shortest digits that read back as the same double). A double   *)
(* has a sign, a biased exponent and a fraction in two words, lo with W bits  *)
(* and hi with HiBits. The caller converts one number after another; the      *)
(* cached powers of five and the freed blocks stay between the calls.         *)
EXTENDS Bigint, TLC
LOCAL INSTANCE SequencesExt
LOCAL INSTANCE FiniteSetsExt

CONSTANTS
    HiBits,             \* fraction bits of the high word: 20 in the code
    Bias,               \* exponent bias: 1023
    IntMax,             \* Int_max: 14
    TenPmax,            \* Ten_pmax: 22
    DigitRoom,          \* characters of the result: 18 (rv_alloc(18))
    TextRoom,           \* characters of jso_number_string.result: 128
    Exps, His, Los      \* the exponents and fraction words that are tried

P      == W + HiBits + 1
ExpInf == 2 * Bias + 1

\* An integer below 10^(IntMax + 1) is exact in P bits, and so are tens[k] and
\* the estimate of k, which is in units of 10^-5 here.
ASSUME FormatAssumption ==
    /\ IntMax \in Nat /\ 10^(IntMax + 1) <= 2^P
    /\ TenPmax \in Nat /\ TenPmax >= IntMax /\ 5^TenPmax < 2^P
    /\ TextRoom \in Nat /\ TextRoom >= DigitRoom + 3
    /\ Exps \subseteq 0..ExpInf /\ His \subseteq 0..(2^HiBits - 1)
    /\ Los \subseteq 0..(LimbBase - 1)

Doubles == [neg : BOOLEAN, exp : Exps, hi : His, lo : Los]

VARIABLES pc, num, h, b, S, mlo, mhi, m, out, decpt, result, text

vars == <<pc, num, h, b, S, mlo, mhi, m, out, decpt, result, text>>

Infinity == -3
NaN      == -4

NoBlock == [id |-> 0, k |-> 0, sign |-> FALSE, x |-> <<>>]
NoNum   == [neg |-> FALSE, exp |-> 0, hi |-> 0, lo |-> 0]
NoScale == [be |-> 0, bbits |-> 0, k |-> 0, kcheck |-> FALSE,
            b2 |-> 0, s2 |-> 0, m2 |-> 0, b5 |-> 0, s5 |-> 0]

Idle ==
    /\ pc = "call" /\ num = NoNum /\ m = NoScale
    /\ b = NoBlock /\ S = NoBlock /\ mlo = NoBlock /\ mhi = NoBlock
    /\ out = <<>> /\ decpt = 0 /\ result = NoBlock /\ text = <<>>

Init == Idle /\ h = EmptyHeap

\* The fraction and exponent as an odd number of bbits bits and a power of two.
d2b(heap, d) ==
    LET z     == IF d.exp # 0 THEN d.hi + 2^HiBits ELSE d.hi
        low   == lo0bits(d.lo)
        high  == lo0bits(z)
        limb  == low.y + ((z * 2^(W - low.k)) % LimbBase)
        x     == IF d.lo = 0 THEN <<high.y>>
                 ELSE IF z \div 2^low.k = 0 THEN <<limb>>
                 ELSE <<limb, z \div 2^low.k>>
        k     == IF d.lo = 0 THEN W + high.k ELSE low.k
        e     == d.exp - Bias - (P - 1) + k
    IN  [b |-> Balloc(heap, 1, x),
         be    |-> IF d.exp # 0 THEN e ELSE e + 1,
         bbits |-> IF d.exp # 0 THEN P - k ELSE W * Len(x) - hi0bits(x[Len(x)])]

\* A d2b result of one or two limbs as a number.
Mantissa(bi) == bi.x[1] + (IF Len(bi.x) = 2 THEN bi.x[2] * LimbBase ELSE 0)

\* An estimate of floor(log10(d)) that is right or one too large, from the line
\* through log10 at 1.5; i is floor(log2(d)), mant the mantissa with P bits.
EstimateK(mant, i) ==
    (((2 * mant - 3 * 2^(P - 1)) * 28953) \div 2^P + 17612 + i * 30103) \div 100000

\* d < tens[k] for a mantissa and exponent.
Below(mant, be, k) ==
    IF be >= 0 THEN mant * 2^be < 10^k ELSE mant < 10^k * 2^(-be)

\* Size class of a result of i characters; a block has 24 bytes before the limbs.
ResultClass(i) == CHOOSE k \in 0..8 : /\ 24 + 4 * 2^k > i
                                      /\ \A e \in 0..(k - 1) : 24 + 4 * 2^e <= i

\* The parameters, the special values, and d2b with the estimate of k. The special
\* values take a result of their own size.
Call(d) ==
    LET conv == d2b(h, d)
        mant == Mantissa(conv.b.b)
        i    == conv.bbits + conv.be - 1
        est  == EstimateK(mant * 2^(P - conv.bbits), i)
        sure == est \in 0..TenPmax
        k    == IF sure /\ Below(mant, conv.be, est) THEN est - 1 ELSE est
        j    == -conv.be
        special == \/ d.exp = ExpInf
                   \/ d.exp = 0 /\ d.hi = 0 /\ d.lo = 0
        digits  == IF d.exp # ExpInf THEN <<0>>
                   ELSE IF d.lo = 0 /\ d.hi = 0 THEN <<Infinity>> ELSE <<NaN>>
        room == Balloc(IF special THEN h ELSE conv.b.h,
                       ResultClass(IF special THEN 8 ELSE DigitRoom), <<>>)
    IN  /\ pc = "call"
        /\ num' = d
        /\ h' = room.h /\ result' = room.b
        /\ IF special
           THEN /\ out' = digits
                /\ decpt' = IF d.exp = ExpInf THEN 9999 ELSE 1
                /\ pc' = "done"
                /\ UNCHANGED <<b, m>>
           ELSE /\ b' = conv.b.b
                /\ m' = [be |-> conv.be, bbits |-> conv.bbits, k |-> k, kcheck |-> ~sure,
                         b2 |-> (IF j >= 0 THEN 0 ELSE -j) - (IF k < 0 THEN k ELSE 0),
                         s2 |-> (IF j >= 0 THEN j ELSE 0) + (IF k >= 0 THEN k ELSE 0),
                         m2 |-> 0,
                         b5 |-> IF k >= 0 THEN 0 ELSE -k,
                         s5 |-> IF k >= 0 THEN k ELSE 0]
                /\ pc' = IF conv.be >= 0 /\ k <= IntMax THEN "small" ELSE "scale"
                /\ UNCHANGED <<out, decpt>>
        /\ UNCHANGED <<S, mlo, mhi, text>>

\* An integer that floating point arithmetic converts: its digits from the first,
\* until nothing is left (which drops the trailing zeros).
SmallInteger ==
    LET u == Mantissa(b) * 2^m.be
        digits == [i \in 1..(m.k + 1) |-> (u \div 10^(m.k + 1 - i)) % 10]
    IN  /\ pc = "small"
        /\ out' = Trim(digits, 1)
        /\ h' = Bfree(h, b) /\ b' = NoBlock
        /\ decpt' = m.k + 1
        /\ pc' = "done"
        /\ UNCHANGED <<num, S, mlo, mhi, m, result, text>>

\* Half of the distance to the neighbours, and the common power of two: b, mhi and
\* then S are scaled so that b/S is d/10^k and mhi/S half an ulp over 10^k.
Scale ==
    LET i    == IF num.exp = 0 THEN m.be + (Bias + (P - 1) - 1 + 1) ELSE 1 + P - m.bbits
        m2   == m.b2
        s2   == m.s2 + i
        cut  == IF m2 > 0 /\ s2 > 0 THEN (IF m2 < s2 THEN m2 ELSE s2) ELSE 0
    IN  /\ pc = "scale"
        /\ \E one \in {i2b(h, 1)} :
              IF m.b5 = 0 THEN mhi' = one.b /\ h' = one.h /\ b' = b
              ELSE \E five \in {pow5mult(one.h, one.b, m.b5)} :
                      \E prod \in {Instead(mult(five.h, five.b, b), b)} :
                         mhi' = five.b /\ b' = prod.b /\ h' = prod.h
        /\ m' = [m EXCEPT !.b2 = @ + i - cut, !.m2 = m2 - cut, !.s2 = s2 - cut]
        /\ pc' = "divisor"
        /\ UNCHANGED <<num, S, mlo, out, decpt, result, text>>

Divisor ==
    /\ pc = "divisor"
    /\ \E one \in {i2b(h, 1)} :
          \E s \in {IF m.s5 > 0 THEN pow5mult(one.h, one.b, m.s5) ELSE one} :
             S' = s.b /\ h' = s.h
    /\ pc' = "shift"
    /\ UNCHANGED <<num, b, mlo, mhi, m, out, decpt, result, text>>

\* Mutant: the fraction alone is tested, in the low word.
LowWordZero(d) == d.lo = 0 /\ d.exp >= 2

\* A normalized power of two, whose lower neighbour is half as far as the upper.
PowerOfTwo(d) == d.lo = 0 /\ d.hi = 0 /\ d.exp >= 2

\* lshift and multadd where the code calls them under a condition.
ShiftIf(heap, x, k) == IF k > 0 THEN lshift(heap, x, k) ELSE [h |-> heap, b |-> x]
Times10If(c, heap, x) == IF c THEN multadd(heap, x, 10, 0) ELSE [h |-> heap, b |-> x]

\* The divisor gets a top limb with four leading zero bits, k is corrected when it
\* was one too large, and mlo and mhi become the margins below and above.
Shift ==
    LET spec == IF PowerOfTwo(num) THEN 1 ELSE 0
        i    == dshift(S, m.s2 + spec)
        bs   == ShiftIf(h, b, m.b2 + spec + i)
        ss   == ShiftIf(bs.h, S, m.s2 + spec + i)
        fix  == m.kcheck /\ cmp(bs.b, ss.b) < 0
        bf   == Times10If(fix, ss.h, bs.b)
        mf   == Times10If(fix, bf.h, mhi)
        low  == ShiftIf(mf.h, mf.b, m.m2 + i)
        copy == Balloc(low.h, low.b.k, low.b.x)
        high == IF spec = 1 THEN lshift(copy.h, copy.b, 1) ELSE low
    IN  /\ pc = "shift"
        /\ b' = bf.b /\ S' = ss.b /\ mlo' = low.b /\ mhi' = high.b /\ h' = high.h
        /\ m' = [m EXCEPT !.k = IF fix THEN @ - 1 ELSE @, !.kcheck = FALSE,
                          !.b2 = 0, !.s2 = 0, !.m2 = 0, !.b5 = 0, !.s5 = 0]
        /\ pc' = "digits"
        /\ UNCHANGED <<num, out, decpt, result, text>>

\* roundoff: the trailing nines go and the digit before them is one more, or the
\* result is a 1 one place higher.
RoundOff(s) ==
    LET keep == {i \in DOMAIN s : s[i] # 9}
    IN  IF keep = {} THEN [s |-> <<1>>, up |-> 1]
        ELSE [s |-> [SubSeq(s, 1, Max(keep)) EXCEPT ![Max(keep)] = @ + 1], up |-> 0]

\* The state after the last digit, dig, or after dig and a carry (round_9_up).
Finish(heap, bb, dig) ==
    LET r == IF dig > 9 THEN RoundOff(Append(out, 9)) ELSE [s |-> Append(out, dig), up |-> 0]
    IN  /\ out' = r.s
        /\ m' = [m EXCEPT !.k = @ + r.up]
        /\ b' = bb /\ h' = heap
        /\ pc' = "ret"
        /\ UNCHANGED <<mlo, mhi>>

\* One digit and the tests that end the loop: j compares what is left with the
\* margin below, j1 with S less the margin above; an even number takes its margins.
Digit ==
    LET qr    == quorem(b, S)
        dig   == qr.q
        rest  == qr.b
        delta == diff(h, S, mhi)
        heap  == Bfree(delta.h, delta.b)
        j     == cmp(rest, mlo)
        j1    == IF delta.b.sign THEN 1 ELSE cmp(rest, delta.b)
        even  == num.lo % 2 = 0
        zero  == rest.x = <<0>>
        twice == lshift(heap, rest, 1)
        half  == cmp(twice.b, S)
        nextb == multadd(heap, rest, 10, 0)
        nextl == multadd(nextb.h, mlo, 10, 0)
        nexth == multadd(nextl.h, mhi, 10, 0)
    IN  /\ pc = "digits"
        /\ CASE j1 = 0 /\ even -> Finish(heap, rest, IF dig = 9 \/ j > 0 THEN dig + 1 ELSE dig)
             [] ~(j1 = 0 /\ even) /\ (j < 0 \/ (j = 0 /\ even)) ->
                   IF zero \/ j1 <= 0 THEN Finish(heap, rest, dig)
                   ELSE Finish(twice.h, twice.b,
                               IF half > 0 \/ (half = 0 /\ dig % 2 = 1) THEN dig + 1 ELSE dig)
             [] OTHER ->
                   IF j1 > 0 THEN Finish(heap, rest, dig + 1)
                   ELSE /\ out' = Append(out, dig)
                        /\ b' = nextb.b
                        /\ mlo' = nextl.b
                        /\ IF mlo.id = mhi.id
                           THEN mhi' = nextl.b /\ h' = nextl.h
                           ELSE mhi' = nexth.b /\ h' = nexth.h
                        /\ UNCHANGED <<m, pc>>
        /\ UNCHANGED <<num, S, decpt, result, text>>

\* Mutant: only one of the two margins is freed.
FreeOneMargin(heap) == Bfree(heap, mhi)

\* ret: S, the margins (one block or two) and b are freed.
FreeMargins(heap) ==
    Bfree(IF mlo.id # mhi.id THEN Bfree(heap, mlo) ELSE heap, mhi)

Return ==
    /\ pc = "ret"
    /\ h' = Bfree(FreeMargins(Bfree(h, S)), b)
    /\ b' = NoBlock /\ S' = NoBlock /\ mlo' = NoBlock /\ mhi' = NoBlock
    /\ decpt' = m.k + 1
    /\ pc' = "done"
    /\ UNCHANGED <<num, m, out, result, text>>

\* Characters other than digits.
Minus == -1
Point == -2

\* Mutant: no zero is written before a leading point.
BarePoint(neg, digits, dp) ==
    LET whole == [i \in 1..dp |-> IF i <= Len(digits) THEN digits[i] ELSE 0]
    IN  (IF neg THEN <<Minus>> ELSE <<>>) \o
        (IF dp < 0 THEN <<0, Point>> \o [i \in 1..(-dp) |-> 0] \o digits
         ELSE whole \o (IF dp >= Len(digits) THEN <<>>
                        ELSE <<Point>> \o SubSeq(digits, dp + 1, Len(digits))))

\* The characters of the number, from its digits and the place of the point.
NumberText(neg, digits, dp) ==
    LET zeros(n) == [i \in 1..n |-> 0]
        whole == [i \in 1..dp |-> IF i <= Len(digits) THEN digits[i] ELSE 0]
    IN  (IF neg THEN <<Minus>> ELSE <<>>) \o
        (IF dp < 0 THEN <<0, Point>> \o zeros(-dp) \o digits
         ELSE whole \o
              (IF dp >= Len(digits) THEN <<>>
               ELSE (IF dp = 0 THEN <<0>> ELSE <<>>) \o <<Point>>
                    \o SubSeq(digits, dp + 1, Len(digits))))

\* The caller writes the number and gives the digits back (jso_dg_freedtoa). The
\* characters and the end of the string are put in result one by one, and nothing
\* asks for its room: what follows a longer text is undefined ("overrun"). "INF" and
\* "NaN" always have room.
NumberString ==
    /\ pc = "done"
    /\ text' = IF decpt = 9999
               THEN (IF num.neg /\ out[1] = Infinity THEN <<Minus>> ELSE <<>>)
                    \o (IF out[1] = Infinity THEN <<Infinity>> ELSE <<NaN>>)
               ELSE NumberText(num.neg, out, decpt)
    /\ \/ /\ Len(text') < TextRoom
          /\ h' = Bfree(h, result) /\ result' = NoBlock
          /\ pc' = "text"
       \/ /\ Len(text') >= TextRoom
          /\ pc' = "overrun" /\ UNCHANGED <<h, result>>
    /\ UNCHANGED <<num, b, S, mlo, mhi, m, out, decpt>>

\* The next call starts with fresh locals.
Again ==
    /\ pc = "text"
    /\ pc' = "call" /\ num' = NoNum /\ m' = NoScale
    /\ out' = <<>> /\ decpt' = 0 /\ text' = <<>>
    /\ UNCHANGED <<h, b, S, mlo, mhi, result>>

\* Nothing is claimed after an overrun.
Done == pc = "overrun" /\ UNCHANGED vars

Next ==
    \/ \E d \in Doubles : Call(d)
    \/ SmallInteger \/ Scale \/ Divisor \/ Shift \/ Digit \/ Return \/ NumberString \/ Again
    \/ Done

Spec == Init /\ [][Next]_vars

Held == {b, S, mlo, mhi, result} \ {NoBlock}

\* No block is lost, freed twice, used after it is freed or written past its end:
\* the live blocks are those the locals and the cache of powers name, each number
\* fits its class, and the digits fit the characters that were asked for. Every
\* operation of dtoa replaces a block of one local by another.
BlocksSound ==
    /\ ~h.bad
    /\ h.live = {x.id : x \in Held \cup {h.p5[i] : i \in DOMAIN h.p5}}
    /\ \A x \in Held \cup {h.p5[i] : i \in DOMAIN h.p5} : Len(x.x) <= 2^x.k
    /\ Len(out) <= DigitRoom

\* What quorem needs and its Bug() calls state ("oversize b in quorem", "oversized
\* quotient in quorem"): b has no more limbs than S and its quotient is one digit.
QuoremBounds ==
    pc = "digits" => /\ Len(b.x) <= Len(S.x)
                     /\ quorem(b, S).q <= 9
                     /\ cmp(quorem(b, S).b, S) < 0
=============================================================================
