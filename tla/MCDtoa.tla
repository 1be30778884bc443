------------------------------- MODULE MCDtoa -------------------------------
(* Dtoa on doubles of 13 bits, with what "the shortest digits that read back  *)
(* as the number" means, computed on naturals in base 10^4 that share nothing *)
(* with the algorithm.                                                        *)
EXTENDS Dtoa
LOCAL INSTANCE SequencesExt
LOCAL INSTANCE FiniteSetsExt

Nat4(n) == <<n % 10000, n \div 10000>>

\* A natural in base 10^4 times f, and times f^e.
Times(x, f) ==
    LET r == FoldLeft(LAMBDA acc, w :
                 [s |-> Append(acc.s, (w * f + acc.c) % 10000), c |-> (w * f + acc.c) \div 10000],
                 [s |-> <<>>, c |-> 0], x)
    IN  IF r.c = 0 THEN r.s ELSE Append(r.s, r.c)

\* f^chunk fits in a digit of that base.
TimesPower(x, f, e) ==
    LET chunk == IF f = 2 THEN 13 ELSE 4
    IN  FoldLeft(LAMBDA acc, i : Times(acc, f^chunk), Times(x, f^(e % chunk)),
                 [i \in 1..(e \div chunk) |-> i])

Limb4(x, i) == IF i <= Len(x) THEN x[i] ELSE 0

Less(x, y) ==
    LET d == {i \in 1..Max({Len(x), Len(y)}) : Limb4(x, i) # Limb4(y, i)}
    IN  d # {} /\ Limb4(x, Max(d)) < Limb4(y, Max(d))

Positive(n) == IF n > 0 THEN n ELSE 0

\* n * 10^t < q * 2^e for naturals n and q and integers t and e, and the converse.
DecBelowBin(n, t, q, e) ==
    Less(TimesPower(TimesPower(Nat4(n), 10, Positive(t)), 2, Positive(-e)),
         TimesPower(TimesPower(Nat4(q), 2, Positive(e)), 10, Positive(-t)))
BinBelowDec(n, t, q, e) ==
    Less(TimesPower(TimesPower(Nat4(q), 2, Positive(e)), 10, Positive(-t)),
         TimesPower(TimesPower(Nat4(n), 10, Positive(t)), 2, Positive(-e)))

\* The number is Signif(d) * 2^Power(d).
Signif(d) == d.lo + LimbBase * (d.hi + (IF d.exp = 0 THEN 0 ELSE 2^HiBits))
Power(d)  == (IF d.exp = 0 THEN 1 ELSE d.exp) - Bias - (P - 1)

\* n * 10^t reads back as d: it is between the midpoints to the neighbours of d, or
\* on one of them when the fraction of d is even.
ReadsBackAs(n, t, d) ==
    LET M    == Signif(d)
        e    == Power(d) - 2
        low  == IF M = 2^(P - 1) /\ d.exp > 1 THEN 4 * M - 1 ELSE 4 * M - 2
        high == 4 * M + 2
    IN  IF M % 2 = 0
        THEN ~DecBelowBin(n, t, low, e) /\ ~BinBelowDec(n, t, high, e)
        ELSE BinBelowDec(n, t, low, e) /\ DecBelowBin(n, t, high, e)

DigitsValue(s) == FoldLeft(LAMBDA acc, x : 10 * acc + x, 0, s)

Finite(d) == d.exp # ExpInf /\ Signif(d) # 0

\* The digits and the point of a finished conversion read back as the number; no
\* decimal with fewer digits does; and of its two neighbours with as many digits,
\* one that reads back as well is not nearer to the number (mode 0 of jso_dg_dtoa).
ShortestDigits ==
    (pc = "done" /\ Finite(num)) =>
        LET n == DigitsValue(out)
            t == decpt - Len(out)
            v == 2 * Signif(num)
            e == Power(num)
        IN  /\ out[1] # 0 /\ (Len(out) > 1 => n % 10 # 0)
            /\ ReadsBackAs(n, t, num)
            /\ Len(out) > 1 => /\ ~ReadsBackAs(n \div 10, t + 1, num)
                               /\ ~ReadsBackAs(n \div 10 + 1, t + 1, num)
            /\ ReadsBackAs(n + 1, t, num) => ~DecBelowBin(2 * n + 1, t, v, e)
            /\ (n > 1 /\ ReadsBackAs(n - 1, t, num)) => ~BinBelowDec(2 * n - 1, t, v, e)

\* A text that fits in result is a JSON number: a sign, a whole part without a
\* leading zero unless it is 0, and, after a point, at least one digit; it stands for
\* the digits with the point at decpt. Only a point farther away than result has room
\* for makes a text that does not fit: in the code none with decpt in -107..126.
TextExact ==
    /\ (pc = "text" /\ num.exp # ExpInf) =>
        LET body  == IF num.neg THEN Tail(text) ELSE text
            dots  == {i \in DOMAIN body : body[i] = Point}
            point == IF dots = {} THEN Len(body) + 1 ELSE Min(dots)
            whole == SubSeq(body, 1, point - 1)
            frac  == SubSeq(body, point + 1, Len(body))
            all   == whole \o frac
            lead  == Min({Len(all)} \cup {i \in DOMAIN all : all[i] # 0})
        IN  /\ num.neg => text[1] = Minus
            /\ \A i \in DOMAIN all : all[i] \in 0..9
            /\ whole # <<>> /\ (Len(whole) > 1 => whole[1] # 0)
            /\ dots # {} => frac # <<>>
            /\ DigitsValue(out) # 0 =>
                  /\ Len(whole) - lead + 1 = decpt
                  /\ Trim(SubSeq(all, lead, Len(all)), 1) = out
    /\ pc = "overrun" => decpt \notin (DigitRoom + 3 - TextRoom)..(TextRoom - 2)
=============================================================================
