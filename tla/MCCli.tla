------------------------------- MODULE MCCli -------------------------------
(* The command line with the encoder, on a few arguments, files and           *)
(* documents, and the values read back from the text it writes.               *)
EXTENDS Cli, Encoder

IntOf(n) == [t |-> "int", v |-> n]
StrOf(s) == [t |-> "string", v |-> s]
ArrOf(s) == [t |-> "array", v |-> s]
ObjOf(s) == [t |-> "object", v |-> s]
Yes == [t |-> "bool", v |-> 1]

MCArgs ==
    {Word("doc"), Word("cut"), Word("gone"), Word("void"), Word("1"), Word("debug"), Word("minimal"),
     Long("depth", "1"), Long("", "2"), Long("", NoValue), Long("h", NoValue), Long("help", "1"),
     Long("o", NoValue), Long("output-type", "debug"), Long("schema", "doc"), Long("x", NoValue),
     Short("d", NoValue), Short("o", NoValue), Short("s", NoValue), Short("hh", NoValue), Dash}

MCNumber == [w \in {"1", "2"} |-> IF w = "1" THEN 1 ELSE 2]
MCFiles == [f \in {"doc", "cut", "void"} |->
             CASE f = "doc" -> [size |-> 2, data |-> 2] [] f = "cut" -> [size |-> 3, data |-> 1]
               [] OTHER -> [size |-> 0, data |-> 0]]
MCRooms == {2, 100}

DoubleOf(text) == [t |-> "double", v |-> text]

\* What the encoder writes so that it reads back as another value or not at all: doubles
\* without a point, with a zero behind it and without a text; the smallest integer.
MCAltered ==
    {DoubleOf(<<"1">>), ArrOf(<<DoubleOf(<<"-", "0">>)>>), DoubleOf(<<"1", ".", "0", "5">>),
     DoubleOf(<<"inf">>), ArrOf(<<DoubleOf(<<"inf">>)>>), ArrOf(<<DoubleOf(<<"inf">>), Yes>>),
     IntOf(-IntMax - 1)}

\* A control character the encoder has no escape for (from \u0001 in a file), in a string
\* and in a name.
MCControl == {StrOf(<<"a", "SOH">>), ObjOf(<< <<(<<"SOH">>), Yes>> >>)}

\* Values of every type, with numbers at the ends of the digits, every escape, empty and
\* nested containers; and text that is no JSON.
MCDocuments == MCAltered \cup MCControl \cup
    {BadText, Yes, IntOf(0), IntOf(-10), IntOf(IntMax), StrOf(<<"a", "\\", "\"", "BS", "/">>),
     DoubleOf(<<"1", "e", "+", "3", "0">>), ArrOf(<<DoubleOf(<<"-", "1", ".", "5">>), DoubleOf(<<"0", ".", "0">>)>>),
     ArrOf(<<>>), ObjOf(<<>>), ArrOf(<<IntOf(10), ArrOf(<<StrOf(<<>>)>>), [t |-> "null", v |-> 0]>>),
     ObjOf(<< <<(<<"a">>), ObjOf(<< <<(<<" ", ",">>), IntOf(7)>>, <<(<<>>), Yes>> >>)>> >>)}

RECURSIVE MCNesting(_)
MCNesting(v) ==
    LET inner == CASE v.t = "array" -> {MCNesting(v.v[i]) : i \in DOMAIN v.v}
                   [] v.t = "object" -> {MCNesting(v.v[i][2]) : i \in DOMAIN v.v}
                   [] OTHER -> {}
        deepest == CHOOSE d \in inner \cup {0} : \A n \in inner : n <= d
    IN  IF v.t \in {"array", "object"} THEN 1 + deepest ELSE 0

MCIsSchema(v) == v.t \in {"bool", "object"}
MCAccepts(s, v) == s.t # "object" \/ v.t = "object"
-----------------------------------------------------------------------------
\* The reader of the text, token by token as jso_scanner.re has them: [ok, v, at], at
\* being the place behind what was read.
Blank == {"    ", "\n", " "}
Failed(i) == [ok |-> FALSE, v |-> Unset, at |-> i]
DigitValue == [c \in {"0", "1", "2", "3", "4", "5", "6", "7", "8", "9"} |->
                CHOOSE d \in 0..9 : DigitChar[d] = c]

RECURSIVE SkipBlanks(_, _)
SkipBlanks(text, i) ==
    IF i <= Len(text) /\ text[i] \in Blank THEN SkipBlanks(text, i + 1) ELSE i

\* CTRL of the scanner: no string has one of them but behind an escape.
ControlChar == {"SOH", "BS", "\f", "\n", "\r", "\t"}

RECURSIVE ReadString(_, _, _)
ReadString(text, i, chars) ==
    IF i > Len(text) THEN Failed(i)
    ELSE IF text[i] = "\"" THEN [ok |-> TRUE, v |-> StrOf(chars), at |-> i + 1]
    ELSE IF text[i] = "\\"
    THEN IF i < Len(text) /\ \E c \in DOMAIN EscapeLetter : EscapeLetter[c] = text[i + 1]
         THEN ReadString(text, i + 2,
                Append(chars, CHOOSE c \in DOMAIN EscapeLetter : EscapeLetter[c] = text[i + 1]))
         ELSE Failed(i)
    ELSE IF text[i] \in ControlChar THEN Failed(i)
    ELSE ReadString(text, i + 1, Append(chars, text[i]))

\* The place behind the digits at i.
BehindDigits(text, i) ==
    CHOOSE j \in i..(Len(text) + 1) :
        /\ \A k \in i..(j - 1) : text[k] \in DOMAIN DigitValue
        /\ j <= Len(text) => text[j] \notin DOMAIN DigitValue

At(text, i, chars) == i <= Len(text) /\ text[i] \in chars

\* INT, or FLOAT = INT "." UINT, where UINT is "0" or starts with another digit, or EXP.
ReadNumber(text, i) ==
    LET first == IF At(text, i, {"-"}) THEN i + 1 ELSE i
        int   == BehindDigits(text, first)
        float == IF ~At(text, int, {"."}) \/ BehindDigits(text, int + 1) = int + 1 THEN int
                 ELSE IF text[int + 1] = "0" THEN int + 2 ELSE BehindDigits(text, int + 1)
        power == IF At(text, float + 1, {"+", "-"}) THEN float + 2 ELSE float + 1
        exp   == IF At(text, float, {"e"}) /\ At(text, power, DOMAIN DigitValue)
                 THEN BehindDigits(text, power) ELSE float
        digits == SubSeq(text, first, int - 1)
        value[n \in 0..Len(digits)] == IF n = 0 THEN 0 ELSE 10 * value[n - 1] + DigitValue[digits[n]]
    IN  IF int = first THEN Failed(i)
        ELSE [ok |-> TRUE, at |-> exp,
              v |-> IF exp > int THEN DoubleOf(SubSeq(text, i, exp - 1))
                    ELSE IntOf((IF first > i THEN -1 ELSE 1) * value[Len(digits)])]

RECURSIVE ReadValue(_, _), ReadItems(_, _, _, _)
ReadItems(text, i, items, close) ==
    LET at == SkipBlanks(text, i)
        key == IF close = "}" THEN ReadString(text, at + 1, <<>>) ELSE [Failed(at) EXCEPT !.ok = TRUE]
        behindKey == SkipBlanks(text, key.at)
        keyOk == IF close = "}" THEN /\ key.ok /\ text[at] = "\""
                                     /\ behindKey <= Len(text) /\ text[behindKey] = ":" ELSE TRUE
        item == IF ~keyOk THEN Failed(at)
                ELSE ReadValue(text, IF close = "}" THEN behindKey + 1 ELSE at)
        next == SkipBlanks(text, item.at)
        all == Append(items, IF close = "}" THEN <<key.v.v, item.v>> ELSE item.v)
    IN  IF at > Len(text) THEN Failed(at)
        ELSE IF items = <<>> /\ text[at] = close
        THEN [ok |-> TRUE, v |-> (IF close = "}" THEN ObjOf(items) ELSE ArrOf(items)), at |-> at + 1]
        ELSE IF ~item.ok \/ next > Len(text) THEN Failed(at)
        ELSE IF text[next] = close
        THEN [ok |-> TRUE, v |-> (IF close = "}" THEN ObjOf(all) ELSE ArrOf(all)), at |-> next + 1]
        ELSE IF text[next] = "," THEN ReadItems(text, next + 1, all, close) ELSE Failed(at)

ReadValue(text, i) ==
    LET at == SkipBlanks(text, i)
        word(v) == [ok |-> TRUE, v |-> v, at |-> at + 1]
    IN  IF at > Len(text) THEN Failed(at)
        ELSE CASE text[at] = "null"  -> word([t |-> "null", v |-> 0])
               [] text[at] = "true"  -> word(Yes)
               [] text[at] = "false" -> word([t |-> "bool", v |-> 0])
               [] text[at] = "\""    -> ReadString(text, at + 1, <<>>)
               [] text[at] = "["     -> ReadItems(text, at + 1, <<>>, "]")
               [] text[at] = "{"     -> ReadItems(text, at + 1, <<>>, "}")
               [] OTHER              -> ReadNumber(text, at)

\* The text is one value, and which.
ReadsBack(text, v) ==
    LET r == ReadValue(text, 1)
    IN  r.ok /\ SkipBlanks(text, r.at) > Len(text) /\ r.v = v

\* The text of a double is a number of the scanner: "%.17g" writes none for infinity,
\* and the scanner takes "1.0" of "1.05" for the whole of it.
WholeNumber(text) == text # <<"inf">> /\ ReadNumber(text, 1).at > Len(text)

Plain(chars) == \A i \in DOMAIN chars : chars[i] \in ControlChar => chars[i] \in DOMAIN EscapeLetter

RECURSIVE Readable(_)
Readable(v) ==
    CASE v.t = "double" -> WholeNumber(v.v)
      [] v.t = "int"    -> v.v # -IntMax - 1
      [] v.t = "string" -> Plain(v.v)
      [] v.t = "array"  -> \A i \in DOMAIN v.v : Readable(v.v[i])
      [] v.t = "object" -> \A i \in DOMAIN v.v : Plain(v.v[i][1]) /\ Readable(v.v[i][2])
      [] OTHER -> TRUE

\* A double whose text has neither point nor exponent comes back as an integer.
RECURSIVE AsRead(_)
AsRead(v) ==
    CASE v.t = "double" /\ WholeNumber(v.v) -> ReadNumber(v.v, 1).v
      [] v.t = "array"  -> ArrOf([i \in DOMAIN v.v |-> AsRead(v.v[i])])
      [] v.t = "object" -> ObjOf([i \in DOMAIN v.v |-> <<v.v[i][1], AsRead(v.v[i][2])>>])
      [] OTHER -> v
-----------------------------------------------------------------------------
\* What is written, unless a write failed, reads back as the value of the file, but for
\* doubles written like an integer, which come back as one; and it does not read back
\* exactly if the value holds a number without a text the scanner takes for a whole
\* number or a control character the encoder has no escape for. Nothing is written for a
\* refused document.
OutputReadsBack ==
    pc = "exit" /\ load.type = "file" /\ opts.output_type # "debug" =>
        IF ~load.ok THEN out.text = <<>>
        ELSE out.room > 0 => (Readable(load.doc) <=> ReadsBack(out.text, AsRead(load.doc)))

\* The program comes to an end: the read loop ends for a file of any length, also when it
\* is shorter than stat said.
Ends == <>(pc \in {"exit", "crashed"})
=============================================================================
