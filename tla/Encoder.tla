------------------------------ MODULE Encoder ------------------------------
(* The encoder (jso_encoder.c): a value is written piece by piece to an IO.   *)
(* A value is a record [t, v]: v is a number for int, the text of the number  *)
(* ("%.17g") for double with <<"inf">> for the one that has none, a sequence  *)
(* of characters for string, of values for array, of <<key, value>> for       *)
(* object. An operator gives the pieces a function writes at a depth; no      *)
(* function stops because a write failed, so an IO that takes room more       *)
(* pieces has the first room of them.                                         *)
EXTENDS EncoderOutput, FiniteSets
LOCAL INSTANCE SequencesExt

CONSTANT IntMax  \* the largest jso_int; the smallest is -IntMax - 1

ASSUME IntAssumption == IntMax \in Nat \ {0}

PrintIndent(pretty, depth) == IF pretty THEN [i \in 1..depth |-> "    "] ELSE <<>>
PrintElsep(pretty, depth)  == IF pretty THEN <<"\n">> \o PrintIndent(pretty, depth) ELSE <<>>
PrintKvsep(pretty)         == IF pretty THEN <<" ">> ELSE <<>>

\* The digits from the lowest up, with the C remainder (which has the sign of val). The
\* negation of the smallest int is itself; what it makes of its remainder is no digit.
DigitChar == [d \in 0..9 |-> <<"0", "1", "2", "3", "4", "5", "6", "7", "8", "9">>[d + 1]]

RECURSIVE Digits(_)
Digits(val) ==
    LET last == <<IF val < 0 THEN "junk" ELSE DigitChar[val % 10]>>
    IN  IF val \div 10 > 0 THEN Digits(val \div 10) \o last ELSE last

EncodeInt(val) ==
    LET negated == IF val = -IntMax - 1 THEN val ELSE -val
    IN  IF val < 0 THEN <<"-">> \o Digits(negated) ELSE Digits(val)

\* An infinite number fails and writes nothing.
EncodeDouble(text) == IF text = <<"inf">> THEN <<>> ELSE text

\* The letter that stands for a character behind the escape.
EscapeLetter ==
    [c \in {"\"", "\\", "/", "BS", "\f", "\n", "\r", "\t"} |->
        CASE c = "BS" -> "b" [] c = "\f" -> "f" [] c = "\n" -> "n"
          [] c = "\r" -> "r" [] c = "\t" -> "t" [] OTHER -> c]

EncodeString(chars) ==
    LET char(c) == IF c \in DOMAIN EscapeLetter THEN <<"\\", EscapeLetter[c]>> ELSE <<c>>
    IN  <<"\"">> \o FlattenSeq([i \in DOMAIN chars |-> char(chars[i])]) \o <<"\"">>

\* Mutant: the separator goes behind the element.
SeparatorBehind(items, left, right, pretty, depth) ==
    LET sep == PrintElsep(pretty, depth + 1)
    IN  <<left>> \o FlattenSeq([i \in DOMAIN items |-> sep \o items[i] \o <<",">>])
            \o (IF items = <<>> THEN <<>> ELSE PrintElsep(pretty, depth)) \o <<right>>

\* The loop of jso_encoder_encode_array and _object, over the pieces of the elements.
EncodeItems(items, left, right, pretty, depth) ==
    LET sep == PrintElsep(pretty, depth + 1)
        item(i) == (IF i = 1 THEN <<>> ELSE <<",">>) \o sep \o items[i]
    IN  <<left>> \o FlattenSeq([i \in DOMAIN items |-> item(i)])
            \o (IF items = <<>> THEN <<>> ELSE PrintElsep(pretty, depth)) \o <<right>>

RECURSIVE EncodeText(_, _, _)
EncodeArray(arr, pretty, depth) ==
    EncodeItems([i \in DOMAIN arr |-> EncodeText(arr[i], pretty, depth + 1)],
                "[", "]", pretty, depth)

EncodeObject(obj, pretty, depth) ==
    LET member(m) == EncodeString(m[1]) \o <<":">> \o PrintKvsep(pretty)
                        \o EncodeText(m[2], pretty, depth + 1)
    IN  EncodeItems([i \in DOMAIN obj |-> member(obj[i])], "{", "}", pretty, depth)

EncodeText(val, pretty, depth) ==
    CASE val.t = "null"   -> <<"null">>
      [] val.t = "bool"   -> <<IF val.v = 1 THEN "true" ELSE "false">>
      [] val.t = "int"    -> EncodeInt(val.v)
      [] val.t = "double" -> EncodeDouble(val.v)
      [] val.t = "string" -> EncodeString(val.v)
      [] val.t = "array"  -> EncodeArray(val.v, pretty, depth)
      [] val.t = "object" -> EncodeObject(val.v, pretty, depth)
      [] OTHER            -> <<>>

\* jso_encode. A container succeeds whatever became of its elements; a scalar fails when
\* it has no text or was not all written.
Encode(e, val) ==
    LET pieces == EncodeText(val, e.pretty, 0)
        o == Output(e, pieces)
    IN  [o EXCEPT !.rc = val.t \in {"array", "object"} \/ (@ /\ pieces # <<>>)]
=============================================================================
