--------------------------- MODULE EncoderOutput ---------------------------
(* What the encoder writes to (jso_encoder.c): an IO that takes room more     *)
(* pieces has the first room of those that are written.                       *)
EXTENDS Integers, Sequences

\* The encoder: what was written, what the IO still takes, the option, and what the last
\* call returned.
EncoderInit(room, pretty) == [text |-> <<>>, room |-> room, pretty |-> pretty, rc |-> TRUE]

\* jso_encoder_output_jstr: success is that the last piece was taken.
Output(e, pieces) ==
    LET taken == IF Len(pieces) < e.room THEN Len(pieces) ELSE e.room
    IN  [e EXCEPT !.text = @ \o SubSeq(pieces, 1, taken), !.room = @ - taken,
                  !.rc = taken = Len(pieces)]
=============================================================================
