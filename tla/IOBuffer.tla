------------------------------ MODULE IOBuffer ------------------------------
(* The buffer of an IO (jso_io.h, io/jso_io.c) and the read operation of a    *)
(* file (io/jso_io_file.c), as operators on a record. The buffer is the       *)
(* sequence of its bytes (its length is what is allocated), a pointer is its  *)
(* distance from the start of the buffer, and a byte is the place in the file *)
(* it was read from (0: not yet written). lost counts blocks that realloc     *)
(* left behind; overrun is TRUE once a byte was written behind the buffer,    *)
(* after which nothing can be said. Allocation takes its outcome, ok.         *)
EXTENDS Integers, Sequences, FiniteSets

NoBuf == <<-1>>

Pointers == {"cursor", "token", "limit", "marker", "ctxmarker", "str_start"}

\* JSO_IO_ALLOC: everything is zero.
IoAlloc ==
    [buf |-> NoBuf, size |-> 0, ptr |-> [p \in Pointers |-> 0],
     error_code |-> 0, lost |-> 0, overrun |-> FALSE]

Cursor(io) == io.ptr["cursor"]
Limit(io)  == io.ptr["limit"]
MaxOf(x, y) == IF x > y THEN x ELSE y

\* jso_io_pointers_set leaves only the limit.
PointersSet(io, pos) ==
    [io EXCEPT !.ptr = [p \in Pointers |-> IF p = "limit" THEN @[p] ELSE pos]]

BufferInit(io, bytes, size) ==
    PointersSet([io EXCEPT !.size = size, !.buf = bytes, !.ptr["limit"] = 0], 0)

\* Every allocation returns the IO and its return code.
AllocNew(io, size, ok) ==
    IF ok THEN [io |-> BufferInit(io, [i \in 1..(size + 1) |-> 0], size), rc |-> TRUE]
    ELSE [io |-> io, rc |-> FALSE]

\* The pointers are saved as distances and loaded again on the moved buffer. The size
\* and the buffer are stored before the result is tested.
AllocExtend(io, size, ok) ==
    LET n    == MaxOf(io.size * 2, size + 1)
        kept == [i \in 1..n |-> IF i <= Len(io.buf) THEN io.buf[i] ELSE 0]
    IN  IF ok THEN [io |-> [io EXCEPT !.size = n, !.buf = kept], rc |-> TRUE]
        ELSE [io |-> [io EXCEPT !.size = n, !.buf = NoBuf, !.lost = @ + 1], rc |-> FALSE]

\* Mutant: the bytes are moved and the limit is left where it was.
RotateKeepsLimit(io, size, ok) ==
    LET processed == Cursor(io)
        buffered  == Limit(io) - Cursor(io)
    IN  [io |-> [io EXCEPT
            !.buf = [i \in DOMAIN @ |-> IF i <= buffered THEN @[i + processed] ELSE @[i]],
            !.ptr = [p \in Pointers |-> IF p = "limit" THEN @[p] ELSE @[p] - processed]],
         rc |-> TRUE]

\* The bytes not yet read go to the start, and every pointer moves by what was read.
AllocRotate(io, size, ok) ==
    LET buffered  == Limit(io) - Cursor(io)
        processed == Cursor(io)
        grown == IF io.size - buffered < size THEN AllocExtend(io, size + buffered, ok)
                 ELSE [io |-> io, rc |-> TRUE]
    IN  IF ~grown.rc THEN [grown EXCEPT !.io.error_code = -1]
        ELSE [io |-> [grown.io EXCEPT
                 !.buf = [i \in DOMAIN @ |-> IF i <= buffered THEN @[i + processed] ELSE @[i]],
                 !.ptr = [p \in Pointers |-> @[p] - processed]],
              rc |-> TRUE]

NotUsed(io) == io.size - Limit(io)

\* jso_io_buffer_alloc, with the automatic strategy: rotate when more than half of the
\* buffer was read, else extend. It returns at once when not_used <= size.
BufferAlloc(io, size, ok) ==
    IF io.buf = NoBuf THEN AllocNew(io, size, ok)
    ELSE IF NotUsed(io) <= size THEN [io |-> io, rc |-> TRUE]
    ELSE IF Cursor(io) > io.size \div 2 THEN AllocRotate(io, size, ok)
    ELSE AllocExtend(io, size, ok)

Buffered(io) == Limit(io) - Cursor(io)

\* fread: got bytes of the file from place pos on, written at the limit.
StoreBytes(io, pos, got) ==
    IF Limit(io) + got > Len(io.buf) THEN [io EXCEPT !.overrun = TRUE]
    ELSE [io EXCEPT !.buf = [i \in DOMAIN @ |->
                IF i > Limit(io) /\ i <= Limit(io) + got THEN pos + (i - Limit(io)) ELSE @[i]],
                    !.ptr["limit"] = @ + got]

\* jso_io_file_read: size when that much is buffered (or the cursor is behind the limit:
\* the difference is unsigned); else room is asked for and the file read. What the call
\* returns is the bytes in the buffer, at most size.
FileRead(io, size, pos, left, ok) ==
    LET buffered == Buffered(io)
        room == BufferAlloc(io, size, ok)
        want == room.io.size - buffered
        got  == IF want < left THEN want ELSE left
        n    == buffered + got
    IN  IF buffered < 0 \/ buffered >= size THEN [io |-> io, n |-> size, got |-> 0]
        ELSE IF ~room.rc THEN [io |-> room.io, n |-> 0, got |-> 0]
        ELSE [io |-> StoreBytes(room.io, pos, got), n |-> IF n < size THEN n ELSE size,
              got |-> got]

\* The scanner takes n bytes: the token starts at the cursor, which moves on.
Advance(io, n) ==
    [io EXCEPT !.ptr = [p \in Pointers |->
        CASE p = "cursor" -> @[p] + n
          [] p \in {"token", "str_start", "marker"} -> @["cursor"]
          [] OTHER -> @[p]]]

=============================================================================
