------------------------------ MODULE IOSession ------------------------------
(* A reader of a file through an IO (io/jso_io_file.c on io/jso_io.c): the    *)
(* operations read, of any size up to MaxRead, and what the scanner does with *)
(* the cursor between two of them, in any order, with allocations that fail.  *)
EXTENDS IOBuffer

CONSTANTS FileSize,  \* the bytes in the file
          MaxRead,   \* the largest size asked for
          MaxSize    \* bound: no read once the buffer is larger (each read at the end
                     \* of the file doubles it)

ASSUME ReaderAssumption == {FileSize, MaxRead, MaxSize} \subseteq Nat

VARIABLES io,     \* the IO
          pos,    \* the bytes of the file handed to fread so far
          taken   \* the bytes the cursor went over

vars == <<io, pos, taken>>

Init == /\ io = IoAlloc
        /\ pos = 0
        /\ taken = 0

\* A block that is gone, or bytes written behind it: nothing is defined any more.
Undefined == io.overrun \/ io.lost > 0

Read ==
    /\ ~Undefined /\ io.size <= MaxSize
    /\ \E size \in 0..MaxRead, ok \in BOOLEAN :
        LET r == FileRead(io, size, pos, FileSize - pos, ok)
        IN  io' = r.io /\ pos' = pos + r.got
    /\ UNCHANGED taken

Scan ==
    /\ ~Undefined
    /\ \E n \in 1..Buffered(io) : io' = Advance(io, n) /\ taken' = taken + n
    /\ UNCHANGED pos

Done == (Undefined \/ io.size > MaxSize) /\ UNCHANGED vars

Next == Read \/ Scan \/ Done

Spec == Init /\ [][Next]_vars
-----------------------------------------------------------------------------
\* Between the cursor and the limit are the bytes of the file that follow the ones the
\* cursor went over, each once and in their order, whatever the buffer was moved to,
\* extended to or read into (as long as no write went behind it).
UnreadIntact ==
    ~Undefined =>
        /\ pos = taken + Buffered(io)
        /\ Cursor(io) >= 0 /\ Buffered(io) >= 0
        /\ io.buf # NoBuf => Limit(io) <= Len(io.buf)
        /\ \A k \in 1..Buffered(io) : io.buf[Cursor(io) + k] = taken + k
=============================================================================
