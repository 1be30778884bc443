-------------------------- MODULE IOSession_proofs --------------------------
(* What IOSession promises, for every file, every size that is read and every *)
(* bound: growing, rotating and reading keep the bytes that were not yet read.*)
EXTENDS IOSession, TLAPS

IoType ==
    [buf : Seq(Nat) \cup {NoBuf}, size : Nat, ptr : [Pointers -> Int], error_code : Int,
     lost : Nat, overrun : BOOLEAN]

\* What is buffered is what follows the first n bytes of the file.
Unread(x, n) == \A k \in 1..Buffered(x) : x.buf[Cursor(x) + k] = n + k

\* The buffer of an IO that is defined. A fresh buffer has one byte more than size, so the
\* limit may pass size; what is buffered may not be more than size, else the next read would
\* ask the file for a negative number of bytes.
Sound(x, p, n) ==
    /\ x.overrun = FALSE /\ x.lost = 0
    /\ p = n + Buffered(x)
    /\ Cursor(x) >= 0 /\ Buffered(x) >= 0 /\ Buffered(x) <= x.size
    /\ x.buf = NoBuf => Cursor(x) = 0 /\ Limit(x) = 0
    /\ x.buf # NoBuf => Limit(x) <= Len(x.buf) /\ Len(x.buf) <= x.size + 1
    /\ Unread(x, n)

Broken(x) == x.overrun \/ x.lost > 0

IndInv ==
    /\ io \in IoType /\ pos \in 0..FileSize /\ taken \in Nat
    /\ Sound(io, pos, taken) \/ Broken(io)

-----------------------------------------------------------------------------
\* jso_io_buffer_alloc_new: an IO without a buffer gets one, with nothing in it.
LEMMA NewSound ==
    ASSUME NEW x \in IoType, NEW p \in Nat, NEW n \in Nat, NEW size \in Nat, NEW ok \in BOOLEAN,
           Sound(x, p, n), x.buf = NoBuf
    PROVE  LET r == AllocNew(x, size, ok)
           IN  /\ r.io \in IoType /\ Sound(r.io, p, n)
               /\ r.rc => r.io.buf # NoBuf
<1> DEFINE fresh == [i \in 1..(size + 1) |-> 0]
           y     == BufferInit(x, fresh, size)
<1>1. fresh \in Seq(Nat) /\ Len(fresh) = size + 1 /\ fresh # NoBuf
  <2>1. fresh \in Seq(Nat) /\ Len(fresh) = size + 1
    OBVIOUS
  <2>2. fresh[1] = 0
    OBVIOUS
  <2>. QED  BY <2>1, <2>2 DEF NoBuf
<1>2. CASE ~ok
  BY <1>2 DEF AllocNew
<1>3. CASE ok
  <2>1. y = [x EXCEPT !.size = size, !.buf = fresh, !.ptr = [q \in Pointers |-> 0]]
    BY DEF BufferInit, PointersSet, IoType, Pointers
  <2> HIDE DEF fresh, y
  <2>2. y \in IoType /\ y.ptr = [q \in Pointers |-> 0] /\ y.buf = fresh /\ y.size = size
        /\ y.overrun = x.overrun /\ y.lost = x.lost
    <3>1. y = [buf |-> fresh, size |-> size, ptr |-> [q \in Pointers |-> 0],
               error_code |-> x.error_code, lost |-> x.lost, overrun |-> x.overrun]
      BY <2>1 DEF IoType
    <3>2. [q \in Pointers |-> 0] \in [Pointers -> Int]
      OBVIOUS
    <3>3. fresh \in Seq(Nat) \cup {NoBuf}
      BY <1>1
    <3>4. x.error_code \in Int /\ x.lost \in Nat /\ x.overrun \in BOOLEAN
      BY DEF IoType
    <3>5. y \in IoType
      BY <3>1, <3>2, <3>3, <3>4 DEF IoType
    <3>. QED  BY <3>1, <3>5
  <2>5. Cursor(y) = 0 /\ Limit(y) = 0
    BY <2>2 DEF Pointers, Cursor, Limit
  <2>3. p = n
    BY DEF Sound, Buffered
  <2>4. Sound(y, p, n)
    BY <2>2, <2>3, <2>5, <1>1 DEF Sound, Buffered, Unread
  <2>. QED  BY <1>3, <2>2, <2>4, <1>1 DEF AllocNew, fresh, y
<1>. QED  BY <1>2, <1>3

\* jso_io_buffer_alloc_extend: the bytes and the pointers stay, or the block is lost.
LEMMA ExtendSound ==
    ASSUME NEW x \in IoType, NEW p \in Nat, NEW n \in Nat, NEW size \in Nat, NEW ok \in BOOLEAN,
           Sound(x, p, n), x.buf # NoBuf
    PROVE  LET r == AllocExtend(x, size, ok)
           IN  /\ r.io \in IoType /\ r.rc = ok
               /\ ok => Sound(r.io, p, n) /\ r.io.buf # NoBuf /\ r.io.ptr = x.ptr
               /\ ~ok => Broken(r.io)
<1> DEFINE m    == MaxOf(x.size * 2, size + 1)
           kept == [i \in 1..m |-> IF i <= Len(x.buf) THEN x.buf[i] ELSE 0]
           y    == [x EXCEPT !.size = m, !.buf = kept]
           z    == [x EXCEPT !.size = m, !.buf = NoBuf, !.lost = @ + 1]
<1>1. x.size \in Nat /\ x.buf \in Seq(Nat) /\ Len(x.buf) \in Nat
  BY DEF IoType
<1>2. m \in Nat /\ m >= x.size /\ m >= 1 /\ (x.size >= 1 => m >= x.size + 1)
  BY <1>1 DEF MaxOf
<1>3. Cursor(x) \in Int /\ Limit(x) \in Int
  BY DEF IoType, Cursor, Limit, Pointers
<1>4. m >= Len(x.buf)
  BY <1>1, <1>2 DEF Sound
<1> HIDE DEF m
<1>5. /\ kept \in Seq(Nat) /\ Len(kept) = m
      /\ \A i \in 1..Len(x.buf) : kept[i] = x.buf[i]
  BY <1>1, <1>2, <1>4
<1>6. kept # NoBuf
  <2>1. kept[1] \in Nat
    BY <1>2, <1>5
  <2>. QED  BY <2>1 DEF NoBuf
<1> HIDE DEF kept
<1>7. /\ y = [buf |-> kept, size |-> m, ptr |-> x.ptr, error_code |-> x.error_code,
              lost |-> x.lost, overrun |-> x.overrun]
      /\ z = [buf |-> NoBuf, size |-> m, ptr |-> x.ptr, error_code |-> x.error_code,
              lost |-> x.lost + 1, overrun |-> x.overrun]
  <2>1. x = [buf |-> x.buf, size |-> x.size, ptr |-> x.ptr, error_code |-> x.error_code,
             lost |-> x.lost, overrun |-> x.overrun]
    BY DEF IoType
  <2>2. /\ y = [[x EXCEPT !.size = m] EXCEPT !.buf = kept]
        /\ z = [[[x EXCEPT !.size = m] EXCEPT !.buf = NoBuf] EXCEPT !.lost = x.lost + 1]
    OBVIOUS
  <2> HIDE DEF y, z
  <2>3. y = [buf |-> kept, size |-> m, ptr |-> x.ptr, error_code |-> x.error_code,
              lost |-> x.lost, overrun |-> x.overrun]
    BY <2>1, <2>2
  <2>4. z = [buf |-> NoBuf, size |-> m, ptr |-> x.ptr, error_code |-> x.error_code,
              lost |-> x.lost + 1, overrun |-> x.overrun]
    BY <2>1, <2>2
  <2>. QED  BY <2>3, <2>4
<1>8. y \in IoType /\ z \in IoType
  <2>1. /\ x.ptr \in [Pointers -> Int] /\ x.error_code \in Int /\ x.lost \in Nat
        /\ x.overrun \in BOOLEAN /\ x.lost + 1 \in Nat
    BY DEF IoType
  <2>2. kept \in Seq(Nat) \cup {NoBuf}
    BY <1>5
  <2>. QED  BY <1>2, <1>7, <2>1, <2>2 DEF IoType
<1> HIDE DEF y, z
<1>9. Cursor(y) = Cursor(x) /\ Limit(y) = Limit(x)
  BY <1>7 DEF Cursor, Limit
<1>10. Sound(y, p, n)
  <2>1. Unread(y, n)
    <3> SUFFICES ASSUME NEW k \in 1..Buffered(x)
                 PROVE  y.buf[Cursor(x) + k] = n + k
      BY <1>9 DEF Unread, Buffered
    <3>1. Cursor(x) + k \in 1..Len(x.buf)
      BY <1>1, <1>3 DEF Sound, Buffered
    <3>. QED  BY <3>1, <1>5, <1>7 DEF Sound, Unread
  <2>2. Buffered(y) = Buffered(x)
    BY <1>9 DEF Buffered
  <2>. QED
    BY <2>1, <2>2, <1>1, <1>2, <1>3, <1>4, <1>5, <1>6, <1>7, <1>9 DEF Sound, Buffered
<1>11. Broken(z)
  BY <1>7 DEF Broken, Sound
<1>12. AllocExtend(x, size, ok) = IF ok THEN [io |-> y, rc |-> TRUE] ELSE [io |-> z, rc |-> FALSE]
  BY DEF AllocExtend, y, z, kept, m
<1>13. CASE ok
  BY <1>6, <1>7, <1>8, <1>10, <1>12, <1>13
<1>14. CASE ~ok
  <2> DEFINE r == AllocExtend(x, size, ok)
  <2>1. r = [io |-> z, rc |-> FALSE]
    BY <1>12, <1>14
  <2> HIDE DEF r
  <2>2. r.io = z /\ r.rc = FALSE
    BY <2>1
  <2>3. ok = FALSE
    BY <1>14
  <2>4. /\ r.io \in IoType /\ r.rc = ok
        /\ ok => Sound(r.io, p, n) /\ r.io.buf # NoBuf /\ r.io.ptr = x.ptr
        /\ ~ok => Broken(r.io)
    BY <2>2, <2>3, <1>8, <1>11
  <2>. QED  BY <2>4 DEF r
<1>. QED  BY <1>13, <1>14

\* jso_io_buffer_alloc_rotate: what was not yet read moves to the start, in a buffer that is
\* extended before when there is not room for size more.
LEMMA RotateSound ==
    ASSUME NEW x \in IoType, NEW p \in Nat, NEW n \in Nat, NEW size \in Nat, NEW ok \in BOOLEAN,
           Sound(x, p, n), x.buf # NoBuf
    PROVE  LET r == AllocRotate(x, size, ok)
           IN  /\ r.io \in IoType /\ r.rc \in BOOLEAN
               /\ r.rc => Sound(r.io, p, n) /\ r.io.buf # NoBuf
               /\ ~r.rc => Broken(r.io)
<1> DEFINE buffered == Limit(x) - Cursor(x)
           extended == AllocExtend(x, size + buffered, ok)
           grown    == IF x.size - buffered < size THEN extended ELSE [io |-> x, rc |-> TRUE]
           g        == grown.io
           moved    == [i \in DOMAIN g.buf |->
                           IF i <= buffered THEN g.buf[i + Cursor(x)] ELSE g.buf[i]]
           shifted  == [q \in Pointers |-> g.ptr[q] - Cursor(x)]
           y        == [g EXCEPT !.buf = moved, !.ptr = shifted]
<1>1. Cursor(x) \in Nat /\ Limit(x) \in Int /\ buffered \in Nat
  BY DEF IoType, Cursor, Limit, Pointers, Sound, Buffered
<1>2. /\ grown.io \in IoType /\ grown.rc \in BOOLEAN
      /\ grown.rc => Sound(grown.io, p, n) /\ grown.io.buf # NoBuf /\ grown.io.ptr = x.ptr
      /\ ~grown.rc => Broken(grown.io)
  <2>1. CASE x.size - buffered < size
    <3>1. size + buffered \in Nat
      BY <1>1
    <3>2. /\ extended.io \in IoType /\ extended.rc = ok
          /\ ok => Sound(extended.io, p, n) /\ extended.io.buf # NoBuf /\ extended.io.ptr = x.ptr
          /\ ~ok => Broken(extended.io)
      BY <3>1, ExtendSound
    <3> HIDE DEF extended
    <3>3. grown = extended
      BY <2>1 DEF grown
    <3> HIDE DEF grown
    <3>4. grown.rc = ok /\ ok \in BOOLEAN
      BY <3>2, <3>3
    <3>. QED  BY <3>2, <3>3, <3>4
  <2>2. CASE ~(x.size - buffered < size)
    <3> HIDE DEF extended
    <3>1. grown = [io |-> x, rc |-> TRUE]
      BY <2>2 DEF grown
    <3> HIDE DEF grown
    <3>2. grown.io = x /\ grown.rc = TRUE
      BY <3>1
    <3>. QED  BY <3>2
  <2>. QED  BY <2>1, <2>2
<1> HIDE DEF grown
<1>3. CASE ~grown.rc
  <2> DEFINE w == [grown EXCEPT !.io.error_code = -1]
  <2>1. AllocRotate(x, size, ok) = w
    BY <1>3 DEF AllocRotate, grown
  <2>2. grown = [io |-> g, rc |-> grown.rc]
    BY DEF grown, AllocExtend
  <2>3. w = [io |-> [g EXCEPT !.error_code = -1], rc |-> grown.rc]
    BY <2>2
  <2>4. [g EXCEPT !.error_code = -1] \in IoType
    <3> HIDE DEF g
    <3>1. g \in IoType
      BY <1>2 DEF g
    <3>2. -1 \in Int
      OBVIOUS
    <3>. QED  BY <3>1, <3>2 DEF IoType
  <2>5. Broken([g EXCEPT !.error_code = -1])
    BY <1>2, <1>3 DEF Broken, IoType
  <2>. QED  BY <2>1, <2>3, <2>4, <2>5, <1>2, <1>3
<1>4. CASE grown.rc
  <2>1. AllocRotate(x, size, ok) = [io |-> y, rc |-> TRUE]
    BY <1>4 DEF AllocRotate, grown
  <2>2. Sound(g, p, n) /\ g.buf # NoBuf /\ g.ptr = x.ptr /\ g \in IoType
    BY <1>2, <1>4
  <2> HIDE DEF g
  <2>3. g.buf \in Seq(Nat) /\ Len(g.buf) \in Nat /\ DOMAIN g.buf = 1..Len(g.buf)
    BY <2>2 DEF IoType
  <2>4. Cursor(g) = Cursor(x) /\ Limit(g) = Limit(x) /\ Buffered(g) = buffered
    BY <2>2 DEF Cursor, Limit, Buffered
  <2>5. Cursor(x) + buffered <= Len(g.buf)
    BY <1>1, <2>2, <2>4 DEF Sound
  <2>6. /\ moved \in Seq(Nat) /\ Len(moved) = Len(g.buf)
        /\ \A k \in 1..buffered : moved[k] = g.buf[Cursor(x) + k]
    <3>1. \A i \in 1..Len(g.buf) : i <= buffered => i + Cursor(x) \in 1..Len(g.buf)
      BY <1>1, <2>3, <2>5
    <3>2. moved \in [1..Len(g.buf) -> Nat]
      BY <2>3, <3>1
    <3>3. moved \in Seq(Nat) /\ Len(moved) = Len(g.buf)
      BY <2>3, <3>2
    <3>4. \A k \in 1..buffered : k \in 1..Len(g.buf)
      BY <1>1, <2>3, <2>5
    <3>5. ASSUME NEW k \in 1..buffered
          PROVE  moved[k] = g.buf[Cursor(x) + k]
      BY <1>1, <2>3, <3>4
    <3>. QED  BY <3>3, <3>5
  <2>7. moved # NoBuf
    <3>1. SUFFICES ASSUME moved = NoBuf PROVE FALSE
      OBVIOUS
    <3>2. Len(moved) = 1
      BY <3>1 DEF NoBuf
    <3>3. moved[1] \in Nat
      BY <2>6, <3>2
    <3>. QED  BY <3>1, <3>3 DEF NoBuf
  <2>8. shifted \in [Pointers -> Int] /\ shifted["cursor"] = 0 /\ shifted["limit"] = buffered
    <3>1. g.ptr \in [Pointers -> Int]
      BY <2>2 DEF IoType
    <3>2. shifted \in [Pointers -> Int]
      BY <1>1, <3>1
    <3>3. "cursor" \in Pointers /\ "limit" \in Pointers
      BY DEF Pointers
    <3>4. shifted["cursor"] = Cursor(g) - Cursor(x) /\ shifted["limit"] = Limit(g) - Cursor(x)
      BY <3>3 DEF Cursor, Limit
    <3>. QED  BY <1>1, <2>4, <3>2, <3>4
  <2> HIDE DEF moved, shifted
  <2>9. y = [buf |-> moved, size |-> g.size, ptr |-> shifted, error_code |-> g.error_code,
             lost |-> g.lost, overrun |-> g.overrun]
    <3>1. g = [buf |-> g.buf, size |-> g.size, ptr |-> g.ptr, error_code |-> g.error_code,
               lost |-> g.lost, overrun |-> g.overrun]
      BY <2>2 DEF IoType
    <3>2. y = [[g EXCEPT !.buf = moved] EXCEPT !.ptr = shifted]
      OBVIOUS
    <3> HIDE DEF y
    <3>. QED  BY <3>1, <3>2
  <2> HIDE DEF y
  <2>10. y \in IoType
    <3>1. g.size \in Nat /\ g.error_code \in Int /\ g.lost \in Nat /\ g.overrun \in BOOLEAN
      BY <2>2 DEF IoType
    <3>2. moved \in Seq(Nat) \cup {NoBuf}
      BY <2>6
    <3>. QED  BY <2>8, <2>9, <3>1, <3>2 DEF IoType
  <2>11. Cursor(y) = 0 /\ Limit(y) = buffered /\ Buffered(y) = buffered
    BY <1>1, <2>8, <2>9 DEF Cursor, Limit, Buffered
  <2>12. Unread(y, n)
    BY <1>1, <2>2, <2>4, <2>6, <2>9, <2>11 DEF Sound, Unread
  <2>13. Sound(y, p, n)
    <3>1. buffered <= Len(moved) /\ Len(moved) <= g.size + 1
      BY <1>1, <2>2, <2>3, <2>5, <2>6 DEF Sound
    <3>. QED  BY <1>1, <2>2, <2>4, <2>7, <2>9, <2>11, <2>12, <3>1 DEF Sound
  <2>. QED  BY <2>1, <2>7, <2>9, <2>10, <2>13
<1>. QED  BY <1>2, <1>3, <1>4

\* jso_io_buffer_alloc: what is buffered stays, unless the block was lost, and success means
\* that there is a buffer.
LEMMA AllocSound ==
    ASSUME NEW x \in IoType, NEW p \in Nat, NEW n \in Nat, NEW size \in Nat, NEW ok \in BOOLEAN,
           Sound(x, p, n)
    PROVE  LET r == BufferAlloc(x, size, ok)
           IN  /\ r.io \in IoType /\ r.rc \in BOOLEAN
               /\ r.rc => Sound(r.io, p, n) /\ r.io.buf # NoBuf
               /\ ~r.rc => Sound(r.io, p, n) \/ Broken(r.io)
<1> DEFINE r == BufferAlloc(x, size, ok)
<1>1. CASE x.buf = NoBuf
  <2>1. r = AllocNew(x, size, ok)
    BY <1>1 DEF BufferAlloc
  <2>2. r.rc \in BOOLEAN
    BY <2>1 DEF AllocNew
  <2> HIDE DEF r
  <2>3. r.io \in IoType /\ Sound(r.io, p, n) /\ (r.rc => r.io.buf # NoBuf)
    BY <1>1, <2>1, NewSound
  <2>. QED  BY <2>2, <2>3 DEF r
<1>2. CASE x.buf # NoBuf /\ NotUsed(x) <= size
  <2>1. r = [io |-> x, rc |-> TRUE]
    BY <1>2 DEF BufferAlloc
  <2> HIDE DEF r
  <2>2. r.io = x /\ r.rc = TRUE
    BY <2>1
  <2>3. /\ r.io \in IoType /\ r.rc \in BOOLEAN
        /\ r.rc => Sound(r.io, p, n) /\ r.io.buf # NoBuf
        /\ ~r.rc => Sound(r.io, p, n) \/ Broken(r.io)
    BY <1>2, <2>2
  <2>. QED  BY <2>3 DEF r
<1>3. CASE x.buf # NoBuf /\ ~(NotUsed(x) <= size) /\ Cursor(x) > x.size \div 2
  <2>1. r = AllocRotate(x, size, ok)
    BY <1>3 DEF BufferAlloc
  <2> HIDE DEF r
  <2>2. /\ r.io \in IoType /\ r.rc \in BOOLEAN
        /\ r.rc => Sound(r.io, p, n) /\ r.io.buf # NoBuf
        /\ ~r.rc => Broken(r.io)
    BY <1>3, <2>1, RotateSound
  <2>. QED  BY <2>2 DEF r
<1>4. CASE x.buf # NoBuf /\ ~(NotUsed(x) <= size) /\ ~(Cursor(x) > x.size \div 2)
  <2>1. r = AllocExtend(x, size, ok)
    BY <1>4 DEF BufferAlloc
  <2> HIDE DEF r
  <2>2. /\ r.io \in IoType /\ r.rc = ok
        /\ ok => Sound(r.io, p, n) /\ r.io.buf # NoBuf
        /\ ~ok => Broken(r.io)
    BY <1>4, <2>1, ExtendSound
  <2>3. /\ r.io \in IoType /\ r.rc \in BOOLEAN
        /\ r.rc => Sound(r.io, p, n) /\ r.io.buf # NoBuf
        /\ ~r.rc => Sound(r.io, p, n) \/ Broken(r.io)
    BY <2>2
  <2>. QED  BY <2>3 DEF r
<1>. QED  BY <1>1, <1>2, <1>3, <1>4

\* fread into a sound buffer: the next bytes of the file follow those that are buffered.
LEMMA StoreSound ==
    ASSUME NEW x \in IoType, NEW p \in Nat, NEW n \in Nat, NEW got \in Nat,
           Sound(x, p, n), x.buf # NoBuf, Buffered(x) + got <= x.size
    PROVE  LET y == StoreBytes(x, p, got)
           IN  y \in IoType /\ (Sound(y, p + got, n) \/ Broken(y))
<1> DEFINE stored == [i \in DOMAIN x.buf |->
                         IF i > Limit(x) /\ i <= Limit(x) + got THEN p + (i - Limit(x))
                         ELSE x.buf[i]]
           further == [x.ptr EXCEPT !["limit"] = @ + got]
           y       == [x EXCEPT !.buf = stored, !.ptr = further]
           over    == [x EXCEPT !.overrun = TRUE]
<1>1. Cursor(x) \in Nat /\ Limit(x) \in Nat /\ Buffered(x) \in Nat
      /\ Buffered(x) = Limit(x) - Cursor(x)
  BY DEF IoType, Cursor, Limit, Pointers, Sound, Buffered
<1>2. x.buf \in Seq(Nat) /\ Len(x.buf) \in Nat /\ DOMAIN x.buf = 1..Len(x.buf)
  BY DEF IoType
<1>3. x.size \in Nat /\ x.ptr \in [Pointers -> Int] /\ x.error_code \in Int /\ x.lost \in Nat
      /\ x.overrun \in BOOLEAN
  BY DEF IoType
<1>4. CASE Limit(x) + got > Len(x.buf)
  <2>1. StoreBytes(x, p, got) = over
    BY <1>4 DEF StoreBytes
  <2>2. over \in IoType
    BY DEF IoType
  <2>3. over.overrun = TRUE
    BY DEF IoType
  <2>. QED  BY <2>1, <2>2, <2>3 DEF Broken
<1>5. CASE Limit(x) + got <= Len(x.buf)
  <2>1. /\ stored \in Seq(Nat) /\ Len(stored) = Len(x.buf)
        /\ \A i \in 1..Len(x.buf) :
              stored[i] = IF i > Limit(x) /\ i <= Limit(x) + got THEN p + (i - Limit(x))
                          ELSE x.buf[i]
    <3>1. ASSUME NEW i \in 1..Len(x.buf)
          PROVE  x.buf[i] \in Nat /\ (i > Limit(x) => p + (i - Limit(x)) \in Nat)
      <4>1. i \in Nat /\ x.buf[i] \in Nat
        BY <1>2
      <4>2. i > Limit(x) => i - Limit(x) \in Nat
        BY <1>1, <4>1
      <4>. QED  BY <4>1, <4>2
    <3>2. stored \in [1..Len(x.buf) -> Nat]
      BY <1>2, <3>1
    <3>3. stored \in Seq(Nat) /\ Len(stored) = Len(x.buf)
      BY <1>2, <3>2
    <3>. QED  BY <1>2, <3>3
  <2>2. stored # NoBuf
    <3>1. SUFFICES ASSUME stored = NoBuf PROVE FALSE
      OBVIOUS
    <3>2. Len(stored) = 1
      BY <3>1 DEF NoBuf
    <3>3. stored[1] \in Nat
      BY <2>1, <3>2
    <3>. QED  BY <3>1, <3>3 DEF NoBuf
  <2>3. /\ further \in [Pointers -> Int] /\ further["limit"] = Limit(x) + got
        /\ further["cursor"] = Cursor(x)
    <3>1. "cursor" \in Pointers /\ "limit" \in Pointers
      BY DEF Pointers
    <3>. QED  BY <1>3, <3>1 DEF Cursor, Limit
  <2>4. StoreBytes(x, p, got) = y
    <3>1. ~(Limit(x) + got > Len(x.buf))
      BY <1>1, <1>2, <1>5
    <3>2. y = [x EXCEPT !.buf = stored, !.ptr["limit"] = @ + got]
      BY <1>3 DEF IoType
    <3>. QED  BY <3>1, <3>2 DEF StoreBytes
  <2> HIDE DEF stored, further
  <2>5. y = [buf |-> stored, size |-> x.size, ptr |-> further, error_code |-> x.error_code,
             lost |-> x.lost, overrun |-> x.overrun]
    <3>1. x = [buf |-> x.buf, size |-> x.size, ptr |-> x.ptr, error_code |-> x.error_code,
               lost |-> x.lost, overrun |-> x.overrun]
      BY DEF IoType
    <3>2. y = [[x EXCEPT !.buf = stored] EXCEPT !.ptr = further]
      OBVIOUS
    <3> HIDE DEF y
    <3>. QED  BY <3>1, <3>2
  <2> HIDE DEF y
  <2>6. y \in IoType
    <3>1. stored \in Seq(Nat) \cup {NoBuf}
      BY <2>1
    <3>. QED  BY <1>3, <2>3, <2>5, <3>1 DEF IoType
  <2>7. Cursor(y) = Cursor(x) /\ Limit(y) = Limit(x) + got /\ Buffered(y) = Buffered(x) + got
    BY <1>1, <2>3, <2>5 DEF Cursor, Limit, Buffered
  <2>8. Unread(y, n)
    <3> SUFFICES ASSUME NEW k \in 1..(Buffered(x) + got)
                 PROVE  stored[Cursor(x) + k] = n + k
      BY <2>5, <2>7 DEF Unread
    <3> DEFINE len == Len(x.buf)
               at  == Cursor(x) + k
    <3>1. k \in Int /\ 1 <= k /\ k <= Buffered(x) + got
      BY <1>1
    <3>2. at \in Int /\ 1 <= at /\ at <= Limit(x) + got
      BY <1>1, <3>1
    <3>3. len \in Nat /\ Limit(x) + got <= len
      BY <1>2, <1>5
    <3>4. /\ k <= Buffered(x) => at <= Limit(x)
          /\ k > Buffered(x) => at > Limit(x) /\ p + (at - Limit(x)) = n + k
      BY <1>1, <3>1 DEF Sound
    <3>5. k <= Buffered(x) => x.buf[at] = n + k
      BY <1>1, <3>1 DEF Sound, Unread
    <3> HIDE DEF at, len
    <3>6. at \in 1..len
      BY <1>1, <3>2, <3>3
    <3>7. stored[at] = IF at > Limit(x) /\ at <= Limit(x) + got THEN p + (at - Limit(x))
                       ELSE x.buf[at]
      BY <2>1, <3>6 DEF len
    <3>8. stored[at] = n + k
      <4>1. CASE k <= Buffered(x)
        BY <1>1, <3>2, <3>4, <3>5, <3>7, <4>1
      <4>2. CASE k > Buffered(x)
        BY <3>2, <3>4, <3>7, <4>2
      <4>. QED  BY <1>1, <3>1, <4>1, <4>2
    <3>. QED  BY <3>8 DEF at
  <2>9. Sound(y, p + got, n)
    <3>1. p = n + Buffered(x) /\ x.overrun = FALSE /\ x.lost = 0 /\ Len(x.buf) <= x.size + 1
      BY DEF Sound
    <3>2. p + got = n + Buffered(y) /\ Cursor(y) >= 0 /\ Buffered(y) >= 0
      BY <1>1, <2>7, <3>1
    <3>3. y.size = x.size /\ y.buf = stored /\ y.overrun = FALSE /\ y.lost = 0
      BY <2>5, <3>1
    <3>4. Limit(y) <= Len(y.buf) /\ Len(y.buf) <= y.size + 1 /\ Buffered(y) <= y.size
      BY <1>5, <2>1, <2>7, <3>1, <3>3
    <3>. QED  BY <2>2, <2>8, <3>2, <3>3, <3>4 DEF Sound
  <2>. QED  BY <2>4, <2>6, <2>9
<1>. QED  BY <1>1, <1>2, <1>4, <1>5

\* What the bookkeeping of a sound buffer says in numbers.
LEMMA SoundNumbers ==
    ASSUME NEW x \in IoType, NEW p \in Nat, NEW n \in Nat, Sound(x, p, n)
    PROVE  /\ Buffered(x) \in Nat /\ p = n + Buffered(x)
           /\ x.size \in Nat /\ Buffered(x) <= x.size
BY DEF Sound, Buffered, Cursor, Limit, IoType, Pointers

\* jso_io_file_read takes from the file what it says and no more than there is.
LEMMA ReadSound ==
    ASSUME NEW x \in IoType, NEW p \in 0..FileSize, NEW n \in Nat, NEW size \in Nat,
           NEW ok \in BOOLEAN, Sound(x, p, n)
    PROVE  LET r == FileRead(x, size, p, FileSize - p, ok)
           IN  /\ r.io \in IoType /\ p + r.got \in 0..FileSize
               /\ Sound(r.io, p + r.got, n) \/ Broken(r.io)
<1> DEFINE left == FileSize - p
           room == BufferAlloc(x, size, ok)
           want == room.io.size - Buffered(x)
           got  == IF want < left THEN want ELSE left
           y    == StoreBytes(room.io, p, got)
           r    == FileRead(x, size, p, left, ok)
<1>1. FileSize \in Nat /\ p \in Nat /\ left \in Nat
  BY ReaderAssumption
<1>2. /\ room.io \in IoType /\ room.rc \in BOOLEAN
      /\ room.rc => Sound(room.io, p, n) /\ room.io.buf # NoBuf
      /\ ~room.rc => Sound(room.io, p, n) \/ Broken(room.io)
  BY <1>1, AllocSound
<1>3. Buffered(x) \in Nat /\ p = n + Buffered(x)
  BY <1>1, SoundNumbers
<1> DEFINE Goal == /\ r.io \in IoType /\ p + r.got \in 0..FileSize
                   /\ Sound(r.io, p + r.got, n) \/ Broken(r.io)
<1>4. ASSUME Buffered(x) >= size PROVE Goal
  <2>1. r = [io |-> x, n |-> size, got |-> 0]
    BY <1>4 DEF FileRead
  <2> HIDE DEF r
  <2>2. r.io = x /\ r.got = 0
    BY <2>1
  <2>. QED  BY <1>1, <2>2
<1>5. ASSUME ~(Buffered(x) >= size), ~room.rc PROVE Goal
  <2>1. ~(Buffered(x) < 0 \/ Buffered(x) >= size)
    BY <1>3, <1>5
  <2>2. r = [io |-> room.io, n |-> 0, got |-> 0]
    BY <2>1, <1>5 DEF FileRead
  <2> HIDE DEF r, room
  <2>3. r.io = room.io /\ r.got = 0
    BY <2>2
  <2>. QED  BY <1>1, <1>2, <1>5, <2>3
<1>6. ASSUME ~(Buffered(x) >= size), room.rc PROVE Goal
  <2>1. ~(Buffered(x) < 0 \/ Buffered(x) >= size)
    BY <1>3, <1>6
  <2>2. r.io = y /\ r.got = got
    BY <2>1, <1>6 DEF FileRead
  <2> HIDE DEF r, y, room
  <2>3. Sound(room.io, p, n) /\ room.io.buf # NoBuf /\ room.io \in IoType
    BY <1>2, <1>6
  <2>4. /\ p = n + Buffered(room.io) /\ Buffered(room.io) <= room.io.size
        /\ room.io.size \in Nat /\ Buffered(room.io) \in Nat
    BY <1>1, <2>3, SoundNumbers
  <2>5. Buffered(room.io) = Buffered(x) /\ want \in Nat
    BY <1>1, <1>3, <2>4
  <2>6. got \in Nat /\ got <= want /\ got <= left
    BY <1>1, <2>5
  <2>7. Buffered(room.io) + got <= room.io.size
    BY <1>3, <2>4, <2>5, <2>6
  <2>8. p + got \in 0..FileSize
    BY <1>1, <2>6
  <2> HIDE DEF got
  <2>9. y \in IoType /\ (Sound(y, p + got, n) \/ Broken(y))
    BY <1>1, <2>3, <2>6, <2>7, StoreSound DEF y
  <2>. QED  BY <2>2, <2>8, <2>9
<1> HIDE DEF Goal
<1>7. Goal
  BY <1>2, <1>4, <1>5, <1>6
<1>. QED  BY <1>7 DEF Goal

\* The scanner moves the cursor over bytes that are buffered.
LEMMA AdvanceSound ==
    ASSUME NEW x \in IoType, NEW p \in Nat, NEW n \in Nat, Sound(x, p, n),
           NEW m \in 1..Buffered(x)
    PROVE  Advance(x, m) \in IoType /\ Sound(Advance(x, m), p, n + m)
<1> DEFINE moved == [q \in Pointers |->
                        CASE q = "cursor" -> x.ptr[q] + m
                          [] q \in {"token", "str_start", "marker"} -> x.ptr["cursor"]
                          [] OTHER -> x.ptr[q]]
           y == Advance(x, m)
<1>1. Cursor(x) \in Nat /\ Limit(x) \in Int /\ Buffered(x) \in Nat
      /\ Buffered(x) = Limit(x) - Cursor(x)
  BY DEF IoType, Cursor, Limit, Pointers, Sound, Buffered
<1>2. m \in Nat /\ 1 <= m /\ m <= Buffered(x)
  BY <1>1
<1>3. x.ptr \in [Pointers -> Int] /\ "cursor" \in Pointers /\ "limit" \in Pointers
  BY DEF IoType, Pointers
<1>4. moved \in [Pointers -> Int]
  <2>1. ASSUME NEW q \in Pointers
        PROVE  /\ x.ptr[q] + m \in Int /\ x.ptr["cursor"] \in Int /\ x.ptr[q] \in Int
    BY <1>2, <1>3
  <2>. QED  BY <2>1
<1>5. moved["cursor"] = Cursor(x) + m /\ moved["limit"] = Limit(x)
  BY <1>3 DEF Cursor, Limit
<1>6. y = [x EXCEPT !.ptr = moved]
  BY DEF Advance, IoType
<1> HIDE DEF moved, y
<1>7. /\ y \in IoType /\ y.ptr = moved /\ y.buf = x.buf /\ y.size = x.size
      /\ y.overrun = x.overrun /\ y.lost = x.lost
  BY <1>4, <1>6 DEF IoType
<1>8. Cursor(y) = Cursor(x) + m /\ Limit(y) = Limit(x) /\ Buffered(y) = Buffered(x) - m
  BY <1>1, <1>2, <1>5, <1>7 DEF Cursor, Limit, Buffered
<1>9. Unread(y, n + m)
  <2> SUFFICES ASSUME NEW k \in 1..(Buffered(x) - m)
               PROVE  x.buf[Cursor(x) + m + k] = n + m + k
    BY <1>7, <1>8 DEF Unread
  <2>1. m + k \in 1..Buffered(x)
    BY <1>1, <1>2
  <2>2. x.buf[Cursor(x) + (m + k)] = n + (m + k)
    BY <2>1 DEF Sound, Unread
  <2>3. k \in Int
    BY <1>1, <1>2
  <2>4. Cursor(x) + (m + k) = Cursor(x) + m + k /\ n + (m + k) = n + m + k
    BY <1>1, <1>2, <2>3
  <2>. QED  BY <2>2, <2>4
<1>10. x.size \in Nat /\ x.overrun = FALSE /\ x.lost = 0 /\ p = n + Buffered(x)
       /\ Buffered(x) <= x.size /\ (x.buf = NoBuf => Buffered(x) = 0)
  BY <1>1 DEF Sound, IoType
<1>11. x.buf # NoBuf
  BY <1>2, <1>10
<1>12. Limit(x) <= Len(x.buf) /\ Len(x.buf) <= x.size + 1
  BY <1>11 DEF Sound
<1>13. Cursor(y) >= 0 /\ Buffered(y) >= 0 /\ Buffered(y) <= y.size /\ p = n + m + Buffered(y)
  BY <1>1, <1>2, <1>7, <1>8, <1>10
<1>14. Sound(y, p, n + m)
  BY <1>7, <1>8, <1>9, <1>10, <1>11, <1>12, <1>13 DEF Sound
<1>. QED  BY <1>7, <1>14 DEF y

-----------------------------------------------------------------------------
\* JSO_IO_ALLOC makes a sound IO, at the start of the file.
LEMMA InitInv == Init => IndInv
<1> SUFFICES ASSUME Init PROVE IndInv
  OBVIOUS
<1>1. io = [buf |-> NoBuf, size |-> 0, ptr |-> [q \in Pointers |-> 0], error_code |-> 0,
            lost |-> 0, overrun |-> FALSE] /\ pos = 0 /\ taken = 0
  BY DEF Init, IoAlloc
<1>2. io \in IoType
  BY <1>1 DEF IoType
<1>3. Cursor(io) = 0 /\ Limit(io) = 0
  BY <1>1 DEF Cursor, Limit, Pointers
<1>4. Sound(io, pos, taken)
  <2>1. Buffered(io) = 0 /\ Cursor(io) >= 0
    BY <1>3 DEF Buffered
  <2>2. Unread(io, taken)
    BY <2>1 DEF Unread
  <2>3. io.buf = NoBuf /\ io.size = 0 /\ io.lost = 0 /\ io.overrun = FALSE
    BY <1>1
  <2>. QED  BY <1>1, <1>3, <2>1, <2>2, <2>3 DEF Sound
<1>. QED  BY <1>1, <1>2, <1>4, ReaderAssumption DEF IndInv

\* Reading and scanning keep the buffer sound, or break it.
LEMMA NextInv == IndInv /\ [Next]_vars => IndInv'
<1> SUFFICES ASSUME IndInv, [Next]_vars PROVE IndInv'
  OBVIOUS
<1>1. ~Undefined => Sound(io, pos, taken)
  BY DEF IndInv, Undefined, Broken
<1>2. CASE Read
  <2>1. PICK size \in 0..MaxRead, ok \in BOOLEAN :
           LET r == FileRead(io, size, pos, FileSize - pos, ok)
           IN  io' = r.io /\ pos' = pos + r.got
    BY <1>2 DEF Read
  <2>2. Sound(io, pos, taken) /\ taken' = taken
    BY <1>1, <1>2 DEF Read
  <2>3. size \in Nat
    BY ReaderAssumption
  <2> DEFINE r == FileRead(io, size, pos, FileSize - pos, ok)
  <2>4. io \in IoType /\ pos \in 0..FileSize /\ taken \in Nat
    BY DEF IndInv
  <2>5. /\ r.io \in IoType /\ pos + r.got \in 0..FileSize
        /\ Sound(r.io, pos + r.got, taken) \/ Broken(r.io)
    BY <2>2, <2>3, <2>4, ReadSound
  <2>. QED  BY <2>1, <2>2, <2>4, <2>5 DEF IndInv
<1>3. CASE Scan
  <2>1. PICK m \in 1..Buffered(io) : io' = Advance(io, m) /\ taken' = taken + m
    BY <1>3 DEF Scan
  <2>2. Sound(io, pos, taken) /\ pos' = pos
    BY <1>1, <1>3 DEF Scan
  <2>3. io \in IoType /\ pos \in 0..FileSize /\ pos \in Nat /\ taken \in Nat
    BY ReaderAssumption DEF IndInv
  <2>4. io' \in IoType /\ Sound(io', pos, taken + m)
    BY <2>1, <2>2, <2>3, AdvanceSound
  <2>5. Buffered(io) \in Int
    BY <2>3 DEF IoType, Buffered, Cursor, Limit, Pointers
  <2>6. taken + m \in Nat
    BY <2>3, <2>5
  <2>. QED  BY <2>1, <2>2, <2>3, <2>4, <2>6 DEF IndInv
<1>4. CASE Done \/ UNCHANGED vars
  BY <1>4 DEF IndInv, Done, vars
<1>. QED  BY <1>2, <1>3, <1>4 DEF Next

\* The inductive invariant: UnreadIntact, and that never more is buffered than size says
\* and no limit is behind the block, which the next read relies on.
THEOREM ReaderInvariance == Spec => []IndInv
<1>1. QED  BY InitInv, NextInv, PTL DEF Spec

\* For every file and all sizes: the bytes between cursor and limit are the bytes of the
\* file that follow the ones taken, unless a write went behind the buffer (jso_io_buffer_alloc
\* lets it) or the buffer was lost.
THEOREM UnreadAlwaysIntact == Spec => []UnreadIntact
<1>1. IndInv => UnreadIntact
  <2> SUFFICES ASSUME IndInv, ~Undefined PROVE UnreadIntact
    BY DEF UnreadIntact
  <2>1. Sound(io, pos, taken)
    BY DEF IndInv, Undefined, Broken
  <2>. QED  BY <2>1 DEF Sound, Unread, UnreadIntact
<1>. QED  BY <1>1, ReaderInvariance, PTL
=============================================================================
