-------------------------------- MODULE Uri --------------------------------
(* Base URIs and references of schemas (jso_schema_uri.c) on the strings of   *)
(* jso_string.h. A text is a sequence of characters; a name counts as one.    *)
(* jso_string_find_char_pos searches len bytes from the offset on, so behind  *)
(* the end when the offset is not 0: there is the terminating NUL, then       *)
(* whatever the memory holds, which is the variable behind.                   *)
EXTENDS Integers, Sequences

VARIABLE behind

NotFound == -1

\* The memory from the first character of a text on, and its first n characters.
Memory(text, n) == text \o <<"NUL">> \o [i \in 1..n |-> behind]
Prefix(text, n) == SubSeq(Memory(text, n), 1, n)

\* The position, from 0, of the first such character from the offset on.
FindChar(text, ch, offset) ==
    LET memory == Memory(text, offset)
        found == {i \in offset..(offset + Len(text) - 1) : memory[i + 1] = ch}
    IN  IF found = {} THEN NotFound ELSE CHOOSE i \in found : \A j \in found : i <= j

\* A zeroed jso_schema_uri: no text, and every position is 0.
NoUri == [has |-> FALSE, text |-> <<>>, host |-> 0, path |-> 0, frag |-> 0]

\* jso_schema_uri_parse_internal.
ParsedUri(text) ==
    LET colon == FindChar(text, ":", 0)
        hasHost == /\ colon > 0 /\ Len(text) > 4 /\ colon < Len(text) - 3
                   /\ text[colon + 2] = "/" /\ text[colon + 3] = "/"
        path == IF hasHost THEN FindChar(text, "/", 0) ELSE 0
    IN  [has  |-> TRUE, text |-> text,
         host |-> IF hasHost THEN colon + 3 ELSE NotFound,
         path |-> path,
         frag |-> FindChar(text, "#", path)]

\* How jso_schema_uri_set combines a URI with that of the parent value: it is kept, put
\* behind the first n characters of the parent's, or the process stops here.
Keep == [how |-> "keep", n |-> 0]
Behind(n) == [how |-> "merge", n |-> n]
Crash == [how |-> "crashed", n |-> 0]
Hang == [how |-> "hung", n |-> 0]

\* The search for the last slash begins at a slash again and again; of a NULL text the
\* length is read.
RelativeTo(parent) ==
    IF parent.path < 0 THEN Behind(Len(parent.text))
    ELSE IF ~parent.has THEN Crash
    ELSE IF FindChar(parent.text, "/", parent.path) # NotFound THEN Hang
    ELSE Behind(parent.path)

Combination(uri, parent) ==
    IF uri.host > 0 THEN Keep
    ELSE IF uri.frag = 0
    THEN Behind(IF parent.frag >= 0 THEN parent.frag ELSE Len(parent.text))
    ELSE IF uri.text # <<>> /\ uri.text[uri.path + 1] = "/"
    THEN Behind(IF parent.path >= 0 THEN parent.path ELSE Len(parent.text))
    ELSE RelativeTo(parent)

\* jso_schema_uri_merge.
Merged(uri, parent, n) == ParsedUri(Prefix(parent.text, n) \o uri.text)

\* jso_schema_uri_inherit.
Inherited(parent) == IF parent.has THEN [parent EXCEPT !.host = 0] ELSE NoUri

\* jso_string_prefix_equals. It also holds for a string and itself, of any n; the two here
\* are different ones, for the base URI and a reference come from two nodes of a document.
PrefixEquals(text1, text2, n) ==
    n <= Len(text1) /\ n <= Len(text2) /\ SubSeq(text1, 1, n) = SubSeq(text2, 1, n)

\* jso_schema_uri_base_equal.
PrefixLength(uri) == IF uri.frag > 0 THEN uri.frag ELSE Len(uri.text)
BaseEqual(base, uri) ==
    \/ uri.frag = 0
    \/ /\ base.frag # 0
       /\ PrefixLength(base) = PrefixLength(uri)
       /\ PrefixEquals(base.text, uri.text, PrefixLength(base))

\* The part behind the number sign (jso_string_substring), and whether there is one. With
\* the sign behind the end of the string the length of the part would be negative; that
\* is never asked, since BaseEqual needs a prefix of frag characters in the string.
HasFragment(uri) == uri.frag >= 0 /\ uri.frag + 1 # Len(uri.text)
Fragment(uri) == SubSeq(uri.text, uri.frag + 2, Len(uri.text))
=============================================================================
