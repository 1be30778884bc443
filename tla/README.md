# A verification development for jso

jso is a JSON parser, encoder and JSON schema validator in C. Its schema
validator is a *streaming* one: schemas are never evaluated recursively over an
instance. The events of an instance (object start, key, value, array append,
...) drive handlers that push schema values on a stack of positions, and
results travel from position to position on that stack. This directory models
that validator, the stack it is built on, the life of schemas and their
references, and the rest of the library around it: parser, hash table, builder, IO,
encoder, the conversion of doubles and the command line. The models are checked against what
the program promises. For every size are proved: the stack and its refinement of a stack of layers, the layers a
validation opens and removes and the results in them, the hash table, the buffer of a reader, who owns what in the parser,
the memory of values under the builder, and what the command line does with its arguments.

Paths are relative to the repository. Line numbers of every definition are in
`PROJECT.json` ("map").

## 1. Inventory

| Part | State | Operations | Hard behaviour | What makes it correct |
|---|---|---|---|---|
| validation stack (`schema/jso_schema_validation_stack.c`) | array of positions, `last_separator`, `depth` | push basic/composed/separator, forward and reverse layer iterators, layer removal, reset of a layer | iterators over one layer while others are opened, filled and removed above it; intrusive links kept in three redundant forms | the links describe the same layers; an iterator returns its layer and nothing else; lower layers come back untouched |
| stream and instance walk (`jso_schema_validation.c`, `..._stream.c`) | the stack, recursion of `validate_instance` | one handler per event | seven loops that share a stack and follow each other in a fixed order | every schema meets the value it is for; layers follow the nesting of the instance |
| composition and results (`..._composition.c`, `..._result.c`) | per position: result, final flag, reason, anyOf/oneOf/type flags | push of `allOf`/`anyOf`/`oneOf`/`not`/`$ref`/type children, propagation | children decide in any order, may be final, may clear the shared error | no failure lost, flags justified, final means final |
| objects and arrays (`..._object.c`, `..._array.c`) | a running count per position | key, pre-value, value; start, append, value | `propertyNames` and `contains` run loops of their own inside a handler, on layers they open and remove | the layer is right again afterwards; loops end; the verdict is right |
| scalars, strings, common (`..._scalar.c`, `..._string.c`, `..._common.c`, `..._value.c`) | none | checks of a value | boundaries, integers in doubles | the verdict is right |
| schema parser (`schema/jso_schema_value_parser.c`, `..._keyword*.c`, `..._data.c`, `..._value_init.c`) | the tree of schema values | one setter per keyword | what a schema without `type` or with a list of types turns into; the way out of every failure | the tree means what the document means; wrong documents are refused; nothing half made stays |
| schema values in memory (`..._value.c`, `..._freer.c`, `jso_schema_array.c`) | trees that share strings, arrays and values with the document, and targets through `$ref` | alloc, free | root, document and cache freed one after the other | freed once, used never after |
| references and URIs (`..._reference.c`, `..._uri.c`) | a cache of resolved references | parse, merge, resolve, copy, free | the cache is filled after the target was parsed; searches read behind the end of a string | a reference leads to the value of the node it names |
| error slot, entry points, version (`..._error.c`, `jso_schema.c`, `..._version.c`) | one error per schema | set, format, reset | all branches of a composition share the slot; its message may fail to be allocated | an error exactly when rejected |
| parser and hooks (`jso_parser.y`, `parser/`) | open containers, error, depth, hooks | one hook per event; with a schema each event also goes to the stream | two consumers of one event order, abort on the slot | built value and verdict agree |
| scanner (`jso_scanner.re`) | conditions and cursors | next token | escapes, UTF-8, limits | tokens are those of JSON |
| hash table, object (`jso_ht.c`, `jso_object.c`) | open addressing with tombstone-free insertion order | set, get, apply, free | probing ends only at a free slot | an ordered map |
| arrays, strings, values (`jso_array.c`, `jso_string.h`, `jso_value.*`) | reference counts | append, resize, ref, free | ownership across containers | counts are those of the references |
| builder (`jso_builder.c`) | chain of open containers, `current` | start, add, end, clear | a failure in the middle, and calls after it | the document of the calls; no cell used after it is gone |
| pointer (`pointer/`) | error | compile, search | index parsing, error paths | RFC 6901 |
| IO (`io/`) | a buffer and pointers into it | read, write, grow, rotate | pointers rebased after growth; reads of more than there is | bytes neither lost nor repeated |
| encoder (`jso_encoder.c`) | depth | one function per type | separators, escapes, writes that fail | the text reads back as the value |
| numbers (`jso_number.c`, `jso_dg_dtoa.c`) | free lists and cached powers of five | shortest digits of a double, and their text | digit estimates corrected once; margins shared or not | shortest and nearest; blocks neither lost nor freed twice |
| command line (`jso_cli.c`) | options, schema, result | options in order, read, parse, write | options act as they are met; early returns | a success is what was asked; what was made is freed |
| regular expressions, errors, debug output | (almost) none | | | |

The parts meet in three places. The parser calls the stream handlers for each
event, or `jso_schema_validate` walks a finished value with the same handlers
(`ValidationStream` models this walk, and `ParserSession` shows that the parser makes the same
calls). The handlers share the stack; each pushes
schema values produced by the schema parser and reads the results other
handlers wrote. All of them write the one error slot of the schema. Around this, a schema is
made from a document the client keeps or drops, and shares parts of it (`SchemaLife`); the
command line joins IO, parser, schema and encoder (`Cli`).

Everything is sequential: no threads, no callbacks from outside. The
interleavings that matter are between *loops over the same stack*: a handler's
iteration is suspended while a nested loop, or the walk of a nested value,
pushes and removes positions above it.

`PROJECT.json` lists the hazards at the lines where they bite and names the
properties that would catch each.

## 2. Modules

```
StackOps             the stack as a value: positions, push, separators, iterators
  ValidationStack    ... as a state machine with an arbitrary client and one iteration
    MCValidationStack
    ValidationStack_proofs   (with StackLemmas: what each operation preserves)
    ValidationStream_proofs  what each helper and each step does to the layers, and to the results
  SchemaOps          schema values, instances, checks, composition, propagation
    SchemaParse      from schema documents to schema values
      SchemaSemantics        reference: which instances a document accepts
    ValidationStream the walk of an instance: handlers and loops
      ValidationVerdict      = ValidationStream + SchemaSemantics: the promises
        MCValidation         families of documents and instances
LayerStack           abstract: a stack of layers (refined by ValidationStack)

HashTable            jso_ht.c: probing, growing, insertion order
  MCHashTable        four colliding keys
  HashTable_proofs
OrderedMap           abstract: a map in insertion order (refined by HashTable)

ParserSession        jso_parse_io: grammar, hooks, depth, error slot, ownership
  MCParserSession            documents, decoded values and walks to compare with
  ParserSession_proofs

Uri                  base URIs and references, on strings and what lies behind them
Pointer              JSON pointers into a document
SchemaMemory         blocks, reference counts, the freeers of schema values and keywords
  SchemaLife         = Uri + Pointer + SchemaMemory: parse, resolve, clear
    MCSchemaLife     documents right and wrong, what a reference means

Values               reference counted strings, arrays and objects
  Builder            a builder and a client that calls it in any order
    MCBuilder        the document read back from memory
    Builder_proofs
Document             abstract: a document growing at its innermost open container
                     (refined by Builder)

IOBuffer             the buffer of an IO and the read operation of a file
  IOSession          a reader: reads of any size, cursor moves, failed allocations
    IOSession_proofs
EncoderOutput        what is written: pieces, and how many of them are taken
  Encoder            the text of a value, piece by piece
  Cli                + IOBuffer: the command line, with the encoder as a parameter
    MCCli            = Cli + Encoder: values read back from text
    Cli_proofs

Bigint               the multiple precision naturals of jso_dg_dtoa.c and their blocks
  Dtoa               jso_dg_dtoa in mode 0, and jso_number_string_from_double
    MCDtoa           shortest digits, by independent arithmetic
```

**StackOps.** The C array is a sequence; a pointer to a position is its index
from 1 and `NULL` is 0, so `last_separator - positions + 1`, the code's
`layer_start`, is `last_separator + 1`. Each function of the API is an operator
from a stack to a stack. An iterator is the C structure: the forward one names
the position it returns next, the reverse one the position it returned last.

**ValidationStack.** The stack and one iteration. The client may do whatever the
program's handlers may: push on behalf of a live position, open a layer, remove
one, reset one, write a result, and start and advance an iteration meanwhile.
What the program never does is excluded in guards that carry the reason: the
iterated layer is not removed under its iterator, and a forward iteration is not
started on an empty layer. `base` and `seen` are history variables.

**SchemaOps, SchemaParse.** Data of the validator. A schema value is a record of
keywords; a document is a function from the keywords it has to their contents.
`Parse` is `jso_schema_value_parse`: a document without `type` becomes a MIXED
value with one typed subschema per type it has keywords of, a list of types
becomes a list of typed subschemas. A string is its length and a double counts
halves, so that `2.0` (an integer for the schema) and `2.5` are told apart.
Equality of instances is type-strict, as in `jso_value_equals`: `1` and `1.0`
differ in `enum` and `uniqueItems`; the reference definition says the same.

**ValidationStream.** The program is sequential, so `phase` is its program
counter: each iteration of each loop over the top layer is a step, and so is the
call that ends the loop. `frames` is the recursion of `validate_instance`,
`calls` the loops nested inside the validation of one position: `propertyNames`
in `object_key`, `contains` in `array_value`, which nests through
`validate_value`. `object_key`, for instance, is `ObjectKey` (push the
separator, start iterating the layer below), `ObjectKeyPosition` once per
position, and `ObjectKeyEnd`; when a position has `propertyNames` the loop is
interrupted by `NamesCheck`, `NamesValidate`, `NamesEnd`, `NamesReopen` and
`NamesResult`.

**SchemaSemantics** is the reference: a recursive definition of acceptance,
keyword by keyword, without schema values or stacks. It is written from what
jso says it supports (README.md:130-160, JSON schema draft 6) and from its integration
tests, never from the validator.

**LayerStack** says what the stack is for: a stack of layers, each a sequence of
entries; entries join the top layer only; closing a layer gives back exactly what
was below. Depth, separators and layer starts do not occur. `ValidationStack`
refines it (`ImplementsLayerStack`): the mapping computes the layers from the
`depth` field, while the code acts by separators, so the refinement also says
that the two agree.

**HashTable.** `table` is `jso_ht`, slots counted from 0 and a pointer to an entry
its slot. `jso_ht_find_entry` is a single operator: the least number of steps after
which a probe is at a free slot or at the key, and no result when there is none, where
the program would go round for ever. `jso_ht_adjust_capacity` is not: `move` holds its
locals, `StartMove` allocates, each `MoveEntry` is one turn of its loop and `MoveEnd`
the assignments after it; `pending` is the entry of the `jso_ht_set` it works for,
inserted by `SetGrown`. So the invariants speak of the half-filled block as well.
`order`, the slots in the order they were linked, is history. `get`, `has` and the
C-string variants of both are `Lookup`; `jso_ht_clone` is `resize` and a sequence of sets. A growth
whose allocation fails returns before it has changed anything and is no step.

**OrderedMap** is what the users of the table see: a known key keeps its place and
changes its value, a new one goes last, clearing forgets all.

**ParserSession.** One call of `jso_parse_io`. The text is any sequence of tokens, read one
at a time; `Acceptable` is the column of the parser's tables the next token is looked up in.
Every reduction of this grammar is one bison takes by default, without a lookahead, so the
stack of symbols determines the parser's state and a lookahead exists only when it is refused.
One action per rule, with its hooks in their order: `FirstElement` is `element: value`, that is
`array_create` and then `array_append`. The three sets of hooks differ as the code's do:
`decode` has only create, append and update; `schema` calls the validation stream first
(`StreamCall`: the stream may set or clear the error of the schema, or fail for want of memory,
which is all `ValidationStream` leaves open); `validate` keeps no containers. A value carries
the identifiers of the allocations it owns. `YYERROR` (`Raises`) drops the symbols of its own
rule without destructors; `Unwind` destructs the others, then the refused token. An error
object comes from `malloc` and its `schema_error` is not set, so its destructor may do anything:
the model lets the program end there ("crashed"). A schema may come with an error left by an
earlier call, and the parser does not reset it (`Init`).

`MCParserSession` enumerates the JSON documents of bounded length from a definition of its own
(not from the grammar's tables) and derives from each its tokens, its nesting, the value decoded
from it and the calls `jso_schema_validate_instance` makes for that value.

**Uri, Pointer, SchemaMemory, SchemaLife.** `jso_schema_parse_ex` on a document, then
`jso_schema_clear` and the release of the document, in either order. A document is a sequence of
nodes, so that "the node a reference means" can be said. `frames` is the recursion of the parser, one
record per C call with its locals; every allocation is a choice, and a failed one takes the way out
the code has there. A block of `SchemaMemory` counts its references like the C structure; a keyword
holds a block, or (`default`) a pointer to a value inside the document's memory, which is
what goes stale when the document goes first. `version` covers `$schema` and the default
version, so drafts 4 and 6 differ. `Uri` searches like
`jso_string_find_char_pos`, `len` bytes from an offset on, which reads behind the end: the byte there is
the variable `behind`. A recursion deeper than the C stack ends in the phase "crashed", the search
that does not advance in "hung". Of keywords that are treated alike one or two are modelled (`minLength` for
the counts, and so on): what is in question is the shape of the data, not its name.

**Values, Builder, Document.** A heap of cells with `jso_uint16` counts of few bits. `Builder` has one
action per kind of call of `jso_builder.h`, with the client's own values among the arguments, and a client
that goes on after failures, as the API lets it. The calls do not ask whether their strings were allocated: a value is stored
with NULL (`ArrayAddNoString`, `ObjectAddNoString`), a key is looked at, which ends the process, unless the table cannot grow
and the call returns before (`ObjectAddNoKey`, `ObjectAddStartNoKey`). `jso_value_free` is a cascade of frees in C. What it leaves does not
depend on their order, so `FreeValue` says it without one: the cells that go are the least set closed under
"more references to it were freed than it counts" (`Going`). On every heap of three cells this was compared with the recursion
of the C functions. `Document` says what is promised without memory:
an item is added at the innermost open container or refused. `MCBuilder` reads the document back
from the cells and checks that each call is a step of it or none.

**IOBuffer, IOSession.** Pointers are distances from the start of the buffer, a byte is its place in
the file. `BufferAlloc` keeps the order of the code: room at the end, rotation when more than half was read, growth, with
the test for room as it is written (`jso_io.c:150`), so bytes may go behind the buffer; from then on
(`overrun`) nothing is claimed.

**Encoder, Cli.** The encoder gives the pieces it writes, and an output takes only so many. A character is its own name, and
SOH stands for the control characters without a short escape; a double is the text `%.17g` makes of it, which may be that
of an integer. The reader in `MCCli` takes the tokens of the scanner as they are: `INT` with zeros in front, `FLOAT` with
nothing but 0 or a number without one behind the point. `Cli`
takes one argument per step, because options act in order: `--schema` reads and
compiles under the depth met so far. The answer of the parser is an operator of the document, since
`ParserSession` has a run of its own. The encoder and the nesting of a value recurse over the value; they are constants of
`Cli` (`Encoded`, `Nesting`), which `MCCli` gives `Encode` and its own `MCNesting`. `live` is what was allocated, each with the argument it was made for.

**Bigint, Dtoa.** `jso_dg_dtoa` in mode 0 with `Bigint`'s limbs of W bits and exponent and fraction of any
width: the quick way for small integers, the estimate of the
decimal exponent, the scaling by cached powers of five, `quorem`, the digit loop with its two
margins, round-off, trailing zeros. Blocks come from and go to free lists (`live`), so a margin freed twice is seen.
The parts of the function are the steps, a digit one step; the operations on naturals are operators. `NumberString` writes the
text into `TextRoom` characters (128 in the code) without asking for room; behind them the model stops ("overrun").

## 3. Runs

| Run | Question | Bounds |
|---|---|---|
| `stack` | Are the links exact, does an iteration return its layer exactly once and in order, do lower layers stay, for every sequence of operations? | stack of at most 4 positions (three layers with a position between, or an iteration with a layer opened and filled above it), one schema value, one composition type |
| `walk` | Does the streaming validator give the verdict of the semantics, with the error slot, the flags and the stack as promised? | all pairs within each of three families: compositions of two levels of 6 leaf schemas over 6 scalars; object schemas (alone, composed, nested) over objects of up to two members and one level of nesting; array schemas (alone, nested, under allOf) over arrays of up to two items, nested and inside objects |
| `contains` | Does the contains loop find an accepted item, and end? | 6 leaf forms, nested in items, allOf and contains; arrays of up to two items, nested once |
| `hash_table` | Does every probe end and find its entry, is the table a map in insertion order, for every sequence of sets, resizes and clears? | 4 keys, of which three collide in some of the blocks, 2 values, blocks of up to 14 slots: four growths in a row by sets alone, and any by `resize` to 1, 3 or 5 |
| `parser` | Is exactly every document accepted and decoded as it is, does a schema see the calls of `jso_schema_validate`, does every value have one owner, whatever the text? | texts of up to 9 tokens and a nesting of 2: an object of two members, equal names included, or an array of four items; two strings and a scalar; no depth limit, or 1; all hooks; one failed allocation |
| `references` | Do the references of a schema resolve to what they mean or get refused, what is used after it is freed and what is left, whatever fails and whoever drops the document first? | documents with every kind of keyword, right and wrong, references to the root, into definitions and arrays, to themselves, to and through scalars and to nothing, a default at the root, in the target of a reference and below it; drafts 4 and 6 and no default; two failed allocations; 13 C calls |
| `builder` | Does the memory of values survive every sequence of builder calls, and is the document the one of the calls? | 4 cells (3 once some are lost), one call that runs out of memory, nesting and containers of 2, one value held by the client: enough for a value in two places, a replaced member, a failure with the level above still open. Counts do not reach the width of `jso_uint16` |
| `io` | Are the bytes between cursor and limit those of the file, in order, after any reads, moves and failures? | a file of 5 bytes, reads of up to 8, a buffer of up to 20: growth by doubling and by size, rotation, and the end of the file inside a read |
| `cli` | What does success mean, which output reads back and as what, what is left allocated, and does the program end? | up to three of 21 arguments (every option, with its value missing, wrong and repeated); files that can be read, in part, not at all, and an empty one; documents of every type, doubles written like integers and cut by the scanner, control characters with and without an escape, output with room for everything or for two pieces |
| `numbers` | Are the digits of a double the shortest and nearest that read back, and its text a JSON number for them? Are the blocks sound? | a format of 13 bits of precision and 62 biased exponents with limbs of 10 bits: 23 of them, among them those of the subnormal, the smallest, the largest and no numbers and of both sides of the quick way; 27 fractions, with powers of two, their neighbours, and long carries; 11 characters for a text, too few at both ends of the format, as 128 are for a double |
| `array_flags` | finding 1 | |
| `relative_uri` | finding 2 | |

The bounds suffice to make every interesting case happen: every action and
every disjunct of the next-state relation fires, and for each property a mutant of a
mapped definition (beside it in the module, marked "Mutant") is a plausible
programming error that the same run refutes: a reset left out, a layer left open, an iterator that does
not stop at its separator, a propagation to a final parent, a link of the
separators not set, one margin of two freed, a count not looked at before a release, and so on.

Two items or members are needed to see order and counts; two levels of
composition to see a result travel through a position that is itself a branch;
one level of nesting to see a handler continue in its layer after the layers of
a member were opened and removed. Each validation is deterministic, so the
number of states is the sum over (document, instance) pairs, about 150,000 in `walk`.

The small format of `numbers` keeps every inequality between its parameters that the code
relies on (a power of ten up to `TenPmax` and an integer below `10^(IntMax+1)` are exact, `quorem` has a
digit's worth of bits in the top limb); these are the assumptions of `Bigint` and `Dtoa`, which TLC evaluates.
The reference computes in base 10^4 and shares no operator with the algorithm.

The operators of the validator were also compared with the compiled program: over 12,000
random pairs of schema and instance were run through both, and verdict and error
type agreed on all of them, including the pairs on which the program is wrong.

### Properties

Stack (`ValidationStack`): `StackInv` relates the redundant links (the chain of separators,
layer starts, parents, depth); `IteratorInLayer` and `IterationExact`
say what iterations return; `LowerLayersStable` that below the top layer
nothing but a result is written; `ImplementsLayerStack`.

Stream (`ValidationStream`, `ValidationVerdict`): `LayersBalanced` (the links are exact and depth is
a function of the nesting and the phase),
`HandlerInLayer` (a suspended iteration goes on in the layer of its value),
`NoFailureLost`, `FinalStable`, `FlagsJustified`, `VerdictExact`,
`AcceptedClean`, `Termination`.

Hash table (`HashTable`): `ListExact` and `EntriesFound` relate links, slots and count;
`ProbesEnd` is what follows for callers; `ImplementsOrderedMap`, `GrowthEnds`. `LoadBound`, `MoveExact` and
`LookupExact` are proved and have no run of their own.

Parser (`ParserSession`, `MCParserSession`): `OwnedOnce` and `NothingLost` say who owns what,
also half way through a text that turns out wrong; `ErrorMoved` that the
schema's error ends up in one place; `VerdictExact`, `DecodedExact` and `CallsAreTheWalk`
compare the answer, the value and the calls of the stream with the reference.
`CallsAreTheWalk` is what makes the results about `ValidationStream` results about parsing with
a schema, with one difference: the parser decides by the error slot and never asks for the
stream's final result, so an instance that is rejected without an error (4.6 below) is accepted.

Schemas in memory (`SchemaLife`, `MCSchemaLife`): `NoStaleUse` and `NothingLeft` over all failures and both
orders of release. `NoStaleUse` is a property of steps: the one that uses something after it was freed is clearing a schema
whose cache leads to a default when the client has no document any more (4.3), and in that case it always does.
`VerdictExact` says that exactly the valid documents are parsed and each reference leads to
the value made of the node it names, with recursion that ends in a crash named as such. It is
restricted to runs without failed allocations, and to memory where no `#` lies behind a URI.

Builder (`Builder`, `MCBuilder`): `NoDangling`, `CountsExact`, `BuildsDocument`.

IO and command line (`IOSession`, `Cli`, `MCCli`): `UnreadIntact`; `SuccessAsAsked` reads the arguments by their places, not in
their order as the code does; `OutputReadsBack` reads the text with a reader of its own and says of every value whether it reads back
(not with a raw control character or a number cut by the scanner) and as what (a double written like an integer as an integer); `ReleasedAtEnd`
names what is left and why; `Ends`.

Doubles (`Dtoa`, `MCDtoa`): `BlocksSound`, `QuoremBounds`, `ShortestDigits`, `TextExact`. The last says that the text denotes
the digits where it fits its characters, and where the point is when it does not.

### Fairness

`FairSpec` adds `WF_vars(Next)`: the validator is one synchronous call that never
waits, so it takes a step whenever it has one. `Termination` is checked under it,
for `contains`, where a loop over items inside the reverse iteration nests
recursively. `HashTable` asks for `WF_vars(MoveEntry \/ MoveEnd \/ SetGrown)` only: these are the
statements of one synchronous call, while nobody has to call set, resize or clear. `GrowthEnds`
is checked under it. `Cli` has `WF_vars(Next)`: a program that waits for nobody, reading files that are
there; `Ends` is checked under it. All other properties need no fairness. What has ended
stutters (`Done`), so deadlock is checked in every run.

## 4. What the program does not keep

Families of schemas outside those of `walk` and `contains`, and documents outside those of `references`, are
the ones where a promise fails. Two have a run that shows it, and of items 3 to 5 a property
of a passing run says exactly in which cases the promise fails:

1. **`array_start` propagates before anything was validated** (`array_flags`,
   `jso_schema_validation_stream.c:158`). Branches of `anyOf` and `oneOf` that are
   arrays count as valid before their items are seen: `anyOf` of array schemas
   accepts when no branch holds, `oneOf` rejects when one does. For the same reason a
   `$ref` to an array schema can end VALID with an error in the slot, and `NoFailureLost` is proved without `$ref` only.
2. **A relative URI below a base with a path hangs** (`relative_uri`, `jso_schema_uri.c:107`): the search for
   the last `/` starts again at the one it has found.
3. **A default behind a reference outlives its document** (`NoStaleUse` of `references`, `jso_schema.c:84`): `default` is a pointer into
   the document, and `jso_schema_clear` releases root, document and cache in this order. What the root has is freed while the
   schema still holds the document; a value the cache holds comes after it. If the client has freed its document before,
   as the tests of draft 6 and the command line do, the default is gone when the cache frees it.
4. **The text of a double may be longer than its buffer** (`TextExact` of `numbers`, `jso_number.c:66`): `jso_number_string` has 128
   characters, of which `jso_number.h:37` says they "might be too much for mode 0", and the zeros of a number like
   1e200 or 1e-200 are written one by one behind them. `TextExact` says for which exponents there is room:
   in the code, a decimal point between 107 places before the digits and 126 behind their start.
5. **What is written need not be JSON** (`OutputReadsBack` of `cli`, `jso_encoder.c:187`): a control character made by a `\u` escape and
   without a short one is written as it is, and the scanner refuses it. For the same reason of two halves that do not
   know of each other, 1.0 is written `1` and comes back as an integer, and 1.05 is refused, because the scanner's
   `FLOAT` ends after the 0 behind the point (`jso_scanner.re:137`); `OutputReadsBack` says exactly which values come back, and as what.

The others were met while modelling, and the models have the behaviour. In the validator:

6. Satisfied compositions clear the error slot of other branches
   (`jso_schema_validation_common.c:43`): a rejected instance without an error.
7. `true` rejects objects and arrays (`jso_schema_validation_stream.c:76`).
8. `propertyNames` with alternatives, or beside other schemas of the object, is
   not enforced, and can drop the schemas of a member's value
   (`jso_schema_validation_object.c:86`).
9. `dependencies` apply whether or not the key is there
   (`jso_schema_validation_object.c:227`).
10. `contains` about the insides of an item, or two levels of composition deep, accepts
   items its schema refuses (`jso_schema_validation_array.c:215`).
11. A refused item makes the array's position under `contains` final and INVALID, and a later accepted one
   overwrites that with VALID. The verdict is right; the comment "whether the validation result is
   final" (`jso_schema.h:1256`) is not. So `FinalStable` leaves that one
   store out.
12. A number keyword with a fraction (`{"minimum": 1.5}`) in a document
   without `type` is refused, because the typed subschema for integers parses it too.

In the life of schemas:

13. A reference that reaches itself recurses until the C stack ends (`jso_schema_reference.c:125`).
14. The typed subschemas of a schema without `type` have no base URI, so absolute references to the own document
    are refused below their properties; a `#` that happens to lie behind the string of a URI makes a local reference
    external (`jso_string.h:289`).
15. A failed allocation of a token truncates a pointer without an error (`jso_pointer.c:119`), and that of a token with `~0` or `~1`
    is written to (`jso_pointer.c:38`); one of an error
    message makes a refused keyword silently absent; one of a value's data is followed by a NULL access
    (`jso_schema_value_init.c:44`), and so is the unchecked one of a schema array (`jso_schema_array.c:33`).
16. A failed `$id` or `$ref` loses the value (`jso_schema_value_init.c:72`), an invalid list of dependencies its container
    (`jso_schema_keyword_object.c:112`). A failure to set the version is answered with success.
17. An assertion calls the function it tests (`jso_schema_value_parser.c:291`), so a build with `NDEBUG` has no typed subschemas.

Elsewhere:

18. The value of a repeated name is lost (`jso_ht.c:175`): `jso_object_add` asks `jso_ht_set`
    to free the old value, as `jso_ht.h:158` documents it, and only the old key is freed.
19. The test for room in an IO is inverted (`jso_io.c:150`), so bytes are written behind a buffer that is too small.
20. A builder whose container cannot be made stays one level deeper than it is; a failed add loses the key. A string that is not
    allocated is added as a value without one, with success, and as a key it is looked at (`jso_builder.c:258`, `jso_ht.c:165`).
21. The command line dumps and frees a result it has not set when the file cannot be read (`jso_cli.c:182`), loses the io
    of a file that is refused and a schema that another replaces.
22. `jso_encode` does not look at what its writes return, and leaves a double without a text (infinity) out; the smallest
    integer is negated in its own width (`jso_encoder.c:105`).
23. The length of a converted number is taken of the empty destination and is always 0 (`jso_number.c:94`).
24. An error made of a schema's error writes through a NULL when it cannot be allocated, and an error's `schema_error` is
    not initialised (`jso_error.c:36`).

## 5. Proofs

`ValidationStack_proofs` proves for **every** set of schema values, composition
types and size bound, from the assumptions `ValuesAssumption` (a sentinel's value is
none of them), `CompsAssumption` and `MaxSizeAssumption`:

| Theorem | Statement |
|---|---|
| `Invariance` | `Spec => []IndInv` |
| `TypeCorrect` | `Spec => []TypeOK` |
| `StackExactness` | `Spec => []StackInv`, that is `SeparatorChain`, `LayerStartExact`, `ParentsLive`, `DepthExact` |
| `IteratorStaysInLayer` | `Spec => []IteratorInLayer` |
| `IterationsExact` | `Spec => IterationExact` |
| `LowerLayersAlwaysStable` | `Spec => LowerLayersStable` |
| `StackImplementsLayers` | `Spec => ImplementsLayerStack` |

The inductive invariant is `IndInv == TypeOK /\ StackInv /\ IteratorInLayer`.
`IteratorInLayer` alone is not inductive: removing a layer cuts the stack at
`last_separator` and takes the new `last_separator` from a field of the removed
separator; that the cut is above the iterated layer follows only when every
separator's `parent` is exactly the separator below it (`SeparatorChain`). A new
iteration starts at the `layer_start` of the top position, which must be
`last_separator + 1` (`LayerStartExact`). `DepthExact` needs the chain for the
same reason: one layer removed must be one separator fewer.

`StackLemmas` states what each operator of `StackOps` does to a well-formed
stack (type, chain, layer starts, parents, depth) once, with `ASSUME ... PROVE`;
the proofs module has one lemma per action and its effect on the iterator
(`GrownKeepsIterator`, `RemoveLayerKeepsIterator`, ...), and the theorems combine them. TLC checks
`StackInv` and `IteratorInLayer` as invariants of `stack`.

For the refinement of `LayerStack` the layers must be told from the `depth` field alone. By `DepthsExact` and
`LayerStartsExact` the positions of a depth are the run between two separators, so `EntriesAt` of a lower depth reads positions
no push or removal touches, and of the top depth exactly the positions from `last_separator + 1` on. Each operation is then one
step of `LayerStack`: pushing appends to the last layer, `PushSeparator` adds an empty one, `LayerRemove` drops the last.

`HashTable_proofs` proves for **every** set of keys and values, every hash function and
every number of slots, from `KeysAssumption` (the key and value of a free slot are none of
them), `HashAssumption` and `SizesAssumption`:

| Theorem | Statement |
|---|---|
| `IndInvHolds` | `Spec => []IndInv` |
| `TypeCorrect`, `ListAlwaysExact`, `EntriesAlwaysFound`, `LoadBounded`, `MovesExact` | its five parts |
| `ProbesAlwaysEnd` | `Spec => []ProbesEnd` |
| `LookupsExact` | `Spec => []LookupExact` |
| `TableImplementsMap` | `Spec => ImplementsOrderedMap` |

Here `IndInv == TypeOK /\ ListExact /\ EntriesFound /\ LoadBound /\ MoveExact`. The argument: by
`LoadBound` the list is shorter than the block, so a slot is free (`FreeSlot`); a probe over all
slots comes by every slot (`ProbeReaches`, arithmetic of remainders), so it ends (`ProbeEnds`).
Filling the slot where it ended hides no entry, since a probe that used to pass that slot
stopped earlier or stops where it did (`FillKeepsFindable`), and linking it keeps the list exact
(`AppendKeepsBlock`). A growth needs `MoveExact`: were the key of the entry to be moved in the new
block already, the old block would have had it twice, against `EntriesFound` (`MovedKeyIsNew`).
None of the five is inductive without the others.

`IOSession_proofs` proves for **every** file, every size read and every bound on the buffer, from `ReaderAssumption`:

| Theorem | Statement |
|---|---|
| `ReaderInvariance` | `Spec => []IndInv` |
| `UnreadAlwaysIntact` | `Spec => []UnreadIntact` |

`UnreadIntact` is not inductive: a read asks the file for `size - buffered` bytes, which must not be negative, and an
extension to twice the size must not be shorter than the block. So `IndInv` adds that never more is buffered than `size`
(though the limit itself may be `size + 1`, since a fresh block has one byte more) and that a block is at most one byte longer
than `size`. There is one lemma per function of the buffer (`NewSound`, `ExtendSound`, `RotateSound`, `AllocSound`, `StoreSound`,
`ReadSound`) and one for the scanner (`AdvanceSound`). Nothing is said once a byte was written behind the buffer (4.19) or a
`realloc` lost it: the theorem is about the reads before that.

`ParserSession_proofs` proves for **every** text, of any length and nesting, every depth limit and any failed allocations,
from `NamesAssumption` (a name is no punctuation of the grammar):

| Theorem | Statement |
|---|---|
| `Invariance` | `Spec => []IndInv` |
| `OwnedAlwaysOnce` | `Spec => []OwnedOnce` |
| `NothingEverLost` | `Spec => []NothingLost` |
| `ErrorAlwaysMoved` | `Spec => []ErrorMoved` |

`OwnedOnce` is not inductive. A reduction reads the symbols below the top of the stack and frees or moves what they own, so the
invariant says what the grammar leaves below each symbol (`Follows`) and which kinds of symbols own something (`Contents`). A repeated
name replaces a member, whose value stays lost and whose key is freed: for that the members of an object being read must own disjoint
parts of its memory and have different names (`MembersApart`). `Divided` shares the memory out between stack, refused
token, result, caller and allocator, and `PhaseExact` says in which phase which of them may have something.

`ValidationStream_proofs` proves for **every** schema and instance, of any size and nesting, from `SchemasAssumption` (schema values
refer to schema values) and `JobsAssumption` (the root of a validation is one):

| Theorem | Statement |
|---|---|
| `Invariance` | `Spec => []WalkInv` |
| `LayersAlwaysBalanced` | `Spec => []LayersBalanced` |
| `HandlerAlwaysInLayer` | `Spec => []HandlerInLayer` |

Neither is inductive. That the layer a handler removes is the one its caller expects, and that the iteration the caller goes on
with is in the layer below, depends on where each suspended loop stands. So `Consistent`, the inductive part of `WalkInv`, gives for each phase the
level (the number of separators below a position) at which each iterator and each position of a call is: the walk's iterator at the
number of containers around the value, the k-th suspended loop at k - 1 more; a reverse iterator starts in the layer just
above its separator; no loop over a fresh layer starts before a position is there. The
lemmas before the steps sort what handlers do into two kinds: those that write results and push positions in the top layer (`Grown`: every
level below keeps its positions) and those that open, remove or reset a layer. Of the schema only its lists are
used, so the recursion of the data does not matter.

The second half of the module proves, for every schema and instance and from the same assumptions:

| Theorem | Statement |
|---|---|
| `ResultsAlwaysTidy` | `Spec => []ResultInv` |
| `FinalAlwaysStable` | `Spec => FinalStable` |
| `NoFailureEverLost` | `~ References => (Spec => NoFailureLost)`, where `References` says that some schema has a `$ref` |

Most writes ask whether a result is final before they store one; two do not: the judgement of a name, after other positions
have been judged, and the check of composition, which stores VALID over whatever is there. That these meet no final VALID depends on when
they run. `ResultInv` says so: in the phases in which a handler still fills or composes the top layer no result of that layer is final
(`TopOpen`), and the position a name is judged for is never final and VALID. `Tidy` adds that a result is VALID or INVALID
and that a composed position is in the layer of its parent, so that what composition makes final is never below the top layer.
What a helper may do is stated once (`Worked`: which positions it writes, which it pushes, and that final stays) and composed
(`WorkedTransitive`); a step then does `Later` to the results: a final one that stays in place stays what it is.

`NoFailureLost` needs to know what the loop that judges a layer from its top down has done so far. `LossInv` says: no result is final
and VALID below the iterator or below the layer of the value (so that a refused child finds its parent open); the refused positions
the iterator has passed have made their parents final and INVALID (`Told`); and while `contains` runs for one of them, none of its
children is refused and everything above the layer has its parents above the layer too, or that position (`Held`), so that the
loops inside, however deep, write nothing else in it (`DeepStep`). With `$ref` the first part fails (4.1), and so does the property:
TLC has a counterexample with a reference to an array.

`Builder_proofs` proves for **every** number of cells, levels, items and held values, every set of texts and scalars and every
failed allocation (that of a key ends the process, or the call returns before it looks at it), from `ValuesAssumption` and `BuilderAssumption`:

| Theorem | Statement |
|---|---|
| `Inductive` | `ASSUME MaxHeld < RefWidth PROVE IInv /\ [Next]_vars => IInv'` |
| `NeverDangling` | `ASSUME MaxHeld < RefWidth PROVE Spec => []NoDangling` |
| `ExactlyCounted` | `ASSUME MaxHeld < RefWidth PROVE Spec => []CountsExact` |

The hypothesis says that the client owns fewer references than a count can hold; that bound is the client's to keep, since
`jso_array_copy` and its like only increment a `jso_uint16` (`jso_array.h:209`).
Neither property is inductive. `NoDangling` says that nothing was freed too often, and whether the next free is
one too many depends on the counts; `CountsExact` allows counts that are too high once a call has lost a reference, and
then a level of the builder may hold a container it has no reference to. So `IInv` is about two tallies. `Fits` and `Exact`
compare the counts with all references there are: of items, of the client, of the root. `Guards` says why a level is safe: there is a set `A` of
containers, among them those of all levels, such that the references to each from outside of `A`, counted with those the client may free, do not
exceed its count, so `A` is outside of every least closed set the client can start. The third part is that no count is
more than what the client has. The lemmas go up in four layers: how `Uses` changes when an item is appended, replaced or
dropped (`UsesAppend`, `UsesReplace`, `UsesSplit`); what allocating, changing one cell and freeing do to heap, tallies and guards
(`NewCounts`, `ChangedCounts`, `FreedCounts`, `FreedGuards`); the same as one invariant of the memory (`MemoryNew`, `MemoryAppend`,
`MemoryAdd`, `MemoryFree`, `MemoryCopy`); and one lemma per call of the API.

`Cli_proofs` proves for **any** arguments, in any number and order, any files, documents and outputs, from `CliAssumption` (a
file gives at most what `stat` said), `ArgsAssumption` (no argument is the name that stands for a NULL pointer) and
`DocumentsAssumption` (no text holds the value that stands for one never set):

| Theorem | Statement |
|---|---|
| `Invariance` | `Spec => []IndInv` |
| `AlwaysAsAsked` | `Spec => []SuccessAsAsked` |
| `AlwaysReleased` | `Spec => []ReleasedAtEnd` |

`SuccessAsAsked` and `ReleasedAtEnd` speak of the end only. `IndInv` says for every moment that the options as the loop has them are those of the
places of the arguments (`FileNamed`, `OutputAsked`, `DepthAsked`, `SchemaAsked`), that a file that was parsed was parsed under
them (`PhaseExact`), and to whom every allocation belongs (`LiveKnown`). A word read by its place belongs to the option before it, so
an argument taken later must not change what an earlier one means: between two steps the last argument never waits for the next
(`Settled`), and then the places of an option grow by the new one only (`GivenGrows`, `OperandsGrow`). A schema is numbered by the place where its option
ends, so that `EndsOption` finds for each one left behind the later option that replaced it. The invariant is not claimed once an
argument or a schema file ended the process, or a result that was not set was used (4.21).

Only model-checked:

- `VerdictExact`, `AcceptedClean` and `FlagsJustified` of `ValidationVerdict`: the reference is a recursive definition over
  instances, and what it says for every instance needs induction over data.
- `NoFailureLost` of `ValidationStream` for schemas with `$ref`: `walk` has references to schemas that are not arrays.
- `SchemaLife`: the recursion of its parser is a stack of records with the locals of each C call, its freeing follows the
  keywords of a value recursively, and `NoStaleUse` and `NothingLeft` hold for what both leave together.
- `BuildsDocument` of the builder and `OutputReadsBack` of the command line: the document read back from memory and the
  text and its reader are defined by recursion over values.
- Doubles, where `Bigint` folds over limbs: what a fold computes for every length needs induction.
- The answer and the value of the parser (`VerdictExact`, `DecodedExact`, `CallsAreTheWalk`), defined by
  recursion over the text.
- `Termination`, `GrowthEnds` and `Ends`: the prover handles no liveness.

## 6. Not modelled

- Growth of the validation stack by `realloc`, which may move what other positions point to, and failed allocations
  in the validator, the only source of the result ERROR in drafts 4 and 6.
- `stack_pop` and `stack_reset`, which nothing calls, and `mark`, which only the latter reads.
- The width of `jso_int` and large doubles in the validator, the text of messages.
- In the verdict of instances: documents that are malformed, the differences of draft 4 except its
  exclusive limits, and references that reach themselves (`$ref` stands for its resolved target); `SchemaLife` has
  these, but validates nothing.
- In `SchemaLife`, documents whose nodes share a string: then a base URI and a reference could be the same object.
- Failed allocations of the objects for the standard streams of the command line (`jso_io_file.c:108`).
- In `SchemaLife`: the types integer, number and boolean and all keywords like one that is modelled; keys of objects.
- How a key is compared with a C string; `pop`, `resize` and comparison by callback of arrays.
- The characters of tokens, and bison's own limit on its stack, beyond which a text nested too
  deep is a syntax error also with `max_depth` 0.
- What becomes of the memory a failed allocation leaves behind in the parser: `NothingLost` is about calls in which
  none failed. With the hooks of validation every string inside a container is lost.
- IO in memory and on strings, the formatted writes, a read that fails in the file system.
- `strtod`, and the modes of `jso_dg_dtoa` with a given number of digits, which nothing calls; of `jso_number.c` the rest.
- PCRE2, the allocator, `fread`: external, modelled as they are used.

## 7. Plan

The modules of section 2 are written and checked. What is left, in order of weight:

1. `StackMemory`: growth of the stack by `realloc`, pointers into the old block, failed
   allocations; `ERROR` results in the stream.
2. The scanner's conditions (escapes, UTF-16 surrogates), and the integer widths of the number keywords.
3. Theorems: `NoStaleUse` of `SchemaLife`, once freeing is written as the least closed set, as in `Values`.
