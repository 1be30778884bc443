---------------------------- MODULE ParserSession ----------------------------
(***************************************************************************)
(* One call of jso_parse_io: the parser of src/jso_parser.y with the hooks *)
(* of src/parser/, the depth limit, the error slot of the schema, and who  *)
(* owns the memory of the values meanwhile.                                *)
(*                                                                         *)
(* The parser is the one bison makes of the grammar.  Every reduction of   *)
(* it is taken without looking at the next token, so there is a lookahead  *)
(* only when a token is refused.  A reduction is a step, with every hook   *)
(* it calls.  A symbol on the parser's stack stands for its grammar symbol *)
(* and for what its semantic value owns:                                   *)
(*   ids    the allocated strings, arrays, objects and errors              *)
(*   key    the string of a pair's or key's name among them                *)
(*   name   what that string says                                          *)
(*   tree   the value read                                                 *)
(*   items  the members of an object being read: their names, keys, values *)
(*          and what the values own                                        *)
(* "[@" and "{@" are the brackets after their mid-rule action.             *)
(*                                                                         *)
(* The text is any sequence of tokens.  The stack of bison is unlimited.   *)
(***************************************************************************)
EXTENDS Integers, FiniteSets, Sequences, SequencesExt

CONSTANTS
  Names,        \* what a string token says
  Depths,       \* values of options->max_depth
  Modes,        \* the hooks: "decode", "validate", "schema"
  MaxTokens,    \* bound on the length of the text
  MaxNesting,   \* bound on the nesting of the text
  MaxFailures   \* bound on the number of failed allocations

VARIABLES
  options,      \* the mode and max_depth
  input,        \* the tokens read so far
  stack, lookahead, depth,
  result,       \* parser.result
  slot,         \* whether the error of the schema is set
  calls,        \* the calls of the validation stream so far
  heap,         \* [next : the next identifier, freed, failures]
  replaced,     \* history: what the replaced values of objects owned
  phase,
  answer        \* what jso_parse_io returns

vars == <<options, input, stack, lookahead, depth, result, slot, calls, heap,
          replaced, phase, answer>>

Punctuation == {"[", "]", "{", "}", ",", ":"}

ASSUME NamesAssumption ==
  Names \cap (Punctuation \cup {"SCALAR", "EOI", "ERROR", "ENOMEM"}) = {}
ASSUME DepthsAssumption == Depths \subseteq Nat
ASSUME ModesAssumption == Modes \subseteq {"decode", "validate", "schema"}
ASSUME BoundsAssumption == {MaxTokens, MaxNesting, MaxFailures} \subseteq Nat

(***************************************************************************)
(* Values and symbols.                                                     *)
(***************************************************************************)
Scalar(token) == [type |-> token, items |-> <<>>]
NoValue == [type |-> "NULL", items |-> <<>>]

NoKey == 0

Symbol(sym, ids, tree) ==
  [sym |-> sym, ids |-> ids, key |-> NoKey, name |-> "", tree |-> tree,
   items |-> <<>>]

SymbolIds(symbol) == symbol.ids \cup ({symbol.key} \ {NoKey})

Bare(sym) == Symbol(sym, {}, NoValue)
NoSymbol == Bare("none")

Result(kind, ids, tree) == [kind |-> kind, ids |-> ids, tree |-> tree]
Unset == Result("UNSET", {}, NoValue)
Failure(etype, ids) == Result(etype, ids, NoValue)

\* TOKEN stands for all errors of the scanner.
ErrorTypes == {"SYNTAX", "DEPTH", "ALLOC", "SCHEMA", "TOKEN"}

(***************************************************************************)
(* The heap.                                                               *)
(***************************************************************************)
Taken(h) == [h EXCEPT !.next = @ + 1]
RunsOut(h) == h.failures < MaxFailures
Refused(h) == [h EXCEPT !.failures = @ + 1]
Freed(h, ids) == [h EXCEPT !.freed = @ \cup ids]

\* jso_error_new and jso_error_new_ex: an error, or a NULL pointer to one.
NewErrors(h, etype) ==
  {[heap |-> Taken(h), value |-> Failure(etype, {h.next})]} \cup
  IF RunsOut(h) THEN {[heap |-> Refused(h), value |-> Failure(etype, {})]} ELSE {}

(***************************************************************************)
(* jso_parse_io up to jso_yyparse.                                         *)
(***************************************************************************)
Init ==
  /\ options \in [mode : Modes, max_depth : Depths]
  /\ input = <<>>
  /\ stack = <<>>
  /\ lookahead = NoSymbol
  /\ depth = 0
  /\ result = Failure("NONE", {})
  /\ slot \in (IF options.mode = "schema" THEN BOOLEAN ELSE {FALSE})
  /\ calls = <<>>
  /\ heap = [next |-> 1, freed |-> {}, failures |-> 0]
  /\ replaced = {}
  /\ phase = "start"
  /\ answer = [rc |-> "NONE", value |-> Unset]

HasSchema == options.mode = "schema"

Begin ==
  /\ phase = "start"
  /\ phase' = "parsing"
  /\ UNCHANGED <<options, input, stack, lookahead, depth, result, slot, calls,
                 heap, replaced, answer>>

StreamInitFails ==
  /\ phase = "start"
  /\ HasSchema
  /\ RunsOut(heap)
  /\ heap' = Refused(heap)
  /\ phase' = "returned"
  /\ answer' = [rc |-> "FAILURE", value |-> Unset]
  /\ UNCHANGED <<options, input, stack, lookahead, depth, result, slot, calls,
                 replaced>>

(***************************************************************************)
(* The parser's stack.                                                     *)
(***************************************************************************)
Top == Last(stack)
At(i) == IF Len(stack) <= i THEN "$" ELSE stack[Len(stack) - i].sym

Popped(n) == SubSeq(stack, 1, Len(stack) - n)
Pushed(n, symbol) == Append(Popped(n), symbol)

\* The top of the stack is the end of a rule, or asks for a mid-rule action.
Reducible ==
  \/ At(0) \in {"[", "{", "]", "}", "elements", "members", "STRING", "pair", "values"}
  \/ At(0) = "value" /\ At(1) # "$"

Reads == phase = "parsing" /\ ~ Reducible
Reduces == phase = "parsing" /\ Reducible

ExpectsValue == At(0) \in {"$", "[@", ":"} \/ (At(0) = "," /\ At(1) = "element")
ExpectsKey == At(0) = "{@" \/ (At(0) = "," /\ At(1) = "member")

Acceptable ==
  (IF ExpectsValue THEN {"[", "{", "SCALAR", "ERROR"} \cup Names ELSE {}) \cup
  (IF ExpectsKey THEN Names ELSE {}) \cup
  (CASE At(0) = "[@"      -> {"]"}
     [] At(0) = "{@"      -> {"}"}
     [] At(0) = "element" -> {"]", ",", "ERROR"}
     [] At(0) = "member"  -> {"}", ",", "ERROR"}
     [] At(0) = "key"     -> {":", "ERROR"}
     [] At(0) = "value"   -> {"EOI", "ERROR"}
     [] OTHER             -> {})

(***************************************************************************)
(* YYERROR: the symbols of the rule are dropped without their destructors, *)
(* the rest of the stack is unwound.                                       *)
(***************************************************************************)
Raises(h, etype, rest) ==
  /\ \E e \in NewErrors(h, etype) : heap' = e.heap /\ result' = e.value
  /\ stack' = rest
  /\ phase' = "unwinding"

Continues(h, next) ==
  /\ heap' = h
  /\ stack' = next
  /\ UNCHANGED <<result, phase>>

\* A hook that only calls the stream, on a rule that leaves rest or next.
\* The stream may set or clear the error of the schema, or run out of memory.
Checking == {"array_start", "array_append", "object_start", "object_key", "value"}

StreamCall(hook) ==
  IF HasSchema
  THEN /\ calls' = Append(calls, hook)
       /\ IF hook \in Checking THEN slot' \in BOOLEAN ELSE UNCHANGED slot
  ELSE UNCHANGED <<calls, slot>>

StreamFails(h, hook, rest) ==
  /\ HasSchema
  /\ hook \in Checking
  /\ RunsOut(h)
  /\ StreamCall(hook)
  /\ Raises(Refused(h), "SCHEMA", rest)

Checks(h, hook, rest, next) ==
  \/ StreamFails(h, hook, rest)
  \/ StreamCall(hook) /\ Continues(h, next)

(***************************************************************************)
(* The scanner and the shifts.                                             *)
(***************************************************************************)

\* jso_scan: the tokens a text may go on with, each with its value.
Scanned(h) ==
  {[token |-> t, heap |-> h, symbol |-> Symbol("values", {}, Scalar(t))] :
     t \in {"SCALAR"}} \cup
  {[token |-> t, heap |-> h, symbol |-> Bare(t)] : t \in Punctuation \cup {"EOI"}} \cup
  {[token |-> n, heap |-> Taken(h),
    symbol |-> [Symbol("values", {h.next}, Scalar(n)) EXCEPT !.name = n]] :
     n \in Names} \cup
  {[token |-> "ERROR", heap |-> e.heap, symbol |-> Symbol("error", e.value.ids, NoValue)] :
     e \in NewErrors(h, "TOKEN")} \cup
  (IF RunsOut(h)
   THEN {[token |-> "ENOMEM", heap |-> Refused(h), symbol |-> Bare("ENOMEM")]}
   ELSE {})

Containers == {i \in DOMAIN stack : stack[i].sym \in {"[@", "{@"}}

\* A text ends at its bounds.
Read(s) ==
  /\ Reads
  /\ s \in Scanned(heap)
  /\ Len(input) < MaxTokens \/ s.token = "EOI"
  /\ s.token \in {"[", "{"} => Cardinality(Containers) < MaxNesting
  /\ input' = Append(input, s.token)

Shift(s) ==
  /\ Read(s)
  /\ s.token \in Acceptable \ {"EOI", "ERROR"}
  /\ heap' = s.heap
  /\ stack' = CASE s.token = "]" /\ At(0) = "element" ->
                     Pushed(1, [Top EXCEPT !.sym = "elements"])
                [] s.token = "}" /\ At(0) = "member" ->
                     Pushed(1, [Top EXCEPT !.sym = "members"])
                [] s.token \in Names /\ ExpectsKey ->
                     Pushed(0, [s.symbol EXCEPT !.sym = "STRING"])
                [] OTHER -> Pushed(0, s.symbol)
  /\ UNCHANGED <<options, lookahead, depth, result, slot, calls, replaced, phase,
                 answer>>

\* start: value JSO_T_EOI; the value leaves the stack.
Accept(s) ==
  /\ Read(s)
  /\ s.token = "EOI" /\ "EOI" \in Acceptable
  /\ result' = Result("DATA", Top.ids, Top.tree)
  /\ stack' = Popped(1)
  /\ phase' = "accepted"
  /\ UNCHANGED <<options, lookahead, depth, slot, calls, heap, replaced, answer>>

\* Mutant: the error's token is destructed too.
ErrLexDestructing(s) ==
  /\ Read(s)
  /\ s.token = "ERROR" /\ "ERROR" \in Acceptable
  /\ heap' = s.heap
  /\ result' = Failure("TOKEN", s.symbol.ids)
  /\ lookahead' = s.symbol
  /\ phase' = "unwinding"
  /\ UNCHANGED <<options, stack, depth, slot, calls, replaced, answer>>

\* errlex: the error of the scanner becomes the result.
ErrLex(s) ==
  /\ Read(s)
  /\ s.token = "ERROR" /\ "ERROR" \in Acceptable
  /\ heap' = s.heap
  /\ result' = Failure("TOKEN", s.symbol.ids)
  /\ phase' = "unwinding"
  /\ UNCHANGED <<options, stack, lookahead, depth, slot, calls, replaced, answer>>

\* Mutant: the refused token is not destructed.
SyntaxErrorForgetting(s) ==
  /\ Read(s)
  /\ s.token \notin Acceptable
  /\ Raises(s.heap, "SYNTAX", stack)
  /\ UNCHANGED <<options, lookahead, depth, slot, calls, replaced, answer>>

\* jso_yyerror on a token no rule goes on with.
SyntaxError(s) ==
  /\ Read(s)
  /\ s.token \notin Acceptable
  /\ Raises(s.heap, "SYNTAX", stack)
  /\ lookahead' = s.symbol
  /\ UNCHANGED <<options, depth, slot, calls, replaced, answer>>

(***************************************************************************)
(* The mid-rule actions and the ends of containers.                        *)
(***************************************************************************)
\* Mutant: one container too many.
AtLimitLate == options.max_depth > 0 /\ depth > options.max_depth

AtLimit == options.max_depth > 0 /\ depth >= options.max_depth

Open(bracket, marked, hook) ==
  /\ Reduces
  /\ At(0) = bracket
  /\ \/ /\ AtLimit
        /\ Raises(heap, "DEPTH", stack)
        /\ UNCHANGED <<depth, slot, calls>>
     \/ /\ ~ AtLimit
        /\ depth' = depth + 1
        /\ Checks(heap, hook, stack, Pushed(1, Bare(marked)))
  /\ UNCHANGED <<options, input, lookahead, replaced, answer>>

OpenArray == Open("[", "[@", "array_start")
OpenObject == Open("{", "{@", "object_start")

Close(rule, hook) ==
  /\ Reduces
  /\ At(0) = rule
  /\ depth' = depth - 1
  /\ Checks(heap, hook, Popped(2), Pushed(2, [Top EXCEPT !.sym = "values", !.items = <<>>]))
  /\ UNCHANGED <<options, input, lookahead, replaced, answer>>

CloseArray == Close("elements", "array_end")
CloseObject == Close("members", "object_end")

\* Mutant: the hook is called for scalars only.
ValueOfScalars ==
  /\ Reduces
  /\ At(0) = "values"
  /\ LET next == Pushed(1, [Top EXCEPT !.sym = "value", !.name = ""])
     IN  IF Top.tree.type \in {"ARRAY", "OBJECT"}
         THEN Continues(heap, next) /\ UNCHANGED <<slot, calls>>
         ELSE Checks(heap, "value", Popped(1), next)
  /\ UNCHANGED <<options, input, lookahead, depth, replaced, answer>>

\* value: values.
Value ==
  /\ Reduces
  /\ At(0) = "values"
  /\ Checks(heap, "value", Popped(1), Pushed(1, [Top EXCEPT !.sym = "value", !.name = ""]))
  /\ UNCHANGED <<options, input, lookahead, depth, replaced, answer>>

(***************************************************************************)
(* Containers and their members.                                           *)
(***************************************************************************)
Validates == options.mode = "validate"

\* array_create, object_create: the heap and what the new container owns.
\* The hooks of validation create none.
Created == IF Validates THEN heap ELSE Taken(heap)
Container(sym, type) ==
  Symbol(sym, IF Validates THEN {} ELSE {heap.next}, [type |-> type, items |-> <<>>])

CreateFails(rest) ==
  /\ ~ Validates
  /\ RunsOut(heap)
  /\ Raises(Refused(heap), "ALLOC", rest)
  /\ UNCHANGED <<slot, calls, replaced>>

\* jso_array_append.
Appended(container, value) ==
  IF Validates THEN container
  ELSE [container EXCEPT !.ids = @ \cup value.ids, !.tree.items = Append(@, value.tree)]

\* array_append on a rule of n symbols.
PutItem(h, container, value, n) ==
  /\ \/ StreamFails(h, "array_append", Popped(n))
     \/ /\ StreamCall("array_append")
        /\ \/ /\ ~ Validates /\ RunsOut(h)
              /\ Raises(Refused(h), "ALLOC", Popped(n))
           \/ Continues(h, Pushed(n, Appended(container, value)))
  /\ UNCHANGED replaced

\* elements: ']'.
NoElements ==
  /\ Reduces
  /\ At(0) = "]"
  /\ \/ CreateFails(Popped(1))
     \/ /\ Continues(Created, Pushed(1, Container("elements", "ARRAY")))
        /\ UNCHANGED <<slot, calls, replaced>>
  /\ UNCHANGED <<options, input, lookahead, depth, answer>>

\* element: value.
FirstElement ==
  /\ Reduces
  /\ At(0) = "value" /\ At(1) = "[@"
  /\ \/ CreateFails(Popped(1))
     \/ PutItem(Created, Container("element", "ARRAY"), Top, 1)
  /\ UNCHANGED <<options, input, lookahead, depth, answer>>

\* element: element ',' value.
NextElement ==
  /\ Reduces
  /\ At(0) = "value" /\ At(1) = "," /\ At(2) = "element"
  /\ PutItem(heap, stack[Len(stack) - 2], Top, 3)
  /\ UNCHANGED <<options, input, lookahead, depth, answer>>

\* key: JSO_T_STRING.
Key ==
  /\ Reduces
  /\ At(0) = "STRING"
  /\ LET key == [Bare("key") EXCEPT !.ids = Top.ids, !.name = Top.name]
     IN  Checks(heap, "object_key", Popped(1), Pushed(1, key))
  /\ UNCHANGED <<options, input, lookahead, depth, replaced, answer>>

\* pair: key ':' value.  The name and the key's string stay apart from the value.
Pair ==
  /\ Reduces
  /\ At(0) = "value" /\ At(1) = ":"
  /\ LET key == stack[Len(stack) - 2]
     IN  stack' = Pushed(3, [Symbol("pair", Top.ids, Top.tree) EXCEPT
                               !.key = CHOOSE id \in key.ids : TRUE,
                               !.name = key.name])
  /\ UNCHANGED <<options, input, lookahead, depth, result, slot, calls, heap,
                 replaced, phase, answer>>

\* What the value of a known name owned is lost; its key is freed.
OldMembers(object, pair) ==
  {i \in DOMAIN object.items : object.items[i].name = pair.name}

Member(pair) ==
  [name |-> pair.name, key |-> pair.key, ids |-> pair.ids, tree |-> pair.tree]

OwnedByMembers(items) == UNION {items[i].ids \cup {items[i].key} : i \in DOMAIN items}

\* Mutant: a repeated name is appended.
AddedTwice(object, pair) ==
  LET new == Append(object.items, Member(pair))
  IN  IF Validates THEN object
      ELSE [object EXCEPT
              !.ids = @ \cup OwnedByMembers(new),
              !.items = new,
              !.tree.items = [i \in DOMAIN new |-> <<new[i].name, new[i].tree>>]]

\* jso_object_add.
Added(object, pair) ==
  LET old == OldMembers(object, pair)
      new == IF old = {} THEN Append(object.items, Member(pair))
             ELSE [i \in DOMAIN object.items |->
                     IF i \in old THEN Member(pair) ELSE object.items[i]]
  IN  IF Validates THEN object
      ELSE [object EXCEPT
              !.ids = (@ \ OwnedByMembers(object.items)) \cup OwnedByMembers(new),
              !.items = new,
              !.tree.items = [i \in DOMAIN new |-> <<new[i].name, new[i].tree>>]]

\* object_update on a rule of n symbols.
PutMember(h, object, pair, n) ==
  LET old  == IF Validates THEN {} ELSE OldMembers(object, pair)
      lost == UNION {object.items[i].ids : i \in old}
      keys == {object.items[i].key : i \in old}
  IN  /\ StreamCall("object_update")
      /\ \/ /\ ~ Validates /\ RunsOut(h)
            /\ Raises(Refused(h), "ALLOC", Popped(n))
            /\ UNCHANGED replaced
         \/ /\ Continues(Freed(h, keys), Pushed(n, Added(object, pair)))
            /\ replaced' = replaced \cup lost

\* members: '}'.
NoMembers ==
  /\ Reduces
  /\ At(0) = "}"
  /\ \/ CreateFails(Popped(1))
     \/ /\ Continues(Created, Pushed(1, Container("members", "OBJECT")))
        /\ UNCHANGED <<slot, calls, replaced>>
  /\ UNCHANGED <<options, input, lookahead, depth, answer>>

\* member: pair.
FirstMember ==
  /\ Reduces
  /\ At(0) = "pair" /\ At(1) = "{@"
  /\ \/ CreateFails(Popped(1))
     \/ PutMember(Created, Container("member", "OBJECT"), Top, 1)
  /\ UNCHANGED <<options, input, lookahead, depth, answer>>

\* member: member ',' pair.
NextMember ==
  /\ Reduces
  /\ At(0) = "pair" /\ At(1) = ","
  /\ PutMember(heap, stack[Len(stack) - 2], Top, 3)
  /\ UNCHANGED <<options, input, lookahead, depth, answer>>

(***************************************************************************)
(* Unwinding.  The destructor of an error reads its schema_error, which    *)
(* only jso_error_new_from_schema sets: with what the memory happened to   *)
(* hold the program may fail there.                                        *)
(***************************************************************************)
Survives(next) == phase' \in {next, "crashed"}

\* The rest of the stack from its top, then the refused token.
Unwind ==
  /\ phase = "unwinding"
  /\ heap' = Freed(heap, lookahead.ids \cup UNION {SymbolIds(stack[i]) : i \in DOMAIN stack})
  /\ stack' = <<>>
  /\ lookahead' = NoSymbol
  /\ IF lookahead.sym = "error" /\ lookahead.ids # {}
     THEN Survives("rejected") ELSE phase' = "rejected"
  /\ UNCHANGED <<options, input, depth, result, slot, calls, replaced, answer>>

(***************************************************************************)
(* jso_parse_io after jso_yyparse.                                         *)
(***************************************************************************)
Parsed == phase \in {"accepted", "rejected"}

ReturnResult ==
  /\ Parsed
  /\ ~ (HasSchema /\ slot)
  /\ answer' = [rc |-> IF phase = "accepted" THEN "SUCCESS" ELSE "FAILURE",
                value |-> result]
  /\ result' = Unset
  /\ phase' = "returned"
  /\ UNCHANGED <<options, input, stack, lookahead, depth, slot, calls, heap, replaced>>

ClearResult ==
  /\ Parsed
  /\ HasSchema /\ slot
  /\ heap' = Freed(heap, result.ids)
  /\ result' = Unset
  /\ IF result.kind \in ErrorTypes /\ result.ids # {}
     THEN Survives("failing") ELSE phase' = "failing"
  /\ UNCHANGED <<options, input, stack, lookahead, depth, slot, calls, replaced, answer>>

\* Mutant: the error stays in the schema too.
ReturnSchemaErrorCopied ==
  /\ phase = "failing"
  /\ heap' = Taken(Taken(heap))
  /\ phase' = "returned"
  /\ answer' = [rc |-> "FAILURE",
                value |-> Failure("SCHEMA", {heap.next, heap.next + 1})]
  /\ UNCHANGED <<options, input, stack, lookahead, depth, result, slot, calls, replaced>>

\* jso_error_new_from_schema with jso_schema_move_error; a NULL error is written to.
ReturnSchemaError ==
  /\ phase = "failing"
  /\ LET h == Taken(heap)
     IN  \/ /\ heap' = Taken(h)
            /\ slot' = FALSE
            /\ phase' = "returned"
            /\ answer' = [rc |-> "FAILURE",
                          value |-> Failure("SCHEMA", {heap.next, h.next})]
         \/ /\ RunsOut(heap)
            /\ heap' = Refused(h)
            /\ phase' = "returned"
            /\ answer' = [rc |-> "FAILURE", value |-> Failure("SCHEMA", {heap.next})]
            /\ UNCHANGED slot
         \/ /\ RunsOut(heap)
            /\ heap' = Refused(heap)
            /\ phase' = "crashed"
            /\ UNCHANGED <<slot, answer>>
  /\ UNCHANGED <<options, input, stack, lookahead, depth, result, calls, replaced>>

\* The call has ended.
Done ==
  /\ phase \in {"returned", "crashed"}
  /\ UNCHANGED vars

Next ==
  \/ Begin \/ StreamInitFails
  \/ \E s \in Scanned(heap) : Shift(s) \/ Accept(s) \/ ErrLex(s) \/ SyntaxError(s)
  \/ OpenArray \/ OpenObject \/ CloseArray \/ CloseObject \/ Value
  \/ NoElements \/ FirstElement \/ NextElement
  \/ Key \/ Pair \/ NoMembers \/ FirstMember \/ NextMember
  \/ Unwind \/ ReturnResult \/ ClearResult \/ ReturnSchemaError
  \/ Done

Spec == Init /\ [][Next]_vars

(***************************************************************************)
(* Properties.                                                             *)
(***************************************************************************)
Ids == 1 .. heap.next - 1

Holders ==
  [i \in DOMAIN stack |-> SymbolIds(stack[i])] \o
  <<lookahead.ids, result.ids, answer.value.ids, heap.freed>>

\* Nothing is freed twice and nothing freed is used: what the symbols on the
\* stack, the refused token, the result and the caller hold is disjoint, and
\* none of it was freed (the destructors of jso_parser.y, jso_parse_io).
OwnedOnce ==
  \A i, j \in DOMAIN Holders : i # j => Holders[i] \cap Holders[j] = {}

Held == UNION {Holders[i] : i \in DOMAIN Holders}

\* Unless an allocation failed, everything allocated by the hooks of decoding
\* is held by someone or freed, after any text; only the values that a repeated
\* name of an object replaces are lost.
NothingLost ==
  heap.failures = 0 /\ ~ Validates /\ phase # "crashed" =>
    Ids = Held \cup replaced

\* The error of the schema is handed to the caller or left in the schema, never
\* both; when it is handed over the value read so far is freed.
ErrorMoved ==
  phase = "returned" /\ HasSchema /\ answer.value.kind # "UNSET" =>
    IF slot THEN heap.failures > 0 /\ answer.rc = "FAILURE"
    ELSE (answer.rc = "SUCCESS") = (answer.value.kind = "DATA")
=============================================================================
