-------------------------------- MODULE Cli --------------------------------
(* The command line (jso_cli.c): the arguments are taken one after another,   *)
(* an option acts as soon as it is met (a schema file is read, parsed under   *)
(* the options met so far and compiled), then the file is read, parsed and    *)
(* written back. The reads go through IOBuffer and the output through the     *)
(* encoder, which is a parameter (Encoder). The parser's answer is an         *)
(* operator of the document: its own run is ParserSession.                    *)
EXTENDS EncoderOutput, IOBuffer

CONSTANTS Args,           \* the arguments that may be given
          MaxArgs,        \* bound: how many of them
          Files,          \* path -> [size: what stat says, data: the bytes read returns]
          Documents,      \* what a file may hold: values, and BadText
          Number,         \* atoi of a word, as the unsigned it is stored in
          Nesting(_),     \* how deep the containers of a value are nested
          IsSchema(_),    \* external: jso_schema_parse succeeds
          Accepts(_, _),  \* external: the schema (or NoSchema) accepts the value
          Encoded(_, _),  \* an output with a value written to it (jso_encode)
          Rooms,          \* the pieces the standard output takes before a write fails
          Width           \* bound: size_t has Width values

ASSUME CliAssumption == /\ MaxArgs \in Nat /\ Width \in Nat
                        /\ \A f \in DOMAIN Files : Files[f].data <= Files[f].size
                        /\ \A w \in DOMAIN Number : Number[w] \in Nat

\* An argument: a word, "-" alone, a long option with or without =value, or a short one
\* with its number of letters.
Word(w)     == [kind |-> "word", name |-> w, value |-> "none"]
Dash        == [kind |-> "dash", name |-> "", value |-> "none"]
Long(n, v)  == [kind |-> "long", name |-> n, value |-> v]
Short(n, v) == [kind |-> "short", name |-> n, value |-> v]
NoValue  == "none"
NoArg    == [kind |-> "end", name |-> "", value |-> "none"]
NoSchema == [t |-> "none"]
BadText  == [t |-> "bad"]
Unset    == [t |-> "unset"]

\* "none" stands for a pointer that is NULL, so no argument is called that.
ASSUME ArgsAssumption ==
    \A a \in Args : /\ a.kind \in {"word", "dash", "long", "short"}
                    /\ a.kind = "word" => a.name # "none"

\* No text holds the value that was never set.
ASSUME DocumentsAssumption == Unset \notin Documents

VARIABLES
    pc,      \* "args", "read", "parse", "loaded", "exit" or "crashed"
    argv,    \* the arguments taken so far
    opts,    \* jso_cli_options, with the file path
    load,    \* the file being read: jso_cli_parse_file_ex
    live,    \* what was allocated and not freed: <<kind, number>>
    out,     \* what the encoder or the dump wrote
    rc       \* the exit code: "none", "success" or "failure"

vars == <<pc, argv, opts, load, live, out, rc>>

NoLoad == [type |-> "none", path |-> "none", io |-> IoAlloc, toRead |-> 0, total |-> 0,
           pos |-> 0, doc |-> Unset, result |-> Unset, ok |-> FALSE]

\* jso_cli_options_init_pre.
Init == /\ pc = "args" /\ argv = <<>> /\ rc = "none"
        /\ opts = [max_depth |-> 0, output_type |-> "none", schema |-> NoSchema,
                   path |-> "none"]
        /\ load = NoLoad
        /\ live = {<<"stream", 1>>, <<"stream", 2>>}
        /\ out = EncoderInit(0, FALSE)

Exit(code) == pc' = "exit" /\ rc' = code

\* The registered parameters, in their order, and the beginnings of their names.
Params == <<"depth", "help", "output-type", "schema">>
Letter == [p \in {"depth", "help", "output-type", "schema"} |->
            CASE p = "depth" -> "d" [] p = "help" -> "h" [] p = "output-type" -> "o"
              [] OTHER -> "s"]
HasValue(p) == p # "help"
IsPrefix(n, p) == n \in {"", Letter[p], p}

\* A long name is compared over its own length only, so a beginning of a name will do,
\* and the empty one is the first parameter.
FindParam(arg) ==
    LET fits(p) == IF arg.kind = "long" THEN IsPrefix(arg.name, p) ELSE arg.name = Letter[p]
        found == {i \in DOMAIN Params : fits(Params[i])}
    IN  IF found = {} THEN "unknown" ELSE Params[CHOOSE i \in found : \A j \in found : i <= j]

\* jso_cli_parse_long_option and _short_option: "--" alone and grouped letters fail.
OptionParam(arg) ==
    IF arg.kind = "dash" \/ (arg.kind = "long" /\ arg.name = "" /\ arg.value = NoValue)
    THEN "unknown" ELSE FindParam(arg)

Open(type, path) ==
    /\ pc' = "read"
    /\ load' = [NoLoad EXCEPT !.type = type, !.path = path]

\* The callbacks. All but the one of schema return at once.
CallbackDepth(value) ==
    /\ opts' = [opts EXCEPT !.max_depth = IF value \in DOMAIN Number THEN Number[value] ELSE 0]
    /\ UNCHANGED <<pc, load, rc>>

CallbackHelp ==
    /\ opts' = [opts EXCEPT !.output_type = "help"]
    /\ UNCHANGED <<pc, load, rc>>

\* Mutant: the last output type wins.
OutputOverwrites(value) ==
    IF value \in {"minimal", "pretty", "debug"}
    THEN opts' = [opts EXCEPT !.output_type = value] /\ UNCHANGED <<pc, load, rc>>
    ELSE Exit("failure") /\ UNCHANGED <<opts, load>>

CallbackOutput(value) ==
    IF opts.output_type = "none" /\ value \in {"minimal", "pretty", "debug"}
    THEN opts' = [opts EXCEPT !.output_type = value] /\ UNCHANGED <<pc, load, rc>>
    ELSE Exit("failure") /\ UNCHANGED <<opts, load>>

CallbackSchema(value) ==
    /\ Open("schema file", value)
    /\ UNCHANGED <<opts, rc>>

Callback(param, value) ==
    CASE param = "depth"       -> CallbackDepth(value)
      [] param = "help"        -> CallbackHelp
      [] param = "output-type" -> CallbackOutput(value)
      [] param = "schema"      -> CallbackSchema(value)

\* jso_cli_parse_option. A value of its own, else the next argument unless it begins with
\* "-"; next is that argument (NoArg behind the last), and whether it was taken.
Option(arg, next) ==
    LET param == OptionParam(arg)
        needsNext == param # "unknown" /\ HasValue(param) /\ arg.value = NoValue
        value == IF needsNext THEN next.name ELSE arg.value
    IN  /\ next = NoArg \/ needsNext
        /\ argv' = IF next = NoArg THEN Append(argv, arg) ELSE argv \o <<arg, next>>
        /\ \/ /\ \/ param = "unknown"
                 \/ needsNext /\ next.kind # "word"
                 \/ ~HasValue(param) /\ arg.value # NoValue
              /\ Exit("failure") /\ UNCHANGED <<opts, load>>
           \/ /\ param # "unknown"
              /\ needsNext => next.kind = "word"
              /\ HasValue(param) \/ arg.value = NoValue
              /\ Callback(param, value)

\* The loop of jso_cli_parse_args_ex. An argument behind one that ends it is not read.
TakeOption ==
    /\ pc = "args"
    /\ \E arg \in {a \in Args : a.kind # "word"}, next \in Args \cup {NoArg} :
        /\ Len(argv) + (IF next = NoArg THEN 1 ELSE 2) <= MaxArgs
        /\ Option(arg, next)
    /\ UNCHANGED <<live, out>>

TakeFile ==
    /\ pc = "args" /\ Len(argv) < MaxArgs
    /\ \E arg \in {a \in Args : a.kind = "word"} :
        /\ argv' = Append(argv, arg)
        /\ IF opts.path = "none"
           THEN opts' = [opts EXCEPT !.path = arg.name] /\ UNCHANGED <<pc, rc>>
           ELSE Exit("failure") /\ UNCHANGED opts
    /\ UNCHANGED <<load, live, out>>

\* Behind the last argument: the help, or jso_cli_options_init_post and the file. What
\* standard output takes is known from here on.
EndOfArgs ==
    /\ pc = "args"
    /\ \/ opts.output_type = "help" /\ Exit("success") /\ UNCHANGED <<opts, load, live, out>>
       \/ /\ opts.output_type # "help" /\ opts.path = "none"
          /\ Exit("failure") /\ UNCHANGED <<opts, load, live, out>>
       \/ /\ opts.output_type # "help" /\ opts.path # "none"
          /\ Open("file", opts.path)
          /\ opts' = [opts EXCEPT !.output_type = IF @ = "none" THEN "pretty" ELSE @]
          /\ live' = live \cup {<<"stream", 3>>}
          /\ \E room \in Rooms : out' = [EncoderInit(room, opts'.output_type = "pretty") EXCEPT !.text = out.text]
          /\ UNCHANGED rc
    /\ UNCHANGED argv

TheIo == <<"io", Len(argv), load.type>>

\* stat and fopen; the file may be gone, or gone between the two.
OpenFile ==
    /\ pc = "read" /\ TheIo \notin live
    /\ \/ pc' = "loaded" /\ UNCHANGED <<load, live>>
       \/ /\ load.path \in DOMAIN Files
          /\ load' = [load EXCEPT !.toRead = Files[load.path].size]
          /\ live' = live \cup {TheIo}
          /\ UNCHANGED pc
    /\ UNCHANGED <<argv, opts, out, rc>>

\* Mutant: a read of what is already buffered returns all that is buffered.
ReadReturnsBuffered(io, size, pos, left, ok) ==
    IF Buffered(io) >= size THEN [io |-> io, n |-> Buffered(io), got |-> 0]
    ELSE FileRead(io, size, pos, left, ok)

\* ok: the buffer could be allocated or extended, if that was asked for.
ReadOnce(io, size, pos, left, ok) == FileRead(io, size, pos, left, ok)

\* One turn of the read loop, and the tests behind it. A read that got no buffer ends the
\* loop like the end of the file. The io of a refused file stays.
ReadFile ==
    /\ pc = "read" /\ TheIo \in live
    /\ \E ok \in BOOLEAN :
       LET want == (load.toRead - load.total) % Width
           r == ReadOnce(load.io, want, load.pos, Files[load.path].data - load.pos, ok)
           total == (load.total + r.n) % Width
       IN  /\ load' = [load EXCEPT !.io = r.io, !.total = total, !.pos = @ + r.got]
           /\ pc' = IF r.n # 0 THEN "read"
                    ELSE IF total = 0 \/ total < load.toRead THEN "loaded" ELSE "parse"
    /\ UNCHANGED <<argv, opts, live, out, rc>>

\* jso_parse_io with max_depth (0: no limit) and the schema.
Parses(doc) ==
    /\ doc # BadText
    /\ opts.max_depth = 0 \/ Nesting(doc) <= opts.max_depth
    /\ Accepts(opts.schema, doc)

\* Mutant: the io is freed behind a parse that succeeded only.
IoFreedOnSuccess(ok) == IF ok THEN live \ {TheIo} ELSE live

IoFreed(ok) == live \ {TheIo}

ParseFile ==
    /\ pc = "parse" /\ pc' = "loaded"
    /\ \E doc \in Documents :
        /\ load' = [load EXCEPT !.doc = doc, !.ok = Parses(doc),
                                !.result = IF Parses(doc) THEN doc ELSE [t |-> "error"]]
        /\ live' = IoFreed(Parses(doc)) \cup {<<"value", load.type>>}
    /\ UNCHANGED <<argv, opts, out, rc>>

Dumped == Output([out EXCEPT !.room = 1], <<"dump">>)

\* The result is dumped and freed whether it was set or not: what that does to a value
\* that was never set is undefined.
UnsetUsed == load.result = Unset

\* The end of jso_cli_param_callback_schema. The schema in force is replaced, not freed.
SchemaLoaded ==
    /\ pc = "loaded" /\ load.type = "schema file"
    /\ \/ UnsetUsed /\ pc' = "crashed" /\ UNCHANGED <<opts, live, out, rc>>
       \/ /\ out' = IF opts.output_type = "debug" THEN Dumped ELSE out
          /\ opts' = IF load.ok THEN [opts EXCEPT !.schema = load.result] ELSE opts
          /\ live' = (live \ {<<"value", load.type>>})
                        \cup (IF load.ok THEN {<<"schema", Len(argv)>>} ELSE {})
          /\ IF load.ok /\ IsSchema(load.result) THEN pc' = "args" /\ UNCHANGED rc
             ELSE Exit("failure")
    /\ load' = NoLoad
    /\ UNCHANGED argv

\* jso_cli_options_destroy: the streams and the schema in force, the last one made.
Destroy(resources) ==
    LET schemas == {r \in resources : r[1] = "schema"}
    IN  {r \in resources : /\ r[1] # "stream"
                           /\ r \in schemas => \E s \in schemas : s[2] > r[2]}

\* What jso_encode returns is not looked at.
WriteResult ==
    IF opts.output_type = "debug" THEN Dumped
    ELSE IF load.ok THEN Encoded(out, load.result) ELSE out

\* jso_cli_process_file behind the parse, and the end of jso_cli_parse_args_ex.
ProcessFile ==
    /\ pc = "loaded" /\ load.type = "file"
    /\ \/ UnsetUsed /\ pc' = "crashed" /\ UNCHANGED <<live, out, rc>>
       \/ /\ out' = WriteResult
          /\ live' = Destroy(live \ {<<"value", load.type>>})
          /\ Exit(IF load.ok THEN "success" ELSE "failure")
    /\ UNCHANGED <<argv, opts, load>>

Done == pc \in {"exit", "crashed"} /\ UNCHANGED vars

Next == \/ TakeOption \/ TakeFile \/ EndOfArgs
        \/ OpenFile \/ ReadFile \/ ParseFile \/ SchemaLoaded \/ ProcessFile
        \/ Done

Spec == Init /\ [][Next]_vars /\ WF_vars(Next)
-----------------------------------------------------------------------------
\* The options and their values by their places alone: a word belongs to the option
\* before it that has no value of its own and needs one.
IsOption(args, i) == args[i].kind \in {"long", "short"} /\ OptionParam(args[i]) # "unknown"
TakesNext(args, i) ==
    IsOption(args, i) /\ HasValue(OptionParam(args[i])) /\ args[i].value = NoValue
Operands(args) ==
    {i \in DOMAIN args : args[i].kind = "word" /\ ~(i > 1 /\ TakesNext(args, i - 1))}
Given(args, p) == {i \in DOMAIN args : IsOption(args, i) /\ OptionParam(args[i]) = p}
ValueOf(args, i) == IF TakesNext(args, i) THEN args[i + 1].name ELSE args[i].value
LastOf(set) == CHOOSE i \in set : \A j \in set : j <= i

\* A success that is not the help is one file, named once, whose document is no deeper
\* than the last depth given (unless that is 0), accepted by the schema of the last schema
\* option, and written in the format of the only output option.
SuccessAsAsked ==
    rc = "success" /\ opts.output_type # "help" =>
        /\ \E i \in Operands(argv) : Operands(argv) = {i} /\ argv[i].name = load.path
        /\ IF Given(argv, "output-type") = {} THEN opts.output_type = "pretty"
           ELSE \E i \in Given(argv, "output-type") :
                   /\ Given(argv, "output-type") = {i}
                   /\ opts.output_type = ValueOf(argv, i)
        /\ load.doc # BadText
        /\ Given(argv, "depth") # {} =>
            LET d == ValueOf(argv, LastOf(Given(argv, "depth")))
            IN  d \in DOMAIN Number /\ Number[d] # 0 => Nesting(load.doc) <= Number[d]
        /\ Given(argv, "schema") # {} => IsSchema(opts.schema) /\ Accepts(opts.schema, load.doc)

\* After the file was processed nothing is left but the io of a file that was refused
\* before it was parsed and the schemas that a later one replaced: the value, the
\* streams, the io of every parsed file and the schema in force are gone.
ReleasedAtEnd ==
    pc = "exit" /\ load.type = "file" =>
        \A r \in live : \/ r[1] = "io" /\ ~load.ok /\ load.result = Unset
                        \/ r[1] = "schema" /\ \E i \in Given(argv, "schema") : i > r[2]
=============================================================================
