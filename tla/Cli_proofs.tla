------------------------------ MODULE Cli_proofs ------------------------------
(***************************************************************************)
(* What the command line is told and what it leaves behind, for any        *)
(* arguments: the options as the loop has them are those of the places of  *)
(* the arguments, and everything that was allocated and not freed belongs  *)
(* to the file being read or to a schema option.                           *)
(***************************************************************************)
EXTENDS Cli, SequenceTheorems, TLAPS

ParamNames == {"depth", "help", "output-type", "schema"}

\* The last argument does not wait for the next one.
Settled(args) == args # <<>> => ~TakesNext(args, Len(args))

\* An option p ends at place n, with its own value or with a word behind it.
EndsOption(args, n, p) ==
  \/ n \in Given(args, p) /\ ~TakesNext(args, n)
  \/ /\ n - 1 \in Given(args, p) /\ TakesNext(args, n - 1)
     /\ n \in DOMAIN args /\ args[n].kind = "word"

\* The number atoi makes of a word.
DepthOf(w) == IF w \in DOMAIN Number THEN Number[w] ELSE 0

TypeOK ==
  /\ argv \in Seq(Args)
  /\ DOMAIN NoLoad \subseteq DOMAIN load
  /\ {"max_depth", "output_type", "schema", "path"} \subseteq DOMAIN opts
  /\ load.type \in {"none", "schema file", "file"}
  /\ load.ok \in BOOLEAN
  /\ rc # "none" => pc = "exit"

\* The process was not ended by an argument or by a schema file.
Going == pc # "crashed" /\ ~(rc = "failure" /\ load.type = "none")

\* How far the file is, and what its answer was.
PhaseExact ==
  /\ pc = "args" => load.type = "none" /\ Settled(argv)
  /\ pc \in {"read", "parse", "loaded"} => load.type # "none"
  /\ pc \in {"read", "parse"} => ~load.ok /\ load.result = Unset
  /\ load.type = "none" => ~load.ok
  /\ load.ok => Parses(load.doc)
  /\ load.type = "file" => /\ load.path = opts.path /\ opts.path # "none"
                           /\ opts.output_type # "help"
  /\ rc = "success" => opts.output_type = "help" \/ (load.type = "file" /\ load.ok)

\* The options are those the arguments give by their places.
FileNamed ==
  IF opts.path = "none" THEN Operands(argv) = {}
  ELSE \E i \in Operands(argv) : Operands(argv) = {i} /\ argv[i].name = opts.path
OutputAsked ==
  opts.output_type # "help" =>
    IF Given(argv, "output-type") = {}
    THEN opts.output_type = IF load.type = "file" THEN "pretty" ELSE "none"
    ELSE \E i \in Given(argv, "output-type") :
            /\ Given(argv, "output-type") = {i}
            /\ opts.output_type = ValueOf(argv, i) /\ opts.output_type # "none"
DepthAsked ==
  Given(argv, "depth") # {} =>
    \E i \in Given(argv, "depth") :
       /\ \A j \in Given(argv, "depth") : j <= i
       /\ opts.max_depth = DepthOf(ValueOf(argv, i))
SchemaAsked ==
  IF load.type = "schema file" THEN EndsOption(argv, Len(argv), "schema")
  ELSE Given(argv, "schema") # {} => IsSchema(opts.schema)

\* What is allocated belongs to the streams, to the file being read, or to a schema option.
Belongs(r) ==
  /\ r[1] \in {"stream", "io", "value", "schema"}
  /\ r[1] = "io" => r = TheIo /\ load.type # "none" /\ ~load.ok /\ load.result = Unset
  /\ r[1] = "value" => r = <<"value", load.type>> /\ pc = "loaded"
  /\ r[1] = "schema" => r[2] \in 1 .. Len(argv) /\ EndsOption(argv, r[2], "schema")
LiveKnown == \A r \in live : Belongs(r)

IndInv ==
  /\ TypeOK
  /\ Going => /\ PhaseExact /\ FileNamed /\ OutputAsked /\ DepthAsked /\ SchemaAsked
              /\ LiveKnown
-----------------------------------------------------------------------------
(***************************************************************************)
(* Places of the arguments when more of them are taken.                    *)
(***************************************************************************)
LEMMA ParamKnown ==
  ASSUME NEW arg
  PROVE  OptionParam(arg) \in ParamNames \cup {"unknown"}
  <1> DEFINE fits(p) == IF arg.kind = "long" THEN IsPrefix(arg.name, p) ELSE arg.name = Letter[p]
             found == {i \in DOMAIN Params : fits(Params[i])}
             first == CHOOSE i \in found : \A j \in found : i <= j
  <1>1. DOMAIN Params = 1 .. 4 /\ \A i \in 1 .. 4 : Params[i] \in ParamNames
    BY DEF Params, ParamNames
  <1>2. ASSUME found # {}
        PROVE  first \in found
    <2>1. \E i \in found : \A j \in found : i <= j
      <3>1. found \subseteq 1 .. 4
        BY <1>1
      <3> HIDE DEF found
      <3>2. CASE 1 \in found
        BY <3>1, <3>2
      <3>3. CASE 1 \notin found /\ 2 \in found
        BY <3>1, <3>3
      <3>4. CASE 1 \notin found /\ 2 \notin found /\ 3 \in found
        BY <3>1, <3>4
      <3>5. CASE 1 \notin found /\ 2 \notin found /\ 3 \notin found
        <4>1. PICK x : x \in found
          BY <1>2
        <4>2. \A j \in found : j = 4
          BY <3>1, <3>5
        <4> QED
          BY <4>1, <4>2
      <3> QED
        BY <3>2, <3>3, <3>4, <3>5
    <2> HIDE DEF found
    <2> QED
      BY <2>1
  <1>3. FindParam(arg) = IF found = {} THEN "unknown" ELSE Params[first]
    BY DEF FindParam
  <1>4. FindParam(arg) \in ParamNames \cup {"unknown"}
    <2>1. CASE found = {}
      BY <1>3, <2>1
    <2>2. CASE found # {}
      <3>1. first \in 1 .. 4
        BY <1>1, <1>2, <2>2
      <3> HIDE DEF found, first
      <3> QED
        BY <1>1, <1>3, <2>2, <3>1
    <2> QED
      BY <2>1, <2>2
  <1> QED
    BY <1>4 DEF OptionParam

\* What was said of the first arguments stays when others follow.
Behind(s, t) ==
  /\ Len(s) <= Len(t) /\ \A i \in 1 .. Len(s) : t[i] = s[i]
  /\ Settled(s)

LEMMA PlacesKept ==
  ASSUME NEW s \in Seq(Args), NEW t \in Seq(Args), Behind(s, t), NEW i \in 1 .. Len(s)
  PROVE  /\ IsOption(t, i) = IsOption(s, i)
         /\ TakesNext(t, i) = TakesNext(s, i)
         /\ TakesNext(s, i) => i + 1 \in 1 .. Len(s)
         /\ ValueOf(t, i) = ValueOf(s, i)
  <1>1. Len(s) \in Nat /\ t[i] = s[i]
    BY DEF Behind
  <1>2. IsOption(t, i) = IsOption(s, i) /\ TakesNext(t, i) = TakesNext(s, i)
    BY <1>1 DEF IsOption, TakesNext
  <1>3. TakesNext(s, i) => i # Len(s)
    BY DEF Behind, Settled
  <1>4. TakesNext(s, i) => i + 1 \in 1 .. Len(s) /\ t[i + 1] = s[i + 1]
    BY <1>1, <1>3 DEF Behind
  <1>5. ValueOf(t, i) = ValueOf(s, i)
    BY <1>1, <1>2, <1>4 DEF ValueOf
  <1> QED
    BY <1>2, <1>4, <1>5

LEMMA GivenGrows ==
  ASSUME NEW s \in Seq(Args), NEW t \in Seq(Args), Behind(s, t), NEW p
  PROVE  /\ Given(s, p) \subseteq 1 .. Len(s)
         /\ Given(t, p) = Given(s, p) \cup
              {i \in Len(s) + 1 .. Len(t) : IsOption(t, i) /\ OptionParam(t[i]) = p}
  <1>1. Len(s) \in Nat /\ Len(t) \in Nat /\ DOMAIN s = 1 .. Len(s) /\ DOMAIN t = 1 .. Len(t)
    OBVIOUS
  <1>2. \A i \in 1 .. Len(s) : IsOption(t, i) = IsOption(s, i) /\ t[i] = s[i]
    BY PlacesKept DEF Behind
  <1>3. 1 .. Len(t) = (1 .. Len(s)) \cup (Len(s) + 1 .. Len(t))
    BY <1>1 DEF Behind
  <1> QED
    BY <1>1, <1>2, <1>3 DEF Given

LEMMA OperandsGrow ==
  ASSUME NEW s \in Seq(Args), NEW t \in Seq(Args), Behind(s, t)
  PROVE  /\ Operands(s) \subseteq 1 .. Len(s)
         /\ Operands(t) = Operands(s) \cup
              {i \in Len(s) + 1 .. Len(t) :
                 t[i].kind = "word" /\ ~(i > 1 /\ TakesNext(t, i - 1))}
  <1>1. Len(s) \in Nat /\ Len(t) \in Nat /\ DOMAIN s = 1 .. Len(s) /\ DOMAIN t = 1 .. Len(t)
    OBVIOUS
  <1>2. \A i \in 1 .. Len(s) : TakesNext(t, i) = TakesNext(s, i) /\ t[i] = s[i]
    BY PlacesKept DEF Behind
  <1>3. \A i \in 1 .. Len(s) : i > 1 => TakesNext(t, i - 1) = TakesNext(s, i - 1)
    BY <1>1, <1>2
  <1>4. 1 .. Len(t) = (1 .. Len(s)) \cup (Len(s) + 1 .. Len(t))
    BY <1>1 DEF Behind
  <1> QED
    BY <1>1, <1>2, <1>3, <1>4 DEF Operands

LEMMA EndsKept ==
  ASSUME NEW s \in Seq(Args), NEW t \in Seq(Args), Behind(s, t), NEW p,
         NEW n \in 1 .. Len(s), EndsOption(s, n, p)
  PROVE  EndsOption(t, n, p)
  <1>1. Len(s) \in Nat /\ DOMAIN s = 1 .. Len(s) /\ DOMAIN t = 1 .. Len(t) /\ Len(t) \in Nat
    OBVIOUS
  <1>2. Given(s, p) \subseteq 1 .. Len(s) /\ Given(s, p) \subseteq Given(t, p)
    BY GivenGrows
  <1>3. \A i \in 1 .. Len(s) : TakesNext(t, i) = TakesNext(s, i) /\ t[i] = s[i]
    BY PlacesKept DEF Behind
  <1>4. n \in DOMAIN t
    BY <1>1 DEF Behind
  <1>5. CASE n \in Given(s, p) /\ ~TakesNext(s, n)
    BY <1>2, <1>3, <1>5 DEF EndsOption
  <1>6. CASE /\ n - 1 \in Given(s, p) /\ TakesNext(s, n - 1)
             /\ n \in DOMAIN s /\ s[n].kind = "word"
    <2>1. n - 1 \in 1 .. Len(s)
      BY <1>2, <1>6
    <2>2. TakesNext(t, n - 1) /\ t[n] = s[n]
      BY <1>3, <1>6, <2>1
    <2> QED
      BY <1>2, <1>4, <1>6, <2>2 DEF EndsOption
  <1> QED
    BY <1>5, <1>6 DEF EndsOption

\* After s the option p was taken, with value v.
Took(s, t, p, v) ==
  /\ t \in Seq(Args) /\ Behind(s, t) /\ Len(s) < Len(t)
  /\ Settled(t)
  /\ Operands(t) = Operands(s)
  /\ Given(t, p) = Given(s, p) \cup {Len(s) + 1}
  /\ \A q \in ParamNames \ {p} : Given(t, q) = Given(s, q)
  /\ HasValue(p) => ValueOf(t, Len(s) + 1) = v /\ EndsOption(t, Len(t), p)

LEMMA WordTaken ==
  ASSUME NEW s \in Seq(Args), Settled(s), NEW w \in Args, w.kind = "word"
  PROVE  LET t == Append(s, w)
         IN  /\ t \in Seq(Args) /\ Behind(s, t) /\ Settled(t) /\ Len(t) = Len(s) + 1
             /\ t[Len(t)] = w
             /\ Operands(t) = Operands(s) \cup {Len(s) + 1}
             /\ \A p : Given(t, p) = Given(s, p)
  <1> DEFINE t == Append(s, w)
             n == Len(s) + 1
  <1>1. t \in Seq(Args) /\ Len(t) = n /\ n \in Nat /\ t[n] = w /\ n # 0
    OBVIOUS
  <1>2. Behind(s, t)
    BY DEF Behind
  <1>3. ~IsOption(t, n) /\ ~TakesNext(t, n) /\ t[n].kind = "word" /\ t # <<>>
    BY <1>1 DEF IsOption, TakesNext
  <1>4. ~(n > 1 /\ TakesNext(t, n - 1))
    <2>1. SUFFICES ASSUME n > 1
                   PROVE  ~TakesNext(t, n - 1)
      OBVIOUS
    <2>2. Len(s) \in 1 .. Len(s) /\ s # <<>> /\ n - 1 = Len(s)
      BY <2>1
    <2>3. TakesNext(t, Len(s)) = TakesNext(s, Len(s))
      BY <1>1, <1>2, <2>2, PlacesKept
    <2> QED
      BY <2>2, <2>3 DEF Settled
  <1> HIDE DEF t
  <1>5. Len(s) + 1 .. Len(t) = {n}
    BY <1>1
  <1>6. Operands(t) = Operands(s) \cup {n}
    <2>1. {i \in {n} : t[i].kind = "word" /\ ~(i > 1 /\ TakesNext(t, i - 1))} = {n}
      BY <1>3, <1>4
    <2> QED
      BY <1>1, <1>2, <1>5, <2>1, OperandsGrow
  <1>7. ASSUME NEW p
        PROVE  Given(t, p) = Given(s, p)
    <2>1. {i \in {n} : IsOption(t, i) /\ OptionParam(t[i]) = p} = {}
      BY <1>3
    <2>2. Given(t, p) = Given(s, p) \cup {i \in {n} : IsOption(t, i) /\ OptionParam(t[i]) = p}
      BY <1>1, <1>2, <1>5, GivenGrows
    <2> QED
      BY <2>1, <2>2
  <1>8. Settled(t)
    BY <1>1, <1>3 DEF Settled
  <1> QED
    BY <1>1, <1>2, <1>6, <1>7, <1>8 DEF t

LEMMA OptionTaken ==
  ASSUME NEW s \in Seq(Args), Settled(s), NEW arg \in Args, arg.kind # "word",
         NEW p \in ParamNames, p = OptionParam(arg), HasValue(p) => arg.value # NoValue
  PROVE  Took(s, Append(s, arg), p, arg.value)
  <1> DEFINE t == Append(s, arg)
             n == Len(s) + 1
  <1>1. t \in Seq(Args) /\ Len(t) = n /\ n \in Nat /\ t[n] = arg /\ n # 0 /\ t # <<>>
    OBVIOUS
  <1>2. Behind(s, t)
    BY DEF Behind
  <1>3. p # "unknown"
    BY DEF ParamNames
  <1>4. arg.kind \in {"long", "short"}
    BY <1>3, ArgsAssumption DEF OptionParam
  <1>5. IsOption(t, n) /\ OptionParam(t[n]) = p
    BY <1>1, <1>3, <1>4 DEF IsOption
  <1>6. ~TakesNext(t, n)
    BY <1>1 DEF TakesNext
  <1> HIDE DEF t
  <1>7. Len(s) + 1 .. Len(t) = {n}
    BY <1>1
  <1>8. Operands(t) = Operands(s)
    <2>1. {i \in {n} : t[i].kind = "word" /\ ~(i > 1 /\ TakesNext(t, i - 1))} = {}
      BY <1>1
    <2> QED
      BY <1>1, <1>2, <1>7, <2>1, OperandsGrow
  <1>9. Given(t, p) = Given(s, p) \cup {n}
    <2>1. {i \in {n} : IsOption(t, i) /\ OptionParam(t[i]) = p} = {n}
      BY <1>5
    <2> QED
      BY <1>1, <1>2, <1>7, <2>1, GivenGrows
  <1>10. ASSUME NEW q \in ParamNames \ {p}
         PROVE  Given(t, q) = Given(s, q)
    <2>1. {i \in {n} : IsOption(t, i) /\ OptionParam(t[i]) = q} = {}
      BY <1>5
    <2>2. Given(t, q) = Given(s, q) \cup {i \in {n} : IsOption(t, i) /\ OptionParam(t[i]) = q}
      BY <1>1, <1>2, <1>7, GivenGrows
    <2> QED
      BY <2>1, <2>2
  <1>11. ValueOf(t, n) = arg.value
    BY <1>1, <1>6 DEF ValueOf
  <1>12. EndsOption(t, Len(t), p)
    BY <1>1, <1>6, <1>9 DEF EndsOption
  <1>13. Settled(t) /\ Len(s) < Len(t)
    BY <1>1, <1>6 DEF Settled
  <1> QED
    BY <1>1, <1>2, <1>8, <1>9, <1>10, <1>11, <1>12, <1>13 DEF Took, t

LEMMA OptionWithNextTaken ==
  ASSUME NEW s \in Seq(Args), Settled(s), NEW arg \in Args, NEW next \in Args,
         arg.kind # "word", next.kind = "word",
         NEW p \in ParamNames, p = OptionParam(arg), HasValue(p), arg.value = NoValue
  PROVE  Took(s, s \o <<arg, next>>, p, next.name)
  <1> DEFINE t == s \o <<arg, next>>
             n == Len(s) + 1
  <1>1. /\ t \in Seq(Args) /\ Len(t) = n + 1 /\ n \in Nat /\ t[n] = arg /\ t[n + 1] = next
        /\ n # 0
    OBVIOUS
  <1>2. Behind(s, t)
    <2>1. \A i \in 1 .. Len(s) : t[i] = s[i]
      OBVIOUS
    <2> QED
      BY <1>1, <2>1 DEF Behind
  <1>3. p # "unknown"
    BY DEF ParamNames
  <1>4. arg.kind \in {"long", "short"}
    BY <1>3, ArgsAssumption DEF OptionParam
  <1>5. IsOption(t, n) /\ OptionParam(t[n]) = p /\ ~IsOption(t, n + 1)
    BY <1>1, <1>3, <1>4 DEF IsOption
  <1>6. TakesNext(t, n) /\ ~TakesNext(t, n + 1)
    BY <1>1, <1>5 DEF TakesNext
  <1> HIDE DEF t
  <1>7. Len(s) + 1 .. Len(t) = {n, n + 1}
    BY <1>1
  <1>8. Operands(t) = Operands(s)
    <2>1. t[n].kind # "word" /\ n + 1 > 1 /\ (n + 1) - 1 = n
      BY <1>1
    <2>2. {i \in {n, n + 1} : t[i].kind = "word" /\ ~(i > 1 /\ TakesNext(t, i - 1))} = {}
      BY <1>6, <2>1
    <2> QED
      BY <1>1, <1>2, <1>7, <2>2, OperandsGrow
  <1>9. Given(t, p) = Given(s, p) \cup {n}
    <2>1. {i \in {n, n + 1} : IsOption(t, i) /\ OptionParam(t[i]) = p} = {n}
      BY <1>5
    <2> QED
      BY <1>1, <1>2, <1>7, <2>1, GivenGrows
  <1>10. ASSUME NEW q \in ParamNames \ {p}
         PROVE  Given(t, q) = Given(s, q)
    <2>1. {i \in {n, n + 1} : IsOption(t, i) /\ OptionParam(t[i]) = q} = {}
      BY <1>5
    <2>2. Given(t, q) = Given(s, q) \cup {i \in {n, n + 1} : IsOption(t, i) /\ OptionParam(t[i]) = q}
      BY <1>1, <1>2, <1>7, GivenGrows
    <2> QED
      BY <2>1, <2>2
  <1>11. ValueOf(t, n) = next.name
    BY <1>1, <1>6 DEF ValueOf
  <1>12. EndsOption(t, Len(t), p)
    <2>1. Len(t) - 1 = n /\ Len(t) \in DOMAIN t /\ t[Len(t)].kind = "word"
      BY <1>1
    <2> QED
      BY <1>6, <1>9, <2>1 DEF EndsOption
  <1>13. Settled(t) /\ Len(s) < Len(t)
    BY <1>1, <1>6 DEF Settled
  <1> QED
    BY <1>1, <1>2, <1>8, <1>9, <1>10, <1>11, <1>12, <1>13 DEF Took, t

-----------------------------------------------------------------------------
(***************************************************************************)
(* One lemma per action.                                                   *)
(***************************************************************************)

\* Where an argument or a schema file ends the process nothing more is said.
LEMMA Ended ==
  ASSUME TypeOK', pc' = "crashed" \/ (rc' = "failure" /\ load'.type = "none")
  PROVE  IndInv'
  BY DEF IndInv, Going

\* What the loop over the arguments starts from.
LEMMA AtArgs ==
  ASSUME IndInv, pc = "args"
  PROVE  /\ argv \in Seq(Args) /\ Settled(argv)
         /\ DOMAIN NoLoad \subseteq DOMAIN load
         /\ {"max_depth", "output_type", "schema", "path"} \subseteq DOMAIN opts
         /\ rc = "none" /\ load.type = "none" /\ load.ok = FALSE
         /\ FileNamed /\ OutputAsked /\ DepthAsked /\ SchemaAsked /\ LiveKnown
  <1>1. rc = "none" /\ Going
    BY DEF IndInv, TypeOK, Going
  <1>2. PhaseExact /\ load.ok \in BOOLEAN
    BY <1>1 DEF IndInv, TypeOK
  <1>3. load.type = "none" /\ Settled(argv) /\ load.ok = FALSE
    BY <1>2 DEF PhaseExact
  <1> QED
    BY <1>1, <1>3 DEF IndInv, TypeOK

\* Nothing is freed while arguments are taken.
LEMMA LiveKept ==
  ASSUME argv \in Seq(Args), argv' \in Seq(Args), Behind(argv, argv'),
         LiveKnown, pc = "args", load.type = "none", live' = live
  PROVE  LiveKnown'
  <1> SUFFICES ASSUME NEW r \in live
               PROVE  Belongs(r)'
    BY DEF LiveKnown
  <1>1. Belongs(r)
    BY DEF LiveKnown
  <1>2. r[1] \in {"stream", "schema"}
    BY <1>1 DEF Belongs
  <1>3. ASSUME r[1] = "schema"
        PROVE  r[2] \in 1 .. Len(argv') /\ EndsOption(argv', r[2], "schema")
    <2>1. r[2] \in 1 .. Len(argv) /\ EndsOption(argv, r[2], "schema")
      BY <1>1, <1>3 DEF Belongs
    <2>2. r[2] \in 1 .. Len(argv')
      BY <2>1 DEF Behind
    <2> QED
      BY <2>1, <2>2, EndsKept
  <1> QED
    BY <1>2, <1>3 DEF Belongs

\* An option either ends the process or is taken with its value.
LEMMA OptionSplit ==
  ASSUME argv \in Seq(Args), Settled(argv),
         NEW arg \in Args, arg.kind # "word", NEW next \in Args \cup {NoArg},
         Option(arg, next)
  PROVE  \/ Exit("failure") /\ UNCHANGED <<opts, load>> /\ argv' \in Seq(Args)
         \/ \E p \in ParamNames : \E v : Callback(p, v) /\ Took(argv, argv', p, v)
  <1> DEFINE param == OptionParam(arg)
             needsNext == param # "unknown" /\ HasValue(param) /\ arg.value = NoValue
             value == IF needsNext THEN next.name ELSE arg.value
  <1>1. /\ next = NoArg \/ needsNext
        /\ argv' = IF next = NoArg THEN Append(argv, arg) ELSE argv \o <<arg, next>>
        /\ \/ Exit("failure") /\ UNCHANGED <<opts, load>>
           \/ /\ param # "unknown"
              /\ needsNext => next.kind = "word"
              /\ HasValue(param) \/ arg.value = NoValue
              /\ Callback(param, value)
    BY DEF Option
  <1>2. argv' \in Seq(Args)
    <2>1. CASE next = NoArg
      BY <1>1, <2>1
    <2>2. CASE next # NoArg
      <3>1. next \in Args
        BY <2>2
      <3> QED
        BY <1>1, <2>2, <3>1
    <2> QED
      BY <2>1, <2>2
  <1>3. param \in ParamNames \cup {"unknown"}
    BY ParamKnown
  <1>4. NoArg.kind = "end"
    BY DEF NoArg
  <1> HIDE DEF param
  <1>5. ASSUME param # "unknown", needsNext => next.kind = "word", Callback(param, value)
        PROVE  \E p \in ParamNames : \E v : Callback(p, v) /\ Took(argv, argv', p, v)
    <2>1. param \in ParamNames
      BY <1>3, <1>5
    <2>2. Took(argv, argv', param, value)
      <3>1. CASE needsNext
        <4>1. next.kind = "word" /\ next # NoArg /\ next \in Args
          BY <1>4, <1>5, <3>1
        <4>2. argv' = argv \o <<arg, next>> /\ value = next.name
          BY <1>1, <3>1, <4>1
        <4>3. Took(argv, argv \o <<arg, next>>, param, next.name)
          BY <2>1, <3>1, <4>1, OptionWithNextTaken DEF param
        <4> QED
          BY <4>2, <4>3
      <3>2. CASE ~needsNext
        <4>1. argv' = Append(argv, arg) /\ value = arg.value
          BY <1>1, <3>2
        <4>2. HasValue(param) => arg.value # NoValue
          BY <1>5, <3>2
        <4>3. Took(argv, Append(argv, arg), param, arg.value)
          BY <2>1, <4>2, OptionTaken DEF param
        <4> QED
          BY <4>1, <4>3
      <3> QED
        BY <3>1, <3>2
    <2> QED
      BY <1>5, <2>1, <2>2
  <1> QED
    BY <1>1, <1>2, <1>5

\* Arguments that are not about a part of the options leave it as it was.
LEMMA FileKept ==
  ASSUME argv \in Seq(Args), argv' \in Seq(Args), Behind(argv, argv'),
         Operands(argv') = Operands(argv), opts'.path = opts.path, FileNamed
  PROVE  FileNamed'
  <1>1. Operands(argv) \subseteq 1 .. Len(argv)
    BY OperandsGrow
  <1>2. \A i \in Operands(argv) : argv'[i] = argv[i]
    BY <1>1 DEF Behind
  <1> QED
    BY <1>2 DEF FileNamed

LEMMA OutputKept ==
  ASSUME argv \in Seq(Args), argv' \in Seq(Args), Behind(argv, argv'),
         Given(argv', "output-type") = Given(argv, "output-type"),
         opts'.output_type \in {opts.output_type, "help"},
         load.type # "file", load'.type # "file", OutputAsked
  PROVE  OutputAsked'
  <1>1. Given(argv, "output-type") \subseteq 1 .. Len(argv)
    BY GivenGrows
  <1>2. \A i \in Given(argv, "output-type") : ValueOf(argv', i) = ValueOf(argv, i)
    BY <1>1, PlacesKept
  <1> QED
    BY <1>2 DEF OutputAsked

LEMMA DepthKept ==
  ASSUME argv \in Seq(Args), argv' \in Seq(Args), Behind(argv, argv'),
         Given(argv', "depth") = Given(argv, "depth"), opts'.max_depth = opts.max_depth,
         DepthAsked
  PROVE  DepthAsked'
  <1>1. Given(argv, "depth") \subseteq 1 .. Len(argv)
    BY GivenGrows
  <1>2. \A i \in Given(argv, "depth") : ValueOf(argv', i) = ValueOf(argv, i)
    BY <1>1, PlacesKept
  <1> QED
    BY <1>2 DEF DepthAsked

LEMMA SchemaKept ==
  ASSUME Given(argv', "schema") = Given(argv, "schema"), opts'.schema = opts.schema,
         load.type = "none", load'.type = "none", SchemaAsked
  PROVE  SchemaAsked'
  BY DEF SchemaAsked

\* The option that was taken changes its part of the options.
LEMMA CallbackKeeps ==
  ASSUME IndInv, pc = "args", NEW p \in ParamNames, NEW v,
         Callback(p, v), Took(argv, argv', p, v), live' = live
  PROVE  IndInv'
  <1>1. /\ argv \in Seq(Args) /\ Settled(argv)
        /\ DOMAIN NoLoad \subseteq DOMAIN load
        /\ {"max_depth", "output_type", "schema", "path"} \subseteq DOMAIN opts
        /\ rc = "none" /\ load.type = "none" /\ load.ok = FALSE
        /\ FileNamed /\ OutputAsked /\ DepthAsked /\ SchemaAsked /\ LiveKnown
    BY AtArgs
  <1>2. /\ argv' \in Seq(Args) /\ Behind(argv, argv') /\ Settled(argv')
        /\ Operands(argv') = Operands(argv)
        /\ \A q \in ParamNames \ {p} : Given(argv', q) = Given(argv, q)
    BY DEF Took
  <1>3. LiveKnown'
    BY <1>1, <1>2, LiveKept
  <1>4. CASE p = "depth"
    <2>1. /\ opts' = [opts EXCEPT !.max_depth = DepthOf(v)]
          /\ pc' = "args" /\ load' = load /\ rc' = "none"
      BY <1>1, <1>4 DEF Callback, CallbackDepth, DepthOf
    <2>2. /\ opts'.max_depth = DepthOf(v) /\ opts'.output_type = opts.output_type
          /\ opts'.schema = opts.schema /\ opts'.path = opts.path /\ DOMAIN opts' = DOMAIN opts
      BY <1>1, <2>1
    <2>3. /\ Given(argv', "output-type") = Given(argv, "output-type")
          /\ Given(argv', "schema") = Given(argv, "schema")
      BY <1>2, <1>4 DEF ParamNames
    <2>4. FileNamed' /\ OutputAsked' /\ SchemaAsked'
      BY <1>1, <1>2, <2>1, <2>2, <2>3, FileKept, OutputKept, SchemaKept
    <2>5. DepthAsked'
      <3> DEFINE n == Len(argv) + 1
      <3>1. Given(argv', "depth") = Given(argv, "depth") \cup {n} /\ ValueOf(argv', n) = v
        BY <1>4 DEF Took, HasValue
      <3>2. Given(argv, "depth") \subseteq 1 .. Len(argv) /\ Len(argv) \in Nat
        BY <1>1, <1>2, GivenGrows
      <3>3. \A j \in Given(argv', "depth") : j <= n
        BY <3>1, <3>2
      <3> HIDE DEF n
      <3> QED
        BY <2>2, <3>1, <3>3 DEF DepthAsked
    <2>6. TypeOK' /\ PhaseExact'
      BY <1>1, <1>2, <2>1, <2>2 DEF TypeOK, PhaseExact
    <2> QED
      BY <1>3, <2>4, <2>5, <2>6 DEF IndInv
  <1>5. CASE p = "help"
    <2>1. opts' = [opts EXCEPT !.output_type = "help"] /\ pc' = "args" /\ load' = load /\ rc' = "none"
      BY <1>1, <1>5 DEF Callback, CallbackHelp
    <2>2. /\ opts'.max_depth = opts.max_depth /\ opts'.output_type = "help"
          /\ opts'.schema = opts.schema /\ opts'.path = opts.path /\ DOMAIN opts' = DOMAIN opts
      BY <1>1, <2>1
    <2>3. /\ Given(argv', "output-type") = Given(argv, "output-type")
          /\ Given(argv', "schema") = Given(argv, "schema")
          /\ Given(argv', "depth") = Given(argv, "depth")
      BY <1>2, <1>5 DEF ParamNames
    <2>4. FileNamed' /\ OutputAsked' /\ SchemaAsked' /\ DepthAsked'
      BY <1>1, <1>2, <2>1, <2>2, <2>3, FileKept, OutputKept, SchemaKept, DepthKept
    <2>6. TypeOK' /\ PhaseExact'
      BY <1>1, <1>2, <2>1, <2>2 DEF TypeOK, PhaseExact
    <2> QED
      BY <1>3, <2>4, <2>6 DEF IndInv
  <1>6. CASE p = "output-type"
    <2>1. CASE Exit("failure") /\ UNCHANGED <<opts, load>>
      <3>1. TypeOK' /\ rc' = "failure" /\ load'.type = "none"
        BY <1>1, <1>2, <2>1 DEF TypeOK, Exit
      <3> QED
        BY <3>1, Ended
    <2>2. CASE /\ opts.output_type = "none" /\ v \in {"minimal", "pretty", "debug"}
               /\ opts' = [opts EXCEPT !.output_type = v] /\ UNCHANGED <<pc, load, rc>>
      <3>1. /\ opts'.max_depth = opts.max_depth /\ opts'.output_type = v
            /\ opts'.schema = opts.schema /\ opts'.path = opts.path /\ DOMAIN opts' = DOMAIN opts
        BY <1>1, <2>2
      <3>2. /\ Given(argv', "schema") = Given(argv, "schema")
            /\ Given(argv', "depth") = Given(argv, "depth")
        BY <1>2, <1>6 DEF ParamNames
      <3>3. FileNamed' /\ SchemaAsked' /\ DepthAsked'
        BY <1>1, <1>2, <2>2, <3>1, <3>2, FileKept, SchemaKept, DepthKept
      <3>4. OutputAsked'
        <4> DEFINE n == Len(argv) + 1
        <4>1. /\ Given(argv', "output-type") = Given(argv, "output-type") \cup {n}
              /\ ValueOf(argv', n) = v
          BY <1>6 DEF Took, HasValue
        <4>2. Given(argv, "output-type") = {}
          BY <1>1, <2>2 DEF OutputAsked
        <4>3. Given(argv', "output-type") = {n}
          BY <4>1, <4>2
        <4> HIDE DEF n
        <4> QED
          BY <2>2, <3>1, <4>1, <4>3 DEF OutputAsked
      <3>5. TypeOK' /\ PhaseExact'
        BY <1>1, <1>2, <2>2, <3>1 DEF TypeOK, PhaseExact
      <3> QED
        BY <1>3, <3>3, <3>4, <3>5 DEF IndInv
    <2> QED
      BY <1>6, <2>1, <2>2 DEF Callback, CallbackOutput
  <1>7. CASE p = "schema"
    <2>1. /\ opts' = opts /\ rc' = "none" /\ pc' = "read"
          /\ load' = [NoLoad EXCEPT !.type = "schema file", !.path = v]
      BY <1>1, <1>7 DEF Callback, CallbackSchema, Open
    <2>2. /\ load'.type = "schema file" /\ load'.ok = FALSE /\ load'.result = Unset
          /\ DOMAIN load' = DOMAIN NoLoad
      BY <2>1 DEF NoLoad
    <2>3. /\ Given(argv', "output-type") = Given(argv, "output-type")
          /\ Given(argv', "depth") = Given(argv, "depth")
      BY <1>2, <1>7 DEF ParamNames
    <2>4. FileNamed' /\ OutputAsked' /\ DepthAsked'
      BY <1>1, <1>2, <2>1, <2>2, <2>3, FileKept, OutputKept, DepthKept
    <2>5. SchemaAsked'
      <3>1. EndsOption(argv', Len(argv'), "schema")
        BY <1>7 DEF Took, HasValue
      <3> QED
        BY <2>2, <3>1 DEF SchemaAsked
    <2>6. TypeOK' /\ PhaseExact'
      BY <1>1, <1>2, <2>1, <2>2 DEF TypeOK, PhaseExact
    <2> QED
      BY <1>3, <2>4, <2>5, <2>6 DEF IndInv
  <1> QED
    BY <1>4, <1>5, <1>6, <1>7 DEF ParamNames

LEMMA TakeOptionKeeps ==
  ASSUME IndInv, TakeOption
  PROVE  IndInv'
  <1>1. PICK arg \in {a \in Args : a.kind # "word"}, next \in Args \cup {NoArg} :
           Option(arg, next)
    BY DEF TakeOption
  <1>2. pc = "args" /\ live' = live
    BY DEF TakeOption
  <1>3. /\ argv \in Seq(Args) /\ Settled(argv)
        /\ DOMAIN NoLoad \subseteq DOMAIN load
        /\ {"max_depth", "output_type", "schema", "path"} \subseteq DOMAIN opts
        /\ rc = "none" /\ load.type = "none" /\ load.ok = FALSE
    BY <1>2, AtArgs
  <1>4. \/ Exit("failure") /\ UNCHANGED <<opts, load>> /\ argv' \in Seq(Args)
        \/ \E p \in ParamNames : \E v : Callback(p, v) /\ Took(argv, argv', p, v)
    BY <1>1, <1>3, OptionSplit
  <1>5. CASE Exit("failure") /\ UNCHANGED <<opts, load>> /\ argv' \in Seq(Args)
    <2>1. TypeOK' /\ rc' = "failure" /\ load'.type = "none"
      BY <1>3, <1>5 DEF TypeOK, Exit
    <2> QED
      BY <2>1, Ended
  <1>6. CASE \E p \in ParamNames : \E v : Callback(p, v) /\ Took(argv, argv', p, v)
    BY <1>2, <1>6, CallbackKeeps
  <1> QED
    BY <1>4, <1>5, <1>6

LEMMA TakeFileKeeps ==
  ASSUME IndInv, TakeFile
  PROVE  IndInv'
  <1>1. pc = "args" /\ live' = live /\ load' = load
    BY DEF TakeFile
  <1>2. /\ argv \in Seq(Args) /\ Settled(argv)
        /\ DOMAIN NoLoad \subseteq DOMAIN load
        /\ {"max_depth", "output_type", "schema", "path"} \subseteq DOMAIN opts
        /\ rc = "none" /\ load.type = "none" /\ load.ok = FALSE
        /\ FileNamed /\ OutputAsked /\ DepthAsked /\ SchemaAsked /\ LiveKnown
    BY <1>1, AtArgs
  <1>3. PICK arg \in {a \in Args : a.kind = "word"} :
          /\ argv' = Append(argv, arg)
          /\ IF opts.path = "none"
             THEN opts' = [opts EXCEPT !.path = arg.name] /\ UNCHANGED <<pc, rc>>
             ELSE Exit("failure") /\ UNCHANGED opts
    BY DEF TakeFile
  <1>4. arg \in Args /\ arg.kind = "word" /\ arg.name # "none"
    BY ArgsAssumption
  <1>5. /\ argv' \in Seq(Args) /\ Behind(argv, argv') /\ Settled(argv')
        /\ Operands(argv') = Operands(argv) \cup {Len(argv) + 1}
        /\ \A p : Given(argv', p) = Given(argv, p)
        /\ Len(argv') = Len(argv) + 1 /\ argv'[Len(argv')] = arg
    BY <1>2, <1>3, <1>4, WordTaken
  <1>6. CASE opts.path # "none"
    <2>1. TypeOK' /\ rc' = "failure" /\ load'.type = "none"
      BY <1>1, <1>2, <1>3, <1>5, <1>6 DEF TypeOK, Exit
    <2> QED
      BY <2>1, Ended
  <1>7. CASE opts.path = "none"
    <2>1. opts' = [opts EXCEPT !.path = arg.name] /\ pc' = "args" /\ rc' = "none"
      BY <1>1, <1>2, <1>3, <1>7
    <2>2. /\ opts'.max_depth = opts.max_depth /\ opts'.output_type = opts.output_type
          /\ opts'.schema = opts.schema /\ opts'.path = arg.name /\ DOMAIN opts' = DOMAIN opts
      BY <1>2, <2>1
    <2>3. OutputAsked' /\ DepthAsked' /\ SchemaAsked'
      BY <1>1, <1>2, <1>5, <2>2, OutputKept, DepthKept, SchemaKept
    <2>4. FileNamed'
      <3>1. Operands(argv) = {}
        BY <1>2, <1>7 DEF FileNamed
      <3>2. Operands(argv') = {Len(argv')}
        BY <1>5, <3>1
      <3> QED
        BY <1>4, <1>5, <2>2, <3>2 DEF FileNamed
    <2>5. LiveKnown'
      BY <1>1, <1>2, <1>5, LiveKept
    <2>6. TypeOK' /\ PhaseExact'
      BY <1>1, <1>2, <1>5, <2>1, <2>2 DEF TypeOK, PhaseExact
    <2> QED
      BY <2>3, <2>4, <2>5, <2>6 DEF IndInv
  <1> QED
    BY <1>6, <1>7

LEMMA EndOfArgsKeeps ==
  ASSUME IndInv, EndOfArgs
  PROVE  IndInv'
  <1>1. pc = "args" /\ argv' = argv
    BY DEF EndOfArgs
  <1>2. /\ argv \in Seq(Args) /\ Settled(argv)
        /\ DOMAIN NoLoad \subseteq DOMAIN load
        /\ {"max_depth", "output_type", "schema", "path"} \subseteq DOMAIN opts
        /\ rc = "none" /\ load.type = "none" /\ load.ok = FALSE
        /\ FileNamed /\ OutputAsked /\ DepthAsked /\ SchemaAsked /\ LiveKnown
    BY <1>1, AtArgs
  <1>3. CASE opts.output_type = "help" /\ Exit("success") /\ UNCHANGED <<opts, load, live, out>>
    <2>1. TypeOK' /\ PhaseExact'
      BY <1>1, <1>2, <1>3 DEF TypeOK, PhaseExact, Exit
    <2>2. FileNamed' /\ OutputAsked' /\ DepthAsked' /\ SchemaAsked'
      BY <1>1, <1>2, <1>3 DEF FileNamed, OutputAsked, DepthAsked, SchemaAsked
    <2>3. LiveKnown'
      BY <1>1, <1>2, <1>3 DEF LiveKnown, Belongs, Exit, TheIo
    <2> QED
      BY <2>1, <2>2, <2>3 DEF IndInv
  <1>4. CASE /\ opts.output_type # "help" /\ opts.path = "none"
             /\ Exit("failure") /\ UNCHANGED <<opts, load, live, out>>
    <2>1. TypeOK' /\ rc' = "failure" /\ load'.type = "none"
      BY <1>1, <1>2, <1>4 DEF TypeOK, Exit
    <2> QED
      BY <2>1, Ended
  <1>5. CASE /\ opts.output_type # "help" /\ opts.path # "none"
             /\ Open("file", opts.path)
             /\ opts' = [opts EXCEPT !.output_type = IF @ = "none" THEN "pretty" ELSE @]
             /\ live' = live \cup {<<"stream", 3>>} /\ rc' = rc
    <2>1. /\ opts'.max_depth = opts.max_depth /\ opts'.schema = opts.schema
          /\ opts'.path = opts.path /\ DOMAIN opts' = DOMAIN opts
          /\ opts'.output_type = IF opts.output_type = "none" THEN "pretty" ELSE opts.output_type
      BY <1>2, <1>5
    <2>2. /\ load'.type = "file" /\ load'.path = opts.path /\ load'.ok = FALSE
          /\ load'.result = Unset /\ DOMAIN load' = DOMAIN NoLoad /\ pc' = "read"
      BY <1>5 DEF Open, NoLoad
    <2>3. TypeOK' /\ PhaseExact'
      BY <1>1, <1>2, <1>5, <2>1, <2>2 DEF TypeOK, PhaseExact
    <2>4. FileNamed' /\ DepthAsked' /\ SchemaAsked'
      BY <1>1, <1>2, <2>1, <2>2 DEF FileNamed, DepthAsked, SchemaAsked
    <2>5. OutputAsked'
      BY <1>1, <1>2, <1>5, <2>1, <2>2 DEF OutputAsked
    <2>6. LiveKnown'
      <3> SUFFICES ASSUME NEW r \in live'
                   PROVE  Belongs(r)'
        BY DEF LiveKnown
      <3>1. CASE r \in live
        BY <1>1, <1>2, <3>1 DEF LiveKnown, Belongs
      <3>2. CASE r = <<"stream", 3>>
        BY <3>2 DEF Belongs
      <3> QED
        BY <1>5, <3>1, <3>2
    <2> QED
      BY <2>3, <2>4, <2>5, <2>6 DEF IndInv
  <1> QED
    BY <1>3, <1>4, <1>5 DEF EndOfArgs

\* What reading a file starts from.
LEMMA AtFile ==
  ASSUME IndInv, pc \in {"read", "parse", "loaded"}
  PROVE  /\ TypeOK /\ PhaseExact
         /\ rc = "none" /\ load.type \in {"schema file", "file"}
         /\ FileNamed /\ OutputAsked /\ DepthAsked /\ SchemaAsked /\ LiveKnown
  <1>1. rc = "none" /\ Going
    BY DEF IndInv, TypeOK, Going
  <1> QED
    BY <1>1 DEF IndInv, TypeOK, PhaseExact

LEMMA OptionsKept ==
  ASSUME argv' = argv, opts' = opts, load'.type = load.type,
         FileNamed, OutputAsked, DepthAsked, SchemaAsked
  PROVE  FileNamed' /\ OutputAsked' /\ DepthAsked' /\ SchemaAsked'
  BY DEF FileNamed, OutputAsked, DepthAsked, SchemaAsked

LEMMA OpenFileKeeps ==
  ASSUME IndInv, OpenFile
  PROVE  IndInv'
  <1>1. pc = "read" /\ argv' = argv /\ opts' = opts /\ rc' = rc
    BY DEF OpenFile
  <1>2. /\ TypeOK /\ PhaseExact
        /\ rc = "none" /\ load.type \in {"schema file", "file"}
        /\ FileNamed /\ OutputAsked /\ DepthAsked /\ SchemaAsked /\ LiveKnown
    BY <1>1, AtFile
  <1>3. load.ok = FALSE /\ load.result = Unset
    BY <1>1, <1>2 DEF PhaseExact, TypeOK
  <1>4. CASE pc' = "loaded" /\ UNCHANGED <<load, live>>
    <2>1. TypeOK' /\ PhaseExact'
      BY <1>1, <1>2, <1>3, <1>4 DEF TypeOK, PhaseExact, Parses
    <2>2. FileNamed' /\ OutputAsked' /\ DepthAsked' /\ SchemaAsked'
      BY <1>1, <1>2, <1>4, OptionsKept
    <2>3. LiveKnown'
      BY <1>1, <1>2, <1>4 DEF LiveKnown, Belongs, TheIo
    <2> QED
      BY <2>1, <2>2, <2>3 DEF IndInv
  <1>5. ASSUME load' = [load EXCEPT !.toRead = Files[load.path].size],
               live' = live \cup {TheIo}, pc' = pc
        PROVE  IndInv'
    <2>1. /\ DOMAIN load' = DOMAIN load /\ load'.type = load.type /\ load'.ok = FALSE
          /\ load'.result = Unset /\ load'.path = load.path
      BY <1>2, <1>3, <1>5 DEF TypeOK, NoLoad
    <2>2. TypeOK' /\ PhaseExact'
      BY <1>1, <1>2, <1>3, <1>5, <2>1 DEF TypeOK, PhaseExact
    <2>3. FileNamed' /\ OutputAsked' /\ DepthAsked' /\ SchemaAsked'
      BY <1>1, <1>2, <2>1, OptionsKept
    <2>4. LiveKnown'
      <3> SUFFICES ASSUME NEW r \in live'
                   PROVE  Belongs(r)'
        BY DEF LiveKnown
      <3>1. TheIo' = TheIo
        BY <1>1, <2>1 DEF TheIo
      <3>2. CASE r \in live
        BY <1>1, <1>2, <1>5, <2>1, <3>1, <3>2 DEF LiveKnown, Belongs
      <3>3. CASE r = TheIo
        <4>1. r[1] = "io"
          BY <3>3 DEF TheIo
        <4> QED
          BY <1>2, <2>1, <3>1, <3>3, <4>1 DEF Belongs
      <3> QED
        BY <1>5, <3>2, <3>3
    <2> QED
      BY <2>2, <2>3, <2>4 DEF IndInv
  <1> QED
    BY <1>4, <1>5 DEF OpenFile

LEMMA ReadFileKeeps ==
  ASSUME IndInv, ReadFile
  PROVE  IndInv'
  <1>1. pc = "read" /\ argv' = argv /\ opts' = opts /\ rc' = rc /\ live' = live
    BY DEF ReadFile
  <1>2. /\ TypeOK /\ PhaseExact
        /\ rc = "none" /\ load.type \in {"schema file", "file"}
        /\ FileNamed /\ OutputAsked /\ DepthAsked /\ SchemaAsked /\ LiveKnown
    BY <1>1, AtFile
  <1>3. load.ok = FALSE /\ load.result = Unset
    BY <1>1, <1>2 DEF PhaseExact, TypeOK
  <1>4. \E io, total, got :
          load' = [load EXCEPT !.io = io, !.total = total, !.pos = @ + got]
    BY DEF ReadFile
  <1>5. /\ DOMAIN load' = DOMAIN load /\ load'.type = load.type /\ load'.ok = FALSE
        /\ load'.result = Unset /\ load'.path = load.path
    BY <1>2, <1>3, <1>4 DEF TypeOK, NoLoad
  <1>6. pc' \in {"read", "loaded", "parse"}
    BY DEF ReadFile
  <1>7. TypeOK' /\ PhaseExact'
    BY <1>1, <1>2, <1>5, <1>6 DEF TypeOK, PhaseExact
  <1>8. FileNamed' /\ OutputAsked' /\ DepthAsked' /\ SchemaAsked'
    BY <1>1, <1>2, <1>5, OptionsKept
  <1>9. LiveKnown'
    <2>1. TheIo' = TheIo
      BY <1>1, <1>5 DEF TheIo
    <2> QED
      BY <1>1, <1>2, <1>5, <2>1 DEF LiveKnown, Belongs
  <1> QED
    BY <1>7, <1>8, <1>9 DEF IndInv

LEMMA ParseFileKeeps ==
  ASSUME IndInv, ParseFile
  PROVE  IndInv'
  <1>1. pc = "parse" /\ pc' = "loaded" /\ argv' = argv /\ opts' = opts /\ rc' = rc
    BY DEF ParseFile
  <1>2. /\ TypeOK /\ PhaseExact
        /\ rc = "none" /\ load.type \in {"schema file", "file"}
        /\ FileNamed /\ OutputAsked /\ DepthAsked /\ SchemaAsked /\ LiveKnown
    BY <1>1, AtFile
  <1>3. PICK doc \in Documents :
          /\ load' = [load EXCEPT !.doc = doc, !.ok = Parses(doc),
                                  !.result = IF Parses(doc) THEN doc ELSE [t |-> "error"]]
          /\ live' = IoFreed(Parses(doc)) \cup {<<"value", load.type>>}
    BY DEF ParseFile
  <1>4. Parses(doc) \in BOOLEAN
    BY DEF Parses
  <1>5. /\ DOMAIN load' = DOMAIN load /\ load'.type = load.type /\ load'.ok = Parses(doc)
        /\ load'.doc = doc /\ load'.path = load.path
    BY <1>2, <1>3 DEF TypeOK, NoLoad
  <1>6. Parses(doc)' = Parses(doc)
    BY <1>1 DEF Parses
  <1>7. TypeOK' /\ PhaseExact'
    <2>1. TypeOK'
      BY <1>1, <1>2, <1>4, <1>5 DEF TypeOK
    <2>2. load'.ok => Parses(load.doc)'
      BY <1>1, <1>5 DEF Parses
    <2> QED
      BY <1>1, <1>2, <1>5, <2>1, <2>2 DEF PhaseExact
  <1>8. FileNamed' /\ OutputAsked' /\ DepthAsked' /\ SchemaAsked'
    BY <1>1, <1>2, <1>5, OptionsKept
  <1>9. LiveKnown'
    <2> SUFFICES ASSUME NEW r \in live'
                 PROVE  Belongs(r)'
      BY DEF LiveKnown
    <2>1. CASE r \in live /\ r # TheIo
      <3>1. Belongs(r)
        BY <1>2, <2>1 DEF LiveKnown
      <3>2. r[1] \in {"stream", "schema"}
        BY <1>1, <2>1, <3>1 DEF Belongs
      <3> QED
        BY <1>1, <3>1, <3>2 DEF Belongs
    <2>2. CASE r = <<"value", load.type>>
      BY <1>1, <1>5, <2>2 DEF Belongs
    <2> QED
      BY <1>3, <2>1, <2>2 DEF IoFreed
  <1> QED
    BY <1>7, <1>8, <1>9 DEF IndInv

LEMMA SchemaLoadedKeeps ==
  ASSUME IndInv, SchemaLoaded
  PROVE  IndInv'
  <1>1. pc = "loaded" /\ load.type = "schema file" /\ load' = NoLoad /\ argv' = argv
    BY DEF SchemaLoaded
  <1>2. /\ TypeOK /\ PhaseExact
        /\ rc = "none" /\ load.type \in {"schema file", "file"}
        /\ FileNamed /\ OutputAsked /\ DepthAsked /\ SchemaAsked /\ LiveKnown
    BY <1>1, AtFile
  <1>3. load'.type = "none" /\ load'.ok = FALSE /\ DOMAIN load' = DOMAIN NoLoad
    BY <1>1 DEF NoLoad
  <1>4. CASE pc' = "crashed" /\ UNCHANGED <<opts, live, out, rc>>
    <2>1. TypeOK'
      BY <1>1, <1>2, <1>3, <1>4 DEF TypeOK
    <2> QED
      BY <1>4, <2>1, Ended
  <1>5. CASE /\ opts' = IF load.ok THEN [opts EXCEPT !.schema = load.result] ELSE opts
             /\ live' = (live \ {<<"value", load.type>>})
                           \cup (IF load.ok THEN {<<"schema", Len(argv)>>} ELSE {})
             /\ IF load.ok /\ IsSchema(load.result) THEN pc' = "args" /\ UNCHANGED rc
                ELSE Exit("failure")
    <2>1. DOMAIN opts' = DOMAIN opts
      BY <1>5
    <2>2. CASE ~(load.ok /\ IsSchema(load.result))
      <3>1. rc' = "failure" /\ pc' = "exit"
        BY <1>5, <2>2 DEF Exit
      <3>2. TypeOK'
        BY <1>1, <1>2, <1>3, <2>1, <3>1 DEF TypeOK
      <3> QED
        BY <1>3, <3>1, <3>2, Ended
    <2>3. CASE load.ok /\ IsSchema(load.result)
      <3>1. /\ pc' = "args" /\ rc' = "none"
            /\ opts'.schema = load.result /\ opts'.path = opts.path
            /\ opts'.max_depth = opts.max_depth /\ opts'.output_type = opts.output_type
        BY <1>2, <1>5, <2>3 DEF TypeOK
      <3>2. EndsOption(argv, Len(argv), "schema")
        BY <1>1, <1>2 DEF SchemaAsked
      <3>3. Settled(argv) /\ Len(argv) \in 1 .. Len(argv)
        <4>0. argv \in Seq(Args)
          BY <1>2 DEF TypeOK
        <4>1. DOMAIN argv = 1 .. Len(argv) /\ Len(argv) \in Nat
          BY <4>0
        <4>2. Len(argv) \in DOMAIN argv /\ ~TakesNext(argv, Len(argv))
          BY <3>2 DEF EndsOption, Given, TakesNext, IsOption
        <4> QED
          BY <4>1, <4>2 DEF Settled
      <3>4. TypeOK' /\ PhaseExact'
        BY <1>1, <1>2, <1>3, <2>1, <3>1, <3>3 DEF TypeOK, PhaseExact
      <3>5. FileNamed' /\ OutputAsked' /\ DepthAsked'
        BY <1>1, <1>2, <1>3, <3>1 DEF FileNamed, OutputAsked, DepthAsked
      <3>6. SchemaAsked'
        BY <1>3, <2>3, <3>1 DEF SchemaAsked
      <3>7. LiveKnown'
        <4> SUFFICES ASSUME NEW r \in live'
                     PROVE  Belongs(r)'
          BY DEF LiveKnown
        <4>1. CASE r \in live /\ r # <<"value", load.type>>
          <5>1. Belongs(r)
            BY <1>2, <4>1 DEF LiveKnown
          <5>2. r[1] \in {"stream", "schema"}
            BY <2>3, <4>1, <5>1 DEF Belongs
          <5> QED
            BY <1>1, <5>1, <5>2 DEF Belongs
        <4>2. CASE r = <<"schema", Len(argv)>>
          BY <1>1, <3>2, <3>3, <4>2 DEF Belongs
        <4> QED
          BY <1>5, <2>3, <4>1, <4>2
      <3> QED
        BY <3>4, <3>5, <3>6, <3>7 DEF IndInv
    <2> QED
      BY <2>2, <2>3
  <1> QED
    BY <1>4, <1>5 DEF SchemaLoaded

LEMMA ProcessFileKeeps ==
  ASSUME IndInv, ProcessFile
  PROVE  IndInv'
  <1>1. pc = "loaded" /\ load.type = "file" /\ argv' = argv /\ opts' = opts /\ load' = load
    BY DEF ProcessFile
  <1>2. /\ TypeOK /\ PhaseExact
        /\ rc = "none" /\ load.type \in {"schema file", "file"}
        /\ FileNamed /\ OutputAsked /\ DepthAsked /\ SchemaAsked /\ LiveKnown
    BY <1>1, AtFile
  <1>3. CASE pc' = "crashed" /\ UNCHANGED <<live, out, rc>>
    <2>1. TypeOK'
      BY <1>1, <1>2, <1>3 DEF TypeOK
    <2> QED
      BY <1>3, <2>1, Ended
  <1>4. CASE /\ live' = Destroy(live \ {<<"value", load.type>>})
             /\ Exit(IF load.ok THEN "success" ELSE "failure")
    <2>1. pc' = "exit" /\ rc' = IF load.ok THEN "success" ELSE "failure"
      BY <1>4 DEF Exit
    <2>2. TypeOK'
      BY <1>1, <1>2, <2>1 DEF TypeOK
    <2>3. PhaseExact'
      <3>1. load'.ok => Parses(load.doc)'
        BY <1>1, <1>2 DEF PhaseExact, Parses
      <3> QED
        BY <1>1, <1>2, <2>1, <3>1 DEF PhaseExact
    <2>4. FileNamed' /\ OutputAsked' /\ DepthAsked' /\ SchemaAsked'
      BY <1>1, <1>2, OptionsKept
    <2>5. LiveKnown'
      <3> SUFFICES ASSUME NEW r \in live'
                   PROVE  Belongs(r)'
        BY DEF LiveKnown
      <3>1. r \in live /\ r # <<"value", load.type>>
        BY <1>4 DEF Destroy
      <3>2. Belongs(r)
        BY <1>2, <3>1 DEF LiveKnown
      <3>3. TheIo' = TheIo
        BY <1>1 DEF TheIo
      <3> QED
        BY <1>1, <3>1, <3>2, <3>3 DEF Belongs
    <2> QED
      BY <2>2, <2>3, <2>4, <2>5 DEF IndInv
  <1> QED
    BY <1>3, <1>4 DEF ProcessFile

LEMMA InitInv ==
  ASSUME Init
  PROVE  IndInv
  <1>1. /\ pc = "args" /\ argv = <<>> /\ rc = "none" /\ load = NoLoad
        /\ live = {<<"stream", 1>>, <<"stream", 2>>}
        /\ opts = [max_depth |-> 0, output_type |-> "none", schema |-> NoSchema,
                   path |-> "none"]
    BY DEF Init
  <1>2. load.type = "none" /\ load.ok = FALSE
    BY <1>1 DEF NoLoad
  <1>3. TypeOK /\ PhaseExact
    <2>1. argv \in Seq(Args) /\ Settled(argv)
      BY <1>1 DEF Settled
    <2>2. {"max_depth", "output_type", "schema", "path"} \subseteq DOMAIN opts
      BY <1>1
    <2> QED
      BY <1>1, <1>2, <2>1, <2>2 DEF TypeOK, PhaseExact
  <1>4. \A p : Given(argv, p) = {}
    BY <1>1 DEF Given
  <1>5. Operands(argv) = {}
    BY <1>1 DEF Operands
  <1>6. FileNamed /\ OutputAsked /\ DepthAsked /\ SchemaAsked
    BY <1>1, <1>2, <1>4, <1>5 DEF FileNamed, OutputAsked, DepthAsked, SchemaAsked
  <1>7. LiveKnown
    BY <1>1 DEF LiveKnown, Belongs
  <1> QED
    BY <1>3, <1>6, <1>7 DEF IndInv

LEMMA StutterKeeps ==
  ASSUME IndInv, UNCHANGED vars
  PROVE  IndInv'
  BY DEF IndInv, TypeOK, Going, PhaseExact, FileNamed, OutputAsked, DepthAsked, SchemaAsked,
         LiveKnown, Belongs, TheIo, Parses, vars

LEMMA NextKeeps ==
  ASSUME IndInv, [Next]_vars
  PROVE  IndInv'
  <1>1. CASE TakeOption
    BY <1>1, TakeOptionKeeps
  <1>2. CASE TakeFile
    BY <1>2, TakeFileKeeps
  <1>3. CASE EndOfArgs
    BY <1>3, EndOfArgsKeeps
  <1>4. CASE OpenFile
    BY <1>4, OpenFileKeeps
  <1>5. CASE ReadFile
    BY <1>5, ReadFileKeeps
  <1>6. CASE ParseFile
    BY <1>6, ParseFileKeeps
  <1>7. CASE SchemaLoaded
    BY <1>7, SchemaLoadedKeeps
  <1>8. CASE ProcessFile
    BY <1>8, ProcessFileKeeps
  <1>9. CASE Done \/ UNCHANGED vars
    BY <1>9, StutterKeeps DEF Done
  <1> QED
    BY <1>1, <1>2, <1>3, <1>4, <1>5, <1>6, <1>7, <1>8, <1>9 DEF Next

-----------------------------------------------------------------------------
(***************************************************************************)
(* The invariant, and what follows from it.                                *)
(***************************************************************************)

(* At every moment the options are those of the places of the arguments    *)
(* taken so far (jso_cli_parse_args_ex), and what is allocated belongs to  *)
(* a stream, the file being read or a schema option.                       *)
THEOREM Invariance == Spec => []IndInv
  <1>1. Init => IndInv
    BY InitInv
  <1>2. IndInv /\ [Next]_vars => IndInv'
    BY NextKeeps
  <1> QED
    BY <1>1, <1>2, PTL DEF Spec

LEMMA AskedFor ==
  ASSUME IndInv
  PROVE  SuccessAsAsked
  <1> SUFFICES ASSUME rc = "success", opts.output_type # "help"
               PROVE  /\ \E i \in Operands(argv) :
                           Operands(argv) = {i} /\ argv[i].name = load.path
                      /\ IF Given(argv, "output-type") = {} THEN opts.output_type = "pretty"
                         ELSE \E i \in Given(argv, "output-type") :
                                 /\ Given(argv, "output-type") = {i}
                                 /\ opts.output_type = ValueOf(argv, i)
                      /\ load.doc # BadText
                      /\ Given(argv, "depth") # {} =>
                           LET d == ValueOf(argv, LastOf(Given(argv, "depth")))
                           IN  d \in DOMAIN Number /\ Number[d] # 0
                                 => Nesting(load.doc) <= Number[d]
                      /\ Given(argv, "schema") # {} =>
                           IsSchema(opts.schema) /\ Accepts(opts.schema, load.doc)
    BY DEF SuccessAsAsked
  <1>1. Going
    BY DEF Going, IndInv, TypeOK
  <1>2. TypeOK /\ PhaseExact /\ FileNamed /\ OutputAsked /\ DepthAsked /\ SchemaAsked
    BY <1>1 DEF IndInv
  <1>3. /\ load.type = "file" /\ load.ok /\ load.path = opts.path /\ opts.path # "none"
        /\ Parses(load.doc)
    BY <1>2 DEF PhaseExact
  <1>4. \E i \in Operands(argv) : Operands(argv) = {i} /\ argv[i].name = load.path
    BY <1>2, <1>3 DEF FileNamed
  <1>5. IF Given(argv, "output-type") = {} THEN opts.output_type = "pretty"
        ELSE \E i \in Given(argv, "output-type") :
                /\ Given(argv, "output-type") = {i}
                /\ opts.output_type = ValueOf(argv, i)
    BY <1>2, <1>3 DEF OutputAsked
  <1>6. load.doc # BadText /\ Accepts(opts.schema, load.doc)
    BY <1>3 DEF Parses
  <1>7. Given(argv, "schema") # {} => IsSchema(opts.schema)
    BY <1>2, <1>3 DEF SchemaAsked
  <1>8. ASSUME Given(argv, "depth") # {},
               LET d == ValueOf(argv, LastOf(Given(argv, "depth")))
               IN  d \in DOMAIN Number /\ Number[d] # 0
        PROVE  Nesting(load.doc) <= Number[ValueOf(argv, LastOf(Given(argv, "depth")))]
    <2>1. PICK i \in Given(argv, "depth") :
             /\ \A j \in Given(argv, "depth") : j <= i
             /\ opts.max_depth = DepthOf(ValueOf(argv, i))
      BY <1>2, <1>8 DEF DepthAsked
    <2>2. Given(argv, "depth") \subseteq Nat
      <3>1. argv \in Seq(Args)
        BY <1>2 DEF TypeOK
      <3> QED
        BY <3>1 DEF Given
    <2>3. LastOf(Given(argv, "depth")) = i
      <3> DEFINE G == Given(argv, "depth")
      <3>1. \A k \in G : (\A j \in G : j <= k) => k = i
        BY <2>1, <2>2
      <3>2. LastOf(G) \in G /\ \A j \in G : j <= LastOf(G)
        BY <2>1 DEF LastOf
      <3> QED
        BY <3>1, <3>2
    <2>4. opts.max_depth = Number[ValueOf(argv, i)] /\ opts.max_depth # 0
      BY <1>8, <2>1, <2>3 DEF DepthOf
    <2> QED
      BY <1>3, <2>3, <2>4 DEF Parses
  <1> QED
    BY <1>4, <1>5, <1>6, <1>7, <1>8

(* A success is what the arguments ask for by their places, whatever their *)
(* number and order.                                                       *)
THEOREM AlwaysAsAsked == Spec => []SuccessAsAsked
  <1>1. IndInv => SuccessAsAsked
    BY AskedFor
  <1> QED
    BY <1>1, Invariance, PTL

\* What is left behind the file.
LEMMA LeftBehind ==
  ASSUME IndInv, ProcessFile, pc' = "exit"
  PROVE  ReleasedAtEnd'
  <1>1. /\ pc = "loaded" /\ load.type = "file" /\ argv' = argv /\ load' = load
        /\ live' = Destroy(live \ {<<"value", load.type>>})
    BY DEF ProcessFile
  <1>2. LiveKnown /\ TypeOK
    BY <1>1, AtFile
  <1>3. Given(argv, "schema") \subseteq Nat
    <2>1. argv \in Seq(Args)
      BY <1>2 DEF TypeOK
    <2> QED
      BY <2>1 DEF Given
  <1> SUFFICES ASSUME NEW r \in live'
               PROVE  \/ r[1] = "io" /\ ~load.ok /\ load.result = Unset
                      \/ r[1] = "schema" /\ \E i \in Given(argv, "schema") : i > r[2]
    BY <1>1 DEF ReleasedAtEnd
  <1> DEFINE schemas == {x \in live \ {<<"value", load.type>>} : x[1] = "schema"}
  <1>4. /\ r \in live /\ r # <<"value", load.type>> /\ r[1] # "stream"
        /\ r \in schemas => \E s \in schemas : s[2] > r[2]
    BY <1>1 DEF Destroy
  <1>5. Belongs(r)
    BY <1>2, <1>4 DEF LiveKnown
  <1>6. CASE r[1] = "io"
    BY <1>5, <1>6 DEF Belongs
  <1>7. CASE r[1] = "schema"
    <2>1. PICK s \in schemas : s[2] > r[2]
      BY <1>4, <1>7
    <2>2. /\ s[2] \in 1 .. Len(argv) /\ EndsOption(argv, s[2], "schema")
          /\ r[2] \in 1 .. Len(argv) /\ EndsOption(argv, r[2], "schema")
      BY <1>2, <1>5, <1>7, <2>1 DEF LiveKnown, Belongs
    <2>3. CASE s[2] \in Given(argv, "schema")
      BY <1>7, <2>1, <2>3
    <2>4. CASE s[2] - 1 \in Given(argv, "schema") /\ TakesNext(argv, s[2] - 1)
      <3>1. s[2] - 1 # r[2]
        <4>1. SUFFICES ASSUME s[2] - 1 = r[2]
                       PROVE  FALSE
          OBVIOUS
        <4>2. TakesNext(argv, r[2])
          BY <2>4, <4>1
        <4>3. argv[r[2]].kind = "word"
          BY <2>2, <4>2 DEF EndsOption
        <4> QED
          BY <4>2, <4>3 DEF TakesNext, IsOption
      <3>2. s[2] - 1 > r[2]
        BY <2>1, <2>2, <3>1
      <3> QED
        BY <1>7, <2>4, <3>2
    <2> QED
      BY <2>2, <2>3, <2>4 DEF EndsOption
  <1> QED
    BY <1>1, <1>4, <1>5, <1>6, <1>7 DEF Belongs

LEMMA ReleasedKept ==
  ASSUME IndInv, ReleasedAtEnd, [Next]_vars
  PROVE  ReleasedAtEnd'
  <1>1. CASE ProcessFile
    BY <1>1, LeftBehind DEF ReleasedAtEnd, ProcessFile
  <1>2. CASE Done \/ UNCHANGED vars
    BY <1>2 DEF Done, vars, ReleasedAtEnd
  <1>3. CASE OpenFile \/ ReadFile \/ ParseFile
    BY <1>3 DEF OpenFile, ReadFile, ParseFile, ReleasedAtEnd
  <1>4. CASE SchemaLoaded
    BY <1>4 DEF SchemaLoaded, NoLoad, ReleasedAtEnd
  <1>5. CASE EndOfArgs
    <2>1. load.type = "none"
      BY <1>5, AtArgs DEF EndOfArgs
    <2> QED
      BY <1>5, <2>1 DEF EndOfArgs, Open, Exit, ReleasedAtEnd
  <1>6. CASE TakeFile
    <2>1. load.type = "none"
      BY <1>6, AtArgs DEF TakeFile
    <2> QED
      BY <1>6, <2>1 DEF TakeFile, ReleasedAtEnd
  <1>7. CASE TakeOption
    <2>1. load.type = "none" /\ pc = "args" /\ argv \in Seq(Args) /\ Settled(argv)
      BY <1>7, AtArgs DEF TakeOption
    <2>2. \/ Exit("failure") /\ UNCHANGED <<opts, load>>
          \/ \E p \in ParamNames : \E v : Callback(p, v)
      BY <1>7, <2>1, OptionSplit DEF TakeOption
    <2>3. ASSUME NEW p \in ParamNames, NEW v, Callback(p, v)
          PROVE  pc' # "exit" \/ load'.type = "none"
      <3>1. CASE p = "depth"
        BY <2>1, <2>3, <3>1 DEF Callback, CallbackDepth
      <3>2. CASE p = "help"
        BY <2>1, <2>3, <3>2 DEF Callback, CallbackHelp
      <3>3. CASE p = "output-type"
        BY <2>1, <2>3, <3>3 DEF Callback, CallbackOutput
      <3>4. CASE p = "schema"
        BY <2>1, <2>3, <3>4 DEF Callback, CallbackSchema, Open
      <3> QED
        BY <3>1, <3>2, <3>3, <3>4 DEF ParamNames
    <2> QED
      BY <2>1, <2>2, <2>3 DEF ReleasedAtEnd
  <1> QED
    BY <1>1, <1>2, <1>3, <1>4, <1>5, <1>6, <1>7 DEF Next

(* Behind the file nothing is left but the io of a refused file and the    *)
(* schemas that later options replaced.                                    *)
THEOREM AlwaysReleased == Spec => []ReleasedAtEnd
  <1>1. Init => ReleasedAtEnd
    BY DEF Init, ReleasedAtEnd
  <1>2. IndInv /\ ReleasedAtEnd /\ [Next]_vars => ReleasedAtEnd'
    BY ReleasedKept
  <1> QED
    BY <1>1, <1>2, Invariance, PTL DEF Spec
=============================================================================
