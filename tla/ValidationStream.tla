--------------------------- MODULE ValidationStream ---------------------------
(***************************************************************************)
(* jso_schema_validate: the walk of an instance by validate_instance and   *)
(* the handlers of the validation stream it calls, on the stack of         *)
(* StackOps.  The program is sequential, so phase is its program counter:  *)
(* every iteration of a handler's loop over the top layer is one step, and *)
(* the call that ends a loop is a step too.                                *)
(*                                                                         *)
(*   frames   the recursion of validate_instance: the values being walked, *)
(*            outermost first, and how many of their members were entered  *)
(*   it       the layer iterator of the handler that runs                  *)
(*   calls    the loops inside the validation of one position (a property  *)
(*            name, a contains keyword), outermost first; contains nests   *)
(*   job      the schema and the instance of this validation               *)
(*   verdict  the final result; the root position's memory outlives the    *)
(*            removal of the bottom layer, so it is read there             *)
(*                                                                         *)
(* Failed allocations, the only source of ERROR in drafts 4 and 6, are not *)
(* part of this module.                                                    *)
(***************************************************************************)
EXTENDS SchemaOps

CONSTANT
  Jobs         \* validations: [root : a schema identifier, doc : an instance]

ASSUME JobsAssumption == {j.root : j \in Jobs} \subseteq Schemas

VARIABLES stack, error, frames, phase, it, calls, job, verdict

vars == <<stack, error, frames, phase, it, calls, job, verdict>>

M == [stack |-> stack, error |-> error]

Becomes(m) == stack' = m.stack /\ error' = m.error

NoIterator == [index |-> 0, finished |-> FALSE]

Init ==
  /\ job \in Jobs
  /\ stack = EmptyStack
  /\ frames = <<[inst |-> job.doc, next |-> 1]>>
  /\ error = "NONE"
  /\ phase = "init"
  /\ it = NoIterator
  /\ calls = <<>>
  /\ verdict = "NONE"

Frame == frames[Len(frames)]
Inst == Frame.inst

(***************************************************************************)
(* Loops.  A loop's step is taken for the position the iterator returns;   *)
(* its end, when the iterator returns NULL.                                *)
(***************************************************************************)
ForwardLoop(ph) == phase = ph /\ ForwardNext(stack, it) # NoPos
ForwardEnd(ph)  == phase = ph /\ ForwardNext(stack, it) = NoPos
ReverseLoop(ph) == phase = ph /\ ReverseNext(stack, it) # NoPos
ReverseEnd(ph)  == phase = ph /\ ReverseNext(stack, it) = NoPos

ForwardAt == ForwardNext(stack, it)
ReverseAt == ReverseNext(stack, it)

StartForward(ph) == phase' = ph /\ it' = ForwardStart(stack)
StartReverse(ph) == phase' = ph /\ it' = ReverseStart(stack)

\* A handler that iterates over the top layer while it fills a new one.
StartAboveLayer(ph) ==
  /\ StartForward(ph)
  /\ stack' = PushSeparator(stack)
  /\ UNCHANGED error

\* stream_init: the position of the root schema.
StreamInit ==
  /\ phase = "init"
  /\ stack' = PushBasic(stack, job.root, NoPos)
  /\ phase' = "enter"
  /\ UNCHANGED <<error, frames, it, calls, job, verdict>>

(***************************************************************************)
(* object_start and the first loop of array_start: composition where the   *)
(* type fits, a type error where it does not.                              *)
(***************************************************************************)
IsTypeOf(s, type) == s.type \in {type, "MIXED"}

CheckStart(m, p, type) ==
  IF IsTypeOf(SchemaAt(m, p), type)
  THEN CompositionCheck(m, p)
  ELSE Fail(m, p, TypeFailure)

Enter ==
  /\ phase = "enter"
  /\ StartForward(CASE Inst.t = "OBJECT" -> "object_start"
                    [] Inst.t = "ARRAY" -> "array_start"
                    [] OTHER -> "value_check")
  /\ UNCHANGED <<stack, error, frames, calls, job, verdict>>

ObjectStart ==
  /\ \/ /\ ForwardLoop("object_start")
        /\ Becomes(CheckStart(M, ForwardAt, "OBJECT"))
        /\ it' = ForwardStep(it)
        /\ UNCHANGED phase
     \/ /\ ForwardEnd("object_start")
        /\ phase' = "member"
        /\ UNCHANGED <<stack, error, it>>
  /\ UNCHANGED <<frames, calls, job, verdict>>

(***************************************************************************)
(* object_key: a new layer for the schemas of the member's value.          *)
(***************************************************************************)
Key == Inst.kids[Frame.next].key

ObjectKey ==
  /\ phase = "member"
  /\ Inst.t = "OBJECT"
  /\ Frame.next <= Len(Inst.kids)
  /\ StartAboveLayer("object_key")
  /\ UNCHANGED <<frames, calls, job, verdict>>

Counted(m, p) == WithOut(m, p, [Out(m, p) EXCEPT !.count = @ + 1])

\* The part of object_key after propertyNames.
PushMember(m, p) ==
  LET s   == SchemaAt(m, p)
      ids == MatchingSchemas(s, Key)
  IN  IF ids # <<>> THEN PushBasics(m, ids, p)
      ELSE IF s.closed THEN FailFinal(m, p, KeywordFailure)
      ELSE PushBasics(m, s.additional, p)

TakesKey(m, p) ==
  /\ IsValid(m, p)
  /\ SchemaAt(m, p).type = "OBJECT"
  /\ ~ Out(m, p).final

ObjectKeyPosition ==
  LET p == ForwardAt
      m == Counted(M, p)
      s == SchemaAt(m, p)
      tooMany == Out(m, p).count > s.max_properties
      named == PushBasics(m, s.property_names, p)
  IN  /\ ForwardLoop("object_key")
      /\ it' = ForwardStep(it)
      /\ IF TakesKey(m, p) /\ ~ tooMany /\ s.property_names # <<>>
         THEN /\ Becomes(named)
              /\ calls' = <<[pos |-> p, top |-> Size(named.stack), item |-> 0,
                             inst |-> Inst, valid |-> FALSE,
                             at |-> ForwardStart(named.stack)]>>
              /\ phase' = "names_check"
         ELSE /\ Becomes(IF ~ TakesKey(m, p) THEN m
                         ELSE IF tooMany THEN FailFinal(m, p, KeywordFailure)
                         ELSE PushMember(m, p))
              /\ UNCHANGED <<calls, phase>>
      /\ UNCHANGED <<frames, job, verdict>>

\* The key's handler is done: walk the member's value.
ObjectKeyEnd ==
  /\ ForwardEnd("object_key")
  /\ frames' = Append([frames EXCEPT ![Len(frames)].next = @ + 1],
                      [inst |-> Inst.kids[Frame.next].val, next |-> 1])
  /\ phase' = "enter"
  /\ UNCHANGED <<stack, error, it, calls, job, verdict>>

(***************************************************************************)
(* The loops inside one position's validation.                             *)
(***************************************************************************)
Call == calls[Len(calls)]
WithCall(c) == calls' = [calls EXCEPT ![Len(calls)] = c]
CallForward == ForwardNext(stack, Call.at)
CallReverse == ReverseNext(stack, Call.at)

\* Both loops check the composition of the whole new layer, for propertyNames
\* including what other positions pushed for this key.
CallCheck(check, next) ==
  /\ phase = check
  /\ IF CallForward # NoPos
     THEN /\ Becomes(CompositionCheck(M, CallForward))
          /\ WithCall([Call EXCEPT !.at = ForwardStep(@)])
          /\ UNCHANGED phase
     ELSE /\ phase' = next
          /\ WithCall([Call EXCEPT !.at = ReverseStart(stack)])
          /\ UNCHANGED <<stack, error>>

NamesCheck ==
  /\ CallCheck("names_check", "names_validate")
  /\ UNCHANGED <<frames, it, job, verdict>>

JudgeName(m, p) ==
  IF ~ Judgeable(m, p) THEN m
  ELSE Propagate(IF SchemaAt(m, p).type = "STRING"
                 THEN ValidateName(m, p, Key) ELSE m, p)

NamesValidate ==
  /\ phase = "names_validate"
  /\ CallReverse # NoPos
  /\ Becomes(JudgeName(M, CallReverse))
  /\ WithCall([Call EXCEPT !.at = ReverseStep(stack, @)])
  /\ UNCHANGED <<frames, phase, it, job, verdict>>

\* The result is read, the layer (whatever else it held) replaced by an empty
\* one, and the key goes on to the member's schemas unless the name failed.
NamesEnd ==
  /\ phase = "names_validate"
  /\ CallReverse = NoPos
  /\ WithCall([Call EXCEPT !.valid = IsValid(M, Call.top)])
  /\ stack' = LayerRemove(stack)
  /\ phase' = "names_reopen"
  /\ UNCHANGED <<error, frames, it, job, verdict>>

NamesReopen ==
  /\ phase = "names_reopen"
  /\ stack' = PushSeparator(stack)
  /\ phase' = "names_result"
  /\ UNCHANGED <<error, frames, it, calls, job, verdict>>

NamesResult ==
  /\ phase = "names_result"
  /\ Becomes(IF Call.valid THEN PushMember(M, Call.pos)
             ELSE FailFinal(M, Call.pos, KeywordFailure))
  /\ calls' = <<>>
  /\ phase' = "object_key"
  /\ UNCHANGED <<frames, it, job, verdict>>

(***************************************************************************)
(* array_start, array_append and array_end.                                *)
(***************************************************************************)
ArrayStart ==
  /\ \/ /\ ForwardLoop("array_start")
        /\ Becomes(CheckStart(M, ForwardAt, "ARRAY"))
        /\ it' = ForwardStep(it)
        /\ UNCHANGED phase
     \/ /\ ForwardEnd("array_start")
        /\ StartReverse("array_propagate")
        /\ UNCHANGED <<stack, error>>
  /\ UNCHANGED <<frames, calls, job, verdict>>

\* Every position propagates, also the ones not validated yet.
ArrayPropagate ==
  /\ \/ /\ ReverseLoop("array_propagate")
        /\ Becomes(Propagate(M, ReverseAt))
        /\ it' = ReverseStep(stack, it)
        /\ UNCHANGED phase
     \/ /\ ReverseEnd("array_propagate")
        /\ StartAboveLayer("array_items")
  /\ UNCHANGED <<frames, calls, job, verdict>>

PushItem(m, p) ==
  IF Out(m, p).final THEN m
  ELSE PushBasics(m, ItemSchemas(SchemaAt(m, p), Out(m, p).count), p)

ArrayItems ==
  /\ \/ /\ ForwardLoop("array_items")
        /\ Becomes(IF IsValid(M, ForwardAt) /\ SchemaAt(M, ForwardAt).type = "ARRAY"
                   THEN PushItem(M, ForwardAt) ELSE M)
        /\ it' = ForwardStep(it)
        /\ UNCHANGED phase
     \/ /\ ForwardEnd("array_items")
        /\ phase' = "member"
        /\ UNCHANGED <<stack, error, it>>
  /\ UNCHANGED <<frames, calls, job, verdict>>

ArrayItem ==
  /\ phase = "member"
  /\ Inst.t = "ARRAY"
  /\ Frame.next <= Len(Inst.kids)
  /\ frames' = Append([frames EXCEPT ![Len(frames)].next = @ + 1],
                      [inst |-> Inst.kids[Frame.next].val, next |-> 1])
  /\ phase' = "enter"
  /\ UNCHANGED <<stack, error, it, calls, job, verdict>>

ArrayAppend ==
  /\ phase = "append"
  /\ StartAboveLayer("array_append")
  /\ UNCHANGED <<frames, calls, job, verdict>>

AppendItem(m, p) ==
  LET s == SchemaAt(m, p)
      n == Out(m, p).count
  IN  IF Out(m, p).final THEN m
      ELSE IF n > s.max_items \/ AdditionalItemRefused(s, n)
      THEN Propagate(FailFinal(m, p, KeywordFailure), p)
      ELSE PushItem(m, p)

ArrayAppendPosition ==
  /\ \/ /\ ForwardLoop("array_append")
        /\ LET p == ForwardAt
               m == Counted(M, p)
           IN  Becomes(IF SchemaAt(m, p).type = "ARRAY"
                       THEN AppendItem(m, p) ELSE m)
        /\ it' = ForwardStep(it)
        /\ UNCHANGED phase
     \/ /\ ForwardEnd("array_append")
        /\ phase' = "member"
        /\ UNCHANGED <<stack, error, it>>
  /\ UNCHANGED <<frames, calls, job, verdict>>

\* Mutant: the layer the last append opened stays.
ArrayEndWithoutRemove ==
  /\ phase = "member"
  /\ Inst.t = "ARRAY"
  /\ Frame.next > Len(Inst.kids)
  /\ phase' = "value"
  /\ UNCHANGED <<stack, error, frames, it, calls, job, verdict>>

\* array_end drops the layer the last append opened; stream_value follows.
ArrayEnd ==
  /\ phase = "member"
  /\ Inst.t = "ARRAY"
  /\ Frame.next > Len(Inst.kids)
  /\ stack' = LayerRemove(stack)
  /\ phase' = "value"
  /\ UNCHANGED <<error, frames, it, calls, job, verdict>>

(***************************************************************************)
(* stream_value.                                                           *)
(***************************************************************************)
ObjectEnd ==
  /\ phase = "member"
  /\ Inst.t = "OBJECT"
  /\ Frame.next > Len(Inst.kids)
  /\ StartForward("value_check")
  /\ UNCHANGED <<stack, error, frames, calls, job, verdict>>

\* object_pre_value pushes every schema dependency, whichever keys the
\* instance has.
PreValue(m, p) ==
  LET s == SchemaAt(m, p)
      deps == Picked(s.dependencies,
                     {i \in DOMAIN s.dependencies : s.dependencies[i].schema # <<>>})
  IN  IF s.type # "OBJECT" THEN m
      ELSE PushBasics(m, [i \in DOMAIN deps |-> deps[i].schema[1]], p)

ValueCheck ==
  /\ \/ /\ ForwardLoop("value_check")
        /\ Becomes(IF ~ IsValid(M, ForwardAt) THEN M
                   ELSE IF Inst.t = "OBJECT" THEN PreValue(M, ForwardAt)
                   ELSE CompositionCheck(M, ForwardAt))
        /\ it' = ForwardStep(it)
        /\ UNCHANGED phase
     \/ /\ ForwardEnd("value_check")
        /\ phase' = "value"
        /\ UNCHANGED <<stack, error, it>>
  /\ UNCHANGED <<frames, calls, job, verdict>>

StartValidate ==
  /\ phase = "value"
  /\ StartReverse("value_validate")
  /\ UNCHANGED <<stack, error, frames, calls, job, verdict>>

\* The position is an array that passed every check before contains.
ReachesContains(m, p, inst) ==
  LET s == SchemaAt(m, p)
  IN  /\ s.type = "ARRAY"
      /\ s.contains # <<>>
      /\ ValueFailure(s, Out(m, p), inst) = NoFailure

\* The keywords before contains have passed: opens the layer of the contains
\* schema of position p.
ContainsStart(p, inst, outer) ==
  /\ Becomes([ValidateValue(M, p, inst) EXCEPT !.stack = PushSeparator(@)])
  /\ calls' = Append(outer, [pos |-> p, top |-> Size(stack) + 2, item |-> 1,
                             inst |-> inst, valid |-> FALSE,
                             at |-> NoIterator])
  /\ phase' = "contains_push"

ValueValidate ==
  LET p == ReverseAt IN
  /\ ReverseLoop("value_validate")
  /\ it' = ReverseStep(stack, it)
  /\ IF Judgeable(M, p) /\ ReachesContains(M, p, Inst)
     THEN ContainsStart(p, Inst, calls)
     ELSE /\ Becomes(Propagate(IF Judgeable(M, p)
                               THEN ValidateValue(M, p, Inst) ELSE M, p))
          /\ UNCHANGED <<phase, calls>>
  /\ UNCHANGED <<frames, job, verdict>>

\* The layer is removed and validate_instance returns: to the next member of
\* the value around it, or with the final result.
ValueEnd ==
  /\ ReverseEnd("value_validate")
  /\ stack' = LayerRemove(stack)
  /\ frames' = SubSeq(frames, 1, Len(frames) - 1)
  /\ IF Len(frames) = 1
     THEN phase' = "done" /\ verdict' = stack.positions[1].out.result
     ELSE /\ phase' = IF frames[Len(frames) - 1].inst.t = "ARRAY"
                      THEN "append" ELSE "member"
          /\ UNCHANGED verdict
  /\ UNCHANGED <<error, it, calls, job>>

(***************************************************************************)
(* The contains loop of array_value: one pass over the layer of the        *)
(* contains schema per item, until an item is accepted.                    *)
(***************************************************************************)
ContainsPush ==
  /\ phase = "contains_push"
  /\ LET m == PushBasics(M, SchemaAt(M, Call.pos).contains, Call.pos)
     IN  /\ Becomes(m)
         /\ WithCall([Call EXCEPT !.at = ForwardStart(m.stack)])
  /\ phase' = "contains_check"
  /\ UNCHANGED <<frames, it, job, verdict>>

ContainsCheck ==
  /\ CallCheck("contains_check", "contains_item")
  /\ UNCHANGED <<frames, it, job, verdict>>

\* Mutant: the outcomes for the last item stay.
ContainsItemWithoutReset ==
  /\ phase = "contains_item"
  /\ Call.item <= Len(Call.inst.kids)
  /\ WithCall([Call EXCEPT !.at = ReverseStart(stack)])
  /\ phase' = "contains_validate"
  /\ UNCHANGED <<stack, error, frames, it, job, verdict>>

ContainsItem ==
  /\ phase = "contains_item"
  /\ Call.item <= Len(Call.inst.kids)
  /\ stack' = IF Call.item = 1 THEN stack ELSE LayerResetPositions(stack)
  /\ WithCall([Call EXCEPT !.at = ReverseStart(stack)])
  /\ phase' = "contains_validate"
  /\ UNCHANGED <<error, frames, it, job, verdict>>

\* Unlike stream_value, a position that is not checked does not propagate.
ContainsValidate ==
  LET p == CallReverse
      item == Call.inst.kids[Call.item].val
      stepped == [Call EXCEPT !.at = ReverseStep(stack, @)]
  IN  /\ phase = "contains_validate"
      /\ p # NoPos
      /\ IF Judgeable(M, p) /\ ReachesContains(M, p, item)
         THEN ContainsStart(p, item, [calls EXCEPT ![Len(calls)] = stepped])
         ELSE /\ Becomes(IF Judgeable(M, p)
                         THEN Propagate(ValidateValue(M, p, item), p) ELSE M)
              /\ WithCall(stepped)
              /\ UNCHANGED phase
      /\ UNCHANGED <<frames, it, job, verdict>>

\* Mutant: the same item is tried again.
ContainsNextSameItem ==
  /\ phase = "contains_validate"
  /\ CallReverse = NoPos
  /\ IF IsValid(M, Call.top)
     THEN /\ phase' = "contains_remove"
          /\ WithCall([Call EXCEPT !.valid = TRUE])
          /\ error' = "NONE"
     ELSE /\ phase' = "contains_item"
          /\ UNCHANGED <<calls, error>>
  /\ UNCHANGED <<stack, frames, it, job, verdict>>

\* The pass over an item ends: the top position of the layer tells whether
\* the item is the one contains asks for.
ContainsNext ==
  /\ phase = "contains_validate"
  /\ CallReverse = NoPos
  /\ IF IsValid(M, Call.top)
     THEN /\ phase' = "contains_remove"
          /\ WithCall([Call EXCEPT !.valid = TRUE])
          /\ error' = "NONE"
     ELSE /\ phase' = "contains_item"
          /\ WithCall([Call EXCEPT !.item = @ + 1])
          /\ UNCHANGED error
  /\ UNCHANGED <<stack, frames, it, job, verdict>>

ContainsRemove ==
  /\ \/ phase = "contains_remove"
     \/ phase = "contains_item" /\ Call.item > Len(Call.inst.kids)
  /\ stack' = LayerRemove(stack)
  /\ phase' = "contains_return"
  /\ UNCHANGED <<error, frames, it, calls, job, verdict>>

\* array_value returns to the reverse loop that called it, which stores the
\* result and propagates it.  The items refused on the way have made the
\* position final and INVALID, as the parent of the contains position; the
\* VALID returned for a later one overwrites that.
ContainsReturn ==
  /\ phase = "contains_return"
  /\ LET m == IF Call.valid THEN SetResult(M, Call.pos, "VALID")
              ELSE FailFinal(M, Call.pos, KeywordFailure)
     IN  Becomes(Propagate(m, Call.pos))
  /\ calls' = SubSeq(calls, 1, Len(calls) - 1)
  /\ phase' = IF Len(calls) = 1 THEN "value_validate" ELSE "contains_validate"
  /\ UNCHANGED <<frames, it, job, verdict>>

Done == phase = "done" /\ UNCHANGED vars

Next ==
  \/ StreamInit
  \/ Enter
  \/ ObjectStart \/ ObjectKey \/ ObjectKeyPosition \/ ObjectKeyEnd
  \/ NamesCheck \/ NamesValidate \/ NamesEnd \/ NamesReopen \/ NamesResult
  \/ ArrayStart \/ ArrayPropagate \/ ArrayItems \/ ArrayItem
  \/ ArrayAppend \/ ArrayAppendPosition \/ ArrayEnd
  \/ ObjectEnd \/ ValueCheck \/ StartValidate \/ ValueValidate \/ ValueEnd
  \/ ContainsPush \/ ContainsCheck \/ ContainsItem \/ ContainsValidate
  \/ ContainsNext \/ ContainsRemove \/ ContainsReturn
  \/ Done

Spec == Init /\ [][Next]_vars

\* The validator runs whenever it can take a step: it is called synchronously
\* and waits for nothing.
FairSpec == Spec /\ WF_vars(Next)

-----------------------------------------------------------------------------
(***************************************************************************)
(* The stack while an instance is walked.                                  *)
(***************************************************************************)

\* How many separators a handler may rely on: one for each container around
\* the value that is walked, one for the layer a handler fills for the next
\* member, one for each contains loop in progress.
ExpectedDepth ==
  LET around == Len(frames) - 1
  IN  CASE phase \in {"init", "done"} -> 0
        [] phase = "member" -> IF Inst.t = "ARRAY" THEN around + 1 ELSE around
        [] phase \in {"object_key", "names_check", "names_validate",
                      "names_result", "array_items", "array_append"} -> around + 1
        [] phase \in {"contains_push", "contains_check", "contains_item",
                      "contains_validate", "contains_remove"} ->
             around + Len(calls)
        [] phase = "contains_return" -> around + Len(calls) - 1
        [] OTHER -> around

\* The handlers open and remove layers in step with the nesting of the
\* instance, the stack keeps its links, layer starts, parents and depths exact
\* on the way, and it is empty again when the validation ends.
LayersBalanced ==
  /\ ChainExact(stack) /\ LayerStartsExact(stack)
  /\ ParentsBelow(stack) /\ DepthsExact(stack)
  /\ stack.depth = ExpectedDepth
  /\ phase = "done" => Size(stack) = 0

ForwardPhases == {"object_start", "array_start", "array_items",
                  "array_append", "object_key", "value_check"}
ReversePhases == {"array_propagate", "value_validate"}

OfWalkedValue(p) ==
  /\ p \in 1 .. Size(stack)
  /\ stack.positions[p].depth = Len(frames) - 1

\* Whatever was opened, filled and removed above it, a handler's iteration
\* only returns positions of the layer of the value that is walked, and a
\* loop inside a validation goes back to the live position it was called for.
HandlerInLayer ==
  /\ phase \in ForwardPhases /\ ForwardAt # NoPos => OfWalkedValue(ForwardAt)
  /\ phase \in ReversePhases /\ ReverseAt # NoPos => OfWalkedValue(ReverseAt)
  /\ \A k \in DOMAIN calls :
       /\ calls[k].pos \in 1 .. Size(stack)
       /\ stack.positions[calls[k].pos].depth = Len(frames) - 2 + k

(***************************************************************************)
(* Results.                                                                *)
(***************************************************************************)

\* When the layer of a value is removed, no failure in it is forgotten: the
\* parent of an invalid position that every instance must satisfy (a
\* property or item, allOf, $ref) is invalid too.
NoFailureLost ==
  [][phase = "value_validate" /\ Len(frames') < Len(frames) =>
       \A p \in LayerPositions(stack) :
         LET pos == stack.positions[p]
         IN  /\ pos.out.result = "INVALID"
             /\ pos.composition_type \in {"NONE", "ALL", "REF"}
             /\ pos.parent # NoPos
             => stack.positions[pos.parent].out.result = "INVALID"]_vars

\* A final validation result is final: until its position is reset or
\* removed, no later step changes it. The step that stores the result of
\* contains is left out for the position it stores it in, which it overwrites
\* without asking whether a result is there.
FinalStable ==
  [][\A p \in 1 .. Size(stack) :
       /\ phase = "contains_return" => p # Call.pos
       /\ stack.positions[p].out.final
       /\ p <= Size(stack')
       /\ stack'.positions[p].out.final
       => stack'.positions[p].out.result = stack.positions[p].out.result]_vars

\* Every validation ends.
Termination == <>(phase = "done")
=============================================================================
