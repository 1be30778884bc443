-------------------------- MODULE ValidationVerdict --------------------------
(***************************************************************************)
(* What a validation promises its caller: the schema documents are parsed, *)
(* an instance is walked, and the verdict and the error the caller reads   *)
(* are those of the reference definition.                                  *)
(***************************************************************************)
EXTENDS ValidationStream, SchemaSemantics

\* The validation returns VALID for exactly the instances the schema accepts.
VerdictExact ==
  phase = "done" => (verdict = "VALID" <=> Accepts(job.root.raw, job.doc))

\* An instance the validation accepts leaves no error behind in the schema
\* object, whatever branches failed on the way.
AcceptedClean == verdict = "VALID" => error = "NONE"

(***************************************************************************)
(* The flags that collect the results of anyOf and oneOf.                  *)
(***************************************************************************)
ChildrenOf(p, comp) ==
  {c \in 1 .. Size(stack) : /\ stack.positions[c].parent = p
                            /\ stack.positions[c].composition_type = comp}

\* While a value is walked, the flag of a position in its layer is only set
\* when a child position's schema accepts that value.
FlagsJustified ==
  \A p \in 1 .. Size(stack) :
    LET pos == stack.positions[p]
        Accepted(comp) ==
          \E c \in ChildrenOf(p, comp) :
            Accepts(stack.positions[c].value.raw, frames[pos.depth + 1].inst)
    IN  calls = <<>> /\ ~ IsSentinel(pos) /\ pos.depth < Len(frames) =>
          /\ pos.out.any_of_valid => Accepted("ANY")
          /\ pos.out.one_of_valid => Accepted("ONE")
=============================================================================
