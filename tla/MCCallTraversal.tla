-------------------------- MODULE MCCallTraversal --------------------------
(***************************************************************************)
(* A small project for the runs of CallTraversal: a method and its two    *)
(* overrides, a caller and a helper.                                       *)
(***************************************************************************)
EXTENDS CallTraversal

CONSTANTS main, base, over, leafover, helper, Base, Over

MCFuncs == {main, base, over, leafover, helper}

MCWithin == [f \in MCFuncs |-> CASE f = base -> {Base} [] f = over -> {Over} [] OTHER -> {}]

Call(f, g, type, sure) == [from |-> f, to |-> g, declared |-> type, trusted |-> sure, chain |-> 0]
Dispatch(f, g) == [from |-> f, to |-> g, trusted |-> TRUE]

\* The overridden method is called through its own type, through the type
\* of an override, and without a known type; helpers call back.
MCSites ==
  {Call(main, base, Base, TRUE), Call(main, base, Over, TRUE),
   Call(helper, base, NoType, TRUE), Call(over, helper, NoType, FALSE),
   Call(leafover, main, NoType, TRUE), Call(main, helper, NoType, TRUE)}

\* DetectOverridesAndDispatches: from a method to every override below it.
MCOverrides == {Dispatch(base, over), Dispatch(base, leafover), Dispatch(over, leafover)}

=============================================================================
