--------------------------- MODULE MCCallQueries ---------------------------
(***************************************************************************)
(* A small project for the runs of CallQueries: a class, a class that     *)
(* overrides one of its methods, a class that has none of its own, a      *)
(* service that calls them, a log method and a getter.                    *)
(***************************************************************************)
EXTENDS CallQueries

CONSTANTS save, over, setup, svc, log, get, Base, Over, Leaf

MCFuncs == {save, over, setup, svc, log, get}
MCOwner == [f \in MCFuncs |-> CASE f \in {save, setup} -> Base [] f = over -> Over [] OTHER -> NoType]
MCName == [f \in MCFuncs |-> CASE f \in {save, over} -> "save" [] f = setup -> "setup" [] OTHER -> "run"]
MCWithin == [f \in MCFuncs |-> {MCOwner[f]} \ {NoType}]

Call(f, g, type, line) == [from |-> f, to |-> g, declared |-> type, trusted |-> TRUE, chain |-> line]

\* Calls through the type of an override and of a class without methods,
\* a chain of two calls, callbacks, and what only the log method calls.
MCSites == {Call(svc, save, Over, 0), Call(svc, setup, Leaf, 7), Call(setup, save, NoType, 7),
            Call(save, log, NoType, 0), Call(log, setup, NoType, 0), Call(save, get, NoType, 0)}

MCOverrides == {[from |-> save, to |-> over, trusted |-> TRUE]}
MCParents == {<<Leaf, Over>>, <<Over, Base>>, <<Over, Leaf>>}
MCHints == {<<save, setup>>}
MCSymbols == {[type |-> Leaf, name |-> "save"], [type |-> Leaf, name |-> "setup"],
              [type |-> Base, name |-> "save"]}

=============================================================================
