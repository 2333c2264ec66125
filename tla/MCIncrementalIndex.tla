------------------------- MODULE MCIncrementalIndex -------------------------
(***************************************************************************)
(* The project of the runs of IncrementalIndex.  A file has at most two    *)
(* contents of the same size, and version 1 is the one found first.        *)
(***************************************************************************)
EXTENDS IncrementalIndex

CONSTANTS a, b, c

\* refs is a set of <<file, version, target>>.
References(refs) ==
    [f \in Files |-> [v \in Versions |-> {g \in Files : <<f, v, g>> \in refs}]]

\* Flat: a imports and calls b in both versions and c in version 2; b and c
\* refer to nothing.
Flat == References({<<a, 1, b>>, <<a, 2, b>>, <<a, 2, c>>})

SameSize == [f \in Files |-> [v \in Versions |-> 1]]
=============================================================================
