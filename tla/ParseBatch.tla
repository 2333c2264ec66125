----------------------------- MODULE ParseBatch -----------------------------
(***************************************************************************)
(* What parsing a batch promises the rest of an index run: every file of   *)
(* the batch is accounted for exactly once, as parsed or as failed, in an  *)
(* order that is not defined, and then the call returns.                   *)
(***************************************************************************)
EXTENDS Naturals

CONSTANT N      \* number of files in the batch; a file is its position

VARIABLES
    outcome,    \* what is recorded of every file so far
    returned    \* has the call returned?

Files == 1 .. N
Open == {i \in Files : outcome[i] = "open"}

Init ==
    /\ outcome = [i \in Files |-> "open"]
    /\ returned = FALSE

Account(i) ==
    /\ outcome[i] = "open"
    /\ \E o \in {"parsed", "failed"} : outcome' = [outcome EXCEPT ![i] = o]
    /\ UNCHANGED returned

Return ==
    /\ Open = {}
    /\ returned' = TRUE
    /\ UNCHANGED outcome

Next == (\E i \in Files : Account(i)) \/ Return

Spec == Init /\ [][Next]_<<outcome, returned>>

\* Nobody waits for anything else: each file is taken up, and the call returns.
FairSpec == Spec /\ WF_<<outcome, returned>>(Next)
=============================================================================
