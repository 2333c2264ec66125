----------------------------- MODULE ProjectMap -----------------------------
(***************************************************************************)
(* What the cross-project index promises: a map from projects to what they *)
(* registered.  A call that registers or unregisters a project takes       *)
(* effect in one step, for that project only; if it reports an error, or   *)
(* its process dies before that step, it has no effect at all.             *)
(***************************************************************************)
CONSTANTS Processes, Projects, Entries, Nobody

VARIABLES
    index,      \* the entry of each project, or nothing
    status,     \* of the call of each process
    key,        \* the project it is about
    entry       \* what is to be registered; nothing to unregister

Init ==
    /\ index = [p \in Projects |-> Nobody]
    /\ status = [w \in Processes |-> "none"]
    /\ key = [w \in Processes |-> Nobody]
    /\ entry = [w \in Processes |-> Nobody]

To(w, s) == status' = [status EXCEPT ![w] = s]

Call(w) ==
    /\ status[w] = "none"
    /\ To(w, "called")
    /\ \E p \in Projects : key' = [key EXCEPT ![w] = p]
    /\ \E e \in Entries \union {Nobody} : entry' = [entry EXCEPT ![w] = e]
    /\ UNCHANGED index

Apply(w) ==
    /\ status[w] = "called"
    /\ To(w, "done")
    /\ index' = [index EXCEPT ![key[w]] = entry[w]]
    /\ UNCHANGED <<key, entry>>

Fail(w) ==
    /\ status[w] = "called"
    /\ To(w, "failed")
    /\ UNCHANGED <<index, key, entry>>

\* The call is over, or its process is.
End(w) ==
    /\ status[w] # "none"
    /\ To(w, "none")
    /\ key' = [key EXCEPT ![w] = Nobody]
    /\ entry' = [entry EXCEPT ![w] = Nobody]
    /\ UNCHANGED index

Next == \E w \in Processes : Call(w) \/ Apply(w) \/ Fail(w) \/ End(w)

Spec == Init /\ [][Next]_<<index, status, key, entry>>
=============================================================================
