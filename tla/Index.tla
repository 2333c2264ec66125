------------------------------- MODULE Index -------------------------------
(***************************************************************************)
(* What an index promises its user, who edits files and has them indexed: *)
(* a run takes what it reads and nothing older, and what the next run will *)
(* not look at again is in the graph as it is on disk.                     *)
(***************************************************************************)
CONSTANTS
    Files,
    Versions,   \* contents a file can have
    None        \* no content

VARIABLES
    disk,       \* content of every file
    nodes,      \* files the graph has a node of
    held,       \* the content the graph has of each file
    running,    \* is a run under way?
    read,       \* what it has read
    settled,    \* files the next run will not look at again
    failed      \* files reported as unreadable

vars == <<disk, nodes, held, running, read, settled, failed>>

Nothing == [f \in Files |-> None]

Init ==
    /\ disk \in [Files -> Versions]
    /\ nodes = {} /\ held = Nothing
    /\ running = FALSE /\ read = Nothing
    /\ settled = {} /\ failed = {}

\* A file is written, created or deleted: whenever that is, it is looked at
\* again.  A file that is gone before the graph has it needs no look.
Change(f, v) ==
    /\ disk' = [disk EXCEPT ![f] = v]
    /\ \/ settled' = settled \ {f}
       \/ /\ v = None /\ f \notin nodes /\ held[f] = None
          /\ settled' = settled \union {f}
    /\ UNCHANGED <<nodes, held, running, read, failed>>

\* While a run is under way nothing is promised.
Begin ==
    /\ ~running
    /\ running' = TRUE /\ settled' = {}
    /\ UNCHANGED <<disk, nodes, held, read, failed>>

Read(f) ==
    /\ running
    /\ \E v \in {disk[f], None} : read' = [read EXCEPT ![f] = v]
    /\ UNCHANGED <<disk, nodes, held, running, settled, failed>>

\* The graph loses files, and gets what was read of them.
Put ==
    /\ nodes' \subseteq Files
    /\ DOMAIN held' = Files
    /\ \A f \in Files : held'[f] \in {held[f], None, read[f]}

Write ==
    /\ running /\ Put
    /\ UNCHANGED <<disk, running, read, settled, failed>>

\* f is in the graph as it is on disk, or neither here nor there.
Shown(f) == (f \in nodes <=> disk[f] # None) /\ held[f] = disk[f]

\* A run ends, whether it is done or not.
End ==
    /\ running /\ Put
    /\ running' = FALSE /\ read' = Nothing
    /\ failed' \subseteq failed \union {f \in Files : read[f] = None}
    /\ settled' \subseteq {f \in Files : Shown(f)' \/ f \in failed'}
    /\ UNCHANGED disk

Next ==
    \/ \E f \in Files, v \in Versions \union {None} : Change(f, v)
    \/ Begin
    \/ \E f \in Files : Read(f)
    \/ Write
    \/ End

Spec == Init /\ [][Next]_vars
=============================================================================
